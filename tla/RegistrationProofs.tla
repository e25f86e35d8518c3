------------------------- MODULE RegistrationProofs -------------------------
(***************************************************************************)
(* A registration that succeeded stays, one that fails is rolled back, and *)
(* the pin that was mailed last is stored, for any number of users and     *)
(* requests and any number of faults.                                      *)
(***************************************************************************)
EXTENDS Registration, FiniteSetTheorems, TLAPS

Unrivalled == Users \ overlapped
Lasting(u) == AccountsOf(u) # {} /\ user[u].consent # {} /\ ~user[u].link

(* Users without overlapping requests have at most one that may write.     *)
OneRival == \A u \in Unrivalled : \A q1, q2 \in Rival(u) : q1 = q2

(* What a request is given when it starts, for as long as it runs.         *)
Shaped(q) ==
    /\ q.pc = "idle" => q.link = "end"
    /\ q.pc = "get" => q.op # "register"
    /\ q.op = "register" => q.link = "end" /\ q.given # {}

(* A registration has removed the link before it makes the account, and    *)
(* made the account before it stores the consent.                          *)
OnItsWay(q) ==
    q.pc = "parts" /\ q.op = "register" =>
        /\ ~user[q.user].link
        /\ q.consent \in {"read", "write"} => q.account = "end" /\ AccountsOf(q.user) # {}

(* A request that finds no link and an account ends before it writes; one  *)
(* that has written its last part has nothing left to write.               *)
Harmless(q) ==
    \/ q.pc \in {"lookup", "get", "findUser", "findAccount"}
    \/ q.pc = "parts" /\ q.account = "end" /\ q.consent = "end" /\ q.link = "end"

SuccessInv ==
    /\ TypeOK
    /\ OneRival
    /\ \A r \in Requests : Shaped(req[r])
    /\ \A r \in Requests : req[r].user \in Unrivalled => OnItsWay(req[r])
    /\ \A u \in succeeded \cap Unrivalled :
          Lasting(u) /\ \A q \in Rival(u) : Harmless(req[q])
-----------------------------------------------------------------------------
LEMMA BecomeType ==
    ASSUME TypeOK, NEW r \in Requests, NEW new \in Request, Become(r, new)
    PROVE  req' \in [Requests -> Request]
BY DEF TypeOK, Become

LEMMA GotoType ==
    ASSUME TypeOK, NEW r \in Requests, NEW pc \in Running \cup {"ended"}, Goto(r, pc)
    PROVE  req' \in [Requests -> Request]
<1>1. [req[r] EXCEPT !.pc = pc] \in Request
  BY DEF TypeOK, Request
<1>. QED BY <1>1, BecomeType DEF Goto

LEMMA EndedType ==
    ASSUME NEW u \in Users
    PROVE  Ended(u) \in Request /\ Ended(u).user = u /\ Ended(u).pc = "ended"
BY DEF Ended, Fresh, Request, Document, AccountPart, ConsentPart

LEMMA EndType ==
    ASSUME TypeOK, NEW r \in Requests, End(r)
    PROVE  req' \in [Requests -> Request]
<1>1. req[r].user \in Users
  BY DEF TypeOK, Request
<1>. QED BY <1>1, EndedType, BecomeType DEF End

LEMMA StartType ==
    ASSUME TypeOK, NEW r \in Requests, NEW new \in Request, Start(r, new)
    PROVE  TypeOK'
<1>1. req' \in [Requests -> Request]
  BY BecomeType DEF Start
<1>2. new.user \in Users
  BY DEF Request
<1>3. overlapped' = overlapped \/ overlapped' = overlapped \cup {new.user}
  BY DEF Start
<1>4. overlapped \in SUBSET Users
  BY DEF TypeOK
<1>5. overlapped' \in SUBSET Users
  BY <1>2, <1>3, <1>4
<1>. QED BY <1>1, <1>5 DEF Start, TypeOK

LEMMA FailedType ==
    ASSUME TypeOK, NEW r \in Requests, NEW q \in Request
    PROVE  Failed(q, r) \in Request
<1>1. ({"user"} \cup (IF <<q.user, r>> \in accounts THEN {"account"} ELSE {})) \in SUBSET {"user", "account"}
  OBVIOUS
<1>2. "rollback" \in {"idle", "ended"} \cup Running /\ "end" \in AccountPart /\ "end" \in ConsentPart
  BY DEF Running, Writing, AccountPart, ConsentPart
<1>3. \A undo \in SUBSET {"user", "account"} :
         [q EXCEPT !.pc = "rollback", !.account = "end", !.consent = "end", !.undo = undo] \in Request
  BY <1>2 DEF Request
<1>. QED BY <1>1, <1>3 DEF Failed

LEMMA UndoneType ==
    ASSUME TypeOK, NEW r \in Requests, NEW what
    PROVE  Undone(req[r], what) \in Request
<1>1. req[r] \in Request /\ req[r].user \in Users
  BY DEF TypeOK, Request
<1>. QED BY <1>1, EndedType DEF Undone, Request

LEMMA PartFailsType ==
    ASSUME TypeOK, NEW r \in Requests, NEW part \in {"account", "consent", "link"}, PartFails(r, part)
    PROVE  req' \in [Requests -> Request] /\ broken' \subseteq Users
<1>0. req[r] \in Request
  BY DEF TypeOK
<1>1. Failed(req[r], r) \in Request
  BY <1>0, FailedType
<1>2. [req[r] EXCEPT ![part] = "end"] \in Request
  BY <1>0 DEF Request, AccountPart, ConsentPart
<1>. QED BY <1>0, <1>1, <1>2, BecomeType DEF PartFails, TypeOK, Request

LEMMA TypeInit == Init => TypeOK
<1> SUFFICES ASSUME Init PROVE TypeOK
  OBVIOUS
<1>1. PICK of \in [Requests -> Users] : req = [r \in Requests |-> Fresh(of[r])]
  BY DEF Init
<1>2. \A u \in Users : Fresh(u) \in Request
  BY DEF Fresh, Request, Document, AccountPart, ConsentPart
<1>3. req \in [Requests -> Request]
  BY <1>1, <1>2
<1>4. user \in [Users -> Document]
  BY DEF Init, Document
<1>. QED BY <1>3, <1>4 DEF Init, TypeOK

LEMMA TypeStep == TypeOK /\ Next => TypeOK'
<1> SUFFICES ASSUME TypeOK, Next PROVE TypeOK'
  OBVIOUS
<1> USE DEF histories
<1>1. ASSUME NEW r \in Requests, Step(r) PROVE TypeOK'
  <2>0. req[r] \in Request /\ req[r].user \in Users
    BY DEF TypeOK, Request
  <2>1. CASE AskPin(r) \/ Invite(r)
    <3>1. \A pc \in {"askLink", "findUser"}, op \in {"ask", "invite"} :
            [req[r] EXCEPT !.pc = pc, !.op = op] \in Request
      BY <2>0 DEF Request, Running, Asking, Inviting
    <3>. QED BY <2>1, <3>1, StartType DEF AskPin, Invite
  <2>2. CASE Register(r) \/ Skip(r)
    <3>1. ASSUME NEW code \in Nat, NEW who \in SUBSET Persons
          PROVE  /\ [req[r] EXCEPT !.pc = "lookup", !.op = "register", !.code = code, !.given = who] \in Request
                 /\ [req[r] EXCEPT !.pc = "get", !.op = "skip", !.given = who] \in Request
      BY <2>0 DEF Request, Running, Writing, Registering
    <3>2. mails[req[r].user] \in Nat
      BY <2>0 DEF TypeOK
    <3>3. 0..mails[req[r].user] \subseteq Nat
      BY <3>2
    <3>4. {"user"} \in SUBSET Persons /\ \A who \in Persons : {who} \in SUBSET Persons
      BY DEF Persons
    <3>. QED BY <2>2, <3>1, <3>3, <3>4, StartType DEF Register, Skip
  <2>3. CASE FindLinked(r) \/ CheckTimeWindow(r) \/ FindUser(r) \/ FindAccountOfUser(r)
    <3>1. req' \in [Requests -> Request]
      BY <2>3, GotoType, EndType DEF FindLinked, CheckTimeWindow, FindUser, FindAccountOfUser,
                            Running, Asking, Inviting
    <3>. QED BY <2>3, <3>1 DEF FindLinked, CheckTimeWindow, FindUser, FindAccountOfUser, TypeOK
  <2>4. CASE RemoveOldPins(r)
    <3>1. req' \in [Requests -> Request]
      BY <2>4, GotoType DEF RemoveOldPins, Running, Asking
    <3>. QED BY <2>4, <3>1 DEF RemoveOldPins, TypeOK
  <2>5. CASE CreatePin(r)
    <3>1. req' \in [Requests -> Request]
      BY <2>5, EndType DEF CreatePin
    <3>2. mails[req[r].user] + 1 \in Nat
      BY <2>0 DEF TypeOK
    <3>3. NewPin(req[r].user) \in Pin
      BY <2>0, <3>2 DEF NewPin, Pin
    <3>4. mails' \in [Users -> Nat]
      BY <2>0, <2>5, <3>2 DEF CreatePin, Mailed, TypeOK
    <3>. QED BY <2>5, <3>1, <3>3, <3>4 DEF CreatePin, TypeOK
  <2>6. CASE CreateHash(r)
    <3>1. req' \in [Requests -> Request]
      BY <2>6, EndType DEF CreateHash
    <3>2. user' \in [Users -> Document]
      BY <2>6, <2>0 DEF CreateHash, TypeOK, Document
    <3>. QED BY <2>0, <2>6, <3>1, <3>2 DEF CreateHash, TypeOK
  <2>7. CASE Lookup(r)
    <3>1. [req[r] EXCEPT !.pc = "pin", !.old = user[req[r].user]] \in Request
      BY <2>0 DEF Request, TypeOK, Running, Writing, Registering
    <3>2. req' \in [Requests -> Request]
      BY <2>7, <3>1, BecomeType, EndType DEF Lookup
    <3>. QED BY <2>7, <3>2 DEF Lookup, TypeOK
  <2>8. CASE FindPin(r)
    <3>1. \A pc \in {"update", "verify"} : [req[r] EXCEPT !.pc = pc] \in Request
      BY <2>0 DEF Request, Running, Writing, Registering
    <3>2. req' \in [Requests -> Request]
      BY <2>0, <2>8, <3>1, BecomeType, FailedType DEF FindPin
    <3>. QED BY <2>8, <3>2 DEF FindPin, TypeOK
  <2>9. CASE VerifyPin(r)
    <3>1. [req[r] EXCEPT !.pc = "update"] \in Request
      BY <2>0 DEF Request, Running, Writing, Registering
    <3>2. req' \in [Requests -> Request]
      BY <2>0, <2>9, <3>1, BecomeType, FailedType DEF VerifyPin
    <3>3. \A p \in Pin : [p EXCEPT !.verified = TRUE, !.age = "recent"] \in Pin
      BY DEF Pin
    <3>4. pins' \subseteq Pin
      BY <2>9, <3>3 DEF VerifyPin, PinsOf, TypeOK
    <3>. QED BY <2>9, <3>2, <3>4 DEF VerifyPin, TypeOK
  <2>10. CASE UpdateUser(r)
    <3>1. [req[r] EXCEPT !.pc = "parts", !.account = "existence", !.consent = "wait"] \in Request
      BY <2>0 DEF Request, Running, Writing, AccountPart, ConsentPart
    <3>2. req' \in [Requests -> Request]
      BY <2>10, <3>1, BecomeType DEF UpdateUser
    <3>3. [req[r].old EXCEPT !.link = FALSE] \in Document
      BY <2>0 DEF Request, Document
    <3>4. user' \in [Users -> Document]
      BY <2>0, <2>10, <3>3 DEF UpdateUser, TypeOK
    <3>. QED BY <2>10, <3>2, <3>4 DEF UpdateUser, TypeOK
  <2>11. CASE ValidateRequest(r)
    <3>1. [req[r] EXCEPT !.pc = "parts", !.account = "find", !.consent = "read", !.link = "patch"] \in Request
      BY <2>0 DEF Request, Running, Writing, AccountPart, ConsentPart
    <3>2. req' \in [Requests -> Request]
      BY <2>11, <3>1, BecomeType, EndType DEF ValidateRequest
    <3>. QED BY <2>11, <3>2 DEF ValidateRequest, TypeOK
  <2>12. CASE PatchLink(r)
    <3>1. [req[r] EXCEPT !.link = "end"] \in Request
      BY <2>0 DEF Request
    <3>2. req' \in [Requests -> Request]
      BY <2>12, <3>1, BecomeType DEF PatchLink
    <3>3. user' \in [Users -> Document]
      BY <2>0, <2>12 DEF PatchLink, TypeOK, Document
    <3>4. kept' \subseteq Users
      BY <2>0, <2>12 DEF PatchLink, TypeOK
    <3>. QED BY <2>12, <3>2, <3>3, <3>4 DEF PatchLink, TypeOK
  <2>13. CASE FindAccount(r)
    <3>1. \A part \in AccountPart : [req[r] EXCEPT !.account = part] \in Request
      BY <2>0 DEF Request
    <3>2. req' \in [Requests -> Request]
      BY <2>13, <3>1, BecomeType DEF FindAccount, AccountPart
    <3>. QED BY <2>13, <3>2 DEF FindAccount, TypeOK
  <2>14. CASE CheckAccount(r)
    <3>1. \A part \in AccountPart : [req[r] EXCEPT !.account = part] \in Request
      BY <2>0 DEF Request
    <3>2. req' \in [Requests -> Request] /\ broken' \subseteq Users
      <4>1. CASE AccountsOf(req[r].user) # {}
        BY <2>14, <4>1, PartFailsType DEF CheckAccount
      <4>2. CASE AccountsOf(req[r].user) = {}
        <5>1. PICK part \in AccountPart : Become(r, [req[r] EXCEPT !.account = part]) /\ UNCHANGED broken
          BY <2>14, <4>2 DEF CheckAccount, AccountPart
        <5>. QED BY <3>1, <5>1, BecomeType DEF TypeOK
      <4>. QED BY <4>1, <4>2
    <3>. QED BY <2>14, <3>2 DEF CheckAccount, TypeOK
  <2>15. CASE InsertAccount(r)
    <3>1. \A part \in ConsentPart : [req[r] EXCEPT !.account = "end", !.consent = part] \in Request
      BY <2>0 DEF Request, AccountPart
    <3>2. PICK part \in ConsentPart : Become(r, [req[r] EXCEPT !.account = "end", !.consent = part])
      BY <2>0, <2>15 DEF InsertAccount, ConsentPart, Request
    <3>3. req' \in [Requests -> Request]
      BY <3>1, <3>2, BecomeType
    <3>. QED BY <2>0, <2>15, <3>3 DEF InsertAccount, TypeOK
  <2>16. CASE ReadConsent(r)
    <3>1. [req[r] EXCEPT !.consent = "write", !.read = user[req[r].user].consent] \in Request
      BY <2>0 DEF Request, ConsentPart, TypeOK, Document
    <3>2. req' \in [Requests -> Request]
      BY <2>16, <3>1, BecomeType DEF ReadConsent
    <3>. QED BY <2>16, <3>2 DEF ReadConsent, TypeOK
  <2>17. CASE WriteConsent(r)
    <3>1. [req[r] EXCEPT !.consent = "end"] \in Request
      BY <2>0 DEF Request, ConsentPart
    <3>2. req' \in [Requests -> Request]
      BY <2>17, <3>1, BecomeType DEF WriteConsent
    <3>3. req[r].read \cup req[r].given \in SUBSET Persons
      BY <2>0 DEF Request
    <3>4. user' \in [Users -> Document]
      BY <2>0, <2>17, <3>3 DEF WriteConsent, TypeOK, Document
    <3>5. succeeded' \subseteq Users
      BY <2>0, <2>17 DEF WriteConsent, TypeOK
    <3>. QED BY <2>17, <3>2, <3>4, <3>5 DEF WriteConsent, TypeOK
  <2>18. CASE PartsEnd(r)
    BY <2>18, EndType DEF PartsEnd, TypeOK
  <2>19. CASE RestoreUser(r) \/ RemoveAccount(r)
    <3>1. req' \in [Requests -> Request]
      BY <2>19, UndoneType, BecomeType DEF RestoreUser, RemoveAccount
    <3>2. user' \in [Users -> Document] /\ accounts' \subseteq Users \X Requests
      BY <2>0, <2>19 DEF RestoreUser, RemoveAccount, TypeOK, Request
    <3>. QED BY <2>19, <3>1, <3>2 DEF RestoreUser, RemoveAccount, TypeOK
  <2>20. CASE CommandFails(r)
    <3>1. faults' \in Nat
      BY <2>20 DEF CommandFails, Fault, TypeOK
    <3>2. req' \in [Requests -> Request] /\ broken' \subseteq Users
      <4>1. CASE End(r) /\ (broken' = broken \cup {req[r].user} \/ broken' = broken)
        BY <2>0, <4>1, EndType DEF TypeOK
      <4>2. CASE Become(r, Failed(req[r], r)) /\ UNCHANGED broken
        BY <2>0, <4>2, FailedType, BecomeType DEF TypeOK
      <4>3. CASE \E part \in {"account", "consent", "link"} : PartFails(r, part)
        BY <4>3, PartFailsType
      <4>4. CASE \E what \in req[r].undo : Become(r, Undone(req[r], what)) /\ Breaks(r)
        BY <2>0, <4>4, UndoneType, BecomeType DEF Breaks, TypeOK
      <4>. QED BY <2>20, <4>1, <4>2, <4>3, <4>4 DEF CommandFails, Breaks
    <3>. QED BY <2>20, <3>1, <3>2 DEF CommandFails, TypeOK
  <2>21. CASE Crash(r)
    BY <2>0, <2>21, EndType DEF Crash, Fault, Breaks, TypeOK
  <2>. QED
    BY <1>1, <2>1, <2>2, <2>3, <2>4, <2>5, <2>6, <2>7, <2>8, <2>9, <2>10, <2>11, <2>12, <2>13,
       <2>14, <2>15, <2>16, <2>17, <2>18, <2>19, <2>20, <2>21 DEF Step
<1>2. ASSUME NEW p \in pins, Age(p) PROVE TypeOK'
  <2>1. \A age \in {"valid", "expired"} : [p EXCEPT !.age = age] \in Pin
    BY DEF TypeOK, Pin
  <2>2. pins' \subseteq Pin
    BY <1>2, <2>1 DEF Age, TypeOK
  <2>. QED BY <1>2, <2>2 DEF Age, Fault, TypeOK
<1>3. CASE Finished
  BY <1>3 DEF Finished, vars, TypeOK
<1>. QED BY <1>1, <1>2, <1>3 DEF Next

(* The state of the registrations keeps its types, for any number of users *)
(* and requests.                                                           *)
THEOREM TypeCorrect == Spec => []TypeOK
<1>1. TypeOK /\ UNCHANGED vars => TypeOK'
  BY DEF vars, histories, TypeOK
<1>. QED BY TypeInit, TypeStep, <1>1, PTL DEF Spec
-----------------------------------------------------------------------------
(* A request that is under way takes a step: what it writes is about its   *)
(* own user, who has no other request that may write.                      *)
LEMMA Moves ==
    ASSUME SuccessInv, TypeOK', NEW r \in Requests, NEW new \in Request,
           NEW w \in Users, w = req[r].user,
           Busy(r), Become(r, new), new.user = w, Shaped(new),
           overlapped' = overlapped,
           new.pc \in Running \ Asking => req[r].pc \notin Asking,
           req[r].pc \in Asking => user' = user /\ accounts' = accounts,
           \A u \in Users \ {w} : user'[u] = user[u] /\ AccountsOf(u)' = AccountsOf(u),
           \A u \in succeeded' \ succeeded : u = w /\ req[r].pc \notin Asking,
           w \in Unrivalled => OnItsWay(new)',
           w \in Unrivalled /\ w \in succeeded' =>
               Lasting(w)' /\ (new.pc \in Running \ Asking => Harmless(new))
    PROVE  SuccessInv'
<1>0. /\ req \in [Requests -> Request] /\ req' = [req EXCEPT ![r] = new]
      /\ req'[r] = new /\ \A q \in Requests \ {r} : req'[q] = req[q]
  BY DEF SuccessInv, TypeOK, Become
<1>1. /\ Unrivalled' = Unrivalled
      /\ \A u \in Users : \A q \in Rival(u)' : q \in Requests /\ q \in Rival(u)
      /\ \A u \in Users : r \in Rival(u)' => u = w
      /\ req[r].pc \notin Asking => r \in Rival(w)
  BY <1>0 DEF Rival, Busy, Unrivalled
<1>2. req[r].pc \notin Asking /\ w \in Unrivalled => \A q \in Rival(w) : q = r
  BY <1>1 DEF SuccessInv, OneRival
<1>3. OneRival'
  BY <1>1 DEF SuccessInv, OneRival, Unrivalled
<1>4. \A q \in Requests : Shaped(req[q])'
  BY <1>0 DEF SuccessInv, Shaped
<1>5. ASSUME NEW q \in Requests, req'[q].user \in Unrivalled PROVE OnItsWay(req[q])'
  <2>1. CASE q = r
    BY <1>0, <1>5, <2>1 DEF OnItsWay, AccountsOf
  <2>2. CASE q # r
    <3>1. req'[q] = req[q] /\ req[q].user \in Unrivalled /\ OnItsWay(req[q])
      BY <1>0, <1>5, <2>2 DEF SuccessInv
    <3>2. CASE req[q].user # w \/ req[r].pc \in Asking
      BY <3>1, <3>2 DEF OnItsWay, AccountsOf, Unrivalled
    <3>3. CASE req[q].user = w /\ req[r].pc \notin Asking
      <4>1. req[q].pc # "parts"
        BY <1>2, <2>2, <3>1, <3>3 DEF Rival, Busy, Running, Writing, Asking
      <4>. QED BY <3>1, <4>1 DEF OnItsWay
    <3>. QED BY <3>2, <3>3
  <2>. QED BY <2>1, <2>2
<1>6. ASSUME NEW u \in succeeded', u \in Unrivalled
      PROVE  Lasting(u)' /\ \A q \in Rival(u)' : Harmless(req'[q])
  <2>1. CASE u = w
    <3>1. Lasting(u)'
      BY <1>6, <2>1 DEF Lasting, AccountsOf
    <3>2. ASSUME NEW q \in Rival(u)' PROVE Harmless(req'[q])
      <4>1. CASE q = r
        <5>1. new.pc \in Running \ Asking
          BY <1>0, <3>2, <4>1 DEF Rival, Busy
        <5>. QED BY <1>0, <1>6, <2>1, <4>1, <5>1
      <4>2. CASE q # r
        <5>1. q \in Rival(u) /\ q \in Requests
          BY <1>1, <1>6, <3>2 DEF Unrivalled
        <5>2. req[r].pc \in Asking
          BY <1>2, <1>6, <2>1, <4>2, <5>1
        <5>3. u \in succeeded
          BY <1>6, <5>2
        <5>. QED BY <1>0, <1>6, <4>2, <5>1, <5>3 DEF SuccessInv
      <4>. QED BY <4>1, <4>2
    <3>. QED BY <3>1, <3>2
  <2>2. CASE u # w
    <3>1. u \in succeeded \cap Unrivalled /\ u \in Users
      BY <1>6, <2>2 DEF Unrivalled
    <3>2. Lasting(u)'
      BY <2>2, <3>1 DEF SuccessInv, Lasting, AccountsOf
    <3>3. \A q \in Rival(u)' : q \in Rival(u) /\ q \in Requests \ {r}
      BY <1>1, <2>2, <3>1
    <3>. QED BY <1>0, <3>1, <3>2, <3>3 DEF SuccessInv
  <2>. QED BY <2>1, <2>2
<1>7. \A u \in (succeeded \cap Unrivalled)' : Lasting(u)' /\ \A q \in Rival(u)' : Harmless(req[q])'
  BY <1>1, <1>6 DEF Harmless
<1>. QED BY <1>1, <1>3, <1>4, <1>5, <1>7 DEF SuccessInv

(* A step that writes neither user nor account.                            *)
LEMMA Advances ==
    ASSUME SuccessInv, TypeOK', NEW r \in Requests, NEW new \in Request,
           Busy(r), Become(r, new), new.user = req[r].user, Shaped(new),
           UNCHANGED <<user, accounts, succeeded, overlapped>>,
           new.pc \in Running \ Asking => req[r].pc \notin Asking,
           req[r].user \in Unrivalled => OnItsWay(new),
           req[r].user \in Unrivalled /\ req[r].user \in succeeded /\ new.pc \in Running \ Asking =>
               Harmless(new)
    PROVE  SuccessInv'
<1>1. req[r].user \in Unrivalled => OnItsWay(new)'
  BY DEF OnItsWay, AccountsOf
<1>2. \A u \in Users : u \in Unrivalled /\ u \in succeeded => Lasting(u)'
  BY DEF SuccessInv, Lasting, AccountsOf
<1>3. \A u \in Users : AccountsOf(u)' = AccountsOf(u)
  BY DEF AccountsOf
<1>4. req[r].user \in Users
  BY DEF SuccessInv, TypeOK, Request
<1>5. PICK w \in Users : w = req[r].user
  BY <1>4
<1>. QED BY <1>1, <1>2, <1>3, <1>5, Moves

LEMMA Ends ==
    ASSUME SuccessInv, TypeOK', NEW r \in Requests, Busy(r), End(r),
           UNCHANGED <<user, accounts, succeeded, overlapped>>
    PROVE  SuccessInv'
<1> DEFINE new == Ended(req[r].user)
<1>0. req[r].user \in Users
  BY DEF SuccessInv, TypeOK, Request
<1>1. new \in Request /\ new.user = req[r].user /\ new.pc = "ended" /\ Shaped(new)
  BY <1>0, EndedType DEF Shaped, Ended, Fresh
<1>2. OnItsWay(new) /\ new.pc \notin Running
  BY <1>1 DEF OnItsWay, Running, Asking, Inviting, Writing, Registering
<1>3. Become(r, new)
  BY DEF End
<1> HIDE DEF new
<1>. QED BY <1>1, <1>2, <1>3, Advances

LEMMA Starts ==
    ASSUME SuccessInv, TypeOK', NEW r \in Requests, NEW new \in Request, Start(r, new),
           new.user = req[r].user, Shaped(new), new.pc \in {"askLink", "findUser", "lookup", "get"}
    PROVE  SuccessInv'
<1>0. /\ req \in [Requests -> Request] /\ req[r].pc = "idle" /\ req[r].user \in Users
      /\ req'[r] = new /\ \A q \in Requests \ {r} : req'[q] = req[q]
  BY DEF SuccessInv, TypeOK, Start, At, Become, Request
<1>1. UNCHANGED <<user, accounts, succeeded>> /\ Unrivalled' \subseteq Unrivalled
  BY DEF Start, Unrivalled
<1>2. \A u \in Users : \A q \in Rival(u)' : q \in Requests /\ (q # r => q \in Rival(u))
  BY <1>0 DEF Rival, Busy
<1>3. ASSUME NEW u \in Unrivalled', r \in Rival(u)' PROVE Rival(u) = {}
  <2>1. u = req[r].user /\ new.pc \notin Asking
    BY <1>0, <1>3 DEF Rival
  <2>. QED BY <2>1 DEF Start, Unrivalled
<1>4. OneRival'
  BY <1>1, <1>2, <1>3 DEF SuccessInv, OneRival, Unrivalled
<1>5. \A q \in Requests : Shaped(req[q])'
  BY <1>0 DEF SuccessInv, Shaped
<1>6. ASSUME NEW q \in Requests, req'[q].user \in Unrivalled' PROVE OnItsWay(req[q])'
  <2>1. CASE q = r
    BY <1>0, <2>1 DEF OnItsWay
  <2>2. CASE q # r
    BY <1>0, <1>1, <1>6, <2>2 DEF SuccessInv, OnItsWay, AccountsOf
  <2>. QED BY <2>1, <2>2
<1>7. ASSUME NEW u \in (succeeded \cap Unrivalled)'
      PROVE  Lasting(u)' /\ \A q \in Rival(u)' : Harmless(req[q])'
  <2>1. u \in succeeded \cap Unrivalled /\ u \in Users
    BY <1>1 DEF Unrivalled
  <2>2. Lasting(u)'
    BY <1>1, <2>1 DEF SuccessInv, Lasting, AccountsOf
  <2>3. ASSUME NEW q \in Rival(u)' PROVE Harmless(req[q])'
    <3>1. CASE q = r
      <4>1. new.pc # "askLink"
        BY <1>0, <2>3, <3>1 DEF Rival, Asking
      <4>. QED BY <1>0, <3>1, <4>1 DEF Harmless
    <3>2. CASE q # r
      <4>1. q \in Rival(u) /\ q \in Requests /\ req'[q] = req[q]
        BY <1>0, <1>2, <2>1, <2>3, <3>2
      <4>. QED BY <2>1, <4>1 DEF SuccessInv, Harmless
    <3>. QED BY <3>1, <3>2
  <2>. QED BY <2>2, <2>3
<1>. QED BY <1>4, <1>5, <1>6, <1>7 DEF SuccessInv
-----------------------------------------------------------------------------
(* A request that rolls back has nothing of what the invariant speaks of.  *)
LEMMA Fails ==
    ASSUME SuccessInv, TypeOK', NEW r \in Requests, Become(r, Failed(req[r], r)),
           \/ req[r].pc \in {"pin", "verify", "update"}
           \/ req[r].pc = "parts" /\ (req[r].account # "end" \/ req[r].consent # "end"),
           UNCHANGED <<user, accounts, succeeded, overlapped>>
    PROVE  SuccessInv'
<1>1. req[r] \in Request /\ req[r].user \in Users
  BY DEF SuccessInv, TypeOK, Request
<1>2. Failed(req[r], r) \in Request
  BY <1>1, FailedType DEF SuccessInv
<1>3. /\ Failed(req[r], r).user = req[r].user
      /\ Failed(req[r], r).pc = "rollback"
      /\ Shaped(Failed(req[r], r)) /\ OnItsWay(Failed(req[r], r))
  BY <1>1 DEF SuccessInv, Failed, Request, Shaped, OnItsWay
<1>4. Busy(r) /\ req[r].pc \notin Asking
  BY DEF Busy, Running, Writing, Registering, Asking
<1>5. ~ (req[r].user \in Unrivalled /\ req[r].user \in succeeded)
  <2>1. r \in Rival(req[r].user) /\ ~Harmless(req[r])
    BY <1>4 DEF Rival, Harmless
  <2>. QED BY <2>1 DEF SuccessInv
<1>. QED BY <1>2, <1>3, <1>4, <1>5, Advances

(* A part that throws ends, or lets a registration roll back.              *)
LEMMA PartEnds ==
    ASSUME SuccessInv, TypeOK', NEW r \in Requests, NEW part \in {"account", "consent", "link"},
           PartFails(r, part), At(r, "parts"), req[r][part] # "end",
           UNCHANGED <<user, accounts, succeeded, overlapped>>
    PROVE  SuccessInv'
<1>1. req[r] \in Request
  BY DEF SuccessInv, TypeOK
<1>2. CASE req[r].op = "register"
  <2>1. part # "link"
    BY <1>2 DEF SuccessInv, Shaped
  <2>2. req[r].account # "end" \/ req[r].consent # "end"
    BY <1>1, <2>1 DEF Request
  <2>. QED BY <1>2, <2>2, Fails DEF PartFails, At
<1>3. CASE req[r].op # "register"
  <2> DEFINE new == [req[r] EXCEPT ![part] = "end"]
  <2>1. /\ new \in Request /\ new.user = req[r].user /\ new.op = req[r].op /\ new.pc = "parts"
    BY <1>1 DEF Request, AccountPart, ConsentPart, At
  <2>2. Shaped(new) /\ OnItsWay(new)
    BY <1>3, <2>1 DEF Shaped, OnItsWay
  <2>3. Busy(r) /\ req[r].pc \notin Asking
    BY DEF At, Busy, Running, Writing, Asking
  <2>4. ~ (req[r].user \in Unrivalled /\ req[r].user \in succeeded)
    <3>1. r \in Rival(req[r].user) /\ ~Harmless(req[r])
      BY <1>1, <2>3 DEF At, Rival, Harmless, Request
    <3>. QED BY <3>1 DEF SuccessInv
  <2>5. Become(r, new)
    BY <1>3 DEF PartFails
  <2> HIDE DEF new
  <2>. QED BY <2>1, <2>2, <2>3, <2>4, <2>5, Advances
<1>. QED BY <1>2, <1>3

(* What holds of a request that may write for a user of the theorem.       *)
LEMMA RivalIsHarmless ==
    ASSUME SuccessInv, NEW r \in Requests, Busy(r), req[r].pc \notin Asking,
           req[r].user \in Unrivalled, req[r].user \in succeeded
    PROVE  Harmless(req[r]) /\ Lasting(req[r].user)
BY DEF SuccessInv, Rival

LEMMA SuccessInit == Init => SuccessInv
<1> SUFFICES ASSUME Init PROVE SuccessInv
  OBVIOUS
<1>1. PICK of \in [Requests -> Users] : req = [r \in Requests |-> Fresh(of[r])]
  BY DEF Init
<1>2. \A r \in Requests : req[r].pc = "idle" /\ req[r].op = "none" /\ req[r].link = "end"
  BY <1>1 DEF Fresh
<1>3. \A u \in Users : Rival(u) = {}
  BY <1>2 DEF Rival, Busy, Running, Asking, Inviting, Writing, Registering
<1>4. succeeded = {}
  BY DEF Init
<1>. QED BY <1>2, <1>3, <1>4, TypeInit DEF SuccessInv, OneRival, Unrivalled, Shaped, OnItsWay

LEMMA SuccessStep == SuccessInv /\ Next => SuccessInv'
<1> SUFFICES ASSUME SuccessInv, Next PROVE SuccessInv'
  OBVIOUS
<1>0. TypeOK /\ TypeOK'
  BY TypeStep DEF SuccessInv
<1> USE DEF histories
<1>1. ASSUME NEW r \in Requests, Step(r) PROVE SuccessInv'
  <2>0. req[r] \in Request /\ req[r].user \in Users /\ Shaped(req[r])
    BY <1>0 DEF SuccessInv, TypeOK, Request
  <2> DEFINE goes(pc) == [req[r] EXCEPT !.pc = pc]
  <2>a. \A pc \in Running \ {"get"} :
           /\ goes(pc) \in Request /\ goes(pc).user = req[r].user /\ goes(pc).pc = pc
           /\ Shaped(goes(pc)) /\ (pc # "parts" => OnItsWay(goes(pc)))
    <3>1. "idle" \notin Running
      BY DEF Running, Asking, Inviting, Writing, Registering
    <3>. QED BY <2>0, <3>1 DEF Request, Shaped, OnItsWay
  <2>b. \A pc : Goto(r, pc) => Become(r, goes(pc))
    BY DEF Goto
  <2> HIDE DEF goes
  <2>c. PICK w \in Users : w = req[r].user
    BY <2>0
  <2>1. CASE AskPin(r) \/ Invite(r)
    <3>1. PICK pc \in {"askLink", "findUser"}, op \in {"ask", "invite"} :
            Start(r, [req[r] EXCEPT !.pc = pc, !.op = op])
      BY <2>1 DEF AskPin, Invite
    <3> DEFINE new == [req[r] EXCEPT !.pc = pc, !.op = op]
    <3>2. pc \in Running /\ pc \notin {"idle", "get"}
      BY DEF Running, Asking, Inviting
    <3>3. /\ new \in Request /\ new.user = req[r].user /\ new.pc = pc
          /\ new.op = op /\ new.link = req[r].link
      BY <2>0, <3>2 DEF Request
    <3>4. Shaped(new)
      BY <3>2, <3>3 DEF Shaped
    <3> HIDE DEF new
    <3>. QED BY <1>0, <3>1, <3>3, <3>4, Starts DEF new
  <2>2. CASE Register(r)
    <3>1. PICK code \in 0..mails[req[r].user], who \in Persons :
            Start(r, [req[r] EXCEPT !.pc = "lookup", !.op = "register", !.code = code, !.given = {who}])
      BY <2>2 DEF Register
    <3> DEFINE new == [req[r] EXCEPT !.pc = "lookup", !.op = "register", !.code = code, !.given = {who}]
    <3>2. mails[req[r].user] \in Nat
      BY <1>0, <2>0 DEF TypeOK
    <3>3. code \in Nat /\ {who} \in SUBSET Persons
      BY <3>1, <3>2
    <3>4. new \in Request /\ new.user = req[r].user /\ new.pc = "lookup"
      BY <2>0, <3>3 DEF Request, Running, Writing, Registering
    <3>5. req[r].link = "end"
      BY <2>0, <3>1 DEF Start, At, Shaped
    <3>6. Shaped(new)
      BY <2>0, <3>5 DEF Shaped, Request
    <3> HIDE DEF new
    <3>. QED BY <1>0, <3>1, <3>4, <3>6, Starts DEF new
  <2>3. CASE Skip(r)
    <3>1. PICK who \in SUBSET Persons :
            Start(r, [req[r] EXCEPT !.pc = "get", !.op = "skip", !.given = who])
      BY <2>3 DEF Skip, Persons
    <3>2. LET new == [req[r] EXCEPT !.pc = "get", !.op = "skip", !.given = who]
          IN  new \in Request /\ new.user = req[r].user /\ new.pc = "get" /\ Shaped(new)
      BY <2>0 DEF Request, Running, Writing, Shaped
    <3>. QED BY <1>0, <3>1, <3>2, Starts
  <2>4. CASE FindLinked(r) \/ CheckTimeWindow(r) \/ RemoveOldPins(r) \/ CreatePin(r)
    <3>1. Busy(r) /\ UNCHANGED <<user, accounts, succeeded, overlapped>>
      BY <2>4 DEF FindLinked, CheckTimeWindow, RemoveOldPins, CreatePin, Busy, At, Running, Asking
    <3>2. CASE End(r)
      BY <1>0, <3>1, <3>2, Ends
    <3>3. CASE \E pc \in Asking : Goto(r, pc)
      <4>1. PICK pc \in Asking : Goto(r, pc)
        BY <3>3
      <4>2. Asking \subseteq Running \ {"get"} /\ pc # "parts"
        BY DEF Running, Asking
      <4>. QED BY <1>0, <2>a, <2>b, <3>1, <4>1, <4>2, Advances
    <3>. QED BY <2>4, <3>2, <3>3 DEF FindLinked, CheckTimeWindow, RemoveOldPins, CreatePin, End, Asking
  <2>5. CASE FindUser(r) \/ FindAccountOfUser(r)
    <3>1. /\ Busy(r) /\ req[r].pc \notin Asking
          /\ UNCHANGED <<user, accounts, succeeded, overlapped>>
      BY <2>5 DEF FindUser, FindAccountOfUser, Busy, At, Running, Asking, Inviting
    <3>2. CASE End(r)
      BY <1>0, <3>1, <3>2, Ends
    <3>3. CASE Goto(r, "findAccount")
      <4>1. "findAccount" \in Running /\ Harmless(goes("findAccount"))
        BY <2>a DEF Running, Inviting, Harmless
      <4>. QED BY <1>0, <2>a, <2>b, <3>1, <3>3, <4>1, Advances
    <3>4. CASE FindAccountOfUser(r) /\ AccountsOf(req[r].user) = {} /\ Goto(r, "hash")
      <4>1. "hash" \in Running
        BY DEF Running, Inviting
      <4>2. ~ (req[r].user \in Unrivalled /\ req[r].user \in succeeded)
        BY <3>1, <3>4, RivalIsHarmless DEF Lasting
      <4>. QED BY <1>0, <2>a, <2>b, <3>1, <3>4, <4>1, <4>2, Advances
    <3>. QED BY <2>5, <3>2, <3>3, <3>4 DEF FindUser, FindAccountOfUser, End
  <2>6. CASE CreateHash(r)
    <3>1. PICK new \in Request : new = Ended(req[r].user)
      BY <2>0, EndedType
    <3>2. /\ Become(r, new) /\ new.user = w /\ new.pc = "ended"
          /\ Shaped(new) /\ OnItsWay(new)'
      BY <2>0, <2>c, <2>6, <3>1, EndedType DEF CreateHash, End, Ended, Fresh, Shaped, OnItsWay
    <3>3. /\ Busy(r) /\ req[r].pc \notin Asking /\ ~Harmless(req[r])
          /\ new.pc \notin Running
      BY <2>0, <2>6, <3>2 DEF CreateHash, Busy, At, Running, Asking, Inviting, Writing,
                              Registering, Harmless, Request
    <3>4. ~ (w \in Unrivalled /\ w \in succeeded)
      BY <2>c, <3>3, RivalIsHarmless
    <3>5. /\ UNCHANGED <<accounts, succeeded, overlapped>>
          /\ \A u \in Users \ {w} : user'[u] = user[u] /\ AccountsOf(u)' = AccountsOf(u)
      BY <1>0, <2>c, <2>6 DEF CreateHash, TypeOK, AccountsOf
    <3>. QED BY <1>0, <2>c, <3>2, <3>3, <3>4, <3>5, Moves
  <2>7. CASE Lookup(r)
    <3>1. Busy(r) /\ req[r].pc \notin Asking /\ UNCHANGED <<user, accounts, succeeded, overlapped>>
      BY <2>7 DEF Lookup, Busy, At, Running, Writing, Registering, Asking
    <3>2. CASE End(r)
      BY <1>0, <3>1, <3>2, Ends
    <3>3. CASE user[w].link /\ Become(r, [req[r] EXCEPT !.pc = "pin", !.old = user[w]])
      <4>1. PICK new \in Request : new = [req[r] EXCEPT !.pc = "pin", !.old = user[w]]
        BY <1>0, <2>0 DEF Request, TypeOK, Running, Writing, Registering
      <4>2. Become(r, new) /\ new.user = req[r].user /\ Shaped(new) /\ OnItsWay(new)
        BY <2>0, <3>3, <4>1 DEF Request, Shaped, OnItsWay
      <4>3. ~ (w \in Unrivalled /\ w \in succeeded)
        BY <2>c, <3>1, <3>3, RivalIsHarmless DEF Lasting
      <4>. QED BY <1>0, <2>c, <3>1, <4>2, <4>3, Advances
    <3>. QED BY <2>c, <2>7, <3>2, <3>3 DEF Lookup
  <2>8. CASE FindPin(r) \/ VerifyPin(r)
    <3>1. /\ Busy(r) /\ req[r].pc \notin Asking /\ ~Harmless(req[r]) /\ req[r].pc \in {"pin", "verify"}
          /\ UNCHANGED <<user, accounts, succeeded, overlapped>>
      BY <2>8 DEF FindPin, VerifyPin, Busy, At, Running, Writing, Registering, Asking, Harmless
    <3>2. CASE Become(r, Failed(req[r], r))
      BY <1>0, <3>1, <3>2, Fails
    <3>3. CASE \E pc \in {"update", "verify"} : Become(r, goes(pc))
      <4>1. PICK pc \in {"update", "verify"} : Become(r, goes(pc))
        BY <3>3
      <4>2. pc \in Running /\ pc # "parts"
        BY DEF Running, Writing, Registering
      <4>3. ~ (req[r].user \in Unrivalled /\ req[r].user \in succeeded)
        BY <3>1, RivalIsHarmless
      <4>. QED BY <1>0, <2>a, <3>1, <4>1, <4>2, <4>3, Advances
    <3>. QED BY <2>8, <3>2, <3>3 DEF FindPin, VerifyPin, goes
  <2>9. CASE UpdateUser(r)
    <3>1. PICK new \in Request :
            new = [req[r] EXCEPT !.pc = "parts", !.account = "existence", !.consent = "wait"]
      BY <2>0 DEF Request, Running, Writing, AccountPart, ConsentPart
    <3>2. user'[w].link = FALSE
      BY <1>0, <2>0, <2>c, <2>9 DEF UpdateUser, TypeOK, Request, Document
    <3>3. Become(r, new) /\ new.user = w /\ Shaped(new) /\ OnItsWay(new)'
      BY <2>0, <2>c, <2>9, <3>1, <3>2 DEF UpdateUser, Request, Shaped, OnItsWay
    <3>4. Busy(r) /\ req[r].pc \notin Asking /\ ~Harmless(req[r])
      BY <2>9 DEF UpdateUser, Busy, At, Running, Writing, Registering, Asking, Harmless
    <3>5. ~ (w \in Unrivalled /\ w \in succeeded)
      BY <2>c, <3>4, RivalIsHarmless
    <3>6. /\ UNCHANGED <<accounts, succeeded, overlapped>>
          /\ \A u \in Users \ {w} : user'[u] = user[u] /\ AccountsOf(u)' = AccountsOf(u)
      BY <1>0, <2>c, <2>9 DEF UpdateUser, TypeOK, AccountsOf
    <3>. QED BY <1>0, <2>c, <3>3, <3>4, <3>5, <3>6, Moves
  <2>10. CASE ValidateRequest(r)
    <3>1. Busy(r) /\ req[r].pc \notin Asking /\ UNCHANGED <<user, accounts, succeeded, overlapped>>
      BY <2>10 DEF ValidateRequest, Busy, At, Running, Writing, Asking
    <3>2. CASE End(r)
      BY <1>0, <3>1, <3>2, Ends
    <3>3. CASE ~End(r)
      <4>1. PICK new \in Request :
              new = [req[r] EXCEPT !.pc = "parts", !.account = "find", !.consent = "read", !.link = "patch"]
        BY <2>0 DEF Request, Running, Writing, AccountPart, ConsentPart
      <4>2. user[w].link /\ Become(r, new)
        BY <2>c, <2>10, <3>3, <4>1 DEF ValidateRequest
      <4>3. ~ (w \in Unrivalled /\ w \in succeeded)
        BY <2>c, <3>1, <4>2, RivalIsHarmless DEF Lasting
      <4>4. req[r].op # "register"
        BY <2>0, <2>10 DEF ValidateRequest, At, Shaped
      <4>5. new.user = req[r].user /\ Shaped(new) /\ OnItsWay(new)
        BY <2>0, <4>1, <4>4 DEF Request, Shaped, OnItsWay
      <4>. QED BY <1>0, <2>c, <3>1, <4>2, <4>3, <4>5, Advances
    <3>. QED BY <3>2, <3>3
  <2>d. At(r, "parts") => Busy(r) /\ req[r].pc \notin Asking
    BY DEF At, Busy, Running, Writing, Asking
  <2>e. Busy(r) /\ req[r].pc \notin Asking /\ ~Harmless(req[r]) => ~ (w \in Unrivalled /\ w \in succeeded)
    BY <2>c, RivalIsHarmless
  <2>f. w \in Unrivalled => OnItsWay(req[r])
    BY <2>c DEF SuccessInv
  <2>11. CASE PatchLink(r)
    <3>1. PICK new \in Request : new = [req[r] EXCEPT !.link = "end"]
      BY <2>0 DEF Request
    <3>2. req[r].op # "register"
      BY <2>0, <2>11 DEF PatchLink, Shaped
    <3>3. Become(r, new) /\ new.user = w /\ Shaped(new) /\ OnItsWay(new)'
      BY <2>0, <2>c, <2>11, <3>1, <3>2 DEF PatchLink, Request, Shaped, OnItsWay
    <3>4. Busy(r) /\ req[r].pc \notin Asking /\ ~Harmless(req[r])
      BY <2>d, <2>11 DEF PatchLink, At, Harmless
    <3>5. /\ UNCHANGED <<accounts, succeeded, overlapped>>
          /\ \A u \in Users \ {w} : user'[u] = user[u] /\ AccountsOf(u)' = AccountsOf(u)
      BY <1>0, <2>c, <2>11 DEF PatchLink, TypeOK, AccountsOf
    <3>. QED BY <1>0, <2>c, <2>e, <3>3, <3>4, <3>5, Moves
  <2>12. CASE FindAccount(r)
    <3>1. PICK part \in AccountPart : Become(r, [req[r] EXCEPT !.account = part])
      BY <2>12 DEF FindAccount, AccountPart
    <3>2. PICK new \in Request : new = [req[r] EXCEPT !.account = part]
      BY <2>0 DEF Request
    <3>3. new.user = w /\ Shaped(new) /\ (w \in Unrivalled => OnItsWay(new))
      BY <2>0, <2>c, <2>f, <2>12, <3>2 DEF FindAccount, At, Request, Shaped, OnItsWay
    <3>4. Busy(r) /\ req[r].pc \notin Asking /\ ~Harmless(req[r])
      BY <2>d, <2>12 DEF FindAccount, At, Harmless
    <3>. QED BY <1>0, <2>c, <2>e, <2>12, <3>1, <3>2, <3>3, <3>4, Advances DEF FindAccount
  <2>13. CASE CheckAccount(r)
    <3>1. /\ Busy(r) /\ req[r].pc \notin Asking /\ ~Harmless(req[r]) /\ At(r, "parts")
          /\ req[r]["account"] \in {"existence", "unique"}
          /\ UNCHANGED <<user, accounts, succeeded, overlapped>>
      BY <2>0, <2>d, <2>13 DEF CheckAccount, At, Harmless, Request
    <3>2. CASE PartFails(r, "account")
      BY <1>0, <3>1, <3>2, PartEnds
    <3>3. CASE ~PartFails(r, "account")
      <4>1. PICK part \in AccountPart : Become(r, [req[r] EXCEPT !.account = part])
        BY <2>13, <3>3 DEF CheckAccount, AccountPart
      <4>2. PICK new \in Request : new = [req[r] EXCEPT !.account = part]
        BY <2>0 DEF Request
      <4>3. new.user = w /\ Shaped(new) /\ (w \in Unrivalled => OnItsWay(new))
        BY <2>0, <2>c, <2>f, <3>1, <4>2 DEF At, Request, Shaped, OnItsWay
      <4>. QED BY <1>0, <2>c, <2>e, <3>1, <4>1, <4>2, <4>3, Advances
    <3>. QED BY <3>2, <3>3
  <2>14. CASE InsertAccount(r)
    <3>1. PICK part \in ConsentPart : Become(r, [req[r] EXCEPT !.account = "end", !.consent = part])
      BY <2>0, <2>14 DEF InsertAccount, ConsentPart, Request
    <3>2. PICK new \in Request : new = [req[r] EXCEPT !.account = "end", !.consent = part]
      BY <2>0 DEF Request, AccountPart
    <3>3. <<w, r>> \in AccountsOf(w)'
      BY <2>c, <2>14 DEF InsertAccount, AccountsOf
    <3>4. new.user = w /\ Shaped(new) /\ (w \in Unrivalled => OnItsWay(new)')
      BY <2>0, <2>c, <2>f, <2>14, <3>2, <3>3 DEF InsertAccount, At, Request, Shaped, OnItsWay
    <3>5. Busy(r) /\ req[r].pc \notin Asking /\ ~Harmless(req[r])
      BY <2>d, <2>14 DEF InsertAccount, At, Harmless
    <3>6. /\ UNCHANGED <<user, succeeded, overlapped>>
          /\ \A u \in Users \ {w} : user'[u] = user[u] /\ AccountsOf(u)' = AccountsOf(u)
      BY <2>c, <2>14 DEF InsertAccount, AccountsOf
    <3>. QED BY <1>0, <2>c, <2>e, <3>1, <3>2, <3>4, <3>5, <3>6, Moves
  <2>15. CASE ReadConsent(r)
    <3>1. PICK new \in Request : new = [req[r] EXCEPT !.consent = "write", !.read = user[req[r].user].consent]
      BY <1>0, <2>0 DEF Request, ConsentPart, TypeOK, Document
    <3>2. /\ Become(r, new) /\ new.user = w /\ Shaped(new) /\ (w \in Unrivalled => OnItsWay(new))
      BY <2>0, <2>c, <2>f, <2>15, <3>1 DEF ReadConsent, At, Request, Shaped, OnItsWay
    <3>3. Busy(r) /\ req[r].pc \notin Asking /\ ~Harmless(req[r])
      BY <2>d, <2>15 DEF ReadConsent, At, Harmless
    <3>. QED BY <1>0, <2>c, <2>e, <2>15, <3>2, <3>3, Advances DEF ReadConsent
  <2>16. CASE WriteConsent(r)
    <3>1. PICK new \in Request : new = [req[r] EXCEPT !.consent = "end"]
      BY <2>0 DEF Request, ConsentPart
    <3>2. user'[w].link = user[w].link /\ user'[w].consent = req[r].read \cup req[r].given
      BY <1>0, <2>c, <2>16 DEF WriteConsent, TypeOK, Document
    <3>3. Become(r, new) /\ new.user = w /\ Shaped(new)
      BY <2>0, <2>c, <2>16, <3>1 DEF WriteConsent, Request, Shaped
    <3>4. w \in Unrivalled => OnItsWay(new)'
      BY <2>0, <2>c, <2>f, <2>16, <3>1, <3>2 DEF WriteConsent, At, Request, OnItsWay
    <3>5. Busy(r) /\ req[r].pc \notin Asking /\ ~Harmless(req[r])
      BY <2>d, <2>16 DEF WriteConsent, At, Harmless
    <3>6. ASSUME w \in Unrivalled, w \in succeeded' PROVE Lasting(w)' /\ Harmless(new)
      <4>1. req[r].op = "register"
        BY <2>e, <2>16, <3>5, <3>6 DEF WriteConsent
      <4>2. req[r].link = "end" /\ req[r].given # {}
        BY <2>0, <4>1 DEF Shaped
      <4>3. ~user[w].link /\ req[r].account = "end" /\ AccountsOf(w) # {}
        BY <2>c, <2>f, <2>16, <3>6, <4>1 DEF WriteConsent, At, OnItsWay
      <4>4. Lasting(w)'
        BY <2>16, <3>2, <4>2, <4>3 DEF WriteConsent, Lasting, AccountsOf
      <4>. QED BY <2>0, <2>16, <3>1, <4>2, <4>3, <4>4 DEF WriteConsent, At, Harmless, Request
    <3>7. /\ UNCHANGED <<accounts, overlapped>> /\ \A u \in succeeded' \ succeeded : u = w
          /\ \A u \in Users \ {w} : user'[u] = user[u] /\ AccountsOf(u)' = AccountsOf(u)
      BY <1>0, <2>c, <2>16 DEF WriteConsent, TypeOK, AccountsOf
    <3>. QED BY <1>0, <2>c, <3>3, <3>4, <3>5, <3>6, <3>7, Moves
  <2>17. CASE PartsEnd(r)
    BY <1>0, <2>d, <2>17, Ends DEF PartsEnd
  <2>18. CASE RestoreUser(r) \/ RemoveAccount(r)
    <3>1. PICK what : Become(r, Undone(req[r], what))
      BY <2>18 DEF RestoreUser, RemoveAccount
    <3>2. PICK new \in Request : new = Undone(req[r], what)
      BY <1>0, UndoneType
    <3>3. Busy(r) /\ req[r].pc \notin Asking /\ ~Harmless(req[r]) /\ req[r].pc = "rollback"
      BY <2>18 DEF RestoreUser, RemoveAccount, At, Busy, Running, Writing, Asking, Harmless
    <3>4. new.user = w /\ Shaped(new) /\ OnItsWay(new)'
      BY <2>0, <2>c, <3>2, <3>3, EndedType DEF Undone, Ended, Fresh, Request, Shaped, OnItsWay
    <3>5. /\ UNCHANGED <<succeeded, overlapped>>
          /\ \A u \in Users \ {w} : user'[u] = user[u]
      BY <1>0, <2>c, <2>18 DEF RestoreUser, RemoveAccount, TypeOK
    <3>6. \A u \in Users \ {w} : AccountsOf(u)' = AccountsOf(u)
      BY <2>c, <2>18 DEF RestoreUser, RemoveAccount, AccountsOf
    <3>. QED BY <1>0, <2>c, <2>e, <3>1, <3>2, <3>3, <3>4, <3>5, <3>6, Moves
  <2>19. CASE CommandFails(r)
    <3>1. UNCHANGED <<user, accounts, succeeded, overlapped>>
      BY <2>19 DEF CommandFails
    <3>2. CASE req[r].pc \in Asking \cup Inviting \cup {"lookup", "get"} /\ End(r)
      <4>1. Busy(r)
        BY <3>2 DEF Busy, Running, Writing, Registering
      <4>. QED BY <1>0, <3>1, <3>2, <4>1, Ends
    <3>3. CASE req[r].pc \in Registering \ {"lookup"} /\ Become(r, Failed(req[r], r))
      BY <1>0, <3>1, <3>3, Fails DEF Registering
    <3>4. CASE \E part \in {"account", "consent", "link"} :
                  req[r].pc = "parts" /\ req[r][part] # "end" /\ PartFails(r, part)
      BY <1>0, <3>1, <3>4, PartEnds DEF At
    <3>5. CASE req[r].pc = "rollback" /\ \E what \in req[r].undo : Become(r, Undone(req[r], what))
      <4>1. PICK what \in req[r].undo : Become(r, Undone(req[r], what))
        BY <3>5
      <4>2. PICK new \in Request : new = Undone(req[r], what)
        BY <1>0, UndoneType
      <4>3. Busy(r) /\ req[r].pc \notin Asking /\ ~Harmless(req[r])
        BY <3>5 DEF Busy, Running, Writing, Asking, Harmless
      <4>4. new.user = w /\ Shaped(new) /\ OnItsWay(new)
        BY <2>0, <2>c, <3>5, <4>2, EndedType DEF Undone, Ended, Fresh, Request, Shaped, OnItsWay
      <4>. QED BY <1>0, <2>c, <2>e, <3>1, <4>1, <4>2, <4>3, <4>4, Advances
    <3>. QED BY <2>0, <2>19, <3>2, <3>3, <3>4, <3>5 DEF CommandFails, Request
  <2>20. CASE Crash(r)
    BY <1>0, <2>20, Ends DEF Crash
  <2>. QED
    BY <1>1, <2>1, <2>2, <2>3, <2>4, <2>5, <2>6, <2>7, <2>8, <2>9, <2>10, <2>11, <2>12, <2>13,
       <2>14, <2>15, <2>16, <2>17, <2>18, <2>19, <2>20 DEF Step
<1>2. ASSUME NEW p \in pins, Age(p) PROVE SuccessInv'
  BY <1>0, <1>2 DEF Age, SuccessInv, OneRival, Rival, Busy, Unrivalled, Lasting, AccountsOf, OnItsWay
<1>3. CASE Finished
  BY <1>0, <1>3 DEF Finished, vars, SuccessInv, OneRival, Rival, Busy, Unrivalled, Lasting, AccountsOf, OnItsWay
<1>. QED BY <1>1, <1>2, <1>3 DEF Next

(* A registration that was answered with success is not undone, for any    *)
(* number of users, requests and faults.                                   *)
THEOREM SuccessTheorem == Spec => []SuccessStays
<1>1. SuccessInv /\ UNCHANGED vars => SuccessInv'
  BY DEF vars, histories, SuccessInv, TypeOK, OneRival, Rival, Busy, Unrivalled, Lasting, AccountsOf,
         Shaped, OnItsWay, Harmless
<1>2. SuccessInv => SuccessStays
  BY DEF SuccessInv, SuccessStays, Lasting, Unrivalled, TypeOK
<1>. QED BY SuccessInit, SuccessStep, <1>1, <1>2, PTL DEF Spec
-----------------------------------------------------------------------------
(* The last pin is stored, or about to be by one of those who removed it.  *)
PinComes(u) == \E r \in Requests : At(r, "createPin") /\ req[r].user = u

LastPinInv ==
    \A u \in Users \ broken : mails[u] > 0 =>
        PinComes(u) \/ \E p \in PinsOf(u) : p.code = mails[u]

(* A step that keeps the codes of the pins and the requests that are about *)
(* to store one.                                                           *)
LEMMA PinsKept ==
    ASSUME LastPinInv, mails' = mails, broken \subseteq broken',
           \A u \in Users : \A p \in PinsOf(u) : \E q \in PinsOf(u)' : q.code = p.code,
           \A r \in Requests : At(r, "createPin") /\ req[r].user \notin broken' =>
               At(r, "createPin")' /\ req'[r].user = req[r].user
    PROVE  LastPinInv'
<1> SUFFICES ASSUME NEW u \in Users, u \notin broken', mails'[u] > 0
             PROVE  PinComes(u)' \/ \E p \in PinsOf(u)' : p.code = mails'[u]
  BY DEF LastPinInv
<1>1. PinComes(u) \/ \E p \in PinsOf(u) : p.code = mails[u]
  BY DEF LastPinInv
<1>2. PinComes(u) => PinComes(u)'
  BY DEF PinComes
<1>. QED BY <1>1, <1>2

(* Most steps of a request neither change the pins nor end a request that  *)
(* is about to store one.                                                  *)
LEMMA OtherStep ==
    ASSUME LastPinInv, TypeOK, NEW r \in Requests, NEW new, Become(r, new),
           UNCHANGED <<mails, pins>>, broken \subseteq broken',
           At(r, "createPin") => req[r].user \in broken'
    PROVE  LastPinInv'
<1>1. \A q \in Requests : At(q, "createPin") /\ req[q].user \notin broken' =>
               At(q, "createPin")' /\ req'[q].user = req[q].user
  BY DEF TypeOK, Become, At
<1>2. \A u \in Users : \A p \in PinsOf(u) : \E q \in PinsOf(u)' : q.code = p.code
  BY DEF PinsOf
<1>. QED BY <1>1, <1>2, PinsKept

LEMMA LastPinStep == LastPinInv /\ TypeOK /\ Next => LastPinInv'
<1> SUFFICES ASSUME LastPinInv, TypeOK, Next PROVE LastPinInv'
  OBVIOUS
<1> USE DEF histories
<1>1. ASSUME NEW r \in Requests, Step(r) PROVE LastPinInv'
  <2>0. /\ req \in [Requests -> Request] /\ req[r] \in Request /\ req[r].user \in Users
        /\ pins \subseteq Pin /\ mails \in [Users -> Nat]
    BY DEF TypeOK, Request
  <2>1. CASE RemoveOldPins(r)
    <3>1. /\ req' = [req EXCEPT ![r] = [req[r] EXCEPT !.pc = "createPin"]]
          /\ pins' = pins \ PinsOf(req[r].user) /\ UNCHANGED <<mails, broken>>
      BY <2>1 DEF RemoveOldPins, Goto, Become
    <3> SUFFICES ASSUME NEW u \in Users, u \notin broken', mails'[u] > 0
                 PROVE  PinComes(u)' \/ \E p \in PinsOf(u)' : p.code = mails'[u]
      BY DEF LastPinInv
    <3>2. PinComes(u) \/ \E p \in PinsOf(u) : p.code = mails[u]
      BY <3>1 DEF LastPinInv
    <3>3. req'[r].pc = "createPin" /\ req'[r].user = req[r].user
      BY <2>0, <3>1 DEF Request
    <3>4. CASE u = req[r].user
      BY <3>3, <3>4 DEF PinComes, At
    <3>5. CASE u # req[r].user
      <4>1. PinComes(u) => PinComes(u)'
        BY <2>0, <3>1, <3>5 DEF PinComes, At
      <4>2. PinsOf(u)' = PinsOf(u)
        BY <3>1, <3>5 DEF PinsOf
      <4>. QED BY <3>1, <3>2, <4>1, <4>2
    <3>. QED BY <3>4, <3>5
  <2>2. CASE CreatePin(r)
    <3> DEFINE w == req[r].user
    <3>1. /\ req' = [req EXCEPT ![r] = Ended(w)]
          /\ pins' = pins \cup {NewPin(w)} /\ mails' = [mails EXCEPT ![w] = @ + 1] /\ broken' = broken
      BY <2>2 DEF CreatePin, End, Become, Mailed
    <3> SUFFICES ASSUME NEW u \in Users, u \notin broken', mails'[u] > 0
                 PROVE  PinComes(u)' \/ \E p \in PinsOf(u)' : p.code = mails'[u]
      BY DEF LastPinInv
    <3>2. CASE u = w
      <4>1. NewPin(w).user = w /\ NewPin(w).code = mails'[w]
        BY <2>0, <3>1 DEF NewPin
      <4>. QED BY <3>1, <3>2, <4>1 DEF PinsOf
    <3>3. CASE u # w
      <4>1. PinComes(u) \/ \E p \in PinsOf(u) : p.code = mails[u]
        BY <2>0, <3>1, <3>3 DEF LastPinInv
      <4>2. PinComes(u) => PinComes(u)'
        BY <2>0, <3>1, <3>3 DEF PinComes, At
      <4>3. PinsOf(u) \subseteq PinsOf(u)'
        BY <3>1 DEF PinsOf
      <4>. QED BY <2>0, <3>1, <3>3, <4>1, <4>2, <4>3
    <3>. QED BY <3>2, <3>3
  <2>3. CASE VerifyPin(r)
    <3> DEFINE found == {p \in PinsOf(req[r].user) : p.code = req[r].code}
    <3>1. /\ pins' = (pins \ found) \cup {[p EXCEPT !.verified = TRUE, !.age = "recent"] : p \in found}
          /\ UNCHANGED <<mails, broken>> /\ At(r, "verify") /\ \E new : Become(r, new)
      BY <2>3 DEF VerifyPin
    <3>2. ASSUME NEW u \in Users, NEW p \in PinsOf(u) PROVE \E q \in PinsOf(u)' : q.code = p.code
      <4>1. CASE p \in found
        <5> DEFINE q == [p EXCEPT !.verified = TRUE, !.age = "recent"]
        <5>1. q \in pins' /\ q.user = p.user /\ q.code = p.code
          BY <2>0, <3>1, <4>1 DEF PinsOf, Pin
        <5>. QED BY <5>1 DEF PinsOf
      <4>2. CASE p \notin found
        <5>1. p \in PinsOf(u)'
          BY <3>1, <4>2 DEF PinsOf
        <5>. QED BY <5>1
      <4>. QED BY <4>1, <4>2
    <3>3. \A q \in Requests : At(q, "createPin") => At(q, "createPin")' /\ req'[q].user = req[q].user
      BY <2>0, <3>1 DEF At, Become
    <3>. QED BY <3>1, <3>2, <3>3, PinsKept
  <2>4. CASE /\ UNCHANGED <<mails, pins, broken>> /\ ~At(r, "createPin")
             /\ \E new : Become(r, new)
    BY <2>4, OtherStep
  <2>5. CASE AskPin(r) \/ FindLinked(r) \/ CheckTimeWindow(r) \/ Invite(r) \/ FindUser(r)
             \/ FindAccountOfUser(r) \/ CreateHash(r) \/ Register(r) \/ Lookup(r) \/ FindPin(r)
    BY <2>4, <2>5 DEF AskPin, FindLinked, CheckTimeWindow, Invite, FindUser, FindAccountOfUser, CreateHash,
         Register, Lookup, FindPin, Start, Goto, End, At
  <2>6. CASE UpdateUser(r) \/ Skip(r) \/ ValidateRequest(r) \/ PatchLink(r) \/ FindAccount(r)
             \/ InsertAccount(r) \/ ReadConsent(r) \/ WriteConsent(r) \/ PartsEnd(r)
             \/ RestoreUser(r) \/ RemoveAccount(r)
    BY <2>4, <2>6 DEF UpdateUser, Skip, ValidateRequest, PatchLink, FindAccount, InsertAccount, ReadConsent,
         WriteConsent, PartsEnd, RestoreUser, RemoveAccount, Start, Goto, End, At
  <2>7. ASSUME NEW part, PartFails(r, part) PROVE broken \subseteq broken' /\ \E new : Become(r, new)
    BY <2>7 DEF PartFails
  <2>8. CASE CheckAccount(r)
    <3>1. /\ UNCHANGED <<mails, pins>> /\ broken \subseteq broken' /\ ~At(r, "createPin")
          /\ \E new : Become(r, new)
      BY <2>7, <2>8 DEF CheckAccount, At
    <3>. QED BY <3>1, OtherStep
  <2>9. CASE CommandFails(r)
    <3>1. UNCHANGED <<mails, pins>>
      BY <2>9 DEF CommandFails
    <3>2. /\ broken \subseteq broken' /\ \E new : Become(r, new)
          /\ At(r, "createPin") => req[r].user \in broken'
      <4>1. CASE req[r].pc \in Asking \cup Inviting \cup {"lookup", "get"} /\ End(r)
                 /\ (IF req[r].pc \in {"createPin"} THEN Breaks(r) ELSE UNCHANGED broken)
        BY <4>1 DEF End, At, Breaks
      <4>2. CASE req[r].pc \in Registering \ {"lookup"} /\ Become(r, Failed(req[r], r)) /\ UNCHANGED broken
        BY <4>2 DEF At, Registering
      <4>3. CASE req[r].pc = "parts" /\ \E part : PartFails(r, part)
        BY <2>7, <4>3 DEF At
      <4>4. CASE req[r].pc = "rollback" /\ Breaks(r) /\ \E what \in req[r].undo : Become(r, Undone(req[r], what))
        BY <4>4 DEF At, Breaks
      <4>. QED BY <2>9, <4>1, <4>2, <4>3, <4>4 DEF CommandFails
    <3>. QED BY <3>1, <3>2, OtherStep
  <2>10. CASE Crash(r)
    <3>1. /\ UNCHANGED <<mails, pins>> /\ broken' = broken \cup {req[r].user}
          /\ \E new : Become(r, new)
      BY <2>10 DEF Crash, End, Breaks
    <3>. QED BY <3>1, OtherStep
  <2>. QED BY <1>1, <2>1, <2>2, <2>3, <2>5, <2>6, <2>8, <2>9, <2>10 DEF Step
<1>2. ASSUME NEW p \in pins, Age(p) PROVE LastPinInv'
  <2> DEFINE older == [p EXCEPT !.age = IF @ = "recent" THEN "valid" ELSE "expired"]
  <2>1. pins' = (pins \ {p}) \cup {older} /\ UNCHANGED <<mails, req, broken>>
    BY <1>2 DEF Age
  <2>2. older.user = p.user /\ older.code = p.code
    BY DEF TypeOK, Pin
  <2> HIDE DEF older
  <2>3. \A u \in Users : \A q \in PinsOf(u) : \E o \in PinsOf(u)' : o.code = q.code
    BY <2>1, <2>2 DEF PinsOf
  <2>. QED BY <2>1, <2>3, PinsKept DEF At
<1>3. CASE Finished
  BY <1>3 DEF Finished, vars, LastPinInv, PinComes, At, PinsOf
<1>. QED BY <1>1, <1>2, <1>3 DEF Next

(* The pin that was mailed last is stored when no request for the user is  *)
(* under way, however many requests for pins have overlapped.              *)
THEOREM LastPinTheorem == Spec => []LastPinStored
<1>1. Init => LastPinInv
  BY DEF Init, LastPinInv
<1>2. LastPinInv /\ UNCHANGED vars => LastPinInv'
  BY DEF vars, histories, LastPinInv, PinComes, At, PinsOf
<1>3. LastPinInv => LastPinStored
  <2>1. "createPin" \in Running
    BY DEF Running, Asking
  <2>. QED BY <2>1 DEF LastPinInv, LastPinStored, Settled, Busy, PinComes, At
<1>. QED BY TypeCorrect, LastPinStep, <1>1, <1>2, <1>3, PTL DEF Spec
-----------------------------------------------------------------------------
(* What a registration leaves behind, with these accounts and this         *)
(* document of the user: an account and a consent, or nothing.             *)
Rests(u, of, document) ==
    \/ /\ \E a \in of : of = {a}
       /\ document.consent # {}
       /\ document.link => u \in kept
    \/ of = {} /\ document = [link |-> u \in invited, consent |-> {}]

Sole(u) == \E a \in AccountsOf(u) : AccountsOf(u) = {a}

(* Up to its first command that writes, a request finds its user at rest,  *)
(* and a registration keeps the document for its rollback.                 *)
Unwritten(q) ==
    q.pc \in Inviting \cup Registering \cup {"get"} =>
        /\ Rests(q.user, AccountsOf(q.user), user[q.user])
        /\ q.pc = "hash" => AccountsOf(q.user) = {}
        /\ q.pc \in {"pin", "verify", "update"} => q.old = user[q.user]
        /\ q.pc \in Registering => q.op = "register" /\ q.given # {}
        /\ q.pc = "get" => q.op = "skip" /\ q.given # {}

(* A registration makes the account of a user without one, then stores the *)
(* consent; with its own account taken away the document it has read is    *)
(* that of a user at rest.                                                 *)
RegisterPart(q, r) ==
    LET of == AccountsOf(q.user)
    IN  /\ q.given # {}
        /\ Rests(q.user, of \ {<<q.user, r>>}, q.old)
        /\ \/ /\ q.consent = "wait" /\ q.account \in {"existence", "unique", "insert"}
              /\ <<q.user, r>> \notin of
              /\ q.account = "insert" => of = {}
              /\ user[q.user] = [q.old EXCEPT !.link = FALSE]
           \/ /\ q.consent \in {"read", "write"} /\ q.account = "end"
              /\ of = {<<q.user, r>>} /\ user[q.user] = [link |-> FALSE, consent |-> {}]
           \/ /\ q.consent = "end" /\ q.account = "end"
              /\ of = {<<q.user, r>>} /\ user[q.user].consent # {} /\ ~user[q.user].link

(* The parts of a skipped registration come in any order, and each leaves  *)
(* its share of what is at rest.                                           *)
SkipPart(q) ==
    LET of == AccountsOf(q.user)
    IN  /\ q.given # {}
        /\ of = {} \/ Sole(q.user)
        /\ q.account = "insert" => of = {}
        /\ q.account = "end" => Sole(q.user)
        /\ q.consent # "wait"
        /\ q.consent = "end" => user[q.user].consent # {}
        /\ q.link = "end" /\ user[q.user].link => q.user \in kept

(* What is still to be undone is what is not as it was.                    *)
RollsBack(q, r) ==
    LET of == AccountsOf(q.user)
    IN  /\ q.undo # {}
        /\ "user" \notin q.undo => user[q.user] = q.old
        /\ "account" \in q.undo <=> <<q.user, r>> \in of
        /\ Rests(q.user, of \ {<<q.user, r>>}, q.old)

Stage(q, r) ==
    /\ Unwritten(q)
    /\ q.pc = "parts" => q.op \in {"register", "skip"}
    /\ q.pc = "parts" /\ q.op = "register" => RegisterPart(q, r)
    /\ q.pc = "parts" /\ q.op = "skip" => SkipPart(q)
    /\ q.pc = "rollback" => RollsBack(q, r)

Sound == Users \ (overlapped \cup broken)

(* Only a request that has come to its parts has made an account.          *)
MadeInParts ==
    \A r \in Requests : <<req[r].user, r>> \in accounts => req[r].pc \in {"parts", "rollback", "ended"}

RollbackInv ==
    /\ SuccessInv
    /\ MadeInParts
    /\ \A r \in Requests : req[r].user \in Sound => Stage(req[r], r)
    /\ \A u \in Sound : Rival(u) = {} => Rests(u, AccountsOf(u), user[u])
-----------------------------------------------------------------------------
(* The stage of a request depends on its own user alone.                   *)
LEMMA StageKept ==
    ASSUME NEW q, NEW r, Stage(q, r), user'[q.user] = user[q.user],
           AccountsOf(q.user)' = AccountsOf(q.user),
           q.user \in kept' <=> q.user \in kept, q.user \in invited' <=> q.user \in invited
    PROVE  Stage(q, r)'
<1>2. Rests(q.user, AccountsOf(q.user), user[q.user]) => Rests(q.user, AccountsOf(q.user), user[q.user])'
  BY DEF Rests
<1>3. Unwritten(q)'
  BY <1>2 DEF Stage, Unwritten
<1>4. RegisterPart(q, r) => RegisterPart(q, r)'
  <2>1. Rests(q.user, AccountsOf(q.user) \ {<<q.user, r>>}, q.old)
        => Rests(q.user, AccountsOf(q.user) \ {<<q.user, r>>}, q.old)'
    BY DEF Rests
  <2>. QED BY <2>1 DEF RegisterPart
<1>5. SkipPart(q) => SkipPart(q)'
  BY DEF SkipPart, Sole
<1>6. RollsBack(q, r) => RollsBack(q, r)'
  <2>1. Rests(q.user, AccountsOf(q.user) \ {<<q.user, r>>}, q.old)
        => Rests(q.user, AccountsOf(q.user) \ {<<q.user, r>>}, q.old)'
    BY DEF Rests
  <2>. QED BY <2>1 DEF RollsBack
<1>. QED BY <1>3, <1>4, <1>5, <1>6 DEF Stage

(* What a request may count on, and owes, when it takes a step: nobody     *)
(* else writes for its user, and what it writes is about its user.         *)
LEMMA RollbackMoves ==
    ASSUME RollbackInv, SuccessInv', NEW r \in Requests, NEW new \in Request,
           NEW w \in Users, w = req[r].user,
           Busy(r), Become(r, new), new.user = w,
           overlapped' = overlapped, broken \subseteq broken',
           req[r].pc \in Asking => /\ UNCHANGED <<user, accounts, kept, invited>>
                                   /\ new.pc \in Asking \cup {"ended"},
           req[r].pc \notin Asking => new.pc \in (Running \ Asking) \cup {"ended"},
           new.pc \in {"parts", "rollback", "ended"} \/ <<w, r>> \notin accounts',
           \A u \in Users \ {w} : user'[u] = user[u] /\ AccountsOf(u)' = AccountsOf(u),
           accounts' \subseteq accounts \cup {<<w, r>>},
           \A u \in Users \ {w} : (u \in kept' <=> u \in kept) /\ (u \in invited' <=> u \in invited),
           w \in Sound' /\ req[r].pc \notin Asking =>
               IF new.pc = "ended" THEN Rests(w, AccountsOf(w), user[w])' ELSE Stage(new, r)'
    PROVE  RollbackInv'
<1>0. /\ req \in [Requests -> Request] /\ req' = [req EXCEPT ![r] = new]
      /\ req'[r] = new /\ \A q \in Requests \ {r} : req'[q] = req[q]
  BY DEF RollbackInv, SuccessInv, TypeOK, Become
<1>1. Sound' \subseteq Sound /\ Sound \subseteq Unrivalled /\ Sound \subseteq Users
  BY DEF Sound, Unrivalled
<1>2. /\ \A u \in Users \ {w} : Rival(u)' = Rival(u)
      /\ req[r].pc \in Asking => Rival(w)' = Rival(w)
      /\ req[r].pc \notin Asking => r \in Rival(w)
  BY <1>0 DEF Rival, Busy, Running, Asking, Inviting, Writing, Registering
<1>3. ASSUME w \in Sound', req[r].pc \notin Asking PROVE Rival(w) = {r}
  BY <1>1, <1>2, <1>3 DEF RollbackInv, SuccessInv, OneRival
<1>4. MadeInParts'
  <2> SUFFICES ASSUME NEW q \in Requests, <<req'[q].user, q>> \in accounts'
               PROVE  req'[q].pc \in {"parts", "rollback", "ended"}
    BY DEF MadeInParts
  <2>1. CASE q = r
    <3>1. req[r].pc # "ended"
      BY DEF Busy, Running, Asking, Inviting, Writing, Registering
    <3>. QED BY <1>0, <2>1, <3>1
  <2>2. CASE q # r
    BY <1>0, <2>2 DEF RollbackInv, MadeInParts
  <2>. QED BY <2>1, <2>2
<1>5. ASSUME NEW q \in Requests, req'[q].user \in Sound' PROVE Stage(req[q], q)'
  <2>1. CASE q = r /\ req[r].pc \notin Asking /\ new.pc # "ended"
    BY <1>0, <1>5, <2>1
  <2>2. CASE q = r /\ (req[r].pc \in Asking \/ new.pc = "ended")
    <3>1. req'[q].pc \in Asking \cup {"ended"}
      BY <1>0, <2>2
    <3>. QED BY <3>1 DEF Stage, Unwritten, Asking, Inviting, Registering
  <2>3. CASE q # r /\ (req[q].user # w \/ req[r].pc \in Asking)
    <3>1. req'[q] = req[q] /\ req[q].user \in Sound /\ Stage(req[q], q)
      BY <1>0, <1>1, <1>5, <2>3 DEF RollbackInv
    <3>2. PICK u \in Users : u = req[q].user
      BY <1>1, <3>1
    <3>3. user'[u] = user[u] /\ AccountsOf(u)' = AccountsOf(u) /\ (u \in kept' <=> u \in kept)
          /\ (u \in invited' <=> u \in invited)
      BY <2>3, <3>2 DEF AccountsOf
    <3>. QED BY <3>1, <3>2, <3>3, StageKept
  <2>4. CASE q # r /\ req[q].user = w /\ req[r].pc \notin Asking
    <3>1. req'[q] = req[q] /\ q \notin Rival(w)
      BY <1>0, <1>3, <1>5, <2>4
    <3>2. req'[q].pc \notin Running \ Asking
      BY <2>4, <3>1 DEF Rival, Busy
    <3>. QED BY <3>2 DEF Stage, Unwritten, Running, Asking, Inviting, Writing, Registering
  <2>. QED BY <2>1, <2>2, <2>3, <2>4
<1>6. ASSUME NEW u \in Sound', Rival(u)' = {} PROVE Rests(u, AccountsOf(u), user[u])'
  <2>1. CASE u # w \/ req[r].pc \in Asking
    <3>1. user'[u] = user[u] /\ AccountsOf(u)' = AccountsOf(u) /\ (u \in kept' <=> u \in kept)
          /\ (u \in invited' <=> u \in invited) /\ Rival(u) = {}
      BY <1>1, <1>2, <1>6, <2>1 DEF AccountsOf
    <3>2. Rests(u, AccountsOf(u), user[u])
      BY <1>1, <3>1 DEF RollbackInv
    <3>. QED BY <3>1, <3>2 DEF Rests
  <2>2. CASE u = w /\ req[r].pc \notin Asking
    <3>1. new.pc = "ended"
      BY <1>0, <1>6, <2>2 DEF Rival, Busy
    <3>. QED BY <1>6, <2>2, <3>1
  <2>. QED BY <2>1, <2>2
<1>. QED BY <1>4, <1>5, <1>6 DEF RollbackInv

(* A request that ends before it has written anything.                     *)
LEMMA RollbackEnds ==
    ASSUME RollbackInv, SuccessInv', NEW r \in Requests, Busy(r), End(r),
           UNCHANGED <<user, accounts, kept, invited, overlapped>>, broken \subseteq broken',
           req[r].user \in Sound' /\ req[r].pc \notin Asking =>
               Rests(req[r].user, AccountsOf(req[r].user), user[req[r].user])
    PROVE  RollbackInv'
<1>1. req[r].user \in Users
  BY DEF RollbackInv, SuccessInv, TypeOK, Request
<1>2. PICK w \in Users : w = req[r].user
  BY <1>1
<1>3. PICK new \in Request : new = Ended(w)
  BY EndedType
<1>4. new.user = w /\ new.pc = "ended" /\ Become(r, new)
  BY <1>2, <1>3, EndedType DEF End
<1>5. Rests(w, AccountsOf(w), user[w]) => Rests(w, AccountsOf(w), user[w])'
  BY DEF Rests, AccountsOf
<1>6. \A u \in Users : AccountsOf(u)' = AccountsOf(u)
  BY DEF AccountsOf
<1>. QED BY <1>2, <1>4, <1>5, <1>6, RollbackMoves

(* A step that writes neither user nor account.                            *)
LEMMA RollbackAdvances ==
    ASSUME RollbackInv, SuccessInv', NEW r \in Requests, NEW new \in Request,
           Busy(r), Become(r, new), new.user = req[r].user,
           UNCHANGED <<user, accounts, kept, invited, overlapped>>, broken \subseteq broken',
           req[r].pc \in Asking => new.pc \in Asking,
           req[r].pc \notin Asking => new.pc \in Running \ Asking,
           req[r].pc \in {"parts", "rollback"} => new.pc \in {"parts", "rollback"},
           req[r].user \in Sound' /\ req[r].pc \notin Asking => Stage(new, r)
    PROVE  RollbackInv'
<1>1. req[r].user \in Users
  BY DEF RollbackInv, SuccessInv, TypeOK, Request
<1>2. PICK w \in Users : w = req[r].user
  BY <1>1
<1>3. <<w, r>> \in accounts => req[r].pc \in {"parts", "rollback"}
  BY <1>2 DEF RollbackInv, MadeInParts, Busy, Running, Asking, Inviting, Writing, Registering
<1>4. Stage(new, r) => Stage(new, r)'
  BY StageKept DEF AccountsOf
<1>5. \A u \in Users : AccountsOf(u)' = AccountsOf(u)
  BY DEF AccountsOf
<1>6. new.pc # "ended"
  BY DEF Running, Asking, Inviting, Writing, Registering
<1>. QED BY <1>2, <1>3, <1>4, <1>5, <1>6, RollbackMoves

LEMMA RollbackStarts ==
    ASSUME RollbackInv, SuccessInv', NEW r \in Requests, NEW new \in Request, Start(r, new),
           new.user = req[r].user, new.pc \in {"askLink", "findUser", "lookup", "get"},
           new.pc = "lookup" => new.op = "register" /\ new.given # {},
           new.pc = "get" => new.op = "skip" /\ new.given # {}
    PROVE  RollbackInv'
<1>0. /\ req \in [Requests -> Request] /\ req[r].pc = "idle" /\ req[r].user \in Users
      /\ req'[r] = new /\ \A q \in Requests \ {r} : req'[q] = req[q]
  BY DEF RollbackInv, SuccessInv, TypeOK, Start, At, Become, Request
<1>1. UNCHANGED <<user, accounts, kept, invited, broken>> /\ Sound' \subseteq Sound /\ Sound \subseteq Users
  BY DEF Start, Sound
<1>2. \A u \in Users : Rival(u) \subseteq Rival(u)'
  BY <1>0 DEF Rival, Busy, Running, Asking, Inviting, Writing, Registering
<1>3. MadeInParts'
  BY <1>0, <1>1 DEF RollbackInv, MadeInParts
<1>4. ASSUME NEW u \in Sound' PROVE Rests(u, AccountsOf(u), user[u]) => Rests(u, AccountsOf(u), user[u])'
  BY <1>1 DEF Rests, AccountsOf
<1>5. ASSUME NEW q \in Requests, req'[q].user \in Sound' PROVE Stage(req[q], q)'
  <2>1. CASE q = r /\ new.pc # "askLink"
    <3>1. Rival(new.user) = {}
      BY <1>0, <1>5, <2>1 DEF Start, Sound, Asking
    <3>2. Rests(new.user, AccountsOf(new.user), user[new.user])'
      BY <1>0, <1>1, <1>4, <1>5, <2>1, <3>1 DEF RollbackInv
    <3>. QED BY <1>0, <2>1, <3>2 DEF Stage, Unwritten, Registering, Inviting
  <2>2. CASE q = r /\ new.pc = "askLink"
    BY <1>0, <2>2 DEF Stage, Unwritten, Inviting, Registering
  <2>3. CASE q # r
    <3>1. req'[q] = req[q] /\ Stage(req[q], q)
      BY <1>0, <1>1, <1>5, <2>3 DEF RollbackInv
    <3>. QED BY <1>1, <3>1, StageKept DEF AccountsOf
  <2>. QED BY <2>1, <2>2, <2>3
<1>6. ASSUME NEW u \in Sound', Rival(u)' = {} PROVE Rests(u, AccountsOf(u), user[u])'
  BY <1>1, <1>2, <1>4, <1>6 DEF RollbackInv
<1>. QED BY <1>3, <1>5, <1>6 DEF RollbackInv

(* A registration that fails has everything it needs to be undone.         *)
LEMMA RollbackFails ==
    ASSUME RollbackInv, SuccessInv', NEW r \in Requests, Become(r, Failed(req[r], r)),
           \/ req[r].pc \in {"pin", "verify", "update"}
           \/ req[r].pc = "parts" /\ req[r].op = "register",
           UNCHANGED <<user, accounts, kept, invited, overlapped>>, broken \subseteq broken'
    PROVE  RollbackInv'
<1>0. req[r] \in Request /\ req[r].user \in Users
  BY DEF RollbackInv, SuccessInv, TypeOK, Request
<1>1. PICK new \in Request : new = Failed(req[r], r)
  BY <1>0, FailedType DEF RollbackInv, SuccessInv
<1>2. Busy(r) /\ req[r].pc \notin Asking
  BY DEF Busy, Running, Writing, Registering, Asking
<1>3. /\ new.pc = "rollback" /\ new.user = req[r].user /\ new.old = req[r].old
      /\ new.undo = {"user"} \cup (IF <<req[r].user, r>> \in accounts THEN {"account"} ELSE {})
  BY <1>0, <1>1 DEF Failed, Request
<1>4. ASSUME req[r].user \in Sound' PROVE Stage(new, r)
  <2>1. Stage(req[r], r)
    BY <1>4 DEF RollbackInv, Sound
  <2>2. "account" \in new.undo <=> <<req[r].user, r>> \in AccountsOf(req[r].user)
    BY <1>3 DEF AccountsOf
  <2>3. Rests(req[r].user, AccountsOf(req[r].user) \ {<<req[r].user, r>>}, req[r].old)
    <3>1. CASE req[r].pc \in {"pin", "verify", "update"}
      <4>1. <<req[r].user, r>> \notin AccountsOf(req[r].user)
        BY <3>1 DEF RollbackInv, MadeInParts, AccountsOf
      <4>2. AccountsOf(req[r].user) \ {<<req[r].user, r>>} = AccountsOf(req[r].user)
        BY <4>1
      <4>. QED BY <2>1, <3>1, <4>2 DEF Stage, Unwritten, Registering
    <3>2. CASE req[r].pc = "parts" /\ req[r].op = "register"
      BY <2>1, <3>2 DEF Stage, RegisterPart
    <3>. QED BY <3>1, <3>2
  <2>. QED BY <1>3, <2>2, <2>3 DEF Stage, Unwritten, RollsBack, Inviting, Registering
<1>5. "rollback" \in Running \ Asking
  BY DEF Running, Writing, Asking
<1>. QED BY <1>1, <1>2, <1>3, <1>4, <1>5, RollbackAdvances

(* A part that throws: the rollback, or a user whose registration is not   *)
(* complete.                                                               *)
LEMMA RollbackPartEnds ==
    ASSUME RollbackInv, SuccessInv', NEW r \in Requests, NEW part \in {"account", "consent", "link"},
           PartFails(r, part), At(r, "parts"),
           UNCHANGED <<user, accounts, kept, invited, overlapped>>
    PROVE  RollbackInv'
<1>1. CASE req[r].op = "register"
  BY <1>1, RollbackFails DEF PartFails, At
<1>2. CASE req[r].op # "register"
  <2>0. req[r] \in Request
    BY DEF RollbackInv, SuccessInv, TypeOK
  <2>1. PICK new \in Request : new = [req[r] EXCEPT ![part] = "end"]
    BY <2>0 DEF Request, AccountPart, ConsentPart
  <2>2. Become(r, new) /\ new.user = req[r].user /\ new.pc = "parts" /\ broken' = broken \cup {req[r].user}
    BY <1>2, <2>0, <2>1 DEF PartFails, Request, At
  <2>3. Busy(r) /\ req[r].pc \notin Asking /\ "parts" \in Running \ Asking
    BY DEF At, Busy, Running, Writing, Asking
  <2>4. req[r].user \notin Sound'
    BY <2>2 DEF Sound
  <2>. QED BY <2>2, <2>3, <2>4, RollbackAdvances
<1>. QED BY <1>1, <1>2

LEMMA RollbackInit == Init => RollbackInv
<1> SUFFICES ASSUME Init PROVE RollbackInv
  OBVIOUS
<1>1. PICK of \in [Requests -> Users] : req = [r \in Requests |-> Fresh(of[r])]
  BY DEF Init
<1>2. \A r \in Requests : req[r].pc = "idle"
  BY <1>1 DEF Fresh
<1>3. \A r \in Requests : Stage(req[r], r)
  BY <1>2 DEF Stage, Unwritten, Inviting, Registering
<1>4. ASSUME NEW u \in Users PROVE Rests(u, AccountsOf(u), user[u])
  <2>1. PICK l \in BOOLEAN : user[u] = [link |-> l, consent |-> {}]
    BY DEF Init
  <2>2. AccountsOf(u) = {} /\ (u \in invited <=> l)
    BY <2>1 DEF Init, AccountsOf
  <2>. QED BY <2>1, <2>2 DEF Rests
<1>5. MadeInParts
  BY DEF Init, MadeInParts
<1>. QED BY <1>3, <1>4, <1>5, SuccessInit DEF RollbackInv, Sound

(* The requests that only read, or end before they write.                  *)
LEMMA RollbackReads ==
    ASSUME RollbackInv, SuccessInv', NEW r \in Requests,
           \/ FindLinked(r) \/ CheckTimeWindow(r) \/ RemoveOldPins(r) \/ CreatePin(r)
           \/ FindUser(r) \/ FindAccountOfUser(r) \/ Lookup(r) \/ FindPin(r) \/ VerifyPin(r)
           \/ ValidateRequest(r)
    PROVE  RollbackInv'
<1> USE DEF histories
<1>0. /\ req[r] \in Request /\ req[r].user \in Users /\ Busy(r)
      /\ UNCHANGED <<user, accounts, kept, invited, overlapped, broken>>
  <2>1. req[r] \in Request
    BY DEF RollbackInv, SuccessInv, TypeOK
  <2>2. Busy(r)
    BY DEF FindLinked, CheckTimeWindow, RemoveOldPins, CreatePin, FindUser, FindAccountOfUser, Lookup, FindPin,
           VerifyPin, ValidateRequest, At, Busy, Running, Asking, Inviting, Writing, Registering
  <2>3. UNCHANGED <<user, accounts, kept, invited, overlapped, broken>>
    BY DEF FindLinked, CheckTimeWindow, RemoveOldPins, CreatePin, FindUser, FindAccountOfUser, Lookup, FindPin,
           VerifyPin, ValidateRequest
  <2>. QED BY <2>1, <2>2, <2>3 DEF Request
<1>1. req[r].user \in Sound' => Stage(req[r], r)
  BY <1>0 DEF RollbackInv, Sound
<1>2. CASE End(r)
  <2>1. req[r].pc \notin Asking => req[r].pc \in Inviting \cup Registering \cup {"get"}
    BY <1>2 DEF FindLinked, CheckTimeWindow, RemoveOldPins, CreatePin, FindUser, FindAccountOfUser, Lookup, FindPin,
           VerifyPin, ValidateRequest, At, Asking, Inviting, Registering
  <2>. QED BY <1>0, <1>1, <1>2, <2>1, RollbackEnds DEF Stage, Unwritten
<1>3. CASE \E pc \in Asking : req[r].pc \in Asking /\ Goto(r, pc)
  <2>1. PICK pc \in Asking : req[r].pc \in Asking /\ Goto(r, pc)
    BY <1>3
  <2>2. PICK new \in Request : new = [req[r] EXCEPT !.pc = pc]
    BY <1>0 DEF Request, Running
  <2>3. Become(r, new) /\ new.user = req[r].user /\ new.pc = pc
    BY <1>0, <2>1, <2>2 DEF Goto, Request
  <2>4. req[r].pc \notin {"parts", "rollback"}
    BY <2>1 DEF Asking
  <2>. QED BY <1>0, <2>1, <2>3, <2>4, RollbackAdvances
<1>4. CASE \E pc \in {"findAccount", "hash", "verify", "update"} :
              /\ pc = "findAccount" => req[r].pc = "findUser"
              /\ pc = "hash" => req[r].pc = "findAccount" /\ AccountsOf(req[r].user) = {}
              /\ pc \in {"verify", "update"} => req[r].pc \in {"pin", "verify"}
              /\ Become(r, [req[r] EXCEPT !.pc = pc])
  <2>1. PICK pc \in {"findAccount", "hash", "verify", "update"} :
              /\ pc = "findAccount" => req[r].pc = "findUser"
              /\ pc = "hash" => req[r].pc = "findAccount" /\ AccountsOf(req[r].user) = {}
              /\ pc \in {"verify", "update"} => req[r].pc \in {"pin", "verify"}
              /\ Become(r, [req[r] EXCEPT !.pc = pc])
    BY <1>4
  <2>2. PICK new \in Request : new = [req[r] EXCEPT !.pc = pc]
    BY <1>0 DEF Request, Running, Inviting, Writing, Registering
  <2>3. new.user = req[r].user /\ new.pc = pc /\ new.op = req[r].op /\ new.given = req[r].given /\ new.old = req[r].old
    BY <1>0, <2>2 DEF Request
  <2>4. req[r].user \in Sound' => Stage(new, r)
    BY <1>1, <2>1, <2>3 DEF Stage, Unwritten, Inviting, Registering
  <2>5. pc \in Running \ Asking /\ req[r].pc \notin Asking /\ req[r].pc \notin {"parts", "rollback"}
    BY <2>1 DEF Running, Asking, Inviting, Writing, Registering
  <2>. QED BY <1>0, <2>1, <2>2, <2>3, <2>4, <2>5, RollbackAdvances
<1>5. CASE req[r].pc = "lookup" /\ Become(r, [req[r] EXCEPT !.pc = "pin", !.old = user[req[r].user]])
  <2>1. PICK new \in Request : new = [req[r] EXCEPT !.pc = "pin", !.old = user[req[r].user]]
    BY <1>0 DEF Request, Running, Writing, Registering, RollbackInv, SuccessInv, TypeOK
  <2>2. /\ new.user = req[r].user /\ new.pc = "pin" /\ new.op = req[r].op /\ new.given = req[r].given
        /\ new.old = user[req[r].user]
    BY <1>0, <2>1 DEF Request
  <2>3. req[r].user \in Sound' => Stage(new, r)
    BY <1>1, <1>5, <2>2 DEF Stage, Unwritten, Inviting, Registering
  <2>4. "pin" \in Running \ Asking /\ req[r].pc \notin Asking /\ req[r].pc \notin {"parts", "rollback"}
    BY <1>5 DEF Running, Asking, Writing, Registering
  <2>. QED BY <1>0, <1>5, <2>1, <2>2, <2>3, <2>4, RollbackAdvances
<1>6. CASE req[r].pc \in {"pin", "verify"} /\ Become(r, Failed(req[r], r))
  BY <1>0, <1>6, RollbackFails
<1>7. CASE /\ req[r].pc = "get"
           /\ Become(r, [req[r] EXCEPT !.pc = "parts", !.account = "find", !.consent = "read", !.link = "patch"])
  <2>1. PICK new \in Request :
            new = [req[r] EXCEPT !.pc = "parts", !.account = "find", !.consent = "read", !.link = "patch"]
    BY <1>0 DEF Request, Running, Writing, AccountPart, ConsentPart
  <2>2. /\ new.user = req[r].user /\ new.pc = "parts" /\ new.op = req[r].op /\ new.given = req[r].given
        /\ new.account = "find" /\ new.consent = "read" /\ new.link = "patch"
    BY <1>0, <2>1 DEF Request
  <2>3. ASSUME req[r].user \in Sound' PROVE Stage(new, r)
    <3>1. /\ Rests(req[r].user, AccountsOf(req[r].user), user[req[r].user])
          /\ req[r].op = "skip" /\ req[r].given # {}
      BY <1>1, <1>7, <2>3 DEF Stage, Unwritten
    <3>2. AccountsOf(req[r].user) = {} \/ Sole(req[r].user)
      BY <3>1 DEF Rests, Sole
    <3>. QED BY <2>2, <3>1, <3>2 DEF Stage, Unwritten, SkipPart, Inviting, Registering
  <2>4. "parts" \in Running \ Asking /\ req[r].pc \notin Asking
    BY <1>7 DEF Running, Asking, Writing
  <2>. QED BY <1>0, <1>7, <2>1, <2>2, <2>3, <2>4, RollbackAdvances
<1>8. CASE FindLinked(r) \/ CheckTimeWindow(r) \/ RemoveOldPins(r) \/ CreatePin(r)
  BY <1>2, <1>3, <1>8 DEF FindLinked, CheckTimeWindow, RemoveOldPins, CreatePin, At, Asking
<1>9. CASE FindUser(r) \/ FindAccountOfUser(r)
  BY <1>2, <1>4, <1>9 DEF FindUser, FindAccountOfUser, At, Goto
<1>10. CASE FindPin(r) \/ VerifyPin(r)
  BY <1>4, <1>6, <1>10 DEF FindPin, VerifyPin, At
<1>11. CASE Lookup(r)
  BY <1>2, <1>5, <1>11 DEF Lookup, At
<1>12. CASE ValidateRequest(r)
  BY <1>2, <1>7, <1>12 DEF ValidateRequest, At
<1>. QED BY <1>8, <1>9, <1>10, <1>11, <1>12

LEMMA RestsKept ==
    ASSUME NEW u, NEW of, NEW document, Rests(u, of, document),
           u \in kept => u \in kept', u \in invited' <=> u \in invited
    PROVE  Rests(u, of, document)'
BY DEF Rests

LEMMA RollbackRests ==
    ASSUME RollbackInv, SuccessInv', UNCHANGED <<user, accounts, req, invited, kept, overlapped, broken>>
    PROVE  RollbackInv'
<1>1. /\ Sound' = Sound /\ \A u \in Users : Rival(u)' = Rival(u)
      /\ \A u \in Users : AccountsOf(u)' = AccountsOf(u)
  BY DEF Sound, Rival, Busy, AccountsOf
<1>2. ASSUME NEW r \in Requests, req[r].user \in Sound PROVE Stage(req[r], r)'
  <2>1. Stage(req[r], r) /\ req[r].user \in Users
    BY <1>2 DEF RollbackInv, Sound
  <2>. QED BY <1>1, <2>1, StageKept
<1>3. ASSUME NEW u \in Sound, Rival(u) = {} PROVE Rests(u, AccountsOf(u), user[u])'
  <2>1. Rests(u, AccountsOf(u), user[u]) /\ u \in Users
    BY <1>3 DEF RollbackInv, Sound
  <2>. QED BY <1>1, <2>1, RestsKept
<1>4. MadeInParts'
  BY DEF RollbackInv, MadeInParts
<1>. QED BY <1>1, <1>2, <1>3, <1>4 DEF RollbackInv, Sound

LEMMA RollbackStep == RollbackInv /\ SuccessInv' /\ Next => RollbackInv'
<1> SUFFICES ASSUME RollbackInv, SuccessInv', Next PROVE RollbackInv'
  OBVIOUS
<1> USE DEF histories
<1>1. ASSUME NEW r \in Requests, Step(r) PROVE RollbackInv'
  <2>0. /\ TypeOK /\ req[r] \in Request /\ req[r].user \in Users /\ Shaped(req[r])
        /\ user \in [Users -> Document]
    BY DEF RollbackInv, SuccessInv, TypeOK, Request
  <2>c. PICK w \in Users : w = req[r].user
    BY <2>0
  <2>d. user[w] \in Document
    BY <2>0
  <2>s. broken \subseteq broken' /\ overlapped' = overlapped /\ w \in Sound' => Stage(req[r], r)
    BY <2>c DEF RollbackInv, Sound
  <2>p. At(r, "parts") => /\ Busy(r) /\ req[r].pc \notin Asking
    BY DEF At, Busy, Running, Writing, Asking
  <2>q. {"parts", "rollback"} \subseteq Running \ Asking
    BY DEF Running, Writing, Asking
  <2>1. CASE AskPin(r) \/ Invite(r)
    <3>1. \A pc \in {"askLink", "findUser"}, op \in {"ask", "invite"} :
            LET new == [req[r] EXCEPT !.pc = pc, !.op = op]
            IN  new \in Request /\ new.user = req[r].user /\ new.pc = pc
      BY <2>0 DEF Request, Running, Asking, Inviting
    <3>. QED BY <2>1, <3>1, RollbackStarts DEF AskPin, Invite
  <2>2. CASE Register(r)
    <3>1. PICK code \in 0..mails[req[r].user], who \in Persons :
            Start(r, [req[r] EXCEPT !.pc = "lookup", !.op = "register", !.code = code, !.given = {who}])
      BY <2>2 DEF Register
    <3> DEFINE new == [req[r] EXCEPT !.pc = "lookup", !.op = "register", !.code = code, !.given = {who}]
    <3>2. code \in Nat /\ {who} \in SUBSET Persons
      BY <2>0, <3>1 DEF TypeOK
    <3>3. new \in Request /\ new.user = req[r].user /\ new.pc = "lookup" /\ new.op = "register" /\ new.given # {}
      BY <2>0, <3>2 DEF Request, Running, Writing, Registering
    <3> HIDE DEF new
    <3>. QED BY <3>1, <3>3, RollbackStarts DEF new
  <2>3. CASE Skip(r)
    <3>1. PICK who \in {{"user"}, Persons} :
            Start(r, [req[r] EXCEPT !.pc = "get", !.op = "skip", !.given = who])
      BY <2>3 DEF Skip
    <3> DEFINE new == [req[r] EXCEPT !.pc = "get", !.op = "skip", !.given = who]
    <3>2. new \in Request /\ new.user = req[r].user /\ new.pc = "get" /\ new.op = "skip" /\ new.given # {}
      BY <2>0 DEF Request, Running, Writing, Persons
    <3> HIDE DEF new
    <3>. QED BY <3>1, <3>2, RollbackStarts DEF new
  <2>4. CASE \/ FindLinked(r) \/ CheckTimeWindow(r) \/ RemoveOldPins(r) \/ CreatePin(r)
             \/ FindUser(r) \/ FindAccountOfUser(r) \/ Lookup(r) \/ FindPin(r) \/ VerifyPin(r)
             \/ ValidateRequest(r)
    BY <2>4, RollbackReads
  <2>5. CASE CreateHash(r)
    <3>1. PICK new \in Request : new = Ended(w)
      BY EndedType
    <3>2. /\ Become(r, new) /\ new.user = w /\ new.pc = "ended" /\ Busy(r) /\ req[r].pc = "hash"
          /\ req[r].pc \notin Asking
      BY <2>c, <2>5, <3>1, EndedType DEF CreateHash, End, Busy, At, Running, Asking, Inviting
    <3>3. /\ UNCHANGED <<accounts, kept, overlapped, broken>> /\ user' = [user EXCEPT ![w].link = TRUE]
          /\ invited' = invited \cup {w}
      BY <2>c, <2>5 DEF CreateHash
    <3>4. ASSUME w \in Sound' PROVE Rests(w, AccountsOf(w), user[w])'
      <4>1. Rests(w, AccountsOf(w), user[w]) /\ AccountsOf(w) = {}
        BY <2>c, <2>s, <3>2, <3>3, <3>4 DEF Stage, Unwritten, Inviting
      <4>2. user[w].consent = {}
        BY <4>1 DEF Rests
      <4>3. user'[w] = [link |-> TRUE, consent |-> {}]
        BY <2>0, <2>d, <3>3, <4>2 DEF Document
      <4>. QED BY <3>3, <4>1, <4>3 DEF Rests, AccountsOf
    <3>5. \A u \in Users \ {w} : user'[u] = user[u] /\ AccountsOf(u)' = AccountsOf(u)
      BY <2>0, <3>3 DEF AccountsOf
    <3>. QED BY <2>c, <3>2, <3>3, <3>4, <3>5, RollbackMoves
  <2>6. CASE UpdateUser(r)
    <3>1. PICK new \in Request :
            new = [req[r] EXCEPT !.pc = "parts", !.account = "existence", !.consent = "wait"]
      BY <2>0 DEF Request, Running, Writing, AccountPart, ConsentPart
    <3>2. /\ Become(r, new) /\ new.user = w /\ new.pc = "parts" /\ new.op = req[r].op /\ new.given = req[r].given
          /\ new.account = "existence" /\ new.consent = "wait" /\ new.old = req[r].old
          /\ req[r].pc = "update" /\ Busy(r) /\ req[r].pc \notin Asking
      BY <2>0, <2>c, <2>6, <3>1 DEF UpdateUser, At, Request, Busy, Running, Writing, Registering, Asking
    <3>3. /\ UNCHANGED <<accounts, kept, invited, overlapped, broken>>
          /\ user' = [user EXCEPT ![w] = [req[r].old EXCEPT !.link = FALSE]]
      BY <2>c, <2>6 DEF UpdateUser
    <3>4. ASSUME w \in Sound' PROVE Stage(new, r)'
      <4>1. /\ Rests(w, AccountsOf(w), req[r].old) /\ req[r].op = "register" /\ req[r].given # {}
        BY <2>c, <2>s, <3>2, <3>3, <3>4 DEF Stage, Unwritten, Registering
      <4>2. <<w, r>> \notin accounts
        BY <2>c, <3>2 DEF RollbackInv, MadeInParts
      <4>3. AccountsOf(w)' = AccountsOf(w) /\ AccountsOf(w) \ {<<w, r>>} = AccountsOf(w)
            /\ <<w, r>> \notin AccountsOf(w)
        BY <3>3, <4>2 DEF AccountsOf
      <4>4. user'[w] = [req[r].old EXCEPT !.link = FALSE]
        BY <2>0, <3>3
      <4>5. Rests(w, AccountsOf(w) \ {<<w, r>>}, new.old)'
        BY <3>2, <3>3, <4>1, <4>3, RestsKept
      <4>. QED BY <3>2, <4>1, <4>3, <4>4, <4>5 DEF Stage, Unwritten, RegisterPart, Inviting, Registering
    <3>5. \A u \in Users \ {w} : user'[u] = user[u] /\ AccountsOf(u)' = AccountsOf(u)
      BY <2>0, <3>3 DEF AccountsOf
    <3>. QED BY <2>c, <2>q, <3>2, <3>3, <3>4, <3>5, RollbackMoves
  <2>7. CASE PatchLink(r)
    <3>1. PICK new \in Request : new = [req[r] EXCEPT !.link = "end"]
      BY <2>0 DEF Request
    <3>2. /\ Become(r, new) /\ new.user = w /\ new.pc = "parts" /\ new.op = req[r].op /\ new.given = req[r].given
          /\ new.account = req[r].account /\ new.consent = req[r].consent /\ new.link = "end"
          /\ req[r].pc = "parts" /\ req[r].op # "register" /\ At(r, "parts")
      BY <2>0, <2>c, <2>7, <3>1 DEF PatchLink, At, Request, Shaped
    <3>3. /\ UNCHANGED <<accounts, invited, overlapped, broken>>
          /\ user' = [user EXCEPT ![w].link = @ /\ "parent" \notin req[r].given]
          /\ kept' = IF "parent" \in req[r].given THEN kept ELSE kept \cup {w}
      BY <2>c, <2>7 DEF PatchLink
    <3>4. ASSUME w \in Sound' PROVE Stage(new, r)'
      <4>1. SkipPart(req[r]) /\ req[r].op = "skip"
        BY <2>s, <3>2, <3>3, <3>4 DEF Stage
      <4>2. user'[w].consent = user[w].consent /\ (user'[w].link => w \in kept')
        BY <2>0, <2>d, <3>3 DEF Document
      <4>3. AccountsOf(w)' = AccountsOf(w)
        BY <3>3 DEF AccountsOf
      <4>. QED BY <2>c, <3>2, <4>1, <4>2, <4>3 DEF Stage, Unwritten, SkipPart, Sole, Inviting, Registering
    <3>5. \A u \in Users \ {w} : user'[u] = user[u] /\ AccountsOf(u)' = AccountsOf(u)
      BY <2>0, <3>3 DEF AccountsOf
    <3>. QED BY <2>c, <2>p, <2>q, <3>2, <3>3, <3>4, <3>5, RollbackMoves
  <2>8. CASE FindAccount(r)
    <3>1. PICK part \in AccountPart :
              /\ Become(r, [req[r] EXCEPT !.account = part])
              /\ part = IF AccountsOf(req[r].user) = {} THEN "existence" ELSE "end"
      BY <2>8 DEF FindAccount, AccountPart
    <3>2. PICK new \in Request : new = [req[r] EXCEPT !.account = part]
      BY <2>0 DEF Request
    <3>3. /\ Become(r, new) /\ new.user = w /\ new.pc = "parts" /\ new.op = req[r].op /\ new.given = req[r].given
          /\ new.account = part /\ new.consent = req[r].consent /\ new.link = req[r].link
          /\ req[r].pc = "parts" /\ At(r, "parts") /\ req[r].account = "find"
      BY <2>0, <2>c, <2>8, <3>1, <3>2 DEF FindAccount, At, Request
    <3>4. UNCHANGED <<user, accounts, kept, invited, overlapped, broken>>
      BY <2>8 DEF FindAccount
    <3>5. ASSUME w \in Sound' PROVE Stage(new, r)
      <4>1. SkipPart(req[r]) /\ req[r].op = "skip"
        BY <2>s, <3>3, <3>4, <3>5 DEF Stage, RegisterPart
      <4>. QED BY <2>c, <3>1, <3>3, <4>1 DEF Stage, Unwritten, SkipPart, Inviting, Registering
    <3>. QED BY <2>c, <2>p, <2>q, <3>3, <3>4, <3>5, RollbackAdvances
  <2>9. CASE CheckAccount(r)
    <3>0. /\ At(r, "parts") /\ req[r].pc = "parts" /\ req[r].account \in {"existence", "unique"}
          /\ UNCHANGED <<user, accounts, kept, invited, overlapped>>
      BY <2>9 DEF CheckAccount, At
    <3>1. CASE PartFails(r, "account")
      BY <3>0, <3>1, RollbackPartEnds
    <3>2. CASE ~PartFails(r, "account")
      <4>1. PICK part \in {"unique", "insert"} : Become(r, [req[r] EXCEPT !.account = part])
        BY <2>9, <3>2 DEF CheckAccount
      <4>2. PICK new \in Request : new = [req[r] EXCEPT !.account = part]
        BY <2>0 DEF Request, AccountPart
      <4>3. /\ Become(r, new) /\ new.user = w /\ new.pc = "parts" /\ new.op = req[r].op /\ new.given = req[r].given
            /\ new.account = part /\ new.consent = req[r].consent /\ new.link = req[r].link /\ new.old = req[r].old
        BY <2>0, <2>c, <3>0, <4>1, <4>2 DEF Request
      <4>4. AccountsOf(w) = {} /\ UNCHANGED broken
        BY <2>c, <2>9, <3>2 DEF CheckAccount
      <4>5. ASSUME w \in Sound' PROVE Stage(new, r)
        <5>1. Stage(req[r], r)
          BY <2>s, <3>0, <4>4, <4>5
        <5>2. req[r].op = "register" => RegisterPart(new, r)
          BY <2>c, <3>0, <4>3, <4>4, <5>1 DEF Stage, RegisterPart
        <5>3. req[r].op = "skip" => SkipPart(new)
          BY <2>c, <3>0, <4>3, <4>4, <5>1 DEF Stage, SkipPart
        <5>. QED BY <3>0, <4>3, <5>1, <5>2, <5>3 DEF Stage, Unwritten, Inviting, Registering
      <4>. QED BY <2>c, <2>p, <2>q, <3>0, <4>3, <4>4, <4>5, RollbackAdvances
    <3>. QED BY <3>1, <3>2
  <2>10. CASE InsertAccount(r)
    <3>1. PICK part \in ConsentPart :
              /\ Become(r, [req[r] EXCEPT !.account = "end", !.consent = part])
              /\ part = IF req[r].consent = "wait" THEN "read" ELSE req[r].consent
      BY <2>0, <2>10 DEF InsertAccount, ConsentPart, Request
    <3>2. PICK new \in Request : new = [req[r] EXCEPT !.account = "end", !.consent = part]
      BY <2>0 DEF Request, AccountPart
    <3>3. /\ Become(r, new) /\ new.user = w /\ new.pc = "parts" /\ new.op = req[r].op /\ new.given = req[r].given
          /\ new.account = "end" /\ new.consent = part /\ new.link = req[r].link /\ new.old = req[r].old
          /\ req[r].pc = "parts" /\ At(r, "parts") /\ req[r].account = "insert"
      BY <2>0, <2>c, <2>10, <3>1, <3>2 DEF InsertAccount, At, Request
    <3>4. UNCHANGED <<user, kept, invited, overlapped, broken>> /\ accounts' = accounts \cup {<<w, r>>}
      BY <2>c, <2>10 DEF InsertAccount
    <3>5. ASSUME w \in Sound' PROVE Stage(new, r)'
      <4>1. Stage(req[r], r)
        BY <2>s, <3>4, <3>5
      <4>2. AccountsOf(w) = {}
        BY <2>c, <3>3, <4>1 DEF Stage, RegisterPart, SkipPart
      <4>3. AccountsOf(w)' = {<<w, r>>} /\ AccountsOf(w)' \ {<<w, r>>} = {}
        BY <3>4, <4>2 DEF AccountsOf
      <4>4. ASSUME req[r].op = "register" PROVE RegisterPart(new, r)'
        <5>1. /\ req[r].given # {} /\ Rests(w, AccountsOf(w) \ {<<w, r>>}, req[r].old)
              /\ req[r].consent = "wait" /\ user[w] = [req[r].old EXCEPT !.link = FALSE]
          BY <2>c, <3>3, <4>1, <4>4 DEF Stage, RegisterPart
        <5>2. Rests(w, {}, req[r].old)
          <6>1. AccountsOf(w) \ {<<w, r>>} = {}
            BY <4>2
          <6>. QED BY <5>1, <6>1
        <5>3. req[r].old.consent = {} /\ req[r].old \in Document
          BY <2>0, <5>2 DEF Rests, Request
        <5>4. user'[w] = [link |-> FALSE, consent |-> {}]
          BY <3>4, <5>1, <5>3 DEF Document
        <5>5. Rests(w, AccountsOf(w) \ {<<w, r>>}, new.old)'
          BY <3>3, <3>4, <4>3, <5>2, RestsKept
        <5>. QED BY <3>1, <3>3, <4>3, <5>1, <5>4, <5>5 DEF RegisterPart
      <4>5. ASSUME req[r].op = "skip" PROVE SkipPart(new)'
        <5>1. SkipPart(req[r])
          BY <3>3, <4>1, <4>5 DEF Stage
        <5>. QED BY <2>c, <3>1, <3>3, <3>4, <4>3, <5>1 DEF SkipPart, Sole
      <4>. QED BY <3>3, <4>1, <4>4, <4>5 DEF Stage, Unwritten, Inviting, Registering
    <3>6. \A u \in Users \ {w} : user'[u] = user[u] /\ AccountsOf(u)' = AccountsOf(u)
      BY <3>4 DEF AccountsOf
    <3>. QED BY <2>c, <2>p, <2>q, <3>3, <3>4, <3>5, <3>6, RollbackMoves
  <2>11. CASE ReadConsent(r)
    <3>1. PICK new \in Request : new = [req[r] EXCEPT !.consent = "write", !.read = user[w].consent]
      BY <2>0, <2>d DEF Request, ConsentPart, Document
    <3>2. /\ Become(r, new) /\ new.user = w /\ new.pc = "parts" /\ new.op = req[r].op /\ new.given = req[r].given
          /\ new.account = req[r].account /\ new.consent = "write" /\ new.link = req[r].link /\ new.old = req[r].old
          /\ req[r].pc = "parts" /\ At(r, "parts") /\ req[r].consent = "read"
      BY <2>0, <2>c, <2>11, <3>1 DEF ReadConsent, At, Request
    <3>3. UNCHANGED <<user, accounts, kept, invited, overlapped, broken>>
      BY <2>11 DEF ReadConsent
    <3>4. ASSUME w \in Sound' PROVE Stage(new, r)
      <4>1. Stage(req[r], r)
        BY <2>s, <3>3, <3>4
      <4>2. req[r].op = "register" => RegisterPart(new, r)
        BY <2>c, <3>2, <4>1 DEF Stage, RegisterPart
      <4>3. req[r].op = "skip" => SkipPart(new)
        BY <2>c, <3>2, <4>1 DEF Stage, SkipPart
      <4>. QED BY <3>2, <4>1, <4>2, <4>3 DEF Stage, Unwritten, Inviting, Registering
    <3>. QED BY <2>c, <2>p, <2>q, <3>2, <3>3, <3>4, RollbackAdvances
  <2>12. CASE WriteConsent(r)
    <3>1. PICK new \in Request : new = [req[r] EXCEPT !.consent = "end"]
      BY <2>0 DEF Request, ConsentPart
    <3>2. /\ Become(r, new) /\ new.user = w /\ new.pc = "parts" /\ new.op = req[r].op /\ new.given = req[r].given
          /\ new.account = req[r].account /\ new.consent = "end" /\ new.link = req[r].link /\ new.old = req[r].old
          /\ req[r].pc = "parts" /\ At(r, "parts") /\ req[r].consent = "write"
      BY <2>0, <2>c, <2>12, <3>1 DEF WriteConsent, At, Request
    <3>3. /\ UNCHANGED <<accounts, kept, invited, overlapped, broken>>
          /\ user' = [user EXCEPT ![w].consent = req[r].read \cup req[r].given]
      BY <2>c, <2>12 DEF WriteConsent
    <3>4. user'[w].link = user[w].link /\ user'[w].consent = req[r].read \cup req[r].given
      BY <2>0, <2>d, <3>3 DEF Document
    <3>5. AccountsOf(w)' = AccountsOf(w)
      BY <3>3 DEF AccountsOf
    <3>6. ASSUME w \in Sound' PROVE Stage(new, r)'
      <4>1. Stage(req[r], r)
        BY <2>s, <3>3, <3>6
      <4>2. ASSUME req[r].op = "register" PROVE RegisterPart(new, r)'
        <5>1. /\ req[r].given # {} /\ Rests(w, AccountsOf(w) \ {<<w, r>>}, req[r].old)
              /\ req[r].account = "end" /\ AccountsOf(w) = {<<w, r>>} /\ ~user[w].link
          BY <2>c, <3>2, <4>1, <4>2 DEF Stage, RegisterPart
        <5>2. Rests(w, AccountsOf(w) \ {<<w, r>>}, new.old)'
          BY <3>2, <3>3, <3>5, <5>1, RestsKept
        <5>. QED BY <3>2, <3>4, <3>5, <5>1, <5>2 DEF RegisterPart
      <4>3. ASSUME req[r].op = "skip" PROVE SkipPart(new)'
        <5>1. SkipPart(req[r])
          BY <3>2, <4>1, <4>3 DEF Stage
        <5>. QED BY <2>c, <3>2, <3>3, <3>4, <3>5, <5>1 DEF SkipPart, Sole
      <4>. QED BY <3>2, <4>1, <4>2, <4>3 DEF Stage, Unwritten, Inviting, Registering
    <3>7. \A u \in Users \ {w} : user'[u] = user[u] /\ AccountsOf(u)' = AccountsOf(u)
      BY <2>0, <3>3 DEF AccountsOf
    <3>. QED BY <2>c, <2>p, <2>q, <3>2, <3>3, <3>6, <3>7, RollbackMoves
  <2>13. CASE PartsEnd(r)
    <3>1. /\ At(r, "parts") /\ req[r].pc = "parts" /\ End(r)
          /\ req[r].account = "end" /\ req[r].consent = "end" /\ req[r].link = "end"
          /\ UNCHANGED <<user, accounts, kept, invited, overlapped, broken>>
      BY <2>13 DEF PartsEnd, At
    <3>2. ASSUME w \in Sound' PROVE Rests(w, AccountsOf(w), user[w])
      <4>1. Stage(req[r], r)
        BY <2>s, <3>1, <3>2
      <4>2. req[r].op = "register" => Rests(w, AccountsOf(w), user[w])
        BY <2>c, <3>1, <4>1 DEF Stage, RegisterPart, Rests
      <4>3. req[r].op = "skip" => Rests(w, AccountsOf(w), user[w])
        BY <2>c, <3>1, <4>1 DEF Stage, SkipPart, Rests, Sole
      <4>. QED BY <3>1, <4>1, <4>2, <4>3 DEF Stage
    <3>. QED BY <2>c, <2>p, <3>1, <3>2, RollbackEnds
  <2>14. CASE RestoreUser(r)
    <3>1. PICK new \in Request : new = Undone(req[r], "user")
      BY <2>0, UndoneType
    <3>2. /\ Become(r, new) /\ new.user = w /\ req[r].pc = "rollback" /\ "user" \in req[r].undo
          /\ Busy(r) /\ req[r].pc \notin Asking
          /\ IF req[r].undo = {"user"} THEN new.pc = "ended"
             ELSE new.pc = "rollback" /\ new.undo = req[r].undo \ {"user"} /\ new.old = req[r].old
      BY <2>0, <2>c, <2>14, <3>1, EndedType DEF RestoreUser, Undone, At, Request, Busy, Running, Writing, Asking
    <3>3. /\ UNCHANGED <<accounts, kept, invited, overlapped, broken>> /\ user' = [user EXCEPT ![w] = req[r].old]
      BY <2>c, <2>14 DEF RestoreUser
    <3>4. user'[w] = req[r].old /\ AccountsOf(w)' = AccountsOf(w)
      BY <2>0, <3>3 DEF AccountsOf
    <3>5. ASSUME w \in Sound' PROVE IF new.pc = "ended" THEN Rests(w, AccountsOf(w), user[w])' ELSE Stage(new, r)'
      <4>1. RollsBack(req[r], r)
        BY <2>s, <3>2, <3>3, <3>5 DEF Stage
      <4>2. Rests(w, AccountsOf(w) \ {<<w, r>>}, req[r].old)
        BY <2>c, <4>1 DEF RollsBack
      <4>3. CASE req[r].undo = {"user"}
        <5>1. AccountsOf(w) \ {<<w, r>>} = AccountsOf(w)
          BY <2>c, <4>1, <4>3 DEF RollsBack
        <5>. QED BY <3>2, <3>3, <3>4, <4>2, <4>3, <5>1, RestsKept
      <4>4. CASE req[r].undo # {"user"}
        <5>1. Rests(w, AccountsOf(w) \ {<<w, r>>}, new.old)'
          BY <3>2, <3>3, <3>4, <4>2, <4>4, RestsKept
        <5>. QED BY <2>c, <3>2, <3>4, <4>1, <4>4, <5>1 DEF RollsBack, Stage, Unwritten, Inviting, Registering
      <4>. QED BY <4>3, <4>4
    <3>6. \A u \in Users \ {w} : user'[u] = user[u] /\ AccountsOf(u)' = AccountsOf(u)
      BY <2>0, <3>3 DEF AccountsOf
    <3>7. new.pc \in {"rollback", "ended"}
      BY <3>2
    <3>. QED BY <2>c, <2>q, <3>2, <3>3, <3>5, <3>6, <3>7, RollbackMoves
  <2>15. CASE RemoveAccount(r)
    <3>1. PICK new \in Request : new = Undone(req[r], "account")
      BY <2>0, UndoneType
    <3>2. /\ Become(r, new) /\ new.user = w /\ req[r].pc = "rollback" /\ "account" \in req[r].undo
          /\ Busy(r) /\ req[r].pc \notin Asking
          /\ IF req[r].undo = {"account"} THEN new.pc = "ended"
             ELSE new.pc = "rollback" /\ new.undo = req[r].undo \ {"account"} /\ new.old = req[r].old
      BY <2>0, <2>c, <2>15, <3>1, EndedType DEF RemoveAccount, Undone, At, Request, Busy, Running, Writing, Asking
    <3>3. /\ UNCHANGED <<user, kept, invited, overlapped, broken>> /\ accounts' = accounts \ {<<w, r>>}
      BY <2>c, <2>15 DEF RemoveAccount
    <3>4. /\ AccountsOf(w)' = AccountsOf(w) \ {<<w, r>>} /\ AccountsOf(w)' \ {<<w, r>>} = AccountsOf(w)'
          /\ <<w, r>> \notin AccountsOf(w)'
      BY <3>3 DEF AccountsOf
    <3>5. ASSUME w \in Sound' PROVE IF new.pc = "ended" THEN Rests(w, AccountsOf(w), user[w])' ELSE Stage(new, r)'
      <4>1. RollsBack(req[r], r)
        BY <2>s, <3>2, <3>3, <3>5 DEF Stage
      <4>2. Rests(w, AccountsOf(w) \ {<<w, r>>}, req[r].old)
        BY <2>c, <4>1 DEF RollsBack
      <4>3. CASE req[r].undo = {"account"}
        <5>1. user'[w] = req[r].old
          BY <2>c, <3>3, <4>1, <4>3 DEF RollsBack
        <5>. QED BY <3>2, <3>3, <3>4, <4>2, <4>3, <5>1, RestsKept
      <4>4. CASE req[r].undo # {"account"}
        <5>1. Rests(w, AccountsOf(w) \ {<<w, r>>}, new.old)'
          BY <3>2, <3>3, <3>4, <4>2, <4>4, RestsKept
        <5>. QED BY <2>c, <3>2, <3>3, <3>4, <4>1, <4>4, <5>1 DEF RollsBack, Stage, Unwritten, Inviting, Registering
      <4>. QED BY <4>3, <4>4
    <3>6. \A u \in Users \ {w} : user'[u] = user[u] /\ AccountsOf(u)' = AccountsOf(u)
      BY <3>3 DEF AccountsOf
    <3>7. new.pc \in {"rollback", "ended"}
      BY <3>2
    <3>. QED BY <2>c, <2>q, <3>2, <3>3, <3>5, <3>6, <3>7, RollbackMoves
  <2>16. CASE CommandFails(r)
    <3>1. UNCHANGED <<user, accounts, kept, invited, overlapped>>
      BY <2>16 DEF CommandFails
    <3>2. CASE /\ req[r].pc \in Asking \cup Inviting \cup {"lookup", "get"} /\ End(r)
               /\ (IF req[r].pc \in {"createPin"} THEN Breaks(r) ELSE UNCHANGED broken)
      <4>1. Busy(r) /\ broken \subseteq broken'
        BY <3>2 DEF Busy, Running, Writing, Registering, Breaks
      <4>2. w \in Sound' /\ req[r].pc \notin Asking => Rests(w, AccountsOf(w), user[w])
        BY <2>c, <2>s, <3>1, <3>2, <4>1 DEF Stage, Unwritten, Inviting, Registering
      <4>. QED BY <2>c, <3>1, <3>2, <4>1, <4>2, RollbackEnds
    <3>3. CASE req[r].pc \in Registering \ {"lookup"} /\ Become(r, Failed(req[r], r)) /\ UNCHANGED broken
      BY <3>1, <3>3, RollbackFails DEF Registering
    <3>4. CASE req[r].pc = "parts" /\ \E part \in {"account", "consent", "link"} : PartFails(r, part)
      BY <3>1, <3>4, RollbackPartEnds DEF At
    <3>5. CASE req[r].pc = "rollback" /\ Breaks(r) /\ \E what \in req[r].undo : Become(r, Undone(req[r], what))
      <4>1. PICK what \in req[r].undo : Become(r, Undone(req[r], what))
        BY <3>5
      <4>2. PICK new \in Request : new = Undone(req[r], what)
        BY <2>0, UndoneType
      <4>3. /\ new.user = w /\ new.pc \in {"rollback", "ended"} /\ Busy(r) /\ req[r].pc \notin Asking
            /\ broken' = broken \cup {w}
        BY <2>0, <2>c, <3>5, <4>2, EndedType DEF Undone, Request, Breaks, Busy, Running, Writing, Asking
      <4>4. w \notin Sound'
        BY <4>3 DEF Sound
      <4>5. \A u \in Users \ {w} : user'[u] = user[u] /\ AccountsOf(u)' = AccountsOf(u)
        BY <3>1 DEF AccountsOf
      <4>. QED BY <2>c, <2>q, <3>1, <4>1, <4>2, <4>3, <4>4, <4>5, RollbackMoves
    <3>. QED BY <2>16, <3>2, <3>3, <3>4, <3>5 DEF CommandFails
  <2>17. CASE Crash(r)
    <3>1. /\ UNCHANGED <<user, accounts, kept, invited, overlapped>> /\ Busy(r) /\ End(r)
          /\ broken' = broken \cup {req[r].user}
      BY <2>17 DEF Crash, Breaks
    <3>. QED BY <3>1, RollbackEnds DEF Sound
  <2>. QED
    BY <1>1, <2>1, <2>2, <2>3, <2>4, <2>5, <2>6, <2>7, <2>8, <2>9, <2>10, <2>11, <2>12, <2>13, <2>14, <2>15,
       <2>16, <2>17 DEF Step
<1>2. ASSUME NEW p \in pins, Age(p) PROVE RollbackInv'
  BY <1>2, RollbackRests DEF Age
<1>3. CASE Finished
  BY <1>3, RollbackRests DEF Finished, vars
<1>. QED BY <1>1, <1>2, <1>3 DEF Next

(* Whatever command of a registration fails, its user is registered or as  *)
(* before, for any number of users, requests and faults.                   *)
THEOREM RollbackTheorem == Spec => []RegisteredOrUntouched
<1>1. RollbackInv => RegisteredOrUntouched
  <2> SUFFICES ASSUME RollbackInv, NEW u \in Users, Settled(u), u \notin overlapped \cup broken
               PROVE  Registered(u) \/ Untouched(u)
    BY DEF RegisteredOrUntouched
  <2>1. Rival(u) = {}
    BY DEF Settled, Rival
  <2>2. Rests(u, AccountsOf(u), user[u])
    BY <2>1 DEF RollbackInv, Sound
  <2>3. \A a : Cardinality({a}) = 1
    BY FS_Singleton
  <2>. QED BY <2>2, <2>3 DEF Rests, Registered, Untouched
<1>2. SuccessInv /\ [Next]_vars => SuccessInv'
  <2>1. SuccessInv /\ UNCHANGED vars => SuccessInv'
    BY DEF vars, histories, SuccessInv, TypeOK, OneRival, Rival, Busy, Unrivalled, Lasting, AccountsOf,
           Shaped, OnItsWay, Harmless
  <2>. QED BY <2>1, SuccessStep
<1>3. RollbackInv /\ SuccessInv' /\ UNCHANGED vars => RollbackInv'
  BY RollbackRests DEF vars, histories
<1>4. RollbackInv => SuccessInv
  BY DEF RollbackInv
<1>. QED BY RollbackInit, RollbackStep, <1>1, <1>2, <1>3, <1>4, PTL DEF Spec
=============================================================================
