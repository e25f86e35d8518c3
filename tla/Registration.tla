---------------------------- MODULE Registration ----------------------------
(***************************************************************************)
(* Registration of imported users (src/services/user): a teacher makes a   *)
(* link with the importHash of a user, the user asks for a pin by mail and *)
(* registers with both, or somebody with permission skips all that.  User, *)
(* account and consent are written one after the other; a registration     *)
(* that fails rolls back what it has written.                              *)
(*                                                                         *)
(* An action is the code between two awaits with the command it waits for. *)
(* The form names the imported email address, which no other user or       *)
(* account has; pins are random and taken to differ.                       *)
(***************************************************************************)
EXTENDS Naturals, FiniteSets

CONSTANTS
    Requests,           \* calls of the services
    Users,              \* imported users, of schools without a directory
    Faults,             \* what may go wrong, of the kinds below
    MaxFaults           \* bound: how often something of it happens

Kinds == {"fail",       \* a command throws, without its effect
          "crash",      \* the process of a request dies
          "time"}       \* minutes or hours pass

ASSUME RegistrationAssumption == Faults \subseteq Kinds /\ MaxFaults \in Nat

VARIABLES
    user,               \* [link, consent]: is there an importHash, and whose
                        \* consents are given
    accounts,           \* pairs of a user and the request that made the account
    pins,               \* documents of registrationPins
    mails,              \* how many pins a user was sent: their codes are 1, 2, ...
    req,                \* the requests
    invited,            \* history: users who had a link
    kept,               \* history: users whose registration was skipped without
                        \* their parents, which keeps the link
    succeeded,          \* history: users whose registration was answered with success
    overlapped,         \* history: users with two requests at once
    broken,             \* history: users of a request that stopped halfway
    faults

histories == <<invited, kept, succeeded, overlapped, broken>>
vars == <<user, accounts, pins, mails, req, histories, faults>>

Persons == {"user", "parent"}
Document == [link : BOOLEAN, consent : SUBSET Persons]
Pin == [user : Users, code : Nat, verified : BOOLEAN, age : {"recent", "valid", "expired"}]

(* Where a request is suspended; "parts": in its calls of other services.  *)
Asking == {"askLink", "askWindow", "removeOldPins", "createPin"}
Inviting == {"findUser", "findAccount", "hash"}
Registering == {"lookup", "pin", "verify", "update"}
Writing == Registering \cup {"get", "parts", "rollback"}
Running == Asking \cup Inviting \cup Writing
AccountPart == {"find", "existence", "unique", "insert", "end"}
ConsentPart == {"wait", "read", "write", "end"}

Request ==
    [pc : {"idle", "ended"} \cup Running,
     op : {"none", "ask", "invite", "register", "skip"},
     user : Users, code : Nat, given : SUBSET Persons,
     old : Document, read : SUBSET Persons,
     account : AccountPart, consent : ConsentPart, link : {"patch", "end"},
     undo : SUBSET {"user", "account"}]

Fresh(u) ==
    [pc |-> "idle", op |-> "none", user |-> u, code |-> 0, given |-> {},
     old |-> [link |-> FALSE, consent |-> {}], read |-> {},
     account |-> "end", consent |-> "end", link |-> "end", undo |-> {}]

At(r, pc) == req[r].pc = pc
Busy(r) == req[r].pc \in Running
AccountsOf(u) == {a \in accounts : a[1] = u}
PinsOf(u) == {p \in pins : p.user = u}

Become(r, new) == req' = [req EXCEPT ![r] = new]
Goto(r, pc) == Become(r, [req[r] EXCEPT !.pc = pc])
(* What a request holds is gone when it ends.                              *)
Ended(u) == [Fresh(u) EXCEPT !.pc = "ended"]
End(r) == Become(r, Ended(req[r].user))

(* Changes what the users are made of: all requests but those for pins.    *)
Rival(u) == {q \in Requests : Busy(q) /\ req[q].user = u /\ req[q].pc \notin Asking}

Start(r, new) ==
    /\ At(r, "idle")
    /\ Become(r, new)
    /\ overlapped' = IF new.pc \in Asking \/ Rival(new.user) = {} THEN overlapped
                     ELSE overlapped \cup {new.user}
    /\ UNCHANGED <<user, accounts, pins, mails, invited, kept, succeeded, broken, faults>>

Init ==
    /\ user \in [Users -> {[link |-> l, consent |-> {}] : l \in BOOLEAN}]
    /\ accounts = {} /\ pins = {}
    /\ mails = [u \in Users |-> 0]
    /\ \E of \in [Requests -> Users] : req = [r \in Requests |-> Fresh(of[r])]
    /\ invited = {u \in Users : user[u].link}
    /\ kept = {} /\ succeeded = {} /\ overlapped = {} /\ broken = {} /\ faults = 0
-----------------------------------------------------------------------------
(* registrationPins.create with a link.                                    *)
AskPin(r) == Start(r, [req[r] EXCEPT !.pc = "askLink", !.op = "ask"])

FindLinked(r) ==
    /\ At(r, "askLink")
    /\ IF user[req[r].user].link THEN Goto(r, "askWindow") ELSE End(r)
    /\ UNCHANGED <<user, accounts, pins, mails, histories, faults>>

(* checkTimeWindow: one pin in five minutes; two at once are ambiguous.    *)
CheckTimeWindow(r) ==
    LET of == PinsOf(req[r].user)
    IN  /\ At(r, "askWindow")
        /\ IF Cardinality(of) <= 1 /\ \A p \in of : p.age # "recent"
           THEN Goto(r, "removeOldPins") ELSE End(r)
        /\ UNCHANGED <<user, accounts, pins, mails, histories, faults>>

RemoveOldPins(r) ==
    /\ At(r, "removeOldPins")
    /\ pins' = pins \ PinsOf(req[r].user)
    /\ Goto(r, "createPin")
    /\ UNCHANGED <<user, accounts, mails, histories, faults>>

(* Mutant of NewPin: verified has no default.                              *)
PinWithoutDefault(u) == [user |-> u, code |-> mails[u] + 1, age |-> "recent"]

NewPin(u) == [user |-> u, code |-> mails[u] + 1, verified |-> FALSE, age |-> "recent"]
Mailed(u) == mails' = [mails EXCEPT ![u] = @ + 1]

(* Mutant of CreatePin: old pins are removed by an after hook.             *)
CreatePinThenRemove(r) ==
    /\ At(r, "createPin")
    /\ pins' = pins \ PinsOf(req[r].user)
    /\ Mailed(req[r].user)
    /\ End(r)
    /\ UNCHANGED <<user, accounts, histories, faults>>

(* The pin is stored and sent; nobody waits for the mail.                  *)
CreatePin(r) ==
    /\ At(r, "createPin")
    /\ pins' = pins \cup {NewPin(req[r].user)}
    /\ Mailed(req[r].user)
    /\ End(r)
    /\ UNCHANGED <<user, accounts, histories, faults>>
-----------------------------------------------------------------------------
(* registrationlink.create for a user: a link that exists is used again.   *)
Invite(r) == Start(r, [req[r] EXCEPT !.pc = "findUser", !.op = "invite"])

FindUser(r) ==
    /\ At(r, "findUser")
    /\ IF user[req[r].user].link THEN End(r) ELSE Goto(r, "findAccount")
    /\ UNCHANGED <<user, accounts, pins, mails, histories, faults>>

FindAccountOfUser(r) ==
    /\ At(r, "findAccount")
    /\ IF AccountsOf(req[r].user) # {} THEN End(r) ELSE Goto(r, "hash")
    /\ UNCHANGED <<user, accounts, pins, mails, histories, faults>>

(* hash.create, which waits for bcrypt before it writes.                   *)
CreateHash(r) ==
    /\ At(r, "hash")
    /\ user' = [user EXCEPT ![req[r].user].link = TRUE]
    /\ invited' = invited \cup {req[r].user}
    /\ End(r)
    /\ UNCHANGED <<accounts, pins, mails, kept, succeeded, overlapped, broken, faults>>
-----------------------------------------------------------------------------
(* registerUser, with a pin that was mailed or a wrong one; the age decides *)
(* who gives the consent.                                                  *)
Register(r) ==
    \E code \in 0..mails[req[r].user], who \in Persons :
        Start(r, [req[r] EXCEPT !.pc = "lookup", !.op = "register", !.code = code, !.given = {who}])

(* populateUser: the user with this importHash.                            *)
Lookup(r) ==
    LET u == req[r].user
    IN  /\ At(r, "lookup")
        /\ IF user[u].link THEN Become(r, [req[r] EXCEPT !.pc = "pin", !.old = user[u]]) ELSE End(r)
        /\ UNCHANGED <<user, accounts, pins, mails, histories, faults>>

(* Mutant of Failed: the account of this registration stays.               *)
FailedKeepingAccount(q, r) ==
    [q EXCEPT !.pc = "rollback", !.account = "end", !.consent = "end", !.undo = {"user"}]

(* The catch block of registerUser, once populateUser has set the user.    *)
Failed(q, r) ==
    [q EXCEPT !.pc = "rollback", !.account = "end", !.consent = "end",
              !.undo = {"user"} \cup (IF <<q.user, r>> \in accounts THEN {"account"} ELSE {})]

(* registrationPins.find with checkAndVerifyPin.                           *)
FindPin(r) ==
    LET q == req[r]
        found == {p \in PinsOf(q.user) : p.code = q.code}
    IN  /\ At(r, "pin")
        /\ Become(r, IF found = {} \/ \E p \in found : p.age = "expired" THEN Failed(q, r)
                     ELSE [q EXCEPT !.pc = IF \E p \in found : p.verified THEN "update" ELSE "verify"])
        /\ UNCHANGED <<user, accounts, pins, mails, histories, faults>>

(* The patch renews updatedAt; a pin that has gone is an error.            *)
VerifyPin(r) ==
    LET q == req[r]
        found == {p \in PinsOf(q.user) : p.code = q.code}
    IN  /\ At(r, "verify")
        /\ pins' = (pins \ found) \cup {[p EXCEPT !.verified = TRUE, !.age = "recent"] : p \in found}
        /\ Become(r, IF found = {} THEN Failed(q, r) ELSE [q EXCEPT !.pc = "update"])
        /\ UNCHANGED <<user, accounts, mails, histories, faults>>

(* Mutant of UpdateUser: the importHash is not deleted.                    *)
UpdateKeepingLink(r) ==
    /\ At(r, "update")
    /\ user' = [user EXCEPT ![req[r].user] = req[r].old]
    /\ Become(r, [req[r] EXCEPT !.pc = "parts", !.account = "existence", !.consent = "wait"])
    /\ UNCHANGED <<accounts, pins, mails, histories, faults>>

(* insertUserToDB: the document is replaced by the one read, without link. *)
UpdateUser(r) ==
    /\ At(r, "update")
    /\ user' = [user EXCEPT ![req[r].user] = [req[r].old EXCEPT !.link = FALSE]]
    /\ Become(r, [req[r] EXCEPT !.pc = "parts", !.account = "existence", !.consent = "wait"])
    /\ UNCHANGED <<accounts, pins, mails, histories, faults>>
-----------------------------------------------------------------------------
(* skipUserRegistration: the account, the consents and the user at once,   *)
(* with the consent of the parents or without; nothing tells them alone    *)
(* from them and the user.                                                 *)
Skip(r) ==
    \E who \in {{"user"}, Persons} :
        Start(r, [req[r] EXCEPT !.pc = "get", !.op = "skip", !.given = who])

ValidateRequest(r) ==
    /\ At(r, "get")
    /\ IF user[req[r].user].link
       THEN Become(r, [req[r] EXCEPT !.pc = "parts", !.account = "find", !.consent = "read", !.link = "patch"])
       ELSE End(r)
    /\ UNCHANGED <<user, accounts, pins, mails, histories, faults>>

(* The user of SkipRegistration's updateUser, which is not awaited.        *)
PatchLink(r) ==
    LET q == req[r]
        parents == "parent" \in q.given
    IN  /\ At(r, "parts") /\ q.link = "patch"
        /\ user' = [user EXCEPT ![q.user].link = @ /\ ~parents]
        /\ kept' = IF parents THEN kept ELSE kept \cup {q.user}
        /\ Become(r, [q EXCEPT !.link = "end"])
        /\ UNCHANGED <<accounts, pins, mails, invited, succeeded, overlapped, broken, faults>>
-----------------------------------------------------------------------------
(* A part that throws: a registration rolls back, a skipped one goes on    *)
(* with the other parts.                                                   *)
PartFails(r, part) ==
    IF req[r].op = "register"
    THEN Become(r, Failed(req[r], r)) /\ UNCHANGED broken
    ELSE Become(r, [req[r] EXCEPT ![part] = "end"]) /\ broken' = broken \cup {req[r].user}

(* createAccount of SkipRegistration leaves an account as it is.           *)
FindAccount(r) ==
    LET q == req[r]
    IN  /\ At(r, "parts") /\ q.account = "find"
        /\ Become(r, [q EXCEPT !.account = IF AccountsOf(q.user) = {} THEN "existence" ELSE "end"])
        /\ UNCHANGED <<user, accounts, pins, mails, histories, faults>>

(* checkExistence, by the user, and checkUnique, by the name.              *)
CheckAccount(r) ==
    LET q == req[r]
    IN  /\ At(r, "parts") /\ q.account \in {"existence", "unique"}
        /\ IF AccountsOf(q.user) # {} THEN PartFails(r, "account")
           ELSE /\ Become(r, [q EXCEPT !.account = IF @ = "existence" THEN "unique" ELSE "insert"])
                /\ UNCHANGED broken
        /\ UNCHANGED <<user, accounts, pins, mails, invited, kept, succeeded, overlapped, faults>>

InsertAccount(r) ==
    LET q == req[r]
    IN  /\ At(r, "parts") /\ q.account = "insert"
        /\ accounts' = accounts \cup {<<q.user, r>>}
        /\ Become(r, [q EXCEPT !.account = "end", !.consent = IF @ = "wait" THEN "read" ELSE @])
        /\ UNCHANGED <<user, pins, mails, histories, faults>>

(* consents.create keeps the consents it has read.                         *)
ReadConsent(r) ==
    LET q == req[r]
    IN  /\ At(r, "parts") /\ q.consent = "read"
        /\ Become(r, [q EXCEPT !.consent = "write", !.read = user[q.user].consent])
        /\ UNCHANGED <<user, accounts, pins, mails, histories, faults>>

(* After the consents a registration is answered with success.             *)
WriteConsent(r) ==
    LET q == req[r]
    IN  /\ At(r, "parts") /\ q.consent = "write"
        /\ user' = [user EXCEPT ![q.user].consent = q.read \cup q.given]
        /\ Become(r, [q EXCEPT !.consent = "end"])
        /\ succeeded' = IF q.op = "register" THEN succeeded \cup {q.user} ELSE succeeded
        /\ UNCHANGED <<accounts, pins, mails, invited, kept, overlapped, broken, faults>>

PartsEnd(r) ==
    /\ At(r, "parts")
    /\ req[r].account = "end" /\ req[r].consent = "end" /\ req[r].link = "end"
    /\ End(r)
    /\ UNCHANGED <<user, accounts, pins, mails, histories, faults>>
-----------------------------------------------------------------------------
(* The removals of the rollback are issued together.                       *)
Undone(q, what) == IF q.undo = {what} THEN Ended(q.user) ELSE [q EXCEPT !.undo = @ \ {what}]

RestoreUser(r) ==
    LET q == req[r]
    IN  /\ At(r, "rollback") /\ "user" \in q.undo
        /\ user' = [user EXCEPT ![q.user] = q.old]
        /\ Become(r, Undone(q, "user"))
        /\ UNCHANGED <<accounts, pins, mails, histories, faults>>

RemoveAccount(r) ==
    LET q == req[r]
    IN  /\ At(r, "rollback") /\ "account" \in q.undo
        /\ accounts' = accounts \ {<<q.user, r>>}
        /\ Become(r, Undone(q, "account"))
        /\ UNCHANGED <<user, pins, mails, histories, faults>>
-----------------------------------------------------------------------------
Fault(kind) == kind \in Faults /\ faults < MaxFaults /\ faults' = faults + 1
Breaks(r) == broken' = broken \cup {req[r].user}

CommandFails(r) ==
    LET q == req[r]
    IN  /\ Fault("fail")
        /\ \/ q.pc \in Asking \cup Inviting \cup {"lookup", "get"}
              /\ End(r) /\ (IF q.pc \in {"createPin"} THEN Breaks(r) ELSE UNCHANGED broken)
           \/ q.pc \in Registering \ {"lookup"} /\ Become(r, Failed(q, r)) /\ UNCHANGED broken
           \/ q.pc = "parts" /\ \/ q.account # "end" /\ PartFails(r, "account")
                                \/ q.consent \in {"read", "write"} /\ PartFails(r, "consent")
                                \/ q.link = "patch" /\ PartFails(r, "link")
           \/ q.pc = "rollback" /\ Breaks(r) /\ \E what \in q.undo : Become(r, Undone(q, what))
        /\ UNCHANGED <<user, accounts, pins, mails, invited, kept, succeeded, overlapped>>

Crash(r) ==
    /\ Busy(r) /\ Fault("crash") /\ End(r) /\ Breaks(r)
    /\ UNCHANGED <<user, accounts, pins, mails, invited, kept, succeeded, overlapped>>

(* Five minutes pass for a pin, or its time of validity.                   *)
Age(p) ==
    /\ p.age # "expired" /\ Fault("time")
    /\ pins' = (pins \ {p}) \cup {[p EXCEPT !.age = IF @ = "recent" THEN "valid" ELSE "expired"]}
    /\ UNCHANGED <<user, accounts, mails, req, histories>>

Finished == (\A r \in Requests : At(r, "ended")) /\ UNCHANGED vars

Step(r) ==
    \/ AskPin(r) \/ FindLinked(r) \/ CheckTimeWindow(r) \/ RemoveOldPins(r) \/ CreatePin(r)
    \/ Invite(r) \/ FindUser(r) \/ FindAccountOfUser(r) \/ CreateHash(r)
    \/ Register(r) \/ Lookup(r) \/ FindPin(r) \/ VerifyPin(r) \/ UpdateUser(r)
    \/ Skip(r) \/ ValidateRequest(r) \/ PatchLink(r)
    \/ FindAccount(r) \/ CheckAccount(r) \/ InsertAccount(r) \/ ReadConsent(r) \/ WriteConsent(r)
    \/ PartsEnd(r) \/ RestoreUser(r) \/ RemoveAccount(r) \/ CommandFails(r) \/ Crash(r)

Next ==
    \/ \E r \in Requests : Step(r)
    \/ \E p \in pins : Age(p)
    \/ Finished

Spec == Init /\ [][Next]_vars
-----------------------------------------------------------------------------
TypeOK ==
    /\ user \in [Users -> Document]
    /\ accounts \subseteq Users \X Requests
    /\ pins \subseteq Pin /\ mails \in [Users -> Nat]
    /\ req \in [Requests -> Request]
    /\ \A h \in {invited, kept, succeeded, overlapped, broken} : h \subseteq Users
    /\ faults \in Nat

Settled(u) == ~ \E r \in Requests : Busy(r) /\ req[r].user = u

Registered(u) == Cardinality(AccountsOf(u)) = 1 /\ user[u].consent # {} /\ (user[u].link => u \in kept)
Untouched(u) == AccountsOf(u) = {} /\ user[u] = [link |-> u \in invited, consent |-> {}]

(* Whatever command of a registration fails, and however often it is tried *)
(* again, a user is registered - one account, a consent, no link - or as   *)
(* before, with the link.  Left out are requests for one user at once, a   *)
(* process that dies, a rollback that fails itself, and skipping, which    *)
(* does not roll back.                                                     *)
RegisteredOrUntouched ==
    \A u \in Users : Settled(u) /\ u \notin overlapped \cup broken => Registered(u) \/ Untouched(u)

(* A registration that was answered with success is not undone: no later   *)
(* request for the user finds the link, also if it fails or dies.          *)
SuccessStays ==
    \A u \in succeeded \ overlapped : AccountsOf(u) # {} /\ user[u].consent # {} /\ ~user[u].link

(* The pin that was mailed last is there to be used: requests for pins     *)
(* that overlap remove each other's pins before they store their own.      *)
LastPinStored ==
    \A u \in Users : Settled(u) /\ u \notin broken /\ mails[u] > 0 =>
        \E p \in PinsOf(u) : p.code = mails[u]
=============================================================================
