-------------------------- MODULE ActivationProofs --------------------------
(* Proofs about Activation for any requests, users and addresses: a user   *)
(* has no address but the first one and those confirmed by their mailbox;  *)
(* addresses are unique, user and account agree, and open jobs were mailed *)
(* under the conditions that the properties state.                         *)
EXTENDS Activation, TLAPS

(* The address of a code never changes: entries, links and the copies that *)
(* are mailed have the address for which their code was made.              *)
MadeFor(l, m) == l.code \in 1..Len(m[l.user]) /\ l.email = m[l.user][l.code]
LinkMade(l) == MadeFor(l, made)

MadeInv ==
    /\ \A e \in entries : LinkMade(e)
    /\ \A l \in mailbox : LinkMade(l)
    /\ \A p \in presented : LinkMade(p[2])
    /\ \A r \in Requests : pc[r] = "mail" => LinkMade(copy[r])

(* A redemption has in hand what its user has presented.                   *)
HeldInv ==
    \A r \in Requests :
        /\ pc[r] = "entry" =>
              \E p \in presented : p[1] = user[r] /\ SameCode(p[2], copy[r])
        /\ pc[r] \in Trying =>
              \E p \in presented :
                  p[1] = user[r] /\ p[2].user = user[r] /\ p[2].email = copy[r].email

IInv ==
    /\ TypeOK
    /\ MadeInv
    /\ HeldInv
    /\ ConfirmedAddress

-----------------------------------------------------------------------------
LEMMA AfterErrorType ==
    ASSUME NEW label
    PROVE  AfterError(label) \in {"error", "unmail", "insert", "done", "rejected"}
BY DEF AfterError

LEMMA NewEntryType ==
    ASSUME NEW u \in Users, NEW n \in Nat, NEW a \in Emails
    PROVE  NewEntry(u, n, a) \in Entry
BY DEF NewEntry, Entry, States

LEMMA LinkOfType ==
    ASSUME NEW e \in Entry
    PROVE  LinkOf(e) \in Link
BY DEF LinkOf, Entry, Link

LEMMA LabelsType ==
    /\ Running \subseteq {"idle"} \cup Running \cup Ended
    /\ {"error", "unmail", "insert", "done", "rejected"} \subseteq Running \cup Ended
BY DEF Running, Creating, Removing, Redeeming, Trying, Ended

LEMMA DisturbType ==
    ASSUME TypeOK, NEW kind, Disturb(kind)
    PROVE  disturbances' \in [Kinds -> Nat]
BY ActivationAssumption DEF TypeOK, Disturb, Kinds

(* What keeps the addresses of the codes when no code is made or mailed.   *)
LEMMA KeepMade ==
    ASSUME MadeInv, made' = made, mailbox' = mailbox, presented' = presented,
           \A e \in entries' : \E f \in entries : SameCode(e, f) /\ e.email = f.email,
           \A q \in Requests : pc'[q] = "mail" =>
               \/ pc[q] = "mail" /\ copy'[q] = copy[q]
               \/ copy'[q] \in entries
    PROVE  MadeInv'
BY DEF MadeInv, LinkMade, MadeFor, SameCode

(* What keeps the hold of redemptions that are under way.                  *)
LEMMA KeepHeld ==
    ASSUME HeldInv, presented' = presented, user' = user,
           \A q \in Requests : pc'[q] = "entry" => pc[q] = "entry" /\ copy'[q] = copy[q],
           \A q \in Requests : pc'[q] \in Trying => pc[q] \in Trying /\ copy'[q] = copy[q]
    PROVE  HeldInv'
BY DEF HeldInv, SameCode

LEMMA KeepConfirmed ==
    ASSUME ConfirmedAddress, email' = email, name' = name, presented \subseteq presented'
    PROVE  ConfirmedAddress'
BY DEF ConfirmedAddress, Confirmed
-----------------------------------------------------------------------------
LEMMA InitIInv == Init => IInv
<1> SUFFICES ASSUME Init
             PROVE  IInv
  OBVIOUS
<1> PICK jobs \in SUBSET [user : Users, code : {1}, email : Emails] :
          /\ \A l \in jobs : \A u \in Users : l.email # InitEmail[u]
          /\ \A k, l \in jobs : k.user = l.user => k = l
          /\ mailbox = jobs
          /\ entries = {[NewEntry(l.user, 1, l.email) EXCEPT !.mailed = TRUE] : l \in jobs}
          /\ made = [u \in Users |-> IF \E l \in jobs : l.user = u
                        THEN <<(CHOOSE l \in jobs : l.user = u).email>> ELSE <<>>]
  BY DEF Init
<1>1. ASSUME NEW l \in jobs
      PROVE  /\ l.user \in Users /\ l.code = 1 /\ l.email \in Emails
             /\ made[l.user] = <<l.email>>
  <2>1. l.user \in Users /\ l.code = 1 /\ l.email \in Emails
    OBVIOUS
  <2>2. (CHOOSE k \in jobs : k.user = l.user) = l
    OBVIOUS
  <2> QED
    BY <2>1, <2>2
<1>2. ASSUME NEW e \in entries
      PROVE  /\ e \in Entry
             /\ \E l \in jobs : e.user = l.user /\ e.code = 1 /\ e.email = l.email
  <2>1. PICK l \in jobs : e = [NewEntry(l.user, 1, l.email) EXCEPT !.mailed = TRUE]
    OBVIOUS
  <2>2. e = [user |-> l.user, code |-> 1, email |-> l.email, state |-> "uninitiated",
             mailed |-> TRUE, expired |-> FALSE]
    BY <2>1 DEF NewEntry
  <2> QED
    BY <2>2, <1>1 DEF Entry, States
<1>3. TypeOK
  <2>1. made \in [Users -> Seq(Emails)]
    BY <1>1
  <2>2. mailbox \subseteq Link
    BY <1>1 DEF Link
  <2>3. copy \in [Requests -> Entry] /\ new \in [Requests -> Emails]
    BY NewEntryType, ActivationAssumption DEF Init
  <2>4. disturbances \in [Kinds -> Nat]
    BY DEF Init
  <2> QED
    BY <1>2, <2>1, <2>2, <2>3, <2>4, ActivationAssumption DEF Init, TypeOK
<1>4. MadeInv
  <2>1. \A l \in jobs : Len(made[l.user]) = 1 /\ made[l.user][1] = l.email
    BY <1>1
  <2>2. ASSUME NEW l \in jobs PROVE LinkMade(l)
    <3>1. l.code = 1 /\ Len(made[l.user]) = 1
      BY <1>1, <2>1
    <3>2. l.email = made[l.user][l.code]
      BY <2>1, <3>1
    <3>. QED BY <3>1, <3>2 DEF LinkMade, MadeFor
  <2>3. \A e \in entries : LinkMade(e)
    BY <1>1, <1>2, <2>1 DEF LinkMade, MadeFor
  <2>4. \A r \in Requests : pc[r] = "idle"
    BY DEF Init
  <2>5. presented = {} /\ mailbox = jobs
    BY DEF Init
  <2> QED
    BY <2>2, <2>3, <2>4, <2>5 DEF MadeInv
<1>5. HeldInv
  BY DEF Init, HeldInv, Trying
<1>6. ConfirmedAddress
  BY DEF Init, ConfirmedAddress, Confirmed
<1> QED
  BY <1>3, <1>4, <1>5, <1>6 DEF IInv
-----------------------------------------------------------------------------
(* The steps, in the order of Next.                                        *)
LEMMA CreateIInv ==
    ASSUME IInv, NEW r \in Requests, Create(r)
    PROVE  IInv'
<1> USE DEF IInv, Create, Goto, histories
<1>1. TypeOK'
  BY DEF TypeOK, Running, Creating
<1>2. MadeInv'
  BY KeepMade DEF TypeOK, SameCode
<1>3. HeldInv'
  <2>1. \A q \in Requests : pc'[q] = "entry" => pc[q] = "entry" /\ copy'[q] = copy[q]
    BY DEF TypeOK
  <2>2. \A q \in Requests : pc'[q] \in Trying => pc[q] \in Trying /\ copy'[q] = copy[q]
    BY DEF TypeOK, Trying
  <2> QED
    BY <2>1, <2>2, KeepHeld
<1>4. ConfirmedAddress'
  BY KeepConfirmed
<1> QED
  BY <1>1, <1>2, <1>3, <1>4

LEMMA CheckUniqueAccountIInv ==
    ASSUME IInv, NEW r \in Requests, CheckUniqueAccount(r)
    PROVE  IInv'
<1> USE DEF IInv, CheckUniqueAccount, Goto, histories
<1>1. TypeOK'
  BY DEF TypeOK, Running, Creating, Ended
<1>2. MadeInv'
  BY KeepMade DEF TypeOK, SameCode
<1>3. HeldInv'
  <2>1. \A q \in Requests : pc'[q] = "entry" => pc[q] = "entry" /\ copy'[q] = copy[q]
    BY DEF TypeOK
  <2>2. \A q \in Requests : pc'[q] \in Trying => pc[q] \in Trying /\ copy'[q] = copy[q]
    BY DEF TypeOK, Trying
  <2> QED
    BY <2>1, <2>2, KeepHeld
<1>4. ConfirmedAddress'
  BY KeepConfirmed
<1> QED
  BY <1>1, <1>2, <1>3, <1>4

LEMMA CreateEntryIInv ==
    ASSUME IInv, NEW r \in Requests, CreateEntry(r)
    PROVE  IInv'
<1> USE DEF IInv, CreateEntry, Goto, Take, EntryOf, histories
<1>1. TypeOK'
  BY DEF TypeOK, Running, Creating
<1>2. MadeInv'
  BY KeepMade DEF TypeOK, SameCode
<1>3. HeldInv'
  <2>1. \A q \in Requests : pc'[q] = "entry" => pc[q] = "entry" /\ copy'[q] = copy[q]
    BY DEF TypeOK
  <2>2. \A q \in Requests : pc'[q] \in Trying => pc[q] \in Trying /\ copy'[q] = copy[q]
    BY DEF TypeOK, Trying
  <2> QED
    BY <2>1, <2>2, KeepHeld
<1>4. ConfirmedAddress'
  BY KeepConfirmed
<1> QED
  BY <1>1, <1>2, <1>3, <1>4

LEMMA DeleteEntryIInv ==
    ASSUME IInv, NEW r \in Requests, DeleteEntry(r)
    PROVE  IInv'
<1> USE DEF IInv, DeleteEntry, Goto, histories
<1>1. TypeOK'
  BY DEF TypeOK, Running, Creating, Ended
<1>2. MadeInv'
  BY KeepMade DEF TypeOK, SameCode
<1>3. HeldInv'
  <2>1. \A q \in Requests : pc'[q] = "entry" => pc[q] = "entry" /\ copy'[q] = copy[q]
    BY DEF TypeOK
  <2>2. \A q \in Requests : pc'[q] \in Trying => pc[q] \in Trying /\ copy'[q] = copy[q]
    BY DEF TypeOK, Trying
  <2> QED
    BY <2>1, <2>2, KeepHeld
<1>4. ConfirmedAddress'
  BY KeepConfirmed
<1> QED
  BY <1>1, <1>2, <1>3, <1>4

LEMMA CreateNewEntryIInv ==
    ASSUME IInv, NEW r \in Requests, CreateNewEntry(r)
    PROVE  IInv'
<1> USE DEF IInv, CreateNewEntry, Goto, Take, EntryOf, histories
<1> DEFINE n == Len(made[user[r]]) + 1
           e == NewEntry(user[r], n, new[r])
<1>0. /\ made[user[r]] \in Seq(Emails) /\ n \in Nat \ {0}
      /\ user[r] \in Users /\ new[r] \in Emails /\ e \in Entry
      /\ e.user = user[r] /\ e.code = n /\ e.email = new[r]
  BY NewEntryType DEF TypeOK, NewEntry
<1>1. TypeOK'
  <2>1. pc' \in [Requests -> {"idle"} \cup Running \cup Ended]
    BY DEF TypeOK, Running, Creating, Ended
  <2>2. Append(made[user[r]], new[r]) \in Seq(Emails)
    BY <1>0
  <2>3. made' \in [Users -> Seq(Emails)]
    BY <2>2 DEF TypeOK
  <2>4. entries' \subseteq Entry /\ copy' \in [Requests -> Entry]
    <3>1. \/ entries' = entries /\ copy' = copy
          \/ entries' = entries \cup {e} /\ copy' = [copy EXCEPT ![r] = e]
      OBVIOUS
    <3> HIDE DEF e, CreateNewEntry
    <3> QED
      BY <3>1, <1>0 DEF TypeOK
  <2> QED
    BY <2>1, <2>3, <2>4 DEF TypeOK
<1>2. MadeInv'
  <2>1. CASE made' = made
    BY <2>1, KeepMade DEF TypeOK, SameCode
  <2>2. CASE made' # made
    <3> USE <2>2
    <3>1. /\ made' = [made EXCEPT ![user[r]] = Append(@, new[r])]
          /\ entries' = entries \cup {e}
          /\ copy' = [copy EXCEPT ![r] = e] /\ pc' = [pc EXCEPT ![r] = "mail"]
      OBVIOUS
    <3>2. ASSUME NEW l, l.user \in Users, LinkMade(l)
          PROVE  MadeFor(l, made')
      <4>1. CASE l.user = user[r]
        <5>1. /\ made[user[r]] \in Seq(Emails)
              /\ made'[l.user] = Append(made[user[r]], new[r])
          BY <4>1, <3>1, <1>0 DEF TypeOK
        <5> QED
          BY <4>1, <5>1, <3>2, <1>0 DEF LinkMade, MadeFor
      <4>2. CASE l.user # user[r]
        BY <4>2, <3>1, <3>2 DEF TypeOK, LinkMade, MadeFor
      <4> QED
        BY <4>1, <4>2
    <3>3. MadeFor(e, made')
      <4>1. made'[e.user] = Append(made[user[r]], new[r])
        BY <3>1, <1>0 DEF TypeOK
      <4> HIDE DEF e
      <4> QED
        BY <4>1, <1>0 DEF LinkMade, MadeFor
    <3> HIDE DEF e
    <3>4. \A f \in entries' : MadeFor(f, made')
      BY <3>1, <3>2, <3>3 DEF MadeInv, TypeOK, Entry
    <3>5. (\A l \in mailbox : MadeFor(l, made')) /\ \A p \in presented : MadeFor(p[2], made')
      BY <3>2 DEF MadeInv, TypeOK, Link
    <3>6. ASSUME NEW q \in Requests, pc'[q] = "mail"
          PROVE  MadeFor(copy'[q], made')
      <4>1. CASE q = r
        BY <4>1, <3>1, <3>3 DEF TypeOK
      <4>2. CASE q # r
        <5>1. pc[q] = "mail" /\ copy'[q] = copy[q] /\ copy[q].user \in Users
          BY <4>2, <3>1, <3>6 DEF TypeOK, Entry
        <5> QED
          BY <5>1, <3>2 DEF MadeInv
      <4> QED
        BY <4>1, <4>2
    <3> QED
      BY <3>4, <3>5, <3>6 DEF MadeInv, LinkMade
  <2> QED
    BY <2>1, <2>2
<1>3. HeldInv'
  <2>1. \A q \in Requests : pc'[q] = "entry" => pc[q] = "entry" /\ copy'[q] = copy[q]
    BY DEF TypeOK
  <2>2. \A q \in Requests : pc'[q] \in Trying => pc[q] \in Trying /\ copy'[q] = copy[q]
    BY DEF TypeOK, Trying
  <2> QED
    BY <2>1, <2>2, KeepHeld
<1>4. ConfirmedAddress'
  BY KeepConfirmed
<1> QED
  BY <1>1, <1>2, <1>3, <1>4

LEMMA SendMailIInv ==
    ASSUME IInv, NEW r \in Requests, SendMail(r)
    PROVE  IInv'
<1> USE DEF IInv, SendMail, Goto, histories
<1>0. /\ mailbox' \subseteq mailbox \cup {LinkOf(copy[r])}
      /\ mailbox' # mailbox => pc[r] = "mail"
      /\ LinkOf(copy[r]) \in Link
      /\ disturbances' \in [Kinds -> Nat]
  BY LinkOfType, DisturbType DEF TypeOK
<1>1. TypeOK'
  BY <1>0 DEF TypeOK, Running, Creating, Redeeming
<1>2. MadeInv'
  <2>1. \A l \in mailbox' : LinkMade(l)
    BY <1>0 DEF MadeInv, LinkMade, MadeFor, LinkOf
  <2>2. \A q \in Requests : pc'[q] = "mail" => pc[q] = "mail"
    BY DEF TypeOK
  <2> QED
    BY <2>1, <2>2 DEF MadeInv, LinkMade, MadeFor
<1>3. HeldInv'
  <2>1. \A q \in Requests : pc'[q] = "entry" => pc[q] = "entry" /\ copy'[q] = copy[q]
    BY DEF TypeOK
  <2>2. \A q \in Requests : pc'[q] \in Trying => pc[q] \in Trying /\ copy'[q] = copy[q]
    BY DEF TypeOK, Trying
  <2> QED
    BY <2>1, <2>2, KeepHeld
<1>4. ConfirmedAddress'
  BY KeepConfirmed
<1> QED
  BY <1>1, <1>2, <1>3, <1>4

LEMMA MarkMailedIInv ==
    ASSUME IInv, NEW r \in Requests, MarkMailed(r)
    PROVE  IInv'
<1> USE DEF IInv, MarkMailed, Goto, Patched, histories
<1>0. \A e \in entries' : e \in Entry /\ \E f \in entries : SameCode(e, f) /\ e.email = f.email
  <2> SUFFICES ASSUME NEW e \in entries'
               PROVE  e \in Entry /\ \E f \in entries : SameCode(e, f) /\ e.email = f.email
    OBVIOUS
  <2>1. PICK f \in entries : e = f \/ e = [f EXCEPT !.mailed = TRUE, !.expired = FALSE]
    OBVIOUS
  <2> QED
    BY <2>1 DEF TypeOK, Entry, SameCode
<1>5. \E label \in {"done", "consume", "unmail"} : pc' = [pc EXCEPT ![r] = label]
  BY DEF AfterError, Trying
<1>1. TypeOK'
  BY <1>0, <1>5 DEF TypeOK, Running, Redeeming, Ended
<1>2. MadeInv'
  BY <1>0, <1>5, KeepMade DEF TypeOK, SameCode
<1>3. HeldInv'
  <2>1. \A q \in Requests : pc'[q] = "entry" => pc[q] = "entry" /\ copy'[q] = copy[q]
    BY <1>5 DEF TypeOK
  <2>2. \A q \in Requests : pc'[q] \in Trying => pc[q] \in Trying /\ copy'[q] = copy[q]
    BY <1>5 DEF TypeOK, Trying
  <2> QED
    BY <2>1, <2>2, KeepHeld
<1>4. ConfirmedAddress'
  BY KeepConfirmed
<1> QED
  BY <1>1, <1>2, <1>3, <1>4

LEMMA UndoMailIInv ==
    ASSUME IInv, NEW r \in Requests, UndoMail(r)
    PROVE  IInv'
<1> USE DEF IInv, UndoMail, Goto, histories
<1>1. TypeOK'
  BY DEF TypeOK, Running, Creating, Ended
<1>2. MadeInv'
  BY KeepMade DEF TypeOK, SameCode
<1>3. HeldInv'
  <2>1. \A q \in Requests : pc'[q] = "entry" => pc[q] = "entry" /\ copy'[q] = copy[q]
    BY DEF TypeOK
  <2>2. \A q \in Requests : pc'[q] \in Trying => pc[q] \in Trying /\ copy'[q] = copy[q]
    BY DEF TypeOK, Trying
  <2> QED
    BY <2>1, <2>2, KeepHeld
<1>4. ConfirmedAddress'
  BY KeepConfirmed
<1> QED
  BY <1>1, <1>2, <1>3, <1>4

LEMMA RemoveIInv ==
    ASSUME IInv, NEW r \in Requests, Remove(r)
    PROVE  IInv'
<1> USE DEF IInv, Remove, Goto, histories
<1>1. TypeOK'
  BY DEF TypeOK, Running, Removing
<1>2. MadeInv'
  BY KeepMade DEF TypeOK, SameCode
<1>3. HeldInv'
  <2>1. \A q \in Requests : pc'[q] = "entry" => pc[q] = "entry" /\ copy'[q] = copy[q]
    BY DEF TypeOK
  <2>2. \A q \in Requests : pc'[q] \in Trying => pc[q] \in Trying /\ copy'[q] = copy[q]
    BY DEF TypeOK, Trying
  <2> QED
    BY <2>1, <2>2, KeepHeld
<1>4. ConfirmedAddress'
  BY KeepConfirmed
<1> QED
  BY <1>1, <1>2, <1>3, <1>4

LEMMA FindToRemoveIInv ==
    ASSUME IInv, NEW r \in Requests, FindToRemove(r)
    PROVE  IInv'
<1> USE DEF IInv, FindToRemove, Goto, Take, EntryOf, histories
<1>1. TypeOK'
  BY DEF TypeOK, Running, Removing, Ended
<1>2. MadeInv'
  BY KeepMade DEF TypeOK, SameCode
<1>3. HeldInv'
  <2>1. \A q \in Requests : pc'[q] = "entry" => pc[q] = "entry" /\ copy'[q] = copy[q]
    BY DEF TypeOK
  <2>2. \A q \in Requests : pc'[q] \in Trying => pc[q] \in Trying /\ copy'[q] = copy[q]
    BY DEF TypeOK, Trying
  <2> QED
    BY <2>1, <2>2, KeepHeld
<1>4. ConfirmedAddress'
  BY KeepConfirmed
<1> QED
  BY <1>1, <1>2, <1>3, <1>4

LEMMA RedeemIInv ==
    ASSUME IInv, NEW r \in Requests, Redeem(r)
    PROVE  IInv'
<1> USE DEF IInv, Goto, Take
<1> PICK link \in mailbox :
        /\ copy' = [copy EXCEPT ![r] = [copy[r] EXCEPT !.user = link.user, !.code = link.code]]
        /\ presented' = presented \cup {<<user[r], link>>}
  BY DEF Redeem
<1>0. /\ pc[r] = "idle" /\ pc' = [pc EXCEPT ![r] = "entry"]
      /\ UNCHANGED <<entries, made, mailbox, email, name, user, new, disturbances>>
  BY DEF Redeem
<1>5. link \in Link /\ link.user \in Users /\ link.code \in Nat
  BY DEF TypeOK, Link
<1>6. [copy[r] EXCEPT !.user = link.user, !.code = link.code] \in Entry
  BY <1>5 DEF TypeOK, Entry
<1>1. TypeOK'
  <2>1. copy' \in [Requests -> Entry] /\ presented' \subseteq Users \X Link
    BY <1>5, <1>6 DEF TypeOK
  <2>2. overlapped' \subseteq Users \X Users
    BY DEF Redeem, TypeOK
  <2>3. pc' \in [Requests -> {"idle"} \cup Running \cup Ended]
    BY <1>0 DEF TypeOK, Running, Redeeming
  <2> QED
    BY <1>0, <2>1, <2>2, <2>3 DEF TypeOK
<1>2. MadeInv'
  <2>1. \A q \in Requests : pc'[q] = "mail" => pc[q] = "mail" /\ copy'[q] = copy[q]
    BY <1>0 DEF TypeOK
  <2>2. \A p \in presented' : LinkMade(p[2])
    BY DEF MadeInv
  <2> QED
    BY <1>0, <2>1, <2>2 DEF MadeInv, LinkMade
<1>3. HeldInv'
  <2>1. ASSUME NEW q \in Requests, q # r
        PROVE  pc'[q] = pc[q] /\ copy'[q] = copy[q] /\ user'[q] = user[q]
    BY <1>0, <2>1 DEF TypeOK
  <2>2. /\ pc'[r] = "entry" /\ user'[r] = user[r]
        /\ copy'[r].user = link.user /\ copy'[r].code = link.code
    BY <1>0 DEF TypeOK, Entry
  <2>3. \E p \in presented' : p[1] = user'[r] /\ SameCode(p[2], copy'[r])
    <3>1. <<user[r], link>> \in presented'
      OBVIOUS
    <3> QED
      BY <2>2, <3>1 DEF SameCode
  <2> QED
    BY <2>1, <2>2, <2>3 DEF HeldInv, Trying, SameCode
<1>4. ConfirmedAddress'
  BY <1>0, KeepConfirmed
<1> QED
  BY <1>1, <1>2, <1>3, <1>4

(* The entry that is found has the address of the link that was presented, *)
(* as both have the same code.                                             *)
LEMMA GetEntryByActivationCodeIInv ==
    ASSUME IInv, NEW r \in Requests, GetEntryByActivationCode(r)
    PROVE  IInv'
<1> USE DEF IInv, Goto, Take
<1>0. /\ pc[r] = "entry"
      /\ UNCHANGED <<entries, made, mailbox, email, name, user, new, histories, disturbances>>
  BY DEF GetEntryByActivationCode
<1>5. \/ pc' = [pc EXCEPT ![r] = "rejected"] /\ copy' = copy
      \/ \E e \in Stored(r) \cap EntryOf(user[r]) :
            pc' = [pc EXCEPT ![r] = "pending"] /\ copy' = [copy EXCEPT ![r] = e]
  BY DEF GetEntryByActivationCode
<1>1. TypeOK'
  BY <1>0, <1>5 DEF TypeOK, Running, Redeeming, Trying, Ended, Stored, histories
<1>2. MadeInv'
  <2>1. \A q \in Requests : pc'[q] = "mail" => pc[q] = "mail" /\ copy'[q] = copy[q]
    BY <1>0, <1>5 DEF TypeOK
  <2> QED
    BY <1>0, <2>1 DEF MadeInv, LinkMade, histories
<1>3. HeldInv'
  <2>1. CASE pc' = [pc EXCEPT ![r] = "rejected"] /\ copy' = copy
    <3>1. \A q \in Requests : pc'[q] = "entry" => pc[q] = "entry" /\ copy'[q] = copy[q]
      BY <2>1 DEF TypeOK
    <3>2. \A q \in Requests : pc'[q] \in Trying => pc[q] \in Trying /\ copy'[q] = copy[q]
      BY <2>1 DEF TypeOK, Trying
    <3> QED
      BY <1>0, <3>1, <3>2, KeepHeld DEF histories
  <2>2. ASSUME NEW e \in Stored(r) \cap EntryOf(user[r]),
               pc' = [pc EXCEPT ![r] = "pending"], copy' = [copy EXCEPT ![r] = e]
        PROVE  HeldInv'
    <3>1. PICK p \in presented : p[1] = user[r] /\ SameCode(p[2], copy[r])
      BY <1>0 DEF HeldInv
    <3>2. e \in entries /\ SameCode(e, copy[r]) /\ e.user = user[r]
      BY DEF Stored, EntryOf
    <3>3. LinkMade(e) /\ LinkMade(p[2])
      BY <3>2 DEF MadeInv
    <3>4. p[2].user = user[r] /\ p[2].email = e.email
      BY <3>1, <3>2, <3>3 DEF SameCode, LinkMade, MadeFor
    <3>5. /\ pc'[r] = "pending" /\ copy'[r] = e
          /\ \A q \in Requests \ {r} : pc'[q] = pc[q] /\ copy'[q] = copy[q]
          /\ user' = user /\ presented' = presented
      BY <1>0, <2>2 DEF TypeOK, histories
    <3> QED
      BY <3>1, <3>4, <3>5 DEF HeldInv, SameCode
  <2> QED
    BY <1>5, <2>1, <2>2
<1>4. ConfirmedAddress'
  BY <1>0, KeepConfirmed DEF histories
<1> QED
  BY <1>1, <1>2, <1>3, <1>4

LEMMA SetEntryStateIInv ==
    ASSUME IInv, NEW r \in Requests, SetEntryState(r)
    PROVE  IInv'
<1> USE DEF IInv, SetEntryState, Goto, Patched, histories
<1>0. \A e \in entries' : e \in Entry /\ \E f \in entries : SameCode(e, f) /\ e.email = f.email
  <2> SUFFICES ASSUME NEW e \in entries'
               PROVE  e \in Entry /\ \E f \in entries : SameCode(e, f) /\ e.email = f.email
    OBVIOUS
  <2>1. PICK f \in entries : e = f \/ e = [f EXCEPT !.state = pc[r], !.expired = FALSE]
    OBVIOUS
  <2> QED
    BY <2>1 DEF TypeOK, Entry, States, SameCode
<1>5. pc[r] \in {"pending", "success", "error"} /\ \E label \in {"uniqueUser", "fyi", "error", "rejected"} : pc' = [pc EXCEPT ![r] = label] /\ (label = "uniqueUser" => pc[r] = "pending")
  BY DEF AfterError, Trying
<1>1. TypeOK'
  BY <1>0, <1>5 DEF TypeOK, Running, Redeeming, Trying, Ended
<1>2. MadeInv'
  BY <1>0, <1>5, KeepMade DEF TypeOK, SameCode
<1>3. HeldInv'
  <2>1. \A q \in Requests : pc'[q] = "entry" => pc[q] = "entry" /\ copy'[q] = copy[q]
    BY <1>5 DEF TypeOK
  <2>2. \A q \in Requests : pc'[q] \in Trying => pc[q] \in Trying /\ copy'[q] = copy[q]
    BY <1>5 DEF TypeOK, Trying
  <2> QED
    BY <2>1, <2>2, KeepHeld
<1>4. ConfirmedAddress'
  BY KeepConfirmed
<1> QED
  BY <1>1, <1>2, <1>3, <1>4

LEMMA CheckUniqueEmailIInv ==
    ASSUME IInv, NEW r \in Requests, CheckUniqueEmail(r)
    PROVE  IInv'
<1> USE DEF IInv, CheckUniqueEmail, Goto, histories
<1>1. TypeOK'
  BY DEF TypeOK, Running, Redeeming, Trying, Ended
<1>2. MadeInv'
  BY KeepMade DEF TypeOK, SameCode
<1>3. HeldInv'
  <2>1. \A q \in Requests : pc'[q] = "entry" => pc[q] = "entry" /\ copy'[q] = copy[q]
    BY DEF TypeOK
  <2>2. \A q \in Requests : pc'[q] \in Trying => pc[q] \in Trying /\ copy'[q] = copy[q]
    BY DEF TypeOK, Trying
  <2> QED
    BY <2>1, <2>2, KeepHeld
<1>4. ConfirmedAddress'
  BY KeepConfirmed
<1> QED
  BY <1>1, <1>2, <1>3, <1>4

LEMMA CheckUniqueIInv ==
    ASSUME IInv, NEW r \in Requests, CheckUnique(r)
    PROVE  IInv'
<1> USE DEF IInv, CheckUnique, Goto, histories
<1>1. TypeOK'
  BY DEF TypeOK, Running, Redeeming, Trying, Ended
<1>2. MadeInv'
  BY KeepMade DEF TypeOK, SameCode
<1>3. HeldInv'
  <2>1. \A q \in Requests : pc'[q] = "entry" => pc[q] = "entry" /\ copy'[q] = copy[q]
    BY DEF TypeOK
  <2>2. \A q \in Requests : pc'[q] \in Trying => pc[q] \in Trying /\ copy'[q] = copy[q]
    BY DEF TypeOK, Trying
  <2> QED
    BY <2>1, <2>2, KeepHeld
<1>4. ConfirmedAddress'
  BY KeepConfirmed
<1> QED
  BY <1>1, <1>2, <1>3, <1>4

LEMMA PatchAccountIInv ==
    ASSUME IInv, NEW r \in Requests, PatchAccount(r)
    PROVE  IInv'
<1> USE DEF IInv, PatchAccount, Goto, histories
<1>1. TypeOK'
  BY DEF TypeOK, Entry, Running, Redeeming, Trying
<1>2. MadeInv'
  BY KeepMade DEF TypeOK, SameCode
<1>3. HeldInv'
  <2>1. \A q \in Requests : pc'[q] = "entry" => pc[q] = "entry" /\ copy'[q] = copy[q]
    BY DEF TypeOK
  <2>2. \A q \in Requests : pc'[q] \in Trying => pc[q] \in Trying /\ copy'[q] = copy[q]
    BY DEF TypeOK, Trying
  <2> QED
    BY <2>1, <2>2, KeepHeld
<1>4. ConfirmedAddress'
  <2>1. Confirmed(user[r], copy[r].email)
    BY DEF HeldInv, Trying, Confirmed
  <2>2. \A u \in Users : name'[u] = name[u] \/ (u = user[r] /\ name'[u] = copy[r].email)
    BY DEF TypeOK
  <2>3. email' = email /\ presented' = presented
    OBVIOUS
  <2> HIDE DEF PatchAccount
  <2> QED
    BY <2>1, <2>2, <2>3 DEF ConfirmedAddress, Confirmed
<1> QED
  BY <1>1, <1>2, <1>3, <1>4

LEMMA PatchUserIInv ==
    ASSUME IInv, NEW r \in Requests, PatchUser(r)
    PROVE  IInv'
<1> USE DEF IInv, PatchUser, Goto, histories
<1>1. TypeOK'
  BY DEF TypeOK, Entry, Running, Redeeming, Trying
<1>2. MadeInv'
  BY KeepMade DEF TypeOK, SameCode
<1>3. HeldInv'
  <2>1. \A q \in Requests : pc'[q] = "entry" => pc[q] = "entry" /\ copy'[q] = copy[q]
    BY DEF TypeOK
  <2>2. \A q \in Requests : pc'[q] \in Trying => pc[q] \in Trying /\ copy'[q] = copy[q]
    BY DEF TypeOK, Trying
  <2> QED
    BY <2>1, <2>2, KeepHeld
<1>4. ConfirmedAddress'
  <2>1. Confirmed(user[r], copy[r].email)
    BY DEF HeldInv, Trying, Confirmed
  <2>2. \A u \in Users : email'[u] = email[u] \/ (u = user[r] /\ email'[u] = copy[r].email)
    BY DEF TypeOK
  <2>3. name' = name /\ presented' = presented
    OBVIOUS
  <2> HIDE DEF PatchUser
  <2> QED
    BY <2>1, <2>2, <2>3 DEF ConfirmedAddress, Confirmed
<1> QED
  BY <1>1, <1>2, <1>3, <1>4

LEMMA CommandFailsIInv ==
    ASSUME IInv, NEW r \in Requests, CommandFails(r)
    PROVE  IInv'
<1> USE DEF IInv, CommandFails, Goto, histories
<1>0. /\ disturbances' \in [Kinds -> Nat]
      /\ \E label \in {"error", "unmail", "insert", "done", "rejected"} :
            /\ pc' = [pc EXCEPT ![r] = label]
            /\ label = "error" => pc[r] \in Trying
  BY DisturbType, AfterErrorType DEF AfterError
<1>1. TypeOK'
  BY <1>0, LabelsType DEF TypeOK, Running, Creating, Ended
<1>2. MadeInv'
  BY <1>0, KeepMade DEF TypeOK, SameCode
<1>3. HeldInv'
  <2>1. \A q \in Requests : pc'[q] = "entry" => pc[q] = "entry" /\ copy'[q] = copy[q]
    BY <1>0 DEF TypeOK
  <2>2. \A q \in Requests : pc'[q] \in Trying => pc[q] \in Trying /\ copy'[q] = copy[q]
    BY <1>0 DEF TypeOK, Trying
  <2> QED
    BY <2>1, <2>2, KeepHeld
<1>4. ConfirmedAddress'
  BY KeepConfirmed
<1> QED
  BY <1>1, <1>2, <1>3, <1>4

LEMMA CrashIInv ==
    ASSUME IInv, NEW r \in Requests, Crash(r)
    PROVE  IInv'
<1> USE DEF IInv, Crash, Goto, histories
<1>0. disturbances' \in [Kinds -> Nat]
  BY DisturbType
<1>1. TypeOK'
  BY <1>0 DEF TypeOK, Running, Creating, Ended
<1>2. MadeInv'
  BY KeepMade DEF TypeOK, SameCode
<1>3. HeldInv'
  <2>1. \A q \in Requests : pc'[q] = "entry" => pc[q] = "entry" /\ copy'[q] = copy[q]
    BY DEF TypeOK
  <2>2. \A q \in Requests : pc'[q] \in Trying => pc[q] \in Trying /\ copy'[q] = copy[q]
    BY DEF TypeOK, Trying
  <2> QED
    BY <2>1, <2>2, KeepHeld
<1>4. ConfirmedAddress'
  BY KeepConfirmed
<1> QED
  BY <1>1, <1>2, <1>3, <1>4

LEMMA ExpireIInv ==
    ASSUME IInv, NEW d \in entries, Expire(d)
    PROVE  IInv'
<1> USE DEF IInv, Expire, histories
<1>0. /\ disturbances' \in [Kinds -> Nat]
      /\ \A e \in entries' : e \in Entry /\ \E f \in entries : SameCode(e, f) /\ e.email = f.email
  BY DisturbType DEF TypeOK, Entry, SameCode
<1>1. TypeOK'
  BY <1>0 DEF TypeOK, Running, Creating, Ended
<1>2. MadeInv'
  BY <1>0, KeepMade DEF TypeOK, SameCode
<1>3. HeldInv'
  <2>1. \A q \in Requests : pc'[q] = "entry" => pc[q] = "entry" /\ copy'[q] = copy[q]
    BY <1>0 DEF TypeOK
  <2>2. \A q \in Requests : pc'[q] \in Trying => pc[q] \in Trying /\ copy'[q] = copy[q]
    BY <1>0 DEF TypeOK, Trying
  <2> QED
    BY <2>1, <2>2, KeepHeld
<1>4. ConfirmedAddress'
  BY KeepConfirmed
<1> QED
  BY <1>1, <1>2, <1>3, <1>4

LEMMA RemoveOldIInv ==
    ASSUME IInv, NEW d \in entries, RemoveOld(d)
    PROVE  IInv'
<1> USE DEF IInv, RemoveOld, histories
<1>0. /\ disturbances' \in [Kinds -> Nat]
      /\ \A e \in entries' : e \in Entry /\ \E f \in entries : SameCode(e, f) /\ e.email = f.email
  BY DisturbType DEF TypeOK, Entry, SameCode
<1>1. TypeOK'
  BY <1>0 DEF TypeOK, Running, Creating, Ended
<1>2. MadeInv'
  BY <1>0, KeepMade DEF TypeOK, SameCode
<1>3. HeldInv'
  <2>1. \A q \in Requests : pc'[q] = "entry" => pc[q] = "entry" /\ copy'[q] = copy[q]
    BY <1>0 DEF TypeOK
  <2>2. \A q \in Requests : pc'[q] \in Trying => pc[q] \in Trying /\ copy'[q] = copy[q]
    BY <1>0 DEF TypeOK, Trying
  <2> QED
    BY <2>1, <2>2, KeepHeld
<1>4. ConfirmedAddress'
  BY KeepConfirmed
<1> QED
  BY <1>1, <1>2, <1>3, <1>4
-----------------------------------------------------------------------------
LEMMA NextIInv == IInv /\ [Next]_vars => IInv'
<1> SUFFICES ASSUME IInv, [Next]_vars
             PROVE  IInv'
  OBVIOUS
<1>1. ASSUME NEW r \in Requests, Step(r)
      PROVE  IInv'
  BY <1>1, CreateIInv, CheckUniqueAccountIInv, CreateEntryIInv, DeleteEntryIInv,
     CreateNewEntryIInv, SendMailIInv, MarkMailedIInv, UndoMailIInv, RemoveIInv,
     FindToRemoveIInv, RedeemIInv, GetEntryByActivationCodeIInv, SetEntryStateIInv,
     CheckUniqueEmailIInv, CheckUniqueIInv, PatchAccountIInv, PatchUserIInv,
     CommandFailsIInv, CrashIInv DEF Step
<1>2. ASSUME NEW e \in entries, Expire(e) \/ RemoveOld(e)
      PROVE  IInv'
  BY <1>2, ExpireIInv, RemoveOldIInv
<1>3. CASE UNCHANGED vars
  BY <1>3 DEF vars, IInv, TypeOK, MadeInv, LinkMade, HeldInv, SameCode,
             ConfirmedAddress, Confirmed
<1> QED
  BY <1>1, <1>2, <1>3 DEF Next, Finished

LEMMA Inductive == Spec => []IInv
<1> QED
  BY InitIInv, NextIInv, PTL DEF Spec

(* Jobs, links, requests and addresses keep their types, for any numbers   *)
(* of requests, users and addresses.                                       *)
THEOREM TypeCorrect == Spec => []TypeOK
<1>1. IInv => TypeOK
  BY DEF IInv
<1> QED
  BY <1>1, Inductive, PTL

(* No user or account ever gets an address by a redemption but the one of  *)
(* a link that was mailed there for this user and presented by this user:  *)
(* for any number of jobs, requests, failures and crashes.                 *)
THEOREM ConfirmedTheorem == Spec => []ConfirmedAddress
<1>1. IInv => ConfirmedAddress
  BY DEF IInv
<1> QED
  BY <1>1, Inductive, PTL
-----------------------------------------------------------------------------
(* While requests are under way: what relates two requests, or a request   *)
(* to what it has checked or sent before.                                  *)
Failures == {"command", "crash"}

(* Of two redemptions under way at once each is recorded with the other,   *)
(* in both orders.                                                         *)
OverlapInv ==
    /\ \A u, v \in Users : <<u, v>> \in overlapped => <<v, u>> \in overlapped
    /\ \A q, r \in Requests :
          q # r /\ pc[q] \in Redeeming /\ pc[r] \in Redeeming =>
              <<user[q], user[r]>> \in overlapped

(* What a redemption has checked about the others stays true until it      *)
(* writes, as nobody writes besides it but a redemption that is recorded.  *)
FreeInv ==
    \A r \in Requests, v \in Users :
        v # user[r] /\ <<user[r], v>> \notin overlapped =>
            /\ pc[r] \in {"uniqueAccount", "checkName", "setName", "setEmail"} =>
                  email[v] # copy[r].email
            /\ pc[r] \in {"setName", "setAgain"} => name[v] # copy[r].email

(* A user and the account differ only between the two patches.             *)
Patching(r) ==
    /\ pc[r] = "setEmail" => name[user[r]] = copy[r].email
    /\ pc[r] \in {"checkAgain", "setAgain"} =>
          email[user[r]] = copy[r].email /\ name[user[r]] = copy[r].email

AgreeInv ==
    Undisturbed(Failures) =>
        \A u \in Users : <<u, u>> \notin overlapped =>
            /\ \A r \in Requests : user[r] = u => Patching(r)
            /\ \/ email[u] = name[u]
               \/ \E r \in Requests : user[r] = u /\ pc[r] = "setEmail"

(* What is marked as mailed is in its mailbox, and so is what was marked   *)
(* or presented when a request took it.                                    *)
Holding == (Redeeming \ {"entry"}) \cup {"mark"}

SentInv ==
    /\ \A e \in entries : e.mailed => LinkOf(e) \in mailbox
    /\ \A p \in presented : p[2] \in mailbox
    /\ \A r \in Requests : pc[r] \in Holding => LinkOf(copy[r]) \in mailbox
    /\ \A r \in Requests : pc[r] \in {"mail", "unmail"} /\ copy[r].mailed =>
          LinkOf(copy[r]) \in mailbox

(* A job that is not in its mailbox has a request that is mailing it or    *)
(* about to delete it.                                                     *)
Attended(e, r) ==
    /\ pc[r] \in {"mail", "unmail"}
    /\ SameCode(e, copy[r])
    /\ pc[r] = "unmail" => ~copy[r].mailed

AttendedInv ==
    Undisturbed(Failures) =>
        \A e \in entries :
            LinkOf(e) \in mailbox \/ \E r \in Requests : Attended(e, r)

RInv ==
    /\ OverlapInv
    /\ FreeInv
    /\ UniqueAddresses
    /\ AgreeInv
    /\ SentInv
    /\ AttendedInv

-----------------------------------------------------------------------------

LEMMA DisturbGrows ==
    ASSUME TypeOK, NEW kind, Disturb(kind)
    PROVE  /\ Undisturbed(Failures)' => Undisturbed(Failures)
           /\ kind \in Failures => ~Undisturbed(Failures)'
BY ActivationAssumption DEF TypeOK, Disturb, Undisturbed, Kinds, Failures

LEMMA SameLink ==
    ASSUME NEW e \in Entry, NEW f \in Entry, SameCode(e, f), LinkMade(e), LinkMade(f)
    PROVE  LinkOf(e) = LinkOf(f) /\ e.email = f.email
BY DEF SameCode, LinkMade, MadeFor, LinkOf

(* Where the request of a step goes on; each step moves one request.       *)
LEMMA KeepOverlap ==
    ASSUME OverlapInv, user' = user, overlapped' = overlapped,
           \A q \in Requests : pc'[q] \in Redeeming => pc[q] \in Redeeming
    PROVE  OverlapInv'
BY DEF OverlapInv

Checked == {"uniqueAccount", "checkName", "setName", "setEmail", "checkAgain", "setAgain"}

LEMMA KeepFree ==
    ASSUME FreeInv, user' = user, email' = email, name' = name,
           overlapped \subseteq overlapped',
           \A q \in Requests : pc'[q] \in Checked => pc'[q] = pc[q] /\ copy'[q] = copy[q]
    PROVE  FreeInv'
BY DEF FreeInv, Checked

LEMMA KeepAgree ==
    ASSUME AgreeInv, user' = user, email' = email, name' = name,
           overlapped \subseteq overlapped',
           Undisturbed(Failures)' => Undisturbed(Failures),
           \A q \in Requests : pc'[q] \in Checked => pc'[q] = pc[q] /\ copy'[q] = copy[q],
           \A q \in Requests : pc[q] = "setEmail" => pc'[q] = "setEmail"
    PROVE  AgreeInv'
BY DEF AgreeInv, Patching, Checked

LEMMA OverlapStep ==
    ASSUME TypeOK, OverlapInv, NEW r \in Requests, Step(r)
    PROVE  OverlapInv'
<1> USE DEF TypeOK, Goto, histories, Redeeming, Trying
<1>1. CASE Create(r)
  BY <1>1, KeepOverlap DEF Create
<1>2. CASE CheckUniqueAccount(r)
  BY <1>2, KeepOverlap DEF CheckUniqueAccount
<1>3. CASE CreateEntry(r)
  BY <1>3, KeepOverlap DEF CreateEntry, Take
<1>4. CASE DeleteEntry(r)
  BY <1>4, KeepOverlap DEF DeleteEntry
<1>5. CASE CreateNewEntry(r)
  BY <1>5, KeepOverlap DEF CreateNewEntry, Take
<1>6. CASE SendMail(r)
  BY <1>6, KeepOverlap DEF SendMail
<1>7. CASE MarkMailed(r)
  BY <1>7, KeepOverlap DEF MarkMailed, Patched, AfterError
<1>8. CASE UndoMail(r)
  BY <1>8, KeepOverlap DEF UndoMail
<1>9. CASE Remove(r)
  BY <1>9, KeepOverlap DEF Remove
<1>10. CASE FindToRemove(r)
  BY <1>10, KeepOverlap DEF FindToRemove, Take
<1>11. CASE Redeem(r)
  <2>1. \A q \in Requests \ {r} : pc'[q] = pc[q]
    BY <1>11 DEF Redeem
  <2>2. \A q \in Requests : pc[q] \in Redeeming =>
          <<user[r], user[q]>> \in overlapped' /\ <<user[q], user[r]>> \in overlapped'
    BY <1>11 DEF Redeem
  <2>3. \A u, v \in Users : <<u, v>> \in overlapped' \ overlapped =>
          \E q \in Requests : /\ pc[q] \in Redeeming
                             /\ \/ u = user[r] /\ v = user[q]
                                \/ u = user[q] /\ v = user[r]
    BY <1>11 DEF Redeem
  <2>4. overlapped \subseteq overlapped' /\ user' = user
    BY <1>11 DEF Redeem
  <2>5. \A u, v \in Users : <<u, v>> \in overlapped' => <<v, u>> \in overlapped'
    BY <2>2, <2>3, <2>4 DEF OverlapInv
  <2>6. ASSUME NEW p \in Requests, NEW q \in Requests, p # q,
               pc'[p] \in Redeeming, pc'[q] \in Redeeming
        PROVE  <<user[p], user[q]>> \in overlapped'
    <3>1. CASE p # r /\ q # r
      BY <2>1, <2>4, <2>6, <3>1 DEF OverlapInv
    <3>2. CASE p = r \/ q = r
      BY <2>1, <2>2, <2>6, <3>2
    <3> QED
      BY <3>1, <3>2
  <2> QED
    BY <2>4, <2>5, <2>6 DEF OverlapInv
<1>12. CASE GetEntryByActivationCode(r)
  BY <1>12, KeepOverlap DEF GetEntryByActivationCode, Take
<1>13. CASE SetEntryState(r)
  BY <1>13, KeepOverlap DEF SetEntryState, Patched, AfterError
<1>14. CASE CheckUniqueEmail(r)
  BY <1>14, KeepOverlap DEF CheckUniqueEmail
<1>15. CASE CheckUnique(r)
  BY <1>15, KeepOverlap DEF CheckUnique
<1>16. CASE PatchAccount(r)
  BY <1>16, KeepOverlap DEF PatchAccount
<1>17. CASE PatchUser(r)
  BY <1>17, KeepOverlap DEF PatchUser
<1>18. CASE CommandFails(r)
  BY <1>18, KeepOverlap DEF CommandFails, AfterError
<1>19. CASE Crash(r)
  BY <1>19, KeepOverlap DEF Crash
<1> QED
  BY <1>1, <1>2, <1>3, <1>4, <1>5, <1>6, <1>7, <1>8, <1>9,
     <1>10, <1>11, <1>12, <1>13, <1>14, <1>15, <1>16, <1>17, <1>18, <1>19 DEF Step

LEMMA FreeStep ==
    ASSUME TypeOK, OverlapInv, FreeInv, NEW r \in Requests, Step(r)
    PROVE  FreeInv'
<1> USE DEF TypeOK, Goto, histories, Checked
<1>1. CASE Create(r)
  BY <1>1, KeepFree DEF Create
<1>2. CASE CheckUniqueAccount(r)
  BY <1>2, KeepFree DEF CheckUniqueAccount
<1>3. CASE CreateEntry(r)
  BY <1>3, KeepFree DEF CreateEntry, Take
<1>4. CASE DeleteEntry(r)
  BY <1>4, KeepFree DEF DeleteEntry
<1>5. CASE CreateNewEntry(r)
  BY <1>5, KeepFree DEF CreateNewEntry, Take
<1>6. CASE SendMail(r)
  BY <1>6, KeepFree DEF SendMail
<1>7. CASE MarkMailed(r)
  BY <1>7, KeepFree DEF MarkMailed, Patched, AfterError
<1>8. CASE UndoMail(r)
  BY <1>8, KeepFree DEF UndoMail
<1>9. CASE Remove(r)
  BY <1>9, KeepFree DEF Remove
<1>10. CASE FindToRemove(r)
  BY <1>10, KeepFree DEF FindToRemove, Take
<1>11. CASE Redeem(r)
  BY <1>11, KeepFree DEF Redeem, Take
<1>12. CASE GetEntryByActivationCode(r)
  BY <1>12, KeepFree DEF GetEntryByActivationCode, Take
<1>13. CASE SetEntryState(r)
  BY <1>13, KeepFree DEF SetEntryState, Patched, AfterError
<1>14. CASE CheckUniqueEmail(r)
  <2>1. /\ \A q \in Requests \ {r} : pc'[q] = pc[q]
        /\ UNCHANGED <<user, email, name, copy, overlapped>>
    BY <1>14 DEF CheckUniqueEmail
  <2>2. \/ pc'[r] = "error"
        \/ /\ pc[r] = "uniqueUser" /\ pc'[r] = "uniqueAccount"
           /\ \A v \in Users : v # user[r] => email[v] # copy[r].email
        \/ pc[r] = "uniqueAccount" /\ pc'[r] = "checkName"
    BY <1>14 DEF CheckUniqueEmail, Taken
  <2> QED
    BY <2>1, <2>2 DEF FreeInv
<1>15. CASE CheckUnique(r)
  <2>1. /\ \A q \in Requests \ {r} : pc'[q] = pc[q]
        /\ UNCHANGED <<user, email, name, copy, overlapped>>
    BY <1>15 DEF CheckUnique
  <2>2. \/ pc'[r] = "error"
        \/ /\ pc[r] = "checkName" /\ pc'[r] = "setName"
           /\ \A v \in Users : v # user[r] => name[v] # copy[r].email
        \/ /\ pc[r] = "checkAgain" /\ pc'[r] = "setAgain"
           /\ \A v \in Users : v # user[r] => name[v] # copy[r].email
    BY <1>15 DEF CheckUnique, Taken
  <2> QED
    BY <2>1, <2>2 DEF FreeInv
<1>16. CASE PatchAccount(r)
  <2> SUFFICES ASSUME NEW q \in Requests, NEW v \in Users,
                      v # user[q], <<user[q], v>> \notin overlapped
               PROVE  /\ pc'[q] \in {"uniqueAccount", "checkName", "setName", "setEmail"} =>
                            email'[v] # copy[q].email
                      /\ pc'[q] \in {"setName", "setAgain"} => name'[v] # copy[q].email
    BY <1>16 DEF PatchAccount, FreeInv
  <2>1. CASE q = r
    BY <1>16, <2>1 DEF PatchAccount, FreeInv
  <2>2. CASE q # r /\ v # user[r]
    BY <1>16, <2>2 DEF PatchAccount, FreeInv
  <2>3. CASE q # r /\ v = user[r]
    BY <1>16, <2>3 DEF PatchAccount, OverlapInv, Redeeming, Trying
  <2> QED
    BY <2>1, <2>2, <2>3
<1>17. CASE PatchUser(r)
  <2> SUFFICES ASSUME NEW q \in Requests, NEW v \in Users,
                      v # user[q], <<user[q], v>> \notin overlapped
               PROVE  /\ pc'[q] \in {"uniqueAccount", "checkName", "setName", "setEmail"} =>
                            email'[v] # copy[q].email
                      /\ pc'[q] \in {"setName", "setAgain"} => name'[v] # copy[q].email
    BY <1>17 DEF PatchUser, FreeInv
  <2>1. CASE q = r
    BY <1>17, <2>1 DEF PatchUser, FreeInv
  <2>2. CASE q # r /\ v # user[r]
    BY <1>17, <2>2 DEF PatchUser, FreeInv
  <2>3. CASE q # r /\ v = user[r]
    BY <1>17, <2>3 DEF PatchUser, OverlapInv, Redeeming, Trying
  <2> QED
    BY <2>1, <2>2, <2>3
<1>18. CASE CommandFails(r)
  BY <1>18, KeepFree DEF CommandFails, AfterError
<1>19. CASE Crash(r)
  BY <1>19, KeepFree DEF Crash
<1> QED
  BY <1>1, <1>2, <1>3, <1>4, <1>5, <1>6, <1>7, <1>8, <1>9,
     <1>10, <1>11, <1>12, <1>13, <1>14, <1>15, <1>16, <1>17, <1>18, <1>19 DEF Step

LEMMA UniqueStep ==
    ASSUME TypeOK, OverlapInv, FreeInv, UniqueAddresses, NEW r \in Requests, Step(r)
    PROVE  UniqueAddresses'
<1>1. overlapped \subseteq overlapped'
  BY DEF Step, Create, CheckUniqueAccount, CreateEntry, DeleteEntry, CreateNewEntry,
     SendMail, MarkMailed, UndoMail, Remove, FindToRemove, Redeem,
     GetEntryByActivationCode, SetEntryState, CheckUniqueEmail, CheckUnique,
     PatchAccount, PatchUser, CommandFails, Crash, histories
<1>2. CASE PatchAccount(r)
  <2>1. /\ name' = [name EXCEPT ![user[r]] = copy[r].email] /\ email' = email
        /\ \A v \in Users : v # user[r] /\ <<user[r], v>> \notin overlapped =>
              name[v] # copy[r].email
    BY <1>2 DEF PatchAccount, FreeInv
  <2> QED
    BY <1>1, <2>1 DEF UniqueAddresses, OverlapInv, TypeOK
<1>3. CASE PatchUser(r)
  <2>1. /\ email' = [email EXCEPT ![user[r]] = copy[r].email] /\ name' = name
        /\ \A v \in Users : v # user[r] /\ <<user[r], v>> \notin overlapped =>
              email[v] # copy[r].email
    BY <1>3 DEF PatchUser, FreeInv
  <2> QED
    BY <1>1, <2>1 DEF UniqueAddresses, OverlapInv, TypeOK
<1>4. CASE UNCHANGED <<email, name>>
  BY <1>1, <1>4 DEF UniqueAddresses
<1> QED
  BY <1>2, <1>3, <1>4 DEF Step, Create, CheckUniqueAccount, CreateEntry, DeleteEntry,
     CreateNewEntry, SendMail, MarkMailed, UndoMail, Remove, FindToRemove, Redeem,
     GetEntryByActivationCode, SetEntryState, CheckUniqueEmail, CheckUnique,
     CommandFails, Crash

LEMMA AgreeStep ==
    ASSUME TypeOK, OverlapInv, AgreeInv, NEW r \in Requests, Step(r)
    PROVE  AgreeInv'
<1> USE DEF TypeOK, Goto, histories, Checked
<1>1. CASE Create(r)
  BY <1>1, KeepAgree DEF Create, Undisturbed
<1>2. CASE CheckUniqueAccount(r)
  BY <1>2, KeepAgree DEF CheckUniqueAccount, Undisturbed
<1>3. CASE CreateEntry(r)
  BY <1>3, KeepAgree DEF CreateEntry, Take, Undisturbed
<1>4. CASE DeleteEntry(r)
  BY <1>4, KeepAgree DEF DeleteEntry, Undisturbed
<1>5. CASE CreateNewEntry(r)
  BY <1>5, KeepAgree DEF CreateNewEntry, Take, Undisturbed
<1>6. CASE SendMail(r)
  <2>1. Undisturbed(Failures)' => Undisturbed(Failures)
    BY <1>6, DisturbGrows DEF SendMail, Undisturbed, Failures
  <2> QED
    BY <1>6, <2>1, KeepAgree DEF SendMail
<1>7. CASE MarkMailed(r)
  BY <1>7, KeepAgree DEF MarkMailed, Patched, AfterError, Undisturbed
<1>8. CASE UndoMail(r)
  BY <1>8, KeepAgree DEF UndoMail, Undisturbed
<1>9. CASE Remove(r)
  BY <1>9, KeepAgree DEF Remove, Undisturbed
<1>10. CASE FindToRemove(r)
  BY <1>10, KeepAgree DEF FindToRemove, Take, Undisturbed
<1>11. CASE Redeem(r)
  BY <1>11, KeepAgree DEF Redeem, Take, Undisturbed
<1>12. CASE GetEntryByActivationCode(r)
  BY <1>12, KeepAgree DEF GetEntryByActivationCode, Take, Undisturbed
<1>13. CASE SetEntryState(r)
  BY <1>13, KeepAgree DEF SetEntryState, Patched, AfterError, Undisturbed
<1>14. CASE CheckUniqueEmail(r)
  BY <1>14 DEF CheckUniqueEmail, AgreeInv, Patching, Undisturbed
<1>15. CASE CheckUnique(r)
  <2> SUFFICES ASSUME Undisturbed(Failures), NEW u \in Users, <<u, u>> \notin overlapped
               PROVE  /\ \A q \in Requests : user[q] = u => Patching(q)'
                      /\ \/ email'[u] = name'[u]
                         \/ \E q \in Requests : user[q] = u /\ pc'[q] = "setEmail"
    BY <1>15 DEF CheckUnique, AgreeInv, Undisturbed
  <2>1. CASE u # user[r]
    BY <1>15, <2>1 DEF CheckUnique, AgreeInv, Patching
  <2>2. CASE u = user[r]
    <3>1. \A q \in Requests : user[q] = u /\ q # r => pc'[q] \notin Checked
      BY <1>15, <2>2 DEF CheckUnique, OverlapInv, Redeeming, Trying
    <3> QED
      BY <1>15, <2>2, <3>1 DEF CheckUnique, AgreeInv, Patching
  <2> QED
    BY <2>1, <2>2
<1>16. CASE PatchAccount(r)
  <2> SUFFICES ASSUME Undisturbed(Failures), NEW u \in Users, <<u, u>> \notin overlapped
               PROVE  /\ \A q \in Requests : user[q] = u => Patching(q)'
                      /\ \/ email'[u] = name'[u]
                         \/ \E q \in Requests : user[q] = u /\ pc'[q] = "setEmail"
    BY <1>16 DEF PatchAccount, AgreeInv, Undisturbed
  <2>1. CASE u # user[r]
    BY <1>16, <2>1 DEF PatchAccount, AgreeInv, Patching
  <2>2. CASE u = user[r]
    <3>1. \A q \in Requests : user[q] = u /\ q # r => pc'[q] \notin Checked
      BY <1>16, <2>2 DEF PatchAccount, OverlapInv, Redeeming, Trying
    <3> QED
      BY <1>16, <2>2, <3>1 DEF PatchAccount, AgreeInv, Patching
  <2> QED
    BY <2>1, <2>2
<1>17. CASE PatchUser(r)
  <2> SUFFICES ASSUME Undisturbed(Failures), NEW u \in Users, <<u, u>> \notin overlapped
               PROVE  /\ \A q \in Requests : user[q] = u => Patching(q)'
                      /\ \/ email'[u] = name'[u]
                         \/ \E q \in Requests : user[q] = u /\ pc'[q] = "setEmail"
    BY <1>17 DEF PatchUser, AgreeInv, Undisturbed
  <2>1. CASE u # user[r]
    BY <1>17, <2>1 DEF PatchUser, AgreeInv, Patching
  <2>2. CASE u = user[r]
    <3>1. \A q \in Requests : user[q] = u /\ q # r => pc'[q] \notin Checked
      BY <1>17, <2>2 DEF PatchUser, OverlapInv, Redeeming, Trying
    <3> QED
      BY <1>17, <2>2, <3>1 DEF PatchUser, AgreeInv, Patching
  <2> QED
    BY <2>1, <2>2
<1>18. CASE CommandFails(r)
  BY <1>18, DisturbGrows DEF CommandFails, Failures, AgreeInv
<1>19. CASE Crash(r)
  BY <1>19, DisturbGrows DEF Crash, Failures, AgreeInv
<1> QED
  BY <1>1, <1>2, <1>3, <1>4, <1>5, <1>6, <1>7, <1>8, <1>9,
     <1>10, <1>11, <1>12, <1>13, <1>14, <1>15, <1>16, <1>17, <1>18, <1>19 DEF Step

Mailing == {"mail", "unmail"}

LEMMA KeepSent ==
    ASSUME SentInv, mailbox \subseteq mailbox', presented' = presented,
           \A e \in entries' : e.mailed => LinkOf(e) \in mailbox',
           \A q \in Requests : pc'[q] \in Holding =>
               \/ pc[q] \in Holding /\ copy'[q] = copy[q]
               \/ LinkOf(copy'[q]) \in mailbox',
           \A q \in Requests : pc'[q] \in Mailing /\ copy'[q].mailed =>
               \/ pc[q] \in Holding \cup Mailing /\ copy'[q] = copy[q]
               \/ LinkOf(copy'[q]) \in mailbox'
    PROVE  SentInv'
BY DEF SentInv, Mailing

LEMMA KeepAttended ==
    ASSUME AttendedInv, mailbox \subseteq mailbox',
           Undisturbed(Failures)' => Undisturbed(Failures),
           \A e \in entries' : \E f \in entries : SameCode(e, f) /\ e.email = f.email,
           \A q \in Requests : pc[q] \in Mailing => pc'[q] = pc[q] /\ copy'[q] = copy[q]
    PROVE  AttendedInv'
<1> SUFFICES ASSUME Undisturbed(Failures), NEW e \in entries'
             PROVE  LinkOf(e) \in mailbox' \/ \E q \in Requests : Attended(e, q)'
  BY DEF AttendedInv
<1>1. PICK f \in entries : SameCode(e, f) /\ e.email = f.email
  OBVIOUS
<1>2. LinkOf(e) = LinkOf(f)
  BY <1>1 DEF SameCode, LinkOf
<1>3. \A q \in Requests : Attended(f, q) => Attended(e, q)'
  BY <1>1 DEF Attended, SameCode, Mailing
<1> QED
  BY <1>2, <1>3 DEF AttendedInv

LEMMA SentStep ==
    ASSUME IInv, SentInv, NEW r \in Requests, Step(r)
    PROVE  SentInv'
<1> USE DEF IInv, TypeOK, Goto, histories, Redeeming, Trying, Holding, Mailing
<1>1. CASE Create(r)
  BY <1>1, KeepSent DEF Create, SentInv
<1>2. CASE CheckUniqueAccount(r)
  BY <1>2, KeepSent DEF CheckUniqueAccount, SentInv
<1>3. CASE CreateEntry(r)
  <2>1. /\ \A q \in Requests \ {r} : pc'[q] = pc[q] /\ copy'[q] = copy[q]
        /\ UNCHANGED <<mailbox, entries, presented>>
    BY <1>3 DEF CreateEntry, Take
  <2>2. pc'[r] \in {"insert", "drop", "mail"}
    BY <1>3 DEF CreateEntry
  <2>3. pc'[r] = "mail" => copy'[r] \in entries
    BY <1>3 DEF CreateEntry, Take, EntryOf
  <2> QED
    BY <2>1, <2>2, <2>3 DEF SentInv
<1>4. CASE DeleteEntry(r)
  BY <1>4, KeepSent DEF DeleteEntry, SentInv
<1>5. CASE CreateNewEntry(r)
  <2> DEFINE e == NewEntry(user[r], Len(made[user[r]]) + 1, new[r])
  <2>1. e.mailed = FALSE
    BY DEF NewEntry
  <2>2. /\ \A q \in Requests \ {r} : pc'[q] = pc[q] /\ copy'[q] = copy[q]
        /\ UNCHANGED <<mailbox, presented>>
    BY <1>5 DEF CreateNewEntry, Take
  <2>3. entries' = entries \/ entries' = entries \cup {e}
    BY <1>5 DEF CreateNewEntry
  <2>4. pc'[r] = "rejected" \/ (pc'[r] = "mail" /\ copy'[r] = e)
    <3>1. \/ pc' = [pc EXCEPT ![r] = "rejected"]
          \/ pc' = [pc EXCEPT ![r] = "mail"] /\ copy' = [copy EXCEPT ![r] = e]
      BY <1>5 DEF CreateNewEntry, Take
    <3> HIDE DEF e
    <3> QED
      BY <3>1
  <2> HIDE DEF e
  <2> QED
    BY <2>1, <2>2, <2>3, <2>4 DEF SentInv
<1>6. CASE SendMail(r)
  <2>1. /\ mailbox \subseteq mailbox'
        /\ \A q \in Requests \ {r} : pc'[q] = pc[q]
        /\ UNCHANGED <<copy, entries, presented>>
    BY <1>6 DEF SendMail
  <2>2. \/ pc[r] = "mail" /\ pc'[r] = "mark" /\ LinkOf(copy[r]) \in mailbox'
        \/ pc[r] = "mail" /\ pc'[r] = "unmail"
        \/ pc[r] = "fyi" /\ pc'[r] \in {"fyiMark", "unmail"}
    BY <1>6 DEF SendMail
  <2> QED
    BY <2>1, <2>2, KeepSent DEF SentInv
<1>7. CASE MarkMailed(r)
  <2>1. ASSUME NEW e \in entries', e.mailed
        PROVE  LinkOf(e) \in mailbox
    <3>1. PICK f \in entries :
          \/ e = f
          \/ e = [f EXCEPT !.mailed = TRUE, !.expired = FALSE] /\ f \in Stored(r)
      BY <1>7 DEF MarkMailed
    <3>2. LinkOf(e) = LinkOf(f)
      BY <3>1 DEF LinkOf, Entry
    <3>3. CASE f \in Stored(r)
      <4>1. LinkOf(copy[r]) \in mailbox
        BY <1>7 DEF MarkMailed, SentInv
      <4>2. LinkMade(f) /\ LinkMade(LinkOf(copy[r]))
        BY <4>1 DEF MadeInv
      <4>3. LinkOf(f) = LinkOf(copy[r])
        BY <3>3, <4>2 DEF LinkMade, MadeFor, LinkOf, SameCode, Stored
      <4> QED
        BY <3>2, <4>1, <4>3
    <3> QED
      BY <2>1, <3>1, <3>2, <3>3 DEF SentInv
  <2>2. /\ pc[r] \in Holding
        /\ \A q \in Requests \ {r} : pc'[q] = pc[q]
        /\ UNCHANGED <<copy, mailbox, presented>>
    BY <1>7 DEF MarkMailed, Patched
  <2> QED
    BY <2>1, <2>2, KeepSent
<1>8. CASE UndoMail(r)
  BY <1>8, KeepSent DEF UndoMail, SentInv
<1>9. CASE Remove(r)
  BY <1>9, KeepSent DEF Remove, SentInv
<1>10. CASE FindToRemove(r)
  BY <1>10, KeepSent DEF FindToRemove, Take, SentInv
<1>11. CASE Redeem(r)
  <2>1. /\ \A q \in Requests \ {r} : pc'[q] = pc[q] /\ copy'[q] = copy[q]
        /\ pc'[r] = "entry" /\ UNCHANGED <<mailbox, entries>>
    BY <1>11 DEF Redeem, Take
  <2>2. \A p \in presented' : p \in presented \/ p[2] \in mailbox
    BY <1>11 DEF Redeem
  <2> QED
    BY <2>1, <2>2 DEF SentInv
<1>12. CASE GetEntryByActivationCode(r)
  <2>1. /\ \A q \in Requests \ {r} : pc'[q] = pc[q] /\ copy'[q] = copy[q]
        /\ UNCHANGED <<mailbox, entries, presented>> /\ pc[r] = "entry"
    BY <1>12 DEF GetEntryByActivationCode, Take
  <2>2. \/ pc'[r] = "rejected"
        \/ pc'[r] = "pending" /\ copy'[r] \in entries /\ SameCode(copy'[r], copy[r])
    BY <1>12 DEF GetEntryByActivationCode, Take, Stored
  <2>3. CASE pc'[r] = "pending" /\ copy'[r] \in entries /\ SameCode(copy'[r], copy[r])
    <3>1. PICK p \in presented : SameCode(p[2], copy[r])
      BY <2>1 DEF HeldInv
    <3>2. LinkMade(copy'[r]) /\ LinkMade(p[2])
      BY <2>3 DEF MadeInv
    <3>3. p[2] \in Link /\ p[2] = LinkOf(p[2])
      BY DEF Link, LinkOf
    <3>4. LinkOf(copy'[r]) = p[2]
      BY <2>3, <3>1, <3>2, <3>3 DEF SameCode, LinkMade, MadeFor, LinkOf
    <3>5. LinkOf(copy'[r]) \in mailbox
      BY <3>4 DEF SentInv
    <3> QED
      BY <2>1, <2>3, <3>5 DEF SentInv
  <2> QED
    BY <2>1, <2>2, <2>3 DEF SentInv
<1>13. CASE SetEntryState(r)
  <2>1. ASSUME NEW e \in entries', e.mailed
        PROVE  LinkOf(e) \in mailbox
    <3>1. PICK f \in entries :
          \/ e = f
          \/ e = [f EXCEPT !.state = pc[r], !.expired = FALSE] /\ f \in Stored(r)
      BY <1>13 DEF SetEntryState
    <3>2. LinkOf(e) = LinkOf(f)
      BY <3>1 DEF LinkOf, Entry
    <3> QED
      BY <2>1, <3>1, <3>2 DEF SentInv, Entry
  <2>2. /\ pc[r] \in Holding
        /\ \A q \in Requests \ {r} : pc'[q] = pc[q]
        /\ UNCHANGED <<copy, mailbox, presented>>
    BY <1>13 DEF SetEntryState, Patched
  <2> QED
    BY <2>1, <2>2, KeepSent
<1>14. CASE CheckUniqueEmail(r)
  BY <1>14, KeepSent DEF CheckUniqueEmail, SentInv
<1>15. CASE CheckUnique(r)
  BY <1>15, KeepSent DEF CheckUnique, SentInv
<1>16. CASE PatchAccount(r)
  BY <1>16, KeepSent DEF PatchAccount, SentInv
<1>17. CASE PatchUser(r)
  BY <1>17, KeepSent DEF PatchUser, SentInv
<1>18. CASE CommandFails(r)
  <2>1. /\ \A q \in Requests \ {r} : pc'[q] = pc[q]
        /\ pc'[r] = AfterError(pc[r])
        /\ UNCHANGED <<mailbox, entries, presented, copy>>
    BY <1>18 DEF CommandFails
  <2>2. pc[r] # "mail" /\ AfterError(pc[r]) # "mail"
    BY <1>18 DEF CommandFails, AfterError
  <2>3. AfterError(pc[r]) \in Holding => pc[r] \in Holding
    BY DEF AfterError
  <2>4. AfterError(pc[r]) = "unmail" => pc[r] \in Holding
    BY DEF AfterError
  <2> QED
    BY <2>1, <2>2, <2>3, <2>4, KeepSent DEF SentInv
<1>19. CASE Crash(r)
  BY <1>19, KeepSent DEF Crash, SentInv
<1> QED
  BY <1>1, <1>2, <1>3, <1>4, <1>5, <1>6, <1>7, <1>8, <1>9,
     <1>10, <1>11, <1>12, <1>13, <1>14, <1>15, <1>16, <1>17, <1>18, <1>19 DEF Step

LEMMA AttendedStep ==
    ASSUME IInv, SentInv, AttendedInv, NEW r \in Requests, Step(r)
    PROVE  AttendedInv'
<1> USE DEF IInv, TypeOK, Goto, histories, Mailing
<1>1. CASE Create(r)
  BY <1>1, KeepAttended DEF Create, SameCode, Undisturbed
<1>2. CASE CheckUniqueAccount(r)
  BY <1>2, KeepAttended DEF CheckUniqueAccount, SameCode, Undisturbed
<1>3. CASE CreateEntry(r)
  BY <1>3, KeepAttended DEF CreateEntry, Take, SameCode, Undisturbed
<1>4. CASE DeleteEntry(r)
  BY <1>4, KeepAttended DEF DeleteEntry, SameCode, Undisturbed
<1>5. CASE CreateNewEntry(r)
  <2> DEFINE e == NewEntry(user[r], Len(made[user[r]]) + 1, new[r])
  <2>1. e.mailed = FALSE
    BY DEF NewEntry
  <2>2. /\ \A q \in Requests \ {r} : pc'[q] = pc[q] /\ copy'[q] = copy[q]
        /\ UNCHANGED <<mailbox, disturbances>> /\ pc[r] = "insert"
    BY <1>5 DEF CreateNewEntry, Take
  <2>3. CASE entries' = entries
    BY <2>2, <2>3, KeepAttended DEF SameCode, Undisturbed
  <2>4. CASE entries' = entries \cup {e} /\ pc'[r] = "mail" /\ copy'[r] = e
    <3> HIDE DEF e
    <3> SUFFICES ASSUME Undisturbed(Failures), NEW f \in entries'
                 PROVE  LinkOf(f) \in mailbox \/ \E q \in Requests : Attended(f, q)'
      BY <2>2 DEF AttendedInv, Undisturbed
    <3>1. CASE f = e
      BY <2>4, <3>1 DEF Attended, SameCode
    <3>2. CASE f \in entries
      <4>1. \A q \in Requests : Attended(f, q) => Attended(f, q)'
        BY <2>2 DEF Attended, SameCode
      <4> QED
        BY <3>2, <4>1 DEF AttendedInv
    <3> QED
      BY <2>4, <3>1, <3>2
  <2> QED
    BY <1>5, <2>3, <2>4 DEF CreateNewEntry, Take
<1>6. CASE SendMail(r)
  <2> SUFFICES ASSUME Undisturbed(Failures), NEW e \in entries, LinkOf(e) \notin mailbox'
               PROVE  \E q \in Requests : Attended(e, q)'
    BY <1>6, DisturbGrows DEF SendMail, AttendedInv, Undisturbed
  <2>1. /\ mailbox \subseteq mailbox' /\ UNCHANGED <<copy, entries>>
        /\ \A q \in Requests \ {r} : pc'[q] = pc[q]
    BY <1>6 DEF SendMail
  <2>2. PICK q \in Requests : Attended(e, q)
    BY <2>1 DEF AttendedInv
  <2>3. CASE q # r
    BY <2>1, <2>2, <2>3 DEF Attended, SameCode
  <2>4. CASE q = r
    <3>1. pc[r] = "mail" /\ SameCode(e, copy[r])
      BY <1>6, <2>2, <2>4 DEF SendMail, Attended
    <3>2. LinkOf(copy[r]) = LinkOf(e)
      BY <3>1, SameLink DEF MadeInv
    <3>3. ~copy[r].mailed
      BY <2>1, <3>1, <3>2 DEF SentInv
    <3>4. pc'[r] = "unmail"
      BY <1>6, <3>1, <3>2 DEF SendMail
    <3> QED
      BY <2>1, <3>1, <3>3, <3>4 DEF Attended, SameCode
  <2> QED
    BY <2>3, <2>4
<1>7. CASE MarkMailed(r)
  <2>1. \A e \in entries' : \E f \in entries : e = f \/ e = [f EXCEPT !.mailed = TRUE, !.expired = FALSE]
    BY <1>7 DEF MarkMailed
  <2>2. \A e \in entries' : \E f \in entries : SameCode(e, f) /\ e.email = f.email
    BY <2>1 DEF SameCode, Entry
  <2>3. /\ pc[r] \notin Mailing /\ UNCHANGED <<mailbox, copy, disturbances>>
        /\ \A q \in Requests \ {r} : pc'[q] = pc[q]
    BY <1>7 DEF MarkMailed, Patched
  <2> QED
    BY <2>2, <2>3, KeepAttended DEF Undisturbed
<1>8. CASE UndoMail(r)
  <2> SUFFICES ASSUME Undisturbed(Failures), NEW e \in entries', LinkOf(e) \notin mailbox
               PROVE  \E q \in Requests : Attended(e, q)'
    BY <1>8 DEF UndoMail, AttendedInv, Undisturbed
  <2>1. /\ UNCHANGED copy /\ e \in entries
        /\ \A q \in Requests \ {r} : pc'[q] = pc[q]
    BY <1>8 DEF UndoMail
  <2>2. PICK q \in Requests : Attended(e, q)
    BY <2>1 DEF AttendedInv
  <2>3. CASE q # r
    BY <2>1, <2>2, <2>3 DEF Attended, SameCode
  <2>4. CASE q = r
    BY <1>8, <2>1, <2>2, <2>4 DEF UndoMail, Attended, Stored
  <2> QED
    BY <2>3, <2>4
<1>9. CASE Remove(r)
  BY <1>9, KeepAttended DEF Remove, SameCode, Undisturbed
<1>10. CASE FindToRemove(r)
  BY <1>10, KeepAttended DEF FindToRemove, Take, SameCode, Undisturbed
<1>11. CASE Redeem(r)
  BY <1>11, KeepAttended DEF Redeem, Take, SameCode, Undisturbed
<1>12. CASE GetEntryByActivationCode(r)
  BY <1>12, KeepAttended DEF GetEntryByActivationCode, Take, SameCode, Undisturbed
<1>13. CASE SetEntryState(r)
  <2>1. \A e \in entries' : \E f \in entries : e = f \/ e = [f EXCEPT !.state = pc[r], !.expired = FALSE]
    BY <1>13 DEF SetEntryState
  <2>2. \A e \in entries' : \E f \in entries : SameCode(e, f) /\ e.email = f.email
    BY <2>1 DEF SameCode, Entry
  <2>3. /\ pc[r] \notin Mailing /\ UNCHANGED <<mailbox, copy, disturbances>>
        /\ \A q \in Requests \ {r} : pc'[q] = pc[q]
    BY <1>13 DEF SetEntryState, Patched
  <2> QED
    BY <2>2, <2>3, KeepAttended DEF Undisturbed
<1>14. CASE CheckUniqueEmail(r)
  BY <1>14, KeepAttended DEF CheckUniqueEmail, SameCode, Undisturbed
<1>15. CASE CheckUnique(r)
  BY <1>15, KeepAttended DEF CheckUnique, SameCode, Undisturbed
<1>16. CASE PatchAccount(r)
  BY <1>16, KeepAttended DEF PatchAccount, SameCode, Undisturbed
<1>17. CASE PatchUser(r)
  BY <1>17, KeepAttended DEF PatchUser, SameCode, Undisturbed
<1>18. CASE CommandFails(r)
  BY <1>18, DisturbGrows DEF CommandFails, Failures, AttendedInv
<1>19. CASE Crash(r)
  BY <1>19, DisturbGrows DEF Crash, Failures, AttendedInv
<1> QED
  BY <1>1, <1>2, <1>3, <1>4, <1>5, <1>6, <1>7, <1>8, <1>9,
     <1>10, <1>11, <1>12, <1>13, <1>14, <1>15, <1>16, <1>17, <1>18, <1>19 DEF Step

LEMMA InitRInv == Init => RInv
<1> SUFFICES ASSUME Init
             PROVE  RInv
  OBVIOUS
<1>1. /\ overlapped = {} /\ presented = {} /\ email = InitEmail /\ name = InitEmail
      /\ \A r \in Requests : pc[r] = "idle"
  BY DEF Init
<1>2. \A e \in entries : LinkOf(e) \in mailbox
  <2> PICK jobs \in SUBSET [user : Users, code : {1}, email : Emails] :
          /\ mailbox = jobs
          /\ entries = {[NewEntry(l.user, 1, l.email) EXCEPT !.mailed = TRUE] : l \in jobs}
    BY DEF Init
  <2> SUFFICES ASSUME NEW l \in jobs
               PROVE  LinkOf([NewEntry(l.user, 1, l.email) EXCEPT !.mailed = TRUE]) = l
    OBVIOUS
  <2>1. l = [user |-> l.user, code |-> 1, email |-> l.email]
    OBVIOUS
  <2> QED
    BY <2>1 DEF NewEntry, LinkOf
<1>3. OverlapInv /\ FreeInv /\ UniqueAddresses
  BY <1>1, ActivationAssumption DEF OverlapInv, FreeInv, UniqueAddresses, Redeeming, Trying
<1>4. AgreeInv /\ SentInv /\ AttendedInv
  BY <1>1, <1>2 DEF AgreeInv, Patching, SentInv, AttendedInv, Holding, Redeeming, Trying
<1> QED
  BY <1>3, <1>4 DEF RInv

(* Time takes entries away or lets them expire.                            *)
LEMMA TimeStep ==
    ASSUME IInv, RInv, NEW d \in entries, Expire(d) \/ RemoveOld(d)
    PROVE  RInv'
<1>1. UNCHANGED <<mailbox, email, name, pc, user, copy, presented, overlapped>>
  BY DEF Expire, RemoveOld, histories
<1>2. Undisturbed(Failures)' => Undisturbed(Failures)
  BY DisturbGrows DEF Expire, RemoveOld, IInv
<1>3. \A e \in entries' : \E f \in entries :
          SameCode(e, f) /\ e.email = f.email /\ e.mailed = f.mailed
  BY DEF Expire, RemoveOld, IInv, TypeOK, Entry, SameCode
<1>4. \A e \in entries' : e.mailed => LinkOf(e) \in mailbox
  BY <1>3 DEF RInv, SentInv, LinkOf, SameCode
<1>5. OverlapInv' /\ FreeInv' /\ UniqueAddresses'
  BY <1>1 DEF RInv, OverlapInv, FreeInv, UniqueAddresses
<1>6. AgreeInv'
  BY <1>1, <1>2 DEF RInv, AgreeInv, Patching
<1>7. SentInv'
  BY <1>1, <1>4 DEF RInv, SentInv
<1>8. AttendedInv'
  BY <1>1, <1>2, <1>3, KeepAttended DEF RInv, Mailing
<1> QED
  BY <1>5, <1>6, <1>7, <1>8 DEF RInv

LEMMA NextRInv == IInv /\ RInv /\ [Next]_vars => RInv'
<1> SUFFICES ASSUME IInv, RInv, [Next]_vars
             PROVE  RInv'
  OBVIOUS
<1>1. ASSUME NEW r \in Requests, Step(r)
      PROVE  RInv'
  BY <1>1, OverlapStep, FreeStep, UniqueStep, AgreeStep, SentStep,
     AttendedStep DEF IInv, RInv
<1>2. ASSUME NEW e \in entries, Expire(e) \/ RemoveOld(e)
      PROVE  RInv'
  BY <1>2, TimeStep
<1>3. CASE UNCHANGED vars
  <2>1. UNCHANGED <<entries, mailbox, email, name, pc, user, copy, presented, overlapped,
                    disturbances>>
    BY <1>3 DEF vars
  <2>2. OverlapInv' /\ FreeInv' /\ UniqueAddresses' /\ SentInv'
    BY <2>1 DEF RInv, OverlapInv, FreeInv, UniqueAddresses, SentInv
  <2>3. AgreeInv' /\ AttendedInv'
    BY <2>1 DEF RInv, AgreeInv, Patching, AttendedInv, Attended, Undisturbed
  <2> QED
    BY <2>2, <2>3 DEF RInv
<1> QED
  BY <1>1, <1>2, <1>3 DEF Next, Finished

LEMMA InductiveRInv == Spec => [](IInv /\ RInv)
<1>1. Init => IInv /\ RInv
  BY InitIInv, InitRInv
<1>2. IInv /\ RInv /\ [Next]_vars => (IInv /\ RInv)'
  BY NextIInv, NextRInv
<1> QED
  BY <1>1, <1>2, PTL DEF Spec

(* Two users never get the same address or the same account name, whatever *)
(* fails in between, unless their redemptions were under way at once.      *)
THEOREM UniqueTheorem == Spec => []UniqueAddresses
<1>1. RInv => UniqueAddresses
  BY DEF RInv
<1> QED
  BY <1>1, InductiveRInv, PTL

(* Without failures a user and the account agree when no request is under  *)
(* way, but after two redemptions of this user at once.                    *)
THEOREM AgreeTheorem == Spec => []AgreeAtRest
<1>1. IInv /\ RInv => AgreeAtRest
  <2> SUFFICES ASSUME RInv, AtRest, Undisturbed(Failures), NEW u \in Users,
                      <<u, u>> \notin overlapped
               PROVE  email[u] = name[u]
    BY DEF AgreeAtRest, Failures
  <2> QED
    BY DEF RInv, AgreeInv, AtRest, Ended
<1> QED
  BY <1>1, InductiveRInv, PTL

(* Without failures of the database or the process, a job that is left     *)
(* when no request is under way has its link in the mailbox, also when     *)
(* mails have failed.                                                      *)
THEOREM MailedTheorem == Spec => []OpenJobWasMailed
<1>1. IInv /\ RInv => OpenJobWasMailed
  <2> SUFFICES ASSUME RInv, AtRest, Undisturbed(Failures), NEW e \in entries
               PROVE  LinkOf(e) \in mailbox
    BY DEF OpenJobWasMailed, Failures
  <2> QED
    BY DEF RInv, AttendedInv, Attended, AtRest, Ended
<1> QED
  BY <1>1, InductiveRInv, PTL
=============================================================================
