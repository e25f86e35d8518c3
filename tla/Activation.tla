----------------------------- MODULE Activation -----------------------------
(***************************************************************************)
(* Change of the email address of a local account by an activation link    *)
(* (src/services/activation): EMailAddressActivationService creates a job  *)
(* and mails its link, ActivationService redeems or removes it, and the    *)
(* patch hooks of the user and account services write the new address.     *)
(*                                                                         *)
(* A handler is suspended at each await; an action is the code between two *)
(* awaits with the one command it waits for.  Roles, passwords and schools *)
(* do not change: a request that lacks them is not started.                *)
(***************************************************************************)
EXTENDS Naturals, Sequences

CONSTANTS
    Requests,           \* requests to the two services
    Users,
    Emails,
    InitEmail,          \* address and account name of a user at first
    Disturbances,       \* what may happen besides, of:
                        \*   "mail":    the mail service does not answer
                        \*   "command": a database command throws
                        \*   "crash":   the process of a request dies
                        \*   "time":    hours or days pass between two steps
    MaxDisturbances     \* bound: how often something of it happens

Kinds == {"mail", "command", "crash", "time"}

ASSUME ActivationAssumption ==
    /\ InitEmail \in [Users -> Emails]
    /\ \A u, v \in Users : InitEmail[u] = InitEmail[v] => u = v
    /\ Disturbances \subseteq Kinds
    /\ MaxDisturbances \in Nat

VARIABLES
    entries,            \* documents of activationModel (one per user)
    made,               \* history: the addresses of the codes made for a user
    mailbox,            \* links that have reached the mailbox of their email
    email,              \* user.email
    name,               \* account.username
    pc,                 \* where each request is suspended
    user,               \* who has sent it
    new,                \* the address it asks for, before a creation their own
    copy,               \* the entry the request has in hand
    presented,          \* history: which link a user has presented
    overlapped,         \* history: whose redemptions were under way at once
    disturbances        \* how often each kind has happened

vars == <<entries, made, mailbox, email, name, pc, user, new, copy,
          presented, overlapped, disturbances>>

States == {"uninitiated", "pending", "success", "error"}

(* The awaits of a creation, of a removal, and of a redemption; the last   *)
(* are those inside its try block.                                         *)
Creating == {"checkUnique", "lookup", "drop", "insert", "mail", "mark"}
Removing == {"find", "delete"}
Trying == {"pending", "uniqueUser", "uniqueAccount", "checkName", "setName",
           "setEmail", "checkAgain", "setAgain", "success"}
Redeeming == {"entry", "error", "fyi", "fyiMark", "consume"} \cup Trying
Running == Creating \cup Removing \cup Redeeming \cup {"unmail"}
Ended == {"done", "rejected", "crashed"}

(* The random activation code is the user and the number of the code.      *)
Link == [user : Users, code : Nat, email : Emails]
Entry == [user : Users, code : Nat, email : Emails, state : States,
          mailed : BOOLEAN, expired : BOOLEAN]

LinkOf(e) == [user |-> e.user, code |-> e.code, email |-> e.email]
SameCode(e, f) == e.user = f.user /\ e.code = f.code
EntryOf(u) == {e \in entries : e.user = u}
Stored(r) == {e \in entries : SameCode(e, copy[r])}

NewEntry(u, n, address) ==
    [user |-> u, code |-> n, email |-> address, state |-> "uninitiated",
     mailed |-> FALSE, expired |-> FALSE]

Goto(r, label) == pc' = [pc EXCEPT ![r] = label]
Take(r, e) == copy' = [copy EXCEPT ![r] = e]

Disturb(kind) ==
    /\ kind \in Disturbances
    /\ disturbances["mail"] + disturbances["command"] + disturbances["crash"]
          + disturbances["time"] < MaxDisturbances
    /\ disturbances' = [disturbances EXCEPT ![kind] = @ + 1]

histories == <<presented, overlapped>>

(* Some users have a job open already, with its link in their mailbox.     *)
Init ==
    /\ email = InitEmail /\ name = InitEmail
    /\ \E jobs \in SUBSET [user : Users, code : {1}, email : Emails] :
          /\ \A l \in jobs : \A u \in Users : l.email # InitEmail[u]
          /\ \A k, l \in jobs : k.user = l.user => k = l
          /\ mailbox = jobs
          /\ entries = {[NewEntry(l.user, 1, l.email) EXCEPT !.mailed = TRUE] : l \in jobs}
          /\ made = [u \in Users |-> IF \E l \in jobs : l.user = u
                        THEN <<(CHOOSE l \in jobs : l.user = u).email>> ELSE <<>>]
    /\ pc = [r \in Requests |-> "idle"]
    /\ user \in [Requests -> Users]
    /\ new = [r \in Requests |-> InitEmail[user[r]]]
    /\ copy = [r \in Requests |-> NewEntry(user[r], 0, InitEmail[user[r]])]
    /\ presented = {} /\ overlapped = {}
    /\ disturbances = [k \in Kinds |-> 0]
-----------------------------------------------------------------------------
(* EMailAddressActivationService.create with its hooks.                    *)
Create(r) ==
    /\ pc[r] = "idle"
    /\ \E address \in Emails \ {name[user[r]]} : new' = [new EXCEPT ![r] = address]
    /\ Goto(r, "checkUnique")
    /\ UNCHANGED <<entries, made, mailbox, email, name, user, copy, histories,
                   disturbances>>

CheckUniqueAccount(r) ==
    /\ pc[r] = "checkUnique"
    /\ Goto(r, IF \E v \in Users : name[v] = new[r] THEN "rejected" ELSE "lookup")
    /\ UNCHANGED <<entries, made, mailbox, email, name, user, new, copy,
                   histories, disturbances>>

(* Mutant of CreateEntry: the address of an open job is changed in place.  *)
CreateEntryInPlace(r) ==
    /\ pc[r] = "lookup"
    /\ \/ EntryOf(user[r]) = {} /\ Goto(r, "insert") /\ UNCHANGED <<copy, entries>>
       \/ \E e \in EntryOf(user[r]) :
             /\ Take(r, [e EXCEPT !.email = new[r]])
             /\ entries' = (entries \ {e}) \cup {[e EXCEPT !.email = new[r]]}
             /\ Goto(r, "mail")
    /\ UNCHANGED <<made, mailbox, email, name, user, new, histories,
                   disturbances>>

(* An open job for the same address is used again, another is replaced.    *)
CreateEntry(r) ==
    /\ pc[r] = "lookup"
    /\ \/ EntryOf(user[r]) = {} /\ Goto(r, "insert") /\ UNCHANGED copy
       \/ \E e \in EntryOf(user[r]) :
             /\ Take(r, e)
             /\ Goto(r, IF e.email = new[r] THEN "mail" ELSE "drop")
    /\ UNCHANGED <<entries, made, mailbox, email, name, user, new, histories,
                   disturbances>>

(* deleteEntry, called at four places; its errors are only logged.         *)
DeleteEntry(r) ==
    /\ pc[r] \in {"drop", "delete", "consume"}
    /\ entries' = entries \ Stored(r)
    /\ Goto(r, IF pc[r] = "drop" THEN "insert" ELSE "done")
    /\ UNCHANGED <<made, mailbox, email, name, user, new, copy, histories,
                   disturbances>>

(* The unique index on the user lets one of two creations through.         *)
CreateNewEntry(r) ==
    LET e == NewEntry(user[r], Len(made[user[r]]) + 1, new[r]) IN
    /\ pc[r] = "insert"
    /\ \/ /\ EntryOf(user[r]) = {}
          /\ made' = [made EXCEPT ![user[r]] = Append(@, new[r])]
          /\ entries' = entries \cup {e}
          /\ Take(r, e)
          /\ Goto(r, "mail")
       \/ /\ EntryOf(user[r]) # {}
          /\ Goto(r, "rejected")
          /\ UNCHANGED <<entries, made, copy>>
    /\ UNCHANGED <<mailbox, email, name, user, new, histories, disturbances>>

(* sendMail: the link, or the information of the user after a redemption.  *)
(* Without an answer it is not known whether the mail has left.            *)
SendMail(r) ==
    LET delivered == IF pc[r] = "mail" THEN mailbox \cup {LinkOf(copy[r])} ELSE mailbox IN
    /\ pc[r] \in {"mail", "fyi"}
    /\ \/ /\ mailbox' = delivered
          /\ Goto(r, IF pc[r] = "mail" THEN "mark" ELSE "fyiMark")
          /\ UNCHANGED disturbances
       \/ /\ mailbox' \in {mailbox, delivered}
          /\ Disturb("mail")
          /\ Goto(r, "unmail")
    /\ UNCHANGED <<entries, made, email, name, user, new, copy, histories>>

(* Where a request goes on when its command throws: the try block of the   *)
(* redemption, the catch block of sendMail, deleteEntry, or nowhere.       *)
AfterError(label) ==
    CASE label \in Trying -> "error"
      [] label \in {"mark", "fyiMark"} -> "unmail"
      [] label = "drop" -> "insert"
      [] label \in {"delete", "consume"} -> "done"
      [] OTHER -> "rejected"

(* A patch of the entry makes its updatedAt new; if the entry has gone, the *)
(* patch throws.                                                           *)
Patched(r, label) == Goto(r, IF Stored(r) # {} THEN label ELSE AfterError(pc[r]))

MarkMailed(r) ==
    /\ pc[r] \in {"mark", "fyiMark"}
    /\ entries' = {IF e \in Stored(r) THEN [e EXCEPT !.mailed = TRUE, !.expired = FALSE]
                   ELSE e : e \in entries}
    /\ Patched(r, IF pc[r] = "mark" THEN "done" ELSE "consume")
    /\ UNCHANGED <<made, mailbox, email, name, user, new, copy, histories,
                   disturbances>>

(* Mutant of UndoMail: the entry stays.                                    *)
UndoNothing(r) ==
    /\ pc[r] = "unmail"
    /\ Goto(r, "rejected")
    /\ UNCHANGED <<entries, made, mailbox, email, name, user, new, copy,
                   histories, disturbances>>

(* The catch block of sendMail: a job whose link was never sent, as far as *)
(* this request has seen, is deleted.                                      *)
UndoMail(r) ==
    /\ pc[r] = "unmail"
    /\ entries' = IF copy[r].mailed THEN entries ELSE entries \ Stored(r)
    /\ Goto(r, "rejected")
    /\ UNCHANGED <<made, mailbox, email, name, user, new, copy, histories,
                   disturbances>>
-----------------------------------------------------------------------------
(* ActivationService.remove.                                               *)
Remove(r) ==
    /\ pc[r] = "idle"
    /\ Goto(r, "find")
    /\ UNCHANGED <<entries, made, mailbox, email, name, user, new, copy,
                   histories, disturbances>>

FindToRemove(r) ==
    /\ pc[r] = "find"
    /\ \/ EntryOf(user[r]) = {} /\ Goto(r, "rejected") /\ UNCHANGED copy
       \/ \E e \in EntryOf(user[r]) : Take(r, e) /\ Goto(r, "delete")
    /\ UNCHANGED <<entries, made, mailbox, email, name, user, new, histories,
                   disturbances>>
-----------------------------------------------------------------------------
(* ActivationService.update: a user presents a link from some mailbox.     *)
Redeem(r) ==
    /\ pc[r] = "idle"
    /\ \E link \in mailbox :
          /\ Take(r, [copy[r] EXCEPT !.user = link.user, !.code = link.code])
          /\ presented' = presented \cup {<<user[r], link>>}
    /\ overlapped' = overlapped \cup
          {<<user[r], user[q]>> : q \in {q \in Requests : pc[q] \in Redeeming}} \cup
          {<<user[q], user[r]>> : q \in {q \in Requests : pc[q] \in Redeeming}}
    /\ Goto(r, "entry")
    /\ UNCHANGED <<entries, made, mailbox, email, name, user, new,
                   disturbances>>

(* validEntry is called but its promise is not awaited: an expired or used *)
(* link is only logged, as an unhandled rejection.                         *)
GetEntryByActivationCode(r) ==
    LET mine == Stored(r) \cap EntryOf(user[r]) IN
    /\ pc[r] = "entry"
    /\ \/ mine = {} /\ Goto(r, "rejected") /\ UNCHANGED copy
       \/ \E e \in mine : Take(r, e) /\ Goto(r, "pending")
    /\ UNCHANGED <<entries, made, mailbox, email, name, user, new, histories,
                   disturbances>>

(* Mutant of SetEntryState: a state that STATE does not have.              *)
SetEntryStateOpen(r) ==
    /\ pc[r] \in {"pending", "success", "error"}
    /\ entries' = {IF e \in Stored(r)
                   THEN [e EXCEPT !.state = IF pc[r] = "error" THEN "open" ELSE pc[r],
                                  !.expired = FALSE]
                   ELSE e : e \in entries}
    /\ Patched(r, IF pc[r] = "pending" THEN "uniqueUser" ELSE "fyi")
    /\ UNCHANGED <<made, mailbox, email, name, user, new, copy, histories,
                   disturbances>>

SetEntryState(r) ==
    /\ pc[r] \in {"pending", "success", "error"}
    /\ entries' = {IF e \in Stored(r) THEN [e EXCEPT !.state = pc[r], !.expired = FALSE]
                   ELSE e : e \in entries}
    /\ Patched(r, IF pc[r] = "pending" THEN "uniqueUser" ELSE "fyi")
    /\ UNCHANGED <<made, mailbox, email, name, user, new, copy, histories,
                   disturbances>>

(* Mutant of Taken: the other users and accounts are not looked at.        *)
TakenNever(where, r) == FALSE

Taken(where, r) ==
    \E v \in Users \ {user[r]} : where[v] = copy[r].email

(* checkUniqueEmail before the patch of the user.                          *)
CheckUniqueEmail(r) ==
    /\ \/ /\ pc[r] = "uniqueUser"
          /\ Goto(r, IF Taken(email, r) THEN "error" ELSE "uniqueAccount")
       \/ /\ pc[r] = "uniqueAccount"
          /\ Goto(r, IF Taken(name, r) THEN "error" ELSE "checkName")
    /\ UNCHANGED <<entries, made, mailbox, email, name, user, new, copy,
                   histories, disturbances>>

(* Mutant of CheckUnique: updateAccountUsername logs the error and goes on.*)
CheckUniqueLogged(r) ==
    /\ \/ pc[r] = "checkName" /\ Goto(r, IF Taken(name, r) THEN "setEmail" ELSE "setName")
       \/ pc[r] = "checkAgain" /\ Goto(r, IF Taken(name, r) THEN "error" ELSE "setAgain")
    /\ UNCHANGED <<entries, made, mailbox, email, name, user, new, copy,
                   histories, disturbances>>

(* checkUnique before each of the two patches of the account: the first is *)
(* made by updateAccountUsername, a hook of the patch of the user.         *)
CheckUnique(r) ==
    /\ \/ pc[r] = "checkName" /\ Goto(r, IF Taken(name, r) THEN "error" ELSE "setName")
       \/ pc[r] = "checkAgain" /\ Goto(r, IF Taken(name, r) THEN "error" ELSE "setAgain")
    /\ UNCHANGED <<entries, made, mailbox, email, name, user, new, copy,
                   histories, disturbances>>

PatchAccount(r) ==
    /\ pc[r] \in {"setName", "setAgain"}
    /\ name' = [name EXCEPT ![user[r]] = copy[r].email]
    /\ Goto(r, IF pc[r] = "setName" THEN "setEmail" ELSE "success")
    /\ UNCHANGED <<entries, made, mailbox, email, user, new, copy, histories,
                   disturbances>>

PatchUser(r) ==
    /\ pc[r] = "setEmail"
    /\ email' = [email EXCEPT ![user[r]] = copy[r].email]
    /\ Goto(r, "checkAgain")
    /\ UNCHANGED <<entries, made, mailbox, name, user, new, copy, histories,
                   disturbances>>
-----------------------------------------------------------------------------
(* A command throws without its effect; with it, it is as if the command   *)
(* succeeded and the next one threw or the process died.                   *)
CommandFails(r) ==
    /\ pc[r] \in Running \ {"mail", "fyi"}
    /\ Disturb("command")
    /\ Goto(r, AfterError(pc[r]))
    /\ UNCHANGED <<entries, made, mailbox, email, name, user, new, copy, histories>>

Crash(r) ==
    /\ pc[r] \in Running
    /\ Disturb("crash")
    /\ Goto(r, "crashed")
    /\ UNCHANGED <<entries, made, mailbox, email, name, user, new, copy, histories>>

(* The period of validity since the last update of an entry ends, ...      *)
Expire(e) ==
    /\ ~e.expired
    /\ Disturb("time")
    /\ entries' = (entries \ {e}) \cup {[e EXCEPT !.expired = TRUE]}
    /\ UNCHANGED <<made, mailbox, email, name, pc, user, new, copy, histories>>

(* ... or the seven days since its creation, and MongoDB removes it.       *)
RemoveOld(e) ==
    /\ Disturb("time")
    /\ entries' = entries \ {e}
    /\ UNCHANGED <<made, mailbox, email, name, pc, user, new, copy, histories>>

AtRest == \A r \in Requests : pc[r] \in Ended \cup {"idle"}
Finished == (\A r \in Requests : pc[r] \in Ended) /\ UNCHANGED vars

Step(r) ==
    \/ Create(r) \/ CheckUniqueAccount(r) \/ CreateEntry(r) \/ DeleteEntry(r)
    \/ CreateNewEntry(r) \/ SendMail(r) \/ MarkMailed(r) \/ UndoMail(r)
    \/ Remove(r) \/ FindToRemove(r)
    \/ Redeem(r) \/ GetEntryByActivationCode(r) \/ SetEntryState(r)
    \/ CheckUniqueEmail(r) \/ CheckUnique(r) \/ PatchAccount(r) \/ PatchUser(r)
    \/ CommandFails(r) \/ Crash(r)

Next ==
    \/ \E r \in Requests : Step(r)
    \/ \E e \in entries : Expire(e) \/ RemoveOld(e)
    \/ Finished

Spec == Init /\ [][Next]_vars
-----------------------------------------------------------------------------
TypeOK ==
    /\ entries \subseteq Entry
    /\ made \in [Users -> Seq(Emails)]
    /\ mailbox \subseteq Link
    /\ email \in [Users -> Emails] /\ name \in [Users -> Emails]
    /\ pc \in [Requests -> {"idle"} \cup Running \cup Ended]
    /\ user \in [Requests -> Users] /\ new \in [Requests -> Emails]
    /\ copy \in [Requests -> Entry]
    /\ presented \subseteq Users \X Link
    /\ overlapped \subseteq Users \X Users
    /\ disturbances \in [Kinds -> Nat]

(* A user gets no address, as user or as account, but one whose mailbox    *)
(* has received a link for this user, which the user has presented: also   *)
(* while jobs are replaced, links repeated and requests repeated.          *)
Confirmed(u, address) ==
    \/ address = InitEmail[u]
    \/ \E p \in presented : p[1] = u /\ p[2].user = u /\ p[2].email = address

ConfirmedAddress ==
    \A u \in Users : Confirmed(u, email[u]) /\ Confirmed(u, name[u])

(* When all requests have ended without a failure, the user and the        *)
(* account of a user have the same address, although they are written one  *)
(* after the other and any of the checks in between may fail; except after *)
(* two redemptions of the same user at once.                               *)
Undisturbed(kinds) == \A k \in kinds : disturbances[k] = 0

AgreeAtRest ==
    AtRest /\ Undisturbed({"command", "crash"}) =>
        \A u \in Users : <<u, u>> \in overlapped \/ email[u] = name[u]

(* Two users have different addresses and account names, whatever fails in *)
(* between, unless their redemptions were under way at once.               *)
UniqueAddresses ==
    \A u, v \in Users :
        u # v /\ <<u, v>> \notin overlapped =>
            name[u] # name[v] /\ email[u] # email[v]

(* The job that is left when all requests have ended has sent its link:    *)
(* a mail that fails leaves no job behind that nobody can redeem.          *)
OpenJobWasMailed ==
    AtRest /\ Undisturbed({"command", "crash"}) =>
        \A e \in entries : LinkOf(e) \in mailbox
=============================================================================
