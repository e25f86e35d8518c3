---------------------------- MODULE LockingQueue ----------------------------
(***************************************************************************)
(* The class LockingQueue of src/services/ldap/lockingQueue.js.  Each call *)
(* of getLock is a request with a promise and a release object.  The       *)
(* methods run to their end without an await, so each is one action.       *)
(***************************************************************************)
EXTENDS Sequences, Naturals

CONSTANT Requests       \* calls of getLock

VARIABLES
    locked,             \* this.locked
    queue,              \* this.queue, the requests whose promise is pending
    released,           \* the flag of each release object
    status              \* "idle": getLock not called, "waiting": promise
                        \* pending, "granted": resolved and in use,
                        \* "released": given back by the release object,
                        \* "left": given back by LockingQueue.releaseLock

vars == <<locked, queue, released, status>>

Init ==
    /\ locked = FALSE
    /\ queue = <<>>
    /\ released = [r \in Requests |-> FALSE]
    /\ status = [r \in Requests |-> "idle"]

GetLock(r) ==
    /\ status[r] = "idle"
    /\ IF ~locked
       THEN /\ locked' = TRUE
            /\ status' = [status EXCEPT ![r] = "granted"]
            /\ UNCHANGED queue
       ELSE /\ queue' = Append(queue, r)
            /\ status' = [status EXCEPT ![r] = "waiting"]
            /\ UNCHANGED locked
    /\ UNCHANGED released

(* Mutant of PassOn: the request that came last is served first.           *)
PassOnToLast(r, end) ==
    LET n == Len(queue) IN
    /\ locked' = (queue # <<>>)
    /\ IF queue = <<>>
       THEN /\ status' = [status EXCEPT ![r] = end]
            /\ UNCHANGED queue
       ELSE /\ queue' = SubSeq(queue, 1, n - 1)
            /\ status' = [status EXCEPT ![r] = end, ![queue[n]] = "granted"]

(* Give the resource back: the lock opens, or the first promise in the     *)
(* queue is resolved and the lock stays closed.                            *)
PassOn(r, end) ==
    IF queue = <<>>
    THEN /\ locked' = FALSE
         /\ status' = [status EXCEPT ![r] = end]
         /\ UNCHANGED queue
    ELSE /\ queue' = Tail(queue)
         /\ status' = [status EXCEPT ![r] = end, ![Head(queue)] = "granted"]
         /\ UNCHANGED locked

(* Mutant of Release: the release object forgets that it was used.         *)
ReleaseAgain(r) ==
    /\ status[r] \in {"granted", "released"}
    /\ PassOn(r, "released")
    /\ UNCHANGED released

(* releaseLock of the release object: only its first call has an effect.   *)
Release(r) ==
    /\ status[r] \in {"granted", "released"}
    /\ IF released[r]
       THEN UNCHANGED vars
       ELSE /\ released' = [released EXCEPT ![r] = TRUE]
            /\ PassOn(r, "released")

(* LockingQueue.releaseLock, called by the one whose turn it is instead of *)
(* its release object; it keeps no flag.                                   *)
ReleaseQueue(r) ==
    /\ status[r] = "granted"
    /\ PassOn(r, "left")
    /\ UNCHANGED released

(* Every request has been served.                                          *)
Finished ==
    /\ \A r \in Requests : status[r] \in {"released", "left"}
    /\ UNCHANGED vars

Next ==
    \/ \E r \in Requests : GetLock(r) \/ Release(r) \/ ReleaseQueue(r)
    \/ Finished

Spec == Init /\ [][Next]_vars

-----------------------------------------------------------------------------
Statuses == {"idle", "waiting", "granted", "released", "left"}

TypeOK ==
    /\ locked \in BOOLEAN
    /\ queue \in Seq(Requests)
    /\ released \in [Requests -> BOOLEAN]
    /\ status \in [Requests -> Statuses]

(* Two clients never have the resource at the same time.                   *)
MutualExclusion ==
    \A r1, r2 \in Requests :
        status[r1] = "granted" /\ status[r2] = "granted" => r1 = r2

(* The lock is closed exactly while somebody has the resource: it is       *)
(* neither open under a holder nor closed for ever.                        *)
LockedIffHeld == locked <=> \E r \in Requests : status[r] = "granted"

(* The line of FairLock: the holder and the waiting requests behind it.    *)
Holder == CHOOSE r \in Requests : status[r] = "granted"
Line == IF locked THEN <<Holder>> \o queue ELSE <<>>
Served == {r \in Requests : status[r] \in {"released", "left"}}

FL == INSTANCE FairLock WITH line <- Line, served <- Served

(* The requests are served in the order of their calls, one at a time.     *)
ServedInOrder == FL!Spec
=============================================================================
