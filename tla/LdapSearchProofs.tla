-------------------------- MODULE LdapSearchProofs --------------------------
(***************************************************************************)
(* First the queue, for any set of requests: mutual exclusion, and that    *)
(* the requests are served in the order of FairLock.  Then the searches:   *)
(* every step of a search is a step of its LockingQueue, so that what is   *)
(* proved of the queue holds of the searches; with the phases of the       *)
(* searches, one search at a time is sent and none keeps the lock after    *)
(* its end, for any number of searches and LDAP clients.                   *)
(***************************************************************************)
EXTENDS LdapSearch, SequenceTheorems, TLAPS

(* The pending promises are exactly those in the queue, ...                *)
QueueInv ==
    /\ \A i \in 1..Len(queue) : status[queue[i]] = "waiting"
    /\ \A i, j \in 1..Len(queue) : queue[i] = queue[j] => i = j
    /\ \A r \in Requests :
          status[r] = "waiting" => \E i \in 1..Len(queue) : queue[i] = r

(* ... nobody waits for an open lock, and the flag of a release object     *)
(* says whether it was used.                                               *)
FlagInv ==
    /\ ~locked => queue = <<>>
    /\ \A r \in Requests : released[r] <=> status[r] = "released"

LockInv ==
    /\ TypeOK
    /\ QueueInv
    /\ FlagInv
    /\ MutualExclusion
    /\ LockedIffHeld
-----------------------------------------------------------------------------
LEMMA HeadAndTail ==
    ASSUME NEW S, NEW q \in Seq(S), q # <<>>
    PROVE  /\ Len(q) \in Nat \ {0}
           /\ Head(q) = q[1]
           /\ q[1] \in S
           /\ Tail(q) \in Seq(S)
           /\ Len(Tail(q)) = Len(q) - 1
           /\ \A i \in 1..Len(Tail(q)) : Tail(q)[i] = q[i + 1]
OBVIOUS

LEMMA InitLockInv == Init => LockInv
<1> SUFFICES ASSUME Init
             PROVE  LockInv
  OBVIOUS
<1>1. TypeOK
  <2>1. released \in [Requests -> BOOLEAN] /\ locked \in BOOLEAN
    BY Zenon DEF Init
  <2>2. queue \in Seq(Requests) /\ status \in [Requests -> Statuses]
    BY DEF Init, Statuses
  <2> QED
    BY <2>1, <2>2 DEF TypeOK
<1>2. QueueInv /\ MutualExclusion /\ LockedIffHeld
  BY DEF Init, QueueInv, MutualExclusion, LockedIffHeld
<1>3. FlagInv
  <2>1. \A r \in Requests : released[r] = FALSE /\ status[r] = "idle"
    BY DEF Init
  <2> QED
    BY <2>1 DEF Init, FlagInv
<1> QED
  BY <1>1, <1>2, <1>3 DEF LockInv

LEMMA GetLockInv ==
    ASSUME LockInv, NEW r \in Requests, GetLock(r)
    PROVE  LockInv'
<1> USE DEF LockInv, TypeOK, Statuses, QueueInv, FlagInv, MutualExclusion,
            LockedIffHeld
<1>1. CASE ~locked
  BY <1>1 DEF GetLock
<1>2. CASE locked
  <2>1. /\ queue' = Append(queue, r)
        /\ status' = [status EXCEPT ![r] = "waiting"]
        /\ locked' = locked
        /\ released' = released
        /\ status[r] = "idle"
    BY <1>2 DEF GetLock
  <2>2. /\ Len(queue) \in Nat
        /\ Len(queue') = Len(queue) + 1
        /\ queue'[Len(queue) + 1] = r
        /\ \A i \in 1..Len(queue) : queue'[i] = queue[i]
        /\ \A i \in 1..Len(queue) : queue[i] \in Requests /\ queue[i] # r
    BY <2>1
  <2>3. TypeOK'
    BY <2>1
  <2>4. QueueInv'
    BY <2>1, <2>2
  <2>5. FlagInv' /\ MutualExclusion' /\ LockedIffHeld'
    BY <2>1, <1>2
  <2> QED
    BY <2>3, <2>4, <2>5
<1> QED
  BY <1>1, <1>2

(* The flag of the release object that is used, or not used, still says so.*)
LEMMA FlagKept ==
    ASSUME TypeOK, NEW r \in Requests, NEW end \in {"released", "left"},
           \A q \in Requests : released[q] <=> status[q] = "released",
           released' = [released EXCEPT ![r] = (end = "released")],
           status'[r] = end,
           \A q \in Requests \ {r} :
              status'[q] = "released" <=> status[q] = "released"
    PROVE  \A q \in Requests : released'[q] <=> status'[q] = "released"
<1>1. released \in [Requests -> BOOLEAN]
  BY DEF TypeOK
<1>2. released'[r] = (end = "released")
  BY <1>1
<1>3. \A q \in Requests \ {r} : released'[q] = released[q]
  BY <1>1
<1> QED
  BY <1>2, <1>3

(* Both ways to give the resource back keep the invariant, when the one    *)
(* who has the resource uses them.                                         *)
LEMMA PassOnInv ==
    ASSUME LockInv, NEW r \in Requests, NEW end \in {"released", "left"},
           status[r] = "granted", PassOn(r, end),
           released' = [released EXCEPT ![r] = (end = "released")]
    PROVE  LockInv'
<1> USE DEF LockInv, TypeOK, Statuses, QueueInv, FlagInv, MutualExclusion,
            LockedIffHeld
<1>1. CASE queue = <<>>
  <2>1. /\ locked' = FALSE
        /\ status' = [status EXCEPT ![r] = end]
        /\ queue' = queue
    BY <1>1 DEF PassOn
  <2>2. TypeOK'
    BY <2>1
  <2>3. \A q \in Requests : status[q] # "waiting" /\ status'[q] # "granted"
    BY <1>1, <2>1
  <2>4. QueueInv' /\ MutualExclusion' /\ LockedIffHeld'
    BY <1>1, <2>1, <2>3
  <2>5. FlagInv'
    BY <1>1, <2>1, FlagKept
  <2> QED
    BY <2>2, <2>4, <2>5
<1>2. CASE queue # <<>>
  <2> DEFINE h == queue[1]
  <2>1. /\ Len(queue) \in Nat \ {0}
        /\ Head(queue) = h
        /\ h \in Requests
        /\ queue' \in Seq(Requests)
        /\ Len(queue') = Len(queue) - 1
        /\ \A i \in 1..Len(queue') : queue'[i] = queue[i + 1]
    <3>1. queue' = Tail(queue) /\ queue \in Seq(Requests)
      BY <1>2 DEF PassOn
    <3> QED
      BY <1>2, <3>1, HeadAndTail
  <2>2. /\ status[h] = "waiting"
        /\ h # r
    BY <2>1
  <2>3. /\ locked' = locked
        /\ locked
        /\ status' = [status EXCEPT ![r] = end, ![h] = "granted"]
    BY <1>2, <2>1 DEF PassOn
  <2>4. \A i \in 1..Len(queue') :
           /\ i + 1 \in 1..Len(queue)
           /\ i + 1 # 1
           /\ queue[i + 1] # h
           /\ queue[i + 1] # r
    BY <2>1, <2>2
  <2>5. TypeOK'
    BY <2>1, <2>3
  <2>6. QueueInv'
    <3>1. \A i \in 1..Len(queue') : status'[queue'[i]] = "waiting"
      BY <2>1, <2>3, <2>4
    <3>2. ASSUME NEW i \in 1..Len(queue'), NEW j \in 1..Len(queue'), queue'[i] = queue'[j]
          PROVE  i = j
      <4>1. i + 1 \in 1..Len(queue) /\ j + 1 \in 1..Len(queue) /\ i \in Nat /\ j \in Nat
        BY <2>1, <2>4
      <4>2. queue[i + 1] = queue[j + 1]
        BY <2>1, <3>2
      <4>3. i + 1 = j + 1
        BY <4>1, <4>2
      <4> QED
        BY <4>1, <4>3
    <3>3. ASSUME NEW q \in Requests, status'[q] = "waiting"
          PROVE  \E i \in 1..Len(queue') : queue'[i] = q
      <4>1. status[q] = "waiting" /\ q # h
        BY <2>1, <2>3, <3>3
      <4>2. PICK j \in 1..Len(queue) : queue[j] = q
        BY <4>1
      <4>3. j # 1 /\ j - 1 \in 1..Len(queue') /\ (j - 1) + 1 = j
        BY <2>1, <4>1, <4>2
      <4>4. queue'[j - 1] = queue[(j - 1) + 1]
        BY <2>1, <4>3
      <4> QED
        BY <4>2, <4>3, <4>4
    <3> QED
      BY <3>1, <3>2, <3>3
  <2>7. FlagInv' /\ MutualExclusion' /\ LockedIffHeld'
    <3>1. \A q \in Requests : status'[q] = "granted" <=> q = h
      BY <2>1, <2>2, <2>3
    <3>2. FlagInv'
      <4>1. status'[r] = end
        BY <2>2, <2>3
      <4>2. \A q \in Requests \ {r} :
               status'[q] = "released" <=> status[q] = "released"
        BY <2>1, <2>2, <2>3
      <4>3. \A q \in Requests : released'[q] <=> status'[q] = "released"
        BY <4>1, <4>2, FlagKept
      <4> QED
        BY <2>3, <4>3
    <3>3. MutualExclusion'
      BY <3>1
    <3>4. LockedIffHeld'
      <4>1. locked' /\ h \in Requests
        BY <2>1, <2>3
      <4> QED
        BY <3>1, <4>1
    <3> QED
      BY <3>2, <3>3, <3>4
  <2> QED
    BY <2>5, <2>6, <2>7
<1> QED
  BY <1>1, <1>2

LEMMA NextLockInv == LockInv /\ [Next]_vars => LockInv'
<1> SUFFICES ASSUME LockInv, [Next]_vars
             PROVE  LockInv'
  OBVIOUS
<1>1. ASSUME NEW r \in Requests, GetLock(r)
      PROVE  LockInv'
  BY <1>1, GetLockInv
<1>2. ASSUME NEW r \in Requests, Release(r)
      PROVE  LockInv'
  <2>1. CASE released[r]
    BY <1>2, <2>1 DEF Release, vars, LockInv, TypeOK, QueueInv, FlagInv,
                      MutualExclusion, LockedIffHeld
  <2>2. CASE ~released[r]
    <3>1. status[r] = "granted"
      BY <1>2, <2>2 DEF Release, LockInv, FlagInv
    <3>2. released' = [released EXCEPT ![r] = ("released" = "released")]
      BY <1>2, <2>2 DEF Release
    <3>3. PassOn(r, "released")
      BY <1>2, <2>2 DEF Release
    <3> QED
      BY <3>1, <3>2, <3>3, PassOnInv
  <2> QED
    BY <2>1, <2>2
<1>3. ASSUME NEW r \in Requests, ReleaseQueue(r)
      PROVE  LockInv'
  <2>1. status[r] = "granted" /\ released[r] = FALSE
    BY <1>3 DEF ReleaseQueue, LockInv, FlagInv, TypeOK
  <2>2. released' = [released EXCEPT ![r] = ("left" = "released")]
    BY <1>3, <2>1 DEF ReleaseQueue, LockInv, TypeOK
  <2>3. PassOn(r, "left")
    BY <1>3 DEF ReleaseQueue
  <2> QED
    BY <2>1, <2>2, <2>3, PassOnInv
<1>4. CASE UNCHANGED vars
  BY <1>4 DEF vars, LockInv, TypeOK, QueueInv, FlagInv, MutualExclusion,
              LockedIffHeld
<1> QED
  BY <1>1, <1>2, <1>3, <1>4 DEF Next, Finished

(* The queue, the lock and the promises agree in every reachable state.    *)
LEMMA Invariance == Spec => []LockInv
<1> QED
  BY InitLockInv, NextLockInv, PTL DEF Spec

(* Two clients never have the resource of a lockingQueue at the same time, *)
(* however many call getLock and however often they release.               *)
THEOREM MutualExclusionTheorem == Spec => []MutualExclusion
<1>1. LockInv => MutualExclusion
  BY DEF LockInv
<1> QED
  BY <1>1, Invariance, PTL

(* The lock is never left closed without a holder, nor open under one.     *)
THEOREM LockedTheorem == Spec => []LockedIffHeld
<1>1. LockInv => LockedIffHeld
  BY DEF LockInv
<1> QED
  BY <1>1, Invariance, PTL

(* locked, queue, the flags and the promises keep their types.             *)
THEOREM TypeCorrect == Spec => []TypeOK
<1>1. LockInv => TypeOK
  BY DEF LockInv
<1> QED
  BY <1>1, Invariance, PTL
-----------------------------------------------------------------------------
LEMMA TheHolder ==
    ASSUME NEW st, NEW h \in Requests, st[h] = "granted",
           \A q \in Requests : st[q] = "granted" => q = h
    PROVE  (CHOOSE q \in Requests : st[q] = "granted") = h
OBVIOUS

LEMMA LineOf ==
    ASSUME LockInv, NEW h \in Requests, status[h] = "granted"
    PROVE  /\ locked
           /\ Line = <<h>> \o queue
           /\ Line \in Seq(Requests)
           /\ Line # <<>>
           /\ Head(Line) = h
           /\ Tail(Line) = queue
<1>1. locked
  BY DEF LockInv, LockedIffHeld
<1>2. \A q \in Requests : status[q] = "granted" => q = h
  BY DEF LockInv, MutualExclusion
<1>3. Holder = h
  BY <1>2, TheHolder DEF Holder
<1>4. Line = <<h>> \o queue
  BY <1>1, <1>3 DEF Line
<1>5. queue \in Seq(Requests) /\ <<h>> \in Seq(Requests)
  BY DEF LockInv, TypeOK
<1>6. /\ Line \in Seq(Requests)
      /\ Len(Line) = Len(queue) + 1
      /\ Len(queue) \in Nat
      /\ Line[1] = h
      /\ \A i \in 1..Len(queue) : Line[i + 1] = queue[i]
  <2>1. Len(<<h>>) = 1 /\ <<h>>[1] = h /\ Len(queue) \in Nat
    BY <1>5
  <2>2. /\ Line \in Seq(Requests)
        /\ Len(Line) = 1 + Len(queue)
        /\ \A i \in 1..(1 + Len(queue)) :
              Line[i] = IF i <= 1 THEN <<h>>[i] ELSE queue[i - 1]
    BY <1>4, <1>5, <2>1, ConcatProperties
  <2> QED
    BY <2>1, <2>2
<1>7. Line # <<>> /\ Head(Line) = h
  BY <1>6
<1>8. Tail(Line) = queue
  <2>1. /\ Tail(Line) \in Seq(Requests)
        /\ Len(Tail(Line)) = Len(queue)
        /\ \A i \in 1..Len(Tail(Line)) : Tail(Line)[i] = Line[i + 1]
    BY <1>6, <1>7, HeadTailProperties
  <2> QED
    BY <1>5, <1>6, <2>1, SeqEqual
<1> QED
  BY <1>1, <1>4, <1>6, <1>7, <1>8

(* A call of getLock puts its request at the end of the line.              *)
LEMMA GetLockJoins ==
    ASSUME LockInv, LockInv', NEW r \in Requests, GetLock(r)
    PROVE  FL!Join(r)
<1>1. status[r] = "idle" /\ Served' = Served /\ r \notin Served
  BY DEF GetLock, Served, LockInv, TypeOK
<1>2. CASE ~locked
  <2>1. Line = <<>> /\ queue = <<>> /\ queue' = queue
    BY <1>2 DEF Line, GetLock, LockInv, FlagInv
  <2>2. locked' /\ status'[r] = "granted"
    BY <1>2 DEF GetLock, LockInv, TypeOK
  <2>3. \A q \in Requests : status'[q] = "granted" => q = r
    BY <2>2 DEF LockInv, MutualExclusion
  <2>4. Holder' = r
    BY <2>2, <2>3, TheHolder DEF Holder
  <2>5. Line' = <<r>> \o <<>>
    BY <2>1, <2>2, <2>4 DEF Line
  <2>6. Line' = Append(Line, r)
    BY <2>1, <2>5
  <2> QED
    BY <1>1, <2>1, <2>6 DEF FL!Join, FL!InLine
<1>3. CASE locked
  <2>1. PICK h \in Requests : status[h] = "granted"
    BY <1>3 DEF LockInv, LockedIffHeld
  <2>2. Line = <<h>> \o queue /\ Line \in Seq(Requests)
    BY <2>1, LineOf
  <2>3. /\ queue' = Append(queue, r)
        /\ locked'
        /\ status' = [status EXCEPT ![r] = "waiting"]
    BY <1>3 DEF GetLock
  <2>4. Holder' = h
    <3>1. h # r /\ status'[h] = "granted"
      BY <1>1, <2>1, <2>3 DEF LockInv, TypeOK
    <3>2. \A q \in Requests : status'[q] = "granted" => q = h
      BY <3>1 DEF LockInv, MutualExclusion
    <3> QED
      BY <3>1, <3>2, TheHolder DEF Holder
  <2>5. Line' = Append(Line, r)
    <3>1. queue \in Seq(Requests) /\ <<h>> \in Seq(Requests)
          /\ <<r>> \in Seq(Requests)
      BY DEF LockInv, TypeOK
    <3>2. Line' = <<h>> \o Append(queue, r)
      BY <2>3, <2>4 DEF Line
    <3>3. Append(queue, r) = queue \o <<r>>
      BY <3>1, AppendIsConcat
    <3>4. Append(Line, r) = Line \o <<r>>
      BY <2>2, AppendIsConcat
    <3>5. (<<h>> \o queue) \o <<r>> = <<h>> \o (queue \o <<r>>)
      BY <3>1, ConcatAssociative
    <3> QED
      BY <2>2, <3>2, <3>3, <3>4, <3>5
  <2>6. ~FL!InLine(r)
    <3>1. ASSUME NEW i \in 1..Len(Line)
          PROVE  Line[i] # r
      <4>1. Line # <<>> /\ Head(Line) = h /\ Tail(Line) = queue
        BY <2>1, LineOf
      <4>2. Len(Line) \in Nat \ {0} /\ Line[1] = h
            /\ Len(queue) = Len(Line) - 1
            /\ \A k \in 1..Len(queue) : queue[k] = Line[k + 1]
        BY <2>2, <4>1, HeadTailProperties
      <4>3. CASE i = 1
        BY <1>1, <2>1, <4>2, <4>3
      <4>4. CASE i # 1
        <5>1. i - 1 \in 1..Len(queue) /\ (i - 1) + 1 = i
          BY <4>2, <4>4
        <5>2. queue[i - 1] = Line[i]
          BY <4>2, <5>1
        <5>3. status[queue[i - 1]] = "waiting"
          BY <5>1 DEF LockInv, QueueInv
        <5> QED
          BY <1>1, <5>2, <5>3
      <4> QED
        BY <4>3, <4>4
    <3>2. DOMAIN Line = 1..Len(Line)
      BY <2>2
    <3> QED
      BY <3>1, <3>2 DEF FL!InLine
  <2> QED
    BY <1>1, <2>5, <2>6 DEF FL!Join
<1> QED
  BY <1>2, <1>3

(* Giving the resource back takes the first of the line out of it.         *)
LEMMA PassOnLeaves ==
    ASSUME LockInv, LockInv', NEW r \in Requests, NEW end \in {"released", "left"},
           status[r] = "granted", PassOn(r, end)
    PROVE  FL!Leave
<1>1. Line # <<>> /\ Head(Line) = r /\ Tail(Line) = queue /\ locked
  BY LineOf
<1>2. CASE queue = <<>>
  <2>1. ~locked' /\ status' = [status EXCEPT ![r] = end]
    BY <1>2 DEF PassOn
  <2>2. Line' = Tail(Line)
    BY <1>1, <1>2, <2>1 DEF Line
  <2>3. Served' = Served \cup {r}
    BY <2>1 DEF Served, LockInv, TypeOK
  <2> QED
    BY <1>1, <2>2, <2>3 DEF FL!Leave
<1>3. CASE queue # <<>>
  <2> DEFINE h == queue[1]
  <2>1. queue \in Seq(Requests)
    BY DEF LockInv, TypeOK
  <2>2. Len(queue) \in Nat \ {0} /\ Head(queue) = h /\ h \in Requests
    BY <1>3, <2>1, HeadAndTail
  <2>3. status[h] = "waiting"
    BY <2>2 DEF LockInv, QueueInv
  <2>4. /\ queue' = Tail(queue)
        /\ locked' = locked
        /\ status' = [status EXCEPT ![r] = end, ![h] = "granted"]
    BY <1>3, <2>2 DEF PassOn
  <2>5. Holder' = h
    <3>1. status'[h] = "granted"
      BY <2>2, <2>4 DEF LockInv, TypeOK
    <3>2. \A q \in Requests : status'[q] = "granted" => q = h
      BY <2>2, <3>1 DEF LockInv, MutualExclusion
    <3> QED
      BY <2>2, <3>1, <3>2, TheHolder DEF Holder
  <2>6. Line' = <<h>> \o Tail(queue)
    BY <1>1, <2>4, <2>5 DEF Line
  <2>7. <<h>> \o Tail(queue) = queue
    <3>1. <<h>> \in Seq(Requests) /\ Len(<<h>>) = 1 /\ <<h>>[1] = h
      BY <2>2
    <3>2. /\ Tail(queue) \in Seq(Requests)
          /\ Len(Tail(queue)) = Len(queue) - 1
          /\ \A i \in 1..Len(Tail(queue)) : Tail(queue)[i] = queue[i + 1]
      BY <1>3, <2>1, HeadAndTail
    <3>3. /\ <<h>> \o Tail(queue) \in Seq(Requests)
          /\ Len(<<h>> \o Tail(queue)) = 1 + (Len(queue) - 1)
          /\ \A i \in 1..(1 + (Len(queue) - 1)) :
                (<<h>> \o Tail(queue))[i] =
                    IF i <= 1 THEN <<h>>[i] ELSE Tail(queue)[i - 1]
      BY <3>1, <3>2, ConcatProperties
    <3>4. ASSUME NEW i \in 1..Len(queue)
          PROVE  (<<h>> \o Tail(queue))[i] = queue[i]
      <4>1. CASE i = 1
        BY <2>2, <3>1, <3>3, <4>1
      <4>2. CASE i # 1
        <5>1. i - 1 \in 1..Len(Tail(queue)) /\ (i - 1) + 1 = i
          BY <2>2, <3>2, <4>2
        <5>2. Tail(queue)[i - 1] = queue[(i - 1) + 1]
          BY <3>2, <5>1
        <5>3. (<<h>> \o Tail(queue))[i] = Tail(queue)[i - 1]
          BY <2>2, <3>3, <4>2
        <5> QED
          BY <5>1, <5>2, <5>3
      <4> QED
        BY <4>1, <4>2
    <3>5. Len(<<h>> \o Tail(queue)) = Len(queue)
      BY <2>2, <3>3
    <3> QED
      BY <2>1, <3>3, <3>4, <3>5, SeqEqual
  <2>8. Served' = Served \cup {r}
    BY <2>2, <2>3, <2>4 DEF Served, LockInv, TypeOK
  <2> QED
    BY <1>1, <2>6, <2>7, <2>8 DEF FL!Leave
<1> QED
  BY <1>2, <1>3

LEMMA InitRefines == Init => FL!Init
<1> SUFFICES ASSUME Init
             PROVE  FL!Init
  OBVIOUS
<1>1. Line = <<>>
  BY DEF Init, Line
<1>2. Served = {}
  BY DEF Init, Served
<1> QED
  BY <1>1, <1>2 DEF FL!Init

LEMMA NextRefines == LockInv /\ LockInv' /\ [Next]_vars => [FL!Next]_FL!vars
<1> SUFFICES ASSUME LockInv, LockInv', [Next]_vars
             PROVE  [FL!Next]_FL!vars
  OBVIOUS
<1>1. ASSUME NEW r \in Requests, GetLock(r)
      PROVE  FL!Next
  BY <1>1, GetLockJoins DEF FL!Next
<1>2. ASSUME UNCHANGED vars
      PROVE  UNCHANGED FL!vars
  <2>1. locked' = locked /\ queue' = queue /\ status' = status
    BY <1>2 DEF vars
  <2>2. Holder' = Holder
    BY <2>1 DEF Holder
  <2> QED
    BY <2>1, <2>2 DEF FL!vars, Line, Served
<1>3. ASSUME NEW r \in Requests, Release(r)
      PROVE  [FL!Next]_FL!vars
  <2>1. CASE released[r]
    BY <1>2, <1>3, <2>1 DEF Release
  <2>2. CASE ~released[r]
    <3>1. status[r] = "granted" /\ PassOn(r, "released")
      BY <1>3, <2>2 DEF Release, LockInv, FlagInv
    <3> QED
      BY <3>1, PassOnLeaves DEF FL!Next
  <2> QED
    BY <2>1, <2>2
<1>4. ASSUME NEW r \in Requests, ReleaseQueue(r)
      PROVE  FL!Next
  <2>1. status[r] = "granted" /\ PassOn(r, "left")
    BY <1>4 DEF ReleaseQueue
  <2> QED
    BY <2>1, PassOnLeaves DEF FL!Next
<1> QED
  BY <1>1, <1>2, <1>3, <1>4 DEF Next, Finished

(* The locking queue implements FairLock: whatever its users do, they are  *)
(* served one at a time and in the order of their calls of getLock.        *)
THEOREM Refinement == Spec => ServedInOrder
<1> QED
  BY InitRefines, NextRefines, Invariance, PTL DEF Spec, ServedInOrder, FL!Spec
-----------------------------------------------------------------------------
(* The searches.                                                           *)

Phases == {"idle", "connecting", "locking", "searching", "resolved", "rejected"}

(* A search is sent by the one who has the lock; who waits for the lock or *)
(* has it has called getLock, and has not ended.                           *)
SearcherHasLock ==
    \A s \in Requests : phase[s] = "searching" => status[s] = "granted"

WaiterIsLocking ==
    \A s \in Requests : status[s] = "waiting" => phase[s] = "locking"

LockIsUsed ==
    \A s \in Requests : status[s] = "granted" => phase[s] \in {"locking", "searching"}

SearchInv ==
    /\ LockInv
    /\ phase \in [Requests -> Phases]
    /\ SearcherHasLock
    /\ WaiterIsLocking
    /\ LockIsUsed
-----------------------------------------------------------------------------
LEMMA SearchIsRequest == [SearchNext]_searchVars => [Next]_vars
<1> SUFFICES ASSUME [SearchNext]_searchVars
             PROVE  [Next]_vars
  OBVIOUS
<1>1. ASSUME NEW s \in Requests, ReuseClient(s) \/ AddClient(s)
      PROVE  Next
  BY <1>1 DEF ReuseClient, AddClient, Next
<1>2. ASSUME NEW s \in Requests, SearchThrows(s) \/ End(s) \/ SearchFails(s) \/ LateEnd(s)
      PROVE  Next
  BY <1>2 DEF SearchThrows, End, SearchFails, LateEnd, HandleError, Next
<1>3. ASSUME NEW s \in Requests, Connect(s) \/ ConnectFails(s) \/ Search(s)
      PROVE  UNCHANGED vars
  BY <1>3 DEF Connect, ConnectFails, Search
<1>4. ASSUME Disconnect \/ \E k \in Connections : ConnectionLost(k) \/ Reconnect(k)
      PROVE  UNCHANGED vars
  BY <1>4 DEF Disconnect, ConnectionLost, Reconnect
<1>5. CASE UNCHANGED searchVars
  BY <1>5 DEF searchVars
<1> QED
  BY <1>1, <1>2, <1>3, <1>4, <1>5 DEF SearchNext, Step

LEMMA SearchInit_Inv == SearchInit => SearchInv
<1> SUFFICES ASSUME SearchInit
             PROVE  SearchInv
  OBVIOUS
<1>1. LockInv
  BY InitLockInv DEF SearchInit
<1>2. \A s \in Requests : status[s] = "idle" /\ phase[s] = "idle"
  BY DEF SearchInit, Init
<1>3. phase \in [Requests -> Phases]
  BY DEF SearchInit, Phases
<1> QED
  BY <1>1, <1>2, <1>3 DEF SearchInv, SearcherHasLock, WaiterIsLocking, LockIsUsed

(* What the caller of getLock and of releaseLock may count on.             *)
LEMMA GetLockEffect ==
    ASSUME LockInv, NEW s \in Requests, GetLock(s)
    PROVE  /\ status'[s] \in {"waiting", "granted"}
           /\ \A r \in Requests \ {s} : status'[r] = status[r]
BY DEF GetLock, LockInv, TypeOK

LEMMA ReleaseEffect ==
    ASSUME LockInv, NEW s \in Requests, Release(s)
    PROVE  /\ status'[s] = "released"
           /\ \A r \in Requests \ {s} :
                 \/ status'[r] = status[r]
                 \/ status[r] = "waiting" /\ status'[r] = "granted"
<1>t. status \in [Requests -> Statuses]
  BY DEF LockInv, TypeOK
<1>1. CASE released[s]
  BY <1>1 DEF Release, vars, LockInv, FlagInv
<1>2. CASE ~released[s] /\ queue = <<>>
  BY <1>2, <1>t DEF Release, PassOn
<1>3. CASE ~released[s] /\ queue # <<>>
  <2>1. status' = [status EXCEPT ![s] = "released", ![Head(queue)] = "granted"]
    BY <1>3 DEF Release, PassOn
  <2>2. 1 \in 1..Len(queue) /\ Head(queue) = queue[1] /\ queue[1] \in Requests
    BY <1>3, HeadAndTail DEF LockInv, TypeOK
  <2>3. status[Head(queue)] = "waiting"
    BY <2>2 DEF LockInv, QueueInv
  <2>4. Head(queue) # s
    BY <2>3 DEF Release
  <2> QED
    BY <2>1, <2>2, <2>3, <2>4, <1>t
<1> QED
  BY <1>1, <1>2, <1>3

LEMMA SearchStep == SearchInv /\ [SearchNext]_searchVars => SearchInv'
<1> SUFFICES ASSUME SearchInv, [SearchNext]_searchVars
             PROVE  SearchInv'
  OBVIOUS
<1>l. LockInv /\ LockInv'
  BY SearchIsRequest, NextLockInv DEF SearchInv
<1> USE DEF SearcherHasLock, WaiterIsLocking, LockIsUsed, Phases
<1>p. phase \in [Requests -> Phases]
  BY DEF SearchInv
<1>i. SearcherHasLock /\ WaiterIsLocking /\ LockIsUsed
  BY DEF SearchInv
<1> SUFFICES (phase \in [Requests -> Phases])' /\ SearcherHasLock' /\ WaiterIsLocking' /\ LockIsUsed'
  BY <1>l DEF SearchInv
<1>1. ASSUME NEW s \in Requests, ReuseClient(s) \/ AddClient(s)
      PROVE  (phase \in [Requests -> Phases])' /\ SearcherHasLock' /\ WaiterIsLocking' /\ LockIsUsed'
  <2>1. GetLock(s) /\ phase' = [phase EXCEPT ![s] = "locking"]
    BY <1>1 DEF ReuseClient, AddClient, Enter
  <2> QED
    BY <2>1, <1>l, <1>p, <1>i, GetLockEffect
<1>2. ASSUME NEW s \in Requests, SearchThrows(s) \/ End(s) \/ SearchFails(s)
      PROVE  (phase \in [Requests -> Phases])' /\ SearcherHasLock' /\ WaiterIsLocking' /\ LockIsUsed'
  <2>1. Release(s)
    BY <1>2 DEF SearchThrows, End, SearchFails, HandleError
  <2>2. PICK p \in {"resolved", "rejected"} : phase' = [phase EXCEPT ![s] = p]
    BY <1>2 DEF SearchThrows, End, SearchFails, HandleError, Enter
  <2> QED
    BY <2>1, <2>2, <1>l, <1>p, <1>i, ReleaseEffect
<1>3. ASSUME NEW s \in Requests, LateEnd(s)
      PROVE  (phase \in [Requests -> Phases])' /\ SearcherHasLock' /\ WaiterIsLocking' /\ LockIsUsed'
  <2>1. Release(s) /\ phase' = phase /\ phase[s] = "rejected"
    BY <1>3 DEF LateEnd
  <2> QED
    BY <2>1, <1>l, <1>p, <1>i, ReleaseEffect
<1>4. ASSUME NEW s \in Requests, Connect(s)
      PROVE  (phase \in [Requests -> Phases])' /\ SearcherHasLock' /\ WaiterIsLocking' /\ LockIsUsed'
  <2>1. phase[s] = "idle" /\ phase' = [phase EXCEPT ![s] = "connecting"] /\ status' = status
    BY <1>4 DEF Connect, Enter, vars
  <2> QED
    BY <2>1, <1>p, <1>i
<1>5. ASSUME NEW s \in Requests, ConnectFails(s)
      PROVE  (phase \in [Requests -> Phases])' /\ SearcherHasLock' /\ WaiterIsLocking' /\ LockIsUsed'
  <2>1. phase[s] = "connecting" /\ phase' = [phase EXCEPT ![s] = "rejected"] /\ status' = status
    BY <1>5 DEF ConnectFails, Enter, vars
  <2> QED
    BY <2>1, <1>p, <1>i
<1>6. ASSUME NEW s \in Requests, Search(s)
      PROVE  (phase \in [Requests -> Phases])' /\ SearcherHasLock' /\ WaiterIsLocking' /\ LockIsUsed'
  <2>1. status[s] = "granted" /\ phase' = [phase EXCEPT ![s] = "searching"] /\ status' = status
    BY <1>6 DEF Search, Enter, vars
  <2> QED
    BY <2>1, <1>p, <1>i
<1>7. ASSUME \/ Disconnect \/ UNCHANGED searchVars
             \/ \E k \in Connections : ConnectionLost(k) \/ Reconnect(k)
      PROVE  (phase \in [Requests -> Phases])' /\ SearcherHasLock' /\ WaiterIsLocking' /\ LockIsUsed'
  <2>1. phase' = phase /\ status' = status
    BY <1>7 DEF Disconnect, ConnectionLost, Reconnect, searchVars, vars
  <2> QED
    BY <2>1, <1>p, <1>i
<1> QED
  BY <1>1, <1>2, <1>3, <1>4, <1>5, <1>6, <1>7 DEF SearchNext, Step

LEMMA SearchInvariance == SearchSpec => []SearchInv
<1> QED
  BY SearchInit_Inv, SearchStep, PTL DEF SearchSpec

(* One search at a time is sent to the server of a url, by the one who has *)
(* the lock, however clients are replaced, lost and destroyed.             *)
THEOREM OneSearchTheorem == SearchSpec => []OneSearchAtATime
<1>1. SearchInv => OneSearchAtATime
  BY DEF SearchInv, SearcherHasLock, LockInv, MutualExclusion, OneSearchAtATime
<1> QED
  BY <1>1, SearchInvariance, PTL

(* No search keeps the lock after it was answered or rejected, whichever   *)
(* of its errors came first and however often it releases.                 *)
THEOREM LockIsUsedTheorem == SearchSpec => []LockIsUsed
<1>1. SearchInv => LockIsUsed
  BY DEF SearchInv
<1> QED
  BY <1>1, SearchInvariance, PTL

(* The searches get the lock in the order in which they asked for it.      *)
THEOREM SearchesServedInOrder == SearchSpec => ServedInOrder
<1>1. SearchInit => Init
  BY DEF SearchInit
<1> QED
  BY <1>1, SearchIsRequest, Refinement, PTL DEF SearchSpec, Spec
=============================================================================
