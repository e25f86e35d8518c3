------------------------------ MODULE FairLock ------------------------------
(* What the header of lockingQueue.js promises: the requests for the       *)
(* resource stand in one line, the first has the resource, and releasing   *)
(* it gives the resource to the next.                                      *)
EXTENDS Sequences

CONSTANT Requests       \* calls of getLock

VARIABLES
    line,               \* the requests, in the order of their calls
    served              \* the requests that have given the resource back

vars == <<line, served>>

InLine(r) == \E i \in DOMAIN line : line[i] = r

Init == line = <<>> /\ served = {}

Join(r) ==
    /\ ~InLine(r) /\ r \notin served
    /\ line' = Append(line, r)
    /\ UNCHANGED served

Leave ==
    /\ line # <<>>
    /\ line' = Tail(line)
    /\ served' = served \cup {Head(line)}

Next == Leave \/ \E r \in Requests : Join(r)

Spec == Init /\ [][Next]_vars
=============================================================================
