---------------------------- MODULE MCActivation ----------------------------
(* Instances of Activation for TLC: two users and an address nobody has.   *)
EXTENDS Activation, TLC

CONSTANTS u1, u2, e1, e2, e3

MCInitEmail == [u \in Users |-> IF u = u1 THEN e1 ELSE e2]

(* Requests are alike, and so are the two users with their addresses.      *)
SwapUsers == (u1 :> u2 @@ u2 :> u1 @@ e1 :> e2 @@ e2 :> e1 @@ e3 :> e3)
KeepUsers == [x \in {u1, u2, e1, e2, e3} |-> x]
MCSymmetry == {p @@ q : p \in Permutations(Requests), q \in {KeepUsers, SwapUsers}}
=============================================================================
