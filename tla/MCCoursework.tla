---------------------------- MODULE MCCoursework ----------------------------
(* Instances of Coursework for TLC: three overlapping classes of two       *)
(* students, and a homework that both may submit.                          *)
EXTENDS Coursework, TLC

CONSTANTS s1, s2, c1, c2, c3

MCMembers == [c \in Classes |-> IF c = c1 THEN {s1} ELSE IF c = c2 THEN {s1, s2} ELSE {s2}]

(* The places for requests are alike.                                      *)
Symmetry == Permutations(Edits) \cup Permutations(Calls)
=============================================================================
