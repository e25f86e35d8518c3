------------------------------ MODULE MCTeams ------------------------------
(* Two teachers of a school, a teacher of another, and an expert.          *)
EXTENDS Teams, TLC

CONSTANTS Ann, Bob, Cem, Eva, Home, Other, Experts

MCUsers == {Ann, Bob, Cem, Eva}
MCSchools == {Home, Other, Experts}
MCSchool == (Ann :> Home) @@ (Bob :> Home) @@ (Cem :> Other) @@ (Eva :> Experts)
MCTeachers == {Ann, Bob, Cem}
Symmetry == Permutations(Requests)
=============================================================================
