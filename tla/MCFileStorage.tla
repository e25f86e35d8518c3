--------------------------- MODULE MCFileStorage ---------------------------
(* A teacher and a student of two schools, in one course and one team.     *)
EXTENDS FileStorage, TLC

CONSTANTS Ann, Bob, Maths, Home, Other, p1, p2

MCUsers == {Ann, Bob}
MCSchool == (Ann :> Home) @@ (Bob :> Other)
MCTeamRole == (Ann :> "teamowner") @@ (Bob :> "teammember")
MCMembers == Maths :> {Ann, Bob}
MCMaxBuckets == (p1 :> 2) @@ (p2 :> 1)
Symmetry == Permutations(Requests)
=============================================================================
