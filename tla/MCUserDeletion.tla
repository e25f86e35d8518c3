--------------------------- MODULE MCUserDeletion ---------------------------
(* Instances of UserDeletion for TLC: two deletions of the same or of      *)
(* different users of one school, who share the documents they refer to.   *)
EXTENDS UserDeletion, TLC

CONSTANTS t1, t2, u1, u2, s1, s2, a1, a2, i1, i2

MCSchoolOf == [u \in Users |-> s1]
MCTwoSchools == [u \in Users |-> IF u = u1 THEN s1 ELSE s2]
MCOwnerOf == [a \in Accounts |-> IF a = a1 THEN u1 ELSE u2]
MCOneLesson == [i \in Items |-> "lesson"]

(* u1 owns the file i1; every other document refers to every user.         *)
Shared == [s \in Scopes |-> IF s = "files" THEN {i1} \X {u1}
                                           ELSE Items \X Users]
Nothing == [s \in Scopes |-> {}]
MCShared == {Shared, Nothing}
(* Each user owns a file.                                                  *)
MCFull == {[s \in Scopes |-> IF s = "files" THEN {<<i1, u1>>, <<i2, u2>>}
                                           ELSE {i1} \X Users]}

(* One function of each shape; the plain functions are all alike.          *)
MCSteps == <<"pseudonyms", "filePermission", "files", "lessons", "messenger">>
MCFewSteps == <<"classes", "files", "messenger">>

(* The two tasks are called alike; no definition tells them apart.         *)
Symmetry == Permutations({t1, t2})
=============================================================================
