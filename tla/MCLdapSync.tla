----------------------------- MODULE MCLdapSync -----------------------------
(* Instances of LdapSync for TLC: a student and a teacher in one class,    *)
(* who may belong to different schools or have the same email.             *)
EXTENDS LdapSync

CONSTANTS p1, p2, s1, s2, k1

MCRole == [p \in People |-> IF p = p1 THEN "student" ELSE "teacher"]
MCOneSchool == [p \in People |-> s1]
MCTwoSchools == [p \in People |-> IF p = p1 THEN s1 ELSE s2]
MCOwnEmail == [p \in People |-> p]
MCSameEmail == [p \in People |-> p1]
MCClassSchool == [k \in LdapClasses |-> s1]
MCMembers == [k \in LdapClasses |-> People]
=============================================================================
