-------------------------- MODULE FilePermissions --------------------------
(***************************************************************************)
(* Who may do what with a file or directory: createDefaultPermissions and  *)
(* checkPermissions of src/services/fileStorage/utils, and the update of   *)
(* the permissions by the service fileStorage/permission.                  *)
(***************************************************************************)
EXTENDS Naturals, FiniteSets

CONSTANTS
    Users, Courses, Team,
    Students,               \* users with the role student
    CourseMembers           \* teachers, substitutions and students of a course

ASSUME FilePermissionsAssumption ==
    /\ Students \subseteq Users
    /\ CourseMembers \in [Courses -> SUBSET Users]

Rights == {"read", "write", "create", "delete"}
NoRole == "none"

(* The roles of teams, each with those it inherits from; teamexpert stands *)
(* alone.  sortRoles ranks them by the length of the way up.               *)
Chain == <<"teammember", "teamleader", "teamadministrator", "teamowner">>
TeamRoles == {"teamexpert"} \cup {Chain[i] : i \in DOMAIN Chain}
Position(role) == IF role = "teamexpert" THEN 1 ELSE CHOOSE i \in DOMAIN Chain : Chain[i] = role
Inherited(role) == IF role = "teamexpert" THEN {role} ELSE {Chain[i] : i \in 1..Position(role)}

Refs == Users \cup TeamRoles \cup {"student", "teacher"}

OwnerModel(owner) ==
    CASE owner \in Users -> "user" [] owner \in Courses -> "course" [] owner = Team -> "teams"

(* The permissions of a new file: entries of the creator, and of the roles *)
(* of a course or of a team, which is asked for its defaults.              *)
DefaultPermissions(u, owner, studentCanEdit, teamDefaults) ==
    LET roles == CASE OwnerModel(owner) = "user" -> {}
                   [] OwnerModel(owner) = "course" -> {"student", "teacher"}
                   [] OwnerModel(owner) = "teams" -> TeamRoles
    IN  [ref \in {u} \cup roles |->
            CASE ref = u -> Rights
              [] ref = "student" -> {"read"} \cup (IF studentCanEdit THEN {"write"} ELSE {})
              [] ref = "teacher" -> {"read", "write"}
              [] OTHER -> teamDefaults[ref]]

(* patch: the entries that are sent replace or join those of the file.     *)
Merged(permissions, sent) ==
    [ref \in DOMAIN permissions \cup DOMAIN sent |->
        IF ref \in DOMAIN sent THEN sent[ref] ELSE permissions[ref]]

HasEntry(ref, file) == ref \in DOMAIN file.permissions
Granted(ref, right, file) == HasEntry(ref, file) /\ right \in file.permissions[ref]

(* A member of a course: students need the entry of their role.            *)
MayInCourse(right, u, file) ==
    /\ u \in CourseMembers[file.owner]
    /\ u \in Students => Granted("student", right, file)

(* A member of a team: either of a higher role than the creator, or with   *)
(* the entry of the first role on the way up that has one.  Without the    *)
(* creator in the team, the comparison throws.                             *)
MayInTeam(right, u, file, role) ==
    LET entries == {r \in Inherited(role[u]) : HasEntry(r, file)}
        first == CHOOSE r \in entries : \A q \in entries : Position(q) <= Position(r)
    IN  /\ role[u] # NoRole /\ role[file.creator] # NoRole
        /\ \/ Position(role[u]) > Position(role[file.creator])
           \/ entries # {} /\ right \in file.permissions[first]

(* checkPermissions for a file of no submission and no homework.  role     *)
(* gives the roles in the team.  An owner that is not found throws.        *)
May(right, u, file, role) ==
    \/ file.owner = u
    \/ /\ file.owner \in Users \cup Courses \cup {Team}
       /\ \/ Granted(u, right, file)
          \/ file.owner \in Courses /\ MayInCourse(right, u, file)
          \/ file.owner = Team /\ MayInTeam(right, u, file, role)
=============================================================================
