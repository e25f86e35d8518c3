------------------------------- MODULE Teams -------------------------------
(***************************************************************************)
(* A team over several schools (src/services/teams): creation, external    *)
(* patches with their permission routing, invitations by id and by email,  *)
(* their acceptance and withdrawal, the administration of a school, and    *)
(* the reaction to removed users.                                          *)
(*                                                                         *)
(* Every service reads the team, computes whole arrays from what it read   *)
(* and patches them: an action is the code between two awaits with the one *)
(* command it waits for.  There is no superhero among the users, and a     *)
(* request that lacks a permission of its user's school role is not sent.  *)
(***************************************************************************)
EXTENDS Naturals, SequencesExt

CONSTANTS
    Users, Schools,
    School,             \* the school of a user
    Teachers,           \* users with the role teacher: they create, are imported
    Strangers,          \* users that exist only once they are invited by email
    Nobody,             \* what populating a removed user yields
    Requests,           \* bound: the requests that are under way at once
    ForeignUsers,       \* the forms of creations and administrators may name
                        \* users of other schools (the services do not check)
    MaxRequests         \* bound: how many are sent, the creation included

ASSUME TeamsAssumption ==
    /\ School \in [Users -> Schools]
    /\ Teachers \subseteq Users /\ Strangers \subseteq Users
    /\ Nobody \notin Users
    /\ IsFiniteSet(Users) /\ Schools # {}
    /\ MaxRequests \in Nat \ {0} /\ ForeignUsers \in BOOLEAN

VARIABLES
    exists,             \* the document is in the collection
    members,            \* team.userIds
    invited,            \* team.invitedUserIds
    schoolIds,          \* team.schoolIds
    home,               \* team.schoolId
    known,              \* users in the users collection
    req,                \* the requests
    sent,               \* how many requests have been sent
    overlapped          \* history: a request ended after a change it did not read

team == <<exists, members, invited, schoolIds, home>>
vars == <<team, known, req, sent, overlapped>>
-----------------------------------------------------------------------------
(* Roles of a team and their permissions along the chain of inheritance.   *)
Hierarchy == <<"teammember", "teamleader", "teamadministrator", "teamowner">>
TeamRoles == {Hierarchy[i] : i \in 1..4} \cup {"teamexpert"}
InvitedRoles == {"teamexpert", "teamadministrator"}

OwnPermissions ==
    [teammember        |-> {"LEAVE_TEAM"},
     teamexpert        |-> {"LEAVE_TEAM"},
     teamleader        |-> {"ADD_SCHOOL_MEMBERS", "CHANGE_TEAM_ROLES"},
     teamadministrator |-> {"RENAME_TEAM", "REMOVE_MEMBERS", "INVITE_EXPERTS",
                            "INVITE_ADMINISTRATORS"},
     teamowner         |-> {"DELETE_TEAM"}]

Level == [teamexpert |-> 0, teammember |-> 1, teamleader |-> 2,
          teamadministrator |-> 3, teamowner |-> 4]
Permissions ==
    [role \in TeamRoles |->
        OwnPermissions[role] \cup UNION {OwnPermissions[Hierarchy[i]] : i \in 1..Level[role]}]

(* Below a teamleader no role is in the list of isHigherOrEqualTeamrole.   *)
HigherOrEqual(first, second) == Level[first] >= Level[second] \/ Level[second] <= 1

EntryOf(users, u) == CHOOSE i \in DOMAIN users :
                        users[i].user = u /\ \A j \in 1..(i - 1) : users[j].user # u
IsIn(users, u) == \E i \in DOMAIN users : users[i].user = u
RoleIn(users, u) == users[EntryOf(users, u)].role
UsersOf(users) == {users[i].user : i \in DOMAIN users}

Entry(u, role, school) == [user |-> u, role |-> role, school |-> school]

HasPermission(users, u, p) == IsIn(users, u) /\ p \in Permissions[RoleIn(users, u)]

(* Array.filter: the entries at these places, in their order.              *)
Filter(users, places) ==
    [k \in 1..Cardinality(places) |->
        users[CHOOSE i \in places : Cardinality({j \in places : j <= i}) = k]]
Without(users, u) == Filter(users, {i \in DOMAIN users : users[i].user # u})

(* removeDuplicatedTeamUsers: the first entry of a user stays.             *)
WithoutDuplicates(users) ==
    Filter(users, {i \in DOMAIN users : EntryOf(users, users[i].user) = i})

(* userIds populated: a removed user is replaced by null.                  *)
Populated(users) ==
    [i \in DOMAIN users |->
        IF users[i].user \in known THEN users[i] ELSE [users[i] EXCEPT !.user = Nobody]]

HasOwner(users) == \E i \in DOMAIN users : users[i].role = "teamowner"
FirstOwner(users) == SelectInSeq(users, LAMBDA e : e.role = "teamowner")

(* Mutant of MappedInput: without the exception for the owner.             *)
MappedAsSent(input, old) == input

(* mappedInputUserIdsToTeamUsers: the entry of the first owner is kept.    *)
MappedInput(input, old) ==
    LET owner == old[FirstOwner(old)]
    IN  [i \in DOMAIN input |->
            IF input[i].user = owner.user
            THEN Entry(owner.user, "teamowner", owner.school) ELSE input[i]]

(* removeNotValidUsersBySchoolIds compares ObjectIds with strings: none of *)
(* the users it wants to remove is found.                                  *)
ValidBySchool(users) == users

TeamUsers(input, old) ==
    IF input = <<>> THEN <<>> ELSE ValidBySchool(WithoutDuplicates(MappedInput(input, old)))

ArrayDiff(users, others) == UsersOf(users) \ UsersOf(others)

(* testChangesForPermissionRouting: each kind of change has its permission. *)
HighestChanged(input, old) ==
    LET changed == {u \in UsersOf(input) \cap UsersOf(old) : RoleIn(input, u) # RoleIn(old, u)}
    IN  {RoleIn(input, u) : u \in changed} \cup {RoleIn(old, u) : u \in changed}
MayPatch(by, input, old) ==
    LET removed == ArrayDiff(old, input)
        added == ArrayDiff(input, old)
        roles == HighestChanged(input, old)
        may(p) == HasPermission(old, by, p)
    IN  /\ may("RENAME_TEAM")
        /\ by \in removed => may("LEAVE_TEAM")
        /\ removed \ {by} # {} => may("REMOVE_MEMBERS")
        /\ \A u \in added : u \in known /\ School[u] = School[by]
        /\ added # {} => may("ADD_SCHOOL_MEMBERS")
        /\ roles # {} => /\ may("CHANGE_TEAM_ROLES")
                         /\ \A r \in roles : HigherOrEqual(RoleIn(old, by), r)

-----------------------------------------------------------------------------
Fields == {"userIds", "invitedUserIds", "schoolIds"}

None == [op |-> "none", pc |-> "idle", to |-> Nobody, role |-> "teamexpert",
         fields |-> {}, users |-> <<>>, inv |-> {}, schools |-> {}, stale |-> FALSE]

TypeOK ==
    /\ exists \in BOOLEAN /\ overlapped \in BOOLEAN
    /\ members \in Seq([user : Users \cup {Nobody}, role : TeamRoles, school : Schools])
    /\ invited \subseteq [user : Users, role : InvitedRoles]
    /\ schoolIds \subseteq Schools /\ home \in Schools /\ (exists => home \in schoolIds)
    /\ known \subseteq Users
    /\ DOMAIN req = Requests /\ sent \in 0..MaxRequests
    /\ \A r \in Requests : req[r].fields \subseteq Fields

(* The new record of a request; a change of the data makes others stale.   *)
Proceed(r, new, changed) ==
    req' = [q \in Requests |->
        IF q = r THEN new
        ELSE IF changed /\ (req[q].pc \in {"write", "remove"} \/ req[q].op \in {"userRemoved", "setOwner"})
             THEN [req[q] EXCEPT !.stale = TRUE] ELSE req[q]]

Goto(r, label, changed) == Proceed(r, [req[r] EXCEPT !.pc = label], changed)

(* The request is over, with or without having changed the data.           *)
End(r, changed) ==
    /\ Proceed(r, None, changed)
    /\ overlapped' = (overlapped \/ req[r].stale)

(* POST /teams: the creator becomes the owner, behind the users of the     *)
(* form; these get the creator's school whatever their own is.             *)
Created(u, others) ==
    Append(SetToSeq({Entry(v, "teammember", School[u]) : v \in others}),
           Entry(u, "teamowner", School[u]))

(* isAllowedToCreateTeams, without the students and administrators.        *)
MayCreate(u) == u \in known \cap Teachers

Init ==
    /\ known = Users \ Strangers
    /\ exists = FALSE /\ members = <<>> /\ invited = {} /\ schoolIds = {}
    /\ home = CHOOSE s \in Schools : TRUE
    /\ req = [r \in Requests |-> None] /\ sent = 0
    /\ overlapped = FALSE

Create ==
    /\ sent = 0 /\ sent' = 1
    /\ \E u \in {v \in known : MayCreate(v)} :
       \E others \in SUBSET {v \in known \ {u} : ForeignUsers \/ School[v] = School[u]} :
          members' = Created(u, others) /\ schoolIds' = {School[u]} /\ home' = School[u]
    /\ exists' = TRUE
    /\ UNCHANGED <<invited, known, req, overlapped>>
-----------------------------------------------------------------------------
Pending == {r \in Requests : req[r].pc # "idle"}
MayStart(r) == req[r].pc = "idle" /\ exists /\ sent < MaxRequests

Send(r, new) ==
    /\ Proceed(r, new, FALSE)
    /\ sent' = sent + 1
    /\ UNCHANGED <<team, known, overlapped>>

(* What a client sends: the list it shows, with a user removed, one role   *)
(* changed, or one user added; or no user at all.                          *)
Inputs(users, by) ==
    {Without(users, u) : u \in UsersOf(users)}
    \cup {[users EXCEPT ![i].role = role] : i \in DOMAIN users, role \in TeamRoles}
    \cup {Append(users, Entry(u, role, School[by])) :
             u \in known \ UsersOf(users), role \in {"teammember", "teamadministrator"}}
    \cup {<<>>}

(* PATCH /teams: its before hooks read the team once.                      *)
Patch(r) ==
    \E u \in UsersOf(members) \cap known : \E input \in Inputs(members, u) :
       /\ MayPatch(u, input, members)
       /\ input # <<>> => HasOwner(members)
       /\ Send(r, [None EXCEPT !.op = "patch", !.pc = "write", !.fields = {"userIds"},
                     !.users = TeamUsers(input, members)])

(* The hooks of the invitations check their permissions on one reading of  *)
(* the team; the services then load it again.                              *)
MayInvite(u) == /\ u \in known
                /\ HasPermission(members, u, "INVITE_EXPERTS")
                /\ HasPermission(members, u, "INVITE_ADMINISTRATORS")

(* isTeacherDirectlyImport.                                                *)
Importable == known \cap Teachers

AddById(r) ==
    \E u \in Users, v \in Importable, role \in InvitedRoles :
       /\ MayInvite(u)
       /\ Send(r, [None EXCEPT !.op = "addById", !.pc = "load", !.to = v, !.role = role])

AddByEmail(r) ==
    \E u \in Users, v \in known \cup Strangers, role \in InvitedRoles :
       /\ MayInvite(u)
       /\ Send(r, [None EXCEPT !.op = "addByEmail", !.pc = "load", !.to = v, !.role = role])

RemoveInvite(r) ==
    \E u \in Users, i \in invited :
       /\ MayInvite(u)
       /\ Send(r, [None EXCEPT !.op = "removeInvite", !.pc = "load", !.to = i.user])

(* GET /teams/extern/accept.                                               *)
Accept(r) ==
    \E i \in invited :
       /\ i.user \in known
       /\ Send(r, [None EXCEPT !.op = "accept", !.pc = "load", !.to = i.user])

(* PATCH /teams/manage/admin by an administrator of the school s.          *)
Administrate(r) ==
    \/ \E u \in {v \in known : ForeignUsers \/ School[v] = home} :
          Send(r, [None EXCEPT !.op = "setOwner", !.pc = "load", !.to = u])
    \/ \E s \in Schools \ {home} :
          Send(r, [None EXCEPT !.op = "removeSchool", !.pc = "load", !.schools = {s}])

(* DELETE /teams by an owner, /teams/manage/admin by any administrator.    *)
Delete(r) == Send(r, [None EXCEPT !.op = "delete", !.pc = "remove"])

(* The event "removed" of the users service, for its listener.  (A created *)
(* expert is not removed: their email would name two users.)               *)
UserRemoved(r) ==
    /\ sent' = sent + 1
    /\ \E u \in known \ Strangers :
         /\ known' = known \ {u}
         /\ Proceed(r, [None EXCEPT !.op = "userRemoved", !.pc = "load", !.to = u], TRUE)
    /\ UNCHANGED <<team, overlapped>>
-----------------------------------------------------------------------------
(* What each service computes from the team it has loaded, or an error.    *)
Change(fields, users, inv, schools) ==
    [fields |-> fields, users |-> users, inv |-> inv, schools |-> schools]
Error == Change({}, <<>>, {}, {})

(* getUpdatedSchoolIdArray, removeInvitedUserByEmail.                      *)
WithSchool(u) == schoolIds \cup {School[u]}
WithoutInvitation(u) == {i \in invited : i.user # u}

(* Mutant of AddingById: the school replaces the others.                   *)
AddingByIdAlone(q, users) ==
    IF Nobody \in UsersOf(users) \/ q.to \notin known THEN Error
    ELSE Change({"userIds", "schoolIds"},
                WithoutDuplicates(Append(users, Entry(q.to, q.role, School[q.to]))),
                {}, {School[q.to]})

(* _userImportById.                                                        *)
AddingById(q, users) ==
    IF Nobody \in UsersOf(users) \/ q.to \notin known THEN Error
    ELSE Change({"userIds", "schoolIds"},
                WithoutDuplicates(Append(users, Entry(q.to, q.role, School[q.to]))),
                {}, WithSchool(q.to))

(* _userImportByEmail: who is invited already keeps the role of then.      *)
AlreadyMember(users, u) == Nobody \in UsersOf(users) \/ u \in UsersOf(users)
CreatesExpert(q) == q.to \in Strangers \ known /\ q.role = "teamexpert"
AddingByEmail(q, users) ==
    IF AlreadyMember(users, q.to) \/ (q.to \notin known /\ ~CreatesExpert(q)) THEN Error
    ELSE Change({"invitedUserIds"}, <<>>,
                IF \E i \in invited : i.user = q.to THEN invited
                ELSE invited \cup {[user |-> q.to, role |-> q.role]}, {})

(* Mutant of Accepting: the school of the new member is not added.         *)
AcceptingWithoutSchool(q, users) ==
    IF q.to \notin known \/ \A i \in invited : i.user # q.to THEN Error
    ELSE Change(Fields,
                Append(users, Entry(q.to, (CHOOSE i \in invited : i.user = q.to).role, School[q.to])),
                WithoutInvitation(q.to), schoolIds)

(* Accept.get.                                                             *)
Accepting(q, users) ==
    IF q.to \notin known \/ \A i \in invited : i.user # q.to THEN Error
    ELSE Change(Fields,
                Append(users, Entry(q.to, (CHOOSE i \in invited : i.user = q.to).role, School[q.to])),
                WithoutInvitation(q.to), WithSchool(q.to))

(* AdminOverview.patch at the school of the team, and at another one.      *)
SettingOwner(q, users) ==
    Change({"userIds"}, Append(users, Entry(q.to, "teamowner", home)), {}, {})
RemovingSchool(q, users) ==
    Change({"userIds"},
           Filter(users, {i \in DOMAIN users : users[i].school \notin q.schools}), {}, {})

(* Mutant of RemovingUser: only the first entry of the user goes.          *)
RemovingUserOnce(q) ==
    IF ~IsIn(members, q.to) THEN Error
    ELSE Change({"userIds"}, RemoveAt(members, EntryOf(members, q.to)), {}, {})

(* removeTeamUserFromTeam works on the identifiers, not on populated users. *)
RemovingUser(q) ==
    IF ~IsIn(members, q.to) THEN Error
    ELSE Change({"userIds"}, Without(members, q.to), {}, {})

Computed(q) ==
    LET users == Populated(members)
    IN  CASE q.op = "addById"      -> AddingById(q, users)
          [] q.op = "addByEmail"   -> AddingByEmail(q, users)
          [] q.op = "accept"       -> Accepting(q, users)
          [] q.op = "removeInvite" -> Change({"invitedUserIds"}, <<>>, WithoutInvitation(q.to), {})
          [] q.op = "setOwner"     -> SettingOwner(q, users)
          [] q.op = "removeSchool" -> RemovingSchool(q, users)
          [] q.op = "userRemoved"  -> RemovingUser(q)

(* getTeam of a service, and the account of an unknown expert.             *)
Load(r) ==
    LET q == req[r]
        c == Computed(q)
    IN  /\ q.pc = "load"
        /\ known' = IF q.op = "addByEmail" /\ exists /\ CreatesExpert(q) THEN known \cup {q.to} ELSE known
        /\ IF exists /\ c.fields # {}
           THEN /\ Proceed(r, [q EXCEPT !.fields = c.fields, !.users = c.users, !.inv = c.inv,
                        !.schools = c.schools,
                        !.pc = IF q.op = "userRemoved" /\ c.users = <<>> THEN "remove" ELSE "write"],
                        FALSE)
                /\ UNCHANGED overlapped
           ELSE End(r, FALSE)
        /\ UNCHANGED team

(* patchTeam: the arrays are replaced as a whole.                          *)
Write(r) ==
    LET q == req[r]
    IN  /\ q.pc = "write"
        /\ IF exists
           THEN /\ members' = IF "userIds" \in q.fields THEN q.users ELSE members
                /\ invited' = IF "invitedUserIds" \in q.fields THEN q.inv ELSE invited
                /\ schoolIds' = IF "schoolIds" \in q.fields THEN q.schools ELSE schoolIds
                /\ overlapped' = (overlapped \/ q.stale)
                /\ Proceed(r, IF q.op = "userRemoved" THEN None ELSE [None EXCEPT !.pc = "result"], TRUE)
           ELSE End(r, FALSE) /\ UNCHANGED <<members, invited, schoolIds>>
        /\ UNCHANGED <<exists, home, known>>

(* Mutant of Result: the hook isUserIsEmpty is missing.                    *)
ResultKept(r) ==
    /\ req[r].pc = "result"
    /\ End(r, FALSE)
    /\ UNCHANGED <<team, known>>

(* The patched document is read again; isUserIsEmpty looks at this result. *)
Result(r) ==
    /\ req[r].pc = "result"
    /\ IF exists /\ members = <<>>
       THEN Goto(r, "remove", FALSE) /\ UNCHANGED overlapped
       ELSE End(r, FALSE)
    /\ UNCHANGED <<team, known>>

RemoveTeam(r) ==
    /\ req[r].pc = "remove"
    /\ exists' = FALSE
    /\ End(r, TRUE)
    /\ UNCHANGED <<members, invited, schoolIds, home, known>>

Start(r) ==
    /\ MayStart(r)
    /\ \/ Patch(r) \/ AddById(r) \/ AddByEmail(r) \/ RemoveInvite(r) \/ Accept(r)
       \/ Administrate(r) \/ Delete(r) \/ UserRemoved(r)
Continue(r) ==
    /\ Load(r) \/ Write(r) \/ Result(r) \/ RemoveTeam(r)
    /\ UNCHANGED sent

Next == Create \/ \E r \in Requests : Start(r) \/ Continue(r)
Spec == Init /\ [][Next]_vars
-----------------------------------------------------------------------------
(* The schools of a team cover its members: whoever comes by an import or  *)
(* an invitation brings their school along (getUpdatedSchoolIdArray), and  *)
(* nobody is patched in from elsewhere.  A request that writes arrays over *)
(* a change it has not read breaks this; see overlapped.                   *)
SchoolsCoverMembers ==
    exists /\ ~overlapped => \A i \in DOMAIN members : members[i].school \in schoolIds

(* The first owner keeps the role for as long as they are a member: no     *)
(* patch, import or acceptance demotes them ("teamowner role can not       *)
(* repatched at the moment").  They must be listed once: setOwner appends  *)
(* a second entry for a member, which the next import drops.  And they     *)
(* must be someone: a write of a populated array keeps null for whoever    *)
(* was removed, and two of these cannot be told apart.                     *)
Once(users, u) == Cardinality({i \in DOMAIN users : users[i].user = u}) = 1
OwnerStaysOwner ==
    [][HasOwner(members) /\ ~overlapped' =>
         LET owner == members[FirstOwner(members)].user
         IN  owner # Nobody /\ Once(members, owner) /\ IsIn(members', owner)
             => RoleIn(members', owner) = "teamowner"]_vars

(* A team without members is removed, by the after hook of the patch or by *)
(* the listener of removed users; between the write and the removal it     *)
(* exists without one, and all interleavings leave none behind.            *)
NoEmptyTeamAtRest == Pending = {} /\ exists => members # <<>>

(* A removed user is no member once the listener has run.                  *)
NoRemovedMembersAtRest ==
    Pending = {} /\ exists /\ ~overlapped => \A i \in DOMAIN members : members[i].user \in known
=============================================================================
