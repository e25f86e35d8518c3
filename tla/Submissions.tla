---------------------------- MODULE Submissions ----------------------------
(***************************************************************************)
(* The submissions of a homework of a course (src/services/homework: the   *)
(* hooks of submissions).  Each request reads the submission it is about,  *)
(* the homework and the list of submissions in commands of their own,      *)
(* checks what it has read, and writes.                                    *)
(***************************************************************************)
EXTENDS Naturals, FiniteSets

CONSTANTS
    Pupils, Teacher,
    Group,                  \* the members of the course group
    Ids, Calls, MaxCalls    \* submissions, requests at once; bound: requests

VARIABLES
    homework,               \* [there, team, max]; max = 0: no limit is set
    submission,             \* Missing, or [student, members, group] of each id
    call,                   \* the requests under way
    calls,
    overlapped              \* history: two requests have been under way at once

submissionVars == <<homework, submission, call, calls, overlapped>>

Missing == [student |-> Teacher, members |-> {}, group |-> FALSE]
NoId == "none"
NoHomework == [there |-> FALSE, team |-> FALSE, max |-> 0]
NoCall == [pc |-> "idle", method |-> "create", user |-> Teacher, id |-> NoId, members |-> {}, group |-> FALSE,
           named |-> FALSE, changes |-> FALSE, student |-> Teacher, known |-> {}, homework |-> NoHomework]
Stored == {i \in Ids : submission[i] # Missing}

HomeworkType == [there : BOOLEAN, team : BOOLEAN, max : 0..2]
SubmissionType == [student : Pupils \cup {Teacher}, members : SUBSET Pupils, group : BOOLEAN]
(* What a request asks for, then what it has read: student and known of    *)
(* the submission, and the homework.                                       *)
CallType ==
    [pc : {"idle", "submission", "homework", "check", "write"}, method : {"create", "patch", "remove"},
     user : Pupils \cup {Teacher}, id : Ids \cup {NoId}, members : SUBSET Pupils, group : BOOLEAN,
     named : BOOLEAN, changes : BOOLEAN, student : Pupils \cup {Teacher}, known : SUBSET (Pupils \cup {Teacher}),
     homework : HomeworkType]

SubmissionsTypeOK ==
    /\ homework \in HomeworkType
    /\ submission \in [Ids -> SubmissionType]
    /\ call \in [Calls -> CallType]
    /\ calls \in Nat /\ overlapped \in BOOLEAN

SubmissionsInit ==
    /\ homework \in {[there |-> TRUE, team |-> FALSE, max |-> 0], [there |-> TRUE, team |-> TRUE, max |-> 2]}
    /\ submission = [i \in Ids |-> Missing]
    /\ call = [c \in Calls |-> NoCall]
    /\ calls = 0 /\ overlapped = FALSE

CallAt(c, pc) == call[c].pc = pc
SetCall(c, new) == call' = [call EXCEPT ![c] = new]
StartCall(c, new) ==
    /\ CallAt(c, "idle") /\ calls < MaxCalls /\ calls' = calls + 1
    /\ overlapped' = (overlapped \/ \E x \in Calls : ~CallAt(x, "idle"))
    /\ SetCall(c, new)
-----------------------------------------------------------------------------
(* setTeamMembers: without a team the pupil submits alone; nobody submits  *)
(* only for others.  The clients name the caller as the student.           *)
Submit(c) ==
    \E u \in Pupils, group \in BOOLEAN : \E members \in {m \in SUBSET Pupils : u \in m} :
        /\ group => u \in Group
        /\ StartCall(c, [NoCall EXCEPT !.pc = "homework", !.user = u, !.members = members, !.group = group])
        /\ UNCHANGED <<homework, submission>>

(* A patch may name a new team, and may leave out the id of the homework.  *)
Patch(c) ==
    \E u \in Pupils \cup {Teacher}, i \in Stored, group, named, changes \in BOOLEAN, members \in SUBSET Pupils :
        /\ group => u \in Group
        /\ ~changes => members = {}
        /\ StartCall(c, [NoCall EXCEPT !.pc = "submission", !.method = "patch", !.user = u, !.id = i, !.group = group,
                                       !.named = named, !.changes = changes, !.members = members])
        /\ UNCHANGED <<homework, submission>>

RemoveSubmission(c) ==
    \E u \in Pupils \cup {Teacher}, i \in Stored :
        /\ StartCall(c, [NoCall EXCEPT !.pc = "submission", !.method = "remove", !.user = u, !.id = i])
        /\ UNCHANGED <<homework, submission>>

(* hasViewPermission, of the get in insertSubmissionData.                  *)
MayView(u, s) ==
    \/ u \in s.members \cup {s.student}
    \/ homework.there /\ (u = Teacher \/ (s.group /\ u \in Group))

(* insertSubmissionData: a course group of the submission or of the        *)
(* request makes the caller one of the team.                               *)
ReadSubmission(c) ==
    LET q == call[c]
        s == submission[q.id]
        known == s.members \cup (IF s.group \/ q.group THEN {q.user} ELSE {})
    IN  /\ CallAt(c, "submission")
        /\ IF s # Missing /\ MayView(q.user, s)
           THEN SetCall(c, [q EXCEPT !.pc = "homework", !.student = s.student, !.known = known])
           ELSE SetCall(c, NoCall)
        /\ UNCHANGED <<homework, submission, calls, overlapped>>

(* insertHomeworkData; without the homework every request is refused.      *)
ReadHomework(c) ==
    /\ CallAt(c, "homework")
    /\ SetCall(c, IF homework.there THEN [call[c] EXCEPT !.pc = "check", !.homework = homework] ELSE NoCall)
    /\ UNCHANGED <<homework, submission, calls, overlapped>>
-----------------------------------------------------------------------------
(* noSubmissionBefore, noDuplicateSubmissionForTeamMembers: the members of *)
(* the submissions found are ids and those they are looked up among are    *)
(* strings, so that only the students who made a submission are found.     *)
Submitters(pupils) == {i \in Stored : submission[i].student \in pupils}

(* maxTeamMembers.                                                         *)
TeamAllowed(q) ==
    IF q.user # Teacher /\ q.homework.team
    THEN q.homework.max = 0 \/ /\ Cardinality(q.members) <= q.homework.max
                               /\ q.group => Cardinality(Group) <= q.homework.max
    ELSE Cardinality(q.members) <= 1

MayCreate(q) == Submitters(q.members) = {} /\ TeamAllowed(q)

(* canRemoveOwner, noDuplicateSubmissionForTeamMembers (for the list of    *)
(* the homework the request names), maxTeamMembers.                        *)
MayPatch(q) ==
    /\ q.user \in q.known \cup {q.student, Teacher}
    /\ q.changes => q.student \in q.members \/ q.group
    /\ q.changes /\ q.named /\ q.user # Teacher => Submitters(q.members \ q.known) = {}
    /\ TeamAllowed(q)

Allowed(q) ==
    CASE q.method = "create" -> MayCreate(q)
      [] q.method = "patch"  -> MayPatch(q)
      [] q.method = "remove" -> q.user \in q.known \cup {q.student}

(* insertSubmissionsData reads the list, and the hooks after it decide.    *)
Check(c) ==
    /\ CallAt(c, "check")
    /\ SetCall(c, IF Allowed(call[c]) THEN [call[c] EXCEPT !.pc = "write"] ELSE NoCall)
    /\ UNCHANGED <<homework, submission, calls, overlapped>>

Written(q, s) == [s EXCEPT !.members = IF q.changes THEN q.members ELSE @, !.group = @ \/ q.group]

Write(c) ==
    LET q == call[c]
    IN  /\ CallAt(c, "write")
        /\ CASE q.method = "create" ->
                  \E i \in Ids \ Stored :
                      submission' = [submission EXCEPT ![i] =
                          [student |-> q.user, members |-> q.members, group |-> q.group]]
             [] q.method = "patch" ->
                  submission' = [submission EXCEPT ![q.id] = IF @ = Missing THEN @ ELSE Written(q, @)]
             [] q.method = "remove" -> submission' = [submission EXCEPT ![q.id] = Missing]
        /\ SetCall(c, NoCall)
        /\ UNCHANGED <<homework, calls, overlapped>>

(* The teacher edits or removes the homework; its submissions stay.        *)
EditHomework(c) ==
    /\ CallAt(c, "idle") /\ calls < MaxCalls /\ calls' = calls + 1
    /\ homework.there /\ homework' \in HomeworkType
    /\ UNCHANGED <<submission, call, overlapped>>

SubmissionsNext ==
    \E c \in Calls : \/ Submit(c) \/ Patch(c) \/ RemoveSubmission(c) \/ ReadSubmission(c) \/ ReadHomework(c)
                     \/ Check(c) \/ Write(c) \/ EditHomework(c)
-----------------------------------------------------------------------------
(* While requests come one after the other, no pupil takes part in two     *)
(* submissions of a homework, as noSubmissionBefore says: "check that no   *)
(* one has already submitted for the current User".                        *)
StudentsSubmitOnce ==
    ~overlapped => \A i, j \in Stored :
        i # j => (submission[i].members \cup {submission[i].student})
                     \cap (submission[j].members \cup {submission[j].student}) = {}
=============================================================================
