------------------------------ MODULE Courses ------------------------------
(***************************************************************************)
(* A course, the classes in it, and their successors in the next year      *)
(* (src/services/user-group: the hooks of courses and classes and the      *)
(* listener of ClassSuccessorService).  An edit of a course pulls the      *)
(* students of removed classes before its write and adds those of its      *)
(* classes after it, in commands of their own.                             *)
(***************************************************************************)
EXTENDS Naturals, FiniteSets

CONSTANTS
    Students, Classes,
    Members,                \* students of a class; classes do not change here
    NoClass,
    Edits,                  \* requests that may be under way at once
    MaxEdits                \* bound: requests

ASSUME CoursesAssumption ==
    /\ Members \in [Classes -> SUBSET Students]
    /\ NoClass \notin Classes /\ MaxEdits \in Nat

VARIABLES
    class,                  \* [state, successor] of each class; an id is used once
    course,                 \* [classIds, userIds]
    edit,                   \* the requests under way
    removed,                \* removals of classes not yet heard of
    unset,                  \* <<p, c>>: the successor of p is to be unset, as c was removed
    edits,
    unfinished,             \* history: an edit has met a class that is gone
    early                   \* history: classes removed before they were linked

courseVars == <<class, course, edit, removed, unset, edits, unfinished, early>>

There == {c \in Classes : class[c].state = "there"}
NoEdit == [pc |-> "idle"]
StudentsOf(classIds) == UNION {Members[c] : c \in classIds}

EditType ==
    [pc : {"idle"}]
    \cup [pc : {"read", "write", "add"}, classIds : SUBSET Classes, userIds : SUBSET Students]
    \cup [pc : {"pull"}, classIds : SUBSET Classes, userIds : SUBSET Students, students : SUBSET Students]
    \cup [pc : {"create"}, predecessor : Classes \cup {NoClass}]
    \cup [pc : {"link"}, class : Classes, predecessor : Classes]

CoursesTypeOK ==
    /\ class \in [Classes -> [state : {"new", "there", "gone"}, successor : Classes \cup {NoClass}]]
    /\ course \in [classIds : SUBSET Classes, userIds : SUBSET Students]
    /\ edit \in [Edits -> EditType]
    /\ removed \subseteq Classes /\ unset \subseteq Classes \X Classes
    /\ edits \in Nat /\ unfinished \in BOOLEAN /\ early \subseteq Classes

CoursesInit ==
    /\ \E first \in Classes :
          class = [c \in Classes |-> [state |-> IF c = first THEN "there" ELSE "new", successor |-> NoClass]]
    /\ course = [classIds |-> {}, userIds |-> {}]
    /\ edit = [e \in Edits |-> NoEdit]
    /\ removed = {} /\ unset = {} /\ edits = 0
    /\ unfinished = FALSE /\ early = {}

EditAt(e, pc) == edit[e].pc = pc
SetEdit(e, new) == edit' = [edit EXCEPT ![e] = new]
Begin(e, new) == EditAt(e, "idle") /\ edits < MaxEdits /\ edits' = edits + 1 /\ SetEdit(e, new)
-----------------------------------------------------------------------------
(* Courses.patch as the client sends it: classes and users are complete.   *)
EditCourse(e) ==
    \E classIds \in SUBSET There, userIds \in SUBSET Students :
        /\ Begin(e, [pc |-> "read", classIds |-> classIds, userIds |-> userIds])
        /\ UNCHANGED <<class, course, removed, unset, unfinished, early>>

(* deleteWholeClassFromCourse: the course, and the students of its classes *)
(* that are not in the request.  A class that is gone has none.            *)
ReadCourse(e) ==
    LET leaving == course.classIds \ edit[e].classIds
    IN  /\ EditAt(e, "read")
        /\ IF leaving = {} THEN SetEdit(e, [edit[e] EXCEPT !.pc = "write"])
           ELSE SetEdit(e, [pc |-> "pull", classIds |-> edit[e].classIds, userIds |-> edit[e].userIds,
                            students |-> StudentsOf(leaving \cap There)])
        /\ UNCHANGED <<class, course, removed, unset, edits, unfinished, early>>

(* ... are pulled from the course, and taken out of the request.           *)
PullStudents(e) ==
    LET q == edit[e]
    IN  /\ EditAt(e, "pull")
        /\ course' = [course EXCEPT !.userIds = @ \ q.students]
        /\ SetEdit(e, [pc |-> "write", classIds |-> q.classIds, userIds |-> q.userIds \ q.students])
        /\ UNCHANGED <<class, removed, unset, edits, unfinished, early>>

WriteCourse(e) ==
    /\ EditAt(e, "write")
    /\ course' = [classIds |-> edit[e].classIds, userIds |-> edit[e].userIds]
    /\ SetEdit(e, [edit[e] EXCEPT !.pc = "add"])
    /\ UNCHANGED <<class, removed, unset, edits, unfinished, early>>

(* Mutant of Added: the classes are added instead of their students.       *)
AddedIds(q) ==
    /\ course' = [course EXCEPT !.userIds = @ \cup q.classIds]
    /\ UNCHANGED unfinished
(* Mutant of Added: students are only added when the request has none.     *)
AddedToEmpty(q) ==
    IF q.classIds \subseteq There
    THEN /\ course' = [course EXCEPT !.userIds = IF q.userIds = {} THEN StudentsOf(q.classIds) ELSE @]
         /\ UNCHANGED unfinished
    ELSE UNCHANGED course /\ unfinished' = TRUE
(* addWholeClassToCourse; nobody is added when one of the classes is gone. *)
Added(q) ==
    IF q.classIds \subseteq There
    THEN /\ course' = [course EXCEPT !.userIds = @ \cup StudentsOf(q.classIds)]
         /\ UNCHANGED unfinished
    ELSE UNCHANGED course /\ unfinished' = TRUE
AddStudents(e) ==
    /\ EditAt(e, "add")
    /\ Added(edit[e])
    /\ SetEdit(e, NoEdit)
    /\ UNCHANGED <<class, removed, unset, edits, early>>

(* Courses.patch with a link: a student joins.                             *)
Join(e) ==
    \E u \in Students :
        /\ EditAt(e, "idle") /\ edits < MaxEdits /\ edits' = edits + 1
        /\ course' = [course EXCEPT !.userIds = @ \cup {u}]
        /\ UNCHANGED <<class, edit, removed, unset, unfinished, early>>
-----------------------------------------------------------------------------
(* Classes.create, for a new class that may succeed another.               *)
CreateClass(e) ==
    \E predecessor \in There \cup {NoClass} :
        /\ Begin(e, [pc |-> "create", predecessor |-> predecessor])
        /\ UNCHANGED <<class, course, removed, unset, unfinished, early>>

StoreClass(e) ==
    /\ EditAt(e, "create")
    /\ \E c \in Classes :
          /\ class[c].state = "new"
          /\ class' = [class EXCEPT ![c].state = "there"]
          /\ IF edit[e].predecessor = NoClass THEN SetEdit(e, NoEdit)
             ELSE SetEdit(e, [pc |-> "link", class |-> c, predecessor |-> edit[e].predecessor])
    /\ UNCHANGED <<course, removed, unset, edits, unfinished, early>>

(* saveSuccessor; a predecessor that is gone is an error.                  *)
Link(e) ==
    LET p == edit[e].predecessor
    IN  /\ EditAt(e, "link")
        /\ class' = IF p \in There THEN [class EXCEPT ![p].successor = edit[e].class] ELSE class
        /\ SetEdit(e, NoEdit)
        /\ UNCHANGED <<course, removed, unset, edits, unfinished, early>>

(* Classes.remove; its event is heard later.                               *)
RemoveClass(e) ==
    \E c \in There :
        /\ EditAt(e, "idle") /\ edits < MaxEdits /\ edits' = edits + 1
        /\ class' = [class EXCEPT ![c].state = "gone"]
        /\ removed' = removed \cup {c}
        /\ early' = IF \E x \in Edits : EditAt(x, "link") /\ edit[x].class = c THEN early \cup {c} ELSE early
        /\ UNCHANGED <<course, edit, unset, unfinished>>

(* updateClassPredecessors: the classes with this successor are read, and  *)
(* each is patched in a command of its own.                                *)
(* Mutant of Predecessors: the link is followed the other way.             *)
Successors(c) == {p \in There : class[c].successor = p}
Predecessors(c) == {p \in There : class[p].successor = c}
HearRemoval(c) ==
    /\ c \in removed
    /\ removed' = removed \ {c}
    /\ unset' = unset \cup (Predecessors(c) \X {c})
    /\ UNCHANGED <<class, course, edit, edits, unfinished, early>>

UnsetSuccessor(p, c) ==
    /\ <<p, c>> \in unset
    /\ class' = IF p \in There THEN [class EXCEPT ![p].successor = NoClass] ELSE class
    /\ unset' = unset \ {<<p, c>>}
    /\ UNCHANGED <<course, edit, removed, edits, unfinished, early>>

CoursesNext ==
    \/ \E e \in Edits : \/ EditCourse(e) \/ ReadCourse(e) \/ PullStudents(e) \/ WriteCourse(e) \/ AddStudents(e)
                        \/ Join(e) \/ CreateClass(e) \/ StoreClass(e) \/ Link(e) \/ RemoveClass(e)
    \/ \E c \in Classes : HearRemoval(c) \/ \E p \in Classes : UnsetSuccessor(p, c)
-----------------------------------------------------------------------------
CoursesAtRest == removed = {} /\ unset = {} /\ \A e \in Edits : EditAt(e, "idle")

(* When nothing is under way, the students of every class of the course    *)
(* are in the course, however edits, joins and removals of classes have    *)
(* interleaved: each edit pulls before its write and adds after it         *)
(* (deleteWholeClassFromCourse, addWholeClassToCourse).  Left out: an edit *)
(* whose adding met a class that was gone.                                 *)
ClassMembersInCourse ==
    CoursesAtRest /\ ~unfinished => StudentsOf(course.classIds \cap There) \subseteq course.userIds

(* When nothing is under way, no class has a successor that was removed,   *)
(* unless it was removed before its creation had linked it.                *)
NoDanglingSuccessor ==
    CoursesAtRest => \A c \in There : class[c].successor \in There \cup early \cup {NoClass}
=============================================================================
