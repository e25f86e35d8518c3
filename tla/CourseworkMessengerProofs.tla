---------------------- MODULE CourseworkMessengerProofs ----------------------
(***************************************************************************)
(* Courses and homework: the members of the classes of a course are in it  *)
(* when nothing is under way, and no class keeps a removed successor, for  *)
(* any number of students, classes and requests.                           *)
(*                                                                         *)
(* Messenger: whenever nothing is pending the rooms agree with the teams,  *)
(* for any number of users, teams, messages, crashes and closed channels.  *)
(*                                                                         *)
(* The two parts have nothing in common but the module.                    *)
(***************************************************************************)
EXTENDS Coursework, MessengerSync, FiniteSetTheorems, SequenceTheorems, TLAPS

CoursesStep == CoursesNext \/ UNCHANGED courseVars

CourseCovered == StudentsOf(course.classIds \cap There) \subseteq course.userIds

(* No request and no course knows a class before it is stored.             *)
NewIsUnknown ==
    /\ \A c \in course.classIds : class[c].state # "new"
    /\ \A e \in Edits : edit[e].pc \in {"read", "pull", "write", "add"} =>
          \A c \in edit[e].classIds : class[c].state # "new"

(* A member of a class is missing only while some edit has yet to write    *)
(* the course, or to add the students of the classes it has written.       *)
WillCover ==
    \/ unfinished \/ CourseCovered
    \/ \E e \in Edits : \/ EditAt(e, "write")
                        \/ EditAt(e, "add") /\ edit[e].classIds = course.classIds

CoverInv == CoursesTypeOK /\ NewIsUnknown /\ WillCover

(* A class that is to be linked is there, or was removed too early; a new  *)
(* class has no successor.                                                 *)
LinksKnown ==
    /\ \A e \in Edits : EditAt(e, "link") => edit[e].class \in There \cup early
    /\ \A c \in Classes : class[c].state = "new" => class[c].successor = NoClass

(* A successor that is gone is still to be heard of, or to be unset.       *)
GoneIsHeard ==
    \A c \in There :
        \/ class[c].successor \in There \cup early \cup removed \cup {NoClass}
        \/ <<c, class[c].successor>> \in unset

SuccessorInv == CoursesTypeOK /\ LinksKnown /\ GoneIsHeard
-----------------------------------------------------------------------------
(* What an edit holds while it is at one of its commands.                  *)
LEMMA EditFields ==
    ASSUME CoursesTypeOK, NEW e \in Edits
    PROVE  /\ edit[e] \in EditType
           /\ edit[e].pc \in {"read", "write", "add"} =>
                edit[e] \in [pc : {"read", "write", "add"}, classIds : SUBSET Classes, userIds : SUBSET Students]
           /\ edit[e].pc = "pull" =>
                edit[e] \in [pc : {"pull"}, classIds : SUBSET Classes, userIds : SUBSET Students,
                             students : SUBSET Students]
           /\ edit[e].pc = "create" => edit[e] \in [pc : {"create"}, predecessor : Classes \cup {NoClass}]
           /\ edit[e].pc = "link" => edit[e] \in [pc : {"link"}, class : Classes, predecessor : Classes]
BY DEF CoursesTypeOK, EditType

LEMMA StudentsAreStudents ==
    ASSUME NEW S \in SUBSET Classes
    PROVE  StudentsOf(S) \in SUBSET Students
BY CoursesAssumption DEF StudentsOf

LEMMA StudentsOfFewer ==
    ASSUME NEW S, NEW T, S \subseteq T
    PROVE  StudentsOf(S) \subseteq StudentsOf(T)
BY DEF StudentsOf

LEMMA CoursesTypeInit == CoursesInit => CoursesTypeOK
<1>1. NoEdit \in EditType
  BY DEF NoEdit, EditType
<1> SUFFICES ASSUME CoursesInit PROVE CoursesTypeOK
  OBVIOUS
<1>2. class \in [Classes -> [state : {"new", "there", "gone"}, successor : Classes \cup {NoClass}]]
  <2>1. PICK first \in Classes :
            class = [c \in Classes |-> [state |-> IF c = first THEN "there" ELSE "new", successor |-> NoClass]]
    BY DEF CoursesInit
  <2>. QED BY <2>1
<1>3. course \in [classIds : SUBSET Classes, userIds : SUBSET Students] /\ edit \in [Edits -> EditType]
  BY <1>1 DEF CoursesInit
<1>. QED BY <1>2, <1>3 DEF CoursesInit, CoursesTypeOK

LEMMA CoursesTypeStep == CoursesTypeOK /\ CoursesNext => CoursesTypeOK'
<1> SUFFICES ASSUME CoursesTypeOK, CoursesNext PROVE CoursesTypeOK'
  OBVIOUS
<1> USE CoursesAssumption DEF CoursesTypeOK
<1>0. NoEdit \in EditType
  BY DEF NoEdit, EditType
<1>1. ASSUME NEW e \in Edits, EditCourse(e) PROVE CoursesTypeOK'
  <2>1. PICK classIds \in SUBSET There, userIds \in SUBSET Students :
            Begin(e, [pc |-> "read", classIds |-> classIds, userIds |-> userIds])
    BY <1>1 DEF EditCourse
  <2>2. [pc |-> "read", classIds |-> classIds, userIds |-> userIds] \in EditType
    BY DEF EditType, There
  <2>. QED BY <1>1, <2>1, <2>2 DEF EditCourse, Begin, SetEdit
<1>2. ASSUME NEW e \in Edits, ReadCourse(e) PROVE CoursesTypeOK'
  <2> DEFINE leaving == course.classIds \ edit[e].classIds
             pulling == [pc |-> "pull", classIds |-> edit[e].classIds, userIds |-> edit[e].userIds,
                         students |-> StudentsOf(leaving \cap There)]
  <2>1. edit[e] \in [pc : {"read", "write", "add"}, classIds : SUBSET Classes, userIds : SUBSET Students]
    BY <1>2, EditFields DEF ReadCourse, EditAt
  <2>2. [edit[e] EXCEPT !.pc = "write"] \in EditType
    BY <2>1 DEF EditType
  <2>3. leaving \cap There \in SUBSET Classes
    BY DEF There
  <2>4. StudentsOf(leaving \cap There) \in SUBSET Students
    BY <2>3, StudentsAreStudents
  <2>5. pulling \in EditType
    BY <2>1, <2>4 DEF EditType
  <2>6. \/ SetEdit(e, [edit[e] EXCEPT !.pc = "write"])
        \/ SetEdit(e, pulling)
    BY <1>2 DEF ReadCourse
  <2> HIDE DEF pulling
  <2>7. edit' \in [Edits -> EditType]
    BY <2>2, <2>5, <2>6 DEF SetEdit
  <2>. QED BY <1>2, <2>7 DEF ReadCourse
<1>3. ASSUME NEW e \in Edits, PullStudents(e) PROVE CoursesTypeOK'
  <2>1. edit[e] \in [pc : {"pull"}, classIds : SUBSET Classes, userIds : SUBSET Students,
                     students : SUBSET Students]
    BY <1>3, EditFields DEF PullStudents, EditAt
  <2>2. [pc |-> "write", classIds |-> edit[e].classIds, userIds |-> edit[e].userIds \ edit[e].students] \in EditType
    BY <2>1 DEF EditType
  <2>. QED BY <1>3, <2>2 DEF PullStudents, SetEdit
<1>4. ASSUME NEW e \in Edits, WriteCourse(e) PROVE CoursesTypeOK'
  <2>1. edit[e] \in [pc : {"read", "write", "add"}, classIds : SUBSET Classes, userIds : SUBSET Students]
    BY <1>4, EditFields DEF WriteCourse, EditAt
  <2>2. [edit[e] EXCEPT !.pc = "add"] \in EditType
    BY <2>1 DEF EditType
  <2>. QED BY <1>4, <2>1, <2>2 DEF WriteCourse, SetEdit
<1>5. ASSUME NEW e \in Edits, AddStudents(e) PROVE CoursesTypeOK'
  <2>1. edit[e] \in [pc : {"read", "write", "add"}, classIds : SUBSET Classes, userIds : SUBSET Students]
    BY <1>5, EditFields DEF AddStudents, EditAt
  <2>2. StudentsOf(edit[e].classIds) \in SUBSET Students
    BY <2>1, StudentsAreStudents
  <2>3. course' \in [classIds : SUBSET Classes, userIds : SUBSET Students] /\ unfinished' \in BOOLEAN
    <3>1. CASE edit[e].classIds \subseteq There
      BY <1>5, <2>2, <3>1 DEF AddStudents, Added
    <3>2. CASE ~(edit[e].classIds \subseteq There)
      BY <1>5, <3>2 DEF AddStudents, Added
    <3>. QED BY <3>1, <3>2
  <2>4. edit' \in [Edits -> EditType]
    BY <1>5, <1>0 DEF AddStudents, SetEdit
  <2>. QED BY <1>5, <2>3, <2>4 DEF AddStudents
<1>6. ASSUME NEW e \in Edits, Join(e) PROVE CoursesTypeOK'
  BY <1>6 DEF Join
<1>7. ASSUME NEW e \in Edits, CreateClass(e) PROVE CoursesTypeOK'
  <2>1. PICK p \in There \cup {NoClass} : Begin(e, [pc |-> "create", predecessor |-> p])
    BY <1>7 DEF CreateClass
  <2>2. [pc |-> "create", predecessor |-> p] \in EditType
    BY DEF EditType, There
  <2>. QED BY <1>7, <2>1, <2>2 DEF CreateClass, Begin, SetEdit
<1>8. ASSUME NEW e \in Edits, StoreClass(e) PROVE CoursesTypeOK'
  <2>1. edit[e] \in [pc : {"create"}, predecessor : Classes \cup {NoClass}]
    BY <1>8, EditFields DEF StoreClass, EditAt
  <2>2. ASSUME NEW c \in Classes, edit[e].predecessor # NoClass
        PROVE  [pc |-> "link", class |-> c, predecessor |-> edit[e].predecessor] \in EditType
    BY <2>1, <2>2 DEF EditType
  <2>3. edit' \in [Edits -> EditType]
    BY <1>8, <1>0, <2>2 DEF StoreClass, SetEdit
  <2>. QED BY <1>8, <2>3 DEF StoreClass
<1>9. ASSUME NEW e \in Edits, Link(e) PROVE CoursesTypeOK'
  <2>1. edit[e] \in [pc : {"link"}, class : Classes, predecessor : Classes]
    BY <1>9, EditFields DEF Link, EditAt
  <2>. QED BY <1>9, <1>0, <2>1 DEF Link, SetEdit
<1>10. ASSUME NEW e \in Edits, RemoveClass(e) PROVE CoursesTypeOK'
  BY <1>10 DEF RemoveClass, There
<1>11. ASSUME NEW c \in Classes, HearRemoval(c) PROVE CoursesTypeOK'
  BY <1>11 DEF HearRemoval, Predecessors, There
<1>12. ASSUME NEW c \in Classes, NEW p \in Classes, UnsetSuccessor(p, c) PROVE CoursesTypeOK'
  BY <1>12 DEF UnsetSuccessor
<1>. QED BY <1>1, <1>2, <1>3, <1>4, <1>5, <1>6, <1>7, <1>8, <1>9, <1>10, <1>11, <1>12 DEF CoursesNext
-----------------------------------------------------------------------------
(* Only the creation and the removal of a class change its state.          *)
Forward ==
    \A c \in Classes :
        \/ class'[c].state = class[c].state
        \/ class[c].state = "new" /\ class'[c].state = "there"
        \/ class[c].state = "there" /\ class'[c].state = "gone"

LEMMA StatesGoForward == CoursesTypeOK /\ CoursesNext => Forward
<1> SUFFICES ASSUME CoursesTypeOK, CoursesNext PROVE Forward
  OBVIOUS
<1>1. class' = class => Forward
  BY DEF Forward
<1>2. ASSUME NEW e \in Edits,
             \/ EditCourse(e) \/ ReadCourse(e) \/ PullStudents(e) \/ WriteCourse(e) \/ AddStudents(e)
             \/ Join(e) \/ CreateClass(e)
      PROVE  class' = class
  BY <1>2 DEF EditCourse, ReadCourse, PullStudents, WriteCourse, AddStudents, Join, CreateClass
<1>3. ASSUME NEW e \in Edits, StoreClass(e) PROVE Forward
  BY <1>3 DEF StoreClass, CoursesTypeOK, Forward
<1>4. ASSUME NEW e \in Edits, Link(e) PROVE Forward
  BY <1>4 DEF Link, CoursesTypeOK, Forward
<1>5. ASSUME NEW e \in Edits, RemoveClass(e) PROVE Forward
  BY <1>5 DEF RemoveClass, There, CoursesTypeOK, Forward
<1>6. ASSUME NEW c \in Classes, HearRemoval(c) PROVE class' = class
  BY <1>6 DEF HearRemoval
<1>7. ASSUME NEW c \in Classes, NEW p \in Classes, UnsetSuccessor(p, c) PROVE Forward
  BY <1>7 DEF UnsetSuccessor, CoursesTypeOK, Forward
<1>. QED BY <1>1, <1>2, <1>3, <1>4, <1>5, <1>6, <1>7 DEF CoursesNext

LEMMA CoverInit == CoursesInit => CoverInv
<1> SUFFICES ASSUME CoursesInit PROVE CoverInv
  OBVIOUS
<1>1. NewIsUnknown
  BY DEF CoursesInit, NewIsUnknown, NoEdit
<1>2. StudentsOf({} \cap There) = {}
  BY DEF StudentsOf
<1>3. CourseCovered
  BY <1>2 DEF CoursesInit, CourseCovered
<1>. QED BY <1>1, <1>3, CoursesTypeInit DEF CoverInv, WillCover

LEMMA UnknownStep == CoursesTypeOK /\ NewIsUnknown /\ CoursesNext => NewIsUnknown'
<1> SUFFICES ASSUME CoursesTypeOK, NewIsUnknown, CoursesNext PROVE NewIsUnknown'
  OBVIOUS
<1> USE DEF NewIsUnknown
<1>0. course.classIds \subseteq Classes
  BY DEF CoursesTypeOK
<1>f. \A e \in Edits : edit[e].pc \in {"read", "pull", "write", "add"} => edit[e].classIds \subseteq Classes
  BY EditFields
<1>s. \A c \in Classes : class[c].state # "new" => class'[c].state # "new"
  BY StatesGoForward DEF Forward
<1>d. edit \in [Edits -> EditType]
  BY DEF CoursesTypeOK
<1>1. ASSUME NEW e \in Edits, EditCourse(e) PROVE NewIsUnknown'
  BY <1>1, <1>0, <1>f, <1>s, <1>d DEF EditCourse, Begin, SetEdit, There
<1>2. ASSUME NEW e \in Edits, ReadCourse(e) PROVE NewIsUnknown'
  <2>1. edit[e] \in [pc : {"read", "write", "add"}, classIds : SUBSET Classes, userIds : SUBSET Students]
    BY <1>2, EditFields DEF ReadCourse, EditAt
  <2>. QED BY <1>2, <2>1, <1>0, <1>f, <1>s, <1>d DEF ReadCourse, SetEdit, EditAt
<1>3. ASSUME NEW e \in Edits, PullStudents(e) PROVE NewIsUnknown'
  BY <1>3, <1>0, <1>f, <1>s, <1>d DEF PullStudents, SetEdit, EditAt, CoursesTypeOK
<1>4. ASSUME NEW e \in Edits, WriteCourse(e) PROVE NewIsUnknown'
  <2>1. edit[e] \in [pc : {"read", "write", "add"}, classIds : SUBSET Classes, userIds : SUBSET Students]
    BY <1>4, EditFields DEF WriteCourse, EditAt
  <2>. QED BY <1>4, <2>1, <1>0, <1>f, <1>s, <1>d DEF WriteCourse, SetEdit, EditAt
<1>5. ASSUME NEW e \in Edits, AddStudents(e) PROVE NewIsUnknown'
  <2>1. course'.classIds = course.classIds
    BY <1>5 DEF AddStudents, Added, CoursesTypeOK
  <2>. QED BY <1>5, <2>1, <1>0, <1>f, <1>s, <1>d DEF AddStudents, SetEdit, NoEdit
<1>6. ASSUME NEW e \in Edits, Join(e) PROVE NewIsUnknown'
  BY <1>6, <1>0, <1>f, <1>s DEF Join, CoursesTypeOK
<1>7. ASSUME NEW e \in Edits, CreateClass(e) PROVE NewIsUnknown'
  BY <1>7, <1>0, <1>f, <1>s, <1>d DEF CreateClass, Begin, SetEdit
<1>8. ASSUME NEW e \in Edits, StoreClass(e) PROVE NewIsUnknown'
  BY <1>8, <1>0, <1>f, <1>s, <1>d DEF StoreClass, SetEdit, NoEdit
<1>9. ASSUME NEW e \in Edits, Link(e) PROVE NewIsUnknown'
  BY <1>9, <1>0, <1>f, <1>s, <1>d DEF Link, SetEdit, NoEdit
<1>10. ASSUME NEW e \in Edits, RemoveClass(e) PROVE NewIsUnknown'
  BY <1>10, <1>0, <1>f, <1>s DEF RemoveClass
<1>11. ASSUME NEW c \in Classes, HearRemoval(c) PROVE NewIsUnknown'
  BY <1>11, <1>0, <1>f, <1>s DEF HearRemoval
<1>12. ASSUME NEW c \in Classes, NEW p \in Classes, UnsetSuccessor(p, c) PROVE NewIsUnknown'
  BY <1>12, <1>0, <1>f, <1>s DEF UnsetSuccessor
<1>. QED BY <1>1, <1>2, <1>3, <1>4, <1>5, <1>6, <1>7, <1>8, <1>9, <1>10, <1>11, <1>12 DEF CoursesNext

(* The classes of a course that are there only become fewer while the      *)
(* course is not written.                                                  *)
LEMMA SameCourseStaysCovered ==
    ASSUME CoursesTypeOK, NewIsUnknown, CoursesNext, CourseCovered,
           course'.classIds = course.classIds, course.userIds \subseteq course'.userIds
    PROVE  CourseCovered'
<1>1. \A c \in course.classIds : class'[c].state = "there" => class[c].state = "there"
  BY StatesGoForward DEF Forward, NewIsUnknown, CoursesTypeOK
<1>2. course'.classIds \cap There' \subseteq course.classIds \cap There
  BY <1>1 DEF There, CoursesTypeOK
<1>3. StudentsOf(course'.classIds \cap There') \subseteq StudentsOf(course.classIds \cap There)
  BY <1>2, StudentsOfFewer
<1>. QED BY <1>3 DEF CourseCovered, StudentsOf

LEMMA CoverStep == CoursesTypeOK /\ NewIsUnknown /\ WillCover /\ CoursesNext => WillCover'
<1> SUFFICES ASSUME CoursesTypeOK, NewIsUnknown, WillCover, CoursesNext PROVE WillCover'
  OBVIOUS
<1>d. edit \in [Edits -> EditType]
  BY DEF CoursesTypeOK
(* An action of an edit that neither writes nor adds, and of no edit.      *)
<1>a. ASSUME course' = course, unfinished' = unfinished, NEW e \in Edits, ~EditAt(e, "write"), ~EditAt(e, "add"),
             \A x \in Edits \ {e} : edit'[x] = edit[x]
      PROVE  WillCover'
  <2>1. CourseCovered => CourseCovered'
    BY <1>a, SameCourseStaysCovered
  <2>. QED BY <1>a, <2>1 DEF WillCover, EditAt
<1>b. ASSUME course'.classIds = course.classIds, course.userIds \subseteq course'.userIds,
             unfinished' = unfinished, edit' = edit
      PROVE  WillCover'
  <2>1. CourseCovered => CourseCovered'
    BY <1>b, SameCourseStaysCovered
  <2>. QED BY <1>b, <2>1 DEF WillCover, EditAt
<1>1. ASSUME NEW e \in Edits, EditCourse(e) PROVE WillCover'
  BY <1>1, <1>a, <1>d DEF EditCourse, Begin, SetEdit, EditAt
<1>2. ASSUME NEW e \in Edits, ReadCourse(e) PROVE WillCover'
  BY <1>2, <1>a, <1>d DEF ReadCourse, SetEdit, EditAt
<1>3. ASSUME NEW e \in Edits, PullStudents(e) PROVE WillCover'
  <2>1. edit'[e].pc = "write"
    BY <1>3, <1>d DEF PullStudents, SetEdit
  <2>. QED BY <2>1 DEF WillCover, EditAt
<1>4. ASSUME NEW e \in Edits, WriteCourse(e) PROVE WillCover'
  <2>1. edit[e] \in [pc : {"read", "write", "add"}, classIds : SUBSET Classes, userIds : SUBSET Students]
    BY <1>4, EditFields DEF WriteCourse, EditAt
  <2>2. edit'[e].pc = "add" /\ edit'[e].classIds = course'.classIds
    BY <1>4, <2>1, <1>d DEF WriteCourse, SetEdit
  <2>. QED BY <2>2 DEF WillCover, EditAt
<1>5. ASSUME NEW e \in Edits, AddStudents(e) PROVE WillCover'
  <2>1. CASE ~(edit[e].classIds \subseteq There)
    BY <1>5, <2>1 DEF AddStudents, Added, WillCover
  <2>2. CASE edit[e].classIds \subseteq There /\ edit[e].classIds = course.classIds
    <3>1. course' = [course EXCEPT !.userIds = @ \cup StudentsOf(course.classIds)] /\ There' = There
      BY <1>5, <2>2 DEF AddStudents, Added, There
    <3>2. course'.classIds = course.classIds /\ StudentsOf(course.classIds) \subseteq course'.userIds
      BY <3>1 DEF CoursesTypeOK
    <3>3. StudentsOf(course'.classIds \cap There') \subseteq StudentsOf(course.classIds)
      BY <3>1, <3>2, StudentsOfFewer
    <3>. QED BY <3>2, <3>3 DEF WillCover, CourseCovered, StudentsOf
  <2>3. CASE edit[e].classIds \subseteq There /\ edit[e].classIds # course.classIds
    <3>1. course' = [course EXCEPT !.userIds = @ \cup StudentsOf(edit[e].classIds)] /\ unfinished' = unfinished
      BY <1>5, <2>3 DEF AddStudents, Added
    <3>2. course'.classIds = course.classIds /\ course.userIds \subseteq course'.userIds
      BY <3>1 DEF CoursesTypeOK
    <3>3. CourseCovered => CourseCovered'
      BY <3>2, SameCourseStaysCovered
    <3>4. \A x \in Edits \ {e} : edit'[x] = edit[x]
      BY <1>5, <1>d DEF AddStudents, SetEdit
    <3>. QED BY <1>5, <2>3, <3>1, <3>2, <3>3, <3>4 DEF WillCover, EditAt, AddStudents
  <2>. QED BY <2>1, <2>2, <2>3
<1>6. ASSUME NEW e \in Edits, Join(e) PROVE WillCover'
  BY <1>6, <1>b DEF Join, CoursesTypeOK
<1>7. ASSUME NEW e \in Edits, CreateClass(e) PROVE WillCover'
  BY <1>7, <1>a, <1>d DEF CreateClass, Begin, SetEdit, EditAt
<1>8. ASSUME NEW e \in Edits, StoreClass(e) PROVE WillCover'
  BY <1>8, <1>a, <1>d DEF StoreClass, SetEdit, EditAt
<1>9. ASSUME NEW e \in Edits, Link(e) PROVE WillCover'
  BY <1>9, <1>a, <1>d DEF Link, SetEdit, EditAt
<1>10. ASSUME NEW e \in Edits, RemoveClass(e) PROVE WillCover'
  BY <1>10, <1>b DEF RemoveClass
<1>11. ASSUME NEW c \in Classes, HearRemoval(c) PROVE WillCover'
  BY <1>11, <1>b DEF HearRemoval
<1>12. ASSUME NEW c \in Classes, NEW p \in Classes, UnsetSuccessor(p, c) PROVE WillCover'
  BY <1>12, <1>b DEF UnsetSuccessor
<1>. QED BY <1>1, <1>2, <1>3, <1>4, <1>5, <1>6, <1>7, <1>8, <1>9, <1>10, <1>11, <1>12 DEF CoursesNext
-----------------------------------------------------------------------------
LEMMA SuccessorInit == CoursesInit => SuccessorInv
<1> SUFFICES ASSUME CoursesInit PROVE SuccessorInv
  OBVIOUS
<1>1. PICK first \in Classes :
          class = [c \in Classes |-> [state |-> IF c = first THEN "there" ELSE "new", successor |-> NoClass]]
  BY DEF CoursesInit
<1>2. \A c \in Classes : class[c].successor = NoClass
  BY <1>1
<1>3. \A e \in Edits : ~EditAt(e, "link")
  BY DEF CoursesInit, NoEdit, EditAt
<1>. QED BY <1>2, <1>3, CoursesTypeInit DEF SuccessorInv, LinksKnown, GoneIsHeard, There

LEMMA SuccessorStep == SuccessorInv /\ CoursesNext => LinksKnown' /\ GoneIsHeard'
<1> SUFFICES ASSUME SuccessorInv, CoursesNext PROVE LinksKnown' /\ GoneIsHeard'
  OBVIOUS
<1> USE DEF SuccessorInv, LinksKnown, GoneIsHeard, EditAt
<1>t. /\ class \in [Classes -> [state : {"new", "there", "gone"}, successor : Classes \cup {NoClass}]]
      /\ edit \in [Edits -> EditType]
  BY DEF CoursesTypeOK
(* An edit that goes on to another command than the link.                  *)
<1>a. ASSUME class' = class, removed' = removed, unset' = unset, early' = early, NEW e \in Edits,
             edit'[e].pc # "link", \A x \in Edits \ {e} : edit'[x] = edit[x]
      PROVE  LinksKnown' /\ GoneIsHeard'
  BY <1>a DEF There
<1>1. ASSUME NEW e \in Edits, EditCourse(e) PROVE LinksKnown' /\ GoneIsHeard'
  BY <1>1, <1>a, <1>t DEF EditCourse, Begin, SetEdit
<1>2. ASSUME NEW e \in Edits, ReadCourse(e) PROVE LinksKnown' /\ GoneIsHeard'
  <2>1. edit[e] \in [pc : {"read", "write", "add"}, classIds : SUBSET Classes, userIds : SUBSET Students]
    BY <1>2, EditFields DEF ReadCourse, SuccessorInv
  <2>. QED BY <1>2, <2>1, <1>a, <1>t DEF ReadCourse, SetEdit
<1>3. ASSUME NEW e \in Edits, PullStudents(e) PROVE LinksKnown' /\ GoneIsHeard'
  BY <1>3, <1>a, <1>t DEF PullStudents, SetEdit
<1>4. ASSUME NEW e \in Edits, WriteCourse(e) PROVE LinksKnown' /\ GoneIsHeard'
  <2>1. edit[e] \in [pc : {"read", "write", "add"}, classIds : SUBSET Classes, userIds : SUBSET Students]
    BY <1>4, EditFields DEF WriteCourse, SuccessorInv
  <2>. QED BY <1>4, <2>1, <1>a, <1>t DEF WriteCourse, SetEdit
<1>5. ASSUME NEW e \in Edits, AddStudents(e) PROVE LinksKnown' /\ GoneIsHeard'
  BY <1>5, <1>a, <1>t DEF AddStudents, SetEdit, NoEdit
<1>6. ASSUME NEW e \in Edits, Join(e) PROVE LinksKnown' /\ GoneIsHeard'
  BY <1>6 DEF Join, There
<1>7. ASSUME NEW e \in Edits, CreateClass(e) PROVE LinksKnown' /\ GoneIsHeard'
  BY <1>7, <1>a, <1>t DEF CreateClass, Begin, SetEdit
<1>8. ASSUME NEW e \in Edits, StoreClass(e) PROVE LinksKnown' /\ GoneIsHeard'
  <2>1. PICK c \in Classes :
            /\ class[c].state = "new"
            /\ class' = [class EXCEPT ![c].state = "there"]
            /\ IF edit[e].predecessor = NoClass THEN SetEdit(e, NoEdit)
               ELSE SetEdit(e, [pc |-> "link", class |-> c, predecessor |-> edit[e].predecessor])
    BY <1>8 DEF StoreClass
  <2>2. removed' = removed /\ unset' = unset /\ early' = early
    BY <1>8 DEF StoreClass
  <2>3. There' = There \cup {c} /\ \A x \in Classes : class'[x].successor = class[x].successor
    BY <2>1, <1>t DEF There
  <2>4. class[c].successor = NoClass
    BY <2>1
  <2>5. \A x \in Edits : edit'[x].pc = "link" => edit'[x] = edit[x] \/ edit'[x].class = c
    BY <2>1, <1>t DEF SetEdit, NoEdit
  <2>6. LinksKnown'
    BY <2>1, <2>2, <2>3, <2>5, <1>t
  <2>7. GoneIsHeard'
    <3>1. There \subseteq Classes
      BY DEF There
    <3>2. \A x \in There' : x \in Classes /\ (x = c \/ x \in There)
      BY <2>3, <3>1
    <3>. QED BY <2>2, <2>3, <2>4, <3>2
  <2>. QED BY <2>6, <2>7
<1>9. ASSUME NEW e \in Edits, Link(e) PROVE LinksKnown' /\ GoneIsHeard'
  <2> DEFINE p == edit[e].predecessor
  <2>1. edit[e] \in [pc : {"link"}, class : Classes, predecessor : Classes]
    BY <1>9, EditFields DEF Link, SuccessorInv
  <2>2. edit[e].class \in There \cup early
    BY <1>9 DEF Link
  <2>3. removed' = removed /\ unset' = unset /\ early' = early /\ There' = There
    BY <1>9, <1>t DEF Link, There
  <2>4. \A x \in Classes : \/ class'[x] = class[x]
                           \/ x \in There /\ class'[x].successor = edit[e].class
    <3>1. CASE p \in There
      <4>1. class' = [class EXCEPT ![p].successor = edit[e].class]
        BY <1>9, <3>1 DEF Link
      <4>. QED BY <2>1, <3>1, <4>1, <1>t
    <3>2. CASE p \notin There
      BY <1>9, <3>2 DEF Link
    <3>. QED BY <3>1, <3>2
  <2>5. \A x \in Edits : edit'[x].pc = "link" => edit'[x] = edit[x]
    BY <1>9, <1>t DEF Link, SetEdit, NoEdit
  <2>6. GoneIsHeard'
    BY <2>2, <2>3, <2>4 DEF There
  <2>7. \A x \in Classes : class'[x].state = "new" => class'[x].successor = NoClass
    BY <1>9, <1>t DEF Link, There
  <2>. QED BY <2>3, <2>5, <2>6, <2>7
<1>10. ASSUME NEW e \in Edits, RemoveClass(e) PROVE LinksKnown' /\ GoneIsHeard'
  <2>1. PICK c \in There :
            /\ class' = [class EXCEPT ![c].state = "gone"]
            /\ removed' = removed \cup {c}
            /\ early' = IF \E x \in Edits : EditAt(x, "link") /\ edit[x].class = c THEN early \cup {c} ELSE early
    BY <1>10 DEF RemoveClass
  <2>2. unset' = unset /\ edit' = edit
    BY <1>10 DEF RemoveClass
  <2>3. There' = There \ {c} /\ \A x \in Classes : class'[x].successor = class[x].successor
    BY <2>1, <1>t DEF There
  <2>4. LinksKnown'
    <3>1. \A x \in Edits : edit[x].pc = "link" => edit[x].class \in There' \cup early'
      BY <2>1, <2>3
    <3>2. \A x \in Classes : class'[x].state = "new" => class[x].state = "new"
      BY <2>1, <1>t
    <3>. QED BY <2>2, <2>3, <3>1, <3>2
  <2>5. GoneIsHeard'
    BY <2>1, <2>2, <2>3 DEF There
  <2>. QED BY <2>4, <2>5
<1>11. ASSUME NEW c \in Classes, HearRemoval(c) PROVE LinksKnown' /\ GoneIsHeard'
  <2>1. class' = class /\ edit' = edit /\ early' = early /\ There' = There
    BY <1>11 DEF HearRemoval, There
  <2>2. GoneIsHeard'
    <3> SUFFICES ASSUME NEW x \in There
                 PROVE  \/ class[x].successor \in There \cup early \cup removed' \cup {NoClass}
                        \/ <<x, class[x].successor>> \in unset'
      BY <2>1
    <3>1. CASE class[x].successor = c
      <4>1. x \in Predecessors(c)
        BY <3>1 DEF Predecessors
      <4>. QED BY <3>1, <4>1, <1>11 DEF HearRemoval
    <3>2. CASE class[x].successor # c
      BY <3>2, <1>11 DEF HearRemoval
    <3>. QED BY <3>1, <3>2
  <2>. QED BY <2>1, <2>2
<1>12. ASSUME NEW c \in Classes, NEW p \in Classes, UnsetSuccessor(p, c) PROVE LinksKnown' /\ GoneIsHeard'
  <2>1. removed' = removed /\ edit' = edit /\ early' = early /\ unset' = unset \ {<<p, c>>}
    BY <1>12 DEF UnsetSuccessor
  <2>2. There' = There
    BY <1>12, <1>t DEF UnsetSuccessor, There
  <2>3. \A x \in Classes : class'[x].state = class[x].state
                           /\ (class'[x].successor = NoClass \/ class'[x].successor = class[x].successor)
    BY <1>12, <1>t DEF UnsetSuccessor
  <2>4. p \in There => class'[p].successor = NoClass
    BY <1>12, <1>t DEF UnsetSuccessor
  <2>5. LinksKnown'
    BY <2>1, <2>2, <2>3
  <2>6. GoneIsHeard'
    <3> SUFFICES ASSUME NEW x \in There, class'[x].successor # NoClass
                 PROVE  \/ class'[x].successor \in There \cup early \cup removed
                        \/ <<x, class'[x].successor>> \in unset'
      BY <2>1, <2>2
    <3>1. x # p /\ class'[x].successor = class[x].successor /\ x \in Classes
      BY <2>3, <2>4 DEF There
    <3>. QED BY <2>1, <3>1
  <2>. QED BY <2>5, <2>6
<1>. QED BY <1>1, <1>2, <1>3, <1>4, <1>5, <1>6, <1>7, <1>8, <1>9, <1>10, <1>11, <1>12 DEF CoursesNext
-----------------------------------------------------------------------------
CoursesInv == CoverInv /\ SuccessorInv

LEMMA CoursesInductive == CoursesInv /\ CoursesStep => CoursesInv'
<1>1. CASE CoursesNext
  BY <1>1, CoursesTypeStep, UnknownStep, CoverStep, SuccessorStep DEF CoursesInv, CoverInv, SuccessorInv
<1>2. CASE UNCHANGED courseVars
  BY <1>2 DEF courseVars, CoursesInv, CoverInv, SuccessorInv, CoursesTypeOK, NewIsUnknown, WillCover, CourseCovered,
              EditAt, LinksKnown, GoneIsHeard, There
<1>. QED BY <1>1, <1>2 DEF CoursesStep

(* Every step of the server is one of the courses, or leaves them alone.   *)
LEMMA CourseworkStep == [CourseworkNext]_courseworkVars => CoursesStep
BY DEF CourseworkNext, courseworkVars, CoursesStep, courseVars

LEMMA CoursesInvariant == CourseworkSpec => []CoursesInv
<1>1. CourseworkInit => CoursesInv
  BY CoverInit, SuccessorInit DEF CourseworkInit, CoursesInv
<1>2. CoursesInv /\ [CourseworkNext]_courseworkVars => CoursesInv'
  BY CoursesInductive, CourseworkStep
<1>. QED BY <1>1, <1>2, PTL DEF CourseworkSpec

(* The state of courses, classes and edits keeps its type.                 *)
THEOREM CoursesTypeCorrect == CourseworkSpec => []CoursesTypeOK
<1>1. CoursesInv => CoursesTypeOK
  BY DEF CoursesInv, CoverInv
<1>. QED BY <1>1, CoursesInvariant, PTL

(* Edits of a course pull, write and add in commands of their own; when    *)
(* none is under way, the members of the classes of the course are in it   *)
(* (addWholeClassToCourse, deleteWholeClassFromCourse).                    *)
THEOREM MembersStay == CourseworkSpec => []ClassMembersInCourse
<1>1. CoursesInv => ClassMembersInCourse
  BY DEF CoursesInv, CoverInv, WillCover, CourseCovered, ClassMembersInCourse, CoursesAtRest, EditAt
<1>. QED BY <1>1, CoursesInvariant, PTL

(* However creations, links and removals of classes and the listener       *)
(* interleave, no class keeps a successor that was removed after its link  *)
(* (saveSuccessor, updateClassPredecessors).                               *)
THEOREM RemovedSuccessorsUnset == CourseworkSpec => []NoDanglingSuccessor
<1>1. CoursesInv => NoDanglingSuccessor
  BY DEF CoursesInv, SuccessorInv, GoneIsHeard, NoDanglingSuccessor, CoursesAtRest
<1>. QED BY <1>1, CoursesInvariant, PTL
-----------------------------------------------------------------------------
(* Submissions: a request that is written anew keeps the type of all.      *)
LEMMA CallSet ==
    ASSUME SubmissionsTypeOK, NEW c \in Calls, NEW new \in CallType, SetCall(c, new)
    PROVE  call' \in [Calls -> CallType]
BY DEF SubmissionsTypeOK, SetCall

LEMMA CallStarted ==
    ASSUME SubmissionsTypeOK, NEW c \in Calls, NEW new \in CallType, StartCall(c, new),
           UNCHANGED <<homework, submission>>
    PROVE  SubmissionsTypeOK'
<1>1. call' \in [Calls -> CallType]
  BY CallSet DEF StartCall
<1>2. calls' \in Nat /\ overlapped' \in BOOLEAN
  BY DEF StartCall, SubmissionsTypeOK
<1>. QED BY <1>1, <1>2 DEF SubmissionsTypeOK

(* Only a request that names a submission reads one.                       *)
IdsGiven == \A c \in Calls : CallAt(c, "submission") => call[c].id \in Ids

LEMMA IdsGivenStep == SubmissionsTypeOK /\ IdsGiven /\ SubmissionsNext => IdsGiven'
<1> SUFFICES ASSUME SubmissionsTypeOK, IdsGiven, SubmissionsNext PROVE IdsGiven'
  OBVIOUS
<1>1. ASSUME NEW c \in Calls, NEW new, SetCall(c, new), new.pc = "submission" => new.id \in Ids
      PROVE  IdsGiven'
  BY <1>1 DEF IdsGiven, CallAt, SetCall, SubmissionsTypeOK
<1>2. NoCall.pc = "idle"
  BY DEF NoCall
<1>3. ASSUME NEW c \in Calls, Submit(c) PROVE IdsGiven'
  BY <1>1, <1>3 DEF Submit, StartCall, NoCall
<1>4. ASSUME NEW c \in Calls, Patch(c) PROVE IdsGiven'
  BY <1>1, <1>4 DEF Patch, StartCall, NoCall, Stored
<1>5. ASSUME NEW c \in Calls, RemoveSubmission(c) PROVE IdsGiven'
  BY <1>1, <1>5 DEF RemoveSubmission, StartCall, NoCall, Stored
<1>6. ASSUME NEW c \in Calls, ReadSubmission(c) \/ ReadHomework(c) \/ Check(c) \/ Write(c) PROVE IdsGiven'
  <2>1. call[c] \in CallType
    BY DEF SubmissionsTypeOK
  <2>. QED BY <1>1, <1>2, <1>6, <2>1 DEF ReadSubmission, ReadHomework, Check, Write, CallType
<1>7. ASSUME NEW c \in Calls, EditHomework(c) PROVE IdsGiven'
  BY <1>7 DEF EditHomework, IdsGiven, CallAt
<1>. QED BY <1>3, <1>4, <1>5, <1>6, <1>7 DEF SubmissionsNext

LEMMA NoCallType == NoCall \in CallType
BY DEF NoCall, CallType, NoHomework, HomeworkType, NoId

LEMMA MissingType == Missing \in SubmissionType
BY DEF Missing, SubmissionType

LEMMA SubmissionsTypeInit == SubmissionsInit => SubmissionsTypeOK
<1> SUFFICES ASSUME SubmissionsInit PROVE SubmissionsTypeOK
  OBVIOUS
<1>1. homework \in HomeworkType
  <2>1. {[there |-> TRUE, team |-> FALSE, max |-> 0], [there |-> TRUE, team |-> TRUE, max |-> 2]} \subseteq HomeworkType
    BY DEF HomeworkType
  <2>. QED BY <2>1 DEF SubmissionsInit
<1>2. submission \in [Ids -> SubmissionType] /\ call \in [Calls -> CallType]
  BY NoCallType, MissingType DEF SubmissionsInit
<1>. QED BY <1>1, <1>2 DEF SubmissionsInit, SubmissionsTypeOK

LEMMA PatchType == ASSUME SubmissionsTypeOK, NEW c \in Calls, Patch(c) PROVE SubmissionsTypeOK'
<1>1. PICK u \in Pupils \cup {Teacher}, i \in Stored, group, named, changes \in BOOLEAN, team \in SUBSET Pupils :
         /\ group => u \in Group
         /\ ~changes => team = {}
         /\ StartCall(c, [NoCall EXCEPT !.pc = "submission", !.method = "patch", !.user = u, !.id = i, !.group = group,
                                        !.named = named, !.changes = changes, !.members = team])
         /\ UNCHANGED <<homework, submission>>
  BY Zenon DEF Patch
<1>2. [NoCall EXCEPT !.pc = "submission", !.method = "patch", !.user = u, !.id = i, !.group = group,
                     !.named = named, !.changes = changes, !.members = team] \in CallType
  BY NoCallType DEF CallType, Stored
<1>. QED BY <1>1, <1>2, CallStarted

LEMMA SubmissionsTypeStep == SubmissionsTypeOK /\ IdsGiven /\ SubmissionsNext => SubmissionsTypeOK'
<1> SUFFICES ASSUME SubmissionsTypeOK, IdsGiven, NEW c \in Calls,
                    \/ Submit(c) \/ Patch(c) \/ RemoveSubmission(c) \/ ReadSubmission(c) \/ ReadHomework(c)
                    \/ Check(c) \/ Write(c) \/ EditHomework(c)
             PROVE  SubmissionsTypeOK'
  BY DEF SubmissionsNext
<1>t. /\ homework \in HomeworkType /\ submission \in [Ids -> SubmissionType]
      /\ call[c] \in CallType /\ Stored \subseteq Ids
  BY DEF SubmissionsTypeOK, Stored
<1>1. CASE Submit(c)
  <2>1. PICK u \in Pupils, group \in BOOLEAN, team \in SUBSET Pupils :
            StartCall(c, [NoCall EXCEPT !.pc = "homework", !.user = u, !.members = team, !.group = group])
    BY <1>1 DEF Submit
  <2>2. [NoCall EXCEPT !.pc = "homework", !.user = u, !.members = team, !.group = group] \in CallType
    BY NoCallType DEF CallType
  <2>. QED BY <1>1, <2>1, <2>2, CallStarted DEF Submit
<1>2. CASE Patch(c)
  BY <1>2, PatchType
<1>3. CASE RemoveSubmission(c)
  <2>1. PICK u \in Pupils \cup {Teacher}, i \in Stored :
            StartCall(c, [NoCall EXCEPT !.pc = "submission", !.method = "remove", !.user = u, !.id = i])
    BY <1>3 DEF RemoveSubmission
  <2>2. [NoCall EXCEPT !.pc = "submission", !.method = "remove", !.user = u, !.id = i] \in CallType
    BY <1>t, NoCallType DEF CallType
  <2>. QED BY <1>3, <2>1, <2>2, CallStarted DEF RemoveSubmission
<1>4. CASE ReadSubmission(c)
  <2> DEFINE q == call[c]
             s == submission[q.id]
             known == s.members \cup (IF s.group \/ q.group THEN {q.user} ELSE {})
  <2>1. /\ IF s # Missing /\ MayView(q.user, s)
           THEN SetCall(c, [q EXCEPT !.pc = "homework", !.student = s.student, !.known = known])
           ELSE SetCall(c, NoCall)
        /\ UNCHANGED <<homework, submission, calls, overlapped>>
    BY <1>4 DEF ReadSubmission
  <2>2. call' \in [Calls -> CallType]
    <3>1. CASE s # Missing /\ MayView(q.user, s)
      <4>1. s \in SubmissionType
        BY <1>4, <1>t DEF ReadSubmission, IdsGiven
      <4>2. [q EXCEPT !.pc = "homework", !.student = s.student, !.known = known] \in CallType
        BY <1>t, <4>1 DEF CallType, SubmissionType
      <4>. QED BY <2>1, <3>1, <4>2, CallSet
    <3>2. CASE ~(s # Missing /\ MayView(q.user, s))
      BY <2>1, <3>2, NoCallType, CallSet
    <3>. QED BY <3>1, <3>2
  <2>. QED BY <2>1, <2>2 DEF SubmissionsTypeOK
<1>5. CASE ReadHomework(c)
  <2>1. [call[c] EXCEPT !.pc = "check", !.homework = homework] \in CallType
    BY <1>t DEF CallType
  <2>2. call' \in [Calls -> CallType]
    BY <1>5, <2>1, NoCallType, CallSet DEF ReadHomework
  <2>. QED BY <1>5, <2>2 DEF ReadHomework, SubmissionsTypeOK
<1>6. CASE Check(c)
  <2>1. [call[c] EXCEPT !.pc = "write"] \in CallType
    BY <1>t DEF CallType
  <2>2. call' \in [Calls -> CallType]
    BY <1>6, <2>1, NoCallType, CallSet DEF Check
  <2>. QED BY <1>6, <2>2 DEF Check, SubmissionsTypeOK
<1>7. CASE Write(c)
  <2> DEFINE q == call[c]
  <2>1. call' \in [Calls -> CallType]
    BY <1>7, NoCallType, CallSet DEF Write
  <2>2. submission' \in [Ids -> SubmissionType]
    <3>1. CASE q.method = "create"
      <4>1. [student |-> q.user, members |-> q.members, group |-> q.group] \in SubmissionType
        BY <1>t DEF CallType, SubmissionType
      <4>. QED BY <1>7, <1>t, <3>1, <4>1 DEF Write
    <3>2. CASE q.method = "patch"
      <4>1. ASSUME NEW s \in SubmissionType PROVE Written(q, s) \in SubmissionType
        BY <1>t DEF Written, CallType, SubmissionType
      <4>2. submission' = [submission EXCEPT ![q.id] = IF @ = Missing THEN @ ELSE Written(q, @)]
        BY <1>7, <3>2 DEF Write
      <4>. QED BY <1>t, <4>1, <4>2
    <3>3. CASE q.method = "remove"
      <4>1. submission' = [submission EXCEPT ![q.id] = Missing]
        BY <1>7, <3>3 DEF Write
      <4>. QED BY <1>t, <4>1, MissingType
    <3>4. q.method \in {"create", "patch", "remove"}
      BY <1>t DEF CallType
    <3>. QED BY <3>1, <3>2, <3>3, <3>4
  <2>. QED BY <1>7, <2>1, <2>2 DEF Write, SubmissionsTypeOK
<1>8. CASE EditHomework(c)
  BY <1>8 DEF EditHomework, SubmissionsTypeOK
<1>. QED BY <1>1, <1>2, <1>3, <1>4, <1>5, <1>6, <1>7, <1>8

(* The state of courses, classes, homework, submissions and of the         *)
(* requests about them keeps its type.                                     *)
THEOREM CourseworkTypeCorrect == CourseworkSpec => []CourseworkTypeOK
<1> DEFINE Inv == SubmissionsTypeOK /\ IdsGiven
<1>1. CourseworkInit => Inv
  <2>1. SubmissionsInit => IdsGiven
    BY DEF SubmissionsInit, IdsGiven, CallAt, NoCall
  <2>. QED BY <2>1, SubmissionsTypeInit DEF CourseworkInit
<1>2. Inv /\ [CourseworkNext]_courseworkVars => Inv'
  <2>1. Inv /\ UNCHANGED submissionVars => Inv'
    BY DEF SubmissionsTypeOK, IdsGiven, CallAt, submissionVars
  <2>. QED BY <2>1, SubmissionsTypeStep, IdsGivenStep DEF CourseworkNext, courseworkVars
<1>3. CoursesTypeOK /\ Inv => CourseworkTypeOK
  BY DEF CourseworkTypeOK
<1>. QED BY <1>1, <1>2, <1>3, CoursesTypeCorrect, PTL DEF CourseworkSpec
-----------------------------------------------------------------------------
(* The messages of a sequence of deliveries.                               *)
Msgs(s) == {s[i].msg : i \in DOMAIN s}

LEMMA RemovedFrom ==
    ASSUME NEW S, NEW s \in Seq(S), NEW i \in 1..Len(s)
    PROVE  /\ RemoveAt(s, i) \in Seq(S)
           /\ Len(RemoveAt(s, i)) = Len(s) - 1
           /\ \A j \in 1..(Len(s) - 1) : RemoveAt(s, i)[j] = IF j < i THEN s[j] ELSE s[j + 1]
<1> DEFINE front == SubSeq(s, 1, i - 1)
           back == SubSeq(s, i + 1, Len(s))
<1>1. Len(s) \in Nat /\ \A j \in 1..Len(s) : s[j] \in S
  BY LenProperties, ElementOfSeq
<1>2. /\ front \in Seq(S) /\ Len(front) = i - 1
      /\ \A j \in 1..(i - 1) : front[j] = s[j]
  BY <1>1, SubSeqProperties, Z3
<1>3. /\ back \in Seq(S) /\ Len(back) = Len(s) - i
      /\ \A j \in 1..(Len(s) - i) : back[j] = s[i + j]
  BY <1>1, SubSeqProperties, Z3
<1>4. RemoveAt(s, i) = front \o back
  BY DEF RemoveAt
<1> HIDE DEF front, back
<1>5. /\ front \o back \in Seq(S)
      /\ Len(front \o back) = Len(front) + Len(back)
      /\ \A j \in 1..(Len(front) + Len(back)) :
            (front \o back)[j] = IF j <= Len(front) THEN front[j] ELSE back[j - Len(front)]
  BY <1>2, <1>3, ConcatProperties
<1>6. i - 1 \in Nat /\ Len(s) - i \in Nat /\ (i - 1) + (Len(s) - i) = Len(s) - 1
  BY <1>1
<1>7. ASSUME NEW j \in 1..(Len(s) - 1)
      PROVE  (front \o back)[j] = IF j < i THEN s[j] ELSE s[j + 1]
  <2>1. (front \o back)[j] = IF j <= i - 1 THEN front[j] ELSE back[j - (i - 1)]
    BY <1>2, <1>3, <1>5, <1>6
  <2>2. CASE j < i
    BY <1>1, <1>2, <2>1, <2>2
  <2>3. CASE ~(j < i)
    <3>1. j - (i - 1) \in 1..(Len(s) - i) /\ i + (j - (i - 1)) = j + 1 /\ ~(j <= i - 1)
      BY <1>1, <2>3
    <3> QED BY <1>3, <2>1, <2>3, <3>1
  <2> QED BY <2>2, <2>3
<1> QED
  BY <1>2, <1>3, <1>4, <1>5, <1>6, <1>7

LEMMA MsgsJoined ==
    ASSUME NEW S, NEW s \in Seq(S), NEW t \in Seq(S)
    PROVE  Msgs(s \o t) = Msgs(s) \cup Msgs(t)
<1>1. /\ DOMAIN s = 1..Len(s) /\ DOMAIN t = 1..Len(t) /\ Len(s) \in Nat /\ Len(t) \in Nat
      /\ DOMAIN (s \o t) = 1..(Len(s) + Len(t))
      /\ \A i \in 1..(Len(s) + Len(t)) : (s \o t)[i] = IF i <= Len(s) THEN s[i] ELSE t[i - Len(s)]
  BY LenProperties, ConcatProperties
<1>2. ASSUME NEW m \in Msgs(s \o t) PROVE m \in Msgs(s) \cup Msgs(t)
  BY <1>1, <1>2 DEF Msgs
<1>3. ASSUME NEW m \in Msgs(s) PROVE m \in Msgs(s \o t)
  BY <1>1, <1>3 DEF Msgs
<1>4. ASSUME NEW m \in Msgs(t) PROVE m \in Msgs(s \o t)
  <2>1. PICK i \in 1..Len(t) : m = t[i].msg
    BY <1>1, <1>4 DEF Msgs
  <2>2. i + Len(s) \in 1..(Len(s) + Len(t)) /\ ~(i + Len(s) <= Len(s)) /\ (i + Len(s)) - Len(s) = i
    BY <1>1
  <2>3. (s \o t)[i + Len(s)] = t[i]
    BY <1>1, <2>2
  <2> QED BY <1>1, <2>1, <2>2, <2>3 DEF Msgs
<1> QED
  BY <1>2, <1>3, <1>4

LEMMA MsgsOne == \A d : Msgs(<<d>>) = {d.msg}
BY DEF Msgs

LEMMA MsgsOfTail ==
    ASSUME NEW S, NEW s \in Seq(S), s # <<>>
    PROVE  Msgs(s) = {Head(s).msg} \cup Msgs(Tail(s))
<1>1. /\ DOMAIN s = 1..Len(s) /\ Len(s) \in Nat \ {0} /\ DOMAIN Tail(s) = 1..(Len(s) - 1)
      /\ Head(s) = s[1] /\ \A i \in 1..(Len(s) - 1) : Tail(s)[i] = s[i + 1]
  BY LenProperties, EmptySeq, HeadTailProperties
<1>2. ASSUME NEW m \in Msgs(s) PROVE m \in {Head(s).msg} \cup Msgs(Tail(s))
  <2>1. PICK i \in 1..Len(s) : m = s[i].msg
    BY <1>1, <1>2 DEF Msgs
  <2>2. CASE i = 1
    BY <1>1, <2>1, <2>2
  <2>3. CASE i # 1
    <3>1. i - 1 \in 1..(Len(s) - 1) /\ (i - 1) + 1 = i
      BY <1>1, <2>3
    <3>2. Tail(s)[i - 1] = s[i]
      BY <1>1, <3>1
    <3> QED BY <1>1, <2>1, <3>1, <3>2 DEF Msgs
  <2> QED BY <2>2, <2>3
<1>3. Msgs(Tail(s)) \subseteq Msgs(s)
  BY <1>1 DEF Msgs
<1>4. Head(s).msg \in Msgs(s)
  BY <1>1 DEF Msgs
<1> QED
  BY <1>2, <1>3, <1>4

LEMMA MsgsTyped ==
    ASSUME NEW S, NEW D, \A d \in D : d.msg \in S, NEW s \in Seq(D)
    PROVE  Msgs(s) \subseteq S
BY LenProperties, ElementOfSeq DEF Msgs

-----------------------------------------------------------------------------
(* The queue: every message of it is ready or with its consumer, and each  *)
(* operation moves messages between the two.                               *)
Ready == [msg : Message, redelivered : BOOLEAN]
Unacked(n) == [tag : 1..n, msg : Message, redelivered : BOOLEAN]

LEMMA QueueShape ==
    ASSUME QueueTypeOK(Message)
    PROVE  /\ ready \in Seq(Ready) /\ unacked \in Seq(Unacked(tags))
           /\ Len(ready) \in Nat /\ DOMAIN ready = 1..Len(ready)
           /\ Len(unacked) \in Nat /\ DOMAIN unacked = 1..Len(unacked)
           /\ \A i \in 1..Len(ready) : ready[i] \in Ready
           /\ \A i \in 1..Len(unacked) : unacked[i] \in Unacked(tags)
           /\ Msgs(ready) \subseteq Message /\ Msgs(unacked) \subseteq Message
           /\ tags \in Nat
<1>1. ready \in Seq(Ready) /\ unacked \in Seq(Unacked(tags)) /\ tags \in Nat
  BY DEF QueueTypeOK, Ready, Unacked
<1>2. /\ Len(ready) \in Nat /\ DOMAIN ready = 1..Len(ready)
      /\ Len(unacked) \in Nat /\ DOMAIN unacked = 1..Len(unacked)
  BY <1>1, LenProperties
<1>3. /\ \A i \in 1..Len(ready) : ready[i] \in Ready
      /\ \A i \in 1..Len(unacked) : unacked[i] \in Unacked(tags)
  BY <1>1, ElementOfSeq
<1>4. Msgs(ready) \subseteq Message /\ Msgs(unacked) \subseteq Message
  BY <1>2, <1>3 DEF Msgs, Ready, Unacked
<1> QED
  BY <1>1, <1>2, <1>3, <1>4

LEMMA Closed ==
    ASSUME QueueTypeOK(Message), Close
    PROVE  /\ QueueTypeOK(Message)'
           /\ Msgs(ready') = Msgs(unacked) \cup Msgs(ready)
           /\ unacked' = <<>> /\ ~consuming' /\ tags' = 0
<1> DEFINE back == [i \in DOMAIN unacked |-> [msg |-> unacked[i].msg, redelivered |-> TRUE]]
<1>1. /\ ready' = back \o ready
      /\ unacked' = <<>> /\ consuming' = FALSE /\ tags' = 0
  BY DEF Close
<1>2. back \in [1..Len(unacked) -> Ready]
  BY QueueShape DEF Ready, Unacked
<1>3. back \in Seq(Ready)
  BY <1>2, QueueShape, SeqDef
<1>4. Msgs(back) = Msgs(unacked)
  BY DEF Msgs
<1> HIDE DEF back
<1>5. ready' \in Seq(Ready)
  BY <1>1, <1>3, QueueShape, ConcatProperties
<1>6. Msgs(ready') = Msgs(unacked) \cup Msgs(ready)
  BY <1>1, <1>3, <1>4, QueueShape, MsgsJoined
<1>7. Len(unacked') <= Prefetch /\ unacked' \in Seq([tag : 1..tags', msg : Message, redelivered : BOOLEAN])
  BY <1>1, EmptySeq, RabbitChannelAssumption
<1> QED
  BY <1>1, <1>5, <1>6, <1>7 DEF QueueTypeOK, Ready

LEMMA SentMsgs ==
    ASSUME QueueTypeOK(Message), NEW ms \in Seq(Message), ready' = Sent(ms), UNCHANGED channel
    PROVE  /\ QueueTypeOK(Message)'
           /\ Msgs(ready') = Msgs(ready) \cup {ms[i] : i \in DOMAIN ms}
<1> DEFINE new == [i \in DOMAIN ms |-> [msg |-> ms[i], redelivered |-> FALSE]]
<1>1. ready' = ready \o new
  BY DEF Sent
<1>2. Len(ms) \in Nat /\ DOMAIN ms = 1..Len(ms) /\ \A i \in 1..Len(ms) : ms[i] \in Message
  BY LenProperties, ElementOfSeq
<1>3. new \in [1..Len(ms) -> Ready]
  BY <1>2 DEF Ready
<1>4. new \in Seq(Ready)
  BY <1>2, <1>3, SeqDef
<1>5. Msgs(new) = {ms[i] : i \in DOMAIN ms}
  BY DEF Msgs
<1> HIDE DEF new
<1>6. ready' \in Seq(Ready)
  BY <1>1, <1>4, QueueShape, ConcatProperties
<1>7. Msgs(ready') = Msgs(ready) \cup {ms[i] : i \in DOMAIN ms}
  BY <1>1, <1>4, <1>5, QueueShape, MsgsJoined
<1> QED
  BY <1>6, <1>7 DEF QueueTypeOK, Ready, channel

LEMMA Delivered ==
    ASSUME QueueTypeOK(Message), Deliver
    PROVE  /\ QueueTypeOK(Message)'
           /\ Head(ready) \in Ready
           /\ Msgs(ready) = {Head(ready).msg} \cup Msgs(ready')
           /\ tags' = tags + 1 /\ consuming /\ consuming'
           /\ Len(unacked') = Len(unacked) + 1
           /\ \A i \in 1..Len(unacked) : unacked'[i] = unacked[i]
           /\ unacked'[Len(unacked) + 1] = Delivery(tags + 1, Head(ready))
<1>1. /\ consuming /\ ready # <<>> /\ Len(unacked) < Prefetch
      /\ tags' = tags + 1 /\ unacked' = Append(unacked, Delivery(tags + 1, Head(ready)))
      /\ ready' = Tail(ready) /\ consuming' = consuming
  BY DEF Deliver
<1>2. Head(ready) \in Ready /\ ready' \in Seq(Ready)
  BY <1>1, QueueShape, HeadTailProperties
<1>3. Msgs(ready) = {Head(ready).msg} \cup Msgs(ready')
  BY <1>1, QueueShape, MsgsOfTail
<1>4. Delivery(tags + 1, Head(ready)) \in Unacked(tags + 1)
  BY <1>2, QueueShape DEF Delivery, Ready, Unacked
<1>5. Unacked(tags) \subseteq Unacked(tags + 1)
  BY QueueShape DEF Unacked
<1>6. unacked \in Seq(Unacked(tags + 1))
  BY <1>5, QueueShape, SeqMonotonic
<1>7. /\ unacked' \in Seq(Unacked(tags + 1))
      /\ Len(unacked') = Len(unacked) + 1
      /\ \A i \in 1..Len(unacked) : unacked'[i] = unacked[i]
      /\ unacked'[Len(unacked) + 1] = Delivery(tags + 1, Head(ready))
  BY <1>1, <1>4, <1>6, AppendProperties
<1>8. Len(unacked') <= Prefetch /\ tags' \in Nat
  BY <1>1, <1>7, QueueShape, RabbitChannelAssumption
<1>9. QueueTypeOK(Message)'
  BY <1>1, <1>2, <1>7, <1>8 DEF QueueTypeOK, Ready, Unacked
<1> QED
  BY <1>1, <1>2, <1>3, <1>7, <1>9

(* A tag that is settled is that of a delivery, or of none: then a channel *)
(* that is open is closed.                                                 *)
Settled(tag, requeue) ==
    \/ /\ Known(tag) /\ Place(tag) \in 1..Len(unacked) /\ unacked[Place(tag)].tag = tag
       /\ unacked' = RemoveAt(unacked, Place(tag)) /\ UNCHANGED <<consuming, tags>>
       /\ Msgs(ready') = Msgs(ready) \cup (IF requeue THEN {unacked[Place(tag)].msg} ELSE {})
    \/ ~Known(tag) /\ consuming /\ Close
    \/ ~Known(tag) /\ ~consuming /\ UNCHANGED queue

LEMMA PlaceOfKnown ==
    ASSUME QueueTypeOK(Message), NEW tag, Known(tag)
    PROVE  Place(tag) \in 1..Len(unacked) /\ unacked[Place(tag)].tag = tag
<1>1. Place(tag) \in DOMAIN unacked /\ unacked[Place(tag)].tag = tag
  BY DEF Known, Place
<1> QED
  BY <1>1, QueueShape

LEMMA Taken ==
    ASSUME QueueTypeOK(Message), NEW i \in 1..Len(unacked), unacked' = RemoveAt(unacked, i),
           ready' \in Seq(Ready), UNCHANGED <<consuming, tags>>
    PROVE  /\ QueueTypeOK(Message)'
           /\ Len(unacked') = Len(unacked) - 1
           /\ \A j \in 1..(Len(unacked) - 1) : unacked'[j] = IF j < i THEN unacked[j] ELSE unacked[j + 1]
<1>1. /\ unacked' \in Seq(Unacked(tags)) /\ Len(unacked') = Len(unacked) - 1
      /\ \A j \in 1..(Len(unacked) - 1) : unacked'[j] = IF j < i THEN unacked[j] ELSE unacked[j + 1]
  BY QueueShape, RemovedFrom
<1>2. Len(unacked) \in Nat /\ Len(unacked) <= Prefetch /\ (~consuming => unacked = <<>>)
  BY QueueShape DEF QueueTypeOK
<1>3. Len(unacked') <= Prefetch
  BY <1>1, <1>2, RabbitChannelAssumption
<1>4. consuming
  BY <1>2, EmptySeq
<1> QED
  BY <1>1, <1>3, <1>4 DEF QueueTypeOK, Ready, Unacked

LEMMA Acked ==
    ASSUME QueueTypeOK(Message), NEW tag, Ack(tag)
    PROVE  QueueTypeOK(Message)' /\ Settled(tag, FALSE)
<1>1. CASE Known(tag)
  <2>1. unacked' = RemoveAt(unacked, Place(tag)) /\ UNCHANGED <<ready, consuming, tags>>
    BY <1>1 DEF Ack, Without
  <2>2. QueueTypeOK(Message)'
    BY <1>1, <2>1, PlaceOfKnown, QueueShape, Taken
  <2> QED BY <1>1, <2>1, <2>2, PlaceOfKnown DEF Settled
<1>2. CASE ~Known(tag) /\ consuming
  BY <1>2, Closed DEF Ack, Misdirected, Settled
<1>3. CASE ~Known(tag) /\ ~consuming
  BY <1>3 DEF Ack, Misdirected, Settled, QueueTypeOK, queue, channel
<1> QED
  BY <1>1, <1>2, <1>3

LEMMA Rejected ==
    ASSUME QueueTypeOK(Message), NEW tag, NEW requeue \in BOOLEAN, Reject(tag, requeue)
    PROVE  QueueTypeOK(Message)' /\ Settled(tag, requeue)
<1>1. CASE Known(tag)
  <2> DEFINE d == [msg |-> unacked[Place(tag)].msg, redelivered |-> TRUE]
  <2>1. /\ unacked' = RemoveAt(unacked, Place(tag)) /\ UNCHANGED <<consuming, tags>>
        /\ ready' = IF requeue THEN <<d>> \o ready ELSE ready
    BY <1>1 DEF Reject, Without
  <2>2. d \in Ready
    BY <1>1, PlaceOfKnown, QueueShape DEF Ready, Unacked
  <2>3. <<d>> \in Seq(Ready) /\ Msgs(<<d>>) = {unacked[Place(tag)].msg}
    BY <2>2, MsgsOne
  <2> HIDE DEF d
  <2>4. <<d>> \o ready \in Seq(Ready) /\ Msgs(<<d>> \o ready) = Msgs(<<d>>) \cup Msgs(ready)
    <3>1. ready \in Seq(Ready)
      BY QueueShape
    <3>2. <<d>> \o ready \in Seq(Ready)
      BY <2>3, <3>1, ConcatProperties
    <3>3. ASSUME NEW one \in Seq(Ready) PROVE Msgs(one \o ready) = Msgs(one) \cup Msgs(ready)
      BY <3>1, MsgsJoined
    <3>. QED BY <2>3, <3>2, <3>3
  <2>5. /\ ready' \in Seq(Ready)
        /\ Msgs(ready') = Msgs(ready) \cup (IF requeue THEN {unacked[Place(tag)].msg} ELSE {})
    BY <2>1, <2>3, <2>4, QueueShape
  <2>6. QueueTypeOK(Message)'
    BY <1>1, <2>1, <2>5, PlaceOfKnown, Taken
  <2> QED BY <1>1, <2>1, <2>5, <2>6, PlaceOfKnown DEF Settled
<1>2. CASE ~Known(tag) /\ consuming
  BY <1>2, Closed DEF Reject, Misdirected, Settled
<1>3. CASE ~Known(tag) /\ ~consuming
  BY <1>3 DEF Reject, Misdirected, Settled, QueueTypeOK, queue, channel
<1> QED
  BY <1>1, <1>2, <1>3

-----------------------------------------------------------------------------
(* What is in order in every state: the types, with what a handler has     *)
(* read; members of a course are its school's and not deleted; who is to   *)
(* be removed is deleted.                                                  *)
HandlersOK ==
    /\ handler \in [Handlers -> HandlerType]
    /\ \A h \in Handlers : handler[h].pc = "build" =>
          /\ handler[h].msg.about \notin Muted
          /\ handler[h].msg.action = "syncRoom" => handler[h].read \subseteq May(handler[h].msg.about)
          /\ handler[h].msg.action = "syncUser" => handler[h].read \subseteq Rooms

RoomsOK ==
    /\ exists \in [Rooms -> BOOLEAN] /\ archived \in [Rooms -> BOOLEAN]
    /\ members \in [Rooms -> SUBSET Users] /\ gone \subseteq Users /\ active \in BOOLEAN
    /\ \A r \in Rooms : members[r] \subseteq May(r) /\ (r \in Courses => members[r] \cap gone = {})
MutedOK == muted \in BOOLEAN /\ (active \/ muted)

OrdersOK ==
    /\ external \in Seq(OrderType) /\ matrix \in [Rooms -> (SUBSET Users) \cup {NoRoom}]
    /\ lost \in BOOLEAN /\ overtaken \in BOOLEAN /\ mistaken \in BOOLEAN

InUse == Msgs(ready) \cup Msgs(unacked) \cup {handler[h].msg : h \in Handlers}
DeletionsOK == \A m \in InUse : m.action = "deleteUser" => m.about \in gone

BaseInv == QueueTypeOK(Message) /\ HandlersOK /\ RoomsOK /\ MutedOK /\ OrdersOK /\ DeletionsOK

LEMMA BaseIsTyped == BaseInv => TypeOK
BY DEF BaseInv, HandlersOK, RoomsOK, MutedOK, OrdersOK, TypeOK

LEMMA MessageKinds ==
    ASSUME NEW m \in Message
    PROVE  /\ m.action \in {"syncUser", "deleteUser", "syncRoom", "deleteRoom", "syncSchool"}
           /\ m.action \in {"syncUser", "deleteUser"} => m.about \in Users
           /\ m.action \in {"syncRoom", "deleteRoom"} => m.about \in Rooms
           /\ m.action = "syncSchool" => m.about = NoUser
           /\ m.schoolSync \in BOOLEAN
BY DEF Message

LEMMA Kinships ==
    /\ Users \cap Rooms = {} /\ NoUser \notin Users /\ NoUser \notin Rooms
    /\ Courses \subseteq Rooms /\ Muted \subseteq Users
    /\ \A r \in Rooms : r \notin Courses <=> r \in TeamRooms
BY MessengerAssumption DEF Rooms

LEMMA SeqOfSet ==
    ASSUME NEW S, IsFiniteSet(S)
    PROVE  /\ SetToSeq(S) \in Seq(S)
           /\ \A i \in DOMAIN SetToSeq(S) : SetToSeq(S)[i] \in S
<1>1. Cardinality(S) \in Nat /\ ExistsBijection(1..Cardinality(S), S)
  BY FS_CardinalityType
<1>2. PICK f \in [1..Cardinality(S) -> S] : IsInjective(f)
  BY <1>1 DEF ExistsBijection, Bijection, Injection
<1>3. SetToSeq(S) \in [1..Cardinality(S) -> S]
  BY <1>2 DEF SetToSeq
<1> QED
  BY <1>1, <1>3, SeqDef

LEMMA IdleType == Idle \in HandlerType /\ NoMsg \in Message
BY DEF Idle, HandlerType, NoMsg, Msg, Message

(* Who ends leaves the others as they are, but for their channel.          *)
LEMMA LeftHandlers ==
    ASSUME HandlersOK, consuming' \in BOOLEAN
    PROVE  /\ Left \in [Handlers -> HandlerType]
           /\ \A g \in Handlers : /\ Left[g].pc = handler[g].pc /\ Left[g].tag = handler[g].tag
                                  /\ Left[g].msg = handler[g].msg /\ Left[g].read = handler[g].read
                                  /\ Left[g].again = handler[g].again
                                  /\ Left[g].outlived <=> handler[g].outlived \/ (handler[g].pc # "idle" /\ ~consuming')
<1>1. ASSUME NEW g \in Handlers
      PROVE  /\ handler[g] \in HandlerType
             /\ Left[g] = [handler[g] EXCEPT !.outlived = @ \/ (handler[g].pc # "idle" /\ ~consuming')]
  BY DEF HandlersOK, Left
<1>2. ASSUME NEW g \in Handlers
      PROVE  /\ Left[g] \in HandlerType
             /\ Left[g].pc = handler[g].pc /\ Left[g].tag = handler[g].tag
             /\ Left[g].msg = handler[g].msg /\ Left[g].read = handler[g].read
             /\ Left[g].again = handler[g].again
             /\ Left[g].outlived <=> handler[g].outlived \/ (handler[g].pc # "idle" /\ ~consuming')
  <2>1. PICK b \in BOOLEAN : b <=> handler[g].outlived \/ (handler[g].pc # "idle" /\ ~consuming')
    OBVIOUS
  <2>2. handler[g].outlived \in BOOLEAN
    BY <1>1 DEF HandlerType
  <2>3. Left[g] = [handler[g] EXCEPT !.outlived = b]
    BY <1>1, <2>1, <2>2
  <2>. QED BY <1>1, <2>1, <2>3 DEF HandlerType
<1>3. Left \in [Handlers -> HandlerType]
  BY <1>2 DEF Left
<1>. QED BY <1>2, <1>3

LEMMA DoneHandlers ==
    ASSUME HandlersOK, consuming' \in BOOLEAN, NEW h \in Handlers, Done(h)
    PROVE  /\ handler' \in [Handlers -> HandlerType]
           /\ handler'[h] = Idle
           /\ \A g \in Handlers : handler'[g] = Idle \/ (g # h /\ handler'[g] = Left[g])
           /\ consuming' => \A g \in Handlers : g # h => handler'[g] = Left[g]
BY LeftHandlers, IdleType DEF Done

LEMMA DoneKeepsHandlers ==
    ASSUME HandlersOK, consuming' \in BOOLEAN, NEW h \in Handlers, Done(h)
    PROVE  HandlersOK' /\ {handler'[g].msg : g \in Handlers} \subseteq {handler[g].msg : g \in Handlers} \cup {NoMsg}
<1>1. \A g \in Handlers : handler'[g] = Idle \/ handler'[g] = Left[g]
  BY DoneHandlers
<1>2. \A g \in Handlers : Idle.pc = "idle" /\ Idle.msg = NoMsg
  BY DEF Idle
<1>3. HandlersOK'
  BY <1>1, <1>2, DoneHandlers, LeftHandlers DEF HandlersOK, May
<1>4. \A g \in Handlers : handler'[g].msg \in {handler[k].msg : k \in Handlers} \cup {NoMsg}
  BY <1>1, <1>2, LeftHandlers
<1> QED
  BY <1>3, <1>4

LEMMA SettledMsgs ==
    ASSUME QueueTypeOK(Message), NEW tag, NEW requeue \in BOOLEAN, Settled(tag, requeue)
    PROVE  /\ Msgs(ready) \subseteq Msgs(ready')
           /\ Msgs(ready') \subseteq Msgs(ready) \cup Msgs(unacked)
           /\ Msgs(unacked') \subseteq Msgs(unacked)
           /\ consuming' \in BOOLEAN
<1>1. CASE Known(tag)
  <2> DEFINE i == Place(tag)
  <2>1. /\ i \in 1..Len(unacked) /\ unacked' = RemoveAt(unacked, i) /\ consuming' = consuming
        /\ Msgs(ready') = Msgs(ready) \cup (IF requeue THEN {unacked[i].msg} ELSE {})
    BY <1>1 DEF Settled
  <2> HIDE DEF i
  <2>2. unacked[i].msg \in Msgs(unacked)
    BY <2>1, QueueShape DEF Msgs
  <2>3. /\ Len(unacked') = Len(unacked) - 1 /\ DOMAIN unacked' = 1..Len(unacked')
        /\ \A j \in 1..(Len(unacked) - 1) : unacked'[j] = IF j < i THEN unacked[j] ELSE unacked[j + 1]
    BY <2>1, QueueShape, RemovedFrom, LenProperties
  <2>4. Msgs(unacked') \subseteq Msgs(unacked)
    BY <2>3, QueueShape DEF Msgs
  <2> QED BY <2>1, <2>2, <2>4 DEF QueueTypeOK
<1>2. CASE ~Known(tag) /\ consuming
  <2>1. Close
    BY <1>2 DEF Settled
  <2>2. unacked' = <<>> /\ ~consuming' /\ QueueTypeOK(Message)'
        /\ Msgs(ready') = Msgs(unacked) \cup Msgs(ready)
    BY <2>1, Closed
  <2>3. Msgs(<<>>) = {}
    BY DEF Msgs
  <2> QED BY <2>2, <2>3 DEF QueueTypeOK
<1>3. CASE ~Known(tag) /\ ~consuming
  BY <1>3 DEF Settled, queue, channel, QueueTypeOK
<1> QED
  BY <1>1, <1>2, <1>3

-----------------------------------------------------------------------------
(* BaseInv holds at the start, and every action keeps it.                  *)
LEMMA BaseAtStart == ASSUME Init PROVE BaseInv
<1> USE DEF Init, QueueInit
<1>1. QueueTypeOK(Message)
  BY RabbitChannelAssumption, EmptySeq DEF QueueTypeOK
<1>2. HandlersOK
  BY IdleType DEF HandlersOK, Idle
<1>3. RoomsOK /\ MutedOK
  BY Kinships DEF RoomsOK, MutedOK, May
<1>4. OrdersOK
  BY EmptySeq DEF OrdersOK
<1>5. Msgs(<<>>) = {}
  BY DEF Msgs
<1>6. DeletionsOK
  <2>1. \A m \in InUse : m = NoMsg
    BY <1>5 DEF InUse, Idle
  <2> QED BY <2>1 DEF DeletionsOK, NoMsg, Msg
<1> QED
  BY <1>1, <1>2, <1>3, <1>4, <1>6 DEF BaseInv

LEMMA DeletionsKept ==
    ASSUME DeletionsOK, gone \subseteq gone', NEW new, InUse' \subseteq InUse \cup new,
           \A m \in new : m.action = "deleteUser" => m.about \in gone'
    PROVE  DeletionsOK'
BY DEF DeletionsOK

LEMMA EmitKeepsBase ==
    ASSUME BaseInv, NEW m \in Message, Emit(m), RoomsOK', gone \subseteq gone',
           m.action = "deleteUser" => m.about \in gone'
    PROVE  BaseInv'
<1>1. /\ ready' = Sent(<<m>>) \/ ready' = ready
      /\ UNCHANGED <<unacked, consuming, tags, handler, external, matrix, overtaken, mistaken>>
      /\ lost' = lost \/ lost' = TRUE
      /\ muted' = (muted \/ ~active')
  BY DEF Emit, channel
<1>2. QueueTypeOK(Message)' /\ Msgs(ready') \subseteq Msgs(ready) \cup {m}
  <2>1. CASE ready' = Sent(<<m>>)
    <3>1. <<m>> \in Seq(Message) /\ {<<m>>[i] : i \in DOMAIN <<m>>} = {m}
      OBVIOUS
    <3> QED BY <1>1, <2>1, <3>1, SentMsgs DEF BaseInv, channel
  <2>2. CASE ready' = ready
    BY <1>1, <2>2 DEF BaseInv, QueueTypeOK
  <2> QED BY <1>1, <2>1, <2>2
<1>3. HandlersOK' /\ OrdersOK' /\ MutedOK'
  <2>1. HandlersOK'
    BY <1>1 DEF BaseInv, HandlersOK, May
  <2>2. OrdersOK'
    BY <1>1 DEF BaseInv, OrdersOK
  <2>3. MutedOK'
    BY <1>1 DEF BaseInv, MutedOK, RoomsOK
  <2> QED BY <2>1, <2>2, <2>3
<1>4. InUse' \subseteq InUse \cup {m}
  <2>1. Msgs(unacked') = Msgs(unacked) /\ {handler'[h].msg : h \in Handlers} = {handler[h].msg : h \in Handlers}
    BY <1>1
  <2> QED BY <1>2, <2>1 DEF InUse
<1>5. DeletionsOK'
  BY <1>4 DEF BaseInv, DeletionsOK
<1> QED
  BY <1>2, <1>3, <1>5 DEF BaseInv

LEMMA PatchMembersBase ==
    ASSUME BaseInv, NEW r \in Rooms, PatchMembers(r) PROVE BaseInv'
<1>1. PICK u \in May(r) \ gone :
          members' = [members EXCEPT ![r] = IF u \in @ THEN @ \ {u} ELSE @ \cup {u}]
  BY DEF PatchMembers
<1>2. UNCHANGED <<exists, archived, gone, active>> /\ Emit(RoomSync(r, archived[r]))
  BY DEF PatchMembers
<1>3. u \in Users /\ u \notin gone
  BY DEF May
<1>4. \A k \in Rooms : members'[k] \subseteq members[k] \cup {u} /\ (k # r => members'[k] = members[k])
  BY <1>1 DEF BaseInv, RoomsOK
<1>5. members' \in [Rooms -> SUBSET Users]
  BY <1>1, <1>3 DEF BaseInv, RoomsOK
<1>6. \A k \in Rooms : members'[k] \subseteq May(k) /\ (k \in Courses => members'[k] \cap gone = {})
  BY <1>3, <1>4 DEF BaseInv, RoomsOK
<1>7. RoomsOK'
  BY <1>2, <1>5, <1>6 DEF BaseInv, RoomsOK, May
<1>8. RoomSync(r, archived[r]) \in Message /\ RoomSync(r, archived[r]).action # "deleteUser"
  BY DEF RoomSync, Msg, Message
<1> QED
  BY <1>2, <1>7, <1>8, EmitKeepsBase

LEMMA ArchiveBase ==
    ASSUME BaseInv, NEW r \in Rooms, Archive(r) PROVE BaseInv'
<1>1. RoomsOK' /\ gone' = gone
  BY DEF BaseInv, RoomsOK, Archive, May
<1>2. RoomSync(r, ~archived[r]) \in Message /\ RoomSync(r, ~archived[r]).action # "deleteUser"
  BY DEF RoomSync, Msg, Message
<1> QED
  BY <1>1, <1>2, EmitKeepsBase DEF Archive

LEMMA RemoveRoomBase ==
    ASSUME BaseInv, NEW r \in Rooms, RemoveRoom(r) PROVE BaseInv'
<1>1. RoomsOK' /\ gone' = gone
  BY DEF BaseInv, RoomsOK, RemoveRoom, May
<1>2. Msg("deleteRoom", r, FALSE) \in Message /\ Msg("deleteRoom", r, FALSE).action # "deleteUser"
  BY DEF Msg, Message
<1> QED
  BY <1>1, <1>2, EmitKeepsBase DEF RemoveRoom

LEMMA DeleteUserBase ==
    ASSUME BaseInv, NEW u \in Users, DeleteUser(u) PROVE BaseInv'
<1>1. /\ gone' = gone \cup {u} /\ UNCHANGED <<exists, archived, active>>
      /\ members' = [r \in Rooms |-> IF r \in Courses THEN members[r] \ {u} ELSE members[r]]
      /\ Emit(Msg("deleteUser", u, FALSE))
  BY DEF DeleteUser
<1>2. RoomsOK'
  BY <1>1 DEF BaseInv, RoomsOK, May
<1>3. Msg("deleteUser", u, FALSE) \in Message /\ Msg("deleteUser", u, FALSE).about = u
  BY DEF Msg, Message
<1> QED
  BY <1>1, <1>2, <1>3, EmitKeepsBase

LEMMA PatchUserBase ==
    ASSUME BaseInv, NEW u \in Users, PatchUser(u) PROVE BaseInv'
<1>1. RoomsOK' /\ gone' = gone
  BY DEF BaseInv, RoomsOK, PatchUser, data, May
<1>2. Msg("syncUser", u, FALSE) \in Message /\ Msg("syncUser", u, FALSE).action # "deleteUser"
  BY DEF Msg, Message
<1> QED
  BY <1>1, <1>2, EmitKeepsBase DEF PatchUser

LEMMA PatchSchoolBase ==
    ASSUME BaseInv, PatchSchool PROVE BaseInv'
<1>1. RoomsOK' /\ gone' = gone
  BY DEF BaseInv, RoomsOK, PatchSchool, May
<1>2. Msg("syncSchool", NoUser, FALSE) \in Message /\ Msg("syncSchool", NoUser, FALSE).action # "deleteUser"
  BY DEF Msg, Message
<1> QED
  BY <1>1, <1>2, EmitKeepsBase DEF PatchSchool

-----------------------------------------------------------------------------
(* The handlers.                                                           *)
LEMMA SetKeepsBase ==
    ASSUME HandlersOK, NEW h \in Handlers, NEW new \in HandlerType, Set(h, new),
           new.pc = "build" =>
               /\ new.msg.about \notin Muted
               /\ new.msg.action = "syncRoom" => new.read \subseteq May(new.msg.about)
               /\ new.msg.action = "syncUser" => new.read \subseteq Rooms
    PROVE  /\ HandlersOK' /\ handler'[h] = new
           /\ \A g \in Handlers : g # h => handler'[g] = handler[g]
           /\ {handler'[g].msg : g \in Handlers} \subseteq {handler[g].msg : g \in Handlers} \cup {new.msg}
<1>1. handler' = [handler EXCEPT ![h] = new]
  BY DEF Set
<1>2. /\ handler'[h] = new /\ handler' \in [Handlers -> HandlerType]
      /\ \A g \in Handlers : g # h => handler'[g] = handler[g]
  BY <1>1 DEF HandlersOK
<1>3. HandlersOK'
  BY <1>2 DEF HandlersOK, May
<1> QED
  BY <1>2, <1>3

LEMMA ReceiveBase ==
    ASSUME BaseInv, NEW h \in Handlers, Receive(h) PROVE BaseInv'
<1> DEFINE new == [Idle EXCEPT !.pc = "expand", !.tag = tags + 1, !.msg = Head(ready).msg,
                               !.again = Head(ready).redelivered]
<1>1. /\ Deliver /\ Set(h, new)
      /\ UNCHANGED <<data, external, matrix, histories>>
  BY DEF Receive
<1>2. /\ QueueTypeOK(Message)' /\ Head(ready) \in Ready
      /\ Msgs(ready) = {Head(ready).msg} \cup Msgs(ready')
      /\ Len(unacked') = Len(unacked) + 1
      /\ \A i \in 1..Len(unacked) : unacked'[i] = unacked[i]
      /\ unacked'[Len(unacked) + 1] = Delivery(tags + 1, Head(ready))
  BY <1>1, Delivered DEF BaseInv
<1>3. new \in HandlerType /\ new.pc = "expand" /\ new.msg = Head(ready).msg
  <2>1. Head(ready).msg \in Message /\ Head(ready).redelivered \in BOOLEAN /\ tags + 1 \in Nat
    BY <1>2, QueueShape DEF BaseInv, Ready
  <2> QED BY <2>1 DEF Idle, HandlerType
<1> HIDE DEF new
<1>4. HandlersOK' /\ {handler'[g].msg : g \in Handlers} \subseteq {handler[g].msg : g \in Handlers} \cup {new.msg}
  BY <1>1, <1>3, SetKeepsBase DEF BaseInv
<1>5. Msgs(unacked') \subseteq Msgs(unacked) \cup {Head(ready).msg}
  <2>1. DOMAIN unacked' = 1..(Len(unacked) + 1) /\ Len(unacked) \in Nat /\ DOMAIN unacked = 1..Len(unacked)
    BY <1>2, QueueShape, LenProperties DEF BaseInv, QueueTypeOK
  <2>2. ASSUME NEW i \in DOMAIN unacked' PROVE unacked'[i].msg \in Msgs(unacked) \cup {Head(ready).msg}
    <3>1. CASE i \in 1..Len(unacked)
      BY <1>2, <2>1, <3>1 DEF Msgs
    <3>2. CASE i = Len(unacked) + 1
      BY <1>2, <3>2 DEF Delivery
    <3> QED BY <2>1, <3>1, <3>2
  <2> QED BY <2>2 DEF Msgs
<1>6. InUse' \subseteq InUse
  BY <1>2, <1>3, <1>4, <1>5 DEF InUse
<1>7. DeletionsOK' /\ RoomsOK' /\ MutedOK' /\ OrdersOK'
  BY <1>1, <1>6 DEF BaseInv, DeletionsOK, RoomsOK, MutedOK, OrdersOK, data, histories, May
<1> QED
  BY <1>2, <1>4, <1>7 DEF BaseInv

(* The end of a handler.                                                   *)
LEMMA EndKeepsBase ==
    ASSUME BaseInv, NEW h \in Handlers, NEW requeue \in BOOLEAN, QueueTypeOK(Message)',
           Settled(handler[h].tag, requeue), Done(h)
    PROVE  HandlersOK' /\ InUse' \subseteq InUse \cup {NoMsg} /\ mistaken' \in BOOLEAN
<1>1. /\ Msgs(ready') \subseteq Msgs(ready) \cup Msgs(unacked)
      /\ Msgs(unacked') \subseteq Msgs(unacked) /\ consuming' \in BOOLEAN
  BY SettledMsgs DEF BaseInv
<1>2. HandlersOK' /\ {handler'[g].msg : g \in Handlers} \subseteq {handler[g].msg : g \in Handlers} \cup {NoMsg}
  BY <1>1, DoneKeepsHandlers DEF BaseInv
<1>3. mistaken' \in BOOLEAN
  <2>1. mistaken \in BOOLEAN /\ handler[h].outlived \in BOOLEAN /\ Known(handler[h].tag) \in BOOLEAN
    BY DEF BaseInv, OrdersOK, HandlersOK, HandlerType, Known
  <2>2. mistaken' = (mistaken \/ (handler[h].outlived /\ Known(handler[h].tag)))
    BY DEF Done
  <2> QED BY <2>1, <2>2
<1> QED
  BY <1>1, <1>2, <1>3 DEF InUse

LEMMA NoMsgKept ==
    ASSUME DeletionsOK, UNCHANGED gone, InUse' \subseteq InUse \cup {NoMsg} PROVE DeletionsOK'
BY DEF DeletionsOK, NoMsg, Msg

LEMMA ReadTyped ==
    ASSUME RoomsOK, NEW m \in Message, m.about \notin Muted
    PROVE  /\ Read(m) \subseteq Users \cup Rooms
           /\ m.action = "syncRoom" => Read(m) = members[m.about] /\ Read(m) \subseteq May(m.about)
           /\ m.action = "syncUser" => Read(m) = RoomsOf(m.about) /\ Read(m) \subseteq Rooms
<1>1. m.action = "syncRoom" => /\ Read(m) = members[m.about] /\ members[m.about] \subseteq Users
                               /\ members[m.about] \subseteq May(m.about)
  BY MessageKinds DEF Read, RoomsOK
<1>2. m.action = "syncUser" => Read(m) = RoomsOf(m.about) /\ RoomsOf(m.about) \subseteq Rooms
  BY DEF Read, RoomsOf
<1>3. m.action \notin {"syncRoom", "syncUser"} => Read(m) = {}
  BY DEF Read
<1> QED
  BY <1>1, <1>2, <1>3

LEMMA ExpandBase ==
    ASSUME BaseInv, NEW h \in Handlers, Expand(h) PROVE BaseInv'
<1> DEFINE m == handler[h].msg
           new == [handler[h] EXCEPT !.pc = "build", !.read = Read(m)]
<1>1. handler[h].pc = "expand" /\ UNCHANGED <<data, external, matrix, lost, overtaken, muted>>
  BY DEF Expand
<1>2. m \in Message /\ handler[h] \in HandlerType
  BY DEF BaseInv, HandlersOK, HandlerType
<1>3. RoomsOK' /\ MutedOK'
  BY <1>1 DEF BaseInv, RoomsOK, MutedOK, data, May
<1>4. CASE HasSchool(m) /\ active /\ m.about \notin Muted
  <2>1. Set(h, new) /\ UNCHANGED <<queue, mistaken>>
    BY <1>4 DEF Expand
  <2>2. new \in HandlerType /\ new.pc = "build" /\ new.msg = m /\ new.read = Read(m)
    BY <1>2, <1>4, ReadTyped DEF HandlerType, BaseInv
  <2> HIDE DEF new
  <2>3. HandlersOK' /\ {handler'[g].msg : g \in Handlers} \subseteq {handler[g].msg : g \in Handlers} \cup {m}
    BY <1>2, <1>4, <2>1, <2>2, ReadTyped, SetKeepsBase DEF BaseInv
  <2>4. InUse' \subseteq InUse
    BY <2>1, <2>3 DEF InUse, queue, channel
  <2> QED BY <1>1, <1>3, <2>1, <2>3, <2>4 DEF BaseInv, QueueTypeOK, queue, channel, OrdersOK, DeletionsOK, data
<1>5. CASE ~(HasSchool(m) /\ active /\ m.about \notin Muted)
  <2>1. Reject(handler[h].tag, FALSE) /\ Done(h)
    BY <1>5 DEF Expand, Refuse
  <2>2. QueueTypeOK(Message)' /\ Settled(handler[h].tag, FALSE)
    BY <2>1, Rejected DEF BaseInv
  <2>3. HandlersOK' /\ InUse' \subseteq InUse \cup {NoMsg} /\ mistaken' \in BOOLEAN
    BY <2>1, <2>2, EndKeepsBase
  <2> QED BY <1>1, <1>3, <2>2, <2>3, NoMsgKept DEF BaseInv, OrdersOK, data
<1> QED
  BY <1>4, <1>5

LEMMA BuildTyped ==
    ASSUME BaseInv, NEW h \in Handlers, handler[h].pc = "build", handler[h].msg.action # "syncSchool"
    PROVE  Build(h) \in OrderType
<1> DEFINE m == handler[h].msg
<1>1. m \in Message /\ Priority(m) \in {0, 2}
  BY DEF BaseInv, HandlersOK, HandlerType, Priority
<1>2. /\ m.action = "syncRoom" => handler[h].read \subseteq Users
      /\ m.action = "syncUser" => handler[h].read \subseteq Rooms
  BY DEF BaseInv, HandlersOK, May
<1>3. /\ m.action = "syncRoom" => Build(h) = BuildAddRoom(h)
      /\ m.action = "deleteRoom" => Build(h) = BuildDeleteRoom(h)
      /\ m.action = "deleteUser" => Build(h) = BuildDeleteUser(h)
      /\ m.action = "syncUser" => Build(h) = BuildAddUser(h)
  BY DEF Build
<1>4. Invited(m.about, handler[h].read) \subseteq handler[h].read
  BY DEF Invited
<1>5. m.action = "syncRoom" => BuildAddRoom(h) \in OrderType
  BY <1>1, <1>2, <1>4, MessageKinds DEF BuildAddRoom, Order, OrderType
<1>6. m.action = "deleteRoom" => BuildDeleteRoom(h) \in OrderType
  BY <1>1, MessageKinds DEF BuildDeleteRoom, Order, OrderType
<1>7. m.action = "deleteUser" => BuildDeleteUser(h) \in OrderType
  BY <1>1, MessageKinds DEF BuildDeleteUser, Order, OrderType
<1>8. m.action = "syncUser" => BuildAddUser(h) \in OrderType
  BY <1>1, <1>2, MessageKinds DEF BuildAddUser, Order, OrderType
<1> QED
  BY <1>1, <1>3, <1>5, <1>6, <1>7, <1>8, MessageKinds

LEMMA SendOrderBase ==
    ASSUME BaseInv, NEW h \in Handlers, SendOrder(h) PROVE BaseInv'
<1>1. /\ handler[h].pc = "build" /\ handler[h].msg.action # "syncSchool"
      /\ external' = Append(external, Build(h)) \/ external' = external
      /\ Ack(handler[h].tag) /\ Done(h)
      /\ overtaken' = (overtaken \/ Outdated(h))
      /\ lost' = lost \/ lost' = TRUE
      /\ UNCHANGED <<data, matrix, muted>>
  BY DEF SendOrder, Acknowledge
<1>2. QueueTypeOK(Message)' /\ Settled(handler[h].tag, FALSE)
  BY <1>1, Acked DEF BaseInv
<1>3. HandlersOK' /\ InUse' \subseteq InUse \cup {NoMsg} /\ mistaken' \in BOOLEAN
  BY <1>1, <1>2, EndKeepsBase
<1>4. RoomsOK' /\ MutedOK'
  BY <1>1 DEF BaseInv, RoomsOK, MutedOK, data, May
<1>5. external' \in Seq(OrderType)
  BY <1>1, BuildTyped, AppendProperties DEF BaseInv, OrdersOK
<1>6. overtaken' \in BOOLEAN /\ lost' \in BOOLEAN
  BY <1>1 DEF BaseInv, OrdersOK
<1>7. OrdersOK' /\ DeletionsOK'
  BY <1>1, <1>3, <1>5, <1>6, NoMsgKept DEF BaseInv, OrdersOK, data
<1> QED
  BY <1>2, <1>3, <1>4, <1>7 DEF BaseInv

LEMMA SchoolIsSyncedBase ==
    ASSUME BaseInv, NEW h \in Handlers, SchoolIsSynced(h) PROVE BaseInv'
<1>1. Ack(handler[h].tag) /\ Done(h) /\ UNCHANGED <<data, external, matrix, lost, overtaken, muted>>
  BY DEF SchoolIsSynced, Acknowledge
<1>2. QueueTypeOK(Message)' /\ Settled(handler[h].tag, FALSE)
  BY <1>1, Acked DEF BaseInv
<1>3. HandlersOK' /\ InUse' \subseteq InUse \cup {NoMsg} /\ mistaken' \in BOOLEAN
  BY <1>1, <1>2, EndKeepsBase
<1>4. RoomsOK' /\ MutedOK' /\ OrdersOK' /\ DeletionsOK'
  BY <1>1, <1>3, NoMsgKept DEF BaseInv, RoomsOK, MutedOK, OrdersOK, data, May
<1> QED
  BY <1>2, <1>3, <1>4 DEF BaseInv

LEMMA HandlerFailsBase ==
    ASSUME BaseInv, NEW h \in Handlers, HandlerFails(h) PROVE BaseInv'
<1>1. /\ Reject(handler[h].tag, ~handler[h].again) /\ Done(h)
      /\ lost' = (lost \/ handler[h].again)
      /\ UNCHANGED <<data, external, matrix, overtaken, muted>>
  BY DEF HandlerFails
<1>2. handler[h].again \in BOOLEAN
  BY DEF BaseInv, HandlersOK, HandlerType
<1>3. QueueTypeOK(Message)' /\ Settled(handler[h].tag, ~handler[h].again)
  BY <1>1, <1>2, Rejected DEF BaseInv
<1>4. HandlersOK' /\ InUse' \subseteq InUse \cup {NoMsg} /\ mistaken' \in BOOLEAN
  BY <1>1, <1>2, <1>3, EndKeepsBase
<1>5. RoomsOK' /\ MutedOK' /\ OrdersOK' /\ DeletionsOK'
  BY <1>1, <1>2, <1>4, NoMsgKept DEF BaseInv, RoomsOK, MutedOK, OrdersOK, data, May
<1> QED
  BY <1>3, <1>4, <1>5 DEF BaseInv


LEMMA SendMessagesBase ==
    ASSUME BaseInv, NEW h \in Handlers, NEW to \in {"removals", "acknowledge"},
           NEW S, IsFiniteSet(S), S \subseteq Message, \A m \in S : m.action # "deleteUser",
           ready' = Sent(SetToSeq(S)), Set(h, [handler[h] EXCEPT !.pc = to]),
           UNCHANGED <<channel, data, external, matrix, histories>>
    PROVE  BaseInv'
<1> DEFINE ms == SetToSeq(S)
<1>1. ms \in Seq(Message) /\ {ms[i] : i \in DOMAIN ms} \subseteq S
  BY SeqOfSet, SeqMonotonic
<1> HIDE DEF ms
<1>2. QueueTypeOK(Message)' /\ Msgs(ready') \subseteq Msgs(ready) \cup S
  BY <1>1, SentMsgs DEF BaseInv, ms
<1> DEFINE new == [handler[h] EXCEPT !.pc = to]
<1>3. new \in HandlerType /\ new.pc # "build" /\ new.msg = handler[h].msg
  BY DEF BaseInv, HandlersOK, HandlerType
<1> HIDE DEF new
<1>4. HandlersOK' /\ {handler'[g].msg : g \in Handlers} \subseteq {handler[g].msg : g \in Handlers} \cup {handler[h].msg}
  BY <1>3, SetKeepsBase DEF BaseInv, new
<1>5. InUse' \subseteq InUse \cup S
  <2>1. Msgs(unacked') = Msgs(unacked)
    BY DEF channel
  <2> QED BY <1>2, <1>4, <2>1 DEF InUse
<1>6. RoomsOK' /\ MutedOK' /\ OrdersOK' /\ DeletionsOK'
  BY <1>5 DEF BaseInv, RoomsOK, MutedOK, OrdersOK, DeletionsOK, data, histories, May
<1> QED
  BY <1>2, <1>4, <1>6 DEF BaseInv

LEMMA UsersSent ==
    ASSUME NEW h \in Handlers, SyncSchoolUsers(h)
    PROVE  \E S \in SUBSET Message : /\ IsFiniteSet(S) /\ ready' = Sent(SetToSeq(S))
                                     /\ \A m \in S : m.action # "deleteUser"
<1>1. PICK page \in Pages(Users \ Muted, UserPage) :
          ready' = Sent(SetToSeq({Msg("syncUser", u, TRUE) : u \in page}))
  BY DEF SyncSchoolUsers
<1> DEFINE S == {Msg("syncUser", u, TRUE) : u \in page}
<1>2. page \subseteq Users /\ IsFiniteSet(page)
  BY MessengerAssumption, FS_Subset DEF Pages
<1>3. IsFiniteSet(S)
  <2> DEFINE f == [u \in page |-> Msg("syncUser", u, TRUE)]
  <2>1. f \in Surjection(page, S)
    BY DEF Surjection
  <2> QED BY <1>2, <2>1, FS_Surjection
<1>4. S \subseteq Message /\ \A m \in S : m.action # "deleteUser"
  <2>1. \A u \in page : Msg("syncUser", u, TRUE) \in Message /\ Msg("syncUser", u, TRUE).action # "deleteUser"
    BY <1>2 DEF Msg, Message
  <2> QED BY <2>1
<1> QED
  BY <1>1, <1>3, <1>4

LEMMA RemovalsSent ==
    ASSUME NEW h \in Handlers, SyncSchoolRemovals(h)
    PROVE  \E S \in SUBSET Message : /\ IsFiniteSet(S) /\ ready' = Sent(SetToSeq(S))
                                     /\ \A m \in S : m.action # "deleteUser"
<1>1. PICK page \in Pages({c \in Courses : exists[c]}, CoursePage) :
          ready' = Sent(SetToSeq({Msg("deleteRoom", c, TRUE) : c \in {d \in page : archived[d]}}))
  BY DEF SyncSchoolRemovals
<1> DEFINE P == {d \in page : archived[d]}
           S == {Msg("deleteRoom", c, TRUE) : c \in P}
<1>2. P \subseteq Courses /\ IsFiniteSet(P)
  BY MessengerAssumption, FS_Subset DEF Pages
<1>3. IsFiniteSet(S)
  <2> DEFINE f == [c \in P |-> Msg("deleteRoom", c, TRUE)]
  <2>1. f \in Surjection(P, S)
    BY DEF Surjection
  <2> QED BY <1>2, <2>1, FS_Surjection
<1>4. S \subseteq Message /\ \A m \in S : m.action # "deleteUser"
  <2>1. \A c \in P : Msg("deleteRoom", c, TRUE) \in Message /\ Msg("deleteRoom", c, TRUE).action # "deleteUser"
    BY <1>2, Kinships DEF Msg, Message
  <2> QED BY <2>1
<1> QED
  BY <1>1, <1>3, <1>4

LEMMA SchoolBase ==
    ASSUME BaseInv, NEW h \in Handlers, SyncSchoolUsers(h) \/ SyncSchoolRemovals(h) PROVE BaseInv'
<1>1. PICK to \in {"removals", "acknowledge"} : Set(h, [handler[h] EXCEPT !.pc = to])
  BY DEF SyncSchoolUsers, SyncSchoolRemovals
<1>2. PICK S \in SUBSET Message : /\ IsFiniteSet(S) /\ ready' = Sent(SetToSeq(S))
                                 /\ \A m \in S : m.action # "deleteUser"
  BY UsersSent, RemovalsSent
<1>3. UNCHANGED <<channel, data, external, matrix, histories>>
  BY DEF SyncSchoolUsers, SyncSchoolRemovals
<1> QED
  BY <1>1, <1>2, <1>3, SendMessagesBase

LEMMA ChannelClosesBase == ASSUME BaseInv, ChannelCloses PROVE BaseInv'
<1>1. Close /\ handler' = Left /\ UNCHANGED <<data, external, matrix, histories>>
  BY DEF ChannelCloses
<1>2. QueueTypeOK(Message)' /\ Msgs(ready') = Msgs(unacked) \cup Msgs(ready) /\ unacked' = <<>> /\ consuming' \in BOOLEAN
  <2>1. QueueTypeOK(Message)' /\ Msgs(ready') = Msgs(unacked) \cup Msgs(ready) /\ unacked' = <<>>
    BY <1>1, Closed DEF BaseInv
  <2> QED BY <2>1 DEF QueueTypeOK
<1>3. Msgs(<<>>) = {}
  BY DEF Msgs
<1>4. HandlersOK' /\ {handler'[g].msg : g \in Handlers} = {handler[g].msg : g \in Handlers}
  <2>1. /\ handler' \in [Handlers -> HandlerType]
        /\ \A g \in Handlers : /\ handler'[g].pc = handler[g].pc /\ handler'[g].msg = handler[g].msg
                               /\ handler'[g].read = handler[g].read
    BY <1>1, <1>2, LeftHandlers DEF BaseInv
  <2> QED BY <2>1 DEF BaseInv, HandlersOK, May
<1>5. InUse' \subseteq InUse
  BY <1>2, <1>3, <1>4 DEF InUse
<1> QED
  BY <1>1, <1>2, <1>4, <1>5 DEF BaseInv, RoomsOK, MutedOK, OrdersOK, DeletionsOK, data, histories, May

LEMMA CrashBase == ASSUME BaseInv, Crash PROVE BaseInv'
<1>1. Close /\ handler' = [h \in Handlers |-> Idle] /\ UNCHANGED <<data, external, matrix, histories>>
  BY DEF Crash
<1>2. QueueTypeOK(Message)' /\ Msgs(ready') = Msgs(unacked) \cup Msgs(ready) /\ unacked' = <<>>
  BY <1>1, Closed DEF BaseInv
<1>3. Msgs(<<>>) = {}
  BY DEF Msgs
<1>4. HandlersOK' /\ \A g \in Handlers : handler'[g].msg = NoMsg
  BY <1>1, IdleType DEF HandlersOK, Idle
<1>5. InUse' \subseteq InUse \cup {NoMsg}
  BY <1>2, <1>3, <1>4 DEF InUse
<1> QED
  BY <1>1, <1>2, <1>4, <1>5, NoMsgKept DEF BaseInv, RoomsOK, MutedOK, OrdersOK, data, histories, May

LEMMA ReconnectBase == ASSUME BaseInv, Reconnect PROVE BaseInv'
<1>1. /\ ~consuming /\ consuming' = TRUE /\ UNCHANGED <<ready, unacked, tags>>
      /\ UNCHANGED <<data, handler, external, matrix, histories>>
  BY DEF Reconnect, Reconsume
<1>2. QueueTypeOK(Message)' /\ InUse' = InUse
  BY <1>1 DEF BaseInv, QueueTypeOK, InUse
<1> QED
  BY <1>1, <1>2 DEF BaseInv, HandlersOK, RoomsOK, MutedOK, OrdersOK, DeletionsOK, data, histories, May

LEMMA AppliedType ==
    ASSUME matrix \in [Rooms -> (SUBSET Users) \cup {NoRoom}], NEW o \in OrderType
    PROVE  Applied(o) \in [Rooms -> (SUBSET Users) \cup {NoRoom}]
<1>1. /\ o.users \subseteq Users /\ o.method \in {"addRoom", "removeRoom", "addUser", "removeUser"}
  BY DEF OrderType
<1>2. ASSUME NEW r \in Rooms
      PROVE  Applied(o)[r] \in (SUBSET Users) \cup {NoRoom}
  <2>1. matrix[r] \in (SUBSET Users) \cup {NoRoom}
    OBVIOUS
  <2>2. Applied(o)[r] \in {matrix[r], o.users, NoRoom, matrix[r] \ o.users,
                           (IF IsRoom(r) THEN matrix[r] ELSE {}) \cup o.users}
    BY <1>1 DEF Applied
  <2>3. NoRoom \ o.users = NoRoom
    BY <1>1, Kinships DEF NoRoom
  <2>4. (IF IsRoom(r) THEN matrix[r] ELSE {}) \subseteq Users
    <3>1. CASE matrix[r] = NoRoom
      BY <3>1 DEF IsRoom
    <3>2. CASE matrix[r] # NoRoom
      <4>1. matrix[r] \in SUBSET Users /\ IsRoom(r)
        BY <2>1, <3>2 DEF IsRoom
      <4> QED BY <4>1
    <3> QED BY <3>1, <3>2
  <2>5. matrix[r] \ o.users \in (SUBSET Users) \cup {NoRoom}
    BY <2>1, <2>3
  <2>6. (IF IsRoom(r) THEN matrix[r] ELSE {}) \cup o.users \in SUBSET Users
    BY <1>1, <2>4
  <2> QED BY <1>1, <2>1, <2>2, <2>5, <2>6
<1> QED
  BY <1>2 DEF Applied

LEMMA TakeOrderBase == ASSUME BaseInv, TakeOrder PROVE BaseInv'
<1>1. PICK first \in DOMAIN external :
          /\ matrix' = Applied(external[first])
          /\ external' = RemoveAt(external, first)
          /\ overtaken' = (overtaken \/ \E j \in 1..(first - 1) :
                              external[j].rooms \cap external[first].rooms # {})
  BY DEF TakeOrder
<1>2. UNCHANGED <<queue, data, handler, lost, mistaken, muted>>
  BY DEF TakeOrder
<1>3. external \in Seq(OrderType) /\ first \in 1..Len(external) /\ external[first] \in OrderType
  BY LenProperties, ElementOfSeq DEF BaseInv, OrdersOK
<1>4. external' \in Seq(OrderType)
  BY <1>1, <1>3, RemovedFrom
<1>5. matrix' \in [Rooms -> (SUBSET Users) \cup {NoRoom}]
  BY <1>1, <1>3, AppliedType DEF BaseInv, OrdersOK
<1>6. overtaken' \in BOOLEAN
  BY <1>1 DEF BaseInv, OrdersOK
<1>7. QueueTypeOK(Message)' /\ InUse' = InUse
  BY <1>2 DEF BaseInv, QueueTypeOK, InUse, queue, channel
<1> QED
  BY <1>2, <1>4, <1>5, <1>6, <1>7 DEF BaseInv, HandlersOK, RoomsOK, MutedOK, OrdersOK, DeletionsOK, data, May

LEMMA StutterBase == ASSUME BaseInv, UNCHANGED vars PROVE BaseInv'
BY DEF vars, BaseInv, QueueTypeOK, HandlersOK, RoomsOK, MutedOK, OrdersOK, DeletionsOK, InUse, queue, channel,
       data, histories, May

LEMMA BaseStep == ASSUME BaseInv, [Next]_vars PROVE BaseInv'
<1>1. CASE \E r \in Rooms : PatchMembers(r) \/ Archive(r) \/ RemoveRoom(r)
  BY <1>1, PatchMembersBase, ArchiveBase, RemoveRoomBase
<1>2. CASE \E u \in Users : PatchUser(u) \/ DeleteUser(u)
  BY <1>2, PatchUserBase, DeleteUserBase
<1>3. CASE \E h \in Handlers : Handle(h) \/ HandlerFails(h)
  BY <1>3, ReceiveBase, ExpandBase, SendOrderBase, SchoolBase, SchoolIsSyncedBase,
     HandlerFailsBase DEF Handle
<1>4. CASE PatchSchool \/ ChannelCloses \/ Crash \/ Reconnect \/ TakeOrder
  BY <1>4, PatchSchoolBase, ChannelClosesBase, CrashBase, ReconnectBase, TakeOrderBase
<1> QED
  BY <1>1, <1>2, <1>3, <1>4, StutterBase DEF Next

(* The queues, the handlers, the data and the rooms of the Matrix server   *)
(* have their types in every state; at most Prefetch messages are with the *)
(* consumer, and none without a channel.                                   *)
THEOREM MessengerTypeCorrect == Spec => []TypeOK
<1>1. Init => BaseInv
  BY BaseAtStart
<1>2. BaseInv /\ [Next]_vars => BaseInv'
  BY BaseStep
<1>3. BaseInv => TypeOK
  BY BaseIsTyped
<1> QED
  BY <1>1, <1>2, <1>3, PTL DEF Spec

-----------------------------------------------------------------------------
(* A handler that is at work on a delivery of the open channel is alive:   *)
(* no other one has its tag, and unless a handler of a channel before has  *)
(* settled something by mistake, the broker keeps the message for it.      *)
Alive(h) == handler[h].pc # "idle" /\ ~handler[h].outlived
TagsInRange == \A h \in Handlers : Alive(h) => handler[h].tag \in 1..tags
TagsDistinct ==
    /\ \A i, j \in 1..Len(unacked) : unacked[i].tag = unacked[j].tag => i = j
    /\ \A g, h \in Handlers : Alive(g) /\ Alive(h) /\ handler[g].tag = handler[h].tag => g = h
Kept(h) == \E i \in 1..Len(unacked) : unacked[i].tag = handler[h].tag /\ unacked[i].msg = handler[h].msg
TagInv == TagsInRange /\ TagsDistinct /\ (~mistaken => \A h \in Handlers : Alive(h) => Kept(h))

LEMMA TagFrame ==
    ASSUME TagInv, UNCHANGED <<unacked, tags, mistaken>>,
           \A h \in Handlers : Alive(h)' => Alive(h) /\ handler'[h].tag = handler[h].tag /\ handler'[h].msg = handler[h].msg
    PROVE  TagInv'
<1>1. TagsInRange'
  BY DEF TagInv, TagsInRange
<1>2. TagsDistinct'
  BY DEF TagInv, TagsDistinct
<1>3. ~mistaken' => \A h \in Handlers : Alive(h)' => Kept(h)'
  BY DEF TagInv, Kept
<1> QED
  BY <1>1, <1>2, <1>3 DEF TagInv

LEMMA NoneAlive ==
    ASSUME QueueTypeOK(Message)', TagsDistinct', \A h \in Handlers : ~Alive(h)'
    PROVE  TagInv'
BY DEF TagInv, TagsInRange

LEMMA EmptyDistinct ==
    ASSUME unacked' = <<>>, \A h \in Handlers : ~Alive(h)' PROVE TagInv'
<1>1. Len(unacked') = 0
  BY EmptySeq
<1>2. \A i \in 1..Len(unacked') : FALSE
  BY <1>1
<1> QED
  BY <1>2 DEF TagInv, TagsInRange, TagsDistinct

LEMMA DoneAlive ==
    ASSUME HandlersOK, consuming' \in BOOLEAN, NEW h \in Handlers, Done(h)
    PROVE  /\ ~consuming' => \A g \in Handlers : ~Alive(g)'
           /\ ~Alive(h)'
           /\ consuming' => \A g \in Handlers : g # h => handler'[g] = handler[g]
<1>1. handler'[h] = Idle /\ Idle.pc = "idle"
  BY DoneHandlers DEF Idle
<1>2. ASSUME ~consuming', NEW g \in Handlers PROVE ~Alive(g)'
  <2>1. CASE handler'[g] = Idle
    BY <1>1, <2>1 DEF Alive
  <2>2. CASE handler'[g] = Left[g]
    BY <1>2, <2>2, LeftHandlers DEF Alive
  <2> QED BY <2>1, <2>2, DoneHandlers
<1>3. ASSUME consuming', NEW g \in Handlers, g # h PROVE handler'[g] = handler[g]
  <2>1. handler'[g] = Left[g]
    BY <1>3, DoneHandlers
  <2>2. handler[g].outlived \in BOOLEAN /\ handler[g] \in HandlerType
    BY DEF HandlersOK, HandlerType
  <2>3. Left[g] = [handler[g] EXCEPT !.outlived = handler[g].outlived]
    BY <1>3, <2>2 DEF Left
  <2> QED BY <2>1, <2>2, <2>3 DEF HandlerType
<1> QED
  BY <1>1, <1>2, <1>3 DEF Alive

(* A handler that ends takes nothing from those that are alive.            *)
LEMMA SettleTags ==
    ASSUME BaseInv, TagInv, NEW h \in Handlers, handler[h].pc # "idle", NEW requeue \in BOOLEAN,
           Settled(handler[h].tag, requeue), QueueTypeOK(Message)', Done(h)
    PROVE  TagInv'
<1> DEFINE t == handler[h].tag
<1>1. consuming' \in BOOLEAN /\ HandlersOK
  BY DEF QueueTypeOK, BaseInv
<1>2. /\ ~consuming' => \A g \in Handlers : ~Alive(g)'
      /\ ~Alive(h)'
      /\ consuming' => \A g \in Handlers : g # h => handler'[g] = handler[g]
  BY <1>1, DoneAlive
<1>3. CASE Known(t)
  <2> DEFINE p == Place(t)
  <2>1. /\ p \in 1..Len(unacked) /\ unacked[p].tag = t
        /\ unacked' = RemoveAt(unacked, p) /\ consuming' = consuming /\ tags' = tags
    BY <1>3 DEF Settled
  <2> HIDE DEF p
  <2>2. /\ Len(unacked') = Len(unacked) - 1 /\ Len(unacked) \in Nat
        /\ \A j \in 1..(Len(unacked) - 1) : unacked'[j] = IF j < p THEN unacked[j] ELSE unacked[j + 1]
    BY <2>1, QueueShape, RemovedFrom DEF BaseInv
  <2>3. consuming'
    <3>1. unacked # <<>>
      BY <2>1, <2>2, EmptySeq
    <3> QED BY <2>1, <3>1 DEF BaseInv, QueueTypeOK
  <2>4. \A g \in Handlers : Alive(g)' => g # h /\ handler'[g] = handler[g] /\ Alive(g)
    BY <1>2, <2>3 DEF Alive
  <2>5. TagsInRange'
    BY <2>1, <2>4 DEF TagInv, TagsInRange
  <2>6. TagsDistinct'
    <3>1. ASSUME NEW i \in 1..Len(unacked'), NEW j \in 1..Len(unacked'), unacked'[i].tag = unacked'[j].tag
          PROVE  i = j
      <4>1. i \in 1..(Len(unacked) - 1) /\ j \in 1..(Len(unacked) - 1)
        BY <2>2
      <4> DEFINE k == IF i < p THEN i ELSE i + 1
                 l == IF j < p THEN j ELSE j + 1
      <4>2. k \in 1..Len(unacked) /\ l \in 1..Len(unacked)
        BY <2>1, <2>2, <4>1
      <4>3. unacked'[i] = unacked[k] /\ unacked'[j] = unacked[l]
        BY <2>2, <4>1
      <4>4. k = l
        BY <3>1, <4>2, <4>3 DEF TagInv, TagsDistinct
      <4> QED BY <2>1, <2>2, <4>1, <4>4
    <3> QED BY <2>4, <3>1 DEF TagInv, TagsDistinct
  <2>7. ASSUME ~mistaken', NEW g \in Handlers, Alive(g)' PROVE Kept(g)'
    <3>1. ~mistaken /\ ~handler[h].outlived
      BY <1>3, <2>7 DEF Done
    <3>2. Alive(h) /\ Alive(g) /\ g # h /\ handler'[g] = handler[g]
      BY <2>4, <2>7, <3>1 DEF Alive
    <3>3. handler[g].tag # t
      BY <3>2 DEF TagInv, TagsDistinct
    <3>4. PICK i \in 1..Len(unacked) : unacked[i].tag = handler[g].tag /\ unacked[i].msg = handler[g].msg
      BY <3>1, <3>2 DEF TagInv, Kept
    <3>5. i # p
      BY <2>1, <3>3, <3>4
    <3>6. PICK j \in 1..(Len(unacked) - 1) : unacked'[j] = unacked[i]
      <4>1. CASE i < p
        BY <2>1, <2>2, <4>1
      <4>2. CASE i > p
        <5>1. i - 1 \in 1..(Len(unacked) - 1) /\ ~(i - 1 < p) /\ (i - 1) + 1 = i
          BY <2>1, <2>2, <4>2
        <5> QED BY <2>2, <5>1
      <4> QED BY <2>1, <2>2, <3>5, <4>1, <4>2
    <3> QED BY <2>2, <3>2, <3>4, <3>6 DEF Kept
  <2> QED BY <2>5, <2>6, <2>7 DEF TagInv
<1>4. CASE ~Known(t) /\ consuming
  <2>1. Close
    BY <1>4 DEF Settled
  <2>2. unacked' = <<>> /\ ~consuming'
    BY <2>1, Closed DEF BaseInv
  <2> QED BY <1>2, <2>2, EmptyDistinct
<1>5. CASE ~Known(t) /\ ~consuming
  <2>1. UNCHANGED queue
    BY <1>5 DEF Settled
  <2>2. unacked' = <<>> /\ ~consuming'
    BY <1>5, <2>1 DEF queue, channel, BaseInv, QueueTypeOK
  <2> QED BY <1>2, <2>2, EmptyDistinct
<1> QED
  BY <1>3, <1>4, <1>5

(* What is held by the queue and by handlers that are alive stays so.      *)
Busy == {"expand", "build", "removals", "acknowledge"}
LEMMA SettleHolds ==
    ASSUME BaseInv, TagInv, ~mistaken', NEW h \in Handlers, handler[h].pc # "idle", NEW requeue \in BOOLEAN,
           Settled(handler[h].tag, requeue), QueueTypeOK(Message)', Done(h),
           NEW pcs \in SUBSET Busy, NEW m \in Held(pcs)
    PROVE  \/ m \in Held(pcs)'
           \/ Alive(h) /\ handler[h].pc \in pcs /\ m = handler[h].msg /\ ~requeue
<1> DEFINE t == handler[h].tag
<1>1. consuming' \in BOOLEAN /\ HandlersOK
  BY DEF QueueTypeOK, BaseInv
<1>2. ~mistaken /\ ~(handler[h].outlived /\ Known(t))
  BY DEF Done
<1>3. Msgs(ready) \subseteq Msgs(ready')
  BY SettledMsgs DEF BaseInv
<1>4. Msgs(ready') \subseteq Held(pcs)'
  BY DEF Msgs, Held
<1>5. CASE m \in Msgs(ready)
  BY <1>3, <1>4, <1>5
<1>6. CASE \E g \in Handlers : handler[g].pc \in pcs /\ ~handler[g].outlived /\ m = handler[g].msg
  <2>1. PICK g \in Handlers : handler[g].pc \in pcs /\ ~handler[g].outlived /\ m = handler[g].msg
    BY <1>6
  <2>2. Alive(g)
    BY <2>1 DEF Alive, Busy
  <2>3. PICK i \in 1..Len(unacked) : unacked[i].tag = handler[g].tag /\ unacked[i].msg = handler[g].msg
    BY <1>2, <2>2 DEF TagInv, Kept
  <2>4. consuming
    <3>1. unacked # <<>>
      BY <2>3, EmptySeq
    <3> QED BY <3>1 DEF BaseInv, QueueTypeOK
  <2>5. CASE ~Known(t)
    <3>1. Close
      BY <2>4, <2>5 DEF Settled
    <3>2. Msgs(ready') = Msgs(unacked) \cup Msgs(ready)
      BY <3>1, Closed DEF BaseInv
    <3>3. m \in Msgs(unacked)
      BY <2>1, <2>3, QueueShape DEF Msgs, BaseInv
    <3> QED BY <1>4, <3>2, <3>3
  <2>6. CASE Known(t) /\ g # h
    <3>1. consuming'
      BY <2>4, <2>6 DEF Settled
    <3>2. handler'[g] = handler[g]
      BY <1>1, <2>6, <3>1, DoneAlive
    <3> QED BY <2>1, <3>2 DEF Held
  <2>7. CASE Known(t) /\ g = h
    <3>1. Place(t) \in 1..Len(unacked) /\ unacked[Place(t)].tag = t
      BY <2>7, PlaceOfKnown DEF BaseInv
    <3>2. Place(t) = i
      BY <2>3, <2>7, <3>1 DEF TagInv, TagsDistinct
    <3>3. requeue => m \in Msgs(ready')
      BY <2>1, <2>3, <2>7, <3>2 DEF Settled
    <3> QED BY <1>4, <2>1, <2>2, <2>7, <3>3
  <2> QED BY <2>5, <2>6, <2>7
<1> QED
  BY <1>5, <1>6 DEF Held, Msgs

LEMMA CloseHolds ==
    ASSUME BaseInv, TagInv, ~mistaken, Close, NEW pcs \in SUBSET Busy, NEW m \in Held(pcs)
    PROVE  m \in Held(pcs)'
<1>1. Msgs(ready') = Msgs(unacked) \cup Msgs(ready)
  BY Closed DEF BaseInv
<1>2. Msgs(ready') \subseteq Held(pcs)'
  BY DEF Msgs, Held
<1>3. CASE m \in Msgs(ready)
  BY <1>1, <1>2, <1>3
<1>4. CASE \E g \in Handlers : handler[g].pc \in pcs /\ ~handler[g].outlived /\ m = handler[g].msg
  <2>1. PICK g \in Handlers : handler[g].pc \in pcs /\ ~handler[g].outlived /\ m = handler[g].msg
    BY <1>4
  <2>2. Kept(g)
    BY <2>1 DEF TagInv, Alive, Busy
  <2>3. m \in Msgs(unacked)
    BY <2>1, <2>2, QueueShape DEF Kept, Msgs, BaseInv
  <2> QED BY <1>1, <1>2, <2>3
<1> QED
  BY <1>3, <1>4 DEF Held, Msgs


LEMMA EmitTags ==
    ASSUME TagInv, NEW m, Emit(m) PROVE TagInv'
<1>1. UNCHANGED <<unacked, tags, mistaken, handler>>
  BY DEF Emit, channel
<1> QED
  BY <1>1, TagFrame DEF Alive

LEMMA ReceiveTags ==
    ASSUME BaseInv, TagInv, NEW h \in Handlers, Receive(h) PROVE TagInv'
<1> DEFINE new == [Idle EXCEPT !.pc = "expand", !.tag = tags + 1, !.msg = Head(ready).msg,
                               !.again = Head(ready).redelivered]
           n == Len(unacked)
<1>1. Deliver /\ Set(h, new) /\ mistaken' = mistaken
  BY DEF Receive, histories
<1>2. /\ tags' = tags + 1 /\ tags \in Nat /\ n \in Nat /\ Len(unacked') = n + 1
      /\ \A i \in 1..n : unacked'[i] = unacked[i]
      /\ unacked'[n + 1].tag = tags + 1 /\ unacked'[n + 1].msg = Head(ready).msg
  BY <1>1, Delivered, QueueShape DEF BaseInv, Delivery
<1>3. /\ handler'[h] = new /\ \A g \in Handlers : g # h => handler'[g] = handler[g]
  BY <1>1 DEF Set, BaseInv, HandlersOK
<1>4. new.tag = tags + 1 /\ new.msg = Head(ready).msg
  BY DEF Idle
<1> HIDE DEF new, n
<1>5. \A i \in 1..n : unacked[i].tag \in 1..tags
  BY QueueShape DEF BaseInv, Unacked, n
<1>6. \A g \in Handlers : g # h /\ Alive(g)' => Alive(g) /\ handler[g].tag \in 1..tags
  BY <1>3 DEF Alive, TagInv, TagsInRange
<1>7. TagsInRange'
  BY <1>2, <1>3, <1>4, <1>6 DEF TagsInRange
<1>8. TagsDistinct'
  <2>1. ASSUME NEW i \in 1..(n + 1), NEW j \in 1..(n + 1), unacked'[i].tag = unacked'[j].tag PROVE i = j
    <3>1. CASE i \in 1..n /\ j \in 1..n
      BY <1>2, <2>1, <3>1 DEF TagInv, TagsDistinct, n
    <3>2. CASE i = n + 1 /\ j \in 1..n
      BY <1>2, <1>5, <2>1, <3>2
    <3>3. CASE i \in 1..n /\ j = n + 1
      BY <1>2, <1>5, <2>1, <3>3
    <3> QED BY <1>2, <3>1, <3>2, <3>3
  <2>2. ASSUME NEW f \in Handlers, NEW g \in Handlers, Alive(f)', Alive(g)', handler'[f].tag = handler'[g].tag
        PROVE  f = g
    <3>1. CASE f # h /\ g # h
      BY <1>3, <1>6, <2>2, <3>1 DEF TagInv, TagsDistinct
    <3>2. CASE f = h /\ g # h
      BY <1>2, <1>3, <1>4, <1>6, <2>2, <3>2
    <3>3. CASE f # h /\ g = h
      BY <1>2, <1>3, <1>4, <1>6, <2>2, <3>3
    <3> QED BY <3>1, <3>2, <3>3
  <2> QED BY <1>2, <2>1, <2>2 DEF TagsDistinct
<1>9. ASSUME ~mistaken', NEW g \in Handlers, Alive(g)' PROVE Kept(g)'
  <2>1. CASE g = h
    BY <1>2, <1>3, <1>4, <2>1 DEF Kept
  <2>2. CASE g # h
    <3>1. Alive(g) /\ handler'[g] = handler[g] /\ ~mistaken
      BY <1>1, <1>3, <1>6, <1>9, <2>2
    <3>2. PICK i \in 1..n : unacked[i].tag = handler[g].tag /\ unacked[i].msg = handler[g].msg
      BY <3>1 DEF TagInv, Kept, n
    <3> QED BY <1>2, <3>1, <3>2 DEF Kept
  <2> QED BY <2>1, <2>2
<1> QED
  BY <1>7, <1>8, <1>9 DEF TagInv

LEMMA SetTags ==
    ASSUME BaseInv, TagInv, NEW h \in Handlers, NEW new, Set(h, new), UNCHANGED <<unacked, tags, mistaken>>,
           handler[h].pc # "idle", new.tag = handler[h].tag, new.msg = handler[h].msg, new.outlived = handler[h].outlived
    PROVE  TagInv'
<1>1. handler'[h] = new /\ \A g \in Handlers : g # h => handler'[g] = handler[g]
  BY DEF Set, BaseInv, HandlersOK
<1>2. ASSUME NEW g \in Handlers, Alive(g)'
      PROVE  Alive(g) /\ handler'[g].tag = handler[g].tag /\ handler'[g].msg = handler[g].msg
  BY <1>1, <1>2 DEF Alive
<1> QED
  BY <1>2, TagFrame

LEMMA ExpandTags ==
    ASSUME BaseInv, TagInv, NEW h \in Handlers, Expand(h) PROVE TagInv'
<1> DEFINE m == handler[h].msg
           new == [handler[h] EXCEPT !.pc = "build", !.read = Read(m)]
<1>1. handler[h].pc = "expand" /\ handler[h] \in HandlerType
  BY DEF Expand, BaseInv, HandlersOK
<1>2. CASE HasSchool(m) /\ active /\ m.about \notin Muted
  <2>1. Set(h, new) /\ UNCHANGED <<unacked, tags, mistaken>>
    BY <1>2 DEF Expand, queue, channel
  <2>2. new.tag = handler[h].tag /\ new.msg = handler[h].msg /\ new.outlived = handler[h].outlived
    BY <1>1 DEF HandlerType
  <2> HIDE DEF new
  <2> QED BY <1>1, <2>1, <2>2, SetTags
<1>3. CASE ~(HasSchool(m) /\ active /\ m.about \notin Muted)
  <2>1. Reject(handler[h].tag, FALSE) /\ Done(h)
    BY <1>3 DEF Expand, Refuse
  <2>2. QueueTypeOK(Message)' /\ Settled(handler[h].tag, FALSE)
    BY <2>1, Rejected DEF BaseInv
  <2> QED BY <1>1, <2>1, <2>2, SettleTags
<1> QED
  BY <1>2, <1>3

LEMMA AcknowledgeTags ==
    ASSUME BaseInv, TagInv, NEW h \in Handlers, handler[h].pc # "idle", Acknowledge(h) PROVE TagInv'
<1>1. QueueTypeOK(Message)' /\ Settled(handler[h].tag, FALSE)
  BY Acked DEF BaseInv, Acknowledge
<1> QED
  BY <1>1, SettleTags DEF Acknowledge

LEMMA HandlerFailsTags ==
    ASSUME BaseInv, TagInv, NEW h \in Handlers, HandlerFails(h) PROVE TagInv'
<1>1. /\ Reject(handler[h].tag, ~handler[h].again) /\ Done(h) /\ handler[h].pc # "idle"
      /\ handler[h].again \in BOOLEAN
  BY DEF HandlerFails, BaseInv, HandlersOK, HandlerType
<1>2. QueueTypeOK(Message)' /\ Settled(handler[h].tag, ~handler[h].again)
  BY <1>1, Rejected DEF BaseInv
<1> QED
  BY <1>1, <1>2, SettleTags

LEMMA SchoolTags ==
    ASSUME BaseInv, TagInv, NEW h \in Handlers, SyncSchoolUsers(h) \/ SyncSchoolRemovals(h) PROVE TagInv'
<1>1. PICK to \in {"removals", "acknowledge"} : Set(h, [handler[h] EXCEPT !.pc = to])
  BY DEF SyncSchoolUsers, SyncSchoolRemovals
<1>2. UNCHANGED <<unacked, tags, mistaken>> /\ handler[h].pc # "idle"
  BY DEF SyncSchoolUsers, SyncSchoolRemovals, channel, histories
<1> DEFINE new == [handler[h] EXCEPT !.pc = to]
<1>3. new.tag = handler[h].tag /\ new.msg = handler[h].msg /\ new.outlived = handler[h].outlived
  BY DEF BaseInv, HandlersOK, HandlerType
<1> HIDE DEF new
<1> QED
  BY <1>1, <1>2, <1>3, SetTags DEF new

LEMMA BreakTags ==
    ASSUME BaseInv, TagInv, ChannelCloses \/ Crash PROVE TagInv'
<1>1. unacked' = <<>> /\ consuming' = FALSE
  BY DEF ChannelCloses, Crash, Close
<1>2. \A g \in Handlers : ~Alive(g)'
  <2>1. CASE ChannelCloses
    <3>1. \A g \in Handlers : handler'[g] = Left[g]
      BY <2>1 DEF ChannelCloses
    <3> QED BY <1>1, <3>1, LeftHandlers DEF Alive, BaseInv
  <2>2. CASE Crash
    BY <2>2 DEF Crash, Alive, Idle
  <2> QED BY <2>1, <2>2
<1> QED
  BY <1>1, <1>2, EmptyDistinct

LEMMA TagStep == ASSUME BaseInv, TagInv, [Next]_vars PROVE TagInv'
<1>1. CASE \E r \in Rooms : PatchMembers(r) \/ Archive(r) \/ RemoveRoom(r)
  BY <1>1, EmitTags DEF PatchMembers, Archive, RemoveRoom
<1>2. CASE \E u \in Users : PatchUser(u) \/ DeleteUser(u)
  BY <1>2, EmitTags DEF PatchUser, DeleteUser
<1>3. CASE PatchSchool
  BY <1>3, EmitTags DEF PatchSchool
<1>4. CASE \E h \in Handlers : Handle(h) \/ HandlerFails(h)
  <2>1. PICK h \in Handlers : Handle(h) \/ HandlerFails(h)
    BY <1>4
  <2>2. CASE SendOrder(h)
    BY <2>2, AcknowledgeTags DEF SendOrder
  <2>3. CASE SchoolIsSynced(h)
    BY <2>3, AcknowledgeTags DEF SchoolIsSynced
  <2> QED BY <2>1, <2>2, <2>3, ReceiveTags, ExpandTags, HandlerFailsTags, SchoolTags DEF Handle
<1>5. CASE ChannelCloses \/ Crash
  BY <1>5, BreakTags
<1>6. CASE Reconnect \/ TakeOrder \/ UNCHANGED vars
  <2>1. UNCHANGED <<unacked, tags, mistaken, handler>>
    BY <1>6 DEF Reconnect, Reconsume, TakeOrder, vars, queue, channel, histories
  <2> QED BY <2>1, TagFrame DEF Alive
<1> QED
  BY <1>1, <1>2, <1>3, <1>4, <1>5, <1>6 DEF Next

-----------------------------------------------------------------------------
(* The rooms of the Matrix server, as the orders under way will leave      *)
(* them.  A room r and a user x, or nobody, who stands for "there is no    *)
(* such room": orders that decide whether x is in r, and what they say.    *)
Clean == ~lost /\ ~overtaken /\ ~mistaken /\ ~muted
Subjects == Users \cup {NoUser}
Decides(o, r, x) ==
    r \in o.rooms /\ (IF x = NoUser THEN o.method # "removeUser"
                      ELSE o.method \in {"addRoom", "removeRoom"} \/ x \in o.users)
Says(o, x) == IF x = NoUser THEN o.method = "removeRoom" ELSE o.method \in {"addRoom", "addUser"} /\ x \in o.users
Ends(r, x, in) ==
    \/ \E i \in 1..Len(external) : /\ Decides(external[i], r, x) /\ (Says(external[i], x) <=> in)
                                   /\ \A j \in 1..Len(external) : j > i => ~Decides(external[j], r, x)
    \/ (\A i \in 1..Len(external) : ~Decides(external[i], r, x)) /\ (x \in matrix[r] <=> in)

(* What a message asks for is still so: then its handler will see to it.   *)
Ahead == {"expand", "build"}
Pending(a) == \E m \in Held(Ahead) : m.action = Action(a) /\ m.about = a

Matters(r, x) == IF x = NoUser THEN ~archived[r] \/ ~exists[r]
                 ELSE exists[r] /\ ~archived[r] /\ (x \notin gone \/ r \in Courses)
Wanted(r, x) == IF x = NoUser THEN ~exists[r] ELSE x \in Invited(r, members[r])
Covered(r, x) == Pending(r) \/ (x \in gone \ Muted /\ Pending(x)) \/ Ends(r, x, Wanted(r, x))
MirrorInv == Clean => \A r \in Rooms, x \in Subjects : Matters(r, x) => Covered(r, x)

LEMMA AppliedSays ==
    ASSUME matrix \in [Rooms -> (SUBSET Users) \cup {NoRoom}], NEW o \in OrderType, NEW r \in Rooms, NEW x \in Subjects
    PROVE  /\ Decides(o, r, x) => (x \in Applied(o)[r] <=> Says(o, x))
           /\ ~Decides(o, r, x) => (x \in Applied(o)[r] <=> x \in matrix[r])
<1>1. /\ o.users \subseteq Users /\ o.method \in {"addRoom", "removeRoom", "addUser", "removeUser"}
      /\ NoUser \notin o.users
  BY Kinships DEF OrderType
<1>2. CASE r \notin o.rooms
  <2>1. Applied(o)[r] = matrix[r]
    BY <1>2 DEF Applied
  <2>2. ~Decides(o, r, x)
    BY <1>2 DEF Decides
  <2> QED BY <2>1, <2>2
<1>3. CASE r \in o.rooms /\ o.method = "addRoom"
  <2>1. Applied(o)[r] = o.users
    BY <1>3 DEF Applied
  <2> QED BY <1>1, <1>3, <2>1 DEF Decides, Says, Subjects
<1>4. CASE r \in o.rooms /\ o.method = "removeRoom"
  <2>1. Applied(o)[r] = {NoUser}
    BY <1>4 DEF Applied, NoRoom
  <2> QED BY <1>1, <1>4, <2>1 DEF Decides, Says, Subjects
<1>5. CASE r \in o.rooms /\ o.method = "removeUser"
  <2>1. Applied(o)[r] = matrix[r] \ o.users
    BY <1>5 DEF Applied
  <2> QED BY <1>1, <1>5, <2>1 DEF Decides, Says, Subjects
<1>6. CASE r \in o.rooms /\ o.method = "addUser"
  <2>1. Applied(o)[r] = (IF IsRoom(r) THEN matrix[r] ELSE {}) \cup o.users
    BY <1>6 DEF Applied
  <2>2. matrix[r] \in SUBSET Users \/ matrix[r] = {NoUser}
    BY DEF NoRoom
  <2>3. CASE matrix[r] = {NoUser}
    <3>1. Applied(o)[r] = o.users
      BY <2>1, <2>3 DEF IsRoom, NoRoom
    <3> QED BY <1>1, <1>6, <2>3, <3>1 DEF Decides, Says, Subjects
  <2>4. CASE matrix[r] \in SUBSET Users
    <3>1. NoUser \notin matrix[r]
      BY <2>4, Kinships
    <3>2. IsRoom(r)
      BY <3>1 DEF IsRoom, NoRoom
    <3> QED BY <1>1, <1>6, <2>1, <3>1, <3>2 DEF Decides, Says, Subjects
  <2> QED BY <2>2, <2>3, <2>4
<1> QED
  BY <1>1, <1>2, <1>3, <1>4, <1>5, <1>6

LEMMA EndsAppended ==
    ASSUME OrdersOK, NEW o \in OrderType, external' = Append(external, o), matrix' = matrix,
           NEW r, NEW x, NEW in \in BOOLEAN
    PROVE  /\ Decides(o, r, x) /\ (Says(o, x) <=> in) => Ends(r, x, in)'
           /\ ~Decides(o, r, x) /\ Ends(r, x, in) => Ends(r, x, in)'
<1> DEFINE n == Len(external)
<1>1. /\ n \in Nat /\ Len(external') = n + 1 /\ external'[n + 1] = o
      /\ \A i \in 1..n : external'[i] = external[i]
  BY AppendProperties, LenProperties DEF OrdersOK
<1> HIDE DEF n
<1>2. ASSUME Decides(o, r, x), Says(o, x) <=> in PROVE Ends(r, x, in)'
  <2>1. n + 1 \in 1..Len(external') /\ \A j \in 1..Len(external') : ~(j > n + 1)
    BY <1>1
  <2> QED BY <1>1, <1>2, <2>1 DEF Ends
<1>3. ASSUME ~Decides(o, r, x), Ends(r, x, in) PROVE Ends(r, x, in)'
  <2>1. CASE \E i \in 1..n : /\ Decides(external[i], r, x) /\ (Says(external[i], x) <=> in)
                             /\ \A j \in 1..n : j > i => ~Decides(external[j], r, x)
    <3>1. PICK i \in 1..n : /\ Decides(external[i], r, x) /\ (Says(external[i], x) <=> in)
                            /\ \A j \in 1..n : j > i => ~Decides(external[j], r, x)
      BY <2>1
    <3>2. i \in 1..Len(external') /\ Decides(external'[i], r, x) /\ (Says(external'[i], x) <=> in)
      BY <1>1, <3>1
    <3>3. \A j \in 1..Len(external') : j > i => ~Decides(external'[j], r, x)
      BY <1>1, <1>3, <3>1
    <3> QED BY <3>2, <3>3 DEF Ends
  <2>2. CASE (\A i \in 1..n : ~Decides(external[i], r, x)) /\ (x \in matrix[r] <=> in)
    <3>1. \A i \in 1..Len(external') : ~Decides(external'[i], r, x)
      BY <1>1, <1>3, <2>2
    <3> QED BY <2>2, <3>1 DEF Ends
  <2> QED BY <1>3, <2>1, <2>2 DEF Ends, n
<1> QED
  BY <1>2, <1>3

(* The order taken passes no other one for its rooms.                      *)
LEMMA EndsTaken ==
    ASSUME OrdersOK, TakeOrder, ~overtaken', NEW r \in Rooms, NEW x \in Subjects, NEW in \in BOOLEAN, Ends(r, x, in)
    PROVE  Ends(r, x, in)'
<1> DEFINE n == Len(external)
<1>1. PICK f \in DOMAIN external :
          /\ matrix' = Applied(external[f]) /\ external' = RemoveAt(external, f)
          /\ overtaken' = (overtaken \/ \E j \in 1..(f - 1) : external[j].rooms \cap external[f].rooms # {})
  BY DEF TakeOrder
<1>2. f \in 1..n /\ n \in Nat /\ external[f] \in OrderType
  BY LenProperties, ElementOfSeq DEF OrdersOK
<1>3. /\ Len(external') = n - 1
      /\ \A j \in 1..(n - 1) : external'[j] = IF j < f THEN external[j] ELSE external[j + 1]
  BY <1>1, <1>2, RemovedFrom DEF OrdersOK
<1>4. \A j \in 1..(f - 1) : Decides(external[f], r, x) => ~Decides(external[j], r, x)
  BY <1>1 DEF Decides
<1>5. /\ Decides(external[f], r, x) => (x \in matrix'[r] <=> Says(external[f], x))
      /\ ~Decides(external[f], r, x) => (x \in matrix'[r] <=> x \in matrix[r])
  BY <1>1, <1>2, AppliedSays DEF OrdersOK
<1> HIDE DEF n
<1>6. ASSUME NEW j \in 1..(n - 1), NEW k \in 1..n, k = IF j < f THEN j ELSE j + 1
      PROVE  external'[j] = external[k]
  BY <1>3, <1>6
<1>7. CASE \E i \in 1..n : /\ Decides(external[i], r, x) /\ (Says(external[i], x) <=> in)
                           /\ \A j \in 1..n : j > i => ~Decides(external[j], r, x)
  <2>1. PICK i \in 1..n : /\ Decides(external[i], r, x) /\ (Says(external[i], x) <=> in)
                          /\ \A j \in 1..n : j > i => ~Decides(external[j], r, x)
    BY <1>7
  <2>2. CASE i = f
    <3>1. \A j \in 1..(n - 1) : ~Decides(external'[j], r, x)
      <4>1. ASSUME NEW j \in 1..(n - 1), j < f PROVE ~Decides(external'[j], r, x)
        BY <1>2, <1>3, <1>4, <2>1, <2>2, <4>1
      <4>2. ASSUME NEW j \in 1..(n - 1), ~(j < f) PROVE ~Decides(external'[j], r, x)
        <5>1. j + 1 \in 1..n /\ j + 1 > i
          BY <1>2, <2>2, <4>2
        <5> QED BY <1>3, <2>1, <4>2, <5>1
      <4> QED BY <4>1, <4>2
    <3> QED BY <1>3, <1>5, <2>1, <2>2, <3>1 DEF Ends
  <2>3. CASE i > f
    <3>1. i - 1 \in 1..(n - 1) /\ ~(i - 1 < f) /\ (i - 1) + 1 = i
      BY <1>2, <2>3
    <3>2. external'[i - 1] = external[i]
      BY <1>3, <3>1
    <3>3. ASSUME NEW j \in 1..(n - 1), j > i - 1 PROVE ~Decides(external'[j], r, x)
      <4>1. j + 1 \in 1..n /\ j + 1 > i /\ ~(j < f)
        BY <1>2, <2>3, <3>3
      <4> QED BY <1>3, <2>1, <4>1
    <3> QED BY <1>3, <2>1, <3>1, <3>2, <3>3 DEF Ends
  <2>4. CASE i < f
    <3>1. i \in 1..(n - 1) /\ i \in 1..(f - 1)
      BY <1>2, <2>4
    <3>2. external'[i] = external[i]
      BY <1>3, <2>4, <3>1
    <3>3. ASSUME NEW j \in 1..(n - 1), j > i PROVE ~Decides(external'[j], r, x)
      <4>1. j \in 1..n /\ j + 1 \in 1..n /\ j + 1 > i
        BY <1>2, <3>3
      <4> QED BY <1>3, <2>1, <3>3, <4>1
    <3> QED BY <1>3, <2>1, <3>1, <3>2, <3>3 DEF Ends
  <2> QED BY <1>2, <2>2, <2>3, <2>4
<1>8. CASE (\A i \in 1..n : ~Decides(external[i], r, x)) /\ (x \in matrix[r] <=> in)
  <2>1. ASSUME NEW j \in 1..(n - 1) PROVE ~Decides(external'[j], r, x)
    <3>1. j \in 1..n /\ j + 1 \in 1..n
      BY <1>2
    <3> QED BY <1>3, <1>8, <3>1
  <2> QED BY <1>2, <1>3, <1>5, <1>8, <2>1 DEF Ends
<1> QED
  BY <1>7, <1>8 DEF Ends, n

-----------------------------------------------------------------------------
(* MirrorInv: at the start, and under every action.                        *)
LEMMA MirrorAtStart == ASSUME Init PROVE MirrorInv
<1>1. \A i \in 1..Len(external) : FALSE
  BY EmptySeq DEF Init
<1>2. ASSUME NEW r \in Rooms, NEW x \in Subjects PROVE x \in matrix[r] <=> Wanted(r, x)
  <2>1. matrix[r] = Users \ Muted /\ exists[r] /\ members[r] = May(r)
    BY <1>2 DEF Init
  <2>2. Invited(r, members[r]) = Users \ Muted
    BY <1>2, <2>1, Kinships DEF May, Invited
  <2> QED BY <1>2, <2>1, <2>2, Kinships DEF Wanted, Subjects
<1> QED
  BY <1>1, <1>2 DEF MirrorInv, Covered, Ends

LEMMA EmitClean ==
    ASSUME BaseInv, NEW m, Emit(m), Clean' PROVE Clean /\ ready' = Sent(<<m>>)
<1>1. /\ (lost' = lost /\ ready' = Sent(<<m>>)) \/ lost' = TRUE
      /\ overtaken' = overtaken /\ mistaken' = mistaken
      /\ muted' = (muted \/ ~active')
  BY DEF Emit
<1>2. ~lost' /\ ~overtaken' /\ ~mistaken' /\ ~muted'
  BY DEF Clean
<1>3. muted \in BOOLEAN
  BY DEF BaseInv, MutedOK
<1>4. ~muted
  BY <1>1, <1>2, <1>3
<1> QED
  BY <1>1, <1>2, <1>4 DEF Clean

LEMMA DoneClean ==
    ASSUME BaseInv, NEW h \in Handlers, Done(h), ~mistaken' PROVE ~mistaken
<1>1. mistaken \in BOOLEAN
  BY DEF BaseInv, OrdersOK
<1>2. mistaken' = (mistaken \/ (handler[h].outlived /\ Known(handler[h].tag)))
  BY DEF Done
<1> QED
  BY <1>1, <1>2

LEMMA CleanBefore == ASSUME BaseInv, [Next]_vars, Clean' PROVE Clean
<1>1. CASE \E r \in Rooms : PatchMembers(r) \/ Archive(r) \/ RemoveRoom(r)
  BY <1>1, EmitClean DEF PatchMembers, Archive, RemoveRoom
<1>2. CASE \E u \in Users : PatchUser(u) \/ DeleteUser(u)
  BY <1>2, EmitClean DEF PatchUser, DeleteUser
<1>3. CASE PatchSchool
  BY <1>3, EmitClean DEF PatchSchool
<1>4. CASE \E h \in Handlers : Handle(h) \/ HandlerFails(h)
  <2>1. PICK h \in Handlers : Handle(h) \/ HandlerFails(h)
    BY <1>4
  <2>2. CASE Receive(h) \/ SyncSchoolUsers(h) \/ SyncSchoolRemovals(h)
    <3>1. UNCHANGED histories
      BY <2>2 DEF Receive, SyncSchoolUsers, SyncSchoolRemovals
    <3> QED BY <3>1 DEF Clean, histories
  <2>3. CASE Expand(h)
    <3>1. UNCHANGED <<lost, overtaken, muted>> /\ (mistaken' = mistaken \/ Done(h))
      BY <2>3 DEF Expand, Refuse
    <3> QED BY <3>1, DoneClean DEF Clean
  <2>4. CASE SendOrder(h)
    <3>1. /\ lost' = lost \/ lost' = TRUE
          /\ overtaken' = (overtaken \/ Outdated(h)) /\ muted' = muted /\ Done(h)
      BY <2>4 DEF SendOrder, Acknowledge
    <3>2. lost \in BOOLEAN /\ overtaken \in BOOLEAN
      BY DEF BaseInv, OrdersOK
    <3> QED BY <3>1, <3>2, DoneClean DEF Clean
  <2>5. CASE SchoolIsSynced(h)
    BY <2>5, DoneClean DEF Clean, SchoolIsSynced, Acknowledge
  <2>6. CASE HandlerFails(h)
    <3>1. lost' = (lost \/ handler[h].again) /\ UNCHANGED <<overtaken, muted>> /\ Done(h)
      BY <2>6 DEF HandlerFails
    <3>2. lost \in BOOLEAN
      BY DEF BaseInv, OrdersOK
    <3> QED BY <3>1, <3>2, DoneClean DEF Clean
  <2> QED BY <2>1, <2>2, <2>3, <2>4, <2>5, <2>6 DEF Handle
<1>5. CASE ChannelCloses \/ Crash \/ Reconnect \/ UNCHANGED vars
  <2>1. UNCHANGED histories
    BY <1>5 DEF ChannelCloses, Crash, Reconnect, vars
  <2> QED BY <2>1 DEF Clean, histories
<1>6. CASE TakeOrder
  <2>1. UNCHANGED <<lost, mistaken, muted>>
    BY <1>6 DEF TakeOrder
  <2>2. ~overtaken' => ~overtaken
    <3>1. PICK first \in DOMAIN external :
              overtaken' = (overtaken \/ \E j \in 1..(first - 1) :
                                external[j].rooms \cap external[first].rooms # {})
      BY <1>6 DEF TakeOrder
    <3>2. overtaken \in BOOLEAN
      BY DEF BaseInv, OrdersOK
    <3> QED BY <3>1, <3>2
  <2> QED BY <2>1, <2>2 DEF Clean
<1> QED
  BY <1>1, <1>2, <1>3, <1>4, <1>5, <1>6 DEF Next

(* What the data ask of the rooms depends on four variables.               *)
Asked == <<exists, archived, members, gone>>
LEMMA AskedSame ==
    ASSUME UNCHANGED Asked
    PROVE  /\ \A a : Action(a)' = Action(a)
           /\ \A r, x : (Matters(r, x)' <=> Matters(r, x)) /\ (Wanted(r, x)' <=> Wanted(r, x))
BY DEF Asked, Action, Matters, Wanted, Invited

(* A message that nobody will miss.                                        *)
Needed(m) == m.about \in Rooms \cup (gone \ Muted) /\ m.action = Action(m.about)

LEMMA PendingKept ==
    ASSUME UNCHANGED Asked, NEW a \in Rooms \cup (gone \ Muted), Pending(a),
           \A m \in Held(Ahead) : m \in Held(Ahead)' \/ ~Needed(m)
    PROVE  Pending(a)'
<1>1. PICK m \in Held(Ahead) : m.action = Action(a) /\ m.about = a
  BY DEF Pending
<1>2. m \in Held(Ahead)'
  BY <1>1 DEF Needed
<1>3. Action(a)' = Action(a)
  BY AskedSame
<1> QED
  BY <1>1, <1>2, <1>3 DEF Pending

LEMMA EndsSame ==
    ASSUME UNCHANGED <<external, matrix>> PROVE \A r, x, in : Ends(r, x, in)' <=> Ends(r, x, in)
BY DEF Ends

LEMMA MirrorFrame ==
    ASSUME MirrorInv, Clean' => Clean, UNCHANGED Asked, UNCHANGED <<external, matrix>>,
           Clean' => \A m \in Held(Ahead) : m \in Held(Ahead)' \/ ~Needed(m)
    PROVE  MirrorInv'
<1> SUFFICES ASSUME Clean', NEW r \in Rooms, NEW x \in Subjects, Matters(r, x)'
             PROVE  Covered(r, x)'
  BY DEF MirrorInv, Subjects
<1>1. Covered(r, x) /\ Matters(r, x)
  BY AskedSame DEF MirrorInv
<1>2. CASE Pending(r)
  BY <1>2, PendingKept DEF Covered
<1>3. CASE x \in gone \ Muted /\ Pending(x)
  BY <1>3, PendingKept DEF Covered, Asked
<1>4. CASE Ends(r, x, Wanted(r, x))
  <2>1. Wanted(r, x)' <=> Wanted(r, x)
    BY AskedSame
  <2>2. Ends(r, x, Wanted(r, x))'
    BY <1>4, <2>1 DEF Ends
  <2> QED BY <2>2 DEF Covered
<1> QED
  BY <1>1, <1>2, <1>3, <1>4 DEF Covered


(* A service has changed something, and its message is sent.               *)
LEMMA EmitHolds ==
    ASSUME BaseInv, NEW m \in Message, Emit(m), Clean'
    PROVE  /\ Clean /\ m \in Held(Ahead)' /\ UNCHANGED <<external, matrix>>
           /\ Held(Ahead) \subseteq Held(Ahead)'
<1>1. Clean /\ ready' = Sent(<<m>>)
  BY EmitClean
<1>2. UNCHANGED <<external, matrix, handler, channel>>
  BY DEF Emit
<1>3. <<m>> \in Seq(Message) /\ {<<m>>[i] : i \in DOMAIN <<m>>} = {m}
  OBVIOUS
<1>4. Msgs(ready') = Msgs(ready) \cup {m}
  BY <1>1, <1>2, <1>3, SentMsgs DEF BaseInv
<1>5. Held(Ahead) = Msgs(ready) \cup {handler[g].msg : g \in {g \in Handlers : handler[g].pc \in Ahead /\ ~handler[g].outlived}}
  BY DEF Held, Msgs
<1>6. Held(Ahead)' = Msgs(ready') \cup {handler[g].msg : g \in {g \in Handlers : handler[g].pc \in Ahead /\ ~handler[g].outlived}}
  BY <1>2 DEF Held, Msgs, Ahead
<1> QED
  BY <1>1, <1>2, <1>4, <1>5, <1>6

(* One course or team has changed: it is pending, and the others are as    *)
(* they were.                                                              *)
LEMMA RoomChanged ==
    ASSUME BaseInv, MirrorInv, NEW a \in Rooms, NEW m \in Message, Emit(m),
           m.about = a, m.action = Action(a)', gone' = gone,
           \A r \in Rooms : r # a => exists'[r] = exists[r] /\ archived'[r] = archived[r] /\ members'[r] = members[r]
    PROVE  MirrorInv'
<1> SUFFICES ASSUME Clean', NEW r \in Rooms, NEW x \in Subjects, Matters(r, x)'
             PROVE  Covered(r, x)'
  BY DEF MirrorInv, Subjects
<1>1. /\ Clean /\ m \in Held(Ahead)' /\ UNCHANGED <<external, matrix>>
      /\ Held(Ahead) \subseteq Held(Ahead)'
  BY EmitHolds
<1>2. Pending(a)'
  BY <1>1 DEF Pending
<1>3. CASE r = a
  BY <1>2, <1>3 DEF Covered
<1>4. CASE r # a
  <2>1. /\ Matters(r, x)' <=> Matters(r, x)
        /\ Wanted(r, x)' <=> Wanted(r, x)
        /\ Action(r)' = Action(r)
    BY <1>4, Kinships DEF Matters, Wanted, Invited, Action
  <2>2. Covered(r, x)
    BY <1>1, <2>1 DEF MirrorInv
  <2>3. Pending(r) => Pending(r)'
    BY <1>1, <2>1 DEF Pending
  <2>4. ASSUME x \in gone \ Muted, Pending(x) PROVE Pending(x)'
    <3>1. Action(x)' = Action(x)
      BY <2>4, Kinships DEF Action, BaseInv, RoomsOK
    <3> QED BY <1>1, <2>4, <3>1 DEF Pending
  <2>5. Ends(r, x, Wanted(r, x)) => Ends(r, x, Wanted(r, x))'
    BY <1>1, <2>1 DEF Ends
  <2> QED BY <2>2, <2>3, <2>4, <2>5 DEF Covered
<1> QED
  BY <1>3, <1>4

LEMMA PatchMembersMirror ==
    ASSUME BaseInv, MirrorInv, NEW a \in Rooms, PatchMembers(a) PROVE MirrorInv'
<1> DEFINE m == RoomSync(a, archived[a])
<1>1. /\ exists[a] /\ UNCHANGED <<exists, archived, gone>> /\ Emit(m)
      /\ \A r \in Rooms : r # a => members'[r] = members[r]
  <2>1. PICK u \in May(a) \ gone :
            members' = [members EXCEPT ![a] = IF u \in @ THEN @ \ {u} ELSE @ \cup {u}]
    BY DEF PatchMembers
  <2> QED BY <2>1 DEF PatchMembers, BaseInv, RoomsOK
<1>2. m \in Message /\ m.about = a /\ m.action = IF archived[a] THEN "deleteRoom" ELSE "syncRoom"
  BY DEF RoomSync, Msg, Message
<1> HIDE DEF m
<1>3. m.action = Action(a)'
  BY <1>1, <1>2, Kinships DEF Action, BaseInv, RoomsOK
<1> QED
  BY <1>1, <1>2, <1>3, RoomChanged

LEMMA ArchiveMirror ==
    ASSUME BaseInv, MirrorInv, NEW a \in Rooms, Archive(a) PROVE MirrorInv'
<1> DEFINE m == RoomSync(a, ~archived[a])
<1>1. /\ exists[a] /\ UNCHANGED <<exists, members, gone>> /\ Emit(m)
      /\ archived' = [archived EXCEPT ![a] = ~@]
  BY DEF Archive
<1>2. m \in Message /\ m.about = a /\ m.action = IF ~archived[a] THEN "deleteRoom" ELSE "syncRoom"
  BY DEF RoomSync, Msg, Message
<1>3. archived'[a] = ~archived[a] /\ \A r \in Rooms : r # a => archived'[r] = archived[r]
  BY <1>1 DEF BaseInv, RoomsOK
<1> HIDE DEF m
<1>4. Action(a)' = IF exists'[a] /\ ~archived'[a] THEN "syncRoom" ELSE "deleteRoom"
  BY Kinships DEF Action
<1>5. m.action = Action(a)'
  BY <1>1, <1>2, <1>3, <1>4 DEF BaseInv, RoomsOK
<1> QED
  BY <1>1, <1>2, <1>3, <1>5, RoomChanged

LEMMA RemoveRoomMirror ==
    ASSUME BaseInv, MirrorInv, NEW a \in Rooms, RemoveRoom(a) PROVE MirrorInv'
<1> DEFINE m == Msg("deleteRoom", a, FALSE)
<1>1. /\ UNCHANGED <<archived, members, gone>> /\ Emit(m)
      /\ exists' = [exists EXCEPT ![a] = FALSE]
  BY DEF RemoveRoom
<1>2. m \in Message /\ m.about = a /\ m.action = "deleteRoom"
  BY DEF Msg, Message
<1>3. ~exists'[a] /\ \A r \in Rooms : r # a => exists'[r] = exists[r]
  BY <1>1 DEF BaseInv, RoomsOK
<1> HIDE DEF m
<1>4. m.action = Action(a)'
  BY <1>2, <1>3, Kinships DEF Action
<1> QED
  BY <1>1, <1>2, <1>3, <1>4, RoomChanged

LEMMA DeleteUserMirror ==
    ASSUME BaseInv, MirrorInv, NEW u \in Users, DeleteUser(u) PROVE MirrorInv'
<1> SUFFICES ASSUME Clean', NEW r \in Rooms, NEW x \in Subjects, Matters(r, x)'
             PROVE  Covered(r, x)'
  BY DEF MirrorInv, Subjects
<1> DEFINE m == Msg("deleteUser", u, FALSE)
<1>1. /\ u \notin gone /\ gone' = gone \cup {u} /\ UNCHANGED <<exists, archived>> /\ Emit(m)
      /\ members' = [k \in Rooms |-> IF k \in Courses THEN members[k] \ {u} ELSE members[k]]
  BY DEF DeleteUser
<1>2. m \in Message /\ m.about = u /\ m.action = "deleteUser"
  BY DEF Msg, Message
<1> HIDE DEF m
<1>3. /\ Clean /\ m \in Held(Ahead)' /\ UNCHANGED <<external, matrix>>
      /\ Held(Ahead) \subseteq Held(Ahead)'
  BY <1>1, <1>2, EmitHolds
<1>4. Action(u)' = "deleteUser"
  BY <1>1, Kinships DEF Action
<1>5. Pending(u)'
  BY <1>2, <1>3, <1>4 DEF Pending
<1>6. Action(r)' = Action(r)
  BY <1>1, Kinships DEF Action
<1>7. Pending(r) => Pending(r)'
  BY <1>3, <1>6 DEF Pending
<1>8. \A v \in Subjects : v # u => (v \in Invited(r, members'[r]) <=> v \in Invited(r, members[r]))
  BY <1>1 DEF Invited
<1>9. CASE x # u
  <2>1. (Matters(r, x)' <=> Matters(r, x)) /\ (Wanted(r, x)' <=> Wanted(r, x)) /\ (x \in gone' <=> x \in gone)
    BY <1>1, <1>8, <1>9 DEF Matters, Wanted, Invited
  <2>2. Covered(r, x)
    BY <1>3, <2>1 DEF MirrorInv
  <2>3. ASSUME x \in gone \ Muted, Pending(x) PROVE Pending(x)'
    <3>1. Action(x)' = Action(x)
      BY <1>1, <2>1, <2>3, Kinships DEF Action, BaseInv, RoomsOK
    <3> QED BY <1>3, <2>3, <3>1 DEF Pending
  <2>4. Ends(r, x, Wanted(r, x)) => Ends(r, x, Wanted(r, x))'
    BY <1>3, <2>1 DEF Ends
  <2> QED BY <1>7, <2>1, <2>2, <2>3, <2>4 DEF Covered
<1>10. CASE x = u /\ u \notin Muted
  BY <1>1, <1>5, <1>10 DEF Covered
<1>11. CASE x = u /\ u \in Muted
  <2>1. x # NoUser /\ r \in Courses /\ Matters(r, x)
    BY <1>1, <1>11, Kinships DEF Matters
  <2>2. x \notin members[r] /\ x \notin members'[r]
    BY <1>1, <1>11, <2>1 DEF BaseInv, RoomsOK, May
  <2>3. Wanted(r, x)' <=> Wanted(r, x)
    BY <2>1, <2>2, Kinships DEF Wanted, Invited
  <2>4. Covered(r, x)
    BY <1>3, <2>1 DEF MirrorInv
  <2>5. Ends(r, x, Wanted(r, x)) => Ends(r, x, Wanted(r, x))'
    BY <1>3, <2>3 DEF Ends
  <2> QED BY <1>1, <1>7, <1>11, <2>4, <2>5 DEF Covered
<1> QED
  BY <1>9, <1>10, <1>11

LEMMA NothingChanged ==
    ASSUME BaseInv, MirrorInv, NEW m \in Message, Emit(m), UNCHANGED Asked PROVE MirrorInv'
<1>1. UNCHANGED <<external, matrix>>
  BY DEF Emit
<1>2. Clean' => Clean /\ Held(Ahead) \subseteq Held(Ahead)'
  BY EmitHolds
<1> QED
  BY <1>1, <1>2, MirrorFrame

LEMMA ServicesMirror ==
    ASSUME BaseInv, MirrorInv, PatchSchool \/ \E u \in Users : PatchUser(u) PROVE MirrorInv'
<1>1. CASE PatchSchool
  <2>1. Msg("syncSchool", NoUser, FALSE) \in Message
    BY DEF Msg, Message
  <2> QED BY <1>1, <2>1, NothingChanged DEF PatchSchool, Asked
<1>2. CASE \E u \in Users : PatchUser(u)
  <2>1. PICK u \in Users : PatchUser(u)
    BY <1>2
  <2>2. Msg("syncUser", u, FALSE) \in Message
    BY DEF Msg, Message
  <2> QED BY <2>1, <2>2, NothingChanged DEF PatchUser, Asked, data
<1> QED
  BY <1>1, <1>2


LEMMA ReceiveMirror ==
    ASSUME BaseInv, MirrorInv, NEW h \in Handlers, Receive(h), Clean' => Clean PROVE MirrorInv'
<1> DEFINE new == [Idle EXCEPT !.pc = "expand", !.tag = tags + 1, !.msg = Head(ready).msg,
                               !.again = Head(ready).redelivered]
<1>1. Deliver /\ Set(h, new) /\ handler[h].pc = "idle" /\ UNCHANGED <<external, matrix>> /\ UNCHANGED Asked
  BY DEF Receive, data, Asked
<1>2. Msgs(ready) = {Head(ready).msg} \cup Msgs(ready')
  BY <1>1, Delivered DEF BaseInv
<1>3. new.pc = "expand" /\ ~new.outlived /\ new.msg = Head(ready).msg
  BY DEF Idle
<1>4. handler'[h] = new /\ \A g \in Handlers : g # h => handler'[g] = handler[g]
  BY <1>1 DEF Set, BaseInv, HandlersOK
<1> HIDE DEF new
<1>5. Head(ready).msg \in Held(Ahead)'
  BY <1>3, <1>4 DEF Held, Ahead
<1>6. Msgs(ready') \subseteq Held(Ahead)'
  BY DEF Held, Msgs
<1>7. ASSUME NEW m \in Held(Ahead) PROVE m \in Held(Ahead)'
  <2>1. CASE m \in Msgs(ready)
    BY <1>2, <1>5, <1>6, <2>1
  <2>2. CASE \E g \in Handlers : handler[g].pc \in Ahead /\ ~handler[g].outlived /\ m = handler[g].msg
    <3>1. PICK g \in Handlers : handler[g].pc \in Ahead /\ ~handler[g].outlived /\ m = handler[g].msg
      BY <2>2
    <3>2. g # h
      BY <1>1, <3>1 DEF Ahead
    <3> QED BY <1>4, <3>1, <3>2 DEF Held, Ahead
  <2> QED BY <2>1, <2>2 DEF Held, Msgs
<1> QED
  BY <1>1, <1>7, MirrorFrame

(* A handler goes on with its message: only that of a school leaves those  *)
(* that are ahead.                                                         *)
LEMMA SetHolds ==
    ASSUME BaseInv, NEW h \in Handlers, NEW new, Set(h, new), Msgs(ready) \subseteq Msgs(ready'),
           new.msg = handler[h].msg, new.outlived = handler[h].outlived,
           new.pc \in Ahead \/ handler[h].msg.action = "syncSchool" \/ handler[h].pc \notin Ahead,
           NEW m \in Held(Ahead)
    PROVE  m \in Held(Ahead)' \/ m.action = "syncSchool"
<1>1. handler'[h] = new /\ \A g \in Handlers : g # h => handler'[g] = handler[g]
  BY DEF Set, BaseInv, HandlersOK
<1>2. Msgs(ready') \subseteq Held(Ahead)'
  BY DEF Held, Msgs
<1>3. CASE m \in Msgs(ready)
  BY <1>2, <1>3
<1>4. CASE \E g \in Handlers : handler[g].pc \in Ahead /\ ~handler[g].outlived /\ m = handler[g].msg
  <2>1. PICK g \in Handlers : handler[g].pc \in Ahead /\ ~handler[g].outlived /\ m = handler[g].msg
    BY <1>4
  <2>2. (handler'[g].pc \in Ahead /\ ~handler'[g].outlived /\ handler'[g].msg = m) \/ m.action = "syncSchool"
    BY <1>1, <2>1
  <2> QED BY <2>2 DEF Held, Ahead
<1> QED
  BY <1>3, <1>4 DEF Held, Msgs

LEMMA SchoolsNotNeeded == ASSUME BaseInv, NEW m, m.action = "syncSchool" PROVE ~Needed(m)
<1>1. ASSUME m.about \in Rooms PROVE Action(m.about) # "syncSchool"
  BY <1>1, Kinships DEF Action
<1>2. ASSUME m.about \in Users PROVE Action(m.about) # "syncSchool"
  BY <1>2, Kinships DEF Action
<1> QED
  BY <1>1, <1>2 DEF Needed, BaseInv, RoomsOK

(* What is not to be synchronised: a course or team that is gone, for      *)
(* which syncRoom is no more due, or a user who is muted.                  *)
LEMMA ExpandMirror ==
    ASSUME BaseInv, TagInv, MirrorInv, NEW h \in Handlers, Expand(h), Clean' => Clean PROVE MirrorInv'
<1> DEFINE m == handler[h].msg
           new == [handler[h] EXCEPT !.pc = "build", !.read = Read(m)]
<1>1. handler[h].pc = "expand" /\ handler[h] \in HandlerType /\ UNCHANGED <<external, matrix>> /\ UNCHANGED Asked
  BY DEF Expand, data, Asked, BaseInv, HandlersOK
<1>2. CASE HasSchool(m) /\ active /\ m.about \notin Muted
  <2>1. Set(h, new) /\ ready' = ready
    BY <1>2 DEF Expand, queue
  <2>2. new.pc \in Ahead /\ new.msg = m /\ new.outlived = handler[h].outlived
    BY <1>1 DEF HandlerType, Ahead
  <2> HIDE DEF new
  <2>3. Msgs(ready) \subseteq Msgs(ready')
    BY <2>1
  <2>4. \A n \in Held(Ahead) : n \in Held(Ahead)' \/ ~Needed(n)
    BY <2>1, <2>2, <2>3, SetHolds, SchoolsNotNeeded
  <2> QED BY <1>1, <2>4, MirrorFrame
<1>3. CASE ~(HasSchool(m) /\ active /\ m.about \notin Muted)
  <2>1. Reject(handler[h].tag, FALSE) /\ Done(h)
    BY <1>3 DEF Expand, Refuse
  <2>2. QueueTypeOK(Message)' /\ Settled(handler[h].tag, FALSE)
    BY <2>1, Rejected DEF BaseInv
  <2>3. Clean' => ~Needed(m)
    <3>1. ASSUME Clean' PROVE ~HasSchool(m) \/ m.about \in Muted
      <4>1. active
        BY <3>1 DEF Clean, BaseInv, MutedOK
      <4> QED BY <1>3, <4>1
    <3>2. ~HasSchool(m) => ~Needed(m)
      <4>1. m \in Message
        BY <1>1 DEF HandlerType
      <4>2. ASSUME ~HasSchool(m) PROVE Action(m.about) # m.action
        <5>1. m.action = "syncRoom" /\ ~exists[m.about] /\ m.about \in Rooms
          BY <4>1, <4>2, MessageKinds DEF HasSchool
        <5> QED BY <5>1, Kinships DEF Action
      <4> QED BY <4>2 DEF Needed
    <3>3. m.about \in Muted => ~Needed(m)
      BY Kinships DEF Needed
    <3> QED BY <3>1, <3>2, <3>3
  <2>4. Clean' => \A n \in Held(Ahead) : n \in Held(Ahead)' \/ n = m
    <3>1. Ahead \in SUBSET Busy /\ handler[h].pc # "idle"
      BY <1>1 DEF Ahead, Busy
    <3> QED BY <2>1, <2>2, <3>1, SettleHolds DEF Clean
  <2> QED BY <1>1, <2>3, <2>4, MirrorFrame
<1> QED
  BY <1>2, <1>3

LEMMA SchoolMirror ==
    ASSUME BaseInv, MirrorInv, NEW h \in Handlers, SyncSchoolUsers(h) \/ SyncSchoolRemovals(h), Clean' => Clean
    PROVE  MirrorInv'
<1>1. PICK to \in {"removals", "acknowledge"} :
          /\ Set(h, [handler[h] EXCEPT !.pc = to])
          /\ handler[h].msg.action = "syncSchool" \/ handler[h].pc \notin Ahead
  BY DEF SyncSchoolUsers, SyncSchoolRemovals, Ahead
<1>2. PICK S \in SUBSET Message : IsFiniteSet(S) /\ ready' = Sent(SetToSeq(S))
  BY UsersSent, RemovalsSent
<1>3. UNCHANGED <<channel, external, matrix>> /\ UNCHANGED Asked
  BY DEF SyncSchoolUsers, SyncSchoolRemovals, data, Asked
<1>4. SetToSeq(S) \in Seq(Message)
  BY <1>2, SeqOfSet, SeqMonotonic
<1>5. Msgs(ready) \subseteq Msgs(ready')
  BY <1>2, <1>3, <1>4, SentMsgs DEF BaseInv
<1> DEFINE new == [handler[h] EXCEPT !.pc = to]
<1>6. new.msg = handler[h].msg /\ new.outlived = handler[h].outlived
  BY DEF BaseInv, HandlersOK, HandlerType
<1> HIDE DEF new
<1>7. \A n \in Held(Ahead) : n \in Held(Ahead)' \/ ~Needed(n)
  BY <1>1, <1>5, <1>6, SetHolds, SchoolsNotNeeded DEF new
<1> QED
  BY <1>3, <1>7, MirrorFrame

LEMMA SchoolIsSyncedMirror ==
    ASSUME BaseInv, TagInv, MirrorInv, NEW h \in Handlers, SchoolIsSynced(h), Clean' => Clean PROVE MirrorInv'
<1>1. /\ handler[h].pc = "acknowledge" /\ Ack(handler[h].tag) /\ Done(h)
      /\ UNCHANGED <<external, matrix>> /\ UNCHANGED Asked
  BY DEF SchoolIsSynced, Acknowledge, data, Asked
<1>2. QueueTypeOK(Message)' /\ Settled(handler[h].tag, FALSE)
  BY <1>1, Acked DEF BaseInv
<1>3. Ahead \in SUBSET Busy /\ handler[h].pc # "idle" /\ handler[h].pc \notin Ahead
  BY <1>1 DEF Ahead, Busy
<1>4. Clean' => \A n \in Held(Ahead) : n \in Held(Ahead)'
  BY <1>1, <1>2, <1>3, SettleHolds DEF Clean
<1> QED
  BY <1>1, <1>4, MirrorFrame

LEMMA HandlerFailsMirror ==
    ASSUME BaseInv, TagInv, MirrorInv, NEW h \in Handlers, HandlerFails(h), Clean' => Clean PROVE MirrorInv'
<1>1. /\ handler[h].pc # "idle" /\ Reject(handler[h].tag, ~handler[h].again) /\ Done(h)
      /\ lost' = (lost \/ handler[h].again) /\ handler[h].again \in BOOLEAN
      /\ UNCHANGED <<external, matrix>> /\ UNCHANGED Asked
  BY DEF HandlerFails, data, Asked, BaseInv, HandlersOK, HandlerType
<1>2. QueueTypeOK(Message)' /\ Settled(handler[h].tag, ~handler[h].again)
  BY <1>1, Rejected DEF BaseInv
<1>3. Clean' => ~handler[h].again /\ ~mistaken'
  BY <1>1 DEF Clean
<1>4. Ahead \in SUBSET Busy
  BY DEF Ahead, Busy
<1>5. Clean' => \A n \in Held(Ahead) : n \in Held(Ahead)'
  BY <1>1, <1>2, <1>3, <1>4, SettleHolds
<1> QED
  BY <1>1, <1>5, MirrorFrame

LEMMA BreakMirror ==
    ASSUME BaseInv, TagInv, MirrorInv, ChannelCloses \/ Crash, Clean' => Clean PROVE MirrorInv'
<1>1. Close /\ UNCHANGED <<external, matrix>> /\ UNCHANGED Asked
  BY DEF ChannelCloses, Crash, data, Asked
<1>2. Ahead \in SUBSET Busy
  BY DEF Ahead, Busy
<1>3. Clean' => \A n \in Held(Ahead) : n \in Held(Ahead)'
  BY <1>1, <1>2, CloseHolds DEF Clean
<1> QED
  BY <1>1, <1>3, MirrorFrame

LEMMA StillMirror ==
    ASSUME MirrorInv, Reconnect \/ UNCHANGED vars, Clean' => Clean PROVE MirrorInv'
<1>1. UNCHANGED <<ready, handler, external, matrix>> /\ UNCHANGED Asked
  BY DEF Reconnect, Reconsume, vars, queue, data, Asked
<1>2. Held(Ahead)' = Held(Ahead)
  BY <1>1 DEF Held, Ahead
<1> QED
  BY <1>1, <1>2, MirrorFrame

LEMMA TakeOrderMirror ==
    ASSUME BaseInv, MirrorInv, TakeOrder, Clean' => Clean PROVE MirrorInv'
<1> SUFFICES ASSUME Clean', NEW r \in Rooms, NEW x \in Subjects, Matters(r, x)'
             PROVE  Covered(r, x)'
  BY DEF MirrorInv, Subjects
<1>1. UNCHANGED <<ready, handler>> /\ UNCHANGED Asked /\ ~overtaken'
  BY DEF TakeOrder, queue, data, Asked, Clean
<1>2. Held(Ahead)' = Held(Ahead)
  BY <1>1 DEF Held, Ahead
<1>3. Covered(r, x) /\ Matters(r, x) /\ (Wanted(r, x)' <=> Wanted(r, x))
  BY <1>1, AskedSame DEF MirrorInv
<1>4. CASE Pending(r)
  BY <1>1, <1>2, <1>4, PendingKept DEF Covered
<1>5. CASE x \in gone \ Muted /\ Pending(x)
  BY <1>1, <1>2, <1>5, PendingKept DEF Covered, Asked
<1>6. CASE Ends(r, x, Wanted(r, x))
  <2>1. PICK in \in BOOLEAN : in <=> Wanted(r, x)
    OBVIOUS
  <2>2. Ends(r, x, in)
    BY <1>6, <2>1 DEF Ends
  <2>3. Ends(r, x, in)'
    BY <1>1, <2>2, EndsTaken DEF BaseInv
  <2>4. Ends(r, x, Wanted(r, x))'
    BY <1>3, <2>1, <2>3 DEF Ends
  <2> QED BY <2>4 DEF Covered
<1> QED
  BY <1>3, <1>4, <1>5, <1>6 DEF Covered


(* An order is sent.  What its message asked for was due, or another       *)
(* message that is still to be read will ask for what is due now.          *)
LEMMA DueKept ==
    ASSUME BaseInv, TagInv, ~mistaken', NEW h \in Handlers, handler[h].pc = "build", UNCHANGED Asked,
           Settled(handler[h].tag, FALSE), QueueTypeOK(Message)', Done(h), NEW a, Due(a)
    PROVE  Pending(a)'
<1>1. PICK m \in Held({"expand"}) : m.action = Action(a) /\ m.about = a
  BY DEF Due
<1>2. {"expand"} \in SUBSET Busy
  BY DEF Busy
<1>3. m \in Held({"expand"})'
  BY <1>1, <1>2, SettleHolds
<1>4. Held({"expand"})' \subseteq Held(Ahead)'
  BY DEF Held, Ahead
<1>5. Action(a)' = Action(a)
  BY AskedSame
<1> QED
  BY <1>1, <1>3, <1>4, <1>5 DEF Pending

LEMMA SendOrderMirror ==
    ASSUME BaseInv, TagInv, MirrorInv, NEW h \in Handlers, SendOrder(h), Clean' => Clean PROVE MirrorInv'
<1> SUFFICES ASSUME Clean', NEW r \in Rooms, NEW x \in Subjects, Matters(r, x)'
             PROVE  Covered(r, x)'
  BY DEF MirrorInv, Subjects
<1> DEFINE m == handler[h].msg
           a == m.about
           o == Build(h)
<1>1. /\ handler[h].pc = "build" /\ m.action # "syncSchool" /\ Ack(handler[h].tag) /\ Done(h)
      /\ UNCHANGED <<matrix, data>> /\ UNCHANGED Asked
      /\ external' = Append(external, o) \/ lost'
      /\ overtaken' = (overtaken \/ Outdated(h))
  BY DEF SendOrder, Acknowledge, data, Asked
<1>2. external' = Append(external, o) /\ ~Outdated(h) /\ ~mistaken'
  BY <1>1 DEF Clean
<1>3. QueueTypeOK(Message)' /\ Settled(handler[h].tag, FALSE)
  BY <1>1, Acked DEF BaseInv
<1>4. m \in Message /\ o \in OrderType /\ OrdersOK
  BY <1>1, BuildTyped DEF BaseInv, HandlersOK, HandlerType
<1>5. \A n \in Held(Ahead) : n \in Held(Ahead)' \/ n = m
  <2>1. Ahead \in SUBSET Busy /\ handler[h].pc # "idle"
    BY <1>1 DEF Ahead, Busy
  <2> QED BY <1>1, <1>2, <1>3, <2>1, SettleHolds
<1>6. \A b : Due(b) => Pending(b)'
  BY <1>1, <1>2, <1>3, DueKept
<1>7. /\ Matters(r, x) /\ Covered(r, x) /\ (Wanted(r, x)' <=> Wanted(r, x))
      /\ \A b : Action(b)' = Action(b)
  BY <1>1, AskedSame DEF MirrorInv
<1>8. \A b : Pending(b) /\ ~(b = a /\ m.action = Action(a)) => Pending(b)'
  BY <1>5, <1>7 DEF Pending
<1>9. /\ Decides(o, r, x) /\ (Says(o, x) <=> Wanted(r, x)) => Covered(r, x)'
      /\ ~Decides(o, r, x) /\ Ends(r, x, Wanted(r, x)) => Covered(r, x)'
  <2>1. PICK in \in BOOLEAN : in <=> Wanted(r, x)
    OBVIOUS
  <2>2. /\ Decides(o, r, x) /\ (Says(o, x) <=> in) => Ends(r, x, in)'
        /\ ~Decides(o, r, x) /\ Ends(r, x, in) => Ends(r, x, in)'
    BY <1>1, <1>2, <1>4, EndsAppended
  <2>3. Ends(r, x, Wanted(r, x)) <=> Ends(r, x, in)
    BY <2>1 DEF Ends
  <2>4. Ends(r, x, Wanted(r, x))' <=> Ends(r, x, in)'
    BY <1>7, <2>1 DEF Ends
  <2> QED BY <2>1, <2>2, <2>3, <2>4 DEF Covered
<1>10. gone' = gone
  BY <1>1 DEF Asked
<1> HIDE DEF m, o
<1>11. ASSUME ~Decides(o, r, x), r # a \/ m.action # Action(a), x # a \/ m.action # Action(a) \/ x \notin gone
       PROVE  Covered(r, x)'
  BY <1>7, <1>8, <1>9, <1>10, <1>11 DEF Covered
<1>12. CASE m.action = "syncRoom"
  <2>1. /\ o.rooms = {a} /\ o.method = "addRoom" /\ o.users = Invited(a, handler[h].read) /\ a \in Rooms
    BY <1>4, <1>12, MessageKinds DEF o, m, Build, BuildAddRoom, Order
  <2>2. CASE r # a
    BY <1>11, <2>1, <2>2, Kinships DEF Decides, Subjects, BaseInv, RoomsOK
  <2>3. CASE r = a /\ Due(a)
    BY <1>6, <2>3 DEF Covered
  <2>4. CASE r = a /\ ~Due(a)
    <3>1. exists[a] /\ ~archived[a] /\ handler[h].read = members[a]
      BY <1>2, <1>12, <2>4 DEF Outdated, m
    <3>2. Decides(o, r, x)
      BY <2>1, <2>4 DEF Decides
    <3>3. Says(o, x) <=> Wanted(r, x)
      BY <2>1, <2>4, <3>1 DEF Says, Wanted
    <3> QED BY <1>9, <3>2, <3>3
  <2> QED BY <2>2, <2>3, <2>4
<1>13. CASE m.action = "deleteRoom"
  <2>1. o.rooms = {a} /\ o.method = "removeRoom" /\ a \in Rooms
    BY <1>4, <1>13, MessageKinds DEF o, m, Build, BuildDeleteRoom, Order
  <2>2. CASE r # a
    BY <1>11, <2>1, <2>2, Kinships DEF Decides, Subjects, BaseInv, RoomsOK
  <2>3. CASE r = a /\ Due(a)
    BY <1>6, <2>3 DEF Covered
  <2>4. CASE r = a /\ ~Due(a)
    <3>1. ~exists[a] \/ archived[a]
      BY <1>2, <1>13, <2>4 DEF Outdated, m
    <3>2. x = NoUser /\ ~exists[a]
      BY <1>7, <2>4, <3>1 DEF Matters
    <3> QED BY <1>9, <2>1, <2>4, <3>2 DEF Decides, Says, Wanted
  <2> QED BY <2>2, <2>3, <2>4
<1>14. CASE m.action = "deleteUser"
  <2>1. o.rooms = Rooms /\ o.method = "removeUser" /\ o.users = {a} /\ a \in Users
    BY <1>4, <1>14, MessageKinds DEF o, m, Build, BuildDeleteUser, Order
  <2>2. a \in gone /\ a # NoUser
    BY <1>14, <2>1, Kinships DEF BaseInv, DeletionsOK, InUse, m
  <2>3. CASE x # a
    BY <1>11, <2>1, <2>3, Kinships DEF Decides
  <2>4. CASE x = a
    <3>1. r \in Courses /\ Decides(o, r, x) /\ ~Says(o, x)
      BY <1>7, <2>1, <2>2, <2>4 DEF Matters, Decides, Says
    <3>2. ~Wanted(r, x)
      BY <2>2, <2>4, <3>1, Kinships DEF Wanted, Invited, BaseInv, RoomsOK
    <3> QED BY <1>9, <3>1, <3>2
  <2> QED BY <2>3, <2>4
<1>15. CASE m.action = "syncUser"
  <2>1. /\ o.rooms = handler[h].read /\ o.method = "addUser" /\ o.users = {a} /\ a \in Users /\ a \notin Muted
        /\ a # NoUser
    BY <1>1, <1>4, <1>15, MessageKinds, Kinships DEF o, m, Build, BuildAddUser, Order, BaseInv, HandlersOK
  <2>2. r # a /\ (x = a /\ x \in gone => m.action # Action(a))
    BY <1>15, <2>1, Kinships DEF Action
  <2>3. CASE ~Decides(o, r, x)
    BY <1>11, <2>2, <2>3
  <2>4. CASE Decides(o, r, x)
    <3>1. r \in handler[h].read /\ x \in {a, NoUser}
      BY <2>1, <2>4 DEF Decides
    <3>2. CASE r \in RoomsOf(a)
      <4>1. exists[r] /\ a \in members[r] /\ a \in Invited(r, members[r])
        BY <2>1, <3>2 DEF RoomsOf, Invited
      <4>2. Says(o, x) <=> Wanted(r, x)
        BY <2>1, <3>1, <4>1 DEF Says, Wanted
      <4> QED BY <1>9, <2>4, <4>2
    <3>3. CASE r \notin RoomsOf(a)
      <4>1. Due(r) \/ (exists[r] /\ a \in gone /\ Due(a))
        BY <1>2, <1>15, <3>1, <3>3 DEF Outdated, m
      <4>2. CASE Due(r)
        BY <1>6, <4>2 DEF Covered
      <4>3. CASE exists[r] /\ a \in gone /\ Due(a) /\ x = a
        BY <1>6, <1>10, <2>1, <4>3 DEF Covered
      <4>4. CASE exists[r] /\ x = NoUser
        <5>1. ~Says(o, x) /\ ~Wanted(r, x)
          BY <2>1, <4>4 DEF Says, Wanted
        <5> QED BY <1>9, <2>4, <5>1
      <4> QED BY <3>1, <4>1, <4>2, <4>3, <4>4
    <3> QED BY <3>2, <3>3
  <2> QED BY <2>3, <2>4
<1> QED
  BY <1>1, <1>4, <1>12, <1>13, <1>14, <1>15, MessageKinds DEF m

LEMMA MirrorStep == ASSUME BaseInv, TagInv, MirrorInv, [Next]_vars PROVE MirrorInv'
<1>1. Clean' => Clean
  BY CleanBefore
<1>2. CASE \E r \in Rooms : PatchMembers(r) \/ Archive(r) \/ RemoveRoom(r)
  BY <1>2, PatchMembersMirror, ArchiveMirror, RemoveRoomMirror
<1>3. CASE \E u \in Users : PatchUser(u) \/ DeleteUser(u)
  BY <1>3, ServicesMirror, DeleteUserMirror
<1>4. CASE PatchSchool
  BY <1>4, ServicesMirror
<1>5. CASE \E h \in Handlers : Handle(h) \/ HandlerFails(h)
  BY <1>1, <1>5, ReceiveMirror, ExpandMirror, SendOrderMirror, SchoolMirror, SchoolIsSyncedMirror,
     HandlerFailsMirror DEF Handle
<1>6. CASE ChannelCloses \/ Crash \/ Reconnect \/ TakeOrder \/ UNCHANGED vars
  BY <1>1, <1>6, BreakMirror, StillMirror, TakeOrderMirror
<1> QED
  BY <1>2, <1>3, <1>4, <1>5, <1>6 DEF Next

LEMMA MirrorIsRight == ASSUME BaseInv, MirrorInv PROVE MirrorAtRest
<1> SUFFICES ASSUME AtRest, Clean, NEW r \in Rooms
             PROVE  IF ~exists[r] THEN ~IsRoom(r)
                    ELSE ~archived[r] => /\ matrix[r] \ gone = Invited(r, members[r]) \ gone
                                         /\ r \in Courses => matrix[r] \cap gone = {}
  BY DEF MirrorAtRest, Clean
<1>1. \A i \in 1..Len(external) : FALSE
  BY EmptySeq DEF AtRest
<1>2. Held(Ahead) = {}
  <2>1. \A i \in DOMAIN ready : FALSE
    BY DEF AtRest
  <2> QED BY <2>1 DEF AtRest, Held, Ahead
<1>3. ASSUME NEW x \in Subjects, Matters(r, x) PROVE x \in matrix[r] <=> Wanted(r, x)
  <2>1. Ends(r, x, Wanted(r, x))
    BY <1>2, <1>3 DEF MirrorInv, Covered, Pending
  <2> QED BY <1>1, <2>1 DEF Ends
<1>4. matrix[r] \in SUBSET Users \/ matrix[r] = {NoUser}
  BY DEF BaseInv, OrdersOK, NoRoom
<1>5. CASE ~exists[r]
  <2>1. NoUser \in matrix[r]
    BY <1>3, <1>5 DEF Subjects, Matters, Wanted
  <2>2. matrix[r] = {NoUser}
    BY <1>4, <2>1, Kinships
  <2> QED BY <1>5, <2>2 DEF IsRoom, NoRoom
<1>6. CASE exists[r] /\ ~archived[r]
  <2>1. NoUser \notin matrix[r]
    BY <1>3, <1>6 DEF Subjects, Matters, Wanted
  <2>2. matrix[r] \subseteq Users
    BY <1>4, <2>1
  <2>3. Invited(r, members[r]) \subseteq Users
    BY DEF Invited, BaseInv, RoomsOK
  <2>4. \A u \in Users : u \notin gone \/ r \in Courses => (u \in matrix[r] <=> u \in Invited(r, members[r]))
    BY <1>3, <1>6, Kinships DEF Subjects, Matters, Wanted
  <2>5. matrix[r] \ gone = Invited(r, members[r]) \ gone
    BY <2>2, <2>3, <2>4
  <2>6. r \in Courses => Invited(r, members[r]) \cap gone = {}
    BY Kinships DEF Invited, BaseInv, RoomsOK
  <2>7. r \in Courses => matrix[r] \cap gone = {}
    BY <2>2, <2>4, <2>6
  <2> QED BY <1>6, <2>5, <2>7
<1> QED
  BY <1>5, <1>6

(* When the queues are empty, the rooms of the Matrix server are those of  *)
(* the database, whatever closed, crashed or failed on the way, unless a   *)
(* message was dropped, an order passed another for its room, a handler    *)
(* settled what another one has, or the school had no messenger.           *)
THEOREM MirrorTheorem == Spec => []MirrorAtRest
<1> DEFINE Inv == BaseInv /\ TagInv /\ MirrorInv
<1>1. Init => Inv
  <2>1. ASSUME Init PROVE TagInv
    <3>1. \A h \in Handlers : ~Alive(h)
      BY <2>1 DEF Init, Alive, Idle
    <3>2. \A i \in 1..Len(unacked) : FALSE
      BY <2>1, EmptySeq DEF Init, QueueInit
    <3> QED BY <3>1, <3>2 DEF TagInv, TagsInRange, TagsDistinct
  <2> QED BY <2>1, BaseAtStart, MirrorAtStart
<1>2. Inv /\ [Next]_vars => Inv'
  BY BaseStep, TagStep, MirrorStep
<1>3. Inv => MirrorAtRest
  BY MirrorIsRight
<1> QED
  BY <1>1, <1>2, <1>3, PTL DEF Spec
=============================================================================
