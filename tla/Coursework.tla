----------------------------- MODULE Coursework -----------------------------
(***************************************************************************)
(* One server handles the edits of a course and the submissions of its     *)
(* homework; no hook of the one reads what the other writes.               *)
(***************************************************************************)
EXTENDS Courses, Submissions

CONSTANT MaxRequests        \* bound: requests of both kinds

courseworkVars == <<courseVars, submissionVars>>

CourseworkTypeOK == CoursesTypeOK /\ SubmissionsTypeOK

CourseworkInit == CoursesInit /\ SubmissionsInit

CourseworkNext ==
    /\ \/ CoursesNext /\ UNCHANGED submissionVars
       \/ SubmissionsNext /\ UNCHANGED courseVars
    /\ edits' + calls' <= MaxRequests

CourseworkSpec == CourseworkInit /\ [][CourseworkNext]_courseworkVars
=============================================================================
