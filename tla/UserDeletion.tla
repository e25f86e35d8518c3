---------------------------- MODULE UserDeletion ----------------------------
(***************************************************************************)
(* Deletion of users: UserServiceV2.remove, deleteUser and the background  *)
(* chain deleteUserRelatedData (src/components/user/uc/users.uc.js) with   *)
(* the deleteUserData functions of the pseudonym, helpdesk, fileStorage,   *)
(* user-group, course and messenger components.                            *)
(*                                                                         *)
(* A task is one call of deleteUser.  Several tasks run interleaved, also  *)
(* for the same user, in one or several server processes; each await in    *)
(* the code is a point where the others may run, so each action below is   *)
(* the code between two awaits with the one database command it waits for. *)
(* A command may fail, with or without having taken effect, and a process  *)
(* may crash.  Trash bins expire after 7 days; that is outside the model.  *)
(***************************************************************************)
EXTENDS Naturals, Sequences

CONSTANTS
    Tasks,              \* calls of deleteUser
    Users,              \* users that may be deleted
    Schools,
    SchoolOf,           \* the school of a user, kept by its tombstone
    Accounts,
    OwnerOf,            \* the user an account belongs to (account.userId)
    Items,              \* documents (or lesson contents) that refer to users
    LessonOf,           \* the lesson a lesson content is embedded in
    WithProvider,       \* schools that have a storage provider
    InitialRefs,        \* the possible initial references
    StepList,           \* the functions of the facades passed to
                        \* deleteUserRelatedData, in their order
    Disturbances,       \* what may happen besides the deletions, of:
                        \*   "step":     a deleteUserData function throws
                        \*   "usecase":  a command of deleteUser throws
                        \*   "crash":    the process of a task dies
                        \*   "addition": a reference to a user is written
    MaxDisturbances     \* bound: how often something of it happens

None == "none"

(* The facades of deleteUser with their deleteUserData lists, flattened.   *)
AllSteps == <<"pseudonyms", "problems", "filePermission", "files", "classes",
              "courses", "lessons", "courseGroups", "messenger">>

(* The scopes whose function reads the documents and then updates them.    *)
PlainScopes == {"pseudonyms", "problems", "classes", "courses", "lessons",
                "courseGroups"}
Scopes == PlainScopes \cup {"filePermission", "files"}
StepNames == Scopes \cup {"messenger"}

References == [Scopes -> SUBSET (Items \X Users)]

ASSUME ConstantsAssumption ==
    /\ SchoolOf \in [Users -> Schools]
    /\ OwnerOf \in [Accounts -> Users]
    /\ DOMAIN LessonOf = Items
    /\ WithProvider \subseteq Schools
    /\ InitialRefs \subseteq References
    /\ None \notin Tasks
    /\ StepList \in Seq(StepNames) /\ StepList # <<>>
    /\ Disturbances \subseteq {"step", "usecase", "crash", "addition"}
    /\ MaxDisturbances \in Nat

VARIABLES
    target,         \* the id each task was called with
    pc,             \* where each task is suspended
    step,           \* index in StepList of the related-data loop
    snapUser,       \* the user document a task read: "live" or None
    snapAccount,    \* the account it read (none or one)
    found,          \* what the current deleteUserData function has read
    pending,        \* database and storage calls issued and not answered
    moving,         \* the files named in the call to the storage provider
    newTomb,        \* number of the tombstone user the task has created
    deleted,        \* users replaced by their tombstone (deletedAt is set)
    accounts,       \* accounts that exist
    pins,           \* users with registration pins (their own or parents')
    tombUsers,      \* number of tombstone users created for each school
    tombstoneId,    \* school.tombstoneUserId, 0 when it is not set
    bins,           \* tasks that have created their trash bin
    newest,         \* the task whose trash bin is the user's newest
    recorded,       \* elements pushed to the trash bin a task created
    refs,           \* for each scope, which documents refer to which users
    history,        \* history variable: every reference there ever was
    blobs,          \* files present under their name in the storage bucket
    removalMsgs,    \* users whose removal was requested from the messenger
    disturbances    \* what has happened of Disturbances, in its order

taskVars == <<target, pc, step, snapUser, snapAccount, found, pending,
              moving, newTomb>>
userVars == <<deleted, accounts, pins, tombUsers, tombstoneId>>
binVars  == <<bins, newest, recorded>>
dataVars == <<refs, history, blobs, removalMsgs>>
vars == <<taskVars, userVars, binVars, dataVars, disturbances>>

(* The awaits of deleteUser up to and including the user's replacement,    *)
(* those after it, and those of the related-data loop.                     *)
BeforeTomb == {"getUser", "getAccount", "createTrashbin", "replace"}
AfterTomb  == {"removeAccount", "removePins", "getSchool", "createTombstone",
               "setTombstone"}
Loop       == {"find", "remove", "await", "push", "pushError"}
Running    == BeforeTomb \cup AfterTomb \cup Loop
Ended      == {"rejected", "done", "failed", "crashed"}

Ops == {"permRead", "permRemove", "fileRemove", "s3Move"}
OpsOf(scope) == CASE scope = "filePermission" -> {"permRead", "permRemove"}
                  [] scope = "files"          -> {"fileRemove", "s3Move"}
                  [] OTHER                    -> {}

(* An element of the trash bin's data array.  The error result pushed by   *)
(* the catch block has neither of the fields of the array's schema (scope, *)
(* data), so that an element without a scope remains of it.                *)
Element(scope, items) == [scope |-> scope, items |-> items]
ErrorElement == Element(None, {})

Scope(t) == StepList[step[t]]
RefsTo(scope, u) == {i \in Items : <<i, u>> \in refs[scope]}

(* Mutant of Removed: every scope loses the references of the documents    *)
(* found, whoever they refer to.                                           *)
RemovedWithDocument(scope, u) ==
    {r \in refs[scope] : r[1] \in RefsTo(scope, u)}

(* What the update of a scope removes.  $pull and deleteMany remove the    *)
(* user's references; the $unset of 'contents.$[].user' removes the        *)
(* authors of all contents of a lesson that has a content by the user.     *)
Removed(scope, u) ==
    IF scope = "lessons"
    THEN {r \in refs["lessons"] :
            \E i \in RefsTo("lessons", u) : LessonOf[i] = LessonOf[r[1]]}
    ELSE {r \in refs[scope] : r[2] = u}

RemoveRefs(scope, u) ==
    refs' = [refs EXCEPT ![scope] = @ \ Removed(scope, u)]

AccountsOf(u) == {a \in accounts : OwnerOf[a] = u}

Disturb(kind) ==
    /\ kind \in Disturbances
    /\ Len(disturbances) < MaxDisturbances
    /\ disturbances' = Append(disturbances, kind)

Goto(t, label) == pc' = [pc EXCEPT ![t] = label]
-----------------------------------------------------------------------------
Init ==
    /\ target \in [Tasks -> Users]
    /\ pc = [t \in Tasks |-> "check"]
    /\ step = [t \in Tasks |-> 1]
    /\ snapUser = [t \in Tasks |-> None]
    /\ snapAccount = [t \in Tasks |-> {}]
    /\ found = [t \in Tasks |-> {}]
    /\ pending = [t \in Tasks |-> {}]
    /\ moving = [t \in Tasks |-> {}]
    /\ newTomb = [t \in Tasks |-> 0]
    /\ deleted = {}
    /\ accounts = Accounts
    /\ pins = Users
    /\ tombUsers = [s \in Schools |-> 0]
    /\ tombstoneId = [s \in Schools |-> 0]
    /\ bins = {}
    /\ newest = [u \in Users |-> None]
    /\ recorded = [t \in Tasks |-> {}]
    /\ refs \in InitialRefs
    /\ history = refs
    /\ blobs = {i \in Items : \E u \in Users : <<i, u>> \in refs["files"]}
    /\ removalMsgs = {}
    /\ disturbances = <<>>

(* checkPermissions: the tombstone of a deleted user has no roles and is   *)
(* therefore not deleted again by a call that comes late.                  *)
CheckPermissions(t) ==
    /\ pc[t] = "check"
    /\ Goto(t, IF target[t] \in deleted THEN "rejected" ELSE "getUser")
    /\ UNCHANGED <<target, step, snapUser, snapAccount, found, pending, moving,
                   newTomb, userVars, binVars, dataVars, disturbances>>

(* Mutant of GetUser: the check of deletedAt is missing.                   *)
GetUserUnchecked(t) ==
    /\ pc[t] = "getUser"
    /\ Goto(t, "getAccount")
    /\ snapUser' = [snapUser EXCEPT ![t] =
                        IF target[t] \in deleted THEN None ELSE "live"]
    /\ UNCHANGED <<target, step, snapAccount, found, pending, moving, newTomb,
                   userVars, binVars, dataVars, disturbances>>

(* getUserData, first await: the user, who must not have been deleted.     *)
GetUser(t) ==
    /\ pc[t] = "getUser"
    /\ IF target[t] \in deleted
       THEN Goto(t, "rejected") /\ UNCHANGED snapUser
       ELSE Goto(t, "getAccount") /\ snapUser' = [snapUser EXCEPT ![t] = "live"]
    /\ UNCHANGED <<target, step, snapAccount, found, pending, moving, newTomb,
                   userVars, binVars, dataVars, disturbances>>

(* Mutant of GetAccount: the filter by user is missing.                    *)
GetAnyAccount(t) ==
    /\ pc[t] = "getAccount"
    /\ \E a \in accounts : snapAccount' = [snapAccount EXCEPT ![t] = {a}]
    /\ Goto(t, "createTrashbin")
    /\ UNCHANGED <<target, step, snapUser, found, pending, moving, newTomb,
                   userVars, binVars, dataVars, disturbances>>

(* getUserData, second await: findOne, one account of the user or null.    *)
GetAccount(t) ==
    /\ pc[t] = "getAccount"
    /\ \/ /\ AccountsOf(target[t]) = {}
          /\ UNCHANGED snapAccount
       \/ \E a \in AccountsOf(target[t]) :
             snapAccount' = [snapAccount EXCEPT ![t] = {a}]
    /\ Goto(t, "createTrashbin")
    /\ UNCHANGED <<target, step, snapUser, found, pending, moving, newTomb,
                   userVars, binVars, dataVars, disturbances>>

(* A new trash bin with what was read, whether or not the user has one.    *)
CreateUserTrashbin(t) ==
    /\ pc[t] = "createTrashbin"
    /\ bins' = bins \cup {t}
    /\ newest' = [newest EXCEPT ![target[t]] = t]
    /\ Goto(t, "replace")
    /\ UNCHANGED <<target, step, snapUser, snapAccount, found, pending, moving,
                   newTomb, userVars, recorded, dataVars, disturbances>>

(* replaceOne matches and modifies, also when it replaces a tombstone.     *)
ReplaceUserWithTombstone(t) ==
    /\ pc[t] = "replace"
    /\ deleted' = deleted \cup {target[t]}
    /\ Goto(t, "removeAccount")
    /\ UNCHANGED <<target, step, snapUser, snapAccount, found, pending, moving,
                   newTomb, accounts, pins, tombUsers, tombstoneId, binVars,
                   dataVars, disturbances>>

(* findOneAndRemove removes one account, not all of the user.              *)
DeleteAccountForUserId(t) ==
    /\ pc[t] = "removeAccount"
    /\ \/ /\ AccountsOf(target[t]) = {}
          /\ UNCHANGED accounts
       \/ \E a \in AccountsOf(target[t]) : accounts' = accounts \ {a}
    /\ Goto(t, "removePins")
    /\ UNCHANGED <<target, step, snapUser, snapAccount, found, pending, moving,
                   newTomb, deleted, pins, tombUsers, tombstoneId, binVars,
                   dataVars, disturbances>>

(* Pins of the user and of the parents; a failure is logged and ignored.   *)
DeleteRegistrationPins(t) ==
    /\ pc[t] = "removePins"
    /\ \/ /\ pins' = pins \ {target[t]}
          /\ UNCHANGED disturbances
       \/ /\ Disturb("step")
          /\ UNCHANGED pins
    /\ Goto(t, "getSchool")
    /\ UNCHANGED <<target, step, snapUser, snapAccount, found, pending, moving,
                   newTomb, deleted, accounts, tombUsers, tombstoneId, binVars,
                   dataVars>>

(* getOrCreateTombstoneUserId: read the school, ...                        *)
GetSchool(t) ==
    /\ pc[t] = "getSchool"
    /\ Goto(t, IF tombstoneId[SchoolOf[target[t]]] # 0 THEN "find"
                                                       ELSE "createTombstone")
    /\ UNCHANGED <<target, step, snapUser, snapAccount, found, pending, moving,
                   newTomb, userVars, binVars, dataVars, disturbances>>

(* ... create a tombstone user when the school read had none, ...          *)
CreateTombstoneUser(t) ==
    LET s == SchoolOf[target[t]] IN
    /\ pc[t] = "createTombstone"
    /\ tombUsers' = [tombUsers EXCEPT ![s] = @ + 1]
    /\ newTomb' = [newTomb EXCEPT ![t] = tombUsers'[s]]
    /\ Goto(t, "setTombstone")
    /\ UNCHANGED <<target, step, snapUser, snapAccount, found, pending, moving,
                   deleted, accounts, pins, tombstoneId, binVars, dataVars,
                   disturbances>>

(* ... and store its id.  The caller passed checkPermissions and so has    *)
(* one of the permissions asked for here.  After it, the request is        *)
(* answered and deleteUserRelatedData runs in the background.              *)
SetTombstoneUser(t) ==
    /\ pc[t] = "setTombstone"
    /\ tombstoneId' = [tombstoneId EXCEPT ![SchoolOf[target[t]]] = newTomb[t]]
    /\ newTomb' = [newTomb EXCEPT ![t] = 0]
    /\ Goto(t, "find")
    /\ UNCHANGED <<target, step, snapUser, snapAccount, found, pending, moving,
                   deleted, accounts, pins, tombUsers, binVars,
                   dataVars, disturbances>>
-----------------------------------------------------------------------------
(* Mutant of FindRelated: the check for an empty result is inverted.       *)
FindRelatedInverted(t) ==
    LET items == RefsTo(Scope(t), target[t]) IN
    /\ pc[t] = "find"
    /\ Scope(t) \in PlainScopes
    /\ found' = [found EXCEPT ![t] = items]
    /\ Goto(t, IF items # {} THEN "push" ELSE "remove")
    /\ UNCHANGED <<target, step, snapUser, snapAccount, pending, moving,
                   newTomb, userVars, binVars, dataVars, disturbances>>

(* A plain function reads the documents that refer to the user ...         *)
FindRelated(t) ==
    LET items == RefsTo(Scope(t), target[t]) IN
    /\ pc[t] = "find"
    /\ Scope(t) \in PlainScopes
    /\ found' = [found EXCEPT ![t] = items]
    /\ Goto(t, IF items = {} THEN "push" ELSE "remove")
    /\ UNCHANGED <<target, step, snapUser, snapAccount, pending, moving,
                   newTomb, userVars, binVars, dataVars, disturbances>>

(* ... and, when there are some, removes the references it then finds.     *)
RemoveRelated(t) ==
    /\ pc[t] = "remove"
    /\ RemoveRefs(Scope(t), target[t])
    /\ Goto(t, "push")
    /\ UNCHANGED <<target, step, snapUser, snapAccount, found, pending, moving,
                   newTomb, userVars, binVars, history, blobs, removalMsgs,
                   disturbances>>

(* removePermissionsThatUserCanAccess issues its read and its update       *)
(* together (Promise.all).                                                 *)
StartPermissions(t) ==
    /\ pc[t] = "find"
    /\ Scope(t) = "filePermission"
    /\ found' = [found EXCEPT ![t] = {}]
    /\ pending' = [pending EXCEPT ![t] = @ \cup OpsOf("filePermission")]
    /\ Goto(t, "await")
    /\ UNCHANGED <<target, step, snapUser, snapAccount, moving, newTomb,
                   userVars, binVars, dataVars, disturbances>>

(* removePersonalFiles: nothing to do, no storage provider (an             *)
(* AssertionError), or the removal of the files from the database and from *)
(* the bucket, again issued together.                                      *)
FindFiles(t) ==
    LET items == RefsTo("files", target[t]) IN
    /\ pc[t] = "find"
    /\ Scope(t) = "files"
    /\ found' = [found EXCEPT ![t] = items]
    /\ \/ /\ items = {}
          /\ Goto(t, "push")
          /\ UNCHANGED <<pending, moving>>
       \/ /\ items # {}
          /\ SchoolOf[target[t]] \notin WithProvider
          /\ Goto(t, "pushError")
          /\ UNCHANGED <<pending, moving>>
       \/ /\ items # {}
          /\ SchoolOf[target[t]] \in WithProvider
          /\ pending' = [pending EXCEPT ![t] = @ \cup OpsOf("files")]
          /\ moving' = [moving EXCEPT ![t] = items]
          /\ Goto(t, "await")
    /\ UNCHANGED <<target, step, snapUser, snapAccount, newTomb, userVars,
                   binVars, dataVars, disturbances>>

(* deactivateUser queues a removal request and does not wait.              *)
DeactivateUser(t) ==
    /\ pc[t] = "find"
    /\ Scope(t) = "messenger"
    /\ removalMsgs' = removalMsgs \cup {target[t]}
    /\ found' = [found EXCEPT ![t] = {}]
    /\ Goto(t, "push")
    /\ UNCHANGED <<target, step, snapUser, snapAccount, pending, moving,
                   newTomb, userVars, binVars, refs, history, blobs, disturbances>>

Answer(t, op) == pending' = [pending EXCEPT ![t] = @ \ {op}]

ReadPermissions(t) ==
    /\ "permRead" \in pending[t]
    /\ Answer(t, "permRead")
    /\ found' = IF pc[t] = "await" /\ Scope(t) = "filePermission"
                THEN [found EXCEPT ![t] = RefsTo("filePermission", target[t])]
                ELSE found
    /\ UNCHANGED <<target, pc, step, snapUser, snapAccount, moving, newTomb,
                   userVars, binVars, dataVars, disturbances>>

RemovePermissions(t) ==
    /\ "permRemove" \in pending[t]
    /\ Answer(t, "permRemove")
    /\ RemoveRefs("filePermission", target[t])
    /\ UNCHANGED <<target, pc, step, snapUser, snapAccount, found, moving,
                   newTomb, userVars, binVars, history, blobs, removalMsgs,
                   disturbances>>

RemovePersonalFiles(t) ==
    /\ "fileRemove" \in pending[t]
    /\ Answer(t, "fileRemove")
    /\ RemoveRefs("files", target[t])
    /\ UNCHANGED <<target, pc, step, snapUser, snapAccount, found, moving,
                   newTomb, userVars, binVars, history, blobs, removalMsgs,
                   disturbances>>

MoveFilesToTrash(t) ==
    /\ "s3Move" \in pending[t]
    /\ Answer(t, "s3Move")
    /\ blobs' = blobs \ moving[t]
    /\ moving' = [moving EXCEPT ![t] = {}]
    /\ UNCHANGED <<target, pc, step, snapUser, snapAccount, found, newTomb,
                   userVars, binVars, refs, history, removalMsgs,
                   disturbances>>

(* Promise.all resolves when both calls have.                              *)
AllResolved(t) ==
    /\ pc[t] = "await"
    /\ pending[t] \cap OpsOf(Scope(t)) = {}
    /\ Goto(t, "push")
    /\ UNCHANGED <<target, step, snapUser, snapAccount, found, pending, moving,
                   newTomb, userVars, binVars, dataVars, disturbances>>

(* Mutant of NextStep: one step too many.                                  *)
NextStepOffByOne(t) ==
    /\ IF step[t] <= Len(StepList)
       THEN step' = [step EXCEPT ![t] = @ + 1] /\ Goto(t, "find")
       ELSE UNCHANGED step /\ Goto(t, "done")
    /\ found' = [found EXCEPT ![t] = {}]

NextStep(t) ==
    /\ IF step[t] < Len(StepList)
       THEN step' = [step EXCEPT ![t] = @ + 1] /\ Goto(t, "find")
       ELSE UNCHANGED step /\ Goto(t, "done")
    /\ found' = [found EXCEPT ![t] = {}]

(* Mutant of Push: no element is pushed for an error.                      *)
PushIfScope(t, element) ==
    recorded' = [recorded EXCEPT ![newest[target[t]]] =
                    IF element = ErrorElement THEN @ ELSE @ \cup {element}]

(* updateTrashbinByUserId: push to the newest trash bin of the user.       *)
Push(t, element) ==
    recorded' = [recorded EXCEPT ![newest[target[t]]] = @ \cup {element}]

PushTrash(t) ==
    /\ pc[t] = "push"
    /\ Push(t, Element(Scope(t), found[t]))
    /\ NextStep(t)
    /\ UNCHANGED <<target, snapUser, snapAccount, pending, moving,
                   newTomb, userVars, bins, newest, dataVars, disturbances>>

PushError(t) ==
    /\ pc[t] = "pushError"
    /\ Push(t, ErrorElement)
    /\ NextStep(t)
    /\ UNCHANGED <<target, snapUser, snapAccount, pending, moving,
                   newTomb, userVars, bins, newest, dataVars, disturbances>>
-----------------------------------------------------------------------------
(* Mutant of StepFails: nothing catches the exception.                     *)
StepFailsUncaught(t) ==
    /\ pc[t] \in {"find", "remove"}
    /\ Disturb("step")
    /\ Goto(t, "failed")
    /\ UNCHANGED <<target, step, snapUser, snapAccount, found, pending, moving,
                   newTomb, userVars, binVars, dataVars>>

(* A read or an update of a deleteUserData function fails; the update may  *)
(* have taken effect.  The catch block takes over.                         *)
StepFails(t) ==
    /\ pc[t] \in {"find", "remove"}
    /\ Disturb("step")
    /\ \/ UNCHANGED refs
       \/ pc[t] = "remove" /\ RemoveRefs(Scope(t), target[t])
    /\ Goto(t, "pushError")
    /\ UNCHANGED <<target, step, snapUser, snapAccount, found, pending, moving,
                   newTomb, userVars, binVars, history, blobs, removalMsgs>>

(* One of two concurrent calls fails, with a part of its effect.  While    *)
(* the function waits for it, Promise.all rejects at once and the other    *)
(* call goes on in the background.                                         *)
OpFails(t, op) ==
    /\ op \in pending[t]
    /\ Disturb("step")
    /\ Answer(t, op)
    /\ \/ UNCHANGED <<refs, blobs>>
       \/ op = "permRemove" /\ RemoveRefs("filePermission", target[t])
          /\ UNCHANGED blobs
       \/ op = "fileRemove" /\ RemoveRefs("files", target[t])
          /\ UNCHANGED blobs
       \/ op = "s3Move" /\ (\E part \in SUBSET moving[t] : blobs' = blobs \ part)
          /\ UNCHANGED refs
    /\ IF pc[t] = "await" /\ op \in OpsOf(Scope(t))
       THEN Goto(t, "pushError") ELSE UNCHANGED pc
    /\ UNCHANGED <<target, step, snapUser, snapAccount, found, moving, newTomb,
                   userVars, binVars, history, removalMsgs>>

(* A command of deleteUser itself fails: the promise rejects.  A failed    *)
(* push is caught once and then ends deleteUserRelatedData.                *)
UcFails(t) ==
    /\ pc[t] \in BeforeTomb \cup (AfterTomb \ {"removePins"})
                 \cup {"push", "pushError"}
    /\ Disturb("usecase")
    /\ Goto(t, IF pc[t] = "push" THEN "pushError" ELSE "failed")
    /\ UNCHANGED <<target, step, snapUser, snapAccount, found, pending, moving,
                   newTomb, userVars, binVars, dataVars>>

(* The process of the task dies; nothing resumes the task.                 *)
Crash(t) ==
    /\ pc[t] \in Running
    /\ Disturb("crash")
    /\ Goto(t, "crashed")
    /\ pending' = [pending EXCEPT ![t] = {}]
    /\ UNCHANGED <<target, step, snapUser, snapAccount, found, moving, newTomb,
                   userVars, binVars, dataVars>>

(* The rest of the system writes a reference to a user, deleted or not: a  *)
(* class or course is saved with a list of members read earlier, ...       *)
AddReference ==
    /\ Disturb("addition")
    /\ \E s \in Scopes \ {"files"}, i \in Items, u \in Users :
          /\ <<i, u>> \notin refs[s]
          /\ refs' = [refs EXCEPT ![s] = @ \cup {<<i, u>>}]
          /\ history' = [history EXCEPT ![s] = @ \cup {<<i, u>>}]
    /\ UNCHANGED <<taskVars, userVars, binVars, blobs, removalMsgs>>

DeleteUser(t) ==
    \/ CheckPermissions(t) \/ GetUser(t) \/ GetAccount(t)
    \/ CreateUserTrashbin(t) \/ ReplaceUserWithTombstone(t)
    \/ DeleteAccountForUserId(t) \/ DeleteRegistrationPins(t)
    \/ GetSchool(t) \/ CreateTombstoneUser(t) \/ SetTombstoneUser(t)

DeleteUserRelatedData(t) ==
    \/ FindRelated(t) \/ RemoveRelated(t) \/ StartPermissions(t)
    \/ FindFiles(t) \/ DeactivateUser(t)
    \/ ReadPermissions(t) \/ RemovePermissions(t) \/ RemovePersonalFiles(t)
    \/ MoveFilesToTrash(t) \/ AllResolved(t) \/ PushTrash(t) \/ PushError(t)

Fault(t) ==
    \/ StepFails(t) \/ UcFails(t) \/ Crash(t)
    \/ \E op \in Ops : OpFails(t, op)

(* All tasks have ended and no call is outstanding.                        *)
Terminated ==
    /\ \A t \in Tasks : pc[t] \in Ended /\ pending[t] = {}
    /\ UNCHANGED vars

Next ==
    \/ \E t \in Tasks : DeleteUser(t) \/ DeleteUserRelatedData(t) \/ Fault(t)
    \/ AddReference
    \/ Terminated

Spec == Init /\ [][Next]_vars

(* The event loop resumes every task whose awaited call was answered, and  *)
(* the database and the storage answer every call.                         *)
Fairness ==
    \A t \in Tasks : WF_vars(DeleteUser(t) \/ DeleteUserRelatedData(t))
FairSpec == Spec /\ Fairness
-----------------------------------------------------------------------------
TypeOK ==
    /\ target \in [Tasks -> Users]
    /\ pc \in [Tasks -> {"check"} \cup Running \cup Ended]
    /\ step \in [Tasks -> 1..Len(StepList)]
    /\ snapUser \in [Tasks -> {"live", None}]
    /\ snapAccount \in [Tasks -> SUBSET Accounts]
    /\ found \in [Tasks -> SUBSET Items]
    /\ pending \in [Tasks -> SUBSET Ops]
    /\ moving \in [Tasks -> SUBSET Items]
    /\ newTomb \in [Tasks -> Nat]
    /\ deleted \subseteq Users
    /\ accounts \subseteq Accounts
    /\ pins \subseteq Users
    /\ tombUsers \in [Schools -> Nat]
    /\ tombstoneId \in [Schools -> Nat]
    /\ bins \subseteq Tasks
    /\ newest \in [Users -> Tasks \cup {None}]
    /\ recorded \in [Tasks -> SUBSET [scope : StepNames \cup {None},
                                      items : SUBSET Items]]
    /\ refs \in References
    /\ history \in References
    /\ blobs \subseteq Items
    /\ removalMsgs \subseteq Users
    /\ disturbances \in Seq(Disturbances)

(* Whenever a user has been replaced by a tombstone, a trash bin holds the *)
(* user as it was, and no later deletion has put a bin in front of it that *)
(* holds the tombstone instead.                                            *)
SnapshotBeforeTombstone ==
    /\ \A u \in deleted : newest[u] \in bins
    /\ \A t \in bins : snapUser[t] = "live"

(* An account that is gone was the account of a deleted user and is in a   *)
(* trash bin, for every user with one account, also when two deletions of  *)
(* the user race.                                                          *)
AccountNeverLost ==
    \A a \in Accounts \ accounts :
        (\A b \in Accounts : OwnerOf[b] = OwnerOf[a] => b = a) =>
            /\ OwnerOf[a] \in deleted
            /\ \E t \in bins : target[t] = OwnerOf[a] /\ a \in snapAccount[t]

(* Data that refers to a user is only removed once the user is deleted, in *)
(* every scope but the lessons, where the update of one user reaches the   *)
(* contents of others; file contents and the messenger account follow the  *)
(* same rule.                                                              *)
RemovedOnlyIfDeleted(s) ==
    \A r \in refs[s] \ refs'[s] : r[2] \in deleted

OnlyDeletedUsersLoseData ==
    [][ /\ \A s \in Scopes \ {"lessons"} : RemovedOnlyIfDeleted(s)
        /\ \A i \in blobs \ blobs' :
              \E u \in deleted : <<i, u>> \in history["files"]
        /\ removalMsgs' \subseteq removalMsgs \cup deleted ]_vars

(* A task that still has the removed reference in hand, or is about to     *)
(* mark its failure in the trash bin.                                      *)
InHand(s, r) ==
    \E t \in Tasks :
        /\ target[t] = r[2]
        /\ \/ pc[t] \in {"remove", "await", "push"} /\ Scope(t) = s
              /\ r[1] \in found[t]
           \/ pc[t] = "pushError"

InTrash(s, r) ==
    \E t \in bins :
        /\ target[t] = r[2]
        /\ \/ \E e \in recorded[t] : e.scope = s /\ r[1] \in e.items
           \/ ErrorElement \in recorded[t]

(* What was removed for a deleted user is in a trash bin, or about to get  *)
(* there, or a failure is marked in the bin, also when deleteUserData      *)
(* functions fail.  It needs: no reference added between the read and the  *)
(* update of a function, no crash, no failing push; and it does not hold   *)
(* for file permissions (read and update race) and for lessons (the update *)
(* removes other users' contents).                                         *)
LossIsMarked ==
    (\A i \in DOMAIN disturbances : disturbances[i] = "step") =>
        \A s \in Scopes \ {"filePermission", "lessons"} :
            \A r \in history[s] \ refs[s] : InTrash(s, r) \/ InHand(s, r)

(* Unless something fails, the data of a deleted user is eventually gone   *)
(* from every scope of the list (the files only where the school has a     *)
(* storage provider), and the messenger was asked to remove the user.      *)
Gone(scope, u) ==
    IF scope = "messenger" THEN u \in removalMsgs ELSE RefsTo(scope, u) = {}

RelatedDataEventuallyRemoved ==
    \A u \in Users :
        u \in deleted ~>
            \/ disturbances # <<>>
            \/ \A k \in DOMAIN StepList :
                  \/ Gone(StepList[k], u)
                  \/ StepList[k] = "files" /\ SchoolOf[u] \notin WithProvider

(* A failing deleteUserData function does not keep the others from         *)
(* running: once the chain has started, it reaches its end.                *)
ChainRunsToItsEnd ==
    \A t \in Tasks : pc[t] \in Loop ~> pc[t] = "done"
=============================================================================
