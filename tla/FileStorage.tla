---------------------------- MODULE FileStorage ----------------------------
(***************************************************************************)
(* Files and directories (src/services/fileStorage): documents in the      *)
(* database, objects in the buckets of schools, the assignment of a school *)
(* to one of several storage providers (strategies/awsS3.js), and the      *)
(* answers of the scanner of viruses.  A step of a request is the code     *)
(* between two awaits with the command it waits for; clients put objects   *)
(* themselves, with a signed URL.                                          *)
(***************************************************************************)
EXTENDS FilePermissions

CONSTANTS
    Schools, School,        \* School[u]: of a user
    Providers, MaxBuckets,  \* maxBuckets of each provider
    NoOne,
    Requests,
    Docs,                   \* 1..n: ids of documents, and names of objects
    TeamRole,               \* roles in the team
    MaxStarts, MaxFaults    \* bounds: requests, and faults

ASSUME FileStorageAssumption ==
    /\ School \in [Users -> Schools] /\ TeamRole \in [Users -> TeamRoles \cup {NoRole}]
    /\ MaxBuckets \in [Providers -> Nat]
    /\ NoOne \notin Providers \cup Docs \cup Users \cup Courses \cup {Team}
    /\ IsFiniteSet(Docs) /\ Docs = 1..Cardinality(Docs) /\ {1, 2} \subseteq Docs
    /\ MaxStarts \in Nat /\ MaxFaults \in Nat

VARIABLES
    file,                   \* the documents: a record, or Missing
    objects,                \* objects stored: provider, school of the bucket, name
    buckets,                \* buckets: provider and school
    provider,               \* school.storageProvider
    free,                   \* freeBuckets of the providers
    scans,                  \* tokens of the requests the scanner works on
    request,                \* the requests under way
    used,                   \* ids and names in use so far
    starts, faults,
    repeated,               \* history: a client has repeated a creation
    unsettled,              \* history: schools assigned twice, and not corrected yet
    astray                  \* history: copies from another school, removals cut short

assignment == <<buckets, provider, free>>
bounds == <<used, starts, faults>>
histories == <<repeated, unsettled, astray>>
vars == <<file, objects, assignment, scans, request, bounds, histories>>

Missing == [owner |-> NoOne]
Exists(f) == f \in Docs /\ file[f] # Missing
Known == Users \cup Courses \cup {Team}
Idle == [pc |-> "idle"]
Steps == {"assign", "choose", "bucket", "reassign", "put", "find", "insert", "copy", "store",
          "delete", "remove", "children", "move", "patch"}

TypeOK ==
    /\ \A f \in Docs : Exists(f) => /\ file[f].owner \in Known \cup Docs
                                    /\ file[f].parent \in Docs \cup {NoOne}
                                    /\ file[f].creator \in Users
                                    /\ DOMAIN file[f].permissions \subseteq Refs
                                    /\ file[f].status \in {"pending", "verified", "blocked", "wont-check"}
    /\ objects \subseteq {<<b[1], b[2], name>> : b \in buckets, name \in Docs}
    /\ \A b \in buckets, c \in buckets : b[2] = c[2] => b = c
    /\ provider \in [Schools -> Providers \cup {NoOne}]
    /\ \A r \in Requests : request[r].pc \in {"idle"} \cup Steps

At(r, pc) == request[r].pc = pc
Set(r, new) == request' = [request EXCEPT ![r] = new]
Goto(r, pc) == request' = [request EXCEPT ![r].pc = pc]
End(r) == Set(r, Idle)
Fault == faults < MaxFaults /\ faults' = faults + 1
SchoolOf(r) == School[request[r].user]

(* A request begins, and takes n new ids.                                  *)
Ready(r) == At(r, "idle") /\ starts < MaxStarts
Start(r, n, new) ==
    /\ Set(r, new) /\ starts' = starts + 1
    /\ used' = used + n /\ used' \in Docs \cup {0}
    /\ UNCHANGED <<file, objects, assignment, scans, faults, histories>>

Allowed(right, u, f) == Exists(f) /\ May(right, u, file[f], TeamRole)
Directories == {f \in Docs : Exists(f) /\ file[f].directory}
Files == {f \in Docs : Exists(f) /\ ~file[f].directory}
Places(u) == ({o \in Known : o \in Users => o = u} \X {NoOne})
             \cup {<<file[f].owner, f>> : f \in {g \in Directories : file[g].owner \in Known}}
-----------------------------------------------------------------------------
(* The requests, up to the first command that changes something.           *)

(* signedUrl.create and the posts of directories: the parent is the        *)
(* client's, who names its owner, and the permission of the parent is      *)
(* asked for.                                                              *)
Upload(r) ==
    Ready(r) /\ \E u \in Users : \E place \in Places(u) :
        /\ place[2] # NoOne => Allowed("create", u, place[2])
        /\ Start(r, 1, [pc |-> "assign", op |-> "upload", user |-> u,
                        owner |-> place[1], parent |-> place[2], name |-> used + 1, at |-> NoOne])

CreateDirectory(r) ==
    Ready(r) /\ \E u \in Users : \E place \in Places(u) :
        Start(r, 1, [pc |-> "find", op |-> "directory", user |-> u,
                     owner |-> place[1], parent |-> place[2], name |-> used + 1])

(* fileStorage/bucket.                                                     *)
CreateBucket(r) ==
    Ready(r) /\ \E u \in Users : Start(r, 0, [pc |-> "assign", op |-> "create", user |-> u, at |-> NoOne])

(* signedUrl.patch: a file is written again, in the school of whoever may  *)
(* read it (the creator is dropped by the precedence of its operators).    *)
Overwrite(r) ==
    Ready(r) /\ \E u \in Users, f \in Files :
        /\ Allowed("read", u, f)
        /\ Start(r, 0, [pc |-> "assign", op |-> "overwrite", user |-> u, name |-> file[f].name, at |-> NoOne])

RemoveFile(r) ==
    Ready(r) /\ \E u \in Users, f \in Files :
        /\ Allowed("delete", u, f)
        /\ Start(r, 0, [pc |-> "assign", op |-> "remove", user |-> u, file |-> f,
                        name |-> file[f].name, at |-> NoOne])

(* directory.remove, which takes files as well.                            *)
RemoveDirectory(r) ==
    Ready(r) /\ \E u \in Users, f \in Docs :
        /\ Allowed("delete", u, f)
        /\ Start(r, 0, [pc |-> "children", op |-> "tree", user |-> u, file |-> f])

(* fileStorage/copy: the document is read, with the bucket to copy from.   *)
Copy(r) ==
    Ready(r) /\ \E u \in Users, f \in Files, parent \in Directories, source \in Schools :
        /\ Allowed("read", u, f) /\ Allowed("write", u, parent)
        /\ Start(r, 1, [pc |-> "assign", op |-> "copy", user |-> u, parent |-> parent, source |-> source,
                        original |-> file[f], name |-> used + 1, at |-> NoOne])

(* fileStorage.patch: the new parent is a document that may be written, a  *)
(* team of the user, or any other id.                                      *)
Move(r) ==
    Ready(r) /\ \E u \in Users, f \in Docs, parent \in Docs \cup Known :
        /\ Exists(f)
        /\ parent \in Docs => Allowed("write", u, parent)
        /\ parent \in Users => parent = u
        /\ parent = Team => TeamRole[u] # NoRole
        /\ Start(r, 0, [pc |-> "move", op |-> "move", user |-> u, file |-> f,
                        parent |-> IF parent \in Docs THEN parent ELSE NoOne,
                        owner |-> IF parent \in Docs THEN file[parent].owner ELSE parent])

PatchPermissions(r) ==
    Ready(r) /\ \E u \in Users : \E f \in Docs, ref \in {u, "teammember"} :
        /\ Allowed("write", u, f)
        /\ Start(r, 0, [pc |-> "patch", op |-> "patch", user |-> u, file |-> f,
                        permissions |-> Merged(file[f].permissions, [x \in {ref} |-> {"read"}])])
-----------------------------------------------------------------------------
(* The provider of a school.                                               *)

WithProvider(q, p) ==
    [q EXCEPT !.at = p,
              !.pc = CASE q.op \in {"upload", "create"} -> "bucket" [] q.op = "copy" -> "copy"
                       [] q.op = "remove" -> "delete" [] q.op = "overwrite" -> "put"]

(* createAWSObject.                                                        *)
Assign(r) ==
    /\ At(r, "assign")
    /\ IF provider[SchoolOf(r)] = NoOne
       THEN Goto(r, "choose") ELSE Set(r, WithProvider(request[r], provider[SchoolOf(r)]))
    /\ UNCHANGED <<file, objects, assignment, scans, bounds, histories>>

(* chooseProvider, in a transaction; the school may have been assigned     *)
(* since it was read.                                                      *)
ChosenProvider(s, p) ==
    /\ provider' = [provider EXCEPT ![s] = p]
    /\ free' = [free EXCEPT ![p] = @ - 1]
    /\ unsettled' = IF provider[s] = NoOne THEN unsettled ELSE unsettled \cup {s}
Choose(r) ==
    /\ At(r, "choose")
    /\ \E p \in Providers : /\ \A q \in Providers : free[q] <= free[p]
                            /\ ChosenProvider(SchoolOf(r), p)
                            /\ Set(r, WithProvider(request[r], p))
    /\ UNCHANGED <<file, objects, buckets, scans, bounds, repeated, astray>>

(* Mutant of Taken: only this provider's bucket of the name is in the way. *)
TakenHere(p, s) == <<p, s>> \in buckets
(* createIfNotExists, createBucket: the name of a bucket exists once among *)
(* the providers, and creating it again is a conflict.                     *)
Taken(p, s) == \E q \in Providers : <<q, s>> \in buckets
Bucket(r) ==
    LET s == SchoolOf(r)
        here == <<request[r].at, s>>
        taken == Taken(request[r].at, s)
        next == IF request[r].op = "create" THEN Idle ELSE [request[r] EXCEPT !.pc = "put"]
    IN  /\ At(r, "bucket")
        /\ \/ here \in buckets /\ request[r].op # "create" /\ Set(r, next) /\ UNCHANGED buckets
           \/ ~taken /\ Set(r, next) /\ buckets' = buckets \cup {here}
           \/ /\ taken /\ (here \notin buckets \/ request[r].op = "create")
              /\ Goto(r, "reassign") /\ UNCHANGED buckets
        /\ UNCHANGED <<file, objects, provider, free, scans, bounds, histories>>

(* reassignProviderForSchool: the user is asked to try again.  A list of   *)
(* buckets that is not answered counts as empty, and the request goes on.  *)
(* Mutant of Corrected: the school keeps the provider it was given.        *)
NotCorrected(s) == provider' = provider
Corrected(s) == provider' = [provider EXCEPT ![s] = CHOOSE p \in Providers : <<p, s>> \in buckets]
Reassign(r) ==
    /\ At(r, "reassign")
    /\ \/ /\ Corrected(SchoolOf(r)) /\ unsettled' = unsettled \ {SchoolOf(r)}
          /\ End(r) /\ UNCHANGED faults
       \/ Fault /\ Goto(r, "put") /\ UNCHANGED <<provider, unsettled>>
    /\ UNCHANGED <<file, objects, buckets, free, scans, used, starts, repeated, astray>>

(* The client puts the object, and posts the document of an upload.        *)
Put(r) ==
    LET q == request[r]
        bucket == <<q.at, SchoolOf(r)>>
    IN  /\ At(r, "put")
        /\ IF bucket \in buckets /\ q.op # "create"
           THEN objects' = objects \cup {<<q.at, SchoolOf(r), q.name>>} ELSE UNCHANGED objects
        /\ IF bucket \in buckets /\ q.op = "upload" THEN Goto(r, "find") ELSE End(r)
        /\ UNCHANGED <<file, assignment, scans, bounds, histories>>
-----------------------------------------------------------------------------
(* New documents.                                                          *)

(* A client that got no answer posts again.                                *)
Repeat(r, again) ==
    /\ At(r, "find") \/ At(r, "insert")
    /\ At(again, "idle") /\ Fault
    /\ Set(again, [request[r] EXCEPT !.pc = "find"])
    /\ repeated' = TRUE
    /\ UNCHANGED <<file, objects, assignment, scans, used, starts, unsettled, astray>>

(* The same document is looked for; the scanner is asked again about it.   *)
FindSame(r) ==
    LET q == request[r]
        same == {f \in Docs : Exists(f) /\ file[f].name = q.name}
        allowed == q.parent # NoOne => Allowed("create", q.user, q.parent)
    IN  /\ At(r, "find")
        /\ IF allowed /\ same = {} THEN Goto(r, "insert") ELSE End(r)
        /\ scans' = IF allowed /\ q.op = "upload"
                    THEN scans \cup ({file[f].token : f \in same} \ {NoOne}) ELSE scans
        /\ UNCHANGED <<file, objects, assignment, bounds, histories>>

TeamDefaults == [r \in TeamRoles |-> Rights]
DirectoryPermissions(u, owner) ==
    LET roles == CASE owner \in Users -> {} [] owner \in Courses -> {"student"} [] owner = Team -> TeamRoles
    IN  [ref \in {u} \cup roles |-> IF ref = "student" THEN {"read", "create"} ELSE Rights]

NewFile(q, status) ==
    [directory |-> q.op = "directory", owner |-> q.owner, parent |-> q.parent, creator |-> q.user,
     name |-> q.name, status |-> status,
     permissions |-> IF q.op = "directory" THEN DirectoryPermissions(q.user, q.owner)
                     ELSE DefaultPermissions(q.user, q.owner, FALSE, TeamDefaults),
     token |-> IF q.op = "upload" /\ status = "pending" THEN q.name ELSE NoOne]

(* The beginning: nothing; or a directory and a file in it, the first of   *)
(* their school.                                                           *)
Empty ==
    /\ file = [f \in Docs |-> Missing]
    /\ objects = {} /\ buckets = {} /\ free = MaxBuckets
    /\ provider = [s \in Schools |-> NoOne]
    /\ scans = {} /\ used = 0

Stocked ==
    \E u \in Users, p \in Providers, owner \in Known :
        LET s == School[u]
            directory == NewFile([op |-> "directory", user |-> u, owner |-> owner, parent |-> NoOne, name |-> 1], "pending")
            document == NewFile([op |-> "upload", user |-> u, owner |-> owner, parent |-> 1, name |-> 2], "pending")
        IN  /\ owner \in Users => owner = u
            /\ \A q \in Providers : MaxBuckets[q] <= MaxBuckets[p]
            /\ file = [f \in Docs |-> CASE f = 1 -> directory [] f = 2 -> document [] OTHER -> Missing]
            /\ objects = {<<p, s, 2>>} /\ buckets = {<<p, s>>}
            /\ free = [MaxBuckets EXCEPT ![p] = @ - 1]
            /\ provider = [[x \in Schools |-> NoOne] EXCEPT ![s] = p]
            /\ scans = {2}
            /\ used = 2

(* An id for a document: that of the name, or another when it is taken.    *)
NextId(name) == IF file[name] = Missing THEN name ELSE used + 1
Created(id, document) ==
    /\ id \in Docs
    /\ file' = [file EXCEPT ![id] = document]
    /\ used' = IF id > used THEN id ELSE used

(* The document is created and the scanner asked, unless the file is big.  *)
Insert(r) ==
    /\ At(r, "insert")
    /\ \E status \in IF request[r].op = "upload" THEN {"pending", "wont-check"} ELSE {"pending"} :
          LET document == NewFile(request[r], status)
          IN  /\ Created(NextId(document.name), document)
              /\ scans' = scans \cup ({document.token} \ {NoOne})
    /\ End(r)
    /\ UNCHANGED <<objects, assignment, starts, faults, histories>>

(* strategy.copyFile, into the bucket of the user's school.                *)
CopyObject(r) ==
    LET q == request[r]
    IN  /\ At(r, "copy")
        /\ IF <<q.at, q.source, q.original.name>> \in objects /\ <<q.at, SchoolOf(r)>> \in buckets
           THEN objects' = objects \cup {<<q.at, SchoolOf(r), q.name>>} /\ Goto(r, "store")
           ELSE UNCHANGED objects /\ End(r)
        /\ UNCHANGED <<file, assignment, scans, bounds, histories>>

(* The copy has all the fields of the original, the token of the scanner   *)
(* and the parent among them, and the new parent for an owner.             *)
Copied(q) == [q.original EXCEPT !.owner = q.parent, !.name = q.name]
StoreCopy(r) ==
    /\ At(r, "store")
    /\ Created(NextId(request[r].name), Copied(request[r]))
    /\ astray' = IF School[request[r].original.creator] = SchoolOf(r) THEN astray
                 ELSE astray \cup {request[r].name}
    /\ End(r)
    /\ UNCHANGED <<objects, assignment, scans, starts, faults, repeated, unsettled>>
-----------------------------------------------------------------------------
(* Changes and removals.                                                   *)

(* deleteFile, in the bucket of the school of whoever removes it.          *)
DeleteObject(r) ==
    /\ At(r, "delete")
    /\ IF <<request[r].at, SchoolOf(r)>> \in buckets
       THEN objects' = objects \ {<<request[r].at, SchoolOf(r), request[r].name>>} /\ Goto(r, "remove")
       ELSE UNCHANGED objects /\ End(r)
    /\ UNCHANGED <<file, assignment, scans, bounds, histories>>

RemoveDocument(r) ==
    /\ At(r, "remove")
    /\ file' = [file EXCEPT ![request[r].file] = Missing]
    /\ End(r)
    /\ UNCHANGED <<objects, assignment, scans, bounds, histories>>

(* The documents of a directory, not those of its directories, and none of *)
(* their objects.                                                          *)
RemoveChildren(r) ==
    LET directory == request[r].file
    IN  /\ At(r, "children") /\ Goto(r, "remove")
        /\ file' = [f \in Docs |-> IF Exists(f) /\ file[f].parent = directory /\ Exists(directory)
                                   THEN Missing ELSE file[f]]
        /\ UNCHANGED <<objects, assignment, scans, bounds, histories>>

(* The update of an existing document.                                     *)
Updated(f, document) == file' = [file EXCEPT ![f] = IF Exists(f) THEN document ELSE Missing]

FinishMove(r) ==
    LET q == request[r]
    IN  /\ At(r, "move") /\ End(r)
        /\ Updated(q.file, [file[q.file] EXCEPT !.parent = q.parent, !.owner = q.owner])
        /\ UNCHANGED <<objects, assignment, scans, bounds, histories>>

(* All permissions are written, as they were computed.                     *)
FinishPatch(r) ==
    LET q == request[r]
    IN  /\ At(r, "patch") /\ End(r)
        /\ Updated(q.file, [file[q.file] EXCEPT !.permissions = q.permissions])
        /\ UNCHANGED <<objects, assignment, scans, bounds, histories>>
-----------------------------------------------------------------------------
(* What the scanner reports about one document with the token.             *)
(* Mutant of Reported: the token is not reset.                             *)
ReportedKeepingToken(document, status) == [document EXCEPT !.status = status]
Reported(document, status) == [document EXCEPT !.status = status, !.token = NoOne]

(* SecurityCheckService.update; the scanner may report again, or an error. *)
Report(token) ==
    /\ token \in scans
    /\ \/ scans' = scans \ {token} /\ UNCHANGED faults
       \/ Fault /\ UNCHANGED scans
    /\ LET waiting == {f \in Docs : Exists(f) /\ file[f].token = token}
       IN  \/ \E f \in waiting, status \in {"verified", "blocked"} :
                 file' = [file EXCEPT ![f] = Reported(@, status)]
           \/ UNCHANGED file
    /\ UNCHANGED <<objects, assignment, request, used, starts, histories>>

(* A command fails or the process stops: a request ends where it is.       *)
Fail(r) ==
    /\ ~At(r, "idle") /\ Fault /\ End(r)
    /\ astray' = IF request[r].op = "remove" THEN astray \cup {request[r].file} ELSE astray
    /\ UNCHANGED <<file, objects, assignment, scans, used, starts, repeated, unsettled>>

Begin(r) ==
    \/ Upload(r) \/ CreateDirectory(r) \/ CreateBucket(r) \/ Overwrite(r) \/ RemoveFile(r)
    \/ RemoveDirectory(r) \/ Copy(r) \/ Move(r) \/ PatchPermissions(r)
Continue(r) ==
    \/ Assign(r) \/ Choose(r) \/ Bucket(r) \/ Reassign(r) \/ Put(r) \/ FindSame(r) \/ Insert(r)
    \/ CopyObject(r) \/ StoreCopy(r) \/ DeleteObject(r) \/ RemoveDocument(r) \/ RemoveChildren(r)
    \/ FinishMove(r) \/ FinishPatch(r) \/ Fail(r)
Next ==
    \/ \E r \in Requests : Begin(r) \/ Continue(r) \/ \E again \in Requests : Repeat(r, again)
    \/ \E token \in Docs : Report(token)

Init ==
    /\ Empty \/ Stocked
    /\ request = [r \in Requests |-> Idle]
    /\ starts = 0 /\ faults = 0
    /\ repeated = FALSE /\ unsettled = {} /\ astray = {}

Spec == Init /\ [][Next]_vars
-----------------------------------------------------------------------------
(* When no request is under way, the object of a file is where downloads   *)
(* look for it: in the bucket of the creator's school at the provider of   *)
(* that school, however the first requests of the school have raced for a  *)
(* provider (chooseProvider, reassignProviderForSchool).  Left out are     *)
(* repeated posts, copies from another school, removals cut short, and a   *)
(* school whose second assignment has not met a conflict yet.              *)
ObjectAtHome ==
    (\A r \in Requests : At(r, "idle")) /\ ~repeated =>
        \A f \in Files :
            LET s == School[file[f].creator]
            IN  f \notin astray /\ s \notin unsettled =>
                    <<provider[s], s, file[f].name>> \in objects

(* A file once blocked is never released by a later or repeated report     *)
(* (SecurityCheckService.update resets the token).                         *)
BlockedStays ==
    [][\A f \in Docs : Exists(f) /\ file[f].status = "blocked" =>
           file'[f] = Missing \/ file'[f].status = "blocked"]_vars
=============================================================================
