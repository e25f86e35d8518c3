------------------------- MODULE FileStorageProofs -------------------------
(* Proofs about FileStorage for any schools, providers and requests.       *)
EXTENDS FileStorage, FiniteSetTheorems, TLAPS

Statuses == {"pending", "verified", "blocked", "wont-check"}
Permissions == UNION {[S -> SUBSET Rights] : S \in SUBSET Refs}

DocumentFields ==
    [directory : BOOLEAN, owner : Known \cup Docs, parent : Docs \cup {NoOne},
     creator : Users, name : Docs, status : Statuses, permissions : Permissions,
     token : Docs \cup {NoOne}]

(* A document that is blocked waits for no answer of the scanner.          *)
Documents == {d \in DocumentFields : d.status = "blocked" => d.token = NoOne}

(* The requests, by operation.                                             *)
MaybeAt == Providers \cup {NoOne}
Uploads ==
    [pc : {"assign", "choose", "bucket", "reassign", "put", "find", "insert"}, op : {"upload"},
     user : Users, owner : Known, parent : Docs \cup {NoOne}, name : Docs, at : MaybeAt]
DirectoryPosts ==
    [pc : {"find", "insert"}, op : {"directory"},
     user : Users, owner : Known, parent : Docs \cup {NoOne}, name : Docs]
BucketPosts ==
    [pc : {"assign", "choose", "bucket", "reassign", "put"}, op : {"create"},
     user : Users, at : MaybeAt]
Overwrites ==
    [pc : {"assign", "choose", "put"}, op : {"overwrite"}, user : Users, name : Docs, at : MaybeAt]
Removals ==
    [pc : {"assign", "choose", "delete", "remove"}, op : {"remove"},
     user : Users, file : Docs, name : Docs, at : MaybeAt]
TreeRemovals == [pc : {"children", "remove"}, op : {"tree"}, user : Users, file : Docs]
Copies ==
    [pc : {"assign", "choose", "copy", "store"}, op : {"copy"}, user : Users, parent : Docs,
     source : Schools, original : Documents, name : Docs, at : MaybeAt]
Moves ==
    [pc : {"move"}, op : {"move"}, user : Users, file : Docs, parent : Docs \cup {NoOne},
     owner : Known \cup Docs]
Patches == [pc : {"patch"}, op : {"patch"}, user : Users, file : Docs, permissions : Permissions]
RequestStates ==
    UNION {{Idle}, Uploads, DirectoryPosts, BucketPosts, Overwrites, Removals, TreeRemovals,
           Copies, Moves, Patches}

(* A request that will make a document, and its name.                      *)
Makes(q) == q.pc # "idle" /\ q.op \in {"upload", "directory", "copy"}

DocumentsInv ==
    /\ file \in [Docs -> Documents \cup {Missing}]
    /\ used \in Docs \cup {0}
    /\ \A f \in Docs : f > used => file[f] = Missing
    /\ scans \subseteq Docs

RequestsInv ==
    /\ request \in [Requests -> RequestStates]
    /\ \A r \in Requests : Makes(request[r]) => request[r].name <= used
    /\ \A r \in Requests : At(r, "bucket") => request[r].at \in Providers

StorageInv ==
    /\ buckets \subseteq Providers \X Schools
    /\ \A b, c \in buckets : b[2] = c[2] => b = c
    /\ objects \subseteq {<<b[1], b[2], name>> : b \in buckets, name \in Docs}
    /\ provider \in [Schools -> Providers \cup {NoOne}]

TypeInv == DocumentsInv /\ RequestsInv /\ StorageInv
-----------------------------------------------------------------------------
LEMMA DocsAreNumbers == Docs \subseteq Nat \ {0} /\ {1, 2} \subseteq Docs
<1>1. Cardinality(Docs) \in Nat
  BY FileStorageAssumption, FS_CardinalityType
<1> QED
  BY <1>1, FileStorageAssumption

LEMMA MissingIsNoDocument == \A d \in Documents : d # Missing
BY FileStorageAssumption DEF Documents, DocumentFields, Missing, Known

LEMMA ExistingAreDocuments ==
    ASSUME DocumentsInv, NEW f, Exists(f)
    PROVE  f \in Docs /\ file[f] \in Documents /\ f <= used
BY DocsAreNumbers DEF DocumentsInv, Exists

LEMMA NewFileTyped ==
    ASSUME NEW q, q.op \in {"upload", "directory"}, q.user \in Users, q.owner \in Known,
           q.parent \in Docs \cup {NoOne}, q.name \in Docs,
           NEW status \in {"pending", "wont-check"}
    PROVE  NewFile(q, status) \in Documents
<1> DEFINE directory == DirectoryPermissions(q.user, q.owner)
           document == DefaultPermissions(q.user, q.owner, FALSE, TeamDefaults)
<1>1. directory \in Permissions
  <2> DEFINE roles == CASE q.owner \in Users -> {} [] q.owner \in Courses -> {"student"}
                        [] q.owner = Team -> TeamRoles
             S == {q.user} \cup roles
  <2>1. S \in SUBSET Refs
    BY DEF Known, Refs
  <2>2. directory = [ref \in S |-> IF ref = "student" THEN {"read", "create"} ELSE Rights]
    BY DEF DirectoryPermissions
  <2>3. directory \in [S -> SUBSET Rights]
    BY <2>2 DEF Rights
  <2> HIDE DEF directory, S
  <2> QED
    BY <2>1, <2>3 DEF Permissions
<1>2. document \in Permissions
  <2> DEFINE roles == CASE OwnerModel(q.owner) = "user" -> {}
                        [] OwnerModel(q.owner) = "course" -> {"student", "teacher"}
                        [] OwnerModel(q.owner) = "teams" -> TeamRoles
             S == {q.user} \cup roles
             Entry(ref) ==
                 CASE ref = q.user -> Rights
                   [] ref = "student" -> {"read"} \cup (IF FALSE THEN {"write"} ELSE {})
                   [] ref = "teacher" -> {"read", "write"}
                   [] OTHER -> TeamDefaults[ref]
  <2>1. OwnerModel(q.owner) \in {"user", "course", "teams"}
    BY DEF Known, OwnerModel
  <2>2. roles \in {{}, {"student", "teacher"}, TeamRoles}
    BY <2>1
  <2>3. S \in SUBSET Refs
    BY <2>2 DEF Refs
  <2>4. \A ref \in S : Entry(ref) \in SUBSET Rights
    BY <2>2 DEF Rights, TeamDefaults
  <2>5. document = [ref \in S |-> Entry(ref)]
    BY DEF DefaultPermissions
  <2> HIDE DEF document, S, Entry
  <2>6. document \in [S -> SUBSET Rights]
    BY <2>4, <2>5
  <2> QED
    BY <2>3, <2>6 DEF Permissions
<1> HIDE DEF directory, document
<1>3. /\ NewFile(q, status).status = status
      /\ NewFile(q, status) \in DocumentFields
  BY <1>1, <1>2 DEF NewFile, DocumentFields, Statuses, directory, document
<1> QED
  BY <1>3 DEF Documents, DocumentFields
-----------------------------------------------------------------------------
(* The types of the initial states, and of a request as it goes on.        *)

LEMMA InitTypeInv == Init => TypeInv
<1> SUFFICES ASSUME Init
             PROVE  TypeInv
  OBVIOUS
<1> USE DocsAreNumbers
<1>1. RequestsInv
  BY DEF Init, RequestsInv, RequestStates, Idle, Makes, At
<1>2. CASE Empty
  <2>1. DocumentsInv
    BY <1>2 DEF Empty, DocumentsInv
  <2>2. StorageInv
    BY <1>2 DEF Empty, StorageInv
  <2> QED
    BY <1>1, <2>1, <2>2 DEF TypeInv
<1>3. CASE Stocked
  <2>1. PICK u \in Users, p \in Providers, owner \in Known :
          LET s == School[u]
              directory == NewFile([op |-> "directory", user |-> u, owner |-> owner, parent |-> NoOne, name |-> 1], "pending")
              document == NewFile([op |-> "upload", user |-> u, owner |-> owner, parent |-> 1, name |-> 2], "pending")
          IN  /\ file = [f \in Docs |-> CASE f = 1 -> directory [] f = 2 -> document [] OTHER -> Missing]
              /\ objects = {<<p, s, 2>>} /\ buckets = {<<p, s>>}
              /\ provider = [[x \in Schools |-> NoOne] EXCEPT ![s] = p]
              /\ scans = {2}
              /\ used = 2
    BY <1>3 DEF Stocked
  <2> DEFINE directory == NewFile([op |-> "directory", user |-> u, owner |-> owner, parent |-> NoOne, name |-> 1], "pending")
             document == NewFile([op |-> "upload", user |-> u, owner |-> owner, parent |-> 1, name |-> 2], "pending")
  <2>2. directory \in Documents
    BY NewFileTyped
  <2>3. document \in Documents
    BY NewFileTyped
  <2>4. file = [f \in Docs |-> CASE f = 1 -> directory [] f = 2 -> document [] OTHER -> Missing]
    BY <2>1
  <2> HIDE DEF directory, document
  <2>5. DocumentsInv
    BY <2>1, <2>2, <2>3, <2>4 DEF DocumentsInv
  <2>6. StorageInv
    <3>1. School[u] \in Schools
      BY FileStorageAssumption
    <3> QED
      BY <2>1, <3>1 DEF StorageInv
  <2> QED
    BY <1>1, <2>5, <2>6 DEF TypeInv
<1> QED
  BY <1>2, <1>3 DEF Init

LEMMA SetTyped ==
    ASSUME RequestsInv, NEW r \in Requests, NEW new \in RequestStates, Set(r, new),
           used' \in Nat, used \in Nat, used <= used',
           Makes(new) => new.name <= used', new.pc = "bucket" => new.at \in Providers
    PROVE  RequestsInv'
<1>1. request' = [request EXCEPT ![r] = new]
  BY DEF Set
<1>2. request' \in [Requests -> RequestStates]
  BY <1>1 DEF RequestsInv
<1>3. \A x \in Requests : request'[x] = IF x = r THEN new ELSE request[x]
  BY <1>1 DEF RequestsInv
<1>4. ASSUME NEW x \in Requests, Makes(request[x])
      PROVE  request[x].name <= used /\ request[x].name \in Docs
  <2>1. request[x] \in RequestStates /\ request[x].name <= used
    BY <1>4 DEF RequestsInv
  <2> QED
    BY <1>4, <2>1 DEF Makes, RequestStates, Idle, Uploads, DirectoryPosts, BucketPosts,
         Overwrites, Removals, TreeRemovals, Copies, Moves, Patches
<1>5. ASSUME NEW x \in Requests, Makes(request'[x])
      PROVE  request'[x].name <= used'
  <2>1. CASE x = r
    BY <1>3, <1>5, <2>1
  <2>2. CASE x # r
    <3>1. request'[x] = request[x]
      BY <1>3, <2>2
    <3>2. request[x].name <= used /\ request[x].name \in Nat
      BY <1>4, <1>5, <3>1, DocsAreNumbers
    <3> QED
      BY <3>1, <3>2
  <2> QED
    BY <2>1, <2>2
<1>6. \A x \in Requests : At(x, "bucket")' => request'[x].at \in Providers
  BY <1>3 DEF RequestsInv, At
<1> QED
  BY <1>2, <1>5, <1>6 DEF RequestsInv, Makes

LEMMA EndTyped ==
    ASSUME RequestsInv, NEW r \in Requests, End(r), used' \in Nat, used \in Nat, used <= used'
    PROVE  RequestsInv'
<1>1. Idle \in RequestStates /\ ~Makes(Idle) /\ Idle.pc # "bucket"
  BY DEF RequestStates, Idle, Makes
<1> QED
  BY <1>1, SetTyped DEF End

(* A request goes on with its operation.                                   *)
Ways ==
    [upload |-> {"assign", "choose", "bucket", "reassign", "put", "find", "insert"},
     directory |-> {"find", "insert"},
     create |-> {"assign", "choose", "bucket", "reassign", "put"},
     overwrite |-> {"assign", "choose", "put"},
     remove |-> {"assign", "choose", "delete", "remove"},
     tree |-> {"children", "remove"},
     copy |-> {"assign", "choose", "copy", "store"},
     move |-> {"move"},
     patch |-> {"patch"}]

LEMMA NextStepTyped ==
    ASSUME NEW q \in RequestStates, q # Idle, NEW pc \in Ways[q.op]
    PROVE  /\ [q EXCEPT !.pc = pc] \in RequestStates
           /\ [q EXCEPT !.pc = pc].pc = pc
           /\ [q EXCEPT !.pc = pc].op = q.op
           /\ Makes([q EXCEPT !.pc = pc]) => Makes(q) /\ [q EXCEPT !.pc = pc].name = q.name
<1> DEFINE new == [q EXCEPT !.pc = pc]
<1>1. CASE q \in Uploads
  <2>1. q.op = "upload" /\ pc \in Ways["upload"] /\ q.pc # "idle"
    BY <1>1 DEF Uploads
  <2>2. new \in Uploads /\ new.pc = pc /\ new.op = q.op /\ new.name = q.name
    BY <1>1, <2>1 DEF Uploads, Ways
  <2> QED
    BY <2>1, <2>2 DEF RequestStates, Makes
<1>2. CASE q \in DirectoryPosts
  <2>1. q.op = "directory" /\ pc \in Ways["directory"] /\ q.pc # "idle"
    BY <1>2 DEF DirectoryPosts
  <2>2. new \in DirectoryPosts /\ new.pc = pc /\ new.op = q.op /\ new.name = q.name
    BY <1>2, <2>1 DEF DirectoryPosts, Ways
  <2> QED
    BY <2>1, <2>2 DEF RequestStates, Makes
<1>3. CASE q \in BucketPosts
  <2>1. q.op = "create" /\ pc \in Ways["create"] /\ q.pc # "idle"
    BY <1>3 DEF BucketPosts
  <2>2. new \in BucketPosts /\ new.pc = pc /\ new.op = q.op
    BY <1>3, <2>1 DEF BucketPosts, Ways
  <2> QED
    BY <2>1, <2>2 DEF RequestStates, Makes
<1>4. CASE q \in Overwrites
  <2>1. q.op = "overwrite" /\ pc \in Ways["overwrite"] /\ q.pc # "idle"
    BY <1>4 DEF Overwrites
  <2>2. new \in Overwrites /\ new.pc = pc /\ new.op = q.op /\ new.name = q.name
    BY <1>4, <2>1 DEF Overwrites, Ways
  <2> QED
    BY <2>1, <2>2 DEF RequestStates, Makes
<1>5. CASE q \in Removals
  <2>1. q.op = "remove" /\ pc \in Ways["remove"] /\ q.pc # "idle"
    BY <1>5 DEF Removals
  <2>2. new \in Removals /\ new.pc = pc /\ new.op = q.op /\ new.name = q.name
    BY <1>5, <2>1 DEF Removals, Ways
  <2> QED
    BY <2>1, <2>2 DEF RequestStates, Makes
<1>6. CASE q \in TreeRemovals
  <2>1. q.op = "tree" /\ pc \in Ways["tree"] /\ q.pc # "idle"
    BY <1>6 DEF TreeRemovals
  <2>2. new \in TreeRemovals /\ new.pc = pc /\ new.op = q.op
    BY <1>6, <2>1 DEF TreeRemovals, Ways
  <2> QED
    BY <2>1, <2>2 DEF RequestStates, Makes
<1>7. CASE q \in Copies
  <2>1. q.op = "copy" /\ pc \in Ways["copy"] /\ q.pc # "idle"
    BY <1>7 DEF Copies
  <2>2. new \in Copies /\ new.pc = pc /\ new.op = q.op /\ new.name = q.name
    BY <1>7, <2>1 DEF Copies, Ways
  <2> QED
    BY <2>1, <2>2 DEF RequestStates, Makes
<1>8. CASE q \in Moves
  <2>1. q.op = "move" /\ pc \in Ways["move"] /\ q.pc # "idle"
    BY <1>8 DEF Moves
  <2>2. new \in Moves /\ new.pc = pc /\ new.op = q.op
    BY <1>8, <2>1 DEF Moves, Ways
  <2> QED
    BY <2>1, <2>2 DEF RequestStates, Makes
<1>9. CASE q \in Patches
  <2>1. q.op = "patch" /\ pc \in Ways["patch"] /\ q.pc # "idle"
    BY <1>9 DEF Patches
  <2>2. new \in Patches /\ new.pc = pc /\ new.op = q.op
    BY <1>9, <2>1 DEF Patches, Ways
  <2> QED
    BY <2>1, <2>2 DEF RequestStates, Makes
<1> QED
  BY <1>1, <1>2, <1>3, <1>4, <1>5, <1>6, <1>7, <1>8, <1>9 DEF RequestStates

LEMMA DocumentsKept == DocumentsInv /\ UNCHANGED <<file, scans, used>> => DocumentsInv'
BY DEF DocumentsInv

LEMMA StorageKept == StorageInv /\ UNCHANGED <<objects, buckets, provider>> => StorageInv'
BY DEF StorageInv

LEMMA UsedNumber == DocumentsInv => used \in Nat
BY DocsAreNumbers DEF DocumentsInv
-----------------------------------------------------------------------------
(* The beginning of a request.                                             *)

LEMMA StartTyped ==
    ASSUME TypeInv, NEW r \in Requests, NEW n \in {0, 1}, NEW new, Start(r, n, new),
           used + n \in Docs \cup {0} => new \in RequestStates,
           Makes(new) => new.name <= used + n, new.pc # "bucket"
    PROVE  TypeInv'
<1>1. used' = used + n /\ used' \in Docs \cup {0} /\ Set(r, new)
      /\ UNCHANGED <<file, objects, buckets, provider, scans>>
  BY DEF Start, assignment
<1>2. used \in Nat /\ used' \in Nat /\ used <= used'
  BY <1>1, UsedNumber DEF TypeInv
<1>3. DocumentsInv'
  BY <1>1, <1>2, DocsAreNumbers DEF TypeInv, DocumentsInv
<1>4. RequestsInv'
  BY <1>1, <1>2, SetTyped DEF TypeInv
<1> QED
  BY <1>1, <1>3, <1>4, StorageKept DEF TypeInv

LEMMA PlacesTyped ==
    ASSUME DocumentsInv, NEW u \in Users, NEW place \in Places(u)
    PROVE  place[1] \in Known /\ place[2] \in Docs \cup {NoOne}
BY DEF Places, Directories

LEMMA BeginTyped ==
    ASSUME TypeInv, NEW r \in Requests, Begin(r)
    PROVE  TypeInv'
<1> USE DEF TypeInv
<1>1. NoOne \in MaybeAt
  BY DEF MaybeAt
<1>2. CASE Upload(r)
  <2>1. PICK u \in Users : \E place \in Places(u) :
          Start(r, 1, [pc |-> "assign", op |-> "upload", user |-> u,
                       owner |-> place[1], parent |-> place[2], name |-> used + 1, at |-> NoOne])
    BY <1>2 DEF Upload
  <2>2. PICK place \in Places(u) :
          Start(r, 1, [pc |-> "assign", op |-> "upload", user |-> u,
                       owner |-> place[1], parent |-> place[2], name |-> used + 1, at |-> NoOne])
    BY <2>1
  <2> DEFINE new == [pc |-> "assign", op |-> "upload", user |-> u, owner |-> place[1],
                     parent |-> place[2], name |-> used + 1, at |-> NoOne]
  <2>3. used + 1 \in Docs \cup {0} => new \in RequestStates
    BY <1>1, PlacesTyped, UsedNumber, DocsAreNumbers DEF RequestStates, Uploads
  <2> QED
    BY <2>2, <2>3, StartTyped, UsedNumber
<1>3. CASE CreateDirectory(r)
  <2>1. PICK u \in Users : \E place \in Places(u) :
          Start(r, 1, [pc |-> "find", op |-> "directory", user |-> u,
                       owner |-> place[1], parent |-> place[2], name |-> used + 1])
    BY <1>3 DEF CreateDirectory
  <2>2. PICK place \in Places(u) :
          Start(r, 1, [pc |-> "find", op |-> "directory", user |-> u,
                       owner |-> place[1], parent |-> place[2], name |-> used + 1])
    BY <2>1
  <2> DEFINE new == [pc |-> "find", op |-> "directory", user |-> u,
                     owner |-> place[1], parent |-> place[2], name |-> used + 1]
  <2>3. used + 1 \in Docs \cup {0} => new \in RequestStates
    BY PlacesTyped, UsedNumber, DocsAreNumbers DEF RequestStates, DirectoryPosts
  <2> QED
    BY <2>2, <2>3, StartTyped, UsedNumber
<1>4. CASE CreateBucket(r)
  <2>1. PICK u \in Users :
          Start(r, 0, [pc |-> "assign", op |-> "create", user |-> u, at |-> NoOne])
    BY <1>4 DEF CreateBucket
  <2> DEFINE new == [pc |-> "assign", op |-> "create", user |-> u, at |-> NoOne]
  <2>2. new \in RequestStates /\ ~Makes(new)
    BY <1>1 DEF RequestStates, BucketPosts, Makes
  <2> QED
    BY <2>1, <2>2, StartTyped
<1>5. CASE Overwrite(r)
  <2>1. PICK u \in Users, f \in Files :
          Start(r, 0, [pc |-> "assign", op |-> "overwrite", user |-> u, name |-> file[f].name, at |-> NoOne])
    BY <1>5 DEF Overwrite
  <2> DEFINE new == [pc |-> "assign", op |-> "overwrite", user |-> u, name |-> file[f].name, at |-> NoOne]
  <2>2. file[f].name \in Docs
    BY ExistingAreDocuments DEF Files, Documents, DocumentFields
  <2>3. new \in RequestStates /\ ~Makes(new)
    BY <1>1, <2>2 DEF RequestStates, Overwrites, Makes
  <2> QED
    BY <2>1, <2>3, StartTyped
<1>6. CASE RemoveFile(r)
  <2>1. PICK u \in Users, f \in Files :
          Start(r, 0, [pc |-> "assign", op |-> "remove", user |-> u, file |-> f,
                       name |-> file[f].name, at |-> NoOne])
    BY <1>6 DEF RemoveFile
  <2> DEFINE new == [pc |-> "assign", op |-> "remove", user |-> u, file |-> f,
                     name |-> file[f].name, at |-> NoOne]
  <2>2. file[f].name \in Docs /\ f \in Docs
    BY ExistingAreDocuments DEF Files, Documents, DocumentFields
  <2>3. new \in RequestStates /\ ~Makes(new)
    BY <1>1, <2>2 DEF RequestStates, Removals, Makes
  <2> QED
    BY <2>1, <2>3, StartTyped
<1>7. CASE RemoveDirectory(r)
  <2>1. PICK u \in Users, f \in Docs :
          Start(r, 0, [pc |-> "children", op |-> "tree", user |-> u, file |-> f])
    BY <1>7 DEF RemoveDirectory
  <2> DEFINE new == [pc |-> "children", op |-> "tree", user |-> u, file |-> f]
  <2>2. new \in RequestStates /\ ~Makes(new)
    BY DEF RequestStates, TreeRemovals, Makes
  <2> QED
    BY <2>1, <2>2, StartTyped
<1>8. CASE Copy(r)
  <2>1. PICK u \in Users, f \in Files, parent \in Directories, source \in Schools :
          Start(r, 1, [pc |-> "assign", op |-> "copy", user |-> u, parent |-> parent, source |-> source,
                       original |-> file[f], name |-> used + 1, at |-> NoOne])
    BY <1>8 DEF Copy
  <2> DEFINE new == [pc |-> "assign", op |-> "copy", user |-> u, parent |-> parent, source |-> source,
                     original |-> file[f], name |-> used + 1, at |-> NoOne]
  <2>2. file[f] \in Documents /\ parent \in Docs
    BY ExistingAreDocuments DEF Files, Directories
  <2>3. used + 1 \in Docs \cup {0} => new \in RequestStates
    BY <1>1, <2>2, UsedNumber, DocsAreNumbers DEF RequestStates, Copies
  <2> QED
    BY <2>1, <2>3, StartTyped, UsedNumber
<1>9. CASE Move(r)
  <2>1. PICK u \in Users, f \in Docs, parent \in Docs \cup Known :
          /\ parent \in Docs => Allowed("write", u, parent)
          /\ Start(r, 0, [pc |-> "move", op |-> "move", user |-> u, file |-> f,
                          parent |-> IF parent \in Docs THEN parent ELSE NoOne,
                          owner |-> IF parent \in Docs THEN file[parent].owner ELSE parent])
    BY <1>9 DEF Move
  <2> DEFINE new == [pc |-> "move", op |-> "move", user |-> u, file |-> f,
                     parent |-> IF parent \in Docs THEN parent ELSE NoOne,
                     owner |-> IF parent \in Docs THEN file[parent].owner ELSE parent]
  <2>2. parent \in Docs => file[parent].owner \in Known \cup Docs
    BY <2>1, ExistingAreDocuments DEF Allowed, Documents, DocumentFields
  <2>3. new \in RequestStates /\ ~Makes(new)
    BY <2>2 DEF RequestStates, Moves, Makes
  <2> QED
    BY <2>1, <2>3, StartTyped
<1>10. CASE PatchPermissions(r)
  <2>1. PICK u \in Users, f \in Docs, ref \in Users \cup {"teammember"} :
          /\ Allowed("write", u, f)
          /\ Start(r, 0, [pc |-> "patch", op |-> "patch", user |-> u, file |-> f,
                          permissions |-> Merged(file[f].permissions, [x \in {ref} |-> {"read"}])])
    BY <1>10 DEF PatchPermissions
  <2> DEFINE merged == Merged(file[f].permissions, [x \in {ref} |-> {"read"}])
             new == [pc |-> "patch", op |-> "patch", user |-> u, file |-> f, permissions |-> merged]
  <2>2. file[f].permissions \in Permissions
    BY <2>1, ExistingAreDocuments DEF Allowed, Documents, DocumentFields
  <2>3. PICK S \in SUBSET Refs : file[f].permissions \in [S -> SUBSET Rights]
    BY <2>2 DEF Permissions
  <2>4. S \cup {ref} \in SUBSET Refs
    BY DEF Refs, TeamRoles, Chain
  <2>5. merged \in [S \cup {ref} -> SUBSET Rights]
    BY <2>3 DEF Merged, Rights
  <2> HIDE DEF merged
  <2>6. merged \in Permissions
    BY <2>4, <2>5 DEF Permissions
  <2>7. new \in RequestStates /\ ~Makes(new)
    BY <2>6 DEF RequestStates, Patches, Makes
  <2> QED
    BY <2>1, <2>7, StartTyped DEF merged
<1> QED
  BY <1>2, <1>3, <1>4, <1>5, <1>6, <1>7, <1>8, <1>9, <1>10 DEF Begin
-----------------------------------------------------------------------------
(* A request under way.                                                    *)

LEMMA OpAt ==
    ASSUME RequestsInv, NEW r \in Requests
    PROVE  /\ request[r] \in RequestStates
           /\ request[r] = Idle <=> At(r, "idle")
           /\ ~At(r, "idle") => request[r].user \in Users /\ SchoolOf(r) \in Schools
           /\ At(r, "assign") \/ At(r, "choose") =>
                 request[r].op \in {"upload", "create", "overwrite", "remove", "copy"}
           /\ At(r, "bucket") \/ At(r, "reassign") => request[r].op \in {"upload", "create"}
           /\ At(r, "put") => request[r].op \in {"upload", "create", "overwrite"}
           /\ At(r, "find") \/ At(r, "insert") => request[r].op \in {"upload", "directory"}
           /\ At(r, "copy") \/ At(r, "store") => request[r] \in Copies
           /\ At(r, "delete") => request[r] \in Removals
           /\ At(r, "remove") => request[r].op \in {"remove", "tree"} /\ request[r].file \in Docs
           /\ At(r, "children") => request[r] \in TreeRemovals
           /\ At(r, "move") => request[r] \in Moves
           /\ At(r, "patch") => request[r] \in Patches
<1> DEFINE q == request[r]
<1>1. q \in RequestStates
  BY DEF RequestsInv
<1>2. \A u \in Users : School[u] \in Schools
  BY FileStorageAssumption
<1>3. CASE q = Idle
  BY <1>1, <1>3 DEF At, Idle
<1>4. CASE q # Idle
  <2>1. q.pc # "idle" /\ q.user \in Users
    BY <1>1, <1>4 DEF RequestStates, Uploads, DirectoryPosts, BucketPosts,
         Overwrites, Removals, TreeRemovals, Copies, Moves, Patches
  <2>2. /\ q.pc \in {"copy", "store"} => q \in Copies
        /\ q.pc = "delete" => q \in Removals
        /\ q.pc = "children" => q \in TreeRemovals
        /\ q.pc = "move" => q \in Moves
        /\ q.pc = "patch" => q \in Patches
        /\ q.pc = "remove" => q.op \in {"remove", "tree"} /\ q.file \in Docs
    BY <1>1, <1>4 DEF RequestStates, Uploads, DirectoryPosts, BucketPosts,
         Overwrites, Removals, TreeRemovals, Copies, Moves, Patches
  <2>3. /\ q.pc \in {"assign", "choose"} => q.op \in {"upload", "create", "overwrite", "remove", "copy"}
        /\ q.pc \in {"bucket", "reassign"} => q.op \in {"upload", "create"}
        /\ q.pc = "put" => q.op \in {"upload", "create", "overwrite"}
        /\ q.pc \in {"find", "insert"} => q.op \in {"upload", "directory"}
    BY <1>1, <1>4 DEF RequestStates, Uploads, DirectoryPosts, BucketPosts,
         Overwrites, Removals, TreeRemovals, Copies, Moves, Patches
  <2> QED
    BY <1>1, <1>2, <1>4, <2>1, <2>2, <2>3 DEF At, SchoolOf
<1> QED
  BY <1>3, <1>4

(* The fields of a request by its operation.                               *)
LEMMA FieldsOf ==
    ASSUME NEW q \in RequestStates, q # Idle
    PROVE  /\ q.op \in {"upload", "directory"} =>
                 /\ q.owner \in Known /\ q.parent \in Docs \cup {NoOne} /\ q.name \in Docs
           /\ q.op = "upload" => q \in Uploads
           /\ q.op = "create" => q \in BucketPosts
           /\ q.op = "overwrite" => q \in Overwrites
           /\ q.op = "remove" => q \in Removals
           /\ q.op = "copy" => q \in Copies
           /\ q.op = "tree" => q \in TreeRemovals
BY DEF RequestStates, Uploads, DirectoryPosts, BucketPosts,
       Overwrites, Removals, TreeRemovals, Copies, Moves, Patches

LEMMA GotoTyped ==
    ASSUME RequestsInv, DocumentsInv, UNCHANGED used, NEW r \in Requests, ~At(r, "idle"),
           NEW pc \in Ways[request[r].op], Goto(r, pc),
           pc # "bucket"
    PROVE  RequestsInv'
<1> DEFINE q == request[r]
           new == [q EXCEPT !.pc = pc]
<1>1. q \in RequestStates /\ q # Idle
  BY OpAt
<1>2. Set(r, new)
  BY DEF Goto, Set, RequestsInv
<1>3. /\ new \in RequestStates /\ new.pc = pc
      /\ Makes(new) => Makes(q) /\ new.name = q.name
  BY <1>1, NextStepTyped
<1>4. used \in Nat /\ used' = used /\ used <= used'
  BY UsedNumber
<1>5. Makes(q) => q.name <= used'
  BY <1>4 DEF RequestsInv
<1> HIDE DEF q, new
<1>6. Makes(new) => new.name <= used'
  BY <1>3, <1>5
<1> QED
  BY <1>2, <1>3, <1>4, <1>6, SetTyped

LEMMA WithProviderTyped ==
    ASSUME NEW q \in RequestStates, q.pc \in {"assign", "choose"}, NEW p \in Providers
    PROVE  /\ WithProvider(q, p) \in RequestStates
           /\ WithProvider(q, p).op = q.op /\ WithProvider(q, p).user = q.user
           /\ WithProvider(q, p).at = p
           /\ WithProvider(q, p).pc \in {"bucket", "copy", "delete", "put"}
           /\ WithProvider(q, p).pc = "bucket" <=> q.op \in {"upload", "create"}
           /\ Makes(q) => WithProvider(q, p).name = q.name
           /\ q.op = "remove" => /\ WithProvider(q, p).name = q.name
                                 /\ WithProvider(q, p).file = q.file
<1> DEFINE new == WithProvider(q, p)
<1>1. p \in MaybeAt
  BY DEF MaybeAt
<1>2. CASE q \in Uploads
  <2>1. new = [q EXCEPT !.at = p, !.pc = "bucket"]
    BY <1>2 DEF WithProvider, Uploads
  <2> QED
    BY <1>1, <1>2, <2>1 DEF Uploads, RequestStates, Makes
<1>3. CASE q \in BucketPosts
  <2>1. new = [q EXCEPT !.at = p, !.pc = "bucket"]
    BY <1>3 DEF WithProvider, BucketPosts
  <2> QED
    BY <1>1, <1>3, <2>1 DEF BucketPosts, RequestStates, Makes
<1>4. CASE q \in Overwrites
  <2>1. new = [q EXCEPT !.at = p, !.pc = "put"]
    BY <1>4 DEF WithProvider, Overwrites
  <2> QED
    BY <1>1, <1>4, <2>1 DEF Overwrites, RequestStates, Makes
<1>5. CASE q \in Removals
  <2>1. new = [q EXCEPT !.at = p, !.pc = "delete"]
    BY <1>5 DEF WithProvider, Removals
  <2> QED
    BY <1>1, <1>5, <2>1 DEF Removals, RequestStates, Makes
<1>6. CASE q \in Copies
  <2>1. new = [q EXCEPT !.at = p, !.pc = "copy"]
    BY <1>6 DEF WithProvider, Copies
  <2> QED
    BY <1>1, <1>6, <2>1 DEF Copies, RequestStates, Makes
<1> QED
  BY <1>2, <1>3, <1>4, <1>5, <1>6
     DEF RequestStates, Idle, DirectoryPosts, TreeRemovals, Moves, Patches

LEMMA AssignTyped ==
    ASSUME TypeInv, NEW r \in Requests, Assign(r) \/ Choose(r)
    PROVE  TypeInv'
<1> USE DEF TypeInv
<1> DEFINE s == SchoolOf(r)
<1>1. /\ request[r] \in RequestStates /\ request[r].pc \in {"assign", "choose"} /\ ~At(r, "idle")
      /\ request[r].op \in {"upload", "create", "overwrite", "remove", "copy"}
      /\ s \in Schools
  BY OpAt DEF Assign, Choose, At
<1>2. /\ UNCHANGED <<file, scans, used, objects, buckets>>
      /\ used' \in Nat /\ used \in Nat /\ used <= used'
  BY UsedNumber DEF Assign, Choose, assignment, bounds
<1>3. ASSUME NEW p \in Providers, Set(r, WithProvider(request[r], p))
      PROVE  RequestsInv'
  <2> DEFINE new == WithProvider(request[r], p)
  <2>1. /\ new \in RequestStates /\ new.at = p /\ new.op = request[r].op
        /\ Makes(request[r]) => new.name = request[r].name
    BY <1>1, WithProviderTyped
  <2>2. Makes(request[r]) => request[r].name <= used'
    BY <1>2 DEF RequestsInv
  <2>3. Makes(new) => Makes(request[r])
    BY <1>1, <2>1 DEF Makes
  <2> HIDE DEF new
  <2> QED
    BY <1>2, <1>3, <2>1, <2>2, <2>3, SetTyped DEF new
<1>4. CASE Assign(r)
  <2>1. UNCHANGED provider
    BY <1>4 DEF Assign, assignment
  <2>2. CASE provider[s] = NoOne
    <3>1. Goto(r, "choose")
      BY <1>4, <2>2 DEF Assign
    <3>2. "choose" \in Ways[request[r].op]
      BY <1>1 DEF Ways
    <3>3. RequestsInv'
      BY <1>1, <1>2, <3>1, <3>2, GotoTyped
    <3> QED
      BY <1>2, <2>1, <3>3, DocumentsKept, StorageKept
  <2>3. CASE provider[s] # NoOne
    <3>1. provider[s] \in Providers
      BY <1>1, <2>3 DEF StorageInv
    <3>2. Set(r, WithProvider(request[r], provider[s]))
      BY <1>4, <2>3 DEF Assign
    <3> QED
      BY <1>2, <1>3, <2>1, <3>1, <3>2, DocumentsKept, StorageKept
  <2> QED
    BY <2>2, <2>3
<1>5. CASE Choose(r)
  <2>1. PICK p \in Providers : ChosenProvider(s, p) /\ Set(r, WithProvider(request[r], p))
    BY <1>5 DEF Choose
  <2>2. StorageInv'
    BY <1>1, <1>2, <2>1 DEF ChosenProvider, StorageInv
  <2> QED
    BY <1>2, <1>3, <2>1, <2>2, DocumentsKept
<1> QED
  BY <1>4, <1>5

LEMMA BucketTyped ==
    ASSUME TypeInv, NEW r \in Requests, Bucket(r)
    PROVE  TypeInv'
<1> USE DEF TypeInv
<1> DEFINE s == SchoolOf(r)
           q == request[r]
           here == <<q.at, s>>
           next == IF q.op = "create" THEN Idle ELSE [q EXCEPT !.pc = "put"]
<1>1. /\ At(r, "bucket") /\ ~At(r, "idle") /\ q \in RequestStates /\ q # Idle /\ s \in Schools
      /\ q.op \in {"upload", "create"} /\ q.at \in Providers
  BY OpAt DEF Bucket, At, RequestsInv
<1>2. UNCHANGED <<file, scans, used, objects, provider>> /\ used \in Nat /\ used <= used' /\ used' \in Nat
  BY UsedNumber DEF Bucket, bounds
<1>3. Set(r, next) => RequestsInv'
  <2>1. CASE q.op = "create"
    BY <1>2, <2>1, EndTyped DEF End
  <2>2. CASE q.op = "upload"
    <3>1. Set(r, next) => Goto(r, "put")
      BY <2>2 DEF Set, Goto, RequestsInv
    <3>2. "put" \in Ways[q.op]
      BY <2>2 DEF Ways
    <3> QED
      BY <1>1, <1>2, <3>1, <3>2, GotoTyped
  <2> QED
    BY <1>1, <2>1, <2>2
<1>4. Goto(r, "reassign") => RequestsInv'
  <2>1. "reassign" \in Ways[q.op]
    BY <1>1 DEF Ways
  <2> QED
    BY <1>1, <1>2, <2>1, GotoTyped
<1>5. RequestsInv'
  BY <1>3, <1>4 DEF Bucket
<1>6. StorageInv'
  <2>1. CASE UNCHANGED buckets
    BY <1>2, <2>1, StorageKept
  <2>2. CASE ~Taken(q.at, s) /\ buckets' = buckets \cup {here}
    <3>1. \A b \in buckets : b[2] # s
      BY <2>2 DEF Taken, StorageInv
    <3>2. buckets' \subseteq Providers \X Schools
      BY <1>1, <2>2 DEF StorageInv
    <3>3. ASSUME NEW b \in buckets', NEW c \in buckets', b[2] = c[2]
          PROVE  b = c
      BY <2>2, <3>1, <3>3 DEF StorageInv
    <3> QED
      BY <1>2, <2>2, <3>2, <3>3 DEF StorageInv
  <2> QED
    BY <2>1, <2>2 DEF Bucket
<1> QED
  BY <1>2, <1>5, <1>6, DocumentsKept

LEMMA ReassignTyped ==
    ASSUME TypeInv, NEW r \in Requests, Reassign(r), \E b \in buckets : b[2] = SchoolOf(r)
    PROVE  TypeInv'
<1> USE DEF TypeInv
<1>1. /\ ~At(r, "idle") /\ request[r].op \in {"upload", "create"} /\ SchoolOf(r) \in Schools
  BY OpAt DEF Reassign, At
<1>2. UNCHANGED <<file, scans, used, objects, buckets>> /\ used \in Nat /\ used <= used' /\ used' \in Nat
  BY UsedNumber DEF Reassign
<1>3. CASE Corrected(SchoolOf(r)) /\ End(r)
  <2>1. \E p \in Providers : <<p, SchoolOf(r)>> \in buckets
    BY DEF StorageInv
  <2>2. provider' \in [Schools -> Providers \cup {NoOne}]
    BY <1>3, <2>1 DEF Corrected, StorageInv
  <2>3. StorageInv'
    BY <1>2, <2>2 DEF StorageInv
  <2> QED
    BY <1>2, <1>3, <2>3, EndTyped, DocumentsKept
<1>4. CASE Goto(r, "put") /\ UNCHANGED provider
  <2>1. "put" \in Ways[request[r].op]
    BY <1>1 DEF Ways
  <2> QED
    BY <1>1, <1>2, <1>4, <2>1, GotoTyped, DocumentsKept, StorageKept
<1> QED
  BY <1>3, <1>4 DEF Reassign

LEMMA PutTyped ==
    ASSUME TypeInv, NEW r \in Requests, Put(r)
    PROVE  TypeInv'
<1> USE DEF TypeInv
<1> DEFINE q == request[r]
           bucket == <<q.at, SchoolOf(r)>>
<1>1. ~At(r, "idle") /\ q \in RequestStates /\ q # Idle /\ q.op \in {"upload", "create", "overwrite"}
  BY OpAt DEF Put, At
<1>2. UNCHANGED <<file, scans, used, buckets, provider>> /\ used \in Nat /\ used <= used' /\ used' \in Nat
  BY UsedNumber DEF Put, assignment, bounds
<1>3. RequestsInv'
  <2>1. CASE Goto(r, "find") /\ q.op = "upload"
    <3>1. "find" \in Ways[q.op]
      BY <2>1 DEF Ways
    <3> QED
      BY <1>1, <1>2, <2>1, <3>1, GotoTyped
  <2> QED
    BY <1>2, <2>1, EndTyped DEF Put
<1>4. StorageInv'
  <2>1. q.op # "create" => q.name \in Docs
    BY <1>1, FieldsOf DEF Uploads, Overwrites
  <2>2. objects' \subseteq {<<b[1], b[2], name>> : b \in buckets, name \in Docs}
    <3>1. CASE bucket \in buckets /\ q.op # "create"
      <4>1. objects' = objects \cup {<<q.at, SchoolOf(r), q.name>>}
        BY <3>1 DEF Put
      <4> QED
        BY <2>1, <3>1, <4>1 DEF StorageInv
    <3>2. CASE ~(bucket \in buckets /\ q.op # "create")
      BY <3>2 DEF Put, StorageInv
    <3> QED
      BY <3>1, <3>2
  <2> QED
    BY <1>2, <2>2 DEF StorageInv
<1> QED
  BY <1>2, <1>3, <1>4, DocumentsKept

LEMMA FindTyped ==
    ASSUME TypeInv, NEW r \in Requests, FindSame(r)
    PROVE  TypeInv'
<1> USE DEF TypeInv
<1>1. ~At(r, "idle") /\ request[r].op \in {"upload", "directory"}
  BY OpAt DEF FindSame, At
<1>2. UNCHANGED <<file, used, objects, buckets, provider>> /\ used \in Nat /\ used <= used' /\ used' \in Nat
  BY UsedNumber DEF FindSame, assignment, bounds
<1>3. RequestsInv'
  <2>1. CASE Goto(r, "insert")
    <3>1. "insert" \in Ways[request[r].op]
      BY <1>1 DEF Ways
    <3> QED
      BY <1>1, <1>2, <2>1, <3>1, GotoTyped
  <2> QED
    BY <1>2, <2>1, EndTyped DEF FindSame
<1>4. DocumentsInv'
  <2> DEFINE same == {f \in Docs : Exists(f) /\ file[f].name = request[r].name}
  <2>1. {file[f].token : f \in same} \ {NoOne} \subseteq Docs
    BY ExistingAreDocuments DEF Documents, DocumentFields
  <2>2. scans' \subseteq scans \cup ({file[f].token : f \in same} \ {NoOne})
    BY DEF FindSame
  <2> QED
    BY <1>2, <2>1, <2>2 DEF DocumentsInv
<1> QED
  BY <1>2, <1>3, <1>4, StorageKept

LEMMA RepeatTyped ==
    ASSUME TypeInv, NEW r \in Requests, NEW again \in Requests, Repeat(r, again)
    PROVE  TypeInv'
<1> USE DEF TypeInv
<1> DEFINE q == request[r]
           new == [q EXCEPT !.pc = "find"]
<1>1. q \in RequestStates /\ q # Idle /\ q.op \in {"upload", "directory"}
  BY OpAt DEF Repeat, At
<1>2. /\ UNCHANGED <<file, used, scans, objects, buckets, provider>>
      /\ used \in Nat /\ used <= used' /\ used' \in Nat
  BY UsedNumber DEF Repeat, assignment
<1>3. "find" \in Ways[q.op]
  BY <1>1 DEF Ways
<1>4. /\ new \in RequestStates /\ new.pc = "find"
      /\ Makes(new) => Makes(q) /\ new.name = q.name
  BY <1>1, <1>3, NextStepTyped
<1>5. Makes(q) => q.name <= used'
  BY <1>2 DEF RequestsInv
<1>6. Set(again, new)
  BY DEF Repeat
<1> HIDE DEF q, new
<1>7. RequestsInv'
  BY <1>2, <1>4, <1>5, <1>6, SetTyped
<1> QED
  BY <1>2, <1>7, DocumentsKept, StorageKept

(* A document gets an id that no document has, ...                         *)
LEMMA NextIdIsFree ==
    ASSUME DocumentsInv, NEW name \in Docs, NextId(name) \in Docs
    PROVE  file[NextId(name)] = Missing
BY UsedNumber, DocsAreNumbers DEF NextId, DocumentsInv

(* ... and keeps the documents typed.                                      *)
LEMMA CreatedTyped ==
    ASSUME DocumentsInv, NEW id, NEW document \in Documents, Created(id, document)
    PROVE  /\ file' \in [Docs -> Documents \cup {Missing}]
           /\ used' \in Docs \cup {0} /\ used \in Nat /\ used' \in Nat /\ used <= used'
           /\ \A f \in Docs : f > used' => file'[f] = Missing
<1>1. /\ id \in Docs /\ id \in Nat /\ used \in Nat
      /\ file' = [file EXCEPT ![id] = document] /\ used' = IF id > used THEN id ELSE used
  BY UsedNumber, DocsAreNumbers DEF Created
<1>2. file' \in [Docs -> Documents \cup {Missing}]
  BY <1>1 DEF DocumentsInv
<1>3. used' \in Docs \cup {0} /\ used' \in Nat /\ used <= used' /\ id <= used'
  BY <1>1 DEF DocumentsInv
<1>4. ASSUME NEW f \in Docs, f > used'
      PROVE  file'[f] = Missing
  BY <1>1, <1>3, <1>4, DocsAreNumbers DEF DocumentsInv
<1> QED
  BY <1>1, <1>2, <1>3, <1>4

LEMMA InsertTyped ==
    ASSUME TypeInv, NEW r \in Requests, Insert(r)
    PROVE  TypeInv'
<1> USE DEF TypeInv
<1> DEFINE q == request[r]
<1>1. q \in RequestStates /\ q # Idle /\ q.op \in {"upload", "directory"} /\ q.user \in Users
  BY OpAt DEF Insert, At
<1>2. UNCHANGED <<objects, buckets, provider>> /\ End(r)
  BY DEF Insert, assignment
<1>3. PICK status \in {"pending", "wont-check"} :
         /\ Created(NextId(NewFile(q, status).name), NewFile(q, status))
         /\ scans' = scans \cup ({NewFile(q, status).token} \ {NoOne})
  BY DEF Insert
<1>4. NewFile(q, status) \in Documents
  BY <1>1, FieldsOf, NewFileTyped
<1>5. NewFile(q, status).token \in Docs \cup {NoOne}
  BY <1>4 DEF Documents, DocumentFields
<1>6. /\ file' \in [Docs -> Documents \cup {Missing}]
      /\ used' \in Docs \cup {0} /\ used \in Nat /\ used' \in Nat /\ used <= used'
      /\ \A f \in Docs : f > used' => file'[f] = Missing
  BY <1>3, <1>4, CreatedTyped
<1>7. DocumentsInv'
  BY <1>3, <1>5, <1>6 DEF DocumentsInv
<1> QED
  BY <1>2, <1>6, <1>7, EndTyped, StorageKept

LEMMA CopiedTyped ==
    ASSUME NEW q \in Copies
    PROVE  /\ Copied(q) \in Documents
           /\ Copied(q).name = q.name /\ Copied(q).creator = q.original.creator
<1>1. /\ q.original \in DocumentFields /\ (q.original.status = "blocked" => q.original.token = NoOne)
      /\ q.parent \in Docs /\ q.name \in Docs
  BY DEF Documents, DocumentFields, Copies
<1>2. /\ Copied(q) \in DocumentFields
      /\ Copied(q).status = q.original.status /\ Copied(q).token = q.original.token
      /\ Copied(q).name = q.name /\ Copied(q).creator = q.original.creator
  BY <1>1 DEF Copied, DocumentFields
<1> QED
  BY <1>1, <1>2 DEF Documents, DocumentFields

LEMMA CopyTyped ==
    ASSUME TypeInv, NEW r \in Requests, CopyObject(r) \/ StoreCopy(r)
    PROVE  TypeInv'
<1> USE DEF TypeInv
<1> DEFINE q == request[r]
<1>1. ~At(r, "idle") /\ q \in Copies /\ q.op = "copy" /\ q.name \in Docs /\ q.parent \in Docs
      /\ q.original \in Documents /\ used \in Nat
  BY OpAt, UsedNumber DEF CopyObject, StoreCopy, At, Copies
<1>2. CASE CopyObject(r)
  <2>1. UNCHANGED <<file, scans, used, buckets, provider>> /\ used <= used' /\ used' \in Nat
    BY <1>1, <1>2 DEF CopyObject, assignment, bounds
  <2>2. RequestsInv'
    <3>1. CASE Goto(r, "store")
      <4>1. "store" \in Ways[q.op]
        BY <1>1 DEF Ways
      <4> QED
        BY <1>1, <2>1, <3>1, <4>1, GotoTyped
    <3> QED
      BY <1>1, <1>2, <2>1, <3>1, EndTyped DEF CopyObject
  <2>3. StorageInv'
    <3>1. \/ UNCHANGED objects
          \/ <<q.at, SchoolOf(r)>> \in buckets /\ objects' = objects \cup {<<q.at, SchoolOf(r), q.name>>}
      BY <1>2 DEF CopyObject
    <3>2. CASE UNCHANGED objects
      BY <2>1, <3>2, StorageKept
    <3>3. CASE <<q.at, SchoolOf(r)>> \in buckets /\ objects' = objects \cup {<<q.at, SchoolOf(r), q.name>>}
      BY <1>1, <2>1, <3>3 DEF StorageInv
    <3> QED
      BY <3>1, <3>2, <3>3
  <2> QED
    BY <2>1, <2>2, <2>3, DocumentsKept
<1>3. CASE StoreCopy(r)
  <2>1. /\ Created(NextId(q.name), Copied(q)) /\ End(r)
        /\ UNCHANGED <<scans, objects, buckets, provider>>
    BY <1>3 DEF StoreCopy, assignment
  <2>2. Copied(q) \in Documents
    BY <1>1, CopiedTyped
  <2>3. /\ file' \in [Docs -> Documents \cup {Missing}]
        /\ used' \in Docs \cup {0} /\ used' \in Nat /\ used <= used'
        /\ \A f \in Docs : f > used' => file'[f] = Missing
    BY <2>1, <2>2, CreatedTyped
  <2>4. DocumentsInv'
    BY <2>1, <2>3 DEF DocumentsInv
  <2> QED
    BY <1>1, <2>1, <2>3, <2>4, EndTyped, StorageKept
<1> QED
  BY <1>2, <1>3

LEMMA RemovalTyped ==
    ASSUME TypeInv, NEW r \in Requests, DeleteObject(r) \/ RemoveDocument(r) \/ RemoveChildren(r)
    PROVE  TypeInv'
<1> USE DEF TypeInv
<1>1. UNCHANGED <<scans, used, buckets, provider>> /\ used \in Nat /\ used <= used' /\ used' \in Nat
  BY UsedNumber DEF DeleteObject, RemoveDocument, RemoveChildren, assignment, bounds
<1>2. CASE DeleteObject(r)
  <2>1. ~At(r, "idle") /\ request[r].op = "remove"
    BY <1>2, OpAt DEF DeleteObject, At, Removals
  <2>2. UNCHANGED file /\ objects' \subseteq objects
    BY <1>2 DEF DeleteObject
  <2>3. StorageInv'
    BY <1>1, <2>2 DEF StorageInv
  <2>4. RequestsInv'
    <3>1. CASE Goto(r, "remove")
      <4>1. "remove" \in Ways[request[r].op]
        BY <2>1 DEF Ways
      <4> QED
        BY <1>1, <2>1, <3>1, <4>1, GotoTyped
    <3> QED
      BY <1>1, <1>2, <3>1, EndTyped DEF DeleteObject
  <2> QED
    BY <1>1, <2>2, <2>3, <2>4, DocumentsKept
<1>3. CASE RemoveDocument(r)
  <2>1. UNCHANGED objects /\ End(r) /\ file' = [file EXCEPT ![request[r].file] = Missing]
    BY <1>3 DEF RemoveDocument
  <2>2. DocumentsInv'
    BY <1>1, <2>1 DEF DocumentsInv
  <2> QED
    BY <1>1, <2>1, <2>2, EndTyped, StorageKept
<1>4. CASE RemoveChildren(r)
  <2>1. /\ UNCHANGED objects /\ Goto(r, "remove")
        /\ file' \in [Docs -> Documents \cup {Missing}]
        /\ \A f \in Docs : file'[f] \in {file[f], Missing}
    BY <1>4 DEF RemoveChildren, DocumentsInv
  <2>2. DocumentsInv'
    BY <1>1, <2>1 DEF DocumentsInv
  <2>3. ~At(r, "idle") /\ request[r].op = "tree"
    BY <1>4, OpAt DEF RemoveChildren, At, TreeRemovals
  <2>4. "remove" \in Ways[request[r].op]
    BY <2>3 DEF Ways
  <2> QED
    BY <1>1, <2>1, <2>2, <2>3, <2>4, GotoTyped, StorageKept
<1> QED
  BY <1>2, <1>3, <1>4

(* An update of a document that keeps it one.                              *)
LEMMA UpdateTyped ==
    ASSUME DocumentsInv, UNCHANGED <<scans, used>>, NEW f \in Docs, NEW document,
           Exists(f) => document \in Documents, Updated(f, document)
    PROVE  DocumentsInv'
<1>1. file' \in [Docs -> Documents \cup {Missing}]
  BY DEF Updated, DocumentsInv
<1>2. \A g \in Docs : file[g] = Missing => file'[g] = Missing
  BY DEF Updated, DocumentsInv, Exists
<1> QED
  BY <1>1, <1>2 DEF DocumentsInv

LEMMA ChangeTyped ==
    ASSUME TypeInv, NEW r \in Requests, FinishMove(r) \/ FinishPatch(r)
    PROVE  TypeInv'
<1> USE DEF TypeInv
<1> DEFINE q == request[r]
<1>1. /\ UNCHANGED <<scans, used, objects, buckets, provider>>
      /\ used \in Nat /\ used <= used' /\ used' \in Nat /\ End(r)
  BY UsedNumber DEF FinishMove, FinishPatch, assignment, bounds
<1>2. CASE FinishMove(r)
  <2> DEFINE new == [file[q.file] EXCEPT !.parent = q.parent, !.owner = q.owner]
  <2>1. q \in Moves /\ Updated(q.file, new)
    BY <1>2, OpAt DEF FinishMove
  <2>2. q.file \in Docs /\ q.parent \in Docs \cup {NoOne} /\ q.owner \in Known \cup Docs
    BY <2>1 DEF Moves
  <2>3. ASSUME Exists(q.file)
        PROVE  new \in Documents
    <3>1. file[q.file] \in DocumentFields /\ (file[q.file].status = "blocked" => file[q.file].token = NoOne)
      BY <2>3, ExistingAreDocuments DEF Documents
    <3>2. new \in DocumentFields /\ new.status = file[q.file].status /\ new.token = file[q.file].token
      BY <2>2, <3>1 DEF DocumentFields
    <3> QED
      BY <3>1, <3>2 DEF Documents, DocumentFields
  <2> HIDE DEF new
  <2> QED
    BY <1>1, <2>1, <2>2, <2>3, UpdateTyped, EndTyped, StorageKept
<1>3. CASE FinishPatch(r)
  <2> DEFINE new == [file[q.file] EXCEPT !.permissions = q.permissions]
  <2>1. q \in Patches /\ Updated(q.file, new)
    BY <1>3, OpAt DEF FinishPatch
  <2>2. q.file \in Docs /\ q.permissions \in Permissions
    BY <2>1 DEF Patches
  <2>3. ASSUME Exists(q.file)
        PROVE  new \in Documents
    <3>1. file[q.file] \in DocumentFields /\ (file[q.file].status = "blocked" => file[q.file].token = NoOne)
      BY <2>3, ExistingAreDocuments DEF Documents
    <3>2. new \in DocumentFields /\ new.status = file[q.file].status /\ new.token = file[q.file].token
      BY <2>2, <3>1 DEF DocumentFields
    <3> QED
      BY <3>1, <3>2 DEF Documents, DocumentFields
  <2> HIDE DEF new
  <2> QED
    BY <1>1, <2>1, <2>2, <2>3, UpdateTyped, EndTyped, StorageKept
<1> QED
  BY <1>2, <1>3

LEMMA ReportTyped ==
    ASSUME TypeInv, NEW token \in Docs, Report(token)
    PROVE  TypeInv'
<1> USE DEF TypeInv
<1>1. UNCHANGED <<used, request, objects, buckets, provider>> /\ scans' \subseteq scans
  BY DEF Report, assignment
<1>2. file' \in [Docs -> Documents \cup {Missing}] /\ \A g \in Docs : file[g] = Missing => file'[g] = Missing
  <2>1. CASE UNCHANGED file
    BY <2>1 DEF DocumentsInv
  <2>2. CASE \E f \in Docs, status \in {"verified", "blocked"} :
                Exists(f) /\ file' = [file EXCEPT ![f] = Reported(@, status)]
    <3>1. PICK f \in Docs, status \in {"verified", "blocked"} :
                Exists(f) /\ file' = [file EXCEPT ![f] = Reported(file[f], status)]
      BY <2>2
    <3>2. file[f] \in Documents
      BY <3>1, ExistingAreDocuments
    <3>3. Reported(file[f], status) \in Documents
      <4>1. file[f] \in DocumentFields
        BY <3>2 DEF Documents
      <4>2. /\ Reported(file[f], status).token = NoOne
            /\ Reported(file[f], status) \in DocumentFields
        BY <4>1 DEF Reported, DocumentFields, Statuses
      <4> QED
        BY <4>2 DEF Documents, DocumentFields
    <3> QED
      BY <3>1, <3>3 DEF DocumentsInv, Exists
  <2> QED
    BY <2>1, <2>2 DEF Report
<1>3. DocumentsInv'
  BY <1>1, <1>2 DEF DocumentsInv
<1>4. RequestsInv'
  BY <1>1 DEF RequestsInv, At, Makes
<1> QED
  BY <1>1, <1>3, <1>4, StorageKept

LEMMA FailTyped ==
    ASSUME TypeInv, NEW r \in Requests, Fail(r)
    PROVE  TypeInv'
<1>1. UNCHANGED <<file, scans, used, objects, buckets, provider>> /\ End(r)
  BY DEF Fail, assignment
<1> QED
  BY <1>1, UsedNumber, EndTyped, DocumentsKept, StorageKept DEF TypeInv

(* A conflict of a bucket is met only where the school has one.            *)
HasBucket(s) == \E b \in buckets : b[2] = s
ConflictInv == \A r \in Requests : At(r, "reassign") => HasBucket(SchoolOf(r))

LEMMA StepTyped ==
    ASSUME TypeInv, ConflictInv, [Next]_vars
    PROVE  TypeInv'
<1>1. CASE UNCHANGED vars
  <2>1. UNCHANGED <<file, scans, used, objects, buckets, provider, request>>
    BY <1>1 DEF vars, assignment, bounds
  <2>2. RequestsInv'
    BY <2>1 DEF TypeInv, RequestsInv, At, Makes
  <2> QED
    BY <2>1, <2>2, DocumentsKept, StorageKept DEF TypeInv
<1>2. ASSUME NEW r \in Requests, Continue(r)
      PROVE  TypeInv'
  <2>1. CASE Reassign(r)
    <3>1. \E b \in buckets : b[2] = SchoolOf(r)
      BY <2>1 DEF Reassign, ConflictInv, HasBucket
    <3> QED
      BY <2>1, <3>1, ReassignTyped
  <2> QED
    BY <1>2, <2>1, AssignTyped, BucketTyped, PutTyped, FindTyped, InsertTyped, CopyTyped,
       RemovalTyped, ChangeTyped, FailTyped DEF Continue
<1> QED
  BY <1>1, <1>2, BeginTyped, RepeatTyped, ReportTyped DEF Next

LEMMA TypeInvImpliesTypeOK == TypeInv => TypeOK
<1> SUFFICES ASSUME TypeInv
             PROVE  TypeOK
  OBVIOUS
<1>1. ASSUME NEW f \in Docs, Exists(f)
      PROVE  /\ file[f].owner \in Known \cup Docs
             /\ file[f].parent \in Docs \cup {NoOne}
             /\ file[f].creator \in Users
             /\ DOMAIN file[f].permissions \subseteq Refs
             /\ file[f].status \in {"pending", "verified", "blocked", "wont-check"}
  <2>1. file[f] \in Documents
    BY <1>1, ExistingAreDocuments DEF TypeInv
  <2>2. PICK S \in SUBSET Refs : file[f].permissions \in [S -> SUBSET Rights]
    BY <2>1 DEF Documents, DocumentFields, Permissions
  <2> QED
    BY <2>1, <2>2 DEF Documents, DocumentFields, Statuses
<1>2. \A r \in Requests : request[r].pc \in {"idle"} \cup Steps
  <2> TAKE r \in Requests
  <2>1. request[r] \in RequestStates
    BY OpAt DEF TypeInv
  <2> QED
    BY <2>1 DEF Steps, RequestStates, Idle, Uploads, DirectoryPosts, BucketPosts,
       Overwrites, Removals, TreeRemovals, Copies, Moves, Patches
<1> QED
  BY <1>1, <1>2 DEF TypeInv, StorageInv, TypeOK
-----------------------------------------------------------------------------
(* A request that goes on is the same request.                             *)

SameRequest(q, new) ==
    /\ new.pc # "idle" /\ new.op = q.op /\ new.user = q.user
    /\ Makes(q) => new.name = q.name
    /\ q.op = "remove" => new.name = q.name /\ new.file = q.file
Continues(r) ==
    /\ \A x \in Requests : x # r => request'[x] = request[x]
    /\ request'[r] = Idle \/ (~At(r, "idle") /\ SameRequest(request[r], request'[r]))

LEMMA EndContinues == ASSUME RequestsInv, NEW r \in Requests, End(r)
                      PROVE  Continues(r) /\ request'[r] = Idle
BY DEF RequestsInv, End, Set, Continues

LEMMA GotoContinues ==
    ASSUME RequestsInv, NEW r \in Requests, ~At(r, "idle"),
           NEW pc \in Ways[request[r].op], Goto(r, pc)
    PROVE  /\ Continues(r) /\ request'[r].pc = pc /\ request'[r] # Idle
           /\ request[r].op \in {"upload", "create", "overwrite", "remove", "copy"} =>
                 request'[r].at = request[r].at
           /\ request[r].op = "copy" => request'[r].original = request[r].original
<1> DEFINE q == request[r]
           new == [q EXCEPT !.pc = pc]
<1>1. q \in RequestStates /\ q # Idle
  BY OpAt
<1>2. /\ new.pc = pc /\ new.op = q.op
      /\ Makes(new) => Makes(q) /\ new.name = q.name
      /\ new \in RequestStates
  BY <1>1, NextStepTyped
<1>3. request' = [request EXCEPT ![r] = new]
  BY DEF Goto, RequestsInv
<1>4. request'[r] = new /\ \A x \in Requests : x # r => request'[x] = request[x]
  BY <1>3 DEF RequestsInv
<1>5. /\ new.user = q.user
      /\ q.op = "remove" => new.name = q.name /\ new.file = q.file
      /\ q.op \in {"upload", "create", "overwrite", "remove", "copy"} => new.at = q.at
      /\ q.op = "copy" => new.original = q.original
  BY <1>1 DEF RequestStates, Idle, Uploads, DirectoryPosts, BucketPosts,
       Overwrites, Removals, TreeRemovals, Copies, Moves, Patches
<1>6. pc # "idle"
  BY <1>1, <1>2 DEF Ways, RequestStates, Idle, Uploads, DirectoryPosts, BucketPosts,
       Overwrites, Removals, TreeRemovals, Copies, Moves, Patches
<1>7. Makes(q) => new.name = q.name
  BY <1>2, <1>6 DEF Makes
<1> HIDE DEF q, new
<1>8. new # Idle
  BY <1>2, <1>6 DEF Idle
<1> QED
  BY <1>2, <1>4, <1>5, <1>6, <1>7, <1>8 DEF Continues, SameRequest, q

LEMMA WithProviderContinues ==
    ASSUME RequestsInv, NEW r \in Requests, At(r, "assign") \/ At(r, "choose"),
           NEW p \in Providers, Set(r, WithProvider(request[r], p))
    PROVE  Continues(r) /\ request'[r] = WithProvider(request[r], p)
<1> DEFINE q == request[r]
           new == WithProvider(q, p)
<1>1. q \in RequestStates /\ q.pc \in {"assign", "choose"} /\ ~At(r, "idle")
  BY OpAt DEF At
<1>2. /\ new.op = q.op /\ new.user = q.user
      /\ new.pc \in {"bucket", "copy", "delete", "put"}
      /\ Makes(q) => new.name = q.name
      /\ q.op = "remove" => new.name = q.name /\ new.file = q.file
  BY <1>1, WithProviderTyped
<1>3. request'[r] = new /\ \A x \in Requests : x # r => request'[x] = request[x]
  BY DEF Set, RequestsInv
<1> HIDE DEF q, new
<1> QED
  BY <1>1, <1>2, <1>3 DEF Continues, SameRequest, q, new

LEMMA StepContinues ==
    ASSUME TypeInv, NEW r \in Requests, Continue(r)
    PROVE  Continues(r)
<1> USE DEF TypeInv
<1> DEFINE q == request[r]
<1>1. CASE Assign(r) \/ Choose(r)
  <2>1. /\ At(r, "assign") \/ At(r, "choose")
        /\ ~At(r, "idle") /\ q.op \in {"upload", "create", "overwrite", "remove", "copy"}
        /\ SchoolOf(r) \in Schools
    BY <1>1, OpAt DEF Assign, Choose, At
  <2>2. CASE \E p \in Providers : Set(r, WithProvider(q, p))
    BY <2>1, <2>2, WithProviderContinues
  <2>3. CASE Goto(r, "choose")
    <3>1. "choose" \in Ways[q.op]
      BY <2>1 DEF Ways
    <3> QED
      BY <2>1, <2>3, <3>1, GotoContinues
  <2>4. provider[SchoolOf(r)] \in Providers \cup {NoOne}
    BY <2>1 DEF StorageInv
  <2> QED
    BY <1>1, <2>2, <2>3, <2>4 DEF Assign, Choose
<1>2. CASE Bucket(r) \/ Reassign(r)
  <2>1. ~At(r, "idle") /\ q.op \in {"upload", "create"}
    BY <1>2, OpAt DEF Bucket, Reassign, At
  <2>2. {"reassign", "put"} \subseteq Ways[q.op]
    BY <2>1 DEF Ways
  <2>3. End(r) \/ Goto(r, "reassign") \/ Goto(r, "put")
    BY <1>2 DEF Bucket, Reassign, End, Goto, Set, RequestsInv
  <2> QED
    BY <2>1, <2>2, <2>3, GotoContinues, EndContinues
<1>3. CASE Put(r)
  <2>1. ~At(r, "idle") /\ (End(r) \/ (Goto(r, "find") /\ q.op = "upload"))
    BY <1>3 DEF Put, At
  <2>2. q.op = "upload" => "find" \in Ways[q.op]
    BY DEF Ways
  <2> QED
    BY <2>1, <2>2, GotoContinues, EndContinues
<1>4. CASE FindSame(r)
  <2>1. ~At(r, "idle") /\ q.op \in {"upload", "directory"} /\ (End(r) \/ Goto(r, "insert"))
    BY <1>4, OpAt DEF FindSame, At
  <2>2. "insert" \in Ways[q.op]
    BY <2>1 DEF Ways
  <2> QED
    BY <2>1, <2>2, GotoContinues, EndContinues
<1>5. CASE CopyObject(r)
  <2>1. ~At(r, "idle") /\ q.op = "copy" /\ (End(r) \/ Goto(r, "store"))
    BY <1>5, OpAt DEF CopyObject, At, Copies
  <2>2. "store" \in Ways[q.op]
    BY <2>1 DEF Ways
  <2> QED
    BY <2>1, <2>2, GotoContinues, EndContinues
<1>6. CASE DeleteObject(r) \/ RemoveChildren(r)
  <2>1. ~At(r, "idle") /\ q.op \in {"remove", "tree"} /\ (End(r) \/ Goto(r, "remove"))
    BY <1>6, OpAt DEF DeleteObject, RemoveChildren, At, Removals, TreeRemovals
  <2>2. "remove" \in Ways[q.op]
    BY <2>1 DEF Ways
  <2> QED
    BY <2>1, <2>2, GotoContinues, EndContinues
<1>7. CASE Insert(r) \/ StoreCopy(r) \/ RemoveDocument(r) \/ FinishMove(r) \/ FinishPatch(r) \/ Fail(r)
  BY <1>7, EndContinues DEF Insert, StoreCopy, RemoveDocument, FinishMove, FinishPatch, Fail
<1> QED
  BY <1>1, <1>2, <1>3, <1>4, <1>5, <1>6, <1>7 DEF Continue

(* Only Insert and StoreCopy make documents; what stays keeps its name,    *)
(* its creator, and whether it is a directory.                             *)
NoNewDocuments ==
    \A f \in Docs : Exists(f)' => /\ Exists(f) /\ file'[f].name = file[f].name
                                  /\ file'[f].creator = file[f].creator
                                  /\ file'[f].directory = file[f].directory

LEMMA UnchangedFile == UNCHANGED file => NoNewDocuments
BY DEF NoNewDocuments, Exists

LEMMA UpdateMakesNone ==
    ASSUME DocumentsInv, NEW f \in Docs, NEW document, Updated(f, document),
           Exists(f) => /\ document.name = file[f].name /\ document.creator = file[f].creator
                        /\ document.directory = file[f].directory
    PROVE  NoNewDocuments
BY DEF NoNewDocuments, Exists, Updated, DocumentsInv, Missing

LEMMA StepMakesNone ==
    ASSUME TypeInv,
           \/ \E r \in Requests : (Continue(r) /\ ~Insert(r) /\ ~StoreCopy(r)) \/ Begin(r)
           \/ \E token \in Docs : Report(token)
    PROVE  NoNewDocuments
<1> USE DEF TypeInv
<1>1. ASSUME NEW r \in Requests, Continue(r), ~Insert(r), ~StoreCopy(r)
      PROVE  NoNewDocuments
  <2>1. CASE RemoveDocument(r) \/ RemoveChildren(r)
    <3>1. \A f \in Docs : file'[f] \in {file[f], Missing}
      BY <2>1 DEF RemoveDocument, RemoveChildren, DocumentsInv
    <3> QED
      BY <3>1 DEF NoNewDocuments, Exists
  <2>2. CASE FinishMove(r)
    <3> DEFINE q == request[r]
               new == [file[q.file] EXCEPT !.parent = q.parent, !.owner = q.owner]
    <3>1. q.file \in Docs /\ Updated(q.file, new)
      BY <2>2, OpAt DEF FinishMove, Moves
    <3>2. Exists(q.file) => /\ new.name = file[q.file].name /\ new.creator = file[q.file].creator
                            /\ new.directory = file[q.file].directory
      BY ExistingAreDocuments DEF Documents, DocumentFields
    <3> HIDE DEF new
    <3> QED
      BY <3>1, <3>2, UpdateMakesNone
  <2>3. CASE FinishPatch(r)
    <3> DEFINE q == request[r]
               new == [file[q.file] EXCEPT !.permissions = q.permissions]
    <3>1. q.file \in Docs /\ Updated(q.file, new)
      BY <2>3, OpAt DEF FinishPatch, Patches
    <3>2. Exists(q.file) => /\ new.name = file[q.file].name /\ new.creator = file[q.file].creator
                            /\ new.directory = file[q.file].directory
      BY ExistingAreDocuments DEF Documents, DocumentFields
    <3> HIDE DEF new
    <3> QED
      BY <3>1, <3>2, UpdateMakesNone
  <2>4. CASE \/ Assign(r) \/ Choose(r) \/ Bucket(r) \/ Reassign(r) \/ Put(r) \/ FindSame(r)
             \/ CopyObject(r) \/ DeleteObject(r) \/ Fail(r)
    BY <2>4, UnchangedFile
       DEF Assign, Choose, Bucket, Reassign, Put, FindSame, CopyObject, DeleteObject, Fail
  <2> QED
    BY <1>1, <2>1, <2>2, <2>3, <2>4 DEF Continue
<1>2. ASSUME NEW r \in Requests, Begin(r)
      PROVE  NoNewDocuments
  <2>1. UNCHANGED file
    BY <1>2 DEF Begin, Upload, CreateDirectory, CreateBucket, Overwrite, RemoveFile,
         RemoveDirectory, Copy, Move, PatchPermissions, Start
  <2> QED
    BY <2>1, UnchangedFile
<1>3. ASSUME NEW token \in Docs, Report(token)
      PROVE  NoNewDocuments
  <2>1. CASE \E f \in Docs, status \in {"verified", "blocked"} :
                Exists(f) /\ file' = [file EXCEPT ![f] = Reported(@, status)]
    <3>1. PICK f \in Docs, status \in {"verified", "blocked"} :
                Exists(f) /\ file' = [file EXCEPT ![f] = Reported(file[f], status)]
      BY <2>1
    <3>2. file[f] \in Documents
      BY <3>1, ExistingAreDocuments
    <3>3. /\ Reported(file[f], status).name = file[f].name
          /\ Reported(file[f], status).creator = file[f].creator
          /\ Reported(file[f], status).directory = file[f].directory
      BY <3>2 DEF Reported, Documents, DocumentFields
    <3>4. Updated(f, Reported(file[f], status))
      BY <3>1 DEF Updated
    <3> QED
      BY <3>3, <3>4, UpdateMakesNone
  <2> QED
    BY <1>3, <2>1, UnchangedFile DEF Report
<1> QED
  BY <1>1, <1>2, <1>3

LEMMA BlockedStep ==
    ASSUME TypeInv, [Next]_vars, NEW f \in Docs, Exists(f), file[f].status = "blocked"
    PROVE  file'[f] = Missing \/ file'[f].status = "blocked"
<1> USE DEF TypeInv
<1>1. file[f] \in Documents /\ file[f].token = NoOne
  BY ExistingAreDocuments DEF Documents, DocumentFields
<1>2. CASE UNCHANGED file
  BY <1>2
<1>3. ASSUME NEW id, NEW document, file[id] = Missing, file' = [file EXCEPT ![id] = document]
      PROVE  file'[f] = file[f]
  BY <1>3 DEF DocumentsInv, Exists
<1>4. ASSUME NEW r \in Requests, Continue(r)
      PROVE  file'[f] = Missing \/ file'[f].status = "blocked"
  <2> DEFINE q == request[r]
  <2>1. CASE Insert(r)
    <3>1. PICK status \in {"pending", "wont-check"} :
             Created(NextId(NewFile(q, status).name), NewFile(q, status))
      BY <2>1 DEF Insert
    <3>2. q.name \in Docs
      BY <2>1, OpAt, FieldsOf DEF Insert, At, Idle
    <3>3. file[NextId(q.name)] = Missing
      BY <3>1, <3>2, NextIdIsFree DEF Created, NewFile
    <3> QED
      BY <1>3, <3>1, <3>3 DEF Created, NewFile
  <2>2. CASE StoreCopy(r)
    <3>1. q.name \in Docs /\ Created(NextId(q.name), Copied(q))
      BY <2>2, OpAt DEF StoreCopy, Copies
    <3>2. file[NextId(q.name)] = Missing
      BY <3>1, NextIdIsFree DEF Created
    <3> QED
      BY <1>3, <3>1, <3>2 DEF Created
  <2>3. CASE RemoveDocument(r) \/ RemoveChildren(r)
    <3>1. file'[f] \in {file[f], Missing}
      BY <2>3 DEF RemoveDocument, RemoveChildren, DocumentsInv
    <3> QED
      BY <3>1
  <2>4. CASE FinishMove(r)
    BY <1>1, <2>4 DEF FinishMove, Updated, DocumentsInv, Documents, DocumentFields
  <2>5. CASE FinishPatch(r)
    BY <1>1, <2>5 DEF FinishPatch, Updated, DocumentsInv, Documents, DocumentFields
  <2>6. CASE \/ Assign(r) \/ Choose(r) \/ Bucket(r) \/ Reassign(r) \/ Put(r) \/ FindSame(r)
             \/ CopyObject(r) \/ DeleteObject(r) \/ Fail(r)
    BY <2>6 DEF Assign, Choose, Bucket, Reassign, Put, FindSame, CopyObject, DeleteObject, Fail
  <2> QED
    BY <1>4, <2>1, <2>2, <2>3, <2>4, <2>5, <2>6 DEF Continue
<1>5. ASSUME NEW token \in Docs, Report(token)
      PROVE  file'[f] = file[f]
  <2>1. CASE \E g \in Docs, status \in {"verified", "blocked"} :
                file[g].token = token /\ file' = [file EXCEPT ![g] = Reported(@, status)]
    <3>1. PICK g \in Docs, status \in {"verified", "blocked"} :
             file[g].token = token /\ file' = [file EXCEPT ![g] = Reported(@, status)]
      BY <2>1
    <3>2. g # f
      BY <1>1, <3>1, FileStorageAssumption
    <3> QED
      BY <3>1, <3>2 DEF DocumentsInv
  <2> QED
    BY <1>5, <2>1 DEF Report
<1>6. ASSUME NEW r \in Requests, Begin(r)
      PROVE  UNCHANGED file
  BY <1>6 DEF Begin, Upload, CreateDirectory, CreateBucket, Overwrite, RemoveFile,
     RemoveDirectory, Copy, Move, PatchPermissions, Start
<1>7. ASSUME NEW r \in Requests, NEW again \in Requests, Repeat(r, again)
      PROVE  UNCHANGED file
  BY <1>7 DEF Repeat
<1> QED
  BY <1>2, <1>4, <1>5, <1>6, <1>7 DEF Next, vars
-----------------------------------------------------------------------------
(* The provider of a school is that of its bucket, ...                     *)

(* ... or of the bucket that will be made, unless it was assigned twice.   *)
SettledInv ==
    \A s \in Schools \ unsettled :
        /\ \A b \in buckets : b[2] = s => provider[s] = b[1]
        /\ \A r \in Requests : At(r, "bucket") /\ SchoolOf(r) = s =>
              HasBucket(s) \/ request[r].at = provider[s]

ProvidersInv == ConflictInv /\ SettledInv

LEMMA ProvidersKept ==
    ASSUME ProvidersInv, UNCHANGED <<buckets, provider, unsettled>>,
           \A r \in Requests : request'[r] # request[r] => ~At(r, "bucket")' /\ ~At(r, "reassign")'
    PROVE  ProvidersInv'
<1>1. \A r \in Requests : At(r, "bucket")' => At(r, "bucket") /\ request'[r] = request[r]
  BY DEF At
<1>2. \A r \in Requests : At(r, "reassign")' => At(r, "reassign") /\ request'[r] = request[r]
  BY DEF At
<1>3. ConflictInv'
  BY <1>2 DEF ProvidersInv, ConflictInv, HasBucket, SchoolOf
<1>4. SettledInv'
  BY <1>1 DEF ProvidersInv, SettledInv, HasBucket, SchoolOf
<1> QED
  BY <1>3, <1>4 DEF ProvidersInv

LEMMA StepProviders ==
    ASSUME TypeInv, ProvidersInv, NEW r \in Requests, Continue(r)
    PROVE  ProvidersInv'
<1> USE DEF TypeInv
<1> DEFINE q == request[r]
           s == SchoolOf(r)
<1>1. \A x \in Requests : x # r => request'[x] = request[x] /\ SchoolOf(x)' = SchoolOf(x)
                                   /\ \A pc : At(x, pc)' <=> At(x, pc)
  BY StepContinues DEF Continues, SchoolOf, At
<1>2. ASSUME End(r) \/ request'[r].pc \notin {"bucket", "reassign"}, UNCHANGED <<buckets, provider, unsettled>>
      PROVE  ProvidersInv'
  <2>1. ~At(r, "bucket")' /\ ~At(r, "reassign")'
    BY <1>2, EndContinues DEF At, Idle
  <2> QED
    BY <1>1, <1>2, <2>1, ProvidersKept
<1>3. CASE Assign(r)
  <2>1. /\ At(r, "assign") /\ ~At(r, "idle") /\ s \in Schools
        /\ q.op \in {"upload", "create", "overwrite", "remove", "copy"} /\ q \in RequestStates
        /\ UNCHANGED <<buckets, provider, unsettled>>
    BY <1>3, OpAt DEF Assign, At, assignment, histories
  <2>2. CASE provider[s] = NoOne
    <3>1. Goto(r, "choose") /\ "choose" \in Ways[q.op]
      BY <1>3, <2>1, <2>2 DEF Assign, Ways
    <3> QED
      BY <1>2, <2>1, <3>1, GotoContinues
  <2>3. CASE provider[s] # NoOne
    <3> DEFINE new == WithProvider(q, provider[s])
    <3>1. provider[s] \in Providers /\ Set(r, new)
      BY <1>3, <2>1, <2>3 DEF Assign, StorageInv
    <3>2. request'[r] = new
      BY <2>1, <3>1, WithProviderContinues
    <3>3. new.at = provider[s] /\ new.user = q.user /\ new.pc # "reassign"
      BY <2>1, <3>1, WithProviderTyped DEF At
    <3> HIDE DEF new
    <3>4. SchoolOf(r)' = s /\ request'[r].at = provider'[s] /\ ~At(r, "reassign")'
      BY <2>1, <3>2, <3>3 DEF SchoolOf, At
    <3>5. ConflictInv'
      BY <1>1, <2>1, <3>4 DEF ProvidersInv, ConflictInv, HasBucket
    <3>6. SettledInv'
      BY <1>1, <2>1, <3>4 DEF ProvidersInv, SettledInv, HasBucket
    <3> QED
      BY <3>5, <3>6 DEF ProvidersInv
  <2> QED
    BY <2>2, <2>3
<1>4. CASE Choose(r)
  <2>1. PICK p \in Providers : ChosenProvider(s, p) /\ Set(r, WithProvider(q, p))
    BY <1>4 DEF Choose
  <2> DEFINE new == WithProvider(q, p)
  <2>2. /\ At(r, "choose") /\ s \in Schools /\ q \in RequestStates
        /\ UNCHANGED buckets
    BY <1>4, OpAt DEF Choose, At
  <2>3. request'[r] = new
    BY <2>1, <2>2, WithProviderContinues
  <2>4. new.at = p /\ new.user = q.user /\ new.pc # "reassign"
    BY <2>2, WithProviderTyped DEF At
  <2> HIDE DEF new
  <2>5. SchoolOf(r)' = s /\ request'[r].at = p /\ ~At(r, "reassign")'
    BY <2>3, <2>4 DEF SchoolOf, At
  <2>6. /\ provider' = [provider EXCEPT ![s] = p]
        /\ unsettled' = IF provider[s] = NoOne THEN unsettled ELSE unsettled \cup {s}
    BY <2>1 DEF ChosenProvider
  <2>7. ConflictInv'
    BY <1>1, <2>2, <2>5 DEF ProvidersInv, ConflictInv, HasBucket
  <2>8. SettledInv'
    <3> SUFFICES ASSUME NEW t \in Schools \ unsettled'
                 PROVE  /\ \A b \in buckets' : b[2] = t => provider'[t] = b[1]
                        /\ \A x \in Requests : At(x, "bucket")' /\ SchoolOf(x)' = t =>
                              HasBucket(t)' \/ request'[x].at = provider'[t]
      BY DEF SettledInv
    <3>1. CASE t # s
      <4>1. t \in Schools \ unsettled /\ provider'[t] = provider[t]
        BY <2>6, <3>1 DEF StorageInv
      <4> QED
        BY <1>1, <2>2, <2>5, <3>1, <4>1 DEF ProvidersInv, SettledInv, HasBucket
    <3>2. CASE t = s
      <4>1. provider[s] = NoOne /\ s \notin unsettled /\ provider'[s] = p
        BY <2>2, <2>6, <3>2 DEF StorageInv
      <4>2. NoOne \notin Providers
        BY FileStorageAssumption
      <4>3. \A b \in buckets : b[2] # s
        BY <2>2, <4>1, <4>2 DEF ProvidersInv, SettledInv, StorageInv
      <4>4. \A x \in Requests : ~(At(x, "bucket") /\ SchoolOf(x) = s)
        BY <2>2, <4>1, <4>2, <4>3 DEF ProvidersInv, SettledInv, HasBucket, RequestsInv
      <4> QED
        BY <1>1, <2>2, <2>5, <3>2, <4>1, <4>3, <4>4
    <3> QED
      BY <3>1, <3>2
  <2> QED
    BY <2>7, <2>8 DEF ProvidersInv
<1>5. CASE Bucket(r)
  <2> DEFINE here == <<q.at, s>>
             next == IF q.op = "create" THEN Idle ELSE [q EXCEPT !.pc = "put"]
  <2>1. /\ At(r, "bucket") /\ ~At(r, "idle") /\ s \in Schools /\ q \in RequestStates
        /\ q.op \in {"upload", "create"} /\ q.at \in Providers
        /\ UNCHANGED <<provider, unsettled>>
    BY <1>5, OpAt DEF Bucket, At, RequestsInv, histories
  <2>2. {"put", "reassign"} \subseteq Ways[q.op]
    BY <2>1 DEF Ways
  <2>3. Set(r, next) => End(r) \/ Goto(r, "put")
    BY DEF Set, End, Goto, RequestsInv
  <2>4. Set(r, next) => request'[r].pc \in {"idle", "put"}
    BY <2>1, <2>2, <2>3, GotoContinues, EndContinues DEF Idle
  <2>5. CASE Set(r, next) /\ UNCHANGED buckets
    BY <1>2, <2>1, <2>4, <2>5
  <2>6. CASE ~Taken(q.at, s) /\ Set(r, next) /\ buckets' = buckets \cup {here}
    <3>1. ~At(r, "bucket")' /\ ~At(r, "reassign")'
      BY <2>4, <2>6 DEF At
    <3>2. \A t : HasBucket(t) => HasBucket(t)'
      BY <2>6 DEF HasBucket
    <3>3. \A b \in buckets : b[2] # s
      BY <2>6 DEF Taken, StorageInv
    <3>4. ConflictInv'
      BY <1>1, <3>1, <3>2 DEF ProvidersInv, ConflictInv
    <3>5. s \notin unsettled => q.at = provider[s]
      BY <2>1, <3>3 DEF ProvidersInv, SettledInv, HasBucket
    <3>6. SettledInv'
      BY <1>1, <2>1, <2>6, <3>1, <3>2, <3>5 DEF ProvidersInv, SettledInv
    <3> QED
      BY <3>4, <3>6 DEF ProvidersInv
  <2>7. CASE Taken(q.at, s) /\ Goto(r, "reassign") /\ UNCHANGED buckets
    <3>1. /\ request'[r].pc = "reassign" /\ SchoolOf(r)' = s /\ ~At(r, "bucket")'
      BY <2>1, <2>2, <2>7, GotoContinues DEF Continues, SameRequest, SchoolOf, At, Idle
    <3>2. \E b \in buckets' : b[2] = s
      BY <2>7 DEF Taken
    <3>3. ConflictInv'
      BY <1>1, <2>7, <3>1, <3>2 DEF ProvidersInv, ConflictInv, HasBucket
    <3>4. SettledInv'
      BY <1>1, <2>1, <2>7, <3>1 DEF ProvidersInv, SettledInv, HasBucket
    <3> QED
      BY <3>3, <3>4 DEF ProvidersInv
  <2> QED
    BY <1>5, <2>5, <2>6, <2>7 DEF Bucket
<1>6. CASE Reassign(r)
  <2>1. /\ At(r, "reassign") /\ ~At(r, "idle") /\ s \in Schools /\ q.op \in {"upload", "create"}
        /\ HasBucket(s) /\ UNCHANGED buckets
    BY <1>6, OpAt DEF Reassign, At, ProvidersInv, ConflictInv
  <2>2. CASE Corrected(s) /\ unsettled' = unsettled \ {s} /\ End(r)
    <3>1. ~At(r, "bucket")' /\ ~At(r, "reassign")'
      BY <2>2, EndContinues DEF At, Idle
    <3>2. /\ <<provider'[s], s>> \in buckets
          /\ \A t \in Schools : t # s => provider'[t] = provider[t]
      <4>1. \E p \in Providers : <<p, s>> \in buckets
        BY <2>1 DEF HasBucket, StorageInv
      <4>2. provider' = [provider EXCEPT ![s] = CHOOSE p \in Providers : <<p, s>> \in buckets]
        BY <2>2 DEF Corrected
      <4>3. <<CHOOSE p \in Providers : <<p, s>> \in buckets, s>> \in buckets
        BY <4>1
      <4> QED
        BY <2>1, <4>2, <4>3 DEF StorageInv
    <3>3. \A b \in buckets : b[2] = s => b[1] = provider'[s]
      <4> TAKE b \in buckets
      <4> HAVE b[2] = s
      <4>1. <<provider'[s], s>> = b
        BY <3>2 DEF StorageInv
      <4> QED
        BY <4>1
    <3>4. ConflictInv'
      BY <1>1, <2>1, <3>1 DEF ProvidersInv, ConflictInv, HasBucket
    <3>5. SettledInv'
      BY <1>1, <2>1, <2>2, <3>1, <3>2, <3>3 DEF ProvidersInv, SettledInv, HasBucket
    <3> QED
      BY <3>4, <3>5 DEF ProvidersInv
  <2>3. CASE Goto(r, "put") /\ UNCHANGED <<provider, unsettled>>
    <3>1. "put" \in Ways[q.op]
      BY <2>1 DEF Ways
    <3> QED
      BY <1>2, <2>1, <2>3, <3>1, GotoContinues
  <2> QED
    BY <1>6, <2>2, <2>3 DEF Reassign
<1>7. CASE \/ Put(r) \/ FindSame(r) \/ Insert(r) \/ CopyObject(r) \/ StoreCopy(r) \/ DeleteObject(r)
           \/ RemoveDocument(r) \/ RemoveChildren(r) \/ FinishMove(r) \/ FinishPatch(r) \/ Fail(r)
  <2>1. UNCHANGED <<buckets, provider, unsettled>> /\ ~At(r, "idle")
    BY <1>7 DEF Put, FindSame, Insert, CopyObject, StoreCopy, DeleteObject, RemoveDocument,
       RemoveChildren, FinishMove, FinishPatch, Fail, assignment, histories, At
  <2>2. End(r) \/ \E pc \in {"find", "insert", "store", "remove"} \cap Ways[q.op] : Goto(r, pc)
    <3>1. CASE Put(r)
      BY <3>1 DEF Put, Ways
    <3>2. CASE FindSame(r)
      BY <3>2, OpAt DEF FindSame, Ways
    <3>3. CASE CopyObject(r)
      BY <3>3, OpAt DEF CopyObject, Ways, Copies
    <3>4. CASE DeleteObject(r) \/ RemoveChildren(r)
      BY <3>4, OpAt DEF DeleteObject, RemoveChildren, Ways, Removals, TreeRemovals
    <3> QED
      BY <1>7, <3>1, <3>2, <3>3, <3>4
         DEF Insert, StoreCopy, RemoveDocument, FinishMove, FinishPatch, Fail
  <2> QED
    BY <1>2, <2>1, <2>2, GotoContinues
<1> QED
  BY <1>3, <1>4, <1>5, <1>6, <1>7 DEF Continue
-----------------------------------------------------------------------------
(* Unless a client repeats a creation: the id of a document is its name,   *)
(* and of the requests under way only one makes that document and none     *)
(* that removes a document makes way for another of its name.              *)

Removing(r) == ~At(r, "idle") /\ request[r].op = "remove"
Comes(r, f) == Makes(request[r]) /\ request[r].name = f

NamesInv ==
    /\ \A f \in Docs : Exists(f) => file[f].name = f
    /\ \A r \in Requests : Removing(r) =>
          request[r].name = request[r].file /\ request[r].file <= used
    /\ \A r \in Requests, f \in Docs : Comes(r, f) =>
          /\ ~Exists(f)
          /\ \A x \in Requests : /\ Comes(x, f) => x = r
                                 /\ Removing(x) => request[x].file # f

LEMMA NamesOnward ==
    ASSUME TypeInv, NamesInv, NEW r \in Requests, Continues(r), NoNewDocuments,
           used' \in Nat, used <= used'
    PROVE  NamesInv'
<1> USE DEF TypeInv
<1>1. used \in Nat
  BY UsedNumber
<1>2. ASSUME NEW x \in Requests, Removing(x)'
      PROVE  Removing(x) /\ request'[x].name = request[x].name /\ request'[x].file = request[x].file
  BY <1>2 DEF Continues, SameRequest, Removing, At, Idle
<1>3. ASSUME NEW x \in Requests, NEW f \in Docs, Comes(x, f)'
      PROVE  Comes(x, f)
  BY <1>3 DEF Continues, SameRequest, Comes, Makes, At, Idle
<1>4. \A f \in Docs : Exists(f)' => file'[f].name = f
  BY DEF NamesInv, NoNewDocuments
<1>5. ASSUME NEW x \in Requests, Removing(x)'
      PROVE  request'[x].name = request'[x].file /\ request'[x].file <= used'
  <2>1. request[x].file \in Nat
    BY <1>2, <1>5, OpAt, FieldsOf, DocsAreNumbers DEF Removing, Removals
  <2> QED
    BY <1>1, <1>2, <1>5, <2>1 DEF NamesInv
<1>6. ASSUME NEW x \in Requests, NEW f \in Docs, Comes(x, f)'
      PROVE  /\ ~Exists(f)'
             /\ \A y \in Requests : /\ Comes(y, f)' => y = x
                                    /\ Removing(y)' => request'[y].file # f
  BY <1>2, <1>3, <1>6 DEF NamesInv, NoNewDocuments
<1> QED
  BY <1>4, <1>5, <1>6 DEF NamesInv

LEMMA NamesBegin ==
    ASSUME TypeInv, NamesInv, NEW r \in Requests, NEW n \in {0, 1}, NEW new, Start(r, n, new),
           Makes(new) => n = 1 /\ new.name = used + 1,
           new.op = "remove" => new.name = new.file /\ Exists(new.file)
    PROVE  NamesInv'
<1> USE DEF TypeInv
<1>1. /\ UNCHANGED file /\ used' = used + n /\ used \in Nat
      /\ request'[r] = new /\ \A x \in Requests : x # r => request'[x] = request[x]
  BY UsedNumber DEF Start, Set, RequestsInv
<1>2. ASSUME NEW x \in Requests, NEW f \in Docs, Comes(x, f)'
      PROVE  IF x = r THEN f = used + 1 /\ n = 1 ELSE Comes(x, f) /\ f <= used
  BY <1>1, <1>2 DEF Comes, RequestsInv
<1>3. ASSUME NEW x \in Requests, Removing(x)'
      PROVE  /\ request'[x].name = request'[x].file /\ request'[x].file <= used
             /\ request'[x].file \in Nat
             /\ IF x = r THEN Exists(request'[x].file) ELSE Removing(x)
  <2>1. CASE x = r
    <3>1. request'[x].name = request'[x].file /\ Exists(request'[x].file)
      BY <1>1, <1>3, <2>1 DEF Removing, At
    <3> QED
      BY <2>1, <3>1, ExistingAreDocuments, DocsAreNumbers
  <2>2. CASE x # r
    <3>1. Removing(x) /\ request'[x] = request[x]
      BY <1>1, <1>3, <2>2 DEF Removing, At
    <3>2. request[x].file \in Nat
      BY <3>1, OpAt, FieldsOf, DocsAreNumbers DEF Removing, Removals
    <3> QED
      BY <2>2, <3>1, <3>2 DEF NamesInv
  <2> QED
    BY <2>1, <2>2
<1>4. \A f \in Docs : Exists(f)' <=> Exists(f)
  BY <1>1 DEF Exists
<1>5. \A f \in Docs : Exists(f)' => file'[f].name = f
  BY <1>1, <1>4 DEF NamesInv
<1>6. \A x \in Requests : Removing(x)' => request'[x].name = request'[x].file /\ request'[x].file <= used'
  BY <1>1, <1>3
<1>7. ASSUME NEW x \in Requests, NEW f \in Docs, Comes(x, f)'
      PROVE  /\ ~Exists(f)'
             /\ \A y \in Requests : /\ Comes(y, f)' => y = x
                                    /\ Removing(y)' => request'[y].file # f
  <2>1. CASE x = r
    <3>1. f = used + 1 /\ ~(f <= used)
      BY <1>1, <1>2, <1>7, <2>1
    <3>2. ~Exists(f)
      BY <3>1, ExistingAreDocuments
    <3>3. \A y \in Requests : Comes(y, f)' => y = x
      BY <1>2, <2>1, <3>1
    <3>4. \A y \in Requests : Removing(y)' => request'[y].file # f
      BY <1>3, <3>1
    <3> QED
      BY <1>4, <3>2, <3>3, <3>4
  <2>2. CASE x # r
    <3>1. Comes(x, f) /\ f <= used
      BY <1>2, <1>7, <2>2
    <3>2. ~Exists(f)
      BY <3>1 DEF NamesInv
    <3>3. ASSUME NEW y \in Requests, Comes(y, f)'
          PROVE  y = x
      <4>1. y # r
        BY <1>1, <1>2, <3>1, <3>3
      <4> QED
        BY <1>2, <3>1, <3>3, <4>1 DEF NamesInv
    <3>4. ASSUME NEW y \in Requests, Removing(y)'
          PROVE  request'[y].file # f
      <4>1. CASE y = r
        BY <1>3, <3>2, <3>4, <4>1
      <4>2. CASE y # r
        BY <1>1, <1>3, <3>1, <3>4, <4>2 DEF NamesInv
      <4> QED
        BY <4>1, <4>2
    <3> QED
      BY <1>4, <3>2, <3>3, <3>4
  <2> QED
    BY <2>1, <2>2
<1> QED
  BY <1>5, <1>6, <1>7 DEF NamesInv

LEMMA NamesCreated ==
    ASSUME TypeInv, NamesInv, NEW r \in Requests, ~At(r, "idle"), Makes(request[r]), End(r),
           NEW document \in Documents, document.name = request[r].name,
           Created(NextId(request[r].name), document)
    PROVE  /\ NamesInv'
           /\ request[r].name \in Docs /\ file[request[r].name] = Missing
           /\ file' = [file EXCEPT ![request[r].name] = document]
<1> USE DEF TypeInv
<1> DEFINE name == request[r].name
<1>1. name \in Docs
  BY OpAt, FieldsOf DEF Makes, Copies
<1>2. Comes(r, name)
  BY DEF Comes
<1>3. ~Exists(name) /\ file[name] = Missing
  BY <1>1, <1>2 DEF NamesInv, Exists
<1>4. file' = [file EXCEPT ![name] = document]
  BY <1>3 DEF Created, NextId
<1>5. used' \in Nat /\ used <= used' /\ used \in Nat
  BY CreatedTyped
<1>6. request'[r] = Idle /\ \A x \in Requests : x # r => request'[x] = request[x]
  BY EndContinues DEF Continues
<1> HIDE DEF name
<1>7. \A f \in Docs : IF f = name THEN file'[f] = document ELSE file'[f] = file[f]
  BY <1>1, <1>4 DEF DocumentsInv
<1>8. \A f \in Docs : f # name => (Exists(f)' <=> Exists(f)) /\ file'[f] = file[f]
  BY <1>7 DEF Exists
<1>9. \A f \in Docs : Exists(f)' => file'[f].name = f
  BY <1>7, <1>8 DEF NamesInv, name
<1>10. ASSUME NEW x \in Requests, Removing(x)'
       PROVE  x # r /\ Removing(x) /\ request'[x] = request[x]
  BY <1>6, <1>10 DEF Removing, At, Idle
<1>11. ASSUME NEW x \in Requests, NEW f \in Docs, Comes(x, f)'
       PROVE  x # r /\ Comes(x, f) /\ f # name
  <2>1. x # r
    BY <1>6, <1>11 DEF Comes, Makes, Idle
  <2>2. Comes(x, f)
    BY <1>6, <1>11, <2>1 DEF Comes
  <2> QED
    BY <1>1, <1>2, <2>1, <2>2 DEF NamesInv
<1>12. ASSUME NEW x \in Requests, Removing(x)'
       PROVE  request'[x].name = request'[x].file /\ request'[x].file <= used'
  <2>1. request[x].file \in Nat
    BY <1>10, <1>12, OpAt, FieldsOf, DocsAreNumbers DEF Removing, Removals
  <2> QED
    BY <1>5, <1>10, <1>12, <2>1 DEF NamesInv
<1>13. ASSUME NEW x \in Requests, NEW f \in Docs, Comes(x, f)'
       PROVE  /\ ~Exists(f)'
              /\ \A y \in Requests : /\ Comes(y, f)' => y = x
                                     /\ Removing(y)' => request'[y].file # f
  BY <1>8, <1>10, <1>11, <1>13 DEF NamesInv
<1> QED
  BY <1>1, <1>3, <1>4, <1>9, <1>12, <1>13 DEF NamesInv, name
-----------------------------------------------------------------------------
(* A file has its object in a bucket of its creator's school, or who       *)
(* deleted the object goes on to remove the file; the object of a new file *)
(* is there before the file.                                               *)

HasObject(f) == \E p \in Providers : <<p, School[file[f].creator], f>> \in objects
DeletedBy(r, f) == At(r, "remove") /\ request[r].op = "remove" /\ request[r].file = f
Delivered(r) == At(r, "store") \/ (request[r].op = "upload" /\ (At(r, "find") \/ At(r, "insert")))

StoredInv ==
    /\ \A f \in Files : f \in astray \/ HasObject(f) \/ \E r \in Requests : DeletedBy(r, f)
    /\ \A r \in Requests : Delivered(r) =>
          ~At(r, "idle") /\ <<request[r].at, SchoolOf(r), request[r].name>> \in objects

LEMMA StoredKept ==
    ASSUME StoredInv, NoNewDocuments, astray \subseteq astray', objects \subseteq objects',
           NEW r \in Requests, \A x \in Requests : x # r => request'[x] = request[x],
           \A f \in Files' : DeletedBy(r, f) => f \in astray' \/ DeletedBy(r, f)',
           Delivered(r)' =>
               ~At(r, "idle")' /\ <<request'[r].at, SchoolOf(r)', request'[r].name>> \in objects'
    PROVE  StoredInv'
<1>1. ASSUME NEW f \in Files'
      PROVE  f \in astray' \/ HasObject(f)' \/ \E x \in Requests : DeletedBy(x, f)'
  <2>1. f \in Files /\ file'[f].creator = file[f].creator
    BY DEF Files, NoNewDocuments
  <2>2. HasObject(f) => HasObject(f)'
    BY <2>1 DEF HasObject
  <2>3. ASSUME NEW x \in Requests, DeletedBy(x, f)
        PROVE  f \in astray' \/ \E y \in Requests : DeletedBy(y, f)'
    BY <2>3 DEF DeletedBy, At
  <2> QED
    BY <2>1, <2>2, <2>3 DEF StoredInv
<1>2. ASSUME NEW x \in Requests, Delivered(x)'
      PROVE  ~At(x, "idle")' /\ <<request'[x].at, SchoolOf(x)', request'[x].name>> \in objects'
  <2>1. CASE x = r
    BY <1>2, <2>1
  <2>2. CASE x # r
    <3>1. request'[x] = request[x]
      BY <2>2
    <3> QED
      BY <1>2, <3>1 DEF StoredInv, Delivered, At, SchoolOf
  <2> QED
    BY <2>1, <2>2
<1> QED
  BY <1>1, <1>2 DEF StoredInv

LEMMA StepStored ==
    ASSUME TypeInv, NamesInv, StoredInv, NEW r \in Requests, Continue(r)
    PROVE  StoredInv'
<1> USE DEF TypeInv
<1> DEFINE q == request[r]
<1>1. /\ \A x \in Requests : x # r => request'[x] = request[x] /\ SchoolOf(x)' = SchoolOf(x)
      /\ request'[r] = Idle \/ (~At(r, "idle") /\ SameRequest(q, request'[r]))
  BY StepContinues DEF Continues, SchoolOf
<1>2. request'[r] = Idle => ~Delivered(r)'
  BY DEF Delivered, Idle, At
<1>3. ASSUME ~Insert(r), ~StoreCopy(r)
      PROVE  NoNewDocuments
  BY <1>3, StepMakesNone
<1>4. CASE \/ Assign(r) \/ Choose(r) \/ Bucket(r) \/ Reassign(r) \/ RemoveChildren(r)
           \/ FinishMove(r) \/ FinishPatch(r)
  <2>1. /\ UNCHANGED <<objects, astray>> /\ ~Insert(r) /\ ~StoreCopy(r)
        /\ \A f : ~DeletedBy(r, f)
    BY <1>4 DEF Assign, Choose, Bucket, Reassign, RemoveChildren, FinishMove, FinishPatch,
       Insert, StoreCopy, DeletedBy, At, histories
  <2>2. ~Delivered(r)'
    <3>1. CASE request'[r].pc \in {"choose", "bucket", "copy", "delete", "put", "reassign", "remove"}
      BY <3>1 DEF Delivered, At
    <3>2. request'[r] = Idle \/ request'[r].pc \in {"choose", "bucket", "copy", "delete", "put", "reassign", "remove"}
      <4>1. CASE Assign(r) \/ Choose(r)
        <5>1. /\ At(r, "assign") \/ At(r, "choose")
              /\ ~At(r, "idle") /\ q \in RequestStates /\ q.pc \in {"assign", "choose"}
              /\ q.op \in {"upload", "create", "overwrite", "remove", "copy"}
              /\ SchoolOf(r) \in Schools
          BY <4>1, OpAt DEF Assign, Choose, At
        <5>2. ASSUME NEW p \in Providers, Set(r, WithProvider(q, p))
              PROVE  request'[r].pc \in {"bucket", "copy", "delete", "put"}
          BY <5>1, <5>2, WithProviderContinues, WithProviderTyped
        <5>3. Goto(r, "choose") => request'[r].pc = "choose"
          <6>1. "choose" \in Ways[q.op]
            BY <5>1 DEF Ways
          <6> QED
            BY <5>1, <6>1, GotoContinues
        <5>4. provider[SchoolOf(r)] \in Providers \cup {NoOne}
          BY <5>1 DEF StorageInv
        <5> QED
          BY <4>1, <5>2, <5>3, <5>4 DEF Assign, Choose
      <4>2. CASE Bucket(r) \/ Reassign(r)
        <5>1. ~At(r, "idle") /\ q.op \in {"upload", "create"}
          BY <4>2, OpAt DEF Bucket, Reassign, At
        <5>2. {"reassign", "put"} \subseteq Ways[q.op]
          BY <5>1 DEF Ways
        <5>3. End(r) \/ Goto(r, "reassign") \/ Goto(r, "put")
          BY <4>2 DEF Bucket, Reassign, End, Goto, Set, RequestsInv
        <5> QED
          BY <5>1, <5>2, <5>3, GotoContinues, EndContinues
      <4>3. CASE RemoveChildren(r)
        <5>1. ~At(r, "idle") /\ q.op = "tree" /\ Goto(r, "remove")
          BY <4>3, OpAt DEF RemoveChildren, At, TreeRemovals
        <5>2. "remove" \in Ways[q.op]
          BY <5>1 DEF Ways
        <5> QED
          BY <5>1, <5>2, GotoContinues
      <4>4. CASE FinishMove(r) \/ FinishPatch(r)
        BY <4>4, EndContinues DEF FinishMove, FinishPatch
      <4> QED
        BY <1>4, <4>1, <4>2, <4>3, <4>4
    <3> QED
      BY <1>2, <3>1, <3>2
  <2> QED
    BY <1>1, <1>3, <2>1, <2>2, StoredKept
<1>5. CASE Put(r)
  <2>1. /\ At(r, "put") /\ ~At(r, "idle") /\ UNCHANGED astray /\ objects \subseteq objects'
        /\ ~Insert(r) /\ ~StoreCopy(r) /\ \A f : ~DeletedBy(r, f)
    BY <1>5 DEF Put, Insert, StoreCopy, DeletedBy, At, histories
  <2>2. CASE Goto(r, "find") /\ <<q.at, SchoolOf(r)>> \in buckets /\ q.op = "upload"
    <3>1. "find" \in Ways[q.op] /\ Makes(q)
      BY <2>1, <2>2 DEF Ways, Makes, At
    <3>2. /\ request'[r].at = q.at /\ request'[r].name = q.name /\ SchoolOf(r)' = SchoolOf(r)
          /\ ~At(r, "idle")'
      BY <1>1, <2>1, <2>2, <3>1, GotoContinues DEF SameRequest, SchoolOf, At
    <3>3. <<q.at, SchoolOf(r), q.name>> \in objects'
      BY <1>5, <2>2 DEF Put
    <3> QED
      BY <1>1, <1>3, <2>1, <3>2, <3>3, StoredKept
  <2>3. CASE End(r)
    BY <1>1, <1>2, <1>3, <2>1, <2>3, EndContinues, StoredKept
  <2> QED
    BY <1>5, <2>2, <2>3 DEF Put
<1>6. CASE FindSame(r)
  <2>1. /\ At(r, "find") /\ ~At(r, "idle") /\ UNCHANGED <<objects, astray>>
        /\ q.op \in {"upload", "directory"}
        /\ ~Insert(r) /\ ~StoreCopy(r) /\ \A f : ~DeletedBy(r, f)
    BY <1>6, OpAt DEF FindSame, Insert, StoreCopy, DeletedBy, At, histories
  <2>2. CASE Goto(r, "insert")
    <3>1. "insert" \in Ways[q.op] /\ Makes(q)
      BY <2>1, <2>2 DEF Ways, Makes, At
    <3>2. /\ q.op = "upload" => request'[r].at = q.at
          /\ request'[r].name = q.name /\ SchoolOf(r)' = SchoolOf(r)
          /\ request'[r].pc = "insert" /\ request'[r].op = q.op
      BY <1>1, <2>1, <2>2, <3>1, GotoContinues DEF SameRequest, SchoolOf
    <3>3. Delivered(r)' => Delivered(r) /\ q.op = "upload"
      BY <2>1, <3>2 DEF Delivered, At
    <3> QED
      BY <1>1, <1>3, <2>1, <3>2, <3>3, StoredKept DEF StoredInv, At
  <2>3. CASE End(r)
    BY <1>1, <1>2, <1>3, <2>1, <2>3, EndContinues, StoredKept
  <2> QED
    BY <1>6, <2>2, <2>3 DEF FindSame
<1>7. CASE CopyObject(r)
  <2>1. /\ At(r, "copy") /\ ~At(r, "idle") /\ UNCHANGED astray /\ q.op = "copy"
        /\ ~Insert(r) /\ ~StoreCopy(r) /\ \A f : ~DeletedBy(r, f)
    BY <1>7, OpAt DEF CopyObject, Insert, StoreCopy, DeletedBy, At, Copies, histories
  <2>2. CASE Goto(r, "store") /\ objects' = objects \cup {<<q.at, SchoolOf(r), q.name>>}
    <3>1. "store" \in Ways[q.op] /\ Makes(q)
      BY <2>1 DEF Ways, Makes, At
    <3>2. /\ request'[r].at = q.at /\ request'[r].name = q.name /\ SchoolOf(r)' = SchoolOf(r)
          /\ ~At(r, "idle")'
      BY <1>1, <2>1, <2>2, <3>1, GotoContinues DEF SameRequest, SchoolOf, At
    <3> QED
      BY <1>1, <1>3, <2>1, <2>2, <3>2, StoredKept
  <2>3. CASE End(r) /\ UNCHANGED objects
    BY <1>1, <1>2, <1>3, <2>1, <2>3, EndContinues, StoredKept
  <2> QED
    BY <1>7, <2>2, <2>3 DEF CopyObject
<1>8. CASE RemoveDocument(r)
  <2>1. /\ At(r, "remove") /\ UNCHANGED <<objects, astray>> /\ End(r)
        /\ ~Insert(r) /\ ~StoreCopy(r) /\ file' = [file EXCEPT ![q.file] = Missing]
    BY <1>8 DEF RemoveDocument, Insert, StoreCopy, At, histories
  <2>2. \A f \in Files' : ~DeletedBy(r, f)
    BY <2>1 DEF Files, Exists, DeletedBy, DocumentsInv
  <2> QED
    BY <1>1, <1>2, <1>3, <2>1, <2>2, EndContinues, StoredKept
<1>9. CASE Fail(r)
  <2>1. /\ UNCHANGED <<objects, file>> /\ End(r)
        /\ astray' = IF q.op = "remove" THEN astray \cup {q.file} ELSE astray
    BY <1>9 DEF Fail
  <2>2. \A f : DeletedBy(r, f) => f \in astray'
    BY <2>1 DEF DeletedBy
  <2> QED
    BY <1>1, <1>2, <2>1, <2>2, EndContinues, StoredKept, UnchangedFile
<1>10. CASE DeleteObject(r)
  <2>1. /\ At(r, "delete") /\ ~At(r, "idle") /\ UNCHANGED <<file, astray>> /\ q \in Removals
        /\ q.op = "remove" /\ \A f : ~DeletedBy(r, f)
    BY <1>10, OpAt DEF DeleteObject, DeletedBy, At, Removals, histories
  <2>2. CASE End(r) /\ UNCHANGED objects
    BY <1>1, <1>2, <2>1, <2>2, EndContinues, StoredKept, UnchangedFile
  <2>3. CASE Goto(r, "remove") /\ objects' = objects \ {<<q.at, SchoolOf(r), q.name>>}
    <3>1. "remove" \in Ways[q.op] /\ Removing(r) /\ q.name = q.file
      BY <2>1 DEF Ways, Removing, NamesInv
    <3>2. (\A f \in Docs : f = q.file => DeletedBy(r, f)') /\ ~Delivered(r)'
      BY <1>1, <2>1, <2>3, <3>1, GotoContinues DEF DeletedBy, Delivered, At, SameRequest, Idle
    <3>3. ASSUME NEW f \in Files'
          PROVE  f \in astray' \/ HasObject(f)' \/ \E x \in Requests : DeletedBy(x, f)'
      <4>1. f \in Files /\ file'[f] = file[f]
        BY <2>1 DEF Files, Exists
      <4>2. CASE f = q.file
        BY <3>2, <4>1, <4>2 DEF Files
      <4>3. CASE f # q.file
        <5>1. HasObject(f) => HasObject(f)'
          BY <2>3, <3>1, <4>1, <4>3 DEF HasObject
        <5>2. ASSUME NEW x \in Requests, DeletedBy(x, f)
              PROVE  DeletedBy(x, f)'
          <6>1. x # r
            BY <2>1, <5>2
          <6> QED
            BY <1>1, <5>2, <6>1 DEF DeletedBy, At
        <5> QED
          BY <2>1, <4>1, <5>1, <5>2 DEF StoredInv
      <4> QED
        BY <4>2, <4>3
    <3>4. ASSUME NEW x \in Requests, Delivered(x)'
          PROVE  ~At(x, "idle")' /\ <<request'[x].at, SchoolOf(x)', request'[x].name>> \in objects'
      <4>1. x # r /\ request'[x] = request[x] /\ SchoolOf(x)' = SchoolOf(x)
        BY <1>1, <3>2, <3>4
      <4>2. Delivered(x)
        BY <3>4, <4>1 DEF Delivered, At
      <4>3. ~At(x, "idle") /\ <<request[x].at, SchoolOf(x), request[x].name>> \in objects
        BY <4>2 DEF StoredInv
      <4>4. request[x].name \in Docs /\ Comes(x, request[x].name)
        BY <4>2, <4>3, OpAt, FieldsOf DEF Delivered, Comes, Makes, At, Copies
      <4>5. request[x].name # q.name
        BY <3>1, <4>4 DEF NamesInv
      <4> QED
        BY <2>3, <4>1, <4>3, <4>5 DEF At
    <3> QED
      BY <3>3, <3>4 DEF StoredInv
  <2> QED
    BY <1>10, <2>2, <2>3 DEF DeleteObject
<1>11. ASSUME Insert(r) \/ StoreCopy(r), NEW document \in Documents, document.name = q.name,
              Makes(q), ~At(r, "idle"), Created(NextId(q.name), document), astray \subseteq astray',
              document.directory \/ q.name \in astray' \/
                  (Delivered(r) /\ School[document.creator] = SchoolOf(r))
       PROVE  StoredInv'
  <2>1. End(r) /\ UNCHANGED objects /\ ~At(r, "remove")
    BY <1>11 DEF Insert, StoreCopy, At
  <2>2. q.name \in Docs /\ file' = [file EXCEPT ![q.name] = document]
    BY <1>11, <2>1, NamesCreated
  <2>3. request'[r] = Idle
    BY <2>1, EndContinues
  <2>4. ASSUME NEW f \in Files'
        PROVE  f \in astray' \/ HasObject(f)' \/ \E x \in Requests : DeletedBy(x, f)'
    <3>1. CASE f = q.name
      <4>1. file'[f] = document /\ ~document.directory
        BY <2>2, <3>1 DEF Files, DocumentsInv
      <4>2. Delivered(r) => \E p \in Providers : <<p, SchoolOf(r), f>> \in objects
        <5> HAVE Delivered(r)
        <5>1. <<q.at, SchoolOf(r), f>> \in objects
          BY <3>1 DEF StoredInv
        <5>2. PICK b \in buckets, name \in Docs : <<q.at, SchoolOf(r), f>> = <<b[1], b[2], name>>
          BY <5>1 DEF StorageInv
        <5>3. q.at \in Providers
          BY <5>2 DEF StorageInv
        <5> QED
          BY <5>1, <5>3
      <4> QED
        BY <1>11, <2>1, <3>1, <4>1, <4>2 DEF HasObject
    <3>2. CASE f # q.name
      <4>1. file'[f] = file[f]
        BY <2>2, <3>2 DEF DocumentsInv
      <4>2. f \in Files
        BY <4>1 DEF Files, Exists
      <4>3. HasObject(f) => HasObject(f)'
        BY <2>1, <4>1 DEF HasObject
      <4>4. ASSUME NEW x \in Requests, DeletedBy(x, f)
            PROVE  DeletedBy(x, f)'
        <5>1. x # r
          BY <2>1, <4>4 DEF DeletedBy
        <5> QED
          BY <1>1, <4>4, <5>1 DEF DeletedBy, At
      <4> QED
        BY <1>11, <4>2, <4>3, <4>4 DEF StoredInv
    <3> QED
      BY <3>1, <3>2
  <2>5. ASSUME NEW x \in Requests, Delivered(x)'
        PROVE  ~At(x, "idle")' /\ <<request'[x].at, SchoolOf(x)', request'[x].name>> \in objects'
    <3>1. x # r /\ request'[x] = request[x] /\ SchoolOf(x)' = SchoolOf(x)
      BY <1>1, <1>2, <2>3, <2>5
    <3> QED
      BY <2>1, <2>5, <3>1 DEF StoredInv, Delivered, At
  <2> QED
    BY <2>4, <2>5 DEF StoredInv
<1>12. CASE Insert(r)
  <2>1. /\ At(r, "insert") /\ ~At(r, "idle") /\ UNCHANGED astray /\ q \in RequestStates /\ q # Idle
        /\ q.op \in {"upload", "directory"} /\ q.user \in Users /\ Makes(q)
    BY <1>12, OpAt DEF Insert, At, Makes, histories
  <2>2. PICK status \in {"pending", "wont-check"} :
           Created(NextId(NewFile(q, status).name), NewFile(q, status))
    BY <1>12 DEF Insert
  <2> DEFINE document == NewFile(q, status)
  <2>3. document \in Documents
    BY <2>1, FieldsOf, NewFileTyped
  <2>4. /\ document.name = q.name /\ document.creator = q.user
        /\ document.directory <=> q.op = "directory"
    BY DEF NewFile
  <2>5. q.op = "upload" => Delivered(r)
    BY <2>1 DEF Delivered
  <2> HIDE DEF document
  <2>6. Created(NextId(q.name), document)
    BY <2>2, <2>4 DEF document
  <2>7. School[document.creator] = SchoolOf(r)
    BY <2>4 DEF SchoolOf
  <2> QED
    BY <1>11, <1>12, <2>1, <2>3, <2>4, <2>5, <2>6, <2>7
<1>13. CASE StoreCopy(r)
  <2>1. /\ At(r, "store") /\ ~At(r, "idle") /\ q \in Copies /\ q.op = "copy"
        /\ q.original \in Documents /\ Makes(q) /\ Delivered(r)
        /\ Created(NextId(q.name), Copied(q))
    BY <1>13, OpAt DEF StoreCopy, At, Copies, Makes, Delivered
  <2>2. /\ Copied(q) \in Documents
        /\ Copied(q).name = q.name /\ Copied(q).creator = q.original.creator
    BY <2>1, CopiedTyped
  <2>4. /\ astray \subseteq astray'
        /\ School[q.original.creator] = SchoolOf(r) \/ q.name \in astray'
    BY <1>13 DEF StoreCopy
  <2> QED
    BY <1>11, <1>13, <2>1, <2>2, <2>4
<1> QED
  BY <1>4, <1>5, <1>6, <1>7, <1>8, <1>9, <1>10, <1>12, <1>13 DEF Continue

(* What the requests have in common when they begin.                       *)
LEMMA BeginShape ==
    ASSUME NEW r \in Requests, Begin(r)
    PROVE  \E n \in {0, 1} : \E new :
             /\ Start(r, n, new)
             /\ new.pc \in {"assign", "find", "children", "move", "patch"}
             /\ new.pc = "find" => new.op = "directory"
             /\ Makes(new) => n = 1 /\ new.name = used + 1
             /\ new.op = "remove" => new.file \in Files /\ new.name = file[new.file].name
<1>1. CASE Upload(r)
  <2>1. PICK u, place :
          Start(r, 1, [pc |-> "assign", op |-> "upload", user |-> u,
                       owner |-> place[1], parent |-> place[2], name |-> used + 1, at |-> NoOne])
    BY <1>1 DEF Upload
  <2> QED
    BY <2>1
<1>2. CASE CreateDirectory(r)
  <2>1. PICK u, place :
          Start(r, 1, [pc |-> "find", op |-> "directory", user |-> u,
                       owner |-> place[1], parent |-> place[2], name |-> used + 1])
    BY <1>2 DEF CreateDirectory
  <2> QED
    BY <2>1
<1>3. CASE CreateBucket(r)
  <2>1. PICK u : Start(r, 0, [pc |-> "assign", op |-> "create", user |-> u, at |-> NoOne])
    BY <1>3 DEF CreateBucket
  <2> QED
    BY <2>1 DEF Makes
<1>4. CASE Overwrite(r)
  <2>1. PICK u, f :
          Start(r, 0, [pc |-> "assign", op |-> "overwrite", user |-> u, name |-> file[f].name, at |-> NoOne])
    BY <1>4 DEF Overwrite
  <2> QED
    BY <2>1 DEF Makes
<1>5. CASE RemoveFile(r)
  <2>1. PICK u \in Users, f \in Files :
          Start(r, 0, [pc |-> "assign", op |-> "remove", user |-> u, file |-> f,
                       name |-> file[f].name, at |-> NoOne])
    BY <1>5 DEF RemoveFile
  <2> QED
    BY <2>1 DEF Makes
<1>6. CASE RemoveDirectory(r)
  <2>1. PICK u, f : Start(r, 0, [pc |-> "children", op |-> "tree", user |-> u, file |-> f])
    BY <1>6 DEF RemoveDirectory
  <2> QED
    BY <2>1 DEF Makes
<1>7. CASE Copy(r)
  <2>1. PICK u, f, parent, source :
          Start(r, 1, [pc |-> "assign", op |-> "copy", user |-> u, parent |-> parent, source |-> source,
                       original |-> file[f], name |-> used + 1, at |-> NoOne])
    BY <1>7 DEF Copy
  <2> QED
    BY <2>1
<1>8. CASE Move(r)
  <2>1. PICK u, f, parent, owner :
          Start(r, 0, [pc |-> "move", op |-> "move", user |-> u, file |-> f,
                       parent |-> parent, owner |-> owner])
    BY <1>8 DEF Move
  <2> QED
    BY <2>1 DEF Makes
<1>9. CASE PatchPermissions(r)
  <2>1. PICK u, f, permissions :
          Start(r, 0, [pc |-> "patch", op |-> "patch", user |-> u, file |-> f,
                       permissions |-> permissions])
    BY <1>9 DEF PatchPermissions
  <2> QED
    BY <2>1 DEF Makes
<1> QED
  BY <1>1, <1>2, <1>3, <1>4, <1>5, <1>6, <1>7, <1>8, <1>9 DEF Begin
-----------------------------------------------------------------------------
(* All of it, for every step.                                              *)

HomeInv == ~repeated => NamesInv /\ StoredInv
FileInv == TypeInv /\ ProvidersInv /\ HomeInv

LEMMA InitFileInv == Init => FileInv
<1> SUFFICES ASSUME Init
             PROVE  FileInv
  OBVIOUS
<1> USE DocsAreNumbers
<1>1. /\ TypeInv
      /\ \A r \in Requests : request[r] = Idle /\ SchoolOf(r) = School[request[r].user]
  BY InitTypeInv DEF Init, SchoolOf
<1>2. \A r \in Requests : /\ ~At(r, "bucket") /\ ~At(r, "reassign") /\ ~Delivered(r) /\ ~Removing(r)
                          /\ ~Makes(request[r])
  BY <1>1 DEF At, Idle, Delivered, Removing, Makes
<1>3. CASE Empty
  <2>1. ProvidersInv
    BY <1>2, <1>3 DEF ProvidersInv, ConflictInv, SettledInv, Empty
  <2>2. NamesInv
    BY <1>2, <1>3 DEF NamesInv, Comes, Empty, Exists
  <2>3. StoredInv
    BY <1>2, <1>3 DEF StoredInv, Empty, Files, Exists
  <2> QED
    BY <1>1, <2>1, <2>2, <2>3 DEF FileInv, HomeInv
<1>4. CASE Stocked
  <2>1. PICK u \in Users, p \in Providers, owner \in Known :
          LET s == School[u]
              directory == NewFile([op |-> "directory", user |-> u, owner |-> owner, parent |-> NoOne, name |-> 1], "pending")
              document == NewFile([op |-> "upload", user |-> u, owner |-> owner, parent |-> 1, name |-> 2], "pending")
          IN  /\ file = [f \in Docs |-> CASE f = 1 -> directory [] f = 2 -> document [] OTHER -> Missing]
              /\ objects = {<<p, s, 2>>} /\ buckets = {<<p, s>>}
              /\ provider = [[x \in Schools |-> NoOne] EXCEPT ![s] = p]
    BY <1>4 DEF Stocked
  <2> DEFINE directory == NewFile([op |-> "directory", user |-> u, owner |-> owner, parent |-> NoOne, name |-> 1], "pending")
             document == NewFile([op |-> "upload", user |-> u, owner |-> owner, parent |-> 1, name |-> 2], "pending")
  <2>2. directory.name = 1 /\ directory.directory /\ document.name = 2 /\ document.creator = u
    BY DEF NewFile
  <2>3. file = [f \in Docs |-> CASE f = 1 -> directory [] f = 2 -> document [] OTHER -> Missing]
    BY <2>1
  <2> HIDE DEF directory, document
  <2>4. ProvidersInv
    <3>1. School[u] \in Schools
      BY FileStorageAssumption
    <3>2. \A b \in buckets : b[1] = p /\ b[2] = School[u]
      BY <2>1
    <3>3. provider[School[u]] = p
      BY <2>1, <3>1
    <3> QED
      BY <1>2, <3>2, <3>3 DEF ProvidersInv, ConflictInv, SettledInv
  <2>5. NamesInv
    <3>1. \A f \in Docs : Exists(f) => file[f].name = f
      BY <2>2, <2>3 DEF Exists
    <3> QED
      BY <1>2, <3>1 DEF NamesInv, Comes
  <2>6. StoredInv
    <3>1. \A f \in Files : f = 2 /\ file[f].creator = u
      BY <2>2, <2>3 DEF Files, Exists
    <3>2. \A f \in Files : HasObject(f)
      BY <2>1, <3>1 DEF HasObject
    <3> QED
      BY <1>2, <3>2 DEF StoredInv
  <2> QED
    BY <1>1, <2>4, <2>5, <2>6 DEF FileInv, HomeInv
<1> QED
  BY <1>3, <1>4 DEF Init

LEMMA BeginKeepsHome ==
    ASSUME FileInv, NEW r \in Requests, Begin(r)
    PROVE  ProvidersInv' /\ HomeInv'
<1> USE DEF FileInv
<1>1. PICK n \in {0, 1} : \E new :
         /\ Start(r, n, new)
         /\ new.pc \in {"assign", "find", "children", "move", "patch"}
         /\ new.pc = "find" => new.op = "directory"
         /\ Makes(new) => n = 1 /\ new.name = used + 1
         /\ new.op = "remove" => new.file \in Files /\ new.name = file[new.file].name
  BY BeginShape
<1>2. PICK new :
         /\ Start(r, n, new)
         /\ new.pc \in {"assign", "find", "children", "move", "patch"}
         /\ new.pc = "find" => new.op = "directory"
         /\ Makes(new) => n = 1 /\ new.name = used + 1
         /\ new.op = "remove" => new.file \in Files /\ new.name = file[new.file].name
  BY <1>1
<1>3. /\ UNCHANGED <<file, objects, buckets, provider, unsettled, repeated, astray>>
      /\ request'[r] = new /\ \A x \in Requests : x # r => request'[x] = request[x]
  BY <1>2 DEF Start, Set, TypeInv, RequestsInv, assignment, histories
<1>4. At(r, "idle")
  BY DEF Begin, Upload, CreateDirectory, CreateBucket, Overwrite, RemoveFile, RemoveDirectory,
     Copy, Move, PatchPermissions, Ready
<1>5. ProvidersInv'
  BY <1>2, <1>3, ProvidersKept DEF At
<1>6. ASSUME ~repeated
      PROVE  NamesInv' /\ StoredInv'
  <2>1. NamesInv'
    <3>1. new.op = "remove" => new.name = new.file /\ Exists(new.file)
      BY <1>2, <1>6 DEF HomeInv, NamesInv, Files
    <3> QED
      BY <1>2, <1>6, <3>1, NamesBegin DEF HomeInv
  <2>2. StoredInv'
    <3>1. ~Delivered(r)' /\ \A f : ~DeletedBy(r, f)
      BY <1>2, <1>3, <1>4 DEF Delivered, DeletedBy, At
    <3> QED
      BY <1>3, <1>6, <3>1, StoredKept, UnchangedFile DEF HomeInv
  <2> QED
    BY <2>1, <2>2
<1> QED
  BY <1>3, <1>5, <1>6 DEF HomeInv

LEMMA ContinueKeepsHome ==
    ASSUME FileInv, NEW r \in Requests, Continue(r)
    PROVE  ProvidersInv' /\ HomeInv'
<1> USE DEF FileInv
<1>1. ProvidersInv' /\ Continues(r)
  BY StepProviders, StepContinues
<1>2. UNCHANGED repeated
  BY DEF Continue, Assign, Choose, Bucket, Reassign, Put, FindSame, Insert, CopyObject, StoreCopy,
     DeleteObject, RemoveDocument, RemoveChildren, FinishMove, FinishPatch, Fail, histories
<1>3. ASSUME ~repeated
      PROVE  NamesInv'
  <2> DEFINE q == request[r]
  <2>1. CASE Insert(r)
    <3>1. /\ ~At(r, "idle") /\ q \in RequestStates /\ q # Idle
          /\ q.op \in {"upload", "directory"} /\ q.user \in Users /\ Makes(q) /\ End(r)
      BY <2>1, OpAt DEF Insert, At, Makes, TypeInv
    <3>2. PICK status \in {"pending", "wont-check"} :
             Created(NextId(NewFile(q, status).name), NewFile(q, status))
      BY <2>1 DEF Insert
    <3> DEFINE document == NewFile(q, status)
    <3>3. document \in Documents
      BY <3>1, FieldsOf, NewFileTyped
    <3>4. document.name = q.name
      BY DEF NewFile
    <3> HIDE DEF document
    <3>5. Created(NextId(q.name), document)
      BY <3>2, <3>4 DEF document
    <3> QED
      BY <1>3, <3>1, <3>3, <3>4, <3>5, NamesCreated DEF HomeInv
  <2>2. CASE StoreCopy(r)
    <3>1. /\ ~At(r, "idle") /\ q \in Copies /\ Makes(q) /\ End(r) /\ q.original \in Documents
          /\ Created(NextId(q.name), Copied(q))
      BY <2>2, OpAt DEF StoreCopy, At, Makes, Copies, TypeInv
    <3>2. Copied(q) \in Documents /\ Copied(q).name = q.name
      BY <3>1, CopiedTyped
    <3> QED
      BY <1>3, <3>1, <3>2, NamesCreated DEF HomeInv
  <2>3. CASE ~Insert(r) /\ ~StoreCopy(r)
    <3>1. UNCHANGED used
      BY <2>3 DEF Continue, Assign, Choose, Bucket, Reassign, Put, FindSame, CopyObject,
         DeleteObject, RemoveDocument, RemoveChildren, FinishMove, FinishPatch, Fail, bounds
    <3>2. used \in Nat /\ used' \in Nat /\ used <= used'
      BY <3>1, UsedNumber DEF TypeInv
    <3> QED
      BY <1>1, <1>3, <2>3, <3>2, StepMakesNone, NamesOnward DEF HomeInv
  <2> QED
    BY <2>1, <2>2, <2>3
<1> QED
  BY <1>1, <1>2, <1>3, StepStored DEF HomeInv

LEMMA ReportKeepsHome ==
    ASSUME FileInv, NEW token \in Docs, Report(token)
    PROVE  ProvidersInv' /\ HomeInv'
<1> USE DEF FileInv
<1>1. UNCHANGED <<request, used, objects, buckets, provider, unsettled, repeated, astray>>
  BY DEF Report, assignment, histories
<1>2. NoNewDocuments
  BY StepMakesNone
<1>3. ProvidersInv'
  BY <1>1, ProvidersKept
<1>4. /\ \A r \in Requests : Removing(r)' <=> Removing(r)
      /\ \A r \in Requests, f \in Docs : Comes(r, f)' <=> Comes(r, f)
      /\ \A r \in Requests : Delivered(r)' <=> Delivered(r)
      /\ \A r \in Requests, f \in Docs : DeletedBy(r, f)' <=> DeletedBy(r, f)
  BY <1>1 DEF Removing, Comes, Makes, Delivered, DeletedBy, At
<1>5. NamesInv => NamesInv'
  BY <1>1, <1>2, <1>4 DEF NamesInv, NoNewDocuments
<1>6. StoredInv => StoredInv'
  <2>1. \A f \in Files' : f \in Files /\ (HasObject(f) => HasObject(f)')
    BY <1>1, <1>2 DEF Files, NoNewDocuments, HasObject
  <2>2. Files \subseteq Docs
    BY DEF Files
  <2> QED
    BY <1>1, <1>4, <2>1, <2>2 DEF StoredInv, At, SchoolOf
<1> QED
  BY <1>1, <1>3, <1>5, <1>6 DEF HomeInv

LEMMA RepeatKeepsHome ==
    ASSUME FileInv, NEW r \in Requests, NEW again \in Requests, Repeat(r, again)
    PROVE  ProvidersInv' /\ HomeInv'
<1> USE DEF FileInv
<1> DEFINE new == [request[r] EXCEPT !.pc = "find"]
<1>1. UNCHANGED <<buckets, provider, unsettled>> /\ repeated'
      /\ request' = [request EXCEPT ![again] = new]
  BY DEF Repeat, Set, assignment
<1>2. new.pc = "find"
  BY OpAt, NextStepTyped DEF Repeat, At, Ways, TypeInv
<1>3. \A x \in Requests : request'[x] # request[x] => request'[x].pc = "find"
  BY <1>1, <1>2 DEF TypeInv, RequestsInv
<1>4. ProvidersInv'
  BY <1>1, <1>3, ProvidersKept DEF At
<1> QED
  BY <1>1, <1>4 DEF HomeInv

LEMMA StepFileInv == FileInv /\ [Next]_vars => FileInv'
<1> SUFFICES ASSUME FileInv, [Next]_vars
             PROVE  FileInv'
  OBVIOUS
<1>1. TypeInv'
  BY StepTyped DEF FileInv, ProvidersInv
<1>2. CASE UNCHANGED vars
  <2>1. UNCHANGED <<file, objects, buckets, provider, request, used, repeated, unsettled, astray>>
    BY <1>2 DEF vars, assignment, bounds, histories
  <2>2. ProvidersInv'
    BY <2>1, ProvidersKept DEF FileInv
  <2>3. NamesInv => NamesInv'
    BY <2>1 DEF NamesInv, Exists, Removing, Comes, Makes, At
  <2>4. StoredInv => StoredInv'
    BY <2>1 DEF StoredInv, Files, Exists, HasObject, DeletedBy, Delivered, At, SchoolOf
  <2> QED
    BY <1>1, <2>1, <2>2, <2>3, <2>4 DEF FileInv, HomeInv
<1>3. CASE Next
  <2>1. ProvidersInv' /\ HomeInv'
    BY <1>3, BeginKeepsHome, ContinueKeepsHome, ReportKeepsHome, RepeatKeepsHome DEF Next
  <2> QED
    BY <1>1, <2>1 DEF FileInv
<1> QED
  BY <1>2, <1>3

THEOREM FileInvariant == Spec => []FileInv
<1>1. Init => FileInv
  BY InitFileInv
<1>2. FileInv /\ [Next]_vars => FileInv'
  BY StepFileInv
<1> QED
  BY <1>1, <1>2, PTL DEF Spec

(* Documents, objects, buckets and requests keep their types, and no two   *)
(* buckets have the same name, for any schools, providers and requests.    *)
THEOREM TypeTheorem == Spec => []TypeOK
<1>1. FileInv => TypeOK
  BY TypeInvImpliesTypeOK DEF FileInv
<1> QED
  BY <1>1, FileInvariant, PTL

LEMMA HomeInvImpliesAtHome == FileInv => ObjectAtHome
<1> SUFFICES ASSUME FileInv, \A r \in Requests : At(r, "idle"), ~repeated,
                    NEW f \in Files, f \notin astray, School[file[f].creator] \notin unsettled
             PROVE  LET s == School[file[f].creator]
                    IN  <<provider[s], s, file[f].name>> \in objects
  BY DEF ObjectAtHome
<1> DEFINE s == School[file[f].creator]
<1>1. f \in Docs /\ Exists(f) /\ file[f].creator \in Users /\ file[f].name = f
  BY ExistingAreDocuments DEF Files, FileInv, TypeInv, HomeInv, NamesInv, Documents, DocumentFields
<1>2. s \in Schools \ unsettled
  BY <1>1, FileStorageAssumption
<1>3. \A r \in Requests : ~DeletedBy(r, f)
  BY DEF At, DeletedBy
<1>4. PICK p \in Providers : <<p, s, f>> \in objects
  BY <1>3 DEF FileInv, HomeInv, StoredInv, HasObject
<1>5. PICK b \in buckets, name \in Docs : <<p, s, f>> = <<b[1], b[2], name>>
  BY <1>4 DEF FileInv, TypeInv, StorageInv
<1>6. provider[s] = p
  BY <1>2, <1>5 DEF FileInv, ProvidersInv, SettledInv
<1> QED
  BY <1>1, <1>4, <1>6

(* When nothing is under way, the object of every file is in the bucket    *)
(* where downloads look for it, however many first requests of its school  *)
(* have chosen a provider at once.                                         *)
THEOREM HomeTheorem == Spec => []ObjectAtHome
<1>1. FileInv => ObjectAtHome
  BY HomeInvImpliesAtHome
<1> QED
  BY <1>1, FileInvariant, PTL

(* A blocked file is never released, by any number of reports.             *)
THEOREM BlockedTheorem == Spec => BlockedStays
<1>1. FileInv /\ [Next]_vars =>
        [\A f \in Docs : Exists(f) /\ file[f].status = "blocked" =>
             file'[f] = Missing \/ file'[f].status = "blocked"]_vars
  BY BlockedStep DEF FileInv
<1> QED
  BY <1>1, FileInvariant, PTL DEF Spec, BlockedStays
=============================================================================
