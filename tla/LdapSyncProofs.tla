--------------------------- MODULE LdapSyncProofs ---------------------------
(* Proofs about LdapSync for any directory, runs, consumers and failures.  *)
EXTENDS LdapSync, FiniteSetTheorems, TLAPS

Labels == {"findSchool", "find", "create", "update", "updateAccount", "checkCreate",
           "account", "rename", "members", "students", "teachers", "ack"}

MessageType ==
    [number : Nat, kind : Kinds, key : LdapSchools \cup People \cup LdapClasses,
     revision : Nat]
SchoolType == [id : SchoolIds, ldap : LdapSchools, revision : Nat]
UserType == [id : Nat, person : People, school : SchoolIds, revision : Nat]
ClassType ==
    [id : Nat, key : LdapClasses, school : SchoolIds, revision : Nat,
     students : SUBSET Nat, teachers : SUBSET Nat]
HandlerType ==
    [msg : MessageType, at : Consumers, pc : Labels, school : SchoolIds,
     doc : SchoolIds, members : SUBSET UserType]

(* What documents are found by stays as long as they exist.                *)
IsSchool(id, s) == \E d \in schools : d.id = id /\ d.ldap = s
IsUser(id) == \E u \in users : u.id = id
IsClass(id, key) == \E k \in classes : k.id = id /\ k.key = key

Numbered(S) ==
    /\ IsFiniteSet(S)
    /\ \A x \in S : x.id \in 1..Cardinality(S)
    /\ \A x, y \in S : x.id = y.id => x = y

(* A message names what its kind is about, and is not from the future.     *)
MessageOK(m) ==
    /\ m \in MessageType
    /\ m.kind = "syncSchool" => m.key \in LdapSchools
    /\ m.kind = "syncUser" => m.key \in People
    /\ m.kind = "syncClasses" => m.key \in LdapClasses
    /\ m.number \in 1..sent
    /\ m.revision \in 0..directory

SchoolKey(m) == IF m.kind = "syncUser" THEN PersonSchool[m.key] ELSE ClassSchool[m.key]

(* A handler has in hand what it has found: the school of its message, the *)
(* user it has created, the class, and members of this class and school.   *)
HandlerOK(h) ==
    /\ h \in HandlerType
    /\ MessageOK(h.msg)
    /\ h.msg.kind \in {"syncUser", "syncClasses"} /\ h.pc \notin {"findSchool", "ack"} =>
          IsSchool(h.school, SchoolKey(h.msg))
    /\ h.pc = "account" => IsUser(h.doc)
    /\ h.pc \in {"rename", "members", "students", "teachers"} => IsClass(h.doc, h.msg.key)
    /\ \A v \in h.members : /\ HasIdentity(v) /\ v.school = h.school
                            /\ v.person \in ClassMembers[h.msg.key]
    /\ h.pc \in {"updateAccount", "checkCreate", "account"} => h.msg.kind = "syncUser"
    /\ h.pc \in {"rename", "members", "students", "teachers"} => h.msg.kind = "syncClasses"
    /\ h.members # {} =>
          h.msg.kind = "syncClasses" /\ h.pc \in {"students", "teachers", "ack"}

SchoolsInv ==
    /\ schools \subseteq SchoolType
    /\ IsFiniteSet(schools)
    /\ \A d \in schools : d.id \in LdapSchools \cup 1..Cardinality(schools)
    /\ \A d, e \in schools : d.id = e.id => d = e
    /\ \A d \in schools : d.revision \in 0..directory

UsersInv ==
    /\ users \subseteq UserType
    /\ Numbered(users)
    /\ \A u \in users : IsSchool(u.school, PersonSchool[u.person]) /\ u.revision \in 0..directory
    /\ \A id \in accounts : IsUser(id)

ClassesInv ==
    /\ classes \subseteq ClassType
    /\ Numbered(classes)
    /\ \A k \in classes : k.revision \in 0..directory
    /\ ClassListsItsMembers

ProducerInv ==
    /\ directory \in 0..MaxRevision
    /\ phase \in [Runs -> {"schools", "users", "classes", "done"}]
    /\ asked \in [Runs -> SUBSET LdapSchools]
    /\ failed \subseteq Runs
    /\ sent \in Nat
    /\ maintenance \subseteq SchoolIds
    /\ disturbances \in 0..MaxDisturbances

QueueInv ==
    /\ \A m \in ready : MessageOK(m)
    /\ \A h \in handlers : HandlerOK(h)

IInv ==
    /\ ProducerInv
    /\ SchoolsInv
    /\ UsersInv
    /\ ClassesInv
    /\ QueueInv

-----------------------------------------------------------------------------
LEMMA NumberedType ==
    ASSUME NEW S, Numbered(S)
    PROVE  Cardinality(S) \in Nat
BY FS_CardinalityType DEF Numbered

(* A new document gets an id that none has.                                *)
LEMMA NumberedAdd ==
    ASSUME NEW S, Numbered(S), NEW x, x.id = NewId(S)
    PROVE  /\ Numbered(S \cup {x})
           /\ Cardinality(S \cup {x}) = Cardinality(S) + 1
<1>1. Cardinality(S) \in Nat /\ \A y \in S : y.id \in 1..Cardinality(S)
  BY NumberedType DEF Numbered
<1>2. x \notin S
  BY <1>1 DEF NewId
<1>3. IsFiniteSet(S \cup {x}) /\ Cardinality(S \cup {x}) = Cardinality(S) + 1
  BY <1>2, FS_AddElement DEF Numbered
<1>4. \A y \in S \cup {x} : y.id \in 1..(Cardinality(S) + 1)
  BY <1>1 DEF NewId
<1>5. \A y, z \in S \cup {x} : y.id = z.id => y = z
  BY <1>1 DEF Numbered, NewId
<1> QED
  BY <1>3, <1>4, <1>5 DEF Numbered

(* An update by id keeps the ids, and so adds and removes no document.     *)
UpdatesBy(S, T, g) ==
    /\ \A x \in S : g[x].id = x.id /\ g[x] \in T
    /\ \A y \in T : \E x \in S : y = g[x]

LEMMA UpdateById ==
    ASSUME NEW S, IsFiniteSet(S), \A x, y \in S : x.id = y.id => x = y,
           NEW T, NEW g, UpdatesBy(S, T, g)
    PROVE  /\ IsFiniteSet(T) /\ Cardinality(T) = Cardinality(S)
           /\ \A x, y \in T : x.id = y.id => x = y
<1> DEFINE f == [x \in S |-> g[x]]
<1>1. f \in [S -> T] /\ \A y \in T : \E x \in S : f[x] = y
  BY DEF UpdatesBy
<1>2. \A x, y \in S : f[x] = f[y] => x = y
  BY DEF UpdatesBy
<1> HIDE DEF f
<1>3. f \in Bijection(S, T)
  BY <1>1, <1>2 DEF Bijection, Injection, Surjection, IsInjective
<1>4. IsFiniteSet(T) /\ Cardinality(T) = Cardinality(S)
  BY <1>3, FS_Bijection DEF ExistsBijection
<1> QED
  BY <1>4 DEF UpdatesBy

LEMMA NumberedUpdate ==
    ASSUME NEW S, Numbered(S), NEW T, NEW g, UpdatesBy(S, T, g)
    PROVE  Numbered(T) /\ Cardinality(T) = Cardinality(S)
<1>1. /\ IsFiniteSet(T) /\ Cardinality(T) = Cardinality(S)
      /\ \A x, y \in T : x.id = y.id => x = y
  BY UpdateById DEF Numbered
<1> QED
  BY <1>1 DEF Numbered, UpdatesBy
-----------------------------------------------------------------------------
(* Documents never go, and keep what they are found by.                    *)
Grows ==
    /\ \A d \in schools : \E e \in schools' : e.id = d.id /\ e.ldap = d.ldap
    /\ \A u \in users : \E v \in users' : v.id = u.id /\ v.person = u.person /\ v.school = u.school
    /\ \A k \in classes : \E j \in classes' : j.id = k.id /\ j.key = k.key
    /\ directory' \in Nat /\ directory <= directory'
    /\ sent' \in Nat /\ sent <= sent'

LEMMA MessageGrows ==
    ASSUME ProducerInv, Grows, NEW m, MessageOK(m)
    PROVE  MessageOK(m)'
BY SyncAssumption DEF ProducerInv, Grows, MessageOK

LEMMA HandlerGrows ==
    ASSUME ProducerInv, Grows, NEW h, HandlerOK(h)
    PROVE  HandlerOK(h)'
<1>1. MessageOK(h.msg)'
  BY MessageGrows DEF HandlerOK
<1>2. \A id, s : IsSchool(id, s) => IsSchool(id, s)'
  BY DEF IsSchool, Grows
<1>3. \A id, key : IsClass(id, key) => IsClass(id, key)'
  BY DEF IsClass, Grows
<1>4. \A id : IsUser(id) => IsUser(id)'
  BY DEF IsUser, Grows
<1>5. \A v \in h.members : HasIdentity(v) => HasIdentity(v)'
  BY DEF HasIdentity, Grows
<1> QED
  BY <1>1, <1>2, <1>3, <1>4, <1>5 DEF HandlerOK

LEMMA KeepQueue ==
    ASSUME ProducerInv, QueueInv, Grows,
           \A m \in ready' : m \in ready \/ MessageOK(m)',
           \A g \in handlers' : g \in handlers \/ HandlerOK(g)'
    PROVE  QueueInv'
BY MessageGrows, HandlerGrows DEF QueueInv

(* What the documents of a collection owe to the others.                   *)
LEMMA KeepUsers ==
    ASSUME UsersInv, Grows, ProducerInv, users' = users, accounts' = accounts
    PROVE  UsersInv'
BY SyncAssumption DEF UsersInv, Grows, ProducerInv, IsSchool, IsUser

LEMMA ListsGrow ==
    ASSUME Grows, NEW k, NEW ids, NEW role, Lists(k, ids, role)
    PROVE  Lists(k, ids, role)'
BY DEF Lists, Grows

LEMMA KeepClasses ==
    ASSUME ClassesInv, Grows, ProducerInv, classes' = classes
    PROVE  ClassesInv'
<1>1. ClassListsItsMembers'
  BY ListsGrow DEF ClassesInv, ClassListsItsMembers
<1> QED
  BY <1>1, SyncAssumption DEF ClassesInv, Grows, ProducerInv

LEMMA KeepSchools ==
    ASSUME SchoolsInv, Grows, ProducerInv, schools' = schools
    PROVE  SchoolsInv'
BY SyncAssumption DEF SchoolsInv, Grows, ProducerInv

LEMMA SameGrows ==
    ASSUME ProducerInv, ProducerInv', UNCHANGED documents,
           directory <= directory', sent <= sent'
    PROVE  Grows
BY SyncAssumption DEF ProducerInv, Grows, documents

(* Steps that leave the documents alone.                                   *)
LEMMA KeepDocuments ==
    ASSUME IInv, ProducerInv', UNCHANGED documents,
           directory <= directory', sent <= sent',
           \A m \in ready' : m \in ready \/ MessageOK(m)',
           \A g \in handlers' : g \in handlers \/ HandlerOK(g)'
    PROVE  IInv'
<1>1. Grows
  BY SameGrows DEF IInv
<1> QED
  BY <1>1, KeepQueue, KeepUsers, KeepClasses, KeepSchools DEF IInv, documents
-----------------------------------------------------------------------------
LEMMA InitIInv == Init => IInv
<1> SUFFICES ASSUME Init
             PROVE  IInv
  OBVIOUS
<1>1. ProducerInv
  BY SyncAssumption DEF Init, ProducerInv
<1>2. SchoolsInv
  <2>1. schools = {[id |-> s, ldap |-> s, revision |-> 0] : s \in Known}
    BY DEF Init
  <2>2. IsFiniteSet(Known)
    BY SyncAssumption, FS_Subset
  <2>3. IsFiniteSet(schools)
    <3> DEFINE f == [s \in Known |-> [id |-> s, ldap |-> s, revision |-> 0]]
    <3>1. f \in Surjection(Known, schools)
      BY <2>1 DEF Surjection
    <3> QED
      BY <2>2, <3>1, FS_Surjection
  <2>4. schools \subseteq SchoolType /\ \A d \in schools : d.id \in LdapSchools
    BY <2>1, SyncAssumption DEF SchoolType, SchoolIds
  <2>5. \A d, e \in schools : d.id = e.id => d = e
    BY <2>1
  <2>6. \A d \in schools : d.revision \in 0..directory
    BY <2>1 DEF Init
  <2> QED
    BY <2>3, <2>4, <2>5, <2>6 DEF SchoolsInv
<1>3. UsersInv
  BY FS_EmptySet DEF Init, UsersInv, Numbered
<1>4. ClassesInv
  BY FS_EmptySet DEF Init, ClassesInv, Numbered, ClassListsItsMembers
<1>5. QueueInv
  BY DEF Init, QueueInv
<1> QED
  BY <1>1, <1>2, <1>3, <1>4, <1>5 DEF IInv
-----------------------------------------------------------------------------
(* The producer.                                                           *)
LEMMA SendMessages ==
    ASSUME IInv, NEW kind, NEW keys, Send(kind, keys), directory' = directory,
           \/ kind = "syncSchool" /\ keys \subseteq LdapSchools
           \/ kind = "syncUser" /\ keys \subseteq People
           \/ kind = "syncClasses" /\ keys \subseteq LdapClasses
    PROVE  /\ \A m \in ready' : m \in ready \/ MessageOK(m)'
           /\ sent' \in Nat /\ sent <= sent' /\ disturbances' \in 0..MaxDisturbances
<1>1. IsFiniteSet(keys) /\ Cardinality(keys) \in Nat
  BY SyncAssumption, FS_Subset, FS_CardinalityType
<1>2. sent \in Nat /\ directory \in Nat /\ disturbances \in 0..MaxDisturbances
  BY SyncAssumption DEF IInv, ProducerInv
<1>3. sent' \in Nat /\ sent <= sent' /\ disturbances' \in 0..MaxDisturbances
  BY <1>1, <1>2, SyncAssumption DEF Send, Disturb
<1>4. ASSUME NEW m \in ready', m \notin ready
      PROVE  MessageOK(m)'
  <2>1. PICK order \in SetToSeqs(keys) :
            /\ ready' = ready \cup {Message(sent + i, kind, order[i]) : i \in DOMAIN order}
            /\ sent' = sent + Cardinality(keys)
    BY <1>4 DEF Send
  <2>2. PICK i \in DOMAIN order : m = Message(sent + i, kind, order[i])
    BY <1>4, <2>1
  <2>3. i \in 1..Cardinality(keys) /\ order[i] \in keys
    BY <2>2 DEF SetToSeqs
  <2>4. sent + i \in 1..sent' /\ sent + i \in Nat
    BY <1>1, <1>2, <2>1, <2>3
  <2> QED
    BY <1>2, <2>2, <2>3, <2>4 DEF MessageOK, MessageType, Message, Kinds
<1> QED
  BY <1>3, <1>4

LEMMA ProduceIInv ==
    ASSUME IInv, NEW r \in Runs, Produce(r)
    PROVE  IInv'
<1>1. CASE GetSchools(r)
  <2>1. /\ \A m \in ready' : m \in ready \/ MessageOK(m)'
        /\ sent' \in Nat /\ sent <= sent' /\ disturbances' \in 0..MaxDisturbances
    BY <1>1, SendMessages DEF GetSchools
  <2>2. ProducerInv'
    BY <1>1, <2>1 DEF GetSchools, ProducerInv, IInv
  <2> QED
    BY <1>1, <2>1, <2>2, KeepDocuments DEF GetSchools, IInv, ProducerInv
<1>2. ASSUME NEW s \in LdapSchools, GetUsers(r, s)
      PROVE  IInv'
  <2>1. /\ \A m \in ready' : m \in ready \/ MessageOK(m)'
        /\ sent' \in Nat /\ sent <= sent' /\ disturbances' \in 0..MaxDisturbances
    BY <1>2, SendMessages DEF GetUsers
  <2>2. ProducerInv'
    BY <1>2, <2>1 DEF GetUsers, Answered, ProducerInv, IInv
  <2> QED
    BY <1>2, <2>1, <2>2, KeepDocuments DEF GetUsers, IInv, ProducerInv
<1>3. ASSUME NEW s \in LdapSchools, GetClasses(r, s)
      PROVE  IInv'
  <2>1. /\ \A m \in ready' : m \in ready \/ MessageOK(m)'
        /\ sent' \in Nat /\ sent <= sent' /\ disturbances' \in 0..MaxDisturbances
    BY <1>3, SendMessages DEF GetClasses
  <2>2. ProducerInv'
    BY <1>3, <2>1 DEF GetClasses, Answered, ProducerInv, IInv
  <2> QED
    BY <1>3, <2>1, <2>2, KeepDocuments DEF GetClasses, IInv, ProducerInv
<1> QED
  BY <1>1, <1>2, <1>3 DEF Produce

LEMMA SearchFailsIInv ==
    ASSUME IInv, NEW r \in Runs, NEW s \in LdapSchools, SearchFails(r, s)
    PROVE  IInv'
<1>1. ProducerInv'
  BY SyncAssumption DEF SearchFails, Disturb, IInv, ProducerInv
<1> QED
  BY <1>1, KeepDocuments DEF SearchFails, IInv, ProducerInv

LEMMA ChangeDirectoryIInv ==
    ASSUME IInv, ChangeDirectory
    PROVE  IInv'
<1>1. ProducerInv' /\ directory <= directory'
  BY SyncAssumption DEF ChangeDirectory, IInv, ProducerInv, producerVars
<1> QED
  BY <1>1, KeepDocuments DEF ChangeDirectory, IInv, ProducerInv, producerVars

LEMMA StartMaintenanceIInv ==
    ASSUME IInv, NEW d \in schools, StartMaintenance(d)
    PROVE  IInv'
<1>1. ProducerInv'
  BY SyncAssumption DEF StartMaintenance, Disturb, IInv, ProducerInv, SchoolsInv,
     SchoolType, producerVars
<1> QED
  BY <1>1, SyncAssumption, KeepDocuments DEF StartMaintenance, IInv, ProducerInv, producerVars
-----------------------------------------------------------------------------
(* The queue and the handlers, without what they do to documents.          *)
LEMMA DeliverIInv ==
    ASSUME IInv, NEW c \in Consumers, Deliver(c)
    PROVE  IInv'
<1>1. ProducerInv' /\ directory <= directory' /\ sent <= sent'
  BY SyncAssumption DEF Deliver, IInv, ProducerInv, producerVars
<1>2. PICK m \in ready : ready' = ready \ {m} /\ handlers' = handlers \cup {Handler(m, c)}
  BY DEF Deliver
<1>3. HandlerOK(Handler(m, c))
  BY DEF IInv, QueueInv, HandlerOK, Handler, HandlerType, MessageOK, Labels, SchoolIds, Nothing
<1>4. HandlerOK(Handler(m, c))'
  <2>1. Grows
    BY <1>1, SameGrows DEF Deliver, IInv
  <2> QED
    BY <1>3, <2>1, HandlerGrows DEF IInv
<1> QED
  BY <1>1, <1>2, <1>4, KeepDocuments DEF Deliver

LEMMA CrashIInv ==
    ASSUME IInv, NEW c \in Consumers, Crash(c)
    PROVE  IInv'
<1>1. ProducerInv' /\ directory <= directory' /\ sent <= sent'
  BY SyncAssumption DEF Crash, Disturb, IInv, ProducerInv, producerVars
<1>2. handlers' \subseteq handlers
  BY DEF Crash
<1>3. ASSUME NEW m \in ready', m \notin ready
      PROVE  MessageOK(m)'
  <2>1. PICK h \in handlers : m = h.msg
    BY <1>3 DEF Crash
  <2>2. MessageOK(m) /\ Grows
    BY <1>1, <2>1, SameGrows DEF Crash, IInv, QueueInv, HandlerOK
  <2> QED
    BY <2>2, MessageGrows DEF IInv
<1> QED
  BY <1>1, <1>2, <1>3, KeepDocuments DEF Crash

(* A handler goes on without a change of the documents.                    *)
LEMMA MoveIInv ==
    ASSUME IInv, NEW h \in handlers, NEW g, HandlerOK(g), Become(h, g),
           UNCHANGED documents, unchangedButDocuments
    PROVE  IInv'
<1>1. ProducerInv' /\ directory <= directory' /\ sent <= sent'
  BY SyncAssumption DEF unchangedButDocuments, IInv, ProducerInv, producerVars
<1>2. HandlerOK(g)'
  <2>1. Grows
    BY <1>1, SameGrows DEF IInv
  <2> QED
    BY <2>1, HandlerGrows DEF IInv
<1> QED
  BY <1>1, <1>2, KeepDocuments DEF Become, unchangedButDocuments

(* To acknowledge its message a handler needs nothing.                     *)
LEMMA AckHandler ==
    ASSUME NEW h, HandlerOK(h)
    PROVE  HandlerOK([h EXCEPT !.pc = "ack"])
BY DEF HandlerOK, HandlerType, Labels

LEMMA AckMessageIInv ==
    ASSUME IInv, NEW h \in handlers, AckMessage(h)
    PROVE  IInv'
<1>1. ProducerInv' /\ directory <= directory' /\ sent <= sent'
  BY SyncAssumption DEF AckMessage, unchangedButDocuments, IInv, ProducerInv, producerVars
<1> QED
  BY <1>1, KeepDocuments DEF AckMessage, unchangedButDocuments

LEMMA CommandFailsIInv ==
    ASSUME IInv, NEW h \in handlers, CommandFails(h)
    PROVE  IInv'
<1>1. ProducerInv' /\ directory <= directory' /\ sent <= sent'
  BY SyncAssumption DEF CommandFails, Disturb, IInv, ProducerInv, producerVars
<1> DEFINE g == [h EXCEPT !.pc = "ack"]
<1>2. HandlerOK(g)'
  <2>1. HandlerOK(g)
    BY AckHandler DEF IInv, QueueInv
  <2>2. Grows
    BY <1>1, SameGrows DEF CommandFails, IInv
  <2> HIDE DEF g
  <2> QED
    BY <2>1, <2>2, HandlerGrows DEF IInv
<1> QED
  BY <1>1, <1>2, KeepDocuments DEF CommandFails, Goto, Become
-----------------------------------------------------------------------------
(* The actions, one lemma for each kind of document.                       *)
LEMMA DocumentStep ==
    ASSUME IInv, NEW h \in handlers, NEW g, Become(h, g), unchangedButDocuments,
           Grows, HandlerOK(g)', SchoolsInv', UsersInv', ClassesInv'
    PROVE  IInv'
<1>1. ProducerInv'
  BY DEF IInv, ProducerInv, unchangedButDocuments, producerVars
<1>2. QueueInv'
  BY KeepQueue DEF IInv, Become, unchangedButDocuments
<1> QED
  BY <1>1, <1>2 DEF IInv

LEMMA SchoolActionIInv ==
    ASSUME IInv, NEW h \in handlers, SchoolAction(h), unchangedButDocuments
    PROVE  IInv'
<1> DEFINE m == h.msg
<1>0. /\ HandlerOK(h) /\ h \in HandlerType /\ m \in MessageType
      /\ directory \in Nat /\ sent \in Nat
      /\ directory' = directory /\ sent' = sent
  BY SyncAssumption DEF IInv, QueueInv, HandlerOK, HandlerType, ProducerInv,
     unchangedButDocuments, producerVars
<1>1. CASE /\ Running(h, "syncSchool", "findSchool")
           /\ \/ SchoolsOf(m.key) = {} /\ Goto(h, "create")
              \/ \E d \in SchoolsOf(m.key) :
                    Found(h, IF d.revision # m.revision THEN "update" ELSE "ack", d.id)
           /\ UNCHANGED documents
  <2>1. HandlerOK([h EXCEPT !.pc = "create"])
    BY <1>0, <1>1 DEF Running, HandlerOK, HandlerType, Labels
  <2>2. ASSUME NEW d \in schools, NEW label \in {"update", "ack"}
        PROVE  HandlerOK([h EXCEPT !.pc = label, !.doc = d.id])
    <3>1. d.id \in SchoolIds
      BY DEF IInv, SchoolsInv, SchoolType
    <3> QED
      BY <1>0, <1>1, <3>1 DEF Running, HandlerOK, HandlerType, Labels
  <2>3. CASE Goto(h, "create")
    BY <1>1, <2>1, <2>3, MoveIInv DEF Goto
  <2>4. ASSUME NEW d \in SchoolsOf(m.key),
               Found(h, IF d.revision # m.revision THEN "update" ELSE "ack", d.id)
        PROVE  IInv'
    <3>1. d \in schools
      BY DEF SchoolsOf
    <3> QED
      BY <1>1, <2>2, <2>4, <3>1, MoveIInv DEF Found
  <2> QED
    BY <1>1, <2>3, <2>4
<1>2. CASE /\ Running(h, "syncSchool", "create")
           /\ schools' = schools \cup
                {[id |-> NewId(schools), ldap |-> m.key, revision |-> m.revision]}
           /\ Goto(h, "ack")
           /\ UNCHANGED <<users, accounts, classes>>
  <2> DEFINE d == [id |-> NewId(schools), ldap |-> m.key, revision |-> m.revision]
  <2>1. Cardinality(schools) \in Nat
    BY FS_CardinalityType DEF IInv, SchoolsInv
  <2>2. d \in SchoolType /\ d.id = Cardinality(schools) + 1 /\ d.revision \in 0..directory
    BY <1>0, <1>2, <2>1 DEF NewId, SchoolType, SchoolIds, MessageType, MessageOK,
       HandlerOK, Running
  <2> HIDE DEF d
  <2>3. schools' = schools \cup {d}
    BY <1>2 DEF d
  <2>4. \A e \in schools : e.id # d.id
    BY <2>1, <2>2, SyncAssumption DEF IInv, SchoolsInv
  <2>5. IsFiniteSet(schools') /\ Cardinality(schools') = Cardinality(schools) + 1
    BY <2>3, <2>4, FS_AddElement DEF IInv, SchoolsInv
  <2>6. Grows
    BY <1>0, <1>2, <2>3 DEF Grows
  <2>7. SchoolsInv'
    <3>1. schools' \subseteq SchoolType
      BY <2>2, <2>3 DEF IInv, SchoolsInv
    <3>2. \A e \in schools' : e.id \in LdapSchools \cup 1..Cardinality(schools')
      BY <2>1, <2>2, <2>3, <2>5 DEF IInv, SchoolsInv
    <3>3. \A e, f \in schools' : e.id = f.id => e = f
      BY <2>3, <2>4 DEF IInv, SchoolsInv
    <3>4. \A e \in schools' : e.revision \in 0..directory'
      BY <1>0, <2>2, <2>3 DEF IInv, SchoolsInv
    <3> QED
      BY <2>5, <3>1, <3>2, <3>3, <3>4 DEF SchoolsInv
  <2>8. HandlerOK([h EXCEPT !.pc = "ack"])'
    BY <1>0, <2>6, AckHandler, HandlerGrows DEF IInv
  <2> QED
    BY <1>2, <2>6, <2>7, <2>8, DocumentStep, KeepUsers, KeepClasses DEF IInv, Goto
<1>3. CASE /\ Running(h, "syncSchool", "update")
           /\ schools' = {IF d.id = h.doc THEN [d EXCEPT !.revision = m.revision]
                                          ELSE d : d \in schools}
           /\ Goto(h, "ack")
           /\ UNCHANGED <<users, accounts, classes>>
  <2> DEFINE g == [d \in schools |-> IF d.id = h.doc THEN [d EXCEPT !.revision = m.revision]
                                                     ELSE d]
  <2>1. m.revision \in 0..directory /\ m.revision \in Nat
    BY <1>0 DEF HandlerOK, MessageOK, MessageType
  <2>2. \A d \in schools : /\ g[d].id = d.id /\ g[d].ldap = d.ldap
                            /\ g[d].revision \in 0..directory /\ g[d] \in SchoolType
    BY <2>1 DEF IInv, SchoolsInv, SchoolType
  <2>3. schools' = {g[d] : d \in schools}
    BY <1>3
  <2> HIDE DEF g
  <2>4. UpdatesBy(schools, schools', g)
    BY <2>2, <2>3 DEF UpdatesBy
  <2>5. Grows
    BY <1>0, <1>3, <2>2, <2>3 DEF Grows
  <2>6. SchoolsInv'
    <3>1. /\ IsFiniteSet(schools') /\ Cardinality(schools') = Cardinality(schools)
          /\ \A x, y \in schools' : x.id = y.id => x = y
      BY <2>4, UpdateById DEF IInv, SchoolsInv
    <3>2. schools' \subseteq SchoolType /\ \A e \in schools' : e.revision \in 0..directory'
      BY <1>0, <2>2, <2>3
    <3>3. \A e \in schools' : e.id \in LdapSchools \cup 1..Cardinality(schools')
      BY <2>2, <2>3, <3>1 DEF IInv, SchoolsInv
    <3> QED
      BY <3>1, <3>2, <3>3 DEF SchoolsInv
  <2>7. HandlerOK([h EXCEPT !.pc = "ack"])'
    BY <1>0, <2>5, AckHandler, HandlerGrows DEF IInv
  <2> QED
    BY <1>3, <2>5, <2>6, <2>7, DocumentStep, KeepUsers, KeepClasses DEF IInv, Goto
<1> QED
  BY <1>1, <1>2, <1>3 DEF SchoolAction

(* The first step of the handlers of users and classes.                    *)
LEMMA FindSchoolIInv ==
    ASSUME IInv, NEW h \in handlers, unchangedButDocuments, h.pc = "findSchool",
           h.msg.kind \in {"syncUser", "syncClasses"}, FindSchool(h, SchoolKey(h.msg))
    PROVE  IInv'
<1>0. HandlerOK(h) /\ h \in HandlerType
  BY DEF IInv, QueueInv, HandlerOK
<1>1. CASE Goto(h, "ack")
  BY <1>0, <1>1, AckHandler, MoveIInv DEF Goto, FindSchool
<1>2. ASSUME NEW d \in SchoolsOf(SchoolKey(h.msg)), NEW label \in {"ack", "find"},
             Become(h, [h EXCEPT !.school = d.id, !.pc = label])
      PROVE  IInv'
  <2>1. d \in schools /\ d.id \in SchoolIds /\ d.ldap = SchoolKey(h.msg)
    BY DEF SchoolsOf, IInv, SchoolsInv, SchoolType
  <2>2. IsSchool(d.id, SchoolKey(h.msg))
    BY <2>1 DEF IsSchool
  <2> DEFINE g == [h EXCEPT !.school = d.id, !.pc = label]
  <2>3. /\ g \in HandlerType /\ g.msg = h.msg /\ g.school = d.id /\ g.pc = label
        /\ g.members = h.members
    BY <1>0, <2>1 DEF HandlerType, Labels
  <2> HIDE DEF g
  <2>4. h.members = {}
    BY <1>0 DEF HandlerOK
  <2>5. HandlerOK(g)
    BY <1>0, <2>2, <2>3, <2>4 DEF HandlerOK
  <2> QED
    BY <1>2, <2>5, MoveIInv DEF FindSchool, g
<1> QED
  BY <1>1, <1>2 DEF FindSchool

(* A handler between the find of the school and the end keeps its school   *)
(* and may go to any label whose documents it has.                         *)
LEMMA NextHandler ==
    ASSUME NEW h, HandlerOK(h), h.pc \notin {"findSchool", "ack"}, h.members = {},
           NEW label \in Labels \ {"findSchool", "find", "students", "teachers"},
           NEW doc \in SchoolIds,
           label = "account" => IsUser(doc),
           label \in {"rename", "members"} =>
              h.msg.kind = "syncClasses" /\ IsClass(doc, h.msg.key),
           label \in {"updateAccount", "checkCreate", "account"} => h.msg.kind = "syncUser"
    PROVE  HandlerOK([h EXCEPT !.pc = label, !.doc = doc])
<1> DEFINE g == [h EXCEPT !.pc = label, !.doc = doc]
<1>1. /\ g \in HandlerType /\ g.msg = h.msg /\ g.school = h.school /\ g.pc = label
      /\ g.doc = doc /\ g.members = {}
  BY DEF HandlerOK, HandlerType
<1> HIDE DEF g
<1>2. HandlerOK(g)
  BY <1>1 DEF HandlerOK
<1> QED
  BY <1>2 DEF g

LEMMA SameDoc ==
    ASSUME NEW h, HandlerOK(h), NEW label
    PROVE  /\ [h EXCEPT !.pc = label] = [h EXCEPT !.pc = label, !.doc = h.doc]
           /\ h.doc \in SchoolIds
BY DEF HandlerOK, HandlerType

LEMMA HandlerFacts ==
    ASSUME IInv, NEW h \in handlers, unchangedButDocuments
    PROVE  /\ HandlerOK(h) /\ MessageOK(h.msg)
           /\ h.msg.revision \in 0..directory /\ h.msg.revision \in Nat
           /\ directory \in Nat /\ sent \in Nat
           /\ directory' = directory /\ sent' = sent
           /\ h.pc \notin {"students", "teachers", "ack"} => h.members = {}
           /\ h.school \in SchoolIds /\ h.doc \in SchoolIds
BY SyncAssumption DEF IInv, QueueInv, HandlerOK, HandlerType, MessageOK, MessageType,
   ProducerInv, unchangedButDocuments, producerVars
-----------------------------------------------------------------------------
LEMMA UserFindIInv ==
    ASSUME IInv, NEW h \in handlers, unchangedButDocuments, Running(h, "syncUser", "find"),
           \/ Goto(h, "checkCreate")
           \/ \E u \in users, label \in {"update", "ack"} : Found(h, label, u.id),
           UNCHANGED documents
    PROVE  IInv'
<1>1. /\ HandlerOK(h) /\ h.members = {} /\ h.doc \in SchoolIds
      /\ h.pc = "find" /\ h.msg.kind = "syncUser"
  BY HandlerFacts DEF Running
<1>2. CASE Goto(h, "checkCreate")
  <2>1. HandlerOK([h EXCEPT !.pc = "checkCreate", !.doc = h.doc])
    BY <1>1, NextHandler DEF Labels
  <2> QED
    BY <1>1, <1>2, <2>1, SameDoc, MoveIInv DEF Goto
<1>3. ASSUME NEW u \in users, NEW label \in {"update", "ack"}, Found(h, label, u.id)
      PROVE  IInv'
  <2>1. u.id \in SchoolIds
    BY DEF IInv, UsersInv, UserType, SchoolIds
  <2>2. HandlerOK([h EXCEPT !.pc = label, !.doc = u.id])
    BY <1>1, <2>1, NextHandler DEF Labels
  <2> QED
    BY <1>3, <2>2, MoveIInv DEF Found
<1> QED
  BY <1>2, <1>3

LEMMA UserUpdateIInv ==
    ASSUME IInv, NEW h \in handlers, unchangedButDocuments, Running(h, "syncUser", "update"),
           users' = {IF u.id = h.doc THEN [u EXCEPT !.revision = h.msg.revision]
                                     ELSE u : u \in users},
           Goto(h, "updateAccount"), UNCHANGED <<schools, accounts, classes>>
    PROVE  IInv'
<1> DEFINE g == [u \in users |-> IF u.id = h.doc THEN [u EXCEPT !.revision = h.msg.revision]
                                                 ELSE u]
<1>1. /\ HandlerOK(h) /\ h.members = {} /\ h.doc \in SchoolIds
      /\ h.pc = "update" /\ h.msg.kind = "syncUser"
      /\ h.msg.revision \in 0..directory /\ h.msg.revision \in Nat
      /\ directory \in Nat /\ sent \in Nat /\ directory' = directory /\ sent' = sent
  BY HandlerFacts DEF Running
<1>2. \A u \in users : /\ g[u].id = u.id /\ g[u].person = u.person /\ g[u].school = u.school
                       /\ g[u].revision \in 0..directory /\ g[u] \in UserType
  BY <1>1 DEF IInv, UsersInv, UserType
<1>3. users' = {g[u] : u \in users}
  OBVIOUS
<1> HIDE DEF g
<1>4. Grows
  BY <1>1, <1>2, <1>3 DEF Grows
<1>5. UsersInv'
  <2>1. UpdatesBy(users, users', g)
    BY <1>2, <1>3 DEF UpdatesBy
  <2>2. Numbered(users')
    BY <2>1, NumberedUpdate DEF IInv, UsersInv
  <2>3. users' \subseteq UserType
    BY <1>2, <1>3
  <2>4. \A v \in users' : IsSchool(v.school, PersonSchool[v.person])'
                          /\ v.revision \in 0..directory'
    BY <1>1, <1>2, <1>3 DEF IInv, UsersInv, IsSchool
  <2>5. \A n \in accounts' : IsUser(n)'
    BY <1>2, <1>3 DEF IInv, UsersInv, IsUser
  <2> QED
    BY <2>2, <2>3, <2>4, <2>5 DEF UsersInv
<1>6. HandlerOK([h EXCEPT !.pc = "updateAccount"])'
  <2>1. HandlerOK([h EXCEPT !.pc = "updateAccount", !.doc = h.doc])
    BY <1>1, NextHandler DEF Labels
  <2>2. HandlerOK([h EXCEPT !.pc = "updateAccount"])
    BY <1>1, <2>1, SameDoc
  <2> QED
    BY <1>4, <2>2, HandlerGrows DEF IInv
<1> QED
  BY <1>4, <1>5, <1>6, DocumentStep, KeepSchools, KeepClasses DEF IInv, Goto

LEMMA UserCreateIInv ==
    ASSUME IInv, NEW h \in handlers, unchangedButDocuments, Running(h, "syncUser", "create"),
           users' = users \cup {[id |-> NewId(users), person |-> h.msg.key,
                                 school |-> h.school, revision |-> h.msg.revision]},
           Found(h, "account", NewId(users)), UNCHANGED <<schools, accounts, classes>>
    PROVE  IInv'
<1> DEFINE new == [id |-> NewId(users), person |-> h.msg.key,
                   school |-> h.school, revision |-> h.msg.revision]
<1>1. /\ HandlerOK(h) /\ h.members = {} /\ h.school \in SchoolIds
      /\ h.pc = "create" /\ h.msg.kind = "syncUser"
      /\ h.msg.revision \in 0..directory /\ h.msg.revision \in Nat
      /\ directory \in Nat /\ sent \in Nat /\ directory' = directory /\ sent' = sent
  BY HandlerFacts DEF Running
<1>2. PICK id \in Nat : id = NewId(users)
  BY NumberedType DEF IInv, UsersInv, NewId
<1>3. h.msg.key \in People
  BY <1>1 DEF HandlerOK, MessageOK
<1>4. IsSchool(h.school, PersonSchool[h.msg.key])
  BY <1>1 DEF HandlerOK, SchoolKey
<1>5. /\ new \in UserType /\ new.id = NewId(users) /\ new.person = h.msg.key
      /\ new.school = h.school /\ new.revision = h.msg.revision
  BY <1>1, <1>2, <1>3 DEF UserType
<1>6. users' = users \cup {new}
  OBVIOUS
<1> HIDE DEF new
<1>7. Grows
  BY <1>1, <1>6 DEF Grows
<1>8. UsersInv'
  <2>1. Numbered(users')
    BY <1>5, <1>6, NumberedAdd DEF IInv, UsersInv
  <2>2. users' \subseteq UserType
    BY <1>5, <1>6 DEF IInv, UsersInv
  <2>3. \A v \in users' : IsSchool(v.school, PersonSchool[v.person])'
                          /\ v.revision \in 0..directory'
    BY <1>1, <1>4, <1>5, <1>6 DEF IInv, UsersInv, IsSchool
  <2>4. \A n \in accounts' : IsUser(n)'
    BY <1>6 DEF IInv, UsersInv, IsUser
  <2> QED
    BY <2>1, <2>2, <2>3, <2>4 DEF UsersInv
<1>9. HandlerOK([h EXCEPT !.pc = "account", !.doc = id])'
  <2> DEFINE g == [h EXCEPT !.pc = "account", !.doc = id]
  <2>1. /\ g \in HandlerType /\ g.msg = h.msg /\ g.school = h.school /\ g.pc = "account"
        /\ g.doc = id /\ g.members = {}
    BY <1>1, <1>2 DEF HandlerOK, HandlerType, Labels, SchoolIds
  <2> HIDE DEF g
  <2>2. IsUser(g.doc)'
    BY <1>2, <1>5, <1>6, <2>1 DEF IsUser
  <2>3. HandlerOK(h)'
    BY <1>1, <1>7, HandlerGrows DEF IInv
  <2>4. HandlerOK(g)'
    BY <1>1, <2>1, <2>2, <2>3 DEF HandlerOK
  <2> QED
    BY <2>4 DEF g
<1> QED
  BY <1>2, <1>7, <1>8, <1>9, DocumentStep, KeepSchools, KeepClasses DEF IInv, Found

LEMMA UserAccountIInv ==
    ASSUME IInv, NEW h \in handlers, unchangedButDocuments, Running(h, "syncUser", "account"),
           accounts' = accounts \cup {h.doc}, Goto(h, "ack"),
           UNCHANGED <<schools, users, classes>>
    PROVE  IInv'
<1>1. /\ HandlerOK(h) /\ h.pc = "account" /\ IsUser(h.doc)
      /\ directory \in Nat /\ sent \in Nat /\ directory' = directory /\ sent' = sent
  BY HandlerFacts DEF Running, HandlerOK
<1>2. Grows
  BY <1>1 DEF Grows
<1>3. UsersInv'
  BY <1>1 DEF IInv, UsersInv, IsUser, IsSchool
<1>4. HandlerOK([h EXCEPT !.pc = "ack"])'
  BY <1>1, <1>2, AckHandler, HandlerGrows DEF IInv
<1> QED
  BY <1>2, <1>3, <1>4, DocumentStep, KeepSchools, KeepClasses DEF IInv, Goto

LEMMA UserActionIInv ==
    ASSUME IInv, NEW h \in handlers, UserAction(h), unchangedButDocuments
    PROVE  IInv'
<1> DEFINE m == h.msg
<1>0. HandlerOK(h) /\ (h.pc \notin {"students", "teachers", "ack"} => h.members = {})
  BY HandlerFacts
<1>1. CASE Running(h, "syncUser", "findSchool") /\ FindSchool(h, PersonSchool[m.key])
  BY <1>1, FindSchoolIInv DEF Running, SchoolKey
<1>2. CASE /\ Running(h, "syncUser", "find")
           /\ \/ /\ LdapUsersOf(m.key, h.school) = {}
                 /\ Goto(h, "checkCreate")
              \/ \E u \in LdapUsersOf(m.key, h.school) :
                    Found(h, IF u.revision # m.revision THEN "update" ELSE "ack", u.id)
           /\ UNCHANGED documents
  <2>1. CASE Goto(h, "checkCreate")
    BY <1>2, <2>1, UserFindIInv
  <2>2. ASSUME NEW u \in LdapUsersOf(m.key, h.school),
               Found(h, IF u.revision # m.revision THEN "update" ELSE "ack", u.id)
        PROVE  IInv'
    <3>1. u \in users /\ \E label \in {"update", "ack"} : Found(h, label, u.id)
      BY <2>2 DEF LdapUsersOf
    <3> QED
      BY <1>2, <3>1, UserFindIInv
  <2> QED
    BY <1>2, <2>1, <2>2
<1>3. CASE /\ Running(h, "syncUser", "update")
           /\ users' = {IF u.id = h.doc THEN [u EXCEPT !.revision = m.revision]
                                        ELSE u : u \in users}
           /\ Goto(h, "updateAccount")
           /\ UNCHANGED <<schools, accounts, classes>>
  BY <1>3, UserUpdateIInv
<1>4. CASE /\ Running(h, "syncUser", "updateAccount")
           /\ Goto(h, "ack")
           /\ UNCHANGED documents
  BY <1>0, <1>4, AckHandler, MoveIInv DEF Goto
<1>5. CASE /\ Running(h, "syncUser", "checkCreate")
           /\ Goto(h, IF UsersWith(PersonEmail[m.key]) = {} THEN "create" ELSE "ack")
           /\ UNCHANGED documents
  <2>1. h.members = {} /\ h.pc = "checkCreate" /\ h.doc \in SchoolIds
    BY <1>0, <1>5, SameDoc DEF Running
  <2>2. HandlerOK([h EXCEPT !.pc = "create", !.doc = h.doc])
    BY <1>0, <2>1, NextHandler DEF Labels
  <2>3. HandlerOK([h EXCEPT !.pc = "create"]) /\ HandlerOK([h EXCEPT !.pc = "ack"])
    BY <1>0, <2>2, SameDoc, AckHandler
  <2>4. Goto(h, "create") \/ Goto(h, "ack")
    BY <1>5
  <2> QED
    BY <1>5, <2>3, <2>4, MoveIInv DEF Goto
<1>6. CASE /\ Running(h, "syncUser", "create")
           /\ users' = users \cup {[id |-> NewId(users), person |-> m.key,
                                    school |-> h.school, revision |-> m.revision]}
           /\ Found(h, "account", NewId(users))
           /\ UNCHANGED <<schools, accounts, classes>>
  BY <1>6, UserCreateIInv
<1>7. CASE /\ Running(h, "syncUser", "account")
           /\ accounts' = accounts \cup {h.doc}
           /\ Goto(h, "ack")
           /\ UNCHANGED <<schools, users, classes>>
  BY <1>7, UserAccountIInv
<1> QED
  BY <1>1, <1>2, <1>3, <1>4, <1>5, <1>6, <1>7 DEF UserAction
-----------------------------------------------------------------------------
(* The ids of documents in hand are of users that the class may list.      *)
LEMMA MembersAreListed ==
    ASSUME IInv, NEW h \in handlers, h.msg.kind = "syncClasses",
           h.pc \in {"students", "teachers"}, NEW k, k.key = h.msg.key, NEW role
    PROVE  Lists(k, Ids(h.members, role), role)
<1>1. IsSchool(h.school, ClassSchool[k.key])
  BY DEF IInv, QueueInv, HandlerOK, SchoolKey
<1>2. SUFFICES ASSUME NEW v \in h.members, PersonRole[v.person] = role
               PROVE  \E u \in users : /\ u.id = v.id /\ PersonRole[u.person] = role
                                       /\ u.person \in ClassMembers[k.key]
                                       /\ PersonSchool[u.person] = ClassSchool[k.key]
  BY DEF Lists, Ids
<1>3. HasIdentity(v) /\ v.school = h.school /\ v.person \in ClassMembers[k.key]
  BY DEF IInv, QueueInv, HandlerOK
<1>4. PICK u \in users : u.id = v.id /\ u.person = v.person /\ u.school = h.school
  BY <1>3 DEF HasIdentity
<1>5. PersonSchool[u.person] = ClassSchool[k.key]
  BY <1>1, <1>4 DEF IInv, UsersInv, SchoolsInv, IsSchool
<1> QED
  BY <1>2, <1>3, <1>4, <1>5

LEMMA MembersAreIds ==
    ASSUME IInv, NEW h \in handlers, NEW role
    PROVE  Ids(h.members, role) \subseteq Nat
<1>1. h.members \subseteq UserType
  BY DEF IInv, QueueInv, HandlerOK, HandlerType
<1> QED
  BY <1>1 DEF Ids, UserType

(* An update of a class by one of its handlers.                            *)
LEMMA ClassUpdateIInv ==
    ASSUME IInv, NEW h \in handlers, unchangedButDocuments, NEW g,
           \A k \in classes :
              /\ g[k].id = k.id /\ g[k].key = k.key /\ g[k] \in ClassType
              /\ g[k].revision \in 0..directory
              /\ Lists(g[k], g[k].students, "student") /\ Lists(g[k], g[k].teachers, "teacher"),
           classes' = {g[k] : k \in classes},
           NEW new, HandlerOK(new), Become(h, new),
           UNCHANGED <<schools, users, accounts>>
    PROVE  IInv'
<1>1. directory' = directory /\ sent' = sent /\ directory \in Nat /\ sent \in Nat
  BY HandlerFacts
<1>2. Grows
  BY <1>1 DEF Grows
<1>3. ClassesInv'
  <2>1. UpdatesBy(classes, classes', g)
    BY DEF UpdatesBy
  <2>2. Numbered(classes')
    BY <2>1, NumberedUpdate DEF IInv, ClassesInv
  <2>3. ClassListsItsMembers'
    <3>1. \A k \in classes' : Lists(k, k.students, "student") /\ Lists(k, k.teachers, "teacher")
      OBVIOUS
    <3> QED
      BY <1>2, <3>1, ListsGrow DEF ClassListsItsMembers
  <2>4. classes' \subseteq ClassType /\ \A k \in classes' : k.revision \in 0..directory'
    BY <1>1
  <2> QED
    BY <2>2, <2>3, <2>4 DEF ClassesInv
<1>4. HandlerOK(new)'
  BY <1>2, HandlerGrows DEF IInv
<1> QED
  BY <1>2, <1>3, <1>4, DocumentStep, KeepSchools, KeepUsers DEF IInv

LEMMA ClassFindIInv ==
    ASSUME IInv, NEW h \in handlers, unchangedButDocuments, Running(h, "syncClasses", "find"),
           \/ Goto(h, "create")
           \/ \E k \in classes, label \in {"rename", "members"} :
                 k.key = h.msg.key /\ Found(h, label, k.id),
           UNCHANGED documents
    PROVE  IInv'
<1>1. /\ HandlerOK(h) /\ h.members = {} /\ h.doc \in SchoolIds
      /\ h.pc = "find" /\ h.msg.kind = "syncClasses"
  BY HandlerFacts DEF Running
<1>2. CASE Goto(h, "create")
  <2>1. HandlerOK([h EXCEPT !.pc = "create", !.doc = h.doc])
    BY <1>1, NextHandler DEF Labels
  <2> QED
    BY <1>1, <1>2, <2>1, SameDoc, MoveIInv DEF Goto
<1>3. ASSUME NEW k \in classes, NEW label \in {"rename", "members"},
             k.key = h.msg.key, Found(h, label, k.id)
      PROVE  IInv'
  <2>1. k.id \in SchoolIds /\ IsClass(k.id, h.msg.key)
    BY <1>3 DEF IInv, ClassesInv, ClassType, SchoolIds, IsClass
  <2>2. HandlerOK([h EXCEPT !.pc = label, !.doc = k.id])
    BY <1>1, <2>1, NextHandler DEF Labels
  <2> QED
    BY <1>3, <2>2, MoveIInv DEF Found
<1> QED
  BY <1>2, <1>3

LEMMA ClassRenameIInv ==
    ASSUME IInv, NEW h \in handlers, unchangedButDocuments, Running(h, "syncClasses", "rename"),
           UpdateClass(h.doc, "revision", h.msg.revision), Goto(h, "members"),
           UNCHANGED <<schools, users, accounts>>
    PROVE  IInv'
<1> DEFINE g == [k \in classes |->
                   IF k.id = h.doc THEN [k EXCEPT !["revision"] = h.msg.revision] ELSE k]
<1>1. /\ HandlerOK(h) /\ h.members = {} /\ h.pc = "rename" /\ h.msg.kind = "syncClasses"
      /\ h.msg.revision \in 0..directory /\ h.msg.revision \in Nat
  BY HandlerFacts DEF Running
<1>2. \A k \in classes :
         /\ g[k].id = k.id /\ g[k].key = k.key /\ g[k] \in ClassType
         /\ g[k].revision \in 0..directory
         /\ g[k].students = k.students /\ g[k].teachers = k.teachers
  BY <1>1 DEF IInv, ClassesInv, ClassType
<1>3. classes' = {g[k] : k \in classes}
  BY DEF UpdateClass
<1> HIDE DEF g
<1>4. \A k \in classes :
         Lists(g[k], g[k].students, "student") /\ Lists(g[k], g[k].teachers, "teacher")
  BY <1>2 DEF IInv, ClassesInv, ClassListsItsMembers, Lists
<1>5. HandlerOK([h EXCEPT !.pc = "members"])
  <2>1. IsClass(h.doc, h.msg.key) /\ h.doc \in SchoolIds
    BY <1>1, SameDoc DEF HandlerOK
  <2>2. HandlerOK([h EXCEPT !.pc = "members", !.doc = h.doc])
    BY <1>1, <2>1, NextHandler DEF Labels
  <2> QED
    BY <1>1, <2>2, SameDoc
<1> QED
  BY <1>2, <1>3, <1>4, <1>5, ClassUpdateIInv DEF Goto

LEMMA ClassCreateIInv ==
    ASSUME IInv, NEW h \in handlers, unchangedButDocuments, Running(h, "syncClasses", "create"),
           classes' = classes \cup
              {[id |-> NewId(classes), key |-> h.msg.key, school |-> h.school,
                revision |-> h.msg.revision, students |-> {}, teachers |-> {}]},
           Found(h, "members", NewId(classes)), UNCHANGED <<schools, users, accounts>>
    PROVE  IInv'
<1> DEFINE new == [id |-> NewId(classes), key |-> h.msg.key, school |-> h.school,
                   revision |-> h.msg.revision, students |-> {}, teachers |-> {}]
<1>1. /\ HandlerOK(h) /\ h.members = {} /\ h.school \in SchoolIds
      /\ h.pc = "create" /\ h.msg.kind = "syncClasses"
      /\ h.msg.revision \in 0..directory /\ h.msg.revision \in Nat
      /\ directory \in Nat /\ sent \in Nat /\ directory' = directory /\ sent' = sent
  BY HandlerFacts DEF Running
<1>2. PICK id \in Nat : id = NewId(classes)
  BY NumberedType DEF IInv, ClassesInv, NewId
<1>3. h.msg.key \in LdapClasses
  BY <1>1 DEF HandlerOK, MessageOK
<1>4. /\ new \in ClassType /\ new.id = NewId(classes) /\ new.key = h.msg.key
      /\ new.revision = h.msg.revision /\ new.students = {} /\ new.teachers = {}
  BY <1>1, <1>2, <1>3 DEF ClassType
<1>5. classes' = classes \cup {new}
  OBVIOUS
<1> HIDE DEF new
<1>6. Grows
  BY <1>1, <1>5 DEF Grows
<1>7. ClassesInv'
  <2>1. Numbered(classes')
    BY <1>4, <1>5, NumberedAdd DEF IInv, ClassesInv
  <2>2. classes' \subseteq ClassType /\ \A k \in classes' : k.revision \in 0..directory'
    BY <1>1, <1>4, <1>5 DEF IInv, ClassesInv
  <2>3. \A k \in classes' : Lists(k, k.students, "student") /\ Lists(k, k.teachers, "teacher")
    BY <1>4, <1>5 DEF IInv, ClassesInv, ClassListsItsMembers, Lists
  <2>4. ClassListsItsMembers'
    BY <1>6, <2>3, ListsGrow DEF ClassListsItsMembers
  <2> QED
    BY <2>1, <2>2, <2>4 DEF ClassesInv
<1>8. HandlerOK([h EXCEPT !.pc = "members", !.doc = id])'
  <2> DEFINE g == [h EXCEPT !.pc = "members", !.doc = id]
  <2>1. /\ g \in HandlerType /\ g.msg = h.msg /\ g.school = h.school /\ g.pc = "members"
        /\ g.doc = id /\ g.members = {}
    BY <1>1, <1>2 DEF HandlerOK, HandlerType, Labels, SchoolIds
  <2> HIDE DEF g
  <2>2. IsClass(g.doc, h.msg.key)'
    BY <1>2, <1>4, <1>5, <2>1 DEF IsClass
  <2>3. HandlerOK(h)'
    BY <1>1, <1>6, HandlerGrows DEF IInv
  <2>4. HandlerOK(g)'
    BY <1>1, <2>1, <2>2, <2>3 DEF HandlerOK
  <2> QED
    BY <2>4 DEF g
<1> QED
  BY <1>2, <1>6, <1>7, <1>8, DocumentStep, KeepSchools, KeepUsers DEF IInv, Found

LEMMA ClassMembersIInv ==
    ASSUME IInv, NEW h \in handlers, unchangedButDocuments, Running(h, "syncClasses", "members"),
           Become(h, [h EXCEPT !.pc = "students",
                         !.members = {u \in users : u.school = h.school
                                         /\ u.person \in ClassMembers[h.msg.key]}]),
           UNCHANGED documents
    PROVE  IInv'
<1>1. HandlerOK(h) /\ h.pc = "members" /\ h.msg.kind = "syncClasses"
  BY HandlerFacts DEF Running
<1>2. PICK found : found = {u \in users : u.school = h.school
                                         /\ u.person \in ClassMembers[h.msg.key]}
  OBVIOUS
<1>3. found \subseteq UserType /\ \A v \in found : HasIdentity(v)
  BY <1>2 DEF IInv, UsersInv, HasIdentity
<1> DEFINE g == [h EXCEPT !.pc = "students", !.members = found]
<1>4. /\ g \in HandlerType /\ g.msg = h.msg /\ g.school = h.school /\ g.pc = "students"
      /\ g.doc = h.doc /\ g.members = found
  BY <1>1, <1>3 DEF HandlerOK, HandlerType, Labels
<1>5. Become(h, g)
  BY <1>2
<1> HIDE DEF g
<1>6. HandlerOK(g)
  BY <1>1, <1>2, <1>3, <1>4 DEF HandlerOK
<1> QED
  BY <1>5, <1>6, MoveIInv

(* Students and teachers are written by two updates of the same form.      *)
LEMMA ClassWriteIInv ==
    ASSUME IInv, NEW h \in handlers, unchangedButDocuments,
           \/ /\ Running(h, "syncClasses", "students")
              /\ UpdateClass(h.doc, "students", Ids(h.members, "student"))
              /\ Goto(h, "teachers")
           \/ /\ Running(h, "syncClasses", "teachers")
              /\ UpdateClass(h.doc, "teachers", Ids(h.members, "teacher"))
              /\ Goto(h, "ack"),
           UNCHANGED <<schools, users, accounts>>
    PROVE  IInv'
<1> DEFINE field == IF h.pc = "students" THEN "students" ELSE "teachers"
           role == IF h.pc = "students" THEN "student" ELSE "teacher"
           label == IF h.pc = "students" THEN "teachers" ELSE "ack"
           value == Ids(h.members, role)
           g == [k \in classes |-> IF k.id = h.doc THEN [k EXCEPT ![field] = value] ELSE k]
<1>1. /\ HandlerOK(h) /\ h.pc \in {"students", "teachers"} /\ h.msg.kind = "syncClasses"
      /\ IsClass(h.doc, h.msg.key)
  BY HandlerFacts DEF Running, HandlerOK
<1>2. UpdateClass(h.doc, field, value) /\ Goto(h, label)
  BY DEF Running
<1>3. value \subseteq Nat
  BY MembersAreIds
<1>4. \A k \in classes : k.id = h.doc => k.key = h.msg.key
  BY <1>1 DEF IInv, ClassesInv, Numbered, IsClass
<1>5. ASSUME NEW k \in classes
      PROVE  /\ g[k].id = k.id /\ g[k].key = k.key /\ g[k] \in ClassType
             /\ g[k].revision \in 0..directory
             /\ g[k].students = k.students \/ (k.id = h.doc /\ role = "student"
                                                /\ g[k].students = value)
             /\ g[k].teachers = k.teachers \/ (k.id = h.doc /\ role = "teacher"
                                                /\ g[k].teachers = value)
  <2> HIDE DEF value
  <2>1. k \in ClassType /\ k.revision \in 0..directory
    BY DEF IInv, ClassesInv
  <2> QED
    BY <1>3, <2>1 DEF ClassType
<1>6. classes' = {g[k] : k \in classes}
  BY <1>2 DEF UpdateClass
<1>7. ASSUME NEW k \in classes, k.id = h.doc
      PROVE  Lists(k, value, role)
  BY <1>1, <1>4, <1>7, MembersAreListed
<1>8. \A k \in classes :
         Lists(g[k], g[k].students, "student") /\ Lists(g[k], g[k].teachers, "teacher")
  <2> HIDE DEF g, role, value
  <2>1. SUFFICES ASSUME NEW k \in classes
                 PROVE  Lists(g[k], g[k].students, "student")
                        /\ Lists(g[k], g[k].teachers, "teacher")
    OBVIOUS
  <2>2. Lists(k, k.students, "student") /\ Lists(k, k.teachers, "teacher")
    BY DEF IInv, ClassesInv, ClassListsItsMembers
  <2>3. \A ids, r : Lists(k, ids, r) => Lists(g[k], ids, r)
    BY <1>5 DEF Lists
  <2> QED
    BY <1>5, <1>7, <2>2, <2>3
<1>9. HandlerOK([h EXCEPT !.pc = label])
  <2>1. CASE label = "ack"
    BY <1>1, <2>1, AckHandler
  <2>2. CASE label = "teachers"
    <3> DEFINE new == [h EXCEPT !.pc = "teachers"]
    <3>1. /\ new \in HandlerType /\ new.msg = h.msg /\ new.school = h.school
          /\ new.pc = "teachers" /\ new.doc = h.doc /\ new.members = h.members
      BY <1>1 DEF HandlerOK, HandlerType, Labels
    <3> HIDE DEF new
    <3>2. HandlerOK(new)
      BY <1>1, <3>1 DEF HandlerOK
    <3> QED
      BY <2>2, <3>2 DEF new
  <2> QED
    BY <2>1, <2>2
<1> HIDE DEF g, label
<1> QED
  BY <1>2, <1>5, <1>6, <1>8, <1>9, ClassUpdateIInv DEF Goto

LEMMA ClassActionIInv ==
    ASSUME IInv, NEW h \in handlers, ClassAction(h), unchangedButDocuments
    PROVE  IInv'
<1> DEFINE m == h.msg
           same == {k \in classes : k.key = m.key}
<1>1. CASE Running(h, "syncClasses", "findSchool") /\ FindSchool(h, ClassSchool[m.key])
  BY <1>1, FindSchoolIInv DEF Running, SchoolKey
<1>2. CASE /\ Running(h, "syncClasses", "find")
           /\ \/ same = {} /\ Goto(h, "create")
              \/ \E k \in same :
                    Found(h, IF k.revision # m.revision THEN "rename" ELSE "members", k.id)
           /\ UNCHANGED documents
  <2>1. CASE Goto(h, "create")
    BY <1>2, <2>1, ClassFindIInv
  <2>2. ASSUME NEW k \in same,
               Found(h, IF k.revision # m.revision THEN "rename" ELSE "members", k.id)
        PROVE  IInv'
    <3>1. \E label \in {"rename", "members"} : k.key = h.msg.key /\ Found(h, label, k.id)
      BY <2>2
    <3> QED
      BY <1>2, <3>1, ClassFindIInv
  <2> QED
    BY <1>2, <2>1, <2>2
<1>3. CASE /\ Running(h, "syncClasses", "rename")
           /\ UpdateClass(h.doc, "revision", m.revision)
           /\ Goto(h, "members")
           /\ UNCHANGED <<schools, users, accounts>>
  BY <1>3, ClassRenameIInv
<1>4. CASE /\ Running(h, "syncClasses", "create")
           /\ classes' = classes \cup
                {[id |-> NewId(classes), key |-> m.key, school |-> h.school,
                  revision |-> m.revision, students |-> {}, teachers |-> {}]}
           /\ Found(h, "members", NewId(classes))
           /\ UNCHANGED <<schools, users, accounts>>
  BY <1>4, ClassCreateIInv
<1>5. CASE /\ Running(h, "syncClasses", "members")
           /\ Become(h, [h EXCEPT !.pc = "students",
                            !.members = {u \in users : u.school = h.school
                                            /\ u.person \in ClassMembers[m.key]}])
           /\ UNCHANGED documents
  BY <1>5, ClassMembersIInv
<1>6. CASE /\ Running(h, "syncClasses", "students")
           /\ UpdateClass(h.doc, "students", Ids(h.members, "student"))
           /\ Goto(h, "teachers")
           /\ UNCHANGED <<schools, users, accounts>>
  BY <1>6, ClassWriteIInv
<1>7. CASE /\ Running(h, "syncClasses", "teachers")
           /\ UpdateClass(h.doc, "teachers", Ids(h.members, "teacher"))
           /\ Goto(h, "ack")
           /\ UNCHANGED <<schools, users, accounts>>
  BY <1>7, ClassWriteIInv
<1> QED
  BY <1>1, <1>2, <1>3, <1>4, <1>5, <1>6, <1>7 DEF ClassAction
-----------------------------------------------------------------------------
LEMMA StutterIInv ==
    ASSUME IInv, UNCHANGED vars
    PROVE  IInv'
<1>1. ProducerInv' /\ directory <= directory' /\ sent <= sent'
  BY SyncAssumption DEF IInv, ProducerInv, vars, producerVars
<1> QED
  BY <1>1, KeepDocuments DEF vars

LEMMA StepIInv == IInv /\ [Next]_vars => IInv'
<1> SUFFICES ASSUME IInv, [Next]_vars
             PROVE  IInv'
  OBVIOUS
<1>1. ASSUME NEW r \in Runs, Produce(r) \/ \E s \in LdapSchools : SearchFails(r, s)
      PROVE  IInv'
  BY <1>1, ProduceIInv, SearchFailsIInv
<1>2. ASSUME NEW c \in Consumers, Consume(c)
      PROVE  IInv'
  BY <1>2, DeliverIInv, AckMessageIInv, SchoolActionIInv, UserActionIInv, ClassActionIInv
     DEF Consume, Execute
<1>3. ASSUME NEW c \in Consumers, Crash(c)
      PROVE  IInv'
  BY <1>3, CrashIInv
<1>4. ASSUME NEW h \in handlers, CommandFails(h)
      PROVE  IInv'
  BY <1>4, CommandFailsIInv
<1>5. CASE ChangeDirectory
  BY <1>5, ChangeDirectoryIInv
<1>6. ASSUME NEW d \in schools, StartMaintenance(d)
      PROVE  IInv'
  BY <1>6, StartMaintenanceIInv
<1>7. CASE Finished \/ UNCHANGED vars
  BY <1>7, StutterIInv DEF Finished
<1> QED
  BY <1>1, <1>2, <1>3, <1>4, <1>5, <1>6, <1>7 DEF Next

(* The inductive invariant: the documents of each collection are numbered, *)
(* and a handler's documents are what it looked for, whoever ran between.  *)
THEOREM IInvTheorem == Spec => []IInv
<1>1. Init => IInv
  BY InitIInv
<1>2. IInv /\ [Next]_vars => IInv'
  BY StepIInv
<1> QED
  BY <1>1, <1>2, PTL DEF Spec

LEMMA IInvImplies == IInv => TypeOK /\ ClassListsItsMembers
<1> SUFFICES ASSUME IInv
             PROVE  TypeOK /\ ClassListsItsMembers
  OBVIOUS
<1>1. \A m \in ready \cup {h.msg : h \in handlers} : MessageOK(m)
  BY DEF IInv, QueueInv, HandlerOK
<1>2. \A h \in handlers : h.at \in Consumers /\ \A v \in h.members : HasIdentity(v)
  BY DEF IInv, QueueInv, HandlerOK, HandlerType
<1>3. \A d \in schools :
         d.id \in SchoolIds /\ d.ldap \in LdapSchools /\ d.revision \in 0..directory
  BY DEF IInv, SchoolsInv, SchoolType
<1>4. \A u \in users :
         /\ u.id \in 1..Cardinality(users) /\ u.person \in People /\ u.school \in SchoolIds
         /\ u.revision \in 0..directory
  BY DEF IInv, UsersInv, UserType, Numbered
<1>5. accounts \subseteq 1..Cardinality(users)
  BY <1>4 DEF IInv, UsersInv, IsUser
<1>6. \A k \in classes :
         /\ k.id \in 1..Cardinality(classes) /\ k.key \in LdapClasses /\ k.school \in SchoolIds
         /\ k.revision \in 0..directory
  BY DEF IInv, ClassesInv, ClassType, Numbered
<1>7. \A k \in classes : k.students \cup k.teachers \subseteq 1..Cardinality(users)
  BY <1>4 DEF IInv, ClassesInv, ClassListsItsMembers, Lists
<1>8. ClassListsItsMembers
  BY DEF IInv, ClassesInv
<1>9. TypeOK
  BY <1>1, <1>2, <1>3, <1>4, <1>5, <1>6, <1>7 DEF IInv, ProducerInv, TypeOK, MessageOK, MessageType
<1> QED
  BY <1>8, <1>9

(* Every message, handler and document is of its kind, and what one        *)
(* document names by its id exists, for any failures and crashes.          *)
THEOREM TypeTheorem == Spec => []TypeOK
BY IInvTheorem, IInvImplies, PTL

(* A class lists only its members and of their roles, though students and  *)
(* teachers are written from users read before the other handlers ran.     *)
THEOREM MembersTheorem == Spec => []ClassListsItsMembers
BY IInvTheorem, IInvImplies, PTL
-----------------------------------------------------------------------------
(* What a step of a handler may do to schools and users.                   *)
HandlerStep(h, g) ==
    /\ Become(h, g) /\ g.msg = h.msg
    /\ h.msg.kind = "syncSchool" /\ g.pc = "create" => SchoolsOf(h.msg.key) = {}
    /\ h.msg.kind = "syncUser" /\ g.pc = "checkCreate" =>
          LdapUsersOf(h.msg.key, h.school) = {} /\ h.pc = "find"
    /\ h.msg.kind = "syncUser" /\ g.pc = "create" =>
          UsersWith(PersonEmail[h.msg.key]) = {} /\ h.pc = "checkCreate"

KeepsSchools == \A e \in schools' : \E d \in schools : e.id = d.id /\ e.ldap = d.ldap

AddsSchool(h, g) ==
    /\ h.msg.kind = "syncSchool" /\ h.pc = "create" /\ g.pc = "ack"
    /\ \E d : schools' = schools \cup {d} /\ d.ldap = h.msg.key

KeepsUsers(h) ==
    \A v \in users' : \E u \in users :
        /\ v.id = u.id /\ v.person = u.person
        /\ v.revision = u.revision \/ v.revision = h.msg.revision

AddsUser(h, g) ==
    /\ h.msg.kind = "syncUser" /\ h.pc = "create" /\ g.pc = "account"
    /\ \E u : /\ users' = users \cup {u}
              /\ u.id = NewId(users) /\ u.person = h.msg.key /\ u.revision = h.msg.revision

TakesStep(h) ==
    \E g : /\ HandlerStep(h, g)
           /\ KeepsSchools \/ AddsSchool(h, g)
           /\ KeepsUsers(h) \/ AddsUser(h, g)

LEMMA MoveTakesStep ==
    ASSUME NEW h, HandlerOK(h), NEW g, HandlerStep(h, g), UNCHANGED <<schools, users>>
    PROVE  TakesStep(h)
<1>1. KeepsSchools /\ KeepsUsers(h)
  BY DEF KeepsSchools, KeepsUsers
<1> QED
  BY <1>1 DEF TakesStep

LEMMA GotoTakesStep ==
    ASSUME NEW h, HandlerOK(h), NEW label \in Labels \ {"create", "checkCreate"},
           Goto(h, label), UNCHANGED <<schools, users>>
    PROVE  TakesStep(h)
<1> DEFINE g == [h EXCEPT !.pc = label]
<1>1. g.msg = h.msg /\ g.pc = label
  BY DEF HandlerOK, HandlerType
<1>2. HandlerStep(h, g)
  BY <1>1 DEF HandlerStep, Goto
<1> QED
  BY <1>2, MoveTakesStep

LEMMA FoundTakesStep ==
    ASSUME NEW h, HandlerOK(h), NEW label \in Labels \ {"create", "checkCreate"}, NEW doc,
           Found(h, label, doc), UNCHANGED <<schools, users>>
    PROVE  TakesStep(h)
<1> DEFINE g == [h EXCEPT !.pc = label, !.doc = doc]
<1>1. g.msg = h.msg /\ g.pc = label
  BY DEF HandlerOK, HandlerType
<1>2. HandlerStep(h, g)
  BY <1>1 DEF HandlerStep, Found
<1> QED
  BY <1>2, MoveTakesStep

LEMMA FindSchoolTakesStep ==
    ASSUME NEW h, HandlerOK(h), NEW key, FindSchool(h, key)
    PROVE  TakesStep(h)
<1>1. CASE Goto(h, "ack")
  BY <1>1, GotoTakesStep DEF FindSchool, Labels, documents
<1>2. ASSUME NEW d \in schools, NEW label \in {"ack", "find"},
             Become(h, [h EXCEPT !.school = d.id, !.pc = label])
      PROVE  TakesStep(h)
  <2> DEFINE g == [h EXCEPT !.school = d.id, !.pc = label]
  <2>1. g.msg = h.msg /\ g.pc = label
    BY DEF HandlerOK, HandlerType
  <2>2. HandlerStep(h, g)
    BY <1>2, <2>1 DEF HandlerStep
  <2> QED
    BY <2>2, MoveTakesStep DEF FindSchool, documents
<1> QED
  BY <1>1, <1>2 DEF FindSchool, SchoolsOf

LEMMA SchoolTakesStep ==
    ASSUME IInv, NEW h \in handlers, SchoolAction(h)
    PROVE  TakesStep(h)
<1> DEFINE m == h.msg
<1>0. HandlerOK(h) /\ h \in HandlerType
  BY DEF IInv, QueueInv, HandlerOK
<1>1. CASE /\ Running(h, "syncSchool", "findSchool")
           /\ \/ SchoolsOf(m.key) = {} /\ Goto(h, "create")
              \/ \E d \in SchoolsOf(m.key) :
                    Found(h, IF d.revision # m.revision THEN "update" ELSE "ack", d.id)
           /\ UNCHANGED documents
  <2>1. CASE SchoolsOf(m.key) = {} /\ Goto(h, "create")
    <3> DEFINE g == [h EXCEPT !.pc = "create"]
    <3>1. g.msg = h.msg /\ g.pc = "create"
      BY <1>0 DEF HandlerType
    <3>2. HandlerStep(h, g)
      BY <1>1, <2>1, <3>1 DEF HandlerStep, Goto, Running
    <3> QED
      BY <1>0, <1>1, <3>2, MoveTakesStep DEF documents
  <2>2. ASSUME NEW d \in SchoolsOf(m.key), NEW label \in {"update", "ack"}, Found(h, label, d.id)
        PROVE  TakesStep(h)
    BY <1>0, <1>1, <2>2, FoundTakesStep DEF documents, Labels
  <2> QED
    BY <1>1, <2>1, <2>2
<1>2. CASE /\ Running(h, "syncSchool", "create")
           /\ schools' = schools \cup
                {[id |-> NewId(schools), ldap |-> m.key, revision |-> m.revision]}
           /\ Goto(h, "ack")
           /\ UNCHANGED <<users, accounts, classes>>
  <2> DEFINE g == [h EXCEPT !.pc = "ack"]
  <2>1. g.msg = h.msg /\ g.pc = "ack"
    BY <1>0 DEF HandlerType
  <2>2. HandlerStep(h, g)
    BY <1>2, <2>1 DEF HandlerStep, Goto
  <2>3. AddsSchool(h, g)
    <3> DEFINE d == [id |-> NewId(schools), ldap |-> m.key, revision |-> m.revision]
    <3>1. schools' = schools \cup {d} /\ d.ldap = m.key
      BY <1>2
    <3> HIDE DEF d
    <3> QED
      BY <1>2, <2>1, <3>1 DEF AddsSchool, Running
  <2>4. KeepsUsers(h)
    BY <1>2 DEF KeepsUsers
  <2> QED
    BY <2>2, <2>3, <2>4 DEF TakesStep
<1>3. CASE /\ Running(h, "syncSchool", "update")
           /\ schools' = {IF d.id = h.doc THEN [d EXCEPT !.revision = m.revision]
                                          ELSE d : d \in schools}
           /\ Goto(h, "ack")
           /\ UNCHANGED <<users, accounts, classes>>
  <2> DEFINE g == [h EXCEPT !.pc = "ack"]
  <2>1. g.msg = h.msg /\ g.pc = "ack"
    BY <1>0 DEF HandlerType
  <2>2. HandlerStep(h, g)
    BY <1>3, <2>1 DEF HandlerStep, Goto
  <2>3. KeepsSchools
    BY <1>3 DEF KeepsSchools, IInv, SchoolsInv, SchoolType
  <2>4. KeepsUsers(h)
    BY <1>3 DEF KeepsUsers
  <2> QED
    BY <2>2, <2>3, <2>4 DEF TakesStep
<1> QED
  BY <1>1, <1>2, <1>3 DEF SchoolAction

LEMMA UserTakesStep ==
    ASSUME IInv, NEW h \in handlers, UserAction(h)
    PROVE  TakesStep(h)
<1> DEFINE m == h.msg
<1>0. HandlerOK(h) /\ h \in HandlerType
  BY DEF IInv, QueueInv, HandlerOK
<1>1. CASE Running(h, "syncUser", "findSchool") /\ FindSchool(h, PersonSchool[m.key])
  BY <1>0, <1>1, FindSchoolTakesStep
<1>2. CASE /\ Running(h, "syncUser", "find")
           /\ \/ /\ LdapUsersOf(m.key, h.school) = {}
                 /\ Goto(h, "checkCreate")
              \/ \E u \in LdapUsersOf(m.key, h.school) :
                    Found(h, IF u.revision # m.revision THEN "update" ELSE "ack", u.id)
           /\ UNCHANGED documents
  <2>1. CASE LdapUsersOf(m.key, h.school) = {} /\ Goto(h, "checkCreate")
    <3> DEFINE g == [h EXCEPT !.pc = "checkCreate"]
    <3>1. g.msg = h.msg /\ g.pc = "checkCreate"
      BY <1>0 DEF HandlerType
    <3>2. HandlerStep(h, g)
      BY <1>2, <2>1, <3>1 DEF HandlerStep, Goto, Running
    <3> QED
      BY <1>0, <1>2, <3>2, MoveTakesStep DEF documents
  <2>2. ASSUME NEW u \in LdapUsersOf(m.key, h.school), NEW label \in {"update", "ack"},
               Found(h, label, u.id)
        PROVE  TakesStep(h)
    BY <1>0, <1>2, <2>2, FoundTakesStep DEF documents, Labels
  <2> QED
    BY <1>2, <2>1, <2>2
<1>3. CASE /\ Running(h, "syncUser", "update")
           /\ users' = {IF u.id = h.doc THEN [u EXCEPT !.revision = m.revision]
                                        ELSE u : u \in users}
           /\ Goto(h, "updateAccount")
           /\ UNCHANGED <<schools, accounts, classes>>
  <2> DEFINE g == [h EXCEPT !.pc = "updateAccount"]
  <2>1. g.msg = h.msg /\ g.pc = "updateAccount"
    BY <1>0 DEF HandlerType
  <2>2. HandlerStep(h, g)
    BY <1>3, <2>1 DEF HandlerStep, Goto
  <2>3. KeepsUsers(h)
    BY <1>3 DEF KeepsUsers, IInv, UsersInv, UserType
  <2>4. KeepsSchools
    BY <1>3 DEF KeepsSchools
  <2> QED
    BY <2>2, <2>3, <2>4 DEF TakesStep
<1>4. CASE /\ Running(h, "syncUser", "updateAccount")
           /\ Goto(h, "ack")
           /\ UNCHANGED documents
  BY <1>0, <1>4, GotoTakesStep DEF Labels, documents
<1>5. CASE /\ Running(h, "syncUser", "checkCreate")
           /\ Goto(h, IF UsersWith(PersonEmail[m.key]) = {} THEN "create" ELSE "ack")
           /\ UNCHANGED documents
  <2>1. CASE UsersWith(PersonEmail[m.key]) = {}
    <3> DEFINE g == [h EXCEPT !.pc = "create"]
    <3>1. g.msg = h.msg /\ g.pc = "create"
      BY <1>0 DEF HandlerType
    <3>2. HandlerStep(h, g)
      BY <1>5, <2>1, <3>1 DEF HandlerStep, Goto, Running
    <3> QED
      BY <1>0, <1>5, <3>2, MoveTakesStep DEF documents
  <2>2. CASE UsersWith(PersonEmail[m.key]) # {}
    BY <1>0, <1>5, <2>2, GotoTakesStep DEF Labels, documents
  <2> QED
    BY <2>1, <2>2
<1>6. CASE /\ Running(h, "syncUser", "create")
           /\ users' = users \cup {[id |-> NewId(users), person |-> m.key,
                                    school |-> h.school, revision |-> m.revision]}
           /\ Found(h, "account", NewId(users))
           /\ UNCHANGED <<schools, accounts, classes>>
  <2> DEFINE g == [h EXCEPT !.pc = "account", !.doc = NewId(users)]
  <2>1. g.msg = h.msg /\ g.pc = "account"
    BY <1>0 DEF HandlerType
  <2>2. HandlerStep(h, g)
    BY <1>6, <2>1 DEF HandlerStep, Found
  <2>3. AddsUser(h, g)
    <3> DEFINE u == [id |-> NewId(users), person |-> m.key,
                     school |-> h.school, revision |-> m.revision]
    <3>1. /\ users' = users \cup {u}
          /\ u.id = NewId(users) /\ u.person = m.key /\ u.revision = m.revision
      BY <1>6
    <3> HIDE DEF u
    <3> QED
      BY <1>6, <2>1, <3>1 DEF AddsUser, Running
  <2>4. KeepsSchools
    BY <1>6 DEF KeepsSchools
  <2> QED
    BY <2>2, <2>3, <2>4 DEF TakesStep
<1>7. CASE /\ Running(h, "syncUser", "account")
           /\ accounts' = accounts \cup {h.doc}
           /\ Goto(h, "ack")
           /\ UNCHANGED <<schools, users, classes>>
  BY <1>0, <1>7, GotoTakesStep DEF Labels
<1> QED
  BY <1>1, <1>2, <1>3, <1>4, <1>5, <1>6, <1>7 DEF UserAction

LEMMA ClassTakesStep ==
    ASSUME IInv, NEW h \in handlers, ClassAction(h)
    PROVE  TakesStep(h)
<1> DEFINE m == h.msg
           same == {k \in classes : k.key = m.key}
<1>0. HandlerOK(h) /\ h \in HandlerType
  BY DEF IInv, QueueInv, HandlerOK
<1>1. CASE Running(h, "syncClasses", "findSchool") /\ FindSchool(h, ClassSchool[m.key])
  BY <1>0, <1>1, FindSchoolTakesStep
<1>2. CASE /\ Running(h, "syncClasses", "find")
           /\ \/ same = {} /\ Goto(h, "create")
              \/ \E k \in same :
                    Found(h, IF k.revision # m.revision THEN "rename" ELSE "members", k.id)
           /\ UNCHANGED documents
  <2>1. CASE Goto(h, "create")
    <3> DEFINE g == [h EXCEPT !.pc = "create"]
    <3>1. g.msg = h.msg /\ g.pc = "create"
      BY <1>0 DEF HandlerType
    <3>2. HandlerStep(h, g)
      BY <1>2, <2>1, <3>1 DEF HandlerStep, Goto, Running
    <3> QED
      BY <1>0, <1>2, <3>2, MoveTakesStep DEF documents
  <2>2. ASSUME NEW k \in same, NEW label \in {"rename", "members"}, Found(h, label, k.id)
        PROVE  TakesStep(h)
    BY <1>0, <1>2, <2>2, FoundTakesStep DEF documents, Labels
  <2> QED
    BY <1>2, <2>1, <2>2
<1>3. CASE Goto(h, "members") /\ UNCHANGED <<schools, users, accounts>>
  BY <1>0, <1>3, GotoTakesStep DEF Labels
<1>4. CASE Found(h, "members", NewId(classes)) /\ UNCHANGED <<schools, users, accounts>>
  BY <1>0, <1>4, FoundTakesStep DEF Labels
<1>5. CASE /\ Become(h, [h EXCEPT !.pc = "students",
                            !.members = {u \in users : u.school = h.school
                                            /\ u.person \in ClassMembers[m.key]}])
           /\ UNCHANGED documents
  <2>1. PICK found : found = {u \in users : u.school = h.school
                                         /\ u.person \in ClassMembers[m.key]}
    OBVIOUS
  <2> DEFINE g == [h EXCEPT !.pc = "students", !.members = found]
  <2>2. g.msg = h.msg /\ g.pc = "students"
    BY <1>0 DEF HandlerType
  <2>3. Become(h, g)
    BY <1>5, <2>1
  <2>4. HandlerStep(h, g)
    BY <2>2, <2>3 DEF HandlerStep
  <2> QED
    BY <1>0, <1>5, <2>4, MoveTakesStep DEF documents
<1>6. CASE Goto(h, "teachers") /\ UNCHANGED <<schools, users, accounts>>
  BY <1>0, <1>6, GotoTakesStep DEF Labels
<1>7. CASE Goto(h, "ack") /\ UNCHANGED <<schools, users, accounts>>
  BY <1>0, <1>7, GotoTakesStep DEF Labels
<1> QED
  BY <1>1, <1>2, <1>3, <1>4, <1>5, <1>6, <1>7 DEF ClassAction

(* So Next, as far as the queue and the users are concerned.               *)
LEMMA NextSteps ==
    ASSUME IInv, Next
    PROVE  \/ \E r \in Runs : Produce(r) \/ \E s \in LdapSchools : SearchFails(r, s)
           \/ \E c \in Consumers : Deliver(c) \/ Crash(c)
           \/ \E h \in handlers : AckMessage(h)
           \/ \E h \in handlers :
                 TakesStep(h) /\ UNCHANGED <<directory, producerVars, ready>>
           \/ UNCHANGED <<producerVars, ready, handlers, documents>>
<1>1. ASSUME NEW h \in handlers, Execute(h)
      PROVE  TakesStep(h) /\ UNCHANGED <<directory, producerVars, ready>>
  BY <1>1, SchoolTakesStep, UserTakesStep, ClassTakesStep DEF Execute, unchangedButDocuments
<1>2. ASSUME NEW h \in handlers, CommandFails(h)
      PROVE  TakesStep(h) /\ UNCHANGED <<directory, producerVars, ready>>
  BY <1>2, GotoTakesStep DEF CommandFails, Labels, documents, IInv, QueueInv
<1>3. ChangeDirectory => UNCHANGED <<producerVars, ready, handlers, documents>>
  BY DEF ChangeDirectory
<1>4. ASSUME NEW d \in schools, StartMaintenance(d)
      PROVE  UNCHANGED <<producerVars, ready, handlers, documents>>
  BY <1>4 DEF StartMaintenance
<1>5. Finished => UNCHANGED <<producerVars, ready, handlers, documents>>
  BY DEF Finished, vars
<1> QED
  BY <1>1, <1>2, <1>3, <1>4, <1>5 DEF Next, Consume
-----------------------------------------------------------------------------
(* The messages of a burst come after all others, from the directory as it *)
(* is, one for each key.                                                   *)
LEMMA NewMessages ==
    ASSUME IInv, NEW kind, NEW keys, Send(kind, keys)
    PROVE  /\ ready \subseteq ready'
           /\ \A m \in ready' : \/ m \in ready
                                \/ /\ m.number > sent /\ m.revision = directory
                                   /\ m.kind = kind /\ m.key \in keys
           /\ \A m, n \in ready' : m \in ready \/ n \in ready \/ m.key # n.key \/ m = n
<1>1. CASE UNCHANGED ready
  BY <1>1
<1>2. ASSUME NEW order \in SetToSeqs(keys),
             ready' = ready \cup {Message(sent + i, kind, order[i]) : i \in DOMAIN order}
      PROVE  /\ ready \subseteq ready'
             /\ \A m \in ready' : \/ m \in ready
                                  \/ /\ m.number > sent /\ m.revision = directory
                                     /\ m.kind = kind /\ m.key \in keys
             /\ \A m, n \in ready' : m \in ready \/ n \in ready \/ m.key # n.key \/ m = n
  <2>1. /\ DOMAIN order = 1..Cardinality(keys)
        /\ \A i \in DOMAIN order : order[i] \in keys
        /\ \A i, j \in DOMAIN order : order[i] = order[j] => i = j
    BY DEF SetToSeqs, IsInjective
  <2>2. sent \in Nat
    BY DEF IInv, ProducerInv
  <2> DEFINE msg(i) == Message(sent + i, kind, order[i])
  <2>3. \A i \in DOMAIN order : /\ msg(i).number > sent /\ msg(i).revision = directory
                                /\ msg(i).kind = kind /\ msg(i).key = order[i]
    BY <2>1, <2>2 DEF Message
  <2>4. ready' = ready \cup {msg(i) : i \in DOMAIN order}
    BY <1>2
  <2> HIDE DEF msg
  <2> QED
    BY <2>1, <2>3, <2>4
<1> QED
  BY <1>1, <1>2 DEF Send

LEMMA ProduceSends ==
    ASSUME IInv, NEW r \in Runs, Produce(r)
    PROVE  /\ handlers' = handlers /\ UNCHANGED documents
           /\ ready \subseteq ready'
           /\ \A m \in ready' : m \in ready \/ (m.number > sent /\ m.revision = directory)
BY NewMessages DEF Produce, GetSchools, GetUsers, GetClasses
-----------------------------------------------------------------------------
(* A single consumer that takes one message at a time.                     *)
SoleConsumer == Prefetch = 1 /\ \E c : Consumers = {c}

Pending == ready \cup {h.msg : h \in handlers}

OneAtATime == \A g, h \in handlers : g = h

(* What has been checked about an email stays true until it is used.       *)
EmailInv ==
    /\ OneUserPerEmail
    /\ \A h \in handlers : h.msg.kind = "syncUser" /\ h.pc = "create" =>
          UsersWith(PersonEmail[h.msg.key]) = {}

(* Messages are handled in the order of the directory's revisions, and no  *)
(* user is ahead of a message that is still to be handled.                 *)
OrderInv ==
    /\ \A m, n \in Pending : m.number <= n.number => m.revision <= n.revision
    /\ \A h \in handlers, m \in ready : h.msg.number <= m.number
    /\ \A u \in users, m \in Pending : u.revision <= m.revision

SequentialInv == OneAtATime /\ EmailInv /\ OrderInv

KeepsRevisions == \A u \in users, v \in users' : u.id = v.id => v.revision >= u.revision

(* The numbers that are compared.                                          *)
LEMMA PendingTypes ==
    ASSUME IInv
    PROVE  /\ \A m \in Pending : m.number \in Nat /\ m.revision \in Nat
                                 /\ m.number <= sent /\ m.revision <= directory
           /\ \A u \in users : u.revision \in Nat /\ u.revision <= directory /\ u.id \in Nat
           /\ sent \in Nat /\ directory \in Nat
<1>1. \A m \in Pending : MessageOK(m)
  BY DEF IInv, QueueInv, HandlerOK, Pending
<1>2. sent \in Nat /\ directory \in Nat
  BY SyncAssumption DEF IInv, ProducerInv
<1>3. \A u \in users : u.revision \in 0..directory /\ u \in UserType
  BY DEF IInv, UsersInv
<1> QED
  BY <1>1, <1>2, <1>3 DEF MessageOK, MessageType, UserType

LEMMA SameUsersKeepRevisions ==
    ASSUME IInv, UNCHANGED users
    PROVE  KeepsRevisions
<1>1. \A u, v \in users : u.id = v.id => u = v
  BY DEF IInv, UsersInv, Numbered
<1>2. \A u \in users : u.revision \in Nat
  BY PendingTypes
<1> QED
  BY <1>1, <1>2 DEF KeepsRevisions

(* Steps that leave the users alone and let no handler start a creation.   *)
LEMMA SameUsersEmail ==
    ASSUME EmailInv, UNCHANGED users, handlers' \subseteq handlers
    PROVE  EmailInv'
BY DEF EmailInv, OneUserPerEmail, UsersWith

LEMMA ProduceSequential ==
    ASSUME IInv, IInv', SequentialInv, NEW r \in Runs, Produce(r)
    PROVE  SequentialInv' /\ KeepsRevisions
<1>1. /\ handlers' = handlers /\ users' = users /\ ready \subseteq ready'
      /\ \A m \in ready' : m \in ready \/ (m.number > sent /\ m.revision = directory)
  BY ProduceSends DEF documents
<1>2. /\ \A m \in Pending' : m \in Pending \/ (m.number > sent /\ m.revision = directory)
      /\ \A m \in Pending' : m.number \in Nat /\ m.revision \in Nat
  BY <1>1, PendingTypes DEF Pending, IInv, QueueInv, HandlerOK, MessageOK, MessageType
<1>3. OrderInv'
  <2>1. \A m, n \in Pending' : m.number <= n.number => m.revision <= n.revision
    BY <1>2, PendingTypes DEF SequentialInv, OrderInv
  <2>2. \A h \in handlers', m \in ready' : h.msg.number <= m.number
    <3>1. \A h \in handlers : h.msg \in Pending
      BY DEF Pending
    <3>2. \A m \in ready' : m.number \in Nat
      BY <1>2 DEF Pending
    <3> QED
      BY <1>1, <3>1, <3>2, PendingTypes DEF SequentialInv, OrderInv
  <2>3. \A u \in users', m \in Pending' : u.revision <= m.revision
    BY <1>1, <1>2, PendingTypes DEF SequentialInv, OrderInv
  <2> QED
    BY <2>1, <2>2, <2>3 DEF OrderInv
<1> QED
  BY <1>1, <1>3, SameUsersEmail, SameUsersKeepRevisions DEF SequentialInv, OneAtATime

LEMMA DeliverSequential ==
    ASSUME IInv, SequentialInv, SoleConsumer, NEW c \in Consumers, Deliver(c)
    PROVE  SequentialInv' /\ KeepsRevisions
<1>1. handlers = {}
  <2>1. SUFFICES ASSUME NEW h \in handlers
                 PROVE  FALSE
    OBVIOUS
  <2>2. {g \in handlers : g.at = c} = {h}
    BY DEF SequentialInv, OneAtATime, SoleConsumer, IInv, QueueInv, HandlerOK, HandlerType
  <2>3. Cardinality({h}) = 1
    BY FS_Singleton
  <2>4. Cardinality({g \in handlers : g.at = c}) < 1
    BY DEF Deliver, SoleConsumer
  <2>5. Cardinality({h}) < 1
    BY <2>2, <2>4, Zenon
  <2> QED
    BY <2>3, <2>5
<1>2. PICK m \in ready : /\ \A other \in ready : m.number <= other.number
                         /\ ready' = ready \ {m} /\ handlers' = {Handler(m, c)}
  BY <1>1 DEF Deliver
<1>3. users' = users /\ Handler(m, c).msg = m /\ Handler(m, c).pc = "findSchool"
  BY DEF Deliver, documents, Handler
<1>4. Pending' \subseteq Pending
  BY <1>2, <1>3 DEF Pending
<1>5. OrderInv'
  <2>1. \A h \in handlers', n \in ready' : h.msg.number <= n.number
    BY <1>2, <1>3
  <2> QED
    BY <1>3, <1>4, <2>1 DEF OrderInv, SequentialInv
<1>6. EmailInv'
  BY <1>2, <1>3 DEF SequentialInv, EmailInv, OneUserPerEmail, UsersWith
<1>7. OneAtATime'
  BY <1>2 DEF OneAtATime
<1> QED
  BY <1>3, <1>5, <1>6, <1>7, SameUsersKeepRevisions DEF SequentialInv

(* Messages leave, or go back to the queue when the consumer dies.         *)
LEMMA LeaveSequential ==
    ASSUME IInv, SequentialInv, UNCHANGED users,
           \/ \E h \in handlers : AckMessage(h)
           \/ SoleConsumer /\ \E c \in Consumers : Crash(c)
           \/ UNCHANGED <<ready, handlers>>
    PROVE  SequentialInv' /\ KeepsRevisions
<1>1. handlers' \subseteq handlers
  BY DEF AckMessage, Crash
<1>2. Pending' \subseteq Pending
  BY DEF AckMessage, Crash, Pending, unchangedButDocuments
<1>3. handlers' = {} \/ ready' \subseteq ready
  <2>1. ASSUME NEW c \in Consumers, Crash(c), SoleConsumer
        PROVE  handlers' = {}
    BY <2>1 DEF Crash, SoleConsumer, IInv, QueueInv, HandlerOK, HandlerType
  <2> QED
    BY <2>1 DEF AckMessage, unchangedButDocuments
<1>4. OrderInv'
  BY <1>1, <1>2, <1>3 DEF SequentialInv, OrderInv
<1> QED
  BY <1>1, <1>4, SameUsersEmail, SameUsersKeepRevisions DEF SequentialInv, OneAtATime

LEMMA HandlerSequential ==
    ASSUME IInv, IInv', SequentialInv, NEW h \in handlers, TakesStep(h),
           UNCHANGED <<directory, producerVars, ready>>
    PROVE  SequentialInv' /\ KeepsRevisions
<1>1. PICK g : HandlerStep(h, g) /\ (KeepsUsers(h) \/ AddsUser(h, g))
  BY DEF TakesStep
<1>2. handlers' = {g} /\ g.msg = h.msg
  BY <1>1 DEF HandlerStep, Become, SequentialInv, OneAtATime
<1>3. Pending' = Pending /\ h.msg \in Pending
  BY <1>2 DEF Pending, SequentialInv, OneAtATime
<1>4. \A m \in Pending : h.msg.number <= m.number
  BY PendingTypes DEF Pending, SequentialInv, OneAtATime, OrderInv
<1>5. \A m \in Pending : h.msg.revision <= m.revision
  BY <1>3, <1>4 DEF SequentialInv, OrderInv
<1>6. \A u \in users : u.revision <= h.msg.revision
  BY <1>3 DEF SequentialInv, OrderInv
<1>7. \A v \in users' : \/ \E u \in users : v.revision = u.revision
                        \/ v.revision = h.msg.revision
  BY <1>1 DEF KeepsUsers, AddsUser
<1>8. OrderInv'
  <2>1. \A u \in users', m \in Pending' : u.revision <= m.revision
    BY <1>3, <1>5, <1>7 DEF SequentialInv, OrderInv
  <2>2. \A m, n \in Pending' : m.number <= n.number => m.revision <= n.revision
    BY <1>3 DEF SequentialInv, OrderInv
  <2>3. \A f \in handlers', m \in ready' : f.msg.number <= m.number
    BY <1>2 DEF SequentialInv, OrderInv
  <2> QED
    BY <2>1, <2>2, <2>3 DEF OrderInv
<1>9. EmailInv' /\ KeepsRevisions
  <2>1. CASE KeepsUsers(h)
    <3>1. \A u, v \in users' : u.id = v.id => u = v
      BY DEF IInv, UsersInv, Numbered
    <3>2. OneUserPerEmail'
      BY <2>1, <3>1 DEF KeepsUsers, SequentialInv, EmailInv, OneUserPerEmail
    <3>3. ASSUME g.msg.kind = "syncUser", g.pc = "create"
          PROVE  (UsersWith(PersonEmail[g.msg.key]) = {})'
      BY <1>1, <1>2, <2>1, <3>3 DEF HandlerStep, KeepsUsers, UsersWith
    <3>4. EmailInv'
      BY <1>2, <3>2, <3>3 DEF EmailInv
    <3>5. KeepsRevisions
      <4>1. SUFFICES ASSUME NEW u \in users, NEW v \in users', u.id = v.id
                     PROVE  v.revision >= u.revision
        BY DEF KeepsRevisions
      <4>2. PICK w \in users : /\ v.id = w.id
                               /\ v.revision = w.revision \/ v.revision = h.msg.revision
        BY <2>1 DEF KeepsUsers
      <4>3. w = u
        BY <4>1, <4>2 DEF IInv, UsersInv, Numbered
      <4>4. u.revision \in Nat /\ h.msg.revision \in Nat /\ u.revision <= h.msg.revision
        BY <1>3, <1>6, PendingTypes
      <4> QED
        BY <4>2, <4>3, <4>4
    <3> QED
      BY <3>4, <3>5
  <2>2. CASE AddsUser(h, g)
    <3>1. PICK new : /\ users' = users \cup {new}
                     /\ new.id = NewId(users) /\ new.person = h.msg.key
      BY <2>2 DEF AddsUser
    <3>2. \A u \in users : PersonEmail[u.person] # PersonEmail[new.person]
      BY <2>2, <3>1 DEF AddsUser, SequentialInv, EmailInv, UsersWith
    <3>3. OneUserPerEmail'
      BY <3>1, <3>2 DEF SequentialInv, EmailInv, OneUserPerEmail
    <3>4. EmailInv'
      BY <1>2, <2>2, <3>3 DEF EmailInv, AddsUser
    <3>5. \A u \in users : u.id # new.id
      BY <3>1, NumberedType DEF IInv, UsersInv, Numbered, NewId
    <3>6. \A u, v \in users : u.id = v.id => u = v
      BY DEF IInv, UsersInv, Numbered
    <3>7. KeepsRevisions
      BY <3>1, <3>5, <3>6, PendingTypes DEF KeepsRevisions
    <3> QED
      BY <3>4, <3>7
  <2> QED
    BY <1>1, <2>1, <2>2
<1> QED
  BY <1>2, <1>8, <1>9 DEF SequentialInv, OneAtATime

LEMMA StepSequential ==
    ASSUME SoleConsumer, IInv, IInv', SequentialInv, [Next]_vars
    PROVE  SequentialInv' /\ KeepsRevisions
<1>1. CASE UNCHANGED vars
  BY <1>1, LeaveSequential DEF vars, documents
<1>2. CASE Next
  <2>1. ASSUME NEW r \in Runs, NEW s \in LdapSchools, SearchFails(r, s)
        PROVE  SequentialInv' /\ KeepsRevisions
    BY <2>1, LeaveSequential DEF SearchFails, documents
  <2>2. ASSUME NEW c \in Consumers, Crash(c)
        PROVE  SequentialInv' /\ KeepsRevisions
    BY <2>2, LeaveSequential DEF Crash, documents
  <2>3. ASSUME NEW h \in handlers, AckMessage(h)
        PROVE  SequentialInv' /\ KeepsRevisions
    BY <2>3, LeaveSequential DEF AckMessage, documents
  <2>4. CASE UNCHANGED <<producerVars, ready, handlers, documents>>
    BY <2>4, LeaveSequential DEF documents
  <2> QED
    BY <1>2, <2>1, <2>2, <2>3, <2>4, NextSteps, ProduceSequential, DeliverSequential,
       HandlerSequential
<1> QED
  BY <1>1, <1>2

(* With a consumer that takes one message at a time, each message finds    *)
(* the users as the earlier ones have left them, from whatever runs.       *)
THEOREM SequentialTheorem == SoleConsumer => (Spec => []SequentialInv)
<1> SUFFICES ASSUME SoleConsumer
             PROVE  Spec => []SequentialInv
  OBVIOUS
<1>1. Init => SequentialInv
  BY DEF Init, SequentialInv, OneAtATime, EmailInv, OneUserPerEmail, OrderInv, Pending
<1>2. IInv /\ IInv' /\ SequentialInv /\ [Next]_vars => SequentialInv'
  BY StepSequential
<1> QED
  BY <1>1, <1>2, IInvTheorem, PTL DEF Spec

(* The check of the email and the creation of the user are two commands,   *)
(* and no message is handled between them: no email is taken twice.        *)
THEOREM EmailTheorem == SoleConsumer => (Spec => []OneUserPerEmail)
<1> SUFFICES ASSUME SoleConsumer
             PROVE  Spec => []OneUserPerEmail
  OBVIOUS
<1>1. SequentialInv => OneUserPerEmail
  BY DEF SequentialInv, EmailInv
<1> QED
  BY <1>1, SequentialTheorem, PTL

(* The messages of one run after the other, redelivered in their places    *)
(* after a crash, never set a user back to older data of the directory.    *)
THEOREM RevisionTheorem == SoleConsumer => (Spec => NeverGoesBack)
<1> SUFFICES ASSUME SoleConsumer
             PROVE  Spec => NeverGoesBack
  OBVIOUS
<1>1. IInv /\ IInv' /\ SequentialInv /\ [Next]_vars => KeepsRevisions
  BY StepSequential
<1>2. KeepsRevisions =>
         [\A u \in users, v \in users' : u.id = v.id => v.revision >= u.revision]_vars
  BY DEF KeepsRevisions
<1> QED
  BY <1>1, <1>2, SequentialTheorem, IInvTheorem, PTL DEF Spec, NeverGoesBack
-----------------------------------------------------------------------------
(* A single run: no two messages are about the same key.                   *)
SingleRun == \E r : Runs = {r}

SameKey(m, n) == m.kind = n.kind /\ m.key = n.key

OnceInv ==
    /\ \A g, h \in handlers : SameKey(g.msg, h.msg) => g = h
    /\ \A h \in handlers, m \in ready : ~SameKey(h.msg, m)
    /\ \A m, n \in ready : SameKey(m, n) => m = n

(* What a run will still send is not in the queue.                         *)
UnsentInv ==
    \A r \in Runs, m \in Pending :
        /\ m.kind = "syncSchool" => phase[r] # "schools"
        /\ m.kind = "syncUser" =>
              /\ phase[r] # "schools"
              /\ phase[r] = "users" => PersonSchool[m.key] \notin asked[r]
        /\ m.kind = "syncClasses" =>
              /\ phase[r] \notin {"schools", "users"}
              /\ phase[r] = "classes" => ClassSchool[m.key] \notin asked[r]

(* A school or user that is about to be created is not there yet.          *)
AbsentInv ==
    /\ \A d, e \in schools : d.ldap = e.ldap => d = e
    /\ \A u, v \in users : u.person = v.person => u = v
    /\ \A h \in handlers :
          /\ h.msg.kind = "syncSchool" /\ h.pc = "create" => SchoolsOf(h.msg.key) = {}
          /\ h.msg.kind = "syncUser" /\ h.pc \in {"checkCreate", "create"} =>
                \A u \in users : u.person # h.msg.key

SingleRunInv == OnceInv /\ UnsentInv /\ AbsentInv

(* Messages that are new to the queue, about keys that none has.           *)
LEMMA SentOnce ==
    ASSUME OnceInv, handlers' = handlers, ready \subseteq ready',
           \A m, n \in ready' : m \in ready \/ n \in ready \/ ~SameKey(m, n) \/ m = n,
           \A m \in ready', n \in Pending : m \in ready \/ ~SameKey(m, n)
    PROVE  OnceInv'
<1>1. \A m, n : SameKey(m, n) <=> SameKey(n, m)
  BY DEF SameKey
<1>2. \A h \in handlers, m \in ready' : ~SameKey(h.msg, m)
  BY <1>1 DEF OnceInv, Pending
<1>3. \A m, n \in ready' : SameKey(m, n) => m = n
  BY <1>1 DEF OnceInv, Pending
<1> QED
  BY <1>2, <1>3 DEF OnceInv, SameKey

LEMMA SameDocumentsAbsent ==
    ASSUME AbsentInv, UNCHANGED <<schools, users>>, handlers' \subseteq handlers
    PROVE  AbsentInv'
BY DEF AbsentInv, SchoolsOf

LEMMA ProduceSingle ==
    ASSUME IInv, SingleRunInv, SingleRun, NEW r \in Runs, Produce(r)
    PROVE  SingleRunInv'
<1>1. Runs = {r} /\ phase \in [Runs -> {"schools", "users", "classes", "done"}]
      /\ asked \in [Runs -> SUBSET LdapSchools]
  BY DEF SingleRun, IInv, ProducerInv
<1>2. handlers' = handlers /\ UNCHANGED documents /\ AbsentInv'
  BY ProduceSends, SameDocumentsAbsent DEF SingleRunInv, documents
<1>3. CASE GetSchools(r)
  <2>1. /\ ready \subseteq ready'
        /\ \A m \in ready' : m \in ready \/ (m.kind = "syncSchool" /\ m.key \in LdapSchools)
        /\ \A m, n \in ready' : m \in ready \/ n \in ready \/ m.key # n.key \/ m = n
    BY <1>3, NewMessages DEF GetSchools
  <2>2. Pending = {}
    <3>1. \A m \in Pending : m.kind \in Kinds
      BY DEF IInv, QueueInv, HandlerOK, MessageOK, MessageType, Pending
    <3> QED
      BY <1>3, <3>1 DEF GetSchools, SingleRunInv, UnsentInv, Kinds
  <2>3. OnceInv'
    BY <1>2, <2>1, <2>2, SentOnce DEF SingleRunInv, SameKey
  <2>4. UnsentInv'
    BY <1>1, <1>2, <1>3, <2>1, <2>2 DEF GetSchools, UnsentInv, Pending
  <2> QED
    BY <1>2, <2>3, <2>4 DEF SingleRunInv
<1>4. ASSUME NEW s \in LdapSchools, GetUsers(r, s)
      PROVE  SingleRunInv'
  <2> DEFINE keys == {p \in People : PersonSchool[p] = s}
  <2>1. /\ ready \subseteq ready'
        /\ \A m \in ready' : m \in ready \/ (m.kind = "syncUser" /\ m.key \in keys)
        /\ \A m, n \in ready' : m \in ready \/ n \in ready \/ m.key # n.key \/ m = n
    BY <1>4, NewMessages DEF GetUsers
  <2>2. \A m \in Pending : m.kind = "syncUser" => PersonSchool[m.key] # s
    BY <1>4 DEF GetUsers, Answered, SingleRunInv, UnsentInv
  <2>3. OnceInv'
    BY <1>2, <2>1, <2>2, SentOnce DEF SingleRunInv, SameKey
  <2>4. \A m \in Pending' : m \in Pending \/ (m.kind = "syncUser" /\ PersonSchool[m.key] = s)
    BY <1>2, <2>1 DEF Pending
  <2>5. \A m \in Pending : m.kind # "syncClasses"
    BY <1>4 DEF GetUsers, SingleRunInv, UnsentInv
  <2>6. ASSUME phase' = [phase EXCEPT ![r] = "classes"]
      PROVE  UnsentInv'
    BY <1>1, <2>4, <2>5, <2>6 DEF UnsentInv
  <2>7. ASSUME phase' = phase /\ asked' = [asked EXCEPT ![r] = @ \ {s}]
      PROVE  UnsentInv'
    BY <1>1, <1>4, <2>4, <2>5, <2>7 DEF UnsentInv, SingleRunInv, GetUsers
  <2> QED
    BY <1>2, <1>4, <2>3, <2>6, <2>7 DEF SingleRunInv, GetUsers, Answered
<1>5. ASSUME NEW s \in LdapSchools, GetClasses(r, s)
      PROVE  SingleRunInv'
  <2> DEFINE keys == {k \in LdapClasses : ClassSchool[k] = s}
  <2>1. /\ ready \subseteq ready'
        /\ \A m \in ready' : m \in ready \/ (m.kind = "syncClasses" /\ m.key \in keys)
        /\ \A m, n \in ready' : m \in ready \/ n \in ready \/ m.key # n.key \/ m = n
    BY <1>5, NewMessages DEF GetClasses
  <2>2. \A m \in Pending : m.kind = "syncClasses" => ClassSchool[m.key] # s
    BY <1>5 DEF GetClasses, Answered, SingleRunInv, UnsentInv
  <2>3. OnceInv'
    BY <1>2, <2>1, <2>2, SentOnce DEF SingleRunInv, SameKey
  <2>4. \A m \in Pending' : m \in Pending \/ (m.kind = "syncClasses" /\ ClassSchool[m.key] = s)
    BY <1>2, <2>1 DEF Pending
  <2>5. ASSUME phase' = [phase EXCEPT ![r] = "done"]
      PROVE  UnsentInv'
    BY <1>1, <2>4, <2>5 DEF UnsentInv
  <2>6. ASSUME phase' = phase /\ asked' = [asked EXCEPT ![r] = @ \ {s}]
      PROVE  UnsentInv'
    BY <1>1, <1>5, <2>4, <2>6 DEF UnsentInv, SingleRunInv, GetClasses
  <2> QED
    BY <1>2, <1>5, <2>3, <2>5, <2>6 DEF SingleRunInv, GetClasses, Answered
<1> QED
  BY <1>3, <1>4, <1>5 DEF Produce

LEMMA SearchFailsSingle ==
    ASSUME IInv, SingleRunInv, NEW r \in Runs, NEW s \in LdapSchools, SearchFails(r, s)
    PROVE  SingleRunInv'
<1>1. OnceInv' /\ AbsentInv'
  BY SameDocumentsAbsent DEF SearchFails, documents, SingleRunInv, OnceInv
<1>2. \A q \in Runs : asked'[q] \subseteq asked[q]
  BY DEF SearchFails, IInv, ProducerInv
<1>3. UnsentInv'
  BY <1>2 DEF SearchFails, SingleRunInv, UnsentInv, Pending
<1> QED
  BY <1>1, <1>3 DEF SingleRunInv

(* Messages move between the queue and the handlers, or leave.             *)
LEMMA MovesUnsent ==
    ASSUME UnsentInv, UNCHANGED producerVars, Pending' \subseteq Pending
    PROVE  UnsentInv'
BY DEF UnsentInv, producerVars

LEMMA DeliverSingle ==
    ASSUME SingleRunInv, NEW c \in Consumers, Deliver(c)
    PROVE  SingleRunInv'
<1>1. PICK m \in ready : ready' = ready \ {m} /\ handlers' = handlers \cup {Handler(m, c)}
  BY DEF Deliver
<1>2. PICK new : new = Handler(m, c)
  OBVIOUS
<1>3. new.msg = m /\ new.pc = "findSchool"
  BY <1>2 DEF Handler
<1>4. handlers' = handlers \cup {new}
  BY <1>1, <1>2
<1>5. OnceInv'
  <2>1. \A n, o : SameKey(n, o) <=> SameKey(o, n)
    BY DEF SameKey
  <2>2. \A g \in handlers : ~SameKey(g.msg, new.msg)
    BY <1>3 DEF SingleRunInv, OnceInv
  <2>3. \A n \in ready' : ~SameKey(new.msg, n)
    BY <1>1, <1>3 DEF SingleRunInv, OnceInv
  <2>4. \A g, h \in handlers' : SameKey(g.msg, h.msg) => g = h
    BY <1>4, <2>1, <2>2 DEF SingleRunInv, OnceInv
  <2> QED
    BY <1>1, <1>4, <2>3, <2>4 DEF SingleRunInv, OnceInv, SameKey
<1>6. UnsentInv'
  <2>1. Pending' \subseteq Pending
    BY <1>1, <1>3, <1>4 DEF Pending
  <2> QED
    BY <2>1, MovesUnsent DEF SingleRunInv, Deliver
<1>7. AbsentInv'
  BY <1>3, <1>4 DEF SingleRunInv, AbsentInv, Deliver, documents, SchoolsOf
<1> QED
  BY <1>5, <1>6, <1>7 DEF SingleRunInv

LEMMA LeaveSingle ==
    ASSUME SingleRunInv, UNCHANGED <<producerVars, documents>>,
           \/ \E h \in handlers : AckMessage(h)
           \/ \E c \in Consumers : Crash(c)
           \/ UNCHANGED <<ready, handlers>>
    PROVE  SingleRunInv'
<1>1. PICK gone : /\ gone \subseteq handlers /\ handlers' = handlers \ gone
                  /\ ready' = ready \/ ready' = ready \cup {h.msg : h \in gone}
  BY DEF AckMessage, Crash, unchangedButDocuments
<1>2. Pending' \subseteq Pending
  BY <1>1 DEF Pending
<1>3. OnceInv'
  <2>1. \A n, o : SameKey(n, o) <=> SameKey(o, n)
    BY DEF SameKey
  <2>2. \A m \in ready' : m \in ready \/ \E h \in gone : m = h.msg
    BY <1>1
  <2>3. \A h \in handlers', m \in ready' : ~SameKey(h.msg, m)
    BY <1>1, <2>2 DEF SingleRunInv, OnceInv
  <2>4. \A m, n \in ready' : SameKey(m, n) => m = n
    BY <1>1, <2>1, <2>2 DEF SingleRunInv, OnceInv
  <2> QED
    BY <1>1, <2>3, <2>4 DEF SingleRunInv, OnceInv, SameKey
<1>4. AbsentInv'
  BY <1>1, SameDocumentsAbsent DEF SingleRunInv, documents
<1> QED
  BY <1>2, <1>3, <1>4, MovesUnsent DEF SingleRunInv

LEMMA HandlerSingle ==
    ASSUME IInv, IInv', SingleRunInv, NEW h \in handlers, TakesStep(h),
           UNCHANGED <<directory, producerVars, ready>>
    PROVE  SingleRunInv'
<1>1. PICK g : /\ HandlerStep(h, g)
               /\ KeepsSchools \/ AddsSchool(h, g)
               /\ KeepsUsers(h) \/ AddsUser(h, g)
  BY DEF TakesStep
<1>2. handlers' = (handlers \ {h}) \cup {g} /\ g.msg = h.msg
  BY <1>1 DEF HandlerStep, Become
<1>3. OnceInv'
  <2>1. \A f \in handlers \ {h} : ~SameKey(f.msg, g.msg) /\ ~SameKey(g.msg, f.msg)
    BY <1>2 DEF SingleRunInv, OnceInv
  <2>2. \A m \in ready : ~SameKey(g.msg, m)
    BY <1>2 DEF SingleRunInv, OnceInv
  <2> QED
    BY <1>2, <2>1, <2>2 DEF SingleRunInv, OnceInv, SameKey
<1>4. UnsentInv'
  <2>1. Pending' \subseteq Pending
    BY <1>2 DEF Pending
  <2> QED
    BY <2>1, MovesUnsent DEF SingleRunInv
<1>5. /\ \A d, e \in schools' : d.ldap = e.ldap => d = e
      /\ \A f \in handlers' : f.msg.kind = "syncSchool" /\ f.pc = "create" =>
            \A d \in schools' : d.ldap # f.msg.key
  <2>1. \A d, e \in schools' : d.id = e.id => d = e
    BY DEF IInv, SchoolsInv
  <2>2. \A f \in handlers : f.msg.kind = "syncSchool" /\ f.pc = "create" =>
           \A d \in schools : d.ldap # f.msg.key
    BY DEF SingleRunInv, AbsentInv, SchoolsOf
  <2>3. CASE KeepsSchools
    <3>1. \A d, e \in schools' : d.ldap = e.ldap => d = e
      BY <2>1, <2>3 DEF KeepsSchools, SingleRunInv, AbsentInv
    <3>2. g.msg.kind = "syncSchool" /\ g.pc = "create" => \A d \in schools : d.ldap # g.msg.key
      BY <1>1, <1>2 DEF HandlerStep, SchoolsOf
    <3> QED
      BY <1>2, <2>2, <2>3, <3>1, <3>2 DEF KeepsSchools
  <2>4. CASE AddsSchool(h, g)
    <3>1. PICK new : schools' = schools \cup {new} /\ new.ldap = h.msg.key
      BY <2>4 DEF AddsSchool
    <3>2. \A d, e \in schools' : d.ldap = e.ldap => d = e
      BY <2>2, <2>4, <3>1 DEF AddsSchool, SingleRunInv, AbsentInv
    <3>3. \A f \in handlers \ {h} : f.msg.kind = "syncSchool" => f.msg.key # h.msg.key
      BY <2>4 DEF AddsSchool, SingleRunInv, OnceInv, SameKey
    <3> QED
      BY <1>2, <2>2, <2>4, <3>1, <3>2, <3>3 DEF AddsSchool
  <2> QED
    BY <1>1, <2>3, <2>4
<1>6. /\ \A u, v \in users' : u.person = v.person => u = v
      /\ \A f \in handlers' : f.msg.kind = "syncUser" /\ f.pc \in {"checkCreate", "create"} =>
            \A u \in users' : u.person # f.msg.key
  <2>1. \A u, v \in users' : u.id = v.id => u = v
    BY DEF IInv, UsersInv, Numbered
  <2>2. \A f \in handlers : f.msg.kind = "syncUser" /\ f.pc \in {"checkCreate", "create"} =>
           \A u \in users : u.person # f.msg.key
    BY DEF SingleRunInv, AbsentInv
  <2>3. CASE KeepsUsers(h)
    <3>1. \A u, v \in users' : u.person = v.person => u = v
      BY <2>1, <2>3 DEF KeepsUsers, SingleRunInv, AbsentInv
    <3>2. ASSUME g.msg.kind = "syncUser", g.pc = "checkCreate", NEW u \in users
          PROVE  u.person # g.msg.key
      <4>1. h.msg.kind = "syncUser" /\ h.pc = "find" /\ LdapUsersOf(h.msg.key, h.school) = {}
        BY <1>1, <1>2, <3>2 DEF HandlerStep
      <4>2. IsSchool(h.school, PersonSchool[h.msg.key])
        BY <4>1 DEF IInv, QueueInv, HandlerOK, SchoolKey
      <4>3. IsSchool(u.school, PersonSchool[u.person])
        BY DEF IInv, UsersInv
      <4>4. u.person = h.msg.key => u.school = h.school
        BY <4>2, <4>3 DEF SingleRunInv, AbsentInv, IsSchool
      <4> QED
        BY <1>2, <4>1, <4>4 DEF LdapUsersOf
    <3>3. g.msg.kind = "syncUser" /\ g.pc = "create" => \A u \in users : u.person # g.msg.key
      BY <1>1, <1>2, <2>2 DEF HandlerStep
    <3> QED
      BY <1>2, <2>2, <2>3, <3>1, <3>2, <3>3 DEF KeepsUsers
  <2>4. CASE AddsUser(h, g)
    <3>1. PICK new : users' = users \cup {new} /\ new.person = h.msg.key
      BY <2>4 DEF AddsUser
    <3>2. \A u, v \in users' : u.person = v.person => u = v
      BY <2>2, <2>4, <3>1 DEF AddsUser, SingleRunInv, AbsentInv
    <3>3. \A f \in handlers \ {h} : f.msg.kind = "syncUser" => f.msg.key # h.msg.key
      BY <2>4 DEF AddsUser, SingleRunInv, OnceInv, SameKey
    <3> QED
      BY <1>2, <2>2, <2>4, <3>1, <3>2, <3>3 DEF AddsUser
  <2> QED
    BY <1>1, <2>3, <2>4
<1>7. AbsentInv'
  BY <1>5, <1>6 DEF AbsentInv, SchoolsOf
<1> QED
  BY <1>3, <1>4, <1>7 DEF SingleRunInv

LEMMA StepSingle ==
    ASSUME SingleRun, IInv, IInv', SingleRunInv, [Next]_vars
    PROVE  SingleRunInv'
<1>1. CASE UNCHANGED vars
  BY <1>1, LeaveSingle DEF vars
<1>2. CASE Next
  <2>1. ASSUME NEW c \in Consumers, Crash(c)
        PROVE  SingleRunInv'
    BY <2>1, LeaveSingle DEF Crash
  <2>2. ASSUME NEW h \in handlers, AckMessage(h)
        PROVE  SingleRunInv'
    BY <2>2, LeaveSingle DEF AckMessage, unchangedButDocuments
  <2>3. CASE UNCHANGED <<producerVars, ready, handlers, documents>>
    BY <2>3, LeaveSingle
  <2> QED
    BY <1>2, <2>1, <2>2, <2>3, NextSteps, ProduceSingle, SearchFailsSingle, DeliverSingle,
       HandlerSingle
<1> QED
  BY <1>1, <1>2

(* The messages of a run are about different keys, so nobody else creates  *)
(* what a handler has looked for in vain.                                  *)
THEOREM SingleRunTheorem == SingleRun => (Spec => []SingleRunInv)
<1> SUFFICES ASSUME SingleRun
             PROVE  Spec => []SingleRunInv
  OBVIOUS
<1>1. Init => SingleRunInv
  BY DEF Init, SingleRunInv, OnceInv, UnsentInv, AbsentInv, Pending
<1>2. IInv /\ IInv' /\ SingleRunInv /\ [Next]_vars => SingleRunInv'
  BY StepSingle
<1> QED
  BY <1>1, <1>2, IInvTheorem, PTL DEF Spec

(* Between the search for a user and its creation any other handlers run,  *)
(* of any consumers, and a message may be handled again after a crash; one *)
(* consumer that takes one message at a time may have any number of runs.  *)
THEOREM PersonTheorem == SingleRun \/ SoleConsumer => (Spec => []OneUserPerPerson)
<1>1. IInv /\ SingleRunInv => OneUserPerPerson
  BY DEF IInv, UsersInv, IsUser, SingleRunInv, AbsentInv, OneUserPerPerson
<1>2. IInv /\ SequentialInv => OneUserPerPerson
  BY DEF IInv, UsersInv, IsUser, SequentialInv, EmailInv, OneUserPerEmail, OneUserPerPerson
<1>3. ASSUME SingleRun PROVE Spec => []OneUserPerPerson
  BY <1>1, <1>3, SingleRunTheorem, IInvTheorem, PTL
<1>4. ASSUME SoleConsumer PROVE Spec => []OneUserPerPerson
  BY <1>2, <1>4, SequentialTheorem, IInvTheorem, PTL
<1> QED
  BY <1>3, <1>4
-----------------------------------------------------------------------------
(* Nothing is lost on the way to the queue or in a handler, but consumers  *)
(* may die.                                                                *)
OnlyCrashes == Disturbances \subseteq {"crash"}

SchoolThere(s) == \E d \in schools : d.ldap = s
ClassThere(key) == \E k \in classes : k.key = key
Registered(p) == \E u \in users : PersonEmail[u.person] = PersonEmail[p]

Comes(kind, key) == \E m \in Pending : m.kind = kind /\ m.key = key
ComesBefore(n, kind, key) == \E m \in Pending : m.kind = kind /\ m.key = key /\ m.number < n.number

CalmInv ==
    /\ failed = {} /\ maintenance = {}
    /\ \A r \in Runs : phase[r] = "schools" => asked[r] = LdapSchools

(* What a message needs is there, or comes before it.                      *)
Needs(m) ==
    /\ m.kind \in {"syncUser", "syncClasses"} =>
          SchoolThere(SchoolKey(m)) \/ ComesBefore(m, "syncSchool", SchoolKey(m))
    /\ m.kind = "syncClasses" =>
          \A p \in People : Registered(p) \/ ComesBefore(m, "syncUser", p)

(* What a run has sent is there, or comes.                                 *)
SentSchool(r, s) == phase[r] # "schools"
SentUsers(r, s) == phase[r] \in {"classes", "done"} \/ (phase[r] = "users" /\ s \notin asked[r])
SentClasses(r, s) == phase[r] = "done" \/ (phase[r] = "classes" /\ s \notin asked[r])

HasSent(r) ==
    /\ \A s \in LdapSchools : SentSchool(r, s) => SchoolThere(s) \/ Comes("syncSchool", s)
    /\ \A p \in People : SentUsers(r, PersonSchool[p]) => Registered(p) \/ Comes("syncUser", p)
    /\ \A key \in LdapClasses :
          SentClasses(r, ClassSchool[key]) => ClassThere(key) \/ Comes("syncClasses", key)

DeliveryInv == (\A m \in Pending : Needs(m)) /\ (\A r \in Runs : HasSent(r))

(* The members of a class that have users.                                 *)
Listed(key) == {u \in users : u.person \in ClassMembers[key] /\ PersonSchool[u.person] = ClassSchool[key]}
Full(k) == k.students = Ids(Listed(k.key), "student") /\ k.teachers = Ids(Listed(k.key), "teacher")

(* A class is there once, is full or will be, and no user comes after it.  *)
FullInv ==
    /\ \A k, j \in classes : k.key = j.key => k = j
    /\ \A k \in classes : Full(k) \/ Comes("syncClasses", k.key)
    /\ classes # {} => \A p \in People : Registered(p)

OneSchool == \A d, e \in schools : d.ldap = e.ldap => d = e

(* What a handler has done so far.                                         *)
SchoolStage(h) ==
    /\ h.pc = "create" => ~SchoolThere(h.msg.key)
    /\ h.pc = "ack" => SchoolThere(h.msg.key)
    /\ h.pc = "update" => SchoolThere(h.msg.key)

UserStage(h) ==
    h.pc \in {"update", "updateAccount", "account", "ack"} => Registered(h.msg.key)

ClassStage(h) ==
    /\ h.pc = "create" => ~ClassThere(h.msg.key)
    /\ h.pc \in {"students", "teachers"} => h.members = Listed(h.msg.key)
    /\ h.pc = "teachers" => \A k \in classes : k.key = h.msg.key =>
          k.students = Ids(Listed(h.msg.key), "student")
    /\ h.pc = "ack" => ClassThere(h.msg.key) /\ \A k \in classes : k.key = h.msg.key => Full(k)

StageOK(h) ==
    /\ h.msg.kind = "syncSchool" => SchoolStage(h)
    /\ h.msg.kind = "syncUser" => UserStage(h)
    /\ h.msg.kind = "syncClasses" => ClassStage(h)

CompleteInv ==
    /\ CalmInv
    /\ DeliveryInv
    /\ OneSchool
    /\ FullInv
    /\ \A h \in handlers : StageOK(h)
-----------------------------------------------------------------------------
(* A burst has a message for each of its keys.                             *)
LEMMA SendsAll ==
    ASSUME IInv, OnlyCrashes, NEW kind, NEW keys, IsFiniteSet(keys), Send(kind, keys), NEW key \in keys
    PROVE  \E m \in ready' : m.kind = kind /\ m.key = key
<1>1. PICK order \in SetToSeqs(keys) :
         ready' = ready \cup {Message(sent + i, kind, order[i]) : i \in DOMAIN order}
  BY DEF Send, Disturb, OnlyCrashes
<1> DEFINE places == 1..Cardinality(keys)
           image == {order[i] : i \in places}
<1>2. /\ order \in [places -> keys] /\ DOMAIN order = places
      /\ \A i, j \in places : i # j => order[i] # order[j]
  BY DEF SetToSeqs
<1>3. image \subseteq keys /\ order \in Bijection(places, image)
  BY <1>2 DEF Bijection, Injection, Surjection, IsInjective
<1>4. IsFiniteSet(places) /\ Cardinality(places) = Cardinality(keys)
  BY FS_CardinalityType, FS_Interval
<1>5. Cardinality(image) = Cardinality(keys)
  <2> HIDE DEF places, image
  <2>1. ExistsBijection(places, image)
    BY <1>3 DEF ExistsBijection
  <2>. QED BY <1>4, <2>1, FS_Bijection
<1>6. image = keys
  <2> HIDE DEF image
  <2>. QED BY <1>3, <1>5, FS_Subset
<1>7. PICK i \in places : order[i] = key
  BY <1>6
<1> DEFINE m == Message(sent + i, kind, order[i])
<1>8. m \in ready'
  BY <1>1, <1>2
<1>9. m.kind = kind /\ m.key = key
  BY <1>7 DEF Message
<1> QED
  BY <1>8, <1>9

(* What is there stays there, and what comes stays where it is.            *)
LEMMA DeliveryKept ==
    ASSUME NEW n, Needs(n), Pending \subseteq Pending',
           \A s : SchoolThere(s) => SchoolThere(s)',
           \A p : Registered(p) => Registered(p)'
    PROVE  Needs(n)'
BY DEF Needs, ComesBefore, SchoolKey

LEMMA SentKept ==
    ASSUME NEW r, HasSent(r), phase'[r] = phase[r], asked'[r] = asked[r], Pending \subseteq Pending',
           \A s : SchoolThere(s) => SchoolThere(s)',
           \A p : Registered(p) => Registered(p)',
           \A key : ClassThere(key) => ClassThere(key)'
    PROVE  HasSent(r)'
<1> USE DEF HasSent, Comes
<1>1. \A s \in LdapSchools : SentSchool(r, s)' => SchoolThere(s)' \/ Comes("syncSchool", s)'
  BY DEF SentSchool
<1>2. \A p \in People : SentUsers(r, PersonSchool[p])' => Registered(p)' \/ Comes("syncUser", p)'
  BY DEF SentUsers
<1>3. \A key \in LdapClasses :
         SentClasses(r, ClassSchool[key])' => ClassThere(key)' \/ Comes("syncClasses", key)'
  BY DEF SentClasses
<1> QED
  BY <1>1, <1>2, <1>3

(* Steps that leave documents and handlers alone, but for new ones.        *)
LEMMA SameDocumentsKept ==
    ASSUME CompleteInv, UNCHANGED documents, Pending \subseteq Pending',
           \A g \in handlers' : g \in handlers \/ g.pc = "findSchool"
    PROVE  OneSchool' /\ FullInv' /\ \A g \in handlers' : StageOK(g)'
<1>1. schools' = schools /\ users' = users /\ classes' = classes
  BY DEF documents
<1>2. OneSchool'
  BY <1>1 DEF CompleteInv, OneSchool
<1>3. \A k : Full(k) <=> Full(k)'
  BY <1>1 DEF Full, Listed
<1>4. \A key : ClassThere(key) <=> ClassThere(key)'
  BY <1>1 DEF ClassThere
<1>5. \A key : SchoolThere(key) <=> SchoolThere(key)'
  BY <1>1 DEF SchoolThere
<1>6. \A p : Registered(p) <=> Registered(p)'
  BY <1>1 DEF Registered
<1>7. FullInv'
  BY <1>1, <1>3, <1>6 DEF CompleteInv, FullInv, Comes
<1>8. \A g \in handlers : StageOK(g)'
  <2> SUFFICES ASSUME NEW g \in handlers PROVE StageOK(g)'
    OBVIOUS
  <2>1. StageOK(g)
    BY DEF CompleteInv
  <2>2. SchoolStage(g) => SchoolStage(g)'
    BY <1>5 DEF SchoolStage
  <2>3. UserStage(g) => UserStage(g)'
    BY <1>6 DEF UserStage
  <2>4. ClassStage(g) => ClassStage(g)'
    BY <1>1, <1>3, <1>4 DEF ClassStage, Listed
  <2>. QED BY <2>1, <2>2, <2>3, <2>4 DEF StageOK
<1>9. \A g : g.pc = "findSchool" => StageOK(g)'
  BY DEF StageOK, SchoolStage, UserStage, ClassStage
<1> QED
  BY <1>2, <1>7, <1>8, <1>9

LEMMA ComesEarlier ==
    ASSUME IInv, NEW kind, NEW key, Comes(kind, key), Pending \subseteq Pending',
           NEW n, n.number \in Nat, n.number > sent
    PROVE  ComesBefore(n, kind, key)'
BY PendingTypes DEF Comes, ComesBefore

(* The searches of a phase that were answered before one for s.            *)
LEMMA ProduceComplete ==
    ASSUME OnlyCrashes, IInv, IInv', CompleteInv, NEW r \in Runs, Produce(r)
    PROVE  CompleteInv'
<1>1. /\ handlers' = handlers /\ UNCHANGED documents /\ ready \subseteq ready'
      /\ \A m \in ready' : m \in ready \/ m.number > sent
  BY ProduceSends
<1>2. Pending \subseteq Pending' /\ \A m \in Pending' : m \in Pending \/ (m \in ready' /\ m.number > sent)
  BY <1>1 DEF Pending
<1>3. OneSchool' /\ FullInv' /\ \A g \in handlers' : StageOK(g)'
  BY <1>1, <1>2, SameDocumentsKept
<1>4. /\ \A s : SchoolThere(s) => SchoolThere(s)'
      /\ \A p : Registered(p) => Registered(p)'
      /\ \A key : ClassThere(key) => ClassThere(key)'
  BY <1>1 DEF documents, SchoolThere, Registered, ClassThere
<1>5. \A m \in ready' : m.number \in Nat
  BY DEF IInv, QueueInv, MessageOK, MessageType
<1>6. HasSent(r) /\ \A q \in Runs : HasSent(q)
  BY DEF CompleteInv, DeliveryInv
<1>7. /\ phase \in [Runs -> {"schools", "users", "classes", "done"}]
      /\ asked \in [Runs -> SUBSET LdapSchools] /\ failed = {} /\ maintenance = {}
      /\ \A q \in Runs : phase[q] = "schools" => asked[q] = LdapSchools
  BY DEF IInv, ProducerInv, CompleteInv, CalmInv
<1>8. /\ IsFiniteSet(LdapSchools) /\ \A s : IsFiniteSet({p \in People : PersonSchool[p] = s})
      /\ \A s : IsFiniteSet({k \in LdapClasses : ClassSchool[k] = s})
      /\ \A p \in People : PersonSchool[p] \in LdapSchools
      /\ \A k \in LdapClasses : ClassSchool[k] \in LdapSchools
  BY SyncAssumption, FS_Subset
<1>9. ASSUME \A m \in ready' : m \in ready \/ Needs(m)',
             \A q \in Runs : q # r => phase'[q] = phase[q] /\ asked'[q] = asked[q],
             failed' = failed, maintenance' = maintenance, phase'[r] # "schools", HasSent(r)'
      PROVE  CompleteInv'
  <2>1. CalmInv'
    BY <1>7, <1>9 DEF CalmInv
  <2>2. \A q \in Runs : HasSent(q)'
    BY <1>2, <1>4, <1>6, <1>9, SentKept
  <2>3. \A m \in Pending' : Needs(m)'
    <3>1. \A m \in Pending : Needs(m)'
      BY <1>2, <1>4, DeliveryKept DEF CompleteInv, DeliveryInv
    <3>. QED BY <1>2, <1>9, <3>1 DEF Pending
  <2>. QED BY <1>3, <2>1, <2>2, <2>3 DEF CompleteInv, DeliveryInv
<1>a. CASE GetSchools(r)
  <2>1. \A m \in ready' : m \in ready \/ (m.kind = "syncSchool" /\ m.key \in LdapSchools)
    BY <1>a, NewMessages DEF GetSchools
  <2>2. \A m \in ready' : m \in ready \/ Needs(m)'
    BY <2>1 DEF Needs
  <2>3. phase' = [phase EXCEPT ![r] = "users"] /\ asked' = asked /\ failed' = failed /\ maintenance' = maintenance
        /\ asked[r] = LdapSchools
    BY <1>a, <1>7 DEF GetSchools
  <2>4. HasSent(r)'
    <3>1. \A s \in LdapSchools : Comes("syncSchool", s)'
      BY <1>a, <1>8, SendsAll DEF GetSchools, Comes, Pending
    <3>2. \A s \in LdapSchools : ~SentUsers(r, s)' /\ ~SentClasses(r, s)'
      BY <1>7, <2>3 DEF SentUsers, SentClasses
    <3>. QED BY <1>8, <3>1, <3>2 DEF HasSent
  <2>. QED BY <1>7, <1>9, <2>2, <2>3, <2>4
<1>b. ASSUME NEW s \in LdapSchools, GetUsers(r, s)
      PROVE  CompleteInv'
  <2>1. \A m \in ready' : m \in ready \/ (m.number > sent /\ m.kind = "syncUser" /\ PersonSchool[m.key] = s)
    BY <1>b, NewMessages DEF GetUsers
  <2>2. phase[r] = "users" /\ s \in asked[r] /\ failed' = failed /\ maintenance' = maintenance
    BY <1>b DEF GetUsers, Answered
  <2>3. \A x \in LdapSchools : SchoolThere(x) \/ Comes("syncSchool", x)
    BY <1>6, <2>2 DEF HasSent, SentSchool
  <2>4. \A m \in ready' : m \in ready \/ Needs(m)'
    <3> SUFFICES ASSUME NEW m \in ready', m \notin ready PROVE Needs(m)'
      OBVIOUS
    <3>1. m.number > sent /\ m.number \in Nat /\ m.kind = "syncUser" /\ SchoolKey(m) = s
      BY <1>5, <2>1 DEF SchoolKey
    <3>2. SchoolThere(s)' \/ ComesBefore(m, "syncSchool", s)'
      BY <1>2, <1>4, <2>3, <3>1, ComesEarlier
    <3>. QED BY <3>1, <3>2 DEF Needs, SchoolKey
  <2>5. \/ phase' = [phase EXCEPT ![r] = "classes"] /\ asked[r] = {s} /\ asked' = [asked EXCEPT ![r] = LdapSchools]
        \/ phase' = phase /\ asked' = [asked EXCEPT ![r] = @ \ {s}]
    BY <1>b DEF GetUsers, Answered
  <2>6. HasSent(r)'
    <3>1. \A x \in LdapSchools : SchoolThere(x)' \/ Comes("syncSchool", x)'
      BY <1>2, <1>4, <2>3 DEF Comes
    <3>2. \A p \in People : SentUsers(r, PersonSchool[p])' => Registered(p)' \/ Comes("syncUser", p)'
      <4> SUFFICES ASSUME NEW p \in People, SentUsers(r, PersonSchool[p])'
                   PROVE  Registered(p)' \/ Comes("syncUser", p)'
        OBVIOUS
      <4>1. CASE PersonSchool[p] = s
        <5> DEFINE keys == {q \in People : PersonSchool[q] = s}
        <5>1. p \in keys /\ IsFiniteSet(keys) /\ Send("syncUser", keys)
          BY <1>b, <1>8, <4>1 DEF GetUsers
        <5> HIDE DEF keys
        <5>2. \E m \in ready' : m.kind = "syncUser" /\ m.key = p
          BY <5>1, SendsAll
        <5>. QED BY <5>2 DEF Comes, Pending
      <4>2. CASE PersonSchool[p] # s
        <5>1. PersonSchool[p] \notin asked[r]
          BY <1>7, <2>2, <2>5, <4>2 DEF SentUsers
        <5>2. Registered(p) \/ Comes("syncUser", p)
          BY <1>6, <2>2, <5>1 DEF HasSent, SentUsers
        <5>. QED BY <1>2, <1>4, <5>2 DEF Comes
      <4>. QED BY <4>1, <4>2
    <3>3. \A x \in LdapSchools : ~SentClasses(r, x)'
      BY <1>7, <2>2, <2>5 DEF SentClasses
    <3>. QED BY <1>8, <3>1, <3>2, <3>3 DEF HasSent
  <2>. QED BY <1>7, <1>9, <2>2, <2>4, <2>5, <2>6
<1>c. ASSUME NEW s \in LdapSchools, GetClasses(r, s)
      PROVE  CompleteInv'
  <2>1. \A m \in ready' : m \in ready \/ (m.number > sent /\ m.kind = "syncClasses" /\ ClassSchool[m.key] = s)
    BY <1>c, NewMessages DEF GetClasses
  <2>2. phase[r] = "classes" /\ s \in asked[r] /\ failed' = failed /\ maintenance' = maintenance
    BY <1>c DEF GetClasses, Answered
  <2>3. /\ \A x \in LdapSchools : SchoolThere(x) \/ Comes("syncSchool", x)
        /\ \A p \in People : Registered(p) \/ Comes("syncUser", p)
    BY <1>6, <2>2 DEF HasSent, SentSchool, SentUsers
  <2>4. \A m \in ready' : m \in ready \/ Needs(m)'
    <3> SUFFICES ASSUME NEW m \in ready', m \notin ready PROVE Needs(m)'
      OBVIOUS
    <3>1. m.number > sent /\ m.number \in Nat /\ m.kind = "syncClasses" /\ SchoolKey(m) = s
      BY <1>5, <2>1 DEF SchoolKey
    <3>2. SchoolThere(s)' \/ ComesBefore(m, "syncSchool", s)'
      BY <1>2, <1>4, <2>3, <3>1, ComesEarlier
    <3>3. \A p \in People : Registered(p)' \/ ComesBefore(m, "syncUser", p)'
      BY <1>2, <1>4, <2>3, <3>1, ComesEarlier
    <3>. QED BY <3>1, <3>2, <3>3 DEF Needs, SchoolKey
  <2>5. \/ phase' = [phase EXCEPT ![r] = "done"] /\ asked[r] = {s} /\ asked' = [asked EXCEPT ![r] = LdapSchools]
        \/ phase' = phase /\ asked' = [asked EXCEPT ![r] = @ \ {s}]
    BY <1>c DEF GetClasses, Answered
  <2>6. HasSent(r)'
    <3>1. /\ \A x \in LdapSchools : SchoolThere(x)' \/ Comes("syncSchool", x)'
          /\ \A p \in People : Registered(p)' \/ Comes("syncUser", p)'
      BY <1>2, <1>4, <2>3 DEF Comes
    <3>2. ASSUME NEW key \in LdapClasses, SentClasses(r, ClassSchool[key])'
          PROVE  ClassThere(key)' \/ Comes("syncClasses", key)'
      <4>1. CASE ClassSchool[key] = s
        <5> DEFINE keys == {k \in LdapClasses : ClassSchool[k] = s}
        <5>1. key \in keys /\ IsFiniteSet(keys) /\ Send("syncClasses", keys)
          BY <1>c, <1>8, <4>1 DEF GetClasses
        <5> HIDE DEF keys
        <5>2. \E m \in ready' : m.kind = "syncClasses" /\ m.key = key
          BY <5>1, SendsAll
        <5>. QED BY <5>2 DEF Comes, Pending
      <4>2. CASE ClassSchool[key] # s
        <5>1. ClassSchool[key] \notin asked[r]
          BY <1>7, <2>2, <2>5, <3>2, <4>2 DEF SentClasses
        <5>2. ClassThere(key) \/ Comes("syncClasses", key)
          BY <1>6, <2>2, <5>1 DEF HasSent, SentClasses
        <5>. QED BY <1>2, <1>4, <5>2 DEF Comes
      <4>. QED BY <4>1, <4>2
    <3>. QED BY <3>1, <3>2 DEF HasSent
  <2>. QED BY <1>7, <1>9, <2>2, <2>4, <2>5, <2>6
<1> QED
  BY <1>a, <1>b, <1>c DEF Produce

(* Messages move between the queue and the consumer.                       *)
LEMMA MoveComplete ==
    ASSUME CompleteInv, UNCHANGED <<producerVars, documents, maintenance>>, Pending' = Pending,
           \A g \in handlers' : g \in handlers \/ g.pc = "findSchool"
    PROVE  CompleteInv'
<1>1. OneSchool' /\ FullInv' /\ \A g \in handlers' : StageOK(g)'
  BY SameDocumentsKept
<1>2. CalmInv'
  BY DEF CompleteInv, CalmInv, producerVars
<1>3. /\ \A s : SchoolThere(s) => SchoolThere(s)'
      /\ \A p : Registered(p) => Registered(p)'
      /\ \A key : ClassThere(key) => ClassThere(key)'
  BY DEF documents, SchoolThere, Registered, ClassThere
<1>4. \A m \in Pending' : Needs(m)'
  BY <1>3, DeliveryKept DEF CompleteInv, DeliveryInv
<1>5. \A r \in Runs : HasSent(r)'
  BY <1>3, SentKept DEF CompleteInv, DeliveryInv, producerVars
<1> QED
  BY <1>1, <1>2, <1>4, <1>5 DEF CompleteInv, DeliveryInv

LEMMA DeliverComplete ==
    ASSUME CompleteInv, NEW c \in Consumers, Deliver(c)
    PROVE  CompleteInv'
<1>1. PICK m \in ready : ready' = ready \ {m} /\ handlers' = handlers \cup {Handler(m, c)}
  BY DEF Deliver
<1>2. PICK new : new = Handler(m, c)
  OBVIOUS
<1>3. new.msg = m /\ new.pc = "findSchool"
  BY <1>2 DEF Handler
<1>4. Pending' = Pending
  BY <1>1, <1>2, <1>3 DEF Pending
<1> QED
  BY <1>1, <1>2, <1>3, <1>4, MoveComplete DEF Deliver

LEMMA CrashComplete ==
    ASSUME CompleteInv, NEW c \in Consumers, Crash(c)
    PROVE  CompleteInv'
<1>1. Pending' = Pending /\ handlers' \subseteq handlers
  BY DEF Crash, Pending
<1> QED
  BY <1>1, MoveComplete DEF Crash

(* A message that is acknowledged has done its part.                       *)
LEMMA AckComplete ==
    ASSUME IInv, CompleteInv, NEW h \in handlers, AckMessage(h)
    PROVE  CompleteInv'
<1> DEFINE m == h.msg
<1>1. /\ handlers' = handlers \ {h} /\ ready' = ready /\ UNCHANGED <<producerVars, documents, maintenance>>
      /\ h.pc = "ack" /\ StageOK(h)
  BY DEF AckMessage, unchangedButDocuments, CompleteInv
<1>2. Pending' \subseteq Pending /\ \A n \in Pending : n \in Pending' \/ n = m
  BY <1>1 DEF Pending
<1>3. /\ \A s : SchoolThere(s) <=> SchoolThere(s)'
      /\ \A p : Registered(p) <=> Registered(p)'
      /\ \A key : ClassThere(key) <=> ClassThere(key)'
      /\ \A k : Full(k) <=> Full(k)'
      /\ classes' = classes /\ schools' = schools
  BY <1>1 DEF documents, SchoolThere, Registered, ClassThere, Full, Listed
<1>4. /\ m.kind = "syncSchool" => SchoolThere(m.key)
      /\ m.kind = "syncUser" => Registered(m.key)
      /\ m.kind = "syncClasses" => ClassThere(m.key) /\ \A k \in classes : k.key = m.key => Full(k)
  BY <1>1 DEF StageOK, SchoolStage, UserStage, ClassStage
<1>5. CalmInv' /\ OneSchool'
  BY <1>1, <1>3 DEF CompleteInv, CalmInv, OneSchool, producerVars
<1>6. ASSUME NEW n \in Pending' PROVE Needs(n)'
  <2>1. Needs(n)
    BY <1>2 DEF CompleteInv, DeliveryInv
  <2>2. \A s : ComesBefore(n, "syncSchool", s) => ComesBefore(n, "syncSchool", s)' \/ SchoolThere(s)
    BY <1>2, <1>4 DEF ComesBefore
  <2>3. \A p : ComesBefore(n, "syncUser", p) => ComesBefore(n, "syncUser", p)' \/ Registered(p)
    BY <1>2, <1>4 DEF ComesBefore
  <2>. QED BY <1>3, <2>1, <2>2, <2>3 DEF Needs, SchoolKey
<1>7. ASSUME NEW r \in Runs PROVE HasSent(r)'
  <2>1. HasSent(r) /\ phase' = phase /\ asked' = asked
    BY <1>1 DEF CompleteInv, DeliveryInv, producerVars
  <2>2. \A s : Comes("syncSchool", s) => Comes("syncSchool", s)' \/ SchoolThere(s)
    BY <1>2, <1>4 DEF Comes
  <2>3. \A p : Comes("syncUser", p) => Comes("syncUser", p)' \/ Registered(p)
    BY <1>2, <1>4 DEF Comes
  <2>4. \A key : Comes("syncClasses", key) => Comes("syncClasses", key)' \/ ClassThere(key)
    BY <1>2, <1>4 DEF Comes
  <2>5. \A s \in LdapSchools : SentSchool(r, s)' => SchoolThere(s)' \/ Comes("syncSchool", s)'
    BY <1>3, <2>1, <2>2 DEF HasSent, SentSchool
  <2>6. \A p \in People : SentUsers(r, PersonSchool[p])' => Registered(p)' \/ Comes("syncUser", p)'
    BY <1>3, <2>1, <2>3 DEF HasSent, SentUsers
  <2>7. \A key \in LdapClasses :
           SentClasses(r, ClassSchool[key])' => ClassThere(key)' \/ Comes("syncClasses", key)'
    BY <1>3, <2>1, <2>4 DEF HasSent, SentClasses
  <2>. QED BY <2>5, <2>6, <2>7 DEF HasSent
<1>8. FullInv'
  <2>1. \A k \in classes : Comes("syncClasses", k.key) => Comes("syncClasses", k.key)' \/ Full(k)
    BY <1>2, <1>4 DEF Comes
  <2>. QED BY <1>3, <2>1 DEF CompleteInv, FullInv
<1>9. \A g \in handlers' : StageOK(g)'
  <2> SUFFICES ASSUME NEW g \in handlers PROVE StageOK(g)'
    BY <1>1
  <2>1. StageOK(g)
    BY DEF CompleteInv
  <2>2. ClassStage(g) => ClassStage(g)'
    BY <1>1, <1>3 DEF ClassStage, Listed, documents
  <2>. QED BY <1>3, <2>1, <2>2 DEF StageOK, SchoolStage, UserStage
<1> QED
  BY <1>5, <1>6, <1>7, <1>8, <1>9 DEF CompleteInv, DeliveryInv
-----------------------------------------------------------------------------
(* What the message of a handler needs is there, as none comes before it.  *)
LEMMA AtHead ==
    ASSUME IInv, SequentialInv, CompleteInv, NEW h \in handlers
    PROVE  /\ handlers = {h} /\ h.msg \in Pending /\ StageOK(h)
           /\ h.msg.kind \in {"syncUser", "syncClasses"} => SchoolThere(SchoolKey(h.msg))
           /\ h.msg.kind = "syncClasses" => \A p \in People : Registered(p)
<1>1. handlers = {h} /\ h.msg \in Pending /\ StageOK(h)
  BY DEF SequentialInv, OneAtATime, Pending, CompleteInv
<1>2. \A m \in Pending : h.msg.number <= m.number
  BY <1>1, PendingTypes DEF Pending, SequentialInv, OrderInv
<1>3. \A kind, key : ~ComesBefore(h.msg, kind, key)
  BY <1>1, <1>2, PendingTypes DEF ComesBefore
<1>4. Needs(h.msg)
  BY <1>1 DEF CompleteInv, DeliveryInv
<1> QED
  BY <1>1, <1>3, <1>4 DEF Needs

LEMMA HandlerComplete ==
    ASSUME IInv, SequentialInv, CompleteInv, NEW h \in handlers, NEW g, Become(h, g), g.msg = h.msg,
           unchangedButDocuments,
           \A s : SchoolThere(s) => SchoolThere(s)',
           \A p : Registered(p) => Registered(p)',
           \A key : ClassThere(key) => ClassThere(key)',
           OneSchool', FullInv', StageOK(g)'
    PROVE  CompleteInv'
<1>1. handlers' = {g} /\ Pending' = Pending
  BY AtHead DEF Become, Pending, unchangedButDocuments
<1>2. CalmInv'
  BY DEF CompleteInv, CalmInv, unchangedButDocuments, producerVars
<1>3. \A m \in Pending' : Needs(m)'
  BY <1>1, DeliveryKept DEF CompleteInv, DeliveryInv
<1>4. \A r \in Runs : HasSent(r)'
  BY <1>1, SentKept DEF CompleteInv, DeliveryInv, unchangedButDocuments, producerVars
<1> QED
  BY <1>1, <1>2, <1>3, <1>4 DEF CompleteInv, DeliveryInv

(* A handler reads, and changes no document.                               *)
LEMMA ReadComplete ==
    ASSUME IInv, SequentialInv, CompleteInv, NEW h \in handlers, NEW g, Become(h, g), g.msg = h.msg,
           unchangedButDocuments, UNCHANGED <<schools, users, classes>>, StageOK(g)
    PROVE  CompleteInv'
<1>1. /\ \A s : SchoolThere(s) <=> SchoolThere(s)'
      /\ \A p : Registered(p) <=> Registered(p)'
      /\ \A key : ClassThere(key) <=> ClassThere(key)'
      /\ \A k : Full(k) <=> Full(k)'
  BY DEF SchoolThere, Registered, ClassThere, Full, Listed
<1>2. OneSchool'
  BY DEF CompleteInv, OneSchool
<1>3. Pending' = Pending
  BY AtHead DEF Become, Pending, unchangedButDocuments
<1>4. FullInv'
  BY <1>1, <1>3 DEF CompleteInv, FullInv, Comes
<1>5. StageOK(g)'
  <2>1. ClassStage(g) => ClassStage(g)'
    BY <1>1 DEF ClassStage, Listed
  <2>. QED BY <1>1, <2>1 DEF StageOK, SchoolStage, UserStage
<1> QED
  BY <1>1, <1>2, <1>4, <1>5, HandlerComplete

LEMMA GotoComplete ==
    ASSUME IInv, SequentialInv, CompleteInv, NEW h \in handlers, NEW label, Goto(h, label),
           unchangedButDocuments, UNCHANGED <<schools, users, classes>>,
           StageOK([h EXCEPT !.pc = label])
    PROVE  CompleteInv'
<1>1. [h EXCEPT !.pc = label].msg = h.msg
  BY DEF IInv, QueueInv, HandlerOK, HandlerType
<1> QED
  BY <1>1, ReadComplete DEF Goto

LEMMA FoundComplete ==
    ASSUME IInv, SequentialInv, CompleteInv, NEW h \in handlers, NEW label, NEW doc, Found(h, label, doc),
           unchangedButDocuments, UNCHANGED <<schools, users, classes>>,
           StageOK([h EXCEPT !.pc = label, !.doc = doc])
    PROVE  CompleteInv'
<1>1. [h EXCEPT !.pc = label, !.doc = doc].msg = h.msg
  BY DEF IInv, QueueInv, HandlerOK, HandlerType
<1> QED
  BY <1>1, ReadComplete DEF Found

(* The stage of a handler at another label.                                *)
LEMMA StageAt ==
    ASSUME NEW h, HandlerOK(h), NEW label, NEW doc
    PROVE  /\ [h EXCEPT !.pc = label].msg = h.msg /\ [h EXCEPT !.pc = label].pc = label
           /\ [h EXCEPT !.pc = label].members = h.members
           /\ [h EXCEPT !.pc = label, !.doc = doc].msg = h.msg
           /\ [h EXCEPT !.pc = label, !.doc = doc].pc = label
           /\ [h EXCEPT !.pc = label, !.doc = doc].members = h.members
BY DEF HandlerOK, HandlerType

LEMMA FindSchoolComplete ==
    ASSUME IInv, SequentialInv, CompleteInv, NEW h \in handlers, unchangedButDocuments,
           h.msg.kind \in {"syncUser", "syncClasses"}, FindSchool(h, SchoolKey(h.msg))
    PROVE  CompleteInv'
<1>1. SchoolsOf(SchoolKey(h.msg)) # {} /\ maintenance = {}
  BY AtHead DEF SchoolThere, SchoolsOf, CompleteInv, CalmInv
<1>2. PICK d \in SchoolsOf(SchoolKey(h.msg)) : Become(h, [h EXCEPT !.school = d.id, !.pc = "find"])
  BY <1>1 DEF FindSchool
<1> DEFINE g == [h EXCEPT !.school = d.id, !.pc = "find"]
<1>3. g.msg = h.msg /\ g.pc = "find"
  BY DEF IInv, QueueInv, HandlerOK, HandlerType
<1> HIDE DEF g
<1>4. StageOK(g)
  BY <1>3 DEF StageOK, SchoolStage, UserStage, ClassStage
<1> QED
  BY <1>2, <1>3, <1>4, ReadComplete DEF FindSchool, documents, g
-----------------------------------------------------------------------------
(* Schools: classes and users stay as they are.                            *)
LEMMA FullStays ==
    ASSUME CompleteInv, Pending' = Pending,
           \A k \in classes' : \E j \in classes :
              j.key = k.key /\ j.id = k.id /\ j.students = k.students /\ j.teachers = k.teachers,
           \A k, j \in classes' : k.id = j.id => k = j,
           \A key, role : Ids(Listed(key), role)' = Ids(Listed(key), role),
           \A p : Registered(p) => Registered(p)'
    PROVE  FullInv'
<1>1. \A k, j \in classes' : k.key = j.key => k = j
  BY DEF CompleteInv, FullInv
<1>2. ASSUME NEW k \in classes' PROVE Full(k)' \/ Comes("syncClasses", k.key)'
  <2>1. PICK j \in classes : j.key = k.key /\ j.students = k.students /\ j.teachers = k.teachers
    OBVIOUS
  <2>2. Full(j) \/ Comes("syncClasses", k.key)
    BY <2>1 DEF CompleteInv, FullInv
  <2>3. Comes("syncClasses", k.key) => Comes("syncClasses", k.key)'
    BY DEF Comes
  <2>4. Full(j) => Full(k)'
    BY <2>1 DEF Full
  <2>. QED BY <2>2, <2>3, <2>4
<1>3. classes' # {} => \A p \in People : Registered(p)'
  BY DEF CompleteInv, FullInv
<1> QED
  BY <1>1, <1>2, <1>3 DEF FullInv

LEMMA SchoolComplete ==
    ASSUME IInv, IInv', SequentialInv, CompleteInv, NEW h \in handlers, SchoolAction(h), unchangedButDocuments
    PROVE  CompleteInv'
<1> DEFINE m == h.msg
<1>0. HandlerOK(h) /\ StageOK(h)
  BY AtHead DEF IInv, QueueInv
<1>1. CASE /\ Running(h, "syncSchool", "findSchool")
           /\ \/ SchoolsOf(m.key) = {} /\ Goto(h, "create")
              \/ \E d \in SchoolsOf(m.key) :
                    Found(h, IF d.revision # m.revision THEN "update" ELSE "ack", d.id)
           /\ UNCHANGED documents
  <2>1. CASE SchoolsOf(m.key) = {} /\ Goto(h, "create")
    <3>1. StageOK([h EXCEPT !.pc = "create"])
      BY <1>0, <1>1, <2>1, StageAt DEF StageOK, SchoolStage, SchoolThere, SchoolsOf, Running
    <3>. QED BY <1>1, <2>1, <3>1, GotoComplete DEF documents
  <2>2. ASSUME NEW d \in SchoolsOf(m.key), NEW label \in {"update", "ack"}, Found(h, label, d.id)
        PROVE  CompleteInv'
    <3>1. SchoolThere(m.key)
      BY DEF SchoolThere, SchoolsOf
    <3>2. StageOK([h EXCEPT !.pc = label, !.doc = d.id])
      BY <1>0, <1>1, <3>1, StageAt DEF StageOK, SchoolStage, Running
    <3>. QED BY <1>1, <2>2, <3>2, FoundComplete DEF documents
  <2>. QED BY <1>1, <2>1, <2>2
<1>2. ASSUME Running(h, "syncSchool", "create") \/ Running(h, "syncSchool", "update"),
             Goto(h, "ack"), UNCHANGED <<users, accounts, classes>>,
             \A s : SchoolThere(s) => SchoolThere(s)', SchoolThere(m.key)', OneSchool'
      PROVE  CompleteInv'
  <2> DEFINE g == [h EXCEPT !.pc = "ack"]
  <2>1. g.msg = h.msg /\ Become(h, g) /\ m.kind = "syncSchool"
    BY <1>0, <1>2, StageAt DEF Goto, Running
  <2>2. StageOK(g)'
    BY <1>0, <1>2, <2>1, StageAt DEF StageOK, SchoolStage, Running
  <2>3. Pending' = Pending
    BY <2>1, AtHead DEF Become, Pending, unchangedButDocuments
  <2>4. /\ \A p : Registered(p) => Registered(p)'
        /\ \A key : ClassThere(key) => ClassThere(key)'
        /\ \A key, role : Ids(Listed(key), role)' = Ids(Listed(key), role)
    BY <1>2 DEF Registered, ClassThere, Listed
  <2>5. \A k, j \in classes' : k.id = j.id => k = j
    BY DEF IInv, ClassesInv, Numbered
  <2>6. FullInv'
    BY <1>2, <2>3, <2>4, <2>5, FullStays
  <2> HIDE DEF g
  <2>. QED BY <1>2, <2>1, <2>2, <2>4, <2>6, HandlerComplete
<1>3. CASE /\ Running(h, "syncSchool", "create")
           /\ schools' = schools \cup
                {[id |-> NewId(schools), ldap |-> m.key, revision |-> m.revision]}
           /\ Goto(h, "ack")
           /\ UNCHANGED <<users, accounts, classes>>
  <2> DEFINE new == [id |-> NewId(schools), ldap |-> m.key, revision |-> m.revision]
  <2>1. schools' = schools \cup {new} /\ new.ldap = m.key
    BY <1>3
  <2> HIDE DEF new
  <2>2. ~SchoolThere(m.key)
    BY <1>0, <1>3 DEF StageOK, SchoolStage, Running
  <2>3. OneSchool'
    BY <2>1, <2>2 DEF OneSchool, SchoolThere, CompleteInv
  <2>4. SchoolThere(m.key)' /\ \A s : SchoolThere(s) => SchoolThere(s)'
    BY <2>1 DEF SchoolThere
  <2>. QED BY <1>2, <1>3, <2>3, <2>4
<1>4. CASE /\ Running(h, "syncSchool", "update")
           /\ schools' = {IF d.id = h.doc THEN [d EXCEPT !.revision = m.revision]
                                          ELSE d : d \in schools}
           /\ Goto(h, "ack")
           /\ UNCHANGED <<users, accounts, classes>>
  <2> DEFINE new(d) == IF d.id = h.doc THEN [d EXCEPT !.revision = m.revision] ELSE d
  <2>1. schools' = {new(d) : d \in schools} /\ \A d \in schools : new(d).id = d.id /\ new(d).ldap = d.ldap
    BY <1>4 DEF IInv, SchoolsInv, SchoolType
  <2> HIDE DEF new
  <2>2. SchoolThere(m.key)
    BY <1>0, <1>4 DEF StageOK, SchoolStage, Running
  <2>3. OneSchool'
    BY <2>1 DEF OneSchool, CompleteInv
  <2>4. \A s : SchoolThere(s) => SchoolThere(s)'
    BY <2>1 DEF SchoolThere
  <2>. QED BY <1>2, <1>4, <2>2, <2>3, <2>4
<1> QED
  BY <1>1, <1>3, <1>4 DEF SchoolAction
-----------------------------------------------------------------------------
(* Users: an update leaves who is there, and none is created after a class.*)
LEMMA SameUsers ==
    ASSUME \A u \in users : \E v \in users' : v.id = u.id /\ v.person = u.person,
           \A v \in users' : \E u \in users : v.id = u.id /\ v.person = u.person
    PROVE  /\ \A key, role : Ids(Listed(key), role)' = Ids(Listed(key), role)
           /\ \A p : Registered(p) => Registered(p)'
BY DEF Ids, Listed, Registered

LEMMA UserComplete ==
    ASSUME IInv, IInv', SequentialInv, CompleteInv, NEW h \in handlers, UserAction(h), unchangedButDocuments
    PROVE  CompleteInv'
<1> DEFINE m == h.msg
<1>0. HandlerOK(h) /\ StageOK(h) /\ (m.kind = "syncUser" => m.key \in People)
  BY AtHead DEF IInv, QueueInv, HandlerOK, MessageOK
<1>1. CASE Running(h, "syncUser", "findSchool") /\ FindSchool(h, PersonSchool[m.key])
  BY <1>1, FindSchoolComplete DEF Running, SchoolKey
<1>2. ASSUME NEW label \in Labels, m.kind = "syncUser",
             Goto(h, label) \/ \E doc : Found(h, label, doc),
             UNCHANGED <<schools, users, classes>>,
             label \in {"update", "updateAccount", "account", "ack"} => Registered(m.key)
      PROVE  CompleteInv'
  <2>1. StageOK([h EXCEPT !.pc = label])
    BY <1>0, <1>2, StageAt DEF StageOK, UserStage
  <2>2. \A doc : StageOK([h EXCEPT !.pc = label, !.doc = doc])
    BY <1>0, <1>2, StageAt DEF StageOK, UserStage
  <2>. QED BY <1>2, <2>1, <2>2, GotoComplete, FoundComplete
<1>3. CASE /\ Running(h, "syncUser", "find")
           /\ \/ /\ LdapUsersOf(m.key, h.school) = {}
                 /\ Goto(h, "checkCreate")
              \/ \E u \in LdapUsersOf(m.key, h.school) :
                    Found(h, IF u.revision # m.revision THEN "update" ELSE "ack", u.id)
           /\ UNCHANGED documents
  <2>1. CASE Goto(h, "checkCreate")
    BY <1>2, <1>3, <2>1 DEF Running, documents, Labels
  <2>2. ASSUME NEW u \in LdapUsersOf(m.key, h.school), NEW label \in {"update", "ack"}, Found(h, label, u.id)
        PROVE  CompleteInv'
    <3>1. Registered(m.key)
      BY DEF LdapUsersOf, Registered
    <3>. QED BY <1>2, <1>3, <2>2, <3>1 DEF Running, documents, Labels
  <2>. QED BY <1>3, <2>1, <2>2
<1>4. CASE /\ Running(h, "syncUser", "update")
           /\ users' = {IF u.id = h.doc THEN [u EXCEPT !.revision = m.revision]
                                        ELSE u : u \in users}
           /\ Goto(h, "updateAccount")
           /\ UNCHANGED <<schools, accounts, classes>>
  <2> DEFINE new(u) == IF u.id = h.doc THEN [u EXCEPT !.revision = m.revision] ELSE u
             g == [h EXCEPT !.pc = "updateAccount"]
  <2>1. users' = {new(u) : u \in users} /\ \A u \in users : new(u).id = u.id /\ new(u).person = u.person
    BY <1>4 DEF IInv, UsersInv, UserType
  <2> HIDE DEF new
  <2>2. /\ \A key, role : Ids(Listed(key), role)' = Ids(Listed(key), role)
        /\ \A p : Registered(p) => Registered(p)'
    BY <2>1, SameUsers
  <2>3. g.msg = h.msg /\ g.pc = "updateAccount" /\ Become(h, g)
    BY <1>0, <1>4, StageAt DEF Goto
  <2> HIDE DEF g
  <2>4. Registered(m.key)'
    BY <1>0, <1>4, <2>2 DEF StageOK, UserStage, Running
  <2>5. StageOK(g)'
    BY <1>4, <2>3, <2>4 DEF StageOK, UserStage, Running
  <2>6. Pending' = Pending
    BY <2>3, AtHead DEF Become, Pending, unchangedButDocuments
  <2>7. \A k, j \in classes' : k.id = j.id => k = j
    BY DEF IInv, ClassesInv, Numbered
  <2>8. OneSchool' /\ FullInv'
    <3>1. FullInv'
      BY <1>4, <2>2, <2>6, <2>7, FullStays
    <3>. QED BY <1>4, <3>1 DEF CompleteInv, OneSchool
  <2>9. /\ \A s : SchoolThere(s) => SchoolThere(s)'
        /\ \A key : ClassThere(key) => ClassThere(key)'
    BY <1>4 DEF SchoolThere, ClassThere
  <2>. QED BY <2>2, <2>3, <2>5, <2>8, <2>9, HandlerComplete
<1>5. CASE Running(h, "syncUser", "updateAccount") /\ Goto(h, "ack") /\ UNCHANGED documents
  <2>1. Registered(m.key)
    BY <1>0, <1>5 DEF StageOK, UserStage, Running
  <2>. QED BY <1>2, <1>5, <2>1 DEF Running, documents, Labels
<1>6. CASE /\ Running(h, "syncUser", "checkCreate")
           /\ Goto(h, IF UsersWith(PersonEmail[m.key]) = {} THEN "create" ELSE "ack")
           /\ UNCHANGED documents
  <2>1. UsersWith(PersonEmail[m.key]) # {} => Registered(m.key)
    BY DEF UsersWith, Registered
  <2>2. CASE UsersWith(PersonEmail[m.key]) = {}
    BY <1>2, <1>6, <2>2 DEF Running, documents, Labels
  <2>3. CASE UsersWith(PersonEmail[m.key]) # {}
    BY <1>2, <1>6, <2>1, <2>3 DEF Running, documents, Labels
  <2>. QED BY <2>2, <2>3
<1>7. CASE /\ Running(h, "syncUser", "create")
           /\ users' = users \cup {[id |-> NewId(users), person |-> m.key,
                                    school |-> h.school, revision |-> m.revision]}
           /\ Found(h, "account", NewId(users))
           /\ UNCHANGED <<schools, accounts, classes>>
  <2> DEFINE new == [id |-> NewId(users), person |-> m.key,
                     school |-> h.school, revision |-> m.revision]
  <2>1. users' = users \cup {new} /\ new.person = m.key
    BY <1>7
  <2>a. PICK g : g = [h EXCEPT !.pc = "account", !.doc = NewId(users)]
    OBVIOUS
  <2>2. g.msg = h.msg /\ g.pc = "account" /\ Become(h, g)
    BY <1>0, <1>7, <2>a, StageAt DEF Found
  <2> HIDE DEF new
  <2>3. m.key \in People /\ ~Registered(m.key)
    BY <1>0, <1>7 DEF SequentialInv, EmailInv, UsersWith, Registered, Running
  <2>4. classes' = {}
    BY <1>7, <2>3 DEF CompleteInv, FullInv
  <2>5. FullInv'
    BY <2>4 DEF FullInv
  <2>6. Registered(m.key)' /\ \A p : Registered(p) => Registered(p)'
    BY <2>1 DEF Registered
  <2>7. StageOK(g)'
    BY <1>7, <2>2, <2>6 DEF StageOK, UserStage, Running
  <2>8. OneSchool'
    BY <1>7 DEF CompleteInv, OneSchool
  <2>9. /\ \A s : SchoolThere(s) => SchoolThere(s)'
        /\ \A key : ClassThere(key) => ClassThere(key)'
    BY <1>7 DEF SchoolThere, ClassThere
  <2>. QED BY <2>2, <2>5, <2>6, <2>7, <2>8, <2>9, HandlerComplete
<1>8. CASE /\ Running(h, "syncUser", "account")
           /\ accounts' = accounts \cup {h.doc}
           /\ Goto(h, "ack")
           /\ UNCHANGED <<schools, users, classes>>
  <2>1. Registered(m.key)
    BY <1>0, <1>8 DEF StageOK, UserStage, Running
  <2>. QED BY <1>2, <1>8, <2>1 DEF Running, Labels
<1> QED
  BY <1>1, <1>3, <1>4, <1>5, <1>6, <1>7, <1>8 DEF UserAction
-----------------------------------------------------------------------------
(* Classes: a handler writes only to the class of its message.             *)
LEMMA WriteComplete ==
    ASSUME IInv, SequentialInv, CompleteInv, NEW h \in handlers, h.msg.kind = "syncClasses",
           NEW g, Become(h, g), g.msg = h.msg, unchangedButDocuments,
           UNCHANGED <<schools, users>>, StageOK(g)',
           \A k, j \in classes' : k.key = j.key => k = j,
           \A k \in classes' : k.key = h.msg.key \/ k \in classes,
           \A k \in classes : \E j \in classes' : k.key = j.key
    PROVE  CompleteInv'
<1>1. h.msg \in Pending /\ Pending' = Pending /\ \A p \in People : Registered(p)
  BY AtHead DEF Become, Pending, unchangedButDocuments
<1>2. /\ \A s : SchoolThere(s) => SchoolThere(s)'
      /\ \A p : Registered(p) => Registered(p)'
      /\ \A key : ClassThere(key) => ClassThere(key)'
      /\ \A k : Full(k) => Full(k)'
      /\ \A kind, key : Comes(kind, key) => Comes(kind, key)'
  BY <1>1 DEF SchoolThere, Registered, ClassThere, Full, Listed, Comes
<1>3. Comes("syncClasses", h.msg.key)'
  BY <1>1 DEF Comes
<1>4. FullInv'
  BY <1>1, <1>2, <1>3 DEF CompleteInv, FullInv
<1>5. OneSchool'
  BY DEF CompleteInv, OneSchool
<1> QED
  BY <1>2, <1>4, <1>5, HandlerComplete

(* The class that a handler has in hand is the only one with its key.      *)
LEMMA OneUpdated ==
    ASSUME IInv, CompleteInv, NEW h \in handlers, IsClass(h.doc, h.msg.key),
           NEW field \in {"revision", "students", "teachers"}, NEW value, UpdateClass(h.doc, field, value)
    PROVE  /\ \A k, j \in classes' : k.key = j.key => k = j
           /\ \A k \in classes' : k.key = h.msg.key \/ k \in classes
           /\ \A k \in classes : \E j \in classes' : k.key = j.key
           /\ ClassThere(h.msg.key)'
           /\ \A k \in classes' : k.key = h.msg.key => \E j \in classes :
                 j.key = k.key /\ k = [j EXCEPT ![field] = value]
<1>1. PICK c \in classes : c.id = h.doc /\ c.key = h.msg.key
  BY DEF IsClass
<1> DEFINE new(k) == IF k.id = h.doc THEN [k EXCEPT ![field] = value] ELSE k
<1>2. classes' = {new(k) : k \in classes}
  BY DEF UpdateClass
<1>3. \A k \in classes : new(k).key = k.key
  BY DEF IInv, ClassesInv, ClassType
<1>4. /\ \A k \in classes : k.key = h.msg.key => k = c
      /\ \A k \in classes : k.id = h.doc => k = c
      /\ \A k, j \in classes : k.key = j.key => k = j
  BY <1>1 DEF CompleteInv, FullInv, IInv, ClassesInv, Numbered
<1>5. \A k \in classes : new(k) = k \/ (k = c /\ new(k) = [c EXCEPT ![field] = value])
  BY <1>4
<1>6. new(c) = [c EXCEPT ![field] = value]
  BY <1>1
<1> HIDE DEF new
<1>7. \A k, j \in classes' : k.key = j.key => k = j
  BY <1>2, <1>3, <1>4
<1>8. \A k \in classes' : k.key = h.msg.key \/ k \in classes
  BY <1>1, <1>2, <1>3, <1>5
<1>9. \A k \in classes : \E j \in classes' : k.key = j.key
  BY <1>2, <1>3
<1>a. ClassThere(h.msg.key)'
  BY <1>1, <1>9 DEF ClassThere
<1>b. \A k \in classes' : k.key = h.msg.key => k = [c EXCEPT ![field] = value]
  BY <1>2, <1>3, <1>4, <1>6
<1> QED
  BY <1>1, <1>7, <1>8, <1>9, <1>a, <1>b

(* The users of the school of a handler are those of the class's school.   *)
LEMMA SchoolMembers ==
    ASSUME IInv, CompleteInv, NEW key, NEW id, IsSchool(id, ClassSchool[key])
    PROVE  {u \in users : u.school = id /\ u.person \in ClassMembers[key]} = Listed(key)
<1>1. PICK d \in schools : d.id = id /\ d.ldap = ClassSchool[key]
  BY DEF IsSchool
<1>2. ASSUME NEW u \in users
      PROVE  u.school = id <=> PersonSchool[u.person] = ClassSchool[key]
  <2>1. PICK e \in schools : e.id = u.school /\ e.ldap = PersonSchool[u.person]
    BY DEF IInv, UsersInv, IsSchool
  <2>2. e.id = d.id <=> e.ldap = d.ldap
    BY DEF IInv, SchoolsInv, CompleteInv, OneSchool
  <2>. QED BY <1>1, <2>1, <2>2
<1> QED
  BY <1>2 DEF Listed

LEMMA ClassComplete ==
    ASSUME IInv, IInv', SequentialInv, CompleteInv, NEW h \in handlers, ClassAction(h), unchangedButDocuments
    PROVE  CompleteInv'
<1> DEFINE m == h.msg
           same == {k \in classes : k.key = m.key}
<1>0. /\ HandlerOK(h) /\ StageOK(h) /\ (m.kind = "syncClasses" => m.key \in LdapClasses)
      /\ h.pc \in {"rename", "members", "students", "teachers"} => IsClass(h.doc, m.key)
  BY AtHead DEF IInv, QueueInv, HandlerOK, MessageOK
<1>1. CASE Running(h, "syncClasses", "findSchool") /\ FindSchool(h, ClassSchool[m.key])
  BY <1>1, FindSchoolComplete DEF Running, SchoolKey
<1>2. CASE /\ Running(h, "syncClasses", "find")
           /\ \/ same = {} /\ Goto(h, "create")
              \/ \E k \in same :
                    Found(h, IF k.revision # m.revision THEN "rename" ELSE "members", k.id)
           /\ UNCHANGED documents
  <2>1. CASE same = {} /\ Goto(h, "create")
    <3>1. StageOK([h EXCEPT !.pc = "create"])
      BY <1>0, <1>2, <2>1, StageAt DEF StageOK, ClassStage, ClassThere, Running
    <3>. QED BY <1>2, <2>1, <3>1, GotoComplete DEF documents
  <2>2. ASSUME NEW k \in same, NEW label \in {"rename", "members"}, Found(h, label, k.id)
        PROVE  CompleteInv'
    <3>1. StageOK([h EXCEPT !.pc = label, !.doc = k.id])
      BY <1>0, <1>2, StageAt DEF StageOK, ClassStage, Running
    <3>. QED BY <1>2, <2>2, <3>1, FoundComplete DEF documents
  <2>. QED BY <1>2, <2>1, <2>2
<1>3. CASE /\ Running(h, "syncClasses", "rename")
           /\ UpdateClass(h.doc, "revision", m.revision)
           /\ Goto(h, "members")
           /\ UNCHANGED <<schools, users, accounts>>
  <2> DEFINE g == [h EXCEPT !.pc = "members"]
  <2>1. g.msg = m /\ g.pc = "members" /\ Become(h, g)
    BY <1>0, <1>3, StageAt DEF Goto
  <2> HIDE DEF g
  <2>2. StageOK(g)'
    BY <1>3, <2>1 DEF StageOK, ClassStage, Running
  <2>3. /\ \A k, j \in classes' : k.key = j.key => k = j
        /\ \A k \in classes' : k.key = m.key \/ k \in classes
        /\ \A k \in classes : \E j \in classes' : k.key = j.key
    BY <1>0, <1>3, OneUpdated DEF Running
  <2>. QED BY <1>3, <2>1, <2>2, <2>3, WriteComplete DEF Running
<1>4. CASE /\ Running(h, "syncClasses", "create")
           /\ classes' = classes \cup
                {[id |-> NewId(classes), key |-> m.key, school |-> h.school,
                  revision |-> m.revision, students |-> {}, teachers |-> {}]}
           /\ Found(h, "members", NewId(classes))
           /\ UNCHANGED <<schools, users, accounts>>
  <2> DEFINE new == [id |-> NewId(classes), key |-> m.key, school |-> h.school,
                     revision |-> m.revision, students |-> {}, teachers |-> {}]
  <2>1. classes' = classes \cup {new} /\ new.key = m.key
    BY <1>4
  <2>2. PICK g : g = [h EXCEPT !.pc = "members", !.doc = NewId(classes)]
    OBVIOUS
  <2> HIDE DEF new
  <2>3. g.msg = m /\ g.pc = "members" /\ Become(h, g)
    BY <1>0, <1>4, <2>2, StageAt DEF Found
  <2>4. StageOK(g)'
    BY <1>4, <2>3 DEF StageOK, ClassStage, Running
  <2>5. ~ClassThere(m.key)
    BY <1>0, <1>4 DEF StageOK, ClassStage, Running
  <2>6. \A k, j \in classes' : k.key = j.key => k = j
    BY <2>1, <2>5 DEF ClassThere, CompleteInv, FullInv
  <2>. QED BY <1>4, <2>1, <2>3, <2>4, <2>6, WriteComplete DEF Running
<1>5. CASE /\ Running(h, "syncClasses", "members")
           /\ Become(h, [h EXCEPT !.pc = "students",
                            !.members = {u \in users : u.school = h.school
                                            /\ u.person \in ClassMembers[m.key]}])
           /\ UNCHANGED documents
  <2>1. PICK g : g = [h EXCEPT !.pc = "students",
                         !.members = {u \in users : u.school = h.school
                                         /\ u.person \in ClassMembers[m.key]}]
    OBVIOUS
  <2>2. IsSchool(h.school, ClassSchool[m.key])
    BY <1>0, <1>5 DEF HandlerOK, SchoolKey, Running
  <2>3. /\ g.msg = m /\ g.pc = "students"
        /\ g.members = {u \in users : u.school = h.school /\ u.person \in ClassMembers[m.key]}
    BY <1>0, <2>1 DEF HandlerOK, HandlerType
  <2>4. g.members = Listed(m.key)
    BY <2>2, <2>3, SchoolMembers
  <2>5. StageOK(g)
    BY <1>5, <2>3, <2>4 DEF StageOK, ClassStage, Running
  <2>. QED BY <1>5, <2>1, <2>3, <2>5, ReadComplete DEF documents
<1>6. CASE /\ Running(h, "syncClasses", "students")
           /\ UpdateClass(h.doc, "students", Ids(h.members, "student"))
           /\ Goto(h, "teachers")
           /\ UNCHANGED <<schools, users, accounts>>
  <2> DEFINE g == [h EXCEPT !.pc = "teachers"]
  <2>1. g.msg = m /\ g.pc = "teachers" /\ g.members = h.members /\ Become(h, g)
    BY <1>0, <1>6, StageAt DEF Goto
  <2> HIDE DEF g
  <2>2. h.members = Listed(m.key) /\ \A key : Listed(key)' = Listed(key)
    BY <1>0, <1>6 DEF StageOK, ClassStage, Running, Listed
  <2>3. /\ \A k, j \in classes' : k.key = j.key => k = j
        /\ \A k \in classes' : k.key = m.key \/ k \in classes
        /\ \A k \in classes : \E j \in classes' : k.key = j.key
        /\ \A k \in classes' : k.key = m.key => \E j \in classes :
              j.key = k.key /\ k = [j EXCEPT !["students"] = Ids(h.members, "student")]
    BY <1>0, <1>6, OneUpdated DEF Running
  <2>4. \A k \in classes' : k.key = m.key => k.students = Ids(Listed(m.key), "student")'
    BY <2>2, <2>3 DEF IInv, ClassesInv, ClassType, Ids
  <2>5. StageOK(g)'
    BY <1>6, <2>1, <2>2, <2>4 DEF StageOK, ClassStage, Running
  <2>. QED BY <1>6, <2>1, <2>3, <2>5, WriteComplete DEF Running
<1>7. CASE /\ Running(h, "syncClasses", "teachers")
           /\ UpdateClass(h.doc, "teachers", Ids(h.members, "teacher"))
           /\ Goto(h, "ack")
           /\ UNCHANGED <<schools, users, accounts>>
  <2> DEFINE g == [h EXCEPT !.pc = "ack"]
  <2>1. g.msg = m /\ g.pc = "ack" /\ Become(h, g)
    BY <1>0, <1>7, StageAt DEF Goto
  <2> HIDE DEF g
  <2>2. /\ h.members = Listed(m.key) /\ \A key : Listed(key)' = Listed(key)
        /\ \A k \in classes : k.key = m.key => k.students = Ids(Listed(m.key), "student")
    BY <1>0, <1>7 DEF StageOK, ClassStage, Running, Listed
  <2>3. /\ \A k, j \in classes' : k.key = j.key => k = j
        /\ \A k \in classes' : k.key = m.key \/ k \in classes
        /\ \A k \in classes : \E j \in classes' : k.key = j.key
        /\ ClassThere(m.key)'
        /\ \A k \in classes' : k.key = m.key => \E j \in classes :
              j.key = k.key /\ k = [j EXCEPT !["teachers"] = Ids(h.members, "teacher")]
    BY <1>0, <1>7, OneUpdated DEF Running
  <2>4. \A k \in classes' : k.key = m.key =>
           /\ k.students = Ids(Listed(m.key), "student")
           /\ k.teachers = Ids(Listed(m.key), "teacher")
    BY <2>2, <2>3 DEF IInv, ClassesInv, ClassType
  <2>5. \A k \in classes' : k.key = m.key => Full(k)'
    BY <2>2, <2>4 DEF Full, Ids
  <2>6. StageOK(g)'
    BY <1>7, <2>1, <2>3, <2>5 DEF StageOK, ClassStage, Running
  <2>. QED BY <1>7, <2>1, <2>3, <2>6, WriteComplete DEF Running
<1> QED
  BY <1>1, <1>2, <1>3, <1>4, <1>5, <1>6, <1>7 DEF ClassAction
-----------------------------------------------------------------------------
LEMMA InitComplete == Init => CompleteInv
<1> SUFFICES ASSUME Init PROVE CompleteInv
  OBVIOUS
<1>1. Pending = {} /\ handlers = {} /\ classes = {}
  BY DEF Init, Pending
<1>2. CalmInv
  BY DEF Init, CalmInv
<1>3. \A r \in Runs : HasSent(r)
  BY DEF Init, HasSent, SentSchool, SentUsers, SentClasses
<1>4. OneSchool
  BY DEF Init, OneSchool
<1>5. FullInv
  BY <1>1 DEF FullInv
<1> QED
  BY <1>1, <1>2, <1>3, <1>4, <1>5 DEF CompleteInv, DeliveryInv

LEMMA StepComplete ==
    ASSUME OnlyCrashes, IInv, IInv', SequentialInv, CompleteInv, [Next]_vars
    PROVE  CompleteInv'
<1>1. ASSUME NEW r \in Runs, Produce(r) PROVE CompleteInv'
  BY <1>1, ProduceComplete
<1>2. ASSUME NEW c \in Consumers, Deliver(c) PROVE CompleteInv'
  BY <1>2, DeliverComplete
<1>3. ASSUME NEW c \in Consumers, Crash(c) PROVE CompleteInv'
  BY <1>3, CrashComplete
<1>4. ASSUME NEW h \in handlers, AckMessage(h) PROVE CompleteInv'
  BY <1>4, AckComplete
<1>5. ASSUME NEW h \in handlers, Execute(h) PROVE CompleteInv'
  BY <1>5, SchoolComplete, UserComplete, ClassComplete DEF Execute
<1>6. CASE ChangeDirectory \/ UNCHANGED vars
  <2>1. /\ UNCHANGED <<producerVars, documents, maintenance>> /\ handlers' = handlers
        /\ Pending' = Pending
    BY <1>6 DEF ChangeDirectory, vars, Pending
  <2>. QED BY <2>1, MoveComplete
<1>7. /\ \A r, s : ~SearchFails(r, s)
      /\ \A h : ~CommandFails(h)
      /\ \A d : ~StartMaintenance(d)
  BY DEF OnlyCrashes, SearchFails, CommandFails, StartMaintenance, Disturb
<1> QED
  BY <1>1, <1>2, <1>3, <1>4, <1>5, <1>6, <1>7 DEF Next, Consume, Finished

(* A run has ended with all it has to send, and all of it was handled.     *)
LEMMA CompleteImplies ==
    ASSUME IInv, CompleteInv, Runs # {}
    PROVE  CompleteAtRest
<1> SUFFICES ASSUME AtRest
             PROVE  /\ \A p \in People : UsersWith(PersonEmail[p]) # {}
                    /\ \A key \in LdapClasses : \E k \in classes :
                          /\ \A other \in classes : other.key = key => other = k
                          /\ k.key = key
                          /\ k.students \cup k.teachers =
                                {u.id : u \in {v \in users : v.person \in ClassMembers[key]
                                                /\ PersonSchool[v.person] = ClassSchool[key]}}
  BY DEF CompleteAtRest
<1>1. \A kind, key : ~Comes(kind, key)
  BY DEF AtRest, Comes, Pending
<1>2. PICK r \in Runs : phase[r] = "done" /\ HasSent(r)
  BY DEF AtRest, RunEnded, CompleteInv, CalmInv, DeliveryInv
<1>3. \A p \in People : Registered(p)
  BY <1>1, <1>2, SyncAssumption DEF HasSent, SentUsers
<1>4. \A p \in People : UsersWith(PersonEmail[p]) # {}
  BY <1>3 DEF Registered, UsersWith
<1>5. ASSUME NEW key \in LdapClasses
      PROVE  \E k \in classes :
                /\ \A other \in classes : other.key = key => other = k
                /\ k.key = key
                /\ k.students \cup k.teachers =
                      {u.id : u \in {v \in users : v.person \in ClassMembers[key]
                                      /\ PersonSchool[v.person] = ClassSchool[key]}}
  <2>1. PICK k \in classes : k.key = key
    BY <1>1, <1>2, SyncAssumption DEF HasSent, SentClasses, ClassThere
  <2>2. \A other \in classes : other.key = key => other = k
    BY <2>1 DEF CompleteInv, FullInv
  <2>3. k.students = Ids(Listed(key), "student") /\ k.teachers = Ids(Listed(key), "teacher")
    BY <1>1, <2>1 DEF CompleteInv, FullInv, Full
  <2>4. \A u \in Listed(key) : PersonRole[u.person] \in {"student", "teacher"}
    BY SyncAssumption DEF Listed, IInv, UsersInv, UserType
  <2>5. Ids(Listed(key), "student") \cup Ids(Listed(key), "teacher") = {u.id : u \in Listed(key)}
    BY <2>4 DEF Ids
  <2>6. Listed(key) = {v \in users : v.person \in ClassMembers[key]
                                      /\ PersonSchool[v.person] = ClassSchool[key]}
    BY DEF Listed
  <2>. QED BY <2>1, <2>2, <2>3, <2>5, <2>6
<1> QED
  BY <1>4, <1>5

(* While only consumers die, a sole consumer handles one message after the *)
(* other: when at least one run was made and all is handled, every person  *)
(* of the directory has a user, and every class is there once, with all    *)
(* its students and teachers - however runs overlap, searches are answered *)
(* and messages are handled again after a crash.                           *)
THEOREM CompleteTheorem ==
    SoleConsumer /\ OnlyCrashes /\ Runs # {} => (Spec => []CompleteAtRest)
<1> SUFFICES ASSUME SoleConsumer, OnlyCrashes, Runs # {}
             PROVE  Spec => []CompleteAtRest
  OBVIOUS
<1>1. Init => CompleteInv
  BY InitComplete
<1>2. IInv /\ IInv' /\ SequentialInv /\ CompleteInv /\ [Next]_vars => CompleteInv'
  BY StepComplete
<1>3. IInv /\ CompleteInv => CompleteAtRest
  BY CompleteImplies
<1>4. Spec => []IInv
  BY IInvTheorem
<1>5. Spec => []SequentialInv
  BY SequentialTheorem
<1> QED
  BY <1>1, <1>2, <1>3, <1>4, <1>5, PTL DEF Spec
=============================================================================
