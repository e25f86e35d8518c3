------------------------------ MODULE LdapSync ------------------------------
(***************************************************************************)
(* Synchronisation of one LDAP system: LDAPSyncer (src/services/sync/      *)
(* strategies) sends a message for every school, user and class to a       *)
(* RabbitMQ queue, and LDAPSyncerConsumer handles up to Prefetch messages  *)
(* at a time with SchoolAction, UserAction and ClassAction.                *)
(*                                                                         *)
(* A handler is suspended at each await; an action is the code between two *)
(* awaits with the database command it waits for.  The revision of the     *)
(* directory stands for the names and attributes that the messages carry.  *)
(* The school year does not change, and nobody else writes the documents.  *)
(***************************************************************************)
EXTENDS Naturals, FiniteSets, Sequences, SequencesExt

CONSTANTS
    Runs,               \* runs of LDAPSyncer, which may overlap
    Consumers,          \* processes with an LDAPSyncerConsumer
    Prefetch,           \* RABBITMQ_MATRIX_CONSUME_CONCURRENCY
    LdapSchools,        \* schools in the directory
    People,             \* users in the directory
    LdapClasses,        \* classes in the directory
    PersonSchool, PersonRole, PersonEmail, ClassSchool, ClassMembers,
    Known,              \* the directory's schools the database has already
    Disturbances,       \* what may happen besides, of:
                        \*   "crash":       a consumer process dies
                        \*   "command":     a database command throws
                        \*   "ldap":        a search in the directory fails
                        \*   "loss":        messages cannot be sent
                        \*   "maintenance": a school enters maintenance mode
    MaxDisturbances,    \* bound: how often something of it happens
    MaxRevision         \* bound: how often the directory changes

Kinds == {"syncSchool", "syncUser", "syncClasses"}

ASSUME SyncAssumption ==
    /\ PersonSchool \in [People -> LdapSchools]
    /\ PersonRole \in [People -> {"student", "teacher"}]
    /\ DOMAIN PersonEmail = People
    /\ ClassSchool \in [LdapClasses -> LdapSchools]
    /\ ClassMembers \in [LdapClasses -> SUBSET People]
    /\ Known \subseteq LdapSchools
    /\ IsFiniteSet(LdapSchools) /\ IsFiniteSet(People) /\ IsFiniteSet(LdapClasses)
    /\ LdapSchools \cap Nat = {}    \* numbers are ids of new documents
    /\ Prefetch \in Nat \ {0}
    /\ MaxDisturbances \in Nat /\ MaxRevision \in Nat

VARIABLES
    directory,          \* revision of the directory
    phase,              \* what each run asks the directory for
    asked,              \* the schools whose answer it waits for
    failed,             \* runs whose promise has rejected
    sent,               \* how many messages were sent
    ready,              \* messages in the queue, by their number
    handlers,           \* messages delivered and not acknowledged, each
                        \* with the state of its handler
    schools, users,     \* documents
    accounts,           \* ids of users that have an account of the system
    classes,
    maintenance,        \* ids of schools in maintenance mode
    disturbances

producerVars == <<phase, asked, failed, sent>>
documents == <<schools, users, accounts, classes>>
vars == <<directory, producerVars, ready, handlers, documents, maintenance,
          disturbances>>

Message(n, kind, key) ==
    [number |-> n, kind |-> kind, key |-> key, revision |-> directory]

(* The documents of a collection are numbered; a school that was there     *)
(* before is identified by its name in the directory.                      *)
Nothing == 0
NewId(collection) == Cardinality(collection) + 1
Handler(m, c) ==
    [msg |-> m, at |-> c, pc |-> "findSchool", school |-> Nothing,
     doc |-> Nothing, members |-> {}]

Disturb(kind) ==
    /\ kind \in Disturbances
    /\ disturbances < MaxDisturbances
    /\ disturbances' = disturbances + 1

Init ==
    /\ directory = 0
    /\ phase = [r \in Runs |-> "schools"]
    /\ asked = [r \in Runs |-> LdapSchools]
    /\ failed = {}
    /\ sent = 0
    /\ ready = {}
    /\ handlers = {}
    /\ schools = {[id |-> s, ldap |-> s, revision |-> 0] : s \in Known}
    /\ users = {}
    /\ accounts = {}
    /\ classes = {}
    /\ maintenance = {}
    /\ disturbances = 0
-----------------------------------------------------------------------------
(* Mutant of Send: the place in the burst is sent as the priority, so the  *)
(* first messages of a later burst overtake the last of an earlier one.    *)
SendByPriority(kind, keys) ==
    /\ \E order \in SetToSeqs(keys) :
          ready' = ready \cup {Message(i, kind, order[i]) : i \in DOMAIN order}
    /\ sent' = sent + Cardinality(keys)
    /\ UNCHANGED disturbances

(* One message for each key, sent in a burst; sendToQueue does not wait,   *)
(* and when there is no channel it logs the error and drops the message.   *)
Send(kind, keys) ==
    \/ /\ \E order \in SetToSeqs(keys) :
             ready' = ready \cup
                {Message(sent + i, kind, order[i]) : i \in DOMAIN order}
       /\ sent' = sent + Cardinality(keys)
       /\ UNCHANGED disturbances
    \/ /\ keys # {}
       /\ Disturb("loss")
       /\ UNCHANGED <<ready, sent>>

(* The directory has answered the last search of a phase.                  *)
Answered(r, s, next) ==
    /\ s \in asked[r]
    /\ IF asked[r] = {s} /\ r \notin failed
       THEN /\ phase' = [phase EXCEPT ![r] = next]
            /\ asked' = [asked EXCEPT ![r] = LdapSchools]
       ELSE /\ asked' = [asked EXCEPT ![r] = @ \ {s}]
            /\ UNCHANGED phase

GetSchools(r) ==
    /\ phase[r] = "schools" /\ r \notin failed
    /\ Send("syncSchool", LdapSchools)
    /\ phase' = [phase EXCEPT ![r] = "users"]
    /\ UNCHANGED <<directory, asked, failed, handlers, documents, maintenance>>

GetUsers(r, s) ==
    /\ phase[r] = "users"
    /\ Answered(r, s, "classes")
    /\ Send("syncUser", {p \in People : PersonSchool[p] = s})
    /\ UNCHANGED <<directory, failed, handlers, documents, maintenance>>

GetClasses(r, s) ==
    /\ phase[r] = "classes"
    /\ Answered(r, s, "done")
    /\ Send("syncClasses", {k \in LdapClasses : ClassSchool[k] = s})
    /\ UNCHANGED <<directory, failed, handlers, documents, maintenance>>

(* A search fails and Promise.all rejects: the run is over, but the other  *)
(* searches it has started are answered and their messages sent.           *)
SearchFails(r, s) ==
    /\ s \in asked[r]
    /\ phase[r] # "done" /\ ~(phase[r] = "schools" /\ r \in failed)
    /\ Disturb("ldap")
    /\ failed' = failed \cup {r}
    /\ asked' = [asked EXCEPT ![r] = IF phase[r] = "schools" THEN {} ELSE @ \ {s}]
    /\ UNCHANGED <<directory, phase, sent, ready, handlers, documents,
                   maintenance>>
-----------------------------------------------------------------------------
(* The broker delivers the oldest message to a consumer that has room.     *)
Deliver(c) ==
    /\ Cardinality({h \in handlers : h.at = c}) < Prefetch
    /\ \E m \in ready :
          /\ \A other \in ready : m.number <= other.number
          /\ ready' = ready \ {m}
          /\ handlers' = handlers \cup {Handler(m, c)}
    /\ UNCHANGED <<directory, producerVars, documents, maintenance, disturbances>>

Become(h, new) == handlers' = (handlers \ {h}) \cup {new}
Goto(h, label) == Become(h, [h EXCEPT !.pc = label])
Found(h, label, d) == Become(h, [h EXCEPT !.pc = label, !.doc = d])

Running(h, kind, label) ==
    h \in handlers /\ h.msg.kind = kind /\ h.pc = label

unchangedButDocuments ==
    UNCHANGED <<directory, producerVars, ready, maintenance, disturbances>>

(* findSchoolByLdapIdAndSystem: findOne, any of the schools with that id.  *)
SchoolsOf(s) == {d \in schools : d.ldap = s}

SchoolAction(h) ==
    LET m == h.msg IN
    \/ /\ Running(h, "syncSchool", "findSchool")
       /\ \/ SchoolsOf(m.key) = {} /\ Goto(h, "create")
          \/ \E d \in SchoolsOf(m.key) :
                Found(h, IF d.revision # m.revision THEN "update" ELSE "ack", d.id)
       /\ UNCHANGED documents
    \/ /\ Running(h, "syncSchool", "create")
       /\ schools' = schools \cup
            {[id |-> NewId(schools), ldap |-> m.key, revision |-> m.revision]}
       /\ Goto(h, "ack")
       /\ UNCHANGED <<users, accounts, classes>>
    \/ /\ Running(h, "syncSchool", "update")
       /\ schools' = {IF d.id = h.doc THEN [d EXCEPT !.revision = m.revision]
                                      ELSE d : d \in schools}
       /\ Goto(h, "ack")
       /\ UNCHANGED <<users, accounts, classes>>

(* Mutant of FindSchool: the check of the maintenance mode is inverted.    *)
FindSchoolInverted(h, key) ==
    /\ \/ SchoolsOf(key) = {} /\ Goto(h, "ack")
       \/ \E d \in SchoolsOf(key) :
             Become(h, [h EXCEPT !.school = d.id,
                            !.pc = IF d.id \in maintenance THEN "find" ELSE "ack"])
    /\ UNCHANGED documents

(* The first await of UserAction and ClassAction: without the school the   *)
(* message fails, in maintenance mode it is ignored, acknowledged in both. *)
FindSchool(h, key) ==
    /\ \/ SchoolsOf(key) = {} /\ Goto(h, "ack")
       \/ \E d \in SchoolsOf(key) :
             Become(h, [h EXCEPT !.school = d.id,
                            !.pc = IF d.id \in maintenance THEN "ack" ELSE "find"])
    /\ UNCHANGED documents

(* Mutant of UsersWith: no user is found by the email.                     *)
UsersWithNone(email) == {}

UsersWith(email) == {u \in users : PersonEmail[u.person] = email}
LdapUsersOf(p, school) == {u \in users : u.person = p /\ u.school = school}

(* Mutant of UserAction: the user is not looked up by its LDAP id.         *)
CreateWithoutCheck(h) ==
    LET m == h.msg IN
    /\ h \in handlers /\ m.kind = "syncUser"
    /\ \/ /\ h.pc = "findSchool"
          /\ FindSchool(h, PersonSchool[m.key])
       \/ /\ h.pc = "find"
          /\ users' = users \cup {[id |-> NewId(users), person |-> m.key,
                                   school |-> h.school, revision |-> m.revision]}
          /\ Found(h, "account", NewId(users))
          /\ UNCHANGED <<schools, accounts, classes>>
       \/ /\ h.pc = "account"
          /\ accounts' = accounts \cup {h.doc}
          /\ Goto(h, "ack")
          /\ UNCHANGED <<schools, users, classes>>

(* A user that is found is updated when it differs; updating the account   *)
(* creates none.  Otherwise the email is checked, the user created, and    *)
(* then the account.                                                       *)
UserAction(h) ==
    LET m == h.msg IN
    \/ /\ Running(h, "syncUser", "findSchool")
       /\ FindSchool(h, PersonSchool[m.key])
    \/ /\ Running(h, "syncUser", "find")
       /\ \/ /\ LdapUsersOf(m.key, h.school) = {}
             /\ Goto(h, "checkCreate")
          \/ \E u \in LdapUsersOf(m.key, h.school) :
                Found(h, IF u.revision # m.revision THEN "update" ELSE "ack", u.id)
       /\ UNCHANGED documents
    \/ /\ Running(h, "syncUser", "update")
       /\ users' = {IF u.id = h.doc THEN [u EXCEPT !.revision = m.revision]
                                    ELSE u : u \in users}
       /\ Goto(h, "updateAccount")
       /\ UNCHANGED <<schools, accounts, classes>>
    \/ /\ Running(h, "syncUser", "updateAccount")
       /\ Goto(h, "ack")
       /\ UNCHANGED documents
    \/ /\ Running(h, "syncUser", "checkCreate")
       /\ Goto(h, IF UsersWith(PersonEmail[m.key]) = {} THEN "create" ELSE "ack")
       /\ UNCHANGED documents
    \/ /\ Running(h, "syncUser", "create")
       /\ users' = users \cup {[id |-> NewId(users), person |-> m.key,
                                school |-> h.school, revision |-> m.revision]}
       /\ Found(h, "account", NewId(users))
       /\ UNCHANGED <<schools, accounts, classes>>
    \/ /\ Running(h, "syncUser", "account")
       /\ accounts' = accounts \cup {h.doc}
       /\ Goto(h, "ack")
       /\ UNCHANGED <<schools, users, classes>>

(* Mutants of Ids: the ids of the directory; the role ignored.             *)
LdapIds(us, role) == {u.person : u \in {v \in us : PersonRole[v.person] = role}}
AllIds(us, role) == {u.id : u \in us}

Ids(us, role) == {u.id : u \in {v \in us : PersonRole[v.person] = role}}

(* Mutant of UpdateClass: the teachers are written as students.            *)
UpdateStudents(id, field, value) ==
    classes' = {IF k.id = id THEN [k EXCEPT !.students = value] ELSE k : k \in classes}

UpdateClass(id, field, value) ==
    classes' = {IF k.id = id THEN [k EXCEPT ![field] = value] ELSE k : k \in classes}

(* The class is found or created, renamed when it differs, and then gets   *)
(* the users that are found now for its members: students, then teachers.  *)
ClassAction(h) ==
    LET m == h.msg
        same == {k \in classes : k.key = m.key} IN
    \/ /\ Running(h, "syncClasses", "findSchool")
       /\ FindSchool(h, ClassSchool[m.key])
    \/ /\ Running(h, "syncClasses", "find")
       /\ \/ same = {} /\ Goto(h, "create")
          \/ \E k \in same :
                Found(h, IF k.revision # m.revision THEN "rename" ELSE "members", k.id)
       /\ UNCHANGED documents
    \/ /\ Running(h, "syncClasses", "rename")
       /\ UpdateClass(h.doc, "revision", m.revision)
       /\ Goto(h, "members")
       /\ UNCHANGED <<schools, users, accounts>>
    \/ /\ Running(h, "syncClasses", "create")
       /\ classes' = classes \cup
            {[id |-> NewId(classes), key |-> m.key, school |-> h.school,
              revision |-> m.revision, students |-> {}, teachers |-> {}]}
       /\ Found(h, "members", NewId(classes))
       /\ UNCHANGED <<schools, users, accounts>>
    \/ /\ Running(h, "syncClasses", "members")
       /\ Become(h, [h EXCEPT !.pc = "students",
                        !.members = {u \in users : u.school = h.school
                                        /\ u.person \in ClassMembers[m.key]}])
       /\ UNCHANGED documents
    \/ /\ Running(h, "syncClasses", "students")
       /\ UpdateClass(h.doc, "students", Ids(h.members, "student"))
       /\ Goto(h, "teachers")
       /\ UNCHANGED <<schools, users, accounts>>
    \/ /\ Running(h, "syncClasses", "teachers")
       /\ UpdateClass(h.doc, "teachers", Ids(h.members, "teacher"))
       /\ Goto(h, "ack")
       /\ UNCHANGED <<schools, users, accounts>>

Execute(h) ==
    /\ SchoolAction(h) \/ UserAction(h) \/ ClassAction(h)
    /\ unchangedButDocuments

(* finally: the message is acknowledged, whether or not it succeeded.      *)
AckMessage(h) ==
    /\ h \in handlers /\ h.pc = "ack"
    /\ handlers' = handlers \ {h}
    /\ UNCHANGED documents
    /\ unchangedButDocuments

(* A command throws and the error is logged.  If the command has had its   *)
(* effect, it is as if it succeeded and the next one throws.               *)
CommandFails(h) ==
    /\ h \in handlers /\ h.pc # "ack"
    /\ Disturb("command")
    /\ Goto(h, "ack")
    /\ UNCHANGED <<directory, producerVars, ready, documents, maintenance>>

(* The broker puts the messages of a dead consumer back to their places.   *)
Crash(c) ==
    LET lost == {h \in handlers : h.at = c} IN
    /\ lost # {}
    /\ Disturb("crash")
    /\ handlers' = handlers \ lost
    /\ ready' = ready \cup {h.msg : h \in lost}
    /\ UNCHANGED <<directory, producerVars, documents, maintenance>>

ChangeDirectory ==
    /\ directory < MaxRevision
    /\ directory' = directory + 1
    /\ UNCHANGED <<producerVars, ready, handlers, documents, maintenance,
                   disturbances>>

StartMaintenance(d) ==
    /\ d.id \notin maintenance
    /\ Disturb("maintenance")
    /\ maintenance' = maintenance \cup {d.id}
    /\ UNCHANGED <<directory, producerVars, ready, handlers, documents>>

RunEnded(r) == phase[r] = "done" \/ (r \in failed /\ asked[r] = {})
AtRest == (\A r \in Runs : RunEnded(r)) /\ ready = {} /\ handlers = {}
Finished == AtRest /\ UNCHANGED vars

Produce(r) ==
    GetSchools(r) \/ \E s \in LdapSchools : GetUsers(r, s) \/ GetClasses(r, s)
Consume(c) ==
    \/ Deliver(c)
    \/ \E h \in handlers : h.at = c /\ (Execute(h) \/ AckMessage(h))

Next ==
    \/ \E r \in Runs : Produce(r) \/ \E s \in LdapSchools : SearchFails(r, s)
    \/ \E c \in Consumers : Consume(c) \/ Crash(c)
    \/ \E h \in handlers : CommandFails(h)
    \/ ChangeDirectory
    \/ \E d \in schools : StartMaintenance(d)
    \/ Finished

Spec == Init /\ [][Next]_vars

(* The directory answers, the broker delivers and the event loop of a      *)
(* consumer resumes each of its handlers.                                  *)
FairSpec ==
    /\ Spec
    /\ \A r \in Runs : WF_vars(Produce(r))
    /\ \A c \in Consumers : WF_vars(Consume(c))
-----------------------------------------------------------------------------
SchoolIds == Nat \cup LdapSchools

(* A user in the hands of a handler may have been updated since.           *)
HasIdentity(v) ==
    \E u \in users : u.id = v.id /\ u.person = v.person /\ u.school = v.school

TypeOK ==
    /\ directory \in 0..MaxRevision
    /\ phase \in [Runs -> {"schools", "users", "classes", "done"}]
    /\ asked \in [Runs -> SUBSET LdapSchools]
    /\ failed \subseteq Runs
    /\ sent \in Nat
    /\ \A m \in ready \cup {h.msg : h \in handlers} :
          /\ m.number \in 1..sent /\ m.kind \in Kinds
          /\ m.revision \in 0..directory
          /\ m.kind = "syncSchool" => m.key \in LdapSchools
          /\ m.kind = "syncUser" => m.key \in People
          /\ m.kind = "syncClasses" => m.key \in LdapClasses
    /\ \A h \in handlers : h.at \in Consumers /\ \A v \in h.members : HasIdentity(v)
    /\ \A d \in schools :
          d.id \in SchoolIds /\ d.ldap \in LdapSchools /\ d.revision \in 0..directory
    /\ \A u \in users :
          /\ u.id \in 1..Cardinality(users) /\ u.person \in People /\ u.school \in SchoolIds
          /\ u.revision \in 0..directory
    /\ accounts \subseteq 1..Cardinality(users)
    /\ \A k \in classes :
          /\ k.id \in 1..Cardinality(classes) /\ k.key \in LdapClasses /\ k.school \in SchoolIds
          /\ k.revision \in 0..directory
          /\ k.students \cup k.teachers \subseteq 1..Cardinality(users)
    /\ maintenance \subseteq SchoolIds
    /\ disturbances \in 0..MaxDisturbances

(* A class lists only users that the directory lists for it, who belong to *)
(* its school, as students or as teachers according to their role.         *)
Lists(k, ids, role) ==
    \A id \in ids : \E u \in users :
        /\ u.id = id /\ PersonRole[u.person] = role
        /\ u.person \in ClassMembers[k.key]
        /\ PersonSchool[u.person] = ClassSchool[k.key]

ClassListsItsMembers ==
    \A k \in classes : Lists(k, k.students, "student") /\ Lists(k, k.teachers, "teacher")

(* An account belongs to a user, and no person of the directory has two    *)
(* users, if no two messages are about one person or email, or one is      *)
(* handled at a time: also when it is handled again after a crash.         *)
OneUserPerPerson ==
    /\ \A id \in accounts : \E u \in users : u.id = id
    /\ \A u, v \in users : u.person = v.person => u = v

(* No two users have the same email.                                       *)
OneUserPerEmail ==
    \A u, v \in users : PersonEmail[u.person] = PersonEmail[v.person] => u = v

(* When everything is handled, every class of the directory is there once, *)
(* with all the users the database has for its members, and every person   *)
(* has a user, unless another person with the same email has one.          *)
CompleteAtRest ==
    AtRest =>
        /\ \A p \in People : UsersWith(PersonEmail[p]) # {}
        /\ \A key \in LdapClasses : \E k \in classes :
              /\ \A other \in classes : other.key = key => other = k
              /\ k.key = key
              /\ k.students \cup k.teachers =
                    {u.id : u \in {v \in users : v.person \in ClassMembers[key]
                                                /\ PersonSchool[v.person] = ClassSchool[key]}}

(* A user's data never goes back to an earlier state of the directory.     *)
NeverGoesBack ==
    [][ \A u \in users, v \in users' : u.id = v.id => v.revision >= u.revision ]_vars

(* Unless something fails, every email of the directory gets a user with   *)
(* an account, whatever order the messages of overlapping runs come in.    *)
EveryEmailGetsAccount ==
    \A p \in People :
        <>(\/ disturbances > 0
           \/ \E u \in UsersWith(PersonEmail[p]) : u.id \in accounts)
=============================================================================
