--------------------------- MODULE MessengerSync ---------------------------
(***************************************************************************)
(* Synchronisation of courses, teams and users with the Matrix messenger   *)
(* (src/services/messengerSync): listeners of the services send small      *)
(* messages to an internal queue; its consumer reads the data they name    *)
(* and sends orders to an external queue with priorities, whose consumer   *)
(* is the synchronisation of the Matrix server (external).                 *)
(*                                                                         *)
(* One school.  An action is the code between two awaits with the command  *)
(* it waits for.                                                           *)
(***************************************************************************)
EXTENDS RabbitChannel, FiniteSets

CONSTANTS
    Users, Courses, TeamRooms,
    Muted,              \* members of teams, of a school without messenger
    Handlers,           \* bound: calls of handleMessage under way at once
    UserPage,           \* what one find of the service "users" returns at most
    CoursePage,         \* and of the service "courses"
    Faults,             \* what may go wrong, of the kinds below
    MaxEvents,          \* bound: events of the services
    MaxFaults,          \* bound: faults
    MaxTroubles         \* bound: both together, where slow handlers do not count

Kinds == {"fail",       \* a command of a handler throws
          "crash",      \* the process of the consumer dies
          "close",      \* the channel closes, handlers go on
          "slow",       \* and are still there when it is consumed again
          "drop"}       \* a message is sent without a channel
Rooms == Courses \cup TeamRooms
NoUser == "nobody"

ASSUME MessengerAssumption ==
    /\ Courses \cap TeamRooms = {} /\ Users \cap (Courses \cup TeamRooms) = {} /\ Muted \subseteq Users
    /\ NoUser \notin Users \cup Courses \cup TeamRooms
    /\ IsFiniteSet(Users) /\ IsFiniteSet(Courses)
    /\ Faults \subseteq Kinds
    /\ UserPage \in Nat /\ CoursePage \in Nat
    /\ MaxEvents \in Nat /\ MaxFaults \in Nat /\ MaxTroubles \in Nat

VARIABLES
    exists, archived, members,      \* courses and teams in the database
    gone,                           \* deleted users
    active,                         \* school.features has the messenger
    handler,                        \* the calls of handleMessage
    external,                       \* the external queue
    matrix,                         \* rooms of the Matrix server, with members
    events, faults,                 \* how many there were
    lost,                           \* history: a message or an order was dropped
    overtaken,                      \* history: an order passed an older one for its room
    mistaken,                       \* history: a handler settled the delivery of another
    muted                           \* history: the school had no messenger

data == <<exists, archived, members, gone, active>>
histories == <<lost, overtaken, mistaken, muted>>
vars == <<queue, data, handler, external, matrix, events, faults, histories>>

Message ==
    [action : {"syncUser", "deleteUser"}, about : Users, schoolSync : BOOLEAN]
    \cup [action : {"syncRoom", "deleteRoom"}, about : Rooms, schoolSync : BOOLEAN]
    \cup [action : {"syncSchool"}, about : {NoUser}, schoolSync : BOOLEAN]
Msg(action, about, schoolSync) == [action |-> action, about |-> about, schoolSync |-> schoolSync]

NoRoom == {NoUser}
IsRoom(r) == matrix[r] # NoRoom

NoMsg == Msg("syncSchool", NoUser, FALSE)
(* outlived is a history: the channel of the delivery has closed.          *)
Idle == [pc |-> "idle", tag |-> 0, msg |-> NoMsg, again |-> FALSE, read |-> {}, outlived |-> FALSE]
HandlerType ==
    [pc : {"idle", "expand", "build", "removals", "acknowledge"}, tag : Nat, msg : Message,
     again : BOOLEAN, read : SUBSET (Users \cup Rooms), outlived : BOOLEAN]
OrderType ==
    [method : {"addRoom", "removeRoom", "addUser", "removeUser"}, about : Users \cup Rooms,
     users : SUBSET Users, rooms : SUBSET Rooms, priority : {0, 2}]

(* Only teams have members of other schools.                               *)
May(r) == IF r \in Courses THEN Users \ Muted ELSE Users

(* buildAddTeamMessage leaves out members of schools without messenger.    *)
Invited(r, users) == IF r \in TeamRooms THEN users \ Muted ELSE users

TypeOK ==
    /\ QueueTypeOK(Message)
    /\ exists \in [Rooms -> BOOLEAN] /\ archived \in [Rooms -> BOOLEAN]
    /\ members \in [Rooms -> SUBSET Users] /\ gone \subseteq Users /\ active \in BOOLEAN
    /\ handler \in [Handlers -> HandlerType] /\ external \in Seq(OrderType)
    /\ matrix \in [Rooms -> (SUBSET Users) \cup {NoRoom}]
    /\ lost \in BOOLEAN /\ overtaken \in BOOLEAN /\ mistaken \in BOOLEAN /\ muted \in BOOLEAN

Init ==
    /\ QueueInit
    /\ exists = [r \in Rooms |-> TRUE] /\ archived = [r \in Rooms |-> FALSE]
    /\ members = [r \in Rooms |-> May(r)] /\ gone = {} /\ active = TRUE
    /\ handler = [h \in Handlers |-> Idle]
    /\ external = <<>> /\ matrix = [r \in Rooms |-> Users \ Muted]
    /\ events = 0 /\ faults = 0
    /\ lost = FALSE /\ overtaken = FALSE /\ mistaken = FALSE /\ muted = FALSE

Fault(kind) ==
    /\ kind \in Faults /\ faults < MaxFaults
    /\ kind = "slow" \/ events + faults < MaxTroubles
    /\ faults' = faults + 1
-----------------------------------------------------------------------------
(* eventListener.js: what the services emit after a change.  A message     *)
(* that is sent without a channel is logged and gone.                      *)
Emit(message) ==
    /\ events < MaxEvents /\ events + faults < MaxTroubles
    /\ events' = events + 1
    /\ \/ ready' = Sent(<<message>>) /\ UNCHANGED <<faults, lost>>
       \/ Fault("drop") /\ lost' = TRUE /\ UNCHANGED ready
    /\ muted' = (muted \/ ~active')
    /\ UNCHANGED <<channel, handler, external, matrix, overtaken, mistaken>>

(* requestCourseSync; teams are not archived.                              *)
RoomSync(r, isArchived) == Msg(IF isArchived THEN "deleteRoom" ELSE "syncRoom", r, FALSE)

PatchMembers(r) ==
    /\ exists[r]
    /\ \E u \in May(r) \ gone : members' = [members EXCEPT ![r] = IF u \in @ THEN @ \ {u} ELSE @ \cup {u}]
    /\ UNCHANGED <<exists, archived, gone, active>>
    /\ Emit(RoomSync(r, archived[r]))

Archive(r) ==
    /\ exists[r] /\ r \in Courses
    /\ archived' = [archived EXCEPT ![r] = ~@]
    /\ UNCHANGED <<exists, members, gone, active>>
    /\ Emit(RoomSync(r, ~archived[r]))

RemoveRoom(r) ==
    /\ exists[r]
    /\ exists' = [exists EXCEPT ![r] = FALSE]
    /\ UNCHANGED <<archived, members, gone, active>>
    /\ Emit(Msg("deleteRoom", r, FALSE))

(* The deletion of a user: the courses forget them without an event, then  *)
(* the facade of the messenger asks for their removal; teams keep them.    *)
DeleteUser(u) ==
    /\ u \notin gone /\ gone' = gone \cup {u}
    /\ members' = [r \in Rooms |-> IF r \in Courses THEN members[r] \ {u} ELSE members[r]]
    /\ UNCHANGED <<exists, archived, active>>
    /\ Emit(Msg("deleteUser", u, FALSE))

PatchUser(u) == u \notin gone /\ UNCHANGED data /\ Emit(Msg("syncUser", u, FALSE))

PatchSchool ==
    /\ active' \in BOOLEAN
    /\ UNCHANGED <<exists, archived, members, gone>>
    /\ Emit(Msg("syncSchool", NoUser, FALSE))
-----------------------------------------------------------------------------
Set(h, new) == handler' = [handler EXCEPT ![h] = new]

(* The broker delivers, and handleMessage is called.                       *)
Receive(h) ==
    /\ handler[h].pc = "idle"
    /\ Deliver
    /\ Set(h, [Idle EXCEPT !.pc = "expand", !.tag = tags + 1, !.msg = Head(ready).msg,
                           !.again = Head(ready).redelivered])
    /\ UNCHANGED <<data, external, matrix, events, faults, histories>>

(* The end of handleMessage.  Nothing listens to the error of a channel    *)
(* that the broker closes, so the process may die of it.                   *)
Left == [g \in Handlers |->
            [handler[g] EXCEPT !.outlived = @ \/ (handler[g].pc # "idle" /\ ~consuming')]]
Done(h) ==
    /\ mistaken' = (mistaken \/ (handler[h].outlived /\ Known(handler[h].tag)))
    /\ \/ handler' = [Left EXCEPT ![h] = Idle]
       \/ consuming /\ ~consuming' /\ handler' = [g \in Handlers |-> Idle]
Acknowledge(h) == Ack(handler[h].tag) /\ Done(h)
(* Mutant of Refuse: a message that is not to be synchronised is left.     *)
LeaveUnsettled(h) == Set(h, Idle) /\ UNCHANGED <<queue, mistaken>>
Refuse(h) == Reject(handler[h].tag, FALSE) /\ Done(h)

(* The school of a message: deletions carry its id, others take it from    *)
(* the course or team, which may be gone.                                  *)
HasSchool(m) == m.action = "syncRoom" => exists[m.about]

(* A full synchronisation of a user reads their courses, archived ones     *)
(* included, and teams; that of a room its members.                        *)
RoomsOf(u) == {r \in Rooms : exists[r] /\ u \in members[r]}
Read(m) == CASE m.action = "syncRoom" -> members[m.about]
             [] m.action = "syncUser" -> RoomsOf(m.about)
             [] OTHER                 -> {}

(* expandContentIds, messengerIsActivatedForSchool, and the reads of the   *)
(* builders.                                                               *)
Expand(h) ==
    LET m == handler[h].msg
    IN  /\ handler[h].pc = "expand"
        /\ IF HasSchool(m) /\ active /\ m.about \notin Muted
           THEN Set(h, [handler[h] EXCEPT !.pc = "build", !.read = Read(m)])
                /\ UNCHANGED <<queue, mistaken>>
           ELSE Refuse(h)
        /\ UNCHANGED <<data, external, matrix, events, faults, lost, overtaken, muted>>

Order(method, about, users, rooms, priority) ==
    [method |-> method, about |-> about, users |-> users, rooms |-> rooms, priority |-> priority]
Priority(m) == IF m.schoolSync THEN 0 ELSE 2

BuildAddRoom(h) ==
    LET m == handler[h].msg
    IN  Order("addRoom", m.about, Invited(m.about, handler[h].read), {m.about}, Priority(m))
BuildDeleteRoom(h) ==
    LET m == handler[h].msg IN Order("removeRoom", m.about, {}, {m.about}, Priority(m))
BuildDeleteUser(h) ==
    LET m == handler[h].msg IN Order("removeUser", m.about, {m.about}, Rooms, Priority(m))

BuildAddUser(h) ==
    LET m == handler[h].msg IN Order("addUser", m.about, {m.about}, handler[h].read, Priority(m))

Build(h) ==
    CASE handler[h].msg.action = "syncRoom"   -> BuildAddRoom(h)
      [] handler[h].msg.action = "deleteRoom" -> BuildDeleteRoom(h)
      [] handler[h].msg.action = "deleteUser" -> BuildDeleteUser(h)
      [] handler[h].msg.action = "syncUser"   -> BuildAddUser(h)

(* An order that is older than what was already sent for a room: it says   *)
(* what is not so any more, and the message of the change was handled.  A  *)
(* handler whose channel has closed does not count: it may die with what   *)
(* it has in hand.                                                         *)
Action(a) ==
    CASE a \in Users -> IF a \in gone THEN "deleteUser" ELSE "syncUser"
      [] a \in Rooms -> IF exists[a] /\ ~archived[a] THEN "syncRoom" ELSE "deleteRoom"
Held(pcs) ==
    {ready[i].msg : i \in DOMAIN ready}
    \cup {handler[g].msg : g \in {g \in Handlers : handler[g].pc \in pcs /\ ~handler[g].outlived}}
Due(a) == \E m \in Held({"expand"}) : m.action = Action(a) /\ m.about = a
Outdated(h) ==
    LET a == handler[h].msg.about
    IN  CASE handler[h].msg.action = "syncRoom" ->
               ~Due(a) /\ (~exists[a] \/ archived[a] \/ handler[h].read # members[a])
          [] handler[h].msg.action = "deleteRoom" -> ~Due(a) /\ exists[a] /\ ~archived[a]
          [] handler[h].msg.action = "syncUser" ->
               \E r \in handler[h].read \ RoomsOf(a) : ~Due(r) /\ (exists[r] /\ a \in gone => ~Due(a))
          [] OTHER -> FALSE

(* The order is sent, the message acknowledged.                            *)
SendOrder(h) ==
    /\ handler[h].pc = "build" /\ handler[h].msg.action # "syncSchool"
    /\ \/ external' = Append(external, Build(h)) /\ UNCHANGED <<faults, lost>>
       \/ Fault("drop") /\ lost' = TRUE /\ UNCHANGED external
    /\ Acknowledge(h)
    /\ overtaken' = (overtaken \/ Outdated(h))
    /\ UNCHANGED <<data, matrix, events, muted>>

(* A school: a page of its users first, then the removal of the archived   *)
(* ones of a page of its courses.                                          *)
Pages(S, size) == {page \in SUBSET S : Cardinality(page) = IF Cardinality(S) < size
                                                            THEN Cardinality(S) ELSE size}
SyncSchoolUsers(h) ==
    /\ handler[h].pc = "build" /\ handler[h].msg.action = "syncSchool"
    /\ \E page \in Pages(Users \ Muted, UserPage) :
           ready' = Sent(SetToSeq({Msg("syncUser", u, TRUE) : u \in page}))
    /\ Set(h, [handler[h] EXCEPT !.pc = "removals"])
    /\ UNCHANGED <<channel, data, external, matrix, events, faults, histories>>

SyncSchoolRemovals(h) ==
    /\ handler[h].pc = "removals"
    /\ \E page \in Pages({c \in Courses : exists[c]}, CoursePage) :
           ready' = Sent(SetToSeq({Msg("deleteRoom", c, TRUE) : c \in {d \in page : archived[d]}}))
    /\ Set(h, [handler[h] EXCEPT !.pc = "acknowledge"])
    /\ UNCHANGED <<channel, data, external, matrix, events, faults, histories>>

SchoolIsSynced(h) ==
    /\ handler[h].pc = "acknowledge" /\ Acknowledge(h)
    /\ UNCHANGED <<data, external, matrix, events, faults, lost, overtaken, muted>>

(* A command throws: once more, unless the message was delivered before.   *)
HandlerFails(h) ==
    /\ handler[h].pc \in {"expand", "build", "removals"} /\ Fault("fail")
    /\ Reject(handler[h].tag, ~handler[h].again) /\ Done(h)
    /\ lost' = (lost \/ handler[h].again)
    /\ UNCHANGED <<data, external, matrix, events, overtaken, muted>>
-----------------------------------------------------------------------------
ChannelCloses ==
    /\ consuming /\ Fault("close") /\ Close
    /\ handler' = Left
    /\ UNCHANGED <<data, external, matrix, events, histories>>

Crash ==
    /\ Fault("crash") /\ Close
    /\ handler' = [h \in Handlers |-> Idle]
    /\ UNCHANGED <<data, external, matrix, events, histories>>

(* The timer of the reconnection takes seconds, a handler rarely so long.  *)
Reconnect ==
    /\ Reconsume
    /\ \/ (\A h \in Handlers : handler[h].pc = "idle") /\ UNCHANGED faults
       \/ (\E h \in Handlers : handler[h].pc # "idle") /\ Fault("slow")
    /\ UNCHANGED <<data, handler, external, matrix, events, histories>>

(* The consumer of the external queue takes the oldest order of the        *)
(* highest priority (x-max-priority).                                      *)
Applied(o) ==
    [r \in Rooms |->
        IF r \notin o.rooms THEN matrix[r]
        ELSE CASE o.method = "addRoom"     -> o.users
               [] o.method = "removeRoom"  -> NoRoom
               [] o.method = "removeUser"  -> matrix[r] \ o.users
               [] o.method = "addUser"     -> (IF IsRoom(r) THEN matrix[r] ELSE {}) \cup o.users]

TakeOrder ==
    \E first \in DOMAIN external :
        /\ \A j \in DOMAIN external : external[j].priority <= external[first].priority
        /\ \A j \in 1..(first - 1) : external[j].priority < external[first].priority
        /\ matrix' = Applied(external[first])
        /\ external' = RemoveAt(external, first)
        /\ overtaken' = (overtaken \/ \E j \in 1..(first - 1) :
                            external[j].rooms \cap external[first].rooms # {})
        /\ UNCHANGED <<queue, data, handler, events, faults, lost, mistaken, muted>>

Handle(h) == Receive(h) \/ Expand(h) \/ SendOrder(h) \/ SyncSchoolUsers(h)
             \/ SyncSchoolRemovals(h) \/ SchoolIsSynced(h)

Next ==
    \/ \E r \in Rooms : PatchMembers(r) \/ Archive(r) \/ RemoveRoom(r)
    \/ \E u \in Users : PatchUser(u) \/ DeleteUser(u)
    \/ PatchSchool
    \/ \E h \in Handlers : Handle(h) \/ HandlerFails(h)
    \/ ChannelCloses \/ Crash \/ Reconnect \/ TakeOrder

(* The broker delivers, commands return, the timer of the reconnection     *)
(* fires.                                                                  *)
Work(h) == Handle(h) /\ handler[h].pc # "idle"
Fairness ==
    /\ WF_vars(\E h \in Handlers : Receive(h))
    /\ \A h \in Handlers : WF_vars(Work(h))
    /\ WF_vars(Reconnect) /\ WF_vars(TakeOrder)

Spec == Init /\ [][Next]_vars /\ Fairness
-----------------------------------------------------------------------------
AtRest ==
    /\ ready = <<>> /\ unacked = <<>> /\ external = <<>>
    /\ \A h \in Handlers : handler[h].pc = "idle"

(* When both queues are empty, the rooms of the courses and teams on the   *)
(* Matrix server are those of the database, each with its members: closes, *)
(* crashes, deliveries repeated and handlers at work at once do no harm.   *)
(* Four things the code does not guard against are left out: a message     *)
(* that was dropped, orders for a room that changed places (handlers at    *)
(* once, priorities), a slow handler that settled, by its old tag, what    *)
(* another has in hand, and a school whose messenger was off for a while.  *)
(* Teams keep users who are deleted.                                       *)
MirrorAtRest ==
    AtRest /\ ~lost /\ ~overtaken /\ ~mistaken /\ ~muted
        => \A r \in Rooms :
              IF ~exists[r] THEN ~IsRoom(r)
              ELSE ~archived[r] => /\ matrix[r] \ gone = Invited(r, members[r]) \ gone
                                   /\ r \in Courses => matrix[r] \cap gone = {}

(* Whatever closes, crashes or fails, all that is in the queues is handled *)
(* some time: consumeQueue comes back after every close, also after one    *)
(* that a handler of the closed channel brings about on the new one.       *)
QueueDrained == <>[]AtRest
=============================================================================
