----------------------------- MODULE TeamsProofs -----------------------------
(***************************************************************************)
(* Proofs about Teams, for any users, schools and number of requests at    *)
(* once.  A request that has computed an array from the team as it still   *)
(* is (Fresh) will write a sound one: its entries are kept from the team   *)
(* or come with their school, and the owner has their role in it.  Once    *)
(* the team has changed the request is stale, and its write is recorded in *)
(* overlapped.                                                             *)
(***************************************************************************)
EXTENDS Teams, FiniteSetTheorems, SequenceTheorems, TLAPS

TeamEntry == [user : Users \cup {Nobody}, role : TeamRoles, school : Schools]
Invitation == [user : Users, role : InvitedRoles]
Ops == {"none", "patch", "addById", "addByEmail", "removeInvite", "accept", "setOwner",
        "removeSchool", "delete", "userRemoved"}
RequestType ==
    [op : Ops, pc : {"idle", "load", "write", "result", "remove"}, to : Users \cup {Nobody},
     role : InvitedRoles, fields : SUBSET Fields, users : Seq(TeamEntry),
     inv : SUBSET Invitation, schools : SUBSET Schools, stale : BOOLEAN]

TeamInv ==
    /\ exists \in BOOLEAN /\ overlapped \in BOOLEAN
    /\ members \in Seq(TeamEntry)
    /\ invited \subseteq Invitation
    /\ schoolIds \subseteq Schools /\ home \in Schools /\ (exists => home \in schoolIds)
    /\ known \subseteq Users
    /\ sent \in 0..MaxRequests
    /\ sent = 0 => ~exists /\ members = <<>> /\ \A r \in Requests : req[r].pc = "idle"

(* What a request knows besides its types.                                 *)
RequestOK(q) ==
    /\ q \in RequestType
    /\ q.op = "userRemoved" => q.pc \in {"load", "write", "remove"}
    /\ q.pc = "load" => /\ q.op \notin {"none", "patch", "delete"}
                        /\ q.op # "removeSchool" => q.to \in Users
    /\ q.pc = "load" /\ q.op = "setOwner" /\ ~q.stale =>
          q.to \in known /\ (ForeignUsers \/ School[q.to] = home)
    /\ q.pc = "write" /\ "schoolIds" \in q.fields => home \in q.schools /\ "userIds" \in q.fields
    /\ q.pc = "write" /\ q.op = "userRemoved" => q.fields = {"userIds"} /\ q.users # <<>>

(* A write of members computed from the team as it is.                     *)
Fresh(r) == req[r].pc = "write" /\ ~req[r].stale /\ "userIds" \in req[r].fields

TypeInv ==
    /\ TeamInv
    /\ DOMAIN req = Requests
    /\ \A r \in Requests : RequestOK(req[r])

(* An empty team has a request that will look at it or remove it.          *)
EmptyInv ==
    exists /\ members = <<>> => \E r \in Requests : req[r].pc \in {"result", "remove"}

(* The first owner stays the owner in what is about to be written.         *)
KeepsOwner(old, new) ==
    HasOwner(old) =>
        LET owner == old[FirstOwner(old)].user
        IN  owner # Nobody /\ Once(old, owner) /\ IsIn(new, owner)
            => RoleIn(new, owner) = "teamowner"

(* What a service has computed: the arrays of a change.                    *)
Typed(c) ==
    /\ c.fields \in SUBSET Fields /\ c.users \in Seq(TeamEntry)
    /\ c.inv \in SUBSET Invitation /\ c.schools \in SUBSET Schools
    /\ "schoolIds" \in c.fields => home \in c.schools /\ "userIds" \in c.fields

(* Where an entry to be written comes from: it is kept from the team,      *)
(* though its user may have been removed; or its user is there and comes   *)
(* with their school, which is one of the team's from then on.             *)
Kept(e) ==
    \E i \in DOMAIN members :
        /\ e.school = members[i].school
        /\ \/ e.user = members[i].user
           \/ e.user = Nobody /\ members[i].user \notin known

Covered(users, schools) ==
    \A i \in DOMAIN users :
        /\ users[i].school \in schools
        /\ users[i].user # Nobody => users[i].school = School[users[i].user]

Comes(e, schools) ==
    /\ e.user \in known
    /\ ~ForeignUsers /\ Covered(members, schoolIds) =>
          e.school \in schools /\ e.school = School[e.user]

Effective(c) == IF "schoolIds" \in c.fields THEN c.schools ELSE schoolIds

(* What a write of the change c by the request q does to the members.      *)
Sound(q, c) ==
    /\ KeepsOwner(members, c.users)
    /\ schoolIds \subseteq Effective(c)
    /\ \A e \in Range(c.users) : Kept(e) \/ Comes(e, Effective(c))
    /\ q.op = "userRemoved" => UsersOf(c.users) \subseteq UsersOf(members) \ {q.to}

SoundInv ==
    ~overlapped =>
        /\ UsersOf(members) \cap Strangers \subseteq known
        /\ \A r \in Requests : Fresh(r) => Sound(req[r], req[r])

(* The listener will hear of, or has read, every removed member.           *)
Removing(r, u) ==
    req[r].op = "userRemoved" /\ (req[r].stale \/ req[r].to = u)

RemovedInv ==
    ~overlapped /\ exists =>
        \A u \in UsersOf(members) \ known : \E r \in Requests : Removing(r, u)

(* Members come from schools of the team, and each from their own.         *)
CoverInv ==
    ~overlapped /\ exists => Covered(members, schoolIds)
-----------------------------------------------------------------------------
(* Places in a sequence, counted from the first.                           *)
Rank(places, i) == Cardinality({j \in places : j <= i})

(* The places in a sequence are finitely many.                             *)
LEMMA FinitePlaces ==
    ASSUME NEW n \in Nat, NEW places \in SUBSET (1..n)
    PROVE  IsFiniteSet(places)
<1>1. IsFiniteSet(1..n)
  BY FS_Interval
<1> QED
  BY <1>1, FS_Subset

(* A place is determined by its rank, and every rank is taken.             *)
LEMMA Ranks ==
    ASSUME NEW n \in Nat, NEW places \in SUBSET (1..n)
    PROVE  /\ Cardinality(places) \in Nat
           /\ \A i, j \in places : Rank(places, i) = Rank(places, j) => i = j
           /\ \A k \in 1..Cardinality(places) : \E i \in places : Rank(places, i) = k
<1> DEFINE upto(i) == {j \in places : j <= i}
           f == [i \in places |-> Rank(places, i)]
           N == Cardinality(places)
<1>1. IsFiniteSet(places) /\ N \in Nat
  BY FinitePlaces, FS_CardinalityType
<1>2. \A i \in places : /\ upto(i) \subseteq places /\ IsFiniteSet(upto(i))
                        /\ Rank(places, i) \in 1..N
  <2>1. SUFFICES ASSUME NEW i \in places
                 PROVE  /\ upto(i) \subseteq places /\ IsFiniteSet(upto(i))
                        /\ Rank(places, i) \in 1..N
    OBVIOUS
  <2>2. upto(i) \in SUBSET places /\ i \in upto(i)
    OBVIOUS
  <2>3. /\ IsFiniteSet(upto(i)) /\ Cardinality(upto(i)) <= N
        /\ Cardinality(upto(i)) \in Nat
    BY <1>1, <2>2, FS_Subset, FS_CardinalityType
  <2>4. Cardinality(upto(i)) # 0
    BY <2>2, <2>3, FS_EmptySet
  <2>5. Rank(places, i) = Cardinality(upto(i))
    BY DEF Rank
  <2> QED
    BY <1>1, <2>2, <2>3, <2>4, <2>5
<1>3. ASSUME NEW i \in places, NEW j \in places, i < j
      PROVE  Rank(places, i) # Rank(places, j)
  <2>0. i \in Nat /\ j \in Nat /\ \A x \in places : x \in Nat
    OBVIOUS
  <2>1. upto(i) \in SUBSET upto(j) /\ j \in upto(j) /\ j \notin upto(i)
    <3>1. \A x \in places : x <= i => x <= j
      BY <1>3, <2>0
    <3>2. j <= j /\ ~(j <= i)
      BY <1>3, <2>0
    <3> QED
      BY <3>1, <3>2
  <2>2. Cardinality(upto(j)) # Cardinality(upto(i))
    BY <1>2, <2>1, FS_Subset
  <2> QED
    BY <2>2 DEF Rank
<1>4. \A i, j \in places : Rank(places, i) = Rank(places, j) => i = j
  <2>1. \A i, j \in places : i < j \/ j < i \/ i = j
    OBVIOUS
  <2> QED
    BY <1>3, <2>1
<1>5. \A k \in 1..N : \E i \in places : Rank(places, i) = k
  <2>1. f \in Injection(places, 1..N)
    BY <1>2, <1>4 DEF Injection, IsInjective
  <2>2. IsFiniteSet(1..N) /\ Cardinality(1..N) = N
    BY <1>1, FS_Interval
  <2>3. f \in Surjection(places, 1..N)
    BY <1>1, <2>1, <2>2, FS_Injection
  <2> QED
    BY <2>3 DEF Surjection
<1> QED
  BY <1>1, <1>4, <1>5

(* Every non-empty set of places has a first one.                          *)
LEMMA FirstPlace ==
    ASSUME NEW n \in Nat, NEW places \in SUBSET (1..n), places # {}
    PROVE  \E i \in places : \A j \in places : i <= j
<1>1. IsFiniteSet(places)
  BY FinitePlaces
<1>2. Cardinality(places) \in Nat \ {0}
  BY <1>1, FS_CardinalityType, FS_EmptySet
<1>3. PICK i \in places : Rank(places, i) = 1
  <2>1. \A k \in 1..Cardinality(places) : \E i \in places : Rank(places, i) = k
    BY Ranks
  <2>2. 1 \in 1..Cardinality(places)
    BY <1>2
  <2> QED
    BY <2>1, <2>2
<1>4. IsFiniteSet({j \in places : j <= i})
  BY <1>1, FS_Subset
<1>5. PICK x : {j \in places : j <= i} = {x}
  BY <1>3, <1>4, FS_Singleton DEF Rank
<1>6. \A j \in places : j <= i => j = i
  BY <1>5
<1> QED
  BY <1>6

(* A filtered sequence has the entries at the places, and no others.       *)
LEMMA FilterProperties ==
    ASSUME NEW S, NEW s \in Seq(S), NEW places \in SUBSET DOMAIN s
    PROVE  /\ Filter(s, places) \in Seq(S)
           /\ \A k \in DOMAIN Filter(s, places) :
                 \E i \in places : Filter(s, places)[k] = s[i]
           /\ \A i \in places :
                 \E k \in DOMAIN Filter(s, places) : Filter(s, places)[k] = s[i]
<1> DEFINE N == Cardinality(places)
           place(k) == CHOOSE i \in places : Rank(places, i) = k
<1>1. DOMAIN s = 1..Len(s) /\ Len(s) \in Nat /\ \A i \in DOMAIN s : s[i] \in S
  BY LenProperties, ElementOfSeq
<1>2. /\ N \in Nat
      /\ \A i, j \in places : Rank(places, i) = Rank(places, j) => i = j
      /\ \A k \in 1..N : \E i \in places : Rank(places, i) = k
  BY <1>1, Ranks
<1>3. \A k \in 1..N : place(k) \in places /\ Rank(places, place(k)) = k
  BY <1>2
<1>4. Filter(s, places) = [k \in 1..N |-> s[place(k)]]
  BY DEF Filter, Rank
<1>5. \A i \in places : Rank(places, i) \in 1..N
  <2>1. IsFiniteSet(places)
    BY <1>1, FinitePlaces
  <2>2. SUFFICES ASSUME NEW i \in places
                 PROVE  Rank(places, i) \in 1..N
    OBVIOUS
  <2>3. {j \in places : j <= i} \in SUBSET places /\ i \in {j \in places : j <= i}
    BY <1>1
  <2>4. /\ Cardinality({j \in places : j <= i}) <= N
        /\ Cardinality({j \in places : j <= i}) \in Nat \ {0}
    BY <2>1, <2>3, FS_Subset, FS_CardinalityType, FS_EmptySet
  <2> QED
    BY <1>2, <2>4 DEF Rank
<1>6. \A i \in places : place(Rank(places, i)) = i
  BY <1>2, <1>3, <1>5
<1> HIDE DEF place, N
<1>7. Filter(s, places) \in [1..N -> S]
  BY <1>1, <1>3, <1>4
<1>8. Filter(s, places) \in Seq(S)
  BY <1>2, <1>7
<1> QED
  BY <1>3, <1>4, <1>5, <1>6, <1>8
-----------------------------------------------------------------------------
(* The first entry of a user, and the first owner.                         *)
LEMMA FirstEntry ==
    ASSUME NEW S, NEW s \in Seq(S), NEW u, IsIn(s, u)
    PROVE  /\ EntryOf(s, u) \in DOMAIN s
           /\ s[EntryOf(s, u)].user = u
           /\ RoleIn(s, u) = s[EntryOf(s, u)].role
           /\ \A j \in 1..(EntryOf(s, u) - 1) : s[j].user # u
           /\ \A i \in DOMAIN s : s[i].user = u /\ (\A j \in 1..(i - 1) : s[j].user # u)
                                     => i = EntryOf(s, u)
<1>1. DOMAIN s = 1..Len(s) /\ Len(s) \in Nat
  BY LenProperties
<1> DEFINE places == {i \in DOMAIN s : s[i].user = u}
<1>2. PICK i \in places : \A j \in places : i <= j
  <2>1. places # {} /\ places \in SUBSET (1..Len(s))
    BY <1>1 DEF IsIn
  <2> HIDE DEF places
  <2> QED
    BY <1>1, <2>1, FirstPlace
<1>3. \A j \in 1..(i - 1) : s[j].user # u
  BY <1>1, <1>2
<1>4. /\ EntryOf(s, u) \in DOMAIN s /\ s[EntryOf(s, u)].user = u
      /\ \A j \in 1..(EntryOf(s, u) - 1) : s[j].user # u
  BY <1>2, <1>3 DEF EntryOf
<1> QED
  BY <1>1, <1>4 DEF RoleIn

(* SelectInSeq finds an owner if there is one.                             *)
LEMMA FirstOwnerIsOwner ==
    ASSUME NEW S, NEW s \in Seq(S), HasOwner(s)
    PROVE  FirstOwner(s) \in DOMAIN s /\ s[FirstOwner(s)].role = "teamowner"
<1>1. DOMAIN s = 1..Len(s) /\ Len(s) \in Nat
  BY LenProperties
<1> DEFINE places == {i \in 1..Len(s) : s[i].role = "teamowner"}
<1>2. places # {} /\ places \in SUBSET (1..Len(s))
  BY <1>1 DEF HasOwner
<1>3. FirstOwner(s) = Min(places)
  BY <1>2 DEF FirstOwner, SelectInSeq
<1>4. \E i \in places : \A j \in places : i <= j
  <2> HIDE DEF places
  <2> QED
    BY <1>1, <1>2, FirstPlace
<1>5. Min(places) \in places
  <2> HIDE DEF places
  <2> QED
    BY <1>4 DEF Min
<1> QED
  BY <1>1, <1>3, <1>5

(* Who is listed once has one place.                                       *)
LEMMA OnceIsOnce ==
    ASSUME NEW S, NEW s \in Seq(S), NEW u, Once(s, u)
    PROVE  \A i, j \in DOMAIN s : s[i].user = u /\ s[j].user = u => i = j
<1>1. IsFiniteSet({i \in DOMAIN s : s[i].user = u})
  BY LenProperties, FS_Interval, FS_Subset
<1>2. PICK x : {i \in DOMAIN s : s[i].user = u} = {x}
  BY <1>1, FS_Singleton DEF Once
<1> QED
  BY <1>2
-----------------------------------------------------------------------------
(* Each array a service writes, entry by entry: who is in it, from where,  *)
(* and with which role for the first owner.                                *)
LEMMA FilterEntries ==
    ASSUME NEW S, NEW s \in Seq(S), NEW places \in SUBSET DOMAIN s
    PROVE  /\ Filter(s, places) \in Seq(S)
           /\ Range(Filter(s, places)) = {s[i] : i \in places}
<1>1. /\ Filter(s, places) \in Seq(S)
      /\ \A k \in DOMAIN Filter(s, places) : \E i \in places : Filter(s, places)[k] = s[i]
      /\ \A i \in places : \E k \in DOMAIN Filter(s, places) : Filter(s, places)[k] = s[i]
  BY FilterProperties
<1> QED
  BY <1>1 DEF Range

(* The users of an array, by its entries.                                  *)
LEMMA UsersInRange ==
    ASSUME NEW s
    PROVE  /\ UsersOf(s) = {e.user : e \in Range(s)}
           /\ \A u : IsIn(s, u) <=> u \in UsersOf(s)
           /\ \A u : IsIn(s, u) <=> \E e \in Range(s) : e.user = u
  BY DEF UsersOf, Range, IsIn

(* When all entries of a user have one role, it is theirs.                 *)
LEMMA OnlyRole ==
    ASSUME NEW S, NEW s \in Seq(S), NEW u, NEW role, IsIn(s, u),
           \A e \in Range(s) : e.user = u => e.role = role
    PROVE  RoleIn(s, u) = role
<1>1. /\ EntryOf(s, u) \in DOMAIN s /\ s[EntryOf(s, u)].user = u
      /\ RoleIn(s, u) = s[EntryOf(s, u)].role
  BY FirstEntry
<1> QED
  BY <1>1 DEF Range

(* An appended entry changes no one's first entry.                         *)
LEMMA AppendEntries ==
    ASSUME NEW S, NEW s \in Seq(S), NEW e \in S
    PROVE  /\ Append(s, e) \in Seq(S) /\ Append(s, e) # <<>>
           /\ Range(Append(s, e)) = Range(s) \cup {e}
           /\ \A u : IsIn(s, u) => RoleIn(Append(s, e), u) = RoleIn(s, u)
<1>1. DOMAIN s = 1..Len(s) /\ Len(s) \in Nat
  BY LenProperties
<1>2. /\ Append(s, e) \in Seq(S) /\ Append(s, e) # <<>>
      /\ Len(Append(s, e)) = Len(s) + 1
      /\ \A i \in 1..Len(s) : Append(s, e)[i] = s[i]
      /\ Append(s, e)[Len(s) + 1] = e
  BY AppendProperties
<1>3. DOMAIN Append(s, e) = 1..(Len(s) + 1)
  BY <1>2, LenProperties
<1>4. DOMAIN Append(s, e) = DOMAIN s \cup {Len(s) + 1}
  BY <1>1, <1>3
<1>5. Range(Append(s, e)) = Range(s) \cup {e}
  BY <1>1, <1>2, <1>4 DEF Range
<1>6. ASSUME NEW u, IsIn(s, u)
      PROVE  RoleIn(Append(s, e), u) = RoleIn(s, u)
  <2> DEFINE i == EntryOf(s, u)
             k == EntryOf(Append(s, e), u)
  <2>1. /\ i \in 1..Len(s) /\ s[i].user = u /\ RoleIn(s, u) = s[i].role
        /\ \A j \in DOMAIN s : s[j].user = u /\ (\A h \in 1..(j - 1) : s[h].user # u) => j = i
    BY <1>1, <1>6, FirstEntry
  <2>2. \A j \in 1..(i - 1) : s[j].user # u
    BY <1>1, <1>6, FirstEntry
  <2>3. IsIn(Append(s, e), u)
    BY <1>2, <1>4, <2>1, <1>1 DEF IsIn
  <2>4. /\ RoleIn(Append(s, e), u) = Append(s, e)[k].role
        /\ \A j \in DOMAIN Append(s, e) :
              Append(s, e)[j].user = u /\ (\A h \in 1..(j - 1) : Append(s, e)[h].user # u) => j = k
    <3> DEFINE all == Append(s, e)
    <3>1. all \in Seq(S) /\ IsIn(all, u)
      BY <1>2, <2>3
    <3> HIDE DEF all
    <3>2. /\ RoleIn(all, u) = all[EntryOf(all, u)].role
          /\ \A j \in DOMAIN all :
                all[j].user = u /\ (\A h \in 1..(j - 1) : all[h].user # u) => j = EntryOf(all, u)
      BY <3>1, FirstEntry
    <3> QED
      BY <3>2 DEF all
  <2>5. Append(s, e)[i].user = u /\ \A h \in 1..(i - 1) : Append(s, e)[h].user # u
    <3> HIDE DEF i
    <3>1. \A h \in 1..(i - 1) : h \in 1..Len(s)
      BY <1>1, <2>1
    <3> QED
      BY <1>2, <2>1, <2>2, <3>1
  <2>6. i = k
    BY <1>1, <1>4, <2>1, <2>4, <2>5
  <2> QED
    BY <1>2, <2>1, <2>4, <2>6
<1> QED
  BY <1>2, <1>5, <1>6

(* Every user stays, with the first of their entries.                      *)
LEMMA WithoutDuplicatesEntries ==
    ASSUME NEW S, NEW s \in Seq(S)
    PROVE  /\ WithoutDuplicates(s) \in Seq(S)
           /\ Range(WithoutDuplicates(s)) \subseteq Range(s)
           /\ UsersOf(WithoutDuplicates(s)) = UsersOf(s)
           /\ \A u : IsIn(s, u) => RoleIn(WithoutDuplicates(s), u) = RoleIn(s, u)
<1> DEFINE places == {i \in DOMAIN s : EntryOf(s, s[i].user) = i}
           t == WithoutDuplicates(s)
<1>1. t \in Seq(S) /\ Range(t) = {s[i] : i \in places}
  BY FilterEntries DEF WithoutDuplicates
<1>2. Range(t) \subseteq Range(s)
  BY <1>1 DEF Range
<1>3. ASSUME NEW u, IsIn(s, u)
      PROVE  EntryOf(s, u) \in places /\ s[EntryOf(s, u)] \in Range(t)
  <2>1. /\ EntryOf(s, u) \in DOMAIN s /\ s[EntryOf(s, u)].user = u
    BY <1>3, FirstEntry
  <2>2. EntryOf(s, u) \in places
    BY <2>1
  <2> QED
    BY <1>1, <2>2
<1>4. UsersOf(t) = UsersOf(s)
  <2>1. \A u \in UsersOf(t) : u \in UsersOf(s)
    BY <1>2, UsersInRange
  <2>2. ASSUME NEW u \in UsersOf(s)
        PROVE  u \in UsersOf(t)
    <3>1. IsIn(s, u)
      BY UsersInRange
    <3>2. s[EntryOf(s, u)] \in Range(t) /\ s[EntryOf(s, u)].user = u
      BY <1>3, <3>1, FirstEntry
    <3> QED
      BY <3>2, UsersInRange
  <2> QED
    BY <2>1, <2>2
<1>5. ASSUME NEW u, IsIn(s, u)
      PROVE  RoleIn(t, u) = RoleIn(s, u)
  <2>1. IsIn(t, u)
    BY <1>4, <1>5, UsersInRange
  <2>2. \A e \in Range(t) : e.user = u => e.role = RoleIn(s, u)
    <3>1. SUFFICES ASSUME NEW i \in places, s[i].user = u
                   PROVE  s[i].role = RoleIn(s, u)
      BY <1>1
    <3> QED
      BY <3>1 DEF RoleIn
  <2> HIDE DEF t
  <2> QED
    BY <1>1, <2>1, <2>2, OnlyRole
<1> QED
  BY <1>1, <1>2, <1>4, <1>5

(* Populating changes the removed users, nothing else.                     *)
LEMMA PopulatedEntries ==
    ASSUME NEW users \in Seq(TeamEntry)
    PROVE  /\ Populated(users) \in Seq(TeamEntry)
           /\ DOMAIN Populated(users) = DOMAIN users
           /\ \A i \in DOMAIN users :
                 /\ Populated(users)[i].role = users[i].role
                 /\ Populated(users)[i].school = users[i].school
                 /\ users[i].user \in known => Populated(users)[i].user = users[i].user
                 /\ users[i].user \notin known => Populated(users)[i].user = Nobody
<1>1. /\ DOMAIN users = 1..Len(users) /\ Len(users) \in Nat
      /\ \A i \in DOMAIN users : users[i] \in TeamEntry
  BY LenProperties, ElementOfSeq
<1>2. \A i \in DOMAIN users : [users[i] EXCEPT !.user = Nobody] \in TeamEntry
  BY <1>1 DEF TeamEntry
<1>3. Populated(users) \in [1..Len(users) -> TeamEntry]
  BY <1>1, <1>2 DEF Populated
<1>4. Populated(users) \in Seq(TeamEntry)
  BY <1>1, <1>3
<1>5. \A i \in DOMAIN users :
         /\ [users[i] EXCEPT !.user = Nobody].role = users[i].role
         /\ [users[i] EXCEPT !.user = Nobody].school = users[i].school
         /\ [users[i] EXCEPT !.user = Nobody].user = Nobody
  BY <1>1 DEF TeamEntry
<1> QED
  BY <1>1, <1>4, <1>5 DEF Populated
-----------------------------------------------------------------------------
(* All entries of the team are kept, populated or not.                     *)
LEMMA PopulatedKept ==
    ASSUME members \in Seq(TeamEntry)
    PROVE  \A e \in Range(Populated(members)) : Kept(e)
<1>1. SUFFICES ASSUME NEW i \in DOMAIN members
               PROVE  Kept(Populated(members)[i])
  <2>1. DOMAIN Populated(members) = DOMAIN members
    BY PopulatedEntries
  <2> QED
    BY <2>1 DEF Range
<1>2. /\ Populated(members)[i].school = members[i].school
      /\ members[i].user \in known => Populated(members)[i].user = members[i].user
      /\ members[i].user \notin known => Populated(members)[i].user = Nobody
  BY PopulatedEntries
<1> QED
  BY <1>2 DEF Kept

LEMMA MembersKept ==
    \A e \in Range(members) : Kept(e)
  BY DEF Range, Kept

(* The owner in an array whose entries of the owner have that role.        *)
LEMMA OwnerKept ==
    ASSUME NEW old \in Seq(TeamEntry), NEW new \in Seq(TeamEntry),
           HasOwner(old) => \A e \in Range(new) :
               /\ e.user = old[FirstOwner(old)].user
               /\ e.user # Nobody
               /\ Once(old, e.user)
               => e.role = "teamowner"
    PROVE  KeepsOwner(old, new)
<1>1. SUFFICES ASSUME NEW u, HasOwner(old), u = old[FirstOwner(old)].user,
                      u # Nobody, Once(old, u), IsIn(new, u)
               PROVE  RoleIn(new, u) = "teamowner"
  BY DEF KeepsOwner
<1>2. \A e \in Range(new) : e.user = u => e.role = "teamowner"
  BY <1>1
<1> QED
  BY <1>1, <1>2, OnlyRole

(* Whoever occurs once occurs with one role.                               *)
LEMMA OwnerOnce ==
    ASSUME NEW s \in Seq(TeamEntry), HasOwner(s), Once(s, s[FirstOwner(s)].user),
           NEW i \in DOMAIN s, s[i].user = s[FirstOwner(s)].user
    PROVE  s[i].role = "teamowner"
<1>1. FirstOwner(s) \in DOMAIN s /\ s[FirstOwner(s)].role = "teamowner"
  BY FirstOwnerIsOwner
<1>2. i = FirstOwner(s)
  BY <1>1, OnceIsOnce
<1> QED
  BY <1>1, <1>2

(* What the owner keeps when an entry is appended to the populated team.   *)
LEMMA OwnerKeptByAppend ==
    ASSUME members \in Seq(TeamEntry), NEW e \in TeamEntry, e.user \in known,
           NEW new \in Seq(TeamEntry),
           UsersOf(new) = UsersOf(Append(Populated(members), e)),
           \A u : IsIn(Populated(members), u) => RoleIn(new, u) = RoleIn(Populated(members), u),
           Nobody \notin known
    PROVE  KeepsOwner(members, new)
<1> DEFINE users == Populated(members)
           o == members[FirstOwner(members)].user
<1>1. SUFFICES ASSUME HasOwner(members), o # Nobody, Once(members, o), IsIn(new, o)
               PROVE  RoleIn(new, o) = "teamowner"
  BY DEF KeepsOwner
<1>2. FirstOwner(members) \in DOMAIN members
  BY <1>1, FirstOwnerIsOwner
<1>3. /\ users \in Seq(TeamEntry) /\ DOMAIN users = DOMAIN members
      /\ \A i \in DOMAIN members :
            /\ users[i].role = members[i].role
            /\ members[i].user \in known => users[i].user = members[i].user
            /\ members[i].user \notin known => users[i].user = Nobody
  BY PopulatedEntries
<1>4. o \in known
  <2>1. o \in UsersOf(users) \cup {e.user}
    <3>1. o \in UsersOf(Append(users, e))
      BY <1>1, UsersInRange
    <3>2. Range(Append(users, e)) = Range(users) \cup {e}
      BY <1>3, AppendEntries
    <3> QED
      BY <3>1, <3>2, UsersInRange
  <2>2. ASSUME o \in UsersOf(users)
        PROVE  o \in known
    <3>1. PICK i \in DOMAIN members : users[i].user = o
      BY <1>3, <2>2 DEF UsersOf
    <3> QED
      BY <1>1, <1>3, <3>1
  <2> QED
    BY <2>1, <2>2
<1>5. IsIn(users, o)
  BY <1>2, <1>3, <1>4 DEF IsIn
<1>6. \A x \in Range(users) : x.user = o => x.role = "teamowner"
  <2>1. SUFFICES ASSUME NEW i \in DOMAIN members, users[i].user = o
                 PROVE  users[i].role = "teamowner"
    BY <1>3 DEF Range
  <2>2. members[i].user = o
    BY <1>1, <1>3, <2>1
  <2>3. members[i].role = "teamowner"
    BY <1>1, <2>2, OwnerOnce
  <2> QED
    BY <1>3, <2>3
<1>7. RoleIn(users, o) = "teamowner"
  <2> HIDE DEF users, o
  <2> QED
    BY <1>3, <1>5, <1>6, OnlyRole
<1> QED
  BY <1>5, <1>7
-----------------------------------------------------------------------------
(* What each service computes is typed, and sound if it can be written.    *)
LEMMA Roles ==
    /\ TeamRoles = {"teammember", "teamleader", "teamadministrator", "teamowner", "teamexpert"}
    /\ InvitedRoles \subseteq TeamRoles
<1>1. Hierarchy[1] = "teammember" /\ Hierarchy[2] = "teamleader"
      /\ Hierarchy[3] = "teamadministrator" /\ Hierarchy[4] = "teamowner"
  BY DEF Hierarchy
<1>2. 1..4 = {1, 2, 3, 4}
  OBVIOUS
<1>3. TeamRoles = {"teammember", "teamleader", "teamadministrator", "teamowner", "teamexpert"}
  BY <1>1, <1>2 DEF TeamRoles
<1> QED
  BY <1>3 DEF InvitedRoles

(* What the types say of a single member.                                  *)
LEMMA MemberTypes ==
    ASSUME TeamInv
    PROVE  /\ members \in Seq(TeamEntry) /\ Nobody \notin known
           /\ \A i \in DOMAIN members : /\ members[i] \in TeamEntry
                                        /\ members[i].user \in Users \cup {Nobody}
                                        /\ members[i].role \in TeamRoles
                                        /\ members[i].school \in Schools
           /\ \A u \in Users : School[u] \in Schools
<1>1. \A i \in DOMAIN members : members[i] \in TeamEntry
  BY LenProperties, ElementOfSeq DEF TeamInv
<1> QED
  BY <1>1, TeamsAssumption DEF TeamInv, TeamEntry

(* A filtered team keeps the owner, as owner, or leaves them out.          *)
LEMMA FilterSound ==
    ASSUME TeamInv, NEW users \in Seq(TeamEntry), NEW places \in SUBSET DOMAIN users,
           users = members \/ users = Populated(members)
    PROVE  /\ Filter(users, places) \in Seq(TeamEntry)
           /\ KeepsOwner(members, Filter(users, places))
           /\ \A e \in Range(Filter(users, places)) : Kept(e)
<1> DEFINE new == Filter(users, places)
<1>1. new \in Seq(TeamEntry) /\ Range(new) = {users[i] : i \in places}
  BY FilterEntries
<1>2. Range(new) \subseteq Range(users)
  BY <1>1 DEF Range
<1>3. \A e \in Range(new) : Kept(e)
  BY <1>2, PopulatedKept, MembersKept DEF TeamInv
<1>4. DOMAIN users = DOMAIN members
      /\ \A i \in DOMAIN users : /\ users[i].role = members[i].role
                                 /\ users[i].user \in {members[i].user, Nobody}
  <2>1. CASE users = members
    BY <2>1
  <2>2. CASE users = Populated(members)
    BY <2>2, PopulatedEntries DEF TeamInv
  <2> QED
    BY <2>1, <2>2
<1>5. ASSUME HasOwner(members), NEW i \in places,
             users[i].user = members[FirstOwner(members)].user,
             users[i].user # Nobody, Once(members, users[i].user)
      PROVE  users[i].role = "teamowner"
  <2>1. members[i].user = members[FirstOwner(members)].user /\ i \in DOMAIN members
    BY <1>4, <1>5
  <2>2. members[i].role = "teamowner"
    BY <1>5, <2>1, OwnerOnce DEF TeamInv
  <2> QED
    BY <1>4, <2>1, <2>2
<1>6. KeepsOwner(members, new)
  <2>1. HasOwner(members) => \A e \in Range(new) :
               /\ e.user = members[FirstOwner(members)].user
               /\ e.user # Nobody
               /\ Once(members, e.user)
               => e.role = "teamowner"
    BY <1>1, <1>5
  <2> HIDE DEF new
  <2> QED
    BY <1>1, <2>1, OwnerKept DEF TeamInv
<1> QED
  BY <1>1, <1>3, <1>6

(* addById and the acceptance append a known user with their school.       *)
LEMMA AppendSound ==
    ASSUME TeamInv, NEW e \in TeamEntry, NEW school, NEW new, NEW schools,
           e.user \in known,
           new \in {Append(Populated(members), e), WithoutDuplicates(Append(Populated(members), e))},
           ~ForeignUsers /\ Covered(members, schoolIds) => e.school \in schools /\ e.school = School[e.user]
    PROVE  /\ new \in Seq(TeamEntry)
           /\ KeepsOwner(members, new)
           /\ \A x \in Range(new) : Kept(x) \/ Comes(x, schools)
<1> DEFINE users == Populated(members)
           all == Append(users, e)
<1>1. users \in Seq(TeamEntry)
  BY PopulatedEntries DEF TeamInv
<1>2. /\ all \in Seq(TeamEntry) /\ Range(all) = Range(users) \cup {e}
      /\ \A u : IsIn(users, u) => RoleIn(all, u) = RoleIn(users, u)
      /\ \A u : IsIn(users, u) => IsIn(all, u)
  <2>1. /\ all \in Seq(TeamEntry) /\ Range(all) = Range(users) \cup {e}
        /\ \A u : IsIn(users, u) => RoleIn(all, u) = RoleIn(users, u)
    <3> HIDE DEF users
    <3> QED
      BY <1>1, AppendEntries
  <2> HIDE DEF all, users
  <2>2. Range(users) \subseteq Range(all)
    BY <2>1
  <2>3. /\ \A u : IsIn(users, u) => \E x \in Range(users) : x.user = u
        /\ \A u : (\E x \in Range(all) : x.user = u) => IsIn(all, u)
    BY UsersInRange
  <2> QED
    BY <2>1, <2>2, <2>3
<1>3. /\ new \in Seq(TeamEntry) /\ Range(new) \subseteq Range(all)
      /\ UsersOf(new) = UsersOf(all)
      /\ \A u : IsIn(users, u) => RoleIn(new, u) = RoleIn(users, u)
  <2>1. CASE new = all
    BY <1>2, <2>1
  <2>2. CASE new = WithoutDuplicates(all)
    <3> HIDE DEF all, users
    <3> QED
      BY <1>2, <2>2, WithoutDuplicatesEntries
  <2> QED
    BY <2>1, <2>2
<1>4. KeepsOwner(members, new)
  BY <1>3, OwnerKeptByAppend, MemberTypes DEF TeamInv
<1>5. Comes(e, schools)
  BY DEF Comes
<1>6. \A x \in Range(users) : Kept(x)
  BY PopulatedKept DEF TeamInv
<1> QED
  BY <1>2, <1>3, <1>4, <1>5, <1>6

(* The import of a teacher.                                                *)
LEMMA AddingByIdSound ==
    ASSUME TeamInv, exists, NEW q \in RequestType, q.op = "addById",
           AddingById(q, Populated(members)).fields # {}
    PROVE  LET c == AddingById(q, Populated(members))
           IN  Typed(c) /\ Sound(q, c)
<1> DEFINE users == Populated(members)
           e == Entry(q.to, q.role, School[q.to])
           new == WithoutDuplicates(Append(users, e))
           c == AddingById(q, users)
<1>1. c = Change({"userIds", "schoolIds"}, new, {}, WithSchool(q.to)) /\ q.to \in known
  BY DEF AddingById, Error, Change
<1>2. /\ q.to \in Users /\ School[q.to] \in Schools
      /\ e \in TeamEntry /\ e.user = q.to /\ e.school = School[q.to]
  BY <1>1, MemberTypes, Roles DEF TeamInv, TeamEntry, Entry, RequestType
<1>3. WithSchool(q.to) = schoolIds \cup {School[q.to]}
  BY DEF WithSchool
<1>4. /\ new \in Seq(TeamEntry) /\ KeepsOwner(members, new)
      /\ \A x \in Range(new) : Kept(x) \/ Comes(x, WithSchool(q.to))
  <2> HIDE DEF e
  <2> QED
    BY <1>1, <1>2, <1>3, AppendSound
<1>5. /\ c.fields = {"userIds", "schoolIds"} /\ c.users = new
      /\ c.inv = {} /\ c.schools = WithSchool(q.to)
  BY <1>1 DEF Change
<1>6. Effective(c) = WithSchool(q.to)
  BY <1>5 DEF Effective
<1> HIDE DEF c, new
<1>7. Typed(c)
  BY <1>2, <1>3, <1>4, <1>5 DEF Typed, Fields, TeamInv
<1>8. Sound(q, c)
  BY <1>3, <1>4, <1>5, <1>6 DEF Sound
<1> QED
  BY <1>7, <1>8 DEF c

(* The acceptance of an invitation.                                        *)
LEMMA AcceptingSound ==
    ASSUME TeamInv, exists, NEW q \in RequestType, q.op = "accept",
           Accepting(q, Populated(members)).fields # {}
    PROVE  LET c == Accepting(q, Populated(members))
           IN  Typed(c) /\ Sound(q, c)
<1> DEFINE users == Populated(members)
           i == CHOOSE i \in invited : i.user = q.to
           e == Entry(q.to, i.role, School[q.to])
           new == Append(users, e)
           c == Accepting(q, users)
<1>1. /\ c = Change(Fields, new, WithoutInvitation(q.to), WithSchool(q.to))
      /\ q.to \in known /\ \E j \in invited : j.user = q.to
  BY DEF Accepting, Error, Change
<1>2. i \in invited /\ i.role \in TeamRoles
  <2>1. i \in invited
    BY <1>1
  <2> QED
    BY <2>1, Roles DEF TeamInv, Invitation
<1>3. /\ q.to \in Users /\ School[q.to] \in Schools
      /\ e \in TeamEntry /\ e.user = q.to /\ e.school = School[q.to]
  <2> HIDE DEF i
  <2> QED
    BY <1>1, <1>2, MemberTypes DEF TeamInv, TeamEntry, Entry
<1>4. WithSchool(q.to) = schoolIds \cup {School[q.to]}
  BY DEF WithSchool
<1>5. /\ new \in Seq(TeamEntry) /\ KeepsOwner(members, new)
      /\ \A x \in Range(new) : Kept(x) \/ Comes(x, WithSchool(q.to))
  <2> HIDE DEF e
  <2> QED
    BY <1>1, <1>3, <1>4, AppendSound
<1>6. /\ c.fields = Fields /\ c.users = new
      /\ c.inv = WithoutInvitation(q.to) /\ c.schools = WithSchool(q.to)
  BY <1>1 DEF Change
<1>7. Effective(c) = WithSchool(q.to)
  BY <1>6 DEF Effective, Fields
<1>8. WithoutInvitation(q.to) \subseteq Invitation
  BY DEF WithoutInvitation, TeamInv
<1> HIDE DEF c, new
<1>9. Typed(c)
  BY <1>3, <1>4, <1>5, <1>6, <1>8 DEF Typed, Fields, TeamInv
<1>10. Sound(q, c)
  BY <1>4, <1>5, <1>6, <1>7 DEF Sound
<1> QED
  BY <1>9, <1>10 DEF c

(* A new owner set by the administrator of the school.                     *)
LEMMA SettingOwnerSound ==
    ASSUME TeamInv, exists, NEW q \in RequestType, q.op = "setOwner", q.to \in Users
    PROVE  LET c == SettingOwner(q, Populated(members))
           IN  /\ Typed(c)
               /\ q.to \in known /\ (ForeignUsers \/ School[q.to] = home) => Sound(q, c)
<1> DEFINE users == Populated(members)
           e == Entry(q.to, "teamowner", home)
           new == Append(users, e)
           c == SettingOwner(q, users)
<1>1. /\ c.fields = {"userIds"} /\ c.users = new /\ c.inv = {} /\ c.schools = {}
  BY DEF SettingOwner, Change
<1>2. e \in TeamEntry /\ e.user = q.to /\ e.school = home
  BY Roles DEF TeamInv, TeamEntry, Entry
<1>3. Effective(c) = schoolIds
  BY <1>1 DEF Effective
<1>4. new \in Seq(TeamEntry)
  <2>1. users \in Seq(TeamEntry)
    BY PopulatedEntries DEF TeamInv
  <2> HIDE DEF users, e
  <2> QED
    BY <1>2, <2>1, AppendEntries
<1>5. Typed(c)
  <2> HIDE DEF c, new
  <2> QED
    BY <1>1, <1>4 DEF Typed, Fields
<1>6. ASSUME q.to \in known, ForeignUsers \/ School[q.to] = home
      PROVE  Sound(q, c)
  <2>1. home \in schoolIds
    BY DEF TeamInv
  <2>2. /\ KeepsOwner(members, new)
        /\ \A x \in Range(new) : Kept(x) \/ Comes(x, schoolIds)
    <3> HIDE DEF e
    <3> QED
      BY <1>2, <1>6, <2>1, AppendSound
  <2> HIDE DEF c, new
  <2> QED
    BY <1>1, <1>3, <2>2 DEF Sound
<1> QED
  BY <1>5, <1>6

(* The removal of a school, and the listener of removed users.             *)
LEMMA RemovingSound ==
    ASSUME TeamInv, exists, NEW q \in RequestType
    PROVE  /\ q.op = "removeSchool" =>
                LET c == RemovingSchool(q, Populated(members))
                IN  Typed(c) /\ Sound(q, c)
           /\ q.op = "userRemoved" /\ RemovingUser(q).fields # {} =>
                LET c == RemovingUser(q)
                IN  Typed(c) /\ c.fields = {"userIds"} /\ Sound(q, c)
<1>1. ASSUME q.op = "removeSchool"
      PROVE  LET c == RemovingSchool(q, Populated(members))
             IN  Typed(c) /\ Sound(q, c)
  <2> DEFINE users == Populated(members)
             places == {i \in DOMAIN users : users[i].school \notin q.schools}
             new == Filter(users, places)
             c == RemovingSchool(q, users)
  <2>1. /\ c.fields = {"userIds"} /\ c.users = new /\ c.inv = {} /\ c.schools = {}
    BY DEF RemovingSchool, Change
  <2>2. users \in Seq(TeamEntry) /\ places \in SUBSET DOMAIN users
    BY PopulatedEntries DEF TeamInv
  <2>3. /\ new \in Seq(TeamEntry) /\ KeepsOwner(members, new)
        /\ \A e \in Range(new) : Kept(e)
    <3> HIDE DEF places
    <3> QED
      BY <2>2, FilterSound
  <2>4. Effective(c) = schoolIds
    BY <2>1 DEF Effective
  <2> HIDE DEF c, new
  <2>5. Typed(c)
    BY <2>1, <2>3 DEF Typed, Fields
  <2>6. Sound(q, c)
    BY <1>1, <2>1, <2>3, <2>4 DEF Sound
  <2> QED
    BY <2>5, <2>6 DEF c
<1>2. ASSUME q.op = "userRemoved", RemovingUser(q).fields # {}
      PROVE  LET c == RemovingUser(q)
             IN  Typed(c) /\ c.fields = {"userIds"} /\ Sound(q, c)
  <2> DEFINE places == {i \in DOMAIN members : members[i].user # q.to}
             new == Filter(members, places)
             c == RemovingUser(q)
  <2>1. /\ c.fields = {"userIds"} /\ c.users = new /\ c.inv = {} /\ c.schools = {}
    BY <1>2 DEF RemovingUser, Error, Change, Without
  <2>2. members \in Seq(TeamEntry) /\ places \in SUBSET DOMAIN members
    BY DEF TeamInv
  <2>3. /\ new \in Seq(TeamEntry) /\ KeepsOwner(members, new)
        /\ \A e \in Range(new) : Kept(e)
    <3> HIDE DEF places
    <3> QED
      BY <2>2, FilterSound
  <2>4. Effective(c) = schoolIds
    BY <2>1 DEF Effective
  <2>5. UsersOf(new) \subseteq UsersOf(members) \ {q.to}
    <3>1. Range(new) = {members[i] : i \in places}
      BY <2>2, FilterEntries
    <3>2. \A e \in Range(new) : e.user \in UsersOf(members) \ {q.to}
      BY <3>1 DEF UsersOf
    <3> HIDE DEF new
    <3> QED
      BY <3>2, UsersInRange
  <2> HIDE DEF c, new
  <2>6. Typed(c)
    BY <2>1, <2>3 DEF Typed, Fields
  <2>7. Sound(q, c)
    BY <1>2, <2>1, <2>3, <2>4, <2>5 DEF Sound
  <2> QED
    BY <2>1, <2>6, <2>7 DEF c
<1> QED
  BY <1>1, <1>2
-----------------------------------------------------------------------------
(* A patch: what a client sends, and what the hooks make of it.            *)
LEMMA InputEntries ==
    ASSUME TeamInv, exists, NEW u \in UsersOf(members) \cap known,
           NEW input \in Inputs(members, u), MayPatch(u, input, members)
    PROVE  /\ input \in Seq(TeamEntry)
           /\ \A e \in Range(input) : Kept(e) \/ Comes(e, schoolIds)
<1>1. /\ members \in Seq(TeamEntry)
      /\ \A i \in DOMAIN members : members[i] \in TeamEntry
      /\ DOMAIN members = 1..Len(members)
  BY MemberTypes, LenProperties DEF TeamInv
<1>2. CASE \E v \in UsersOf(members) : input = Without(members, v)
  <2>1. PICK v \in UsersOf(members) : input = Without(members, v)
    BY <1>2
  <2> DEFINE places == {i \in DOMAIN members : members[i].user # v}
  <2>2. input = Filter(members, places) /\ places \in SUBSET DOMAIN members
    BY <2>1 DEF Without
  <2> HIDE DEF places
  <2> QED
    BY <1>1, <2>2, FilterSound
<1>3. CASE \E i \in DOMAIN members, role \in TeamRoles : input = [members EXCEPT ![i].role = role]
  <2>1. PICK i \in DOMAIN members, role \in TeamRoles : input = [members EXCEPT ![i].role = role]
    BY <1>3
  <2> DEFINE e == [members[i] EXCEPT !.role = role]
  <2>2. e \in TeamEntry /\ e.user = members[i].user /\ e.school = members[i].school
    BY <1>1 DEF TeamEntry
  <2>3. input = [members EXCEPT ![i] = e]
    BY <1>1, <2>1
  <2> HIDE DEF e
  <2>4. input \in Seq(TeamEntry)
    BY <1>1, <2>2, <2>3, ExceptSeq
  <2>5. ASSUME NEW x \in Range(input)
        PROVE  Kept(x)
    <3>1. x = e \/ x \in Range(members)
      BY <1>1, <2>3, <2>5 DEF Range
    <3>2. Kept(e)
      BY <2>2 DEF Kept
    <3> QED
      BY <3>1, <3>2, MembersKept
  <2> QED
    BY <2>4, <2>5
<1>4. CASE \E v \in known \ UsersOf(members), role \in {"teammember", "teamadministrator"} :
              input = Append(members, Entry(v, role, School[u]))
  <2>1. PICK v \in known \ UsersOf(members), role \in {"teammember", "teamadministrator"} :
               input = Append(members, Entry(v, role, School[u]))
    BY <1>4
  <2> DEFINE e == Entry(v, role, School[u])
  <2>2. u \in Users /\ v \in Users
    BY DEF TeamInv
  <2>3. e \in TeamEntry /\ e.user = v /\ e.school = School[u]
    BY <2>2, MemberTypes, Roles DEF TeamEntry, Entry
  <2>4. input = Append(members, e)
    BY <2>1
  <2> HIDE DEF e
  <2>5. input \in Seq(TeamEntry) /\ Range(input) = Range(members) \cup {e}
    BY <1>1, <2>3, <2>4, AppendEntries
  <2>6. v \in ArrayDiff(input, members)
    <3>1. IsIn(input, v)
      BY <2>3, <2>5, UsersInRange
    <3> QED
      BY <2>1, <3>1, UsersInRange DEF ArrayDiff
  <2>7. School[v] = School[u]
    BY <2>6 DEF MayPatch
  <2>8. Comes(e, schoolIds)
    <3>1. SUFFICES ASSUME Covered(members, schoolIds)
                   PROVE  e.school \in schoolIds /\ e.school = School[e.user]
      BY <2>1, <2>3 DEF Comes
    <3>2. PICK i \in DOMAIN members : members[i].user = u
      BY DEF UsersOf
    <3>3. members[i].school = School[u] /\ members[i].school \in schoolIds
      BY <2>2, <3>1, <3>2, TeamsAssumption DEF Covered
    <3> QED
      BY <2>3, <2>7, <3>3
  <2> QED
    BY <2>5, <2>8, MembersKept
<1>5. CASE input = <<>>
  BY <1>5 DEF Range
<1> QED
  BY <1>2, <1>3, <1>4, <1>5 DEF Inputs

(* The array that the hooks of a patch compute.                            *)
LEMMA PatchSound ==
    ASSUME TeamInv, exists, NEW u \in UsersOf(members) \cap known,
           NEW input \in Inputs(members, u), MayPatch(u, input, members),
           input # <<>> => HasOwner(members)
    PROVE  /\ TeamUsers(input, members) \in Seq(TeamEntry)
           /\ KeepsOwner(members, TeamUsers(input, members))
           /\ \A e \in Range(TeamUsers(input, members)) : Kept(e) \/ Comes(e, schoolIds)
<1> DEFINE new == TeamUsers(input, members)
           i == FirstOwner(members)
           owner == members[i]
           e == Entry(owner.user, "teamowner", owner.school)
           mapped == MappedInput(input, members)
<1>1. /\ input \in Seq(TeamEntry)
      /\ \A x \in Range(input) : Kept(x) \/ Comes(x, schoolIds)
  BY InputEntries
<1>2. CASE input = <<>>
  <2>1. new = <<>>
    BY <1>2 DEF TeamUsers
  <2>2. <<>> \in Seq(TeamEntry) /\ Range(<<>>) = {}
    BY DEF Range
  <2>3. KeepsOwner(members, <<>>)
    BY DEF KeepsOwner, IsIn
  <2> QED
    BY <2>1, <2>2, <2>3
<1>3. CASE input # <<>>
  <2>1. i \in DOMAIN members /\ owner.role = "teamowner"
    BY <1>3, FirstOwnerIsOwner DEF TeamInv
  <2>2. e \in TeamEntry /\ e.user = owner.user /\ e.role = "teamowner" /\ e.school = owner.school
    <3> HIDE DEF i
    <3> QED
      BY <2>1, MemberTypes, Roles DEF TeamEntry, Entry
  <2>3. Kept(e)
    <3> HIDE DEF e, i
    <3> QED
      BY <2>1, <2>2 DEF Kept
  <2>4. mapped = [k \in DOMAIN input |-> IF input[k].user = owner.user THEN e ELSE input[k]]
    BY DEF MappedInput
  <2>5. /\ DOMAIN input = 1..Len(input) /\ Len(input) \in Nat
        /\ \A k \in DOMAIN input : input[k] \in TeamEntry /\ input[k] \in Range(input)
    BY <1>1, LenProperties, ElementOfSeq DEF Range
  <2> HIDE DEF e, mapped, owner
  <2>6. mapped \in Seq(TeamEntry)
    <3>1. mapped \in [1..Len(input) -> TeamEntry]
      BY <2>2, <2>4, <2>5
    <3> QED
      BY <2>5, <3>1
  <2>7. ASSUME NEW x \in Range(mapped)
        PROVE  /\ Kept(x) \/ Comes(x, schoolIds)
               /\ x.user = owner.user => x.role = "teamowner"
    <3>1. PICK k \in DOMAIN input : x = IF input[k].user = owner.user THEN e ELSE input[k]
      BY <2>4, <2>7 DEF Range
    <3> QED
      BY <1>1, <2>2, <2>3, <2>5, <3>1
  <2>8. new = WithoutDuplicates(mapped)
    BY <1>3 DEF TeamUsers, ValidBySchool, mapped
  <2>9. new \in Seq(TeamEntry) /\ Range(new) \subseteq Range(mapped)
    <3> HIDE DEF new
    <3> QED
      BY <2>6, <2>8, WithoutDuplicatesEntries
  <2>10. KeepsOwner(members, new)
    <3>1. HasOwner(members) => \A x \in Range(new) :
               /\ x.user = members[FirstOwner(members)].user
               /\ x.user # Nobody
               /\ Once(members, x.user)
               => x.role = "teamowner"
      BY <2>7, <2>9 DEF owner
    <3> HIDE DEF new
    <3> QED
      BY <2>9, <3>1, OwnerKept DEF TeamInv
  <2> QED
    BY <2>7, <2>9, <2>10
<1> QED
  BY <1>2, <1>3
-----------------------------------------------------------------------------
IInv ==
    /\ TypeInv /\ EmptyInv /\ SoundInv /\ RemovedInv
    /\ ~ForeignUsers => CoverInv

(* The other requests keep all but the flag.                               *)
LEMMA Proceeding ==
    ASSUME TypeInv, NEW r \in Requests, NEW new, NEW changed, Proceed(r, new, changed)
    PROVE  /\ DOMAIN req' = Requests /\ req'[r] = new
           /\ \A q \in Requests \ {r} :
                 /\ req'[q] = req[q] \/ req'[q] = [req[q] EXCEPT !.stale = TRUE]
                 /\ req'[q].op = req[q].op /\ req'[q].pc = req[q].pc /\ req'[q].to = req[q].to
                 /\ req'[q].fields = req[q].fields /\ req'[q].users = req[q].users
                 /\ req'[q].schools = req[q].schools
                 /\ req[q].stale => req'[q].stale
                 /\ changed => (req[q].op \in {"userRemoved", "setOwner"} => req'[q].stale)
                 /\ changed => (req[q].pc = "write" => req'[q].stale)
                 /\ ~changed => req'[q] = req[q]
<1>1. \A q \in Requests : req[q] \in RequestType
  BY DEF TypeInv, RequestOK
<1>2. /\ DOMAIN req' = Requests /\ req'[r] = new
      /\ \A q \in Requests \ {r} :
            req'[q] = IF changed /\ (req[q].pc \in {"write", "remove"} \/ req[q].op \in {"userRemoved", "setOwner"})
                      THEN [req[q] EXCEPT !.stale = TRUE] ELSE req[q]
  BY DEF Proceed
<1>3. SUFFICES ASSUME NEW q \in Requests \ {r}
               PROVE  /\ req'[q] = req[q] \/ req'[q] = [req[q] EXCEPT !.stale = TRUE]
                      /\ req'[q].op = req[q].op /\ req'[q].pc = req[q].pc /\ req'[q].to = req[q].to
                      /\ req'[q].fields = req[q].fields /\ req'[q].users = req[q].users
                      /\ req'[q].schools = req[q].schools
                      /\ req[q].stale => req'[q].stale
                      /\ changed => (req[q].op \in {"userRemoved", "setOwner"} => req'[q].stale)
                      /\ changed => (req[q].pc = "write" => req'[q].stale)
                      /\ ~changed => req'[q] = req[q]
  BY <1>2
<1> DEFINE x == [req[q] EXCEPT !.stale = TRUE]
<1>4. /\ x.op = req[q].op /\ x.pc = req[q].pc /\ x.to = req[q].to
      /\ x.fields = req[q].fields /\ x.users = req[q].users
      /\ x.schools = req[q].schools /\ x.stale
  BY <1>1 DEF RequestType
<1>5. req'[q] = IF changed /\ (req[q].pc \in {"write", "remove"} \/ req[q].op \in {"userRemoved", "setOwner"})
                THEN x ELSE req[q]
  BY <1>2
<1> QED
  BY <1>4, <1>5

(* A change of the data marks who has read it.                             *)
LEMMA Changing ==
    ASSUME TypeInv, NEW r \in Requests, NEW new, Proceed(r, new, TRUE)
    PROVE  /\ DOMAIN req' = Requests /\ req'[r] = new
           /\ \A q \in Requests \ {r} :
                 /\ req'[q].op = req[q].op /\ req'[q].pc = req[q].pc /\ req'[q].to = req[q].to
                 /\ req[q].stale => req'[q].stale
                 /\ req[q].op = "userRemoved" => req'[q].stale
                 /\ req[q].pc = "write" => req'[q].stale
<1>1. DOMAIN req' = Requests /\ req'[r] = new
  BY DEF Proceed
<1>2. SUFFICES ASSUME NEW q \in Requests \ {r}
               PROVE  /\ req'[q].op = req[q].op /\ req'[q].pc = req[q].pc /\ req'[q].to = req[q].to
                      /\ req[q].stale => req'[q].stale
                      /\ req[q].op = "userRemoved" => req'[q].stale
                      /\ req[q].pc = "write" => req'[q].stale
  BY <1>1
<1> DEFINE x == [req[q] EXCEPT !.stale = TRUE]
<1>3. req[q] \in RequestType
  BY DEF TypeInv, RequestOK
<1>4. x.op = req[q].op /\ x.pc = req[q].pc /\ x.to = req[q].to /\ x.stale
  BY <1>3 DEF RequestType
<1>5. req'[q] = IF req[q].pc \in {"write", "remove"} \/ req[q].op \in {"userRemoved", "setOwner"}
                THEN x ELSE req[q]
  BY DEF Proceed
<1> QED
  BY <1>4, <1>5

(* The other requests stay well-formed.                                    *)
LEMMA OthersTyped ==
    ASSUME TypeInv, NEW r \in Requests, NEW new, NEW changed, Proceed(r, new, changed),
           home' = home, changed \/ known \subseteq known', RequestOK(new)'
    PROVE  DOMAIN req' = Requests /\ \A q \in Requests : RequestOK(req[q])'
<1>1. /\ DOMAIN req' = Requests /\ req'[r] = new
      /\ \A q \in Requests \ {r} :
            /\ req'[q] = req[q] \/ req'[q] = [req[q] EXCEPT !.stale = TRUE]
            /\ changed => (req[q].op \in {"userRemoved", "setOwner"} => req'[q].stale)
            /\ ~changed => req'[q] = req[q]
  BY Proceeding
<1>2. SUFFICES ASSUME NEW q \in Requests \ {r}
               PROVE  RequestOK(req[q])'
  BY <1>1
<1>3. RequestOK(req[q])
  BY DEF TypeInv
<1> DEFINE x == [req[q] EXCEPT !.stale = TRUE]
<1>4. /\ x \in RequestType /\ x.op = req[q].op /\ x.pc = req[q].pc /\ x.to = req[q].to
      /\ x.fields = req[q].fields /\ x.users = req[q].users /\ x.schools = req[q].schools
  BY <1>3 DEF RequestOK, RequestType
<1> HIDE DEF x
<1>5. /\ req'[q] \in RequestType /\ req'[q].op = req[q].op /\ req'[q].pc = req[q].pc
      /\ req'[q].to = req[q].to /\ req'[q].fields = req[q].fields
      /\ req'[q].users = req[q].users /\ req'[q].schools = req[q].schools
  BY <1>1, <1>3, <1>4 DEF RequestOK, x
<1>6. ASSUME req[q].pc = "load", req[q].op = "setOwner", ~req'[q].stale
      PROVE  req[q].to \in known' /\ (ForeignUsers \/ School[req[q].to] = home)
  <2>1. ~changed /\ req'[q] = req[q]
    BY <1>1, <1>6
  <2> QED
    BY <1>3, <1>6, <2>1 DEF RequestOK
<1> QED
  BY <1>3, <1>5, <1>6 DEF RequestOK

(* A step that leaves the team as it is.                                   *)
LEMMA TeamUntouched ==
    ASSUME IInv, NEW r \in Requests, NEW new, Proceed(r, new, FALSE), UNCHANGED team,
           known \subseteq known', known' \subseteq (known \cup Strangers),
           overlapped' \in BOOLEAN, overlapped => overlapped',
           sent' \in 0..MaxRequests, sent' # 0, RequestOK(new)',
           exists /\ members = <<>> /\ req[r].pc \in {"result", "remove"}
              => new.pc \in {"result", "remove"},
           ~overlapped' /\ new.pc = "write" /\ ~new.stale /\ "userIds" \in new.fields
              => Sound(new, new),
           ~overlapped' /\ exists /\ req[r].op = "userRemoved" =>
              \/ new.op = "userRemoved" /\ new.to = req[r].to /\ new.stale = req[r].stale
              \/ ~req[r].stale /\ req[r].to \notin UsersOf(members)
    PROVE  IInv'
<1>1. /\ exists' = exists /\ members' = members /\ invited' = invited
      /\ schoolIds' = schoolIds /\ home' = home
  BY DEF team
<1>2. /\ DOMAIN req' = Requests /\ req'[r] = new
      /\ \A q \in Requests \ {r} : req'[q] = req[q]
  BY DEF Proceed
<1>3. TypeInv'
  <2>1. DOMAIN req' = Requests /\ \A q \in Requests : RequestOK(req[q])'
    BY <1>1, OthersTyped DEF IInv
  <2>2. known' \subseteq Users
    BY TeamsAssumption DEF IInv, TypeInv, TeamInv
  <2>3. TeamInv'
    BY <1>1, <2>2 DEF IInv, TypeInv, TeamInv
  <2> QED
    BY <2>1, <2>3 DEF TypeInv
<1>4. EmptyInv'
  <2>1. SUFFICES ASSUME exists, members = <<>>
                 PROVE  \E q \in Requests : req'[q].pc \in {"result", "remove"}
    BY <1>1 DEF EmptyInv
  <2>2. PICK q \in Requests : req[q].pc \in {"result", "remove"}
    BY <2>1 DEF IInv, EmptyInv
  <2> QED
    BY <1>2, <2>1, <2>2
<1>5. SoundInv'
  <2>1. SUFFICES ASSUME ~overlapped'
                 PROVE  /\ UsersOf(members) \cap Strangers \subseteq known'
                        /\ \A q \in Requests : Fresh(q)' => Sound(req[q], req[q])'
    BY <1>1 DEF SoundInv, UsersOf
  <2>2. /\ UsersOf(members) \cap Strangers \subseteq known
        /\ \A q \in Requests : Fresh(q) => Sound(req[q], req[q])
    BY <2>1 DEF IInv, SoundInv
  <2>3. \A u \in UsersOf(members) : u \in known' <=> u \in known
    BY <2>2
  <2>4. \A e : Kept(e) => Kept(e)'
    BY <1>1, <2>3 DEF Kept, UsersOf
  <2>5. \A e, schools : Comes(e, schools) => Comes(e, schools)'
    <3>1. Covered(members, schoolIds)' <=> Covered(members, schoolIds)
      BY <1>1 DEF Covered
    <3> QED
      BY <1>1, <3>1 DEF Comes
  <2>6. \A q, c : Sound(q, c) => Sound(q, c)'
    <3>1. \A c : KeepsOwner(members, c.users) => KeepsOwner(members, c.users)'
      BY <1>1 DEF KeepsOwner, HasOwner
    <3>2. \A c : Effective(c)' = Effective(c)
      BY <1>1 DEF Effective
    <3>3. SUFFICES ASSUME NEW q, NEW c, Sound(q, c)
                   PROVE  Sound(q, c)'
      OBVIOUS
    <3>4. \A e \in Range(c.users) : Kept(e)' \/ Comes(e, Effective(c))'
      BY <2>4, <2>5, <3>2, <3>3 DEF Sound
    <3>5. q.op = "userRemoved" => UsersOf(c.users) \subseteq UsersOf(members') \ {q.to}
      BY <1>1, <3>3 DEF Sound
    <3> QED
      BY <1>1, <3>1, <3>2, <3>3, <3>4, <3>5 DEF Sound, UsersOf
  <2>7. ASSUME NEW q \in Requests, Fresh(q)'
        PROVE  Sound(req[q], req[q])'
    <3>1. PICK x : x = req'[q]
      OBVIOUS
    <3>2. Sound(x, x)
      BY <1>2, <2>1, <2>2, <2>7, <3>1 DEF Fresh
    <3>3. Sound(x, x)'
      BY <2>6, <3>2
    <3> QED
      BY <3>1, <3>3
  <2> QED
    BY <2>2, <2>7
<1>6. RemovedInv'
  <2>1. SUFFICES ASSUME ~overlapped', exists, NEW u \in UsersOf(members) \ known'
                 PROVE  \E q \in Requests : Removing(q, u)'
    BY <1>1 DEF RemovedInv, UsersOf
  <2>2. PICK q \in Requests : Removing(q, u)
    BY <2>1 DEF IInv, RemovedInv
  <2>3. CASE q # r
    BY <1>2, <2>2, <2>3 DEF Removing
  <2>4. CASE q = r
    BY <1>2, <2>1, <2>2, <2>4 DEF Removing
  <2> QED
    BY <2>3, <2>4
<1>7. ~ForeignUsers => CoverInv'
  BY <1>1 DEF IInv, CoverInv, Covered
<1> QED
  BY <1>3, <1>4, <1>5, <1>6, <1>7 DEF IInv
-----------------------------------------------------------------------------
(* A created team has its members from the form, at one school.            *)
LEMMA CreatedEntries ==
    ASSUME NEW u \in Users, NEW others \in SUBSET Users
    PROVE  /\ Created(u, others) \in Seq(TeamEntry) /\ Created(u, others) # <<>>
           /\ \A e \in Range(Created(u, others)) :
                 e.user \in others \cup {u} /\ e.school = School[u]
<1> DEFINE E == {Entry(v, "teammember", School[u]) : v \in others}
           f == [v \in others |-> Entry(v, "teammember", School[u])]
           owner == Entry(u, "teamowner", School[u])
           s == SetToSeq(E)
<1>1. IsFiniteSet(E)
  <2>1. IsFiniteSet(others)
    BY TeamsAssumption, FS_Subset
  <2>2. f \in Surjection(others, E)
    BY DEF Surjection
  <2> HIDE DEF f, E
  <2> QED
    BY <2>1, <2>2, FS_Surjection
<1>2. s \in [1..Cardinality(E) -> E] /\ Cardinality(E) \in Nat
  <2> HIDE DEF E
  <2>1. Cardinality(E) \in Nat
    BY <1>1, FS_CardinalityType
  <2>2. \E g \in [1..Cardinality(E) -> E] : IsInjective(g)
    BY <1>1, FS_CardinalityType DEF ExistsBijection, Bijection, Injection, IsInjective
  <2> QED
    BY <2>1, <2>2 DEF SetToSeq
<1>3. School[u] \in Schools
  BY TeamsAssumption
<1>4. \A e \in E : e \in TeamEntry /\ e.user \in others /\ e.school = School[u]
  BY <1>3, Roles DEF TeamEntry, Entry
<1>5. owner \in TeamEntry /\ owner.user = u /\ owner.school = School[u]
  BY <1>3, Roles DEF TeamEntry, Entry
<1> HIDE DEF E, owner
<1>6. s \in Seq(TeamEntry) /\ Range(s) \subseteq E
  BY <1>2, <1>4 DEF Range
<1>7. Created(u, others) = Append(s, owner)
  BY DEF Created, E, owner
<1>8. /\ Append(s, owner) \in Seq(TeamEntry) /\ Append(s, owner) # <<>>
      /\ Range(Append(s, owner)) = Range(s) \cup {owner}
  <2> HIDE DEF s
  <2> QED
    BY <1>5, <1>6, AppendEntries
<1> QED
  BY <1>4, <1>5, <1>6, <1>7, <1>8

(* A request that is not under way.                                        *)
LEMMA NoneTyped ==
    /\ None \in RequestType /\ None.pc = "idle" /\ None.op = "none"
    /\ None.fields = {} /\ None.users = <<>> /\ ~None.stale
    /\ RequestOK(None)
<1>1. <<>> \in Seq(TeamEntry)
  OBVIOUS
<1>2. None \in RequestType
  BY <1>1 DEF None, RequestType, Ops, InvitedRoles
<1> QED
  BY <1>2 DEF RequestOK, None

(* The invariant holds at first, and after each action.                    *)
LEMMA InitOK ==
    ASSUME Init
    PROVE  IInv
<1>1. /\ members = <<>> /\ ~exists /\ overlapped = FALSE /\ invited = {} /\ schoolIds = {}
      /\ known = Users \ Strangers /\ req = [r \in Requests |-> None] /\ sent = 0
      /\ exists = FALSE
  BY DEF Init
<1>2. home \in Schools
  <2>1. \E s \in Schools : TRUE
    BY TeamsAssumption
  <2> QED
    BY <2>1 DEF Init
<1>3. TypeInv
  <2>1. <<>> \in Seq(TeamEntry)
    OBVIOUS
  <2>2. \A r \in Requests : req[r].pc = "idle"
    BY <1>1, NoneTyped
  <2>3. 0 \in 0..MaxRequests
    BY TeamsAssumption
  <2>4. TeamInv
    BY <1>1, <1>2, <2>1, <2>2, <2>3 DEF TeamInv
  <2> QED
    BY <1>1, <2>4, NoneTyped DEF TypeInv
<1>4. EmptyInv /\ RemovedInv /\ CoverInv
  BY <1>1 DEF EmptyInv, RemovedInv, CoverInv
<1>5. SoundInv
  BY <1>1, NoneTyped DEF SoundInv, Fresh, UsersOf
<1> QED
  BY <1>3, <1>4, <1>5 DEF IInv

LEMMA CreateOK ==
    ASSUME IInv, Create
    PROVE  IInv'
<1>1. /\ sent = 0 /\ sent' = 1 /\ exists' = TRUE /\ invited' = invited /\ known' = known
      /\ req' = req /\ overlapped' = overlapped
  BY DEF Create
<1>2. PICK u \in known : \E others \in SUBSET {v \in known \ {u} : ForeignUsers \/ School[v] = School[u]} :
             members' = Created(u, others) /\ schoolIds' = {School[u]} /\ home' = School[u]
  BY DEF Create
<1>12. PICK others \in SUBSET {v \in known \ {u} : ForeignUsers \/ School[v] = School[u]} :
             members' = Created(u, others) /\ schoolIds' = {School[u]} /\ home' = School[u]
  BY <1>2
<1>3. u \in Users /\ others \in SUBSET Users /\ School[u] \in Schools
  BY <1>12, TeamsAssumption DEF IInv, TypeInv, TeamInv
<1>4. /\ members' \in Seq(TeamEntry) /\ members' # <<>>
      /\ \A e \in Range(members') : e.user \in others \cup {u} /\ e.school = School[u]
  BY <1>12, <1>3, CreatedEntries
<1>5. \A r \in Requests : req[r].pc = "idle"
  BY <1>1 DEF IInv, TypeInv, TeamInv
<1>6. TypeInv'
  <2>1. \A r \in Requests : RequestOK(req[r])'
    BY <1>1, <1>5 DEF IInv, TypeInv, RequestOK
  <2>2. TeamInv'
    <3>1. sent' \in 0..MaxRequests
      BY <1>1, TeamsAssumption
    <3> QED
      BY <1>1, <1>12, <1>3, <1>4, <3>1 DEF IInv, TypeInv, TeamInv
  <2> QED
    BY <1>1, <2>1, <2>2 DEF IInv, TypeInv
<1>7. EmptyInv'
  BY <1>4 DEF EmptyInv
<1>8. UsersOf(members)' \subseteq known'
  <2>1. \A x \in UsersOf(members') : \E e \in Range(members') : x = e.user
    BY UsersInRange
  <2> QED
    BY <1>1, <1>12, <1>4, <2>1
<1>9. SoundInv'
  BY <1>1, <1>5, <1>8 DEF SoundInv, Fresh
<1>10. RemovedInv'
  BY <1>8 DEF RemovedInv
<1>11. ASSUME ~ForeignUsers
       PROVE  CoverInv'
  <2>1. \A i \in DOMAIN members' : members'[i] \in Range(members')
    BY DEF Range
  <2>2. \A v \in others : School[v] = School[u]
    BY <1>12, <1>11
  <2> QED
    BY <1>12, <1>4, <2>1, <2>2 DEF CoverInv, Covered
<1> QED
  BY <1>6, <1>7, <1>9, <1>10, <1>11 DEF IInv

(* A request is sent: the team stays, and what a patch will write is sound. *)
LEMMA Sending ==
    ASSUME IInv, NEW r \in Requests, MayStart(r), NEW new, Send(r, new), RequestOK(new),
           new.pc = "write" => Sound(new, new)
    PROVE  IInv'
<1>1. /\ Proceed(r, new, FALSE) /\ sent' = sent + 1
      /\ UNCHANGED team /\ known' = known /\ overlapped' = overlapped /\ home' = home
  BY DEF Send, team
<1>2. /\ req[r].pc = "idle" /\ sent < MaxRequests /\ sent \in 0..MaxRequests
      /\ overlapped \in BOOLEAN /\ RequestOK(req[r])
  BY DEF MayStart, IInv, TypeInv, TeamInv
<1>3. sent' \in 0..MaxRequests /\ sent' # 0
  BY <1>1, <1>2, TeamsAssumption
<1>4. RequestOK(new)'
  BY <1>1 DEF RequestOK
<1>5. req[r].op # "userRemoved"
  BY <1>2 DEF RequestOK
<1> QED
  BY <1>1, <1>2, <1>3, <1>4, <1>5, TeamUntouched

LEMMA PatchOK ==
    ASSUME IInv, NEW r \in Requests, MayStart(r), Patch(r)
    PROVE  IInv'
<1>1. PICK u \in UsersOf(members) \cap known : \E input \in Inputs(members, u) :
             /\ MayPatch(u, input, members)
             /\ input # <<>> => HasOwner(members)
             /\ Send(r, [None EXCEPT !.op = "patch", !.pc = "write", !.fields = {"userIds"},
                           !.users = TeamUsers(input, members)])
  BY DEF Patch
<1>2. PICK input \in Inputs(members, u) :
             /\ MayPatch(u, input, members)
             /\ input # <<>> => HasOwner(members)
             /\ Send(r, [None EXCEPT !.op = "patch", !.pc = "write", !.fields = {"userIds"},
                           !.users = TeamUsers(input, members)])
  BY <1>1
<1>3. PICK new : new = [None EXCEPT !.op = "patch", !.pc = "write", !.fields = {"userIds"},
                          !.users = TeamUsers(input, members)]
  OBVIOUS
<1>4. /\ TeamUsers(input, members) \in Seq(TeamEntry)
      /\ KeepsOwner(members, TeamUsers(input, members))
      /\ \A e \in Range(TeamUsers(input, members)) : Kept(e) \/ Comes(e, schoolIds)
  BY <1>2, PatchSound DEF IInv, TypeInv, MayStart
<1>5. /\ new \in RequestType
      /\ new.op = "patch" /\ new.pc = "write" /\ new.fields = {"userIds"}
      /\ new.users = TeamUsers(input, members)
  <2> HIDE <1>2
  <2>1. {"userIds"} \in SUBSET Fields
    BY DEF Fields
  <2> QED
    BY <1>3, <1>4, <2>1, NoneTyped DEF RequestType, Ops
<1>6. RequestOK(new)
  BY <1>5 DEF RequestOK
<1>7. Effective(new) = schoolIds
  BY <1>5 DEF Effective
<1>8. Sound(new, new)
  BY <1>4, <1>5, <1>7 DEF Sound
<1> QED
  BY <1>2, <1>3, <1>6, <1>8, Sending

(* A request that will load the team, or remove it.                        *)
LEMMA Asked ==
    ASSUME NEW op \in Ops \ {"none", "patch", "userRemoved"}, NEW to \in Users \cup {Nobody},
           NEW role \in InvitedRoles, NEW schools \in SUBSET Schools,
           op \notin {"removeSchool", "delete"} => to \in Users,
           op = "setOwner" => to \in known /\ (ForeignUsers \/ School[to] = home),
           NEW new,
           new = [None EXCEPT !.op = op, !.pc = IF op = "delete" THEN "remove" ELSE "load",
                     !.to = to, !.role = role, !.schools = schools]
    PROVE  RequestOK(new) /\ new.pc # "write"
<1>1. /\ new \in RequestType
      /\ new.op = op /\ new.pc = (IF op = "delete" THEN "remove" ELSE "load") /\ new.to = to
  BY NoneTyped DEF RequestType
<1> QED
  BY <1>1 DEF RequestOK, Ops

LEMMA OtherStartsOK ==
    ASSUME IInv, NEW r \in Requests, MayStart(r),
           \/ AddById(r) \/ AddByEmail(r) \/ RemoveInvite(r) \/ Accept(r)
           \/ Administrate(r) \/ Delete(r)
    PROVE  IInv'
<1> DEFINE New(op, to, role, schools) ==
        [None EXCEPT !.op = op, !.pc = IF op = "delete" THEN "remove" ELSE "load",
            !.to = to, !.role = role, !.schools = schools]
<1>1. None \in RequestType /\ None.to = Nobody /\ None.role = "teamexpert" /\ None.schools = {}
  BY NoneTyped DEF None
<1>2. known \subseteq Users /\ "teamexpert" \in InvitedRoles
  BY DEF IInv, TypeInv, TeamInv, InvitedRoles
<1>3. ASSUME NEW op \in Ops \ {"none", "patch", "userRemoved"}, NEW to \in Users \cup {Nobody},
             NEW role \in InvitedRoles, NEW schools \in SUBSET Schools,
             op \notin {"removeSchool", "delete"} => to \in Users,
             op = "setOwner" => to \in known /\ (ForeignUsers \/ School[to] = home),
             Send(r, New(op, to, role, schools))
      PROVE  IInv'
  <2>1. PICK new : new = New(op, to, role, schools)
    OBVIOUS
  <2>2. RequestOK(new) /\ new.pc # "write"
    BY <1>3, <2>1, Asked
  <2> HIDE DEF New
  <2> QED
    BY <1>3, <2>1, <2>2, Sending
<1>4. CASE AddById(r)
  <2>1. PICK v \in Importable, role \in InvitedRoles :
           Send(r, [None EXCEPT !.op = "addById", !.pc = "load", !.to = v, !.role = role])
    BY <1>4 DEF AddById
  <2>2. [None EXCEPT !.op = "addById", !.pc = "load", !.to = v, !.role = role]
           = New("addById", v, role, {})
    BY <1>1 DEF RequestType
  <2>3. v \in Users
    BY <1>2 DEF Importable
  <2> HIDE DEF New
  <2> QED
    BY <1>3, <2>1, <2>2, <2>3 DEF Ops
<1>5. CASE AddByEmail(r)
  <2>1. PICK v \in known \cup Strangers, role \in InvitedRoles :
           Send(r, [None EXCEPT !.op = "addByEmail", !.pc = "load", !.to = v, !.role = role])
    BY <1>5 DEF AddByEmail
  <2>2. [None EXCEPT !.op = "addByEmail", !.pc = "load", !.to = v, !.role = role]
           = New("addByEmail", v, role, {})
    BY <1>1 DEF RequestType
  <2>3. v \in Users
    BY <1>2, TeamsAssumption
  <2> HIDE DEF New
  <2> QED
    BY <1>3, <2>1, <2>2, <2>3 DEF Ops
<1>6. CASE RemoveInvite(r)
  <2>1. PICK i \in invited :
           Send(r, [None EXCEPT !.op = "removeInvite", !.pc = "load", !.to = i.user])
    BY <1>6 DEF RemoveInvite
  <2>2. [None EXCEPT !.op = "removeInvite", !.pc = "load", !.to = i.user]
           = New("removeInvite", i.user, "teamexpert", {})
    BY <1>1 DEF RequestType
  <2>3. i.user \in Users
    BY DEF IInv, TypeInv, TeamInv, Invitation
  <2> HIDE DEF New
  <2> QED
    BY <1>2, <1>3, <2>1, <2>2, <2>3 DEF Ops
<1>7. CASE Accept(r)
  <2>1. PICK i \in invited :
           Send(r, [None EXCEPT !.op = "accept", !.pc = "load", !.to = i.user])
    BY <1>7 DEF Accept
  <2>2. [None EXCEPT !.op = "accept", !.pc = "load", !.to = i.user]
           = New("accept", i.user, "teamexpert", {})
    BY <1>1 DEF RequestType
  <2>3. i.user \in Users
    BY DEF IInv, TypeInv, TeamInv, Invitation
  <2> HIDE DEF New
  <2> QED
    BY <1>2, <1>3, <2>1, <2>2, <2>3 DEF Ops
<1>8. CASE Administrate(r)
  <2>1. CASE \E u \in {v \in known : ForeignUsers \/ School[v] = home} :
                Send(r, [None EXCEPT !.op = "setOwner", !.pc = "load", !.to = u])
    <3>1. PICK u \in {v \in known : ForeignUsers \/ School[v] = home} :
             Send(r, [None EXCEPT !.op = "setOwner", !.pc = "load", !.to = u])
      BY <2>1
    <3>2. [None EXCEPT !.op = "setOwner", !.pc = "load", !.to = u]
             = New("setOwner", u, "teamexpert", {})
      BY <1>1 DEF RequestType
    <3>3. u \in known /\ u \in Users /\ (ForeignUsers \/ School[u] = home)
      BY <1>2
    <3> HIDE DEF New
    <3> QED
      BY <1>2, <1>3, <3>1, <3>2, <3>3 DEF Ops
  <2>2. CASE \E s \in Schools \ {home} :
                Send(r, [None EXCEPT !.op = "removeSchool", !.pc = "load", !.schools = {s}])
    <3>1. PICK s \in Schools \ {home} :
             Send(r, [None EXCEPT !.op = "removeSchool", !.pc = "load", !.schools = {s}])
      BY <2>2
    <3>2. [None EXCEPT !.op = "removeSchool", !.pc = "load", !.schools = {s}]
             = New("removeSchool", Nobody, "teamexpert", {s})
      BY <1>1 DEF RequestType
    <3>3. {s} \in SUBSET Schools
      OBVIOUS
    <3> HIDE DEF New
    <3> QED
      BY <1>2, <1>3, <3>1, <3>2, <3>3 DEF Ops
  <2> QED
    BY <1>8, <2>1, <2>2 DEF Administrate
<1>9. CASE Delete(r)
  <2>1. [None EXCEPT !.op = "delete", !.pc = "remove"] = New("delete", Nobody, "teamexpert", {})
    BY <1>1 DEF RequestType
  <2> HIDE DEF New
  <2> QED
    BY <1>2, <1>3, <1>9, <2>1 DEF Delete, Ops
<1> QED
  BY <1>4, <1>5, <1>6, <1>7, <1>8, <1>9

LEMMA UserRemovedOK ==
    ASSUME IInv, NEW r \in Requests, MayStart(r), UserRemoved(r)
    PROVE  IInv'
<1>1. PICK u \in known \ Strangers :
             /\ known' = known \ {u}
             /\ Proceed(r, [None EXCEPT !.op = "userRemoved", !.pc = "load", !.to = u], TRUE)
  BY DEF UserRemoved
<1>2. PICK new : new = [None EXCEPT !.op = "userRemoved", !.pc = "load", !.to = u]
  OBVIOUS
<1>3. Proceed(r, new, TRUE)
  BY <1>1, <1>2
<1>5. /\ exists' = exists /\ members' = members /\ invited' = invited /\ overlapped' = overlapped
      /\ schoolIds' = schoolIds /\ home' = home /\ sent' = sent + 1
  BY DEF UserRemoved, team
<1>6. /\ req[r].pc = "idle" /\ sent < MaxRequests /\ sent \in 0..MaxRequests /\ known \subseteq Users
      /\ RequestOK(req[r])
  BY DEF MayStart, IInv, TypeInv, TeamInv
<1>7. u \in Users /\ new \in RequestType /\ new.op = "userRemoved" /\ new.pc = "load" /\ new.to = u
  BY <1>2, <1>6, NoneTyped DEF RequestType, Ops
<1>8. RequestOK(new)'
  BY <1>7 DEF RequestOK
<1>9. /\ DOMAIN req' = Requests /\ req'[r] = new
      /\ \A q \in Requests \ {r} :
            /\ req'[q].op = req[q].op /\ req'[q].pc = req[q].pc /\ req'[q].to = req[q].to
            /\ req[q].stale => req'[q].stale
            /\ req[q].pc = "write" => req'[q].stale
  BY <1>3, Changing DEF IInv
<1>10. TypeInv'
  <2>1. DOMAIN req' = Requests /\ \A q \in Requests : RequestOK(req[q])'
    BY <1>3, <1>5, <1>8, OthersTyped DEF IInv
  <2>2. sent' \in 0..MaxRequests /\ sent' # 0
    BY <1>5, <1>6, TeamsAssumption
  <2>3. TeamInv'
    BY <1>1, <1>5, <2>2 DEF IInv, TypeInv, TeamInv
  <2> QED
    BY <2>1, <2>3 DEF TypeInv
<1>11. EmptyInv'
  <2>1. SUFFICES ASSUME exists, members = <<>>
                 PROVE  \E q \in Requests : req'[q].pc \in {"result", "remove"}
    BY <1>5 DEF EmptyInv
  <2>2. PICK q \in Requests : req[q].pc \in {"result", "remove"}
    BY <2>1 DEF IInv, EmptyInv
  <2> QED
    BY <1>6, <1>9, <2>2
<1>12. SoundInv'
  <2>1. \A q \in Requests : ~Fresh(q)'
    BY <1>7, <1>9 DEF Fresh
  <2>2. ~overlapped => UsersOf(members') \cap Strangers \subseteq known'
    BY <1>1, <1>5 DEF IInv, SoundInv
  <2> QED
    BY <1>5, <2>1, <2>2 DEF SoundInv
<1>13. RemovedInv'
  <2>1. SUFFICES ASSUME ~overlapped, exists, NEW x \in UsersOf(members) \ known'
                 PROVE  \E q \in Requests : Removing(q, x)'
    BY <1>5 DEF RemovedInv, UsersOf
  <2>2. CASE x = u
    BY <1>7, <1>9, <2>2 DEF Removing
  <2>3. CASE x # u
    <3>1. PICK q \in Requests : Removing(q, x)
      BY <1>1, <2>1, <2>3 DEF IInv, RemovedInv
    <3>2. q # r
      BY <1>6, <3>1 DEF RequestOK, Removing
    <3> QED
      BY <1>9, <3>1, <3>2 DEF Removing
  <2> QED
    BY <2>2, <2>3
<1>14. ~ForeignUsers => CoverInv'
  BY <1>5 DEF IInv, CoverInv, Covered
<1> QED
  BY <1>10, <1>11, <1>12, <1>13, <1>14 DEF IInv
-----------------------------------------------------------------------------
(* Each service computes a change that is typed and sound.                 *)
LEMMA ComputedSound ==
    ASSUME TypeInv, NEW r \in Requests, req[r].pc = "load", exists,
           Computed(req[r]).fields # {}
    PROVE  LET q == req[r]
               c == Computed(q)
           IN  /\ Typed(c)
               /\ q.op = "userRemoved" => c.fields = {"userIds"}
               /\ ~q.stale /\ "userIds" \in c.fields => Sound(q, c)
<1> DEFINE users == Populated(members)
<1>1. PICK q : q = req[r]
  OBVIOUS
<1>2. PICK c : c = Computed(q)
  OBVIOUS
<1>3. /\ TeamInv /\ q \in RequestType /\ c.fields # {}
      /\ q.op \in Ops \ {"none", "patch", "delete"}
      /\ q.op # "removeSchool" => q.to \in Users
      /\ q.op = "setOwner" /\ ~q.stale => q.to \in known /\ (ForeignUsers \/ School[q.to] = home)
  BY <1>1, <1>2 DEF TypeInv, RequestOK, RequestType
<1>4. SUFFICES /\ Typed(c)
               /\ q.op = "userRemoved" => c.fields = {"userIds"}
               /\ ~q.stale /\ "userIds" \in c.fields => Sound(q, c)
  BY <1>1, <1>2
<1>5. CASE q.op = "addById"
  <2>1. c = AddingById(q, users)
    BY <1>2, <1>5 DEF Computed
  <2> QED
    BY <1>3, <1>5, <2>1, AddingByIdSound
<1>6. CASE q.op = "accept"
  <2>1. c = Accepting(q, users)
    BY <1>2, <1>6 DEF Computed
  <2> QED
    BY <1>3, <1>6, <2>1, AcceptingSound
<1>7. CASE q.op = "setOwner"
  <2>1. c = SettingOwner(q, users)
    BY <1>2, <1>7 DEF Computed
  <2> QED
    BY <1>3, <1>7, <2>1, SettingOwnerSound
<1>8. CASE q.op = "removeSchool"
  <2>1. c = RemovingSchool(q, users)
    BY <1>2, <1>8 DEF Computed
  <2> QED
    BY <1>3, <1>8, <2>1, RemovingSound
<1>9. CASE q.op = "userRemoved"
  <2>1. c = RemovingUser(q)
    BY <1>2, <1>9 DEF Computed
  <2> QED
    BY <1>3, <1>9, <2>1, RemovingSound
<1>10. <<>> \in Seq(TeamEntry) /\ {"invitedUserIds"} \in SUBSET Fields
  BY DEF Fields
<1>11. CASE q.op = "addByEmail"
  <2>1. c = AddingByEmail(q, users)
    BY <1>2, <1>11 DEF Computed
  <2>2. PICK inv : /\ c = Change({"invitedUserIds"}, <<>>, inv, {})
                   /\ \/ inv = invited
                      \/ inv = invited \cup {[user |-> q.to, role |-> q.role]}
    BY <1>3, <2>1 DEF AddingByEmail, Error, Change
  <2>3. inv \in SUBSET Invitation
    BY <1>3, <1>11, <2>2 DEF TeamInv, Invitation, RequestType
  <2>4. /\ c.fields = {"invitedUserIds"} /\ c.users = <<>> /\ c.inv = inv /\ c.schools = {}
    BY <2>2 DEF Change
  <2> QED
    BY <1>10, <1>11, <2>3, <2>4 DEF Typed
<1>12. CASE q.op = "removeInvite"
  <2>1. c = Change({"invitedUserIds"}, <<>>, WithoutInvitation(q.to), {})
    BY <1>2, <1>12 DEF Computed
  <2>2. WithoutInvitation(q.to) \in SUBSET Invitation
    BY <1>3 DEF TeamInv, WithoutInvitation
  <2>3. /\ c.fields = {"invitedUserIds"} /\ c.users = <<>>
        /\ c.inv = WithoutInvitation(q.to) /\ c.schools = {}
    BY <2>1 DEF Change
  <2> QED
    BY <1>10, <1>12, <2>2, <2>3 DEF Typed
<1> QED
  BY <1>3, <1>5, <1>6, <1>7, <1>8, <1>9, <1>11, <1>12 DEF Ops

LEMMA LoadOK ==
    ASSUME IInv, NEW r \in Requests, Load(r), UNCHANGED sent
    PROVE  IInv'
<1>1. PICK q : q = req[r]
  OBVIOUS
<1>2. PICK c : c = Computed(q)
  OBVIOUS
<1>3. /\ q.pc = "load" /\ RequestOK(q) /\ q \in RequestType
      /\ UNCHANGED team /\ exists' = exists /\ home' = home
      /\ sent' \in 0..MaxRequests /\ sent' # 0 /\ overlapped \in BOOLEAN /\ q.stale \in BOOLEAN
  BY <1>1 DEF Load, IInv, TypeInv, TeamInv, RequestOK, RequestType, team
<1>4. known \subseteq known' /\ known' \subseteq (known \cup Strangers)
  BY <1>1 DEF Load, CreatesExpert
<1>5. CASE exists /\ c.fields # {}
  <2>1. /\ Typed(c)
        /\ q.op = "userRemoved" => c.fields = {"userIds"}
        /\ ~q.stale /\ "userIds" \in c.fields => Sound(q, c)
    BY <1>1, <1>2, <1>3, <1>5, ComputedSound DEF IInv
  <2>2. PICK new : new = [q EXCEPT !.fields = c.fields, !.users = c.users, !.inv = c.inv,
                             !.schools = c.schools,
                             !.pc = IF q.op = "userRemoved" /\ c.users = <<>> THEN "remove" ELSE "write"]
    OBVIOUS
  <2>3. Proceed(r, new, FALSE) /\ overlapped' = overlapped
    BY <1>1, <1>2, <1>5, <2>2 DEF Load
  <2>4. /\ new \in RequestType /\ new.op = q.op /\ new.to = q.to /\ new.stale = q.stale
        /\ new.pc = (IF q.op = "userRemoved" /\ c.users = <<>> THEN "remove" ELSE "write")
        /\ new.fields = c.fields /\ new.users = c.users /\ new.schools = c.schools
    BY <1>3, <2>1, <2>2 DEF RequestType, Typed
  <2>5. RequestOK(new)'
    BY <1>3, <2>1, <2>4 DEF RequestOK, Typed
  <2>6. ~overlapped' /\ new.pc = "write" /\ ~new.stale /\ "userIds" \in new.fields => Sound(new, new)
    BY <2>1, <2>4 DEF Sound, Effective
  <2> QED
    BY <1>1, <1>3, <1>4, <2>3, <2>4, <2>5, <2>6, TeamUntouched
<1>6. CASE ~(exists /\ c.fields # {})
  <2>1. PICK new : new = None
    OBVIOUS
  <2>2. Proceed(r, new, FALSE) /\ overlapped' = (overlapped \/ q.stale)
    BY <1>1, <1>2, <1>6, <2>1 DEF Load, End
  <2>3. RequestOK(new)' /\ new.pc = "idle"
    BY <2>1, NoneTyped DEF RequestOK
  <2>4. ~overlapped' /\ exists /\ q.op = "userRemoved" => ~q.stale /\ q.to \notin UsersOf(members)
    <3>1. SUFFICES ASSUME ~q.stale, exists, q.op = "userRemoved"
                   PROVE  q.to \notin UsersOf(members)
      BY <2>2
    <3>2. c = RemovingUser(q) /\ c.fields = {}
      BY <1>2, <1>6, <3>1 DEF Computed
    <3>3. ~IsIn(members, q.to)
      BY <3>2 DEF RemovingUser, Change
    <3> QED
      BY <3>3, UsersInRange
  <2> QED
    BY <1>1, <1>3, <1>4, <2>2, <2>3, <2>4, TeamUntouched
<1> QED
  BY <1>5, <1>6

LEMMA ResultOK ==
    ASSUME IInv, NEW r \in Requests, Result(r), UNCHANGED sent
    PROVE  IInv'
<1>1. PICK q : q = req[r]
  OBVIOUS
<1>2. /\ q.pc = "result" /\ RequestOK(q) /\ q \in RequestType /\ q.op # "userRemoved"
      /\ UNCHANGED team /\ known' = known
      /\ sent' \in 0..MaxRequests /\ sent' # 0 /\ overlapped \in BOOLEAN /\ q.stale \in BOOLEAN
  BY <1>1 DEF Result, IInv, TypeInv, TeamInv, RequestOK, RequestType
<1>3. CASE exists /\ members = <<>>
  <2>1. PICK new : new = [q EXCEPT !.pc = "remove"]
    OBVIOUS
  <2>2. Proceed(r, new, FALSE) /\ overlapped' = overlapped
    BY <1>1, <1>3, <2>1 DEF Result, Goto
  <2>3. new \in RequestType /\ new.pc = "remove" /\ new.op = q.op
    BY <1>2, <2>1 DEF RequestType
  <2>4. RequestOK(new)'
    BY <1>2, <2>3 DEF RequestOK
  <2> QED
    BY <1>1, <1>2, <2>2, <2>3, <2>4, TeamUntouched
<1>4. CASE ~(exists /\ members = <<>>)
  <2>1. PICK new : new = None
    OBVIOUS
  <2>2. Proceed(r, new, FALSE) /\ overlapped' = (overlapped \/ q.stale)
    BY <1>1, <1>4, <2>1 DEF Result, End
  <2>3. RequestOK(new)' /\ new.pc = "idle"
    BY <2>1, NoneTyped DEF RequestOK
  <2> QED
    BY <1>1, <1>2, <1>4, <2>2, <2>3, TeamUntouched
<1> QED
  BY <1>3, <1>4

LEMMA WriteOK ==
    ASSUME IInv, NEW r \in Requests, Write(r), UNCHANGED sent
    PROVE  IInv'
<1>1. PICK q : q = req[r]
  OBVIOUS
<1>2. /\ q.pc = "write" /\ RequestOK(q) /\ q \in RequestType
      /\ exists' = exists /\ home' = home /\ known' = known
      /\ sent' = sent /\ sent \in 0..MaxRequests /\ sent # 0
      /\ overlapped \in BOOLEAN /\ q.stale \in BOOLEAN
  BY <1>1 DEF Write, IInv, TypeInv, TeamInv, RequestOK, RequestType
<1>3. CASE ~exists
  <2>1. PICK new : new = None
    OBVIOUS
  <2>2. /\ Proceed(r, new, FALSE) /\ overlapped' = (overlapped \/ q.stale)
        /\ UNCHANGED team
    BY <1>1, <1>3, <2>1 DEF Write, End, team
  <2>3. RequestOK(new)' /\ new.pc = "idle"
    BY <2>1, NoneTyped DEF RequestOK
  <2> QED
    BY <1>1, <1>2, <1>3, <2>2, <2>3, TeamUntouched
<1>4. CASE exists
  <2>1. PICK new : new = IF q.op = "userRemoved" THEN None ELSE [None EXCEPT !.pc = "result"]
    OBVIOUS
  <2>3. /\ members' = IF "userIds" \in q.fields THEN q.users ELSE members
        /\ invited' = IF "invitedUserIds" \in q.fields THEN q.inv ELSE invited
        /\ schoolIds' = IF "schoolIds" \in q.fields THEN q.schools ELSE schoolIds
        /\ overlapped' = (overlapped \/ q.stale)
        /\ Proceed(r, new, TRUE)
    BY <1>1, <1>4, <2>1 DEF Write
  <2>4. /\ RequestOK(new)' /\ new.pc \in {"idle", "result"} /\ new.op = "none"
        /\ q.op # "userRemoved" => new.pc = "result"
    <3>1. CASE q.op = "userRemoved"
      BY <2>1, <3>1, NoneTyped DEF RequestOK
    <3>2. CASE q.op # "userRemoved"
      <4>1. new \in RequestType /\ new.pc = "result" /\ new.op = "none"
        BY <2>1, <3>2, NoneTyped DEF RequestType
      <4> QED
        BY <4>1 DEF RequestOK
    <3> QED
      BY <3>1, <3>2
  <2>5. /\ DOMAIN req' = Requests /\ req'[r] = new
        /\ \A x \in Requests \ {r} :
              /\ req'[x].op = req[x].op /\ req'[x].pc = req[x].pc /\ req'[x].to = req[x].to
              /\ req[x].stale => req'[x].stale
              /\ req[x].op = "userRemoved" => req'[x].stale
              /\ req[x].pc = "write" => req'[x].stale
    BY <2>3, Changing DEF IInv
  <2>6. TypeInv'
    <3>1. DOMAIN req' = Requests /\ \A x \in Requests : RequestOK(req[x])'
      BY <1>2, <2>3, <2>4, OthersTyped DEF IInv
    <3>2. /\ members' \in Seq(TeamEntry) /\ invited' \subseteq Invitation
          /\ schoolIds' \subseteq Schools /\ home \in schoolIds'
      BY <1>2, <1>4, <2>3 DEF IInv, TypeInv, TeamInv, RequestOK, RequestType
    <3>3. TeamInv'
      BY <1>2, <2>3, <3>2 DEF IInv, TypeInv, TeamInv
    <3> QED
      BY <3>1, <3>3 DEF TypeInv
  <2>7. EmptyInv'
    <3>1. SUFFICES ASSUME members' = <<>>
                   PROVE  \E x \in Requests : req'[x].pc \in {"result", "remove"}
      BY DEF EmptyInv
    <3>2. q.op # "userRemoved"
      BY <1>2, <2>3, <3>1 DEF RequestOK
    <3> QED
      BY <2>4, <2>5, <3>2
  <2>8. \A x \in Requests : ~Fresh(x)'
    BY <2>4, <2>5 DEF Fresh
  (* What the write has put into the team, when nothing came between.      *)
  <2>9. ASSUME ~overlapped'
        PROVE  /\ ~overlapped /\ ~q.stale
               /\ \/ "userIds" \in q.fields /\ members' = q.users /\ Sound(q, q)
                     /\ schoolIds' = Effective(q)
                  \/ members' = members /\ schoolIds' = schoolIds
    <3>1. ~overlapped /\ ~q.stale
      BY <2>3, <2>9
    <3>2. "userIds" \in q.fields => Sound(q, q)
      BY <1>1, <1>2, <3>1 DEF IInv, SoundInv, Fresh
    <3> QED
      BY <1>2, <2>3, <3>1, <3>2 DEF RequestOK, Effective
  <2>10. SoundInv'
    <3>1. SUFFICES ASSUME ~overlapped', NEW u \in UsersOf(members'), u \in Strangers
                   PROVE  u \in known
      BY <1>2, <2>8 DEF SoundInv, UsersOf
    <3>2. u # Nobody /\ UsersOf(members) \cap Strangers \subseteq known
      BY <2>9, <3>1, TeamsAssumption DEF IInv, SoundInv
    <3>3. CASE members' = members
      BY <3>1, <3>2, <3>3
    <3>4. CASE members' = q.users /\ Sound(q, q)
      <4>1. PICK e \in Range(members') : e.user = u
        BY UsersInRange
      <4>2. Kept(e) \/ e.user \in known
        BY <3>4, <4>1 DEF Sound, Comes
      <4>3. CASE Kept(e)
        BY <3>1, <3>2, <4>1, <4>3 DEF Kept, UsersOf
      <4> QED
        BY <4>1, <4>2, <4>3
    <3> QED
      BY <2>9, <3>1, <3>3, <3>4
  <2>11. RemovedInv'
    <3>1. SUFFICES ASSUME ~overlapped', NEW u \in UsersOf(members'), u \notin known
                   PROVE  \E x \in Requests : Removing(x, u)'
      BY <1>2 DEF RemovedInv, UsersOf
    <3>2. \A v \in UsersOf(members) \ known : \E x \in Requests : Removing(x, v)
      BY <1>4, <2>9, <3>1 DEF IInv, RemovedInv
    <3>3. ASSUME NEW x \in Requests \ {r}, req[x].op = "userRemoved"
          PROVE  Removing(x, u)'
      BY <2>5, <3>3 DEF Removing
    <3>4. ASSUME NEW v \in UsersOf(members) \ known, ~(q.op = "userRemoved" /\ q.to = v)
          PROVE  \E x \in Requests : Removing(x, u)'
      <4>1. PICK x \in Requests : Removing(x, v)
        BY <3>2, <3>4
      <4>2. x # r
        BY <1>1, <2>9, <3>1, <3>4, <4>1 DEF Removing
      <4> QED
        BY <3>3, <4>1, <4>2 DEF Removing
    <3>5. CASE members' = members /\ q.op # "userRemoved"
      BY <3>1, <3>4, <3>5
    <3>6. CASE members' = q.users /\ Sound(q, q)
      <4>1. PICK e \in Range(members') : e.user = u
        BY UsersInRange
      <4>2. Kept(e)
        BY <3>1, <3>6, <4>1 DEF Sound, Comes
      <4>3. PICK v \in UsersOf(members) : v \notin known /\ (u = v \/ u = Nobody)
        BY <3>1, <4>1, <4>2 DEF Kept, UsersOf
      <4>4. CASE q.op # "userRemoved"
        BY <3>4, <4>3, <4>4
      <4>5. CASE q.op = "userRemoved"
        <5>1. u \in UsersOf(members) /\ u # q.to
          BY <3>1, <3>6, <4>5 DEF Sound
        <5> QED
          BY <3>1, <3>4, <5>1
      <4> QED
        BY <4>4, <4>5
    <3>7. q.op = "userRemoved" => "userIds" \in q.fields
      BY <1>2 DEF RequestOK
    <3>8. q.op = "userRemoved" => members' = q.users /\ Sound(q, q)
      <4>1. "userIds" \in q.fields => Sound(q, q)
        BY <1>1, <1>2, <2>9, <3>1 DEF IInv, SoundInv, Fresh
      <4> QED
        BY <2>3, <3>7, <4>1
    <3> QED
      BY <2>9, <3>1, <3>5, <3>6, <3>8
  <2>12. ASSUME ~ForeignUsers
         PROVE  CoverInv'
    <3>1. SUFFICES ASSUME ~overlapped'
                   PROVE  Covered(members', schoolIds')
      BY DEF CoverInv
    <3>2. Covered(members, schoolIds)
      BY <1>4, <2>9, <2>12, <3>1 DEF IInv, CoverInv
    <3>3. CASE members' = members /\ schoolIds' = schoolIds
      BY <3>2, <3>3
    <3>4. CASE members' = q.users /\ Sound(q, q) /\ schoolIds' = Effective(q)
      <4>1. SUFFICES ASSUME NEW i \in DOMAIN members'
                     PROVE  /\ members'[i].school \in schoolIds'
                            /\ members'[i].user # Nobody =>
                                  members'[i].school = School[members'[i].user]
        BY DEF Covered
      <4>2. PICK e : e = members'[i] /\ e \in Range(members')
        BY <4>1 DEF Range
      <4>3. Kept(e) \/ Comes(e, schoolIds')
        BY <3>4, <4>2 DEF Sound
      <4>4. CASE Comes(e, schoolIds')
        BY <2>12, <3>2, <4>2, <4>4 DEF Comes
      <4>5. CASE Kept(e)
        <5>1. PICK j \in DOMAIN members : /\ e.school = members[j].school
                                          /\ e.user \in {members[j].user, Nobody}
          BY <4>5 DEF Kept
        <5>2. schoolIds \subseteq schoolIds'
          BY <3>4 DEF Sound
        <5> QED
          BY <3>2, <4>2, <5>1, <5>2 DEF Covered
      <4> QED
        BY <4>3, <4>4, <4>5
    <3> QED
      BY <2>9, <3>1, <3>3, <3>4
  <2> QED
    BY <2>6, <2>7, <2>10, <2>11, <2>12 DEF IInv
<1> QED
  BY <1>3, <1>4

LEMMA RemoveTeamOK ==
    ASSUME IInv, NEW r \in Requests, RemoveTeam(r), UNCHANGED sent
    PROVE  IInv'
<1>1. PICK q : q = req[r]
  OBVIOUS
<1>2. /\ q.pc = "remove" /\ q.stale \in BOOLEAN
      /\ exists' = FALSE /\ members' = members /\ invited' = invited
      /\ schoolIds' = schoolIds /\ home' = home /\ known' = known
      /\ sent' = sent /\ sent \in 0..MaxRequests /\ sent # 0
      /\ overlapped \in BOOLEAN /\ overlapped' = (overlapped \/ q.stale)
  BY <1>1 DEF RemoveTeam, End, IInv, TypeInv, TeamInv, RequestOK, RequestType
<1>3. PICK new : new = None
  OBVIOUS
<1>5. Proceed(r, new, TRUE)
  BY <1>3 DEF RemoveTeam, End
<1>6. RequestOK(new)' /\ new.pc = "idle"
  BY <1>3, NoneTyped DEF RequestOK
<1>7. TypeInv'
  <2>1. DOMAIN req' = Requests /\ \A x \in Requests : RequestOK(req[x])'
    BY <1>2, <1>5, <1>6, OthersTyped DEF IInv
  <2>2. TeamInv'
    BY <1>2 DEF IInv, TypeInv, TeamInv
  <2> QED
    BY <2>1, <2>2 DEF TypeInv
<1>8. EmptyInv' /\ RemovedInv' /\ CoverInv'
  BY <1>2 DEF EmptyInv, RemovedInv, CoverInv
<1>9. SoundInv'
  <2>1. \A x \in Requests : ~Fresh(x)'
    BY <1>5, <1>6, Changing DEF IInv, Fresh
  <2>2. ~overlapped' => UsersOf(members) \cap Strangers \subseteq known
    BY <1>2 DEF IInv, SoundInv
  <2> QED
    BY <1>2, <2>1, <2>2 DEF SoundInv, UsersOf
<1> QED
  BY <1>7, <1>8, <1>9 DEF IInv
-----------------------------------------------------------------------------
LEMMA NextOK ==
    ASSUME IInv, [Next]_vars
    PROVE  IInv'
<1>1. CASE Create
  BY <1>1, CreateOK
<1>2. ASSUME NEW r \in Requests, Start(r)
      PROVE  IInv'
  <2>1. MayStart(r)
    BY <1>2 DEF Start
  <2>2. CASE Patch(r)
    BY <2>1, <2>2, PatchOK
  <2>3. CASE AddById(r) \/ AddByEmail(r) \/ RemoveInvite(r) \/ Accept(r)
             \/ Administrate(r) \/ Delete(r)
    BY <2>1, <2>3, OtherStartsOK
  <2>4. CASE UserRemoved(r)
    BY <2>1, <2>4, UserRemovedOK
  <2> QED
    BY <1>2, <2>2, <2>3, <2>4 DEF Start
<1>3. ASSUME NEW r \in Requests, Continue(r)
      PROVE  IInv'
  <2>1. UNCHANGED sent
    BY <1>3 DEF Continue
  <2>2. CASE Load(r)
    BY <2>1, <2>2, LoadOK
  <2>3. CASE Write(r)
    BY <2>1, <2>3, WriteOK
  <2>4. CASE Result(r)
    BY <2>1, <2>4, ResultOK
  <2>5. CASE RemoveTeam(r)
    BY <2>1, <2>5, RemoveTeamOK
  <2> QED
    BY <1>3, <2>2, <2>3, <2>4, <2>5 DEF Continue
<1>4. CASE UNCHANGED vars
  <2>1. UNCHANGED <<exists, members, invited, schoolIds, home, known, req, sent, overlapped>>
    BY <1>4 DEF vars, team
  <2>2. TypeInv'
    BY <2>1 DEF IInv, TypeInv, TeamInv, RequestOK
  <2>3. EmptyInv' /\ RemovedInv' /\ (~ForeignUsers => CoverInv')
    BY <2>1 DEF IInv, EmptyInv, RemovedInv, Removing, UsersOf, CoverInv, Covered
  <2>4. SoundInv'
    <3>1. \A q, c : Sound(q, c) => Sound(q, c)'
      <4>1. \A e : Kept(e) => Kept(e)'
        BY <2>1 DEF Kept
      <4>2. \A e, schools : Comes(e, schools) => Comes(e, schools)'
        BY <2>1 DEF Comes, Covered
      <4> QED
        BY <2>1, <4>1, <4>2 DEF Sound, KeepsOwner, HasOwner, Effective, UsersOf
    <3>2. ASSUME NEW r \in Requests, Fresh(r), Sound(req[r], req[r])
          PROVE  Sound(req[r], req[r])'
      <4>1. PICK q : q = req[r]
        OBVIOUS
      <4>2. Sound(q, q)'
        BY <3>1, <3>2, <4>1
      <4>3. q = req'[r]
        BY <2>1, <4>1
      <4> QED
        BY <4>2, <4>3
    <3> QED
      BY <2>1, <3>2 DEF IInv, SoundInv, Fresh, UsersOf
  <2> QED
    BY <2>2, <2>3, <2>4 DEF IInv
<1> QED
  BY <1>1, <1>2, <1>3, <1>4 DEF Next

(* The inductive invariant.                                                *)
THEOREM IInvTheorem == Spec => []IInv
<1>1. Init => IInv
  BY InitOK
<1>2. IInv /\ [Next]_vars => IInv'
  BY NextOK
<1> QED
  BY <1>1, <1>2, PTL DEF Spec

(* The variables keep their types, for every number of users, schools and  *)
(* requests at once.                                                       *)
THEOREM TypeTheorem == Spec => []TypeOK
<1>1. IInv => TypeOK
  <2>1. SUFFICES ASSUME IInv PROVE TypeOK
    OBVIOUS
  <2>2. \A r \in Requests : req[r].fields \subseteq Fields
    BY <2>1 DEF IInv, TypeInv, RequestOK, RequestType
  <2> QED
    BY <2>1, <2>2 DEF IInv, TypeInv, TeamInv, TypeOK, TeamEntry, Invitation
<1> QED
  BY <1>1, IInvTheorem, PTL

(* A team never stays without members: the hook isUserIsEmpty looks at the *)
(* result of the write that emptied it, the listener of removed users at   *)
(* the array it is about to write.                                         *)
THEOREM EmptyTheorem == Spec => []NoEmptyTeamAtRest
<1>1. IInv => NoEmptyTeamAtRest
  BY DEF IInv, EmptyInv, NoEmptyTeamAtRest, Pending
<1> QED
  BY <1>1, IInvTheorem, PTL

(* Once no request is under way and none has written over a change it had  *)
(* not read, every member is a user who exists: until then a listener will *)
(* hear of, or has read, whoever was removed.                              *)
THEOREM RemovedTheorem == Spec => []NoRemovedMembersAtRest
<1>1. IInv => NoRemovedMembersAtRest
  <2>1. SUFFICES ASSUME IInv, Pending = {}, exists, ~overlapped, NEW i \in DOMAIN members
                 PROVE  members[i].user \in known
    BY DEF NoRemovedMembersAtRest
  <2>2. members[i].user \in UsersOf(members)
    BY DEF UsersOf
  <2>3. \A r \in Requests : req[r].op # "userRemoved"
    BY <2>1 DEF IInv, TypeInv, RequestOK, Pending
  <2> QED
    BY <2>1, <2>2, <2>3 DEF IInv, RemovedInv, Removing
<1> QED
  BY <1>1, IInvTheorem, PTL

(* When the forms name users of the own school only, the schools of the    *)
(* team cover its members as long as no request has written over a change  *)
(* it had not read.                                                        *)
THEOREM CoverTheorem ==
    ASSUME ~ForeignUsers
    PROVE  Spec => []SchoolsCoverMembers
<1>1. IInv => SchoolsCoverMembers
  BY DEF IInv, CoverInv, Covered, SchoolsCoverMembers
<1> QED
  BY <1>1, IInvTheorem, PTL

(* The first owner keeps the role while they are a member, listed once.    *)
THEOREM OwnerTheorem == Spec => OwnerStaysOwner
<1> DEFINE owner == members[FirstOwner(members)].user
           Stays == HasOwner(members) /\ ~overlapped' =>
                       (owner # Nobody /\ Once(members, owner) /\ IsIn(members', owner)
                          => RoleIn(members', owner) = "teamowner")
<1>1. IInv /\ [Next]_vars => Stays
  <2>1. SUFFICES ASSUME IInv, [Next]_vars, HasOwner(members), ~overlapped', NEW o,
                        o = owner, o # Nobody, Once(members, o), IsIn(members', o)
                 PROVE  RoleIn(members', o) = "teamowner"
    OBVIOUS
  <2>2. members \in Seq(TeamEntry)
    BY <2>1 DEF IInv, TypeInv, TeamInv
  <2>3. CASE members' = members
    <3>1. \A e \in Range(members) : e.user = o => e.role = "teamowner"
      BY <2>1, <2>2, OwnerOnce DEF Range
    <3>2. RoleIn(members, o) = "teamowner"
      <4> HIDE DEF owner
      <4> QED
        BY <2>1, <2>2, <2>3, <3>1, OnlyRole
    <3> QED
      BY <2>3, <3>2
  <2>4. CASE Create
    <3>1. members = <<>>
      BY <2>1, <2>4 DEF Create, IInv, TypeInv, TeamInv
    <3> QED
      BY <2>1, <3>1 DEF HasOwner
  <2>5. ASSUME NEW r \in Requests, Write(r), members' # members
        PROVE  RoleIn(members', o) = "teamowner"
    <3>1. /\ Fresh(r) /\ members' = req[r].users /\ ~overlapped
      BY <2>1, <2>5 DEF Write, End, Fresh, IInv, TypeInv, TeamInv, RequestOK, RequestType
    <3>2. KeepsOwner(members, members')
      BY <2>1, <3>1 DEF IInv, SoundInv, Sound
    <3> QED
      BY <2>1, <3>2 DEF KeepsOwner
  <2>6. \/ members' = members \/ Create
        \/ \E r \in Requests : Write(r) /\ members' # members
    <3>1. ASSUME NEW r \in Requests, Start(r)
          PROVE  members' = members
      BY <3>1 DEF Start, Patch, AddById, AddByEmail, RemoveInvite, Accept, Administrate,
                  Delete, UserRemoved, Send, team
    <3>2. ASSUME NEW r \in Requests, Continue(r)
          PROVE  members' = members \/ Write(r)
      BY <3>2 DEF Continue, Load, Result, RemoveTeam, team
    <3>3. CASE UNCHANGED vars
      BY <3>3 DEF vars, team
    <3> QED
      BY <2>1, <3>1, <3>2, <3>3 DEF Next
  <2> QED
    BY <2>3, <2>4, <2>5, <2>6
<1>2. [][Stays]_vars => OwnerStaysOwner
  BY PTL DEF OwnerStaysOwner
<1> QED
  BY <1>1, <1>2, IInvTheorem, PTL DEF Spec
=============================================================================
