----------------------------- MODULE SyncProofs -----------------------------
(***************************************************************************)
(* Proofs that a follower's copy is current at its state (ReplicaCurrent), *)
(* that no answer names more ids than maxChanges (PageWithinLimit) or      *)
(* leaves its client where it was (PagesAdvance), and that a viewer's list *)
(* has what the query finds, in its order (ViewExact), for every set of    *)
(* objects, every store, every maxChanges and every number of writes.      *)
(***************************************************************************)
EXTENDS Sync, FiniteSetTheorems, SequenceTheorems, WellFoundedInduction, TLAPS

-----------------------------------------------------------------------------
(* The inductive invariant. *)

Types ==
    /\ backend \in Backend
    /\ objects \in [Object -> Content \union {NoObject}]
    /\ log \in Seq(Entry)
    /\ ignore \in BOOLEAN
    /\ replica \in [Object -> Content \union {NoObject}]

CreatedAt(i, o) == i \in DOMAIN log /\ log[i].kind[o] = "created"
DestroyedAt(i, o) == i \in DOMAIN log /\ log[i].kind[o] = "destroyed"

\* What the log says of an object: it begins with the object's one creation,
\* and an object that was destroyed is gone.
LogTruth ==
    \A o \in Object :
        /\ \A i, j \in DOMAIN log : CreatedAt(i, o) /\ CreatedAt(j, o) => i = j
        /\ \A i \in DOMAIN log : log[i].kind[o] # "none" =>
               \E j \in DOMAIN log : j <= i /\ CreatedAt(j, o)
        /\ objects[o] # NoObject => o \in Minted
        /\ (\E i \in DOMAIN log : DestroyedAt(i, o)) => objects[o] = NoObject

\* ReplicaCurrent in every phase of a call, and nothing in the copy that was
\* created after the follower's state.
Current ==
    \A o \in Object :
        \/ \E i \in Since(cursor) : Concerns(i, o)
        \/ Same(replica[o], AsTold(o))

ReplicaOld ==
    \A o \in Object : replica[o] # NoObject =>
        \E i \in DOMAIN log : i <= cursor /\ CreatedAt(i, o)

\* The answer in hand accounts for every entry up to its newState.
Accounted(o) ==
    \/ o \in answer.created \union answer.updated \union answer.destroyed
    \/ \E i, j \in Since(cursor) : CreatedAt(i, o) /\ DestroyedAt(j, o)

AnswerCovers ==
    /\ answer.newState \in Int
    /\ cursor <= answer.newState /\ answer.newState <= Len(log)
    /\ \A o \in Object : \A i \in DOMAIN log :
           cursor < i /\ i <= answer.newState /\ Concerns(i, o) => Accounted(o)
    /\ \A o \in answer.destroyed \cap Object :
           \E i \in DOMAIN log : DestroyedAt(i, o)
    /\ \A o \in (answer.created \union answer.updated) \cap Object :
           \E i \in DOMAIN log : i <= answer.newState /\ CreatedAt(i, o)

\* What the answer calls created was created since the client's state.
AnswerFresh == \A o \in answer.created : \E i \in Since(cursor) : CreatedAt(i, o)

Following ==
    /\ cursor \in 0 .. Len(log)
    /\ Current
    /\ ReplicaOld
    /\ phase = "read" => AnswerCovers

IInv ==
    /\ Types
    /\ LogTruth
    /\ role = "follower" => Following

-----------------------------------------------------------------------------
(* What the store reads of its log. *)

\* The units counted up to an entry are among those counted up to a later one.
LEMMA UnitsGrow ==
    ASSUME Types, NEW s, NEW ign, NEW i \in Int, NEW j \in Int, j <= i
    PROVE  /\ Units(s, j, ign) \subseteq Units(s, i, ign)
           /\ IsFiniteSet(Units(s, i, ign))
  <1>1. Relevant(s, ign) \subseteq 1 .. Len(log)
    BY DEF Relevant, Since, Types
  <1>2. IsFiniteSet(1 .. Len(log))
    BY FS_Interval DEF Types
  <1>3. IsFiniteSet(Relevant(s, ign))
    BY <1>1, <1>2, FS_Subset
  <1>4. Relevant(s, ign) \subseteq Int
    BY <1>1
  <1>5. /\ EntryUnits(s, j, ign) \subseteq EntryUnits(s, i, ign)
        /\ IsFiniteSet(EntryUnits(s, i, ign))
    <2>1. EntryUnits(s, j, ign) \subseteq EntryUnits(s, i, ign)
      BY <1>4 DEF EntryUnits
    <2>2. EntryUnits(s, i, ign) \subseteq Relevant(s, ign)
      BY DEF EntryUnits
    <2> QED
      BY <2>1, <2>2, <1>3, FS_Subset
  <1>6. /\ IdUnits(s, j, ign) \subseteq IdUnits(s, i, ign)
        /\ IsFiniteSet(IdUnits(s, i, ign))
    <2>1. IdUnits(s, j, ign) \subseteq IdUnits(s, i, ign)
      <3> SUFFICES ASSUME NEW u \in IdUnits(s, j, ign)
                   PROVE  u \in IdUnits(s, i, ign)
        OBVIOUS
      <3>1. /\ u \in Relevant(s, ign) \X Object
            /\ u[1] <= j /\ ~Skipped(u[1], ign) /\ u[2] \in Touched(u[1])
        BY DEF IdUnits
      <3>2. u[1] \in Int /\ u[1] <= i
        BY <3>1, <1>4
      <3> QED
        BY <3>1, <3>2 DEF IdUnits
    <2>2. IdUnits(s, i, ign) \subseteq Relevant(s, ign) \X Object
      BY DEF IdUnits
    <2>3. IsFiniteSet(Relevant(s, ign) \X Object)
      BY <1>3, FS_Product, ChangeLogAssumption
    <2> QED
      BY <2>1, <2>2, <2>3, FS_Subset
  <1>7. /\ DistinctIds(s, j, ign) \subseteq DistinctIds(s, i, ign)
        /\ IsFiniteSet(DistinctIds(s, i, ign))
    <2>1. DistinctIds(s, j, ign) \subseteq DistinctIds(s, i, ign)
      BY <1>4 DEF DistinctIds
    <2>2. DistinctIds(s, i, ign) \subseteq Object
      BY DEF DistinctIds
    <2> QED
      BY <2>1, <2>2, FS_Subset, ChangeLogAssumption
  <1> QED
    BY <1>5, <1>6, <1>7 DEF Units

\* A page takes the relevant entries in order: it has every one before any
\* entry it has.
LEMMA PageInOrder ==
    ASSUME Types, NEW s, NEW limit \in Nat, NEW ign,
           NEW i \in Page(s, limit, ign), NEW j \in Relevant(s, ign), j <= i
    PROVE  j \in Page(s, limit, ign)
  <1>1. i \in Int /\ j \in Int
    BY DEF Page, Relevant, Since, Types
  <1>2. /\ IsFiniteSet(Units(s, i, ign))
        /\ Units(s, j, ign) \subseteq Units(s, i, ign)
    BY <1>1, UnitsGrow
  <1>3. Cardinality(Units(s, j, ign)) <= Cardinality(Units(s, i, ign))
    BY <1>2, FS_Subset
  <1>4. /\ Cardinality(Units(s, i, ign)) \in Nat
        /\ Cardinality(Units(s, j, ign)) \in Nat
    BY <1>2, FS_Subset, FS_CardinalityType
  <1>5. limit # NoLimit => Cardinality(Units(s, i, ign)) <= limit
    BY DEF Page
  <1> QED
    BY <1>3, <1>4, <1>5 DEF Page

\* A set of entries that is not empty has a last one.
LEMMA LastEntry ==
    ASSUME NEW n \in Nat, NEW S \in SUBSET (1 .. n), S # {}
    PROVE  \E i \in S : \A j \in S : j <= i
  <1> DEFINE T == {n - i : i \in S}
  <1>1. T \in SUBSET Nat /\ T # {}
    <2>1. \A i \in S : n - i \in Nat
      OBVIOUS
    <2> QED
      BY <2>1
  <1>2. PICK t \in T : \A u \in T : t <= u
    <2> DEFINE Less == {p \in Nat \X Nat : p[1] < p[2]}
    <2>1. IsWellFoundedOn(Less, Nat)
      BY NatLessThanWellFounded, Zenon DEF OpToRel
    <2>2. PICK t \in T : \A u \in T : ~(<<u, t>> \in Less)
      <3> HIDE DEF T, Less
      <3> QED
        BY <1>1, <2>1, WFMin
    <2>3. \A u \in T : u \in Nat /\ t \in Nat /\ ~(u < t)
      <3> HIDE DEF T
      <3> QED
        BY <2>2, <1>1
    <2> HIDE DEF T
    <2> QED
      BY <2>3
  <1>3. PICK i \in S : t = n - i
    BY <1>2
  <1>4. \A j \in S : n - i <= n - j
    BY <1>2, <1>3
  <1>5. \A j \in S : j <= i
    BY <1>4
  <1> QED
    BY <1>5

\* A page begins after the state it was asked for, and the newState of its
\* answer is where it ends: no relevant entry up to there is left out.
LEMMA PageComplete ==
    ASSUME Types, cursor \in 0 .. Len(log), NEW limit \in Nat, NEW ign
    PROVE  LET page == Page(cursor, limit, ign)
               n == NewState(cursor, limit, ign)
           IN  /\ n \in Int /\ cursor <= n /\ n <= Len(log)
               /\ \A i \in page : i \in DOMAIN log /\ cursor < i /\ i <= n
               /\ \A i \in Relevant(cursor, ign) : i <= n => i \in page
  <1> DEFINE page == Page(cursor, limit, ign)
             n == NewState(cursor, limit, ign)
  <1> DEFINE last == LastOf(page, cursor)
  <1>1. page \subseteq Relevant(cursor, ign)
    BY DEF Page
  <1>2. \A i \in Relevant(cursor, ign) :
            i \in DOMAIN log /\ i \in Int /\ cursor < i /\ i <= Len(log)
    BY DEF Relevant, Since, Types
  <1>3. Len(log) \in Nat /\ cursor \in Int /\ cursor <= Len(log)
    BY DEF Types
  <1>4. CASE page = {}
    <2>1. last = cursor
      BY <1>4 DEF LastOf
    <2>2. \A i \in Relevant(cursor, ign) : ~(i <= cursor)
      BY <1>2, <1>3
    <2>3. CASE backend = "mail" \/ HasMore(cursor, limit, ign)
      <3>1. n = cursor
        BY <2>1, <2>3 DEF NewState
      <3> QED
        BY <3>1, <2>2, <1>3, <1>4
    <2>4. CASE ~(backend = "mail" \/ HasMore(cursor, limit, ign))
      <3>1. n = Len(log) /\ page = Relevant(cursor, ign)
        BY <2>4 DEF NewState, HasMore, State
      <3> QED
        BY <3>1, <1>3, <1>4
    <2> QED
      BY <2>3, <2>4
  <1>5. CASE page # {}
    <2>1. page \in SUBSET (1 .. Len(log))
      BY <1>1, <1>2 DEF Types
    <2>2. \E i \in page : \A j \in page : j <= i
      <3> HIDE DEF page
      <3> QED
        BY <2>1, <1>3, <1>5, LastEntry
    <2>3. last \in page /\ \A j \in page : j <= last
      BY <2>2, <1>5 DEF LastOf
    <2>4. \A i \in Relevant(cursor, ign) : i <= last => i \in page
      BY <2>3, PageInOrder
    <2>5. CASE backend = "mail" \/ HasMore(cursor, limit, ign)
      <3>1. n = last
        BY <2>5 DEF NewState
      <3> QED
        BY <3>1, <2>3, <2>4, <1>1, <1>2, <1>3
    <2>6. CASE ~(backend = "mail" \/ HasMore(cursor, limit, ign))
      <3>1. n = Len(log) /\ page = Relevant(cursor, ign)
        BY <2>6 DEF NewState, HasMore, State
      <3> QED
        BY <3>1, <1>2, <1>3
    <2> QED
      BY <2>5, <2>6
  <1> QED
    BY <1>4, <1>5

\* What get_changes says of the entries between the client's state and the
\* newState accounts for all of them, and what it calls created was.
LEMMA GetChangesCovers ==
    ASSUME Types, LogTruth, cursor \in 0 .. Len(log), NEW limit \in Nat,
           UNCHANGED <<storeVars, cursor, ignore>>,
           answer'.created = GetChanges(cursor, limit, ignore).created,
           answer'.updated = GetChanges(cursor, limit, ignore).updated,
           answer'.destroyed = GetChanges(cursor, limit, ignore).destroyed,
           answer'.newState = GetChanges(cursor, limit, ignore).newState
    PROVE  AnswerCovers' /\ AnswerFresh'
  <1> DEFINE page == Page(cursor, limit, ignore)
             n == NewState(cursor, limit, ignore)
             all == Relevant(cursor, ignore)
  <1>1. Types /\ LogTruth /\ cursor \in 0 .. Len(log)
    OBVIOUS
  <1>2. /\ n \in Int /\ cursor <= n /\ n <= Len(log)
        /\ \A i \in page : i \in DOMAIN log /\ cursor < i /\ i <= n
        /\ \A i \in all : i <= n => i \in page
    <2> HIDE DEF page, n, all
    <2> QED
      BY <1>1, PageComplete DEF page, n, all
  <1>3. /\ answer'.created = Created(page)
        /\ answer'.updated = Updated(page, ignore)
        /\ answer'.destroyed = Destroyed(page)
        /\ answer'.newState = n
    <2> HIDE DEF page, n
    <2> QED
      BY DEF GetChanges, page, n
  <1>4. /\ log' = log /\ cursor' = cursor /\ ignore' = ignore
        /\ objects' = objects /\ backend' = backend
    BY DEF storeVars
  <1> HIDE DEF page, n, all
  <1>5. ASSUME NEW o \in Object, NEW i \in DOMAIN log,
               cursor < i, i <= n, Concerns(i, o)
        PROVE  \/ o \in Created(page) \union Updated(page, ignore) \union Destroyed(page)
               \/ \E k, j \in Since(cursor) : CreatedAt(k, o) /\ DestroyedAt(j, o)
    <2>1. i \in Since(cursor)
      BY <1>5 DEF Since
    <2>2. ~Skipped(i, ignore)
      BY <1>5 DEF Skipped, Ignores, IsMetadataOnly, Concerns
    <2>3. i \in page
      BY <2>1, <2>2, <1>2, <1>5 DEF all, Relevant
    <2>4. \A k \in page : k \in Since(cursor)
      BY <1>2 DEF Since
    <2>5. CASE Has(page, o, "created") /\ Has(page, o, "destroyed")
      <3>1. PICK k \in page : log[k].kind[o] = "created"
        BY <2>5 DEF Has
      <3>2. PICK j \in page : log[j].kind[o] = "destroyed"
        BY <2>5 DEF Has
      <3>3. CreatedAt(k, o) /\ DestroyedAt(j, o)
        BY <3>1, <3>2, <1>2 DEF CreatedAt, DestroyedAt
      <3> QED
        BY <3>3, <2>4
    <2>6. CASE Has(page, o, "created") /\ ~Has(page, o, "destroyed")
      BY <2>6 DEF Created
    <2>7. CASE ~Has(page, o, "created") /\ Has(page, o, "destroyed")
      BY <2>7 DEF Destroyed
    <2>8. CASE ~Has(page, o, "created") /\ ~Has(page, o, "destroyed")
      <3>1. log[i].kind[o] = "updated" /\ (ignore => "rank" \in log[i].props)
        BY <2>8, <2>3, <1>5 DEF Has, Concerns
      <3>2. Has(page, o, "updated")
        BY <3>1, <2>3 DEF Has
      <3>3. ignore => "rank" \in PropertiesIn(page, o)
        BY <3>1, <2>3 DEF PropertiesIn
      <3>4. ~(Ignores(ignore) /\ PropertiesIn(page, o) = {"meta"})
        BY <3>3 DEF Ignores
      <3> QED
        BY <3>2, <3>4, <2>8 DEF Updated
    <2> QED
      BY <2>5, <2>6, <2>7, <2>8
  <1>6. ASSUME NEW o \in Object, o \in Destroyed(page)
        PROVE  \E i \in DOMAIN log : DestroyedAt(i, o)
    BY <1>6, <1>2 DEF Destroyed, Has, DestroyedAt
  <1>7. ASSUME NEW o \in Object, o \in Created(page) \union Updated(page, ignore)
        PROVE  \E i \in DOMAIN log : i <= n /\ CreatedAt(i, o)
    <2>1. PICK k \in page : log[k].kind[o] # "none"
      BY <1>7 DEF Created, Updated, Has
    <2>2. k \in DOMAIN log /\ k \in Int /\ k <= n
      BY <1>2, <1>1 DEF Types
    <2>3. PICK j \in DOMAIN log : j <= k /\ CreatedAt(j, o)
      BY <2>1, <2>2, <1>1 DEF LogTruth
    <2>4. j \in Int
      BY <1>1 DEF Types
    <2> QED
      BY <2>2, <2>3, <2>4, <1>2
  <1>8. \A i, o : (CreatedAt(i, o)' <=> CreatedAt(i, o)) /\ (DestroyedAt(i, o)' <=> DestroyedAt(i, o))
    BY <1>4 DEF CreatedAt, DestroyedAt
  <1>9. /\ Since(cursor)' = Since(cursor)
        /\ \A i, o : Concerns(i, o)' <=> Concerns(i, o)
    BY <1>4 DEF Since, Concerns
  <1>10. \A o \in Object : \A i \in DOMAIN log :
            cursor < i /\ i <= n /\ Concerns(i, o) => Accounted(o)'
    BY <1>3, <1>5, <1>8, <1>9 DEF Accounted
  <1>11. AnswerCovers'
    BY <1>2, <1>3, <1>4, <1>6, <1>7, <1>8, <1>9, <1>10 DEF AnswerCovers
  <1>12. AnswerFresh'
    <2> SUFFICES ASSUME NEW o \in Created(page)
                 PROVE  \E i \in Since(cursor) : CreatedAt(i, o)
      BY <1>3, <1>8, <1>9 DEF AnswerFresh
    <2>1. PICK k \in page : log[k].kind[o] = "created"
      BY DEF Created, Has
    <2>2. k \in Since(cursor) /\ CreatedAt(k, o)
      BY <2>1, <1>2 DEF Since, CreatedAt
    <2> QED
      BY <2>2
  <1> QED
    BY <1>11, <1>12

LEMMA ReadCovers ==
    ASSUME IInv, cursor \in 0 .. Len(log), NEW limit \in Nat, Read(limit)
    PROVE  AnswerCovers' /\ AnswerFresh'
  <1>1. Types /\ LogTruth /\ UNCHANGED <<storeVars, cursor, ignore>>
    BY DEF IInv, Read
  <1>2. answer' = GetChanges(cursor, limit, ignore)
    BY DEF Read
  <1> QED
    BY <1>1, <1>2, GetChangesCovers


-----------------------------------------------------------------------------
(* Writes. *)

\* What one commit does to one object.
Recorded(o, e) ==
    \/ e.kind[o] = "none" /\ objects'[o] = objects[o]
    \/ e.kind[o] = "created" /\ o \notin Minted /\ objects'[o] # NoObject
    \/ /\ e.kind[o] = "updated" /\ objects[o] # NoObject /\ objects'[o] # NoObject
       /\ "rank" \notin e.props => objects'[o].rank = objects[o].rank
    \/ e.kind[o] = "destroyed" /\ objects[o] # NoObject /\ objects'[o] = NoObject

LEMMA WriteShape ==
    ASSUME Types, LogTruth, Write
    PROVE  \E e \in Entry :
              /\ log' = Append(log, e)
              /\ objects' \in [Object -> Content \union {NoObject}]
              /\ backend' = backend
              /\ \A o \in Object : Recorded(o, e)
  <1> USE ChangeLogAssumption
  <1> DEFINE Goal == \E e \in Entry :
              /\ log' = Append(log, e)
              /\ objects' \in [Object -> Content \union {NoObject}]
              /\ backend' = backend
              /\ \A o \in Object : Recorded(o, e)
  <1>1. \A c \in Content : c # NoObject
    BY DEF Content, NoObject
  <1>2. \A r \in Rank : New(r) \in Content
    BY DEF Content, New
  <1>3. \A S \in SUBSET Object, k \in Kind, p \in SUBSET Property :
            [kind |-> Mark(S, k), props |-> p] \in Entry
    BY DEF Mark, Kind, Entry
  <1>4. \A o \in Object : objects[o] # NoObject => objects[o] \in Content
    BY DEF Types
  <1>5. \A c \in Content, r \in Rank : /\ [c EXCEPT !.rank = r] \in Content
                                      /\ [c EXCEPT !.rank = r] # NoObject
    BY DEF Content, NoObject
  <1>6. ASSUME NEW o \in Object, NEW r \in Rank, CreateObject(o, r)  PROVE Goal
    <2> DEFINE e == [kind |-> Mark({o}, "created"), props |-> Property]
    <2>1. e \in Entry
      BY <1>3 DEF Kind
    <2>2. log' = Append(log, e) /\ backend' = backend
      BY <1>6 DEF CreateObject, Commit
    <2>3. \A x \in Object : Recorded(x, e)
      BY <1>6, <1>1, <1>2 DEF CreateObject, Recorded, Mark, Types
    <2>4. objects' \in [Object -> Content \union {NoObject}]
      BY <1>6, <1>2 DEF CreateObject, Types
    <2> QED
      BY <2>1, <2>2, <2>3, <2>4
  <1>7. ASSUME NEW o \in Object, NEW c \in Content, UpdateObject(o, c)  PROVE Goal
    <2> DEFINE e == [kind |-> Mark({o}, "updated"),
                     props |-> ChangedProperties(objects[o], c)]
    <2>1. e \in Entry
      BY <1>3 DEF Kind, ChangedProperties
    <2>2. log' = Append(log, e) /\ backend' = backend
      BY <1>7 DEF UpdateObject, Commit
    <2>3. "rank" \notin e.props => c.rank = objects[o].rank
      BY DEF ChangedProperties, Property
    <2>4. \A x \in Object : Recorded(x, e)
      BY <1>7, <1>1, <2>3 DEF UpdateObject, Recorded, Mark, Types, Live
    <2>5. objects' \in [Object -> Content \union {NoObject}]
      BY <1>7 DEF UpdateObject, Types
    <2> QED
      BY <2>1, <2>2, <2>4, <2>5
  <1>8. ASSUME NEW o \in Object, DestroyObject(o)  PROVE Goal
    <2> DEFINE e == [kind |-> Mark({o}, "destroyed"), props |-> Property]
    <2>1. e \in Entry
      BY <1>3 DEF Kind
    <2>2. log' = Append(log, e) /\ backend' = backend
      BY <1>8 DEF DestroyObject, Commit
    <2>3. \A x \in Object : Recorded(x, e)
      BY <1>8 DEF DestroyObject, Recorded, Mark, Types, Live
    <2>4. objects' \in [Object -> Content \union {NoObject}]
      BY <1>8 DEF DestroyObject, Types
    <2> QED
      BY <2>1, <2>2, <2>3, <2>4
  <1>9. ASSUME NEW S \in SUBSET Object, NEW r \in Rank, UpdateMany(S, r)  PROVE Goal
    <2> DEFINE e == [kind |-> Mark(S, "updated"), props |-> Property]
    <2>1. e \in Entry
      BY <1>3 DEF Kind
    <2>2. log' = Append(log, e) /\ backend' = backend
      BY <1>9 DEF UpdateMany, Commit
    <2>3. \A x \in S : /\ objects[x] # NoObject
                       /\ [objects[x] EXCEPT !.rank = r] \in Content
                       /\ [objects[x] EXCEPT !.rank = r] # NoObject
      BY <1>9, <1>4, <1>5 DEF UpdateMany, Live
    <2>4. \A x \in Object : objects'[x] =
              IF x \in S THEN [objects[x] EXCEPT !.rank = r] ELSE objects[x]
      BY <1>9 DEF UpdateMany
    <2>5. \A x \in Object : Recorded(x, e)
      BY <2>3, <2>4 DEF Recorded, Mark, Property
    <2>6. objects' \in [Object -> Content \union {NoObject}]
      BY <1>9, <2>3 DEF UpdateMany, Types
    <2> QED
      BY <2>1, <2>2, <2>5, <2>6
  <1>10. ASSUME NEW S \in SUBSET Object, DestroyMany(S)  PROVE Goal
    <2> DEFINE e == [kind |-> Mark(S, "destroyed"), props |-> Property]
    <2>1. e \in Entry
      BY <1>3 DEF Kind
    <2>2. log' = Append(log, e) /\ backend' = backend
      BY <1>10 DEF DestroyMany, Commit
    <2>3. \A x \in Object : Recorded(x, e)
      BY <1>10 DEF DestroyMany, Recorded, Mark, Live
    <2>4. objects' \in [Object -> Content \union {NoObject}]
      BY <1>10 DEF DestroyMany, Types
    <2> QED
      BY <2>1, <2>2, <2>3, <2>4
  <1>11. ASSUME NEW o \in Object, NEW parent \in Object, NEW r \in Rank,
                CreateUnder(o, parent, r)
         PROVE  Goal
    <2> DEFINE e == [kind |-> [Mark({parent}, "updated") EXCEPT ![o] = "created"],
                     props |-> Property]
    <2>1. e \in Entry
      BY DEF Mark, Kind, Entry
    <2>2. log' = Append(log, e) /\ backend' = backend
      BY <1>11 DEF CreateUnder, Commit
    <2>3. /\ objects[parent] # NoObject
          /\ [objects[parent] EXCEPT !.rank = r] \in Content
          /\ [objects[parent] EXCEPT !.rank = r] # NoObject
      BY <1>11, <1>4, <1>5 DEF CreateUnder, Live
    <2>4. o # parent
      BY <1>11 DEF CreateUnder, Live, LogTruth
    <2>5. objects' = [objects EXCEPT ![o] = New(r),
                                     ![parent] = [objects[parent] EXCEPT !.rank = r]]
      BY <1>11, <2>4 DEF CreateUnder, Types
    <2>6. \A x \in Object : Recorded(x, e)
      <3>1. ASSUME NEW x \in Object, x # o, x # parent  PROVE Recorded(x, e)
        BY <3>1, <2>5 DEF Recorded, Mark, Types
      <3>2. Recorded(o, e)
        BY <2>4, <2>5, <1>11, <1>1, <1>2 DEF CreateUnder, Recorded, Mark, Types
      <3>3. Recorded(parent, e)
        BY <2>3, <2>4, <2>5 DEF Recorded, Mark, Types, Property
      <3> QED
        BY <3>1, <3>2, <3>3
    <2>7. objects' \in [Object -> Content \union {NoObject}]
      BY <2>3, <2>5, <1>2 DEF Types
    <2> QED
      BY <2>1, <2>2, <2>6, <2>7
  <1> QED
    BY <1>6, <1>7, <1>8, <1>9, <1>10, <1>11 DEF Write

\* An answer in hand stays true of the entries it is about.
LEMMA AnswerStays ==
    ASSUME Types, cursor \in 0 .. Len(log), AnswerCovers,
           NEW e \in Entry, log' = Append(log, e),
           UNCHANGED <<cursor, answer, ignore>>
    PROVE  AnswerCovers' /\ (AnswerFresh => AnswerFresh')
  <1>1. PICK n \in Nat : n = Len(log) /\ DOMAIN log = 1 .. n
    BY DEF Types
  <1>2. /\ Len(log') = n + 1 /\ DOMAIN log' = 1 .. (n + 1)
        /\ \A i \in 1 .. n : log'[i] = log[i]
    BY <1>1 DEF Types
  <1>3. /\ answer.newState \in Int /\ cursor <= answer.newState
        /\ answer.newState <= n
    BY <1>1 DEF AnswerCovers
  <1>4. /\ \A i, o : CreatedAt(i, o) => CreatedAt(i, o)'
        /\ \A i, o : DestroyedAt(i, o) => DestroyedAt(i, o)'
        /\ \A i \in DOMAIN log : \A o : Concerns(i, o)' <=> Concerns(i, o)
        /\ \A i \in DOMAIN log : i \in DOMAIN log'
    BY <1>1, <1>2 DEF CreatedAt, DestroyedAt, Concerns
  <1>5. \A i \in Since(cursor) : i \in Since(cursor)'
    BY <1>4 DEF Since
  <1>6. \A o : Accounted(o) => Accounted(o)'
    BY <1>4, <1>5 DEF Accounted
  <1>7. ASSUME NEW o \in Object, NEW i \in DOMAIN log', cursor < i,
               i <= answer.newState, Concerns(i, o)'
        PROVE  Accounted(o)'
    <2>1. i \in DOMAIN log
      BY <1>1, <1>2, <1>3, <1>7
    <2> QED
      BY <2>1, <1>4, <1>6, <1>7 DEF AnswerCovers
  <1>8. \A o \in answer.destroyed \cap Object : \E i \in DOMAIN log' : DestroyedAt(i, o)'
    BY <1>4 DEF AnswerCovers
  <1>9. \A o \in (answer.created \union answer.updated) \cap Object :
            \E i \in DOMAIN log' : i <= answer.newState /\ CreatedAt(i, o)'
    BY <1>4 DEF AnswerCovers
  <1>10. AnswerCovers'
    BY <1>2, <1>3, <1>7, <1>8, <1>9 DEF AnswerCovers
  <1>11. AnswerFresh => AnswerFresh'
    BY <1>4, <1>5 DEF AnswerFresh
  <1> QED
    BY <1>10, <1>11

\* A commit leaves the earlier entries as they were, and Recorded says what
\* the new one is.
LEMMA WriteKeeps ==
    ASSUME IInv, Write, UNCHANGED clientVars
    PROVE  IInv'
  <1>1. Types /\ LogTruth
    BY DEF IInv
  <1>0. PICK n \in Nat : n = Len(log)
    BY <1>1 DEF Types
  <1>2. PICK e \in Entry :
              /\ log' = Append(log, e)
              /\ objects' \in [Object -> Content \union {NoObject}]
              /\ backend' = backend
              /\ \A o \in Object : Recorded(o, e)
    BY <1>1, WriteShape
  <1>3. /\ role' = role /\ ignore' = ignore /\ phase' = phase /\ answer' = answer
        /\ cursor' = cursor /\ replica' = replica /\ veiled' = veiled
    BY DEF clientVars
  <1>4. /\ DOMAIN log = 1 .. n
        /\ log' \in Seq(Entry)
        /\ Len(log') = n + 1 /\ DOMAIN log' = 1 .. (n + 1)
        /\ \A i \in 1 .. n : log'[i] = log[i]
        /\ log'[n + 1] = e
    BY <1>0, <1>1, <1>2 DEF Types
  <1>5. \A i, o : CreatedAt(i, o)' <=>
            CreatedAt(i, o) \/ (i = n + 1 /\ e.kind[o] = "created")
    BY <1>4 DEF CreatedAt
  <1>6. \A i, o : DestroyedAt(i, o)' <=>
            DestroyedAt(i, o) \/ (i = n + 1 /\ e.kind[o] = "destroyed")
    BY <1>4 DEF DestroyedAt
  <1>7. \A o : o \in Minted <=> o \in Object /\ \E i \in DOMAIN log : CreatedAt(i, o)
    BY DEF Minted, CreatedAt
  <1>8. \A o : o \in Minted' <=> o \in Object /\ \E i \in DOMAIN log' : CreatedAt(i, o)'
    BY DEF Minted, CreatedAt
  <1>9. Types'
    BY <1>1, <1>2, <1>3, <1>4 DEF Types
  <1>10. LogTruth'
    <2> SUFFICES ASSUME NEW o \in Object
                 PROVE  /\ \A i, j \in DOMAIN log' : CreatedAt(i, o)' /\ CreatedAt(j, o)' => i = j
                        /\ \A i \in DOMAIN log' : log'[i].kind[o] # "none" =>
                               \E j \in DOMAIN log' : j <= i /\ CreatedAt(j, o)'
                        /\ objects'[o] # NoObject => o \in Minted'
                        /\ (\E i \in DOMAIN log' : DestroyedAt(i, o)') => objects'[o] = NoObject
      BY DEF LogTruth
    <2>1. Recorded(o, e)
      BY <1>2
    <2>2. /\ \A i, j \in DOMAIN log : CreatedAt(i, o) /\ CreatedAt(j, o) => i = j
          /\ \A i \in DOMAIN log : log[i].kind[o] # "none" =>
                 \E j \in DOMAIN log : j <= i /\ CreatedAt(j, o)
          /\ objects[o] # NoObject => o \in Minted
          /\ (\E i \in DOMAIN log : DestroyedAt(i, o)) => objects[o] = NoObject
      BY <1>1 DEF LogTruth
    <2>3. e.kind[o] = "created" => \A i : ~CreatedAt(i, o)
      BY <2>1, <1>7 DEF Recorded, CreatedAt
    <2>4. \A i, j \in DOMAIN log' : CreatedAt(i, o)' /\ CreatedAt(j, o)' => i = j
      BY <2>2, <2>3, <1>5 DEF CreatedAt
    <2>5. ASSUME NEW i \in DOMAIN log', log'[i].kind[o] # "none"
          PROVE  \E j \in DOMAIN log' : j <= i /\ CreatedAt(j, o)'
      <3>1. CASE i \in DOMAIN log
        <4>1. PICK j \in DOMAIN log : j <= i /\ CreatedAt(j, o)
          BY <3>1, <2>5, <2>2, <1>4
        <4> QED
          BY <4>1, <1>4, <1>5
      <3>2. CASE i = n + 1 /\ e.kind[o] = "created"
        <4>1. CreatedAt(i, o)' /\ i <= i
          BY <3>2, <1>5
        <4> QED
          BY <4>1
      <3>3. CASE i = n + 1 /\ e.kind[o] # "created"
        <4>1. objects[o] # NoObject
          BY <3>3, <2>5, <1>4, <2>1 DEF Recorded
        <4>2. PICK j \in DOMAIN log : CreatedAt(j, o)
          BY <4>1, <2>2, <1>7
        <4> QED
          BY <4>2, <3>3, <1>4, <1>5
      <3> QED
        BY <3>1, <3>2, <3>3, <1>4
    <2>6. objects'[o] # NoObject => o \in Minted'
      <3> SUFFICES ASSUME objects'[o] # NoObject
                   PROVE  \E i \in DOMAIN log' : CreatedAt(i, o)'
        BY <1>8
      <3>1. CASE e.kind[o] = "created"
        <4>1. CreatedAt(n + 1, o)' /\ n + 1 \in DOMAIN log'
          BY <3>1, <1>4, <1>5
        <4> QED
          BY <4>1
      <3>2. CASE e.kind[o] # "created"
        <4>1. objects[o] # NoObject
          BY <3>2, <2>1 DEF Recorded
        <4>2. PICK j \in DOMAIN log : CreatedAt(j, o)
          BY <4>1, <2>2, <1>7
        <4> QED
          BY <4>2, <1>4, <1>5
      <3> QED
        BY <3>1, <3>2
    <2>7. ASSUME NEW i \in DOMAIN log', DestroyedAt(i, o)'
          PROVE  objects'[o] = NoObject
      <3>1. CASE DestroyedAt(i, o)
        <4>1. objects[o] = NoObject /\ i \in DOMAIN log
          BY <3>1, <2>2 DEF DestroyedAt
        <4>2. o \in Minted
          BY <3>1, <2>2, <1>7 DEF DestroyedAt
        <4> QED
          BY <4>1, <4>2, <2>1 DEF Recorded
      <3>2. CASE e.kind[o] = "destroyed"
        BY <3>2, <2>1 DEF Recorded
      <3> QED
        BY <2>7, <3>1, <3>2, <1>6
    <2> QED
      BY <2>4, <2>5, <2>6, <2>7
  <1>11. ASSUME role = "follower"  PROVE Following'
    <2>1. Following
      BY <1>11 DEF IInv
    <2>2. cursor \in 0 .. n /\ cursor' \in 0 .. Len(log')
      BY <2>1, <1>0, <1>3, <1>4 DEF Following
    <2>3. \A i \in DOMAIN log : \A o : Concerns(i, o)' <=> Concerns(i, o)
      BY <1>3, <1>4 DEF Concerns
    <2>4. /\ \A i \in Since(cursor) : i \in Since(cursor)' /\ i \in DOMAIN log
          /\ n + 1 \in Since(cursor)'
      BY <2>2, <1>3, <1>4 DEF Since
    <2>5. Current'
      <3> SUFFICES ASSUME NEW o \in Object, \A i \in Since(cursor)' : ~Concerns(i, o)'
                   PROVE  Same(replica[o], AsTold(o))'
        BY DEF Current
      <3>1. Same(replica[o], AsTold(o))
        BY <2>1, <2>3, <2>4 DEF Following, Current
      <3>2. ~Concerns(n + 1, o)'
        BY <2>4
      <3>3. /\ e.kind[o] # "created" /\ e.kind[o] # "destroyed"
            /\ e.kind[o] = "updated" => ignore /\ "rank" \notin e.props
        BY <3>2, <1>3, <1>4 DEF Concerns
      <3>4. Recorded(o, e)
        BY <1>2
      <3>5. CASE objects'[o] = objects[o]
        BY <3>5, <3>1, <1>3 DEF Same, AsTold
      <3>6. CASE ignore /\ objects[o] # NoObject /\ objects'[o] # NoObject
                 /\ objects'[o].rank = objects[o].rank
        BY <3>6, <3>1, <1>3 DEF Same, AsTold
      <3> QED
        BY <3>3, <3>4, <3>5, <3>6 DEF Recorded
    <2>6. ReplicaOld'
      BY <2>1, <1>3, <1>4, <1>5 DEF Following, ReplicaOld
    <2>7. ASSUME phase = "read"  PROVE AnswerCovers'
      <3>1. AnswerCovers
        BY <2>7, <2>1 DEF Following
      <3> QED
        BY <3>1, <2>2, <1>0, <1>1, <1>2, <1>3, AnswerStays
    <2> QED
      BY <2>2, <2>5, <2>6, <2>7, <1>3 DEF Following
  <1> QED
    BY <1>9, <1>10, <1>11, <1>3 DEF IInv

\* What a write of another type does, the log and the followers that have it
\* know nothing of: the objects keep their ranks and their metadata.
LEMMA UnloggedShape ==
    ASSUME Types, Unlogged
    PROVE  /\ backend' = backend /\ log' = log
           /\ objects' \in [Object -> Content \union {NoObject}]
           /\ \A o \in Object :
                  \/ objects[o] = NoObject /\ objects'[o] = NoObject
                  \/ /\ objects[o] # NoObject /\ objects'[o] # NoObject
                     /\ objects'[o].rank = objects[o].rank
                     /\ objects'[o].meta = objects[o].meta
  <1>1. CASE objects' = objects /\ backend' = backend /\ log' = log
    BY <1>1 DEF Types
  <1>2. ASSUME NEW o \in Object, Recount(o)
        PROVE  /\ backend' = backend /\ log' = log
               /\ objects[o] # NoObject /\ objects[o] \in Content
               /\ objects' = [objects EXCEPT ![o].tally = 1 - @]
    BY <1>2 DEF Recount, Live, Types
  <1>3. ASSUME NEW c \in Content
        PROVE  /\ [c EXCEPT !.tally = 1 - @] \in Content
               /\ c # NoObject /\ [c EXCEPT !.tally = 1 - @] # NoObject
               /\ [c EXCEPT !.tally = 1 - @].rank = c.rank
               /\ [c EXCEPT !.tally = 1 - @].meta = c.meta
    BY DEF Content, NoObject
  <1>4. ASSUME NEW o \in Object, Recount(o)
        PROVE  /\ objects' \in [Object -> Content \union {NoObject}]
               /\ objects' = [objects EXCEPT ![o] = [objects[o] EXCEPT !.tally = 1 - @]]
    BY <1>2, <1>3, <1>4 DEF Types
  <1>5. CASE \E o \in Object : Recount(o)
    <2>1. PICK p \in Object : Recount(p)
      BY <1>5
    <2>2. \A o \in Object : o # p => objects'[o] = objects[o]
      BY <2>1, <1>4 DEF Types
    <2>3. objects'[p] = [objects[p] EXCEPT !.tally = 1 - @]
      BY <2>1, <1>4 DEF Types
    <2>4. /\ objects[p] # NoObject /\ objects'[p] # NoObject
          /\ objects'[p].rank = objects[p].rank /\ objects'[p].meta = objects[p].meta
      BY <2>1, <2>3, <1>2, <1>3
    <2> QED
      BY <2>1, <2>2, <2>4, <1>2, <1>4
  <1>6. CASE \E S \in SUBSET Dependent : ChangeMembership(S)
    BY <1>1, <1>6 DEF ChangeMembership
  <1> QED
    BY <1>5, <1>6 DEF Unlogged

LEMMA UnloggedKeeps ==
    ASSUME IInv, Unlogged, UNCHANGED clientVars
    PROVE  IInv'
  <1>1. Types /\ LogTruth
    BY DEF IInv
  <1>2. /\ backend' = backend /\ log' = log
        /\ objects' \in [Object -> Content \union {NoObject}]
        /\ \A o \in Object :
               \/ objects[o] = NoObject /\ objects'[o] = NoObject
               \/ /\ objects[o] # NoObject /\ objects'[o] # NoObject
                  /\ objects'[o].rank = objects[o].rank
                  /\ objects'[o].meta = objects[o].meta
    BY <1>1, UnloggedShape
  <1>3. /\ role' = role /\ ignore' = ignore /\ phase' = phase /\ answer' = answer
        /\ cursor' = cursor /\ replica' = replica /\ veiled' = veiled
    BY DEF clientVars
  <1>4. Types' /\ LogTruth'
    BY <1>1, <1>2, <1>3 DEF Types, LogTruth, CreatedAt, DestroyedAt, Minted
  <1>5. ASSUME role = "follower"  PROVE Following'
    <2>1. Following
      BY <1>5 DEF IInv
    <2>2. \A o \in Object : Same(replica[o], AsTold(o)) => Same(replica[o], AsTold(o))'
      BY <1>2, <1>3 DEF Same, AsTold
    <2>3. Current'
      BY <2>1, <2>2, <1>2, <1>3 DEF Following, Current, Since, Concerns
    <2>4. ReplicaOld' /\ (AnswerCovers => AnswerCovers')
      BY <2>1, <1>2, <1>3 DEF Following, ReplicaOld, AnswerCovers, Accounted, Since,
                              Concerns, CreatedAt, DestroyedAt
    <2> QED
      BY <2>1, <2>3, <2>4, <1>2, <1>3 DEF Following
  <1> QED
    BY <1>3, <1>4, <1>5 DEF IInv

-----------------------------------------------------------------------------
(* The follower's steps. *)

\* A step that leaves the store, the state and the copy alone.
LEMMA FrameKeeps ==
    ASSUME IInv,
           UNCHANGED <<storeVars, role, ignore, cursor, replica, veiled>>,
           role = "follower" /\ phase' = "read" => AnswerCovers'
    PROVE  IInv'
  <1>1. Types' /\ LogTruth'
    BY DEF IInv, Types, LogTruth, CreatedAt, DestroyedAt, Minted, storeVars
  <1>2. ASSUME role = "follower"  PROVE Following'
    <2>1. cursor \in 0 .. Len(log) /\ Current /\ ReplicaOld
      BY <1>2 DEF IInv, Following
    <2>2. Current'
      BY <2>1 DEF Current, Since, Concerns, Same, AsTold, storeVars
    <2>3. ReplicaOld'
      BY <2>1 DEF ReplicaOld, CreatedAt, storeVars
    <2> QED
      BY <1>2, <2>1, <2>2, <2>3 DEF Following, storeVars
  <1> QED
    BY <1>1, <1>2 DEF IInv

\* The fetch gives the copy what the answer accounts for; what the answer is
\* silent about has not changed, or has come and gone.
LEMMA FetchKeeps ==
    ASSUME IInv, Fetch
    PROVE  IInv'
  <1>1. Types /\ LogTruth /\ Following /\ AnswerCovers
    BY DEF IInv, Following, Fetch
  <1>2. /\ backend' = backend /\ objects' = objects /\ log' = log /\ role' = role
        /\ ignore' = ignore /\ cursor' = answer.newState /\ phase' = "idle"
    BY DEF Fetch, storeVars
  <1>3. /\ replica' \in [Object -> Content \union {NoObject}]
        /\ \A o \in Object : replica'[o] =
               IF o \in answer.created \union answer.updated THEN Shown(o)
               ELSE IF o \in answer.destroyed THEN NoObject
               ELSE replica[o]
        /\ \A o \in Object : AsTold(o)' =
               IF o \in answer.created \union answer.updated THEN Shown(o) ELSE AsTold(o)
    <2>1. \A o \in Object : Shown(o) \in Content \union {NoObject}
      BY <1>1 DEF Shown, Types
    <2> QED
      BY <2>1, <1>1, <1>2 DEF Fetch, Types, Named, VeiledNow, AsTold, Shown
  <1>4. /\ cursor \in Int /\ answer.newState \in Int /\ Len(log) \in Nat
        /\ 0 <= cursor /\ cursor <= answer.newState /\ answer.newState <= Len(log)
        /\ DOMAIN log = 1 .. Len(log)
    BY <1>1 DEF Following, AnswerCovers, Types
  <1>5. Types' /\ LogTruth'
    BY <1>1, <1>2, <1>3 DEF Types, LogTruth, CreatedAt, DestroyedAt, Minted
  <1>6. \A i, o : Concerns(i, o)' <=> Concerns(i, o)
    BY <1>2 DEF Concerns
  <1>7. Current'
    <2> SUFFICES ASSUME NEW o \in Object,
                        \A i \in DOMAIN log : answer.newState < i => ~Concerns(i, o)
                 PROVE  Same(replica[o], AsTold(o))'
      BY <1>2, <1>6 DEF Current, Since
    <2>1. CASE o \in answer.created \union answer.updated
      BY <2>1, <1>2, <1>3 DEF Same
    <2>2. CASE o \in answer.destroyed /\ o \notin answer.created \union answer.updated
      <3>1. objects[o] = NoObject
        BY <2>2, <1>1 DEF AnswerCovers, LogTruth
      <3> QED
        BY <3>1, <2>2, <1>2, <1>3 DEF Same, AsTold
    <2>3. CASE o \notin answer.created \union answer.updated \union answer.destroyed
      <3>1. replica'[o] = replica[o]
        BY <2>3, <1>3
      <3>2. CASE Same(replica[o], AsTold(o))
        BY <3>1, <3>2, <2>3, <1>2, <1>3 DEF Same
      <3>3. CASE \E i \in Since(cursor) : Concerns(i, o)
        <4>1. PICK i \in DOMAIN log : cursor < i /\ Concerns(i, o)
          BY <3>3 DEF Since
        <4>2. i <= answer.newState
          BY <4>1, <1>4
        <4>3. Accounted(o)
          BY <4>1, <4>2, <1>1 DEF AnswerCovers
        <4>4. PICK k, j \in Since(cursor) : CreatedAt(k, o) /\ DestroyedAt(j, o)
          BY <4>3, <2>3 DEF Accounted
        <4>5. objects[o] = NoObject
          BY <4>4, <1>1 DEF LogTruth, Since
        <4>6. replica[o] = NoObject
          <5> SUFFICES ASSUME replica[o] # NoObject  PROVE FALSE
            OBVIOUS
          <5>1. PICK m \in DOMAIN log : m <= cursor /\ CreatedAt(m, o)
            BY <1>1 DEF Following, ReplicaOld
          <5>2. k \in DOMAIN log /\ k > cursor
            BY <4>4 DEF Since
          <5>3. k = m
            BY <4>4, <5>1, <5>2, <1>1 DEF LogTruth
          <5> QED
            BY <5>1, <5>2, <5>3, <1>4
        <4> QED
          BY <3>1, <4>5, <4>6, <2>3, <1>2, <1>3 DEF Same, AsTold
      <3> QED
        BY <3>2, <3>3, <1>1 DEF Following, Current
    <2> QED
      BY <2>1, <2>2, <2>3
  <1>8. ReplicaOld'
    <2> SUFFICES ASSUME NEW o \in Object, replica'[o] # NoObject
                 PROVE  \E i \in DOMAIN log : i <= answer.newState /\ CreatedAt(i, o)
      BY <1>2 DEF ReplicaOld, CreatedAt
    <2>1. CASE o \in answer.created \union answer.updated
      BY <2>1, <1>1 DEF AnswerCovers
    <2>2. CASE o \notin answer.created \union answer.updated
      <3>1. replica[o] # NoObject
        BY <2>2, <1>3
      <3>2. PICK i \in DOMAIN log : i <= cursor /\ CreatedAt(i, o)
        BY <3>1, <1>1 DEF Following, ReplicaOld
      <3> QED
        BY <3>2, <1>4
    <2> QED
      BY <2>1, <2>2
  <1> QED
    BY <1>2, <1>4, <1>5, <1>7, <1>8 DEF IInv, Following

\* The viewer's steps are not about the copy.
LEMMA ViewKeeps ==
    ASSUME IInv, View
    PROVE  IInv'
  <1>1. /\ role = "viewer" /\ role' = role
        /\ UNCHANGED <<storeVars, ignore, replica>>
    BY DEF View, Query, BeginQueryChanges, RefuseQueryChanges, EndQueryChanges,
           FailQueryChanges, CannotCalculate, storeVars
  <1>2. Types' /\ LogTruth'
    BY <1>1 DEF IInv, Types, LogTruth, CreatedAt, DestroyedAt, Minted, storeVars
  <1> QED
    BY <1>1, <1>2 DEF IInv

LEMMA FollowKeeps ==
    ASSUME IInv, Follow
    PROVE  IInv'
  <1>1. \A limit \in MaxChanges : limit \in Nat
    BY SyncAssumption DEF MaxChanges, NoLimit
  <1>2. NoLimit \in Nat
    BY DEF NoLimit
  <1>3. ASSUME NEW limit \in Nat, role = "follower", Read(limit)  PROVE IInv'
    <2>1. AnswerCovers'
      BY <1>3, ReadCovers DEF IInv, Following
    <2>2. UNCHANGED <<storeVars, role, ignore, cursor, replica, veiled>>
      BY <1>3 DEF Read
    <2> QED
      BY <2>1, <2>2, FrameKeeps
  <1>4. ASSUME NEW limit \in MaxChanges, AskChanges(limit)  PROVE IInv'
    BY <1>1, <1>3, <1>4 DEF AskChanges
  <1>5. ASSUME NEW limit \in MaxChanges, RefuseChanges(limit)  PROVE IInv'
    <2>1. UNCHANGED <<storeVars, role, ignore, cursor, replica, veiled>> /\ phase' # "read"
      BY <1>5 DEF RefuseChanges
    <2> QED
      BY <2>1, FrameKeeps
  <1>6. CASE AskAllChanges
    BY <1>2, <1>3, <1>6 DEF AskAllChanges
  <1>7. CASE Fetch
    BY <1>7, FetchKeeps
  <1> QED
    BY <1>4, <1>5, <1>6, <1>7 DEF Follow

LEMMA IInvInit == Init => IInv
  <1> SUFFICES ASSUME Init  PROVE IInv
    OBVIOUS
  <1> USE DEF Init, StoreInit
  <1>1. Types
    BY DEF Types
  <1>2. LogTruth
    BY DEF LogTruth, CreatedAt
  <1>3. role = "follower" => Following
    BY DEF Following, Current, ReplicaOld, Same, AsTold
  <1> QED
    BY <1>1, <1>2, <1>3 DEF IInv

LEMMA IInvNext == IInv /\ [Next]_vars => IInv'
  <1> SUFFICES ASSUME IInv, [Next]_vars  PROVE IInv'
    OBVIOUS
  <1>1. CASE Write /\ UNCHANGED clientVars
    BY <1>1, WriteKeeps
  <1>5. CASE Unlogged /\ UNCHANGED clientVars
    BY <1>5, UnloggedKeeps
  <1>2. CASE Follow
    BY <1>2, FollowKeeps
  <1>3. CASE View
    BY <1>3, ViewKeeps
  <1>4. CASE UNCHANGED vars
    <2>1. /\ UNCHANGED <<storeVars, role, ignore, cursor, replica, veiled>>
          /\ phase' = phase /\ answer' = answer
      BY <1>4 DEF vars, clientVars
    <2>2. AnswerCovers => AnswerCovers'
      BY <2>1 DEF AnswerCovers, Accounted, Since, Concerns, CreatedAt, DestroyedAt, storeVars
    <2>3. role = "follower" /\ phase' = "read" => AnswerCovers'
      BY <2>1, <2>2 DEF IInv, Following
    <2> QED
      BY <2>1, <2>3, FrameKeeps
  <1> QED
    BY <1>1, <1>2, <1>3, <1>4, <1>5 DEF Next

\* A follower at a state has every object as the store has it, apart from
\* those changed since and from what the log does not speak of (the counts
\* of another type's records, and who may view what): get_changes loses
\* nothing that was logged, in any store, for any maxChanges, whatever is
\* written between its answer and the fetch.
THEOREM FollowerCurrent == Spec => []ReplicaCurrent
  <1>1. IInv => ReplicaCurrent
    BY DEF IInv, Following, Current, ReplicaCurrent
  <1> QED
    BY <1>1, IInvInit, IInvNext, PTL DEF Spec

-----------------------------------------------------------------------------
(* An answer within maxChanges.                                            *)
(*                                                                         *)
(* Each store counts something else, and in each an id that the answer     *)
(* names stands for a counted unit of its own.  For the stores that count  *)
(* entries this rests on what they write: one id in an entry.              *)

OneIdEach ==
    backend \in {"mail", "filenode"} =>
        \A i \in DOMAIN log : \A a, b \in Object :
            log[i].kind[a] # "none" /\ log[i].kind[b] # "none" => a = b

NamedBy(page, ign) == Created(page) \union Updated(page, ign) \union Destroyed(page)

\* An id is named for an entry that counts.
LEMMA NamedCounts ==
    ASSUME Types, NEW s, NEW limit \in Nat, NEW ign,
           NEW o \in NamedBy(Page(s, limit, ign), ign)
    PROVE  /\ o \in Object
           /\ \E i \in Page(s, limit, ign) : ~Skipped(i, ign) /\ o \in Touched(i)
  <1> DEFINE page == Page(s, limit, ign)
  <1>0. o \in Object
    BY DEF NamedBy, Created, Updated, Destroyed
  <1>1. CASE Has(page, o, "created") \/ Has(page, o, "destroyed")
    <2>1. PICK i \in page : log[i].kind[o] \in {"created", "destroyed"}
      BY <1>1 DEF Has
    <2> QED
      BY <2>1, <1>0 DEF Skipped, IsMetadataOnly, Touched
  <1>2. CASE o \in Updated(page, ign)
    <2>1. PICK k \in page : log[k].kind[o] = "updated"
      BY <1>2 DEF Updated, Has
    <2>2. CASE Ignores(ign) /\ \A i \in page : log[i].kind[o] = "updated" => log[i].props = {"meta"}
      <3>1. PropertiesIn(page, o) = {"meta"}
        <4> DEFINE M == {log[i].props : i \in {j \in page : log[j].kind[o] = "updated"}}
        <4>1. M = {{"meta"}}
          BY <2>1, <2>2
        <4> HIDE DEF M
        <4>2. UNION M = {"meta"}
          BY <4>1
        <4> QED
          BY <4>2 DEF M, PropertiesIn
      <3> QED
        BY <3>1, <2>2, <1>2 DEF Updated
    <2>3. CASE ~Ignores(ign)
      BY <2>3, <2>1, <1>0 DEF Skipped, Touched
    <2>4. ASSUME NEW i \in page, log[i].kind[o] = "updated", log[i].props # {"meta"}
          PROVE  ~Skipped(i, ign) /\ o \in Touched(i)
      BY <2>4, <1>0 DEF Skipped, IsMetadataOnly, Touched
    <2> QED
      BY <2>2, <2>3, <2>4, <1>0
  <1> QED
    BY <1>0, <1>1, <1>2 DEF NamedBy, Created, Destroyed

\* The ids that are named are at most as many as the units counted up to an
\* entry that no entry of the page comes after.
LEMMA NamedUnits ==
    ASSUME Types, OneIdEach, NEW s, NEW limit \in Nat, NEW ign,
           NEW last \in Page(s, limit, ign), \A i \in Page(s, limit, ign) : i <= last
    PROVE  \E f : /\ f = [u \in Units(s, last, ign) |-> f[u]]
                  /\ \A o \in NamedBy(Page(s, limit, ign), ign) :
                         \E u \in Units(s, last, ign) : f[u] = o
  <1> DEFINE page == Page(s, limit, ign)
             U == Units(s, last, ign)
  <1>1. ASSUME NEW o \in NamedBy(page, ign)
        PROVE  /\ o \in Object
               /\ \E i \in page : /\ i \in Relevant(s, ign) /\ i \in DOMAIN log
                                  /\ i <= last /\ ~Skipped(i, ign) /\ o \in Touched(i)
    <2>1. PICK i \in page : ~Skipped(i, ign) /\ o \in Touched(i)
      BY <1>1, NamedCounts
    <2>2. i \in Relevant(s, ign) /\ i \in DOMAIN log /\ i <= last
      BY DEF Page, Relevant, Since
    <2> QED
      BY <1>1, <2>1, <2>2, NamedCounts
  <1>2. CASE backend \in {"mail", "filenode"}
    <2> DEFINE only(u) == CHOOSE o \in Object : o \in Touched(u)
               f == [u \in U |-> only(u)]
    <2>1. U = EntryUnits(s, last, ign)
      BY <1>2 DEF Units
    <2>2. ASSUME NEW o \in NamedBy(page, ign)  PROVE \E u \in U : f[u] = o
      <3>1. PICK i \in page : /\ i \in Relevant(s, ign) /\ i \in DOMAIN log
                              /\ i <= last /\ ~Skipped(i, ign) /\ o \in Touched(i)
        BY <2>2, <1>1
      <3>2. i \in U
        BY <2>1, <3>1 DEF EntryUnits
      <3>3. \A a \in Object : a \in Touched(i) => a = o
        BY <3>1, <1>2, <1>1, <2>2 DEF OneIdEach, Touched
      <3>4. only(i) = o
        BY <3>1, <3>3, <1>1, <2>2
      <3> HIDE DEF only
      <3> QED
        BY <3>2, <3>4
    <2> HIDE DEF only
    <2> QED
      BY <2>2
  <1>3. CASE backend \in {"card", "message"}
    <2> DEFINE f == [u \in U |-> u[2]]
    <2>1. U = IdUnits(s, last, ign)
      BY <1>3 DEF Units
    <2>2. ASSUME NEW o \in NamedBy(page, ign)  PROVE \E u \in U : f[u] = o
      <3>1. PICK i \in page : /\ i \in Relevant(s, ign) /\ i \in DOMAIN log
                              /\ i <= last /\ ~Skipped(i, ign) /\ o \in Touched(i)
        BY <2>2, <1>1
      <3>2. <<i, o>> \in U
        BY <2>1, <2>2, <3>1, <1>1 DEF IdUnits
      <3> QED
        BY <3>2
    <2> QED
      BY <2>2
  <1>4. CASE backend = "vtc"
    <2> DEFINE f == [u \in U |-> u]
    <2>1. U = DistinctIds(s, last, ign)
      BY <1>4 DEF Units
    <2>2. ASSUME NEW o \in NamedBy(page, ign)  PROVE \E u \in U : f[u] = o
      <3>1. o \in U
        BY <2>1, <2>2, <1>1 DEF DistinctIds
      <3> QED
        BY <3>1
    <2> QED
      BY <2>2
  <1> QED
    BY <1>2, <1>3, <1>4 DEF Types, Backend

LEMMA NamedFew ==
    ASSUME Types, OneIdEach, NEW s, NEW limit \in Nat, limit # NoLimit, NEW ign
    PROVE  Cardinality(NamedBy(Page(s, limit, ign), ign)) <= limit
  <1> DEFINE page == Page(s, limit, ign)
             named == NamedBy(page, ign)
  <1>1. CASE page = {}
    <2>1. named = {}
      BY <1>1, NamedCounts
    <2>2. Cardinality({}) = 0
      BY FS_EmptySet
    <2> QED
      BY <2>1, <2>2
  <1>2. CASE page # {}
    <2>1. page \in SUBSET (1 .. Len(log)) /\ Len(log) \in Nat
      BY DEF Page, Relevant, Since, Types
    <2>2. PICK last \in page : \A i \in page : i <= last
      <3> HIDE DEF page
      <3> QED
        BY <2>1, <1>2, LastEntry
    <2> DEFINE U == Units(s, last, ign)
    <2>3. IsFiniteSet(U) /\ Cardinality(U) <= limit
      <3>1. last \in Int
        BY <2>1
      <3> QED
        BY <3>1, UnitsGrow DEF Page
    <2>4. PICK f : f = [u \in U |-> f[u]] /\ \A o \in named : \E u \in U : f[u] = o
      BY <2>2, NamedUnits
    <2> DEFINE T == {f[u] : u \in U}
    <2> HIDE DEF U, named
    <2>5. f \in Surjection(U, T)
      BY <2>4 DEF Surjection
    <2> HIDE DEF T
    <2>6. IsFiniteSet(T) /\ Cardinality(T) <= Cardinality(U)
      BY <2>3, <2>5, FS_Surjection
    <2>7. named \subseteq T
      BY <2>4 DEF T
    <2>8. Cardinality(named) <= Cardinality(T) /\ IsFiniteSet(named)
      BY <2>6, <2>7, FS_Subset
    <2>9. /\ Cardinality(named) \in Nat /\ Cardinality(T) \in Nat
          /\ Cardinality(U) \in Nat
      BY <2>3, <2>6, <2>8, FS_CardinalityType
    <2>10. Cardinality(named) <= limit
      BY <2>3, <2>6, <2>8, <2>9
    <2> QED
      BY <2>10 DEF named
  <1> QED
    BY <1>1, <1>2

\* The stores that count entries commit the change of one object at a time.
LEMMA WriteOneId ==
    ASSUME Types, OneIdEach, Write
    PROVE  OneIdEach'
  <1> DEFINE Single(e, o) == \A x \in Object : e.kind[x] # "none" => x = o
  <1>1. ASSUME NEW o \in Object, NEW e, log' = Append(log, e), Single(e, o)
        PROVE  OneIdEach' \/ backend' # backend
    <2>1. PICK n \in Nat : n = Len(log) /\ DOMAIN log = 1 .. n
      BY DEF Types
    <2>2. /\ DOMAIN log' = 1 .. (n + 1) /\ log'[n + 1] = e
          /\ \A i \in 1 .. n : log'[i] = log[i]
      BY <1>1, <2>1 DEF Types
    <2>3. \A i \in DOMAIN log' : i \in DOMAIN log \/ i = n + 1
      BY <2>1, <2>2
    <2> QED
      BY <1>1, <2>1, <2>2, <2>3 DEF OneIdEach
  <1>2. \A S, k : \A x \in Object : Mark(S, k)[x] # "none" => x \in S
    BY DEF Mark
  <1> HIDE DEF Single
  <1>3. backend' = backend
    BY DEF Write, CreateObject, UpdateObject, DestroyObject, UpdateMany, DestroyMany,
           CreateUnder, Commit
  <1>4. ASSUME NEW o \in Object, NEW r \in Rank, CreateObject(o, r)  PROVE OneIdEach'
    <2> DEFINE e == [kind |-> Mark({o}, "created"), props |-> Property]
    <2>1. log' = Append(log, e)
      BY <1>4 DEF CreateObject, Commit
    <2>2. Single(e, o)
      BY <1>2 DEF Single
    <2> QED
      BY <1>1, <1>3, <2>1, <2>2
  <1>5. ASSUME NEW o \in Object, NEW c \in Content, UpdateObject(o, c)  PROVE OneIdEach'
    <2> DEFINE e == [kind |-> Mark({o}, "updated"),
                     props |-> ChangedProperties(objects[o], c)]
    <2>1. log' = Append(log, e)
      BY <1>5 DEF UpdateObject, Commit
    <2>2. Single(e, o)
      BY <1>2 DEF Single
    <2> QED
      BY <1>1, <1>3, <2>1, <2>2
  <1>6. ASSUME NEW o \in Object, DestroyObject(o)  PROVE OneIdEach'
    <2> DEFINE e == [kind |-> Mark({o}, "destroyed"), props |-> Property]
    <2>1. log' = Append(log, e)
      BY <1>6 DEF DestroyObject, Commit
    <2>2. Single(e, o)
      BY <1>2 DEF Single
    <2> QED
      BY <1>1, <1>3, <2>1, <2>2
  <1>7. CASE backend \notin {"mail", "filenode"}
    BY <1>7, <1>3 DEF OneIdEach
  <1>8. CASE backend \in {"mail", "filenode"}
    BY <1>4, <1>5, <1>6, <1>8 DEF Write, UpdateMany, DestroyMany, CreateUnder
  <1> QED
    BY <1>7, <1>8

PageInv == OneIdEach /\ PageWithinLimit

LEMMA PageInit == Init => PageInv
  <1>1. ASSUME Init  PROVE OneIdEach /\ PageWithinLimit
    BY <1>1 DEF Init, StoreInit, OneIdEach, PageWithinLimit, NoAnswer
  <1> QED
    BY <1>1 DEF PageInv

LEMMA PageNext == IInv /\ PageInv /\ [Next]_vars => PageInv'
  <1> SUFFICES ASSUME IInv, PageInv, [Next]_vars  PROVE PageInv'
    OBVIOUS
  <1>1. Types /\ OneIdEach /\ PageWithinLimit
    BY DEF IInv, PageInv
  <1>2. ASSUME UNCHANGED storeVars  PROVE OneIdEach'
    BY <1>1, <1>2 DEF OneIdEach, storeVars
  <1>3. ASSUME role' = role, answer' = answer \/ answer' = NoAnswer  PROVE PageWithinLimit'
    BY <1>1, <1>3 DEF PageWithinLimit, NoAnswer
  <1>4. ASSUME NEW limit \in Nat, Read(limit)  PROVE PageInv'
    <2>1. OneIdEach' /\ answer' = GetChanges(cursor, limit, ignore)
      BY <1>2, <1>4 DEF Read
    <2>2. /\ answer'.limit = limit
          /\ answer'.created \union answer'.updated \union answer'.destroyed
               = NamedBy(Page(cursor, limit, ignore), ignore)
      BY <2>1 DEF GetChanges, NamedBy
    <2>3. limit # NoLimit => Cardinality(NamedBy(Page(cursor, limit, ignore), ignore)) <= limit
      BY <1>1, NamedFew
    <2> QED
      BY <2>1, <2>2, <2>3 DEF PageInv, PageWithinLimit
  <1>5. CASE Write /\ UNCHANGED clientVars
    BY <1>1, <1>3, <1>5, WriteOneId DEF PageInv, clientVars
  <1>9. CASE Unlogged /\ UNCHANGED clientVars
    <2>1. log' = log /\ backend' = backend
      BY <1>1, <1>9, UnloggedShape
    <2> QED
      BY <1>1, <1>3, <1>9, <2>1 DEF PageInv, OneIdEach, clientVars
  <1>6. CASE Follow
    <2>1. \A limit \in MaxChanges : limit \in Nat
      BY SyncAssumption DEF MaxChanges, NoLimit
    <2>2. ASSUME NEW limit \in MaxChanges, AskChanges(limit)  PROVE PageInv'
      BY <1>4, <2>1, <2>2 DEF AskChanges
    <2>3. ASSUME NEW limit \in MaxChanges, RefuseChanges(limit)  PROVE PageInv'
      BY <1>2, <1>3, <2>3 DEF RefuseChanges, PageInv
    <2>4. CASE AskAllChanges
      BY <1>4, <2>4 DEF AskAllChanges, NoLimit
    <2>5. CASE Fetch
      BY <1>2, <1>3, <2>5 DEF Fetch, PageInv
    <2> QED
      BY <1>6, <2>2, <2>3, <2>4, <2>5 DEF Follow
  <1>7. CASE View
    <2>1. role = "viewer" /\ role' = role /\ UNCHANGED storeVars
      BY <1>7 DEF View, Query, BeginQueryChanges, RefuseQueryChanges, EndQueryChanges,
                  FailQueryChanges, CannotCalculate
    <2> QED
      BY <1>2, <2>1 DEF PageInv, PageWithinLimit
  <1>8. CASE UNCHANGED vars
    BY <1>2, <1>3, <1>8 DEF vars, clientVars, PageInv
  <1> QED
    BY <1>5, <1>6, <1>7, <1>8, <1>9 DEF Next

\* An answer of get_changes names no more ids than maxChanges, whichever way
\* the store counts: for any log, any limit, and with entries that are
\* skipped because the client ignores metadata.
THEOREM Fits == Spec => []PageWithinLimit
  <1>1. PageInv => PageWithinLimit
    BY DEF PageInv
  <1> QED
    BY <1>1, IInvInit, IInvNext, PageInit, PageNext, PTL DEF Spec

-----------------------------------------------------------------------------
(* Types. *)

\* Only ids that depend on other records are ever hidden, in one store.
Veils ==
    /\ hidden \subseteq Dependent /\ veiled \subseteq Dependent
    /\ backend # "message" => hidden \union veiled = {}

LEMMA VeilsInit == Init => Veils
  BY DEF Init, StoreInit, Veils

LEMMA VeilsNext == Veils /\ [Next]_vars => Veils'
  <1> SUFFICES ASSUME Veils, [Next]_vars  PROVE Veils'
    OBVIOUS
  <1>1. CASE Write /\ UNCHANGED clientVars
    BY <1>1 DEF Veils, Write, CreateObject, UpdateObject, DestroyObject, UpdateMany,
                DestroyMany, CreateUnder, Commit, clientVars
  <1>2. CASE Unlogged /\ UNCHANGED clientVars
    BY <1>2 DEF Veils, Unlogged, Recount, ChangeMembership, clientVars
  <1>3. CASE Follow
    BY <1>3 DEF Veils, Follow, AskChanges, RefuseChanges, AskAllChanges, Fetch, Read,
                storeVars, VeiledNow
  <1>4. CASE View
    BY <1>4 DEF Veils, View, Query, BeginQueryChanges, RefuseQueryChanges,
                EndQueryChanges, FailQueryChanges, CannotCalculate, storeVars, VeiledNow
  <1>5. CASE UNCHANGED vars
    BY <1>5 DEF Veils, vars, storeVars, clientVars
  <1> QED
    BY <1>1, <1>2, <1>3, <1>4, <1>5 DEF Next

\* A follower's states.
FollowerTypes == role = "follower" => TypeOK

LEMMA AnswerType ==
    ASSUME Types, cursor \in 0 .. Len(log), NEW limit \in Limits \union {NoLimit}, NEW ign
    PROVE  GetChanges(cursor, limit, ign) \in
               [created : SUBSET Object, updated : SUBSET Object,
                destroyed : SUBSET Object, newState : 0 .. State,
                limit : Limits \union {NoLimit}, seen : 0 .. State]
  <1> DEFINE page == Page(cursor, limit, ign)
             n == NewState(cursor, limit, ign)
  <1>1. limit \in Nat /\ Len(log) \in Nat
    BY SyncAssumption DEF NoLimit, Types
  <1>2. n \in Int /\ cursor <= n /\ n <= Len(log)
    BY <1>1, PageComplete
  <1>3. n \in 0 .. State /\ State \in 0 .. State
    BY <1>1, <1>2 DEF State
  <1>4. /\ Created(page) \subseteq Object /\ Updated(page, ign) \subseteq Object
        /\ Destroyed(page) \subseteq Object
    BY DEF Created, Updated, Destroyed
  <1> HIDE DEF page, n
  <1>5. GetChanges(cursor, limit, ign) =
            [created |-> Created(page), updated |-> Updated(page, ign),
             destroyed |-> Destroyed(page), newState |-> n, limit |-> limit, seen |-> State]
    BY DEF GetChanges, page, n
  <1> QED
    BY <1>3, <1>4, <1>5

LEMMA FollowerTypesInit == Init => FollowerTypes
  <1> SUFFICES ASSUME Init, role = "follower"  PROVE TypeOK
    BY DEF FollowerTypes
  <1> USE DEF Init, StoreInit
  <1>1. log \in Seq(Entry) /\ Len(log) = 0 /\ view \in Seq(Object)
    OBVIOUS
  <1>2. answer \in [created : SUBSET Object, updated : SUBSET Object,
                    destroyed : SUBSET Object, newState : 0 .. State,
                    limit : Limits \union {NoLimit}, seen : 0 .. State]
    BY <1>1 DEF NoAnswer, State
  <1> QED
    BY <1>1, <1>2, ChangeLogAssumption DEF TypeOK, State

LEMMA FollowerTypesNext ==
    IInv /\ IInv' /\ Veils' /\ FollowerTypes /\ [Next]_vars => FollowerTypes'
  <1> SUFFICES ASSUME IInv, IInv', Veils', FollowerTypes, [Next]_vars, role' = "follower"
               PROVE  TypeOK'
    BY DEF FollowerTypes
  <1> USE DEF Veils
  <1>1. role = "follower"
    BY DEF View, Query, BeginQueryChanges, RefuseQueryChanges, EndQueryChanges,
           FailQueryChanges, CannotCalculate, Follow, AskChanges, RefuseChanges,
           AskAllChanges, Fetch, Read, clientVars, vars, Next
  <1>2. TypeOK /\ Types /\ Types' /\ Following /\ LogTruth
    BY <1>1 DEF FollowerTypes, IInv
  <1> DEFINE Answers(n) == [created : SUBSET Object, updated : SUBSET Object,
                            destroyed : SUBSET Object, newState : 0 .. n,
                            limit : Limits \union {NoLimit}, seen : 0 .. n]
  <1>3. Len(log) \in Nat /\ cursor \in 0 .. Len(log) /\ answer \in Answers(Len(log))
    BY <1>2 DEF Following, Types, TypeOK, State
  <1>4. ASSUME UNCHANGED <<storeVars, role, ignore, cursor, replica, view, torn>>,
               phase' \in {"idle", "read", "refused"}, answer' \in Answers(Len(log))
        PROVE  TypeOK'
    <2> HIDE DEF Answers
    <2>1. Len(log') = Len(log) /\ State' = Len(log) /\ State = Len(log)
      BY <1>4 DEF storeVars, State
    <2>2. answer' \in Answers(State')
      BY <1>4, <2>1
    <2> QED
      BY <1>2, <1>4, <2>1, <2>2 DEF TypeOK, storeVars, Answers
  <1>5. CASE Write /\ UNCHANGED clientVars
    <2>1. PICK e \in Entry : log' = Append(log, e)
      BY <1>2, <1>5, WriteShape
    <2>2. Len(log') = Len(log) + 1
      BY <2>1, <1>2 DEF Types
    <2>3. Len(log) < MaxWrites
      BY <1>5 DEF Write, CreateObject, UpdateObject, DestroyObject, UpdateMany,
                  DestroyMany, CreateUnder, Commit, State
    <2>4. Len(log') <= MaxWrites
      BY <2>2, <2>3, <1>3, ChangeLogAssumption
    <2>5. answer' \in Answers(Len(log')) /\ cursor' \in {NoState} \union 0 .. Len(log')
      BY <1>3, <1>5, <2>2 DEF clientVars
    <2> HIDE DEF Answers
    <2>6. /\ phase' \in {"idle", "read", "refused"} /\ view' \in Seq(Object)
          /\ torn' \subseteq {"commit", "page", "view"} /\ role' \in {"follower", "viewer"}
      BY <1>2, <1>5 DEF TypeOK, clientVars
    <2> QED
      BY <1>2, <2>4, <2>5, <2>6 DEF TypeOK, Types, State, Answers
  <1>12. CASE Unlogged /\ UNCHANGED clientVars
    <2>1. log' = log /\ UNCHANGED <<phase, answer, cursor, view, torn, role>>
      BY <1>2, <1>12, UnloggedShape DEF clientVars
    <2> HIDE DEF Answers
    <2> QED
      BY <1>2, <2>1 DEF TypeOK, Types, State
  <1>6. ASSUME NEW limit \in MaxChanges, Read(limit)  PROVE TypeOK'
    <2>1. limit \in Limits \union {NoLimit}
      BY DEF MaxChanges
    <2>2. answer' \in Answers(Len(log))
      BY <1>2, <1>3, <1>6, <2>1, AnswerType DEF Read, State
    <2> HIDE DEF Answers
    <2> QED
      BY <1>4, <1>6, <2>2 DEF Read
  <1>7. ASSUME NEW limit \in MaxChanges, RefuseChanges(limit)  PROVE TypeOK'
    BY <1>3, <1>4, <1>7 DEF RefuseChanges
  <1>8. CASE Fetch
    <2>1. /\ UNCHANGED <<storeVars, role, ignore, view, torn>> /\ phase' = "idle"
          /\ cursor' = answer.newState /\ answer' = NoAnswer
      BY <1>8 DEF Fetch
    <2>2. cursor' \in 0 .. Len(log') /\ answer' \in Answers(Len(log'))
      BY <2>1, <1>3 DEF NoAnswer, storeVars
    <2>3. log' = log
      BY <2>1 DEF storeVars
    <2> HIDE DEF Answers
    <2> QED
      BY <1>2, <2>1, <2>2, <2>3 DEF TypeOK, Types, State, Answers
  <1>9. CASE Follow
    BY <1>6, <1>7, <1>8, <1>9 DEF Follow, AskChanges, AskAllChanges, MaxChanges
  <1>10. CASE UNCHANGED vars
    BY <1>2, <1>3, <1>4, <1>10 DEF vars, clientVars, TypeOK
  <1>11. ~View
    BY <1>1 DEF View, Query, BeginQueryChanges, RefuseQueryChanges, EndQueryChanges,
                FailQueryChanges
  <1> QED
    BY <1>5, <1>9, <1>10, <1>11, <1>12 DEF Next

-----------------------------------------------------------------------------
(* The viewer: what its list has in common with the query's result while   *)
(* the two differ.                                                         *)

Sorted(list) == \A i, j \in DOMAIN list : i < j => Before(list[i], list[j])

\* No entry after the viewer's state names the object.
Untouched(o) == \A i \in Since(cursor) : log[i].kind[o] = "none"

\* The list is right about the objects that no later entry names, in view or
\* not as the client was told, has no object twice, and has nothing that was
\* created since.
Holding ==
    /\ IsInjective(view)
    /\ Range(view) \subseteq Object
    /\ \A o \in Range(view) : \E i \in DOMAIN log : i <= cursor /\ CreatedAt(i, o)
    /\ \A o \in Object : Untouched(o) => (o \in Range(view) <=> o \in Told)

\* It has those objects in the order they still have.
Faithful ==
    /\ Holding
    /\ \A i, j \in DOMAIN view :
           i < j /\ Untouched(view[i]) /\ Untouched(view[j]) => Before(view[i], view[j])
    /\ cursor = State => view = Ordered(Told)

Viewing ==
    /\ ignore = FALSE /\ backend \in {"mail", "card", "message"}
    /\ phase \in {"idle", "read"}
    /\ cursor \in {NoState} \union 0 .. Len(log)
    /\ view \in Seq(Object)
    /\ phase = "read" => /\ cursor # NoState
                         /\ AnswerCovers /\ AnswerFresh
                         /\ answer.seen \in Nat /\ answer.seen <= Len(log)
    /\ cursor # NoState => Holding
    /\ cursor # NoState /\ torn = {} => Faithful

ViewInv == role = "viewer" => Viewing

-----------------------------------------------------------------------------
(* Induction and recursion up to a number, without an operator parameter. *)

LEMMA UpTo ==
    ASSUME NEW n \in Nat, NEW S, 0 \in S, \A i \in 1 .. n : i - 1 \in S => i \in S
    PROVE  0 .. n \subseteq S
  <1> SUFFICES ASSUME (0 .. n) \ S # {}  PROVE FALSE
    OBVIOUS
  <1> DEFINE T == {n + 1 - i : i \in (0 .. n) \ S}
  <1>1. T \in SUBSET (1 .. n) /\ T # {}
    <2>1. \A i \in (0 .. n) \ S : n + 1 - i \in 1 .. n
      OBVIOUS
    <2> QED
      BY <2>1
  <1>2. PICK t \in T : \A u \in T : u <= t
    <2> HIDE DEF T
    <2> QED
      BY <1>1, LastEntry
  <1>3. PICK i \in (0 .. n) \ S : t = n + 1 - i
    BY <1>2
  <1>4. i \in 1 .. n /\ i - 1 \notin S
    BY <1>3
  <1>5. n + 1 - (i - 1) \in T
    BY <1>4
  <1>6. n + 1 - (i - 1) <= n + 1 - i
    BY <1>2, <1>3, <1>5
  <1> QED
    BY <1>4, <1>6

\* f begins at a and takes the steps of a function, up to n.
Steps(f, n, S, a, step) ==
    /\ f \in [0 .. n -> S] /\ f[0] = a
    /\ \A i \in 1 .. n : f[i] = step[i][f[i - 1]]

LEMMA Recursion ==
    ASSUME NEW n \in Nat, NEW S, NEW a \in S, NEW step \in [1 .. n -> [S -> S]]
    PROVE  \E f : Steps(f, n, S, a, step)
  <1> DEFINE Up(m, f) == f[0] = a /\ \A i \in 1 .. m : f[i] = step[i][f[i - 1]]
             T == {m \in 0 .. n : \E f \in [0 .. m -> S] : Up(m, f)}
  <1>1. 0 \in T
    <2> DEFINE f == [i \in 0 .. 0 |-> a]
    <2>1. f \in [0 .. 0 -> S] /\ Up(0, f)
      OBVIOUS
    <2>2. 0 \in 0 .. n
      OBVIOUS
    <2> HIDE DEF f
    <2> QED
      BY <2>1, <2>2
  <1>2. ASSUME NEW m \in 1 .. n, m - 1 \in T  PROVE m \in T
    <2>1. PICK f \in [0 .. m - 1 -> S] : Up(m - 1, f)
      BY <1>2
    <2> DEFINE g == [i \in 0 .. m |-> IF i = m THEN step[m][f[m - 1]] ELSE f[i]]
    <2>2. f[m - 1] \in S
      BY <2>1
    <2>3. step[m][f[m - 1]] \in S
      BY <2>2
    <2>4. g \in [0 .. m -> S]
      BY <2>1, <2>3
    <2>5. g[0] = a
      BY <2>1
    <2>6. g[m] = step[m][g[m - 1]]
      <3>1. m \in 0 .. m /\ m - 1 \in 0 .. m /\ m - 1 # m
        OBVIOUS
      <3>2. g[m] = step[m][f[m - 1]] /\ g[m - 1] = f[m - 1]
        BY <3>1
      <3> HIDE DEF g
      <3> QED
        BY <3>2
    <2>7. ASSUME NEW i \in 1 .. m - 1  PROVE g[i] = step[i][g[i - 1]]
      <3>1. g[i] = f[i] /\ g[i - 1] = f[i - 1]
        OBVIOUS
      <3> HIDE DEF g
      <3> QED
        BY <3>1, <2>1, <2>7
    <2>8. m \in 0 .. n
      OBVIOUS
    <2> HIDE DEF g
    <2>9. Up(m, g)
      BY <2>5, <2>6, <2>7
    <2> HIDE DEF Up
    <2> QED
      BY <2>4, <2>8, <2>9
  <1> HIDE DEF T
  <1>3. 0 .. n \subseteq T
    BY <1>1, <1>2, UpTo
  <1>4. n \in T
    BY <1>3
  <1> QED
    BY <1>4 DEF T, Steps

-----------------------------------------------------------------------------
(* The query's order, and its result. *)

LEMMA RanksAreNumbers ==
    ASSUME Types, NEW o \in Object
    PROVE  objects[o].rank \in Int
  <1>1. objects[o] \in Content \/ objects[o] = NoObject
    BY DEF Types
  <1>2. CASE objects[o] \in Content
    <2>1. objects[o].rank \in Rank
      BY <1>2 DEF Content
    <2>2. \A r \in Rank : r \in Int
      BY ChangeLogAssumption
    <2> QED
      BY <2>1, <2>2, Zenon
  <1>3. CASE objects[o] = NoObject
    <2>1. objects[o].rank = -1
      BY <1>3 DEF NoObject
    <2> QED
      BY <2>1
  <1> QED
    BY <1>1, <1>2, <1>3

LEMMA BeforeOrders ==
    ASSUME Types, NEW a \in Object, NEW b \in Object, NEW c \in Object
    PROVE  /\ ~Before(a, a)
           /\ Before(a, b) => ~Before(b, a) /\ a # b
           /\ a # b => Before(a, b) \/ Before(b, a)
           /\ Before(a, b) /\ Before(b, c) => Before(a, c)
  <1>1. /\ objects[a].rank \in Int /\ objects[b].rank \in Int /\ objects[c].rank \in Int
    BY RanksAreNumbers
  <1>2. a \in Int /\ b \in Int /\ c \in Int
    BY SyncAssumption
  <1> QED
    BY <1>1, <1>2 DEF Before

\* How many members of S come before o.
Place(S, o) == Cardinality({x \in S : Before(x, o)}) + 1

\* The objects of a finite set have places 1, 2, 3, ... in the order.
LEMMA Places ==
    ASSUME Types, NEW S \in SUBSET Object
    PROVE  /\ IsFiniteSet(S) /\ Cardinality(S) \in Nat
           /\ \A o \in S : Place(S, o) \in 1 .. Cardinality(S)
           /\ \A a, b \in S : Before(a, b) => Place(S, a) < Place(S, b)
           /\ \A k \in 1 .. Cardinality(S) : \E o \in S : Place(S, o) = k
  <1>1. IsFiniteSet(S) /\ Cardinality(S) \in Nat
    BY FS_Subset, FS_CardinalityType, ChangeLogAssumption
  <1>2. ASSUME NEW o \in S
        PROVE  /\ IsFiniteSet({x \in S : Before(x, o)})
               /\ Cardinality({x \in S : Before(x, o)}) \in Nat
               /\ Cardinality({x \in S : Before(x, o)}) < Cardinality(S)
    <2> DEFINE L == {x \in S : Before(x, o)}
    <2>1. L \in SUBSET S /\ L # S
      BY BeforeOrders
    <2> HIDE DEF L
    <2>2. IsFiniteSet(L) /\ Cardinality(L) <= Cardinality(S) /\ Cardinality(S) # Cardinality(L)
      BY <1>1, <2>1, FS_Subset
    <2>3. Cardinality(L) \in Nat
      BY <2>2, FS_CardinalityType
    <2>4. Cardinality(L) < Cardinality(S)
      BY <1>1, <2>2, <2>3
    <2> QED
      BY <2>2, <2>3, <2>4 DEF L
  <1>3. ASSUME NEW o \in S  PROVE Place(S, o) \in 1 .. Cardinality(S)
    <2>1. PICK c : c = Cardinality({x \in S : Before(x, o)})
      OBVIOUS
    <2>2. c \in Nat /\ c < Cardinality(S)
      BY <2>1, <1>2
    <2>3. Place(S, o) = c + 1
      BY <2>1 DEF Place
    <2> QED
      BY <2>2, <2>3, <1>1
  <1>4. ASSUME NEW a \in S, NEW b \in S, Before(a, b)
        PROVE  Place(S, a) < Place(S, b)
    <2> DEFINE L == {x \in S : Before(x, a)}
               M == {x \in S : Before(x, b)}
    <2>1. L \in SUBSET M /\ a \in M /\ a \notin L
      BY <1>4, BeforeOrders
    <2>2. IsFiniteSet(M) /\ Cardinality(L) \in Nat /\ Cardinality(M) \in Nat
      BY <1>2
    <2>3. Place(S, a) = Cardinality(L) + 1 /\ Place(S, b) = Cardinality(M) + 1
      BY DEF Place
    <2> HIDE DEF L, M
    <2>4. Cardinality(L) <= Cardinality(M) /\ Cardinality(M) # Cardinality(L)
      BY <2>1, <2>2, FS_Subset
    <2> QED
      BY <2>2, <2>3, <2>4
  <1>5. \A k \in 1 .. Cardinality(S) : \E o \in S : Place(S, o) = k
    <2> DEFINE n == Cardinality(S)
               f == [o \in S |-> Place(S, o)]
    <2>1. f \in [S -> 1 .. n]
      BY <1>3
    <2>2. ASSUME NEW a \in S, NEW b \in S, a # b  PROVE Place(S, a) # Place(S, b)
      <3>1. Before(a, b) \/ Before(b, a)
        BY <2>2, BeforeOrders
      <3>2. Place(S, a) \in Int /\ Place(S, b) \in Int
        BY <1>3
      <3> QED
        BY <3>1, <3>2, <1>4
    <2>3. f \in Injection(S, 1 .. n)
      BY <2>1, <2>2 DEF Injection, IsInjective
    <2>4. IsFiniteSet(1 .. n) /\ Cardinality(1 .. n) = n
      <3>1. 1 \in Int /\ n \in Int /\ n >= 0
        BY <1>1
      <3>2. IsFiniteSet(1 .. n) /\ Cardinality(1 .. n) = IF 1 > n THEN 0 ELSE n - 1 + 1
        BY <3>1, FS_Interval
      <3> QED
        BY <3>1, <3>2
    <2> HIDE DEF f
    <2>5. f \in Surjection(S, 1 .. n)
      BY <2>3, <2>4, FS_Injection
    <2> QED
      BY <2>5 DEF Surjection, f
  <1> QED
    BY <1>1, <1>3, <1>4, <1>5

LEMMA ResultSorted ==
    ASSUME Types
    PROVE  /\ Result \in Seq(Object) /\ Len(Result) \in Nat
           /\ DOMAIN Result = 1 .. Len(Result)
           /\ Sorted(Result) /\ Range(Result) = Matches
  <1> DEFINE n == Cardinality(Matches)
             InOrder(list) == \A i, j \in DOMAIN list : i < j => Before(list[i], list[j])
  <1>1. Matches \in SUBSET Object
    BY DEF Matches, Live
  <1>2. /\ IsFiniteSet(Matches) /\ n \in Nat
        /\ \A o \in Matches : Place(Matches, o) \in 1 .. n
        /\ \A a, b \in Matches : Before(a, b) => Place(Matches, a) < Place(Matches, b)
        /\ \A k \in 1 .. n : \E o \in Matches : Place(Matches, o) = k
    BY <1>1, Places
  <1>3. \E list \in [1 .. n -> Matches] : InOrder(list)
    <2> DEFINE list == [k \in 1 .. n |-> CHOOSE o \in Matches : Place(Matches, o) = k]
    <2>1. \A k \in 1 .. n : list[k] \in Matches /\ Place(Matches, list[k]) = k
      BY <1>2
    <2>2. list \in [1 .. n -> Matches]
      BY <2>1
    <2>3. ASSUME NEW i \in 1 .. n, NEW j \in 1 .. n, i < j
          PROVE  Before(list[i], list[j])
      <3> HIDE DEF list
      <3>1. list[i] # list[j]
        BY <2>1, <2>3
      <3>2. ~Before(list[j], list[i])
        BY <2>1, <2>3, <1>2
      <3> QED
        BY <3>1, <3>2, <2>1, <1>1, BeforeOrders
    <2>4. DOMAIN list = 1 .. n
      OBVIOUS
    <2> HIDE DEF list
    <2> QED
      BY <2>2, <2>3, <2>4
  <1>4. Result \in [1 .. n -> Matches] /\ InOrder(Result)
    BY <1>3 DEF Result, Ordered
  <1>5. Result \in Seq(Object) /\ Len(Result) = n /\ DOMAIN Result = 1 .. n
    BY <1>1, <1>2, <1>4
  <1>6. Sorted(Result)
    BY <1>4 DEF Sorted
  <1>7. Range(Result) = Matches
    <2>1. \A i, j \in 1 .. n : i # j => Result[i] # Result[j]
      <3> SUFFICES ASSUME NEW i \in 1 .. n, NEW j \in 1 .. n, i < j
                   PROVE  Result[i] # Result[j]
        OBVIOUS
      <3>1. Before(Result[i], Result[j]) /\ Result[i] \in Object /\ Result[j] \in Object
        BY <1>1, <1>4, <1>5
      <3> QED
        BY <3>1, BeforeOrders
    <2>2. Result \in Injection(1 .. n, Matches)
      BY <1>4, <2>1 DEF Injection, IsInjective
    <2>3. Cardinality(1 .. n) = n
      <3>1. 1 \in Int /\ n \in Int /\ n >= 0
        BY <1>2
      <3>2. IsFiniteSet(1 .. n) /\ Cardinality(1 .. n) = IF 1 > n THEN 0 ELSE n - 1 + 1
        BY <3>1, FS_Interval
      <3> QED
        BY <3>1, <3>2
    <2>4. Result \in Surjection(1 .. n, Matches)
      BY <1>2, <2>2, <2>3, FS_Injection
    <2> QED
      BY <2>4, <1>5 DEF Surjection, Range
  <1> QED
    BY <1>2, <1>5, <1>6, <1>7

-----------------------------------------------------------------------------
(* The client's splice. *)

\* The list without what the answer removes, entry by entry.
LEMMA KeptSteps ==
    ASSUME view \in Seq(Object)
    PROVE  \E f \in [0 .. Len(view) -> Seq(Object)] :
              /\ Kept = f[Len(view)]
              /\ f[0] = <<>>
              /\ \A i \in 1 .. Len(view) :
                     f[i] = IF view[i] \in Removed THEN f[i - 1]
                                                   ELSE Append(f[i - 1], view[i])
  <1>1. PICK n \in Nat : n = Len(view)
    OBVIOUS
  <1> DEFINE step == [i \in 1 .. n |-> [s \in Seq(Object) |->
                         IF view[i] \in Removed THEN s ELSE Append(s, view[i])]]
  <1>2. \A i \in 1 .. n : view[i] \in Object
    BY <1>1
  <1>3. step \in [1 .. n -> [Seq(Object) -> Seq(Object)]]
    <2> SUFFICES ASSUME NEW i \in 1 .. n, NEW s \in Seq(Object)
                 PROVE  Append(s, view[i]) \in Seq(Object)
      OBVIOUS
    <2> QED
      BY <1>2, AppendProperties
  <1>4. <<>> \in Seq(Object)
    OBVIOUS
  <1>5. PICK f \in [0 .. n -> Seq(Object)] :
            f[0] = <<>> /\ \A i \in 1 .. n : f[i] = step[i][f[i - 1]]
    <2>1. PICK S : S = Seq(Object)
      OBVIOUS
    <2> HIDE DEF step
    <2>2. step \in [1 .. n -> [S -> S]] /\ <<>> \in S
      BY <1>3, <1>4, <2>1
    <2>3. \E f \in [0 .. n -> S] :
              f[0] = <<>> /\ \A i \in 1 .. n : f[i] = step[i][f[i - 1]]
      <3>1. PICK f : Steps(f, n, S, <<>>, step)
        BY <2>2, Recursion
      <3> QED
        BY <3>1 DEF Steps
    <2> QED
      BY <2>1, <2>3
  <1>6. ASSUME NEW i \in 1 .. n
        PROVE  f[i] = IF view[i] \in Removed THEN f[i - 1] ELSE Append(f[i - 1], view[i])
    <2>1. i - 1 \in 0 .. n
      OBVIOUS
    <2>2. f[i - 1] \in Seq(Object)
      BY <2>1, <1>5
    <2>3. step[i][f[i - 1]] = IF view[i] \in Removed THEN f[i - 1]
                              ELSE Append(f[i - 1], view[i])
      BY <2>2
    <2> QED
      BY <2>3, <1>5
  <1> DEFINE R(g) == [i \in 0 .. n |-> IF i = 0 THEN <<>>
                                       ELSE IF view[i] \in Removed THEN g[i - 1]
                                       ELSE Append(g[i - 1], view[i])]
  <1>7. f = R(f)
    <2>1. ASSUME NEW i \in 0 .. n  PROVE f[i] = R(f)[i]
      <3>1. CASE i = 0
        BY <3>1, <1>5
      <3>2. CASE i \in 1 .. n
        <4>1. R(f)[i] = IF view[i] \in Removed THEN f[i - 1] ELSE Append(f[i - 1], view[i])
          BY <3>2
        <4> QED
          BY <3>2, <4>1, <1>6
      <3> QED
        BY <3>1, <3>2
    <2>2. f = [i \in 0 .. n |-> f[i]]
      BY <1>5
    <2> QED
      BY <2>1, <2>2
  <1>8. \A g : g = R(g) => g[n] = f[n]
    <2> SUFFICES ASSUME NEW g, g = R(g)  PROVE g[n] = f[n]
      OBVIOUS
    <2> DEFINE T == {i \in 0 .. n : g[i] = f[i]}
    <2>1. 0 \in T
      BY <1>5
    <2>2. ASSUME NEW i \in 1 .. n, i - 1 \in T  PROVE i \in T
      <3>1. g[i] = R(g)[i]
        OBVIOUS
      <3>2. g[i] = IF view[i] \in Removed THEN g[i - 1] ELSE Append(g[i - 1], view[i])
        BY <3>1
      <3> QED
        BY <2>2, <3>2, <1>6
    <2>3. n \in T
      <3> HIDE DEF T
      <3>1. 0 .. n \subseteq T
        BY <2>1, <2>2, UpTo
      <3> QED
        BY <3>1
    <2> QED
      BY <2>3
  <1>9. Kept = f[n]
    <2> DEFINE kept == CHOOSE g : g = R(g)
    <2>1. kept = R(kept)
      BY <1>7
    <2>2. Kept = kept[n]
      BY <1>1 DEF Kept
    <2> HIDE DEF kept
    <2> QED
      BY <2>1, <2>2, <1>8
  <1> QED
    BY <1>1, <1>5, <1>6, <1>9

LEMMA InsertAtProperties ==
    ASSUME NEW list \in Seq(Object), NEW p \in 1 .. Len(list) + 1, NEW o \in Object
    PROVE  /\ InsertAt(list, p, o) \in Seq(Object)
           /\ Len(InsertAt(list, p, o)) = Len(list) + 1
           /\ \A j \in 1 .. Len(list) + 1 :
                  InsertAt(list, p, o)[j] = IF j < p THEN list[j]
                                            ELSE IF j = p THEN o ELSE list[j - 1]
  <1>1. PICK n \in Nat : n = Len(list)
    OBVIOUS
  <1>2. p \in 1 .. n + 1
    BY <1>1
  <1>3. \A i \in 1 .. n : list[i] \in Object
    BY <1>1
  <1> DEFINE before == SubSeq(list, 1, p - 1)
             after == SubSeq(list, p, n)
             head == before \o <<o>>
  <1>4. /\ before \in Seq(Object) /\ Len(before) = p - 1
        /\ \A i \in 1 .. p - 1 : before[i] = list[i]
    <2>1. 1 \in Int /\ p - 1 \in Int /\ \A i \in 1 .. p - 1 : list[i] \in Object
      BY <1>2, <1>3
    <2>2. /\ SubSeq(list, 1, p - 1) \in Seq(Object)
          /\ Len(SubSeq(list, 1, p - 1)) = IF 1 <= p - 1 THEN p - 1 - 1 + 1 ELSE 0
          /\ \A i \in 1 .. p - 1 - 1 + 1 : SubSeq(list, 1, p - 1)[i] = list[1 + i - 1]
      BY <2>1, SubSeqProperties
    <2> QED
      BY <2>2, <1>2
  <1>5. /\ after \in Seq(Object) /\ Len(after) = n - p + 1
        /\ \A i \in 1 .. n - p + 1 : after[i] = list[p + i - 1]
    <2>1. p \in Int /\ n \in Int /\ \A i \in p .. n : list[i] \in Object
      BY <1>2, <1>3
    <2>2. /\ SubSeq(list, p, n) \in Seq(Object)
          /\ Len(SubSeq(list, p, n)) = IF p <= n THEN n - p + 1 ELSE 0
          /\ \A i \in 1 .. n - p + 1 : SubSeq(list, p, n)[i] = list[p + i - 1]
      BY <2>1, SubSeqProperties
    <2> QED
      BY <2>2, <1>2
  <1> HIDE DEF before, after
  <1>6. /\ head \in Seq(Object) /\ Len(head) = p
        /\ \A i \in 1 .. p : head[i] = IF i < p THEN list[i] ELSE o
    <2>1. <<o>> \in Seq(Object) /\ Len(<<o>>) = 1 /\ <<o>>[1] = o
      OBVIOUS
    <2>2. /\ before \o <<o>> \in Seq(Object) /\ Len(before \o <<o>>) = p - 1 + 1
          /\ \A i \in 1 .. p - 1 + 1 : (before \o <<o>>)[i] =
                 IF i <= p - 1 THEN before[i] ELSE <<o>>[i - (p - 1)]
      BY <2>1, <1>4, ConcatProperties
    <2> QED
      BY <2>1, <2>2, <1>2, <1>4
  <1>7. InsertAt(list, p, o) = head \o after
    BY <1>1 DEF InsertAt, before, after
  <1> HIDE DEF head
  <1>8. /\ head \o after \in Seq(Object) /\ Len(head \o after) = p + (n - p + 1)
        /\ \A i \in 1 .. p + (n - p + 1) : (head \o after)[i] =
               IF i <= p THEN head[i] ELSE after[i - p]
    BY <1>5, <1>6, ConcatProperties
  <1>9. ASSUME NEW j \in 1 .. n + 1
        PROVE  (head \o after)[j] = IF j < p THEN list[j] ELSE IF j = p THEN o ELSE list[j - 1]
    <2>1. j \in 1 .. p + (n - p + 1)
      BY <1>2
    <2>2. CASE j <= p
      BY <2>1, <2>2, <1>2, <1>6, <1>8
    <2>3. CASE j > p
      <3>1. j - p \in 1 .. n - p + 1 /\ p + (j - p) - 1 = j - 1
        BY <2>3, <1>2
      <3>2. after[j - p] = list[j - 1]
        BY <3>1, <1>5
      <3> QED
        BY <2>1, <2>3, <3>2, <1>2, <1>8
    <2>4. j <= p \/ j > p
      BY <1>2
    <2> QED
      BY <2>2, <2>3, <2>4, Zenon
  <1> QED
    BY <1>1, <1>2, <1>7, <1>8, <1>9

LEMMA InsertProperties ==
    ASSUME NEW list \in Seq(Object), NEW i \in Nat \ {0}, NEW o \in Object
    PROVE  /\ Insert(list, i, o) \in Seq(Object)
           /\ i <= Len(list) + 1 => Insert(list, i, o) = InsertAt(list, i, o)
  <1>1. PICK p : p = IF i <= Len(list) THEN i ELSE Len(list) + 1
    OBVIOUS
  <1>2. p \in 1 .. Len(list) + 1 /\ (i <= Len(list) + 1 => p = i)
    BY <1>1
  <1>3. Insert(list, i, o) = InsertAt(list, p, o)
    BY <1>1 DEF Insert
  <1> QED
    BY <1>2, <1>3, InsertAtProperties

\* The list with what the answer adds, index by index.
LEMMA SplicedSteps ==
    ASSUME Types, Kept \in Seq(Object)
    PROVE  \E f \in [0 .. Len(Result) -> Seq(Object)] :
              /\ Spliced = f[Len(Result)]
              /\ f[0] = Kept
              /\ \A i \in 1 .. Len(Result) :
                     f[i] = IF i \in AddedAt THEN Insert(f[i - 1], i, Result[i])
                                             ELSE f[i - 1]
  <1>1. PICK n \in Nat : n = Len(Result)
    BY ResultSorted
  <1> DEFINE step == [i \in 1 .. n |-> [s \in Seq(Object) |->
                         IF i \in AddedAt THEN Insert(s, i, Result[i]) ELSE s]]
  <1>2. \A i \in 1 .. n : Result[i] \in Object
    BY <1>1, ResultSorted
  <1>3. step \in [1 .. n -> [Seq(Object) -> Seq(Object)]]
    <2> SUFFICES ASSUME NEW i \in 1 .. n, NEW s \in Seq(Object)
                 PROVE  Insert(s, i, Result[i]) \in Seq(Object)
      OBVIOUS
    <2> QED
      BY <1>2, InsertProperties
  <1>4. PICK f \in [0 .. n -> Seq(Object)] :
            f[0] = Kept /\ \A i \in 1 .. n : f[i] = step[i][f[i - 1]]
    <2>1. PICK S : S = Seq(Object)
      OBVIOUS
    <2>2. PICK a : a = Kept
      OBVIOUS
    <2> HIDE DEF step
    <2>3. step \in [1 .. n -> [S -> S]] /\ a \in S
      BY <1>3, <2>1, <2>2
    <2>4. PICK f : Steps(f, n, S, a, step)
      BY <2>3, Recursion
    <2> QED
      BY <2>1, <2>2, <2>4 DEF Steps
  <1>5. ASSUME NEW i \in 1 .. n
        PROVE  f[i] = IF i \in AddedAt THEN Insert(f[i - 1], i, Result[i]) ELSE f[i - 1]
    <2>1. i - 1 \in 0 .. n
      OBVIOUS
    <2>2. f[i - 1] \in Seq(Object)
      BY <2>1, <1>4
    <2>3. step[i][f[i - 1]] = IF i \in AddedAt THEN Insert(f[i - 1], i, Result[i])
                              ELSE f[i - 1]
      BY <2>2
    <2> QED
      BY <2>3, <1>4
  <1> DEFINE R(g) == [i \in 0 .. n |-> IF i = 0 THEN Kept
                                       ELSE IF i \in AddedAt
                                              THEN Insert(g[i - 1], i, Result[i])
                                       ELSE g[i - 1]]
  <1>6. f = R(f)
    <2>1. ASSUME NEW i \in 0 .. n  PROVE f[i] = R(f)[i]
      <3>1. CASE i = 0
        BY <3>1, <1>4
      <3>2. CASE i \in 1 .. n
        <4>1. R(f)[i] = IF i \in AddedAt THEN Insert(f[i - 1], i, Result[i]) ELSE f[i - 1]
          BY <3>2
        <4> QED
          BY <3>2, <4>1, <1>5
      <3> QED
        BY <3>1, <3>2
    <2>2. f = [i \in 0 .. n |-> f[i]]
      BY <1>4
    <2> QED
      BY <2>1, <2>2
  <1>7. \A g : g = R(g) => g[n] = f[n]
    <2> SUFFICES ASSUME NEW g, g = R(g)  PROVE g[n] = f[n]
      OBVIOUS
    <2> DEFINE T == {i \in 0 .. n : g[i] = f[i]}
    <2>1. 0 \in T
      BY <1>4
    <2>2. ASSUME NEW i \in 1 .. n, i - 1 \in T  PROVE i \in T
      <3>1. g[i] = R(g)[i]
        OBVIOUS
      <3>2. g[i] = IF i \in AddedAt THEN Insert(g[i - 1], i, Result[i]) ELSE g[i - 1]
        BY <3>1
      <3> QED
        BY <2>2, <3>2, <1>5
    <2>3. n \in T
      <3> HIDE DEF T
      <3>1. 0 .. n \subseteq T
        BY <2>1, <2>2, UpTo
      <3> QED
        BY <3>1
    <2> QED
      BY <2>3
  <1>8. Spliced = f[n]
    <2> DEFINE spliced == CHOOSE g : g = R(g)
    <2>1. spliced = R(spliced)
      BY <1>6
    <2>2. Spliced = spliced[n]
      BY <1>1 DEF Spliced
    <2> HIDE DEF spliced
    <2> QED
      BY <2>1, <2>2, <1>7
  <1> QED
    BY <1>1, <1>4, <1>5, <1>8

LEMMA SortedAppend ==
    ASSUME NEW list \in Seq(Object), Sorted(list), NEW o \in Object,
           \A x \in Range(list) : Before(x, o)
    PROVE  /\ Append(list, o) \in Seq(Object) /\ Sorted(Append(list, o))
           /\ Range(Append(list, o)) = Range(list) \union {o}
  <1>1. PICK n \in Nat : n = Len(list) /\ DOMAIN list = 1 .. n
    OBVIOUS
  <1>2. PICK longer : longer = Append(list, o)
    OBVIOUS
  <1>3. /\ longer \in Seq(Object) /\ DOMAIN longer = 1 .. n + 1 /\ longer[n + 1] = o
        /\ \A i \in 1 .. n : longer[i] = list[i]
    BY <1>1, <1>2, AppendProperties
  <1>4. \A i \in 1 .. n : list[i] \in Range(list)
    BY <1>1 DEF Range
  <1>5. ASSUME NEW i \in 1 .. n + 1, NEW j \in 1 .. n + 1, i < j
        PROVE  Before(longer[i], longer[j])
    <2>1. CASE j = n + 1
      BY <2>1, <1>3, <1>4, <1>5
    <2>2. CASE j \in 1 .. n
      BY <2>2, <1>1, <1>3, <1>5 DEF Sorted
    <2> QED
      BY <2>1, <2>2
  <1>6. Range(longer) = Range(list) \union {o}
    BY <1>1, <1>3 DEF Range
  <1> QED
    BY <1>2, <1>3, <1>5, <1>6 DEF Sorted

\* The place of o in a list is p.
Belongs(list, p, o) ==
    \A j \in 1 .. Len(list) : IF j < p THEN Before(list[j], o) ELSE Before(o, list[j])

LEMMA SortedInsert ==
    ASSUME NEW list \in Seq(Object), Sorted(list), NEW o \in Object,
           NEW p \in 1 .. Len(list) + 1, Belongs(list, p, o)
    PROVE  /\ InsertAt(list, p, o) \in Seq(Object) /\ Sorted(InsertAt(list, p, o))
           /\ Len(InsertAt(list, p, o)) = Len(list) + 1
           /\ Range(InsertAt(list, p, o)) = Range(list) \union {o}
           /\ \A j \in 1 .. p - 1 : InsertAt(list, p, o)[j] = list[j]
           /\ InsertAt(list, p, o)[p] = o
  <1>1. PICK n \in Nat : n = Len(list) /\ DOMAIN list = 1 .. n
    OBVIOUS
  <1>2. PICK longer : longer = InsertAt(list, p, o)
    OBVIOUS
  <1>3. /\ longer \in Seq(Object) /\ Len(longer) = n + 1
        /\ \A j \in 1 .. n + 1 : longer[j] = IF j < p THEN list[j]
                                             ELSE IF j = p THEN o ELSE list[j - 1]
    <2>1. /\ InsertAt(list, p, o) \in Seq(Object)
          /\ Len(InsertAt(list, p, o)) = Len(list) + 1
          /\ \A j \in 1 .. Len(list) + 1 :
                  InsertAt(list, p, o)[j] = IF j < p THEN list[j]
                                            ELSE IF j = p THEN o ELSE list[j - 1]
      BY InsertAtProperties
    <2> QED
      BY <2>1, <1>1, <1>2
  <1>4. DOMAIN longer = 1 .. n + 1 /\ p \in 1 .. n + 1
    BY <1>1, <1>3
  <1>5. /\ \A j \in 1 .. p - 1 : longer[j] = list[j] /\ j \in 1 .. n
        /\ longer[p] = o
        /\ \A j \in p + 1 .. n + 1 : longer[j] = list[j - 1] /\ j - 1 \in 1 .. n /\ ~(j - 1 < p)
    BY <1>3, <1>4
  <1>9. \A j \in 1 .. n : IF j < p THEN Before(list[j], o) ELSE Before(o, list[j])
    BY <1>1 DEF Belongs
  <1>6. ASSUME NEW i \in 1 .. n + 1, NEW j \in 1 .. n + 1, i < j
        PROVE  Before(longer[i], longer[j])
    <2>1. CASE j < p
      <3>1. i \in 1 .. p - 1 /\ j \in 1 .. p - 1
        BY <2>1, <1>4, <1>6
      <3> QED
        BY <3>1, <1>1, <1>5, <1>6 DEF Sorted
    <2>2. CASE j = p
      <3>1. i \in 1 .. p - 1 /\ i < p
        BY <2>2, <1>4, <1>6
      <3> QED
        BY <3>1, <2>2, <1>5, <1>9
    <2>3. CASE j > p /\ i = p
      <3>1. j \in p + 1 .. n + 1
        BY <2>3, <1>4
      <3> QED
        BY <3>1, <2>3, <1>5, <1>9
    <2>4. CASE j > p /\ i > p
      <3>1. i \in p + 1 .. n + 1 /\ j \in p + 1 .. n + 1 /\ i - 1 < j - 1
        BY <2>4, <1>4, <1>6
      <3> QED
        BY <3>1, <1>1, <1>5 DEF Sorted
    <2>5. CASE j > p /\ i < p
      <3>1. i \in 1 .. p - 1 /\ j \in p + 1 .. n + 1 /\ i < j - 1
        BY <2>5, <1>4
      <3> QED
        BY <3>1, <1>1, <1>5 DEF Sorted
    <2> QED
      BY <2>1, <2>2, <2>3, <2>4, <2>5, <1>4
  <1>7. Range(longer) = Range(list) \union {o}
    <2>1. \A j \in 1 .. n + 1 : longer[j] \in Range(list) \union {o}
      <3> SUFFICES ASSUME NEW j \in 1 .. n + 1  PROVE longer[j] \in Range(list) \union {o}
        OBVIOUS
      <3>1. j \in 1 .. p - 1 \/ j = p \/ j \in p + 1 .. n + 1
        BY <1>4
      <3> QED
        BY <3>1, <1>1, <1>5 DEF Range
    <2>2. o \in Range(longer)
      BY <1>4, <1>5 DEF Range
    <2>3. ASSUME NEW k \in 1 .. n  PROVE list[k] \in Range(longer)
      <3>1. CASE k < p
        <4>1. k \in 1 .. p - 1 /\ k \in 1 .. n + 1
          BY <3>1, <1>4
        <4> QED
          BY <4>1, <1>4, <1>5 DEF Range
      <3>2. CASE ~(k < p)
        <4>1. k + 1 \in p + 1 .. n + 1 /\ k + 1 \in 1 .. n + 1 /\ k + 1 - 1 = k
          BY <3>2, <1>4
        <4>2. longer[k + 1] = list[k]
          BY <4>1, <1>5
        <4> QED
          BY <4>1, <4>2, <1>4 DEF Range
      <3> QED
        BY <3>1, <3>2
    <2> QED
      BY <2>1, <2>2, <2>3, <1>1, <1>4 DEF Range
  <1>8. Sorted(longer)
    BY <1>4, <1>6 DEF Sorted
  <1> QED
    BY <1>1, <1>2, <1>3, <1>5, <1>7, <1>8

LEMMA SortedIsInjective ==
    ASSUME Types, NEW list \in Seq(Object), Sorted(list),
           NEW i \in DOMAIN list, NEW j \in DOMAIN list, list[i] = list[j]
    PROVE  i = j
  <1>1. i \in Int /\ j \in Int /\ list[i] \in Object
    OBVIOUS
  <1>2. ~Before(list[i], list[j]) /\ ~Before(list[j], list[i])
    BY <1>1, BeforeOrders
  <1>3. ~(i < j) /\ ~(j < i)
    BY <1>2 DEF Sorted
  <1> QED
    BY <1>1, <1>3

\* What the client keeps, and the query's result without what is added.
KeptIds == {o \in Range(view) : o \notin Removed}
AddedIds == answer.created \union answer.updated

LEMMA KeptType ==
    ASSUME view \in Seq(Object)
    PROVE  Kept \in Seq(Object)
  <1>1. PICK f \in [0 .. Len(view) -> Seq(Object)] : Kept = f[Len(view)]
    BY KeptSteps
  <1>2. Len(view) \in 0 .. Len(view)
    OBVIOUS
  <1> QED
    BY <1>1, <1>2

LEMMA SplicedType ==
    ASSUME Types, view \in Seq(Object)
    PROVE  Spliced \in Seq(Object)
  <1>1. Kept \in Seq(Object)
    BY KeptType
  <1>2. PICK f \in [0 .. Len(Result) -> Seq(Object)] : Spliced = f[Len(Result)]
    BY <1>1, SplicedSteps
  <1>3. Len(Result) \in 0 .. Len(Result)
    BY ResultSorted
  <1> QED
    BY <1>2, <1>3

LEMMA KeptSorted ==
    ASSUME view \in Seq(Object),
           \A i, j \in DOMAIN view : i < j /\ view[i] \notin Removed /\ view[j] \notin Removed
               => Before(view[i], view[j])
    PROVE  Kept \in Seq(Object) /\ Sorted(Kept) /\ Range(Kept) = KeptIds
  <1>1. PICK n \in Nat : n = Len(view) /\ DOMAIN view = 1 .. n
    OBVIOUS
  <1>2. PICK f \in [0 .. n -> Seq(Object)] :
              /\ Kept = f[n]
              /\ f[0] = <<>>
              /\ \A i \in 1 .. n :
                     f[i] = IF view[i] \in Removed THEN f[i - 1]
                                                   ELSE Append(f[i - 1], view[i])
    BY <1>1, KeptSteps
  <1> DEFINE Upto(i, o) == \E k \in 1 .. i : view[k] = o /\ view[k] \notin Removed
             Ready(i, s) == Sorted(s) /\ \A o : o \in Range(s) <=> Upto(i, o)
             T == {i \in 0 .. n : Ready(i, f[i])}
  <1>3. 0 \in T
    <2>1. Ready(0, <<>>)
      BY DEF Sorted, Range
    <2> HIDE DEF Ready
    <2> QED
      BY <2>1, <1>2
  <1>4. ASSUME NEW i \in 1 .. n, i - 1 \in T  PROVE i \in T
    <2>1. PICK s \in Seq(Object) : s = f[i - 1]
      BY <1>2
    <2>2. Ready(i - 1, s)
      BY <2>1, <1>4
    <2>0. \A k : k \in 1 .. i <=> k \in 1 .. i - 1 \/ k = i
      OBVIOUS
    <2>3. CASE view[i] \in Removed
      <3>1. \A o : Upto(i, o) <=> Upto(i - 1, o)
        BY <2>0, <2>3, Zenon
      <3>2. f[i] = s
        BY <2>1, <2>3, <1>2
      <3> HIDE DEF Upto
      <3>3. Ready(i, s)
        BY <2>2, <3>1
      <3> HIDE DEF Ready
      <3> QED
        BY <3>2, <3>3
    <2>4. CASE view[i] \notin Removed
      <3>1. \A o : Upto(i, o) <=> Upto(i - 1, o) \/ o = view[i]
        BY <2>0, <2>4, Zenon
      <3>2. f[i] = Append(s, view[i]) /\ view[i] \in Object
        <4>1. view[i] \in Object
          BY <1>1
        <4>2. f[i] = Append(f[i - 1], view[i])
          BY <2>4, <1>2
        <4> QED
          BY <4>1, <4>2, <2>1
      <3>3. ASSUME NEW x \in Range(s)  PROVE Before(x, view[i])
        <4>1. Upto(i - 1, x)
          <5> HIDE DEF Upto
          <5> QED
            BY <2>2, <3>3
        <4>2. PICK k \in 1 .. i - 1 : view[k] = x /\ view[k] \notin Removed
          BY <4>1
        <4>3. k \in DOMAIN view /\ i \in DOMAIN view /\ k < i
          BY <1>1
        <4> QED
          BY <4>2, <4>3, <2>4
      <3> HIDE DEF Upto
      <3>4. PICK q : q = Append(s, view[i])
        OBVIOUS
      <3>5. Sorted(q) /\ Range(q) = Range(s) \union {view[i]}
        BY <2>2, <3>2, <3>3, <3>4, SortedAppend
      <3>6. Ready(i, q)
        BY <2>2, <3>1, <3>5
      <3>7. f[i] = q /\ i \in 0 .. n
        BY <3>2, <3>4
      <3> HIDE DEF Ready
      <3> QED
        BY <3>6, <3>7
    <2> QED
      BY <2>3, <2>4
  <1>5. n \in T
    <2> HIDE DEF T
    <2>1. 0 .. n \subseteq T
      BY <1>3, <1>4, UpTo
    <2> QED
      BY <2>1
  <1>6. PICK s \in Seq(Object) : s = f[n]
    BY <1>2
  <1>7. Sorted(s) /\ \A o : o \in Range(s) <=> Upto(n, o)
    BY <1>5, <1>6
  <1>8. \A o : Upto(n, o) <=> o \in KeptIds
    BY <1>1 DEF KeptIds, Range
  <1> HIDE DEF Upto
  <1>9. Range(s) = KeptIds
    BY <1>7, <1>8
  <1> QED
    BY <1>2, <1>6, <1>7, <1>9

\* What is kept and what is added, spliced at the indices of the result, is
\* the result.
LEMMA SplicedExact ==
    ASSUME Types, view \in Seq(Object),
           \A i, j \in DOMAIN view : i < j /\ view[i] \notin Removed /\ view[j] \notin Removed
               => Before(view[i], view[j]),
           KeptIds = Matches \ AddedIds
    PROVE  Spliced = Result
  <1>1. /\ Kept \in Seq(Object) /\ Sorted(Kept)
        /\ Range(Kept) = Matches \ AddedIds
    BY KeptSorted
  <1>2. PICK R \in Seq(Object) : R = Result
    BY ResultSorted
  <1>3. PICK n \in Nat : n = Len(R) /\ DOMAIN R = 1 .. n
    OBVIOUS
  <1>4. Sorted(R) /\ Range(R) = Matches
    BY <1>2, ResultSorted
  <1>5. /\ \A k \in 1 .. n : R[k] \in Object
        /\ \A k, m \in 1 .. n : R[k] = R[m] => k = m
        /\ \A k, m \in 1 .. n : k < m <=> Before(R[k], R[m])
    <2>1. \A k \in 1 .. n : R[k] \in Object
      BY <1>3
    <2>2. \A k, m \in 1 .. n : R[k] = R[m] => k = m
      BY <1>3, <1>4, SortedIsInjective
    <2>3. \A k, m \in 1 .. n : k < m => Before(R[k], R[m])
      BY <1>3, <1>4 DEF Sorted
    <2>4. ASSUME NEW k \in 1 .. n, NEW m \in 1 .. n, Before(R[k], R[m])  PROVE k < m
      <3>1. R[k] # R[m] /\ ~Before(R[m], R[k])
        BY <2>1, <2>4, BeforeOrders
      <3> QED
        BY <3>1, <2>3
    <2> QED
      BY <2>1, <2>2, <2>3, <2>4
  <1>6. \A k \in 1 .. n : k \in AddedAt <=> R[k] \in AddedIds
    BY <1>2, <1>3 DEF AddedAt, AddedIds, Named
  <1>7. PICK f \in [0 .. n -> Seq(Object)] :
              /\ Spliced = f[n]
              /\ f[0] = Kept
              /\ \A i \in 1 .. n :
                     f[i] = IF i \in AddedAt THEN Insert(f[i - 1], i, R[i]) ELSE f[i - 1]
    BY <1>1, <1>2, <1>3, SplicedSteps
  <1> DEFINE Placed(i, o) == \E k \in 1 .. n : R[k] = o /\ (k <= i \/ k \notin AddedAt)
             Ready(i, s) == /\ Sorted(s) /\ \A o : o \in Range(s) <=> Placed(i, o)
                            /\ i <= Len(s) /\ \A k \in 1 .. i : s[k] = R[k]
             T == {i \in 0 .. n : Ready(i, f[i])}
  <1>8. 0 \in T
    <2>1. \A o : o \in Range(Kept) <=> Placed(0, o)
      <3> SUFFICES ASSUME NEW o  PROVE o \in Range(Kept) <=> Placed(0, o)
        OBVIOUS
      <3>1. o \in Matches <=> \E k \in 1 .. n : R[k] = o
        BY <1>3, <1>4 DEF Range
      <3>2. Placed(0, o) <=> \E k \in 1 .. n : R[k] = o /\ R[k] \notin AddedIds
        BY <1>6
      <3>3. o \in Range(Kept) <=> o \in Matches /\ o \notin AddedIds
        BY <1>1
      <3> HIDE DEF Placed
      <3> QED
        BY <3>1, <3>2, <3>3
    <2>2. Len(Kept) \in Nat
      BY <1>1
    <2> HIDE DEF Placed
    <2>3. Ready(0, Kept)
      BY <2>1, <2>2, <1>1
    <2> HIDE DEF Ready
    <2> QED
      BY <2>3, <1>7
  <1>9. ASSUME NEW i \in 1 .. n, i - 1 \in T  PROVE i \in T
    <2>1. PICK s \in Seq(Object) : s = f[i - 1]
      BY <1>7
    <2>2. Ready(i - 1, s)
      BY <2>1, <1>9
    <2>3. PICK l \in Nat : l = Len(s) /\ DOMAIN s = 1 .. l
      OBVIOUS
    <2>4. /\ i - 1 <= l /\ \A k \in 1 .. i - 1 : s[k] = R[k]
          /\ \A j \in 1 .. l : Placed(i - 1, s[j])
      <3> HIDE DEF Placed
      <3> QED
        BY <2>2, <2>3 DEF Range
    \* beyond the part that is done, s has later members of the result
    <2>5. ASSUME NEW j \in i .. l, NEW k \in 1 .. n, s[j] = R[k]  PROVE k >= i
      <3> SUFFICES ASSUME k < i  PROVE FALSE
        OBVIOUS
      <3>1. s[k] = s[j] /\ k \in 1 .. l /\ j \in 1 .. l /\ k # j
        <4>1. k \in 1 .. i - 1 /\ k \in 1 .. l /\ j \in 1 .. l /\ k # j
          <5> HIDE DEF Placed
          <5>1. i \in Nat /\ k \in Nat /\ j \in Nat /\ 1 <= k /\ k <= i - 1 /\ i <= j /\ j <= l
            OBVIOUS
          <5> QED
            BY <5>1
        <4>2. s[k] = R[k]
          BY <4>1, <2>4
        <4> QED
          BY <4>1, <4>2, <2>5
      <3>2. Sorted(s)
        BY <2>2
      <3> QED
        BY <3>1, <3>2, <2>3, SortedIsInjective
    <2>6. CASE i \in AddedAt
      <3>1. ~Placed(i - 1, R[i])
        BY <2>6, <1>5
      <3>2. \A j \in 1 .. l : IF j < i THEN Before(s[j], R[i]) ELSE Before(R[i], s[j])
        <4> SUFFICES ASSUME NEW j \in 1 .. l
                     PROVE  IF j < i THEN Before(s[j], R[i]) ELSE Before(R[i], s[j])
          OBVIOUS
        <4>1. CASE j < i
          <5>1. s[j] = R[j] /\ j \in 1 .. n
            BY <4>1, <2>4
          <5> QED
            BY <4>1, <5>1, <1>5
        <4>2. CASE ~(j < i)
          <5>1. PICK k \in 1 .. n : s[j] = R[k]
            BY <2>4
          <5>2. k >= i
            <6>1. j \in i .. l
              BY <4>2
            <6> QED
              BY <6>1, <5>1, <2>5
          <5>3. k # i
            <6> HIDE DEF Placed
            <6> QED
              BY <5>1, <2>4, <3>1
          <5>4. Before(R[i], R[k])
            BY <5>2, <5>3, <1>5
          <5> QED
            BY <4>2, <5>1, <5>4
        <4> QED
          BY <4>1, <4>2
      <3>3. PICK q : q = InsertAt(s, i, R[i])
        OBVIOUS
      <3>4. f[i] = q
        <4>1. f[i] = Insert(s, i, R[i])
          BY <2>1, <2>6, <1>7
        <4>2. i \in Nat \ {0} /\ R[i] \in Object /\ i <= Len(s) + 1
          BY <2>3, <2>4, <1>5
        <4> QED
          BY <4>1, <4>2, <3>3, InsertProperties
      <3>5. /\ q \in Seq(Object) /\ Sorted(q) /\ Len(q) = l + 1
            /\ Range(q) = Range(s) \union {R[i]}
            /\ \A j \in 1 .. i - 1 : q[j] = s[j]
            /\ q[i] = R[i]
        <4>1. i \in 1 .. l + 1 /\ R[i] \in Object /\ Sorted(s)
          BY <2>2, <2>4, <1>5
        <4>2. Belongs(s, i, R[i])
          BY <3>2, <2>3 DEF Belongs
        <4> QED
          BY <4>1, <4>2, <3>3, <2>3, SortedInsert
      <3>6. \A o : o \in Range(q) <=> Placed(i, o)
        <4> SUFFICES ASSUME NEW o  PROVE o \in Range(q) <=> Placed(i, o)
          OBVIOUS
        <4>1. o \in Range(s) <=> Placed(i - 1, o)
          BY <2>2
        <4>2. Placed(i, o) <=> Placed(i - 1, o) \/ o = R[i]
          OBVIOUS
        <4> HIDE DEF Placed
        <4> QED
          BY <4>1, <4>2, <3>5
      <3>7. i <= Len(q) /\ \A k \in 1 .. i : q[k] = R[k]
        <4>1. \A k \in 1 .. i - 1 : q[k] = R[k]
          BY <3>5, <2>4
        <4>2. \A k \in 1 .. i : k \in 1 .. i - 1 \/ k = i
          OBVIOUS
        <4>3. i <= l + 1
          BY <2>4
        <4> HIDE DEF Placed
        <4> QED
          BY <4>1, <4>2, <4>3, <3>5
      <3> HIDE DEF Placed
      <3>8. Ready(i, q)
        BY <3>5, <3>6, <3>7
      <3> HIDE DEF Ready
      <3> QED
        BY <3>4, <3>8
    <2>7. CASE i \notin AddedAt
      <3>1. f[i] = s
        BY <2>1, <2>7, <1>7
      <3>2. \A o : Placed(i, o) <=> Placed(i - 1, o)
        BY <2>7
      <3>3. PICK p \in 1 .. l : s[p] = R[i]
        <4>1. Placed(i - 1, R[i])
          BY <2>7
        <4> HIDE DEF Placed
        <4> QED
          BY <4>1, <2>2, <2>3 DEF Range
      <3>4. p >= i
        <4> SUFFICES ASSUME p < i  PROVE FALSE
          OBVIOUS
        <4>1. p \in 1 .. i - 1 /\ p \in 1 .. n
          OBVIOUS
        <4>2. R[p] = R[i]
          BY <4>1, <3>3, <2>4
        <4> QED
          BY <4>1, <4>2, <1>5
      <3>5. p = i
        <4> SUFFICES ASSUME i < p  PROVE FALSE
          BY <3>4
        <4>1. i \in i .. l /\ i \in 1 .. l
          BY <3>3
        <4>2. PICK k \in 1 .. n : s[i] = R[k]
          BY <4>1, <2>4
        <4>3. k >= i
          BY <4>1, <4>2, <2>5
        <4>4. Before(s[i], s[p])
          <5>1. Sorted(s)
            BY <2>2
          <5> QED
            BY <5>1, <4>1, <3>3, <2>3 DEF Sorted
        <4>5. k < i
          BY <4>2, <4>4, <3>3, <1>5
        <4> QED
          BY <4>3, <4>5
      <3>6. i <= Len(s) /\ \A k \in 1 .. i : s[k] = R[k]
        BY <3>3, <3>5, <2>3, <2>4
      <3> HIDE DEF Placed
      <3>7. Ready(i, s)
        BY <2>2, <3>2, <3>6
      <3> HIDE DEF Ready
      <3> QED
        BY <3>1, <3>7
    <2> QED
      BY <2>6, <2>7
  <1>10. n \in T
    <2> HIDE DEF T
    <2>1. 0 .. n \subseteq T
      BY <1>8, <1>9, UpTo
    <2> QED
      BY <2>1
  <1>11. PICK s \in Seq(Object) : s = f[n]
    BY <1>7
  <1>12. /\ Sorted(s) /\ n <= Len(s) /\ \A k \in 1 .. n : s[k] = R[k]
         /\ \A j \in DOMAIN s : \E k \in 1 .. n : R[k] = s[j]
    BY <1>10, <1>11 DEF Range
  <1>13. Len(s) = n
    <2> SUFFICES ASSUME n < Len(s)  PROVE FALSE
      BY <1>12
    <2>1. n + 1 \in DOMAIN s /\ \A k \in 1 .. n : k \in DOMAIN s
      OBVIOUS
    <2>2. PICK k \in 1 .. n : s[k] = s[n + 1]
      BY <2>1, <1>12
    <2>3. k = n + 1
      BY <2>1, <2>2, <1>12, SortedIsInjective
    <2> QED
      BY <2>3
  <1>14. s = R
    BY <1>3, <1>12, <1>13
  <1> QED
    BY <1>2, <1>7, <1>11, <1>14

\* Without regard to order: a list of distinct ids grows by one.
LEMMA InjectiveAppend ==
    ASSUME NEW list \in Seq(Object), IsInjective(list), NEW o \in Object, o \notin Range(list)
    PROVE  IsInjective(Append(list, o)) /\ Range(Append(list, o)) = Range(list) \union {o}
  <1>1. PICK n \in Nat : n = Len(list) /\ DOMAIN list = 1 .. n
    OBVIOUS
  <1>2. PICK longer : longer = Append(list, o)
    OBVIOUS
  <1>3. /\ DOMAIN longer = 1 .. n + 1 /\ longer[n + 1] = o
        /\ \A i \in 1 .. n : longer[i] = list[i]
    BY <1>1, <1>2, AppendProperties
  <1>4. \A i \in 1 .. n : list[i] # o
    BY <1>1 DEF Range
  <1>5. \A i, j \in 1 .. n + 1 : longer[i] = longer[j] => i = j
    BY <1>1, <1>3, <1>4 DEF IsInjective
  <1>6. Range(longer) = Range(list) \union {o}
    BY <1>1, <1>3 DEF Range
  <1> QED
    BY <1>2, <1>3, <1>5, <1>6 DEF IsInjective

LEMMA InjectiveInsert ==
    ASSUME NEW list \in Seq(Object), IsInjective(list), NEW o \in Object, o \notin Range(list),
           NEW i \in Nat \ {0}
    PROVE  IsInjective(Insert(list, i, o)) /\ Range(Insert(list, i, o)) = Range(list) \union {o}
  <1>1. PICK n \in Nat : n = Len(list) /\ DOMAIN list = 1 .. n
    OBVIOUS
  <1>2. PICK p \in 1 .. n + 1 : Insert(list, i, o) = InsertAt(list, p, o)
    <2>1. PICK p : p = IF i <= n THEN i ELSE n + 1
      OBVIOUS
    <2>2. p \in 1 .. n + 1
      BY <2>1
    <2> QED
      BY <2>1, <2>2, <1>1 DEF Insert
  <1>3. PICK longer : longer = InsertAt(list, p, o)
    OBVIOUS
  <1>4. /\ longer \in Seq(Object) /\ Len(longer) = n + 1
        /\ \A j \in 1 .. n + 1 : longer[j] = IF j < p THEN list[j]
                                             ELSE IF j = p THEN o ELSE list[j - 1]
    <2>1. p \in 1 .. Len(list) + 1
      BY <1>1
    <2>2. /\ InsertAt(list, p, o) \in Seq(Object)
          /\ Len(InsertAt(list, p, o)) = Len(list) + 1
          /\ \A j \in 1 .. Len(list) + 1 :
                  InsertAt(list, p, o)[j] = IF j < p THEN list[j]
                                            ELSE IF j = p THEN o ELSE list[j - 1]
      BY <2>1, InsertAtProperties
    <2> QED
      BY <2>2, <1>1, <1>3
  <1>5. DOMAIN longer = 1 .. n + 1
    BY <1>4
  <1>6. \A j \in 1 .. n + 1 :
            \/ j < p /\ j \in 1 .. n /\ longer[j] = list[j]
            \/ j = p /\ longer[j] = o
            \/ j > p /\ j - 1 \in 1 .. n /\ longer[j] = list[j - 1]
    BY <1>4
  <1>7. \A k \in 1 .. n : list[k] # o
    BY <1>1 DEF Range
  <1>8. \A k, m \in 1 .. n : list[k] = list[m] => k = m
    BY <1>1 DEF IsInjective
  <1>9. ASSUME NEW j \in 1 .. n + 1, NEW k \in 1 .. n + 1, longer[j] = longer[k]
        PROVE  j = k
    <2>1. CASE j = p
      BY <2>1, <1>6, <1>7, <1>9
    <2>2. CASE j < p
      <3>1. j \in 1 .. n /\ longer[j] = list[j]
        BY <2>2, <1>6
      <3>2. CASE k < p
        <4>1. k \in 1 .. n /\ longer[k] = list[k]
          BY <3>2, <1>6
        <4> QED
          BY <3>1, <4>1, <1>8, <1>9
      <3>3. CASE k = p
        BY <3>1, <3>3, <1>6, <1>7, <1>9
      <3>4. CASE k > p
        <4>1. k - 1 \in 1 .. n /\ longer[k] = list[k - 1]
          BY <3>4, <1>6
        <4>2. j = k - 1
          BY <3>1, <4>1, <1>8, <1>9
        <4> QED
          BY <2>2, <3>4, <4>2
      <3> QED
        BY <3>2, <3>3, <3>4
    <2>3. CASE j > p
      <3>1. j - 1 \in 1 .. n /\ longer[j] = list[j - 1]
        BY <2>3, <1>6
      <3>2. CASE k < p
        <4>1. k \in 1 .. n /\ longer[k] = list[k]
          BY <3>2, <1>6
        <4>2. j - 1 = k
          BY <3>1, <4>1, <1>8, <1>9
        <4> QED
          BY <2>3, <3>2, <4>2
      <3>3. CASE k = p
        BY <3>1, <3>3, <1>6, <1>7, <1>9
      <3>4. CASE k > p
        <4>1. k - 1 \in 1 .. n /\ longer[k] = list[k - 1]
          BY <3>4, <1>6
        <4>2. j - 1 = k - 1
          BY <3>1, <4>1, <1>8, <1>9
        <4> QED
          BY <4>2
      <3> QED
        BY <3>2, <3>3, <3>4
    <2> QED
      BY <2>1, <2>2, <2>3
  <1>10. Range(longer) = Range(list) \union {o}
    <2>0. \A k \in 1 .. n : list[k] \in Range(list)
      BY <1>1 DEF Range
    <2>1. \A j \in 1 .. n + 1 : longer[j] \in Range(list) \union {o}
      BY <2>0, <1>6
    <2>2. o \in Range(longer)
      <3>1. longer[p] = o
        BY <1>6
      <3> QED
        BY <3>1, <1>5 DEF Range
    <2>3. ASSUME NEW k \in 1 .. n  PROVE list[k] \in Range(longer)
      <3>1. CASE k < p
        <4>1. k \in 1 .. n + 1 /\ longer[k] = list[k]
          BY <3>1, <1>6
        <4> QED
          BY <4>1, <1>5 DEF Range
      <3>2. CASE ~(k < p)
        <4>1. k + 1 \in 1 .. n + 1 /\ k + 1 > p /\ k + 1 - 1 = k
          BY <3>2
        <4>2. longer[k + 1] = list[k]
          BY <4>1, <1>6
        <4> QED
          BY <4>1, <4>2, <1>5 DEF Range
      <3> QED
        BY <3>1, <3>2
    <2> QED
      BY <2>1, <2>2, <2>3, <1>1, <1>5 DEF Range
  <1> QED
    BY <1>2, <1>3, <1>5, <1>9, <1>10 DEF IsInjective

LEMMA KeptRange ==
    ASSUME view \in Seq(Object), IsInjective(view)
    PROVE  IsInjective(Kept) /\ Range(Kept) = KeptIds
  <1>1. PICK n \in Nat : n = Len(view) /\ DOMAIN view = 1 .. n
    OBVIOUS
  <1>2. PICK f \in [0 .. n -> Seq(Object)] :
              /\ Kept = f[n]
              /\ f[0] = <<>>
              /\ \A i \in 1 .. n :
                     f[i] = IF view[i] \in Removed THEN f[i - 1]
                                                   ELSE Append(f[i - 1], view[i])
    BY <1>1, KeptSteps
  <1> DEFINE Upto(i, o) == \E k \in 1 .. i : view[k] = o /\ view[k] \notin Removed
             Ready(i, s) == IsInjective(s) /\ \A o : o \in Range(s) <=> Upto(i, o)
             T == {i \in 0 .. n : Ready(i, f[i])}
  <1>3. 0 \in T
    <2>1. Ready(0, <<>>)
      BY DEF IsInjective, Range
    <2> HIDE DEF Ready
    <2> QED
      BY <2>1, <1>2
  <1>4. ASSUME NEW i \in 1 .. n, i - 1 \in T  PROVE i \in T
    <2>1. PICK s \in Seq(Object) : s = f[i - 1]
      BY <1>2
    <2>2. Ready(i - 1, s)
      BY <2>1, <1>4
    <2>0. \A k : k \in 1 .. i <=> k \in 1 .. i - 1 \/ k = i
      OBVIOUS
    <2>3. CASE view[i] \in Removed
      <3>1. \A o : Upto(i, o) <=> Upto(i - 1, o)
        BY <2>0, <2>3, Zenon
      <3>2. f[i] = s
        BY <2>1, <2>3, <1>2
      <3> HIDE DEF Upto
      <3>3. Ready(i, s)
        BY <2>2, <3>1
      <3> HIDE DEF Ready
      <3> QED
        BY <3>2, <3>3
    <2>4. CASE view[i] \notin Removed
      <3>1. \A o : Upto(i, o) <=> Upto(i - 1, o) \/ o = view[i]
        BY <2>0, <2>4, Zenon
      <3>2. f[i] = Append(s, view[i]) /\ view[i] \in Object
        <4>1. view[i] \in Object
          BY <1>1
        <4>2. f[i] = Append(f[i - 1], view[i])
          BY <2>4, <1>2
        <4> QED
          BY <4>1, <4>2, <2>1
      <3>3. view[i] \notin Range(s)
        <4>1. ~Upto(i - 1, view[i])
          <5> SUFFICES ASSUME NEW k \in 1 .. i - 1, view[k] = view[i]  PROVE FALSE
            OBVIOUS
          <5>1. k \in DOMAIN view /\ i \in DOMAIN view /\ k # i
            BY <1>1
          <5> QED
            BY <5>1 DEF IsInjective
        <4> HIDE DEF Upto
        <4> QED
          BY <4>1, <2>2
      <3> HIDE DEF Upto
      <3>4. PICK q : q = Append(s, view[i])
        OBVIOUS
      <3>5. IsInjective(q) /\ Range(q) = Range(s) \union {view[i]}
        BY <2>2, <3>2, <3>3, <3>4, InjectiveAppend
      <3>6. Ready(i, q)
        BY <2>2, <3>1, <3>5
      <3>7. f[i] = q /\ i \in 0 .. n
        BY <3>2, <3>4
      <3> HIDE DEF Ready
      <3> QED
        BY <3>6, <3>7
    <2> QED
      BY <2>3, <2>4
  <1>5. n \in T
    <2> HIDE DEF T
    <2>1. 0 .. n \subseteq T
      BY <1>3, <1>4, UpTo
    <2> QED
      BY <2>1
  <1>6. PICK s \in Seq(Object) : s = f[n]
    BY <1>2
  <1>7. IsInjective(s) /\ \A o : o \in Range(s) <=> Upto(n, o)
    BY <1>5, <1>6
  <1>8. \A o : Upto(n, o) <=> o \in KeptIds
    BY <1>1 DEF KeptIds, Range
  <1> HIDE DEF Upto
  <1>9. Range(s) = KeptIds
    BY <1>7, <1>8
  <1> QED
    BY <1>2, <1>6, <1>7, <1>9

\* Wherever the items end up: every kept id and every added one that the query
\* finds is in the list once, and nothing else is.
LEMMA SplicedRange ==
    ASSUME Types, view \in Seq(Object), IsInjective(view), KeptIds \cap AddedIds = {}
    PROVE  /\ IsInjective(Spliced)
           /\ Range(Spliced) = KeptIds \union (AddedIds \cap Matches)
  <1>1. Kept \in Seq(Object) /\ IsInjective(Kept) /\ Range(Kept) = KeptIds
    BY KeptType, KeptRange
  <1>2. PICK R \in Seq(Object) : R = Result
    BY ResultSorted
  <1>3. PICK n \in Nat : n = Len(R) /\ DOMAIN R = 1 .. n
    OBVIOUS
  <1>4. Sorted(R) /\ Range(R) = Matches
    BY <1>2, ResultSorted
  <1>5. \A k \in 1 .. n : R[k] \in Object
    BY <1>3
  <1>6. \A k, m \in 1 .. n : R[k] = R[m] => k = m
    BY <1>3, <1>4, SortedIsInjective
  <1>7. \A k \in 1 .. n : k \in AddedAt <=> R[k] \in AddedIds
    BY <1>2, <1>3 DEF AddedAt, AddedIds, Named
  <1>8. PICK f \in [0 .. n -> Seq(Object)] :
              /\ Spliced = f[n]
              /\ f[0] = Kept
              /\ \A i \in 1 .. n :
                     f[i] = IF i \in AddedAt THEN Insert(f[i - 1], i, R[i]) ELSE f[i - 1]
    BY <1>1, <1>2, <1>3, SplicedSteps
  <1> DEFINE Put(i, o) == o \in KeptIds \/ \E k \in 1 .. i : R[k] = o /\ k \in AddedAt
             Ready(i, s) == IsInjective(s) /\ \A o : o \in Range(s) <=> Put(i, o)
             T == {i \in 0 .. n : Ready(i, f[i])}
  <1>9. 0 \in T
    <2>1. Ready(0, Kept)
      BY <1>1
    <2> HIDE DEF Ready
    <2> QED
      BY <2>1, <1>8
  <1>10. ASSUME NEW i \in 1 .. n, i - 1 \in T  PROVE i \in T
    <2>1. PICK s \in Seq(Object) : s = f[i - 1]
      BY <1>8
    <2>2. Ready(i - 1, s)
      BY <2>1, <1>10
    <2>0. \A k : k \in 1 .. i <=> k \in 1 .. i - 1 \/ k = i
      OBVIOUS
    <2>3. CASE i \notin AddedAt
      <3>1. \A o : Put(i, o) <=> Put(i - 1, o)
        BY <2>0, <2>3, Zenon
      <3>2. f[i] = s
        BY <2>1, <2>3, <1>8
      <3> HIDE DEF Put
      <3>3. Ready(i, s)
        BY <2>2, <3>1
      <3> HIDE DEF Ready
      <3> QED
        BY <3>2, <3>3
    <2>4. CASE i \in AddedAt
      <3>1. \A o : Put(i, o) <=> Put(i - 1, o) \/ o = R[i]
        BY <2>0, <2>4, Zenon
      <3>2. f[i] = Insert(s, i, R[i]) /\ R[i] \in Object
        BY <2>1, <2>4, <1>5, <1>8
      <3>3. R[i] \notin Range(s)
        <4>1. R[i] \notin KeptIds
          BY <2>4, <1>7
        <4>2. ASSUME NEW k \in 1 .. i - 1, R[k] = R[i]  PROVE FALSE
          <5>1. k \in 1 .. n /\ k # i
            OBVIOUS
          <5> QED
            BY <5>1, <4>2, <1>6
        <4>3. ~Put(i - 1, R[i])
          BY <4>1, <4>2
        <4> HIDE DEF Put
        <4> QED
          BY <4>3, <2>2
      <3> HIDE DEF Put
      <3>4. PICK q : q = Insert(s, i, R[i])
        OBVIOUS
      <3>5. IsInjective(q) /\ Range(q) = Range(s) \union {R[i]}
        <4>1. i \in Nat \ {0} /\ IsInjective(s)
          BY <2>2
        <4> QED
          BY <4>1, <3>2, <3>3, <3>4, InjectiveInsert
      <3>6. Ready(i, q)
        BY <2>2, <3>1, <3>5
      <3>7. f[i] = q /\ i \in 0 .. n
        BY <3>2, <3>4
      <3> HIDE DEF Ready
      <3> QED
        BY <3>6, <3>7
    <2> QED
      BY <2>3, <2>4
  <1>11. n \in T
    <2> HIDE DEF T
    <2>1. 0 .. n \subseteq T
      BY <1>9, <1>10, UpTo
    <2> QED
      BY <2>1
  <1>12. PICK s \in Seq(Object) : s = f[n]
    BY <1>8
  <1>13. IsInjective(s) /\ \A o : o \in Range(s) <=> Put(n, o)
    BY <1>11, <1>12
  <1>14. \A o : Put(n, o) <=> o \in KeptIds \union (AddedIds \cap Matches)
    BY <1>3, <1>4, <1>7 DEF Range
  <1> HIDE DEF Put
  <1>15. Range(s) = KeptIds \union (AddedIds \cap Matches)
    BY <1>13, <1>14
  <1> QED
    BY <1>8, <1>12, <1>13, <1>15

-----------------------------------------------------------------------------
(* The viewer's steps. *)

\* The result itself is faithful at the store's state.
LEMMA ResultFaithful ==
    Types /\ LogTruth /\ cursor = State /\ view = Result /\ Told = Matches => Faithful
  <1> SUFFICES ASSUME Types, LogTruth, cursor = State, view = Result, Told = Matches
               PROVE  Faithful
    OBVIOUS
  <1>1. /\ DOMAIN view = 1 .. Len(view) /\ Sorted(view) /\ Range(view) = Matches
    BY ResultSorted
  <1>2. Matches \subseteq Object /\ Matches \subseteq Live
    BY DEF Matches, Live
  <1>3. PICK n \in Nat : n = Len(log) /\ DOMAIN log = 1 .. n /\ cursor = n
    BY DEF Types, State
  <1>4. Since(cursor) = {}
    BY <1>3 DEF Since
  <1>5. ASSUME NEW o \in Matches
        PROVE  \E i \in DOMAIN log : i <= cursor /\ CreatedAt(i, o)
    <2>1. o \in Minted
      BY <1>2, <1>5 DEF LogTruth, Live
    <2>2. PICK i \in DOMAIN log : log[i].kind[o] = "created"
      BY <2>1 DEF Minted
    <2> QED
      BY <2>2, <1>3 DEF CreatedAt
  <1>6. \A i, j \in DOMAIN view : i < j => Before(view[i], view[j])
    BY <1>1 DEF Sorted
  <1>7. IsInjective(view)
    <2>1. view \in Seq(Object)
      BY ResultSorted
    <2> QED
      BY <2>1, <1>1, SortedIsInjective DEF IsInjective
  <1>8. Holding
    BY <1>1, <1>2, <1>5, <1>7 DEF Holding
  <1> QED
    BY <1>6, <1>8 DEF Faithful, Result

LEMMA ResultFaithfulNext ==
    Types' /\ LogTruth' /\ cursor' = State' /\ view' = Result' /\ Told' = Matches'
        => Faithful'
  <1>1. (Types /\ LogTruth /\ cursor = State /\ view = Result /\ Told = Matches
            => Faithful)'
    BY ResultFaithful, PTL
  <1> QED
    BY <1>1

\* A list stays right while it, its state and the store stay.
LEMMA ViewStays ==
    ASSUME UNCHANGED <<storeVars, cursor, view, veiled>>
    PROVE  (Holding => Holding') /\ (Faithful => Faithful')
  <1>1. UNCHANGED <<backend, objects, log, cursor, view, veiled>>
    BY DEF storeVars
  <1>2. Ordered(Told)' = Ordered(Told) /\ Told' = Told /\ State' = State
    BY <1>1 DEF Ordered, Told, Live, Before, State
  <1>3. \A o : Untouched(o)' <=> Untouched(o)
    BY <1>1 DEF Untouched, Since
  <1>4. \A i, o : CreatedAt(i, o)' <=> CreatedAt(i, o)
    BY <1>1 DEF CreatedAt
  <1>5. \A a, b : Before(a, b)' <=> Before(a, b)
    BY <1>1 DEF Before
  <1>6. Range(view') = Range(view) /\ (IsInjective(view') <=> IsInjective(view))
    BY <1>1
  <1>7. Holding => Holding'
    BY <1>1, <1>2, <1>3, <1>4, <1>6 DEF Holding
  <1> QED
    BY <1>1, <1>2, <1>3, <1>5, <1>7 DEF Faithful

\* A list whose members keep their order stays the one in order.
LEMMA OrderedStays ==
    ASSUME Told' = Told, Told \subseteq Object,
           \A a, b \in Object : Before(a, b)' <=> Before(a, b)
    PROVE  Ordered(Told)' = Ordered(Told)
  <1> DEFINE n == Cardinality(Told)
             Now(list) == /\ list \in [1 .. n -> Told]
                          /\ \A i, j \in DOMAIN list : i < j => Before(list[i], list[j])
             Then(list) == /\ list \in [1 .. n -> Told]
                           /\ \A i, j \in DOMAIN list : i < j => Before(list[i], list[j])'
  <1>1. \A list : Now(list) <=> Then(list)
    OBVIOUS
  <1>2. (CHOOSE list : Now(list)) = (CHOOSE list : Then(list))
    <2> HIDE DEF Now, Then
    <2> QED
      BY <1>1, Zenon
  <1>3. /\ Ordered(Told) = (CHOOSE list : Now(list))
        /\ Ordered(Told)' = (CHOOSE list : Then(list))
    BY DEF Ordered
  <1> QED
    BY <1>2, <1>3

\* What the log does not speak of leaves the list as right as it was: ranks
\* stay, and the client's idea of what is in view with them.
LEMMA ViewUnlogged ==
    ASSUME Types, Unlogged, UNCHANGED clientVars
    PROVE  (Holding => Holding') /\ (Faithful => Faithful')
  <1>1. /\ log' = log
        /\ \A o \in Object :
               \/ objects[o] = NoObject /\ objects'[o] = NoObject
               \/ /\ objects[o] # NoObject /\ objects'[o] # NoObject
                  /\ objects'[o].rank = objects[o].rank
    BY UnloggedShape
  <1>2. UNCHANGED <<cursor, view, veiled>>
    BY DEF clientVars
  <1>3. Told' = Told /\ Told \subseteq Object
    BY <1>1, <1>2 DEF Told, Live
  <1>4. \A a, b \in Object : Before(a, b)' <=> Before(a, b)
    BY <1>1 DEF Before
  <1>5. Ordered(Told)' = Ordered(Told)
    BY <1>3, <1>4, OrderedStays
  <1>6. /\ \A o : Untouched(o)' <=> Untouched(o)
        /\ \A i, o : CreatedAt(i, o)' <=> CreatedAt(i, o)
        /\ State' = State
    BY <1>1, <1>2 DEF Untouched, Since, CreatedAt, State
  <1>7. Range(view') = Range(view) /\ (IsInjective(view') <=> IsInjective(view))
    BY <1>2
  <1>8. Holding => Holding'
    BY <1>1, <1>2, <1>3, <1>6, <1>7 DEF Holding
  <1>9. ASSUME Faithful, NEW i \in DOMAIN view, NEW j \in DOMAIN view, i < j,
               Untouched(view[i])', Untouched(view[j])'
        PROVE  Before(view[i], view[j])'
    <2>1. PICK a, b : a = view[i] /\ b = view[j] /\ view' = view
      BY <1>2
    <2>2. a \in Object /\ b \in Object
      BY <2>1, <1>9 DEF Faithful, Holding, Range
    <2>3. Untouched(a) /\ Untouched(b)
      BY <2>1, <1>6, <1>9
    <2>4. Before(a, b)
      BY <2>1, <2>3, <1>9 DEF Faithful
    <2> QED
      BY <2>1, <2>2, <2>4, <1>4
  <1> QED
    BY <1>2, <1>3, <1>5, <1>6, <1>8, <1>9 DEF Faithful

\* A commit touches the objects it changes, and no others.
LEMMA ViewWrite ==
    ASSUME IInv, Write, UNCHANGED clientVars, cursor \in 0 .. Len(log), Holding
    PROVE  Holding' /\ (Faithful => Faithful')
  <1>1. Types /\ LogTruth
    BY DEF IInv
  <1>2. PICK e \in Entry : log' = Append(log, e) /\ \A o \in Object : Recorded(o, e)
    BY <1>1, WriteShape
  <1>3. PICK n \in Nat : n = Len(log) /\ DOMAIN log = 1 .. n
    BY <1>1 DEF Types
  <1>4. /\ Len(log') = n + 1 /\ DOMAIN log' = 1 .. n + 1 /\ log'[n + 1] = e
        /\ \A i \in 1 .. n : log'[i] = log[i]
    BY <1>1, <1>2, <1>3 DEF Types
  <1>5. cursor' = cursor /\ view' = view /\ veiled' = veiled /\ cursor \in 0 .. n
    BY <1>3 DEF clientVars
  <1>6. ASSUME NEW o \in Object, Untouched(o)'
        PROVE  Untouched(o) /\ objects'[o] = objects[o]
    <2>1. \A i \in DOMAIN log' : i > cursor => log'[i].kind[o] = "none"
      BY <1>5, <1>6 DEF Untouched, Since
    <2>2. e.kind[o] = "none"
      BY <2>1, <1>4, <1>5
    <2>3. \A i \in DOMAIN log : i > cursor => log[i].kind[o] = "none"
      BY <2>1, <1>3, <1>4
    <2>4. Recorded(o, e)
      BY <1>2
    <2> QED
      BY <2>2, <2>3, <2>4 DEF Recorded, Untouched, Since
  <1>7. \A i, o : CreatedAt(i, o) => CreatedAt(i, o)' /\ i \in DOMAIN log'
    BY <1>3, <1>4 DEF CreatedAt
  <1>8. \A o \in Object : objects'[o] = objects[o] => (o \in Told' <=> o \in Told)
    BY <1>5 DEF Told, Live
  <1>9. \A a, b : objects'[a] = objects[a] /\ objects'[b] = objects[b]
                     => (Before(a, b)' <=> Before(a, b))
    BY DEF Before
  <1>10. State' # cursor'
    BY <1>4, <1>5 DEF State
  <1>11. Range(view') = Range(view) /\ Range(view) \subseteq Object
    BY <1>5 DEF Holding
  <1>12. \A i \in DOMAIN view : view[i] \in Object
    BY <1>11 DEF Range
  <1>13. \A o \in Range(view) : \E i \in DOMAIN log' : i <= cursor /\ CreatedAt(i, o)'
    BY <1>7 DEF Holding
  <1>14. \A o \in Object : Untouched(o)' => (o \in Range(view) <=> o \in Told')
    BY <1>6, <1>8 DEF Holding
  <1>15. ASSUME Faithful, NEW i \in DOMAIN view, NEW j \in DOMAIN view, i < j,
                Untouched(view[i])', Untouched(view[j])'
         PROVE  Before(view[i], view[j])'
    <2>1. /\ Untouched(view[i]) /\ objects'[view[i]] = objects[view[i]]
          /\ Untouched(view[j]) /\ objects'[view[j]] = objects[view[j]]
      <3>1. PICK a \in Object, b \in Object : a = view'[i] /\ b = view'[j] /\ view' = view
        BY <1>5, <1>12
      <3>2. Untouched(a)' /\ Untouched(b)'
        BY <3>1, <1>15
      <3> QED
        BY <3>1, <3>2, <1>6
    <2>2. Before(view[i], view[j])
      BY <2>1, <1>15 DEF Faithful
    <2> QED
      BY <2>1, <2>2, <1>5 DEF Before
  <1>16. Holding'
    <2>1. IsInjective(view')
      BY <1>5 DEF Holding
    <2> QED
      BY <2>1, <1>5, <1>11, <1>13, <1>14 DEF Holding
  <1> QED
    BY <1>5, <1>10, <1>15, <1>16 DEF Faithful

\* No entry after the answer's newState names the object.
Settled(o) == \A i \in Since(answer.newState) : log[i].kind[o] = "none"

\* The query's members, with the visibility that the answer in hand tells: of
\* what it names that of now, of the rest that of before.
ToldNow == {o \in Live \ VeiledNow : objects[o].rank > 0}

LEMMA ToldEither ==
    /\ \A o \in AddedIds : o \in ToldNow <=> o \in Matches
    /\ \A o : o \notin AddedIds => (o \in ToldNow <=> o \in Told)
    /\ Drift(VeiledNow) = {} => ToldNow = Matches
  BY DEF ToldNow, Told, Matches, VeiledNow, Named, AddedIds, Drift

\* An answer applied to a list that holds what it should: an id that is kept
\* is named neither by the answer nor by an entry it covers, and of the ids
\* that no later entry names, those the query finds are kept or added.
LEMMA AnswerSound ==
    ASSUME IInv, Viewing, phase = "read", Holding, cursor # NoState
    PROVE  /\ KeptIds \cap AddedIds = {}
           /\ \A o \in KeptIds : Settled(o) => Untouched(o)
           /\ \A o \in Object : Settled(o) =>
                  (o \in KeptIds \union (AddedIds \cap Matches) <=> o \in ToldNow)
  <1>1. /\ Types /\ LogTruth /\ AnswerCovers /\ AnswerFresh
        /\ view \in Seq(Object) /\ ignore = FALSE
    BY DEF IInv, Viewing
  <1>2. PICK n \in Nat : n = Len(log) /\ DOMAIN log = 1 .. n /\ cursor \in 0 .. n
    BY <1>1 DEF Types, Viewing
  <1>3. ASSUME NEW o \in Object, Settled(o), ~Untouched(o)
        PROVE  \/ o \in AddedIds \union answer.destroyed
               \/ \E i, j \in Since(cursor) : CreatedAt(i, o) /\ DestroyedAt(j, o)
    <2>1. PICK i \in Since(cursor) : log[i].kind[o] # "none"
      BY <1>3 DEF Untouched
    <2>2. i \in DOMAIN log /\ cursor < i /\ i <= answer.newState
      <3>1. answer.newState \in Int
        BY <1>1 DEF AnswerCovers
      <3> QED
        BY <2>1, <3>1, <1>2, <1>3 DEF Since, Settled
    <2>3. log[i].kind[o] \in Kind
      <3>1. log[i] \in Entry
        BY <2>2, <1>1 DEF Types
      <3> QED
        BY <3>1 DEF Entry
    <2>4. Concerns(i, o)
      BY <2>1, <2>3, <1>1 DEF Concerns, Kind
    <2>5. Accounted(o)
      BY <2>2, <2>4, <1>1 DEF AnswerCovers
    <2> QED
      BY <2>5 DEF Accounted, AddedIds
  <1>4. ASSUME NEW o \in Range(view), NEW i \in Since(cursor), CreatedAt(i, o)
        PROVE  FALSE
    <2>1. PICK j \in DOMAIN log : j <= cursor /\ CreatedAt(j, o)
      BY <1>4 DEF Holding
    <2>2. i \in DOMAIN log /\ i > cursor
      BY DEF Since
    <2>3. o \in Object
      BY DEF Holding
    <2>4. i = j
      BY <2>1, <2>2, <2>3, <1>1, <1>4 DEF LogTruth
    <2> QED
      BY <2>1, <2>2, <2>4, <1>2
  <1>5. ASSUME NEW o \in Object, \E i : DestroyedAt(i, o)
        PROVE  o \notin Told
    <2>1. objects[o] = NoObject
      BY <1>1, <1>5 DEF LogTruth, DestroyedAt
    <2> QED
      BY <2>1 DEF Told, Live
  <1>6. \A o \in answer.destroyed \cap Object : o \notin Told
    BY <1>1, <1>5 DEF AnswerCovers
  <1>7. \A o \in KeptIds : /\ o \in Range(view) /\ o \in Object
                          /\ o \notin answer.destroyed \union answer.updated
                          /\ o \notin AddedIds
    <2> SUFFICES ASSUME NEW o \in KeptIds
                 PROVE  /\ o \in Range(view) /\ o \in Object
                        /\ o \notin answer.destroyed \union answer.updated
                        /\ o \notin AddedIds
      OBVIOUS
    <2>1. o \in Range(view) /\ o \in Object /\ o \notin answer.destroyed \union answer.updated
      BY DEF KeptIds, Removed, Holding
    <2> QED
      BY <2>1, <1>1, <1>4 DEF AddedIds, AnswerFresh
  <1>8. \A o \in KeptIds : Settled(o) => Untouched(o)
    BY <1>3, <1>4, <1>7
  <1>9. ASSUME NEW o \in KeptIds, Settled(o)
        PROVE  o \in Told
    BY <1>7, <1>8, <1>9 DEF Holding
  <1>10. ASSUME NEW o \in Told, Settled(o), o \notin AddedIds
        PROVE  o \in KeptIds
    <2>1. o \in Object
      BY DEF Told, Live
    <2>2. o \notin answer.destroyed
      BY <2>1, <1>6
    <2>3. Untouched(o)
      BY <2>1, <2>2, <1>3, <1>5, <1>10
    <2>4. o \in Range(view)
      BY <2>1, <2>3 DEF Holding
    <2> QED
      BY <2>2, <2>4, <1>10 DEF KeptIds, Removed, AddedIds
  <1> QED
    BY <1>7, <1>8, <1>9, <1>10, ToldEither

\* An answer that covers all there is, applied to a list that has its order:
\* the client has the query's result.
LEMMA AnswerExact ==
    ASSUME IInv, Viewing, phase = "read", Faithful, cursor # NoState,
           answer.newState = Len(log), Drift(VeiledNow) = {}
    PROVE  Spliced = Result
  <1>1. Types /\ view \in Seq(Object) /\ Holding
    BY DEF IInv, Viewing, Faithful
  <1>2. \A o : Settled(o)
    <2>1. Since(answer.newState) = {}
      BY <1>1 DEF Since, Types
    <2> QED
      BY <2>1 DEF Settled
  <1>3. KeptIds \subseteq Object /\ Matches \subseteq Object
    BY DEF KeptIds, Faithful, Holding, Matches, Live
  <1>4. KeptIds = Matches \ AddedIds
    BY <1>1, <1>2, <1>3, AnswerSound, ToldEither
  <1>5. \A i, j \in DOMAIN view : i < j /\ view[i] \notin Removed /\ view[j] \notin Removed
               => Before(view[i], view[j])
    <2>1. \A o \in KeptIds : Untouched(o)
      BY <1>1, <1>2, AnswerSound
    <2>2. \A i \in DOMAIN view : view[i] \notin Removed => Untouched(view[i])
      BY <2>1 DEF KeptIds, Range
    <2> QED
      BY <2>2 DEF Faithful
  <1> QED
    BY <1>1, <1>4, <1>5, SplicedExact

\* Any answer, applied to a list that holds what it should at its state,
\* leaves one that does at the answer's.
LEMMA AnswerHolds ==
    ASSUME IInv, Viewing, phase = "read", cursor # NoState,
           UNCHANGED storeVars, view' = Spliced, cursor' = answer.newState,
           veiled' = VeiledNow
    PROVE  Holding'
  <1>1. /\ Types /\ Holding /\ AnswerCovers
        /\ view \in Seq(Object) /\ IsInjective(view)
    BY DEF IInv, Viewing, Holding
  <1>2. PICK n \in Nat : n = Len(log) /\ DOMAIN log = 1 .. n /\ cursor \in 0 .. n
    BY <1>1 DEF Types, Viewing
  <1>3. /\ KeptIds \cap AddedIds = {}
        /\ \A o \in Object : Settled(o) =>
               (o \in KeptIds \union (AddedIds \cap Matches) <=> o \in ToldNow)
    BY <1>1, AnswerSound
  <1>4. /\ IsInjective(Spliced)
        /\ Range(Spliced) = KeptIds \union (AddedIds \cap Matches)
    BY <1>1, <1>3, SplicedRange
  <1>5. PICK list : list = Spliced
    OBVIOUS
  <1>6. view' = list /\ log' = log /\ objects' = objects
    BY <1>5 DEF storeVars
  <1>7. Range(list) \subseteq Object
    <2>1. KeptIds \subseteq Object /\ Matches \subseteq Object
      BY <1>1 DEF KeptIds, Holding, Matches, Live
    <2> QED
      BY <2>1, <1>4, <1>5
  <1>8. ASSUME NEW o \in Range(list)
        PROVE  \E i \in DOMAIN log : i <= answer.newState /\ CreatedAt(i, o)
    <2>1. CASE o \in KeptIds
      <3>1. PICK i \in DOMAIN log : i <= cursor /\ CreatedAt(i, o)
        BY <2>1, <1>1 DEF KeptIds, Holding
      <3>2. i \in Int /\ cursor \in Int /\ answer.newState \in Int /\ cursor <= answer.newState
        BY <1>1, <1>2 DEF AnswerCovers
      <3> QED
        BY <3>1, <3>2
    <2>2. CASE o \in AddedIds
      <3>1. o \in Object
        BY <1>7, <1>8
      <3> QED
        BY <2>2, <3>1, <1>1 DEF AddedIds, AnswerCovers
    <2> QED
      BY <2>1, <2>2, <1>4, <1>5, <1>8
  <1>9. \A o \in Object : Settled(o) => (o \in Range(list) <=> o \in ToldNow)
    BY <1>3, <1>4, <1>5
  <1>10. \A o : Untouched(o)' <=> Settled(o)
    BY <1>6 DEF Untouched, Settled, Since
  <1>11. \A i, o : CreatedAt(i, o)' <=> CreatedAt(i, o)
    BY <1>6 DEF CreatedAt
  <1>12. Told' = ToldNow
    BY <1>6 DEF Told, ToldNow, Live
  <1>13. Range(view') = Range(list) /\ IsInjective(view')
    BY <1>4, <1>5, <1>6
  <1> QED
    BY <1>6, <1>7, <1>8, <1>9, <1>10, <1>11, <1>12, <1>13 DEF Holding

LEMMA ViewInit == Init => ViewInv
  <1> SUFFICES ASSUME Init, role = "viewer"  PROVE Viewing
    BY DEF ViewInv
  <1>1. cursor = NoState /\ phase = "idle" /\ ignore = FALSE /\ view = <<>>
    BY DEF Init
  <1>2. view \in Seq(Object)
    BY <1>1
  <1> QED
    BY <1>1, <1>2 DEF Init, Viewing

\* The steps of a viewer, one by one.
LEMMA ViewNext == IInv /\ IInv' /\ ViewInv /\ [Next]_vars => ViewInv'
  <1> SUFFICES ASSUME IInv, IInv', ViewInv, [Next]_vars, role' = "viewer"
               PROVE  Viewing'
    BY DEF ViewInv
  <1>1. role = "viewer" /\ ~Follow
    BY DEF View, Query, BeginQueryChanges, RefuseQueryChanges, EndQueryChanges,
           FailQueryChanges, CannotCalculate, Follow, AskChanges, RefuseChanges,
           AskAllChanges, Fetch, Read, clientVars, vars, Next
  <1>2. Viewing /\ Types /\ LogTruth /\ Types' /\ LogTruth'
    BY <1>1 DEF ViewInv, IInv
  <1>3. Len(log) \in Nat /\ -1 \notin 0 .. Len(log)
    BY <1>2 DEF Types
  <1>4. Types' /\ LogTruth' /\ cursor' = State' /\ view' = Result' /\ Told' = Matches'
            => Faithful'
    BY ResultFaithfulNext
  <1>5. ASSUME UNCHANGED <<storeVars, ignore, cursor, view, veiled, torn>>,
               phase' = "read" \/ phase' = phase,
               phase' = "read" => /\ cursor # NoState /\ AnswerCovers' /\ AnswerFresh'
                                  /\ answer'.seen \in Nat /\ answer'.seen <= Len(log)
        PROVE  Viewing'
    <2>1. /\ cursor' # NoState => Holding'
          /\ cursor' # NoState /\ torn' = {} => Faithful'
      BY <1>2, <1>5, ViewStays DEF Viewing
    <2>2. /\ ignore' = FALSE /\ backend' \in {"mail", "card", "message"}
          /\ phase' \in {"idle", "read"}
          /\ cursor' \in {NoState} \union 0 .. Len(log')
          /\ view' \in Seq(Object) /\ Len(log') = Len(log) /\ cursor' = cursor
      BY <1>2, <1>5 DEF Viewing, storeVars
    <2> QED
      BY <2>1, <2>2, <1>5 DEF Viewing
  <1>6. CASE Write /\ UNCHANGED clientVars
    <2>1. PICK e \in Entry : log' = Append(log, e) /\ backend' = backend
      BY <1>2, <1>6, WriteShape
    <2>2. Len(log') = Len(log) + 1
      BY <2>1, <1>2 DEF Types
    <2>3. /\ ignore' = ignore /\ phase' = phase /\ answer' = answer
          /\ cursor' = cursor /\ view' = view /\ torn' = torn
      BY <1>6 DEF clientVars
    <2>4. cursor # NoState => cursor \in 0 .. Len(log)
      BY <1>2 DEF Viewing
    <2>5. phase = "read" => AnswerCovers' /\ AnswerFresh'
      <3> SUFFICES ASSUME phase = "read"  PROVE AnswerCovers' /\ AnswerFresh'
        OBVIOUS
      <3>1. cursor \in 0 .. Len(log) /\ AnswerCovers /\ AnswerFresh
        BY <2>4, <1>2 DEF Viewing
      <3> QED
        BY <3>1, <2>1, <2>3, <1>2, AnswerStays
    <2>6. /\ cursor # NoState => Holding'
          /\ cursor # NoState /\ torn = {} => Faithful'
      BY <2>4, <1>2, <1>6, ViewWrite DEF Viewing
    <2>7. cursor' \in {NoState} \union 0 .. Len(log')
      BY <2>2, <2>3, <2>4, <1>3
    <2>8. phase = "read" => answer.seen \in Nat /\ answer.seen <= Len(log')
      BY <2>2, <1>2, <1>3 DEF Viewing
    <2>9. /\ ignore' = FALSE /\ backend' \in {"mail", "card", "message"}
          /\ phase' \in {"idle", "read"} /\ view' \in Seq(Object)
          /\ phase' = "read" => cursor' # NoState
      BY <2>1, <2>3, <1>2 DEF Viewing
    <2> QED
      BY <2>3, <2>5, <2>6, <2>7, <2>8, <2>9 DEF Viewing
  <1>13. CASE Unlogged /\ UNCHANGED clientVars
    <2>1. log' = log /\ backend' = backend
      BY <1>2, <1>13, UnloggedShape
    <2>2. UNCHANGED <<ignore, phase, answer, cursor, view, torn>>
      BY <1>13 DEF clientVars
    <2>3. phase = "read" => AnswerCovers' /\ AnswerFresh'
      <3>1. phase = "read" => AnswerCovers /\ AnswerFresh
        BY <1>2 DEF Viewing
      <3> QED
        BY <3>1, <2>1, <2>2 DEF AnswerCovers, AnswerFresh, Accounted, CreatedAt,
                                DestroyedAt, Concerns, Since
    <2>4. (Holding => Holding') /\ (Faithful => Faithful')
      BY <1>2, <1>13, ViewUnlogged
    <2> QED
      BY <2>1, <2>2, <2>3, <2>4, <1>2 DEF Viewing
  <1>7. CASE Query
    <2>1. /\ UNCHANGED <<storeVars, ignore, phase>> /\ cursor = NoState
          /\ view' = Result /\ cursor' = State /\ log' = log /\ backend' = backend
          /\ veiled' = hidden
      BY <1>7 DEF Query, storeVars
    <2>2. /\ Result' = Result /\ State' = State /\ State = Len(log)
          /\ Told' = Matches'
      BY <2>1 DEF Result, Ordered, Matches, Told, Live, Before, State, storeVars
    <2>3. Faithful' /\ Holding'
      BY <2>1, <2>2, <1>2, <1>4 DEF Faithful
    <2>4. view' \in Seq(Object)
      BY <2>1, <1>2, ResultSorted
    <2>5. cursor' \in 0 .. Len(log')
      BY <2>1, <2>2, <1>3
    <2>6. phase' = "idle"
      BY <2>1, <1>2 DEF Viewing
    <2> QED
      BY <2>1, <2>3, <2>4, <2>5, <2>6, <1>2 DEF Viewing
  <1>8. ASSUME NEW limit \in MaxChanges, BeginQueryChanges(limit)  PROVE Viewing'
    <2>1. LogLimit(limit) \in Nat
      BY SyncAssumption DEF MaxChanges, NoLimit, LogLimit
    <2>2. /\ UNCHANGED <<storeVars, ignore, cursor, view, veiled, torn>> /\ phase' = "read"
          /\ cursor # NoState
          /\ answer' = [GetChanges(cursor, LogLimit(limit), FALSE) EXCEPT !.limit = limit]
      BY <1>8 DEF BeginQueryChanges
    <2>3. cursor \in 0 .. Len(log) /\ ignore = FALSE
      BY <2>2, <1>2 DEF Viewing
    <2>4. PICK g : g = GetChanges(cursor, LogLimit(limit), ignore)
      OBVIOUS
    <2>5. /\ answer'.created = g.created /\ answer'.updated = g.updated
          /\ answer'.destroyed = g.destroyed /\ answer'.newState = g.newState
          /\ answer'.seen = State
      BY <2>2, <2>3, <2>4 DEF GetChanges
    <2>6. AnswerCovers' /\ AnswerFresh'
      BY <2>1, <2>2, <2>3, <2>4, <2>5, <1>2, GetChangesCovers
    <2>7. answer'.seen \in Nat /\ answer'.seen <= Len(log)
      BY <2>5, <1>3 DEF State
    <2>8. phase' = "read"
      BY <2>2
    <2>9. UNCHANGED <<storeVars, ignore, cursor, view, veiled, torn>> /\ cursor # NoState
      BY <2>2
    <2> QED
      BY <2>6, <2>7, <2>8, <2>9, <1>5
  <1>9. CASE CannotCalculate
    <2>1. /\ cursor' = NoState /\ view' = <<>> /\ phase' = "idle"
          /\ ignore' = ignore /\ backend' = backend
      BY <1>9 DEF CannotCalculate, storeVars
    <2>2. view' \in Seq(Object)
      BY <2>1
    <2> QED
      BY <2>1, <2>2, <1>2 DEF Viewing
  <1>10. CASE EndQueryChanges
    <2>1. /\ UNCHANGED <<storeVars, ignore>> /\ log' = log /\ backend' = backend
          /\ phase = "read" /\ phase' = "idle"
          /\ view' = Spliced /\ cursor' = answer.newState
          /\ torn' = torn \union (IF State # answer.seen THEN {"commit"} ELSE {})
                         \union (IF answer.newState # answer.seen THEN {"page"} ELSE {})
                         \union (IF Drift(VeiledNow) # {} THEN {"view"} ELSE {})
          /\ veiled' = VeiledNow
      BY <1>10 DEF EndQueryChanges, storeVars
    <2>2. /\ cursor \in 0 .. Len(log) /\ cursor # NoState /\ AnswerCovers
          /\ view \in Seq(Object)
      BY <2>1, <1>2 DEF Viewing
    <2>3. cursor' \in 0 .. Len(log')
      BY <2>1, <2>2, <1>3 DEF AnswerCovers
    <2>4. view' \in Seq(Object)
      BY <2>1, <2>2, <1>2, SplicedType
    <2>5. ASSUME torn' = {}  PROVE Faithful'
      <3>1. /\ torn = {} /\ State = answer.seen /\ answer.newState = answer.seen
            /\ Drift(VeiledNow) = {}
        BY <2>1, <2>5
      <3>2. Faithful /\ answer.newState = Len(log)
        BY <3>1, <2>2, <1>2 DEF Viewing, State
      <3>3. view' = Result
        BY <3>1, <3>2, <2>1, <2>2, <1>2, AnswerExact
      <3>4. Result' = Result /\ State' = State /\ cursor' = State
        BY <3>2, <2>1 DEF Result, Ordered, Matches, Live, Before, State, storeVars
      <3>5. Told' = ToldNow /\ Matches' = Matches
        BY <2>1 DEF Told, ToldNow, Matches, Live, storeVars
      <3>6. Told' = Matches'
        BY <3>1, <3>5, ToldEither
      <3> QED
        BY <3>3, <3>4, <3>6, <1>2, <1>4
    <2>6. Holding'
      BY <2>1, <2>2, <1>2, AnswerHolds
    <2> QED
      BY <2>1, <2>3, <2>4, <2>5, <2>6, <1>2 DEF Viewing
  <1>11. CASE UNCHANGED vars
    <2>1. UNCHANGED <<storeVars, ignore, phase, answer, cursor, view, veiled, torn>>
      BY <1>11 DEF vars, clientVars
    <2>2. phase = "read" => AnswerCovers' /\ AnswerFresh'
      <3>1. phase = "read" => AnswerCovers /\ AnswerFresh
        BY <1>2 DEF Viewing
      <3> QED
        BY <3>1, <2>1 DEF AnswerCovers, AnswerFresh, Accounted, CreatedAt, DestroyedAt,
                          Concerns, Since, storeVars
    <2> QED
      BY <2>1, <2>2, <1>2, <1>5 DEF Viewing
  <1>12. CASE View
    BY <1>7, <1>8, <1>9, <1>10, <1>12
       DEF View, RefuseQueryChanges, FailQueryChanges
  <1> QED
    BY <1>1, <1>6, <1>11, <1>12, <1>13 DEF Next

\* A viewer that is up to date has every object its query finds, and no object
\* twice, whatever its answers suffered from: pages cut at maxChanges and
\* commits between the two reads of queryChanges may misplace an item, but
\* what an answer leaves out is named again by one of those that follow.
LEMMA ViewComplete ==
    ASSUME IInv, ViewInv, role = "viewer", cursor = State
    PROVE  Range(view) = Told /\ IsInjective(view)
  <1>1. Len(log) \in Nat /\ DOMAIN log = 1 .. Len(log)
    BY DEF IInv, Types
  <1>2. Holding
    BY <1>1 DEF ViewInv, Viewing, NoState, State
  <1>3. Since(cursor) = {}
    BY <1>1 DEF Since, State
  <1>4. \A o : Untouched(o)
    BY <1>3 DEF Untouched
  <1>5. Range(view) \subseteq Object /\ Told \subseteq Object
    BY <1>2 DEF Holding, Told, Live
  <1> QED
    BY <1>2, <1>4, <1>5 DEF Holding

\* A viewer that is up to date shows what the query finds, once each, but for
\* Messages that a change of membership hid or revealed untold; and it shows
\* the query's result, in its order, whenever each answer it applied was whole:
\* none cut at maxChanges, none with a commit between its two reads, none
\* placed by a membership it was not told of.  However many objects are
\* created, updated and destroyed in between, removing every id that was
\* destroyed or updated and inserting every created or updated one at its
\* index of now leaves exactly the list that a new query would return.
THEOREM ViewFollows == Spec => []ViewExact
  <1>1. IInv /\ ViewInv => ViewExact
    <2>1. Types => (ViewInv /\ role = "viewer" /\ cursor = State /\ torn = {}
                        => view = Ordered(Told))
      BY DEF Types, ViewInv, Viewing, NoState, Faithful, State
    <2>2. Drift(veiled) = {} => Told = Matches
      BY DEF Drift, Told, Matches
    <2> QED
      BY <2>1, <2>2, ViewComplete DEF IInv, ViewExact, Result
  <1> QED
    BY <1>1, IInvInit, IInvNext, ViewInit, ViewNext, PTL DEF Spec

-----------------------------------------------------------------------------
(* The types of a viewer's states. *)

ViewerTypes == role = "viewer" => TypeOK

LEMMA ViewerTypesInit == Init => ViewerTypes
  <1> SUFFICES ASSUME Init, role = "viewer"  PROVE TypeOK
    BY DEF ViewerTypes
  <1> USE DEF Init, StoreInit
  <1>1. log \in Seq(Entry) /\ Len(log) = 0 /\ view \in Seq(Object)
    OBVIOUS
  <1>2. answer \in [created : SUBSET Object, updated : SUBSET Object,
                    destroyed : SUBSET Object, newState : 0 .. State,
                    limit : Limits \union {NoLimit}, seen : 0 .. State]
    BY <1>1 DEF NoAnswer, State
  <1> QED
    BY <1>1, <1>2, ChangeLogAssumption DEF TypeOK, State

LEMMA ViewerTypesNext ==
    IInv /\ IInv' /\ Veils' /\ ViewInv /\ ViewInv' /\ ViewerTypes /\ [Next]_vars
        => ViewerTypes'
  <1> SUFFICES ASSUME IInv, IInv', Veils', ViewInv, ViewInv', ViewerTypes, [Next]_vars,
                      role' = "viewer"
               PROVE  TypeOK'
    BY DEF ViewerTypes
  <1>1. role = "viewer" /\ ~Follow
    BY DEF View, Query, BeginQueryChanges, RefuseQueryChanges, EndQueryChanges,
           FailQueryChanges, CannotCalculate, Follow, AskChanges, RefuseChanges,
           AskAllChanges, Fetch, Read, clientVars, vars, Next
  <1>2. TypeOK /\ Types /\ Types' /\ Viewing /\ Viewing'
    BY <1>1 DEF ViewerTypes, ViewInv, IInv
  <1> DEFINE Answers(n) == [created : SUBSET Object, updated : SUBSET Object,
                            destroyed : SUBSET Object, newState : 0 .. n,
                            limit : Limits \union {NoLimit}, seen : 0 .. n]
  <1>3. Len(log) \in Nat /\ Len(log) <= MaxWrites /\ answer \in Answers(Len(log))
        /\ torn \subseteq {"commit", "page", "view"}
    BY <1>2 DEF Types, TypeOK, State
  <1>4. ASSUME Len(log') <= MaxWrites, answer' \in Answers(Len(log')),
               torn' \subseteq {"commit", "page", "view"}
        PROVE  TypeOK'
    <2> HIDE DEF Answers
    <2>1. /\ backend' \in Backend /\ objects' \in [Object -> Content \union {NoObject}]
          /\ log' \in Seq(Entry) /\ replica' \in [Object -> Content \union {NoObject}]
      BY <1>2 DEF Types
    <2>2. /\ ignore' \in BOOLEAN /\ phase' \in {"idle", "read", "refused"}
          /\ cursor' \in {NoState} \union 0 .. State' /\ view' \in Seq(Object)
      BY <1>2 DEF Viewing, State
    <2>3. answer' \in Answers(State')
      BY <1>4 DEF State
    <2> QED
      BY <1>4, <2>1, <2>2, <2>3 DEF TypeOK, Answers, Veils
  <1>5. NoAnswer \in Answers(Len(log))
    BY <1>3 DEF NoAnswer
  <1>6. CASE Write /\ UNCHANGED clientVars
    <2>1. PICK e \in Entry : log' = Append(log, e)
      BY <1>2, <1>6, WriteShape DEF ViewInv, IInv
    <2>2. Len(log') = Len(log) + 1
      BY <2>1, <1>2 DEF Types
    <2>3. Len(log) < MaxWrites
      BY <1>6 DEF Write, CreateObject, UpdateObject, DestroyObject, UpdateMany,
                  DestroyMany, CreateUnder, Commit, State
    <2>4. Len(log') <= MaxWrites
      BY <2>2, <2>3, <1>3, ChangeLogAssumption
    <2>5. answer' \in Answers(Len(log')) /\ torn' = torn
      BY <1>3, <1>6, <2>2 DEF clientVars
    <2> HIDE DEF Answers
    <2> QED
      BY <2>4, <2>5, <1>3, <1>4
  <1>14. CASE Unlogged /\ UNCHANGED clientVars
    <2>1. log' = log /\ answer' = answer /\ torn' = torn
      BY <1>2, <1>14, UnloggedShape DEF clientVars
    <2> HIDE DEF Answers
    <2> QED
      BY <2>1, <1>3, <1>4
  <1>7. ASSUME NEW limit \in MaxChanges, BeginQueryChanges(limit)  PROVE TypeOK'
    <2>1. limit \in Limits \union {NoLimit} /\ LogLimit(limit) \in Limits \union {NoLimit}
      BY DEF MaxChanges, LogLimit
    <2>2. /\ log' = log /\ torn' = torn /\ cursor # NoState
          /\ answer' = [GetChanges(cursor, LogLimit(limit), FALSE) EXCEPT !.limit = limit]
      BY <1>7 DEF BeginQueryChanges, storeVars
    <2>3. cursor \in 0 .. Len(log)
      BY <2>2, <1>2 DEF Viewing
    <2>4. PICK g : g = GetChanges(cursor, LogLimit(limit), FALSE)
      OBVIOUS
    <2>5. g \in Answers(Len(log))
      BY <2>1, <2>3, <2>4, <1>2, AnswerType DEF State
    <2>6. [g EXCEPT !.limit = limit] \in Answers(Len(log))
      BY <2>1, <2>5
    <2> HIDE DEF Answers
    <2> QED
      BY <2>2, <2>4, <2>6, <1>3, <1>4
  <1>8. ASSUME log' = log, answer' = answer \/ answer' = NoAnswer,
               torn' \subseteq {"commit", "page", "view"}
        PROVE  TypeOK'
    <2> HIDE DEF Answers
    <2> QED
      BY <1>3, <1>4, <1>5, <1>8
  <1>9. CASE Query
    BY <1>8, <1>9 DEF Query, storeVars
  <1>10. CASE CannotCalculate
    BY <1>3, <1>8, <1>10 DEF CannotCalculate, storeVars
  <1>11. CASE EndQueryChanges
    BY <1>3, <1>8, <1>11 DEF EndQueryChanges, storeVars
  <1>12. CASE UNCHANGED vars
    BY <1>3, <1>8, <1>12 DEF vars, clientVars, storeVars
  <1>13. CASE View
    BY <1>7, <1>9, <1>10, <1>11, <1>13 DEF View, RefuseQueryChanges, FailQueryChanges
  <1> QED
    BY <1>1, <1>6, <1>12, <1>13, <1>14 DEF Next

RoleKnown == role \in {"follower", "viewer"}

LEMMA RoleInit == Init => RoleKnown
  BY DEF Init, RoleKnown

LEMMA RoleNext == RoleKnown /\ [Next]_vars => RoleKnown'
  BY DEF View, Query, BeginQueryChanges, RefuseQueryChanges, EndQueryChanges,
         FailQueryChanges, CannotCalculate, Follow, AskChanges, RefuseChanges,
         AskAllChanges, Fetch, Read, clientVars, vars, Next, RoleKnown

\* Every state has its types, the viewer's too: whatever its answers suffered
\* from, its list is one of ids, and neither its state nor that of the answer
\* in hand is ahead of the store's.
THEOREM Typing == Spec => []TypeOK
  <1>1. FollowerTypes /\ ViewerTypes /\ RoleKnown => TypeOK
    BY DEF FollowerTypes, ViewerTypes, RoleKnown
  <1> QED
    BY <1>1, IInvInit, IInvNext, ViewInit, ViewNext, FollowerTypesInit, FollowerTypesNext,
       ViewerTypesInit, ViewerTypesNext, VeilsInit, VeilsNext, RoleInit, RoleNext, PTL
       DEF Spec

-----------------------------------------------------------------------------
(* Paging gets on. *)

\* An answer that is not refused ends after the state it was asked for, when
\* there is anything after it: an empty page means that there is no entry to
\* answer with, and then the answer ends at the store's state.
LEMMA PageAdvances ==
    ASSUME Types, cursor \in 0 .. Len(log), cursor < Len(log),
           NEW limit \in Nat, NEW ign, ~TooManyChanges(cursor, limit, ign)
    PROVE  GetChanges(cursor, limit, ign).newState > cursor
  <1> DEFINE page == Page(cursor, limit, ign)
             n == NewState(cursor, limit, ign)
  <1>1. n = GetChanges(cursor, limit, ign).newState
    BY DEF GetChanges
  <1>2. n \in Int /\ \A i \in page : i \in DOMAIN log /\ cursor < i /\ i <= n
    <2> HIDE DEF page, n
    <2> QED
      BY PageComplete DEF page, n
  <1>3. cursor \in Int /\ Len(log) \in Int /\ DOMAIN log = 1 .. Len(log)
    BY DEF Types
  <1>4. CASE page # {}
    <2>1. PICK i \in page : cursor < i /\ i <= n /\ i \in DOMAIN log
      BY <1>2, <1>4
    <2> HIDE DEF page, n
    <2> QED
      BY <2>1, <1>1, <1>2, <1>3
  <1>5. CASE page = {}
    <2>1. Relevant(cursor, ign) = {} /\ ~HasMore(cursor, limit, ign)
      BY <1>5 DEF TooManyChanges, HasMore
    <2>2. Len(log) \in Since(cursor)
      BY <1>3 DEF Since
    <2>3. backend # "mail"
      BY <2>1, <2>2 DEF Relevant
    <2>4. n = Len(log)
      BY <2>1, <2>3 DEF NewState, State
    <2> HIDE DEF n
    <2> QED
      BY <2>4, <1>1, <1>3
  <1> QED
    BY <1>4, <1>5

\* Without a limit nothing is refused.
LEMMA NoLimitFits == \A s, ign : ~TooManyChanges(s, NoLimit, ign)
  BY DEF TooManyChanges, HasMore, Page

LEMMA AdvancesNext ==
    IInv /\ ViewInv /\ RoleKnown /\ [Next]_vars
        => (phase # "read" /\ phase' = "read" /\ cursor < State => answer'.newState > cursor)
  <1> SUFFICES ASSUME IInv, ViewInv, RoleKnown, [Next]_vars,
                      phase # "read", phase' = "read", cursor < State
               PROVE  answer'.newState > cursor
    OBVIOUS
  <1>1. Types /\ cursor < Len(log)
    BY DEF IInv, State
  <1>2. ASSUME cursor \in 0 .. Len(log), NEW limit \in Nat,
               ~TooManyChanges(cursor, limit, ignore), Read(limit)
        PROVE  answer'.newState > cursor
    BY <1>1, <1>2, PageAdvances DEF Read
  <1>3. \A limit \in MaxChanges : limit \in Nat /\ LogLimit(limit) \in Nat
    BY SyncAssumption DEF MaxChanges, NoLimit, LogLimit
  <1>4. CASE role = "follower"
    <2>1. cursor \in 0 .. Len(log)
      BY <1>4 DEF IInv, Following
    <2>2. ASSUME NEW limit \in MaxChanges, AskChanges(limit)
          PROVE  answer'.newState > cursor
      BY <2>1, <2>2, <1>2, <1>3 DEF AskChanges
    <2>3. CASE AskAllChanges
      <3>1. NoLimit \in Nat /\ Read(NoLimit)
        BY <2>3 DEF AskAllChanges, NoLimit
      <3> QED
        BY <2>1, <3>1, <1>2, NoLimitFits
    <2> QED
      BY <2>2, <2>3, <1>4
         DEF Next, Follow, View, RefuseChanges, Fetch, Query, BeginQueryChanges,
             RefuseQueryChanges, EndQueryChanges, FailQueryChanges, vars, clientVars
  <1>5. CASE role = "viewer"
    <2>1. ASSUME NEW limit \in MaxChanges, BeginQueryChanges(limit)
          PROVE  answer'.newState > cursor
      <3>1. cursor \in 0 .. Len(log)
        BY <2>1, <1>5 DEF BeginQueryChanges, ViewInv, Viewing
      <3>2. PICK n : n = LogLimit(limit) /\ n \in Nat
        BY <1>3
      <3>3. /\ ~TooManyChanges(cursor, n, FALSE)
            /\ answer' = [GetChanges(cursor, n, FALSE) EXCEPT !.limit = limit]
        BY <2>1, <3>2 DEF BeginQueryChanges
      <3>4. answer'.newState = GetChanges(cursor, n, FALSE).newState
        BY <3>3 DEF GetChanges
      <3> QED
        BY <3>1, <3>2, <3>3, <3>4, <1>1, PageAdvances
    <2> QED
      BY <2>1, <1>5
         DEF Next, Follow, View, AskChanges, RefuseChanges, AskAllChanges, Fetch, Query,
             RefuseQueryChanges, EndQueryChanges, FailQueryChanges, CannotCalculate,
             vars, clientVars
  <1> QED
    BY <1>4, <1>5 DEF RoleKnown

\* Every answer gets its client on when the store is ahead of it, however the
\* store counts and whatever its page skips: none sends its client back to ask
\* from the same state.
THEOREM Advances == Spec => PagesAdvance
  <1>1. IInv /\ ViewInv /\ RoleKnown /\ [Next]_vars
            => [phase # "read" /\ phase' = "read" /\ cursor < State
                   => answer'.newState > cursor]_vars
    BY AdvancesNext
  <1> QED
    BY <1>1, IInvInit, IInvNext, ViewInit, ViewNext, RoleInit, RoleNext, PTL
       DEF Spec, PagesAdvance

=============================================================================
