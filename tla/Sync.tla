-------------------------------- MODULE Sync --------------------------------
(***************************************************************************)
(* A client that keeps up with a store of ChangeLog while others write.    *)
(* A "follower" keeps a copy of the objects with Foo/changes and Foo/get,  *)
(* from the state "0" on; a "viewer" keeps the list of a query with        *)
(* Foo/query and Foo/queryChanges.  The server answers each call with one  *)
(* or more acquisitions of the store's lock, and other requests commit     *)
(* between them.  The client is not part of the repository: it does with   *)
(* an answer what RFC 8620 tells it to.                                    *)
(***************************************************************************)
EXTENDS ChangeLog, SequencesExt

CONSTANTS
    Limits      \* the values of maxChanges a client sends

NoState == -1      \* the viewer has no result and must query

\* Ids have an order, which breaks the ties of a query's sort.
ASSUME SyncAssumption ==
    /\ Limits \subseteq (Nat \ {0})
    /\ Object \subseteq Int

VARIABLES
    role,       \* "follower" or "viewer"; never changes
    ignore,     \* ignoreMetadataOnlyChanges; never changes
    phase,      \* where the client's call is
    answer,     \* what the server has read of the log for the call
    cursor,     \* the state the client has
    replica,    \* follower: id -> object
    view,       \* viewer: the ids of the query, in order
    veiled,     \* the ids hidden when an answer last told the client of them
    torn        \* viewer: what its answers suffered from: a commit between
                \* their two reads, a page cut at maxChanges, or a list whose
                \* indices count objects by a membership it was not told of

clientVars == <<role, ignore, phase, answer, cursor, replica, view, veiled, torn>>
vars == <<storeVars, clientVars>>

NoAnswer == [created |-> {}, updated |-> {}, destroyed |-> {}, newState |-> 0,
             limit |-> NoLimit, seen |-> 0]

Init ==
    /\ StoreInit
    /\ role \in {"follower", "viewer"}
    /\ ignore \in BOOLEAN
    /\ role = "viewer" => ~ignore /\ backend \in {"mail", "card", "message"}
    /\ phase = "idle"
    /\ answer = NoAnswer
    /\ cursor = IF role = "follower" THEN 0 ELSE NoState
    /\ replica = [o \in Object |-> NoObject]
    /\ view = <<>>
    /\ veiled = {}
    /\ torn = {}

-----------------------------------------------------------------------------
\* The follower.

\* get_changes, the first half of a sync step.
Read(limit) ==
    /\ answer' = GetChanges(cursor, limit, ignore)
    /\ phase' = "read"
    /\ UNCHANGED <<storeVars, role, ignore, cursor, replica, view, veiled, torn>>

AskChanges(limit) ==
    /\ role = "follower" /\ phase = "idle"
    /\ ~TooManyChanges(cursor, limit, ignore)
    /\ Read(limit)

\* cannotCalculateChanges: no state between the cursor and the next commit.
RefuseChanges(limit) ==
    /\ role = "follower" /\ phase = "idle"
    /\ TooManyChanges(cursor, limit, ignore)
    /\ phase' = "refused"
    /\ UNCHANGED <<storeVars, role, ignore, answer, cursor, replica, view, veiled, torn>>

\* The client asks again without maxChanges.
AskAllChanges ==
    /\ role = "follower" /\ phase = "refused"
    /\ Read(NoLimit)

\* What the answer in hand gives the objects of, as far as they can be seen.
Named == answer.created \union answer.updated
VeiledNow == (veiled \ Named) \union (hidden \intersect Named)

\* Message/get answers notFound for a Message of a Chat that is out of view.
Shown(o) == IF o \in hidden THEN NoObject ELSE objects[o]

\* Foo/get of what was created or updated, and the client's copy with it: an
\* id that is no longer there is left out of the copy.
Fetch ==
    /\ role = "follower" /\ phase = "read"
    /\ replica' = [o \in Object |->
                      IF o \in Named THEN Shown(o)
                      ELSE IF o \in answer.destroyed THEN NoObject
                      ELSE replica[o]]
    /\ veiled' = VeiledNow
    /\ cursor' = answer.newState
    /\ answer' = NoAnswer
    /\ phase' = "idle"
    /\ UNCHANGED <<storeVars, role, ignore, view, torn>>

-----------------------------------------------------------------------------
\* The viewer.

\* The query: the objects in view of a positive rank, by rank, then by id.
Before(a, b) ==
    \/ objects[a].rank < objects[b].rank
    \/ objects[a].rank = objects[b].rank /\ a < b

Ordered(S) ==
    CHOOSE list \in [1 .. Cardinality(S) -> S] :
        \A i, j \in DOMAIN list : i < j => Before(list[i], list[j])

Matches == {o \in Live \ hidden : objects[o].rank > 0}
Result == Ordered(Matches)

\* query_objects: the ids and the state in one lock acquisition.
Query ==
    /\ role = "viewer" /\ cursor = NoState
    /\ view' = Result
    /\ cursor' = State
    /\ veiled' = hidden
    /\ torn' = {}
    /\ UNCHANGED <<storeVars, role, ignore, phase, answer, replica>>

\* The mail store reads the whole log and applies the limit to its answer; the
\* others hand the limit to get_changes.
LogLimit(limit) == IF backend = "mail" THEN NoLimit ELSE limit

\* query_changes, the first lock acquisition.
BeginQueryChanges(limit) ==
    /\ role = "viewer" /\ phase = "idle" /\ cursor # NoState
    /\ ~TooManyChanges(cursor, LogLimit(limit), FALSE)
    /\ answer' = [GetChanges(cursor, LogLimit(limit), FALSE) EXCEPT !.limit = limit]
    /\ phase' = "read"
    /\ UNCHANGED <<storeVars, role, ignore, cursor, replica, view, veiled, torn>>

\* The client is told to query again.
CannotCalculate ==
    /\ cursor' = NoState
    /\ view' = <<>>
    /\ answer' = NoAnswer
    /\ phase' = "idle"
    /\ UNCHANGED <<storeVars, role, ignore, replica, veiled, torn>>

RefuseQueryChanges(limit) ==
    /\ role = "viewer" /\ phase = "idle" /\ cursor # NoState
    /\ TooManyChanges(cursor, LogLimit(limit), FALSE)
    /\ CannotCalculate

\* Mutant of Removed: an updated id stays where it was.
RemovedBug == answer.destroyed

\* Every destroyed or updated id is removed; those of the created and updated
\* that the query finds now are added where it finds them.
Removed == answer.destroyed \union answer.updated

AddedAt == {i \in DOMAIN Result : Result[i] \in Named}

TooManyItems ==
    /\ backend = "mail" /\ answer.limit # NoLimit
    /\ Cardinality(Removed) + Cardinality(AddedAt) > answer.limit

\* What the client makes of it: removals first, then insertions, lowest index
\* first; an index past the end appends.
Kept ==
    LET kept[i \in 0 .. Len(view)] ==
            IF i = 0 THEN <<>>
            ELSE IF view[i] \in Removed THEN kept[i - 1]
            ELSE Append(kept[i - 1], view[i])
    IN  kept[Len(view)]

Insert(list, i, o) == InsertAt(list, IF i <= Len(list) THEN i ELSE Len(list) + 1, o)

Spliced ==
    LET spliced[i \in 0 .. Len(Result)] ==
            IF i = 0 THEN Kept
            ELSE IF i \in AddedAt THEN Insert(spliced[i - 1], i, Result[i])
            ELSE spliced[i - 1]
    IN  spliced[Len(Result)]

\* The objects whose Chat came into view or went out of it since the client
\* was last told of them, if v is what it was told was hidden: no answer names
\* them, but the query of now counts them as it finds them.
Drift(v) == {o \in Live : (o \in hidden) # (o \in v)}

\* query_changes, the second lock acquisition: the query of now.
EndQueryChanges ==
    /\ role = "viewer" /\ phase = "read"
    /\ ~TooManyItems
    /\ view' = Spliced
    /\ cursor' = answer.newState
    /\ veiled' = VeiledNow
    /\ torn' = torn \union (IF State # answer.seen THEN {"commit"} ELSE {})
                    \union (IF answer.newState # answer.seen THEN {"page"} ELSE {})
                    \union (IF Drift(VeiledNow) # {} THEN {"view"} ELSE {})
    /\ answer' = NoAnswer
    /\ phase' = "idle"
    /\ UNCHANGED <<storeVars, role, ignore, replica>>

FailQueryChanges ==
    /\ role = "viewer" /\ phase = "read"
    /\ TooManyItems
    /\ CannotCalculate

-----------------------------------------------------------------------------
MaxChanges == Limits \union {NoLimit}

Follow ==
    \/ \E limit \in MaxChanges : AskChanges(limit)
    \/ \E limit \in MaxChanges : RefuseChanges(limit)
    \/ AskAllChanges
    \/ Fetch

View ==
    \/ Query
    \/ \E limit \in MaxChanges : BeginQueryChanges(limit)
    \/ \E limit \in MaxChanges : RefuseQueryChanges(limit)
    \/ EndQueryChanges
    \/ FailQueryChanges

Next ==
    \/ (Write \/ Unlogged) /\ UNCHANGED clientVars
    \/ Follow
    \/ View

\* A client that keeps asking, and a server that answers every call.
Fairness == WF_vars(Follow) /\ WF_vars(View)

Spec == Init /\ [][Next]_vars /\ Fairness

-----------------------------------------------------------------------------
TypeOK ==
    /\ backend \in Backend
    /\ objects \in [Object -> Content \union {NoObject}]
    /\ log \in Seq(Entry) /\ Len(log) <= MaxWrites
    /\ role \in {"follower", "viewer"} /\ ignore \in BOOLEAN
    /\ phase \in {"idle", "read", "refused"}
    /\ answer \in [created : SUBSET Object, updated : SUBSET Object,
                   destroyed : SUBSET Object, newState : 0 .. State,
                   limit : Limits \union {NoLimit}, seen : 0 .. State]
    /\ cursor \in {NoState} \union 0 .. State
    /\ replica \in [Object -> Content \union {NoObject}]
    /\ view \in Seq(Object) /\ torn \subseteq {"commit", "page", "view"}
    /\ hidden \subseteq Dependent /\ veiled \subseteq Dependent
    /\ backend # "message" => hidden \union veiled = {}

\* Entry i changed something of o that the follower asked to hear of.
Concerns(i, o) ==
    \/ log[i].kind[o] \in {"created", "destroyed"}
    \/ log[i].kind[o] = "updated" /\ (ignore => "rank" \in log[i].props)

\* What the log speaks of: not the counts, and with ignoreMetadataOnlyChanges
\* not the metadata.
Same(a, b) ==
    \/ a = b
    \/ /\ a # NoObject /\ b # NoObject
       /\ a.rank = b.rank /\ (ignore \/ a.meta = b.meta)

\* The object with the visibility that an answer last told the client.
AsTold(o) == IF o \in veiled THEN NoObject ELSE objects[o]

\* A follower at a state has every object as the store has it, apart from
\* those changed since: nothing is lost between two pages, to an id that an
\* answer leaves out, or to a write that falls between the read of the log and
\* the read of the objects.  It is left with a count that another type's write
\* changed, and with a Message that a change of membership hid or revealed,
\* until the object itself is named again.
ReplicaCurrent ==
    role = "follower" /\ phase = "idle" =>
        \A o \in Object :
            \/ \E i \in Since(cursor) : Concerns(i, o)
            \/ Same(replica[o], AsTold(o))

\* "If the data changes, this string MUST change" (backend.rs of the mail
\* server): a follower that has the store's state has its objects, the counts
\* included.
CountsCurrent ==
    role = "follower" /\ phase = "idle" /\ cursor = State =>
        \A o \in Live : replica[o].tally = objects[o].tally

\* An answer names no more ids than the client asked for.
PageWithinLimit ==
    role = "follower" /\ answer.limit # NoLimit =>
        Cardinality(answer.created \union answer.updated \union answer.destroyed)
            <= answer.limit

\* The query's members, with the visibility the viewer was last told.
Told == {o \in Live \ veiled : objects[o].rank > 0}

\* Whatever its answers suffered from, a viewer that is up to date has every
\* object the query finds, once, and no other, but for the Messages that a
\* change of membership hid or revealed without naming them: an item can be
\* misplaced by a page cut at maxChanges or by a commit between the two reads,
\* but never be lost or kept for ever, as what falls between the reads is named
\* again.  If no answer was cut, overtaken or placed by another membership, and
\* none is outstanding, the items have the query's order, too.
ViewExact ==
    role = "viewer" /\ phase = "idle" /\ cursor = State =>
        /\ Range(view) = Told /\ IsInjective(view)
        /\ torn = {} /\ Drift(veiled) = {} => view = Result

\* The order of one that gets its changes in pages: an index is the "position
\* in the result list after applying all changes" (AddedItem).
PagesExact ==
    role = "viewer" /\ phase = "idle" /\ cursor = State =>
        (torn \subseteq {"page"} /\ Drift(veiled) = {} => view = Result)

\* A page that is not refused gets the client on whenever there is more: no
\* answer leaves it at the state it asked from, as one of skipped entries, or
\* of entries whose ids all came and went, might.
PagesAdvance ==
    [][phase # "read" /\ phase' = "read" /\ cursor < State
          => answer'.newState > cursor]_vars

\* Once the writes stop, the follower's copy becomes the store's objects, but
\* for what the log does not speak of: paging always gets on, whatever the
\* limits.
Converges ==
    role = "follower" ~> \A o \in Object : Same(replica[o], AsTold(o))
=============================================================================
