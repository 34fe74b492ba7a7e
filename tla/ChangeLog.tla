------------------------------ MODULE ChangeLog ------------------------------
(***************************************************************************)
(* The object stores of the JMAP servers, as one account and one data type *)
(* see them: the objects, the state counter, and the change log that       *)
(* /changes answers from.  Every commit holds the store's lock, advances   *)
(* the counter by one and appends one entry, so the state token is the     *)
(* length of the log and entry i carries the state i.  What a write of     *)
(* another type does to these objects is not logged here: see Unlogged.    *)
(*                                                                         *)
(* The stores page the log in different ways, and "backend" says which one *)
(* this is:                                                                *)
(*   "mail"      counts entries; newState is that of the last entry read   *)
(*   "filenode"  drops metadata-only entries, then counts entries          *)
(*   "card"      counts the ids of the entries (contacts, calendars, tasks,*)
(*               and the chat types that are not Message)                  *)
(*   "message"   the same, and lists an id created and destroyed in one    *)
(*               window as destroyed                                       *)
(*   "vtc"       counts distinct ids, and knows no metadata                *)
(***************************************************************************)
EXTENDS Integers, Sequences, FiniteSets

CONSTANTS
    Object,     \* ids; an id is minted once and never used again
    Rank,       \* what a client's filter and sort see of an object
    Dependent,  \* the ids that records of another type count in or hide
    MaxWrites   \* bound: commits in a behaviour

NoObject == [rank |-> -1, meta |-> -1, tally |-> -1]
NoLimit == 0        \* no maxChanges: a client may not send 0
Backend == {"mail", "filenode", "card", "message", "vtc"}

\* An object is what its ordinary properties say (rank), what its metadata
\* says (meta), which /changes can be asked to ignore, and what the server
\* counts in it of another type (tally): the emails of a Mailbox, the unread
\* messages of a Chat.  A client does not write the last.
Content == [rank : Rank, meta : {0, 1}, tally : {0, 1}]
Property == {"rank", "meta"}
Kind == {"none", "created", "updated", "destroyed"}
Entry == [kind : [Object -> Kind], props : SUBSET Property]

ASSUME ChangeLogAssumption ==
    /\ MaxWrites \in Nat /\ Rank \subseteq Nat
    /\ IsFiniteSet(Object) /\ Dependent \subseteq Object

VARIABLES
    backend,    \* which store this is; never changes
    objects,    \* id -> stored object
    log,        \* the change entries, oldest first
    hidden      \* the ids whose Chat the client's user may not view now

storeVars == <<backend, objects, log, hidden>>

State == Len(log)

Live == {o \in Object : objects[o] # NoObject}
Minted == {o \in Object : \E i \in DOMAIN log : log[i].kind[o] = "created"}

StoreInit ==
    /\ backend \in Backend
    /\ objects = [o \in Object |-> NoObject]
    /\ log = <<>>
    /\ hidden = {}

-----------------------------------------------------------------------------
\* Writes.  Each is one lock acquisition.

Mark(S, kind) == [o \in Object |-> IF o \in S THEN kind ELSE "none"]

\* Advance the state once and log the change under it.
Commit(kind, props) ==
    /\ State < MaxWrites
    /\ log' = Append(log, [kind |-> kind, props |-> props])
    /\ UNCHANGED <<backend, hidden>>

\* The top-level properties an update altered; an update may alter none.
ChangedProperties(before, after) ==
    {p \in Property : before[p] # after[p]}

New(r) == [rank |-> r, meta |-> 0, tally |-> 0]

CreateObject(o, r) ==
    /\ o \notin Minted
    /\ objects' = [objects EXCEPT ![o] = New(r)]
    /\ Commit(Mark({o}, "created"), Property)

UpdateObject(o, c) ==
    /\ o \in Live /\ c.tally = objects[o].tally
    /\ objects' = [objects EXCEPT ![o] = c]
    /\ Commit(Mark({o}, "updated"), ChangedProperties(objects[o], c))

DestroyObject(o) ==
    /\ o \in Live
    /\ objects' = [objects EXCEPT ![o] = NoObject]
    /\ Commit(Mark({o}, "destroyed"), Property)

\* One entry that updates several objects, with nothing known of the
\* properties: a reply that changes the counts of its roots, cards demoted
\* by a new default, a room's end and its parent's list.
UpdateMany(S, r) ==
    /\ backend \in {"card", "message", "vtc"}
    /\ S \subseteq Live /\ Cardinality(S) > 1
    /\ objects' = [o \in Object |->
                      IF o \in S THEN [objects[o] EXCEPT !.rank = r] ELSE objects[o]]
    /\ Commit(Mark(S, "updated"), Property)

\* One entry that destroys several: a Space's channels and their messages.
DestroyMany(S) ==
    /\ backend \in {"card", "message"}
    /\ S \subseteq Live /\ Cardinality(S) > 1
    /\ objects' = [o \in Object |-> IF o \in S THEN NoObject ELSE objects[o]]
    /\ Commit(Mark(S, "destroyed"), Property)

\* One commit that creates an object and updates the one that lists it: a
\* breakout room and its parent call.
CreateUnder(o, parent, r) ==
    /\ backend = "vtc"
    /\ o \notin Minted /\ parent \in Live
    /\ objects' = [objects EXCEPT ![o] = New(r), ![parent].rank = r]
    /\ Commit([Mark({parent}, "updated") EXCEPT ![o] = "created"], Property)

Write ==
    \/ \E o \in Object, r \in Rank : CreateObject(o, r)
    \/ \E o \in Object, c \in Content : UpdateObject(o, c)
    \/ \E o \in Object : DestroyObject(o)
    \/ \E S \in SUBSET Object, r \in Rank : UpdateMany(S, r)
    \/ \E S \in SUBSET Object : DestroyMany(S)
    \/ \E o, parent \in Object, r \in Rank : CreateUnder(o, parent, r)

-----------------------------------------------------------------------------
\* What a write of another type does to these objects: neither the state nor
\* the log of this type takes note.

\* insert_email counts the email in its Mailboxes and advances the states of
\* Email and Thread only; a Message or a ReadPosition changes what Chat/get
\* derives for unreadCount before an update of the Chat records it, if it does.
Recount(o) ==
    /\ backend \in {"mail", "card"}
    /\ o \in Live \intersect Dependent
    /\ objects' = [objects EXCEPT ![o].tally = 1 - @]
    /\ UNCHANGED <<backend, log, hidden>>

\* The user is let into a Chat or leaves it: its Messages come into view or go
\* out of it together.
ChangeMembership(S) ==
    /\ backend = "message" /\ S # hidden
    /\ hidden' = S
    /\ UNCHANGED <<backend, objects, log>>

Unlogged ==
    \/ \E o \in Object : Recount(o)
    \/ \E S \in SUBSET Dependent : ChangeMembership(S)

-----------------------------------------------------------------------------
\* get_changes(since, limit, ignore): one lock acquisition.

Touched(i) == {o \in Object : log[i].kind[o] # "none"}

\* An update that changed only metadata.
IsMetadataOnly(i) ==
    /\ \A o \in Object : log[i].kind[o] \in {"none", "updated"}
    /\ log[i].props = {"meta"}

\* The vtc store does not look at ignoreMetadataOnlyChanges.
Ignores(ignore) == ignore /\ backend # "vtc"
Skipped(i, ignore) == Ignores(ignore) /\ IsMetadataOnly(i)

Since(since) == {i \in DOMAIN log : i > since}

Relevant(since, ignore) ==
    IF backend = "filenode"
      THEN {i \in Since(since) : ~Skipped(i, ignore)}
      ELSE Since(since)

\* What the entries up to i count towards the limit.
EntryUnits(since, i, ignore) ==
    {j \in Relevant(since, ignore) : j <= i /\ ~Skipped(j, ignore)}

\* Mutant of IdUnits: an entry costs one, however many ids it names.
IdUnitsBug(since, i, ignore) == EntryUnits(since, i, ignore)

IdUnits(since, i, ignore) ==
    {u \in Relevant(since, ignore) \X Object :
        u[1] <= i /\ ~Skipped(u[1], ignore) /\ u[2] \in Touched(u[1])}

DistinctIds(since, i, ignore) ==
    {o \in Object : \E j \in Relevant(since, ignore) : j <= i /\ o \in Touched(j)}

Units(since, i, ignore) ==
    CASE backend \in {"mail", "filenode"} -> EntryUnits(since, i, ignore)
      [] backend \in {"card", "message"} -> IdUnits(since, i, ignore)
      [] OTHER -> DistinctIds(since, i, ignore)

\* The entries one answer covers: oldest first, while they fit.
Page(since, limit, ignore) ==
    {i \in Relevant(since, ignore) :
        limit # NoLimit => Cardinality(Units(since, i, ignore)) <= limit}

HasMore(since, limit, ignore) ==
    Page(since, limit, ignore) # Relevant(since, ignore)

\* The first entry alone is over the limit: cannotCalculateChanges.
TooManyChanges(since, limit, ignore) ==
    Page(since, limit, ignore) = {} /\ HasMore(since, limit, ignore)

\* Mutant of LastOf: a cut answer leaves the client where it was.
LastOfBug(page, since) == since

LastOf(page, since) ==
    IF page = {} THEN since ELSE CHOOSE i \in page : \A j \in page : j <= i

\* Mutant of NewState: the first entry not read, instead of the last one read.
NewStateBug(since, limit, ignore) ==
    LastOf(Page(since, limit, ignore), since) + 1

NewState(since, limit, ignore) ==
    IF backend = "mail" \/ HasMore(since, limit, ignore)
      THEN LastOf(Page(since, limit, ignore), since)
      ELSE State

\* The fate of each id over the entries read.  Ids are never minted twice, so
\* the order of the entries adds nothing.
Has(page, o, kind) == \E i \in page : log[i].kind[o] = kind

Created(page) ==
    {o \in Object : Has(page, o, "created") /\ ~Has(page, o, "destroyed")}

\* Mutant of Destroyed: an update in the window hides the destroy.
DestroyedBug(page) ==
    {o \in Object : /\ Has(page, o, "destroyed")
                    /\ ~Has(page, o, "created") /\ ~Has(page, o, "updated")}

Destroyed(page) ==
    {o \in Object : /\ Has(page, o, "destroyed")
                    /\ Has(page, o, "created") => backend \in {"message", "vtc"}}

PropertiesIn(page, o) ==
    UNION {log[i].props : i \in {j \in page : log[j].kind[o] = "updated"}}

Updated(page, ignore) ==
    {o \in Object : /\ Has(page, o, "updated")
                    /\ ~Has(page, o, "created") /\ ~Has(page, o, "destroyed")
                    /\ ~(Ignores(ignore) /\ PropertiesIn(page, o) = {"meta"})}

\* The answer, with the limit it was asked for and the state it was read at.
GetChanges(since, limit, ignore) ==
    LET page == Page(since, limit, ignore)
    IN  [created   |-> Created(page),
         updated   |-> Updated(page, ignore),
         destroyed |-> Destroyed(page),
         newState  |-> NewState(since, limit, ignore),
         limit     |-> limit,
         seen      |-> State]
=============================================================================
