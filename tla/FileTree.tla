------------------------------ MODULE FileTree ------------------------------
(***************************************************************************)
(* The FileNode tree of one account, and the FileNode/set and FileNode/copy*)
(* calls that create, replace, rename, move, copy and destroy its nodes.   *)
(*                                                                         *)
(* A handler checks an entry with several backend calls (siblings,         *)
(* ancestors, descendants) and then writes it with others.  Each backend   *)
(* call holds the in-memory store's lock on its own, so it is one step     *)
(* here, and calls of other callers may come between any two of them.      *)
(* MemoryBackend checks nothing again when it writes.                      *)
(*                                                                         *)
(* A copy is within one account.  A copy between two is the first half of  *)
(* it on one tree and the second half on another.  What the store logs for *)
(* /changes is in ChangeLog.                                               *)
(***************************************************************************)
EXTENDS Naturals, FiniteSets, Sequences

CONSTANTS
  Caller,      \* callers whose calls may run together
  Mover,       \* those of them whose requests may change a parentId
  Request,     \* the requests they make
  Name,        \* names given by clients: <<"a">> is "a", <<"a", 1>> is "a-1"
  MaxNode,     \* ids are 1 .. MaxNode: the bound on node_counter
  MaxSeeded,   \* nodes the account has at first
  MaxCalls,    \* calls of one caller
  DepthLimit   \* maxFileNodeDepth

Top  == 0      \* parentId null
Node == 1 .. MaxNode

ASSUME BoundsAssumption ==
  MaxNode \in Nat /\ MaxSeeded \in 0 .. MaxNode /\ DepthLimit \in Nat
ASSUME MoverAssumption == Mover \subseteq Caller

\* A name is a sequence: a client's, then the suffixes of find_unique_name.
IsName(x) == Len(x) \in Nat /\ x = [i \in 1 .. Len(x) |-> x[i]]

ASSUME NameAssumption == \A x \in Name : IsName(x)

Place == Node \cup {Top}

\* A create gives a parent and a name, a copy its source and a parent, an
\* update a patch of the parent, the name or both.
CreateEntry == [source : {Top}, patch : [parent : Place, name : Name]]
CopyEntry   == [source : Node, patch : [parent : Place]]
UpdateEntry ==
  [id : Node,
   patch : [parent : Place] \cup [name : Name] \cup [parent : Place, name : Name]]

\* FileNode/set creates, updates and destroys; FileNode/copy only copies.
SetRequest ==
  [creates : Seq(CreateEntry), updates : Seq(UpdateEntry), destroys : Seq(Node),
   onExists : {"reject", "replace", "rename"},
   removeChildren : BOOLEAN, destroyOriginals : BOOLEAN]
CopyRequest ==
  [creates : Seq(CopyEntry), updates : {<<>>}, destroys : {<<>>},
   onExists : {"reject", "replace", "rename"},
   removeChildren : BOOLEAN, destroyOriginals : BOOLEAN]

ASSUME RequestAssumption == Request \subseteq SetRequest \cup CopyRequest

VARIABLES
  tree,        \* the stored nodes: id -> parent and name
  minted,      \* node_counter
  pc,          \* pc[c]: where c's call is
  ask,         \* ask[c]: its request
  at,          \* at[c]: the entry it is working on
  draft,       \* draft[c]: the parent and name it is about to store
  below,       \* below[c]: the descendant ids it last read
  depth,       \* depth[c]: the depth of the place a node moves to
  queue,       \* queue[c]: the nodes it is about to destroy, in order
  copied,      \* copied[c]: copied_source_ids
  made,        \* made[c]: the nodes its call created
  destroyed,   \* destroyed[c]: the nodes its call destroyed, in order
  refused,     \* refused[c]: the creates, by index, its call refused
  calls        \* calls[c]: calls made

storeVars == <<tree, minted>>
workVars  == <<draft, below, depth, queue>>
replyVars == <<copied, made, destroyed, refused>>
vars == <<tree, minted, pc, ask, at, draft, below, depth, queue,
          copied, made, destroyed, refused, calls>>

-----------------------------------------------------------------------------
(* Reading the tree.                                                       *)

Stored == DOMAIN tree

Children(S) == {n \in Stored : tree[n].parent \in S}

\* The nodes of B below id, reached through nodes of B: what every set with
\* id's children in it and closed under children contains.
Under(B, id) ==
  {d \in B : \A S \in SUBSET B :
               Children(S \cup {id}) \cap B \subseteq S => d \in S} \ {id}

\* The children alone.
DescendantsBug(id) == Children({id})

Descendants(id) == Under(Stored, id)

Ancestors(id) == {a \in Stored : id \in Descendants(a)}

\* The subtree that moves along is not measured.
LevelsBug(B, id) == 0

\* How many levels of B are below id.
Levels(B, id) ==
  LET under == Under(B, id)
      level(n) == Cardinality({a \in under : a = n \/ n \in Under(B, a)})
  IN  CHOOSE k \in 0 .. Cardinality(under) :
        /\ \A n \in under : level(n) <= k
        /\ k = 0 \/ \E n \in under : level(n) = k

\* The orders in which the breadth-first walk may list id's descendants.
Walks(id) ==
  LET down == Descendants(id)
      place(q, n) == IF n = id THEN 0 ELSE CHOOSE i \in DOMAIN q : q[i] = n
      up(q, i) == place(q, tree[q[i]].parent)
  IN  {q \in [1 .. Cardinality(down) -> down] :
         /\ \A n \in down : \E i \in DOMAIN q : q[i] = n
         /\ \A i \in DOMAIN q : up(q, i) < i
         /\ \A i, j \in DOMAIN q : i < j => up(q, i) <= up(q, j)}

Siblings(p) == {n \in Stored : tree[n].parent = p}

NamesUnder(p) == {tree[n].name : n \in Siblings(p)}

\* "-1" without a look at who has it.
UniqueNameBug(p, name) == Append(name, 1)

\* The first of name-1, name-2, ... that no child of p has.
UniqueName(p, name) ==
  LET free(k) == Append(name, k) \notin NamesUnder(p)
      first == CHOOSE k \in 1 .. Cardinality(NamesUnder(p)) + 1 :
                 free(k) /\ \A j \in 1 .. k - 1 : ~free(j)
  IN  Append(name, first)

\* The depth of a node placed under p.
DepthUnder(p) == IF p = Top THEN 1 ELSE Cardinality(Ancestors(p)) + 2

Depth(n) == Cardinality(Ancestors(n)) + 1

-----------------------------------------------------------------------------
(* The seeded account.                                                     *)

\* No set of nodes has all its parents in itself.
Acyclic ==
  \A S \in SUBSET Stored : S # {} => \E n \in S : tree[n].parent \notin S

NamesApart(ids) ==
  \A n, m \in ids : n # m /\ tree[n].parent = tree[m].parent
                      => tree[n].name # tree[m].name

NoRequest == [creates |-> <<>>, updates |-> <<>>, destroys |-> <<>>,
              onExists |-> "reject", removeChildren |-> FALSE,
              destroyOriginals |-> FALSE]

NoDraft == [parent |-> Top, name |-> <<>>]

Init ==
  /\ minted \in 0 .. MaxSeeded
  /\ tree \in [1 .. minted -> [parent : 0 .. minted, name : Name]]
  /\ \A n \in Stored : tree[n].parent < n
  /\ Acyclic /\ NamesApart(Stored) /\ \A n \in Stored : Depth(n) <= DepthLimit
  /\ pc = [c \in Caller |-> "idle"]
  /\ ask = [c \in Caller |-> NoRequest]
  /\ at = [c \in Caller |-> 1]
  /\ draft = [c \in Caller |-> NoDraft]
  /\ below = [c \in Caller |-> {}]
  /\ depth = [c \in Caller |-> 0]
  /\ queue = [c \in Caller |-> <<>>]
  /\ copied = [c \in Caller |-> <<>>]
  /\ made = [c \in Caller |-> {}]
  /\ destroyed = [c \in Caller |-> <<>>]
  /\ refused = [c \in Caller |-> {}]
  /\ calls = [c \in Caller |-> 0]

-----------------------------------------------------------------------------
(* A call and its entries.                                                 *)

Goto(c, label) == pc' = [pc EXCEPT ![c] = label]

NextEntry(c, label) == Goto(c, label) /\ at' = [at EXCEPT ![c] = @ + 1]

RefuseCreate(c) ==
  /\ NextEntry(c, "create")
  /\ refused' = [refused EXCEPT ![c] = @ \cup {at[c]}]

IsCopy(e) == e.source # Top

MovesNode(r) == \E i \in DOMAIN r.updates : "parent" \in DOMAIN r.updates[i].patch

\* The ids a request names.
Named(r) ==
  ({r.creates[i].source : i \in DOMAIN r.creates}
     \cup {r.creates[i].patch.parent : i \in DOMAIN r.creates}
     \cup {r.updates[i].id : i \in DOMAIN r.updates}
     \cup {r.updates[i].patch.parent :
             i \in {j \in DOMAIN r.updates : "parent" \in DOMAIN r.updates[j].patch}}
     \cup {r.destroys[i] : i \in DOMAIN r.destroys}) \ {Top}

\* The client sends a request; it names ids the server has given out.
Start(c) ==
  /\ pc[c] = "idle" /\ calls[c] < MaxCalls
  /\ \E r \in Request :
       /\ Named(r) \subseteq 1 .. minted
       /\ MovesNode(r) => c \in Mover
       /\ ask' = [ask EXCEPT ![c] = r]
  /\ Goto(c, "create")
  /\ destroyed' = [destroyed EXCEPT ![c] = <<>>]
  /\ calls' = [calls EXCEPT ![c] = @ + 1]
  /\ UNCHANGED <<storeVars, at, workVars, copied, made, refused>>

\* The loops over the entries end: creates, then updates, then destroys, or,
\* for a copy, the originals.
EndLoop(c, from, list, to) ==
  /\ pc[c] = from /\ at[c] > Len(list)
  /\ Goto(c, to)
  /\ at' = [at EXCEPT ![c] = 1]
  /\ UNCHANGED <<storeVars, ask, workVars, replyVars, calls>>

CopiesDone(c) == ask[c].destroyOriginals /\ copied[c] # <<>>

EndCreates(c) ==
  EndLoop(c, "create", ask[c].creates, IF CopiesDone(c) THEN "original" ELSE "update")
EndUpdates(c)   == EndLoop(c, "update", ask[c].updates, "destroy")
EndDestroys(c)  == EndLoop(c, "destroy", ask[c].destroys, "reply")
EndOriginals(c) == EndLoop(c, "original", copied[c], "reply")

\* The response goes out and the handler's locals with it.
Reply(c) ==
  /\ pc[c] = "reply"
  /\ Goto(c, "idle")
  /\ ask' = [ask EXCEPT ![c] = NoRequest]
  /\ at' = [at EXCEPT ![c] = 1]
  /\ draft' = [draft EXCEPT ![c] = NoDraft]
  /\ below' = [below EXCEPT ![c] = {}]
  /\ depth' = [depth EXCEPT ![c] = 0]
  /\ copied' = [copied EXCEPT ![c] = <<>>]
  /\ made' = [made EXCEPT ![c] = {}]
  /\ refused' = [refused EXCEPT ![c] = {}]
  /\ UNCHANGED <<storeVars, queue, destroyed, calls>>

-----------------------------------------------------------------------------
(* create, and the first half of a copy                                    *)

Entry(c) == ask[c].creates[at[c]]

HasCreate(c) == pc[c] = "create" /\ at[c] <= Len(ask[c].creates)

BeginCreate(c) ==
  /\ HasCreate(c) /\ ~IsCopy(Entry(c))
  /\ draft' = [draft EXCEPT ![c] = Entry(c).patch]
  /\ Goto(c, "depth")
  /\ UNCHANGED <<storeVars, ask, at, below, depth, queue, replyVars, calls>>

\* A copy reads its source.
BeginCopy(c) ==
  /\ HasCreate(c) /\ IsCopy(Entry(c))
  /\ IF Entry(c).source \in Stored
     THEN /\ draft' = [draft EXCEPT ![c] =
                         [parent |-> Entry(c).patch.parent,
                          name |-> tree[Entry(c).source].name]]
          /\ Goto(c, IF Entry(c).patch.parent = Top THEN "depth" ELSE "cycle")
          /\ UNCHANGED <<at, refused>>
     ELSE RefuseCreate(c) /\ UNCHANGED draft
  /\ UNCHANGED <<storeVars, ask, below, depth, queue, copied, made, destroyed, calls>>

\* Only the source itself is excluded.
CheckCopyCycleBug(c) ==
  /\ pc[c] = "cycle"
  /\ IF draft[c].parent = Entry(c).source
     THEN RefuseCreate(c)
     ELSE Goto(c, "depth") /\ UNCHANGED <<at, refused>>
  /\ UNCHANGED <<storeVars, ask, workVars, copied, made, destroyed, calls>>

\* A copy may not go below its source.
CheckCopyCycle(c) ==
  /\ pc[c] = "cycle"
  /\ IF draft[c].parent \in Descendants(Entry(c).source) \cup {Entry(c).source}
     THEN RefuseCreate(c)
     ELSE Goto(c, "depth") /\ UNCHANGED <<at, refused>>
  /\ UNCHANGED <<storeVars, ask, workVars, copied, made, destroyed, calls>>

CheckDepth(c) ==
  /\ pc[c] = "depth"
  /\ IF DepthUnder(draft[c].parent) > DepthLimit
     THEN RefuseCreate(c)
     ELSE Goto(c, "sibling") /\ UNCHANGED <<at, refused>>
  /\ UNCHANGED <<storeVars, ask, workVars, copied, made, destroyed, calls>>

Twins(c) == {n \in Siblings(draft[c].parent) : tree[n].name = draft[c].name}

FindSibling(c) ==
  /\ pc[c] = "sibling"
  /\ \/ Twins(c) = {} /\ Goto(c, "store") /\ UNCHANGED <<at, refused, queue>>
     \/ /\ Twins(c) # {} /\ ask[c].onExists = "reject"
        /\ RefuseCreate(c) /\ UNCHANGED queue
     \/ /\ Twins(c) # {} /\ ask[c].onExists = "rename"
        /\ Goto(c, "unique") /\ UNCHANGED <<at, refused, queue>>
     \/ /\ ask[c].onExists = "replace"
        /\ \E n \in Twins(c) : queue' = [queue EXCEPT ![c] = <<n>>]
        /\ Goto(c, "replaced") /\ UNCHANGED <<at, refused>>
  /\ UNCHANGED <<storeVars, ask, draft, below, depth, copied, made, destroyed, calls>>

FindUniqueName(c) ==
  /\ pc[c] = "unique"
  /\ draft' = [draft EXCEPT ![c].name = UniqueName(draft[c].parent, draft[c].name)]
  /\ Goto(c, "store")
  /\ UNCHANGED <<storeVars, ask, at, below, depth, queue, replyVars, calls>>

\* The walk lists the node itself too.
ReadReplacedBug(c) ==
  /\ pc[c] = "replaced"
  /\ \E q \in Walks(Head(queue[c])) :
       queue' = [queue EXCEPT ![c] = <<Head(@)>> \o Append(q, Head(@))]
  /\ Goto(c, "replace")
  /\ UNCHANGED <<storeVars, ask, at, draft, below, depth, replyVars, calls>>

\* The node to replace goes after its descendants, or stays if it may keep
\* its children.
ReadReplaced(c) ==
  /\ pc[c] = "replaced"
  /\ LET old == Head(queue[c]) IN
     IF Descendants(old) # {} /\ ~ask[c].removeChildren
     THEN RefuseCreate(c) /\ queue' = [queue EXCEPT ![c] = <<>>]
     ELSE /\ \E q \in Walks(old) : queue' = [queue EXCEPT ![c] = Append(q, old)]
          /\ Goto(c, "replace") /\ UNCHANGED <<at, refused>>
  /\ UNCHANGED <<storeVars, ask, draft, below, depth, copied, made, destroyed, calls>>

Store(c) ==
  /\ pc[c] = "store" /\ minted < MaxNode
  /\ minted' = minted + 1
  /\ tree' = [n \in Stored \cup {minted + 1} |->
                IF n = minted + 1 THEN draft[c] ELSE tree[n]]
  /\ made' = [made EXCEPT ![c] = @ \cup {minted + 1}]
  /\ copied' = [copied EXCEPT ![c] =
                  IF IsCopy(Entry(c)) THEN Append(@, Entry(c).source) ELSE @]
  /\ NextEntry(c, "create")
  /\ UNCHANGED <<ask, workVars, destroyed, refused, calls>>

-----------------------------------------------------------------------------
(* update                                                                  *)

Change(c) == ask[c].updates[at[c]]

HasUpdate(c) == pc[c] = "update" /\ at[c] <= Len(ask[c].updates)

Moves(c) == "parent" \in DOMAIN Change(c).patch /\ Change(c).patch.parent # Top

\* Only a move under another node is checked.
SkipMoveChecks(c) ==
  /\ HasUpdate(c) /\ ~Moves(c)
  /\ Goto(c, "patch")
  /\ UNCHANGED <<storeVars, ask, at, workVars, replyVars, calls>>

CheckMoveCycle(c) ==
  /\ HasUpdate(c) /\ Moves(c)
  /\ LET down == Descendants(Change(c).id) IN
     IF Change(c).patch.parent \in down \cup {Change(c).id}
     THEN NextEntry(c, "update") /\ UNCHANGED below
     ELSE /\ below' = [below EXCEPT ![c] = down]
          /\ Goto(c, "ancestors") /\ UNCHANGED at
  /\ UNCHANGED <<storeVars, ask, draft, depth, queue, replyVars, calls>>

ReadMoveDepth(c) ==
  /\ pc[c] = "ancestors"
  /\ depth' = [depth EXCEPT ![c] = DepthUnder(Change(c).patch.parent)]
  /\ Goto(c, "height")
  /\ UNCHANGED <<storeVars, ask, at, draft, below, queue, replyVars, calls>>

\* The moved subtree is read again, without the nodes that have gone.
CheckMoveDepth(c) ==
  /\ pc[c] = "height"
  /\ IF depth[c] + Levels(below[c] \cap Stored, Change(c).id) > DepthLimit
     THEN NextEntry(c, "update")
     ELSE Goto(c, "patch") /\ UNCHANGED at
  /\ UNCHANGED <<storeVars, ask, workVars, replyVars, calls>>

Patched(node, patch) ==
  [f \in {"parent", "name"} |-> IF f \in DOMAIN patch THEN patch[f] ELSE node[f]]

Patch(c) ==
  /\ pc[c] = "patch"
  /\ tree' = [n \in Stored |->
                IF n = Change(c).id THEN Patched(tree[n], Change(c).patch) ELSE tree[n]]
  /\ NextEntry(c, "update")
  /\ UNCHANGED <<minted, ask, workVars, replyVars, calls>>

-----------------------------------------------------------------------------
(* destroy, and the second half of a copy                                  *)

Victim(c) == ask[c].destroys[at[c]]

DestroySet(c) == {ask[c].destroys[i] : i \in DOMAIN ask[c].destroys}

\* With onDestroyRemoveChildren the descendants go first; without it they
\* must all be destroyed by the same call.
ReadSubtree(c) ==
  /\ pc[c] = "destroy" /\ at[c] <= Len(ask[c].destroys)
  /\ \/ /\ ask[c].removeChildren
        /\ \E q \in Walks(Victim(c)) :
             queue' = [queue EXCEPT ![c] = Append(q, Victim(c))]
        /\ Goto(c, "remove") /\ UNCHANGED at
     \/ /\ ~ask[c].removeChildren
        /\ IF Descendants(Victim(c)) \subseteq DestroySet(c)
           THEN /\ queue' = [queue EXCEPT ![c] = <<Victim(c)>>]
                /\ Goto(c, "remove") /\ UNCHANGED at
           ELSE NextEntry(c, "destroy") /\ UNCHANGED queue
  /\ UNCHANGED <<storeVars, ask, draft, below, depth, replyVars, calls>>

Original(c) == copied[c][at[c]]

Reversed(q) == [i \in DOMAIN q |-> q[Len(q) + 1 - i]]

\* onSuccessDestroyOriginal: the deepest descendants first.
ReadOriginal(c) ==
  /\ pc[c] = "original" /\ at[c] <= Len(copied[c])
  /\ IF Descendants(Original(c)) # {} /\ ~ask[c].removeChildren
     THEN NextEntry(c, "original") /\ UNCHANGED queue
     ELSE /\ \E q \in Walks(Original(c)) :
               queue' = [queue EXCEPT ![c] = Append(Reversed(q), Original(c))]
          /\ Goto(c, "erase") /\ UNCHANGED at
  /\ UNCHANGED <<storeVars, ask, draft, below, depth, replyVars, calls>>

\* What follows once the queue is empty: the replaced node makes room for the
\* draft, a destroy is over.
AfterDestroy(c) ==
  CASE pc[c] = "replace" -> Goto(c, "store") /\ UNCHANGED at
    [] pc[c] = "remove"  -> NextEntry(c, "destroy")
    [] pc[c] = "erase"   -> NextEntry(c, "original")

\* The rest of the queue stays behind.
AbortDestroyBug(c) ==
  /\ \/ pc[c] = "replace" /\ RefuseCreate(c)
     \/ pc[c] = "remove"  /\ NextEntry(c, "destroy") /\ UNCHANGED refused
     \/ pc[c] = "erase"   /\ NextEntry(c, "original") /\ UNCHANGED refused
  /\ UNCHANGED <<queue, tree, destroyed>>

\* A node that is already gone fails the entry; what it destroyed before
\* stays destroyed.
AbortDestroy(c) ==
  /\ \/ pc[c] = "replace" /\ RefuseCreate(c)
     \/ pc[c] = "remove"  /\ NextEntry(c, "destroy") /\ UNCHANGED refused
     \/ pc[c] = "erase"   /\ NextEntry(c, "original") /\ UNCHANGED refused
  /\ queue' = [queue EXCEPT ![c] = <<>>]
  /\ UNCHANGED <<tree, destroyed>>

\* destroy_object answers notFound.
NotFoundBug(n) == FALSE
NotFound(n) == n \notin Stored

DestroyNext(c) ==
  /\ pc[c] \in {"replace", "remove", "erase"}
  /\ LET n == Head(queue[c]) IN
     IF ~NotFound(n)
     THEN /\ tree' = [m \in Stored \ {n} |-> tree[m]]
          /\ destroyed' = [destroyed EXCEPT ![c] = Append(@, n)]
          /\ queue' = [queue EXCEPT ![c] = Tail(@)]
          /\ IF Len(queue[c]) = 1 THEN AfterDestroy(c) ELSE UNCHANGED <<pc, at>>
          /\ UNCHANGED refused
     ELSE AbortDestroy(c)
  /\ UNCHANGED <<minted, ask, draft, below, depth, copied, made, calls>>

-----------------------------------------------------------------------------
CreateStep(c) ==
  \/ BeginCreate(c) \/ BeginCopy(c) \/ CheckCopyCycle(c) \/ CheckDepth(c)
  \/ FindSibling(c) \/ FindUniqueName(c) \/ ReadReplaced(c) \/ Store(c)

UpdateStep(c) ==
  \/ SkipMoveChecks(c) \/ CheckMoveCycle(c) \/ ReadMoveDepth(c)
  \/ CheckMoveDepth(c) \/ Patch(c)

DestroyStep(c) == ReadSubtree(c) \/ ReadOriginal(c) \/ DestroyNext(c)

LoopStep(c) ==
  Start(c) \/ EndCreates(c) \/ EndUpdates(c) \/ EndDestroys(c) \/ EndOriginals(c)
    \/ Reply(c)

Next ==
  \E c \in Caller : CreateStep(c) \/ UpdateStep(c) \/ DestroyStep(c) \/ LoopStep(c)

Spec == Init /\ [][Next]_vars

-----------------------------------------------------------------------------
(* Properties.                                                             *)

\* The store holds nodes under nodes that were minted, and every call is at a
\* place of its handler (handle_filenode_set, handle_filenode_copy).
TypeOK ==
  /\ minted \in 0 .. MaxNode /\ Stored \subseteq 1 .. minted
  /\ \A n \in Stored : tree[n].parent \in Top .. minted
  /\ \A c \in Caller : queue[c] # <<>> <=> pc[c] \in {"replaced", "replace", "remove", "erase"}
  /\ \A c \in Caller : made[c] \subseteq 1 .. minted

\* The FileNodes of an account always form a forest: the handler's look at the
\* descendants and its later patch leave no room for a cycle, provided one
\* caller at a time moves nodes, whatever the others create and destroy in
\* between (filenode.rs, "Circular reference check").
ForestKept == (\A a, b \in Mover : a = b) => Acyclic

\* maxFileNodeDepth bounds every node, those that moved along inside a subtree
\* included, while one caller is writing (exceeds_max_depth).
DepthBounded == \A n \in Stored : Depth(n) <= DepthLimit

\* A node is stored under a name that no sibling has: FileNode/set looks for
\* the sibling before it creates (find_sibling_by_name, find_unique_name).
NewNameIsFree ==
  [][\A n \in Stored' \ Stored : tree'[n].name \notin NamesUnder(tree'[n].parent)]_vars

\* A node is reported destroyed by one call, once, however many cascades reach
\* it, and is then gone for good (destroy_object answers notFound).
DestroyedOnce ==
  \A c, d \in Caller : \A i \in DOMAIN destroyed[c], j \in DOMAIN destroyed[d] :
    /\ destroyed[c][i] \notin Stored
    /\ destroyed[c][i] = destroyed[d][j] => c = d /\ i = j

\* Once a call is over, no node is left below one that it destroyed, unless the
\* call itself put it there: nodeHasChildren and onDestroyRemoveChildren look
\* at all descendants, not at the children (the destroy loop).
NoOrphanLeft ==
  \A c \in Caller : pc[c] = "reply" =>
    \A i \in DOMAIN destroyed[c] :
      Children({destroyed[c][i]}) # {} =>
        \/ \E e \in DOMAIN ask[c].creates :
             ask[c].creates[e].patch.parent = destroyed[c][i]
        \/ \E e \in DOMAIN ask[c].updates :
             /\ "parent" \in DOMAIN ask[c].updates[e].patch
             /\ ask[c].updates[e].patch.parent = destroyed[c][i]

\* A create that is refused has destroyed nothing: "each creation is an atomic
\* unit", so whatever can refuse it comes before the replaced node goes.
RefusedCreateDestroysNothing ==
  \A c \in Caller :
    pc[c] = "reply" /\ Len(ask[c].creates) = 1 /\ refused[c] # {}
                    /\ ask[c].destroys = <<>> => destroyed[c] = <<>>

\* A copy that destroys its original does not destroy the copy with it: the
\* copy is never below the original (handle_filenode_copy's cycle check).  A
\* call with a second copy, of a node above the first copy's parent, can.
CopyOutlivesOriginal ==
  \A c \in Caller :
    pc[c] = "reply" /\ Len(ask[c].creates) = 1 /\ IsCopy(ask[c].creates[1])
      => made[c] \subseteq Stored
=============================================================================
