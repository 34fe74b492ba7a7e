--------------------------- MODULE FileTreeProofs ---------------------------
(***************************************************************************)
(* Proofs about the FileNodes of an account, for any requests and sizes.   *)
(* With any callers they stay a forest, as long as one of them moves nodes;*)
(* and a node is destroyed once and for good, whoever moves.  With one     *)
(* caller at a time a refused create destroys nothing, a copy outlives its *)
(* original, no node is stranded, none is too deep, and no new node takes  *)
(* a sibling's name.  Others at work break each of these five: what has    *)
(* been checked is written later.                                          *)
(***************************************************************************)
EXTENDS FileTree, FiniteSetTheorems, SequenceTheorems, TLAPS

\* Where a call holds a move it has checked and not yet made.
MovePcs == {"ancestors", "height", "patch"}

DraftOK(c) ==
  \E p \in 0 .. minted : \E x : draft[c] = [parent |-> p, name |-> x]

\* Ids that occur anywhere were minted, and locals have their place.
IdsOK ==
  /\ minted \in 0 .. MaxNode
  /\ Stored \subseteq 1 .. minted
  /\ \A n \in Stored : tree[n].parent \in 0 .. minted

CallOK(c) ==
  /\ ask[c] \in Request \cup {NoRequest}
  /\ Named(ask[c]) \subseteq 1 .. minted
  /\ MovesNode(ask[c]) => c \in Mover
  /\ at[c] \in Nat \ {0}
  /\ DraftOK(c)
  /\ pc[c] \in MovePcs => at[c] \in DOMAIN ask[c].updates

LocalsOK ==
  /\ DOMAIN pc = Caller /\ DOMAIN ask = Caller
  /\ DOMAIN at = Caller /\ DOMAIN draft = Caller
  /\ \A c \in Caller : CallOK(c)

\* A set that is closed under children separates the node from its new parent.
Apart(id, p) ==
  \E S \in SUBSET Node : id \in S /\ p \notin S /\ Children(S) \subseteq S

SafeMoves ==
  \A c \in Caller :
    pc[c] \in MovePcs /\ Moves(c) => Apart(Change(c).id, Change(c).patch.parent)

OneMover == \A a, b \in Mover : a = b

\* The part that holds however many callers move nodes, and the whole.
Base == IdsOK /\ LocalsOK
IInv == Base /\ SafeMoves /\ Acyclic

-----------------------------------------------------------------------------
(* Facts about requests.                                                   *)

LEMMA RequestShape ==
  ASSUME NEW r \in Request \cup {NoRequest}
  PROVE  /\ r.creates \in Seq(CreateEntry \cup CopyEntry)
         /\ r.updates \in Seq(UpdateEntry)
         /\ r.destroys \in Seq(Node)
<1>1. \A X : <<>> \in Seq(X)
  OBVIOUS
<1>2. CASE r \in SetRequest
  <2>1. /\ r.creates \in Seq(CreateEntry) /\ r.updates \in Seq(UpdateEntry)
        /\ r.destroys \in Seq(Node)
    BY <1>2 DEF SetRequest
  <2>2. Seq(CreateEntry) \subseteq Seq(CreateEntry \cup CopyEntry)
    OBVIOUS
  <2> QED
    BY <2>1, <2>2
<1>3. CASE r \in CopyRequest
  <2>1. r.creates \in Seq(CopyEntry) /\ r.updates = <<>> /\ r.destroys = <<>>
    BY <1>3 DEF CopyRequest
  <2>2. Seq(CopyEntry) \subseteq Seq(CreateEntry \cup CopyEntry)
    OBVIOUS
  <2> QED
    BY <1>1, <2>1, <2>2
<1>4. CASE r = NoRequest
  BY <1>1, <1>4 DEF NoRequest
<1> QED
  BY <1>2, <1>3, <1>4, RequestAssumption

LEMMA ChangeShape ==
  ASSUME NEW c \in Caller, CallOK(c), at[c] \in DOMAIN ask[c].updates
  PROVE  /\ Change(c) \in UpdateEntry
         /\ Change(c).id \in 1 .. minted
         /\ "parent" \in DOMAIN Change(c).patch =>
              /\ Change(c).patch.parent \in 1 .. minted \cup {Top}
              /\ c \in Mover
<1>1. ask[c].updates \in Seq(UpdateEntry)
  BY RequestShape DEF CallOK
<1>2. Change(c) \in UpdateEntry
  BY <1>1 DEF Change
<1>3. Change(c).id \in Node /\ Change(c).id # Top
  BY <1>2 DEF UpdateEntry, Node, Top
<1>4. Change(c).id \in Named(ask[c])
  BY <1>3 DEF Named, Change
<1>5. ASSUME "parent" \in DOMAIN Change(c).patch
      PROVE  Change(c).patch.parent \in Named(ask[c]) \cup {Top} /\ c \in Mover
  BY <1>5 DEF Named, Change, MovesNode, CallOK
<1> QED
  BY <1>2, <1>4, <1>5 DEF CallOK

LEMMA EntryShape ==
  ASSUME NEW c \in Caller, IdsOK, CallOK(c), at[c] <= Len(ask[c].creates)
  PROVE  /\ Entry(c) \in CreateEntry \cup CopyEntry
         /\ Entry(c).patch.parent \in 0 .. minted
<1>1. ask[c].creates \in Seq(CreateEntry \cup CopyEntry)
  BY RequestShape DEF CallOK
<1>2. at[c] \in DOMAIN ask[c].creates
  BY <1>1 DEF CallOK
<1>3. Entry(c) \in CreateEntry \cup CopyEntry
  BY <1>1, <1>2 DEF Entry
<1>4. Entry(c).patch.parent \in Named(ask[c]) \cup {Top}
  BY <1>2 DEF Named, Entry
<1> QED
  BY <1>3, <1>4 DEF CallOK, IdsOK, Top
-----------------------------------------------------------------------------
(* The tree.                                                               *)

\* What is not a descendant is kept apart by a set closed under children.
LEMMA NotDescendantApart ==
  ASSUME IdsOK, NEW id \in Node, NEW p, p \notin Descendants(id), p # id
  PROVE  Apart(id, p)
<1>0. Stored \subseteq Node
  BY BoundsAssumption DEF IdsOK, Node
<1>1. CASE p \in Stored
  <2>1. PICK S \in SUBSET Stored : Children(S \cup {id}) \cap Stored \subseteq S /\ p \notin S
    BY <1>1 DEF Descendants, Under
  <2>2. Children(S \cup {id}) \subseteq S \cup {id}
    BY <2>1 DEF Children
  <2>3. S \cup {id} \in SUBSET Node
    BY <1>0
  <2> QED
    BY <2>1, <2>2, <2>3 DEF Apart
<1>2. CASE p \notin Stored
  <2>1. Children(Stored \cup {id}) \subseteq Stored \cup {id}
    BY DEF Children
  <2>2. Stored \cup {id} \in SUBSET Node
    BY <1>0
  <2> QED
    BY <1>2, <2>1, <2>2 DEF Apart
<1> QED
  BY <1>1, <1>2

\* A new node under p closes no cycle: nothing is below it.
LEMMA StoreKeepsForest ==
  ASSUME IdsOK, Acyclic, NEW d, d.parent \in 0 .. minted,
         tree' = [n \in Stored \cup {minted + 1} |-> IF n = minted + 1 THEN d ELSE tree[n]]
  PROVE  Acyclic'
<1> DEFINE new == minted + 1
<1>1. new \notin Stored /\ new # d.parent /\ \A n \in Stored : tree[n].parent # new
  BY DEF IdsOK
<1>2. SUFFICES ASSUME NEW S \in SUBSET Stored', S # {},
                      \A n \in S : tree'[n].parent \in S
               PROVE  FALSE
  BY DEF Acyclic
<1>3. Stored' = Stored \cup {new}
  BY DEF Stored
<1>4. S \ {new} \in SUBSET Stored
  BY <1>3
<1>5. S \ {new} # {}
  <2>1. CASE new \in S
    BY <1>1, <1>2, <1>3, <2>1
  <2>2. CASE new \notin S
    BY <1>2, <2>2
  <2> QED
    BY <2>1, <2>2
<1>6. \A n \in S \ {new} : tree[n].parent \in S \ {new}
  BY <1>1, <1>2, <1>3, <1>4
<1> QED
  BY <1>4, <1>5, <1>6 DEF Acyclic

\* A move to a node kept apart closes no cycle.
LEMMA MoveKeepsForest ==
  ASSUME Acyclic, NEW id \in Node, NEW q, q = Top \/ Apart(id, q), IdsOK,
         NEW u, u.parent = q,
         tree' = [n \in Stored |-> IF n = id THEN u ELSE tree[n]]
  PROVE  Acyclic'
<1>1. SUFFICES ASSUME NEW T \in SUBSET Stored', T # {},
                      \A n \in T : tree'[n].parent \in T
               PROVE  FALSE
  BY DEF Acyclic
<1>2. Stored' = Stored
  BY DEF Stored
<1>3. CASE id \notin T
  <2>1. \A n \in T : tree[n].parent \in T
    BY <1>1, <1>2, <1>3
  <2> QED
    BY <1>1, <1>2, <2>1 DEF Acyclic
<1>4. CASE id \in T
  <2>1. q \in T
    BY <1>1, <1>2, <1>4
  <2>2. Top \notin Stored
    BY DEF IdsOK, Top
  <2>3. PICK S \in SUBSET Node : id \in S /\ q \notin S /\ Children(S) \subseteq S
    BY <1>2, <2>1, <2>2 DEF Apart
  <2>4. \A n \in T \ S : tree[n].parent \in T \ S
    <3>1. TAKE n \in T \ S
    <3>2. n # id /\ n \in Stored
      BY <1>2, <2>3, <3>1
    <3>3. tree[n].parent \in T
      BY <1>1, <1>2, <3>2
    <3>4. tree[n].parent \notin S
      BY <2>3, <3>2 DEF Children
    <3> QED
      BY <3>3, <3>4
  <2>5. T \ S \in SUBSET Stored /\ T \ S # {}
    BY <1>2, <2>1, <2>3
  <2> QED
    BY <2>4, <2>5 DEF Acyclic
<1> QED
  BY <1>3, <1>4

\* An update that leaves the parents alone changes no set of children.
LEMMA SameParents ==
  ASSUME Stored' = Stored, \A n \in Stored : tree'[n].parent = tree[n].parent
  PROVE  /\ Acyclic => Acyclic'
         /\ \A id, p : Apart(id, p) => Apart(id, p)'
<1>1. \A S : Children(S)' = Children(S)
  BY DEF Children
<1> QED
  BY <1>1 DEF Acyclic, Apart

\* A node that goes leaves no new cycle, and nothing new below a node.
LEMMA DestroyKeepsForest ==
  ASSUME NEW n, tree' = [m \in Stored \ {n} |-> tree[m]]
  PROVE  /\ Acyclic => Acyclic'
         /\ \A id, p : Apart(id, p) => Apart(id, p)'
<1>1. Stored' = Stored \ {n} /\ \A m \in Stored' : tree'[m] = tree[m]
  BY DEF Stored
<1>2. \A S : Children(S)' \subseteq Children(S)
  BY <1>1 DEF Children
<1> QED
  BY <1>1, <1>2 DEF Acyclic, Apart

\* A new node may join the set that keeps a node from its new parent.
LEMMA StoreKeepsApart ==
  ASSUME IdsOK, minted < MaxNode, NEW d,
         tree' = [n \in Stored \cup {minted + 1} |-> IF n = minted + 1 THEN d ELSE tree[n]],
         NEW id, NEW p, p # minted + 1, Apart(id, p)
  PROVE  Apart(id, p)'
<1>1. PICK S \in SUBSET Node : id \in S /\ p \notin S /\ Children(S) \subseteq S
  BY DEF Apart
<1>2. /\ Stored' = Stored \cup {minted + 1}
      /\ minted + 1 \in Node /\ minted + 1 \notin Stored
  BY BoundsAssumption DEF Stored, IdsOK, Node
<1>3. ASSUME NEW m \in Stored
      PROVE  tree'[m] = tree[m] /\ tree[m].parent # minted + 1
  <2>1. tree'[m] = tree[m]
    BY <1>2
  <2>2. minted \in Nat /\ tree[m].parent \in 0..minted
    BY BoundsAssumption DEF IdsOK
  <2>3. tree[m].parent # minted + 1
    BY <2>2
  <2> QED BY <2>1, <2>3
<1>4. PICK R \in SUBSET Node : R = S \cup {minted + 1}
  BY <1>2
<1>5. Children(R)' \subseteq R
  BY <1>1, <1>2, <1>3, <1>4 DEF Children
<1> QED
  BY <1>1, <1>4, <1>5 DEF Apart

-----------------------------------------------------------------------------
(* What a step of one caller leaves alone.                                 *)

StepOf(c) ==
  /\ DOMAIN pc' = Caller /\ DOMAIN ask' = Caller
  /\ DOMAIN at' = Caller /\ DOMAIN draft' = Caller
  /\ \A d \in Caller \ {c} : /\ pc'[d] = pc[d] /\ at'[d] = at[d]
                             /\ ask'[d] = ask[d] /\ draft'[d] = draft[d]

\* A step that neither writes the store nor takes a move further.
Quiet(c) ==
  /\ UNCHANGED storeVars /\ UNCHANGED ask
  /\ pc'[c] \notin MovePcs
  /\ at'[c] \in {at[c], at[c] + 1, 1}
  /\ draft'[c] = draft[c]

Quieter(c) ==
  CheckCopyCycle(c) \/ CheckDepth(c) \/ FindSibling(c) \/ ReadReplaced(c)
    \/ ReadSubtree(c) \/ ReadOriginal(c)
    \/ EndCreates(c) \/ EndUpdates(c) \/ EndDestroys(c) \/ EndOriginals(c)

Drafter(c) == BeginCreate(c) \/ BeginCopy(c) \/ FindUniqueName(c)

MoveChecker(c) ==
  SkipMoveChecks(c) \/ CheckMoveCycle(c) \/ ReadMoveDepth(c) \/ CheckMoveDepth(c)

LEMMA Steps ==
  ASSUME Next
  PROVE  \E c \in Caller :
           Quieter(c) \/ Drafter(c) \/ MoveChecker(c) \/ Start(c) \/ Reply(c)
             \/ Store(c) \/ Patch(c) \/ DestroyNext(c)
BY DEF Next, CreateStep, UpdateStep, DestroyStep, LoopStep, Quieter, Drafter, MoveChecker

LEMMA QuietFrame ==
  ASSUME LocalsOK, NEW c \in Caller, Quieter(c)
  PROVE  StepOf(c) /\ Quiet(c)
<1> USE DEF StepOf, Quiet, LocalsOK, MovePcs, storeVars, workVars, Goto, NextEntry, RefuseCreate
<1>1. CASE CheckCopyCycle(c)
  BY <1>1 DEF CheckCopyCycle
<1>2. CASE CheckDepth(c)
  BY <1>2 DEF CheckDepth
<1>3. CASE FindSibling(c)
  BY <1>3 DEF FindSibling
<1>4. CASE ReadReplaced(c)
  BY <1>4 DEF ReadReplaced
<1>5. CASE ReadSubtree(c)
  BY <1>5 DEF ReadSubtree
<1>6. CASE ReadOriginal(c)
  BY <1>6 DEF ReadOriginal
<1>7. CASE EndCreates(c) \/ EndUpdates(c) \/ EndDestroys(c) \/ EndOriginals(c)
  BY <1>7 DEF EndCreates, EndUpdates, EndDestroys, EndOriginals, EndLoop
<1> QED
  BY <1>1, <1>2, <1>3, <1>4, <1>5, <1>6, <1>7 DEF Quieter

\* The other calls stay sound: ids that were minted stay minted.
LEMMA OtherCalls ==
  ASSUME LocalsOK, IdsOK, NEW c \in Caller, StepOf(c),
         minted' \in {minted, minted + 1}, NEW d \in Caller \ {c}
  PROVE  CallOK(d)'
<1>1. CallOK(d) /\ minted \in Nat
  BY DEF LocalsOK, IdsOK
<1>2. 1 .. minted \subseteq 1 .. minted' /\ 0 .. minted \subseteq 0 .. minted'
  BY <1>1
<1>3. /\ pc'[d] = pc[d] /\ at'[d] = at[d] /\ ask'[d] = ask[d] /\ draft'[d] = draft[d]
  BY DEF StepOf
<1>4. Named(ask[d])' = Named(ask[d]) /\ MovesNode(ask[d])' = MovesNode(ask[d])
  BY <1>3 DEF Named, MovesNode
<1>5. DraftOK(d)'
  BY <1>1, <1>2, <1>3 DEF DraftOK, CallOK
<1> QED
  BY <1>1, <1>2, <1>3, <1>4, <1>5 DEF CallOK

\* So do the moves they hold, while nothing comes between.
LEMMA OtherMoves ==
  ASSUME NEW c \in Caller, StepOf(c), SafeMoves, NEW d \in Caller \ {c},
         pc'[d] \in MovePcs, Moves(d)',
         \A id, p : Apart(id, p) /\ id = Change(d).id /\ p = Change(d).patch.parent
                      => Apart(id, p)'
  PROVE  Apart(Change(d).id, Change(d).patch.parent)'
<1>1. Change(d)' = Change(d) /\ pc'[d] = pc[d]
  BY DEF StepOf, Change
<1>2. Moves(d)
  BY <1>1 DEF Moves
<1>3. PICK i, p : i = Change(d).id /\ p = Change(d).patch.parent
  OBVIOUS
<1>4. Apart(i, p)
  BY <1>1, <1>2, <1>3 DEF SafeMoves
<1>5. Apart(i, p)'
  BY <1>3, <1>4
<1> QED
  BY <1>1, <1>3, <1>5 DEF Apart

-----------------------------------------------------------------------------
(* The inductive step, one lemma for each kind of step.                    *)

\* With the store as it was, the tree part of the invariant is as it was.
LEMMA StoreSame ==
  ASSUME UNCHANGED storeVars, IdsOK, Acyclic
  PROVE  /\ IdsOK' /\ Acyclic'
         /\ \A id, p : Apart(id, p) => Apart(id, p)'
<1>1. tree' = tree /\ minted' = minted
  BY DEF storeVars
<1>2. Stored' = Stored /\ \A S : Children(S)' = Children(S)
  BY <1>1 DEF Stored, Children
<1> QED
  BY <1>1, <1>2 DEF IdsOK, Acyclic, Apart

LEMMA LocalBase ==
  ASSUME Base, NEW c \in Caller, StepOf(c), UNCHANGED storeVars, CallOK(c)'
  PROVE  Base'
<1>1. minted' = minted /\ tree' = tree
  BY DEF storeVars
<1>2. IdsOK'
  BY <1>1 DEF Base, IdsOK, Stored
<1>3. \A d \in Caller \ {c} : CallOK(d)'
  BY <1>1, OtherCalls DEF Base
<1> QED
  BY <1>2, <1>3 DEF Base, LocalsOK, StepOf

\* What is left to show of a step that leaves the store alone.
LEMMA LocalStep ==
  ASSUME IInv, NEW c \in Caller, StepOf(c), UNCHANGED storeVars, CallOK(c)',
         pc'[c] \in MovePcs /\ Moves(c)'
           => Apart(Change(c).id, Change(c).patch.parent)'
  PROVE  IInv'
<1>1. IdsOK' /\ Acyclic' /\ \A id, p : Apart(id, p) => Apart(id, p)'
  BY StoreSame DEF IInv, Base
<1>2. \A d \in Caller \ {c} : CallOK(d)'
  BY OtherCalls DEF IInv, Base, storeVars
<1>3. LocalsOK'
  BY <1>2 DEF LocalsOK, StepOf
<1>4. \A d \in Caller \ {c} : pc'[d] \in MovePcs /\ Moves(d)'
        => Apart(Change(d).id, Change(d).patch.parent)'
  BY <1>1, OtherMoves DEF IInv, Base
<1>5. SafeMoves'
  BY <1>4 DEF SafeMoves
<1> QED
  BY <1>1, <1>3, <1>5 DEF IInv, Base

LEMMA QuietCall ==
  ASSUME Base, NEW c \in Caller, Quieter(c)
  PROVE  StepOf(c) /\ Quiet(c) /\ CallOK(c)'
<1>1. StepOf(c) /\ Quiet(c)
  BY QuietFrame DEF Base
<1>2. CallOK(c) /\ ask'[c] = ask[c] /\ minted' = minted
  BY <1>1 DEF Base, LocalsOK, Quiet, storeVars
<1>3. Named(ask[c])' = Named(ask[c]) /\ MovesNode(ask[c])' = MovesNode(ask[c])
  BY <1>2 DEF Named, MovesNode
<1>4. DraftOK(c)'
  BY <1>1, <1>2 DEF CallOK, Quiet, DraftOK
<1>5. at'[c] \in Nat \ {0} /\ pc'[c] \notin MovePcs
  BY <1>1, <1>2 DEF CallOK, Quiet
<1>6. CallOK(c)'
  BY <1>2, <1>3, <1>4, <1>5 DEF CallOK
<1> QED
  BY <1>1, <1>6

LEMMA QuietStep ==
  ASSUME IInv, NEW c \in Caller, Quieter(c)
  PROVE  IInv'
<1>1. StepOf(c) /\ Quiet(c) /\ CallOK(c)'
  BY QuietCall DEF IInv
<1> QED
  BY <1>1, LocalStep DEF Quiet

LEMMA DraftCall ==
  ASSUME Base, NEW c \in Caller, Drafter(c)
  PROVE  /\ StepOf(c) /\ UNCHANGED storeVars
         /\ pc'[c] \notin MovePcs /\ CallOK(c)'
<1> USE DEF Goto, NextEntry, RefuseCreate, MovePcs
<1>1. CallOK(c) /\ IdsOK /\ DOMAIN draft = Caller /\ DOMAIN pc = Caller
      /\ DOMAIN at = Caller /\ DOMAIN ask = Caller
  BY DEF Base, LocalsOK
<1>2. /\ StepOf(c) /\ UNCHANGED storeVars /\ UNCHANGED ask
      /\ pc'[c] \notin MovePcs /\ at'[c] \in {at[c], at[c] + 1}
      /\ DraftOK(c)'
  <2>1. CASE BeginCreate(c)
    <3>1. Entry(c) \in CreateEntry /\ Entry(c).patch.parent \in 0 .. minted
      BY <1>1, <2>1, EntryShape DEF BeginCreate, HasCreate, IsCopy, CopyEntry, Node, Top
    <3>2. Entry(c).patch =
            [parent |-> Entry(c).patch.parent, name |-> Entry(c).patch.name]
      BY <3>1 DEF CreateEntry
    <3>3. draft'[c] = Entry(c).patch /\ minted' = minted
      BY <1>1, <2>1 DEF BeginCreate, storeVars
    <3>4. DraftOK(c)'
      BY <3>1, <3>2, <3>3 DEF DraftOK
    <3> QED
      BY <1>1, <2>1, <3>4 DEF BeginCreate, StepOf, storeVars
  <2>2. CASE BeginCopy(c)
    <3>1. Entry(c).patch.parent \in 0 .. minted
      BY <1>1, <2>2, EntryShape DEF BeginCopy, HasCreate
    <3>2. minted' = minted
      BY <2>2 DEF BeginCopy, storeVars
    <3>3. CASE Entry(c).source \in Stored
      <4>1. draft'[c] = [parent |-> Entry(c).patch.parent,
                         name |-> tree[Entry(c).source].name]
        BY <1>1, <2>2, <3>3 DEF BeginCopy
      <4>2. DraftOK(c)'
        BY <3>1, <3>2, <4>1 DEF DraftOK
      <4> QED
        BY <1>1, <2>2, <3>3, <4>2 DEF BeginCopy, StepOf
    <3>4. CASE Entry(c).source \notin Stored
      <4>1. draft' = draft
        BY <2>2, <3>4 DEF BeginCopy
      <4>2. DraftOK(c)'
        BY <1>1, <3>2, <4>1 DEF DraftOK, CallOK
      <4> QED
        BY <1>1, <2>2, <3>4, <4>1, <4>2 DEF BeginCopy, StepOf
    <3> QED
      BY <3>3, <3>4
  <2>3. CASE FindUniqueName(c)
    <3>1. PICK p \in 0 .. minted, x \in {draft[c].name} : draft[c] = [parent |-> p, name |-> x]
      BY <1>1 DEF CallOK, DraftOK
    <3>2. PICK y : draft'[c] = [draft[c] EXCEPT !.name = y]
      BY <1>1, <2>3 DEF FindUniqueName
    <3>3. draft'[c] = [parent |-> p, name |-> y] /\ minted' = minted
      BY <2>3, <3>1, <3>2 DEF FindUniqueName, storeVars
    <3>4. DraftOK(c)'
      BY <3>1, <3>3 DEF DraftOK
    <3> QED
      BY <1>1, <2>3, <3>4 DEF FindUniqueName, StepOf
  <2> QED
    BY <2>1, <2>2, <2>3 DEF Drafter
<1>3. minted' = minted
  BY <1>2 DEF storeVars
<1>4. CallOK(c)'
  BY <1>1, <1>2, <1>3 DEF CallOK, Named, MovesNode
<1> QED
  BY <1>2, <1>4

LEMMA DraftStep ==
  ASSUME IInv, NEW c \in Caller, Drafter(c)
  PROVE  IInv'
<1>1. /\ StepOf(c) /\ UNCHANGED storeVars
      /\ pc'[c] \notin MovePcs /\ CallOK(c)'
  BY DraftCall DEF IInv
<1> QED
  BY <1>1, LocalStep

LEMMA CheckerCall ==
  ASSUME Base, NEW c \in Caller, MoveChecker(c)
  PROVE  /\ StepOf(c) /\ UNCHANGED storeVars /\ UNCHANGED ask
         /\ \/ at' = at /\ at[c] \in DOMAIN ask[c].updates
            \/ at'[c] = at[c] + 1 /\ pc'[c] \notin MovePcs
         /\ CallOK(c)'
<1> USE DEF Goto, NextEntry
<1>1. /\ CallOK(c) /\ IdsOK /\ DOMAIN draft = Caller /\ DOMAIN pc = Caller
      /\ DOMAIN at = Caller /\ DOMAIN ask = Caller
  BY DEF Base, LocalsOK
<1>2. /\ StepOf(c) /\ UNCHANGED storeVars /\ UNCHANGED ask /\ draft' = draft
      /\ \/ at' = at /\ at[c] \in DOMAIN ask[c].updates
         \/ at'[c] = at[c] + 1 /\ pc'[c] \notin MovePcs
  <2>1. HasUpdate(c) => at[c] \in DOMAIN ask[c].updates
    <3>1. ask[c].updates \in Seq(UpdateEntry)
      BY <1>1, RequestShape DEF CallOK
    <3> QED
      BY <1>1, <3>1 DEF HasUpdate, CallOK
  <2>2. CASE SkipMoveChecks(c)
    BY <1>1, <2>1, <2>2 DEF SkipMoveChecks, StepOf, workVars, storeVars
  <2>3. CASE CheckMoveCycle(c)
    BY <1>1, <2>1, <2>3 DEF CheckMoveCycle, StepOf, storeVars, MovePcs, HasUpdate
  <2>4. CASE ReadMoveDepth(c)
    BY <1>1, <2>4 DEF ReadMoveDepth, StepOf, storeVars, MovePcs, CallOK
  <2>5. CASE CheckMoveDepth(c)
    BY <1>1, <2>5 DEF CheckMoveDepth, StepOf, storeVars, workVars, MovePcs, CallOK
  <2> QED
    BY <2>2, <2>3, <2>4, <2>5 DEF MoveChecker
<1>3. minted' = minted /\ tree' = tree
  BY <1>2 DEF storeVars
<1>4. DraftOK(c)'
  BY <1>1, <1>2, <1>3 DEF CallOK, DraftOK
<1>5. Named(ask[c])' = Named(ask[c]) /\ MovesNode(ask[c])' = MovesNode(ask[c])
  BY <1>2 DEF Named, MovesNode
<1>6. at'[c] \in Nat \ {0} /\ (pc'[c] \in MovePcs => at'[c] \in DOMAIN ask'[c].updates)
  BY <1>1, <1>2 DEF CallOK
<1>7. CallOK(c)'
  BY <1>1, <1>2, <1>3, <1>4, <1>5, <1>6 DEF CallOK
<1> QED
  BY <1>2, <1>7

LEMMA CheckerStep ==
  ASSUME IInv, NEW c \in Caller, MoveChecker(c)
  PROVE  IInv'
<1> USE DEF Goto, NextEntry
<1>1. /\ CallOK(c) /\ IdsOK /\ DOMAIN draft = Caller /\ DOMAIN pc = Caller
      /\ DOMAIN at = Caller /\ DOMAIN ask = Caller
  BY DEF IInv, Base, LocalsOK
<1>2. /\ StepOf(c) /\ UNCHANGED storeVars /\ UNCHANGED ask
      /\ \/ at' = at /\ at[c] \in DOMAIN ask[c].updates
         \/ at'[c] = at[c] + 1 /\ pc'[c] \notin MovePcs
      /\ CallOK(c)'
  BY CheckerCall DEF IInv
<1>8. ASSUME pc'[c] \in MovePcs, Moves(c)'
      PROVE  Apart(Change(c).id, Change(c).patch.parent)'
  <2>1. at' = at /\ at[c] \in DOMAIN ask[c].updates
    BY <1>2, <1>8
  <2>2. Change(c)' = Change(c) /\ Moves(c)
    BY <1>2, <1>8, <2>1 DEF Change, Moves
  <2>3. PICK i, p : i = Change(c).id /\ p = Change(c).patch.parent
    OBVIOUS
  <2>4. Apart(i, p)
    <3>1. CASE CheckMoveCycle(c)
      <4>1. p \notin Descendants(i) /\ p # i
        BY <1>1, <1>8, <2>3, <3>1 DEF CheckMoveCycle, MovePcs, HasUpdate
      <4>2. i \in Node
        BY <1>1, <2>1, <2>3, ChangeShape DEF UpdateEntry
      <4> QED
        BY <1>1, <4>1, <4>2, NotDescendantApart
    <3>2. CASE pc[c] \in MovePcs
      BY <2>2, <2>3, <3>2 DEF IInv, Base, SafeMoves
    <3>3. CASE SkipMoveChecks(c)
      BY <2>2, <3>3 DEF SkipMoveChecks
    <3> QED
      BY <3>1, <3>2, <3>3 DEF MoveChecker, ReadMoveDepth, CheckMoveDepth, MovePcs
  <2>5. Apart(i, p)'
    BY <1>1, <1>2, <2>4, StoreSame DEF IInv, Base
  <2> QED
    BY <2>2, <2>3, <2>5 DEF Apart
<1> QED
  BY <1>2, <1>8, LocalStep

\* A call begins, or its response goes out.
LEMMA CallCall ==
  ASSUME Base, NEW c \in Caller, Start(c) \/ Reply(c)
  PROVE  /\ StepOf(c) /\ UNCHANGED storeVars
         /\ pc'[c] \notin MovePcs /\ CallOK(c)'
<1> USE DEF Goto, MovePcs
<1>1. /\ CallOK(c) /\ IdsOK /\ DOMAIN draft = Caller /\ DOMAIN pc = Caller
      /\ DOMAIN at = Caller /\ DOMAIN ask = Caller
  BY DEF Base, LocalsOK
<1>2. CASE Start(c)
  <2>1. PICK r \in Request : /\ Named(r) \subseteq 1 .. minted
                             /\ MovesNode(r) => c \in Mover
                             /\ ask' = [ask EXCEPT ![c] = r]
    BY <1>2 DEF Start
  <2>2. /\ StepOf(c) /\ UNCHANGED storeVars /\ ask'[c] = r /\ pc'[c] = "create"
        /\ at' = at /\ draft' = draft /\ minted' = minted
    BY <1>1, <1>2, <2>1 DEF Start, StepOf, workVars, storeVars
  <2>3. Named(ask[c])' = Named(r) /\ MovesNode(ask[c])' = MovesNode(r)
    BY <2>2 DEF Named, MovesNode
  <2>4. DraftOK(c)'
    BY <1>1, <2>2 DEF CallOK, DraftOK
  <2>5. CallOK(c)'
    BY <1>1, <2>1, <2>2, <2>3, <2>4 DEF CallOK
  <2> QED
    BY <2>2, <2>5
<1>3. CASE Reply(c)
  <2>1. /\ StepOf(c) /\ UNCHANGED storeVars /\ ask'[c] = NoRequest /\ pc'[c] = "idle"
        /\ at'[c] = 1 /\ draft'[c] = NoDraft /\ minted' = minted
    BY <1>1, <1>3 DEF Reply, StepOf, storeVars
  <2>2. Named(ask[c])' = {} /\ ~MovesNode(ask[c])'
    <3>1. /\ DOMAIN NoRequest.creates = {} /\ DOMAIN NoRequest.updates = {}
          /\ DOMAIN NoRequest.destroys = {}
      BY DEF NoRequest
    <3>2. Named(NoRequest) = {} /\ ~MovesNode(NoRequest)
      BY <3>1 DEF Named, MovesNode
    <3>3. Named(ask[c])' = Named(NoRequest) /\ MovesNode(ask[c])' = MovesNode(NoRequest)
      BY <2>1 DEF Named, MovesNode
    <3> QED
      BY <3>2, <3>3
  <2>3. DraftOK(c)'
    <3>1. 0 \in 0 .. minted'
      BY <1>1, <2>1 DEF IdsOK
    <3>2. draft'[c] = [parent |-> 0, name |-> <<>>]
      BY <2>1 DEF NoDraft, Top
    <3> QED
      BY <3>1, <3>2 DEF DraftOK
  <2>4. CallOK(c)'
    BY <2>1, <2>2, <2>3 DEF CallOK
  <2> QED
    BY <2>1, <2>4
<1> QED
  BY <1>2, <1>3

LEMMA CallStep ==
  ASSUME IInv, NEW c \in Caller, Start(c) \/ Reply(c)
  PROVE  IInv'
<1>1. /\ StepOf(c) /\ UNCHANGED storeVars
      /\ pc'[c] \notin MovePcs /\ CallOK(c)'
  BY CallCall DEF IInv
<1> QED
  BY <1>1, LocalStep

\* What Store changes.
Stores(c) ==
  /\ StepOf(c) /\ ask' = ask /\ draft' = draft /\ pc'[c] = "create"
  /\ at'[c] = at[c] + 1 /\ minted' = minted + 1 /\ minted < MaxNode
  /\ tree' = [n \in Stored \cup {minted + 1} |->
                IF n = minted + 1 THEN draft[c] ELSE tree[n]]
  /\ draft[c].parent \in 0 .. minted

LEMMA StoreBase ==
  ASSUME Base, NEW c \in Caller, Store(c)
  PROVE  Stores(c) /\ Base'
<1>1. /\ CallOK(c) /\ IdsOK /\ DOMAIN draft = Caller /\ DOMAIN pc = Caller
      /\ DOMAIN at = Caller /\ DOMAIN ask = Caller
  BY DEF Base, LocalsOK
<1>2. /\ StepOf(c) /\ ask' = ask /\ draft' = draft /\ pc'[c] = "create"
      /\ at'[c] = at[c] + 1 /\ minted' = minted + 1 /\ minted < MaxNode
      /\ tree' = [n \in Stored \cup {minted + 1} |->
                    IF n = minted + 1 THEN draft[c] ELSE tree[n]]
  BY <1>1 DEF Store, StepOf, NextEntry, Goto, workVars
<1>3. draft[c].parent \in 0 .. minted
  BY <1>1 DEF CallOK, DraftOK
<1>4. IdsOK'
  <2>1. Stored' = Stored \cup {minted + 1}
    BY <1>2 DEF Stored
  <2>2. \A n \in Stored' : tree'[n].parent \in 0 .. minted + 1
    BY <1>1, <1>2, <1>3, <2>1 DEF IdsOK
  <2>3. minted' \in 0 .. MaxNode /\ minted + 1 \in 1 .. minted'
    BY <1>1, <1>2, BoundsAssumption DEF IdsOK
  <2>4. Stored' \subseteq 1 .. minted'
    BY <1>1, <1>2, <2>1, <2>3 DEF IdsOK
  <2> QED
    BY <1>2, <2>2, <2>3, <2>4 DEF IdsOK
<1>6. \A d \in Caller \ {c} : CallOK(d)'
  BY <1>1, <1>2, OtherCalls DEF Base
<1>7. CallOK(c)'
  <2>1. minted \in Nat /\ Named(ask[c])' = Named(ask[c])
        /\ MovesNode(ask[c])' = MovesNode(ask[c])
    BY <1>1, <1>2 DEF Named, MovesNode, IdsOK
  <2>2. 1 .. minted \subseteq 1 .. minted' /\ 0 .. minted \subseteq 0 .. minted'
    BY <1>2, <2>1
  <2>3. DraftOK(c)'
    BY <1>1, <1>2, <2>2 DEF CallOK, DraftOK
  <2> QED
    BY <1>1, <1>2, <2>1, <2>2, <2>3 DEF CallOK, MovePcs
<1> QED
  BY <1>2, <1>3, <1>4, <1>6, <1>7 DEF Base, Stores, LocalsOK, StepOf

LEMMA StoreStep ==
  ASSUME IInv, NEW c \in Caller, Store(c)
  PROVE  IInv'
<1>1. IdsOK /\ LocalsOK /\ Base'
  BY StoreBase DEF IInv, Base
<1>2. Stores(c)
  BY StoreBase DEF IInv
<1> USE DEF Stores
<1>5. Acyclic'
  BY <1>1, <1>2, StoreKeepsForest DEF IInv
<1>8. \A d \in Caller \ {c} : pc'[d] \in MovePcs /\ Moves(d)'
        => Apart(Change(d).id, Change(d).patch.parent)'
  <2>1. TAKE d \in Caller \ {c}
  <2>2. HAVE pc'[d] \in MovePcs /\ Moves(d)'
  <2>3. CallOK(d) /\ pc'[d] = pc[d] /\ Change(d)' = Change(d)
    BY <1>2 DEF IInv, Base, LocalsOK, StepOf, Change
  <2>4. "parent" \in DOMAIN Change(d).patch /\ at[d] \in DOMAIN ask[d].updates
    BY <2>2, <2>3 DEF Moves, CallOK
  <2>5. Change(d).patch.parent \in 1 .. minted \cup {Top}
    BY <2>3, <2>4, ChangeShape
  <2>6. \A id, p : Apart(id, p) /\ id = Change(d).id /\ p = Change(d).patch.parent
          => Apart(id, p)'
    <3>1. minted + 1 \notin 1 .. minted \cup {Top}
      BY <1>1 DEF IdsOK, Top
    <3> QED
      BY <1>1, <1>2, <2>5, <3>1, StoreKeepsApart
  <2> QED
    BY <1>2, <2>2, <2>6, OtherMoves DEF IInv, Base
<1> QED
  BY <1>1, <1>2, <1>5, <1>8 DEF IInv, SafeMoves, MovePcs

\* What DestroyNext changes.
Destroys(c) ==
  /\ StepOf(c) /\ ask' = ask /\ draft' = draft /\ minted' = minted
  /\ pc'[c] \notin MovePcs /\ at'[c] \in {at[c], at[c] + 1}
  /\ \/ tree' = tree
     \/ \E n \in Stored : tree' = [m \in Stored \ {n} |-> tree[m]]

LEMMA DestroyBase ==
  ASSUME Base, NEW c \in Caller, DestroyNext(c)
  PROVE  Destroys(c) /\ Base'
<1> USE DEF Goto, NextEntry, RefuseCreate
<1>1. /\ CallOK(c) /\ IdsOK /\ DOMAIN draft = Caller /\ DOMAIN pc = Caller
      /\ DOMAIN at = Caller /\ DOMAIN ask = Caller
  BY DEF Base, LocalsOK
<1>2. /\ StepOf(c) /\ ask' = ask /\ draft' = draft /\ minted' = minted
      /\ pc'[c] \notin MovePcs /\ at'[c] \in {at[c], at[c] + 1}
      /\ \/ tree' = tree
         \/ \E n \in Stored : tree' = [m \in Stored \ {n} |-> tree[m]]
  <2>1. CASE Head(queue[c]) \in Stored
    BY <1>1, <2>1 DEF DestroyNext, NotFound, AfterDestroy, StepOf, MovePcs
  <2>2. CASE Head(queue[c]) \notin Stored
    BY <1>1, <2>2 DEF DestroyNext, NotFound, AbortDestroy, StepOf, MovePcs
  <2> QED
    BY <2>1, <2>2
<1>3. IdsOK'
  <2>1. CASE tree' = tree
    BY <1>1, <1>2, <2>1 DEF IdsOK, Stored
  <2>2. ASSUME NEW n \in Stored, tree' = [m \in Stored \ {n} |-> tree[m]]
        PROVE  IdsOK'
    <3>1. Stored' = Stored \ {n} /\ \A m \in Stored' : tree'[m] = tree[m]
      BY <2>2 DEF Stored
    <3> QED
      BY <1>1, <1>2, <3>1 DEF IdsOK
  <2> QED
    BY <1>2, <2>1, <2>2
<1>4. \A d \in Caller \ {c} : CallOK(d)'
  BY <1>1, <1>2, OtherCalls DEF Base
<1>5. CallOK(c)'
  <2>1. Named(ask[c])' = Named(ask[c]) /\ MovesNode(ask[c])' = MovesNode(ask[c])
    BY <1>2 DEF Named, MovesNode
  <2>2. DraftOK(c)'
    BY <1>1, <1>2 DEF CallOK, DraftOK
  <2>3. at'[c] \in Nat \ {0}
    BY <1>1, <1>2 DEF CallOK
  <2> QED
    BY <1>1, <1>2, <2>1, <2>2, <2>3 DEF CallOK
<1> QED
  BY <1>2, <1>3, <1>4, <1>5 DEF Base, Destroys, LocalsOK, StepOf

LEMMA DestroyStepKeeps ==
  ASSUME IInv, NEW c \in Caller, DestroyNext(c)
  PROVE  IInv'
<1>1. Destroys(c) /\ Base'
  BY DestroyBase DEF IInv
<1>2. Acyclic' /\ \A id, p : Apart(id, p) => Apart(id, p)'
  <2>1. CASE tree' = tree
    BY <1>1, <2>1, StoreSame DEF IInv, Base, storeVars, Destroys
  <2>2. ASSUME NEW n \in Stored, tree' = [m \in Stored \ {n} |-> tree[m]]
        PROVE  Acyclic' /\ \A id, p : Apart(id, p) => Apart(id, p)'
    BY <2>2, DestroyKeepsForest DEF IInv
  <2> QED
    BY <1>1, <2>1, <2>2 DEF Destroys
<1>3. \A d \in Caller \ {c} : pc'[d] \in MovePcs /\ Moves(d)'
        => Apart(Change(d).id, Change(d).patch.parent)'
  BY <1>1, <1>2, OtherMoves DEF IInv, Destroys
<1> QED
  BY <1>1, <1>2, <1>3 DEF IInv, SafeMoves, Destroys

\* What Patch changes.
Patches(c, id, patch) ==
  /\ StepOf(c) /\ ask' = ask /\ draft' = draft /\ minted' = minted
  /\ pc[c] = "patch" /\ pc'[c] = "update" /\ at'[c] = at[c] + 1
  /\ id = Change(c).id /\ patch = Change(c).patch
  /\ id \in 1 .. minted /\ id \in Node
  /\ "parent" \in DOMAIN patch => patch.parent \in 0 .. minted /\ c \in Mover
  /\ tree' = [n \in Stored |-> IF n = id THEN Patched(tree[n], patch) ELSE tree[n]]
  /\ Stored' = Stored
  /\ \A node : Patched(node, patch).parent =
                 IF "parent" \in DOMAIN patch THEN patch.parent ELSE node.parent

LEMMA PatchBase ==
  ASSUME Base, NEW c \in Caller, Patch(c)
  PROVE  Base' /\ \E id, patch : Patches(c, id, patch)
<1>1. /\ CallOK(c) /\ IdsOK /\ DOMAIN draft = Caller /\ DOMAIN pc = Caller
      /\ DOMAIN at = Caller /\ DOMAIN ask = Caller
  BY DEF Base, LocalsOK
<1>2. /\ StepOf(c) /\ ask' = ask /\ draft' = draft /\ minted' = minted
      /\ pc[c] = "patch" /\ pc'[c] = "update" /\ at'[c] = at[c] + 1
  BY <1>1 DEF Patch, StepOf, NextEntry, Goto, workVars
<1>3. PICK id, patch : id = Change(c).id /\ patch = Change(c).patch
  OBVIOUS
<1>4. at[c] \in DOMAIN ask[c].updates
  BY <1>1, <1>2 DEF CallOK, MovePcs
<1>5. /\ Change(c) \in UpdateEntry /\ id \in 1 .. minted /\ id \in Node
      /\ "parent" \in DOMAIN patch => patch.parent \in 0 .. minted /\ c \in Mover
  BY <1>1, <1>3, <1>4, ChangeShape DEF UpdateEntry, IdsOK, Top
<1>6. tree' = [n \in Stored |-> IF n = id THEN Patched(tree[n], patch) ELSE tree[n]]
  BY <1>3 DEF Patch
<1>7. Stored' = Stored
  BY <1>6 DEF Stored
<1>8. \A node : Patched(node, patch).parent =
                  IF "parent" \in DOMAIN patch THEN patch.parent ELSE node.parent
  BY DEF Patched
<1>9. IdsOK'
  BY <1>1, <1>2, <1>5, <1>6, <1>7, <1>8 DEF IdsOK
<1>10. \A d \in Caller \ {c} : CallOK(d)'
  BY <1>1, <1>2, OtherCalls DEF Base
<1>11. CallOK(c)'
  <2>1. Named(ask[c])' = Named(ask[c]) /\ MovesNode(ask[c])' = MovesNode(ask[c])
    BY <1>2 DEF Named, MovesNode
  <2>2. DraftOK(c)'
    BY <1>1, <1>2 DEF CallOK, DraftOK
  <2> QED
    BY <1>1, <1>2, <2>1, <2>2 DEF CallOK, MovePcs
<1>12. Patches(c, id, patch)
  BY <1>2, <1>3, <1>5, <1>6, <1>7, <1>8 DEF Patches
<1> QED
  BY <1>2, <1>9, <1>10, <1>11, <1>12 DEF Base, LocalsOK, StepOf

\* A patch moves the node only under one kept apart, and, being the only
\* mover's, past no other checked move.
LEMMA PatchStep ==
  ASSUME IInv, OneMover, NEW c \in Caller, Patch(c)
  PROVE  IInv'
<1>0. Base' /\ \E id, patch : Patches(c, id, patch)
  BY PatchBase DEF IInv
<1>1. IdsOK /\ LocalsOK
  BY DEF IInv, Base
<1>2. PICK id, patch : Patches(c, id, patch)
  BY <1>0
<1> USE DEF Patches
<1>12. /\ Acyclic'
       /\ \A d \in Caller \ {c} : pc'[d] \in MovePcs /\ Moves(d)'
            => Apart(Change(d).id, Change(d).patch.parent)'
  <2>1. CASE "parent" \in DOMAIN patch
    <3>1. patch.parent = Top \/ Apart(id, patch.parent)
      BY <1>2, <2>1 DEF IInv, SafeMoves, Moves, MovePcs
    <3>2. Acyclic'
      <4>1. CASE id \in Stored
        <5>1. PICK u : u = Patched(tree[id], patch)
          OBVIOUS
        <5>2. tree' = [n \in Stored |-> IF n = id THEN u ELSE tree[n]]
          BY <1>2, <5>1
        <5>3. u.parent = patch.parent
          BY <1>2, <2>1, <5>1
        <5> QED
          BY <1>1, <1>2, <3>1, <5>2, <5>3, MoveKeepsForest DEF IInv
      <4>2. CASE id \notin Stored
        <5>1. \A n \in Stored : tree'[n].parent = tree[n].parent
          BY <1>2, <4>2
        <5> QED
          BY <1>2, <5>1, SameParents DEF IInv
      <4> QED
        BY <4>1, <4>2
    <3>3. ASSUME NEW d \in Caller \ {c}, pc'[d] \in MovePcs, Moves(d)'
          PROVE  FALSE
      <4>1. CallOK(d) /\ pc'[d] = pc[d] /\ Change(d)' = Change(d)
        BY <1>1, <1>2 DEF LocalsOK, StepOf, Change
      <4>2. "parent" \in DOMAIN Change(d).patch /\ at[d] \in DOMAIN ask[d].updates
        BY <3>3, <4>1 DEF Moves, CallOK
      <4>3. d \in Mover /\ c \in Mover
        BY <1>2, <2>1, <4>1, <4>2, ChangeShape
      <4> QED
        BY <4>3 DEF OneMover
    <3> QED
      BY <3>2, <3>3
  <2>2. CASE "parent" \notin DOMAIN patch
    <3>1. \A n \in Stored : tree'[n].parent = tree[n].parent
      BY <1>2, <2>2
    <3>2. Acyclic' /\ \A i, p : Apart(i, p) => Apart(i, p)'
      BY <1>2, <3>1, SameParents DEF IInv
    <3> QED
      BY <1>2, <3>2, OtherMoves DEF IInv
  <2> QED
    BY <2>1, <2>2
<1> QED
  BY <1>0, <1>2, <1>12 DEF IInv, SafeMoves, MovePcs

-----------------------------------------------------------------------------
LEMMA IInvInit == ASSUME Init PROVE IInv
<1>1. IdsOK
  BY BoundsAssumption DEF Init, IdsOK, Stored
<1>2. ASSUME NEW c \in Caller
      PROVE  CallOK(c) /\ pc[c] = "idle"
  <2>1. ask[c] = NoRequest /\ at[c] = 1 /\ draft[c] = NoDraft /\ pc[c] = "idle"
    BY <1>2 DEF Init
  <2>2. /\ DOMAIN NoRequest.creates = {} /\ DOMAIN NoRequest.updates = {}
        /\ DOMAIN NoRequest.destroys = {}
    BY DEF NoRequest
  <2>3. Named(NoRequest) = {} /\ ~MovesNode(NoRequest)
    BY <2>2 DEF Named, MovesNode
  <2>4. DraftOK(c)
    <3>1. 0 \in 0 .. minted /\ draft[c] = [parent |-> 0, name |-> <<>>]
      BY <1>1, <2>1 DEF IdsOK, NoDraft, Top
    <3> QED
      BY <3>1 DEF DraftOK
  <2> QED
    BY <2>1, <2>3, <2>4 DEF CallOK, MovePcs
<1>3. LocalsOK
  BY <1>2 DEF Init, LocalsOK
<1>4. SafeMoves
  BY <1>2 DEF SafeMoves, MovePcs
<1> QED
  BY <1>1, <1>3, <1>4 DEF Init, IInv, Base

\* Nothing changes in a stuttering step.
LEMMA StutterStep == ASSUME IInv, UNCHANGED vars PROVE IInv'
<1>1. /\ tree' = tree /\ minted' = minted /\ pc' = pc /\ ask' = ask
      /\ at' = at /\ draft' = draft
  BY DEF vars
<1>2. IdsOK' /\ Acyclic' /\ \A id, p : Apart(id, p) => Apart(id, p)'
  BY <1>1, StoreSame DEF IInv, Base, storeVars
<1>3. \A c \in Caller : CallOK(c)'
  <2>1. TAKE c \in Caller
  <2>2. CallOK(c)
    BY DEF IInv, Base, LocalsOK
  <2>3. Named(ask[c])' = Named(ask[c]) /\ MovesNode(ask[c])' = MovesNode(ask[c])
    BY <1>1 DEF Named, MovesNode
  <2> QED
    BY <1>1, <2>2, <2>3 DEF CallOK, DraftOK
<1>4. SafeMoves'
  BY <1>1, <1>2 DEF IInv, Base, SafeMoves, Moves, Change, Apart, Children, Stored
<1> QED
  BY <1>1, <1>2, <1>3, <1>4 DEF IInv, Base, LocalsOK

\* The tree of an account stays a forest while the calls of any number of
\* callers create, replace, copy and destroy nodes and one caller moves them,
\* each handler checking first and writing later
\* (handle_filenode_set, handle_filenode_copy).
THEOREM Forest == Spec => []ForestKept
<1>1. CASE ~OneMover
  <2>1. ForestKept
    BY <1>1 DEF ForestKept, OneMover
  <2>2. ForestKept'
    BY <1>1 DEF ForestKept, OneMover
  <2> QED
    BY <2>1, <2>2, PTL DEF Spec
<1>2. CASE OneMover
  <2>1. Init => IInv
    BY IInvInit
  <2>2. IInv /\ [Next]_vars => IInv'
    BY <1>2, Steps, StutterStep, QuietStep, DraftStep, CheckerStep, CallStep,
       StoreStep, PatchStep, DestroyStepKeeps
  <2>3. IInv => ForestKept
    BY DEF IInv, Base, ForestKept
  <2> QED
    BY <2>1, <2>2, <2>3, PTL DEF Spec
<1> QED
  BY <1>1, <1>2

-----------------------------------------------------------------------------
(* What a call has in its hands: types, and nodes destroyed once.          *)

LEMMA BaseStutter == ASSUME Base, UNCHANGED vars PROVE Base'
<1>1. /\ tree' = tree /\ minted' = minted /\ pc' = pc /\ ask' = ask
      /\ at' = at /\ draft' = draft
  BY DEF vars
<1>2. ASSUME NEW c \in Caller PROVE CallOK(c)'
  <2>1. CallOK(c)
    BY DEF Base, LocalsOK
  <2>2. Named(ask[c])' = Named(ask[c]) /\ MovesNode(ask[c])' = MovesNode(ask[c])
    BY <1>1 DEF Named, MovesNode
  <2> QED
    BY <1>1, <2>1, <2>2 DEF CallOK, DraftOK
<1> QED
  BY <1>1, <1>2 DEF Base, IdsOK, LocalsOK, Stored

LEMMA BaseNext == ASSUME Base, [Next]_vars PROVE Base'
<1>1. ASSUME NEW c \in Caller, Quieter(c) PROVE Base'
  BY <1>1, QuietCall, LocalBase DEF Quiet
<1>2. ASSUME NEW c \in Caller, Drafter(c) PROVE Base'
  BY <1>2, DraftCall, LocalBase
<1>3. ASSUME NEW c \in Caller, MoveChecker(c) PROVE Base'
  BY <1>3, CheckerCall, LocalBase
<1>4. ASSUME NEW c \in Caller, Start(c) \/ Reply(c) PROVE Base'
  BY <1>4, CallCall, LocalBase
<1> QED
  BY <1>1, <1>2, <1>3, <1>4, StoreBase, PatchBase, DestroyBase, BaseStutter, Steps

\* Where a call holds nodes it is about to destroy, and where it is at a create.
DestroyPcs == {"replaced", "replace", "remove", "erase"}
CreatePcs == {"cycle", "depth", "sibling", "unique", "store", "replaced", "replace"}

WorkOK(c) ==
  /\ queue[c] \in Seq(Node) /\ copied[c] \in Seq(Node) /\ destroyed[c] \in Seq(Node)
  /\ queue[c] # <<>> <=> pc[c] \in DestroyPcs
  /\ pc[c] \in CreatePcs => at[c] <= Len(ask[c].creates)
  /\ made[c] \subseteq 1 .. minted
  /\ \A i \in DOMAIN destroyed[c] : destroyed[c][i] <= minted

Working ==
  /\ DOMAIN queue = Caller /\ DOMAIN copied = Caller
  /\ DOMAIN destroyed = Caller /\ DOMAIN made = Caller
  /\ \A c \in Caller : WorkOK(c)

WorkOf(c) ==
  /\ DOMAIN queue' = Caller /\ DOMAIN copied' = Caller
  /\ DOMAIN destroyed' = Caller /\ DOMAIN made' = Caller
  /\ \A d \in Caller \ {c} :
       /\ queue'[d] = queue[d] /\ copied'[d] = copied[d]
       /\ destroyed'[d] = destroyed[d] /\ made'[d] = made[d]

LEMMA WorkOn ==
  ASSUME Base, Working, NEW c \in Caller, StepOf(c), WorkOf(c),
         minted' \in {minted, minted + 1}, WorkOK(c)'
  PROVE  Working'
<1>1. minted \in Nat
  BY DEF Base, IdsOK
<1>2. ASSUME NEW d \in Caller \ {c} PROVE WorkOK(d)'
  <2>1. /\ queue'[d] = queue[d] /\ copied'[d] = copied[d] /\ destroyed'[d] = destroyed[d]
        /\ made'[d] = made[d] /\ pc'[d] = pc[d] /\ at'[d] = at[d] /\ ask'[d] = ask[d]
    BY DEF WorkOf, StepOf
  <2>2. WorkOK(d)
    BY DEF Working
  <2>3. \A i \in DOMAIN destroyed[d] : destroyed[d][i] \in Nat
    <3>1. \A i \in DOMAIN destroyed[d] : destroyed[d][i] \in Node
      BY <2>2 DEF WorkOK
    <3> QED
      BY <3>1 DEF Node
  <2>4. 1 .. minted \subseteq 1 .. minted'
        /\ \A i \in DOMAIN destroyed[d] : destroyed[d][i] <= minted'
    BY <1>1, <2>2, <2>3 DEF WorkOK
  <2> QED
    BY <2>1, <2>2, <2>4 DEF WorkOK
<1> QED
  BY <1>2 DEF Working, WorkOf

\* A step that leaves what the call holds alone.
Holds(c) ==
  /\ UNCHANGED <<queue, copied, destroyed, made, minted>> /\ ask'[c] = ask[c]
  /\ pc[c] \notin DestroyPcs /\ pc'[c] \notin DestroyPcs
  /\ pc'[c] \in CreatePcs => at'[c] = at[c] /\ at[c] <= Len(ask[c].creates)

LEMMA HoldsOn ==
  ASSUME Base, Working, NEW c \in Caller, StepOf(c), Holds(c)
  PROVE  Working'
<1>1. WorkOK(c) /\ minted' \in {minted, minted + 1} /\ WorkOf(c)
  BY DEF Working, Holds, WorkOf
<1>2. WorkOK(c)'
  BY <1>1 DEF WorkOK, Holds
<1> QED
  BY <1>1, <1>2, WorkOn

LEMMA StepsOf ==
  ASSUME Base, NEW c \in Caller,
         CreateStep(c) \/ UpdateStep(c) \/ DestroyStep(c) \/ LoopStep(c)
  PROVE  StepOf(c)
<1>1. CASE Quieter(c)
  BY <1>1, QuietCall
<1>2. CASE Drafter(c)
  BY <1>2, DraftCall
<1>3. CASE MoveChecker(c)
  BY <1>3, CheckerCall
<1>4. CASE Start(c) \/ Reply(c)
  BY <1>4, CallCall
<1>5. CASE Store(c) \/ Patch(c) \/ DestroyNext(c)
  BY <1>5, StoreBase, PatchBase, DestroyBase DEF Stores, Patches, Destroys
<1> QED
  BY <1>1, <1>2, <1>3, <1>4, <1>5
     DEF CreateStep, UpdateStep, DestroyStep, LoopStep, Quieter, Drafter, MoveChecker

LEMMA BelowFinite ==
  ASSUME IdsOK, NEW id
  PROVE  /\ Descendants(id) \subseteq Stored
         /\ IsFiniteSet(Descendants(id)) /\ Cardinality(Descendants(id)) \in Nat
<1>1. Stored \subseteq 1 .. minted /\ minted \in Nat
  BY BoundsAssumption DEF IdsOK
<1>2. Descendants(id) \subseteq Stored
  BY DEF Descendants, Under
<1>3. IsFiniteSet(1 .. minted)
  BY <1>1, FS_Interval
<1>4. Descendants(id) \subseteq 1 .. minted
  BY <1>1, <1>2
<1>5. IsFiniteSet(Descendants(id))
  BY <1>3, <1>4, FS_Subset
<1> QED
  BY <1>2, <1>5, FS_CardinalityType

\* The walk below a node, in the order it was read or the other way round.
LEMMA WalkShape ==
  ASSUME Base, NEW id, NEW q \in Walks(id), NEW n \in Node
  PROVE  /\ Append(q, n) \in Seq(Node) /\ Append(q, n) # <<>>
         /\ Append(Reversed(q), n) \in Seq(Node) /\ Append(Reversed(q), n) # <<>>
<1>1. Stored \subseteq 1 .. minted /\ minted \in Nat /\ Stored \subseteq Node
  BY BoundsAssumption DEF Base, IdsOK, Node
<1>2. Descendants(id) \subseteq Stored
  BY BelowFinite DEF Base
<1>3. PICK k \in Nat : k = Cardinality(Descendants(id))
  BY BelowFinite DEF Base
<1>4. q \in [1 .. k -> Node]
  BY <1>1, <1>2, <1>3 DEF Walks
<1>5. q \in Seq(Node) /\ Len(q) = k
  BY <1>4, <1>3
<1>6. Reversed(q) \in [1 .. k -> Node]
  <2>1. DOMAIN q = 1 .. k
    BY <1>4
  <2>2. \A i \in 1 .. k : q[k + 1 - i] \in Node
    BY <1>4, <1>3
  <2> QED
    BY <1>5, <2>1, <2>2 DEF Reversed
<1>7. Reversed(q) \in Seq(Node)
  BY <1>6, <1>3
<1> QED
  BY <1>5, <1>7, AppendProperties

\* The steps that read and check.
LEMMA LookStep ==
  ASSUME Base, Working, NEW c \in Caller,
         \/ BeginCreate(c) \/ BeginCopy(c) \/ CheckCopyCycle(c) \/ CheckDepth(c)
         \/ FindUniqueName(c) \/ MoveChecker(c) \/ Patch(c)
         \/ EndCreates(c) \/ EndUpdates(c) \/ EndDestroys(c) \/ EndOriginals(c)
  PROVE  Working'
<1> USE DEF Holds, Goto, NextEntry, RefuseCreate, DestroyPcs, CreatePcs, storeVars, workVars,
            replyVars
<1>0. /\ DOMAIN pc = Caller /\ WorkOK(c) /\ DOMAIN at = Caller
      /\ StepOf(c)
  BY StepsOf DEF Base, LocalsOK, Working, CreateStep, UpdateStep, LoopStep, MoveChecker
<1>1. CASE BeginCreate(c)
  BY <1>0, <1>1, HoldsOn DEF BeginCreate, HasCreate
<1>2. CASE BeginCopy(c)
  BY <1>0, <1>2, HoldsOn DEF BeginCopy, HasCreate
<1>3. CASE CheckCopyCycle(c)
  BY <1>0, <1>3, HoldsOn DEF CheckCopyCycle, WorkOK
<1>4. CASE CheckDepth(c)
  BY <1>0, <1>4, HoldsOn DEF CheckDepth, WorkOK
<1>5. CASE FindUniqueName(c)
  BY <1>0, <1>5, HoldsOn DEF FindUniqueName, WorkOK
<1>6. CASE SkipMoveChecks(c)
  BY <1>0, <1>6, HoldsOn DEF SkipMoveChecks, HasUpdate
<1>7. CASE CheckMoveCycle(c)
  BY <1>0, <1>7, HoldsOn DEF CheckMoveCycle, HasUpdate
<1>8. CASE ReadMoveDepth(c)
  BY <1>0, <1>8, HoldsOn DEF ReadMoveDepth
<1>9. CASE CheckMoveDepth(c)
  BY <1>0, <1>9, HoldsOn DEF CheckMoveDepth
<1>10. CASE Patch(c)
  BY <1>0, <1>10, HoldsOn DEF Patch
<1>11. CASE EndCreates(c) \/ EndUpdates(c) \/ EndDestroys(c) \/ EndOriginals(c)
  BY <1>0, <1>11, HoldsOn DEF EndCreates, EndUpdates, EndDestroys, EndOriginals, EndLoop
<1> QED
  BY <1>1, <1>2, <1>3, <1>4, <1>5, <1>6, <1>7, <1>8, <1>9, <1>10, <1>11 DEF MoveChecker

\* The steps that read what is to be destroyed.
LEMMA QueueStep ==
  ASSUME Base, Working, NEW c \in Caller,
         FindSibling(c) \/ ReadReplaced(c) \/ ReadSubtree(c) \/ ReadOriginal(c)
  PROVE  Working'
<1> USE DEF Goto, NextEntry, RefuseCreate, storeVars, workVars, replyVars
<1>0. /\ DOMAIN pc = Caller /\ DOMAIN at = Caller /\ WorkOK(c) /\ StepOf(c)
      /\ DOMAIN queue = Caller /\ CallOK(c) /\ IdsOK
      /\ Stored \subseteq Node /\ 1 .. minted \subseteq Node
  <2>1. Stored \subseteq 1 .. minted /\ 1 .. minted \subseteq Node
    BY BoundsAssumption DEF Base, IdsOK, Node
  <2> QED
    BY <2>1, StepsOf DEF Base, LocalsOK, Working, CreateStep, DestroyStep
<1>1. ASSUME queue'[c] \in Seq(Node), queue'[c] # <<>> <=> pc'[c] \in DestroyPcs,
             pc'[c] \in CreatePcs => at'[c] = at[c] /\ at[c] <= Len(ask[c].creates),
             UNCHANGED <<copied, destroyed, made, minted, ask>>, WorkOf(c)
      PROVE  Working'
  <2>1. WorkOK(c)'
    BY <1>0, <1>1 DEF WorkOK
  <2> QED
    BY <1>0, <1>1, <2>1, WorkOn
<1>2. UNCHANGED <<copied, destroyed, made, minted, ask>> /\ WorkOf(c)
  BY DEF FindSibling, ReadReplaced, ReadSubtree, ReadOriginal, Working, WorkOf
<1>3. \A n \in Node : <<n>> \in Seq(Node) /\ <<n>> # <<>>
  OBVIOUS
<1>4. <<>> \in Seq(Node)
  OBVIOUS
<1>5. CASE FindSibling(c)
  <2>1. pc[c] = "sibling" /\ queue[c] = <<>> /\ at[c] <= Len(ask[c].creates)
    BY <1>0, <1>5 DEF FindSibling, WorkOK, DestroyPcs, CreatePcs
  <2>2. CASE queue' = queue
    <3>1. pc'[c] \in {"store", "create", "unique"} /\ (pc'[c] # "create" => at' = at)
      BY <1>0, <1>5, <2>2, <1>3, <2>1 DEF FindSibling, Twins, Siblings
    <3> QED
      BY <1>1, <1>2, <1>4, <2>1, <2>2, <3>1 DEF DestroyPcs, CreatePcs
  <2>3. ASSUME NEW n \in Twins(c), queue' = [queue EXCEPT ![c] = <<n>>],
               pc' = [pc EXCEPT ![c] = "replaced"], at' = at
        PROVE  Working'
    <3>1. n \in Node
      BY <1>0 DEF Twins, Siblings
    <3>2. queue'[c] = <<n>> /\ pc'[c] = "replaced"
      BY <1>0, <2>3
    <3> QED
      BY <1>1, <1>2, <1>3, <2>1, <2>3, <3>1, <3>2 DEF DestroyPcs, CreatePcs
  <2> QED
    BY <1>5, <2>2, <2>3 DEF FindSibling
<1>6. CASE ReadReplaced(c)
  <2>1. pc[c] = "replaced" /\ queue[c] # <<>> /\ at[c] <= Len(ask[c].creates)
    BY <1>0, <1>6 DEF ReadReplaced, WorkOK, DestroyPcs, CreatePcs
  <2>2. Head(queue[c]) \in Node
    BY <1>0, <2>1, HeadTailProperties DEF WorkOK
  <2>3. CASE Descendants(Head(queue[c])) # {} /\ ~ask[c].removeChildren
    <3>1. queue'[c] = <<>> /\ pc'[c] = "create"
      BY <1>0, <1>6, <2>3 DEF ReadReplaced
    <3> QED
      BY <1>1, <1>2, <1>4, <3>1 DEF DestroyPcs, CreatePcs
  <2>4. CASE ~(Descendants(Head(queue[c])) # {} /\ ~ask[c].removeChildren)
    <3>1. PICK q \in Walks(Head(queue[c])) :
            queue' = [queue EXCEPT ![c] = Append(q, Head(queue[c]))]
      BY <1>6, <2>4 DEF ReadReplaced
    <3>2. pc'[c] = "replace" /\ at' = at
      BY <1>0, <1>6, <2>4 DEF ReadReplaced
    <3>3. queue'[c] \in Seq(Node) /\ queue'[c] # <<>>
      BY <1>0, <2>2, <3>1, WalkShape
    <3> QED
      BY <1>1, <1>2, <2>1, <3>2, <3>3 DEF DestroyPcs, CreatePcs
  <2> QED
    BY <2>3, <2>4
<1>7. CASE ReadSubtree(c)
  <2>1. Victim(c) \in Node
    <3>1. ask[c].destroys \in Seq(Node)
      BY <1>0, RequestShape DEF CallOK
    <3>2. at[c] \in DOMAIN ask[c].destroys
      BY <1>0, <1>7, <3>1 DEF ReadSubtree, CallOK
    <3> QED
      BY <3>1, <3>2 DEF Victim
  <2>2. queue[c] = <<>>
    BY <1>0, <1>7 DEF ReadSubtree, WorkOK, DestroyPcs
  <2>3. ASSUME NEW q \in Walks(Victim(c)), pc' = [pc EXCEPT ![c] = "remove"],
               queue' = [queue EXCEPT ![c] = Append(q, Victim(c))]
        PROVE  Working'
    <3>1. queue'[c] \in Seq(Node) /\ queue'[c] # <<>> /\ pc'[c] = "remove"
      BY <1>0, <2>1, <2>3, WalkShape
    <3> QED
      BY <1>1, <1>2, <3>1 DEF DestroyPcs, CreatePcs
  <2>4. ASSUME pc' = [pc EXCEPT ![c] = "remove"],
               queue' = [queue EXCEPT ![c] = <<Victim(c)>>]
        PROVE  Working'
    <3>1. queue'[c] \in Seq(Node) /\ queue'[c] # <<>> /\ pc'[c] = "remove"
      BY <1>0, <1>3, <2>1, <2>4
    <3> QED
      BY <1>1, <1>2, <3>1 DEF DestroyPcs, CreatePcs
  <2>5. ASSUME pc' = [pc EXCEPT ![c] = "destroy"], queue' = queue
        PROVE  Working'
    <3>1. pc'[c] = "destroy"
      BY <1>0, <2>5
    <3> QED
      BY <1>1, <1>2, <1>4, <2>2, <2>5, <3>1 DEF DestroyPcs, CreatePcs
  <2> QED
    BY <1>7, <2>3, <2>4, <2>5 DEF ReadSubtree
<1>8. CASE ReadOriginal(c)
  <2>1. Original(c) \in Node
    <3>1. copied[c] \in Seq(Node) /\ at[c] \in DOMAIN copied[c]
      BY <1>0, <1>8 DEF ReadOriginal, CallOK, WorkOK
    <3> QED
      BY <3>1 DEF Original
  <2>2. queue[c] = <<>>
    BY <1>0, <1>8 DEF ReadOriginal, WorkOK, DestroyPcs
  <2>3. ASSUME NEW q \in Walks(Original(c)), pc' = [pc EXCEPT ![c] = "erase"],
               queue' = [queue EXCEPT ![c] = Append(Reversed(q), Original(c))]
        PROVE  Working'
    <3>1. queue'[c] \in Seq(Node) /\ queue'[c] # <<>> /\ pc'[c] = "erase"
      BY <1>0, <2>1, <2>3, WalkShape
    <3> QED
      BY <1>1, <1>2, <3>1 DEF DestroyPcs, CreatePcs
  <2>4. ASSUME pc' = [pc EXCEPT ![c] = "original"], queue' = queue
        PROVE  Working'
    <3>1. pc'[c] = "original"
      BY <1>0, <2>4
    <3> QED
      BY <1>1, <1>2, <1>4, <2>2, <2>4, <3>1 DEF DestroyPcs, CreatePcs
  <2> QED
    BY <1>8, <2>3, <2>4 DEF ReadOriginal
<1> QED
  BY <1>5, <1>6, <1>7, <1>8

LEMMA StoreWorks ==
  ASSUME Base, Working, NEW c \in Caller, Store(c)
  PROVE  Working' /\ destroyed' = destroyed
<1>1. WorkOK(c) /\ minted \in Nat /\ DOMAIN pc = Caller /\ DOMAIN at = Caller /\ CallOK(c)
  BY DEF Base, LocalsOK, IdsOK, Working
<1>2. Stores(c)
  BY StoreBase
<1>3. /\ pc[c] = "store" /\ pc'[c] = "create" /\ queue' = queue /\ ask' = ask
      /\ destroyed' = destroyed /\ made' = [made EXCEPT ![c] = @ \cup {minted + 1}]
      /\ copied' = [copied EXCEPT ![c] =
                      IF IsCopy(Entry(c)) THEN Append(@, Entry(c).source) ELSE @]
  BY <1>2 DEF Store, Stores, workVars
<1>4. queue[c] = <<>> /\ at[c] <= Len(ask[c].creates)
  BY <1>1, <1>3 DEF WorkOK, DestroyPcs, CreatePcs
<1>5. IsCopy(Entry(c)) => Entry(c).source \in Node
  <2>1. Entry(c) \in CreateEntry \cup CopyEntry
    BY <1>1, <1>4, EntryShape DEF Base
  <2> QED
    BY <2>1 DEF CreateEntry, CopyEntry, IsCopy
<1>6. copied'[c] \in Seq(Node)
  BY <1>1, <1>3, <1>5, AppendProperties DEF WorkOK, Working
<1>7. made'[c] \subseteq 1 .. minted' /\ minted' = minted + 1
  BY <1>1, <1>2, <1>3 DEF WorkOK, Working, Stores
<1>8. \A i \in DOMAIN destroyed[c] : destroyed[c][i] <= minted'
  <2>1. \A i \in DOMAIN destroyed[c] : destroyed[c][i] \in Node
    BY <1>1 DEF WorkOK
  <2> QED
    BY <2>1, <1>1, <1>7 DEF WorkOK, Node
<1>9. WorkOK(c)'
  BY <1>1, <1>3, <1>4, <1>6, <1>7, <1>8 DEF WorkOK, DestroyPcs, CreatePcs
<1>10. WorkOf(c)
  BY <1>3 DEF WorkOf, Working
<1> QED
  BY <1>2, <1>3, <1>7, <1>9, <1>10, WorkOn DEF Stores

\* What DestroyNext does to the queue and to what was destroyed.
LEMMA DestroyWorks ==
  ASSUME Base, Working, NEW c \in Caller, DestroyNext(c)
  PROVE  /\ Working'
         /\ \/ tree' = tree /\ destroyed' = destroyed
            \/ \E n \in Stored : /\ tree' = [m \in Stored \ {n} |-> tree[m]]
                                 /\ destroyed' = [destroyed EXCEPT ![c] = Append(@, n)]
<1> USE DEF Goto, NextEntry, RefuseCreate
<1>1. /\ WorkOK(c) /\ IdsOK /\ DOMAIN pc = Caller /\ DOMAIN at = Caller
      /\ DOMAIN queue = Caller /\ DOMAIN destroyed = Caller
  BY DEF Base, LocalsOK, Working
<1>2. /\ StepOf(c) /\ UNCHANGED <<ask, minted, made, copied>>
      /\ pc[c] \in {"replace", "remove", "erase"}
  BY StepsOf DEF DestroyNext, DestroyStep
<1>3. queue[c] \in Seq(Node) /\ queue[c] # <<>>
  BY <1>1, <1>2 DEF WorkOK, DestroyPcs
<1>4. /\ Head(queue[c]) \in Node /\ Tail(queue[c]) \in Seq(Node)
      /\ Len(queue[c]) = 1 <=> Tail(queue[c]) = <<>>
  <2>1. /\ Head(queue[c]) \in Node /\ Tail(queue[c]) \in Seq(Node)
        /\ Len(Tail(queue[c])) = Len(queue[c]) - 1
    BY <1>3, HeadTailProperties
  <2>2. Len(queue[c]) \in Nat /\ (Tail(queue[c]) = <<>> <=> Len(Tail(queue[c])) = 0)
    BY <2>1, <1>3, LenProperties, EmptySeq
  <2> QED
    BY <2>1, <2>2
<1>5. pc[c] = "replace" => at[c] <= Len(ask[c].creates)
  BY <1>1 DEF WorkOK, CreatePcs
<1>6. CASE Head(queue[c]) \in Stored
  <2>1. PICK n \in Stored : n = Head(queue[c])
    BY <1>6
  <2>2. /\ tree' = [m \in Stored \ {n} |-> tree[m]]
        /\ destroyed' = [destroyed EXCEPT ![c] = Append(@, n)]
        /\ queue' = [queue EXCEPT ![c] = Tail(@)]
        /\ IF Len(queue[c]) = 1 THEN AfterDestroy(c) ELSE UNCHANGED <<pc, at>>
    BY <2>1 DEF DestroyNext, NotFound
  <2>3. queue'[c] = Tail(queue[c]) /\ destroyed'[c] = Append(destroyed[c], n)
    BY <1>1, <2>2
  <2>4. /\ destroyed'[c] \in Seq(Node)
        /\ \A i \in DOMAIN destroyed'[c] : destroyed'[c][i] <= minted
    <3>1. n \in Node /\ n <= minted
      BY <1>1, <1>4, <2>1 DEF IdsOK
    <3>2. /\ Append(destroyed[c], n) \in Seq(Node)
          /\ DOMAIN Append(destroyed[c], n) = 1 .. Len(destroyed[c]) + 1
          /\ \A i \in 1 .. Len(destroyed[c]) : Append(destroyed[c], n)[i] = destroyed[c][i]
          /\ Append(destroyed[c], n)[Len(destroyed[c]) + 1] = n
      BY <1>1, <3>1, AppendProperties, LenProperties DEF WorkOK
    <3>3. DOMAIN destroyed[c] = 1 .. Len(destroyed[c]) /\ Len(destroyed[c]) \in Nat
      BY <1>1, LenProperties DEF WorkOK
    <3> QED
      BY <1>1, <2>3, <3>1, <3>2, <3>3 DEF WorkOK
  <2>5. CASE Len(queue[c]) = 1
    <3>1. /\ queue'[c] = <<>> /\ pc'[c] \in {"store", "destroy", "original"}
          /\ pc'[c] = "store" => pc[c] = "replace" /\ at' = at
      BY <1>1, <1>2, <1>4, <2>2, <2>3, <2>5 DEF AfterDestroy
    <3>2. WorkOK(c)'
      BY <1>1, <1>2, <1>4, <1>5, <2>3, <2>4, <3>1 DEF WorkOK, DestroyPcs, CreatePcs
    <3> QED
      BY <1>2, <2>1, <2>2, <3>2, WorkOn DEF WorkOf, Working
  <2>6. CASE Len(queue[c]) # 1
    <3>1. queue'[c] # <<>> /\ UNCHANGED <<pc, at>>
      BY <1>4, <2>2, <2>3, <2>6
    <3>2. WorkOK(c)'
      BY <1>1, <1>2, <1>4, <1>5, <2>3, <2>4, <3>1 DEF WorkOK, DestroyPcs
    <3> QED
      BY <1>2, <2>1, <2>2, <3>2, WorkOn DEF WorkOf, Working
  <2> QED
    BY <2>5, <2>6
<1>7. CASE Head(queue[c]) \notin Stored
  <2>1. AbortDestroy(c)
    BY <1>7 DEF DestroyNext, NotFound
  <2>2. /\ queue' = [queue EXCEPT ![c] = <<>>] /\ UNCHANGED <<tree, destroyed>>
        /\ pc'[c] \in {"create", "destroy", "original"}
    BY <1>1, <2>1 DEF AbortDestroy
  <2>3. queue'[c] = <<>> /\ <<>> \in Seq(Node)
    BY <1>1, <2>2
  <2>4. WorkOK(c)'
    BY <1>1, <1>2, <2>2, <2>3 DEF WorkOK, DestroyPcs, CreatePcs
  <2> QED
    BY <1>2, <2>2, <2>4, WorkOn DEF WorkOf, Working
<1> QED
  BY <1>6, <1>7

LEMMA CallWorks ==
  ASSUME Base, Working, NEW c \in Caller, Start(c) \/ Reply(c)
  PROVE  Working'
<1> USE DEF Goto
<1>1. WorkOK(c) /\ DOMAIN pc = Caller /\ StepOf(c) /\ <<>> \in Seq(Node)
  BY StepsOf DEF Base, LocalsOK, Working, LoopStep
<1>2. CASE Start(c)
  <2>1. /\ UNCHANGED <<queue, copied, made, minted>> /\ pc[c] = "idle" /\ pc'[c] = "create"
        /\ destroyed' = [destroyed EXCEPT ![c] = <<>>]
    BY <1>1, <1>2 DEF Start, workVars, storeVars
  <2>2. destroyed'[c] = <<>> /\ DOMAIN <<>> = {}
    BY <2>1 DEF Working
  <2>3. WorkOK(c)'
    BY <1>1, <2>1, <2>2 DEF WorkOK, DestroyPcs, CreatePcs
  <2> QED
    BY <1>1, <2>1, <2>3, WorkOn DEF WorkOf, Working
<1>3. CASE Reply(c)
  <2>1. /\ UNCHANGED <<queue, destroyed, minted>> /\ pc[c] = "reply" /\ pc'[c] = "idle"
        /\ copied' = [copied EXCEPT ![c] = <<>>] /\ made' = [made EXCEPT ![c] = {}]
    BY <1>1, <1>3 DEF Reply, storeVars
  <2>2. copied'[c] = <<>> /\ made'[c] = {}
    BY <2>1 DEF Working
  <2>3. WorkOK(c)'
    BY <1>1, <2>1, <2>2 DEF WorkOK, DestroyPcs, CreatePcs
  <2> QED
    BY <1>1, <2>1, <2>3, WorkOn DEF WorkOf, Working
<1> QED
  BY <1>2, <1>3

LEMMA WorkNext ==
  ASSUME Base, Working, [Next]_vars
  PROVE  Working'
<1>1. CASE UNCHANGED vars
  <2>1. UNCHANGED <<queue, copied, destroyed, made, minted, pc, at, ask>>
    BY <1>1 DEF vars
  <2> QED
    BY <2>1 DEF Working, WorkOK
<1>2. CASE Next
  BY <1>2, LookStep, QueueStep, StoreWorks, DestroyWorks, CallWorks
     DEF Next, CreateStep, UpdateStep, DestroyStep, LoopStep, MoveChecker
<1> QED
  BY <1>1, <1>2

LEMMA WorkInit == ASSUME Init PROVE Base /\ Working
<1>1. Base
  BY IInvInit DEF IInv
<1>2. <<>> \in Seq(Node) /\ DOMAIN <<>> = {}
  OBVIOUS
<1>3. ASSUME NEW c \in Caller PROVE WorkOK(c)
  <2>1. /\ queue[c] = <<>> /\ copied[c] = <<>> /\ destroyed[c] = <<>>
        /\ pc[c] = "idle" /\ made[c] = {}
    BY DEF Init
  <2> QED
    BY <1>2, <2>1 DEF WorkOK, DestroyPcs, CreatePcs
<1> QED
  BY <1>1, <1>3 DEF Init, Working

\* Every stored node was minted and so was its parent, or it is at the top; a
\* call has nodes in hand to destroy exactly while it is destroying; and what
\* it reports as created was created (handle_filenode_set).
THEOREM Typing == Spec => []TypeOK
<1>1. Init => Base /\ Working
  BY WorkInit
<1>2. Base /\ Working /\ [Next]_vars => Base' /\ Working'
  BY BaseNext, WorkNext
<1>3. Base /\ Working => TypeOK
  BY DEF Base, IdsOK, Working, WorkOK, TypeOK, DestroyPcs, Top
<1> QED
  BY <1>1, <1>2, <1>3, PTL DEF Spec

-----------------------------------------------------------------------------
(* A node is destroyed once.  An id is minted once, and destroy_object     *)
(* takes only what the store has: what was destroyed cannot come again.    *)

LEMMA SameDestroyed ==
  ASSUME DestroyedOnce, Working, NEW more, more \cap 1 .. minted = {},
         Stored' \subseteq Stored \cup more, minted \in Nat,
         \A d \in Caller : destroyed'[d] = destroyed[d] \/ destroyed'[d] = <<>>
  PROVE  DestroyedOnce'
<1>1. DOMAIN <<>> = {}
  OBVIOUS
<1>2. ASSUME NEW d \in Caller, NEW i \in DOMAIN destroyed'[d]
      PROVE  i \in DOMAIN destroyed[d] /\ destroyed'[d][i] = destroyed[d][i]
             /\ destroyed[d][i] \notin more
  <2>1. destroyed'[d] = destroyed[d]
    BY <1>1
  <2>2. destroyed[d][i] \in Node /\ destroyed[d][i] <= minted
    BY <2>1, <1>2 DEF Working, WorkOK
  <2> QED
    BY <2>1, <2>2 DEF Node
<1> QED
  BY <1>2 DEF DestroyedOnce

LEMMA OnceNext ==
  ASSUME Base, Working, DestroyedOnce, [Next]_vars
  PROVE  DestroyedOnce'
<1>0. minted \in Nat /\ Stored \subseteq 1 .. minted
  BY DEF Base, IdsOK
<1>1. ASSUME Stored' = Stored,
             \A d \in Caller : destroyed'[d] = destroyed[d] \/ destroyed'[d] = <<>>
      PROVE  DestroyedOnce'
  BY <1>0, <1>1, SameDestroyed
<1>2. ASSUME NEW c \in Caller, Store(c) PROVE DestroyedOnce'
  <2>1. Stored' = Stored \cup {minted + 1} /\ destroyed' = destroyed
    BY <1>2 DEF Store, Stored
  <2>2. {minted + 1} \cap 1 .. minted = {}
    BY <1>0
  <2> QED
    BY <1>0, <2>1, <2>2, SameDestroyed
<1>3. ASSUME NEW c \in Caller, Patch(c) PROVE DestroyedOnce'
  BY <1>1, <1>3 DEF Patch, Stored, replyVars
<1>4. ASSUME NEW c \in Caller, Start(c) PROVE DestroyedOnce'
  <2>1. tree' = tree /\ destroyed' = [destroyed EXCEPT ![c] = <<>>]
    BY <1>4 DEF Start, storeVars
  <2> QED
    BY <1>1, <2>1 DEF Stored, Working
<1>5. ASSUME NEW c \in Caller, DestroyNext(c) PROVE DestroyedOnce'
  <2>1. CASE tree' = tree /\ destroyed' = destroyed
    BY <1>1, <2>1 DEF Stored
  <2>2. ASSUME NEW n \in Stored, tree' = [m \in Stored \ {n} |-> tree[m]],
               destroyed' = [destroyed EXCEPT ![c] = Append(@, n)]
        PROVE  DestroyedOnce'
    <3>1. Stored' = Stored \ {n} /\ n \in Node
      BY <1>0, <2>2, BoundsAssumption DEF Stored, Base, IdsOK, Node
    <3>2. PICK k \in Nat : k = Len(destroyed[c]) /\ DOMAIN destroyed[c] = 1 .. k
      BY LenProperties DEF Working, WorkOK
    <3>3. /\ DOMAIN destroyed'[c] = 1 .. k + 1 /\ destroyed'[c][k + 1] = n
          /\ \A i \in 1 .. k : destroyed'[c][i] = destroyed[c][i]
      <4>1. destroyed'[c] = Append(destroyed[c], n) /\ destroyed[c] \in Seq(Node)
        BY <2>2 DEF Working, WorkOK
      <4> QED
        BY <3>1, <3>2, <4>1, AppendProperties, LenProperties
    <3>4. \A d \in Caller \ {c} : destroyed'[d] = destroyed[d]
      BY <2>2 DEF Working
    <3>5. \A d \in Caller : \A i \in DOMAIN destroyed[d] :
            destroyed[d][i] \notin Stored /\ destroyed[d][i] # n
      BY DEF DestroyedOnce
    <3>6. ASSUME NEW d \in Caller, NEW i \in DOMAIN destroyed'[d]
          PROVE  \/ d = c /\ i = k + 1 /\ destroyed'[d][i] = n
                 \/ i \in DOMAIN destroyed[d] /\ destroyed'[d][i] = destroyed[d][i]
      BY <3>2, <3>3, <3>4
    <3>7. ASSUME NEW d \in Caller, NEW e \in Caller,
                 NEW i \in DOMAIN destroyed'[d], NEW j \in DOMAIN destroyed'[e]
          PROVE  /\ destroyed'[d][i] \notin Stored'
                 /\ destroyed'[d][i] = destroyed'[e][j] => d = e /\ i = j
      <4>1. destroyed'[d][i] \notin Stored'
        BY <3>1, <3>5, <3>6
      <4>2. destroyed'[d][i] = destroyed'[e][j] => d = e /\ i = j
        <5>1. \/ d = c /\ i = k + 1 /\ destroyed'[d][i] = n
              \/ i \in DOMAIN destroyed[d] /\ destroyed'[d][i] = destroyed[d][i]
          BY <3>6
        <5>2. \/ e = c /\ j = k + 1 /\ destroyed'[e][j] = n
              \/ j \in DOMAIN destroyed[e] /\ destroyed'[e][j] = destroyed[e][j]
          BY <3>6
        <5> QED
          BY <5>1, <5>2, <3>5 DEF DestroyedOnce
      <4> QED
        BY <4>1, <4>2
    <3> QED
      BY <3>7 DEF DestroyedOnce
  <2> QED
    BY <1>5, <2>1, <2>2, DestroyWorks
<1>6. ASSUME NEW c \in Caller, Quieter(c) \/ Drafter(c) \/ MoveChecker(c) \/ Reply(c)
      PROVE  DestroyedOnce'
  <2>1. tree' = tree /\ destroyed' = destroyed
    BY <1>6 DEF Quieter, Drafter, MoveChecker, Reply, CheckCopyCycle, CheckDepth,
                FindSibling, ReadReplaced, ReadSubtree, ReadOriginal, EndCreates, EndUpdates,
                EndDestroys, EndOriginals, EndLoop, BeginCreate, BeginCopy, FindUniqueName,
                SkipMoveChecks, CheckMoveCycle, ReadMoveDepth, CheckMoveDepth,
                storeVars, replyVars
  <2> QED
    BY <1>1, <2>1 DEF Stored
<1>7. CASE UNCHANGED vars
  BY <1>1, <1>7 DEF vars, Stored
<1> QED
  BY <1>2, <1>3, <1>4, <1>5, <1>6, <1>7, Steps

\* However many cascades reach a node, one call reports it destroyed, once, and
\* the node never comes back: for any callers and requests, moving or not
\* (destroy_object answers notFound to all but one).
THEOREM DestroyedForGood == Spec => []DestroyedOnce
<1>1. Init => Base /\ Working /\ DestroyedOnce
  <2>1. ASSUME Init PROVE DestroyedOnce
    BY <2>1 DEF Init, DestroyedOnce
  <2> QED
    BY <2>1, WorkInit
<1>2. Base /\ Working /\ DestroyedOnce /\ [Next]_vars => Base' /\ Working' /\ DestroyedOnce'
  BY BaseNext, WorkNext, OnceNext
<1> QED
  BY <1>1, <1>2, PTL DEF Spec

-----------------------------------------------------------------------------
(* One caller at a time: what is refused has destroyed nothing.            *)

OneCaller == \A a, b \in Caller : a = b

\* All of it is there to be destroyed, each node once.
Whole(q) ==
  /\ \A i \in DOMAIN q : q[i] \in Stored
  /\ \A i, j \in DOMAIN q : q[i] = q[j] => i = j

Ids(q) == {q[i] : i \in DOMAIN q}

\* A walk lists what is below the node once and without gaps, in either order.
LEMMA WalkLists ==
  ASSUME IdsOK, NEW id, NEW q \in Walks(id)
  PROVE  \E k \in Nat :
           /\ q \in [1 .. k -> Descendants(id)] /\ Reversed(q) \in [1 .. k -> Descendants(id)]
           /\ Ids(q) = Descendants(id) /\ Ids(Reversed(q)) = Descendants(id)
           /\ \A i, j \in 1 .. k : q[i] = q[j] => i = j
           /\ \A i, j \in 1 .. k : Reversed(q)[i] = Reversed(q)[j] => i = j
<1>1. PICK D : D = Descendants(id)
  OBVIOUS
<1>2. PICK k \in Nat : k = Cardinality(D)
  BY <1>1, BelowFinite
<1>3. q \in [1 .. k -> D] /\ \A n \in D : \E i \in 1 .. k : q[i] = n
  BY <1>1, <1>2 DEF Walks
<1>4. \A i, j \in 1 .. k : q[i] = q[j] => i = j
  <2>1. q \in Surjection(1 .. k, D)
    BY <1>3 DEF Surjection
  <2>2. IsFiniteSet(1 .. k) /\ Cardinality(1 .. k) = k
    <3>0. 1 \in Int /\ k \in Int
      OBVIOUS
    <3>1. /\ IsFiniteSet(1 .. k)
          /\ Cardinality(1 .. k) = IF 1 > k THEN 0 ELSE k - 1 + 1
      BY <3>0, FS_Interval
    <3> QED
      BY <3>1
  <2>3. q \in Injection(1 .. k, D)
    BY <1>2, <2>1, <2>2, FS_SurjSameCardinalityImpliesInj
  <2> QED
    BY <1>3, <2>3 DEF Injection, IsInjective
<1>5. q \in Seq(D) /\ Len(q) = k
  BY <1>2, <1>3
<1>6. \A i \in 1 .. k : k + 1 - i \in 1 .. k /\ k + 1 - (k + 1 - i) = i
  BY <1>2
<1>7. /\ Reversed(q) \in [1 .. k -> D]
      /\ \A i \in 1 .. k : Reversed(q)[i] = q[k + 1 - i]
  BY <1>3, <1>5, <1>6 DEF Reversed
<1>8. \A i, j \in 1 .. k : Reversed(q)[i] = Reversed(q)[j] => i = j
  <2>1. \A i, j \in 1 .. k : k + 1 - i = k + 1 - j => i = j
    BY <1>2
  <2> QED
    BY <1>4, <1>6, <1>7, <2>1
<1>9. Ids(q) = D
  BY <1>3 DEF Ids
<1>10. Ids(Reversed(q)) = D
  <2>1. \A n \in D : \E i \in 1 .. k : Reversed(q)[i] = n
    <3> TAKE n \in D
    <3>1. PICK j \in 1 .. k : q[j] = n
      BY <1>3
    <3> WITNESS k + 1 - j \in 1 .. k
    <3> QED
      BY <1>6, <1>7, <3>1
  <2> QED
    BY <1>7, <2>1 DEF Ids
<1> QED
  BY <1>1, <1>2, <1>3, <1>4, <1>7, <1>8, <1>9, <1>10

LEMMA WalkWhole ==
  ASSUME Base, NEW id \in Stored, NEW q \in Walks(id)
  PROVE  Whole(Append(q, id))
<1>1. Descendants(id) \subseteq Stored /\ id \notin Descendants(id)
  BY DEF Descendants, Under
<1>2. PICK k \in Nat : /\ q \in [1 .. k -> Descendants(id)]
                       /\ \A i, j \in 1 .. k : q[i] = q[j] => i = j
  BY WalkLists DEF Base
<1>3. q \in Seq(Stored) /\ Len(q) = k
  <2>1. q \in [1 .. k -> Stored]
    BY <1>1, <1>2
  <2> QED
    BY <1>2, <2>1
<1>4. /\ DOMAIN Append(q, id) = 1 .. k + 1 /\ Append(q, id)[k + 1] = id
      /\ \A i \in 1 .. k : Append(q, id)[i] = q[i]
  BY <1>3, AppendProperties
<1>5. \A i \in 1 .. k : q[i] \in Stored /\ q[i] # id
  BY <1>1, <1>2
<1> QED
  BY <1>2, <1>4, <1>5 DEF Whole

\* A create that has not yet been refused has all it needs, and one that was
\* refused has left all as it was.
CreateOK(c) ==
  /\ pc[c] = "idle" => at[c] = 1 /\ refused[c] = {} /\ copied[c] = <<>>
  /\ pc[c] \in CreatePcs \cup {"create"} /\ at[c] = 1 =>
       /\ refused[c] = {} /\ copied[c] = <<>>
       /\ pc[c] \notin {"unique", "store", "replace"} => destroyed[c] = <<>>
  /\ pc[c] \in {"replaced", "replace"} => Whole(queue[c])
  /\ Len(ask[c].creates) = 1 /\ ask[c].destroys = <<>> /\ refused[c] # {} =>
       /\ destroyed[c] = <<>> /\ copied[c] = <<>>
       /\ pc[c] \notin {"original", "erase", "remove"}

Creating == DOMAIN refused = Caller /\ \A c \in Caller : CreateOK(c)

LEMMA CreatingOn ==
  ASSUME OneCaller, NEW c \in Caller, CreateOK(c)', DOMAIN refused' = Caller
  PROVE  Creating'
BY DEF OneCaller, Creating

CheckPcs == {"create", "cycle", "depth", "sibling", "replaced"}

LEMMA CreateNow ==
  ASSUME Base, Working, Creating, NEW c \in Caller
  PROVE  /\ DOMAIN pc = Caller /\ DOMAIN at = Caller /\ DOMAIN refused = Caller
         /\ DOMAIN queue = Caller
         /\ CreateOK(c) /\ WorkOK(c) /\ CallOK(c) /\ at[c] \in Nat \ {0}
         /\ Len(ask[c].creates) \in Nat /\ Len(ask[c].destroys) \in Nat
BY RequestShape DEF Base, LocalsOK, CallOK, Working, Creating

LEMMA Refusing ==
  ASSUME OneCaller, Base, Working, Creating, NEW c \in Caller, RefuseCreate(c),
         pc[c] \in CheckPcs, at[c] <= Len(ask[c].creates),
         UNCHANGED <<ask, copied, destroyed>>
  PROVE  Creating'
<1>1. /\ pc'[c] = "create" /\ at'[c] = at[c] + 1 /\ DOMAIN refused' = Caller
      /\ at[c] \in Nat \ {0} /\ Len(ask[c].creates) \in Nat /\ CreateOK(c)
  BY CreateNow DEF RefuseCreate, NextEntry, Goto
<1>2. at'[c] # 1
  BY <1>1
<1>3. Len(ask[c].creates) = 1 => destroyed[c] = <<>> /\ copied[c] = <<>>
  BY <1>1 DEF CreateOK, CheckPcs, CreatePcs
<1>4. CreateOK(c)'
  BY <1>1, <1>2, <1>3 DEF CreateOK
<1> QED
  BY <1>1, <1>4, CreatingOn

\* A check that is passed.
LEMMA Passing ==
  ASSUME OneCaller, Base, Working, Creating, NEW c \in Caller,
         pc[c] \in CreatePcs \cup {"create"}, pc'[c] \in CreatePcs,
         pc[c] \in CheckPcs \/ pc'[c] \in {"unique", "store", "replace"},
         at[c] <= Len(ask[c].creates),
         UNCHANGED <<ask, at, refused, copied, destroyed>>,
         pc'[c] \in {"replaced", "replace"} => Whole(queue[c])'
  PROVE  Creating'
<1>1. /\ DOMAIN refused' = Caller /\ CreateOK(c)
      /\ at[c] \in Nat \ {0} /\ Len(ask[c].creates) \in Nat
  BY CreateNow
<1>2. at[c] = 1 => /\ refused[c] = {} /\ copied[c] = <<>>
                   /\ pc'[c] \notin {"unique", "store", "replace"} => destroyed[c] = <<>>
  BY <1>1 DEF CreateOK, CheckPcs, CreatePcs
<1>3. Len(ask[c].creates) = 1 => refused[c] = {}
  BY <1>1, <1>2
<1>4. CreateOK(c)'
  BY <1>2, <1>3 DEF CreateOK, CreatePcs
<1> QED
  BY <1>1, <1>4, CreatingOn

\* The steps that check a create, and the ends of the loops.
LEMMA CreatingLook ==
  ASSUME OneCaller, Base, Working, Creating, NEW c \in Caller,
         \/ BeginCreate(c) \/ BeginCopy(c) \/ CheckCopyCycle(c) \/ CheckDepth(c)
         \/ FindUniqueName(c)
         \/ EndCreates(c) \/ EndUpdates(c) \/ EndDestroys(c) \/ EndOriginals(c)
  PROVE  Creating'
<1> USE DEF Goto, storeVars, workVars, replyVars
<1>1. /\ DOMAIN pc = Caller /\ DOMAIN at = Caller /\ DOMAIN refused = Caller
      /\ CreateOK(c) /\ WorkOK(c) /\ Len(ask[c].creates) \in Nat
  BY CreateNow
<1>2. CASE BeginCreate(c)
  BY <1>1, <1>2, Passing DEF BeginCreate, HasCreate, CheckPcs, CreatePcs
<1>3. CASE BeginCopy(c)
  <2>1. /\ pc[c] = "create" /\ at[c] <= Len(ask[c].creates)
        /\ UNCHANGED <<ask, copied, destroyed>>
    BY <1>3 DEF BeginCopy, HasCreate
  <2>2. CASE RefuseCreate(c)
    BY <2>1, <2>2, Refusing DEF CheckPcs
  <2>3. CASE pc'[c] \in {"depth", "cycle"} /\ UNCHANGED <<at, refused>>
    BY <2>1, <2>3, Passing DEF CheckPcs, CreatePcs
  <2> QED
    BY <1>1, <1>3, <2>2, <2>3 DEF BeginCopy
<1>4. CASE CheckCopyCycle(c) \/ CheckDepth(c)
  <2>1. /\ pc[c] \in {"cycle", "depth"} /\ at[c] <= Len(ask[c].creates)
        /\ UNCHANGED <<ask, copied, destroyed>>
    BY <1>1, <1>4 DEF CheckCopyCycle, CheckDepth, WorkOK, CreatePcs
  <2>2. CASE RefuseCreate(c)
    BY <2>1, <2>2, Refusing DEF CheckPcs
  <2>3. CASE pc'[c] \in {"depth", "sibling"} /\ UNCHANGED <<at, refused>>
    BY <2>1, <2>3, Passing DEF CheckPcs, CreatePcs
  <2> QED
    BY <1>1, <1>4, <2>2, <2>3 DEF CheckCopyCycle, CheckDepth
<1>5. CASE FindUniqueName(c)
  <2>1. pc[c] = "unique" /\ at[c] <= Len(ask[c].creates) /\ pc'[c] = "store"
    BY <1>1, <1>5 DEF FindUniqueName, WorkOK, CreatePcs
  <2> QED
    BY <1>5, <2>1, Passing DEF FindUniqueName, CreatePcs
<1>6. CASE EndCreates(c)
  <2>1. /\ UNCHANGED <<ask, refused, copied, destroyed>>
        /\ pc'[c] \in {"original", "update"} /\ (pc'[c] = "original" => copied[c] # <<>>)
    BY <1>1, <1>6 DEF EndCreates, EndLoop, CopiesDone
  <2>2. CreateOK(c)'
    BY <1>1, <1>6, <2>1 DEF EndCreates, EndLoop, CreateOK, CreatePcs
  <2> QED
    BY <1>1, <2>1, <2>2, CreatingOn
<1>7. CASE EndUpdates(c) \/ EndDestroys(c) \/ EndOriginals(c)
  <2>1. /\ UNCHANGED <<ask, refused, copied, destroyed>>
        /\ pc[c] \in {"update", "destroy", "original"} /\ pc'[c] \in {"destroy", "reply"}
    BY <1>1, <1>7 DEF EndUpdates, EndDestroys, EndOriginals, EndLoop
  <2>2. CreateOK(c)'
    BY <1>1, <2>1 DEF CreateOK, CreatePcs
  <2> QED
    BY <1>1, <2>1, <2>2, CreatingOn
<1> QED
  BY <1>2, <1>3, <1>4, <1>5, <1>6, <1>7

\* The steps that read what is to be destroyed.
LEMMA CreatingQueue ==
  ASSUME OneCaller, Base, Working, Creating, NEW c \in Caller,
         FindSibling(c) \/ ReadReplaced(c) \/ ReadSubtree(c) \/ ReadOriginal(c)
  PROVE  Creating'
<1> USE DEF Goto, storeVars, workVars, replyVars
<1>1. /\ DOMAIN pc = Caller /\ DOMAIN at = Caller /\ DOMAIN refused = Caller
      /\ DOMAIN queue = Caller /\ at[c] \in Nat \ {0}
      /\ CreateOK(c) /\ WorkOK(c) /\ Len(ask[c].creates) \in Nat
  BY CreateNow
<1>2. CASE FindSibling(c)
  <2>1. /\ pc[c] = "sibling" /\ at[c] <= Len(ask[c].creates)
        /\ UNCHANGED <<ask, copied, destroyed>>
    BY <1>1, <1>2 DEF FindSibling, WorkOK, CreatePcs
  <2>2. CASE RefuseCreate(c)
    BY <2>1, <2>2, Refusing DEF CheckPcs
  <2>3. CASE pc'[c] \in {"store", "unique"} /\ UNCHANGED <<at, refused>>
    BY <2>1, <2>3, Passing DEF CheckPcs, CreatePcs
  <2>4. ASSUME NEW n \in Twins(c), queue' = [queue EXCEPT ![c] = <<n>>],
               pc'[c] = "replaced", UNCHANGED <<at, refused>>
        PROVE  Creating'
    <3>1. queue'[c] = <<n>> /\ n \in Stored /\ Stored' = Stored
      BY <1>1, <1>2, <2>4 DEF FindSibling, Twins, Siblings, Stored
    <3>2. Whole(queue[c])'
      BY <3>1 DEF Whole
    <3> QED
      BY <2>1, <2>4, <3>2, Passing DEF CheckPcs, CreatePcs
  <2> QED
    BY <1>1, <1>2, <2>2, <2>3, <2>4 DEF FindSibling
<1>3. CASE ReadReplaced(c)
  <2>1. /\ pc[c] = "replaced" /\ at[c] <= Len(ask[c].creates)
        /\ UNCHANGED <<ask, copied, destroyed>>
    BY <1>1, <1>3 DEF ReadReplaced, WorkOK, CreatePcs
  <2>2. CASE RefuseCreate(c)
    BY <2>1, <2>2, Refusing DEF CheckPcs
  <2>3. ASSUME NEW q \in Walks(Head(queue[c])),
               queue' = [queue EXCEPT ![c] = Append(q, Head(queue[c]))],
               pc'[c] = "replace", UNCHANGED <<at, refused>>
        PROVE  Creating'
    <3>1. queue[c] \in Seq(Node) /\ queue[c] # <<>>
      BY <1>1, <2>1 DEF WorkOK, DestroyPcs
    <3>2. Head(queue[c]) \in Stored
      BY <1>1, <2>1, <3>1 DEF CreateOK, Whole
    <3>3. queue'[c] = Append(q, Head(queue[c])) /\ Stored' = Stored
      BY <1>1, <1>3, <2>3 DEF ReadReplaced, Stored
    <3>4. Whole(queue[c])'
      BY <3>2, <3>3, WalkWhole DEF Whole
    <3> QED
      BY <2>1, <2>3, <3>4, Passing DEF CheckPcs, CreatePcs
  <2> QED
    BY <1>1, <1>3, <2>2, <2>3 DEF ReadReplaced
<1>4. CASE ReadSubtree(c) \/ ReadOriginal(c)
  <2>1. /\ UNCHANGED <<ask, refused, copied, destroyed>>
        /\ pc[c] \in {"destroy", "original"}
        /\ pc'[c] \in {"remove", "destroy", "erase", "original"}
        /\ pc[c] = "destroy" => at[c] <= Len(ask[c].destroys)
    BY <1>1, <1>4 DEF ReadSubtree, ReadOriginal, NextEntry
  <2>2. pc[c] = "destroy" => ask[c].destroys # <<>>
    BY <1>1, <2>1
  <2>3. CreateOK(c)'
    BY <1>1, <2>1, <2>2 DEF CreateOK, CreatePcs
  <2> QED
    BY <1>1, <2>1, <2>3, CreatingOn
<1> QED
  BY <1>2, <1>3, <1>4

LEMMA CreatingUpdate ==
  ASSUME OneCaller, Base, Working, Creating, NEW c \in Caller, MoveChecker(c) \/ Patch(c)
  PROVE  Creating'
<1>1. DOMAIN pc = Caller /\ DOMAIN refused = Caller /\ CreateOK(c)
  BY CreateNow
<1>2. /\ UNCHANGED <<ask, refused, copied, destroyed>>
      /\ pc[c] \in {"update", "ancestors", "height", "patch"}
      /\ pc'[c] \in {"update", "ancestors", "height", "patch"}
  BY <1>1 DEF MoveChecker, SkipMoveChecks, CheckMoveCycle, ReadMoveDepth, CheckMoveDepth,
     HasUpdate, Patch, Goto, NextEntry, replyVars
<1>3. CreateOK(c)'
  BY <1>1, <1>2 DEF CreateOK, CreatePcs
<1> QED
  BY <1>1, <1>2, <1>3, CreatingOn

LEMMA CreatingStore ==
  ASSUME OneCaller, Base, Working, Creating, NEW c \in Caller, Store(c)
  PROVE  Creating'
<1>1. /\ DOMAIN pc = Caller /\ DOMAIN at = Caller /\ DOMAIN refused = Caller
      /\ CreateOK(c) /\ WorkOK(c) /\ at[c] \in Nat \ {0}
      /\ Len(ask[c].creates) \in Nat
  BY CreateNow
<1>2. /\ pc[c] = "store" /\ pc'[c] = "create" /\ at'[c] = at[c] + 1
      /\ UNCHANGED <<ask, refused, destroyed>>
  BY <1>1 DEF Store, NextEntry, Goto
<1>3. at'[c] # 1 /\ at[c] <= Len(ask[c].creates)
  BY <1>1, <1>2 DEF WorkOK, CreatePcs
<1>4. Len(ask[c].creates) = 1 => refused[c] = {}
  BY <1>1, <1>2, <1>3 DEF CreateOK, CreatePcs
<1>5. CreateOK(c)'
  BY <1>2, <1>3, <1>4 DEF CreateOK
<1> QED
  BY <1>1, <1>2, <1>5, CreatingOn

\* A node of a whole queue is there, and the rest stays whole without it.
LEMMA WholeTail ==
  ASSUME NEW q \in Seq(Node), q # <<>>, Whole(q),
         tree' = [m \in Stored \ {Head(q)} |-> tree[m]]
  PROVE  Whole(Tail(q))'
<1>1. PICK k \in Nat : Len(q) = k + 1
  <2>1. Len(q) \in Nat \ {0}
    BY EmptySeq, LenProperties
  <2>2. Len(q) - 1 \in Nat /\ Len(q) = (Len(q) - 1) + 1
    BY <2>1
  <2> QED
    BY <2>2
<1>2. DOMAIN q = 1 .. k + 1 /\ Head(q) = q[1]
  BY <1>1, LenProperties
<1>3. DOMAIN Tail(q) = 1 .. k /\ \A i \in 1 .. k : Tail(q)[i] = q[i + 1]
  BY <1>1, HeadTailProperties
<1>4. Stored' = Stored \ {Head(q)}
  BY DEF Stored
<1>5. ASSUME NEW i \in 1 .. k
      PROVE  i + 1 \in DOMAIN q /\ 1 \in DOMAIN q /\ i + 1 # 1
  BY <1>2
<1>6. ASSUME NEW i \in 1 .. k, NEW j \in 1 .. k, i + 1 = j + 1
      PROVE  i = j
  BY <1>6
<1> QED
  BY <1>2, <1>3, <1>4, <1>5, <1>6 DEF Whole

LEMMA CreatingDestroy ==
  ASSUME OneCaller, Base, Working, Creating, NEW c \in Caller, DestroyNext(c)
  PROVE  Creating'
<1> USE DEF Goto, NextEntry
<1>1. /\ DOMAIN pc = Caller /\ DOMAIN at = Caller /\ DOMAIN refused = Caller
      /\ DOMAIN queue = Caller /\ at[c] \in Nat \ {0}
      /\ CreateOK(c) /\ WorkOK(c) /\ Len(ask[c].creates) \in Nat
  BY CreateNow
<1>2. pc[c] \in {"replace", "remove", "erase"} /\ UNCHANGED <<ask, copied>>
  BY DEF DestroyNext
<1>3. queue[c] \in Seq(Node) /\ queue[c] # <<>>
  BY <1>1, <1>2 DEF WorkOK, DestroyPcs
<1>4. CASE pc[c] = "replace"
  <2>1. at[c] <= Len(ask[c].creates) /\ Whole(queue[c])
    BY <1>1, <1>4 DEF WorkOK, CreateOK, CreatePcs
  <2>2. Head(queue[c]) \in Stored
    BY <1>3, <2>1, EmptySeq, LenProperties DEF Whole
  <2>3. /\ tree' = [m \in Stored \ {Head(queue[c])} |-> tree[m]]
        /\ queue'[c] = Tail(queue[c])
        /\ UNCHANGED <<at, refused>>
        /\ pc'[c] \in {"replace", "store"}
    BY <1>1, <1>4, <2>2 DEF DestroyNext, NotFound, AfterDestroy
  <2>4. Whole(queue[c])'
    BY <1>3, <2>1, <2>3, WholeTail DEF Whole
  <2>5. at[c] = 1 => refused[c] = {} /\ copied[c] = <<>>
    BY <1>1, <1>4 DEF CreateOK, CreatePcs
  <2>6. Len(ask[c].creates) = 1 => refused[c] = {}
    BY <1>1, <2>1, <2>5
  <2>7. CreateOK(c)'
    BY <1>2, <2>3, <2>4, <2>5, <2>6 DEF CreateOK
  <2> QED
    BY <1>1, <2>3, <2>7, CreatingOn
<1>5. CASE pc[c] \in {"remove", "erase"}
  <2>1. /\ refused' = refused
        /\ pc'[c] \in {"remove", "erase", "destroy", "original"}
    BY <1>1, <1>5 DEF DestroyNext, AfterDestroy, AbortDestroy
  <2>2. Len(ask[c].creates) = 1 /\ ask[c].destroys = <<>> => refused[c] = {}
    BY <1>1, <1>5 DEF CreateOK
  <2>3. CreateOK(c)'
    BY <1>2, <2>1, <2>2 DEF CreateOK, CreatePcs
  <2> QED
    BY <1>1, <2>1, <2>3, CreatingOn
<1> QED
  BY <1>2, <1>4, <1>5

LEMMA CreatingCall ==
  ASSUME OneCaller, Base, Working, Creating, NEW c \in Caller, Start(c) \/ Reply(c)
  PROVE  Creating'
<1> USE DEF Goto
<1>1. /\ DOMAIN pc = Caller /\ DOMAIN at = Caller /\ DOMAIN refused = Caller
      /\ DOMAIN copied = Caller /\ DOMAIN destroyed = Caller /\ CreateOK(c)
  BY CreateNow DEF Working
<1>2. CASE Start(c)
  <2>1. /\ pc[c] = "idle" /\ pc'[c] = "create" /\ destroyed'[c] = <<>>
        /\ UNCHANGED <<at, copied, refused>>
    BY <1>1, <1>2 DEF Start
  <2>2. CreateOK(c)'
    BY <1>1, <2>1 DEF CreateOK
  <2> QED
    BY <1>1, <2>1, <2>2, CreatingOn
<1>3. CASE Reply(c)
  <2>1. /\ pc'[c] = "idle" /\ at'[c] = 1 /\ refused'[c] = {} /\ copied'[c] = <<>>
        /\ DOMAIN refused' = Caller
    BY <1>1, <1>3 DEF Reply
  <2>2. CreateOK(c)'
    BY <2>1 DEF CreateOK, CreatePcs
  <2> QED
    BY <2>1, <2>2, CreatingOn
<1> QED
  BY <1>2, <1>3

LEMMA CreatingNext ==
  ASSUME OneCaller, Base, Working, Creating, [Next]_vars
  PROVE  Creating'
<1>1. CASE UNCHANGED vars
  <2>1. UNCHANGED <<tree, pc, at, ask, queue, copied, destroyed, refused>>
    BY <1>1 DEF vars
  <2> QED
    BY <2>1 DEF Creating, CreateOK, Whole, Stored
<1>2. CASE Next
  BY <1>2, CreatingLook, CreatingQueue, CreatingUpdate, CreatingStore, CreatingDestroy,
     CreatingCall DEF Next, CreateStep, UpdateStep, DestroyStep, LoopStep, MoveChecker
<1> QED
  BY <1>1, <1>2

LEMMA CreatingInit == ASSUME Init PROVE Creating
<1>1. ASSUME NEW c \in Caller PROVE CreateOK(c)
  <2>1. /\ pc[c] = "idle" /\ at[c] = 1 /\ refused[c] = {} /\ copied[c] = <<>>
    BY DEF Init
  <2> QED
    BY <2>1 DEF CreateOK, CreatePcs
<1> QED
  BY <1>1 DEF Creating, Init

\* Whatever can refuse a create comes before the node it replaces goes, and
\* what is to go with that node is there: a create that handle_filenode_set or
\* handle_filenode_copy refuses has destroyed nothing, for one caller at a
\* time, in any tree.  With others at work a node of the cascade may be gone
\* by the time it is destroyed, and the create is refused half-way.
THEOREM RefusedHarmless ==
  ASSUME OneCaller
  PROVE  Spec => []RefusedCreateDestroysNothing
<1>1. Init => Base /\ Working /\ Creating
  BY WorkInit, CreatingInit
<1>2. Base /\ Working /\ Creating /\ [Next]_vars => Base' /\ Working' /\ Creating'
  BY BaseNext, WorkNext, CreatingNext
<1>3. Creating => RefusedCreateDestroysNothing
  BY DEF Creating, CreateOK, RefusedCreateDestroysNothing
<1> QED
  BY <1>1, <1>2, <1>3, PTL DEF Spec

-----------------------------------------------------------------------------
(* A copy outlives its original.                                           *)

\* The call makes one copy.
CopyAlone(c) == Len(ask[c].creates) = 1 /\ IsCopy(ask[c].creates[1])

Source(c) == ask[c].creates[1].source

\* Where the draft has passed the cycle check.
PlacedPcs == CreatePcs \ {"cycle"}

\* Until it is stored its parent is kept apart from the original, then it is
\* itself, and what is about to be erased is not the copy.
CopyOK(c) ==
  /\ pc[c] # "remove"
  /\ pc[c] \in PlacedPcs => Apart(Source(c), draft[c].parent)
  /\ pc[c] \in CreatePcs \cup {"create"} /\ at[c] = 1 => made[c] = {}
  /\ made[c] = {} \/ \E m \in Stored : made[c] = {m} /\ Apart(Source(c), m)
  /\ \A i \in DOMAIN copied[c] : copied[c][i] = Source(c)
  /\ pc[c] = "erase" => \A i \in DOMAIN queue[c] : queue[c][i] \notin made[c]

Copying ==
  \A c \in Caller :
    /\ pc[c] = "idle" => made[c] = {} /\ copied[c] = <<>> /\ at[c] = 1
    /\ CopyAlone(c) => CopyOK(c)

LEMMA CopyNow ==
  ASSUME Base, Working, Copying, NEW c \in Caller, CopyAlone(c)
  PROVE  /\ CopyOK(c) /\ ask[c].updates = <<>> /\ ask[c].destroys = <<>>
         /\ Source(c) \in Node /\ Source(c) <= minted
         /\ DOMAIN pc = Caller /\ DOMAIN at = Caller /\ DOMAIN draft = Caller
         /\ DOMAIN queue = Caller /\ DOMAIN made = Caller /\ DOMAIN copied = Caller
         /\ WorkOK(c) /\ at[c] \in Nat \ {0} /\ IdsOK
         /\ pc[c] \in CreatePcs => at[c] = 1
<1>1. CallOK(c) /\ WorkOK(c) /\ IdsOK
  BY DEF Base, LocalsOK, Working
<1>2. ask[c] \in CopyRequest
  <2>1. ask[c] # NoRequest
    BY DEF CopyAlone, NoRequest
  <2>2. CASE ask[c] \in SetRequest
    <3>1. ask[c].creates[1] \in CreateEntry
      BY <2>2 DEF SetRequest, CopyAlone
    <3> QED
      BY <3>1 DEF CreateEntry, CopyAlone, IsCopy
  <2> QED
    BY <1>1, <2>1, <2>2, RequestAssumption DEF CallOK
<1>3. /\ ask[c].updates = <<>> /\ ask[c].destroys = <<>>
      /\ ask[c].creates[1] \in CopyEntry /\ 1 \in DOMAIN ask[c].creates
  BY <1>2 DEF CopyRequest, CopyAlone
<1>4. Source(c) \in Node
  BY <1>3 DEF CopyEntry, Source
<1>5. Source(c) <= minted
  <2>1. Source(c) \in Named(ask[c])
    BY <1>3, <1>4 DEF Named, Source, Node, Top
  <2> QED
    BY <1>1, <2>1 DEF CallOK, IdsOK
<1>6. at[c] \in Nat \ {0} /\ (pc[c] \in CreatePcs => at[c] = 1)
  BY <1>1 DEF CallOK, WorkOK, CopyAlone
<1> QED
  BY <1>1, <1>3, <1>4, <1>5, <1>6 DEF Copying, Base, LocalsOK, Working

LEMMA CopyOn ==
  ASSUME OneCaller, NEW c \in Caller, ask' = ask, pc'[c] # "idle",
         CopyAlone(c) => CopyOK(c)'
  PROVE  Copying'
BY DEF OneCaller, Copying, CopyAlone

\* A step that changes neither the tree nor what was made.
LEMMA CopyQuiet ==
  ASSUME OneCaller, Base, Working, Copying, NEW c \in Caller,
         UNCHANGED <<tree, ask, copied, made>>, pc'[c] # "idle",
         CopyAlone(c) =>
           /\ pc'[c] # "remove"
           /\ pc'[c] \in PlacedPcs => Apart(Source(c), draft'[c].parent)
           /\ pc'[c] \in CreatePcs \cup {"create"} /\ at'[c] = 1 => made[c] = {}
           /\ pc'[c] = "erase" => \A i \in DOMAIN queue'[c] : queue'[c][i] \notin made[c]
  PROVE  Copying'
<1> SUFFICES ASSUME CopyAlone(c) PROVE CopyOK(c)'
  BY CopyOn
<1>1. CopyOK(c) /\ Source(c)' = Source(c) /\ Stored' = Stored
  BY CopyNow DEF Source, Stored
<1>2. \A id, p : Apart(id, p) => Apart(id, p)'
  BY <1>1, SameParents
<1> QED
  BY <1>1, <1>2 DEF CopyOK

\* What is kept apart from a node is not below it.
LEMMA ApartNotBelow ==
  ASSUME IdsOK, NEW id, NEW p, Apart(id, p)
  PROVE  p \notin Descendants(id) /\ p # id
<1>1. PICK S \in SUBSET Node : id \in S /\ p \notin S /\ Children(S) \subseteq S
  BY DEF Apart
<1>2. Children((S \cap Stored) \cup {id}) \cap Stored \subseteq S \cap Stored
  BY <1>1 DEF Children
<1>3. S \cap Stored \in SUBSET Stored
  OBVIOUS
<1> QED
  BY <1>1, <1>2, <1>3 DEF Descendants, Under

\* The steps that check the copy.
LEMMA CopyLook ==
  ASSUME OneCaller, Base, Working, Copying, NEW c \in Caller,
         \/ BeginCreate(c) \/ BeginCopy(c) \/ CheckCopyCycle(c) \/ CheckDepth(c)
         \/ FindUniqueName(c) \/ FindSibling(c) \/ ReadReplaced(c)
  PROVE  Copying'
<1> USE DEF Goto, NextEntry, RefuseCreate, storeVars, workVars, replyVars
<1>1. UNCHANGED <<tree, ask, copied, made>>
  BY DEF BeginCreate, BeginCopy, CheckCopyCycle, CheckDepth, FindUniqueName, FindSibling,
         ReadReplaced
<1>2. pc'[c] # "idle"
  BY DEF BeginCreate, BeginCopy, CheckCopyCycle, CheckDepth, FindUniqueName, FindSibling,
         ReadReplaced, Base, LocalsOK
<1> SUFFICES ASSUME CopyAlone(c)
             PROVE  /\ pc'[c] \notin {"remove", "erase"}
                    /\ pc'[c] \in PlacedPcs => Apart(Source(c), draft'[c].parent)
                    /\ pc'[c] \in CreatePcs \cup {"create"} /\ at'[c] = 1 => made[c] = {}
  BY <1>1, <1>2, CopyQuiet
<1>3. /\ CopyOK(c) /\ IdsOK /\ Source(c) \in Node /\ at[c] \in Nat \ {0}
      /\ DOMAIN pc = Caller /\ DOMAIN at = Caller /\ DOMAIN draft = Caller
      /\ pc[c] \in CreatePcs => at[c] = 1
  BY CopyNow
<1>4. at[c] = 1 => at[c] + 1 # 1 /\ Entry(c) = ask[c].creates[1]
  BY DEF Entry
<1>5. CASE BeginCreate(c)
  <2>1. at[c] = 1 /\ ~IsCopy(Entry(c))
    BY <1>3, <1>5 DEF BeginCreate, HasCreate, CopyAlone
  <2> QED
    BY <1>4, <2>1 DEF CopyAlone
<1>6. CASE BeginCopy(c)
  <2>1. at[c] = 1 /\ pc[c] = "create" /\ made[c] = {}
    BY <1>3, <1>6 DEF BeginCopy, HasCreate, CopyAlone, CopyOK
  <2>2. CASE RefuseCreate(c)
    BY <1>3, <1>4, <2>1, <2>2 DEF PlacedPcs, CreatePcs
  <2>3. ASSUME draft' = [draft EXCEPT ![c] = [parent |-> Entry(c).patch.parent,
                                              name |-> tree[Entry(c).source].name]],
               Goto(c, IF Entry(c).patch.parent = Top THEN "depth" ELSE "cycle")
        PROVE  pc'[c] \in {"depth", "cycle"} /\ (pc'[c] = "depth" => draft'[c].parent = Top)
    BY <1>3, <2>3
  <2>4. Apart(Source(c), Top)
    <3>1. Top \notin Descendants(Source(c)) /\ Top # Source(c)
      BY <1>3 DEF Descendants, Under, IdsOK, Top, Node
    <3> QED
      BY <1>3, <3>1, NotDescendantApart
  <2> QED
    BY <1>6, <2>1, <2>2, <2>3, <2>4 DEF BeginCopy, PlacedPcs, CreatePcs
<1>7. CASE CheckCopyCycle(c)
  <2>1. pc[c] = "cycle" /\ at[c] = 1 /\ made[c] = {} /\ Entry(c).source = Source(c)
    BY <1>3, <1>4, <1>7 DEF CheckCopyCycle, CreatePcs, CopyOK, Source
  <2>2. draft'[c] = draft[c]
    BY <1>7 DEF CheckCopyCycle
  <2>3. CASE RefuseCreate(c)
    BY <1>3, <1>4, <2>1, <2>3 DEF PlacedPcs, CreatePcs
  <2>4. CASE draft[c].parent \notin Descendants(Source(c)) \cup {Source(c)}
             /\ pc'[c] = "depth"
    <3>1. Apart(Source(c), draft[c].parent)
      BY <1>3, <2>4, NotDescendantApart
    <3> QED
      BY <2>1, <2>2, <2>4, <3>1
  <2> QED
    BY <1>3, <1>7, <2>1, <2>3, <2>4 DEF CheckCopyCycle
<1>8. CASE CheckDepth(c) \/ FindUniqueName(c) \/ FindSibling(c) \/ ReadReplaced(c)
  <2>1. pc[c] \in PlacedPcs
    BY <1>8 DEF CheckDepth, FindUniqueName, FindSibling, ReadReplaced, PlacedPcs, CreatePcs
  <2>2. at[c] = 1 /\ made[c] = {} /\ Apart(Source(c), draft[c].parent)
    BY <1>3, <2>1 DEF PlacedPcs, CopyOK
  <2>3. draft'[c].parent = draft[c].parent
    <3>1. CASE draft' = draft
      BY <3>1
    <3>2. CASE FindUniqueName(c)
      <4>1. PICK p, x : draft[c] = [parent |-> p, name |-> x]
        BY DEF Base, LocalsOK, CallOK, DraftOK
      <4> QED
        BY <1>3, <3>2, <4>1 DEF FindUniqueName
    <3> QED
      BY <1>8, <3>1, <3>2 DEF CheckDepth, FindSibling, ReadReplaced
  <2>4. pc'[c] \notin {"remove", "erase"} /\ (pc'[c] = "create" => at'[c] = at[c] + 1)
    BY <1>3, <1>8 DEF CheckDepth, FindUniqueName, FindSibling, ReadReplaced
  <2> QED
    BY <1>4, <2>2, <2>3, <2>4 DEF PlacedPcs, CreatePcs
<1> QED
  BY <1>5, <1>6, <1>7, <1>8

\* A call that only copies neither updates nor destroys at a client's wish.
LEMMA CopyIdle ==
  ASSUME OneCaller, Base, Working, Copying, NEW c \in Caller,
         \/ MoveChecker(c) \/ Patch(c) \/ ReadSubtree(c)
         \/ EndCreates(c) \/ EndUpdates(c) \/ EndDestroys(c) \/ EndOriginals(c)
  PROVE  Copying'
<1> USE DEF Goto, NextEntry, storeVars, workVars, replyVars
<1>1. CASE EndCreates(c) \/ EndUpdates(c) \/ EndDestroys(c) \/ EndOriginals(c)
  <2>1. /\ UNCHANGED <<tree, ask, copied, made>>
        /\ pc'[c] \in {"original", "update", "destroy", "reply"}
    BY <1>1 DEF EndCreates, EndUpdates, EndDestroys, EndOriginals, EndLoop, Base, LocalsOK
  <2> QED
    BY <2>1, CopyQuiet DEF PlacedPcs, CreatePcs
<1>2. CASE MoveChecker(c) \/ Patch(c) \/ ReadSubtree(c)
  <2>1. ~CopyAlone(c)
    <3> SUFFICES ASSUME CopyAlone(c) PROVE FALSE
      OBVIOUS
    <3>1. /\ ask[c].updates = <<>> /\ ask[c].destroys = <<>> /\ at[c] \in Nat \ {0}
          /\ pc[c] \notin MovePcs
      BY CopyNow DEF Base, LocalsOK, CallOK
    <3> QED
      BY <1>2, <3>1 DEF MoveChecker, SkipMoveChecks, CheckMoveCycle, ReadMoveDepth,
         CheckMoveDepth, HasUpdate, Patch, ReadSubtree, MovePcs
  <2>2. ask' = ask /\ pc'[c] # "idle"
    BY <1>2 DEF MoveChecker, SkipMoveChecks, CheckMoveCycle, ReadMoveDepth, CheckMoveDepth,
       Patch, ReadSubtree, Base, LocalsOK
  <2> QED
    BY <2>1, <2>2, CopyOn
<1> QED
  BY <1>1, <1>2

LEMMA CopyOriginal ==
  ASSUME OneCaller, Base, Working, Copying, NEW c \in Caller, ReadOriginal(c)
  PROVE  Copying'
<1> USE DEF Goto, NextEntry, storeVars, replyVars
<1>1. UNCHANGED <<tree, ask, copied, made>> /\ pc'[c] \in {"original", "erase"}
  BY DEF ReadOriginal, Base, LocalsOK
<1> SUFFICES ASSUME CopyAlone(c), pc'[c] = "erase"
             PROVE  \A i \in DOMAIN queue'[c] : queue'[c][i] \notin made[c]
  BY <1>1, CopyQuiet DEF PlacedPcs, CreatePcs
<1>2. /\ CopyOK(c) /\ IdsOK /\ DOMAIN pc = Caller /\ DOMAIN queue = Caller /\ WorkOK(c)
      /\ at[c] \in Nat \ {0} /\ Source(c) \in Node
  BY CopyNow
<1>3. Original(c) = Source(c)
  <2>1. at[c] \in DOMAIN copied[c]
    BY <1>2 DEF ReadOriginal, WorkOK
  <2> QED
    BY <1>2, <2>1 DEF Original, CopyOK
<1>4. PICK q \in Walks(Source(c)) : queue'[c] = Append(Reversed(q), Source(c))
  BY <1>2, <1>3 DEF ReadOriginal
<1>5. \A m \in made[c] : m \notin Descendants(Source(c)) /\ m # Source(c)
  BY <1>2, ApartNotBelow DEF CopyOK
<1>6. \A i \in DOMAIN queue'[c] : queue'[c][i] \in Descendants(Source(c)) \cup {Source(c)}
  <2>0. PICK D : D = Descendants(Source(c)) \cup {Source(c)}
    OBVIOUS
  <2>1. PICK k \in Nat : k = Cardinality(Descendants(Source(c)))
    BY <1>2, BelowFinite
  <2>2. q \in [1 .. k -> Descendants(Source(c))] /\ DOMAIN q = 1 .. k
    BY <2>1 DEF Walks
  <2>3. q \in Seq(Descendants(Source(c))) /\ Len(q) = k
    BY <2>1, <2>2
  <2>4. \A i \in 1 .. k : k + 1 - i \in 1 .. k
    BY <2>1
  <2>5. Reversed(q) \in [1 .. k -> Descendants(Source(c))]
    BY <2>2, <2>3, <2>4 DEF Reversed
  <2>6. Reversed(q) \in [1 .. k -> D] /\ Source(c) \in D
    BY <2>0, <2>5
  <2>7. Reversed(q) \in Seq(D)
    BY <2>1, <2>6
  <2>8. queue'[c] \in Seq(D)
    BY <1>4, <2>6, <2>7, AppendProperties
  <2> QED
    BY <2>0, <2>8
<1> QED
  BY <1>5, <1>6

\* The new node is kept apart from what its parent is kept apart from.
LEMMA NewApart ==
  ASSUME IdsOK, minted < MaxNode, NEW d, NEW m, m = minted + 1,
         tree' = [n \in Stored \cup {m} |-> IF n = m THEN d ELSE tree[n]],
         NEW id, id <= minted, id \in Node, Apart(id, d.parent)
  PROVE  m \in Stored' /\ Apart(id, m)'
<1>1. PICK S \in SUBSET Node : id \in S /\ d.parent \notin S /\ Children(S) \subseteq S
  BY DEF Apart
<1>2. Stored' = Stored \cup {m} /\ m \notin Stored /\ id # m
  BY DEF Stored, IdsOK, Node
<1>3. tree'[m].parent \notin S /\ \A n \in Stored : tree'[n] = tree[n]
  BY <1>1, <1>2
<1>4. PICK R \in SUBSET Node : R = S \ {m}
  OBVIOUS
<1>5. Children(R)' \subseteq R
  BY <1>1, <1>2, <1>3, <1>4 DEF Children
<1>6. id \in R /\ m \notin R
  BY <1>1, <1>2, <1>4
<1> QED
  BY <1>2, <1>5, <1>6 DEF Apart

LEMMA CopyStore ==
  ASSUME OneCaller, Base, Working, Copying, NEW c \in Caller, Store(c)
  PROVE  Copying'
<1> USE DEF Goto, NextEntry
<1>1. ask' = ask /\ pc'[c] = "create"
  BY DEF Store, Base, LocalsOK
<1> SUFFICES ASSUME CopyAlone(c) PROVE CopyOK(c)'
  BY <1>1, CopyOn
<1>2. /\ CopyOK(c) /\ IdsOK /\ Source(c) \in Node /\ Source(c) <= minted
      /\ DOMAIN pc = Caller /\ DOMAIN at = Caller /\ DOMAIN made = Caller
      /\ DOMAIN copied = Caller /\ WorkOK(c) /\ at[c] = 1
  BY CopyNow DEF Store, CreatePcs
<1>3. Apart(Source(c), draft[c].parent) /\ made[c] = {}
  BY <1>2 DEF Store, CopyOK, PlacedPcs, CreatePcs
<1>4. PICK m, id : m = minted + 1 /\ id = Source(c) /\ id = Source(c)'
  BY <1>1 DEF Source
<1>5. m \in Stored' /\ Apart(id, m)'
  <2>1. /\ minted < MaxNode /\ id \in Node /\ id <= minted
        /\ tree' = [n \in Stored \cup {m} |-> IF n = m THEN draft[c] ELSE tree[n]]
    BY <1>2, <1>4 DEF Store
  <2>2. PICK d : d = draft[c]
    OBVIOUS
  <2>3. Apart(id, d.parent)
    BY <1>3, <1>4, <2>2 DEF Apart
  <2> QED
    BY <1>2, <1>4, <2>1, <2>2, <2>3, NewApart
<1>6. \A i \in DOMAIN copied'[c] : copied'[c][i] = id
  <2>1. copied'[c] = Append(copied[c], id)
    BY <1>2, <1>4 DEF Store, Entry, Source, CopyAlone
  <2>2. copied[c] \in Seq({id})
    <3>1. copied[c] \in Seq(Node) /\ \A i \in DOMAIN copied[c] : copied[c][i] \in {id}
      BY <1>2, <1>4 DEF WorkOK, CopyOK
    <3> QED
      BY <3>1
  <2>3. copied'[c] \in Seq({id})
    BY <2>1, <2>2, AppendProperties
  <2> QED
    BY <2>3
<1>7. made'[c] = {m} /\ at'[c] = 2
  BY <1>2, <1>3, <1>4 DEF Store
<1> QED
  BY <1>1, <1>4, <1>5, <1>6, <1>7 DEF CopyOK, PlacedPcs, CreatePcs, Apart, Source

LEMMA CopyDestroy ==
  ASSUME OneCaller, Base, Working, Copying, NEW c \in Caller, DestroyNext(c)
  PROVE  Copying'
<1> USE DEF Goto, NextEntry, RefuseCreate
<1>1. ask' = ask /\ pc[c] \in {"replace", "remove", "erase"} /\ pc'[c] # "idle"
  BY DEF DestroyNext, AfterDestroy, AbortDestroy, Base, LocalsOK
<1> SUFFICES ASSUME CopyAlone(c) PROVE CopyOK(c)'
  BY <1>1, CopyOn
<1>2. /\ CopyOK(c) /\ DOMAIN pc = Caller /\ DOMAIN at = Caller /\ DOMAIN queue = Caller
      /\ WorkOK(c) /\ at[c] \in Nat \ {0} /\ UNCHANGED <<made, copied, draft>>
      /\ pc[c] \in CreatePcs => at[c] = 1
  BY CopyNow DEF DestroyNext
<1>3. queue[c] \in Seq(Node) /\ queue[c] # <<>>
  BY <1>1, <1>2 DEF WorkOK, DestroyPcs
<1>4. /\ \/ tree' = tree /\ queue'[c] = <<>>
         \/ tree' = [n \in Stored \ {Head(queue[c])} |-> tree[n]] /\ queue'[c] = Tail(queue[c])
      /\ pc[c] = "replace" => \/ pc'[c] \in {"replace", "store"} /\ at'[c] = at[c]
                              \/ pc'[c] = "create" /\ at'[c] = at[c] + 1
      /\ pc[c] = "erase" => pc'[c] \in {"erase", "original"}
  BY <1>1, <1>2 DEF DestroyNext, AfterDestroy, AbortDestroy
<1>5. /\ Source(c)' = Source(c)
      /\ \A id, p : Apart(id, p) => Apart(id, p)'
  BY <1>1, <1>4, SameParents, DestroyKeepsForest DEF Source, Stored
<1>6. CASE pc[c] = "replace"
  <2>1. made[c] = {} /\ at[c] = 1 /\ Apart(Source(c), draft[c].parent)
    BY <1>2, <1>6 DEF CopyOK, CreatePcs, PlacedPcs
  <2> QED
    BY <1>2, <1>4, <1>5, <1>6, <2>1 DEF CopyOK, CreatePcs, PlacedPcs
<1>7. CASE pc[c] = "erase"
  <2>1. \A i \in DOMAIN queue[c] : queue[c][i] \notin made[c]
    BY <1>2, <1>7 DEF CopyOK
  <2>2. Head(queue[c]) \notin made[c]
    BY <1>3, <2>1, EmptySeq, LenProperties
  <2>3. \A i \in DOMAIN queue'[c] : queue'[c][i] \notin made[c]
    <3>1. CASE queue'[c] = <<>>
      BY <3>1
    <3>2. CASE queue'[c] = Tail(queue[c])
      <4>1. PICK k \in Nat : Len(queue[c]) = k + 1
        <5>1. Len(queue[c]) \in Nat \ {0}
          BY <1>3, EmptySeq, LenProperties
        <5>2. Len(queue[c]) - 1 \in Nat /\ Len(queue[c]) = (Len(queue[c]) - 1) + 1
          BY <5>1
        <5> QED
          BY <5>2
      <4>2. /\ DOMAIN Tail(queue[c]) = 1 .. k /\ DOMAIN queue[c] = 1 .. k + 1
            /\ \A i \in 1 .. k : Tail(queue[c])[i] = queue[c][i + 1]
        BY <1>3, <4>1, HeadTailProperties, LenProperties
      <4>3. \A i \in 1 .. k : i + 1 \in 1 .. k + 1
        OBVIOUS
      <4> QED
        BY <2>1, <3>2, <4>2, <4>3
    <3> QED
      BY <1>4, <3>1, <3>2
  <2>4. made[c] \cap Stored \subseteq Stored'
    BY <1>4, <2>2 DEF Stored
  <2>5. made'[c] = {} \/ (\E m \in Stored : made[c] = {m} /\ Apart(Source(c), m))'
    BY <1>2, <1>5, <2>4 DEF CopyOK
  <2> QED
    BY <1>2, <1>4, <1>5, <1>7, <2>3, <2>5 DEF CopyOK, CreatePcs, PlacedPcs
<1> QED
  BY <1>1, <1>2, <1>6, <1>7 DEF CopyOK

LEMMA CopyCall ==
  ASSUME OneCaller, Base, Working, Copying, NEW c \in Caller, Start(c) \/ Reply(c)
  PROVE  Copying'
<1> USE DEF Goto
<1>1. /\ DOMAIN pc = Caller /\ DOMAIN at = Caller /\ DOMAIN ask = Caller
      /\ DOMAIN made = Caller /\ DOMAIN copied = Caller
  BY DEF Base, LocalsOK, Working
<1>2. CASE Start(c)
  <2>1. /\ pc[c] = "idle" /\ pc'[c] = "create" /\ UNCHANGED <<at, made, copied>>
    BY <1>1, <1>2 DEF Start
  <2>2. made'[c] = {} /\ copied'[c] = <<>>
    BY <2>1 DEF Copying
  <2>3. CopyOK(c)'
    BY <2>1, <2>2 DEF CopyOK, PlacedPcs, CreatePcs
  <2> QED
    BY <2>1, <2>3 DEF OneCaller, Copying
<1>3. CASE Reply(c)
  <2>1. /\ pc'[c] = "idle" /\ at'[c] = 1 /\ made'[c] = {} /\ copied'[c] = <<>>
        /\ ask'[c] = NoRequest
    BY <1>1, <1>3 DEF Reply
  <2>2. ~CopyAlone(c)'
    BY <2>1 DEF CopyAlone, NoRequest
  <2> QED
    BY <2>1, <2>2 DEF OneCaller, Copying
<1> QED
  BY <1>2, <1>3

LEMMA CopyNext ==
  ASSUME OneCaller, Base, Working, Copying, [Next]_vars
  PROVE  Copying'
<1>1. CASE UNCHANGED vars
  <2>1. UNCHANGED <<tree, pc, at, ask, draft, queue, copied, made>>
    BY <1>1 DEF vars
  <2> QED
    BY <2>1 DEF Copying, CopyAlone, CopyOK, Source, Apart, Children, Stored
<1>2. CASE Next
  BY <1>2, CopyLook, CopyIdle, CopyOriginal, CopyStore, CopyDestroy, CopyCall
     DEF Next, CreateStep, UpdateStep, DestroyStep, LoopStep, MoveChecker
<1> QED
  BY <1>1, <1>2

\* handle_filenode_copy makes the copy first and destroys the original with all
\* that is below it afterwards: the copy is not among that, in any tree and for
\* any source, parent and onExists, also when a replaced node goes in between.
THEOREM CopyStays ==
  ASSUME OneCaller
  PROVE  Spec => []CopyOutlivesOriginal
<1>1. Init => Base /\ Working /\ Copying
  <2>1. Init => Copying
    BY DEF Init, Copying, CopyAlone, NoRequest
  <2> QED
    BY <2>1, WorkInit
<1>2. Base /\ Working /\ Copying /\ [Next]_vars => Base' /\ Working' /\ Copying'
  BY BaseNext, WorkNext, CopyNext
<1>3. Copying => CopyOutlivesOriginal
  BY DEF Copying, CopyAlone, CopyOK, CopyOutlivesOriginal
<1> QED
  BY <1>1, <1>2, <1>3, PTL DEF Spec

-----------------------------------------------------------------------------
(* No node is left below one that was destroyed.                           *)

\* Children of what is below a node, or of itself, are below it.
LEMMA BelowClosed ==
  ASSUME NEW id
  PROVE  /\ Children(Descendants(id) \cup {id}) \subseteq Descendants(id) \cup {id}
         /\ Descendants(id) \subseteq Stored
<1>1. Descendants(id) \subseteq Stored
  BY DEF Descendants, Under
<1>2. ASSUME NEW n \in Children(Descendants(id) \cup {id}), n # id
      PROVE  n \in Descendants(id)
  <2>1. n \in Stored /\ tree[n].parent \in Descendants(id) \cup {id}
    BY <1>2 DEF Children
  <2>2. ASSUME NEW S \in SUBSET Stored, Children(S \cup {id}) \cap Stored \subseteq S
        PROVE  n \in S
    <3>1. Descendants(id) \subseteq S
      BY <2>2 DEF Descendants, Under
    <3>2. n \in Children(S \cup {id})
      BY <2>1, <3>1 DEF Children
    <3> QED
      BY <2>1, <2>2, <3>2
  <2> QED
    BY <1>2, <2>1, <2>2 DEF Descendants, Under
<1> QED
  BY <1>1, <1>2

\* A set of stored nodes with id's children in it and closed under children
\* has all that is below id.
LEMMA BelowLeast ==
  ASSUME NEW id, NEW S \in SUBSET Stored, Children(S \cup {id}) \subseteq S
  PROVE  Descendants(id) \subseteq S
BY DEF Descendants, Under

LEMMA BelowChild ==
  ASSUME NEW v \in Stored, NEW n \in Children({v}), n # v
  PROVE  n \in Descendants(v) /\ Descendants(n) \subseteq Descendants(v) \cup {v}
<1>1. n \in Descendants(v)
  BY BelowClosed DEF Children
<1>2. Descendants(v) \cup {v} \in SUBSET Stored
  BY BelowClosed
<1>3. (Descendants(v) \cup {v}) \cup {n} = Descendants(v) \cup {v}
  BY <1>1
<1>4. Descendants(n) \subseteq Descendants(v) \cup {v}
  BY <1>2, <1>3, BelowClosed, BelowLeast
<1> QED
  BY <1>1, <1>4

\* What a destroy takes from below a node.
LEMMA BelowShrinks ==
  ASSUME NEW v, NEW id, tree' = [m \in Stored \ {v} |-> tree[m]]
  PROVE  Descendants(id)' \subseteq Descendants(id)
<1>1. Stored' = Stored \ {v} /\ \A m \in Stored' : tree'[m] = tree[m]
  BY DEF Stored
<1>2. \A S : Children(S)' = Children(S) \ {v}
  BY <1>1 DEF Children
<1>3. ASSUME NEW d \in Descendants(id)', NEW S \in SUBSET Stored,
             Children(S \cup {id}) \cap Stored \subseteq S
      PROVE  d \in S
  <2>1. S \ {v} \in SUBSET Stored' /\ Children((S \ {v}) \cup {id})' \cap Stored' \subseteq S \ {v}
    BY <1>1, <1>2, <1>3 DEF Children
  <2> QED
    BY <1>3, <2>1 DEF Descendants, Under
<1> QED
  BY <1>1, <1>3 DEF Descendants, Under

\* If all that is below v may go, what must not go stays where it is.
LEMMA BelowStays ==
  ASSUME NEW v, NEW id, NEW D, v \in D, Descendants(v) \subseteq D,
         tree' = [m \in Stored \ {v} |-> tree[m]], Descendants(id)' \subseteq D
  PROVE  Descendants(id) \subseteq D
<1>1. Stored' = Stored \ {v} /\ \A m \in Stored' : tree'[m] = tree[m]
  BY DEF Stored
<1>2. \A S : Children(S)' = Children(S) \ {v}
  BY <1>1 DEF Children
<1>3. PICK B : B = Descendants(id)'
  OBVIOUS
<1>4. B \subseteq Stored' /\ Children(B \cup {id})' \subseteq B \cup {id}
  <2>1. (Descendants(id) \subseteq Stored)'
    BY DEF Descendants, Under
  <2>2. (Children(Descendants(id) \cup {id}) \subseteq Descendants(id) \cup {id})'
    BY BelowClosed, PTL
  <2> QED
    BY <1>3, <2>1, <2>2 DEF Children
<1>5. PICK W : W = (B \cup {v, id} \cup Descendants(v)) \cap Stored
  OBVIOUS
<1>6. Children(W \cup {id}) \subseteq W
  <2>1. ASSUME NEW n \in Stored, tree[n].parent \in B \cup {id}
        PROVE  n \in W
    BY <1>1, <1>4, <1>5, <2>1 DEF Children
  <2>2. ASSUME NEW n \in Stored, tree[n].parent \in Descendants(v) \cup {v}
        PROVE  n \in W
    BY <1>5, <2>2, BelowClosed DEF Children
  <2> QED
    BY <1>5, <2>1, <2>2 DEF Children
<1>7. Descendants(id) \subseteq W
  BY <1>5, <1>6, BelowLeast
<1> QED
  BY <1>3, <1>5, <1>7 DEF Descendants, Under

\* Where the call itself puts nodes.
Places(c) ==
  {ask[c].creates[e].patch.parent : e \in DOMAIN ask[c].creates}
    \cup {ask[c].updates[e].patch.parent :
            e \in {i \in DOMAIN ask[c].updates :
                     "parent" \in DOMAIN ask[c].updates[i].patch}}

\* The nodes left below one that was destroyed.
Lost(c) == {n \in Stored : tree[n].parent \in Ids(destroyed[c]) \ Places(c)}

\* Nothing hangs below the nodes of the queue but other nodes of it, and the
\* last alone may be gone before its turn.
Cascade(q) ==
  /\ \A i, j \in DOMAIN q : q[i] = q[j] => i = j
  /\ \A i \in DOMAIN q : i = Len(q) \/ q[i] \in Stored
  /\ Children(Ids(q)) \subseteq Ids(q)

\* A cascade takes all that is below a node; a destroy without it picks nodes
\* one at a time, if nothing is below them that the call does not destroy.
Sweeping(c) ==
  \/ pc[c] \in {"replace", "erase"}
  \/ pc[c] = "remove" /\ ask[c].removeChildren

Picking(c) == pc[c] \in {"destroy", "remove"} /\ ~ask[c].removeChildren

MayGo(c, n) == Descendants(n) \subseteq DestroySet(c)

Due(c) ==
  {ask[c].destroys[i] : i \in {j \in DOMAIN ask[c].destroys :
                                 at[c] <= j /\ MayGo(c, ask[c].destroys[j])}}

\* What is lost for now is still to be destroyed.
TidyOK(c) ==
  /\ pc[c] \in CreatePcs => draft[c].parent = Entry(c).patch.parent
  /\ Sweeping(c) => Cascade(queue[c]) /\ Lost(c) \subseteq Ids(queue[c])
  /\ Picking(c) =>
       /\ Lost(c) \subseteq Due(c)
       /\ \A i \in DOMAIN ask[c].destroys :
            i < at[c] /\ ask[c].destroys[i] \in Stored => ~MayGo(c, ask[c].destroys[i])
       /\ pc[c] = "remove" =>
            queue[c] = <<Victim(c)>> /\ at[c] \in DOMAIN ask[c].destroys /\ MayGo(c, Victim(c))
  /\ pc[c] # "idle" /\ ~Sweeping(c) /\ ~Picking(c) => Lost(c) = {}

Tidy == \A c \in Caller : TidyOK(c)

LEMMA CascadeBegins ==
  ASSUME NEW id, NEW k \in Nat, NEW q \in [1 .. k -> Descendants(id)],
         Ids(q) = Descendants(id), \A i, j \in 1 .. k : q[i] = q[j] => i = j
  PROVE  Cascade(Append(q, id))
<1>1. PICK D : D = Descendants(id) \cup {id}
  OBVIOUS
<1>2. q \in Seq(D) /\ Len(q) = k /\ id \in D
  <2>1. q \in [1 .. k -> D]
    BY <1>1
  <2> QED
    BY <1>1, <2>1
<1>3. /\ DOMAIN Append(q, id) = 1 .. k + 1 /\ Append(q, id)[k + 1] = id
      /\ \A i \in 1 .. k : Append(q, id)[i] = q[i]
      /\ Len(Append(q, id)) = k + 1
  BY <1>2, AppendProperties
<1>4. \A i \in 1 .. k + 1 : i = k + 1 \/ i \in 1 .. k
  OBVIOUS
<1>5. Ids(Append(q, id)) = D
  <2>1. DOMAIN q = 1 .. k /\ 1 .. k \subseteq 1 .. k + 1 /\ k + 1 \in 1 .. k + 1
    OBVIOUS
  <2> QED
    BY <1>1, <1>3, <1>4, <2>1 DEF Ids
<1>6. \A i \in 1 .. k : q[i] \in Stored /\ q[i] # id
  BY DEF Descendants, Under
<1>7. Children(D) \subseteq D
  BY <1>1, BelowClosed
<1> QED
  BY <1>3, <1>4, <1>5, <1>6, <1>7 DEF Cascade

LEMMA CascadeHead ==
  ASSUME NEW q \in Seq(Node), q # <<>>, Cascade(q)
  PROVE  /\ Ids(Tail(q)) = Ids(q) \ {Head(q)}
         /\ Head(q) \notin Stored => Ids(q) = {Head(q)}
         /\ \A i, j \in DOMAIN Tail(q) : Tail(q)[i] = Tail(q)[j] => i = j
         /\ \A i \in DOMAIN Tail(q) : i = Len(Tail(q)) \/ Tail(q)[i] \in Stored
<1>1. PICK k \in Nat : Len(q) = k + 1
  <2>1. Len(q) \in Nat \ {0}
    BY EmptySeq, LenProperties
  <2>2. Len(q) - 1 \in Nat /\ Len(q) = (Len(q) - 1) + 1
    BY <2>1
  <2> QED
    BY <2>2
<1>2. DOMAIN q = 1 .. k + 1 /\ Head(q) = q[1]
  BY <1>1, LenProperties
<1>3. /\ DOMAIN Tail(q) = 1 .. k /\ Len(Tail(q)) = k
      /\ \A i \in 1 .. k : Tail(q)[i] = q[i + 1]
  BY <1>1, HeadTailProperties
<1>4. \A i \in 1 .. k : i + 1 \in DOMAIN q /\ i + 1 # 1 /\ (i + 1 = k + 1 => i = k)
  BY <1>2
<1>5. \A i \in DOMAIN q : i = 1 \/ \E j \in 1 .. k : i = j + 1
  <2> TAKE i \in DOMAIN q
  <2>1. i = 1 \/ (i - 1 \in 1 .. k /\ i = (i - 1) + 1)
    BY <1>2
  <2> QED
    BY <2>1
<1>6. 1 \in DOMAIN q
  BY <1>2
<1>7. Ids(Tail(q)) = Ids(q) \ {Head(q)}
  <2>1. ASSUME NEW n \in Ids(Tail(q)) PROVE n \in Ids(q) \ {Head(q)}
    <3>1. PICK i \in 1 .. k : n = q[i + 1]
      BY <1>3 DEF Ids
    <3> QED
      BY <1>2, <1>4, <1>6, <3>1 DEF Ids, Cascade
  <2>2. ASSUME NEW n \in Ids(q), n # Head(q) PROVE n \in Ids(Tail(q))
    <3>1. PICK i \in DOMAIN q : n = q[i]
      BY DEF Ids
    <3>2. PICK j \in 1 .. k : i = j + 1
      BY <1>2, <1>5, <2>2, <3>1
    <3> QED
      BY <1>3, <3>1, <3>2 DEF Ids
  <2> QED
    BY <2>1, <2>2
<1>8. Head(q) \notin Stored => Ids(q) = {Head(q)}
  <2>1. Head(q) \notin Stored => k + 1 = 1
    BY <1>1, <1>2, <1>6 DEF Cascade
  <2>2. k + 1 = 1 => DOMAIN q = {1}
    BY <1>2
  <2> QED
    BY <1>2, <2>1, <2>2 DEF Ids
<1>9. \A i, j \in DOMAIN Tail(q) : Tail(q)[i] = Tail(q)[j] => i = j
  <2>1. \A i, j \in 1 .. k : i + 1 = j + 1 => i = j
    OBVIOUS
  <2> QED
    BY <1>3, <1>4, <2>1 DEF Cascade
<1>10. \A i \in DOMAIN Tail(q) : i = Len(Tail(q)) \/ Tail(q)[i] \in Stored
  BY <1>1, <1>3, <1>4 DEF Cascade
<1> QED
  BY <1>7, <1>8, <1>9, <1>10

\* The first of the queue goes, and what hung below it is in the rest.
LEMMA CascadeGoes ==
  ASSUME NEW q \in Seq(Node), q # <<>>, Cascade(q),
         tree' = [m \in Stored \ {Head(q)} |-> tree[m]]
  PROVE  Cascade(Tail(q))'
<1>1. Stored' = Stored \ {Head(q)} /\ \A m \in Stored' : tree'[m] = tree[m]
  BY DEF Stored
<1>2. PICK I : I = Ids(Tail(q)) /\ I = Ids(q) \ {Head(q)}
  BY CascadeHead
<1>3. Children(I)' \subseteq I
  BY <1>1, <1>2 DEF Cascade, Children
<1>4. \A i \in DOMAIN Tail(q) : i = Len(Tail(q)) \/ Tail(q)[i] \in Stored'
  <2>1. \A i \in DOMAIN Tail(q) : Tail(q)[i] # Head(q)
    BY <1>2 DEF Ids
  <2> QED
    BY <1>1, <2>1, CascadeHead
<1> QED
  BY <1>2, <1>3, <1>4, CascadeHead DEF Cascade, Ids, Children

LEMMA TidyNow ==
  ASSUME Base, Working, Tidy, NEW c \in Caller
  PROVE  /\ DOMAIN pc = Caller /\ DOMAIN at = Caller /\ DOMAIN draft = Caller
         /\ DOMAIN queue = Caller /\ DOMAIN destroyed = Caller /\ DOMAIN ask = Caller
         /\ TidyOK(c) /\ WorkOK(c) /\ CallOK(c) /\ IdsOK /\ at[c] \in Nat \ {0}
         /\ Len(ask[c].creates) \in Nat /\ ask[c].destroys \in Seq(Node)
BY RequestShape DEF Base, LocalsOK, CallOK, Working, Tidy

LEMMA TidyOn ==
  ASSUME OneCaller, NEW c \in Caller, TidyOK(c)'
  PROVE  Tidy'
BY DEF OneCaller, Tidy

\* A step that neither writes the tree nor has nodes to destroy.
LEMMA TidyQuiet ==
  ASSUME OneCaller, Tidy, NEW c \in Caller, UNCHANGED <<tree, ask, destroyed>>,
         pc[c] \notin {"idle", "destroy", "replace", "remove", "erase"},
         pc'[c] \notin {"destroy", "replace", "remove", "erase"},
         pc'[c] \in CreatePcs => draft'[c].parent = Entry(c)'.patch.parent
  PROVE  Tidy'
<1>1. TidyOK(c) /\ Stored' = Stored
  BY DEF Tidy, Stored
<1>2. ~Sweeping(c) /\ ~Picking(c) /\ ~Sweeping(c)' /\ ~Picking(c)'
  BY DEF Sweeping, Picking
<1>3. Lost(c) = {}
  BY <1>1, <1>2 DEF TidyOK
<1>4. Lost(c)' = {}
  BY <1>1, <1>3 DEF Lost, Places, Ids
<1>5. TidyOK(c)'
  BY <1>2, <1>4 DEF TidyOK
<1> QED
  BY <1>5, TidyOn

\* The steps that check, and the loops over creates and originals.
LEMMA TidyLook ==
  ASSUME OneCaller, Base, Working, Tidy, NEW c \in Caller,
         \/ BeginCreate(c) \/ BeginCopy(c) \/ CheckCopyCycle(c) \/ CheckDepth(c)
         \/ FindSibling(c) \/ FindUniqueName(c) \/ MoveChecker(c)
         \/ EndCreates(c) \/ EndOriginals(c)
  PROVE  Tidy'
<1> USE DEF Goto, NextEntry, RefuseCreate, storeVars, workVars, replyVars
<1>1. /\ DOMAIN pc = Caller /\ DOMAIN at = Caller /\ DOMAIN draft = Caller /\ TidyOK(c)
  BY TidyNow
<1>2. UNCHANGED <<tree, ask, destroyed>>
  BY DEF BeginCreate, BeginCopy, CheckCopyCycle, CheckDepth, FindSibling, FindUniqueName,
     MoveChecker, SkipMoveChecks, CheckMoveCycle, ReadMoveDepth, CheckMoveDepth,
     EndCreates, EndOriginals, EndLoop
<1>3. at' = at => Entry(c)' = Entry(c)
  BY <1>2 DEF Entry
<1>4. CASE BeginCreate(c)
  <2>1. pc[c] = "create" /\ pc'[c] = "depth" /\ at' = at /\ draft'[c] = Entry(c).patch
    BY <1>1, <1>4 DEF BeginCreate, HasCreate
  <2> QED
    BY <1>2, <1>3, <2>1, TidyQuiet
<1>5. CASE BeginCopy(c)
  <2>1. pc[c] = "create" /\ pc'[c] \in {"create", "depth", "cycle"}
        /\ (pc'[c] # "create" => at' = at /\ draft'[c].parent = Entry(c).patch.parent)
    BY <1>1, <1>5 DEF BeginCopy, HasCreate
  <2> QED
    BY <1>2, <1>3, <2>1, TidyQuiet DEF CreatePcs
<1>6. CASE CheckCopyCycle(c) \/ CheckDepth(c) \/ FindSibling(c)
  <2>1. /\ pc[c] \in {"cycle", "depth", "sibling"} /\ draft' = draft
        /\ pc'[c] \in {"create", "depth", "sibling", "store", "unique", "replaced"}
        /\ pc'[c] # "create" => at' = at
    BY <1>1, <1>6 DEF CheckCopyCycle, CheckDepth, FindSibling
  <2>2. draft[c].parent = Entry(c).patch.parent
    BY <1>1, <2>1 DEF TidyOK, CreatePcs
  <2> QED
    BY <1>2, <1>3, <2>1, <2>2, TidyQuiet DEF CreatePcs
<1>7. CASE FindUniqueName(c)
  <2>1. pc[c] = "unique" /\ pc'[c] = "store" /\ at' = at
    BY <1>1, <1>7 DEF FindUniqueName
  <2>2. draft[c].parent = Entry(c).patch.parent
    BY <1>1, <2>1 DEF TidyOK, CreatePcs
  <2>3. PICK p, x : draft[c] = [parent |-> p, name |-> x]
    BY DEF Base, LocalsOK, CallOK, DraftOK
  <2>4. draft'[c].parent = draft[c].parent
    BY <1>1, <1>7, <2>3 DEF FindUniqueName
  <2> QED
    BY <1>2, <1>3, <2>1, <2>2, <2>4, TidyQuiet
<1>8. CASE MoveChecker(c) \/ EndCreates(c) \/ EndOriginals(c)
  <2>1. /\ pc[c] \in {"update", "ancestors", "height", "create", "original"}
        /\ pc'[c] \in {"update", "ancestors", "height", "patch", "original", "reply"}
    BY <1>1, <1>8 DEF MoveChecker, SkipMoveChecks, CheckMoveCycle, ReadMoveDepth,
       CheckMoveDepth, HasUpdate, EndCreates, EndOriginals, EndLoop
  <2> QED
    BY <1>2, <2>1, TidyQuiet DEF CreatePcs
<1> QED
  BY <1>4, <1>5, <1>6, <1>7, <1>8

\* A cascade begins with all that is below its node.
LEMMA TidySweep ==
  ASSUME OneCaller, Base, Working, Tidy, NEW c \in Caller,
         ~Sweeping(c), ~Picking(c), pc[c] # "idle", Sweeping(c)',
         UNCHANGED <<tree, ask, destroyed>>,
         pc'[c] = "replace" => pc[c] = "replaced" /\ at' = at /\ draft' = draft,
         NEW id, NEW q \in Walks(id),
         queue'[c] = Append(q, id) \/ queue'[c] = Append(Reversed(q), id)
  PROVE  Tidy'
<1>1. TidyOK(c) /\ IdsOK
  BY TidyNow
<1>2. Lost(c) = {} /\ Stored' = Stored
  BY <1>1 DEF TidyOK, Stored
<1>3. Lost(c)' = {}
  BY <1>2 DEF Lost, Places, Ids
<1>4. Cascade(queue'[c])
  <2>1. PICK k \in Nat :
          /\ q \in [1 .. k -> Descendants(id)] /\ Reversed(q) \in [1 .. k -> Descendants(id)]
          /\ Ids(q) = Descendants(id) /\ Ids(Reversed(q)) = Descendants(id)
          /\ \A i, j \in 1 .. k : q[i] = q[j] => i = j
          /\ \A i, j \in 1 .. k : Reversed(q)[i] = Reversed(q)[j] => i = j
    BY <1>1, WalkLists
  <2>2. Cascade(Append(q, id))
    BY <2>1, CascadeBegins
  <2>3. Cascade(Append(Reversed(q), id))
    BY <2>1, CascadeBegins
  <2> QED
    BY <2>2, <2>3
<1>5. Cascade(queue[c])'
  BY <1>2, <1>4 DEF Cascade, Children, Ids
<1>6. pc'[c] \in CreatePcs => draft'[c].parent = Entry(c)'.patch.parent
  BY <1>1 DEF Sweeping, CreatePcs, TidyOK, Entry
<1>7. ~Picking(c)'
  BY DEF Sweeping, Picking
<1>8. TidyOK(c)'
  BY <1>3, <1>5, <1>6, <1>7 DEF TidyOK
<1> QED
  BY <1>8, TidyOn

LEMMA TidyReads ==
  ASSUME OneCaller, Base, Working, Tidy, NEW c \in Caller,
         ReadReplaced(c) \/ ReadOriginal(c) \/ (ReadSubtree(c) /\ ask[c].removeChildren)
  PROVE  Tidy'
<1> USE DEF Goto, NextEntry, RefuseCreate, storeVars, replyVars
<1>1. /\ DOMAIN pc = Caller /\ DOMAIN at = Caller /\ DOMAIN queue = Caller /\ TidyOK(c)
      /\ UNCHANGED <<tree, ask, destroyed, draft>>
  BY TidyNow DEF ReadReplaced, ReadOriginal, ReadSubtree
<1>2. CASE ReadReplaced(c)
  <2>1. pc[c] = "replaced" /\ ~Sweeping(c) /\ ~Picking(c)
    BY <1>2 DEF ReadReplaced, Sweeping, Picking
  <2>2. CASE pc'[c] = "create"
    BY <1>1, <2>1, <2>2, TidyQuiet DEF CreatePcs
  <2>3. ASSUME NEW q \in Walks(Head(queue[c])), pc'[c] = "replace", at' = at,
               queue' = [queue EXCEPT ![c] = Append(q, Head(queue[c]))]
        PROVE  Tidy'
    <3>1. Sweeping(c)' /\ queue'[c] = Append(q, Head(queue[c]))
      BY <1>1, <2>3 DEF Sweeping
    <3> QED
      BY <1>1, <2>1, <2>3, <3>1, TidySweep
  <2> QED
    BY <1>1, <1>2, <2>2, <2>3 DEF ReadReplaced
<1>3. CASE ReadOriginal(c)
  <2>1. pc[c] = "original" /\ ~Sweeping(c) /\ ~Picking(c)
    BY <1>3 DEF ReadOriginal, Sweeping, Picking
  <2>2. CASE pc'[c] = "original"
    BY <1>1, <2>1, <2>2, TidyQuiet DEF CreatePcs
  <2>3. ASSUME NEW q \in Walks(Original(c)), pc'[c] = "erase",
               queue' = [queue EXCEPT ![c] = Append(Reversed(q), Original(c))]
        PROVE  Tidy'
    <3>1. Sweeping(c)' /\ queue'[c] = Append(Reversed(q), Original(c))
      BY <1>1, <2>3 DEF Sweeping
    <3> QED
      BY <1>1, <2>1, <2>3, <3>1, TidySweep
  <2> QED
    BY <1>1, <1>3, <2>2, <2>3 DEF ReadOriginal
<1>4. CASE ReadSubtree(c) /\ ask[c].removeChildren
  <2>1. pc[c] = "destroy" /\ ~Sweeping(c) /\ ~Picking(c)
    BY <1>4 DEF ReadSubtree, Sweeping, Picking
  <2>2. PICK q \in Walks(Victim(c)) :
          queue' = [queue EXCEPT ![c] = Append(q, Victim(c))] /\ pc' = [pc EXCEPT ![c] = "remove"]
    BY <1>4 DEF ReadSubtree
  <2>3. Sweeping(c)' /\ queue'[c] = Append(q, Victim(c)) /\ pc'[c] = "remove"
    BY <1>1, <1>4, <2>2 DEF Sweeping
  <2> QED
    BY <1>1, <2>1, <2>2, <2>3, TidySweep
<1> QED
  BY <1>2, <1>3, <1>4

\* A destroy that does not cascade is allowed or refused.
LEMMA TidyPick ==
  ASSUME OneCaller, Base, Working, Tidy, NEW c \in Caller,
         ReadSubtree(c), ~ask[c].removeChildren
  PROVE  Tidy'
<1> USE DEF Goto, NextEntry, storeVars, replyVars
<1>1. /\ DOMAIN pc = Caller /\ DOMAIN at = Caller /\ DOMAIN queue = Caller /\ TidyOK(c)
      /\ at[c] \in Nat \ {0} /\ ask[c].destroys \in Seq(Node)
      /\ UNCHANGED <<tree, ask, destroyed>>
  BY TidyNow DEF ReadSubtree
<1>2. /\ pc[c] = "destroy" /\ Picking(c) /\ at[c] \in DOMAIN ask[c].destroys
      /\ Victim(c) = ask[c].destroys[at[c]]
  BY <1>1 DEF ReadSubtree, Picking, Victim
<1>3. /\ Stored' = Stored /\ DestroySet(c)' = DestroySet(c) /\ Lost(c)' = Lost(c)
      /\ \A n : MayGo(c, n)' = MayGo(c, n)
  BY <1>1 DEF Stored, DestroySet, Lost, Places, Ids, MayGo, Descendants, Under, Children
<1>4. /\ Lost(c) \subseteq Due(c)
      /\ \A i \in DOMAIN ask[c].destroys :
           i < at[c] /\ ask[c].destroys[i] \in Stored => ~MayGo(c, ask[c].destroys[i])
  BY <1>1, <1>2 DEF TidyOK
<1>5. CASE MayGo(c, Victim(c))
  <2>1. /\ queue'[c] = <<Victim(c)>> /\ pc'[c] = "remove" /\ at' = at
    BY <1>1, <1>5 DEF ReadSubtree, MayGo
  <2>2. Picking(c)' /\ ~Sweeping(c)' /\ Due(c)' = Due(c) /\ Victim(c)' = Victim(c)
    BY <1>1, <1>3, <2>1 DEF Picking, Sweeping, Due, Victim
  <2>3. TidyOK(c)'
    BY <1>1, <1>2, <1>3, <1>4, <1>5, <2>1, <2>2 DEF TidyOK, CreatePcs
  <2> QED
    BY <2>3, TidyOn
<1>6. CASE ~MayGo(c, Victim(c))
  <2>1. pc'[c] = "destroy" /\ at'[c] = at[c] + 1
    BY <1>1, <1>6 DEF ReadSubtree, MayGo
  <2>2. Picking(c)' /\ ~Sweeping(c)'
    BY <1>1, <2>1 DEF Picking, Sweeping
  <2>3. Due(c) \subseteq Due(c)'
    <3> SUFFICES ASSUME NEW i \in DOMAIN ask[c].destroys, at[c] <= i,
                        MayGo(c, ask[c].destroys[i])
                 PROVE  at[c] + 1 <= i
      BY <1>1, <1>3, <2>1 DEF Due
    <3>1. i # at[c] /\ i \in Nat
      BY <1>1, <1>2, <1>6
    <3> QED
      BY <1>1, <3>1
  <2>4. \A i \in DOMAIN ask[c].destroys :
           i < at[c] + 1 /\ ask[c].destroys[i] \in Stored => ~MayGo(c, ask[c].destroys[i])
    <3>1. \A i \in DOMAIN ask[c].destroys : i < at[c] + 1 => i < at[c] \/ i = at[c]
      BY <1>1
    <3> QED
      BY <1>2, <1>4, <1>6, <3>1
  <2>5. TidyOK(c)'
    BY <1>1, <1>3, <1>4, <2>1, <2>2, <2>3, <2>4 DEF TidyOK, CreatePcs
  <2> QED
    BY <2>5, TidyOn
<1> QED
  BY <1>5, <1>6

\* The loops over updates and over destroys end.
LEMMA TidyEnds ==
  ASSUME OneCaller, Base, Working, Tidy, NEW c \in Caller, EndUpdates(c) \/ EndDestroys(c)
  PROVE  Tidy'
<1> USE DEF Goto, storeVars, replyVars
<1>1. /\ DOMAIN pc = Caller /\ DOMAIN at = Caller /\ TidyOK(c)
      /\ at[c] \in Nat \ {0} /\ ask[c].destroys \in Seq(Node)
      /\ UNCHANGED <<tree, ask, destroyed>>
  BY TidyNow DEF EndUpdates, EndDestroys, EndLoop
<1>2. Lost(c)' = Lost(c)
  BY <1>1 DEF Lost, Places, Ids, Stored
<1>3. CASE EndUpdates(c)
  <2>1. pc[c] = "update" /\ pc'[c] = "destroy" /\ at'[c] = 1
    BY <1>1, <1>3 DEF EndUpdates, EndLoop
  <2>2. Lost(c) = {} /\ ~Sweeping(c)'
    BY <1>1, <2>1 DEF TidyOK, Sweeping, Picking
  <2>3. \A i \in DOMAIN ask[c].destroys : ~(i < 1)
    BY <1>1
  <2>4. TidyOK(c)'
    BY <1>1, <1>2, <2>1, <2>2, <2>3 DEF TidyOK, CreatePcs
  <2> QED
    BY <2>4, TidyOn
<1>4. CASE EndDestroys(c)
  <2>1. pc[c] = "destroy" /\ pc'[c] = "reply" /\ at[c] > Len(ask[c].destroys)
    BY <1>1, <1>4 DEF EndDestroys, EndLoop
  <2>2. Due(c) = {}
    <3>1. \A i \in DOMAIN ask[c].destroys : ~(at[c] <= i)
      BY <1>1, <2>1
    <3> QED
      BY <3>1 DEF Due
  <2>3. Lost(c) = {}
    BY <1>1, <2>1, <2>2 DEF TidyOK, Sweeping, Picking
  <2>4. TidyOK(c)'
    BY <1>2, <2>1, <2>3 DEF TidyOK, Sweeping, Picking, CreatePcs
  <2> QED
    BY <2>4, TidyOn
<1> QED
  BY <1>3, <1>4

\* What the call itself puts below a destroyed node is not lost.
LEMMA TidyStore ==
  ASSUME OneCaller, Base, Working, Tidy, NEW c \in Caller, Store(c)
  PROVE  Tidy'
<1>1. TidyOK(c) /\ WorkOK(c) /\ IdsOK /\ DOMAIN pc = Caller /\ at[c] \in Nat \ {0}
  BY TidyNow
<1>2. PICK m : m = minted + 1
  OBVIOUS
<1>3. /\ pc[c] = "store" /\ pc'[c] = "create" /\ ask' = ask /\ destroyed' = destroyed
      /\ tree' = [n \in Stored \cup {m} |-> IF n = m THEN draft[c] ELSE tree[n]]
  BY <1>1, <1>2 DEF Store, NextEntry, Goto
<1>4. at[c] <= Len(ask[c].creates) /\ draft[c].parent = Entry(c).patch.parent
  BY <1>1, <1>3 DEF WorkOK, TidyOK, CreatePcs
<1>5. draft[c].parent \in Places(c)
  <2>1. ask[c].creates \in Seq(CreateEntry \cup CopyEntry)
    BY RequestShape DEF Base, LocalsOK, CallOK
  <2>2. at[c] \in DOMAIN ask[c].creates
    BY <1>1, <1>4, <2>1
  <2> QED
    BY <1>4, <2>2 DEF Places, Entry
<1>6. Lost(c) = {}
  BY <1>1, <1>3 DEF TidyOK, Sweeping, Picking
<1>7. Places(c)' = Places(c) /\ Ids(destroyed[c])' = Ids(destroyed[c])
  BY <1>3 DEF Places, Ids
<1>8. m \notin Stored /\ Stored' = Stored \cup {m}
  BY <1>1, <1>2, <1>3 DEF IdsOK, Stored
<1>9. Lost(c)' = {}
  BY <1>3, <1>5, <1>6, <1>7, <1>8 DEF Lost
<1>10. TidyOK(c)'
  BY <1>3, <1>9 DEF TidyOK, Sweeping, Picking, CreatePcs
<1> QED
  BY <1>10, TidyOn

LEMMA TidyPatch ==
  ASSUME OneCaller, Base, Working, Tidy, NEW c \in Caller, Patch(c)
  PROVE  Tidy'
<1>1. TidyOK(c) /\ DOMAIN pc = Caller /\ destroyed' = destroyed
  BY TidyNow DEF Patch, replyVars
<1>2. PICK id, patch : Patches(c, id, patch)
  BY PatchBase
<1>3. pc[c] = "patch" /\ pc'[c] = "update" /\ ask' = ask /\ Stored' = Stored
  BY <1>2 DEF Patches
<1>4. Lost(c) = {}
  BY <1>1, <1>3 DEF TidyOK, Sweeping, Picking
<1>5. Places(c)' = Places(c) /\ Ids(destroyed[c])' = Ids(destroyed[c])
  BY <1>1, <1>3 DEF Places, Ids
<1>6. "parent" \in DOMAIN patch => patch.parent \in Places(c)
  <2>1. at[c] \in DOMAIN ask[c].updates
    BY <1>3 DEF Base, LocalsOK, CallOK, MovePcs
  <2> QED
    BY <1>2, <2>1 DEF Patches, Places, Change
<1>7. Lost(c)' = {}
  <2> SUFFICES ASSUME NEW n \in Stored, tree'[n].parent \in Ids(destroyed[c]) \ Places(c)
               PROVE  FALSE
    BY <1>3, <1>5 DEF Lost
  <2>1. tree'[n].parent \in {tree[n].parent} \cup Places(c)
    BY <1>2, <1>6 DEF Patches
  <2> QED
    BY <1>4, <2>1 DEF Lost
<1>8. TidyOK(c)'
  BY <1>3, <1>7 DEF TidyOK, Sweeping, Picking, CreatePcs
<1> QED
  BY <1>8, TidyOn

\* A node that goes leaves its children behind.
LEMMA LostGrows ==
  ASSUME NEW c \in Caller, NEW v \in Stored, ask' = ask, destroyed[c] \in Seq(Node), v \in Node,
         destroyed'[c] = Append(destroyed[c], v), tree' = [m \in Stored \ {v} |-> tree[m]]
  PROVE  Lost(c)' \subseteq (Lost(c) \cup Children({v})) \ {v}
<1>1. Stored' = Stored \ {v} /\ \A m \in Stored' : tree'[m] = tree[m]
  BY DEF Stored
<1>2. Places(c)' = Places(c)
  BY DEF Places
<1>3. Ids(destroyed[c])' = Ids(destroyed[c]) \cup {v}
  <2>1. PICK k \in Nat : k = Len(destroyed[c])
    BY LenProperties
  <2>2. /\ DOMAIN destroyed[c] = 1 .. k /\ DOMAIN destroyed'[c] = 1 .. k + 1
        /\ destroyed'[c][k + 1] = v /\ \A i \in 1 .. k : destroyed'[c][i] = destroyed[c][i]
    BY <2>1, AppendProperties, LenProperties
  <2>3. 1 .. k + 1 = 1 .. k \cup {k + 1}
    BY <2>1
  <2> QED
    BY <2>2, <2>3 DEF Ids
<1> QED
  BY <1>1, <1>2, <1>3 DEF Lost, Children

LEMMA TidyGoesOn ==
  ASSUME OneCaller, Base, Working, Tidy, NEW c \in Caller, DestroyNext(c), Sweeping(c)
  PROVE  Tidy'
<1> USE DEF Goto, NextEntry, RefuseCreate
<1>1. /\ DOMAIN pc = Caller /\ DOMAIN at = Caller /\ DOMAIN queue = Caller
      /\ DOMAIN destroyed = Caller /\ TidyOK(c) /\ WorkOK(c)
  BY TidyNow
<1>2. pc[c] \in {"replace", "remove", "erase"} /\ UNCHANGED <<ask, draft>>
  BY DEF DestroyNext
<1>3. queue[c] \in Seq(Node) /\ queue[c] # <<>> /\ destroyed[c] \in Seq(Node)
  BY <1>1, <1>2 DEF WorkOK, DestroyPcs
<1>4. Cascade(queue[c]) /\ Lost(c) \subseteq Ids(queue[c])
  BY <1>1 DEF TidyOK
<1>5. Head(queue[c]) \in Node /\ Head(queue[c]) \in Ids(queue[c])
  <2>1. Head(queue[c]) = queue[c][1] /\ 1 \in DOMAIN queue[c]
    BY <1>3, EmptySeq, LenProperties
  <2> QED
    BY <1>3, <2>1 DEF Ids
<1>6. /\ pc[c] = "replace" => draft[c].parent = Entry(c).patch.parent
      /\ at' = at => Entry(c)' = Entry(c)
  BY <1>1, <1>2 DEF TidyOK, CreatePcs, Entry
<1>7. CASE Head(queue[c]) \in Stored
  <2>1. PICK v, r : v = Head(queue[c]) /\ r = Tail(queue[c])
    OBVIOUS
  <2>2. /\ tree' = [m \in Stored \ {v} |-> tree[m]]
        /\ destroyed'[c] = Append(destroyed[c], v) /\ queue'[c] = r
        /\ IF Len(queue[c]) = 1 THEN AfterDestroy(c) ELSE UNCHANGED <<pc, at>>
    BY <1>1, <1>7, <2>1 DEF DestroyNext, NotFound
  <2>3. Lost(c)' \subseteq (Lost(c) \cup Children({v})) \ {v}
    BY <1>2, <1>3, <1>5, <1>7, <2>1, <2>2, LostGrows
  <2>4. Cascade(r)' /\ Ids(r) = Ids(queue[c]) \ {v}
    BY <1>3, <1>4, <2>1, <2>2, CascadeHead, CascadeGoes DEF Cascade
  <2>5. Lost(c)' \subseteq Ids(r)
    BY <1>4, <1>5, <2>1, <2>3, <2>4 DEF Cascade, Children
  <2>6. CASE Len(queue[c]) # 1
    <3>1. pc'[c] = pc[c] /\ at' = at
      BY <2>2, <2>6
    <3>2. Cascade(queue[c])' /\ Lost(c)' \subseteq Ids(queue[c])'
      BY <2>2, <2>4, <2>5 DEF Cascade, Ids
    <3>3. Sweeping(c)' /\ ~Picking(c)'
      BY <1>2, <3>1 DEF Sweeping, Picking
    <3>4. TidyOK(c)'
      BY <1>2, <1>6, <3>1, <3>2, <3>3 DEF TidyOK, CreatePcs
    <3> QED
      BY <3>4, TidyOn
  <2>7. CASE Len(queue[c]) = 1
    <3>1. r = <<>>
      BY <1>3, <2>1, <2>7
    <3>2. Lost(c)' = {}
      BY <2>5, <3>1 DEF Ids
    <3>3. /\ pc[c] = "replace" => pc'[c] = "store" /\ at' = at
          /\ pc[c] = "remove" => pc'[c] = "destroy"
          /\ pc[c] = "erase" => pc'[c] = "original"
      BY <1>1, <1>2, <2>2, <2>7 DEF AfterDestroy
    <3>4. ~Sweeping(c)' /\ ~Picking(c)'
      BY <1>2, <3>3 DEF Sweeping, Picking
    <3>5. TidyOK(c)'
      BY <1>2, <1>6, <3>2, <3>3, <3>4 DEF TidyOK, CreatePcs
    <3> QED
      BY <3>5, TidyOn
  <2> QED
    BY <2>6, <2>7
<1>8. CASE Head(queue[c]) \notin Stored
  <2>1. /\ tree' = tree /\ destroyed' = destroyed
        /\ pc[c] = "replace" => pc'[c] = "create"
        /\ pc[c] = "remove" => pc'[c] = "destroy"
        /\ pc[c] = "erase" => pc'[c] = "original"
    BY <1>1, <1>2, <1>8 DEF DestroyNext, NotFound, AbortDestroy
  <2>2. Lost(c) = {}
    BY <1>3, <1>4, <1>8, CascadeHead DEF Lost
  <2>3. Lost(c)' = {}
    BY <1>2, <2>1, <2>2 DEF Lost, Places, Ids, Stored
  <2>4. ~Sweeping(c)' /\ ~Picking(c)'
    BY <1>2, <2>1 DEF Sweeping, Picking
  <2>5. TidyOK(c)'
    BY <1>2, <2>1, <2>3, <2>4 DEF TidyOK, CreatePcs
  <2> QED
    BY <2>5, TidyOn
<1> QED
  BY <1>7, <1>8

\* What the call was allowed to destroy takes nothing along that the call does
\* not destroy later: a node it has passed and left stays refused.
LEMMA TidyPicked ==
  ASSUME OneCaller, Base, Working, Tidy, NEW c \in Caller, DestroyNext(c), Picking(c)
  PROVE  Tidy'
<1> USE DEF Goto, NextEntry
<1>1. /\ DOMAIN pc = Caller /\ DOMAIN at = Caller /\ DOMAIN queue = Caller
      /\ DOMAIN destroyed = Caller /\ TidyOK(c) /\ WorkOK(c)
      /\ at[c] \in Nat \ {0} /\ ask[c].destroys \in Seq(Node)
  BY TidyNow
<1>2. pc[c] = "remove" /\ ask' = ask /\ ~ask[c].removeChildren
  BY DEF DestroyNext, Picking
<1>3. PICK v, D : v = Victim(c) /\ D = DestroySet(c)
  OBVIOUS
<1>4. /\ queue[c] = <<v>> /\ at[c] \in DOMAIN ask[c].destroys /\ Descendants(v) \subseteq D
      /\ Lost(c) \subseteq Due(c)
      /\ \A i \in DOMAIN ask[c].destroys :
           i < at[c] /\ ask[c].destroys[i] \in Stored => ~(Descendants(ask[c].destroys[i]) \subseteq D)
  BY <1>1, <1>2, <1>3 DEF TidyOK, MayGo
<1>5. v \in Node /\ v \in D /\ v = ask[c].destroys[at[c]]
  BY <1>1, <1>3, <1>4 DEF DestroySet, Victim
<1>6. pc'[c] = "destroy" /\ at'[c] = at[c] + 1
  BY <1>1, <1>2, <1>4 DEF DestroyNext, AfterDestroy, AbortDestroy
<1>7. Picking(c)' /\ ~Sweeping(c)' /\ DestroySet(c)' = D
  BY <1>2, <1>3, <1>6 DEF Picking, Sweeping, DestroySet
<1>8. SUFFICES /\ Lost(c)' \subseteq Due(c)'
               /\ \A i \in DOMAIN ask[c].destroys :
                    i < at[c] + 1 /\ ask[c].destroys[i] \in Stored'
                      => ~(Descendants(ask[c].destroys[i])' \subseteq D)
  <2>1. TidyOK(c)'
    BY <1>2, <1>6, <1>7, <1>8 DEF TidyOK, MayGo, CreatePcs
  <2> QED
    BY <2>1, TidyOn
<1>9. \A n : n # v => (n \in Due(c) <=>
        \E i \in DOMAIN ask[c].destroys :
          at[c] + 1 <= i /\ n = ask[c].destroys[i] /\ Descendants(n) \subseteq D)
  <2>1. \A i \in DOMAIN ask[c].destroys :
          ask[c].destroys[i] # v => (at[c] <= i <=> at[c] + 1 <= i)
    BY <1>1, <1>4, <1>5
  <2> QED
    BY <1>3, <2>1 DEF Due, MayGo
<1>10. \A n : n \in Due(c)' <=>
         \E i \in DOMAIN ask[c].destroys :
           at[c] + 1 <= i /\ n = ask[c].destroys[i] /\ Descendants(n)' \subseteq D
  BY <1>2, <1>6, <1>7 DEF Due, MayGo
<1>11. \A i \in DOMAIN ask[c].destroys : i < at[c] + 1 => i < at[c] \/ i = at[c]
  BY <1>1
<1>12. CASE v \in Stored
  <2>1. /\ tree' = [m \in Stored \ {v} |-> tree[m]]
        /\ destroyed'[c] = Append(destroyed[c], v)
    BY <1>1, <1>4, <1>12 DEF DestroyNext, NotFound
  <2>2. Lost(c)' \subseteq (Lost(c) \cup Children({v})) \ {v}
    BY <1>1, <1>2, <1>5, <1>12, <2>1, LostGrows DEF WorkOK
  <2>3. \A n : Descendants(n)' \subseteq Descendants(n)
    BY <2>1, BelowShrinks
  <2>4. Stored' = Stored \ {v}
    BY <2>1 DEF Stored
  <2>5. ASSUME NEW n \in Lost(c)' PROVE n \in Due(c)'
    <3>1. n # v
      BY <2>2, <2>5
    <3>2. CASE n \in Lost(c)
      BY <1>4, <1>9, <1>10, <2>3, <3>1, <3>2
    <3>3. CASE n \in Children({v})
      <4>1. n \in Stored /\ n \in Descendants(v) /\ Descendants(n) \subseteq Descendants(v) \cup {v}
        BY <1>12, <3>1, <3>3, BelowChild DEF Children
      <4>2. n \in D /\ Descendants(n) \subseteq D
        BY <1>4, <1>5, <4>1
      <4>3. PICK i \in DOMAIN ask[c].destroys : n = ask[c].destroys[i]
        BY <1>3, <4>2 DEF DestroySet
      <4>4. ~(i < at[c]) /\ i # at[c]
        BY <1>4, <1>5, <3>1, <4>1, <4>2, <4>3
      <4>5. at[c] + 1 <= i
        BY <1>1, <4>3, <4>4
      <4> QED
        BY <1>10, <2>3, <4>2, <4>3, <4>5
    <3> QED
      BY <2>2, <2>5, <3>2, <3>3
  <2>6. ASSUME NEW i \in DOMAIN ask[c].destroys, i < at[c] + 1, ask[c].destroys[i] \in Stored'
        PROVE  ~(Descendants(ask[c].destroys[i])' \subseteq D)
    <3>1. PICK n : n = ask[c].destroys[i]
      OBVIOUS
    <3>2. n \in Stored /\ i < at[c]
      BY <1>5, <1>11, <2>4, <2>6, <3>1
    <3>3. ~(Descendants(n) \subseteq D)
      BY <1>4, <3>1, <3>2
    <3>4. ~(Descendants(n)' \subseteq D)
      BY <1>4, <1>5, <2>1, <3>3, BelowStays
    <3>5. Descendants(ask[c].destroys[i])' = Descendants(n)'
      BY <1>2, <3>1 DEF Descendants, Under, Children
    <3> QED
      BY <3>4, <3>5
  <2> QED
    BY <2>5, <2>6
<1>13. CASE v \notin Stored
  <2>1. tree' = tree /\ destroyed' = destroyed
    BY <1>2, <1>4, <1>13 DEF DestroyNext, NotFound, AbortDestroy
  <2>2. Stored' = Stored /\ Lost(c)' = Lost(c) /\ \A n : Descendants(n)' = Descendants(n)
    BY <1>2, <2>1 DEF Stored, Lost, Places, Ids, Descendants, Under, Children
  <2>3. Lost(c) \subseteq Stored
    BY DEF Lost
  <2>4. Lost(c)' \subseteq Due(c)'
    BY <1>4, <1>9, <1>10, <1>13, <2>2, <2>3
  <2>5. ASSUME NEW i \in DOMAIN ask[c].destroys, i < at[c] + 1, ask[c].destroys[i] \in Stored'
        PROVE  ~(Descendants(ask[c].destroys[i])' \subseteq D)
    <3>1. PICK n : n = ask[c].destroys[i]
      OBVIOUS
    <3>2. n \in Stored /\ i < at[c]
      BY <1>5, <1>11, <1>13, <2>2, <2>5, <3>1
    <3>3. ~(Descendants(n)' \subseteq D)
      BY <1>4, <2>2, <3>1, <3>2
    <3>4. Descendants(ask[c].destroys[i])' = Descendants(n)'
      BY <1>2, <3>1 DEF Descendants, Under, Children
    <3> QED
      BY <3>3, <3>4
  <2> QED
    BY <2>4, <2>5
<1> QED
  BY <1>12, <1>13

LEMMA TidyCall ==
  ASSUME OneCaller, Base, Working, Tidy, NEW c \in Caller, Start(c) \/ Reply(c)
  PROVE  Tidy'
<1> USE DEF Goto
<1>1. DOMAIN pc = Caller /\ DOMAIN destroyed = Caller
  BY TidyNow
<1>2. CASE Start(c)
  <2>1. pc'[c] = "create" /\ destroyed'[c] = <<>>
    BY <1>1, <1>2 DEF Start
  <2>2. TidyOK(c)'
    BY <2>1 DEF TidyOK, Sweeping, Picking, CreatePcs, Lost, Ids
  <2> QED
    BY <2>2, TidyOn
<1>3. CASE Reply(c)
  <2>1. pc'[c] = "idle"
    BY <1>1, <1>3 DEF Reply
  <2>2. TidyOK(c)'
    BY <2>1 DEF TidyOK, Sweeping, Picking, CreatePcs
  <2> QED
    BY <2>2, TidyOn
<1> QED
  BY <1>2, <1>3

LEMMA TidyNext ==
  ASSUME OneCaller, Base, Working, Tidy, [Next]_vars
  PROVE  Tidy'
<1>1. CASE UNCHANGED vars
  <2>1. UNCHANGED <<tree, pc, at, ask, draft, queue, destroyed>>
    BY <1>1 DEF vars
  <2>2. ASSUME NEW c \in Caller PROVE TidyOK(c)'
    <3>1. /\ TidyOK(c) /\ Stored' = Stored /\ Lost(c)' = Lost(c) /\ Entry(c)' = Entry(c)
          /\ Sweeping(c)' = Sweeping(c) /\ Picking(c)' = Picking(c)
          /\ Victim(c)' = Victim(c) /\ Due(c)' = Due(c) /\ \A n : MayGo(c, n)' = MayGo(c, n)
      BY <2>1 DEF Tidy, Stored, Lost, Places, Ids, Entry, Sweeping, Picking, Victim, Due, MayGo,
         DestroySet, Descendants, Under, Children
    <3>2. Cascade(queue[c]) => Cascade(queue[c])'
      BY <2>1 DEF Cascade, Children, Ids, Stored
    <3> QED
      BY <2>1, <3>1, <3>2 DEF TidyOK, Ids
  <2> QED
    BY <2>2 DEF Tidy
<1>2. ASSUME NEW c \in Caller, DestroyStep(c) PROVE Tidy'
  <2>1. DestroyNext(c) => Sweeping(c) \/ Picking(c)
    BY DEF DestroyNext, Sweeping, Picking
  <2> QED
    BY <1>2, <2>1, TidyReads, TidyPick, TidyGoesOn, TidyPicked DEF DestroyStep
<1>3. CASE Next
  BY <1>2, <1>3, TidyLook, TidyReads, TidyEnds, TidyStore, TidyPatch, TidyCall
     DEF Next, CreateStep, UpdateStep, LoopStep, MoveChecker
<1> QED
  BY <1>1, <1>3

\* A call of handle_filenode_set or handle_filenode_copy that has the account
\* to itself leaves no node below one it destroyed: what a destroy refuses for
\* its children stays, what it takes it takes with all that is below, in any
\* tree, for any order and repetition of ids, with and without
\* onDestroyRemoveChildren, and for replaced and copied originals alike.
THEOREM NoneStranded ==
  ASSUME OneCaller
  PROVE  Spec => []NoOrphanLeft
<1>1. Init => Base /\ Working /\ Tidy
  <2>1. Init => Tidy
    BY DEF Init, Tidy, TidyOK, Sweeping, Picking, CreatePcs
  <2> QED
    BY <2>1, WorkInit
<1>2. Base /\ Working /\ Tidy /\ [Next]_vars => Base' /\ Working' /\ Tidy'
  BY BaseNext, WorkNext, TidyNext
<1>3. Tidy => NoOrphanLeft
  <2> SUFFICES ASSUME Tidy, NEW c \in Caller, pc[c] = "reply", NEW i \in DOMAIN destroyed[c],
                      Children({destroyed[c][i]}) # {}
               PROVE  destroyed[c][i] \in Places(c)
    BY DEF NoOrphanLeft, Places
  <2>1. Lost(c) = {}
    BY DEF Tidy, TidyOK, Sweeping, Picking
  <2> QED
    BY <2>1 DEF Lost, Children, Ids
<1> QED
  BY <1>1, <1>2, <1>3, PTL DEF Spec
-----------------------------------------------------------------------------
(* No node is deeper than the limit.  Depths are sizes of sets of          *)
(* ancestors: a step is followed by what it adds to these sets.            *)

LEMMA AncestorsFinite ==
  ASSUME IdsOK, NEW n
  PROVE  /\ Ancestors(n) \subseteq Stored /\ IsFiniteSet(Ancestors(n))
         /\ Cardinality(Ancestors(n)) \in Nat
         /\ n \notin Stored => Ancestors(n) = {}
<1>1. Stored \subseteq 1 .. minted /\ minted \in Nat
  BY BoundsAssumption DEF IdsOK
<1>2. IsFiniteSet(1 .. minted)
  <2>1. 1 \in Int /\ minted \in Int
    BY <1>1
  <2> QED
    BY <2>1, FS_Interval
<1>3. Ancestors(n) \subseteq Stored /\ (n \notin Stored => Ancestors(n) = {})
  BY BelowFinite DEF Ancestors
<1>4. IsFiniteSet(Ancestors(n))
  <2>1. Ancestors(n) \in SUBSET (1 .. minted)
    BY <1>1, <1>3
  <2> QED
    BY <1>2, <2>1, FS_Subset
<1> QED
  BY <1>3, <1>4, FS_CardinalityType

\* With no more ancestors a node is no deeper.
LEMMA NoDeeper ==
  ASSUME IdsOK, IdsOK', NEW n, Ancestors(n)' \subseteq Ancestors(n)
  PROVE  Depth(n)' <= Depth(n) /\ DepthUnder(n)' <= DepthUnder(n)
<1>1. PICK A, B : A = Ancestors(n) /\ B = Ancestors(n)'
  OBVIOUS
<1>2. IsFiniteSet(A) /\ Cardinality(A) \in Nat
  BY <1>1, AncestorsFinite
<1>3. Cardinality(B) \in Nat
  <2>1. IsFiniteSet(B)
    BY <1>1, <1>2, FS_Subset
  <2> QED
    BY <2>1, FS_CardinalityType
<1>4. Cardinality(B) <= Cardinality(A)
  BY <1>1, <1>2, FS_Subset
<1>5. Depth(n)' = Cardinality(B) + 1 /\ Depth(n) = Cardinality(A) + 1
  BY <1>1 DEF Depth
<1>6. /\ DepthUnder(n)' = IF n = Top THEN 1 ELSE Cardinality(B) + 2
      /\ DepthUnder(n) = IF n = Top THEN 1 ELSE Cardinality(A) + 2
  BY <1>1 DEF DepthUnder
<1> QED
  BY <1>2, <1>3, <1>4, <1>5, <1>6

\* The descendants in the next state are within what is closed under children.
LEMMA BelowLeastNext ==
  ASSUME NEW id, NEW S, Children(S \cup {id})' \subseteq S \cup {id}
  PROVE  Descendants(id)' \subseteq S
<1>1. PICK T : T = (S \cup {id}) \cap Stored'
  OBVIOUS
<1>2. Children(T \cup {id})' \cap Stored' \subseteq T /\ T \in SUBSET Stored'
  BY <1>1 DEF Children
<1>3. Descendants(id)' \subseteq T \ {id}
  BY <1>2 DEF Descendants, Under
<1> QED
  BY <1>1, <1>3

LEMMA DestroyNoDeeper ==
  ASSUME IdsOK, IdsOK', NEW v, tree' = [m \in Stored \ {v} |-> tree[m]], NEW n
  PROVE  Depth(n)' <= Depth(n) /\ DepthUnder(n)' <= DepthUnder(n)
<1>1. Stored' \subseteq Stored
  BY DEF Stored
<1>2. ASSUME NEW a PROVE Descendants(a)' \subseteq Descendants(a)
  BY BelowShrinks
<1>3. Ancestors(n)' \subseteq Ancestors(n)
  BY <1>1, <1>2 DEF Ancestors
<1> QED
  BY <1>3, NoDeeper

\* A new node is below its parent and what that is below, and changes nothing
\* for the others.
LEMMA StoreDepth ==
  ASSUME IdsOK, IdsOK', NEW d, NEW m, m = minted + 1,
         tree' = [n \in Stored \cup {m} |-> IF n = m THEN d ELSE tree[n]],
         d.parent \in 0 .. minted
  PROVE  /\ \A n \in Stored : Depth(n)' <= Depth(n)
         /\ Depth(m)' <= DepthUnder(d.parent)
<1>1. minted \in Nat /\ Stored \subseteq 1 .. minted /\ m \notin Stored /\ d.parent # m
      /\ \A n \in Stored : tree[n].parent # m
  BY BoundsAssumption DEF IdsOK
<1>2. Stored' = Stored \cup {m} /\ tree'[m].parent = d.parent
      /\ \A n \in Stored : tree'[n] = tree[n]
  BY <1>1 DEF Stored
<1>3. Descendants(m)' = {}
  <2>1. Children({} \cup {m})' \subseteq {} \cup {m}
    BY <1>1, <1>2 DEF Children
  <2>2. Descendants(m)' \subseteq {}
    BY <2>1, BelowLeastNext
  <2> QED
    BY <2>2
<1>4. ASSUME NEW a \in Stored, NEW n \in Stored, n \in Descendants(a)'
      PROVE  n \in Descendants(a)
  <2>1. PICK D : D = Descendants(a)
    OBVIOUS
  <2>2. \A k \in Stored : tree[k].parent \in D \cup {a} => k \in D \cup {a}
    BY <2>1, BelowClosed DEF Children
  <2>3. Children((D \cup {m}) \cup {a})' \subseteq (D \cup {m}) \cup {a}
    BY <1>1, <1>2, <2>2 DEF Children
  <2>4. Descendants(a)' \subseteq D \cup {m}
    BY <2>3, BelowLeastNext
  <2> QED
    BY <1>1, <1>4, <2>1, <2>4
<1>5. ASSUME NEW a \in Stored, m \in Descendants(a)'
      PROVE  d.parent \in Descendants(a) \cup {a}
  <2> SUFFICES ASSUME d.parent \notin Descendants(a) \cup {a} PROVE FALSE
    OBVIOUS
  <2>1. PICK D : D = Descendants(a)
    OBVIOUS
  <2>2. /\ \A k \in Stored : tree[k].parent \in D \cup {a} => k \in D \cup {a}
        /\ D \subseteq Stored
    BY <2>1, BelowClosed DEF Children
  <2>3. Children(D \cup {a})' \subseteq D \cup {a}
    BY <1>2, <2>1, <2>2 DEF Children
  <2>4. Descendants(a)' \subseteq D
    BY <2>3, BelowLeastNext
  <2> QED
    BY <1>1, <1>5, <2>2, <2>4
<1>6. ASSUME NEW n \in Stored PROVE Depth(n)' <= Depth(n)
  <2>1. Ancestors(n)' \subseteq Ancestors(n)
    BY <1>2, <1>3, <1>4 DEF Ancestors
  <2> QED
    BY <2>1, NoDeeper
<1>7. PICK p : p = d.parent
  OBVIOUS
<1>8. PICK A, B : A = Ancestors(p) /\ B = Ancestors(m)'
  OBVIOUS
<1>9. Depth(m)' = Cardinality(B) + 1 /\ DepthUnder(p) = IF p = Top THEN 1 ELSE Cardinality(A) + 2
  BY <1>8 DEF Depth, DepthUnder
<1>10. CASE p = Top
  <2>1. Top \notin Stored
    BY <1>1 DEF Top
  <2>2. ASSUME NEW a \in B PROVE FALSE
    <3>1. a \in Stored' /\ m \in Descendants(a)'
      BY <1>8 DEF Ancestors
    <3>2. a \in Stored
      BY <1>2, <1>3, <3>1
    <3>3. Top \in Descendants(a) \cup {a}
      BY <1>5, <1>7, <1>10, <3>1, <3>2
    <3> QED
      BY <2>1, <3>2, <3>3, BelowClosed
  <2>3. B = {}
    BY <2>2
  <2> QED
    BY <1>6, <1>7, <1>9, <1>10, <2>3, FS_EmptySet
<1>11. CASE p # Top
  <2>1. B \subseteq A \cup {p}
    BY <1>2, <1>3, <1>5, <1>7, <1>8 DEF Ancestors
  <2>2. IsFiniteSet(A) /\ Cardinality(A) \in Nat
    BY <1>8, AncestorsFinite
  <2>3. IsFiniteSet(A \cup {p}) /\ Cardinality(A \cup {p}) \in {Cardinality(A), Cardinality(A) + 1}
    BY <2>2, FS_AddElement
  <2>4. IsFiniteSet(B) /\ Cardinality(B) <= Cardinality(A \cup {p})
    BY <2>1, <2>3, FS_Subset
  <2>5. Cardinality(B) \in Nat
    BY <2>4, FS_CardinalityType
  <2>6. Cardinality(B) + 1 <= Cardinality(A) + 2
    BY <2>2, <2>3, <2>4, <2>5
  <2> QED
    BY <1>6, <1>7, <1>9, <1>11, <2>6
<1> QED
  BY <1>10, <1>11

LEMMA LeastNat ==
  ASSUME NEW T \in SUBSET Nat, NEW t \in T
  PROVE  \E m \in T : \A k \in T : m <= k
<1>1. IsWellFoundedOn(StrictSubsetOrdering(Nat), FiniteSubsetsOf(Nat))
  BY FS_StrictSubsetOrderingWellFounded
<1>2. PICK F : F = {0 .. n : n \in T}
  OBVIOUS
<1>3. F \subseteq FiniteSubsetsOf(Nat)
  <2>1. ASSUME NEW n \in T PROVE IsFiniteSet(0 .. n) /\ 0 .. n \in SUBSET Nat
    <3>1. 0 \in Int /\ n \in Int /\ n \in Nat
      OBVIOUS
    <3> QED
      BY <3>1, FS_Interval
  <2> QED
    BY <1>2, <2>1 DEF FiniteSubsetsOf
<1>4. F # {}
  BY <1>2
<1>5. PICK x \in F : \A y \in F : ~(<<y, x>> \in StrictSubsetOrdering(Nat))
  BY <1>1, <1>3, <1>4, WFMin
<1>6. PICK m \in T : x = 0 .. m
  BY <1>2
<1>7. ASSUME NEW k \in T, k < m PROVE FALSE
  <2>1. k \in Nat /\ m \in Nat
    OBVIOUS
  <2>2. 0 .. k \subseteq 0 .. m /\ m \in 0 .. m /\ m \notin 0 .. k
    BY <1>7, <2>1
  <2>3. 0 .. k \in SUBSET Nat /\ 0 .. m \in SUBSET Nat /\ 0 .. k # 0 .. m
    BY <2>1, <2>2
  <2>4. <<0 .. k, 0 .. m>> \in StrictSubsetOrdering(Nat)
    BY <2>2, <2>3 DEF StrictSubsetOrdering
  <2>5. 0 .. k \in F
    BY <1>2
  <2> QED
    BY <1>5, <1>6, <2>4, <2>5
<1> QED
  BY <1>7

\* Levels is as high as the highest node.
LEMMA LevelsBound ==
  ASSUME IdsOK, NEW B \in SUBSET Stored, NEW id
  PROVE  /\ Levels(B, id) \in Nat
         /\ \A n \in Under(B, id) :
              Cardinality({a \in Under(B, id) : a = n \/ n \in Under(B, a)}) <= Levels(B, id)
<1> DEFINE U == Under(B, id)
           level(n) == Cardinality({a \in U : a = n \/ n \in Under(B, a)})
           highest(k) == /\ \A n \in U : level(n) <= k
                         /\ k = 0 \/ \E n \in U : level(n) = k
<1>1. IsFiniteSet(U)
  <2>1. U \in SUBSET (1 .. minted)
    BY DEF IdsOK, Under
  <2>2. 1 \in Int /\ minted \in Int
    BY BoundsAssumption DEF IdsOK
  <2>3. IsFiniteSet(1 .. minted)
    BY <2>2, FS_Interval
  <2> QED
    BY <2>1, <2>3, FS_Subset
<1>2. Cardinality(U) \in Nat
  BY <1>1, FS_CardinalityType
<1>3. \A n \in U : level(n) \in Nat /\ level(n) <= Cardinality(U)
  <2> TAKE n \in U
  <2>1. PICK A : A = {a \in U : a = n \/ n \in Under(B, a)}
    OBVIOUS
  <2>2. A \in SUBSET U
    BY <2>1
  <2>3. IsFiniteSet(A) /\ Cardinality(A) <= Cardinality(U)
    BY <1>1, <2>2, FS_Subset
  <2> QED
    BY <2>1, <2>3, FS_CardinalityType
<1> HIDE DEF U, level
<1>4. PICK T : T = {k \in Nat : \A n \in U : level(n) <= k}
  OBVIOUS
<1>5. Cardinality(U) \in T
  BY <1>2, <1>3, <1>4
<1>6. PICK m \in T : \A k \in T : m <= k
  <2>1. T \in SUBSET Nat
    BY <1>4
  <2> QED
    BY <1>5, <2>1, LeastNat
<1>7. m \in 0 .. Cardinality(U)
  BY <1>2, <1>4, <1>5, <1>6
<1>8. highest(m)
  <2> SUFFICES ASSUME m # 0, \A n \in U : level(n) # m PROVE FALSE
    BY <1>4, <1>6
  <2>1. m - 1 \in Nat
    BY <1>4, <1>6
  <2>2. \A n \in U : level(n) <= m - 1
    BY <1>3, <1>4, <1>6
  <2>3. m - 1 \in T
    BY <1>4, <2>1, <2>2
  <2> QED
    BY <1>6, <2>1, <2>3, <1>7
<1>9. Levels(B, id) = CHOOSE k \in 0 .. Cardinality(U) : highest(k)
  BY DEF Levels, U, level
<1>10. Levels(B, id) \in 0 .. Cardinality(U) /\ highest(Levels(B, id))
  BY <1>7, <1>8, <1>9
<1> QED
  BY <1>2, <1>10 DEF U, level

\* Nodes of B whose parent is below a, or a, are below a.
LEMMA UnderClosed ==
  ASSUME NEW B \in SUBSET Stored, NEW a, NEW n \in B, n # a,
         tree[n].parent \in Under(B, a) \cup {a}
  PROVE  n \in Under(B, a)
<1>1. ASSUME NEW S \in SUBSET B, Children(S \cup {a}) \cap B \subseteq S
      PROVE  n \in S
  <2>1. Under(B, a) \subseteq S
    BY <1>1 DEF Under
  <2>2. n \in Children(S \cup {a})
    BY <2>1 DEF Children
  <2> QED
    BY <1>1, <2>2
<1> QED
  BY <1>1 DEF Under

LEMMA ParentBelow ==
  ASSUME NEW id, NEW n \in Descendants(id)
  PROVE  tree[n].parent \in Descendants(id) \cup {id}
<1> SUFFICES ASSUME tree[n].parent \notin Descendants(id) \cup {id} PROVE FALSE
  OBVIOUS
<1>1. PICK S : S = ((Descendants(id) \cup {id}) \ {n}) \cap Stored
  OBVIOUS
<1>2. n # id
  BY DEF Descendants, Under
<1>3. Children(S \cup {id}) \subseteq S
  <2> SUFFICES ASSUME NEW m \in Stored, tree[m].parent \in S \cup {id} PROVE m \in S
    BY DEF Children
  <2>1. m \in Descendants(id) \cup {id}
    BY <1>1, BelowClosed DEF Children
  <2>2. m # n
    BY <1>1
  <2> QED
    BY <1>1, <2>1, <2>2
<1>4. Descendants(id) \subseteq S
  BY <1>1, <1>3, BelowLeast
<1> QED
  BY <1>1, <1>4

\* What Patch does to the tree when it moves a node.
Moved(id, p) ==
  /\ Stored' = Stored /\ id \in Stored /\ tree'[id].parent = p
  /\ \A n \in Stored : n # id => tree'[n].parent = tree[n].parent

\* Nodes outside the moved subtree have no new ancestors.
LEMMA MoveOutside ==
  ASSUME NEW id, NEW p, Moved(id, p), NEW n, n \notin Descendants(id) \cup {id}
  PROVE  Ancestors(n)' \subseteq Ancestors(n)
<1> SUFFICES ASSUME NEW a \in Stored, n \in Descendants(a)' PROVE n \in Descendants(a)
  BY DEF Ancestors, Moved
<1>1. PICK D, B : D = Descendants(a) /\ B = Descendants(id)
  OBVIOUS
<1>2. /\ \A m \in Stored : tree[m].parent \in D \cup {a} => m \in D \cup {a}
      /\ \A m \in Stored : tree[m].parent \in B \cup {id} => m \in B \cup {id}
  BY <1>1, BelowClosed DEF Children
<1>3. Children((D \cup B \cup {id}) \cup {a})' \subseteq (D \cup B \cup {id}) \cup {a}
  BY <1>2 DEF Children, Moved
<1>4. Descendants(a)' \subseteq D \cup B \cup {id}
  BY <1>3, BelowLeastNext
<1> QED
  BY <1>1, <1>4

\* A node moved to the top is below nothing.
LEMMA MoveToTop ==
  ASSUME NEW id, Moved(id, Top), Top \notin Stored, NEW n
  PROVE  Ancestors(n)' \subseteq Ancestors(n)
<1> SUFFICES ASSUME NEW a \in Stored, n \in Descendants(a)' PROVE n \in Descendants(a)
  BY DEF Ancestors, Moved
<1>1. PICK D : D = Descendants(a)
  OBVIOUS
<1>2. /\ \A m \in Stored : tree[m].parent \in D \cup {a} => m \in D \cup {a}
      /\ D \subseteq Stored
  BY <1>1, BelowClosed DEF Children
<1>3. Children(D \cup {a})' \subseteq D \cup {a}
  BY <1>2 DEF Children, Moved
<1>4. Descendants(a)' \subseteq D
  BY <1>3, BelowLeastNext
<1> QED
  BY <1>1, <1>4

\* A node of the moved subtree is below nodes of that subtree, below its root,
\* and below the root's new parent and what that is below.
LEMMA MoveInside ==
  ASSUME NEW id, NEW p, Moved(id, p), p \notin Descendants(id) \cup {id},
         NEW n \in Descendants(id) \cup {id}
  PROVE  LET B == Descendants(id)
         IN  Ancestors(n)' \subseteq
               {a \in B : n \in Under(B, a)} \cup ({id} \ {n}) \cup Ancestors(p) \cup {p}
<1> SUFFICES ASSUME NEW a \in Stored, n \in Descendants(a)', a # id,
                    a \notin Ancestors(p) \cup {p}
             PROVE  a \in Descendants(id) /\ n \in Under(Descendants(id), a)
  BY DEF Ancestors, Moved, Descendants, Under
<1>1. PICK D, B : D = Descendants(a) /\ B = Descendants(id)
  OBVIOUS
<1>2. /\ \A m \in Stored : tree[m].parent \in D \cup {a} => m \in D \cup {a}
      /\ B \subseteq Stored /\ id \notin B
  BY <1>1, BelowClosed DEF Children, Descendants, Under
<1>3. \A m \in B : tree[m].parent \in B \cup {id}
  BY <1>1, ParentBelow
<1>4. \A m \in Stored : tree[m].parent \in B \cup {id} => m \in B \cup {id}
  BY <1>1, BelowClosed DEF Children
<1>5. p \notin D \cup {a}
  BY <1>1 DEF Ancestors
<1>6. a \in B
  <2> SUFFICES ASSUME a \notin B PROVE FALSE
    OBVIOUS
  <2>1. PICK S : S = D \ (B \cup {id})
    OBVIOUS
  <2>2. Children(S \cup {a})' \subseteq S \cup {a}
    <3> SUFFICES ASSUME NEW m \in Stored, tree'[m].parent \in S \cup {a} PROVE m \in S \cup {a}
      BY DEF Children, Moved
    <3>1. m # id
      BY <1>5, <2>1 DEF Moved
    <3>2. tree[m].parent \in S \cup {a}
      BY <3>1 DEF Moved
    <3>3. m \in D \cup {a} /\ m \notin B
      BY <1>2, <1>3, <2>1, <3>2
    <3> QED
      BY <2>1, <3>1, <3>3
  <2>3. Descendants(a)' \subseteq S
    BY <2>2, BelowLeastNext
  <2> QED
    BY <1>1, <2>1, <2>3
<1>7. n \in Under(B, a)
  <2>1. PICK U : U = Under(B, a) /\ U \subseteq B
    BY DEF Under
  <2>2. Children(U \cup {a})' \subseteq U \cup {a}
    <3> SUFFICES ASSUME NEW m \in Stored, tree'[m].parent \in U \cup {a}, m # a PROVE m \in U
      BY DEF Children, Moved
    <3>1. m # id
      BY <1>1, <1>6, <2>1 DEF Moved
    <3>2. tree[m].parent \in U \cup {a} /\ m \in B
      BY <1>4, <1>6, <2>1, <3>1 DEF Moved
    <3> QED
      BY <1>2, <2>1, <3>2, UnderClosed
  <2>3. Descendants(a)' \subseteq U
    BY <2>2, BelowLeastNext
  <2> QED
    BY <2>1, <2>3
<1> QED
  BY <1>1, <1>6, <1>7

\* All that is below id is below id through nodes that are.
LEMMA UnderAll ==
  ASSUME NEW id
  PROVE  Under(Descendants(id), id) = Descendants(id)
<1>1. PICK B : B = Descendants(id)
  OBVIOUS
<1>2. B \subseteq Stored /\ id \notin B
  BY <1>1 DEF Descendants, Under
<1>3. ASSUME NEW S \in SUBSET B, Children(S \cup {id}) \cap B \subseteq S
      PROVE  B \subseteq S
  <2>1. PICK T : T = S \cup ({id} \cap Stored)
    OBVIOUS
  <2>2. Children(T \cup {id}) \subseteq T
    <3> SUFFICES ASSUME NEW m \in Stored, tree[m].parent \in S \cup {id} PROVE m \in T
      BY <2>1 DEF Children
    <3>1. m \in B \cup {id}
      BY <1>1, <1>3, BelowClosed DEF Children
    <3> QED
      BY <1>3, <2>1, <3>1 DEF Children
  <2>3. T \in SUBSET Stored
    BY <1>2, <2>1
  <2>4. B \subseteq T
    BY <1>1, <2>2, <2>3, BelowLeast
  <2> QED
    BY <1>2, <2>1, <2>4
<1>4. Under(B, id) = B
  BY <1>2, <1>3 DEF Under
<1> QED
  BY <1>1, <1>4

LEMMA MoveDepth ==
  ASSUME IdsOK, IdsOK', NEW id, NEW p, Moved(id, p), p # Top,
         p \notin Descendants(id) \cup {id}, NEW n \in Descendants(id) \cup {id}
  PROVE  Depth(n)' <= DepthUnder(p) + Levels(Descendants(id), id)
<1>1. PICK A, P, B, k : /\ A = Ancestors(n)' /\ P = Ancestors(p) /\ B = Descendants(id)
                        /\ k = Levels(Descendants(id), id)
  OBVIOUS
<1>2. PICK I : I = {a \in B : n \in Under(B, a)}
  OBVIOUS
<1>3. Depth(n)' = Cardinality(A) + 1 /\ DepthUnder(p) = Cardinality(P) + 2
  BY <1>1 DEF Depth, DepthUnder
<1>4. IsFiniteSet(P) /\ Cardinality(P) \in Nat
  BY <1>1, AncestorsFinite
<1>5. B \in SUBSET Stored /\ id \notin B
  BY <1>1 DEF Descendants, Under
<1>6. k \in Nat /\ \A m \in B : Cardinality({a \in B : a = m \/ m \in Under(B, a)}) <= k
  BY <1>1, <1>5, LevelsBound, UnderAll
<1>7. IsFiniteSet(B)
  BY <1>1, BelowFinite
<1>8. IsFiniteSet(I) /\ Cardinality(I) \in Nat
  <2>1. I \in SUBSET B
    BY <1>2
  <2>2. IsFiniteSet(I)
    BY <1>7, <2>1, FS_Subset
  <2> QED
    BY <2>2, FS_CardinalityType
<1>9. A \subseteq I \cup ({id} \ {n}) \cup P \cup {p}
  BY <1>1, <1>2, MoveInside
<1>10. PICK Q : Q = P \cup {p}
  OBVIOUS
<1>11. /\ IsFiniteSet(Q) /\ Cardinality(Q) \in Nat /\ Cardinality(Q) <= Cardinality(P) + 1
  BY <1>4, <1>10, FS_AddElement
<1>12. \A X : IsFiniteSet(X) /\ A \subseteq X => Cardinality(A) <= Cardinality(X)
                                                /\ Cardinality(A) \in Nat
  BY FS_Subset, FS_CardinalityType
<1>13. CASE n = id
  <2>1. I = {}
    BY <1>2, <1>5, <1>13 DEF Under
  <2>2. A \subseteq Q
    BY <1>9, <1>10, <1>13, <2>1
  <2>3. Cardinality(A) <= Cardinality(P) + 1 /\ Cardinality(A) \in Nat
    BY <1>4, <1>11, <1>12, <2>2
  <2> QED
    BY <1>1, <1>3, <1>4, <1>6, <2>3
<1>14. CASE n # id
  <2>1. n \in B /\ n \notin I
    BY <1>1, <1>2, <1>14 DEF Under
  <2>2. Cardinality(I) + 1 <= k
    <3>1. {a \in B : a = n \/ n \in Under(B, a)} = I \cup {n}
      BY <1>2, <2>1
    <3>2. Cardinality(I \cup {n}) = Cardinality(I) + 1
      BY <1>8, <2>1, FS_AddElement
    <3> QED
      BY <1>6, <2>1, <3>1, <3>2
  <2>3. PICK J : J = I \cup {id}
    OBVIOUS
  <2>4. IsFiniteSet(J) /\ Cardinality(J) \in Nat /\ Cardinality(J) <= Cardinality(I) + 1
    BY <1>8, <2>3, FS_AddElement
  <2>5. /\ IsFiniteSet(J \cup Q)
        /\ Cardinality(J \cup Q) <= Cardinality(J) + Cardinality(Q)
    <3>1. PICK y : y = Cardinality(J \cap Q) /\ y \in Nat
      <4>1. J \cap Q \in SUBSET J
        OBVIOUS
      <4>2. IsFiniteSet(J \cap Q)
        BY <2>4, <4>1, FS_Subset
      <4> QED
        BY <4>2, FS_CardinalityType
    <3>2. /\ IsFiniteSet(J \cup Q)
          /\ Cardinality(J \cup Q) = Cardinality(J) + Cardinality(Q) - Cardinality(J \cap Q)
      BY <1>11, <2>4, FS_Union
    <3>3. IsFiniteSet(J \cup Q) /\ Cardinality(J \cup Q) = Cardinality(J) + Cardinality(Q) - y
      BY <3>1, <3>2
    <3> QED
      BY <1>11, <2>4, <3>1, <3>3
  <2>6. A \subseteq J \cup Q
    BY <1>9, <1>10, <2>3
  <2>7. Cardinality(A) <= Cardinality(J \cup Q) /\ Cardinality(A) \in Nat
    BY <1>12, <2>5, <2>6
  <2>8. Cardinality(J \cup Q) \in Nat
    BY <2>5, FS_CardinalityType
  <2>9. Cardinality(A) + 1 <= Cardinality(P) + 2 + k
    BY <1>4, <1>6, <1>8, <1>11, <2>2, <2>4, <2>5, <2>7, <2>8
  <2> QED
    BY <1>1, <1>3, <2>9
<1> QED
  BY <1>13, <1>14

\* Where a create has passed the depth check.
RoomPcs == {"sibling", "unique", "store", "replaced", "replace"}

ShallowOK(c) ==
  /\ pc[c] \in RoomPcs => DepthUnder(draft[c].parent) <= DepthLimit
  /\ pc[c] \in {"ancestors", "height"} =>
       Moves(c) /\ below[c] = Descendants(Change(c).id)
  /\ pc[c] = "height" => depth[c] = DepthUnder(Change(c).patch.parent)
  /\ pc[c] = "patch" /\ Moves(c) =>
       DepthUnder(Change(c).patch.parent)
         + Levels(Descendants(Change(c).id), Change(c).id) <= DepthLimit

Shallow ==
  /\ DOMAIN below = Caller /\ DOMAIN depth = Caller
  /\ DepthBounded /\ \A c \in Caller : ShallowOK(c)

LEMMA DepthType ==
  ASSUME IdsOK, NEW n
  PROVE  Depth(n) \in Nat /\ DepthUnder(n) \in Nat
<1>1. PICK k \in Nat : k = Cardinality(Ancestors(n))
  BY AncestorsFinite
<1> QED
  BY <1>1 DEF Depth, DepthUnder

LEMMA AncestorsCount == IdsOK => \A m : Cardinality(Ancestors(m)) \in Nat
BY AncestorsFinite

LEMMA DepthTypeNext ==
  ASSUME IdsOK', NEW n
  PROVE  Depth(n)' \in Nat /\ DepthUnder(n)' \in Nat
<1>1. PICK k \in Nat : k = Cardinality(Ancestors(n))'
  <2>1. (IdsOK => \A m : Cardinality(Ancestors(m)) \in Nat)'
    BY AncestorsCount, PTL
  <2> QED
    BY <2>1
<1> QED
  BY <1>1 DEF Depth, DepthUnder

LEMMA ShallowNow ==
  ASSUME IInv, Shallow, NEW c \in Caller
  PROVE  /\ DOMAIN pc = Caller /\ DOMAIN at = Caller /\ DOMAIN draft = Caller
         /\ DOMAIN below = Caller /\ DOMAIN depth = Caller
         /\ ShallowOK(c) /\ CallOK(c) /\ IdsOK
BY DEF IInv, Base, LocalsOK, Shallow

\* With the tree as it was, depths are as they were.
LEMMA SameDepths ==
  ASSUME tree' = tree
  PROVE  /\ DepthBounded => DepthBounded'
         /\ \A n : DepthUnder(n)' = DepthUnder(n) /\ Descendants(n)' = Descendants(n)
         /\ \A B, n : Levels(B, n)' = Levels(B, n)
<1>1. Stored' = Stored /\ \A S : Children(S)' = Children(S)
  BY DEF Stored, Children
<1>2. \A B, n : Under(B, n)' = Under(B, n)
  BY <1>1 DEF Under
<1>3. \A n : Descendants(n)' = Descendants(n)
  BY <1>1, <1>2 DEF Descendants
<1>4. \A n : Ancestors(n)' = Ancestors(n)
  BY <1>1, <1>3 DEF Ancestors
<1>5. \A n : DepthUnder(n)' = DepthUnder(n) /\ Depth(n)' = Depth(n)
  BY <1>4 DEF DepthUnder, Depth
<1>6. ASSUME NEW B, NEW n PROVE Levels(B, n)' = Levels(B, n)
  BY DEF Levels, Under, Children, Stored
<1> QED
  BY <1>1, <1>3, <1>5, <1>6 DEF DepthBounded

\* What is left to show of a step that leaves the tree alone.
LEMMA ShallowOn ==
  ASSUME OneCaller, Shallow, NEW c \in Caller, tree' = tree,
         DOMAIN below' = Caller, DOMAIN depth' = Caller, ShallowOK(c)'
  PROVE  Shallow'
BY SameDepths DEF OneCaller, Shallow

\* The checks of a create.
LEMMA ShallowLook ==
  ASSUME OneCaller, IInv, Shallow, NEW c \in Caller,
         \/ BeginCreate(c) \/ BeginCopy(c) \/ CheckCopyCycle(c) \/ CheckDepth(c)
         \/ FindSibling(c) \/ FindUniqueName(c) \/ ReadReplaced(c)
  PROVE  Shallow'
<1> USE DEF Goto, NextEntry, RefuseCreate, storeVars, workVars, replyVars
<1>1. /\ DOMAIN pc = Caller /\ DOMAIN at = Caller /\ DOMAIN draft = Caller
      /\ DOMAIN below = Caller /\ DOMAIN depth = Caller /\ ShallowOK(c) /\ IdsOK
  BY ShallowNow
<1>2. UNCHANGED <<tree, ask, below, depth>>
  BY DEF BeginCreate, BeginCopy, CheckCopyCycle, CheckDepth, FindSibling, FindUniqueName,
     ReadReplaced
<1>3. SUFFICES /\ pc'[c] \notin {"ancestors", "height", "patch"}
               /\ pc'[c] \in RoomPcs => DepthUnder(draft[c].parent) <= DepthLimit
                                        /\ draft'[c].parent = draft[c].parent
  <2>1. pc'[c] \in RoomPcs => DepthUnder(draft[c].parent)' <= DepthLimit
    <3>1. PICK p : p = draft[c].parent
      OBVIOUS
    <3>2. DepthUnder(p)' = DepthUnder(p)
      BY <1>2, SameDepths
    <3>3. pc'[c] \in RoomPcs => DepthUnder(draft[c].parent)' = DepthUnder(p)'
      BY <1>3, <3>1 DEF DepthUnder
    <3> QED
      BY <1>3, <3>1, <3>2, <3>3
  <2>2. ShallowOK(c)'
    BY <1>3, <2>1 DEF ShallowOK
  <2> QED
    BY <1>1, <1>2, <2>2, ShallowOn
<1>4. CASE BeginCreate(c) \/ BeginCopy(c) \/ CheckCopyCycle(c)
  <2>1. pc'[c] \in {"create", "depth", "cycle"}
    BY <1>1, <1>4 DEF BeginCreate, BeginCopy, CheckCopyCycle
  <2> QED
    BY <2>1 DEF RoomPcs
<1>5. CASE CheckDepth(c)
  <2>1. DepthUnder(draft[c].parent) \in Nat /\ DepthLimit \in Nat
    BY <1>1, DepthType, BoundsAssumption
  <2>2. pc'[c] \in {"create", "sibling"} /\ draft' = draft
        /\ (pc'[c] = "sibling" => ~(DepthUnder(draft[c].parent) > DepthLimit))
    BY <1>1, <1>5 DEF CheckDepth
  <2> QED
    BY <2>1, <2>2 DEF RoomPcs
<1>6. CASE FindSibling(c) \/ FindUniqueName(c) \/ ReadReplaced(c)
  <2>1. pc[c] \in RoomPcs /\ pc'[c] \in RoomPcs \cup {"create"}
    BY <1>1, <1>6 DEF FindSibling, FindUniqueName, ReadReplaced, RoomPcs
  <2>2. draft'[c].parent = draft[c].parent
    <3>1. PICK p, x : draft[c] = [parent |-> p, name |-> x]
      BY DEF IInv, Base, LocalsOK, CallOK, DraftOK
    <3> QED
      BY <1>1, <1>6, <3>1 DEF FindSibling, FindUniqueName, ReadReplaced
  <2> QED
    BY <1>1, <2>1, <2>2 DEF ShallowOK, RoomPcs
<1> QED
  BY <1>4, <1>5, <1>6

\* The checks of a move.
LEMMA ShallowMove ==
  ASSUME OneCaller, IInv, Shallow, NEW c \in Caller, MoveChecker(c)
  PROVE  Shallow'
<1> USE DEF Goto, NextEntry, storeVars, workVars, replyVars
<1>1. /\ DOMAIN pc = Caller /\ DOMAIN at = Caller
      /\ DOMAIN below = Caller /\ DOMAIN depth = Caller /\ ShallowOK(c) /\ IdsOK
  BY ShallowNow
<1>2. UNCHANGED <<tree, ask>> /\ DOMAIN below' = Caller /\ DOMAIN depth' = Caller
  BY <1>1 DEF MoveChecker, SkipMoveChecks, CheckMoveCycle, ReadMoveDepth, CheckMoveDepth
<1>3. SUFFICES ShallowOK(c)'
  BY <1>2, ShallowOn
<1>4. PICK id, p : id = Change(c).id /\ p = Change(c).patch.parent
  OBVIOUS
<1>5. at' = at => Change(c)' = Change(c) /\ Moves(c)' = Moves(c)
  BY <1>2 DEF Change, Moves
<1>6. /\ DepthUnder(p)' = DepthUnder(p) /\ Descendants(id)' = Descendants(id)
      /\ Levels(Descendants(id), id)' = Levels(Descendants(id), id)
  <2>1. PICK B : B = Descendants(id)
    OBVIOUS
  <2>2. B = Descendants(id)'
    BY <1>2, <2>1, SameDepths
  <2>3. Levels(Descendants(id), id)' = Levels(B, id)'
    BY <2>2 DEF Levels
  <2> QED
    BY <1>2, <2>1, <2>2, <2>3, SameDepths
<1>7. at' = at => /\ DepthUnder(Change(c).patch.parent)' = DepthUnder(p)
                  /\ Descendants(Change(c).id)' = Descendants(id)
                  /\ Levels(Descendants(Change(c).id), Change(c).id)' = Levels(Descendants(id), id)
  <2> SUFFICES ASSUME at' = at
               PROVE  /\ DepthUnder(Change(c).patch.parent)' = DepthUnder(p)'
                      /\ Descendants(Change(c).id)' = Descendants(id)'
                      /\ Levels(Descendants(Change(c).id), Change(c).id)' = Levels(Descendants(id), id)'
    BY <1>6
  <2>1. id = Change(c).id' /\ p = Change(c).patch.parent'
    BY <1>4, <1>5
  <2> QED
    BY <2>1 DEF DepthUnder, Descendants, Levels
<1>8. CASE SkipMoveChecks(c)
  BY <1>1, <1>5, <1>8 DEF SkipMoveChecks, ShallowOK, RoomPcs
<1>9. CASE CheckMoveCycle(c)
  <2>1. \/ pc'[c] = "update"
        \/ pc'[c] = "ancestors" /\ at' = at /\ below'[c] = Descendants(id) /\ Moves(c)
    BY <1>1, <1>4, <1>9 DEF CheckMoveCycle
  <2> QED
    BY <1>5, <1>7, <2>1 DEF ShallowOK, RoomPcs
<1>10. CASE ReadMoveDepth(c)
  <2>1. /\ pc[c] = "ancestors" /\ pc'[c] = "height" /\ at' = at /\ below' = below
        /\ depth'[c] = DepthUnder(p)
    BY <1>1, <1>4, <1>10 DEF ReadMoveDepth
  <2>2. Moves(c) /\ below[c] = Descendants(id)
    BY <1>1, <1>4, <2>1 DEF ShallowOK
  <2> QED
    BY <1>5, <1>7, <2>1, <2>2 DEF ShallowOK, RoomPcs
<1>11. CASE CheckMoveDepth(c)
  <2>1. pc[c] = "height" /\ depth[c] = DepthUnder(p) /\ below[c] = Descendants(id)
    BY <1>1, <1>4, <1>11 DEF CheckMoveDepth, ShallowOK
  <2>2. below[c] \cap Stored = Descendants(id)
    BY <2>1, BelowFinite, <1>1
  <2>3. \/ pc'[c] = "update"
        \/ /\ pc'[c] = "patch" /\ at' = at
           /\ ~(DepthUnder(p) + Levels(Descendants(id), id) > DepthLimit)
    BY <1>1, <1>4, <1>11, <2>1, <2>2 DEF CheckMoveDepth
  <2>4. DepthUnder(p) \in Nat /\ DepthLimit \in Nat /\ Levels(Descendants(id), id) \in Nat
    BY <1>1, DepthType, BelowFinite, LevelsBound, BoundsAssumption
  <2> QED
    BY <1>7, <2>3, <2>4 DEF ShallowOK, RoomPcs
<1> QED
  BY <1>8, <1>9, <1>10, <1>11 DEF MoveChecker

\* The other steps that leave the tree alone.
LEMMA ShallowRest ==
  ASSUME OneCaller, IInv, Shallow, NEW c \in Caller,
         \/ ReadSubtree(c) \/ ReadOriginal(c) \/ Start(c) \/ Reply(c)
         \/ EndCreates(c) \/ EndUpdates(c) \/ EndDestroys(c) \/ EndOriginals(c)
  PROVE  Shallow'
<1> USE DEF Goto, NextEntry, storeVars, workVars, replyVars
<1>1. DOMAIN pc = Caller /\ DOMAIN below = Caller /\ DOMAIN depth = Caller
  BY ShallowNow
<1>2. /\ tree' = tree /\ DOMAIN below' = Caller /\ DOMAIN depth' = Caller
      /\ pc'[c] \in {"destroy", "remove", "original", "erase", "create", "idle", "update", "reply"}
  BY <1>1 DEF ReadSubtree, ReadOriginal, Start, Reply, EndCreates, EndUpdates, EndDestroys,
     EndOriginals, EndLoop
<1>3. ShallowOK(c)'
  BY <1>2 DEF ShallowOK, RoomPcs
<1> QED
  BY <1>2, <1>3, ShallowOn

LEMMA ShallowStore ==
  ASSUME OneCaller, IInv, Shallow, NEW c \in Caller, Store(c)
  PROVE  Shallow'
<1>1. /\ ShallowOK(c) /\ IdsOK /\ DOMAIN below = Caller /\ DOMAIN depth = Caller
  BY ShallowNow
<1>2. Stores(c) /\ IdsOK'
  BY StoreBase DEF IInv, Base
<1>3. PICK m, d : m = minted + 1 /\ d = draft[c]
  OBVIOUS
<1>4. /\ tree' = [n \in Stored \cup {m} |-> IF n = m THEN d ELSE tree[n]]
      /\ d.parent \in 0 .. minted /\ pc'[c] = "create"
      /\ DOMAIN below' = Caller /\ DOMAIN depth' = Caller
  BY <1>1, <1>2, <1>3 DEF Stores, Store, workVars
<1>5. /\ \A n \in Stored : Depth(n)' <= Depth(n)
      /\ Depth(m)' <= DepthUnder(d.parent)
  BY <1>1, <1>2, <1>3, <1>4, StoreDepth
<1>6. DepthUnder(d.parent) <= DepthLimit
  BY <1>1, <1>3 DEF Store, ShallowOK, RoomPcs
<1>7. ASSUME NEW n \in Stored' PROVE Depth(n)' <= DepthLimit
  <2>1. Depth(n)' \in Nat
    BY <1>2, DepthTypeNext
  <2>2. DepthLimit \in Nat /\ Depth(n) \in Nat /\ DepthUnder(d.parent) \in Nat
    BY <1>1, DepthType, BoundsAssumption
  <2>3. n \in Stored \/ n = m
    BY <1>4 DEF Stored
  <2> QED
    BY <1>5, <1>6, <2>1, <2>2, <2>3 DEF Shallow, DepthBounded
<1>8. ShallowOK(c)'
  BY <1>4 DEF ShallowOK, RoomPcs
<1> QED
  BY <1>4, <1>7, <1>8 DEF OneCaller, Shallow, DepthBounded

LEMMA ShallowDestroy ==
  ASSUME OneCaller, IInv, Shallow, NEW c \in Caller, DestroyNext(c)
  PROVE  Shallow'
<1> USE DEF Goto, NextEntry, RefuseCreate
<1>1. /\ ShallowOK(c) /\ IdsOK /\ DOMAIN below = Caller /\ DOMAIN depth = Caller
      /\ DOMAIN pc = Caller /\ DepthLimit \in Nat
  BY ShallowNow, BoundsAssumption
<1>2. Destroys(c) /\ IdsOK'
  BY DestroyBase DEF IInv, Base
<1>3. /\ UNCHANGED <<draft, below, depth>> /\ pc[c] \in {"replace", "remove", "erase"}
      /\ pc'[c] \in {"replace", "remove", "erase", "store", "create", "destroy", "original"}
      /\ pc'[c] \in RoomPcs => pc[c] \in RoomPcs
  BY <1>1 DEF DestroyNext, AfterDestroy, AbortDestroy, RoomPcs
<1>4. ASSUME NEW n PROVE Depth(n)' <= Depth(n) /\ DepthUnder(n)' <= DepthUnder(n)
  <2>1. CASE tree' = tree
    <3>1. PICK k, j \in Nat : k = Depth(n) /\ j = DepthUnder(n)
      BY <1>1, DepthType
    <3>2. Depth(n)' = Depth(n) /\ DepthUnder(n)' = DepthUnder(n)
      BY <2>1 DEF Depth, DepthUnder, Ancestors, Descendants, Under, Children, Stored
    <3> QED
      BY <3>1, <3>2
  <2>2. ASSUME NEW v \in Stored, tree' = [m \in Stored \ {v} |-> tree[m]]
        PROVE  Depth(n)' <= Depth(n) /\ DepthUnder(n)' <= DepthUnder(n)
    BY <1>1, <1>2, <2>2, DestroyNoDeeper
  <2> QED
    BY <1>2, <2>1, <2>2 DEF Destroys
<1>5. \A n : /\ Depth(n) \in Nat /\ DepthUnder(n) \in Nat
             /\ Depth(n)' \in Nat /\ DepthUnder(n)' \in Nat
  <2>1. \A n : Depth(n) \in Nat /\ DepthUnder(n) \in Nat
    BY <1>1, DepthType
  <2>2. \A n : Depth(n)' \in Nat /\ DepthUnder(n)' \in Nat
    BY <1>2, DepthTypeNext
  <2> QED
    BY <2>1, <2>2
<1>6. Stored' \subseteq Stored
  BY <1>2 DEF Destroys, Stored
<1>7. DepthBounded'
  <2> SUFFICES ASSUME NEW n \in Stored' PROVE Depth(n)' <= DepthLimit
    BY DEF DepthBounded
  <2>1. Depth(n) <= DepthLimit
    BY <1>6 DEF Shallow, DepthBounded
  <2> QED
    BY <1>1, <1>4, <1>5, <2>1
<1>8. ShallowOK(c)'
  <2>1. PICK p : p = draft[c].parent
    OBVIOUS
  <2>2. DepthUnder(draft[c].parent)' = DepthUnder(p)'
    BY <1>3, <2>1 DEF DepthUnder
  <2>3. pc'[c] \in RoomPcs => DepthUnder(p)' <= DepthLimit
    BY <1>1, <1>3, <1>4, <1>5, <2>1 DEF ShallowOK
  <2> QED
    BY <1>3, <2>2, <2>3 DEF ShallowOK
<1> QED
  BY <1>1, <1>3, <1>7, <1>8 DEF OneCaller, Shallow

LEMMA ShallowPatch ==
  ASSUME OneCaller, IInv, Shallow, NEW c \in Caller, Patch(c)
  PROVE  Shallow'
<1>1. /\ ShallowOK(c) /\ IdsOK /\ DOMAIN below = Caller /\ DOMAIN depth = Caller
      /\ DepthLimit \in Nat
  BY ShallowNow, BoundsAssumption
<1>2. PICK id, patch : Patches(c, id, patch)
  BY PatchBase DEF IInv
<1>3. IdsOK'
  BY PatchBase DEF IInv, Base
<1>4. /\ pc[c] = "patch" /\ pc'[c] = "update" /\ Stored' = Stored
      /\ UNCHANGED <<below, depth>> /\ id = Change(c).id /\ patch = Change(c).patch
  BY <1>2 DEF Patches, Patch, workVars
<1>5. ASSUME NEW n, Ancestors(n)' \subseteq Ancestors(n), n \in Stored
      PROVE  Depth(n)' <= DepthLimit
  <2>1. Depth(n)' <= Depth(n) /\ Depth(n) \in Nat /\ Depth(n)' \in Nat
    BY <1>1, <1>3, <1>5, NoDeeper, DepthType, DepthTypeNext
  <2>2. Depth(n) <= DepthLimit
    BY <1>5 DEF Shallow, DepthBounded
  <2> QED
    BY <1>1, <2>1, <2>2
<1>6. ASSUME NEW n \in Stored PROVE Depth(n)' <= DepthLimit
  <2>1. CASE "parent" \in DOMAIN patch /\ id \in Stored
    <3>1. PICK p : p = patch.parent
      OBVIOUS
    <3>2. Moved(id, p)
      BY <1>2, <2>1, <3>1 DEF Patches, Moved
    <3>3. CASE p = Top
      <4>1. Top \notin Stored
        BY <1>1 DEF IdsOK, Top
      <4> QED
        BY <1>5, <3>2, <3>3, <4>1, MoveToTop
    <3>4. CASE p # Top
      <4>1. Moves(c) /\ Apart(id, p)
        BY <1>4, <2>1, <3>1, <3>4 DEF IInv, SafeMoves, Moves, MovePcs
      <4>2. p \notin Descendants(id) \cup {id}
        BY <1>1, <4>1, ApartNotBelow
      <4>3. CASE n \notin Descendants(id) \cup {id}
        BY <1>5, <3>2, <4>3, MoveOutside
      <4>4. CASE n \in Descendants(id) \cup {id}
        <5>1. PICK k : k = DepthUnder(p) + Levels(Descendants(id), id)
          OBVIOUS
        <5>2. Depth(n)' <= k
          BY <1>1, <1>3, <3>2, <3>4, <4>2, <4>4, <5>1, MoveDepth
        <5>3. k <= DepthLimit
          BY <1>1, <1>4, <3>1, <4>1, <5>1 DEF ShallowOK
        <5>4. k \in Nat /\ Depth(n)' \in Nat
          <6>1. DepthUnder(p) \in Nat /\ Levels(Descendants(id), id) \in Nat
            BY <1>1, DepthType, BelowFinite, LevelsBound
          <6> QED
            BY <1>3, <5>1, <6>1, DepthTypeNext
        <5> QED
          BY <1>1, <5>2, <5>3, <5>4
      <4> QED
        BY <4>3, <4>4
    <3> QED
      BY <3>3, <3>4
  <2>2. CASE ~("parent" \in DOMAIN patch /\ id \in Stored)
    <3>1. \A m \in Stored : tree'[m].parent = tree[m].parent
      BY <1>2, <2>2 DEF Patches
    <3>2. \A S : Children(S)' = Children(S)
      BY <1>4, <3>1 DEF Children
    <3>3. Ancestors(n)' = Ancestors(n)
      BY <1>4, <3>2 DEF Ancestors, Descendants, Under
    <3> QED
      BY <1>5, <3>3
  <2> QED
    BY <2>1, <2>2
<1>7. DepthBounded'
  BY <1>4, <1>6 DEF DepthBounded
<1>8. ShallowOK(c)'
  BY <1>4 DEF ShallowOK, RoomPcs
<1> QED
  BY <1>1, <1>4, <1>7, <1>8 DEF OneCaller, Shallow

LEMMA ShallowNext ==
  ASSUME OneCaller, IInv, Shallow, [Next]_vars
  PROVE  Shallow'
<1>1. CASE UNCHANGED vars
  <2>1. UNCHANGED <<tree, pc, at, ask, draft, below, depth>>
    BY <1>1 DEF vars
  <2>2. DepthBounded'
    BY <2>1, SameDepths DEF Shallow
  <2>3. ASSUME NEW c \in Caller PROVE ShallowOK(c)'
    <3>1. ShallowOK(c)
      BY DEF Shallow
    <3>2. Moves(c)' = Moves(c)
      BY <2>1 DEF Moves, Change
    <3>3. /\ DepthUnder(draft[c].parent)' = DepthUnder(draft[c].parent)
          /\ DepthUnder(Change(c).patch.parent)' = DepthUnder(Change(c).patch.parent)
      BY <2>1 DEF Change, DepthUnder, Ancestors, Descendants, Under, Children, Stored
    <3>4. Descendants(Change(c).id)' = Descendants(Change(c).id)
      BY <2>1 DEF Change, Descendants, Under, Children, Stored
    <3>5. Levels(Descendants(Change(c).id), Change(c).id)'
            = Levels(Descendants(Change(c).id), Change(c).id)
      BY <2>1 DEF Change, Levels, Descendants, Under, Children, Stored
    <3> QED
      BY <2>1, <3>1, <3>2, <3>3, <3>4, <3>5 DEF ShallowOK
  <2> QED
    BY <2>1, <2>2, <2>3 DEF Shallow
<1>2. CASE Next
  BY <1>2, ShallowLook, ShallowMove, ShallowRest, ShallowStore, ShallowPatch, ShallowDestroy
     DEF Next, CreateStep, UpdateStep, DestroyStep, LoopStep, MoveChecker
<1> QED
  BY <1>1, <1>2

\* maxFileNodeDepth holds of every node while one caller writes: what is
\* measured before a create or a copy, and before a move for the whole subtree
\* that moves along (exceeds_max_depth), is what is there when the node is
\* written, in any tree.
THEOREM DepthStays ==
  ASSUME OneCaller
  PROVE  Spec => []DepthBounded
<1>1. OneMover
  BY MoverAssumption DEF OneCaller, OneMover
<1>2. Init => IInv /\ Shallow
  BY IInvInit DEF Init, Shallow, DepthBounded, ShallowOK, RoomPcs
<1>3. IInv /\ Shallow /\ [Next]_vars => IInv' /\ Shallow'
  BY <1>1, ShallowNext, Steps, StutterStep, QuietStep, DraftStep, CheckerStep, CallStep,
     StoreStep, PatchStep, DestroyStepKeeps
<1>4. Shallow => DepthBounded
  BY DEF Shallow
<1> QED
  BY <1>2, <1>3, <1>4, PTL DEF Spec

-----------------------------------------------------------------------------
(* A node is stored under a free name.                                     *)

LEMMA AppendedName ==
  ASSUME NEW x, IsName(x), NEW k
  PROVE  /\ IsName(Append(x, k)) /\ Append(x, k)[Len(x) + 1] = k
<1>1. PICK n \in Nat : n = Len(x) /\ x = [i \in 1 .. n |-> x[i]]
  BY DEF IsName
<1>2. PICK S : S = {x[i] : i \in 1 .. n} \cup {k}
  OBVIOUS
<1>3. x \in [1 .. n -> S]
  BY <1>1, <1>2
<1>4. x \in Seq(S) /\ k \in S
  BY <1>2, <1>3
<1>5. Append(x, k) \in Seq(S) /\ Append(x, k)[Len(x) + 1] = k
  BY <1>4, AppendProperties
<1>6. \A s \in Seq(S) : Len(s) \in Nat /\ s = [i \in 1 .. Len(s) |-> s[i]]
  OBVIOUS
<1> QED
  BY <1>5, <1>6 DEF IsName

\* Of more suffixes than there are children one is not taken.
LEMMA UniqueNameFree ==
  ASSUME IdsOK, NEW p, NEW x, IsName(x)
  PROVE  UniqueName(p, x) \notin NamesUnder(p) /\ IsName(UniqueName(p, x))
<1>1. PICK N : N = NamesUnder(p)
  OBVIOUS
<1>2. IsFiniteSet(N) /\ Cardinality(N) \in Nat
  <2>1. IsFiniteSet(Siblings(p))
    <3>1. Siblings(p) \in SUBSET (1 .. minted)
      BY DEF IdsOK, Siblings
    <3>2. 1 \in Int /\ minted \in Int
      BY BoundsAssumption DEF IdsOK
    <3>3. IsFiniteSet(1 .. minted)
      BY <3>2, FS_Interval
    <3> QED
      BY <3>1, <3>3, FS_Subset
  <2>2. PICK f : f = [n \in Siblings(p) |-> tree[n].name]
    OBVIOUS
  <2>3. f \in Surjection(Siblings(p), N)
    BY <1>1, <2>2 DEF Surjection, NamesUnder
  <2>4. IsFiniteSet(N)
    BY <2>1, <2>3, FS_Surjection
  <2> QED
    BY <2>4, FS_CardinalityType
<1>3. PICK K : K = 1 .. Cardinality(N) + 1
  OBVIOUS
<1>4. IsFiniteSet(K) /\ Cardinality(K) = Cardinality(N) + 1
  <2>1. PICK k \in Nat : k = Cardinality(N) + 1
    BY <1>2
  <2>2. 1 \in Int /\ k \in Int
    OBVIOUS
  <2>3. IsFiniteSet(1 .. k) /\ Cardinality(1 .. k) = IF 1 > k THEN 0 ELSE k - 1 + 1
    BY <2>2, FS_Interval
  <2> QED
    BY <1>2, <1>3, <2>1, <2>3
<1>5. \E k \in K : Append(x, k) \notin N
  <2> SUFFICES ASSUME \A k \in K : Append(x, k) \in N PROVE FALSE
    OBVIOUS
  <2>1. PICK f : f = [k \in K |-> Append(x, k)]
    OBVIOUS
  <2>2. f \in [K -> N]
    BY <2>1
  <2>3. Cardinality(N) < Cardinality(K)
    BY <1>2, <1>4
  <2>4. PICK i, j \in K : i # j /\ f[i] = f[j]
    BY <1>2, <1>4, <2>2, <2>3, FS_PigeonHole
  <2>5. Append(x, i)[Len(x) + 1] = i /\ Append(x, j)[Len(x) + 1] = j
    BY AppendedName
  <2> QED
    BY <2>1, <2>4, <2>5
<1>6. PICK T : T = {k \in K : Append(x, k) \notin N}
  OBVIOUS
<1>7. PICK m \in T : \A k \in T : m <= k
  <2>1. T \in SUBSET Nat
    BY <1>2, <1>3, <1>6
  <2>2. PICK t \in T : TRUE
    BY <1>5, <1>6
  <2> QED
    BY <2>1, <2>2, LeastNat
<1> DEFINE free(k) == Append(x, k) \notin N
           least(k) == free(k) /\ \A j \in 1 .. k - 1 : ~free(j)
<1>8. m \in K /\ least(m)
  <2>1. m \in K /\ free(m)
    BY <1>6, <1>7
  <2>2. ASSUME NEW j \in 1 .. m - 1 PROVE ~free(j)
    <3>1. j \in K /\ ~(m <= j)
      BY <1>2, <1>3, <2>1
    <3> QED
      BY <1>6, <1>7, <3>1
  <2> QED
    BY <2>1, <2>2
<1> HIDE DEF least
<1>9. PICK k : k = CHOOSE j \in K : least(j)
  OBVIOUS
<1>10. k \in K /\ least(k)
  BY <1>8, <1>9
<1>11. UniqueName(p, x) = Append(x, k)
  BY <1>1, <1>3, <1>9 DEF UniqueName, least
<1> QED
  BY <1>1, <1>10, <1>11, AppendedName DEF least

NoUpdates == \A r \in Request : r.updates = <<>>

\* Before the updates of a caller's only call.
Early(c) ==
  \/ pc[c] \in CreatePcs \cup {"create"}
  \/ pc[c] = "idle" /\ calls[c] < MaxCalls

\* Names are apart until an update may have renamed or moved a node; the draft
\* has a twin only while that is about to be destroyed, as the last of the
\* queue.
FreshOK(c) ==
  /\ IsName(draft[c].name)
  /\ calls[c] \in Nat /\ (pc[c] # "idle" => calls[c] >= 1)
  /\ pc[c] = "store" => Twins(c) = {}
  /\ pc[c] = "replaced" => Len(queue[c]) = 1
  /\ pc[c] \in {"replaced", "replace"} => Twins(c) \subseteq {queue[c][Len(queue[c])]}
  /\ NoUpdates \/ Early(c) => NamesApart(Stored)

Fresh ==
  /\ DOMAIN calls = Caller
  /\ \A n \in Stored : IsName(tree[n].name)
  /\ \A c \in Caller : FreshOK(c)

LEMMA FreeIsTwinless ==
  ASSUME NEW c
  PROVE  Twins(c) = {} <=> draft[c].name \notin NamesUnder(draft[c].parent)
BY DEF Twins, NamesUnder

LEMMA FreshNow ==
  ASSUME Base, Working, Fresh, NEW c \in Caller
  PROVE  /\ DOMAIN pc = Caller /\ DOMAIN at = Caller /\ DOMAIN draft = Caller
         /\ DOMAIN queue = Caller /\ DOMAIN calls = Caller
         /\ FreshOK(c) /\ WorkOK(c) /\ CallOK(c) /\ IdsOK
BY DEF Base, LocalsOK, Working, Fresh

LEMMA FreshOn ==
  ASSUME OneCaller, Fresh, NEW c \in Caller, tree' = tree, DOMAIN calls' = Caller,
         FreshOK(c)'
  PROVE  Fresh'
BY DEF OneCaller, Fresh, Stored

LEMMA SameNames ==
  ASSUME NEW c, tree' = tree, draft'[c] = draft[c]
  PROVE  NamesApart(Stored)' = NamesApart(Stored) /\ Twins(c)' = Twins(c)
BY DEF NamesApart, Stored, Twins, Siblings

\* A step to a place where nothing is known of the draft.
LEMMA FreshQuiet ==
  ASSUME OneCaller, Fresh, NEW c \in Caller, UNCHANGED <<tree, calls>>, pc[c] # "idle",
         IsName(draft'[c].name),
         pc'[c] \notin {"store", "replaced", "replace", "idle"},
         pc'[c] \in CreatePcs \cup {"create"} => pc[c] \in CreatePcs \cup {"create"}
  PROVE  Fresh'
<1>1. FreshOK(c) /\ DOMAIN calls = Caller
  BY DEF Fresh
<1>2. NamesApart(Stored)' = NamesApart(Stored)
  BY DEF NamesApart, Stored
<1>3. FreshOK(c)'
  BY <1>1, <1>2 DEF FreshOK, Early
<1> QED
  BY <1>1, <1>3, FreshOn

\* What a create or a copy begins with is a name.
LEMMA DraftIsNamed ==
  ASSUME Base, Working, Fresh, NEW c \in Caller, BeginCreate(c) \/ BeginCopy(c)
  PROVE  IsName(draft'[c].name)
<1>1. DOMAIN draft = Caller /\ FreshOK(c) /\ CallOK(c) /\ IdsOK
  BY FreshNow
<1>2. CASE BeginCreate(c)
  <2>1. Entry(c) \in CreateEntry \cup CopyEntry /\ Entry(c).source = Top
    BY <1>1, <1>2, EntryShape DEF BeginCreate, HasCreate, IsCopy
  <2>2. Entry(c) \in CreateEntry
    BY <2>1 DEF CopyEntry, Node, Top
  <2>3. Entry(c).patch.name \in Name
    BY <2>2 DEF CreateEntry
  <2> QED
    BY <1>1, <1>2, <2>3, NameAssumption DEF BeginCreate
<1>3. CASE BeginCopy(c)
  BY <1>1, <1>3 DEF BeginCopy, Fresh, FreshOK
<1> QED
  BY <1>2, <1>3

\* The steps that look, but for what they find out about the draft.
LEMMA FreshLook ==
  ASSUME OneCaller, Base, Working, Fresh, NEW c \in Caller,
         \/ BeginCreate(c) \/ BeginCopy(c) \/ CheckCopyCycle(c) \/ CheckDepth(c)
         \/ MoveChecker(c) \/ ReadSubtree(c) \/ ReadOriginal(c)
         \/ EndCreates(c) \/ EndUpdates(c) \/ EndDestroys(c) \/ EndOriginals(c)
  PROVE  Fresh'
<1> USE DEF Goto, NextEntry, RefuseCreate, storeVars, workVars, replyVars, CreatePcs
<1>1. /\ DOMAIN pc = Caller /\ DOMAIN draft = Caller /\ FreshOK(c)
  BY FreshNow
<1>2. CASE BeginCreate(c) \/ BeginCopy(c)
  <2>1. /\ UNCHANGED <<tree, calls>> /\ pc[c] = "create"
        /\ pc'[c] \in {"create", "depth", "cycle"}
    BY <1>1, <1>2 DEF BeginCreate, BeginCopy, HasCreate
  <2> QED
    BY <1>2, <2>1, DraftIsNamed, FreshQuiet
<1>3. CASE CheckCopyCycle(c) \/ CheckDepth(c)
  <2>1. /\ UNCHANGED <<tree, calls, draft>> /\ pc[c] \in {"cycle", "depth"}
        /\ pc'[c] \in {"create", "depth", "sibling"}
    BY <1>1, <1>3 DEF CheckCopyCycle, CheckDepth
  <2> QED
    BY <1>1, <2>1, FreshQuiet DEF FreshOK
<1>4. CASE MoveChecker(c) \/ ReadSubtree(c) \/ ReadOriginal(c)
  <2>1. /\ UNCHANGED <<tree, calls, draft>> /\ pc[c] # "idle"
        /\ pc'[c] \in {"patch", "ancestors", "height", "update", "remove", "destroy", "erase",
                       "original"}
    BY <1>1, <1>4 DEF MoveChecker, SkipMoveChecks, CheckMoveCycle, ReadMoveDepth,
       CheckMoveDepth, HasUpdate, ReadSubtree, ReadOriginal
  <2> QED
    BY <1>1, <2>1, FreshQuiet DEF FreshOK
<1>5. CASE EndCreates(c) \/ EndUpdates(c) \/ EndDestroys(c) \/ EndOriginals(c)
  <2>1. /\ UNCHANGED <<tree, calls, draft>> /\ pc[c] # "idle"
        /\ pc'[c] \in {"update", "destroy", "original", "reply"}
    BY <1>1, <1>5 DEF EndCreates, EndUpdates, EndDestroys, EndOriginals, EndLoop
  <2> QED
    BY <1>1, <2>1, FreshQuiet DEF FreshOK
<1> QED
  BY <1>2, <1>3, <1>4, <1>5

\* Of siblings with names apart one at most is the draft's twin.
LEMMA FreshSibling ==
  ASSUME OneCaller, Base, Working, Fresh, NEW c \in Caller, FindSibling(c)
  PROVE  Fresh'
<1> USE DEF Goto, NextEntry, RefuseCreate, storeVars, CreatePcs
<1>1. /\ DOMAIN pc = Caller /\ DOMAIN draft = Caller /\ DOMAIN queue = Caller
      /\ DOMAIN calls = Caller /\ FreshOK(c)
  BY FreshNow
<1>2. UNCHANGED <<tree, draft, calls>> /\ pc[c] = "sibling"
  BY DEF FindSibling
<1>3. NamesApart(Stored) /\ Twins(c)' = Twins(c) /\ NamesApart(Stored)' = NamesApart(Stored)
  BY <1>1, <1>2, SameNames DEF FreshOK, Early
<1>4. CASE pc'[c] \in {"create", "unique"}
  BY <1>1, <1>2, <1>4, FreshQuiet DEF FreshOK
<1>5. CASE Twins(c) = {} /\ pc'[c] = "store"
  <2>1. FreshOK(c)'
    BY <1>1, <1>2, <1>3, <1>5 DEF FreshOK
  <2> QED
    BY <1>1, <1>2, <2>1, FreshOn
<1>6. ASSUME NEW n \in Twins(c), queue' = [queue EXCEPT ![c] = <<n>>], pc'[c] = "replaced"
      PROVE  Fresh'
  <2>1. Twins(c) \subseteq {n}
    BY <1>3 DEF NamesApart, Twins, Siblings
  <2>2. queue'[c] = <<n>> /\ Len(<<n>>) = 1 /\ <<n>>[1] = n
    BY <1>1, <1>6
  <2>3. FreshOK(c)'
    BY <1>1, <1>2, <1>3, <1>6, <2>1, <2>2 DEF FreshOK
  <2> QED
    BY <1>1, <1>2, <2>3, FreshOn
<1> QED
  BY <1>1, <1>4, <1>5, <1>6 DEF FindSibling

LEMMA FreshUnique ==
  ASSUME OneCaller, Base, Working, Fresh, NEW c \in Caller, FindUniqueName(c)
  PROVE  Fresh'
<1>1. /\ DOMAIN pc = Caller /\ DOMAIN draft = Caller /\ DOMAIN calls = Caller
      /\ FreshOK(c) /\ CallOK(c) /\ IdsOK
  BY FreshNow
<1>2. PICK p, x : draft[c] = [parent |-> p, name |-> x]
  BY <1>1 DEF CallOK, DraftOK
<1>3. PICK y : y = UniqueName(p, x)
  OBVIOUS
<1>4. y \notin NamesUnder(p) /\ IsName(y)
  BY <1>1, <1>2, <1>3, UniqueNameFree DEF FreshOK
<1>5. draft'[c] = [parent |-> p, name |-> y]
  BY <1>1, <1>2, <1>3 DEF FindUniqueName
<1>6. UNCHANGED <<tree, calls>> /\ pc[c] = "unique" /\ pc'[c] = "store"
  BY <1>1 DEF FindUniqueName, Goto, storeVars
<1>7. Twins(c)' = {}
  BY <1>4, <1>5, <1>6 DEF NamesUnder, Twins, Siblings, Stored
<1>8. NamesApart(Stored)'
  BY <1>1, <1>6 DEF FreshOK, Early, CreatePcs, NamesApart, Stored
<1>9. FreshOK(c)'
  BY <1>1, <1>4, <1>5, <1>6, <1>7, <1>8 DEF FreshOK
<1> QED
  BY <1>1, <1>6, <1>9, FreshOn

\* The node to replace is the last of what goes.
LEMMA FreshReplaced ==
  ASSUME OneCaller, Base, Working, Fresh, NEW c \in Caller, ReadReplaced(c)
  PROVE  Fresh'
<1> USE DEF Goto, NextEntry, RefuseCreate, storeVars, CreatePcs
<1>1. /\ DOMAIN pc = Caller /\ DOMAIN draft = Caller /\ DOMAIN queue = Caller
      /\ DOMAIN calls = Caller /\ FreshOK(c) /\ WorkOK(c)
  BY FreshNow
<1>2. UNCHANGED <<tree, draft, calls>> /\ pc[c] = "replaced"
  BY DEF ReadReplaced
<1>3. NamesApart(Stored) /\ Twins(c)' = Twins(c) /\ NamesApart(Stored)' = NamesApart(Stored)
  BY <1>1, <1>2, SameNames DEF FreshOK, Early
<1>4. CASE pc'[c] = "create"
  BY <1>1, <1>2, <1>4, FreshQuiet DEF FreshOK
<1>5. ASSUME NEW q \in Walks(Head(queue[c])),
             queue' = [queue EXCEPT ![c] = Append(q, Head(queue[c]))], pc'[c] = "replace"
      PROVE  Fresh'
  <2>1. PICK n : n = Head(queue[c])
    OBVIOUS
  <2>2. queue[c] \in Seq(Node) /\ Len(queue[c]) = 1
    BY <1>1, <1>2 DEF WorkOK, FreshOK
  <2>3. Twins(c) \subseteq {n}
    BY <1>1, <1>2, <2>1, <2>2 DEF FreshOK
  <2>4. q \in Seq(Stored) /\ Stored \subseteq Node
    <3>1. PICK k \in Nat : k = Cardinality(Descendants(n))
      BY BelowFinite DEF Base
    <3>2. Descendants(n) \subseteq Stored
      BY BelowFinite DEF Base
    <3>3. q \in [1 .. k -> Descendants(n)]
      BY <1>5, <2>1, <3>1 DEF Walks
    <3>4. q \in [1 .. k -> Stored]
      BY <3>2, <3>3
    <3>5. Stored \subseteq Node
      BY BoundsAssumption DEF Base, IdsOK, Node
    <3> QED
      BY <3>1, <3>4, <3>5
  <2>5. n \in Node
    BY <2>1, <2>2
  <2>6. PICK w : w = Append(q, n)
    OBVIOUS
  <2>7. w[Len(w)] = n
    BY <2>4, <2>5, <2>6, AppendProperties
  <2>8. queue'[c] = w
    BY <1>1, <1>5, <2>1, <2>6
  <2>9. FreshOK(c)'
    BY <1>1, <1>2, <1>3, <1>5, <2>3, <2>7, <2>8 DEF FreshOK
  <2> QED
    BY <1>1, <1>2, <2>9, FreshOn
<1> QED
  BY <1>1, <1>4, <1>5 DEF ReadReplaced

\* The one step that adds a node.
LEMMA FreshStore ==
  ASSUME OneCaller, Base, Working, Fresh, NEW c \in Caller, Store(c)
  PROVE  /\ Fresh'
         /\ \A n \in Stored' \ Stored : tree'[n].name \notin NamesUnder(tree'[n].parent)
<1>1. /\ DOMAIN pc = Caller /\ DOMAIN calls = Caller /\ FreshOK(c) /\ IdsOK
  BY FreshNow
<1>2. PICK n : n = minted + 1
  OBVIOUS
<1>3. n \notin Stored
  BY <1>1, <1>2, BoundsAssumption DEF IdsOK
<1>4. /\ pc[c] = "store" /\ pc'[c] = "create" /\ UNCHANGED <<draft, calls>>
      /\ tree' = [m \in Stored \cup {n} |-> IF m = n THEN draft[c] ELSE tree[m]]
  BY <1>1, <1>2 DEF Store, NextEntry, Goto, workVars
<1>5. /\ Stored' = Stored \cup {n} /\ tree'[n] = draft[c]
      /\ \A m \in Stored : tree'[m] = tree[m]
  BY <1>3, <1>4 DEF Stored
<1>6. draft[c].name \notin NamesUnder(draft[c].parent)
  BY <1>1, <1>4, FreeIsTwinless DEF FreshOK
<1>7. NamesApart(Stored)'
  <2>1. NamesApart(Stored)
    BY <1>1, <1>4 DEF FreshOK, Early, CreatePcs
  <2>2. ASSUME NEW m \in Stored, tree[m].parent = draft[c].parent
        PROVE  tree[m].name # draft[c].name
    BY <1>6, <2>2 DEF NamesUnder, Siblings
  <2>3. ASSUME NEW a \in Stored \cup {n}, NEW b \in Stored \cup {n}, a # b,
               tree'[a].parent = tree'[b].parent
        PROVE  tree'[a].name # tree'[b].name
    <3>1. CASE a \in Stored /\ b \in Stored
      BY <1>5, <2>1, <2>3, <3>1 DEF NamesApart
    <3>2. CASE a = n /\ b \in Stored
      BY <1>5, <2>2, <2>3, <3>2
    <3>3. CASE b = n /\ a \in Stored
      BY <1>5, <2>2, <2>3, <3>3
    <3> QED
      BY <2>3, <3>1, <3>2, <3>3
  <2> QED
    BY <1>5, <2>3 DEF NamesApart
<1>8. FreshOK(c)'
  BY <1>1, <1>4, <1>7 DEF FreshOK
<1>9. \A m \in Stored' : IsName(tree'[m].name)
  BY <1>1, <1>5 DEF Fresh, FreshOK
<1>10. Fresh'
  BY <1>1, <1>4, <1>8, <1>9 DEF OneCaller, Fresh
<1> QED
  BY <1>5, <1>6, <1>10

LEMMA FreshDestroy ==
  ASSUME OneCaller, Base, Working, Fresh, NEW c \in Caller, DestroyNext(c)
  PROVE  Fresh' /\ Stored' \subseteq Stored
<1> USE DEF Goto, NextEntry
<1>1. /\ DOMAIN pc = Caller /\ DOMAIN queue = Caller /\ DOMAIN calls = Caller
      /\ FreshOK(c) /\ WorkOK(c)
  BY FreshNow
<1>2. pc[c] \in {"replace", "remove", "erase"} /\ UNCHANGED <<draft, calls>>
  BY DEF DestroyNext
<1>3. PICK n : n = Head(queue[c])
  OBVIOUS
<1>4. CASE n \notin Stored
  <2>1. tree' = tree /\ pc'[c] \in {"create", "destroy", "original"}
        /\ (pc'[c] = "create" => pc[c] = "replace")
    BY <1>1, <1>2, <1>3, <1>4 DEF DestroyNext, NotFound, AbortDestroy, RefuseCreate
  <2>2. Fresh'
    BY <1>1, <1>2, <2>1, FreshQuiet DEF FreshOK, CreatePcs
  <2> QED
    BY <2>1, <2>2 DEF Stored
<1>5. CASE n \in Stored
  <2>1. /\ tree' = [m \in Stored \ {n} |-> tree[m]]
        /\ queue'[c] = Tail(queue[c])
        /\ IF Len(queue[c]) = 1 THEN AfterDestroy(c) ELSE UNCHANGED <<pc, at>>
    BY <1>1, <1>3, <1>5 DEF DestroyNext, NotFound
  <2>2. Stored' = Stored \ {n} /\ \A m \in Stored' : tree'[m] = tree[m]
    BY <2>1 DEF Stored
  <2>3. /\ NamesApart(Stored) => NamesApart(Stored)'
        /\ Twins(c)' = Twins(c) \ {n}
        /\ \A m \in Stored' : IsName(tree'[m].name)
    BY <1>2, <2>2 DEF NamesApart, Twins, Siblings, Fresh
  <2>4. PICK k \in Nat : Len(queue[c]) = k + 1
    <3>1. queue[c] \in Seq(Node) /\ queue[c] # <<>>
      BY <1>1, <1>2 DEF WorkOK, DestroyPcs
    <3>2. Len(queue[c]) \in Nat \ {0}
      BY <3>1, EmptySeq, LenProperties
    <3>3. Len(queue[c]) - 1 \in Nat /\ Len(queue[c]) = (Len(queue[c]) - 1) + 1
      BY <3>2
    <3> QED
      BY <3>3
  <2>5. queue[c] \in Seq(Node) /\ queue[c] # <<>> /\ n = queue[c][1]
    BY <1>1, <1>2, <1>3 DEF WorkOK, DestroyPcs
  <2>6. /\ Len(Tail(queue[c])) = k
        /\ k # 0 => Tail(queue[c])[k] = queue[c][k + 1]
    BY <2>4, <2>5, HeadTailProperties
  <2>7. /\ pc'[c] \in {"replace", "store", "remove", "destroy", "erase", "original"}
        /\ pc'[c] = "store" => k = 0 /\ pc[c] = "replace"
        /\ pc'[c] = "replace" => k # 0 /\ pc[c] = "replace"
    <3>1. Len(queue[c]) = 1 <=> k = 0
      BY <2>4
    <3>2. CASE k = 0
      BY <1>1, <1>2, <2>1, <3>1, <3>2 DEF AfterDestroy
    <3>3. CASE k # 0
      BY <1>2, <2>1, <3>1, <3>3
    <3> QED
      BY <3>2, <3>3
  <2>8. pc'[c] = "store" => Twins(c)' = {}
    BY <1>1, <2>3, <2>4, <2>5, <2>7 DEF FreshOK
  <2>9. pc'[c] = "replace" => Twins(c)' \subseteq {queue'[c][Len(queue'[c])]}
    BY <1>1, <2>1, <2>3, <2>4, <2>6, <2>7 DEF FreshOK
  <2>10. NoUpdates \/ Early(c)' => NamesApart(Stored)'
    BY <1>1, <2>3, <2>7 DEF FreshOK, Early, CreatePcs
  <2>11. FreshOK(c)'
    BY <1>1, <1>2, <2>7, <2>8, <2>9, <2>10 DEF FreshOK
  <2> QED
    BY <1>1, <1>2, <2>2, <2>3, <2>11 DEF OneCaller, Fresh
<1> QED
  BY <1>4, <1>5

\* An update takes no look at the names: after it nothing is known of them.
LEMMA FreshPatch ==
  ASSUME OneCaller, Base, Working, Fresh, NEW c \in Caller, Patch(c)
  PROVE  Fresh' /\ Stored' = Stored
<1>1. /\ DOMAIN pc = Caller /\ DOMAIN calls = Caller /\ FreshOK(c) /\ CallOK(c)
  BY FreshNow
<1>2. /\ pc[c] = "patch" /\ pc'[c] = "update" /\ UNCHANGED <<draft, calls>>
      /\ at[c] \in DOMAIN ask[c].updates
  BY <1>1 DEF Patch, NextEntry, Goto, workVars, CallOK, MovePcs
<1>3. ~NoUpdates
  BY <1>1, <1>2 DEF CallOK, NoUpdates, NoRequest
<1>4. PICK id, patch : id = Change(c).id /\ patch = Change(c).patch
  OBVIOUS
<1>5. "name" \in DOMAIN patch => patch.name \in Name
  <2>1. Change(c) \in UpdateEntry
    BY <1>1, <1>2, ChangeShape
  <2> QED
    BY <1>4, <2>1 DEF UpdateEntry
<1>6. tree' = [n \in Stored |-> IF n = id THEN Patched(tree[n], patch) ELSE tree[n]]
  BY <1>4 DEF Patch
<1>7. Stored' = Stored
  BY <1>6 DEF Stored
<1>8. \A n \in Stored : tree'[n].name \in {tree[n].name} \cup Name
  BY <1>5, <1>6 DEF Patched
<1>9. \A n \in Stored' : IsName(tree'[n].name)
  BY <1>7, <1>8, NameAssumption DEF Fresh
<1>10. FreshOK(c)'
  BY <1>1, <1>2, <1>3 DEF FreshOK, Early, CreatePcs, NoUpdates
<1> QED
  BY <1>1, <1>2, <1>7, <1>9, <1>10 DEF OneCaller, Fresh

LEMMA FreshCall ==
  ASSUME OneCaller, NoUpdates \/ MaxCalls = 1, Base, Working, Fresh, NEW c \in Caller,
         Start(c) \/ Reply(c)
  PROVE  Fresh'
<1> USE DEF Goto, storeVars, workVars
<1>1. /\ DOMAIN pc = Caller /\ DOMAIN draft = Caller /\ DOMAIN calls = Caller /\ FreshOK(c)
  BY FreshNow
<1>2. NamesApart(Stored)' = NamesApart(Stored) /\ tree' = tree
  BY DEF NamesApart, Stored, Start, Reply
<1>3. CASE Start(c)
  <2>1. /\ pc[c] = "idle" /\ pc'[c] = "create" /\ calls'[c] = calls[c] + 1
        /\ DOMAIN calls' = Caller /\ draft' = draft /\ NamesApart(Stored)
    BY <1>1, <1>3 DEF Start, FreshOK, Early
  <2>2. calls'[c] \in Nat /\ calls'[c] >= 1
    BY <1>1, <2>1 DEF FreshOK
  <2>3. FreshOK(c)'
    BY <1>1, <1>2, <2>1, <2>2 DEF FreshOK
  <2> QED
    BY <1>2, <2>1, <2>3, FreshOn
<1>4. CASE Reply(c)
  <2>1. /\ pc[c] = "reply" /\ pc'[c] = "idle" /\ UNCHANGED calls /\ draft'[c] = NoDraft
    BY <1>1, <1>4 DEF Reply
  <2>2. IsName(NoDraft.name)
    BY DEF IsName, NoDraft
  <2>3. NoUpdates \/ Early(c)' => NamesApart(Stored)
    BY <1>1, <2>1 DEF FreshOK, Early, CreatePcs, NoUpdates
  <2>4. FreshOK(c)'
    BY <1>1, <1>2, <2>1, <2>2, <2>3 DEF FreshOK, NoUpdates
  <2> QED
    BY <1>1, <1>2, <2>1, <2>4, FreshOn
<1> QED
  BY <1>3, <1>4

LEMMA FreshNext ==
  ASSUME OneCaller, NoUpdates \/ MaxCalls = 1, Base, Working, Fresh, [Next]_vars
  PROVE  /\ Fresh'
         /\ \A n \in Stored' \ Stored : tree'[n].name \notin NamesUnder(tree'[n].parent)
<1>1. CASE UNCHANGED vars
  <2>1. UNCHANGED <<tree, draft, pc, calls, queue>>
    BY <1>1 DEF vars
  <2>2. \A c : NamesApart(Stored)' = NamesApart(Stored) /\ Twins(c)' = Twins(c)
    BY <2>1, SameNames
  <2>3. \A c \in Caller : FreshOK(c)'
    BY <2>1, <2>2 DEF Fresh, FreshOK, Early, NoUpdates
  <2> QED
    BY <2>1, <2>3 DEF Fresh, Stored
<1>2. CASE Next
  <2>1. PICK c \in Caller : CreateStep(c) \/ UpdateStep(c) \/ DestroyStep(c) \/ LoopStep(c)
    BY <1>2 DEF Next
  <2>2. CASE Store(c)
    BY <2>2, FreshStore
  <2>3. CASE ~Store(c)
    <3>1. Fresh'
      BY <2>1, <2>3, FreshLook, FreshSibling, FreshUnique, FreshReplaced, FreshDestroy,
         FreshPatch, FreshCall DEF CreateStep, UpdateStep, DestroyStep, LoopStep, MoveChecker
    <3>2. CASE Patch(c) \/ DestroyNext(c)
      BY <3>1, <3>2, FreshPatch, FreshDestroy
    <3>3. CASE ~Patch(c) /\ ~DestroyNext(c)
      <4>1. tree' = tree
        BY <2>1, <2>3, <3>3 DEF CreateStep, UpdateStep, DestroyStep, LoopStep, storeVars,
           BeginCreate, BeginCopy, CheckCopyCycle, CheckDepth, FindSibling, FindUniqueName,
           ReadReplaced, SkipMoveChecks, CheckMoveCycle, ReadMoveDepth, CheckMoveDepth,
           ReadSubtree, ReadOriginal, Start, EndCreates, EndUpdates, EndDestroys,
           EndOriginals, EndLoop, Reply
      <4> QED
        BY <3>1, <4>1 DEF Stored
    <3> QED
      BY <3>2, <3>3
  <2> QED
    BY <2>2, <2>3
<1> QED
  BY <1>1, <1>2

LEMMA FreshInit == ASSUME Init PROVE Fresh
<1>1. /\ \A n \in Stored : IsName(tree[n].name)
      /\ NamesApart(Stored)
  BY NameAssumption DEF Init, Stored
<1>2. ASSUME NEW c \in Caller PROVE FreshOK(c)
  <2>1. pc[c] = "idle" /\ calls[c] = 0 /\ draft[c] = NoDraft
    BY DEF Init
  <2>2. IsName(NoDraft.name)
    BY DEF IsName, NoDraft
  <2> QED
    BY <1>1, <2>1, <2>2 DEF FreshOK
<1> QED
  BY <1>1, <1>2 DEF Fresh, Init

\* A create or a copy never gives a node a name that a sibling has when it is
\* stored: find_sibling_by_name looks first, what it finds is refused, replaced
\* or renamed around, and find_unique_name finds a name.  That is so for one
\* caller at a time as long as no update came before: an update is not held
\* against the names under its parent, and of two twins "replace" destroys one.
THEOREM NewcomerIsUnique ==
  ASSUME OneCaller, NoUpdates \/ MaxCalls = 1
  PROVE  Spec => NewNameIsFree
<1>1. Init => Base /\ Working /\ Fresh
  BY WorkInit, FreshInit
<1>2. Base /\ Working /\ Fresh /\ [Next]_vars => Base' /\ Working' /\ Fresh'
  BY BaseNext, WorkNext, FreshNext
<1>3. Base /\ Working /\ Fresh /\ [Next]_vars
        => [\A n \in Stored' \ Stored : tree'[n].name \notin NamesUnder(tree'[n].parent)]_vars
  BY FreshNext
<1> QED
  BY <1>1, <1>2, <1>3, PTL DEF Spec, NewNameIsFree

=============================================================================
