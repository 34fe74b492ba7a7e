--------------------------- MODULE DispatchProofs ---------------------------
(***************************************************************************)
(* Mailbox/set calls under the dispatcher, for any mailboxes, emails,      *)
(* batches and requests: emails keep a home, no mailbox is destroyed over  *)
(* a child, a creation id means what the client reads, a conditional call  *)
(* takes effect once, and a role is given once.                            *)
(***************************************************************************)
EXTENDS Dispatch, FiniteSetTheorems, TLAPS

Maps(D, R) == UNION {[S -> R] : S \in SUBSET D}

LEMMA MapsDef ==
  ASSUME NEW D, NEW R, NEW f
  PROVE  f \in Maps(D, R) <=> DOMAIN f \subseteq D /\ f \in [DOMAIN f -> R]
BY DEF Maps

LEMMA EmptyIn ==
  ASSUME NEW D, NEW R
  PROVE  Empty \in Maps(D, R) /\ DOMAIN Empty = {}
BY MapsDef DEF Empty

LEMMA PutIn ==
  ASSUME NEW D, NEW R, NEW f \in Maps(D, R), NEW k \in D, NEW v \in R
  PROVE  /\ Put(f, k, v) \in Maps(D, R)
         /\ DOMAIN Put(f, k, v) = DOMAIN f \cup {k}
         /\ Put(f, k, v)[k] = v
         /\ \A x \in DOMAIN f \ {k} : Put(f, k, v)[x] = f[x]
<1>1. DOMAIN f \subseteq D /\ f \in [DOMAIN f -> R]
  BY MapsDef
<1>2. /\ DOMAIN Put(f, k, v) = DOMAIN f \cup {k}
      /\ Put(f, k, v) \in [DOMAIN f \cup {k} -> R]
  BY <1>1 DEF Put
<1>3. Put(f, k, v)[k] = v /\ \A x \in DOMAIN f \ {k} : Put(f, k, v)[x] = f[x]
  BY DEF Put
<1> QED BY <1>1, <1>2, <1>3, MapsDef

LEMMA CutIn ==
  ASSUME NEW D, NEW R, NEW f \in Maps(D, R), NEW S \in SUBSET DOMAIN f
  PROVE  [x \in S |-> f[x]] \in Maps(D, R)
<1>1. DOMAIN f \subseteq D /\ f \in [DOMAIN f -> R]
  BY MapsDef
<1>2. [x \in S |-> f[x]] \in [S -> R] /\ DOMAIN [x \in S |-> f[x]] = S
  BY <1>1
<1> QED BY <1>1, <1>2, MapsDef

-----------------------------------------------------------------------------
(* The types of the store, of the calls and of the requests.               *)

CallRecord ==
  [create : Maps(Cid, Creation), update : Maps(Box, Patch), destroy : SUBSET Box,
   removeEmails : BOOLEAN, malformed : BOOLEAN, known : BOOLEAN,
   ifInState : Nat \cup {NoState}, after : Nat]

Pcs == Over \cup {"state", "list", "create", "update", "relist", "destroy", "read", "remove",
                  "unfile", "drop", "answer"}

BoxRecord == [name : Name, parent : Box \cup {Top}, role : Role \cup {NoRole}]
MadeRecord == [id : Box, parent : Box \cup {Top}]
Reply == [ok : BOOLEAN, created : Maps(Cid, Box), newState : Nat \cup {NoState}]

StoreTypes ==
  /\ box \in Maps(Box, BoxRecord) /\ filed \in Maps(Email, SUBSET Box)
  /\ stamp \in Nat /\ minted \in 0 .. MaxBox /\ DOMAIN box \subseteq 1 .. minted

CallTypes ==
  /\ pc \in [Request -> Pcs] /\ arg \in [Request -> CallRecord]
  /\ ids \in [Request -> Maps(Cid, Box)] /\ seen \in [Request -> Maps(Box, BoxRecord)]
  /\ todo \in [Request -> SUBSET (Cid \cup Box)]
  /\ made \in [Request -> Maps(Cid, MadeRecord)] /\ mutated \in [Request -> BOOLEAN]
  /\ freed \in [Request -> SUBSET (Role \cup {NoRole})]
  /\ claimed \in [Request -> SUBSET Role]
  /\ at \in [Request -> Box \cup {Top}] /\ found \in [Request -> Maps(Email, SUBSET Box)]
  /\ newState \in [Request -> Nat] /\ balked \in BOOLEAN

ConnTypes ==
  /\ conn \in [Request -> {"none", "open", "dropped", "answered"}]
  /\ batch \in [Request -> Batch \cup {<<>>}]
  /\ sent \in [Request -> Maps(Cid, Box)] /\ createdIds \in [Request -> Maps(Cid, Box)]
  /\ replies \in [Request -> Seq(Reply)] /\ overlapped \in BOOLEAN
  /\ applied \subseteq [request : Request, call : Nat, state : Nat]

Fresh == {"idle", "state", "list"}

\* What a request holds fits the call it is in and the batch it came with.
FitOf(r) ==
  /\ DOMAIN made[r] \subseteq DOMAIN arg[r].create
  /\ pc[r] \in Fresh => made[r] = Empty /\ ~mutated[r]
  /\ pc[r] \in Fresh \cup {"create"} => freed[r] = {} /\ claimed[r] = {}
  /\ pc[r] = "create" => todo[r] \subseteq DOMAIN arg[r].create
  /\ pc[r] = "update" => \A n \in todo[r] : /\ n \in DOMAIN arg[r].update
                                            /\ Resolves(r, arg[r].update[n].parent)
  /\ Len(replies[r]) <= Len(batch[r])
  /\ pc[r] # "idle" => Len(replies[r]) < Len(batch[r]) /\ conn[r] \in {"open", "dropped"}
  /\ conn[r] = "none" => replies[r] = <<>>

Fits == \A r \in Request : FitOf(r)

TypeInv == StoreTypes /\ CallTypes /\ ConnTypes /\ Fits

LEMMA CallsTyped ==
  /\ Call \subseteq CallRecord
  /\ \A f \in Sent : f \in Maps(Cid, Box)
  /\ \A b \in Batch : b \in Seq(Call) /\ b # <<>> /\ \A i \in DOMAIN b : b[i].after < i
<1>1. ASSUME NEW c \in Call PROVE c \in CallRecord
  <2>1. c.create \in Maps(Cid, Creation) /\ c.update \in Maps(Box, Patch)
    BY CallAssumption, MapsDef
  <2>2. c \in [create : {c.create}, update : {c.update}, destroy : SUBSET Box,
               removeEmails : BOOLEAN, malformed : BOOLEAN, known : BOOLEAN,
               ifInState : Nat \cup {NoState}, after : Nat]
    BY CallAssumption
  <2> QED BY <2>1, <2>2 DEF CallRecord
<1>2. \A f \in Sent : f \in Maps(Cid, Box)
  BY BatchAssumption, MapsDef
<1>3. \A b \in Batch : b \in Seq(Call) /\ b # <<>> /\ \A i \in DOMAIN b : b[i].after < i
  BY BatchAssumption
<1> QED BY <1>1, <1>2, <1>3

\* A mailbox as CreateBox writes it, and the parent it gives it.
LEMMA ResolvedIn ==
  ASSUME CallTypes, NEW r \in Request, NEW p \in Parent, Resolves(r, p)
  PROVE  Resolved(r, p) \in Box \cup {Top}
<1>1. CASE p \notin Cid
  BY <1>1 DEF Parent, Resolved
<1>2. CASE p \in Cid /\ p \in DOMAIN made[r]
  <2>1. made[r] \in [DOMAIN made[r] -> MadeRecord]
    BY MapsDef DEF CallTypes
  <2> QED BY <1>2, <2>1 DEF Resolved, MadeRecord
<1>3. CASE p \in Cid /\ p \notin DOMAIN made[r]
  <2>1. p \in DOMAIN ids[r] /\ ids[r] \in [DOMAIN ids[r] -> Box]
    BY <1>3, MapsDef DEF CallTypes, Resolves, Known
  <2> QED BY <1>3, <2>1 DEF Resolved
<1> QED BY <1>1, <1>2, <1>3

LEMMA ArgTyped ==
  ASSUME CallTypes, NEW r \in Request
  PROVE  /\ arg[r] \in CallRecord
         /\ DOMAIN arg[r].create \subseteq Cid
         /\ \A k \in DOMAIN arg[r].create : arg[r].create[k] \in Creation
         /\ DOMAIN arg[r].update \subseteq Box
         /\ \A n \in DOMAIN arg[r].update : arg[r].update[n] \in Patch
<1>1. arg[r] \in CallRecord
  BY DEF CallTypes
<1>2. arg[r].create \in Maps(Cid, Creation) /\ arg[r].update \in Maps(Box, Patch)
  BY <1>1 DEF CallRecord
<1>3. /\ DOMAIN arg[r].create \subseteq Cid
      /\ arg[r].create \in [DOMAIN arg[r].create -> Creation]
      /\ DOMAIN arg[r].update \subseteq Box
      /\ arg[r].update \in [DOMAIN arg[r].update -> Patch]
  BY <1>2, MapsDef
<1> QED BY <1>1, <1>3

-----------------------------------------------------------------------------
(* A step of a call touches the locals of its own request only.            *)

OthersKept(r) ==
  \A q \in Request \ {r} :
    /\ pc'[q] = pc[q] /\ seen'[q] = seen[q] /\ todo'[q] = todo[q] /\ made'[q] = made[q]
    /\ mutated'[q] = mutated[q] /\ freed'[q] = freed[q] /\ claimed'[q] = claimed[q]
    /\ at'[q] = at[q] /\ found'[q] = found[q] /\ newState'[q] = newState[q]
    /\ arg'[q] = arg[q] /\ ids'[q] = ids[q]

LEMMA StepKeepsOthers ==
  ASSUME CallTypes, NEW r \in Request, Step(r) \/ Panic(r)
  PROVE  OthersKept(r) /\ arg' = arg /\ ids' = ids
<1>1. CASE CheckState(r) \/ ListBoxes(r) \/ StartUpdates(r) \/ EndUpdates(r) \/ RelistBoxes(r)
  BY <1>1 DEF CheckState, ListBoxes, StartUpdates, EndUpdates, RelistBoxes, Goto, OthersKept, CallTypes
<1>2. ASSUME NEW k \in Cid, CreateBox(r, k) PROVE OthersKept(r) /\ arg' = arg /\ ids' = ids
  BY <1>2 DEF CreateBox, OthersKept, CallTypes
<1>3. ASSUME NEW n \in Box, UpdateBox(r, n) PROVE OthersKept(r) /\ arg' = arg /\ ids' = ids
  BY <1>3 DEF UpdateBox, OthersKept, CallTypes
<1>4. ASSUME NEW n \in Box, DestroyBox(r, n) PROVE OthersKept(r) /\ arg' = arg /\ ids' = ids
  BY <1>4 DEF DestroyBox, Goto, OthersKept, CallTypes
<1>5. CASE ReadEmails(r) \/ RemoveEmails(r) \/ EndUnfile(r) \/ EndDestroys(r) \/ Finish(r)
           \/ Panic(r)
  BY <1>5 DEF ReadEmails, RemoveEmails, EndUnfile, EndDestroys, Finish, Panic, Goto, OthersKept, CallTypes
<1>6. ASSUME NEW e \in Email, Unfile(r, e) PROVE OthersKept(r) /\ arg' = arg /\ ids' = ids
  BY <1>6 DEF Unfile, OthersKept, CallTypes
<1>7. CASE DropBox(r)
  BY <1>7 DEF DropBox, Goto, OthersKept, CallTypes
<1> QED BY <1>1, <1>2, <1>3, <1>4, <1>5, <1>6, <1>7 DEF Step

LEMMA EndTaskFields ==
  ASSUME CallTypes, NEW r \in Request, EndTask(r)
  PROVE  /\ OthersKept(r) /\ arg' = arg /\ newState' = newState /\ balked' = balked
         /\ overlapped' = overlapped /\ UNCHANGED storeVars
         /\ pc'[r] = "idle" /\ ids'[r] = Empty /\ seen'[r] = Empty /\ todo'[r] = {}
         /\ made'[r] = Empty /\ mutated'[r] = FALSE /\ freed'[r] = {} /\ claimed'[r] = {}
         /\ at'[r] = Top /\ found'[r] = Empty
         /\ CallTypes'
<1>1. OthersKept(r)
  BY DEF EndTask, Goto, OthersKept, CallTypes
<1>2. /\ arg' = arg /\ newState' = newState /\ balked' = balked
      /\ overlapped' = overlapped /\ UNCHANGED storeVars
  BY DEF EndTask
<1>3. /\ pc'[r] = "idle" /\ ids'[r] = Empty /\ seen'[r] = Empty /\ todo'[r] = {}
      /\ made'[r] = Empty /\ mutated'[r] = FALSE /\ freed'[r] = {} /\ claimed'[r] = {}
      /\ at'[r] = Top /\ found'[r] = Empty
  BY DEF EndTask, Goto, CallTypes
<1>4. /\ Empty \in Maps(Cid, Box) /\ Empty \in Maps(Box, BoxRecord)
      /\ Empty \in Maps(Cid, MadeRecord) /\ Empty \in Maps(Email, SUBSET Box)
  BY EmptyIn
<1>5. CallTypes'
  <2>1. pc' \in [Request -> Pcs] /\ arg' \in [Request -> CallRecord]
    BY DEF EndTask, Goto, CallTypes, Pcs, Over
  <2>2. ids' \in [Request -> Maps(Cid, Box)] /\ seen' \in [Request -> Maps(Box, BoxRecord)]
    BY <1>4 DEF EndTask, CallTypes
  <2>3. made' \in [Request -> Maps(Cid, MadeRecord)] /\ found' \in [Request -> Maps(Email, SUBSET Box)]
    BY <1>4 DEF EndTask, CallTypes
  <2>4. /\ todo' \in [Request -> SUBSET (Cid \cup Box)] /\ mutated' \in [Request -> BOOLEAN]
        /\ freed' \in [Request -> SUBSET (Role \cup {NoRole})]
        /\ claimed' \in [Request -> SUBSET Role] /\ at' \in [Request -> Box \cup {Top}]
        /\ newState' \in [Request -> Nat] /\ balked' \in BOOLEAN
    BY DEF EndTask, CallTypes
  <2> QED BY <2>1, <2>2, <2>3, <2>4 DEF CallTypes
<1> QED BY <1>1, <1>2, <1>3, <1>5

\* The call a spawned task runs.
Spawned(r) ==
  LET c == Current(r)
  IN  IF c.after = 0 THEN c ELSE [c EXCEPT !.ifInState = replies[r][c.after].newState]

LEMMA SpawnFields ==
  ASSUME CallTypes, NEW r \in Request, Spawn(r)
  PROVE  /\ OthersKept(r) /\ UNCHANGED <<storeVars, connVars, applied>>
         /\ seen' = seen /\ todo' = todo /\ made' = made /\ mutated' = mutated
         /\ freed' = freed /\ claimed' = claimed /\ at' = at /\ found' = found
         /\ newState' = newState /\ balked' = balked
         /\ pc[r] = "idle" /\ pc'[r] = "state" /\ arg'[r] = Spawned(r)
         /\ ids'[r] = createdIds[r] /\ conn[r] = "open" /\ Position(r) \in DOMAIN batch[r]
         /\ overlapped' = (overlapped \/ \E q \in Request \ {r} : Running(q))
         /\ ArgsResolve(r, Current(r)) /\ Current(r).known
<1>1. OthersKept(r)
  BY DEF Spawn, Goto, OthersKept, CallTypes
<1>2. pc'[r] = "state" /\ arg'[r] = Spawned(r) /\ ids'[r] = createdIds[r]
  BY DEF Spawn, Goto, Spawned, CallTypes
<1>3. /\ UNCHANGED <<storeVars, connVars, applied>>
      /\ seen' = seen /\ todo' = todo /\ made' = made /\ mutated' = mutated
      /\ freed' = freed /\ claimed' = claimed /\ at' = at /\ found' = found
      /\ newState' = newState /\ balked' = balked
      /\ overlapped' = (overlapped \/ \E q \in Request \ {r} : Running(q))
  BY DEF Spawn
<1>4. /\ pc[r] = "idle" /\ conn[r] = "open" /\ Position(r) \in DOMAIN batch[r]
      /\ ArgsResolve(r, Current(r)) /\ Current(r).known
  BY DEF Spawn, Waiting
<1> QED BY <1>1, <1>2, <1>3, <1>4

\* What fits another request goes on fitting it.
LEMMA OthersFit ==
  ASSUME NEW r \in Request, OthersKept(r), NEW q \in Request \ {r}, FitOf(q),
         conn'[q] = conn[q], batch'[q] = batch[q], replies'[q] = replies[q]
  PROVE  FitOf(q)'
<1>1. /\ pc'[q] = pc[q] /\ todo'[q] = todo[q] /\ made'[q] = made[q]
      /\ mutated'[q] = mutated[q] /\ freed'[q] = freed[q] /\ claimed'[q] = claimed[q]
      /\ arg'[q] = arg[q] /\ ids'[q] = ids[q]
  BY DEF OthersKept
<1> QED BY <1>1 DEF FitOf, Resolves, Known

-----------------------------------------------------------------------------
(* Every step keeps the types.                                             *)

LEMMA InitTyped == Init => TypeInv
<1> SUFFICES ASSUME Init PROVE TypeInv
  OBVIOUS
<1>1. PICK n \in 0 .. MaxBox :
        /\ box \in [1 .. n -> [name : Name, parent : 0 .. n, role : Role \cup {NoRole}]]
        /\ \A b \in 1 .. n : box[b].parent < b
  BY SeedAssumption DEF Init, MailboxesInit
<1>2. n \in Nat /\ n <= MaxBox /\ MaxBox \in Nat
  BY SeedAssumption
<1>3. DOMAIN box = 1 .. n /\ stamp = n /\ minted = n
  <2>1. Cardinality(1 .. n) = n
    BY <1>2, FS_Interval
  <2> QED BY <1>1, <2>1 DEF Init, MailboxesInit
<1>4. StoreTypes
  <2>1. box \in Maps(Box, BoxRecord)
    <3>1. 1 .. n \subseteq Box /\ 0 .. n \subseteq Box \cup {Top}
      BY <1>2 DEF Box, Top
    <3>2. box \in [1 .. n -> BoxRecord]
      BY <1>1, <3>1 DEF BoxRecord
    <3> QED BY <3>1, <3>2, MapsDef, <1>3
  <2>2. filed \in Maps(Email, SUBSET Box)
    <3>1. filed \in [Email -> SUBSET Box]
      BY <1>2, <1>3 DEF Init, MailboxesInit, Box
    <3>2. DOMAIN filed = Email
      BY <3>1
    <3> QED BY <3>1, <3>2, MapsDef
  <2> QED BY <2>1, <2>2, <1>2, <1>3 DEF StoreTypes
<1>5. CallTypes
  <2>1. (CHOOSE c \in Call : TRUE) \in CallRecord
    BY CallAssumption, CallsTyped
  <2>2. pc \in [Request -> Pcs] /\ arg \in [Request -> CallRecord]
    BY <2>1 DEF Init, MailboxesInit, Pcs, Over
  <2>3. ids \in [Request -> Maps(Cid, Box)] /\ seen \in [Request -> Maps(Box, BoxRecord)]
    BY EmptyIn DEF Init, MailboxesInit
  <2>4. made \in [Request -> Maps(Cid, MadeRecord)] /\ found \in [Request -> Maps(Email, SUBSET Box)]
    BY EmptyIn DEF Init, MailboxesInit
  <2>5. /\ todo \in [Request -> SUBSET (Cid \cup Box)] /\ mutated \in [Request -> BOOLEAN]
        /\ freed \in [Request -> SUBSET (Role \cup {NoRole})]
        /\ claimed \in [Request -> SUBSET Role] /\ at \in [Request -> Box \cup {Top}]
        /\ balked \in BOOLEAN
    BY DEF Init, MailboxesInit
  <2>6. newState \in [Request -> Nat]
    BY <1>2, <1>3 DEF Init, MailboxesInit
  <2> QED BY <2>2, <2>3, <2>4, <2>5, <2>6 DEF CallTypes
<1>6. ConnTypes
  <2>1. sent \in [Request -> Maps(Cid, Box)] /\ createdIds \in [Request -> Maps(Cid, Box)]
    BY EmptyIn DEF Init
  <2>2. replies \in [Request -> Seq(Reply)] /\ batch \in [Request -> Batch \cup {<<>>}]
    BY DEF Init
  <2> QED BY <2>1, <2>2 DEF Init, ConnTypes
<1>7. Fits
  <2> SUFFICES ASSUME NEW r \in Request PROVE FitOf(r)
    BY DEF Fits
  <2>1. made[r] = Empty /\ pc[r] = "idle" /\ ~mutated[r] /\ freed[r] = {} /\ claimed[r] = {}
    BY DEF Init, MailboxesInit
  <2>2. replies[r] = <<>> /\ batch[r] = <<>>
    BY DEF Init
  <2> QED BY <2>1, <2>2, EmptyIn DEF FitOf
<1> QED BY <1>4, <1>5, <1>6, <1>7 DEF TypeInv

\* A step of a call: what is to be shown for its own request.
LEMMA StepTyped ==
  ASSUME TypeInv, NEW r \in Request, Step(r) \/ Panic(r),
         UNCHANGED <<connVars, overlapped, applied>>,
         StoreTypes', CallTypes', FitOf(r)'
  PROVE  TypeInv'
<1>1. ConnTypes'
  BY DEF TypeInv, ConnTypes, connVars
<1>2. OthersKept(r)
  BY StepKeepsOthers DEF TypeInv
<1>3. conn' = conn /\ batch' = batch /\ replies' = replies
  BY DEF connVars
<1>4. ASSUME NEW q \in Request \ {r} PROVE FitOf(q)'
  <2>1. FitOf(q)
    BY DEF TypeInv, Fits
  <2> QED BY <1>2, <1>3, <2>1, OthersFit
<1>5. Fits'
  BY <1>4 DEF Fits
<1> QED BY <1>1, <1>5 DEF TypeInv

\* The steps that only move on, read a copy or a state.
LEMMA ReadingTyped ==
  ASSUME TypeInv, NEW r \in Request, UNCHANGED <<connVars, overlapped, applied>>,
         \/ CheckState(r) \/ ListBoxes(r) \/ StartUpdates(r) \/ EndUpdates(r)
         \/ RelistBoxes(r) \/ EndUnfile(r) \/ EndDestroys(r) \/ Finish(r) \/ Panic(r)
  PROVE  TypeInv'
<1>1. Step(r) \/ Panic(r)
  BY DEF Step
<1>2. /\ StoreTypes /\ CallTypes /\ FitOf(r)
  BY DEF TypeInv, Fits
<1>3. StoreTypes'
  <2>1. UNCHANGED storeVars
    BY DEF CheckState, ListBoxes, StartUpdates, EndUpdates, RelistBoxes, EndUnfile,
           EndDestroys, Finish, Panic
  <2> QED BY <1>2, <2>1 DEF StoreTypes, storeVars
<1>4. arg' = arg /\ ids' = ids /\ made' = made
  BY StepKeepsOthers, <1>1, <1>2 DEF CheckState, ListBoxes, StartUpdates, EndUpdates,
     RelistBoxes, EndUnfile, EndDestroys, Finish, Panic
<1>5. conn' = conn /\ batch' = batch /\ replies' = replies
  BY DEF connVars
<1>6. /\ DOMAIN arg[r].create \subseteq Cid /\ DOMAIN arg[r].update \subseteq Box
      /\ arg[r].destroy \subseteq Box
  BY <1>2, ArgTyped DEF CallRecord
<1>. USE <1>2, <1>4, <1>5, <1>6
<1>10. CASE CheckState(r)
  <2>1. CallTypes'
    BY <1>10 DEF CheckState, CallTypes, Goto, StoreTypes, Pcs, Over
  <2>2. FitOf(r)'
    BY <1>10 DEF CheckState, FitOf, Fresh, Goto, CallTypes
  <2> QED BY <1>1, <1>3, <2>1, <2>2, StepTyped
<1>11. CASE ListBoxes(r)
  <2>1. CallTypes'
    BY <1>11 DEF ListBoxes, CallTypes, Goto, StoreTypes, Pcs
  <2>2. FitOf(r)'
    BY <1>11 DEF ListBoxes, FitOf, Fresh, Goto, CallTypes
  <2> QED BY <1>1, <1>3, <2>1, <2>2, StepTyped
<1>12. CASE StartUpdates(r)
  <2>1. CallTypes'
    <3>1. balked' \in BOOLEAN
      BY <1>12 DEF StartUpdates, CallTypes
    <3> QED BY <1>12, <3>1 DEF StartUpdates, CallTypes, Goto, Pcs
  <2>2. FitOf(r)'
    <3>1. pc'[r] = "update"
      BY <1>12 DEF StartUpdates, Goto, CallTypes
    <3>2. ASSUME NEW n \in todo'[r]
          PROVE  n \in DOMAIN arg[r].update /\ Resolves(r, arg[r].update[n].parent)
      BY <1>12 DEF StartUpdates, CallTypes
    <3>3. \A p : Resolves(r, p)' <=> Resolves(r, p)
      BY DEF Resolves, Known
    <3>4. pc[r] = "create" /\ freed' = freed /\ claimed' = claimed /\ mutated' = mutated
      BY <1>12 DEF StartUpdates
    <3> QED BY <3>1, <3>2, <3>3, <3>4 DEF FitOf, Fresh
  <2> QED BY <1>1, <1>3, <2>1, <2>2, StepTyped
<1>13. CASE EndUpdates(r)
  <2>1. CallTypes'
    BY <1>13 DEF EndUpdates, CallTypes, Goto, Pcs, Over
  <2>2. FitOf(r)'
    BY <1>13 DEF EndUpdates, FitOf, Fresh, Goto, CallTypes
  <2> QED BY <1>1, <1>3, <2>1, <2>2, StepTyped
<1>14. CASE RelistBoxes(r)
  <2>1. CallTypes'
    BY <1>14 DEF RelistBoxes, CallTypes, Goto, StoreTypes, Pcs
  <2>2. FitOf(r)'
    BY <1>14 DEF RelistBoxes, FitOf, Fresh, Goto, CallTypes
  <2> QED BY <1>1, <1>3, <2>1, <2>2, StepTyped
<1>15. CASE EndUnfile(r) \/ EndDestroys(r)
  <2>1. CallTypes'
    BY <1>15 DEF EndUnfile, EndDestroys, CallTypes, Goto, Pcs
  <2>2. FitOf(r)'
    BY <1>15 DEF EndUnfile, EndDestroys, FitOf, Fresh, Goto, CallTypes
  <2> QED BY <1>1, <1>3, <2>1, <2>2, StepTyped
<1>16. CASE Finish(r)
  <2>1. CallTypes'
    BY <1>16 DEF Finish, CallTypes, Goto, StoreTypes, Pcs, Over
  <2>2. FitOf(r)'
    BY <1>16 DEF Finish, FitOf, Fresh, Goto, CallTypes
  <2> QED BY <1>1, <1>3, <2>1, <2>2, StepTyped
<1>17. CASE Panic(r)
  <2>1. CallTypes'
    <3>1. balked' \in BOOLEAN
      BY <1>17 DEF Panic, CallTypes
    <3> QED BY <1>17, <3>1 DEF Panic, CallTypes, Goto, Pcs, Over
  <2>2. FitOf(r)'
    BY <1>17 DEF Panic, Running, Over, FitOf, Fresh, Goto, CallTypes
  <2> QED BY <1>1, <1>3, <2>1, <2>2, StepTyped
<1> QED BY <1>10, <1>11, <1>12, <1>13, <1>14, <1>15, <1>16, <1>17

LEMMA CreateTyped ==
  ASSUME TypeInv, NEW r \in Request, NEW k \in Cid, CreateBox(r, k),
         UNCHANGED <<connVars, overlapped, applied>>
  PROVE  TypeInv'
<1>1. Step(r)
  BY DEF Step
<1>2. StoreTypes /\ CallTypes /\ FitOf(r)
  BY DEF TypeInv, Fits
<1>3. arg' = arg /\ ids' = ids
  BY <1>1, <1>2, StepKeepsOthers
<1>4. conn' = conn /\ batch' = batch /\ replies' = replies
  BY DEF connVars
<1>5. k \in todo[r] /\ k \in DOMAIN arg[r].create /\ pc[r] = "create"
  <2>1. k \in Ready(r) /\ pc[r] = "create"
    BY DEF CreateBox
  <2> QED BY <1>2, <2>1 DEF Ready, FitOf
<1>6. arg[r].create[k] \in Creation
  BY <1>2, <1>5, ArgTyped
<1>7. CASE UNCHANGED <<storeVars, made, mutated>>
  <2>1. StoreTypes'
    BY <1>2, <1>7 DEF StoreTypes, storeVars
  <2>2. CallTypes'
    BY <1>2, <1>7 DEF CreateBox, CallTypes
  <2>3. FitOf(r)'
    BY <1>2, <1>3, <1>4, <1>5, <1>7 DEF CreateBox, CallTypes, FitOf, Fresh
  <2> QED BY <1>1, <2>1, <2>2, <2>3, StepTyped
<1>8. CASE ~UNCHANGED <<storeVars, made, mutated>>
  <2> DEFINE item == arg[r].create[k]
             p == Resolved(r, item.parent)
             new == [name |-> item.name, parent |-> p, role |-> item.role]
             done == [id |-> minted + 1, parent |-> p]
  <2>1. /\ Resolves(r, item.parent) /\ minted < MaxBox /\ minted' = minted + 1
        /\ box' = Put(box, minted + 1, new) /\ made' = [made EXCEPT ![r] = Put(@, k, done)]
        /\ stamp' = stamp + 1 /\ mutated' = [mutated EXCEPT ![r] = TRUE] /\ filed' = filed
    BY <1>8 DEF CreateBox
  <2>2. p \in Box \cup {Top}
    BY <1>2, <1>6, <2>1, ResolvedIn DEF Creation
  <2>3. MaxBox \in Nat /\ minted + 1 \in Box
    BY SeedAssumption, <1>2, <2>1 DEF StoreTypes, Box
  <2>4. new \in BoxRecord /\ done \in MadeRecord
    BY <1>6, <2>2, <2>3 DEF Creation, BoxRecord, MadeRecord
  <2> HIDE DEF item, p, new, done
  <2>5. box' \in Maps(Box, BoxRecord) /\ DOMAIN box' = DOMAIN box \cup {minted + 1}
    BY <1>2, <2>1, <2>3, <2>4, PutIn DEF StoreTypes
  <2>6. StoreTypes'
    BY <1>2, <2>1, <2>3, <2>5 DEF StoreTypes
  <2>7. made[r] \in Maps(Cid, MadeRecord)
    BY <1>2 DEF CallTypes
  <2>8. /\ Put(made[r], k, done) \in Maps(Cid, MadeRecord)
        /\ DOMAIN Put(made[r], k, done) = DOMAIN made[r] \cup {k}
    <3> DEFINE f == made[r]
    <3>1. f \in Maps(Cid, MadeRecord) /\ done \in MadeRecord
      BY <2>4, <2>7
    <3> HIDE DEF f
    <3>2. Put(f, k, done) \in Maps(Cid, MadeRecord)
      BY <3>1, PutIn, Zenon
    <3>3. DOMAIN Put(f, k, done) = DOMAIN f \cup {k}
      BY DEF Put
    <3> QED BY <3>2, <3>3 DEF f
  <2>9. CallTypes'
    BY <1>2, <2>1, <2>8 DEF CreateBox, CallTypes
  <2>10. FitOf(r)'
    <3>1. DOMAIN made'[r] = DOMAIN made[r] \cup {k} /\ pc' = pc
      BY <1>2, <2>1, <2>8 DEF CreateBox, CallTypes
    <3>2. todo'[r] = todo[r] \ {k} /\ freed' = freed /\ claimed' = claimed
      BY <1>2 DEF CreateBox, CallTypes
    <3> QED BY <1>2, <1>3, <1>4, <1>5, <3>1, <3>2 DEF FitOf, Fresh
  <2> QED BY <1>1, <2>6, <2>9, <2>10, StepTyped
<1> QED BY <1>7, <1>8

LEMMA UpdateTyped ==
  ASSUME TypeInv, NEW r \in Request, NEW n \in Box, UpdateBox(r, n),
         UNCHANGED <<connVars, overlapped, applied>>
  PROVE  TypeInv'
<1>1. Step(r)
  BY DEF Step
<1>2. StoreTypes /\ CallTypes /\ FitOf(r)
  BY DEF TypeInv, Fits
<1>3. arg' = arg /\ ids' = ids /\ made' = made /\ pc' = pc
  BY DEF UpdateBox
<1>4. conn' = conn /\ batch' = batch /\ replies' = replies
  BY DEF connVars
<1>5. /\ pc[r] = "update" /\ n \in todo[r] /\ n \in DOMAIN arg[r].update
      /\ Resolves(r, arg[r].update[n].parent)
  BY <1>2 DEF UpdateBox, FitOf
<1>6. arg[r].update[n] \in Patch
  BY <1>2, <1>5, ArgTyped
<1>7. todo'[r] = todo[r] \ {n}
  BY <1>2 DEF UpdateBox, CallTypes
<1>8. FitOf(r)'
  <2>1. \A p : Resolves(r, p)' <=> Resolves(r, p)
    BY <1>3 DEF Resolves, Known
  <2> QED BY <1>2, <1>3, <1>4, <1>5, <1>7, <2>1 DEF FitOf, Fresh
<1>9. claimed' \in [Request -> SUBSET Role] /\ todo' \in [Request -> SUBSET (Cid \cup Box)]
  BY <1>2 DEF UpdateBox, CallTypes
<1>10. CASE UNCHANGED storeVars /\ mutated' = mutated /\ freed' = freed
  <2>1. StoreTypes'
    BY <1>2, <1>10 DEF StoreTypes, storeVars
  <2>2. balked' \in BOOLEAN
    BY <1>2 DEF UpdateBox, CallTypes
  <2>3. CallTypes'
    BY <1>2, <1>3, <1>9, <1>10, <2>2 DEF UpdateBox, CallTypes
  <2> QED BY <1>1, <1>8, <2>1, <2>3, StepTyped
<1>11. CASE ~(UNCHANGED storeVars /\ mutated' = mutated /\ freed' = freed)
  <2> DEFINE patch == arg[r].update[n]
             parent == IF patch.parent = Same THEN box[n].parent
                                              ELSE Resolved(r, patch.parent)
             role == IF patch.role = Same THEN box[n].role ELSE patch.role
  <2>1. /\ n \in DOMAIN box /\ box' = [box EXCEPT ![n].parent = parent, ![n].role = role]
        /\ stamp' = stamp + 1 /\ mutated' = [mutated EXCEPT ![r] = TRUE]
        /\ UNCHANGED <<filed, minted, balked>>
    BY <1>11 DEF UpdateBox, storeVars
  <2>2. freed' \in [Request -> SUBSET (Role \cup {NoRole})]
    <3>1. seen[r] \in [DOMAIN seen[r] -> BoxRecord]
      BY <1>2, MapsDef DEF CallTypes
    <3>2. freed' = [freed EXCEPT ![r] = @ \cup
             (IF n \in Vacating(r) \cap DOMAIN seen[r] THEN {seen[r][n].role} ELSE {})]
      BY <1>11 DEF UpdateBox
    <3> QED BY <1>2, <3>1, <3>2 DEF CallTypes, BoxRecord
  <2>3. DOMAIN box \subseteq Box /\ box \in [DOMAIN box -> BoxRecord]
    BY <1>2, MapsDef DEF StoreTypes
  <2>4. box[n] \in BoxRecord
    BY <2>1, <2>3
  <2>5. parent \in Box \cup {Top}
    <3>1. CASE patch.parent = Same
      BY <2>4, <3>1 DEF BoxRecord
    <3>2. CASE patch.parent # Same
      <4>1. patch.parent \in Parent
        BY <1>6, <3>2 DEF Patch
      <4> QED BY <1>2, <1>5, <4>1, <3>2, ResolvedIn
    <3> QED BY <3>1, <3>2
  <2>6. role \in Role \cup {NoRole}
    BY <1>6, <2>4 DEF Patch, BoxRecord
  <2> HIDE DEF parent, role, patch
  <2>7. box' \in [DOMAIN box -> BoxRecord] /\ DOMAIN box' = DOMAIN box
    BY <2>1, <2>3, <2>5, <2>6 DEF BoxRecord
  <2>8. StoreTypes'
    <3>1. box' \in Maps(Box, BoxRecord)
      BY <2>3, <2>7, MapsDef
    <3> QED BY <1>2, <2>1, <2>7, <3>1 DEF StoreTypes
  <2>9. CallTypes'
    BY <1>2, <1>3, <1>9, <2>1, <2>2 DEF UpdateBox, CallTypes
  <2> QED BY <1>1, <1>8, <2>8, <2>9, StepTyped
<1> QED BY <1>10, <1>11

LEMMA DestroyTyped ==
  ASSUME TypeInv, NEW r \in Request, NEW n \in Box, DestroyBox(r, n),
         UNCHANGED <<connVars, overlapped, applied>>
  PROVE  TypeInv'
<1>1. Step(r)
  BY DEF Step
<1>2. StoreTypes /\ CallTypes /\ FitOf(r)
  BY DEF TypeInv, Fits
<1>3. /\ arg' = arg /\ ids' = ids /\ made' = made /\ mutated' = mutated
      /\ freed' = freed /\ claimed' = claimed /\ pc[r] = "destroy"
  BY DEF DestroyBox
<1>4. conn' = conn /\ batch' = batch /\ replies' = replies
  BY DEF connVars
<1>5. StoreTypes'
  BY <1>2 DEF DestroyBox, StoreTypes, storeVars
<1>6. [e \in {e \in DOMAIN filed : n \in filed[e]} |-> {}] \in Maps(Email, SUBSET Box)
  <2>1. DOMAIN filed \subseteq Email
    BY <1>2, MapsDef DEF StoreTypes
  <2> DEFINE S == {e \in DOMAIN filed : n \in filed[e]}
             f == [e \in S |-> {}]
  <2>2. DOMAIN f = S /\ S \subseteq Email /\ f \in [S -> SUBSET Box]
    BY <2>1
  <2> HIDE DEF S, f
  <2>3. f \in Maps(Email, SUBSET Box)
    BY <2>2, MapsDef
  <2> QED BY <2>3 DEF S, f
<1>7. CallTypes'
  <2> DEFINE f == [e \in {e \in DOMAIN filed : n \in filed[e]} |-> {}]
  <2>1. \/ UNCHANGED <<pc, at, found>>
        \/ /\ at' = [at EXCEPT ![r] = n] /\ found' = [found EXCEPT ![r] = f]
           /\ pc' = [pc EXCEPT ![r] = "read"]
    BY DEF DestroyBox, Goto
  <2>2. /\ todo' = [todo EXCEPT ![r] = @ \ {n}]
        /\ UNCHANGED <<seen, newState, balked>>
    BY DEF DestroyBox
  <2>3. f \in Maps(Email, SUBSET Box)
    BY <1>6
  <2> HIDE DEF f
  <2>4. pc' \in [Request -> Pcs]
    BY <1>2, <2>1 DEF CallTypes, Pcs
  <2>5. at' \in [Request -> Box \cup {Top}]
    BY <1>2, <2>1 DEF CallTypes
  <2>6. found' \in [Request -> Maps(Email, SUBSET Box)]
    BY <1>2, <2>1, <2>3 DEF CallTypes
  <2> QED BY <1>2, <1>3, <2>2, <2>4, <2>5, <2>6 DEF CallTypes
<1>8. FitOf(r)'
  <2>1. pc'[r] \in {"destroy", "read"}
    BY <1>2, <1>3 DEF DestroyBox, Goto, CallTypes
  <2> QED BY <1>2, <1>3, <1>4, <2>1 DEF FitOf, Fresh
<1> QED BY <1>1, <1>5, <1>7, <1>8, StepTyped

LEMMA EmailsTyped ==
  ASSUME TypeInv, NEW r \in Request, UNCHANGED <<connVars, overlapped, applied>>,
         ReadEmails(r) \/ RemoveEmails(r) \/ \E e \in Email : Unfile(r, e)
  PROVE  TypeInv'
<1>1. Step(r)
  BY DEF Step
<1>2. StoreTypes /\ CallTypes /\ FitOf(r)
  BY DEF TypeInv, Fits
<1>3. /\ arg' = arg /\ ids' = ids /\ made' = made /\ mutated' = mutated
      /\ freed' = freed /\ claimed' = claimed /\ pc[r] \in {"read", "remove", "unfile"}
  BY DEF ReadEmails, RemoveEmails, Unfile
<1>4. conn' = conn /\ batch' = batch /\ replies' = replies
  BY DEF connVars
<1>5. FitOf(r)'
  <2>1. pc'[r] \in {"destroy", "drop", "remove", "unfile"}
    BY <1>2, <1>3 DEF ReadEmails, RemoveEmails, Unfile, Goto, CallTypes
  <2> QED BY <1>2, <1>3, <1>4, <2>1 DEF FitOf, Fresh
<1>6. /\ DOMAIN filed \subseteq Email /\ filed \in [DOMAIN filed -> SUBSET Box]
      /\ DOMAIN found[r] \subseteq Email /\ found[r] \in [DOMAIN found[r] -> SUBSET Box]
      /\ filed \in Maps(Email, SUBSET Box) /\ found[r] \in Maps(Email, SUBSET Box)
  BY <1>2, MapsDef DEF StoreTypes, CallTypes
<1>7. CASE ReadEmails(r)
  <2> DEFINE S == {e \in DOMAIN found[r] \cap DOMAIN filed : at[r] \in filed[e]}
  <2>1. S \subseteq DOMAIN filed
    OBVIOUS
  <2>2. /\ pc' = [pc EXCEPT ![r] = IF S = {} THEN "drop"
                                   ELSE IF arg[r].removeEmails THEN "remove" ELSE "destroy"]
        /\ found' = [found EXCEPT ![r] = [e \in S |-> filed[e]]]
    BY <1>7 DEF ReadEmails, Goto
  <2> HIDE DEF S
  <2>3. [e \in S |-> filed[e]] \in Maps(Email, SUBSET Box)
    BY <1>6, <2>1, CutIn
  <2>4. CallTypes'
    BY <1>2, <1>7, <2>2, <2>3 DEF ReadEmails, CallTypes, Pcs
  <2>5. StoreTypes'
    BY <1>2, <1>7 DEF ReadEmails, StoreTypes, storeVars
  <2> QED BY <1>1, <1>5, <2>4, <2>5, StepTyped
<1>8. CASE RemoveEmails(r)
  <2> DEFINE S == DOMAIN filed \ Only(r)
             T == DOMAIN found[r] \ Only(r)
  <2>1. S \subseteq DOMAIN filed /\ T \subseteq DOMAIN found[r]
    OBVIOUS
  <2>2. /\ filed' = [e \in S |-> filed[e]] /\ pc' = [pc EXCEPT ![r] = "unfile"]
        /\ found' = [found EXCEPT ![r] = [e \in T |-> found[r][e]]]
    BY <1>2, <1>8 DEF RemoveEmails, Goto, CallTypes
  <2> HIDE DEF S, T
  <2>3. [e \in S |-> filed[e]] \in Maps(Email, SUBSET Box)
    BY <1>6, <2>1, CutIn
  <2>4. [e \in T |-> found[r][e]] \in Maps(Email, SUBSET Box)
    <3> DEFINE f == found[r]
    <3>1. f \in Maps(Email, SUBSET Box) /\ T \subseteq DOMAIN f
      BY <1>6, <2>1
    <3> HIDE DEF f
    <3>2. [e \in T |-> f[e]] \in Maps(Email, SUBSET Box)
      BY <3>1, CutIn
    <3> QED BY <3>2 DEF f
  <2>5. CallTypes'
    BY <1>2, <1>8, <2>2, <2>4 DEF RemoveEmails, CallTypes, Pcs
  <2>6. StoreTypes'
    BY <1>2, <1>8, <2>2, <2>3 DEF RemoveEmails, StoreTypes
  <2> QED BY <1>1, <1>5, <2>5, <2>6, StepTyped
<1>9. ASSUME NEW e \in Email, Unfile(r, e) PROVE TypeInv'
  <2> DEFINE T == DOMAIN found[r] \ {e}
             f == [x \in DOMAIN filed |-> IF x = e THEN filed[x] \ {at[r]} ELSE filed[x]]
  <2>1. T \subseteq DOMAIN found[r]
    OBVIOUS
  <2>2. filed' = f /\ found' = [found EXCEPT ![r] = [x \in T |-> found[r][x]]]
    BY <1>2, <1>9 DEF Unfile, CallTypes
  <2>3. f \in [DOMAIN filed -> SUBSET Box] /\ DOMAIN f = DOMAIN filed
    BY <1>6
  <2> HIDE DEF T, f
  <2>4. f \in Maps(Email, SUBSET Box)
    BY <1>6, <2>3, MapsDef
  <2>5. [x \in T |-> found[r][x]] \in Maps(Email, SUBSET Box)
    <3> DEFINE g == found[r]
    <3>1. g \in Maps(Email, SUBSET Box) /\ T \subseteq DOMAIN g
      BY <1>6, <2>1
    <3> HIDE DEF g
    <3>2. [x \in T |-> g[x]] \in Maps(Email, SUBSET Box)
      BY <3>1, CutIn
    <3> QED BY <3>2 DEF g
  <2>6. CallTypes'
    <3> DEFINE g == [x \in T |-> found[r][x]]
    <3>1. found' = [found EXCEPT ![r] = g] /\ g \in Maps(Email, SUBSET Box)
      BY <2>2, <2>5
    <3> HIDE DEF g
    <3>2. found' \in [Request -> Maps(Email, SUBSET Box)]
      BY <1>2, <3>1 DEF CallTypes
    <3>3. UNCHANGED <<pc, seen, todo, at, newState, balked>>
      BY <1>9 DEF Unfile
    <3> QED BY <1>2, <1>3, <3>2, <3>3 DEF CallTypes
  <2>7. StoreTypes'
    BY <1>2, <1>9, <2>2, <2>4 DEF Unfile, StoreTypes
  <2> QED BY <1>1, <1>5, <2>6, <2>7, StepTyped
<1> QED BY <1>7, <1>8, <1>9

LEMMA DropTyped ==
  ASSUME TypeInv, NEW r \in Request, DropBox(r), UNCHANGED <<connVars, overlapped, applied>>
  PROVE  TypeInv'
<1>1. Step(r)
  BY DEF Step
<1>2. StoreTypes /\ CallTypes /\ FitOf(r)
  BY DEF TypeInv, Fits
<1>3. /\ arg' = arg /\ ids' = ids /\ made' = made /\ filed' = filed /\ minted' = minted
      /\ freed' = freed /\ claimed' = claimed /\ pc[r] = "drop"
  BY DEF DropBox
<1>4. conn' = conn /\ batch' = batch /\ replies' = replies
  BY DEF connVars
<1>5. FitOf(r)'
  <2>1. pc'[r] = "destroy"
    BY <1>2 DEF DropBox, Goto, CallTypes
  <2> QED BY <1>2, <1>3, <1>4, <2>1 DEF FitOf, Fresh
<1>6. CASE at[r] \in DOMAIN box
  <2> DEFINE S == DOMAIN box \ {at[r]}
             T == DOMAIN seen[r] \ {at[r]}
             f == seen[r]
             g == [b \in T |-> f[b]]
             h == [b \in S |-> box[b]]
  <2>1. /\ box' = h /\ stamp' = stamp + 1 /\ mutated' = [mutated EXCEPT ![r] = TRUE]
        /\ seen' = [seen EXCEPT ![r] = g]
    BY <1>2, <1>6 DEF DropBox, CallTypes
  <2>2. /\ S \subseteq DOMAIN box /\ T \subseteq DOMAIN f /\ DOMAIN h = S
        /\ f \in Maps(Box, BoxRecord) /\ box \in Maps(Box, BoxRecord)
    BY <1>2 DEF CallTypes, StoreTypes
  <2> HIDE DEF S, T, f
  <2>3. g \in Maps(Box, BoxRecord) /\ h \in Maps(Box, BoxRecord)
    BY <2>2, CutIn
  <2> HIDE DEF g, h
  <2>4. StoreTypes'
    BY <1>2, <1>3, <2>1, <2>2, <2>3 DEF StoreTypes
  <2>5. CallTypes'
    BY <1>2, <2>1, <2>3 DEF DropBox, Goto, Pcs, CallTypes
  <2> QED BY <1>1, <1>5, <2>4, <2>5, StepTyped
<1>7. CASE at[r] \notin DOMAIN box
  <2>1. UNCHANGED <<box, stamp, seen, mutated>>
    BY <1>7 DEF DropBox
  <2>2. StoreTypes'
    BY <1>2, <1>3, <2>1 DEF StoreTypes
  <2>3. CallTypes'
    BY <1>2, <2>1 DEF DropBox, Goto, Pcs, CallTypes
  <2> QED BY <1>1, <1>5, <2>2, <2>3, StepTyped
<1> QED BY <1>6, <1>7

LEMMA CallTyped ==
  ASSUME TypeInv, NEW r \in Request, CallStep(r) \/ CallPanic(r)
  PROVE  TypeInv'
<1>1. UNCHANGED <<connVars, overlapped, applied>> /\ (Step(r) \/ Panic(r))
  BY DEF CallStep, CallPanic
<1> QED BY <1>1, ReadingTyped, CreateTyped, UpdateTyped, DestroyTyped, EmailsTyped, DropTyped
        DEF Step

LEMMA SpawnTyped ==
  ASSUME TypeInv, NEW r \in Request, Spawn(r)
  PROVE  TypeInv'
<1>1. StoreTypes /\ CallTypes /\ ConnTypes /\ FitOf(r)
  BY DEF TypeInv, Fits
<1>2. /\ OthersKept(r) /\ UNCHANGED <<storeVars, connVars, applied>>
      /\ seen' = seen /\ todo' = todo /\ made' = made /\ mutated' = mutated
      /\ freed' = freed /\ claimed' = claimed /\ at' = at /\ found' = found
      /\ newState' = newState /\ balked' = balked
      /\ pc[r] = "idle" /\ pc'[r] = "state" /\ arg'[r] = Spawned(r)
      /\ ids'[r] = createdIds[r] /\ conn[r] = "open" /\ Position(r) \in DOMAIN batch[r]
      /\ overlapped' = (overlapped \/ \E q \in Request \ {r} : Running(q))
      /\ ArgsResolve(r, Current(r)) /\ Current(r).known
  BY <1>1, SpawnFields
<1>3. Spawned(r) \in CallRecord
  <2> DEFINE c == Current(r)
  <2>1. batch[r] \in Batch
    BY <1>1, <1>2 DEF ConnTypes
  <2>2. batch[r] \in Seq(Call) /\ \A i \in DOMAIN batch[r] : batch[r][i].after < i
    BY <2>1, CallsTyped
  <2>3. c \in Call /\ c.after < Position(r)
    BY <1>2, <2>2 DEF Current
  <2>4. c \in CallRecord
    BY <2>3, CallsTyped
  <2>5. CASE c.after = 0
    BY <2>4, <2>5 DEF Spawned
  <2>6. CASE c.after # 0
    <3>1. c.after \in Nat /\ replies[r] \in Seq(Reply) /\ c.after \in 1 .. Len(replies[r])
      BY <1>1, <2>3, <2>4, <2>6 DEF ConnTypes, Position, CallRecord
    <3>2. replies[r][c.after] \in Reply
      BY <3>1
    <3> DEFINE s == replies[r][c.after].newState
    <3>3. s \in Nat \cup {NoState}
      BY <3>2 DEF Reply
    <3>4. Spawned(r) = [c EXCEPT !.ifInState = s]
      BY <2>6 DEF Spawned
    <3> HIDE DEF s, c
    <3>5. [c EXCEPT !.ifInState = s] \in CallRecord
      BY <2>4, <3>3 DEF CallRecord
    <3> QED BY <3>4, <3>5
  <2> QED BY <2>5, <2>6
<1>4. StoreTypes'
  BY <1>1, <1>2 DEF StoreTypes, storeVars
<1>5. ConnTypes'
  <2>1. overlapped' \in BOOLEAN
    BY <1>1, <1>2 DEF ConnTypes
  <2> QED BY <1>1, <1>2, <2>1 DEF ConnTypes, connVars
<1>6. CallTypes'
  <2>1. pc' \in [Request -> Pcs]
    BY <1>1, <1>2 DEF Spawn, Goto, CallTypes, Pcs
  <2>2. arg' \in [Request -> CallRecord]
    <3>1. arg' = [arg EXCEPT ![r] = Spawned(r)]
      BY DEF Spawn, Spawned
    <3> QED BY <1>1, <1>3, <3>1 DEF CallTypes
  <2>3. ids' \in [Request -> Maps(Cid, Box)]
    BY <1>1 DEF Spawn, CallTypes, ConnTypes
  <2> QED BY <1>1, <1>2, <2>1, <2>2, <2>3 DEF CallTypes
<1>7. Fits'
  <2>1. conn' = conn /\ batch' = batch /\ replies' = replies
    BY <1>2 DEF connVars
  <2>2. ASSUME NEW q \in Request \ {r} PROVE FitOf(q)'
    <3>1. FitOf(q)
      BY DEF TypeInv, Fits
    <3> QED BY <1>2, <2>1, <3>1, OthersFit
  <2>3. FitOf(r)'
    <3>1. /\ made[r] = Empty /\ ~mutated[r] /\ freed[r] = {} /\ claimed[r] = {}
          /\ Len(replies[r]) <= Len(batch[r])
      BY <1>1, <1>2 DEF FitOf, Fresh
    <3>2. DOMAIN made[r] = {}
      BY <3>1, EmptyIn
    <3>3. Len(replies[r]) < Len(batch[r])
      <4>1. batch[r] \in Seq(Call)
        BY <1>1, <1>2, CallsTyped DEF ConnTypes
      <4>2. replies[r] \in Seq(Reply)
        BY <1>1 DEF ConnTypes
      <4> QED BY <1>2, <4>1, <4>2 DEF Position
    <3> QED BY <1>2, <2>1, <3>1, <3>2, <3>3 DEF FitOf, Fresh
  <2> QED BY <2>2, <2>3 DEF Fits
<1> QED BY <1>4, <1>5, <1>6, <1>7 DEF TypeInv

\* A batch as long as its request's answers and its end.
LEMMA BatchTyped ==
  ASSUME ConnTypes, NEW r \in Request
  PROVE  /\ replies[r] \in Seq(Reply) /\ Len(replies[r]) \in Nat
         /\ batch[r] \in Seq(Call) /\ Len(batch[r]) \in Nat
<1>1. replies[r] \in Seq(Reply) /\ batch[r] \in Batch \cup {<<>>}
  BY DEF ConnTypes
<1>2. batch[r] \in Seq(Call)
  <2>1. CASE batch[r] \in Batch
    BY <2>1, CallsTyped
  <2>2. CASE batch[r] = <<>>
    BY <2>2
  <2> QED BY <1>1, <2>1, <2>2
<1> QED BY <1>1, <1>2

\* The steps of the dispatcher that leave the calls alone.
LEMMA ConnTyped ==
  ASSUME TypeInv, NEW r \in Request,
         \/ \E b \in Batch, f \in Sent : Send(r, b, f)
         \/ RefuseCall(r) \/ Answer(r) \/ Drop(r)
  PROVE  TypeInv'
<1>1. StoreTypes /\ CallTypes /\ ConnTypes /\ FitOf(r)
  BY DEF TypeInv, Fits
<1>2. UNCHANGED <<storeVars, callVars, overlapped, applied>>
  BY DEF Send, RefuseCall, Answer, Drop
<1>3. StoreTypes' /\ CallTypes'
  BY <1>1, <1>2 DEF StoreTypes, CallTypes, storeVars, callVars
<1>4. OthersKept(r)
  BY <1>2 DEF OthersKept, callVars
<1>5. /\ pc'[r] = pc[r] /\ todo'[r] = todo[r] /\ made'[r] = made[r]
      /\ mutated'[r] = mutated[r] /\ freed'[r] = freed[r] /\ claimed'[r] = claimed[r]
      /\ arg'[r] = arg[r] /\ ids'[r] = ids[r]
  BY <1>2 DEF callVars
<1>6. ASSUME ConnTypes',
             \A q \in Request \ {r} : /\ conn'[q] = conn[q] /\ batch'[q] = batch[q]
                                      /\ replies'[q] = replies[q],
             /\ Len(replies[r])' <= Len(batch[r])'
             /\ pc[r] # "idle" => Len(replies[r])' < Len(batch[r])'
                                  /\ conn'[r] \in {"open", "dropped"}
             /\ conn'[r] = "none" => replies'[r] = <<>>
      PROVE  TypeInv'
  <2>1. ASSUME NEW q \in Request \ {r} PROVE FitOf(q)'
    <3>1. FitOf(q)
      BY DEF TypeInv, Fits
    <3> QED BY <1>4, <1>6, <3>1, OthersFit
  <2>2. FitOf(r)'
    <3>1. \A p : Resolves(r, p)' <=> Resolves(r, p)
      BY <1>5 DEF Resolves, Known
    <3> QED BY <1>1, <1>5, <1>6, <3>1 DEF FitOf
  <2> QED BY <1>3, <1>6, <2>1, <2>2 DEF TypeInv, Fits
<1>7. ASSUME NEW b \in Batch, NEW f \in Sent, Send(r, b, f) PROVE TypeInv'
  <2>1. ConnTypes'
    <3>1. f \in Maps(Cid, Box)
      BY CallsTyped
    <3> QED BY <1>1, <1>7, <3>1 DEF Send, ConnTypes
  <2>2. \A q \in Request \ {r} : /\ conn'[q] = conn[q] /\ batch'[q] = batch[q]
                                 /\ replies'[q] = replies[q]
    BY <1>1, <1>7 DEF Send, ConnTypes
  <2>3. conn[r] = "none" /\ conn'[r] = "open" /\ batch'[r] = b /\ replies'[r] = <<>>
    BY <1>1, <1>7 DEF Send, ConnTypes, FitOf
  <2>4. pc[r] = "idle"
    BY <1>1, <2>3 DEF FitOf
  <2>5. Len(b) \in Nat
    BY CallsTyped
  <2> QED BY <1>6, <2>1, <2>2, <2>3, <2>4, <2>5
<1>8. CASE RefuseCall(r)
  <2>1. Answered(FALSE, Empty, NoState) \in Reply
    <3>1. Empty \in Maps(Cid, Box)
      BY EmptyIn
    <3> QED BY <3>1 DEF Answered, Reply
  <2>2. ConnTypes'
    <3> DEFINE a == Answered(FALSE, Empty, NoState)
    <3>1. /\ replies' = [replies EXCEPT ![r] = Append(@, a)] /\ a \in Reply
          /\ UNCHANGED <<conn, batch, sent, createdIds, overlapped, applied>>
      BY <1>8, <2>1 DEF RefuseCall
    <3> HIDE DEF a
    <3>2. replies' \in [Request -> Seq(Reply)]
      BY <1>1, <3>1 DEF ConnTypes
    <3> QED BY <1>1, <3>1, <3>2 DEF ConnTypes
  <2>3. \A q \in Request \ {r} : /\ conn'[q] = conn[q] /\ batch'[q] = batch[q]
                                 /\ replies'[q] = replies[q]
    BY <1>1, <1>8 DEF RefuseCall, ConnTypes
  <2>4. /\ pc[r] = "idle" /\ Position(r) \in DOMAIN batch[r] /\ conn'[r] = "open"
        /\ batch'[r] = batch[r]
    BY <1>1, <1>8 DEF RefuseCall, Waiting
  <2>5. Len(replies[r])' = Len(replies[r]) + 1
    <3>1. replies'[r] = Append(replies[r], Answered(FALSE, Empty, NoState))
      BY <1>1, <1>8 DEF RefuseCall, ConnTypes
    <3> QED BY <1>1, <2>1, <3>1, BatchTyped
  <2>6. Len(replies[r]) + 1 <= Len(batch[r])
    BY <1>1, <2>4, BatchTyped DEF Position
  <2> QED BY <1>6, <2>2, <2>3, <2>4, <2>5, <2>6
<1>9. CASE Answer(r) \/ Drop(r)
  <2>1. ConnTypes'
    BY <1>1, <1>9 DEF Answer, Drop, ConnTypes
  <2>2. /\ batch' = batch /\ replies' = replies /\ conn[r] = "open"
        /\ \A q \in Request \ {r} : conn'[q] = conn[q]
    BY <1>1, <1>9 DEF Answer, Drop, ConnTypes
  <2>3. conn'[r] \in {"answered", "dropped"}
    BY <1>1, <1>9 DEF Answer, Drop, ConnTypes
  <2>4. pc[r] # "idle" => conn'[r] = "dropped"
    <3>1. pc[r] # "idle" => Len(replies[r]) < Len(batch[r])
      BY <1>1 DEF FitOf
    <3>2. Answer(r) => Len(replies[r]) + 1 > Len(batch[r])
      BY DEF Answer, Position
    <3>3. Drop(r) => conn'[r] = "dropped"
      BY <1>1 DEF Drop, ConnTypes
    <3> QED BY <1>1, <1>9, <3>1, <3>2, <3>3, BatchTyped
  <2> QED BY <1>1, <1>6, <2>1, <2>2, <2>3, <2>4 DEF FitOf
<1> QED BY <1>7, <1>8, <1>9

LEMMA ListedIn ==
  ASSUME NEW f \in Maps(Cid, Box), NEW g \in Maps(Cid, Box)
  PROVE  /\ Listed(f, g) \in Maps(Cid, Box) /\ DOMAIN Listed(f, g) = DOMAIN f \cup DOMAIN g
         /\ \A p \in DOMAIN g : Listed(f, g)[p] = g[p]
         /\ \A p \in DOMAIN f \ DOMAIN g : Listed(f, g)[p] = f[p]
<1>1. /\ DOMAIN f \subseteq Cid /\ f \in [DOMAIN f -> Box]
      /\ DOMAIN g \subseteq Cid /\ g \in [DOMAIN g -> Box]
  BY MapsDef
<1>2. /\ Listed(f, g) \in [DOMAIN f \cup DOMAIN g -> Box]
      /\ DOMAIN Listed(f, g) = DOMAIN f \cup DOMAIN g
  BY <1>1 DEF Listed
<1>3. /\ \A p \in DOMAIN g : Listed(f, g)[p] = g[p]
      /\ \A p \in DOMAIN f \ DOMAIN g : Listed(f, g)[p] = f[p]
  BY DEF Listed
<1> QED BY <1>1, <1>2, <1>3, MapsDef

LEMMA MadeIn ==
  ASSUME CallTypes, NEW r \in Request
  PROVE  /\ Made(r) \in Maps(Cid, Box) /\ DOMAIN Made(r) = DOMAIN made[r]
         /\ \A p \in DOMAIN made[r] : Made(r)[p] = made[r][p].id
<1>1. DOMAIN made[r] \subseteq Cid /\ made[r] \in [DOMAIN made[r] -> MadeRecord]
  BY MapsDef DEF CallTypes
<1>2. /\ Made(r) \in [DOMAIN made[r] -> Box] /\ DOMAIN Made(r) = DOMAIN made[r]
      /\ \A p \in DOMAIN made[r] : Made(r)[p] = made[r][p].id
  BY <1>1 DEF Made, MadeRecord
<1> QED BY <1>1, <1>2, MapsDef

\* What Collect appends to the answers and makes of the creation ids.
Outcome(r) ==
  IF pc[r] = "done" THEN Answered(TRUE, Made(r), newState[r]) ELSE Answered(FALSE, Empty, NoState)

LEMMA CollectFields ==
  ASSUME TypeInv, NEW r \in Request, Collect(r)
  PROVE  /\ EndTask(r) /\ conn[r] = "open" /\ pc[r] \in {"done", "failed", "panicked"}
         /\ conn' = conn /\ batch' = batch /\ sent' = sent
         /\ Outcome(r) \in Reply /\ replies' = [replies EXCEPT ![r] = Append(@, Outcome(r))]
         /\ createdIds' = [createdIds EXCEPT ![r] = IF pc[r] = "done" THEN Listed(@, Made(r)) ELSE @]
         /\ ConnTypes'
<1>1. CallTypes /\ ConnTypes
  BY DEF TypeInv
<1>2. /\ EndTask(r) /\ conn[r] = "open" /\ pc[r] \in {"done", "failed", "panicked"}
      /\ conn' = conn /\ batch' = batch /\ sent' = sent
      /\ replies' = [replies EXCEPT ![r] = Append(@, Outcome(r))]
      /\ createdIds' = [createdIds EXCEPT ![r] = IF pc[r] = "done" THEN Listed(@, Made(r)) ELSE @]
  BY DEF Collect, Outcome
<1>3. Outcome(r) \in Reply
  <2>1. Made(r) \in Maps(Cid, Box) /\ newState[r] \in Nat /\ Empty \in Maps(Cid, Box)
    BY <1>1, MadeIn, EmptyIn DEF CallTypes
  <2> QED BY <2>1 DEF Outcome, Answered, Reply
<1>4. createdIds' \in [Request -> Maps(Cid, Box)]
  <2> DEFINE l == Listed(createdIds[r], Made(r))
  <2>1. l \in Maps(Cid, Box)
    BY <1>1, MadeIn, ListedIn DEF ConnTypes
  <2>2. createdIds' = [createdIds EXCEPT ![r] = IF pc[r] = "done" THEN l ELSE @]
    BY <1>1, <1>2 DEF ConnTypes
  <2> HIDE DEF l
  <2> QED BY <1>1, <2>1, <2>2 DEF ConnTypes
<1>5. replies' \in [Request -> Seq(Reply)]
  BY <1>1, <1>2, <1>3 DEF ConnTypes
<1>6. overlapped' = overlapped
  BY <1>2 DEF EndTask
<1>7. applied' \subseteq [request : Request, call : Nat, state : Nat]
  <2>1. arg[r].ifInState # NoState => arg[r].ifInState \in Nat
    BY <1>1, ArgTyped DEF CallRecord
  <2>2. Position(r) \in Nat
    BY <1>1, BatchTyped DEF Position
  <2> QED BY <1>1, <1>2, <2>1, <2>2 DEF EndTask, ConnTypes
<1> QED BY <1>1, <1>2, <1>3, <1>4, <1>5, <1>6, <1>7 DEF ConnTypes

\* The end of a task, collected or not.
LEMMA EndTyped ==
  ASSUME TypeInv, NEW r \in Request, Collect(r) \/ Detached(r)
  PROVE  TypeInv'
<1>1. StoreTypes /\ CallTypes /\ ConnTypes /\ FitOf(r)
  BY DEF TypeInv, Fits
<1>2. EndTask(r) /\ pc[r] # "idle" /\ conn[r] # "none" /\ conn' = conn /\ batch' = batch
  BY CollectFields DEF Detached, connVars
<1>3. /\ OthersKept(r) /\ arg' = arg /\ UNCHANGED storeVars /\ CallTypes'
      /\ pc'[r] = "idle" /\ made'[r] = Empty /\ mutated'[r] = FALSE /\ freed'[r] = {}
      /\ claimed'[r] = {} /\ overlapped' = overlapped
  BY <1>1, <1>2, EndTaskFields
<1>4. StoreTypes'
  BY <1>1, <1>3 DEF StoreTypes, storeVars
<1>5. applied' \subseteq [request : Request, call : Nat, state : Nat]
  <2>1. arg[r].ifInState # NoState => arg[r].ifInState \in Nat
    BY <1>1, ArgTyped DEF CallRecord
  <2>2. Position(r) \in Nat
    BY <1>1, BatchTyped DEF Position
  <2> QED BY <1>1, <1>2, <2>1, <2>2 DEF EndTask, ConnTypes
<1>6. ConnTypes'
  <2>1. CASE Collect(r)
    BY <2>1, CollectFields
  <2>2. CASE Detached(r)
    <3>1. UNCHANGED connVars
      BY <2>2 DEF Detached
    <3> QED BY <1>1, <1>3, <1>5, <3>1 DEF ConnTypes, connVars
  <2> QED BY <2>1, <2>2
<1>7. \A q \in Request \ {r} : replies'[q] = replies[q]
  BY <1>1, CollectFields DEF Detached, connVars, ConnTypes
<1>8. Len(replies[r])' <= Len(batch[r])'
  <2>1. Len(replies[r]) < Len(batch[r])
    BY <1>1, <1>2 DEF FitOf
  <2>2. CASE Collect(r)
    <3>1. replies'[r] = Append(replies[r], Outcome(r)) /\ Outcome(r) \in Reply
      BY <1>1, <2>2, CollectFields DEF ConnTypes
    <3>2. Len(replies[r])' = Len(replies[r]) + 1
      BY <1>1, <3>1, BatchTyped
    <3> QED BY <1>1, <1>2, <2>1, <3>2, BatchTyped
  <2>3. CASE Detached(r)
    BY <1>1, <1>2, <2>1, <2>3, BatchTyped DEF Detached, connVars
  <2> QED BY <2>2, <2>3
<1>9. FitOf(r)'
  <2>1. DOMAIN made'[r] = {}
    BY <1>3, EmptyIn
  <2> QED BY <1>2, <1>3, <1>8, <2>1 DEF FitOf, Fresh
<1>10. ASSUME NEW q \in Request \ {r} PROVE FitOf(q)'
  <2>1. FitOf(q)
    BY DEF TypeInv, Fits
  <2> QED BY <1>2, <1>3, <1>7, <2>1, OthersFit
<1> QED BY <1>3, <1>4, <1>6, <1>9, <1>10 DEF TypeInv, Fits

LEMMA NextTyped == TypeInv /\ [Next]_vars => TypeInv'
<1> SUFFICES ASSUME TypeInv, [Next]_vars PROVE TypeInv'
  OBVIOUS
<1>1. CASE UNCHANGED vars
  BY <1>1 DEF vars, storeVars, callVars, connVars, TypeInv, StoreTypes, CallTypes, ConnTypes,
     Fits, FitOf, Resolves, Known
<1>2. ASSUME NEW r \in Request,
             \/ \E b \in Batch, f \in Sent : Send(r, b, f)
             \/ RefuseCall(r) \/ Spawn(r) \/ CallStep(r) \/ CallPanic(r)
             \/ Collect(r) \/ Answer(r) \/ Drop(r) \/ Detached(r)
      PROVE  TypeInv'
  BY <1>2, ConnTyped, SpawnTyped, CallTyped, EndTyped
<1> QED BY <1>1, <1>2 DEF Next

LEMMA TypeInvImplies == TypeInv => TypeOK
<1> SUFFICES ASSUME TypeInv PROVE TypeOK
  OBVIOUS
<1>1. StoreTypes /\ CallTypes /\ ConnTypes /\ Fits
  BY DEF TypeInv
<1>2. DOMAIN box \subseteq Box /\ box \in [DOMAIN box -> BoxRecord]
  BY <1>1, MapsDef DEF StoreTypes
<1>3. DOMAIN filed \subseteq Email /\ filed \in [DOMAIN filed -> SUBSET Box]
  BY <1>1, MapsDef DEF StoreTypes
<1>4. ASSUME NEW r \in Request
      PROVE  /\ DOMAIN createdIds[r] \subseteq Cid /\ Range(createdIds[r]) \subseteq Box
             /\ DOMAIN made[r] \subseteq DOMAIN arg[r].create
             /\ freed[r] \cup claimed[r] \subseteq Role \cup {NoRole}
             /\ Len(replies[r]) <= Len(batch[r])
             /\ Running(r) => conn[r] \in {"open", "dropped"}
  <2>1. DOMAIN createdIds[r] \subseteq Cid /\ createdIds[r] \in [DOMAIN createdIds[r] -> Box]
    BY <1>1, MapsDef DEF ConnTypes
  <2>2. Range(createdIds[r]) \subseteq Box
    BY <2>1 DEF Range
  <2>3. freed[r] \cup claimed[r] \subseteq Role \cup {NoRole}
    BY <1>1 DEF CallTypes
  <2> QED BY <1>1, <2>1, <2>2, <2>3 DEF Fits, FitOf, Running, Over
<1> QED BY <1>1, <1>2, <1>3, <1>4 DEF TypeOK, StoreTypes, CallTypes, ConnTypes, BoxRecord

\* Whatever the calls ask for, and however their steps, panics and requests
\* interleave, what the handler stores, holds and answers has its type.
THEOREM Typing == Spec => []TypeOK
<1>1. Init => TypeInv
  BY InitTyped
<1>2. TypeInv /\ [Next]_vars => TypeInv'
  BY NextTyped
<1>3. TypeInv => TypeOK
  BY TypeInvImplies
<1> QED BY <1>1, <1>2, <1>3, PTL DEF Spec

-----------------------------------------------------------------------------
(* Calls that do not overlap run alone.                                    *)

\* The steps of the dispatcher and of the tasks that write no mailbox and no
\* email.
Quiet(r) ==
  \/ \E b \in Batch, f \in Sent : Send(r, b, f)
  \/ RefuseCall(r) \/ Spawn(r) \/ CallPanic(r)
  \/ Collect(r) \/ Answer(r) \/ Drop(r) \/ Detached(r)

LEMMA NextCases ==
  ASSUME [Next]_vars
  PROVE  UNCHANGED vars \/ \E r \in Request : Quiet(r) \/ CallStep(r)
BY DEF Next, Quiet

LEMMA QuietKeeps ==
  ASSUME TypeInv, NEW r \in Request, Quiet(r)
  PROVE  /\ UNCHANGED storeVars /\ OthersKept(r) /\ (overlapped => overlapped')
         /\ \/ UNCHANGED <<callVars, overlapped>>
            \/ pc'[r] \in {"idle", "panicked"} /\ overlapped' = overlapped
            \/ Spawn(r)
<1>1. CallTypes
  BY DEF TypeInv
<1>2. CASE (\E b \in Batch, f \in Sent : Send(r, b, f)) \/ RefuseCall(r) \/ Answer(r) \/ Drop(r)
  <2>1. UNCHANGED <<storeVars, callVars, overlapped>>
    BY <1>2 DEF Send, RefuseCall, Answer, Drop
  <2> QED BY <2>1 DEF OthersKept, callVars
<1>3. CASE Spawn(r)
  BY <1>1, <1>3, SpawnFields
<1>4. CASE CallPanic(r)
  <2>1. Panic(r) /\ overlapped' = overlapped
    BY <1>4 DEF CallPanic
  <2>2. UNCHANGED storeVars /\ pc'[r] = "panicked"
    BY <1>1, <2>1 DEF Panic, Goto, CallTypes
  <2> QED BY <1>1, <2>1, <2>2, StepKeepsOthers
<1>5. CASE Collect(r) \/ Detached(r)
  <2>1. EndTask(r)
    BY <1>5 DEF Collect, Detached
  <2> QED BY <1>1, <2>1, EndTaskFields
<1> QED BY <1>2, <1>3, <1>4, <1>5 DEF Quiet

LEMMA StepRuns ==
  ASSUME TypeInv, NEW r \in Request, CallStep(r)
  PROVE  /\ Running(r) /\ Step(r) /\ OthersKept(r) /\ arg' = arg /\ ids' = ids
         /\ overlapped' = overlapped /\ applied' = applied /\ UNCHANGED connVars
<1>1. CallTypes /\ Step(r) /\ overlapped' = overlapped /\ applied' = applied /\ UNCHANGED connVars
  BY DEF TypeInv, CallStep
<1>2. Running(r)
  BY <1>1 DEF Step, CheckState, ListBoxes, CreateBox, StartUpdates, UpdateBox, EndUpdates,
     RelistBoxes, DestroyBox, ReadEmails, RemoveEmails, Unfile, EndUnfile, DropBox, EndDestroys,
     Finish, Running, Over
<1> QED BY <1>1, <1>2, StepKeepsOthers

Solo == ~overlapped => \A q, r \in Request : Running(q) /\ Running(r) => q = r

LEMMA SoloNext ==
  ASSUME TypeInv, Solo, [Next]_vars
  PROVE  Solo'
<1>1. CASE UNCHANGED vars
  BY <1>1 DEF vars, callVars, Solo, Running
<1>2. ASSUME NEW r \in Request, CallStep(r) PROVE Solo'
  <2>1. Running(r) /\ OthersKept(r) /\ overlapped' = overlapped
    BY <1>2, StepRuns
  <2> QED BY <2>1 DEF Solo, Running, OthersKept
<1>3. ASSUME NEW r \in Request, Quiet(r) PROVE Solo'
  <2>1. OthersKept(r)
    BY <1>3, QuietKeeps
  <2>2. CASE UNCHANGED <<callVars, overlapped>>
    BY <2>2 DEF callVars, Solo, Running
  <2>3. CASE pc'[r] \in {"idle", "panicked"} /\ overlapped' = overlapped
    BY <2>1, <2>3 DEF Solo, Running, OthersKept, Over
  <2>4. CASE Spawn(r)
    <3>1. overlapped' = (overlapped \/ \E q \in Request \ {r} : Running(q))
      BY <2>4, SpawnFields DEF TypeInv
    <3> QED BY <2>1, <3>1 DEF Solo, Running, OthersKept
  <2> QED BY <1>3, <2>2, <2>3, <2>4, QuietKeeps
<1> QED BY <1>1, <1>2, <1>3, NextCases

\* Every other request is out of the steps the invariants speak of.
LEMMA OthersRest ==
  ASSUME TypeInv, Solo, ~overlapped', NEW r \in Request, CallStep(r) \/ Spawn(r)
  PROVE  ~overlapped /\ \A q \in Request \ {r} : pc'[q] \in Over /\ pc[q] \in Over
<1>1. CASE CallStep(r)
  BY <1>1, StepRuns DEF Solo, Running, OthersKept
<1>2. CASE Spawn(r)
  <2>1. OthersKept(r) /\ overlapped' = (overlapped \/ \E q \in Request \ {r} : Running(q))
    BY <1>2, SpawnFields DEF TypeInv
  <2> QED BY <2>1 DEF Running, OthersKept
<1> QED BY <1>1, <1>2

-----------------------------------------------------------------------------
(* Emails keep a home.                                                     *)

\* The emails in the mailbox that r is destroying.
Inside(r) == {e \in DOMAIN filed : at[r] \in filed[e]}

\* How far r has got with them.
Emptying(r) ==
  /\ pc[r] \in {"read", "remove", "unfile"} => Inside(r) \subseteq DOMAIN found[r]
  /\ pc[r] \in {"remove", "unfile"} =>
       \A e \in DOMAIN found[r] : e \in DOMAIN filed /\ found[r][e] = filed[e]
  /\ pc[r] = "unfile" => \A e \in DOMAIN found[r] : Cardinality(found[r][e]) # 1
  /\ pc[r] = "drop" => Inside(r) = {}

HomeInv == ~overlapped => EmailHome /\ \A r \in Request : Emptying(r)

\* A step that is not in the middle of a destroy, and only adds mailboxes.
LEMMA HomeIdle ==
  ASSUME EmailHome, ~overlapped, NEW r \in Request, filed' = filed,
         DOMAIN box \subseteq DOMAIN box', pc'[r] \notin {"read", "remove", "unfile", "drop"}
  PROVE  EmailHome' /\ Emptying(r)'
BY DEF EmailHome, Emptying

LEMMA HomeStep ==
  ASSUME TypeInv, EmailHome, ~overlapped, NEW r \in Request, Emptying(r), Step(r)
  PROVE  EmailHome' /\ Emptying(r)'
<1>1. StoreTypes /\ CallTypes
  BY DEF TypeInv
<1>2. CASE \/ CheckState(r) \/ ListBoxes(r) \/ StartUpdates(r) \/ EndUpdates(r)
           \/ RelistBoxes(r) \/ EndDestroys(r) \/ Finish(r)
  <2>1. filed' = filed /\ box' = box
    BY <1>2 DEF CheckState, ListBoxes, StartUpdates, EndUpdates, RelistBoxes, EndDestroys,
       Finish, storeVars
  <2>2. pc'[r] \notin {"read", "remove", "unfile", "drop"}
    BY <1>1, <1>2 DEF CheckState, ListBoxes, StartUpdates, EndUpdates, RelistBoxes,
       EndDestroys, Finish, Goto, CallTypes
  <2> QED BY <2>1, <2>2, HomeIdle
<1>3. ASSUME NEW k \in Cid, CreateBox(r, k) PROVE EmailHome' /\ Emptying(r)'
  <2>1. filed' = filed /\ pc' = pc /\ pc[r] = "create"
    BY <1>3 DEF CreateBox, storeVars
  <2>2. DOMAIN box \subseteq DOMAIN box'
    BY <1>3 DEF CreateBox, storeVars, Put
  <2> QED BY <2>1, <2>2, HomeIdle
<1>4. ASSUME NEW n \in Box, UpdateBox(r, n) PROVE EmailHome' /\ Emptying(r)'
  <2>1. filed' = filed /\ pc' = pc /\ pc[r] = "update"
    BY <1>4 DEF UpdateBox, storeVars
  <2>2. DOMAIN box \subseteq DOMAIN box'
    BY <1>4 DEF UpdateBox, storeVars
  <2> QED BY <2>1, <2>2, HomeIdle
<1>5. ASSUME NEW n \in Box, DestroyBox(r, n) PROVE EmailHome' /\ Emptying(r)'
  <2>1. filed' = filed /\ box' = box /\ pc[r] = "destroy"
    BY <1>5 DEF DestroyBox, storeVars
  <2>2. CASE UNCHANGED <<pc, at, found>>
    BY <2>1, <2>2, HomeIdle
  <2>3. CASE ~UNCHANGED <<pc, at, found>>
    <3>1. at' = [at EXCEPT ![r] = n] /\ pc' = [pc EXCEPT ![r] = "read"]
      BY <1>5, <2>3 DEF DestroyBox, Goto
    <3>2. DOMAIN found'[r] = {e \in DOMAIN filed : n \in filed[e]}
      BY <1>1, <1>5, <2>3 DEF DestroyBox, CallTypes
    <3>3. at'[r] = n /\ pc'[r] = "read"
      BY <1>1, <3>1 DEF CallTypes
    <3> QED BY <2>1, <3>2, <3>3 DEF EmailHome, Emptying, Inside
  <2> QED BY <2>2, <2>3
<1>6. CASE ReadEmails(r)
  <2> DEFINE S == {e \in DOMAIN found[r] \cap DOMAIN filed : at[r] \in filed[e]}
  <2>1. /\ pc[r] = "read" /\ filed' = filed /\ box' = box /\ at' = at
        /\ found'[r] = [e \in S |-> filed[e]]
        /\ pc'[r] = IF S = {} THEN "drop" ELSE IF arg[r].removeEmails THEN "remove" ELSE "destroy"
    BY <1>1, <1>6 DEF ReadEmails, Goto, CallTypes, storeVars
  <2>2. S = Inside(r)
    BY <2>1 DEF Emptying, Inside
  <2>3. Inside(r)' = Inside(r)
    BY <2>1 DEF Inside
  <2>4. S \subseteq DOMAIN filed /\ DOMAIN found'[r] = S /\ \A e \in S : found'[r][e] = filed[e]
    BY <2>1
  <2> HIDE DEF S
  <2> QED BY <2>1, <2>2, <2>3, <2>4 DEF EmailHome, Emptying
<1>7. CASE RemoveEmails(r)
  <2>1. /\ pc[r] = "remove" /\ pc'[r] = "unfile" /\ box' = box /\ at' = at
        /\ filed' = [e \in DOMAIN filed \ Only(r) |-> filed[e]]
        /\ found'[r] = [e \in DOMAIN found[r] \ Only(r) |-> found[r][e]]
    BY <1>1, <1>7 DEF RemoveEmails, Goto, CallTypes
  <2>2. /\ DOMAIN filed' = DOMAIN filed \ Only(r)
        /\ \A e \in DOMAIN filed' : filed'[e] = filed[e]
        /\ DOMAIN found'[r] = DOMAIN found[r] \ Only(r)
        /\ \A e \in DOMAIN found'[r] : found'[r][e] = found[r][e]
    BY <2>1
  <2>3. /\ Inside(r) \subseteq DOMAIN found[r]
        /\ \A e \in DOMAIN found[r] : e \in DOMAIN filed /\ found[r][e] = filed[e]
    BY <2>1 DEF Emptying
  <2>4. Inside(r)' \subseteq DOMAIN found'[r]
    BY <2>1, <2>2, <2>3 DEF Inside
  <2>5. \A e \in DOMAIN found'[r] : Cardinality(found'[r][e]) # 1
    BY <2>2 DEF Only
  <2>6. Emptying(r)'
    BY <2>1, <2>2, <2>3, <2>4, <2>5 DEF Emptying
  <2> QED BY <2>1, <2>2, <2>6 DEF EmailHome
<1>8. ASSUME NEW e \in Email, Unfile(r, e) PROVE EmailHome' /\ Emptying(r)'
  <2>1. /\ pc[r] = "unfile" /\ e \in DOMAIN found[r] /\ box' = box /\ pc' = pc /\ at' = at
        /\ filed' = [x \in DOMAIN filed |-> IF x = e THEN filed[x] \ {at[r]} ELSE filed[x]]
        /\ found'[r] = [x \in DOMAIN found[r] \ {e} |-> found[r][x]]
    BY <1>1, <1>8 DEF Unfile, CallTypes
  <2>2. /\ DOMAIN filed' = DOMAIN filed
        /\ \A x \in DOMAIN filed \ {e} : filed'[x] = filed[x]
        /\ e \in DOMAIN filed => filed'[e] = filed[e] \ {at[r]}
        /\ DOMAIN found'[r] = DOMAIN found[r] \ {e}
        /\ \A x \in DOMAIN found'[r] : found'[r][x] = found[r][x]
    BY <2>1
  <2>3. /\ Inside(r) \subseteq DOMAIN found[r]
        /\ \A x \in DOMAIN found[r] :
             x \in DOMAIN filed /\ found[r][x] = filed[x] /\ Cardinality(found[r][x]) # 1
    BY <2>1 DEF Emptying
  <2>4. Inside(r)' \subseteq DOMAIN found'[r]
    BY <2>1, <2>2, <2>3 DEF Inside
  <2>5. Emptying(r)'
    BY <2>1, <2>2, <2>3, <2>4 DEF Emptying
  <2>6. filed[e] \ {at[r]} # {}
    <3>1. Cardinality({at[r]}) = 1
      BY FS_Singleton
    <3>2. filed[e] # {at[r]} /\ filed[e] # {}
      BY <2>1, <2>3, <3>1 DEF EmailHome
    <3> QED BY <3>2
  <2> QED BY <2>1, <2>2, <2>5, <2>6 DEF EmailHome
<1>9. CASE EndUnfile(r)
  <2>1. /\ pc[r] = "unfile" /\ DOMAIN found[r] = {} /\ pc'[r] = "drop"
        /\ box' = box /\ filed' = filed /\ at' = at
    BY <1>1, <1>9 DEF EndUnfile, Goto, CallTypes, storeVars
  <2> QED BY <2>1 DEF EmailHome, Emptying, Inside
<1>10. CASE DropBox(r)
  <2>1. pc[r] = "drop" /\ pc'[r] = "destroy" /\ filed' = filed /\ Inside(r) = {}
    BY <1>1, <1>10 DEF DropBox, Goto, CallTypes, Emptying
  <2>2. DOMAIN box \ {at[r]} \subseteq DOMAIN box'
    BY <1>10 DEF DropBox
  <2> QED BY <2>1, <2>2 DEF EmailHome, Emptying, Inside
<1> QED BY <1>2, <1>3, <1>4, <1>5, <1>6, <1>7, <1>8, <1>9, <1>10 DEF Step

LEMMA HomeNext ==
  ASSUME TypeInv, Solo, HomeInv, [Next]_vars
  PROVE  HomeInv'
<1> SUFFICES ASSUME ~overlapped' PROVE EmailHome' /\ \A r \in Request : Emptying(r)'
  BY DEF HomeInv
<1>1. CASE UNCHANGED vars
  BY <1>1 DEF vars, storeVars, callVars, HomeInv, EmailHome, Emptying, Inside
<1>2. ASSUME NEW r \in Request, CallStep(r)
      PROVE  EmailHome' /\ \A q \in Request : Emptying(q)'
  <2>1. ~overlapped /\ \A q \in Request \ {r} : pc'[q] \in Over
    BY <1>2, OthersRest
  <2>2. EmailHome' /\ Emptying(r)'
    BY <1>2, <2>1, StepRuns, HomeStep DEF HomeInv
  <2>3. \A q \in Request \ {r} : Emptying(q)'
    BY <2>1 DEF Emptying, Over
  <2> QED BY <2>2, <2>3
<1>3. ASSUME NEW r \in Request, Quiet(r)
      PROVE  EmailHome' /\ \A q \in Request : Emptying(q)'
  <2>1. UNCHANGED storeVars /\ OthersKept(r) /\ (overlapped => overlapped')
    BY <1>3, QuietKeeps
  <2>2. EmailHome /\ \A q \in Request : Emptying(q)
    BY <2>1 DEF HomeInv
  <2>3. EmailHome'
    BY <2>1, <2>2 DEF EmailHome, storeVars
  <2>4. \A q \in Request \ {r} : Emptying(q)'
    BY <2>1, <2>2 DEF Emptying, Inside, OthersKept, storeVars
  <2>5. UNCHANGED callVars \/ pc'[r] \in {"idle", "panicked", "state"}
    BY <1>3, QuietKeeps, SpawnFields DEF TypeInv
  <2>6. Emptying(r)'
    BY <2>1, <2>2, <2>5 DEF Emptying, Inside, storeVars, callVars
  <2> QED BY <2>3, <2>4, <2>6
<1> QED BY <1>1, <1>2, <1>3, NextCases

LEMMA InitAlone ==
  ASSUME Init
  PROVE  ~overlapped /\ applied = {} /\ ~balked /\ \A r \in Request : pc[r] = "idle"
BY DEF Init, MailboxesInit

LEMMA InitSolo == Init => Solo
BY InitAlone DEF Solo, Running, Over

LEMMA InitHome ==
  ASSUME Init
  PROVE  HomeInv
<1>1. filed \in [Email -> (SUBSET DOMAIN box) \ {{}}]
  BY DEF Init, MailboxesInit
<1>2. EmailHome
  BY <1>1 DEF EmailHome
<1>3. \A r \in Request : Emptying(r)
  BY InitAlone DEF Emptying
<1> QED BY <1>2, <1>3 DEF HomeInv

\* destroy_mailbox reads, removes and refiles the emails of a mailbox in
\* separate backend calls and then drops it: as long as calls do not overlap, a
\* panic or an error between any two of them leaves no email without a mailbox.
THEOREM Homes == Spec => []EmailHome
<1> DEFINE Inv == TypeInv /\ Solo /\ HomeInv
<1>1. Init => Inv
  BY InitTyped, InitSolo, InitHome
<1>2. Inv /\ [Next]_vars => Inv'
  BY NextTyped, SoloNext, HomeNext
<1>3. Inv => EmailHome
  <2>1. CASE overlapped
    BY <2>1 DEF EmailHome
  <2>2. CASE ~overlapped
    BY <2>2 DEF HomeInv
  <2> QED BY <2>1, <2>2
<1> QED BY <1>1, <1>2, <1>3, PTL DEF Spec

-----------------------------------------------------------------------------
(* No mailbox is destroyed over a child of it.                             *)

\* The copy a destroying call decides on is the store, and what it is
\* destroying has no child in it.
Clearing(r) ==
  /\ pc[r] \in {"destroy", "read", "remove", "unfile", "drop"} => seen[r] = box
  /\ pc[r] \in {"read", "remove", "unfile", "drop"} =>
       \A b \in DOMAIN seen[r] : seen[r][b].parent # at[r]

ChildInv == ~overlapped => \A r \in Request : Clearing(r)

LEMMA ClearingStep ==
  ASSUME TypeInv, NEW r \in Request, Clearing(r), Step(r)
  PROVE  Clearing(r)'
<1>1. StoreTypes /\ CallTypes
  BY DEF TypeInv
<1>2. CASE CheckState(r) \/ ListBoxes(r) \/ StartUpdates(r) \/ EndUpdates(r) \/ EndDestroys(r)
           \/ Finish(r)
  <2>1. pc'[r] \notin {"destroy", "read", "remove", "unfile", "drop"}
    BY <1>1, <1>2 DEF CheckState, ListBoxes, StartUpdates, EndUpdates, EndDestroys,
       Finish, Goto, CallTypes
  <2> QED BY <2>1 DEF Clearing
<1>3. CASE (\E k \in Cid : CreateBox(r, k)) \/ \E n \in Box : UpdateBox(r, n)
  <2>1. pc' = pc /\ pc[r] \in {"create", "update"}
    BY <1>3 DEF CreateBox, UpdateBox
  <2> QED BY <2>1 DEF Clearing
<1>4. CASE RelistBoxes(r)
  <2>1. pc'[r] = "destroy" /\ seen'[r] = box /\ box' = box
    BY <1>1, <1>4 DEF RelistBoxes, Goto, CallTypes, storeVars
  <2> QED BY <2>1 DEF Clearing
<1>5. ASSUME NEW n \in Box, DestroyBox(r, n) PROVE Clearing(r)'
  <2>1. seen' = seen /\ box' = box /\ pc[r] = "destroy"
    BY <1>5 DEF DestroyBox, storeVars
  <2>2. \/ pc' = pc
        \/ pc'[r] = "read" /\ at'[r] = n /\ \A b \in DOMAIN seen[r] : seen[r][b].parent # n
    BY <1>1, <1>5 DEF DestroyBox, Goto, CallTypes
  <2> QED BY <2>1, <2>2 DEF Clearing
<1>6. CASE ReadEmails(r) \/ RemoveEmails(r) \/ (\E e \in Email : Unfile(r, e)) \/ EndUnfile(r)
  <2>1. seen' = seen /\ box' = box /\ at' = at /\ pc[r] \in {"read", "remove", "unfile"}
    BY <1>6 DEF ReadEmails, RemoveEmails, Unfile, EndUnfile, storeVars
  <2> QED BY <2>1 DEF Clearing
<1>7. CASE DropBox(r)
  <2>1. pc[r] = "drop" /\ pc'[r] = "destroy" /\ seen[r] = box
    BY <1>1, <1>7 DEF DropBox, Goto, CallTypes, Clearing
  <2>2. seen'[r] = box'
    <3>1. CASE at[r] \in DOMAIN box
      <4>1. /\ box' = [b \in DOMAIN box \ {at[r]} |-> box[b]]
            /\ seen' = [seen EXCEPT ![r] = [b \in DOMAIN seen[r] \ {at[r]} |-> seen[r][b]]]
        BY <1>1, <1>7, <3>1 DEF DropBox, CallTypes
      <4>2. seen'[r] = [b \in DOMAIN seen[r] \ {at[r]} |-> seen[r][b]]
        BY <1>1, <4>1 DEF CallTypes
      <4> QED BY <2>1, <4>1, <4>2
    <3>2. CASE at[r] \notin DOMAIN box
      BY <1>7, <2>1, <3>2 DEF DropBox
    <3> QED BY <3>1, <3>2
  <2> QED BY <2>1, <2>2 DEF Clearing
<1> QED BY <1>2, <1>3, <1>4, <1>5, <1>6, <1>7 DEF Step

LEMMA ChildNext ==
  ASSUME TypeInv, Solo, ChildInv, [Next]_vars
  PROVE  ChildInv'
<1> SUFFICES ASSUME ~overlapped' PROVE \A r \in Request : Clearing(r)'
  BY DEF ChildInv
<1>1. CASE UNCHANGED vars
  BY <1>1 DEF vars, storeVars, callVars, ChildInv, Clearing
<1>2. ASSUME NEW r \in Request, CallStep(r) PROVE \A q \in Request : Clearing(q)'
  <2>1. ~overlapped /\ \A q \in Request \ {r} : pc'[q] \in Over
    BY <1>2, OthersRest
  <2>2. Clearing(r)'
    BY <1>2, <2>1, StepRuns, ClearingStep DEF ChildInv
  <2>3. \A q \in Request \ {r} : Clearing(q)'
    BY <2>1 DEF Clearing, Over
  <2> QED BY <2>2, <2>3
<1>3. ASSUME NEW r \in Request, Quiet(r) PROVE \A q \in Request : Clearing(q)'
  <2>1. UNCHANGED storeVars /\ OthersKept(r) /\ (overlapped => overlapped')
    BY <1>3, QuietKeeps
  <2>2. \A q \in Request : Clearing(q)
    BY <2>1 DEF ChildInv
  <2>3. \A q \in Request \ {r} : Clearing(q)'
    BY <2>1, <2>2 DEF Clearing, OthersKept, storeVars
  <2>4. UNCHANGED callVars \/ pc'[r] \in {"idle", "panicked", "state"}
    BY <1>3, QuietKeeps, SpawnFields DEF TypeInv
  <2>5. Clearing(r)'
    BY <2>1, <2>2, <2>4 DEF Clearing, storeVars, callVars
  <2> QED BY <2>3, <2>5
<1> QED BY <1>1, <1>2, <1>3, NextCases

\* The only step that takes a mailbox away.
LEMMA OnlyDropsDrop ==
  ASSUME TypeInv, NEW b \in DOMAIN box \ DOMAIN box', [Next]_vars
  PROVE  \E r \in Request : CallStep(r) /\ DropBox(r) /\ at[r] = b
<1>1. box' # box
  OBVIOUS
<1>2. PICK r \in Request : Quiet(r) \/ CallStep(r)
  BY <1>1, NextCases DEF vars, storeVars
<1>3. CallStep(r)
  BY <1>1, <1>2, QuietKeeps DEF storeVars
<1>4. Step(r)
  BY <1>3 DEF CallStep
<1>5. ~(\E k \in Cid : CreateBox(r, k))
  BY DEF CreateBox, storeVars, Put
<1>6. ~(\E n \in Box : UpdateBox(r, n))
  BY DEF UpdateBox, storeVars
<1>7. ~(\/ CheckState(r) \/ ListBoxes(r) \/ StartUpdates(r) \/ EndUpdates(r) \/ RelistBoxes(r)
        \/ (\E n \in Box : DestroyBox(r, n)) \/ ReadEmails(r) \/ RemoveEmails(r)
        \/ (\E e \in Email : Unfile(r, e)) \/ EndUnfile(r) \/ EndDestroys(r) \/ Finish(r))
  BY <1>1 DEF CheckState, ListBoxes, StartUpdates, EndUpdates, RelistBoxes, DestroyBox,
     ReadEmails, RemoveEmails, Unfile, EndUnfile, EndDestroys, Finish, storeVars
<1>8. DropBox(r)
  BY <1>4, <1>5, <1>6, <1>7 DEF Step
<1>9. at[r] = b
  BY <1>8 DEF DropBox
<1> QED BY <1>3, <1>8, <1>9

\* The parent_ids check of destroy_mailbox reads a copy from before its first
\* destroy, and other backend calls follow before the mailbox goes: with one
\* call at a time no mailbox is taken away over a child, whether that was
\* there, was created or was moved under it by the same call.
THEOREM Childless == Spec => NoChildLeft
<1> DEFINE Inv == TypeInv /\ Solo /\ ChildInv
           Kept == ~overlapped => \A b \in DOMAIN box \ DOMAIN box' :
                                    \A c \in DOMAIN box' : box'[c].parent # b
<1>1. Init => Inv
  BY InitTyped, InitSolo, InitAlone DEF ChildInv, Clearing
<1>2. Inv /\ [Next]_vars => Inv'
  BY NextTyped, SoloNext, ChildNext
<1>3. Inv /\ [Next]_vars => Kept
  <2> SUFFICES ASSUME Inv, [Next]_vars, ~overlapped, NEW b \in DOMAIN box \ DOMAIN box',
                      NEW c \in DOMAIN box'
               PROVE  box'[c].parent # b
    OBVIOUS
  <2>1. PICK r \in Request : CallStep(r) /\ DropBox(r) /\ at[r] = b
    BY OnlyDropsDrop
  <2>2. pc[r] = "drop" /\ Clearing(r)
    BY <2>1 DEF DropBox, ChildInv
  <2>3. seen[r] = box /\ \A d \in DOMAIN box : box[d].parent # b
    BY <2>1, <2>2 DEF Clearing
  <2>4. box' = [d \in DOMAIN box \ {b} |-> box[d]]
    BY <2>1 DEF DropBox
  <2> QED BY <2>3, <2>4
<1>4. Inv /\ [Next]_vars => [Kept]_vars
  BY <1>3
<1> QED BY <1>1, <1>2, <1>4, PTL DEF Spec, NoChildLeft

-----------------------------------------------------------------------------
(* A conditional call takes effect once.                                   *)

Conditional(r) == arg[r].ifInState # NoState

\* r has changed a mailbox and its task has not ended yet.
Spent(r) == mutated[r] /\ Conditional(r)

\* r has passed the check of ifInState and not changed anything yet.
Holding(r) == Running(r) /\ pc[r] # "state" /\ ~mutated[r] /\ Conditional(r)

SpentOnce ==
  /\ \A x, y \in applied : x.state = y.state => x = y
  /\ \A x \in applied : x.state < stamp
  /\ \A r \in Request : Spent(r) => arg[r].ifInState < stamp
  /\ \A r \in Request, x \in applied : Spent(r) => x.state # arg[r].ifInState
  /\ \A q, r \in Request : Spent(q) /\ Spent(r) /\ arg[q].ifInState = arg[r].ifInState => q = r
  /\ \A r \in Request : Holding(r) => arg[r].ifInState = stamp

OnceInv == ~overlapped => SpentOnce

\* Every step that changes a mailbox moves the state on.
LEMMA StampStep ==
  ASSUME TypeInv, NEW r \in Request, Step(r)
  PROVE  /\ \/ stamp' = stamp /\ mutated'[r] = mutated[r]
            \/ stamp' = stamp + 1 /\ mutated'[r] /\ pc[r] # "state"
         /\ pc[r] = "state" =>
              /\ stamp' = stamp
              /\ pc'[r] # "failed" => arg[r].ifInState \in {NoState, stamp}
<1>1. StoreTypes /\ CallTypes
  BY DEF TypeInv
<1>2. CASE CheckState(r)
  BY <1>1, <1>2 DEF CheckState, Goto, CallTypes, storeVars
<1>3. CASE ListBoxes(r) \/ StartUpdates(r) \/ EndUpdates(r) \/ RelistBoxes(r) \/ ReadEmails(r)
           \/ EndUnfile(r) \/ EndDestroys(r) \/ Finish(r)
  BY <1>3 DEF ListBoxes, StartUpdates, EndUpdates, RelistBoxes, ReadEmails, EndUnfile,
     EndDestroys, Finish, storeVars
<1>4. CASE (\E n \in Box : DestroyBox(r, n)) \/ RemoveEmails(r) \/ \E e \in Email : Unfile(r, e)
  BY <1>4 DEF DestroyBox, RemoveEmails, Unfile, storeVars
<1>5. CASE \E k \in Cid : CreateBox(r, k)
  BY <1>1, <1>5 DEF CreateBox, CallTypes, storeVars
<1>6. CASE \E n \in Box : UpdateBox(r, n)
  BY <1>1, <1>6 DEF UpdateBox, CallTypes, storeVars
<1>7. CASE DropBox(r)
  BY <1>1, <1>7 DEF DropBox, CallTypes
<1> QED BY <1>2, <1>3, <1>4, <1>5, <1>6, <1>7 DEF Step

LEMMA OnceStep ==
  ASSUME TypeInv, Solo, ~overlapped, SpentOnce, NEW r \in Request, CallStep(r)
  PROVE  SpentOnce'
<1>1. /\ Running(r) /\ Step(r) /\ OthersKept(r) /\ arg' = arg /\ applied' = applied
      /\ \A q \in Request \ {r} : pc'[q] = pc[q] /\ mutated'[q] = mutated[q] /\ ~Running(q)
  BY StepRuns DEF OthersKept, Solo
<1>2. \A q \in Request : Conditional(q)' <=> Conditional(q)
  BY <1>1 DEF Conditional
<1>3. \A q \in Request \ {r} : (Spent(q)' <=> Spent(q)) /\ ~Holding(q)'
  BY <1>1, <1>2 DEF Spent, Holding, Running
<1>4. stamp \in Nat /\ \A q \in Request : Conditional(q) => arg[q].ifInState \in Nat
  <2>1. \A q \in Request : arg[q] \in CallRecord
    BY DEF TypeInv, CallTypes
  <2> QED BY <2>1 DEF TypeInv, StoreTypes, CallRecord, Conditional
<1>5. \A x \in applied : x.state \in Nat
  BY DEF TypeInv, ConnTypes
<1>6. CASE stamp' = stamp /\ mutated'[r] = mutated[r]
  <2>1. Spent(r)' <=> Spent(r)
    BY <1>2, <1>6 DEF Spent
  <2>2. Holding(r)' => arg[r].ifInState = stamp
    <3>1. CASE pc[r] = "state"
      <4>1. pc'[r] # "failed" => arg[r].ifInState \in {NoState, stamp}
        BY <1>1, <3>1, StampStep
      <4> QED BY <1>2, <4>1 DEF Holding, Running, Over, Conditional
    <3>2. CASE pc[r] # "state"
      <4>1. Holding(r)' => Holding(r)
        BY <1>1, <1>2, <1>6, <3>2 DEF Holding
      <4> QED BY <4>1 DEF SpentOnce
    <3> QED BY <3>1, <3>2
  <2>3. \A q \in Request : Spent(q)' <=> Spent(q)
    BY <1>3, <2>1
  <2>4. \A q \in Request : Holding(q)' => arg[q].ifInState = stamp
    BY <1>3, <2>2
  <2> QED BY <1>1, <1>6, <2>3, <2>4 DEF SpentOnce
<1>7. CASE stamp' = stamp + 1 /\ mutated'[r] /\ pc[r] # "state"
  <2>1. ~Holding(r)'
    BY <1>7 DEF Holding
  <2>2. Spent(r)' <=> Conditional(r)
    BY <1>2, <1>7 DEF Spent
  <2>3. Spent(r)' => Spent(r) \/ arg[r].ifInState = stamp
    BY <1>1, <1>7, <2>2 DEF SpentOnce, Spent, Holding
  <2>4. ASSUME NEW q \in Request, Spent(q)' PROVE arg[q].ifInState < stamp'
    <3>1. arg[q].ifInState < stamp \/ arg[q].ifInState = stamp
      BY <1>3, <2>3, <2>4 DEF SpentOnce
    <3>2. arg[q].ifInState \in Nat
      BY <1>2, <1>4, <2>4 DEF Spent
    <3> QED BY <1>4, <1>7, <3>1, <3>2
  <2>5. ASSUME NEW q \in Request, NEW x \in applied, Spent(q)' PROVE x.state # arg[q].ifInState
    BY <1>3, <1>4, <1>5, <2>3, <2>5 DEF SpentOnce
  <2>6. ASSUME NEW q \in Request \ {r}, Spent(q)', Spent(r)'
        PROVE  arg[q].ifInState # arg[r].ifInState
    BY <1>3, <1>4, <2>2, <2>3, <2>6 DEF SpentOnce
  <2>7. ASSUME NEW p \in Request, NEW q \in Request, Spent(p)', Spent(q)',
               arg[p].ifInState = arg[q].ifInState
        PROVE  p = q
    BY <1>3, <2>6, <2>7 DEF SpentOnce
  <2>8. \A x \in applied : x.state < stamp'
    BY <1>4, <1>5, <1>7 DEF SpentOnce
  <2> QED BY <1>1, <1>3, <2>1, <2>4, <2>5, <2>7, <2>8 DEF SpentOnce
<1> QED BY <1>1, <1>6, <1>7, StampStep

LEMMA OnceEnd ==
  ASSUME TypeInv, SpentOnce, NEW r \in Request, EndTask(r)
  PROVE  SpentOnce'
<1>1. /\ OthersKept(r) /\ arg' = arg /\ stamp' = stamp /\ pc'[r] = "idle" /\ mutated'[r] = FALSE
  BY EndTaskFields DEF TypeInv, storeVars
<1>2. \A q \in Request : /\ Spent(q)' <=> q # r /\ Spent(q)
                         /\ Holding(q)' <=> q # r /\ Holding(q)
  BY <1>1 DEF Spent, Holding, Conditional, Running, OthersKept, Over
<1>3. \A x \in applied' \ applied : Spent(r) /\ x.state = arg[r].ifInState
  BY DEF EndTask, Spent, Conditional
<1>4. \A x, y \in applied' \ applied : x = y
  BY DEF EndTask
<1>5. \A x, y \in applied' : x.state = y.state => x = y
  BY <1>3, <1>4 DEF SpentOnce
<1>6. \A x \in applied' : x.state < stamp
  BY <1>3 DEF SpentOnce
<1>7. \A q \in Request, x \in applied' : Spent(q)' => x.state # arg[q].ifInState
  BY <1>2, <1>3 DEF SpentOnce
<1> QED BY <1>1, <1>2, <1>5, <1>6, <1>7 DEF SpentOnce

LEMMA OnceNext ==
  ASSUME TypeInv, Solo, OnceInv, [Next]_vars
  PROVE  OnceInv'
<1> SUFFICES ASSUME ~overlapped' PROVE SpentOnce'
  BY DEF OnceInv
<1>1. CASE UNCHANGED vars
  BY <1>1 DEF vars, storeVars, callVars, OnceInv, SpentOnce, Spent, Holding, Conditional,
     Running
<1>2. ASSUME NEW r \in Request, CallStep(r) PROVE SpentOnce'
  BY <1>2, OthersRest, OnceStep DEF OnceInv
<1>3. ASSUME NEW r \in Request, Quiet(r) PROVE SpentOnce'
  <2>1. UNCHANGED storeVars /\ OthersKept(r) /\ (overlapped => overlapped')
    BY <1>3, QuietKeeps
  <2>2. SpentOnce
    BY <2>1 DEF OnceInv
  <2>3. CASE Collect(r) \/ Detached(r)
    BY <2>2, <2>3, OnceEnd DEF Collect, Detached
  <2>4. CASE CallPanic(r)
    <3>1. applied' = applied /\ mutated' = mutated /\ arg' = arg /\ pc'[r] = "panicked"
      BY <2>4 DEF CallPanic, Panic, Goto, TypeInv, CallTypes
    <3>2. \A q \in Request : (Spent(q)' <=> Spent(q)) /\ (Holding(q)' => Holding(q))
      BY <2>1, <3>1 DEF Spent, Holding, Conditional, Running, OthersKept, Over
    <3> QED BY <2>1, <2>2, <3>1, <3>2 DEF SpentOnce, storeVars
  <2>5. CASE Spawn(r)
    <3>1. applied' = applied /\ mutated' = mutated /\ pc[r] = "idle" /\ pc'[r] = "state"
      BY <2>5, SpawnFields DEF TypeInv
    <3>2. ~mutated[r]
      BY <3>1 DEF TypeInv, Fits, FitOf, Fresh
    <3>3. /\ ~Spent(r)' /\ ~Holding(r)'
          /\ \A q \in Request \ {r} :
               arg'[q] = arg[q] /\ (Spent(q)' <=> Spent(q)) /\ (Holding(q)' => Holding(q))
      BY <2>1, <3>1, <3>2 DEF Spent, Holding, Conditional, Running, OthersKept
    <3> QED BY <2>1, <2>2, <3>1, <3>3 DEF SpentOnce, storeVars
  <2>6. CASE (\E b \in Batch, f \in Sent : Send(r, b, f)) \/ RefuseCall(r) \/ Answer(r) \/ Drop(r)
    <3>1. UNCHANGED <<storeVars, callVars, applied>>
      BY <2>6 DEF Send, RefuseCall, Answer, Drop
    <3> QED BY <2>2, <3>1 DEF SpentOnce, Spent, Holding, Conditional, Running, storeVars, callVars
  <2> QED BY <1>3, <2>3, <2>4, <2>5, <2>6 DEF Quiet
<1> QED BY <1>1, <1>2, <1>3, NextCases

LEMMA InitOnce ==
  ASSUME Init
  PROVE  OnceInv
<1>1. applied = {} /\ \A r \in Request : ~mutated[r] /\ pc[r] = "idle"
  BY DEF Init, MailboxesInit
<1> QED BY <1>1 DEF OnceInv, SpentOnce, Spent, Holding, Running, Over

\* A batch whose calls carry ifInState may be sent again when the connection
\* drops, with the first sending still under way or its answer lost: of all the
\* calls conditional on one state, one at most changes a mailbox, if the calls
\* do not overlap.
THEOREM OnceOnly == Spec => []OnceEach
<1> DEFINE Inv == TypeInv /\ Solo /\ OnceInv
<1>1. Init => Inv
  BY InitTyped, InitSolo, InitOnce
<1>2. Inv /\ [Next]_vars => Inv'
  BY NextTyped, SoloNext, OnceNext
<1>3. Inv => OnceEach
  BY DEF OnceInv, SpentOnce, OnceEach
<1> QED BY <1>1, <1>2, <1>3, PTL DEF Spec

-----------------------------------------------------------------------------
(* A creation id means what the client reads in the answers.               *)

\* The answers of r that list p.
Listing(r, p) == {i \in DOMAIN replies[r] : p \in DOMAIN replies[r][i].created}

\* The dispatcher's map has what the last of them says, or what was sent.
Means(r, p) ==
  \/ Listing(r, p) = {} /\ createdIds[r][p] = sent[r][p]
  \/ \E i \in Listing(r, p) : /\ \A j \in Listing(r, p) : j <= i
                              /\ createdIds[r][p] = replies[r][i].created[p]

RefInv ==
  \A r \in Request :
    /\ pc[r] # "idle" => ids[r] = createdIds[r]
    /\ \A p \in DOMAIN createdIds[r] : Means(r, p)

\* What is appended to the answers of r and becomes of its map.
LEMMA AppendMeans ==
  ASSUME TypeInv, NEW r \in Request, NEW a \in Reply, NEW p \in DOMAIN createdIds'[r],
         replies'[r] = Append(replies[r], a), sent'[r] = sent[r],
         \/ p \in DOMAIN a.created /\ createdIds'[r][p] = a.created[p]
         \/ /\ p \notin DOMAIN a.created /\ p \in DOMAIN createdIds[r]
            /\ createdIds'[r][p] = createdIds[r][p] /\ Means(r, p)
  PROVE  Means(r, p)'
<1> DEFINE n == Len(replies[r])
<1>1. n \in Nat /\ replies[r] \in Seq(Reply)
  BY DEF TypeInv, ConnTypes
<1>2. /\ DOMAIN replies'[r] = 1 .. (n + 1) /\ DOMAIN replies[r] = 1 .. n
      /\ replies'[r][n + 1] = a /\ \A i \in 1 .. n : replies'[r][i] = replies[r][i]
  BY <1>1
<1> HIDE DEF n
<1>3. CASE p \in DOMAIN a.created /\ createdIds'[r][p] = a.created[p]
  <2>1. n + 1 \in Listing(r, p)'
    BY <1>1, <1>2, <1>3 DEF Listing
  <2>2. \A j \in Listing(r, p)' : j <= n + 1
    BY <1>1, <1>2 DEF Listing
  <2>3. createdIds'[r][p] = replies'[r][n + 1].created[p]
    BY <1>2, <1>3
  <2> QED BY <2>1, <2>2, <2>3 DEF Means
<1>4. CASE /\ p \notin DOMAIN a.created /\ p \in DOMAIN createdIds[r]
           /\ createdIds'[r][p] = createdIds[r][p] /\ Means(r, p)
  <2>1. Listing(r, p)' = Listing(r, p)
    <3>1. \A i \in 1 .. (n + 1) : i \in 1 .. n \/ i = n + 1
      BY <1>1
    <3>2. 1 .. n \subseteq 1 .. (n + 1)
      BY <1>1
    <3> QED BY <1>2, <1>4, <3>1, <3>2 DEF Listing
  <2>2. CASE Listing(r, p) = {} /\ createdIds[r][p] = sent[r][p]
    BY <1>4, <2>1, <2>2 DEF Means
  <2>3. CASE \E i \in Listing(r, p) : /\ \A j \in Listing(r, p) : j <= i
                                      /\ createdIds[r][p] = replies[r][i].created[p]
    <3>1. PICK i \in Listing(r, p) : /\ \A j \in Listing(r, p) : j <= i
                                     /\ createdIds[r][p] = replies[r][i].created[p]
      BY <2>3
    <3>2. replies'[r][i] = replies[r][i]
      BY <1>2, <3>1 DEF Listing
    <3> QED BY <1>4, <2>1, <3>1, <3>2 DEF Means
  <2> QED BY <1>4, <2>2, <2>3 DEF Means
<1> QED BY <1>3, <1>4

LEMMA OthersMean ==
  ASSUME RefInv, NEW q \in Request, pc'[q] = pc[q], ids'[q] = ids[q],
         createdIds'[q] = createdIds[q], replies'[q] = replies[q], sent'[q] = sent[q]
  PROVE  /\ pc'[q] # "idle" => ids'[q] = createdIds'[q]
         /\ \A p \in DOMAIN createdIds'[q] : Means(q, p)'
BY DEF RefInv, Means, Listing

LEMMA RefNext ==
  ASSUME TypeInv, RefInv, [Next]_vars
  PROVE  RefInv'
<1>1. CASE UNCHANGED vars
  BY <1>1, OthersMean DEF vars, callVars, connVars, RefInv
<1>2. ASSUME NEW r \in Request, OthersKept(r), UNCHANGED connVars,
             \/ pc'[r] = "idle"
             \/ ids'[r] = createdIds[r]
             \/ pc[r] # "idle" /\ ids'[r] = ids[r]
      PROVE  RefInv'
  <2>1. ASSUME NEW q \in Request, NEW p \in DOMAIN createdIds'[q] PROVE Means(q, p)'
    BY <1>2 DEF RefInv, connVars, Means, Listing
  <2>2. ASSUME NEW q \in Request, pc'[q] # "idle" PROVE ids'[q] = createdIds'[q]
    BY <1>2, <2>2 DEF RefInv, connVars, OthersKept
  <2> QED BY <2>1, <2>2 DEF RefInv
<1>3. ASSUME NEW r \in Request, CallStep(r) PROVE RefInv'
  BY <1>2, <1>3, StepRuns DEF Running, Over
<1>4. ASSUME NEW r \in Request, Quiet(r) PROVE RefInv'
  <2>1. OthersKept(r) /\ CallTypes /\ ConnTypes
    BY <1>4, QuietKeeps DEF TypeInv
  <2>2. CASE Spawn(r)
    BY <1>2, <2>1, <2>2, SpawnFields
  <2>3. CASE CallPanic(r)
    <3>1. pc[r] # "idle" /\ ids' = ids /\ UNCHANGED connVars
      BY <2>3 DEF CallPanic, Panic, Running, Over
    <3> QED BY <1>2, <2>1, <3>1
  <2>4. CASE Detached(r)
    <3>1. pc'[r] = "idle" /\ UNCHANGED connVars
      BY <2>1, <2>4, EndTaskFields DEF Detached
    <3> QED BY <1>2, <2>1, <3>1
  <2>5. CASE Answer(r) \/ Drop(r)
    <3>1. UNCHANGED <<callVars, createdIds, replies, sent>>
      BY <2>5 DEF Answer, Drop
    <3> QED BY <3>1, OthersMean DEF callVars, RefInv
  <2>6. ASSUME \A q \in Request \ {r} : /\ createdIds'[q] = createdIds[q]
                                        /\ replies'[q] = replies[q] /\ sent'[q] = sent[q],
               pc'[r] = "idle",
               \A p \in DOMAIN createdIds'[r] : Means(r, p)'
        PROVE  RefInv'
    <3>1. ASSUME NEW q \in Request \ {r}
          PROVE  /\ pc'[q] # "idle" => ids'[q] = createdIds'[q]
                 /\ \A p \in DOMAIN createdIds'[q] : Means(q, p)'
      BY <2>1, <2>6, OthersMean DEF OthersKept
    <3> QED BY <2>6, <3>1 DEF RefInv
  <2>7. ASSUME NEW b \in Batch, NEW f \in Sent, Send(r, b, f) PROVE RefInv'
    <3>1. /\ \A q \in Request \ {r} : /\ createdIds'[q] = createdIds[q]
                                      /\ replies'[q] = replies[q] /\ sent'[q] = sent[q]
          /\ createdIds'[r] = f /\ sent'[r] = f /\ replies'[r] = replies[r] /\ pc' = pc
          /\ conn[r] = "none"
      BY <2>1, <2>7 DEF Send, ConnTypes, callVars
    <3>2. replies[r] = <<>> /\ pc[r] = "idle"
      BY <3>1 DEF TypeInv, Fits, FitOf
    <3>3. \A p : Listing(r, p)' = {}
      BY <3>1, <3>2 DEF Listing
    <3>4. \A p \in DOMAIN createdIds'[r] : Means(r, p)'
      BY <3>1, <3>3 DEF Means
    <3> QED BY <2>6, <3>1, <3>2, <3>4
  <2>8. CASE RefuseCall(r)
    <3> DEFINE a == Answered(FALSE, Empty, NoState)
    <3>1. a \in Reply /\ DOMAIN a.created = {}
      <4>1. Empty \in Maps(Cid, Box) /\ DOMAIN Empty = {}
        BY EmptyIn
      <4> QED BY <4>1 DEF Answered, Reply
    <3>2. /\ replies' = [replies EXCEPT ![r] = Append(@, a)]
          /\ UNCHANGED <<callVars, conn, batch, sent, createdIds>>
      BY <2>8 DEF RefuseCall
    <3> HIDE DEF a
    <3>3. /\ \A q \in Request \ {r} : replies'[q] = replies[q]
          /\ replies'[r] = Append(replies[r], a)
      BY <2>1, <3>2 DEF ConnTypes
    <3>4. pc'[r] = "idle"
      BY <2>8, <3>2 DEF RefuseCall, Waiting, callVars
    <3>5. ASSUME NEW p \in DOMAIN createdIds'[r] PROVE Means(r, p)'
      <4>1. p \in DOMAIN createdIds[r] /\ createdIds'[r][p] = createdIds[r][p] /\ Means(r, p)
        BY <3>2, <3>5 DEF RefInv
      <4> QED BY <3>1, <3>2, <3>3, <4>1, AppendMeans
    <3> QED BY <2>6, <3>2, <3>3, <3>4, <3>5
  <2>9. CASE Collect(r)
    <3>1. /\ EndTask(r) /\ sent' = sent
          /\ Outcome(r) \in Reply /\ replies' = [replies EXCEPT ![r] = Append(@, Outcome(r))]
          /\ createdIds' = [createdIds EXCEPT
               ![r] = IF pc[r] = "done" THEN Listed(@, Made(r)) ELSE @]
      BY <2>9, CollectFields
    <3>2. /\ \A q \in Request \ {r} : createdIds'[q] = createdIds[q] /\ replies'[q] = replies[q]
          /\ replies'[r] = Append(replies[r], Outcome(r))
          /\ createdIds'[r] = IF pc[r] = "done" THEN Listed(createdIds[r], Made(r))
                                                ELSE createdIds[r]
      BY <2>1, <3>1 DEF ConnTypes
    <3>3. pc'[r] = "idle"
      BY <2>1, <3>1, EndTaskFields
    <3>4. ASSUME NEW p \in DOMAIN createdIds'[r] PROVE Means(r, p)'
      <4>1. CASE pc[r] = "done"
        <5>1. Outcome(r).created = Made(r)
          BY <4>1 DEF Outcome, Answered
        <5>2. /\ createdIds[r] \in Maps(Cid, Box) /\ Made(r) \in Maps(Cid, Box)
          BY <2>1, MadeIn DEF ConnTypes
        <5>3. createdIds'[r] = Listed(createdIds[r], Made(r))
          BY <3>2, <4>1
        <5>4. \/ p \in DOMAIN Made(r) /\ createdIds'[r][p] = Made(r)[p]
              \/ /\ p \notin DOMAIN Made(r) /\ p \in DOMAIN createdIds[r]
                 /\ createdIds'[r][p] = createdIds[r][p]
          <6> DEFINE f == createdIds[r]
                     g == Made(r)
          <6>1. f \in Maps(Cid, Box) /\ g \in Maps(Cid, Box)
            BY <5>2
          <6>2. createdIds'[r] = Listed(f, g) /\ p \in DOMAIN Listed(f, g)
            BY <3>4, <5>3
          <6> HIDE DEF f, g
          <6>3. p \in DOMAIN f \cup DOMAIN g
            BY <6>1, <6>2, ListedIn
          <6>4. p \in DOMAIN g => Listed(f, g)[p] = g[p]
            BY <6>3 DEF Listed
          <6>5. p \notin DOMAIN g => Listed(f, g)[p] = f[p]
            BY <6>3 DEF Listed
          <6> QED BY <6>2, <6>3, <6>4, <6>5 DEF f, g
        <5> QED BY <3>1, <3>2, <5>1, <5>4, AppendMeans DEF RefInv
      <4>2. CASE pc[r] # "done"
        <5>1. Outcome(r).created = Empty
          BY <4>2 DEF Outcome, Answered
        <5>2. DOMAIN Outcome(r).created = {}
          BY <5>1, EmptyIn
        <5>3. createdIds'[r] = createdIds[r]
          BY <3>2, <4>2
        <5> QED BY <3>1, <3>2, <3>4, <5>2, <5>3, AppendMeans DEF RefInv
      <4> QED BY <4>1, <4>2
    <3> QED BY <2>6, <3>1, <3>2, <3>3, <3>4
  <2> QED BY <1>4, <2>2, <2>3, <2>4, <2>5, <2>7, <2>8, <2>9 DEF Quiet
<1> QED BY <1>1, <1>3, <1>4, NextCases

\* What the invariant says, as the property does.
LEMMA MeaningOf ==
  ASSUME TypeInv, RefInv, NEW r \in Request, pc[r] # "idle", NEW p \in Cid, p \in Known(r)
  PROVE  Resolved(r, p) = Meaning(r, p)
<1>1. CASE p \in DOMAIN made[r]
  BY <1>1 DEF Resolved, Meaning
<1>2. CASE p \notin DOMAIN made[r]
  <2>1. p \in DOMAIN ids[r] /\ ids[r] = createdIds[r] /\ Means(r, p)
    BY <1>2 DEF Known, RefInv
  <2>2. Resolved(r, p) = createdIds[r][p]
    BY <1>2, <2>1 DEF Resolved
  <2>3. CASE Listing(r, p) = {} /\ createdIds[r][p] = sent[r][p]
    BY <1>2, <2>2, <2>3 DEF Meaning, Listing
  <2>4. CASE \E i \in Listing(r, p) : /\ \A j \in Listing(r, p) : j <= i
                                      /\ createdIds[r][p] = replies[r][i].created[p]
    <3>1. PICK i \in Listing(r, p) : /\ \A j \in Listing(r, p) : j <= i
                                     /\ createdIds[r][p] = replies[r][i].created[p]
      BY <2>4
    <3>2. Listing(r, p) \subseteq Nat
      <4>1. replies[r] \in Seq(Reply)
        BY DEF TypeInv, ConnTypes
      <4> QED BY <4>1 DEF Listing
    <3> DEFINE last == CHOOSE l \in Listing(r, p) : \A j \in Listing(r, p) : j <= l
    <3>3. last \in Listing(r, p) /\ \A j \in Listing(r, p) : j <= last
      BY <3>1
    <3> HIDE DEF last
    <3>4. last = i
      BY <3>1, <3>2, <3>3
    <3>5. Meaning(r, p) = replies[r][last].created[p]
      BY <1>2, <3>1 DEF Meaning, Listing, last
    <3> QED BY <2>2, <3>1, <3>4, <3>5
  <2> QED BY <2>1, <2>3, <2>4 DEF Means
<1> QED BY <1>1, <1>2

\* A call's made grows by what CreateBox stores.
LEMMA OnlyCreatesMake ==
  ASSUME TypeInv, [Next]_vars, NEW r \in Request, NEW k \in DOMAIN made'[r] \ DOMAIN made[r]
  PROVE  /\ pc[r] # "idle" /\ Resolves(r, arg[r].create[k].parent)
         /\ box'[made'[r][k].id].parent = Resolved(r, arg[r].create[k].parent)
<1>1. made'[r] # made[r]
  OBVIOUS
<1>2. PICK q \in Request : Quiet(q) \/ CallStep(q)
  BY <1>1, NextCases DEF vars, callVars
<1>3. q = r
  BY <1>1, <1>2, QuietKeeps, StepRuns DEF OthersKept
<1>4. CallStep(r)
  <2>1. CallTypes
    BY DEF TypeInv
  <2>2. ASSUME Collect(r) \/ Detached(r) PROVE FALSE
    <3>1. made'[r] = Empty
      BY <2>1, <2>2, EndTaskFields DEF Collect, Detached
    <3> QED BY <3>1, EmptyIn
  <2>3. ASSUME \/ \E b \in Batch, f \in Sent : Send(r, b, f)
               \/ RefuseCall(r) \/ Spawn(r) \/ CallPanic(r) \/ Answer(r) \/ Drop(r)
        PROVE  FALSE
    BY <1>1, <2>3 DEF Send, RefuseCall, Spawn, CallPanic, Panic, Answer, Drop, callVars
  <2> QED BY <1>2, <1>3, <2>2, <2>3 DEF Quiet
<1>5. PICK c \in Cid : CreateBox(r, c)
  <2>1. Step(r)
    BY <1>4 DEF CallStep
  <2>2. ~(\/ CheckState(r) \/ ListBoxes(r) \/ StartUpdates(r) \/ (\E n \in Box : UpdateBox(r, n))
          \/ EndUpdates(r) \/ RelistBoxes(r) \/ (\E n \in Box : DestroyBox(r, n))
          \/ ReadEmails(r) \/ RemoveEmails(r) \/ (\E e \in Email : Unfile(r, e)) \/ EndUnfile(r)
          \/ DropBox(r) \/ EndDestroys(r) \/ Finish(r))
    BY <1>1 DEF CheckState, ListBoxes, StartUpdates, UpdateBox, EndUpdates, RelistBoxes,
       DestroyBox, ReadEmails, RemoveEmails, Unfile, EndUnfile, DropBox, EndDestroys, Finish
  <2> QED BY <2>1, <2>2 DEF Step
<1> DEFINE item == arg[r].create[c]
           p == Resolved(r, item.parent)
           new == [name |-> item.name, parent |-> p, role |-> item.role]
           done == [id |-> minted + 1, parent |-> p]
<1>6. /\ pc[r] = "create" /\ Resolves(r, item.parent)
      /\ box' = Put(box, minted + 1, new) /\ made' = [made EXCEPT ![r] = Put(@, c, done)]
  BY <1>1, <1>5 DEF CreateBox
<1>7. new.parent = p /\ done.id = minted + 1
  OBVIOUS
<1> HIDE DEF new, done
<1>8. made'[r] = Put(made[r], c, done)
  BY <1>6 DEF TypeInv, CallTypes
<1>9. k = c
  BY <1>8 DEF Put
<1>10. made'[r][k] = done /\ box'[minted + 1] = new
  BY <1>6, <1>8, <1>9 DEF Put
<1> QED BY <1>6, <1>7, <1>9, <1>10

\* resolve_id looks in what the call has created and then in a copy of the
\* dispatcher's map, taken when the call was spawned: a mailbox created under
\* "#p" is stored under the mailbox that the answers, read in order, call p,
\* whatever fails or panics in between and however often p is created.
THEOREM RefsMean == Spec => RefsResolve
<1> DEFINE Inv == TypeInv /\ RefInv
           Right ==
             \A r \in Request : \A k \in DOMAIN made'[r] \ DOMAIN made[r] :
               LET p == arg[r].create[k].parent
               IN  p \in Cid => box'[made'[r][k].id].parent = Meaning(r, p)
<1>1. Init => Inv
  <2> SUFFICES ASSUME Init PROVE RefInv
    BY InitTyped
  <2>1. \A r \in Request : pc[r] = "idle" /\ createdIds[r] = Empty
    BY DEF Init, MailboxesInit
  <2> QED BY <2>1, EmptyIn DEF RefInv
<1>2. Inv /\ [Next]_vars => Inv'
  BY NextTyped, RefNext
<1>3. Inv /\ [Next]_vars => Right
  <2> SUFFICES ASSUME Inv, [Next]_vars, NEW r \in Request,
                      NEW k \in DOMAIN made'[r] \ DOMAIN made[r], arg[r].create[k].parent \in Cid
               PROVE  box'[made'[r][k].id].parent = Meaning(r, arg[r].create[k].parent)
    OBVIOUS
  <2>1. /\ pc[r] # "idle" /\ Resolves(r, arg[r].create[k].parent)
        /\ box'[made'[r][k].id].parent = Resolved(r, arg[r].create[k].parent)
    BY OnlyCreatesMake
  <2> QED BY <2>1, MeaningOf DEF Resolves
<1>4. Inv /\ [Next]_vars => [Right]_vars
  BY <1>3
<1> QED BY <1>1, <1>2, <1>4, PTL DEF Spec, RefsResolve

-----------------------------------------------------------------------------
(* A role is given once.                                                   *)

Distinct(f, S) ==
  \A b, c \in S : f[b].role = f[c].role /\ f[b].role # NoRole => b = c

\* The mailboxes whose role r is still to take away.
Waived(r) == IF pc[r] = "create" THEN Vacating(r) ELSE Vacating(r) \cap todo[r]

\* What a call that creates or updates knows of the roles in the store: but for
\* those it is to take away each is given once; each was there when it looked,
\* or was given by it and is noted; and what it counts as freed is free.
Granting(r) ==
  /\ Distinct(seen[r], DOMAIN seen[r])
  /\ Distinct(box, DOMAIN box \ Waived(r))
  /\ \A b \in DOMAIN box : box[b].role # NoRole =>
       \/ b \in DOMAIN seen[r] /\ seen[r][b].role = box[b].role
       \/ Created(r, box[b].role)
       \/ box[b].role \in claimed[r]
  /\ pc[r] = "update" =>
       \A b \in Vacating(r) \ todo[r] : b \in DOMAIN box => box[b].role = NoRole
  /\ pc[r] = "update" =>
       freed[r] \subseteq {seen[r][b].role : b \in (Vacating(r) \cap DOMAIN seen[r]) \ todo[r]}

Grants(r) == pc[r] \in {"create", "update"}

RoleInv ==
  ~overlapped /\ ~balked =>
    /\ \A r \in Request : Grants(r) => Granting(r)
    /\ (\A r \in Request : ~Grants(r)) => Distinct(box, DOMAIN box)

LEMMA CreateRole ==
  ASSUME TypeInv, NEW r \in Request, NEW k \in Cid, CreateBox(r, k), Granting(r)
  PROVE  Granting(r)'
<1>1. StoreTypes /\ CallTypes /\ FitOf(r)
  BY DEF TypeInv, Fits
<1>2. /\ pc[r] = "create" /\ pc' = pc /\ seen' = seen /\ arg' = arg /\ claimed' = claimed
      /\ claimed[r] = {}
  BY <1>1 DEF CreateBox, FitOf
<1>3. Vacating(r)' = Vacating(r) /\ Waived(r)' = Vacating(r) /\ Waived(r) = Vacating(r)
  BY <1>2 DEF Vacating, Waived
<1>4. CASE UNCHANGED <<storeVars, made, mutated>>
  BY <1>2, <1>3, <1>4 DEF Granting, Distinct, Created, storeVars
<1>5. CASE ~UNCHANGED <<storeVars, made, mutated>>
  <2> DEFINE item == arg[r].create[k]
             p == Resolved(r, item.parent)
             new == [name |-> item.name, parent |-> p, role |-> item.role]
             done == [id |-> minted + 1, parent |-> p]
             n == minted + 1
  <2>1. /\ RoleFreeForCreate(r, item.role)
        /\ box' = Put(box, n, new) /\ made' = [made EXCEPT ![r] = Put(@, k, done)]
    BY <1>5 DEF CreateBox
  <2>2. new.role = item.role
    OBVIOUS
  <2> HIDE DEF new, done
  <2>3. made'[r] = Put(made[r], k, done)
    BY <1>1, <2>1 DEF CallTypes
  <2>4. DOMAIN made'[r] = DOMAIN made[r] \cup {k}
    BY <2>3 DEF Put
  <2>5. \A x : Created(r, x)' <=> Created(r, x) \/ x = item.role
    BY <1>2, <2>4 DEF Created
  <2>6. n \notin DOMAIN box
    BY <1>1 DEF StoreTypes
  <2>7. /\ DOMAIN box' = DOMAIN box \cup {n} /\ box'[n].role = item.role
        /\ \A b \in DOMAIN box : box'[b].role = box[b].role
    BY <2>1, <2>2, <2>6 DEF Put
  <2>8. ASSUME NEW b \in DOMAIN box \ Vacating(r), box[b].role = item.role, item.role # NoRole
        PROVE  FALSE
    <3>1. ~Created(r, item.role) /\ (HeldBut(r, item.role, Top) => item.role \in Intended(r))
      BY <2>1, <2>8 DEF RoleFreeForCreate
    <3>2. b \in DOMAIN seen[r] /\ seen[r][b].role = item.role
      BY <1>2, <2>8, <3>1 DEF Granting
    <3>3. b # Top
      BY <1>1 DEF StoreTypes, Top
    <3>4. item.role \in Intended(r)
      BY <3>1, <3>2, <3>3 DEF HeldBut
    <3>5. PICK c \in Vacating(r) \cap DOMAIN seen[r] : seen[r][c].role = item.role
      BY <3>4 DEF Intended
    <3>6. b = c
      BY <2>8, <3>2, <3>5 DEF Granting, Distinct
    <3> QED BY <2>8, <3>5, <3>6
  <2> HIDE DEF n, item
  <2>9. Distinct(box', DOMAIN box' \ Vacating(r))
    BY <1>2, <1>3, <2>7, <2>8 DEF Granting, Distinct
  <2>10. \A b \in DOMAIN box' : box'[b].role # NoRole =>
           \/ b \in DOMAIN seen[r] /\ seen[r][b].role = box'[b].role
           \/ Created(r, box'[b].role) \/ box'[b].role = item.role
    BY <1>2, <2>7 DEF Granting
  <2>11. Distinct(seen[r], DOMAIN seen[r])
    BY DEF Granting
  <2> QED BY <1>2, <1>3, <2>5, <2>9, <2>10, <2>11 DEF Granting, Distinct
<1> QED BY <1>4, <1>5

LEMMA UpdateRole ==
  ASSUME TypeInv, NEW r \in Request, NEW n \in Box, UpdateBox(r, n), Granting(r), ~balked'
  PROVE  Granting(r)'
<1>1. StoreTypes /\ CallTypes /\ FitOf(r)
  BY DEF TypeInv, Fits
<1> DEFINE patch == arg[r].update[n]
           free == patch.valid /\ RoleFreeForUpdate(r, patch.role, n)
           ok == free /\ n \in DOMAIN box
<1>2. /\ pc[r] = "update" /\ pc' = pc /\ seen' = seen /\ arg' = arg /\ made' = made
      /\ n \in todo[r] /\ todo'[r] = todo[r] \ {n}
      /\ n \in Vacating(r) \/ todo[r] \cap Vacating(r) = {}
      /\ claimed'[r] = claimed[r] \cup (IF free THEN {patch.role} \cap Role ELSE {})
  BY <1>1 DEF UpdateBox, CallTypes
<1>3. /\ Vacating(r)' = Vacating(r) /\ Waived(r) = Vacating(r) \cap todo[r]
      /\ Waived(r)' = Vacating(r) \cap (todo[r] \ {n})
      /\ \A x : Created(r, x)' <=> Created(r, x)
  BY <1>2 DEF Vacating, Waived, Created
<1>4. n \in DOMAIN arg[r].update /\ patch \in Patch
  BY <1>1, <1>2, ArgTyped DEF FitOf
<1>5. n \in Vacating(r) <=> patch.role = NoRole
  BY <1>4 DEF Vacating
<1>6. Distinct(seen[r], DOMAIN seen[r])
  BY DEF Granting
<1>7. CASE ~ok
  <2>1. n \notin Vacating(r) /\ box' = box /\ freed' = freed
    BY <1>7 DEF UpdateBox, storeVars
  <2>2. Waived(r)' = Waived(r) /\ Vacating(r) \ todo'[r] = Vacating(r) \ todo[r]
    BY <1>2, <1>3, <2>1
  <2>3. (Vacating(r) \cap DOMAIN seen[r]) \ todo'[r] = (Vacating(r) \cap DOMAIN seen[r]) \ todo[r]
    BY <2>2
  <2> HIDE DEF ok, free, patch
  <2>4. claimed[r] \subseteq claimed'[r]
    BY <1>2
  <2> QED BY <1>2, <1>3, <2>1, <2>2, <2>3, <2>4 DEF Granting, Distinct
<1>8. CASE ok
  <2> DEFINE role == IF patch.role = Same THEN box[n].role ELSE patch.role
  <2>1. /\ n \in DOMAIN box
        /\ box' = [box EXCEPT
             ![n].parent = IF patch.parent = Same THEN @ ELSE Resolved(r, patch.parent),
             ![n].role = IF patch.role = Same THEN @ ELSE patch.role]
        /\ freed' = [freed EXCEPT ![r] = @ \cup
             (IF n \in Vacating(r) \cap DOMAIN seen[r] THEN {seen[r][n].role} ELSE {})]
    BY <1>8 DEF UpdateBox
  <2>2. box[n] \in BoxRecord /\ box \in [DOMAIN box -> BoxRecord]
    BY <1>1, <2>1, MapsDef DEF StoreTypes
  <2>3. /\ DOMAIN box' = DOMAIN box /\ box'[n].role = role
        /\ \A b \in DOMAIN box \ {n} : box'[b].role = box[b].role
    BY <2>1, <2>2 DEF BoxRecord
  <2>4. freed'[r] = freed[r] \cup
          (IF n \in Vacating(r) \cap DOMAIN seen[r] THEN {seen[r][n].role} ELSE {})
    BY <1>1, <2>1 DEF CallTypes
  <2>5. freed'[r] \subseteq {seen[r][b].role : b \in (Vacating(r) \cap DOMAIN seen[r]) \ todo'[r]}
    <3>1. freed[r] \subseteq {seen[r][b].role : b \in (Vacating(r) \cap DOMAIN seen[r]) \ todo[r]}
      BY <1>2 DEF Granting
    <3>2. /\ (Vacating(r) \cap DOMAIN seen[r]) \ todo[r]
               \subseteq (Vacating(r) \cap DOMAIN seen[r]) \ todo'[r]
          /\ n \notin todo'[r]
      BY <1>2
    <3> QED BY <2>4, <3>1, <3>2
  <2>6. \A b \in DOMAIN box : box[b].role # NoRole =>
          \/ b \in DOMAIN seen[r] /\ seen[r][b].role = box[b].role
          \/ Created(r, box[b].role)
          \/ box[b].role \in claimed[r]
    BY DEF Granting
  <2>7. \A b \in Vacating(r) \ todo[r] : b \in DOMAIN box => box[b].role = NoRole
    BY <1>2 DEF Granting
  <2>8. Distinct(box, DOMAIN box \ (Vacating(r) \cap todo[r]))
    BY <1>3 DEF Granting
  <2>9. ASSUME Distinct(box', DOMAIN box \ (Vacating(r) \cap (todo[r] \ {n}))),
               role # NoRole =>
                 \/ n \in DOMAIN seen[r] /\ seen[r][n].role = role
                 \/ Created(r, role)
                 \/ role \in claimed'[r],
               n \in Vacating(r) => role = NoRole
        PROVE  Granting(r)'
    <3> HIDE DEF role, patch, free, ok
    <3>1. \A b \in DOMAIN box' : box'[b].role # NoRole =>
            \/ b \in DOMAIN seen[r] /\ seen[r][b].role = box'[b].role
            \/ Created(r, box'[b].role)
            \/ box'[b].role \in claimed'[r]
      BY <1>2, <1>3, <2>3, <2>6, <2>9
    <3>2. \A b \in Vacating(r) \ todo'[r] : b \in DOMAIN box' => box'[b].role = NoRole
      BY <1>2, <2>3, <2>7, <2>9
    <3> QED BY <1>2, <1>3, <1>6, <2>3, <2>5, <2>9, <3>1, <3>2 DEF Granting, Distinct
  <2>10. CASE n \in Vacating(r)
    <3>1. role = NoRole
      BY <1>5, <2>10, NullAssumption
    <3> HIDE DEF role, patch, free, ok
    <3>2. Distinct(box', DOMAIN box \ (Vacating(r) \cap (todo[r] \ {n})))
      BY <2>3, <2>8, <3>1 DEF Distinct
    <3> QED BY <2>9, <3>1, <3>2
  <2>11. CASE n \notin Vacating(r)
    <3>1. Distinct(box, DOMAIN box) /\ Vacating(r) \cap todo[r] = {}
      <4>1. Vacating(r) \cap todo[r] = {}
        BY <1>2, <2>11
      <4> QED BY <2>8, <4>1 DEF Distinct
    <3>2. ASSUME Distinct(box', DOMAIN box)
          PROVE  Distinct(box', DOMAIN box \ (Vacating(r) \cap (todo[r] \ {n})))
      BY <3>2 DEF Distinct
    <3>3. CASE patch.role = Same
      <4>1. role = box[n].role
        BY <3>3
      <4> HIDE DEF role, patch, free, ok
      <4>2. Distinct(box', DOMAIN box)
        BY <2>3, <3>1, <4>1 DEF Distinct
      <4>3. claimed[r] \subseteq claimed'[r]
        BY <1>2
      <4> QED BY <2>1, <2>6, <2>9, <2>11, <3>2, <4>1, <4>2, <4>3
    <3>4. CASE patch.role # Same
      <4>1. role = patch.role /\ patch.role \in Role /\ free
        BY <1>4, <1>5, <1>8, <2>11, <3>4 DEF Patch
      <4>2. role \in claimed'[r]
        BY <1>2, <4>1
      <4>3. /\ HeldBut(r, role, n) => role \in freed[r]
            /\ role \notin claimed[r] /\ ~Created(r, role) /\ role # NoRole
        BY <4>1, NullAssumption DEF RoleFreeForUpdate
      <4> HIDE DEF role, patch, free, ok
      <4>4. ASSUME NEW b \in DOMAIN box \ {n}, box[b].role = role PROVE FALSE
        <5>1. b \in DOMAIN seen[r] /\ seen[r][b].role = role
          BY <2>6, <4>3, <4>4
        <5>2. role \in freed[r]
          BY <4>3, <4>4, <5>1 DEF HeldBut
        <5>3. PICK c \in (Vacating(r) \cap DOMAIN seen[r]) \ todo[r] : seen[r][c].role = role
          BY <1>2, <5>2 DEF Granting
        <5>4. b = c
          BY <1>6, <4>3, <5>1, <5>3 DEF Distinct
        <5> QED BY <2>7, <4>3, <4>4, <5>3, <5>4
      <4>5. Distinct(box', DOMAIN box)
        BY <2>3, <3>1, <4>4 DEF Distinct
      <4> QED BY <2>9, <2>11, <3>2, <4>2, <4>5
    <3> QED BY <3>3, <3>4
  <2> QED BY <2>10, <2>11
<1> QED BY <1>7, <1>8

LEMMA RoleStep ==
  ASSUME TypeInv, NEW r \in Request, Step(r), ~balked,
         Grants(r) => Granting(r), ~Grants(r) => Distinct(box, DOMAIN box)
  PROVE  ~balked' => /\ Grants(r)' => Granting(r)'
                     /\ ~Grants(r)' => Distinct(box', DOMAIN box')
<1> SUFFICES ASSUME ~balked' PROVE /\ Grants(r)' => Granting(r)'
                                   /\ ~Grants(r)' => Distinct(box', DOMAIN box')
  OBVIOUS
<1>1. StoreTypes /\ CallTypes /\ FitOf(r)
  BY DEF TypeInv, Fits
<1>2. CASE \/ CheckState(r) \/ RelistBoxes(r) \/ (\E n \in Box : DestroyBox(r, n))
           \/ ReadEmails(r) \/ RemoveEmails(r) \/ (\E e \in Email : Unfile(r, e))
           \/ EndUnfile(r) \/ EndDestroys(r) \/ Finish(r)
  <2>1. box' = box /\ ~Grants(r)
    BY <1>2 DEF CheckState, RelistBoxes, DestroyBox, ReadEmails, RemoveEmails, Unfile,
       EndUnfile, EndDestroys, Finish, storeVars, Grants
  <2>2. ~Grants(r)'
    BY <1>1, <1>2 DEF CheckState, RelistBoxes, DestroyBox, ReadEmails, RemoveEmails, Unfile,
       EndUnfile, EndDestroys, Finish, Goto, CallTypes, Grants
  <2> QED BY <2>1, <2>2
<1>3. CASE ListBoxes(r)
  <2>1. /\ pc[r] = "list" /\ pc'[r] = "create" /\ seen'[r] = box /\ box' = box
        /\ arg' = arg
    BY <1>1, <1>3 DEF ListBoxes, Goto, CallTypes, storeVars
  <2>2. Distinct(box, DOMAIN box)
    BY <2>1 DEF Grants
  <2>3. Distinct(seen'[r], DOMAIN seen'[r]) /\ Distinct(box', DOMAIN box' \ Waived(r)')
    BY <2>1, <2>2 DEF Distinct
  <2>4. Granting(r)'
    BY <2>1, <2>3 DEF Granting, Distinct
  <2> QED BY <2>1, <2>4 DEF Grants
<1>4. CASE \E k \in Cid : CreateBox(r, k)
  <2>1. pc' = pc /\ pc[r] = "create"
    BY <1>4 DEF CreateBox
  <2> QED BY <1>4, <2>1, CreateRole DEF Grants
<1>5. CASE StartUpdates(r)
  <2> DEFINE failing == {n \in DOMAIN arg[r].update : ~Resolves(r, arg[r].update[n].parent)}
  <2>1. /\ pc[r] = "create" /\ pc'[r] = "update" /\ box' = box /\ seen' = seen /\ arg' = arg
        /\ made' = made /\ claimed' = claimed /\ freed' = freed
        /\ todo'[r] = DOMAIN arg[r].update \ failing /\ failing \cap Vacating(r) = {}
    BY <1>1, <1>5 DEF StartUpdates, Goto, CallTypes, storeVars
  <2>2. Vacating(r) \cap todo'[r] = Vacating(r) /\ Vacating(r) \ todo'[r] = {}
    BY <2>1 DEF Vacating
  <2> HIDE DEF failing
  <2>3. Waived(r) = Vacating(r) /\ Vacating(r)' = Vacating(r) /\ Waived(r)' = Vacating(r)
    BY <2>1, <2>2 DEF Waived, Vacating
  <2>4. freed[r] = {} /\ Granting(r)
    BY <1>1, <2>1 DEF FitOf, Grants
  <2>5. \A x : Created(r, x)' <=> Created(r, x)
    BY <2>1 DEF Created
  <2>6. Granting(r)'
    BY <2>1, <2>2, <2>3, <2>4, <2>5 DEF Granting, Distinct
  <2> QED BY <2>1, <2>6 DEF Grants
<1>6. CASE \E n \in Box : UpdateBox(r, n)
  <2>1. pc' = pc /\ pc[r] = "update"
    BY <1>6 DEF UpdateBox
  <2> QED BY <1>6, <2>1, UpdateRole DEF Grants
<1>7. CASE EndUpdates(r)
  <2>1. pc[r] = "update" /\ todo[r] = {} /\ box' = box
    BY <1>7 DEF EndUpdates, storeVars
  <2>2. ~Grants(r)'
    BY <1>1, <1>7 DEF EndUpdates, Goto, CallTypes, Grants
  <2>3. Distinct(box, DOMAIN box)
    BY <2>1 DEF Grants, Granting, Waived, Distinct
  <2> QED BY <2>1, <2>2, <2>3
<1>8. CASE DropBox(r)
  <2>1. pc[r] = "drop" /\ pc'[r] = "destroy"
    BY <1>1, <1>8 DEF DropBox, Goto, CallTypes
  <2>2. DOMAIN box' \subseteq DOMAIN box /\ \A b \in DOMAIN box' : box'[b] = box[b]
    BY <1>8 DEF DropBox
  <2> QED BY <2>1, <2>2 DEF Grants, Distinct
<1> QED BY <1>2, <1>3, <1>4, <1>5, <1>6, <1>7, <1>8 DEF Step

\* A request that is not stepping keeps what it knows of an unchanged store.
LEMMA GrantingKept ==
  ASSUME NEW q \in Request, Granting(q), box' = box, pc'[q] = pc[q], seen'[q] = seen[q],
         todo'[q] = todo[q], made'[q] = made[q], freed'[q] = freed[q],
         claimed'[q] = claimed[q], arg'[q] = arg[q]
  PROVE  Granting(q)'
BY DEF Granting, Distinct, Waived, Vacating, Created

LEMMA RoleNext ==
  ASSUME TypeInv, Solo, RoleInv, [Next]_vars
  PROVE  RoleInv'
<1> SUFFICES ASSUME ~overlapped', ~balked'
             PROVE  /\ \A q \in Request : Grants(q)' => Granting(q)'
                    /\ (\A q \in Request : ~Grants(q)') => Distinct(box', DOMAIN box')
  BY DEF RoleInv
<1>1. CASE UNCHANGED vars
  <2>1. \A q \in Request : Granting(q) => Granting(q)'
    BY <1>1, GrantingKept DEF vars, storeVars, callVars
  <2> QED BY <1>1, <2>1 DEF vars, storeVars, callVars, RoleInv, Grants, Distinct
<1>2. ASSUME NEW r \in Request, CallStep(r)
      PROVE  /\ \A q \in Request : Grants(q)' => Granting(q)'
             /\ (\A q \in Request : ~Grants(q)') => Distinct(box', DOMAIN box')
  <2>1. ~overlapped /\ \A q \in Request \ {r} : pc'[q] \in Over /\ pc[q] \in Over
    BY <1>2, OthersRest
  <2>2. \A q \in Request \ {r} : ~Grants(q) /\ ~Grants(q)'
    BY <2>1 DEF Grants, Over
  <2>3. Step(r)
    BY <1>2 DEF CallStep
  <2>4. ~balked
    BY <2>3 DEF Step, CheckState, ListBoxes, CreateBox, StartUpdates, UpdateBox, EndUpdates,
       RelistBoxes, DestroyBox, ReadEmails, RemoveEmails, Unfile, EndUnfile, DropBox,
       EndDestroys, Finish
  <2>5. (Grants(r) => Granting(r)) /\ (~Grants(r) => Distinct(box, DOMAIN box))
    BY <2>1, <2>2, <2>4 DEF RoleInv
  <2>6. (Grants(r)' => Granting(r)') /\ (~Grants(r)' => Distinct(box', DOMAIN box'))
    BY <2>3, <2>4, <2>5, RoleStep
  <2> QED BY <2>2, <2>6
<1>3. ASSUME NEW r \in Request, Quiet(r)
      PROVE  /\ \A q \in Request : Grants(q)' => Granting(q)'
             /\ (\A q \in Request : ~Grants(q)') => Distinct(box', DOMAIN box')
  <2>1. box' = box /\ OthersKept(r) /\ ~overlapped
    BY <1>3, QuietKeeps DEF storeVars
  <2>2. balked' = balked \/ CallPanic(r)
    BY <1>3, EndTaskFields DEF Quiet, Send, RefuseCall, Spawn, Collect, Answer, Drop, Detached,
       callVars, TypeInv
  <2>3. ~balked
    BY <2>2 DEF CallPanic, Panic
  <2>4. /\ \A q \in Request : Grants(q) => Granting(q)
        /\ (\A q \in Request : ~Grants(q)) => Distinct(box, DOMAIN box)
    BY <2>1, <2>3 DEF RoleInv
  <2>5. \A q \in Request \ {r} : (Grants(q)' <=> Grants(q)) /\ (Granting(q) => Granting(q)')
    BY <2>1, GrantingKept DEF OthersKept, Grants
  <2>6. CASE UNCHANGED <<callVars, overlapped>>
    <3>1. (Grants(r)' <=> Grants(r)) /\ (Granting(r) => Granting(r)')
      BY <2>1, <2>6, GrantingKept DEF Grants, callVars
    <3> QED BY <2>1, <2>4, <2>5, <3>1 DEF Distinct
  <2>7. ASSUME ~Grants(r)', ~Grants(r) \/ Distinct(box, DOMAIN box)
        PROVE  /\ \A q \in Request : Grants(q)' => Granting(q)'
               /\ (\A q \in Request : ~Grants(q)') => Distinct(box', DOMAIN box')
    BY <2>1, <2>4, <2>5, <2>7 DEF Distinct
  <2>8. CASE Spawn(r)
    <3>1. pc[r] = "idle" /\ pc'[r] = "state"
      BY <2>8, SpawnFields DEF TypeInv
    <3> QED BY <2>7, <3>1 DEF Grants
  <2>9. CASE CallPanic(r)
    <3>1. pc'[r] = "panicked" /\ (pc[r] \in {"create", "update"} => Vacating(r) = {})
      BY <2>9 DEF CallPanic, Panic, Goto, TypeInv, CallTypes
    <3>2. Grants(r) => Distinct(box, DOMAIN box)
      BY <2>4, <3>1 DEF Grants, Granting, Waived, Distinct
    <3> QED BY <2>7, <3>1, <3>2 DEF Grants
  <2>10. CASE Collect(r) \/ Detached(r)
    <3>1. pc'[r] = "idle" /\ pc[r] \in {"done", "failed", "panicked"}
      BY <2>10, EndTaskFields DEF Collect, Detached, TypeInv
    <3> QED BY <2>7, <3>1 DEF Grants
  <2>11. CASE (\E b \in Batch, f \in Sent : Send(r, b, f)) \/ RefuseCall(r) \/ Answer(r) \/ Drop(r)
    <3>1. UNCHANGED <<callVars, overlapped>>
      BY <2>11 DEF Send, RefuseCall, Answer, Drop
    <3> QED BY <2>6, <3>1
  <2> QED BY <1>3, <2>8, <2>9, <2>10, <2>11 DEF Quiet
<1> QED BY <1>1, <1>2, <1>3, NextCases

LEMMA InitRole ==
  ASSUME Init
  PROVE  RoleInv
<1>1. \A r \in Request : ~Grants(r)
  BY InitAlone DEF Grants
<1>2. PICK n \in 0 .. MaxBox :
        /\ box \in [1 .. n -> [name : Name, parent : 0 .. n, role : Role \cup {NoRole}]]
        /\ \A b, c \in 1 .. n : b # c => box[b].role # box[c].role \/ box[b].role = NoRole
  <2>1. box \in Seed
    BY DEF Init, MailboxesInit
  <2> QED BY <2>1, SeedAssumption
<1>3. Distinct(box, DOMAIN box)
  BY <1>2 DEF Distinct
<1> QED BY <1>1, <1>3 DEF RoleInv

\* handle_mailbox_set checks a role against three sets, roles_intended_to_vacate
\* for creates, roles_successfully_vacated and roles_claimed_this_request for
\* updates, and against a copy of the mailboxes from before its first write:
\* whatever a call creates, frees and claims, and in whichever order, no role is
\* left with two mailboxes, as long as calls do not overlap and each update that
\* was to free a role is made.
THEOREM RolesOnce == Spec => []RoleOnce
<1> DEFINE Inv == TypeInv /\ Solo /\ RoleInv
<1>1. Init => Inv
  BY InitTyped, InitSolo, InitRole
<1>2. Inv /\ [Next]_vars => Inv'
  BY NextTyped, SoloNext, RoleNext
<1>3. Inv => RoleOnce
  <2> SUFFICES ASSUME RoleInv, ~overlapped, ~balked, \A r \in Request : ~Running(r)
               PROVE  \A b, c \in DOMAIN box :
                        box[b].role = box[c].role /\ box[b].role # NoRole => b = c
    BY DEF RoleOnce
  <2>1. \A r \in Request : ~Grants(r)
    BY DEF Running, Over, Grants
  <2> QED BY <2>1 DEF RoleInv, Distinct
<1> QED BY <1>1, <1>2, <1>3, PTL DEF Spec

=============================================================================
