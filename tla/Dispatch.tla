------------------------------ MODULE Dispatch ------------------------------
(***************************************************************************)
(* The request dispatcher, with the Mailbox/set calls of Mailboxes as what *)
(* it runs.  A request is a batch of calls.  The dispatcher runs them in   *)
(* order, each as a task of its own with a copy of the creation ids so     *)
(* far, and collects the answers.  The connection may go away at any time: *)
(* the call that is running goes on, its answer is lost, and the calls     *)
(* after it are never run.  The client may then send the same batch again, *)
(* in another request, while that call is still running.                   *)
(***************************************************************************)
EXTENDS Mailboxes, Sequences

CONSTANTS
  Batch,       \* the batches clients send: sequences of calls
  Sent,        \* the createdIds clients send: creation id -> mailbox id
  Panicking    \* requests whose calls may panic

ASSUME BatchAssumption ==
  /\ Batch \subseteq Seq(Call) \ {<<>>}
  /\ \A b \in Batch : \A i \in DOMAIN b : b[i].after < i
  /\ \A f \in Sent : DOMAIN f \subseteq Cid /\ f \in [DOMAIN f -> Box]
  /\ Request \subseteq Nat /\ Panicking \subseteq Request

VARIABLES
  conn,        \* conn[r]: "none", "open", "dropped" or "answered"
  batch,       \* batch[r]: the calls of r
  sent,        \* sent[r]: its createdIds
  createdIds,  \* createdIds[r]: the map as far as the dispatcher has got
  replies,     \* replies[r]: method_responses
  overlapped,  \* two calls have run at a time
  applied      \* the calls with ifInState that have changed a mailbox

connVars == <<conn, batch, sent, createdIds, replies>>
vars == <<storeVars, callVars, connVars, overlapped, applied>>

Init ==
  /\ MailboxesInit
  /\ conn = [r \in Request |-> "none"]
  /\ batch = [r \in Request |-> <<>>]
  /\ sent = [r \in Request |-> Empty]
  /\ createdIds = sent
  /\ replies = [r \in Request |-> <<>>]
  /\ overlapped = FALSE
  /\ applied = {}

-----------------------------------------------------------------------------
\* The call the dispatcher of r has got to.
Position(r) == Len(replies[r]) + 1
Current(r) == batch[r][Position(r)]

\* A batch arrives; the client sends it again when the connection is gone or
\* it has its answer.
Send(r, b, f) ==
  /\ conn[r] = "none"
  /\ \A q \in Request :
       q < r => conn[q] \in {"dropped", "answered"} /\ b = batch[q] /\ f = sent[q]
  /\ conn' = [conn EXCEPT ![r] = "open"]
  /\ batch' = [batch EXCEPT ![r] = b]
  /\ sent' = [sent EXCEPT ![r] = f]
  /\ createdIds' = [createdIds EXCEPT ![r] = f]
  /\ UNCHANGED <<storeVars, callVars, replies, overlapped, applied>>

\* resolve_args: the call named must have answered, and not with an error.
ArgsResolve(r, c) == c.after > 0 => replies[r][c.after].ok

Answered(ok, ids_, state) == [ok |-> ok, created |-> ids_, newState |-> state]

Waiting(r) == conn[r] = "open" /\ pc[r] = "idle" /\ Position(r) \in DOMAIN batch[r]

\* A call that is not run: a bad reference, or an unknown or forbidden method.
RefuseCall(r) ==
  /\ Waiting(r)
  /\ ~ArgsResolve(r, Current(r)) \/ ~Current(r).known
  /\ replies' = [replies EXCEPT ![r] = Append(@, Answered(FALSE, Empty, NoState))]
  /\ UNCHANGED <<storeVars, callVars, conn, batch, sent, createdIds, overlapped, applied>>

\* The call becomes a task, with the creation ids so far.
Spawn(r) ==
  LET c == Current(r)
  IN  /\ Waiting(r)
      /\ ArgsResolve(r, c) /\ c.known
      /\ arg' = [arg EXCEPT ![r] =
           IF c.after = 0 THEN c ELSE [c EXCEPT !.ifInState = replies[r][c.after].newState]]
      /\ ids' = [ids EXCEPT ![r] = createdIds[r]]
      /\ Goto(r, "state")
      /\ overlapped' = (overlapped \/ \E q \in Request \ {r} : Running(q))
      /\ UNCHANGED <<storeVars, seen, todo, made, mutated, freed, claimed, at, found, newState,
                     balked, connVars, applied>>

CallStep(r) == Step(r) /\ UNCHANGED <<connVars, overlapped, applied>>

CallPanic(r) ==
  /\ r \in Panicking /\ Panic(r)
  /\ UNCHANGED <<connVars, overlapped, applied>>

\* The task is gone, and what it worked with.
EndTask(r) ==
  /\ Goto(r, "idle")
  /\ applied' = applied \cup
       (IF mutated[r] /\ arg[r].ifInState # NoState
        THEN {[request |-> r, call |-> Position(r), state |-> arg[r].ifInState]} ELSE {})
  /\ ids' = [ids EXCEPT ![r] = Empty]
  /\ seen' = [seen EXCEPT ![r] = Empty]
  /\ todo' = [todo EXCEPT ![r] = {}]
  /\ made' = [made EXCEPT ![r] = Empty]
  /\ mutated' = [mutated EXCEPT ![r] = FALSE]
  /\ freed' = [freed EXCEPT ![r] = {}]
  /\ claimed' = [claimed EXCEPT ![r] = {}]
  /\ at' = [at EXCEPT ![r] = Top]
  /\ found' = [found EXCEPT ![r] = Empty]
  /\ UNCHANGED <<storeVars, arg, newState, balked, overlapped>>

Made(r) == [k \in DOMAIN made[r] |-> made[r][k].id]

\* The first mapping of a creation id stays.
ListedBug(f, g) == [k \in DOMAIN f \cup DOMAIN g |-> IF k \in DOMAIN f THEN f[k] ELSE g[k]]

\* extract_created_ids_into: what the call created replaces what was there.
Listed(f, g) == [k \in DOMAIN f \cup DOMAIN g |-> IF k \in DOMAIN g THEN g[k] ELSE f[k]]

CollectBug(r) ==
  /\ conn[r] = "open" /\ pc[r] \in {"done", "failed"}
  /\ replies' = [replies EXCEPT ![r] = Append(@,
       IF pc[r] = "done" THEN Answered(TRUE, Made(r), newState[r])
                         ELSE Answered(FALSE, Empty, NoState))]
  /\ createdIds' = [createdIds EXCEPT ![r] = IF pc[r] = "done" THEN Listed(@, Made(r)) ELSE @]
  /\ EndTask(r)
  /\ UNCHANGED <<conn, batch, sent>>

\* The answer of the task: what it created is listed; a failed call and a
\* panic are errors.
Collect(r) ==
  /\ conn[r] = "open" /\ pc[r] \in {"done", "failed", "panicked"}
  /\ replies' = [replies EXCEPT ![r] = Append(@,
       IF pc[r] = "done" THEN Answered(TRUE, Made(r), newState[r])
                         ELSE Answered(FALSE, Empty, NoState))]
  /\ createdIds' = [createdIds EXCEPT ![r] = IF pc[r] = "done" THEN Listed(@, Made(r)) ELSE @]
  /\ EndTask(r)
  /\ UNCHANGED <<conn, batch, sent>>

Answer(r) ==
  /\ conn[r] = "open" /\ Position(r) > Len(batch[r])
  /\ conn' = [conn EXCEPT ![r] = "answered"]
  /\ UNCHANGED <<storeVars, callVars, batch, sent, createdIds, replies, overlapped, applied>>

\* The future of dispatch is dropped, and no task with it.
Drop(r) ==
  /\ conn[r] = "open"
  /\ conn' = [conn EXCEPT ![r] = "dropped"]
  /\ UNCHANGED <<storeVars, callVars, batch, sent, createdIds, replies, overlapped, applied>>

\* The end of a task nobody waits for.
Detached(r) ==
  /\ conn[r] = "dropped" /\ pc[r] \in {"done", "failed", "panicked"}
  /\ EndTask(r)
  /\ UNCHANGED connVars

Next ==
  \E r \in Request :
    \/ \E b \in Batch, f \in Sent : Send(r, b, f)
    \/ RefuseCall(r) \/ Spawn(r) \/ CallStep(r) \/ CallPanic(r)
    \/ Collect(r) \/ Answer(r) \/ Drop(r) \/ Detached(r)

Progress(r) ==
  RefuseCall(r) \/ Spawn(r) \/ CallStep(r) \/ Collect(r) \/ Answer(r) \/ Detached(r)

\* Tokio runs a dispatcher and every task it has spawned until they end.
Spec == Init /\ [][Next]_vars /\ \A r \in Request : WF_vars(Progress(r))

-----------------------------------------------------------------------------
TypeOK ==
  /\ DOMAIN box \subseteq Box /\ DOMAIN filed \subseteq Email
  /\ \A b \in DOMAIN box : box[b] \in [name : Name, parent : Box \cup {Top},
                                       role : Role \cup {NoRole}]
  /\ \A e \in DOMAIN filed : filed[e] \subseteq Box
  /\ stamp \in Nat /\ minted \in 0 .. MaxBox
  /\ \A r \in Request :
       /\ DOMAIN createdIds[r] \subseteq Cid /\ Range(createdIds[r]) \subseteq Box
       /\ DOMAIN made[r] \subseteq DOMAIN arg[r].create
       /\ freed[r] \cup claimed[r] \subseteq Role \cup {NoRole}
       /\ Len(replies[r]) <= Len(batch[r])
       /\ Running(r) => conn[r] \in {"open", "dropped"}
  /\ balked \in BOOLEAN /\ overlapped \in BOOLEAN

\* At most one mailbox has a role, once every call is over, when no two ran
\* at a time and no update that was to free a role failed: the creates, the
\* freeing updates and the claiming updates of a call, which go by three
\* different sets of roles, do not give one twice.
RoleOnce ==
  ~overlapped /\ ~balked /\ (\A r \in Request : ~Running(r)) =>
    \A b, c \in DOMAIN box : box[b].role = box[c].role /\ box[b].role # NoRole => b = c

\* The same whatever else a single call is asked to do, as the handler's
\* documentation has it.
RoleUnique ==
  ~overlapped /\ (\A r \in Request : ~Running(r)) =>
    \A b, c \in DOMAIN box : box[b].role = box[c].role /\ box[b].role # NoRole => b = c

\* No mailbox is destroyed over a child of it, one made or moved under it by
\* the same call included.
NoChildLeft ==
  [][~overlapped => \A b \in DOMAIN box \ DOMAIN box' :
                      \A c \in DOMAIN box' : box'[c].parent # b]_vars

\* While calls do not overlap every email is in a mailbox, and in none that
\* is gone, at each moment of a cascade and after one cut short by a panic.
EmailHome ==
  ~overlapped => \A e \in DOMAIN filed : filed[e] # {} /\ filed[e] \subseteq DOMAIN box

\* What "#p" means in a call of r: what the call itself has created as p, else
\* what the last answer that lists p says, else the client's own mapping.
Meaning(r, p) ==
  LET listing == {i \in DOMAIN replies[r] : p \in DOMAIN replies[r][i].created}
  IN  IF p \in DOMAIN made[r] THEN made[r][p].id
      ELSE IF listing # {} THEN replies[r][CHOOSE i \in listing : \A j \in listing : j <= i].created[p]
      ELSE sent[r][p]

\* A mailbox created under "#p" is stored under the mailbox that "#p" means
\* to the client that reads the answers in order.
RefsResolve ==
  [][\A r \in Request : \A k \in DOMAIN made'[r] \ DOMAIN made[r] :
       LET p == arg[r].create[k].parent
       IN  p \in Cid => box'[made'[r][k].id].parent = Meaning(r, p)]_vars

\* Of the calls conditional on one state no two change a mailbox, however
\* often the client sends them, unless it sends one while another runs.
OnceEach == ~overlapped => \A a, b \in applied : a.state = b.state => a = b

\* A batch is answered unless the client goes away, and a call that runs ends
\* even then.
CallsSettle == <>[](\A r \in Request : conn[r] # "open" /\ ~Running(r))
=============================================================================
