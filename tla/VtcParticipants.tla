--------------------------- MODULE VtcParticipants ---------------------------
(***************************************************************************)
(* The VTCParticipant records of one call, and the VTCParticipant/set      *)
(* requests of several users and devices that join, answer, decline,       *)
(* leave, kick, rejoin, admit and promote.                                 *)
(*                                                                         *)
(* update_participant reads the record, the call and the caller's role,    *)
(* decides, writes the record unconditionally, and then runs its effects   *)
(* on the call from what it reads after the write.  Every backend call is  *)
(* one atomic step and requests interleave between them.  What an end does *)
(* to rooms, recordings and devices is in VtcCalls.                        *)
(***************************************************************************)
EXTENDS Naturals, FiniteSets

CONSTANTS
  User,         \* user ids
  Initiator,    \* the call's initiatorId
  Req,          \* requests that may be in flight together, each run once
  Kinds,        \* call types that are created
  Lobbies,      \* values of lobbyEnabled
  Ops,          \* the operations the requests of a run may perform
  MaxActive,    \* maxParticipantsPerCall
  ManyDevices,  \* whether a user may have several requests in flight
  NoUser        \* a request that names no user

ASSUME InitiatorAssumption == Initiator \in User
ASSUME NoUserAssumption == NoUser \notin User
ASSUME MaxActiveAssumption == MaxActive \in Nat \ {0}
ASSUME KindsAssumption == Kinds \subseteq {"ring", "room", "scheduled"}
ASSUME LobbiesAssumption == Lobbies \subseteq BOOLEAN
ASSUME UserAssumption == IsFiniteSet(User)

VARIABLES
  state,        \* the call's state; "absent" before it is created
  endReason,    \* its endReason
  kind,         \* its callType
  lobby,        \* its lobbyEnabled
  part,         \* part[u]: u's participant record
  count,        \* activeParticipantCount
  responses,    \* responses[u]: answers and declines of u that were accepted
  emptied,      \* the operation that last took the last one out of the call
  req           \* req[r]: the request's program counter and locals

callVars == <<state, endReason, kind, lobby>>
partVars == <<part, count, responses, emptied>>
vars == <<state, endReason, kind, lobby, part, count, responses, emptied, req>>

OpenStates == {"pending", "ringing", "active"}

\* joined: joinedAt is set.  left: leftAt is set.  kicked: kickedBy is set.
Absent == [stored |-> FALSE, joined |-> FALSE, left |-> FALSE, kicked |-> FALSE,
           response |-> "none", waits |-> "none", role |-> "participant"]

Idle == [pc |-> "idle", op |-> "none", by |-> NoUser, of |-> NoUser, old |-> Absent,
         seen |-> "absent", mod |-> FALSE, from |-> {}, reason |-> "none"]

Init ==
  /\ state = "absent" /\ endReason = "none" /\ kind = "room" /\ lobby = FALSE
  /\ part = [u \in User |-> Absent]
  /\ count = 0
  /\ responses = [u \in User |-> 0]
  /\ emptied = "none"
  /\ req = [r \in Req |-> Idle]

-----------------------------------------------------------------------------
(* The store.                                                              *)

\* "joined and not yet left".
IsActive(p) == p.joined /\ ~p.left

ActiveUsers == {u \in User : IsActive(part[u])}

\* The active records after u's write, u's old record counted along.
ActiveAfterBug(u, p) == ActiveUsers \cup (IF IsActive(p) THEN {u} ELSE {})

\* Those active once u's record is replaced.
ActiveAfter(u, p) ==
  (ActiveUsers \ {u}) \cup (IF IsActive(p) THEN {u} ELSE {})

\* active_count_within_quota, as if every write were a new join.
WithinQuotaBug(u, p) == Cardinality(ActiveAfter(u, p)) <= MaxActive + 1

\* A write that does not raise the count is always within the quota.
WithinQuota(u, p) ==
  \/ Cardinality(ActiveAfter(u, p)) <= Cardinality(ActiveUsers)
  \/ Cardinality(ActiveAfter(u, p)) <= MaxActive

\* The insert or update of a record, with activeParticipantCount.
StorePart(u, p, op) ==
  /\ WithinQuota(u, p)
  /\ part' = [part EXCEPT ![u] = p]
  /\ count' = Cardinality(ActiveAfter(u, p))
  /\ emptied' = IF ActiveAfter(u, p) # {} THEN "none"
                ELSE IF ActiveUsers # {} THEN op ELSE emptied

\* The initiator is a moderator by identity, whatever its record says.
IsModerator(u) == u = Initiator \/ part[u].role = "moderator"

\* A target's callResponse taken from the call's state.
RingRecordBug(u, targets) == [Absent EXCEPT !.stored = TRUE, !.response = "ringing"]

\* create_call: a ring call comes with a record per target and its
\* initiator joined.
RingRecord(u, targets) ==
  IF u = Initiator
  THEN [Absent EXCEPT !.stored = TRUE, !.joined = TRUE, !.role = "moderator"]
  ELSE IF u \in targets THEN [Absent EXCEPT !.stored = TRUE, !.response = "pending"]
  ELSE Absent

CreateCall(k, l) ==
  /\ state = "absent"
  /\ kind' = k /\ lobby' = l
  /\ \/ k = "ring" /\ state' = "ringing" /\ count' = 1
        /\ \E targets \in SUBSET (User \ {Initiator}) :
             /\ targets # {}
             /\ part' = [u \in User |-> RingRecord(u, targets)]
     \/ k = "room" /\ state' = "active" /\ UNCHANGED <<part, count>>
     \/ k = "scheduled" /\ state' = "pending" /\ UNCHANGED <<part, count>>
  /\ UNCHANGED <<endReason, responses, emptied, req>>

\* The call is ended from outside its participants: by a moderator's
\* VTCCall/set or by the ring timeout.
EndElsewhere ==
  /\ state \in OpenStates
  /\ state' = "ended"
  /\ \/ state = "active" /\ endReason' = "completed"
     \/ state = "ringing" /\ endReason' \in {"cancelled", "missed"}
     \/ state = "pending" /\ endReason' = "cancelled"
  /\ UNCHANGED <<kind, lobby, partVars, req>>

-----------------------------------------------------------------------------
(* Requests.                                                               *)

Answer(r) == req' = [req EXCEPT ![r] = [Idle EXCEPT !.pc = "done"]]

\* What users do to their own record, and moderators to any.
OwnOps == {"answer", "decline", "leave", "rejoin"}
ModeratorOps == {"kick", "unkick", "admit", "reject", "grant", "revoke"}

Goto(r, pc) == req' = [req EXCEPT ![r].pc = pc]

Free(r, u) ==
  /\ req[r].pc = "idle" /\ state # "absent"
  /\ ManyDevices \/ \A q \in Req : req[q].by = u => req[q].pc \in {"idle", "done"}

\* The call states in which a participant may join.
Joinable(s) ==
  CASE kind = "room" -> s = "active"
    [] kind = "scheduled" -> s \in {"pending", "active"}
    [] kind = "ring" -> s \in {"ringing", "active"}

\* create_participant reads the call and refuses one that cannot be joined.
BeginJoin(r, u) ==
  /\ "join" \in Ops
  /\ Free(r, u) /\ Joinable(state)
  /\ req' = [req EXCEPT ![r].pc = "insert", ![r].op = "join", ![r].by = u,
                        ![r].of = u, ![r].seen = state]
  /\ UNCHANGED <<callVars, partVars>>

\* create_object: one record per user per call.  The call is not read again.
Insert(r) ==
  LET u == req[r].of
      waits == lobby /\ u # Initiator
      p == [Absent EXCEPT !.stored = TRUE, !.joined = ~waits,
              !.waits = IF waits THEN "waiting" ELSE "none",
              !.role = IF u = Initiator THEN "moderator" ELSE "participant"]
  IN
  /\ req[r].pc = "insert"
  /\ \/ ~part[u].stored /\ StorePart(u, p, "join")
        /\ IF req[r].seen = "pending" THEN Goto(r, "activate") ELSE Answer(r)
     \/ (part[u].stored \/ ~WithinQuota(u, p)) /\ Answer(r)
        /\ UNCHANGED <<part, count, emptied>>
  /\ UNCHANGED <<callVars, responses>>

\* What each operation asks of the record as it was read ...
RecordFits(op, old) ==
  CASE op \in {"answer", "decline"} -> old.response = "pending"
    [] op \in {"leave", "kick"}     -> ~old.left
    [] op = "rejoin"                -> old.left /\ ~old.kicked
    [] op \in {"admit", "reject"}   -> old.waits = "waiting"
    [] OTHER                        -> TRUE

\* ... and of the call.
CallFits(op, s) ==
  CASE op \in {"answer", "decline"} -> s \in {"ringing", "active"}
    [] op = "rejoin"                -> Joinable(s)
    [] OTHER                        -> TRUE

\* update_participant reads the record, then the call, then the caller's role.
\* A request its record or its call refuses changes nothing.
Begin(r, by, u, op) ==
  /\ op \in Ops
  /\ Free(r, by) /\ part[u].stored /\ RecordFits(op, part[u])
  /\ req' = [req EXCEPT ![r].pc = "readCall", ![r].op = op, ![r].by = by,
                        ![r].of = u, ![r].old = part[u]]
  /\ UNCHANGED <<callVars, partVars>>

ReadCall(r) ==
  /\ req[r].pc = "readCall"
  /\ IF CallFits(req[r].op, state)
     THEN req' = [req EXCEPT ![r].pc = "check", ![r].seen = state]
     ELSE Answer(r)
  /\ UNCHANGED <<callVars, partVars>>

\* Moderators act on others' records; some operations are theirs alone.
Check(r) ==
  LET me == req[r]
      mod == IsModerator(me.by)
      last == me.by = me.of /\ me.op = "revoke" /\ me.old.role = "moderator"
  IN
  /\ me.pc = "check"
  /\ IF mod \/ me.op \in OwnOps
     THEN req' = [req EXCEPT ![r].pc = IF last THEN "heirs" ELSE "write",
                            ![r].mod = mod]
     ELSE Answer(r)
  /\ UNCHANGED <<callVars, partVars>>

\* A moderator who gives up the role must have read another one in the call.
ReadHeirs(r) ==
  /\ req[r].pc = "heirs"
  /\ IF \E u \in User \ {req[r].of} :
          part[u].stored /\ part[u].role = "moderator" /\ ~part[u].left
     THEN Goto(r, "write") ELSE Answer(r)
  /\ UNCHANGED <<callVars, partVars>>

\* The patch, on the record as it is stored now.
Patched(me, p) ==
  CASE me.op = "answer"  -> [p EXCEPT !.joined = TRUE, !.response = "accepted"]
    [] me.op = "decline" -> [p EXCEPT !.left = TRUE, !.response = "declined"]
    [] me.op = "leave"   -> [p EXCEPT !.left = TRUE]
    [] me.op = "kick"    -> [p EXCEPT !.left = TRUE, !.kicked = TRUE]
    [] me.op = "rejoin"  ->
         IF lobby /\ ~me.mod
         THEN [p EXCEPT !.left = FALSE, !.joined = FALSE, !.waits = "waiting"]
         ELSE [p EXCEPT !.left = FALSE, !.joined = TRUE]
    [] me.op = "unkick"  -> [p EXCEPT !.kicked = FALSE]
    [] me.op = "admit"   -> [p EXCEPT !.joined = TRUE, !.waits = "admitted"]
    [] me.op = "reject"  -> [p EXCEPT !.left = TRUE, !.waits = "rejected"]
    [] me.op = "grant"   -> [p EXCEPT !.role = "moderator"]
    [] me.op = "revoke"  -> [p EXCEPT !.role = "participant"]

\* effects.activate, decided from the call read before the write.
Activates(me) ==
  \/ me.op = "answer" /\ me.seen = "ringing"
  \/ me.op \in {"join", "rejoin"} /\ me.seen = "pending"

\* effects.left.
Leaves(me) == me.op \in {"leave", "kick"}

Write(r) ==
  LET me == req[r]
      p == Patched(me, part[me.of])
  IN
  /\ me.pc = "write"
  /\ \/ /\ StorePart(me.of, p, me.op)
        /\ IF Activates(me) \/ Leaves(me) \/ me.op = "decline"
           THEN Goto(r, "reload") ELSE Answer(r)
        /\ responses' = IF me.op \in {"answer", "decline"}
                        THEN [responses EXCEPT ![me.of] = @ + 1] ELSE responses
     \/ ~WithinQuota(me.of, p) /\ Answer(r) /\ UNCHANGED partVars
  /\ UNCHANGED callVars

\* run_effects: a call that has ended takes no transition.
Reload(r) ==
  LET me == req[r] IN
  /\ me.pc = "reload"
  /\ IF state = "ended" \/ (me.op = "decline" /\ state # "ringing") THEN Answer(r)
     ELSE req' = [req EXCEPT ![r].seen = state,
                    ![r].pc = IF Leaves(me) THEN "leavers"
                              ELSE IF me.op = "decline" THEN "targets"
                              ELSE "activate"]
  /\ UNCHANGED <<callVars, partVars>>

StartableBug(op) == {"ringing"}

\* The states a join, and an answer or rejoin, make "active".
Startable(op) == IF op = "join" THEN {"pending"} ELSE {"pending", "ringing"}

\* set_call_state to "active", by a join, an answer or a rejoin.
Activate(r) ==
  /\ req[r].pc = "activate"
  /\ state' = IF state \in Startable(req[r].op) THEN "active" ELSE state
  /\ Answer(r)
  /\ UNCHANGED <<endReason, kind, lobby, partVars>>

EndFrom(r, from, why) ==
  req' = [req EXCEPT ![r].pc = "endRead", ![r].from = from, ![r].reason = why]

\* The records without a response, the initiator's, counted with the targets.
AllDeclinedBug == \A u \in User : part[u].response = "declined"

AllDeclined ==
  \A u \in User : part[u].response \in {"none", "declined"}

\* After a decline of a ringing call: have all targets declined?
ReadTargets(r) ==
  /\ req[r].pc = "targets"
  /\ IF AllDeclined THEN EndFrom(r, {"ringing"}, "declined") ELSE Answer(r)
  /\ UNCHANGED <<callVars, partVars>>

\* after_leave: an emptied ring or scheduled call ends; a call left without a
\* moderator gets the heir who joined earliest, any of those in the call here.
ReadLeavers(r) ==
  LET me == req[r] IN
  /\ me.pc = "leavers"
  /\ \/ /\ ActiveUsers = {}
        /\ IF kind = "room" THEN Answer(r)
           ELSE IF me.seen = "ringing" THEN EndFrom(r, {"ringing"}, "cancelled")
           ELSE EndFrom(r, {"pending", "active"}, "completed")
     \/ /\ ActiveUsers # {}
        /\ me.old.role # "moderator" \/ \E u \in ActiveUsers : part[u].role = "moderator"
        /\ Answer(r)
     \/ /\ me.old.role = "moderator"
        /\ \A u \in ActiveUsers : part[u].role # "moderator"
        /\ \E heir \in ActiveUsers : req' = [req EXCEPT ![r].pc = "promote", ![r].of = heir]
  /\ UNCHANGED <<callVars, partVars>>

Promote(r) ==
  /\ req[r].pc = "promote"
  /\ part' = [part EXCEPT ![req[r].of].role = "moderator"]
  /\ Answer(r)
  /\ UNCHANGED <<callVars, count, responses, emptied>>

\* A call answered since it was read ringing is not ended.
EndRefusedBug(r) == Answer(r)

\* A refused "cancelled" is retried as the end of an answered call.
EndRefused(r) ==
  IF req[r].reason = "cancelled" THEN EndFrom(r, {"pending", "active"}, "completed")
  ELSE Answer(r)

\* end_call: the read, and the end by compare-and-set.
EndRead(r) ==
  /\ req[r].pc = "endRead"
  /\ IF state \in req[r].from THEN Goto(r, "end") ELSE EndRefused(r)
  /\ UNCHANGED <<callVars, partVars>>

\* An end that does not compare the stored state again.
MayEndBug(r) == state \in OpenStates

\* update_object_if's comparison.
MayEnd(r) == state \in req[r].from

End(r) ==
  /\ req[r].pc = "end"
  /\ \/ MayEnd(r) /\ state' = "ended" /\ endReason' = req[r].reason /\ Answer(r)
     \/ ~MayEnd(r) /\ EndRefused(r) /\ UNCHANGED <<state, endReason>>
  /\ UNCHANGED <<kind, lobby, partVars>>

-----------------------------------------------------------------------------

Step(r) ==
  \/ Insert(r) \/ ReadCall(r) \/ Check(r) \/ ReadHeirs(r) \/ Write(r) \/ Reload(r)
  \/ Activate(r) \/ ReadTargets(r) \/ ReadLeavers(r) \/ Promote(r)
  \/ EndRead(r) \/ End(r)

Next ==
  \/ \E k \in Kinds, l \in Lobbies : CreateCall(k, l)
  \/ EndElsewhere
  \/ \E r \in Req, u \in User : BeginJoin(r, u)
  \/ \E r \in Req, u \in User, op \in OwnOps : Begin(r, u, u, op)
  \/ \E r \in Req, by, u \in User, op \in ModeratorOps :
       (op = "kick" => by # u) /\ Begin(r, by, u, op)
  \/ \E r \in Req : Step(r)

Spec == Init /\ [][Next]_vars

-----------------------------------------------------------------------------

Participant == [stored : BOOLEAN, joined : BOOLEAN, left : BOOLEAN, kicked : BOOLEAN,
                response : {"none", "pending", "accepted", "declined"},
                waits : {"none", "waiting", "admitted", "rejected"},
                role : {"moderator", "participant"}]

States == {"absent", "ended"} \cup OpenStates
Reasons == {"none", "completed", "cancelled", "missed", "declined"}
Pcs == {"idle", "insert", "readCall", "check", "heirs", "write", "reload", "activate",
        "targets", "leavers", "promote", "endRead", "end", "done"}

Request == [pc : Pcs, op : {"none", "join"} \cup OwnOps \cup ModeratorOps,
            by : User \cup {NoUser}, of : User \cup {NoUser}, old : Participant,
            seen : States, mod : BOOLEAN, from : SUBSET OpenStates, reason : Reasons]

\* Every variable, and every local of a request, has its type.
TypeOK ==
  /\ state \in States /\ endReason \in Reasons
  /\ kind \in {"ring", "room", "scheduled"} /\ lobby \in BOOLEAN
  /\ part \in [User -> Participant]
  /\ count \in Nat
  /\ responses \in [User -> Nat]
  /\ emptied \in {"none", "join"} \cup OwnOps \cup ModeratorOps
  /\ req \in [Req -> Request]

\* activeParticipantCount is the number of participants in the call, whatever
\* joins, leaves, kicks and rejoins interleave.
CountExact == count = Cardinality(ActiveUsers)

\* No write raises the number in the call beyond maxParticipantsPerCall, however
\* many joins, answers, rejoins and admissions are in flight.
QuotaHolds == [][count' > count => state = "absent" \/ count' <= MaxActive]_vars

Lifecycle == INSTANCE VtcLifecycle
  WITH Call <- {Initiator}, status <- [c \in {Initiator} |-> state],
       endReason <- [c \in {Initiator} |-> endReason]

\* What participants do to the call are steps of the call's life: an end lands
\* only in a state its reason fits, also when it was chosen from an older one.
ImplementsLifecycle == Lifecycle!Spec

AtRest == \A r \in Req : req[r].pc \in {"idle", "done"}

\* "When the last active participant leaves a ring or scheduled call, the
\* server transitions the VTCCall to ended": so nobody who was in one is the
\* last to go while it goes on.
EmptyCallEnds ==
  AtRest /\ kind # "room" /\ emptied # "none" => state = "ended"

\* The same of a call emptied by a departure or a kick, whoever answers, joins
\* or rejoins while after_leave reads and ends.
DesertedCallEnds == emptied \in {"leave", "kick"} => EmptyCallEnds

\* A ring all of whose targets have declined is over, in whatever order the
\* declines were read and written.
AllDeclinedEnds ==
  AtRest /\ state = "ringing" =>
    \E u \in User : part[u].response \in {"pending", "accepted"}

\* A call still waiting to start has nobody in it: the join, answer or rejoin
\* that made it start is never lost.
StartedWhenJoined ==
  AtRest =>
    /\ state = "pending" => ActiveUsers = {}
    /\ state = "ringing" => \A u \in User : part[u].response # "accepted"

\* "The first device to answer wins": one response per target is accepted.
FirstAnswerWins == \A u \in User : responses[u] <= 1
=============================================================================
