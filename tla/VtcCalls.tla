------------------------------ MODULE VtcCalls ------------------------------
(***************************************************************************)
(* VTC calls of one account: the VTCCall, VTCRecording and VTCLivestream   *)
(* records of crate-jmap-vtc-server, and the requests that end calls.      *)
(*                                                                         *)
(* A request is an async handler.  Every backend call it makes is one      *)
(* atomic step (MemoryBackend holds one Mutex per backend call) and other  *)
(* requests run between two of them, so a request is a program counter     *)
(* with the values it read, and each of its actions is one backend call.   *)
(* Requests that touch the store once (creating or destroying a call, a    *)
(* participant's answer or join) are single actions.                       *)
(***************************************************************************)
EXTENDS Naturals, Sequences, FiniteSets

CONSTANTS
  Call,         \* call ids the backend may mint, each at most once
  Recording,    \* recording ids
  Livestream,   \* livestream ids
  Req,          \* requests that may be in flight together, each run once
  Kinds,        \* call types that are created: ring, room, scheduled
  Ops,          \* the operations the requests of a run may perform
  NoCall,       \* the absent parentCallId
  NoMedia       \* a request that names no recording or livestream

ASSUME NoCallAssumption == NoCall \notin Call
ASSUME KindsAssumption == Kinds \subseteq {"ring", "room", "scheduled"}
ASSUME MediaAssumption == Recording \cap Livestream = {}

VARIABLES
  status,       \* status[c]: VTCCall state; "absent" before, "destroyed" after
  kind,         \* kind[c]: callType
  parent,       \* parent[c]: parentCallId
  rooms,        \* rooms[c]: breakoutRoomIds
  endReason,    \* endReason[c]
  ringEnds,     \* ringEnds[c]: endReasons of the VTCCallEndEvents delivered
  mcall,        \* mcall[m]: callId of a recording or livestream
  mstate,       \* mstate[m]: its state
  committed,    \* committed[m]: states of a recording, in commit order
  announced,    \* announced[m]: states of its VTCRecordingStateEvents, in order
  req           \* req[r]: the request's program counter and locals

callVars  == <<status, kind, parent, rooms, endReason>>
mediaVars == <<mcall, mstate, committed, announced>>
vars == <<status, kind, parent, rooms, endReason, ringEnds,
          mcall, mstate, committed, announced, req>>

Media == Recording \cup Livestream

OpenStates == {"pending", "ringing", "active"}
Status     == {"absent", "destroyed", "ended"} \cup OpenStates
Reasons    == {"none", "completed", "cancelled", "missed", "declined", "timeout"}
LiveStates == {"recording", "paused", "starting", "live"}
MediaState == LiveStates \cup {"absent", "stopped", "failed", "destroyed"}

Stored(c) == status[c] \in OpenStates \cup {"ended"}
Live(m)   == mstate[m] \in LiveStates

Idle == [pc |-> "idle", op |-> "none", call |-> NoCall,
         seen |-> [c \in Call |-> "absent"], frontier |-> {}, plan |-> <<>>,
         room |-> NoCall, todo |-> {}, from |-> {}, reason |-> "none",
         item |-> NoMedia, due |-> "absent"]

Init ==
  /\ status = [c \in Call |-> "absent"]
  /\ kind = [c \in Call |-> "room"]
  /\ parent = [c \in Call |-> NoCall]
  /\ rooms = [c \in Call |-> {}]
  /\ endReason = [c \in Call |-> "none"]
  /\ ringEnds = [c \in Call |-> {}]
  /\ mcall = [m \in Media |-> NoCall]
  /\ mstate = [m \in Media |-> "absent"]
  /\ committed = [m \in Media |-> <<>>]
  /\ announced = [m \in Media |-> <<>>]
  /\ req = [r \in Req |-> Idle]

-----------------------------------------------------------------------------
(* The store: what one backend call does.                                  *)

\* A breakout room that ends or is destroyed leaves its parent's
\* breakoutRoomIds.
LeaveParentBug(c) == rooms

LeaveParent(c) ==
  [d \in Call |-> IF d = parent[c] THEN rooms[d] \ {c} ELSE rooms[d]]

\* Inner::update of a call to "ended".
StoreEnd(c, why) ==
  /\ status' = [status EXCEPT ![c] = "ended"]
  /\ endReason' = [endReason EXCEPT ![c] = why]
  /\ rooms' = LeaveParent(c)
  /\ UNCHANGED <<kind, parent>>

\* A committed media transition; a recording's is also due an event.
StoreMedia(m, s) ==
  /\ mstate' = [mstate EXCEPT ![m] = s]
  /\ committed' = IF m \in Recording THEN [committed EXCEPT ![m] = Append(@, s)]
                                     ELSE committed

InitialStateBug(k) == CASE k = "ring" -> "creating" [] k = "room" -> "active"
                        [] OTHER -> "pending"

InitialState(k) == CASE k = "ring" -> "ringing" [] k = "room" -> "active"
                     [] OTHER -> "pending"

\* The backend's create_call: one insert, with the room's id pushed onto its
\* parent's breakoutRoomIds.  Only the parent's existence is checked again.
StoreCreate(c, k, p) ==
  /\ p # NoCall => Stored(p)
  /\ status' = [status EXCEPT ![c] = InitialState(k)]
  /\ kind' = [kind EXCEPT ![c] = k]
  /\ parent' = [parent EXCEPT ![c] = p]
  /\ rooms' = [d \in Call |-> IF d = p THEN rooms[d] \cup {c} ELSE rooms[d]]

\* The backend's destroy_object of a call: its id leaves the parent's
\* breakoutRoomIds.
StoreDestroy(c) ==
  /\ status' = [status EXCEPT ![c] = "destroyed"]
  /\ rooms' = [LeaveParent(c) EXCEPT ![c] = {}]

\* create_call.  The handler's checks read whether the parent exists and whom
\* the call belongs to; neither they nor the store look at the parent's state.
CreateCall(c, k, p) ==
  /\ status[c] = "absent"
  /\ StoreCreate(c, k, p)
  /\ UNCHANGED <<endReason, ringEnds, mediaVars, req>>

\* set_call_state: an answer activates a ringing call, a join a pending one;
\* a call in another state is left as it is.
Activatable(c) == status[c] \in {"ringing", "pending"}

Activate(c) ==
  /\ Activatable(c)
  /\ status' = [status EXCEPT ![c] = "active"]
  /\ UNCHANGED <<kind, parent, rooms, endReason, ringEnds, mediaVars, req>>

\* destroy_call: the record goes.  Its rooms and its media stay as they are.
DestroyCall(c) ==
  /\ Stored(c)
  /\ StoreDestroy(c)
  /\ UNCHANGED <<kind, parent, endReason, ringEnds, mediaVars, req>>

\* The backend moves a livestream on its own: it connects, or it fails.
StreamProgress(m) ==
  /\ m \in Livestream
  /\ \/ mstate[m] = "starting" /\ StoreMedia(m, "live")
     \/ mstate[m] \in {"starting", "live"} /\ StoreMedia(m, "failed")
  /\ UNCHANGED <<callVars, ringEnds, mcall, announced, req>>

-----------------------------------------------------------------------------
(* Requests that end a call: update_call with state "ended", end_call on   *)
(* the server's initiative, and expire_ring.                               *)

\* A request that has answered keeps nothing.
Done == [Idle EXCEPT !.pc = "done"]

Answer(r) == req' = [req EXCEPT ![r] = Done]

\* end_reason_for: the reason a caller's end takes from the call's state.
EndReasonFor(s) == CASE s = "active" -> "completed"
                     [] s \in {"ringing", "pending"} -> "cancelled"

\* The (from, reason) pairs end_call is called with: a room's inactivity
\* timeout, every target declining, the last participant leaving a call that
\* rings, and leaving one that does not.
ServerEnds == {[from |-> {"active"}, reason |-> "timeout"],
               [from |-> {"ringing"}, reason |-> "declined"],
               [from |-> {"ringing"}, reason |-> "cancelled"],
               [from |-> {"pending", "active"}, reason |-> "completed"]}

BeginUpdate(r, c) ==
  /\ "update" \in Ops
  /\ req[r].pc = "idle" /\ status[c] # "absent"
  /\ req' = [req EXCEPT ![r].pc = "fetch", ![r].op = "update", ![r].call = c]
  /\ UNCHANGED <<callVars, ringEnds, mediaVars>>

BeginServerEnd(r, c) ==
  /\ "server" \in Ops
  /\ req[r].pc = "idle" /\ status[c] # "absent"
  /\ \E e \in ServerEnds :
       req' = [req EXCEPT ![r].pc = "fetch", ![r].op = "server", ![r].call = c,
                          ![r].from = e.from, ![r].reason = e.reason]
  /\ UNCHANGED <<callVars, ringEnds, mediaVars>>

BeginExpire(r, c) ==
  /\ "expire" \in Ops
  /\ req[r].pc = "idle" /\ status[c] # "absent"
  /\ req' = [req EXCEPT ![r].pc = "expire", ![r].op = "expire", ![r].call = c,
                        ![r].from = {"ringing"}, ![r].reason = "missed"]
  /\ UNCHANGED <<callVars, ringEnds, mediaVars>>

\* expire_ring past the deadline: reads the call and picks what to do.  An
\* answered call gets a timeout event if some target has not responded.
ExpireRead(r) ==
  LET c == req[r].call IN
  /\ req[r].pc = "expire"
  /\ \/ status[c] = "destroyed" /\ Answer(r)
     \/ Stored(c) /\ (kind[c] # "ring" \/ status[c] \notin {"ringing", "active"})
        /\ Answer(r)
     \/ kind[c] = "ring" /\ status[c] = "ringing"
        /\ req' = [req EXCEPT ![r].pc = "fetch"]
     \/ kind[c] = "ring" /\ status[c] = "active"
        /\ \/ Answer(r)
           \/ req' = [req EXCEPT ![r].pc = "ringEnd"]
  /\ UNCHANGED <<callVars, ringEnds, mediaVars>>

\* expire_ring that takes a refused end for an end.
RefusedBug(r) ==
  IF req[r].op = "expire" THEN req' = [req EXCEPT ![r].pc = "ringEnd"]
  ELSE Answer(r)

\* What a refusal does to the three callers: expire_ring reads again, a
\* moderator's update reads again unless nothing changed, end_call gives up.
Refused(r) ==
  CASE req[r].op = "expire" ->
         req' = [req EXCEPT ![r] = [Idle EXCEPT !.pc = "expire", !.op = "expire",
                   !.call = req[r].call, !.from = {"ringing"}, !.reason = "missed"]]
    [] req[r].op = "server" -> Answer(r)
    [] OTHER -> req' = [req EXCEPT ![r].pc = "fetch", ![r].plan = <<>>,
                                   ![r].room = NoCall]

AfterRooms(plan) == IF plan = <<>> THEN "main" ELSE "rooms"

\* The first read of update_call and end_call, and update_call's re-read
\* after a refusal.  The read record carries breakoutRoomIds.
Fetch(r) ==
  LET c == req[r].call
      s == status[c]
      from == IF req[r].op = "update" THEN {s} ELSE req[r].from
      why == IF req[r].op = "update" /\ s \in OpenStates THEN EndReasonFor(s)
             ELSE req[r].reason
  IN
  /\ req[r].pc = "fetch"
  /\ \/ s = "destroyed" /\ Answer(r)
     \/ /\ s = "ended" \/ (s \in OpenStates /\ s \notin from)
        /\ IF req[r].op = "update" THEN Answer(r) ELSE Refused(r)
     \/ s \in OpenStates /\ s = req[r].seen[c] /\ req[r].op = "update"
        /\ Answer(r)
     \/ s \in from \cap OpenStates /\ (req[r].op = "update" => s # req[r].seen[c])
        /\ req' = [req EXCEPT ![r].pc = IF rooms[c] = {} THEN "main" ELSE "collect",
                              ![r].seen[c] = s, ![r].from = from, ![r].reason = why,
                              ![r].frontier = rooms[c]]
  /\ UNCHANGED <<callVars, ringEnds, mediaVars>>

Planned(plan) == UNION {plan[i] : i \in DOMAIN plan}

\* end_cascade reads one level of the room tree.
Collect(r) ==
  LET me == req[r]
      found == {c \in me.frontier : status[c] \in OpenStates}
                 \ ({me.call} \cup Planned(me.plan))
      next == UNION {rooms[c] : c \in found}
      plan == IF found = {} THEN me.plan ELSE Append(me.plan, found)
  IN
  /\ me.pc = "collect"
  /\ req' = [req EXCEPT
       ![r].pc = IF next = {} THEN AfterRooms(plan) ELSE "collect",
       ![r].frontier = next, ![r].plan = plan,
       ![r].seen = [c \in Call |-> IF c \in found THEN status[c] ELSE me.seen[c]]]
  /\ UNCHANGED <<callVars, ringEnds, mediaVars>>

\* Rooms are ended deepest first: the last level read.
DeepestBug(plan) == 1

Deepest(plan) == Len(plan)

WithoutBug(plan, c) == plan

\* The plan without room c of its deepest level.
Without(plan, c) ==
  LET n == Deepest(plan) IN
  IF plan[n] = {c} THEN SubSeq(plan, 1, n - 1) \o SubSeq(plan, n + 1, Len(plan))
  ELSE [plan EXCEPT ![n] = @ \ {c}]

\* end_cascade ends the rooms deepest first; a room that changed since it was
\* read is tried again from its new state.
EndRoom(r, c) ==
  LET me == req[r] IN
  /\ me.pc = "rooms"
  /\ me.plan # <<>> /\ c \in me.plan[Deepest(me.plan)]
  /\ \/ status[c] = "destroyed" /\ Answer(r) /\ UNCHANGED callVars
     \/ status[c] \in OpenStates \cap {me.seen[c]} /\ StoreEnd(c, EndReasonFor(status[c]))
        /\ req' = [req EXCEPT ![r].pc = "readRecordings", ![r].room = c,
                              ![r].plan = Without(me.plan, c)]
     \/ status[c] = "ended"
        /\ req' = [req EXCEPT ![r].pc = "readRecordings", ![r].room = c,
                              ![r].plan = Without(me.plan, c)]
        /\ UNCHANGED callVars
     \/ status[c] \in OpenStates \ {me.seen[c]}
        /\ req' = [req EXCEPT ![r].seen[c] = status[c]]
        /\ UNCHANGED callVars
  /\ UNCHANGED <<ringEnds, mediaVars>>

\* update_object_if: the stored state is one the end was chosen for.
ExpectedBug(r) == TRUE

Expected(r) == status[req[r].call] \in req[r].from

\* end_cascade ends the call itself, only from the states its reason fits.
EndMain(r) ==
  LET me == req[r]
      c == me.call
  IN
  /\ me.pc = "main"
  /\ \/ status[c] = "destroyed" /\ Answer(r) /\ UNCHANGED callVars
     \/ Stored(c) /\ Expected(r) /\ StoreEnd(c, me.reason)
        /\ req' = [req EXCEPT ![r].pc = "readRecordings", ![r].room = c]
     \/ Stored(c) /\ ~Expected(r) /\ Refused(r) /\ UNCHANGED callVars
  /\ UNCHANGED <<ringEnds, mediaVars>>

\* A call that was read ringing still owes its devices a VTCCallEndEvent.
OwesRingEndBug(me) == me.op = "expire"

OwesRingEnd(me) ==
  me.op = "expire" \/ (me.seen[me.call] = "ringing" /\ me.reason = "cancelled")

\* One call of the cascade is done: the next room, the call itself, or the
\* answer.
NextCall(me) ==
  IF me.room # me.call
  THEN [me EXCEPT !.pc = AfterRooms(me.plan), !.room = NoCall, !.todo = {}]
  ELSE IF OwesRingEnd(me) THEN [me EXCEPT !.pc = "ringEnd", !.todo = {}]
  ELSE Done

\* The request with the recordings (livestreams) it still has to stop.
WithRecordings(me, todo) ==
  [me EXCEPT !.pc = IF todo = {} THEN "readStreams" ELSE "stopRecordings",
             !.todo = todo, !.item = NoMedia]

WithStreams(me, todo) ==
  IF todo = {} THEN NextCall(me)
  ELSE [me EXCEPT !.pc = "stopStreams", !.todo = todo]

LiveOnBug(c, ids) == {m \in ids : mcall[m] = c /\ mstate[m] \in LiveStates \ {"paused"}}

LiveOn(c, ids) == {m \in ids : mcall[m] = c /\ Live(m)}

\* stop_recordings and stop_livestreams: the live ones are read once and
\* then stopped one by one.
ReadRecordings(r) ==
  /\ req[r].pc = "readRecordings"
  /\ req' = [req EXCEPT ![r] = WithRecordings(@, LiveOn(@.room, Recording))]
  /\ UNCHANGED <<callVars, ringEnds, mediaVars>>

ReadStreams(r) ==
  /\ req[r].pc = "readStreams"
  /\ req' = [req EXCEPT ![r] = WithStreams(@, LiveOn(@.room, Livestream))]
  /\ UNCHANGED <<callVars, ringEnds, mediaVars>>

\* stop_recording: stopped by somebody else meanwhile means no event; gone
\* means an error, which abandons whatever the cascade still had to do.
StopRecording(r, m) ==
  /\ req[r].pc = "stopRecordings" /\ m \in req[r].todo
  /\ \/ mstate[m] = "destroyed" /\ Answer(r)
        /\ UNCHANGED <<mstate, committed>>
     \/ Live(m) /\ StoreMedia(m, "stopped")
        /\ req' = [req EXCEPT ![r].pc = "announceStop", ![r].item = m,
                              ![r].todo = @ \ {m}]
     \/ mstate[m] = "stopped"
        /\ req' = [req EXCEPT ![r] = WithRecordings(@, @.todo \ {m})]
        /\ UNCHANGED <<mstate, committed>>
  /\ UNCHANGED <<callVars, ringEnds, mcall, announced>>

AnnounceStop(r) ==
  /\ req[r].pc = "announceStop"
  /\ announced' = [announced EXCEPT ![req[r].item] = Append(@, "stopped")]
  /\ req' = [req EXCEPT ![r] = WithRecordings(@, @.todo)]
  /\ UNCHANGED <<callVars, ringEnds, mcall, mstate, committed>>

\* stop_livestream: no event; one that stopped or failed is left as it is.
StopStream(r, m) ==
  /\ req[r].pc = "stopStreams" /\ m \in req[r].todo
  /\ \/ mstate[m] = "destroyed" /\ Answer(r)
        /\ UNCHANGED <<mstate, committed>>
     \/ Live(m) /\ StoreMedia(m, "stopped")
        /\ req' = [req EXCEPT ![r] = WithStreams(@, @.todo \ {m})]
     \/ mstate[m] \in {"stopped", "failed"}
        /\ req' = [req EXCEPT ![r] = WithStreams(@, @.todo \ {m})]
        /\ UNCHANGED <<mstate, committed>>
  /\ UNCHANGED <<callVars, ringEnds, mcall, announced>>

\* deliver_call_end.
RingEnd(r) ==
  /\ req[r].pc = "ringEnd"
  /\ ringEnds' = [ringEnds EXCEPT ![req[r].call] =
                    @ \cup {IF req[r].op = "expire" THEN "timeout" ELSE "cancelled"}]
  /\ Answer(r)
  /\ UNCHANGED <<callVars, mediaVars>>

-----------------------------------------------------------------------------
(* Requests on recordings and livestreams.  fetch_moderated refuses them   *)
(* once the call is gone.                                                  *)

Announce(r, m, s) ==
  /\ req[r].pc = "announce" /\ req[r].item = m /\ req[r].due = s
  /\ announced' = [announced EXCEPT ![m] = Append(@, s)]
  /\ Answer(r)
  /\ UNCHANGED <<callVars, ringEnds, mcall, mstate, committed>>

AnnouncingBug(r, o, m, s) == Answer(r)

\* The request has committed recording state s: its event comes next.
Announcing(r, o, m, s) ==
  req' = [req EXCEPT ![r].pc = "announce", ![r].op = o, ![r].item = m,
                     ![r].due = s]

\* The backend inserts a recording or livestream only on an active call.
MayStart(m, c) == mstate[m] = "absent" /\ status[c] = "active"

CreateRecording(r, m) ==
  m \in Recording /\ StoreMedia(m, "recording") /\ Announcing(r, "record", m, "recording")

CreateLivestream(r, m) ==
  m \in Livestream /\ StoreMedia(m, "starting") /\ Answer(r)

CreateMedia(r, m, c) ==
  /\ "record" \in Ops
  /\ req[r].pc = "idle" /\ MayStart(m, c)
  /\ mcall' = [mcall EXCEPT ![m] = c]
  /\ CreateRecording(r, m) \/ CreateLivestream(r, m)
  /\ UNCHANGED <<callVars, ringEnds, announced>>

\* The transitions update_recording lists, each from the states before it.
RecordingFrom(s) == CASE s = "paused" -> {"recording"}
                      [] s = "recording" -> {"paused"}
                      [] s = "stopped" -> {"recording", "paused"}

\* Each a compare-and-set from the states the transition is listed from.
UpdateRecording(r, m, s) ==
  /\ m \in Recording /\ mstate[m] \in RecordingFrom(s)
  /\ StoreMedia(m, s) /\ Announcing(r, s, m, s)

UpdateLivestream(r, m, s) ==
  /\ m \in Livestream /\ s = "stopped" /\ mstate[m] \in {"starting", "live"}
  /\ StoreMedia(m, s) /\ Answer(r)

\* fetch_moderated lets the update through while the call is stored.
UpdateMedia(r, m, s) ==
  /\ s \in Ops
  /\ req[r].pc = "idle" /\ mcall[m] # NoCall /\ Stored(mcall[m])
  /\ UpdateRecording(r, m, s) \/ UpdateLivestream(r, m, s)
  /\ UNCHANGED <<callVars, ringEnds, mcall, announced>>

\* destroy_media: the read decides whether the stop comes first.
BeginDrop(r, m) ==
  /\ "drop" \in Ops
  /\ req[r].pc = "idle" /\ mstate[m] \notin {"absent", "destroyed"}
  /\ Stored(mcall[m])
  /\ req' = [req EXCEPT ![r].pc = IF Live(m) THEN "dropStop" ELSE "drop",
                        ![r].op = "drop", ![r].item = m]
  /\ UNCHANGED <<callVars, ringEnds, mediaVars>>

DropStop(r) ==
  LET m == req[r].item IN
  /\ req[r].pc = "dropStop"
  /\ \/ mstate[m] = "destroyed" /\ Answer(r)
        /\ UNCHANGED <<mstate, committed>>
     \/ Live(m) /\ StoreMedia(m, "stopped")
        /\ req' = [req EXCEPT ![r].pc = IF m \in Recording THEN "dropAnnounce"
                                                           ELSE "drop"]
     \/ mstate[m] \in {"stopped", "failed"} /\ req' = [req EXCEPT ![r].pc = "drop"]
        /\ UNCHANGED <<mstate, committed>>
  /\ UNCHANGED <<callVars, ringEnds, mcall, announced>>

DropAnnounce(r) ==
  /\ req[r].pc = "dropAnnounce"
  /\ announced' = [announced EXCEPT ![req[r].item] = Append(@, "stopped")]
  /\ req' = [req EXCEPT ![r].pc = "drop"]
  /\ UNCHANGED <<callVars, ringEnds, mcall, mstate, committed>>

Drop(r) ==
  LET m == req[r].item IN
  /\ req[r].pc = "drop"
  /\ IF mstate[m] = "destroyed"
     THEN Answer(r) /\ UNCHANGED mstate
     ELSE Answer(r) /\ mstate' = [mstate EXCEPT ![m] = "destroyed"]
  /\ UNCHANGED <<callVars, ringEnds, mcall, committed, announced>>

-----------------------------------------------------------------------------

\* The steps of a request already accepted.
Step(r) ==
  \/ ExpireRead(r) \/ Fetch(r) \/ Collect(r) \/ EndMain(r)
  \/ \E c \in Call : EndRoom(r, c)
  \/ ReadRecordings(r) \/ AnnounceStop(r) \/ ReadStreams(r) \/ RingEnd(r)
  \/ \E m \in Media : StopRecording(r, m) \/ StopStream(r, m)
  \/ \E m \in Media, s \in LiveStates \cup {"stopped"} : Announce(r, m, s)
  \/ DropStop(r) \/ DropAnnounce(r) \/ Drop(r)

Accept(r) ==
  \/ \E c \in Call : BeginUpdate(r, c) \/ BeginServerEnd(r, c) \/ BeginExpire(r, c)
  \/ \E m \in Media, c \in Call : CreateMedia(r, m, c)
  \/ \E m \in Media, s \in {"paused", "recording", "stopped"} : UpdateMedia(r, m, s)
  \/ \E m \in Media : BeginDrop(r, m)

\* Rooms are opened while an end is under way only in runs whose Ops say so.
MayOpenRoom == "lateRoom" \in Ops \/ \A r \in Req : req[r].pc = "idle"

Next ==
  \/ \E c \in Call, k \in Kinds : CreateCall(c, k, NoCall)
  \/ \E c, p \in Call, k \in Kinds : MayOpenRoom /\ CreateCall(c, k, p)
  \/ \E c \in Call : Activate(c)
  \/ \E c \in Call : "destroyCall" \in Ops /\ DestroyCall(c)
  \/ \E m \in Media : StreamProgress(m)
  \/ \E r \in Req : Accept(r)
  \/ \E r \in Req : Step(r)

Spec == Init /\ [][Next]_vars

\* The executor polls every accepted handler until it answers; nothing makes
\* a client send a request.
FairSpec == Spec /\ \A r \in Req : WF_vars(Step(r))

-----------------------------------------------------------------------------

Pcs == {"idle", "expire", "fetch", "collect", "rooms", "main",
        "readRecordings", "stopRecordings", "announceStop", "readStreams",
        "stopStreams", "ringEnd", "announce", "dropStop", "dropAnnounce",
        "drop", "done"}
OpNames == {"none", "update", "server", "expire", "record", "paused",
            "recording", "stopped", "drop"}
Plans == Seq(SUBSET Call)

\* What a request keeps between two of its steps.
Request == [
  pc : Pcs, op : OpNames, call : Call \cup {NoCall}, seen : [Call -> Status],
  frontier : SUBSET Call, plan : Plans, room : Call \cup {NoCall},
  todo : SUBSET Media, from : SUBSET Status, reason : Reasons,
  item : Media \cup {NoMedia}, due : MediaState]

\* Every variable, and every local of a request, has its type.
TypeOK ==
  /\ status \in [Call -> Status]
  /\ kind \in [Call -> {"ring", "room", "scheduled"}]
  /\ parent \in [Call -> Call \cup {NoCall}]
  /\ rooms \in [Call -> SUBSET Call]
  /\ endReason \in [Call -> Reasons]
  /\ ringEnds \in [Call -> SUBSET {"timeout", "cancelled"}]
  /\ mcall \in [Media -> Call \cup {NoCall}]
  /\ mstate \in [Media -> MediaState]
  /\ committed \in [Media -> Seq(MediaState)]
  /\ announced \in [Media -> Seq(MediaState)]
  /\ req \in [Req -> Request]

\* A stored call's breakoutRoomIds are exactly its rooms that have not ended
\* and still exist, whatever creates, ends and destroys interleave: the list
\* end_cascade trusts to find what it must end.
BreakoutListExact ==
  \A c \in Call : Stored(c) =>
    rooms[c] = {d \in Call : parent[d] = c /\ status[d] \in OpenStates}

\* A call that has ended stays ended, for the same reason, until it is
\* destroyed: no late answer, join, timeout or second end reaches it.
EndedIsFinal ==
  [][\A c \in Call : status[c] = "ended" =>
       status'[c] \in {"ended", "destroyed"} /\ endReason'[c] = endReason[c]]_vars

Lifecycle == INSTANCE VtcLifecycle

\* Every step, whatever interleaves, is one the life of a call allows: the
\* endReason stored with an end fits the state the call was in at that moment,
\* not the one some request read earlier, so an answered ring is never "missed"
\* and an active call never "cancelled".
ImplementsLifecycle == Lifecycle!Spec

\* A call ends only after every room under it: end_cascade collects the tree
\* and ends it deepest first.  Holds while no room is opened behind its reads.
RoomsEndFirst ==
  [][\A c, d \in Call :
       /\ status[c] \in OpenStates /\ status'[c] = "ended" /\ parent[d] = c
       => status[d] \notin OpenStates]_vars

\* VTCCallEndEvents tell the devices what happened: "cancelled" only for a ring
\* that was cancelled, "timeout" never for one cancelled or declined.
RingEndTruthful ==
  \A c \in Call :
    /\ "cancelled" \in ringEnds[c] => endReason[c] = "cancelled"
    /\ "timeout" \in ringEnds[c] => endReason[c] \notin {"cancelled", "declined"}

AtRest == \A r \in Req : req[r].pc \in {"idle", "done"}

\* The devices of every cancelled ring are told, once the requests are
\* answered.
CancelledRingsTold(c) ==
  AtRest /\ kind[c] = "ring" /\ endReason[c] = "cancelled" =>
    "cancelled" \in ringEnds[c]

\* For a ring that is nobody's breakout room.
TopRingsTold == \A c \in Call : parent[c] = NoCall => CancelledRingsTold(c)

\* For every ring, a ring opened as a breakout room included.
AllRingsTold == \A c \in Call : CancelledRingsTold(c)

WillStop(r, m) ==
  /\ req[r].room = mcall[m]
  /\ \/ req[r].pc = "readRecordings"
     \/ req[r].pc \in {"stopRecordings", "announceStop", "stopStreams"}
        /\ m \in req[r].todo
     \/ req[r].pc \in {"stopRecordings", "announceStop", "readStreams"}
        /\ m \in Livestream

\* A recording or livestream still running on an ended call is one some
\* request is about to stop: none starts, or resumes, behind the end.
NothingRunsOn ==
  \A m \in Media :
    mcall[m] # NoCall /\ Live(m) /\ status[mcall[m]] = "ended" =>
      \E r \in Req : WillStop(r, m)

Count(seq, s) == Cardinality({i \in DOMAIN seq : seq[i] = s})

WillAnnounce(m, s) ==
  {r \in Req : /\ req[r].item = m
               /\ \/ req[r].pc = "announce" /\ req[r].due = s
                  \/ req[r].pc \in {"announceStop", "dropAnnounce"} /\ s = "stopped"}

\* Each recording change is announced exactly once, by the request that made
\* it: two stops racing, or a stop racing a destroy, announce one stop.
EveryChangeAnnounced ==
  \A m \in Recording, s \in {"recording", "paused", "stopped"} :
    Count(committed[m], s) = Count(announced[m], s) + Cardinality(WillAnnounce(m, s))

\* The consent signal agrees with the recording once the requests are answered.
LastEventIsCurrent ==
  AtRest => \A m \in Recording : announced[m] # <<>> /\ mstate[m] # "destroyed" =>
    announced[m][Len(announced[m])] = mstate[m]

\* An ended call has nothing running once the requests are answered.
NothingRunsAtRest ==
  AtRest => \A m \in Media : mcall[m] # NoCall /\ status[mcall[m]] = "ended" =>
    ~Live(m)

\* Every accepted request is answered: the compare-and-set retries of
\* update_call, end_cascade and expire_ring all end.
AllAnswered == \A r \in Req : req[r].pc # "idle" ~> req[r].pc = "done"
=============================================================================
