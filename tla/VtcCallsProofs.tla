--------------------------- MODULE VtcCallsProofs ---------------------------
(***************************************************************************)
(* Proofs about VtcCalls, for any number of calls, media and requests.     *)
(***************************************************************************)
EXTENDS VtcCalls, TLAPS

-----------------------------------------------------------------------------
(* The locals of a request.                                                *)

\* The program counters of a request that is ending a call.
EndingPcs == {"expire", "fetch", "collect", "rooms", "main", "readRecordings",
              "stopRecordings", "announceStop", "readStreams", "stopStreams",
              "ringEnd"}

\* A request that is ending a call names one, and the reason it carries fits
\* every state it would end the call from.
LocalOK(q) ==
  /\ q.pc \in EndingPcs => q.call \in Call
  /\ q.from \subseteq OpenStates
  /\ \A s \in q.from : q.reason \in Lifecycle!ReasonFits(s)

LocalsOK == \A r \in Req : LocalOK(req[r])

\* The empty plan is a plan, and a plan grows by a level of calls.
LEMMA PlanType ==
  /\ <<>> \in Plans
  /\ \A p \in Plans, s \in SUBSET Call : Append(p, s) \in Plans
BY DEF Plans

\* Each local can be replaced by a value of its type.
LEMMA SetFields ==
  ASSUME NEW q \in Request
  PROVE  /\ \A x \in Pcs : [q EXCEPT !.pc = x] \in Request
         /\ \A x \in OpNames : [q EXCEPT !.op = x] \in Request
         /\ \A x \in Call \cup {NoCall} : [q EXCEPT !.call = x] \in Request
         /\ \A x \in [Call -> Status] : [q EXCEPT !.seen = x] \in Request
         /\ \A x \in SUBSET Call : [q EXCEPT !.frontier = x] \in Request
         /\ \A x \in Plans : [q EXCEPT !.plan = x] \in Request
         /\ \A x \in Call \cup {NoCall} : [q EXCEPT !.room = x] \in Request
         /\ \A x \in SUBSET Media : [q EXCEPT !.todo = x] \in Request
         /\ \A x \in SUBSET Status : [q EXCEPT !.from = x] \in Request
         /\ \A x \in Reasons : [q EXCEPT !.reason = x] \in Request
         /\ \A x \in Media \cup {NoMedia} : [q EXCEPT !.item = x] \in Request
         /\ \A x \in MediaState : [q EXCEPT !.due = x] \in Request
BY DEF Request

\* A blank request, and one that has answered, are requests.
LEMMA IdleType == Idle \in Request /\ Done \in Request
<1>1. [c \in Call |-> "absent"] \in [Call -> Status]
  BY DEF Status
<1>2. Idle \in Request
  BY <1>1, PlanType DEF Idle, Request, Reasons, MediaState, Pcs, OpNames
<1>3. Done \in Request
  BY <1>2 DEF Done, Request, Pcs
<1> QED BY <1>2, <1>3

\* One request's locals are replaced by locals of the right type.
LEMMA ReplaceType ==
  ASSUME req \in [Req -> Request], NEW r \in Req, NEW q \in Request,
         req' = [req EXCEPT ![r] = q]
  PROVE  req' \in [Req -> Request]
OBVIOUS

\* Answering a request keeps the requests well typed.
LEMMA AnswerType ==
  ASSUME req \in [Req -> Request], NEW r \in Req, Answer(r)
  PROVE  req' \in [Req -> Request]
BY IdleType DEF Answer

\* So does refusing its write.
LEMMA RefusedType ==
  ASSUME req \in [Req -> Request], NEW r \in Req, Refused(r),
         req[r].op = "expire" => req[r].call \in Call
  PROVE  req' \in [Req -> Request]
<1>. DEFINE q == req[r]
            blank == [Idle EXCEPT !.pc = "expire", !.op = "expire",
                       !.call = q.call, !.from = {"ringing"}, !.reason = "missed"]
<1>1. CASE q.op = "expire"
  <2>1. [Idle EXCEPT !.pc = "expire", !.op = "expire", !.call = q.call] \in Request
    BY <1>1, IdleType DEF Request, Pcs, OpNames
  <2>2. blank \in Request
    BY <2>1 DEF Request, Status, OpenStates, Reasons
  <2>3. req' = [req EXCEPT ![r] = blank]
    BY <1>1 DEF Refused
  <2> HIDE DEF blank
  <2> QED BY <2>2, <2>3
<1>2. CASE q.op = "server"
  BY <1>2, AnswerType DEF Refused
<1>3. CASE q.op \notin {"expire", "server"}
  <2>1. req' = [req EXCEPT ![r].pc = "fetch", ![r].plan = <<>>, ![r].room = NoCall]
    BY <1>3 DEF Refused
  <2>2. [q EXCEPT !.pc = "fetch"] \in Request
    BY SetFields DEF Pcs
  <2>3. [q EXCEPT !.pc = "fetch", !.plan = <<>>] \in Request
    BY <2>2, PlanType, SetFields
  <2>4. [q EXCEPT !.pc = "fetch", !.plan = <<>>, !.room = NoCall] \in Request
    BY <2>3, SetFields
  <2> QED BY <2>1, <2>4
<1> QED BY <1>1, <1>2, <1>3

\* A call's end carries a reason, and one that fits the state it ends.
LEMMA EndReasonForFits ==
  ASSUME NEW s \in OpenStates
  PROVE  /\ EndReasonFor(s) \in Reasons
         /\ EndReasonFor(s) \in Lifecycle!ReasonFits(s)
BY DEF OpenStates, EndReasonFor, Reasons, Lifecycle!ReasonFits

\* The three requests that end a call start with a call to end.
LEMMA BeginType ==
  ASSUME req \in [Req -> Request], NEW r \in Req, NEW c \in Call,
         BeginUpdate(r, c) \/ BeginServerEnd(r, c) \/ BeginExpire(r, c)
  PROVE  req' \in [Req -> Request]
<1>1. req[r] \in Request
  OBVIOUS
<1>2. CASE BeginUpdate(r, c)
  <2>1. [[[req[r] EXCEPT !.pc = "fetch"] EXCEPT !.op = "update"]
           EXCEPT !.call = c] \in Request
    BY <1>1, SetFields DEF Pcs, OpNames
  <2> QED BY <1>2, <2>1 DEF BeginUpdate
<1>3. CASE BeginServerEnd(r, c)
  <2>1. PICK e \in ServerEnds :
          req' = [req EXCEPT ![r].pc = "fetch", ![r].op = "server", ![r].call = c,
                             ![r].from = e.from, ![r].reason = e.reason]
    BY <1>3 DEF BeginServerEnd
  <2>2. e.from \in SUBSET Status /\ e.reason \in Reasons
    BY DEF ServerEnds, Status, OpenStates, Reasons
  <2>3. [[[[[req[r] EXCEPT !.pc = "fetch"] EXCEPT !.op = "server"]
             EXCEPT !.call = c] EXCEPT !.from = e.from] EXCEPT !.reason = e.reason]
        \in Request
    BY <1>1, <2>2, SetFields DEF Pcs, OpNames
  <2> QED BY <2>1, <2>3
<1>4. CASE BeginExpire(r, c)
  <2>1. {"ringing"} \in SUBSET Status /\ "missed" \in Reasons
    BY DEF Status, OpenStates, Reasons
  <2>2. [[[[[req[r] EXCEPT !.pc = "expire"] EXCEPT !.op = "expire"]
             EXCEPT !.call = c] EXCEPT !.from = {"ringing"}] EXCEPT !.reason = "missed"]
        \in Request
    BY <1>1, <2>1, SetFields DEF Pcs, OpNames
  <2> QED BY <1>4, <2>2 DEF BeginExpire
<1> QED BY <1>2, <1>3, <1>4

\* expire_ring's read only chooses what it does next.
LEMMA ExpireReadType ==
  ASSUME req \in [Req -> Request], NEW r \in Req, ExpireRead(r)
  PROVE  req' \in [Req -> Request]
<1>1. CASE Answer(r)
  BY <1>1, AnswerType
<1>2. ASSUME NEW p \in {"fetch", "ringEnd"}, req' = [req EXCEPT ![r].pc = p]
      PROVE  req' \in [Req -> Request]
  <2>1. [req[r] EXCEPT !.pc = p] \in Request
    BY SetFields DEF Pcs
  <2> QED BY <1>2, <2>1
<1> QED BY <1>1, <1>2 DEF ExpireRead

\* The first read keeps what it read of the call.
LEMMA FetchType ==
  ASSUME TypeOK, LocalsOK, NEW r \in Req, Fetch(r)
  PROVE  req' \in [Req -> Request]
<1>. DEFINE c == req[r].call
            s == status[c]
            from == IF req[r].op = "update" THEN {s} ELSE req[r].from
            why == IF req[r].op = "update" /\ s \in OpenStates THEN EndReasonFor(s)
                   ELSE req[r].reason
            p == IF rooms[c] = {} THEN "main" ELSE "collect"
<1>1. req[r] \in Request /\ c \in Call /\ req \in [Req -> Request]
  BY DEF TypeOK, LocalsOK, LocalOK, Fetch, EndingPcs
<1>2. CASE Answer(r)
  BY <1>1, <1>2, AnswerType
<1>3. CASE Refused(r)
  BY <1>1, <1>3, RefusedType
<1>4. CASE /\ s \in from \cap OpenStates
           /\ req' = [req EXCEPT ![r].pc = p, ![r].seen[c] = s, ![r].from = from,
                                 ![r].reason = why, ![r].frontier = rooms[c]]
  <2>1. /\ p \in Pcs /\ rooms[c] \in SUBSET Call
        /\ s \in Status /\ from \in SUBSET Status /\ why \in Reasons
        /\ [req[r].seen EXCEPT ![c] = s] \in [Call -> Status]
    BY <1>1, <1>4, EndReasonForFits DEF TypeOK, Pcs, Status, Request
  <2> HIDE DEF p, from, why, s
  <2>2. [[[[[req[r] EXCEPT !.pc = p] EXCEPT !.seen = [req[r].seen EXCEPT ![c] = s]]
             EXCEPT !.from = from] EXCEPT !.reason = why]
             EXCEPT !.frontier = rooms[c]] \in Request
    BY <1>1, <2>1, SetFields
  <2> HIDE DEF c
  <2>3. req' = [req EXCEPT ![r] = [req[r] EXCEPT !.pc = p,
                  !.seen = [req[r].seen EXCEPT ![c] = s], !.from = from,
                  !.reason = why, !.frontier = rooms[c]]]
    BY <1>1, <1>4
  <2> QED BY <1>1, <2>2, <2>3
<1> QED BY <1>2, <1>3, <1>4 DEF Fetch

\* A level of the room tree joins the plan.
LEMMA CollectType ==
  ASSUME TypeOK, NEW r \in Req, Collect(r)
  PROVE  req' \in [Req -> Request]
<1>. DEFINE me == req[r]
            found == {c \in me.frontier : status[c] \in OpenStates}
                       \ ({me.call} \cup Planned(me.plan))
            next == UNION {rooms[c] : c \in found}
            plan == IF found = {} THEN me.plan ELSE Append(me.plan, found)
            p == IF next = {} THEN AfterRooms(plan) ELSE "collect"
            seen == [c \in Call |-> IF c \in found THEN status[c] ELSE me.seen[c]]
<1>1. req[r] \in Request /\ req \in [Req -> Request]
  BY DEF TypeOK
<1>2. me.frontier \in SUBSET Call /\ me.plan \in Plans /\ me.seen \in [Call -> Status]
  BY <1>1 DEF Request
<1>3. found \in SUBSET Call
  BY <1>2
<1>4. next \in SUBSET Call
  BY <1>3 DEF TypeOK
<1>5. plan \in Plans
  BY <1>2, <1>3, PlanType
<1>6. p \in Pcs
  BY DEF Pcs, AfterRooms
<1>7. seen \in [Call -> Status]
  BY <1>2 DEF TypeOK
<1>8. req' = [req EXCEPT ![r].pc = p, ![r].frontier = next, ![r].plan = plan,
                         ![r].seen = seen]
  BY DEF Collect
<1> HIDE DEF p, next, plan, seen, me
<1>9. [[[[req[r] EXCEPT !.pc = p] EXCEPT !.frontier = next] EXCEPT !.plan = plan]
         EXCEPT !.seen = seen] \in Request
  BY <1>1, <1>4, <1>5, <1>6, <1>7, SetFields
<1> QED BY <1>1, <1>8, <1>9

\* A plan without one of its rooms is a plan.
LEMMA WithoutType ==
  ASSUME NEW plan \in Plans, plan # <<>>, NEW c
  PROVE  Without(plan, c) \in Plans
<1>. DEFINE n == Len(plan)
<1>1. n \in 1..Len(plan) /\ plan[n] \in SUBSET Call
  BY DEF Plans
<1>2. CASE plan[n] = {c}
  <2>1. /\ SubSeq(plan, 1, n - 1) \in Seq(SUBSET Call)
        /\ SubSeq(plan, n + 1, Len(plan)) \in Seq(SUBSET Call)
    BY <1>1 DEF Plans
  <2>2. SubSeq(plan, 1, n - 1) \o SubSeq(plan, n + 1, Len(plan)) \in Seq(SUBSET Call)
    BY <2>1
  <2> QED BY <1>2, <2>2 DEF Without, Deepest, Plans
<1>3. CASE plan[n] # {c}
  <2>1. [plan EXCEPT ![n] = plan[n] \ {c}] \in Seq(SUBSET Call)
    BY <1>1 DEF Plans
  <2> QED BY <1>3, <2>1 DEF Without, Deepest, Plans
<1> QED BY <1>2, <1>3

\* Ending a room takes it off the plan; a room found changed keeps its new state.
LEMMA EndRoomType ==
  ASSUME TypeOK, NEW r \in Req, NEW c \in Call, EndRoom(r, c)
  PROVE  req' \in [Req -> Request]
<1>. DEFINE plan == Without(req[r].plan, c)
<1>1. req[r] \in Request /\ req \in [Req -> Request]
  BY DEF TypeOK
<1>2. CASE Answer(r)
  BY <1>1, <1>2, AnswerType
<1>3. CASE req' = [req EXCEPT ![r].pc = "readRecordings", ![r].room = c, ![r].plan = plan]
  <2>1. req[r].plan \in Plans /\ req[r].plan # <<>>
    BY <1>1 DEF EndRoom, Request
  <2>2. plan \in Plans
    BY <2>1, WithoutType
  <2> HIDE DEF plan
  <2>3. [[[req[r] EXCEPT !.pc = "readRecordings"] EXCEPT !.room = c]
           EXCEPT !.plan = plan] \in Request
    BY <1>1, <2>2, SetFields DEF Pcs
  <2> QED BY <1>1, <1>3, <2>3
<1>4. CASE req' = [req EXCEPT ![r].seen[c] = status[c]]
  <2>1. [req[r].seen EXCEPT ![c] = status[c]] \in [Call -> Status]
    BY <1>1 DEF TypeOK, Request
  <2>2. [req[r] EXCEPT !.seen = [req[r].seen EXCEPT ![c] = status[c]]] \in Request
    BY <1>1, <2>1, SetFields
  <2>3. req' = [req EXCEPT ![r] = [req[r] EXCEPT !.seen = [req[r].seen EXCEPT ![c] = status[c]]]]
    BY <1>1, <1>4
  <2> QED BY <1>1, <2>2, <2>3
<1> QED BY <1>2, <1>3, <1>4 DEF EndRoom

\* The call itself ends, or its end is refused.
LEMMA EndMainType ==
  ASSUME TypeOK, LocalsOK, NEW r \in Req, EndMain(r)
  PROVE  req' \in [Req -> Request]
<1>1. req[r] \in Request /\ req[r].call \in Call /\ req \in [Req -> Request]
  BY DEF TypeOK, LocalsOK, LocalOK, EndMain, EndingPcs
<1>2. CASE Answer(r)
  BY <1>1, <1>2, AnswerType
<1>3. CASE Refused(r)
  BY <1>1, <1>3, RefusedType
<1>4. CASE req' = [req EXCEPT ![r].pc = "readRecordings", ![r].room = req[r].call]
  <2>1. [[req[r] EXCEPT !.pc = "readRecordings"] EXCEPT !.room = req[r].call] \in Request
    BY <1>1, SetFields DEF Pcs
  <2> QED BY <1>1, <1>4, <2>1
<1> QED BY <1>2, <1>3, <1>4 DEF EndMain

\* The next call of a cascade, and the recordings and livestreams left to stop.
LEMMA ContinueType ==
  ASSUME NEW q \in Request, NEW todo \in SUBSET Media
  PROVE  /\ NextCall(q) \in Request
         /\ WithRecordings(q, todo) \in Request
         /\ WithStreams(q, todo) \in Request
<1>1. NextCall(q) \in Request
  <2>1. [[[q EXCEPT !.pc = AfterRooms(q.plan)] EXCEPT !.room = NoCall]
           EXCEPT !.todo = {}] \in Request
    BY SetFields DEF Pcs, AfterRooms
  <2>2. [[q EXCEPT !.pc = "ringEnd"] EXCEPT !.todo = {}] \in Request
    BY SetFields DEF Pcs
  <2> QED BY <2>1, <2>2, IdleType DEF NextCall
<1>2. WithRecordings(q, todo) \in Request
  <2>. DEFINE p == IF todo = {} THEN "readStreams" ELSE "stopRecordings"
  <2>1. p \in Pcs
    BY DEF Pcs
  <2> HIDE DEF p
  <2>2. [[[q EXCEPT !.pc = p] EXCEPT !.todo = todo] EXCEPT !.item = NoMedia] \in Request
    BY <2>1, SetFields
  <2> QED BY <2>2 DEF WithRecordings, p
<1>3. WithStreams(q, todo) \in Request
  <2>1. [[q EXCEPT !.pc = "stopStreams"] EXCEPT !.todo = todo] \in Request
    BY SetFields DEF Pcs
  <2> QED BY <1>1, <2>1 DEF WithStreams
<1> QED BY <1>1, <1>2, <1>3

\* Stopping what runs on an ended call.
LEMMA StoppingType ==
  ASSUME req \in [Req -> Request], NEW r \in Req,
         \/ ReadRecordings(r) \/ ReadStreams(r) \/ AnnounceStop(r)
         \/ \E m \in Media : StopRecording(r, m) \/ StopStream(r, m)
  PROVE  req' \in [Req -> Request]
<1>1. req[r] \in Request /\ req[r].todo \in SUBSET Media
  BY DEF Request
<1>2. CASE ReadRecordings(r)
  <2>1. LiveOn(req[r].room, Recording) \in SUBSET Media
    BY DEF LiveOn, Media
  <2>2. WithRecordings(req[r], LiveOn(req[r].room, Recording)) \in Request
    BY <1>1, <2>1, ContinueType
  <2> QED BY <1>2, <2>2 DEF ReadRecordings
<1>3. CASE ReadStreams(r)
  <2>1. LiveOn(req[r].room, Livestream) \in SUBSET Media
    BY DEF LiveOn, Media
  <2>2. WithStreams(req[r], LiveOn(req[r].room, Livestream)) \in Request
    BY <1>1, <2>1, ContinueType
  <2> QED BY <1>3, <2>2 DEF ReadStreams
<1>4. CASE AnnounceStop(r)
  <2>1. WithRecordings(req[r], req[r].todo) \in Request
    BY <1>1, ContinueType
  <2> QED BY <1>4, <2>1 DEF AnnounceStop
<1>5. ASSUME NEW m \in Media, StopRecording(r, m)
      PROVE  req' \in [Req -> Request]
  <2>1. req[r].todo \ {m} \in SUBSET Media
    BY <1>1
  <2>2. WithRecordings(req[r], req[r].todo \ {m}) \in Request
    BY <1>1, <2>1, ContinueType
  <2>3. [[[req[r] EXCEPT !.pc = "announceStop"] EXCEPT !.item = m]
           EXCEPT !.todo = req[r].todo \ {m}] \in Request
    BY <1>1, <2>1, SetFields DEF Pcs
  <2>4. CASE Answer(r)
    BY <2>4, AnswerType
  <2>5. CASE req' = [req EXCEPT ![r] = WithRecordings(@, @.todo \ {m})]
    BY <2>2, <2>5
  <2>6. CASE req' = [req EXCEPT ![r].pc = "announceStop", ![r].item = m,
                                ![r].todo = @ \ {m}]
    BY <2>3, <2>6
  <2> QED BY <1>5, <2>4, <2>5, <2>6 DEF StopRecording
<1>6. ASSUME NEW m \in Media, StopStream(r, m)
      PROVE  req' \in [Req -> Request]
  <2>1. req[r].todo \ {m} \in SUBSET Media
    BY <1>1
  <2>2. WithStreams(req[r], req[r].todo \ {m}) \in Request
    BY <1>1, <2>1, ContinueType
  <2>3. CASE Answer(r)
    BY <2>3, AnswerType
  <2>4. CASE req' = [req EXCEPT ![r] = WithStreams(@, @.todo \ {m})]
    BY <2>2, <2>4
  <2> QED BY <1>6, <2>3, <2>4 DEF StopStream
<1> QED BY <1>2, <1>3, <1>4, <1>5, <1>6

\* Requests on recordings and livestreams.
LEMMA MediaRequestType ==
  ASSUME req \in [Req -> Request], NEW r \in Req,
         \/ \E m \in Media, c \in Call : CreateMedia(r, m, c)
         \/ \E m \in Media, s \in {"paused", "recording", "stopped"} : UpdateMedia(r, m, s)
         \/ \E m \in Media : BeginDrop(r, m)
         \/ DropStop(r) \/ DropAnnounce(r) \/ Drop(r) \/ RingEnd(r)
         \/ \E m \in Media, s \in LiveStates \cup {"stopped"} : Announce(r, m, s)
  PROVE  req' \in [Req -> Request]
<1>1. req[r] \in Request
  OBVIOUS
<1>2. CASE Answer(r)
  BY <1>2, AnswerType
<1>3. ASSUME NEW o \in OpNames, NEW m \in Media, NEW s \in MediaState,
             Announcing(r, o, m, s)
      PROVE  req' \in [Req -> Request]
  <2>1. [[[[req[r] EXCEPT !.pc = "announce"] EXCEPT !.op = o] EXCEPT !.item = m]
           EXCEPT !.due = s] \in Request
    BY <1>1, SetFields DEF Pcs
  <2> QED BY <1>3, <2>1 DEF Announcing
<1>4. ASSUME NEW m \in Media, BeginDrop(r, m)
      PROVE  req' \in [Req -> Request]
  <2>. DEFINE p == IF Live(m) THEN "dropStop" ELSE "drop"
  <2>1. p \in Pcs
    BY DEF Pcs
  <2>2. req' = [req EXCEPT ![r].pc = p, ![r].op = "drop", ![r].item = m]
    BY <1>4 DEF BeginDrop
  <2> HIDE DEF p
  <2>3. [[[req[r] EXCEPT !.pc = p] EXCEPT !.op = "drop"] EXCEPT !.item = m] \in Request
    BY <1>1, <2>1, SetFields DEF OpNames
  <2> QED BY <2>2, <2>3
<1>5. ASSUME NEW p \in {"dropAnnounce", "drop"}, req' = [req EXCEPT ![r].pc = p]
      PROVE  req' \in [Req -> Request]
  <2>1. [req[r] EXCEPT !.pc = p] \in Request
    BY <1>1, SetFields DEF Pcs
  <2> QED BY <1>5, <2>1
<1>6. ASSUME NEW m \in Media, NEW c \in Call, CreateMedia(r, m, c)
      PROVE  req' \in [Req -> Request]
  <2>1. "record" \in OpNames /\ "recording" \in MediaState
    BY DEF OpNames, MediaState, LiveStates
  <2> QED BY <1>2, <1>3, <1>6, <2>1 DEF CreateMedia, CreateRecording, CreateLivestream,
                                        MayStart
<1>7. ASSUME NEW m \in Media, NEW s \in {"paused", "recording", "stopped"},
             UpdateMedia(r, m, s)
      PROVE  req' \in [Req -> Request]
  <2>1. s \in OpNames /\ s \in MediaState
    BY DEF OpNames, MediaState, LiveStates
  <2> QED BY <1>2, <1>3, <1>7, <2>1 DEF UpdateMedia, UpdateRecording, UpdateLivestream
<1>8. CASE DropStop(r)
  BY <1>2, <1>5, <1>8 DEF DropStop
<1>9. CASE DropAnnounce(r)
  BY <1>5, <1>9 DEF DropAnnounce
<1>10. CASE Drop(r) \/ RingEnd(r) \/
            \E m \in Media, s \in LiveStates \cup {"stopped"} : Announce(r, m, s)
  BY <1>2, <1>10 DEF Drop, RingEnd, Announce
<1> QED BY <1>4, <1>6, <1>7, <1>8, <1>9, <1>10

\* A request that goes on with the call, the states and the reason it had.
LEMMA KeepLocals ==
  ASSUME LocalsOK, NEW r \in Req,
         \A x \in Req \ {r} : req'[x] = req[x],
         req'[r].call = req[r].call, req'[r].from = req[r].from,
         req'[r].reason = req[r].reason,
         req'[r].pc \in EndingPcs => req[r].pc \in EndingPcs
  PROVE  LocalsOK'
BY DEF LocalsOK, LocalOK

\* A request whose new locals are good.
LEMMA NewLocals ==
  ASSUME LocalsOK, NEW r \in Req,
         \A x \in Req \ {r} : req'[x] = req[x], LocalOK(req'[r])
  PROVE  LocalsOK'
BY DEF LocalsOK, LocalOK

LEMMA AnswerLocals ==
  ASSUME req \in [Req -> Request], LocalsOK, NEW r \in Req, Answer(r)
  PROVE  LocalsOK'
<1>1. req'[r] = Done /\ \A x \in Req \ {r} : req'[x] = req[x]
  BY DEF Answer
<1>2. LocalOK(Done)
  BY DEF LocalOK, Done, Idle, EndingPcs
<1> QED BY <1>1, <1>2, NewLocals

LEMMA RefusedLocals ==
  ASSUME req \in [Req -> Request], LocalsOK, NEW r \in Req, Refused(r),
         req[r].pc \in EndingPcs
  PROVE  LocalsOK'
<1>1. CASE req[r].op = "expire"
  <2>. DEFINE blank == [Idle EXCEPT !.pc = "expire", !.op = "expire",
                 !.call = req[r].call, !.from = {"ringing"}, !.reason = "missed"]
  <2>1. req'[r] = blank /\ \A x \in Req \ {r} : req'[x] = req[x]
    BY <1>1 DEF Refused
  <2>2. req[r].call \in Call
    BY DEF LocalsOK, LocalOK
  <2>3. blank.call = req[r].call /\ blank.from = {"ringing"} /\ blank.reason = "missed"
    BY DEF Idle
  <2>4. LocalOK(blank)
    BY <2>2, <2>3 DEF LocalOK, OpenStates, Lifecycle!ReasonFits
  <2> QED BY <2>1, <2>4, NewLocals
<1>2. CASE req[r].op = "server"
  BY <1>2, AnswerLocals DEF Refused
<1>3. CASE req[r].op \notin {"expire", "server"}
  <2>1. req' = [req EXCEPT ![r].pc = "fetch", ![r].plan = <<>>, ![r].room = NoCall]
    BY <1>3 DEF Refused
  <2>2. /\ \A x \in Req \ {r} : req'[x] = req[x]
        /\ req'[r].call = req[r].call /\ req'[r].from = req[r].from
        /\ req'[r].reason = req[r].reason
    BY <2>1 DEF Request
  <2> QED BY <2>2, KeepLocals
<1> QED BY <1>1, <1>2, <1>3

\* The three ends begin with a reason that fits; later reads only renew it.
LEMMA EndingLocals ==
  ASSUME TypeOK, LocalsOK, NEW r \in Req,
         \/ \E c \in Call : BeginUpdate(r, c) \/ BeginServerEnd(r, c) \/ BeginExpire(r, c)
         \/ ExpireRead(r) \/ Fetch(r)
  PROVE  LocalsOK'
<1>1. req[r] \in Request /\ req \in [Req -> Request]
  BY DEF TypeOK
<1>2. ASSUME NEW c \in Call, BeginUpdate(r, c)
      PROVE  LocalsOK'
  <2>1. req' = [req EXCEPT ![r].pc = "fetch", ![r].op = "update", ![r].call = c]
    BY <1>2 DEF BeginUpdate
  <2>2. /\ \A x \in Req \ {r} : req'[x] = req[x]
        /\ req'[r].call = c /\ req'[r].from = req[r].from
        /\ req'[r].reason = req[r].reason
    BY <1>1, <2>1 DEF Request
  <2> QED BY <2>2 DEF LocalsOK, LocalOK
<1>3. ASSUME NEW c \in Call, BeginServerEnd(r, c)
      PROVE  LocalsOK'
  <2>1. PICK e \in ServerEnds :
          req' = [req EXCEPT ![r].pc = "fetch", ![r].op = "server", ![r].call = c,
                             ![r].from = e.from, ![r].reason = e.reason]
    BY <1>3 DEF BeginServerEnd
  <2>2. /\ \A x \in Req \ {r} : req'[x] = req[x]
        /\ req'[r].call = c /\ req'[r].from = e.from /\ req'[r].reason = e.reason
    BY <1>1, <2>1 DEF Request
  <2>3. /\ e.from \subseteq OpenStates
        /\ \A s \in e.from : e.reason \in Lifecycle!ReasonFits(s)
    BY DEF ServerEnds, OpenStates, Lifecycle!ReasonFits
  <2>4. LocalOK(req'[r])
    BY <2>2, <2>3 DEF LocalOK
  <2> QED BY <2>2, <2>4, NewLocals
<1>4. ASSUME NEW c \in Call, BeginExpire(r, c)
      PROVE  LocalsOK'
  <2>1. req' = [req EXCEPT ![r].pc = "expire", ![r].op = "expire", ![r].call = c,
                           ![r].from = {"ringing"}, ![r].reason = "missed"]
    BY <1>4 DEF BeginExpire
  <2>2. /\ \A x \in Req \ {r} : req'[x] = req[x]
        /\ req'[r].call = c /\ req'[r].from = {"ringing"}
        /\ req'[r].reason = "missed"
    BY <1>1, <2>1 DEF Request
  <2>3. LocalOK(req'[r])
    BY <2>2 DEF LocalOK, OpenStates, Lifecycle!ReasonFits
  <2> QED BY <2>2, <2>3, NewLocals
<1>5. CASE ExpireRead(r)
  <2>1. CASE Answer(r)
    BY <1>1, <2>1, AnswerLocals
  <2>2. ASSUME NEW p, req[r].pc \in EndingPcs, req' = [req EXCEPT ![r].pc = p]
        PROVE  LocalsOK'
    <3>1. /\ \A x \in Req \ {r} : req'[x] = req[x]
          /\ req'[r].call = req[r].call /\ req'[r].from = req[r].from
          /\ req'[r].reason = req[r].reason
      BY <1>1, <2>2 DEF Request
    <3> QED BY <2>2, <3>1, KeepLocals
  <2> QED BY <1>5, <2>1, <2>2 DEF ExpireRead, EndingPcs
<1>6. CASE Fetch(r)
  <2>. DEFINE c == req[r].call
              s == status[c]
              from == IF req[r].op = "update" THEN {s} ELSE req[r].from
              why == IF req[r].op = "update" /\ s \in OpenStates THEN EndReasonFor(s)
                     ELSE req[r].reason
              p == IF rooms[c] = {} THEN "main" ELSE "collect"
  <2>1. CASE Answer(r)
    BY <1>1, <2>1, AnswerLocals
  <2>2. CASE Refused(r)
    BY <1>1, <1>6, <2>2, RefusedLocals DEF Fetch, EndingPcs
  <2>3. CASE /\ s \in from \cap OpenStates
             /\ req' = [req EXCEPT ![r].pc = p, ![r].seen[c] = s, ![r].from = from,
                                   ![r].reason = why, ![r].frontier = rooms[c]]
    <3>1. LocalOK(req[r]) /\ c \in Call
      BY <1>6 DEF LocalsOK, LocalOK, Fetch, EndingPcs
    <3>2. /\ from \subseteq OpenStates
          /\ \A x \in from : why \in Lifecycle!ReasonFits(x)
      BY <2>3, <3>1, EndReasonForFits DEF LocalOK
    <3> HIDE DEF p, from, why, s
    <3>3. /\ \A x \in Req \ {r} : req'[x] = req[x]
          /\ req'[r].call = c /\ req'[r].from = from /\ req'[r].reason = why
      BY <1>1, <2>3 DEF Request
    <3>4. LocalOK(req'[r])
      BY <3>1, <3>2, <3>3 DEF LocalOK
    <3> QED BY <3>3, <3>4, NewLocals
  <2> QED BY <1>6, <2>1, <2>2, <2>3 DEF Fetch
<1> QED BY <1>2, <1>3, <1>4, <1>5, <1>6

\* The cascade keeps the call, the states and the reason it was started with.
LEMMA CascadeLocals ==
  ASSUME TypeOK, LocalsOK, NEW r \in Req,
         Collect(r) \/ EndMain(r) \/ \E c \in Call : EndRoom(r, c)
  PROVE  LocalsOK'
<1>1. req[r] \in Request /\ req \in [Req -> Request]
  BY DEF TypeOK
<1>2. CASE Collect(r)
  <2>1. PICK p, f, plan, seen :
          req' = [req EXCEPT ![r].pc = p, ![r].frontier = f, ![r].plan = plan,
                             ![r].seen = seen]
    BY <1>2 DEF Collect
  <2>2. /\ \A x \in Req \ {r} : req'[x] = req[x]
        /\ req'[r].call = req[r].call /\ req'[r].from = req[r].from
        /\ req'[r].reason = req[r].reason
    BY <1>1, <2>1 DEF Request
  <2> QED BY <1>2, <2>2, KeepLocals DEF Collect, EndingPcs
<1>3. ASSUME NEW c \in Call, EndRoom(r, c)
      PROVE  LocalsOK'
  <2>1. req[r].pc \in EndingPcs
    BY <1>3 DEF EndRoom, EndingPcs
  <2>2. CASE Answer(r)
    BY <1>1, <2>2, AnswerLocals
  <2>3. CASE req' = [req EXCEPT ![r].pc = "readRecordings", ![r].room = c,
                                ![r].plan = Without(req[r].plan, c)]
    <3>1. /\ \A x \in Req \ {r} : req'[x] = req[x]
          /\ req'[r].call = req[r].call /\ req'[r].from = req[r].from
          /\ req'[r].reason = req[r].reason
      BY <1>1, <2>3 DEF Request
    <3> QED BY <2>1, <3>1, KeepLocals
  <2>4. CASE req' = [req EXCEPT ![r].seen[c] = status[c]]
    <3>1. /\ \A x \in Req \ {r} : req'[x] = req[x]
          /\ req'[r].call = req[r].call /\ req'[r].from = req[r].from
          /\ req'[r].reason = req[r].reason
      BY <1>1, <2>4 DEF Request
    <3> QED BY <2>1, <3>1, KeepLocals
  <2> QED BY <1>3, <2>2, <2>3, <2>4 DEF EndRoom
<1>4. CASE EndMain(r)
  <2>1. req[r].pc \in EndingPcs
    BY <1>4 DEF EndMain, EndingPcs
  <2>2. CASE Answer(r)
    BY <1>1, <2>2, AnswerLocals
  <2>3. CASE Refused(r)
    BY <1>1, <2>1, <2>3, RefusedLocals
  <2>4. CASE req' = [req EXCEPT ![r].pc = "readRecordings", ![r].room = req[r].call]
    <3>1. /\ \A x \in Req \ {r} : req'[x] = req[x]
          /\ req'[r].call = req[r].call /\ req'[r].from = req[r].from
          /\ req'[r].reason = req[r].reason
      BY <1>1, <2>4 DEF Request
    <3> QED BY <2>1, <3>1, KeepLocals
  <2> QED BY <1>4, <2>2, <2>3, <2>4 DEF EndMain
<1> QED BY <1>2, <1>3, <1>4

LEMMA ContinueLocals ==
  ASSUME NEW q \in Request, LocalOK(q), q.pc \in EndingPcs, NEW todo
  PROVE  /\ LocalOK(NextCall(q))
         /\ LocalOK(WithRecordings(q, todo))
         /\ LocalOK(WithStreams(q, todo))
<1>1. q.call \in Call
  BY DEF LocalOK
<1>2. ASSUME NEW v, v.call = q.call, v.from = q.from, v.reason = q.reason
      PROVE  LocalOK(v)
  BY <1>1, <1>2 DEF LocalOK
<1>3. LocalOK(Done)
  BY DEF LocalOK, Done, Idle, EndingPcs
<1>4. LocalOK(NextCall(q))
  <2>1. LocalOK([q EXCEPT !.pc = AfterRooms(q.plan), !.room = NoCall, !.todo = {}])
    BY <1>2 DEF Request
  <2>2. LocalOK([q EXCEPT !.pc = "ringEnd", !.todo = {}])
    BY <1>2 DEF Request
  <2> QED BY <1>3, <2>1, <2>2 DEF NextCall
<1>5. LocalOK(WithRecordings(q, todo))
  <2>. DEFINE p == IF todo = {} THEN "readStreams" ELSE "stopRecordings"
  <2> HIDE DEF p
  <2>1. LocalOK([q EXCEPT !.pc = p, !.todo = todo, !.item = NoMedia])
    BY <1>2 DEF Request
  <2> QED BY <2>1 DEF WithRecordings, p
<1>6. LocalOK(WithStreams(q, todo))
  <2>1. LocalOK([q EXCEPT !.pc = "stopStreams", !.todo = todo])
    BY <1>2 DEF Request
  <2> QED BY <1>4, <2>1 DEF WithStreams
<1> QED BY <1>4, <1>5, <1>6

\* So do the stops that follow each end.
LEMMA StoppingLocals ==
  ASSUME TypeOK, LocalsOK, NEW r \in Req,
         \/ ReadRecordings(r) \/ ReadStreams(r) \/ AnnounceStop(r)
         \/ \E m \in Media : StopRecording(r, m) \/ StopStream(r, m)
  PROVE  LocalsOK'
<1>1. req[r] \in Request /\ req \in [Req -> Request] /\ LocalOK(req[r])
  BY DEF TypeOK, LocalsOK
<1>2. req[r].pc \in EndingPcs
  BY DEF ReadRecordings, ReadStreams, AnnounceStop, StopRecording, StopStream, EndingPcs
<1>3. ASSUME NEW todo, \/ req' = [req EXCEPT ![r] = WithRecordings(req[r], todo)]
                       \/ req' = [req EXCEPT ![r] = WithStreams(req[r], todo)]
      PROVE  LocalsOK'
  <2>1. /\ \A x \in Req \ {r} : req'[x] = req[x]
        /\ req'[r] = WithRecordings(req[r], todo) \/ req'[r] = WithStreams(req[r], todo)
    BY <1>1, <1>3
  <2>2. LocalOK(req'[r])
    BY <1>1, <1>2, <2>1, ContinueLocals
  <2> QED BY <2>1, <2>2, NewLocals
<1>4. CASE ReadRecordings(r) \/ ReadStreams(r) \/ AnnounceStop(r)
  BY <1>3, <1>4 DEF ReadRecordings, ReadStreams, AnnounceStop
<1>5. CASE Answer(r)
  BY <1>1, <1>5, AnswerLocals
<1>6. ASSUME NEW m \in Media, StopRecording(r, m)
      PROVE  LocalsOK'
  <2>1. CASE req' = [req EXCEPT ![r].pc = "announceStop", ![r].item = m,
                                ![r].todo = @ \ {m}]
    <3>1. /\ \A x \in Req \ {r} : req'[x] = req[x]
          /\ req'[r].call = req[r].call /\ req'[r].from = req[r].from
          /\ req'[r].reason = req[r].reason
      BY <1>1, <2>1 DEF Request
    <3> QED BY <1>2, <3>1, KeepLocals
  <2> QED BY <1>3, <1>5, <1>6, <2>1 DEF StopRecording
<1>7. ASSUME NEW m \in Media, StopStream(r, m)
      PROVE  LocalsOK'
  BY <1>3, <1>5, <1>7 DEF StopStream
<1> QED BY <1>4, <1>6, <1>7

\* Requests on media end no call.
LEMMA MediaRequestLocals ==
  ASSUME TypeOK, LocalsOK, NEW r \in Req,
         \/ \E m \in Media, c \in Call : CreateMedia(r, m, c)
         \/ \E m \in Media, s \in {"paused", "recording", "stopped"} : UpdateMedia(r, m, s)
         \/ \E m \in Media : BeginDrop(r, m)
         \/ DropStop(r) \/ DropAnnounce(r) \/ Drop(r) \/ RingEnd(r)
         \/ \E m \in Media, s \in LiveStates \cup {"stopped"} : Announce(r, m, s)
  PROVE  LocalsOK'
<1>1. req[r] \in Request /\ req \in [Req -> Request]
  BY DEF TypeOK
<1>2. CASE Answer(r)
  BY <1>1, <1>2, AnswerLocals
<1>3. ASSUME NEW o, NEW m, NEW s, Announcing(r, o, m, s)
      PROVE  LocalsOK'
  <2>1. /\ \A x \in Req \ {r} : req'[x] = req[x]
        /\ req'[r].call = req[r].call /\ req'[r].from = req[r].from
        /\ req'[r].reason = req[r].reason /\ req'[r].pc = "announce"
    BY <1>1, <1>3 DEF Announcing, Request
  <2> QED BY <2>1, KeepLocals DEF EndingPcs
<1>4. ASSUME NEW m, BeginDrop(r, m)
      PROVE  LocalsOK'
  <2>. DEFINE p == IF Live(m) THEN "dropStop" ELSE "drop"
  <2>1. req' = [req EXCEPT ![r].pc = p, ![r].op = "drop", ![r].item = m]
    BY <1>4 DEF BeginDrop
  <2>2. p \notin EndingPcs
    BY DEF EndingPcs
  <2> HIDE DEF p
  <2>3. /\ \A x \in Req \ {r} : req'[x] = req[x]
        /\ req'[r].call = req[r].call /\ req'[r].from = req[r].from
        /\ req'[r].reason = req[r].reason /\ req'[r].pc = p
    BY <1>1, <2>1 DEF Request
  <2> QED BY <2>2, <2>3, KeepLocals
<1>5. ASSUME NEW p \in {"dropAnnounce", "drop"}, req' = [req EXCEPT ![r].pc = p]
      PROVE  LocalsOK'
  <2>1. /\ \A x \in Req \ {r} : req'[x] = req[x]
        /\ req'[r].call = req[r].call /\ req'[r].from = req[r].from
        /\ req'[r].reason = req[r].reason /\ req'[r].pc = p
    BY <1>1, <1>5 DEF Request
  <2> QED BY <2>1, KeepLocals DEF EndingPcs
<1>6. CASE \E m \in Media, c \in Call : CreateMedia(r, m, c)
  BY <1>2, <1>3, <1>6 DEF CreateMedia, CreateRecording, CreateLivestream, MayStart
<1>7. CASE \E m \in Media, s \in {"paused", "recording", "stopped"} : UpdateMedia(r, m, s)
  BY <1>2, <1>3, <1>7 DEF UpdateMedia, UpdateRecording, UpdateLivestream
<1>8. CASE DropStop(r)
  BY <1>2, <1>5, <1>8 DEF DropStop
<1>9. CASE DropAnnounce(r)
  BY <1>5, <1>9 DEF DropAnnounce
<1>10. CASE Drop(r) \/ RingEnd(r) \/
            \E m \in Media, s \in LiveStates \cup {"stopped"} : Announce(r, m, s)
  BY <1>2, <1>10 DEF Drop, RingEnd, Announce
<1> QED BY <1>4, <1>6, <1>7, <1>8, <1>9, <1>10

-----------------------------------------------------------------------------
(* What the steps do to the store.                                         *)

\* A call ends: for a reason that fits the state it is in.
EndCall(c) ==
  \E why \in Reasons :
    /\ status[c] \in OpenStates /\ why \in Lifecycle!ReasonFits(status[c])
    /\ StoreEnd(c, why)

\* Every step creates a call, activates, ends or destroys one, or leaves the
\* calls alone.
CallStep ==
  \/ \E c \in Call, k \in Kinds, p \in Call \cup {NoCall} : CreateCall(c, k, p)
  \/ \E c \in Call : Activate(c) \/ DestroyCall(c) \/ EndCall(c)
  \/ UNCHANGED callVars

LEMMA CallSteps ==
  ASSUME TypeOK, LocalsOK, Next
  PROVE  CallStep
<1>1. ASSUME NEW r \in Req, NEW c \in Call, EndRoom(r, c)
      PROVE  CallStep
  <2>1. CASE status[c] \in OpenStates /\ StoreEnd(c, EndReasonFor(status[c]))
    BY <2>1, EndReasonForFits DEF CallStep, EndCall
  <2> QED BY <1>1, <2>1 DEF EndRoom, CallStep
<1>2. ASSUME NEW r \in Req, EndMain(r)
      PROVE  CallStep
  <2>1. /\ req[r].call \in Call /\ req[r].reason \in Reasons
        /\ req[r].from \subseteq OpenStates
        /\ \A s \in req[r].from : req[r].reason \in Lifecycle!ReasonFits(s)
    BY <1>2 DEF TypeOK, LocalsOK, LocalOK, EndMain, EndingPcs, Request
  <2>2. CASE Expected(r) /\ StoreEnd(req[r].call, req[r].reason)
    BY <2>1, <2>2 DEF Expected, CallStep, EndCall
  <2> QED BY <1>2, <2>2 DEF EndMain, CallStep
<1>3. ASSUME NEW r \in Req, Accept(r)
      PROVE  CallStep
  BY <1>3 DEF Accept, BeginUpdate, BeginServerEnd, BeginExpire, CreateMedia,
              CreateRecording, CreateLivestream, MayStart,
              UpdateMedia, UpdateRecording, UpdateLivestream, BeginDrop, CallStep
<1>4. ASSUME NEW r \in Req, Step(r)
      PROVE  CallStep
  <2>1. CASE \E c \in Call : EndRoom(r, c)
    BY <1>1, <2>1
  <2>2. CASE EndMain(r)
    BY <1>2, <2>2
  <2>3. CASE \/ ExpireRead(r) \/ Fetch(r) \/ Collect(r)
             \/ ReadRecordings(r) \/ AnnounceStop(r) \/ ReadStreams(r) \/ RingEnd(r)
    BY <2>3 DEF ExpireRead, Fetch, Collect, ReadRecordings, AnnounceStop,
                ReadStreams, RingEnd, CallStep
  <2>4. CASE \/ \E m \in Media : StopRecording(r, m) \/ StopStream(r, m)
             \/ \E m \in Media, s \in LiveStates \cup {"stopped"} : Announce(r, m, s)
             \/ DropStop(r) \/ DropAnnounce(r) \/ Drop(r)
    BY <2>4 DEF StopRecording, StopStream, Announce, DropStop, DropAnnounce, Drop,
                CallStep
  <2> QED BY <1>4, <2>1, <2>2, <2>3, <2>4 DEF Step
<1>5. CASE \E m \in Media : StreamProgress(m)
  BY <1>5 DEF StreamProgress, CallStep
<1>6. CASE \/ \E c \in Call, k \in Kinds : CreateCall(c, k, NoCall)
           \/ \E c, p \in Call, k \in Kinds : MayOpenRoom /\ CreateCall(c, k, p)
           \/ \E c \in Call : Activate(c)
           \/ \E c \in Call : "destroyCall" \in Ops /\ DestroyCall(c)
  BY <1>6 DEF CallStep
<1> QED BY <1>3, <1>4, <1>5, <1>6 DEF Next

CallsTypeOK ==
  /\ status \in [Call -> Status]
  /\ kind \in [Call -> {"ring", "room", "scheduled"}]
  /\ parent \in [Call -> Call \cup {NoCall}]
  /\ rooms \in [Call -> SUBSET Call]
  /\ endReason \in [Call -> Reasons]

\* The calls stay well typed.
LEMMA CallsType ==
  ASSUME CallsTypeOK, CallStep
  PROVE  CallsTypeOK'
<1>1. ASSUME NEW c \in Call, NEW k \in Kinds, NEW p \in Call \cup {NoCall},
             CreateCall(c, k, p)
      PROVE  CallsTypeOK'
  <2>1. InitialState(k) \in Status /\ k \in {"ring", "room", "scheduled"}
    BY KindsAssumption DEF InitialState, Status, OpenStates
  <2> QED BY <1>1, <2>1 DEF CreateCall, StoreCreate, CallsTypeOK
<1>2. ASSUME NEW c \in Call, Activate(c)
      PROVE  CallsTypeOK'
  BY <1>2 DEF Activate, CallsTypeOK, Status, OpenStates
<1>3. \A c \in Call : LeaveParent(c) \in [Call -> SUBSET Call]
  BY DEF LeaveParent, CallsTypeOK
<1>4. ASSUME NEW c \in Call, DestroyCall(c)
      PROVE  CallsTypeOK'
  BY <1>3, <1>4 DEF DestroyCall, StoreDestroy, CallsTypeOK, Status
<1>5. ASSUME NEW c \in Call, EndCall(c)
      PROVE  CallsTypeOK'
  BY <1>3, <1>5 DEF EndCall, StoreEnd, CallsTypeOK, Status
<1>6. CASE UNCHANGED callVars
  BY <1>6 DEF callVars, CallsTypeOK
<1> QED BY <1>1, <1>2, <1>4, <1>5, <1>6 DEF CallStep

MediaTypeOK ==
  /\ mcall \in [Media -> Call \cup {NoCall}]
  /\ mstate \in [Media -> MediaState]
  /\ committed \in [Media -> Seq(MediaState)]
  /\ announced \in [Media -> Seq(MediaState)]

\* A change of a recording or livestream, and an event, keep the types.
LEMMA StoreMediaType ==
  ASSUME MediaTypeOK, NEW m \in Media, NEW s \in MediaState
  PROVE  /\ StoreMedia(m, s) =>
              mstate' \in [Media -> MediaState] /\ committed' \in [Media -> Seq(MediaState)]
         /\ [announced EXCEPT ![m] = Append(@, s)] \in [Media -> Seq(MediaState)]
<1>1. /\ committed[m] \in Seq(MediaState)
      /\ announced[m] \in Seq(MediaState)
  BY DEF MediaTypeOK
<1>2. /\ Append(committed[m], s) \in Seq(MediaState)
      /\ Append(announced[m], s) \in Seq(MediaState)
  BY <1>1
<1> QED BY <1>2 DEF StoreMedia, MediaTypeOK

\* The media stay well typed.
LEMMA MediaType ==
  ASSUME TypeOK, Next
  PROVE  MediaTypeOK' /\ ringEnds' \in [Call -> SUBSET {"timeout", "cancelled"}]
<1>. USE DEF mediaVars
<1>1. /\ MediaTypeOK /\ ringEnds \in [Call -> SUBSET {"timeout", "cancelled"}]
      /\ req \in [Req -> Request]
  BY DEF TypeOK, MediaTypeOK
<1>2. /\ {"live", "failed", "stopped", "recording", "starting", "paused",
          "destroyed"} \subseteq MediaState
      /\ LiveStates \subseteq MediaState
  BY DEF MediaState, LiveStates
<1>3. CASE UNCHANGED <<mediaVars, ringEnds>>
  BY <1>1, <1>3 DEF MediaTypeOK
<1>4. ASSUME NEW m \in Media, StreamProgress(m)
      PROVE  MediaTypeOK' /\ UNCHANGED ringEnds
  BY <1>1, <1>2, <1>4, StoreMediaType DEF StreamProgress, MediaTypeOK
<1>5. ASSUME NEW r \in Req, Accept(r)
      PROVE  MediaTypeOK' /\ UNCHANGED ringEnds
  <2>1. ASSUME NEW m \in Media, NEW c \in Call, CreateMedia(r, m, c)
        PROVE  MediaTypeOK' /\ UNCHANGED ringEnds
    <3>1. [mcall EXCEPT ![m] = c] \in [Media -> Call \cup {NoCall}]
      BY <1>1 DEF MediaTypeOK
    <3> QED BY <1>1, <1>2, <2>1, <3>1, StoreMediaType DEF CreateMedia, CreateRecording,
          CreateLivestream, MayStart, MediaTypeOK
  <2>2. ASSUME NEW m \in Media, NEW s \in {"paused", "recording", "stopped"},
               UpdateMedia(r, m, s)
        PROVE  MediaTypeOK' /\ UNCHANGED ringEnds
    BY <1>1, <1>2, <2>2, StoreMediaType DEF UpdateMedia, UpdateRecording,
          UpdateLivestream, MediaTypeOK
  <2>3. CASE UNCHANGED <<mediaVars, ringEnds>>
    BY <1>1, <2>3 DEF MediaTypeOK
  <2>4. CASE \/ \E c \in Call : BeginUpdate(r, c) \/ BeginServerEnd(r, c) \/ BeginExpire(r, c)
             \/ \E m \in Media : BeginDrop(r, m)
    BY <2>3, <2>4 DEF BeginUpdate, BeginServerEnd, BeginExpire, BeginDrop
  <2> QED BY <1>5, <2>1, <2>2, <2>4 DEF Accept
<1>6. ASSUME NEW r \in Req, Step(r)
      PROVE  MediaTypeOK' /\ ringEnds' \in [Call -> SUBSET {"timeout", "cancelled"}]
  <2>1. CASE \/ ExpireRead(r) \/ Fetch(r) \/ Collect(r) \/ EndMain(r)
             \/ \E c \in Call : EndRoom(r, c)
             \/ ReadRecordings(r) \/ ReadStreams(r)
    BY <1>3, <2>1 DEF ExpireRead, Fetch, Collect, EndMain, EndRoom, ReadRecordings,
                      ReadStreams
  <2>2. CASE RingEnd(r)
    BY <1>1, <2>2 DEF RingEnd, MediaTypeOK
  <2>3. ASSUME NEW m \in Media, StopRecording(r, m) \/ StopStream(r, m)
        PROVE  MediaTypeOK' /\ UNCHANGED ringEnds
    BY <1>1, <1>2, <2>3, StoreMediaType DEF StopRecording, StopStream, MediaTypeOK
  <2>4. ASSUME NEW m \in Media, NEW s \in LiveStates \cup {"stopped"}, Announce(r, m, s)
        PROVE  MediaTypeOK' /\ UNCHANGED ringEnds
    BY <1>1, <1>2, <2>4, StoreMediaType DEF Announce, MediaTypeOK
  <2>5. CASE AnnounceStop(r) \/ DropAnnounce(r)
    <3>1. CASE req[r].item \in Media
      <4>1. [announced EXCEPT ![req[r].item] = Append(@, "stopped")]
              \in [Media -> Seq(MediaState)]
        BY <1>1, <1>2, <3>1, StoreMediaType
      <4> QED BY <1>1, <2>5, <4>1 DEF AnnounceStop, DropAnnounce, MediaTypeOK
    <3>2. CASE req[r].item \notin Media
      BY <1>1, <2>5, <3>2 DEF AnnounceStop, DropAnnounce, MediaTypeOK
    <3> QED BY <3>1, <3>2
  <2>6. CASE DropStop(r) \/ Drop(r)
    <3>1. CASE req[r].item \in Media
      BY <1>1, <1>2, <2>6, <3>1, StoreMediaType DEF DropStop, Drop, MediaTypeOK
    <3>2. CASE req[r].item \notin Media
      BY <1>1, <1>2, <2>6, <3>2 DEF DropStop, Drop, StoreMedia, MediaTypeOK
    <3> QED BY <3>1, <3>2
  <2> QED BY <1>1, <1>6, <2>1, <2>2, <2>3, <2>4, <2>5, <2>6 DEF Step
<1>7. CASE \/ \E c \in Call, k \in Kinds : CreateCall(c, k, NoCall)
           \/ \E c, p \in Call, k \in Kinds : MayOpenRoom /\ CreateCall(c, k, p)
           \/ \E c \in Call : Activate(c)
           \/ \E c \in Call : "destroyCall" \in Ops /\ DestroyCall(c)
  BY <1>3, <1>7 DEF CreateCall, StoreCreate, Activate, DestroyCall, StoreDestroy
<1> QED BY <1>1, <1>4, <1>5, <1>6, <1>7 DEF Next

\* The requests stay well typed, and their locals good.
LEMMA RequestsType ==
  ASSUME TypeOK, LocalsOK, Next
  PROVE  req' \in [Req -> Request] /\ LocalsOK'
<1>1. req \in [Req -> Request]
  BY DEF TypeOK
<1>2. CASE UNCHANGED req
  BY <1>1, <1>2 DEF LocalsOK, LocalOK
<1>3. ASSUME NEW r \in Req, Accept(r)
      PROVE  req' \in [Req -> Request] /\ LocalsOK'
  BY <1>1, <1>3, BeginType, EndingLocals, MediaRequestType,
        MediaRequestLocals DEF Accept
<1>4. ASSUME NEW r \in Req, Step(r)
      PROVE  req' \in [Req -> Request] /\ LocalsOK'
  <2>1. CASE ExpireRead(r) \/ Fetch(r)
    BY <1>1, <2>1, ExpireReadType, FetchType, EndingLocals
  <2>2. CASE Collect(r) \/ EndMain(r) \/ \E c \in Call : EndRoom(r, c)
    BY <2>2, CollectType, EndMainType, EndRoomType, CascadeLocals
  <2>3. CASE \/ ReadRecordings(r) \/ ReadStreams(r) \/ AnnounceStop(r)
             \/ \E m \in Media : StopRecording(r, m) \/ StopStream(r, m)
    BY <1>1, <2>3, StoppingType, StoppingLocals
  <2>4. CASE \/ DropStop(r) \/ DropAnnounce(r) \/ Drop(r) \/ RingEnd(r)
             \/ \E m \in Media, s \in LiveStates \cup {"stopped"} : Announce(r, m, s)
    BY <1>1, <2>4, MediaRequestType, MediaRequestLocals
  <2> QED BY <1>4, <2>1, <2>2, <2>3, <2>4 DEF Step
<1>5. CASE \E m \in Media : StreamProgress(m)
  BY <1>2, <1>5 DEF StreamProgress
<1>6. CASE \/ \E c \in Call, k \in Kinds : CreateCall(c, k, NoCall)
           \/ \E c, p \in Call, k \in Kinds : MayOpenRoom /\ CreateCall(c, k, p)
           \/ \E c \in Call : Activate(c)
           \/ \E c \in Call : "destroyCall" \in Ops /\ DestroyCall(c)
  BY <1>2, <1>6 DEF CreateCall, StoreCreate, Activate, DestroyCall, StoreDestroy
<1> QED BY <1>3, <1>4, <1>5, <1>6 DEF Next

\* TypeOK is inductive together with LocalsOK: the end of a call writes the
\* reason its request carries.
LEMMA TypeInit ==
  ASSUME Init
  PROVE  TypeOK /\ LocalsOK
<1>1. /\ status \in [Call -> Status] /\ endReason \in [Call -> Reasons]
      /\ kind \in [Call -> {"ring", "room", "scheduled"}]
      /\ parent \in [Call -> Call \cup {NoCall}] /\ rooms \in [Call -> SUBSET Call]
      /\ ringEnds \in [Call -> SUBSET {"timeout", "cancelled"}]
  BY DEF Init, Status, Reasons
<1>2. /\ mcall \in [Media -> Call \cup {NoCall}] /\ mstate \in [Media -> MediaState]
  BY DEF Init, MediaState
<1>3. <<>> \in Seq(MediaState)
  OBVIOUS
<1>4. committed \in [Media -> Seq(MediaState)] /\ announced \in [Media -> Seq(MediaState)]
  BY <1>3 DEF Init
<1>5. req \in [Req -> Request] /\ \A r \in Req : req[r] = Idle
  BY IdleType DEF Init
<1>6. LocalsOK
  BY <1>5 DEF LocalsOK, LocalOK, Idle, EndingPcs
<1> QED BY <1>1, <1>2, <1>4, <1>5, <1>6 DEF TypeOK

LEMMA TypeStep ==
  ASSUME TypeOK, LocalsOK, [Next]_vars
  PROVE  TypeOK' /\ LocalsOK'
<1>1. CASE Next
  <2>1. CallsTypeOK'
    BY <1>1, CallSteps, CallsType DEF TypeOK, CallsTypeOK
  <2>2. MediaTypeOK' /\ ringEnds' \in [Call -> SUBSET {"timeout", "cancelled"}]
    BY <1>1, MediaType
  <2>3. req' \in [Req -> Request] /\ LocalsOK'
    BY <1>1, RequestsType
  <2> QED BY <2>1, <2>2, <2>3 DEF TypeOK, CallsTypeOK, MediaTypeOK
<1>2. CASE UNCHANGED vars
  BY <1>2 DEF vars, TypeOK, LocalsOK, LocalOK
<1> QED BY <1>1, <1>2

\* Every variable of a running server, and every local of a request under way,
\* has its type, and an end under way carries a reason that fits.
THEOREM Typing == Spec => [](TypeOK /\ LocalsOK)
BY TypeInit, TypeStep, PTL DEF Spec

-----------------------------------------------------------------------------
(* breakoutRoomIds.                                                        *)

\* An id nobody minted yet has no rooms and is nobody's parent: what makes
\* BreakoutListExact inductive when a call is created.
UnbornOK ==
  \A c \in Call : status[c] = "absent" =>
    rooms[c] = {} /\ \A d \in Call : parent[d] # c

RoomsStep ==
  /\ BreakoutListExact'
  /\ UnbornOK'

LEMMA RoomsCreate ==
  ASSUME TypeOK, UnbornOK, BreakoutListExact,
         NEW c \in Call, NEW k \in Kinds, NEW p \in Call \cup {NoCall}, CreateCall(c, k, p)
  PROVE  RoomsStep
<1>1. /\ status[c] = "absent" /\ (p # NoCall => Stored(p))
      /\ status' = [status EXCEPT ![c] = InitialState(k)]
      /\ parent' = [parent EXCEPT ![c] = p]
      /\ rooms' = [d \in Call |-> IF d = p THEN rooms[d] \cup {c} ELSE rooms[d]]
  BY DEF CreateCall, StoreCreate
<1>2. InitialState(k) \in OpenStates
  BY KindsAssumption DEF InitialState, OpenStates
<1>3. rooms[c] = {} /\ \A d \in Call : parent[d] # c
  BY <1>1 DEF UnbornOK
<1>4. p # c
  BY <1>1, NoCallAssumption DEF Stored, OpenStates
<1>5. /\ \A d \in Call : status'[d] = IF d = c THEN InitialState(k) ELSE status[d]
      /\ \A d \in Call : parent'[d] = IF d = c THEN p ELSE parent[d]
      /\ \A d \in Call : rooms'[d] = IF d = p THEN rooms[d] \cup {c} ELSE rooms[d]
  BY <1>1 DEF TypeOK
<1>6. UnbornOK'
  <2>. SUFFICES ASSUME NEW d \in Call, status'[d] = "absent"
                PROVE  rooms'[d] = {} /\ \A e \in Call : parent'[e] # d
    BY DEF UnbornOK
  <2>1. status[d] = "absent" /\ d # c
    BY <1>2, <1>5 DEF OpenStates
  <2>2. d # p
    BY <1>1, <2>1, NoCallAssumption DEF Stored, OpenStates
  <2> QED BY <1>5, <2>1, <2>2 DEF UnbornOK
<1>7. BreakoutListExact'
  <2>. SUFFICES ASSUME NEW d \in Call, Stored(d)'
                PROVE  rooms'[d] = {e \in Call : parent'[e] = d /\ status'[e] \in OpenStates}
    BY DEF BreakoutListExact
  <2>1. CASE d = c
    <3>1. rooms'[c] = {}
      BY <1>3, <1>4, <1>5
    <3>2. \A e \in Call : parent'[e] # c
      BY <1>3, <1>4, <1>5
    <3> QED BY <2>1, <3>1, <3>2
  <2>2. CASE d # c
    <3>1. rooms[d] = {e \in Call : parent[e] = d /\ status[e] \in OpenStates}
      BY <1>5, <2>2 DEF BreakoutListExact, Stored
    <3>2. c \notin rooms[d]
      BY <1>1, <3>1 DEF OpenStates
    <3>3. \A e \in Call : e # c =>
            (parent'[e] = d /\ status'[e] \in OpenStates <=> e \in rooms[d])
      BY <1>5, <3>1
    <3>4. parent'[c] = p /\ status'[c] \in OpenStates
      BY <1>2, <1>5
    <3>5. rooms'[d] = IF d = p THEN rooms[d] \cup {c} ELSE rooms[d]
      BY <1>5
    <3>6. rooms[d] \subseteq Call
      BY <3>1
    <3> QED BY <3>2, <3>3, <3>4, <3>5, <3>6
  <2> QED BY <2>1, <2>2
<1> QED BY <1>6, <1>7 DEF RoomsStep

LEMMA RoomsLeave ==
  ASSUME TypeOK, UnbornOK, BreakoutListExact,
         NEW c \in Call, DestroyCall(c) \/ EndCall(c)
  PROVE  RoomsStep
<1>1. /\ Stored(c) /\ parent' = parent
      /\ status'[c] \in {"ended", "destroyed"}
      /\ \A d \in Call : d # c => status'[d] = status[d]
  BY DEF DestroyCall, StoreDestroy, EndCall, StoreEnd, Stored, TypeOK
<1>2. \A d \in Call : status'[d] # "destroyed" =>
        rooms'[d] = IF d = parent[c] THEN rooms[d] \ {c} ELSE rooms[d]
  BY DEF DestroyCall, StoreDestroy, EndCall, StoreEnd, LeaveParent, TypeOK
<1>3. UnbornOK'
  <2>. SUFFICES ASSUME NEW d \in Call, status'[d] = "absent"
                PROVE  rooms'[d] = {} /\ \A e \in Call : parent'[e] # d
    BY DEF UnbornOK
  <2>1. status[d] = "absent"
    BY <1>1
  <2> QED BY <1>1, <1>2, <2>1 DEF UnbornOK
<1>4. BreakoutListExact'
  <2>. SUFFICES ASSUME NEW d \in Call, Stored(d)'
                PROVE  rooms'[d] = {e \in Call : parent'[e] = d /\ status'[e] \in OpenStates}
    BY DEF BreakoutListExact
  <2>1. Stored(d) /\ status'[d] # "destroyed"
    BY <1>1 DEF Stored, OpenStates
  <2>2. rooms[d] = {e \in Call : parent[e] = d /\ status[e] \in OpenStates}
    BY <2>1 DEF BreakoutListExact
  <2>3. rooms'[d] = rooms[d] \ {c}
    BY <1>2, <2>1, <2>2
  <2> QED BY <1>1, <2>2, <2>3 DEF OpenStates
<1> QED BY <1>3, <1>4 DEF RoomsStep

\* BreakoutListExact with UnbornOK is inductive.
LEMMA RoomsInductive ==
  ASSUME TypeOK, LocalsOK, UnbornOK, BreakoutListExact, [Next]_vars
  PROVE  RoomsStep
<1>1. CASE UNCHANGED callVars
  BY <1>1 DEF callVars, RoomsStep, UnbornOK, BreakoutListExact, Stored
<1>2. ASSUME NEW c \in Call, Activate(c)
      PROVE  RoomsStep
  <2>1. /\ status[c] \in OpenStates /\ status'[c] \in OpenStates
        /\ \A d \in Call : d # c => status'[d] = status[d]
        /\ parent' = parent /\ rooms' = rooms
    BY <1>2 DEF Activate, Activatable, OpenStates, TypeOK
  <2>2. \A d \in Call : /\ status'[d] \in OpenStates <=> status[d] \in OpenStates
                        /\ Stored(d)' <=> Stored(d)
                        /\ status'[d] = "absent" <=> status[d] = "absent"
    BY <2>1 DEF Stored, OpenStates
  <2> QED BY <2>1, <2>2 DEF RoomsStep, UnbornOK, BreakoutListExact
<1>3. CASE Next
  <2>1. CallStep
    BY <1>3, CallSteps
  <2> QED BY <1>1, <1>2, <2>1, RoomsCreate, RoomsLeave DEF CallStep
<1>4. CASE UNCHANGED vars
  BY <1>1, <1>4 DEF vars, callVars
<1> QED BY <1>3, <1>4

\* The list end_cascade starts from is exact for any tree of calls and any
\* interleaving of creates, joins, ends and destroys.
THEOREM BreakoutLists == Spec => []BreakoutListExact
<1>1. Init => UnbornOK /\ BreakoutListExact
  BY NoCallAssumption DEF Init, UnbornOK, BreakoutListExact, Stored, OpenStates
<1>2. TypeOK /\ LocalsOK /\ UnbornOK /\ BreakoutListExact /\ [Next]_vars
        => UnbornOK' /\ BreakoutListExact'
  BY RoomsInductive DEF RoomsStep
<1> QED BY <1>1, <1>2, Typing, PTL DEF Spec

-----------------------------------------------------------------------------
(* The life of a call.                                                     *)

\* No step takes a call out of "ended" except its destruction.
LEMMA EndedStep ==
  ASSUME TypeOK, LocalsOK, [Next]_vars
  PROVE  \A c \in Call : status[c] = "ended" =>
           status'[c] \in {"ended", "destroyed"} /\ endReason'[c] = endReason[c]
<1>. SUFFICES ASSUME NEW c \in Call, status[c] = "ended"
              PROVE  status'[c] \in {"ended", "destroyed"} /\ endReason'[c] = endReason[c]
  OBVIOUS
<1>1. CASE UNCHANGED callVars
  BY <1>1 DEF callVars
<1>2. ASSUME NEW d \in Call, NEW k, NEW p, CreateCall(d, k, p)
      PROVE  status'[c] \in {"ended", "destroyed"} /\ endReason'[c] = endReason[c]
  BY <1>2 DEF CreateCall, StoreCreate, TypeOK
<1>3. ASSUME NEW d \in Call, Activate(d) \/ DestroyCall(d) \/ EndCall(d)
      PROVE  status'[c] \in {"ended", "destroyed"} /\ endReason'[c] = endReason[c]
  BY <1>3 DEF Activate, Activatable, DestroyCall, StoreDestroy, EndCall, StoreEnd,
              OpenStates, TypeOK
<1>4. CASE Next
  <2>1. CallStep
    BY <1>4, CallSteps
  <2> QED BY <1>1, <1>2, <1>3, <2>1 DEF CallStep
<1>5. CASE UNCHANGED vars
  BY <1>1, <1>5 DEF vars, callVars
<1> QED BY <1>4, <1>5

\* A late answer, join, timeout or second end never reaches an ended call.
THEOREM EndedForGood == Spec => EndedIsFinal
<1>1. TypeOK /\ LocalsOK /\ [Next]_vars =>
        [\A c \in Call : status[c] = "ended" =>
           status'[c] \in {"ended", "destroyed"} /\ endReason'[c] = endReason[c]]_vars
  BY EndedStep
<1> QED BY <1>1, Typing, PTL DEF Spec, EndedIsFinal

\* Every step is one the life of a call allows, or none of its business.
LEMMA LifecycleStep ==
  ASSUME TypeOK, LocalsOK, [Next]_vars
  PROVE  [Lifecycle!Next]_(Lifecycle!vars)
<1>1. CASE UNCHANGED callVars
  BY <1>1 DEF callVars, Lifecycle!vars
<1>2. ASSUME NEW c \in Call, NEW k \in Kinds, NEW p, CreateCall(c, k, p)
      PROVE  Lifecycle!Next
  <2>1. InitialState(k) \in Lifecycle!Open
    BY KindsAssumption DEF InitialState, Lifecycle!Open
  <2> QED BY <1>2, <2>1 DEF CreateCall, StoreCreate, Lifecycle!Next, Lifecycle!Create
<1>3. ASSUME NEW c \in Call, Activate(c)
      PROVE  Lifecycle!Next
  BY <1>3 DEF Activate, Activatable, Lifecycle!Next, Lifecycle!Activate
<1>4. ASSUME NEW c \in Call, DestroyCall(c)
      PROVE  Lifecycle!Next
  BY <1>4 DEF DestroyCall, StoreDestroy, Stored, OpenStates, Lifecycle!Next,
              Lifecycle!Destroy,
              Lifecycle!Open
<1>5. ASSUME NEW c \in Call, EndCall(c)
      PROVE  Lifecycle!Next
  BY <1>5 DEF EndCall, StoreEnd, OpenStates, Lifecycle!Next, Lifecycle!End,
              Lifecycle!Open
<1>6. CASE Next
  <2>1. CallStep
    BY <1>6, CallSteps
  <2> QED BY <1>1, <1>2, <1>3, <1>4, <1>5, <2>1 DEF CallStep
<1>7. CASE UNCHANGED vars
  BY <1>1, <1>7 DEF vars, callVars
<1> QED BY <1>6, <1>7

\* The calls of the server implement the abstract life of a call: whatever the
\* requests interleave, an end's reason fits the state it ended.
THEOREM Refinement == Spec => ImplementsLifecycle
<1>1. Init => Lifecycle!Init
  BY DEF Init, Lifecycle!Init
<1>2. TypeOK /\ LocalsOK /\ [Next]_vars => [Lifecycle!Next]_(Lifecycle!vars)
  BY LifecycleStep
<1> QED BY <1>1, <1>2, Typing, PTL DEF Spec, ImplementsLifecycle, Lifecycle!Spec

=============================================================================
