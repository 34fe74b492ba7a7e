---------------------------- MODULE VtcEndProofs ----------------------------
(***************************************************************************)
(* What an end tells and in which order it ends things, for any number of  *)
(* calls, media and requests: VTCCallEndEvents are truthful, the devices   *)
(* of a cancelled ring are told, and a call's breakout rooms end before    *)
(* it; and every change of a recording is announced once.                  *)
(***************************************************************************)
EXTENDS VtcMediaProofs, FiniteSetTheorems

-----------------------------------------------------------------------------
(* What each step leaves in the locals of its request.                     *)

\* All other requests stay as they are.
OthersStay(r) == \A x \in Req \ {r} : req'[x] = req[x]

\* The request goes on with the end it is about.
SameEnd(r) ==
  /\ req'[r].op = req[r].op /\ req'[r].call = req[r].call
  /\ req'[r].from = req[r].from /\ req'[r].reason = req[r].reason

\* The end is given up, or begun afresh by the request that was refused.
Afresh(r) ==
  \/ /\ req[r].op = "expire"
     /\ req'[r].pc = "expire" /\ req'[r].op = "expire" /\ req'[r].call = req[r].call
     /\ req'[r].from = {"ringing"} /\ req'[r].reason = "missed" /\ req'[r].plan = <<>>
  \/ /\ req[r].op \notin {"expire", "server"}
     /\ req'[r].pc = "fetch" /\ SameEnd(r) /\ req'[r].plan = <<>>
  \/ req[r].op = "server" /\ req'[r].pc = "done"

LEMMA AnswerFields ==
  ASSUME req \in [Req -> Request], NEW r \in Req, Answer(r)
  PROVE  req'[r] = Done /\ req'[r].pc = "done" /\ OthersStay(r)
BY DEF Answer, Done, Idle, OthersStay

LEMMA RefusedFields ==
  ASSUME req \in [Req -> Request], NEW r \in Req, Refused(r)
  PROVE  Afresh(r) /\ OthersStay(r)
<1>1. CASE req[r].op = "expire"
  <2>. DEFINE blank == [Idle EXCEPT !.pc = "expire", !.op = "expire",
                 !.call = req[r].call, !.from = {"ringing"}, !.reason = "missed"]
  <2>1. req' = [req EXCEPT ![r] = blank]
    BY <1>1 DEF Refused
  <2>2. /\ blank.pc = "expire" /\ blank.op = "expire" /\ blank.call = req[r].call
        /\ blank.from = {"ringing"} /\ blank.reason = "missed" /\ blank.plan = <<>>
    BY DEF Idle
  <2> HIDE DEF blank
  <2> QED BY <1>1, <2>1, <2>2 DEF Afresh, OthersStay
<1>2. CASE req[r].op = "server"
  <2>1. Answer(r)
    BY <1>2 DEF Refused
  <2> QED BY <1>2, <2>1, AnswerFields DEF Afresh
<1>3. CASE req[r].op \notin {"expire", "server"}
  <2>1. req' = [req EXCEPT ![r].pc = "fetch", ![r].plan = <<>>, ![r].room = NoCall]
    BY <1>3 DEF Refused
  <2> QED BY <1>3, <2>1 DEF Request, Afresh, SameEnd, OthersStay
<1> QED BY <1>1, <1>2, <1>3

\* The three requests that end a call begin with the reason they will give.
LEMMA BeginFields ==
  ASSUME req \in [Req -> Request], NEW r \in Req, NEW c \in Call,
         BeginUpdate(r, c) \/ BeginServerEnd(r, c) \/ BeginExpire(r, c)
  PROVE  /\ req[r].pc = "idle" /\ OthersStay(r)
         /\ req'[r].call = c /\ req'[r].plan = req[r].plan
         /\ \/ req'[r].pc = "fetch" /\ req'[r].op = "update"
            \/ /\ req'[r].pc = "fetch" /\ req'[r].op = "server"
               /\ req'[r].reason = "cancelled" => req'[r].from = {"ringing"}
            \/ /\ req'[r].pc = "expire" /\ req'[r].op = "expire"
               /\ req'[r].reason = "missed"
<1>1. CASE BeginUpdate(r, c)
  BY <1>1 DEF BeginUpdate, Request, OthersStay
<1>2. CASE BeginServerEnd(r, c)
  <2>1. PICK e \in ServerEnds :
          req' = [req EXCEPT ![r].pc = "fetch", ![r].op = "server", ![r].call = c,
                             ![r].from = e.from, ![r].reason = e.reason]
    BY <1>2 DEF BeginServerEnd
  <2>2. e.reason = "cancelled" => e.from = {"ringing"}
    BY DEF ServerEnds
  <2>3. /\ req'[r].pc = "fetch" /\ req'[r].op = "server" /\ req'[r].call = c
        /\ req'[r].from = e.from /\ req'[r].reason = e.reason
        /\ req'[r].plan = req[r].plan /\ OthersStay(r)
    BY <2>1 DEF Request, OthersStay
  <2> QED BY <1>2, <2>2, <2>3 DEF BeginServerEnd
<1>3. CASE BeginExpire(r, c)
  BY <1>3 DEF BeginExpire, Request, OthersStay
<1> QED BY <1>1, <1>2, <1>3

LEMMA ExpireReadFields ==
  ASSUME req \in [Req -> Request], NEW r \in Req, ExpireRead(r)
  PROVE  /\ OthersStay(r) /\ req[r].pc = "expire"
         /\ \/ req'[r] = Done
            \/ /\ SameEnd(r) /\ req'[r].plan = req[r].plan
               /\ \/ req'[r].pc = "fetch"
                  \/ req'[r].pc = "ringEnd" /\ status[req[r].call] = "active"
<1>1. CASE Answer(r)
  BY <1>1, AnswerFields DEF ExpireRead
<1>2. CASE req' = [req EXCEPT ![r].pc = "fetch"]
  BY <1>2 DEF Request, SameEnd, OthersStay, ExpireRead
<1>3. CASE req' = [req EXCEPT ![r].pc = "ringEnd"] /\ status[req[r].call] = "active"
  BY <1>3 DEF Request, SameEnd, OthersStay, ExpireRead
<1> QED BY <1>1, <1>2, <1>3 DEF ExpireRead

\* A fetched call is open, and its breakoutRoomIds are where the cascade starts.
LEMMA FetchFields ==
  ASSUME TypeOK, LocalsOK, NEW r \in Req, Fetch(r)
  PROVE  /\ OthersStay(r) /\ req[r].pc = "fetch" /\ req[r].call \in Call
         /\ \/ req'[r] = Done
            \/ Afresh(r)
            \/ LET c == req[r].call IN
               /\ status[c] \in OpenStates
               /\ req'[r].pc = IF rooms[c] = {} THEN "main" ELSE "collect"
               /\ req'[r].op = req[r].op /\ req'[r].call = c
               /\ req'[r].seen[c] = status[c] /\ status[c] \in req'[r].from
               /\ req'[r].frontier = rooms[c] /\ req'[r].plan = req[r].plan
               /\ IF req[r].op = "update" THEN req'[r].from = {status[c]}
                  ELSE req'[r].from = req[r].from /\ req'[r].reason = req[r].reason
<1>. DEFINE c == req[r].call
            s == status[c]
            from == IF req[r].op = "update" THEN {s} ELSE req[r].from
            why == IF req[r].op = "update" /\ s \in OpenStates THEN EndReasonFor(s)
                   ELSE req[r].reason
            p == IF rooms[c] = {} THEN "main" ELSE "collect"
<1>1. req \in [Req -> Request] /\ req[r].pc = "fetch" /\ c \in Call
  BY DEF TypeOK, Fetch, LocalsOK, LocalOK, EndingPcs
<1>2. CASE Answer(r)
  BY <1>1, <1>2, AnswerFields
<1>3. CASE Refused(r)
  BY <1>1, <1>3, RefusedFields
<1>4. CASE /\ s \in from \cap OpenStates
           /\ req' = [req EXCEPT ![r].pc = p, ![r].seen[c] = s, ![r].from = from,
                                 ![r].reason = why, ![r].frontier = rooms[c]]
  <2>1. req[r].op = "update" => from = {s}
    OBVIOUS
  <2>2. req[r].op # "update" => from = req[r].from /\ why = req[r].reason
    OBVIOUS
  <2>3. s \in from /\ s \in OpenStates
    BY <1>4
  <2> HIDE DEF s, from, why, p
  <2>4. /\ req'[r].pc = p /\ req'[r].seen[c] = s /\ req'[r].from = from
        /\ req'[r].reason = why /\ req'[r].frontier = rooms[c]
        /\ req'[r].op = req[r].op /\ req'[r].call = c /\ req'[r].plan = req[r].plan
        /\ OthersStay(r)
    BY <1>1, <1>4 DEF Request, OthersStay
  <2> QED BY <1>1, <2>1, <2>2, <2>3, <2>4 DEF s, p
<1> QED BY <1>2, <1>3, <1>4 DEF Fetch

\* What one level of the room tree adds to the plan: the open rooms not planned yet.
Found(q) == {c \in q.frontier : status[c] \in OpenStates} \ ({q.call} \cup Planned(q.plan))

LEMMA CollectFields ==
  ASSUME TypeOK, NEW r \in Req, Collect(r)
  PROVE  LET found == Found(req[r])
             next == UNION {rooms[c] : c \in found}
             plan == IF found = {} THEN req[r].plan ELSE Append(req[r].plan, found)
         IN /\ OthersStay(r) /\ req[r].pc = "collect" /\ SameEnd(r)
            /\ req'[r].pc = IF next = {} THEN AfterRooms(plan) ELSE "collect"
            /\ req'[r].frontier = next /\ req'[r].plan = plan
            /\ req'[r].seen = [c \in Call |-> IF c \in found THEN status[c]
                                              ELSE req[r].seen[c]]
<1>. DEFINE found == Found(req[r])
            next == UNION {rooms[c] : c \in found}
            plan == IF found = {} THEN req[r].plan ELSE Append(req[r].plan, found)
            p == IF next = {} THEN AfterRooms(plan) ELSE "collect"
            seen == [c \in Call |-> IF c \in found THEN status[c] ELSE req[r].seen[c]]
<1>1. req \in [Req -> Request]
  BY DEF TypeOK
<1>2. req' = [req EXCEPT ![r].pc = p, ![r].frontier = next, ![r].plan = plan,
                         ![r].seen = seen]
  BY DEF Collect, Found
<1>3. req[r].pc = "collect"
  BY DEF Collect
<1> HIDE DEF found, next, plan, p, seen
<1>4. /\ req'[r].pc = p /\ req'[r].frontier = next /\ req'[r].plan = plan
      /\ req'[r].seen = seen /\ SameEnd(r) /\ OthersStay(r)
  BY <1>1, <1>2 DEF Request, SameEnd, OthersStay
<1> QED BY <1>3, <1>4 DEF found, next, plan, p, seen

\* A room that is off the plan leaves its level, the deepest, or takes it along.
LEMMA WithoutFacts ==
  ASSUME NEW plan \in Plans, plan # <<>>, NEW c
  PROVE  LET n == Len(plan)
             w == Without(plan, c)
         IN /\ n \in Nat /\ n > 0 /\ DOMAIN plan = 1..n
            /\ Len(w) \in Nat /\ DOMAIN w = 1..Len(w)
            /\ Len(w) = n \/ (Len(w) = n - 1 /\ plan[n] = {c})
            /\ \A i \in 1..Len(w) : w[i] = IF i = n THEN plan[n] \ {c} ELSE plan[i]
<1>. DEFINE n == Len(plan)
            w == Without(plan, c)
<1>1. n \in Nat /\ n > 0 /\ DOMAIN plan = 1..n /\ plan \in Seq(SUBSET Call)
  BY DEF Plans
<1>2. CASE plan[n] = {c}
  <2>. DEFINE a == SubSeq(plan, 1, n - 1)
              b == SubSeq(plan, n + 1, n)
  <2>1. /\ a \in Seq(SUBSET Call) /\ Len(a) = n - 1
        /\ \A i \in 1..(n - 1) : a[i] = plan[i]
    BY <1>1
  <2>2. b \in Seq(SUBSET Call) /\ Len(b) = 0
    BY <1>1
  <2>3. w = a \o b
    BY <1>2 DEF Without, Deepest
  <2> HIDE DEF a, b
  <2>4. Len(a \o b) = Len(a) /\ \A i \in 1..Len(a) : (a \o b)[i] = a[i]
    BY <2>1, <2>2
  <2>5. a \o b \in Seq(SUBSET Call)
    BY <2>1, <2>2
  <2> HIDE DEF w
  <2>6. Len(w) = n - 1 /\ DOMAIN w = 1..(n - 1)
    BY <2>1, <2>3, <2>4, <2>5
  <2>7. \A i \in 1..(n - 1) : w[i] = plan[i]
    BY <2>1, <2>3, <2>4
  <2> HIDE DEF n
  <2>8. n - 1 \in Nat /\ \A i \in 1..(n - 1) : i # n
    BY <1>1
  <2> QED BY <1>1, <1>2, <2>6, <2>7, <2>8 DEF w, n
<1>3. CASE plan[n] # {c}
  <2>1. w = [plan EXCEPT ![n] = @ \ {c}]
    BY <1>3 DEF Without, Deepest
  <2>2. Len(w) = n /\ DOMAIN w = 1..n
    BY <1>1, <2>1
  <2>3. \A i \in 1..n : w[i] = IF i = n THEN plan[n] \ {c} ELSE plan[i]
    BY <1>1, <2>1
  <2> HIDE DEF w
  <2> QED BY <1>1, <2>2, <2>3 DEF w
<1> QED BY <1>2, <1>3

\* A room of the deepest level is ended or found ended and then off the plan,
\* or is found changed; a room that is gone gives the cascade up.
LEMMA EndRoomFields ==
  ASSUME TypeOK, NEW r \in Req, NEW c \in Call, EndRoom(r, c)
  PROVE  /\ OthersStay(r) /\ req[r].pc = "rooms" /\ req[r].plan # <<>>
         /\ c \in req[r].plan[Len(req[r].plan)]
         /\ \/ req'[r] = Done /\ UNCHANGED callVars
            \/ /\ SameEnd(r) /\ req'[r].seen = req[r].seen
               /\ req'[r].pc = "readRecordings" /\ req'[r].room = c
               /\ req'[r].plan = Without(req[r].plan, c)
               /\ \/ status[c] \in OpenStates /\ StoreEnd(c, EndReasonFor(status[c]))
                  \/ status[c] = "ended" /\ UNCHANGED callVars
            \/ /\ SameEnd(r) /\ req'[r].pc = "rooms" /\ req'[r].plan = req[r].plan
               /\ req'[r].seen = [req[r].seen EXCEPT ![c] = status[c]]
               /\ UNCHANGED callVars
<1>. DEFINE plan == Without(req[r].plan, c)
<1>1. /\ req \in [Req -> Request] /\ req[r].pc = "rooms" /\ req[r].plan # <<>>
      /\ c \in req[r].plan[Len(req[r].plan)]
  BY DEF TypeOK, EndRoom, Deepest
<1>2. CASE Answer(r) /\ UNCHANGED callVars
  BY <1>1, <1>2, AnswerFields
<1>3. CASE /\ req' = [req EXCEPT ![r].pc = "readRecordings", ![r].room = c, ![r].plan = plan]
           /\ \/ status[c] \in OpenStates /\ StoreEnd(c, EndReasonFor(status[c]))
              \/ status[c] = "ended" /\ UNCHANGED callVars
  <2> HIDE DEF plan
  <2>1. /\ SameEnd(r) /\ req'[r].seen = req[r].seen
        /\ req'[r].pc = "readRecordings" /\ req'[r].room = c
        /\ req'[r].plan = plan /\ OthersStay(r)
    BY <1>1, <1>3 DEF Request, SameEnd, OthersStay
  <2> QED BY <1>1, <1>3, <2>1 DEF plan
<1>4. CASE req' = [req EXCEPT ![r].seen[c] = status[c]] /\ UNCHANGED callVars
  BY <1>1, <1>4 DEF Request, SameEnd, OthersStay
<1> QED BY <1>2, <1>3, <1>4 DEF EndRoom

LEMMA EndMainFields ==
  ASSUME TypeOK, LocalsOK, NEW r \in Req, EndMain(r)
  PROVE  /\ OthersStay(r) /\ req[r].pc = "main" /\ req[r].call \in Call
         /\ \/ req'[r] = Done /\ UNCHANGED callVars
            \/ /\ SameEnd(r) /\ req'[r].seen = req[r].seen
               /\ req'[r].pc = "readRecordings" /\ req'[r].room = req[r].call
               /\ req'[r].plan = req[r].plan
               /\ status[req[r].call] \in req[r].from \cap OpenStates
               /\ StoreEnd(req[r].call, req[r].reason)
            \/ Afresh(r) /\ UNCHANGED callVars
<1>1. /\ req \in [Req -> Request] /\ req[r].pc = "main" /\ req[r].call \in Call
      /\ req[r].from \subseteq OpenStates
  BY DEF TypeOK, EndMain, LocalsOK, LocalOK, EndingPcs
<1>2. CASE Answer(r) /\ UNCHANGED callVars
  BY <1>1, <1>2, AnswerFields
<1>3. CASE Refused(r) /\ UNCHANGED callVars
  BY <1>1, <1>3, RefusedFields
<1>4. CASE /\ req' = [req EXCEPT ![r].pc = "readRecordings", ![r].room = req[r].call]
           /\ Expected(r) /\ StoreEnd(req[r].call, req[r].reason)
  BY <1>1, <1>4 DEF Request, SameEnd, OthersStay, Expected
<1> QED BY <1>2, <1>3, <1>4 DEF EndMain

\* Stopping what runs on a call: the request gives up, goes on stopping, or is
\* done with the call.
Stops(r) ==
  \/ ReadRecordings(r) \/ ReadStreams(r) \/ AnnounceStop(r)
  \/ \E m \in Media : StopRecording(r, m) \/ StopStream(r, m)

SameCascade(r) == SameEnd(r) /\ req'[r].plan = req[r].plan /\ req'[r].seen = req[r].seen

LEMMA StopFields ==
  ASSUME TypeOK, NEW r \in Req, Stops(r)
  PROVE  /\ OthersStay(r) /\ req[r].pc \in StopPcs /\ UNCHANGED callVars
         /\ \/ req'[r] = Done /\ \E m \in Media : mstate[m] = "destroyed"
            \/ req'[r].pc \in StopPcs /\ SameCascade(r) /\ req'[r].room = req[r].room
            \/ /\ req[r].room # req[r].call /\ SameCascade(r)
               /\ req'[r].pc = AfterRooms(req[r].plan)
            \/ /\ req[r].room = req[r].call /\ OwesRingEnd(req[r])
               /\ req'[r].pc = "ringEnd" /\ SameCascade(r)
            \/ /\ req[r].room = req[r].call /\ ~OwesRingEnd(req[r])
               /\ req'[r] = Done
<1>1. req \in [Req -> Request] /\ req[r] \in Request
  BY DEF TypeOK
<1>2. req[r].pc \in StopPcs /\ UNCHANGED callVars
  BY DEF Stops, StopPcs, ReadRecordings, ReadStreams, AnnounceStop, StopRecording, StopStream
<1>. DEFINE Goal == /\ OthersStay(r)
                    /\ \/ req'[r] = Done /\ \E m \in Media : mstate[m] = "destroyed"
                       \/ /\ req'[r].pc \in StopPcs /\ SameCascade(r)
                          /\ req'[r].room = req[r].room
                       \/ /\ req[r].room # req[r].call /\ SameCascade(r)
                          /\ req'[r].pc = AfterRooms(req[r].plan)
                       \/ /\ req[r].room = req[r].call /\ OwesRingEnd(req[r])
                          /\ req'[r].pc = "ringEnd" /\ SameCascade(r)
                       \/ /\ req[r].room = req[r].call /\ ~OwesRingEnd(req[r])
                          /\ req'[r] = Done
<1>3. ASSUME NEW todo, req' = [req EXCEPT ![r] = WithRecordings(@, todo)]
      PROVE  Goal
  <2>1. /\ OthersStay(r) /\ SameCascade(r) /\ req'[r].room = req[r].room
        /\ req'[r].pc \in {"readStreams", "stopRecordings"}
    BY <1>1, <1>3 DEF WithRecordings, Request, SameCascade, SameEnd, OthersStay
  <2> QED BY <2>1 DEF StopPcs
<1>4. ASSUME NEW todo, req' = [req EXCEPT ![r] = WithStreams(@, todo)]
      PROVE  Goal
  <2>1. CASE todo # {}
    <3>1. /\ OthersStay(r) /\ SameCascade(r) /\ req'[r].room = req[r].room
          /\ req'[r].pc = "stopStreams"
      BY <1>1, <1>4, <2>1 DEF WithStreams, Request, SameCascade, SameEnd, OthersStay
    <3> QED BY <3>1 DEF StopPcs
  <2>2. CASE todo = {}
    <3>1. req' = [req EXCEPT ![r] = NextCall(req[r])]
      BY <1>4, <2>2 DEF WithStreams
    <3>2. CASE req[r].room # req[r].call
      <4>1. req' = [req EXCEPT ![r] = [req[r] EXCEPT !.pc = AfterRooms(req[r].plan),
                                                     !.room = NoCall, !.todo = {}]]
        BY <3>1, <3>2 DEF NextCall
      <4> QED BY <1>1, <3>2, <4>1 DEF Request, SameCascade, SameEnd, OthersStay
    <3>3. CASE req[r].room = req[r].call /\ OwesRingEnd(req[r])
      <4>1. req' = [req EXCEPT ![r] = [req[r] EXCEPT !.pc = "ringEnd", !.todo = {}]]
        BY <3>1, <3>3 DEF NextCall
      <4> QED BY <1>1, <3>3, <4>1 DEF Request, SameCascade, SameEnd, OthersStay
    <3>4. CASE req[r].room = req[r].call /\ ~OwesRingEnd(req[r])
      <4>1. req' = [req EXCEPT ![r] = Done]
        BY <3>1, <3>4 DEF NextCall
      <4> QED BY <1>1, <3>4, <4>1 DEF OthersStay
    <3> QED BY <3>2, <3>3, <3>4
  <2> QED BY <2>1, <2>2
<1>5. CASE ReadRecordings(r) \/ ReadStreams(r) \/ AnnounceStop(r)
  BY <1>2, <1>3, <1>4, <1>5 DEF ReadRecordings, ReadStreams, AnnounceStop
<1>6. ASSUME NEW m \in Media, StopRecording(r, m) \/ StopStream(r, m)
      PROVE  Goal
  <2>1. CASE Answer(r) /\ mstate[m] = "destroyed"
    BY <1>1, <2>1, AnswerFields
  <2>2. CASE req' = [req EXCEPT ![r].pc = "announceStop", ![r].item = m, ![r].todo = @ \ {m}]
    <3>1. /\ OthersStay(r) /\ SameCascade(r) /\ req'[r].room = req[r].room
          /\ req'[r].pc = "announceStop"
      BY <1>1, <2>2 DEF Request, SameCascade, SameEnd, OthersStay
    <3> QED BY <3>1 DEF StopPcs
  <2> QED BY <1>3, <1>4, <1>6, <2>1, <2>2 DEF StopRecording, StopStream
<1> QED BY <1>2, <1>5, <1>6 DEF Stops

\* The steps that end no call, and after which the request ends none.
Quiet(r) ==
  \/ RingEnd(r)
  \/ \E m \in Media, s \in LiveStates \cup {"stopped"} : Announce(r, m, s)
  \/ DropStop(r) \/ DropAnnounce(r) \/ Drop(r)
  \/ \E m \in Media, c \in Call : CreateMedia(r, m, c)
  \/ \E m \in Media, s \in {"paused", "recording", "stopped"} : UpdateMedia(r, m, s)
  \/ \E m \in Media : BeginDrop(r, m)

LEMMA QuietFields ==
  ASSUME TypeOK, NEW r \in Req, Quiet(r)
  PROVE  /\ OthersStay(r) /\ req'[r].pc \notin EndingPcs \cup {"idle"}
         /\ UNCHANGED callVars
         /\ req[r].pc \in {"idle", "ringEnd", "announce"} \cup DropPcs
<1>1. req \in [Req -> Request] /\ req[r] \in Request
  BY DEF TypeOK
<1>2. UNCHANGED callVars /\ req[r].pc \in {"idle", "ringEnd", "announce"} \cup DropPcs
  BY DEF Quiet, RingEnd, Announce, DropStop, DropAnnounce, Drop, CreateMedia, MayStart,
     UpdateMedia, BeginDrop, DropPcs
<1>3. CASE Answer(r)
  BY <1>1, <1>2, <1>3, AnswerFields DEF EndingPcs
<1>4. ASSUME NEW o, NEW m, NEW s, Announcing(r, o, m, s)
      PROVE  OthersStay(r) /\ req'[r].pc = "announce"
  BY <1>1, <1>4 DEF Announcing, Request, OthersStay
<1>5. ASSUME NEW pc, req' = [req EXCEPT ![r].pc = pc]
      PROVE  OthersStay(r) /\ req'[r].pc = pc
  BY <1>1, <1>5 DEF Request, OthersStay
<1>6. CASE RingEnd(r) \/ \E m \in Media, s \in LiveStates \cup {"stopped"} : Announce(r, m, s)
  BY <1>3, <1>6 DEF RingEnd, Announce
<1>7. CASE DropStop(r) \/ DropAnnounce(r) \/ Drop(r)
  <2>1. Answer(r) \/ \E pc \in {"drop", "dropAnnounce"} : req' = [req EXCEPT ![r].pc = pc]
    <3>1. CASE DropStop(r)
      <4>1. CASE req[r].item \in Recording
        BY <3>1, <4>1 DEF DropStop
      <4>2. CASE req[r].item \notin Recording
        BY <3>1, <4>2 DEF DropStop
      <4> QED BY <4>1, <4>2
    <3>2. CASE DropAnnounce(r) \/ Drop(r)
      BY <3>2 DEF DropAnnounce, Drop
    <3> QED BY <1>7, <3>1, <3>2
  <2>2. ASSUME NEW pc \in {"drop", "dropAnnounce"}, req' = [req EXCEPT ![r].pc = pc]
        PROVE  OthersStay(r) /\ req'[r].pc \notin EndingPcs \cup {"idle"}
    BY <1>5, <2>2 DEF EndingPcs
  <2> QED BY <1>2, <1>3, <2>1, <2>2
<1>8. CASE \/ \E m \in Media, c \in Call : CreateMedia(r, m, c)
           \/ \E m \in Media, s \in {"paused", "recording", "stopped"} : UpdateMedia(r, m, s)
  BY <1>2, <1>3, <1>4, <1>8 DEF CreateMedia, CreateRecording, CreateLivestream, UpdateMedia,
     UpdateRecording, UpdateLivestream, EndingPcs
<1>9. ASSUME NEW m \in Media, BeginDrop(r, m)
      PROVE  OthersStay(r) /\ req'[r].pc \in DropPcs
  <2>. DEFINE p == IF Live(m) THEN "dropStop" ELSE "drop"
  <2>1. req' = [req EXCEPT ![r].pc = p, ![r].op = "drop", ![r].item = m]
    BY <1>9 DEF BeginDrop
  <2>2. p \in DropPcs
    BY DEF DropPcs
  <2> HIDE DEF p
  <2> QED BY <1>1, <2>1, <2>2 DEF Request, OthersStay
<1> QED BY <1>2, <1>6, <1>7, <1>8, <1>9 DEF Quiet, DropPcs, EndingPcs

\* The steps, by what they are to an end.
LEMMA EndSteps ==
  ASSUME Next
  PROVE  \/ \E c \in Call, k \in Kinds : CreateCall(c, k, NoCall)
         \/ \E c, p \in Call, k \in Kinds : MayOpenRoom /\ CreateCall(c, k, p)
         \/ \E c \in Call : Activate(c) \/ DestroyCall(c)
         \/ \E m \in Media : StreamProgress(m)
         \/ \E r \in Req :
              \/ \E c \in Call : BeginUpdate(r, c) \/ BeginServerEnd(r, c) \/ BeginExpire(r, c)
              \/ ExpireRead(r) \/ Fetch(r) \/ Collect(r) \/ EndMain(r)
              \/ \E c \in Call : EndRoom(r, c)
              \/ Stops(r) \/ Quiet(r)
BY DEF Next, Accept, Step, Stops, Quiet

-----------------------------------------------------------------------------
(* What a request that ends a call is about.                               *)

\* The program counters between the fetch of the call and its last stop.
CascadePcs == {"collect", "rooms", "main"} \cup StopPcs

\* An expired ring is only ever "missed", a call that was read open is ended
\* for the state it was read in, and the cascade plans rooms, not the call.
Purpose(q) ==
  /\ q.pc \in EndingPcs => q.op \in {"update", "server", "expire"}
  /\ q.pc = "expire" => q.op = "expire"
  /\ q.pc \in EndingPcs /\ q.op = "expire" => q.reason = "missed"
  /\ q.pc \in EndingPcs /\ q.op = "server" /\ q.reason = "cancelled" => q.from = {"ringing"}
  /\ q.pc \in CascadePcs => /\ q.seen[q.call] \in q.from
                            /\ q.op = "update" => q.from = {q.seen[q.call]}
                            /\ q.call \notin Planned(q.plan)
  /\ q.pc \in {"idle", "expire", "fetch", "main"} => q.plan = <<>>

Purposes == \A r \in Req : Purpose(req[r])

\* The members of a plan without a room, and of one with another level.
LEMMA PlannedFacts ==
  ASSUME NEW plan \in Plans
  PROVE  /\ Planned(<<>>) = {}
         /\ \A s \in SUBSET Call : Planned(Append(plan, s)) = Planned(plan) \cup s
         /\ \A c : plan # <<>> => Planned(Without(plan, c)) \subseteq Planned(plan)
         /\ plan # <<>> => plan[Len(plan)] \subseteq Planned(plan)
         /\ Planned(plan) \subseteq Call
<1>1. plan \in Seq(SUBSET Call) /\ DOMAIN plan = 1..Len(plan) /\ Len(plan) \in Nat
  BY DEF Plans
<1>2. Planned(<<>>) = {}
  BY DEF Planned
<1>3. ASSUME NEW s \in SUBSET Call
      PROVE  Planned(Append(plan, s)) = Planned(plan) \cup s
  <2>1. /\ DOMAIN Append(plan, s) = 1..(Len(plan) + 1)
        /\ Append(plan, s)[Len(plan) + 1] = s
        /\ \A i \in 1..Len(plan) : Append(plan, s)[i] = plan[i]
    BY <1>1
  <2>2. ASSUME NEW x \in Planned(Append(plan, s))
        PROVE  x \in Planned(plan) \cup s
    <3>1. PICK i \in 1..(Len(plan) + 1) : x \in Append(plan, s)[i]
      BY <2>1 DEF Planned
    <3> QED BY <1>1, <2>1, <3>1 DEF Planned
  <2>3. ASSUME NEW x \in Planned(plan) \cup s
        PROVE  x \in Planned(Append(plan, s))
    <3>1. CASE x \in s
      BY <1>1, <2>1, <3>1 DEF Planned
    <3>2. CASE x \in Planned(plan)
      <4>1. PICK i \in 1..Len(plan) : x \in plan[i]
        BY <1>1, <3>2 DEF Planned
      <4>2. i \in 1..(Len(plan) + 1)
        BY <1>1
      <4> QED BY <2>1, <4>1, <4>2 DEF Planned
    <3> QED BY <2>3, <3>1, <3>2
  <2> QED BY <2>2, <2>3
<1>4. ASSUME NEW c, plan # <<>>
      PROVE  Planned(Without(plan, c)) \subseteq Planned(plan)
  <2>. DEFINE w == Without(plan, c)
              n == Len(plan)
  <2>1. /\ n \in Nat /\ n > 0 /\ Len(w) \in Nat /\ DOMAIN w = 1..Len(w)
        /\ Len(w) = n \/ Len(w) = n - 1
        /\ \A i \in 1..Len(w) : w[i] = IF i = n THEN plan[n] \ {c} ELSE plan[i]
    BY <1>4, WithoutFacts
  <2> HIDE DEF w
  <2>2. ASSUME NEW x \in Planned(w)
        PROVE  x \in Planned(plan)
    <3>1. PICK i \in 1..Len(w) : x \in w[i]
      BY <2>1 DEF Planned
    <3>2. i \in 1..Len(plan) /\ x \in plan[i]
      BY <2>1, <3>1
    <3> QED BY <1>1, <3>2 DEF Planned
  <2> QED BY <2>2 DEF w
<1>5. ASSUME plan # <<>>
      PROVE  plan[Len(plan)] \subseteq Planned(plan)
  <2>1. Len(plan) \in DOMAIN plan
    BY <1>1, <1>5
  <2> QED BY <2>1 DEF Planned
<1>6. Planned(plan) \subseteq Call
  <2>1. \A i \in DOMAIN plan : plan[i] \in SUBSET Call
    BY <1>1
  <2> QED BY <2>1 DEF Planned
<1> QED BY <1>2, <1>3, <1>4, <1>5, <1>6

\* A request about to end its call again, or no longer ending one.
LEMMA PurposeAfresh ==
  ASSUME NEW r \in Req, req[r].pc \in EndingPcs, Purpose(req[r]),
         req'[r] = Done \/ Afresh(r)
  PROVE  Purpose(req'[r])
<1>1. CASE req'[r] = Done
  BY <1>1 DEF Purpose, Done, Idle, EndingPcs, CascadePcs, StopPcs
<1>2. CASE Afresh(r)
  BY <1>2 DEF Afresh, SameEnd, Purpose, EndingPcs, CascadePcs, StopPcs
<1> QED BY <1>1, <1>2

LEMMA PurposeCollect ==
  ASSUME TypeOK, LocalsOK, NEW r \in Req, Collect(r), Purpose(req[r])
  PROVE  Purpose(req'[r])
<1>. DEFINE found == Found(req[r])
            next == UNION {rooms[c] : c \in found}
            plan == IF found = {} THEN req[r].plan ELSE Append(req[r].plan, found)
<1>1. /\ req[r].pc = "collect" /\ SameEnd(r)
      /\ req'[r].pc = IF next = {} THEN AfterRooms(plan) ELSE "collect"
      /\ req'[r].plan = plan
      /\ req'[r].seen = [c \in Call |-> IF c \in found THEN status[c] ELSE req[r].seen[c]]
  BY CollectFields
<1>2. /\ req[r] \in Request /\ req[r].plan \in Plans /\ req[r].call \in Call
      /\ found \in SUBSET Call /\ req[r].call \notin found
  BY <1>1 DEF TypeOK, LocalsOK, LocalOK, EndingPcs, Request, Found
<1>3. req[r].call \notin Planned(plan)
  BY <1>1, <1>2, PlannedFacts DEF Purpose, CascadePcs
<1>4. req'[r].seen[req[r].call] = req[r].seen[req[r].call]
  BY <1>1, <1>2
<1>5. req'[r].pc \in {"collect", "rooms", "main"} /\ (req'[r].pc = "main" => plan = <<>>)
  BY <1>1 DEF AfterRooms
<1> HIDE DEF plan, found, next
<1> QED BY <1>1, <1>3, <1>4, <1>5 DEF Purpose, SameEnd, CascadePcs, EndingPcs, StopPcs

LEMMA PurposeRooms ==
  ASSUME TypeOK, LocalsOK, NEW r \in Req, NEW c \in Call, EndRoom(r, c), Purpose(req[r])
  PROVE  Purpose(req'[r])
<1>1. /\ req[r].pc = "rooms" /\ req[r].plan # <<>> /\ req[r].plan \in Plans
      /\ c \in req[r].plan[Len(req[r].plan)]
      /\ req[r].seen \in [Call -> Status] /\ req[r].call \in Call
  BY EndRoomFields DEF TypeOK, Request, LocalsOK, LocalOK, EndingPcs
<1>2. c # req[r].call
  BY <1>1, PlannedFacts DEF Purpose, CascadePcs
<1>3. CASE req'[r] = Done
  BY <1>1, <1>3, PurposeAfresh DEF EndingPcs
<1>4. CASE /\ SameEnd(r) /\ req'[r].seen = req[r].seen
           /\ req'[r].pc = "readRecordings"
           /\ req'[r].plan = Without(req[r].plan, c)
  <2>1. req[r].call \notin Planned(req'[r].plan)
    BY <1>1, <1>4, PlannedFacts DEF Purpose, CascadePcs
  <2> QED BY <1>1, <1>4, <2>1 DEF Purpose, SameEnd, CascadePcs, EndingPcs, StopPcs
<1>5. CASE /\ SameEnd(r) /\ req'[r].pc = "rooms" /\ req'[r].plan = req[r].plan
           /\ req'[r].seen = [req[r].seen EXCEPT ![c] = status[c]]
  <2>1. req'[r].seen[req[r].call] = req[r].seen[req[r].call]
    BY <1>1, <1>2, <1>5
  <2> QED BY <1>1, <1>5, <2>1 DEF Purpose, SameEnd, CascadePcs, EndingPcs, StopPcs
<1> QED BY <1>3, <1>4, <1>5, EndRoomFields

\* Every request keeps its purpose through every step.
LEMMA PurposeStep ==
  ASSUME TypeOK, LocalsOK, Purposes, Next
  PROVE  Purposes'
<1>1. req \in [Req -> Request]
  BY DEF TypeOK
<1>2. CASE UNCHANGED req
  BY <1>2 DEF Purposes
<1>3. ASSUME NEW r \in Req, OthersStay(r), Purpose(req'[r])
      PROVE  Purposes'
  BY <1>3 DEF Purposes, OthersStay, Purpose
<1>4. \A r \in Req : Purpose(req[r])
  BY DEF Purposes
<1>5. ASSUME NEW r \in Req, NEW c \in Call,
             BeginUpdate(r, c) \/ BeginServerEnd(r, c) \/ BeginExpire(r, c)
      PROVE  Purposes'
  <2>1. Purpose(req'[r])
    BY <1>1, <1>4, <1>5, BeginFields DEF Purpose, EndingPcs, CascadePcs, StopPcs
  <2> QED BY <1>1, <1>3, <1>5, <2>1, BeginFields
<1>6. ASSUME NEW r \in Req, ExpireRead(r)
      PROVE  Purposes'
  <2>1. Purpose(req[r]) /\ req[r].pc = "expire" /\ OthersStay(r)
    BY <1>1, <1>4, <1>6, ExpireReadFields
  <2>. SUFFICES Purpose(req'[r])
    BY <1>3, <2>1
  <2>2. CASE req'[r] = Done
    BY <2>1, <2>2, PurposeAfresh DEF EndingPcs
  <2>3. CASE SameEnd(r) /\ req'[r].plan = req[r].plan /\ req'[r].pc \in {"fetch", "ringEnd"}
    BY <2>1, <2>3 DEF Purpose, SameEnd, EndingPcs, CascadePcs, StopPcs
  <2> QED BY <1>1, <1>6, <2>2, <2>3, ExpireReadFields
<1>7. ASSUME NEW r \in Req, Fetch(r)
      PROVE  Purposes'
  <2>1. Purpose(req[r]) /\ req[r].pc = "fetch" /\ OthersStay(r)
    BY <1>4, <1>7, FetchFields
  <2>. SUFFICES Purpose(req'[r])
    BY <1>3, <2>1
  <2>2. CASE req'[r] = Done \/ Afresh(r)
    BY <2>1, <2>2, PurposeAfresh DEF EndingPcs
  <2>3. CASE ~(req'[r] = Done \/ Afresh(r))
    <3>1. /\ req'[r].pc = IF rooms[req[r].call] = {} THEN "main" ELSE "collect"
          /\ req'[r].op = req[r].op /\ req'[r].call = req[r].call
          /\ req'[r].seen[req[r].call] = status[req[r].call]
          /\ status[req[r].call] \in req'[r].from /\ req'[r].plan = req[r].plan
          /\ IF req[r].op = "update" THEN req'[r].from = {status[req[r].call]}
             ELSE req'[r].from = req[r].from /\ req'[r].reason = req[r].reason
      BY <1>7, <2>3, FetchFields
    <3>2. req[r].plan = <<>> /\ Planned(req[r].plan) = {}
      BY <2>1 DEF Purpose, Planned
    <3>3. req'[r].pc \in {"main", "collect"}
      BY <3>1
    <3> QED BY <2>1, <3>1, <3>2, <3>3 DEF Purpose, EndingPcs, CascadePcs, StopPcs
  <2> QED BY <2>2, <2>3
<1>8. ASSUME NEW r \in Req, EndMain(r)
      PROVE  Purposes'
  <2>1. Purpose(req[r]) /\ req[r].pc = "main" /\ OthersStay(r)
    BY <1>4, <1>8, EndMainFields
  <2>. SUFFICES Purpose(req'[r])
    BY <1>3, <2>1
  <2>2. CASE req'[r] = Done \/ Afresh(r)
    BY <2>1, <2>2, PurposeAfresh DEF EndingPcs
  <2>3. CASE /\ SameEnd(r) /\ req'[r].seen = req[r].seen
             /\ req'[r].pc = "readRecordings" /\ req'[r].plan = req[r].plan
    BY <2>1, <2>3 DEF Purpose, SameEnd, EndingPcs, CascadePcs, StopPcs
  <2> QED BY <1>8, <2>2, <2>3, EndMainFields
<1>9. ASSUME NEW r \in Req, Stops(r)
      PROVE  Purposes'
  <2>1. Purpose(req[r]) /\ req[r].pc \in StopPcs /\ OthersStay(r)
    BY <1>4, <1>9, StopFields
  <2>. SUFFICES Purpose(req'[r])
    BY <1>3, <2>1
  <2>2. CASE req'[r] = Done
    BY <2>1, <2>2, PurposeAfresh DEF EndingPcs, StopPcs
  <2>3. CASE SameCascade(r) /\ \/ req'[r].pc \in StopPcs \cup {"ringEnd"}
                               \/ req'[r].pc = AfterRooms(req[r].plan)
    BY <2>1, <2>3 DEF Purpose, SameCascade, SameEnd, AfterRooms, EndingPcs, CascadePcs, StopPcs
  <2> QED BY <1>9, <2>2, <2>3, StopFields
<1>10. ASSUME NEW r \in Req, Quiet(r)
       PROVE  Purposes'
  <2>1. Purpose(req'[r])
    BY <1>10, QuietFields DEF Purpose, EndingPcs, CascadePcs, StopPcs
  <2> QED BY <1>3, <1>10, <2>1, QuietFields
<1>11. ASSUME NEW r \in Req, Collect(r)
       PROVE  Purposes'
  <2>1. OthersStay(r)
    BY <1>11, CollectFields
  <2> QED BY <1>3, <1>4, <1>11, <2>1, PurposeCollect
<1>12. ASSUME NEW r \in Req, NEW c \in Call, EndRoom(r, c)
       PROVE  Purposes'
  BY <1>3, <1>4, <1>12, PurposeRooms, EndRoomFields
<1> QED BY <1>2, <1>5, <1>6, <1>7, <1>8, <1>9, <1>10, <1>11, <1>12, EndSteps
        DEF CreateCall, Activate, DestroyCall, StreamProgress

-----------------------------------------------------------------------------
(* What became of a call that some request has ended, or found active.     *)

Settled(c) == status[c] \in {"ended", "destroyed"}

\* A call that is open has no reason yet: EndedIsFinal's other half.
OpenHasNone ==
  \A c \in Call : status[c] \in {"absent"} \cup OpenStates => endReason[c] = "none"

\* An answered ring: a timeout event is the truth about it, and stays so.
Timeable(c) ==
  \/ status[c] = "active"
  \/ Settled(c) /\ endReason[c] \notin {"cancelled", "declined"}

\* A settled call keeps its reason, and an answered one is never cancelled.
LEMMA CallsMove ==
  ASSUME TypeOK, LocalsOK, OpenHasNone, Next
  PROVE  /\ OpenHasNone'
         /\ \A c \in Call : Settled(c) => Settled(c)' /\ endReason'[c] = endReason[c]
         /\ \A c \in Call : Timeable(c) => Timeable(c)'
<1>1. CallStep
  BY CallSteps
<1>2. /\ status \in [Call -> Status] /\ endReason \in [Call -> Reasons]
      /\ OpenStates = {"pending", "ringing", "active"}
  BY DEF TypeOK, OpenStates
<1>3. ASSUME NEW c \in Call, NEW k \in Kinds, NEW p \in Call \cup {NoCall}, CreateCall(c, k, p)
      PROVE  /\ status[c] = "absent" /\ endReason' = endReason
             /\ status' = [status EXCEPT ![c] = InitialState(k)]
             /\ InitialState(k) \in OpenStates
  BY <1>3, KindsAssumption DEF CreateCall, StoreCreate, InitialState, OpenStates
<1>4. ASSUME NEW c \in Call, EndCall(c)
      PROVE  \E why \in Reasons :
                /\ status[c] \in OpenStates /\ why \in Lifecycle!ReasonFits(status[c])
                /\ status' = [status EXCEPT ![c] = "ended"]
                /\ endReason' = [endReason EXCEPT ![c] = why]
  BY <1>4 DEF EndCall, StoreEnd
<1>5. ASSUME NEW c \in Call, Activate(c) \/ DestroyCall(c)
      PROVE  /\ endReason' = endReason
             /\ \/ /\ status[c] \in {"ringing", "pending"}
                   /\ status' = [status EXCEPT ![c] = "active"]
                \/ /\ status[c] \in OpenStates \cup {"ended"}
                   /\ status' = [status EXCEPT ![c] = "destroyed"]
  BY <1>5 DEF Activate, Activatable, DestroyCall, StoreDestroy, Stored
<1>6. CASE UNCHANGED callVars
  BY <1>6 DEF callVars, OpenHasNone, Settled, Timeable
<1>7. ASSUME NEW d \in Call,
             \/ \E k \in Kinds, p \in Call \cup {NoCall} : CreateCall(d, k, p)
             \/ EndCall(d) \/ Activate(d) \/ DestroyCall(d)
      PROVE  OpenHasNone'
  BY <1>2, <1>3, <1>4, <1>5, <1>7 DEF OpenHasNone
<1>8. ASSUME NEW d \in Call,
             \/ \E k \in Kinds, p \in Call \cup {NoCall} : CreateCall(d, k, p)
             \/ EndCall(d) \/ Activate(d) \/ DestroyCall(d),
             NEW c \in Call, Settled(c)
      PROVE  Settled(c)' /\ endReason'[c] = endReason[c]
  BY <1>2, <1>3, <1>4, <1>5, <1>8 DEF Settled
<1>9. ASSUME NEW d \in Call,
             \/ \E k \in Kinds, p \in Call \cup {NoCall} : CreateCall(d, k, p)
             \/ EndCall(d) \/ Activate(d) \/ DestroyCall(d),
             NEW c \in Call, status[c] = "active"
      PROVE  Timeable(c)'
  <2>1. "cancelled" \notin Lifecycle!ReasonFits("active")
        /\ "declined" \notin Lifecycle!ReasonFits("active")
    BY DEF Lifecycle!ReasonFits
  <2>2. endReason[c] = "none"
    BY <1>2, <1>9 DEF OpenHasNone
  <2>3. CASE EndCall(d)
    BY <1>2, <1>4, <1>9, <2>1, <2>2, <2>3 DEF Timeable, Settled
  <2>4. CASE ~EndCall(d)
    BY <1>2, <1>3, <1>5, <1>9, <2>2, <2>4 DEF Timeable, Settled
  <2> QED BY <2>3, <2>4
<1>10. \/ UNCHANGED callVars
       \/ \E d \in Call : \/ \E k \in Kinds, p \in Call \cup {NoCall} : CreateCall(d, k, p)
                          \/ EndCall(d) \/ Activate(d) \/ DestroyCall(d)
  BY <1>1 DEF CallStep
<1>11. CASE \E d \in Call : \/ \E k \in Kinds, p \in Call \cup {NoCall} : CreateCall(d, k, p)
                            \/ EndCall(d) \/ Activate(d) \/ DestroyCall(d)
  <2>1. OpenHasNone'
    BY <1>7, <1>11
  <2>2. \A c \in Call : Settled(c) => Settled(c)' /\ endReason'[c] = endReason[c]
    BY <1>8, <1>11
  <2>3. \A c \in Call : Timeable(c) => Timeable(c)'
    BY <1>9, <1>11, <2>2 DEF Timeable
  <2> QED BY <2>1, <2>2, <2>3
<1> QED BY <1>6, <1>10, <1>11

\* A VTCCallEndEvent is delivered by the step that answers for one.
LEMMA RingEndsMove ==
  ASSUME TypeOK, Next
  PROVE  \/ UNCHANGED ringEnds
         \/ \E r \in Req :
              /\ req[r].pc = "ringEnd"
              /\ ringEnds' = [ringEnds EXCEPT ![req[r].call] =
                   @ \cup {IF req[r].op = "expire" THEN "timeout" ELSE "cancelled"}]
<1>1. ASSUME NEW r \in Req, Quiet(r), ~RingEnd(r)
      PROVE  UNCHANGED ringEnds
  BY <1>1 DEF Quiet, Announce, DropStop, DropAnnounce, Drop, CreateMedia, UpdateMedia, BeginDrop
<1>2. ASSUME NEW r \in Req, Stops(r)
      PROVE  UNCHANGED ringEnds
  BY <1>2 DEF Stops, ReadRecordings, ReadStreams, AnnounceStop, StopRecording, StopStream
<1>3. ASSUME NEW r \in Req,
             \/ \E c \in Call : BeginUpdate(r, c) \/ BeginServerEnd(r, c) \/ BeginExpire(r, c)
             \/ ExpireRead(r) \/ Fetch(r) \/ Collect(r) \/ EndMain(r)
             \/ \E c \in Call : EndRoom(r, c)
      PROVE  UNCHANGED ringEnds
  BY <1>3 DEF BeginUpdate, BeginServerEnd, BeginExpire, ExpireRead, Fetch, Collect, EndMain, EndRoom
<1>4. ASSUME NEW r \in Req, RingEnd(r)
      PROVE  /\ req[r].pc = "ringEnd"
             /\ ringEnds' = [ringEnds EXCEPT ![req[r].call] =
                  @ \cup {IF req[r].op = "expire" THEN "timeout" ELSE "cancelled"}]
  BY <1>4 DEF RingEnd
<1> QED BY <1>1, <1>2, <1>3, <1>4, EndSteps DEF CreateCall, Activate, DestroyCall, StreamProgress

-----------------------------------------------------------------------------
(* VTCCallEndEvents are truthful.                                          *)

\* What a request that has ended its call, or is about to tell its devices,
\* knows of it.
Outcome(q) ==
  /\ q.pc \in StopPcs /\ q.room = q.call =>
       Settled(q.call) /\ endReason[q.call] = q.reason
  /\ q.pc = "ringEnd" => IF q.op = "expire" THEN Timeable(q.call)
                         ELSE Settled(q.call) /\ endReason[q.call] = "cancelled"

Outcomes == \A r \in Req : Outcome(req[r])

\* What a request knows of a call stays true while others move.
LEMMA OutcomeKept ==
  ASSUME TypeOK, LocalsOK, OpenHasNone, Next, NEW r \in Req, Outcome(req[r]),
         req'[r] = req[r]
  PROVE  Outcome(req[r])'
<1>1. CASE req[r].pc \in StopPcs \cup {"ringEnd"}
  <2>1. req[r].call \in Call
    BY <1>1 DEF LocalsOK, LocalOK, EndingPcs, StopPcs
  <2> QED BY <1>1, <2>1, CallsMove DEF Outcome
<1>2. CASE req[r].pc \notin StopPcs \cup {"ringEnd"}
  BY <1>2 DEF Outcome
<1> QED BY <1>1, <1>2

LEMMA OutcomeStep ==
  ASSUME TypeOK, LocalsOK, OpenHasNone, Purposes, Outcomes, Next
  PROVE  Outcomes'
<1>1. req \in [Req -> Request] /\ \A r \in Req : Outcome(req[r])
  BY DEF TypeOK, Outcomes
<1>2. CASE UNCHANGED req
  BY <1>1, <1>2, OutcomeKept DEF Outcomes
<1>3. ASSUME NEW r \in Req, OthersStay(r), Outcome(req[r])'
      PROVE  Outcomes'
  BY <1>1, <1>3, OutcomeKept DEF Outcomes, OthersStay
<1>4. ASSUME NEW r \in Req, OthersStay(r), req'[r].pc \notin StopPcs \cup {"ringEnd"}
      PROVE  Outcomes'
  BY <1>3, <1>4 DEF Outcome
<1>5. ASSUME NEW r \in Req,
             \/ req'[r] = Done \/ Afresh(r)
             \/ req'[r].pc \in {"expire", "fetch", "collect", "rooms", "main", "done"}
      PROVE  req'[r].pc \notin StopPcs \cup {"ringEnd"}
  BY <1>5 DEF Done, Idle, Afresh, StopPcs
<1>6. ASSUME NEW r \in Req, NEW c \in Call,
             BeginUpdate(r, c) \/ BeginServerEnd(r, c) \/ BeginExpire(r, c)
      PROVE  Outcomes'
  BY <1>1, <1>4, <1>5, <1>6, BeginFields
<1>7. ASSUME NEW r \in Req, ExpireRead(r)
      PROVE  Outcomes'
  <2>1. OthersStay(r) /\ req[r].pc = "expire" /\ UNCHANGED status
    BY <1>1, <1>7, ExpireReadFields DEF ExpireRead, callVars
  <2>2. CASE req'[r] = Done \/ req'[r].pc = "fetch"
    BY <1>4, <1>5, <2>1, <2>2
  <2>3. CASE /\ SameEnd(r) /\ req'[r].pc = "ringEnd" /\ status[req[r].call] = "active"
    <3>1. req[r].op = "expire"
      BY <2>1 DEF Purposes, Purpose
    <3>2. Outcome(req[r])'
      BY <2>1, <2>3, <3>1 DEF Outcome, Timeable, SameEnd, StopPcs
    <3> QED BY <1>3, <2>1, <3>2
  <2> QED BY <1>1, <1>7, <2>2, <2>3, ExpireReadFields
<1>8. ASSUME NEW r \in Req, Fetch(r)
      PROVE  Outcomes'
  <2>1. /\ OthersStay(r)
        /\ \/ req'[r] = Done \/ Afresh(r)
           \/ req'[r].pc = IF rooms[req[r].call] = {} THEN "main" ELSE "collect"
    BY <1>8, FetchFields
  <2> QED BY <1>4, <1>5, <2>1
<1>9. ASSUME NEW r \in Req, Collect(r)
      PROVE  Outcomes'
  <2>. DEFINE found == Found(req[r])
              plan == IF found = {} THEN req[r].plan ELSE Append(req[r].plan, found)
  <2>1. /\ OthersStay(r)
        /\ req'[r].pc = IF UNION {rooms[c] : c \in found} = {} THEN AfterRooms(plan)
                        ELSE "collect"
    BY <1>9, CollectFields
  <2> QED BY <1>4, <1>5, <2>1 DEF AfterRooms
<1>10. ASSUME NEW r \in Req, EndMain(r)
       PROVE  Outcomes'
  <2>1. OthersStay(r) /\ req[r].call \in Call
    BY <1>10, EndMainFields
  <2>2. CASE req'[r] = Done \/ Afresh(r)
    BY <1>4, <1>5, <2>1, <2>2
  <2>3. CASE /\ SameEnd(r) /\ req'[r].pc = "readRecordings" /\ req'[r].room = req[r].call
             /\ StoreEnd(req[r].call, req[r].reason)
    <3>1. status'[req[r].call] = "ended" /\ endReason'[req[r].call] = req[r].reason
      BY <2>1, <2>3 DEF StoreEnd, TypeOK
    <3>2. Outcome(req[r])'
      BY <2>3, <3>1 DEF Outcome, Settled, SameEnd
    <3> QED BY <1>3, <2>1, <3>2
  <2> QED BY <1>10, <2>2, <2>3, EndMainFields
<1>11. ASSUME NEW r \in Req, NEW c \in Call, EndRoom(r, c)
       PROVE  Outcomes'
  <2>1. /\ OthersStay(r) /\ req[r].pc = "rooms" /\ req[r].plan # <<>>
        /\ c \in req[r].plan[Len(req[r].plan)] /\ req[r].plan \in Plans
    BY <1>11, EndRoomFields DEF TypeOK, Request
  <2>2. c # req[r].call
    BY <2>1, PlannedFacts DEF Purposes, Purpose, CascadePcs
  <2>3. CASE req'[r] = Done \/ req'[r].pc = "rooms"
    BY <1>4, <1>5, <2>1, <2>3
  <2>4. CASE SameEnd(r) /\ req'[r].pc = "readRecordings" /\ req'[r].room = c
    <3>1. Outcome(req[r])'
      BY <2>2, <2>4 DEF Outcome, SameEnd
    <3> QED BY <1>3, <2>1, <3>1
  <2> QED BY <1>11, <2>3, <2>4, EndRoomFields
<1>12. ASSUME NEW r \in Req, Stops(r)
       PROVE  Outcomes'
  <2>1. /\ OthersStay(r) /\ req[r].pc \in StopPcs /\ UNCHANGED callVars
        /\ Outcome(req[r]) /\ Purpose(req[r])
    BY <1>1, <1>12, StopFields DEF Purposes
  <2>2. CASE req'[r] = Done \/ req'[r].pc = AfterRooms(req[r].plan)
    BY <1>4, <1>5, <2>1, <2>2 DEF AfterRooms
  <2>3. CASE SameCascade(r) /\ req'[r].pc \in StopPcs /\ req'[r].room = req[r].room
    <3>1. Outcome(req[r])'
      BY <2>1, <2>3 DEF Outcome, Settled, SameCascade, SameEnd, callVars, StopPcs
    <3> QED BY <1>3, <2>1, <3>1
  <2>4. CASE /\ req[r].room = req[r].call /\ OwesRingEnd(req[r])
             /\ req'[r].pc = "ringEnd" /\ SameCascade(r)
    <3>1. Settled(req[r].call) /\ endReason[req[r].call] = req[r].reason
      BY <2>1, <2>4 DEF Outcome
    <3>2. req[r].op = "expire" => req[r].reason = "missed"
      BY <2>1 DEF Purpose, EndingPcs, StopPcs
    <3>3. req[r].op # "expire" => req[r].reason = "cancelled"
      BY <2>4 DEF OwesRingEnd
    <3>4. Outcome(req[r])'
      BY <2>1, <2>4, <3>1, <3>2, <3>3
         DEF Outcome, Settled, Timeable, SameCascade, SameEnd, callVars, StopPcs
    <3> QED BY <1>3, <2>1, <3>4
  <2> QED BY <1>12, <2>2, <2>3, <2>4, StopFields
<1>13. ASSUME NEW r \in Req, Quiet(r)
       PROVE  Outcomes'
  BY <1>4, <1>13, QuietFields DEF EndingPcs, StopPcs
<1> QED BY <1>2, <1>6, <1>7, <1>8, <1>9, <1>10, <1>11, <1>12, <1>13, EndSteps
        DEF CreateCall, Activate, DestroyCall, StreamProgress

\* What the devices of a call have been told fits the call they are told of.
Told ==
  \A c \in Call :
    /\ "cancelled" \in ringEnds[c] => Settled(c) /\ endReason[c] = "cancelled"
    /\ "timeout" \in ringEnds[c] => Timeable(c)

LEMMA ToldStep ==
  ASSUME TypeOK, LocalsOK, OpenHasNone, Outcomes, Told, Next
  PROVE  Told'
<1>1. CASE UNCHANGED ringEnds
  BY <1>1, CallsMove DEF Told
<1>2. ASSUME NEW r \in Req, req[r].pc = "ringEnd",
             ringEnds' = [ringEnds EXCEPT ![req[r].call] =
                @ \cup {IF req[r].op = "expire" THEN "timeout" ELSE "cancelled"}]
      PROVE  Told'
  <2>. DEFINE d == req[r].call
              e == IF req[r].op = "expire" THEN "timeout" ELSE "cancelled"
  <2>1. /\ d \in Call /\ (e = "timeout" => Timeable(d))
        /\ e = "cancelled" => Settled(d) /\ endReason[d] = "cancelled"
    BY <1>2 DEF LocalsOK, LocalOK, EndingPcs, Outcomes, Outcome
  <2>2. /\ ringEnds'[d] = ringEnds[d] \cup {e}
        /\ \A c \in Call \ {d} : ringEnds'[c] = ringEnds[c]
    BY <1>2, <2>1 DEF TypeOK
  <2> HIDE DEF e
  <2>3. ASSUME NEW c \in Call
        PROVE  /\ "cancelled" \in ringEnds'[c] => Settled(c) /\ endReason[c] = "cancelled"
               /\ "timeout" \in ringEnds'[c] => Timeable(c)
    BY <2>1, <2>2 DEF Told
  <2> QED BY <2>3, CallsMove DEF Told
<1> QED BY <1>1, <1>2, RingEndsMove

\* The invariant that carries the truth of the events.
Truth == TypeOK /\ LocalsOK /\ OpenHasNone /\ Purposes /\ Outcomes /\ Told

LEMMA TruthInit ==
  ASSUME Init
  PROVE  Truth
<1>1. /\ \A r \in Req : req[r] = Idle
      /\ \A c \in Call : status[c] = "absent" /\ endReason[c] = "none" /\ ringEnds[c] = {}
  BY DEF Init
<1>2. Purposes /\ Outcomes
  BY <1>1 DEF Purposes, Purpose, Outcomes, Outcome, Idle, EndingPcs, CascadePcs, StopPcs
<1>3. OpenHasNone /\ Told
  BY <1>1 DEF OpenHasNone, Told
<1> QED BY <1>2, <1>3, TypeInit DEF Truth

LEMMA TruthStep ==
  ASSUME Truth, [Next]_vars
  PROVE  Truth'
<1>1. CASE Next
  BY <1>1, TypeStep, PurposeStep, OutcomeStep, ToldStep, CallsMove DEF Truth
<1>2. CASE UNCHANGED vars
  BY <1>2, TypeStep DEF Truth, vars, OpenHasNone, Purposes, Purpose, Outcomes, Outcome, Told,
     Settled, Timeable
<1> QED BY <1>1, <1>2

\* deliver_call_end tells the devices what happened: "cancelled" only of a call
\* that was cancelled, "timeout" only of one answered or ended by it, whichever
\* ends, answers and expiries race.
THEOREM Truthful == Spec => []RingEndTruthful
<1>1. Truth => RingEndTruthful
  BY DEF Truth, Told, Timeable, OpenHasNone, RingEndTruthful, TypeOK, OpenStates
<1> QED BY <1>1, TruthInit, TruthStep, PTL DEF Spec

-----------------------------------------------------------------------------
(* The tree of breakout rooms, and the levels a cascade has read of it.    *)

\* An id not minted yet has no parent, and breakoutRoomIds name one's own rooms.
Tree ==
  /\ \A c \in Call : status[c] = "absent" => parent[c] = NoCall
  /\ \A c \in Call : \A d \in rooms[c] : parent[d] = c

\* A room keeps its parent.
LEMMA TreeStep ==
  ASSUME TypeOK, LocalsOK, Tree, Next
  PROVE  /\ Tree'
         /\ \A c \in Call : parent[c] # NoCall => parent'[c] = parent[c]
<1>1. CallStep
  BY CallSteps
<1>2. /\ status \in [Call -> Status] /\ parent \in [Call -> Call \cup {NoCall}]
      /\ rooms \in [Call -> SUBSET Call]
  BY DEF TypeOK
<1>3. ASSUME NEW c \in Call, NEW k \in Kinds, NEW p \in Call \cup {NoCall}, CreateCall(c, k, p)
      PROVE  /\ Tree'
             /\ \A d \in Call : parent[d] # NoCall => parent'[d] = parent[d]
  <2>1. /\ status[c] = "absent" /\ parent[c] = NoCall
        /\ status' = [status EXCEPT ![c] = InitialState(k)]
        /\ parent' = [parent EXCEPT ![c] = p]
        /\ rooms' = [d \in Call |-> IF d = p THEN rooms[d] \cup {c} ELSE rooms[d]]
        /\ InitialState(k) # "absent"
    BY <1>3, KindsAssumption DEF CreateCall, StoreCreate, InitialState, Tree
  <2>2. \A d \in Call : c \notin rooms[d]
    BY <2>1, NoCallAssumption DEF Tree
  <2> QED BY <1>2, <2>1, <2>2 DEF Tree
<1>4. ASSUME NEW c \in Call, EndCall(c) \/ DestroyCall(c) \/ Activate(c)
      PROVE  Tree' /\ parent' = parent
  <2>1. /\ parent' = parent
        /\ \A d \in Call : rooms'[d] \subseteq rooms[d]
        /\ \A d \in Call : status'[d] = "absent" => status[d] = "absent"
    BY <1>2, <1>4 DEF EndCall, StoreEnd, DestroyCall, StoreDestroy, LeaveParent, Activate,
       OpenStates
  <2> QED BY <2>1 DEF Tree
<1>5. CASE UNCHANGED callVars
  BY <1>5 DEF callVars, Tree
<1> QED BY <1>1, <1>3, <1>4, <1>5 DEF CallStep

\* The level above the i-th: the ended call is the parent of the first.
Above(q, i) == IF i = 1 THEN {q.call} ELSE q.plan[i - 1]

\* The levels of a plan are disjoint, and each room's parent is one level up;
\* so are those of the rooms the cascade reads next.
Levels(q) ==
  /\ \A i, j \in DOMAIN q.plan : i # j => q.plan[i] \cap q.plan[j] = {}
  /\ \A i \in DOMAIN q.plan : \A d \in q.plan[i] : parent[d] \in Above(q, i)
  /\ q.pc = "collect" => \A d \in q.frontier : parent[d] \in Above(q, Len(q.plan) + 1)

Levelled == \A r \in Req : req[r].pc \in CascadePcs => Levels(req[r])

LEMMA AboveIsCalls ==
  ASSUME NEW q \in Request, q.call \in Call
  PROVE  /\ \A i \in DOMAIN q.plan : Above(q, i) \subseteq Call
         /\ Above(q, Len(q.plan) + 1) \subseteq Call
<1>. DEFINE n == Len(q.plan)
<1>1. n \in Nat /\ DOMAIN q.plan = 1..n /\ \A i \in 1..n : q.plan[i] \subseteq Call
  BY DEF Request, Plans
<1>2. ASSUME NEW i \in 1..(n + 1)
      PROVE  Above(q, i) \subseteq Call
  <2>1. CASE i = 1
    BY <2>1 DEF Above
  <2>2. CASE i # 1
    <3> HIDE DEF n
    <3>1. i - 1 \in 1..n
      BY <1>1, <2>2
    <3> QED BY <1>1, <2>2, <3>1 DEF Above
  <2> QED BY <2>1, <2>2
<1> HIDE DEF n
<1>3. n + 1 \in 1..(n + 1) /\ \A i \in 1..n : i \in 1..(n + 1)
  BY <1>1
<1> QED BY <1>1, <1>2, <1>3 DEF n

\* So every planned room has a parent, which is a call.
LEMMA PlannedHaveParents ==
  ASSUME NEW q \in Request, q.call \in Call, Levels(q)
  PROVE  /\ \A d \in Planned(q.plan) : parent[d] \in Call
         /\ q.pc = "collect" => \A d \in q.frontier : parent[d] \in Call
BY AboveIsCalls DEF Levels, Planned

LEMMA LevelsKept ==
  ASSUME TypeOK, LocalsOK, Tree, Next, NEW r \in Req, req[r].pc \in CascadePcs, Levels(req[r]),
         req'[r].call = req[r].call, req'[r].plan = req[r].plan,
         req'[r].pc = "collect" => req[r].pc = "collect" /\ req'[r].frontier = req[r].frontier
  PROVE  Levels(req[r])'
<1>1. req[r] \in Request /\ req[r].call \in Call
  BY DEF TypeOK, LocalsOK, LocalOK, EndingPcs, CascadePcs, StopPcs
<1>2. /\ \A d \in Planned(req[r].plan) : parent[d] # NoCall
      /\ req[r].pc = "collect" => \A d \in req[r].frontier : parent[d] # NoCall
  BY <1>1, PlannedHaveParents, NoCallAssumption
<1>3. /\ Planned(req[r].plan) \subseteq Call /\ req[r].frontier \subseteq Call
      /\ \A i \in DOMAIN req[r].plan : req[r].plan[i] \subseteq Planned(req[r].plan)
  BY <1>1, PlannedFacts DEF Request, Planned
<1>4. /\ \A i \in DOMAIN req[r].plan : \A d \in req[r].plan[i] : parent'[d] = parent[d]
      /\ req[r].pc = "collect" => \A d \in req[r].frontier : parent'[d] = parent[d]
  BY <1>2, <1>3, TreeStep
<1> QED BY <1>4 DEF Levels, Above

\* A level read is the level below the last one.
LEMMA LevelsCollect ==
  ASSUME TypeOK, LocalsOK, Tree, NEW r \in Req, Collect(r), Levels(req[r])
  PROVE  Levels(req[r])'
<1>. DEFINE found == Found(req[r])
            next == UNION {rooms[c] : c \in found}
            old == req[r].plan
            plan == IF found = {} THEN old ELSE Append(old, found)
            n == Len(old)
<1>1. /\ req[r].pc = "collect" /\ req'[r].call = req[r].call
      /\ req'[r].frontier = next /\ req'[r].plan = plan
      /\ parent' = parent
  BY CollectFields DEF SameEnd, Collect, callVars
<1>2. /\ req[r] \in Request /\ old \in Seq(SUBSET Call) /\ n \in Nat /\ DOMAIN old = 1..n
      /\ req[r].frontier \in SUBSET Call
  BY DEF TypeOK, Request, Plans
<1>3. /\ found \in SUBSET Call /\ found \subseteq req[r].frontier
      /\ found \cap Planned(old) = {}
  BY <1>2 DEF Found
<1>4. \A d \in next : parent[d] \in found
  BY <1>3 DEF Tree
<1>5. \A i \in 1..n : old[i] \subseteq Planned(old)
  BY <1>2 DEF Planned
<1>6. CASE found = {}
  <2>1. next = {} /\ plan = old
    BY <1>6
  <2> HIDE DEF next, plan, found
  <2> QED BY <1>1, <2>1 DEF Levels, Above
<1>7. CASE found # {}
  <2>1. plan = Append(old, found)
    BY <1>7
  <2>2. /\ DOMAIN plan = 1..(n + 1) /\ Len(plan) = n + 1 /\ plan[n + 1] = found
        /\ \A i \in 1..n : plan[i] = old[i]
    BY <1>2, <1>3, <2>1
  <2> HIDE DEF next, plan, found, n
  <2>3. \A i \in 1..(n + 1) : i \in 1..n \/ i = n + 1
    BY <1>2
  <2>4. \A i, j \in 1..(n + 1) : i # j => plan[i] \cap plan[j] = {}
    <3>1. \A i, j \in 1..n : i # j => old[i] \cap old[j] = {}
      BY <1>2 DEF Levels
    <3> QED BY <1>3, <1>5, <2>2, <2>3, <3>1
  <2>5. ASSUME NEW i \in 1..(n + 1), NEW d \in plan[i]
        PROVE  parent[d] \in IF i = 1 THEN {req[r].call} ELSE plan[i - 1]
    <3>1. i # 1 => i - 1 \in 1..n
      BY <1>2
    <3>2. parent[d] \in Above(req[r], i)
      <4>1. CASE i \in 1..n
        BY <1>2, <2>2, <2>5, <4>1 DEF Levels
      <4>2. CASE i = n + 1
        <5>1. d \in req[r].frontier
          BY <1>3, <2>2, <2>5, <4>2
        <5> QED BY <1>1, <4>2, <5>1 DEF Levels, n
      <4> QED BY <2>3, <4>1, <4>2
    <3> QED BY <2>2, <3>1, <3>2 DEF Above
  <2>6. ASSUME NEW d \in next
        PROVE  parent[d] \in plan[(n + 1 + 1) - 1] /\ n + 1 + 1 # 1
    <3>1. (n + 1 + 1) - 1 = n + 1 /\ n + 1 + 1 # 1
      BY <1>2
    <3> QED BY <1>4, <2>2, <2>6, <3>1
  <2> QED BY <1>1, <2>2, <2>4, <2>5, <2>6 DEF Levels, Above
<1> QED BY <1>6, <1>7

\* A room that leaves the deepest level changes no other.
LEMMA LevelsRoom ==
  ASSUME TypeOK, LocalsOK, Tree, NEW r \in Req, NEW c \in Call, EndRoom(r, c), Levels(req[r]),
         req'[r].pc = "readRecordings", SameEnd(r), req'[r].plan = Without(req[r].plan, c)
  PROVE  Levels(req[r])'
<1>. DEFINE old == req[r].plan
            w == Without(old, c)
<1>1. old # <<>> /\ old \in Plans /\ parent' = parent
  BY EndRoomFields DEF TypeOK, Request, EndRoom, StoreEnd, callVars
<1>2. /\ Len(w) \in Nat /\ DOMAIN w = 1..Len(w) /\ Len(old) \in Nat
      /\ DOMAIN old = 1..Len(old) /\ Len(old) > 0
      /\ Len(w) = Len(old) \/ (Len(w) = Len(old) - 1 /\ old[Len(old)] = {c})
      /\ \A i \in 1..Len(w) : w[i] = IF i = Len(old) THEN old[Len(old)] \ {c} ELSE old[i]
  <2> HIDE DEF old
  <2> QED BY <1>1, WithoutFacts
<1>. DEFINE n == Len(old)
            k == Len(w)
<1> HIDE DEF w, n, k
<1>3. /\ \A i \in 1..k : i \in 1..n /\ w[i] \subseteq old[i]
      /\ \A i \in 1..k : i # 1 => i - 1 \in 1..k /\ i - 1 # n
  BY <1>2 DEF n, k
<1>4. \A i \in 1..k : i # 1 => w[i - 1] = old[i - 1]
  BY <1>2, <1>3 DEF n, k
<1>5. DOMAIN w = 1..k /\ DOMAIN old = 1..n
  BY <1>2 DEF n, k
<1>6. \A i, j \in 1..k : i # j => w[i] \cap w[j] = {}
  BY <1>3, <1>5 DEF Levels
<1>7. \A i \in 1..k : \A d \in w[i] : parent[d] \in IF i = 1 THEN {req[r].call} ELSE w[i - 1]
  BY <1>3, <1>4, <1>5 DEF Levels, Above
<1>8. req'[r].plan = w /\ req'[r].call = req[r].call
  BY DEF w, SameEnd
<1> QED BY <1>1, <1>5, <1>6, <1>7, <1>8 DEF Levels, Above

LEMMA LevelsStep ==
  ASSUME TypeOK, LocalsOK, Tree, Levelled, Purposes, Next
  PROVE  Levelled'
<1>1. req \in [Req -> Request] /\ \A r \in Req : req[r].pc \in CascadePcs => Levels(req[r])
  BY DEF TypeOK, Levelled
<1>2. CASE UNCHANGED req
  BY <1>1, <1>2, LevelsKept DEF Levelled
<1>3. ASSUME NEW r \in Req, OthersStay(r), req'[r].pc \in CascadePcs => Levels(req[r])'
      PROVE  Levelled'
  BY <1>1, <1>3, LevelsKept DEF Levelled, OthersStay
<1>4. ASSUME NEW r \in Req, OthersStay(r), req'[r] = Done \/ Afresh(r)
      PROVE  Levelled'
  <2>1. req'[r].pc \notin CascadePcs
    BY <1>4 DEF Done, Idle, Afresh, CascadePcs, StopPcs
  <2> QED BY <1>3, <1>4, <2>1
<1>5. ASSUME NEW r \in Req, OthersStay(r), req[r].pc \in CascadePcs, SameEnd(r),
             req'[r].plan = req[r].plan, req'[r].pc # "collect"
      PROVE  Levelled'
  <2>1. Levels(req[r])'
    BY <1>1, <1>5, LevelsKept DEF SameEnd
  <2> QED BY <1>3, <1>5, <2>1
<1>6. ASSUME NEW r \in Req, NEW c \in Call,
             BeginUpdate(r, c) \/ BeginServerEnd(r, c) \/ BeginExpire(r, c)
      PROVE  Levelled'
  <2>1. OthersStay(r) /\ req'[r].pc \in {"fetch", "expire"}
    BY <1>1, <1>6, BeginFields
  <2> QED BY <1>3, <2>1 DEF CascadePcs, StopPcs
<1>7. ASSUME NEW r \in Req, ExpireRead(r)
      PROVE  Levelled'
  <2>1. OthersStay(r) /\ (req'[r] = Done \/ req'[r].pc \in {"fetch", "ringEnd"})
    BY <1>1, <1>7, ExpireReadFields
  <2> QED BY <1>3, <1>4, <2>1 DEF CascadePcs, StopPcs
<1>8. ASSUME NEW r \in Req, Fetch(r)
      PROVE  Levelled'
  <2>1. /\ OthersStay(r) /\ req[r].pc = "fetch" /\ req[r].call \in Call /\ parent' = parent
    BY <1>8, FetchFields DEF Fetch, callVars
  <2>2. CASE ~(req'[r] = Done \/ Afresh(r))
    <3>1. /\ req'[r].call = req[r].call
          /\ req'[r].frontier = rooms[req[r].call] /\ req'[r].plan = req[r].plan
      BY <1>8, <2>2, FetchFields
    <3>2. req[r].plan = <<>>
      BY <2>1 DEF Purposes, Purpose
    <3>3. \A d \in rooms[req[r].call] : parent[d] = req[r].call
      BY <2>1 DEF Tree
    <3>4. Levels(req[r])'
      BY <2>1, <3>1, <3>2, <3>3 DEF Levels, Above
    <3> QED BY <1>3, <2>1, <3>4
  <2> QED BY <1>4, <2>1, <2>2
<1>9. ASSUME NEW r \in Req, Collect(r)
      PROVE  Levelled'
  <2>1. OthersStay(r) /\ Levels(req[r])
    BY <1>1, <1>9, CollectFields DEF CascadePcs
  <2> QED BY <1>3, <1>9, <2>1, LevelsCollect
<1>10. ASSUME NEW r \in Req, EndMain(r)
       PROVE  Levelled'
  <2>1. /\ OthersStay(r) /\ req[r].pc \in CascadePcs
        /\ \/ req'[r] = Done \/ Afresh(r)
           \/ SameEnd(r) /\ req'[r].plan = req[r].plan /\ req'[r].pc = "readRecordings"
    BY <1>10, EndMainFields DEF CascadePcs
  <2> QED BY <1>4, <1>5, <2>1
<1>11. ASSUME NEW r \in Req, NEW c \in Call, EndRoom(r, c)
       PROVE  Levelled'
  <2>1. OthersStay(r) /\ req[r].pc \in CascadePcs /\ Levels(req[r])
    BY <1>1, <1>11, EndRoomFields DEF CascadePcs
  <2>2. CASE req'[r] = Done
    BY <1>4, <2>1, <2>2
  <2>3. CASE SameEnd(r) /\ req'[r].pc = "rooms" /\ req'[r].plan = req[r].plan
    BY <1>5, <2>1, <2>3
  <2>4. CASE /\ SameEnd(r) /\ req'[r].pc = "readRecordings"
             /\ req'[r].plan = Without(req[r].plan, c)
    BY <1>3, <1>11, <2>1, <2>4, LevelsRoom
  <2> QED BY <1>11, <2>2, <2>3, <2>4, EndRoomFields
<1>12. ASSUME NEW r \in Req, Stops(r)
       PROVE  Levelled'
  <2>1. /\ OthersStay(r) /\ req[r].pc \in CascadePcs
        /\ \/ req'[r] = Done
           \/ SameCascade(r) /\ \/ req'[r].pc \in StopPcs \cup {"ringEnd"}
                                \/ req'[r].pc = AfterRooms(req[r].plan)
    BY <1>12, StopFields DEF CascadePcs
  <2> QED BY <1>4, <1>5, <2>1 DEF SameCascade, AfterRooms, StopPcs
<1>13. ASSUME NEW r \in Req, Quiet(r)
       PROVE  Levelled'
  <2>1. OthersStay(r) /\ req'[r].pc \notin CascadePcs
    BY <1>13, QuietFields DEF CascadePcs, EndingPcs, StopPcs
  <2> QED BY <1>3, <2>1
<1> QED BY <1>2, <1>6, <1>7, <1>8, <1>9, <1>10, <1>11, <1>12, <1>13, EndSteps
        DEF CreateCall, Activate, DestroyCall, StreamProgress

-----------------------------------------------------------------------------
(* The devices of a cancelled ring are told.                               *)

\* A ring rings from the start.
RingNotPending == \A c \in Call : kind[c] = "ring" => status[c] # "pending"

LEMMA RingNotPendingStep ==
  ASSUME TypeOK, LocalsOK, RingNotPending, Next
  PROVE  RingNotPending'
<1>1. CallStep
  BY CallSteps
<1>2. /\ status \in [Call -> Status] /\ kind \in [Call -> {"ring", "room", "scheduled"}]
  BY DEF TypeOK
<1>3. ASSUME NEW c \in Call, NEW k \in Kinds, NEW p \in Call \cup {NoCall}, CreateCall(c, k, p)
      PROVE  RingNotPending'
  <2>1. /\ status' = [status EXCEPT ![c] = InitialState(k)]
        /\ kind' = [kind EXCEPT ![c] = k]
    BY <1>3 DEF CreateCall, StoreCreate
  <2>2. k = "ring" => InitialState(k) # "pending"
    BY DEF InitialState
  <2> QED BY <1>2, <2>1, <2>2 DEF RingNotPending
<1>4. ASSUME NEW c \in Call, EndCall(c) \/ DestroyCall(c) \/ Activate(c)
      PROVE  RingNotPending'
  <2>1. /\ kind' = kind
        /\ \A d \in Call : status'[d] = "pending" => status[d] = "pending"
    BY <1>2, <1>4 DEF EndCall, StoreEnd, DestroyCall, StoreDestroy, Activate
  <2> QED BY <2>1 DEF RingNotPending
<1> QED BY <1>1, <1>3, <1>4 DEF CallStep, callVars, RingNotPending

\* Request r is on its way to telling the devices of c that the ring is over.
Telling(r, c) ==
  /\ req[r].call = c
  /\ \/ /\ req[r].pc \in StopPcs /\ req[r].room = c
        /\ req[r].seen[c] = "ringing" /\ req[r].reason = "cancelled"
     \/ req[r].pc = "ringEnd" /\ req[r].op # "expire"

ToldOrTelling ==
  \A c \in Call : parent[c] = NoCall /\ kind[c] = "ring" /\ endReason[c] = "cancelled" =>
    "cancelled" \in ringEnds[c] \/ \E r \in Req : Telling(r, c)

\* A request moves by one of the steps its program counter allows.
LEMMA MovedBy ==
  ASSUME TypeOK, LocalsOK, Next, NEW r \in Req, req'[r] # req[r]
  PROVE  /\ req[r].pc \in StopPcs => Stops(r)
         /\ req[r].pc = "ringEnd" => RingEnd(r)
<1>1. req \in [Req -> Request]
  BY DEF TypeOK
<1>2. ASSUME NEW x \in Req, x # r
      PROVE  ~OthersStay(x)
  BY <1>2 DEF OthersStay
<1>3. ASSUME NEW x \in Req,
             \/ \E c \in Call : BeginUpdate(x, c) \/ BeginServerEnd(x, c) \/ BeginExpire(x, c)
             \/ ExpireRead(x) \/ Fetch(x) \/ Collect(x) \/ EndMain(x)
             \/ \E c \in Call : EndRoom(x, c)
      PROVE  OthersStay(x) /\ req[x].pc \notin StopPcs \cup {"ringEnd"}
  <2>1. CASE \/ \E c \in Call : BeginUpdate(x, c) \/ BeginServerEnd(x, c) \/ BeginExpire(x, c)
             \/ ExpireRead(x) \/ Fetch(x)
    <3>1. OthersStay(x) /\ req[x].pc \in {"idle", "expire", "fetch"}
      BY <1>1, <2>1, BeginFields, ExpireReadFields, FetchFields
    <3> QED BY <3>1 DEF StopPcs
  <2>2. CASE Collect(x) \/ EndMain(x) \/ \E c \in Call : EndRoom(x, c)
    <3>1. OthersStay(x) /\ req[x].pc \in {"collect", "main", "rooms"}
      BY <2>2, CollectFields, EndMainFields, EndRoomFields
    <3> QED BY <3>1 DEF StopPcs
  <2> QED BY <1>3, <2>1, <2>2
<1>4. ASSUME NEW x \in Req, Stops(x)
      PROVE  OthersStay(x) /\ req[x].pc \in StopPcs
  BY <1>4, StopFields
<1>5. ASSUME NEW x \in Req, Quiet(x)
      PROVE  OthersStay(x) /\ req[x].pc \notin StopPcs
             /\ (req[x].pc = "ringEnd" => RingEnd(x))
  <2>1. OthersStay(x) /\ req[x].pc \notin StopPcs
    BY <1>5, QuietFields DEF StopPcs, DropPcs
  <2>2. req[x].pc = "ringEnd" => RingEnd(x)
    BY <1>5 DEF Quiet, Announce, DropStop, DropAnnounce, Drop, CreateMedia, UpdateMedia, BeginDrop
  <2> QED BY <2>1, <2>2
<1>6. \E x \in Req :
        \/ \E c \in Call : BeginUpdate(x, c) \/ BeginServerEnd(x, c) \/ BeginExpire(x, c)
        \/ ExpireRead(x) \/ Fetch(x) \/ Collect(x) \/ EndMain(x)
        \/ \E c \in Call : EndRoom(x, c)
        \/ Stops(x) \/ Quiet(x)
  BY EndSteps DEF CreateCall, Activate, DestroyCall, StreamProgress
<1>7. "ringEnd" \notin StopPcs
  BY DEF StopPcs
<1> QED BY <1>2, <1>3, <1>4, <1>5, <1>6, <1>7

\* Who is telling goes on until the devices are told.
LEMMA TellingKept ==
  ASSUME TypeOK, LocalsOK, NothingDropped, Purposes, Next,
         NEW r \in Req, NEW c \in Call, Telling(r, c)
  PROVE  "cancelled" \in ringEnds'[c] \/ Telling(r, c)'
<1>1. CASE req'[r] = req[r]
  BY <1>1 DEF Telling
<1>2. CASE req'[r] # req[r] /\ req[r].pc \in StopPcs
  <2>1. /\ Stops(r) /\ req[r].pc # "ringEnd" /\ Purpose(req[r])
        /\ req[r].room = c /\ req[r].call = c
        /\ req[r].seen[c] = "ringing" /\ req[r].reason = "cancelled"
    BY <1>2, MovedBy DEF Telling, StopPcs, Purposes
  <2>2. OwesRingEnd(req[r]) /\ req[r].op # "expire"
    BY <1>2, <2>1 DEF OwesRingEnd, Purpose, EndingPcs, StopPcs
  <2>3. \/ req'[r].pc \in StopPcs /\ SameCascade(r) /\ req'[r].room = req[r].room
        \/ req'[r].pc = "ringEnd" /\ SameCascade(r)
    BY <2>1, <2>2, StopFields DEF NothingDropped
  <2> QED BY <2>1, <2>2, <2>3 DEF Telling, SameCascade, SameEnd
<1>3. CASE req'[r] # req[r] /\ req[r].pc = "ringEnd"
  <2>1. RingEnd(r) /\ req[r].op # "expire" /\ req[r].call = c
    BY <1>3, MovedBy DEF Telling, StopPcs
  <2>2. ringEnds' = [ringEnds EXCEPT ![c] = @ \cup {"cancelled"}]
    BY <2>1 DEF RingEnd
  <2> QED BY <2>2 DEF TypeOK
<1> QED BY <1>1, <1>2, <1>3 DEF Telling

\* A call that is nobody's room gets its endReason from the request that ends it.
LEMMA NewlyCancelled ==
  ASSUME TypeOK, LocalsOK, Purposes, Levelled, RingNotPending, Next, NEW c \in Call,
         parent[c] = NoCall, kind[c] = "ring",
         endReason[c] # "cancelled", endReason'[c] = "cancelled"
  PROVE  \E r \in Req : Telling(r, c)'
<1>1. /\ endReason \in [Call -> Reasons] /\ req \in [Req -> Request]
  BY DEF TypeOK
<1>2. endReason' # endReason
  OBVIOUS
<1>3. ASSUME NEW r \in Req, Stops(r) \/ Quiet(r)
      PROVE  FALSE
  BY <1>2, <1>3, StopFields, QuietFields DEF callVars
<1>4. ASSUME NEW r \in Req,
             \/ \E d \in Call : BeginUpdate(r, d) \/ BeginServerEnd(r, d) \/ BeginExpire(r, d)
             \/ ExpireRead(r) \/ Fetch(r) \/ Collect(r)
      PROVE  FALSE
  BY <1>2, <1>4 DEF BeginUpdate, BeginServerEnd, BeginExpire, ExpireRead, Fetch, Collect, callVars
<1>5. ASSUME NEW r \in Req, EndMain(r)
      PROVE  Telling(r, c)'
  <2>1. /\ req[r].pc = "main" /\ req[r].call \in Call
        /\ SameEnd(r) /\ req'[r].seen = req[r].seen
        /\ req'[r].pc = "readRecordings" /\ req'[r].room = req[r].call
        /\ status[req[r].call] \in req[r].from \cap OpenStates
        /\ StoreEnd(req[r].call, req[r].reason)
    BY <1>2, <1>5, EndMainFields DEF callVars
  <2>2. req[r].call = c /\ req[r].reason = "cancelled"
    BY <1>1, <2>1 DEF StoreEnd
  <2>3. Purpose(req[r]) /\ LocalOK(req[r])
    BY DEF Purposes, LocalsOK
  <2>4. req[r].seen[c] \in req[r].from /\ req[r].from # {"active"}
    BY <2>1, <2>2, <2>3 DEF Purpose, CascadePcs, LocalOK, Lifecycle!ReasonFits
  <2>5. status[c] # "pending" /\ status[c] \in req[r].from \cap OpenStates
    BY <2>1, <2>2 DEF RingNotPending
  <2>6. status[c] = "ringing"
    BY <2>2, <2>3, <2>5 DEF LocalOK, OpenStates, Lifecycle!ReasonFits
  <2>7. req[r].op = "update" => req[r].from = {req[r].seen[c]}
    BY <2>1, <2>2, <2>3 DEF Purpose, CascadePcs
  <2>8. req[r].op = "server" => req[r].from = {"ringing"}
    BY <2>1, <2>2, <2>3 DEF Purpose, EndingPcs
  <2>9. req[r].op \in {"update", "server"}
    BY <2>1, <2>2, <2>3 DEF Purpose, EndingPcs
  <2>10. req[r].seen[c] = "ringing"
    BY <2>4, <2>5, <2>6, <2>7, <2>8, <2>9
  <2> QED BY <2>1, <2>2, <2>10 DEF Telling, SameEnd, StopPcs
<1>6. ASSUME NEW r \in Req, NEW d \in Call, EndRoom(r, d)
      PROVE  FALSE
  <2>1. /\ req[r].pc = "rooms" /\ req[r].plan # <<>>
        /\ d \in req[r].plan[Len(req[r].plan)] /\ req[r] \in Request /\ req[r].plan \in Plans
    BY <1>1, <1>6, EndRoomFields DEF Request
  <2>2. d \in Planned(req[r].plan) /\ req[r].call \in Call /\ Levels(req[r])
    BY <2>1, PlannedFacts DEF Levelled, CascadePcs, LocalsOK, LocalOK, EndingPcs
  <2>3. d # c
    BY <2>1, <2>2, PlannedHaveParents, NoCallAssumption
  <2>4. UNCHANGED endReason \/ \E why : endReason' = [endReason EXCEPT ![d] = why]
    BY <1>6, EndRoomFields DEF StoreEnd, callVars
  <2> QED BY <1>1, <2>3, <2>4
<1> QED BY <1>2, <1>3, <1>4, <1>5, <1>6, EndSteps
        DEF CreateCall, Activate, DestroyCall, StreamProgress, callVars

\* Parents and kinds change only where a call is created, which has no endReason.
LEMMA Identity ==
  ASSUME TypeOK, LocalsOK, OpenHasNone, Next, NEW c \in Call, endReason'[c] # "none"
  PROVE  parent'[c] = parent[c] /\ kind'[c] = kind[c]
<1>1. CallStep
  BY CallSteps
<1>2. parent \in [Call -> Call \cup {NoCall}] /\ kind \in [Call -> {"ring", "room", "scheduled"}]
  BY DEF TypeOK
<1>3. ASSUME NEW d \in Call, NEW k \in Kinds, NEW p \in Call \cup {NoCall}, CreateCall(d, k, p)
      PROVE  parent'[c] = parent[c] /\ kind'[c] = kind[c]
  <2>1. /\ status[d] = "absent" /\ endReason' = endReason
        /\ kind' = [kind EXCEPT ![d] = k] /\ parent' = [parent EXCEPT ![d] = p]
    BY <1>3 DEF CreateCall, StoreCreate
  <2>2. c # d
    BY <2>1 DEF OpenHasNone
  <2> QED BY <1>2, <2>1, <2>2
<1>4. ASSUME NEW d \in Call, EndCall(d) \/ DestroyCall(d) \/ Activate(d)
      PROVE  parent' = parent /\ kind' = kind
  BY <1>4 DEF EndCall, StoreEnd, DestroyCall, StoreDestroy, Activate
<1> QED BY <1>1, <1>3, <1>4 DEF CallStep, callVars

LEMMA ToldOrTellingStep ==
  ASSUME TypeOK, LocalsOK, OpenHasNone, NothingDropped, Purposes, Levelled, RingNotPending,
         ToldOrTelling, Next
  PROVE  ToldOrTelling'
<1>. SUFFICES ASSUME NEW c \in Call,
                     parent'[c] = NoCall, kind'[c] = "ring", endReason'[c] = "cancelled"
              PROVE  "cancelled" \in ringEnds'[c] \/ \E r \in Req : Telling(r, c)'
  BY DEF ToldOrTelling
<1>1. parent[c] = NoCall /\ kind[c] = "ring"
  BY Identity
<1>2. CASE endReason[c] # "cancelled"
  BY <1>1, <1>2, NewlyCancelled
<1>3. CASE endReason[c] = "cancelled"
  <2>1. "cancelled" \in ringEnds[c] => "cancelled" \in ringEnds'[c]
    BY RingEndsMove DEF TypeOK
  <2> QED BY <1>1, <1>3, <2>1, TellingKept DEF ToldOrTelling
<1> QED BY <1>2, <1>3

\* The invariant that carries the telling.
TellingInv ==
  /\ Truth /\ Tree /\ Levelled /\ NothingDropped /\ RingNotPending /\ ToldOrTelling

\* update_call and end_call that cancel a ring tell its devices: whatever
\* interleaves, every cancelled ring that is nobody's breakout room has had its
\* VTCCallEndEvent once the requests are answered.  A recording destroyed under
\* the cascade abandons it, so nobody destroys any.
THEOREM RingsTold ==
  ASSUME "drop" \notin Ops
  PROVE  Spec => []TopRingsTold
<1>1. Init => TellingInv
  <2>1. Init => /\ \A r \in Req : req[r] = Idle
                /\ \A c \in Call : /\ parent[c] = NoCall /\ rooms[c] = {}
                                   /\ kind[c] = "room" /\ endReason[c] = "none"
                /\ \A m \in Media : mstate[m] = "absent"
    BY DEF Init
  <2>2. Init => Tree /\ RingNotPending /\ ToldOrTelling
    BY <2>1 DEF Tree, RingNotPending, ToldOrTelling
  <2>3. Init => Levelled /\ NothingDropped
    BY <2>1 DEF Levelled, NothingDropped, Idle, CascadePcs, StopPcs, DropPcs
  <2> QED BY <2>2, <2>3, TruthInit DEF TellingInv
<1>2. TellingInv /\ [Next]_vars => TellingInv'
  <2>1. ASSUME TellingInv, Next
        PROVE  TellingInv'
    <3>1. Truth'
      BY <2>1, TruthStep DEF TellingInv
    <3>2. Tree' /\ Levelled' /\ NothingDropped' /\ RingNotPending'
      BY <2>1, TreeStep, LevelsStep, DroppedStep, RingNotPendingStep DEF TellingInv, Truth
    <3>3. ToldOrTelling'
      BY <2>1, ToldOrTellingStep DEF TellingInv, Truth
    <3> QED BY <3>1, <3>2, <3>3 DEF TellingInv
  <2>2. ASSUME TellingInv, UNCHANGED vars
        PROVE  TellingInv'
    <3>1. Truth'
      BY <2>2, TruthStep DEF TellingInv
    <3>2. Tree' /\ RingNotPending' /\ ToldOrTelling'
      BY <2>2 DEF TellingInv, vars, Tree, RingNotPending, ToldOrTelling, Telling
    <3>3. Levelled' /\ NothingDropped'
      BY <2>2 DEF TellingInv, vars, Levelled, Levels, Above, NothingDropped
    <3> QED BY <3>1, <3>2, <3>3 DEF TellingInv
  <2> QED BY <2>1, <2>2
<1>3. TellingInv => TopRingsTold
  BY DEF TellingInv, ToldOrTelling, TopRingsTold, CancelledRingsTold, AtRest, Telling, StopPcs
<1> QED BY <1>1, <1>2, <1>3, PTL DEF Spec

-----------------------------------------------------------------------------
(* Rooms end before the call they belong to.                               *)

\* No call is, through however many parents, a room of itself.
Acyclic == \A S \in SUBSET Call : S # {} => \E c \in S : parent[c] \notin S

LEMMA AcyclicStep ==
  ASSUME TypeOK, LocalsOK, UnbornOK, Acyclic, Next
  PROVE  Acyclic'
<1>1. CallStep
  BY CallSteps
<1>2. CASE parent' = parent
  BY <1>2 DEF Acyclic
<1>3. ASSUME NEW c \in Call, NEW k \in Kinds, NEW p \in Call \cup {NoCall}, CreateCall(c, k, p)
      PROVE  Acyclic'
  <2>1. /\ status[c] = "absent" /\ parent' = [parent EXCEPT ![c] = p]
        /\ p # NoCall => status[p] # "absent"
        /\ parent \in [Call -> Call \cup {NoCall}]
    BY <1>3 DEF CreateCall, StoreCreate, Stored, OpenStates, TypeOK
  <2>2. p # c /\ \A d \in Call : parent[d] # c
    BY <2>1, NoCallAssumption DEF UnbornOK
  <2>. SUFFICES ASSUME NEW S \in SUBSET Call, S # {}
                PROVE  \E d \in S : parent'[d] \notin S
    BY DEF Acyclic
  <2>3. CASE c \notin S
    BY <2>1, <2>3 DEF Acyclic
  <2>4. CASE c \in S /\ p \notin S
    BY <2>1, <2>4
  <2>5. CASE c \in S /\ p \in S
    <3>1. S \ {c} \in SUBSET Call /\ S \ {c} # {}
      BY <2>2, <2>5
    <3>2. PICK d \in S \ {c} : parent[d] \notin S \ {c}
      BY <3>1 DEF Acyclic
    <3>3. parent'[d] = parent[d] /\ parent[d] \notin S
      BY <2>1, <2>2, <3>1, <3>2
    <3> QED BY <3>2, <3>3
  <2> QED BY <2>3, <2>4, <2>5
<1>4. ASSUME NEW c \in Call, EndCall(c) \/ DestroyCall(c) \/ Activate(c)
      PROVE  parent' = parent
  BY <1>4 DEF EndCall, StoreEnd, DestroyCall, StoreDestroy, Activate
<1> QED BY <1>1, <1>2, <1>3, <1>4 DEF CallStep, callVars

\* What a cascade that has read its tree still has to end, or to read.
OpenRooms(c) == {d \in Call : parent[d] = c /\ status[d] \in OpenStates}

Unread(q) == IF q.pc = "collect" THEN q.frontier ELSE {}

Below(plan, i) == UNION {plan[k] : k \in {k \in DOMAIN plan : k > i}}

\* The open rooms of the call are planned or still to be read, and those of a
\* planned room are on a deeper level or still to be read.
Covered(q) ==
  /\ OpenRooms(q.call) \subseteq Planned(q.plan) \cup Unread(q)
  /\ \A i \in DOMAIN q.plan : \A c \in q.plan[i] :
       OpenRooms(c) \subseteq Below(q.plan, i) \cup Unread(q)

Coverage == \A r \in Req : req[r].pc \in CascadePcs => Covered(req[r])

\* Without late rooms, no call gets one while any end is under way.
LEMMA RoomsOnlyClose ==
  ASSUME "lateRoom" \notin Ops, TypeOK, LocalsOK, Next
  PROVE  \/ UNCHANGED req /\ \A r \in Req : req[r].pc = "idle"
         \/ \A c \in Call : OpenRooms(c)' \subseteq OpenRooms(c)
<1>. DEFINE Closing == \A c \in Call : OpenRooms(c)' \subseteq OpenRooms(c)
<1>1. status \in [Call -> Status] /\ parent \in [Call -> Call \cup {NoCall}]
  BY DEF TypeOK
<1>2. ASSUME NEW c \in Call, NEW k \in Kinds, CreateCall(c, k, NoCall)
      PROVE  Closing
  <2>1. /\ parent' = [parent EXCEPT ![c] = NoCall]
        /\ status' = [status EXCEPT ![c] = InitialState(k)]
    BY <1>2 DEF CreateCall, StoreCreate
  <2> QED BY <1>1, <2>1, NoCallAssumption DEF OpenRooms
<1>3. ASSUME NEW c \in Call, NEW p \in Call, NEW k \in Kinds, MayOpenRoom, CreateCall(c, k, p)
      PROVE  UNCHANGED req /\ \A r \in Req : req[r].pc = "idle"
  BY <1>3 DEF MayOpenRoom, CreateCall
<1>4. ASSUME parent' = parent,
             \A d \in Call : status'[d] \in OpenStates => status[d] \in OpenStates
      PROVE  Closing
  BY <1>4 DEF OpenRooms
<1>5. ASSUME NEW c \in Call, Activate(c) \/ DestroyCall(c)
      PROVE  Closing
  <2>1. /\ parent' = parent
        /\ \A d \in Call : status'[d] \in OpenStates => status[d] \in OpenStates
    BY <1>1, <1>5 DEF Activate, Activatable, DestroyCall, StoreDestroy, OpenStates
  <2> QED BY <1>4, <2>1
<1>6. ASSUME NEW c \in Call, NEW why, StoreEnd(c, why)
      PROVE  Closing
  <2>1. /\ parent' = parent
        /\ \A d \in Call : status'[d] \in OpenStates => status[d] \in OpenStates
    BY <1>1, <1>6 DEF StoreEnd, OpenStates
  <2> QED BY <1>4, <2>1
<1>7. ASSUME UNCHANGED callVars
      PROVE  Closing
  BY <1>4, <1>7 DEF callVars
<1>8. ASSUME NEW r \in Req,
             \/ \E c \in Call : BeginUpdate(r, c) \/ BeginServerEnd(r, c) \/ BeginExpire(r, c)
             \/ ExpireRead(r) \/ Fetch(r) \/ Collect(r) \/ Stops(r) \/ Quiet(r)
      PROVE  UNCHANGED callVars
  <2>1. CASE Stops(r) \/ Quiet(r)
    BY <2>1, StopFields, QuietFields
  <2>2. CASE \E c \in Call : BeginUpdate(r, c) \/ BeginServerEnd(r, c) \/ BeginExpire(r, c)
    BY <2>2 DEF BeginUpdate, BeginServerEnd, BeginExpire
  <2>3. CASE ExpireRead(r) \/ Fetch(r) \/ Collect(r)
    BY <2>3 DEF ExpireRead, Fetch, Collect
  <2> QED BY <1>8, <2>1, <2>2, <2>3
<1>9. ASSUME NEW r \in Req, EndMain(r) \/ \E c \in Call : EndRoom(r, c)
      PROVE  Closing
  <2>1. \/ UNCHANGED callVars
        \/ \E c \in Call : \E why : StoreEnd(c, why)
    <3>1. CASE EndMain(r)
      BY <3>1, EndMainFields
    <3>2. ASSUME NEW c \in Call, EndRoom(r, c)
          PROVE  UNCHANGED callVars \/ \E why : StoreEnd(c, why)
      BY <3>2, EndRoomFields
    <3> QED BY <1>9, <3>1, <3>2
  <2> QED BY <1>6, <1>7, <2>1
<1> QED BY <1>2, <1>3, <1>5, <1>7, <1>8, <1>9, EndSteps DEF StreamProgress

LEMMA CoveredKept ==
  ASSUME NEW r \in Req, Covered(req[r]),
         req[r].call \in Call, req[r].plan \in Plans,
         \A c \in Call : OpenRooms(c)' \subseteq OpenRooms(c),
         req'[r].call = req[r].call, req'[r].plan = req[r].plan,
         Unread(req[r])' = Unread(req[r])
  PROVE  Covered(req[r])'
<1>1. \A i \in DOMAIN req[r].plan : req[r].plan[i] \in SUBSET Call
  BY DEF Plans
<1>2. Planned(req[r].plan)' = Planned(req[r].plan)
  BY DEF Planned
<1>3. \A i : Below(req[r].plan, i)' = Below(req[r].plan, i)
  BY DEF Below
<1> QED BY <1>1, <1>2, <1>3 DEF Covered

\* What a level of the tree holds that is open is planned by reading it.
LEMMA CoveredCollect ==
  ASSUME TypeOK, LocalsOK, Acyclic, BreakoutListExact, Purposes,
         NEW r \in Req, Collect(r), Levels(req[r]), Covered(req[r])
  PROVE  Covered(req[r])'
<1>. DEFINE found == Found(req[r])
            next == UNION {rooms[c] : c \in found}
            old == req[r].plan
            plan == IF found = {} THEN old ELSE Append(old, found)
            n == Len(old)
            me == req[r].call
<1>1. /\ req[r].pc = "collect" /\ req'[r].call = me
      /\ req'[r].frontier = next /\ req'[r].plan = plan
      /\ req'[r].pc = IF next = {} THEN AfterRooms(plan) ELSE "collect"
      /\ status' = status /\ parent' = parent
  BY CollectFields DEF SameEnd, Collect, callVars
<1>2. /\ req[r] \in Request /\ old \in Seq(SUBSET Call) /\ n \in Nat /\ DOMAIN old = 1..n
      /\ old \in Plans /\ req[r].frontier \in SUBSET Call /\ me \in Call
  BY <1>1 DEF TypeOK, Request, Plans, LocalsOK, LocalOK, EndingPcs
<1>3. /\ found \in SUBSET Call
      /\ \A d \in req[r].frontier : status[d] \in OpenStates =>
           d \in found \/ d = me \/ d \in Planned(old)
      /\ \A d \in found : status[d] \in OpenStates
  BY <1>2 DEF Found
<1>4. \A i \in 1..n : old[i] \subseteq Planned(old) /\ old[i] \subseteq Call
  BY <1>2 DEF Planned
<1>5. me \notin Planned(old) /\ Planned(old) \subseteq Call
  BY <1>1, <1>2, PlannedFacts DEF Purposes, Purpose, CascadePcs
<1>6. next = {} => Unread(req[r])' = {}
  BY <1>1 DEF Unread, AfterRooms
<1>7. Unread(req[r])' = next
  BY <1>1, <1>6 DEF Unread
<1>8. \A c \in found : OpenRooms(c) \subseteq next
  <2> SUFFICES ASSUME NEW c \in found
               PROVE  OpenRooms(c) \subseteq rooms[c]
    OBVIOUS
  <2> QED BY <1>3 DEF BreakoutListExact, Stored, OpenRooms
<1>9. /\ \A c \in Call : OpenRooms(c)' = OpenRooms(c)
      /\ Unread(req[r]) = req[r].frontier
  BY <1>1 DEF OpenRooms, Unread
\* The call's own parent is not in its tree.
<1>10. parent[me] \notin Planned(old) \cup {me}
  <2>1. Planned(old) \cup {me} \in SUBSET Call /\ Planned(old) \cup {me} # {}
    BY <1>2, <1>5
  <2>2. PICK d \in Planned(old) \cup {me} : parent[d] \notin Planned(old) \cup {me}
    BY <2>1 DEF Acyclic
  <2>3. ASSUME NEW x \in Planned(old)
        PROVE  parent[x] \in Planned(old) \cup {me}
    <3>1. PICK i \in 1..n : x \in old[i]
      BY <1>2, <2>3 DEF Planned
    <3>2. parent[x] \in Above(req[r], i)
      BY <1>2, <3>1 DEF Levels
    <3>3. i # 1 => i - 1 \in 1..n
      BY <1>2
    <3> QED BY <1>4, <3>2, <3>3 DEF Above
  <2> QED BY <2>2, <2>3
\* A room read twice is not the room of a level above the one it is planned on.
<1>11. ASSUME NEW i \in 1..n, NEW c \in old[i], NEW d \in Planned(old), parent[d] = c
       PROVE  d \in Below(old, i)
  <2>1. PICK j \in 1..n : d \in old[j]
    BY <1>2, <1>11 DEF Planned
  <2>2. c \in Above(req[r], j)
    BY <1>2, <1>11, <2>1 DEF Levels
  <2>3. j # 1
    BY <1>4, <1>5, <1>11, <2>2 DEF Above
  <2>4. j - 1 \in 1..n /\ c \in old[j - 1]
    BY <1>2, <2>2, <2>3 DEF Above
  <2>5. j - 1 = i
    BY <1>2, <1>11, <2>4 DEF Levels
  <2>6. j > i
    BY <1>2, <2>5
  <2> QED BY <1>2, <2>1, <2>6 DEF Below
<1>12. Planned(old) \subseteq Planned(plan) /\ found \subseteq Planned(plan)
  BY <1>2, <1>3, PlannedFacts
<1>13. /\ DOMAIN plan = 1..n /\ plan = old /\ found = {}
       \/ /\ DOMAIN plan = 1..(n + 1) /\ plan[n + 1] = found
          /\ \A i \in 1..n : plan[i] = old[i]
  BY <1>2, <1>3
<1> HIDE DEF plan, found, next
<1>14. \A i \in 1..n : Below(old, i) \subseteq Below(plan, i) /\ found \subseteq Below(plan, i)
  <2>1. CASE plan = old /\ found = {}
    BY <2>1
  <2>2. CASE /\ DOMAIN plan = 1..(n + 1) /\ plan[n + 1] = found
             /\ \A i \in 1..n : plan[i] = old[i]
    <3> HIDE DEF n
    <3>1. /\ \A i \in 1..n : i \in 1..(n + 1) /\ n + 1 > i
          /\ n + 1 \in 1..(n + 1)
      BY <1>2 DEF n
    <3>2. DOMAIN old = 1..n
      BY <1>2 DEF n
    <3> QED BY <2>2, <3>1, <3>2 DEF Below
  <2> QED BY <1>13, <2>1, <2>2
<1>15. OpenRooms(me) \subseteq Planned(plan)
  <2> SUFFICES ASSUME NEW d \in OpenRooms(me)
               PROVE  d \in Planned(plan)
    OBVIOUS
  <2>1. d \in Planned(old) \/ d \in req[r].frontier
    BY <1>9 DEF Covered
  <2>2. status[d] \in OpenStates /\ parent[d] = me
    BY DEF OpenRooms
  <2> QED BY <1>3, <1>10, <1>12, <2>1, <2>2
<1>16. ASSUME NEW i \in 1..n, NEW c \in old[i]
       PROVE  OpenRooms(c) \subseteq Below(plan, i)
  <2> SUFFICES ASSUME NEW d \in OpenRooms(c)
               PROVE  d \in Below(plan, i)
    OBVIOUS
  <2>1. d \in Below(old, i) \/ d \in req[r].frontier
    BY <1>2, <1>9, <1>16 DEF Covered
  <2>2. status[d] \in OpenStates /\ parent[d] = c /\ c \in Planned(old)
    BY <1>4, <1>16 DEF OpenRooms
  <2>3. d # me
    BY <1>10, <2>2
  <2>4. d \in Planned(old) => d \in Below(old, i)
    BY <1>11, <1>16, <2>2
  <2> QED BY <1>3, <1>14, <1>16, <2>1, <2>2, <2>3, <2>4
<1>17. ASSUME NEW i \in DOMAIN plan, NEW c \in plan[i]
       PROVE  OpenRooms(c) \subseteq Below(plan, i) \cup next
  <2>1. (i \in 1..n /\ c \in old[i]) \/ c \in found
    <3>1. n + 1 \in Nat /\ \A j \in 1..(n + 1) : j \in 1..n \/ j = n + 1
      BY <1>2
    <3> QED BY <1>13, <1>17, <3>1
  <2> QED BY <1>8, <1>16, <2>1
<1>18. \A i \in DOMAIN plan : plan[i] \in SUBSET Call
  <2>1. \A i \in DOMAIN plan : (i \in 1..n /\ plan[i] = old[i]) \/ plan[i] = found
    <3>1. n + 1 \in Nat /\ \A j \in 1..(n + 1) : j \in 1..n \/ j = n + 1
      BY <1>2
    <3> QED BY <1>13, <3>1
  <2> QED BY <1>3, <1>4, <2>1
<1>19. Planned(req[r].plan)' = Planned(plan) /\ \A i : Below(req[r].plan, i)' = Below(plan, i)
  BY <1>1 DEF Planned, Below
<1> QED BY <1>1, <1>2, <1>7, <1>9, <1>15, <1>17, <1>18, <1>19 DEF Covered

\* A room that has ended leaves nothing open behind it.
LEMMA CoveredRoom ==
  ASSUME TypeOK, LocalsOK, NEW r \in Req, NEW c \in Call, EndRoom(r, c), Covered(req[r]),
         req'[r].pc = "readRecordings", SameEnd(r),
         req'[r].plan = Without(req[r].plan, c),
         \/ status[c] \in OpenStates /\ StoreEnd(c, EndReasonFor(status[c]))
         \/ status[c] = "ended" /\ UNCHANGED callVars
  PROVE  Covered(req[r])'
<1>. DEFINE old == req[r].plan
            w == Without(old, c)
<1>1. /\ old # <<>> /\ old \in Plans /\ req[r].pc = "rooms"
      /\ req[r].call \in Call /\ status \in [Call -> Status]
  BY EndRoomFields DEF TypeOK, Request, LocalsOK, LocalOK, EndingPcs
<1>2. /\ Len(w) \in Nat /\ DOMAIN w = 1..Len(w) /\ Len(old) \in Nat
      /\ DOMAIN old = 1..Len(old) /\ Len(old) > 0
      /\ Len(w) = Len(old) \/ (Len(w) = Len(old) - 1 /\ old[Len(old)] = {c})
      /\ \A i \in 1..Len(w) : w[i] = IF i = Len(old) THEN old[Len(old)] \ {c} ELSE old[i]
  <2> HIDE DEF old
  <2> QED BY <1>1, WithoutFacts
<1>3. \A d \in Call : OpenRooms(d)' \subseteq OpenRooms(d) \ {c}
  <2>1. /\ parent' = parent /\ status'[c] = "ended"
        /\ \A d \in Call : status'[d] \in OpenStates => status[d] \in OpenStates
    BY <1>1 DEF StoreEnd, callVars, OpenStates
  <2> QED BY <2>1 DEF OpenRooms, OpenStates
<1>4. Unread(req[r])' = {} /\ Unread(req[r]) = {}
  BY <1>1 DEF Unread
<1>5. req'[r].plan = w /\ req'[r].call = req[r].call
  BY DEF SameEnd
<1>6. \A i \in DOMAIN old : old[i] \in SUBSET Call
  BY <1>1 DEF Plans
<1>. DEFINE n == Len(old)
            k == Len(w)
<1>7. DOMAIN w = 1..k /\ DOMAIN old = 1..n
  BY <1>2
<1> HIDE DEF w, n, k
<1>8. \A i \in 1..k : i \in 1..n /\ w[i] \subseteq old[i]
  BY <1>2 DEF n, k
<1>9. \A i \in 1..n : \A x \in old[i] \ {c} : i \in 1..k /\ x \in w[i]
  BY <1>2 DEF n, k
<1>10. Planned(old) \ {c} \subseteq Planned(w)
  BY <1>7, <1>9 DEF Planned
<1>11. ASSUME NEW i \in 1..k
       PROVE  Below(old, i) \ {c} \subseteq Below(w, i)
  BY <1>7, <1>9 DEF Below
<1>12. ASSUME NEW m \in Call, m = req[r].call
       PROVE  OpenRooms(m)' \subseteq Planned(w)
  BY <1>3, <1>4, <1>10, <1>12 DEF Covered
<1>13. ASSUME NEW i \in 1..k, NEW x \in w[i]
       PROVE  OpenRooms(x)' \subseteq Below(w, i)
  <2>1. x \in old[i] /\ i \in DOMAIN old /\ x \in Call
    BY <1>6, <1>7, <1>8, <1>13
  <2>2. OpenRooms(x) \subseteq Below(old, i)
    BY <1>4, <2>1 DEF Covered
  <2> QED BY <1>3, <1>11, <2>1, <2>2
<1>14. Planned(req[r].plan)' = Planned(w) /\ \A i : Below(req[r].plan, i)' = Below(w, i)
  BY <1>5 DEF Planned, Below
<1> QED BY <1>1, <1>4, <1>5, <1>7, <1>12, <1>13, <1>14 DEF Covered

LEMMA CoverageStep ==
  ASSUME "lateRoom" \notin Ops, TypeOK, LocalsOK, Acyclic, BreakoutListExact, Levelled,
         Purposes, Coverage, Next
  PROVE  Coverage'
<1>1. /\ req \in [Req -> Request]
      /\ \A r \in Req : req[r].pc \in CascadePcs =>
           Covered(req[r]) /\ req[r].call \in Call /\ req[r].plan \in Plans
  BY DEF TypeOK, Request, LocalsOK, LocalOK, Coverage, EndingPcs, CascadePcs, StopPcs
<1>2. CASE UNCHANGED req /\ \A r \in Req : req[r].pc = "idle"
  BY <1>2 DEF Coverage, CascadePcs, StopPcs
<1>. SUFFICES ASSUME \A c \in Call : OpenRooms(c)' \subseteq OpenRooms(c)
              PROVE  Coverage'
  BY <1>2, RoomsOnlyClose
<1>3. CASE UNCHANGED req
  BY <1>1, <1>3, CoveredKept DEF Coverage, Unread
<1>4. ASSUME NEW r \in Req, OthersStay(r), req'[r].pc \in CascadePcs => Covered(req[r])'
      PROVE  Coverage'
  <2>1. ASSUME NEW x \in Req, x # r, req'[x].pc \in CascadePcs
        PROVE  Covered(req[x])'
    <3>1. req'[x] = req[x]
      BY <1>4, <2>1 DEF OthersStay
    <3> QED BY <1>1, <2>1, <3>1, CoveredKept DEF Unread
  <2> QED BY <1>4, <2>1 DEF Coverage
<1>5. ASSUME NEW r \in Req, OthersStay(r),
             req'[r] = Done \/ Afresh(r) \/ req'[r].pc \notin CascadePcs
      PROVE  Coverage'
  <2>1. req'[r].pc \notin CascadePcs
    BY <1>5 DEF Done, Idle, Afresh, CascadePcs, StopPcs
  <2> QED BY <1>4, <1>5, <2>1
<1>6. ASSUME NEW r \in Req, OthersStay(r), req[r].pc \in CascadePcs \ {"collect"}, SameEnd(r),
             req'[r].plan = req[r].plan, req'[r].pc # "collect"
      PROVE  Coverage'
  <2>1. Covered(req[r])'
    BY <1>1, <1>6, CoveredKept DEF SameEnd, Unread
  <2> QED BY <1>4, <1>6, <2>1
<1>7. ASSUME NEW r \in Req, NEW c \in Call,
             BeginUpdate(r, c) \/ BeginServerEnd(r, c) \/ BeginExpire(r, c)
      PROVE  Coverage'
  <2>1. OthersStay(r) /\ req'[r].pc \in {"fetch", "expire"}
    BY <1>1, <1>7, BeginFields
  <2> QED BY <1>5, <2>1 DEF CascadePcs, StopPcs
<1>8. ASSUME NEW r \in Req, ExpireRead(r)
      PROVE  Coverage'
  <2>1. OthersStay(r) /\ (req'[r] = Done \/ req'[r].pc \in {"fetch", "ringEnd"})
    BY <1>1, <1>8, ExpireReadFields
  <2> QED BY <1>5, <2>1 DEF CascadePcs, StopPcs
<1>9. ASSUME NEW r \in Req, Fetch(r)
      PROVE  Coverage'
  <2>1. /\ OthersStay(r) /\ req[r].pc = "fetch" /\ req[r].call \in Call
        /\ parent' = parent /\ status' = status
    BY <1>9, FetchFields DEF Fetch, callVars
  <2>2. CASE ~(req'[r] = Done \/ Afresh(r))
    <3>1. /\ req'[r].call = req[r].call /\ status[req[r].call] \in OpenStates
          /\ req'[r].pc = IF rooms[req[r].call] = {} THEN "main" ELSE "collect"
          /\ req'[r].frontier = rooms[req[r].call] /\ req'[r].plan = req[r].plan
      BY <1>9, <2>2, FetchFields
    <3>2. req[r].plan = <<>>
      BY <2>1 DEF Purposes, Purpose
    <3>3. OpenRooms(req[r].call)' \subseteq rooms[req[r].call]
      BY <2>1, <3>1 DEF BreakoutListExact, Stored, OpenRooms
    <3>4. Unread(req[r])' = rooms[req[r].call]
      BY <3>1 DEF Unread
    <3>5. Covered(req[r])'
      BY <2>1, <3>1, <3>2, <3>3, <3>4 DEF Covered
    <3> QED BY <1>4, <2>1, <3>5
  <2> QED BY <1>5, <2>1, <2>2
<1>10. ASSUME NEW r \in Req, Collect(r)
       PROVE  Coverage'
  <2>1. OthersStay(r) /\ req[r].pc \in CascadePcs
    BY <1>10, CollectFields DEF CascadePcs
  <2>2. Levels(req[r]) /\ Covered(req[r])
    BY <1>1, <2>1 DEF Levelled
  <2> QED BY <1>4, <1>10, <2>1, <2>2, CoveredCollect
<1>11. ASSUME NEW r \in Req, EndMain(r)
       PROVE  Coverage'
  <2>1. /\ OthersStay(r) /\ req[r].pc \in CascadePcs \ {"collect"}
        /\ \/ req'[r] = Done \/ Afresh(r)
           \/ SameEnd(r) /\ req'[r].plan = req[r].plan /\ req'[r].pc = "readRecordings"
    BY <1>11, EndMainFields DEF CascadePcs
  <2> QED BY <1>5, <1>6, <2>1
<1>12. ASSUME NEW r \in Req, NEW c \in Call, EndRoom(r, c)
       PROVE  Coverage'
  <2>1. OthersStay(r) /\ req[r].pc \in CascadePcs \ {"collect"} /\ Covered(req[r])
    BY <1>1, <1>12, EndRoomFields DEF CascadePcs
  <2>2. CASE req'[r] = Done
    BY <1>5, <2>1, <2>2
  <2>3. CASE SameEnd(r) /\ req'[r].pc = "rooms" /\ req'[r].plan = req[r].plan
    BY <1>6, <2>1, <2>3
  <2>4. CASE /\ SameEnd(r) /\ req'[r].pc = "readRecordings"
             /\ req'[r].plan = Without(req[r].plan, c)
             /\ \/ status[c] \in OpenStates /\ StoreEnd(c, EndReasonFor(status[c]))
                \/ status[c] = "ended" /\ UNCHANGED callVars
    <3>1. Covered(req[r])'
      BY <1>12, <2>1, <2>4, CoveredRoom
    <3> QED BY <1>4, <2>1, <3>1
  <2> QED BY <1>12, <2>2, <2>3, <2>4, EndRoomFields
<1>13. ASSUME NEW r \in Req, Stops(r)
       PROVE  Coverage'
  <2>1. /\ OthersStay(r) /\ req[r].pc \in CascadePcs \ {"collect"}
        /\ \/ req'[r] = Done
           \/ SameCascade(r) /\ \/ req'[r].pc \in StopPcs \cup {"ringEnd"}
                                \/ req'[r].pc = AfterRooms(req[r].plan)
    BY <1>13, StopFields DEF CascadePcs, StopPcs
  <2> QED BY <1>5, <1>6, <2>1 DEF SameCascade, AfterRooms, StopPcs
<1>14. ASSUME NEW r \in Req, Quiet(r)
       PROVE  Coverage'
  <2>1. OthersStay(r) /\ req'[r].pc \notin CascadePcs
    BY <1>14, QuietFields DEF CascadePcs, EndingPcs, StopPcs
  <2> QED BY <1>5, <2>1
<1> QED BY <1>3, <1>7, <1>8, <1>9, <1>10, <1>11, <1>12, <1>13, <1>14, EndSteps
        DEF CreateCall, Activate, DestroyCall, StreamProgress

\* The invariant that carries the order of a cascade.
OrderInv ==
  /\ TypeOK /\ LocalsOK /\ Purposes /\ Tree /\ Levelled
  /\ UnbornOK /\ BreakoutListExact /\ Acyclic /\ Coverage

LEMMA OrderInit ==
  ASSUME Init
  PROVE  OrderInv
<1>1. /\ \A r \in Req : req[r] = Idle
      /\ \A c \in Call : parent[c] = NoCall /\ rooms[c] = {} /\ status[c] = "absent"
  BY DEF Init
<1>2. Purposes /\ Levelled /\ Coverage
  BY <1>1 DEF Purposes, Purpose, Levelled, Coverage, Idle, EndingPcs, CascadePcs, StopPcs
<1>3. Tree /\ UnbornOK /\ BreakoutListExact
  BY <1>1, NoCallAssumption DEF Tree, UnbornOK, BreakoutListExact, Stored, OpenStates
<1>4. Acyclic
  BY <1>1, NoCallAssumption DEF Acyclic
<1> QED BY <1>2, <1>3, <1>4, TypeInit DEF OrderInv

LEMMA OrderStep ==
  ASSUME "lateRoom" \notin Ops, OrderInv, [Next]_vars
  PROVE  OrderInv'
<1>1. TypeOK' /\ LocalsOK' /\ UnbornOK' /\ BreakoutListExact'
  BY TypeStep, RoomsInductive DEF OrderInv, RoomsStep
<1>2. CASE Next
  BY <1>1, <1>2, PurposeStep, TreeStep, LevelsStep, AcyclicStep, CoverageStep DEF OrderInv
<1>3. CASE UNCHANGED vars
  <2>1. Purposes' /\ Tree' /\ Acyclic'
    BY <1>3 DEF OrderInv, vars, Purposes, Purpose, Tree, Acyclic
  <2>2. Levelled'
    BY <1>3 DEF OrderInv, vars, Levelled, Levels, Above
  <2>3. \A c \in Call : OpenRooms(c)' = OpenRooms(c)
    BY <1>3 DEF OpenRooms, vars
  <2>4. \A r \in Req : req[r].pc \in CascadePcs => req[r].call \in Call /\ req[r].plan \in Plans
    BY DEF OrderInv, TypeOK, Request, LocalsOK, LocalOK, EndingPcs, CascadePcs, StopPcs
  <2>5. \A r \in Req : req'[r] = req[r] /\ Unread(req[r])' = Unread(req[r])
    BY <1>3 DEF Unread, vars
  <2>6. Coverage'
    BY <2>3, <2>4, <2>5, CoveredKept DEF Coverage, OrderInv
  <2> QED BY <1>1, <2>1, <2>2, <2>6 DEF OrderInv
<1> QED BY <1>2, <1>3

\* The step that ends a call finds every room under it ended.
LEMMA OrderKept ==
  ASSUME OrderInv, Next,
         NEW c \in Call, NEW d \in Call,
         status[c] \in OpenStates, status'[c] = "ended", parent[d] = c
  PROVE  status[d] \notin OpenStates
<1>1. /\ status \in [Call -> Status] /\ status[c] # "ended" /\ TypeOK /\ LocalsOK
      /\ \A r \in Req : req[r].pc \in CascadePcs => Covered(req[r]) /\ req[r].plan \in Plans
  BY DEF OrderInv, TypeOK, OpenStates, Coverage, Request
<1>2. ASSUME OpenRooms(c) = {}
      PROVE  status[d] \notin OpenStates
  BY <1>2 DEF OpenRooms
<1>3. ASSUME NEW x \in Call, NEW why, StoreEnd(x, why)
      PROVE  x = c
  BY <1>1, <1>3 DEF StoreEnd
<1>4. ~UNCHANGED callVars
  BY <1>1 DEF callVars
<1>5. ASSUME NEW r \in Req, EndMain(r)
      PROVE  OpenRooms(c) = {}
  <2>1. req[r].pc = "main" /\ req[r].call = c
    BY <1>1, <1>3, <1>4, <1>5, EndMainFields
  <2>2. req[r].plan = <<>> /\ Covered(req[r])
    BY <1>1, <2>1 DEF OrderInv, Purposes, Purpose, CascadePcs
  <2> QED BY <2>1, <2>2 DEF Covered, Planned, Unread
<1>6. ASSUME NEW r \in Req, NEW x \in Call, EndRoom(r, x)
      PROVE  OpenRooms(c) = {}
  <2>0. x = c
    BY <1>1, <1>3, <1>4, <1>6, EndRoomFields
  <2>1. /\ req[r].pc = "rooms" /\ req[r].plan # <<>>
        /\ c \in req[r].plan[Len(req[r].plan)]
    BY <1>1, <1>6, <2>0, EndRoomFields
  <2>2. Covered(req[r]) /\ req[r].plan \in Plans
    BY <1>1, <2>1 DEF CascadePcs
  <2>3. /\ Len(req[r].plan) \in DOMAIN req[r].plan
        /\ \A k \in DOMAIN req[r].plan : ~(k > Len(req[r].plan))
    BY <2>1, <2>2 DEF Plans
  <2>4. Below(req[r].plan, Len(req[r].plan)) = {}
    BY <2>3 DEF Below
  <2> QED BY <2>1, <2>2, <2>3, <2>4 DEF Covered, Unread
<1>7. ASSUME NEW r \in Req, Stops(r) \/ Quiet(r)
      PROVE  FALSE
  BY <1>1, <1>4, <1>7, StopFields, QuietFields
<1>8. ASSUME NEW r \in Req,
             \/ \E x \in Call : BeginUpdate(r, x) \/ BeginServerEnd(r, x) \/ BeginExpire(r, x)
             \/ ExpireRead(r) \/ Fetch(r) \/ Collect(r)
      PROVE  FALSE
  BY <1>4, <1>8 DEF BeginUpdate, BeginServerEnd, BeginExpire, ExpireRead, Fetch, Collect
<1>9. ASSUME NEW x \in Call, NEW k \in Kinds, NEW p, CreateCall(x, k, p)
      PROVE  FALSE
  BY <1>1, <1>9 DEF CreateCall, StoreCreate, InitialState
<1>10. ASSUME NEW x \in Call, Activate(x) \/ DestroyCall(x)
       PROVE  FALSE
  BY <1>1, <1>10 DEF Activate, DestroyCall, StoreDestroy
<1> QED BY <1>2, <1>4, <1>5, <1>6, <1>7, <1>8, <1>9, <1>10, EndSteps DEF StreamProgress

\* end_cascade ends a call only after every room under it, whatever ends,
\* destroys and answers interleave with its reads, as long as no room is opened
\* while a request is under way.
THEOREM RoomsFirst ==
  ASSUME "lateRoom" \notin Ops
  PROVE  Spec => RoomsEndFirst
<1>1. OrderInv /\ [Next]_vars => OrderInv'
  BY OrderStep
<1>2. OrderInv /\ [Next]_vars =>
        [\A c, d \in Call :
           /\ status[c] \in OpenStates /\ status'[c] = "ended" /\ parent[d] = c
           => status[d] \notin OpenStates]_vars
  BY OrderKept
<1> QED BY <1>1, <1>2, OrderInit, PTL DEF Spec, RoomsEndFirst

-----------------------------------------------------------------------------
(* Every change of a recording is announced, once.                         *)

\* The states a recording's events announce.
ChangeStates == {"recording", "paused", "stopped"}

\* The event request q has still to deliver: state s of recording m.
Owes(q, m, s) ==
  /\ q.item = m
  /\ \/ q.pc = "announce" /\ q.due = s
     \/ q.pc \in {"announceStop", "dropAnnounce"} /\ s = "stopped"

\* What a step of r does to recording m and to the events r owes: nothing, a
\* change of the recording that r then owes, or the event that settles it.
LeavesAlone(r, m) ==
  /\ committed'[m] = committed[m] /\ announced'[m] = announced[m]
  /\ \A s \in ChangeStates : Owes(req'[r], m, s) <=> Owes(req[r], m, s)

Commits(r, m, x) ==
  /\ committed'[m] = Append(committed[m], x) /\ announced'[m] = announced[m]
  /\ \A s \in ChangeStates : ~Owes(req[r], m, s) /\ (Owes(req'[r], m, s) <=> s = x)

Tells(r, m, x) ==
  /\ committed'[m] = committed[m] /\ announced'[m] = Append(announced[m], x)
  /\ \A s \in ChangeStates : ~Owes(req'[r], m, s) /\ (Owes(req[r], m, s) <=> s = x)

\* A request that is stopping livestreams has only livestreams left to stop.
StreamsOnly == \A r \in Req : req[r].pc = "stopStreams" => req[r].todo \subseteq Livestream

Books(r) ==
  /\ OthersStay(r)
  /\ req'[r].pc = "stopStreams" => req'[r].todo \subseteq Livestream
  /\ \A m \in Recording :
       \/ LeavesAlone(r, m)
       \/ \E x \in MediaState : Commits(r, m, x) \/ Tells(r, m, x)

\* A change of a recording is on record, one of a livestream is not.
LEMMA StoreMediaFields ==
  ASSUME TypeOK, NEW m, NEW s, StoreMedia(m, s)
  PROVE  /\ m \in Recording => committed'[m] = Append(committed[m], s)
         /\ \A n \in Recording : n # m => committed'[n] = committed[n]
         /\ m \notin Recording => committed' = committed
BY DEF StoreMedia, TypeOK, Media

LEMMA AnnouncedFields ==
  ASSUME TypeOK, NEW m, NEW s, announced' = [announced EXCEPT ![m] = Append(@, s)]
  PROVE  /\ m \in Recording => announced'[m] = Append(announced[m], s)
         /\ \A n \in Recording : n # m => announced'[n] = announced[n]
BY DEF TypeOK, Media

\* The steps of a request that owe nothing before or after them.
LEMMA BooksNothing ==
  ASSUME NEW r \in Req, OthersStay(r), UNCHANGED <<committed, announced>>,
         req[r].pc \notin {"announce", "announceStop", "dropAnnounce"},
         req'[r].pc \notin {"announce", "announceStop", "dropAnnounce"},
         req'[r].pc = "stopStreams" => req'[r].todo \subseteq Livestream
  PROVE  Books(r)
BY DEF Books, LeavesAlone, Owes

LEMMA EndingBooks ==
  ASSUME TypeOK, LocalsOK, NEW r \in Req,
         \/ \E c \in Call : BeginUpdate(r, c) \/ BeginServerEnd(r, c) \/ BeginExpire(r, c)
         \/ ExpireRead(r) \/ Fetch(r) \/ Collect(r) \/ EndMain(r)
         \/ \E c \in Call : EndRoom(r, c)
  PROVE  Books(r)
<1>1. UNCHANGED <<committed, announced>>
  BY DEF BeginUpdate, BeginServerEnd, BeginExpire, ExpireRead, Fetch, Collect, EndMain, EndRoom,
     mediaVars
<1>2. ASSUME req'[r] = Done \/ Afresh(r)
      PROVE  req'[r].pc \in {"done", "expire", "fetch"}
  BY <1>2 DEF Done, Idle, Afresh
<1>3. CASE \/ \E c \in Call : BeginUpdate(r, c) \/ BeginServerEnd(r, c) \/ BeginExpire(r, c)
           \/ ExpireRead(r) \/ Fetch(r)
  <2>1. req \in [Req -> Request]
    BY DEF TypeOK
  <2>2. /\ OthersStay(r) /\ req[r].pc \in {"idle", "expire", "fetch"}
        /\ \/ req'[r] = Done \/ Afresh(r)
           \/ req'[r].pc \in {"fetch", "expire", "ringEnd"}
           \/ req'[r].pc = IF rooms[req[r].call] = {} THEN "main" ELSE "collect"
    BY <1>3, <2>1, BeginFields, ExpireReadFields, FetchFields
  <2>3. req'[r].pc \in {"done", "expire", "fetch", "ringEnd", "main", "collect"}
    BY <1>2, <2>2
  <2> QED BY <1>1, <2>2, <2>3, BooksNothing
<1>4. CASE Collect(r)
  <2>. DEFINE found == Found(req[r])
              plan == IF found = {} THEN req[r].plan ELSE Append(req[r].plan, found)
  <2>1. /\ OthersStay(r) /\ req[r].pc = "collect"
        /\ req'[r].pc = IF UNION {rooms[c] : c \in found} = {} THEN AfterRooms(plan)
                        ELSE "collect"
    BY <1>4, CollectFields
  <2>2. req'[r].pc \in {"main", "rooms", "collect"}
    BY <2>1 DEF AfterRooms
  <2> QED BY <1>1, <2>1, <2>2, BooksNothing
<1>5. CASE EndMain(r) \/ \E c \in Call : EndRoom(r, c)
  <2>1. /\ OthersStay(r) /\ req[r].pc \in {"main", "rooms"}
        /\ req'[r] = Done \/ Afresh(r) \/ req'[r].pc \in {"readRecordings", "rooms"}
    BY <1>5, EndMainFields, EndRoomFields
  <2>2. req'[r].pc \in {"done", "expire", "fetch", "readRecordings", "rooms"}
    BY <1>2, <2>1
  <2> QED BY <1>1, <2>1, <2>2, BooksNothing
<1> QED BY <1>3, <1>4, <1>5

\* Where a request that stops media goes on, and that it owes no event then.
LEMMA ContinueFields ==
  ASSUME req \in [Req -> Request], NEW r \in Req, NEW todo
  PROVE  /\ req' = [req EXCEPT ![r] = WithRecordings(@, todo)] =>
              OthersStay(r) /\ req'[r].pc \in {"readStreams", "stopRecordings"}
         /\ req' = [req EXCEPT ![r] = WithStreams(@, todo)] =>
              /\ OthersStay(r)
              /\ \/ req'[r].pc = "stopStreams" /\ req'[r].todo = todo
                 \/ req'[r].pc \in {"rooms", "main", "ringEnd", "done"}
<1>1. req[r] \in Request
  OBVIOUS
<1>2. ASSUME req' = [req EXCEPT ![r] = WithRecordings(@, todo)]
      PROVE  OthersStay(r) /\ req'[r].pc \in {"readStreams", "stopRecordings"}
  BY <1>1, <1>2 DEF WithRecordings, Request, OthersStay
<1>3. ASSUME req' = [req EXCEPT ![r] = WithStreams(@, todo)]
      PROVE  /\ OthersStay(r)
             /\ \/ req'[r].pc = "stopStreams" /\ req'[r].todo = todo
                \/ req'[r].pc \in {"rooms", "main", "ringEnd", "done"}
  <2>1. req'[r] = WithStreams(req[r], todo) /\ OthersStay(r)
    BY <1>3 DEF OthersStay
  <2>2. CASE todo # {}
    BY <1>1, <2>1, <2>2 DEF WithStreams, Request
  <2>3. CASE todo = {}
    <3>1. NextCall(req[r]).pc \in {"rooms", "main", "ringEnd", "done"}
      BY <1>1 DEF NextCall, AfterRooms, Done, Idle, Request
    <3> QED BY <2>1, <2>3, <3>1 DEF WithStreams
  <2> QED BY <2>1, <2>2, <2>3
<1> QED BY <1>2, <1>3

LEMMA StopsBook ==
  ASSUME TypeOK, StreamsOnly, NEW r \in Req, Stops(r)
  PROVE  Books(r)
<1>1. req \in [Req -> Request] /\ req[r] \in Request
  BY DEF TypeOK
<1>2. ASSUME NEW q, q = Done
      PROVE  q.pc = "done"
  BY <1>2 DEF Done, Idle
<1>3. CASE ReadRecordings(r)
  <2>1. /\ req[r].pc = "readRecordings" /\ UNCHANGED <<committed, announced>>
        /\ OthersStay(r) /\ req'[r].pc \in {"readStreams", "stopRecordings"}
    BY <1>1, <1>3, ContinueFields DEF ReadRecordings, mediaVars
  <2> QED BY <2>1, BooksNothing
<1>4. CASE ReadStreams(r)
  <2>1. /\ req[r].pc = "readStreams" /\ UNCHANGED <<committed, announced>> /\ OthersStay(r)
        /\ \/ /\ req'[r].pc = "stopStreams"
              /\ req'[r].todo = LiveOn(req[r].room, Livestream)
           \/ req'[r].pc \in {"rooms", "main", "ringEnd", "done"}
    BY <1>1, <1>4, ContinueFields DEF ReadStreams, mediaVars
  <2> QED BY <2>1, BooksNothing DEF LiveOn
<1>5. ASSUME NEW m \in Media, StopStream(r, m)
      PROVE  Books(r)
  <2>1. req[r].pc = "stopStreams" /\ m \in Livestream /\ announced' = announced
    BY <1>5 DEF StopStream, StreamsOnly
  <2>2. committed' = committed
    <3>1. m \notin Recording
      BY <2>1, MediaAssumption
    <3> QED BY <1>5, <3>1 DEF StopStream, StoreMedia
  <2>3. CASE Answer(r)
    BY <1>1, <2>1, <2>2, <2>3, AnswerFields, BooksNothing
  <2>4. CASE req' = [req EXCEPT ![r] = WithStreams(@, @.todo \ {m})]
    <3>1. /\ OthersStay(r)
          /\ \/ req'[r].pc = "stopStreams" /\ req'[r].todo = req[r].todo \ {m}
             \/ req'[r].pc \in {"rooms", "main", "ringEnd", "done"}
      BY <1>1, <2>4, ContinueFields
    <3>2. req[r].todo \subseteq Livestream
      BY <2>1 DEF StreamsOnly
    <3> QED BY <2>1, <2>2, <3>1, <3>2, BooksNothing
  <2> QED BY <1>5, <2>3, <2>4 DEF StopStream
<1>6. ASSUME NEW m \in Media, StopRecording(r, m)
      PROVE  Books(r)
  <2>1. req[r].pc = "stopRecordings" /\ announced' = announced
    BY <1>6 DEF StopRecording
  <2>2. CASE Answer(r) /\ committed' = committed
    BY <1>1, <2>1, <2>2, AnswerFields, BooksNothing
  <2>3. CASE /\ req' = [req EXCEPT ![r] = WithRecordings(@, @.todo \ {m})]
             /\ committed' = committed
    <3>1. OthersStay(r) /\ req'[r].pc \in {"readStreams", "stopRecordings"}
      BY <1>1, <2>3, ContinueFields
    <3> QED BY <2>1, <2>3, <3>1, BooksNothing
  <2>4. CASE /\ StoreMedia(m, "stopped")
             /\ req' = [req EXCEPT ![r].pc = "announceStop", ![r].item = m,
                                   ![r].todo = @ \ {m}]
    <3>1. OthersStay(r) /\ req'[r].pc = "announceStop" /\ req'[r].item = m
      BY <1>1, <2>4 DEF Request, OthersStay
    <3>2. m \in Recording => Commits(r, m, "stopped")
      BY <2>1, <2>4, <3>1, StoreMediaFields DEF Commits, Owes
    <3>3. \A n \in Recording : n # m => LeavesAlone(r, n)
      BY <2>1, <2>4, <3>1, StoreMediaFields DEF LeavesAlone, Owes
    <3>4. "stopped" \in MediaState
      BY DEF MediaState
    <3> QED BY <3>1, <3>2, <3>3, <3>4 DEF Books
  <2> QED BY <1>6, <2>2, <2>3, <2>4 DEF StopRecording
<1>7. CASE AnnounceStop(r)
  <2>1. /\ req[r].pc = "announceStop" /\ committed' = committed
        /\ announced' = [announced EXCEPT ![req[r].item] = Append(@, "stopped")]
        /\ OthersStay(r) /\ req'[r].pc \in {"readStreams", "stopRecordings"}
    BY <1>1, <1>7, ContinueFields DEF AnnounceStop
  <2>2. req[r].item \in Recording => Tells(r, req[r].item, "stopped")
    BY <2>1, AnnouncedFields DEF Tells, Owes
  <2>3. \A n \in Recording : n # req[r].item => LeavesAlone(r, n)
    BY <2>1, AnnouncedFields DEF LeavesAlone, Owes
  <2>4. "stopped" \in MediaState
    BY DEF MediaState
  <2> QED BY <2>1, <2>2, <2>3, <2>4 DEF Books
<1> QED BY <1>3, <1>4, <1>5, <1>6, <1>7 DEF Stops

LEMMA QuietBooks ==
  ASSUME TypeOK, NEW r \in Req, Quiet(r)
  PROVE  Books(r)
<1>1. req \in [Req -> Request] /\ req[r] \in Request
  BY DEF TypeOK
<1>2. /\ LiveStates \cup ChangeStates \subseteq MediaState
      /\ {"paused", "recording", "stopped"} = ChangeStates
  BY DEF MediaState, LiveStates, ChangeStates
<1>3. ASSUME Answer(r)
      PROVE  OthersStay(r) /\ req'[r].pc = "done"
  BY <1>1, <1>3, AnswerFields
<1>4. ASSUME NEW o, NEW m, NEW s, Announcing(r, o, m, s)
      PROVE  /\ OthersStay(r) /\ req'[r].pc = "announce"
             /\ req'[r].item = m /\ req'[r].due = s
  BY <1>1, <1>4 DEF Announcing, Request, OthersStay
<1>5. ASSUME NEW m \in Recording, NEW s \in ChangeStates, NEW o, req[r].pc = "idle",
             StoreMedia(m, s), Announcing(r, o, m, s), UNCHANGED announced
      PROVE  Books(r)
  <2>1. /\ OthersStay(r) /\ req'[r].pc = "announce"
        /\ req'[r].item = m /\ req'[r].due = s
    BY <1>4, <1>5
  <2>2. Commits(r, m, s)
    BY <1>5, <2>1, StoreMediaFields DEF Commits, Owes
  <2>3. \A n \in Recording : n # m => LeavesAlone(r, n)
    BY <1>5, <2>1, StoreMediaFields DEF LeavesAlone, Owes
  <2> QED BY <1>2, <2>1, <2>2, <2>3 DEF Books
<1>6. ASSUME NEW m \in Livestream, NEW s, req[r].pc = "idle",
             StoreMedia(m, s), Answer(r), UNCHANGED announced
      PROVE  Books(r)
  <2>1. committed' = committed
    BY <1>6, MediaAssumption DEF StoreMedia
  <2> QED BY <1>3, <1>6, <2>1, BooksNothing
<1>7. ASSUME NEW m \in Media, NEW c \in Call, CreateMedia(r, m, c)
      PROVE  Books(r)
  <2>1. req[r].pc = "idle" /\ UNCHANGED announced
    BY <1>7 DEF CreateMedia
  <2>2. CASE CreateRecording(r, m)
    BY <1>2, <1>5, <2>1, <2>2 DEF CreateRecording
  <2>3. CASE CreateLivestream(r, m)
    BY <1>6, <2>1, <2>3 DEF CreateLivestream
  <2> QED BY <1>7, <2>2, <2>3 DEF CreateMedia
<1>8. ASSUME NEW m \in Media, NEW s \in {"paused", "recording", "stopped"}, UpdateMedia(r, m, s)
      PROVE  Books(r)
  <2>1. req[r].pc = "idle" /\ UNCHANGED announced
    BY <1>8 DEF UpdateMedia
  <2>2. CASE UpdateRecording(r, m, s)
    BY <1>2, <1>5, <2>1, <2>2 DEF UpdateRecording
  <2>3. CASE UpdateLivestream(r, m, s)
    BY <1>6, <2>1, <2>3 DEF UpdateLivestream
  <2> QED BY <1>8, <2>2, <2>3 DEF UpdateMedia
<1>9. ASSUME NEW m \in Media, BeginDrop(r, m)
      PROVE  Books(r)
  <2>. DEFINE p == IF Live(m) THEN "dropStop" ELSE "drop"
  <2>1. /\ req[r].pc = "idle" /\ UNCHANGED <<committed, announced>>
        /\ req' = [req EXCEPT ![r].pc = p, ![r].op = "drop", ![r].item = m]
    BY <1>9 DEF BeginDrop, mediaVars
  <2>2. p \in {"dropStop", "drop"}
    OBVIOUS
  <2> HIDE DEF p
  <2>3. OthersStay(r) /\ req'[r].pc = p
    BY <1>1, <2>1 DEF Request, OthersStay
  <2> QED BY <2>1, <2>2, <2>3, BooksNothing
<1>10. ASSUME NEW p, req' = [req EXCEPT ![r].pc = p]
       PROVE  OthersStay(r) /\ req'[r].pc = p /\ req'[r].item = req[r].item
  BY <1>1, <1>10 DEF Request, OthersStay
<1>11. CASE DropStop(r)
  <2>1. req[r].pc = "dropStop" /\ announced' = announced
    BY <1>11 DEF DropStop
  <2>2. CASE Answer(r) /\ committed' = committed
    BY <1>3, <2>1, <2>2, BooksNothing
  <2>3. CASE req' = [req EXCEPT ![r].pc = "drop"] /\ committed' = committed
    BY <1>10, <2>1, <2>3, BooksNothing
  <2>4. CASE /\ StoreMedia(req[r].item, "stopped")
             /\ req' = [req EXCEPT ![r].pc = IF req[r].item \in Recording THEN "dropAnnounce"
                                             ELSE "drop"]
    <3>1. /\ OthersStay(r) /\ req'[r].item = req[r].item
          /\ req'[r].pc = IF req[r].item \in Recording THEN "dropAnnounce" ELSE "drop"
      BY <1>10, <2>4
    <3>2. req[r].item \in Recording => Commits(r, req[r].item, "stopped")
      BY <2>1, <2>4, <3>1, StoreMediaFields DEF Commits, Owes
    <3>3. \A n \in Recording : n # req[r].item => LeavesAlone(r, n)
      BY <2>1, <2>4, <3>1, StoreMediaFields DEF LeavesAlone, Owes
    <3> QED BY <1>2, <3>1, <3>2, <3>3 DEF Books, ChangeStates
  <2> QED BY <1>11, <2>2, <2>3, <2>4 DEF DropStop
<1>12. CASE DropAnnounce(r)
  <2>1. /\ req[r].pc = "dropAnnounce" /\ committed' = committed
        /\ announced' = [announced EXCEPT ![req[r].item] = Append(@, "stopped")]
        /\ OthersStay(r) /\ req'[r].pc = "drop"
    BY <1>10, <1>12 DEF DropAnnounce
  <2>2. req[r].item \in Recording => Tells(r, req[r].item, "stopped")
    BY <2>1, AnnouncedFields DEF Tells, Owes
  <2>3. \A n \in Recording : n # req[r].item => LeavesAlone(r, n)
    BY <2>1, AnnouncedFields DEF LeavesAlone, Owes
  <2> QED BY <1>2, <2>1, <2>2, <2>3 DEF Books, ChangeStates
<1>13. CASE Drop(r) \/ RingEnd(r)
  <2>1. /\ req[r].pc \in {"drop", "ringEnd"} /\ UNCHANGED <<committed, announced>>
        /\ Answer(r)
    BY <1>13 DEF Drop, RingEnd, mediaVars
  <2> QED BY <1>3, <2>1, BooksNothing
<1>14. ASSUME NEW m \in Media, NEW s \in LiveStates \cup {"stopped"}, Announce(r, m, s)
       PROVE  Books(r)
  <2>0. /\ req[r].pc = "announce" /\ req[r].item = m /\ req[r].due = s
        /\ announced' = [announced EXCEPT ![m] = Append(@, s)] /\ committed' = committed
        /\ Answer(r)
    BY <1>14 DEF Announce
  <2>1. /\ req[r].pc = "announce" /\ req[r].item = m /\ req[r].due = s
        /\ announced' = [announced EXCEPT ![m] = Append(@, s)] /\ committed' = committed
        /\ OthersStay(r) /\ req'[r].pc = "done"
    BY <1>3, <2>0
  <2>2. /\ m \in Recording => announced'[m] = Append(announced[m], s)
        /\ \A n \in Recording : n # m => announced'[n] = announced[n]
    BY <2>0 DEF TypeOK, Media
  <2>3. m \in Recording => Tells(r, m, s)
    BY <2>1, <2>2 DEF Tells, Owes
  <2>4. \A n \in Recording : n # m => LeavesAlone(r, n)
    BY <2>1, <2>2 DEF LeavesAlone, Owes
  <2> QED BY <1>2, <2>1, <2>3, <2>4 DEF Books, ChangeStates
<1> QED BY <1>7, <1>8, <1>9, <1>11, <1>12, <1>13, <1>14 DEF Quiet

\* How often a state occurs in a longer sequence.
LEMMA CountAppend ==
  ASSUME NEW S, NEW seq \in Seq(S), NEW x \in S, NEW s
  PROVE  /\ Count(seq, s) \in Nat
         /\ Count(Append(seq, x), s) = Count(seq, s) + (IF x = s THEN 1 ELSE 0)
<1>. DEFINE n == Len(seq)
            at == {i \in DOMAIN seq : seq[i] = s}
            longer == Append(seq, x)
            at2 == {i \in DOMAIN longer : longer[i] = s}
<1>1. /\ n \in Nat /\ DOMAIN seq = 1..n /\ DOMAIN longer = 1..(n + 1)
      /\ longer[n + 1] = x /\ \A i \in 1..n : longer[i] = seq[i]
  OBVIOUS
<1>2. IsFiniteSet(at) /\ Cardinality(at) \in Nat
  <2>1. IsFiniteSet(1..n)
    BY <1>1, FS_Interval
  <2>2. at \in SUBSET (1..n)
    BY <1>1
  <2> HIDE DEF at, n
  <2> QED BY <2>1, <2>2, FS_Subset, FS_CardinalityType
<1>3. at2 = IF x = s THEN at \cup {n + 1} ELSE at
  <2>. HIDE DEF n, longer
  <2>1. \A i \in 1..(n + 1) : i \in 1..n \/ i = n + 1
    BY <1>1
  <2>2. \A i \in 1..n : i \in 1..(n + 1)
    BY <1>1
  <2>3. n + 1 \in 1..(n + 1)
    BY <1>1
  <2> QED BY <1>1, <2>1, <2>2, <2>3
<1>4. n + 1 \notin at
  <2> HIDE DEF n
  <2>1. n + 1 \notin 1..n
    BY <1>1
  <2> QED BY <1>1, <2>1
<1>5. Count(seq, s) = Cardinality(at) /\ Count(longer, s) = Cardinality(at2)
  BY DEF Count
<1> HIDE DEF at, at2, n, longer
<1>6. Cardinality(at2) = Cardinality(at) + (IF x = s THEN 1 ELSE 0)
  <2>1. CASE x = s
    <3>1. Cardinality(at \cup {n + 1}) = Cardinality(at) + 1
      BY <1>2, <1>4, FS_AddElement
    <3> QED BY <1>3, <2>1, <3>1
  <2>2. CASE x # s
    BY <1>2, <1>3, <2>2
  <2> QED BY <2>1, <2>2
<1> QED BY <1>2, <1>5, <1>6 DEF longer

\* The changes on record are the announced ones and those still owed.
Balanced ==
  \A m \in Recording, s \in ChangeStates :
    /\ IsFiniteSet(WillAnnounce(m, s))
    /\ Count(committed[m], s) = Count(announced[m], s) + Cardinality(WillAnnounce(m, s))

LEMMA BalancedStep ==
  ASSUME TypeOK, Balanced, NEW r \in Req, Books(r)
  PROVE  Balanced'
<1>. SUFFICES ASSUME NEW m \in Recording, NEW s \in ChangeStates
              PROVE  /\ IsFiniteSet(WillAnnounce(m, s)')
                     /\ Count(committed'[m], s)
                          = Count(announced'[m], s) + Cardinality(WillAnnounce(m, s)')
  BY DEF Balanced, Count
<1>. DEFINE w == WillAnnounce(m, s)
            w2 == WillAnnounce(m, s)'
            nc == Count(committed[m], s)
            na == Count(announced[m], s)
<1>1. /\ w = {x \in Req : Owes(req[x], m, s)} /\ w2 = {x \in Req : Owes(req'[x], m, s)}
  BY DEF WillAnnounce, Owes
<1>2. \A x \in Req \ {r} : req'[x] = req[x]
  BY DEF Books, OthersStay
<1>3. /\ committed[m] \in Seq(MediaState) /\ announced[m] \in Seq(MediaState)
  BY DEF TypeOK, Media
<1>4. IsFiniteSet(w) /\ nc = na + Cardinality(w)
  BY DEF Balanced
<1> HIDE DEF w, w2
<1>5. Cardinality(w) \in Nat
  BY <1>4, FS_CardinalityType
<1>6. CASE LeavesAlone(r, m)
  <2>1. w2 = w
    BY <1>1, <1>2, <1>6 DEF LeavesAlone
  <2> QED BY <1>4, <1>6, <2>1 DEF LeavesAlone, w2
<1>7. ASSUME NEW x \in MediaState, Commits(r, m, x)
      PROVE  IsFiniteSet(w2) /\ Count(committed'[m], s) = Count(announced'[m], s) + Cardinality(w2)
  <2>1. /\ Count(committed'[m], s) = nc + (IF x = s THEN 1 ELSE 0)
        /\ Count(announced'[m], s) = na /\ nc \in Nat /\ na \in Nat
    BY <1>3, <1>7, CountAppend DEF Commits
  <2>2. w2 = IF x = s THEN w \cup {r} ELSE w
    BY <1>1, <1>2, <1>7 DEF Commits
  <2>3. r \notin w
    BY <1>1, <1>7 DEF Commits
  <2>4. IsFiniteSet(w2) /\ Cardinality(w2) = Cardinality(w) + (IF x = s THEN 1 ELSE 0)
    <3>1. IsFiniteSet(w \cup {r}) /\ Cardinality(w \cup {r}) = Cardinality(w) + 1
      BY <1>4, <2>3, FS_AddElement
    <3> QED BY <1>4, <1>5, <2>2, <3>1
  <2> HIDE DEF nc, na
  <2> QED BY <1>4, <1>5, <2>1, <2>4
<1>8. ASSUME NEW x \in MediaState, Tells(r, m, x)
      PROVE  IsFiniteSet(w2) /\ Count(committed'[m], s) = Count(announced'[m], s) + Cardinality(w2)
  <2>1. /\ Count(announced'[m], s) = na + (IF x = s THEN 1 ELSE 0)
        /\ Count(committed'[m], s) = nc /\ nc \in Nat /\ na \in Nat
    BY <1>3, <1>8, CountAppend DEF Tells
  <2>2. w2 = IF x = s THEN w \ {r} ELSE w
    BY <1>1, <1>2, <1>8 DEF Tells
  <2>3. x = s => r \in w
    BY <1>1, <1>8 DEF Tells
  <2>4. IsFiniteSet(w2) /\ Cardinality(w2) = Cardinality(w) - (IF x = s THEN 1 ELSE 0)
    <3>1. r \in w => IsFiniteSet(w \ {r}) /\ Cardinality(w \ {r}) = Cardinality(w) - 1
      BY <1>4, FS_RemoveElement
    <3> QED BY <1>4, <1>5, <2>2, <2>3, <3>1
  <2> HIDE DEF nc, na
  <2> QED BY <1>4, <1>5, <2>1, <2>4
<1> QED BY <1>6, <1>7, <1>8 DEF Books, w2

\* A livestream's own progress is none of a recording's business.
LEMMA BooksKept ==
  ASSUME TypeOK, Balanced, StreamsOnly, UNCHANGED req,
         \A m \in Recording : committed'[m] = committed[m] /\ announced'[m] = announced[m]
  PROVE  Balanced' /\ StreamsOnly'
<1>1. \A m, s : WillAnnounce(m, s)' = WillAnnounce(m, s)
  BY DEF WillAnnounce
<1>2. StreamsOnly'
  BY DEF StreamsOnly
<1>3. Balanced'
  BY <1>1 DEF Balanced, Count
<1> QED BY <1>2, <1>3

BooksInv == TypeOK /\ LocalsOK /\ StreamsOnly /\ Balanced

\* update_recording, stop_recording and destroy_media deliver one
\* VTCRecordingStateEvent for each change they commit: two stops racing, or a stop
\* racing a destroy, announce one stop.
THEOREM Announced == Spec => []EveryChangeAnnounced
<1>1. Init => BooksInv
  <2>1. ASSUME Init
        PROVE  Balanced /\ StreamsOnly
    <3>1. /\ \A r \in Req : req[r] = Idle
          /\ \A m \in Recording : committed[m] = <<>> /\ announced[m] = <<>>
      BY <2>1 DEF Init, Media
    <3>2. StreamsOnly
      BY <3>1 DEF StreamsOnly, Idle
    <3>3. \A m, s : WillAnnounce(m, s) = {}
      BY <3>1 DEF WillAnnounce, Idle
    <3>4. \A s : Count(<<>>, s) \in Nat
      <4> TAKE s
      <4>1. <<>> \in Seq(MediaState) /\ "absent" \in MediaState
        BY DEF MediaState
      <4> QED BY <4>1, CountAppend
    <3>5. ASSUME NEW m \in Recording, NEW s \in ChangeStates
          PROVE  /\ IsFiniteSet(WillAnnounce(m, s))
                 /\ Count(committed[m], s) = Count(announced[m], s) + Cardinality(WillAnnounce(m, s))
      <4>1. IsFiniteSet(WillAnnounce(m, s)) /\ Cardinality(WillAnnounce(m, s)) = 0
        BY <3>3, FS_EmptySet
      <4>2. committed[m] = announced[m] /\ Count(announced[m], s) \in Nat
        BY <3>1, <3>4
      <4> QED BY <4>1, <4>2
    <3> QED BY <3>2, <3>5 DEF Balanced
  <2> QED BY <2>1, TypeInit DEF BooksInv
<1>2. ASSUME BooksInv, [Next]_vars
      PROVE  BooksInv'
  <2>1. TypeOK' /\ LocalsOK'
    BY <1>2, TypeStep DEF BooksInv
  <2>2. ASSUME NEW r \in Req, Books(r)
        PROVE  Balanced' /\ StreamsOnly'
    BY <1>2, <2>2, BalancedStep DEF BooksInv, Books, OthersStay, StreamsOnly
  <2>3. ASSUME NEW m \in Media, StreamProgress(m)
        PROVE  Balanced' /\ StreamsOnly'
    <3>1. UNCHANGED <<req, announced>> /\ committed' = committed
      BY <2>3, MediaAssumption DEF StreamProgress, StoreMedia
    <3> QED BY <1>2, <3>1, BooksKept DEF BooksInv
  <2>4. ASSUME UNCHANGED <<req, committed, announced>>
        PROVE  Balanced' /\ StreamsOnly'
    BY <1>2, <2>4, BooksKept DEF BooksInv
  <2>5. CASE UNCHANGED vars
    BY <2>1, <2>4, <2>5 DEF vars, BooksInv
  <2>6. CASE Next
    <3>1. ASSUME NEW r \in Req,
                 \/ \E c \in Call : BeginUpdate(r, c) \/ BeginServerEnd(r, c) \/ BeginExpire(r, c)
                 \/ ExpireRead(r) \/ Fetch(r) \/ Collect(r) \/ EndMain(r)
                 \/ \E c \in Call : EndRoom(r, c)
          PROVE  Books(r)
      BY <1>2, <3>1, EndingBooks DEF BooksInv
    <3>2. ASSUME NEW r \in Req, Stops(r) \/ Quiet(r)
          PROVE  Books(r)
      BY <1>2, <3>2, StopsBook, QuietBooks DEF BooksInv
    <3>3. \/ UNCHANGED <<req, committed, announced>>
          \/ \E m \in Media : StreamProgress(m)
          \/ \E r \in Req : Books(r)
      BY <2>6, <3>1, <3>2, EndSteps DEF CreateCall, Activate, DestroyCall, mediaVars
    <3> QED BY <2>1, <2>2, <2>3, <2>4, <3>3 DEF BooksInv
  <2> QED BY <1>2, <2>5, <2>6
<1>3. BooksInv => EveryChangeAnnounced
  BY DEF BooksInv, Balanced, ChangeStates, EveryChangeAnnounced
<1> QED BY <1>1, <1>2, <1>3, PTL DEF Spec
=============================================================================
