--------------------------- MODULE VtcMediaProofs ---------------------------
(***************************************************************************)
(* No recording or livestream is left running on an ended call, for any    *)
(* number of calls, media and requests, as long as nobody destroys media.  *)
(***************************************************************************)
EXTENDS VtcCallsProofs

\* The program counters from which a request still stops media.
StopPcs == {"readRecordings", "stopRecordings", "announceStop", "readStreams",
            "stopStreams"}

\* Those from which it destroys one.
DropPcs == {"dropStop", "dropAnnounce", "drop"}

\* Nobody destroys a recording or livestream, so no cascade is abandoned by one
\* that is gone: without this a stop's error leaves the rest running.
NothingDropped ==
  /\ \A r \in Req : req[r].pc \notin DropPcs
  /\ \A m \in Media : mstate[m] # "destroyed"

\* What a request is about to stop, it goes on to stop.
StopsKept ==
  \A r \in Req, m \in Media : Live(m)' /\ WillStop(r, m) => WillStop(r, m)'

LEMMA KeepRunning ==
  ASSUME TypeOK, NothingRunsOn, StopsKept, mcall' = mcall,
         \A c \in Call : status'[c] = "ended" => status[c] = "ended",
         \A m \in Media : Live(m)' => Live(m)
  PROVE  NothingRunsOn'
BY DEF NothingRunsOn, StopsKept, TypeOK

\* A step of a request that is stopping nothing keeps every stop.
LEMMA OthersKeep ==
  ASSUME NEW r \in Req, req[r].pc \notin StopPcs, mcall' = mcall,
         \A x \in Req \ {r} : req'[x] = req[x]
  PROVE  StopsKept
<1>. SUFFICES ASSUME NEW x \in Req, NEW m \in Media, WillStop(x, m)
              PROVE  WillStop(x, m)'
  BY DEF StopsKept
<1>1. x # r
  BY DEF WillStop, StopPcs
<1> QED BY <1>1 DEF WillStop

\* The stops a request does after it has read what runs on a call.
LEMMA StoppingKeeps ==
  ASSUME TypeOK, NothingDropped, NEW r \in Req,
         \/ ReadRecordings(r) \/ ReadStreams(r) \/ AnnounceStop(r)
         \/ \E m \in Media : StopRecording(r, m) \/ StopStream(r, m)
  PROVE  StopsKept
<1>0. req \in [Req -> Request] /\ req[r] \in Request /\ mcall' = mcall
  BY DEF TypeOK, ReadRecordings, ReadStreams, AnnounceStop, StopRecording, StopStream,
         mediaVars
<1>2. ASSUME NEW todo \in SUBSET Media, req' = [req EXCEPT ![r] = WithRecordings(@, todo)]
      PROVE  /\ req'[r].room = req[r].room /\ \A x \in Req \ {r} : req'[x] = req[x]
             /\ req'[r].pc = IF todo = {} THEN "readStreams" ELSE "stopRecordings"
             /\ req'[r].todo = todo
  BY <1>0, <1>2 DEF WithRecordings, Request
<1>3. ASSUME NEW todo \in SUBSET Media, req' = [req EXCEPT ![r] = WithStreams(@, todo)]
      PROVE  /\ \A x \in Req \ {r} : req'[x] = req[x]
             /\ todo # {} => /\ req'[r].room = req[r].room
                             /\ req'[r].pc = "stopStreams" /\ req'[r].todo = todo
  BY <1>0, <1>3 DEF WithStreams, Request
<1>. SUFFICES ASSUME NEW x \in Req, NEW m \in Media, Live(m)', WillStop(x, m)
              PROVE  WillStop(x, m)'
  BY DEF StopsKept
<1>4. req[r].todo \in SUBSET Media
  BY <1>0 DEF Request
<1>5. CASE ReadRecordings(r)
  <2>. DEFINE todo == LiveOn(req[r].room, Recording)
  <2>1. todo \in SUBSET Media /\ Live(m)
    BY <1>5 DEF LiveOn, Media, ReadRecordings, Live, mediaVars
  <2>2. /\ req'[r].room = req[r].room /\ \A y \in Req \ {r} : req'[y] = req[y]
        /\ req'[r].pc = IF todo = {} THEN "readStreams" ELSE "stopRecordings"
        /\ req'[r].todo = todo
    BY <1>2, <1>5, <2>1 DEF ReadRecordings
  <2>3. x = r /\ m \in Recording => m \in todo
    BY <2>1 DEF LiveOn, WillStop
  <2> HIDE DEF todo
  <2> QED BY <1>0, <2>2, <2>3 DEF WillStop, Media
<1>6. CASE ReadStreams(r)
  <2>. DEFINE todo == LiveOn(req[r].room, Livestream)
  <2>1. todo \in SUBSET Media /\ Live(m)
    BY <1>6 DEF LiveOn, Media, ReadStreams, Live, mediaVars
  <2>2. /\ \A y \in Req \ {r} : req'[y] = req[y]
        /\ todo # {} => /\ req'[r].room = req[r].room
                        /\ req'[r].pc = "stopStreams" /\ req'[r].todo = todo
    BY <1>3, <1>6, <2>1 DEF ReadStreams
  <2>3. x = r => m \in todo
    BY <1>6, <2>1 DEF LiveOn, WillStop, ReadStreams
  <2> HIDE DEF todo
  <2> QED BY <1>0, <2>2, <2>3 DEF WillStop
<1>7. CASE AnnounceStop(r)
  <2>1. /\ req'[r].room = req[r].room /\ \A y \in Req \ {r} : req'[y] = req[y]
        /\ req'[r].pc = IF req[r].todo = {} THEN "readStreams" ELSE "stopRecordings"
        /\ req'[r].todo = req[r].todo
    BY <1>2, <1>4, <1>7 DEF AnnounceStop
  <2> QED BY <1>0, <1>7, <2>1 DEF WillStop, AnnounceStop
<1>8. ASSUME NEW n \in Media, StopRecording(r, n)
      PROVE  WillStop(x, m)'
  <2>1. CASE Live(n) /\ StoreMedia(n, "stopped")
             /\ req' = [req EXCEPT ![r].pc = "announceStop", ![r].item = n,
                                   ![r].todo = @ \ {n}]
    <3>1. m # n
      BY <2>1 DEF StoreMedia, Live, LiveStates, TypeOK
    <3>2. /\ req'[r].room = req[r].room /\ \A y \in Req \ {r} : req'[y] = req[y]
          /\ req'[r].pc = "announceStop" /\ req'[r].todo = req[r].todo \ {n}
      BY <1>0, <2>1 DEF Request
    <3> QED BY <1>0, <1>8, <3>1, <3>2 DEF WillStop, StopRecording
  <2>2. CASE /\ mstate[n] = "stopped" /\ UNCHANGED mstate
             /\ req' = [req EXCEPT ![r] = WithRecordings(@, @.todo \ {n})]
    <3>. DEFINE todo == req[r].todo \ {n}
    <3>1. m # n /\ todo \in SUBSET Media
      BY <1>4, <2>2 DEF Live, LiveStates
    <3>2. /\ req'[r].room = req[r].room /\ \A y \in Req \ {r} : req'[y] = req[y]
          /\ req'[r].pc = IF todo = {} THEN "readStreams" ELSE "stopRecordings"
          /\ req'[r].todo = todo
      BY <1>2, <2>2, <3>1
    <3> QED BY <1>0, <1>8, <3>1, <3>2 DEF WillStop, StopRecording
  <2> QED BY <1>8, <2>1, <2>2 DEF StopRecording, NothingDropped
<1>9. ASSUME NEW n \in Media, StopStream(r, n)
      PROVE  WillStop(x, m)'
  <2>. DEFINE todo == req[r].todo \ {n}
  <2>1. /\ req' = [req EXCEPT ![r] = WithStreams(@, @.todo \ {n})]
        /\ StoreMedia(n, "stopped") \/ (mstate[n] \notin LiveStates /\ UNCHANGED mstate)
    BY <1>9 DEF StopStream, NothingDropped, LiveStates
  <2>2. m # n /\ todo \in SUBSET Media
    BY <1>4, <2>1 DEF StoreMedia, Live, LiveStates, TypeOK
  <2>3. /\ \A y \in Req \ {r} : req'[y] = req[y]
        /\ todo # {} => /\ req'[r].room = req[r].room
                        /\ req'[r].pc = "stopStreams" /\ req'[r].todo = todo
    BY <1>3, <2>1, <2>2
  <2> QED BY <1>0, <1>9, <2>2, <2>3 DEF WillStop, StopStream
<1> QED BY <1>5, <1>6, <1>7, <1>8, <1>9
\* Answering and refusing leave the other requests alone.
LEMMA OthersUntouched ==
  ASSUME req \in [Req -> Request], NEW r \in Req, Answer(r) \/ Refused(r)
  PROVE  \A x \in Req \ {r} : req'[x] = req[x]
<1>1. CASE Answer(r)
  BY <1>1 DEF Answer
<1>2. CASE Refused(r)
  <2>1. CASE req[r].op = "expire"
    BY <1>2, <2>1 DEF Refused
  <2>2. CASE req[r].op = "server"
    BY <1>1, <1>2, <2>2 DEF Refused
  <2>3. CASE req[r].op \notin {"expire", "server"}
    BY <1>2, <2>3 DEF Refused
  <2> QED BY <2>1, <2>2, <2>3
<1> QED BY <1>1, <1>2

\* The request that ends a call is the one that will stop what runs on it.
LEMMA EnderStops ==
  ASSUME TypeOK, LocalsOK, NothingRunsOn, NEW r \in Req,
         EndMain(r) \/ \E c \in Call : EndRoom(r, c)
  PROVE  NothingRunsOn'
<1>1. /\ req[r].pc \notin StopPcs /\ mcall' = mcall /\ mstate' = mstate
      /\ req[r] \in Request /\ req \in [Req -> Request] /\ status \in [Call -> Status]
  BY DEF EndMain, EndRoom, StopPcs, mediaVars, TypeOK
<1>2. \A x \in Req \ {r} : req'[x] = req[x]
  BY <1>1, OthersUntouched DEF EndMain, EndRoom
<1>3. StopsKept
  BY <1>1, <1>2, OthersKeep
<1>4. CASE status' = status
  BY <1>1, <1>3, <1>4, KeepRunning DEF Live
<1>5. ASSUME NEW c \in Call, status' = [status EXCEPT ![c] = "ended"],
             req'[r].pc = "readRecordings", req'[r].room = c
      PROVE  NothingRunsOn'
  <2>. SUFFICES ASSUME NEW m \in Media, mcall[m] # NoCall, Live(m),
                       status'[mcall[m]] = "ended"
                PROVE  \E x \in Req : WillStop(x, m)'
    BY <1>1 DEF NothingRunsOn, Live
  <2>1. CASE mcall[m] = c
    BY <1>1, <1>5, <2>1 DEF WillStop
  <2>2. CASE mcall[m] # c
    <3>1. status[mcall[m]] = "ended"
      BY <1>5, <2>2 DEF TypeOK
    <3>2. PICK x \in Req : WillStop(x, m)
      BY <3>1 DEF NothingRunsOn
    <3> QED BY <1>1, <1>3, <3>2 DEF StopsKept, Live
  <2> QED BY <2>1, <2>2
<1>6. CASE EndMain(r)
  <2>1. CASE /\ StoreEnd(req[r].call, req[r].reason)
             /\ req' = [req EXCEPT ![r].pc = "readRecordings", ![r].room = req[r].call]
    <3>1. req'[r].pc = "readRecordings" /\ req'[r].room = req[r].call
      BY <1>1, <2>1 DEF Request
    <3>2. req[r].call \in Call
      BY <1>6 DEF LocalsOK, LocalOK, EndMain, EndingPcs
    <3> QED BY <1>5, <2>1, <3>1, <3>2 DEF StoreEnd
  <2> QED BY <1>4, <1>6, <2>1 DEF EndMain, callVars
<1>7. ASSUME NEW c \in Call, EndRoom(r, c)
      PROVE  NothingRunsOn'
  <2>1. CASE /\ StoreEnd(c, EndReasonFor(status[c]))
             /\ req' = [req EXCEPT ![r].pc = "readRecordings", ![r].room = c,
                                   ![r].plan = Without(req[r].plan, c)]
    <3>1. req'[r].pc = "readRecordings" /\ req'[r].room = c
      BY <1>1, <2>1 DEF Request
    <3> QED BY <1>5, <2>1, <3>1 DEF StoreEnd
  <2> QED BY <1>4, <1>7, <2>1 DEF EndRoom, callVars
<1> QED BY <1>6, <1>7

\* Nothing starts or resumes on a call that has ended.
LEMMA MediaStarts ==
  ASSUME TypeOK, NothingDropped, NothingRunsOn, NEW r \in Req, NEW m \in Media,
         \/ \E c \in Call : CreateMedia(r, m, c)
         \/ \E s \in {"paused", "recording", "stopped"} : UpdateMedia(r, m, s)
  PROVE  NothingRunsOn'
<1>1. /\ status' = status /\ req \in [Req -> Request]
      /\ req[r].pc \notin StopPcs
      /\ \A x \in Req \ {r} : req'[x] = req[x]
  BY DEF CreateMedia, CreateRecording, CreateLivestream, MayStart, UpdateMedia,
         UpdateRecording, UpdateLivestream, Announcing, Answer, callVars, StopPcs,
         TypeOK
<1>2. ASSUME NEW c \in Call, CreateMedia(r, m, c)
      PROVE  NothingRunsOn'
  <2>1. /\ mcall' = [mcall EXCEPT ![m] = c] /\ status[c] = "active"
        /\ \A n \in Media : n # m => (mstate'[n] = mstate[n] /\ mcall'[n] = mcall[n])
        /\ mcall'[m] = c
    BY <1>2 DEF CreateMedia, CreateRecording, CreateLivestream, MayStart, StoreMedia,
                TypeOK
  <2>. SUFFICES ASSUME NEW n \in Media, mcall'[n] # NoCall, Live(n)',
                       status[mcall'[n]] = "ended"
                PROVE  \E x \in Req : WillStop(x, n)'
    BY <1>1 DEF NothingRunsOn
  <2>2. n # m /\ Live(n) /\ status[mcall[n]] = "ended" /\ mcall[n] # NoCall
    BY <2>1 DEF Live
  <2>3. PICK x \in Req : WillStop(x, n)
    BY <2>2 DEF NothingRunsOn
  <2>4. x # r
    BY <1>1, <2>3 DEF WillStop, StopPcs
  <2> QED BY <1>1, <2>1, <2>2, <2>3, <2>4 DEF WillStop
<1>3. ASSUME NEW s \in {"paused", "recording", "stopped"}, UpdateMedia(r, m, s)
      PROVE  NothingRunsOn'
  <2>1. mcall' = mcall /\ Live(m)
    BY <1>3 DEF UpdateMedia, UpdateRecording, UpdateLivestream, RecordingFrom, Live,
                LiveStates
  <2>2. \A n \in Media : Live(n)' => Live(n)
    BY <1>3, <2>1 DEF UpdateMedia, UpdateRecording, UpdateLivestream, StoreMedia, Live,
                      TypeOK
  <2>3. StopsKept
    BY <1>1, <2>1, OthersKeep
  <2> QED BY <1>1, <2>1, <2>2, <2>3, KeepRunning
<1> QED BY <1>2, <1>3

\* NothingRunsOn is inductive while nothing is dropped.
LEMMA RunsOnStep ==
  ASSUME TypeOK, LocalsOK, NothingDropped, NothingRunsOn, Next
  PROVE  NothingRunsOn'
<1>0. req \in [Req -> Request]
  BY DEF TypeOK
<1>1. ASSUME NEW r \in Req, req[r].pc \notin StopPcs,
             \A x \in Req \ {r} : req'[x] = req[x], status' = status, UNCHANGED mediaVars
      PROVE  NothingRunsOn'
  BY <1>1, OthersKeep, KeepRunning DEF mediaVars, Live
<1>2. CASE UNCHANGED <<req, mcall>>
           /\ (\A c \in Call : status'[c] = "ended" => status[c] = "ended")
           /\ (\A m \in Media : Live(m)' => Live(m))
  BY <1>2, KeepRunning DEF StopsKept, WillStop
<1>3. CASE \/ \E c \in Call, k \in Kinds : CreateCall(c, k, NoCall)
           \/ \E c, p \in Call, k \in Kinds : MayOpenRoom /\ CreateCall(c, k, p)
  <2>1. PICK c \in Call, k \in Kinds : status' = [status EXCEPT ![c] = InitialState(k)]
             /\ UNCHANGED <<mediaVars, req>>
    BY <1>3 DEF CreateCall, StoreCreate
  <2>2. InitialState(k) # "ended"
    BY KindsAssumption DEF InitialState
  <2> QED BY <1>2, <2>1, <2>2 DEF mediaVars, Live, TypeOK
<1>4. CASE \E c \in Call : Activate(c) \/ DestroyCall(c)
  BY <1>2, <1>4 DEF Activate, DestroyCall, StoreDestroy, mediaVars, Live, TypeOK
<1>5. ASSUME NEW m \in Media, StreamProgress(m)
      PROVE  NothingRunsOn'
  <2>1. UNCHANGED <<req, mcall, status>> /\ Live(m)
    BY <1>5 DEF StreamProgress, callVars, Live, LiveStates
  <2>2. \A n \in Media : Live(n)' => Live(n)
    BY <1>5, <2>1 DEF StreamProgress, StoreMedia, Live, TypeOK
  <2> QED BY <1>2, <2>1, <2>2
<1>6. ASSUME NEW r \in Req, Accept(r)
      PROVE  NothingRunsOn'
  <2>1. CASE \/ \E c \in Call : BeginUpdate(r, c) \/ BeginServerEnd(r, c) \/ BeginExpire(r, c)
             \/ \E m \in Media : BeginDrop(r, m)
    <3>1. /\ req[r].pc \notin StopPcs /\ status' = status /\ UNCHANGED mediaVars
          /\ \A x \in Req \ {r} : req'[x] = req[x]
      BY <1>0, <2>1 DEF BeginUpdate, BeginServerEnd, BeginExpire, BeginDrop, StopPcs,
                        callVars
    <3> QED BY <1>1, <3>1
  <2> QED BY <1>6, <2>1, MediaStarts DEF Accept
<1>7. ASSUME NEW r \in Req, Step(r)
      PROVE  NothingRunsOn'
  <2>1. CASE EndMain(r) \/ \E c \in Call : EndRoom(r, c)
    BY <2>1, EnderStops
  <2>2. CASE ExpireRead(r) \/ Fetch(r) \/ Collect(r) \/ RingEnd(r)
    <3>1. /\ req[r].pc \notin StopPcs /\ status' = status /\ UNCHANGED mediaVars
      BY <2>2 DEF ExpireRead, Fetch, Collect, RingEnd, StopPcs, callVars
    <3>2. \A x \in Req \ {r} : req'[x] = req[x]
      BY <1>0, <2>2, OthersUntouched DEF ExpireRead, Fetch, Collect, RingEnd
    <3> QED BY <1>1, <3>1, <3>2
  <2>3. CASE \E m \in Media, s \in LiveStates \cup {"stopped"} : Announce(r, m, s)
    <3>1. /\ req[r].pc \notin StopPcs /\ \A x \in Req \ {r} : req'[x] = req[x]
          /\ UNCHANGED <<status, mcall, mstate>>
      BY <2>3 DEF Announce, Answer, StopPcs, callVars
    <3> QED BY <3>1, OthersKeep, KeepRunning DEF Live
  <2>4. CASE \/ ReadRecordings(r) \/ ReadStreams(r) \/ AnnounceStop(r)
             \/ \E m \in Media : StopRecording(r, m) \/ StopStream(r, m)
    <3>1. status' = status /\ mcall' = mcall
      BY <2>4 DEF ReadRecordings, ReadStreams, AnnounceStop, StopRecording, StopStream,
                  callVars, mediaVars
    <3>2. \A m \in Media : Live(m)' => Live(m)
      BY <2>4 DEF ReadRecordings, ReadStreams, AnnounceStop, StopRecording, StopStream,
                  StoreMedia, Live, LiveStates, mediaVars, TypeOK
    <3>3. StopsKept
      BY <2>4, StoppingKeeps
    <3> QED BY <3>1, <3>2, <3>3, KeepRunning
  <2>5. ~(DropStop(r) \/ DropAnnounce(r) \/ Drop(r))
    BY DEF NothingDropped, DropPcs, DropStop, DropAnnounce, Drop
  <2> QED BY <1>7, <2>1, <2>2, <2>3, <2>4, <2>5 DEF Step
<1> QED BY <1>3, <1>4, <1>5, <1>6, <1>7 DEF Next

\* Where a request goes on from: never to dropping, unless it was accepted for it.
LEMMA PcStep ==
  ASSUME TypeOK, NEW r \in Req,
         \/ Accept(r) /\ "drop" \notin Ops
         \/ Step(r) /\ req[r].pc \notin DropPcs
  PROVE  req'[r].pc \notin DropPcs /\ \A x \in Req \ {r} : req'[x] = req[x]
<1>1. req \in [Req -> Request] /\ req[r] \in Request
  BY DEF TypeOK
<1>2. ASSUME NEW q, req' = [req EXCEPT ![r] = q], q.pc \notin DropPcs
      PROVE  req'[r].pc \notin DropPcs /\ \A x \in Req \ {r} : req'[x] = req[x]
  BY <1>1, <1>2
<1>3. ASSUME Answer(r)
      PROVE  req'[r].pc \notin DropPcs /\ \A x \in Req \ {r} : req'[x] = req[x]
  BY <1>1, <1>3 DEF Answer, Done, Idle, DropPcs
<1>4. ASSUME Refused(r)
      PROVE  req'[r].pc \notin DropPcs
  <2>1. CASE req[r].op = "expire"
    BY <1>1, <1>4, <2>1 DEF Refused, Idle, DropPcs
  <2>2. CASE req[r].op = "server"
    BY <1>3, <1>4, <2>2 DEF Refused
  <2>3. CASE req[r].op \notin {"expire", "server"}
    <3>1. req' = [req EXCEPT ![r].pc = "fetch", ![r].plan = <<>>, ![r].room = NoCall]
      BY <1>4, <2>3 DEF Refused
    <3> QED BY <1>1, <3>1 DEF Request, DropPcs
  <2> QED BY <2>1, <2>2, <2>3
<1>5. ASSUME NEW q \in Request, NEW todo
      PROVE  /\ NextCall(q).pc \notin DropPcs
             /\ WithRecordings(q, todo).pc \notin DropPcs
             /\ WithStreams(q, todo).pc \notin DropPcs
  BY DEF NextCall, WithRecordings, WithStreams, AfterRooms, Done, Idle, Request, DropPcs
<1>6. ASSUME Accept(r), "drop" \notin Ops
      PROVE  req'[r].pc \notin DropPcs /\ \A x \in Req \ {r} : req'[x] = req[x]
  <2>1. ASSUME NEW c \in Call, BeginUpdate(r, c) \/ BeginServerEnd(r, c) \/ BeginExpire(r, c)
        PROVE  req'[r].pc \notin DropPcs /\ \A x \in Req \ {r} : req'[x] = req[x]
    <3>1. CASE BeginUpdate(r, c)
      BY <1>1, <3>1 DEF BeginUpdate, Request, DropPcs
    <3>2. CASE BeginServerEnd(r, c)
      <4>1. PICK from, why :
              req' = [req EXCEPT ![r].pc = "fetch", ![r].op = "server", ![r].call = c,
                                 ![r].from = from, ![r].reason = why]
        BY <3>2 DEF BeginServerEnd
      <4> QED BY <1>1, <4>1 DEF Request, DropPcs
    <3>3. CASE BeginExpire(r, c)
      BY <1>1, <3>3 DEF BeginExpire, Request, DropPcs
    <3> QED BY <2>1, <3>1, <3>2, <3>3
  <2>2. ASSUME NEW o, NEW m, NEW s, Announcing(r, o, m, s)
        PROVE  req'[r].pc \notin DropPcs /\ \A x \in Req \ {r} : req'[x] = req[x]
    BY <1>1, <2>2 DEF Announcing, Request, DropPcs
  <2> QED BY <1>3, <1>6, <2>1, <2>2 DEF Accept, CreateMedia, CreateRecording,
                                        CreateLivestream, MayStart, UpdateMedia,
                                        UpdateRecording, UpdateLivestream, BeginDrop
<1>7. ASSUME Step(r), req[r].pc \notin DropPcs
      PROVE  req'[r].pc \notin DropPcs /\ \A x \in Req \ {r} : req'[x] = req[x]
  <2>1. CASE ExpireRead(r)
    BY <1>1, <1>3, <2>1 DEF ExpireRead, Request, DropPcs
  <2>2. CASE Fetch(r)
    <3>1. CASE Answer(r) \/ Refused(r)
      BY <1>1, <1>3, <1>4, <3>1, OthersUntouched
    <3>. DEFINE c == req[r].call
                s == status[c]
                from == IF req[r].op = "update" THEN {s} ELSE req[r].from
                why == IF req[r].op = "update" /\ s \in OpenStates THEN EndReasonFor(s)
                       ELSE req[r].reason
                p == IF rooms[c] = {} THEN "main" ELSE "collect"
    <3>2. CASE req' = [req EXCEPT ![r].pc = p, ![r].seen[c] = s, ![r].from = from,
                                  ![r].reason = why, ![r].frontier = rooms[c]]
      <4>1. p \notin DropPcs
        BY DEF DropPcs
      <4> HIDE DEF c, s, from, why, p
      <4> QED BY <1>1, <3>2, <4>1 DEF Request
    <3> QED BY <2>2, <3>1, <3>2 DEF Fetch
  <2>3. CASE Collect(r)
    <3> DEFINE found == {c \in req[r].frontier : status[c] \in OpenStates}
                          \ ({req[r].call} \cup Planned(req[r].plan))
               next == UNION {rooms[c] : c \in found}
               plan == IF found = {} THEN req[r].plan ELSE Append(req[r].plan, found)
               p == IF next = {} THEN AfterRooms(plan) ELSE "collect"
               seen == [c \in Call |-> IF c \in found THEN status[c] ELSE req[r].seen[c]]
    <3>1. req' = [req EXCEPT ![r].pc = p, ![r].frontier = next, ![r].plan = plan,
                             ![r].seen = seen]
      BY <2>3 DEF Collect
    <3>2. p \notin DropPcs
      BY DEF AfterRooms, DropPcs
    <3> HIDE DEF found, next, plan, p, seen
    <3> QED BY <1>1, <3>1, <3>2 DEF Request
  <2>4. CASE EndMain(r)
    <3>1. CASE req' = [req EXCEPT ![r].pc = "readRecordings", ![r].room = req[r].call]
      BY <1>1, <3>1 DEF Request, DropPcs
    <3> QED BY <1>1, <1>3, <1>4, <2>4, <3>1, OthersUntouched DEF EndMain
  <2>5. ASSUME NEW c \in Call, EndRoom(r, c)
        PROVE  req'[r].pc \notin DropPcs /\ \A x \in Req \ {r} : req'[x] = req[x]
    <3>1. CASE req' = [req EXCEPT ![r].pc = "readRecordings", ![r].room = c,
                                  ![r].plan = Without(req[r].plan, c)]
      BY <1>1, <3>1 DEF Request, DropPcs
    <3>2. CASE req' = [req EXCEPT ![r].seen[c] = status[c]]
      BY <1>1, <1>7, <3>2 DEF Request, DropPcs
    <3> QED BY <1>3, <2>5, <3>1, <3>2 DEF EndRoom
  <2>6. CASE ReadRecordings(r) \/ ReadStreams(r) \/ AnnounceStop(r)
    BY <1>1, <1>2, <1>5, <2>6 DEF ReadRecordings, ReadStreams, AnnounceStop
  <2>7. ASSUME NEW m \in Media, StopRecording(r, m) \/ StopStream(r, m)
        PROVE  req'[r].pc \notin DropPcs /\ \A x \in Req \ {r} : req'[x] = req[x]
    <3>1. CASE req' = [req EXCEPT ![r].pc = "announceStop", ![r].item = m,
                                  ![r].todo = @ \ {m}]
      BY <1>1, <3>1 DEF Request, DropPcs
    <3> QED BY <1>1, <1>2, <1>3, <1>5, <2>7, <3>1 DEF StopRecording, StopStream
  <2>8. CASE \/ RingEnd(r)
             \/ \E m \in Media, s \in LiveStates \cup {"stopped"} : Announce(r, m, s)
    BY <1>3, <2>8 DEF RingEnd, Announce
  <2>9. ~(DropStop(r) \/ DropAnnounce(r) \/ Drop(r))
    BY <1>7 DEF DropPcs, DropStop, DropAnnounce, Drop
  <2> QED BY <1>7, <2>1, <2>2, <2>3, <2>4, <2>5, <2>6, <2>7, <2>8, <2>9 DEF Step
<1> QED BY <1>6, <1>7

\* NothingDropped is inductive when no request destroys media.
LEMMA DroppedStep ==
  ASSUME "drop" \notin Ops, TypeOK, NothingDropped, Next
  PROVE  NothingDropped'
<1>1. ASSUME NEW m \in Media, NEW s \in {"live", "failed", "stopped", "recording",
                                         "starting", "paused"}, StoreMedia(m, s)
      PROVE  \A n \in Media : mstate'[n] # "destroyed"
  BY <1>1 DEF StoreMedia, NothingDropped, TypeOK
<1>3. ASSUME NEW r \in Req, Accept(r)
      PROVE  NothingDropped'
  <2>1. \A x \in Req : req'[x].pc \notin DropPcs
    BY <1>3, PcStep DEF NothingDropped
  <2>2. \A n \in Media : mstate'[n] # "destroyed"
    <3>1. CASE \/ \E c \in Call : BeginUpdate(r, c) \/ BeginServerEnd(r, c) \/ BeginExpire(r, c)
               \/ \E m \in Media : BeginDrop(r, m)
      BY <3>1 DEF BeginUpdate, BeginServerEnd, BeginExpire, BeginDrop, mediaVars,
                  NothingDropped
    <3>2. CASE \/ \E m \in Media, c \in Call : CreateMedia(r, m, c)
               \/ \E m \in Media, s \in {"paused", "recording", "stopped"} : UpdateMedia(r, m, s)
      BY <1>1, <3>2 DEF CreateMedia, CreateRecording, CreateLivestream, MayStart,
                        UpdateMedia, UpdateRecording, UpdateLivestream
    <3> QED BY <1>3, <3>1, <3>2 DEF Accept
  <2> QED BY <2>1, <2>2 DEF NothingDropped
<1>4. ASSUME NEW r \in Req, Step(r)
      PROVE  NothingDropped'
  <2>1. \A x \in Req : req'[x].pc \notin DropPcs
    BY <1>4, PcStep DEF NothingDropped
  <2>2. \A n \in Media : mstate'[n] # "destroyed"
    <3>1. CASE \E m \in Media : StopRecording(r, m) \/ StopStream(r, m)
      BY <1>1, <3>1 DEF StopRecording, StopStream, NothingDropped
    <3>2. CASE \/ ExpireRead(r) \/ Fetch(r) \/ Collect(r) \/ EndMain(r)
               \/ \E c \in Call : EndRoom(r, c)
               \/ ReadRecordings(r) \/ ReadStreams(r) \/ AnnounceStop(r) \/ RingEnd(r)
               \/ \E m \in Media, s \in LiveStates \cup {"stopped"} : Announce(r, m, s)
      BY <3>2 DEF ExpireRead, Fetch, Collect, EndMain, EndRoom, ReadRecordings,
                  ReadStreams,
                  AnnounceStop, RingEnd, Announce, mediaVars, NothingDropped
    <3>3. ~(DropStop(r) \/ DropAnnounce(r) \/ Drop(r))
      BY DEF NothingDropped, DropPcs, DropStop, DropAnnounce, Drop
    <3> QED BY <1>4, <3>1, <3>2, <3>3 DEF Step
  <2> QED BY <2>1, <2>2 DEF NothingDropped
<1>5. ASSUME NEW m \in Media, StreamProgress(m)
      PROVE  NothingDropped'
  BY <1>1, <1>5 DEF StreamProgress, NothingDropped
<1>6. CASE \/ \E c \in Call, k \in Kinds : CreateCall(c, k, NoCall)
           \/ \E c, p \in Call, k \in Kinds : MayOpenRoom /\ CreateCall(c, k, p)
           \/ \E c \in Call : Activate(c)
           \/ \E c \in Call : "destroyCall" \in Ops /\ DestroyCall(c)
  BY <1>6 DEF CreateCall, StoreCreate, Activate, DestroyCall, StoreDestroy, mediaVars,
              NothingDropped
<1> QED BY <1>3, <1>4, <1>5, <1>6 DEF Next

\* Where no request destroys media, every recording and livestream on an ended
\* call is stopped or about to be, however ends, starts, resumes, stops and
\* failures interleave.
THEOREM StoppedWithTheCall ==
  ASSUME "drop" \notin Ops
  PROVE  Spec => []NothingRunsOn
<1>1. Init => NothingDropped /\ NothingRunsOn
  BY DEF Init, Idle, NothingDropped, DropPcs, NothingRunsOn
<1>2. TypeOK /\ LocalsOK /\ NothingDropped /\ NothingRunsOn /\ [Next]_vars
        => NothingDropped' /\ NothingRunsOn'
  <2>1. ASSUME TypeOK, NothingDropped, NothingRunsOn, UNCHANGED vars
        PROVE  NothingDropped' /\ NothingRunsOn'
    BY <2>1 DEF vars, mediaVars, NothingDropped, NothingRunsOn, WillStop, Live
  <2> QED BY <2>1, DroppedStep, RunsOnStep
<1> QED BY <1>1, <1>2, Typing, PTL DEF Spec

=============================================================================
