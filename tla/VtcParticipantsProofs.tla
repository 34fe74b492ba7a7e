------------------------ MODULE VtcParticipantsProofs ------------------------
(***************************************************************************)
(* Proofs about VtcParticipants, for any number of users and requests and  *)
(* any maxParticipantsPerCall.                                             *)
(***************************************************************************)
EXTENDS VtcParticipants, FiniteSetTheorems, TLAPS

-----------------------------------------------------------------------------
(* The locals of a request.                                                *)

PatchOps == OwnOps \cup ModeratorOps
PatchPcs == {"readCall", "check", "heirs", "write"}

\* A request under way names the user whose record it is about, one that
\* patches knows how, and the reason it carries fits every state it may end the
\* call from.
LocalOK(q) ==
  /\ q.pc \notin {"idle", "done"} => q.of \in User
  /\ q.pc \in PatchPcs => q.op \in PatchOps
  /\ \A s \in q.from : q.reason \in Lifecycle!ReasonFits(s)

Sound == {q \in Request : LocalOK(q)}

RequestsOK == req \in [Req -> Sound]

\* Each local can be replaced by a value of its type.
LEMMA SetFields ==
  ASSUME NEW q \in Request
  PROVE  /\ \A x \in Pcs : [q EXCEPT !.pc = x] \in Request
         /\ \A x \in {"none", "join"} \cup PatchOps : [q EXCEPT !.op = x] \in Request
         /\ \A x \in User \cup {NoUser} : [q EXCEPT !.by = x] \in Request
         /\ \A x \in User \cup {NoUser} : [q EXCEPT !.of = x] \in Request
         /\ \A x \in Participant : [q EXCEPT !.old = x] \in Request
         /\ \A x \in States : [q EXCEPT !.seen = x] \in Request
         /\ \A x \in BOOLEAN : [q EXCEPT !.mod = x] \in Request
         /\ \A x \in SUBSET OpenStates : [q EXCEPT !.from = x] \in Request
         /\ \A x \in Reasons : [q EXCEPT !.reason = x] \in Request
BY DEF Request, PatchOps

\* Each property of a record can be replaced by a value of its type.
LEMMA SetProperties ==
  ASSUME NEW p \in Participant
  PROVE  /\ \A x \in BOOLEAN : /\ [p EXCEPT !.stored = x] \in Participant
                               /\ [p EXCEPT !.joined = x] \in Participant
                               /\ [p EXCEPT !.left = x] \in Participant
                               /\ [p EXCEPT !.kicked = x] \in Participant
         /\ \A x \in {"none", "pending", "accepted", "declined"} :
              [p EXCEPT !.response = x] \in Participant
         /\ \A x \in {"none", "waiting", "admitted", "rejected"} :
              [p EXCEPT !.waits = x] \in Participant
         /\ \A x \in {"moderator", "participant"} : [p EXCEPT !.role = x] \in Participant
BY DEF Participant

\* A blank record is a record, and a blank request is a sound one.
LEMMA BlankType ==
  /\ Absent \in Participant
  /\ Idle \in Sound
  /\ [Idle EXCEPT !.pc = "done"] \in Sound
<1>1. Absent \in Participant
  BY DEF Absent, Participant
<1>2. Idle \in Request
  BY <1>1 DEF Idle, Request, Pcs, States, Reasons
<1>3. Idle.pc = "idle" /\ Idle.from = {}
  BY DEF Idle
<1>4. Idle \in Sound
  BY <1>2, <1>3 DEF Sound, LocalOK, PatchPcs
<1>. DEFINE d == [Idle EXCEPT !.pc = "done"]
<1>5. d \in Request
  BY <1>2, SetFields DEF Pcs
<1>6. d.pc = "done" /\ d.from = {}
  BY <1>2, <1>3 DEF Request
<1>7. d \in Sound
  BY <1>5, <1>6 DEF Sound, LocalOK, PatchPcs
<1> QED BY <1>1, <1>4, <1>7

\* Answering a request keeps the requests sound.
LEMMA AnswerSound ==
  ASSUME RequestsOK, NEW r \in Req, Answer(r)
  PROVE  RequestsOK'
BY BlankType DEF Answer, RequestsOK

\* So does its next step, as long as a patch knows what it does.
LEMMA GotoSound ==
  ASSUME RequestsOK, NEW r \in Req, NEW pc \in Pcs, Goto(r, pc),
         req[r].pc \notin {"idle", "done"},
         pc \in PatchPcs => req[r].op \in PatchOps
  PROVE  RequestsOK'
<1>. DEFINE q == [req[r] EXCEPT !.pc = pc]
<1>1. req[r] \in Request /\ LocalOK(req[r]) /\ req \in [Req -> Sound]
  BY DEF RequestsOK, Sound
<1>2. q \in Request
  BY <1>1, SetFields
<1>3. /\ q.pc = pc /\ q.of = req[r].of /\ q.op = req[r].op
      /\ q.from = req[r].from /\ q.reason = req[r].reason
  BY <1>1 DEF Request
<1>4. req' = [req EXCEPT ![r] = q]
  BY <1>1 DEF Goto
<1> HIDE DEF q
<1>5. q \in Sound
  BY <1>1, <1>2, <1>3 DEF Sound, LocalOK
<1> QED BY <1>1, <1>4, <1>5 DEF RequestsOK

\* And so does choosing an end whose reason fits.
LEMMA EndFromSound ==
  ASSUME RequestsOK, NEW r \in Req, NEW from \in SUBSET OpenStates, NEW why \in Reasons,
         EndFrom(r, from, why), req[r].pc \notin {"idle", "done"},
         \A s \in from : why \in Lifecycle!ReasonFits(s)
  PROVE  RequestsOK'
<1>. DEFINE q == [req[r] EXCEPT !.pc = "endRead", !.from = from, !.reason = why]
<1>1. req[r] \in Request /\ LocalOK(req[r]) /\ req \in [Req -> Sound]
  BY DEF RequestsOK, Sound
<1>2. q \in Request
  <2>1. [[[req[r] EXCEPT !.pc = "endRead"] EXCEPT !.from = from] EXCEPT !.reason = why]
        \in Request
    BY <1>1, SetFields DEF Pcs
  <2> QED BY <2>1
<1>3. /\ q.pc = "endRead" /\ q.of = req[r].of /\ q.from = from /\ q.reason = why
  BY <1>1 DEF Request
<1>4. req' = [req EXCEPT ![r] = q]
  BY <1>1 DEF EndFrom
<1> HIDE DEF q
<1>5. q \in Sound
  BY <1>1, <1>2, <1>3 DEF Sound, LocalOK, PatchPcs
<1> QED BY <1>1, <1>4, <1>5 DEF RequestsOK

\* A refused end is retried with a reason that fits, or given up.
LEMMA EndRefusedSound ==
  ASSUME RequestsOK, NEW r \in Req, EndRefused(r), req[r].pc \notin {"idle", "done"}
  PROVE  RequestsOK'
<1>1. CASE EndFrom(r, {"pending", "active"}, "completed")
  <2>1. /\ {"pending", "active"} \in SUBSET OpenStates /\ "completed" \in Reasons
        /\ \A s \in {"pending", "active"} : "completed" \in Lifecycle!ReasonFits(s)
    BY DEF OpenStates, Reasons, Lifecycle!ReasonFits
  <2> QED BY <1>1, <2>1, EndFromSound
<1>2. CASE Answer(r)
  BY <1>2, AnswerSound
<1> QED BY <1>1, <1>2 DEF EndRefused

-----------------------------------------------------------------------------
(* The steps of a request.                                                 *)

\* Requests start sound: they name a stored record and what is done to it.
LEMMA BeginSound ==
  ASSUME TypeOK, RequestsOK, NEW r \in Req, NEW by \in User, NEW u \in User,
         NEW op \in PatchOps, Begin(r, by, u, op) \/ BeginJoin(r, u)
  PROVE  RequestsOK'
<1>1. req[r] \in Request /\ LocalOK(req[r]) /\ req \in [Req -> Sound]
  BY DEF RequestsOK, Sound
<1>2. CASE Begin(r, by, u, op)
  <2>. DEFINE q == [req[r] EXCEPT !.pc = "readCall", !.op = op, !.by = by,
                                  !.of = u, !.old = part[u]]
  <2>1. part[u] \in Participant
    BY DEF TypeOK
  <2>2. q \in Request
    <3>1. [[[[[req[r] EXCEPT !.pc = "readCall"] EXCEPT !.op = op] EXCEPT !.by = by]
              EXCEPT !.of = u] EXCEPT !.old = part[u]] \in Request
      BY <1>1, <2>1, SetFields DEF Pcs
    <3> QED BY <3>1
  <2>3. /\ q.pc = "readCall" /\ q.of = u /\ q.op = op
        /\ q.from = req[r].from /\ q.reason = req[r].reason
    BY <1>1 DEF Request
  <2>4. req' = [req EXCEPT ![r] = q]
    BY <1>1, <1>2 DEF Begin
  <2> HIDE DEF q
  <2>5. q \in Sound
    BY <1>1, <2>2, <2>3 DEF Sound, LocalOK
  <2> QED BY <1>1, <2>4, <2>5 DEF RequestsOK
<1>3. CASE BeginJoin(r, u)
  <2>. DEFINE q == [req[r] EXCEPT !.pc = "insert", !.op = "join", !.by = u,
                                  !.of = u, !.seen = state]
  <2>1. q \in Request
    <3>1. [[[[[req[r] EXCEPT !.pc = "insert"] EXCEPT !.op = "join"] EXCEPT !.by = u]
              EXCEPT !.of = u] EXCEPT !.seen = state] \in Request
      BY <1>1, SetFields DEF Pcs, TypeOK
    <3> QED BY <3>1
  <2>2. /\ q.pc = "insert" /\ q.of = u
        /\ q.from = req[r].from /\ q.reason = req[r].reason
    BY <1>1 DEF Request
  <2>3. req' = [req EXCEPT ![r] = q]
    BY <1>1, <1>3 DEF BeginJoin
  <2> HIDE DEF q
  <2>4. q \in Sound
    BY <1>1, <2>1, <2>2 DEF Sound, LocalOK, PatchPcs
  <2> QED BY <1>1, <2>3, <2>4 DEF RequestsOK
<1> QED BY <1>2, <1>3

\* The reads before the write keep what they read.
LEMMA ReadSound ==
  ASSUME TypeOK, RequestsOK, NEW r \in Req,
         ReadCall(r) \/ Check(r) \/ ReadHeirs(r) \/ Reload(r)
  PROVE  RequestsOK'
<1>1. req[r] \in Request /\ LocalOK(req[r]) /\ req \in [Req -> Sound]
  BY DEF RequestsOK, Sound
<1>2. CASE Answer(r)
  BY <1>2, AnswerSound
<1>3. CASE ReadHeirs(r) /\ Goto(r, "write")
  BY <1>1, <1>3, GotoSound DEF ReadHeirs, LocalOK, Pcs, PatchPcs
<1>4. ASSUME NEW pc \in Pcs,
             req' = [req EXCEPT ![r].pc = pc, ![r].seen = state],
             req[r].pc \notin {"idle", "done"},
             pc \in PatchPcs => req[r].op \in PatchOps
      PROVE  RequestsOK'
  <2>. DEFINE q == [req[r] EXCEPT !.pc = pc, !.seen = state]
  <2>1. q \in Request
    <3>1. [[req[r] EXCEPT !.pc = pc] EXCEPT !.seen = state] \in Request
      BY <1>1, SetFields DEF TypeOK
    <3> QED BY <3>1
  <2>2. /\ q.pc = pc /\ q.of = req[r].of /\ q.op = req[r].op
        /\ q.from = req[r].from /\ q.reason = req[r].reason
    BY <1>1 DEF Request
  <2>3. req' = [req EXCEPT ![r] = q]
    BY <1>1, <1>4
  <2> HIDE DEF q
  <2>4. q \in Sound
    BY <1>1, <1>4, <2>1, <2>2 DEF Sound, LocalOK
  <2> QED BY <1>1, <2>3, <2>4 DEF RequestsOK
<1>5. CASE ReadCall(r)
  BY <1>1, <1>2, <1>4, <1>5 DEF ReadCall, LocalOK, Pcs, PatchPcs
<1>6. CASE Reload(r) /\ ~Answer(r)
  <2>. DEFINE pc == IF Leaves(req[r]) THEN "leavers"
                    ELSE IF req[r].op = "decline" THEN "targets" ELSE "activate"
  <2>1. req' = [req EXCEPT ![r].seen = state, ![r].pc = pc]
    BY <1>6 DEF Reload
  <2>2. req' = [req EXCEPT ![r].pc = pc, ![r].seen = state]
    BY <1>1, <2>1
  <2>3. pc \in Pcs /\ pc \notin PatchPcs
    BY DEF Pcs, PatchPcs
  <2> HIDE DEF pc
  <2> QED BY <1>4, <1>6, <2>2, <2>3 DEF Reload
<1>7. CASE Check(r) /\ ~Answer(r)
  <2>. DEFINE mod == IsModerator(req[r].by)
              last == req[r].by = req[r].of /\ req[r].op = "revoke"
                        /\ req[r].old.role = "moderator"
              pc == IF last THEN "heirs" ELSE "write"
              q == [req[r] EXCEPT !.pc = pc, !.mod = mod]
  <2>1. pc \in Pcs
    BY DEF Pcs
  <2>2. mod \in BOOLEAN
    BY DEF IsModerator
  <2>3. req' = [req EXCEPT ![r] = q]
    BY <1>1, <1>7 DEF Check
  <2> HIDE DEF pc, mod
  <2>4. q \in Request
    <3>1. [[req[r] EXCEPT !.pc = pc] EXCEPT !.mod = mod] \in Request
      BY <1>1, <2>1, <2>2, SetFields
    <3> QED BY <3>1
  <2>5. /\ q.pc = pc /\ q.of = req[r].of /\ q.op = req[r].op
        /\ q.from = req[r].from /\ q.reason = req[r].reason
    BY <1>1 DEF Request
  <2>6. req[r].of \in User /\ req[r].op \in PatchOps
    BY <1>1, <1>7 DEF Check, LocalOK, PatchPcs
  <2> HIDE DEF q
  <2>7. q \in Sound
    BY <1>1, <2>4, <2>5, <2>6 DEF Sound, LocalOK
  <2> QED BY <1>1, <2>3, <2>7 DEF RequestsOK
<1> QED BY <1>2, <1>3, <1>5, <1>6, <1>7 DEF ReadHeirs

\* The writes, and what run_effects does after them.
LEMMA WriteSound ==
  ASSUME RequestsOK, NEW r \in Req,
         Insert(r) \/ Write(r) \/ Activate(r) \/ Promote(r)
  PROVE  RequestsOK'
<1>1. CASE Answer(r)
  BY <1>1, AnswerSound
<1>2. CASE Insert(r) /\ Goto(r, "activate")
  BY <1>2, GotoSound DEF Insert, Pcs, PatchPcs
<1>3. CASE Write(r) /\ Goto(r, "reload")
  BY <1>3, GotoSound DEF Write, Pcs, PatchPcs
<1> QED BY <1>1, <1>2, <1>3 DEF Insert, Write, Activate, Promote

LEMMA EffectsSound ==
  ASSUME TypeOK, RequestsOK, NEW r \in Req,
         ReadTargets(r) \/ ReadLeavers(r) \/ EndRead(r) \/ End(r)
  PROVE  RequestsOK'
<1>1. CASE Answer(r)
  BY <1>1, AnswerSound
<1>2. req[r].pc \notin {"idle", "done"}
  BY DEF ReadTargets, ReadLeavers, EndRead, End
<1>3. CASE EndFrom(r, {"ringing"}, "declined") \/ EndFrom(r, {"ringing"}, "cancelled")
  <2>1. /\ {"ringing"} \in SUBSET OpenStates /\ {"declined", "cancelled"} \subseteq Reasons
        /\ \A s \in {"ringing"}, why \in {"declined", "cancelled"} :
             why \in Lifecycle!ReasonFits(s)
    BY DEF OpenStates, Reasons, Lifecycle!ReasonFits
  <2> QED BY <1>2, <1>3, <2>1, EndFromSound
<1>4. CASE EndFrom(r, {"pending", "active"}, "completed")
  <2>1. /\ {"pending", "active"} \in SUBSET OpenStates /\ "completed" \in Reasons
        /\ \A s \in {"pending", "active"} : "completed" \in Lifecycle!ReasonFits(s)
    BY DEF OpenStates, Reasons, Lifecycle!ReasonFits
  <2> QED BY <1>2, <1>4, <2>1, EndFromSound
<1>5. CASE EndRefused(r)
  BY <1>2, <1>5, EndRefusedSound
<1>6. CASE Goto(r, "end")
  BY <1>2, <1>6, GotoSound DEF Pcs, PatchPcs
<1>7. ASSUME NEW heir \in ActiveUsers,
             req' = [req EXCEPT ![r].pc = "promote", ![r].of = heir]
      PROVE  RequestsOK'
  <2>. DEFINE q == [req[r] EXCEPT !.pc = "promote", !.of = heir]
  <2>1. req[r] \in Request /\ LocalOK(req[r]) /\ req \in [Req -> Sound] /\ heir \in User
    BY DEF RequestsOK, Sound, ActiveUsers
  <2>2. q \in Request
    <3>1. [[req[r] EXCEPT !.pc = "promote"] EXCEPT !.of = heir] \in Request
      BY <2>1, SetFields DEF Pcs
    <3> QED BY <3>1
  <2>3. /\ q.pc = "promote" /\ q.of = heir
        /\ q.from = req[r].from /\ q.reason = req[r].reason
    BY <2>1 DEF Request
  <2>4. req' = [req EXCEPT ![r] = q]
    BY <1>7, <2>1
  <2> HIDE DEF q
  <2>5. q \in Sound
    BY <2>1, <2>2, <2>3 DEF Sound, LocalOK, PatchPcs
  <2> QED BY <2>1, <2>4, <2>5 DEF RequestsOK
<1>8. CASE ReadTargets(r)
  BY <1>1, <1>3, <1>8 DEF ReadTargets
<1>9. CASE ReadLeavers(r)
  BY <1>1, <1>3, <1>4, <1>7, <1>9 DEF ReadLeavers
<1>10. CASE EndRead(r)
  BY <1>5, <1>6, <1>10 DEF EndRead
<1>11. CASE End(r)
  BY <1>1, <1>5, <1>11 DEF End
<1> QED BY <1>8, <1>9, <1>10, <1>11

-----------------------------------------------------------------------------
(* The records and their count.                                            *)

\* A patch of a record is a record.
LEMMA PatchedType ==
  ASSUME NEW me \in Request, me.op \in PatchOps, NEW p \in Participant
  PROVE  Patched(me, p) \in Participant
<1>1. CASE me.op \in {"leave", "unkick", "grant", "revoke"}
  BY <1>1, SetProperties DEF Patched
<1>2. CASE me.op = "answer"
  <2>1. [[p EXCEPT !.joined = TRUE] EXCEPT !.response = "accepted"] \in Participant
    BY SetProperties
  <2> QED BY <1>2, <2>1 DEF Patched
<1>3. CASE me.op = "decline"
  <2>1. [[p EXCEPT !.left = TRUE] EXCEPT !.response = "declined"] \in Participant
    BY SetProperties
  <2> QED BY <1>3, <2>1 DEF Patched
<1>4. CASE me.op = "kick"
  <2>1. [[p EXCEPT !.left = TRUE] EXCEPT !.kicked = TRUE] \in Participant
    BY SetProperties
  <2> QED BY <1>4, <2>1 DEF Patched
<1>5. CASE me.op = "rejoin"
  <2>1. [[[p EXCEPT !.left = FALSE] EXCEPT !.joined = FALSE] EXCEPT !.waits = "waiting"]
        \in Participant
    BY SetProperties
  <2>2. [[p EXCEPT !.left = FALSE] EXCEPT !.joined = TRUE] \in Participant
    BY SetProperties
  <2> QED BY <1>5, <2>1, <2>2 DEF Patched
<1>6. CASE me.op = "admit"
  <2>1. [[p EXCEPT !.joined = TRUE] EXCEPT !.waits = "admitted"] \in Participant
    BY SetProperties
  <2> QED BY <1>6, <2>1 DEF Patched
<1>7. CASE me.op = "reject"
  <2>1. [[p EXCEPT !.left = TRUE] EXCEPT !.waits = "rejected"] \in Participant
    BY SetProperties
  <2> QED BY <1>7, <2>1 DEF Patched
<1> QED BY <1>1, <1>2, <1>3, <1>4, <1>5, <1>6, <1>7 DEF PatchOps, OwnOps, ModeratorOps

\* Any set of users can be counted.
LEMMA Countable ==
  ASSUME NEW S \in SUBSET User
  PROVE  Cardinality(S) \in Nat
BY UserAssumption, FS_Subset, FS_CardinalityType

\* A stored record makes its user active or not, and the count follows.
LEMMA StoreCounts ==
  ASSUME part \in [User -> Participant], NEW u \in User, NEW p \in Participant,
         NEW op, StorePart(u, p, op)
  PROVE  /\ part' \in [User -> Participant]
         /\ ActiveUsers' = ActiveAfter(u, p)
         /\ count' = Cardinality(ActiveUsers')
         /\ count' \in Nat
         /\ emptied' \in {"none", op, emptied}
<1>1. part' = [part EXCEPT ![u] = p]
  BY DEF StorePart
<1>2. part' \in [User -> Participant]
  BY <1>1
<1>3. ActiveUsers' = {x \in User : IsActive(part'[x])}
  BY DEF ActiveUsers, IsActive
<1>4. ActiveUsers' = ActiveAfter(u, p)
  BY <1>1, <1>3 DEF ActiveAfter, ActiveUsers
<1>5. count' = Cardinality(ActiveUsers')
  BY <1>4 DEF StorePart
<1>6. count' \in Nat
  BY <1>3, <1>5, Countable
<1>7. emptied' \in {"none", op, emptied}
  BY DEF StorePart
<1> QED BY <1>2, <1>4, <1>5, <1>6, <1>7

\* A call starts with nobody in it, a ring with its initiator.
LEMMA CreateCounts ==
  ASSUME TypeOK, CountExact, NEW k \in Kinds, NEW l \in Lobbies, CreateCall(k, l)
  PROVE  /\ part' \in [User -> Participant]
         /\ count' \in Nat
         /\ CountExact'
<1>1. CASE UNCHANGED <<part, count>>
  BY <1>1 DEF TypeOK, CountExact, ActiveUsers
<1>2. ASSUME NEW targets \in SUBSET (User \ {Initiator}), count' = 1,
             part' = [u \in User |-> RingRecord(u, targets)]
      PROVE  /\ part' \in [User -> Participant]
             /\ count' \in Nat
             /\ CountExact'
  <2>1. \A u \in User : RingRecord(u, targets) \in Participant
    <3>1. [[[Absent EXCEPT !.stored = TRUE] EXCEPT !.joined = TRUE] EXCEPT !.role = "moderator"]
          \in Participant
      BY BlankType, SetProperties
    <3>2. [[Absent EXCEPT !.stored = TRUE] EXCEPT !.response = "pending"] \in Participant
      BY BlankType, SetProperties
    <3> QED BY <3>1, <3>2, BlankType DEF RingRecord
  <2>2. \A u \in User : IsActive(RingRecord(u, targets)) <=> u = Initiator
    BY DEF RingRecord, IsActive, Absent
  <2>3. ActiveUsers' = {Initiator}
    BY <1>2, <2>2, InitiatorAssumption DEF ActiveUsers, IsActive
  <2>4. Cardinality({Initiator}) = 1
    BY FS_Singleton
  <2> QED BY <1>2, <2>1, <2>3, <2>4 DEF CountExact
<1> QED BY <1>1, <1>2 DEF CreateCall

\* A promotion changes a role and nobody's presence.
LEMMA PromoteCounts ==
  ASSUME TypeOK, CountExact, NEW r \in Req, Promote(r)
  PROVE  part' \in [User -> Participant] /\ CountExact'
<1>. DEFINE u == req[r].of
            p == [part[u] EXCEPT !.role = "moderator"]
<1>1. CASE u \in User
  <2>1. part[u] \in Participant /\ part \in [User -> Participant]
    BY <1>1 DEF TypeOK
  <2>2. p \in Participant
    BY <2>1, SetProperties
  <2>3. IsActive(p) <=> IsActive(part[u])
    BY <2>1 DEF IsActive, Participant
  <2>4. part' = [part EXCEPT ![u] = p] /\ count' = count
    BY <2>1 DEF Promote
  <2> HIDE DEF p
  <2>5. \A x \in User : IsActive(part'[x]) <=> IsActive(part[x])
    BY <1>1, <2>1, <2>3, <2>4
  <2>6. ActiveUsers' = ActiveUsers
    BY <2>5 DEF ActiveUsers, IsActive
  <2> QED BY <1>1, <2>1, <2>2, <2>4, <2>6 DEF CountExact
<1>2. CASE u \notin User
  <2>1. part' = part /\ count' = count
    BY <1>2 DEF Promote, TypeOK
  <2> QED BY <2>1 DEF TypeOK, CountExact, ActiveUsers
<1> QED BY <1>1, <1>2

\* A join or a patch stores a record, or leaves every record alone.
LEMMA WriteStores ==
  ASSUME TypeOK, RequestsOK, NEW r \in Req, Insert(r) \/ Write(r)
  PROVE  \/ UNCHANGED <<part, count, emptied>>
         \/ \E u \in User, p \in Participant, op \in {"join"} \cup PatchOps :
              StorePart(u, p, op)
<1>1. req[r] \in Request /\ LocalOK(req[r])
  BY DEF RequestsOK, Sound
<1>2. CASE Insert(r)
  <2>. DEFINE u == req[r].of
              waits == lobby /\ u # Initiator
              p == [Absent EXCEPT !.stored = TRUE, !.joined = ~waits,
                      !.waits = IF waits THEN "waiting" ELSE "none",
                      !.role = IF u = Initiator THEN "moderator" ELSE "participant"]
  <2>1. u \in User
    BY <1>1, <1>2 DEF Insert, LocalOK
  <2>2. p \in Participant
    BY DEF Absent, Participant
  <2>3. StorePart(u, p, "join") \/ UNCHANGED <<part, count, emptied>>
    BY <1>2 DEF Insert
  <2> HIDE DEF p, u
  <2> QED BY <2>1, <2>2, <2>3
<1>3. CASE Write(r)
  <2>. DEFINE u == req[r].of
              p == Patched(req[r], part[u])
  <2>1. u \in User /\ req[r].op \in PatchOps
    BY <1>1, <1>3 DEF Write, LocalOK, PatchPcs
  <2>2. p \in Participant
    BY <1>1, <2>1, PatchedType DEF TypeOK
  <2>3. StorePart(u, p, req[r].op) \/ UNCHANGED <<part, count, emptied>>
    BY <1>3 DEF Write, partVars
  <2> HIDE DEF p, u
  <2> QED BY <2>1, <2>2, <2>3
<1> QED BY <1>2, <1>3

-----------------------------------------------------------------------------
(* The invariant and the theorems.                                         *)

\* TypeOK alone is not inductive: a write must name a user and a patch, or the
\* count would be that of somebody who is not in the call.
Inv == TypeOK /\ RequestsOK /\ CountExact

LEMMA InitInv == Init => Inv
<1> SUFFICES ASSUME Init PROVE Inv
  OBVIOUS
<1>1. TypeOK
  BY BlankType DEF Init, TypeOK, States, Reasons, Sound, OpenStates
<1>2. RequestsOK
  BY BlankType DEF Init, RequestsOK
<1>3. ActiveUsers = {}
  BY DEF Init, ActiveUsers, IsActive, Absent
<1>4. CountExact
  BY <1>3, FS_EmptySet DEF Init, CountExact
<1> QED BY <1>1, <1>2, <1>4 DEF Inv

\* What a step can touch: most only move their request on.
LEMMA Steps ==
  ASSUME Next
  PROVE  \/ UNCHANGED <<callVars, partVars>>
         \/ \E k \in Kinds, l \in Lobbies : CreateCall(k, l)
         \/ EndElsewhere
         \/ \E r \in Req : (Insert(r) \/ Write(r) \/ Promote(r)) /\ UNCHANGED callVars
         \/ \E r \in Req : (Activate(r) \/ End(r)) /\ UNCHANGED partVars
<1>1. ASSUME NEW r \in Req, NEW u \in User, BeginJoin(r, u)
      PROVE  UNCHANGED <<callVars, partVars>>
  BY <1>1 DEF BeginJoin
<1>2. ASSUME NEW r \in Req, NEW by, NEW u, NEW op, Begin(r, by, u, op)
      PROVE  UNCHANGED <<callVars, partVars>>
  BY <1>2 DEF Begin
<1>3. ASSUME NEW r \in Req, Step(r)
      PROVE  \/ UNCHANGED <<callVars, partVars>>
             \/ (Insert(r) \/ Write(r) \/ Promote(r)) /\ UNCHANGED callVars
             \/ (Activate(r) \/ End(r)) /\ UNCHANGED partVars
  <2>1. CASE ReadCall(r) \/ Check(r) \/ ReadHeirs(r) \/ Reload(r)
    BY <2>1 DEF ReadCall, Check, ReadHeirs, Reload
  <2>2. CASE ReadTargets(r) \/ ReadLeavers(r) \/ EndRead(r)
    BY <2>2 DEF ReadTargets, ReadLeavers, EndRead
  <2>3. CASE Insert(r) \/ Write(r) \/ Promote(r)
    BY <2>3 DEF Insert, Write, Promote
  <2>4. CASE Activate(r) \/ End(r)
    BY <2>4 DEF Activate, End
  <2> QED BY <1>3, <2>1, <2>2, <2>3, <2>4 DEF Step
<1> QED BY <1>1, <1>2, <1>3 DEF Next

\* One lemma per group of variables: the call, the requests, the records.
LEMMA NextCallType ==
  ASSUME Inv, Next
  PROVE  /\ state' \in States /\ endReason' \in Reasons
         /\ kind' \in {"ring", "room", "scheduled"} /\ lobby' \in BOOLEAN
<1>1. TypeOK
  BY DEF Inv
<1>2. CASE UNCHANGED callVars
  BY <1>1, <1>2 DEF callVars, TypeOK
<1>3. ASSUME NEW k \in Kinds, NEW l \in Lobbies, CreateCall(k, l)
      PROVE  /\ state' \in States /\ endReason' \in Reasons
             /\ kind' \in {"ring", "room", "scheduled"} /\ lobby' \in BOOLEAN
  BY <1>1, <1>3, KindsAssumption, LobbiesAssumption DEF CreateCall, TypeOK, States, OpenStates
<1>4. CASE EndElsewhere
  BY <1>1, <1>4 DEF EndElsewhere, TypeOK, States, Reasons
<1>5. ASSUME NEW r \in Req, Activate(r) \/ End(r)
      PROVE  /\ state' \in States /\ endReason' \in Reasons
             /\ kind' \in {"ring", "room", "scheduled"} /\ lobby' \in BOOLEAN
  <2>1. req[r] \in Request
    BY <1>1 DEF TypeOK
  <2>2. req[r].reason \in Reasons
    BY <2>1 DEF Request
  <2> QED BY <1>1, <1>5, <2>2 DEF Activate, End, TypeOK, States, OpenStates
<1> QED BY <1>2, <1>3, <1>4, <1>5, Steps

LEMMA NextRequests ==
  ASSUME Inv, Next
  PROVE  RequestsOK'
<1>1. TypeOK /\ RequestsOK
  BY DEF Inv
<1>2. CASE UNCHANGED req
  BY <1>1, <1>2 DEF RequestsOK
<1>3. ASSUME NEW r \in Req, NEW u \in User, BeginJoin(r, u)
      PROVE  RequestsOK'
  BY <1>1, <1>3, BeginSound DEF PatchOps, OwnOps
<1>4. ASSUME NEW r \in Req, NEW by \in User, NEW u \in User, NEW op \in PatchOps,
             Begin(r, by, u, op)
      PROVE  RequestsOK'
  BY <1>1, <1>4, BeginSound
<1>5. ASSUME NEW r \in Req, Step(r)
      PROVE  RequestsOK'
  BY <1>1, <1>5, ReadSound, WriteSound, EffectsSound DEF Step
<1> QED BY <1>2, <1>3, <1>4, <1>5 DEF Next, PatchOps, CreateCall, EndElsewhere

LEMMA NextRecords ==
  ASSUME Inv, Next
  PROVE  /\ part' \in [User -> Participant]
         /\ count' \in Nat
         /\ CountExact'
         /\ responses' \in [User -> Nat]
         /\ emptied' \in {"none", "join"} \cup OwnOps \cup ModeratorOps
<1>1. TypeOK /\ RequestsOK /\ CountExact
  BY DEF Inv
<1>2. CASE UNCHANGED partVars
  BY <1>1, <1>2 DEF partVars, TypeOK, CountExact, ActiveUsers
<1>3. ASSUME NEW k \in Kinds, NEW l \in Lobbies, CreateCall(k, l)
      PROVE  /\ part' \in [User -> Participant] /\ count' \in Nat /\ CountExact'
             /\ UNCHANGED <<responses, emptied>>
  BY <1>1, <1>3, CreateCounts DEF CreateCall
<1>4. ASSUME NEW r \in Req, Promote(r)
      PROVE  /\ part' \in [User -> Participant] /\ CountExact'
             /\ UNCHANGED <<count, responses, emptied>>
  BY <1>1, <1>4, PromoteCounts DEF Promote
<1>5. ASSUME NEW r \in Req, Insert(r) \/ Write(r)
      PROVE  /\ part' \in [User -> Participant]
             /\ count' \in Nat
             /\ CountExact'
             /\ responses' \in [User -> Nat]
             /\ emptied' \in {"none", "join"} \cup OwnOps \cup ModeratorOps
  <2>1. responses' \in [User -> Nat]
    BY <1>1, <1>5 DEF Insert, Write, partVars, TypeOK
  <2>2. CASE UNCHANGED <<part, count, emptied>>
    BY <1>1, <2>1, <2>2 DEF TypeOK, CountExact, ActiveUsers
  <2>3. ASSUME NEW u \in User, NEW p \in Participant, NEW op \in {"join"} \cup PatchOps,
               StorePart(u, p, op)
        PROVE  /\ part' \in [User -> Participant]
               /\ count' \in Nat
               /\ CountExact'
               /\ emptied' \in {"none", "join"} \cup OwnOps \cup ModeratorOps
    <3>1. part \in [User -> Participant]
      BY <1>1 DEF TypeOK
    <3>2. /\ part' \in [User -> Participant] /\ count' \in Nat
          /\ count' = Cardinality(ActiveUsers')
          /\ emptied' \in {"none", op, emptied}
      BY <2>3, <3>1, StoreCounts
    <3> QED BY <1>1, <3>2 DEF TypeOK, CountExact, PatchOps
  <2> QED BY <1>1, <1>5, <2>1, <2>2, <2>3, WriteStores
<1>6. CASE EndElsewhere
  BY <1>2, <1>6 DEF EndElsewhere
<1>7. count \in Nat /\ responses \in [User -> Nat]
      /\ emptied \in {"none", "join"} \cup OwnOps \cup ModeratorOps
  BY <1>1 DEF TypeOK
<1> QED BY <1>2, <1>3, <1>4, <1>5, <1>6, <1>7, Steps

LEMMA NextInv == Inv /\ [Next]_vars => Inv'
<1> SUFFICES ASSUME Inv, [Next]_vars PROVE Inv'
  OBVIOUS
<1>1. CASE Next
  <2>1. req' \in [Req -> Request]
    BY <1>1, NextRequests DEF RequestsOK, Sound
  <2> QED BY <1>1, <2>1, NextCallType, NextRequests, NextRecords DEF Inv, TypeOK
<1>2. CASE UNCHANGED vars
  BY <1>2 DEF vars, Inv, TypeOK, RequestsOK, CountExact, ActiveUsers
<1> QED BY <1>1, <1>2

LEMMA Invariance == Spec => []Inv
BY InitInv, NextInv, PTL DEF Spec

\* Every variable and every local of a request keeps its type.
THEOREM Typing == Spec => []TypeOK
BY Invariance, PTL DEF Inv

\* activeParticipantCount is the number of participants in the call, however
\* the writes of joins, answers, departures, kicks and rejoins interleave.
THEOREM Counted == Spec => []CountExact
BY Invariance, PTL DEF Inv

\* No write takes the call above maxParticipantsPerCall.
THEOREM Quota == Spec => QuotaHolds
<1>. DEFINE Within == count' > count => state = "absent" \/ count' <= MaxActive
<1>1. Inv /\ [Next]_vars => [Within]_vars
  <2> SUFFICES ASSUME Inv, [Next]_vars PROVE [Within]_vars
    OBVIOUS
  <2>1. TypeOK /\ RequestsOK /\ CountExact /\ count \in Nat
    BY DEF Inv, TypeOK
  <2>2. CASE count' = count
    BY <2>1, <2>2
  <2>3. ASSUME NEW k \in Kinds, NEW l \in Lobbies, CreateCall(k, l)
        PROVE  Within
    BY <2>3 DEF CreateCall
  <2>4. ASSUME NEW r \in Req, Insert(r) \/ Write(r)
        PROVE  Within
    <3>1. ASSUME NEW u \in User, NEW p \in Participant,
                 NEW op \in {"join"} \cup PatchOps, StorePart(u, p, op)
          PROVE  Within
      <4>1. count' = Cardinality(ActiveAfter(u, p)) /\ count = Cardinality(ActiveUsers)
        BY <2>1, <3>1 DEF StorePart, CountExact
      <4>2. count' \in Nat
        BY <2>1, <3>1, StoreCounts DEF TypeOK
      <4>3. count' <= count \/ count' <= MaxActive
        BY <3>1, <4>1 DEF StorePart, WithinQuota
      <4> QED BY <2>1, <4>2, <4>3
    <3> QED BY <2>1, <2>2, <2>4, <3>1, WriteStores
  <2>5. CASE EndElsewhere \/ UNCHANGED partVars \/ \E r \in Req : Promote(r)
    BY <2>2, <2>5 DEF EndElsewhere, Promote, partVars
  <2>6. CASE Next
    BY <2>3, <2>4, <2>5, <2>6, Steps
  <2> QED BY <2>2, <2>6 DEF vars
<1> QED BY <1>1, Invariance, PTL DEF Spec, QuotaHolds

\* What participants do to the call implements the abstract life of a call: an
\* end lands only in a state the reason stored with it fits.
THEOREM Refinement == Spec => ImplementsLifecycle
<1>. DEFINE status == [c \in {Initiator} |-> state]
            why == [c \in {Initiator} |-> endReason]
<1>1. Init => Lifecycle!Init
  BY DEF Init, Lifecycle!Init
<1>2. Inv /\ [Next]_vars => [Lifecycle!Next]_(Lifecycle!vars)
  <2> SUFFICES ASSUME Inv, [Next]_vars PROVE Lifecycle!Next \/ UNCHANGED Lifecycle!vars
    OBVIOUS
  <2>1. CASE UNCHANGED <<state, endReason>>
    BY <2>1 DEF Lifecycle!vars
  <2>2. ASSUME NEW k \in Kinds, NEW l \in Lobbies, CreateCall(k, l)
        PROVE  Lifecycle!Next
    BY <2>2 DEF CreateCall, Lifecycle!Next, Lifecycle!Create, Lifecycle!Open
  <2>3. CASE EndElsewhere
    BY <2>3 DEF EndElsewhere, OpenStates, Lifecycle!Next, Lifecycle!End, Lifecycle!Open,
       Lifecycle!ReasonFits
  <2>4. ASSUME NEW r \in Req, Activate(r), state' # state
        PROVE  Lifecycle!Next
    BY <2>4 DEF Activate, Startable, Lifecycle!Next, Lifecycle!Activate
  <2>5. ASSUME NEW r \in Req, End(r), MayEnd(r), state' = "ended",
               endReason' = req[r].reason
        PROVE  Lifecycle!Next
    <3>1. /\ state \in req[r].from /\ req[r].from \subseteq OpenStates
          /\ req[r].reason \in Lifecycle!ReasonFits(state)
      BY <2>5 DEF MayEnd, Inv, RequestsOK, Sound, LocalOK, Request
    <3>2. Lifecycle!End(Initiator)
      BY <2>5, <3>1 DEF Lifecycle!End, Lifecycle!Open, OpenStates
    <3> QED BY <3>2 DEF Lifecycle!Next
  <2>6. ASSUME NEW r \in Req, Activate(r) \/ End(r)
        PROVE  Lifecycle!Next \/ UNCHANGED Lifecycle!vars
    <3>1. CASE Activate(r)
      BY <2>1, <2>4, <3>1 DEF Activate
    <3>2. CASE End(r)
      BY <2>1, <2>5, <3>2 DEF End
    <3> QED BY <2>6, <3>1, <3>2
  <2>7. CASE UNCHANGED callVars
    BY <2>1, <2>7 DEF callVars
  <2>8. CASE Next
    BY <2>2, <2>3, <2>6, <2>7, <2>8, Steps
  <2> QED BY <2>1, <2>8 DEF vars
<1> QED BY <1>1, <1>2, Invariance, PTL DEF Spec, ImplementsLifecycle, Lifecycle!Spec

-----------------------------------------------------------------------------
(* What is still to happen to a call: a request that will start it or end  *)
(* it is under way.                                                        *)

Same(r, q) ==
  /\ req'[r].op = q.op /\ req'[r].of = q.of /\ req'[r].old = q.old
  /\ req'[r].seen = q.seen /\ req'[r].from = q.from /\ req'[r].reason = q.reason

\* The locals a step leaves its request with; all other requests stay as they are.
LEMMA Fields ==
  ASSUME req \in [Req -> Request], NEW r \in Req
  PROVE  /\ Answer(r) => /\ req'[r].pc = "done" /\ req'[r].of = NoUser
                         /\ \A q \in Req \ {r} : req'[q] = req[q]
         /\ \A pc : Goto(r, pc) => /\ req'[r].pc = pc /\ Same(r, req[r])
                                   /\ \A q \in Req \ {r} : req'[q] = req[q]
         /\ \A from, why : EndFrom(r, from, why) =>
              /\ req'[r].pc = "endRead" /\ req'[r].of = req[r].of
              /\ req'[r].from = from /\ req'[r].reason = why
              /\ \A q \in Req \ {r} : req'[q] = req[q]
         /\ \A u : BeginJoin(r, u) =>
              /\ req'[r].pc = "insert" /\ req'[r].seen = state /\ req'[r].of = u
              /\ \A q \in Req \ {r} : req'[q] = req[q]
         /\ \A by, u, op : Begin(r, by, u, op) =>
              /\ req'[r].pc = "readCall" /\ req'[r].op = op /\ req'[r].of = u
              /\ \A q \in Req \ {r} : req'[q] = req[q]
<1>1. req[r] \in Request
  OBVIOUS
<1>2. Answer(r) => /\ req'[r].pc = "done" /\ req'[r].of = NoUser
                   /\ \A q \in Req \ {r} : req'[q] = req[q]
  BY DEF Answer, Idle
<1>3. \A pc : Goto(r, pc) => /\ req'[r].pc = pc /\ Same(r, req[r])
                             /\ \A q \in Req \ {r} : req'[q] = req[q]
  BY <1>1 DEF Goto, Same, Request
<1>4. \A from, why : EndFrom(r, from, why) =>
        /\ req'[r].pc = "endRead" /\ req'[r].of = req[r].of
        /\ req'[r].from = from /\ req'[r].reason = why
        /\ \A q \in Req \ {r} : req'[q] = req[q]
  BY <1>1 DEF EndFrom, Request
<1>5. \A u : BeginJoin(r, u) =>
        /\ req'[r].pc = "insert" /\ req'[r].seen = state /\ req'[r].of = u
        /\ \A q \in Req \ {r} : req'[q] = req[q]
  BY <1>1 DEF BeginJoin, Request
<1>6. \A by, u, op : Begin(r, by, u, op) =>
        /\ req'[r].pc = "readCall" /\ req'[r].op = op /\ req'[r].of = u
        /\ \A q \in Req \ {r} : req'[q] = req[q]
  BY <1>1 DEF Begin, Request
<1> QED BY <1>2, <1>3, <1>4, <1>5, <1>6

\* The same of the reads, which keep what they read of the call.
LEMMA ReadFields ==
  ASSUME req \in [Req -> Request], NEW r \in Req
  PROVE  /\ ReadCall(r) => \/ Answer(r)
                           \/ /\ req'[r].pc = "check" /\ req'[r].seen = state
                              /\ req'[r].op = req[r].op /\ req'[r].of = req[r].of
                              /\ \A q \in Req \ {r} : req'[q] = req[q]
         /\ Check(r) => \/ Answer(r)
                        \/ /\ req'[r].pc \in {"heirs", "write"} /\ Same(r, req[r])
                           /\ \A q \in Req \ {r} : req'[q] = req[q]
         /\ Reload(r) => \/ /\ state = "ended" \/ (req[r].op = "decline" /\ state # "ringing")
                            /\ Answer(r)
                         \/ /\ req'[r].pc = IF Leaves(req[r]) THEN "leavers"
                                            ELSE IF req[r].op = "decline" THEN "targets"
                                            ELSE "activate"
                            /\ req'[r].seen = state /\ req'[r].op = req[r].op
                            /\ \A q \in Req \ {r} : req'[q] = req[q]
         /\ ReadLeavers(r) =>
              \/ /\ ActiveUsers = {}
                 /\ \/ kind = "room" /\ Answer(r)
                    \/ req[r].seen = "ringing" /\ EndFrom(r, {"ringing"}, "cancelled")
                    \/ req[r].seen # "ringing"
                       /\ EndFrom(r, {"pending", "active"}, "completed")
              \/ ActiveUsers # {} /\ Answer(r)
              \/ /\ ActiveUsers # {} /\ req'[r].pc = "promote"
                 /\ req'[r].of \in ActiveUsers
                 /\ \A q \in Req \ {r} : req'[q] = req[q]
<1>1. req[r] \in Request
  OBVIOUS
<1>2. ReadCall(r) => \/ Answer(r)
                     \/ /\ req'[r].pc = "check" /\ req'[r].seen = state
                        /\ req'[r].op = req[r].op /\ req'[r].of = req[r].of
                        /\ \A q \in Req \ {r} : req'[q] = req[q]
  BY <1>1 DEF ReadCall, Request
<1>3. Check(r) => \/ Answer(r)
                  \/ /\ req'[r].pc \in {"heirs", "write"} /\ Same(r, req[r])
                     /\ \A q \in Req \ {r} : req'[q] = req[q]
  BY <1>1 DEF Check, Same, Request
<1>4. Reload(r) => \/ /\ state = "ended" \/ (req[r].op = "decline" /\ state # "ringing")
                      /\ Answer(r)
                   \/ /\ req'[r].pc = IF Leaves(req[r]) THEN "leavers"
                                      ELSE IF req[r].op = "decline" THEN "targets"
                                      ELSE "activate"
                      /\ req'[r].seen = state /\ req'[r].op = req[r].op
                      /\ \A q \in Req \ {r} : req'[q] = req[q]
  BY <1>1 DEF Reload, Request
<1>5. ReadLeavers(r) =>
        \/ /\ ActiveUsers = {}
           /\ \/ kind = "room" /\ Answer(r)
              \/ req[r].seen = "ringing" /\ EndFrom(r, {"ringing"}, "cancelled")
              \/ req[r].seen # "ringing"
                 /\ EndFrom(r, {"pending", "active"}, "completed")
        \/ ActiveUsers # {} /\ Answer(r)
        \/ /\ ActiveUsers # {} /\ req'[r].pc = "promote"
           /\ req'[r].of \in ActiveUsers
           /\ \A q \in Req \ {r} : req'[q] = req[q]
  BY <1>1 DEF ReadLeavers, Request
<1> QED BY <1>2, <1>3, <1>4, <1>5

\* Before the call is created there is nothing of it.
Fresh ==
  state = "absent" => /\ \A u \in User : part[u] = Absent
                      /\ emptied = "none"
                      /\ \A r \in Req : req[r].pc = "idle"

\* A record that is not stored is blank, and what is patched or promoted is stored.
Recorded ==
  /\ \A u \in User : ~part[u].stored => part[u] = Absent
  /\ \A r \in Req : req[r].pc \in PatchPcs \cup {"promote"} => part[req[r].of].stored

\* What a patch does to the parts of a record the call's end depends on.
LEMMA PatchParts ==
  ASSUME NEW me \in Request, me.op \in PatchOps, NEW p \in Participant
  PROVE  /\ Patched(me, p).stored = p.stored
         /\ Patched(me, p).response = IF me.op = "answer" THEN "accepted"
                                      ELSE IF me.op = "decline" THEN "declined"
                                      ELSE p.response
BY DEF Patched, PatchOps, OwnOps, ModeratorOps, Participant

\* A call that was created is not uncreated, and its creation comes first.
LEMMA Created ==
  ASSUME Fresh, Next
  PROVE  /\ state' # "absent"
         /\ state = "absent" => \E k \in Kinds, l \in Lobbies : CreateCall(k, l)
<1>1. ASSUME NEW r \in Req, Step(r)
      PROVE  req[r].pc # "idle"
  BY <1>1 DEF Step, Insert, ReadCall, Check, ReadHeirs, Write, Reload, Activate, ReadTargets,
     ReadLeavers, Promote, EndRead, End
<1>2. ASSUME state = "absent"
      PROVE  \E k \in Kinds, l \in Lobbies : CreateCall(k, l)
  BY <1>1, <1>2 DEF Next, Fresh, EndElsewhere, OpenStates, BeginJoin, Begin, Free
<1>3. ASSUME NEW k \in Kinds, NEW l \in Lobbies, CreateCall(k, l)
      PROVE  state' # "absent"
  BY <1>3 DEF CreateCall
<1>4. ASSUME state # "absent"
      PROVE  state' # "absent"
  BY <1>3, <1>4, Steps DEF callVars, EndElsewhere, Activate, End
<1> QED BY <1>2, <1>3, <1>4

\* What is written: the record of the user the request names, and it is stored.
LEMMA WriteParts ==
  ASSUME Inv, Recorded, NEW r \in Req, Insert(r) \/ Write(r)
  PROVE  \/ UNCHANGED partVars /\ Answer(r)
         \/ /\ req[r].of \in User
            /\ \E p \in Participant :
                 /\ p.stored
                 /\ \/ Insert(r) /\ StorePart(req[r].of, p, "join")
                       /\ ~part[req[r].of].stored /\ p.response = "none"
                    \/ Write(r) /\ StorePart(req[r].of, p, req[r].op)
                       /\ p = Patched(req[r], part[req[r].of])
                       /\ req[r].op \in PatchOps
<1>1. req[r] \in Request /\ LocalOK(req[r]) /\ part \in [User -> Participant]
  BY DEF Inv, RequestsOK, Sound, TypeOK
<1>2. CASE Insert(r)
  <2>. DEFINE u == req[r].of
              waits == lobby /\ u # Initiator
              p == [Absent EXCEPT !.stored = TRUE, !.joined = ~waits,
                      !.waits = IF waits THEN "waiting" ELSE "none",
                      !.role = IF u = Initiator THEN "moderator" ELSE "participant"]
  <2>1. u \in User
    BY <1>1, <1>2 DEF Insert, LocalOK
  <2>2. p \in Participant /\ p.stored /\ p.response = "none"
    BY DEF Absent, Participant
  <2>3. \/ UNCHANGED partVars /\ Answer(r)
        \/ StorePart(u, p, "join") /\ ~part[u].stored
    BY <1>2 DEF Insert, partVars
  <2> HIDE DEF p
  <2> QED BY <1>2, <2>1, <2>2, <2>3
<1>3. CASE Write(r)
  <2>. DEFINE u == req[r].of
              p == Patched(req[r], part[u])
  <2>1. u \in User /\ req[r].op \in PatchOps /\ part[u].stored
    BY <1>1, <1>3 DEF Write, LocalOK, PatchPcs, Recorded
  <2>2. p \in Participant /\ p.stored
    BY <1>1, <2>1, PatchedType, PatchParts
  <2>3. \/ UNCHANGED partVars /\ Answer(r)
        \/ StorePart(u, p, req[r].op)
    BY <1>3 DEF Write
  <2> QED BY <1>3, <2>1, <2>2, <2>3
<1> QED BY <1>2, <1>3

\* Only what is stored is patched or promoted.
LEMMA TargetsKept ==
  ASSUME Inv, Recorded, NEW r \in Req,
         \/ Step(r)
         \/ \E u \in User : BeginJoin(r, u)
         \/ \E by \in User, u \in User, op \in PatchOps : Begin(r, by, u, op)
  PROVE  /\ \A q \in Req \ {r} : req'[q] = req[q]
         /\ req'[r].pc \in PatchPcs \cup {"promote"} =>
              req'[r].of \in User /\ part[req'[r].of].stored
<1>1. /\ req \in [Req -> Request] /\ part \in [User -> Participant]
      /\ LocalOK(req[r])
      /\ \A u \in User : ~part[u].stored => part[u] = Absent
      /\ req[r].pc \in PatchPcs \cup {"promote"} => part[req[r].of].stored
  BY DEF Inv, TypeOK, RequestsOK, Sound, Recorded
<1>. DEFINE Good == /\ \A q \in Req \ {r} : req'[q] = req[q]
                    /\ req'[r].pc \in PatchPcs \cup {"promote"} =>
                         req'[r].of \in User /\ part[req'[r].of].stored
<1>2. CASE Answer(r)
  BY <1>1, <1>2, Fields DEF PatchPcs
<1>3. ASSUME NEW from, NEW why, EndFrom(r, from, why)
      PROVE  Good
  BY <1>1, <1>3, Fields DEF PatchPcs
<1>4. CASE EndRefused(r)
  BY <1>2, <1>3, <1>4 DEF EndRefused
<1>5. ASSUME NEW pc, Goto(r, pc), pc \notin PatchPcs \cup {"promote"}
      PROVE  Good
  BY <1>1, <1>5, Fields
<1>6. ASSUME NEW u \in User, BeginJoin(r, u)
      PROVE  Good
  BY <1>1, <1>6, Fields DEF PatchPcs
<1>7. ASSUME NEW by \in User, NEW u \in User, NEW op \in PatchOps, Begin(r, by, u, op)
      PROVE  Good
  <2>1. part[u].stored
    BY <1>7 DEF Begin
  <2> QED BY <1>1, <1>7, <2>1, Fields
<1>8. CASE ReadCall(r) \/ Check(r)
  <2>1. req[r].of \in User /\ part[req[r].of].stored
    BY <1>1, <1>8 DEF ReadCall, Check, LocalOK, PatchPcs
  <2> QED BY <1>1, <1>2, <1>8, <2>1, ReadFields DEF Same
<1>9. CASE ReadHeirs(r)
  <2>1. req[r].of \in User /\ part[req[r].of].stored
    BY <1>1, <1>9 DEF ReadHeirs, LocalOK, PatchPcs
  <2>2. CASE Goto(r, "write")
    BY <1>1, <2>1, <2>2, Fields DEF Same
  <2> QED BY <1>2, <1>9, <2>2 DEF ReadHeirs
<1>10. CASE Insert(r) \/ Write(r)
  BY <1>2, <1>5, <1>10 DEF Insert, Write, PatchPcs
<1>11. CASE Reload(r)
  BY <1>1, <1>2, <1>11, ReadFields DEF PatchPcs
<1>12. CASE ReadLeavers(r)
  <2>1. \A u \in ActiveUsers : u \in User /\ part[u].stored
    BY <1>1 DEF ActiveUsers, IsActive, Absent
  <2> QED BY <1>1, <1>2, <1>3, <1>12, <2>1, ReadFields
<1>13. CASE ReadTargets(r) \/ EndRead(r) \/ End(r) \/ Activate(r) \/ Promote(r)
  BY <1>2, <1>3, <1>4, <1>5, <1>13 DEF ReadTargets, EndRead, End, Activate, Promote, PatchPcs
<1> QED BY <1>6, <1>7, <1>8, <1>9, <1>10, <1>11, <1>12, <1>13 DEF Step

\* The requests' steps, each with the request that takes it.
LEMMA RequestSteps ==
  ASSUME Next
  PROVE  \/ \E k \in Kinds, l \in Lobbies : CreateCall(k, l)
         \/ EndElsewhere
         \/ \E r \in Req : \/ Step(r)
                           \/ \E u \in User : BeginJoin(r, u)
                           \/ \E by \in User, u \in User, op \in PatchOps : Begin(r, by, u, op)
BY DEF Next, PatchOps

\* The records stay well kept: nothing patches one that is not there.
LEMMA RecordsKept ==
  ASSUME Inv, Fresh, Recorded, Next
  PROVE  Recorded'
<1>1. /\ req \in [Req -> Request] /\ part \in [User -> Participant]
      /\ \A r \in Req : LocalOK(req[r])
      /\ \A u \in User : ~part[u].stored => part[u] = Absent
      /\ \A r \in Req : req[r].pc \in PatchPcs \cup {"promote"} =>
           req[r].of \in User /\ part[req[r].of].stored
  BY DEF Inv, TypeOK, RequestsOK, Sound, LocalOK, PatchPcs, Recorded
<1>2. ASSUME NEW k \in Kinds, NEW l \in Lobbies, CreateCall(k, l)
      PROVE  Recorded'
  <2>1. \A r \in Req : req'[r].pc = "idle"
    BY <1>2 DEF CreateCall, Fresh
  <2>2. \A u \in User : ~part'[u].stored => part'[u] = Absent
    <3>1. CASE part' = part
      BY <1>1, <3>1
    <3>2. ASSUME NEW targets, part' = [u \in User |-> RingRecord(u, targets)]
          PROVE  \A u \in User : ~part'[u].stored => part'[u] = Absent
      <4>1. \A u \in User : ~RingRecord(u, targets).stored => RingRecord(u, targets) = Absent
        BY DEF RingRecord, Absent
      <4> QED BY <3>2, <4>1
    <3> QED BY <1>2, <3>1, <3>2 DEF CreateCall
  <2> QED BY <2>1, <2>2 DEF Recorded, PatchPcs, Absent
<1>3. CASE EndElsewhere
  BY <1>3 DEF EndElsewhere, partVars, Recorded
<1>4. ASSUME NEW r \in Req,
             \/ Step(r)
             \/ \E u \in User : BeginJoin(r, u)
             \/ \E by \in User, u \in User, op \in PatchOps : Begin(r, by, u, op)
      PROVE  Recorded'
  <2>1. /\ \A q \in Req \ {r} : req'[q] = req[q]
        /\ req'[r].pc \in PatchPcs \cup {"promote"} =>
             req'[r].of \in User /\ part[req'[r].of].stored
    BY <1>4, TargetsKept
  <2>2. /\ \A u \in User : part[u].stored => part'[u].stored
        /\ \A u \in User : ~part'[u].stored => part'[u] = Absent
    <3>1. CASE UNCHANGED part
      BY <1>1, <3>1
    <3>2. ASSUME NEW u \in User, NEW p \in Participant, p.stored,
                 part' = [part EXCEPT ![u] = p]
          PROVE  <2>2
      BY <1>1, <3>2
    <3>3. CASE Insert(r) \/ Write(r)
      BY <3>1, <3>2, <3>3, WriteParts DEF StorePart, partVars
    <3>4. CASE Promote(r)
      <4>1. req[r].of \in User /\ part[req[r].of].stored
        BY <1>1, <3>4 DEF Promote
      <4>2. [part[req[r].of] EXCEPT !.role = "moderator"] \in Participant
        BY <1>1, <4>1, SetProperties
      <4>3. [part[req[r].of] EXCEPT !.role = "moderator"].stored
        BY <1>1, <4>1 DEF Participant
      <4> QED BY <1>1, <3>2, <3>4, <4>1, <4>2, <4>3 DEF Promote
    <3>5. CASE ~(Insert(r) \/ Write(r) \/ Promote(r))
      BY <1>4, <3>1, <3>5 DEF Step, BeginJoin, Begin, ReadCall, Check, ReadHeirs, Reload, Activate,
         ReadTargets, ReadLeavers, EndRead, End, partVars
    <3> QED BY <3>3, <3>4, <3>5
  <2> QED BY <1>1, <2>1, <2>2 DEF Recorded
<1> QED BY <1>2, <1>3, <1>4, RequestSteps

\* A call waits or rings from its creation on, and not again.
LEMMA WaitsFromTheStart ==
  ASSUME Next, state # "absent"
  PROVE  state' = state \/ state' \notin {"absent", "pending", "ringing"}
BY Steps DEF callVars, CreateCall, EndElsewhere, Activate, End

\* What a request under way has read of a call that still waits or rings is
\* that it waits or rings, and a ringing call is only ended as such.
Reads(q, s) ==
  /\ s = "pending" /\ q.pc = "insert" => q.seen = "pending"
  /\ s = "ringing" /\ q.pc \in {"check", "heirs", "write", "leavers"} => q.seen = "ringing"
  /\ s = "ringing" /\ q.pc \in {"endRead", "end"} => q.from = {"ringing"}

ReadsCurrent == \A r \in Req : Reads(req[r], state)

LEMMA ReadsKept ==
  ASSUME Inv, Fresh, ReadsCurrent, Next
  PROVE  ReadsCurrent'
<1>1. req \in [Req -> Request] /\ \A r \in Req : Reads(req[r], state)
  BY DEF Inv, TypeOK, ReadsCurrent
<1>2. ASSUME state = "absent"
      PROVE  ReadsCurrent'
  BY <1>2, Created DEF Fresh, CreateCall, ReadsCurrent, Reads
<1>3. ASSUME state # "absent",
             NEW r \in Req,
             \/ Step(r)
             \/ \E u \in User : BeginJoin(r, u)
             \/ \E by \in User, u \in User, op \in PatchOps : Begin(r, by, u, op)
      PROVE  ReadsCurrent'
  <2>1. CASE state' \notin {"pending", "ringing"}
    BY <2>1 DEF ReadsCurrent, Reads
  <2>2. CASE state' = state
    <3>. DEFINE Good == /\ \A q \in Req \ {r} : req'[q] = req[q]
                        /\ Reads(req'[r], state)
    <3> SUFFICES Good
      BY <1>1, <2>2 DEF ReadsCurrent
    <3>1. CASE Answer(r)
      BY <1>1, <3>1, Fields DEF Reads
    <3>2. ASSUME NEW from, NEW why, EndFrom(r, from, why), state = "ringing" => from = {"ringing"}
          PROVE  Good
      BY <1>1, <3>2, Fields DEF Reads
    <3>3. CASE EndRefused(r) /\ state # "ringing"
      BY <3>1, <3>2, <3>3 DEF EndRefused
    <3>4. CASE EndRead(r)
      BY <1>1, <3>1, <3>3, <3>4, Fields DEF EndRead, Reads, Same
    <3>5. CASE End(r)
      BY <1>1, <3>1, <3>3, <3>5 DEF End, MayEnd, Reads
    <3>6. CASE ReadLeavers(r)
      <4>1. state = "ringing" => req[r].seen = "ringing"
        BY <1>1, <3>6 DEF Reads, ReadLeavers
      <4> QED BY <1>1, <3>1, <3>2, <3>6, <4>1, ReadFields DEF Reads
    <3>7. CASE ReadTargets(r) \/ Activate(r) \/ Promote(r)
      BY <3>1, <3>2, <3>7 DEF ReadTargets, Activate, Promote
    <3>8. CASE Insert(r) \/ Write(r)
      BY <1>1, <3>1, <3>8, Fields DEF Insert, Write, Reads
    <3>9. CASE ReadCall(r) \/ Check(r) \/ Reload(r)
      BY <1>1, <3>1, <3>9, ReadFields DEF ReadCall, Check, Reload, Reads, Same
    <3>10. CASE ReadHeirs(r)
      BY <1>1, <3>1, <3>10, Fields DEF ReadHeirs, Reads, Same
    <3>11. CASE ~Step(r)
      BY <1>1, <1>3, <3>11, Fields DEF Reads
    <3> QED BY <3>4, <3>5, <3>6, <3>7, <3>8, <3>9, <3>10, <3>11 DEF Step
  <2> QED BY <1>3, <2>1, <2>2, WaitsFromTheStart
<1>4. ASSUME EndElsewhere
      PROVE  ReadsCurrent'
  BY <1>4 DEF EndElsewhere, ReadsCurrent, Reads
<1>5. ASSUME NEW k \in Kinds, NEW l \in Lobbies, CreateCall(k, l)
      PROVE  state = "absent"
  BY <1>5 DEF CreateCall
<1> QED BY <1>2, <1>3, <1>4, <1>5, RequestSteps

\* Which step a request takes next is what its program counter says.
LEMMA StepAt ==
  ASSUME NEW r \in Req,
         \/ Step(r)
         \/ \E u \in User : BeginJoin(r, u)
         \/ \E by \in User, u \in User, op \in PatchOps : Begin(r, by, u, op)
  PROVE  /\ req[r].pc = "insert" => Insert(r)
         /\ req[r].pc = "write" => Write(r)
         /\ req[r].pc = "reload" => Reload(r)
         /\ req[r].pc = "activate" => Activate(r)
         /\ req[r].pc = "targets" => ReadTargets(r)
         /\ req[r].pc = "leavers" => ReadLeavers(r)
         /\ req[r].pc = "endRead" => EndRead(r)
         /\ req[r].pc = "end" => End(r)
         /\ req[r].pc # "done"
         /\ req[r].pc \notin {"insert", "write", "promote"} => UNCHANGED partVars
         /\ req[r].pc \notin {"activate", "end"} => UNCHANGED callVars
BY DEF Step, Insert, ReadCall, Check, ReadHeirs, Write, Reload, Activate, ReadTargets,
   ReadLeavers, Promote, EndRead, End, BeginJoin, Begin, Free

\* A call that still waits to start has nobody in its records, or somebody's
\* join is about to start it.
WaitsForJoin ==
  state = "pending" =>
    \/ /\ \A u \in User : part[u] = Absent
       /\ \A r \in Req : req[r].pc \in {"idle", "insert", "done"}
    \/ \E r \in Req : req[r].pc = "activate"

LEMMA WaitsKept ==
  ASSUME Inv, Fresh, Recorded, ReadsCurrent, WaitsForJoin, Next
  PROVE  WaitsForJoin'
<1>1. req \in [Req -> Request] /\ \A r \in Req : LocalOK(req[r]) /\ Reads(req[r], state)
  BY DEF Inv, TypeOK, RequestsOK, Sound, ReadsCurrent
<1>2. ASSUME state = "absent"
      PROVE  WaitsForJoin'
  BY <1>2, Created DEF Fresh, CreateCall, WaitsForJoin
<1>3. ASSUME state # "absent",
             NEW r \in Req,
             \/ Step(r)
             \/ \E u \in User : BeginJoin(r, u)
             \/ \E by \in User, u \in User, op \in PatchOps : Begin(r, by, u, op)
      PROVE  WaitsForJoin'
  <2>1. CASE state' # "pending"
    BY <2>1 DEF WaitsForJoin
  <2>2. CASE state' = "pending" /\ state = "pending"
    <3>1. \A q \in Req \ {r} : req'[q] = req[q]
      BY <1>3, TargetsKept
    <3>2. CASE \E q \in Req : req[q].pc = "activate"
      <4>1. req[r].pc # "activate"
        BY <1>3, <2>2, StepAt DEF Activate, Startable
      <4> QED BY <3>1, <3>2, <4>1 DEF WaitsForJoin
    <3>3. CASE /\ \A u \in User : part[u] = Absent
               /\ \A q \in Req : req[q].pc \in {"idle", "insert", "done"}
      <4>1. CASE Insert(r)
        <5>1. req[r].seen = "pending"
          BY <1>1, <2>2, <4>1 DEF Insert, Reads
        <5>2. CASE Goto(r, "activate")
          BY <1>1, <5>2, Fields DEF WaitsForJoin
        <5>3. CASE Answer(r) /\ UNCHANGED part
          BY <1>1, <3>1, <3>3, <5>3, Fields DEF WaitsForJoin
        <5> QED BY <4>1, <5>1, <5>2, <5>3 DEF Insert
      <4>2. ASSUME NEW u \in User, BeginJoin(r, u)
            PROVE  WaitsForJoin'
        BY <1>1, <3>1, <3>3, <4>2, Fields DEF BeginJoin, partVars, WaitsForJoin
      <4>3. ASSUME NEW by \in User, NEW u \in User, NEW op \in PatchOps, Begin(r, by, u, op)
            PROVE  FALSE
        BY <3>3, <4>3 DEF Begin, Absent
      <4>4. CASE Step(r)
        BY <1>3, <3>3, <4>1, <4>4, StepAt DEF Step, ReadCall, Check, ReadHeirs, Write, Reload,
           Activate, ReadTargets, ReadLeavers, Promote, EndRead, End
      <4> QED BY <1>3, <4>2, <4>3, <4>4
    <3> QED BY <2>2, <3>2, <3>3 DEF WaitsForJoin
  <2> QED BY <1>3, <2>1, <2>2, WaitsFromTheStart
<1>4. ASSUME EndElsewhere
      PROVE  WaitsForJoin'
  BY <1>4 DEF EndElsewhere, WaitsForJoin
<1>5. ASSUME NEW k \in Kinds, NEW l \in Lobbies, CreateCall(k, l)
      PROVE  state = "absent"
  BY <1>5 DEF CreateCall
<1> QED BY <1>2, <1>3, <1>4, <1>5, RequestSteps

\* A step on a ringing call that leaves it ringing.
Rings(r) ==
  /\ state = "ringing" /\ state' = "ringing"
  /\ \/ Step(r)
     \/ \E u \in User : BeginJoin(r, u)
     \/ \E by \in User, u \in User, op \in PatchOps : Begin(r, by, u, op)

\* On a ringing call, responses change by answers and declines only, and who
\* answers or declines goes on to tell the call.
LEMMA ResponsesMove ==
  ASSUME Inv, Recorded, ReadsCurrent, NEW r \in Req, Rings(r)
  PROVE  /\ \A q \in Req \ {r} : req'[q] = req[q]
         /\ \/ \A u \in User : part'[u].response = part[u].response
            \/ /\ req'[r].pc = "reload" /\ req'[r].op = req[r].op
               /\ req[r].op \in {"answer", "decline"} /\ req[r].of \in User
               /\ part'[req[r].of].response =
                    IF req[r].op = "answer" THEN "accepted" ELSE "declined"
               /\ \A u \in User \ {req[r].of} : part'[u] = part[u]
<1>1. /\ req \in [Req -> Request] /\ part \in [User -> Participant]
      /\ LocalOK(req[r]) /\ Reads(req[r], state)
      /\ \A u \in User : ~part[u].stored => part[u] = Absent
  BY DEF Inv, TypeOK, RequestsOK, Sound, ReadsCurrent, Recorded
<1>2. \A q \in Req \ {r} : req'[q] = req[q]
  BY TargetsKept DEF Rings
<1>3. CASE UNCHANGED part
  BY <1>2, <1>3
<1>4. CASE Insert(r) /\ ~UNCHANGED part
  <2>1. PICK p \in Participant : /\ StorePart(req[r].of, p, "join") /\ req[r].of \in User
                                 /\ ~part[req[r].of].stored /\ p.response = "none"
    <3>1. ~Write(r)
      BY <1>4 DEF Insert, Write
    <3> QED BY <1>4, <3>1, WriteParts DEF partVars
  <2>2. part[req[r].of].response = "none"
    BY <1>1, <2>1 DEF Absent
  <2> QED BY <1>1, <1>2, <2>1, <2>2 DEF StorePart
<1>5. CASE Write(r) /\ ~UNCHANGED part
  <2>1. /\ StorePart(req[r].of, Patched(req[r], part[req[r].of]), req[r].op)
        /\ req[r].op \in PatchOps /\ req[r].of \in User
    <3>1. ~Insert(r)
      BY <1>5 DEF Insert, Write
    <3> QED BY <1>5, <3>1, WriteParts DEF partVars
  <2>2. part' = [part EXCEPT ![req[r].of] = Patched(req[r], part[req[r].of])]
    BY <2>1 DEF StorePart
  <2>3. req[r].seen = "ringing"
    BY <1>1, <1>5 DEF Write, Reads, Rings
  <2>4. CASE req[r].op \in {"answer", "decline"}
    <3>1. Activates(req[r]) \/ req[r].op = "decline"
      BY <2>3, <2>4 DEF Activates
    <3>2. Goto(r, "reload")
      BY <1>5, <3>1 DEF Write, partVars
    <3>3. req'[r].pc = "reload" /\ req'[r].op = req[r].op
      BY <1>1, <3>2, Fields DEF Same
    <3> QED BY <1>1, <1>2, <2>1, <2>2, <2>4, <3>3, PatchParts
  <2>5. CASE req[r].op \notin {"answer", "decline"}
    BY <1>1, <1>2, <2>1, <2>2, <2>5, PatchParts
  <2> QED BY <2>4, <2>5
<1>6. CASE Promote(r)
  <2>1. req[r].of \in User
    BY <1>1, <1>6 DEF Promote, LocalOK
  <2>2. [part[req[r].of] EXCEPT !.role = "moderator"].response = part[req[r].of].response
    BY <1>1, <2>1 DEF Participant
  <2> QED BY <1>1, <1>2, <1>6, <2>1, <2>2 DEF Promote
<1>7. req[r].pc \notin {"insert", "write", "promote"} => UNCHANGED part
  BY StepAt DEF Rings, partVars
<1>8. Insert(r) \/ Write(r) \/ Promote(r) \/ UNCHANGED part
  BY <1>7 DEF Rings, Step, ReadCall, Check, ReadHeirs, Reload, Activate, ReadTargets,
     ReadLeavers, EndRead, End, BeginJoin, Begin, partVars
<1> QED BY <1>3, <1>4, <1>5, <1>6, <1>8

\* A ringing call that somebody has answered is about to become active.
RingsForAnswer ==
  state = "ringing" =>
    \/ \A u \in User : part[u].response # "accepted"
    \/ \E r \in Req : \/ req[r].pc = "activate" /\ req[r].op # "join"
                      \/ req[r].pc = "reload" /\ req[r].op = "answer"

\* A ringing call that all have declined is about to end.
RingsForTargets ==
  state = "ringing" =>
    \/ \E u \in User : part[u].response \in {"pending", "accepted"}
    \/ \E r \in Req : \/ req[r].pc = "reload" /\ req[r].op = "decline"
                      \/ req[r].pc = "targets"
                      \/ /\ req[r].pc \in {"endRead", "end"}
                         /\ req[r].from = {"ringing"} /\ req[r].reason = "declined"

\* What a new ring has to say to its targets.
LEMMA NewRing ==
  ASSUME NEW k \in Kinds, NEW l \in Lobbies, CreateCall(k, l), state' = "ringing"
  PROVE  /\ \A u \in User : part'[u].response # "accepted"
         /\ \E u \in User : part'[u].response = "pending"
<1>1. PICK targets \in SUBSET (User \ {Initiator}) :
        targets # {} /\ part' = [u \in User |-> RingRecord(u, targets)]
  BY DEF CreateCall
<1>2. \A u \in User : RingRecord(u, targets).response # "accepted"
  BY DEF RingRecord, Absent
<1>3. \A u \in targets : u \in User /\ RingRecord(u, targets).response = "pending"
  BY DEF RingRecord, Absent
<1> QED BY <1>1, <1>2, <1>3

LEMMA AnswersKept ==
  ASSUME Inv, Recorded, ReadsCurrent, RingsForAnswer, NEW r \in Req, Rings(r)
  PROVE  RingsForAnswer'
<1>1. req \in [Req -> Request]
  BY DEF Inv, TypeOK
<1>. DEFINE Told(q) == \/ req[q].pc = "activate" /\ req[q].op # "join"
                       \/ req[q].pc = "reload" /\ req[q].op = "answer"
            Telling(q) == \/ req'[q].pc = "activate" /\ req'[q].op # "join"
                          \/ req'[q].pc = "reload" /\ req'[q].op = "answer"
<1>2. ASSUME NEW q \in Req, Told(q)
      PROVE  Telling(q)
  <2>1. CASE q # r
    BY <1>2, <2>1, ResponsesMove
  <2>2. CASE q = r
    <3>1. req[r].pc # "activate"
      BY <1>2, <2>2, StepAt DEF Rings, Activate, Startable
    <3>2. Reload(r) /\ req[r].op = "answer"
      BY <1>2, <2>2, <3>1, StepAt DEF Rings
    <3> QED BY <1>1, <2>2, <3>2, ReadFields DEF Rings, Leaves
  <2> QED BY <2>1, <2>2
<1>3. CASE \A u \in User : part[u].response # "accepted"
  BY <1>3, ResponsesMove DEF RingsForAnswer
<1> QED BY <1>2, <1>3 DEF RingsForAnswer, Rings

LEMMA TargetsLeft ==
  ASSUME Inv, Recorded, ReadsCurrent, RingsForTargets, NEW r \in Req, Rings(r)
  PROVE  RingsForTargets'
<1>1. req \in [Req -> Request] /\ part \in [User -> Participant]
  BY DEF Inv, TypeOK
<1>. DEFINE Ends(q) == \/ req[q].pc = "reload" /\ req[q].op = "decline"
                       \/ req[q].pc = "targets"
                       \/ /\ req[q].pc \in {"endRead", "end"}
                          /\ req[q].from = {"ringing"} /\ req[q].reason = "declined"
            EndsOn(q) == \/ req'[q].pc = "reload" /\ req'[q].op = "decline"
                         \/ req'[q].pc = "targets"
                         \/ /\ req'[q].pc \in {"endRead", "end"}
                            /\ req'[q].from = {"ringing"} /\ req'[q].reason = "declined"
<1>2. ASSUME NEW q \in Req, Ends(q),
             \A u \in User : part[u].response \notin {"pending", "accepted"}
      PROVE  EndsOn(q)
  <2>1. CASE q # r
    BY <1>2, <2>1, ResponsesMove
  <2>2. CASE q = r /\ req[r].pc = "reload"
    <3>1. Reload(r) /\ req[r].op = "decline"
      BY <1>2, <2>2, StepAt DEF Rings
    <3> QED BY <1>1, <2>2, <3>1, ReadFields DEF Rings, Leaves
  <2>3. CASE q = r /\ req[r].pc = "targets"
    <3>1. ReadTargets(r)
      BY <2>3, StepAt DEF Rings
    <3>2. AllDeclined
      BY <1>1, <1>2 DEF AllDeclined, Participant
    <3>3. EndFrom(r, {"ringing"}, "declined")
      BY <3>1, <3>2 DEF ReadTargets
    <3> QED BY <1>1, <2>3, <3>3, Fields
  <2>4. CASE q = r /\ req[r].pc = "endRead"
    <3>1. EndRead(r) /\ req[r].from = {"ringing"} /\ req[r].reason = "declined"
      BY <1>2, <2>4, StepAt DEF Rings
    <3>2. Goto(r, "end")
      BY <3>1 DEF EndRead, Rings
    <3> QED BY <1>1, <2>4, <3>1, <3>2, Fields DEF Same
  <2>5. CASE q = r /\ req[r].pc = "end"
    BY <1>2, <2>5, StepAt DEF Rings, End, MayEnd
  <2> QED BY <1>2, <2>1, <2>2, <2>3, <2>4, <2>5
<1>3. ASSUME NEW u \in User, part[u].response \in {"pending", "accepted"}
      PROVE  RingsForTargets'
  BY <1>3, ResponsesMove DEF RingsForTargets
<1> QED BY <1>2, <1>3 DEF RingsForTargets, Rings

\* The ring invariants over every step.
LEMMA RingKept ==
  ASSUME Inv, Fresh, Recorded, ReadsCurrent, RingsForAnswer, RingsForTargets, Next
  PROVE  RingsForAnswer' /\ RingsForTargets'
<1>1. CASE state' # "ringing"
  BY <1>1 DEF RingsForAnswer, RingsForTargets
<1>2. CASE state' = "ringing" /\ state = "absent"
  BY <1>2, Created, NewRing DEF RingsForAnswer, RingsForTargets
<1>3. CASE state' = "ringing" /\ state # "absent"
  <2>1. state = "ringing"
    BY <1>3, WaitsFromTheStart
  <2>2. \E r \in Req : Rings(r)
    BY <1>3, <2>1, RequestSteps DEF Rings, EndElsewhere, CreateCall
  <2> QED BY <2>2, AnswersKept, TargetsLeft
<1> QED BY <1>1, <1>2, <1>3

\* A call somebody emptied has nobody in it.
Emptied == emptied # "none" => ActiveUsers = {}

\* A ring or scheduled call emptied by a departure or a kick is over, or some
\* request is about to end it, whatever state it is in by then.
Ending(q) ==
  \/ q.pc = "reload" /\ Leaves(q)
  \/ q.pc = "leavers"
  \/ q.pc \in {"endRead", "end"} /\ q.reason = "cancelled"
  \/ q.pc \in {"endRead", "end"} /\ q.from = {"pending", "active"}

EndsDeserted ==
  kind # "room" /\ emptied \in {"leave", "kick"} =>
    state = "ended" \/ \E r \in Req : Ending(req[r])

LEMMA EmptiedKept ==
  ASSUME Inv, Fresh, Recorded, Emptied, Next
  PROVE  Emptied'
<1>1. part \in [User -> Participant] /\ TypeOK /\ CountExact /\ RequestsOK
  BY DEF Inv, TypeOK
<1>2. CASE UNCHANGED <<part, emptied>>
  BY <1>2 DEF Emptied, ActiveUsers
<1>3. ASSUME NEW k \in Kinds, NEW l \in Lobbies, CreateCall(k, l)
      PROVE  Emptied'
  BY <1>3 DEF CreateCall, Fresh, Emptied
<1>4. ASSUME NEW r \in Req, Insert(r) \/ Write(r)
      PROVE  Emptied'
  <2>1. ASSUME NEW u \in User, NEW p \in Participant, NEW op, StorePart(u, p, op)
        PROVE  Emptied'
    <3>1. ActiveUsers' = ActiveAfter(u, p)
      BY <1>1, <2>1, StoreCounts
    <3>2. emptied' # "none" => ActiveAfter(u, p) = {}
      BY <2>1 DEF StorePart
    <3> QED BY <3>1, <3>2 DEF Emptied
  <2> QED BY <1>2, <1>4, <2>1, WriteParts DEF partVars
<1>5. ASSUME NEW r \in Req, Promote(r)
      PROVE  Emptied'
  <2>. DEFINE u == req[r].of
              p == [part[u] EXCEPT !.role = "moderator"]
  <2>1. u \in User
    BY <1>1, <1>5 DEF Promote, RequestsOK, Sound, LocalOK
  <2>2. IsActive(p) <=> IsActive(part[u])
    BY <1>1, <2>1 DEF IsActive, Participant
  <2>3. part' = [part EXCEPT ![u] = p] /\ emptied' = emptied
    BY <1>1, <1>5, <2>1 DEF Promote
  <2> HIDE DEF p
  <2>4. \A x \in User : IsActive(part'[x]) <=> IsActive(part[x])
    BY <1>1, <2>1, <2>2, <2>3
  <2>5. ActiveUsers' = ActiveUsers
    BY <2>4 DEF ActiveUsers, IsActive
  <2> QED BY <2>3, <2>5 DEF Emptied
<1> QED BY <1>2, <1>3, <1>4, <1>5, Steps DEF EndElsewhere, partVars

\* The request about to end the call goes on to do so.
LEMMA EndingGoesOn ==
  ASSUME Inv, Fresh, Recorded, ReadsCurrent, Emptied,
         kind # "room", emptied # "none", state # "ended",
         NEW r \in Req, Step(r), Ending(req[r])
  PROVE  state' = "ended" \/ Ending(req'[r])
<1>1. /\ req \in [Req -> Request] /\ Reads(req[r], state) /\ ActiveUsers = {}
      /\ state \in States
  BY DEF Inv, TypeOK, ReadsCurrent, Emptied
<1>2. state \in OpenStates
  <2>1. req[r].pc # "idle"
    BY DEF Ending
  <2> QED BY <1>1, <2>1 DEF Fresh, States
<1>3. CASE req[r].pc = "reload"
  <2>1. Reload(r) /\ Leaves(req[r])
    BY <1>3, StepAt DEF Ending
  <2>2. req'[r].pc = "leavers"
    BY <1>1, <2>1, ReadFields DEF Leaves
  <2> QED BY <2>2 DEF Ending
<1>4. CASE req[r].pc = "leavers"
  <2>1. ReadLeavers(r)
    BY <1>4, StepAt
  <2>2. \/ EndFrom(r, {"ringing"}, "cancelled")
        \/ EndFrom(r, {"pending", "active"}, "completed")
    BY <1>1, <2>1, ReadFields
  <2> QED BY <1>1, <2>2, Fields DEF Ending
<1>5. ASSUME EndRefused(r), req[r].pc \in {"endRead", "end"}, state \notin req[r].from
      PROVE  Ending(req'[r])
  <2>1. req[r].reason = "cancelled"
    BY <1>1, <1>2, <1>5 DEF Ending, Reads, OpenStates
  <2>2. EndFrom(r, {"pending", "active"}, "completed")
    BY <1>5, <2>1 DEF EndRefused
  <2> QED BY <1>1, <2>2, Fields DEF Ending
<1>6. CASE req[r].pc = "endRead"
  <2>1. EndRead(r)
    BY <1>6, StepAt
  <2>2. CASE Goto(r, "end")
    BY <1>1, <1>6, <2>2, Fields DEF Ending, Same
  <2> QED BY <1>5, <1>6, <2>1, <2>2 DEF EndRead
<1>7. CASE req[r].pc = "end"
  <2>1. End(r)
    BY <1>7, StepAt
  <2> QED BY <1>5, <1>7, <2>1 DEF End, MayEnd
<1> QED BY <1>3, <1>4, <1>6, <1>7 DEF Ending

LEMMA DesertedKept ==
  ASSUME Inv, Fresh, Recorded, ReadsCurrent, Emptied, EndsDeserted, Next
  PROVE  EndsDeserted'
<1>1. req \in [Req -> Request]
  BY DEF Inv, TypeOK
<1>2. ASSUME NEW k \in Kinds, NEW l \in Lobbies, CreateCall(k, l)
      PROVE  EndsDeserted'
  BY <1>2 DEF CreateCall, Fresh, EndsDeserted
<1>3. CASE EndElsewhere
  BY <1>3 DEF EndElsewhere, EndsDeserted
<1>4. ASSUME NEW r \in Req,
             \/ Step(r)
             \/ \E u \in User : BeginJoin(r, u)
             \/ \E by \in User, u \in User, op \in PatchOps : Begin(r, by, u, op)
      PROVE  EndsDeserted'
  <2>1. /\ \A q \in Req \ {r} : req'[q] = req[q]
        /\ kind' = kind /\ (state = "ended" => state' = "ended")
    BY <1>4, TargetsKept, StepAt DEF callVars, Step, Insert, ReadCall, Check, ReadHeirs,
       Write, Reload, Activate, Startable, ReadTargets, ReadLeavers, Promote, EndRead, End
  <2>2. CASE emptied' = emptied
    <3>1. ASSUME kind # "room", emptied \in {"leave", "kick"}, state # "ended",
                 NEW q \in Req, Ending(req[q])
          PROVE  state' = "ended" \/ \E x \in Req : Ending(req'[x])
      <4>1. CASE q # r
        BY <2>1, <3>1, <4>1
      <4>2. CASE q = r
        <5>1. Step(r)
          BY <1>4, <3>1, <4>2 DEF BeginJoin, Begin, Free, Ending
        <5> QED BY <3>1, <4>2, <5>1, EndingGoesOn
      <4> QED BY <4>1, <4>2
    <3> QED BY <2>1, <2>2, <3>1 DEF EndsDeserted
  <2>3. CASE emptied' # emptied
    <3>1. Insert(r) \/ Write(r)
      BY <1>4, <2>3 DEF Step, ReadCall, Check, ReadHeirs, Reload, Activate,
         ReadTargets, ReadLeavers, Promote, EndRead, End, BeginJoin, Begin, partVars
    <3>2. CASE Write(r) /\ Leaves(req[r])
      <4>1. Goto(r, "reload")
        BY <2>3, <3>2 DEF Write, partVars
      <4>2. req'[r].pc = "reload" /\ Leaves(req'[r])
        BY <1>1, <3>2, <4>1, Fields DEF Same, Leaves
      <4> QED BY <4>2 DEF EndsDeserted, Ending
    <3>3. CASE Insert(r) \/ ~Leaves(req[r])
      <4>1. emptied' \notin {"leave", "kick"}
        BY <2>3, <3>1, <3>3, WriteParts DEF StorePart, partVars, Leaves, Insert, Write
      <4> QED BY <4>1 DEF EndsDeserted
    <3> QED BY <3>1, <3>2, <3>3
  <2> QED BY <2>2, <2>3
<1> QED BY <1>2, <1>3, <1>4, RequestSteps

\* Together with the types, inductive.
Ahead ==
  /\ Fresh /\ Recorded /\ ReadsCurrent
  /\ WaitsForJoin /\ RingsForAnswer /\ RingsForTargets
  /\ Emptied /\ EndsDeserted

LEMMA InitAhead == Init => Ahead
BY DEF Init, Ahead, Fresh, Recorded, ReadsCurrent, Reads, WaitsForJoin, RingsForAnswer,
   RingsForTargets, Emptied, EndsDeserted, Idle, Absent, PatchPcs

LEMMA NextAhead == Inv /\ Ahead /\ [Next]_vars => Ahead'
<1> SUFFICES ASSUME Inv, Ahead, [Next]_vars PROVE Ahead'
  OBVIOUS
<1>1. CASE Next
  <2>1. Fresh'
    BY <1>1, Created DEF Ahead, Fresh
  <2> QED BY <1>1, <2>1, RecordsKept, ReadsKept, WaitsKept, RingKept, EmptiedKept, DesertedKept
          DEF Ahead
<1>2. CASE UNCHANGED vars
  BY <1>2 DEF vars, Ahead, Fresh, Recorded, ReadsCurrent, WaitsForJoin, RingsForAnswer,
     RingsForTargets, Emptied, EndsDeserted, ActiveUsers
<1> QED BY <1>1, <1>2

LEMMA Aheadness == Spec => []Ahead
BY InitAhead, NextAhead, Invariance, PTL DEF Spec

\* When all requests are answered, a call that still waits to start has nobody
\* in it, and a ring nobody has answered it: the join, answer or rejoin that
\* starts a call is not lost among the others' writes.
THEOREM Started == Spec => []StartedWhenJoined
<1>1. Ahead => StartedWhenJoined
  BY DEF Ahead, WaitsForJoin, RingsForAnswer, StartedWhenJoined, AtRest, ActiveUsers,
     IsActive, Absent
<1> QED BY <1>1, Aheadness, PTL

\* A ring all of whose targets have declined does not ring on, in whatever
\* order their declines are read and written.
THEOREM Declined == Spec => []AllDeclinedEnds
<1>1. Ahead => AllDeclinedEnds
  BY DEF Ahead, RingsForTargets, AllDeclinedEnds, AtRest
<1> QED BY <1>1, Aheadness, PTL

\* after_leave ends the ring or scheduled call that its last participant left
\* or was kicked from, also when it is answered or joined while it reads.
THEOREM Deserted == Spec => []DesertedCallEnds
<1>1. Ahead => DesertedCallEnds
  BY DEF Ahead, EndsDeserted, Ending, DesertedCallEnds, EmptyCallEnds, AtRest
<1> QED BY <1>1, Aheadness, PTL
=============================================================================
