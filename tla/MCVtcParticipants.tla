-------------------------- MODULE MCVtcParticipants --------------------------
(* Model values, bounds and symmetry for the run of VtcParticipants.        *)
EXTENDS VtcParticipants, TLC

Symmetry == Permutations(Req) \cup Permutations(User \ {Initiator})

\* A ring is answered from any device, by at most three requests.
Ringing ==
  /\ kind = "ring" /\ ~lobby
  /\ Cardinality({r \in Req : req[r].pc # "idle"}) <= 3
  /\ \A r \in Req : req[r].op \in {"none", "answer", "decline", "leave", "kick", "rejoin"}

\* In another call a user has one request at a time.
Meeting ==
  /\ kind # "ring"
  /\ \A r, q \in Req : r # q /\ req[r].by = req[q].by
                         => req[r].pc \in {"idle", "done"} \/ req[q].pc \in {"idle", "done"}
  /\ \A r \in Req : req[r].op \notin {"answer", "decline"}

Bounded == Ringing \/ Meeting

BoundedNext ==
  \/ \E k \in Kinds, l \in Lobbies : CreateCall(k, l) /\ Bounded'
  \/ EndElsewhere
  \/ \E r \in Req, u \in User : BeginJoin(r, u) /\ Bounded'
  \/ \E r \in Req, u \in User, op \in OwnOps : Begin(r, u, u, op) /\ Bounded'
  \/ \E r \in Req, by, u \in User, op \in ModeratorOps :
       (op = "kick" => by # u) /\ Begin(r, by, u, op) /\ Bounded'
  \/ \E r \in Req : Step(r)

BoundedSpec == Init /\ [][BoundedNext]_vars
=============================================================================
