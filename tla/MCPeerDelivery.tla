--------------------------- MODULE MCPeerDelivery ---------------------------
(* PeerDelivery for two users with one message each.  They and the network  *)
(* do all they can do, but not all of it in one behaviour: either A alone   *)
(* writes, and the edits and retractions come without overlapping calls;    *)
(* or both write, and B neither blocks nor removes.                         *)
EXTENDS PeerDelivery

OneWriter == \A m \in Msg : fate[B][m]["message"] = "none"
NoFollowUp == \A m \in Msg, k \in Kind \ {"message"} : fate[A][m][k] = "none"
NoneOverlapped == \A s \in Side : ~overlapped[s]
OneTask == \A s \in Side : calls[s][2] = Idle
NothingKept ==
  \A s \in Side :
    /\ ~blocked[s] /\ dropped[s] = {}
    /\ \A t \in Task : calls[s][t] = Idle \/ ~calls[s][t].blocked
    /\ \A i \in DOMAIN inbox[s] : inbox[s][i].mark # "removed"

Bounded ==
  \/ OneWriter /\ NoFollowUp
  \/ OneWriter /\ NoneOverlapped /\ OneTask
  \/ NoFollowUp /\ NothingKept /\ OneTask

\* The steps that leave the bounds are left out.  Fairness is as it was: a call
\* that cannot begin while another is in work can begin when that has ended.
BoundedNext ==
  \E s \in Side :
    \/ Open(s) /\ Bounded'
    \/ \E m \in Msg : Compose(s, m) /\ Bounded'
    \/ \E m \in Msg, k \in Kind : FollowUp(s, m, k) /\ Bounded'
    \/ \E m \in Msg, k \in Kind : Send(s, m, k)
    \/ Block(s) /\ Bounded'
    \/ Unblock(s)
    \/ \E i \in DOMAIN inbox[s] : Remove(s, i) /\ Bounded'
    \/ \E r \in answers : Hear(s, r)
    \/ \E t \in Task, q \in net, sound \in BOOLEAN : Begin(s, t, q, sound) /\ Bounded'
    \/ \E t \in Task : Handle(s, t) \/ Fail(s, t)

BoundedSpec == Init /\ [][BoundedNext]_vars /\ Fairness
=============================================================================
