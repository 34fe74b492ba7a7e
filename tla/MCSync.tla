------------------------------ MODULE MCSync ------------------------------
(* Sync with small integers for ids: new ids are random, so a new object may *)
(* sort before or after any other.                                           *)
EXTENDS Sync

\* What a client does not see is not changed: a viewer gets no counts, and two
\* ranks are enough for a follower, which sorts nothing.
Bounded ==
    /\ role = "viewer" => \A o \in Live : objects[o].tally = 0
    /\ role = "follower" => \A o \in Live : objects[o].rank < 2

BoundedNext ==
    \/ (Write \/ Unlogged) /\ UNCHANGED clientVars /\ Bounded'
    \/ Follow
    \/ View

\* Only the follower has to get on: Converges is about it.
BoundedSpec == Init /\ [][BoundedNext]_vars /\ WF_vars(Follow)
=============================================================================
