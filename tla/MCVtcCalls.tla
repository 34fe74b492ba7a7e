----------------------------- MODULE MCVtcCalls -----------------------------
(* Model values and symmetry for the runs of VtcCalls.                      *)
EXTENDS VtcCalls, TLC

Symmetry == Permutations(Call) \cup Permutations(Req)
              \cup Permutations(Recording) \cup Permutations(Livestream)
=============================================================================
