---------------------------- MODULE VtcLifecycle ----------------------------
(***************************************************************************)
(* What the VTC server promises about the state of a call, whatever        *)
(* requests, timers and devices interleave: VTCCall `state` only moves     *)
(* forward, "ended" is final, and the `endReason` stored with an end is    *)
(* one the draft gives for the state the call was in when it ended.        *)
(***************************************************************************)
CONSTANT Call

VARIABLES
  status,       \* status[c]: VTCCall state; "absent" before, "destroyed" after
  endReason     \* endReason[c]: "none" until the call ends

vars == <<status, endReason>>

Open == {"pending", "ringing", "active"}

\* The reasons of crate::call: end_reason_for, expire_ring, the declines and
\* departures of crate::participant, and a deployment's inactivity timeout.
ReasonFits(s) == CASE s = "active"  -> {"completed", "timeout"}
                   [] s = "ringing" -> {"cancelled", "missed", "declined"}
                   [] s = "pending" -> {"cancelled", "completed"}

Init ==
  /\ status = [c \in Call |-> "absent"]
  /\ endReason = [c \in Call |-> "none"]

Create(c) ==
  /\ status[c] = "absent"
  /\ \E s \in Open : status' = [status EXCEPT ![c] = s]
  /\ UNCHANGED endReason

Activate(c) ==
  /\ status[c] \in {"pending", "ringing"}
  /\ status' = [status EXCEPT ![c] = "active"]
  /\ UNCHANGED endReason

End(c) ==
  /\ status[c] \in Open
  /\ status' = [status EXCEPT ![c] = "ended"]
  /\ \E why \in ReasonFits(status[c]) : endReason' = [endReason EXCEPT ![c] = why]

Destroy(c) ==
  /\ status[c] \in Open \cup {"ended"}
  /\ status' = [status EXCEPT ![c] = "destroyed"]
  /\ UNCHANGED endReason

Next == \E c \in Call : Create(c) \/ Activate(c) \/ End(c) \/ Destroy(c)

Spec == Init /\ [][Next]_vars
=============================================================================
