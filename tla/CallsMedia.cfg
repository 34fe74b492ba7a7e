CONSTANTS
  Call = {c1, c2}
  Recording = {m1, m2}
  Livestream = {s1}
  Req = {r1, r2, r3, r4}
  Kinds = {"room"}
  Ops = {"server", "record", "paused", "recording", "stopped"}
  NoCall = NoCall
  NoMedia = NoMedia
SPECIFICATION Spec
SYMMETRY Symmetry
INVARIANT NothingRunsOn
INVARIANT EveryChangeAnnounced
CHECK_DEADLOCK FALSE
