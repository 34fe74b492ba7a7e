CONSTANTS
  Call = {c1, c2}
  Recording = {m1}
  Livestream = {s1}
  Req = {r1, r2}
  Kinds = {"ring", "scheduled"}
  Ops = {"update", "expire", "record", "drop"}
  NoCall = NoCall
  NoMedia = NoMedia
SPECIFICATION FairSpec
PROPERTY AllAnswered
CHECK_DEADLOCK FALSE
