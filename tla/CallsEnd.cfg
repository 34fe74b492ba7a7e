CONSTANTS
  Call = {c1, c2, c3}
  Recording = {}
  Livestream = {}
  Req = {r1, r2}
  Kinds = {"ring", "scheduled"}
  Ops = {"update", "expire", "destroyCall"}
  NoCall = NoCall
  NoMedia = NoMedia
SPECIFICATION Spec
SYMMETRY Symmetry
INVARIANT TypeOK
INVARIANT BreakoutListExact
INVARIANT RingEndTruthful
INVARIANT TopRingsTold
PROPERTY ImplementsLifecycle
PROPERTY RoomsEndFirst
CHECK_DEADLOCK FALSE
