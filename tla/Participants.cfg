CONSTANTS
  User = {a, b, c}
  Initiator = a
  Req = {r1, r2, r3, r4}
  Kinds = {"ring", "scheduled", "room"}
  Lobbies = {TRUE, FALSE}
  Ops = {"join", "answer", "decline", "leave", "rejoin", "admit", "reject", "kick", "unkick", "grant", "revoke"}
  MaxActive = 2
  ManyDevices = TRUE
  NoUser = NoUser
SPECIFICATION BoundedSpec
SYMMETRY Symmetry
INVARIANT TypeOK
INVARIANT AllDeclinedEnds
INVARIANT DesertedCallEnds
INVARIANT CountExact
INVARIANT StartedWhenJoined
PROPERTY ImplementsLifecycle
PROPERTY QuotaHolds
CHECK_DEADLOCK FALSE
