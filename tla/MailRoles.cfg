CONSTANTS
  Request = {1}
  k = k
  m = m
  a = a
  b = b
  d = d
  inbox = inbox
  Cid = {k, m}
  Role = {inbox}
  Name = {a, b, d}
  Email = {}
  Call <- Calls
  Batch <- Batches
  Sent <- SentIds
  Panicking = {}
  MaxBox = 5
  Seed <- Seeds
  NoRole = NoRole
  NoState = NoState
  Same = Same
SPECIFICATION Spec
INVARIANT RoleUnique
CHECK_DEADLOCK FALSE
