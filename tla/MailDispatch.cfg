CONSTANTS
  Request = {1, 2}
  k = k
  m = m
  a = a
  b = b
  d = d
  inbox = inbox
  Cid = {k, m}
  Role = {inbox}
  Name = {a, b, d}
  Email = {e}
  Call <- Calls
  Batch <- Batches
  Sent <- SentIds
  Panicking = {1}
  MaxBox = 6
  Seed <- Seeds
  NoRole = NoRole
  NoState = NoState
  Same = Same
SPECIFICATION Spec
INVARIANT TypeOK
INVARIANT RoleOnce
INVARIANT EmailHome
INVARIANT OnceEach
PROPERTY NoChildLeft
PROPERTY RefsResolve
PROPERTY CallsSettle
CHECK_DEADLOCK FALSE
