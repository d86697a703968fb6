SPECIFICATION Spec
CONSTANTS
  User = {a, b}
  a = a
  b = b
  Provider = {p, q}
  Subject = {s, t}
  s = s
  t = t
  NoOne = NoOne
  Overlaps = {}
  MaxChanges = 6
  MaxInflight = 1
SYMMETRY Symmetric
CHECK_DEADLOCK FALSE
INVARIANTS
  LastAdminStays
  OneMethodPersisted
  OidcSessionsLinked
PROPERTIES
  ReachableKept
  ProviderLocked
