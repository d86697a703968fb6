SPECIFICATION Spec
CONSTANTS
  User = {a, b}
  a = a
  b = b
  Provider = {p, q}
  Subject = {s, t}
  s = s
  t = t
  NoOne = NoOne
  Overlaps = {"disable"}
  MaxChanges = 4
  MaxInflight = 1
SYMMETRY Symmetric
CHECK_DEADLOCK FALSE
INVARIANT OneMethodPersisted
