SPECIFICATION MCSpec
CONSTANTS
  s1 = s1
  a = a
  i1 = i1
  i2 = i2
  owner = owner
  other = other
  neighbour = neighbour
  h1 = h1
  h2 = h2
  none = none
  User = {owner, other}
  Subject = {s1}
  Url = {a}
  Issuer = {i1, i2}
  None = none
  HostOf <- OneHost
  Blocked = {}
  Answers <- AnswersOf
  MaxFlows = 2
  MaxRequests = 2
  MaxChanges = 2
  Hostname = {h1, h2}
  NoName = none
  MaxReconfigured = 3
  Count = 3
  Secrets = {3}
  MaxConditions = 2
  Name = {i1, i2, s1}
  IP = {h1, h2}
  Admin = {owner, other}
  Route = {"form", "api"}
  Needed = 3
  MaxChange = 2
  Nothing = none
INVARIANTS BoundariesAgree HiddenNeverWritten
PROPERTIES ChangeWitnessed FlowsEndAsTheyBegan RightPasswordGetsIn
CHECK_DEADLOCK FALSE
