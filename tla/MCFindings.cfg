SPECIFICATION MCSpec
CONSTANTS
  event = event
  e1 = e1
  e2 = e2
  Rule = {event}
  Item = {e1, e2}
  System = {}
  Source <- MCSource
  Kind <- MCKind
  MinCount <- MCMinCount
  Ttl = 1
  Backlog = 1
  Window = 1
  Cooldown = 1
  Limit = 1
  StaleAfter = 1
  Late = 0
  Slow = 0
  MaxSeen = 0
  MaxChanges = 1
  MaxLost = 1
  MaxEvents = 3
  LastTime = 2
  MaxFailed = 1
  Contexts = {0, 1, 2}
  Near = 1
  Threshold = 2
  RuleWindow = 1
  Metric = {1, 2}
  Group = {1}
  MaxGroups = 1
  Day = 2
  Half = 2
  Retentions = {0, 5}
  MaxTime = 6
  MaxSourceChanges = 1
INVARIANTS OncePerItem NoMailTwice PairsLinked TrendDrained
PROPERTY TrendCovered
CHECK_DEADLOCK FALSE
