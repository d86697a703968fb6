SPECIFICATION MCSpec
CONSTANTS
  asset = asset
  offline = offline
  Rule = {asset, offline}
  Item = {u1}
  Kind <- MCAssets
  System = {s}
  Source <- MCSource
  MinCount <- MCMinCount
  Ttl = 1
  Backlog = 1
  Window = 2
  Cooldown = 1
  Limit = 1
  StaleAfter = 0
  Late = 0
  Slow = 0
  MaxSeen = 1
  MaxChanges = 1
  MaxLost = 0
  a = a
  b = b
  c = c
  LastDay = 5
  MonthLength = 2
  TrendWindow = 2
  Retention = 2
  MaxEvents = 3
  MaxAborts = 1
  Id = {a, b, c}
  Releases <- MCReleases
  Published <- MCPublished
  PluginIds = {c}
  MaxPublish = 2
  MaxFailures = 1
  MaxRestarts = 2
  NoRuleset = NoRuleset
  MayUntag = FALSE
INVARIANTS
  RemoteRowsVerified
  CountsConserved
PROPERTIES
  OfflineStillOffline
  Settles
  CompletedMonthCompacted
  RulesConverge
CHECK_DEADLOCK FALSE
