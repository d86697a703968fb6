SPECIFICATION MCSpec
CONSTANTS
  Rule = {1, 2}
  Ban = {1, 2}
  MaxBanAnchors = 1
  MaxChainRules = 1
  RecheckMinutes = 1
  MaxTime = 3
  MaxChanges = 1
  MaxTurns = 3
  MaxErrors = 2
  scheduled = scheduled
  button = button
INVARIANTS BansJudgedWhenSettled FailureReported
PROPERTIES UpdatesSettle InsightsDelivered
CHECK_DEADLOCK FALSE
