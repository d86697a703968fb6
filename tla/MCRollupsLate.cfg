SPECIFICATION RollupsSpec
CONSTANTS
  LastDay = 5
  MonthLength = 2
  TrendWindow = 2
  Retention = 2
  MaxEvents = 3
  MaxAborts = 0
INVARIANT CountsExact
