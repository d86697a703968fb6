SPECIFICATION MCSpec
CONSTANTS
  MaxLines = 5
  Acts = {1}
  Batch = 2
  Chunk = 1
  Backlog = 3
  Kept = 1
  MaxFaults = 1
  c1 = c1
  c2 = c2
INVARIANT CountedOnce
CHECK_DEADLOCK FALSE
