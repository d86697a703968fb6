SPECIFICATION MCSpec
CONSTANTS
  MaxLines = 3
  Acts = {1}
  Batch = 2
  Chunk = 1
  Backlog = 1
  Kept = 1
  MaxFaults = 2
  app = app
  guest = guest
  h1 = h1
  h2 = h2
  none = none
  loop = loop
  button = button
  e1 = e1
  e2 = e2
  JsonApps = {app}
  GuestApps = {guest}
  Hosts = {h1, h2}
  NoHost = none
  Runners = {loop, button}
  Editors = {e1, e2}
  MaxId = 2
  MaxEvents = 1
SYMMETRY Alike
INVARIANTS IngestedOnce OneBanOneEvent EditedLinksMatch
CHECK_DEADLOCK FALSE
