SPECIFICATION FairSpec
CONSTANTS
  ASN = {a1, a2}
  IP = {i1}
  Banned = {a1}
  Decision <- MCDecision
  Foreign = Foreign
  None = None
  NoTx = NoTx
  Tick = Tick
  Refresher = {r1}
  Toggles = {"geoip"}
  MayFail = TRUE
  MayCrash = FALSE
PROPERTIES
  RemovalFinishes
  ReleaseResolves
