SPECIFICATION Spec
CONSTANTS
  a1 = a1
  a2 = a2
  i1 = i1
  i2 = i2
  ASN = {a1, a2}
  IP = {i1, i2}
  Decision <- MCDecision
  Foreign = Foreign
  None = None
  NoTx = NoTx
  Tick = Tick
  Refresher = {}
  Toggles = {"real"}
  MayFail = TRUE
  MayCrash = TRUE
INVARIANTS
  OwnedIsCached
  OneOwnerPerAddress
  ExceptedNotOwned
PROPERTIES
  KeepsLedger
  OnlyOwnedDeleted
  RemovalLeavesNothingOwned
CONSTRAINT OneInstance
