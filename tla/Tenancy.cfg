SPECIFICATION Spec
CONSTANTS
  owner = owner  ann = ann  bob = bob  w1 = w1  w2 = w2
  User <- ThreeUsers
  Owner <- OneOwner
  Staff <- TwoPeople
  Web <- TwoTabs
  Timer = timer
  File = {"cv"}
  NoOne = NoOne
  MaxPolicy = 2
  MaxMishap = 1
CHECK_DEADLOCK FALSE
INVARIANTS TypeOK AdminRemains RecoveredIsWhole
PROPERTIES HoldBlocksPurge SuspensionEnds
