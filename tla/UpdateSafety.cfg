\* Every backend, calls that fail and power cuts; the third image cannot be verified.
CONSTANTS
  i1 = i1
  i2 = i2
  i3 = i3
  Image = {i1, i2, i3}
  First = i1
  Proven = {i1, i2}
  Update <- TheUpdate
  Machines <- FaultyMachines
  StampsRead = FALSE
  MaxMoves = 2
SPECIFICATION FairSpec
INVARIANTS
  TypeOK
  StatusFileTrue
PROPERTIES
  OnlyVerifiersStage
  NoRebootLoop
  LoginReached
