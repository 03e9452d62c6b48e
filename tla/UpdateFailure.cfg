\* Does the boot splash show that an upgrade failed?
CONSTANTS
  i1 = i1
  i2 = i2
  i3 = i3
  Image = {i1, i2, i3}
  First = i1
  Proven = {i1, i2, i3}
  Update <- TheUpdate
  Machines <- FaultyMachines
  StampsRead = FALSE
  MaxMoves = 1
SPECIFICATION Spec
PROPERTIES
  FailureIsShown
