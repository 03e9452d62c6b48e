\* What the timer brings about on machines without faults.
CONSTANTS
  i1 = i1
  i2 = i2
  i3 = i3
  Image = {i1, i2, i3}
  First = i1
  Proven = {i1, i2, i3}
  Update <- TheUpdate
  Machines <- SoundMachines
  StampsRead = TRUE
  MaxMoves = 2
SPECIFICATION FairSpec
PROPERTIES
  UpdateArrives
  StatusFileCatchesUp
  UrgentIsAnnounced
