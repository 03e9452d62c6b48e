\* Is the user notified of every upgrade on composefs?
CONSTANTS
  i1 = i1
  i2 = i2
  i3 = i3
  Image = {i1, i2, i3}
  First = i1
  Proven = {i1, i2, i3}
  Update <- TheUpdate
  Machines <- ComposefsMachine
  StampsRead = FALSE
  MaxMoves = 1
SPECIFICATION Spec
PROPERTIES
  NotifiesUnconditionally
