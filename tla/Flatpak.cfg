SPECIFICATION Spec
CONSTANTS
  Installed <- MCInstalled
  UserEdits <- MCUserEdits
  MaxEdits = 2
INVARIANTS
  TypeOK
  HardenSilences
  LockdownSuffices
  AdviceIsNotRepeated
  AdviceSuffices
PROPERTIES
  HardenKeepsOverrides
