\* Every program in turn, two terminals, calls that fail, kills, reboots.
CONSTANTS
  t1 = t1
  t2 = t2
  Session <- MCSession
  Program <- Programs
SPECIFICATION Spec
SYMMETRY Terminals
INVARIANTS TypeOK SameWishAgrees AlreadyIsSet AlwaysRepairable AdviceWorks NeverHarmed
PROPERTY CompletedRunSets
