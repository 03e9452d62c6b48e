\* Two sessions with menus left open, workers one at a time, every fault.
CONSTANTS
  Session = {s1, s2}
  Requests <- AllRequests
  Serial = TRUE
  Faults = {"systemctl", "kill", "reboot"}
SYMMETRY SessionSymmetry
SPECIFICATION Spec
INVARIANTS
  TypeOK
  OneResolverEnabled
  OneResolverActive
  ScriptInv
  ResolvedHasNoPolicy
PROPERTIES
  CompletedRunRepairs
  ConfiguresOffline
  ImplementsSwitch
