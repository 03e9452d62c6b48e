\* A menu opened under Unbound, used after a switch to systemd-resolved.
CONSTANTS
  Session = {s1, s2}
  Requests <- FewRequests
  Serial = TRUE
  Faults = {}
SPECIFICATION FairSpec
PROPERTIES
  ConnectionIsReset
