\* Two sessions on a healthy machine, menus left open, workers that may overlap.
CONSTANTS
  Session = {s1, s2}
  Requests <- FewRequests
  Serial = FALSE
  Faults = {}
SPECIFICATION FairSpec
PROPERTIES
  CompletedRunRepairs
  LoneRunSucceeds
  WorkerRestoresNetwork
