\* Several reports of a check, text and JSON, with checks that raise anywhere.
CONSTANTS
  userns = userns
  modprobe = modprobe
  ptrace = ptrace
  flatpak = flatpak
  Check = {userns, modprobe, ptrace, flatpak}
  Category <- TheCategory
  Deps <- TheDeps
  Categories <- TheCategories
  Key <- TheKey
  Reads <- TheReads
  Writes <- TheWrites
  Skips <- TheSkips
  Expectations <- TheExpectations
  Root = "skip-if-root"
  Statuses = {"fail"}
  MaxReports = 2
SPECIFICATION FairSpec
INVARIANTS
  TypeOK
  DependenciesFirst
  KeyErrorExplained
  AuditIsComplete
PROPERTIES
  Ends
\* The program ends.
CHECK_DEADLOCK FALSE
