\* Are the recommendations of all that was reported printed?
CONSTANTS
  userns = userns
  modprobe = modprobe
  ptrace = ptrace
  flatpak = flatpak
  Check = {userns, modprobe, ptrace, flatpak}
  Category <- TheCategory
  Deps <- TheDeps
  Categories <- TheCategories
  Key <- TheKey
  Reads <- TheReads
  Writes <- TheWrites
  Skips <- TheSkips
  Expectations <- TheExpectations
  Root = "skip-if-root"
  Statuses = {"fail"}
  MaxReports = 2
SPECIFICATION Spec
INVARIANT AdviceIsShown
\* The program ends.
CHECK_DEADLOCK FALSE
