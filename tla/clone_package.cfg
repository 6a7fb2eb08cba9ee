\* Two calls, on another system or the same, with requests that fail, answers that get lost, a crash.
SPECIFICATION Spec
CONSTANTS
  Source <- Package
  MaxSuffix = 2
  Namespaced = {"/ns/service"}
  MaxRuns = 2
  None = None
INVARIANTS
  OkIsFaithful
  HalfIsInactive
PROPERTY OthersUntouched
CHECK_DEADLOCK FALSE
