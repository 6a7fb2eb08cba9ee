\* One call that loses the answer to the read of an include.
SPECIFICATION Spec
CONSTANTS
  Source <- Package
  MaxSuffix = 2
  Namespaced = {"/ns/service"}
  MaxRuns = 1
  None = None
INVARIANT ReadAborts
CHECK_DEADLOCK FALSE
