\* Two run_class calls, one of them started while the other waits for its thread.
SPECIFICATION FairSpec
CONSTANTS
  Runners = {r1, r2}
  Pollers = {p1, p2}
  Runs = {run1, run2, run3}
  None = None
INVARIANT
  OwnOutput
