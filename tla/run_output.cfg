\* One run_class at a time, polls and detaches whenever they like.
SPECIFICATION FairSpec
CONSTANTS
  Runners = {r1}
  Pollers = {p1, p2}
  Runs = {run1, run2, run3}
  None = None
INVARIANTS
  TypeOK
  DeliveredOnce
  OwnOutput
  NotLost
PROPERTIES
  RunClassReturns
