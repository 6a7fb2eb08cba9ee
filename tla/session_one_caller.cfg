\* One caller by the book: safety, liveness and the abstract life cycle.
SPECIFICATION FairSpec
CONSTANTS
  Clients = {c1}
  Main = main
  Listeners = {l1, l2}
  Debuggees = {d1, d2}
  Unattachable = {d2}
  MaxRounds = 2
  Faults = {"build_error", "listen_error"}
  Disciplined = TRUE
  None = None
INVARIANTS
  TypeOK
  NoZombie
  NoOrphan
  OneSession
  PollHonest
  ShutdownReleases
PROPERTIES
  RoundBeforeOk
  CallReturns
  Implements
