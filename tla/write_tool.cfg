\* Creating and updating while sessions expire, rotate, are renewed beside the call.
SPECIFICATION FairSpec
CONSTANTS
  Sessions = {s1, s2, s3, s4}
  NoSession = NoSession
  Faults = {"expiry", "rotation", "login_fails", "refused", "lost", "workers"}
  None = None
INVARIANTS
  TypeOK
  OkMeansActive
  FailureTold
  LockCarried
  LockGivenBack
PROPERTIES
  CallEnds
