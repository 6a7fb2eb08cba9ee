\* The session expires between the creation of an object and the write of its source.
SPECIFICATION Spec
CONSTANTS
  Sessions = {s1, s2, s3, s4}
  NoSession = NoSession
  Faults = {"expiry"}
  None = None
INVARIANT
  RetryIsSafe
