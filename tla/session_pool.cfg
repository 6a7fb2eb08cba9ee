\* Overlapping first calls, failing and useless logins, lost probes, expired sessions.
SPECIFICATION Spec
CONSTANTS
  Threads = {t1, t2}
  Admins = {a1}
  Channels = {"debug", "control"}
  Sessions = {s1, s2, s3, s4, s5}
  NoSession = NoSession
  Faults = {"login_fails", "probe_lost", "useless_login", "expiry"}
  None = None
SYMMETRY Symmetric
INVARIANTS
  TypeOK
  OneClient
  Isolated
  LocksOrdered
  UserKnown
