\* Two callers at once; builds crash, joins expire, detaches fail.
SPECIFICATION Spec
CONSTANTS
  Clients = {c1, c2}
  Main = main
  Listeners = {l1, l2}
  Debuggees = {d1}
  Unattachable = {}
  MaxRounds = 1
  Faults = {"build_crash", "join_expires", "detach_fails"}
  Disciplined = FALSE
  None = None
SYMMETRY Symmetric
INVARIANTS
  ChannelExclusive
  OneStart
PROPERTIES
  NoTakeover
