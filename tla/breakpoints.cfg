\* Overlapping set, delete and clear; each of them, and the shutdown's deletes, may
\* fail, answers get lost, the process dies.
SPECIFICATION Spec
CONSTANTS
  Clients = {c1, c2}
  Main = main
  Ids = {b1, b2, b3}
  Faults = {"set_refused", "set_lost", "delete_refused", "delete_lost",
            "clear_refused", "close_refused", "no_control", "crash"}
  ClearWorks = FALSE
  None = None
INVARIANTS
  TypeOK
  Accounted
  ShutdownDeletes
