\* Graphs of six names with at most two dependencies each, one or three levels deep, cut off
\* after three names or not at all; a view, a behavior definition with two entities, a class.
SPECIFICATION Spec
CONSTANTS
  Root = r
  Others = {a, b, c, d, e}
  Types = {"DDLS", "BDEF", "CLAS"}
  Depths = {1, 3}
  Limits = {3, 5}
  MaxMentions = 2
  Unread = Unread
SYMMETRY Symmetric
INVARIANTS
  AddedOnce
  Complete
  NearestFirst
CHECK_DEADLOCK FALSE
