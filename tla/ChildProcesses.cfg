CONSTANTS
  Pid = {root, reaper, a, b}
  Root = root
  Reaper = reaper
  NoPid = NoPid
  Spaces = TRUE
  Digits = {root}
  MaxMoves = 3
  Quiet = FALSE
SPECIFICATION Spec
INVARIANTS
  TypeOK
  SteadyTreeFaked
  OnlyDescendants
PROPERTY
  CommandEnds
CHECK_DEADLOCK FALSE
