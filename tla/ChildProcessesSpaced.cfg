CONSTANTS
  Pid = {root, reaper, a, b, c}
  Root = root
  Reaper = reaper
  NoPid = NoPid
  Spaces = TRUE
  Digits = {}
  MaxMoves = 2
  Quiet = TRUE
SPECIFICATION Spec
INVARIANT
  AllGenerations
CHECK_DEADLOCK FALSE
