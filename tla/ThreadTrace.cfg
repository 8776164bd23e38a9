CONSTANTS
  Tid = {lead, w1, w2, w3}
  Leader = lead
  LeaderMayExit = TRUE
SPECIFICATION FairSpec
INVARIANTS
  TypeOK
  StopTheWorld
  NoThreadLeftBehind
PROPERTY
  HangsOnlyOnDeadLeader
CHECK_DEADLOCK FALSE
