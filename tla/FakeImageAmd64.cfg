CONSTANTS
  Arch = "amd64"
  FuncSize = 5
  Addr <- MCAddr
  Base <- TwoBases
  Var <- MCVar
  Value <- MCValue
  FailPoints <- AllFailPoints
  MayExec = TRUE
SPECIFICATION Spec
INVARIANTS
  TypeOK
  FailedAttachUndone
  WritesStayInFunction
PROPERTY
  SwitchesAtOnce
