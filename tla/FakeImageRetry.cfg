CONSTANTS
  Arch = "amd64"
  FuncSize = 12
  Addr <- MCAddr
  Base <- OneBase
  Var <- MCVar
  Value <- MCValue
  FailPoints <- LookupFails
  MayExec = FALSE
SPECIFICATION Spec
INVARIANTS
  AttachMeansFaked
