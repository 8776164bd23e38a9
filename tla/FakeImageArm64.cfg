CONSTANTS
  Arch = "arm64"
  FuncSize = 20
  Addr <- MCAddr
  Base <- OneBase
  Var <- MCVar
  Value <- MCValue
  FailPoints <- AllFailPoints
  MayExec = TRUE
SPECIFICATION Spec
INVARIANTS
  RunnableText
PROPERTY
  SwitchesAtOnce
