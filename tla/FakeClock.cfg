CONSTANTS
  Kilo = 4
  Micro = 3
  Deltas <- MCDeltas
  ClockIds <- RealTime
  Clks <- KernelClks
  MaxReal = 15
  StartAddress = 4096
  Objects <- MCObjects
SPECIFICATION FairSpec
INVARIANTS
  TypeOK
  ClockExact
  TimeOfDayNear
  TimeNear
  NeverBack
  DeltaInForce
  OwnImageFound
  OnlyVariablesReferred
PROPERTY
  CallReturns
