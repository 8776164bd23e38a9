CONSTANTS
  Microsecond = 1
  Millisecond = 2
  Second = 4
  Minute = 8
  Hour = 16
  Width = 24
  MaxNow = 13
  Args <- WholeSeconds
  Calls <- DateCalls
SPECIFICATION Spec
INVARIANTS
  TypeOK
  TextRead
  AbsoluteTimeShown
  OffsetExact
  
  AmbiguityFlagged
PROPERTY
  ParseEnds
CHECK_DEADLOCK FALSE
