CONSTANTS
  Microsecond = 1
  Millisecond = 2
  Second = 4
  Minute = 8
  Hour = 16
  Width = 24
  MaxNow = 13
  Args <- Nanoseconds
  Calls <- DateCalls
SPECIFICATION Spec
INVARIANT
  AbsoluteTimeShown
CHECK_DEADLOCK FALSE
