\* A server that never dies and always answers within close()'s 2 s.
CONSTANTS
  MaxLines = 6
  MaxSessions = 2
  ServerMayDie = FALSE
  ReplyInTime = TRUE

SPECIFICATION Spec
\* main() returns after EOF of stdin: the client stops by design.
CHECK_DEADLOCK FALSE

INVARIANT FinalPrintedBeforeNextSession
