\* Every mix of up to 7 lines, two sessions, a server that may die once
\* and may answer after close() stopped waiting.
CONSTANTS
  MaxLines = 7
  MaxSessions = 2
  ServerMayDie = TRUE
  ReplyInTime = FALSE

SPECIFICATION Spec
\* main() returns after EOF of stdin (or a missing socket): the client
\* stops by design.
CHECK_DEADLOCK FALSE

INVARIANT TypeOK
INVARIANT FramesDeliveredOnce
