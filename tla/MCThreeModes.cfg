\* listen input (stream or batch output) and hotkey input with batch output;
\* whisper-cli may outlast join(timeout=5); one tray mode change.
CONSTANTS
  StartConfigs <- StartAllButHotkeyStream
  EndSignal = TRUE
  WhisperOutputs <- MCWhisperOutputs
  Words <- MCWords
  MaxWords = 2
  SegmentDurations <- MCSegmentDurations
  MaxSessions = 2
  MaxSegments = 3
  JoinMayTimeOut = TRUE
  MaxModeChanges = 1
  None = None

SPECIFICATION Spec
\* The app may wait forever for the next toggle or word of the user, and
\* the bounds on sessions and segments end every behaviour in such a state.
CHECK_DEADLOCK FALSE

INVARIANT TypeOK
PROPERTY ProcessingEnds
