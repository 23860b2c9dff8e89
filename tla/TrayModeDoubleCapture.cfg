\* hotkey input, batch output with the end chime; one mode change in the
\* tray. _force_idle in PROCESSING sets IDLE while _transcribe_and_inject
\* still runs; its finally clause later sets IDLE over the next session.
CONSTANTS
  StartConfigs <- StartHotkeyBatch
  EndSignal = TRUE
  WhisperOutputs <- MCWhisperOutputs
  Words <- MCWords
  MaxWords = 2
  SegmentDurations <- MCSegmentDurations
  MaxSessions = 3
  MaxSegments = 2
  JoinMayTimeOut = FALSE
  MaxModeChanges = 1
  None = None

SPECIFICATION Spec
\* The app may wait forever for the next toggle or word of the user, and
\* the bounds on sessions and segments end every behaviour in such a state.
CHECK_DEADLOCK FALSE

INVARIANT SingleCapture
