\* hotkey input, stream output; every join returns before its timeout.
CONSTANTS
  StartConfigs <- StartHotkeyStream
  EndSignal = TRUE
  WhisperOutputs <- MCWhisperOutputs
  Words <- MCWords
  MaxWords = 2
  SegmentDurations <- MCSegmentDurations
  MaxSessions = 2
  MaxSegments = 3
  JoinMayTimeOut = FALSE
  MaxModeChanges = 0
  None = None

SPECIFICATION Spec
\* The app may wait forever for the next toggle or word of the user, and
\* the bounds on sessions and segments end every behaviour in such a state.
CHECK_DEADLOCK FALSE

PROPERTY ImplementsDictation
INVARIANT WakeWordAloneToggles
INVARIANT NormalSpeechKept
