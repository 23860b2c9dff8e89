\* SimpleVAD fed by the reader thread, with one chime (mute and reset) that
\* may come at any point of feed().
CONSTANTS
  TrailingSilenceMs = 90
  MinSpeechMs = 150
  MaxSpeechMs = 200
  MuteMs = 200
  MaxChunks = 4
  MaxSignals = 1

SPECIFICATION Spec
\* The capture delivers MaxChunks chunks and then the reader waits: the
\* run ends there.
CHECK_DEADLOCK FALSE

INVARIANT TypeOK
INVARIANT SegmentDurationBounds
INVARIANT EmitsReferenceSegments
