---------------------------- MODULE MCWhisperApp ----------------------------
(***************************************************************************)
(* WhisperApp instantiated for TLC. The .cfg files choose the modes the    *)
(* app starts in, whether the end chime (and its mute window) is on,       *)
(* whether a transcription may outlast join(timeout=5), and the bounds.    *)
(***************************************************************************)
EXTENDS WhisperApp

\* Tokens whisper-cli may print when the wake word is "марфуша" (the
\* default), with their lengths and difflib ratios to the wake word and its
\* variants "марфуш" and "марфу" (_build_variants strips "а" and "ша").
Tok(n, wk, r, rs) == [chars |-> n, blank |-> FALSE, pattern |-> FALSE,
                      wake |-> wk, rest |-> r, ratios |-> rs]
Marfusha  == Tok(7, TRUE, 0, {100, 92, 83})                \* "марфуша"
Marfushi  == Tok(7, FALSE, 7, {92, 85, 83})                \* "марфуши"
Marfushaa == Tok(8, TRUE, 1, {93, 85, 76})                 \* "марфушаа"
Privet    == Tok(6, FALSE, 6, {18, 16, 15})                \* "привет"
Mir       == Tok(3, FALSE, 3, {50, 44, 40})                \* "мир"
Long      == Tok(21, FALSE, 21, {15, 14})    \* "достопримечательности"
BlankAudio == [Tok(13, FALSE, 13, {0}) EXCEPT !.blank = TRUE]   \* "[BLANK_AUDIO]"
Subtitles  == [Tok(8, FALSE, 8, {15, 14, 13}) EXCEPT !.pattern = TRUE] \* "Субтитры"
MCWords == {Marfusha, Marfushi, Marfushaa, Privet, Mir, Long, BlankAudio, Subtitles}

\* Segments the VAD emits are whole 30 ms frames, from the first multiple
\* of 30 ms at or over min_speech_ms (500) to max_speech_s (30 s) plus
\* one frame; 1020 ms is a short phrase.
MCSegmentDurations == {510, 1020, 30030}

\* The outputs a transcription in the state machine draws from: a failed
\* run, blank audio, the wake word alone, plain text, and text with the
\* wake word in it.
MCWhisperOutputs ==
  {[rc |-> 1, stdout |-> <<>>], [rc |-> 0, stdout |-> <<BlankAudio>>],
   [rc |-> 0, stdout |-> <<Marfusha>>], [rc |-> 0, stdout |-> <<Privet, Mir>>],
   [rc |-> 0, stdout |-> <<Privet, Marfusha>>]}

\* The modes config.ini (or --input-mode / --output-mode) starts the app in.
Modes(i, o) == {[input_mode |-> i, output_mode |-> o]}
StartListenStream == Modes("listen", "stream")
StartListenBatch  == Modes("listen", "batch")
StartHotkeyStream == Modes("hotkey", "stream")
StartHotkeyBatch  == Modes("hotkey", "batch")
\* Either of the two modes whose sessions use the most threads: the
\* streaming listen mode and the recording hotkey mode.
StartListenStreamOrHotkeyBatch == StartListenStream \cup StartHotkeyBatch
StartAllButHotkeyStream == StartListenStreamOrHotkeyBatch \cup StartListenBatch
=============================================================================
