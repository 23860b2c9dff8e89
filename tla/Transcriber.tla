----------------------------- MODULE Transcriber -----------------------------
(***************************************************************************)
(* The text side of transcription in whisper.linux (src/examples/         *)
(* whisper.linux/app/transcriber.py): Transcriber.transcribe, the         *)
(* hallucination filter _is_hallucination, WakeWordDetector, and the      *)
(* classification _process_speech_segment makes of the text (app.py).    *)
(* Strings are abstracted to sequences of tokens (the words text.split() *)
(* gives); a token is a record of what the code asks of it:              *)
(*   chars   - its length;                                                *)
(*   blank   - it is the "[BLANK_AUDIO]" sentinel;                        *)
(*   pattern - it is (the phrase of) a match of _HALLUCINATION_RE;        *)
(*   wake    - the lower-cased wake word is a substring of it;            *)
(*   rest    - its length once every occurrence of the wake word is cut;  *)
(*   ratios  - difflib ratios, in percent, of the lower-cased token with  *)
(*             punctuation stripped to the wake word and to each variant  *)
(*             _build_variants made of it.                                *)
(* The wake word is one word (config.wake_word, "марфуша" by default), so *)
(* its occurrences lie within tokens. Spaces, case and punctuation are    *)
(* left out: the code trims them and no decision depends on them.        *)
(***************************************************************************)
EXTENDS Naturals, Sequences, SequencesExt

CONSTANTS
  Words,             \* the tokens whisper-cli may print
  MaxWords,          \* bound on the tokens of one output checked below
  SegmentDurations   \* durations, in ms, of the segments SimpleVAD emits

Token == [chars : Nat, blank : BOOLEAN, pattern : BOOLEAN, wake : BOOLEAN,
          rest : Nat, ratios : SUBSET (0..100)]

ASSUME Words \subseteq Token /\ MaxWords \in Nat
       /\ SegmentDurations \subseteq Nat \ {0}

\* An output of whisper-cli: its return code and the tokens of stdout.
Output(S) == [rc : {0, 1}, stdout : S]

_MAX_WORDS_PER_SEC == 5
_MAX_CHARS_PER_SEC == 25
FUZZY_THRESHOLD    == 70

MaxOf(a, b) == IF a >= b THEN a ELSE b

\* len(text.replace(" ", "")): the characters of all tokens.
CharCount(t) == FoldLeft(LAMBDA n, w : n + w.chars, 0, t)

\* Fault model of _is_hallucination: word_count = len(text), the
\* characters, instead of len(words).
HallucinationCountsChars(t, d) ==
  \/ \E i \in DOMAIN t : t[i].pattern
  \/ /\ d > 0
     /\ \/ CharCount(t) * 1000 > MaxOf(2 * 1000, d * _MAX_WORDS_PER_SEC)
        \/ CharCount(t) * 1000 > MaxOf(10 * 1000, d * _MAX_CHARS_PER_SEC)

\* _is_hallucination(text, duration_s), with duration_s = d / 1000: a
\* known phrase, or (duration known) more words or characters than
\* max(2, 5 d) and max(10, 25 d); both sides are scaled by 1000.
_is_hallucination(t, d) ==
  \/ \E i \in DOMAIN t : t[i].pattern
  \/ /\ d > 0
     /\ \/ Len(t) * 1000 > MaxOf(2 * 1000, d * _MAX_WORDS_PER_SEC)
        \/ CharCount(t) * 1000 > MaxOf(10 * 1000, d * _MAX_CHARS_PER_SEC)

\* _is_fuzzy_match: the ratio to the wake word or to one of its variants
\* reaches FUZZY_THRESHOLD.
_is_fuzzy_match(w) == \E r \in w.ratios : r >= FUZZY_THRESHOLD

\* contains_wake_word: the wake word is a substring of the text, or one of
\* its words is a fuzzy match.
contains_wake_word(t) == \E i \in DOMAIN t : t[i].wake \/ _is_fuzzy_match(t[i])

\* What is left of a token once pattern.sub removed the wake word from it.
Remainder(w) == [w EXCEPT !.chars = w.rest, !.wake = FALSE]

\* strip_wake_word: with a literal occurrence, every occurrence is removed
\* and whitespace collapsed, so tokens that were only the wake word go;
\* without one, the words that are fuzzy matches are dropped.
strip_wake_word(t) ==
  IF \E i \in DOMAIN t : t[i].wake
  THEN SelectSeq([i \in DOMAIN t |-> IF t[i].wake THEN Remainder(t[i]) ELSE t[i]],
                 LAMBDA w : w.chars > 0)
  ELSE SelectSeq(t, LAMBDA w : ~_is_fuzzy_match(w))

\* The text of whisper-cli's stdout with every [BLANK_AUDIO] removed.
Text(out) == SelectSeq(out, LAMBDA w : ~w.blank)

\* Fault model of transcribe: the filter sees stdout before [BLANK_AUDIO]
\* is removed.
TranscribeFiltersRaw(o, d) ==
  IF o.rc # 0 \/ (o.stdout # <<>> /\ _is_hallucination(o.stdout, d))
    THEN <<>>
    ELSE Text(o.stdout)

\* Transcriber.transcribe(wav_path, model, duration_s): a non-zero return
\* code raises RuntimeError, which both callers catch and treat as they
\* treat ""; otherwise the text without [BLANK_AUDIO], or "" when it is
\* a hallucination.
transcribe(o, d) ==
  IF o.rc # 0 \/ (Text(o.stdout) # <<>> /\ _is_hallucination(Text(o.stdout), d))
    THEN <<>>
    ELSE Text(o.stdout)

\* _process_speech_segment on the text: "" returns; with the wake word in
\* it, the remaining text after strip_wake_word is empty ("wake") or not
\* ("textwake"); any other text is "text".
SegmentKind(t) ==
  CASE t = <<>>                    -> "empty"
    [] ~contains_wake_word(t)      -> "text"
    [] strip_wake_word(t) = <<>>   -> "wake"
    [] OTHER                       -> "textwake"

-----------------------------------------------------------------------------
(* What the code must give, over every output of at most MaxWords tokens *)
(* and every segment duration; WhisperApp checks them where a worker       *)
(* transcribes.                                                            *)

Outputs == Output(SeqOf(Words, MaxWords))

\* The wake word alone, with any [BLANK_AUDIO] whisper prints around it,
\* in any segment the VAD emits, is a bare wake word to
\* _process_speech_segment: it starts or stops dictation and leaves no
\* residue to type (spec: strip(wake_phrase) returns "").
WakeAloneIsWake ==
  \A o \in Outputs, d \in SegmentDurations :
    /\ o.rc = 0
    /\ \E w \in Words : w.wake /\ w.rest = 0 /\ Text(o.stdout) = <<w>>
    => SegmentKind(transcribe(o, d)) = "wake"

\* Speech at the rate the filter's comment calls normal (at most 3 words
\* and 15 characters a second) with no known phrase in it is returned by
\* transcribe whole, whatever [BLANK_AUDIO] markers surround it.
NormalRateKept ==
  \A o \in Outputs, d \in SegmentDurations :
    LET t == Text(o.stdout) IN
    /\ o.rc = 0 /\ \A i \in DOMAIN t : ~t[i].pattern
    /\ Len(t) * 1000 <= 3 * d /\ CharCount(t) * 1000 <= 15 * d
    => transcribe(o, d) = t
=============================================================================
