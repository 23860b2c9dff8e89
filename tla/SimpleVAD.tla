------------------------------ MODULE SimpleVAD ------------------------------
(***************************************************************************)
(* The energy VAD of whisper.linux (src/examples/whisper.linux/app/       *)
(* audio.py, class SimpleVAD) as the audio reader thread drives it, frame *)
(* by frame, together with the thread that plays a chime: the coordinator *)
(* sets self._mute_until and calls vad.reset() from the worker, timer or  *)
(* main thread while the reader may be inside feed(). A frame is its      *)
(* byte offset in the captured audio and whether its RMS reaches the      *)
(* threshold; the PCM itself is abstracted away.                          *)
(***************************************************************************)
EXTENDS Naturals, Sequences, FiniteSetsExt

CONSTANTS
  TrailingSilenceMs,  \* SimpleVAD.TRAILING_SILENCE_MS (300 in the code)
  MinSpeechMs,        \* config.min_speech_ms
  MaxSpeechMs,        \* config.max_speech_s, in milliseconds
  MuteMs,             \* the mute window of _play_start_signal (600 ms)
  MaxChunks,          \* bound on the chunks the capture process delivers
  MaxSignals          \* bound on the chimes played while the VAD runs

FRAME_MS      == 30                              \* SimpleVAD.FRAME_MS
SAMPLE_RATE   == 16000
CHUNK_BYTES   == (32000 * 100) \div 1000         \* AudioStream.CHUNK_BYTES
FrameBytes    == (SAMPLE_RATE * 2 * FRAME_MS) \div 1000
SilenceFrames == TrailingSilenceMs \div FRAME_MS
MaxBytes      == (MaxSpeechMs * SAMPLE_RATE * 2) \div 1000
\* Chunks arrive every CHUNK_MS = 100 ms: this many fall in the window.
MuteChunks    == MuteMs \div 100

\* _emit_speech: duration_ms = len(pcm) * 1000 // (sample_rate * 2).
DurationMs(seg) == (Len(seg) * FrameBytes * 1000) \div (SAMPLE_RATE * 2)

VARIABLES
  pos,          \* bytes the capture has delivered to _reader_loop so far
  buffer,       \* len(self._buffer): bytes not yet cut into frames
  speech,       \* self._speech_buffer: the frames in it, by offset
  inSpeech,     \* self._in_speech
  silentCount,  \* self._silent_count
  readerPc,     \* reader thread: "read", "feed" (while loop), "frame"
  frame,        \* the frame the reader cut and is classifying
  muteLeft,     \* chunks still to arrive before time.time() >= _mute_until
  sigPc,        \* the chime thread: "idle", or "reset" after setting the mute
  signals,      \* chimes played so far
  emitted,      \* segments passed to on_speech_end, in order
  heard         \* history: the frames the reader classified, in order

vars == <<pos, buffer, speech, inSpeech, silentCount, readerPc, frame,
          muteLeft, sigPc, signals, emitted, heard>>
vadVars == <<speech, inSpeech, silentCount>>

NoFrame == [t |-> 0, loud |-> FALSE]

\* A new SimpleVAD and a reader thread that has just started.
Init ==
  /\ pos = 0 /\ buffer = 0
  /\ speech = <<>> /\ inSpeech = FALSE /\ silentCount = 0
  /\ readerPc = "read" /\ frame = NoFrame
  /\ muteLeft = 0 /\ sigPc = "idle" /\ signals = 0
  /\ emitted = <<>> /\ heard = <<>>

-----------------------------------------------------------------------------
(* The audio reader thread.                                                *)

\* _reader_loop reads CHUNK_BYTES and calls _on_audio_data: within the
\* mute window the chunk is dropped, otherwise feed() appends it to
\* self._buffer and enters its while loop. Chunks come every 100 ms, so
\* none arrives between the two statements of a chime (mute, reset).
ReadChunk ==
  /\ readerPc = "read" /\ pos < MaxChunks * CHUNK_BYTES
  /\ sigPc = "idle"
  /\ pos' = pos + CHUNK_BYTES
  /\ IF muteLeft > 0
       THEN muteLeft' = muteLeft - 1 /\ UNCHANGED <<buffer, readerPc>>
       ELSE buffer' = buffer + CHUNK_BYTES /\ readerPc' = "feed"
            /\ UNCHANGED muteLeft
  /\ UNCHANGED <<vadVars, frame, sigPc, signals, emitted, heard>>

\* Fault model of FeedEnd: feed() may return with whole frames left in
\* self._buffer (the loop condition is not checked).
FeedEndAfterFrame ==
  /\ readerPc = "feed"
  /\ readerPc' = "read"
  /\ UNCHANGED <<pos, buffer, vadVars, frame, muteLeft, sigPc, signals,
                 emitted, heard>>

\* The while condition fails: less than a frame is left in self._buffer.
FeedEnd ==
  /\ readerPc = "feed" /\ buffer < FrameBytes
  /\ readerPc' = "read"
  /\ UNCHANGED <<pos, buffer, vadVars, frame, muteLeft, sigPc, signals,
                 emitted, heard>>

\* frame = bytes(self._buffer[:frame_bytes]); del ...; rms = _rms(frame).
\* The frame starts where the unconsumed bytes start.
TakeFrame ==
  /\ readerPc = "feed" /\ buffer >= FrameBytes
  /\ \E loud \in BOOLEAN : frame' = [t |-> pos - buffer, loud |-> loud]
  /\ buffer' = buffer - FrameBytes
  /\ readerPc' = "frame"
  /\ UNCHANGED <<pos, vadVars, muteLeft, sigPc, signals, emitted, heard>>

\* Fault model of EmitSpeech: the min_speech_ms check is left out.
EmitSpeechNoMin(seg) ==
  /\ speech' = <<>> /\ inSpeech' = FALSE /\ silentCount' = 0
  /\ emitted' = Append(emitted, seg)

\* _emit_speech of the frames seg: the buffer and the state are cleared,
\* and the segment is passed on only if it lasts min_speech_ms.
EmitSpeech(seg) ==
  /\ speech' = <<>> /\ inSpeech' = FALSE /\ silentCount' = 0
  /\ emitted' = IF DurationMs(seg) >= MinSpeechMs
                THEN Append(emitted, seg) ELSE emitted

\* Fault model of ProcessFrame: a loud frame does not reset the silence
\* count when speech is already in progress.
ProcessFrameKeepsSilence ==
  LET loud       == frame.loud
      inSp       == loud \/ inSpeech
      sp         == IF inSp THEN Append(speech, frame.t) ELSE speech
      silent     == IF loud /\ ~inSpeech THEN 0
                    ELSE IF ~loud /\ inSpeech THEN silentCount + 1 ELSE silentCount
      silenceEnd == ~loud /\ inSpeech /\ silent >= SilenceFrames
      tooLong    == inSp /\ ~silenceEnd /\ Len(sp) * FrameBytes >= MaxBytes
  IN
  /\ readerPc = "frame"
  /\ IF silenceEnd \/ tooLong
       THEN EmitSpeech(sp)
       ELSE speech' = sp /\ inSpeech' = inSp /\ silentCount' = silent
            /\ UNCHANGED emitted
  /\ heard' = Append(heard, frame)
  /\ readerPc' = "feed"
  /\ UNCHANGED <<pos, buffer, frame, muteLeft, sigPc, signals>>

\* The rest of the loop body for the frame cut: a loud frame starts or
\* continues speech, a quiet one extends speech in progress and counts
\* towards the trailing silence; then the segment is force-emitted once
\* it reaches max_bytes.
ProcessFrame ==
  LET loud       == frame.loud
      inSp       == loud \/ inSpeech
      sp         == IF inSp THEN Append(speech, frame.t) ELSE speech
      silent     == IF loud THEN 0
                    ELSE IF inSpeech THEN silentCount + 1 ELSE silentCount
      silenceEnd == ~loud /\ inSpeech /\ silent >= SilenceFrames
      tooLong    == inSp /\ ~silenceEnd /\ Len(sp) * FrameBytes >= MaxBytes
  IN
  /\ readerPc = "frame"
  /\ IF silenceEnd \/ tooLong
       THEN EmitSpeech(sp)
       ELSE speech' = sp /\ inSpeech' = inSp /\ silentCount' = silent
            /\ UNCHANGED emitted
  /\ heard' = Append(heard, frame)
  /\ readerPc' = "feed"
  /\ UNCHANGED <<pos, buffer, frame, muteLeft, sigPc, signals>>

-----------------------------------------------------------------------------
(* The thread that plays a chime (_play_start_signal, _play_end_signal).  *)

\* self._mute_until = time.time() + 0.6.
SignalMute ==
  /\ sigPc = "idle" /\ signals < MaxSignals
  /\ muteLeft' = MuteChunks
  /\ signals' = signals + 1
  /\ sigPc' = "reset"
  /\ UNCHANGED <<pos, buffer, vadVars, readerPc, frame, emitted, heard>>

\* self._vad.reset(): clear both buffers, _in_speech and _silent_count.
SignalReset ==
  /\ sigPc = "reset"
  /\ buffer' = 0
  /\ speech' = <<>> /\ inSpeech' = FALSE /\ silentCount' = 0
  /\ sigPc' = "idle"
  /\ UNCHANGED <<pos, readerPc, frame, muteLeft, signals, emitted, heard>>

Next ==
  \/ ReadChunk \/ FeedEnd \/ TakeFrame \/ ProcessFrame
  \/ SignalMute \/ SignalReset

Spec == Init /\ [][Next]_vars

-----------------------------------------------------------------------------
(* A reference segmentation, stated from the rules of spec section 4.2   *)
(* rather than from feed's counters: a segment starts at a loud frame     *)
(* and ends at the first frame where either SilenceFrames quiet frames    *)
(* in a row follow the loud one, or it has reached max_bytes.             *)

\* The index of the frame that ends the segment starting at loud frame
\* h[i], or 0 while the frames heard so far do not end it.
SegmentEnd(h, i) ==
  LET Ends(j) ==
        \/ (j - i + 1) * FrameBytes >= MaxBytes
        \/ /\ j - SilenceFrames >= i
           /\ \A k \in (j - SilenceFrames + 1)..j : ~h[k].loud
      E == {j \in i..Len(h) : Ends(j)}
  IN IF E = {} THEN 0 ELSE Min(E)

\* The segments passed on for the frames h[i..], in order.
RECURSIVE RefSegments(_, _)
RefSegments(h, i) ==
  IF i > Len(h) THEN <<>>
  ELSE IF ~h[i].loud THEN RefSegments(h, i + 1)
  ELSE LET j   == SegmentEnd(h, i)
           seg == [k \in 1..(j - i + 1) |-> h[i + k - 1].t]
       IN IF j = 0 THEN <<>>
          ELSE (IF DurationMs(seg) >= MinSpeechMs THEN <<seg>> ELSE <<>>)
                 \o RefSegments(h, j + 1)

-----------------------------------------------------------------------------
(* Properties.                                                             *)

\* Less than one frame plus one chunk is ever waiting in self._buffer:
\* feed() consumes every whole frame before the reader reads again.
TypeOK ==
  /\ pos \in 0..(MaxChunks * CHUNK_BYTES)
  /\ buffer \in 0..(CHUNK_BYTES + FrameBytes)
  /\ speech \in Seq(Nat) /\ inSpeech \in BOOLEAN /\ silentCount \in Nat
  /\ readerPc \in {"read", "feed", "frame"}
  /\ frame \in [t : Nat, loud : BOOLEAN]
  /\ muteLeft \in 0..MuteChunks /\ sigPc \in {"idle", "reset"}
  /\ signals \in 0..MaxSignals
  /\ emitted \in Seq(Seq(Nat)) /\ heard \in Seq([t : Nat, loud : BOOLEAN])

\* Spec 8.4: every segment feed() passes to on_speech_end lasts at least
\* min_speech_ms and at most max_speech_s plus one frame, also when a
\* chime's vad.reset() runs on another thread in the middle of feed().
SegmentDurationBounds ==
  \A i \in DOMAIN emitted :
    MinSpeechMs <= DurationMs(emitted[i])
      /\ DurationMs(emitted[i]) <= MaxSpeechMs + FRAME_MS

\* Until a chime resets it, the VAD emits exactly the segments of the
\* reference segmentation of the frames it has classified: feed's
\* counters, its two emit points and the order of its checks implement
\* the rules of spec 4.2.
EmitsReferenceSegments ==
  signals = 0 => emitted = RefSegments(heard, 1)

\* Spec 4.2: a speech segment is a contiguous region of PCM: each frame
\* of an emitted segment follows the previous one in the audio, with no
\* dropped chunk in between.
SegmentsContiguous ==
  \A i \in DOMAIN emitted :
    \A k \in 1..(Len(emitted[i]) - 1) :
      emitted[i][k + 1] = emitted[i][k] + FrameBytes
=============================================================================
