----------------------------- MODULE WhisperApp -----------------------------
(***************************************************************************)
(* The coordinator of whisper.linux (src/examples/whisper.linux/app/       *)
(* app.py, class WhisperLinuxApp) together with the threads that touch its *)
(* fields:                                                                 *)
(*   - the Qt main thread, which runs toggle() and blocks inside           *)
(*     _stop_listening / _stop_hotkey_stream (flush, join);                *)
(*   - the audio reader thread, which drives SimpleVAD and calls           *)
(*     _on_speech_start / _on_speech_end;                                  *)
(*   - one segment worker thread per session (_segment_worker_loop);       *)
(*   - the threading.Timer thread of the silence timer;                    *)
(*   - the batch transcription thread (_transcribe_and_inject).            *)
(* A spoken segment is a number (its emission order); a transcription      *)
(* output of whisper-cli is a sequence of tokens (module Transcriber); a  *)
(* window is the session that saved it.                                    *)
(***************************************************************************)
EXTENDS Naturals, Sequences, FiniteSets, Functions, Transcriber

CONSTANTS
  StartConfigs,     \* the [input_mode, output_mode] the app may start with
  EndSignal,        \* config.end_signal: chimes (and the mute window) on
  WhisperOutputs,   \* the outputs of whisper-cli a transcription may give
  MaxSessions,      \* bound on the number of sessions started
  MaxSegments,      \* bound on the number of speech segments emitted
  JoinMayTimeOut,   \* a transcription may outlast join(timeout=5)
  MaxModeChanges,   \* bound on the input/output mode changes made in the tray
  None              \* Python None

ASSUME /\ StartConfigs \subseteq [input_mode : {"hotkey", "listen"},
                                   output_mode : {"batch", "stream"}]
       /\ StartConfigs # {}
       /\ EndSignal \in BOOLEAN /\ JoinMayTimeOut \in BOOLEAN
       /\ WhisperOutputs \subseteq Output(Seq(Words))
       /\ MaxSessions \in Nat \ {0} /\ MaxSegments \in Nat
       /\ MaxModeChanges \in Nat

States    == {"IDLE", "RECORDING", "PROCESSING", "LISTENING", "DICTATING"}
Sessions  == 1..MaxSessions
Segments  == 1..MaxSegments
\* The kinds of SegmentKind (module Transcriber) that stop or start
\* dictation when a wake detector is installed.
WakeKinds == {"wake", "textwake"}

\* What _process_speech_segment makes of a transcription of a segment of
\* any duration (transcribe with duration_s), and whether the batch
\* thread's transcription, made with no duration, is "".
SegmentKinds == {SegmentKind(transcribe(o, d)) : o \in WhisperOutputs, d \in SegmentDurations}
BatchEmpty   == {transcribe(o, 0) = <<>> : o \in WhisperOutputs}

VARIABLES
  state,            \* self.state
  session,          \* number of sessions started so far
  prevWindowId,     \* self._prev_window_id: the session that saved it, or None
  stream,           \* self._audio_stream: session of the AudioStream, or None
  captures,         \* sessions whose capture subprocess and reader still run
  vad,              \* self._vad is not None
  inSpeech,         \* self._vad._in_speech
  muted,            \* time.time() < self._mute_until
  wakeDetector,     \* self._wake_detector is not None
  queues,           \* queues[s]: contents of the queue.Queue of session s
  segmentQueue,     \* self._segment_queue: session of the queue, or None
  segmentWorker,    \* self._segment_worker: session of the thread, or None
  worker,           \* worker[s]: the worker thread started by session s
  silenceTimer,     \* self._silence_timer: "none", "armed" or "fired"
  timerPc,          \* the Timer thread running _on_silence_timeout
  timerSnap,        \* texts that callback is flushing
  mainPc,           \* where the Qt main thread is inside a stop
  mainSnap,         \* texts the main thread is flushing
  config,           \* [input_mode, output_mode] of self.config
  modeChanges,      \* number of mode changes made in the tray so far
  pendingMode,      \* a mode change waiting for its _force_idle, or None
  accumulatedTexts, \* self._accumulated_texts
  recorder,         \* AudioRecorder: its pw-record/arecord process runs
  batchPc,          \* the _transcribe_and_inject thread is running
  segSession,       \* segSession[g]: session whose VAD emitted segment g
  accepted,         \* segments the app took for output, in that order
  typed             \* injections: [seg |-> g, win |-> window restored]

sessVars  == <<session, prevWindowId>>
audioVars == <<stream, captures, vad, inSpeech, muted, wakeDetector>>
queueVars == <<queues, segmentQueue, segmentWorker, worker>>
timerVars == <<silenceTimer, timerPc, timerSnap>>
cfgVars   == <<config, modeChanges, pendingMode>>
mainVars  == <<mainPc, mainSnap, cfgVars>>
textVars  == <<accumulatedTexts, segSession, accepted, typed>>
batchVars == <<recorder, batchPc>>
vars == <<state, sessVars, audioVars, queueVars, timerVars, mainVars,
          textVars, batchVars>>

NoWorker  == [pc |-> "none", wq |-> None, seg |-> 0, res |-> "empty",
              stop |-> FALSE, snap |-> <<>>]
\* The worker is inside _process_speech_segment.
Busy(w)   == worker[w].pc \in {"transcribe", "post", "inject", "flush"}
\* The worker blocks in get on an empty queue of a stopped session.
Starved(w) == worker[w].pc = "get" /\ queues[worker[w].wq] = <<>>

-----------------------------------------------------------------------------
(* Helpers shared by several handlers.                                     *)

\* _cancel_silence_timer: Timer.cancel() and drop the reference; a timer
\* whose callback already started is not stopped by it.
CancelSilenceTimer == silenceTimer' = "none"

\* _reset_silence_timer: cancel the old timer and start a new one.
ResetSilenceTimer == silenceTimer' = "armed"

\* _play_start_signal / _play_end_signal: when end_signal is on, set the
\* 600 ms mute window and reset the VAD, then spawn a sound player.
PlaySignal ==
  IF EndSignal THEN muted' = TRUE /\ inSpeech' = FALSE
               ELSE UNCHANGED <<muted, inSpeech>>

\* The texts of a flush: _flush_accumulated_text restores focus and types
\* " ".join(texts), each text going to the window saved by the session.
Typed(segs) == [i \in DOMAIN segs |-> [seg |-> segs[i], win |-> prevWindowId]]

\* _save_active_window: xdotool getactivewindow succeeds (this session's
\* window), exits non-zero (the old id is kept) or raises (None).
SaveActiveWindow(s) == prevWindowId' \in {s, prevWindowId, None}

\* One more iteration of _segment_worker_loop: self._segment_queue.get()
\* reads the attribute again; None there raises AttributeError and ends
\* the thread.
LoopAgain(w) ==
  worker' = [worker EXCEPT ![w] =
               [NoWorker EXCEPT !.pc = IF segmentQueue = None THEN "done"
                                                            ELSE "get",
                                !.wq = segmentQueue]]

-----------------------------------------------------------------------------
(* Qt main thread: toggle() and the stop procedures.                       *)

Init ==
  /\ state = "IDLE"
  /\ session = 0 /\ prevWindowId = None
  /\ stream = None /\ captures = {} /\ vad = FALSE /\ inSpeech = FALSE
  /\ muted = FALSE /\ wakeDetector = FALSE
  /\ queues = [s \in Sessions |-> <<>>]
  /\ segmentQueue = None /\ segmentWorker = None
  /\ worker = [s \in Sessions |-> NoWorker]
  /\ silenceTimer = "none" /\ timerPc = "idle" /\ timerSnap = <<>>
  /\ mainPc = "idle" /\ mainSnap = <<>>
  /\ config \in StartConfigs
  /\ modeChanges = 0 /\ pendingMode = None
  /\ accumulatedTexts = <<>>
  /\ recorder = FALSE /\ batchPc = "idle"
  /\ segSession = <<>> /\ accepted = <<>> /\ typed = <<>>

\* _start_listening (listen) and _start_hotkey_stream (hotkey+stream):
\* new detector, VAD, queue and worker; then AudioStream.start, which
\* raises when the capture process dies within 200 ms.
StartStream ==
  LET s == session + 1 IN
  /\ mainPc \in {"idle", "toggle"} /\ state = "IDLE"
  /\ (config.input_mode = "listen" \/ config.output_mode = "stream")
  /\ session < MaxSessions
  /\ session' = s
  /\ SaveActiveWindow(s)
  /\ wakeDetector' = (config.input_mode = "listen")
  /\ vad' = TRUE /\ inSpeech' = FALSE   \* a new SimpleVAD
  /\ accumulatedTexts' = IF config.input_mode = "hotkey" THEN <<>> ELSE accumulatedTexts
  /\ stream' = s
  /\ \/ \* audio stream started
        /\ captures' = captures \cup {s}
        /\ queues' = queues
        /\ segmentQueue' = s /\ segmentWorker' = s
        /\ worker' = [worker EXCEPT ![s] = [NoWorker EXCEPT !.pc = "get", !.wq = s]]
        /\ IF config.input_mode = "listen"
             THEN state' = "LISTENING" /\ UNCHANGED muted
             ELSE \* _play_start_signal (its vad.reset() finds the new VAD reset)
                  state' = "DICTATING" /\ muted' = (EndSignal \/ muted)
     \/ \* "Stream failed": the worker gets None and the fields are dropped
        /\ captures' = captures
        /\ queues' = [queues EXCEPT ![s] = Append(@, None)]
        /\ segmentQueue' = None /\ segmentWorker' = None
        /\ worker' = [worker EXCEPT ![s] = [NoWorker EXCEPT !.pc = "get", !.wq = s]]
        /\ UNCHANGED <<state, muted>>
  /\ mainPc' = "idle"
  /\ UNCHANGED <<timerVars, mainSnap, cfgVars, segSession, accepted, typed, batchVars>>

\* The states toggle() stops with _stop_listening / _stop_hotkey_stream.
Stoppable ==
  \/ config.input_mode = "listen" /\ state \in {"LISTENING", "DICTATING"}
  \/ config.input_mode = "hotkey" /\ state = "DICTATING"

\* First part of _stop_listening / _stop_hotkey_stream: cancel the silence
\* timer, then _flush_accumulated_text, which reads the list and blocks in
\* focus restore and typing before it clears the list.
BeginStop ==
  /\ CancelSilenceTimer
  /\ IF accumulatedTexts # <<>>
       THEN mainPc' = "flush" /\ mainSnap' = accumulatedTexts
       ELSE mainPc' = "release" /\ UNCHANGED mainSnap
  /\ UNCHANGED <<state, sessVars, audioVars, queueVars, timerPc, timerSnap,
                 textVars, batchVars>>

StopStream ==
  /\ mainPc = "idle" /\ Stoppable
  /\ BeginStop
  /\ UNCHANGED cfgVars

\* The end of the main thread's flush: type what it read, clear the list.
MainFlushEnd ==
  /\ mainPc = "flush"
  /\ typed' = typed \o Typed(mainSnap)
  /\ accumulatedTexts' = <<>>
  /\ mainPc' = "release" /\ mainSnap' = <<>>
  /\ UNCHANGED <<state, sessVars, audioVars, queueVars, timerVars, cfgVars,
                 segSession, accepted, batchVars>>

\* AudioStream.stop (the reader ends), drop VAD and detector, put None.
StopRelease ==
  /\ mainPc = "release"
  /\ captures' = captures \ {stream}
  /\ stream' = None /\ vad' = FALSE /\ inSpeech' = FALSE
  /\ wakeDetector' = IF config.input_mode = "listen" THEN FALSE ELSE wakeDetector
  /\ queues' = IF segmentQueue = None THEN queues
               ELSE [queues EXCEPT ![segmentQueue] = Append(@, None)]
  /\ mainPc' = "join"
  /\ UNCHANGED <<state, sessVars, muted, segmentQueue, segmentWorker, worker,
                 timerVars, mainSnap, cfgVars, textVars, batchVars>>

\* Where the main thread goes after a tray mode change: the handler for
\* the input mode calls toggle() when the new mode is listen and the app
\* is IDLE (it checks IDLE in TrayToggle).
AfterModeChange(f, v) ==
  IF f = "input_mode" /\ v = "listen" THEN "toggle" ELSE "idle"

\* When the stop ends a _force_idle: set IDLE (already set by the stop),
\* store the new mode (config.save) and go on with the tray handler.
ApplyPendingMode ==
  IF pendingMode = None
  THEN mainPc' = "idle" /\ UNCHANGED <<config, pendingMode>>
  ELSE /\ config' = [config EXCEPT ![pendingMode.f] = pendingMode.v]
       /\ pendingMode' = None
       /\ mainPc' = AfterModeChange(pendingMode.f, pendingMode.v)

\* segment_worker.join(timeout=5), then drop worker and queue and go IDLE
\* (_stop_hotkey_stream also plays the end signal). The join returns when
\* the worker ended, or after 5 s: while it is still busy with a segment,
\* or while it waits on a queue whose None another thread already took.
StopJoin ==
  /\ mainPc = "join"
  /\ segmentWorker # None =>
       \/ worker[segmentWorker].pc = "done"
       \/ JoinMayTimeOut /\ Busy(segmentWorker)
       \/ Starved(segmentWorker)
  /\ segmentWorker' = None /\ segmentQueue' = None
  /\ state' = "IDLE"
  /\ IF config.input_mode = "hotkey" THEN PlaySignal ELSE UNCHANGED <<muted, inSpeech>>
  /\ ApplyPendingMode
  /\ UNCHANGED <<sessVars, stream, captures, vad, wakeDetector, queues, worker,
                 timerVars, mainSnap, modeChanges, textVars, batchVars>>

\* _start_recording (hotkey+batch): AudioRecorder.start, which raises
\* when the recorder dies within 200 ms.
StartRecording ==
  /\ mainPc = "idle" /\ state = "IDLE"
  /\ config.input_mode = "hotkey" /\ config.output_mode = "batch"
  /\ session < MaxSessions
  /\ session' = session + 1
  /\ SaveActiveWindow(session + 1)
  /\ \/ recorder' = TRUE /\ state' = "RECORDING"
     \/ UNCHANGED <<recorder, state>>
  /\ UNCHANGED <<audioVars, queueVars, timerVars, mainVars, textVars, batchPc>>

\* _stop_recording: AudioRecorder.stop returns the WAV; PROCESSING and a
\* _transcribe_and_inject thread. The recording is one utterance.
StopRecording ==
  /\ mainPc = "idle" /\ state = "RECORDING"
  /\ Len(segSession) < MaxSegments
  /\ recorder' = FALSE
  /\ state' = "PROCESSING"
  /\ segSession' = Append(segSession, session)
  /\ batchPc' = "run"
  /\ UNCHANGED <<sessVars, audioVars, queueVars, timerVars, mainVars,
                 accumulatedTexts, accepted, typed>>

\* The finally clause of _transcribe_and_inject: delete the WAV, set IDLE
\* and play the end signal; the thread ends.
BatchFinally ==
  /\ state' = "IDLE" /\ PlaySignal /\ batchPc' = "idle"

\* Fault model of BatchTranscribe: IDLE and the chime only after a
\* non-empty text, not in the finally clause.
BatchTranscribeIdleOnText ==
  /\ batchPc = "run"
  /\ \E empty \in BatchEmpty :
       IF empty THEN batchPc' = "idle" /\ UNCHANGED <<state, muted, inSpeech, accepted>>
       ELSE accepted' = Append(accepted, Len(segSession)) /\ batchPc' = "inject"
            /\ UNCHANGED <<state, muted, inSpeech>>
  /\ UNCHANGED <<sessVars, stream, captures, vad, wakeDetector, queueVars,
                 timerVars, mainVars, accumulatedTexts, segSession, typed, recorder>>

\* _transcribe_and_inject: self.transcriber.transcribe(wav_path); an
\* empty text (or an exception) goes straight to the finally clause, a
\* non-empty one is taken for output.
BatchTranscribe ==
  /\ batchPc = "run"
  /\ \E empty \in BatchEmpty :
       IF empty THEN BatchFinally /\ UNCHANGED accepted
       ELSE accepted' = Append(accepted, Len(segSession)) /\ batchPc' = "inject"
            /\ UNCHANGED <<state, muted, inSpeech>>
  /\ UNCHANGED <<sessVars, stream, captures, vad, wakeDetector, queueVars,
                 timerVars, mainVars, accumulatedTexts, segSession, typed, recorder>>

\* _transcribe_and_inject: _restore_active_window and _inject_text of the
\* text, then the finally clause.
BatchInject ==
  /\ batchPc = "inject"
  /\ typed' = typed \o Typed(<<accepted[Len(accepted)]>>)
  /\ BatchFinally
  /\ UNCHANGED <<sessVars, stream, captures, vad, wakeDetector, queueVars,
                 timerVars, mainVars, accumulatedTexts, segSession, accepted, recorder>>

-----------------------------------------------------------------------------
(* Audio reader thread: SimpleVAD.feed and its callbacks.                  *)

\* Chunks fed while muted are dropped by _on_audio_data; a loud frame
\* sets _in_speech and calls _on_speech_start, which cancels the silence
\* timer when DICTATING.
SpeechStart ==
  /\ captures # {} /\ vad /\ ~muted /\ ~inSpeech
  /\ inSpeech' = TRUE
  /\ IF state = "DICTATING" THEN CancelSilenceTimer ELSE UNCHANGED silenceTimer
  /\ UNCHANGED <<state, sessVars, stream, captures, vad, muted, wakeDetector,
                 queueVars, timerPc, timerSnap, mainVars, textVars, batchVars>>

\* _emit_speech after the trailing silence or at max_speech_s. A segment
\* shorter than min_speech_ms is discarded; otherwise _on_speech_end
\* cancels the timer when DICTATING and puts it on self._segment_queue.
SpeechEnd ==
  /\ captures # {} /\ vad /\ ~muted /\ inSpeech
  /\ inSpeech' = FALSE
  /\ \/ \* too short: discarded
        UNCHANGED <<silenceTimer, queues, segSession>>
     \/ /\ Len(segSession) < MaxSegments
        /\ segSession' = Append(segSession, session)
        /\ IF state = "DICTATING" THEN CancelSilenceTimer ELSE UNCHANGED silenceTimer
        /\ queues' = IF segmentQueue = None THEN queues
                     ELSE [queues EXCEPT ![segmentQueue] = Append(@, Len(segSession) + 1)]
  /\ UNCHANGED <<state, sessVars, stream, captures, vad, muted, wakeDetector,
                 segmentQueue, segmentWorker, worker, timerPc, timerSnap,
                 mainVars, accumulatedTexts, accepted, typed, batchVars>>

\* The 600 ms mute window ends.
MuteExpires ==
  /\ muted /\ muted' = FALSE
  /\ UNCHANGED <<state, sessVars, stream, captures, vad, inSpeech, wakeDetector,
                 queueVars, timerVars, mainVars, textVars, batchVars>>

\* The capture process exits on its own (device gone): _reader_loop reads
\* EOF and ends; nothing tells the app.
CaptureEnds(c) ==
  /\ c \in captures
  /\ captures' = captures \ {c}
  /\ UNCHANGED <<state, sessVars, stream, vad, inSpeech, muted, wakeDetector,
                 queueVars, timerVars, mainVars, textVars, batchVars>>

-----------------------------------------------------------------------------
(* Segment worker threads: _segment_worker_loop, _process_speech_segment. *)

\* Fault model of WorkerGet: the None sentinel is not checked and is
\* processed as a segment.
WorkerGetNoSentinel(w) ==
  LET q == worker[w].wq IN
  /\ worker[w].pc = "get" /\ queues[q] # <<>>
  /\ queues' = [queues EXCEPT ![q] = Tail(@)]
  /\ worker' = [worker EXCEPT ![w].pc = "transcribe", ![w].seg = Head(queues[q])]
  /\ UNCHANGED <<state, sessVars, audioVars, segmentQueue, segmentWorker,
                 timerVars, mainVars, textVars, batchVars>>

\* Fault model of WorkerGet: a LIFO queue (the newest segment first).
WorkerGetLifo(w) ==
  LET q == worker[w].wq
      n == Len(queues[q])
  IN
  /\ worker[w].pc = "get" /\ queues[q] # <<>>
  /\ queues' = [queues EXCEPT ![q] = SubSeq(@, 1, n - 1)]
  /\ worker' = [worker EXCEPT ![w] =
                  IF queues[q][n] = None THEN [@ EXCEPT !.pc = "done"]
                  ELSE [@ EXCEPT !.pc = "transcribe", !.seg = queues[q][n]]]
  /\ UNCHANGED <<state, sessVars, audioVars, segmentQueue, segmentWorker,
                 timerVars, mainVars, textVars, batchVars>>

\* queue.get on the queue the thread is blocked on: None ends the loop.
WorkerGet(w) ==
  LET q == worker[w].wq IN
  /\ worker[w].pc = "get" /\ queues[q] # <<>>
  /\ queues' = [queues EXCEPT ![q] = Tail(@)]
  /\ worker' = [worker EXCEPT ![w] =
                  IF Head(queues[q]) = None THEN [@ EXCEPT !.pc = "done"]
                  ELSE [@ EXCEPT !.pc = "transcribe", !.seg = Head(queues[q])]]
  /\ UNCHANGED <<state, sessVars, audioVars, segmentQueue, segmentWorker,
                 timerVars, mainVars, textVars, batchVars>>

\* get(timeout=1.0) raises queue.Empty: the thread stops when
\* self._segment_queue is None, else calls get on the current queue.
WorkerTimeout(w) ==
  /\ worker[w].pc = "get" /\ queues[worker[w].wq] = <<>>
  /\ worker[w].wq # segmentQueue
  /\ LoopAgain(w)
  /\ UNCHANGED <<state, sessVars, audioVars, queues, segmentQueue, segmentWorker,
                 timerVars, mainVars, textVars, batchVars>>

\* Write the WAV and run whisper-cli; "" (filtered, blank or an exception
\* that is logged) skips to the finally clause and the next segment.
WorkerTranscribe(w) ==
  /\ worker[w].pc = "transcribe"
  /\ \E r \in SegmentKinds :
       IF r = "empty" THEN LoopAgain(w)
       ELSE worker' = [worker EXCEPT ![w].pc = "post", ![w].res = r]
  /\ UNCHANGED <<state, sessVars, audioVars, queues, segmentQueue, segmentWorker,
                 timerVars, mainVars, textVars, batchVars>>

\* The end of a wake-word stop in the worker: _flush_accumulated_text
\* reads the list (acc, as this thread sees it) and, when it is not empty,
\* blocks in restore and typing; then state = LISTENING.
StopDictating(w, acc) ==
  IF acc # <<>>
  THEN worker' = [worker EXCEPT ![w].pc = "flush", ![w].snap = acc]
       /\ UNCHANGED state
  ELSE state' = "LISTENING" /\ LoopAgain(w)

\* The end of a plain segment while DICTATING: in listen mode
\* _reset_silence_timer.
ContinueDictating(w) ==
  /\ IF config.input_mode = "listen" THEN ResetSilenceTimer ELSE UNCHANGED silenceTimer
  /\ LoopAgain(w)
  /\ UNCHANGED state

\* The branch on the transcribed text, taken on the state read now.
WorkerPost(w) ==
  LET g    == worker[w].seg
      wake == wakeDetector /\ worker[w].res \in WakeKinds
  IN
  /\ worker[w].pc = "post"
  /\ \/ \* wake word while LISTENING: start dictating
        /\ wake /\ state = "LISTENING"
        /\ CancelSilenceTimer
        /\ accumulatedTexts' = <<>>
        /\ state' = "DICTATING"
        /\ PlaySignal
        /\ LoopAgain(w)
        /\ UNCHANGED accepted
     \/ \* wake word while DICTATING: the residue, then flush and LISTENING
        /\ wake /\ state = "DICTATING"
        /\ CancelSilenceTimer
        /\ UNCHANGED <<muted, inSpeech>>
        /\ \/ /\ worker[w].res = "wake"
              /\ UNCHANGED <<accepted, accumulatedTexts>>
              /\ StopDictating(w, accumulatedTexts)
           \/ /\ worker[w].res = "textwake" /\ config.output_mode = "stream"
              /\ accepted' = Append(accepted, g)
              /\ worker' = [worker EXCEPT ![w].pc = "inject", ![w].stop = TRUE]
              /\ UNCHANGED <<state, accumulatedTexts>>
           \/ /\ worker[w].res = "textwake" /\ config.output_mode = "batch"
              /\ accepted' = Append(accepted, g)
              /\ accumulatedTexts' = Append(accumulatedTexts, g)
              /\ StopDictating(w, accumulatedTexts')
     \/ \* plain text while DICTATING: type it or accumulate it
        /\ ~wake /\ state = "DICTATING"
        /\ accepted' = Append(accepted, g)
        /\ UNCHANGED <<muted, inSpeech>>
        /\ IF config.output_mode = "stream"
             THEN /\ worker' = [worker EXCEPT ![w].pc = "inject"]
                  /\ UNCHANGED <<state, silenceTimer, accumulatedTexts>>
             ELSE /\ accumulatedTexts' = Append(accumulatedTexts, g)
                  /\ ContinueDictating(w)
     \/ \* any other state: the result is dropped
        /\ ~(state = "DICTATING" \/ (wake /\ state = "LISTENING"))
        /\ LoopAgain(w)
        /\ UNCHANGED <<state, silenceTimer, muted, inSpeech, accumulatedTexts, accepted>>
  /\ UNCHANGED <<sessVars, stream, captures, vad, wakeDetector, queues,
                 segmentQueue, segmentWorker, timerPc, timerSnap, mainVars,
                 segSession, typed, batchVars>>

\* _restore_active_window and _inject_text of the text (stream output).
WorkerInject(w) ==
  /\ worker[w].pc = "inject"
  /\ typed' = typed \o Typed(<<worker[w].seg>>)
  /\ IF worker[w].stop
       THEN StopDictating(w, accumulatedTexts) /\ UNCHANGED silenceTimer
       ELSE ContinueDictating(w)
  /\ UNCHANGED <<sessVars, audioVars, queues, segmentQueue, segmentWorker,
                 timerPc, timerSnap, mainVars, accumulatedTexts, segSession,
                 accepted, batchVars>>

\* The worker's flush ends: the texts it read are typed, the list is
\* cleared (whatever it holds by now), state = LISTENING.
WorkerFlushEnd(w) ==
  /\ worker[w].pc = "flush"
  /\ typed' = typed \o Typed(worker[w].snap)
  /\ accumulatedTexts' = <<>>
  /\ state' = "LISTENING"
  /\ LoopAgain(w)
  /\ UNCHANGED <<sessVars, audioVars, queues, segmentQueue, segmentWorker,
                 timerVars, mainVars, segSession, accepted, batchVars>>

-----------------------------------------------------------------------------
(* The silence timer's thread: _on_silence_timeout.                        *)

\* The timer fires (cancel() afterwards no longer stops it). When
\* DICTATING: with speech in progress it re-arms itself; otherwise it
\* flushes and goes to LISTENING with the end signal. A second callback
\* does not start while one is still flushing (a bound of the model).
TimerFire ==
  /\ silenceTimer = "armed" /\ timerPc = "idle"
  /\ IF state = "DICTATING"
       THEN IF vad /\ inSpeech
            THEN /\ silenceTimer' = "armed"
                 /\ UNCHANGED <<state, muted, inSpeech, timerPc, timerSnap>>
            ELSE IF accumulatedTexts # <<>>
            THEN /\ silenceTimer' = "fired"
                 /\ timerPc' = "flush" /\ timerSnap' = accumulatedTexts
                 /\ UNCHANGED <<state, muted, inSpeech>>
            ELSE /\ silenceTimer' = "fired"
                 /\ state' = "LISTENING" /\ PlaySignal
                 /\ UNCHANGED <<timerPc, timerSnap>>
       ELSE /\ silenceTimer' = "fired"
            /\ UNCHANGED <<state, muted, inSpeech, timerPc, timerSnap>>
  /\ UNCHANGED <<sessVars, stream, captures, vad, wakeDetector, queueVars,
                 mainVars, textVars, batchVars>>

\* The callback's flush ends: type what it read, clear the list, set
\* LISTENING and play the end signal.
TimerFlushEnd ==
  /\ timerPc = "flush"
  /\ typed' = typed \o Typed(timerSnap)
  /\ accumulatedTexts' = <<>>
  /\ state' = "LISTENING"
  /\ PlaySignal
  /\ timerPc' = "idle" /\ timerSnap' = <<>>
  /\ UNCHANGED <<sessVars, stream, captures, vad, wakeDetector, queueVars,
                 silenceTimer, mainVars, segSession, accepted, batchVars>>

-----------------------------------------------------------------------------
(* The tray's mode menus: _on_input_mode_changed, _on_output_mode_changed *)
(* (tray.py), which call WhisperLinuxApp._force_idle.                      *)

\* The values each mode menu offers.
ModeValues == [input_mode  |-> {"hotkey", "listen"},
               output_mode |-> {"batch", "stream"}]

\* _force_idle outside LISTENING and DICTATING: in RECORDING stop the
\* recorder (its WAV is left behind), then _set_state(IDLE) whatever the
\* state, also in PROCESSING, where _transcribe_and_inject goes on.
ForceIdleNow == state' = "IDLE" /\ recorder' = FALSE

\* A new value v is chosen for the config field f. When the app is not
\* IDLE, _force_idle runs first with the old config: in LISTENING or
\* DICTATING it runs the stop procedure of toggle(), and the change is
\* applied when that stop ends (ApplyPendingMode); in RECORDING it stops
\* the recorder (the WAV is left behind) and sets IDLE; in PROCESSING it
\* sets IDLE while the _transcribe_and_inject thread goes on. Then the
\* new value is stored and, for input mode listen, toggle() follows.
ModeChange(f, v) ==
  /\ mainPc = "idle" /\ modeChanges < MaxModeChanges
  /\ config[f] # v
  /\ modeChanges' = modeChanges + 1
  /\ \/ /\ state \in {"LISTENING", "DICTATING"}
        /\ BeginStop
        /\ pendingMode' = [f |-> f, v |-> v]
        /\ UNCHANGED config
     \/ /\ state \in {"IDLE", "RECORDING", "PROCESSING"}
        /\ ForceIdleNow
        /\ config' = [config EXCEPT ![f] = v]
        /\ mainPc' = AfterModeChange(f, v)
        /\ UNCHANGED <<sessVars, audioVars, queueVars, timerVars, mainSnap,
                       pendingMode, textVars, batchPc>>

\* The input-mode handler's "if new_val == 'listen' and state == IDLE:
\* toggle()": the toggle starts listening (StartStream), or nothing
\* happens because another thread has changed the state since the
\* _force_idle (or the model's bound on sessions is reached).
TrayToggle ==
  /\ mainPc = "toggle"
  /\ \/ StartStream
     \/ /\ state # "IDLE" \/ session = MaxSessions
        /\ mainPc' = "idle"
        /\ UNCHANGED <<state, sessVars, audioVars, queueVars, timerVars,
                       mainSnap, cfgVars, textVars, batchVars>>

-----------------------------------------------------------------------------
(* The user's toggle (SIGUSR1 or tray click), dispatched by toggle().     *)

Toggle ==
  \/ StartStream
  \/ StopStream
  \/ StartRecording
  \/ StopRecording

Next ==
  \/ Toggle
  \/ \E f \in DOMAIN ModeValues : \E v \in ModeValues[f] : ModeChange(f, v)
  \/ TrayToggle
  \/ MainFlushEnd \/ StopRelease \/ StopJoin
  \/ BatchTranscribe \/ BatchInject
  \/ SpeechStart \/ SpeechEnd \/ MuteExpires
  \/ \E c \in Sessions : CaptureEnds(c)
  \/ \E w \in Sessions : \/ WorkerGet(w) \/ WorkerTimeout(w)
                         \/ WorkerTranscribe(w) \/ WorkerPost(w)
                         \/ WorkerInject(w) \/ WorkerFlushEnd(w)
  \/ TimerFire \/ TimerFlushEnd

\* Every thread of the process that is running keeps running: a started
\* stop procedure and the rest of a tray handler, the worker threads (whisper-cli has a 300 s timeout),
\* the timer thread, the batch thread and the clock ending the mute.
\* A segment in progress ends: SimpleVAD force-emits at max_speech_s while
\* the capture delivers audio. The user (toggles, the start of speech) and
\* the capture device are not fair.
Fairness ==
  /\ WF_vars(MainFlushEnd) /\ WF_vars(StopRelease) /\ WF_vars(StopJoin)
  /\ WF_vars(TrayToggle)
  /\ WF_vars(BatchTranscribe) /\ WF_vars(BatchInject) /\ WF_vars(MuteExpires) /\ WF_vars(SpeechEnd)
  /\ \A w \in Sessions :
       /\ WF_vars(WorkerGet(w)) /\ WF_vars(WorkerTimeout(w))
       /\ WF_vars(WorkerTranscribe(w)) /\ WF_vars(WorkerPost(w))
       /\ WF_vars(WorkerInject(w)) /\ WF_vars(WorkerFlushEnd(w))
  /\ WF_vars(TimerFire) /\ WF_vars(TimerFlushEnd)

Spec == Init /\ [][Next]_vars /\ Fairness

-----------------------------------------------------------------------------
(* Properties.                                                             *)

Streaming == {"LISTENING", "DICTATING"}
TypedSegs == {typed[i].seg : i \in DOMAIN typed}

TypeOK ==
  /\ state \in States
  /\ session \in 0..MaxSessions /\ prevWindowId \in Sessions \cup {None}
  /\ stream \in Sessions \cup {None} /\ captures \subseteq Sessions
  /\ vad \in BOOLEAN /\ inSpeech \in BOOLEAN /\ muted \in BOOLEAN
  /\ wakeDetector \in BOOLEAN
  /\ queues \in [Sessions -> Seq(Segments \cup {None})]
  /\ segmentQueue \in Sessions \cup {None} /\ segmentWorker \in Sessions \cup {None}
  /\ \A w \in Sessions :
       /\ worker[w].pc \in {"none", "get", "transcribe", "post", "inject", "flush", "done"}
       /\ worker[w].wq \in Sessions \cup {None}
       /\ worker[w].seg \in 0..MaxSegments /\ worker[w].res \in {"empty", "wake", "text", "textwake"}
       /\ worker[w].stop \in BOOLEAN /\ worker[w].snap \in Seq(Segments)
  /\ silenceTimer \in {"none", "armed", "fired"}
  /\ timerPc \in {"idle", "flush"} /\ timerSnap \in Seq(Segments)
  /\ mainPc \in {"idle", "flush", "release", "join", "toggle"}
  /\ mainSnap \in Seq(Segments)
  /\ config \in [input_mode : ModeValues.input_mode, output_mode : ModeValues.output_mode]
  /\ modeChanges \in 0..MaxModeChanges
  /\ pendingMode \in {None} \cup {[f |-> f, v |-> v] : f \in DOMAIN ModeValues, v \in ModeValues.input_mode \cup ModeValues.output_mode}
  /\ accumulatedTexts \in Seq(Segments)
  /\ recorder \in BOOLEAN /\ batchPc \in {"idle", "run", "inject"}
  /\ segSession \in Seq(Sessions) /\ Len(segSession) <= MaxSegments
  /\ accepted \in Seq(Segments)
  /\ typed \in Seq([seg : Segments, win : Sessions \cup {None}])

\* Texts a thread has read from the list, or taken for typing, and not
\* yet typed.
InFlight ==
  Range(mainSnap) \cup Range(timerSnap)
    \cup UNION {Range(worker[w].snap) : w \in Sessions}
    \cup {worker[w].seg : w \in {v \in Sessions : worker[v].pc = "inject"}}

\* The abstract view of the app: the texts taken for output and the texts
\* typed, without the windows they went to.
Abstract == INSTANCE Dictation
              WITH spoken <- Len(segSession),
                   typed  <- [i \in DOMAIN typed |-> typed[i].seg]

\* The app implements the Dictation specification (spec 5 and 8.5): every
\* text that _process_speech_segment or _transcribe_and_inject takes for
\* output is typed once, in the order the VAD emitted it (the worker
\* drains its queue FIFO and types each text before it takes the next),
\* and it is eventually typed.
ImplementsDictation == Abstract!Spec

\* Spec 8.1: at most one capture subprocess runs at a time (toggle starts
\* an AudioStream only from IDLE, every stop path stops it first).
SingleCapture == Cardinality(captures) <= 1

\* Every text the app took for output is typed, still in the list, or
\* being typed by some thread: a flush clears the whole list, including
\* texts appended while it was typing, and a wake word clears it too.
NoLostText ==
  \A i \in DOMAIN accepted :
    accepted[i] \in TypedSegs \cup Range(accumulatedTexts) \cup InFlight

\* While LISTENING or DICTATING, outside the final join of a stop, the app
\* holds an audio stream and a segment queue: no handler leaves the
\* machine in a streaming state with the session torn down.
StreamingHoldsSession ==
  state \in Streaming /\ mainPc # "join" =>
    stream # None /\ segmentQueue # None

\* Every text is typed into the window saved by its own session or an
\* earlier one (a failed xdotool keeps the old id), never into the window
\* of a later session: a worker that outlived join(timeout=5) restores
\* self._prev_window_id as the next toggle saved it.
TypedIntoSessionWindow ==
  \A i \in DOMAIN typed :
    typed[i].win = None \/ typed[i].win <= segSession[typed[i].seg]


\* Spec 4.9.1 (PROCESSING -> IDLE): a recording handed to
\* _transcribe_and_inject always brings the app back to IDLE, whether the
\* text is empty or not (the finally clause).
ProcessingEnds == state = "PROCESSING" ~> state = "IDLE"

\* Whenever a segment worker is about to transcribe, the wake word alone,
\* with any [BLANK_AUDIO] around it, in a segment of any duration the VAD
\* emits, is a bare wake word to _process_speech_segment: it starts or
\* stops dictation and leaves no residue (spec: strip(wake_phrase) is "").
WakeWordAloneToggles ==
  (\E w \in Sessions : worker[w].pc = "transcribe") => WakeAloneIsWake

\* Whenever a segment worker is about to transcribe, speech at the rate
\* the filter's comment calls normal (3 words, 15 characters a second),
\* with no known phrase in it, comes back from transcribe whole.
NormalSpeechKept ==
  (\E w \in Sessions : worker[w].pc = "transcribe") => NormalRateKept
=============================================================================
