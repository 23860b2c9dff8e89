# TLA+ models of whisper.linux

This directory models whisper.linux, the dictation daemon in
`src/examples/whisper.linux/app/`, in TLA+. The daemon reacts to a
hotkey (SIGUSR1 or a tray click) or to a spoken wake word. It records
speech, runs `whisper-cli` on it and types the text into the window that
had focus. The models are checked with TLC.

## 1. The system

### Parts and the state each keeps

| Part | Source | State |
|---|---|---|
| `WhisperLinuxApp` (the coordinator) | `app.py` | `state` (one of the five `AppState` values), `_prev_window_id`, `_audio_stream`, `_vad`, `_wake_detector`, `_segment_queue`, `_segment_worker`, `_silence_timer`, `_accumulated_texts`, `_mute_until` |
| `SimpleVAD` | `audio.py` 131-205 | `_in_speech`, the speech buffer, the silent-frame count |
| `AudioStream` | `audio.py` 212-288 | `_proc` (pw-record or arecord), `_running`, the reader thread |
| `AudioRecorder` | `audio.py` 21-98 | `_proc` and the WAV path |
| `Transcriber`, the hallucination filter, `WakeWordDetector` | `transcriber.py` | none: pure functions around a subprocess (module `Transcriber`) |
| `VoiceCommands` | `commands.py` | none: a pure function from text to inject and key actions |
| `TextInjector` | `injector.py` | none: a fallback chain over xdotool, ydotool, wtype and the clipboard |
| `Config` | `config.py` | the settings file |
| `TrayIcon` | `tray.py` | Qt menus. Its mode-change handlers call `_force_idle`. `_downloading` and the model menu are shared with one download thread per requested model |
| The Siri-remote client | `siri_remote_whisper_socket.py` | the packet loop's `collecting`, `header_streak`, `frame_frag`; a `WhisperSocketSession` with `sock`, `_read_thread`, `_closed` (a `threading.Event`) |
| Other clients and scripts | `ws_client.py`, the Intent Classifier, `models/`, `tests/earnings21/` | not part of the daemon |

### Threads and how they interact

- **The Qt main thread** runs `toggle()`.
  - A stop (`_stop_listening` or `_stop_hotkey_stream`) blocks on this thread. It first cancels the silence timer. It then flushes the accumulated texts, which means restoring focus and typing. Next it stops the capture and puts `None` on the queue. Finally it waits in `join(timeout=5)`.
- **The audio reader thread** feeds `SimpleVAD`.
  - The VAD calls `_on_speech_start`, which cancels the timer while DICTATING.
  - It also calls `_on_speech_end`, which cancels the timer and puts the segment on `self._segment_queue`.
- **One segment worker per session** (`_segment_worker_loop`).
  - It calls `self._segment_queue.get(timeout=1)`, reading the attribute again on each call.
  - It transcribes the segment, then acts on the text. A wake word starts or stops dictation. Plain text is typed (stream output) or appended to `_accumulated_texts` (batch output). In listen mode it then re-arms the silence timer.
  - It writes `self.state` directly.
- **The `threading.Timer` thread** runs `_on_silence_timeout`. It re-arms itself while speech is in progress; otherwise it flushes, sets LISTENING and plays the end chime. `cancel()` does not stop a callback that has already started.
- **The `_transcribe_and_inject` thread** (hotkey and batch). It transcribes the WAV, types a non-empty text, and in `finally` sets IDLE and plays the end chime.

Between these threads, `_accumulated_texts`, `state`, `_silence_timer`
and `_prev_window_id` are shared with no lock. The spec (section 4.9.2)
says every state change is marshalled to one coordinator context. The
code does not do this.

### Correctness properties, by part

- **Coordinator.**
  - At most one capture at a time (spec 8.1). The tray breaks it (tray_double_capture).
  - IDLE holds no text and no timer (8.2).
  - Every text taken for output is typed exactly once, in the order spoken (8.5), when joins return in time. It is typed into its own session's window; a timed-out join breaks that (wrong_window).
  - A streaming state always has a stream and a queue.
  - A recording always ends in IDLE.
  - Pending text is flushed once the user falls silent.
  - A lost capture ends the session (spec 7).
- **SimpleVAD.** Every emitted segment has min_speech_ms ≤ duration ≤ max_speech_s + 30 ms (8.4). Shorter segments are discarded. The state is reset after every emit.
- **VoiceCommands with TextInjector.** Text without commands is injected once and no key is sent (section 8). Commands are split out in order. A failed injection leaves the text on the clipboard (spec 7).
- **Siri-remote client.** Each voice session sends its Opus frames once and in order. The server's final transcript is printed before the next session (the comment on `close()`).
- **Transcription.** The wake word said alone toggles dictation (spec 8: `strip(wake_phrase)` is ""). Speech at a normal rate is never filtered as a hallucination.
- **Model downloads.** A failed download can be retried, as its notification says.

## 2. Modules

| Module | Models | MC module and cfgs |
|---|---|---|
| `WhisperApp` | the coordinator and its five threads, `_force_idle` and the tray's mode handlers (section 3) | `MCWhisperApp`: `MCThreeModes`, `MCHotkeyStream` and the violation cfgs |
| `Transcriber` | `transcribe`, `_is_hallucination`, `contains_wake_word`, `strip_wake_word` and the classification of a segment's text, as operators (section 3) | extended by `WhisperApp`; checked in `MCHotkeyStream` |
| `Dictation` | the abstract specification the app implements: texts spoken, taken for output and typed | instantiated by `WhisperApp` |
| `SimpleVAD` | `SimpleVAD.feed`, `_emit_speech` and `reset()`, frame by frame, with the chime thread (section 4) | `MCSimpleVAD`: `MCSimpleVAD.cfg`, `VADMuteGap.cfg` |
| `VoiceCommands` | `VoiceCommands.process` and `_match_command` (section 5) | instantiated by `InjectText` |
| `TextInjector` | one `inject` or `send_key` call through its chain of tools (section 6) | instantiated by `InjectText` |
| `InjectText` | `_inject_text`: `process` driving the injector, call by call (section 6) | `MCInjectText` |
| `SiriRemote` | `siri_remote_whisper_socket.py`: the packet loop, the socket session and its reader thread (section 7) | `MCSiriRemote`: `MCSiriRemote.cfg`, `SiriFinalLost.cfg` |
| `ModelDownload` | the tray's model menu and download threads (section 8) | `MCModelDownload`: `ModelRetryStuck.cfg` |

## 3. The WhisperApp module

`WhisperApp.tla` is the coordinator with all five threads.
`MCWhisperApp.tla` gives the whisper outputs and segment durations for TLC.

**Abstractions.**

- A segment is its emission number.
- A transcription draws a whisper output from `WhisperOutputs` and, in the worker, a segment duration from `SegmentDurations`. The operators of `Transcriber` turn it into one of four kinds (`SegmentKind`): `"empty"`, `"wake"`, `"text"` and `"textwake"`. `"empty"` covers a failed run, `[BLANK_AUDIO]` alone and a filtered text. `"textwake"` is text with the wake word in it, which leaves a residue. The batch thread calls `transcribe` with no duration, so only the pattern layer of the filter applies to it. `SegmentKinds` and `BatchEmpty` are the sets of outcomes, computed once from the constants.
- A window id is the number of the session that saved it.
- History variables let the properties talk about texts:
  - `segSession`: which session emitted each segment;
  - `accepted`: the texts taken for output;
  - `typed`: each injection, with the window it went to.

**Correspondence with the code.**

- One action per handler. Each blocking call (a flush, a join) splits a handler into the steps around it:
  - `StopStream`, then `MainFlushEnd`, then `StopRelease`, then `StopJoin`;
  - `WorkerPost`, then `WorkerInject` or `WorkerFlushEnd`;
  - `TimerFire`, then `TimerFlushEnd`.
- Each flushing thread keeps the snapshot it read: `mainSnap`, `timerSnap`, `worker[w].snap`.
- `LoopAgain` re-reads `segmentQueue`, as the loop re-reads `self._segment_queue`. If that is None, the thread dies of the AttributeError.
- `StartStream` and `StartRecording` include the start failure ("Stream failed" or "Recording failed").
- `StartStream` creates a new `SimpleVAD`, so `inSpeech` starts FALSE. In hotkey mode, the `vad.reset()` of `_play_start_signal` then finds it already reset.
- `SaveActiveWindow` includes xdotool failing: a non-zero exit keeps the old id, and an exception gives None.
- `StopJoin` returns in three cases:
  - the worker has ended;
  - after the 5 s timeout, while the worker is still busy, if `JoinMayTimeOut` is set;
  - after the timeout when the worker waits on an empty queue whose `None` another worker took (`Starved`).
- `CaptureEnds` is the capture process exiting on its own.
- `ModeChange(f, v)` is a tray mode handler (`_on_input_mode_changed`, `_on_output_mode_changed`) with the `_force_idle` it calls while the app is not IDLE, under the old config:
  - in LISTENING or DICTATING the stop procedure runs (`BeginStop`), and `ApplyPendingMode` stores the new mode when `StopJoin` ends;
  - in RECORDING and PROCESSING, `ForceIdleNow` stops the recorder and sets IDLE; the batch thread goes on.
- `TrayToggle` is the input handler's "if new mode is listen and state is IDLE: toggle()", which sees the state as it is by then.
- `config` holds the two modes. The constant `StartConfigs` is the set of modes the app may start in, so one run can cover several.
- The batch thread has two steps. `BatchTranscribe` takes the text for output, and `BatchInject` types it. `BatchFinally` (IDLE and the end chime) ends either. A transcription whose result is empty goes straight to `BatchFinally`.

**Refinement.** `Abstract == INSTANCE Dictation WITH spoken <- Len(segSession), typed <- [i \in DOMAIN typed |-> typed[i].seg]`. The abstract `accepted` is the app's `accepted`. `Dictation` lets a text be spoken, be taken for output only after every text already taken, and be typed in the order taken, several at once, as a flush types them. Weak fairness on `TypeSome` says every text taken is eventually typed. `ImplementsDictation == Abstract!Spec` is checked as a PROPERTY.

**Fairness.** Weak fairness applies to:

- every step of a started stop, and the toggle that ends a tray handler;
- the worker steps (`whisper-cli` has a 300 s timeout);
- the timer and batch threads;
- the end of the mute window;
- `SpeechEnd`, because the VAD force-emits at max_speech_s while audio flows.

The user (toggles, the start of speech) and the capture device get no fairness.

**Bounds.** Each run uses 2 sessions (3 for the tray violation) and 3 segments (2 there). A run allows 0 or 1 tray mode changes. The passing runs split the four start modes by what holds in them:

- `MCThreeModes` starts in listen/stream, listen/batch or hotkey/batch. It lets joins time out and allows one mode change.
- `MCHotkeyStream` starts in hotkey/stream with joins that return in time. With join timeouts, `TypedIntoSessionWindow` fails (the wrong_window finding), and `ImplementsDictation` no longer holds. In listen/batch mode, `ImplementsDictation` fails through the lost_text race.

- Two sessions are enough for a worker to outlive its session and meet the next one.
- Three segments let one text be typing, one be appended during it, and one be queued behind them.
- One mode change covers every branch of `_force_idle`. In `MCThreeModes` it happens while streaming, RECORDING or PROCESSING.

`MCHotkeyStream` reaches 13,863 distinct states in a few seconds. `MCThreeModes` reaches 925,990 in about 2 min 20 s on two workers. `CHECK_DEADLOCK FALSE`: the app may wait forever for the user, and the bounds end every behaviour in such a state.

### Transcription (module `Transcriber`)

`Transcriber.tla` holds the text side of `transcriber.py` and the classification at the top of `_process_speech_segment` as operators. A text is a sequence of tokens, the words `text.split()` gives. A token is a record of what the code asks of it:
- its length;
- whether it is the `[BLANK_AUDIO]` sentinel;
- whether it is (the phrase of) a match of `_HALLUCINATION_RE`;
- whether the wake word is a substring of it, and its length once every occurrence is cut;
- its difflib ratios to the wake word and to each variant.

`transcribe` removes the sentinels, then applies `_is_hallucination`: a known phrase, or, with a duration, more than max(2, 5 d) words or max(10, 25 d) characters. Durations are in ms, and both sides are scaled by 1000. `contains_wake_word` and `strip_wake_word` follow the code's two paths: the literal occurrence first, fuzzy matches only without one.

`MCWhisperApp` gives eight tokens for the default wake word "марфуша" (variants "марфуш", "марфу"), with ratios computed by difflib:
- the wake word, a fuzzy form and a misspelling that contains it;
- two plain words and a 21-letter one;
- `[BLANK_AUDIO]`;
- a subtitle credit.

The durations are 510 ms (the shortest segment the VAD emits with min_speech_ms 500), 1020 ms and 30030 ms (max_speech_s plus a frame). The two properties quantify over every output of up to two tokens and every duration. Their core (`WakeAloneIsWake`, `NormalRateKept`) is a constant formula, evaluated once. `WhisperApp` states them as invariants of the states where a segment worker is about to transcribe.

## 4. The SimpleVAD module

`SimpleVAD.tla` follows the reader thread through `feed`:

- `ReadChunk`: one `CHUNK_BYTES` read of `_reader_loop`, dropped by `_on_audio_data` inside the mute window;
- `TakeFrame`: the frame is cut from `self._buffer`;
- `ProcessFrame`: the rest of the loop body, ending with `_emit_speech` (`EmitSpeech`);
- `FeedEnd`: the loop condition fails.

The chime thread has two steps, `SignalMute` (set `_mute_until`) and `SignalReset` (`vad.reset()`). A reset can thus land between the cut and the classification of a frame. A frame is its byte offset and whether its RMS reaches the threshold. The byte arithmetic of the code is kept: 960-byte frames, 3200-byte chunks, `duration_ms = len * 1000 // 32000`.

The reference `RefSegments` is a RECURSIVE operator that segments the frames heard by the rules of spec 4.2. A segment starts at a loud frame and ends at the first frame that closes `SilenceFrames` quiet frames or reaches max_bytes.

**Bounds.** Time is scaled down, keeping the ratios that matter:

- a 90 ms trailing silence (3 frames);
- segments of 150 to 200 ms (forced at 7 frames);
- a 200 ms mute window (2 chunks);
- 4 chunks of audio (6 in `VADMuteGap`), which is 13 frames;
- one chime.

This is enough for a silence end, a forced end, a too-short discard and a reset at each point of the loop. `ReadChunk` waits while a chime is between its two statements, since chunks come 100 ms apart. No fairness is assumed: the runs check invariants only.

## 5. The VoiceCommands module

`VoiceCommands.tla` runs the `for` loop of `process` one word at a time:

- `ProcessWord`: the three branches (plain word, backspace, key command);
- `Finish`: the final flush.

The calls it makes are recorded in order. `_match_command` is `MatchCommand`: an empty word, an exact match, then the best fuzzy ratio at or above 75, with the first entry winning a tie. The difflib ratio is a table in `MCInjectText`, where "inter" matches "enter" at 80.

The reference is per word. `Meant` applies what the user said to a document. `Edit` applies the calls to an editor, where ctrl+BackSpace deletes the last word or key. `FoldLeft` from SequencesExt runs either over a sequence. Every text of up to 4 words over 5 words is checked; "Enter." and "-" exercise the stripping.

## 6. The TextInjector and InjectText modules

`TextInjector.tla` is one `inject` or `send_key` call. There is one action per `subprocess.run` call site, each with three outcomes:

- exit 0;
- a failure the chain catches (`CalledProcessError`, `FileNotFoundError`);
- `TimeoutExpired`, which no except clause names.

The state holds the CLIPBOARD and PRIMARY selections and what reached the focused window. The text is one model value, and the clipboard holds another before the call. `MCInjectText` enumerates both display servers, `use_clipboard_fallback`, ASCII and non-ASCII text, and the four keys the default command map sends. It uses the default `paste_keys` (shift+Insert, which pastes PRIMARY).

`InjectText.tla` composes the two. `_inject_text` calls `process` with the injector's `inject` and `send_key` when voice commands are on, and calls `inject` alone when they are off. `VC == INSTANCE VoiceCommands` and `TI == INSTANCE TextInjector` are taken with their `pc` renamed. The composed steps are:

- `Process`: one step of `process`, taken only when every call it has made has returned;
- `StartCall`: the next call enters the injector, with the first tool of its chain (`TI!FirstTool`);
- `CallStep`: one tool of the chain;
- `CallReturns`: the call returns to `process`.

An exception of a tool ends the call, `process` and `_inject_text`, so no later call is made. The display server and the clipboard fallback are the config's, the same for every call. Every text of up to 4 words is checked, with voice commands on and off (318,464 states).

## 7. The SiriRemote module

`siri_remote_whisper_socket.py` reads PacketLogger lines from stdin. It assembles the remote's Opus frames and streams them to `whisper-stream-socket`, over one Unix socket connection per voice session. A reader thread prints the JSON transcripts the server sends back. The server is not in this repository, so it is the environment. It answers the EOF of its input with a final message and closes, or it dies.

**Threads and correspondence.**

- The main thread takes one line of stdin per step. `VoiceStart`, `VoiceEnd`, `B8Header(need)`, `Header`, `Continuation` and `EndOfInput` are the branches of the loop.
  - A voice end flushes the fragment and closes.
  - A B8 header sends the fragment so far and starts a new frame, or counts towards the 3-header auto-start.
  - Headers without B8 and continuation packets extend the fragment.
- `close()` blocks while the reader thread is alive and `_closed` is not set. The main thread then waits at pc `"wait"`, and `WaitEnd` is the `wait(timeout=2.0)` returning. `ret` says what the handler does after it (`Resume`).
- `Connect` is `start()`: a new connection and reader thread, or `FileNotFoundError`, which breaks to the final `close()`.
- `Read(c)` is the reader of connection c. It prints a line, or at EOF sets `_closed` and ends. It is a daemon thread, so it stops when `main()` returns.
- `ServerReply(c)` and `ServerDies(c)` are the server.

**Abstractions.**

- A frame is the number of the line whose B8 header began it. `need` says whether it is complete at once or needs one more packet.
- `SendResults` gives the outcomes of `send_frame` and `write`:
  - too short: skipped;
  - tokens without a B8: noise or `OpusError`;
  - no session: skipped;
  - a dead server: the bytes are lost in the buffer, or `BrokenPipeError` makes `write` close the session.
- History variables record the frames written per connection (`written`), the lines printed (`printed`), the frames that were complete (`ready`) and the sessions ended by a voice line (`ended`).

**Bounds and fairness.** `MCSiriRemote.cfg` uses 7 lines, 2 sessions and a server that may die once. That is enough for an auto-start, a frame split across packets, a session boundary inside a frame, and a write after the server's death. The reader threads, the server and `Connect`/`WaitEnd` are weakly fair; the lines of stdin are not. `CHECK_DEADLOCK FALSE`: the program ends after `EndOfInput` or a failed connect.

## 8. The ModelDownload module

The tray's model menu lists every `ggml-*.bin` found, plus a Download entry or a disabled "⏳" entry for each other available model. `_on_download_model` (the Qt main thread) adds the name to `_downloading`, rebuilds the menu and starts a thread. The thread runs `download-ggml-model.sh` and checks the file's size against `_MODEL_MIN_SIZES`. It discards the name and marshals its notifications, and after a complete download a menu rebuild, through `_CallHelper`.

- `file[n]` is `"none"`, `"partial"` (smaller than the minimum) or `"complete"`. `menu[n]` is the entry as last built, and `Rebuild` is `_rebuild_model_menu` over `_list_models`.
- The thread's steps are `Start` (script check, removal of an incomplete file), `ScriptWrites` (the script has created the file), `ScriptEnds` (exit with any file state, or a caught timeout or exception) and `Check`.
- `RunMarshalled` is the main thread running a queued rebuild. `OnModelChanged` and `OnModelsDirChange` are the menu's other handlers that read or rebuild it.

The script is not in this repository and is the environment. `ModelRetryStuck.cfg` uses two models and two requests.

## 9. Runs

The passing runs:

| Run | cfg | Checks | Shows |
|---|---|---|---|
| three_modes | MCThreeModes.cfg | TypeOK, ProcessingEnds | In listen/stream, listen/batch and hotkey/batch, across failed starts, join timeouts, capture loss and a tray mode change, every recording returns the app to IDLE. With two sessions, the tray's double capture cannot be reached: it needs a third session, and tray_double_capture shows it. 925,990 states. |
| hotkey_stream | MCHotkeyStream.cfg | ImplementsDictation, WakeWordAloneToggles, NormalSpeechKept | With joins that return in time, the app refines `Dictation`: each text taken is typed once, in the order spoken, and eventually. Over all outputs of up to two tokens and all three durations, the wake word alone, with `[BLANK_AUDIO]` around it, is a bare wake word, and speech at 3 words and 15 characters a second or less is returned whole. The filter would break both if it saw the text before the sentinels are removed, or counted characters as words. 13,863 states. |
| vad | MCSimpleVAD.cfg | TypeOK, SegmentDurationBounds, EmitsReferenceSegments | Every segment lasts min_speech_ms to max_speech_s + 30 ms (8.4), also with a reset inside `feed`. Until a chime, `feed` emits exactly the reference segments. 160,178 states. |
| inject_text | MCInjectText.cfg | TypeOK, ProcessMatchesSpeech, CommandFreeTextInjectedOnce, ShowsOnlyItsInput, ReturnedTextReachable | The calls `process` makes leave the editor as the user meant, word by word, and a text without commands is injected once (spec 8). Each call delivers at most once, and only its own text or key, in evdev names for ydotool. It returns normally only when the text was delivered or is on the clipboard (spec 7). 318,464 states. |
| siri | MCSiriRemote.cfg | TypeOK, FramesDeliveredOnce | Each session ended by a voice line on a live server received exactly its complete frames, once and in order, and `frame_frag` is empty outside a session. 160,436 states. |

Each property of a passing run has a mutant in PROJECT.json, and TLC finds each mutant's property violated:

- WhisperApp:
  - a worker that treats `None` as a segment;
  - a stop that drops the stream without stopping it;
  - a stop that does not join (for two properties);
  - a LIFO queue;
  - IDLE set only after a non-empty text.
- SimpleVAD:
  - `feed` returning with whole frames left;
  - no min_speech_ms check;
  - a silence count not reset by a loud frame during speech.
- VoiceCommands:
  - an empty inject;
  - the key sent before the buffer;
  - words injected one at a time.
- TextInjector:
  - PRIMARY not set;
  - a failing xclip only logged.
- SiriRemote:
  - `frame_frag` not cleared at a voice end;
  - `close()` before `flush_leftover()`.

The violation runs, each a finding in PROJECT.json:

| Run | Property | What the code does |
|---|---|---|
| lost_text | NoLostText | A flush's final `clear()` drops a text appended while it was typing. (19 steps) |
| ghost_listening | StreamingHoldsSession | The worker re-arms the timer after the stop cancelled it. The timer's flush then sets LISTENING after the stop set IDLE, with no stream. (18 steps) |
| wrong_window | TypedIntoSessionWindow | `join(timeout=5)` gives up on a busy worker, and the next session starts a second one. The survivor types the old session's text into the new session's window. (13 steps) |
| tray_double_capture | SingleCapture | A change to listen mode while PROCESSING starts listening at once. The batch thread's `finally` then sets IDLE under the live session, and the next toggle starts a second capture. (7 steps) |
| vad_mute_gap | SegmentsContiguous | A chime's `reset()` between cutting and classifying a frame lets that frame start a segment. The segment then continues after the dropped mute window, so it is not contiguous audio (spec 4.2). (20 steps) |
| siri_final_lost | FinalPrintedBeforeNextSession | `_closed` is set by the first session's reader and never cleared. From the second session on, `close()` does not wait, and the final transcript is printed after the next session starts, or never if stdin ends. (15 states) |
| model_retry_stuck | RetryOffered | A download that times out, fails or leaves a file too small discards the name but never rebuilds the menu. The entry stays the disabled "⏳", so the retry the notification asks for is impossible. (5 states) |

## 10. Not modelled, and why

- **quit and SIGTERM.** `quit()` ends the process, so nothing after it can be observed in a model of the running app. What it drops is listed as a hazard in PROJECT.json: accumulated batch text is never flushed.
- **A signal handler running inside a blocking call of the main thread.** Toggles are dispatched through `QTimer.singleShot` and run between handlers, as modelled.
- **What callers do after `inject` raises.** InjectText shows which calls raise, and that a raise leaves the earlier calls of `process` delivered and drops the later ones. WhisperApp treats an injection as one step that succeeds.
- **The Qt marshalling of tray updates** (`_marshal_set_state`, `_marshal_notify`). Only the icon depends on it, because `self.state` is written directly before the call.
- **Data.** PCM bytes, WAV files, the text itself, notifications and logging. A text is a number or a model value; no property depends on its characters.
- **A second timer callback starting while one is still flushing.** The model lets a timer fire only when no callback is running. This is a bound of the model.
- **Inside the transcriber.**
  - `_build_variants` and difflib's ratio are string algorithms. Their results are data of the tokens, computed for the default wake word.
  - The regular expressions of `_HALLUCINATION_RE` are a flag of a token.
  - A multi-word wake phrase, whose occurrences span tokens, is not modelled.
  - The whisper-cli command line and its 300 s timeout are not modelled. A timeout raises like a failed run, and both callers treat it as "".
- **`Config`.** It parses the INI file and detects the environment. The settings it yields are the CONSTANTS and initial states of the modules. Reading `save` and `_load` side by side shows one sequence that goes wrong. `_load` merges the defaults under the saved `[voice-commands]` section. So a default command removed in the tray's dialog comes back at the next start. It is listed as a hazard, with no run.
- **The other tray handlers** (language, device, threads, paste keys, wake word and voice-command settings). Each writes one config field and saves it, to be read at the next session start.
- **The Siri client's partial transcripts, hex parsing and Opus decoding.** Only the final message matters to the properties. A frame is a number with a completeness flag.
- **The download script and `whisper-stream-socket`.** Neither is in this repository; each is modelled as the environment by what the client code expects of it.
- **Scripts outside the daemon.** The Android intent-classifier scripts, `gen-test-models.py`, the earnings21 evaluation and the websocket load-test client (`ws_client.py`) make up most of the repository's other lines. They are offline or client tools with no reactive state: model conversion, test-data generation, a WER computation, and an asyncio client that sends one file and times the replies. This is why the map covers a small share of the repository's lines even though it covers the daemon's control code and the Siri client.
