------------------------------ MODULE InjectText ------------------------------
(***************************************************************************)
(* WhisperLinuxApp._inject_text (src/examples/whisper.linux/app/app.py):  *)
(* with config.voice_commands on, VoiceCommands.process gets the text     *)
(* with TextInjector.inject and send_key as inject_fn and send_key_fn;    *)
(* with it off, the text goes to inject alone. The two components are     *)
(* composed: each call process makes runs the injector's chain of tools   *)
(* to its end before process goes on, and an exception of a tool leaves   *)
(* the call, process and _inject_text, so the calls after it are never    *)
(* made. The clipboard, PRIMARY and the window are seen per call, as      *)
(* TextInjector sees them: "T" is the text of the call being served.      *)
(***************************************************************************)
EXTENDS Naturals, Sequences, SequencesExt

CONSTANTS
  Words, Clean(_), Commands, Ratio(_, _), Prior, MaxWords, None,
  Keys,          \* the keys process sends, as key.split("+")
  PasteKeys,     \* config.paste_keys, as parts
  KeyParts(_)    \* key.split("+") of a key process sends

VARIABLES
  voiceCommands, \* config.voice_commands
  text, i, buffer, hadCommands, calls, vcPc,                \* process()
  req, ds, useClip, tiPc, clipboard, primary, screen, result, \* the injector
  done           \* the calls of calls that have returned

vcVars == <<text, i, buffer, hadCommands, calls, vcPc>>
tiVars == <<req, ds, useClip, tiPc, clipboard, primary, screen, result>>
vars == <<voiceCommands, vcVars, tiVars, done>>

VC == INSTANCE VoiceCommands WITH pc <- vcPc
TI == INSTANCE TextInjector WITH pc <- tiPc

\* The injector between two calls: no request yet, or the last returned.
NoReq == [fn |-> "none"]

\* _inject_text(text) for a non-empty text: through process() when voice
\* commands are on, else one inject(text). The display server and the
\* clipboard fallback are the config's, the same for every call.
Init ==
  /\ voiceCommands \in BOOLEAN
  /\ IF voiceCommands
       THEN VC!Init
       ELSE /\ text \in SeqOf(Words, MaxWords) \ {<<>>}
            /\ i = Len(text) + 1 /\ buffer = <<>> /\ hadCommands = FALSE
            /\ calls = <<VC!Inject(text)>> /\ vcPc = "done"
  /\ ds \in {"x11", "wayland"} /\ useClip \in BOOLEAN
  /\ req = NoReq /\ tiPc = "none" /\ clipboard = "Old" /\ primary = "Old"
  /\ screen = <<>> /\ result = "idle"
  /\ done = 0

\* process() goes on with its loop once every call it made has returned.
Process ==
  /\ result = "idle" /\ done = Len(calls)
  /\ VC!Next
  /\ UNCHANGED <<voiceCommands, tiVars, done>>

\* The next call process made enters the injector: inject of the joined
\* words (ASCII or not) or send_key of the key's parts.
StartCall ==
  /\ result = "idle" /\ done < Len(calls)
  /\ LET c == calls[done + 1] IN
     \E ascii \in BOOLEAN :
       req' = IF c.fn = "inject" THEN [fn |-> "inject", ascii |-> ascii]
                                 ELSE [fn |-> "key", key |-> KeyParts(c.arg)]
  /\ tiPc' = TI!FirstTool(req')
  /\ clipboard' = "Old" /\ primary' = "Old" /\ screen' = <<>>
  /\ result' = "running"
  /\ UNCHANGED <<voiceCommands, vcVars, ds, useClip, done>>

\* One tool of the chain runs.
CallStep ==
  /\ TI!Next
  /\ UNCHANGED <<voiceCommands, vcVars, done>>

\* The call returns to process (or to _inject_text).
CallReturns ==
  /\ result = "returned"
  /\ done' = done + 1 /\ result' = "idle"
  /\ UNCHANGED <<voiceCommands, vcVars, req, ds, useClip, tiPc, clipboard, primary, screen>>

Next == Process \/ StartCall \/ CallStep \/ CallReturns

\* Every thread runs to its end; an exception ends it.
Spec == Init /\ [][Next]_vars /\ WF_vars(Next)

-----------------------------------------------------------------------------
(* Properties: those of the two components, now over every call the       *)
(* composed system makes.                                                 *)

TypeOK ==
  /\ voiceCommands \in BOOLEAN /\ VC!TypeOK
  /\ done \in 0..Len(calls)
  /\ result \in {"idle", "running", "returned", "raised"}
  /\ result # "idle" => TI!TypeOK

\* With voice commands on, the calls process() makes leave the editor with
\* what was spoken (VoiceCommands.ProcessMatchesSpeech).
ProcessMatchesSpeech == voiceCommands => VC!ProcessMatchesSpeech

\* A text with no command reaches inject once and whole, whether voice
\* commands are on or off (VoiceCommands.CommandFreeTextInjectedOnce).
CommandFreeTextInjectedOnce == VC!CommandFreeTextInjectedOnce

\* Every tool of every call puts only that call's text or key into the
\* window (TextInjector.ShowsOnlyItsInput).
ShowsOnlyItsInput == TI!ShowsOnlyItsInput

\* An inject call that returns normally typed its text or left it on the
\* clipboard (TextInjector.ReturnedTextReachable).
ReturnedTextReachable == TI!ReturnedTextReachable
=============================================================================
