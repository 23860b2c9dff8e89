---------------------------- MODULE VoiceCommands ----------------------------
(***************************************************************************)
(* VoiceCommands.process of whisper.linux (src/examples/whisper.linux/    *)
(* app/commands.py), which WhisperLinuxApp._inject_text calls on every    *)
(* text it types when voice commands are on. The loop over the words of  *)
(* one transcription is modelled step by step; a word is a model string, *)
(* and the similarity difflib computes is given as a table (Ratio).       *)
(* The calls made to inject and send_key are recorded in order.           *)
(***************************************************************************)
EXTENDS Naturals, Sequences, SequencesExt

CONSTANTS
  Words,        \* the words whisper may write (text.split() of a result)
  Clean(_),     \* word.strip(".,!?;:-\"'()[]").lower()
  Commands,     \* self._commands in dict order: <<[word, action], ...>>
  Ratio(_, _),  \* 100 * SequenceMatcher(None, cmd_word, word).ratio()
  Prior,        \* the words already in the editor before this text
  MaxWords,     \* bound on the words of one transcription
  None          \* Python None

\* An action of the command map: <<"backspace">> for "backspace", or
\* <<"key", keysym>> for "key:<KeySym>" (process sends action[4:]).
Backspace == <<"backspace">>
FUZZY_THRESHOLD == 75          \* VoiceCommands.FUZZY_THRESHOLD (0.75)

Inject(ws) == [fn |-> "inject", arg |-> ws]   \* inject_fn(" ".join(ws))
SendKey(k) == [fn |-> "key", arg |-> k]       \* send_key_fn(k)

\* _match_command: None for an empty word; the exact entry if there is
\* one; else the entry of highest ratio at or above the threshold, the
\* first in dict order on a tie ("ratio > best_ratio").
MatchCommand(w) ==
  LET exact  == {i \in DOMAIN Commands : Commands[i].word = w}
      R(i)   == Ratio(Commands[i].word, w)
      fuzzy  == {i \in DOMAIN Commands : R(i) >= FUZZY_THRESHOLD}
      first  == CHOOSE i \in fuzzy :
                  \A j \in fuzzy : R(j) < R(i) \/ (R(j) = R(i) /\ i <= j)
  IN IF w = "" THEN None
     ELSE IF exact # {} THEN Commands[CHOOSE i \in exact : TRUE].action
     ELSE IF fuzzy = {} THEN None
     ELSE Commands[first].action

VARIABLES
  text,         \* the words of the text being processed
  i,            \* index of the next word of the for loop
  buffer,       \* the local list of words not yet injected
  hadCommands,  \* had_commands, the return value
  calls,        \* the calls made to inject_fn and send_key_fn, in order
  pc            \* "loop" inside the for loop, "done" after the return

vars == <<text, i, buffer, hadCommands, calls, pc>>

\* The transcription process() is called with; no words: return False.
Init ==
  /\ text \in SeqOf(Words, MaxWords)
  /\ i = 1 /\ buffer = <<>> /\ hadCommands = FALSE /\ calls = <<>>
  /\ pc = IF text = <<>> THEN "done" ELSE "loop"

\* Fault model of FlushCalls: inject_fn is called without "if buffer".
FlushCallsAlways(buf) == <<Inject(buf)>>

\* "if buffer: inject_fn(' '.join(buffer))".
FlushCalls(buf) == IF buf = <<>> THEN <<>> ELSE <<Inject(buf)>>

\* Fault model of ProcessWord: a command key is sent before the buffered
\* words are injected.
ProcessWordKeyFirst ==
  LET w == text[i]
      a == MatchCommand(Clean(w))
  IN
  /\ pc = "loop" /\ i <= Len(text)
  /\ i' = i + 1
  /\ \/ /\ a = None
        /\ buffer' = Append(buffer, w)
        /\ UNCHANGED <<hadCommands, calls>>
     \/ /\ a = Backspace
        /\ hadCommands' = TRUE
        /\ IF buffer # <<>>
             THEN buffer' = Front(buffer) /\ UNCHANGED calls
             ELSE calls' = Append(calls, SendKey("ctrl+BackSpace"))
                  /\ UNCHANGED buffer
     \/ /\ a \notin {None, Backspace}
        /\ hadCommands' = TRUE
        /\ calls' = calls \o <<SendKey(a[2])>> \o FlushCalls(buffer)
        /\ buffer' = <<>>
  /\ UNCHANGED <<text, pc>>

\* Fault model of ProcessWord: each plain word is injected at once
\* instead of being buffered.
ProcessWordEager ==
  LET w == text[i]
      a == MatchCommand(Clean(w))
  IN
  /\ pc = "loop" /\ i <= Len(text)
  /\ i' = i + 1
  /\ \/ /\ a = None
        /\ calls' = Append(calls, Inject(<<w>>))
        /\ UNCHANGED <<hadCommands, buffer>>
     \/ /\ a = Backspace
        /\ hadCommands' = TRUE
        /\ calls' = Append(calls, SendKey("ctrl+BackSpace"))
        /\ UNCHANGED buffer
     \/ /\ a \notin {None, Backspace}
        /\ hadCommands' = TRUE
        /\ calls' = calls \o <<SendKey(a[2])>>
        /\ UNCHANGED buffer
  /\ UNCHANGED <<text, pc>>

\* One iteration of the for loop: a word that is no command goes to the
\* buffer; backspace pops the buffer or, when it is empty, sends
\* ctrl+BackSpace; another command injects the buffer, clears it and
\* sends its key.
ProcessWord ==
  LET w == text[i]
      a == MatchCommand(Clean(w))
  IN
  /\ pc = "loop" /\ i <= Len(text)
  /\ i' = i + 1
  /\ \/ /\ a = None
        /\ buffer' = Append(buffer, w)
        /\ UNCHANGED <<hadCommands, calls>>
     \/ /\ a = Backspace
        /\ hadCommands' = TRUE
        /\ IF buffer # <<>>
             THEN buffer' = Front(buffer) /\ UNCHANGED calls
             ELSE calls' = Append(calls, SendKey("ctrl+BackSpace"))
                  /\ UNCHANGED buffer
     \/ /\ a \notin {None, Backspace}
        /\ hadCommands' = TRUE
        /\ calls' = calls \o FlushCalls(buffer) \o <<SendKey(a[2])>>
        /\ buffer' = <<>>
  /\ UNCHANGED <<text, pc>>

\* After the loop: inject what is left in the buffer, return had_commands.
Finish ==
  /\ pc = "loop" /\ i > Len(text)
  /\ calls' = calls \o FlushCalls(buffer)
  /\ pc' = "done"
  /\ UNCHANGED <<text, i, buffer, hadCommands>>

Next == ProcessWord \/ Finish

Spec == Init /\ [][Next]_vars /\ WF_vars(Next)

-----------------------------------------------------------------------------
(* What the user meant, stated per spoken word: a plain word is typed, a  *)
(* backspace removes the last thing said before it (a word or a key, in  *)
(* this text or in the editor before it), another command key is pressed  *)
(* where it was said. An editor applies the calls made: inject types its  *)
(* words, ctrl+BackSpace deletes the last word or key before the cursor.  *)

\* A word in the editor (keys are <<"key", keysym>>).
Word(w) == <<"word", w>>

\* The editor's content before this text.
PriorDoc == [k \in DOMAIN Prior |-> Word(Prior[k])]

\* The document after one spoken word, according to the user.
Meant(doc, w) ==
  LET a == MatchCommand(Clean(w)) IN
  IF a = None THEN Append(doc, Word(w))
  ELSE IF a = Backspace THEN Front(doc)
  ELSE Append(doc, a)

\* The document after one call reaches the editor.
Edit(doc, c) ==
  IF c.fn = "inject" THEN doc \o [k \in DOMAIN c.arg |-> Word(c.arg[k])]
  ELSE IF c.arg = "ctrl+BackSpace" THEN Front(doc)
  ELSE Append(doc, <<"key", c.arg>>)

-----------------------------------------------------------------------------
(* Properties.                                                             *)

\* The keysyms of the command map.
KeySyms == {Commands[k].action[2] : k \in {j \in DOMAIN Commands : Commands[j].action # Backspace}}

\* inject is only called with words and send_key only with a keysym of
\* the command map or ctrl+BackSpace.
TypeOK ==
  /\ text \in Seq(Words) /\ i \in 1..(MaxWords + 1)
  /\ buffer \in Seq(Words) /\ hadCommands \in BOOLEAN
  /\ calls \in Seq([fn : {"inject"}, arg : Seq(Words) \ {<<>>}]
                   \cup [fn : {"key"}, arg : {"ctrl+BackSpace"} \cup KeySyms])
  /\ pc \in {"loop", "done"}

\* When process() returns, the calls it made leave the editor with what
\* the user meant: every word, key and backspace takes effect in the
\* order it was spoken, the buffer's words are injected before a key, and
\* a backspace with an empty buffer deletes the last thing already typed.
ProcessMatchesSpeech ==
  pc = "done" =>
    FoldLeft(Edit, PriorDoc, calls) = FoldLeft(Meant, PriorDoc, text)

\* Spec 8 (round trip): process() of a non-empty text in which no word is
\* a command calls inject exactly once with the whole text and never
\* calls send_key.
CommandFreeTextInjectedOnce ==
  pc = "done" /\ text # <<>>
    /\ (\A k \in DOMAIN text : MatchCommand(Clean(text[k])) = None)
    => calls = <<Inject(text)>>
=============================================================================
