----------------------------- MODULE SiriRemote -----------------------------
(***************************************************************************)
(* The Siri-remote client (src/siri_remote_whisper_socket.py): the main   *)
(* loop of main(), which turns PacketLogger lines into Opus frames and     *)
(* voice sessions, and WhisperSocketSession, which streams each session's  *)
(* PCM over one Unix-socket connection to whisper-stream-socket while a    *)
(* reader thread prints the JSON lines the server sends back.              *)
(*                                                                         *)
(* A line is one of five kinds (the filter and the hex-tail match that     *)
(* skip a line change nothing). An Opus frame is named by the number of    *)
(* the line whose B8 header starts it; "need" is the number of further     *)
(* packets its declared length needs. The server is the environment: it   *)
(* answers the end of a session's audio (shutdown(SHUT_WR)) with a final   *)
(* message and closes, or it dies.                                         *)
(***************************************************************************)
EXTENDS Naturals, Sequences, SequencesExt

CONSTANTS
  MaxLines,      \* bound on the lines read from stdin
  MaxSessions,   \* bound on the connections opened
  ServerMayDie,  \* the server may die in a session (once per run)
  ReplyInTime    \* the server sends its final message within close()'s 2 s

Conns  == 1..MaxSessions
NoFrag == [p |-> 0, f |-> 0, have |-> 0, need |-> 0]

VARIABLES
  pc,            \* main thread: "loop", "wait" (in close()), "connect", "exited"
  ret,           \* what the main thread does when the close() it waits in returns
  lines,         \* lines read so far
  collecting,    \* collecting
  headerStreak,  \* header_streak
  frameFrag,     \* frame_frag: [p (voice period), f (frame, 0 if no B8), have, need]
  pending,       \* the frame of the B8 line that auto-starts a session
  period,        \* voice sessions started (the current one's number)
  sock,          \* self.sock: the connection, or 0 for None
  readThread,    \* self._read_thread: the connection it reads, or 0
  closed,        \* self._closed, the threading.Event
  srv,           \* srv[c]: "none", "up", "eof" (SHUT_WR seen), "closed", "dead"
  chan,          \* chan[c]: JSON lines (and the EOF) the server sent, unread
  reader,        \* reader[c]: "none", "run", "done"
  written,       \* written[c]: the frames sent on connection c, in order
  printed,       \* the [c, kind] lines the reader threads printed
  ready,         \* frames [p, f] that were complete (have >= need)
  ended          \* voice periods ended by a voice-end or voice-start line

mainVars == <<pc, ret, lines, collecting, headerStreak, frameFrag, pending, period>>
sessVars == <<sock, readThread, closed>>
netVars  == <<srv, chan, reader>>
histVars == <<written, printed, ready, ended>>
vars == <<mainVars, sessVars, netVars, histVars>>

Init ==
  /\ pc = "loop" /\ ret = "loop" /\ lines = 0
  /\ collecting = FALSE /\ headerStreak = 0
  /\ frameFrag = NoFrag /\ pending = NoFrag /\ period = 0
  /\ sock = 0 /\ readThread = 0 /\ closed = FALSE
  /\ srv = [c \in Conns |-> "none"] /\ chan = [c \in Conns |-> <<>>]
  /\ reader = [c \in Conns |-> "none"]
  /\ written = [c \in Conns |-> <<>>] /\ printed = <<>>
  /\ ready = {} /\ ended = {}

-----------------------------------------------------------------------------
(* Frames.                                                                 *)

\* The frame a B8 header on the current line starts (tokens[b8 - 1:]).
NewFrame(need) == [p |-> period, f |-> lines + 1, have |-> 0, need |-> need]

\* frame_frag.extend(...): one more packet of the frame (or, with no B8
\* seen yet in this session, tokens that start no frame).
Extend(fr) ==
  IF fr = NoFrag THEN [p |-> period, f |-> 0, have |-> 1, need |-> 0]
  ELSE [fr EXCEPT !.have = @ + 1]

Complete(fr) == fr.f # 0 /\ fr.have >= fr.need

\* frame_frag takes the value fr; a frame that is complete is recorded.
SetFrag(fr) ==
  /\ frameFrag' = fr
  /\ ready' = IF Complete(fr) THEN ready \cup {[p |-> fr.p, f |-> fr.f]} ELSE ready

\* The outcomes of send_frame(fr): a frame shorter than its length byte is
\* skipped; tokens without a B8 decode to noise or fail with OpusError;
\* whisper.write skips when not in a session, and sendall to a dead server
\* either goes to the socket buffer unread or raises BrokenPipeError.
SendResults(fr) ==
  LET decoded == IF fr = NoFrag \/ (fr.f # 0 /\ ~Complete(fr)) THEN {}
                 ELSE IF fr.f = 0 THEN {"decoded", "skip"} ELSE {"decoded"}
      write   == IF sock = 0 THEN {"skip"}
                 ELSE IF srv[sock] = "dead" THEN {"lost", "raise"} ELSE {"sent"}
  IN IF "decoded" \in decoded THEN write \cup (decoded \ {"decoded"}) ELSE {"skip"}

\* The frames written on the socket for outcome r.
Sent(r, fr) ==
  written' = IF r = "sent"
             THEN [written EXCEPT ![sock] = Append(@, [p |-> fr.p, f |-> fr.f])]
             ELSE written

-----------------------------------------------------------------------------
(* WhisperSocketSession.close() and what follows it.                       *)

ReaderAlive == readThread # 0 /\ reader[readThread] = "run"

\* The rest of the handler once close() has returned: start() for a voice
\* start, collecting = False for a voice end, the next line after a
\* failed write, the end of main() at EOF.
Resume(r) ==
  /\ pc' = CASE r = "start" -> "connect" [] r = "exit" -> "exited"
                [] OTHER -> "loop"
  /\ collecting' = IF r = "end" THEN FALSE ELSE collecting

\* close(): shutdown(SHUT_WR) (the server sees EOF); wait on self._closed
\* while the reader thread is alive; sock.close() and sock = None.
Close(r) ==
  IF sock = 0 THEN Resume(r) /\ UNCHANGED <<ret, sock, srv>>
  ELSE /\ srv' = [srv EXCEPT ![sock] = IF @ = "up" THEN "eof" ELSE @]
       /\ IF ReaderAlive /\ ~closed
            THEN pc' = "wait" /\ ret' = r /\ UNCHANGED <<sock, collecting>>
            ELSE Resume(r) /\ sock' = 0 /\ UNCHANGED ret

-----------------------------------------------------------------------------
(* main(): one line of stdin per step, up to the first blocking call.     *)

ReadLine == pc = "loop" /\ lines < MaxLines /\ lines' = lines + 1

\* is_voice_start: flush_leftover() and close() if collecting, then
\* start(). A voice start with the session bound reached is not read.
VoiceStart ==
  /\ ReadLine /\ period < MaxSessions
  /\ IF collecting
       THEN /\ \E r \in SendResults(frameFrag) : Sent(r, frameFrag)
            /\ SetFrag(NoFrag) /\ ended' = ended \cup {period}
            /\ Close("start")
       ELSE /\ pc' = "connect"
            /\ UNCHANGED <<ret, collecting, frameFrag, sessVars, srv, histVars>>
  /\ UNCHANGED <<headerStreak, pending, period, closed, readThread, chan, reader, printed>>

\* Fault model of VoiceEnd: the fragment is sent but frame_frag is not
\* cleared.
VoiceEndKeepsFrag ==
  /\ ReadLine
  /\ IF collecting
       THEN /\ \E r \in SendResults(frameFrag) : Sent(r, frameFrag)
            /\ SetFrag(frameFrag) /\ ended' = ended \cup {period}
            /\ Close("end")
       ELSE UNCHANGED <<pc, ret, collecting, frameFrag, sessVars, srv, histVars>>
  /\ UNCHANGED <<headerStreak, pending, period, closed, readThread, chan, reader, printed>>

\* Fault model of VoiceEnd: whisper.close() before flush_leftover(), so the
\* last fragment meets sock = None and is not sent.
VoiceEndCloseFirst ==
  /\ ReadLine
  /\ IF collecting
       THEN /\ Sent("skip", frameFrag)
            /\ SetFrag(NoFrag) /\ ended' = ended \cup {period}
            /\ Close("end")
       ELSE UNCHANGED <<pc, ret, collecting, frameFrag, sessVars, srv, histVars>>
  /\ UNCHANGED <<headerStreak, pending, period, closed, readThread, chan, reader, printed>>

\* is_voice_end: a stray end is skipped; otherwise flush_leftover(),
\* close() and collecting = False.
VoiceEnd ==
  /\ ReadLine
  /\ IF collecting
       THEN /\ \E r \in SendResults(frameFrag) : Sent(r, frameFrag)
            /\ SetFrag(NoFrag) /\ ended' = ended \cup {period}
            /\ Close("end")
       ELSE UNCHANGED <<pc, ret, collecting, frameFrag, sessVars, srv, histVars>>
  /\ UNCHANGED <<headerStreak, pending, period, closed, readThread, chan, reader, printed>>

\* A voice packet with an Opus header and a B8 marker: while not
\* collecting it counts towards the auto-start after 3 such headers;
\* while collecting the fragment so far is sent and the new frame begins
\* at tokens[b8 - 1:] (b8 > 0: tokens[0] is the header byte).
B8Header(need) ==
  /\ ReadLine
  /\ IF ~collecting
       THEN /\ headerStreak' = headerStreak + 1
            /\ IF headerStreak + 1 >= 3 /\ period < MaxSessions
                 THEN pc' = "connect" /\ pending' = NewFrame(need)
                 ELSE UNCHANGED <<pc, pending>>
            /\ UNCHANGED <<ret, collecting, frameFrag, sessVars, srv, histVars>>
       ELSE /\ headerStreak' = 0
            /\ \E r \in SendResults(frameFrag) :
                 /\ Sent(r, frameFrag)
                 /\ IF r = "raise" THEN Close("loop")
                    ELSE UNCHANGED <<pc, ret, collecting, sock, srv>>
            /\ SetFrag(NewFrame(need))
            /\ UNCHANGED <<pending, ended>>
  /\ UNCHANGED <<period, closed, readThread, chan, reader, printed>>

\* A voice packet with an Opus header and no B8: it resets the streak;
\* while collecting its tokens join the fragment.
Header ==
  /\ ReadLine
  /\ headerStreak' = 0
  /\ IF collecting THEN SetFrag(Extend(frameFrag)) ELSE UNCHANGED <<frameFrag, ready>>
  /\ UNCHANGED <<pc, ret, collecting, pending, period, sessVars, netVars,
                 written, printed, ended>>

\* Any other packet of more than 3 tokens: while collecting, tokens[3:]
\* join the fragment.
Continuation ==
  /\ ReadLine
  /\ IF collecting THEN SetFrag(Extend(frameFrag)) ELSE UNCHANGED <<frameFrag, ready>>
  /\ UNCHANGED <<pc, ret, collecting, headerStreak, pending, period, sessVars,
                 netVars, written, printed, ended>>

\* EOF of stdin: whisper.close() and main() returns (the fragment being
\* collected is not flushed).
EndOfInput ==
  /\ pc = "loop" /\ lines = MaxLines
  /\ Close("exit")
  /\ UNCHANGED <<lines, headerStreak, frameFrag, pending, period, closed,
                 readThread, chan, reader, histVars>>

\* start(): connect to the socket and start a reader thread; then
\* collecting = True and frame_frag is cleared (for an auto-start, the
\* B8 line's frame then begins). FileNotFoundError (no server) breaks
\* out of the loop to the final whisper.close(), on a socket that never
\* connected: only the wait for the old reader thread remains of it.
Connect ==
  /\ pc = "connect"
  /\ \/ LET k == period + 1 IN
          /\ sock' = k /\ readThread' = k /\ period' = k
          /\ srv' = [srv EXCEPT ![k] = "up"]
          /\ reader' = [reader EXCEPT ![k] = "run"]
          /\ collecting' = TRUE
          /\ SetFrag(IF pending = NoFrag THEN NoFrag ELSE [pending EXCEPT !.p = k])
          /\ pending' = NoFrag /\ pc' = "loop"
          /\ UNCHANGED <<ret, closed, chan, written, printed, ended>>
     \/ /\ ServerMayDie
        /\ IF ReaderAlive /\ ~closed THEN pc' = "wait" /\ ret' = "exit"
                                    ELSE pc' = "exited" /\ UNCHANGED ret
        /\ UNCHANGED <<collecting, frameFrag, pending, period, sessVars, netVars, histVars>>
  /\ UNCHANGED <<lines, headerStreak>>

\* self._closed.wait(timeout=2.0) returns: the event is set, or (when the
\* server may answer late) the 2 s pass; then sock.close(), sock = None.
WaitEnd ==
  /\ pc = "wait"
  /\ closed \/ ~ReplyInTime
  /\ sock' = 0 /\ Resume(ret)
  /\ UNCHANGED <<ret, lines, headerStreak, frameFrag, pending, period,
                 readThread, closed, netVars, histVars>>

-----------------------------------------------------------------------------
(* The reader thread of connection c and the server (the environment).    *)

\* _reader: print each JSON line; at EOF set self._closed and end. A
\* daemon thread: it dies when main() returns.
Read(c) ==
  /\ reader[c] = "run" /\ pc # "exited" /\ chan[c] # <<>>
  /\ chan' = [chan EXCEPT ![c] = Tail(@)]
  /\ IF Head(chan[c]) = "EOF"
       THEN reader' = [reader EXCEPT ![c] = "done"] /\ closed' = TRUE
            /\ UNCHANGED printed
       ELSE printed' = Append(printed, [c |-> c, kind |-> Head(chan[c])])
            /\ UNCHANGED <<reader, closed>>
  /\ UNCHANGED <<mainVars, sock, readThread, srv, written, ready, ended>>

\* whisper-stream-socket answers EOF on its input with the final message
\* and closes the connection.
ServerReply(c) ==
  /\ srv[c] = "eof"
  /\ srv' = [srv EXCEPT ![c] = "closed"]
  /\ chan' = [chan EXCEPT ![c] = @ \o <<"final", "EOF">>]
  /\ UNCHANGED <<mainVars, sessVars, reader, histVars>>

\* The server dies: the reader sees EOF (or a reset), writes fail.
ServerDies(c) ==
  /\ ServerMayDie /\ srv[c] \in {"up", "eof"} /\ \A d \in Conns : srv[d] # "dead"
  /\ srv' = [srv EXCEPT ![c] = "dead"]
  /\ chan' = [chan EXCEPT ![c] = Append(@, "EOF")]
  /\ UNCHANGED <<mainVars, sessVars, reader, histVars>>

Next ==
  \/ VoiceStart \/ VoiceEnd \/ Header \/ Continuation \/ EndOfInput
  \/ \E need \in {0, 1} : B8Header(need)
  \/ Connect \/ WaitEnd
  \/ \E c \in Conns : Read(c) \/ ServerReply(c) \/ ServerDies(c)

\* The reader threads and the server keep running; the lines of stdin
\* are the user's and get no fairness.
Spec == Init /\ [][Next]_vars
        /\ \A c \in Conns : WF_vars(Read(c)) /\ WF_vars(ServerReply(c))
        /\ WF_vars(WaitEnd) /\ WF_vars(Connect)

-----------------------------------------------------------------------------
(* Properties.                                                             *)

Frames == [p : 0..MaxSessions, f : 0..MaxLines]

\* Types; and frame_frag is empty whenever no voice session is collecting
\* (flush_leftover clears it at every end of a session).
TypeOK ==
  /\ pc \in {"loop", "wait", "connect", "exited"} /\ lines \in 0..MaxLines
  /\ collecting \in BOOLEAN /\ period \in 0..MaxSessions
  /\ sock \in 0..MaxSessions /\ readThread \in 0..MaxSessions
  /\ srv \in [Conns -> {"none", "up", "eof", "closed", "dead"}]
  /\ written \in [Conns -> Seq(Frames)] /\ ready \subseteq Frames
  /\ ~collecting => frameFrag = NoFrag

\* The Opus frames of connection c, in the order they were written.
FramesOf(c) == [i \in DOMAIN SelectSeq(written[c], LAMBDA w : w.f # 0) |->
                  SelectSeq(written[c], LAMBDA w : w.f # 0)[i].f]

\* A voice session ended by a voice-end or a new voice-start line, on a
\* server that stayed up, received every frame of its voice period that
\* was complete, once each and in the order the remote sent them: no
\* frame is lost at a session boundary, sent to the wrong session or sent
\* twice, whatever the order of headers and continuation packets.
FramesDeliveredOnce ==
  \A c \in ended :
    srv[c] # "dead" =>
      FramesOf(c) = SetToSortSeq({r.f : r \in {x \in ready : x.p = c}}, <)

\* The close() of a session waits for its reader thread, so that the
\* server's final message for that session ("Closing write-side first lets
\* the server detect EOF and send final JSON") is printed before the next
\* session starts and before main() returns, when the server answers
\* within the 2 s timeout.
FinalPrintedBeforeNextSession ==
  \A c \in Conns :
    (c < period \/ pc = "exited") /\ srv[c] = "closed"
      => [c |-> c, kind |-> "final"] \in Range(printed)
=============================================================================
