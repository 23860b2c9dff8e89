---------------------------- MODULE ModelDownload ----------------------------
(***************************************************************************)
(* The model menu of the whisper.linux tray (src/examples/whisper.linux/  *)
(* app/tray.py) and its download threads. The Qt main thread runs the     *)
(* menu's handlers and, one at a time, the calls download threads         *)
(* marshal to it; each download thread runs download-ggml-model.sh, which *)
(* is not in this repository and is the environment: while it runs the   *)
(* model file exists partly written, and it may end with the file         *)
(* complete, partial or absent, or be killed by its 1 hour timeout. A     *)
(* file is "partial" when it is smaller than _MODEL_MIN_SIZES[name].      *)
(* Notifications change nothing the model tracks and are left out.        *)
(***************************************************************************)
EXTENDS Naturals

CONSTANTS
  Names,        \* names of AVAILABLE_MODELS (config.py)
  ScriptFound,  \* download-ggml-model.sh exists under _REPO_ROOT/models
  MaxRequests,  \* bound on the downloads requested
  None          \* Python None

Threads == 1..MaxRequests
FileStates == {"none", "partial", "complete"}

VARIABLES
  downloading,  \* self._downloading
  menu,         \* menu[n]: n's entry as last built: "model", "busy" (the
                \*   disabled "⏳" entry) or "download"
  file,         \* file[n]: ggml-<n>.bin in models_dir
  model,        \* config.model: a name or None
  thread,       \* thread[t]: [name, pc] of the t-th download thread
  rebuilds,     \* menu rebuilds marshalled to the main thread, not yet run
  requests      \* download threads started

vars == <<downloading, menu, file, model, thread, rebuilds, requests>>

\* _rebuild_model_menu: every ggml-*.bin found is a model entry
\* (_list_models; with none found, config.model is listed); every other
\* available name is a disabled entry while it is being downloaded and a
\* Download entry otherwise.
Rebuild(dl, f) ==
  LET found  == {n \in Names : f[n] # "none"}
      listed == IF found = {} /\ model # None THEN {model} ELSE found
  IN [n \in Names |-> IF n \in listed THEN "model"
                      ELSE IF n \in dl THEN "busy" ELSE "download"]

\* The tray starts with the menu built from the files as they are; a
\* partial file may be left by an earlier run.
Init ==
  /\ downloading = {} /\ file \in [Names -> FileStates]
  /\ model \in Names \cup {None}
  /\ menu = Rebuild({}, file)
  /\ thread = [t \in Threads |-> [name |-> None, pc |-> "none"]]
  /\ rebuilds = 0 /\ requests = 0

-----------------------------------------------------------------------------
(* The Qt main thread.                                                     *)

\* _on_download_model(n), from the Download entry: return if n is being
\* downloaded; else add it to _downloading, rebuild the menu and start a
\* daemon thread running _do_download_model(n).
OnDownloadModel(n) ==
  /\ menu[n] = "download" /\ requests < MaxRequests
  /\ IF n \in downloading
       THEN UNCHANGED <<downloading, menu, thread, requests>>
       ELSE LET t == requests + 1 IN
            /\ downloading' = downloading \cup {n}
            /\ menu' = Rebuild(downloading', file)
            /\ thread' = [thread EXCEPT ![t] = [name |-> n, pc |-> "start"]]
            /\ requests' = t
  /\ UNCHANGED <<file, model, rebuilds>>

\* _on_model_changed: the model entry n becomes config.model (saved).
OnModelChanged(n) ==
  /\ menu[n] = "model" /\ model' = n
  /\ UNCHANGED <<downloading, menu, file, thread, rebuilds, requests>>

\* _on_models_dir_change, the same directory chosen again: both menus
\* are rebuilt.
OnModelsDirChange ==
  /\ menu' = Rebuild(downloading, file)
  /\ UNCHANGED <<downloading, file, model, thread, rebuilds, requests>>

\* _CallHelper._run: the main thread runs a marshalled menu rebuild.
RunMarshalled ==
  /\ rebuilds > 0 /\ rebuilds' = rebuilds - 1
  /\ menu' = Rebuild(downloading, file)
  /\ UNCHANGED <<downloading, file, model, thread, requests>>

-----------------------------------------------------------------------------
(* A download thread, _do_download_model(n).                               *)

\* Thread t of name n at pc p goes to pc q.
Step(t, p, q) ==
  /\ thread[t].pc = p /\ thread' = [thread EXCEPT ![t].pc = q]

\* The thread ends: discard(n) from _downloading (the notification it
\* marshals changes nothing here).
Discard(t) == downloading' = downloading \ {thread[t].name}

\* No script: discard and return. Otherwise an incomplete file is removed
\* so that the script does not skip it.
Start(t) ==
  LET n == thread[t].name IN
  /\ \/ /\ ~ScriptFound /\ Step(t, "start", "end") /\ Discard(t)
        /\ UNCHANGED file
     \/ /\ ScriptFound /\ Step(t, "start", "script")
        /\ file' = [file EXCEPT ![n] = IF @ = "partial" THEN "none" ELSE @]
        /\ UNCHANGED downloading
  /\ UNCHANGED <<menu, model, rebuilds, requests>>

\* subprocess.run of the script: it writes the model file as it goes.
ScriptWrites(t) ==
  /\ Step(t, "script", "run")
  /\ file' = [file EXCEPT ![thread[t].name] = "partial"]
  /\ UNCHANGED <<downloading, menu, model, rebuilds, requests>>

\* The script exits (any return code) leaving the file complete, partial
\* or removed; or TimeoutExpired (or another exception) is caught:
\* discard and return.
ScriptEnds(t) ==
  LET n == thread[t].name IN
  /\ \/ /\ Step(t, "run", "check")
        /\ \E f \in FileStates : file' = [file EXCEPT ![n] = f]
        /\ UNCHANGED downloading
     \/ /\ Step(t, "run", "end") /\ Discard(t) /\ UNCHANGED file
  /\ UNCHANGED <<menu, model, rebuilds, requests>>

\* After the script: a file too small is removed (discard, "please
\* retry"); a complete one is discarded and both menus are rebuilt on the
\* main thread; no file: discard and report the failure.
Check(t) ==
  LET n == thread[t].name IN
  /\ Step(t, "check", "end") /\ Discard(t)
  /\ file' = [file EXCEPT ![n] = IF @ = "partial" THEN "none" ELSE @]
  /\ rebuilds' = IF file[n] = "complete" THEN rebuilds + 1 ELSE rebuilds
  /\ UNCHANGED <<menu, model, requests>>

Next ==
  \/ \E n \in Names : OnDownloadModel(n) \/ OnModelChanged(n)
  \/ OnModelsDirChange \/ RunMarshalled
  \/ \E t \in Threads : Start(t) \/ ScriptWrites(t) \/ ScriptEnds(t) \/ Check(t)

\* The download threads and the Qt event loop run; the user's clicks get
\* no fairness.
Spec == Init /\ [][Next]_vars /\ WF_vars(RunMarshalled)
        /\ \A t \in Threads : WF_vars(Start(t) \/ ScriptWrites(t) \/ ScriptEnds(t) \/ Check(t))

-----------------------------------------------------------------------------
(* Properties.                                                             *)

\* A model whose download thread has ended, once the main thread has run
\* every rebuild marshalled to it, is no longer shown as being downloaded:
\* its entry offers the download again, as the "please retry" and
\* "Download failed" notifications ask of the user, or is the model.
RetryOffered ==
  rebuilds = 0 => \A n \in Names : n \notin downloading => menu[n] # "busy"
=============================================================================
