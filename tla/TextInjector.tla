---------------------------- MODULE TextInjector ----------------------------
(***************************************************************************)
(* TextInjector of whisper.linux (src/examples/whisper.linux/app/         *)
(* injector.py): one call of inject(text) or send_key(key), walking the   *)
(* chain of external tools for the display server. Every subprocess.run   *)
(* with check=True ends one of three ways: it exits 0, it fails           *)
(* (CalledProcessError or FileNotFoundError, which the chain catches) or  *)
(* it times out (TimeoutExpired, which no except clause names). The text  *)
(* is the model value "T"; the clipboard holds "Old" before the call.     *)
(***************************************************************************)
EXTENDS Naturals, Sequences

CONSTANTS
  Keys,       \* keys send_key is given, as "+"-separated parts: <<"ctrl", "BackSpace">>
  PasteKeys   \* config.paste_keys, as parts

\* TextInjector._YDOTOOL_KEY_MAP (X11 keysym -> evdev name).
YdotoolKeyMap == [k \in {"Return", "Escape"} |-> IF k = "Return" THEN "Enter" ELSE "Esc"]

\* The key ydotool is given: each part of key.split("+") through the map
\* (a key without "+" is its single part).
Evdev(key) ==
  [i \in DOMAIN key |-> IF key[i] \in DOMAIN YdotoolKeyMap
                        THEN YdotoolKeyMap[key[i]] ELSE key[i]]

Outcomes == {"ok", "fail", "timeout"}

\* The calls the chain may serve: a non-empty text, ASCII or not, or a key.
Requests == [fn : {"inject"}, ascii : BOOLEAN] \cup [fn : {"key"}, key : Keys]

VARIABLES
  req,        \* the call being served
  ds,         \* config.display_server: "x11" or "wayland"
  useClip,    \* config.use_clipboard_fallback
  pc,         \* the subprocess.run the chain is at
  clipboard,  \* the CLIPBOARD selection
  primary,    \* the PRIMARY selection
  screen,     \* what reached the focused window: [by, what], in order
  result      \* "running", "returned" or "raised"

vars == <<req, ds, useClip, pc, clipboard, primary, screen, result>>

\* _inject_x11: the clipboard for use_clipboard_fallback or non-ASCII
\* text, xdotool type otherwise.
X11StartOf(r) == IF useClip \/ ~r.ascii THEN "xclip" ELSE "xdotype"
X11Start == X11StartOf(req)

\* The first tool of the chain for request r: inject dispatches on the
\* display server, send_key likewise (the Wayland key chain ends in the
\* same xdotool key as the X11 one).
FirstTool(r) ==
  CASE r.fn = "inject" /\ ds = "x11" -> X11StartOf(r)
    [] r.fn = "inject"               -> "wtype"
    [] ds = "x11"                    -> "xdokey"
    [] OTHER                         -> "wtypekey"

\* One call of inject or send_key, on either display server.
Init ==
  /\ req \in Requests /\ ds \in {"x11", "wayland"} /\ useClip \in BOOLEAN
  /\ pc = FirstTool(req)
  /\ clipboard = "Old" /\ primary = "Old"
  /\ screen = <<>> /\ result = "running"

\* What a paste of keys k inserts: shift+Insert pastes PRIMARY.
Pasted(k) == IF k = <<"shift", "Insert">> THEN primary ELSE clipboard

\* The subprocess.run at step p of the chain, while the call runs.
At(p) == pc = p /\ result = "running" /\ UNCHANGED <<req, ds, useClip>>

\* A caught failure: go on with the next tool of the chain.
Goto(p) == pc' = p /\ UNCHANGED <<clipboard, primary, screen, result>>

\* A tool put what into the focused window, and the call returns.
Show(by, what) ==
  /\ screen' = Append(screen, [by |-> by, what |-> what])
  /\ result' = "returned" /\ UNCHANGED <<pc, clipboard, primary>>

\* The call returns with nothing shown (a failure that is only logged).
ReturnQuietly == result' = "returned" /\ UNCHANGED <<pc, clipboard, primary, screen>>

\* An exception no except clause catches leaves the call.
Raise == result' = "raised" /\ UNCHANGED <<pc, clipboard, primary, screen>>

\* A typing tool killed by its timeout may have typed part of the text.
RaiseTyping(by) ==
  /\ screen' \in {screen, Append(screen, [by |-> by, what |-> "partial"])}
  /\ result' = "raised" /\ UNCHANGED <<pc, clipboard, primary>>

-----------------------------------------------------------------------------
(* inject(text).                                                           *)

\* _inject_x11: xdotool type; a failure falls back to the clipboard.
XdoType(o) ==
  /\ At("xdotype")
  /\ \/ o = "ok" /\ Show("xdotool", "T")
     \/ o = "fail" /\ Goto("xclip")
     \/ o = "timeout" /\ RaiseTyping("xdotool")

\* Fault model of XClip: a failing xclip is logged and the call returns.
XClipQuiet(o) ==
  /\ At("xclip")
  /\ \/ o = "ok" /\ clipboard' = "T" /\ pc' = "xdopaste"
        /\ UNCHANGED <<primary, screen, result>>
     \/ o # "ok" /\ ReturnQuietly

\* _inject_clipboard_x11: xclip -selection clipboard; nothing is caught.
XClip(o) ==
  /\ At("xclip")
  /\ \/ o = "ok" /\ clipboard' = "T" /\ pc' = "xdopaste"
        /\ UNCHANGED <<primary, screen, result>>
     \/ o # "ok" /\ Raise

\* _inject_clipboard_x11: xdotool key ctrl+v; nothing is caught.
XdoPaste(o) ==
  /\ At("xdopaste")
  /\ \/ o = "ok" /\ Show("xdotool", clipboard)
     \/ o # "ok" /\ Raise

\* _inject_wayland: wtype; a failure goes on to wl-copy.
WType(o) ==
  /\ At("wtype")
  /\ \/ o = "ok" /\ Show("wtype", "T")
     \/ o = "fail" /\ Goto("wlcopy")
     \/ o = "timeout" /\ RaiseTyping("wtype")

\* wl-copy, then wl-copy --primary, in one try: either failing falls back
\* to _inject_x11 (through XWayland) and returns after it.
WlCopy(o) ==
  /\ At("wlcopy")
  /\ \/ o = "ok" /\ clipboard' = "T" /\ pc' = "wlprimary"
        /\ UNCHANGED <<primary, screen, result>>
     \/ o = "fail" /\ Goto(X11Start)
     \/ o = "timeout" /\ Raise

\* Fault model of WlPrimary: only the CLIPBOARD selection is set.
WlPrimarySkipped(o) ==
  /\ At("wlprimary")
  /\ pc' = "ydopaste" /\ UNCHANGED <<clipboard, primary, screen, result>>

WlPrimary(o) ==
  /\ At("wlprimary")
  /\ \/ o = "ok" /\ primary' = "T" /\ pc' = "ydopaste"
        /\ UNCHANGED <<clipboard, screen, result>>
     \/ o = "fail" /\ Goto(X11Start)
     \/ o = "timeout" /\ Raise

\* ydotool key <paste_keys>; a failure goes on to xdotool.
YdoPaste(o) ==
  /\ At("ydopaste")
  /\ \/ o = "ok" /\ Show("ydotool", Pasted(PasteKeys))
     \/ o = "fail" /\ Goto("xdopastekeys")
     \/ o = "timeout" /\ Raise

\* xdotool key <paste_keys>; when it fails the text stays on the
\* clipboard and a warning is logged.
XdoPasteKeys(o) ==
  /\ At("xdopastekeys")
  /\ \/ o = "ok" /\ Show("xdotool", Pasted(PasteKeys))
     \/ o = "fail" /\ ReturnQuietly
     \/ o = "timeout" /\ Raise

-----------------------------------------------------------------------------
(* send_key(key).                                                          *)

\* _send_key_x11 and the last step of _send_key_wayland: xdotool key;
\* a failure is logged.
XdoKey(o) ==
  /\ At("xdokey")
  /\ \/ o = "ok" /\ Show("xdotool", req.key)
     \/ o = "fail" /\ ReturnQuietly
     \/ o = "timeout" /\ Raise

\* _send_key_wayland: wtype -M <mod> ... -k <key>.
WTypeKey(o) ==
  /\ At("wtypekey")
  /\ \/ o = "ok" /\ Show("wtype", req.key)
     \/ o = "fail" /\ Goto("ydokey")
     \/ o = "timeout" /\ Raise

\* Fault model of YdoKey: the X11 keysym is passed to ydotool as is.
YdoKeyRaw(o) ==
  /\ At("ydokey")
  /\ \/ o = "ok" /\ Show("ydotool", req.key)
     \/ o = "fail" /\ Goto("xdokey")
     \/ o = "timeout" /\ Raise

\* _send_key_wayland: ydotool key with the evdev names.
YdoKey(o) ==
  /\ At("ydokey")
  /\ \/ o = "ok" /\ Show("ydotool", Evdev(req.key))
     \/ o = "fail" /\ Goto("xdokey")
     \/ o = "timeout" /\ Raise

Next ==
  \E o \in Outcomes :
    \/ XdoType(o) \/ XClip(o) \/ XdoPaste(o)
    \/ WType(o) \/ WlCopy(o) \/ WlPrimary(o) \/ YdoPaste(o) \/ XdoPasteKeys(o)
    \/ XdoKey(o) \/ WTypeKey(o) \/ YdoKey(o)

\* Every tool exits or is killed by its timeout.
Spec == Init /\ [][Next]_vars /\ WF_vars(Next)

-----------------------------------------------------------------------------
(* Properties.                                                             *)

TypeOK ==
  /\ req \in Requests /\ ds \in {"x11", "wayland"} /\ useClip \in BOOLEAN
  /\ clipboard \in {"Old", "T"} /\ primary \in {"Old", "T"}
  /\ result \in {"running", "returned", "raised"}
  /\ Len(screen) <= 1

\* What the focused window may receive from a tool: this call's text
\* (or, from a killed typing tool, part of it), or this call's key in
\* the names that tool takes (evdev names for ydotool, spec section 6).
Intended(by) ==
  IF req.fn = "inject" THEN {"T", "partial"}
  ELSE {IF by = "ydotool" THEN Evdev(req.key) ELSE req.key}

\* Whatever backend succeeds, the window receives this call's text or key
\* and nothing else: no paste of a selection the chain did not set, no
\* key in the wrong naming, and no second delivery after a first one.
ShowsOnlyItsInput ==
  \A i \in DOMAIN screen : screen[i].what \in Intended(screen[i].by)

\* Spec 7 (InjectionFailed): when inject returns normally, the text was
\* typed or pasted, or else it is left on the clipboard for the user.
ReturnedTextReachable ==
  req.fn = "inject" /\ result = "returned" =>
    (\E i \in DOMAIN screen : screen[i].what = "T") \/ clipboard = "T"
=============================================================================
