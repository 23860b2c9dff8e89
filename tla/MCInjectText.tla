---------------------------- MODULE MCInjectText ----------------------------
(***************************************************************************)
(* InjectText with the words and command map of MCVoiceCommands and the   *)
(* keys and paste_keys of MCTextInjector: the keys process sends reach    *)
(* send_key as their "+"-separated parts.                                 *)
(***************************************************************************)
EXTENDS InjectText

MCWords == {"hi", "Enter.", "inter", "backspace", "-"}

MCClean(w) ==
  CASE w = "Enter." -> "enter"
    [] w = "-"      -> ""
    [] OTHER        -> w

MCCommands ==
  << [word |-> "enter",     action |-> <<"key", "Return">>],
     [word |-> "backspace", action |-> <<"backspace">>],
     [word |-> "tab",       action |-> <<"key", "Tab">>],
     [word |-> "escape",    action |-> <<"key", "Escape">>] >>

\* Only the exact matches (100) and "inter" against "enter" (80) reach
\* the threshold; the other pairs, all below 45, are given as 0.
MCRatio(c, w) ==
  CASE c = w                      -> 100
    [] c = "enter" /\ w = "inter" -> 80
    [] OTHER                      -> 0

MCPrior == <<"earlier">>

MCKeys == {<<"Return">>, <<"Escape">>, <<"Tab">>, <<"ctrl", "BackSpace">>}
MCPasteKeys == <<"shift", "Insert">>

MCKeyParts(k) == IF k = "ctrl+BackSpace" THEN <<"ctrl", "BackSpace">> ELSE <<k>>
====
