----------------------------- MODULE MCSimpleVAD -----------------------------
(***************************************************************************)
(* SimpleVAD scaled for TLC: a 90 ms trailing silence (3 frames) instead  *)
(* of 300 ms, segments of at least 150 ms and at most 200 ms (forced at 7 *)
(* frames), a 200 ms mute window (2 chunks) and at most 4 chunks (13      *)
(* frames) of audio. The byte arithmetic of the code is kept.             *)
(***************************************************************************)
EXTENDS SimpleVAD
====
