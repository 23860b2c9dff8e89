--------------------------- MODULE MCModelDownload ---------------------------
(***************************************************************************)
(* ModelDownload with two of the available models and two requests.       *)
(***************************************************************************)
EXTENDS ModelDownload

MCNames == {"tiny", "base"}
====
