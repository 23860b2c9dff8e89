---------------------------- MODULE MCSiriRemote ----------------------------
(***************************************************************************)
(* SiriRemote instantiated for TLC: the .cfg files bound the lines read    *)
(* and the sessions opened, and say whether the server may die and        *)
(* whether it answers within close()'s timeout.                            *)
(***************************************************************************)
EXTENDS SiriRemote
=============================================================================
