-------------------------- MODULE MCBitrateControl --------------------------
(***************************************************************************)
(* Small instances of BitrateControl for TLC.                              *)
(***************************************************************************)
EXTENDS BitrateControl
=============================================================================
