----------------------------- MODULE MCTsMuxer -----------------------------
(***************************************************************************)
(* Small instances of TsMuxer for TLC.                                     *)
(***************************************************************************)
EXTENDS TsMuxer
=============================================================================
