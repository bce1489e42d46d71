---------------------------- MODULE MCSrtSession ----------------------------
(***************************************************************************)
(* Small instances of SrtSession for TLC.                                  *)
(***************************************************************************)
EXTENDS SrtSession

=============================================================================
