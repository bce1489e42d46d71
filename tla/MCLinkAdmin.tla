---------------------------- MODULE MCLinkAdmin ----------------------------
(***************************************************************************)
(* Small instances of LinkAdmin for TLC.                                   *)
(***************************************************************************)
EXTENDS LinkAdmin, TLC

(* Adapters differ in nothing but their name. *)
LinkSymmetry == Permutations(Links)
=============================================================================
