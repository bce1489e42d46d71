--------------------------- MODULE MCDockProfile ---------------------------
(***************************************************************************)
(* Small instances of DockProfile for TLC.                                 *)
(***************************************************************************)
EXTENDS DockProfile

CONSTANTS Key, Short, Id   \* texts: two passphrases and a stream id

(* A profile that the plugin has saved. *)
Plain == [query |-> NoQuery, stream |-> Id, secret |-> Key, dpapi |-> FALSE,
          latency |-> 1, links |-> Links, auto |-> TRUE, manual |-> 1,
          max |-> DefaultMax]

(* An old profile: everything is in the URL, the maximum is unlimited. *)
Old == [Plain EXCEPT !.query = [stream |-> Id, pass |-> Key, latency |-> 2],
                     !.stream = NoText, !.secret = NoText, !.links = {},
                     !.auto = FALSE, !.max = LegacyMax]

(* The same with a passphrase that cannot be saved and an empty stream id. *)
OldShort == [Old EXCEPT !.query.pass = Short, !.query.stream = NoText]

(* Profiles of a version that used DPAPI, the second with a query. *)
Dpapi == [Plain EXCEPT !.secret = NoText, !.dpapi = TRUE]
DpapiQuery == [Old EXCEPT !.dpapi = TRUE]

MCFound == {Plain, Old, OldShort, Dpapi, DpapiQuery}
=============================================================================
