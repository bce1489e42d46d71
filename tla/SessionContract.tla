--------------------------- MODULE SessionContract ---------------------------
(***************************************************************************)
(* What the SRT session promises to the output: the only things the media  *)
(* path knows of it.  SrtSession implements it, MediaQueue is built on it. *)
(***************************************************************************)
VARIABLE sess  \* "off"   no session that wait_connected has accepted
               \* "up"    connected_ is true
               \* "down"  the connection is lost, the output is not yet told
               \* "mark"  the output's Reconnecting callback is running
               \* "wait"  told; reconnecting, or given up after a fatal error

SessionTypes == sess \in {"off", "up", "down", "mark", "wait"}

Init == sess = "off"

(* wait_connected returns true; the connection may be lost again already.   *)
Open == sess = "off" /\ sess' \in {"up", "down"}

(* The connection is lost. *)
Drop == sess = "up" /\ sess' = "down"

(* Reconnecting is reported, once for the loss and for each failed attempt. *)
Report == sess \in {"down", "wait"} /\ sess' = "mark"

(* The callback returns. *)
Reported == sess = "mark" /\ sess' = "wait"

(* Connected again: only after the loss has been reported. *)
Resume == sess = "wait" /\ sess' = "up"

(* stop() returns: never while a callback is running. *)
Close == sess \in {"up", "down", "wait"} /\ sess' = "off"

(* send_ts may begin, and one that has begun may succeed. *)
MayBegin == sess = "up"
MaySucceed == sess \in {"up", "mark", "wait"}

Next == Open \/ Drop \/ Report \/ Reported \/ Resume \/ Close

Spec == Init /\ [][Next]_sess
=============================================================================
