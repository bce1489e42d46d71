--------------------------- MODULE LinkAdminProofs ---------------------------
(***************************************************************************)
(* Opt-in of new adapters and obedience of the scheduler, for any set of   *)
(* adapters, any channel capacity and any number of clicks, plugs and      *)
(* starts.                                                                 *)
(***************************************************************************)
EXTENDS LinkAdmin, SequenceTheorems, TLAPS

(* What is in flight is consistent in itself, and what the dock shows was   *)
(* approved: a start copies it into the engine.                             *)
InFlight ==
  /\ selected \subseteq approved
  /\ \A i \in 1 .. Len(control) : control[i].on \subseteq control[i].links

LInv == TypeOK /\ NewLinksOptIn /\ AdminStateApplied /\ InFlight

-----------------------------------------------------------------------------
(* The messages are messages. *)
LEMMA MessageTypes ==
  /\ \A l \in Links, e \in BOOLEAN :
       /\ SetLink(l, e) \in Message
       /\ SetLink(l, e).on \subseteq SetLink(l, e).links
       /\ SetLink(l, e).on = IF e THEN {l} ELSE {}
  /\ \A links \in SUBSET Links : \A on \in SUBSET links :
       /\ UpdateLinks(links, on) \in Message
       /\ UpdateLinks(links, on).on \subseteq UpdateLinks(links, on).links
       /\ UpdateLinks(links, on).on = on
BY DEF Message, SetLink, UpdateLinks

(* An empty channel is a channel. *)
LEMMA EmptyChannel == <<>> \in Seq(Message) /\ Len(<<>>) <= ControlCapacity
BY EmptySeq, LinkAdminAssumption

(* What is taken from and left in the channel was in it. *)
LEMMA TakeFacts ==
  ASSUME NEW c \in Seq(Message), c # <<>>
  PROVE  /\ Head(c) \in Message /\ Head(c) = c[1] /\ 1 \in 1 .. Len(c)
         /\ Tail(c) \in Seq(Message)
         /\ Len(c) \in Nat /\ Len(Tail(c)) = Len(c) - 1
         /\ \A i \in 1 .. Len(Tail(c)) : Tail(c)[i] = c[i + 1]
<1>1. /\ Head(c) \in Message /\ Tail(c) \in Seq(Message)
      /\ Len(Tail(c)) = Len(c) - 1
      /\ \A i \in 1 .. Len(Tail(c)) : Tail(c)[i] = c[i + 1]
  BY HeadTailProperties
<1>2. Len(c) \in Nat /\ 1 \in 1 .. Len(c)
  BY LenProperties, EmptySeq
<1>3. Head(c) = c[1]
  OBVIOUS
<1> QED
  BY <1>1, <1>2, <1>3

(* Sending a good message that enables approved links only keeps the        *)
(* channel good.                                                            *)
LEMMA SendFacts ==
  ASSUME TypeOK, NewLinksOptIn, InFlight, CanSend,
         NEW m \in Message, m.on \subseteq m.links,
         NEW app \in SUBSET Links, approved \subseteq app, m.on \subseteq app,
         control' = Append(control, m)
  PROVE  /\ control' \in Seq(Message) /\ Len(control') <= ControlCapacity
         /\ \A i \in 1 .. Len(control') : /\ control'[i].on \subseteq app
                                          /\ control'[i].on \subseteq control'[i].links
<1>1. /\ control \in Seq(Message) /\ Len(control) \in Nat
      /\ Len(control) < ControlCapacity
  BY LenProperties DEF TypeOK, CanSend
<1>2. /\ control' \in Seq(Message) /\ Len(control') = Len(control) + 1
      /\ \A i \in 1 .. Len(control) : control'[i] = control[i]
      /\ control'[Len(control) + 1] = m
  BY <1>1, AppendProperties
<1>3. ASSUME NEW i \in 1 .. Len(control')
      PROVE  /\ control'[i].on \subseteq app
             /\ control'[i].on \subseteq control'[i].links
  <2>1. CASE i \in 1 .. Len(control)
    BY <1>2, <2>1 DEF NewLinksOptIn, InFlight
  <2>2. CASE i = Len(control) + 1
    BY <1>2, <2>2
  <2> QED
    BY <1>1, <1>2, <2>1, <2>2
<1> QED
  BY <1>1, <1>2, <1>3, LinkAdminAssumption

(* Taking a message keeps the channel good. *)
LEMMA ReceiveFacts ==
  ASSUME TypeOK, NewLinksOptIn, InFlight, control # <<>>,
         control' = Tail(control)
  PROVE  /\ control' \in Seq(Message) /\ Len(control') <= ControlCapacity
         /\ \A i \in 1 .. Len(control') :
              /\ control'[i].on \subseteq approved
              /\ control'[i].on \subseteq control'[i].links
         /\ Head(control) \in Message
         /\ Head(control).on \subseteq approved
         /\ Head(control).on \subseteq Head(control).links
         /\ Head(control).on \subseteq Links /\ Head(control).links \subseteq Links
<1>1. /\ Head(control) \in Message /\ Head(control) = control[1]
      /\ 1 \in 1 .. Len(control)
      /\ control' \in Seq(Message)
      /\ Len(control) \in Nat /\ Len(control') = Len(control) - 1
      /\ \A i \in 1 .. Len(control') : control'[i] = control[i + 1]
  BY TakeFacts DEF TypeOK
<1>2. Len(control') <= ControlCapacity
  BY <1>1, LinkAdminAssumption DEF TypeOK
<1>3. ASSUME NEW i \in 1 .. Len(control')
      PROVE  /\ control'[i].on \subseteq approved
             /\ control'[i].on \subseteq control'[i].links
  BY <1>1 DEF NewLinksOptIn, InFlight
<1>4. /\ Head(control).on \subseteq approved
      /\ Head(control).on \subseteq Head(control).links
  BY <1>1 DEF NewLinksOptIn, InFlight
<1>5. Head(control).on \subseteq Links /\ Head(control).links \subseteq Links
  BY <1>1 DEF Message
<1> QED
  BY <1>1, <1>2, <1>3, <1>4, <1>5

(* The invariant holds initially. *)
LEMMA InitLInv == Init => LInv
<1> SUFFICES ASSUME Init PROVE LInv
  OBVIOUS
<1>1. TypeOK
  BY EmptyChannel, LinkAdminAssumption DEF Init, TypeOK, Stats, NoStats
<1>2. NewLinksOptIn /\ AdminStateApplied /\ InFlight
  BY EmptySeq DEF Init, NewLinksOptIn, AdminStateApplied, InFlight, NoStats
<1> QED
  BY <1>1, <1>2 DEF LInv

(* Every step preserves the invariant. *)
LEMMA NextLInv == LInv /\ [Next]_vars => LInv'
<1> SUFFICES ASSUME LInv, [Next]_vars PROVE LInv'
  OBVIOUS
<1> USE LinkAdminAssumption
<1> USE DEF LInv, dockVars, engineVars, runnerVars, envVars
<1>1. CASE \E l \in Links : Plug(l)
  <2>1. TypeOK'
    BY <1>1 DEF Plug, TypeOK, Stats, NoStats
  <2>2. NewLinksOptIn' /\ InFlight'
    BY <1>1 DEF Plug, TypeOK, NewLinksOptIn, InFlight, NoStats
  <2>3. AdminStateApplied'
    BY <1>1 DEF Plug, TypeOK, AdminStateApplied
  <2> QED
    BY <2>1, <2>2, <2>3
<1>2. CASE \E l \in Links : Toggle(l)
  <2> PICK l \in Links : Toggle(l)
    BY <1>2
  <2> DEFINE enabled == l \notin selected
             on      == IF enabled THEN cfgOn \union {l} ELSE cfgOn \ {l}
  <2>1. /\ on \subseteq cfg /\ on \subseteq approved'
        /\ approved \subseteq approved' /\ approved' \in SUBSET Links
        /\ selected' \subseteq approved' /\ selected' \in SUBSET Links
        /\ SetLink(l, enabled) \in Message
        /\ SetLink(l, enabled).on \subseteq SetLink(l, enabled).links
        /\ SetLink(l, enabled).on \subseteq approved'
    BY MessageTypes DEF Toggle, TypeOK, NewLinksOptIn, InFlight
  <2>2. /\ control' \in Seq(Message) /\ Len(control') <= ControlCapacity
        /\ \A i \in 1 .. Len(control') : /\ control'[i].on \subseteq approved'
                                         /\ control'[i].on \subseteq control'[i].links
    <3>1. CASE CanSend /\ control' = Append(control, SetLink(l, enabled))
      BY <2>1, <3>1, SendFacts
    <3>2. CASE control' = control
      BY <2>1, <3>2 DEF TypeOK, NewLinksOptIn, InFlight
    <3> QED
      BY <3>1, <3>2 DEF Toggle
  <2>3. TypeOK'
    BY <2>1, <2>2 DEF Toggle, RunnerFor, TypeOK, Stats, NoStats
  <2>4. NewLinksOptIn' /\ InFlight'
    BY <2>1, <2>2 DEF Toggle, RunnerFor, NewLinksOptIn, InFlight, NoStats
  <2>5. AdminStateApplied'
    BY <2>1 DEF Toggle, RunnerFor, AdminStateApplied
  <2> QED
    BY <2>3, <2>4, <2>5
<1>3. CASE \E l \in Links : ToggleStopped(l)
  <2>1. TypeOK'
    BY <1>3 DEF ToggleStopped, TypeOK, Stats, NoStats
  <2>2. NewLinksOptIn' /\ InFlight'
    BY <1>3 DEF ToggleStopped, TypeOK, NewLinksOptIn, InFlight, NoStats
  <2>3. AdminStateApplied'
    BY <1>3 DEF ToggleStopped, TypeOK, AdminStateApplied
  <2> QED
    BY <2>1, <2>2, <2>3
<1>4. CASE Start
  <2>1. TypeOK'
    BY <1>4 DEF Start, RunnerFor, InFlight, TypeOK, Stats, NoStats
  <2>2. NewLinksOptIn' /\ InFlight'
    BY <1>4 DEF Start, RunnerFor, TypeOK, NewLinksOptIn, InFlight, NoStats
  <2>3. AdminStateApplied'
    BY <1>4 DEF Start, RunnerFor, InFlight, TypeOK, AdminStateApplied
  <2> QED
    BY <2>1, <2>2, <2>3
<1>5. CASE Stop
  <2>1. TypeOK'
    BY <1>5, EmptyChannel DEF Stop, TypeOK, Stats, NoStats
  <2>2. NewLinksOptIn' /\ InFlight'
    BY <1>5, EmptyChannel DEF Stop, TypeOK, NewLinksOptIn, InFlight, NoStats
  <2>3. AdminStateApplied'
    BY <1>5 DEF Stop, TypeOK, AdminStateApplied
  <2> QED
    BY <2>1, <2>2, <2>3
<1>6. CASE RefreshAdapters
  <2>1. /\ EnabledAfterUpdate \subseteq present
        /\ EnabledAfterUpdate \subseteq approved /\ present \in SUBSET Links
    BY DEF EnabledAfterUpdate, TypeOK, NewLinksOptIn
  <2> DEFINE m == UpdateLinks(present, EnabledAfterUpdate)
  <2>2. m \in Message /\ m.on \subseteq m.links /\ m.on \subseteq approved
    BY <2>1, MessageTypes
  <2>3. approved' = approved /\ approved \in SUBSET Links
    BY <1>6 DEF RefreshAdapters, TypeOK
  <2>4. /\ control' \in Seq(Message) /\ Len(control') <= ControlCapacity
        /\ \A i \in 1 .. Len(control') : /\ control'[i].on \subseteq approved
                                         /\ control'[i].on \subseteq control'[i].links
    <3>1. CASE CanSend /\ control' = Append(control, m)
      BY <2>2, <2>3, <3>1, SendFacts
    <3>2. CASE control' = control
      BY <3>2 DEF TypeOK, NewLinksOptIn, InFlight
    <3> QED
      BY <1>6, <3>1, <3>2 DEF RefreshAdapters
  <2>5. TypeOK'
    BY <1>6, <2>1, <2>4 DEF RefreshAdapters, RunnerFor, TypeOK, Stats, NoStats
  <2>6. NewLinksOptIn' /\ InFlight'
    BY <1>6, <2>1, <2>4 DEF RefreshAdapters, RunnerFor, NewLinksOptIn, InFlight,
       NoStats
  <2>7. AdminStateApplied'
    BY <1>6 DEF RefreshAdapters, RunnerFor, AdminStateApplied
  <2> QED
    BY <2>5, <2>6, <2>7
<1>7. CASE SyncRunnerStats
  <2>1. TypeOK'
    BY <1>7 DEF SyncRunnerStats, TypeOK, Stats, NoStats
  <2>2. NewLinksOptIn' /\ InFlight'
    BY <1>7 DEF SyncRunnerStats, Stats, TypeOK, NewLinksOptIn, InFlight, NoStats
  <2>3. AdminStateApplied'
    BY <1>7 DEF SyncRunnerStats, Stats, TypeOK, AdminStateApplied
  <2> QED
    BY <2>1, <2>2, <2>3
<1>8. CASE FirstConnections
  <2>1. TypeOK'
    BY <1>8 DEF FirstConnections, NewLinksOptIn, TypeOK, Stats, NoStats
  <2>2. NewLinksOptIn' /\ InFlight'
    BY <1>8 DEF FirstConnections, TypeOK, NewLinksOptIn, InFlight, NoStats
  <2>3. AdminStateApplied'
    BY <1>8 DEF FirstConnections, NewLinksOptIn, TypeOK, AdminStateApplied
  <2> QED
    BY <2>1, <2>2, <2>3
<1>9. CASE HandleSetLink
  <2> DEFINE m       == Head(control)
             enabled == m.on # {}
             on      == IF enabled THEN rOn \union m.on ELSE rOn \ m.links
  <2>1. control # <<>> /\ control' = Tail(control)
    BY <1>9 DEF HandleSetLink
  <2>2. /\ control' \in Seq(Message) /\ Len(control') <= ControlCapacity
        /\ \A i \in 1 .. Len(control') : /\ control'[i].on \subseteq approved
                                         /\ control'[i].on \subseteq control'[i].links
        /\ m.on \subseteq approved /\ m.on \subseteq m.links
        /\ m.on \subseteq Links /\ m.links \subseteq Links
    BY <2>1, ReceiveFacts
  <2>3. /\ UNCHANGED <<envVars, dockVars, engineVars, runner, rLinks, published>>
        /\ \/ UNCHANGED <<rOn, conns, connOn>>
           \/ /\ m.links \subseteq rLinks
              /\ rOn' = on
              /\ conns' \in ConnectionsFor(conns \union m.on)
              /\ connOn' = AdminFlags(conns', on)
    BY <1>9 DEF HandleSetLink
  <2>4. /\ rOn' \subseteq rLinks /\ rOn' \subseteq approved
        /\ conns' \subseteq rLinks /\ connOn' = conns' \intersect rOn'
    BY <2>2, <2>3 DEF ConnectionsFor, AdminFlags, TypeOK, NewLinksOptIn,
       AdminStateApplied
  <2> HIDE DEF m, enabled, on
  <2>5. TypeOK'
    BY <2>2, <2>3, <2>4 DEF TypeOK
  <2>6. NewLinksOptIn' /\ InFlight'
    BY <2>2, <2>3, <2>4 DEF NewLinksOptIn, InFlight
  <2>7. AdminStateApplied'
    BY <2>3, <2>4 DEF AdminStateApplied
  <2> QED
    BY <2>5, <2>6, <2>7
<1>10. CASE HandleUpdateLinks
  <2> DEFINE m == Head(control)
  <2>1. control # <<>> /\ control' = Tail(control)
    BY <1>10 DEF HandleUpdateLinks
  <2>2. /\ control' \in Seq(Message) /\ Len(control') <= ControlCapacity
        /\ \A i \in 1 .. Len(control') : /\ control'[i].on \subseteq approved
                                         /\ control'[i].on \subseteq control'[i].links
        /\ m.on \subseteq approved /\ m.on \subseteq m.links
        /\ m.on \subseteq Links /\ m.links \subseteq Links
    BY <2>1, ReceiveFacts
  <2>3. /\ UNCHANGED <<envVars, dockVars, engineVars, runner, published>>
        /\ rLinks' = m.links /\ rOn' = m.on
        /\ conns' \in ConnectionsFor(m.on \union (m.links \intersect conns))
        /\ connOn' = AdminFlags(conns', m.on)
    BY <1>10 DEF HandleUpdateLinks
  <2>4. conns' \subseteq rLinks' /\ connOn' = conns' \intersect rOn'
    BY <2>2, <2>3 DEF ConnectionsFor, AdminFlags
  <2> HIDE DEF m
  <2>5. TypeOK'
    BY <2>2, <2>3, <2>4 DEF TypeOK
  <2>6. NewLinksOptIn' /\ InFlight'
    BY <2>2, <2>3, <2>4 DEF NewLinksOptIn, InFlight
  <2>7. AdminStateApplied'
    BY <2>4 DEF AdminStateApplied
  <2> QED
    BY <2>5, <2>6, <2>7
<1>11. CASE Housekeeping
  <2>1. /\ conns' \subseteq rLinks /\ connOn' = conns' \intersect rOn
        /\ conns' \in SUBSET Links
    BY <1>11 DEF Housekeeping, ConnectionsFor, TypeOK, AdminStateApplied
  <2>2. TypeOK'
    BY <1>11, <2>1 DEF Housekeeping, TypeOK, Stats
  <2>3. NewLinksOptIn' /\ InFlight'
    BY <1>11, <2>1 DEF Housekeeping, NewLinksOptIn, InFlight
  <2>4. AdminStateApplied'
    BY <1>11, <2>1 DEF Housekeeping, AdminStateApplied
  <2> QED
    BY <2>2, <2>3, <2>4
<1>12. CASE UNCHANGED vars
  BY <1>12 DEF vars, TypeOK, NewLinksOptIn, AdminStateApplied, InFlight
<1> QED
  BY <1>1, <1>2, <1>3, <1>4, <1>5, <1>6, <1>7, <1>8, <1>9, <1>10, <1>11, <1>12
     DEF Next

(* LInv is an invariant of link administration. *)
LEMMA LInvInvariant == Spec => []LInv
<1>1. Init => LInv
  BY InitLInv
<1>2. LInv /\ [Next]_vars => LInv'
  BY NextLInv
<1> QED
  BY <1>1, <1>2, PTL DEF Spec

-----------------------------------------------------------------------------
(* Dock, engine, commands and runner keep their types. *)
THEOREM LinkTypeCorrect == Spec => []TypeOK
<1>1. LInv => TypeOK
  BY DEF LInv
<1> QED
  BY <1>1, LInvInvariant, PTL

(* A hot-plugged adapter is never enabled anywhere before its check box     *)
(* was checked: not in the engine, not in a command, not in the runner.     *)
THEOREM OptInCorrect == Spec => []NewLinksOptIn
<1>1. LInv => NewLinksOptIn
  BY DEF LInv
<1> QED
  BY <1>1, LInvInvariant, PTL

(* The connections the scheduler may use are those of enabled links of the  *)
(* runner's configuration.                                                  *)
THEOREM AdminStateCorrect == Spec => []AdminStateApplied
<1>1. LInv => AdminStateApplied
  BY DEF LInv
<1> QED
  BY <1>1, LInvInvariant, PTL
=============================================================================
