------------------------------ MODULE LinkAdmin ------------------------------
(***************************************************************************)
(* Who decides which uplinks carry media.  The on/off state of a link is   *)
(* kept four times:                                                        *)
(*                                                                         *)
(*   dock     selected_, what the check boxes show        srtla-dock.cpp   *)
(*   engine   config.links[].enabled                      engine lib.rs    *)
(*   runner   configured_links[].enabled                  embedded.rs      *)
(*   uplink   SrtlaConnection::admin_enabled              embedded.rs      *)
(*                                                                         *)
(* The dock and the engine talk to the runner through a bounded control    *)
(* channel; the runner answers through a statistics document that it       *)
(* publishes once a second and that the engine reads back at any time.     *)
(* The engine's mutex makes each of its calls one step, the runner's       *)
(* select loop makes each of its arms one step.                            *)
(***************************************************************************)
EXTENDS Integers, Sequences, FiniteSets

CONSTANTS
  Links,            \* the network adapters, each with one address
  ControlCapacity,  \* capacity of the control channel, 32 in the code
  MaxToggles,       \* bound: check box clicks while the output runs
  MaxPlugs,         \* bound: adapters that come or go
  MaxStarts         \* bound: starts of the output

ASSUME LinkAdminAssumption ==
  /\ ControlCapacity \in Nat \ {0}
  /\ MaxToggles \in Nat
  /\ MaxPlugs \in Nat
  /\ MaxStarts \in Nat

VARIABLES
  present,    \* the adapters that NetworkMonitor would enumerate
  selected,   \* dock: adapters whose check box is checked
  running,    \* Engine::running, and running_ of the dock
  cfg,        \* Engine::config.links
  cfgOn,      \* those with enabled = true
  runner,     \* Engine::runner: "none", "connecting" (first attempt), "loop"
  rLinks,     \* runner: configured_links
  rOn,        \* those with enabled = true
  conns,      \* runner: adapters with an SrtlaConnection
  connOn,     \* those with admin_enabled = true
  control,    \* the control channel
  published,  \* links of the statistics document
  approved,   \* history: adapters that were ever checked
  toggles,    \* history: clicks
  plugs,      \* history: adapters that came or went
  starts      \* history: starts

dockVars   == <<selected, approved, toggles>>
engineVars == <<running, cfg, cfgOn, starts>>
runnerVars == <<rLinks, rOn, conns, connOn, published>>
envVars    == <<present, plugs>>

vars == <<present, selected, running, cfg, cfgOn, runner, rLinks, rOn, conns,
          connOn, control, published, approved, toggles, plugs, starts>>

-----------------------------------------------------------------------------
(* A Control message.  SetLink names one link in links and, if it is to be  *)
(* enabled, in on; UpdateLinks carries the whole configuration.             *)
Message == [kind: {"SetLink", "UpdateLinks"}, links: SUBSET Links,
            on: SUBSET Links]

SetLink(l, enabled) ==
  [kind |-> "SetLink", links |-> {l}, on |-> IF enabled THEN {l} ELSE {}]

UpdateLinks(links, on) == [kind |-> "UpdateLinks", links |-> links, on |-> on]

(* The part of the statistics document that concerns administration. *)
Stats == [links: SUBSET Links, on: SUBSET Links]

NoStats == [links |-> {}, on |-> {}]

(* Every variable has its type, and the control channel its capacity. *)
TypeOK ==
  /\ present \in SUBSET Links /\ selected \in SUBSET Links
  /\ running \in BOOLEAN
  /\ cfg \in SUBSET Links /\ cfgOn \in SUBSET cfg
  /\ runner \in {"none", "connecting", "loop"}
  /\ rLinks \in SUBSET Links /\ rOn \in SUBSET rLinks
  /\ conns \in SUBSET Links /\ connOn \in SUBSET conns
  /\ control \in Seq(Message) /\ Len(control) <= ControlCapacity
  /\ published \in Stats
  /\ approved \in SUBSET Links
  /\ toggles \in Nat /\ plugs \in Nat /\ starts \in Nat

Init ==
  /\ present \in SUBSET Links
  /\ selected \in SUBSET Links      \* EnabledLinks of the OBS profile
  /\ approved = selected
  /\ running = FALSE
  /\ cfg = {} /\ cfgOn = {}
  /\ runner = "none"
  /\ rLinks = {} /\ rOn = {} /\ conns = {} /\ connOn = {}
  /\ control = <<>> /\ published = NoStats
  /\ toggles = 0 /\ plugs = 0 /\ starts = 0

-----------------------------------------------------------------------------
(* An adapter is plugged in or removed.  Nobody is told. *)
Plug(l) ==
  /\ plugs < MaxPlugs
  /\ plugs' = plugs + 1
  /\ present' = IF l \in present THEN present \ {l} ELSE present \union {l}
  /\ UNCHANGED <<dockVars, engineVars, runner, runnerVars, control>>

(* start_runner with a configuration, unless there is a runner already or   *)
(* no link to give it: the runner's thread begins with a connection attempt *)
(* from the configured links.                                               *)
RunnerFor(links, on) ==
  IF runner = "none" /\ links # {}
    THEN /\ runner' = "connecting"
         /\ rLinks' = links /\ rOn' = on
         /\ conns' = {} /\ connOn' = {} /\ published' = NoStats
    ELSE UNCHANGED <<runner, runnerVars>>

(* The dock starts the output: srtla_output_update rebuilds the engine from *)
(* the adapters present and the checked ones among them, and                *)
(* srtla_engine_start starts the runner if there is any adapter.            *)
Start ==
  /\ ~running /\ starts < MaxStarts
  /\ running' = TRUE /\ starts' = starts + 1
  /\ cfg' = present
  /\ cfgOn' = present \intersect selected
  /\ RunnerFor(present, present \intersect selected)
  /\ UNCHANGED <<envVars, dockVars, control>>

(* srtla_engine_stop: the runner is told to stop and joined. *)
Stop ==
  /\ running
  /\ running' = FALSE
  /\ runner' = "none"
  /\ rLinks' = {} /\ rOn' = {} /\ conns' = {} /\ connOn' = {}
  /\ control' = <<>> /\ published' = NoStats
  /\ UNCHANGED <<envVars, dockVars, cfg, cfgOn, starts>>

-----------------------------------------------------------------------------
(* Dock and engine, on the UI thread. *)

(* Mutant: one message too many fits. *)
SendsWhenFull == Len(control) <= ControlCapacity

(* try_send on the bounded channel succeeds. *)
CanSend == Len(control) < ControlCapacity

(* srtla_engine_set_link_enabled answers -3: the last enabled link. *)
LastEnabled(l, enabled) ==
  ~enabled /\ l \in cfgOn /\ Cardinality(cfgOn) <= 1

(* A click on a check box (itemChanged, or SetLinkEnabled of the websocket) *)
(* while the output runs: the engine's configuration changes first, then    *)
(* the command is queued.  If the channel is full the engine keeps the      *)
(* change and the dock takes its check mark back.                           *)
Toggle(l) ==
  LET enabled == l \notin selected
      on      == IF enabled THEN cfgOn \union {l} ELSE cfgOn \ {l}
  IN
  /\ running /\ l \in cfg /\ toggles < MaxToggles
  /\ ~LastEnabled(l, enabled)
  /\ toggles' = toggles + 1
  /\ cfgOn' = on
  /\ RunnerFor(cfg, on)
  /\ approved' = IF enabled THEN approved \union {l} ELSE approved
  /\ \/ /\ CanSend
        /\ control' = Append(control, SetLink(l, enabled))
        /\ selected' = IF enabled THEN selected \union {l} ELSE selected \ {l}
     \/ ~CanSend /\ UNCHANGED <<control, selected>>
  /\ UNCHANGED <<envVars, running, cfg, starts>>

(* A click while the output is stopped concerns the dock alone. *)
ToggleStopped(l) ==
  /\ ~running /\ l \in present /\ toggles < MaxToggles
  /\ toggles' = toggles + 1
  /\ selected' = IF l \in selected THEN selected \ {l} ELSE selected \union {l}
  /\ approved' = approved \union {l}
  /\ UNCHANGED <<envVars, engineVars, runner, runnerVars, control>>

(* Mutant: an adapter the engine does not know is enabled. *)
EnabledUnlessOff == cfgOn \union (present \ cfg)

(* What srtla_engine_update_adapters makes of the enabled flags: known      *)
(* links keep theirs, new ones are disabled.                                *)
EnabledAfterUpdate == cfgOn \intersect present

(* The dock's one-second timer, refreshAdapters: the engine takes over the  *)
(* adapters and sends its configuration to the runner.                      *)
RefreshAdapters ==
  /\ running
  /\ cfg' = present
  /\ cfgOn' = EnabledAfterUpdate
  /\ RunnerFor(present, EnabledAfterUpdate)
  /\ IF CanSend /\ runner' # "none"
       THEN control' = Append(control, UpdateLinks(present, EnabledAfterUpdate))
       ELSE UNCHANGED control
  /\ UNCHANGED <<envVars, dockVars, running, starts>>

(* sync_runner_stats, from the ABR worker every 20 ms and from the dock's   *)
(* timer: the engine adopts admin_enabled of every link the document has.   *)
SyncRunnerStats ==
  /\ running /\ runner # "none"
  /\ cfgOn' = (cfgOn \ published.links) \union (cfg \intersect published.on)
  /\ UNCHANGED <<envVars, dockVars, running, cfg, starts, runner, runnerVars,
                 control>>

-----------------------------------------------------------------------------
(* The runner's thread, run_embedded. *)

(* The attempt before the loop: a connection for some of the enabled links, *)
(* none if the five seconds run out.  A new connection has admin_enabled.   *)
FirstConnections ==
  /\ runner = "connecting"
  /\ runner' = "loop"
  /\ conns' \in SUBSET rOn
  /\ connOn' = conns'
  /\ UNCHANGED <<envVars, dockVars, engineVars, rLinks, rOn, control, published>>

(* Mutant: existing connections are not told. *)
OnlyNewEnabled(cs, on) == (connOn \intersect cs) \union (cs \ conns)

(* Both handlers end by giving each connection its link's flag. *)
AdminFlags(cs, on) == cs \intersect on

(* apply_connection_changes(ips): connections of other addresses go; those  *)
(* that are missing are created, except where that fails or times out.      *)
ConnectionsFor(ips) ==
  {(conns \intersect ips) \union new : new \in SUBSET (ips \ conns)}

(* Control::SetLink.  An unknown link is ignored, and so is the command to  *)
(* disable a link when at most one is enabled.                              *)
HandleSetLink ==
  LET m       == Head(control)
      enabled == m.on # {}
      ignored == ~(m.links \subseteq rLinks) \/ (~enabled /\ Cardinality(rOn) <= 1)
      on      == IF enabled THEN rOn \union m.on ELSE rOn \ m.links
  IN
  /\ runner = "loop" /\ control # <<>> /\ m.kind = "SetLink"
  /\ control' = Tail(control)
  /\ \/ ignored /\ UNCHANGED <<rOn, conns, connOn>>
     \/ /\ ~ignored
        /\ rOn' = on
        /\ conns' \in ConnectionsFor(conns \union m.on)
        /\ connOn' = AdminFlags(conns', on)
  /\ UNCHANGED <<envVars, dockVars, engineVars, runner, rLinks, published>>

(* Control::UpdateLinks: the configuration is replaced; connections exist   *)
(* for enabled links and, as warm standbys, for links that had one.         *)
HandleUpdateLinks ==
  LET m == Head(control) IN
  /\ runner = "loop" /\ control # <<>> /\ m.kind = "UpdateLinks"
  /\ control' = Tail(control)
  /\ rLinks' = m.links
  /\ rOn' = m.on
  /\ conns' \in ConnectionsFor(m.on \union (m.links \intersect conns))
  /\ connOn' = AdminFlags(conns', m.on)
  /\ UNCHANGED <<envVars, dockVars, engineVars, runner, published>>

(* The one-second tick: without any connection, another attempt for the     *)
(* enabled links; then the statistics are published.                        *)
Housekeeping ==
  /\ runner = "loop"
  /\ \/ /\ conns = {}
        /\ conns' \in ConnectionsFor(rOn)
        /\ connOn' = conns'
     \/ conns # {} /\ UNCHANGED <<conns, connOn>>
  /\ published' = [links |-> conns', on |-> connOn']
  /\ UNCHANGED <<envVars, dockVars, engineVars, runner, rLinks, rOn, control>>

-----------------------------------------------------------------------------
Next ==
  \/ \E l \in Links : Plug(l) \/ Toggle(l) \/ ToggleStopped(l)
  \/ Start \/ Stop
  \/ RefreshAdapters \/ SyncRunnerStats
  \/ FirstConnections \/ HandleSetLink \/ HandleUpdateLinks \/ Housekeeping

Spec == Init /\ [][Next]_vars

-----------------------------------------------------------------------------
(* "New interfaces are opt-in so a hot-plug event cannot silently increase  *)
(* the aggregate bitrate or expose a metered link" (lib.rs:986-987): no     *)
(* copy of the state, no message and no connection ever enables an adapter  *)
(* that was never checked.                                                  *)
NewLinksOptIn ==
  /\ cfgOn \subseteq approved
  /\ rOn \subseteq approved
  /\ connOn \subseteq approved
  /\ published.on \subseteq approved
  /\ \A i \in 1 .. Len(control) : control[i].on \subseteq approved

(* The scheduler obeys the runner's configuration: every connection belongs *)
(* to a configured link and carries that link's flag, although connections  *)
(* are born enabled and three different paths create them.                  *)
AdminStateApplied ==
  /\ conns \subseteq rLinks
  /\ connOn = conns \intersect rOn

(* "The last enabled link cannot be disabled" (README.md:25-26): the runner *)
(* does not go from some enabled link to none while that link stays.        *)
LastLinkStays ==
  [][/\ runner = "loop" /\ runner' = "loop"
     /\ rOn # {} /\ rOn \subseteq rLinks'
     => rOn' # {}]_vars
=============================================================================
