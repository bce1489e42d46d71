--------------------------- MODULE BitrateControl ---------------------------
(***************************************************************************)
(* Who sets the encoder's bitrate.  Two threads of the plugin write it:    *)
(*                                                                         *)
(*   UI      start, stop, and the dock's two bitrate controls       ui     *)
(*   worker  the ABR loop of start_abr_worker, every 20 ms          abrPc  *)
(*                                                                         *)
(* bitrate_mutex covers what the UI does and the worker's write, but not   *)
(* the worker's call of srtla_engine_apply_abr, whose result it writes     *)
(* later.  The engine (lib.rs, abr.rs) has a mutex of its own: each of its *)
(* calls is one step.  Bitrates are whole kb/s throughout.                 *)
(*                                                                         *)
(* What abr.rs learns from RTT and send buffer (floating point) appears as *)
(* the outcome of its four comparisons, in any combination.                *)
(***************************************************************************)
EXTENDS Integers

CONSTANTS
  MinBitrate,     \* min_bitrate_kbps
  Maxima,         \* values of the automatic maximum
  Manuals,        \* values of the manual bitrate
  Originals,      \* bitrates OBS may have given the encoder
  Rounding,       \* ROUNDING_BPS
  IncreaseMin,    \* BITRATE_INCREASE_MIN_BPS
  IncreaseScale,  \* BITRATE_INCREASE_SCALE
  DecreaseMin,    \* BITRATE_DECREASE_MIN_BPS
  DecreaseScale,  \* BITRATE_DECREASE_SCALE
  MaxChanges      \* bound: changes of a bitrate control

ASSUME BitrateAssumption ==
  /\ MinBitrate \in Nat \ {0}
  /\ Maxima \subseteq Nat /\ \A m \in Maxima : MinBitrate <= m
  /\ Manuals \subseteq Nat \ {0}
  /\ Originals \subseteq Nat \ {0}
  /\ Rounding \in Nat \ {0}
  /\ IncreaseMin \in Nat /\ IncreaseScale \in Nat \ {0}
  /\ DecreaseMin \in Nat /\ DecreaseScale \in Nat \ {0}
  /\ MaxChanges \in Nat

VARIABLES
  ui,           \* UI thread: "cap" and "set" hold bitrate_mutex
  dockOn,       \* SrtlaDock::running_
  running,      \* SrtlaOutput::running
  failing,      \* the engine reports an error; the fatal stop is queued
  autoBitrate,  \* SrtlaOutput::auto_bitrate
  manual,       \* SrtlaOutput::manual_bitrate_kbps
  maximum,      \* SrtlaOutput::max_bitrate_kbps
  overridden,   \* SrtlaOutput::bitrate_overridden
  original,     \* SrtlaOutput::original_bitrate_kbps
  encoder,      \* "bitrate" of the OBS encoder
  dynamic,      \* the encoder has OBS_ENCODER_CAP_DYN_BITRATE
  abrPc,        \* where the ABR worker is
  target,       \* worker: applied_bps, the result of srtla_engine_apply_abr
  engMax,       \* AbrController::config.max_bps
  internal,     \* AbrController::internal_bitrate_bps
  current,      \* Engine::current_video_bps
  fresh,        \* Engine::srt_stats holds a usable sample not yet consumed
  sessionUp,    \* Engine::session_state is SESSION_CONNECTED
  linkUp,       \* some enabled link is connected
  incDue,       \* now_ms is past next_increase_ms
  decDue,       \* now_ms is past next_decrease_ms
  own,          \* history: bitrate given to the encoder outside a run
  changes       \* history: changes of a bitrate control

dockVars    == <<dockOn, changes>>
modeVars    == <<autoBitrate, manual, maximum>>
restoreVars == <<overridden, original, own, dynamic>>
engineVars  == <<engMax, internal, current>>
sampleVars  == <<fresh, sessionUp, linkUp, incDue, decDue>>

vars == <<ui, dockOn, running, failing, autoBitrate, manual, maximum,
          overridden, original, encoder, dynamic, abrPc, target, engMax,
          internal, current, fresh, sessionUp, linkUp, incDue, decDue, own,
          changes>>

-----------------------------------------------------------------------------
Smaller(a, b) == IF a < b THEN a ELSE b
Larger(a, b)  == IF a > b THEN a ELSE b

Clamp(x, lo, hi) == IF x < lo THEN lo ELSE IF x > hi THEN hi ELSE x

FlagTypes ==
  /\ dockOn \in BOOLEAN /\ running \in BOOLEAN /\ failing \in BOOLEAN
  /\ autoBitrate \in BOOLEAN /\ overridden \in BOOLEAN /\ dynamic \in BOOLEAN
  /\ fresh \in BOOLEAN /\ sessionUp \in BOOLEAN /\ linkUp \in BOOLEAN
  /\ incDue \in BOOLEAN /\ decDue \in BOOLEAN
  /\ ui \in {"idle", "starting", "cap", "set", "stopping"}
  /\ abrPc \in {"off", "idle", "decide", "write"}

NumberTypes ==
  /\ manual \in Nat /\ maximum \in Nat /\ original \in Nat /\ encoder \in Nat
  /\ own \in Nat /\ changes \in Nat
  /\ engMax \in Nat /\ MinBitrate <= engMax
  /\ internal \in MinBitrate .. engMax
  /\ current \in Nat /\ target \in Nat

(* Every variable has its type; the controller's internal bitrate stays     *)
(* between the minimum and the live maximum, whichever thread changes       *)
(* either of them (abr.rs clamps at each entry point).                      *)
TypeOK == FlagTypes /\ NumberTypes

Init ==
  /\ ui = "idle" /\ dockOn = FALSE /\ running = FALSE /\ failing = FALSE
  /\ autoBitrate \in BOOLEAN /\ manual \in Manuals /\ maximum \in Maxima
  /\ overridden = FALSE /\ original = 0
  /\ encoder \in Originals /\ own = encoder /\ dynamic \in BOOLEAN
  /\ abrPc = "off" /\ target = 0
  /\ engMax = Larger(maximum, Rounding)
  /\ internal = Clamp(maximum, MinBitrate, engMax) /\ current = internal
  /\ fresh = FALSE /\ sessionUp = FALSE /\ linkUp = FALSE
  /\ incDue = TRUE /\ decDue = TRUE
  /\ changes = 0

-----------------------------------------------------------------------------
(* The engine's calls. *)

(* srtla_engine_set_video_bitrate(bps). *)
SetVideoBitrate(bps, max) ==
  /\ current' = Larger(bps, 1)
  /\ internal' = Clamp(bps, MinBitrate, max)

(* srtla_engine_set_session_state: the learned state is dropped and the     *)
(* controller starts again from the bitrate in use.                         *)
SessionState(up) ==
  /\ ui = "starting" \/ running
  /\ sessionUp' = up
  /\ fresh' = (fresh /\ up)
  /\ internal' = Clamp(current, MinBitrate, engMax)
  /\ incDue' = TRUE /\ decDue' = TRUE
  /\ UNCHANGED <<ui, dockVars, running, failing, modeVars, restoreVars, encoder,
                 abrPc, target, engMax, current, linkUp>>

(* Links connect and break; time passes. *)
LinkChange ==
  /\ linkUp' = ~linkUp
  /\ UNCHANGED <<ui, dockVars, running, failing, modeVars, restoreVars, encoder,
                 abrPc, target, engineVars, fresh, sessionUp, incDue, decDue>>

TimePasses ==
  /\ incDue' \in {incDue, TRUE}
  /\ decDue' \in {decDue, TRUE}
  /\ UNCHANGED <<ui, dockVars, running, failing, modeVars, restoreVars, encoder,
                 abrPc, target, engineVars, fresh, sessionUp, linkUp>>

-----------------------------------------------------------------------------
(* UI thread: start and stop. *)

(* srtla_output_update rebuilds the engine from the settings; start          *)
(* connects the session, remembers the encoder's bitrate and sets the one   *)
(* to begin with.  An encoder that cannot change its bitrate is used in      *)
(* manual mode.                                                             *)
Start(auto, man, max) ==
  /\ ui = "idle" /\ ~dockOn /\ ~running
  /\ ui' = "starting"
  /\ autoBitrate' = (auto /\ dynamic) /\ manual' = man /\ maximum' = max
  /\ original' = IF overridden THEN original ELSE encoder
  /\ overridden' = TRUE
  /\ encoder' = IF autoBitrate' THEN max ELSE man
  /\ engMax' = Larger(max, Rounding)
  /\ SetVideoBitrate(encoder', engMax')
  /\ sessionUp' = TRUE /\ fresh' = FALSE /\ incDue' = TRUE /\ decDue' = TRUE
  /\ UNCHANGED <<dockVars, running, failing, own, dynamic, abrPc, target, linkUp>>

(* running = true, and the threads. *)
StartWorkers ==
  /\ ui = "starting"
  /\ ui' = "idle" /\ dockOn' = TRUE
  /\ running' = TRUE /\ failing' = FALSE
  /\ abrPc' = "idle"
  /\ UNCHANGED <<changes, modeVars, restoreVars, encoder, target, engineVars,
                 sampleVars>>

(* restore_shared_bitrate. *)
RestoreBitrate ==
  /\ encoder' = IF overridden THEN original ELSE encoder
  /\ overridden' = FALSE

(* An error return of start after the bitrate was set. *)
StartFails ==
  /\ ui = "starting"
  /\ ui' = "idle"
  /\ RestoreBitrate
  /\ sessionUp' = FALSE /\ fresh' = FALSE
  /\ UNCHANGED <<dockVars, running, failing, modeVars, original, own, dynamic,
                 abrPc, target, engineVars, linkUp, incDue, decDue>>

(* The engine reports an error: the worker queues signal_fatal_output_on_ui *)
(* and changes nothing until that task has run.                             *)
EngineError ==
  /\ running /\ ~failing
  /\ failing' = TRUE
  /\ UNCHANGED <<ui, dockVars, running, modeVars, restoreVars, encoder, abrPc,
                 target, engineVars, sampleVars>>

(* stopOutput of the dock, or the fatal task; the latter does not tell the  *)
(* dock, whose running_ stays true.                                         *)
StopBegin(byUser) ==
  /\ ui = "idle" /\ running
  /\ byUser \/ failing
  /\ ui' = "stopping"
  /\ running' = FALSE
  /\ dockOn' = (dockOn /\ ~byUser)
  /\ UNCHANGED <<changes, failing, modeVars, restoreVars, encoder, abrPc, target,
                 engineVars, sampleVars>>

(* Mutant: the encoder's bitrate is restored without joining the worker. *)
AbrNotJoined == TRUE

(* stop_abr_worker has joined the ABR worker. *)
AbrJoined == abrPc \in {"off", "idle"}

StopFinish ==
  /\ ui = "stopping" /\ AbrJoined
  /\ ui' = "idle"
  /\ abrPc' = IF abrPc = "idle" THEN "off" ELSE abrPc
  /\ RestoreBitrate
  /\ sessionUp' = FALSE /\ fresh' = FALSE
  /\ UNCHANGED <<dockVars, running, failing, modeVars, original, own, dynamic,
                 target, engineVars, linkUp, incDue, decDue>>

(* stopOutput when the output has already stopped by itself. *)
DockStop ==
  /\ ui = "idle" /\ dockOn /\ ~running
  /\ dockOn' = FALSE
  /\ UNCHANGED <<ui, changes, running, failing, modeVars, restoreVars, encoder,
                 abrPc, target, engineVars, sampleVars>>

-----------------------------------------------------------------------------
(* UI thread: the dock's bitrate controls, used while running_ is true.     *)

(* srtla_output_set_bitrate_control up to auto_bitrate.store; a running     *)
(* encoder that cannot change its bitrate refuses it.                       *)
SetBitrateControl(auto, man) ==
  /\ ui = "idle" /\ dockOn /\ changes < MaxChanges
  /\ running => dynamic
  /\ ui' = "set" /\ changes' = changes + 1
  /\ encoder' = IF auto THEN encoder ELSE man
  /\ manual' = man /\ autoBitrate' = auto
  /\ own' = IF running THEN own ELSE encoder'
  /\ UNCHANGED <<dockOn, running, failing, maximum, overridden, original, dynamic,
                 abrPc, target, engineVars, sampleVars>>

(* Its call of srtla_engine_set_video_bitrate. *)
BitrateControlSet ==
  /\ ui = "set"
  /\ ui' = "idle"
  /\ SetVideoBitrate(encoder, engMax)
  /\ UNCHANGED <<dockVars, running, failing, modeVars, restoreVars, encoder,
                 abrPc, target, engMax, sampleVars>>

(* srtla_output_set_max_bitrate up to srtla_engine_set_max_video_bitrate;   *)
(* outside automatic mode that is all.                                      *)
SetMaxBitrate(max) ==
  /\ ui = "idle" /\ dockOn /\ changes < MaxChanges
  /\ running /\ autoBitrate => dynamic
  /\ ui' = IF running /\ autoBitrate THEN "cap" ELSE "idle"
  /\ changes' = changes + 1
  /\ maximum' = max
  /\ engMax' = Larger(max, Rounding)
  /\ internal' = Smaller(internal, engMax')
  /\ UNCHANGED <<dockOn, running, failing, autoBitrate, manual, restoreVars,
                 encoder, abrPc, target, current, sampleVars>>

(* The rest of it, still under bitrate_mutex. *)
MaxBitrateSet ==
  /\ ui = "cap"
  /\ ui' = "idle"
  /\ encoder' = Smaller(encoder, maximum)
  /\ SetVideoBitrate(encoder', engMax)
  /\ UNCHANGED <<dockVars, running, failing, modeVars, restoreVars, abrPc, target,
                 engMax, sampleVars>>

-----------------------------------------------------------------------------
(* The ABR worker. *)

(* An iteration: the session is sampled (if it is connected and the call    *)
(* succeeds), and in automatic mode the worker goes on to apply_abr.        *)
AbrWake ==
  /\ abrPc = "idle" /\ running /\ ~failing
  /\ abrPc' = IF autoBitrate THEN "decide" ELSE "idle"
  /\ fresh' \in {fresh, fresh \/ sessionUp}
  /\ UNCHANGED <<ui, dockVars, running, failing, modeVars, restoreVars, encoder,
                 target, engineVars, sessionUp, linkUp, incDue, decDue>>

(* What goes to the encoder is a multiple of Rounding, within the limits. *)
Applied(bps) ==
  Clamp((bps \div Rounding) * Rounding, MinBitrate, engMax)

(* Mutant: the controller forgets the live maximum. *)
Unclamped(bps) == Larger(bps, MinBitrate)

WithinLimits(bps) == Clamp(bps, MinBitrate, engMax)

(* AbrController::decide for a usable sample: the first rule that applies.  *)
Adjust(severe, heavy, light, mayIncrease) ==
  \/ /\ internal > MinBitrate /\ severe
     /\ internal' = WithinLimits(MinBitrate)
     /\ decDue' = FALSE /\ UNCHANGED incDue
  \/ /\ ~(internal > MinBitrate /\ severe)
     /\ decDue /\ heavy
     /\ internal' = WithinLimits(internal - DecreaseMin - internal \div DecreaseScale)
     /\ decDue' = FALSE /\ UNCHANGED incDue
  \/ /\ ~(internal > MinBitrate /\ severe)
     /\ decDue /\ ~heavy /\ light
     /\ internal' = WithinLimits(internal - DecreaseMin)
     /\ decDue' = FALSE /\ UNCHANGED incDue
  \/ /\ ~(internal > MinBitrate /\ severe)
     /\ ~(decDue /\ (heavy \/ light))
     /\ incDue /\ mayIncrease
     /\ internal' = WithinLimits(internal + IncreaseMin + internal \div IncreaseScale)
     /\ incDue' = FALSE /\ UNCHANGED decDue
  \/ /\ ~(internal > MinBitrate /\ severe)
     /\ ~(decDue /\ (heavy \/ light))
     /\ ~(incDue /\ mayIncrease)
     /\ UNCHANGED <<internal, incDue, decDue>>

(* Mutant: only the links are looked at. *)
LinksDown == ~linkUp

AllLinksDown == ~(sessionUp /\ linkUp)

(* Mutant: the bitrate in use is returned as it is. *)
InUse == current

(* The bitrate to hold without a new sample. *)
Held == Clamp(current, MinBitrate, engMax)

(* srtla_engine_apply_abr: the minimum while the session or every enabled   *)
(* link is down, the bitrate in use without a new sample, else the rules.   *)
ApplyAbr ==
  /\ abrPc = "decide"
  /\ abrPc' = "write"
  /\ \/ /\ AllLinksDown
        /\ internal' = MinBitrate
        /\ target' = Applied(MinBitrate)
        /\ UNCHANGED <<fresh, incDue, decDue>>
     \/ /\ ~AllLinksDown /\ ~fresh
        /\ target' = Held
        /\ UNCHANGED <<internal, fresh, incDue, decDue>>
     \/ /\ ~AllLinksDown /\ fresh
        /\ fresh' = FALSE
        /\ \E severe, heavy, light, mayIncrease \in BOOLEAN :
              Adjust(severe, heavy, light, mayIncrease)
        /\ target' = Applied(internal')
  /\ current' = target'
  /\ UNCHANGED <<ui, dockVars, running, failing, modeVars, restoreVars, encoder,
                 engMax, sessionUp, linkUp>>

(* Mutant: the mode is not looked at again under the lock. *)
WriteAlways == TRUE

(* The second look at auto_bitrate, and at the encoder's capability. *)
StillAutomatic == autoBitrate /\ dynamic

(* The section of bitrate_mutex. *)
WriteEncoder ==
  /\ abrPc = "write" /\ ui \notin {"cap", "set"}
  /\ abrPc' = "idle"
  /\ encoder' = IF StillAutomatic THEN target ELSE encoder
  /\ UNCHANGED <<ui, dockVars, running, failing, modeVars, restoreVars, target,
                 engineVars, sampleVars>>

-----------------------------------------------------------------------------
Worker == AbrWake \/ ApplyAbr \/ WriteEncoder
UiTail == StartWorkers \/ StopFinish \/ BitrateControlSet \/ MaxBitrateSet

Next ==
  \/ \E auto \in BOOLEAN, man \in Manuals, max \in Maxima : Start(auto, man, max)
  \/ \E auto \in BOOLEAN, man \in Manuals : SetBitrateControl(auto, man)
  \/ \E max \in Maxima : SetMaxBitrate(max)
  \/ \E up \in BOOLEAN : SessionState(up)
  \/ \E byUser \in BOOLEAN : StopBegin(byUser)
  \/ StartFails \/ EngineError \/ DockStop \/ LinkChange \/ TimePasses
  \/ UiTail \/ Worker

Spec == Init /\ [][Next]_vars

(* Threads are scheduled, a UI operation that began ends, and the UI runs   *)
(* the queued fatal task.  Nothing is assumed of user, network or samples.  *)
Fairness ==
  /\ WF_vars(Worker)
  /\ WF_vars(UiTail)
  /\ WF_vars(StopBegin(FALSE))

FairSpec == Spec /\ Fairness

-----------------------------------------------------------------------------
(* "Turning automatic mode off stops bitrate probing and applies the manual *)
(* value" (README.md:265): while the output runs in manual mode the encoder *)
(* has the manual bitrate, even though the worker may be about to write a   *)
(* target computed in automatic mode.                                       *)
ManualHolds == running /\ ~autoBitrate => encoder = manual

(* A stopped output leaves no trace in the (possibly shared) encoder: it    *)
(* has the bitrate it was given outside a run, after a user's stop, a fatal *)
(* stop and a failed start, whatever the worker was doing meanwhile.        *)
RestoredWhenStopped == ~running /\ ui = "idle" => encoder = own

(* Lowering the maximum caps the encoder: if a stale target undoes it, the  *)
(* worker's next round repairs it (unless mode or output change first).     *)
CapIsRepaired ==
  running /\ autoBitrate /\ encoder > engMax
    ~> ~running \/ ~autoBitrate \/ encoder <= engMax

(* "If the SRT session or every enabled link is down, the output falls to   *)
(* the minimum to avoid an unbounded queue" (README.md:253-255): as long as *)
(* one or the other is down, also when they take turns.                     *)
FallsToMinimum ==
  running /\ autoBitrate /\ (~sessionUp \/ ~linkUp)
    ~> \/ ~running \/ ~autoBitrate
       \/ sessionUp /\ linkUp
       \/ encoder = MinBitrate
=============================================================================
