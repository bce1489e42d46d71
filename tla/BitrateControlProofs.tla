------------------------ MODULE BitrateControlProofs ------------------------
(***************************************************************************)
(* BitrateControl for every set of bitrates and every scale of the control *)
(* law: the internal bitrate stays within its limits, the manual bitrate   *)
(* is never overwritten, and a stopped output leaves the encoder as it     *)
(* found it.                                                               *)
(***************************************************************************)
EXTENDS BitrateControl, TLAPS

(* Outside a run nothing of it is left: the original bitrate is back, no    *)
(* override is recorded and there is no worker that could still write.      *)
Quiet ==
  ~running /\ ui \in {"idle", "set", "cap"} =>
    encoder = own /\ overridden = FALSE /\ abrPc = "off"

(* From start to the end of stop the original bitrate is remembered. *)
Remembered ==
  running \/ ui \in {"starting", "stopping"} =>
    overridden = TRUE /\ original = own

(* Where the UI thread can be. *)
Stages ==
  /\ ui = "starting" =>
       running = FALSE /\ abrPc = "off" /\ (~autoBitrate => encoder = manual)
  /\ ui = "stopping" => running = FALSE
  /\ ui = "cap" => running = TRUE /\ autoBitrate = TRUE

BInv == TypeOK /\ ManualHolds /\ Quiet /\ Remembered /\ Stages

(* Clamping to a non-empty interval of naturals yields a member of it. *)
LEMMA ClampRange ==
  ASSUME NEW x \in Int, NEW lo \in Nat, NEW hi \in Nat, lo <= hi
  PROVE  Clamp(x, lo, hi) \in lo .. hi
BY DEF Clamp

(* The state that srtla_output_create leaves satisfies the invariant. *)
LEMMA InitBInv == Init => BInv
<1> SUFFICES ASSUME Init PROVE BInv
  OBVIOUS
<1> USE BitrateAssumption
<1>1. engMax \in Nat /\ MinBitrate <= engMax /\ maximum \in Nat
  BY DEF Init, Larger
<1>2. internal \in MinBitrate .. engMax
  BY <1>1, ClampRange DEF Init
<1>3. NumberTypes
  BY <1>1, <1>2 DEF Init, NumberTypes
<1>4. FlagTypes
  BY DEF Init, FlagTypes
<1>5. ManualHolds /\ Quiet /\ Remembered /\ Stages
  BY DEF Init, ManualHolds, Quiet, Remembered, Stages
<1> QED
  BY <1>3, <1>4, <1>5 DEF BInv, TypeOK

(* No step takes the numbers out of their types or the controller out of    *)
(* its limits.                                                              *)
LEMMA NumberStep == BInv /\ [Next]_vars => NumberTypes'
<1> SUFFICES ASSUME BInv, [Next]_vars PROVE NumberTypes'
  OBVIOUS
<1> USE BitrateAssumption
<1>0. FlagTypes /\ NumberTypes
  BY DEF BInv, TypeOK
<1>1. ASSUME NEW auto \in BOOLEAN, NEW man \in Manuals, NEW max \in Maxima,
             Start(auto, man, max)
      PROVE  NumberTypes'
  <2>1. /\ engMax' \in Nat /\ MinBitrate <= engMax' /\ encoder' \in Nat
        /\ original' \in Nat /\ current' \in Nat
    BY <1>0, <1>1 DEF Start, Larger, SetVideoBitrate, NumberTypes
  <2>2. internal' = Clamp(encoder', MinBitrate, engMax')
    BY <1>1 DEF Start, SetVideoBitrate
  <2>3. encoder' \in Int /\ MinBitrate \in Nat
    BY <2>1
  <2>4. internal' \in MinBitrate .. engMax'
    BY <2>1, <2>2, <2>3, ClampRange
  <2>5. /\ manual' \in Nat /\ maximum' \in Nat
        /\ own' = own /\ changes' = changes /\ target' = target
    BY <1>1 DEF Start, dockVars
  <2> QED
    BY <2>1, <2>4, <2>5, <1>0 DEF NumberTypes
<1>2. ASSUME NEW auto \in BOOLEAN, NEW man \in Manuals,
             SetBitrateControl(auto, man)
      PROVE  NumberTypes'
  BY <1>0, <1>2 DEF SetBitrateControl, NumberTypes, engineVars
<1>3. ASSUME NEW max \in Maxima, SetMaxBitrate(max)
      PROVE  NumberTypes'
  BY <1>0, <1>3 DEF SetMaxBitrate, NumberTypes, restoreVars, Larger, Smaller
<1>4. ASSUME NEW up \in BOOLEAN, SessionState(up)
      PROVE  NumberTypes'
  <2>1. internal' \in MinBitrate .. engMax
    BY <1>0, <1>4, ClampRange DEF SessionState, NumberTypes
  <2> QED
    BY <2>1, <1>0, <1>4
    DEF SessionState, NumberTypes, dockVars, modeVars, restoreVars
<1>5. ASSUME NEW byUser \in BOOLEAN, StopBegin(byUser)
      PROVE  NumberTypes'
  BY <1>0, <1>5
  DEF StopBegin, NumberTypes, modeVars, restoreVars, engineVars
<1>6. CASE StartFails
  BY <1>0, <1>6 DEF StartFails, RestoreBitrate, NumberTypes, dockVars, modeVars,
    engineVars
<1>7. CASE EngineError \/ DockStop \/ LinkChange \/ TimePasses \/ StartWorkers
  BY <1>0, <1>7 DEF EngineError, DockStop, LinkChange, TimePasses, StartWorkers,
    NumberTypes, dockVars, modeVars, restoreVars, engineVars
<1>8. CASE StopFinish
  BY <1>0, <1>8 DEF StopFinish, RestoreBitrate, NumberTypes, dockVars, modeVars,
    engineVars
<1>9. CASE BitrateControlSet
  <2>1. internal' \in MinBitrate .. engMax /\ current' \in Nat
    BY <1>0, <1>9, ClampRange
    DEF BitrateControlSet, SetVideoBitrate, NumberTypes, Larger
  <2> QED
    BY <2>1, <1>0, <1>9
    DEF BitrateControlSet, NumberTypes, dockVars, modeVars, restoreVars
<1>10. CASE MaxBitrateSet
  <2>1. encoder' \in Nat
    BY <1>0, <1>10 DEF MaxBitrateSet, Smaller, NumberTypes
  <2>2. internal' \in MinBitrate .. engMax /\ current' \in Nat
    BY <2>1, <1>0, <1>10, ClampRange
    DEF MaxBitrateSet, SetVideoBitrate, NumberTypes, Larger
  <2> QED
    BY <2>1, <2>2, <1>0, <1>10
    DEF MaxBitrateSet, NumberTypes, dockVars, modeVars, restoreVars
<1>11. CASE AbrWake
  BY <1>0, <1>11
  DEF AbrWake, NumberTypes, dockVars, modeVars, restoreVars, engineVars
<1>12. CASE ApplyAbr
  <2>1. \A x \in Int : WithinLimits(x) \in MinBitrate .. engMax
    BY <1>0, ClampRange DEF WithinLimits, NumberTypes
  <2>2. internal' \in MinBitrate .. engMax
    <3>1. CASE internal' = MinBitrate \/ internal' = internal
      BY <3>1, <1>0 DEF NumberTypes
    <3>2. /\ internal - DecreaseMin - internal \div DecreaseScale \in Int
          /\ internal - DecreaseMin \in Int
          /\ internal + IncreaseMin + internal \div IncreaseScale \in Int
      BY <1>0 DEF NumberTypes
    <3>3. ASSUME NEW severe \in BOOLEAN, NEW heavy \in BOOLEAN,
                 NEW light \in BOOLEAN, NEW mayIncrease \in BOOLEAN,
                 Adjust(severe, heavy, light, mayIncrease)
          PROVE  internal' \in MinBitrate .. engMax
      BY <3>1, <3>2, <3>3, <2>1 DEF Adjust
    <3> QED
      BY <3>1, <3>3, <1>12 DEF ApplyAbr
  <2>3. target' \in Nat
    <3>1. \A x \in Nat : (x \div Rounding) * Rounding \in Int
      OBVIOUS
    <3>2. \A x \in Nat : Applied(x) \in Nat
      BY <3>1, <1>0, ClampRange DEF Applied, NumberTypes
    <3>3. Held \in Nat
      BY <1>0, ClampRange DEF Held, NumberTypes
    <3> QED
      BY <3>2, <3>3, <2>2, <1>0, <1>12 DEF ApplyAbr, NumberTypes
  <2> QED
    BY <2>2, <2>3, <1>0, <1>12
    DEF ApplyAbr, NumberTypes, dockVars, modeVars, restoreVars
<1>13. CASE WriteEncoder
  BY <1>0, <1>13
  DEF WriteEncoder, NumberTypes, dockVars, modeVars, restoreVars, engineVars
<1>14. CASE UNCHANGED vars
  BY <1>0, <1>14 DEF NumberTypes, vars
<1> QED
  BY <1>1, <1>2, <1>3, <1>4, <1>5, <1>6, <1>7, <1>8, <1>9, <1>10, <1>11, <1>12,
     <1>13, <1>14 DEF Next, UiTail, Worker

(* No step takes the flags out of their types. *)
LEMMA FlagStep == BInv /\ [Next]_vars => FlagTypes'
<1> SUFFICES ASSUME FlagTypes, [Next]_vars PROVE FlagTypes'
  BY DEF BInv, TypeOK
<1> USE DEF FlagTypes
<1>1. ASSUME NEW auto \in BOOLEAN, NEW man \in Manuals, NEW max \in Maxima,
             Start(auto, man, max)
      PROVE  FlagTypes'
  BY <1>1 DEF Start, dockVars
<1>2. ASSUME NEW auto \in BOOLEAN, NEW man \in Manuals,
             SetBitrateControl(auto, man)
      PROVE  FlagTypes'
  BY <1>2 DEF SetBitrateControl, sampleVars
<1>3. ASSUME NEW max \in Maxima, SetMaxBitrate(max)
      PROVE  FlagTypes'
  BY <1>3 DEF SetMaxBitrate, restoreVars, sampleVars
<1>4. ASSUME NEW up \in BOOLEAN, SessionState(up)
      PROVE  FlagTypes'
  BY <1>4 DEF SessionState, dockVars, modeVars, restoreVars
<1>5. ASSUME NEW byUser \in BOOLEAN, StopBegin(byUser)
      PROVE  FlagTypes'
  BY <1>5 DEF StopBegin, modeVars, restoreVars, sampleVars
<1>6. CASE StartFails
  BY <1>6 DEF StartFails, RestoreBitrate, dockVars, modeVars
<1>7. CASE EngineError \/ DockStop \/ StartWorkers
  <2>1. CASE EngineError
    BY <2>1 DEF EngineError, dockVars, modeVars, restoreVars, sampleVars
  <2>2. CASE DockStop
    BY <2>2 DEF DockStop, modeVars, restoreVars, sampleVars
  <2>3. CASE StartWorkers
    BY <2>3 DEF StartWorkers, modeVars, restoreVars, sampleVars
  <2> QED
    BY <2>1, <2>2, <2>3, <1>7
<1>8. CASE LinkChange \/ TimePasses
  <2>1. CASE LinkChange
    BY <2>1 DEF LinkChange, dockVars, modeVars, restoreVars
  <2>2. CASE TimePasses
    <3>1. incDue' \in BOOLEAN /\ decDue' \in BOOLEAN
      BY <2>2 DEF TimePasses
    <3> QED
      BY <3>1, <2>2 DEF TimePasses, dockVars, modeVars, restoreVars
  <2> QED
    BY <2>1, <2>2, <1>8
<1>9. CASE StopFinish
  BY <1>9 DEF StopFinish, RestoreBitrate, dockVars, modeVars
<1>10. CASE BitrateControlSet \/ MaxBitrateSet
  BY <1>10 DEF BitrateControlSet, MaxBitrateSet, dockVars, modeVars, restoreVars,
    sampleVars
<1>11. CASE AbrWake
  BY <1>11 DEF AbrWake, dockVars, modeVars, restoreVars
<1>12. CASE ApplyAbr
  <2>1. fresh' \in BOOLEAN /\ incDue' \in BOOLEAN /\ decDue' \in BOOLEAN
    BY <1>12 DEF ApplyAbr, Adjust
  <2> QED
    BY <2>1, <1>12 DEF ApplyAbr, dockVars, modeVars, restoreVars
<1>13. CASE WriteEncoder
  BY <1>13 DEF WriteEncoder, dockVars, modeVars, restoreVars, sampleVars
<1>14. CASE UNCHANGED vars
  BY <1>14 DEF vars
<1> QED
  BY <1>1, <1>2, <1>3, <1>4, <1>5, <1>6, <1>7, <1>8, <1>9, <1>10, <1>11, <1>12,
     <1>13, <1>14 DEF Next, UiTail, Worker

(* No step breaks what ties the encoder's bitrate to mode, run and stage. *)
LEMMA ModeStep ==
  BInv /\ [Next]_vars => (ManualHolds /\ Quiet /\ Remembered /\ Stages)'
<1> SUFFICES ASSUME FlagTypes, ManualHolds, Quiet, Remembered, Stages, [Next]_vars
             PROVE  (ManualHolds /\ Quiet /\ Remembered /\ Stages)'
  BY DEF BInv, TypeOK
<1> USE DEF FlagTypes, ManualHolds, Quiet, Remembered, Stages
<1>1. ASSUME NEW auto \in BOOLEAN, NEW man \in Manuals, NEW max \in Maxima,
             Start(auto, man, max)
      PROVE  (ManualHolds /\ Quiet /\ Remembered /\ Stages)'
  BY <1>1 DEF Start, dockVars
<1>2. ASSUME NEW auto \in BOOLEAN, NEW man \in Manuals,
             SetBitrateControl(auto, man)
      PROVE  (ManualHolds /\ Quiet /\ Remembered /\ Stages)'
  BY <1>2 DEF SetBitrateControl
<1>3. ASSUME NEW max \in Maxima, SetMaxBitrate(max)
      PROVE  (ManualHolds /\ Quiet /\ Remembered /\ Stages)'
  BY <1>3 DEF SetMaxBitrate, restoreVars
<1>4. ASSUME NEW up \in BOOLEAN, SessionState(up)
      PROVE  (ManualHolds /\ Quiet /\ Remembered /\ Stages)'
  BY <1>4 DEF SessionState, dockVars, modeVars, restoreVars
<1>5. ASSUME NEW byUser \in BOOLEAN, StopBegin(byUser)
      PROVE  (ManualHolds /\ Quiet /\ Remembered /\ Stages)'
  BY <1>5 DEF StopBegin, modeVars, restoreVars
<1>6. CASE StartFails
  BY <1>6 DEF StartFails, RestoreBitrate, dockVars, modeVars
<1>7. CASE EngineError \/ DockStop \/ LinkChange \/ TimePasses
  <2>1. CASE EngineError
    BY <2>1 DEF EngineError, modeVars, restoreVars
  <2>2. CASE DockStop
    BY <2>2 DEF DockStop, modeVars, restoreVars
  <2>3. CASE LinkChange
    BY <2>3 DEF LinkChange, modeVars, restoreVars
  <2>4. CASE TimePasses
    BY <2>4 DEF TimePasses, modeVars, restoreVars
  <2> QED
    BY <2>1, <2>2, <2>3, <2>4, <1>7
<1>8. CASE StartWorkers
  BY <1>8 DEF StartWorkers, modeVars, restoreVars
<1>9. CASE StopFinish
  BY <1>9 DEF StopFinish, AbrJoined, RestoreBitrate, dockVars, modeVars
<1>10. CASE BitrateControlSet
  BY <1>10 DEF BitrateControlSet, dockVars, modeVars, restoreVars
<1>11. CASE MaxBitrateSet
  BY <1>11 DEF MaxBitrateSet, dockVars, modeVars, restoreVars
<1>12. CASE AbrWake \/ ApplyAbr
  BY <1>12 DEF AbrWake, ApplyAbr, dockVars, modeVars, restoreVars
<1>13. CASE WriteEncoder
  BY <1>13 DEF WriteEncoder, StillAutomatic, dockVars, modeVars, restoreVars
<1>14. CASE UNCHANGED vars
  BY <1>14 DEF vars
<1> QED
  BY <1>1, <1>2, <1>3, <1>4, <1>5, <1>6, <1>7, <1>8, <1>9, <1>10, <1>11, <1>12,
     <1>13, <1>14 DEF Next, UiTail, Worker

(* BInv is an inductive invariant of the specification. *)
THEOREM BInvInvariant == Spec => []BInv
<1>1. BInv /\ [Next]_vars => BInv'
  BY NumberStep, FlagStep, ModeStep DEF BInv, TypeOK
<1> QED
  BY InitBInv, <1>1, PTL DEF Spec

(* The internal bitrate of abr.rs stays between the minimum and the live    *)
(* maximum for every scale of the control law and any order of UI calls,    *)
(* session transitions and samples.                                         *)
THEOREM BitrateTypeCorrect == Spec => []TypeOK
<1>1. BInv => TypeOK
  BY DEF BInv
<1> QED
  BY BInvInvariant, <1>1, PTL

(* The ABR worker never overwrites the manual bitrate.                      *)
THEOREM ManualCorrect == Spec => []ManualHolds
<1>1. BInv => ManualHolds
  BY DEF BInv
<1> QED
  BY BInvInvariant, <1>1, PTL

(* After every stop and every failed start the encoder has the bitrate it   *)
(* was given outside a run.                                                 *)
THEOREM RestoreCorrect == Spec => []RestoredWhenStopped
<1>1. BInv => RestoredWhenStopped
  BY DEF BInv, Quiet, RestoredWhenStopped
<1> QED
  BY BInvInvariant, <1>1, PTL
=============================================================================
