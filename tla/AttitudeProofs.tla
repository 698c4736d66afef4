--------------------------- MODULE AttitudeProofs ---------------------------
(***************************************************************************)
(* Proofs about the attitude reference and the tasks that share it, for    *)
(* every length of the times it waits for and every board.                 *)
(***************************************************************************)
EXTENDS AttitudeReference, TLAPS

(***************************************************************************)
(* The flags of the reference and of the tasks                             *)
(***************************************************************************)

FlagsOK ==
  /\ conj \in BOOLEAN /\ referenced \in BOOLEAN /\ refConj \in BOOLEAN
  /\ tareReq \in BOOLEAN /\ locked \in BOOLEAN /\ tare \in BOOLEAN

TasksOK ==
  /\ tasks \in BOOLEAN /\ tried \in BOOLEAN /\ resumed \in BOOLEAN
  /\ flight \in BOOLEAN /\ lift \in BOOLEAN /\ sim \in BOOLEAN
  /\ imu \in {"idle", "logging", "capturing"} /\ nav \in {"idle", "lock", "drop"}
  /\ snapshot \in {"none", "raw", "level", "attitude"}

TypeOK == FlagsOK /\ TasksOK

\* Neither an update nor what follows its logs leaves the types.
LEMMA TypeUpdate ==
  ASSUME TypeOK, (\E s \in Samples : Update(s)) \/ AfterLog \/ AfterTiltLog
  PROVE  TypeOK'
<1>1. ASSUME NEW s, NEW flipped, NEW c \in BOOLEAN, NEW t, Settle(s, flipped, c, t)
      PROVE  /\ referenced' \in BOOLEAN /\ refConj' \in BOOLEAN /\ tareReq' \in BOOLEAN
             /\ imu' \in {"idle", "capturing"}
             /\ snapshot' \in {"none", "raw", "level", "attitude"}
  BY <1>1, Zenon DEF Settle, Capture, Output, Snapshot, TypeOK, FlagsOK, TasksOK
<1>2. ASSUME NEW s \in Samples, Update(s) PROVE TypeOK'
  <2>1. conj' \in BOOLEAN
    BY <1>2, Zenon DEF Update, TypeOK, FlagsOK
  <2>2. /\ referenced' \in BOOLEAN /\ refConj' \in BOOLEAN /\ tareReq' \in BOOLEAN
        /\ imu' \in {"idle", "logging", "capturing"} /\ snapshot' \in {"none", "raw", "level", "attitude"}
    BY <1>1, <1>2, Zenon DEF Update, TypeOK, FlagsOK, TasksOK
  <2> QED
    BY <1>2, <2>1, <2>2, Zenon DEF Update, TypeOK, FlagsOK, TasksOK, mission, boot
<1>3. ASSUME AfterLog PROVE TypeOK'
  BY <1>1, <1>3, Zenon DEF AfterLog, TypeOK, FlagsOK, TasksOK, mission, boot
<1>4. ASSUME AfterTiltLog PROVE TypeOK'
  BY <1>4, Zenon DEF AfterTiltLog, Capture, Output, Snapshot, TypeOK, FlagsOK, TasksOK, mission, boot
<1> QED
  BY <1>2, <1>3, <1>4

\* The reference and the tasks keep their types.
THEOREM TypeCorrect == Spec => []TypeOK
<1>1. Init => TypeOK
  BY Zenon DEF Init, TypeOK, FlagsOK, TasksOK
<1>2. TypeOK /\ [Next]_vars => TypeOK'
  <2> SUFFICES ASSUME TypeOK, [Next]_vars PROVE TypeOK'
    OBVIOUS
  <2>1. CASE Sampled \/ AfterLog \/ AfterTiltLog
    BY <2>1, TypeUpdate DEF Sampled
  <2>2. ASSUME Probe \/ RawSampled \/ Reported \/ ReadFails \/ UNCHANGED vars
        PROVE  TypeOK'
    <3>1. /\ UNCHANGED <<reference, tareReq, locked, tare, imu, nav, mission, boot>>
          /\ tried' \in {tried, tasks} /\ snapshot' \in {snapshot, "raw", "none"}
      BY <2>2 DEF Probe, RawSampled, Reported, ReadFails, Snapshot, vars, reader
    <3>2. FlagsOK' /\ mission' = mission /\ boot' = boot
      BY <3>1, Zenon DEF TypeOK, FlagsOK, reference
    <3>3. tried' \in BOOLEAN /\ snapshot' \in {"none", "raw", "level", "attitude"}
      BY <3>1 DEF TypeOK, TasksOK
    <3> QED
      BY <3>1, <3>2, <3>3, Zenon DEF TypeOK, TasksOK, mission, boot
  <2>3. CASE StartTasks
    <3>1. /\ tareReq' \in BOOLEAN /\ tasks' = TRUE
          /\ UNCHANGED <<reference, locked, reader, tried, resumed, mission, nav, tare>>
      BY <2>3 DEF StartTasks
    <3>2. FlagsOK'
      BY <3>1, Zenon DEF reference, TypeOK, FlagsOK
    <3> QED
      BY <3>1, <3>2, Zenon DEF mission, reader, TypeOK, TasksOK
  <2>4. CASE Reset
    <3>1. flight' \in BOOLEAN /\ resumed' \in BOOLEAN
      BY <2>4, Zenon DEF Reset, TypeOK, TasksOK
    <3>2. FlagsOK'
      BY <2>4, Zenon DEF Reset, FlagsOK
    <3> QED
      BY <2>4, <3>1, <3>2, Zenon DEF Reset, TypeOK, TasksOK
  <2>5. ASSUME NavStep \/ NavLock \/ NavDrop PROVE TypeOK'
    <3>1. /\ UNCHANGED <<reference, tare, imu, snapshot, tasks, tried, resumed, lift, sim>>
          /\ flight' \in {flight, TRUE} /\ nav' \in {"idle", "lock", "drop"}
          /\ locked' \in {locked, TRUE} /\ tareReq' \in {tareReq, FALSE}
      BY <2>5 DEF NavStep, NavLock, NavDrop, mission, boot, reader
    <3>2. FlagsOK'
      BY <3>1, Zenon DEF TypeOK, FlagsOK, reference
    <3> QED
      BY <3>1, <3>2, Zenon DEF TypeOK, TasksOK
  <2>6. ASSUME TareChecked \/ TareStored PROVE TypeOK'
    <3>1. /\ UNCHANGED <<reference, locked, imu, snapshot, nav, tried, mission, boot>>
          /\ tare' \in {TRUE, FALSE} /\ tareReq' \in {tareReq, TRUE}
      BY <2>6 DEF TareChecked, TareStored, reader
    <3>2. FlagsOK'
      BY <3>1, Zenon DEF TypeOK, FlagsOK, reference
    <3> QED
      BY <3>1, <3>2, Zenon DEF TypeOK, TasksOK, mission, boot
  <2>7. ASSUME Lift \/ Cal \/ Sim PROVE TypeOK'
    <3>1. ResetMission /\ lift' \in BOOLEAN /\ sim' \in BOOLEAN
      BY <2>7, Zenon DEF Lift, Cal, Sim, TypeOK, TasksOK
    <3> QED
      BY <3>1, Zenon DEF ResetMission, TypeOK, FlagsOK, TasksOK, reference, boot, reader
  <2> QED
    BY <2>1, <2>2, <2>3, <2>4, <2>5, <2>6, <2>7, Zenon DEF Next
<1> QED
  BY <1>1, <1>2, PTL DEF Spec

(***************************************************************************)
(* The reference is in the convention in use                               *)
(***************************************************************************)

\* A sample that has not resolved the convention leaves the reference in it.
LEMMA SettledInUse ==
  ASSUME NEW s, NEW flipped \in BOOLEAN, NEW c, NEW t, Settle(s, flipped, c, t),
         flipped => ~locked, ~flipped /\ referenced => refConj = c
  PROVE  imu' = "idle" => (referenced' => refConj' = c)
<1> SUFFICES ASSUME imu' = "idle" PROVE referenced' => refConj' = c
  OBVIOUS
<1>1. CASE Asked(flipped) \/ (~referenced /\ Settled(s, t))
  <2>1. imu' = "capturing" \/ Capture(c)
    BY <1>1, Zenon DEF Settle
  <2> QED
    BY <2>1 DEF Capture
<1>2. CASE ~(Asked(flipped) \/ (~referenced /\ Settled(s, t)))
  <2>1. UNCHANGED <<referenced, refConj>>
    BY <1>2, Zenon DEF Settle
  <2>2. referenced => ~flipped
    BY <1>2, Zenon DEF Asked
  <2> QED
    BY <2>1, <2>2, Zenon
<1> QED
  BY <1>1, <1>2, Zenon

\* Convention and reference are parted by a flight lock inside the update that
\* resolves the convention, and by nothing else.
THEOREM ReferenceFits == Spec => ReferenceInUse
<1>1. ASSUME [Next]_vars, InUse, ~(imu = "logging" /\ locked) PROVE InUse'
  <2>1. ASSUME NEW s \in Samples, Update(s) PROVE InUse'
    <3>1. CASE Flips(s)
      BY <2>1, <3>1 DEF Update, InUse
    <3>2. CASE ~Flips(s)
      <4>1. conj' = conj /\ imu = "idle" /\ Settle(s, FALSE, conj, StillFor(s))
        BY <2>1, <3>2, Zenon DEF Update
      <4>2. imu' = "idle" => (referenced' => refConj' = conj)
        BY <1>1, <4>1, SettledInUse, Zenon DEF InUse
      <4> QED
        BY <4>1, <4>2, Zenon DEF InUse
    <3> QED
      BY <3>1, <3>2
  <2>2. CASE AfterLog
    <3>1. Settle(sample, TRUE, conj, still) /\ conj' = conj /\ ~locked
      BY <1>1, <2>2, Zenon DEF AfterLog
    <3>2. imu' = "idle" => (referenced' => refConj' = conj)
      BY <3>1, SettledInUse, Zenon
    <3> QED
      BY <3>1, <3>2, Zenon DEF InUse
  <2>3. CASE AfterTiltLog
    BY <2>3, Zenon DEF AfterTiltLog, Capture, InUse
  <2>4. CASE Probe \/ RawSampled \/ Reported \/ ReadFails \/ UNCHANGED vars
    BY <1>1, <2>4 DEF Probe, RawSampled, Reported, ReadFails, vars, reference, reader, InUse
  <2>5. CASE Reset
    BY <2>5, Zenon DEF Reset, InUse
  <2>6. CASE StartTasks \/ NavStep \/ NavLock \/ NavDrop \/ TareChecked \/ TareStored
    <3>1. UNCHANGED <<reference, imu>>
      BY <2>6, Zenon DEF StartTasks, NavStep, NavLock, NavDrop, TareChecked, TareStored, reader
    <3> QED
      BY <1>1, <3>1, Zenon DEF reference, InUse
  <2>7. CASE Lift \/ Cal \/ Sim
    BY <1>1, <2>7 DEF Lift, Cal, Sim, ResetMission, reference, reader, InUse
  <2> QED
    BY <1>1, <2>1, <2>2, <2>3, <2>4, <2>5, <2>6, <2>7, Zenon DEF Next, Sampled
<1>2. [Next]_vars => [InUse /\ ~InUse' => imu = "logging" /\ locked]_vars
  BY <1>1, Zenon
<1> QED
  BY <1>2, PTL DEF Spec, ReferenceInUse

(***************************************************************************)
(* A locked reference stands still                                         *)
(***************************************************************************)

\* No sample, no tare request stored before or after the lock, and no log call
\* that lets other tasks run moves a reference that is locked, nor the
\* convention it is used in, nor begins a capture; one under way is completed.
THEOREM LockHolds == Spec => FrozenInFlight
<1>1. ASSUME [Next]_vars, locked, locked', referenced, imu # "capturing"
      PROVE  UNCHANGED <<conj, refConj, captures>> /\ imu' # "capturing"
  <2>1. ASSUME NEW s, NEW c, NEW t, NEW flipped, Settle(s, flipped, c, t)
        PROVE  UNCHANGED <<refConj, captures>> /\ imu' # "capturing"
    <3>1. ~(Asked(flipped) \/ (~referenced /\ Settled(s, t)))
      BY <1>1, Zenon DEF Asked
    <3>2. UNCHANGED <<refConj, captures>> /\ imu' = "idle"
      BY <2>1, <3>1, Zenon DEF Settle
    <3> QED
      BY <3>2
  <2>2. ASSUME NEW s \in Samples, Update(s)
        PROVE  UNCHANGED <<conj, refConj, captures>> /\ imu' # "capturing"
    <3>1. ~Flips(s)
      BY <1>1, Zenon DEF Flips, Dissent, Evidence
    <3>2. conj' = conj /\ Settle(s, FALSE, conj, StillFor(s))
      BY <2>2, <3>1, Zenon DEF Update
    <3> QED
      BY <2>1, <3>2, Zenon
  <2>3. CASE AfterLog
    BY <2>1, <2>3, Zenon DEF AfterLog
  <2>4. ~Reset /\ ~AfterTiltLog
    BY <1>1, Zenon DEF Reset, AfterTiltLog
  <2>5. CASE UNCHANGED vars
    BY <1>1, <2>5 DEF vars, reference, reader
  <2>6. CASE Next /\ ~Sampled /\ ~AfterLog
    <3>1. UNCHANGED <<reference, imu>>
      BY <2>4, <2>6, Zenon DEF Next, Probe, RawSampled, Reported, ReadFails, StartTasks,
         NavStep, NavLock, NavDrop, TareChecked, TareStored, Lift, Cal, Sim,
         ResetMission, reader
    <3> QED
      BY <1>1, <3>1 DEF reference
  <2> QED
    BY <1>1, <2>2, <2>3, <2>5, <2>6, Zenon DEF Sampled
<1>2. [Next]_vars => [locked /\ locked' /\ referenced /\ imu # "capturing"
                       => UNCHANGED <<conj, refConj, captures>> /\ imu' # "capturing"]_vars
  BY <1>1, Zenon
<1> QED
  BY <1>2, PTL DEF Spec, FrozenInFlight
=============================================================================
