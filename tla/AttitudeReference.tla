------------------------- MODULE AttitudeReference -------------------------
(***************************************************************************)
(* The attitude reference of the IMU driver (imu_attitude.cpp) and the     *)
(* tasks that share it: imu_task feeds it a sample every 10 ms, nav_task   *)
(* locks it for the flight, the command tasks ask for a tare and unlock it *)
(* when they reset the mission, and a reset in flight starts it afresh.    *)
(*                                                                         *)
(* The rotations are abstract: of a captured reference the model keeps the *)
(* quaternion convention it was computed in, and that it was computed.     *)
(* Time is counted in units of a sample gap; a sample that follows failed  *)
(* reads carries a longer one.  An update is one step, as imu_task has the *)
(* highest priority, except where it logs before it is done: it may have   *)
(* to wait for the console, and all other tasks run meanwhile.  The driver *)
(* looks for its sensor once after each reset; only a BNO055 reaches the   *)
(* reference.  The automatic re-mount, which nothing in the program        *)
(* switches on, is not modelled.                                           *)
(***************************************************************************)
EXTENDS Integers, Sequences

CONSTANTS
  InitialStill,   \* INITIAL_STILL_S
  ConjConfirm,    \* CONJ_CONFIRM_S
  FallbackStill,  \* FALLBACK_STILL_S
  Boards,         \* the sensors a board may carry
  MaxGap          \* longest sample gap that is believed (0.5 s)

Drivers == <<"BNO055", "MPU6050", "BNO085">>   \* in the order init looks for them

ASSUME AttitudeAssumption ==
  /\ \A board \in Boards : board \subseteq {Drivers[i] : i \in DOMAIN Drivers}
  /\ {InitialStill, ConjConfirm, FallbackStill, MaxGap} \subseteq Nat \ {0}
  /\ InitialStill < FallbackStill /\ MaxGap < FallbackStill

VARIABLES
  still, vote,        \* still_s_ (up to FallbackStill), conj_vote_s_
  conj,               \* conj_: quaternions are conjugated on input
  tareReq, locked,    \* tare_req_, locked_
  referenced,         \* referenced_
  refConj,            \* convention q_m_ and q_yaw0_ were computed in
  captures,           \* ref_count_, modulo 2
  imu,                \* imu_task: "idle", or in a log call of update ("logging") or
                      \* of capture ("capturing")
  sample,             \* the sample being processed
  snapshot,           \* latest_imu_snap: "none", "raw", "level" or "attitude"
  fitted, sensor,     \* the sensors there are, and the one init has found
  tasks,              \* the tasks have been created
  tried,              \* imu_task has made its first read
  resumed,            \* g_resumed_in_flight
  flight, lift, sim,  \* mission.flight_started, lift_test, simulation
  nav,                \* nav_task: "idle", or in its cycle, holding fc_mutex
  tare                \* a command task found the reference unlocked

reference == <<conj, referenced, refConj, captures>>
counters  == <<still, vote>>
reader    == <<imu, sample, snapshot>>
mission   == <<flight, lift, sim>>
boot      == <<tasks, resumed>>
board     == <<fitted, sensor>>
vars      == <<reference, counters, tareReq, locked, reader, tried, mission, boot, nav, tare, board>>

Fits    == {"none", "asIs", "conj"}
Samples == [still : BOOLEAN, gravity : BOOLEAN, fit : Fits, converged : BOOLEAN,
            tilted : BOOLEAN, dt : 1 .. MaxGap]
NoSample == [still |-> FALSE, gravity |-> FALSE, fit |-> "none",
             converged |-> FALSE, tilted |-> FALSE, dt |-> 1]
MutexFree == nav = "idle"
AtMost(n, cap) == IF n > cap THEN cap ELSE n

Init ==
  /\ conj = FALSE /\ referenced = FALSE /\ refConj = FALSE /\ captures = 0
  /\ still = 0 /\ vote = 0 /\ tareReq = FALSE /\ locked = FALSE
  /\ imu = "idle" /\ sample = NoSample /\ snapshot = "none"
  /\ tasks = FALSE /\ tried = FALSE /\ nav = "idle" /\ tare = FALSE
  /\ flight = FALSE /\ resumed = FALSE /\ lift = FALSE /\ sim = FALSE
  /\ fitted \in Boards /\ sensor = "unprobed"

(***************************************************************************)
(* BNO085::init, whose result main_fc ignores: the first sensor that       *)
(* answers is used, and one that does not answer is not looked for again.  *)
(***************************************************************************)
FirstOf(answering) ==
  LET found == SelectSeq(Drivers, LAMBDA d : d \in answering) IN
    IF found = <<>> THEN "unknown" ELSE Head(found)

Probe ==
  /\ sensor = "unprobed"
  /\ \E answering \in SUBSET fitted : sensor' = FirstOf(answering)
  /\ UNCHANGED <<reference, counters, tareReq, locked, reader, tried, mission, boot, nav, tare, fitted>>

(***************************************************************************)
(* One update of the reference.  First half: stillness, and the vote on    *)
(* the convention; a vote that succeeds logs before it goes on.            *)
(***************************************************************************)
EvidenceInFlight(s) == s.still /\ s.gravity /\ s.fit # "none"   \* mutant of Evidence
Evidence(s) == s.still /\ s.gravity /\ ~locked /\ s.fit # "none"
Dissent(s)  == Evidence(s) /\ (s.fit = "conj") # conj
Flips(s)    == Dissent(s) /\ vote + s.dt >= ConjConfirm

StillFor(s) == IF s.still THEN AtMost(still + s.dt, FallbackStill) ELSE 0

VoteAfter(s) == IF Flips(s) \/ (Evidence(s) /\ ~Dissent(s)) THEN 0
                ELSE IF Dissent(s) THEN vote + s.dt ELSE vote

Converged(s) == s.gravity /\ s.converged

\* Capture of the reference: mount, level trim and heading from one sample.  When
\* the vehicle is too tilted to be trimmed, it logs so before it goes on.
Capture(c) == referenced' = TRUE /\ refConj' = c /\ captures' = 1 - captures

\* A tare was requested, or the reference is in the convention just given up
AskedByTare(flipped) == tareReq /\ ~locked   \* mutant of Asked
Asked(flipped) == (tareReq \/ (flipped /\ referenced)) /\ ~locked

\* The board has settled: still for t, and the fusion agrees or never will
SettledAgreeing(s, t) == s.still /\ t >= InitialStill /\ Converged(s)   \* mutant of Settled
Settled(s, t) ==
  s.still /\ ((t >= InitialStill /\ Converged(s)) \/ t >= FallbackStill)

\* What a sample leaves for the other tasks: the boot loop keeps its own
Snapshot(kind) == IF tasks THEN kind ELSE "none"

\* Until it is referenced, the driver reports a level attitude
Output(isReferenced) == Snapshot(IF isReferenced THEN "attitude" ELSE "level")

\* Second half, with the convention c and the stillness t of this sample
Settle(s, flipped, c, t) ==
  /\ tareReq' = FALSE
  /\ still' = IF Asked(flipped) THEN 0 ELSE t
  /\ sample' = NoSample
  /\ LET captured == Asked(flipped) \/ (~referenced /\ Settled(s, t)) IN
       \/ /\ captured /\ s.tilted /\ imu' = "capturing"
          /\ UNCHANGED <<referenced, refConj, captures, snapshot>>
       \/ /\ captured /\ ~s.tilted /\ imu' = "idle"
          /\ Capture(c) /\ snapshot' = Output(TRUE)
       \/ /\ ~captured /\ imu' = "idle"
          /\ UNCHANGED <<referenced, refConj, captures>> /\ snapshot' = Output(referenced)

\* The boot loop of main_fc reads samples too
Running == sensor # "unprobed" /\ (tasks \/ ~resumed)

Update(s) ==
  /\ imu = "idle" /\ Running /\ sensor = "BNO055" /\ tried' = tasks
  /\ conj' = IF Flips(s) THEN s.fit = "conj" ELSE conj
  /\ vote' = VoteAfter(s)
  /\ \/ /\ ~Flips(s)
        /\ Settle(s, FALSE, conj, StillFor(s))
     \/ /\ Flips(s)
        /\ imu' = "logging" /\ sample' = s /\ still' = StillFor(s)
        /\ UNCHANGED <<referenced, refConj, captures, tareReq, snapshot>>
  /\ UNCHANGED <<locked, mission, boot, nav, tare, board>>

Sampled == \E s \in Samples : Update(s)

AfterLog ==
  /\ imu = "logging"
  /\ Settle(sample, TRUE, conj, still)
  /\ UNCHANGED <<conj, vote, locked, tried, mission, boot, nav, tare, board>>

\* The rest of a capture
AfterTiltLog ==
  /\ imu = "capturing" /\ imu' = "idle"
  /\ Capture(conj) /\ snapshot' = Output(TRUE)
  /\ UNCHANGED <<conj, counters, tareReq, locked, sample, tried, mission, boot, nav, tare, board>>

\* The other sensors never give an attitude: an MPU6050 gives acceleration and
\* rate together, a BNO085 one of them in a packet, and the magnetic field in
\* packets that do not count as samples
RawSampled ==
  /\ imu = "idle" /\ Running /\ sensor = "MPU6050" /\ tried' = tasks
  /\ snapshot' = Snapshot("raw")
  /\ UNCHANGED <<reference, counters, tareReq, locked, imu, sample, mission, boot, nav, tare, board>>

Reports   == {"acceleration", "rate", "field"}
IsSample(report) == report # "field"

Reported ==
  /\ imu = "idle" /\ Running /\ sensor = "BNO085" /\ tried' = tasks
  /\ \E report \in Reports : snapshot' = IF IsSample(report) THEN Snapshot("raw") ELSE snapshot
  /\ UNCHANGED <<reference, counters, tareReq, locked, imu, sample, mission, boot, nav, tare, board>>

\* A failed read returns before the update, and so does one without a sensor:
\* the snapshot stays what it was
ReadFails ==
  /\ imu = "idle" /\ Running /\ tried' = tasks
  /\ UNCHANGED <<reference, counters, tareReq, locked, reader, mission, boot, nav, tare, board>>

(***************************************************************************)
(* Boot: after a reset in flight the tare is requested at once, otherwise  *)
(* main_fc reads samples until referenced, but no more than 400 of them.   *)
(***************************************************************************)
StartTasks ==
  /\ ~tasks /\ sensor # "unprobed" /\ imu = "idle" /\ tasks' = TRUE
  /\ tareReq' = (resumed \/ tareReq)
  /\ UNCHANGED <<reference, counters, locked, reader, tried, resumed, mission, nav, tare, board>>

Reset ==
  /\ flight' \in {FALSE, flight} /\ resumed' = flight'
  /\ conj' = FALSE /\ referenced' = FALSE /\ refConj' = FALSE /\ captures' = 0
  /\ still' = 0 /\ vote' = 0 /\ tareReq' = FALSE /\ locked' = FALSE
  /\ imu' = "idle" /\ sample' = NoSample /\ snapshot' = "none"
  /\ tasks' = FALSE /\ tried' = FALSE /\ nav' = "idle" /\ tare' = FALSE
  /\ lift' = FALSE /\ sim' = FALSE
  /\ sensor' = "unprobed" /\ fitted' = fitted

(***************************************************************************)
(* nav_task, holding fc_mutex: a barometer sample may start the flight;    *)
(* in flight it locks the reference, then drops a pending tare request.    *)
(* imu_task is created first and preempts, so its first read comes before. *)
(***************************************************************************)
NavStep ==
  /\ tasks /\ tried /\ nav = "idle"
  /\ flight' \in {flight, TRUE}
  /\ nav' = IF flight' THEN "lock" ELSE "idle"
  /\ UNCHANGED <<reference, counters, tareReq, locked, reader, tried, lift, sim, boot, tare, board>>

NavLock ==
  /\ nav = "lock" /\ nav' = "drop" /\ locked' = TRUE
  /\ UNCHANGED <<reference, counters, tareReq, reader, tried, mission, boot, tare, board>>

NavDrop ==
  /\ nav = "drop" /\ nav' = "idle" /\ tareReq' = FALSE
  /\ UNCHANGED <<reference, counters, locked, reader, tried, mission, boot, tare, board>>

(***************************************************************************)
(* The command handlers.                                                   *)
(***************************************************************************)
TareChecked ==
  /\ tasks /\ ~tare /\ ~locked /\ tare' = TRUE
  /\ UNCHANGED <<reference, counters, tareReq, locked, reader, tried, mission, boot, nav, board>>

TareStored ==
  /\ tare /\ tare' = FALSE /\ tareReq' = TRUE
  /\ UNCHANGED <<reference, counters, locked, reader, tried, mission, boot, nav, board>>

ResetMission ==
  /\ tasks /\ MutexFree
  /\ flight' = FALSE /\ locked' = FALSE
  /\ UNCHANGED <<reference, counters, tareReq, reader, tried, boot, nav, tare, board>>

Lift == /\ ~flight \/ lift
        /\ ResetMission /\ lift' \in BOOLEAN /\ sim' = sim
Cal  == /\ ~flight \/ lift
        /\ ResetMission /\ UNCHANGED <<lift, sim>>
Sim  == /\ ~flight \/ sim
        /\ ResetMission /\ sim' \in BOOLEAN /\ lift' = lift

Next ==
  \/ Probe \/ Sampled \/ AfterLog \/ AfterTiltLog \/ RawSampled \/ Reported \/ ReadFails
  \/ StartTasks \/ Reset
  \/ NavStep \/ NavLock \/ NavDrop
  \/ TareChecked \/ TareStored
  \/ Lift \/ Cal \/ Sim

Fairness ==
  WF_vars(Sampled) /\ WF_vars(AfterLog) /\ WF_vars(AfterTiltLog) /\ WF_vars(StartTasks)

Spec == Init /\ [][Next]_vars /\ Fairness
-----------------------------------------------------------------------------
\* A convention that is resolved anew takes the reference along ("convention
\* flipped: old reference is in the wrong convention", imu_attitude.cpp), whatever
\* tares, resets and launches come in between.  There is one way to part them:
\* nav_task sets the flight lock while update waits for its log call, between its
\* vote and the capture that the lock then forbids.
InUse == imu = "idle" /\ referenced => refConj = conj
ReferenceInUse == [][InUse /\ ~InUse' => imu = "logging" /\ locked]_vars

\* The reference does not move while it is locked (imu_attitude.hpp, set_locked),
\* whatever tare requests were stored around the lock and whatever the convention
\* vote had gathered; but a capture that was waiting for its log call when the
\* lock was set is completed.
FrozenInFlight ==
  [][locked /\ locked' /\ referenced /\ imu # "capturing"
       => UNCHANGED <<conj, refConj, captures>> /\ imu' # "capturing"]_vars

\* A board that is held still gets a reference in the end, also when the fused
\* gravity never agrees with the accelerometer (FALLBACK_STILL_S), and the
\* other tasks then see an attitude for good, whatever reads fail.
StillBoardReferenced ==
  /\ <>[](still > 0) => <>referenced
  /\ <>[](still > 0 /\ tasks) => <>[](snapshot = "attitude")
=============================================================================
