--------------------------- MODULE VerticalFilter ---------------------------
(***************************************************************************)
(* What the vertical-channel filter (vertical_kf.hpp) lets through: the    *)
(* median of three raw barometer samples, the physical rate limit, the     *)
(* innovation gate, its bypass around saturated accelerometer samples, and *)
(* the hold that ends in a re-sync when the rejected stream is smooth.     *)
(* nav_task (main.cpp) feeds it and the commands replace it on the pad.    *)
(*                                                                         *)
(* Altitudes are whole units of SigmasPerUnit standard deviations of the   *)
(* barometer, time is counted in baro periods.  The estimate and its       *)
(* covariance are not modelled: the prediction may be anything, so a       *)
(* sample may agree with it or not (agrees).  The median and the smoothness*)
(* buffers (med_, d2_) hold the same samples and are one sequence, raw.    *)
(* The real altitude is the environment's, moving at most one unit from a  *)
(* sample to the next; a sample that is not the real altitude is a glitch. *)
(***************************************************************************)
EXTENDS Integers, Sequences, SequencesExt

CONSTANTS
  Top,            \* altitudes are 0 .. Top
  MaxGap,         \* longest time between two samples that arrive
  SigmasPerUnit,  \* altitude unit in units of baro_sigma_
  MaxRate,        \* baro_max_rate_mps, in units a period
  Believed,       \* time after which the rate limit is given up (5 s)
  ResyncAfter,    \* resync_after_s
  ResyncSamples,  \* samples a re-sync needs (10)
  ClipHold        \* predictions clip_hold_s_ lasts (0.5 s)

NoiseMax == 6     \* rms of the second differences of an erratic stream

ASSUME FilterAssumption ==
  /\ {Top, MaxGap, SigmasPerUnit, MaxRate, ResyncAfter, ResyncSamples, ClipHold}
       \subseteq Nat \ {0}
  /\ Believed \in Nat /\ Believed > MaxGap
  /\ ResyncSamples <= ResyncAfter

VARIABLES
  initialised,  \* initialised_
  raw,          \* the last three raw samples since the filter began
  accepted,     \* last_acc_z_ and the time since last_acc_t_
  gate,         \* gate_: rejecting, time since t_first, diff_sq, n_diff
  clip,         \* clip_hold_s_, in predictions
  real,         \* the real altitude
  streak,       \* smooth samples rejected one after the other (observer)
  isolated,     \* every glitch so far had two good samples before it (observer)
  good          \* good samples since the last glitch, up to 2 (observer)

filter   == <<initialised, raw, accepted, gate, clip>>
observer == <<streak, isolated, good>>
vars     == <<filter, real, observer>>

Altitudes == 0 .. Top
Open      == [rejecting |-> FALSE, age |-> 0, diffSq |-> 0, n |-> 0]

Least(S) == CHOOSE x \in S : \A y \in S : x <= y
Capped(x, top) == Least({x, top})
Distance(x, y) == IF x < y THEN y - x ELSE x - y

\* More samples than this never share a window that is not over.
Window == ResyncAfter + 1
\* A sum of squares no window can average out any more.
Hopeless == NoiseMax * NoiseMax * Window

Init ==
  /\ initialised = FALSE
  /\ raw = <<>>
  /\ accepted = [z |-> 0, age |-> 0]
  /\ gate = Open
  /\ clip = 0
  /\ real \in Altitudes
  /\ streak = 0 /\ isolated = TRUE /\ good = 0

-----------------------------------------------------------------------------
\* The barometer

\* The middle one of three samples; the newest while there are fewer.
Median(s) ==
  IF Len(s) < 3 THEN Last(s)
  ELSE CHOOSE m \in ToSet(s) :
         /\ \E i, j \in 1 .. 3 : i # j /\ s[i] <= m /\ s[j] <= m
         /\ \E i, j \in 1 .. 3 : i # j /\ s[i] >= m /\ s[j] >= m

\* The square of the second difference, in squared standard deviations.
Jolt(s) ==
  IF Len(s) < 3 THEN 0
  ELSE LET d == s[3] - 2 * s[2] + s[1]
       IN  SigmasPerUnit * SigmasPerUnit * d * d

\* Mutant of Recent: a full buffer is overwritten in one place only.
RecentStuck(s, z) == IF Len(s) = 3 THEN <<s[1], s[2], z>> ELSE Append(s, z)
Recent(s, z) == LET t == Append(s, z) IN IF Len(t) > 3 THEN Tail(t) ELSE t

\* No faster than a CanSat can move, from the last sample accepted.
Plausible(z, age) ==
  age < Believed => Distance(z, accepted.z) <= MaxRate * age

Passes(z, age, agrees) == Plausible(z, age) /\ (agrees \/ clip > 0)

\* The gate after one more rejected sample, before it decides.
Counted(jolt, gap) ==
  IF gate.rejecting
  THEN [gate EXCEPT !.age = Capped(@ + gap, ResyncAfter),
                    !.diffSq = Capped(@ + jolt, Hopeless), !.n = Capped(@ + 1, Window)]
  ELSE [rejecting |-> TRUE, age |-> 0, diffSq |-> Capped(jolt, Hopeless), n |-> 1]

WindowOver(g) == g.age >= ResyncAfter /\ g.n >= ResyncSamples
Smooth(g)     == g.diffSq < NoiseMax * NoiseMax * g.n
\* Mutant of Restarted: the squares are carried into the next window.
RestartedDirty(g) == [g EXCEPT !.age = 0, !.n = 0]
Restarted(g)  == [g EXCEPT !.age = 0, !.diffSq = 0, !.n = 0]

Accept(z) == /\ accepted' = [z |-> z, age |-> 0]
             /\ gate' = Open

Keep(g, gap) == /\ gate' = g
                /\ accepted' = [accepted EXCEPT !.age = Capped(@ + gap, Believed)]

\* gate_decide: re-sync to a smooth stream, start over on an erratic one.
Hold(z, jolt, gap) ==
  LET g == Counted(jolt, gap)
  IN  IF ~ WindowOver(g) THEN Keep(g, gap)
      ELSE IF Smooth(g) THEN Accept(z)
      ELSE Keep(Restarted(g), gap)

\* reset: the first sample is taken as it is.
FirstSample(z) ==
  /\ ~ initialised
  /\ initialised' = TRUE
  /\ Accept(z)
  /\ UNCHANGED <<raw, clip>>

NextSample(z, gap, agrees) ==
  /\ initialised
  /\ raw' = Recent(raw, z)
  /\ LET m   == Median(raw')
         age == Capped(accepted.age + gap, Believed)
     IN  IF Passes(m, age, agrees) THEN Accept(m) ELSE Hold(m, Jolt(raw'), gap)
  /\ UNCHANGED <<initialised, clip>>

Observe(z) ==
  LET glitch == z # real'
  IN  /\ good' = IF glitch THEN 0 ELSE Capped(good + 1, 2)
      /\ isolated' = (isolated /\ (glitch => good = 2 /\ Len(raw) >= 2))
      /\ streak' = IF gate'.rejecting /\ Jolt(raw') < NoiseMax * NoiseMax
                   THEN Capped(streak + 1, 2 * Window) ELSE 0

\* update_baro, called by nav_task with a new sample.
Baro ==
  \E gap \in 1 .. MaxGap, z \in Altitudes :
    /\ real' \in {a \in Altitudes : Distance(a, real) <= 1}
    /\ FirstSample(z) \/ \E agrees \in BOOLEAN : NextSample(z, gap, agrees)
    /\ Observe(z)

-----------------------------------------------------------------------------
\* The accelerometer and the commands

\* predict, called by nav_task with a new IMU sample that has an attitude.
Predict ==
  /\ initialised
  /\ \E clipped \in BOOLEAN :
       clip' = IF clipped THEN ClipHold ELSE IF clip > 0 THEN clip - 1 ELSE 0
  /\ UNCHANGED <<initialised, raw, accepted, gate, real, observer>>

\* CAL, LIFT and SIM put a new filter in its place.
Replace ==
  /\ initialised' = FALSE
  /\ raw' = <<>> /\ accepted' = [z |-> 0, age |-> 0] /\ gate' = Open /\ clip' = 0
  /\ streak' = 0 /\ isolated' = TRUE /\ good' = 0
  /\ UNCHANGED real

Next == Baro \/ Predict \/ Replace

\* The barometer goes on whatever the accelerometer does.
Fairness == WF_vars(Baro)

Spec == Init /\ [][Next]_vars /\ Fairness

-----------------------------------------------------------------------------
\* Properties

\* The filter does not stay blind: whatever it saw before, wherever its
\* prediction is, it never rejects a smooth stream for two windows: the one
\* that is open when the stream becomes smooth ends, and the next is smooth
\* and re-synchronises.
HeldIsBounded == streak <= 2 * Window - 3

\* Single glitches never reach the estimate: as long as every glitch comes
\* after two good samples (and not in the first three samples of the filter),
\* a sample it accepts is where the CanSat really was a median's lag ago.
IsolatedGlitchesHarmless ==
  initialised /\ isolated /\ accepted.age = 0
    => Distance(accepted.z, real) <= 2
=============================================================================
