--------------------------- MODULE SensorProofs ---------------------------
(***************************************************************************)
(* Proofs about the ways from the sensors to the flight software, for      *)
(* every value of the filter's and the receiver's constants.               *)
(***************************************************************************)
EXTENDS SensorPaths, TLAPS

\* What a path does is a step of its own module, and no step of the others.
LEMMA PathsApart ==
  ASSUME [SensorNext]_sensorVars
  PROVE  [Next]_vars /\ [BaroNext]_baroVars /\ [GnssNext]_gnssVars
BY Zenon DEF SensorNext, OnFilter, OnBaro, OnGnss, sensorVars

(***************************************************************************)
(* The barometer: samples of the mission before                            *)
(***************************************************************************)

Kinds == {"none", "current", "old"}

BaroTypeOK ==
  /\ taken \in Kinds \cup {"idle"} /\ injected \in Kinds \cup {"idle"}
  /\ copied \in Kinds \cup {"idle", "nothing"}
  /\ newest \in [of : Kinds, fresh : BOOLEAN]
  /\ ghosts \in 0 .. Crowd

Count(b) == IF b THEN 1 ELSE 0

\* The old samples that may still reach the mission: each lies in a place of
\* its own, moves on to the next one, and is not made anew.
UnderWay ==
  Count(taken = "old") + Count(injected = "old") + Count(copied = "old")
    + Count(newest.of = "old" /\ newest.fresh)

GhostsCounted == ghosts + UnderWay <= 4

BaroInv == BaroTypeOK /\ GhostsCounted

\* A mission started again sees at most the four samples that were under way:
\* whatever is read, fails, is published or switched afterwards, no fifth one.
THEOREM FewGhosts == SensorSpec => []GhostsAreFew
<1> USE DEF BaroInv, BaroTypeOK, GhostsCounted, UnderWay, Count, Kinds, Crowd
<1>1. SensorInit => BaroInv
  BY DEF SensorInit, BaroInit
<1>2. BaroInv /\ [BaroNext]_baroVars => BaroInv'
  <2> SUFFICES ASSUME BaroInv, [BaroNext]_baroVars PROVE BaroInv'
    OBVIOUS
  <2>1. CASE SensorReads
    BY <2>1 DEF SensorReads, Readings
  <2>2. CASE SensorPublishes
    BY <2>2 DEF SensorPublishes
  <2>3. CASE SimpReads
    BY <2>3 DEF SimpReads, Readings
  <2>4. CASE SimpPublishes
    BY <2>4 DEF SimpPublishes
  <2>5. CASE NavCopies
    <3>1. \A r \in [of : Kinds, fresh : BOOLEAN], v \in BOOLEAN :
            /\ [r EXCEPT !.fresh = v] \in [of : Kinds, fresh : BOOLEAN]
            /\ [r EXCEPT !.fresh = v].of = r.of
            /\ [r EXCEPT !.fresh = v].fresh <=> v
      BY SMT
    <3>2. /\ newest' \in [of : Kinds, fresh : BOOLEAN]
          /\ newest'.of = newest.of /\ ~newest'.fresh
      BY <2>5, <3>1, Zenon DEF NavCopies
    <3>3. /\ copied' = IF newest.fresh THEN newest.of ELSE "nothing"
          /\ UNCHANGED <<taken, injected, ghosts>> /\ copied = "idle"
      BY <2>5, Zenon DEF NavCopies
    <3> QED
      BY <3>2, <3>3
  <2>6. CASE NavSteps
    <3>1. /\ copied # "idle" /\ copied' = "idle" /\ UNCHANGED <<taken, newest, injected>>
          /\ ghosts' = IF copied = "old" /\ ghosts < Crowd THEN ghosts + 1 ELSE ghosts
      <4>1. copied = "nothing" => copied # "old"
        OBVIOUS
      <4> QED
        BY <2>6, <4>1, Zenon DEF NavSteps
    <3> QED
      BY <3>1
  <2>7. ASSUME MissionReset, NoneAged \/ AllAged PROVE BaroInv'
    <3>1. CASE NoneAged
      BY <2>7, <3>1 DEF MissionReset, NoneAged
    <3>2. CASE AllAged
      <4>1. newest' = [newest EXCEPT !.of = Aged(newest.of)] /\ ghosts' = 0
        BY <2>7, <3>2 DEF AllAged, MissionReset
      <4>2. Aged(newest.of) \in Kinds
        BY DEF Aged
      <4>3. BaroTypeOK'
        BY <3>2, <4>1, <4>2 DEF AllAged, Aged
      <4> QED
        BY <4>1, <4>3
    <3> QED
      BY <2>7, <3>1, <3>2
  <2>8. CASE CalBegins
    <3>1. CASE newest.of = "none"
      BY <2>7, <2>8, <3>1, Zenon DEF CalBegins
    <3>2. CASE newest.of # "none"
      BY <2>8, <3>2 DEF CalBegins, NoneAged
    <3> QED
      BY <3>1, <3>2
  <2>9. CASE CalEnds \/ Sim \/ Lift
    BY <2>7, <2>9, Zenon DEF CalEnds, Sim, Lift
  <2>10. CASE UNCHANGED baroVars
    BY <2>10 DEF baroVars
  <2> QED
    BY <2>1, <2>2, <2>3, <2>4, <2>5, <2>6, <2>8, <2>9, <2>10 DEF BaroNext
<1>3. BaroInv => GhostsAreFew
  BY DEF GhostsAreFew
<1> QED
  BY <1>1, <1>2, <1>3, PathsApart, PTL DEF SensorSpec

(***************************************************************************)
(* The GNSS receiver: how long an old position may steer                   *)
(***************************************************************************)

Fixes == [valid : BOOLEAN, age : 0 .. FixTimeout + 1, enough : BOOLEAN]

GnssTypeOK ==
  /\ due \subseteq Sentences /\ lost \in 0 .. MaxLost
  /\ cache \in Fixes /\ latest \in Fixes /\ rxAge \in 0 .. FixTimeout + 1
  /\ clock \in {"old", "new", "stamped"} /\ sensor \in {"read", "parsed", "stamped"}
  /\ control \in {"idle", "fresh", "stale"} /\ guide \in {"off", "fresh", "stale"}
  /\ stale \in Nat

OldFix(fix) == fix.valid /\ fix.age > FixTimeout

\* The epochs for which a stamp made without a position can be believed.
Epochs == FixTimeout + 1

Paid(n) == n * Epochs

\* Every GGA that was lost can have let one stamp pass, which serves Epochs
\* epochs; the last of these stamps has served rxAge of them.
Served == IF clock = "new" \/ "RMC" \in due THEN 0 ELSE rxAge

LossesPaid ==
  OldFix(cache) => IF "GGA" \in due THEN stale <= Paid(lost)
                                    ELSE stale + Epochs <= Paid(lost) + Served

\* As long as no GGA was lost, the stamp is as old as the position.
StampAsOld ==
  cache.valid /\ lost = 0 /\ "GGA" \notin due =>
    \/ cache.age = 0
    \/ clock = "old" /\ due = {} /\ rxAge >= cache.age

OldSteers == guide = "stale" \/ control = "stale" \/ OldFix(latest)

\* An old position steers because it was cached at the beginning of the epoch,
\* and because the stamp is new.
OldSteering ==
  /\ OldSteers \/ OldFix(cache) => stale <= Paid(MaxLost)
  /\ OldSteers => OldFix(cache) \/ cache.age = 0 \/ ~cache.valid
  /\ sensor = "read" => latest = cache
  /\ guide = "stale" => rxAge <= FixTimeout
  /\ StaleSteeringEnds

GnssInv == GnssTypeOK /\ LossesPaid /\ StampAsOld /\ OldSteering

\* What a sentence makes of the cached fix: GGA renews it or ends it, RMC renews
\* it or leaves it.
LEMMA ParsedFix ==
  ASSUME NEW kind \in Sentences, NEW c \in Fixes, NEW fix \in Parsed(kind, c)
  PROVE  /\ fix \in Fixes
         /\ fix.age = 0 \/ ~fix.valid \/ (kind = "RMC" /\ fix = c)
<1> USE DEF Fixes
<1>1. 0 \in 0 .. FixTimeout + 1
  BY GnssAssumption
<1>2. ASSUME NEW e \in BOOLEAN, NEW v \in BOOLEAN
      PROVE  [valid |-> v, age |-> 0, enough |-> e] \in Fixes
  BY <1>1
<1>3. \A e \in BOOLEAN : Fix(e) \in Fixes /\ Fix(e).age = 0
  <2>1. TRUE \in BOOLEAN
    OBVIOUS
  <2>2. \A e \in BOOLEAN : Fix(e) \in Fixes
    BY <1>2, <2>1, Zenon DEF Fix
  <2>3. \A e \in BOOLEAN : Fix(e).age = 0
    BY DEF Fix
  <2> QED
    BY <2>2, <2>3
<1>4. \A v \in BOOLEAN, e \in BOOLEAN :
        /\ [c EXCEPT !.valid = v, !.enough = e] \in Fixes
        /\ [c EXCEPT !.valid = v, !.enough = e].valid <=> v
        /\ [c EXCEPT !.enough = e] \in Fixes
        /\ [c EXCEPT !.enough = e].valid <=> c.valid
  OBVIOUS
<1>5. Gga(c) \in Fixes /\ (Gga(c).age = 0 \/ ~Gga(c).valid)
  <2>1. (sky = "open") \in BOOLEAN /\ FALSE \in BOOLEAN
    BY Zenon
  <2> QED
    BY <1>3, <1>4, <2>1, Zenon DEF Gga
<1>6. CASE kind = "RMC"
  <2>1. fix = IF HasFix THEN Fix(c.enough) ELSE c
    BY <1>6, Zenon DEF Parsed, Rmc
  <2>2. c.enough \in BOOLEAN
    OBVIOUS
  <2> QED
    BY <1>3, <1>6, <2>1, <2>2, Zenon
<1>7. CASE kind = "GGA"
  <2>1. fix \in Gsv(Gga(c))
    BY <1>7, Zenon DEF Parsed
  <2>2. CASE Gga(c).valid
    <3>1. fix = Gga(c)
      BY <2>1, <2>2, Zenon DEF Gsv
    <3> QED
      BY <1>5, <3>1, Zenon
  <2>3. CASE ~Gga(c).valid
    <3>1. PICK b \in BOOLEAN : fix = [Gga(c) EXCEPT !.enough = b]
      BY <2>1, <2>3, Zenon DEF Gsv
    <3>2. \A f \in Fixes : [f EXCEPT !.enough = b] \in Fixes
                           /\ ([f EXCEPT !.enough = b].valid <=> f.valid)
      OBVIOUS
    <3> QED
      BY <1>5, <2>3, <3>1, <3>2, Zenon
  <2> QED
    BY <2>2, <2>3, Zenon
<1> QED
  BY <1>6, <1>7, Zenon DEF Sentences
\* What n lost GGA pay for, in epochs.
LEMMA Payments ==
  /\ \A n \in 0 .. MaxLost : /\ Paid(n) \in Nat /\ Paid(n) <= Paid(MaxLost)
                             /\ Paid(n + 1) = Paid(n) + Epochs
                             /\ n # 0 => Paid(n) >= Epochs
  /\ Paid(0) = 0 /\ Paid(MaxLost) \in Nat /\ Epochs \in Nat
<1>1. \A m, n, e \in Nat :
        /\ m * e \in Nat
        /\ (m + 1) * e = m * e + e
        /\ m <= n => m * e <= n * e
        /\ m # 0 => m * e >= e
        /\ 0 * e = 0
  <2>1. \A m, e \in Nat : m * e \in Nat /\ (m + 1) * e = m * e + e /\ 0 * e = 0
    OBVIOUS
  <2>2. \A m, n, e \in Nat : m <= n => m * e <= n * e
    <3>1. \A m, k, e \in Nat : k * e \in Nat /\ (m + k) * e = m * e + k * e
      OBVIOUS
    <3>2. SUFFICES ASSUME NEW m \in Nat, NEW n \in Nat, NEW e \in Nat, m <= n
                   PROVE  m * e <= n * e
      OBVIOUS
    <3>3. n - m \in Nat /\ n = m + (n - m)
      BY <3>2
    <3>4. (n - m) * e \in Nat /\ n * e = m * e + (n - m) * e
      BY <3>1, <3>3
    <3>5. m * e \in Nat /\ n * e \in Nat
      BY <2>1
    <3> QED
      BY <3>4, <3>5
  <2>3. \A m, e \in Nat : m # 0 => m * e >= e
    <3>1. \A m \in Nat : m # 0 => 1 <= m
      OBVIOUS
    <3>2. \A e \in Nat : 1 * e = e
      OBVIOUS
    <3> QED
      BY <2>2, <3>1, <3>2
  <2> QED
    BY <2>1, <2>2, <2>3
<1>2. Epochs \in Nat /\ MaxLost \in Nat /\ 0 \in Nat
  BY GnssAssumption DEF Epochs
<1>3. \A n \in 0 .. MaxLost : n \in Nat /\ n <= MaxLost
  BY <1>2
<1> HIDE DEF Epochs
<1> QED
  BY <1>1, <1>2, <1>3, Zenon DEF Paid

\* The last stamp has served no longer than it is old.
LEMMA ServedIs ==
  /\ GnssTypeOK => Served \in 0 .. Epochs /\ Served <= rxAge
  /\ GnssTypeOK' => Served' \in 0 .. Epochs /\ Served' <= rxAge'
<1>1. FixTimeout \in Nat
  BY GnssAssumption
<1>2. GnssTypeOK => Served \in 0 .. Epochs /\ Served <= rxAge
  <2> SUFFICES ASSUME rxAge \in 0 .. FixTimeout + 1
               PROVE  Served \in 0 .. Epochs /\ Served <= rxAge
    BY Zenon DEF GnssTypeOK
  <2>1. Served = 0 \/ Served = rxAge
    BY Zenon DEF Served
  <2> QED
    BY <1>1, <2>1 DEF Epochs
<1>3. GnssTypeOK' => Served' \in 0 .. Epochs /\ Served' <= rxAge'
  <2> SUFFICES ASSUME rxAge' \in 0 .. FixTimeout + 1
               PROVE  Served' \in 0 .. Epochs /\ Served' <= rxAge'
    BY Zenon DEF GnssTypeOK
  <2>1. Served' = 0 \/ Served' = rxAge'
    BY Zenon DEF Served
  <2> QED
    BY <1>1, <2>1 DEF Epochs
<1> QED
  BY <1>2, <1>3

\* An RMC that changes no fix, heard or lost, leaves the count as it was.
LEMMA RmcPaid ==
  ASSUME GnssInv, GnssTypeOK', "RMC" \in due, "GGA" \in due' <=> "GGA" \in due,
         lost' = lost, stale' = stale, OldFix(cache)' => OldFix(cache)
  PROVE  LossesPaid'
<1>1. CASE "GGA" \in due
  BY <1>1, Zenon DEF GnssInv, LossesPaid
<1>2. CASE "GGA" \notin due
  <2>1. OldFix(cache)' => stale' + Epochs <= Paid(lost') + Served
    BY <1>2, Zenon DEF GnssInv, LossesPaid
  <2>2. Served = 0 /\ Served' \in 0 .. Epochs
    BY ServedIs, Zenon DEF Served
  <2>3. stale' \in Nat /\ Epochs \in Nat /\ Paid(lost') \in Nat
    BY Payments DEF GnssTypeOK
  <2>4. OldFix(cache)' => stale' + Epochs <= Paid(lost') + Served'
    BY <2>1, <2>2, <2>3
  <2> QED
    BY <1>2, <2>4, Zenon DEF LossesPaid
<1> QED
  BY <1>1, <1>2

\* A sentence renews the fix, ends it, or (RMC without a position) leaves all
\* the invariant says of it.
LEMMA GnssParse == GnssInv /\ Parse => GnssInv'
<1> SUFFICES ASSUME GnssInv, Parse PROVE GnssInv'
  OBVIOUS
<1>1. PICK kind \in due :
        /\ due' = due \ {kind} /\ sensor' = "parsed"
        /\ cache' \in Parsed(kind, cache)
        /\ clock' = (IF clock = "old" THEN "new" ELSE clock) \/ clock' = clock
        /\ lost' = IF kind = "GGA" THEN 0 ELSE lost
        /\ UNCHANGED <<rxAge, latest, control, guide, stale>>
  BY Zenon DEF Parse, steering
<1>2. kind \in Sentences /\ cache \in Fixes
  BY DEF GnssInv, GnssTypeOK
<1>3. /\ cache' \in Fixes
      /\ cache'.age = 0 \/ ~cache'.valid \/ (kind = "RMC" /\ cache' = cache)
  BY <1>1, <1>2, ParsedFix
<1>4. GnssTypeOK'
  BY <1>1, <1>3, GnssAssumption DEF GnssInv, GnssTypeOK
<1>5. CASE cache'.age = 0 \/ ~cache'.valid
  <2>1. ~OldFix(cache)'
    BY <1>5, GnssAssumption DEF OldFix
  <2>2. OldSteers' <=> OldSteers
    BY <1>1, Zenon DEF OldSteers, OldFix
  <2>3. OldSteering'
    BY <1>1, <1>5, <2>1, <2>2, Zenon DEF GnssInv, OldSteering, StaleSteeringEnds
  <2> QED
    BY <1>4, <1>5, <2>1, <2>3, Zenon DEF GnssInv, LossesPaid, StampAsOld
<1>6. CASE kind = "RMC" /\ cache' = cache
  <2>1. lost' = lost /\ ("GGA" \in due' <=> "GGA" \in due) /\ "RMC" \in due
    BY <1>1, <1>6
  <2>2. LossesPaid'
    BY <1>1, <1>4, <1>6, <2>1, RmcPaid DEF OldFix
  <2>3. StampAsOld'
    BY <1>6, <2>1 DEF GnssInv, StampAsOld
  <2>4. (OldSteers' <=> OldSteers) /\ (OldFix(cache)' <=> OldFix(cache))
    BY <1>1, <1>6, Zenon DEF OldSteers, OldFix
  <2>5. OldSteering'
    BY <1>1, <1>6, <2>4, Zenon DEF GnssInv, OldSteering, StaleSteeringEnds
  <2> QED
    BY <1>4, <2>2, <2>3, <2>5, Zenon DEF GnssInv
<1> QED
  BY <1>3, <1>5, <1>6, Zenon

\* One more GGA lost: one more stamp may pass.
LEMMA GnssGarble == GnssInv /\ Garble => GnssInv'
<1> SUFFICES ASSUME GnssInv, Garble PROVE GnssInv'
  OBVIOUS
<1>1. PICK kind \in due :
        /\ kind = "GGA" => lost < MaxLost
        /\ lost' = IF kind = "GGA" THEN lost + 1 ELSE lost
        /\ due' = due \ {kind}
        /\ UNCHANGED <<cache, clock, sensor, rxAge, latest, control, guide, stale>>
  BY Zenon DEF Garble, board, steering
<1>2. GnssTypeOK'
  BY <1>1, GnssAssumption DEF GnssInv, GnssTypeOK
<1>3. OldSteering'
  BY <1>1, Zenon DEF GnssInv, OldSteering, OldSteers, OldFix, StaleSteeringEnds
<1>4. OldFix(cache)' <=> OldFix(cache)
  BY <1>1, Zenon DEF OldFix
<1>5. CASE kind = "GGA"
  <2>1. "GGA" \in due /\ "GGA" \notin due' /\ lost' = lost + 1
    BY <1>1, <1>5
  <2>2. OldFix(cache) => stale <= Paid(lost)
    BY <2>1, Zenon DEF GnssInv, LossesPaid
  <2>3. /\ Paid(lost') = Paid(lost) + Epochs /\ Paid(lost) \in Nat /\ Epochs \in Nat
    BY <2>1, Payments, Zenon DEF GnssInv, GnssTypeOK
  <2>4. Served' \in 0 .. Epochs /\ stale \in Nat /\ stale' = stale
    BY <1>1, <1>2, ServedIs, Zenon DEF GnssInv, GnssTypeOK
  <2>5. OldFix(cache) => stale' + Epochs <= Paid(lost') + Served'
    BY <2>2, <2>3, <2>4
  <2>6. LossesPaid'
    BY <1>4, <2>1, <2>5, Zenon DEF LossesPaid
  <2>7. StampAsOld'
    BY <2>1 DEF GnssInv, GnssTypeOK, StampAsOld
  <2> QED
    BY <1>2, <1>3, <2>6, <2>7 DEF GnssInv
<1>6. CASE kind = "RMC"
  <2>1. lost' = lost /\ ("GGA" \in due' <=> "GGA" \in due) /\ "RMC" \in due
    BY <1>1, <1>6
  <2>2. LossesPaid'
    BY <1>1, <1>2, <1>4, <2>1, RmcPaid
  <2>3. StampAsOld'
    BY <1>1, <2>1 DEF GnssInv, StampAsOld
  <2> QED
    BY <1>2, <1>3, <2>2, <2>3 DEF GnssInv
<1> QED
  BY <1>5, <1>6 DEF GnssInv, GnssTypeOK, Sentences

\* Only a position just cached is stamped; what is published is the cache.
LEMMA GnssStamp == GnssInv /\ (Stamp \/ Publish) => GnssInv'
<1> SUFFICES ASSUME GnssInv, Stamp \/ Publish PROVE GnssInv'
  OBVIOUS
<1>1. CASE Stamp
  <2>1. /\ UNCHANGED <<due, lost, cache, latest, control, guide, stale>>
        /\ sensor' = "stamped"
    BY <1>1, Zenon DEF Stamp, receiver, steering
  <2>2. \/ clock = "new" /\ clock' = "stamped" /\ rxAge' = 0
        \/ UNCHANGED <<clock, rxAge>>
    BY <1>1, Zenon DEF Stamp, NewFix
  <2>3. GnssTypeOK'
    BY <2>1, <2>2, GnssAssumption DEF GnssInv, GnssTypeOK
  <2>4. LossesPaid'
    <3>1. Served' = Served
      BY <2>1, <2>2 DEF Served
    <3> QED
      BY <2>1, <3>1, Zenon DEF GnssInv, LossesPaid, OldFix
  <2>5. StampAsOld'
    BY <2>1, <2>2 DEF GnssInv, StampAsOld
  <2>6. OldSteering'
    BY <2>1, <2>2, GnssAssumption
    DEF GnssInv, OldSteering, OldSteers, OldFix, StaleSteeringEnds
  <2> QED
    BY <2>3, <2>4, <2>5, <2>6 DEF GnssInv
<1>2. CASE Publish
  <2>1. /\ UNCHANGED <<due, lost, cache, clock, rxAge, control, guide, stale>>
        /\ sensor' = "read" /\ latest' = cache
    BY <1>2, Zenon DEF Publish, receiver, steering
  <2>2. GnssTypeOK'
    BY <2>1 DEF GnssInv, GnssTypeOK
  <2>3. LossesPaid' /\ StampAsOld'
    BY <2>1, Zenon DEF GnssInv, LossesPaid, Served, StampAsOld, OldFix
  <2>4. (OldSteers' => OldSteers \/ OldFix(cache)) /\ (OldFix(cache)' <=> OldFix(cache))
    BY <2>1, Zenon DEF OldSteers, OldFix
  <2>5. OldSteering'
    BY <2>1, <2>4, Zenon DEF GnssInv, OldSteering, StaleSteeringEnds
  <2> QED
    BY <2>2, <2>3, <2>5, Zenon DEF GnssInv
<1> QED
  BY <1>1, <1>2
\* In an epoch that an old position steered, the stamp can still be believed;
\* in one that it did not, the count starts again.
LEMMA GnssTick == GnssInv /\ Tick => GnssInv'
<1> SUFFICES ASSUME GnssInv, Tick PROVE GnssInv'
  OBVIOUS
<1>1. /\ due = {} /\ sensor = "read" /\ control = "idle"
      /\ due' \in {Sentences, {}}
      /\ clock' = "old" /\ guide' = "off"
      /\ cache' = [cache EXCEPT !.age = Older(@)]
      /\ latest' = [latest EXCEPT !.age = Older(@)]
      /\ rxAge' = Older(rxAge)
      /\ stale' = (IF guide = "stale" THEN stale + 1 ELSE 0)
      /\ UNCHANGED <<lost, sensor, control>>
  BY Zenon DEF Tick
<1>2. /\ \A a \in 0 .. FixTimeout + 1 :
           Older(a) \in 1 .. FixTimeout + 1 /\ (a <= FixTimeout => Older(a) = a + 1)
      /\ FixTimeout \in Nat /\ FixTimeout >= 1
  BY GnssAssumption DEF Older
<1>3. \A f \in Fixes : /\ [f EXCEPT !.age = Older(@)] \in Fixes
                       /\ [f EXCEPT !.age = Older(@)].age = Older(f.age)
                       /\ [f EXCEPT !.age = Older(@)].valid = f.valid
  BY <1>2 DEF Fixes
<1>4. cache \in Fixes /\ latest \in Fixes /\ latest = cache
  BY <1>1 DEF GnssInv, GnssTypeOK, OldSteering
<1>5. /\ cache' \in Fixes /\ latest' = cache'
      /\ cache'.age = Older(cache.age) /\ cache'.valid = cache.valid
  BY <1>1, <1>3, <1>4, Zenon
<1>6. GnssTypeOK'
  <2>1. /\ due' \subseteq Sentences /\ clock' \in {"old", "new", "stamped"}
        /\ sensor' \in {"read", "parsed", "stamped"}
        /\ control' \in {"idle", "fresh", "stale"} /\ guide' \in {"off", "fresh", "stale"}
    BY <1>1
  <2>2. rxAge' \in 0 .. FixTimeout + 1 /\ stale' \in Nat
    BY <1>1, <1>2 DEF GnssInv, GnssTypeOK
  <2>3. lost' \in 0 .. MaxLost
    BY <1>1, Zenon DEF GnssInv, GnssTypeOK
  <2> QED
    BY <1>5, <2>1, <2>2, <2>3, Zenon DEF GnssTypeOK
<1>7. StampAsOld'
  <2>1. SUFFICES ASSUME cache.valid, lost = 0, due' = {}
                 PROVE  rxAge' >= cache'.age
    BY <1>1, <1>5 DEF StampAsOld, Sentences
  <2>2. cache.age = 0 \/ rxAge >= cache.age
    BY <1>1, <2>1, Zenon DEF GnssInv, StampAsOld
  <2>3. cache.age \in 0 .. FixTimeout + 1 /\ rxAge \in 0 .. FixTimeout + 1
    BY <1>4 DEF Fixes, GnssInv, GnssTypeOK
  <2> QED
    BY <1>1, <1>2, <1>5, <2>2, <2>3, GnssAssumption DEF Older
<1>8. SUFFICES LossesPaid' /\ OldSteering'
  BY <1>6, <1>7, Zenon DEF GnssInv
<1>9. /\ cache.age \in 0 .. FixTimeout + 1 /\ rxAge \in 0 .. FixTimeout + 1
      /\ rxAge' \in 1 .. FixTimeout + 1 /\ stale \in Nat /\ stale' \in Nat
      /\ lost \in 0 .. MaxLost /\ lost' = lost /\ FixTimeout \in Nat
  BY <1>1, <1>2, <1>4, <1>6 DEF Fixes, GnssInv, GnssTypeOK
<1>10. Epochs = FixTimeout + 1 /\ Epochs \in Nat
  BY <1>2 DEF Epochs
<1>11. /\ Paid(lost) \in Nat /\ Paid(MaxLost) \in Nat /\ Paid(lost) <= Paid(MaxLost)
       /\ lost # 0 => Paid(lost) >= Epochs
  BY <1>9, Payments, Zenon
<1>12. OldSteers' => OldFix(cache)'
  BY <1>1, <1>5, Zenon DEF OldSteers, OldFix
<1>13. guide' # "stale" /\ (sensor' = "read" => latest' = cache')
  BY <1>1, <1>5
<1>14. SUFFICES /\ OldFix(cache)' => IF due' = {} THEN stale' + Epochs <= Paid(lost) + rxAge'
                                                 ELSE stale' <= Paid(lost)
                /\ stale' <= Paid(MaxLost) + 1
  <2> ASSUME /\ OldFix(cache)' => IF due' = {} THEN stale' + Epochs <= Paid(lost) + rxAge'
                                              ELSE stale' <= Paid(lost)
             /\ stale' <= Paid(MaxLost) + 1
      PROVE  LossesPaid' /\ OldSteering'
    <3>1. OldFix(cache)' => stale' <= Paid(MaxLost)
      BY <1>9, <1>10, <1>11
    <3>2. StaleSteeringEnds'
      BY <1>9, Zenon DEF StaleSteeringEnds, Paid, Epochs
    <3>3. OldSteering'
      BY <1>12, <1>13, <3>1, <3>2, Zenon DEF OldSteering
    <3>4. CASE due' = {}
      <4>1. Served' = rxAge' /\ "GGA" \notin due'
        BY <1>1, <3>4 DEF Served
      <4> QED
        BY <1>9, <3>3, <3>4, <4>1, Zenon DEF LossesPaid
    <3>5. CASE due' # {}
      <4>1. "GGA" \in due'
        BY <1>1, <3>5 DEF Sentences
      <4> QED
        BY <1>9, <3>3, <3>5, <4>1, Zenon DEF LossesPaid
    <3> QED
      BY <3>4, <3>5
  <2> QED
    OBVIOUS
<1>15. ASSUME OldFix(cache)' PROVE cache.valid /\ cache.age >= FixTimeout /\ cache.age # 0
  <2>1. cache.valid
    BY <1>5, <1>15, Zenon DEF OldFix
  <2>2. Older(cache.age) > FixTimeout
    BY <1>5, <1>15, Zenon DEF OldFix
  <2> QED
    BY <1>2, <1>9, <2>1, <2>2
\* An old position steered: the stamp can be believed, so it served fewer epochs
\* than were paid for it.
<1>16. CASE guide = "stale"
  <2>1. /\ rxAge <= FixTimeout /\ rxAge' = rxAge + 1 /\ stale' = stale + 1
        /\ stale <= Paid(MaxLost)
    <3>1. OldSteers
      BY <1>16 DEF OldSteers
    <3>2. stale <= Paid(MaxLost) /\ rxAge <= FixTimeout
      BY <1>16, <3>1, Zenon DEF GnssInv, OldSteering
    <3> QED
      BY <1>1, <1>2, <1>9, <1>16, <3>2
  <2>2. ASSUME OldFix(cache)' PROVE stale + Epochs <= Paid(lost) + rxAge
    <3>1. OldSteers
      BY <1>16 DEF OldSteers
    <3>2. OldFix(cache)
      BY <1>15, <2>2, <3>1, Zenon DEF GnssInv, OldSteering
    <3>3. "GGA" \notin due
      BY <1>1
    <3>4. stale + Epochs <= Paid(lost) + Served
      BY <3>2, <3>3, Zenon DEF GnssInv, LossesPaid
    <3>5. Served <= rxAge /\ Served \in 0 .. Epochs
      BY ServedIs, Zenon DEF GnssInv
    <3> QED
      BY <1>9, <1>10, <1>11, <3>4, <3>5
  <2> QED
    BY <1>9, <1>10, <1>11, <2>1, <2>2
\* None did: if no GGA was lost, the stamp is as old as the position.
<1>17. CASE guide # "stale"
  <2>1. stale' = 0
    BY <1>1, <1>17
  <2>2. ASSUME OldFix(cache)', lost = 0 PROVE rxAge' = Epochs
    <3>1. "GGA" \notin due
      BY <1>1
    <3>2. rxAge >= cache.age
      BY <1>15, <2>2, <3>1, Zenon DEF GnssInv, StampAsOld
    <3>3. Older(rxAge) = FixTimeout + 1
      BY <1>2, <1>9, <1>15, <2>2, <3>2 DEF Older
    <3> QED
      BY <1>1, <1>10, <3>3
  <2> QED
    BY <1>9, <1>10, <1>11, <2>1, <2>2
<1> QED
  BY <1>16, <1>17

\* What control_task takes is what was published; it steers while the stamp is
\* believed.
LEMMA GnssControl == GnssInv /\ (ControlTakes \/ Steers) => GnssInv'
<1> SUFFICES ASSUME GnssInv, ControlTakes \/ Steers PROVE GnssInv'
  OBVIOUS
<1>1. /\ UNCHANGED <<due, lost, cache, clock, sensor, rxAge, latest, stale>>
      /\ \/ /\ latest.valid /\ guide' = guide
            /\ control' = IF latest.age > FixTimeout THEN "stale" ELSE "fresh"
         \/ /\ control # "idle" /\ control' = "idle"
            /\ \/ guide' = guide
               \/ rxAge <= FixTimeout /\ guide' = IF guide = "stale" THEN guide ELSE control
  BY Zenon DEF ControlTakes, Steers, receiver, board
<1>2. GnssTypeOK'
  BY <1>1 DEF GnssInv, GnssTypeOK
<1>3. LossesPaid' /\ StampAsOld'
  BY <1>1, Zenon DEF GnssInv, LossesPaid, Served, StampAsOld, OldFix
<1>4. (OldSteers' => OldSteers) /\ (guide' = "stale" => rxAge <= FixTimeout)
  BY <1>1 DEF OldSteers, OldFix, GnssInv, OldSteering
<1>5. OldFix(cache)' <=> OldFix(cache)
  BY <1>1, Zenon DEF OldFix
<1>6. OldSteering'
  BY <1>1, <1>4, <1>5, Zenon DEF GnssInv, OldSteering, StaleSteeringEnds
<1> QED
  BY <1>2, <1>3, <1>6 DEF GnssInv

\* Nothing is left of an old position after a reset.
LEMMA GnssBoot ==
  /\ GnssInit => GnssInv
  /\ GnssTypeOK /\ Boot => GnssInv'
<1>1. NoFix \in Fixes /\ ~NoFix.valid
  <2>1. FALSE \in BOOLEAN /\ FixTimeout + 1 \in 0 .. FixTimeout + 1
    BY GnssAssumption
  <2>2. \A v \in BOOLEAN, a \in 0 .. FixTimeout + 1 :
          /\ [valid |-> v, age |-> a, enough |-> v] \in Fixes
          /\ [valid |-> v, age |-> a, enough |-> v].valid <=> v
    BY DEF Fixes
  <2> QED
    BY <2>1, <2>2, Zenon DEF NoFix
<1>2. /\ FixTimeout + 1 \in 0 .. FixTimeout + 1 /\ 0 \in 0 .. MaxLost
      /\ 0 \in Nat /\ {} \subseteq Sentences
  BY GnssAssumption
<1>3. 0 <= Paid(MaxLost) /\ 0 <= Paid(MaxLost) + 1
  BY Payments
<1>4. GnssInit => GnssInv
  <2> SUFFICES ASSUME GnssInit PROVE GnssInv
    OBVIOUS
  <2>1. /\ due = {} /\ lost = 0 /\ cache = NoFix /\ clock = "old" /\ sensor = "read"
        /\ rxAge = FixTimeout + 1 /\ latest = NoFix /\ control = "idle" /\ guide = "off"
        /\ stale = 0
    BY Zenon DEF GnssInit
  <2>2. GnssTypeOK
    BY <1>1, <1>2, <2>1, Zenon DEF GnssTypeOK
  <2>3. ~OldFix(cache) /\ ~OldSteers
    BY <1>1, <2>1, Zenon DEF OldFix, OldSteers
  <2>4. StaleSteeringEnds
    BY <1>3, <2>1, Zenon DEF StaleSteeringEnds, Paid, Epochs
  <2> QED
    BY <1>1, <2>1, <2>2, <2>3, <2>4, Zenon
    DEF GnssInv, LossesPaid, StampAsOld, OldSteering
<1>5. GnssTypeOK /\ Boot => GnssInv'
  <2> SUFFICES ASSUME GnssTypeOK, Boot PROVE GnssInv'
    OBVIOUS
  <2>1. /\ due' = {} /\ lost' = 0 /\ cache' = NoFix /\ clock' = "old" /\ sensor' = "read"
        /\ rxAge' = FixTimeout + 1 /\ latest' = NoFix /\ control' = "idle" /\ guide' = "off"
        /\ stale' = 0
    BY Zenon DEF Boot
  <2>2. GnssTypeOK'
    BY <1>1, <1>2, <2>1, Zenon DEF GnssTypeOK
  <2>3. ~OldFix(cache)' /\ ~OldSteers'
    BY <1>1, <2>1, Zenon DEF OldFix, OldSteers
  <2>4. StaleSteeringEnds'
    BY <1>3, <2>1, Zenon DEF StaleSteeringEnds, Paid, Epochs
  <2> QED
    BY <1>1, <2>1, <2>2, <2>3, <2>4, Zenon
    DEF GnssInv, LossesPaid, StampAsOld, OldSteering
<1> QED
  BY <1>4, <1>5

\* However the sentences are lost and the tasks interleave, an old position
\* steers for at most FixTimeout + 1 epochs for every GGA that may be lost in a
\* row, and one more.
THEOREM OldPositionGivenUp == SensorSpec => []StaleSteeringEnds
<1>1. SensorInit => GnssInv
  BY GnssBoot, Zenon DEF SensorInit
<1>2. GnssInv /\ [GnssNext]_gnssVars => GnssInv'
  <2> SUFFICES ASSUME GnssInv, [GnssNext]_gnssVars PROVE GnssInv'
    OBVIOUS
  <2>1. ASSUME UNCHANGED <<due, lost, cache, clock, sensor, rxAge, latest, control, guide, stale>>
        PROVE  GnssInv'
    BY <2>1, Zenon
    DEF GnssInv, GnssTypeOK, LossesPaid, Served, StampAsOld, OldSteering, OldSteers, OldFix,
        StaleSteeringEnds
  <2>2. CASE NavTask \/ PadAgain \/ UNCHANGED gnssVars
    BY <2>1, <2>2, Zenon
    DEF NavTask, NavTakes, NavUses, PadAgain, gnssVars, receiver, board, steering
  <2>3. CASE Resume \/ ColdBoot
    BY <2>3, GnssBoot, Zenon DEF Resume, ColdBoot, GnssInv
  <2> QED
    BY <2>2, <2>3, GnssParse, GnssGarble, GnssStamp, GnssTick, GnssControl, Zenon
    DEF GnssNext, SensorTask
<1>3. GnssInv => StaleSteeringEnds
  BY Zenon DEF GnssInv, OldSteering
<1> QED
  BY <1>1, <1>2, <1>3, PathsApart, PTL DEF SensorSpec
(***************************************************************************)
(* The filter of the vertical channel: its samples                         *)
(***************************************************************************)

\* The smaller of two numbers.
LEMMA CappedIs ==
  ASSUME NEW x \in Int, NEW top \in Int
  PROVE  Capped(x, top) = IF x <= top THEN x ELSE top
<1> DEFINE m == IF x <= top THEN x ELSE top
<1>1. m \in {x, top} /\ \A y \in {x, top} : m <= y
  OBVIOUS
<1>2. \A k \in {x, top} : (\A y \in {x, top} : k <= y) => k = m
  OBVIOUS
<1> QED
  BY <1>1, <1>2 DEF Capped, Least

\* Altitudes are integers; a distance grows by what one of them moves.
LEMMA DistanceIs ==
  /\ \A x \in Altitudes : x \in Int
  /\ \A x \in Int : Distance(x, x) = 0
  /\ \A x, r, q \in Int : /\ Distance(x, r) \in Nat
                          /\ Distance(q, r) <= 1 =>
                               /\ Distance(x, r) <= 0 => Distance(x, q) <= 1
                               /\ Distance(x, r) <= 1 => Distance(x, q) <= 2
<1>1. \A x \in Altitudes : x \in Int
  BY FilterAssumption DEF Altitudes
<1>2. \A x \in Int : Distance(x, x) = 0
  BY DEF Distance
<1>3. \A x, r \in Int : Distance(x, r) \in Nat
  BY DEF Distance
<1>4. \A x, r, q \in Int : Distance(q, r) <= 1 /\ Distance(x, r) <= 0 => Distance(x, q) <= 1
  BY DEF Distance
<1>5. \A x, r, q \in Int : Distance(q, r) <= 1 /\ Distance(x, r) <= 1 => Distance(x, q) <= 2
  BY DEF Distance
<1> QED
  BY <1>1, <1>2, <1>3, <1>4, <1>5, Zenon

\* m has two of x, y and w on each side.
Between(x, y, w, m) ==
  /\ (x <= m /\ y <= m) \/ (x <= m /\ w <= m) \/ (y <= m /\ w <= m)
  /\ (x >= m /\ y >= m) \/ (x >= m /\ w >= m) \/ (y >= m /\ w >= m)

\* If a value has two of three on each side, and two of the three are near r,
\* it is near r.
LEMMA MiddleIsNear ==
  \A x, y, w, m, r \in Int :
    /\ Between(x, y, w, m)
    /\ \/ Distance(x, r) <= 2 /\ Distance(y, r) <= 2
       \/ Distance(x, r) <= 2 /\ Distance(w, r) <= 2
       \/ Distance(y, r) <= 2 /\ Distance(w, r) <= 2
    => Distance(m, r) <= 2
BY DEF Distance, Between

\* One of three integers has two of them on each side.
LEMMA MiddleExists ==
  \A x, y, w \in Int : \/ Between(x, y, w, x) \/ Between(x, y, w, y) \/ Between(x, y, w, w)
BY DEF Between

\* t is the buffer s of n samples after one more: the newest one comes last, the
\* others move up.
MovedUp(s, n, z, t, m) ==
  /\ m = (IF n = 3 THEN 3 ELSE n + 1)
  /\ t \in Seq(Altitudes) /\ Len(t) = m /\ t[m] = z
  /\ m >= 2 => t[m - 1] = s[n]
  /\ m >= 3 => t[m - 2] = s[n - 1]

\* The last three samples move up by one when a sample is added.
LEMMA RecentIs ==
  ASSUME NEW s \in Seq(Altitudes), NEW n \in 0 .. 3, Len(s) = n, NEW z \in Altitudes
  PROVE  \E m \in 1 .. 3 : MovedUp(s, n, z, Recent(s, z), m)
<1> USE DEF MovedUp
<1> DEFINE t == Append(s, z)
<1>1. /\ t \in Seq(Altitudes) /\ Len(t) = n + 1
      /\ t[n + 1] = z /\ \A i \in 1 .. n : t[i] = s[i]
  OBVIOUS
<1>2. Recent(s, z) = IF Len(t) > 3 THEN Tail(t) ELSE t
  BY DEF Recent
<1>3. CASE n = 3
  <2>1. Len(t) = 4 /\ t[4] = z /\ t[3] = s[3] /\ t[2] = s[2]
    BY <1>1, <1>3
  <2>2. Recent(s, z) = Tail(t)
    BY <1>2, <2>1
  <2>3. /\ Tail(t) \in Seq(Altitudes) /\ Len(Tail(t)) = 3
        /\ Tail(t)[3] = t[4] /\ Tail(t)[2] = t[3]
        /\ Tail(t)[1] = t[2]
    BY <1>1, <2>1
  <2> HIDE DEF t
  <2>4. 3 \in 1 .. 3 /\ 3 - 1 = 2 /\ 3 - 2 = 1
    OBVIOUS
  <2> QED
    BY <1>3, <2>1, <2>2, <2>3, <2>4, Zenon
<1>4. CASE n \in 0 .. 2
  <2>1. ~(n + 1 > 3) /\ n + 1 \in 1 .. 3 /\ n # 3 /\ (n + 1) - 1 = n /\ (n + 1) - 2 = n - 1
    BY <1>4
  <2>2. (n + 1 >= 2 => n \in 1 .. n) /\ (n + 1 >= 3 => n - 1 \in 1 .. n)
    BY <1>4
  <2> HIDE DEF t
  <2>3. Recent(s, z) = t
    BY <1>1, <1>2, <2>1, Zenon
  <2> QED
    BY <1>1, <2>1, <2>2, <2>3, Zenon
<1> QED
  BY <1>3, <1>4

\* m is the middle one of three samples.
Middle(s, m) == /\ \E i, j \in 1 .. 3 : i # j /\ s[i] <= m /\ s[j] <= m
                /\ \E i, j \in 1 .. 3 : i # j /\ s[i] >= m /\ s[j] >= m

\* The two ways to say that m is in the middle agree.
LEMMA MiddleIs ==
  ASSUME NEW s, NEW m
  PROVE  Middle(s, m) <=> Between(s[1], s[2], s[3], m)
<1>1. \A i, j \in 1 .. 3 : i # j => \/ (i = 1 /\ j = 2) \/ (i = 2 /\ j = 1)
                                    \/ (i = 1 /\ j = 3) \/ (i = 3 /\ j = 1)
                                    \/ (i = 2 /\ j = 3) \/ (i = 3 /\ j = 2)
  OBVIOUS
<1>2. 1 \in 1 .. 3 /\ 2 \in 1 .. 3 /\ 3 \in 1 .. 3 /\ 1 # 2 /\ 1 # 3 /\ 2 # 3
  OBVIOUS
<1>3. (\E i, j \in 1 .. 3 : i # j /\ s[i] <= m /\ s[j] <= m)
        <=> (s[1] <= m /\ s[2] <= m) \/ (s[1] <= m /\ s[3] <= m) \/ (s[2] <= m /\ s[3] <= m)
  BY <1>1, <1>2, Zenon
<1>4. (\E i, j \in 1 .. 3 : i # j /\ s[i] >= m /\ s[j] >= m)
        <=> (s[1] >= m /\ s[2] >= m) \/ (s[1] >= m /\ s[3] >= m) \/ (s[2] >= m /\ s[3] >= m)
  BY <1>1, <1>2, Zenon
<1> QED
  BY <1>3, <1>4, Zenon DEF Middle, Between

\* The median is one of three samples, and their middle.
LEMMA MedianIs ==
  ASSUME NEW s \in Seq(Altitudes), Len(s) = 3
  PROVE  /\ Median(s) \in Altitudes /\ Middle(s, Median(s))
         /\ s[1] \in Altitudes /\ s[2] \in Altitudes /\ s[3] \in Altitudes
<1>1. s[1] \in Altitudes /\ s[2] \in Altitudes /\ s[3] \in Altitudes
  OBVIOUS
<1>2. ToSet(s) = {s[1], s[2], s[3]}
  <2>1. ToSet(s) = {s[i] : i \in 1 .. Len(s)}
    <3>1. DOMAIN s = 1 .. Len(s)
      BY SMT
    <3> QED
      BY <3>1, Zenon DEF ToSet
  <2>2. 1 .. 3 = {1, 2, 3}
    OBVIOUS
  <2>3. ToSet(s) = {s[i] : i \in {1, 2, 3}}
    BY <2>1, <2>2, Zenon
  <2> QED
    BY <2>3, Zenon
<1>3. \E m \in {s[1], s[2], s[3]} : Middle(s, m)
  <2>1. s[1] \in Int /\ s[2] \in Int /\ s[3] \in Int
    BY <1>1, DistanceIs, Zenon
  <2>2. \/ Between(s[1], s[2], s[3], s[1])
        \/ Between(s[1], s[2], s[3], s[2])
        \/ Between(s[1], s[2], s[3], s[3])
    BY <2>1, MiddleExists, Zenon
  <2> QED
    BY <2>2, MiddleIs, Zenon
<1>4. ~(Len(s) < 3)
  <2>1. ~(3 < 3)
    OBVIOUS
  <2> QED
    BY <2>1, Zenon
<1>5. Median(s) = CHOOSE m \in ToSet(s) : Middle(s, m)
  BY <1>4, Zenon DEF Median, Middle
<1>6. Median(s) \in ToSet(s) /\ Middle(s, Median(s))
  BY <1>2, <1>3, <1>5, Zenon
<1> QED
  BY <1>1, <1>2, <1>6, Zenon

\* The median of three samples of which two are near a value is near it too.
LEMMA MedianNear ==
  ASSUME NEW s \in Seq(Altitudes), Len(s) = 3, NEW r \in Int,
         \/ Distance(s[1], r) <= 2 /\ Distance(s[2], r) <= 2
         \/ Distance(s[1], r) <= 2 /\ Distance(s[3], r) <= 2
         \/ Distance(s[2], r) <= 2 /\ Distance(s[3], r) <= 2
  PROVE  Distance(Median(s), r) <= 2
<1>1. /\ Middle(s, Median(s))
      /\ Median(s) \in Int /\ s[1] \in Int /\ s[2] \in Int /\ s[3] \in Int
  BY MedianIs, DistanceIs, Zenon
<1>2. Between(s[1], s[2], s[3], Median(s))
  BY <1>1, MiddleIs, Zenon
<1> QED
  BY <1>1, <1>2, MiddleIsNear, Zenon

SamplesOK ==
  /\ initialised \in BOOLEAN /\ isolated \in BOOLEAN
  /\ raw \in Seq(Altitudes) /\ Len(raw) \in 0 .. 3
  /\ accepted \in [z : Altitudes, age : 0 .. Believed]
  /\ real \in Altitudes /\ good \in 0 .. 2

\* The last raw sample, the one before it, and the one before that, if there
\* are as many, are near the altitude.
Near1 == Len(raw) \in 1 .. 3 => Distance(raw[Len(raw)], real) <= 0
Near2 == Len(raw) \in 2 .. 3 => Distance(raw[Len(raw) - 1], real) <= 1
Near3 == Len(raw) = 3 => Distance(raw[1], real) <= 2

\* As long as the glitches are isolated, two of the last three samples were
\* true when they were taken; the altitude moved one unit a sample since.
TrueSamples ==
  /\ ~initialised => good = 0 /\ raw = <<>>
  /\ initialised /\ isolated =>
       \/ good = 2 /\ Near1 /\ Near2
       \/ good = 1 /\ Near1 /\ (Len(raw) = 0 \/ (Len(raw) = 3 /\ Near3))
       \/ good = 0 /\ Len(raw) = 3 /\ Near2 /\ Near3

GlitchInv == SamplesOK /\ TrueSamples /\ IsolatedGlitchesHarmless

\* A sample and what the observer makes of it.
LEMMA ObservedGood ==
  ASSUME NEW z \in Altitudes, SamplesOK, Observe(z)
  PROVE  /\ z # real' => good' = 0
         /\ z = real' => good' = IF good = 2 THEN 2 ELSE good + 1
         /\ isolated' \in BOOLEAN
         /\ isolated' => isolated /\ (z # real' => good = 2 /\ Len(raw) \in 2 .. 3)
<1>1. good \in 0 .. 2 /\ Len(raw) \in 0 .. 3 /\ isolated \in BOOLEAN
  BY Zenon DEF SamplesOK
<1>2. Capped(good + 1, 2) = IF good = 2 THEN 2 ELSE good + 1
  <2>1. \A n \in 0 .. 2 : /\ n + 1 \in Int /\ 2 \in Int
                          /\ (IF n + 1 <= 2 THEN n + 1 ELSE 2) = (IF n = 2 THEN 2 ELSE n + 1)
    OBVIOUS
  <2>2. good + 1 \in Int /\ 2 \in Int
    BY <1>1, <2>1, Zenon
  <2>3. Capped(good + 1, 2) = IF good + 1 <= 2 THEN good + 1 ELSE 2
    BY <2>2, CappedIs, Zenon
  <2> QED
    BY <1>1, <2>1, <2>3, Zenon
<1>3. good' = IF z # real' THEN 0 ELSE Capped(good + 1, 2)
  BY Zenon DEF Observe
<1>4. isolated' = (isolated /\ (z # real' => good = 2 /\ Len(raw) >= 2))
  BY Zenon DEF Observe
<1>5. Len(raw) >= 2 => Len(raw) \in 2 .. 3
  <2>1. \A n \in 0 .. 3 : n >= 2 => n \in 2 .. 3
    OBVIOUS
  <2> QED
    BY <1>1, <2>1, Zenon
<1> QED
  BY <1>2, <1>3, <1>4, <1>5, Zenon

\* The samples stay true: the new one moves the others up.
LEMMA SamplesMoveUp ==
  ASSUME GlitchInv, initialised, NEW z \in Altitudes,
         raw' = Recent(raw, z), initialised' = initialised,
         real' \in Altitudes, Distance(real', real) <= 1, Observe(z)
  PROVE  /\ raw' \in Seq(Altitudes) /\ Len(raw') \in 0 .. 3
         /\ TrueSamples' /\ good' \in 0 .. 2 /\ isolated' \in BOOLEAN
         /\ Median(raw') \in Altitudes
         /\ isolated' => Distance(Median(raw'), real') <= 2
<1>1. /\ SamplesOK
      /\ raw \in Seq(Altitudes) /\ Len(raw) \in 0 .. 3 /\ real \in Altitudes /\ good \in 0 .. 2
  BY Zenon DEF GlitchInv, SamplesOK
<1>2. real \in Int /\ real' \in Int /\ z \in Int
  BY <1>1, DistanceIs, Zenon
<1>3. PICK n \in 0 .. 3 : Len(raw) = n
  BY <1>1, Zenon
<1>4. PICK m \in 1 .. 3 :
        /\ m = (IF n = 3 THEN 3 ELSE n + 1)
        /\ raw' \in Seq(Altitudes) /\ Len(raw') = m /\ raw'[m] = z
        /\ m >= 2 => raw'[m - 1] = raw[n]
        /\ m >= 3 => raw'[m - 2] = raw[n - 1]
  <2>1. \E k \in 1 .. 3 : MovedUp(raw, n, z, Recent(raw, z), k)
    BY <1>1, <1>3, RecentIs, Zenon
  <2> QED
    BY <2>1, Zenon DEF MovedUp
<1>5. /\ m \in 2 .. 3 => m >= 2 /\ n \in 1 .. 3
      /\ m = 3 => m >= 3 /\ n \in 2 .. 3 /\ m - 2 = 1
      /\ n \in 2 .. 3 => m = 3
      /\ n = 3 => m = 3
      /\ m \in 0 .. 3 /\ m \in 1 .. 3
  BY <1>4
<1>6. z = real' => Near1'
  <2>1. Distance(z, z) = 0 /\ 0 <= 0
    BY <1>2, DistanceIs
  <2> QED
    BY <1>4, <2>1, Zenon DEF Near1
<1>7. Near1 => Near2'
  <2> SUFFICES ASSUME Near1, m \in 2 .. 3 PROVE Distance(raw'[m - 1], real') <= 1
    BY <1>4, Zenon DEF Near2
  <2>1. n \in 1 .. n
    BY <1>5
  <2>2. raw[n] \in Altitudes
    BY <1>1, <1>3, <2>1
  <2>3. raw[n] \in Int /\ Distance(raw[n], real) <= 0 /\ raw'[m - 1] = raw[n]
    BY <1>3, <1>4, <1>5, <2>2, DistanceIs, Zenon DEF Near1
  <2> QED
    BY <1>2, <2>3, DistanceIs, Zenon
<1>8. Near2 => Near3'
  <2> SUFFICES ASSUME Near2, m = 3 PROVE Distance(raw'[1], real') <= 2
    BY <1>4, Zenon DEF Near3
  <2>1. n - 1 \in 1 .. n
    BY <1>5
  <2>2. raw[n - 1] \in Altitudes
    BY <1>1, <1>3, <2>1
  <2>3. raw[n - 1] \in Int /\ Distance(raw[n - 1], real) <= 1 /\ raw'[1] = raw[n - 1]
    BY <1>3, <1>4, <1>5, <2>2, DistanceIs, Zenon DEF Near2
  <2> QED
    BY <1>2, <2>3, DistanceIs, Zenon
<1>9. /\ z # real' => good' = 0
      /\ z = real' => good' = IF good = 2 THEN 2 ELSE good + 1
      /\ isolated' \in BOOLEAN
      /\ isolated' => isolated /\ (z # real' => good = 2 /\ Len(raw) \in 2 .. 3)
  BY <1>1, ObservedGood, Zenon
<1>10. /\ \A k \in 0 .. 2 : (IF k = 2 THEN 2 ELSE k + 1) \in 0 .. 2
       /\ 0 \in 0 .. 2 /\ 0 # 1 /\ 0 # 2 /\ 1 # 2 /\ 0 + 1 = 1 /\ 1 + 1 = 2
  OBVIOUS
<1>11. good' \in 0 .. 2
  BY <1>1, <1>9, <1>10, Zenon
<1>12. ASSUME isolated'
       PROVE  \/ good' = 2 /\ Near1' /\ Near2'
              \/ good' = 1 /\ Near1' /\ m = 3 /\ Near3'
              \/ good' = 0 /\ m = 3 /\ Near2' /\ Near3'
  <2>1. \/ good = 2 /\ Near1 /\ Near2
        \/ good = 1 /\ Near1
        \/ good = 0 /\ n = 3 /\ Near2 /\ Near3
    BY <1>3, <1>9, <1>12, Zenon DEF GlitchInv, TrueSamples
  <2>2. CASE z # real'
    <3>1. good = 2 /\ n \in 2 .. 3 /\ good' = 0
      BY <1>3, <1>9, <1>12, <2>2, Zenon
    <3> QED
      BY <1>5, <1>7, <1>8, <1>10, <2>1, <3>1, Zenon
  <2>3. CASE z = real'
    <3>1. CASE good = 0
      <4>1. good' = 1
        BY <1>9, <1>10, <2>3, <3>1, Zenon
      <4> QED
        BY <1>5, <1>6, <1>8, <1>10, <2>1, <2>3, <3>1, <4>1, Zenon
    <3>2. CASE good # 0
      <4>1. good' = 2
        BY <1>9, <1>10, <2>1, <2>3, <3>2, Zenon
      <4> QED
        BY <1>6, <1>7, <2>1, <2>3, <3>2, <4>1, Zenon
    <3> QED
      BY <3>1, <3>2, Zenon
  <2> QED
    BY <2>2, <2>3, Zenon
<1>13. TrueSamples'
  BY <1>4, <1>12, Zenon DEF TrueSamples
<1>14. CASE m = 3
  <2>1. /\ Median(raw') \in Altitudes
        /\ raw'[1] \in Altitudes /\ raw'[2] \in Altitudes /\ raw'[3] \in Altitudes
    BY <1>4, <1>14, MedianIs, Zenon
  <2>2. /\ Near1' => Distance(raw'[3], real') <= 2
        /\ Near2' => Distance(raw'[2], real') <= 2
        /\ Near3' => Distance(raw'[1], real') <= 2
    <3>1. 3 \in 1 .. 3 /\ 3 \in 2 .. 3 /\ 3 - 1 = 2
      OBVIOUS
    <3>2. /\ Near1' => Distance(raw'[3], real') <= 0
          /\ Near2' => Distance(raw'[2], real') <= 1
          /\ Near3' => Distance(raw'[1], real') <= 2
      BY <1>4, <1>14, <3>1, Zenon DEF Near1, Near2, Near3
    <3>3. Distance(raw'[3], real') \in Nat /\ Distance(raw'[2], real') \in Nat
      BY <1>2, <2>1, DistanceIs, Zenon
    <3>4. \A d \in Nat : (d <= 0 => d <= 2) /\ (d <= 1 => d <= 2)
      OBVIOUS
    <3> QED
      BY <3>2, <3>3, <3>4, Zenon
  <2>3. isolated' => Distance(Median(raw'), real') <= 2
    <3> SUFFICES ASSUME isolated' PROVE Distance(Median(raw'), real') <= 2
      OBVIOUS
    <3>1. \/ Distance(raw'[1], real') <= 2 /\ Distance(raw'[2], real') <= 2
          \/ Distance(raw'[1], real') <= 2 /\ Distance(raw'[3], real') <= 2
          \/ Distance(raw'[2], real') <= 2 /\ Distance(raw'[3], real') <= 2
      BY <1>12, <2>2, Zenon
    <3> QED
      BY <1>2, <1>4, <1>14, <3>1, MedianNear, Zenon
  <2> QED
    BY <1>4, <1>5, <1>9, <1>11, <1>13, <2>1, <2>3, Zenon
<1>15. CASE m # 3
  <2>1. m < 3
    BY <1>4, <1>15
  <2>2. Median(raw') = z
    BY <1>4, <2>1, Zenon DEF Median, Last
  <2>3. isolated' => z = real'
    BY <1>9, <1>10, <1>12, <1>15, Zenon
  <2>4. isolated' => Distance(Median(raw'), real') <= 2
    <3>1. Distance(real', real') <= 2
      BY <1>2, DistanceIs
    <3> QED
      BY <2>2, <2>3, <3>1, Zenon
  <2> QED
    BY <1>4, <1>5, <1>9, <1>11, <1>13, <2>2, <2>4, Zenon
<1> QED
  BY <1>14, <1>15

\* What a sample that is not accepted leaves: the last one is older.
LEMMA HeldAges ==
  ASSUME NEW z \in Altitudes, NEW jolt, NEW gap \in 1 .. MaxGap, SamplesOK,
         Hold(z, jolt, gap)
  PROVE  \/ accepted' = [z |-> z, age |-> 0]
         \/ accepted' \in [z : Altitudes, age : 1 .. Believed]
<1>1. \/ accepted' = [z |-> z, age |-> 0]
      \/ accepted' = [accepted EXCEPT !.age = Capped(@ + gap, Believed)]
  BY Zenon DEF Hold, Keep, Accept
<1>2. Capped(accepted.age + gap, Believed) \in 1 .. Believed
  <2>1. accepted.age \in 0 .. Believed
    BY DEF SamplesOK
  <2>2. accepted.age + gap \in Int /\ Believed \in Int /\ Believed >= 1 /\ MaxGap \in Nat
    BY <2>1, FilterAssumption
  <2> QED
    BY <2>1, <2>2, CappedIs
<1> QED
  BY <1>1, <1>2 DEF SamplesOK

\* A sample the filter accepts while the glitches are isolated is near the real
\* altitude, whatever the gate and the rate limit did to the ones before.
THEOREM GlitchesFiltered == SensorSpec => []IsolatedGlitchesHarmless
<1>1. SensorInit => GlitchInv
  <2> SUFFICES ASSUME SensorInit PROVE GlitchInv
    OBVIOUS
  <2>1. /\ initialised = FALSE /\ raw = <<>> /\ accepted = [z |-> 0, age |-> 0]
        /\ real \in Altitudes /\ isolated = TRUE /\ good = 0
    BY Zenon DEF SensorInit, Init
  <2>2. initialised \in BOOLEAN /\ isolated \in BOOLEAN /\ ~initialised
    BY <2>1, Zenon
  <2>3. /\ raw \in Seq(Altitudes) /\ Len(raw) \in 0 .. 3 /\ good \in 0 .. 2
        /\ accepted \in [z : Altitudes, age : 0 .. Believed]
    BY <2>1, FilterAssumption DEF Altitudes
  <2>4. SamplesOK
    BY <2>1, <2>2, <2>3, Zenon DEF SamplesOK
  <2> QED
    BY <2>1, <2>2, <2>4, Zenon DEF GlitchInv, TrueSamples, IsolatedGlitchesHarmless
<1>2. GlitchInv /\ [Next]_vars => GlitchInv'
  <2> SUFFICES ASSUME GlitchInv, [Next]_vars PROVE GlitchInv'
    OBVIOUS
  <2>1. CASE Baro
    <3>1. PICK gap \in 1 .. MaxGap, z \in Altitudes :
            /\ real' \in {a \in Altitudes : Distance(a, real) <= 1}
            /\ FirstSample(z) \/ \E agrees \in BOOLEAN : NextSample(z, gap, agrees)
            /\ Observe(z)
      BY <2>1, Zenon DEF Baro
    <3>2. real' \in Altitudes /\ Distance(real', real) <= 1
      BY <3>1
    <3>3. CASE FirstSample(z)
      <4>1. /\ ~initialised /\ initialised' = TRUE /\ raw' = raw
            /\ accepted' = [z |-> z, age |-> 0]
        BY <3>3, Zenon DEF FirstSample, Accept
      <4>2. raw = <<>> /\ good = 0
        BY <4>1, Zenon DEF GlitchInv, TrueSamples
      <4>3. /\ z # real' => good' = 0
            /\ z = real' => good' = IF good = 2 THEN 2 ELSE good + 1
            /\ isolated' \in BOOLEAN
            /\ isolated' => isolated /\ (z # real' => good = 2 /\ Len(raw) \in 2 .. 3)
        BY <3>1, ObservedGood DEF GlitchInv
      <4>4. good' \in 0 .. 1 /\ (isolated' => z = real' /\ good' = 1)
        BY <4>2, <4>3
      <4>5. initialised' \in BOOLEAN /\ initialised'
        BY <4>1, Zenon
      <4>6. /\ accepted' \in [z : Altitudes, age : 0 .. Believed]
            /\ accepted'.z = z /\ good' \in 0 .. 2 /\ 0 \in 0 .. 2
        BY <4>1, <4>4, FilterAssumption
      <4>7. SamplesOK'
        BY <3>2, <4>1, <4>3, <4>5, <4>6, Zenon DEF GlitchInv, SamplesOK
      <4>8. Len(raw') = 0 /\ Near1'
        <5>1. Len(<<>>) = 0 /\ 0 \notin 1 .. 3
          OBVIOUS
        <5> QED
          BY <4>1, <4>2, <5>1, Zenon DEF Near1
      <4>9. TrueSamples'
        BY <4>4, <4>5, <4>8, Zenon DEF TrueSamples
      <4>10. IsolatedGlitchesHarmless'
        <5>1. real' \in Int /\ Distance(real', real') <= 2
          BY <3>2, DistanceIs
        <5> QED
          BY <4>4, <4>6, <5>1, Zenon DEF IsolatedGlitchesHarmless
      <4> QED
        BY <4>7, <4>9, <4>10, Zenon DEF GlitchInv
    <3>4. ASSUME NEW agrees \in BOOLEAN, NextSample(z, gap, agrees) PROVE GlitchInv'
      <4>1. /\ initialised /\ initialised' = initialised /\ raw' = Recent(raw, z)
            /\ \/ Accept(Median(raw'))
               \/ Hold(Median(raw'), Jolt(raw'), gap)
        BY <3>4, Zenon DEF NextSample
      <4>2. /\ raw' \in Seq(Altitudes) /\ Len(raw') \in 0 .. 3
            /\ TrueSamples' /\ good' \in 0 .. 2 /\ isolated' \in BOOLEAN
            /\ Median(raw') \in Altitudes
            /\ isolated' => Distance(Median(raw'), real') <= 2
        BY <3>1, <3>2, <4>1, SamplesMoveUp
      <4>3. \/ accepted' = [z |-> Median(raw'), age |-> 0]
            \/ accepted' \in [z : Altitudes, age : 1 .. Believed]
        BY <4>1, <4>2, HeldAges DEF GlitchInv, Accept
      <4>4. /\ accepted' \in [z : Altitudes, age : 0 .. Believed]
            /\ accepted'.age = 0 => accepted'.z = Median(raw')
        BY <4>2, <4>3, FilterAssumption
      <4>5. SamplesOK'
        BY <3>2, <4>1, <4>2, <4>4, Zenon DEF GlitchInv, SamplesOK
      <4>6. IsolatedGlitchesHarmless'
        BY <4>2, <4>4, Zenon DEF IsolatedGlitchesHarmless
      <4> QED
        BY <4>2, <4>5, <4>6, Zenon DEF GlitchInv
    <3> QED
      BY <3>1, <3>3, <3>4
  <2>2. CASE Predict \/ UNCHANGED vars
    <3>1. UNCHANGED <<initialised, raw, accepted, real, isolated, good>>
      BY <2>2, Zenon DEF Predict, vars, filter, observer
    <3> QED
      BY <3>1, Zenon
      DEF GlitchInv, SamplesOK, TrueSamples, Near1, Near2, Near3, IsolatedGlitchesHarmless
  <2>3. CASE Replace
    <3>1. /\ initialised' = FALSE /\ raw' = <<>> /\ accepted' = [z |-> 0, age |-> 0]
          /\ real' = real /\ isolated' = TRUE /\ good' = 0
      BY <2>3, Zenon DEF Replace
    <3>2. initialised' \in BOOLEAN /\ isolated' \in BOOLEAN /\ ~initialised'
      BY <3>1, Zenon
    <3>3. /\ raw' \in Seq(Altitudes) /\ Len(raw') \in 0 .. 3 /\ good' \in 0 .. 2
          /\ accepted' \in [z : Altitudes, age : 0 .. Believed]
      BY <3>1, FilterAssumption DEF Altitudes
    <3>4. SamplesOK'
      BY <3>1, <3>2, <3>3, Zenon DEF GlitchInv, SamplesOK
    <3> QED
      BY <3>1, <3>2, <3>4, Zenon DEF GlitchInv, TrueSamples, IsolatedGlitchesHarmless
  <2> QED
    BY <2>1, <2>2, <2>3, Zenon DEF Next
<1>3. GlitchInv => IsolatedGlitchesHarmless
  BY Zenon DEF GlitchInv
<1> QED
  BY <1>1, <1>2, <1>3, PathsApart, PTL DEF SensorSpec
(***************************************************************************)
(* The filter of the vertical channel: its gate                            *)
(***************************************************************************)

Gates == [rejecting : BOOLEAN, age : 0 .. ResyncAfter, diffSq : Nat, n : 0 .. ResyncAfter]

\* The largest square of an integer jolt that is below NoiseMax * NoiseMax
Calm == NoiseMax * NoiseMax - 1

\* A window that is not over counts no more samples than periods.  Either a
\* jolt broke the smooth stream since it was opened; or all it counted was
\* smooth, and the stream began in it or in the window before.
GateInv ==
  /\ raw \in Seq(Altitudes) /\ Len(raw) \in 0 .. 3
  /\ gate \in Gates /\ streak \in Nat
  /\ ~gate.rejecting => streak = 0
  /\ gate.rejecting =>
       /\ gate.age + 1 >= gate.n
       /\ ~WindowOver(gate)
       /\ \/ streak <= gate.n - 1
          \/ /\ gate.diffSq <= Calm * gate.n
             /\ \/ streak <= gate.n
                \/ streak <= ResyncAfter + gate.n /\ gate.age >= gate.n

\* A jolt is the square of an integer.
LEMMA JoltIs == ASSUME NEW s \in Seq(Altitudes), Len(s) \in 0 .. 3 PROVE Jolt(s) \in Nat
<1>1. \A k, x \in Int : k * k * x * x \in Nat
  <2>1. \A y \in Int : y * y \in Nat
    OBVIOUS
  <2>2. \A k, x \in Int : k * x \in Int /\ k * k * x * x = (k * x) * (k * x)
    OBVIOUS
  <2> QED
    BY <2>1, <2>2
<1>2. SigmasPerUnit \in Int
  BY FilterAssumption
<1>3. CASE Len(s) = 3
  <2>1. s[1] \in Altitudes /\ s[2] \in Altitudes /\ s[3] \in Altitudes
    BY <1>3
  <2>2. \A x, y, w \in Int : x - 2 * y + w \in Int
    OBVIOUS
  <2>3. s[3] - 2 * s[2] + s[1] \in Int
    BY <2>1, <2>2, DistanceIs, Zenon
  <2>4. ~(3 < 3)
    OBVIOUS
  <2> QED
    BY <1>1, <1>2, <1>3, <2>3, <2>4, Zenon DEF Jolt
<1>4. CASE Len(s) # 3
  <2>1. \A n \in 0 .. 3 : n # 3 => n < 3
    OBVIOUS
  <2>2. Len(s) < 3 /\ 0 \in Nat
    BY <1>4, <2>1, Zenon
  <2> QED
    BY <2>2, Zenon DEF Jolt
<1> QED
  BY <1>3, <1>4

\* The gate after one more rejected sample, before it decides.
LEMMA CountedIs ==
  ASSUME GateInv, NEW jolt \in Nat, NEW gap \in 1 .. MaxGap
  PROVE  LET g == Counted(jolt, gap)
         IN  /\ g \in [rejecting : BOOLEAN, age : 0 .. ResyncAfter, diffSq : Nat,
                       n : 1 .. ResyncAfter + 1]
             /\ g.rejecting
             /\ g.age + 1 >= g.n
             /\ gate.rejecting =>
                  /\ g.n = gate.n + 1 /\ g.diffSq <= gate.diffSq + jolt
                  /\ g.age = ResyncAfter \/ g.age > gate.age
             /\ ~gate.rejecting => g.n = 1 /\ g.diffSq <= jolt
<1> DEFINE a == Capped(gate.age + gap, ResyncAfter)
           d == Capped(gate.diffSq + jolt, Hopeless)
           m == Capped(gate.n + 1, Window)
           Full == [rejecting : BOOLEAN, age : 0 .. ResyncAfter, diffSq : Nat,
                    n : 1 .. ResyncAfter + 1]
<1>1. /\ gate.rejecting \in BOOLEAN /\ gate.age \in 0 .. ResyncAfter
      /\ gate.diffSq \in Nat /\ gate.n \in 0 .. ResyncAfter
  BY DEF GateInv, Gates
<1>2. /\ MaxGap \in Nat /\ ResyncAfter \in Nat /\ ResyncAfter >= 1
      /\ Window \in Nat /\ Window = ResyncAfter + 1
      /\ Hopeless \in Nat
  BY FilterAssumption DEF Window, Hopeless, NoiseMax
<1>3. /\ a \in 0 .. ResyncAfter /\ (a = ResyncAfter \/ a > gate.age)
      /\ d \in Nat /\ d <= gate.diffSq + jolt
      /\ m = gate.n + 1 /\ m \in 1 .. ResyncAfter + 1
  <2>1. a = IF gate.age + gap <= ResyncAfter THEN gate.age + gap ELSE ResyncAfter
    BY <1>1, <1>2, CappedIs
  <2>2. d = IF gate.diffSq + jolt <= Hopeless THEN gate.diffSq + jolt ELSE Hopeless
    BY <1>1, <1>2, CappedIs
  <2>3. m = IF gate.n + 1 <= Window THEN gate.n + 1 ELSE Window
    BY <1>1, <1>2, CappedIs
  <2> HIDE DEF a, d, m
  <2> QED
    BY <1>1, <1>2, <2>1, <2>2, <2>3
<1>4. CASE gate.rejecting
  <2>1. Counted(jolt, gap) = [gate EXCEPT !.age = a, !.diffSq = d, !.n = m]
    BY <1>4 DEF Counted
  <2> HIDE DEF a, d, m
  <2>2. \A r \in Gates : LET g == [r EXCEPT !.age = a, !.diffSq = d, !.n = m]
                         IN  /\ g \in Full /\ (g.rejecting <=> r.rejecting)
                             /\ g.age = a /\ g.diffSq = d /\ g.n = m
    BY <1>3 DEF Gates
  <2>3. LET g == Counted(jolt, gap)
        IN  /\ g \in Full /\ g.rejecting /\ g.age = a /\ g.diffSq = d /\ g.n = m
    BY <1>4, <2>1, <2>2, Zenon DEF GateInv
  <2>4. gate.age + 1 >= gate.n
    BY <1>4, Zenon DEF GateInv
  <2>5. a + 1 >= m
    BY <1>1, <1>2, <1>3, <2>4
  <2> HIDE DEF Full
  <2> QED
    BY <1>3, <1>4, <2>3, <2>5, Zenon DEF Full
<1>5. CASE ~gate.rejecting
  <2> DEFINE e == Capped(jolt, Hopeless)
  <2>1. Counted(jolt, gap) = [rejecting |-> TRUE, age |-> 0, diffSq |-> e, n |-> 1]
    BY <1>5, Zenon DEF Counted
  <2>2. e \in Nat /\ e <= jolt
    BY <1>2, CappedIs
  <2> HIDE DEF e
  <2>3. \A v \in BOOLEAN : LET g == [rejecting |-> v, age |-> 0, diffSq |-> e, n |-> 1]
                           IN  /\ g \in Full /\ (g.rejecting <=> v)
                               /\ g.age = 0 /\ g.diffSq = e /\ g.n = 1
    BY <1>2, <2>2
  <2>4. LET g == Counted(jolt, gap)
        IN  /\ g \in Full /\ g.rejecting /\ g.age = 0 /\ g.diffSq = e /\ g.n = 1
    BY <2>1, <2>3, Zenon
  <2>5. 0 + 1 >= 1
    OBVIOUS
  <2> HIDE DEF Full
  <2> QED
    BY <1>5, <2>2, <2>4, <2>5, Zenon DEF Full
<1> QED
  BY <1>4, <1>5

\* The gate and the streak after a rejected sample, whatever the gate decides.
LEMMA GateHolds ==
  ASSUME GateInv, NEW z, NEW jolt \in Nat, NEW gap \in 1 .. MaxGap,
         Hold(z, jolt, gap), gate' \in Gates,
         streak' = IF gate'.rejecting /\ jolt < NoiseMax * NoiseMax
                   THEN Capped(streak + 1, 2 * Window) ELSE 0
  PROVE  /\ streak' \in Nat
         /\ ~gate'.rejecting => streak' = 0
         /\ gate'.rejecting =>
              /\ gate'.age + 1 >= gate'.n
              /\ ~WindowOver(gate')
              /\ \/ streak' <= gate'.n - 1
                 \/ /\ gate'.diffSq <= Calm * gate'.n
                    /\ \/ streak' <= gate'.n
                       \/ streak' <= ResyncAfter + gate'.n /\ gate'.age >= gate'.n
<1> DEFINE g == Counted(jolt, gap)
           Full == [rejecting : BOOLEAN, age : 0 .. ResyncAfter, diffSq : Nat,
                    n : 1 .. ResyncAfter + 1]
<1>1. /\ g \in Full /\ g.rejecting /\ g.age + 1 >= g.n
      /\ gate.rejecting =>
           /\ g.n = gate.n + 1 /\ g.diffSq <= gate.diffSq + jolt
           /\ g.age = ResyncAfter \/ g.age > gate.age
      /\ ~gate.rejecting => g.n = 1 /\ g.diffSq <= jolt
  BY CountedIs
<1>2. /\ ~WindowOver(g) => gate' = g
      /\ WindowOver(g) /\ Smooth(g) => gate' = Open
      /\ WindowOver(g) /\ ~Smooth(g) => gate' = Restarted(g)
  BY Zenon DEF Hold, Keep, Accept
<1> HIDE DEF g
<1>3. /\ ResyncAfter \in Nat /\ ResyncAfter >= 1 /\ ResyncSamples \in Nat
      /\ ResyncSamples <= ResyncAfter
      /\ Window = ResyncAfter + 1 /\ NoiseMax * NoiseMax = 36 /\ Calm = 35
  BY FilterAssumption DEF Window, NoiseMax, Calm
<1>4. /\ streak \in Nat /\ gate.n \in 0 .. ResyncAfter /\ gate.age \in 0 .. ResyncAfter
      /\ gate.diffSq \in Nat
      /\ g.age \in 0 .. ResyncAfter /\ g.diffSq \in Nat /\ g.n \in 1 .. ResyncAfter + 1
  BY <1>1 DEF GateInv, Gates
\* The streak of the samples before this one
<1>5. \/ streak <= g.n - 2
      \/ /\ g.diffSq <= 35 * (g.n - 1) + jolt
         /\ \/ streak <= g.n - 1
            \/ streak <= ResyncAfter + g.n - 1 /\ (g.age = ResyncAfter \/ g.age >= g.n)
  <2>1. CASE gate.rejecting
    <3>1. \/ streak <= gate.n - 1
          \/ /\ gate.diffSq <= 35 * gate.n
             /\ \/ streak <= gate.n
                \/ streak <= ResyncAfter + gate.n /\ gate.age >= gate.n
      BY <1>3, <2>1, Zenon DEF GateInv
    <3>2. g.n = gate.n + 1 /\ g.diffSq <= gate.diffSq + jolt
          /\ (g.age = ResyncAfter \/ g.age > gate.age)
      BY <1>1, <2>1, Zenon
    <3> QED
      BY <1>3, <1>4, <3>1, <3>2
  <2>2. CASE ~gate.rejecting
    <3>1. streak = 0 /\ g.n = 1 /\ g.diffSq <= jolt
      BY <1>1, <2>2, Zenon DEF GateInv
    <3> QED
      BY <1>4, <3>1
  <2> QED
    BY <2>1, <2>2, Zenon
\* and the one after it
<1>6. \/ streak' = 0
      \/ /\ jolt <= 35 /\ gate'.rejecting
         /\ streak' \in Nat /\ streak' <= streak + 1
  <2>1. Capped(streak + 1, 2 * Window) \in Nat /\ Capped(streak + 1, 2 * Window) <= streak + 1
    BY <1>3, <1>4, CappedIs
  <2>2. jolt < NoiseMax * NoiseMax => jolt <= 35
    BY <1>3
  <2> QED
    BY <2>1, <2>2, Zenon
<1>7. CASE ~WindowOver(g)
  <2>1. gate' = g
    BY <1>2, <1>7, Zenon
  <2>2. g.age < ResyncAfter \/ g.n < ResyncSamples
    BY <1>3, <1>4, <1>7 DEF WindowOver
  <2>3. g.n <= ResyncAfter
    BY <1>1, <1>3, <1>4, <2>2
  <2>4. \/ streak' <= g.n - 1
        \/ /\ g.diffSq <= 35 * g.n
           /\ \/ streak' <= g.n
              \/ streak' <= ResyncAfter + g.n /\ g.age >= g.n
    BY <1>3, <1>4, <1>5, <1>6, <2>3
  <2>5. streak' \in Nat
    BY <1>6
  <2>6. g.n - 1 \in Int /\ Calm * g.n = 35 * g.n
    BY <1>3, <1>4
  <2> QED
    BY <1>1, <1>3, <1>7, <2>1, <2>4, <2>5, <2>6, Zenon
<1>8. CASE WindowOver(g) /\ Smooth(g)
  <2>1. gate' = Open
    BY <1>2, <1>8, Zenon
  <2>2. ~gate'.rejecting
    <3>1. \A v \in BOOLEAN : [rejecting |-> v, age |-> 0, diffSq |-> 0, n |-> 0].rejecting <=> v
      BY SMT
    <3> QED
      BY <2>1, <3>1, Zenon DEF Open
  <2> QED
    BY <1>6, <2>2
<1>9. CASE WindowOver(g) /\ ~Smooth(g)
  <2>1. gate' = Restarted(g)
    BY <1>2, <1>9, Zenon
  <2>2. gate'.age = 0 /\ gate'.diffSq = 0 /\ gate'.n = 0
    BY <1>1, <2>1 DEF Restarted
  <2>3. ~WindowOver(gate')
    BY <1>3, <2>2 DEF WindowOver
  <2>4. g.diffSq >= 36 * g.n
    BY <1>3, <1>4, <1>9 DEF Smooth
  <2>5. streak' <= ResyncAfter
    BY <1>3, <1>4, <1>5, <1>6, <2>4
  <2>6. /\ streak' \in Nat
        /\ streak' <= ResyncAfter + 0 /\ 0 >= 0 /\ 0 <= Calm * 0 /\ 0 + 1 >= 0
    BY <1>3, <1>6, <2>5
  <2> QED
    BY <1>6, <2>2, <2>3, <2>6, Zenon
<1> QED
  BY <1>7, <1>8, <1>9, Zenon

\* The gate stays a gate: a window that goes on counts at most ResyncAfter.
LEMMA GateStays ==
  ASSUME GateInv, NEW z, NEW jolt \in Nat, NEW gap \in 1 .. MaxGap,
         Hold(z, jolt, gap) \/ Accept(z)
  PROVE  gate' \in Gates
<1> DEFINE g == Counted(jolt, gap)
           Full == [rejecting : BOOLEAN, age : 0 .. ResyncAfter, diffSq : Nat,
                    n : 1 .. ResyncAfter + 1]
<1>1. g \in Full /\ g.age + 1 >= g.n
  BY CountedIs
<1>2. gate' \in {g, Restarted(g), Open} /\ (gate' = g => ~WindowOver(g) \/ g \in {Restarted(g), Open})
  BY Zenon DEF Hold, Keep, Accept
<1> HIDE DEF g
<1>3. /\ ResyncAfter \in Nat /\ ResyncSamples \in Nat /\ ResyncSamples <= ResyncAfter
  BY FilterAssumption
<1>4. Restarted(g) \in Gates
  <2>1. \A r \in Full, a \in 0 .. ResyncAfter, d \in Nat, m \in 0 .. ResyncAfter :
          [r EXCEPT !.age = a, !.diffSq = d, !.n = m] \in Gates
    BY DEF Gates
  <2>2. 0 \in 0 .. ResyncAfter /\ 0 \in Nat
    BY <1>3
  <2> QED
    BY <1>1, <2>1, <2>2, Zenon DEF Restarted
<1>5. Open \in Gates
  <2>1. \A v \in BOOLEAN : [rejecting |-> v, age |-> 0, diffSq |-> 0, n |-> 0] \in Gates
    BY <1>3 DEF Gates
  <2>2. FALSE \in BOOLEAN
    BY Zenon
  <2> QED
    BY <2>1, <2>2, Zenon DEF Open
<1>6. ~WindowOver(g) => g \in Gates
  <2>1. SUFFICES ASSUME ~WindowOver(g) PROVE g.n \in 0 .. ResyncAfter
    BY <1>1 DEF Gates
  <2> QED
    BY <1>1, <1>3, <2>1 DEF WindowOver
<1> QED
  BY <1>2, <1>4, <1>5, <1>6, Zenon

\* A gate just opened, and no sample held.
LEMMA GateOpens ==
  /\ Open \in Gates /\ ~Open.rejecting
  /\ raw' \in Seq(Altitudes) /\ Len(raw') \in 0 .. 3 /\ gate' = Open /\ streak' = 0
       => GateInv'
<1>1. \A v \in BOOLEAN : [rejecting |-> v, age |-> 0, diffSq |-> 0, n |-> 0].rejecting <=> v
  BY SMT
<1>2. \A v \in BOOLEAN, r \in Nat :
        [rejecting |-> v, age |-> 0, diffSq |-> 0, n |-> 0]
          \in [rejecting : BOOLEAN, age : 0 .. r, diffSq : Nat, n : 0 .. r]
  BY SMT
<1>3. ResyncAfter \in Nat /\ 0 \in Nat
  BY FilterAssumption
<1>4. Open \in Gates /\ ~Open.rejecting
  BY <1>1, <1>2, <1>3, Zenon DEF Open, Gates
<1> QED
  BY <1>3, <1>4, Zenon DEF GateInv

\* Whatever the filter saw before and wherever its prediction is, it never
\* rejects a smooth stream for two windows.
THEOREM HoldEnds == SensorSpec => []HeldIsBounded
<1>1. SensorInit => GateInv
  <2> SUFFICES ASSUME SensorInit PROVE GateInv
    OBVIOUS
  <2>1. raw = <<>> /\ gate = Open /\ streak = 0
    BY Zenon DEF SensorInit, Init
  <2>2. <<>> \in Seq(Altitudes) /\ Len(<<>>) \in 0 .. 3 /\ 0 \in Nat
    OBVIOUS
  <2> QED
    BY <2>1, <2>2, GateOpens, Zenon DEF GateInv
<1>2. GateInv /\ [Next]_vars => GateInv'
  <2> SUFFICES ASSUME GateInv, [Next]_vars PROVE GateInv'
    OBVIOUS
  <2>1. raw \in Seq(Altitudes) /\ Len(raw) \in 0 .. 3
    BY Zenon DEF GateInv
  <2>2. CASE Baro
    <3>1. PICK gap \in 1 .. MaxGap, z \in Altitudes :
            /\ FirstSample(z) \/ \E agrees \in BOOLEAN : NextSample(z, gap, agrees)
            /\ streak' = IF gate'.rejecting /\ Jolt(raw') < NoiseMax * NoiseMax
                         THEN Capped(streak + 1, 2 * Window) ELSE 0
      BY <2>2, Zenon DEF Baro, Observe
    <3>2. CASE FirstSample(z)
      <4>1. raw' = raw /\ gate' = Open
        BY <3>2, Zenon DEF FirstSample, Accept
      <4>2. streak' = 0
        BY <3>1, <4>1, GateOpens, Zenon
      <4> QED
        BY <2>1, <4>1, <4>2, GateOpens, Zenon
    <3>3. ASSUME NEW agrees \in BOOLEAN, NextSample(z, gap, agrees) PROVE GateInv'
      <4>1. /\ raw' = Recent(raw, z)
            /\ \/ gate' = Open
               \/ Hold(Median(raw'), Jolt(raw'), gap)
        BY <3>3, Zenon DEF NextSample, Accept
      <4>2. raw' \in Seq(Altitudes) /\ Len(raw') \in 0 .. 3
        <5>1. PICK n \in 0 .. 3 : Len(raw) = n
          BY <2>1, Zenon
        <5>2. PICK m \in 1 .. 3 : MovedUp(raw, n, z, Recent(raw, z), m)
          BY <2>1, <5>1, RecentIs, Zenon
        <5>3. m \in 0 .. 3
          BY <5>2
        <5> QED
          BY <4>1, <5>2, <5>3, Zenon DEF MovedUp
      <4>3. CASE gate' = Open
        <5>1. streak' = 0
          BY <3>1, <4>3, GateOpens, Zenon
        <5> QED
          BY <4>2, <4>3, <5>1, GateOpens, Zenon
      <4>4. CASE Hold(Median(raw'), Jolt(raw'), gap)
        <5> DEFINE j == Jolt(raw')
        <5>1. j \in Nat
          <6>1. \A s \in Seq(Altitudes) : Len(s) \in 0 .. 3 => Jolt(s) \in Nat
            BY JoltIs, Zenon
          <6> QED
            BY <4>2, <6>1, Zenon
        <5>2. streak' = IF gate'.rejecting /\ j < NoiseMax * NoiseMax
                        THEN Capped(streak + 1, 2 * Window) ELSE 0
          BY <3>1, Zenon
        <5>3. Hold(Median(raw'), j, gap)
          BY <4>4
        <5> HIDE DEF j
        <5>4. gate' \in Gates
          BY <5>1, <5>3, GateStays, Zenon
        <5> QED
          BY <4>2, <5>1, <5>2, <5>3, <5>4, GateHolds, Zenon DEF GateInv
      <4> QED
        BY <4>1, <4>3, <4>4
    <3> QED
      BY <3>1, <3>2, <3>3
  <2>3. CASE Predict \/ UNCHANGED vars
    BY <2>3, Zenon DEF Predict, vars, filter, observer, GateInv, WindowOver
  <2>4. CASE Replace
    <3>1. raw' = <<>> /\ gate' = Open /\ streak' = 0
      BY <2>4, Zenon DEF Replace
    <3>2. <<>> \in Seq(Altitudes) /\ Len(<<>>) \in 0 .. 3
      OBVIOUS
    <3> QED
      BY <3>1, <3>2, GateOpens, Zenon
  <2> QED
    BY <2>2, <2>3, <2>4, Zenon DEF Next
<1>3. GateInv => HeldIsBounded
  <2> SUFFICES ASSUME GateInv PROVE HeldIsBounded
    OBVIOUS
  <2>1. /\ ResyncAfter \in Nat /\ ResyncAfter >= 1 /\ ResyncSamples \in Nat
        /\ ResyncSamples <= ResyncAfter /\ Window = ResyncAfter + 1
    BY FilterAssumption DEF Window
  <2>2. gate.n \in 0 .. ResyncAfter /\ gate.age \in 0 .. ResyncAfter /\ streak \in Nat
    BY DEF GateInv, Gates
  <2>3. CASE gate.rejecting
    <3>1. /\ ~WindowOver(gate)
          /\ \/ streak <= gate.n - 1
             \/ streak <= gate.n
             \/ streak <= ResyncAfter + gate.n /\ gate.age >= gate.n
      BY <2>3, Zenon DEF GateInv
    <3>2. gate.age < ResyncAfter \/ gate.n < ResyncSamples
      BY <2>1, <2>2, <3>1 DEF WindowOver
    <3> QED
      BY <2>1, <2>2, <3>1, <3>2 DEF HeldIsBounded
  <2>4. CASE ~gate.rejecting
    <3>1. streak = 0
      BY <2>4, Zenon DEF GateInv
    <3> QED
      BY <2>1, <3>1 DEF HeldIsBounded
  <2> QED
    BY <2>3, <2>4
<1> QED
  BY <1>1, <1>2, <1>3, PathsApart, PTL DEF SensorSpec
=============================================================================
