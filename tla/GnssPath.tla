------------------------------ MODULE GnssPath ------------------------------
(***************************************************************************)
(* A GNSS fix from the receiver to the steering: the NMEA parser and the   *)
(* cache it keeps (ngps01.cpp), sensor_task, which stamps a new fix and    *)
(* publishes the cache, nav_task, which averages the launch site from the  *)
(* fixes on the pad (guidance.hpp), and control_task, which guides by the  *)
(* published position and the stamp.  Time is counted in epochs of the     *)
(* receiver (one second); in every epoch it sends RMC and GGA in some      *)
(* order, GSV at times after GGA, and a sentence with a bad checksum is    *)
(* lost.                                                                   *)
(*                                                                         *)
(* A position is its age in epochs; what matters is whether it is older    *)
(* than FixTimeout.  Of the satellites only whether they are enough for    *)
(* the site matters; fix_quality is zero exactly while there is no valid   *)
(* fix.  Altitude, velocity, the tilt and the landing, which ends the      *)
(* guidance, are not modelled.                                             *)
(***************************************************************************)
EXTENDS Integers

CONSTANTS
  FixTimeout,  \* gnss_timeout_s, in epochs
  SiteTime,    \* site_avg_s, in epochs
  MaxLost,     \* GGA sentences lost one after the other
  MaxResets    \* resets of the board

ASSUME GnssAssumption == /\ {FixTimeout, SiteTime} \subseteq Nat \ {0}
                         /\ {MaxLost, MaxResets} \subseteq Nat

VARIABLES
  sky,      \* what the receiver sees: "open", "weak" (three satellites), "none", "silent"
  heard,    \* the port is open at the receiver's speed
  due,      \* sentences still to come in this epoch
  lost,     \* GGA sentences lost so far without one that came through
  cache,    \* cached_: what the parser keeps
  clock,    \* the cached time: an "old" one, "new" in this epoch, "stamped" (s_last_fix_utc)
  sensor,   \* sensor_task: "read", "parsed" something, "stamped" and about to publish
  rxAge,    \* time since latest_gnss_rx_s
  latest,   \* latest_gnss
  rxNew,    \* latest_gnss_rx_s is not nav_task's last_fix_rx
  nav,      \* nav_task: "idle", or its copy of latest_gnss ("none", "few", "enough")
  site,     \* site: its averaging time and locked_
  flight,   \* the mission: "pad", "air", or flown as an "exercise" (LIFT, SIM)
  shown,    \* g_nav: the mission is in the air, the site is valid
  record,   \* g_persist: likewise
  control,  \* control_task: "idle", or with a "fresh" or a "stale" position it may use
  guide,    \* the guidance in this epoch: "off", by a "fresh" position, by a "stale" one
  stale,    \* consecutive epochs with a guidance by a stale position (observer)
  resets    \* resets so far (bound)

receiver == <<sky, heard, due, lost>>
board    == <<cache, clock, sensor, rxAge, latest>>
navState == <<rxNew, nav, site, flight, shown, record>>
steering == <<control, guide, stale>>
gnssVars == <<receiver, board, navState, steering, resets>>

Skies     == {"open", "weak", "none", "silent"}
Sentences == {"RMC", "GGA"}
NoFix     == [valid |-> FALSE, age |-> FixTimeout + 1, enough |-> FALSE]
NewSite   == [time |-> 0, locked |-> FALSE]
OnPad     == [air |-> FALSE, site |-> FALSE]

SiteValid == site.time >= SiteTime
\* ages and averaging times beyond these limits are all the same
Older(age) == IF age > FixTimeout THEN age ELSE age + 1
Longer(t, d) == IF t + d > SiteTime THEN SiteTime ELSE t + d

\* The scan of the speeds finds the receiver's unless it is silent
Scanned == IF sky = "silent" THEN BOOLEAN ELSE {TRUE}

GnssInit ==
  /\ sky \in Skies /\ heard \in Scanned
  /\ due = {} /\ lost = 0
  /\ cache = NoFix /\ clock = "old" /\ sensor = "read" /\ rxAge = FixTimeout + 1
  /\ latest = NoFix
  /\ rxNew = FALSE /\ nav = "idle" /\ site = NewSite /\ flight = "pad"
  /\ shown = OnPad /\ record = OnPad
  /\ control = "idle" /\ guide = "off" /\ stale = 0
  /\ resets = 0

-----------------------------------------------------------------------------
\* The receiver

HasFix == sky \in {"open", "weak"}
Fix(enough) == [valid |-> TRUE, age |-> 0, enough |-> enough]

\* parse_gga: validity and satellites are the sentence's own
\* Mutant of Gga: a sentence without a position leaves the last one valid.
GgaKeeps(c) == IF HasFix THEN Fix(sky = "open") ELSE [c EXCEPT !.enough = FALSE]
Gga(c) == IF HasFix THEN Fix(sky = "open") ELSE [c EXCEPT !.valid = FALSE, !.enough = FALSE]

\* parse_gsv: satellites in view stand for those used while there is no fix
Gsv(c) == IF c.valid THEN {c} ELSE {[c EXCEPT !.enough = b] : b \in BOOLEAN}

\* parse_rmc: a position when the status is A, else only the time; the
\* satellites stay, three of them at least
\* Mutant of Rmc: it takes three satellites whatever GGA counted.
RmcThree(c) == IF HasFix THEN Fix(FALSE) ELSE c
Rmc(c) == IF HasFix THEN Fix(c.enough) ELSE c

Parsed(kind, c) == IF kind = "GGA" THEN Gsv(Gga(c)) ELSE {Rmc(c)}

\* read: sensor_task takes in a sentence; one without a fix may lack the time
Parse ==
  \E kind \in due :
    /\ sensor # "stamped"
    /\ due' = due \ {kind} /\ sensor' = "parsed"
    /\ cache' \in Parsed(kind, cache)
    /\ \/ clock' = (IF clock = "old" THEN "new" ELSE clock)
       \/ ~ HasFix /\ UNCHANGED clock
    /\ lost' = IF kind = "GGA" THEN 0 ELSE lost
    /\ UNCHANGED <<sky, heard, rxAge, latest, navState, steering, resets>>

\* verify_checksum rejects a sentence
Garble ==
  \E kind \in due :
    /\ kind = "GGA" => lost < MaxLost
    /\ lost' = IF kind = "GGA" THEN lost + 1 ELSE lost
    /\ due' = due \ {kind}
    /\ UNCHANGED <<sky, heard, board, navState, steering, resets>>

\* sensor_task: a valid fix with a time not seen before is new
NewFix == cache.valid /\ clock = "new"

\* an iteration that read nothing stamps nothing and publishes the same
Stamp ==
  /\ sensor \in (IF NewFix THEN {"read", "parsed"} ELSE {"parsed"}) /\ sensor' = "stamped"
  /\ IF NewFix THEN clock' = "stamped" /\ rxAge' = 0 /\ rxNew' = TRUE
     ELSE UNCHANGED <<clock, rxAge, rxNew>>
  /\ UNCHANGED <<receiver, cache, latest, nav, site, flight, shown, record, steering, resets>>

\* then, under sensor_mutex, the cache becomes latest_gnss
Publish ==
  /\ sensor = "stamped" /\ sensor' = "read"
  /\ latest' = cache
  /\ UNCHANGED <<receiver, cache, clock, rxAge, navState, steering, resets>>

\* An epoch is over: everything sent has been taken in and used
Tick ==
  /\ due = {} /\ sensor = "read" /\ ~ (rxNew /\ latest.valid) /\ control = "idle"
  /\ sky' \in Skies
  /\ due' = IF heard /\ sky' # "silent" THEN Sentences ELSE {}
  /\ clock' = "old"
  /\ cache' = [cache EXCEPT !.age = Older(@)]
  /\ latest' = [latest EXCEPT !.age = Older(@)]
  /\ rxAge' = Older(rxAge)
  /\ stale' = IF guide = "stale" THEN stale + 1 ELSE 0
  /\ guide' = "off"
  /\ UNCHANGED <<heard, lost, sensor, navState, control, resets>>

-----------------------------------------------------------------------------
\* nav_task

NavTakes ==
  /\ nav = "idle"
  /\ nav' = IF ~ latest.valid THEN "none" ELSE IF latest.enough THEN "enough" ELSE "few"
  /\ UNCHANGED <<receiver, board, rxNew, site, flight, shown, record, steering, resets>>

\* SiteEstimator::add, with the time since the last fix used (1 for the first)
Averaged(s) ==
  IF s.locked \/ nav # "enough" THEN {s}
  ELSE {[s EXCEPT !.time = Longer(@, dt)] : dt \in 1 .. SiteTime}

\* Under fc_mutex: a baro sample may step the mission; then the fix, with the
\* stamp as it is now
NavUses ==
  /\ nav # "idle" /\ nav' = "idle"
  /\ \E baro \in BOOLEAN :
       /\ flight' \in {flight} \cup (IF baro /\ flight = "pad" THEN {"air", "exercise"} ELSE {})
       /\ LET s   == IF baro /\ flight' # "pad" THEN [site EXCEPT !.locked = TRUE] ELSE site
              use == nav # "none" /\ rxNew
          IN  /\ site' \in IF use /\ flight' = "pad" THEN Averaged(s) ELSE {s}
              /\ rxNew' = (rxNew /\ ~ use)
       /\ IF baro
          THEN LET seen == [air |-> flight' # "pad", site |-> SiteValid]
               IN  shown' = seen /\ record' = seen
          ELSE UNCHANGED <<shown, record>>
  /\ UNCHANGED <<receiver, board, steering, resets>>

\* CAL, LIFT and SIM: the mission starts again, the site stays as it is
PadAgain ==
  /\ flight \in {"pad", "exercise"} /\ flight' = "pad"
  /\ UNCHANGED <<receiver, board, rxNew, nav, site, shown, record, steering, resets>>

-----------------------------------------------------------------------------
\* control_task: an iteration whose copies allow no guidance changes nothing

ControlTakes ==
  /\ control = "idle"
  /\ latest.valid /\ shown.air /\ shown.site
  /\ control' = IF latest.age > FixTimeout THEN "stale" ELSE "fresh"
  /\ UNCHANGED <<receiver, board, navState, guide, stale, resets>>

\* The motors may spin in the air; the stamp is read when the copies are used
Steers ==
  /\ control # "idle" /\ control' = "idle"
  /\ \/ UNCHANGED guide
     \/ rxAge <= FixTimeout /\ guide' = IF guide = "stale" THEN guide ELSE control
  /\ UNCHANGED <<receiver, board, navState, stale, resets>>

-----------------------------------------------------------------------------
\* A reset

\* What every boot starts with
Boot ==
  /\ resets < MaxResets /\ resets' = resets + 1
  /\ lost' = 0 /\ cache' = NoFix /\ clock' = "old" /\ sensor' = "read"
  /\ rxAge' = FixTimeout + 1 /\ latest' = NoFix
  /\ rxNew' = FALSE /\ nav' = "idle" /\ shown' = OnPad
  /\ control' = "idle" /\ guide' = "off" /\ stale' = 0
  /\ due' = {} /\ UNCHANGED sky

\* Resumed from the record after a reset in flight: the speed is not looked
\* for, the receiver may talk at another one than 9600 baud
Resume ==
  /\ Boot
  /\ record.air
  /\ flight' = (IF flight = "exercise" THEN "exercise" ELSE "air")
  /\ site' = [time |-> IF record.site THEN SiteTime ELSE 0, locked |-> TRUE]
  /\ heard' \in BOOLEAN
  /\ UNCHANGED record

\* Started on the pad
ColdBoot ==
  /\ Boot
  /\ flight' = "pad" /\ site' = NewSite /\ record' = OnPad
  /\ heard' \in Scanned

SensorTask == Parse \/ Stamp \/ Publish
NavTask    == NavTakes \/ NavUses
GnssNext   == \/ SensorTask \/ Garble \/ Tick \/ NavTask \/ PadAgain
              \/ ControlTakes \/ Steers \/ Resume \/ ColdBoot

-----------------------------------------------------------------------------
\* Properties

\* Steering by an old position ends by itself: a receiver that goes silent, or
\* comes back without a fix and has its time taken for one, may have the CanSat
\* steered by a position older than gnss_timeout_s, but only until a GGA comes
\* through, whatever the interleaving of the stamp, the publication and the
\* copies.
StaleSteeringEnds == stale <= MaxLost * (FixTimeout + 1) + 1

\* Every iteration guides by a fix that is not older than gnss_timeout_s.
GuidedByFreshFix == guide # "stale"

\* A CanSat left on the pad under an open sky learns its launch site, whatever
\* was tried before: unless it is in flight or a flight locked the site without
\* one, or the receiver's speed was never found.
PadLearnsSite == <>[](sky = "open" /\ heard /\ ~ site.locked) => <>SiteValid
=============================================================================
