----------------------------- MODULE SensorPaths ----------------------------
(***************************************************************************)
(* The three ways from the sensors to the flight software: the filter of   *)
(* the vertical channel, the samples of the barometer and the fixes of the *)
(* GNSS receiver.  They share no state of these modules, so a behaviour of *)
(* one stands for all of theirs: the path is chosen at the start and the   *)
(* others stand still.                                                     *)
(***************************************************************************)
EXTENDS VerticalFilter, BaroPath, GnssPath

VARIABLE path   \* the path this behaviour follows

sensorVars == <<path, vars, baroVars, gnssVars>>

OnFilter(A) == path = "filter" /\ A /\ UNCHANGED <<path, baroVars, gnssVars>>
OnBaro(A)   == path = "baro" /\ A /\ UNCHANGED <<path, vars, gnssVars>>
OnGnss(A)   == path = "gnss" /\ A /\ UNCHANGED <<path, vars, baroVars>>

SensorInit == /\ path \in {"filter", "baro", "gnss"}
              /\ path # "filter" => real = 0
              /\ path # "gnss" => sky = "silent" /\ heard = FALSE
              /\ Init /\ BaroInit /\ GnssInit

SensorNext == OnFilter(Next) \/ OnBaro(BaroNext) \/ OnGnss(GnssNext)

\* The tasks go on, the receiver sends, and time passes whatever they do
SensorFairness == /\ WF_sensorVars(OnGnss(SensorTask))
                  /\ WF_sensorVars(OnGnss(NavTask))
                  /\ WF_sensorVars(OnGnss(Steers))
                  /\ SF_sensorVars(OnGnss(Tick))

SensorSpec == SensorInit /\ [][SensorNext]_sensorVars /\ SensorFairness
=============================================================================
