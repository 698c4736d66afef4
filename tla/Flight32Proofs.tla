----------------------------- MODULE Flight32Proofs -----------------------------
(***************************************************************************)
(* Proofs about the motor side of Flight32, for any number of motors, any  *)
(* throttles and test times and any motors the host addresses: after every *)
(* serial operation its parts agree on the mode, and a test throttle is    *)
(* seen by the motor of the test alone.  And about its settings, for any   *)
(* words and numbers and any number of edits: a pasted backup restores     *)
(* what it dumped, only a useless value that was asked for stops the       *)
(* start, and terminal and MSP tell the same.                              *)
(***************************************************************************)
EXTENDS EscPassthrough, Flight32Settings, TLAPS

(***************************************************************************)
(* Where a serial operation can be.  A point is what is left to store.     *)
(***************************************************************************)
StopZero == <<"zero">>
StartZero == <<"zero", "fields", "spin">>
Start2 == <<"fields", "spin">>
Start3 == <<"spin">>

Enter2 == <<"suspendPid", "suspendRx", "bypass", "idle", "wire", "modePassthrough">>
Enter3 == <<"suspendRx", "bypass", "idle", "wire", "modePassthrough">>
Enter4 == <<"bypass", "idle", "wire", "modePassthrough">>
Enter5 == <<"idle", "wire", "modePassthrough">>
EnterZero == <<"zero", "wire", "modePassthrough">>
Enter6 == <<"wire", "modePassthrough">>
Enter7 == <<"modePassthrough">>

Exit2 == <<"resumePid", "resumeRx", "drive", "unwire", "modeTerminal", "reply">>
Exit3 == <<"resumeRx", "drive", "unwire", "modeTerminal", "reply">>
Exit4 == <<"drive", "unwire", "modeTerminal", "reply">>
Exit5 == <<"unwire", "modeTerminal", "reply">>
Exit6 == <<"modeTerminal", "reply">>

Device2 == <<"reset", "connect", "transact", "loud", "reply">>
Device3 == <<"connect", "transact", "loud", "reply">>
Device4 == <<"transact", "loud", "reply">>

(***************************************************************************)
(* The mode, at every point                                                *)
(***************************************************************************)

\* Everything is as in the terminal, and as in passthrough.
Flies   == system = "READY" /\ ~bypass /\ running = Tasks
Bridges == system = "ESC_PASSTHROUGH" /\ bypass /\ running = {} /\ test = "IDLE"

Settled == (mode \in {"TERMINAL", "MSP"} /\ Flies) \/ (mode = "PASSTHROUGH" /\ Bridges)

\* Between two operations; no byte is drained while MSP is read.
AtRest == Idle /\ Settled /\ ~quiet /\ (mode = "MSP" => ~draining)

Replying ==
  /\ Settled /\ mode # "MSP"
  /\ \/ op = ReplyStores /\ ~quiet
     \/ op \in {DeviceStores, NoDevice} /\ ~quiet
     \/ op \in {Device2, Device3, Device4, GivenUp} /\ quiet

Testing ==
  /\ mode = "TERMINAL" /\ Flies /\ ~quiet
  /\ \/ op \in {StopStores, StartStores}
     \/ op \in {StopZero, StartZero, Start2, Start3} /\ test = "IDLE"

\* Entering: the system state first, then the tasks, the bypass and the test
Entering ==
  /\ mode = "TERMINAL" /\ ~quiet
  /\ \/ op = EnterStores /\ Flies
     \/ /\ system = "ESC_PASSTHROUGH"
        /\ \/ op = Enter2 /\ running = Tasks /\ ~bypass
           \/ op = Enter3 /\ running = {"rx"} /\ ~bypass
           \/ op = Enter4 /\ running = {} /\ ~bypass
           \/ op = Enter5 /\ running = {} /\ bypass
           \/ op \in {EnterZero, Enter6, Enter7} /\ Bridges

\* Leaving, from passthrough or, with bytes left in the loop, once more
Leaving ==
  /\ mode # "MSP" /\ ~quiet /\ (mode = "PASSTHROUGH" => test = "IDLE")
  /\ \/ op = ExitStores /\ Settled
     \/ /\ system = "READY"
        /\ \/ op = Exit2 /\ running \in {{}, Tasks}
           \/ op = Exit3 /\ running \in {{"pid"}, Tasks}
           \/ op = Exit4 /\ running = Tasks
           \/ op \in {Exit5, Exit6} /\ Flies

\* Between any two stores the parts are as far as the operation has got, and at
\* its end they agree.
ModeInv == AtRest \/ Replying \/ Testing \/ Entering \/ Leaving

(***************************************************************************)
(* From point to point                                                     *)
(***************************************************************************)

\* The first store of each point of a test, and what is left behind it.
LEMMA TestPoints ==
  /\ StopStores # <<>> /\ Head(StopStores) = "idle" /\ Tail(StopStores) = <<>>
  /\ StopZero # <<>> /\ Head(StopZero) = "zero" /\ Tail(StopZero) = <<>>
  /\ StartStores # <<>> /\ Head(StartStores) = "idle" /\ Tail(StartStores) = Start2
  /\ StartZero # <<>> /\ Head(StartZero) = "zero" /\ Tail(StartZero) = Start2
  /\ Start2 # <<>> /\ Head(Start2) = "fields" /\ Tail(Start2) = Start3
  /\ Start3 # <<>> /\ Head(Start3) = "spin" /\ Tail(Start3) = <<>>
  /\ [StopStores EXCEPT ![1] = "zero"] = StopZero
  /\ [StartStores EXCEPT ![1] = "zero"] = StartZero
BY DEF StopStores, StopZero, StartStores, StartZero, Start2, Start3

\* ... of entering passthrough,
LEMMA EnterPoints ==
  /\ EnterStores # <<>> /\ Head(EnterStores) = "passthrough" /\ Tail(EnterStores) = Enter2
  /\ Enter2 # <<>> /\ Head(Enter2) = "suspendPid" /\ Tail(Enter2) = Enter3
  /\ Enter3 # <<>> /\ Head(Enter3) = "suspendRx" /\ Tail(Enter3) = Enter4
  /\ Enter4 # <<>> /\ Head(Enter4) = "bypass" /\ Tail(Enter4) = Enter5
  /\ Enter5 # <<>> /\ Head(Enter5) = "idle" /\ Tail(Enter5) = Enter6
  /\ EnterZero # <<>> /\ Head(EnterZero) = "zero" /\ Tail(EnterZero) = Enter6
  /\ Enter6 # <<>> /\ Head(Enter6) = "wire" /\ Tail(Enter6) = Enter7
  /\ Enter7 # <<>> /\ Head(Enter7) = "modePassthrough" /\ Tail(Enter7) = <<>>
  /\ [Enter5 EXCEPT ![1] = "zero"] = EnterZero
<1>1. EnterStores # <<>> /\ Head(EnterStores) = "passthrough" /\ Tail(EnterStores) = Enter2
  BY DEF EnterStores, Enter2
<1>2. Enter2 # <<>> /\ Head(Enter2) = "suspendPid" /\ Tail(Enter2) = Enter3
  BY DEF Enter2, Enter3
<1>3. Enter3 # <<>> /\ Head(Enter3) = "suspendRx" /\ Tail(Enter3) = Enter4
  BY DEF Enter3, Enter4
<1>4. Enter4 # <<>> /\ Head(Enter4) = "bypass" /\ Tail(Enter4) = Enter5
  BY DEF Enter4, Enter5
<1>5. Enter5 # <<>> /\ Head(Enter5) = "idle" /\ Tail(Enter5) = Enter6
  BY DEF Enter5, Enter6
<1>6. EnterZero # <<>> /\ Head(EnterZero) = "zero" /\ Tail(EnterZero) = Enter6
  BY DEF EnterZero, Enter6
<1>7. Enter6 # <<>> /\ Head(Enter6) = "wire" /\ Tail(Enter6) = Enter7
  BY DEF Enter6, Enter7
<1>8. Enter7 # <<>> /\ Head(Enter7) = "modePassthrough" /\ Tail(Enter7) = <<>>
  BY DEF Enter7
<1>9. [Enter5 EXCEPT ![1] = "zero"] = EnterZero
  BY DEF Enter5, EnterZero
<1> QED
  BY <1>1, <1>2, <1>3, <1>4, <1>5, <1>6, <1>7, <1>8, <1>9

\* ... of leaving it,
LEMMA ExitPoints ==
  /\ ExitStores # <<>> /\ Head(ExitStores) = "ready" /\ Tail(ExitStores) = Exit2
  /\ Exit2 # <<>> /\ Head(Exit2) = "resumePid" /\ Tail(Exit2) = Exit3
  /\ Exit3 # <<>> /\ Head(Exit3) = "resumeRx" /\ Tail(Exit3) = Exit4
  /\ Exit4 # <<>> /\ Head(Exit4) = "drive" /\ Tail(Exit4) = Exit5
  /\ Exit5 # <<>> /\ Head(Exit5) = "unwire" /\ Tail(Exit5) = Exit6
  /\ Exit6 # <<>> /\ Head(Exit6) = "modeTerminal" /\ Tail(Exit6) = ReplyStores
<1>1. ExitStores # <<>> /\ Head(ExitStores) = "ready" /\ Tail(ExitStores) = Exit2
  BY DEF ExitStores, Exit2
<1>2. Exit2 # <<>> /\ Head(Exit2) = "resumePid" /\ Tail(Exit2) = Exit3
  BY DEF Exit2, Exit3
<1>3. Exit3 # <<>> /\ Head(Exit3) = "resumeRx" /\ Tail(Exit3) = Exit4
  BY DEF Exit3, Exit4
<1>4. Exit4 # <<>> /\ Head(Exit4) = "drive" /\ Tail(Exit4) = Exit5
  BY DEF Exit4, Exit5
<1>5. Exit5 # <<>> /\ Head(Exit5) = "unwire" /\ Tail(Exit5) = Exit6
  BY DEF Exit5, Exit6
<1>6. Exit6 # <<>> /\ Head(Exit6) = "modeTerminal" /\ Tail(Exit6) = ReplyStores
  BY DEF Exit6, ReplyStores
<1> QED
  BY <1>1, <1>2, <1>3, <1>4, <1>5, <1>6

\* ... and of work on an ESC, with its answer.
LEMMA DevicePoints ==
  /\ DeviceStores # <<>> /\ Head(DeviceStores) = "quiet" /\ Tail(DeviceStores) = Device2
  /\ Device2 # <<>> /\ Head(Device2) = "reset" /\ Tail(Device2) = Device3
  /\ Device3 # <<>> /\ Head(Device3) = "connect" /\ Tail(Device3) = Device4
  /\ Device4 # <<>> /\ Head(Device4) = "transact" /\ Tail(Device4) = GivenUp
  /\ NoDevice # <<>> /\ Head(NoDevice) = "quiet" /\ Tail(NoDevice) = GivenUp
  /\ GivenUp # <<>> /\ Head(GivenUp) = "loud" /\ Tail(GivenUp) = ReplyStores
  /\ ReplyStores # <<>> /\ Head(ReplyStores) = "reply" /\ Tail(ReplyStores) = <<>>
BY DEF DeviceStores, Device2, Device3, Device4, NoDevice, GivenUp, ReplyStores

(***************************************************************************)
(* What one store does                                                     *)
(***************************************************************************)

\* What is left of the operation behind a store.
LEMMA StoreMovesOn ==
  ASSUME SerialStore
  PROVE  /\ op # <<>> /\ draining' = draining
         /\ Head(op) = "idle" =>
              op' = IF test = "IDLE" THEN Tail(op) ELSE [op EXCEPT ![1] = "zero"]
         /\ Head(op) \in {"reset", "connect"} => op' \in {Tail(op), GivenUp}
         /\ Head(op) \notin {"idle", "reset", "connect"} => op' = Tail(op)
BY DEF SerialStore, StoreIdle, StoreZero, StoreFields, StoreSpin, StoreSystem,
   StoreTasks, StoreBypass, StoreWire, StoreMode, StoreQuiet, WireStep, StoreReply,
   Next1, GivenUp, ReplyStores, Rest

\* The parts that a store changes, by its name.
LEMMA StoreChanges ==
  ASSUME SerialStore
  PROVE  /\ system' = CASE Head(op) = "passthrough" -> "ESC_PASSTHROUGH"
                        [] Head(op) = "ready" -> "READY"
                        [] OTHER -> system
         /\ running' = CASE Head(op) = "suspendPid" -> running \ {"pid"}
                         [] Head(op) = "suspendRx" -> running \ {"rx"}
                         [] Head(op) = "resumePid" -> running \cup {"pid"}
                         [] Head(op) = "resumeRx" -> running \cup {"rx"}
                         [] OTHER -> running
         /\ bypass' = CASE Head(op) = "bypass" -> TRUE
                        [] Head(op) = "drive" -> FALSE
                        [] OTHER -> bypass
         /\ mode' = CASE Head(op) = "modePassthrough" -> "PASSTHROUGH"
                      [] Head(op) = "modeTerminal" -> "TERMINAL"
                      [] OTHER -> mode
         /\ quiet' = CASE Head(op) = "quiet" -> TRUE
                       [] Head(op) = "loud" -> FALSE
                       [] OTHER -> quiet
         /\ Head(op) = "idle" => test' = "IDLE"
         /\ Head(op) \notin {"idle", "spin"} => test' = test
<1>1. ASSUME StoreIdle \/ StoreZero \/ StoreFields \/ StoreSpin PROVE 
         /\ UNCHANGED <<system, running, bypass, mode, quiet>>
         /\ Head(op) \in {"idle", "zero", "fields", "spin"}
         /\ Head(op) = "idle" => test' = "IDLE"
         /\ Head(op) \notin {"idle", "spin"} => test' = test
  BY <1>1 DEF StoreIdle, StoreZero, StoreFields, StoreSpin, Next1, ClearTest, line, bench
<1> QED
  BY <1>1 DEF SerialStore, StoreSystem,
   StoreTasks, StoreBypass, StoreWire, StoreMode, StoreQuiet, WireStep, StoreReply,
   Next1, bench, line, serial

(***************************************************************************)
(* The parts agree on the mode                                             *)
(***************************************************************************)

\* Starting or stopping a test leaves the mode alone.
LEMMA TestingStore ==
  ASSUME Testing, SerialStore
  PROVE  Testing' \/ AtRest'
<1> USE DEF Testing, AtRest, Idle, Settled, Flies
<1>1. CASE op = StopStores
  BY <1>1, TestPoints, StoreMovesOn, StoreChanges
<1>2. CASE op = StartStores
  BY <1>2, TestPoints, StoreMovesOn, StoreChanges
<1>3. CASE op = StopZero
  BY <1>3, TestPoints, StoreMovesOn, StoreChanges
<1>4. CASE op = StartZero
  BY <1>4, TestPoints, StoreMovesOn, StoreChanges
<1>5. CASE op = Start2
  BY <1>5, TestPoints, StoreMovesOn, StoreChanges
<1>6. CASE op = Start3
  BY <1>6, TestPoints, StoreMovesOn, StoreChanges
<1> QED
  BY <1>1, <1>2, <1>3, <1>4, <1>5, <1>6

\* Entering passthrough ends with all parts in passthrough.
LEMMA EnteringStore ==
  ASSUME Entering, SerialStore
  PROVE  Entering' \/ AtRest'
<1> USE DEF Entering, AtRest, Idle, Settled, Flies, Bridges, Tasks
<1>1. CASE op = EnterStores
  BY <1>1, EnterPoints, StoreMovesOn, StoreChanges
<1>2. CASE op = Enter2
  BY <1>2, EnterPoints, StoreMovesOn, StoreChanges
<1>3. CASE op = Enter3
  BY <1>3, EnterPoints, StoreMovesOn, StoreChanges
<1>4. CASE op = Enter4
  BY <1>4, EnterPoints, StoreMovesOn, StoreChanges
<1>5. CASE op = Enter5
  BY <1>5, EnterPoints, StoreMovesOn, StoreChanges
<1>6. CASE op = EnterZero
  BY <1>6, EnterPoints, StoreMovesOn, StoreChanges
<1>7. CASE op = Enter6
  BY <1>7, EnterPoints, StoreMovesOn, StoreChanges
<1>8. CASE op = Enter7
  BY <1>8, EnterPoints, StoreMovesOn, StoreChanges
<1> QED
  BY <1>1, <1>2, <1>3, <1>4, <1>5, <1>6, <1>7, <1>8

\* Leaving it ends with all parts in the terminal, and then answers.
LEMMA LeavingStore ==
  ASSUME Leaving, SerialStore
  PROVE  Leaving' \/ Replying'
<1> USE DEF Leaving, Replying, Settled, Flies, Bridges, Tasks
<1>1. CASE op = ExitStores
  BY <1>1, ExitPoints, StoreMovesOn, StoreChanges
<1>2. CASE op = Exit2
  BY <1>2, ExitPoints, StoreMovesOn, StoreChanges
<1>3. CASE op = Exit3
  BY <1>3, ExitPoints, StoreMovesOn, StoreChanges
<1>4. CASE op = Exit4
  BY <1>4, ExitPoints, StoreMovesOn, StoreChanges
<1>5. CASE op = Exit5
  BY <1>5, ExitPoints, StoreMovesOn, StoreChanges
<1>6. CASE op = Exit6
  BY <1>6, ExitPoints, StoreMovesOn, StoreChanges
<1> QED
  BY <1>1, <1>2, <1>3, <1>4, <1>5, <1>6

\* Work on an ESC leaves the mode alone and turns the log on again.
LEMMA ReplyingStore ==
  ASSUME Replying, SerialStore
  PROVE  Replying' \/ AtRest'
<1> USE DEF Replying, AtRest, Idle, Settled, Flies, Bridges
<1>1. CASE op \in {DeviceStores, NoDevice}
  BY <1>1, DevicePoints, StoreMovesOn, StoreChanges
<1>2. CASE op \in {Device2, Device3, Device4}
  BY <1>2, DevicePoints, StoreMovesOn, StoreChanges
<1>3. CASE op = GivenUp
  BY <1>3, DevicePoints, StoreMovesOn, StoreChanges
<1>4. CASE op = ReplyStores
  BY <1>4, DevicePoints, StoreMovesOn, StoreChanges
<1> QED
  BY <1>1, <1>2, <1>3, <1>4

\* Without a store left, no operation is under way.
LEMMA RestIsSettled ==
  ASSUME ModeInv, Idle
  PROVE  AtRest
BY TestPoints, EnterPoints, ExitPoints, DevicePoints
   DEF ModeInv, Idle, Replying, Testing, Entering, Leaving

\* Lines, frames and silences are taken between two operations only, and start
\* an operation that fits the mode; the other tasks do not touch it.
LEMMA ModeNext ==
  ASSUME ModeInv, [Next]_vars
  PROVE  ModeInv'
<1> USE DEF ModeInv
<1>1. ASSUME UNCHANGED <<op, mode, system, running, bypass, quiet>>,
             test = "IDLE" => test' = "IDLE", draining' => draining
      PROVE  ModeInv'
  BY <1>1 DEF AtRest, Replying, Testing, Entering, Leaving, Idle, Settled, Flies, Bridges
<1>2. CASE Transmitter \/ RxRun \/ PidRun \/ MotorRun \/ MotorThrottle \/ Drained
           \/ UNCHANGED vars
  BY <1>1, <1>2 DEF Transmitter, RxRun, PidRun, MotorRun, MotorTestEnds, MotorTestRuns,
     MotorFlies, MotorThrottle, Drained, ClearTest, vars, serial, bench, line
<1>3. Idle => AtRest
  BY RestIsSettled
<1>4. CASE MotorTest \/ MotorStop
  BY <1>3, <1>4 DEF MotorTest, MotorStop, Line, Begin, AtRest, Settled, Testing, Flies,
     bench, line
<1>5. CASE EnterEscPassthrough
  BY <1>3, <1>5 DEF EnterEscPassthrough, Line, Begin, AtRest, Settled, Entering, Flies,
     bench, line
<1>6. CASE FourWayExit \/ FourWayQuery \/ FourWayDevice
  <2>1. AtRest /\ mode # "MSP"
    BY <1>3, <1>6 DEF FourWayExit, FourWayQuery, FourWayDevice, Reads4Way, AtRest
  <2>2. CASE FourWayExit
    BY <2>1, <2>2 DEF FourWayExit, AtRest, Settled, Leaving, Flies, Bridges, bench, line
  <2>3. CASE FourWayQuery
    BY <2>1, <2>3 DEF FourWayQuery, AtRest, Settled, Replying, Flies, Bridges, bench, line
  <2>4. CASE FourWayDevice
    BY <2>1, <2>4 DEF FourWayDevice, AtRest, Settled, Replying, Flies, Bridges, bench
  <2> QED
    BY <1>6, <2>2, <2>3, <2>4
<1>7. CASE MspHeader \/ MspTimeout
  BY <1>3, <1>7 DEF MspHeader, MspTimeout, Line, AtRest, Settled, Flies, Bridges, Idle,
     Replying, Testing, Entering, Leaving, bench, line
<1>8. CASE SerialStore
  BY <1>8, TestingStore, EnteringStore, LeavingStore, ReplyingStore, StoreMovesOn
     DEF AtRest, Idle
<1> QED
  BY <1>2, <1>4, <1>5, <1>6, <1>7, <1>8 DEF Next

\* Every behaviour keeps the parts as far as the operation has got.
LEMMA ModeCorrect == Spec => []ModeInv
<1>1. Init => ModeInv
  BY DEF Init, ModeInv, AtRest, Idle, Settled, Flies
<1>2. ModeInv /\ [Next]_vars => ModeInv'
  BY ModeNext
<1> QED
  BY <1>1, <1>2, PTL DEF Spec

\* Between two serial operations system state, serial mode, bypass, tasks and
\* test agree, and the log is on.
THEOREM ModesAlwaysAgree == Spec => []ModesAgree
<1>1. ModeInv /\ Idle => AtRest
  BY RestIsSettled
<1>2. AtRest => ModesAgree
  <2>1. AtRest /\ mode = "PASSTHROUGH" => ModesAgree
    BY DEF AtRest, ModesAgree, Settled, Bridges
  <2>2. AtRest /\ mode # "PASSTHROUGH" => ModesAgree
    BY DEF AtRest, ModesAgree, Settled, Flies
  <2> QED
    BY <2>1, <2>2
<1>3. ModeInv => ModesAgree
  BY <1>1, <1>2 DEF ModesAgree
<1> QED
  BY <1>3, ModeCorrect, PTL

(***************************************************************************)
(* A test throttle is the motor's own                                      *)
(***************************************************************************)

\* Every motor but the first keeps its driver.
DriversOK ==
  /\ driver \in [Motors -> BOOLEAN] /\ DOMAIN frame = Motors /\ wired \in Motors
  /\ \A i \in Motors \ {0} : driver[i]

\* The test that is on, or about to be, is the one that was asked for last.
TestAsAsked ==
  (test # "IDLE" /\ op # StartStores) \/ op = Start3 =>
    testing.motor = args.motor /\ testing.throttle = args.throttle

Zeroing == op \in {StopZero, StartZero, EnterZero}

\* A test throttle is on the motor of the test, or about to be zeroed, and on no
\* motor while the first has no driver: MotorTask stands still then.
Driven(i) == driver[0] /\ (Zeroing \/ (test # "IDLE" /\ i = testing.motor
                                       /\ frame[i] = testing.throttle))
FramesAsTested == \A i \in Motors : frame[i] \in Throttles => Driven(i)

TestInv == DriversOK /\ TestAsAsked /\ FramesAsTested

\* The stores that come next in each kind of operation.
LEMMA NextStores ==
  /\ Entering => \/ Head(op) \in {"passthrough", "suspendPid", "suspendRx", "bypass",
                                  "wire", "modePassthrough"}
                 \/ op = Enter5 \/ op = EnterZero
  /\ Leaving => Head(op) \in {"ready", "resumePid", "resumeRx", "drive", "unwire",
                              "modeTerminal"}
  /\ Replying => Head(op) \in {"quiet", "reset", "connect", "transact", "loud", "reply"}
<1>1. ASSUME Entering
      PROVE  \/ Head(op) \in {"passthrough", "suspendPid", "suspendRx", "bypass",
                              "wire", "modePassthrough"}
             \/ op = Enter5 \/ op = EnterZero
  <2>1. op = EnterStores \/ op = Enter2 \/ op = Enter3 \/ op = Enter4 =>
          Head(op) \in {"passthrough", "suspendPid", "suspendRx", "bypass"}
    BY EnterPoints, Zenon
  <2>2. op = Enter6 \/ op = Enter7 => Head(op) \in {"wire", "modePassthrough"}
    BY EnterPoints, Zenon
  <2> QED
    BY <1>1, <2>1, <2>2 DEF Entering
<1>2. ASSUME Leaving
      PROVE  Head(op) \in {"ready", "resumePid", "resumeRx", "drive", "unwire",
                           "modeTerminal"}
  <2>1. op = ExitStores \/ op = Exit2 \/ op = Exit3 =>
          Head(op) \in {"ready", "resumePid", "resumeRx"}
    BY ExitPoints, Zenon
  <2>2. op = Exit4 \/ op = Exit5 \/ op = Exit6 =>
          Head(op) \in {"drive", "unwire", "modeTerminal"}
    BY ExitPoints, Zenon
  <2> QED
    BY <1>2, <2>1, <2>2 DEF Leaving
<1>3. ASSUME Replying
      PROVE  Head(op) \in {"quiet", "reset", "connect", "transact", "loud", "reply"}
  <2>1. op = DeviceStores \/ op = NoDevice \/ op = GivenUp \/ op = ReplyStores =>
          Head(op) \in {"quiet", "loud", "reply"}
    BY DevicePoints, Zenon
  <2>2. op = Device2 \/ op = Device3 \/ op = Device4 =>
          Head(op) \in {"reset", "connect", "transact"}
    BY DevicePoints, Zenon
  <2> QED
    BY <1>3, <2>1, <2>2 DEF Replying
<1> QED
  BY <1>1, <1>2, <1>3

\* Which point has which first store: the ones that clear a test, those that
\* zero the motors, and the two that set up a test.
LEMMA StoresOfTests ==
  ASSUME ModeInv, op # <<>>
  PROVE  /\ Head(op) = "idle" => op \in {StopStores, StartStores, Enter5}
         /\ Head(op) = "zero" <=> Zeroing
         /\ Head(op) = "fields" <=> op = Start2
         /\ Head(op) = "spin" <=> op = Start3
         /\ op = StartStores => Head(op) = "idle"
<1>1. /\ Zeroing => Head(op) = "zero"
      /\ op = Start2 => Head(op) = "fields"
      /\ op = Start3 => Head(op) = "spin"
      /\ op = StartStores => Head(op) = "idle"
      /\ op = Enter5 => Head(op) = "idle"
  BY TestPoints, EnterPoints DEF Zeroing
<1>2. CASE Testing
  <2>1. CASE op = StopStores \/ op = StartStores
    BY <1>1, <2>1, TestPoints
  <2>2. CASE op = StopZero \/ op = StartZero
    BY <1>1, <2>2, TestPoints DEF Zeroing
  <2>3. CASE op = Start2 \/ op = Start3
    BY <1>1, <2>3, TestPoints
  <2> QED
    BY <1>2, <2>1, <2>2, <2>3 DEF Testing
<1>3. CASE Entering
  BY <1>1, <1>3, NextStores DEF Zeroing
<1>4. CASE Leaving \/ Replying
  BY <1>1, <1>4, NextStores
<1> QED
  BY <1>1, <1>2, <1>3, <1>4 DEF ModeInv, AtRest, Idle

\* Behind the first store of a test, none is on until the last, and none while
\* the motors are zeroed.
LEMMA NoTestYet ==
  ASSUME ModeInv, Zeroing \/ op = Start2 \/ op = Start3
  PROVE  test = "IDLE"
<1>1. /\ op # <<>> /\ Head(op) \in {"zero", "fields", "spin"}
      /\ op # StopStores /\ op # StartStores
  BY TestPoints, EnterPoints DEF Zeroing
<1>2. CASE Testing
  BY <1>1, <1>2 DEF Testing
<1>3. CASE Entering
  <2>1. op # EnterStores /\ op # Enter2 /\ op # Enter3 /\ op # Enter4 /\ op # Enter5
    BY <1>1, EnterPoints
  <2> QED
    BY <1>3, <2>1 DEF Entering, Bridges
<1>4. ~Leaving /\ ~Replying /\ ~AtRest
  BY <1>1, NextStores DEF AtRest, Idle
<1> QED
  BY <1>2, <1>3, <1>4 DEF ModeInv

\* The first motor is only taken from its driver when no test is on.
LEMMA NoTestToWire ==
  ASSUME ModeInv, op # <<>>, Head(op) = "wire"
  PROVE  test = "IDLE"
<1>1. ~Testing
  BY TestPoints DEF Testing
<1>2. ~Leaving /\ ~Replying /\ ~AtRest
  BY NextStores DEF AtRest, Idle
<1>3. op # EnterStores /\ op # Enter2 /\ op # Enter3 /\ op # Enter4 /\ op # Enter5
  BY EnterPoints
<1> QED
  BY <1>1, <1>2, <1>3 DEF ModeInv, Entering, Bridges

\* Only the second store of a test is followed by its last one, and no store by
\* the first one.
LEMMA SpinFollowsFields ==
  ASSUME ModeInv, SerialStore
  PROVE  /\ Head(op) # "fields" => op' # Start3
         /\ op' # StartStores
<1> DEFINE Fine(o) == o # Start3 /\ o # StartStores
<1>1. \A o : o = <<>> \/ Head(o) \notin {"spin", "idle"} => Fine(o)
  BY TestPoints
<1>2. op # <<>>
  BY StoreMovesOn
<1>3. Start3 # StartStores /\ Enter5 # Start3 /\ Enter5 # StartStores
  <2>1. Start3 # StartStores /\ Enter5 # Start3
    BY TestPoints, EnterPoints
  <2>2. Enter5[2] # StartStores[2]
    BY DEF Enter5, StartStores
  <2> QED
    BY <2>1, <2>2
<1>4. CASE Testing
  <2>1. CASE op = StopStores \/ op = StartStores
    BY <1>1, <2>1, TestPoints, StoreMovesOn
  <2>2. CASE op = StopZero \/ op = StartZero
    BY <1>1, <2>2, TestPoints, StoreMovesOn
  <2>3. CASE op = Start2 \/ op = Start3
    BY <1>1, <1>3, <2>3, TestPoints, StoreMovesOn
  <2> QED
    BY <1>4, <2>1, <2>2, <2>3 DEF Testing
<1>5. CASE Entering
  <2>1. CASE op = EnterStores
    BY <1>1, <2>1, EnterPoints, StoreMovesOn
  <2>2. CASE op = Enter2
    BY <1>1, <2>2, EnterPoints, StoreMovesOn
  <2>3. CASE op = Enter3
    BY <1>1, <2>3, EnterPoints, StoreMovesOn
  <2>4. CASE op = Enter4
    BY <1>3, <2>4, EnterPoints, StoreMovesOn
  <2>5. CASE op = Enter5
    <3>1. op' = Enter6 \/ op' = EnterZero
      BY <2>5, EnterPoints, StoreMovesOn
    <3>2. Fine(Enter6)
      BY <1>1, EnterPoints
    <3>3. Fine(EnterZero)
      BY <1>1, EnterPoints
    <3> QED
      BY <3>1, <3>2, <3>3
  <2>6. CASE op = EnterZero
    <3>1. op' = Enter6
      BY <2>6, EnterPoints, StoreMovesOn
    <3> QED
      BY <1>1, <3>1, EnterPoints
  <2>7. CASE op = Enter6
    BY <1>1, <2>7, EnterPoints, StoreMovesOn
  <2>8. CASE op = Enter7
    <3>1. op' = <<>>
      BY <2>8, EnterPoints, StoreMovesOn
    <3> QED
      BY <1>1, <3>1
  <2> QED
    BY <1>5, <2>1, <2>2, <2>3, <2>4, <2>5, <2>6, <2>7, <2>8 DEF Entering
<1>6. CASE Leaving
  <2>1. CASE op = ExitStores
    BY <1>1, <2>1, ExitPoints, StoreMovesOn
  <2>2. CASE op = Exit2
    BY <1>1, <2>2, ExitPoints, StoreMovesOn
  <2>3. CASE op = Exit3
    BY <1>1, <2>3, ExitPoints, StoreMovesOn
  <2>4. CASE op = Exit4
    BY <1>1, <2>4, ExitPoints, StoreMovesOn
  <2>5. CASE op = Exit5
    BY <1>1, <2>5, ExitPoints, StoreMovesOn
  <2>6. CASE op = Exit6
    <3>1. op' = ReplyStores
      BY <2>6, ExitPoints, StoreMovesOn
    <3> QED
      BY <1>1, <3>1, DevicePoints
  <2> QED
    BY <1>6, <2>1, <2>2, <2>3, <2>4, <2>5, <2>6 DEF Leaving
<1>7. CASE Replying
  <2>1. CASE op = DeviceStores \/ op = NoDevice
    BY <1>1, <2>1, DevicePoints, StoreMovesOn
  <2>2. CASE op = Device2 \/ op = Device3
    BY <1>1, <2>2, DevicePoints, StoreMovesOn
  <2>3. CASE op = Device4
    <3>1. op' = GivenUp
      BY <2>3, DevicePoints, StoreMovesOn
    <3> QED
      BY <1>1, <3>1, DevicePoints
  <2>4. CASE op = GivenUp \/ op = ReplyStores
    BY <1>1, <2>4, DevicePoints, StoreMovesOn
  <2> QED
    BY <1>7, <2>1, <2>2, <2>3, <2>4 DEF Replying
<1> QED
  BY <1>2, <1>4, <1>5, <1>6, <1>7 DEF ModeInv, AtRest, Idle

\* With all drivers there, what is sent arrives.
LEMMA SentToAll ==
  ASSUME DriversOK, driver[0], NEW f, frame' = Sent(f)
  PROVE  DOMAIN frame' = Motors /\ \A i \in Motors : frame'[i] = f[i]
BY DEF DriversOK, Sent

\* No motor has a test throttle when no test is on and none is to be zeroed.
LEMMA NoThrottleLeft ==
  ASSUME TestInv, ~Zeroing, test = "IDLE" \/ ~driver[0]
  PROVE  \A i \in Motors : frame[i] \notin Throttles
BY DEF TestInv, FramesAsTested, Driven

\* The frames of an iteration without a test are no test throttles.
LEMMA PlainFrames ==
  \A i \in Motors : Off[i] \notin Throttles /\ PidFrames[i] \notin Throttles
BY MotorAssumption DEF Off, PidFrames

\* An iteration of MotorTask sends the throttle of the test to its motor alone.
LEMMA TestMotorRun ==
  ASSUME ModeInv, TestInv, MotorRun
  PROVE  TestInv'
<1>1. DriversOK /\ driver[0]
  BY DEF TestInv, MotorRun, MotorTestEnds, MotorTestRuns, MotorFlies, Drives
<1>2. UNCHANGED <<driver, wired, op, args>>
  BY DEF MotorRun, MotorTestEnds, MotorTestRuns, MotorFlies, line, serial
<1>3. DriversOK'
  <2>1. DOMAIN frame' = Motors
    BY DEF MotorRun, MotorTestEnds, MotorTestRuns, MotorFlies, Sent
  <2> QED
    BY <1>1, <1>2, <2>1 DEF DriversOK
<1>4. CASE MotorTestEnds
  <2>1. \A i \in Motors : frame'[i] \notin Throttles
    BY <1>1, <1>4, SentToAll, PlainFrames DEF MotorTestEnds
  <2>2. test # "IDLE" /\ test' = "IDLE"
    BY <1>4 DEF MotorTestEnds, Expired, ClearTest
  <2>3. op # Start3
    BY <2>2, NoTestYet
  <2> QED
    BY <1>2, <1>3, <2>1, <2>2, <2>3 DEF TestInv, TestAsAsked, FramesAsTested
<1>5. CASE MotorTestRuns
  <2>1. UNCHANGED <<test, testing>> /\ test # "IDLE"
    BY <1>5 DEF MotorTestRuns
  <2>2. \A i \in Motors : frame'[i] = TestFrames[i]
    BY <1>1, <1>5, SentToAll DEF MotorTestRuns
  <2>3. \A i \in Motors : frame'[i] \in Throttles =>
          i = testing.motor /\ frame'[i] = testing.throttle
    BY <2>2, MotorAssumption DEF TestFrames
  <2> QED
    BY <1>1, <1>2, <1>3, <2>1, <2>3
       DEF TestInv, TestAsAsked, FramesAsTested, Driven
<1>6. CASE MotorFlies
  <2>1. \A i \in Motors : frame'[i] \notin Throttles
    BY <1>1, <1>6, SentToAll, PlainFrames DEF MotorFlies
  <2>2. UNCHANGED <<test, testing>>
    BY <1>6 DEF MotorFlies, bench
  <2> QED
    BY <1>2, <1>3, <2>1, <2>2 DEF TestInv, TestAsAsked, FramesAsTested
<1> QED
  BY <1>4, <1>5, <1>6 DEF MotorRun

\* The stores of a serial operation clear the old test, zero the motors, name
\* the new test and only then let it spin.
LEMMA TestStore ==
  ASSUME ModeInv, TestInv, SerialStore
  PROVE  TestInv'
<1>1. op # <<>> /\ op' # StartStores /\ args' = args
      /\ (Head(op) # "fields" => op' # Start3)
  BY StoreMovesOn, SpinFollowsFields DEF SerialStore, StoreIdle, StoreZero,
     StoreFields, StoreSpin, StoreSystem, StoreTasks, StoreBypass, StoreWire,
     StoreMode, StoreQuiet, WireStep, StoreReply, Rest
<1>2. ASSUME StoreIdle PROVE TestInv'
  <2>1. /\ Head(op) = "idle" /\ test' = "IDLE" /\ ~Zeroing
        /\ UNCHANGED <<driver, frame, wired>>
    BY <1>1, <1>2, StoresOfTests DEF StoreIdle, ClearTest, line
  <2>2. CASE test = "IDLE"
    <3>1. \A i \in Motors : frame'[i] \notin Throttles
      BY <2>1, <2>2, NoThrottleLeft
    <3> QED
      BY <1>1, <2>1, <3>1 DEF TestInv, DriversOK, TestAsAsked, FramesAsTested
  <2>3. CASE test # "IDLE"
    <3>1. Zeroing'
      BY <1>1, <1>2, <2>1, <2>3, StoresOfTests, TestPoints, EnterPoints
         DEF StoreIdle, Zeroing
    <3>2. \A i \in Motors : frame[i] \in Throttles => driver[0]
      BY DEF TestInv, FramesAsTested, Driven
    <3> QED
      BY <1>1, <2>1, <3>1, <3>2
         DEF TestInv, DriversOK, TestAsAsked, FramesAsTested, Driven
  <2> QED
    BY <2>2, <2>3
<1>3. ASSUME StoreZero PROVE TestInv'
  <2>1. /\ Head(op) = "zero" /\ frame' = Sent(Off)
        /\ UNCHANGED <<driver, wired, test, testing>>
    BY <1>3 DEF StoreZero, Next1, line, bench
  <2>2. DOMAIN frame' = Motors
    BY <2>1 DEF Sent
  <2>3. \A i \in Motors : frame'[i] \notin Throttles
    <3>1. CASE driver[0]
      BY <2>1, <3>1, SentToAll, PlainFrames DEF TestInv
    <3>2. CASE ~driver[0]
      BY <2>1, <3>2, PlainFrames DEF TestInv, FramesAsTested, Driven, Sent
    <3> QED
      BY <3>1, <3>2
  <2>4. test = "IDLE"
    <3>1. Zeroing
      BY <1>1, <2>1, StoresOfTests
    <3> QED
      BY <3>1, NoTestYet
  <2> QED
    BY <1>1, <2>1, <2>2, <2>3, <2>4 DEF TestInv, DriversOK, TestAsAsked, FramesAsTested
<1>4. ASSUME StoreFields \/ StoreSpin PROVE TestInv'
  <2>1. op \in {Start2, Start3} /\ UNCHANGED <<driver, frame, wired>>
    BY <1>1, <1>4, StoresOfTests DEF StoreFields, StoreSpin, Next1, line
  <2>2. test = "IDLE" /\ ~Zeroing
    <3>1. Head(op) # "zero"
      BY <2>1, TestPoints
    <3> QED
      BY <1>1, <2>1, <3>1, StoresOfTests, NoTestYet
  <2>3. \A i \in Motors : frame'[i] \notin Throttles
    BY <2>1, <2>2, NoThrottleLeft
  <2>4. testing'.motor = args'.motor /\ testing'.throttle = args'.throttle
    <3>1. CASE StoreFields
      BY <1>1, <3>1 DEF StoreFields
    <3>2. CASE StoreSpin
      BY <1>1, <3>2, StoresOfTests DEF StoreSpin, Next1, TestInv, TestAsAsked
    <3> QED
      BY <1>4, <3>1, <3>2
  <2> QED
    BY <2>1, <2>3, <2>4 DEF TestInv, DriversOK, TestAsAsked, FramesAsTested
<1>5. ASSUME UNCHANGED <<frame, test, testing>>, ~Zeroing, Head(op) \notin {"idle", "fields", "spin"},
             DriversOK', driver'[0] \/ test = "IDLE" \/ ~driver[0]
      PROVE  TestInv'
  <2>1. op # StartStores
    BY <1>1, <1>5, StoresOfTests
  <2>2. TestAsAsked'
    BY <1>1, <1>5, <2>1 DEF TestInv, TestAsAsked
  <2>3. FramesAsTested'
    <3>1. CASE test = "IDLE" \/ ~driver[0]
      BY <1>5, <3>1, NoThrottleLeft DEF FramesAsTested
    <3>2. CASE driver'[0]
      BY <1>5, <3>2 DEF TestInv, FramesAsTested, Driven
    <3> QED
      BY <1>5, <3>1, <3>2
  <2> QED
    BY <1>5, <2>2, <2>3 DEF TestInv
<1>6. ASSUME StoreWire PROVE TestInv'
  <2>1. /\ Head(op) \in {"wire", "unwire"} /\ ~Zeroing /\ UNCHANGED <<frame, test, testing>>
    BY <1>1, <1>6, StoresOfTests DEF StoreWire, Next1, bench
  <2>2. DriversOK'
    BY <1>6, <2>1, MotorAssumption DEF StoreWire, TestInv, DriversOK
  <2>3. Head(op) = "wire" => test = "IDLE"
    BY <1>1, NoTestToWire
  <2>4. Head(op) = "unwire" => driver'[0] \/ ~driver[0]
    BY <1>6, MotorAssumption DEF StoreWire, Next1, TestInv, DriversOK
  <2> QED
    BY <1>5, <2>1, <2>2, <2>3, <2>4
<1>7. ASSUME StoreSystem \/ StoreTasks \/ StoreBypass \/ StoreMode \/ StoreQuiet
             \/ WireStep \/ StoreReply
      PROVE  TestInv'
  <2>1. UNCHANGED <<driver, wired, frame, test, testing>>
    BY <1>7 DEF StoreSystem, StoreTasks, StoreBypass, StoreMode, StoreQuiet, WireStep,
       StoreReply, line, bench
  <2>2. Head(op) \notin {"idle", "zero", "fields", "spin"}
    BY <1>7 DEF StoreSystem, StoreTasks, StoreBypass, StoreMode, StoreQuiet, WireStep,
       StoreReply, Next1
  <2>3. ~Zeroing
    BY <1>1, <2>2, StoresOfTests
  <2>4. driver[0] \in BOOLEAN
    BY MotorAssumption DEF TestInv, DriversOK
  <2> QED
    BY <1>5, <2>1, <2>2, <2>3, <2>4 DEF TestInv, DriversOK
<1> QED
  BY <1>2, <1>3, <1>4, <1>6, <1>7 DEF SerialStore

\* Every action keeps test throttles where they belong.
LEMMA TestNext ==
  ASSUME ModeInv, TestInv, [Next]_vars
  PROVE  TestInv'
<1>1. ASSUME UNCHANGED <<driver, wired, frame, test, testing, args, op>> PROVE TestInv'
  BY <1>1 DEF TestInv, DriversOK, TestAsAsked, FramesAsTested, Driven, Zeroing
<1>2. CASE Transmitter \/ RxRun \/ PidRun \/ Drained \/ MspHeader \/ MspTimeout
           \/ UNCHANGED vars
  BY <1>1, <1>2 DEF Transmitter, RxRun, PidRun, Drained, MspHeader, MspTimeout, vars,
     line, bench, serial
<1>3. CASE MotorThrottle
  <2>1. PICK i \in Motors : frame' = [frame EXCEPT ![i] = "raw"]
    BY <1>3 DEF MotorThrottle
  <2>2. UNCHANGED <<driver, wired, test, testing, args, op>>
    BY <1>3 DEF MotorThrottle, line, bench, serial
  <2>3. DriversOK' /\ TestAsAsked'
    BY <2>1, <2>2 DEF TestInv, DriversOK, TestAsAsked
  <2>4. \A j \in Motors : frame'[j] \in Throttles => frame'[j] = frame[j]
    BY <2>1, MotorAssumption DEF TestInv, DriversOK
  <2> QED
    BY <2>2, <2>3, <2>4 DEF TestInv, FramesAsTested, Driven, Zeroing
<1>4. ASSUME Idle, UNCHANGED <<driver, frame, test, testing>>, wired' \in Motors,
             op' # Start3, op' = StartStores \/ args' = args
      PROVE  TestInv'
  <2>1. ~Zeroing /\ op # StartStores
    BY <1>4, TestPoints, EnterPoints DEF Idle, Zeroing
  <2> QED
    BY <1>4, <2>1 DEF TestInv, DriversOK, TestAsAsked, FramesAsTested, Driven
<1>5. /\ StartStores # Start3 /\ StopStores # Start3 /\ EnterStores # Start3
      /\ ExitStores # Start3 /\ ReplyStores # Start3 /\ DeviceStores # Start3
      /\ NoDevice # Start3
  BY TestPoints, EnterPoints, ExitPoints, DevicePoints
<1>6. CASE MotorTest \/ MotorStop \/ EnterEscPassthrough
  BY <1>4, <1>5, <1>6 DEF MotorTest, MotorStop, EnterEscPassthrough, Line, Begin, line,
     bench, TestInv, DriversOK
<1>7. CASE FourWayExit \/ FourWayQuery \/ FourWayDevice
  BY <1>4, <1>5, <1>7, MotorAssumption DEF FourWayExit, FourWayQuery, FourWayDevice,
     Reads4Way, line, bench, TestInv, DriversOK
<1> QED
  BY <1>2, <1>3, <1>6, <1>7, TestMotorRun, TestStore DEF Next

\* However MotorTask falls between the stores of starting, replacing and stopping
\* a test, a test throttle is seen by the motor of the test that is on, alone, and
\* it is the throttle that was asked for.
THEOREM OnlyTheTestedMotor == Spec => []TestDrivesItsMotor
<1>1. Init => TestInv
  BY MotorAssumption, TestPoints
     DEF Init, TestInv, DriversOK, TestAsAsked, FramesAsTested
<1>2. ModeInv /\ TestInv /\ [Next]_vars => TestInv'
  BY TestNext
<1>3. TestInv => TestDrivesItsMotor
  BY TestPoints, EnterPoints
     DEF TestInv, TestAsAsked, FramesAsTested, Driven, Zeroing, TestDrivesItsMotor, Idle
<1> QED
  BY <1>1, <1>2, <1>3, ModeCorrect, PTL DEF Spec

(***************************************************************************)
(* Settings: the table, and what a text is stored as                       *)
(***************************************************************************)

\* The rows of the table, one by one.
LEMMA Rows ==
  /\ Table[1] = Row("system", "system.name", "text", <<>>, Word("Flight32"))
  /\ Table[2] = Row("imu", "imu.type", "enum", <<"MPU6050", "NONE">>, Zero)
  /\ Table[3] = Row("imu", "imu.lpf_bw", "enum", <<"LPF_256HZ", "LPF_188HZ", "LPF_98HZ">>, Zero)
  /\ Table[4] = Row("mpu", "mpu.g_off.x", "float", <<>>, Zero)
  /\ Table[5] = Row("rc", "rc.proto", "enum", <<"IBUS", "PPM">>, Zero)
  /\ Table[6] = Row("rx", "rx.pin", "byte", <<>>, Num(16000))
  /\ Table[7] = Row("rc", "rc.roll", "channel", <<>>, Num(1000))
  /\ Table[8] = Row("pid", "pid.r.p", "gain", <<>>, Num(200))
  /\ Table[9] = Row("arm", "arm.auto_disarm", "byte", <<>>, Num(50000))
  /\ Table[10] = Row("filter", "filter.lpf_hz", "float", <<>>, Num(150000))
  /\ DOMAIN Table = 1 .. 10
BY DEF Table

\* The keys of the rows, in their order.
LEMMA KeyRows ==
  /\ Table[1].key = "system.name" /\ Table[2].key = "imu.type" /\ Table[3].key = "imu.lpf_bw"
  /\ Table[4].key = "mpu.g_off.x" /\ Table[5].key = "rc.proto" /\ Table[6].key = "rx.pin"
  /\ Table[7].key = "rc.roll" /\ Table[8].key = "pid.r.p" /\ Table[9].key = "arm.auto_disarm"
  /\ Table[10].key = "filter.lpf_hz"
BY Rows DEF Row

\* A key has one row.
LEMMA RowFound ==
  ASSUME NEW i \in 1 .. 10
  PROVE  Table[i].key \in Keys /\ RowOf[Table[i].key] = Table[i]
<1>1. Table[i] \in ToSet(Table)
  BY Rows DEF ToSet
<1>2. ASSUME NEW row \in ToSet(Table), row.key = Table[i].key
      PROVE  row = Table[i]
  <2>1. PICK j \in 1 .. 10 : row = Table[j]
    BY Rows DEF ToSet
  <2>2. Table[j].key = Table[i].key => i = j
    BY KeyRows
  <2> QED
    BY <1>2, <2>1, <2>2
<1>3. Table[i].key \in Keys
  BY Rows DEF Keys
<1> QED
  BY <1>1, <1>2, <1>3 DEF RowOf

\* The keys by name.
LEMMA KeyNames ==
  Keys = {"system.name", "imu.type", "imu.lpf_bw", "mpu.g_off.x", "rc.proto", "rx.pin", "rc.roll",
          "pid.r.p", "arm.auto_disarm", "filter.lpf_hz"}
<1>1. \A k : k \in Keys <=> \E i \in 1 .. 10 : k = Table[i].key
  BY Rows DEF Keys
<1> QED
  BY <1>1, KeyRows

\* The row of each key.
LEMMA RowsByKey ==
  /\ RowOf["system.name"] = Table[1] /\ RowOf["imu.type"] = Table[2] /\ RowOf["imu.lpf_bw"] = Table[3]
  /\ RowOf["mpu.g_off.x"] = Table[4] /\ RowOf["rc.proto"] = Table[5] /\ RowOf["rx.pin"] = Table[6]
  /\ RowOf["rc.roll"] = Table[7] /\ RowOf["pid.r.p"] = Table[8] /\ RowOf["arm.auto_disarm"] = Table[9]
  /\ RowOf["filter.lpf_hz"] = Table[10]
BY RowFound, KeyRows

\* The keys by what is stored under them.
Floats == {"mpu.g_off.x", "pid.r.p", "filter.lpf_hz"}
Enums  == {"imu.type", "imu.lpf_bw", "rc.proto"}
Bytes  == {"rx.pin", "rc.roll", "arm.auto_disarm"}

\* What kind the row of a key names.
LEMMA KeyKinds ==
  /\ Keys = {"system.name"} \cup Floats \cup Enums \cup Bytes
  /\ RowOf["system.name"].kind = "text"
  /\ \A k \in Floats : RowOf[k].kind \in {"float", "gain"}
  /\ \A k \in Enums : RowOf[k].kind = "enum"
  /\ \A k \in Bytes : RowOf[k].kind \in {"byte", "channel"}
<1>1. /\ RowOf["system.name"].kind = "text" /\ RowOf["imu.type"].kind = "enum" /\ RowOf["imu.lpf_bw"].kind = "enum"
      /\ RowOf["mpu.g_off.x"].kind = "float" /\ RowOf["rc.proto"].kind = "enum" /\ RowOf["rx.pin"].kind = "byte"
      /\ RowOf["rc.roll"].kind = "channel" /\ RowOf["pid.r.p"].kind = "gain" /\ RowOf["arm.auto_disarm"].kind = "byte"
      /\ RowOf["filter.lpf_hz"].kind = "float"
  BY RowsByKey, Rows DEF Row
<1> QED
  BY <1>1, KeyNames DEF Floats, Enums, Bytes

\* The options of the keys that have some.
LEMMA KeyOptions ==
  /\ RowOf["imu.type"].options = <<"MPU6050", "NONE">>
  /\ RowOf["imu.lpf_bw"].options = <<"LPF_256HZ", "LPF_188HZ", "LPF_98HZ">>
  /\ RowOf["rc.proto"].options = <<"IBUS", "PPM">>
BY RowsByKey, Rows DEF Row

\* The default of each key.
LEMMA KeyDefaults ==
  /\ Default["system.name"] = Word("Flight32")
  /\ \A k \in Enums \cup {"mpu.g_off.x"} : Default[k] = Zero
  /\ Default["rx.pin"] = Num(16000) /\ Default["rc.roll"] = Num(1000) /\ Default["pid.r.p"] = Num(200)
  /\ Default["arm.auto_disarm"] = Num(50000) /\ Default["filter.lpf_hz"] = Num(150000)
<1>1. \A k \in Keys : Default[k] = RowOf[k].default
  BY DEF Default
<1> QED
  BY <1>1, RowsByKey, Rows, KeyNames DEF Row, Enums

\* A text is a word or a natural number, or there is none.
AllWords == Words \cup {"Flight32", "MPU6050", "NONE", "LPF_256HZ", "LPF_188HZ", "LPF_98HZ", "IBUS", "PPM", "", "= value"}
Texts    == {Word(w) : w \in AllWords} \cup {Num(n) : n \in Nat} \cup {NoText}

\* An int is as large as the number, up to a limit that no byte reaches.
LEMMA IntIs ==
  /\ LargestInt \in Nat
  /\ \A n \in Nat : Int32(n) \in 0 .. LargestInt
  /\ \A n \in 0 .. LargestInt : Int32(n) = n
  /\ \A n \in 0 .. 1000 : Int32(n) = n
<1>1. LargestInt \in Nat /\ 1000 <= LargestInt
  BY SMT DEF LargestInt
<1>2. \A n \in Nat : Int32(n) \in 0 .. LargestInt
  BY SMT, <1>1 DEF Int32
<1>3. \A n \in 0 .. LargestInt : Int32(n) = n
  BY SMT, <1>1 DEF Int32
<1>4. \A n \in 0 .. 1000 : n \in 0 .. LargestInt
  BY SMT, <1>1
<1>5. \A n \in 0 .. 1000 : Int32(n) = n
  <2> DEFINE small == 0 .. 1000
  <2>1. \A n \in small : n \in 0 .. LargestInt
    BY <1>4
  <2> HIDE DEF small
  <2>2. \A n \in small : Int32(n) = n
    BY <1>3, <2>1, Zenon
  <2> QED
    BY <2>2 DEF small
<1> QED
  BY <1>1, <1>2, <1>3, <1>5, Zenon

\* Two numbers that are one apart are so as ints, or are the same.
LEMMA IntNear ==
  ASSUME NEW a \in Nat, NEW b \in Nat, a - b \in {-1, 0, 1}
  PROVE  Int32(a) \in 0 .. LargestInt /\ Int32(b) \in 0 .. LargestInt /\ Int32(a) - Int32(b) \in {-1, 0, 1}
<1>1. LargestInt \in Nat /\ Int32(a) \in 0 .. LargestInt /\ Int32(b) \in 0 .. LargestInt
  BY IntIs
<1>2. Int32(a) - Int32(b) \in {-1, 0, 1}
  <2>1. CASE a < LargestInt /\ b < LargestInt
    BY SMT, <2>1 DEF Int32
  <2>2. CASE ~(a < LargestInt) /\ ~(b < LargestInt)
    BY SMT, <1>1, <2>2 DEF Int32
  <2>3. CASE a < LargestInt /\ ~(b < LargestInt)
    <3>1. Int32(a) = a /\ Int32(b) = LargestInt /\ a - LargestInt \in {-1, 0, 1}
      BY SMT, <1>1, <2>3 DEF Int32
    <3> QED
      BY <3>1
  <2>4. CASE ~(a < LargestInt) /\ b < LargestInt
    <3>1. Int32(a) = LargestInt /\ Int32(b) = b /\ LargestInt - b \in {-1, 0, 1}
      BY SMT, <1>1, <2>4 DEF Int32
    <3> QED
      BY <3>1
  <2> QED
    BY <2>1, <2>2, <2>3, <2>4
<1> QED
  BY <1>1, <1>2

\* A byte is an int as it is.
LEMMA IntSmall ==
  ASSUME NEW n \in 0 .. 255 PROVE Int32(n) = n
<1>1. n \in 0 .. 1000
  OBVIOUS
<1>2. \A m \in 0 .. 1000 : Int32(m) = m
  BY IntIs
<1> QED
  BY <1>1, <1>2

\* A count of so many is an int.
LEMMA IntOf ==
  ASSUME NEW n \in Nat, NEW d \in Nat \ {0}
  PROVE  n \div d \in Nat /\ Int32(n \div d) \in Nat
<1> DEFINE q == n \div d
<1>1. q \in Nat
  OBVIOUS
<1> HIDE DEF q
<1>0. \A m \in Nat : Int32(m) \in 0 .. LargestInt
  BY IntIs
<1>2. Int32(q) \in 0 .. LargestInt
  BY <1>0, <1>1
<1>3. Int32(q) \in Nat
  BY <1>2, IntIs
<1> QED
  BY <1>1, <1>3 DEF q

\* Words count as zero, and words and numbers are never the same text.
LEMMA TextNumbers ==
  /\ \A w : ToFloat(Word(w)) = 0 /\ ToInt(Word(w)) = 0
  /\ \A n \in Nat : ToFloat(Num(n)) = n /\ ToInt(Num(n)) = Int32(n \div 1000) /\ ToInt(Num(n)) \in Nat
  /\ \A w, o : (Word(w) = Word(o)) <=> (w = o)
  /\ \A w, n : Word(w) # Num(n) /\ Word(w) # Missing /\ Word(w) # Refused
  /\ \A n : Num(n) # Missing /\ Num(n) # Refused
  /\ \A m, n : (Num(n) = Num(m)) <=> (n = m)
<1>1. Int32(0) = 0 /\ 0 \div 1000 = 0
  BY IntIs
<1>2. \A w : ToFloat(Word(w)) = 0 /\ ToInt(Word(w)) = 0
  BY <1>1 DEF ToFloat, ToInt, Word
<1>3. \A n \in Nat : ToFloat(Num(n)) = n /\ ToInt(Num(n)) = Int32(n \div 1000)
  BY DEF ToFloat, ToInt, Num
<1>4. \A n \in Nat : n \div 1000 \in Nat /\ Int32(n \div 1000) \in Nat
  BY IntOf
<1>5. /\ \A w, o : (Word(w) = Word(o)) <=> (w = o)
      /\ \A w, n : Word(w) # Num(n) /\ Word(w) # Missing /\ Word(w) # Refused
      /\ \A n : Num(n) # Missing /\ Num(n) # Refused
      /\ \A m, n : (Num(n) = Num(m)) <=> (n = m)
  BY DEF Word, Num, Missing, Refused
<1> QED
  BY <1>2, <1>3, <1>4, <1>5

\* Nothing counts as zero.
LEMMA ZeroCounts == ToInt(Zero) = 0
<1>1. 0 \in Nat /\ 0 \div 1000 = 0 /\ Int32(0) = 0
  BY IntIs
<1> QED
  BY <1>1, TextNumbers DEF Zero

\* Every text counts as a natural number.
LEMMA TextIsNumber ==
  ASSUME NEW t \in Texts
  PROVE  ToFloat(t) \in Nat /\ ToInt(t) \in Nat
<1>1. \A n \in Nat : ToFloat(Num(n)) \in Nat /\ ToInt(Num(n)) \in Nat
  BY TextNumbers
<1>2. \A w : ToFloat(Word(w)) = 0 /\ ToInt(Word(w)) = 0
  BY TextNumbers
<1>3. ToFloat(NoText) = 0 /\ ToInt(NoText) = 0
  BY IntIs DEF ToFloat, ToInt, NoText
<1> QED
  BY <1>1, <1>2, <1>3 DEF Texts

\* A byte is stored as it is, or refused.
LEMMA ByteNumber ==
  ASSUME NEW n \in Nat
  PROVE  ByteOf(n) = Refused \/ (n \in 0 .. 255 /\ ByteOf(n) = Num(1000 * n))
BY DEF ByteOf

\* A name is stored as it is typed.
LEMMA ParsedText ==
  ASSUME NEW t PROVE Parsed("system.name", t) = t
BY KeyKinds DEF Parsed

\* A float is stored as the number in front.
LEMMA ParsedFloat ==
  ASSUME NEW k \in Floats, NEW t PROVE Parsed(k, t) = Num(ToFloat(t))
BY KeyKinds DEF Parsed

\* A byte is stored as the integer in front.
LEMMA ParsedByte ==
  ASSUME NEW k \in Bytes, NEW t PROVE Parsed(k, t) = ByteOf(ToInt(t))
BY KeyKinds DEF Parsed

\* An option is stored as its index, another text as the integer in front.
LEMMA ParsedEnum ==
  ASSUME NEW k \in Enums, NEW t
  PROVE  Parsed(k, t) = IF Chosen(RowOf[k].options, t) # {}
                       THEN Num(1000 * ((CHOOSE i \in Chosen(RowOf[k].options, t) : TRUE) - 1))
                       ELSE ByteOf(ToInt(t))
BY KeyKinds DEF Parsed, Unchosen

\* Options are distinct, and a word is at most one of them.
LEMMA OptionsApart ==
  ASSUME NEW k \in Enums
  PROVE  /\ Len(RowOf[k].options) \in Nat /\ Len(RowOf[k].options) <= 255 /\ DOMAIN RowOf[k].options = 1 .. Len(RowOf[k].options)
         /\ \A i \in DOMAIN RowOf[k].options : Chosen(RowOf[k].options, Word(RowOf[k].options[i])) = {i}
         /\ \A n : Chosen(RowOf[k].options, Num(n)) = {}
<1> DEFINE options == RowOf[k].options
<1>1. /\ Len(options) \in Nat /\ Len(options) <= 255 /\ DOMAIN options = 1 .. Len(options)
      /\ \A i, j \in DOMAIN options : options[i] = options[j] => i = j
  <2>1. CASE k = "imu.type"
    BY <2>1, KeyOptions
  <2>2. CASE k = "imu.lpf_bw"
    BY <2>2, KeyOptions
  <2>3. CASE k = "rc.proto"
    BY <2>3, KeyOptions
  <2> QED
    BY <2>1, <2>2, <2>3 DEF Enums
<1> HIDE DEF options
<1>2. \A i \in DOMAIN options : Chosen(options, Word(options[i])) = {i}
  <2> TAKE i \in DOMAIN options
  <2>1. \A j \in DOMAIN options : Word(options[i]) = Word(options[j]) <=> j = i
    BY <1>1, TextNumbers, ZenonT(60)
  <2> QED
    BY <2>1, Zenon DEF Chosen
<1>3. \A n : Chosen(options, Num(n)) = {}
  BY TextNumbers DEF Chosen
<1> QED
  BY <1>1, <1>2, <1>3 DEF options

\* An option or a number below 256 is stored as one; other words count as 0.
LEMMA EnumParsed ==
  ASSUME NEW k \in Enums, NEW t \in Texts
  PROVE  \/ Parsed(k, t) = Refused
         \/ \E n \in 0 .. 255 :
              /\ Parsed(k, t) = Num(1000 * n)
              /\ \/ n + 1 \in DOMAIN RowOf[k].options /\ t = Word(RowOf[k].options[n + 1])
                 \/ n = ToInt(t)
<1> DEFINE options == RowOf[k].options
           choice == Chosen(options, t)
<1>1. Len(options) \in Nat /\ Len(options) <= 255 /\ DOMAIN options = 1 .. Len(options)
  BY OptionsApart
<1>2. Parsed(k, t) = IF choice # {} THEN Num(1000 * ((CHOOSE i \in choice : TRUE) - 1)) ELSE ByteOf(ToInt(t))
  BY ParsedEnum
<1> HIDE DEF options
<1>3. CASE choice # {}
  <2> DEFINE i == CHOOSE j \in choice : TRUE
  <2>2. i \in choice
    BY <1>3
  <2> HIDE DEF i
  <2>3. i \in DOMAIN options /\ t = Word(options[i])
    BY <2>2 DEF Chosen
  <2>4. i - 1 \in 0 .. 255 /\ (i - 1) + 1 = i
    <3>1. \A n \in Nat : n <= 255 => \A j \in 1 .. n : j - 1 \in 0 .. 255 /\ (j - 1) + 1 = j
      OBVIOUS
    <3>2. i \in 1 .. Len(options)
      BY <1>1, <2>3, Zenon
    <3> QED
      BY <1>1, <3>1, <3>2, Zenon
  <2>5. Parsed(k, t) = Num(1000 * (i - 1))
    BY <1>2, <1>3 DEF i
  <2> QED
    BY <2>3, <2>4, <2>5 DEF options
<1>4. CASE choice = {}
  <2>1. ToInt(t) \in Nat
    BY TextIsNumber
  <2> QED
    BY <1>2, <1>4, <2>1, ByteNumber
<1> QED
  BY <1>3, <1>4

\* Only a useless value that was asked for stops the start, or the receiver.
LEMMA NotUseless ==
  ASSUME NEW k \in {"imu.type", "rc.proto"}, NEW t \in Texts, NEW n \in Nat, Parsed(k, t) = Num(1000 * n),
         n >= IF k = "imu.type" THEN 1 ELSE 2
  PROVE  Useless(k, t)
<1> DEFINE options == RowOf[k].options
<1>1. k \in Enums
  BY DEF Enums
<1>0. Parsed(k, t) # Refused
  BY TextNumbers
<1>2. PICK m \in 0 .. 255 : /\ Parsed(k, t) = Num(1000 * m)
                            /\ \/ m + 1 \in DOMAIN options /\ t = Word(options[m + 1])
                               \/ m = ToInt(t)
  BY <1>0, <1>1, EnumParsed, SMTT(30)
<1>3. 1000 * n = 1000 * m
  <2>1. Num(1000 * n) = Num(1000 * m)
    BY <1>2
  <2> QED
    BY <2>1, TextNumbers
<1>4. m = n
  BY <1>3
<1>5. CASE m = ToInt(t)
  BY <1>4, <1>5 DEF Useless
<1>6. CASE m + 1 \in DOMAIN options /\ t = Word(options[m + 1])
  <2>1. DOMAIN options = 1 .. 2 /\ (k = "imu.type" => options[2] = "NONE")
    BY KeyOptions
  <2>2. m = 1 /\ k = "imu.type"
    BY <1>4, <1>6, <2>1
  <2> QED
    BY <1>6, <2>1, <2>2 DEF Useless
<1> QED
  BY <1>2, <1>5, <1>6

(***************************************************************************)
(* What may be stored, and which puts a command makes                      *)
(***************************************************************************)
ByteValues == {Num(1000 * n) : n \in 0 .. 255}
Values(k)  ==
  IF k = "system.name" THEN Texts
  ELSE IF k \in Floats THEN {Num(n) : n \in Nat} ELSE ByteValues

Clear  == Put("all", Missing)
PutSet == {Clear, Put(Schema, Current)} \cup {p \in Keys \X Texts : p[2] \in Values(p[1])}

\* What may be stored is a text.
LEMMA ValuesAreTexts == \A k : Values(k) \subseteq Texts
BY DEF Values, Texts, ByteValues

\* Keys are no names of the two other puts.
LEMMA OtherPuts ==
  /\ "all" \notin Keys /\ Schema \notin Keys /\ Schema # "all"
  /\ Clear[1] = "all" /\ Put(Schema, Current)[1] = Schema
  /\ \A k, v : Put(k, v)[1] = k /\ Put(k, v)[2] = v
BY KeyNames DEF Schema, Clear, Put

\* A put of a key's value is a put.
LEMMA KeyPut ==
  ASSUME NEW k \in Keys, NEW v \in Values(k)
  PROVE  Put(k, v) \in PutSet
BY ValuesAreTexts DEF PutSet, Put

\* What a text is stored as.
LEMMA ParsedStored ==
  ASSUME NEW k \in Keys, NEW t \in Texts, Parsed(k, t) # Refused
  PROVE  Parsed(k, t) \in Values(k)
<1>1. ToFloat(t) \in Nat /\ ToInt(t) \in Nat
  BY TextIsNumber
<1>2. CASE k = "system.name"
  BY <1>2, ParsedText DEF Values
<1>4. CASE k \in Floats
  BY <1>1, <1>4, ParsedFloat DEF Values, Floats
<1>5. CASE k \in Enums
  <2>1. \E n \in 0 .. 255 : Parsed(k, t) = Num(1000 * n)
    BY <1>5, EnumParsed, SMTT(30)
  <2> QED
    BY <1>5, <2>1 DEF Values, ByteValues, Floats, Enums
<1>6. CASE k \in Bytes
  <2>1. \E n \in 0 .. 255 : Parsed(k, t) = Num(1000 * n)
    BY <1>1, <1>6, ParsedByte, ByteNumber
  <2> QED
    BY <1>6, <2>1 DEF Values, ByteValues, Floats, Bytes
<1> QED
  BY <1>2, <1>4, <1>5, <1>6, KeyKinds

\* A value is written by one put, or not at all.
LEMMA PutsJob ==
  ASSUME NEW k, NEW t \in Texts
  PROVE  /\ Puts(k, t) \in Seq(PutSet)
         /\ \A i \in DOMAIN Puts(k, t) :
              /\ Puts(k, t)[i] = Put(k, Parsed(k, t)) /\ k \in Keys /\ Parsed(k, t) # Refused
              /\ Puts(k, t)[i][1] = k /\ Puts(k, t)[i][2] = Parsed(k, t) /\ k # "all"
<1>1. CASE k \in Keys /\ Parsed(k, t) # Refused
  <2>1. Put(k, Parsed(k, t)) \in PutSet
    BY <1>1, ParsedStored, KeyPut
  <2>2. Puts(k, t) = <<Put(k, Parsed(k, t))>>
    BY <1>1 DEF Puts
  <2> DEFINE p == Put(k, Parsed(k, t))
  <2>3. p[1] = k /\ p[2] = Parsed(k, t) /\ k # "all"
    BY <1>1, OtherPuts
  <2> HIDE DEF p
  <2>4. <<p>> \in Seq(PutSet) /\ \A i \in DOMAIN <<p>> : <<p>>[i] = p
    BY <2>1 DEF p
  <2> QED
    BY <1>1, <2>2, <2>3, <2>4, Zenon DEF p
<1>2. CASE ~(k \in Keys /\ Parsed(k, t) # Refused)
  BY <1>2 DEF Puts
<1> QED
  BY <1>1, <1>2

Limit(k) == IF k = "imu.type" THEN 1 ELSE 2

\* Puts that a line with text t may lead to: none clears the flash, and a useless
\* value is asked for by the text.
LineOK(puts, t) ==
  /\ puts \in Seq(PutSet)
  /\ \A i \in DOMAIN puts :
       /\ puts[i][1] # "all"
       /\ \A k \in {"imu.type", "rc.proto"} :
            puts[i][1] = k /\ ToInt(puts[i][2]) >= Limit(k) => Useless(k, t)

\* A stored byte reads as its integer.
LEMMA ByteInts ==
  ASSUME NEW v \in ByteValues
  PROVE  \E n \in 0 .. 255 : v = Num(1000 * n) /\ ToInt(v) = n
<1>1. ASSUME NEW n \in 0 .. 255 PROVE ToInt(Num(1000 * n)) = n
  <2>1. n \in 0 .. 1000 /\ 1000 * n \in Nat /\ (1000 * n) \div 1000 = n
    OBVIOUS
  <2>2. ToInt(Num(1000 * n)) = Int32((1000 * n) \div 1000)
    BY <2>1, TextNumbers
  <2>3. Int32(n) = n
    BY IntSmall
  <2> QED
    BY <2>1, <2>2, <2>3
<1>2. PICK n \in 0 .. 255 : v = Num(1000 * n)
  BY DEF ByteValues
<1>3. ToInt(Num(1000 * n)) = n
  BY <1>1
<1>4. ToInt(v) = n
  BY <1>2, <1>3, Zenon
<1> QED
  BY <1>2, <1>4

\* Writing the text of the line itself asks for what it writes.
LEMMA PutsLine ==
  ASSUME NEW k, NEW t \in Texts
  PROVE  LineOK(Puts(k, t), t)
<1>1. Puts(k, t) \in Seq(PutSet)
  BY PutsJob
<1>2. ASSUME NEW i \in DOMAIN Puts(k, t), NEW l \in {"imu.type", "rc.proto"},
             Puts(k, t)[i][1] = l, ToInt(Puts(k, t)[i][2]) >= Limit(l)
      PROVE  Useless(l, t)
  <2>1. k = l /\ Parsed(k, t) # Refused /\ k \in Keys /\ ToInt(Parsed(k, t)) >= Limit(k)
    BY <1>2, PutsJob
  <2>2. k \in Enums /\ Values(k) = ByteValues
    BY <2>1 DEF Enums, Values, Floats
  <2>3. Parsed(k, t) \in ByteValues
    BY <2>1, <2>2, ParsedStored
  <2>4. PICK n \in 0 .. 255 : Parsed(k, t) = Num(1000 * n) /\ ToInt(Parsed(k, t)) = n
    BY <2>3, ByteInts
  <2>5. n \in Nat /\ n >= IF k = "imu.type" THEN 1 ELSE 2
    BY <2>1, <2>4 DEF Limit
  <2> QED
    BY <1>2, <2>1, <2>4, <2>5, NotUseless
<1> QED
  BY <1>1, <1>2, PutsJob DEF LineOK

\* Writing a key that is never useless is no matter of the line's text.
LEMMA PutsOther ==
  ASSUME NEW k, k \notin {"imu.type", "rc.proto"}, NEW t, NEW u \in Texts
  PROVE  LineOK(Puts(k, u), t)
BY PutsJob DEF LineOK

\* No put is always allowed.
LEMMA Empty == ASSUME NEW t PROVE LineOK(<<>>, t)
BY DEF LineOK

\* The elements of a concatenation, by their places.
LEMMA Joined ==
  ASSUME NEW S, NEW s \in Seq(S), NEW u \in Seq(S)
  PROVE  /\ s \o u \in Seq(S) /\ Len(s \o u) = Len(s) + Len(u)
         /\ \A i \in 1 .. Len(s) : (s \o u)[i] = s[i]
         /\ \A i \in 1 .. Len(u) : (s \o u)[Len(s) + i] = u[i]
OBVIOUS

\* An element of a concatenation is one of its parts.
LEMMA JoinedParts ==
  ASSUME NEW S, NEW s \in Seq(S), NEW u \in Seq(S)
  PROVE  \A i \in DOMAIN (s \o u) :
           (\E j \in DOMAIN s : (s \o u)[i] = s[j]) \/ (\E j \in DOMAIN u : (s \o u)[i] = u[j])
<1> TAKE i \in DOMAIN (s \o u)
<1>1. CASE i <= Len(s)
  BY <1>1
<1>2. CASE i > Len(s)
  BY <1>2
<1> QED
  BY <1>1, <1>2

\* Two allowed jobs make an allowed one.
LEMMA JoinedOK ==
  ASSUME NEW s, NEW u, NEW t, LineOK(s, t), LineOK(u, t)
  PROVE  LineOK(s \o u, t)
<1>1. s \in Seq(PutSet) /\ u \in Seq(PutSet)
  BY DEF LineOK
<1>2. s \o u \in Seq(PutSet)
  BY <1>1, Joined
<1>3. \A i \in DOMAIN (s \o u) :
        (\E j \in DOMAIN s : (s \o u)[i] = s[j]) \/ (\E j \in DOMAIN u : (s \o u)[i] = u[j])
  BY <1>1, JoinedParts
<1> DEFINE v == s \o u
<1> HIDE DEF v
<1> QED
  BY <1>2, <1>3, Zenon DEF LineOK, v

\* The put of the version, as a sequence.
LEMMA SchemaJob ==
  /\ SchemaPut \in Seq(PutSet) /\ Len(SchemaPut) = 1 /\ DOMAIN SchemaPut = {1}
  /\ SchemaPut[1] = Put(Schema, Current) /\ SchemaPut[1][1] = Schema
BY OtherPuts DEF SchemaPut, PutSet

\* The version may always be put.
LEMMA SchemaOK == ASSUME NEW t PROVE LineOK(SchemaPut, t)
<1>1. Schema \notin {"all", "imu.type", "rc.proto"}
  BY DEF Schema
<1> QED
  BY <1>1, SchemaJob DEF LineOK

\* The default of a key is written as any other value.
LEMMA DefaultStored == \A k \in Keys : Default[k] \in Values(k)
<1>1. /\ Default["system.name"] \in Texts
      /\ \A k \in Enums : Default[k] \in ByteValues
      /\ Default["rx.pin"] \in ByteValues /\ Default["rc.roll"] \in ByteValues
      /\ Default["arm.auto_disarm"] \in ByteValues
      /\ \A k \in Floats : Default[k] \in {Num(n) : n \in Nat}
  <2>1. /\ Num(16000) \in ByteValues /\ Num(1000) \in ByteValues /\ Num(50000) \in ByteValues /\ Zero \in ByteValues
    <3>1. 16 \in 0 .. 255 /\ 1 \in 0 .. 255 /\ 50 \in 0 .. 255 /\ 0 \in 0 .. 255
      OBVIOUS
    <3>2. 1000 * 16 = 16000 /\ 1000 * 1 = 1000 /\ 1000 * 50 = 50000 /\ 1000 * 0 = 0
      OBVIOUS
    <3> QED
      BY <3>1, <3>2 DEF ByteValues, Zero
  <2>2. Word("Flight32") \in Texts
    BY DEF Texts, AllWords
  <2>4. Zero \in {Num(n) : n \in Nat} /\ Num(150000) \in {Num(n) : n \in Nat} /\ Num(200) \in {Num(n) : n \in Nat}
    BY DEF Zero
  <2> QED
    BY <2>1, <2>2, <2>4, KeyDefaults DEF Floats
<1> QED
  BY <1>1, KeyNames DEF Values, Floats, Enums

\* A gain or a cutoff may always be reset.
LEMMA ResetKeyOK ==
  ASSUME NEW k \in {"filter.lpf_hz", "pid.r.p"}, NEW t
  PROVE  LineOK(ResetKey(k), t)
<1> DEFINE p == Put(k, Default[k])
<1>1. k \in Keys /\ k \notin {"all", "imu.type", "rc.proto"}
  BY KeyNames
<1>2. p \in PutSet /\ p[1] = k
  BY <1>1, DefaultStored, KeyPut, OtherPuts
<1> HIDE DEF p
<1>3. LineOK(<<p>>, t)
  BY <1>1, <1>2 DEF LineOK
<1> QED
  BY <1>3 DEF ResetKey, p

\* PidTask's gain is one that flash keeps as it is.
GainTyped == live \in Nat /\ Rounded(live) = live

\* Rounding yields a number that is rounded already.
LEMMA RoundedOnce == \A n \in Nat : Rounded(n) \in Nat /\ Rounded(Rounded(n)) = Rounded(n)
BY DEF Rounded

\* A line writes what fits its keys.  None clears the flash, and a useless value
\* is one that was asked for.
LEMMA LineJob ==
  ASSUME NEW input, input.text \in Texts, GainTyped
  PROVE  LineOK(PutsOf(input), input.text)
<1> DEFINE t == input.text
           rest == Args(input)
           sign == input.sign
           puts == PutsOf(input)
<1> HIDE DEF t, rest, sign, puts
<1>0. t \in Texts
  BY DEF t
<1>1. \/ puts = <<>> \/ puts = SetSetting(rest, sign, t) \/ puts = SetFilter(rest, sign, t)
      \/ puts = Puts("rc.proto", WholeRest(sign, t)) \/ puts = Puts("imu.lpf_bw", WholeRest(sign, t))
      \/ puts = MapChannel(rest, sign, t) \/ puts = SetPid(rest, t)
      \/ puts = ResetKey("filter.lpf_hz") \/ puts = ResetKey("pid.r.p") \o SchemaPut \/ puts = SchemaPut
  <2> DEFINE taken == Command(input)
             general == taken \in {<<"set">>, <<"set", "rx.pin">>}
             cutoff == taken = <<"set", "filter.lpf_hz">>
             protocol == taken = <<"set", "rx.protocol">>
             bandwidth == taken = <<"set", "imu.lpf_bandwidth">>
             mapping == taken = <<"set", "rx.channel.roll">>
             gain == taken = <<"set", "pid">>
             noFilter == taken = <<"reset", "filter">> /\ Confirmed(input)
             noGain == taken = <<"reset", "pid">> /\ Confirmed(input)
             quit == taken = <<"quit">>
             p1 == SetSetting(rest, sign, t)
             p2 == SetFilter(rest, sign, t)
             p3 == Puts("rc.proto", WholeRest(sign, t))
             p4 == Puts("imu.lpf_bw", WholeRest(sign, t))
             p5 == MapChannel(rest, sign, t)
             p6 == SetPid(rest, t)
             p7 == ResetKey("filter.lpf_hz")
             p8 == ResetKey("pid.r.p") \o SchemaPut
             p9 == SchemaPut
  <2>1. puts =
        CASE general -> p1 [] cutoff -> p2 [] protocol -> p3 [] bandwidth -> p4 [] mapping -> p5
          [] gain -> p6 [] noFilter -> p7 [] noGain -> p8 [] quit -> p9 [] OTHER -> <<>>
    BY DEF puts, rest, sign, t, PutsOf
  <2> HIDE DEF general, cutoff, protocol, bandwidth, mapping, gain, noFilter, noGain, quit,
               p1, p2, p3, p4, p5, p6, p7, p8, p9
  <2>2. \/ puts = <<>> \/ puts = p1 \/ puts = p2 \/ puts = p3 \/ puts = p4 \/ puts = p5 \/ puts = p6
        \/ puts = p7 \/ puts = p8 \/ puts = p9
    <3>1. /\ general \/ cutoff \/ protocol \/ bandwidth \/ mapping \/ gain => taken[1] = "set"
          /\ noFilter \/ noGain \/ quit => taken[1] # "set"
      BY DEF general, cutoff, protocol, bandwidth, mapping, gain, noFilter, noGain, quit
    <3>2. CASE taken[1] = "set"
      <4>1. ~noFilter /\ ~noGain /\ ~quit
        BY <3>1, <3>2
      <4> QED
        BY <2>1, <4>1
    <3>3. CASE taken[1] # "set"
      <4>1. ~general /\ ~cutoff /\ ~protocol /\ ~bandwidth /\ ~mapping /\ ~gain
        BY <3>1, <3>3
      <4> QED
        BY <2>1, <4>1
    <3> QED
      BY <3>2, <3>3
  <2> QED
    BY <2>2, Zenon DEF p1, p2, p3, p4, p5, p6, p7, p8, p9
<1>2. LineOK(<<>>, t)
  BY Empty
<1>3. ASSUME NEW a, NEW s PROVE LineOK(SetSetting(a, s, t), t)
  <2>1. LineOK(Puts(a[1], t), t)
    BY <1>0, PutsLine
  <2> QED
    BY <1>2, <2>1, Zenon DEF SetSetting
<1>4. LineOK(SetFilter(rest, sign, t), t)
  BY <1>2, <1>3, Zenon DEF SetFilter
<1>5. /\ WholeRest(sign, t) \in Texts /\ (WholeRest(sign, t) = t \/ WholeRest(sign, t) = Word("= value"))
  BY <1>0 DEF WholeRest, Texts, AllWords
<1>6. LineOK(Puts("rc.proto", WholeRest(sign, t)), t)
  <2>1. LineOK(Puts("rc.proto", WholeRest(sign, t)), WholeRest(sign, t))
    BY <1>5, PutsLine
  <2>2. ~Useless("rc.proto", Word("= value")) /\ ~Useless("imu.type", Word("= value"))
    <3> DEFINE w == Word("= value")
    <3>0. "= value" # "NONE"
      OBVIOUS
    <3>1. w # Word("NONE") /\ ToInt(w) = 0
      BY <3>0, TextNumbers, ZenonT(60)
    <3> HIDE DEF w
    <3>2. ~(ToInt(w) >= 1) /\ ~(ToInt(w) >= 2)
      BY <3>1
    <3> QED
      BY <3>1, <3>2, Zenon DEF Useless, w
  <2>3. \A k \in {"imu.type", "rc.proto"} : Useless(k, WholeRest(sign, t)) => Useless(k, t)
    BY <1>5, <2>2
  <2> QED
    BY <2>1, <2>3, Zenon DEF LineOK
<1>7. LineOK(Puts("imu.lpf_bw", WholeRest(sign, t)), t)
  <2>1. "imu.lpf_bw" \notin {"imu.type", "rc.proto"}
    OBVIOUS
  <2> QED
    BY <1>5, <2>1, PutsOther
<1>8. LineOK(MapChannel(rest, sign, t), t)
  <2>1. ToInt(t) \in Nat
    BY <1>0, TextIsNumber
  <2>2. Num(1000 * (ToInt(t) + 1)) \in Texts
    BY <2>1 DEF Texts
  <2>3. LineOK(Puts("rc.roll", Num(1000 * (ToInt(t) + 1))), t)
    BY <2>2, PutsOther
  <2> QED
    BY <1>2, <2>3, Zenon DEF MapChannel
<1>9. LineOK(SetPid(rest, t), t)
  <2>1. ASSUME NEW n \in Nat PROVE LineOK(Puts("pid.r.p", Num(Rounded(n))), t)
    <3>1. Num(Rounded(n)) \in Texts
      BY RoundedOnce DEF Texts
    <3> QED
      BY <3>1, PutsOther
  <2>2. 10 * ToInt(t) \in Nat /\ live \in Nat
    BY <1>0, TextIsNumber DEF GainTyped
  <2>3. SetPid(rest, t) = Puts("pid.r.p", Num(Rounded(10 * ToInt(t)))) \/ SetPid(rest, t) = Puts("pid.r.p", Num(Rounded(live)))
        \/ SetPid(rest, t) = <<>>
    BY DEF SetPid
  <2> QED
    BY <1>2, <2>1, <2>2, <2>3
<1>10. LineOK(ResetKey("filter.lpf_hz"), t) /\ LineOK(ResetKey("pid.r.p"), t) /\ LineOK(SchemaPut, t)
  BY ResetKeyOK, SchemaOK
<1>11. LineOK(ResetKey("pid.r.p") \o SchemaPut, t)
  BY <1>10, JoinedOK
<1> QED
  BY <1>1, <1>2, <1>3, <1>4, <1>6, <1>7, <1>8, <1>9, <1>10, <1>11, Zenon DEF t, puts

(***************************************************************************)
(* Jobs of several puts                                                    *)
(***************************************************************************)

\* A function on the first numbers is a sequence.
LEMMA Listed ==
  ASSUME NEW S, NEW n \in Nat, NEW f \in [1 .. n -> S]
  PROVE  f \in Seq(S) /\ Len(f) = n
OBVIOUS

\* A reset of all settings clears the flash, writes every default, and then the
\* version.
LEMMA ResetJob ==
  /\ FactoryReset \in Seq(PutSet) /\ Len(FactoryReset) = 12
  /\ FactoryReset[1] = Clear /\ FactoryReset[12] = Put(Schema, Current)
  /\ \A i \in 2 .. 11 : FactoryReset[i] = Put(Table[i - 1].key, Default[Table[i - 1].key])
<1> DEFINE a == <<Clear>>
           b == Defaults
           c == SchemaPut
<1>1. a \in Seq(PutSet) /\ Len(a) = 1 /\ a[1] = Clear
  BY DEF PutSet
<1>2. ASSUME NEW i \in 1 .. 10
      PROVE  Put(Table[i].key, Table[i].default) \in PutSet /\ Default[Table[i].key] = Table[i].default
  <2>1. Table[i].key \in Keys /\ Default[Table[i].key] = Table[i].default
    BY RowFound DEF Default
  <2> QED
    BY <2>1, DefaultStored, KeyPut
<1>3. b \in Seq(PutSet) /\ Len(b) = 10 /\ \A i \in 1 .. 10 : b[i] = Put(Table[i].key, Default[Table[i].key])
  <2>1. DOMAIN Table = 1 .. 10
    BY Rows
  <2>2. Defaults = [i \in 1 .. 10 |-> Put(Table[i].key, Table[i].default)]
    BY <2>1 DEF Defaults
  <2>3. Defaults \in [1 .. 10 -> PutSet]
    BY <1>2, <2>2
  <2>4. \A i \in 1 .. 10 : Defaults[i] = Put(Table[i].key, Default[Table[i].key])
    BY <1>2, <2>2
  <2>5. Defaults \in Seq(PutSet) /\ Len(Defaults) = 10
    BY <2>3, Listed
  <2> QED
    BY <2>4, <2>5
<1>4. c \in Seq(PutSet) /\ Len(c) = 1 /\ c[1] = Put(Schema, Current)
  BY SchemaJob
<1> HIDE DEF a, b, c
<1>5. /\ a \o b \in Seq(PutSet) /\ Len(a \o b) = 11 /\ (a \o b)[1] = a[1]
      /\ \A i \in 1 .. 10 : (a \o b)[1 + i] = b[i]
  <2>0. a \in Seq(PutSet) /\ b \in Seq(PutSet)
    BY <1>1, <1>3
  <2>1. /\ a \o b \in Seq(PutSet) /\ Len(a \o b) = Len(a) + Len(b)
        /\ \A i \in 1 .. Len(a) : (a \o b)[i] = a[i]
        /\ \A i \in 1 .. Len(b) : (a \o b)[Len(a) + i] = b[i]
    BY <2>0, Joined
  <2>2. Len(a) = 1 /\ Len(b) = 10 /\ 1 \in 1 .. 1
    BY <1>1, <1>3
  <2> QED
    BY <2>1, <2>2, SMTT(60)
<1> DEFINE d == a \o b
<1>6. d \in Seq(PutSet) /\ Len(d) = 11 /\ d[1] = a[1] /\ \A i \in 1 .. 10 : d[1 + i] = b[i]
  BY <1>5
<1> HIDE DEF d
<1>7. /\ d \o c \in Seq(PutSet) /\ Len(d \o c) = 12 /\ (d \o c)[12] = c[1]
      /\ \A i \in 1 .. 11 : (d \o c)[i] = d[i]
  <2>0. d \in Seq(PutSet) /\ c \in Seq(PutSet)
    BY <1>4, <1>6
  <2>1. /\ d \o c \in Seq(PutSet) /\ Len(d \o c) = Len(d) + Len(c)
        /\ \A i \in 1 .. Len(d) : (d \o c)[i] = d[i]
        /\ \A i \in 1 .. Len(c) : (d \o c)[Len(d) + i] = c[i]
    BY <2>0, Joined
  <2>2. Len(d) = 11 /\ Len(c) = 1 /\ 1 \in 1 .. 1
    BY <1>4, <1>6
  <2> DEFINE e == d \o c
  <2> HIDE DEF e
  <2>3. /\ e \in Seq(PutSet) /\ Len(e) = Len(d) + Len(c)
        /\ \A i \in 1 .. Len(d) : e[i] = d[i]
        /\ \A i \in 1 .. Len(c) : e[Len(d) + i] = c[i]
    BY <2>1 DEF e
  <2>4. /\ e \in Seq(PutSet) /\ Len(e) = 12 /\ e[12] = c[1]
        /\ \A i \in 1 .. 11 : e[i] = d[i]
    BY <2>2, <2>3
  <2> QED
    BY <2>4, Zenon DEF e
<1>8. FactoryReset = d \o c
  BY DEF FactoryReset, Clear, a, b, c, d
<1>9. ASSUME NEW i \in 2 .. 11
      PROVE  FactoryReset[i] = Put(Table[i - 1].key, Default[Table[i - 1].key])
  <2>1. i - 1 \in 1 .. 10 /\ 1 + (i - 1) = i /\ i \in 1 .. 11
    OBVIOUS
  <2>2. FactoryReset[i] = d[i] /\ d[1 + (i - 1)] = b[i - 1]
    BY <1>6, <1>7, <1>8, <2>1
  <2> QED
    BY <1>3, <2>1, <2>2
<1> QED
  BY <1>1, <1>4, <1>6, <1>7, <1>8, <1>9

\* A reset clears the flash first, puts the version last and every key between, and nothing useless.
LEMMA ResetWrites ==
  /\ \A i \in 2 .. 12 : FactoryReset[i][1] # "all"
  /\ \A i \in 1 .. 12 : FactoryReset[i][1] = Schema => i = 12
  /\ \A k \in Keys : \E j \in 2 .. 11 : FactoryReset[j][1] = k
  /\ \A k \in {"imu.type", "rc.proto"}, i \in 1 .. 12 :
       FactoryReset[i][1] = k => ToInt(FactoryReset[i][2]) < Limit(k)
<1>1. FactoryReset[1][1] = "all" /\ FactoryReset[12][1] = Schema
  BY ResetJob, OtherPuts
<1>2. ASSUME NEW i \in 2 .. 11
      PROVE  /\ FactoryReset[i][1] = Table[i - 1].key /\ FactoryReset[i][1] \in Keys
             /\ FactoryReset[i][2] = Default[FactoryReset[i][1]]
  <2>1. i - 1 \in 1 .. 10
    OBVIOUS
  <2>2. Table[i - 1].key \in Keys
    BY <2>1, RowFound
  <2>3. FactoryReset[i] = Put(Table[i - 1].key, Default[Table[i - 1].key])
    BY ResetJob
  <2>4. FactoryReset[i][1] = Table[i - 1].key /\ FactoryReset[i][2] = Default[Table[i - 1].key]
    BY <2>3, OtherPuts
  <2> QED
    BY <2>2, <2>4
<1>3. \A k \in Keys : \E j \in 2 .. 11 : FactoryReset[j][1] = k
  <2> TAKE k \in Keys
  <2>1. PICK i \in 1 .. 10 : k = Table[i].key
    BY Rows DEF Keys
  <2>2. i + 1 \in 2 .. 11 /\ (i + 1) - 1 = i
    OBVIOUS
  <2> QED
    BY <1>2, <2>1, <2>2
<1>4. \A k \in {"imu.type", "rc.proto"} : ToInt(Default[k]) < Limit(k) /\ k \in Keys
  <2>1. ToInt(Zero) = 0
    BY IntIs DEF ToInt, ToFloat, Zero, Num
  <2> QED
    BY <2>1, KeyDefaults, KeyNames DEF Enums, Limit
<1>5. \A i \in 1 .. 12 : i = 1 \/ i = 12 \/ i \in 2 .. 11
  OBVIOUS
<1>6. \A i \in 2 .. 12 : FactoryReset[i][1] # "all"
  BY <1>1, <1>2, <1>5, OtherPuts
<1>7. \A i \in 1 .. 12 : FactoryReset[i][1] = Schema => i = 12
  BY <1>1, <1>2, <1>5, OtherPuts
<1>8. ASSUME NEW k \in {"imu.type", "rc.proto"}, NEW i \in 1 .. 12, FactoryReset[i][1] = k
      PROVE  ToInt(FactoryReset[i][2]) < Limit(k)
  <2>1. i \in 2 .. 11
    BY <1>1, <1>4, <1>5, <1>8, OtherPuts
  <2> QED
    BY <1>2, <1>4, <1>8, <2>1
<1> QED
  BY <1>3, <1>6, <1>7, <1>8

\* Calibration writes the offsets, and the version.
LEMMA OffsetsJob ==
  ASSUME NEW t
  PROVE  LineOK(<<Put("mpu.g_off.x", Measured)>> \o SchemaPut, t)
<1> DEFINE p == Put("mpu.g_off.x", Measured)
<1>1. "mpu.g_off.x" \in Keys /\ "mpu.g_off.x" \notin {"all", "imu.type", "rc.proto"} /\ Measured \in Values("mpu.g_off.x")
  BY KeyNames DEF Values, Floats, Measured
<1>2. p \in PutSet /\ p[1] = "mpu.g_off.x"
  BY <1>1, KeyPut, OtherPuts
<1> HIDE DEF p
<1>3. LineOK(<<p>>, t)
  BY <1>1, <1>2 DEF LineOK
<1> QED
  BY <1>3, SchemaOK, JoinedOK DEF p

(***************************************************************************)
(* The invariant                                                           *)
(***************************************************************************)

\* The key is in flash, and stays there, before the put number i is made.
There(k, i) ==
  \/ nvs[k] # Missing /\ (job # <<>> => job[1][1] # "all")
  \/ \E j \in DOMAIN job : j < i /\ job[j][1] = k

\* Only the first put clears the flash; the version is put behind all others;
\* and once begun, what is missing is among the puts that are left.
FlashInv ==
  /\ \A i \in DOMAIN job : i > 1 => job[i][1] # "all"
  /\ nvs[Schema] # Missing => \A k \in Keys : nvs[k] # Missing
  /\ \A i \in DOMAIN job : job[i][1] = Schema => \A k \in Keys : There(k, i)
  /\ start # "begin" => \A k \in Keys : There(k, Len(job) + 1)

\* A useless value was asked for, in flash as in a put that is left.
ToldInv ==
  \A k \in {"imu.type", "rc.proto"} :
    /\ ToInt(nvs[k]) >= Limit(k) => k \in told
    /\ \A i \in DOMAIN job :
         job[i][1] = k /\ ToInt(job[i][2]) >= Limit(k) =>
           k \in told /\ \A j \in DOMAIN job : job[j][1] # "all"

\* A backup holds for each key a text that is stored as what was dumped; a key
\* that was pasted back holds it again, or is about to.
PasteInv ==
  /\ backup # <<>> => \A k \in Plain : Parsed(k, backup[k]) = dumped[k] /\ dumped[k] # Refused
  /\ pasted # {} =>
       /\ backup # <<>> /\ start = "running" /\ ~leaving
       /\ \A i \in DOMAIN job : job[i][1] # "all"
       /\ \A k \in pasted \cap Plain :
            /\ \A i \in DOMAIN job : job[i][1] = k => job[i][2] = dumped[k]
            /\ (\E i \in DOMAIN job : job[i][1] = k) \/ nvs[k] = dumped[k]

SettingsTyped ==
  /\ DOMAIN nvs = Keys \cup {Schema} /\ nvs[Schema] \in {Missing, Current}
  /\ \A k \in Keys : nvs[k] \in Values(k) \cup {Missing}
  /\ job \in Seq(PutSet) /\ start \in {"begin", "settings", "calibrated", "running", "halted"}
  /\ start = "begin" => job = <<>>
  /\ backup # <<>> => \A k \in Printed : backup[k] \in Texts

SettingsInv == SettingsTyped /\ FlashInv /\ ToldInv /\ PasteInv

\* Unless another one than PidTask has written its gain, flash holds it, or is about to.
LiveInv ==
  /\ GainTyped
  /\ start = "running" /\ ~leaving /\ ~behind =>
       /\ \A i \in DOMAIN job : job[i][1] # "all"
       /\ \A i \in DOMAIN job : job[i][1] = "pid.r.p" => job[i][2] = Num(live)
       /\ \/ \E i \in DOMAIN job : job[i][1] = "pid.r.p"
          \/ \E n \in Nat : nvs["pid.r.p"] = Num(n) /\ Rounded(n) = live

(***************************************************************************)
(* What is shown of a key is stored as the same value                      *)
(***************************************************************************)

\* A float reads as a number.
LEMMA ReadFloat ==
  ASSUME NEW k \in Floats, nvs[k] \in Values(k) \cup {Missing}
  PROVE  \E n \in Nat : Read(k) = Num(n)
<1>1. CASE nvs[k] = Missing
  BY <1>1, KeyKinds DEF Read, Zero
<1>2. CASE nvs[k] # Missing
  <2>1. PICK n \in Nat : nvs[k] = Num(n)
    BY <1>2 DEF Values, Floats
  <2>2. Read(k) = Num(Rounded(n))
    BY <1>2, <2>1, KeyKinds DEF Read, Num
  <2>3. Rounded(n) \in Nat
    BY DEF Rounded
  <2> QED
    BY <2>2, <2>3
<1> QED
  BY <1>1, <1>2

\* Bytes and options read as what is stored, and as zero when they are missing.
LEMMA ReadByte ==
  ASSUME NEW k \in Enums \cup Bytes, nvs[k] \in Values(k) \cup {Missing}
  PROVE  /\ nvs[k] # Missing => Read(k) = nvs[k]
         /\ nvs[k] = Missing => Read(k) = Zero
         /\ \E n \in 0 .. 255 : Read(k) = Num(1000 * n) /\ ToInt(Read(k)) = n
<1>1. RowOf[k].kind \in {"enum", "byte", "channel"}
  BY KeyKinds
<1>2. /\ nvs[k] # Missing => Read(k) = nvs[k]
      /\ nvs[k] = Missing => Read(k) = Zero
  BY <1>1 DEF Read
<1>3. Values(k) = ByteValues
  BY DEF Values, Enums, Bytes, Floats
<1>4. Zero \in ByteValues
  <2>1. 0 \in 0 .. 255 /\ 1000 * 0 = 0
    OBVIOUS
  <2> QED
    BY <2>1 DEF Zero, ByteValues
<1>5. Read(k) \in ByteValues
  BY <1>2, <1>3, <1>4
<1> QED
  BY <1>2, <1>5, ByteInts

\* An option is shown by its name, an index that is none as it is.
LEMMA ShownEnum ==
  ASSUME NEW k \in Enums, nvs[k] \in Values(k) \cup {Missing}
  PROVE  \E n \in 0 .. 255 :
           /\ Read(k) = Num(1000 * n)
           /\ \/ n + 1 \in DOMAIN RowOf[k].options /\ Shown(k) = Word(RowOf[k].options[n + 1])
              \/ Shown(k) = Read(k) /\ ToInt(Read(k)) = n
<1>1. RowOf[k].kind = "enum"
  BY KeyKinds
<1>2. PICK n \in 0 .. 255 : Read(k) = Num(1000 * n) /\ ToInt(Read(k)) = n
  BY ReadByte
<1>3. Len(RowOf[k].options) \in Nat /\ DOMAIN RowOf[k].options = 1 .. Len(RowOf[k].options)
  BY OptionsApart
<1>4. CASE n < Len(RowOf[k].options)
  <2>1. Shown(k) = Word(RowOf[k].options[n + 1])
    BY <1>1, <1>2, <1>4 DEF Shown
  <2>2. \A l \in Nat : n < l => n + 1 \in 1 .. l
    OBVIOUS
  <2>3. n + 1 \in DOMAIN RowOf[k].options
    BY <1>3, <1>4, <2>2
  <2> QED
    BY <1>2, <2>1, <2>3
<1>5. CASE ~(n < Len(RowOf[k].options))
  <2>1. Shown(k) = Read(k)
    BY <1>1, <1>2, <1>5 DEF Shown
  <2> QED
    BY <1>2, <2>1
<1> QED
  BY <1>4, <1>5

\* What is shown of a key is a text that can be typed back.
LEMMA ShownText ==
  ASSUME NEW k \in Keys, nvs[k] \in Values(k) \cup {Missing}
  PROVE  Shown(k) \in Texts
<1>1. CASE k = "system.name"
  <2>1. Shown(k) = Read(k) /\ (Read(k) = nvs[k] \/ Read(k) = Word(""))
    BY <1>1, KeyKinds DEF Shown, Read
  <2>2. nvs[k] # Missing => nvs[k] \in Texts
    BY <1>1 DEF Values
  <2>3. Word("") \in Texts
    BY DEF Texts, AllWords
  <2>4. nvs[k] = Missing => Read(k) = Word("")
    BY <1>1, KeyKinds DEF Read
  <2> QED
    BY <2>1, <2>2, <2>3, <2>4
<1>2. CASE k \in Floats
  <2>1. PICK n \in Nat : Read(k) = Num(n)
    BY <1>2, ReadFloat
  <2>2. Shown(k) = Num(n) \/ Shown(k) = Num(1000 * Hundredths(n))
    BY <1>2, <2>1, KeyKinds DEF Shown, Num
  <2>3. 1000 * Hundredths(n) \in Nat
    <3>1. 10 \in Nat \ {0}
      OBVIOUS
    <3>2. Hundredths(n) \in Nat
      BY <3>1, IntOf, SMTT(60) DEF Hundredths
    <3> HIDE DEF Hundredths
    <3> QED
      BY <3>2
  <2> QED
    BY <2>2, <2>3 DEF Texts
<1>3. CASE k \in Enums
  <2>1. PICK n \in 0 .. 255 :
          /\ Read(k) = Num(1000 * n)
          /\ \/ n + 1 \in DOMAIN RowOf[k].options /\ Shown(k) = Word(RowOf[k].options[n + 1])
             \/ Shown(k) = Read(k) /\ ToInt(Read(k)) = n
    BY <1>3, ShownEnum
  <2>2. \A i \in DOMAIN RowOf[k].options : RowOf[k].options[i] \in AllWords
    <3>1. \A i \in DOMAIN RowOf[k].options :
            RowOf[k].options[i] \in {"MPU6050", "NONE", "LPF_256HZ", "LPF_188HZ", "LPF_98HZ", "IBUS", "PPM"}
      <4>1. CASE k = "imu.type"
        BY <4>1, KeyOptions
      <4>2. CASE k = "imu.lpf_bw"
        BY <4>2, KeyOptions
      <4>3. CASE k = "rc.proto"
        BY <4>3, KeyOptions
      <4> QED
        BY <1>3, <4>1, <4>2, <4>3 DEF Enums
    <3> QED
      BY <3>1 DEF AllWords
  <2>3. 1000 * n \in Nat
    OBVIOUS
  <2> QED
    BY <2>1, <2>2, <2>3 DEF Texts
<1>4. CASE k \in Bytes
  <2>1. PICK n \in 0 .. 255 : Read(k) = Num(1000 * n)
    BY <1>4, ReadByte
  <2>2. Shown(k) = Num(1000 * n) \/ Shown(k) = Num(1000 * n + 1000)
    BY <1>4, <2>1, KeyKinds DEF Shown, Num
  <2>3. 1000 * n \in Nat /\ 1000 * n + 1000 \in Nat
    OBVIOUS
  <2> QED
    BY <2>2, <2>3 DEF Texts
<1> QED
  BY <1>1, <1>2, <1>3, <1>4, KeyKinds

\* The keys that a pasted backup keeps.
LEMMA PlainKeys == Plain = {"system.name", "imu.type", "imu.lpf_bw", "rc.proto", "arm.auto_disarm"}
<1>1. /\ RowOf["system.name"].kind = "text" /\ RowOf["imu.type"].kind = "enum" /\ RowOf["imu.lpf_bw"].kind = "enum"
      /\ RowOf["mpu.g_off.x"].kind = "float" /\ RowOf["rc.proto"].kind = "enum" /\ RowOf["rc.roll"].kind = "channel"
      /\ RowOf["pid.r.p"].kind = "gain" /\ RowOf["arm.auto_disarm"].kind = "byte" /\ RowOf["filter.lpf_hz"].kind = "float"
  BY RowsByKey, Rows DEF Row
<1> QED
  BY <1>1, KeyNames DEF Plain

\* What is shown of a text, an option or a byte is stored as the same value.
LEMMA ShownBack ==
  ASSUME NEW k \in Plain, nvs[k] \in Values(k)
  PROVE  Parsed(k, Shown(k)) = nvs[k] /\ nvs[k] # Refused
<1>1. nvs[k] # Refused /\ nvs[k] # Missing
  <2>1. \A v \in Texts : v # Refused /\ v # Missing
    BY TextNumbers DEF Texts, NoText, Refused, Missing
  <2> QED
    BY <2>1, ValuesAreTexts
<1>2. CASE k = "system.name"
  <2>1. Shown(k) = nvs[k]
    BY <1>1, <1>2, KeyKinds DEF Shown, Read
  <2> QED
    BY <1>1, <1>2, <2>1, ParsedText
<1>3. CASE k \in Enums
  <2> DEFINE options == RowOf[k].options
             choice == Chosen(options, Shown(k))
  <2>1. Read(k) = nvs[k]
    BY <1>1, <1>3, ReadByte
  <2>2. PICK n \in 0 .. 255 :
          /\ Read(k) = Num(1000 * n)
          /\ \/ n + 1 \in DOMAIN options /\ Shown(k) = Word(options[n + 1])
             \/ Shown(k) = Read(k) /\ ToInt(Read(k)) = n
    BY <1>3, ShownEnum
  <2>3. Parsed(k, Shown(k)) = IF choice # {} THEN Num(1000 * ((CHOOSE i \in choice : TRUE) - 1))
                              ELSE ByteOf(ToInt(Shown(k)))
    BY <1>3, ParsedEnum
  <2>4. CASE n + 1 \in DOMAIN options /\ Shown(k) = Word(options[n + 1])
    <3>1. choice = {n + 1}
      BY <1>3, <2>4, OptionsApart
    <3> HIDE DEF choice
    <3>2. (CHOOSE i \in choice : TRUE) = n + 1
      BY <3>1
    <3>3. Parsed(k, Shown(k)) = Num(1000 * ((n + 1) - 1))
      BY <2>3, <3>1, <3>2
    <3>4. (n + 1) - 1 = n
      OBVIOUS
    <3> QED
      BY <1>1, <2>1, <2>2, <3>3, <3>4
  <2>5. CASE Shown(k) = Read(k) /\ ToInt(Read(k)) = n
    <3>0. Shown(k) = Num(1000 * n)
      BY <2>2, <2>5
    <3> DEFINE m == 1000 * n
    <3>1. choice = {}
      <4> HIDE DEF m
      <4>1. Chosen(options, Num(m)) = {}
        BY <1>3, OptionsApart
      <4>2. Shown(k) = Num(m)
        BY <3>0 DEF m
      <4> QED
        BY <4>1, <4>2
    <3>2. Parsed(k, Shown(k)) = ByteOf(n)
      BY <2>3, <2>5, <3>1
    <3>3. ByteOf(n) = Num(1000 * n)
      BY DEF ByteOf
    <3> QED
      BY <1>1, <2>1, <2>2, <3>2, <3>3
  <2> QED
    BY <2>2, <2>4, <2>5
<1>4. CASE k = "arm.auto_disarm"
  <2>1. k \in Bytes /\ RowOf[k].kind = "byte"
    BY <1>4, RowsByKey, Rows DEF Row, Bytes
  <2>2. PICK n \in 0 .. 255 : Read(k) = Num(1000 * n) /\ ToInt(Read(k)) = n
    BY <2>1, ReadByte
  <2>3. Read(k) = nvs[k]
    BY <1>1, <2>1, ReadByte
  <2>4. Shown(k) = Read(k)
    BY <2>1 DEF Shown
  <2>5. Parsed(k, Shown(k)) = ByteOf(n)
    BY <2>1, <2>2, <2>4, ParsedByte
  <2>6. ByteOf(n) = Num(1000 * n)
    BY DEF ByteOf
  <2> QED
    BY <1>1, <2>2, <2>3, <2>5, <2>6
<1> QED
  BY <1>2, <1>3, <1>4, PlainKeys DEF Enums

(***************************************************************************)
(* The command that a line begins with                                     *)
(***************************************************************************)
\* A word begins a line of two that has it in front.
LEMMA ShortPrefix ==
  ASSUME NEW a, NEW x, NEW y
  PROVE  IsPrefix(<<a>>, <<x, y>>) <=> (a = x)
BY DEF IsPrefix

\* Two words begin a line of two that has both.
LEMMA LongPrefix ==
  ASSUME NEW a, NEW b, NEW x, NEW y
  PROVE  IsPrefix(<<a, b>>, <<x, y>>) <=> (a = x /\ b = y)
BY DEF IsPrefix

\* A word begins a line of three that has it in front.
LEMMA ShortOfThree ==
  ASSUME NEW a, NEW x, NEW y, NEW z
  PROVE  IsPrefix(<<a>>, <<x, y, z>>) <=> (a = x)
BY DEF IsPrefix

\* Two words begin a line of three that has both in front.
LEMMA LongOfThree ==
  ASSUME NEW a, NEW b, NEW x, NEW y, NEW z
  PROVE  IsPrefix(<<a, b>>, <<x, y, z>>) <=> (a = x /\ b = y)
BY DEF IsPrefix

\* The second words of the commands that begin with "set", and with "get".
SetNames == {"rx.pin", "rx.protocol", "imu.lpf_bandwidth", "rx.channel.roll", "pid", "filter.lpf_hz"}
GetNames == {"rx.pin", "rx.status", "rx.value.roll", "rx.value.all", "imu.lpf_bandwidth", "filter.lpf_hz", "pid"}
Names(verb) == IF verb = "set" THEN SetNames ELSE GetNames

\* A command is one word, or a verb and a name that belongs to it.
LEMMA CommandForms ==
  ASSUME NEW c \in Commands, NEW verb \in {"set", "get"}
  PROVE  \/ \E a : c = <<a>>
         \/ \E a, b : c = <<a, b>> /\ (a = verb => b \in Names(verb))
BY DEF Commands, Names, SetNames, GetNames

\* Verbs are commands, alone and with each of their names.
LEMMA CommandNames ==
  ASSUME NEW verb \in {"set", "get"}
  PROVE  <<verb>> \in Commands /\ \A name \in Names(verb) : <<verb, name>> \in Commands
<1>1. CASE verb = "set"
  BY <1>1 DEF Commands, Names, SetNames
<1>2. CASE verb = "get"
  BY <1>2 DEF Commands, Names, GetNames
<1> QED
  BY <1>1, <1>2

\* No command has more than two words.
LEMMA CommandLengths == \A c \in Commands : Len(c) \in {1, 2}
BY DEF Commands

\* Of the commands that a line begins with, the longest takes it.
LEMMA Longest ==
  ASSUME NEW input, NEW best \in Commands, IsPrefix(best, input.words),
         \A c \in Commands : IsPrefix(c, input.words) => c = best \/ (Len(c) = 1 /\ Len(best) = 2)
  PROVE  Command(input) = best
<1> DEFINE P(c) == IsPrefix(c, input.words) /\ \A d \in Commands : IsPrefix(d, input.words) => Len(d) <= Len(c)
<1>1. P(best)
  <2>1. \A n \in {1, 2} : n <= n
    OBVIOUS
  <2>2. 1 <= 2
    OBVIOUS
  <2> QED
    BY <2>1, <2>2, CommandLengths, Zenon
<1>2. ASSUME NEW c \in Commands, P(c) PROVE c = best
  <2>1. Len(best) <= Len(c)
    BY <1>2
  <2>2. ~(2 <= 1)
    OBVIOUS
  <2> QED
    BY <1>2, <2>1, <2>2, Zenon
<1>3. Command(input) = CHOOSE c \in Commands : P(c)
  BY DEF Command
<1> HIDE DEF P
<1> QED
  BY <1>1, <1>2, <1>3

\* A line of a verb and a name is taken by the command of that name, if there is one.
LEMMA TwoWords ==
  ASSUME NEW verb \in {"set", "get"}, NEW name, NEW input, input.words = <<verb, name>>
  PROVE  /\ name \in Names(verb) => Command(input) = <<verb, name>> /\ Args(input) = <<>>
         /\ name \notin Names(verb) => Command(input) = <<verb>> /\ Args(input) = <<name>>
<1>1. ASSUME NEW c \in Commands, IsPrefix(c, <<verb, name>>)
      PROVE  c = <<verb>> \/ (name \in Names(verb) /\ c = <<verb, name>>)
  <2>1. ASSUME NEW a, c = <<a>> PROVE c = <<verb>>
    BY <1>1, <2>1, ShortPrefix
  <2>2. ASSUME NEW a, NEW b, c = <<a, b>>, a = verb => b \in Names(verb)
        PROVE name \in Names(verb) /\ c = <<verb, name>>
    BY <1>1, <2>2, LongPrefix
  <2> QED
    BY <2>1, <2>2, CommandForms
<1>2. IsPrefix(<<verb>>, <<verb, name>>) /\ IsPrefix(<<verb, name>>, <<verb, name>>)
  BY ShortPrefix, LongPrefix
<1>3. Len(<<verb>>) = 1 /\ Len(<<verb, name>>) = 2
  OBVIOUS
<1>4. ASSUME name \in Names(verb) PROVE Command(input) = <<verb, name>> /\ Args(input) = <<>>
  <2>1. Command(input) = <<verb, name>>
    BY <1>1, <1>2, <1>3, <1>4, CommandNames, Longest
  <2> QED
    BY <2>1 DEF Args
<1>5. ASSUME name \notin Names(verb) PROVE Command(input) = <<verb>> /\ Args(input) = <<name>>
  <2>1. Command(input) = <<verb>>
    BY <1>1, <1>2, <1>5, CommandNames, Longest
  <2>2. Args(input) = SubSeq(<<verb, name>>, 2, 2)
    BY <2>1 DEF Args
  <2>3. ASSUME NEW x, NEW y PROVE SubSeq(<<x, y>>, 2, 2) = <<y>>
    <3> DEFINE s == SubSeq(<<x, y>>, 2, 2)
    <3>1. s \in Seq({x, y}) /\ Len(s) = 1 /\ s[1] = y
      OBVIOUS
    <3> HIDE DEF s
    <3>2. s = <<s[1]>>
      BY <3>1
    <3> QED
      BY <3>1, <3>2 DEF s
  <2> QED
    BY <2>1, <2>2, <2>3
<1> QED
  BY <1>4, <1>5

\* The word behind a verb and its name is the command's argument.
LEMMA ThreeWords ==
  ASSUME NEW verb \in {"set", "get"}, NEW name \in Names(verb), NEW word, NEW input, input.words = <<verb, name, word>>
  PROVE  Command(input) = <<verb, name>> /\ Args(input) = <<word>>
<1>1. ASSUME NEW c \in Commands, IsPrefix(c, <<verb, name, word>>)
      PROVE  c = <<verb>> \/ c = <<verb, name>>
  <2>1. ASSUME NEW a, c = <<a>> PROVE c = <<verb>>
    BY <1>1, <2>1, ShortOfThree
  <2>2. ASSUME NEW a, NEW b, c = <<a, b>> PROVE c = <<verb, name>>
    BY <1>1, <2>2, LongOfThree
  <2> QED
    BY <2>1, <2>2, CommandForms
<1>2. IsPrefix(<<verb, name>>, <<verb, name, word>>)
  BY LongOfThree
<1>3. Len(<<verb>>) = 1 /\ Len(<<verb, name>>) = 2
  OBVIOUS
<1>4. Command(input) = <<verb, name>>
  BY <1>1, <1>2, <1>3, CommandNames, Longest
<1>5. Args(input) = SubSeq(<<verb, name, word>>, 3, 3)
  BY <1>4 DEF Args
<1>6. ASSUME NEW x, NEW y, NEW z PROVE SubSeq(<<x, y, z>>, 3, 3) = <<z>>
  <2> DEFINE s == SubSeq(<<x, y, z>>, 3, 3)
  <2>1. s \in Seq({x, y, z}) /\ Len(s) = 1 /\ s[1] = z
    OBVIOUS
  <2> HIDE DEF s
  <2>2. s = <<s[1]>>
    BY <2>1
  <2> QED
    BY <2>1, <2>2 DEF s
<1> QED
  BY <1>4, <1>5, <1>6

\* A line of a backup puts what its text is stored as under its key; the lines of
\* the pin and of the cutoff reach no general handler.
LEMMA SettingPuts ==
  ASSUME NEW key \in Keys, NEW t
  PROVE  PutsOf(Setting(key, t)) = IF key \in SetNames THEN <<>> ELSE Puts(key, t)
<1> DEFINE input == Setting(key, t)
<1>1. input.words = <<"set", key>> /\ input.sign = "spaced" /\ input.text = t
  BY DEF Setting, CommandLine
<1>2. CASE key \in SetNames
  <2>1. Command(input) = <<"set", key>> /\ Args(input) = <<>>
    BY <1>1, <1>2, TwoWords DEF Names
  <2>3. key \in {"rx.pin", "filter.lpf_hz"}
    BY <1>2, KeyNames DEF SetNames
  <2>4. <<>> # <<"lpf_hz">> /\ Len(<<>>) # 1
    OBVIOUS
  <2>5. SetSetting(<<>>, "spaced", t) = <<>> /\ SetFilter(<<>>, "spaced", t) = <<>>
    BY <2>4 DEF SetSetting, SetFilter
  <2>6. CASE key = "rx.pin"
    <3>1. Command(input) \in {<<"set">>, <<"set", "rx.pin">>}
      BY <2>1, <2>6
    <3>2. PutsOf(input) = SetSetting(Args(input), input.sign, input.text)
      BY <3>1 DEF PutsOf
    <3> QED
      BY <1>1, <1>2, <2>1, <2>5, <3>2
  <2>7. CASE key = "filter.lpf_hz"
    <3>1. Command(input) = <<"set", "filter.lpf_hz">>
      BY <2>1, <2>7
    <3>2. PutsOf(input) = SetFilter(Args(input), input.sign, input.text)
      BY <3>1 DEF PutsOf
    <3> QED
      BY <1>1, <1>2, <2>1, <2>5, <3>2
  <2> QED
    BY <2>3, <2>6, <2>7
<1>3. CASE key \notin SetNames
  <2>1. Command(input) = <<"set">> /\ Args(input) = <<key>>
    BY <1>1, <1>3, TwoWords DEF Names
  <2>3. PutsOf(input) = SetSetting(Args(input), input.sign, input.text)
    BY <2>1 DEF PutsOf
  <2>4. SetSetting(<<key>>, "spaced", t) = Puts(key, t)
    <3>1. Len(<<key>>) = 1 /\ <<key>>[1] = key /\ "spaced" # ""
      OBVIOUS
    <3> QED
      BY <3>1 DEF SetSetting
  <2> QED
    BY <1>1, <1>3, <2>1, <2>3, <2>4
<1> QED
  BY <1>2, <1>3

\* The categories reach every key.
LEMMA AllPrinted == Printed = Keys
<1>1. \A k \in Keys : RowOf[k].prefix \in {"system", "imu", "mpu", "rc", "rx", "pid", "arm", "filter"}
  <2>1. \A i \in 1 .. 10 : Table[i].prefix \in {"system", "imu", "mpu", "rc", "rx", "pid", "arm", "filter"}
    BY Rows DEF Row
  <2> QED
    BY <2>1, KeyNames, RowsByKey
<1>2. \A c \in {"system", "imu", "rx", "motor", "pid", "filter", "settings"} : c \in ToSet(Categories)
  <2>1. /\ DOMAIN Categories = 1 .. 7 /\ Categories[1] = "system" /\ Categories[2] = "imu" /\ Categories[3] = "rx"
        /\ Categories[4] = "motor" /\ Categories[5] = "pid" /\ Categories[6] = "filter" /\ Categories[7] = "settings"
    BY DEF Categories
  <2> QED
    BY <2>1 DEF ToSet
<1>3. \A k \in Keys : Category(RowOf[k].prefix) \in {"system", "imu", "rx", "motor", "pid", "filter", "settings"}
  BY <1>1 DEF Category
<1> QED
  BY <1>2, <1>3 DEF Printed

(***************************************************************************)
(* Steps that keep the invariant                                           *)
(***************************************************************************)

\* The first element of a sequence, and the places of the others.
LEMMA TailOf ==
  ASSUME NEW S, NEW s \in Seq(S), s # <<>>
  PROVE  /\ Tail(s) \in Seq(S) /\ Len(s) \in Nat /\ 1 \in DOMAIN s /\ Head(s) = s[1] /\ s[1] \in S
         /\ Len(Tail(s)) + 1 = Len(s) /\ DOMAIN s = 1 .. Len(s) /\ DOMAIN Tail(s) \subseteq Nat
         /\ \A i \in DOMAIN Tail(s) : i + 1 \in DOMAIN s /\ i + 1 > 1 /\ Tail(s)[i] = s[i + 1]
         /\ \A j \in DOMAIN s : j # 1 => j - 1 \in DOMAIN Tail(s) /\ Tail(s)[j - 1] = s[j]
OBVIOUS

\* A put clears the flash, or writes the version, or a value of its key.
LEMMA PutIs ==
  ASSUME NEW p \in PutSet
  PROVE  \/ p[1] = "all"
         \/ p[1] = Schema /\ p[2] = Current
         \/ p[1] \in Keys /\ p[2] \in Values(p[1]) /\ p[2] # Missing
<1>1. \A v \in Texts : v # Missing
  BY TextNumbers DEF Texts, NoText, Missing
<1> QED
  BY <1>1, ValuesAreTexts, OtherPuts DEF PutSet, Put

\* The flash is not Missing under the version, or is.
LEMMA VersionApart == Current # Missing /\ ToInt(Missing) = 0
BY IntIs DEF Current, Num, Missing, ToInt, ToFloat

\* What a put leaves in flash.
LEMMA PutTyped ==
  ASSUME SettingsInv, MakePut
  PROVE  /\ job \in Seq(PutSet) /\ job # <<>> /\ job' = Tail(job)
         /\ job[1][1] = "all" =>
              (\A k \in Keys \cup {Schema} : nvs'[k] = Missing) /\ told' = {}
         /\ job[1][1] # "all" =>
              /\ told' = told /\ job[1][1] \in Keys \cup {Schema} /\ job[1][2] # Missing
              /\ nvs'[job[1][1]] = job[1][2]
              /\ \A k \in (Keys \cup {Schema}) \ {job[1][1]} : nvs'[k] = nvs[k]
         /\ SettingsTyped'
<1>1. job \in Seq(PutSet) /\ job # <<>> /\ job' = Tail(job) /\ DOMAIN nvs = Keys \cup {Schema}
  BY DEF SettingsInv, SettingsTyped, MakePut
<1>2. Head(job) = job[1] /\ job[1] \in PutSet /\ job' \in Seq(PutSet)
  BY <1>1, TailOf
<1> DEFINE key == job[1][1]
           value == job[1][2]
<1>3. /\ nvs' = IF key = "all" THEN [k \in DOMAIN nvs |-> Missing] ELSE [nvs EXCEPT ![key] = value]
      /\ told' = IF key = "all" THEN {} ELSE told
      /\ start' = start /\ backup' = backup
  BY <1>1, <1>2 DEF MakePut, copies
<1>4. \/ key = "all"
      \/ key = Schema /\ value = Current
      \/ key \in Keys /\ value \in Values(key) /\ value # Missing
  BY <1>2, PutIs
<1> HIDE DEF key, value
<1>5. CASE key = "all"
  <2>1. nvs' = [k \in Keys \cup {Schema} |-> Missing] /\ told' = {}
    BY <1>1, <1>3, <1>5
  <2>2. DOMAIN nvs' = Keys \cup {Schema} /\ \A k \in Keys \cup {Schema} : nvs'[k] = Missing
    BY <2>1
  <2>3. SettingsTyped'
    BY <1>1, <1>2, <1>3, <2>2 DEF SettingsInv, SettingsTyped
  <2> QED
    BY <1>1, <1>5, <2>1, <2>2, <2>3 DEF key
<1>6. CASE key # "all"
  <2>1. key \in Keys \cup {Schema} /\ value # Missing
    BY <1>4, <1>6, VersionApart
  <2>2. nvs' = [nvs EXCEPT ![key] = value] /\ told' = told
    BY <1>3, <1>6
  <2>3. /\ DOMAIN nvs' = Keys \cup {Schema} /\ nvs'[key] = value
        /\ \A k \in (Keys \cup {Schema}) \ {key} : nvs'[k] = nvs[k]
    BY <1>1, <2>1, <2>2
  <2>4. nvs'[Schema] \in {Missing, Current} /\ \A k \in Keys : nvs'[k] \in Values(k) \cup {Missing}
    BY <1>4, <1>6, <2>1, <2>3, OtherPuts DEF SettingsInv, SettingsTyped
  <2>5. SettingsTyped'
    BY <1>1, <1>2, <1>3, <2>3, <2>4 DEF SettingsInv, SettingsTyped
  <2> QED
    BY <1>1, <1>6, <2>1, <2>2, <2>3, <2>5 DEF key, value
<1> QED
  BY <1>5, <1>6

\* What is there before a put is there before the put that follows it.
LEMMA ThereKept ==
  ASSUME SettingsInv, MakePut, NEW k \in Keys, NEW i \in DOMAIN job \cup {Len(job) + 1}, i > 1, There(k, i)
  PROVE  There(k, i - 1)'
<1>1. job \in Seq(PutSet) /\ job # <<>> /\ job' = Tail(job)
  BY PutTyped
<1>2. /\ DOMAIN job' \subseteq Nat /\ 1 \in DOMAIN job /\ DOMAIN job = 1 .. Len(job) /\ Len(job) \in Nat
      /\ \A j \in DOMAIN job' : j + 1 \in DOMAIN job /\ j + 1 > 1 /\ job'[j] = job[j + 1]
      /\ \A j \in DOMAIN job : j # 1 => j - 1 \in DOMAIN job' /\ job'[j - 1] = job[j]
  BY <1>1, TailOf
<1>3. job' # <<>> => 1 \in DOMAIN job' /\ job'[1][1] # "all"
  <2>1. SUFFICES ASSUME job' # <<>> PROVE 1 \in DOMAIN job' /\ job'[1][1] # "all"
    OBVIOUS
  <2>2. job' \in Seq(PutSet)
    BY <1>1, TailOf
  <2>3. 1 \in DOMAIN job'
    BY <2>1, <2>2, TailOf
  <2>4. job'[1] = job[2] /\ 2 \in DOMAIN job
    BY <1>2, <2>3
  <2> QED
    BY <2>3, <2>4 DEF SettingsInv, FlashInv
<1>4. CASE nvs[k] # Missing /\ job[1][1] # "all"
  <2>1. nvs'[k] # Missing
    BY <1>4, PutTyped
  <2> QED
    BY <1>3, <2>1 DEF There
<1>5. ASSUME NEW j \in DOMAIN job, j < i, job[j][1] = k PROVE There(k, i - 1)'
  <2>1. CASE j = 1
    <3>1. job[1][1] # "all"
      BY <1>5, <2>1, OtherPuts
    <3>2. nvs'[k] # Missing
      BY <1>5, <2>1, <3>1, PutTyped
    <3> QED
      BY <1>3, <3>2 DEF There
  <2>2. CASE j # 1
    <3>1. j - 1 \in DOMAIN job' /\ job'[j - 1][1] = k
      BY <1>2, <1>5, <2>2
    <3>2. j - 1 < i - 1
      BY <1>2, <1>5
    <3> QED
      BY <3>1, <3>2 DEF There
  <2> QED
    BY <2>1, <2>2
<1> QED
  BY <1>1, <1>4, <1>5 DEF There

\* A put keeps what is known of the flash.
LEMMA PutFlash ==
  ASSUME SettingsInv, MakePut
  PROVE  FlashInv'
<1>1. job \in Seq(PutSet) /\ job # <<>> /\ job' = Tail(job) /\ start' = start
  BY PutTyped DEF MakePut
<1>2. /\ DOMAIN job' \subseteq Nat /\ 1 \in DOMAIN job /\ DOMAIN job = 1 .. Len(job) /\ Len(job) \in Nat
      /\ \A j \in DOMAIN job' : j + 1 \in DOMAIN job /\ j + 1 > 1 /\ job'[j] = job[j + 1]
      /\ Len(job') + 1 = Len(job)
  BY <1>1, TailOf
<1>3. \A i \in DOMAIN job' : i > 1 => job'[i][1] # "all"
  BY <1>2 DEF SettingsInv, FlashInv
<1>4. nvs'[Schema] # Missing => \A k \in Keys : nvs'[k] # Missing
  <2> SUFFICES ASSUME nvs'[Schema] # Missing, NEW k \in Keys PROVE nvs'[k] # Missing
    OBVIOUS
  <2>1. job[1][1] # "all"
    BY PutTyped
  <2>2. nvs[k] # Missing
    <3>1. CASE job[1][1] = Schema
      <4>1. There(k, 1)
        BY <1>2, <3>1 DEF SettingsInv, FlashInv
      <4>2. \A j \in DOMAIN job : ~(j < 1)
        BY <1>2
      <4> QED
        BY <4>1, <4>2 DEF There
    <3>2. CASE job[1][1] # Schema
      BY <2>1, <3>2, PutTyped DEF SettingsInv, FlashInv
    <3> QED
      BY <3>1, <3>2
  <2> QED
    BY <2>1, <2>2, PutTyped
<1>5. ASSUME NEW i \in DOMAIN job', job'[i][1] = Schema, NEW k \in Keys
      PROVE  There(k, i)'
  <2>1. i + 1 \in DOMAIN job /\ i + 1 > 1 /\ job[i + 1][1] = Schema /\ (i + 1) - 1 = i
    BY <1>2, <1>5
  <2>2. There(k, i + 1)
    BY <2>1 DEF SettingsInv, FlashInv
  <2> QED
    BY <2>1, <2>2, ThereKept
<1>6. ASSUME start' # "begin", NEW k \in Keys
      PROVE  There(k, Len(job) + 1)'
  <2>1. PICK n : n = Len(job) + 1
    OBVIOUS
  <2>2. There(k, n)
    BY <1>1, <1>6, <2>1 DEF SettingsInv, FlashInv
  <2>3. n > 1 /\ n - 1 = Len(job) /\ n \in DOMAIN job \cup {Len(job) + 1}
    <3>1. \A m \in Nat : 1 \in 1 .. m => m + 1 > 1 /\ (m + 1) - 1 = m
      OBVIOUS
    <3> QED
      BY <1>2, <2>1, <3>1
  <2>4. There(k, n - 1)'
    BY <2>2, <2>3, ThereKept
  <2>5. n - 1 = Len(job') + 1
    BY <1>2, <2>3
  <2> QED
    BY <2>4, <2>5 DEF There
<1> QED
  BY <1>3, <1>4, <1>5, <1>6 DEF FlashInv

\* A put writes nothing useless that was not asked for.
LEMMA PutTold ==
  ASSUME SettingsInv, MakePut
  PROVE  ToldInv'
<1>1. job \in Seq(PutSet) /\ job # <<>> /\ job' = Tail(job)
  BY PutTyped
<1>2. /\ 1 \in DOMAIN job
      /\ \A j \in DOMAIN job' : j + 1 \in DOMAIN job /\ job'[j] = job[j + 1]
  BY <1>1, TailOf
<1>3. ASSUME NEW k \in {"imu.type", "rc.proto"}, ToInt(nvs'[k]) >= Limit(k)
      PROVE  k \in told'
  <2>0. k \in Keys /\ 0 < Limit(k) /\ ToInt(Missing) = 0
    BY KeyNames, VersionApart DEF Limit
  <2>1. nvs'[k] # Missing
    BY <1>3, <2>0 DEF Limit
  <2>2. job[1][1] # "all"
    BY <2>0, <2>1, PutTyped
  <2>3. CASE job[1][1] = k
    BY <1>2, <1>3, <2>2, <2>3, PutTyped DEF SettingsInv, ToldInv
  <2>4. CASE job[1][1] # k
    BY <1>3, <2>0, <2>2, <2>4, PutTyped DEF SettingsInv, ToldInv
  <2> QED
    BY <2>3, <2>4
<1>4. ASSUME NEW k \in {"imu.type", "rc.proto"}, NEW i \in DOMAIN job', job'[i][1] = k, ToInt(job'[i][2]) >= Limit(k)
      PROVE  k \in told' /\ \A j \in DOMAIN job' : job'[j][1] # "all"
  <2>1. i + 1 \in DOMAIN job /\ job[i + 1][1] = k /\ ToInt(job[i + 1][2]) >= Limit(k)
    BY <1>2, <1>4
  <2>2. k \in told /\ \A j \in DOMAIN job : job[j][1] # "all"
    BY <2>1 DEF SettingsInv, ToldInv
  <2> QED
    BY <1>2, <2>2, PutTyped
<1> QED
  BY <1>3, <1>4 DEF ToldInv

\* A put leaves what was pasted, or writes it.
LEMMA PutPaste ==
  ASSUME SettingsInv, MakePut
  PROVE  PasteInv'
<1>1. job \in Seq(PutSet) /\ job # <<>> /\ job' = Tail(job)
  BY PutTyped
<1>2. /\ 1 \in DOMAIN job
      /\ \A j \in DOMAIN job' : j + 1 \in DOMAIN job /\ job'[j] = job[j + 1]
      /\ \A j \in DOMAIN job : j # 1 => j - 1 \in DOMAIN job' /\ job'[j - 1] = job[j]
  BY <1>1, TailOf
<1>3. backup' = backup /\ dumped' = dumped /\ pasted' = pasted /\ start' = start /\ leaving' = leaving
  BY DEF MakePut, copies
<1>4. backup' # <<>> => \A k \in Plain : Parsed(k, backup'[k]) = dumped'[k] /\ dumped'[k] # Refused
  BY <1>3 DEF SettingsInv, PasteInv
<1>5. ASSUME pasted' # {}
      PROVE  /\ backup' # <<>> /\ start' = "running" /\ ~leaving'
             /\ \A i \in DOMAIN job' : job'[i][1] # "all"
             /\ \A k \in pasted' \cap Plain :
                  /\ \A i \in DOMAIN job' : job'[i][1] = k => job'[i][2] = dumped'[k]
                  /\ (\E i \in DOMAIN job' : job'[i][1] = k) \/ nvs'[k] = dumped'[k]
  <2>1. /\ backup # <<>> /\ start = "running" /\ ~leaving
        /\ \A i \in DOMAIN job : job[i][1] # "all"
        /\ \A k \in pasted \cap Plain :
             /\ \A i \in DOMAIN job : job[i][1] = k => job[i][2] = dumped[k]
             /\ (\E i \in DOMAIN job : job[i][1] = k) \/ nvs[k] = dumped[k]
    BY <1>3, <1>5 DEF SettingsInv, PasteInv
  <2>2. \A i \in DOMAIN job' : job'[i][1] # "all"
    BY <1>2, <2>1
  <2>3. ASSUME NEW k \in pasted' \cap Plain
        PROVE  /\ \A i \in DOMAIN job' : job'[i][1] = k => job'[i][2] = dumped'[k]
               /\ (\E i \in DOMAIN job' : job'[i][1] = k) \/ nvs'[k] = dumped'[k]
    <3>1. /\ \A i \in DOMAIN job : job[i][1] = k => job[i][2] = dumped[k]
          /\ (\E i \in DOMAIN job : job[i][1] = k) \/ nvs[k] = dumped[k]
      BY <1>3, <2>1, <2>3
    <3>2. \A i \in DOMAIN job' : job'[i][1] = k => job'[i][2] = dumped'[k]
      BY <1>2, <1>3, <3>1
    <3>3. k \in Keys
      BY <2>3 DEF Plain
    <3>4. CASE job[1][1] = k
      BY <1>2, <1>3, <2>1, <3>1, <3>4, PutTyped
    <3>5. CASE job[1][1] # k
      <4>1. nvs'[k] = nvs[k]
        BY <1>2, <2>1, <3>3, <3>5, PutTyped
      <4>2. CASE nvs[k] = dumped[k]
        BY <1>3, <3>2, <4>1, <4>2
      <4>3. ASSUME NEW i \in DOMAIN job, job[i][1] = k PROVE \E j \in DOMAIN job' : job'[j][1] = k
        BY <1>2, <3>5, <4>3
      <4> QED
        BY <3>1, <3>2, <4>2, <4>3
    <3> QED
      BY <3>2, <3>4, <3>5, <1>3
  <2> QED
    BY <1>3, <2>1, <2>2, <2>3
<1> QED
  BY <1>4, <1>5 DEF PasteInv

\* A put keeps the invariant.
LEMMA PutKeeps ==
  ASSUME SettingsInv, MakePut
  PROVE  SettingsInv'
BY PutTyped, PutFlash, PutTold, PutPaste DEF SettingsInv

\* A job that does not clear the flash is begun when no other is under way and
\* every key is there.
LEMMA NewJob ==
  ASSUME SettingsInv, job = <<>>, nvs' = nvs, \A k \in Keys : nvs[k] # Missing,
         NEW t, LineOK(job', t),
         told \subseteq told',
         \A k \in {"imu.type", "rc.proto"}, i \in DOMAIN job' : job'[i][1] = k /\ Useless(k, t) => k \in told'
  PROVE  FlashInv' /\ ToldInv' /\ job' \in Seq(PutSet)
<1>1. /\ job' \in Seq(PutSet)
      /\ \A i \in DOMAIN job' :
           /\ job'[i][1] # "all"
           /\ \A k \in {"imu.type", "rc.proto"} :
                job'[i][1] = k /\ ToInt(job'[i][2]) >= Limit(k) => Useless(k, t)
  BY DEF LineOK
<1>2. job' # <<>> => job'[1][1] # "all"
  BY <1>1, TailOf
<1>3. \A k \in Keys : nvs'[k] # Missing /\ (job' # <<>> => job'[1][1] # "all")
  BY <1>2
<1>4. FlashInv'
  BY <1>1, <1>3 DEF FlashInv, There
<1>5. ToldInv'
  BY <1>1 DEF SettingsInv, ToldInv
<1> QED
  BY <1>1, <1>4, <1>5

\* So is a reset of all settings, whatever is there.
LEMMA NewReset ==
  ASSUME SettingsInv, nvs' = nvs, job' = FactoryReset, told' = told
  PROVE  FlashInv' /\ ToldInv' /\ job' \in Seq(PutSet)
<1>1. job' \in Seq(PutSet) /\ Len(job') = 12 /\ DOMAIN job' = 1 .. 12
  <2>1. FactoryReset \in Seq(PutSet) /\ Len(FactoryReset) = 12
    BY ResetJob
  <2> QED
    BY <2>1
<1>2. /\ \A i \in 2 .. 12 : job'[i][1] # "all"
      /\ \A i \in 1 .. 12 : job'[i][1] = Schema => i = 12
      /\ \A k \in Keys : \E j \in 2 .. 11 : job'[j][1] = k
      /\ \A k \in {"imu.type", "rc.proto"}, i \in 1 .. 12 : job'[i][1] = k => ToInt(job'[i][2]) < Limit(k)
  BY ResetWrites
<1>3. ASSUME NEW k \in Keys PROVE There(k, 12)' /\ There(k, Len(job) + 1)'
  <2>1. PICK j \in 2 .. 11 : job'[j][1] = k
    BY <1>2
  <2>2. j \in DOMAIN job' /\ j < 12 /\ j < Len(job') + 1
    BY <1>1
  <2> QED
    BY <2>1, <2>2 DEF There
<1>4. \A i \in 1 .. 12 : i > 1 => i \in 2 .. 12
  OBVIOUS
<1>5. FlashInv'
  <2>1. \A i \in DOMAIN job' : i > 1 => job'[i][1] # "all"
    BY <1>1, <1>2, <1>4
  <2>2. nvs'[Schema] # Missing => \A k \in Keys : nvs'[k] # Missing
    BY DEF SettingsInv, FlashInv
  <2>3. ASSUME NEW i \in DOMAIN job', job'[i][1] = Schema, NEW k \in Keys PROVE There(k, i)'
    <3>1. i = 12
      BY <1>1, <1>2, <2>3
    <3> QED
      BY <1>3, <3>1
  <2> QED
    BY <1>3, <2>1, <2>2, <2>3 DEF FlashInv
<1>6. ToldInv'
  <2>1. \A k \in {"imu.type", "rc.proto"} : Limit(k) \in {1, 2}
    BY DEF Limit
  <2>2. ASSUME NEW k \in {"imu.type", "rc.proto"}, NEW i \in DOMAIN job', job'[i][1] = k, ToInt(job'[i][2]) >= Limit(k)
        PROVE  FALSE
    <3>0. job'[i] \in PutSet
      <4>1. \A S : \A s \in Seq(S) : \A n \in DOMAIN s : s[n] \in S
        OBVIOUS
      <4> QED
        BY <1>1, <2>2, <4>1, Zenon
    <3>1. k # "all" /\ k # Schema /\ k \in Enums
      BY DEF Schema, Enums
    <3>2. job'[i][2] \in ByteValues
      BY <2>2, <3>0, <3>1, PutIs DEF Values, Enums, Floats
    <3>3. ToInt(job'[i][2]) \in Nat
      BY <3>2, ByteInts
    <3>4. ToInt(job'[i][2]) < Limit(k)
      BY <1>1, <1>2, <2>2
    <3> QED
      BY <2>1, <2>2, <3>3, <3>4
  <2>3. \A k \in {"imu.type", "rc.proto"} : ToInt(nvs'[k]) >= Limit(k) => k \in told'
    BY DEF SettingsInv, ToldInv
  <2> QED
    BY <2>2, <2>3 DEF ToldInv
<1> QED
  BY <1>1, <1>5, <1>6

\* While nothing is to be put and the start has begun, every key is in flash.
LEMMA AllThere ==
  ASSUME SettingsInv, job = <<>>, start # "begin"
  PROVE  \A k \in Keys : nvs[k] # Missing /\ nvs[k] \in Values(k)
<1> TAKE k \in Keys
<1>1. There(k, Len(job) + 1)
  BY DEF SettingsInv, FlashInv
<1>2. nvs[k] # Missing
  BY <1>1 DEF There
<1> QED
  BY <1>2 DEF SettingsInv, SettingsTyped

\* What is left of a typed state when the flash and the backup are.
LEMMA TypedStep ==
  ASSUME SettingsInv, nvs' = nvs, backup' = backup, job' \in Seq(PutSet),
         start' \in {"begin", "settings", "calibrated", "running", "halted"}, start' = "begin" => job' = <<>>
  PROVE  SettingsTyped'
BY DEF SettingsInv, SettingsTyped

\* Nothing is pasted any more, or not yet.
LEMMA NotPasted ==
  ASSUME SettingsInv, pasted' = {}, backup' = backup, dumped' = dumped
  PROVE  PasteInv'
BY DEF SettingsInv, PasteInv

\* A restart keeps the invariant.
LEMMA RestartKeeps ==
  ASSUME SettingsInv, Restart
  PROVE  SettingsInv'
<1>1. /\ start' = "begin" /\ job' = <<>> /\ pasted' = {} /\ nvs' = nvs /\ backup' = backup /\ dumped' = dumped
      /\ told' = told
  BY DEF Restart, copies
<1>2. SettingsTyped'
  BY <1>1, TypedStep
<1>3. FlashInv' /\ ToldInv'
  BY <1>1 DEF SettingsInv, FlashInv, ToldInv
<1> QED
  BY <1>1, <1>2, <1>3, NotPasted DEF SettingsInv

\* Before the firmware runs nothing has been pasted.
LEMMA NothingPasted ==
  ASSUME SettingsInv, start # "running"
  PROVE  pasted = {}
BY DEF SettingsInv, PasteInv

\* The begin of the settings keeps the invariant.
LEMMA BeginKeeps ==
  ASSUME SettingsInv, BeginSettings
  PROVE  SettingsInv'
<1>1. /\ start = "begin" /\ start' = "settings" /\ nvs' = nvs /\ backup' = backup /\ dumped' = dumped
      /\ pasted' = pasted /\ told' = told /\ job' = IF nvs[Schema] = Current THEN <<>> ELSE FactoryReset
  BY DEF BeginSettings, copies, user
<1>2. job = <<>> /\ pasted' = {}
  BY <1>1, NothingPasted DEF SettingsInv, SettingsTyped
<1>3. FlashInv' /\ ToldInv' /\ job' \in Seq(PutSet)
  <2>1. CASE nvs[Schema] = Current
    <3>1. \A k \in Keys : nvs[k] # Missing
      BY <2>1, VersionApart DEF SettingsInv, FlashInv
    <3>2. job' = <<>>
      BY <1>1, <2>1
    <3>3. LineOK(job', NoText)
      BY <3>2, Empty
    <3>4. DOMAIN job' = {}
      BY <3>2
    <3> QED
      BY <1>1, <1>2, <3>1, <3>3, <3>4, NewJob
  <2>2. CASE nvs[Schema] # Current
    BY <1>1, <2>2, NewReset
  <2> QED
    BY <2>1, <2>2
<1>4. SettingsTyped'
  BY <1>1, <1>3, TypedStep
<1> QED
  BY <1>1, <1>2, <1>3, <1>4, NotPasted DEF SettingsInv

\* Calibration keeps the invariant.
LEMMA CalibrateKeeps ==
  ASSUME SettingsInv, CalibrateImu
  PROVE  SettingsInv'
<1>1. /\ start = "settings" /\ job = <<>> /\ start' \in {"calibrated", "halted"} /\ nvs' = nvs /\ backup' = backup
      /\ dumped' = dumped /\ pasted' = pasted /\ told' = told
      /\ job' = <<>> \/ job' = <<Put("mpu.g_off.x", Measured)>> \o SchemaPut
  BY DEF CalibrateImu, copies, user
<1>2. pasted' = {}
  BY <1>1, NothingPasted
<1>3. LineOK(job', NoText)
  BY <1>1, Empty, OffsetsJob
<1>4. \A k \in {"imu.type", "rc.proto"} : ~Useless(k, NoText)
  <2>1. ToInt(NoText) = 0 /\ NoText # Word("NONE")
    BY IntIs DEF ToInt, ToFloat, NoText, Word
  <2> QED
    BY <2>1 DEF Useless
<1>5. FlashInv' /\ ToldInv' /\ job' \in Seq(PutSet)
  BY <1>1, <1>3, <1>4, AllThere, NewJob
<1>6. SettingsTyped'
  BY <1>1, <1>5, TypedStep
<1> QED
  BY <1>1, <1>2, <1>5, <1>6, NotPasted DEF SettingsInv

\* The start of the tasks keeps the invariant.
LEMMA StartKeeps ==
  ASSUME SettingsInv, StartTasks
  PROVE  SettingsInv'
<1>1. /\ start = "calibrated" /\ job = <<>> /\ start' = "running" /\ nvs' = nvs /\ backup' = backup
      /\ dumped' = dumped /\ pasted' = pasted /\ told' = told /\ job' = <<>>
  BY DEF StartTasks, copies, user
<1>2. pasted' = {} /\ DOMAIN job' = {}
  BY <1>1, NothingPasted
<1>3. LineOK(job', NoText)
  BY <1>1, Empty
<1>5. FlashInv' /\ ToldInv' /\ job' \in Seq(PutSet)
  BY <1>1, <1>2, <1>3, AllThere, NewJob
<1>6. SettingsTyped'
  BY <1>1, <1>5, TypedStep
<1> QED
  BY <1>1, <1>2, <1>5, <1>6, NotPasted DEF SettingsInv

\* A dump prints texts that are stored as what is in flash.
LEMMA DumpKeeps ==
  ASSUME SettingsInv, Dump
  PROVE  SettingsInv'
<1>1. /\ start = "running" /\ job = <<>> /\ pasted' = {} /\ nvs' = nvs /\ start' = start /\ job' = job
      /\ told' = told /\ backup' = [k \in Printed |-> Shown(k)] /\ dumped' = [k \in Keys |-> nvs[k]]
  BY DEF Dump, Ready
<1>2. \A k \in Keys : nvs[k] \in Values(k) /\ nvs[k] # Missing
  BY <1>1, AllThere
<1>3. \A k \in Keys : backup'[k] = Shown(k) /\ dumped'[k] = nvs[k]
  BY <1>1, AllPrinted
<1>4. \A k \in Keys : backup'[k] \in Texts
  BY <1>2, <1>3, ShownText
<1>5. \A k \in Plain : Parsed(k, backup'[k]) = dumped'[k] /\ dumped'[k] # Refused
  <2> TAKE k \in Plain
  <2>1. k \in Keys
    BY DEF Plain
  <2>2. Parsed(k, Shown(k)) = nvs[k] /\ nvs[k] # Refused
    BY <1>2, <2>1, ShownBack
  <2> QED
    BY <1>3, <2>1, <2>2
<1>6. SettingsTyped'
  BY <1>1, <1>4, AllPrinted DEF SettingsInv, SettingsTyped
<1>7. PasteInv'
  BY <1>1, <1>5 DEF PasteInv
<1>8. FlashInv' /\ ToldInv'
  BY <1>1 DEF SettingsInv, FlashInv, ToldInv, There
<1> QED
  BY <1>6, <1>7, <1>8 DEF SettingsInv

\* A reset of a running firmware keeps the invariant.
LEMMA ResetKeeps ==
  ASSUME SettingsInv, job = <<>>, start = "running", start' = start, job' = FactoryReset, pasted' = {}, nvs' = nvs,
         backup' = backup, dumped' = dumped, told' = told
  PROVE  SettingsInv'
<1>1. FlashInv' /\ ToldInv' /\ job' \in Seq(PutSet)
  BY NewReset
<1>2. SettingsTyped'
  BY <1>1, TypedStep
<1> QED
  BY <1>1, <1>2, NotPasted DEF SettingsInv

\* With an empty payload, MSP saves, resets or leaves the settings alone.
LEMMA ThreeJobs ==
  ASSUME NEW puts \in MspJobs
  PROVE  puts = SchemaPut \/ puts = FactoryReset \/ puts = <<>>
<1>1. PICK taken \in MspCommands, text \in Typed : puts = MspPuts(taken, Received, text)
  BY DEF MspJobs
<1>2. ~(Received >= 2) /\ Received # 18 /\ Received # 20
  BY DEF Received
<1> QED
  BY <1>1, <1>2 DEF MspPuts

\* A command by MSP keeps the invariant.
LEMMA MspKeeps ==
  ASSUME SettingsInv, MspCommand
  PROVE  SettingsInv'
<1>1. /\ start = "running" /\ job = <<>> /\ pasted' = {} /\ nvs' = nvs /\ start' = start
      /\ told' = told /\ backup' = backup /\ dumped' = dumped
  BY DEF MspCommand, Ready, copies
<1>2. job' \in MspJobs
  BY DEF MspCommand
<1>3. job' = SchemaPut \/ job' = FactoryReset \/ job' = <<>>
  BY <1>2, ThreeJobs
<1>4. CASE job' = FactoryReset
  BY <1>1, <1>4, ResetKeeps
<1>5. CASE job' = SchemaPut \/ job' = <<>>
  <2>1. LineOK(job', NoText)
    BY <1>5, Empty, SchemaOK
  <2>2. \A k \in {"imu.type", "rc.proto"} : ~Useless(k, NoText)
    <3>1. ToInt(NoText) = 0 /\ NoText # Word("NONE")
      BY IntIs DEF ToInt, ToFloat, NoText, Word
    <3> QED
      BY <3>1 DEF Useless
  <2>3. FlashInv' /\ ToldInv' /\ job' \in Seq(PutSet)
    BY <1>1, <2>1, <2>2, AllThere, NewJob
  <2>4. SettingsTyped'
    BY <1>1, <2>3, TypedStep
  <2> QED
    BY <1>1, <2>3, <2>4, NotPasted DEF SettingsInv
<1> QED
  BY <1>3, <1>4, <1>5

\* A typed line carries a text.
LEMMA TypedTexts ==
  ASSUME NEW input \in Lines
  PROVE  input.text \in Texts
<1>1. input.text \in Typed \/ input.text = NoText
  <2>1. \A words, sign, t : CommandLine(words, sign, t).text = t
    BY DEF CommandLine
  <2>2. \A words : Bare(words).text = NoText
    BY <2>1 DEF Bare
  <2>3. (\E form \in Forms, t \in Typed : input = CommandLine(form[1], form[2], t)) \/ (\E words : input = Bare(words))
    BY DEF Lines
  <2> QED
    BY <2>1, <2>2, <2>3
<1>2. Typed \subseteq Texts /\ NoText \in Texts
  BY SettingsAssumption DEF Typed, Texts, AllWords
<1> QED
  BY <1>1, <1>2

\* A line begins a job that fits its keys, and what is useless is told.
LEMMA LineBegins ==
  ASSUME SettingsInv, GainTyped, NEW input, input.text \in Texts, Executes(input)
  PROVE  /\ FlashInv' /\ ToldInv' /\ SettingsTyped'
         /\ \A i \in DOMAIN job' : job'[i][1] # "all"
<1>1. /\ start = "running" /\ job = <<>> /\ nvs' = nvs /\ start' = start /\ backup' = backup
      /\ job' = PutsOf(input)
      /\ told' = told \cup {k \in Keys : Useless(k, input.text) /\ \E i \in DOMAIN job' : job'[i][1] = k}
  BY DEF Executes, Ready, copies, Writes
<1>2. LineOK(job', input.text)
  BY <1>1, LineJob
<1>3. {"imu.type", "rc.proto"} \subseteq Keys
  BY KeyNames
<1>4. \A k \in {"imu.type", "rc.proto"}, i \in DOMAIN job' : job'[i][1] = k /\ Useless(k, input.text) => k \in told'
  BY <1>1, <1>3
<1>5. FlashInv' /\ ToldInv' /\ job' \in Seq(PutSet)
  BY <1>1, <1>2, <1>4, AllThere, NewJob
<1>6. SettingsTyped'
  BY <1>1, <1>5, TypedStep
<1> QED
  BY <1>2, <1>5, <1>6 DEF LineOK

\* A typed line keeps the invariant.
LEMMA TypeKeeps ==
  ASSUME SettingsInv, GainTyped, TypeLine
  PROVE  SettingsInv'
<1>1. PICK input \in Lines : Executes(input)
  BY DEF TypeLine
<1>2. FlashInv' /\ ToldInv' /\ SettingsTyped'
  BY <1>1, TypedTexts, LineBegins
<1>3. pasted' = {} /\ backup' = backup /\ dumped' = dumped
  BY <1>1 DEF TypeLine, Executes, copies
<1> QED
  BY <1>2, <1>3, NotPasted DEF SettingsInv

\* A pasted line puts what was dumped, or nothing under the keys that are kept.
LEMMA PasteKeeps ==
  ASSUME SettingsInv, GainTyped, PasteLine
  PROVE  SettingsInv'
<1>1. PICK key \in Keys :
        Executes(Setting(key, backup[key])) /\ pasted' = pasted \cup {key}
  BY AllPrinted DEF PasteLine
<1>2. /\ start = "running" /\ ~leaving /\ job = <<>> /\ backup # <<>> /\ nvs' = nvs /\ start' = start
      /\ leaving' = leaving /\ backup' = backup /\ dumped' = dumped /\ job' = PutsOf(Setting(key, backup[key]))
  BY <1>1 DEF PasteLine, Executes, Ready, copies
<1>3. backup[key] \in Texts /\ Setting(key, backup[key]).text = backup[key]
  BY <1>2, AllPrinted DEF SettingsInv, SettingsTyped, Setting, CommandLine
<1>4. FlashInv' /\ ToldInv' /\ SettingsTyped' /\ \A i \in DOMAIN job' : job'[i][1] # "all"
  BY <1>1, <1>3, LineBegins
<1>5. job' = IF key \in SetNames THEN <<>> ELSE Puts(key, backup[key])
  BY <1>2, SettingPuts
<1>6. \A i \in DOMAIN job' : job'[i][1] = key /\ job'[i][2] = Parsed(key, backup[key])
  <2>1. \A i \in DOMAIN Puts(key, backup[key]) :
          Puts(key, backup[key])[i][1] = key /\ Puts(key, backup[key])[i][2] = Parsed(key, backup[key])
    BY <1>1, <1>3, PutsJob
  <2>2. DOMAIN <<>> = {}
    OBVIOUS
  <2> QED
    BY <1>5, <2>1, <2>2
<1>7. key \in Plain =>
        /\ Parsed(key, backup[key]) = dumped[key]
        /\ \E i \in DOMAIN job' : job'[i][1] = key
  <2> SUFFICES ASSUME key \in Plain
               PROVE  Parsed(key, backup[key]) = dumped[key] /\ \E i \in DOMAIN job' : job'[i][1] = key
    OBVIOUS
  <2>1. Parsed(key, backup[key]) = dumped[key] /\ Parsed(key, backup[key]) # Refused
    BY <1>2 DEF SettingsInv, PasteInv
  <2>2. key \notin SetNames
    BY PlainKeys DEF SetNames
  <2>3. job' = <<Put(key, Parsed(key, backup[key]))>>
    BY <1>5, <2>1, <2>2 DEF Puts
  <2>4. 1 \in DOMAIN job'
    BY <2>3
  <2> QED
    BY <1>6, <2>1, <2>4
<1>8. \A k \in pasted' \cap Plain :
        /\ \A i \in DOMAIN job' : job'[i][1] = k => job'[i][2] = dumped'[k]
        /\ (\E i \in DOMAIN job' : job'[i][1] = k) \/ nvs'[k] = dumped'[k]
  <2> TAKE k \in pasted' \cap Plain
  <2>1. CASE k = key
    BY <1>2, <1>6, <1>7, <2>1
  <2>2. CASE k # key
    <3>1. k \in pasted \cap Plain /\ \A i \in DOMAIN job' : job'[i][1] # k
      BY <1>1, <1>6, <2>2
    <3>2. nvs[k] = dumped[k]
      BY <1>2, <3>1 DEF SettingsInv, PasteInv
    <3> QED
      BY <1>2, <3>1, <3>2
  <2> QED
    BY <2>1, <2>2
<1>9. PasteInv'
  BY <1>2, <1>4, <1>8 DEF SettingsInv, PasteInv
<1> QED
  BY <1>4, <1>9 DEF SettingsInv

(***************************************************************************)
(* The gain of PidTask                                                     *)
(***************************************************************************)

\* Puts by PidTask write one gain.
LEMMA GainPuts ==
  ASSUME NEW n \in Nat
  PROVE  LET puts == Puts("pid.r.p", Num(Rounded(n))) IN
           DOMAIN puts = {1} /\ puts[1][1] = "pid.r.p" /\ puts[1][2] = Num(Rounded(n))
<1> DEFINE t == Num(Rounded(n))
<1>1. "pid.r.p" \in Keys /\ "pid.r.p" \in Floats
  BY KeyNames DEF Floats
<1>2. Rounded(n) \in Nat
  BY RoundedOnce
<1>3. Parsed("pid.r.p", t) = t /\ t # Refused
  BY <1>1, <1>2, ParsedFloat, TextNumbers
<1> HIDE DEF t
<1>4. Puts("pid.r.p", t) = <<Put("pid.r.p", t)>>
  BY <1>1, <1>3 DEF Puts
<1>5. DOMAIN <<Put("pid.r.p", t)>> = {1} /\ <<Put("pid.r.p", t)>>[1] = Put("pid.r.p", t)
  OBVIOUS
<1> QED
  BY <1>4, <1>5, OtherPuts DEF t

\* What a line puts that PidTask executes.
LEMMA PidPuts ==
  ASSUME NEW input, ByPidTask(input)
  PROVE  \/ PutsOf(input) = SetPid(Args(input), input.text)
         \/ PutsOf(input) = ResetKey("pid.r.p") \o SchemaPut
         \/ PutsOf(input) = <<>>
<1>1. CASE Command(input) = <<"set", "pid">>
  <2>1. Command(input) \notin {<<"set">>, <<"set", "rx.pin">>} /\ Command(input) # <<"set", "filter.lpf_hz">>
        /\ Command(input) # <<"set", "rx.protocol">> /\ Command(input) # <<"set", "imu.lpf_bandwidth">>
        /\ Command(input) # <<"set", "rx.channel.roll">> /\ Command(input) # <<"reset", "filter">>
        /\ Command(input) # <<"reset", "pid">> /\ Command(input) # <<"quit">>
    BY <1>1
  <2> QED
    BY <1>1, <2>1 DEF PutsOf
<1>2. CASE Command(input) = <<"reset", "pid">>
  <2>1. Command(input) \notin {<<"set">>, <<"set", "rx.pin">>} /\ Command(input) # <<"set", "filter.lpf_hz">>
        /\ Command(input) # <<"set", "rx.protocol">> /\ Command(input) # <<"set", "imu.lpf_bandwidth">>
        /\ Command(input) # <<"set", "rx.channel.roll">> /\ Command(input) # <<"reset", "filter">>
        /\ Command(input) # <<"set", "pid">> /\ Command(input) # <<"quit">>
    BY <1>2
  <2> QED
    BY <1>2, <2>1 DEF PutsOf
<1> QED
  BY <1>1, <1>2 DEF ByPidTask

\* A gain that PidTask writes is one that flash keeps as it is, and the only one it writes.
LEMMA PidGain ==
  ASSUME NEW input, input.text \in Texts, GainTyped, ByPidTask(input), Writes(PutsOf(input), "pid.r.p")
  PROVE  LET puts == PutsOf(input) IN
         \E m \in Nat : /\ Rounded(m) = m /\ 1 \in DOMAIN puts /\ puts[1][1] = "pid.r.p" /\ ToFloat(puts[1][2]) = m
                        /\ \A i \in DOMAIN puts : puts[i][1] # "all" /\ (puts[i][1] = "pid.r.p" => puts[i][2] = Num(m))
<1> DEFINE puts == PutsOf(input)
           OK(u, m) == /\ Rounded(m) = m /\ 1 \in DOMAIN u /\ u[1][1] = "pid.r.p" /\ ToFloat(u[1][2]) = m
                       /\ \A i \in DOMAIN u : u[i][1] # "all" /\ (u[i][1] = "pid.r.p" => u[i][2] = Num(m))
<1>1. puts # <<>>
  <2>1. DOMAIN <<>> = {}
    OBVIOUS
  <2> QED
    BY <2>1 DEF Writes
<1>2. ASSUME NEW n \in Nat PROVE OK(Puts("pid.r.p", Num(Rounded(n))), Rounded(n))
  <2> DEFINE u == Puts("pid.r.p", Num(Rounded(n)))
  <2>1. DOMAIN u = {1} /\ u[1][1] = "pid.r.p" /\ u[1][2] = Num(Rounded(n))
    BY GainPuts
  <2> HIDE DEF u
  <2>2. Rounded(n) \in Nat /\ Rounded(Rounded(n)) = Rounded(n)
    BY RoundedOnce
  <2>3. ToFloat(Num(Rounded(n))) = Rounded(n)
    BY <2>2, TextNumbers
  <2>4. "pid.r.p" # "all"
    OBVIOUS
  <2>5. OK(u, Rounded(n))
    BY <2>1, <2>2, <2>3, <2>4
  <2> QED
    BY <2>5, Zenon DEF u
<1>3. OK(ResetKey("pid.r.p") \o SchemaPut, 200)
  <2> DEFINE p == Put("pid.r.p", Num(200))
  <2>1. p[1] = "pid.r.p" /\ p[2] = Num(200) /\ Put(Schema, Current)[1] = Schema
    BY OtherPuts
  <2>2. ResetKey("pid.r.p") \o SchemaPut = <<p>> \o <<Put(Schema, Current)>>
    BY KeyDefaults DEF ResetKey, SchemaPut
  <2> HIDE DEF p
  <2>3. ASSUME NEW x, NEW y PROVE <<x>> \o <<y>> = <<x, y>>
    <3> DEFINE u == <<x>> \o <<y>>
    <3>1. u \in Seq({x, y}) /\ Len(u) = 2 /\ u[1] = x /\ u[2] = y
      OBVIOUS
    <3> HIDE DEF u
    <3>2. u = <<u[1], u[2]>>
      BY <3>1
    <3> QED
      BY <3>1, <3>2 DEF u
  <2>4. ResetKey("pid.r.p") \o SchemaPut = <<p, Put(Schema, Current)>>
    BY <2>2, <2>3, Zenon
  <2>5. Rounded(200) = 200 /\ ToFloat(Num(200)) = 200
    BY DEF Rounded, ToFloat, Num
  <2>6. Schema # "pid.r.p" /\ Schema # "all"
    BY DEF Schema
  <2> DEFINE u == <<p, Put(Schema, Current)>>
  <2>7. DOMAIN u = {1, 2} /\ u[1] = p /\ u[2] = Put(Schema, Current)
    OBVIOUS
  <2> HIDE DEF u
  <2>8. OK(u, 200)
    BY <2>1, <2>5, <2>6, <2>7
  <2> HIDE DEF OK
  <2> QED
    BY <2>4, <2>8 DEF u
<1> HIDE DEF OK
<1>4. CASE puts = SetPid(Args(input), input.text)
  <2>1. 10 * ToInt(input.text) \in Nat /\ live \in Nat
    BY TextIsNumber DEF GainTyped
  <2>2. \/ puts = Puts("pid.r.p", Num(Rounded(10 * ToInt(input.text))))
        \/ puts = Puts("pid.r.p", Num(Rounded(live)))
    BY <1>1, <1>4 DEF SetPid
  <2>3. \E n \in Nat : puts = Puts("pid.r.p", Num(Rounded(n)))
    BY <2>1, <2>2
  <2>4. \E n \in Nat : OK(puts, Rounded(n))
    BY <1>2, <2>3
  <2>5. \E m \in Nat : OK(puts, m)
    BY <2>4, RoundedOnce
  <2> QED
    BY <2>5 DEF OK
<1>5. CASE puts = ResetKey("pid.r.p") \o SchemaPut
  <2>1. 200 \in Nat /\ OK(puts, 200)
    BY <1>3, <1>5
  <2> QED
    BY <2>1 DEF OK
<1> QED
  BY <1>1, <1>4, <1>5, PidPuts

\* While nothing is to be put, flash holds a number for the gain.
LEMMA GainThere ==
  ASSUME SettingsInv, job = <<>>, start # "begin"
  PROVE  \E n \in Nat : nvs["pid.r.p"] = Num(n) /\ Read("pid.r.p") = Num(Rounded(n))
<1>1. "pid.r.p" \in Keys /\ "pid.r.p" \in Floats /\ RowOf["pid.r.p"].kind = "gain"
  BY KeyNames, RowsByKey, Rows DEF Floats, Row
<1>2. nvs["pid.r.p"] # Missing /\ nvs["pid.r.p"] \in Values("pid.r.p")
  BY <1>1, AllThere
<1>3. PICK n \in Nat : nvs["pid.r.p"] = Num(n)
  BY <1>1, <1>2 DEF Values
<1>4. Read("pid.r.p") = Num(Rounded(n))
  BY <1>1, <1>2, <1>3 DEF Read, Num
<1> QED
  BY <1>3, <1>4

\* Where nothing is said of the gain there is nothing to show.
LEMMA LiveApart ==
  ASSUME GainTyped', start' # "running" \/ leaving' \/ behind'
  PROVE  LiveInv'
BY DEF LiveInv

\* A job that leaves the gain alone leaves PidTask and flash agreed.
LEMMA LiveKept ==
  ASSUME LiveInv, job = <<>>, nvs' = nvs, live' = live, behind' = behind, start' = start, leaving' = leaving,
         \A i \in DOMAIN job' : job'[i][1] # "all" /\ job'[i][1] # "pid.r.p"
  PROVE  LiveInv'
<1>1. DOMAIN job = {}
  OBVIOUS
<1> QED
  BY <1>1 DEF LiveInv, GainTyped

\* So does a put.
LEMMA LivePut ==
  ASSUME SettingsInv, LiveInv, MakePut
  PROVE  LiveInv'
<1>1. job \in Seq(PutSet) /\ job # <<>> /\ job' = Tail(job)
  BY PutTyped
<1>2. /\ 1 \in DOMAIN job
      /\ \A j \in DOMAIN job' : j + 1 \in DOMAIN job /\ job'[j] = job[j + 1]
      /\ \A j \in DOMAIN job : j # 1 => j - 1 \in DOMAIN job' /\ job'[j - 1] = job[j]
  BY <1>1, TailOf
<1>3. live' = live /\ behind' = behind /\ start' = start /\ leaving' = leaving
  BY DEF MakePut, pid
<1>4. GainTyped'
  BY <1>3 DEF LiveInv, GainTyped
<1>5. ASSUME start' = "running", ~leaving', ~behind'
      PROVE  /\ \A i \in DOMAIN job' : job'[i][1] # "all"
             /\ \A i \in DOMAIN job' : job'[i][1] = "pid.r.p" => job'[i][2] = Num(live')
             /\ \/ \E i \in DOMAIN job' : job'[i][1] = "pid.r.p"
                \/ \E n \in Nat : nvs'["pid.r.p"] = Num(n) /\ Rounded(n) = live'
  <2>1. /\ \A i \in DOMAIN job : job[i][1] # "all"
        /\ \A i \in DOMAIN job : job[i][1] = "pid.r.p" => job[i][2] = Num(live)
        /\ \/ \E i \in DOMAIN job : job[i][1] = "pid.r.p"
           \/ \E n \in Nat : nvs["pid.r.p"] = Num(n) /\ Rounded(n) = live
    BY <1>3, <1>5 DEF LiveInv
  <2>2. /\ \A i \in DOMAIN job' : job'[i][1] # "all"
        /\ \A i \in DOMAIN job' : job'[i][1] = "pid.r.p" => job'[i][2] = Num(live')
    BY <1>2, <1>3, <2>1
  <2>3. CASE job[1][1] = "pid.r.p"
    <3>1. nvs'["pid.r.p"] = Num(live)
      BY <1>2, <2>1, <2>3, PutTyped
    <3> QED
      BY <1>3, <1>4, <2>2, <3>1 DEF GainTyped
  <2>4. CASE job[1][1] # "pid.r.p"
    <3>1. nvs'["pid.r.p"] = nvs["pid.r.p"]
      BY <1>2, <2>1, <2>4, KeyNames, PutTyped
    <3>2. ASSUME NEW i \in DOMAIN job, job[i][1] = "pid.r.p" PROVE \E j \in DOMAIN job' : job'[j][1] = "pid.r.p"
      BY <1>2, <2>4, <3>2
    <3>3. (\E j \in DOMAIN job' : job'[j][1] = "pid.r.p") \/ \E n \in Nat : nvs'["pid.r.p"] = Num(n) /\ Rounded(n) = live'
      BY <1>3, <2>1, <3>1, <3>2
    <3> QED
      BY <2>2, <3>3
  <2> QED
    BY <2>3, <2>4
<1> QED
  BY <1>4, <1>5 DEF LiveInv

\* A line that is executed leaves them agreed, or is known to have parted them.
LEMMA LiveLine ==
  ASSUME SettingsInv, LiveInv, NEW input, input.text \in Texts, Executes(input)
  PROVE  LiveInv'
<1>0. GainTyped
  BY DEF LiveInv
<1>1. /\ job = <<>> /\ nvs' = nvs /\ start' = start /\ leaving' = leaving /\ job' = PutsOf(input) /\ TakeGain(input)
  BY DEF Executes, Ready
<1>2. \A i \in DOMAIN job' : job'[i][1] # "all"
  BY <1>0, LineBegins
<1>3. CASE Writes(job', "pid.r.p") /\ ByPidTask(input) /\ live' = ToFloat(job'[1][2]) /\ behind' = FALSE
  <2>1. Writes(PutsOf(input), "pid.r.p")
    BY <1>1, <1>3
  <2>2. PICK m \in Nat : /\ Rounded(m) = m /\ 1 \in DOMAIN job' /\ job'[1][1] = "pid.r.p" /\ ToFloat(job'[1][2]) = m
                         /\ \A i \in DOMAIN job' : job'[i][1] # "all" /\ (job'[i][1] = "pid.r.p" => job'[i][2] = Num(m))
    BY <1>0, <1>1, <1>3, <2>1, PidGain
  <2>3. live' = m
    BY <1>3, <2>2
  <2>4. GainTyped'
    BY <2>2, <2>3 DEF GainTyped
  <2> QED
    BY <2>2, <2>3, <2>4 DEF LiveInv
<1>4. CASE Writes(job', "pid.r.p") /\ ~ByPidTask(input) /\ behind' = TRUE /\ UNCHANGED live
  <2>1. GainTyped'
    BY <1>0, <1>4 DEF GainTyped
  <2> QED
    BY <1>4, <2>1, LiveApart
<1>5. CASE ~Writes(job', "pid.r.p") /\ UNCHANGED pid
  <2>1. \A i \in DOMAIN job' : job'[i][1] # "all" /\ job'[i][1] # "pid.r.p"
    BY <1>2, <1>5 DEF Writes
  <2>2. live' = live /\ behind' = behind
    BY <1>5 DEF pid
  <2> QED
    BY <1>1, <2>1, <2>2, LiveKept
<1> QED
  BY <1>1, <1>3, <1>4, <1>5 DEF TakeGain

\* A command by MSP leaves them agreed, or is known to have parted them.
LEMMA LiveMsp ==
  ASSUME SettingsInv, LiveInv, MspCommand
  PROVE  LiveInv'
<1>1. /\ job = <<>> /\ nvs' = nvs /\ start' = start /\ leaving' = leaving /\ live' = live
      /\ behind' = (behind \/ Writes(job', "pid.r.p"))
  BY DEF MspCommand, Ready
<1>2. job' \in MspJobs
  BY DEF MspCommand
<1>3. job' = SchemaPut \/ job' = FactoryReset \/ job' = <<>>
  BY <1>2, ThreeJobs
<1>4. GainTyped'
  BY <1>1 DEF LiveInv, GainTyped
<1>5. CASE Writes(job', "pid.r.p")
  <2>1. behind'
    BY <1>1, <1>5, Zenon
  <2> QED
    BY <1>4, <2>1, LiveApart
<1>6. CASE ~Writes(job', "pid.r.p")
  <2>1. job' # FactoryReset
    <3>1. PICK j \in 2 .. 11 : FactoryReset[j][1] = "pid.r.p"
      BY KeyNames, ResetWrites
    <3>2. j \in DOMAIN FactoryReset
      BY ResetJob
    <3> QED
      BY <1>6, <3>1, <3>2 DEF Writes
  <2>2. \A i \in DOMAIN job' : job'[i][1] # "all"
    <3>1. LineOK(job', NoText)
      BY <1>3, <2>1, Empty, SchemaOK
    <3> QED
      BY <3>1 DEF LineOK
  <2>3. \A i \in DOMAIN job' : job'[i][1] # "all" /\ job'[i][1] # "pid.r.p"
    BY <1>6, <2>2 DEF Writes
  <2>4. CASE behind
    <3>1. behind'
      BY <1>1, <2>4, Zenon
    <3> QED
      BY <1>4, <3>1, LiveApart
  <2>5. CASE ~behind
    <3>1. ~behind'
      BY <1>1, <1>6, <2>5, Zenon
    <3>2. DOMAIN job = {}
      BY <1>1
    <3> QED
      BY <1>1, <1>4, <2>3, <2>5, <3>1, <3>2 DEF LiveInv
  <2> QED
    BY <2>4, <2>5
<1> QED
  BY <1>5, <1>6

\* Every step leaves PidTask and flash agreed, or is known to have parted them.
LEMMA LiveStep ==
  ASSUME SettingsInv, LiveInv, [SettingsNext]_settingsVars
  PROVE  LiveInv'
<1>0. GainTyped
  BY DEF LiveInv
<1>1. CASE Restart
  <2>1. live' = 0 /\ start' = "begin" /\ Rounded(0) = 0
    BY <1>1 DEF Restart, Rounded
  <2>2. GainTyped'
    BY <2>1 DEF GainTyped
  <2> QED
    BY <2>1, <2>2, LiveApart
<1>2. CASE BeginSettings \/ CalibrateImu
  <2>1. live' = live /\ start' # "running"
    BY <1>2 DEF BeginSettings, CalibrateImu, pid
  <2>2. GainTyped'
    BY <1>0, <2>1 DEF GainTyped
  <2> QED
    BY <2>1, <2>2, LiveApart
<1>3. CASE StartTasks
  <2>1. PICK n \in Nat : nvs["pid.r.p"] = Num(n) /\ Read("pid.r.p") = Num(Rounded(n))
    BY <1>3, GainThere DEF StartTasks
  <2>2. Rounded(n) \in Nat /\ Rounded(Rounded(n)) = Rounded(n)
    BY RoundedOnce
  <2>3. job' = <<>> /\ nvs' = nvs /\ live' = ToFloat(Read("pid.r.p"))
    BY <1>3 DEF StartTasks
  <2>4. live' = Rounded(n)
    BY <2>1, <2>2, <2>3, TextNumbers
  <2>5. GainTyped' /\ DOMAIN job' = {}
    BY <2>2, <2>3, <2>4 DEF GainTyped
  <2> QED
    BY <2>1, <2>3, <2>4, <2>5 DEF LiveInv
<1>4. CASE TypeLine
  <2>1. PICK input \in Lines : Executes(input)
    BY <1>4 DEF TypeLine
  <2> QED
    BY <2>1, TypedTexts, LiveLine
<1>5. CASE PasteLine
  <2>1. PICK key \in Keys : Executes(Setting(key, backup[key]))
    BY <1>5, AllPrinted DEF PasteLine
  <2>2. backup[key] \in Texts /\ Setting(key, backup[key]).text = backup[key]
    BY <1>5, AllPrinted DEF PasteLine, SettingsInv, SettingsTyped, Setting, CommandLine
  <2> QED
    BY <2>1, <2>2, LiveLine
<1>6. CASE Dump \/ UNCHANGED settingsVars
  <2>1. job' = job /\ nvs' = nvs /\ live' = live /\ behind' = behind /\ start' = start /\ leaving' = leaving
    BY <1>6 DEF Dump, settingsVars, pid
  <2> QED
    BY <2>1 DEF LiveInv, GainTyped
<1>7. CASE FactoryResetConfirm
  <2>1. live' = live /\ leaving' = TRUE
    BY <1>7 DEF FactoryResetConfirm, pid
  <2>2. GainTyped'
    BY <1>0, <2>1 DEF GainTyped
  <2> QED
    BY <2>1, <2>2, LiveApart
<1> QED
  BY <1>1, <1>2, <1>3, <1>4, <1>5, <1>6, <1>7, LivePut, LiveMsp DEF SettingsNext, PowerCut, Leave

\* The first start satisfies the invariant.
LEMMA InitKeeps ==
  ASSUME SettingsInit
  PROVE  SettingsInv /\ LiveInv
<1>1. /\ DOMAIN nvs = Keys \cup {Schema} /\ \A k \in Keys \cup {Schema} : nvs[k] = Missing
      /\ start = "begin" /\ job = <<>> /\ backup = <<>> /\ pasted = {}
  BY DEF SettingsInit
<1>2. SettingsTyped
  BY <1>1 DEF SettingsTyped
<1>3. FlashInv
  BY <1>1 DEF FlashInv
<1>4. ToldInv
  <2>1. \A k \in {"imu.type", "rc.proto"} : ~(ToInt(nvs[k]) >= Limit(k))
    BY <1>1, KeyNames, VersionApart DEF Limit
  <2> QED
    BY <1>1, <2>1 DEF ToldInv
<1>5. PasteInv
  BY <1>1 DEF PasteInv
<1>6. LiveInv
  <2>1. live = 0 /\ start # "running" /\ Rounded(0) = 0
    BY DEF SettingsInit, Rounded
  <2> QED
    BY <2>1 DEF LiveInv, GainTyped
<1> QED
  BY <1>2, <1>3, <1>4, <1>5, <1>6 DEF SettingsInv

\* Every step keeps the invariant.
LEMMA SettingsStep ==
  ASSUME SettingsInv, LiveInv, [SettingsNext]_settingsVars
  PROVE  SettingsInv' /\ LiveInv'
<1>0. GainTyped /\ LiveInv'
  BY LiveStep DEF LiveInv
<1> SUFFICES SettingsInv'
  BY <1>0
<1>1. CASE PowerCut
  BY <1>1, RestartKeeps DEF PowerCut
<1>2. CASE MakePut
  BY <1>2, PutKeeps
<1>3. CASE BeginSettings
  BY <1>3, BeginKeeps
<1>4. CASE CalibrateImu
  BY <1>4, CalibrateKeeps
<1>5. CASE StartTasks
  BY <1>5, StartKeeps
<1>6. CASE TypeLine
  BY <1>0, <1>6, TypeKeeps
<1>7. CASE PasteLine
  BY <1>0, <1>7, PasteKeeps
<1>8. CASE Dump
  BY <1>8, DumpKeeps
<1>9. CASE FactoryResetConfirm
  <2>1. /\ job = <<>> /\ start = "running" /\ start' = start /\ job' = FactoryReset /\ pasted' = {} /\ nvs' = nvs
        /\ backup' = backup /\ dumped' = dumped /\ told' = told
    BY <1>9 DEF FactoryResetConfirm, Ready, copies
  <2> QED
    BY <2>1, ResetKeeps
<1>10. CASE Leave
  BY <1>10, RestartKeeps DEF Leave
<1>11. CASE MspCommand
  BY <1>11, MspKeeps
<1>12. CASE UNCHANGED settingsVars
  BY <1>12 DEF settingsVars, copies, user, SettingsInv, SettingsTyped, FlashInv, ToldInv, PasteInv, There
<1> QED
  BY <1>1, <1>2, <1>3, <1>4, <1>5, <1>6, <1>7, <1>8, <1>9, <1>10, <1>11, <1>12 DEF SettingsNext

\* After any commands, pastes, cuts and resets the settings are typed, the flash is
\* complete once the start has begun, a useless value was asked for, what was
\* pasted back is what was dumped, and flash holds the gain PidTask flies with
\* unless another one has written it.
THEOREM SettingsAlways == SettingsSpec => [](SettingsInv /\ LiveInv)
<1>1. SettingsInit => SettingsInv /\ LiveInv
  BY InitKeeps
<1>2. SettingsInv /\ LiveInv /\ [SettingsNext]_settingsVars => (SettingsInv /\ LiveInv)'
  BY SettingsStep
<1> QED
  BY <1>1, <1>2, PTL DEF SettingsSpec

\* A backup that is pasted back whole leaves every text, option and byte as it was
\* dumped, for every list of words and numbers and any number of edits.
THEOREM RestoreAlwaysKeeps == SettingsSpec => []RestoreKeeps
<1>1. SettingsInv => RestoreKeeps
  <2> SUFFICES ASSUME SettingsInv, pasted = Printed, job = <<>>, NEW k \in Plain
               PROVE  nvs[k] = dumped[k]
    BY DEF RestoreKeeps
  <2>1. k \in pasted \cap Plain
    BY AllPrinted DEF Plain
  <2> QED
    BY <2>1 DEF SettingsInv, PasteInv
<1> QED
  BY <1>1, SettingsAlways, PTL

\* The firmware halts for want of an IMU, or starts without a receiver, only when
\* such a value was asked for since the last reset of all keys.
THEOREM HaltsOnlyIfTold == SettingsSpec => HaltedOnlyIfTold
<1> DEFINE A == /\ start # "halted" /\ start' = "halted" => "imu.type" \in told
                /\ start # "running" /\ start' = "running" /\ proto' = "none" => "rc.proto" \in told
<1>1. ASSUME SettingsInv, SettingsNext PROVE A
  <2>1. ASSUME NEW k \in {"imu.type", "rc.proto"}
        PROVE  /\ ToInt(Read(k)) \in Nat
               /\ ToInt(Read(k)) >= Limit(k) => k \in told
    <3>1. k \in Enums /\ k \in Keys
      BY KeyNames DEF Enums
    <3>2. /\ nvs[k] # Missing => Read(k) = nvs[k]
          /\ nvs[k] = Missing => Read(k) = Zero
          /\ \E n \in 0 .. 255 : Read(k) = Num(1000 * n) /\ ToInt(Read(k)) = n
      BY <1>1, <3>1, ReadByte DEF SettingsInv, SettingsTyped
    <3>3. ToInt(Zero) = 0 /\ 0 < Limit(k)
      BY ZeroCounts DEF Limit
    <3>4. ToInt(nvs[k]) >= Limit(k) => k \in told
      BY <1>1 DEF SettingsInv, ToldInv
    <3> QED
      BY <3>2, <3>3, <3>4 DEF Limit
  <2>2. CASE CalibrateImu
    BY <2>1, <2>2 DEF CalibrateImu, Limit
  <2>3. CASE StartTasks
    BY <2>1, <2>3 DEF StartTasks, Limit, Selected
  <2>4. CASE ~CalibrateImu /\ ~StartTasks
    <3>1. start' = start \/ start' \in {"begin", "settings"}
      BY <1>1, <2>4 DEF SettingsNext, PowerCut, Restart, MakePut, BeginSettings, TypeLine, PasteLine, Executes, Dump,
           FactoryResetConfirm, Leave, MspCommand
    <3> QED
      BY <3>1
  <2> QED
    BY <2>2, <2>3, <2>4
<1>2. SettingsInv /\ [SettingsNext]_settingsVars => [A]_settingsVars
  BY <1>1
<1> QED
  BY <1>2, SettingsAlways, PTL DEF SettingsSpec, HaltedOnlyIfTold

(***************************************************************************)
(* What is told                                                            *)
(***************************************************************************)

\* A word without letters is neither a number nor another word.
Blank == Word("")

\* A number, or a word with letters, is not blank.
LEMMA BlankApart ==
  ASSUME NEW v, (\E n : v = Num(n)) \/ (\E w : v = Word(w) /\ w # "")
  PROVE  v # Blank
BY TextNumbers, Zenon DEF Blank

\* The general handler shows a key that has something to show.
LEMMA GetKey ==
  ASSUME NEW key \in Keys, Shown(key) # Blank
  PROVE  GetSetting(<<key>>) = Shown(key)
<1>1. Len(<<key>>) = 1 /\ <<key>>[1] = key
  OBVIOUS
<1> QED
  BY <1>1, Zenon DEF GetSetting, Blank

\* "get" shows a key that is no second word of a command.
LEMMA GetPlain ==
  ASSUME NEW key \in Keys, key \notin GetNames, Shown(key) # Blank
  PROVE  Answer(<<"get", key>>) = Shown(key)
<1> DEFINE input == Bare(<<"get", key>>)
           taken == Command(input)
<1>1. input.words = <<"get", key>>
  BY DEF Bare, CommandLine
<1>2. taken = <<"get">> /\ Args(input) = <<key>>
  BY <1>1, TwoWords DEF Names
<1>3. Answer(<<"get", key>>) = GetSetting(Args(input))
  <2>1. \A x, y : <<x>> # <<x, y>>
    OBVIOUS
  <2>2. /\ taken \in {<<"get">>, <<"get", "rx.pin">>}
        /\ taken # <<"get", "filter.lpf_hz">> /\ taken # <<"get", "rx.value.roll">>
        /\ taken # <<"get", "rx.value.all">> /\ taken # <<"get", "rx.status">>
        /\ taken # <<"get", "imu.lpf_bandwidth">> /\ taken # <<"get", "pid">>
    BY <1>2, <2>1
  <2> HIDE DEF taken
  <2>3. Answer(<<"get", key>>) =
          CASE taken \in {<<"get">>, <<"get", "rx.pin">>} -> GetSetting(Args(input))
            [] taken = <<"get", "filter.lpf_hz">>          -> GetFilter(Args(input))
            [] taken = <<"get", "rx.value.roll">>          -> GetChannel(Args(input))
            [] taken = <<"get", "rx.value.all">>           -> GetAllChannels
            [] taken = <<"get", "rx.status">>              -> Shown("rc.proto")
            [] taken = <<"get", "imu.lpf_bandwidth">>      -> GetLpfBandwidth.name
            [] taken = <<"get", "pid">>                    -> GetPid
    BY DEF Answer, taken
  <2> QED
    BY <2>2, <2>3
<1>4. GetSetting(<<key>>) = Shown(key)
  BY GetKey
<1> QED
  BY <1>2, <1>3, <1>4

\* The commands of their own.
LEMMA GetOwn ==
  /\ Answer(<<"get", "rx.value.roll", "roll">>) = GetChannel(<<"roll">>)
  /\ Answer(<<"get", "rx.value.all">>) = GetAllChannels
  /\ Answer(<<"get", "filter.lpf_hz", "lpf_hz">>) = GetFilter(<<"lpf_hz">>)
  /\ Answer(<<"get", "rx.status">>) = Shown("rc.proto")
  /\ Answer(<<"get", "imu.lpf_bandwidth">>) = Shown("imu.lpf_bw")
  /\ Answer(<<"get", "pid">>) = GetPid
<1>1. \A words : Bare(words).words = words
  BY DEF Bare, CommandLine
<1>2. /\ Command(Bare(<<"get", "rx.value.roll", "roll">>)) = <<"get", "rx.value.roll">>
      /\ Args(Bare(<<"get", "rx.value.roll", "roll">>)) = <<"roll">>
  <2>1. "rx.value.roll" \in Names("get")
    BY DEF Names, GetNames
  <2> QED
    BY <1>1, <2>1, ThreeWords
<1>3. /\ Command(Bare(<<"get", "filter.lpf_hz", "lpf_hz">>)) = <<"get", "filter.lpf_hz">>
      /\ Args(Bare(<<"get", "filter.lpf_hz", "lpf_hz">>)) = <<"lpf_hz">>
  <2>1. "filter.lpf_hz" \in Names("get")
    BY DEF Names, GetNames
  <2> QED
    BY <1>1, <2>1, ThreeWords
<1>4. \A name \in {"rx.value.all", "rx.status", "imu.lpf_bandwidth", "pid"} : Command(Bare(<<"get", name>>)) = <<"get", name>>
  <2>1. \A name \in {"rx.value.all", "rx.status", "imu.lpf_bandwidth", "pid"} : name \in Names("get")
    BY DEF Names, GetNames
  <2> QED
    BY <1>1, <2>1, TwoWords
<1>5. Answer(<<"get", "rx.value.roll", "roll">>) = GetChannel(<<"roll">>)
  BY <1>2 DEF Answer
<1>6. Answer(<<"get", "filter.lpf_hz", "lpf_hz">>) = GetFilter(<<"lpf_hz">>)
  BY <1>3 DEF Answer
<1>7. Answer(<<"get", "rx.value.all">>) = GetAllChannels
  BY <1>4 DEF Answer
<1>8. Answer(<<"get", "rx.status">>) = Shown("rc.proto")
  BY <1>4 DEF Answer
<1>9. Answer(<<"get", "imu.lpf_bandwidth">>) = Shown("imu.lpf_bw")
  BY <1>4 DEF Answer, GetLpfBandwidth
<1>10. Answer(<<"get", "pid">>) = GetPid
  BY <1>4 DEF Answer
<1> QED
  BY <1>5, <1>6, <1>7, <1>8, <1>9, <1>10

\* Nothing but a name without letters is shown as an empty word.
LEMMA ShownSomething ==
  ASSUME NEW k \in Keys \ {"system.name"}, nvs[k] \in Values(k)
  PROVE  Shown(k) # Blank
<1>1. CASE k \in Floats
  <2>1. PICK n \in Nat : Read(k) = Num(n)
    BY <1>1, ReadFloat
  <2>2. Shown(k) = Num(n) \/ Shown(k) = Num(1000 * Hundredths(n))
    BY <1>1, <2>1, KeyKinds DEF Shown, Num
  <2>3. \E m : Shown(k) = Num(m)
    BY <2>2
  <2> QED
    BY <2>3, BlankApart
<1>2. CASE k \in Enums
  <2>1. PICK n \in 0 .. 255 :
          /\ Read(k) = Num(1000 * n)
          /\ \/ n + 1 \in DOMAIN RowOf[k].options /\ Shown(k) = Word(RowOf[k].options[n + 1])
             \/ Shown(k) = Read(k) /\ ToInt(Read(k)) = n
    BY <1>2, ShownEnum, SMTT(30)
  <2>2. \A i \in DOMAIN RowOf[k].options :
          RowOf[k].options[i] \in {"MPU6050", "NONE", "LPF_256HZ", "LPF_188HZ", "LPF_98HZ", "IBUS", "PPM"}
    <3>1. CASE k = "imu.type"
      BY <3>1, KeyOptions
    <3>2. CASE k = "imu.lpf_bw"
      BY <3>2, KeyOptions
    <3>3. CASE k = "rc.proto"
      BY <3>3, KeyOptions
    <3> QED
      BY <1>2, <3>1, <3>2, <3>3 DEF Enums
  <2>3. \A w \in {"MPU6050", "NONE", "LPF_256HZ", "LPF_188HZ", "LPF_98HZ", "IBUS", "PPM"} : w # ""
    BY Zenon
  <2>4. (\E m : Shown(k) = Num(m)) \/ (\E i \in DOMAIN RowOf[k].options : Shown(k) = Word(RowOf[k].options[i]))
    BY <2>1
  <2>5. (\E m : Shown(k) = Num(m)) \/ (\E w : Shown(k) = Word(w) /\ w # "")
    BY <2>2, <2>3, <2>4, Zenon
  <2> QED
    BY <2>5, BlankApart
<1>3. CASE k \in Bytes
  <2>1. PICK n \in 0 .. 255 : Read(k) = Num(1000 * n)
    BY <1>3, ReadByte
  <2>2. Shown(k) = Num(1000 * n) \/ Shown(k) = Num(1000 * n + 1000)
    BY <1>3, <2>1, KeyKinds DEF Shown, Num
  <2>3. \E m : Shown(k) = Num(m)
    BY <2>2
  <2> QED
    BY <2>3, BlankApart
<1> QED
  BY <1>1, <1>2, <1>3, KeyKinds

\* Channels: counted from one by the terminal, from zero by MSP.
LEMMA ChannelsAgree ==
  ASSUME nvs["rc.roll"] \in Values("rc.roll")
  PROVE  /\ Answer(<<"get", "rc.roll">>) = Num(1000 * (MspRxMap + 1))
         /\ Answer(<<"get", "rx.value.roll", "roll">>) = Answer(<<"get", "rc.roll">>)
         /\ Answer(<<"get", "rx.value.all">>) = Num(1000 * MspRxMap)
<1>1. "rc.roll" \in Keys /\ "rc.roll" \in Bytes /\ "rc.roll" \notin GetNames /\ RowOf["rc.roll"].kind = "channel"
  BY KeyNames, RowsByKey, Rows DEF Bytes, GetNames, Row
<1>2. PICK n \in 0 .. 255 : Read("rc.roll") = Num(1000 * n) /\ ToInt(Read("rc.roll")) = n
  BY <1>1, ReadByte
<1>3. Shown("rc.roll") = Num(1000 * (n + 1))
  <2>1. Shown("rc.roll") = Num(1000 * n + 1000)
    BY <1>1, <1>2 DEF Shown, Num
  <2>2. 1000 * n + 1000 = 1000 * (n + 1)
    OBVIOUS
  <2> QED
    BY <2>1, <2>2
<1>4. MspRxMap = n
  BY <1>2 DEF MspRxMap
<1>5. Answer(<<"get", "rc.roll">>) = Shown("rc.roll")
  <2>0. \E m : Shown("rc.roll") = Num(m)
    BY <1>3
  <2>1. Shown("rc.roll") # Blank
    BY <2>0, BlankApart
  <2> QED
    BY <1>1, <2>1, GetPlain
<1>6. GetChannel(<<"roll">>) = Num(1000 * (n + 1))
  BY <1>2 DEF GetChannel
<1>7. GetAllChannels = Num(1000 * n)
  BY <1>2 DEF GetAllChannels
<1> QED
  BY <1>3, <1>4, <1>5, <1>6, <1>7, GetOwn

\* Gains that differ by rounding differ by a hundredth at most.
LEMMA HundredthsNear ==
  ASSUME NEW n \in Nat
  PROVE  /\ Hundredths(n) \in 0 .. LargestInt /\ Hundredths(Rounded(n)) \in 0 .. LargestInt
         /\ Hundredths(n) - Hundredths(Rounded(n)) \in {-1, 0, 1}
<1>1. Rounded(n) \in Nat /\ Rounded(n) \div 10 = (n + 4) \div 10
  BY DEF Rounded
<1>2. n \div 10 \in Nat /\ (n + 4) \div 10 \in Nat /\ (n \div 10) - ((n + 4) \div 10) \in {-1, 0, 1}
  OBVIOUS
<1>3. /\ Int32(n \div 10) \in 0 .. LargestInt /\ Int32((n + 4) \div 10) \in 0 .. LargestInt
      /\ Int32(n \div 10) - Int32((n + 4) \div 10) \in {-1, 0, 1}
  BY <1>2, IntNear
<1> QED
  BY <1>1, <1>3 DEF Hundredths

\* The gain that is stored is the same to a hundredth, in as many bits as it is
\* sent in.
LEMMA GainsAgree ==
  ASSUME NEW n \in Nat, nvs["pid.r.p"] = Num(n)
  PROVE  /\ Answer(<<"get", "pid.r.p">>) = Num(1000 * Hundredths(Rounded(n)))
         /\ \E off \in {-1, 0, 1} : LET shown == ToInt(Answer(<<"get", "pid.r.p">>)) + off IN
              MspPid = shown % 65536 /\ MspRcTuning = shown % 256
<1>1. "pid.r.p" \in Keys /\ "pid.r.p" \in Floats /\ "pid.r.p" \notin GetNames /\ RowOf["pid.r.p"].kind = "gain"
  BY SMT, KeyNames, RowsByKey, Rows DEF Floats, GetNames, Row
<1>3. nvs["pid.r.p"] # Missing /\ nvs["pid.r.p"][2] = n
  BY SMT, TextNumbers DEF Num
<1>4. Read("pid.r.p") = Num(Rounded(n))
  BY SMT, <1>1, <1>3 DEF Read
<1>5. Shown("pid.r.p") = Num(1000 * Hundredths(Rounded(n)))
  BY SMT, <1>1, <1>4 DEF Shown, Num
<1>6. Answer(<<"get", "pid.r.p">>) = Num(1000 * Hundredths(Rounded(n)))
  <2>0. \E m : Shown("pid.r.p") = Num(m)
    BY <1>5
  <2>1. Shown("pid.r.p") # Blank
    BY <2>0, BlankApart
  <2>2. Answer(<<"get", "pid.r.p">>) = Shown("pid.r.p")
    BY SMT, <1>1, <2>1, GetPlain
  <2> QED
    BY SMT, <1>5, <2>2
<1>7. \A m \in 0 .. LargestInt : ToInt(Num(1000 * m)) = m
  BY SMT, IntIs DEF ToInt, ToFloat, Num
<1> DEFINE a == Hundredths(n)
           b == Hundredths(Rounded(n))
<1>8. MspPid = a % 65536 /\ MspRcTuning = a % 256
  BY SMT, <1>3 DEF MspPid, MspRcTuning, GetFloat
<1>9. ToInt(Answer(<<"get", "pid.r.p">>)) = b
  BY <1>6, <1>7, HundredthsNear
<1>10. a \in Nat /\ b \in Nat /\ a - b \in {-1, 0, 1} /\ b + (a - b) = a
  <2>1. a \in 0 .. LargestInt /\ b \in 0 .. LargestInt /\ a - b \in {-1, 0, 1}
    BY HundredthsNear
  <2> HIDE DEF a, b
  <2> QED
    BY <2>1
<1> HIDE DEF a, b
<1>11. \E off \in {-1, 0, 1} : MspPid = (b + off) % 65536 /\ MspRcTuning = (b + off) % 256
  <2> DEFINE f(x) == x % 65536
             g(x) == x % 256
  <2>1. MspPid = f(a) /\ MspRcTuning = g(a)
    BY <1>8
  <2> HIDE DEF f, g
  <2>2. MspPid = f(b + (a - b)) /\ MspRcTuning = g(b + (a - b))
    BY <1>10, <2>1, Zenon
  <2>3. \E off \in {-1, 0, 1} : MspPid = f(b + off) /\ MspRcTuning = g(b + off)
    BY <1>10, <2>2, Zenon
  <2> QED
    BY <2>3 DEF f, g
<1> QED
  BY <1>6, <1>9, <1>11

\* PidTask's gain, as long as it is the one in flash.
LEMMA PidAgrees ==
  ASSUME SettingsInv, LiveInv, Ready, ~behind
  PROVE  Answer(<<"get", "pid">>) = Answer(<<"get", "pid.r.p">>)
<1>1. start = "running" /\ job = <<>> /\ ~leaving /\ DOMAIN job = {}
  BY DEF Ready
<1>2. PICK n \in Nat : nvs["pid.r.p"] = Num(n) /\ Rounded(n) = live
  BY <1>1 DEF LiveInv
<1>3. Answer(<<"get", "pid.r.p">>) = Num(1000 * Hundredths(Rounded(n)))
  BY <1>2, GainsAgree
<1>4. Answer(<<"get", "pid">>) = Num(1000 * Hundredths(live))
  BY GetOwn DEF GetPid
<1> QED
  BY <1>2, <1>3, <1>4

\* The protocol, by name if it has one.
LEMMA ProtocolAgrees ==
  ASSUME \A k \in Keys : nvs[k] \in Values(k)
  PROVE  Answer(<<"get", "rc.proto">>) =
           IF MspRxType < Len(RowOf["rc.proto"].options) THEN Word(RowOf["rc.proto"].options[MspRxType + 1])
           ELSE Num(1000 * MspRxType)
<1>1. "rc.proto" \in Keys \ {"system.name"} /\ "rc.proto" \notin GetNames /\ "rc.proto" \in Enums
      /\ RowOf["rc.proto"].kind = "enum"
  BY KeyNames, KeyKinds DEF GetNames, Enums
<1>2. Answer(<<"get", "rc.proto">>) = Shown("rc.proto")
  BY <1>1, ShownSomething, GetPlain
<1>3. PICK n \in 0 .. 255 : Read("rc.proto") = Num(1000 * n) /\ ToInt(Read("rc.proto")) = n
  BY <1>1, ReadByte
<1>4. MspRxType = n
  BY <1>3 DEF MspRxType
<1>5. Shown("rc.proto") = IF n < Len(RowOf["rc.proto"].options) THEN Word(RowOf["rc.proto"].options[n + 1]) ELSE Num(1000 * n)
  BY <1>1, <1>3 DEF Shown
<1> QED
  BY <1>2, <1>4, <1>5

\* The cutoff, to two decimals.
LEMMA CutoffsAgree ==
  ASSUME nvs["filter.lpf_hz"] \in Values("filter.lpf_hz")
  PROVE  Near(ToFloat(Answer(<<"get", "filter.lpf_hz", "lpf_hz">>)), MspFilter, 5)
<1>1. "filter.lpf_hz" \in Keys /\ "filter.lpf_hz" \in Floats /\ RowOf["filter.lpf_hz"].kind = "float"
  BY KeyNames, RowsByKey, Rows DEF Floats, Row
<1>2. PICK n \in Nat : nvs["filter.lpf_hz"] = Num(n)
  BY <1>1 DEF Values
<1>3. nvs["filter.lpf_hz"] # Missing /\ nvs["filter.lpf_hz"][2] = n
  BY <1>2, TextNumbers DEF Num
<1>4. Shown("filter.lpf_hz") = Num(Rounded(n))
  <2>1. Read("filter.lpf_hz") = Num(Rounded(n))
    BY <1>1, <1>3 DEF Read
  <2> QED
    BY <1>1, <2>1 DEF Shown
<1>5. GetFilter(<<"lpf_hz">>) = Num(Rounded(n))
  <2>1. GetFilter(<<"lpf_hz">>) = GetSetting(<<"filter.lpf_hz">>)
    BY DEF GetFilter
  <2>3. \E m : Shown("filter.lpf_hz") = Num(m)
    BY <1>4
  <2>2. Shown("filter.lpf_hz") # Blank
    BY <2>3, BlankApart
  <2> QED
    BY <1>1, <1>4, <2>1, <2>2, GetKey, Zenon
<1>6. Rounded(n) \in Nat /\ Near(Rounded(n), n, 5)
  BY DEF Rounded, Near
<1>7. MspFilter = n
  BY <1>3 DEF MspFilter, GetFloat
<1>8. ToFloat(Answer(<<"get", "filter.lpf_hz", "lpf_hz">>)) = Rounded(n)
  BY <1>5, <1>6, GetOwn, TextNumbers
<1> QED
  BY <1>6, <1>7, <1>8

\* The delay, and options by their names.
LEMMA OthersAgree ==
  ASSUME \A k \in Keys : nvs[k] \in Values(k)
  PROVE  /\ ToInt(Answer(<<"get", "arm.auto_disarm">>)) = MspArming
         /\ Answer(<<"get", "rx.status">>) = Answer(<<"get", "rc.proto">>)
         /\ Answer(<<"get", "imu.lpf_bandwidth">>) = Answer(<<"get", "imu.lpf_bw">>)
         /\ \A option \in GetLpfBandwidth.among : Parsed("imu.lpf_bw", Word(option)) # Refused
<1>1. \A k \in {"arm.auto_disarm", "rc.proto", "imu.lpf_bw"} : k \in Keys \ {"system.name"} /\ k \notin GetNames
  BY KeyNames DEF GetNames
<1>2. \A k \in {"arm.auto_disarm", "rc.proto", "imu.lpf_bw"} : Answer(<<"get", k>>) = Shown(k)
  BY <1>1, ShownSomething, GetPlain
<1>3. Shown("arm.auto_disarm") = Read("arm.auto_disarm")
  <2>1. RowOf["arm.auto_disarm"].kind = "byte"
    BY RowsByKey, Rows DEF Row
  <2> QED
    BY <2>1 DEF Shown
<1>4. ToInt(Answer(<<"get", "arm.auto_disarm">>)) = MspArming
  <2>1. "arm.auto_disarm" \in Bytes /\ "arm.auto_disarm" \in Keys
    BY KeyNames DEF Bytes
  <2>2. PICK n \in 0 .. 255 : ToInt(Read("arm.auto_disarm")) = n
    BY <2>1, ReadByte
  <2>3. n % 65536 = n
    OBVIOUS
  <2> QED
    BY <1>2, <1>3, <2>2, <2>3 DEF MspArming
<1>5. ASSUME NEW option \in GetLpfBandwidth.among PROVE Parsed("imu.lpf_bw", Word(option)) # Refused
  <2> DEFINE options == RowOf["imu.lpf_bw"].options
             choice == Chosen(options, Word(option))
  <2>1. PICK i \in DOMAIN options : option = options[i]
    BY <1>5 DEF GetLpfBandwidth, Options, ToSet
  <2>2. "imu.lpf_bw" \in Enums
    BY DEF Enums
  <2>3. choice = {i}
    BY <2>1, <2>2, OptionsApart
  <2>4. Parsed("imu.lpf_bw", Word(option)) =
          IF choice # {} THEN Num(1000 * ((CHOOSE j \in choice : TRUE) - 1)) ELSE ByteOf(ToInt(Word(option)))
    BY <2>2, ParsedEnum
  <2> HIDE DEF choice
  <2>5. Parsed("imu.lpf_bw", Word(option)) = Num(1000 * ((CHOOSE j \in choice : TRUE) - 1))
    BY <2>3, <2>4
  <2>6. \E n : Parsed("imu.lpf_bw", Word(option)) = Num(n)
    BY <2>5
  <2> QED
    BY <2>6, TextNumbers
<1> QED
  BY <1>2, <1>4, <1>5, GetOwn

\* ViewsAgree: whatever was typed, pasted, reset or cut off before, a running
\* firmware tells the same in all the places that show one setting, for all
\* words and numbers and however often a backup is pasted: gains in as many
\* bits as MspProcessor sends, and by PidTask unless others have written them.
THEOREM ViewsAlwaysAgree == SettingsSpec => []ViewsAgree
<1>1. SettingsInv /\ LiveInv => ViewsAgree
  <2> SUFFICES ASSUME SettingsInv, LiveInv, Ready
               PROVE  ViewsAgree
    BY DEF ViewsAgree
  <2>1. \A k \in Keys : nvs[k] \in Values(k)
    BY AllThere DEF Ready
  <2>2. {"rc.roll", "pid.r.p", "filter.lpf_hz"} \subseteq Keys
    BY KeyNames
  <2>3. PICK n \in Nat : nvs["pid.r.p"] = Num(n)
    BY GainThere DEF Ready
  <2>4. ~behind => Answer(<<"get", "pid">>) = Answer(<<"get", "pid.r.p">>)
    BY PidAgrees
  <2> QED
    BY <2>1, <2>2, <2>3, <2>4, ChannelsAgree, GainsAgree, ProtocolAgrees, CutoffsAgree, OthersAgree DEF ViewsAgree
<1> QED
  BY <1>1, SettingsAlways, PTL
=================================================================================
