---------------------------- MODULE LinksProofs ----------------------------
(***************************************************************************)
(* Proofs about the downlink, for queues of every length: what the uplink, *)
(* the Bluetooth commands, telem_task and logging_task do between the steps*)
(* of each other.                                                          *)
(***************************************************************************)
EXTENDS GroundLinks, TLAPS

Dumpers == Down!Dumpers

\* Every step of the links together is a step of the downlink or none of it.
DownNext ==
  \/ Down!TelemTask \/ Down!LoggingTask
  \/ \E task \in Dumpers \cup {"ble_cmd"} : Down!Cx(task)
  \/ \E task \in Dumpers : Down!DumpBegins(task) \/ Down!DumpEnds(task)

\* The Bluetooth side and the lines under way leave the downlink alone.
LEMMA StepOfDownlink ==
  ASSUME [Next]_vars PROVE [DownNext]_downVars
<1>1. CASE BleStep \/ LineArrives \/ UNCHANGED vars
  BY <1>1, Zenon DEF BleStep, LineArrives, vars, downVars
<1>2. CASE DownStep
  BY <1>2, Zenon DEF DownStep, DownNext
<1>3. CASE BleCommand
  BY <1>3, Zenon DEF BleCommand, DownNext
<1>4. CASE Command \/ DumpEnds
  BY <1>4, Zenon DEF Command, DumpEnds, DownNext, Dumpers
<1> QED
  BY <1>1, <1>2, <1>3, <1>4, Zenon DEF Next

(***************************************************************************)
(* The transmit queue                                                      *)
(***************************************************************************)

\* Between the look for room and the frame, only logging_task changes the queue,
\* and it takes frames out.
QueueInv ==
  /\ queue \in 0 .. TxQueueLen
  /\ telem \in {"idle", "framed", "full", "room"}
  /\ NewestFrameTaken

\* The newest frame always finds room, for every length of the queue and
\* whatever logging_task takes out between the steps of enqueue_packet.
THEOREM FrameTaken == Spec => []NewestFrameTaken
<1>1. Init => QueueInv
  BY LinksAssumption DEF Init, Down!Init, QueueInv, NewestFrameTaken
<1>2. QueueInv /\ [DownNext]_downVars => QueueInv'
  <2> SUFFICES ASSUME QueueInv, [DownNext]_downVars PROVE QueueInv'
    OBVIOUS
  <2> USE LinksAssumption DEF QueueInv, NewestFrameTaken
  <2>1. CASE Down!MakeFrame
    BY <2>1 DEF Down!MakeFrame
  <2>2. CASE Down!ForRadio
    BY <2>2 DEF Down!ForRadio
  <2>3. CASE Down!Discard
    BY <2>3 DEF Down!Discard, Down!Discards
  <2>4. CASE Down!Enqueue
    BY <2>4 DEF Down!Enqueue
  <2>5. CASE Down!Send
    BY <2>5 DEF Down!Send
  <2>6. ASSUME UNCHANGED <<queue, telem>> PROVE QueueInv'
    BY <2>6
  <2>7. CASE Down!Spin \/ Down!Sent \/ Down!UplinkRead \/ UNCHANGED downVars
    BY <2>6, <2>7, Zenon DEF Down!Spin, Down!Sent, Down!UplinkRead, downVars
  <2>8. ASSUME NEW task, Down!Cx(task) \/ Down!DumpBegins(task) \/ Down!DumpEnds(task)
        PROVE  QueueInv'
    BY <2>6, <2>8, Zenon DEF Down!Cx, Down!DumpBegins, Down!DumpEnds
  <2> QED
    BY <2>1, <2>2, <2>3, <2>4, <2>5, <2>7, <2>8, Zenon
    DEF DownNext, Down!TelemTask, Down!LoggingTask
<1>3. QueueInv => NewestFrameTaken
  BY DEF QueueInv
<1> QED
  BY <1>1, <1>2, <1>3, StepOfDownlink, PTL DEF Spec

(***************************************************************************)
(* The telemetry stream                                                    *)
(***************************************************************************)

\* As long as no two dumps overlapped, the one task that dumps found the stream
\* on, so that it switches it on again.
StreamInv ==
  /\ stream \in BOOLEAN /\ was \in [Dumpers -> BOOLEAN] /\ dumping \subseteq Dumpers
  /\ ~overlapped => /\ dumping = {} => stream
                    /\ \A task \in dumping : was[task] /\ dumping = {task}

\* The stream comes back after every download, unless two of them overlapped.
THEOREM StreamComesBack == Spec => []StreamBack
<1>1. Init => StreamInv
  <2> SUFFICES ASSUME Init PROVE StreamInv
    OBVIOUS
  <2>1. stream = TRUE /\ was = [t \in Dumpers |-> TRUE] /\ dumping = {}
    BY Zenon DEF Init, Down!Init, Dumpers
  <2>2. was \in [Dumpers -> BOOLEAN] /\ stream \in BOOLEAN
    BY <2>1, Zenon
  <2> QED
    BY <2>1, <2>2, Zenon DEF StreamInv
<1>2. StreamInv /\ [DownNext]_downVars => StreamInv'
  <2> SUFFICES ASSUME StreamInv, [DownNext]_downVars PROVE StreamInv'
    OBVIOUS
  <2>1. ASSUME UNCHANGED <<stream, was, dumping, overlapped>> PROVE StreamInv'
    BY <2>1, Zenon DEF StreamInv
  <2>2. CASE Down!TelemTask \/ UNCHANGED downVars
    BY <2>1, <2>2, Zenon
    DEF Down!TelemTask, Down!MakeFrame, Down!ForRadio, Down!Discard, Down!Enqueue, downVars
  <2>3. CASE Down!LoggingTask
    BY <2>1, <2>3, Zenon
    DEF Down!LoggingTask, Down!Spin, Down!Send, Down!Sent, Down!UplinkRead
  <2>4. ASSUME NEW task, Down!Cx(task) PROVE StreamInv'
    BY <2>1, <2>4, Zenon DEF Down!Cx
  <2>5. ASSUME NEW task \in Dumpers, Down!DumpBegins(task) PROVE StreamInv'
    <3>1. /\ task \notin dumping /\ dumping' = dumping \cup {task}
          /\ was' = [was EXCEPT ![task] = stream]
          /\ overlapped' = (overlapped \/ dumping # {})
      BY <2>5, Zenon DEF Down!DumpBegins, Down!Reads
    <3>2. stream \in BOOLEAN /\ stream' \in BOOLEAN
      BY <2>5, Zenon DEF StreamInv, Down!DumpBegins
    <3>3. was' \in [Dumpers -> BOOLEAN] /\ was'[task] = stream
      BY <2>5, <3>1, <3>2, Zenon DEF StreamInv
    <3>4. dumping' \subseteq Dumpers
      BY <2>5, <3>1, Zenon DEF StreamInv
    <3>5. ASSUME ~overlapped'
          PROVE  stream /\ dumping' = {task}
      BY <3>1, <3>5, Zenon DEF StreamInv
    <3> QED
      BY <3>1, <3>2, <3>3, <3>4, <3>5, Zenon DEF StreamInv
  <2>6. ASSUME NEW task \in Dumpers, Down!DumpEnds(task) PROVE StreamInv'
    <3>1. /\ task \in dumping /\ dumping' = dumping \ {task}
          /\ stream' = was[task] /\ UNCHANGED <<was, overlapped>>
      BY <2>6, Zenon DEF Down!DumpEnds, Down!Restored
    <3>2. dumping' \subseteq Dumpers /\ stream' \in BOOLEAN
      BY <2>6, <3>1, Zenon DEF StreamInv
    <3>3. ~overlapped' => stream' /\ dumping' = {}
      BY <3>1, Zenon DEF StreamInv
    <3> QED
      BY <3>1, <3>2, <3>3, Zenon DEF StreamInv
  <2> QED
    BY <2>2, <2>3, <2>4, <2>5, <2>6, Zenon DEF DownNext
<1>3. StreamInv => StreamBack
  BY Zenon DEF StreamInv, StreamBack
<1> QED
  BY <1>1, <1>2, <1>3, StepOfDownlink, PTL DEF Spec
=============================================================================
