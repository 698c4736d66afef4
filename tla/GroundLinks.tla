----------------------------- MODULE GroundLinks ---------------------------
(***************************************************************************)
(* The links to the ground together: the Bluetooth link, which nav_task    *)
(* switches off for a flight, and the downlink, which the commands of all  *)
(* links steer.  A line that came in over Bluetooth waits in g_ble_cmd_q   *)
(* for ble_cmd_task, which may carry it out after the link is gone.        *)
(***************************************************************************)
EXTENDS Naturals

CONSTANTS
  TxQueueLen,   \* TX_QUEUE_LEN
  BleQueueLen   \* length of g_ble_cmd_q

ASSUME LinksAssumption == TxQueueLen \in Nat \ {0} /\ BleQueueLen \in Nat \ {0}

VARIABLES
  flying, bleState, enabled, synced, conn, adv, peer, closing, event, host, nav,
  radio, stream, queue, telem, logging, was, dumping, overlapped,
  bleLines   \* lines in g_ble_cmd_q

Ble  == INSTANCE BleLink
Down == INSTANCE Downlink

bleVars  == <<flying, bleState, enabled, synced, conn, adv, peer, closing, event, host, nav>>
downVars == <<radio, stream, queue, telem, logging, was, dumping, overlapped>>
vars     == <<bleVars, downVars, bleLines>>

Init == Ble!Init /\ Down!Init /\ bleLines = 0

BleStep  == Ble!Next /\ UNCHANGED <<downVars, bleLines>>
DownStep == (Down!TelemTask \/ Down!LoggingTask) /\ UNCHANGED <<bleVars, bleLines>>

\* chr_access in the host task: a line that finds the queue full is dropped
LineArrives ==
  /\ peer /\ host = "idle"
  /\ bleLines' = IF bleLines < BleQueueLen THEN bleLines + 1 ELSE bleLines
  /\ UNCHANGED <<bleVars, downVars>>

\* ble_cmd_task: CX is carried out, every other line changes nothing here
BleCommand ==
  /\ bleLines > 0 /\ bleLines' = bleLines - 1 /\ UNCHANGED bleVars
  /\ Down!Cx("ble_cmd") \/ UNCHANGED downVars

Command ==
  /\ \E task \in Down!Dumpers : Down!Cx(task) \/ Down!DumpBegins(task)
  /\ UNCHANGED <<bleVars, bleLines>>

DumpEnds == (\E task \in Down!Dumpers : Down!DumpEnds(task)) /\ UNCHANGED <<bleVars, bleLines>>

Next == BleStep \/ DownStep \/ LineArrives \/ BleCommand \/ Command \/ DumpEnds

\* Every task goes on, and a connection that was terminated ends; clients come
\* and go as they like, and nobody has to send a command
Fairness ==
  /\ WF_vars(Ble!HostTask /\ UNCHANGED <<downVars, bleLines>>)
  /\ WF_vars(Ble!NavTask /\ UNCHANGED <<downVars, bleLines>>)
  /\ WF_vars(closing /\ Ble!Disconnect /\ UNCHANGED <<downVars, bleLines>>)

Spec == Init /\ [][Next]_vars /\ Fairness
-----------------------------------------------------------------------------
\* Bluetooth comes back after landing (README.md:31) and stays there on the
\* pad: with no flight going on and the stack up, the CanSat advertises or has
\* a client again and again, whatever clients, failed connections and the
\* switching off and on of earlier flights have left behind.
Reachable == <>[](~flying /\ synced) => []<>(adv \/ peer)

\* "If the queue is full the oldest entry is dropped" (xbee_link.hpp): the new
\* frame always finds room, whatever logging_task takes out between the steps
\* of enqueue_packet.
NewestFrameTaken == telem = "room" => queue < TxQueueLen

\* The stream is paused while a flight log is downloading, and comes back after
\* it (docs/TELEMETRY_FORMAT.md:44), unless two downloads, one over USB and one
\* over the XBee, have ever overlapped: then it may stay off, or run into the
\* second one.
StreamBack == dumping = {} => stream \/ overlapped
=============================================================================
