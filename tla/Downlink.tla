------------------------------ MODULE Downlink -----------------------------
(***************************************************************************)
(* What the CanSat sends, and the commands that steer it: telem_task puts  *)
(* a frame per second into the transmit queue of the XBee link             *)
(* (components/comms/src/xbee_link.cpp), logging_task sends them and reads *)
(* the uplink in spin(), and CX and LOG,DUMP arrive at the console task    *)
(* (USB), at logging_task itself (XBee) and at ble_cmd_task (Bluetooth,    *)
(* which refuses LOG,DUMP).                                                *)
(***************************************************************************)
EXTENDS Naturals

CONSTANT TxQueueLen   \* TX_QUEUE_LEN

VARIABLES
  radio,      \* radio_enabled
  stream,     \* telem_enabled
  queue,      \* frames in tx_queue_
  telem,      \* telem_task: "idle", "framed", and in enqueue_packet "full", "room"
  logging,    \* where logging_task is in spin: "idle", "send", "read"
  was,        \* what a task that dumps a log found telem_enabled to be
  dumping,    \* the tasks that dump one
  overlapped  \* two dumps have overlapped

vars == <<radio, stream, queue, telem, logging, was, dumping, overlapped>>

Dumpers == {"cli", "logging"}

Init ==
  /\ radio = FALSE /\ stream = TRUE /\ queue = 0
  /\ telem = "idle" /\ logging = "idle"
  /\ was = [t \in Dumpers |-> TRUE] /\ dumping = {} /\ overlapped = FALSE
-----------------------------------------------------------------------------
\* telem_task: in every second iteration it makes a frame of the snapshots, and
\* prints it with the health and the mission line; every 25th is for the radio
MakeFrame ==
  /\ telem = "idle" /\ stream /\ telem' = "framed"
  /\ UNCHANGED <<radio, stream, queue, logging, was, dumping, overlapped>>

\* enqueue_packet looks for room, takes the oldest frame out when there is
\* none, and puts the new one in without waiting
ForRadio ==
  /\ telem = "framed"
  /\ telem' = IF ~radio THEN "idle" ELSE IF queue = TxQueueLen THEN "full" ELSE "room"
  /\ UNCHANGED <<radio, stream, queue, logging, was, dumping, overlapped>>

DiscardsLate == queue < TxQueueLen   \* mutant of Discards
Discards     == queue > 0

Discard ==
  /\ telem = "full" /\ telem' = "room"
  /\ queue' = IF Discards THEN queue - 1 ELSE queue
  /\ UNCHANGED <<radio, stream, logging, was, dumping, overlapped>>

Enqueue ==
  /\ telem = "room" /\ telem' = "idle"
  /\ queue' = IF queue < TxQueueLen THEN queue + 1 ELSE queue
  /\ UNCHANGED <<radio, stream, logging, was, dumping, overlapped>>

TelemTask == MakeFrame \/ ForRadio \/ Discard \/ Enqueue
-----------------------------------------------------------------------------
\* logging_task: spin sends what is in the queue, then reads the uplink
Spin ==
  /\ logging = "idle" /\ logging' = "send"
  /\ UNCHANGED <<radio, stream, queue, telem, was, dumping, overlapped>>

Send ==
  /\ logging = "send" /\ queue > 0 /\ queue' = queue - 1
  /\ UNCHANGED <<radio, stream, telem, logging, was, dumping, overlapped>>

Sent ==
  /\ logging = "send" /\ queue = 0 /\ logging' = "read"
  /\ UNCHANGED <<radio, stream, queue, telem, was, dumping, overlapped>>

UplinkRead ==
  /\ logging = "read" /\ "logging" \notin dumping /\ logging' = "idle"
  /\ UNCHANGED <<radio, stream, queue, telem, was, dumping, overlapped>>

LoggingTask == Spin \/ Send \/ Sent \/ UplinkRead
-----------------------------------------------------------------------------
\* A command is carried out by the task that reads it; a task that dumps reads
\* no other
Reads(task) == task \notin dumping /\ (task = "logging" => logging = "read")

\* CX,ON and CX,OFF
Cx(task) ==
  /\ Reads(task) /\ radio' \in BOOLEAN
  /\ UNCHANGED <<stream, queue, telem, logging, was, dumping, overlapped>>

\* LOG,DUMP pauses the stream, waits, reads the recording, and restores it
DumpBegins(task) ==
  /\ Reads(task) /\ dumping' = dumping \cup {task}
  /\ was' = [was EXCEPT ![task] = stream] /\ stream' = FALSE
  /\ overlapped' = (overlapped \/ dumping # {})
  /\ UNCHANGED <<radio, queue, telem, logging>>

RestoredNot(task) == FALSE     \* mutant of Restored
Restored(task)    == was[task]

DumpEnds(task) ==
  /\ task \in dumping /\ dumping' = dumping \ {task}
  /\ stream' = Restored(task)
  /\ UNCHANGED <<radio, queue, telem, logging, was, overlapped>>
=============================================================================
