-------------------------- MODULE Flight32Console --------------------------
(***************************************************************************)
(* The serial console and the settings of the Flight32 firmware            *)
(* (src/flight32-dev): SerialManagerTask with its byte-wise MSP parser and *)
(* its terminal, SettingsManager with the flash keys it writes one after   *)
(* the other, com_task with the output queue and the flush handshake, the  *)
(* gains of PidTask, and FlightController::setup, which brings them up.    *)
(*                                                                         *)
(* The host sends typed lines and MSP frames; either may break off, and    *)
(* the power may go at any step.  A line is two characters and a newline,  *)
(* what it commands is chosen when it is executed; a frame keeps its       *)
(* header, length fields, payload and checksum, and the checksum matches   *)
(* only a frame the parser has read from its first byte.  Gains are in     *)
(* thousandths; one axis with P and D stands for all.                      *)
(***************************************************************************)
EXTENDS Integers, Sequences, Functions

CONSTANTS
  MaxPayload,   \* MSP_MAX_PAYLOAD_SIZE
  QueueLength,  \* COM_QUEUE_LENGTH
  Tuned, Typed, \* the gains a user sets, and to what
  EarlySends    \* bound on what is sent between a start and the end of setup

ASSUME ConsoleAssumption ==
  /\ MaxPayload \in Nat \ {0} /\ QueueLength \in Nat \ {0}
  /\ Tuned \subseteq {"p", "d"} /\ Typed \subseteq Nat /\ EarlySends \in Nat

VARIABLES
  nvs,        \* the keys in flash, Missing when there is none
  live,       \* the gains PidTask uses
  diverged,   \* flash was changed behind PidTask's back since it loaded its gains
  setup,      \* where FlightController::setup is
  serial,     \* where the serial task is
  job,        \* puts the current operation still has to make
  after,      \* what the serial task does when they are made
  field,      \* _msp_state
  expected,   \* _msp_message_length_expected
  got,        \* _msp_payload_index
  mode,       \* _current_mode
  prompting,  \* _should_show_prompt
  buffer,     \* the terminal's _input_buffer
  queue,      \* com_queue
  signal,     \* com_flush_signal_queue holds its one element
  out,        \* the bytes the host has sent that are not read yet
  due,        \* they end a frame the firmware has every reason to carry out
  owed,       \* a line was left half typed: a frame comes next
  aligned,    \* the parser has read all of it so far, from an idle state on
  clean,      \* no frame has left the parser within one since the last silence
  early       \* lines and frames sent before setup was done

settings == <<nvs, live, diverged>>
parser   == <<field, expected, got>>
console  == <<mode, prompting, buffer>>
output   == <<queue, signal>>
host     == <<out, due, owed, aligned, clean, early>>
vars     == <<settings, setup, serial, job, after, parser, console, output, host>>
-----------------------------------------------------------------------------
Missing == -1
Schema  == 3
Gains   == {"p", "d"}
Default == [other |-> 0, p |-> 200, d |-> 5, schema |-> Schema]
Keys    == DOMAIN Default

\* String(float) keeps two decimals
Text(gain) == 10 * ((gain + 4) \div 10)
Saved(key) == IF nvs[key] = Missing THEN 0 ELSE nvs[key]
Loaded     == [g \in Gains |-> Text(Saved(g))]

Put(key, value) == <<key, value>>
Clear           == Put("all", Missing)
SchemaPut       == <<Put("schema", Schema)>>

ResetVersionFirst ==   \* mutant of FactoryReset
  <<Clear>> \o SchemaPut \o
  <<Put("other", Default.other), Put("p", Default.p), Put("d", Default.d)>>
FactoryReset ==
  <<Clear, Put("other", Default.other), Put("p", Default.p), Put("d", Default.d)>> \o SchemaPut

GainPutsNoD(gains) == <<Put("p", Text(gains.p))>>   \* mutant of GainPuts
GainPuts(gains) == <<Put("p", Text(gains.p)), Put("d", Text(gains.d))>>

MakePut ==
  /\ job' = Tail(job)
  /\ LET key == Head(job)[1]  value == Head(job)[2] IN
       nvs' = IF key = "all" THEN [k \in Keys |-> Missing] ELSE [nvs EXCEPT ![key] = value]

Running  == setup \notin {"begin", "settings", "offsets"}
SetGains == [p |-> Default.p, d |-> Default.d]   \* PidTask's constructor

Init ==
  /\ nvs = [k \in Keys |-> Missing]
  /\ live = SetGains /\ diverged = FALSE
  /\ setup = "begin" /\ serial = "down" /\ job = <<>> /\ after = "none"
  /\ field = "IDLE" /\ expected = 0 /\ got = 0
  /\ mode = "TERMINAL" /\ prompting = TRUE /\ buffer = <<>>
  /\ queue = <<>> /\ signal = FALSE
  /\ out = <<>> /\ due = FALSE /\ owed = FALSE /\ aligned = FALSE /\ clean = TRUE /\ early = 0

\* A reset leaves nothing but the flash
Reset ==
  /\ nvs' = nvs
  /\ live' = SetGains /\ diverged' = FALSE
  /\ setup' = "begin" /\ serial' = "down" /\ job' = <<>> /\ after' = "none"
  /\ field' = "IDLE" /\ expected' = 0 /\ got' = 0
  /\ mode' = "TERMINAL" /\ prompting' = TRUE /\ buffer' = <<>>
  /\ queue' = <<>> /\ signal' = FALSE
  /\ out' = <<>> /\ due' = FALSE /\ owed' = FALSE /\ aligned' = FALSE /\ clean' = TRUE /\ early' = 0

PowerCut == setup # "begin" /\ Reset
-----------------------------------------------------------------------------
(***************************************************************************)
(* FlightController::setup                                                 *)
(***************************************************************************)
BeginSettings ==
  /\ setup = "begin" /\ setup' = "settings"
  /\ job' = IF nvs.schema = Schema THEN <<>> ELSE FactoryReset
  /\ UNCHANGED <<settings, serial, after, parser, console, output, host>>

SetupPut ==
  /\ ~Running /\ job # <<>> /\ MakePut
  /\ UNCHANGED <<live, diverged, setup, serial, after, parser, console, output, host>>

\* The offsets of a calibration are saved when there is an IMU
Calibrate ==
  /\ setup = "settings" /\ job = <<>> /\ setup' = "offsets"
  /\ job' \in {<<>>, <<Put("other", Default.other)>> \o SchemaPut}
  /\ UNCHANGED <<settings, serial, after, parser, console, output, host>>

StartTasks ==
  /\ setup = "offsets" /\ job = <<>>
  /\ live' = Loaded /\ setup' = "flush" /\ serial' = "read"
  /\ UNCHANGED <<nvs, diverged, job, after, parser, console, output, host>>

\* com_flush_output, and then showPrompt with another one
SetupFlush ==
  /\ setup \in {"flush", "flush again"} /\ Len(queue) < QueueLength
  /\ queue' = Append(queue, "flush")
  /\ setup' = IF setup = "flush" THEN "wait" ELSE "wait again"
  /\ UNCHANGED <<settings, serial, job, after, parser, console, signal, host>>

SetupFlushed ==
  /\ setup \in {"wait", "wait again"} /\ signal /\ signal' = FALSE
  /\ setup' = IF setup = "wait again" THEN "prompt" ELSE IF prompting THEN "flush again" ELSE "done"
  /\ UNCHANGED <<settings, serial, job, after, parser, console, queue, host>>

SetupPrompt ==
  /\ setup = "prompt" /\ setup' = "done" /\ Len(queue) < QueueLength
  /\ queue' = Append(queue, "prompt")
  /\ UNCHANGED <<settings, serial, job, after, parser, console, signal, host>>

Setup == BeginSettings \/ SetupPut \/ Calibrate \/ StartTasks \/ SetupFlush \/ SetupFlushed \/ SetupPrompt
-----------------------------------------------------------------------------
(***************************************************************************)
(* The host.  Bytes are pairs of a kind and a value, which only the length *)
(* bytes need.  Typed text has no $, and a line is not typed with a pause  *)
(* as long as MSP_TIMEOUT_MS in it; a line left half typed is followed by  *)
(* a frame (the GUI takes over the port), and a frame breaks off behind    *)
(* its header or not at all.  What the parser gives up in a payload that   *)
(* is too long may look like the header of another frame.                  *)
(***************************************************************************)
Byte(kind)  == <<kind, 0>>
Length(n)   == <<"len", n>>
Over        == MaxPayload + 1    \* any longer payload
Jumbo       == MaxPayload + 2    \* the length byte 255
Times(n, b) == [i \in 1 .. n |-> b]

Line == <<Byte("a"), Byte("b"), Byte("newline")>>

Header(kind) ==
  CASE kind = "V1"    -> <<Byte("$"), Byte("M"), Byte("<")>>
    [] kind = "jumbo" -> <<Byte("$"), Byte("M"), Byte("<")>>
    [] kind = "V2"    -> <<Byte("$"), Byte("X"), Byte("<")>>
Fields(kind, n) ==
  CASE kind = "V1"    -> <<Length(n), Byte("data")>>
    [] kind = "jumbo" -> <<Length(Jumbo), Byte("data"), Length(n), Length(0)>>
    [] kind = "V2"    -> Times(3, Byte("data")) \o <<Length(n), Length(0)>>
Frame(kind, n) == Header(kind) \o Fields(kind, n) \o Times(n, Byte("data")) \o <<Byte("crc")>>

\* Behind the byte that is one too many the parser is idle again
LongFrame(kind, tail) ==
  Header(kind) \o Fields(kind, Over) \o Times(Over, Byte("data")) \o tail \o <<Byte("crc")>>
Tails == {SubSeq(Header(kind), 1, n) : kind \in {"V1", "V2"}, n \in 1 .. 3}

\* A jumbo frame is used for a payload that is too long for a plain one
Frames  == {<<"V1", n>> : n \in 0 .. Over} \cup {<<"V2", n>> : n \in 0 .. Over} \cup {<<"jumbo", Over>>}

Sends ==
  /\ serial = "read" /\ out = <<>> /\ aligned' = FALSE
  /\ setup = "done" \/ early < EarlySends
  /\ early' = IF setup = "done" THEN 0 ELSE early + 1
  /\ UNCHANGED <<settings, setup, serial, job, after, parser, console, output>>

TypeLine ==
  /\ Sends /\ ~owed
  /\ out' \in {Line, <<Byte("newline")>>} /\ due' = FALSE /\ UNCHANGED <<owed, clean>>

HalfLine ==
  /\ Sends /\ ~owed
  /\ \E n \in 1 .. 2 : out' = SubSeq(Line, 1, n)
  /\ due' = FALSE /\ owed' = TRUE /\ UNCHANGED clean

SendFrame ==
  /\ Sends /\ owed' = FALSE /\ UNCHANGED clean
  /\ \E f \in Frames : out' = Frame(f[1], f[2]) /\ due' = (clean /\ f[2] <= MaxPayload)

SendLong ==
  /\ Sends /\ owed' = FALSE /\ clean' = FALSE
  /\ \E kind \in {"V1", "V2", "jumbo"}, tail \in Tails : out' = LongFrame(kind, tail)
  /\ due' = FALSE

BreakFrame ==
  /\ Sends /\ owed' = FALSE /\ clean' = FALSE
  /\ \E f \in Frames : LET bytes == Frame(f[1], f[2]) IN
       \E n \in 3 .. Len(bytes) - 1 : out' = SubSeq(bytes, 1, n)
  /\ due' = FALSE

Host == TypeLine \/ HalfLine \/ SendFrame \/ SendLong \/ BreakFrame
-----------------------------------------------------------------------------
(***************************************************************************)
(* com_task.  A flush is acknowledged in every mode; the acknowledgement   *)
(* is lost when the signal queue still holds one.                          *)
(***************************************************************************)
AcknowledgedIn(m) == m = "TERMINAL"   \* mutant of Acknowledged
Acknowledged(m) == TRUE

ComTask ==
  /\ queue # <<>> /\ queue' = Tail(queue)
  /\ signal' = (signal \/ (Head(queue) = "flush" /\ Acknowledged(mode)))
  /\ UNCHANGED <<settings, setup, serial, job, after, parser, console, host>>

\* com_send_log: a message that finds the queue full is dropped
Logged(n) ==
  LET room == QueueLength - Len(queue)
  IN  queue \o Times(IF n < room THEN n ELSE room, "log")
-----------------------------------------------------------------------------
(***************************************************************************)
(* SerialManagerTask::run, one byte at a time: _parse_msp_char.            *)
(***************************************************************************)
Reads ==
  /\ serial = "read" /\ out # <<>> /\ out' = Tail(out) /\ due' = (due /\ Len(out) > 1)
  /\ UNCHANGED <<owed, clean, early, setup, output>>
Next1 == Head(out)[1]

\* The code leaves the length and the index behind until the next $; nothing
\* reads them before
ForgetsFrame == expected' = 0 /\ got' = 0 /\ aligned' = FALSE

\* The length a byte stands for: one that is not a length byte may be any
Value(b)  == IF b[1] = "len" THEN {b[2]} ELSE 0 .. Jumbo
Capped(n) == IF n < Over THEN n ELSE Over

Following ==
  [FLAG_V2 |-> "CODE_V2_LOW", CODE_V2_LOW |-> "CODE_V2_HIGH", CODE_V2_HIGH |-> "LENGTH_V2_LOW",
   CODE_JUMBO_V1 |-> "LENGTH_JUMBO_LOW",
   LENGTH_V2_LOW |-> "LENGTH_V2_HIGH", LENGTH_JUMBO_LOW |-> "LENGTH_JUMBO_HIGH"]
Counted == {"FLAG_V2", "CODE_V2_LOW", "CODE_V2_HIGH", "CODE_JUMBO_V1"}

BodyOf(n) == IF n > 0 THEN "PAYLOAD" ELSE "CHECKSUM"
Keeps     == UNCHANGED <<settings, serial, job, after, console, aligned>>

FrameStart ==   \* '$'
  /\ Reads /\ field = "IDLE" /\ Next1 = "$"
  /\ field' = "PROTO_IDENTIFIER" /\ expected' = 0 /\ got' = 0 /\ aligned' = TRUE
  /\ UNCHANGED <<settings, serial, job, after, console>>

Protocol ==     \* 'M' or 'X'
  /\ Reads /\ field = "PROTO_IDENTIFIER" /\ Next1 \in {"M", "X"}
  /\ field' = IF Next1 = "M" THEN "DIRECTION_V1" ELSE "DIRECTION_V2"
  /\ UNCHANGED <<expected, got>> /\ Keeps

Direction ==    \* '<' also switches a terminal over to MSP
  /\ Reads /\ field \in {"DIRECTION_V1", "DIRECTION_V2"} /\ Next1 = "<"
  /\ mode' = "MSP" /\ prompting' = (prompting /\ mode = "MSP")
  /\ field' = IF field = "DIRECTION_V1" THEN "LENGTH_V1" ELSE "FLAG_V2"
  /\ UNCHANGED <<settings, serial, job, after, buffer, aligned, expected, got>>

CountedByte ==
  /\ Reads /\ field \in Counted /\ field' = Following[field]
  /\ UNCHANGED <<expected, got>> /\ Keeps

LengthV1 ==
  /\ Reads /\ field = "LENGTH_V1"
  /\ \E n \in Value(Head(out)) :
       expected' = n /\ field' = IF n = Jumbo THEN "CODE_JUMBO_V1" ELSE "CODE_V1"
  /\ UNCHANGED got /\ Keeps

CodeV1 ==
  /\ Reads /\ field = "CODE_V1"
  /\ got' = 0 /\ field' = BodyOf(expected) /\ UNCHANGED expected /\ Keeps

LengthLow ==
  /\ Reads /\ field \in {"LENGTH_V2_LOW", "LENGTH_JUMBO_LOW"} /\ field' = Following[field]
  /\ \E n \in Value(Head(out)) : expected' = Capped(n)
  /\ UNCHANGED got /\ Keeps

\* The high byte of a length counts 256 times; a jumbo frame always has a payload
LengthHigh ==
  /\ Reads /\ field \in {"LENGTH_V2_HIGH", "LENGTH_JUMBO_HIGH"} /\ got' = 0
  /\ \E n \in Value(Head(out)) : expected' = Capped(expected + n * Over)
  /\ field' = IF field = "LENGTH_JUMBO_HIGH" THEN "PAYLOAD" ELSE BodyOf(expected')
  /\ Keeps

Fits        == got < MaxPayload

Payload ==
  /\ Reads /\ field = "PAYLOAD" /\ Fits
  /\ got' = got + 1
  /\ field' = IF got' < expected THEN "PAYLOAD" ELSE "CHECKSUM"
  /\ UNCHANGED expected /\ Keeps

PayloadTooLong ==
  /\ Reads /\ field = "PAYLOAD" /\ ~Fits /\ field' = "IDLE"
  /\ ForgetsFrame /\ UNCHANGED <<settings, serial, job, after, console>>

BadChecksum ==
  /\ Reads /\ field = "CHECKSUM" /\ ~(aligned /\ Next1 = "crc") /\ field' = "IDLE"
  /\ ForgetsFrame /\ UNCHANGED <<settings, serial, job, after, console>>

\* _process_msp_message.  The command is told that its payload is empty
\* (_msp_message_length_received is never counted up), so one that sets
\* something is answered with an error.
MspCommand ==
  /\ Reads /\ field = "CHECKSUM" /\ aligned /\ Next1 = "crc" /\ field' = "IDLE"
  /\ serial' = "work" /\ after' = "reply"
  /\ \/ job' \in {<<>>, SchemaPut} /\ UNCHANGED diverged
     \/ job' = FactoryReset /\ diverged' = TRUE
  /\ ForgetsFrame /\ UNCHANGED <<nvs, live, console>>

(***************************************************************************)
(* What the parser refuses goes to the terminal, in terminal mode.         *)
(***************************************************************************)
Refused ==
  \/ field = "IDLE" /\ Next1 # "$"
  \/ field = "PROTO_IDENTIFIER" /\ Next1 \notin {"M", "X"}
  \/ field \in {"DIRECTION_V1", "DIRECTION_V2"} /\ Next1 # "<"

Refuses ==
  /\ Reads /\ Refused /\ field' = "IDLE" /\ ForgetsFrame

Ignored ==
  /\ Refuses /\ mode = "MSP"
  /\ UNCHANGED <<settings, serial, job, after, console>>

Typing ==
  /\ Refuses /\ mode = "TERMINAL" /\ Next1 # "newline"
  /\ buffer' = Append(buffer, Next1) /\ prompting' = TRUE
  /\ UNCHANGED <<settings, serial, job, after, mode>>

\* An empty line shows the prompt again
EmptyLine ==
  /\ Refuses /\ mode = "TERMINAL" /\ Next1 = "newline" /\ buffer = <<>>
  /\ serial' = "flush" /\ prompting' = TRUE
  /\ UNCHANGED <<settings, job, after, mode, buffer>>

(***************************************************************************)
(* Terminal::_parse_command and its handlers.                              *)
(***************************************************************************)
Executes ==
  /\ Refuses /\ mode = "TERMINAL" /\ Next1 = "newline" /\ buffer # <<>>
  /\ buffer' = <<>> /\ prompting' = TRUE /\ serial' = "work"
  /\ UNCHANGED <<nvs, mode>>

\* help, status, get, dump and every other one that changes nothing here
OtherCommand == Executes /\ job' = <<>> /\ after' = "prompt" /\ UNCHANGED <<live, diverged>>

Reboot == Executes /\ job' = <<>> /\ after' = "reboot" /\ UNCHANGED <<live, diverged>>

Save == Executes /\ job' = SchemaPut /\ after' = "prompt" /\ UNCHANGED <<live, diverged>>

FactoryResetConfirm ==
  /\ Executes /\ job' = FactoryReset /\ after' = "reboot"
  /\ diverged' = TRUE /\ UNCHANGED live

\* set <key> = <value>: flash only
SetSetting ==
  /\ Executes /\ after' = "prompt" /\ UNCHANGED live
  /\ \/ \E g \in Tuned, v \in Typed : job' = <<Put(g, v)>> /\ diverged' = TRUE
     \/ job' = <<Put("other", Default.other)>> /\ UNCHANGED diverged

\* set pid: the gain in use at once, and all gains of the axis to flash
SetPid ==
  /\ Executes /\ after' = "prompt" /\ UNCHANGED diverged
  /\ \E g \in Tuned, v \in Typed : live' = [live EXCEPT ![g] = v]
  /\ job' = GainPuts(live')

ResetPid ==
  /\ Executes /\ after' = "prompt" /\ UNCHANGED diverged
  /\ live' = SetGains /\ job' = GainPuts(live') \o SchemaPut

ReadByte ==
  \/ FrameStart \/ Protocol \/ Direction \/ CountedByte \/ LengthV1 \/ CodeV1 \/ LengthLow \/ LengthHigh
  \/ Payload \/ PayloadTooLong \/ BadChecksum \/ MspCommand \/ Ignored \/ Typing \/ EmptyLine
  \/ OtherCommand \/ Reboot \/ Save \/ FactoryResetConfirm \/ SetSetting \/ SetPid \/ ResetPid
-----------------------------------------------------------------------------
\* MSP_TIMEOUT_MS without a byte; only MSP mode has it
KeepTyped(b) == b      \* mutant of Cleared
Cleared(b)   == <<>>
Stuck(f)     == f      \* mutant of Restarted
Restarted(f) == "IDLE"

Timeout ==
  /\ serial = "read" /\ out = <<>> /\ mode = "MSP"
  /\ mode' = "TERMINAL" /\ field' = Restarted(field) /\ prompting' = TRUE /\ buffer' = Cleared(buffer)
  /\ clean' = TRUE
  /\ ForgetsFrame /\ UNCHANGED <<settings, setup, serial, job, after, output, out, due, owed, early>>

Works ==
  /\ serial = "work" /\ job # <<>> /\ MakePut
  /\ UNCHANGED <<live, diverged, setup, serial, after, parser, console, output, host>>

Replies ==
  /\ serial = "work" /\ job = <<>> /\ after = "reply" /\ serial' = "read" /\ after' = "none"
  /\ UNCHANGED <<settings, setup, job, parser, console, output, host>>

\* A confirmation is a line, a list may be longer than the queue
LinesPrinted == 1 .. QueueLength + 1

Reports ==
  /\ serial = "work" /\ job = <<>> /\ after = "prompt" /\ serial' = "flush" /\ after' = "none"
  /\ \E n \in LinesPrinted : queue' = Logged(n)
  /\ UNCHANGED <<settings, setup, job, parser, console, signal, host>>

Restarts == serial = "work" /\ job = <<>> /\ after = "reboot" /\ Reset

SerialFlush ==
  /\ serial = "flush" /\ serial' = "wait" /\ Len(queue) < QueueLength
  /\ queue' = Append(queue, "flush")
  /\ UNCHANGED <<settings, setup, job, after, parser, console, signal, host>>

SerialFlushed ==
  /\ serial = "wait" /\ signal /\ signal' = FALSE /\ serial' = "prompt"
  /\ UNCHANGED <<settings, setup, job, after, parser, console, queue, host>>

SerialPrompt ==
  /\ serial = "prompt" /\ serial' = "read" /\ Len(queue) < QueueLength
  /\ queue' = Append(queue, "prompt")
  /\ UNCHANGED <<settings, setup, job, after, parser, console, signal, host>>

Serial == Works \/ Replies \/ Reports \/ Restarts \/ SerialFlush \/ SerialFlushed \/ SerialPrompt

Next == PowerCut \/ Setup \/ Host \/ ReadByte \/ Timeout \/ Serial \/ ComTask

\* Every task that is ready runs, and what has arrived is read; nobody has to
\* send, and nothing relies on the timeout
Fairness == WF_vars(Setup) /\ WF_vars(ReadByte) /\ WF_vars(Serial) /\ WF_vars(ComTask)

Spec == Init /\ [][Next]_vars /\ Fairness
-----------------------------------------------------------------------------
\* Whenever the tasks run and nothing is being written, every setting is in
\* flash, however often the power went while the defaults were being written:
\* nobody reads the 0 that a missing key stands for.
SettingsComplete == Running /\ job = <<>> => \A k \in Keys : nvs[k] # Missing

\* "all settings saved persistently" (README.md:28): after a tuning command the
\* gains that the next start loads are those in use, to the two decimals that
\* are kept, unless the flash was written by a plain set or a reset over MSP.
GainsAsSaved == Running /\ job = <<>> /\ ~diverged => \A g \in Gains : Text(live[g]) = Text(Saved(g))

\* The terminal executes whole lines only: never the end of one that began
\* while the port spoke MSP, nor one glued to what was half typed before.
WholeLines == [][Executes => buffer = <<"a", "b">>]_vars

\* A frame that fits is carried out when its last byte is read, unless one that
\* broke off, or one too long with a header in what the parser gave up, came
\* before it without a silence in between.
FramesAnswered == [][due /\ Len(out) = 1 /\ out' = <<>> => \/ MspCommand \/ setup' = "begin"]_vars

\* The serial task and setup flush through one signal, and com_task may find the
\* first acknowledgement still there when it gives the second (com_manager.cpp:113).
\* A flush returns unless another one is under way with it; a task is left
\* without an acknowledgement only when the other has just taken the one there
\* was for both, so of two flushes one returns.
SerialWaits == serial = "wait"
SetupWaits  == setup \in {"wait", "wait again"}
Stranded    == (SerialWaits \/ SetupWaits) /\ ~signal /\ "flush" \notin Range(queue)

FlushReturns ==
  /\ SerialWaits ~> ~SerialWaits \/ Stranded
  /\ SetupWaits ~> ~SetupWaits \/ SerialWaits \/ Stranded
  /\ [][~Stranded /\ Stranded' => SerialWaits /\ SetupWaits /\ (SerialWaits' <=> ~SetupWaits')]_vars
=============================================================================
