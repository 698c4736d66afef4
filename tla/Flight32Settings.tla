---------------------------- MODULE Flight32Settings ----------------------------
(***************************************************************************)
(* What the settings of the Flight32 firmware mean: SettingsManager with   *)
(* its table of keys, the commands of the terminal that read and write     *)
(* them, the replies of MspProcessor that show them, and the tasks that    *)
(* use them at start (FlightController::setup and RxTask).  How bytes      *)
(* become lines and frames is Flight32Console's subject: here a command    *)
(* arrives whole, and writes its keys one after the other.                 *)
(*                                                                         *)
(* One key stands for every key that is treated alike.  A text is a word   *)
(* or a number in thousandths, as typed, shown and stored.                 *)
(***************************************************************************)
EXTENDS Integers, Sequences, SequencesExt

CONSTANTS
  ImuAnswers,      \* the sensor is there
  Words, Numbers,  \* what a user types behind a key
  MaxEdits         \* commands that change a setting, typed or pasted

ASSUME SettingsAssumption ==
  ImuAnswers \in BOOLEAN /\ Numbers \subseteq Nat /\ MaxEdits \in Nat

VARIABLES
  nvs,      \* the keys in flash
  start,    \* where FlightController::setup is
  job,      \* keys still to be put by the command that is being executed
  leaving,  \* the command ends in a restart
  proto,    \* the protocol RxTask has set up
  live,     \* the gain PidTask flies with
  behind,   \* another one has been put in flash, and PidTask does not know
  backup,   \* what the last dump printed
  dumped,   \* the flash it printed
  pasted,   \* lines of the backup typed back without anything in between, by their keys
  told,     \* keys a useless value was asked for since the last reset of all
  edits     \* commands so far that change a setting

pid    == <<live, behind>>
copies == <<backup, dumped>>
user   == <<pasted, told, edits>>
settingsVars == <<nvs, start, job, leaving, proto, pid, copies, user>>
-----------------------------------------------------------------------------
(***************************************************************************)
(* Texts and the table of settings, in the order of a dump                 *)
(***************************************************************************)
Word(w) == <<"word", w>>
Num(n)  == <<"number", n>>
Missing == <<"missing", 0>>
Refused == <<"refused", 0>>
Zero    == Num(0)

Row(prefix, name, kind, options, default) ==
  [prefix |-> prefix, key |-> name, kind |-> kind, options |-> options, default |-> default]
Table ==
  << Row("system", "system.name", "text", <<>>, Word("Flight32")),
     Row("imu", "imu.type", "enum", <<"MPU6050", "NONE">>, Zero),
     Row("imu", "imu.lpf_bw", "enum", <<"LPF_256HZ", "LPF_188HZ", "LPF_98HZ">>, Zero),
     Row("mpu", "mpu.g_off.x", "float", <<>>, Zero),
     Row("rc", "rc.proto", "enum", <<"IBUS", "PPM">>, Zero),
     Row("rx", "rx.pin", "byte", <<>>, Num(16000)),
     Row("rc", "rc.roll", "channel", <<>>, Num(1000)),
     Row("pid", "pid.r.p", "gain", <<>>, Num(200)),
     Row("arm", "arm.auto_disarm", "byte", <<>>, Num(50000)),
     Row("filter", "filter.lpf_hz", "float", <<>>, Num(150000)) >>
Keys    == {Table[i].key : i \in DOMAIN Table}
RowOf   == [k \in Keys |-> CHOOSE row \in ToSet(Table) : row.key = k]
Default == [k \in Keys |-> RowOf[k].default]

Schema   == "schema"
Current  == Num(3000)
Plain    == {k \in Keys : RowOf[k].kind \in {"text", "enum", "byte"}} \ {"rx.pin"}

\* String::toInt and toFloat: no number in front, no value.  A number that is
\* too large for an int becomes the largest one.
LargestInt    == 2147483647
Int32(n)      == IF n < LargestInt THEN n ELSE LargestInt
ToFloat(text) == IF text[1] = "number" THEN text[2] ELSE 0
ToInt(text)   == Int32(ToFloat(text) \div 1000)
\* String(float) keeps two decimals
Rounded(n)    == 10 * ((n + 4) \div 10)

Chosen(options, text) == {i \in DOMAIN options : text = Word(options[i])}
ByteOf(n) == IF n <= 255 THEN Num(1000 * n) ELSE Refused

\* setSettingValue: a word that is no option counts as the number 0
WordOf(text) == IF text[1] = "word" THEN 255 ELSE ToInt(text)  \* mutant of Unchosen
Unchosen(text) == ToInt(text)
Parsed(key, text) ==
  LET row == RowOf[key]  choice == Chosen(row.options, text) IN
  CASE row.kind = "text" -> text
    [] row.kind \in {"float", "gain"} -> Num(ToFloat(text))
    [] row.kind \in {"byte", "channel"} -> ByteOf(ToInt(text))
    [] row.kind = "enum" ->
         IF choice # {} THEN Num(1000 * ((CHOOSE i \in choice : TRUE) - 1)) ELSE ByteOf(Unchosen(text))

\* getSettingValue: what a missing key reads as depends on its type
Read(key) ==
  IF nvs[key] # Missing
  THEN IF RowOf[key].kind \in {"float", "gain"} THEN Num(Rounded(nvs[key][2])) ELSE nvs[key]
  ELSE IF RowOf[key].kind = "text" THEN Word("") ELSE Zero

Options(key) == ToSet(RowOf[key].options)

\* getSettingValueHumanReadable: options by name, channels counted from one,
\* gains as whole hundredths
Hundredths(n) == Int32(n \div 10)
Shown(key) ==
  LET row == RowOf[key]  value == Read(key) IN
  CASE row.kind = "enum" /\ ToInt(value) < Len(row.options) -> Word(row.options[ToInt(value) + 1])
    [] row.kind = "channel" -> Num(value[2] + 1000)
    [] row.kind = "gain"    -> Num(1000 * Hundredths(value[2]))
    [] OTHER -> value

\* _get_setting_category, and the categories in the order they are printed:
\* a prefix of no other category belongs to the general settings
PrefixItself(prefix) == prefix  \* mutant of Category
Category(prefix) ==
  CASE prefix = "system" -> "system"
    [] prefix \in {"gyro", "imu", "mpu"} -> "imu"
    [] prefix \in {"rx", "rc"} -> "rx"
    [] prefix \in {"motor", "pid", "filter"} -> prefix
    [] OTHER -> "settings"
Categories == <<"system", "imu", "rx", "motor", "pid", "filter", "settings">>

\* dumpSettings and listSettings walk the table once for each category: what
\* they print, and in which order
Printed == {k \in Keys : Category(RowOf[k].prefix) \in ToSet(Categories)}
Before ==
  {pair \in Printed \X Printed :
     \E i, j \in DOMAIN Table, c, d \in DOMAIN Categories :
       /\ Table[i].key = pair[1] /\ Category(Table[i].prefix) = Categories[c]
       /\ Table[j].key = pair[2] /\ Category(Table[j].prefix) = Categories[d]
       /\ c < d \/ (c = d /\ i < j)}
-----------------------------------------------------------------------------
(***************************************************************************)
(* Lines.  A line is a command and its words, and perhaps a text, behind   *)
(* an equals sign or not.                                                  *)
(***************************************************************************)
NoText == <<"none", 0>>
CommandLine(words, sign, text) == [words |-> words, sign |-> sign, text |-> text]
Bare(words)             == CommandLine(words, "", NoText)

Commands ==
  {<<"set">>, <<"set", "rx.pin">>, <<"set", "rx.protocol">>, <<"set", "imu.lpf_bandwidth">>,
   <<"set", "rx.channel.roll">>, <<"set", "pid">>, <<"set", "filter.lpf_hz">>, <<"reset", "pid">>,
   <<"reset", "filter">>, <<"quit">>, <<"get">>, <<"get", "rx.pin">>, <<"get", "rx.status">>,
   <<"get", "rx.value.roll">>, <<"get", "rx.value.all">>, <<"get", "imu.lpf_bandwidth">>,
   <<"get", "filter.lpf_hz">>, <<"get", "pid">>}

\* _parse_command: the longest command that the line begins with
Command(line) ==
  CHOOSE c \in Commands : IsPrefix(c, line.words) /\ \A d \in Commands : IsPrefix(d, line.words) => Len(d) <= Len(c)
Args(line)  == SubSeq(line.words, Len(Command(line)) + 1, Len(line.words))

Put(key, value) == <<key, value>>
SchemaPut       == <<Put(Schema, Current)>>
Defaults        == [i \in DOMAIN Table |-> Put(Table[i].key, Table[i].default)]
FactoryReset      == <<Put("all", Missing)>> \o Defaults \o SchemaPut

Puts(key, text) ==
  IF key \in Keys /\ Parsed(key, text) # Refused THEN <<Put(key, Parsed(key, text))>> ELSE <<>>

(***************************************************************************)
(* The handlers.  A command that is more specific than "set" receives what *)
(* follows its own name, so that the form "set <key> = <value>" reaches    *)
(* the general handler without a key.                                      *)
(***************************************************************************)
SetSetting(args, sign, text) ==
  IF sign # "" /\ Len(args) = 1 THEN Puts(args[1], text) ELSE <<>>

\* The rest of the line is the value, an equals sign included
WholeRest(sign, text) == IF sign = "" THEN text ELSE Word("= value")

\* The name in front of the sign is not trimmed, and the index is stored as typed
MapChannel(args, sign, text) ==
  IF sign = "glued" /\ args = <<"roll">> /\ ToInt(text) + 1 \in 1 .. 14
  THEN Puts("rc.roll", Num(1000 * (ToInt(text) + 1))) ELSE <<>>

\* PidTask takes the gain and writes it; with another gain of the axis it
\* writes the one it has
SetPid(args, text) ==
  CASE args = <<"roll", "p">> -> Puts("pid.r.p", Num(Rounded(10 * ToInt(text))))
    [] args = <<"roll", "i">> -> Puts("pid.r.p", Num(Rounded(live)))
    [] OTHER -> <<>>

SetFilter(args, sign, text) ==
  IF args = <<"lpf_hz">> THEN SetSetting(<<"filter.lpf_hz">>, sign, text) ELSE <<>>

Confirmed(line) == Args(line) = <<"confirm">>
ResetKey(key)   == <<Put(key, Default[key])>>

PutsOf(line) ==
  LET command == Command(line)  args == Args(line)  sign == line.sign  text == line.text IN
  CASE command \in {<<"set">>, <<"set", "rx.pin">>} -> SetSetting(args, sign, text)
    [] command = <<"set", "filter.lpf_hz">>         -> SetFilter(args, sign, text)
    [] command = <<"set", "rx.protocol">>           -> Puts("rc.proto", WholeRest(sign, text))
    [] command = <<"set", "imu.lpf_bandwidth">>     -> Puts("imu.lpf_bw", WholeRest(sign, text))
    [] command = <<"set", "rx.channel.roll">>       -> MapChannel(args, sign, text)
    [] command = <<"set", "pid">>                   -> SetPid(args, text)
    [] command = <<"reset", "filter">> /\ Confirmed(line) -> ResetKey("filter.lpf_hz")
    [] command = <<"reset", "pid">> /\ Confirmed(line)    -> ResetKey("pid.r.p") \o SchemaPut
    [] command = <<"quit">>                         -> SchemaPut
    [] OTHER -> <<>>

Typed == {Word(w) : w \in Words} \cup {Num(n) : n \in Numbers}
Setting(key, text) == CommandLine(<<"set", key>>, "spaced", text)
\* The offsets are typed by a paste alone: every start replaces them
Forms ==
  {<<<<"set", key>>, "spaced">> : key \in (Keys \ {"mpu.g_off.x"}) \cup {"rx.protocol", "rx.channel.roll"}}
    \cup {<<<<"set", "rx.protocol">>, "">>, <<<<"set", "imu.lpf_bandwidth">>, "">>,
          <<<<"set", "rx.channel.roll", "roll">>, "glued">>, <<<<"set", "rx.pin", "rx.pin">>, "spaced">>,
          <<<<"set", "filter.lpf_hz", "lpf_hz">>, "spaced">>, <<<<"set", "pid", "roll", "p">>, "">>,
          <<<<"set", "pid", "roll", "i">>, "">>}
Lines ==
  {CommandLine(form[1], form[2], text) : form \in Forms, text \in Typed}
    \cup {Bare(words) : words \in {<<"reset", "pid", "confirm">>, <<"reset", "filter", "confirm">>, <<"quit">>}}
-----------------------------------------------------------------------------
(***************************************************************************)
(* Actions                                                                 *)
(***************************************************************************)
SettingsInit ==
  /\ nvs = [k \in Keys \cup {Schema} |-> Missing] /\ start = "begin" /\ job = <<>> /\ leaving = FALSE
  /\ proto = "none" /\ live = 0 /\ behind = FALSE
  /\ backup = <<>> /\ dumped = <<>> /\ pasted = {} /\ told = {} /\ edits = 0

\* A restart leaves the flash, and what the user has noted down
Restart ==
  /\ start' = "begin" /\ job' = <<>> /\ leaving' = FALSE
  /\ proto' = "none" /\ live' = 0 /\ behind' = FALSE /\ pasted' = {}
  /\ UNCHANGED <<nvs, copies, told, edits>>

PowerCut == start # "begin" /\ Restart

MakePut ==
  /\ job # <<>> /\ job' = Tail(job)
  /\ LET key == Head(job)[1]  value == Head(job)[2] IN
       /\ nvs' = IF key = "all" THEN [k \in DOMAIN nvs |-> Missing] ELSE [nvs EXCEPT ![key] = value]
       /\ told' = IF key = "all" THEN {} ELSE told
  /\ UNCHANGED <<start, leaving, proto, pid, copies, pasted, edits>>

\* SettingsManager::begin
BeginSettings ==
  /\ start = "begin" /\ start' = "settings"
  /\ job' = IF nvs[Schema] = Current THEN <<>> ELSE FactoryReset
  /\ UNCHANGED <<nvs, leaving, proto, pid, copies, user>>

\* Without a valid type of IMU setup() halts; RxTask::setup takes its protocol
\* once, and with another one than these it has none
Selected(n) == IF n = 0 THEN "IBUS" ELSE IF n = 1 THEN "PPM" ELSE "none"

\* A sensor that answers is calibrated at every start, and the offsets saved
Measured == Num(37)
CalibrateImu ==
  /\ start = "settings" /\ job = <<>>
  /\ \/ /\ ToInt(Read("imu.type")) = 0 /\ start' = "calibrated"
        /\ job' = IF ImuAnswers THEN <<Put("mpu.g_off.x", Measured)>> \o SchemaPut ELSE <<>>
     \/ ToInt(Read("imu.type")) # 0 /\ start' = "halted" /\ UNCHANGED job
  /\ UNCHANGED <<nvs, leaving, proto, pid, copies, user>>

StartTasks ==
  /\ start = "calibrated" /\ job = <<>> /\ start' = "running"
  /\ proto' = Selected(ToInt(Read("rc.proto")))
  /\ live' = ToFloat(Read("pid.r.p")) /\ behind' = FALSE
  /\ UNCHANGED <<nvs, job, leaving, copies, user>>

Ready == start = "running" /\ job = <<>> /\ ~leaving

Useless(key, text) ==
  \/ key = "imu.type" /\ (text = Word("NONE") \/ ToInt(text) >= 1)
  \/ key = "rc.proto" /\ ToInt(text) >= 2

Writes(puts, key) == \E i \in DOMAIN puts : puts[i][1] = key

\* What PidTask writes it flies with; of other writers it hears at the next start
ByPidTask(line) == Command(line) \in {<<"set", "pid">>, <<"reset", "pid">>}
TakeGain(line) ==
  \/ Writes(job', "pid.r.p") /\ ByPidTask(line) /\ live' = ToFloat(job'[1][2]) /\ behind' = FALSE
  \/ Writes(job', "pid.r.p") /\ ~ByPidTask(line) /\ behind' = TRUE /\ UNCHANGED live
  \/ ~Writes(job', "pid.r.p") /\ UNCHANGED pid

Executes(line) ==
  /\ Ready /\ job' = PutsOf(line) /\ TakeGain(line)
  /\ told' = told \cup {k \in Keys : Useless(k, line.text) /\ Writes(job', k)}
  /\ UNCHANGED <<nvs, start, leaving, proto, copies>>

TypeLine ==
  /\ edits < MaxEdits /\ \E line \in Lines : Executes(line)
  /\ edits' = edits + 1 /\ pasted' = {}

\* The lines of a backup are pasted in one go, and count as one change
PasteLine ==
  /\ Ready /\ backup # <<>> /\ (pasted # {} \/ edits < MaxEdits)
  /\ \E key \in Printed \ pasted :
       /\ \A other \in Printed \ pasted : <<other, key>> \notin Before
       /\ Executes(Setting(key, backup[key])) /\ pasted' = pasted \cup {key}
  /\ edits' = IF pasted = {} THEN edits + 1 ELSE edits

Dump ==
  /\ Ready /\ pasted' = {}
  /\ backup' = [k \in Printed |-> Shown(k)]
  /\ dumped' = [k \in Keys |-> nvs[k]]
  /\ UNCHANGED <<nvs, start, job, leaving, proto, pid, told, edits>>

FactoryResetConfirm ==
  /\ Ready /\ job' = FactoryReset /\ leaving' = TRUE /\ pasted' = {}
  /\ UNCHANGED <<nvs, start, proto, pid, copies, told, edits>>

\* ESP.restart() at the end of a factory reset
Leave == leaving /\ job = <<>> /\ Restart

(***************************************************************************)
(* MSP.  A command is handed _msp_message_length_received, which is never  *)
(* counted up, as the size of its payload.                                 *)
(***************************************************************************)
Received == 0
MspPuts(command, size, text) ==
  CASE command = "EEPROM_WRITE"   -> SchemaPut
    [] command = "RESET_SETTINGS" -> FactoryReset
    [] command = "SET_SETTING" /\ size >= 2        -> Puts("rc.roll", text)
    [] command = "SET_PID" /\ size = 18            -> Puts("pid.r.p", Num(10 * ToInt(text)))
    [] command = "SET_FILTER_CONFIG" /\ size = 20  -> Puts("filter.lpf_hz", text)
    [] OTHER -> <<>>

\* The commands that only tell something; MSP_REBOOT restarts nothing, and
\* GET_SETTING, like the commands that set, finds no key in an empty payload
FirmwareQueries ==
  {"API_VERSION", "FC_VARIANT", "FC_VERSION", "BOARD_INFO", "BUILD_INFO", "REBOOT", "MEM_STATS", "IDENT"}
FlightQueries   == {"STATUS", "RAW_IMU", "MOTOR", "RC", "ATTITUDE"}
ModeQueries     == {"BOX", "BOXNAMES", "MODE_RANGES", "MOTOR_CONFIG", "UID", "SENSOR_STATUS"}
StubQueries     ==
  {"ADVANCED_CONFIG", "FILTER_CONFIG", "STATUS_EX", "ALTITUDE", "ANALOG", "FLIGHT32_ENV", "BATTERY_STATE",
   "OSD_CONFIG", "VTX_CONFIG", "PIDNAMES", "BOXIDS", "NAME", "FEATURE_CONFIG", "FAILSAFE_CONFIG"}
SettingQueries  ==
  {"GET_SETTING", "PID", "GET_FILTER_CONFIG", "ARMING_CONFIG", "RX_CONFIG", "RX_MAP", "RC_TUNING"}
Setters         == {"EEPROM_WRITE", "RESET_SETTINGS", "SET_SETTING", "SET_PID", "SET_FILTER_CONFIG", "SET_BOX"}
MspCommands     ==
  FirmwareQueries \cup FlightQueries \cup ModeQueries \cup StubQueries \cup SettingQueries \cup Setters
MspJobs         == {MspPuts(command, Received, text) : command \in MspCommands, text \in Typed}

MspCommand ==
  /\ Ready /\ pasted' = {} /\ job' \in MspJobs
  /\ behind' = (behind \/ Writes(job', "pid.r.p"))
  /\ UNCHANGED <<nvs, start, leaving, proto, live, copies, told, edits>>

SettingsNext ==
  \/ PowerCut \/ MakePut \/ BeginSettings \/ CalibrateImu \/ StartTasks
  \/ TypeLine \/ PasteLine \/ Dump \/ FactoryResetConfirm \/ Leave \/ MspCommand

SettingsSpec == SettingsInit /\ [][SettingsNext]_settingsVars
-----------------------------------------------------------------------------
(***************************************************************************)
(* What the terminal answers to the commands that read a setting           *)
(***************************************************************************)
GetSetting(args) ==
  IF Len(args) = 1 /\ args[1] \in Keys /\ Shown(args[1]) # Word("") THEN Shown(args[1]) ELSE Refused

\* The name of the setting is looked for behind the command that holds it
GetFilter(args) == IF args = <<"lpf_hz">> THEN GetSetting(<<"filter.lpf_hz">>) ELSE Refused

\* One channel is named behind its command and counted from one; in the list
\* of all channels they are counted from zero
GetChannel(args) ==
  IF args \in {<<"roll">>, <<"rx.value.roll">>} THEN Num(1000 * (ToInt(Read("rc.roll")) + 1)) ELSE Refused
GetAllChannels == Num(1000 * ToInt(Read("rc.roll")))

\* The gains that PidTask flies with, not those in flash
GetPid == Num(1000 * Hundredths(live))

GetLpfBandwidth == [name |-> Shown("imu.lpf_bw"), index |-> Read("imu.lpf_bw"), among |-> Options("imu.lpf_bw")]

Answer(words) ==
  LET line == Bare(words)  command == Command(line)  args == Args(line) IN
  CASE command \in {<<"get">>, <<"get", "rx.pin">>} -> GetSetting(args)
    [] command = <<"get", "filter.lpf_hz">>          -> GetFilter(args)
    [] command = <<"get", "rx.value.roll">>          -> GetChannel(args)
    [] command = <<"get", "rx.value.all">>           -> GetAllChannels
    [] command = <<"get", "rx.status">>              -> Shown("rc.proto")
    [] command = <<"get", "imu.lpf_bandwidth">>      -> GetLpfBandwidth.name
    [] command = <<"get", "pid">>                    -> GetPid
-----------------------------------------------------------------------------
(***************************************************************************)
(* What MspProcessor answers: settings as figures                          *)
(***************************************************************************)
GetFloat(key) == IF nvs[key] = Missing THEN Default[key][2] ELSE nvs[key][2]

MspPid       == Hundredths(GetFloat("pid.r.p")) % 65536
MspRcTuning  == Hundredths(GetFloat("pid.r.p")) % 256
MspFilter    == GetFloat("filter.lpf_hz")
MapFromOne   == (ToInt(Read("rc.roll")) + 1) % 256   \* mutant of MspRxMap
MspRxMap     == ToInt(Read("rc.roll")) % 256
MspRxType    == ToInt(Read("rc.proto")) % 256
MspArming    == ToInt(Read("arm.auto_disarm")) % 65536
-----------------------------------------------------------------------------
(***************************************************************************)
(* Properties                                                              *)
(***************************************************************************)

\* A backup that is pasted back whole leaves every text, option and byte as
\* it was dumped, whatever was changed in between: the categories of the
\* dump reach every key, and what is printed for an option is read back as
\* that option.  (Gains, channels and rx.pin are not kept: see the README.)
RestoreKeeps ==
  pasted = Printed /\ job = <<>> => \A k \in Plain : nvs[k] = dumped[k]

\* The firmware halts for want of an IMU, or starts without a receiver, only
\* when someone asked for such a value since the last reset of all keys: a
\* mistyped word never does it, nor does a power cut between two writes.
HaltedOnlyIfTold ==
  [][/\ start # "halted" /\ start' = "halted" => "imu.type" \in told
     /\ start # "running" /\ start' = "running" /\ proto' = "none" => "rc.proto" \in told]_settingsVars

\* Whatever was typed, pasted, reset or cut off before, a running firmware
\* tells the same in all the places that show one setting: the channel by
\* "get rc.roll", "get rx.value.roll", "get rx.value.all" (counted from zero)
\* and MSP RX_MAP; the protocol by "get rc.proto", "get rx.status" and MSP
\* RX_CONFIG; the gain by "get pid.r.p" and, to a hundredth and in the bits
\* they have for it, MSP PID and RC_TUNING, and by "get pid" unless others
\* than PidTask have written it since it was loaded; the cutoff to two
\* decimals by "get filter.lpf_hz" and MSP GET_FILTER_CONFIG; the delay by
\* "get arm.auto_disarm" and MSP ARMING_CONFIG; and the bandwidth by its two
\* names, where every option on offer is one that is accepted.
Near(a, b, by) == a - b <= by /\ b - a <= by
ViewsAgree ==
  Ready =>
    /\ Answer(<<"get", "rc.roll">>) = Num(1000 * (MspRxMap + 1))
    /\ Answer(<<"get", "rx.value.roll", "roll">>) = Answer(<<"get", "rc.roll">>)
    /\ Answer(<<"get", "rx.value.all">>) = Num(1000 * MspRxMap)
    /\ Answer(<<"get", "rx.status">>) = Answer(<<"get", "rc.proto">>)
    /\ Answer(<<"get", "rc.proto">>) =
         IF MspRxType < Len(RowOf["rc.proto"].options) THEN Word(RowOf["rc.proto"].options[MspRxType + 1])
         ELSE Num(1000 * MspRxType)
    /\ \E off \in {-1, 0, 1} : LET shown == ToInt(Answer(<<"get", "pid.r.p">>)) + off IN
         MspPid = shown % 65536 /\ MspRcTuning = shown % 256
    /\ ~behind => Answer(<<"get", "pid">>) = Answer(<<"get", "pid.r.p">>)
    /\ Near(ToFloat(Answer(<<"get", "filter.lpf_hz", "lpf_hz">>)), MspFilter, 5)
    /\ ToInt(Answer(<<"get", "arm.auto_disarm">>)) = MspArming
    /\ Answer(<<"get", "imu.lpf_bandwidth">>) = Answer(<<"get", "imu.lpf_bw">>)
    /\ \A option \in GetLpfBandwidth.among : Parsed("imu.lpf_bw", Word(option)) # Refused
=============================================================================
