--------------------------- MODULE ConsoleProofs ---------------------------
(***************************************************************************)
(* Proofs about the Flight32 console, for every payload and queue length   *)
(* and any gains a user sets: the flash is complete and the gains in use   *)
(* are the saved ones wherever the power goes, the terminal executes whole *)
(* lines only, and a frame that fits is carried out.                       *)
(***************************************************************************)
EXTENDS Flight32Console, TLAPS

(***************************************************************************)
(* Invariants of the settings                                              *)
(***************************************************************************)

\* What a put may write, and where the start and the serial task may be.
PutSet   == {p \in (Keys \cup {"all"}) \X Int : p[1] = "all" \/ p[2] \in Nat}
Steps    == {"begin", "settings", "offsets", "flush", "wait", "flush again", "wait again", "prompt", "done"}
SettingsType ==
  /\ nvs \in [Keys -> Nat \cup {Missing}] /\ live \in [Gains -> Nat] /\ diverged \in BOOLEAN
  /\ job \in Seq(PutSet) /\ setup \in Steps
  /\ serial \in {"down", "read", "work", "flush", "wait", "prompt"}

\* Puts are left over while the firmware starts, or while the serial task is
\* at work.
OneWriter ==
  /\ serial = "down" <=> ~Running
  /\ setup = "begin" => job = <<>>
  /\ job # <<>> /\ Running => serial = "work"

\* The key is in flash, and stays there, before the put number i is made.
There(k, i) ==
  \/ nvs[k] # Missing /\ (job # <<>> => job[1][1] # "all")
  \/ \E j \in DOMAIN job : j < i /\ job[j][1] = k

\* Only the first put clears the flash; the version of the settings is written
\* behind all others, so that it tells that they are there; and once begun,
\* what is missing is among the puts that are left.
FlashInv ==
  /\ \A i \in DOMAIN job : i > 1 => job[i][1] # "all"
  /\ nvs["schema"] # Missing => \A k \in Keys : nvs[k] # Missing
  /\ \A i \in DOMAIN job : job[i][1] = "schema" => \A k \in Keys \ {"schema"} : There(k, i)
  /\ setup # "begin" => \A k \in Keys : There(k, Len(job) + 1)

\* Unless the flash was changed behind PidTask's back, every put of a gain
\* writes the one in use, and a gain that is not written any more is saved.
GainsInv ==
  Running /\ ~diverged =>
    /\ \A i \in DOMAIN job : job[i][1] # "all"
    /\ \A g \in Gains :
         /\ \A i \in DOMAIN job : job[i][1] = g => job[i][2] = Text(live[g])
         /\ \/ \E i \in DOMAIN job : job[i][1] = g
            \/ Text(live[g]) = Text(Saved(g))

SettingsInv == SettingsType /\ OneWriter /\ FlashInv /\ GainsInv

(***************************************************************************)
(* Invariants of the parser                                                *)
(***************************************************************************)

\* The next bytes of s are those of a header, as far as the field expects them
HeaderAhead(s) ==
  \/ field = "IDLE" /\ Len(s) >= 3 /\ s[1][1] = "$" /\ s[2][1] \in {"M", "X"} /\ s[3][1] = "<"
  \/ field = "PROTO_IDENTIFIER" /\ Len(s) >= 2 /\ s[1][1] \in {"M", "X"} /\ s[2][1] = "<"
  \/ field \in {"DIRECTION_V1", "DIRECTION_V2"} /\ Len(s) >= 1 /\ s[1][1] = "<"

\* In the terminal, what is typed and what is still to come are the two parts
\* of a line, or a frame is on its way and changes the mode before the line
\* can end.
LineInv ==
  mode = "TERMINAL" =>
    \/ field = "IDLE" /\ out = <<>> /\ buffer = <<>>
    \/ field = "IDLE" /\ owed /\ \A i \in DOMAIN out : out[i][1] \in {"a", "b"}
    \/ field = "IDLE" /\ <<buffer, out>> \in
         { <<<<>>, Line>>, << <<"a">>, <<Byte("b"), Byte("newline")>> >>,
           << <<"a", "b">>, <<Byte("newline")>> >>, << <<>>, <<Byte("newline")>> >> }
    \/ HeaderAhead(out)

\* From position p on, s is n bytes of payload and the checksum.
Body(s, p, n) ==
  /\ Len(s) = p + n /\ s[p + n] = Byte("crc")
  /\ \A i \in p .. p + n - 1 : s[i] = Byte("data")

\* A payload of n bytes, which fits if the frame is due.
Sized(n) == n \in 0 .. Over /\ (due => n <= MaxPayload)

LengthsV2(s, p)    == \E n \in 0 .. Over : s[p] = Length(n) /\ s[p + 1] = Length(0) /\ Body(s, p + 2, n) /\ Sized(n)
LengthsJumbo(s, p) == s[p] = Length(Over) /\ s[p + 1] = Length(0) /\ Body(s, p + 2, Over) /\ ~due
RestV1(s, p) ==
  \/ \E n \in 0 .. Over : s[p] = Length(n) /\ s[p + 1] = Byte("data") /\ Body(s, p + 2, n) /\ Sized(n)
  \/ s[p] = Length(Jumbo) /\ s[p + 1] = Byte("data") /\ LengthsJumbo(s, p + 2)
RestV2(s, p) == (\A i \in p .. p + 2 : s[i] = Byte("data")) /\ LengthsV2(s, p + 3)

Starts(s) ==
  \/ s[2][1] = "M" /\ RestV1(s, 4)
  \/ s[2][1] = "X" /\ RestV2(s, 4)

\* The parser is where the bytes that are left want it to be.
InStep(s) ==
  \/ field = "IDLE" /\ ~due /\ \A i \in DOMAIN s : s[i][1] # "$"
  \/ field = "IDLE" /\ s[1][1] = "$" /\ s[3][1] = "<" /\ Starts(s)
  \/ aligned /\
     \/ field = "PROTO_IDENTIFIER" /\ s[2][1] = "<" /\ ((s[1][1] = "M" /\ RestV1(s, 3)) \/ (s[1][1] = "X" /\ RestV2(s, 3)))
     \/ field = "DIRECTION_V1" /\ s[1][1] = "<" /\ RestV1(s, 2)
     \/ field = "DIRECTION_V2" /\ s[1][1] = "<" /\ RestV2(s, 2)
     \/ field = "LENGTH_V1" /\ RestV1(s, 1)
     \/ field = "CODE_V1" /\ s[1] = Byte("data") /\ Body(s, 2, expected) /\ Sized(expected)
     \/ field = "CODE_JUMBO_V1" /\ s[1] = Byte("data") /\ LengthsJumbo(s, 2)
     \/ field = "LENGTH_JUMBO_LOW" /\ LengthsJumbo(s, 1)
     \/ field = "LENGTH_JUMBO_HIGH" /\ s[1] = Length(0) /\ Body(s, 2, expected) /\ expected = Over /\ ~due
     \/ field = "FLAG_V2" /\ RestV2(s, 1)
     \/ field = "CODE_V2_LOW" /\ s[1] = Byte("data") /\ s[2] = Byte("data") /\ LengthsV2(s, 3)
     \/ field = "CODE_V2_HIGH" /\ s[1] = Byte("data") /\ LengthsV2(s, 2)
     \/ field = "LENGTH_V2_LOW" /\ LengthsV2(s, 1)
     \/ field = "LENGTH_V2_HIGH" /\ s[1] = Length(0) /\ Body(s, 2, expected) /\ Sized(expected)
     \/ field = "PAYLOAD" /\ got \in Nat /\ got < expected /\ Sized(expected) /\ Body(s, 1, expected - got)
     \/ field = "CHECKSUM" /\ Body(s, 1, 0)

\* Until a frame breaks off, and again after the silence behind it, the parser
\* is in step with the host; only then a frame is due.
StepInv ==
  /\ due => clean /\ out # <<>>
  /\ clean => InStep(out)
-----------------------------------------------------------------------------
(***************************************************************************)
(* Keys, puts and jobs                                                     *)
(***************************************************************************)

\* The keys that stand for all of them, and the default of each.
LEMMA KeyNames ==
  /\ Keys = {"other", "p", "d", "schema"} /\ "all" \notin Keys
  /\ \A k \in Keys : Default[k] \in Nat
  /\ Default.other \in Nat /\ Default.p \in Nat /\ Default.d \in Nat /\ Schema \in Nat
BY DEF Keys, Default, Schema

\* A gain as text is again one, and writing it once more does not change it.
LEMMA TextTwice ==
  ASSUME NEW n \in Nat
  PROVE  Text(n) \in Nat /\ Text(Text(n)) = Text(n)
<1> DEFINE m == (n + 4) \div 10
<1>1. m \in Nat
  OBVIOUS
<1>2. Text(n) = 10 * m
  BY DEF Text
<1>3. \A k \in Nat : (10 * k + 4) \div 10 = k
  OBVIOUS
<1> QED
  BY <1>1, <1>2, <1>3 DEF Text

\* Two jobs behind one another.
LEMMA Joined ==
  ASSUME NEW S, NEW s \in Seq(S), NEW t \in Seq(S)
  PROVE  /\ s \o t \in Seq(S) /\ Len(s \o t) = Len(s) + Len(t)
         /\ \A i \in 1 .. Len(s) : (s \o t)[i] = s[i]
         /\ \A i \in 1 .. Len(t) : (s \o t)[Len(s) + i] = t[i]
OBVIOUS

\* The version is one put.
LEMMA SchemaJob ==
  /\ SchemaPut \in Seq(PutSet) /\ Len(SchemaPut) = 1
  /\ SchemaPut[1][1] = "schema"
<1>1. <<"schema", Schema>> \in PutSet
  BY KeyNames DEF PutSet, Schema
<1> QED
  BY <1>1 DEF SchemaPut, Put

\* A reset of all settings clears the flash, writes every default, and then
\* the version.
LEMMA ResetJob ==
  /\ FactoryReset \in Seq(PutSet) /\ Len(FactoryReset) = 5
  /\ FactoryReset[1][1] = "all" /\ FactoryReset[2][1] = "other" /\ FactoryReset[3][1] = "p"
  /\ FactoryReset[4][1] = "d" /\ FactoryReset[5][1] = "schema"
<1> DEFINE a == <<Clear, Put("other", Default.other), Put("p", Default.p), Put("d", Default.d)>>
<1>1. /\ Clear \in PutSet /\ Put("other", Default.other) \in PutSet
      /\ Put("p", Default.p) \in PutSet /\ Put("d", Default.d) \in PutSet
  BY KeyNames DEF PutSet, Clear, Put, Missing
<1>2. /\ a \in Seq(PutSet) /\ Len(a) = 4 /\ a[1] = Clear /\ a[2] = Put("other", Default.other)
      /\ a[3] = Put("p", Default.p) /\ a[4] = Put("d", Default.d)
  BY <1>1
<1> DEFINE b == SchemaPut
<1>3. b \in Seq(PutSet) /\ Len(b) = 1
  BY SchemaJob
<1>4. /\ a \o b \in Seq(PutSet) /\ Len(a \o b) = 5
      /\ (a \o b)[1] = a[1] /\ (a \o b)[2] = a[2] /\ (a \o b)[3] = a[3]
      /\ (a \o b)[4] = a[4] /\ (a \o b)[5] = b[1]
  <2> HIDE DEF a, b
  <2>0. a \in Seq(PutSet) /\ b \in Seq(PutSet)
    BY <1>2, <1>3
  <2>1. /\ a \o b \in Seq(PutSet) /\ Len(a \o b) = Len(a) + Len(b)
        /\ \A i \in 1 .. Len(a) : (a \o b)[i] = a[i]
        /\ \A i \in 1 .. Len(b) : (a \o b)[Len(a) + i] = b[i]
    BY <2>0, Joined
  <2>2. Len(a) = 4 /\ Len(b) = 1
    BY <1>2, <1>3
  <2>3. 1 \in 1 .. 4 /\ 2 \in 1 .. 4 /\ 3 \in 1 .. 4 /\ 4 \in 1 .. 4 /\ 1 \in 1 .. 1
    OBVIOUS
  <2> QED
    BY <2>1, <2>2, <2>3
<1>5. FactoryReset = a \o b
  BY DEF FactoryReset
<1> QED
  BY <1>2, <1>4, <1>5, SchemaJob DEF Clear, Put

\* Writing the gains takes two puts, with or without the version behind.
LEMMA GainsJob ==
  ASSUME NEW gains \in [Gains -> Nat]
  PROVE  /\ GainPuts(gains) \in Seq(PutSet) /\ Len(GainPuts(gains)) = 2
         /\ GainPuts(gains)[1] = <<"p", Text(gains["p"])>> /\ GainPuts(gains)[2] = <<"d", Text(gains["d"])>>
         /\ GainPuts(gains) \o SchemaPut \in Seq(PutSet) /\ Len(GainPuts(gains) \o SchemaPut) = 3
         /\ (GainPuts(gains) \o SchemaPut)[1] = <<"p", Text(gains["p"])>>
         /\ (GainPuts(gains) \o SchemaPut)[2] = <<"d", Text(gains["d"])>>
         /\ (GainPuts(gains) \o SchemaPut)[3][1] = "schema"
<1>1. gains["p"] \in Nat /\ gains["d"] \in Nat
  BY DEF Gains
<1>2. <<"p", Text(gains["p"])>> \in PutSet /\ <<"d", Text(gains["d"])>> \in PutSet
  BY <1>1, TextTwice, KeyNames DEF PutSet
<1>3. /\ GainPuts(gains) \in Seq(PutSet) /\ Len(GainPuts(gains)) = 2
      /\ GainPuts(gains)[1] = <<"p", Text(gains["p"])>> /\ GainPuts(gains)[2] = <<"d", Text(gains["d"])>>
  BY <1>2 DEF GainPuts, Put
<1> DEFINE a == GainPuts(gains)
           b == SchemaPut
<1>4. a \in Seq(PutSet) /\ b \in Seq(PutSet) /\ Len(a) = 2 /\ Len(b) = 1
  BY <1>3, SchemaJob
<1>5. /\ a \o b \in Seq(PutSet) /\ Len(a \o b) = 3
      /\ (a \o b)[1] = a[1] /\ (a \o b)[2] = a[2] /\ (a \o b)[3] = b[1]
  <2> HIDE DEF a, b
  <2> QED
    BY <1>4, Joined
<1> QED
  BY <1>3, <1>5, SchemaJob

(***************************************************************************)
(* The settings' invariant is kept                                         *)
(***************************************************************************)

\* A step that leaves flash, gains and puts alone.
LEMMA SettingsRest ==
  ASSUME SettingsInv, UNCHANGED <<settings, job>>,
         setup' \in Steps, Running' <=> Running, setup' = "begin" => setup = "begin",
         setup = "begin" => setup' = "begin",
         serial' \in {"down", "read", "work", "flush", "wait", "prompt"},
         serial' = "down" <=> ~Running',
         job # <<>> /\ Running => serial' = "work"
  PROVE  SettingsInv'
<1>1. SettingsType' /\ OneWriter'
  BY DEF SettingsInv, SettingsType, OneWriter, settings
<1>2. \A k, i : There(k, i)' <=> There(k, i)
  BY DEF There, settings
<1>3. FlashInv'
  BY <1>2 DEF SettingsInv, FlashInv, settings
<1>4. GainsInv'
  BY DEF SettingsInv, GainsInv, settings, Saved
<1> QED
  BY <1>1, <1>3, <1>4 DEF SettingsInv

\* A command that does not clear the flash: the keys are there when it begins,
\* and the gains that it writes are those in use.
LEMMA SettingsJob ==
  ASSUME SettingsInv, Running, job = <<>>, UNCHANGED <<nvs, setup>>, serial' = "work",
         live' \in [Gains -> Nat], diverged' \in BOOLEAN, job' \in Seq(PutSet),
         \A i \in DOMAIN job' : job'[i][1] # "all",
         ~diverged' =>
           /\ ~diverged
           /\ \A g \in Gains :
                /\ \A i \in DOMAIN job' : job'[i][1] = g => job'[i][2] = Text(live'[g])
                /\ (\E i \in DOMAIN job' : job'[i][1] = g) \/ live'[g] = live[g]
  PROVE  SettingsInv'
<1>1. setup # "begin" /\ Running'
  BY DEF Running
<1>2. SettingsType' /\ OneWriter'
  BY <1>1 DEF SettingsInv, SettingsType, OneWriter
<1>3. \A k \in Keys : nvs[k] # Missing
  BY <1>1 DEF SettingsInv, FlashInv, There
<1>4. \A k \in Keys : \A i : There(k, i)'
  <2>1. job' # <<>> => 1 \in DOMAIN job'
    OBVIOUS
  <2> QED
    BY <1>3, <2>1 DEF There
<1>5. FlashInv'
  BY <1>3, <1>4 DEF FlashInv
<1>6. GainsInv'
  <2>1. ~diverged => \A g \in Gains : Text(live[g]) = Text(Saved(g))
    BY DEF SettingsInv, GainsInv
  <2>2. \A g : Saved(g)' = Saved(g)
    BY DEF Saved
  <2> QED
    BY <2>1, <2>2 DEF GainsInv
<1> QED
  BY <1>2, <1>5, <1>6 DEF SettingsInv

\* A reset of all settings, before the tasks run or behind PidTask's back.
LEMMA SettingsReset ==
  ASSUME SettingsInv, job = <<>>, nvs' = nvs, job' = FactoryReset,
         SettingsType', OneWriter', ~Running' \/ diverged'
  PROVE  SettingsInv'
<1>1. DOMAIN job' = 1 .. 5
  BY ResetJob
<1>2. /\ job'[1][1] = "all" /\ job'[2][1] = "other" /\ job'[3][1] = "p"
      /\ job'[4][1] = "d" /\ job'[5][1] = "schema" /\ Len(job') = 5
  BY ResetJob
<1>3. \A k \in Keys : There(k, 6)'
  BY <1>1, <1>2, KeyNames DEF There
<1>4. \A k \in Keys \ {"schema"} : There(k, 5)'
  BY <1>1, <1>2, KeyNames DEF There
<1>5. \A i \in DOMAIN job' : (i > 1 => job'[i][1] # "all") /\ (job'[i][1] = "schema" => i = 5)
  BY <1>1, <1>2
<1>6. FlashInv'
  <2>1. nvs["schema"] # Missing => \A k \in Keys : nvs[k] # Missing
    BY DEF SettingsInv, FlashInv
  <2>2. Len(job') + 1 = 6
    BY <1>2
  <2> QED
    BY <1>3, <1>4, <1>5, <2>1, <2>2 DEF FlashInv
<1>7. GainsInv'
  BY DEF GainsInv
<1> QED
  BY <1>6, <1>7 DEF SettingsInv

\* One put: it comes off the job, and into the flash.
LEMMA SettingsPut ==
  ASSUME SettingsInv, job # <<>>, MakePut, UNCHANGED <<live, diverged, setup, serial>>
  PROVE  SettingsInv'
<1> DEFINE key == job[1][1]
           value == job[1][2]
<1>1. /\ job \in Seq(PutSet) /\ Len(job) \in Nat /\ Len(job) >= 1 /\ 1 \in DOMAIN job
      /\ DOMAIN job = 1 .. Len(job)
  BY DEF SettingsInv, SettingsType
<1>2. /\ job' \in Seq(PutSet) /\ Len(job') = Len(job) - 1 /\ DOMAIN job' = 1 .. Len(job) - 1
      /\ \A i \in DOMAIN job' : i + 1 \in DOMAIN job /\ i + 1 > 1 /\ job'[i] = job[i + 1]
  BY <1>1 DEF MakePut
<1>3. /\ key \in Keys \cup {"all"} /\ (key # "all" => value \in Nat)
  BY <1>1 DEF PutSet
<1>4. nvs' = IF key = "all" THEN [k \in Keys |-> Missing] ELSE [nvs EXCEPT ![key] = value]
  BY <1>1 DEF MakePut
<1>5. nvs \in [Keys -> Nat \cup {Missing}]
  BY DEF SettingsInv, SettingsType
<1> HIDE DEF key, value
<1>6. nvs' \in [Keys -> Nat \cup {Missing}]
  BY <1>3, <1>4, <1>5
<1>7. \A k \in Keys : nvs'[k] = IF key = "all" THEN Missing ELSE IF k = key THEN value ELSE nvs[k]
  BY <1>3, <1>4, <1>5
<1>8. \A k \in Keys : key # "all" /\ (nvs[k] # Missing \/ k = key) => nvs'[k] # Missing
  BY <1>3, <1>7 DEF Missing
<1>9. SettingsType' /\ OneWriter'
  <2>1. SettingsType'
    BY <1>2, <1>6 DEF SettingsInv, SettingsType
  <2>2. Running' <=> Running
    BY DEF Running
  <2> QED
    BY <2>1, <2>2 DEF SettingsInv, OneWriter
<1>10. \A i \in DOMAIN job' : job'[i][1] # "all"
  BY <1>2 DEF SettingsInv, FlashInv
<1>11. ASSUME NEW k \in Keys, NEW i \in 2 .. Len(job) + 1, There(k, i)
       PROVE  There(k, i - 1)'
  <2>1. job' # <<>> => job'[1][1] # "all"
    BY <1>1, <1>2, <1>10
  <2>2. CASE nvs[k] # Missing /\ key # "all"
    BY <1>8, <2>1, <2>2 DEF There
  <2>3. CASE \E j \in DOMAIN job : j < i /\ job[j][1] = k
    <3>1. PICK j \in DOMAIN job : j < i /\ job[j][1] = k
      BY <2>3
    <3>2. CASE j = 1
      <4>1. k = key /\ key # "all"
        BY <3>1, <3>2, KeyNames DEF key
      <4> QED
        BY <1>8, <2>1, <4>1 DEF There
    <3>3. CASE j # 1
      <4>1. j - 1 \in DOMAIN job' /\ j - 1 < i - 1 /\ job'[j - 1] = job[j]
        BY <1>1, <1>2, <3>1, <3>3
      <4> QED
        BY <3>1, <4>1 DEF There
    <3> QED
      BY <3>2, <3>3
  <2> QED
    BY <1>1, <1>11, <2>2, <2>3 DEF There, key
<1>12. FlashInv'
  <2>1. nvs'["schema"] # Missing => \A k \in Keys : nvs'[k] # Missing
    <3>1. CASE key = "all"
      BY <1>7, <3>1, KeyNames
    <3>2. CASE key = "schema"
      <4>1. \A k \in Keys \ {"schema"} : There(k, 1)
        BY <1>1, <3>2 DEF SettingsInv, FlashInv, key
      <4>2. \A k \in Keys \ {"schema"} : nvs[k] # Missing
        BY <1>1, <4>1 DEF There
      <4> QED
        BY <1>8, <3>2, <4>2, KeyNames
    <3>3. CASE key # "all" /\ key # "schema"
      <4>1. nvs'["schema"] = nvs["schema"]
        BY <1>7, <3>3, KeyNames
      <4> QED
        BY <1>8, <3>3, <4>1 DEF SettingsInv, FlashInv
    <3> QED
      BY <3>1, <3>2, <3>3
  <2>2. ASSUME NEW i \in DOMAIN job', job'[i][1] = "schema", NEW k \in Keys \ {"schema"}
        PROVE  There(k, i)'
    <3>1. There(k, i + 1) /\ i + 1 \in 2 .. Len(job) + 1 /\ (i + 1) - 1 = i
      BY <1>1, <1>2, <2>2 DEF SettingsInv, FlashInv
    <3> QED
      BY <1>11, <3>1
  <2>3. ASSUME setup # "begin", NEW k \in Keys
        PROVE  There(k, Len(job) + 1)'
    <3>1. There(k, Len(job) + 1) /\ Len(job) + 1 \in 2 .. Len(job) + 1 /\ (Len(job) + 1) - 1 = Len(job') + 1
      BY <1>1, <1>2, <2>3 DEF SettingsInv, FlashInv
    <3> QED
      BY <1>11, <3>1
  <2> QED
    BY <1>10, <2>1, <2>2, <2>3 DEF FlashInv
<1>13. GainsInv'
  <2> SUFFICES ASSUME Running, ~diverged
               PROVE  GainsInv'
    BY DEF GainsInv, Running
  <2>1. /\ \A i \in DOMAIN job : job[i][1] # "all"
        /\ \A g \in Gains :
             /\ \A i \in DOMAIN job : job[i][1] = g => job[i][2] = Text(live[g])
             /\ \/ \E i \in DOMAIN job : job[i][1] = g
                \/ Text(live[g]) = Text(Saved(g))
    BY DEF SettingsInv, GainsInv
  <2>2. ASSUME NEW g \in Gains
        PROVE  \/ \E i \in DOMAIN job' : job'[i][1] = g
               \/ Text(live[g]) = Text(Saved(g)')
    <3>1. g \in Keys /\ live[g] \in Nat
      BY KeyNames DEF Gains, SettingsInv, SettingsType
    <3>2. CASE key = g
      <4>1. nvs'[g] = Text(live[g])
        BY <1>1, <1>7, <2>1, <3>1, <3>2, KeyNames DEF key, value
      <4>2. Saved(g)' = Text(live[g])
        BY <3>1, <4>1, TextTwice DEF Saved, Missing
      <4> QED
        BY <3>1, <4>2, TextTwice
    <3>3. CASE key # g
      <4>1. key # "all" /\ nvs'[g] = nvs[g]
        BY <1>1, <1>7, <2>1, <3>1, <3>3 DEF key
      <4>2. Saved(g)' = Saved(g)
        BY <4>1 DEF Saved
      <4>3. ASSUME NEW i \in DOMAIN job, job[i][1] = g
            PROVE  i - 1 \in DOMAIN job' /\ job'[i - 1][1] = g
        BY <1>1, <1>2, <3>3, <4>3 DEF key
      <4> QED
        BY <2>1, <4>2, <4>3
    <3> QED
      BY <3>2, <3>3
  <2>3. \A g \in Gains, i \in DOMAIN job' : job'[i][1] = g => job'[i][2] = Text(live[g])
    BY <1>2, <2>1
  <2> QED
    BY <1>10, <2>2, <2>3 DEF GainsInv
<1> QED
  BY <1>9, <1>12, <1>13 DEF SettingsInv

\* A reset leaves the flash as it is, complete or with its version missing.
LEMMA SettingsAfterReset ==
  ASSUME SettingsInv, Reset
  PROVE  SettingsInv'
<1>1. live' \in [Gains -> Nat]
  BY KeyNames DEF Reset, SetGains, Gains
<1>2. SettingsType' /\ OneWriter'
  <2>1. /\ nvs' = nvs /\ diverged' = FALSE /\ job' = <<>> /\ setup' = "begin" /\ serial' = "down"
    BY DEF Reset
  <2>2. job' \in Seq(PutSet) /\ ~Running'
    BY <2>1 DEF Running
  <2> QED
    BY <1>1, <2>1, <2>2 DEF SettingsInv, SettingsType, OneWriter, Steps
<1>3. FlashInv' /\ GainsInv'
  BY DEF Reset, SettingsInv, FlashInv, GainsInv, Running
<1> QED
  BY <1>2, <1>3 DEF SettingsInv

\* FlightController::setup writes the defaults or the offsets before it starts
\* the tasks; PidTask then loads the gains that are saved.
LEMMA SettingsSetup ==
  ASSUME SettingsInv, Setup
  PROVE  SettingsInv'
<1>1. CASE BeginSettings
  <2>1. SettingsType' /\ OneWriter'
    BY <1>1, ResetJob DEF BeginSettings, SettingsInv, SettingsType, OneWriter, Steps, Running, settings
  <2>2. CASE nvs.schema = Schema
    <3>1. \A k \in Keys : nvs[k] # Missing
      BY <2>2 DEF SettingsInv, FlashInv, Schema, Missing
    <3>2. job' = <<>> /\ nvs' = nvs /\ ~Running'
      BY <1>1, <2>2 DEF BeginSettings, Running, settings
    <3>3. FlashInv' /\ GainsInv'
      BY <3>1, <3>2 DEF FlashInv, GainsInv, There
    <3> QED
      BY <2>1, <3>3 DEF SettingsInv
  <2>3. CASE nvs.schema # Schema
    <3>1. job = <<>> /\ job' = FactoryReset /\ nvs' = nvs /\ ~Running'
      BY <1>1, <2>3 DEF BeginSettings, Running, settings, SettingsInv, OneWriter
    <3> QED
      BY <2>1, <3>1, SettingsReset
  <2> QED
    BY <2>2, <2>3
<1>2. CASE SetupPut
  BY <1>2, SettingsPut DEF SetupPut
<1>3. CASE Calibrate
  <2>1. job = <<>> /\ nvs' = nvs /\ setup # "begin" /\ setup' # "begin" /\ ~Running'
    BY <1>3 DEF Calibrate, settings, Running
  <2>2. \A k \in Keys : nvs[k] # Missing
    BY <2>1 DEF SettingsInv, FlashInv, There
  <2>3. job' \in Seq(PutSet) /\ \A i \in DOMAIN job' : job'[i][1] # "all"
    <3> DEFINE a == <<Put("other", Default.other)>>
               b == SchemaPut
    <3>1. Put("other", Default.other) \in PutSet
      BY KeyNames DEF Put, PutSet
    <3>2. a \in Seq(PutSet) /\ Len(a) = 1 /\ a[1][1] = "other"
      BY <3>1 DEF Put
    <3>3. b \in Seq(PutSet) /\ Len(b) = 1 /\ b[1][1] = "schema"
      BY SchemaJob
    <3>4. job' = <<>> \/ job' = a \o b
      BY <1>3 DEF Calibrate
    <3> HIDE DEF a, b
    <3>5. a \o b \in Seq(PutSet) /\ \A i \in DOMAIN (a \o b) : (a \o b)[i][1] # "all"
      <4>0. a \in Seq(PutSet) /\ b \in Seq(PutSet)
        BY <3>2, <3>3
      <4>1. /\ a \o b \in Seq(PutSet) /\ Len(a \o b) = Len(a) + Len(b)
            /\ \A i \in 1 .. Len(a) : (a \o b)[i] = a[i]
            /\ \A i \in 1 .. Len(b) : (a \o b)[Len(a) + i] = b[i]
        BY <4>0, Joined
      <4>2. Len(a) = 1 /\ Len(b) = 1
        BY <3>2, <3>3
      <4>3. Len(a \o b) = 2 /\ (a \o b)[1] = a[1] /\ (a \o b)[2] = b[1]
        BY <4>1, <4>2
      <4>4. DOMAIN (a \o b) = 1 .. 2
        BY <4>1, <4>3
      <4> QED
        BY <3>2, <3>3, <4>1, <4>3, <4>4
    <3>6. CASE job' = <<>>
      BY <3>6
    <3>7. CASE job' = a \o b
      BY <3>5, <3>7
    <3> QED
      BY <3>4, <3>6, <3>7
  <2>4. SettingsType' /\ OneWriter'
    BY <1>3, <2>1, <2>3 DEF Calibrate, SettingsInv, SettingsType, OneWriter, Steps, settings, Running
  <2>5. \A k \in Keys : \A i : There(k, i)'
    <3>1. job' # <<>> => 1 \in DOMAIN job'
      BY <2>3
    <3> QED
      BY <2>1, <2>2, <2>3, <3>1 DEF There
  <2>6. FlashInv'
    BY <2>1, <2>2, <2>3, <2>5 DEF FlashInv
  <2> QED
    BY <2>1, <2>4, <2>6 DEF SettingsInv, GainsInv
<1>4. CASE StartTasks
  <2>1. job = <<>> /\ UNCHANGED <<nvs, job, diverged>> /\ live' = Loaded
    BY <1>4 DEF StartTasks
  <2>2. \A g \in Gains : Saved(g) \in Nat /\ live'[g] = Text(Saved(g)) /\ Saved(g)' = Saved(g)
    BY <2>1, KeyNames DEF Loaded, Saved, SettingsInv, SettingsType, Gains
  <2>3. live' \in [Gains -> Nat] /\ \A g \in Gains : Text(live'[g]) = Text(Saved(g))
    BY <2>1, <2>2, TextTwice DEF Loaded
  <2>4. SettingsType' /\ OneWriter'
    BY <1>4, <2>1, <2>3 DEF StartTasks, SettingsInv, SettingsType, OneWriter, Steps, Running
  <2>5. FlashInv'
    <3>1. \A k, i : There(k, i)' <=> There(k, i)
      BY <2>1 DEF There
    <3> QED
      BY <1>4, <2>1, <3>1 DEF SettingsInv, FlashInv, StartTasks
  <2>6. GainsInv'
    BY <2>1, <2>2, <2>3 DEF GainsInv
  <2> QED
    BY <2>4, <2>5, <2>6 DEF SettingsInv
<1>5. CASE SetupFlush \/ SetupFlushed \/ SetupPrompt
  <2>1. /\ UNCHANGED <<settings, job, serial>> /\ setup' \in Steps
        /\ setup \notin {"begin", "settings", "offsets"} /\ setup' \notin {"begin", "settings", "offsets"}
    BY <1>5 DEF SetupFlush, SetupFlushed, SetupPrompt, Steps
  <2>2. Running /\ Running' /\ setup # "begin" /\ setup' # "begin"
    BY <2>1 DEF Running
  <2>3. /\ serial' \in {"down", "read", "work", "flush", "wait", "prompt"} /\ (serial' = "down" <=> ~Running')
        /\ (job # <<>> /\ Running => serial' = "work")
    BY <2>1, <2>2 DEF SettingsInv, SettingsType, OneWriter
  <2> QED
    BY <2>1, <2>2, <2>3, SettingsRest
<1> QED
  BY <1>1, <1>2, <1>3, <1>4, <1>5 DEF Setup

\* Commands: what each puts, and what it does to the gains in use.
LEMMA SettingsCommand ==
  ASSUME SettingsInv,
         MspCommand \/ OtherCommand \/ Reboot \/ Save \/ FactoryResetConfirm \/ SetSetting \/ SetPid \/ ResetPid
  PROVE  SettingsInv'
<1>1. /\ UNCHANGED <<nvs, setup>> /\ serial = "read" /\ serial' = "work"
  BY DEF MspCommand, OtherCommand, Reboot, Save, FactoryResetConfirm, SetSetting, SetPid, ResetPid, Executes,
         Refuses, Reads
<1>2. Running /\ Running' /\ job = <<>>
  BY <1>1 DEF SettingsInv, OneWriter, Running
<1>3. live \in [Gains -> Nat] /\ diverged \in BOOLEAN
  BY DEF SettingsInv, SettingsType
<1>4. ASSUME job' = <<>>, UNCHANGED <<live, diverged>>
      PROVE  SettingsInv'
  <2>1. job' \in Seq(PutSet) /\ DOMAIN job' = {}
    BY <1>4
  <2> QED
    BY <1>1, <1>2, <1>3, <1>4, <2>1, SettingsJob
<1>5. ASSUME job' = SchemaPut, UNCHANGED <<live, diverged>>
      PROVE  SettingsInv'
  <2>1. job' \in Seq(PutSet) /\ DOMAIN job' = {1} /\ job'[1][1] = "schema"
    BY <1>5, SchemaJob
  <2>2. \A g \in Gains : g # "schema"
    BY DEF Gains
  <2> QED
    BY <1>1, <1>2, <1>3, <1>5, <2>1, <2>2, SettingsJob
<1>6. ASSUME job' = FactoryReset, live' = live, diverged' = TRUE
      PROVE  SettingsInv'
  <2>1. SettingsType' /\ OneWriter'
    BY <1>1, <1>2, <1>3, <1>6, ResetJob DEF SettingsInv, SettingsType, OneWriter, Running
  <2> QED
    BY <1>1, <1>2, <1>6, <2>1, SettingsReset
<1>7. CASE MspCommand
  BY <1>4, <1>5, <1>6, <1>7 DEF MspCommand
<1>8. CASE OtherCommand \/ Reboot \/ Save \/ FactoryResetConfirm
  BY <1>4, <1>5, <1>6, <1>8 DEF OtherCommand, Reboot, Save, FactoryResetConfirm
<1>9. CASE SetSetting
  <2>1. CASE \E g \in Tuned, v \in Typed : job' = <<Put(g, v)>> /\ diverged' = TRUE
    <3>1. PICK g \in Tuned, v \in Typed : job' = <<Put(g, v)>>
      BY <2>1
    <3>2. g \in Keys /\ v \in Nat
      BY ConsoleAssumption, KeyNames
    <3>3. Put(g, v) \in PutSet /\ Put(g, v)[1] # "all"
      BY <3>2, KeyNames DEF Put, PutSet
    <3>4. job' \in Seq(PutSet) /\ \A i \in DOMAIN job' : job'[i][1] # "all"
      BY <3>1, <3>3
    <3> QED
      BY <1>1, <1>2, <1>3, <1>9, <2>1, <3>4, SettingsJob DEF SetSetting
  <2>2. CASE job' = <<Put("other", Default.other)>> /\ UNCHANGED diverged
    <3>1. Put("other", Default.other) \in PutSet /\ Put("other", Default.other)[1] = "other"
      BY KeyNames DEF Put, PutSet
    <3>2. job' \in Seq(PutSet) /\ \A i \in DOMAIN job' : job'[i][1] = "other"
      BY <2>2, <3>1
    <3>3. \A g \in Gains : g # "other"
      BY DEF Gains
    <3> QED
      BY <1>1, <1>2, <1>3, <1>9, <2>2, <3>2, <3>3, SettingsJob DEF SetSetting
  <2> QED
    BY <1>9, <2>1, <2>2 DEF SetSetting
<1>10. CASE SetPid
  <2>1. live' \in [Gains -> Nat] /\ job' = GainPuts(live') /\ UNCHANGED diverged
    BY <1>3, <1>10, ConsoleAssumption DEF SetPid
  <2>2. /\ job' \in Seq(PutSet) /\ Len(job') = 2
        /\ job'[1] = <<"p", Text(live'["p"])>> /\ job'[2] = <<"d", Text(live'["d"])>>
    BY <2>1, GainsJob
  <2>3. DOMAIN job' = {1, 2}
    BY <2>2
  <2>4. \A i \in DOMAIN job' : job'[i][1] # "all"
    BY <2>2, <2>3
  <2>5. ASSUME NEW g \in Gains
        PROVE  (\A i \in DOMAIN job' : job'[i][1] = g => job'[i][2] = Text(live'[g])) /\ (\E i \in DOMAIN job' : job'[i][1] = g)
    BY <2>2, <2>3 DEF Gains
  <2> QED
    BY <1>1, <1>2, <1>3, <2>1, <2>2, <2>4, <2>5, SettingsJob
<1>11. CASE ResetPid
  <2>1. live' \in [Gains -> Nat] /\ job' = GainPuts(live') \o SchemaPut /\ UNCHANGED diverged
    BY <1>11, KeyNames DEF ResetPid, SetGains, Gains
  <2>2. /\ job' \in Seq(PutSet) /\ Len(job') = 3
        /\ job'[1] = <<"p", Text(live'["p"])>> /\ job'[2] = <<"d", Text(live'["d"])>> /\ job'[3][1] = "schema"
    BY <2>1, GainsJob
  <2>3. DOMAIN job' = {1, 2, 3}
    BY <2>2
  <2>4. \A i \in DOMAIN job' : job'[i][1] # "all"
    BY <2>2, <2>3
  <2>5. ASSUME NEW g \in Gains
        PROVE  (\A i \in DOMAIN job' : job'[i][1] = g => job'[i][2] = Text(live'[g])) /\ (\E i \in DOMAIN job' : job'[i][1] = g)
    BY <2>2, <2>3 DEF Gains
  <2> QED
    BY <1>1, <1>2, <1>3, <2>1, <2>2, <2>4, <2>5, SettingsJob
<1> QED
  BY <1>7, <1>8, <1>9, <1>10, <1>11

\* The settings' invariant is inductive.
LEMMA SettingsNext ==
  ASSUME SettingsInv, [Next]_vars
  PROVE  SettingsInv'
<1>1. ASSUME UNCHANGED <<settings, job, setup>>, serial # "down", job # <<>> => serial' = "work",
             serial' \in {"read", "work", "flush", "wait", "prompt"}
      PROVE  SettingsInv'
  <2>1. Running /\ Running' /\ setup \in Steps /\ setup # "begin" /\ setup' # "begin"
    BY <1>1 DEF SettingsInv, SettingsType, OneWriter, Running
  <2> QED
    BY <1>1, <2>1, SettingsRest
<1>2. ASSUME serial \notin {"down", "work"}
      PROVE  job = <<>>
  BY <1>2 DEF SettingsInv, OneWriter
<1>3. ASSUME UNCHANGED <<settings, setup, serial, job>>
      PROVE  SettingsInv'
  <2>1. Running' <=> Running
    BY <1>3 DEF Running
  <2>2. /\ setup' \in Steps /\ serial' \in {"down", "read", "work", "flush", "wait", "prompt"}
        /\ (serial' = "down" <=> ~Running') /\ (job # <<>> /\ Running => serial' = "work")
    BY <1>3, <2>1 DEF SettingsInv, SettingsType, OneWriter
  <2> QED
    BY <1>3, <2>1, <2>2, SettingsRest
<1>4. CASE PowerCut \/ Restarts
  BY <1>4, SettingsAfterReset DEF PowerCut, Restarts
<1>5. CASE Setup
  BY <1>5, SettingsSetup
<1>6. CASE Host
  BY <1>3, <1>6 DEF Host, TypeLine, HalfLine, SendFrame, SendLong, BreakFrame, Sends
<1>7. CASE ReadByte
  <2>1. CASE MspCommand \/ OtherCommand \/ Reboot \/ Save \/ FactoryResetConfirm \/ SetSetting \/ SetPid \/ ResetPid
    BY <2>1, SettingsCommand
  <2>2. CASE EmptyLine
    BY <1>1, <1>2, <2>2 DEF EmptyLine, Refuses, Reads
  <2>3. CASE \/ FrameStart \/ Protocol \/ Direction \/ CountedByte \/ LengthV1 \/ CodeV1 \/ LengthLow \/ LengthHigh
             \/ Payload \/ PayloadTooLong \/ BadChecksum \/ Ignored \/ Typing
    BY <1>3, <2>3 DEF FrameStart, Protocol, Direction, CountedByte, LengthV1, CodeV1, LengthLow, LengthHigh,
       Payload, PayloadTooLong, BadChecksum, Ignored, Typing, Keeps, Reads, Refuses
  <2> QED
    BY <1>7, <2>1, <2>2, <2>3 DEF ReadByte
<1>8. CASE Timeout \/ ComTask
  BY <1>3, <1>8 DEF Timeout, ComTask
<1>9. CASE Works
  BY <1>9, SettingsPut DEF Works
<1>10. CASE Replies \/ Reports
  BY <1>1, <1>10 DEF Replies, Reports
<1>11. CASE SerialFlush \/ SerialFlushed \/ SerialPrompt
  BY <1>1, <1>2, <1>11 DEF SerialFlush, SerialFlushed, SerialPrompt
<1>12. CASE UNCHANGED vars
  BY <1>3, <1>12 DEF vars
<1> QED
  BY <1>4, <1>5, <1>6, <1>7, <1>8, <1>9, <1>10, <1>11, <1>12 DEF Next, Serial

\* Nothing has been written yet.
LEMMA SettingsFirst ==
  ASSUME Init
  PROVE  SettingsInv
<1>1. live \in [Gains -> Nat] /\ nvs \in [Keys -> Nat \cup {Missing}]
  BY KeyNames DEF Init, SetGains, Gains
<1>2. job = <<>> /\ job \in Seq(PutSet) /\ ~Running
  BY DEF Init, Running
<1>3. SettingsType /\ OneWriter
  BY <1>1, <1>2 DEF Init, SettingsType, OneWriter, Steps
<1>4. nvs["schema"] = Missing /\ setup = "begin"
  BY KeyNames DEF Init
<1>5. FlashInv
  BY <1>2, <1>4 DEF FlashInv
<1>6. GainsInv
  BY <1>2 DEF GainsInv
<1> QED
  BY <1>3, <1>5, <1>6 DEF SettingsInv

\* The inductive invariant of the settings holds in every state.
LEMMA SettingsCorrect == Spec => []SettingsInv
<1>1. Spec => Init /\ [][Next]_vars
  BY DEF Spec
<1> QED
  BY <1>1, SettingsFirst, SettingsNext, PTL

\* Wherever the power went while the defaults were being written, all settings
\* are in flash once the tasks run (SettingsManager::begin writes the version
\* of the settings last).
THEOREM FlashComplete == Spec => []SettingsComplete
<1>1. ASSUME SettingsInv
      PROVE  SettingsComplete
  BY <1>1 DEF SettingsInv, FlashInv, There, SettingsComplete, Running
<1> QED
  BY <1>1, SettingsCorrect, PTL

\* After a tuning command, however often the power goes and whatever was put
\* when it went, the gains that the next start loads are those in use, unless
\* the flash was changed behind PidTask's back.
THEOREM GainsKept == Spec => []GainsAsSaved
<1>1. ASSUME SettingsInv
      PROVE  GainsAsSaved
  BY <1>1 DEF SettingsInv, GainsInv, GainsAsSaved
<1> QED
  BY <1>1, SettingsCorrect, PTL
-----------------------------------------------------------------------------
(***************************************************************************)
(* Bytes and frames                                                        *)
(***************************************************************************)

Kinds   == {"$", "M", "X", "<", "a", "b", "newline", "len", "data", "crc"}
ByteSet == Kinds \X Nat

\* A byte of any kind, with a length or without.
LEMMA ByteType ==
  /\ \A kind \in Kinds : Byte(kind) \in ByteSet /\ Byte(kind)[1] = kind /\ Byte(kind)[2] = 0
  /\ \A n \in Nat : Length(n) \in ByteSet /\ Length(n)[1] = "len" /\ Length(n)[2] = n
<1>1. "len" \in Kinds
  BY DEF Kinds
<1> QED
  BY <1>1 DEF Byte, Length, ByteSet

\* The bytes that a frame and a line are made of.
LEMMA Bytes ==
  /\ Byte("$") \in ByteSet /\ Byte("M") \in ByteSet /\ Byte("X") \in ByteSet /\ Byte("<") \in ByteSet
  /\ Byte("data") \in ByteSet /\ Byte("crc") \in ByteSet
  /\ Byte("a") \in ByteSet /\ Byte("b") \in ByteSet /\ Byte("newline") \in ByteSet
<1>1. /\ "$" \in Kinds /\ "M" \in Kinds /\ "X" \in Kinds /\ "<" \in Kinds /\ "data" \in Kinds
      /\ "crc" \in Kinds /\ "a" \in Kinds /\ "b" \in Kinds /\ "newline" \in Kinds
  BY DEF Kinds
<1> QED
  BY <1>1, ByteType

\* Two strings of bytes behind one another.
LEMMA Spliced ==
  ASSUME NEW s \in Seq(ByteSet), NEW t \in Seq(ByteSet)
  PROVE  /\ s \o t \in Seq(ByteSet) /\ Len(s \o t) = Len(s) + Len(t)
         /\ \A i \in 1 .. Len(s) : (s \o t)[i] = s[i]
         /\ \A i \in 1 .. Len(t) : (s \o t)[Len(s) + i] = t[i]
OBVIOUS

\* A payload and a checksum behind some bytes.
LEMMA Framed ==
  ASSUME NEW h \in Seq(ByteSet), NEW n \in Nat, NEW f, f = h \o Times(n, Byte("data")) \o <<Byte("crc")>>
  PROVE  f \in Seq(ByteSet) /\ Body(f, Len(h) + 1, n) /\ \A i \in 1 .. Len(h) : f[i] = h[i]
<1> DEFINE t == Times(n, Byte("data"))
           c == <<Byte("crc")>>
           u == h \o t
           s == u \o c
           m == Len(h)
<1>1. t \in Seq(ByteSet) /\ Len(t) = n /\ \A i \in 1 .. n : t[i] = Byte("data")
  <2>1. Byte("data") \in ByteSet
    BY Bytes
  <2> QED
    BY <2>1 DEF Times
<1>2. c \in Seq(ByteSet) /\ Len(c) = 1 /\ c[1] = Byte("crc")
  <2>1. Byte("crc") \in ByteSet
    BY Bytes
  <2> QED
    BY <2>1
<1> HIDE DEF t, c
<1>3. /\ u \in Seq(ByteSet) /\ Len(u) = Len(h) + Len(t)
      /\ \A i \in 1 .. Len(h) : u[i] = h[i]
      /\ \A i \in 1 .. Len(t) : u[Len(h) + i] = t[i]
  BY <1>1, Spliced, Zenon
<1> HIDE DEF u
<1>4. /\ s \in Seq(ByteSet) /\ Len(s) = Len(u) + Len(c)
      /\ \A i \in 1 .. Len(u) : s[i] = u[i]
      /\ \A i \in 1 .. Len(c) : s[Len(u) + i] = c[i]
  BY <1>2, <1>3, Spliced, Zenon
<1> HIDE DEF s
<1>5. m \in Nat
  OBVIOUS
<1> HIDE DEF m
<1>6. /\ Len(u) = m + n /\ Len(s) = (m + 1) + n /\ s[(m + 1) + n] = Byte("crc")
      /\ (\A i \in 1 .. m : u[i] = h[i]) /\ (\A i \in 1 .. n : u[m + i] = Byte("data"))
      /\ \A i \in 1 .. m + n : s[i] = u[i]
  <2>1. /\ Len(u) = m + n /\ (\A i \in 1 .. m : u[i] = h[i]) /\ (\A i \in 1 .. n : u[m + i] = t[i])
    BY <1>1, <1>3, Zenon DEF m
  <2>2. /\ Len(s) = (m + n) + 1 /\ (\A i \in 1 .. m + n : s[i] = u[i]) /\ (\A i \in 1 .. 1 : s[(m + n) + i] = c[i])
    BY <1>2, <1>4, <2>1, Zenon
  <2>3. Len(s) = (m + 1) + n /\ s[(m + 1) + n] = Byte("crc")
    BY <1>2, <1>5, <2>2
  <2>4. \A i \in 1 .. n : u[m + i] = Byte("data")
    BY <1>1, <2>1
  <2> QED
    BY <2>1, <2>2, <2>3, <2>4
<1>7. \A i \in 1 .. m : s[i] = h[i]
  BY <1>5, <1>6
<1>8. ASSUME NEW i \in m + 1 .. m + 1 + n - 1
      PROVE  s[i] = Byte("data")
  <2>1. i \in 1 .. m + n /\ i - m \in 1 .. n /\ m + (i - m) = i
    BY <1>5
  <2> QED
    BY <1>6, <2>1
<1>9. Body(s, m + 1, n)
  BY <1>6, <1>8 DEF Body
<1>10. s = f
  BY DEF s, u, t, c
<1> QED
  BY <1>4, <1>7, <1>9, <1>10 DEF m

\* The kind and the payload of a frame.
LEMMA FrameKinds ==
  ASSUME NEW f \in Frames
  PROVE  /\ f[1] \in {"V1", "V2", "jumbo"} /\ f[2] \in 0 .. Over /\ f[2] \in Nat
         /\ f[1] = "jumbo" => f[2] = Over
  BY ConsoleAssumption DEF Frames, Over

\* Where the fields of a frame are.
LEMMA FrameLayout ==
  ASSUME NEW f \in Frames, NEW s, s = Frame(f[1], f[2])
  PROVE  /\ s \in Seq(ByteSet) /\ s[1][1] = "$" /\ s[3][1] = "<"
         /\ f[1] = "V1" =>
              s[2][1] = "M" /\ s[4] = Length(f[2]) /\ s[5] = Byte("data") /\ Body(s, 6, f[2])
         /\ f[1] = "jumbo" =>
              /\ s[2][1] = "M" /\ s[4] = Length(Jumbo) /\ s[5] = Byte("data")
              /\ s[6] = Length(f[2]) /\ s[7] = Length(0) /\ Body(s, 8, f[2])
         /\ f[1] = "V2" =>
              /\ s[2][1] = "X" /\ s[4] = Byte("data") /\ s[5] = Byte("data") /\ s[6] = Byte("data")
              /\ s[7] = Length(f[2]) /\ s[8] = Length(0) /\ Body(s, 9, f[2])
<1> DEFINE n == f[2]
           h == Header(f[1])
           e == Fields(f[1], n)
<1>1. n \in Nat
  BY FrameKinds
<1>2. Length(n) \in ByteSet /\ Length(0) \in ByteSet /\ Length(Jumbo) \in ByteSet /\ Byte("data") \in ByteSet
  BY <1>1, ByteType, Bytes, ConsoleAssumption DEF Jumbo
<1>3. s = (h \o e) \o Times(n, Byte("data")) \o <<Byte("crc")>>
  BY DEF Frame
<1> HIDE DEF n
<1>4. CASE f[1] = "V1"
  <2>1. h = <<Byte("$"), Byte("M"), Byte("<")>>
    BY <1>4 DEF Header
  <2>2. h \in Seq(ByteSet) /\ Len(h) = 3
    BY <2>1, Bytes
  <2>3. h[1][1] = "$" /\ h[2][1] = "M" /\ h[3][1] = "<"
    BY <2>1 DEF Byte
  <2>4. /\ e \in Seq(ByteSet) /\ Len(e) = 2
        /\ e[1] = Length(n) /\ e[2] = Byte("data")
    <3>1. e = <<Length(n), Byte("data")>>
      BY <1>4 DEF Fields
    <3> QED
      BY <1>2, <3>1
  <2> HIDE DEF h, e
  <2>5. e \in Seq(ByteSet) /\ Len(e) = 2
    BY <2>4
  <2>6. /\ h \o e \in Seq(ByteSet) /\ Len(h \o e) = Len(h) + Len(e)
        /\ \A i \in 1 .. Len(h) : (h \o e)[i] = h[i]
        /\ \A i \in 1 .. Len(e) : (h \o e)[Len(h) + i] = e[i]
    BY <2>2, <2>5, Spliced, Zenon
  <2> DEFINE w == h \o e
  <2>7. /\ w \in Seq(ByteSet) /\ Len(w) = 5 /\ w[1] = h[1] /\ w[2] = h[2] /\ w[3] = h[3]
        /\ w[4] = e[1] /\ w[5] = e[2]
    BY <2>2, <2>5, <2>6
  <2>8. s = w \o Times(n, Byte("data")) \o <<Byte("crc")>>
    BY <1>3
  <2> HIDE DEF w
  <2>9. s \in Seq(ByteSet) /\ Body(s, Len(w) + 1, n) /\ \A i \in 1 .. Len(w) : s[i] = w[i]
    BY <1>1, <2>7, <2>8, Framed, Zenon
  <2>10. /\ s[1] = w[1] /\ s[2] = w[2] /\ s[3] = w[3] /\ s[4] = w[4] /\ s[5] = w[5]
    BY <2>7, <2>9
  <2>11. /\ s[1][1] = "$" /\ s[2][1] = "M" /\ s[3][1] = "<" /\ s \in Seq(ByteSet) /\ Body(s, 6, n)
         /\ s[4] = Length(n) /\ s[5] = Byte("data")
    BY <2>3, <2>4, <2>7, <2>9, <2>10
  <2> QED
    BY <1>4, <2>11 DEF n
<1>5. CASE f[1] = "jumbo"
  <2>1. h = <<Byte("$"), Byte("M"), Byte("<")>>
    BY <1>5 DEF Header
  <2>2. h \in Seq(ByteSet) /\ Len(h) = 3
    BY <2>1, Bytes
  <2>3. h[1][1] = "$" /\ h[2][1] = "M" /\ h[3][1] = "<"
    BY <2>1 DEF Byte
  <2>4. /\ e \in Seq(ByteSet) /\ Len(e) = 4
        /\ e[1] = Length(Jumbo) /\ e[2] = Byte("data") /\ e[3] = Length(n) /\ e[4] = Length(0)
    <3>1. e = <<Length(Jumbo), Byte("data"), Length(n), Length(0)>>
      BY <1>5 DEF Fields
    <3> QED
      BY <1>2, <3>1
  <2> HIDE DEF h, e
  <2>5. e \in Seq(ByteSet) /\ Len(e) = 4
    BY <2>4
  <2>6. /\ h \o e \in Seq(ByteSet) /\ Len(h \o e) = Len(h) + Len(e)
        /\ \A i \in 1 .. Len(h) : (h \o e)[i] = h[i]
        /\ \A i \in 1 .. Len(e) : (h \o e)[Len(h) + i] = e[i]
    BY <2>2, <2>5, Spliced, Zenon
  <2> DEFINE w == h \o e
  <2>7. /\ w \in Seq(ByteSet) /\ Len(w) = 7 /\ w[1] = h[1] /\ w[2] = h[2] /\ w[3] = h[3]
        /\ w[4] = e[1] /\ w[5] = e[2] /\ w[6] = e[3] /\ w[7] = e[4]
    BY <2>2, <2>5, <2>6
  <2>8. s = w \o Times(n, Byte("data")) \o <<Byte("crc")>>
    BY <1>3
  <2> HIDE DEF w
  <2>9. s \in Seq(ByteSet) /\ Body(s, Len(w) + 1, n) /\ \A i \in 1 .. Len(w) : s[i] = w[i]
    BY <1>1, <2>7, <2>8, Framed, Zenon
  <2>10. /\ s[1] = w[1] /\ s[2] = w[2] /\ s[3] = w[3] /\ s[4] = w[4] /\ s[5] = w[5] /\ s[6] = w[6] /\ s[7] = w[7]
    BY <2>7, <2>9
  <2>11. /\ s[1][1] = "$" /\ s[2][1] = "M" /\ s[3][1] = "<" /\ s \in Seq(ByteSet) /\ Body(s, 8, n)
         /\ s[4] = Length(Jumbo) /\ s[5] = Byte("data") /\ s[6] = Length(n) /\ s[7] = Length(0)
    BY <2>3, <2>4, <2>7, <2>9, <2>10
  <2> QED
    BY <1>5, <2>11 DEF n
<1>6. CASE f[1] = "V2"
  <2>1. h = <<Byte("$"), Byte("X"), Byte("<")>>
    BY <1>6 DEF Header
  <2>2. h \in Seq(ByteSet) /\ Len(h) = 3
    BY <2>1, Bytes
  <2>3. h[1][1] = "$" /\ h[2][1] = "X" /\ h[3][1] = "<"
    BY <2>1 DEF Byte
  <2>4. /\ e \in Seq(ByteSet) /\ Len(e) = 5
        /\ e[1] = Byte("data") /\ e[2] = Byte("data") /\ e[3] = Byte("data") /\ e[4] = Length(n) /\ e[5] = Length(0)
    <3> DEFINE a == Times(3, Byte("data"))
               b == <<Length(n), Length(0)>>
    <3>1. a \in Seq(ByteSet) /\ Len(a) = 3
      BY Bytes DEF Times
    <3>2. a[1] = Byte("data") /\ a[2] = Byte("data") /\ a[3] = Byte("data")
      BY DEF Times
    <3>3. b \in Seq(ByteSet) /\ Len(b) = 2 /\ b[1] = Length(n) /\ b[2] = Length(0)
      BY <1>2
    <3>4. e = a \o b
      BY <1>6 DEF Fields
    <3> HIDE DEF a, b, e
    <3>5. b \in Seq(ByteSet) /\ Len(b) = 2
      BY <3>3
    <3>6. /\ a \o b \in Seq(ByteSet) /\ Len(a \o b) = Len(a) + Len(b)
          /\ \A i \in 1 .. Len(a) : (a \o b)[i] = a[i]
          /\ \A i \in 1 .. Len(b) : (a \o b)[Len(a) + i] = b[i]
      BY <3>1, <3>5, Spliced, Zenon
    <3>7. /\ e \in Seq(ByteSet) /\ Len(e) = 5
          /\ e[1] = a[1] /\ e[2] = a[2] /\ e[3] = a[3] /\ e[4] = b[1] /\ e[5] = b[2]
      BY <3>1, <3>4, <3>5, <3>6
    <3> QED
      BY <3>2, <3>3, <3>7
  <2> HIDE DEF h, e
  <2>5. e \in Seq(ByteSet) /\ Len(e) = 5
    BY <2>4
  <2>6. /\ h \o e \in Seq(ByteSet) /\ Len(h \o e) = Len(h) + Len(e)
        /\ \A i \in 1 .. Len(h) : (h \o e)[i] = h[i]
        /\ \A i \in 1 .. Len(e) : (h \o e)[Len(h) + i] = e[i]
    BY <2>2, <2>5, Spliced, Zenon
  <2> DEFINE w == h \o e
  <2>7. /\ w \in Seq(ByteSet) /\ Len(w) = 8 /\ w[1] = h[1] /\ w[2] = h[2] /\ w[3] = h[3]
        /\ w[4] = e[1] /\ w[5] = e[2] /\ w[6] = e[3] /\ w[7] = e[4] /\ w[8] = e[5]
    BY <2>2, <2>5, <2>6
  <2>8. s = w \o Times(n, Byte("data")) \o <<Byte("crc")>>
    BY <1>3
  <2> HIDE DEF w
  <2>9. s \in Seq(ByteSet) /\ Body(s, Len(w) + 1, n) /\ \A i \in 1 .. Len(w) : s[i] = w[i]
    BY <1>1, <2>7, <2>8, Framed, Zenon
  <2>10. /\ s[1] = w[1] /\ s[2] = w[2] /\ s[3] = w[3] /\ s[4] = w[4] /\ s[5] = w[5] /\ s[6] = w[6] /\ s[7] = w[7] /\ s[8] = w[8]
    BY <2>7, <2>9
  <2>11. /\ s[1][1] = "$" /\ s[2][1] = "X" /\ s[3][1] = "<" /\ s \in Seq(ByteSet) /\ Body(s, 9, n)
         /\ s[4] = Byte("data") /\ s[5] = Byte("data") /\ s[6] = Byte("data") /\ s[7] = Length(n) /\ s[8] = Length(0)
    BY <2>3, <2>4, <2>7, <2>9, <2>10
  <2> QED
    BY <1>6, <2>11 DEF n
<1> QED
  BY <1>4, <1>5, <1>6, FrameKinds DEF n

\* What is left when the first byte has been read.
LEMMA Rest ==
  ASSUME NEW s \in Seq(ByteSet), s # <<>>
  PROVE  /\ Tail(s) \in Seq(ByteSet) /\ Len(s) \in Nat /\ Len(s) >= 1 /\ Len(Tail(s)) = Len(s) - 1
         /\ Head(s) = s[1] /\ \A i \in 1 .. Len(s) - 1 : Tail(s)[i] = s[i + 1]
OBVIOUS

\* What begins with a header does so whatever is put behind it.
Opens(s) == s \in Seq(ByteSet) /\ Len(s) >= 3 /\ s[1][1] = "$" /\ s[2][1] \in {"M", "X"} /\ s[3][1] = "<"

LEMMA OpensOn ==
  ASSUME NEW s, Opens(s), NEW t \in Seq(ByteSet)
  PROVE  Opens(s \o t)
<1> DEFINE u == s \o t
<1>1. u \in Seq(ByteSet) /\ Len(u) = Len(s) + Len(t) /\ \A i \in 1 .. Len(s) : u[i] = s[i]
  BY Spliced, Zenon DEF Opens
<1> HIDE DEF u
<1>2. Len(u) >= 3 /\ u[1] = s[1] /\ u[2] = s[2] /\ u[3] = s[3]
  BY <1>1 DEF Opens
<1>3. Opens(u)
  BY <1>1, <1>2, Zenon DEF Opens
<1> QED
  BY <1>3 DEF u

\* A frame that is too long begins like any other.
LEMMA LongLayout ==
  ASSUME NEW kind \in {"V1", "V2", "jumbo"}, NEW tail \in Tails
  PROVE  Opens(LongFrame(kind, tail))
<1>1. \A k \in {"V1", "V2", "jumbo"} : Opens(Header(k))
  <2>1. Opens(<<Byte("$"), Byte("M"), Byte("<")>>) /\ Opens(<<Byte("$"), Byte("X"), Byte("<")>>)
    BY Bytes DEF Opens, Byte
  <2> QED
    BY <2>1 DEF Header
<1>2. \A n \in Nat : Times(n, Byte("data")) \in Seq(ByteSet)
  BY Bytes DEF Times
<1>3. Fields(kind, Over) \in Seq(ByteSet)
  <2>1. /\ Over \in Nat /\ Length(Over) \in ByteSet /\ Length(0) \in ByteSet /\ Length(Jumbo) \in ByteSet
        /\ Byte("data") \in ByteSet
    BY ByteType, Bytes, ConsoleAssumption DEF Over, Jumbo
  <2>2. <<Length(Over), Length(0)>> \in Seq(ByteSet) /\ Times(3, Byte("data")) \in Seq(ByteSet)
    BY <1>2, <2>1
  <2>3. Times(3, Byte("data")) \o <<Length(Over), Length(0)>> \in Seq(ByteSet)
    BY <2>2, Spliced, Zenon
  <2>4. CASE kind = "V1"
    BY <2>1, <2>4 DEF Fields
  <2>5. CASE kind = "jumbo"
    BY <2>1, <2>5 DEF Fields
  <2>6. CASE kind = "V2"
    BY <2>3, <2>6 DEF Fields
  <2> QED
    BY <2>4, <2>5, <2>6
<1>4. tail \in Seq(ByteSet)
  <2>1. PICK k \in {"V1", "V2"}, n \in 1 .. 3 : tail = SubSeq(Header(k), 1, n)
    BY DEF Tails
  <2>2. Header(k) \in Seq(ByteSet) /\ Len(Header(k)) >= 3
    BY <1>1 DEF Opens
  <2> QED
    BY <2>1, <2>2
<1>5. <<Byte("crc")>> \in Seq(ByteSet) /\ Over \in Nat
  BY Bytes, ConsoleAssumption DEF Over
<1>6. Opens(Header(kind) \o Fields(kind, Over))
  BY <1>1, <1>3, OpensOn, Zenon
<1>7. Opens(Header(kind) \o Fields(kind, Over) \o Times(Over, Byte("data")))
  BY <1>2, <1>5, <1>6, OpensOn, Zenon
<1>8. Opens(Header(kind) \o Fields(kind, Over) \o Times(Over, Byte("data")) \o tail)
  BY <1>4, <1>7, OpensOn, Zenon
<1>9. Opens(Header(kind) \o Fields(kind, Over) \o Times(Over, Byte("data")) \o tail \o <<Byte("crc")>>)
  BY <1>5, <1>8, OpensOn, Zenon
<1> QED
  BY <1>9, Zenon DEF LongFrame

\* The host's strings are strings of bytes, and what it sends begins with a
\* whole header or is a line or its first part.
LEMMA HostBytes ==
  ASSUME Host
  PROVE  /\ out' \in Seq(ByteSet) /\ out = <<>>
         /\ \/ TypeLine /\ out' \in {Line, <<Byte("newline")>>}
            \/ HalfLine /\ \A i \in DOMAIN out' : out'[i][1] \in {"a", "b"}
            \/ /\ SendFrame \/ SendLong \/ BreakFrame
               /\ Len(out') >= 3 /\ out'[1][1] = "$" /\ out'[2][1] \in {"M", "X"} /\ out'[3][1] = "<"
<1>1. Line \in Seq(ByteSet) /\ Len(Line) = 3 /\ Line[1][1] = "a" /\ Line[2][1] = "b"
  BY Bytes DEF Line, Byte
<1>2. <<Byte("newline")>> \in Seq(ByteSet)
  BY Bytes
<1>3. ASSUME NEW f \in Frames, NEW s, s = Frame(f[1], f[2])
      PROVE  s \in Seq(ByteSet) /\ Len(s) >= 3 /\ s[1][1] = "$" /\ s[2][1] \in {"M", "X"} /\ s[3][1] = "<"
  <2>1. f[2] \in Nat /\ (f[1] = "V1" \/ f[1] = "V2" \/ f[1] = "jumbo")
    BY FrameKinds
  <2>2. s \in Seq(ByteSet) /\ s[1][1] = "$" /\ s[2][1] \in {"M", "X"} /\ s[3][1] = "<"
    BY <1>3, <2>1, FrameLayout
  <2>3. Body(s, 6, f[2]) \/ Body(s, 8, f[2]) \/ Body(s, 9, f[2])
    BY <1>3, <2>1, FrameLayout
  <2>4. Len(s) >= 3
    BY <2>1, <2>3 DEF Body
  <2> QED
    BY <2>2, <2>4
<1>4. CASE TypeLine
  BY <1>1, <1>2, <1>4 DEF TypeLine, Sends
<1>5. CASE HalfLine
  <2>1. PICK n \in 1 .. 2 : out' = SubSeq(Line, 1, n)
    BY <1>5 DEF HalfLine
  <2>2. out' \in Seq(ByteSet) /\ Len(out') = n /\ \A i \in 1 .. n : out'[i] = Line[i]
    BY <1>1, <2>1
  <2>3. \A i \in DOMAIN out' : out'[i][1] \in {"a", "b"}
    BY <1>1, <2>2
  <2> QED
    BY <1>5, <2>2, <2>3 DEF HalfLine, Sends
<1>6. CASE SendFrame
  <2>1. PICK f \in Frames : out' = Frame(f[1], f[2])
    BY <1>6 DEF SendFrame
  <2> QED
    BY <1>3, <1>6, <2>1 DEF SendFrame, Sends
<1>7. CASE BreakFrame
  <2>1. PICK f \in Frames : \E n \in 3 .. Len(Frame(f[1], f[2])) - 1 : out' = SubSeq(Frame(f[1], f[2]), 1, n)
    BY <1>7 DEF BreakFrame
  <2> DEFINE s == Frame(f[1], f[2])
  <2>2. s \in Seq(ByteSet) /\ Len(s) >= 3 /\ s[1][1] = "$" /\ s[2][1] \in {"M", "X"} /\ s[3][1] = "<"
    BY <1>3
  <2>3. PICK n \in 3 .. Len(s) - 1 : out' = SubSeq(s, 1, n)
    BY <2>1
  <2> HIDE DEF s
  <2>4. Len(s) \in Nat /\ n \in Nat /\ n >= 3 /\ n <= Len(s)
    BY <2>2, <2>3
  <2>5. out' \in Seq(ByteSet) /\ Len(out') = n /\ \A i \in 1 .. n : out'[i] = s[i]
    BY <2>2, <2>3, <2>4
  <2>6. out'[1] = s[1] /\ out'[2] = s[2] /\ out'[3] = s[3]
    BY <2>4, <2>5
  <2> QED
    BY <1>7, <2>2, <2>4, <2>5, <2>6 DEF BreakFrame, Sends
<1>8. CASE SendLong
  <2>1. PICK kind \in {"V1", "V2", "jumbo"}, tail \in Tails : out' = LongFrame(kind, tail)
    BY <1>8 DEF SendLong
  <2>2. Opens(out')
    BY <2>1, LongLayout, Zenon
  <2> QED
    BY <1>8, <2>2 DEF SendLong, Sends, Opens
<1> QED
  BY <1>4, <1>5, <1>6, <1>7, <1>8 DEF Host

\* What has arrived is a string of bytes.
OutOK == out \in Seq(ByteSet)

\* A byte that is read was the first.
LEMMA Read ==
  ASSUME OutOK, Reads
  PROVE  /\ out' \in Seq(ByteSet) /\ Len(out) \in Nat /\ Len(out) >= 1 /\ Len(out') = Len(out) - 1
         /\ Next1 = out[1][1] /\ Head(out) = out[1] /\ \A i \in 1 .. Len(out) - 1 : out'[i] = out[i + 1]
BY Rest DEF OutOK, Reads, Next1

\* Every step that reads a byte.
LEMMA ReadStep == ReadByte => Reads
BY DEF ReadByte, FrameStart, Protocol, Direction, CountedByte, LengthV1, CodeV1, LengthLow, LengthHigh,
   Payload, PayloadTooLong, BadChecksum, MspCommand, Ignored, Typing, EmptyLine, OtherCommand, Reboot, Save,
   FactoryResetConfirm, SetSetting, SetPid, ResetPid, Executes, Refuses

\* The action that reads a byte is told by the field, and by the byte where the
\* parser may refuse it.
LEMMA ByField ==
  ASSUME ReadByte
  PROVE  /\ field = "IDLE" /\ Next1 = "$" => FrameStart
         /\ field = "IDLE" /\ Next1 # "$" => Refuses /\ (Ignored \/ Typing \/ EmptyLine \/ Executes)
         /\ field = "PROTO_IDENTIFIER" /\ Next1 \in {"M", "X"} => Protocol
         /\ field \in {"DIRECTION_V1", "DIRECTION_V2"} /\ Next1 = "<" => Direction
         /\ field \in Counted => CountedByte
         /\ field = "LENGTH_V1" => LengthV1
         /\ field = "CODE_V1" => CodeV1
         /\ field \in {"LENGTH_V2_LOW", "LENGTH_JUMBO_LOW"} => LengthLow
         /\ field \in {"LENGTH_V2_HIGH", "LENGTH_JUMBO_HIGH"} => LengthHigh
         /\ field = "PAYLOAD" => (Fits /\ Payload) \/ (~Fits /\ PayloadTooLong)
         /\ field = "CHECKSUM" /\ aligned /\ Next1 = "crc" => MspCommand
BY DEF ReadByte, FrameStart, Protocol, Direction, CountedByte, Counted, LengthV1, CodeV1, LengthLow, LengthHigh,
   Payload, PayloadTooLong, BadChecksum, MspCommand, Ignored, Typing, EmptyLine, OtherCommand, Reboot, Save,
   FactoryResetConfirm, SetSetting, SetPid, ResetPid, Executes, Refuses, Refused

\* Neither the start nor the serial task between two bytes nor com_task reads
\* or sends a byte, or touches the parser.
LEMMA Elsewhere ==
  ASSUME Setup \/ Works \/ Replies \/ Reports \/ SerialFlush \/ SerialFlushed \/ SerialPrompt \/ ComTask \/ UNCHANGED vars
  PROVE  UNCHANGED <<parser, console, host>>
BY DEF Setup, BeginSettings, SetupPut, Calibrate, StartTasks, SetupFlush, SetupFlushed, SetupPrompt,
   Works, Replies, Reports, SerialFlush, SerialFlushed, SerialPrompt, ComTask, vars

\* The five ways of a step, as the parser sees them.
LEMMA StepKinds ==
  ASSUME [Next]_vars
  PROVE  Reset \/ Host \/ ReadByte \/ Timeout \/ UNCHANGED <<parser, console, host>>
BY Elsewhere DEF Next, Serial, PowerCut, Restarts

\* The bytes keep their type.
LEMMA OutNext ==
  ASSUME OutOK, [Next]_vars
  PROVE  OutOK'
<1>1. CASE Reset
  BY <1>1 DEF Reset, OutOK
<1>2. CASE Host
  BY <1>2, HostBytes DEF OutOK
<1>3. CASE ReadByte
  BY <1>3, ReadStep, Read DEF OutOK
<1>4. CASE Timeout \/ UNCHANGED <<parser, console, host>>
  BY <1>4 DEF Timeout, host, OutOK
<1> QED
  BY <1>1, <1>2, <1>3, <1>4, StepKinds
-----------------------------------------------------------------------------
(***************************************************************************)
(* Whole lines                                                             *)
(***************************************************************************)

\* What Append returns.
LEMMA Appended ==
  ASSUME NEW S, NEW s \in Seq(S), NEW y \in S
  PROVE  /\ Append(s, y) \in Seq(S) /\ Len(Append(s, y)) = Len(s) + 1
         /\ (\A i \in 1 .. Len(s) : Append(s, y)[i] = s[i]) /\ Append(s, y)[Len(s) + 1] = y
OBVIOUS

\* Sequences of the same elements are the same.
LEMMA SameSequence ==
  ASSUME NEW S, NEW s \in Seq(S), NEW t \in Seq(S), Len(s) = Len(t), \A i \in 1 .. Len(s) : s[i] = t[i]
  PROVE  s = t
OBVIOUS

\* A second element behind a first.
LEMMA Pair ==
  ASSUME NEW S, NEW x \in S, NEW y \in S
  PROVE  Append(<<x>>, y) = <<x, y>>
<1> DEFINE s == <<x>>
           t == Append(s, y)
           u == <<x, y>>
<1>1. s \in Seq(S) /\ Len(s) = 1 /\ s[1] = x
  OBVIOUS
<1>2. u \in Seq(S) /\ Len(u) = 2 /\ u[1] = x /\ u[2] = y
  OBVIOUS
<1> HIDE DEF s, u
<1>3. t \in Seq(S) /\ Len(t) = Len(s) + 1 /\ (\A i \in 1 .. Len(s) : t[i] = s[i]) /\ t[Len(s) + 1] = y
  <2>1. s \in Seq(S)
    BY <1>1
  <2> QED
    BY <2>1, Appended
<1> HIDE DEF t
<1>4. Len(t) = 2 /\ t[1] = x /\ t[2] = y
  BY <1>1, <1>3
<1>5. t = u
  BY <1>2, <1>3, <1>4, SameSequence
<1> QED
  BY <1>5 DEF s, t, u

\* The parts of a line behind what has been typed.
LEMMA LineParts ==
  /\ Line \in Seq(ByteSet) /\ Line # <<>> /\ Head(Line)[1] = "a" /\ Tail(Line) = <<Byte("b"), Byte("newline")>>
  /\ Head(<<Byte("b"), Byte("newline")>>)[1] = "b" /\ Tail(<<Byte("b"), Byte("newline")>>) = <<Byte("newline")>>
  /\ Head(<<Byte("newline")>>)[1] = "newline" /\ Tail(<<Byte("newline")>>) = <<>>
  /\ Append(<<>>, "a") = <<"a">> /\ Append(<<"a">>, "b") = <<"a", "b">>
<1>1. Byte("a")[1] = "a" /\ Byte("b")[1] = "b" /\ Byte("newline")[1] = "newline"
  BY DEF Byte
<1>2. Line \in Seq(ByteSet) /\ Line # <<>>
  BY Bytes DEF Line
<1>3. Head(Line)[1] = "a" /\ Tail(Line) = <<Byte("b"), Byte("newline")>>
  BY <1>1 DEF Line
<1>4. Head(<<Byte("b"), Byte("newline")>>)[1] = "b" /\ Tail(<<Byte("b"), Byte("newline")>>) = <<Byte("newline")>>
  BY <1>1
<1>5. Head(<<Byte("newline")>>)[1] = "newline" /\ Tail(<<Byte("newline")>>) = <<>>
  BY <1>1
<1>6. Append(<<>>, "a") = <<"a">>
  OBVIOUS
<1>7. Append(<<"a">>, "b") = <<"a", "b">>
  <2>1. "a" \in Kinds /\ "b" \in Kinds
    BY DEF Kinds
  <2> QED
    BY <2>1, Pair, Zenon
<1> QED
  BY <1>2, <1>3, <1>4, <1>5, <1>6, <1>7

\* What is typed and what is still to come make up a line.
LineUnderWay ==
  field = "IDLE" /\ <<buffer, out>> \in
    { <<<<>>, Line>>, << <<"a">>, <<Byte("b"), Byte("newline")>> >>,
      << <<"a", "b">>, <<Byte("newline")>> >>, << <<>>, <<Byte("newline")>> >> }

\* A command in the terminal is what was typed since the last line.
LEMMA ExecutesLine ==
  ASSUME LineInv, OutOK, Executes
  PROVE  buffer = <<"a", "b">> /\ out' = <<>> /\ field = "IDLE"
<1>1. mode = "TERMINAL" /\ Refused /\ Next1 = "newline" /\ buffer # <<>> /\ out # <<>> /\ out' = Tail(out)
  BY DEF Executes, Refuses, Reads
<1>2. Next1 = out[1][1] /\ 1 \in DOMAIN out
  BY <1>1, Rest DEF Next1, OutOK
<1>3. ~HeaderAhead(out)
  BY <1>1, <1>2 DEF HeaderAhead, Refused
<1>4. LineUnderWay
  BY <1>1, <1>2, <1>3 DEF LineInv, LineUnderWay
<1> QED
  BY <1>1, <1>4, LineParts DEF LineUnderWay, Next1

\* The invariant of the terminal is inductive.
LEMMA LineNext ==
  ASSUME LineInv, OutOK, [Next]_vars
  PROVE  LineInv'
<1>1. CASE Reset
  BY <1>1 DEF Reset, LineInv
<1>2. CASE Timeout
  BY <1>2 DEF Timeout, LineInv, Restarted, Cleared
<1>3. CASE UNCHANGED <<parser, console, host>>
  BY <1>3 DEF LineInv, HeaderAhead, parser, console, host
<1>4. CASE Host
  <2> SUFFICES ASSUME mode = "TERMINAL"
               PROVE  LineInv'
    BY <1>4 DEF LineInv, Host, TypeLine, HalfLine, SendFrame, SendLong, BreakFrame, Sends, console
  <2>1. out = <<>> /\ UNCHANGED <<field, mode, buffer>>
    BY <1>4 DEF Host, TypeLine, HalfLine, SendFrame, SendLong, BreakFrame, Sends, console, parser
  <2>2. ~HeaderAhead(out)
    BY <2>1 DEF HeaderAhead
  <2>3. field = "IDLE" /\ (buffer = <<>> \/ owed)
    <3>1. <<Byte("b"), Byte("newline")>> # <<>> /\ <<Byte("newline")>> # <<>>
      OBVIOUS
    <3> QED
      BY <2>1, <2>2, <3>1, LineParts DEF LineInv
  <2>4. CASE TypeLine /\ out' \in {Line, <<Byte("newline")>>}
    <3>1. buffer = <<>>
      BY <2>3, <2>4 DEF TypeLine
    <3> QED
      BY <2>1, <2>3, <2>4, <3>1 DEF LineInv
  <2>5. CASE HalfLine /\ \A i \in DOMAIN out' : out'[i][1] \in {"a", "b"}
    BY <2>1, <2>3, <2>5 DEF LineInv, HalfLine
  <2>6. CASE Len(out') >= 3 /\ out'[1][1] = "$" /\ out'[2][1] \in {"M", "X"} /\ out'[3][1] = "<"
    BY <2>1, <2>3, <2>6 DEF LineInv, HeaderAhead
  <2> QED
    BY <1>4, <2>4, <2>5, <2>6, HostBytes
<1>5. CASE ReadByte
  <2>1. Reads /\ out # <<>> /\ out' = Tail(out) /\ owed' = owed
    BY <1>5, ReadStep DEF Reads
  <2>2. /\ Len(out) \in Nat /\ Len(out) >= 1 /\ Len(out') = Len(out) - 1 /\ out' \in Seq(ByteSet)
        /\ Next1 = out[1][1] /\ \A i \in 1 .. Len(out) - 1 : out'[i] = out[i + 1]
    BY <2>1, Read
  <2>3. CASE mode # "TERMINAL"
    <3>1. mode' # "TERMINAL"
      BY <1>5, <2>3 DEF ReadByte, FrameStart, Protocol, Direction, CountedByte, LengthV1, CodeV1, LengthLow,
         LengthHigh, Payload, PayloadTooLong, BadChecksum, MspCommand, Ignored, Typing, EmptyLine, OtherCommand,
         Reboot, Save, FactoryResetConfirm, SetSetting, SetPid, ResetPid, Executes, Keeps, console
    <3> QED
      BY <3>1 DEF LineInv
  <2>4. CASE mode = "TERMINAL" /\ HeaderAhead(out)
    <3>1. CASE field = "IDLE"
      <4>1. Next1 = "$" /\ Len(out) >= 3 /\ out[2][1] \in {"M", "X"} /\ out[3][1] = "<"
        BY <2>2, <2>4, <3>1 DEF HeaderAhead
      <4>2. FrameStart
        BY <1>5, <3>1, <4>1, ByField
      <4>3. field' = "PROTO_IDENTIFIER" /\ Len(out') >= 2 /\ out'[1] = out[2] /\ out'[2] = out[3]
        BY <2>2, <4>1, <4>2 DEF FrameStart
      <4> QED
        BY <4>1, <4>3 DEF LineInv, HeaderAhead
    <3>2. CASE field = "PROTO_IDENTIFIER"
      <4>1. Next1 \in {"M", "X"} /\ Len(out) >= 2 /\ out[2][1] = "<"
        BY <2>2, <2>4, <3>2 DEF HeaderAhead
      <4>2. Protocol
        BY <1>5, <3>2, <4>1, ByField
      <4>3. field' \in {"DIRECTION_V1", "DIRECTION_V2"} /\ Len(out') >= 1 /\ out'[1] = out[2]
        BY <2>2, <4>1, <4>2 DEF Protocol
      <4> QED
        BY <4>1, <4>3 DEF LineInv, HeaderAhead
    <3>3. CASE field \in {"DIRECTION_V1", "DIRECTION_V2"}
      <4>1. Next1 = "<"
        BY <2>2, <2>4, <3>3 DEF HeaderAhead
      <4>2. Direction
        BY <1>5, <3>3, <4>1, ByField
      <4> QED
        BY <4>2 DEF LineInv, Direction
    <3> QED
      BY <2>4, <3>1, <3>2, <3>3 DEF HeaderAhead
  <2>5. CASE mode = "TERMINAL" /\ ~HeaderAhead(out)
    <3>1. field = "IDLE" /\ ((owed /\ \A i \in DOMAIN out : out[i][1] \in {"a", "b"}) \/ LineUnderWay)
      BY <2>1, <2>5 DEF LineInv, LineUnderWay
    <3>2. CASE owed /\ \A i \in DOMAIN out : out[i][1] \in {"a", "b"}
      <4>1. Next1 \in {"a", "b"} /\ \A i \in DOMAIN out' : out'[i][1] \in {"a", "b"}
        BY <2>2, <3>2
      <4>2. Typing
        BY <1>5, <2>5, <3>1, <4>1, ByField DEF Ignored, EmptyLine, Executes
      <4> QED
        BY <2>1, <3>2, <4>1, <4>2 DEF LineInv, Typing, Refuses
    <3>3. CASE LineUnderWay
      <4>1. Next1 # "$"
        BY <3>3, LineParts DEF LineUnderWay, Next1
      <4>2. CASE Executes
        <5>1. out' = <<>> /\ buffer' = <<>> /\ field' = "IDLE"
          BY <4>2, ExecutesLine DEF Executes, Refuses
        <5> QED
          BY <5>1 DEF LineInv
      <4>3. CASE EmptyLine
        <5>1. buffer = <<>> /\ buffer' = <<>> /\ field' = "IDLE" /\ Next1 = "newline"
          BY <4>3 DEF EmptyLine, Refuses
        <5>2. out' = <<>>
          BY <2>1, <3>3, <5>1, LineParts DEF LineUnderWay, Next1
        <5> QED
          BY <5>1, <5>2 DEF LineInv
      <4>4. CASE Typing
        <5>1. field' = "IDLE" /\ buffer' = Append(buffer, Next1) /\ Next1 # "newline"
          BY <4>4 DEF Typing, Refuses
        <5>2. \/ buffer = <<>> /\ out = Line
              \/ buffer = <<"a">> /\ out = <<Byte("b"), Byte("newline")>>
          BY <3>3, <5>1, LineParts DEF LineUnderWay, Next1
        <5>3. \/ buffer' = <<"a">> /\ out' = <<Byte("b"), Byte("newline")>>
              \/ buffer' = <<"a", "b">> /\ out' = <<Byte("newline")>>
          BY <2>1, <5>1, <5>2, LineParts DEF Next1
        <5> QED
          BY <5>1, <5>3 DEF LineInv
      <4> QED
        BY <1>5, <2>5, <3>1, <4>1, <4>2, <4>3, <4>4, ByField DEF Ignored
    <3> QED
      BY <3>1, <3>2, <3>3
  <2> QED
    BY <2>3, <2>4, <2>5
<1> QED
  BY <1>1, <1>2, <1>3, <1>4, <1>5, StepKinds

\* The terminal executes whole lines only, wherever a line or a frame broke off
\* and whatever was typed while the port spoke MSP (a timeout clears the
\* terminal's buffer on its way back from MSP).
THEOREM LinesAreWhole == Spec => WholeLines
<1>1. Init => LineInv /\ OutOK
  BY DEF Init, LineInv, OutOK
<1>2. LineInv /\ OutOK /\ [Next]_vars => LineInv' /\ OutOK'
  BY LineNext, OutNext
<1>3. LineInv /\ OutOK /\ [Next]_vars => [Executes => buffer = <<"a", "b">>]_vars
  BY ExecutesLine
<1>4. Spec => Init /\ [][Next]_vars
  BY DEF Spec
<1> QED
  BY <1>1, <1>2, <1>3, <1>4, PTL DEF WholeLines
-----------------------------------------------------------------------------
(***************************************************************************)
(* Frames are answered                                                     *)
(***************************************************************************)

\* A string that ends in a payload reaches behind its own position.
LEMMA RestLength ==
  ASSUME NEW s, NEW p \in Nat
  PROVE  /\ \A n \in Nat : Body(s, p, n) => Len(s) = p + n
         /\ LengthsV2(s, p) => Len(s) \in Nat /\ Len(s) >= p + 2
         /\ LengthsJumbo(s, p) => Len(s) \in Nat /\ Len(s) >= p + 2
         /\ RestV1(s, p) => Len(s) \in Nat /\ Len(s) >= p + 2
         /\ RestV2(s, p) => Len(s) \in Nat /\ Len(s) >= p + 5
<1>1. \A q \in Nat, n \in Nat : Body(s, q, n) => Len(s) = q + n
  BY DEF Body
<1>2. Over \in Nat
  BY ConsoleAssumption DEF Over
<1>3. ASSUME NEW q \in Nat
      PROVE  /\ LengthsV2(s, q) => Len(s) \in Nat /\ Len(s) >= q + 2
             /\ LengthsJumbo(s, q) => Len(s) \in Nat /\ Len(s) >= q + 2
  BY <1>1, <1>2 DEF LengthsV2, LengthsJumbo
<1>4. RestV1(s, p) => Len(s) \in Nat /\ Len(s) >= p + 2
  <2>1. \A n \in 0 .. Over : Body(s, p + 2, n) => Len(s) \in Nat /\ Len(s) >= p + 2
    BY <1>1, <1>2
  <2>2. LengthsJumbo(s, p + 2) => Len(s) \in Nat /\ Len(s) >= p + 2
    BY <1>3
  <2> QED
    BY <2>1, <2>2 DEF RestV1
<1>5. RestV2(s, p) => Len(s) \in Nat /\ Len(s) >= p + 5
  BY <1>3 DEF RestV2
<1> QED
  BY <1>1, <1>3, <1>4, <1>5

\* What is left of a payload moves up by one when a byte before it is read.
LEMMA ShiftBody ==
  ASSUME OutOK, Reads, NEW p \in Nat, p >= 2, NEW n \in Nat, Body(out, p, n)
  PROVE  Body(out', p - 1, n)
<1>1. Len(out) = p + n /\ Len(out') = Len(out) - 1 /\ \A i \in 1 .. Len(out) - 1 : out'[i] = out[i + 1]
  BY Read DEF Body
<1>2. out'[(p - 1) + n] = out[p + n]
  <2>1. (p - 1) + n \in 1 .. Len(out) - 1 /\ ((p - 1) + n) + 1 = p + n
    BY <1>1
  <2> QED
    BY <1>1, <2>1
<1>3. ASSUME NEW i \in p - 1 .. (p - 1) + n - 1
      PROVE  out'[i] = Byte("data")
  <2>1. i \in 1 .. Len(out) - 1 /\ i + 1 \in p .. p + n - 1
    BY <1>1
  <2> QED
    BY <1>1, <2>1 DEF Body
<1> QED
  BY <1>1, <1>2, <1>3 DEF Body

\* So do the fields before it; what is due may only cease to be.
LEMMA Shift ==
  ASSUME OutOK, Reads, NEW p \in Nat, p >= 2
  PROVE  /\ LengthsV2(out, p) => LengthsV2(out, p - 1)'
         /\ LengthsJumbo(out, p) => LengthsJumbo(out, p - 1)'
         /\ RestV1(out, p) => RestV1(out, p - 1)'
         /\ RestV2(out, p) => RestV2(out, p - 1)'
<1>1. Over \in Nat
  BY ConsoleAssumption DEF Over
<1>2. due' => due
  BY DEF Reads
<1>3. \A n : Sized(n) => Sized(n)'
  BY <1>2 DEF Sized
<1>4. \A i \in 1 .. Len(out) - 1 : out'[i] = out[i + 1]
  BY Read
<1>5. ASSUME NEW q \in Nat, q >= 2, Len(out) \in Nat, q <= Len(out)
      PROVE  out'[q - 1] = out[q]
  <2>1. q - 1 \in 1 .. Len(out) - 1 /\ (q - 1) + 1 = q
    BY <1>5
  <2> QED
    BY <1>4, <2>1
<1>6. ASSUME NEW q \in Nat, q >= 2, NEW n \in 0 .. Over, Body(out, q + 2, n)
      PROVE  /\ out'[q - 1] = out[q] /\ out'[(q - 1) + 1] = out[q + 1] /\ Body(out', (q - 1) + 2, n)
  <2>1. n \in Nat /\ Len(out) \in Nat /\ q + 1 <= Len(out) /\ q <= Len(out)
    <3>1. Len(out) = (q + 2) + n /\ n \in Nat
      BY <1>1, <1>6 DEF Body
    <3> QED
      BY <1>6, <3>1
  <2>2. Body(out', (q + 2) - 1, n)
    BY <1>6, <2>1, ShiftBody
  <2>3. (q + 2) - 1 = (q - 1) + 2 /\ (q + 1) - 1 = (q - 1) + 1
    OBVIOUS
  <2>4. out'[q - 1] = out[q] /\ out'[(q + 1) - 1] = out[q + 1]
    BY <1>5, <1>6, <2>1
  <2> QED
    BY <2>2, <2>3, <2>4
<1>7. ASSUME NEW q \in Nat, q >= 2, LengthsV2(out, q)
      PROVE  LengthsV2(out, q - 1)'
  <2>1. PICK n \in 0 .. Over : out[q] = Length(n) /\ out[q + 1] = Length(0) /\ Body(out, q + 2, n) /\ Sized(n)
    BY <1>7 DEF LengthsV2
  <2>2. out'[q - 1] = Length(n) /\ out'[(q - 1) + 1] = Length(0) /\ Body(out', (q - 1) + 2, n) /\ Sized(n)'
    BY <1>3, <1>6, <1>7, <2>1
  <2> QED
    BY <2>2 DEF LengthsV2
<1>8. ASSUME NEW q \in Nat, q >= 2, LengthsJumbo(out, q)
      PROVE  LengthsJumbo(out, q - 1)'
  <2>1. out[q] = Length(Over) /\ out[q + 1] = Length(0) /\ Body(out, q + 2, Over) /\ ~due /\ Over \in 0 .. Over
    BY <1>1, <1>8 DEF LengthsJumbo
  <2>2. out'[q - 1] = Length(Over) /\ out'[(q - 1) + 1] = Length(0) /\ Body(out', (q - 1) + 2, Over) /\ ~due'
    BY <1>2, <1>6, <1>8, <2>1
  <2> QED
    BY <2>2 DEF LengthsJumbo
<1>9. ASSUME RestV1(out, p)
      PROVE  RestV1(out, p - 1)'
  <2>1. CASE \E n \in 0 .. Over : out[p] = Length(n) /\ out[p + 1] = Byte("data") /\ Body(out, p + 2, n) /\ Sized(n)
    <3>1. PICK n \in 0 .. Over : out[p] = Length(n) /\ out[p + 1] = Byte("data") /\ Body(out, p + 2, n) /\ Sized(n)
      BY <2>1
    <3>2. out'[p - 1] = Length(n) /\ out'[(p - 1) + 1] = Byte("data") /\ Body(out', (p - 1) + 2, n) /\ Sized(n)'
      BY <1>3, <1>6, <3>1
    <3> QED
      BY <3>2 DEF RestV1
  <2>2. CASE out[p] = Length(Jumbo) /\ out[p + 1] = Byte("data") /\ LengthsJumbo(out, p + 2)
    <3>1. Len(out) \in Nat /\ p <= Len(out) /\ p + 1 <= Len(out) /\ p + 2 \in Nat
      BY <2>2, RestLength
    <3>2. (p + 2) - 1 = (p - 1) + 2 /\ (p + 1) - 1 = (p - 1) + 1 /\ p + 2 >= 2 /\ p + 1 \in Nat /\ p + 1 >= 2
      OBVIOUS
    <3>3. LengthsJumbo(out, (p - 1) + 2)'
      <4>1. LengthsJumbo(out, (p + 2) - 1)'
        BY <1>8, <2>2, <3>1, <3>2
      <4> QED
        BY <3>2, <4>1
    <3>4. out'[p - 1] = Length(Jumbo) /\ out'[(p - 1) + 1] = Byte("data")
      <4>1. out'[p - 1] = out[p] /\ out'[(p + 1) - 1] = out[p + 1]
        BY <1>5, <3>1, <3>2
      <4> QED
        BY <2>2, <3>2, <4>1
    <3> QED
      BY <3>3, <3>4 DEF RestV1
  <2> QED
    BY <1>9, <2>1, <2>2 DEF RestV1
<1>10. ASSUME RestV2(out, p)
       PROVE  RestV2(out, p - 1)'
  <2>1. Len(out) \in Nat /\ p + 5 <= Len(out)
    BY <1>10, RestLength
  <2>2. ASSUME NEW i \in p - 1 .. (p - 1) + 2
        PROVE  out'[i] = Byte("data")
    <3>1. i \in 1 .. Len(out) - 1 /\ i + 1 \in p .. p + 2
      BY <2>1
    <3> QED
      BY <1>4, <1>10, <3>1 DEF RestV2
  <2>3. LengthsV2(out, (p - 1) + 3)'
    <3>1. LengthsV2(out, p + 3) /\ p + 3 \in Nat /\ p + 3 >= 2 /\ (p + 3) - 1 = (p - 1) + 3
      BY <1>10 DEF RestV2
    <3>2. LengthsV2(out, (p + 3) - 1)'
      BY <1>7, <3>1
    <3> QED
      BY <3>1, <3>2
  <2> QED
    BY <2>2, <2>3 DEF RestV2
<1> QED
  BY <1>7, <1>8, <1>9, <1>10

\* While nothing is left to read, a parser in step is idle; and the last byte of
\* a frame that is due finds it at the checksum.
LEMMA InStepEnds ==
  ASSUME OutOK, InStep(out)
  PROVE  /\ out = <<>> => field = "IDLE"
         /\ due /\ Len(out) = 1 => field = "CHECKSUM" /\ aligned /\ out[1] = Byte("crc")
<1>1. Over \in Nat
  BY ConsoleAssumption DEF Over
<1>2. out = <<>> => Len(out) = 0
  OBVIOUS
<1>3. ASSUME field # "IDLE", Len(out) <= 1
      PROVE  field = "CHECKSUM" /\ aligned /\ out[1] = Byte("crc") /\ Len(out) = 1
  <2>1. \A p \in {1, 2, 3} : ~RestV1(out, p) /\ ~RestV2(out, p) /\ ~LengthsV2(out, p) /\ ~LengthsJumbo(out, p)
    BY <1>3, RestLength
  <2>2. \A n \in Nat : ~Body(out, 2, n)
    BY <1>3 DEF Body
  <2>3. Sized(expected) => expected \in Nat
    BY <1>1 DEF Sized
  <2>4. ~(field = "PAYLOAD" /\ got \in Nat /\ got < expected /\ Sized(expected) /\ Body(out, 1, expected - got))
    <3>1. ASSUME got \in Nat, got < expected, Sized(expected), Body(out, 1, expected - got)
          PROVE  FALSE
      BY <1>3, <2>3, <3>1 DEF Body
    <3> QED
      BY <3>1
  <2>5. field = "CHECKSUM" /\ Body(out, 1, 0) /\ aligned
    BY <1>1, <1>3, <2>1, <2>2, <2>3, <2>4 DEF InStep
  <2> QED
    BY <2>5 DEF Body
<1>4. ASSUME field = "IDLE", due
      PROVE  Len(out) # 1
  <2>1. Starts(out)
    BY <1>4 DEF InStep
  <2>2. RestV1(out, 4) \/ RestV2(out, 4)
    BY <2>1 DEF Starts
  <2>3. Len(out) \in Nat /\ Len(out) >= 4 + 2
    <3>1. RestV1(out, 4) => Len(out) \in Nat /\ Len(out) >= 4 + 2
      BY RestLength
    <3>2. RestV2(out, 4) => Len(out) \in Nat /\ Len(out) >= 4 + 5
      BY RestLength
    <3> QED
      BY <2>2, <3>1, <3>2
  <2>4. \A n \in Nat : n >= 4 + 2 => n # 1
    OBVIOUS
  <2> QED
    BY <2>3, <2>4, Zenon
<1> QED
  BY <1>2, <1>3, <1>4

\* A byte leaves the parser in step.
LEMMA InStepRead ==
  ASSUME OutOK, InStep(out), ReadByte
  PROVE  InStep(out)'
<1>1. Over \in Nat /\ MaxPayload \in Nat /\ Over = MaxPayload + 1 /\ Jumbo = MaxPayload + 2 /\ Jumbo \in Nat
  BY ConsoleAssumption DEF Over, Jumbo
<1>2. Reads /\ (due' => due) /\ (due' => Len(out) > 1)
  BY ReadStep DEF Reads
<1>3. /\ Len(out) \in Nat /\ Len(out) >= 1 /\ Len(out') = Len(out) - 1 /\ out' \in Seq(ByteSet)
      /\ Next1 = out[1][1] /\ Head(out) = out[1] /\ \A i \in 1 .. Len(out) - 1 : out'[i] = out[i + 1]
  BY <1>2, Read
<1>4. \A n : Sized(n) => Sized(n)'
  BY <1>2 DEF Sized
<1>5. \A n \in Nat : Body(out, 2, n) => Body(out', 1, n)
  BY <1>2, ShiftBody
<1>6. /\ LengthsV2(out, 2) => LengthsV2(out, 1)'
      /\ LengthsJumbo(out, 2) => LengthsJumbo(out, 1)'
      /\ RestV1(out, 2) => RestV1(out, 1)'
      /\ RestV2(out, 2) => RestV2(out, 1)'
  BY <1>2, Shift
<1>7. \A n \in Nat : Length(n)[1] = "len" /\ Length(n)[2] = n
  BY ByteType
<1>8. \A n \in Nat : Head(out) = Length(n) => Value(Head(out)) = {n}
  BY <1>7 DEF Value
<1>9. ASSUME NEW n \in Nat, Sized(n), Body(out, 2, n), field' = BodyOf(n), got' = 0, expected' = n, aligned'
      PROVE  InStep(out)'
  <2>1. Body(out', 1, n) /\ Sized(n)'
    BY <1>4, <1>5, <1>9
  <2>2. CASE n = 0
    BY <1>9, <2>1, <2>2 DEF InStep, BodyOf
  <2>3. CASE n > 0
    <3>1. field' = "PAYLOAD" /\ got' \in Nat /\ got' < expected' /\ Body(out', 1, expected' - got')
      BY <1>9, <2>1, <2>3 DEF BodyOf
    <3> QED
      BY <1>9, <2>1, <3>1 DEF InStep
  <2> QED
    BY <2>2, <2>3
<1>10. CASE field = "IDLE" /\ ~due /\ \A i \in DOMAIN out : out[i][1] # "$"
  <2>1. Next1 # "$"
    BY <1>3, <1>10
  <2>2. field' = "IDLE"
    BY <1>10, <2>1, ByField DEF Refuses
  <2>3. ~due' /\ \A i \in DOMAIN out' : out'[i][1] # "$"
    BY <1>2, <1>3, <1>10
  <2> QED
    BY <2>2, <2>3 DEF InStep
<1>11. CASE field = "IDLE" /\ out[1][1] = "$" /\ out[3][1] = "<" /\ Starts(out)
  <2>1. FrameStart
    BY <1>3, <1>11, ByField
  <2>2. RestV1(out, 4) \/ RestV2(out, 4)
    BY <1>11 DEF Starts
  <2>3. Len(out) >= 6
    BY <2>2, RestLength
  <2>4. out'[1] = out[2] /\ out'[2] = out[3]
    BY <1>3, <2>3
  <2>5. (RestV1(out, 4) => RestV1(out, 3)') /\ (RestV2(out, 4) => RestV2(out, 3)')
    BY <1>2, Shift
  <2>6. field' = "PROTO_IDENTIFIER" /\ aligned' = TRUE
    BY <2>1 DEF FrameStart
  <2> QED
    BY <1>11, <2>4, <2>5, <2>6 DEF InStep, Starts
<1>12. CASE aligned /\ field = "PROTO_IDENTIFIER" /\ out[2][1] = "<"
            /\ ((out[1][1] = "M" /\ RestV1(out, 3)) \/ (out[1][1] = "X" /\ RestV2(out, 3)))
  <2>1. Protocol
    BY <1>3, <1>12, ByField
  <2>2. Len(out) >= 5
    BY <1>12, RestLength
  <2>3. out'[1] = out[2]
    BY <1>3, <2>2
  <2>4. (RestV1(out, 3) => RestV1(out, 2)') /\ (RestV2(out, 3) => RestV2(out, 2)')
    BY <1>2, Shift
  <2>5. field' = (IF Next1 = "M" THEN "DIRECTION_V1" ELSE "DIRECTION_V2") /\ aligned' = aligned
    BY <2>1 DEF Protocol, Keeps
  <2> QED
    BY <1>3, <1>12, <2>3, <2>4, <2>5 DEF InStep
<1>13. CASE aligned /\ out[1][1] = "<" /\ ((field = "DIRECTION_V1" /\ RestV1(out, 2)) \/ (field = "DIRECTION_V2" /\ RestV2(out, 2)))
  <2>1. Direction
    BY <1>3, <1>13, ByField
  <2>2. field' = (IF field = "DIRECTION_V1" THEN "LENGTH_V1" ELSE "FLAG_V2") /\ aligned' = aligned
    BY <2>1 DEF Direction
  <2> QED
    BY <1>6, <1>13, <2>2 DEF InStep
<1>14. CASE aligned /\ field = "LENGTH_V1" /\ RestV1(out, 1)
  <2>1. LengthV1
    BY <1>14, ByField
  <2>2. aligned' = aligned
    BY <2>1 DEF LengthV1, Keeps
  <2>3. CASE \E n \in 0 .. Over : out[1] = Length(n) /\ out[1 + 1] = Byte("data") /\ Body(out, 1 + 2, n) /\ Sized(n)
    <3>1. PICK n \in 0 .. Over : out[1] = Length(n) /\ out[2] = Byte("data") /\ Body(out, 3, n) /\ Sized(n)
      BY <2>3
    <3>2. n \in Nat /\ n # Jumbo
      BY <1>1
    <3>3. expected' = n /\ field' = "CODE_V1"
      BY <1>3, <1>8, <2>1, <3>1, <3>2 DEF LengthV1
    <3>4. Body(out', 2, n)
      <4>1. Body(out', 3 - 1, n)
        BY <1>2, <3>1, <3>2, ShiftBody
      <4> QED
        BY <4>1
    <3>5. out'[1] = out[2]
      <4>1. Len(out) = 3 + n
        BY <3>1 DEF Body
      <4> QED
        BY <1>3, <3>2, <4>1
    <3> QED
      BY <1>4, <1>14, <2>2, <3>1, <3>3, <3>4, <3>5 DEF InStep
  <2>4. CASE out[1] = Length(Jumbo) /\ out[1 + 1] = Byte("data") /\ LengthsJumbo(out, 1 + 2)
    <3>1. out[1] = Length(Jumbo) /\ out[2] = Byte("data") /\ LengthsJumbo(out, 3)
      BY <2>4
    <3>2. expected' = Jumbo /\ field' = "CODE_JUMBO_V1"
      BY <1>1, <1>3, <1>8, <2>1, <3>1 DEF LengthV1
    <3>3. LengthsJumbo(out, 2)'
      <4>1. LengthsJumbo(out, 3 - 1)'
        BY <1>2, <3>1, Shift
      <4> QED
        BY <4>1
    <3>4. out'[1] = out[2]
      <4>1. Len(out) >= 5
        BY <3>1, RestLength
      <4> QED
        BY <1>3, <4>1
    <3> QED
      BY <1>14, <2>2, <3>1, <3>2, <3>3, <3>4 DEF InStep
  <2> QED
    BY <1>14, <2>3, <2>4 DEF RestV1
<1>15. CASE aligned /\ field = "CODE_V1" /\ out[1] = Byte("data") /\ Body(out, 2, expected) /\ Sized(expected)
  <2>1. CodeV1
    BY <1>15, ByField
  <2>2. got' = 0 /\ field' = BodyOf(expected) /\ expected' = expected /\ aligned' = aligned
    BY <2>1 DEF CodeV1, Keeps
  <2>3. expected \in Nat
    BY <1>1, <1>15 DEF Sized
  <2> QED
    BY <1>9, <1>15, <2>2, <2>3
<1>16. CASE aligned /\ field = "CODE_JUMBO_V1" /\ out[1] = Byte("data") /\ LengthsJumbo(out, 2)
  <2>1. field' = "LENGTH_JUMBO_LOW" /\ aligned' = aligned
    BY <1>16, ByField DEF CountedByte, Counted, Following, Keeps
  <2> QED
    BY <1>6, <1>16, <2>1 DEF InStep
<1>17. CASE aligned /\ field = "LENGTH_JUMBO_LOW" /\ LengthsJumbo(out, 1)
  <2>1. LengthLow
    BY <1>17, ByField
  <2>2. field' = "LENGTH_JUMBO_HIGH" /\ aligned' = aligned
    BY <1>17, <2>1 DEF LengthLow, Following, Keeps
  <2>3. out[1] = Length(Over) /\ out[2] = Length(0) /\ Body(out, 3, Over) /\ ~due
    BY <1>17 DEF LengthsJumbo
  <2>4. expected' = Over
    BY <1>1, <1>3, <1>8, <2>1, <2>3 DEF LengthLow, Capped
  <2>5. Body(out', 2, Over) /\ out'[1] = out[2]
    <3>1. Body(out', 3 - 1, Over)
      BY <1>1, <1>2, <2>3, ShiftBody
    <3>2. Len(out) = 3 + Over
      BY <2>3 DEF Body
    <3> QED
      BY <1>1, <1>3, <3>1, <3>2
  <2> QED
    BY <1>2, <1>17, <2>2, <2>3, <2>4, <2>5 DEF InStep
<1>18. ASSUME field \in {"LENGTH_JUMBO_HIGH", "LENGTH_V2_HIGH"}, out[1] = Length(0), expected \in 0 .. Over
       PROVE  /\ got' = 0 /\ expected' = expected /\ aligned' = aligned
              /\ field' = IF field = "LENGTH_JUMBO_HIGH" THEN "PAYLOAD" ELSE BodyOf(expected)
  <2>1. LengthHigh
    BY <1>18, ByField
  <2>2. Value(Head(out)) = {0}
    BY <1>3, <1>8, <1>18
  <2>3. expected + 0 * Over = expected /\ Capped(expected) = expected
    BY <1>1, <1>18 DEF Capped
  <2>4. expected' = expected
    BY <2>1, <2>2, <2>3 DEF LengthHigh
  <2> QED
    BY <2>1, <2>4 DEF LengthHigh, Keeps
<1>19. CASE aligned /\ field = "LENGTH_JUMBO_HIGH" /\ out[1] = Length(0) /\ Body(out, 2, expected) /\ expected = Over /\ ~due
  <2>1. got' = 0 /\ expected' = Over /\ aligned' = aligned /\ field' = "PAYLOAD"
    BY <1>1, <1>18, <1>19
  <2>2. field' = BodyOf(Over) /\ Sized(Over)
    BY <1>1, <1>19, <2>1 DEF BodyOf, Sized
  <2> QED
    BY <1>1, <1>9, <1>19, <2>1, <2>2
<1>20. CASE aligned /\ field = "FLAG_V2" /\ RestV2(out, 1)
  <2>1. field' = "CODE_V2_LOW" /\ aligned' = aligned
    BY <1>20, ByField DEF CountedByte, Counted, Following, Keeps
  <2>2. out[2] = Byte("data") /\ out[3] = Byte("data") /\ LengthsV2(out, 4)
    BY <1>20 DEF RestV2
  <2>3. LengthsV2(out, 3)'
    <3>1. LengthsV2(out, 4 - 1)'
      BY <1>2, <2>2, Shift
    <3> QED
      BY <3>1
  <2>4. out'[1] = out[2] /\ out'[2] = out[3]
    <3>1. Len(out) >= 6
      BY <2>2, RestLength
    <3> QED
      BY <1>3, <3>1
  <2> QED
    BY <1>20, <2>1, <2>2, <2>3, <2>4 DEF InStep
<1>21. CASE aligned /\ field = "CODE_V2_LOW" /\ out[1] = Byte("data") /\ out[2] = Byte("data") /\ LengthsV2(out, 3)
  <2>1. field' = "CODE_V2_HIGH" /\ aligned' = aligned
    BY <1>21, ByField DEF CountedByte, Counted, Following, Keeps
  <2>2. LengthsV2(out, 2)'
    <3>1. LengthsV2(out, 3 - 1)'
      BY <1>2, <1>21, Shift
    <3> QED
      BY <3>1
  <2>3. out'[1] = out[2]
    <3>1. Len(out) >= 5
      BY <1>21, RestLength
    <3> QED
      BY <1>3, <3>1
  <2> QED
    BY <1>21, <2>1, <2>2, <2>3 DEF InStep
<1>22. CASE aligned /\ field = "CODE_V2_HIGH" /\ out[1] = Byte("data") /\ LengthsV2(out, 2)
  <2>1. field' = "LENGTH_V2_LOW" /\ aligned' = aligned
    BY <1>22, ByField DEF CountedByte, Counted, Following, Keeps
  <2> QED
    BY <1>6, <1>22, <2>1 DEF InStep
<1>23. CASE aligned /\ field = "LENGTH_V2_LOW" /\ LengthsV2(out, 1)
  <2>1. LengthLow
    BY <1>23, ByField
  <2>2. field' = "LENGTH_V2_HIGH" /\ aligned' = aligned
    BY <1>23, <2>1 DEF LengthLow, Following, Keeps
  <2>3. PICK n \in 0 .. Over : out[1] = Length(n) /\ out[2] = Length(0) /\ Body(out, 3, n) /\ Sized(n)
    BY <1>23 DEF LengthsV2
  <2>4. n \in Nat /\ Capped(n) = n
    BY <1>1 DEF Capped
  <2>5. expected' = n
    BY <1>3, <1>8, <2>1, <2>3, <2>4 DEF LengthLow
  <2>6. Body(out', 2, n) /\ out'[1] = out[2]
    <3>1. Body(out', 3 - 1, n)
      BY <1>2, <2>3, <2>4, ShiftBody
    <3>2. Len(out) = 3 + n
      BY <2>3 DEF Body
    <3> QED
      BY <1>3, <2>4, <3>1, <3>2
  <2> QED
    BY <1>4, <1>23, <2>2, <2>3, <2>5, <2>6 DEF InStep
<1>24. CASE aligned /\ field = "LENGTH_V2_HIGH" /\ out[1] = Length(0) /\ Body(out, 2, expected) /\ Sized(expected)
  <2>1. expected \in 0 .. Over /\ expected \in Nat
    BY <1>1, <1>24 DEF Sized
  <2>2. got' = 0 /\ expected' = expected /\ aligned' = aligned /\ field' = BodyOf(expected)
    BY <1>18, <1>24, <2>1
  <2> QED
    BY <1>9, <1>24, <2>1, <2>2
<1>25. CASE aligned /\ field = "PAYLOAD" /\ got \in Nat /\ got < expected /\ Sized(expected) /\ Body(out, 1, expected - got)
  <2> DEFINE left == expected - got
  <2>1. expected \in 0 .. Over /\ expected \in Nat /\ left \in Nat /\ left >= 1
    BY <1>1, <1>25 DEF Sized
  <2>2. /\ Len(out) = 1 + left /\ out[1 + left] = Byte("crc")
        /\ \A i \in 1 .. 1 + left - 1 : out[i] = Byte("data")
    BY <1>25 DEF Body
  <2>3. Body(out', 1, left - 1)
    <3>1. out'[1 + (left - 1)] = Byte("crc") /\ Len(out') = 1 + (left - 1)
      BY <1>3, <2>1, <2>2
    <3>2. ASSUME NEW i \in 1 .. 1 + (left - 1) - 1
          PROVE  out'[i] = Byte("data")
      <4> HIDE DEF left
      <4>1. i \in 1 .. Len(out) - 1 /\ i + 1 \in 1 .. 1 + left - 1
        BY <2>1, <2>2
      <4> QED
        BY <1>3, <2>2, <4>1
    <3> QED
      BY <3>1, <3>2 DEF Body
  <2>4. CASE Fits
    <3>1. /\ got' = got + 1 /\ expected' = expected /\ aligned' = aligned
          /\ field' = IF got + 1 < expected THEN "PAYLOAD" ELSE "CHECKSUM"
      BY <1>25, <2>4, ByField DEF Payload, Keeps
    <3>2. CASE got + 1 < expected
      <4>1. expected' - got' = left - 1 /\ got' \in Nat /\ got' < expected'
        BY <1>25, <2>1, <3>1, <3>2
      <4> QED
        BY <1>4, <1>25, <2>3, <3>1, <3>2, <4>1 DEF InStep
    <3>3. CASE ~(got + 1 < expected)
      <4>1. left - 1 = 0
        BY <1>25, <2>1, <3>3
      <4> QED
        BY <1>25, <2>3, <3>1, <3>3, <4>1 DEF InStep
    <3> QED
      BY <3>2, <3>3
  <2>5. CASE ~Fits
    <3>1. field' = "IDLE"
      BY <1>25, <2>5, ByField DEF PayloadTooLong
    <3>2. got = MaxPayload /\ expected = Over /\ left = 1
      BY <1>1, <1>25, <2>1, <2>5 DEF Fits
    <3>3. ~due'
      BY <1>1, <1>2, <1>25, <3>2 DEF Sized
    <3>4. Len(out') = 1 /\ out'[1] = Byte("crc") /\ DOMAIN out' = {1}
      <4>1. Len(out) = 2 /\ out[2] = Byte("crc")
        <5> HIDE DEF left
        <5> QED
          BY <2>2, <3>2
      <4>2. Len(out') = 1 /\ out'[1] = out[2]
        BY <1>3, <4>1
      <4> QED
        BY <1>3, <4>1, <4>2
    <3>5. Byte("crc")[1] # "$"
      BY DEF Byte
    <3> QED
      BY <3>1, <3>3, <3>4, <3>5 DEF InStep
  <2> QED
    BY <2>4, <2>5
<1>26. CASE aligned /\ field = "CHECKSUM" /\ Body(out, 1, 0)
  <2>1. Len(out) = 1 /\ out[1] = Byte("crc")
    BY <1>26 DEF Body
  <2>2. Byte("crc")[1] = "crc"
    BY DEF Byte
  <2>3. MspCommand
    BY <1>3, <1>26, <2>1, <2>2, ByField
  <2>4. field' = "IDLE"
    BY <2>3 DEF MspCommand
  <2>5. ~due' /\ DOMAIN out' = {}
    BY <1>2, <1>3, <2>1
  <2> QED
    BY <2>4, <2>5 DEF InStep
<1> QED
  BY <1>10, <1>11, <1>12, <1>13, <1>14, <1>15, <1>16, <1>17, <1>19, <1>20, <1>21, <1>22, <1>23, <1>24, <1>25, <1>26 DEF InStep

\* The parser's invariant is inductive: a frame that breaks off suspends it
\* until the next silence.
LEMMA StepNext ==
  ASSUME StepInv, OutOK, [Next]_vars
  PROVE  StepInv'
<1>1. CASE Reset
  <2>1. ~due' /\ field' = "IDLE" /\ DOMAIN out' = {}
    BY <1>1 DEF Reset
  <2> QED
    BY <2>1 DEF StepInv, InStep
<1>2. CASE Timeout
  <2>1. out = <<>> /\ out' = out /\ due' = due /\ ~due /\ field' = "IDLE" /\ DOMAIN out' = {}
    BY <1>2 DEF Timeout, StepInv, Restarted
  <2> QED
    BY <2>1 DEF StepInv, InStep
<1>3. CASE UNCHANGED <<parser, console, host>>
  <2>1. UNCHANGED <<field, expected, got, out, due, aligned, clean>>
    BY <1>3 DEF parser, host
  <2>2. InStep(out) => InStep(out)'
    BY <2>1 DEF InStep, Starts, RestV1, RestV2, LengthsV2, LengthsJumbo, Sized, Body
  <2> QED
    BY <2>1, <2>2 DEF StepInv
<1>4. CASE Host
  <2>1. out = <<>> /\ UNCHANGED <<field, expected, got>>
    BY <1>4 DEF Host, TypeLine, HalfLine, SendFrame, SendLong, BreakFrame, Sends, parser
  <2>2. clean => field = "IDLE"
    BY <2>1, InStepEnds DEF StepInv
  <2>3. CASE SendLong \/ BreakFrame
    BY <2>3 DEF SendLong, BreakFrame, StepInv
  <2>4. CASE TypeLine \/ HalfLine
    <3>1. ~due' /\ clean' = clean
      BY <2>4 DEF TypeLine, HalfLine
    <3>2. \A i \in DOMAIN out' : out'[i][1] # "$"
      <4>1. Byte("a")[1] = "a" /\ Byte("b")[1] = "b" /\ Byte("newline")[1] = "newline"
        BY DEF Byte
      <4>2. CASE out' \in {Line, <<Byte("newline")>>}
        BY <4>1, <4>2 DEF Line
      <4>3. CASE \A i \in DOMAIN out' : out'[i][1] \in {"a", "b"}
        BY <4>3
      <4>4. CASE Len(out') >= 3 /\ out'[1][1] = "$" /\ (SendFrame \/ SendLong \/ BreakFrame)
        <5>1. out' \in {Line, <<Byte("newline")>>} \/ \E n \in 1 .. 2 : out' = SubSeq(Line, 1, n)
          BY <2>4 DEF TypeLine, HalfLine
        <5>2. Line \in Seq(ByteSet) /\ Line[1][1] = "a" /\ Len(Line) = 3 /\ <<Byte("newline")>>[1][1] = "newline"
          BY <4>1, Bytes DEF Line
        <5>3. \A n \in 1 .. 2 : SubSeq(Line, 1, n)[1] = Line[1]
          BY <5>2
        <5>4. out'[1][1] \in {"a", "newline"}
          BY <5>1, <5>2, <5>3
        <5> QED
          BY <4>4, <5>4
      <4> QED
        BY <1>4, <4>2, <4>3, <4>4, HostBytes
    <3> QED
      BY <2>1, <2>2, <3>1, <3>2 DEF StepInv, InStep
  <2>5. CASE SendFrame
    <3>1. PICK f \in Frames : out' = Frame(f[1], f[2]) /\ due' = (clean /\ f[2] <= MaxPayload)
      BY <2>5 DEF SendFrame
    <3>2. clean' = clean /\ out' # <<>>
      <4>1. Len(out') >= 3 \/ out' \in {Line, <<Byte("newline")>>} \/ HalfLine
        BY <1>4, HostBytes
      <4>2. out'[1][1] = "$" /\ out' \in Seq(ByteSet)
        BY <3>1, FrameLayout
      <4>3. Body(out', 6, f[2]) \/ Body(out', 8, f[2]) \/ Body(out', 9, f[2])
        BY <3>1, FrameLayout, FrameKinds
      <4>4. Len(out') >= 6
        BY <4>3, FrameKinds DEF Body
      <4> QED
        BY <2>5, <4>4 DEF SendFrame
    <3>3. Starts(out)'
      <4>1. f[2] \in 0 .. Over /\ Sized(f[2])' /\ Over > MaxPayload
        <5>1. f[2] \in 0 .. Over /\ MaxPayload \in Nat /\ Over = MaxPayload + 1
          BY FrameKinds, ConsoleAssumption DEF Over
        <5>2. due' => f[2] <= MaxPayload
          BY <3>1
        <5> QED
          BY <5>1, <5>2 DEF Sized
      <4>2. CASE f[1] = "V1"
        <5>1. /\ out'[2][1] = "M" /\ out'[4] = Length(f[2]) /\ out'[4 + 1] = Byte("data")
              /\ Body(out', 4 + 2, f[2])
          BY <3>1, <4>2, FrameLayout
        <5> QED
          BY <4>1, <5>1 DEF Starts, RestV1
      <4>3. CASE f[1] = "jumbo"
        <5>1. /\ out'[2][1] = "M" /\ out'[4] = Length(Jumbo) /\ out'[4 + 1] = Byte("data")
              /\ out'[4 + 2] = Length(f[2]) /\ out'[(4 + 2) + 1] = Length(0) /\ Body(out', (4 + 2) + 2, f[2])
          BY <3>1, <4>3, FrameLayout
        <5>2. f[2] = Over
          BY <4>3, FrameKinds
        <5>3. ~due'
          <6>1. ~(Over <= MaxPayload)
            BY ConsoleAssumption DEF Over
          <6> QED
            BY <3>1, <5>2, <6>1
        <5>4. LengthsJumbo(out, 4 + 2)'
          BY <5>1, <5>2, <5>3 DEF LengthsJumbo
        <5> QED
          BY <5>1, <5>4 DEF Starts, RestV1
      <4>4. CASE f[1] = "V2"
        <5>1. /\ out'[2][1] = "X" /\ out'[4] = Byte("data") /\ out'[5] = Byte("data") /\ out'[6] = Byte("data")
              /\ out'[4 + 3] = Length(f[2]) /\ out'[(4 + 3) + 1] = Length(0) /\ Body(out', (4 + 3) + 2, f[2])
          BY <3>1, <4>4, FrameLayout
        <5>2. LengthsV2(out, 4 + 3)'
          BY <4>1, <5>1 DEF LengthsV2
        <5>3. \A i \in 4 .. 4 + 2 : out'[i] = Byte("data")
          BY <5>1
        <5> QED
          BY <5>1, <5>2, <5>3 DEF Starts, RestV2
      <4> QED
        BY <4>2, <4>3, <4>4, FrameKinds
    <3>4. out'[1][1] = "$" /\ out'[3][1] = "<"
      BY <3>1, FrameLayout
    <3> QED
      BY <2>1, <2>2, <3>1, <3>2, <3>3, <3>4 DEF StepInv, InStep
  <2> QED
    BY <1>4, <2>3, <2>4, <2>5 DEF Host
<1>5. CASE ReadByte
  <2>1. clean' = clean /\ due' = (due /\ Len(out) > 1)
    BY <1>5, ReadStep DEF Reads
  <2>2. clean => InStep(out)'
    BY <1>5, InStepRead DEF StepInv
  <2>3. due' => out' # <<>>
    <3>1. Len(out') = Len(out) - 1 /\ Len(out) \in Nat
      BY <1>5, ReadStep, Read
    <3>2. due' => Len(out') >= 1
      <4>1. due' => Len(out) > 1
        BY <2>1, Zenon
      <4>2. Len(out) > 1 => Len(out') >= 1
        BY <3>1
      <4> QED
        BY <4>1, <4>2, Zenon
    <3>3. out' = <<>> => Len(out') = 0
      OBVIOUS
    <3> QED
      BY <3>2, <3>3
  <2> QED
    BY <2>1, <2>2, <2>3 DEF StepInv
<1> QED
  BY <1>1, <1>2, <1>3, <1>4, <1>5, StepKinds

\* A frame that fits is carried out when its last byte is read, for every size
\* of payload that the parser accepts, whatever was typed before it.
THEOREM FramesAreAnswered == Spec => FramesAnswered
<1>1. Init => StepInv /\ OutOK
  <2> SUFFICES ASSUME Init
               PROVE  StepInv /\ OutOK
    OBVIOUS
  <2>1. field = "IDLE" /\ ~due /\ out = <<>> /\ DOMAIN out = {}
    BY DEF Init
  <2> QED
    BY <2>1 DEF StepInv, InStep, OutOK
<1>2. StepInv /\ OutOK /\ [Next]_vars => StepInv' /\ OutOK'
  BY StepNext, OutNext
<1>3. ASSUME StepInv, OutOK, [Next]_vars, due, Len(out) = 1, out' = <<>>
      PROVE  MspCommand \/ setup' = "begin"
  <2>1. field = "CHECKSUM" /\ aligned /\ out[1] = Byte("crc") /\ out # <<>>
    BY <1>3, InStepEnds DEF StepInv
  <2>2. CASE ReadByte
    <3>1. Next1 = out[1][1] /\ Byte("crc")[1] = "crc"
      BY <1>3, <2>2, ReadStep, Read DEF Byte
    <3> QED
      BY <2>1, <2>2, <3>1, ByField
  <2>3. CASE Reset
    BY <2>3 DEF Reset
  <2>4. CASE Host
    BY <2>1, <2>4, HostBytes
  <2>5. CASE Timeout \/ UNCHANGED <<parser, console, host>>
    BY <1>3, <2>1, <2>5 DEF Timeout, host
  <2> QED
    BY <1>3, <2>2, <2>3, <2>4, <2>5, StepKinds
<1>4. StepInv /\ OutOK /\ [Next]_vars =>
        [due /\ Len(out) = 1 /\ out' = <<>> => MspCommand \/ setup' = "begin"]_vars
  BY <1>3
<1>5. Spec => Init /\ [][Next]_vars
  BY DEF Spec
<1> QED
  BY <1>1, <1>2, <1>4, <1>5, PTL DEF FramesAnswered
=============================================================================
