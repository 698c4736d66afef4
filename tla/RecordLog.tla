----------------------------- MODULE RecordLog -----------------------------
(***************************************************************************)
(* What the flight recorder promises to those who log and read: a log in   *)
(* the order of its numbers, without sectors, offsets or batches.  Numbers *)
(* wait in RAM, are stored oldest first but for the note that the log was  *)
(* cleared, make room oldest first, and a reset loses at most what waits.  *)
(***************************************************************************)
EXTENDS Integers

VARIABLES
  mode,      \* "off", "on", "clearing" the whole log, or "cleared"
  stored,    \* numbers in flash
  waiting,   \* numbers given, and not in flash yet
  next,      \* the number of the next record
  sessions,  \* numbers that begin a session
  note       \* the number that says that the log was cleared

vars == <<mode, stored, waiting, next, sessions, note>>

\* Some of the numbers, and none of the others is older
OldestOf(some, all) == some \subseteq all /\ \A m \in some, n \in all \ some : m < n

\* ... but for the note, which may go before its turn and after it
InTurn(some, all) ==
  some \subseteq all /\ \A m \in some, n \in all \ some : m < n \/ note \in {m, n}

\* Numbers go on behind the newest that survived; others are used again
Newest == CHOOSE n \in stored : \A m \in stored : m <= n
Header == IF stored = {} THEN 0 ELSE Newest + 1
None   == -1

Init ==
  /\ mode = "off" /\ stored = {} /\ waiting = {} /\ next = 0
  /\ sessions = {} /\ note = None

SwitchOn ==
  /\ mode = "off" /\ mode' = "on"
  /\ waiting' = {Header} /\ next' = Header + 1
  /\ sessions' = {h \in sessions : h < Header} \cup {Header}
  /\ note' = IF note < Header THEN note ELSE None
  /\ UNCHANGED stored

Give ==
  /\ mode # "off"
  /\ next' = next + 1 /\ waiting' = waiting \cup {next}
  /\ UNCHANGED <<mode, stored, sessions, note>>

\* There may be no room for it; its number is used all the same
Refuse ==
  /\ mode # "off"
  /\ \E n \in waiting : waiting' = waiting \ {n}
  /\ UNCHANGED <<mode, stored, next, sessions, note>>

Store ==
  /\ mode = "on"
  /\ \E first \in SUBSET waiting :
       /\ InTurn(first, waiting)
       /\ stored' = stored \cup first /\ waiting' = waiting \ first
  /\ UNCHANGED <<mode, next, sessions, note>>

MakeRoom ==
  /\ mode = "on"
  /\ \E old \in SUBSET stored : OldestOf(old, stored) /\ stored' = stored \ old
  /\ UNCHANGED <<mode, waiting, next, sessions, note>>

\* A flash that cannot be erased
GiveUp ==
  /\ mode = "on"
  /\ \E first \in SUBSET waiting :
       /\ OldestOf(first, waiting)
       /\ waiting' = waiting \ first /\ sessions' = sessions \ first
  /\ UNCHANGED <<mode, stored, next, note>>

BeginClearing ==
  /\ mode = "on" /\ mode' = "clearing"
  /\ UNCHANGED <<stored, waiting, next, sessions, note>>

\* In any order; a session that loses its header goes with the one before it
Clear ==
  /\ mode = "clearing"
  /\ stored' \subseteq stored /\ sessions' = sessions \ (stored \ stored')
  /\ UNCHANGED <<mode, waiting, next, note>>

\* Of what waits, only what is being given stays
EndClearing ==
  /\ mode = "clearing" /\ mode' = "cleared"
  /\ stored = {} /\ stored' = {}
  /\ waiting' \subseteq waiting /\ sessions' = {} /\ note' = None
  /\ UNCHANGED next

\* The log begins again with the record that says so
Announce ==
  /\ mode = "cleared" /\ mode' = "on"
  /\ waiting' = waiting \cup {next} /\ note' = next /\ next' = next + 1
  /\ UNCHANGED <<stored, sessions>>

SwitchOff ==
  /\ mode # "off" /\ mode' = "off"
  /\ \E first \in SUBSET waiting :
       /\ InTurn(first, waiting) /\ stored' = stored \cup first
       /\ mode # "on" => first = {}
  /\ waiting' = {} /\ next' = 0
  /\ UNCHANGED <<sessions, note>>

Next ==
  \/ SwitchOn \/ Give \/ Refuse \/ Store \/ MakeRoom \/ GiveUp
  \/ BeginClearing \/ Clear \/ EndClearing \/ Announce \/ SwitchOff

Spec == Init /\ [][Next]_vars
=============================================================================
