--------------------------- MODULE FlightRecorder ---------------------------
(***************************************************************************)
(* The flight data recorder of components/logging/src/flight_recorder.cpp: *)
(* a ring of records in flash, written by one task from a queue, with      *)
(* sectors erased ahead of the write pointer, and found again by a scan    *)
(* after a reset at any point.                                             *)
(*                                                                         *)
(* A record is its sequence number; a slot holds a record, or is erased,   *)
(* or holds what an interrupted program has left.  Offsets count slots.    *)
(***************************************************************************)
EXTENDS Integers, Sequences, FiniteSets, Functions

CONSTANTS
  Sectors,        \* sectors of the partition
  PerSector,      \* records per sector
  BlockSectors,   \* sectors that one step of the full erase covers
  Batch,          \* records per flash program
  QueueLen,       \* length of the queue between producers and writer
  Overtakes,      \* records that get ahead of "LOG ERASED" at most
  MarginTarget,   \* slots kept erased ahead while on the pad
  MaxSeq,         \* bound of the model: sequence numbers used
  MaxListed,      \* sessions that list_sessions and dump_session remember
  Watched         \* the numbers whose fate EverythingIsFlushed follows

ASSUME RecorderAssumption ==
  /\ {Sectors, PerSector, BlockSectors, Batch, QueueLen, MarginTarget, MaxSeq,
     MaxListed, Overtakes}
       \subseteq Nat \ {0}
  /\ Watched \subseteq 0 .. MaxSeq
  /\ Sectors > 1 /\ Batch <= (Sectors - 1) * PerSector /\ Overtakes < PerSector

VARIABLES
  flash,      \* contents of the partition
  writeOff,   \* write_off_
  margin,     \* margin_
  eraseNext,  \* erase_next_
  seq,        \* seq_
  heads,      \* the numbers of the session headers (T_SESSION)
  note,       \* the number of the record "LOG ERASED"
  pending,    \* the number that nav_task has taken and not queued yet
  queue,      \* q_
  buf,        \* batch of the writer task
  task,       \* writer: "off", "loop", in "flush", "erasing" everything, or done
              \* with that ("cleared") and about to queue its note ("noting")
  block,      \* ... next block of that erase
  eraseReq,   \* erase_all_req_
  flight      \* flight_active_

ring == <<flash, writeOff, margin, eraseNext>>
numbers == <<seq, heads, note>>
vars == <<ring, numbers, pending, queue, buf, task, block, eraseReq, flight>>

Cap     == Sectors * PerSector
Slots   == 0 .. Cap - 1
Numbers == 0 .. MaxSeq
Erased  == -1
Torn    == -2
NoNumber == -1
Smaller(a, b) == IF a < b THEN a ELSE b

\* Nothing that uses a number begins at the bound of the model
InBound == seq < MaxSeq

Wrap(n)      == n % Cap
Start(s)     == s * PerSector

(***************************************************************************)
(* init(): where to go on writing, from what the flash holds               *)
(***************************************************************************)
LooksErasedOrTorn(s) == flash[Start(s)] \in {Erased, Torn}   \* mutant
LooksErased(s) == flash[Start(s)] = Erased
Written        == {s \in 0 .. Sectors - 1 : flash[Start(s)] \in Numbers}

\* The sector with the newest first record, and its first free slot
OldestSector == CHOOSE s \in Written : \A u \in Written : flash[Start(s)] <= flash[Start(u)]   \* mutant
NewestSector == CHOOSE s \in Written : \A u \in Written : flash[Start(u)] <= flash[Start(s)]
Used(s) == CHOOSE k \in 0 .. PerSector :
             /\ \A i \in 0 .. k - 1 : flash[Start(s) + i] # Erased
             /\ k < PerSector => flash[Start(s) + k] = Erased
FirstSeq(s)  == flash[Start(s)]   \* mutant: the later records are not looked at
LastSeq(s)   == CHOOSE n \in {flash[Start(s) + i] : i \in 0 .. Used(s) - 1} :
                  \A i \in 0 .. Used(s) - 1 : flash[Start(s) + i] <= n

FoundOff == IF Written = {} THEN 0 ELSE Wrap(Start(NewestSector) + Used(NewestSector))
FoundSeq == IF Written = {} THEN 0 ELSE LastSeq(NewestSector) + 1

\* The rest of a sector begun, then the run of sectors that look erased
RestOfSector(off) == (PerSector - (off % PerSector)) % PerSector
ErasedRun(first) ==
  CHOOSE n \in 0 .. Sectors - 1 :
    /\ \A i \in 0 .. n - 1 : LooksErased(((first \div PerSector) + i) % Sectors)
    /\ n < Sectors - 1 => ~LooksErased(((first \div PerSector) + n) % Sectors)
FoundMargin == RestOfSector(FoundOff)
               + ErasedRun(FoundOff + RestOfSector(FoundOff)) * PerSector

\* The queue starts with the session header
Boot ==
  /\ task = "off"
  /\ task' = "loop"
  /\ writeOff' = FoundOff /\ margin' = FoundMargin
  /\ eraseNext' = Wrap(FoundOff + FoundMargin)
  /\ seq' = FoundSeq + 1 /\ queue' = <<FoundSeq>> /\ buf' = <<>>
  /\ heads' = {h \in heads : h < FoundSeq} \cup {FoundSeq}
  /\ note' = IF note < FoundSeq THEN note ELSE NoNumber
  /\ UNCHANGED <<flash, pending, block, eraseReq, flight>>

Init ==
  /\ flash = [i \in Slots |-> Erased]
  /\ writeOff = 0 /\ margin = 0 /\ eraseNext = 0
  /\ seq = 0 /\ heads = {} /\ note = NoNumber /\ pending = NoNumber
  /\ queue = <<>> /\ buf = <<>>
  /\ task = "off" /\ block = 0 /\ eraseReq = FALSE /\ flight = FALSE

(***************************************************************************)
(* Producers and commands                                                  *)
(***************************************************************************)
\* push(), by nav_task: it takes the next number and then queues the record.  The
\* writer, on the other core, does so with its note; it is not held up for the
\* time of more than Overtakes records in between.
TakeNumber ==
  /\ task # "off" /\ pending = NoNumber /\ seq < MaxSeq - 1
  /\ task \in {"cleared", "noting"} => Len(queue) < Overtakes
  /\ pending' = seq /\ seq' = seq + 1
  /\ UNCHANGED <<ring, heads, note, queue, buf, task, block, eraseReq, flight>>

\* A full queue drops the record, its number stays used
Queued(n) == IF Len(queue) < QueueLen THEN Append(queue, n) ELSE queue

Enqueue ==
  /\ pending # NoNumber
  /\ queue' = Queued(pending) /\ pending' = NoNumber
  /\ UNCHANGED <<ring, numbers, buf, task, block, eraseReq, flight>>

\* LOG,ERASE is refused in a real flight only: a lift ride is a flight too
RequestErase ==
  /\ task # "off" /\ ~eraseReq
  /\ eraseReq' = TRUE
  /\ UNCHANGED <<ring, numbers, pending, queue, buf, task, block, flight>>

SetFlight(active) ==
  /\ task # "off" /\ flight # active
  /\ flight' = active
  /\ UNCHANGED <<ring, numbers, pending, queue, buf, task, block, eraseReq>>

(***************************************************************************)
(* task_loop: erasing                                                      *)
(***************************************************************************)
ErasedSectors(set) ==
  [i \in Slots |-> IF i \div PerSector \in set THEN Erased ELSE flash[i]]

MayErase == margin < Cap - PerSector

EraseOne ==
  /\ MayErase
  /\ flash' = ErasedSectors({eraseNext \div PerSector})
  /\ eraseNext' = Wrap(eraseNext + PerSector)
  /\ margin' = margin + PerSector
  /\ UNCHANGED writeOff

BackgroundErase ==
  /\ task = "loop" /\ ~flight /\ margin < MarginTarget
  /\ EraseOne
  /\ UNCHANGED <<numbers, pending, queue, buf, task, block, eraseReq, flight>>

\* The request is consumed even when it is not granted
TakeRequest ==
  /\ task = "loop" /\ eraseReq /\ InBound
  /\ eraseReq' = FALSE
  /\ task' = IF flight THEN "loop" ELSE "erasing"
  /\ block' = 0
  /\ UNCHANGED <<ring, numbers, pending, queue, buf, flight>>

\* One block per 30 ms, whatever has happened since the request was taken; it
\* takes sectors in their order in the flash, not in that of their records, and
\* a session that loses its header goes with the one before it
EraseBlock ==
  /\ task = "erasing" /\ block < Sectors
  /\ LET blocks == block .. block + BlockSectors - 1
     IN  /\ flash' = ErasedSectors(blocks)
         /\ heads' = heads \ {flash[i] : i \in {k \in Slots : k \div PerSector \in blocks}}
  /\ block' = Smaller(block + BlockSectors, Sectors)
  /\ UNCHANGED <<writeOff, margin, eraseNext, seq, note, pending, queue, buf, task, eraseReq, flight>>

\* The queue is emptied: what it held goes, but not a record that is on its way
FinishErase ==
  /\ task = "erasing" /\ block = Sectors
  /\ writeOff' = 0 /\ margin' = Cap /\ eraseNext' = 0
  /\ queue' = <<>> /\ buf' = <<>> /\ heads' = {} /\ note' = NoNumber
  /\ task' = "cleared"
  /\ UNCHANGED <<flash, seq, pending, block, eraseReq, flight>>

\* log_event(0, "LOG ERASED"), in the two steps of push()
TakeNote ==
  /\ task = "cleared" /\ task' = "noting"
  /\ note' = seq /\ seq' = seq + 1
  /\ UNCHANGED <<ring, heads, pending, queue, buf, block, eraseReq, flight>>

QueueNote ==
  /\ task = "noting" /\ task' = "loop"
  /\ queue' = Queued(note)
  /\ UNCHANGED <<ring, numbers, pending, buf, block, eraseReq, flight>>

(***************************************************************************)
(* task_loop: writing                                                      *)
(***************************************************************************)
Receive ==
  /\ task = "loop" /\ queue # <<>>
  /\ buf' = Append(buf, Head(queue)) /\ queue' = Tail(queue)
  /\ task' = IF Len(buf') = Batch THEN "flush" ELSE "loop"
  /\ UNCHANGED <<ring, numbers, pending, block, eraseReq, flight>>

\* A batch that is a second old is written as it is
FlushNever == FALSE   \* mutant: only full batches are written
FlushDue == buf # <<>>
FlushTimeout ==
  /\ task = "loop" /\ FlushDue
  /\ task' = "flush"
  /\ UNCHANGED <<ring, numbers, pending, queue, buf, block, eraseReq, flight>>

\* What fits before the end of the partition
Chunk == Smaller(Len(buf), Cap - writeOff)

Programmed(n) ==
  [i \in Slots |-> IF i \in writeOff .. writeOff + n - 1 THEN buf[i - writeOff + 1]
                   ELSE flash[i]]

FlushErase ==
  /\ task = "flush" /\ margin < Chunk
  /\ EraseOne
  /\ UNCHANGED <<numbers, pending, queue, buf, task, block, eraseReq, flight>>

FlushWrite ==
  /\ task = "flush" /\ margin >= Chunk
  /\ flash' = Programmed(Chunk)
  /\ writeOff' = Wrap(writeOff + Chunk) /\ margin' = margin - Chunk
  /\ buf' = SubSeq(buf, Chunk + 1, Len(buf))
  /\ task' = IF buf' = <<>> THEN "loop" ELSE "flush"
  /\ UNCHANGED <<eraseNext, numbers, pending, queue, block, eraseReq, flight>>

\* A sector that cannot be erased costs the rest of the batch; a session that
\* loses its header this way goes with the one before it
FlushGivesUp ==
  /\ task = "flush" /\ margin < Chunk
  /\ buf' = <<>> /\ task' = "loop" /\ heads' = heads \ Range(buf)
  /\ UNCHANGED <<ring, seq, note, pending, queue, block, eraseReq, flight>>

(***************************************************************************)
(* A reset or a power loss, also in the middle of a flash program          *)
(***************************************************************************)
Off ==
  /\ task # "off" /\ InBound
  /\ task' = "off"
  /\ queue' = <<>> /\ buf' = <<>> /\ block' = 0 /\ seq' = 0 /\ pending' = NoNumber
  /\ UNCHANGED <<heads, note>>
  /\ writeOff' = 0 /\ margin' = 0 /\ eraseNext' = 0
  /\ eraseReq' = FALSE /\ flight' = FALSE

Crash == Off /\ UNCHANGED flash

CrashInProgram ==
  /\ Off
  /\ task = "flush" /\ margin >= Chunk
  /\ \E n \in 0 .. Chunk - 1 :
       flash' \in {Programmed(n), [Programmed(n) EXCEPT ![writeOff + n] = Torn]}

Next ==
  \/ Boot
  \/ TakeNumber
  \/ Enqueue
  \/ RequestErase
  \/ \E active \in BOOLEAN : SetFlight(active)
  \/ BackgroundErase
  \/ TakeRequest
  \/ EraseBlock
  \/ FinishErase
  \/ TakeNote
  \/ QueueNote
  \/ Receive
  \/ FlushTimeout
  \/ FlushErase
  \/ FlushWrite
  \/ FlushGivesUp
  \/ Crash
  \/ CrashInProgram

\* The writer task runs whenever the tasks above it sleep
Fairness ==
  /\ WF_vars(Receive) /\ WF_vars(FlushTimeout)
  /\ WF_vars(FlushErase) /\ WF_vars(FlushWrite)
  /\ WF_vars(TakeRequest) /\ WF_vars(EraseBlock) /\ WF_vars(FinishErase)
  /\ WF_vars(TakeNote) /\ WF_vars(QueueNote)

Spec == Init /\ [][Next]_vars /\ Fairness

(***************************************************************************)
(* Reading: from the sector after the margin once around, what is a record *)
(***************************************************************************)
At(p) == flash[(Start(eraseNext \div PerSector) + p) % Cap]
Read  == {p \in Slots : At(p) \in Numbers}

\* A session begins with its header, or with the oldest record there is; only
\* the newest are listed
Begins   == {p \in Read : At(p) \in heads \/ \A q \in Read : p <= q}
After(p) == Cardinality({k \in Begins : k > p})
Listed   == {p \in Begins : After(p) < MaxListed}

\* dump_session: by numbers, up to the header of the next session
Dumped(p) ==
  {n \in {At(q) : q \in Read} : n >= At(p) /\ \A k \in Begins : k > p => n < At(k)}

(***************************************************************************)
(* Properties                                                              *)
(***************************************************************************)

\* "pre-erased bytes from write_off_ onwards": no record is ever programmed over
\* another, or over what an interrupted program has left, however often the
\* pointers were lost and found again; the next sector to erase is where that
\* margin ends ("= write_off_ + margin_").
MarginIsErased ==
  task # "off" =>
    /\ \A i \in 0 .. margin - 1 : flash[(writeOff + i) % Cap] = Erased
    /\ eraseNext = (writeOff + margin) % Cap

\* "A global sequence number orders records across the wrap": reading finds the
\* records from the oldest to the newest, each number once, and a session that
\* LOG,DUMP gives holds the records of one boot only, also after resets and
\* after an erase that a reset cut short.  Two tasks number their records and
\* queue them without a lock, so one record may be out of its place: the
\* writer's own "LOG ERASED", among its neighbours in the sector.
OldestFirst ==
  task # "off" =>
    /\ \A p, q \in Read : p < q =>
         \/ At(p) < At(q)
         \/ /\ note \in {At(p), At(q)} /\ At(p) # At(q)
            /\ p \div PerSector = q \div PerSector
    /\ \A p \in Listed : \A m, n \in Dumped(p), h \in heads : ~(m < h /\ h <= n)

\* Making room costs the oldest records only: what disappears from the flash,
\* but for LOG,ERASE, is older than everything that stays.
LosesOldestOnly ==
  [][task # "erasing" =>
       \A i, j \in Slots :
         /\ flash[i] \in Numbers /\ flash'[i] # flash[i]
         /\ flash[j] \in Numbers /\ flash'[j] = flash[j]
         => flash[i] < flash[j]]_vars

\* The ring, its batches and its scan keep the promise of a log, whatever resets
\* interrupt: records are stored in the order of their numbers, with the one
\* exception of "LOG ERASED", make room oldest first, keep their numbers across a
\* reset, and a number is used again only when no record has it.
Stored  == {flash[i] : i \in Slots} \cap Numbers
Given   == (IF pending = NoNumber THEN {} ELSE {pending})
           \cup (IF task = "noting" THEN {note} ELSE {})
Waiting == Range(buf) \cup Range(queue) \cup Given
Mode    == CASE task = "off" -> "off" [] task = "erasing" -> "clearing"
             [] task = "cleared" -> "cleared" [] OTHER -> "on"
Log == INSTANCE RecordLog WITH
  mode <- Mode, stored <- Stored, waiting <- Waiting, next <- seq, sessions <- heads
KeepsLog == Log!Spec

\* "Worst-case loss: the last ~1 s of buffered records": no record stays in the
\* queue or in a batch that never fills.
Buffered(n) == n \in Range(queue) \cup Range(buf)
EverythingIsFlushed == \A n \in Watched : Buffered(n) ~> ~Buffered(n)
=============================================================================
