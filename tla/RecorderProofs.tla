--------------------------- MODULE RecorderProofs ---------------------------
(***************************************************************************)
(* Proofs about the flight recorder, for every size of the partition, of   *)
(* its sectors, batches and queue, and every reset.                        *)
(***************************************************************************)
EXTENDS FlightRecorder, FiniteSetTheorems, SequenceTheorems, TLAPS

(***************************************************************************)
(* Numbers                                                                 *)
(***************************************************************************)

\* A bounded set of numbers that is not empty has a largest one: otherwise the
\* numbers below its members could be mapped one to one to those above zero.
LEMMA LargestNumber ==
  ASSUME NEW T \in SUBSET Nat, T # {}, NEW n \in Nat, \A x \in T : x <= n
  PROVE  \E x \in T : \A y \in T : y <= x
<1> SUFFICES ASSUME \A x \in T : \E y \in T : ~(y <= x)
             PROVE  FALSE
  OBVIOUS
<1> DEFINE D == {x \in 0 .. n : \E y \in T : x <= y}
           f == [x \in D |-> x + 1]
<1>1. 0 \in D
  <2>1. PICK x \in T : x \in Nat
    OBVIOUS
  <2>2. 0 \in 0 .. n /\ 0 <= x
    BY <2>1
  <2> QED
    BY <2>2
<1>2. ASSUME NEW x \in D PROVE x + 1 \in D \ {0}
  <2>1. PICK y \in T : x <= y
    OBVIOUS
  <2>2. PICK z \in T : ~(z <= y)
    OBVIOUS
  <2>3. x + 1 <= z /\ z <= n /\ x \in Nat /\ z \in Nat
    BY <2>1, <2>2
  <2> QED
    BY <2>3
<1>3. f \in [D -> D \ {0}]
  BY <1>2
<1>4. \A x, y \in D : x # y => f[x] # f[y]
  OBVIOUS
<1>5. IsFiniteSet(D)
  <2>1. IsFiniteSet(0 .. n)
    BY FS_Interval
  <2>2. D \in SUBSET (0 .. n)
    OBVIOUS
  <2> QED
    BY <2>1, <2>2, FS_Subset
<1>6. IsFiniteSet(D \ {0}) /\ Cardinality(D \ {0}) < Cardinality(D)
  <2>1. Cardinality(D \ {0}) = Cardinality(D) - 1 /\ IsFiniteSet(D \ {0})
    BY <1>1, <1>5, FS_RemoveElement
  <2>2. Cardinality(D) \in Nat
    BY <1>5, FS_CardinalityType
  <2> QED
    BY <2>1, <2>2
<1> HIDE DEF D, f
<1> QED
  BY <1>3, <1>4, <1>5, <1>6, FS_PigeonHole

\* A set of numbers that is not empty has a smallest one.
LEMMA SmallestNumber ==
  ASSUME NEW T \in SUBSET Nat, T # {}
  PROVE  \E x \in T : \A y \in T : x <= y
<1>1. PICK n \in T : TRUE
  OBVIOUS
<1> DEFINE U == {n - x : x \in {y \in T : y <= n}}
<1>2. U \in SUBSET Nat /\ \A u \in U : u <= n
  OBVIOUS
<1>3. U # {}
  <2>1. n - n \in U
    OBVIOUS
  <2> QED
    BY <2>1
<1>4. PICK u \in U : \A v \in U : v <= u
  BY <1>2, <1>3, LargestNumber
<1>5. PICK x \in T : x <= n /\ u = n - x
  OBVIOUS
<1>6. ASSUME NEW y \in T PROVE x <= y
  <2>1. CASE y <= n
    <3>1. n - y \in U
      BY <2>1
    <3>2. n - y <= n - x
      BY <1>4, <1>5, <3>1
    <3> QED
      BY <1>5, <2>1, <3>2
  <2>2. CASE ~(y <= n)
    BY <1>5, <2>2
  <2> QED
    BY <2>1, <2>2
<1> QED
  BY <1>6

(***************************************************************************)
(* Sectors and slots                                                       *)
(***************************************************************************)

SectorsOf      == 0 .. Sectors - 1
InSector(s, i) == Start(s) <= i /\ i < Start(s) + PerSector

\* The partition is a whole number of sectors, more than one.
LEMMA Sizes ==
  /\ Sectors \in Nat /\ Sectors > 1 /\ PerSector \in Nat /\ PerSector > 0
  /\ Cap \in Nat /\ Cap > PerSector
<1>1. Sectors \in Nat /\ Sectors > 1 /\ PerSector \in Nat /\ PerSector > 0
  BY RecorderAssumption
<1>2. \A s, p \in Nat : s > 1 /\ p > 0 => s * p \in Nat /\ s * p > p
  OBVIOUS
<1> QED
  BY <1>1, <1>2 DEF Cap

\* The sectors lie behind one another, each PerSector slots long.
LEMMA Starts ==
  /\ Start(0) = 0 /\ Start(1) = PerSector /\ Start(Sectors) = Cap
  /\ \A a \in Nat : Start(a) \in Nat /\ Start(a + 1) = Start(a) + PerSector
  /\ \A a, b \in Nat : a < b => Start(a) + PerSector <= Start(b)
  /\ \A a, b \in Nat : Start(a + b) = Start(a) + Start(b)
<1> DEFINE P == PerSector
<1>1. P \in Nat /\ P > 0 /\ Sectors \in Nat
  BY Sizes
<1> HIDE DEF P
<1>2. \A a, b \in Nat : (a + b) * P = a * P + b * P
  BY <1>1
<1>3. \A a \in Nat : a * P \in Nat
  BY <1>1
<1>4. 0 * P = 0 /\ 1 * P = P
  BY <1>1
<1>5. \A a, b \in Nat : a < b => a * P + P <= b * P
  <2> SUFFICES ASSUME NEW a \in Nat, NEW b \in Nat, a < b PROVE a * P + P <= b * P
    OBVIOUS
  <2>1. PICK d \in Nat : b = a + 1 + d
    <3>1. b - a - 1 \in Nat /\ b = a + 1 + (b - a - 1)
      OBVIOUS
    <3> QED
      BY <3>1
  <2>2. b * P = (a + 1) * P + d * P /\ (a + 1) * P = a * P + 1 * P
    BY <1>2, <2>1
  <2> QED
    BY <1>1, <1>3, <1>4, <2>2
<1> QED
  BY <1>1, <1>2, <1>3, <1>4, <1>5 DEF Start, Cap, P

\* Where a slot lies.
LEMMA SectorOfSlot ==
  ASSUME NEW i \in Slots
  PROVE  i \div PerSector \in SectorsOf /\ InSector(i \div PerSector, i)
<1>1. i \in Nat /\ PerSector \in Nat /\ PerSector > 0 /\ i < Sectors * PerSector
  BY Sizes DEF Slots, Cap
<1>2. PICK d \in Int : d = i \div PerSector
  BY <1>1
<1>3. d \in Nat /\ i = d * PerSector + (i % PerSector) /\ i % PerSector \in 0 .. PerSector - 1
  BY <1>1, <1>2
<1>4. Start(d) <= i /\ i < Start(d) + PerSector
  BY <1>1, <1>3, Starts DEF Start
<1>5. ~(Sectors <= d)
  <2> SUFFICES ASSUME Sectors <= d PROVE FALSE
    OBVIOUS
  <2>1. Start(Sectors) <= Start(d)
    BY <1>3, Sizes, Starts
  <2>2. Start(Sectors) = Cap /\ Start(d) \in Nat /\ Cap \in Nat /\ i < Cap
    BY <1>1, <1>3, Sizes, Starts DEF Cap
  <2> QED
    BY <1>1, <1>4, <2>1, <2>2
<1> QED
  BY <1>2, <1>3, <1>4, <1>5, Sizes DEF SectorsOf, InSector

\* A slot lies in one sector only.
LEMMA OneSector ==
  ASSUME NEW s \in Nat, NEW t \in Nat, NEW i \in Int, InSector(s, i), InSector(t, i)
  PROVE  s = t
<1>1. Start(s) \in Nat /\ Start(t) \in Nat /\ PerSector \in Nat
  BY Starts, Sizes
<1>2. /\ s < t => Start(s) + PerSector <= Start(t)
      /\ t < s => Start(t) + PerSector <= Start(s)
  BY Starts
<1>3. s < t \/ t < s \/ s = t
  OBVIOUS
<1> QED
  BY <1>1, <1>2, <1>3 DEF InSector

\* What lies in a sector is a slot.
LEMMA SlotInSector ==
  ASSUME NEW s \in SectorsOf, NEW i \in Int, InSector(s, i)
  PROVE  i \in Slots /\ i \div PerSector = s
<1>1. Start(s) \in Nat /\ Start(s) + PerSector <= Cap
  BY Starts, Sizes DEF SectorsOf
<1>2. i \in Slots
  BY <1>1, Sizes DEF InSector, Slots
<1> QED
  BY <1>2, SectorOfSlot, OneSector DEF SectorsOf

\* Both, for all sectors at once.
LEMMA SlotsOfSector ==
  /\ \A s \in SectorsOf, i \in Slots : i \div PerSector = s <=> InSector(s, i)
  /\ \A s, t \in SectorsOf, i \in Slots : InSector(s, i) /\ InSector(t, i) => s = t
<1>1. SectorsOf \subseteq Nat /\ Slots \subseteq Int
  BY Sizes DEF SectorsOf, Slots
<1> QED
  BY <1>1, SectorOfSlot, SlotInSector, OneSector

\* The first slot of a sector, and the one behind it.
LEMMA StartOfSector ==
  ASSUME NEW s \in SectorsOf
  PROVE  /\ s \in Nat /\ Start(s) \in Nat /\ Start(s) \in Slots
         /\ InSector(s, Start(s)) /\ Start(s) \div PerSector = s
         /\ Start(s) + PerSector <= Cap
         /\ Start(s) + PerSector = Cap \/ \E t \in SectorsOf : Start(s) + PerSector = Start(t)
<1>1. s \in Nat /\ s + 1 <= Sectors
  BY Sizes DEF SectorsOf
<1>2. Start(s) \in Nat /\ Start(s + 1) = Start(s) + PerSector
  BY <1>1, Starts
<1>3. InSector(s, Start(s))
  BY <1>2, Sizes DEF InSector
<1>4. Start(s) \in Slots /\ Start(s) \div PerSector = s
  BY <1>2, <1>3, SlotInSector
<1>5. s + 1 = Sectors \/ s + 1 \in SectorsOf
  BY <1>1, Sizes DEF SectorsOf
<1>6. Start(s) + PerSector <= Cap
  BY <1>1, Starts, Sizes
<1> QED
  BY <1>1, <1>2, <1>3, <1>4, <1>5, <1>6, Starts

\* Offsets that are less than twice around.
LEMMA Wrapped ==
  /\ \A x \in Nat : x < Cap + Cap => x % Cap = IF x < Cap THEN x ELSE x - Cap
  /\ \A x \in Nat : x < Sectors + Sectors =>
       x % Sectors = IF x < Sectors THEN x ELSE x - Sectors
<1>1. \A c, x \in Nat : c > 0 /\ x < c + c => x % c = IF x < c THEN x ELSE x - c
  OBVIOUS
<1> QED
  BY <1>1, Sizes

(***************************************************************************)
(* The inductive invariant                                                 *)
(***************************************************************************)

Holds(i) == flash[i] \in Numbers

FlashType == flash \in [Slots -> Numbers \cup {Erased, Torn}]

\* Sectors are filled from the front, and one that begins torn holds no record.
FilledFromFront ==
  \A s \in SectorsOf : \A i, j \in Slots :
    InSector(s, i) /\ InSector(s, j) /\ i < j /\ flash[i] = Erased => flash[j] = Erased
NumbersFirst ==
  \A s \in SectorsOf : \A i \in Slots : InSector(s, i) /\ Holds(i) => Holds(Start(s))

FlashOK == FlashType /\ FilledFromFront /\ NumbersFirst

\* Slot i is read before slot j by who begins to read at slot e.
Before(e, i, j) == IF e <= i THEN j < e \/ i < j ELSE j < e /\ i < j
\* Two records of the first sector stand in the opposite order, and one of them
\* is the note.
Misplaced(i, j) ==
  i < PerSector /\ j < PerSector /\ flash[j] < flash[i] /\ note \in {flash[i], flash[j]}
SortedFrom(e) ==
  \A i, j \in Slots : Holds(i) /\ Holds(j) /\ Before(e, i, j) =>
    flash[i] < flash[j] \/ Misplaced(i, j)

\* The margin begins at the write offset and ends at the next sector to erase.
InMargin(i) == (writeOff <= i /\ i < writeOff + margin) \/ i + Cap < writeOff + margin
PointersOK ==
  /\ writeOff \in Slots /\ margin \in 0 .. Cap
  /\ \E r \in SectorsOf : eraseNext = Start(r)
  /\ eraseNext = IF writeOff + margin < Cap THEN writeOff + margin ELSE writeOff + margin - Cap
MarginErased == \A i \in Slots : InMargin(i) => flash[i] = Erased

\* The sector that is being written is full up to the write offset.
WrittenUpTo ==
  \A s \in SectorsOf : InSector(s, writeOff) /\ Start(s) < writeOff =>
    Holds(Start(s)) /\ \A i \in Slots : Start(s) <= i /\ i < writeOff => flash[i] # Erased

\* Whatever a reset interrupts, the flash stays in order from some sector on,
\* from which the scan at boot finds the pointers again.
RingInv ==
  /\ FlashOK
  /\ task = "off" => \E r \in SectorsOf : SortedFrom(Start(r))
  /\ task # "off" => PointersOK /\ MarginErased /\ SortedFrom(eraseNext)
  /\ task \in {"loop", "flush", "cleared", "noting"} => WrittenUpTo
  /\ task = "erasing" =>
       block \in Nat /\ \A i \in Slots : i \div PerSector < block => flash[i] = Erased

Below(X, Y) == \A x \in X, y \in Y : x < y

\* What waits for the flash, in the order in which it gets there: the batch, the
\* queue, and the record that nav_task has numbered.
Line(k) ==
  IF k <= Len(buf) THEN buf[k]
  ELSE IF k <= Len(buf) + Len(queue) THEN queue[k - Len(buf)]
  ELSE pending
Length == Len(buf) + Len(queue) + (IF pending = NoNumber THEN 0 ELSE 1)
InLine == 1 .. Length
Lined  == {Line(k) : k \in InLine}

\* The record at place k of the line comes to lie in the first sector, with what
\* was given since everything was erased and nothing else.
Excused(k) == heads = {} /\ margin = Cap - writeOff /\ writeOff + k <= PerSector
Follows(m, n, k) == m < n \/ (Excused(k) /\ n < m /\ note \in {m, n})

LineOK ==
  /\ \A k \in InLine : Line(k) < seq
  /\ \A i, k \in InLine : i < k => Follows(Line(i), Line(k), k)
  /\ \A x \in Stored, k \in InLine : Follows(x, Line(k), k)

\* From the end of the full erase until its note is queued.
ClearedOK ==
  /\ heads = {} /\ writeOff = 0 /\ margin = Cap /\ buf = <<>> /\ Length <= Overtakes
  /\ \A i \in Slots : flash[i] = Erased
  /\ task = "cleared" => note = NoNumber
  /\ task = "noting" => note \in Nat /\ \A k \in InLine : Line(k) # note

\* Numbers go through queue and batch to the flash in their order, but for the
\* note and those that overtake it, or that it overtakes.
NumbersInv ==
  /\ note \in Nat \cup {NoNumber} /\ pending \in Nat \cup {NoNumber}
  /\ task # "off" =>
       /\ seq \in Nat /\ seq <= MaxSeq /\ (task \in {"erasing", "cleared"} => seq < MaxSeq)
       /\ buf \in Seq(Nat) /\ queue \in Seq(Nat)
       /\ note < seq /\ Below(Stored, {seq}) /\ LineOK
       /\ task \in {"cleared", "noting"} => ClearedOK
  /\ task = "off" => pending = NoNumber /\ \A n \in Stored : n + 1 < MaxSeq

\* A session header is stored or waits to be, or was lost before everything that
\* is there; or a reset has just lost it, and boot forgets its number.
HeadsInv ==
  \A h \in heads :
    /\ h \in Nat /\ h # pending
    /\ task # "off" => h < seq /\ (h \in Stored \cup Lined \/ Below({h}, Stored \cup Lined))
    /\ task = "off" => h \in Stored \/ Below({h}, Stored) \/ Below(Stored, {h})

RecorderInv == RingInv /\ NumbersInv /\ HeadsInv

\* Records are only out of their place within a sector.
LEMMA NotMisplaced ==
  ASSUME NEW e, SortedFrom(e), NEW r \in SectorsOf, NEW i \in Slots, NEW j \in Slots,
         InSector(r, i), ~InSector(r, j), Holds(i), Holds(j), Before(e, i, j)
  PROVE  flash[i] < flash[j]
<1> SUFFICES ASSUME i < PerSector, j < PerSector PROVE FALSE
  BY DEF SortedFrom, Misplaced
<1>1. /\ i \in Nat /\ j \in Nat /\ r \in Nat /\ 0 \in Nat /\ i \in Int /\ j \in Int
      /\ Start(0) = 0 /\ PerSector \in Nat
  BY Starts, Sizes DEF Slots, SectorsOf
<1>2. InSector(0, i) /\ InSector(0, j)
  BY <1>1 DEF InSector
<1>3. r = 0
  BY <1>1, <1>2, OneSector
<1> QED
  BY <1>2, <1>3

(***************************************************************************)
(* Erasing one sector                                                      *)
(***************************************************************************)

\* Erasing whole sectors leaves the flash filled from the front and in order.
LEMMA EraseKeeps ==
  ASSUME FlashOK, NEW set, flash' = ErasedSectors(set), note' = note
  PROVE  /\ FlashOK'
         /\ Stored' \subseteq Stored
         /\ \A i \in Slots : flash'[i] = IF i \div PerSector \in set THEN Erased ELSE flash[i]
         /\ \A i \in Slots : Holds(i)' => Holds(i) /\ flash'[i] = flash[i]
         /\ \A e : SortedFrom(e) => SortedFrom(e)'
<1>1. \A i \in Slots : flash'[i] = IF i \div PerSector \in set THEN Erased ELSE flash[i]
  BY DEF ErasedSectors
<1>2. \A i \in Slots : Holds(i)' => Holds(i) /\ flash'[i] = flash[i]
  BY <1>1, RecorderAssumption DEF Holds, Erased, Numbers
<1>3. FlashType'
  BY <1>1 DEF FlashOK, FlashType, ErasedSectors
<1>4. FilledFromFront'
  <2> SUFFICES ASSUME NEW s \in SectorsOf, NEW i \in Slots, NEW j \in Slots,
                      InSector(s, i), InSector(s, j), i < j, flash'[i] = Erased
               PROVE  flash'[j] = Erased
    BY DEF FilledFromFront, InSector
  <2>1. i \div PerSector = j \div PerSector
    BY SlotsOfSector
  <2> QED
    BY <1>1, <2>1 DEF FlashOK, FilledFromFront
<1>5. NumbersFirst'
  <2> SUFFICES ASSUME NEW s \in SectorsOf, NEW i \in Slots, InSector(s, i), Holds(i)'
               PROVE  Holds(Start(s))'
    BY DEF NumbersFirst, InSector
  <2>2. i \div PerSector = s /\ Start(s) \div PerSector = s /\ Start(s) \in Slots
    BY StartOfSector, SlotsOfSector
  <2>3. Holds(i) /\ s \notin set
    BY <1>1, <1>2, <2>2, RecorderAssumption DEF Holds, Erased, Numbers
  <2> QED
    BY <1>1, <2>2, <2>3 DEF FlashOK, NumbersFirst, Holds
<1>6. Stored' \subseteq Stored
  BY <1>2 DEF Stored, Holds
<1>7. \A e : SortedFrom(e) => SortedFrom(e)'
  BY <1>2 DEF SortedFrom, Misplaced
<1> QED
  BY <1>1, <1>2, <1>3, <1>4, <1>5, <1>6, <1>7 DEF FlashOK

\* The sector that erase_one takes is the one that is read first: it does not
\* hold the write offset, and what it loses is older than everything else.
LEMMA EraseTakesOldest ==
  ASSUME RingInv, task # "off", EraseOne
  PROVE  \E r \in SectorsOf :
           /\ eraseNext = Start(r) /\ flash' = ErasedSectors({r})
           /\ \A i \in Slots : i \div PerSector = r <=> InSector(r, i)
           /\ \A i, j \in Slots : InSector(r, i) /\ ~InSector(r, j) => Before(eraseNext, i, j)
           /\ InSector(r, writeOff) => writeOff = Start(r)
<1>1. PICK r \in SectorsOf : eraseNext = Start(r)
  BY DEF RingInv, PointersOK
<1>2. Start(r) \in Nat /\ InSector(r, Start(r)) /\ Start(r) \div PerSector = r
  BY StartOfSector
<1>3. \A i \in Slots : i \div PerSector = r <=> InSector(r, i)
  BY SlotsOfSector
<1>4. \A i, j \in Slots : InSector(r, i) /\ ~InSector(r, j) => Before(eraseNext, i, j)
  BY <1>1, <1>2, Sizes DEF InSector, Before, Slots
<1>5. InSector(r, writeOff) => writeOff = Start(r)
  BY <1>1, <1>2, Sizes DEF InSector, EraseOne, MayErase, RingInv, PointersOK, Slots
<1> QED
  BY <1>1, <1>2, <1>3, <1>4, <1>5 DEF EraseOne

\* erase_one extends the margin by a sector.
LEMMA EraseOneKeeps ==
  ASSUME RingInv, task # "off", EraseOne, note' = note
  PROVE  FlashOK' /\ PointersOK' /\ MarginErased' /\ SortedFrom(eraseNext)'
         /\ (WrittenUpTo => WrittenUpTo')
<1>1. PICK r \in SectorsOf :
           /\ eraseNext = Start(r) /\ flash' = ErasedSectors({r})
           /\ \A i \in Slots : i \div PerSector = r <=> InSector(r, i)
           /\ \A i, j \in Slots : InSector(r, i) /\ ~InSector(r, j) => Before(eraseNext, i, j)
           /\ InSector(r, writeOff) => writeOff = Start(r)
  BY EraseTakesOldest
<1>2. /\ FlashOK'
      /\ \A i \in Slots : flash'[i] = IF InSector(r, i) THEN Erased ELSE flash[i]
      /\ \A i \in Slots : Holds(i)' => Holds(i) /\ flash'[i] = flash[i] /\ ~InSector(r, i)
  <2>1. FlashOK
    BY DEF RingInv
  <2>2. /\ FlashOK'
        /\ \A i \in Slots : flash'[i] = IF i \div PerSector \in {r} THEN Erased ELSE flash[i]
        /\ \A i \in Slots : Holds(i)' => Holds(i) /\ flash'[i] = flash[i]
    BY <1>1, <2>1, EraseKeeps
  <2>3. Erased \notin Numbers
    BY RecorderAssumption DEF Erased, Numbers
  <2> QED
    BY <1>1, <2>2, <2>3 DEF Holds
<1>3. /\ Start(r) \in Nat /\ Start(r) + PerSector <= Cap
      /\ Start(r) + PerSector < Cap => \E t \in SectorsOf : Start(r) + PerSector = Start(t)
  BY StartOfSector, Sizes
<1>4. /\ writeOff \in Slots /\ margin \in 0 .. Cap
      /\ eraseNext = IF writeOff + margin < Cap THEN writeOff + margin ELSE writeOff + margin - Cap
      /\ writeOff' = writeOff /\ margin' = margin + PerSector /\ margin + PerSector < Cap
  BY Sizes DEF RingInv, PointersOK, EraseOne, MayErase
<1>5. eraseNext' = IF Start(r) + PerSector < Cap THEN Start(r) + PerSector ELSE 0
  <2>1. eraseNext' = Wrap(Start(r) + PerSector)
    BY <1>1 DEF EraseOne
  <2> QED
    BY <1>3, <2>1, Wrapped, Sizes DEF Wrap
<1>6. PointersOK'
  <2>1. \E t \in SectorsOf : eraseNext' = Start(t)
    BY <1>3, <1>5, Starts, Sizes DEF SectorsOf
  <2>2. eraseNext' = IF writeOff' + margin' < Cap THEN writeOff' + margin'
                     ELSE writeOff' + margin' - Cap
    <3>1. writeOff \in Nat /\ writeOff < Cap /\ margin \in Nat
      BY <1>4, Sizes DEF Slots
    <3>2. \A w, m, n, c, e \in Nat :
            w < c /\ m + n < c /\ e + n <= c /\ e = (IF w + m < c THEN w + m ELSE w + m - c) =>
              (IF e + n < c THEN e + n ELSE 0)
                = IF w + (m + n) < c THEN w + (m + n) ELSE w + (m + n) - c
      OBVIOUS
    <3>3. Start(r) = IF writeOff + margin < Cap THEN writeOff + margin
                     ELSE writeOff + margin - Cap
      BY <1>1, <1>4
    <3>4. eraseNext' = IF writeOff + (margin + PerSector) < Cap
                       THEN writeOff + (margin + PerSector)
                       ELSE writeOff + (margin + PerSector) - Cap
      BY <1>3, <1>4, <1>5, <3>1, <3>2, <3>3, Sizes
    <3> QED
      BY <1>4, <3>4
  <2>3. margin' \in 0 .. Cap
    BY <1>4, Sizes
  <2> QED
    BY <1>4, <2>1, <2>2, <2>3 DEF PointersOK
<1>7. MarginErased'
  <2> SUFFICES ASSUME NEW i \in Slots, InMargin(i)' PROVE flash'[i] = Erased
    BY DEF MarginErased
  <2>1. InMargin(i) \/ InSector(r, i)
    BY <1>1, <1>3, <1>4, Sizes DEF InMargin, InSector, Slots
  <2> QED
    BY <1>2, <2>1 DEF RingInv, MarginErased
<1>8. SortedFrom(eraseNext)'
  <2> SUFFICES ASSUME NEW i \in Slots, NEW j \in Slots, Holds(i)', Holds(j)',
                      Before(eraseNext', i, j)
               PROVE  flash'[i] < flash'[j] \/ Misplaced(i, j)'
    BY DEF SortedFrom, Before
  <2>1. ~InSector(r, i) /\ ~InSector(r, j) /\ Holds(i) /\ Holds(j)
        /\ flash'[i] = flash[i] /\ flash'[j] = flash[j]
    BY <1>2
  <2>2. Before(eraseNext, i, j)
    BY <1>1, <1>3, <1>5, <2>1, Sizes DEF Before, InSector, Slots
  <2> QED
    BY <2>1, <2>2 DEF RingInv, SortedFrom, Misplaced
<1>9. WrittenUpTo => WrittenUpTo'
  <2> SUFFICES ASSUME WrittenUpTo, NEW s \in SectorsOf, InSector(s, writeOff), Start(s) < writeOff
               PROVE  /\ Holds(Start(s))'
                      /\ \A i \in Slots : Start(s) <= i /\ i < writeOff => flash'[i] # Erased
    BY <1>4 DEF WrittenUpTo, InSector
  <2>1. s # r
    <3>1. Start(s) \in Nat /\ writeOff \in Nat
      BY <1>4, StartOfSector DEF Slots
    <3> QED
      BY <1>1, <3>1
  <2>2. \A i \in Slots : InSector(s, i) => ~InSector(r, i)
    BY <2>1, SlotsOfSector
  <2>3. Start(s) \in Slots /\ InSector(s, Start(s))
    BY StartOfSector
  <2>4. \A i \in Slots : Start(s) <= i /\ i < writeOff => InSector(s, i)
    BY <1>4, <2>3, Sizes DEF InSector, Slots
  <2> QED
    BY <1>2, <2>2, <2>3, <2>4 DEF WrittenUpTo, Holds
<1> QED
  BY <1>2, <1>6, <1>7, <1>8, <1>9

(***************************************************************************)
(* The line of records that wait                                           *)
(***************************************************************************)

\* Batch, queue and the record under way make up the line.
LEMMA InTheLine ==
  ASSUME buf \in Seq(Nat), queue \in Seq(Nat), pending \in Nat \cup {NoNumber}
  PROVE  /\ Length \in Nat /\ Len(buf) <= Length /\ \A k \in InLine : Line(k) \in Nat
         /\ \A k \in 1 .. Len(buf) : k \in InLine /\ Line(k) = buf[k]
         /\ \A k \in 1 .. Len(queue) : Len(buf) + k \in InLine /\ Line(Len(buf) + k) = queue[k]
         /\ Waiting = {Line(k) : k \in InLine} \cup (IF task = "noting" THEN {note} ELSE {})
<1> DEFINE b == Len(buf)
           q == Len(queue)
<1>1. /\ b \in Nat /\ q \in Nat /\ Length \in Nat /\ b + q <= Length
      /\ Length <= b + q + 1 /\ (pending = NoNumber => Length = b + q)
      /\ (pending # NoNumber => Length = b + q + 1)
  <2>1. b \in Nat /\ q \in Nat
    OBVIOUS
  <2>2. Length = b + q + (IF pending = NoNumber THEN 0 ELSE 1)
    BY DEF Length
  <2> HIDE DEF b, q
  <2>3. CASE pending = NoNumber
    <3>1. Length = b + q + 0
      BY <2>2, <2>3
    <3> QED
      BY <2>1, <2>3, <3>1
  <2>4. CASE pending # NoNumber
    <3>1. Length = b + q + 1
      BY <2>2, <2>4
    <3> QED
      BY <2>1, <2>4, <3>1
  <2> QED
    BY <2>3, <2>4
<1>2. \A k \in 1 .. b : k \in InLine /\ Line(k) = buf[k] /\ buf[k] \in Nat
  BY <1>1 DEF InLine, Line
<1>3. ASSUME NEW k \in 1 .. q
      PROVE  b + k \in InLine /\ Line(b + k) = queue[k] /\ queue[k] \in Nat
  <2>1. b + k \in 1 .. Length /\ ~(b + k <= b) /\ b + k <= b + q /\ (b + k) - b = k
    BY <1>1
  <2> QED
    BY <2>1 DEF InLine, Line
<1>4. pending # NoNumber => b + q + 1 \in InLine /\ Line(b + q + 1) = pending /\ pending \in Nat
  BY <1>1 DEF InLine, Line
<1>5. ASSUME NEW k \in InLine
      PROVE  \/ k \in 1 .. b
             \/ \E j \in 1 .. q : k = b + j
             \/ k = b + q + 1 /\ pending # NoNumber
  <2>1. k \in Nat /\ 1 <= k /\ k <= Length
    BY <1>1 DEF InLine
  <2>2. CASE k <= b
    BY <1>1, <2>1, <2>2
  <2>3. CASE ~(k <= b) /\ k <= b + q
    <3>1. k - b \in 1 .. q /\ k = b + (k - b)
      BY <1>1, <2>1, <2>3
    <3> QED
      BY <3>1
  <2>4. CASE ~(k <= b + q)
    <3>1. b \in Nat /\ q \in Nat /\ Length \in Nat /\ Length <= b + q + 1
      BY <1>1
    <3> HIDE DEF b, q
    <3>2. k = b + q + 1 /\ Length # b + q
      BY <2>1, <2>4, <3>1
    <3>3. pending # NoNumber
      BY <1>1, <3>2
    <3> QED
      BY <3>2, <3>3
  <2> QED
    BY <2>2, <2>3, <2>4
<1> HIDE DEF b, q
<1>6. \A k \in InLine : Line(k) \in Nat
  BY <1>2, <1>3, <1>4, <1>5
<1>7. DOMAIN buf = 1 .. b /\ DOMAIN queue = 1 .. q
  BY DEF b, q
<1> DEFINE Last == IF pending = NoNumber THEN {} ELSE {pending}
<1>8. Range(buf) \cup Range(queue) \cup Last = {Line(k) : k \in InLine}
  <2>1. \A k \in InLine : Line(k) \in Range(buf) \cup Range(queue) \cup Last
    BY <1>2, <1>3, <1>4, <1>5, <1>7 DEF Range
  <2>2. \A x \in Range(buf) : x \in {Line(k) : k \in InLine}
    BY <1>2, <1>7 DEF Range
  <2>3. \A x \in Range(queue) : x \in {Line(k) : k \in InLine}
    BY <1>3, <1>7 DEF Range
  <2>4. \A x \in Last : x \in {Line(k) : k \in InLine}
    BY <1>4
  <2> HIDE DEF Last
  <2> QED
    BY <2>1, <2>2, <2>3, <2>4
<1>9. Waiting = {Line(k) : k \in InLine} \cup (IF task = "noting" THEN {note} ELSE {})
  BY <1>8 DEF Waiting, Given
<1> QED
  BY <1>1, <1>2, <1>3, <1>6, <1>9 DEF b, q

\* Moving c places up.
LEMMA Shifted ==
  ASSUME NEW m \in Nat, NEW n \in Nat, NEW c \in Nat, m + c <= n
  PROVE  /\ \A k \in 1 .. m : k + c \in 1 .. n
         /\ \A i \in 1 .. c, k \in 1 .. m : i \in 1 .. n /\ i < k + c
OBVIOUS

\* The first c of the line leave it, for the flash or for nothing, and the others
\* move up.
LEMMA LineMoves ==
  ASSUME LineOK, Length \in Nat, Length' \in Nat, NEW c \in Nat, Length' + c <= Length,
         \A k \in 1 .. Length' : Line(k)' = Line(k + c),
         \A k \in 1 .. Length' : Excused(k + c) => Excused(k)',
         \A x \in Stored' : x \in Stored \/ \E i \in 1 .. c : x = Line(i),
         seq' = seq, note' = note
  PROVE  LineOK'
<1>1. \A k \in 1 .. Length' : k + c \in InLine
  BY Shifted DEF InLine
<1>2. \A i \in 1 .. c, k \in 1 .. Length' : i \in InLine /\ i < k + c
  BY Shifted DEF InLine
<1>4. ASSUME NEW k \in 1 .. Length' PROVE Line(k)' < seq'
  BY <1>1 DEF LineOK
<1>5. ASSUME NEW i \in 1 .. Length', NEW k \in 1 .. Length', i < k
      PROVE  Follows(Line(i), Line(k), k)'
  <2>1. i + c \in InLine /\ k + c \in InLine /\ i + c < k + c
    BY <1>1, <1>5
  <2>2. Follows(Line(i + c), Line(k + c), k + c)
    BY <2>1 DEF LineOK
  <2> QED
    BY <2>2 DEF Follows
<1>6. ASSUME NEW x \in Stored', NEW k \in 1 .. Length' PROVE Follows(x, Line(k), k)'
  <2>1. Follows(x, Line(k + c), k + c)
    BY <1>1, <1>2 DEF LineOK
  <2> QED
    BY <2>1 DEF Follows
<1> QED
  BY <1>4, <1>5, <1>6 DEF LineOK, InLine

\* A number that is taken is newer than all.
LEMMA LineGrows ==
  ASSUME LineOK, Length \in Nat, NEW n \in Nat, n = Length + 1, Length' = n,
         seq \in Nat, seq' = seq + 1, Line(n)' = seq,
         \A k \in InLine : Line(k)' = Line(k) /\ Line(k) \in Nat,
         Below(Stored, {seq}), UNCHANGED <<ring, heads, note>>
  PROVE  LineOK'
<1>1. InLine' = InLine \cup {n} /\ \A k \in InLine : k < n /\ ~(n < k)
  BY DEF InLine
<1>2. /\ \A k : Excused(k) => Excused(k)'
      /\ Stored' = Stored
  BY DEF Excused, Stored, ring
<1>3. ASSUME NEW k \in InLine' PROVE Line(k)' < seq'
  <2>1. CASE k \in InLine
    <3>1. Line(k)' < seq /\ Line(k)' \in Nat
      BY <2>1 DEF LineOK
    <3> QED
      BY <3>1
  <2>2. CASE k = n
    BY <2>2
  <2> QED
    BY <1>1, <2>1, <2>2
<1>4. ASSUME NEW i \in InLine', NEW k \in InLine', i < k PROVE Follows(Line(i), Line(k), k)'
  <2>1. i \in InLine
    BY <1>1, <1>4
  <2>2. CASE k \in InLine
    <3>1. Follows(Line(i), Line(k), k)
      BY <1>4, <2>1, <2>2 DEF LineOK
    <3>2. Line(i)' = Line(i) /\ Line(k)' = Line(k) /\ (Excused(k) => Excused(k)') /\ note' = note
      BY <1>2, <2>1, <2>2
    <3> QED
      BY <3>1, <3>2 DEF Follows
  <2>3. CASE k = n
    <3>1. Line(i)' < seq /\ Line(k)' = seq
      BY <2>1, <2>3 DEF LineOK
    <3> QED
      BY <3>1 DEF Follows
  <2> QED
    BY <1>1, <2>2, <2>3
<1>5. ASSUME NEW x \in Stored', NEW k \in InLine' PROVE Follows(x, Line(k), k)'
  <2>1. CASE k \in InLine
    <3>1. Follows(x, Line(k), k)
      BY <1>2, <2>1 DEF LineOK
    <3>2. Line(k)' = Line(k) /\ (Excused(k) => Excused(k)') /\ note' = note
      BY <1>2, <2>1
    <3> QED
      BY <3>1, <3>2 DEF Follows
  <2>2. CASE k = n
    <3>1. x < seq /\ Line(k)' = seq
      BY <1>2, <2>2 DEF Below
    <3> QED
      BY <3>1 DEF Follows
  <2> QED
    BY <1>1, <2>1, <2>2
<1> QED
  BY <1>3, <1>4, <1>5 DEF LineOK

(***************************************************************************)
(* Programming a chunk, or part of it                                      *)
(***************************************************************************)

\* A chunk fits in front of the end of the partition and into the margin.
LEMMA ChunkFits ==
  ASSUME RingInv, NumbersInv, task = "flush"
  PROVE  /\ Chunk \in Nat /\ Chunk <= Len(buf) /\ writeOff + Chunk <= Cap
         /\ Chunk = Len(buf) \/ writeOff + Chunk = Cap
         /\ writeOff \in Nat /\ writeOff < Cap
         /\ \A k \in 1 .. Len(buf) : buf[k] \in Numbers
<1>1. writeOff \in Nat /\ writeOff < Cap /\ Len(buf) \in Nat
  BY Sizes DEF RingInv, PointersOK, NumbersInv, Slots
<1>2. ASSUME NEW k \in 1 .. Len(buf) PROVE buf[k] \in Numbers
  <2>1. buf[k] \in Nat /\ k \in InLine /\ Line(k) = buf[k]
    BY InTheLine DEF NumbersInv
  <2>2. buf[k] < seq /\ seq <= MaxSeq /\ seq \in Nat
    BY <2>1 DEF NumbersInv, LineOK
  <2> QED
    BY <2>1, <2>2, RecorderAssumption DEF Numbers
<1> QED
  BY <1>1, <1>2, Sizes DEF Chunk, Smaller

\* What a program changes: the first n records of the batch lie behind the write
\* offset, where all was erased, and perhaps a torn one behind them.
Programs(n) ==
  \/ flash' = Programmed(n)
  \/ n < Chunk /\ flash' = [Programmed(n) EXCEPT ![writeOff + n] = Torn]

\* All other slots keep their contents.
LEMMA ProgramWrites ==
  ASSUME RingInv, NumbersInv, task = "flush", margin >= Chunk,
         NEW n \in 0 .. Chunk, Programs(n)
  PROVE  /\ FlashType'
         /\ \A i \in Slots : writeOff <= i /\ i < writeOff + n =>
              /\ flash'[i] = buf[i - writeOff + 1] /\ i - writeOff + 1 \in 1 .. n
              /\ flash'[i] \in Numbers /\ flash[i] = Erased
         /\ \A i \in Slots : ~(writeOff <= i /\ i < writeOff + n) =>
              \/ flash'[i] = flash[i]
              \/ i = writeOff + n /\ flash'[i] = Torn /\ flash[i] = Erased
<1>1. /\ Chunk \in Nat /\ Chunk <= Len(buf) /\ writeOff + Chunk <= Cap
      /\ writeOff \in Nat /\ writeOff < Cap /\ Len(buf) \in Nat
      /\ \A k \in 1 .. Len(buf) : buf[k] \in Numbers
  BY ChunkFits DEF NumbersInv
<1>2. /\ flash \in [Slots -> Numbers \cup {Erased, Torn}]
      /\ \A i \in Slots : InMargin(i) => flash[i] = Erased
      /\ margin \in Nat
  BY Sizes DEF RingInv, FlashOK, FlashType, MarginErased, PointersOK
<1>3. \A i \in Slots : writeOff <= i /\ i < writeOff + Chunk => flash[i] = Erased
  BY <1>1, <1>2 DEF InMargin, Slots
<1>4. \A i \in Slots : writeOff <= i /\ i < writeOff + n =>
        i - writeOff + 1 \in 1 .. n /\ i - writeOff + 1 \in 1 .. Len(buf)
        /\ i \in writeOff .. writeOff + n - 1 /\ i < writeOff + Chunk
  BY <1>1 DEF Slots
<1>5. \A i \in Slots : i \in writeOff .. writeOff + n - 1 => writeOff <= i /\ i < writeOff + n
  BY <1>1 DEF Slots
<1>6. /\ Programmed(n) \in [Slots -> Numbers \cup {Erased, Torn}]
      /\ \A i \in Slots : writeOff <= i /\ i < writeOff + n => Programmed(n)[i] = buf[i - writeOff + 1]
      /\ \A i \in Slots : ~(writeOff <= i /\ i < writeOff + n) => Programmed(n)[i] = flash[i]
  BY <1>1, <1>2, <1>4, <1>5 DEF Programmed
<1>7. \A i \in Slots : writeOff <= i /\ i < writeOff + n =>
        buf[i - writeOff + 1] \in Numbers /\ i - writeOff + 1 \in 1 .. n /\ flash[i] = Erased
  BY <1>1, <1>3, <1>4
<1>8. CASE flash' = Programmed(n)
  BY <1>6, <1>7, <1>8 DEF FlashType
<1>9. CASE n < Chunk /\ flash' = [Programmed(n) EXCEPT ![writeOff + n] = Torn]
  <2>1. writeOff + n \in Slots /\ flash[writeOff + n] = Erased
    BY <1>1, <1>3, <1>9, Sizes DEF Slots
  <2>2. /\ flash' \in [Slots -> Numbers \cup {Erased, Torn}]
        /\ \A i \in Slots : flash'[i] = IF i = writeOff + n THEN Torn ELSE Programmed(n)[i]
    BY <1>6, <1>9, <2>1
  <2>3. \A i \in Slots : writeOff <= i /\ i < writeOff + n => i # writeOff + n
    BY <1>1 DEF Slots
  <2> QED
    BY <1>6, <1>7, <2>1, <2>2, <2>3 DEF FlashType
<1> QED
  BY <1>8, <1>9 DEF Programs

\* Records that are programmed follow those of their sector.
LEMMA ProgramFills ==
  ASSUME RingInv, NumbersInv, task = "flush", margin >= Chunk,
         NEW n \in 0 .. Chunk, Programs(n)
  PROVE  FlashOK'
<1> DEFINE New(i) == writeOff <= i /\ i < writeOff + n
<1>1. /\ FlashType'
      /\ \A i \in Slots : New(i) => flash'[i] \in Numbers /\ flash[i] = Erased
      /\ \A i \in Slots : ~New(i) =>
           \/ flash'[i] = flash[i]
           \/ i = writeOff + n /\ flash'[i] = Torn /\ flash[i] = Erased
  BY ProgramWrites
<1>2. writeOff \in Nat /\ n \in Nat /\ writeOff + n <= Cap /\ writeOff \in Slots
  <2>1. Chunk \in Nat /\ writeOff + Chunk <= Cap /\ writeOff \in Nat /\ writeOff \in Slots
    BY ChunkFits DEF RingInv, PointersOK
  <2> QED
    BY <2>1, Sizes
<1>3. Erased \notin Numbers /\ Torn \notin Numbers /\ Torn # Erased
  BY RecorderAssumption DEF Erased, Torn, Numbers
<1>4. FilledFromFront'
  <2> SUFFICES ASSUME NEW s \in SectorsOf, NEW i \in Slots, NEW j \in Slots,
                      InSector(s, i), InSector(s, j), i < j, flash'[i] = Erased
               PROVE  flash'[j] = Erased
    BY DEF FilledFromFront, InSector
  <2>1. ~New(i) /\ flash[i] = Erased
    BY <1>1, <1>3
  <2>2. flash[j] = Erased
    BY <2>1 DEF RingInv, FlashOK, FilledFromFront
  <2>3. ~(i < writeOff /\ writeOff <= j)
    <3> SUFFICES ASSUME i < writeOff, writeOff <= j PROVE FALSE
      OBVIOUS
    <3>1. InSector(s, writeOff) /\ Start(s) < writeOff /\ Start(s) <= i
      BY <1>2, StartOfSector, Sizes DEF InSector, Slots
    <3> QED
      BY <2>1, <3>1 DEF RingInv, WrittenUpTo
  <2>4. ~New(j) /\ j # writeOff + n
    <3>1. i \in Int /\ j \in Int
      BY DEF Slots
    <3>3. CASE i < writeOff
      BY <1>2, <2>3, <3>1, <3>3
    <3>4. CASE ~(i < writeOff)
      BY <1>2, <2>1, <3>1, <3>4
    <3> QED
      BY <3>3, <3>4
  <2> QED
    BY <1>1, <2>2, <2>4
<1>5. NumbersFirst'
  <2> SUFFICES ASSUME NEW s \in SectorsOf, NEW i \in Slots, InSector(s, i), Holds(i)'
               PROVE  Holds(Start(s))'
    BY DEF NumbersFirst, InSector
  <2>1. Start(s) \in Slots /\ Start(s) \in Nat /\ i \in Nat /\ Start(s) <= i
    BY StartOfSector DEF InSector, Slots
  <2>2. CASE Holds(Start(s))
    BY <1>1, <1>3, <2>1, <2>2 DEF Holds
  <2>3. CASE ~Holds(Start(s))
    <3>1. ~Holds(i)
      BY <2>3 DEF RingInv, FlashOK, NumbersFirst
    <3>2. New(i)
      BY <1>1, <1>3, <3>1 DEF Holds
    <3>3. ~(Start(s) < writeOff)
      <4> SUFFICES ASSUME Start(s) < writeOff PROVE FALSE
        OBVIOUS
      <4>1. InSector(s, writeOff)
        BY <1>2, <2>1, <3>2, Sizes DEF InSector
      <4> QED
        BY <2>3, <4>1 DEF RingInv, WrittenUpTo
    <3>4. New(Start(s))
      BY <1>2, <2>1, <3>2, <3>3
    <3> QED
      BY <1>1, <2>1, <3>4 DEF Holds
  <2> QED
    BY <2>2, <2>3
<1> QED
  BY <1>1, <1>4, <1>5 DEF FlashOK

\* They are the newest of all, and are read last.
LEMMA ProgramSorts ==
  ASSUME RingInv, NumbersInv, task = "flush", margin >= Chunk,
         NEW n \in 0 .. Chunk, Programs(n), NEW r \in SectorsOf, eraseNext = Start(r),
         note' = note
  PROVE  /\ SortedFrom(Start(r))'
         /\ \A x \in Stored' : x \in Stored \/ \E k \in 1 .. n : x = buf[k]
         /\ \A k \in 1 .. n : buf[k] \in Stored'
         /\ Stored \subseteq Stored'
<1> DEFINE New(i) == writeOff <= i /\ i < writeOff + n
<1>1. /\ FlashType'
      /\ \A i \in Slots : New(i) =>
           /\ flash'[i] = buf[i - writeOff + 1] /\ i - writeOff + 1 \in 1 .. n
           /\ flash'[i] \in Numbers /\ flash[i] = Erased
      /\ \A i \in Slots : ~New(i) =>
           \/ flash'[i] = flash[i]
           \/ i = writeOff + n /\ flash'[i] = Torn /\ flash[i] = Erased
  BY ProgramWrites
<1>2. /\ writeOff \in Nat /\ n \in Nat /\ writeOff + n <= Cap /\ writeOff < Cap
      /\ n <= Len(buf) /\ n <= margin /\ margin \in Nat /\ margin <= Cap /\ Len(buf) \in Nat
  BY ChunkFits, Sizes DEF RingInv, PointersOK, NumbersInv
<1>3. Erased \notin Numbers /\ Torn \notin Numbers
  BY RecorderAssumption DEF Erased, Torn, Numbers
<1>4. /\ \A x \in Stored' : x \in Stored \/ \E k \in 1 .. n : x = buf[k]
      /\ Stored \subseteq Stored'
  BY <1>1, <1>3 DEF Stored
<1>5. ASSUME NEW k \in 1 .. n PROVE buf[k] \in Stored'
  <2>1. k \in Nat /\ 1 <= k /\ k <= n
    BY <1>2
  <2>2. PICK i \in Nat : i = writeOff + k - 1
    BY <1>2, <2>1
  <2>3. i \in Slots /\ New(i) /\ i - writeOff + 1 = k
    BY <1>2, <2>1, <2>2, Sizes DEF Slots
  <2> QED
    BY <1>1, <2>3 DEF Stored
<1>6. SortedFrom(Start(r))'
  <2> SUFFICES ASSUME NEW i \in Slots, NEW j \in Slots, Holds(i)', Holds(j)',
                      Before(eraseNext, i, j)
               PROVE  flash'[i] < flash'[j] \/ Misplaced(i, j)'
    BY DEF SortedFrom, Before
  <2>1. i \in Nat /\ j \in Nat /\ i < Cap /\ j < Cap
    BY Sizes DEF Slots
  <2>2. CASE ~New(i) /\ ~New(j)
    <3>1. Holds(i) /\ Holds(j) /\ flash'[i] = flash[i] /\ flash'[j] = flash[j]
      BY <1>1, <1>3, <2>2 DEF Holds
    <3> QED
      BY <3>1 DEF RingInv, SortedFrom, Misplaced
  <2>3. CASE ~New(i) /\ New(j)
    <3>1. flash'[i] = flash[i] /\ flash[i] \in Stored
      BY <1>1, <1>3, <2>3 DEF Holds, Stored
    <3>2. PICK k \in 1 .. Len(buf) : k = j - writeOff + 1 /\ flash'[j] = buf[k]
      BY <1>1, <1>2, <2>3
    <3>3. k \in InLine /\ Line(k) = buf[k]
      BY InTheLine DEF NumbersInv
    <3>4. Follows(flash'[i], flash'[j], k)
      BY <3>1, <3>2, <3>3 DEF NumbersInv, LineOK
    <3>5. ASSUME Excused(k) PROVE i < PerSector /\ j < PerSector
      <4>1. margin = Cap - writeOff /\ writeOff + k <= PerSector /\ PerSector \in Nat
        BY <3>5, Sizes DEF Excused
      <4>2. j < PerSector
        BY <1>2, <2>1, <3>2, <4>1
      <4>3. ~InMargin(i)
        BY <1>3, <3>1 DEF RingInv, MarginErased, Stored
      <4>4. i < PerSector
        BY <1>2, <2>1, <2>3, <4>1, <4>3, Sizes DEF InMargin
      <4> QED
        BY <4>2, <4>4
    <3> QED
      BY <3>4, <3>5 DEF Follows, Misplaced
  <2>4. CASE New(i)
    <3>1. ~(New(j) /\ j <= i) /\ ~(~New(j) /\ InMargin(j)) => New(j) /\ i < j
      <4> SUFFICES ASSUME ~New(j), ~InMargin(j) PROVE FALSE
        BY <2>1
      <4>1. eraseNext = IF writeOff + margin < Cap THEN writeOff + margin
                        ELSE writeOff + margin - Cap
        BY DEF RingInv, PointersOK
      <4> QED
        BY <1>2, <2>1, <2>4, <4>1, Sizes DEF InMargin, Before
    <3>2. ~(New(j) /\ j <= i)
      <4>1. eraseNext = IF writeOff + margin < Cap THEN writeOff + margin
                        ELSE writeOff + margin - Cap
        BY DEF RingInv, PointersOK
      <4> QED
        BY <1>2, <2>1, <2>4, <4>1, Sizes DEF Before
    <3>3. ~(~New(j) /\ InMargin(j))
      BY <1>1, <1>3 DEF RingInv, MarginErased, Holds
    <3>4. New(j) /\ i < j
      BY <3>1, <3>2, <3>3
    <3>5. PICK h \in 1 .. Len(buf), k \in 1 .. Len(buf) :
            /\ flash'[i] = buf[h] /\ flash'[j] = buf[k]
            /\ h < k /\ k = j - writeOff + 1
      <4>1. /\ i - writeOff + 1 \in 1 .. Len(buf) /\ flash'[i] = buf[i - writeOff + 1]
            /\ j - writeOff + 1 \in 1 .. Len(buf) /\ flash'[j] = buf[j - writeOff + 1]
        BY <1>1, <1>2, <2>1, <2>4, <3>4
      <4>2. i - writeOff + 1 < j - writeOff + 1
        BY <1>2, <2>1, <3>4
      <4> QED
        BY <4>1, <4>2
    <3>6. h \in InLine /\ Line(h) = buf[h] /\ k \in InLine /\ Line(k) = buf[k]
      BY InTheLine DEF NumbersInv
    <3>7. Follows(flash'[i], flash'[j], k)
      BY <3>5, <3>6 DEF NumbersInv, LineOK
    <3>8. ASSUME Excused(k) PROVE i < PerSector /\ j < PerSector
      BY <1>2, <2>1, <3>4, <3>5, <3>8, Sizes DEF Excused
    <3> QED
      BY <3>7, <3>8 DEF Follows, Misplaced
  <2> QED
    BY <2>2, <2>3, <2>4
<1> QED
  BY <1>4, <1>5, <1>6

\* A chunk that is written moves the write offset into the margin, or wraps it at
\* the end of the partition; the margin keeps its end.
LEMMA WriteKeepsRing ==
  ASSUME RecorderInv, FlushWrite
  PROVE  RingInv'
<1> DEFINE New(i) == writeOff <= i /\ i < writeOff + Chunk
<1>1. task = "flush" /\ margin >= Chunk /\ flash' = Programmed(Chunk)
      /\ eraseNext' = eraseNext /\ margin' = margin - Chunk
      /\ writeOff' = Wrap(writeOff + Chunk) /\ task' \in {"loop", "flush"} /\ note' = note
  BY DEF FlushWrite, numbers
<1>2. RingInv /\ NumbersInv
  BY DEF RecorderInv
<1>3. /\ Chunk \in Nat /\ writeOff + Chunk <= Cap /\ writeOff \in Nat /\ writeOff < Cap
      /\ Chunk <= margin /\ margin \in Nat /\ margin <= Cap
  BY <1>1, <1>2, ChunkFits, Sizes DEF RingInv, PointersOK
<1>4. Chunk \in 0 .. Chunk /\ Programs(Chunk)
  BY <1>1, <1>3 DEF Programs
<1>5. FlashOK' /\ SortedFrom(eraseNext)'
  <2>1. PICK r \in SectorsOf : eraseNext = Start(r)
    BY <1>1, <1>2 DEF RingInv, PointersOK
  <2>2. FlashOK' /\ SortedFrom(Start(r))'
    BY <1>1, <1>2, <1>4, <2>1, ProgramFills, ProgramSorts
  <2> QED
    BY <1>1, <2>1, <2>2 DEF SortedFrom, Before, Misplaced
<1>6. writeOff' = IF writeOff + Chunk < Cap THEN writeOff + Chunk ELSE 0
  <2>1. PICK x \in Nat : x = writeOff + Chunk
    BY <1>3
  <2>2. writeOff' = x % Cap /\ x <= Cap /\ Cap \in Nat /\ Cap > 0
    BY <1>1, <1>3, <2>1, Sizes DEF Wrap
  <2>3. writeOff' = IF x < Cap THEN x ELSE x - Cap
    BY <2>2, Wrapped
  <2> QED
    BY <2>1, <2>2, <2>3
<1>7. /\ \A i \in Slots : New(i) => flash'[i] \in Numbers
      /\ \A i \in Slots : ~New(i) => flash'[i] = flash[i]
  <2>1. \A i \in Slots : New(i) => flash'[i] \in Numbers
    BY <1>1, <1>2, <1>4, ProgramWrites
  <2>2. \A i \in Slots : i \in writeOff .. writeOff + Chunk - 1 => New(i)
    BY <1>3 DEF Slots
  <2> QED
    BY <1>1, <2>1, <2>2 DEF Programmed
<1>8. eraseNext = IF writeOff + margin < Cap THEN writeOff + margin ELSE writeOff + margin - Cap
  BY <1>1, <1>2 DEF RingInv, PointersOK
<1>9. PointersOK'
  <2>1. \E r \in SectorsOf : eraseNext' = Start(r)
    BY <1>1, <1>2 DEF RingInv, PointersOK
  <2>2. writeOff' \in Slots /\ margin' \in 0 .. Cap
    BY <1>1, <1>3, <1>6, Sizes DEF Slots
  <2>3. \A w, m, c, p, e \in Nat :
          w < p /\ w + c <= p /\ c <= m /\ m <= p
          /\ e = (IF w + m < p THEN w + m ELSE w + m - p) =>
            e = IF (IF w + c < p THEN w + c ELSE 0) + (m - c) < p
                THEN (IF w + c < p THEN w + c ELSE 0) + (m - c)
                ELSE (IF w + c < p THEN w + c ELSE 0) + (m - c) - p
    OBVIOUS
  <2>4. eraseNext \in Nat
    BY <1>3, <1>8, Sizes
  <2>5. eraseNext = IF writeOff' + (margin - Chunk) < Cap THEN writeOff' + (margin - Chunk)
                    ELSE writeOff' + (margin - Chunk) - Cap
    BY <1>3, <1>6, <1>8, <2>3, <2>4, Sizes
  <2>6. eraseNext' = IF writeOff' + margin' < Cap THEN writeOff' + margin'
                     ELSE writeOff' + margin' - Cap
    BY <1>1, <2>5
  <2> QED
    BY <2>1, <2>2, <2>6 DEF PointersOK
<1>10. MarginErased'
  <2> SUFFICES ASSUME NEW i \in Slots, InMargin(i)' PROVE flash'[i] = Erased
    BY DEF MarginErased
  <2>1. InMargin(i) /\ ~New(i)
    BY <1>1, <1>3, <1>6, Sizes DEF InMargin, Slots
  <2> QED
    BY <1>1, <1>2, <1>7, <2>1 DEF RingInv, MarginErased
<1>11. WrittenUpTo'
  <2> SUFFICES ASSUME NEW s \in SectorsOf, InSector(s, writeOff'), Start(s) < writeOff'
               PROVE  /\ Holds(Start(s))'
                      /\ \A i \in Slots : Start(s) <= i /\ i < writeOff' => flash'[i] # Erased
    BY DEF WrittenUpTo, InSector
  <2>1. Start(s) \in Nat /\ Start(s) \in Slots
    BY StartOfSector
  <2>2. writeOff' = writeOff + Chunk
    BY <1>6, <2>1
  <2>3. Erased \notin Numbers
    BY RecorderAssumption DEF Erased, Numbers
  <2>4. Start(s) < writeOff => InSector(s, writeOff)
    BY <1>3, <2>1, <2>2, Sizes DEF InSector
  <2>5. Start(s) < writeOff =>
          Holds(Start(s)) /\ \A i \in Slots : Start(s) <= i /\ i < writeOff => flash[i] # Erased
    BY <1>1, <1>2, <2>4 DEF RingInv, WrittenUpTo
  <2>6. Holds(Start(s))'
    <3>1. CASE Start(s) < writeOff
      BY <1>7, <2>1, <2>5, <3>1, <1>3 DEF Holds
    <3>2. CASE ~(Start(s) < writeOff)
      BY <1>3, <1>7, <2>1, <2>2, <3>2 DEF Holds
    <3> QED
      BY <3>1, <3>2
  <2>7. ASSUME NEW i \in Slots, Start(s) <= i, i < writeOff' PROVE flash'[i] # Erased
    <3>1. i \in Nat
      BY DEF Slots
    <3>2. CASE i < writeOff
      BY <1>3, <1>7, <2>1, <2>5, <2>7, <3>1, <3>2
    <3>3. CASE ~(i < writeOff)
      BY <1>3, <1>7, <2>2, <2>3, <2>7, <3>1, <3>3
    <3> QED
      BY <3>2, <3>3
  <2> QED
    BY <2>6, <2>7
<1> QED
  BY <1>1, <1>5, <1>9, <1>10, <1>11 DEF RingInv

\* The rest of a batch.
LEMMA RestOfBatch ==
  ASSUME NEW b \in Seq(Nat), NEW c \in 0 .. Len(b)
  PROVE  /\ SubSeq(b, c + 1, Len(b)) \in Seq(Nat)
         /\ Len(SubSeq(b, c + 1, Len(b))) = Len(b) - c
         /\ \A k \in 1 .. Len(b) - c : SubSeq(b, c + 1, Len(b))[k] = b[c + k]
         /\ Range(SubSeq(b, c + 1, Len(b))) = {b[k] : k \in (c + 1) .. Len(b)}
<1> DEFINE r == SubSeq(b, c + 1, Len(b))
<1>1. Len(b) \in Nat /\ c \in Nat /\ c <= Len(b)
  OBVIOUS
<1>2. /\ r \in Seq(Nat) /\ Len(r) = Len(b) - c
      /\ \A k \in 1 .. Len(b) - c : r[k] = b[c + k]
  <2>1. \A k \in (c + 1) .. Len(b) : b[k] \in Nat
    BY <1>1
  <2>2. r \in Seq(Nat)
    BY <1>1, <2>1, SubSeqProperties
  <2>3. Len(r) = IF c + 1 <= Len(b) THEN Len(b) - (c + 1) + 1 ELSE 0
    BY <1>1, <2>1, SubSeqProperties
  <2>4. \A k \in 1 .. Len(b) - (c + 1) + 1 : r[k] = b[c + 1 + k - 1]
    BY <1>1, <2>1, SubSeqProperties
  <2> HIDE DEF r
  <2>5. Len(r) = Len(b) - c
    BY <1>1, <2>3
  <2>6. Len(b) - (c + 1) + 1 = Len(b) - c /\ \A k \in Nat : c + 1 + k - 1 = c + k
    BY <1>1
  <2>7. \A k \in 1 .. Len(b) - c : r[k] = b[c + k]
    BY <2>4, <2>6
  <2> QED
    BY <2>2, <2>5, <2>7
<1> HIDE DEF r
<1>3. DOMAIN r = 1 .. Len(b) - c /\ DOMAIN b = 1 .. Len(b)
  BY <1>2
<1>4. \A k \in 1 .. Len(b) - c : c + k \in (c + 1) .. Len(b)
  BY <1>1
<1>5. \A k \in (c + 1) .. Len(b) : k - c \in 1 .. Len(b) - c /\ c + (k - c) = k
  BY <1>1
<1>6. Range(r) = {b[k] : k \in (c + 1) .. Len(b)}
  <2>1. \A k \in DOMAIN r : r[k] \in {b[x] : x \in (c + 1) .. Len(b)}
    BY <1>2, <1>3, <1>4
  <2>2. \A k \in (c + 1) .. Len(b) : b[k] = r[k - c] /\ k - c \in DOMAIN r
    BY <1>2, <1>3, <1>5
  <2> QED
    BY <2>1, <2>2 DEF Range
<1> QED
  BY <1>2, <1>6 DEF r

\* When a batch loses its first c records, the line moves up.
LEMMA BatchShrinks ==
  ASSUME buf \in Seq(Nat), queue \in Seq(Nat), pending \in Nat \cup {NoNumber},
         NEW c \in 0 .. Len(buf), buf' \in Seq(Nat), Len(buf') = Len(buf) - c,
         \A k \in 1 .. Len(buf) - c : buf'[k] = buf[c + k],
         queue' = queue, pending' = pending
  PROVE  /\ Length' = Length - c /\ Length' \in Nat /\ Length' + c <= Length
         /\ \A k \in 1 .. Length' : Line(k)' = Line(k + c)
<1>1. /\ Length \in Nat /\ Len(buf) <= Length /\ Len(buf) \in Nat /\ Len(queue) \in Nat
      /\ c \in Nat /\ c <= Len(buf)
  BY InTheLine
<1>2. Length' = Length - c /\ Length' \in Nat /\ Length' + c <= Length
  BY <1>1 DEF Length
<1>3. ASSUME NEW k \in 1 .. Length' PROVE Line(k)' = Line(k + c)
  <2>1. /\ k \in Nat /\ 1 <= k /\ (k <= Len(buf') <=> k + c <= Len(buf))
        /\ (k <= Len(buf') + Len(queue) <=> k + c <= Len(buf) + Len(queue))
        /\ k - Len(buf') = (k + c) - Len(buf)
        /\ (k <= Len(buf') => k \in 1 .. Len(buf) - c) /\ c + k = k + c
    BY <1>1, <1>2
  <2> QED
    BY <2>1 DEF Line
<1> QED
  BY <1>2, <1>3

\* What is written leaves the batch for the flash, and the line moves up.
LEMMA WriteKeepsNumbers ==
  ASSUME RecorderInv, FlushWrite
  PROVE  NumbersInv' /\ HeadsInv'
<1>1. task = "flush" /\ margin >= Chunk /\ flash' = Programmed(Chunk)
      /\ eraseNext' = eraseNext /\ task' \in {"loop", "flush"}
      /\ seq' = seq /\ heads' = heads /\ note' = note /\ queue' = queue /\ pending' = pending
      /\ buf' = SubSeq(buf, Chunk + 1, Len(buf))
      /\ writeOff' = Wrap(writeOff + Chunk) /\ margin' = margin - Chunk
  BY DEF FlushWrite, numbers
<1>2. RingInv /\ NumbersInv /\ HeadsInv
  BY DEF RecorderInv
<1>3. /\ seq \in Nat /\ seq <= MaxSeq /\ buf \in Seq(Nat) /\ queue \in Seq(Nat)
      /\ note \in Nat \cup {NoNumber} /\ pending \in Nat \cup {NoNumber} /\ note < seq
      /\ LineOK /\ Below(Stored, {seq})
  BY <1>1, <1>2 DEF NumbersInv
<1>4. Chunk \in 0 .. Len(buf) /\ Chunk \in 0 .. Chunk /\ Programs(Chunk) /\ Chunk \in Nat
  BY <1>1, <1>2, <1>3, ChunkFits DEF Programs
<1>5. /\ buf' \in Seq(Nat) /\ Len(buf') = Len(buf) - Chunk
      /\ \A k \in 1 .. Len(buf) - Chunk : buf'[k] = buf[Chunk + k]
  BY <1>1, <1>3, <1>4, RestOfBatch
<1>6. /\ \A x \in Stored' : x \in Stored \/ \E k \in 1 .. Chunk : x = buf[k]
      /\ \A k \in 1 .. Chunk : buf[k] \in Stored'
      /\ Stored \subseteq Stored'
  <2>1. PICK r \in SectorsOf : eraseNext = Start(r)
    BY <1>1, <1>2 DEF RingInv, PointersOK
  <2> QED
    BY <1>1, <1>2, <1>4, <2>1, ProgramSorts
<1>7. /\ Length \in Nat /\ Len(buf) <= Length /\ Len(buf) \in Nat /\ Len(queue) \in Nat
      /\ \A k \in 1 .. Len(buf) : k \in InLine /\ Line(k) = buf[k]
  BY <1>3, InTheLine
<1>8. Length' = Length - Chunk /\ Length' \in Nat
  BY <1>1, <1>3, <1>4, <1>5, BatchShrinks
<1>9. \A k \in 1 .. Length' : Line(k)' = Line(k + Chunk)
  BY <1>1, <1>3, <1>4, <1>5, BatchShrinks
<1>10. ASSUME NEW k \in 1 .. Length', Excused(k + Chunk) PROVE Excused(k)'
  <2>1. /\ writeOff \in Nat /\ writeOff < Cap /\ margin \in Nat /\ Cap \in Nat /\ PerSector \in Nat
        /\ PerSector < Cap /\ k \in Nat /\ k >= 1
    BY <1>2, <1>1, <1>8, Sizes DEF RingInv, PointersOK, Slots
  <2>2. heads = {} /\ margin = Cap - writeOff /\ writeOff + (k + Chunk) <= PerSector
    BY <1>10 DEF Excused
  <2>3. PICK w \in Nat : w = writeOff + Chunk /\ w < Cap
    BY <1>4, <2>1, <2>2
  <2>4. writeOff' = w
    BY <1>1, <2>1, <2>3, Wrapped DEF Wrap
  <2>5. margin' = Cap - writeOff' /\ writeOff' + k <= PerSector
    <3>1. margin' = margin - Chunk /\ margin = Cap - writeOff /\ Chunk \in Nat
          /\ writeOff + (k + Chunk) <= PerSector /\ writeOff' = writeOff + Chunk
      BY <1>1, <1>4, <2>2, <2>3, <2>4
    <3>2. \A c, a, o, e \in Nat : (c - a) - o = c - (a + o)
                                 /\ (a + (e + o) <= PerSector => (a + o) + e <= PerSector)
      BY <2>1
    <3>3. margin - Chunk = Cap - (writeOff + Chunk) /\ (writeOff + Chunk) + k <= PerSector
      BY <2>1, <3>1, <3>2
    <3> QED
      BY <3>1, <3>3
  <2> QED
    BY <1>1, <2>2, <2>5 DEF Excused
<1>11. \A x \in Stored' : x \in Stored \/ \E i \in 1 .. Chunk : x = Line(i)
  BY <1>4, <1>6, <1>7
<1>12. LineOK'
  <2>1. Length' + Chunk <= Length
    BY <1>4, <1>7, <1>8
  <2> QED
    BY <1>1, <1>3, <1>4, <1>7, <1>8, <1>9, <1>10, <1>11, <2>1, LineMoves
<1>13. Below(Stored', {seq'})
  <2>1. \A k \in 1 .. Chunk : Line(k) < seq
    BY <1>3, <1>4, <1>7 DEF LineOK
  <2> QED
    BY <1>1, <1>3, <1>11, <2>1 DEF Below
<1>14. NumbersInv'
  BY <1>1, <1>3, <1>5, <1>12, <1>13 DEF NumbersInv
<1>15. /\ \A x \in Stored \cup Lined : x \in Stored' \cup Lined'
       /\ \A x \in Stored' \cup Lined' : x \in Stored \cup Lined
  <2>1. ASSUME NEW k \in InLine PROVE Line(k) \in Stored' \cup Lined'
    <3>1. CASE k <= Chunk
      BY <1>4, <1>6, <1>7, <3>1 DEF InLine
    <3>2. CASE ~(k <= Chunk)
      <4>1. PICK j \in 1 .. Length' : j + Chunk = k
        <5>1. k \in 1 .. Length
          BY DEF InLine
        <5>2. k - Chunk \in 1 .. Length' /\ (k - Chunk) + Chunk = k
          BY <1>4, <1>7, <1>8, <3>2, <5>1
        <5> QED
          BY <5>2
      <4>2. Line(j)' = Line(k)
        BY <1>9, <4>1
      <4> QED
        BY <4>1, <4>2 DEF Lined, InLine
    <3> QED
      BY <3>1, <3>2
  <2>2. ASSUME NEW k \in 1 .. Length' PROVE Line(k)' \in Lined
    <3>1. k + Chunk \in InLine
      BY <1>4, <1>7, <1>8 DEF InLine
    <3> QED
      BY <1>9, <3>1 DEF Lined
  <2>3. \A k \in 1 .. Chunk : Line(k) \in Lined
    BY <1>4, <1>7 DEF Lined
  <2> QED
    BY <1>6, <1>11, <2>1, <2>2, <2>3 DEF Lined, InLine
<1>16. HeadsInv'
  BY <1>1, <1>2, <1>15 DEF HeadsInv, Below
<1> QED
  BY <1>14, <1>16

(***************************************************************************)
(* The other steps of the writer, and its producers                        *)
(***************************************************************************)

\* What depends on the ring only.
LEMMA SameRing ==
  ASSUME UNCHANGED ring, note' = note
  PROVE  /\ FlashOK => FlashOK'
         /\ PointersOK => PointersOK'
         /\ MarginErased => MarginErased'
         /\ WrittenUpTo => WrittenUpTo'
         /\ SortedFrom(eraseNext) => SortedFrom(eraseNext)'
         /\ Stored' = Stored
<1>1. flash' = flash /\ writeOff' = writeOff /\ margin' = margin /\ eraseNext' = eraseNext
  BY DEF ring
<1>2. FlashOK => FlashOK'
  BY <1>1 DEF FlashOK, FlashType, FilledFromFront, NumbersFirst, Holds, InSector
<1>3. PointersOK => PointersOK'
  BY <1>1 DEF PointersOK
<1>4. MarginErased => MarginErased'
  BY <1>1 DEF MarginErased, InMargin
<1>5. WrittenUpTo => WrittenUpTo'
  BY <1>1 DEF WrittenUpTo, Holds, InSector
<1>6. SortedFrom(eraseNext) => SortedFrom(eraseNext)'
  BY <1>1 DEF SortedFrom, Holds, Before, Misplaced
<1>7. Stored' = Stored
  BY <1>1 DEF Stored
<1> QED
  BY <1>2, <1>3, <1>4, <1>5, <1>6, <1>7

\* A queue or a batch, one record longer.
LEMMA OneMore ==
  ASSUME NEW q \in Seq(Nat), NEW n \in Nat
  PROVE  /\ Append(q, n) \in Seq(Nat) /\ Len(Append(q, n)) = Len(q) + 1 /\ Len(q) \in Nat
         /\ \A k \in 1 .. Len(q) : Append(q, n)[k] = q[k]
         /\ Append(q, n)[Len(q) + 1] = n
OBVIOUS

\* What is received is the first of the queue.
LEMMA OneLess ==
  ASSUME NEW q \in Seq(Nat), q # <<>>
  PROVE  /\ Len(q) \in Nat /\ Len(q) > 0 /\ Head(q) = q[1] /\ Head(q) \in Nat
         /\ Tail(q) \in Seq(Nat) /\ Len(Tail(q)) = Len(q) - 1
         /\ \A k \in 1 .. Len(q) - 1 : Tail(q)[k] = q[k + 1]
OBVIOUS

\* The task of the writer changes, the ring and what waits do not.
LEMMA IdleKeeps ==
  ASSUME RecorderInv, task # "off",
         TakeNumber \/ Enqueue \/ RequestErase \/ (\E active \in BOOLEAN : SetFlight(active))
              \/ TakeRequest \/ Receive \/ FlushTimeout \/ FlushGivesUp
  PROVE  RingInv'
<1>1. UNCHANGED ring /\ note' = note
  BY DEF TakeNumber, Enqueue, RequestErase, SetFlight, TakeRequest, Receive, FlushTimeout,
         FlushGivesUp, numbers
<1>2. RingInv
  BY DEF RecorderInv
<1>3. FlashOK' /\ PointersOK' /\ MarginErased' /\ SortedFrom(eraseNext)'
      /\ (WrittenUpTo => WrittenUpTo')
  BY <1>1, <1>2, SameRing DEF RingInv
<1>4. flash' = flash
  BY <1>1 DEF ring
<1>5. CASE TakeNumber \/ Enqueue \/ RequestErase \/ \E active \in BOOLEAN : SetFlight(active)
  <2>1. task' = task /\ block' = block
    BY <1>5 DEF TakeNumber, Enqueue, RequestErase, SetFlight
  <2> QED
    BY <1>2, <1>3, <1>4, <2>1 DEF RingInv
<1>6. CASE TakeRequest
  <2>1. task = "loop" /\ task' \in {"loop", "erasing"} /\ block' = 0
    BY <1>6 DEF TakeRequest
  <2>2. \A i \in Slots : i \div PerSector \in Nat
    BY SectorOfSlot DEF SectorsOf
  <2>3. task' = "erasing" =>
          block' \in Nat /\ \A i \in Slots : i \div PerSector < block' => flash'[i] = Erased
    BY <2>1, <2>2
  <2> QED
    BY <1>2, <1>3, <2>1, <2>3 DEF RingInv
<1>7. CASE Receive \/ FlushTimeout \/ FlushGivesUp
  <2>1. task \in {"loop", "flush"} /\ task' \in {"loop", "flush"}
    BY <1>7 DEF Receive, FlushTimeout, FlushGivesUp
  <2> QED
    BY <1>2, <1>3, <2>1 DEF RingInv
<1> QED
  BY <1>5, <1>6, <1>7

\* A step that takes nothing from the line and adds nothing to it.
LEMMA SameLine ==
  ASSUME LineOK, Length \in Nat, Length' \in Nat, Length' <= Length,
         \A k \in 1 .. Length' : Line(k)' = Line(k),
         flash' = flash, writeOff' = writeOff, margin' = margin, heads' \subseteq heads,
         seq' = seq, note' = note
  PROVE  LineOK' /\ Lined' \subseteq Lined /\ (Length' = Length => Lined' = Lined)
<1>1. \A k \in 1 .. Length' : Line(k)' = Line(k + 0)
  OBVIOUS
<1>2. \A k \in 1 .. Length' : Excused(k + 0) => Excused(k)'
  BY DEF Excused
<1>3. Stored' = Stored /\ 0 \in Nat /\ Length' + 0 <= Length
  <2>1. Stored' = Stored
    BY DEF Stored
  <2>2. \A m, n \in Nat : m <= n => m + 0 <= n
    OBVIOUS
  <2>3. Length' + 0 <= Length
    BY <2>2, Zenon
  <2> QED
    BY <2>1, <2>3
<1>4. LineOK'
  BY <1>1, <1>2, <1>3, LineMoves
<1>5. \A k \in 1 .. Length' : k \in InLine
  BY DEF InLine
<1>6. Lined' \subseteq Lined
  BY <1>5 DEF Lined, InLine
<1>7. Length' = Length => Lined' = Lined
  BY DEF Lined, InLine
<1> QED
  BY <1>4, <1>6, <1>7

\* A number is taken by nav_task.
LEMMA TakeNumberKeeps ==
  ASSUME RecorderInv, TakeNumber
  PROVE  NumbersInv' /\ HeadsInv'
<1>1. /\ task # "off" /\ pending = NoNumber /\ seq < MaxSeq - 1
      /\ task \in {"cleared", "noting"} => Len(queue) < Overtakes
      /\ pending' = seq /\ seq' = seq + 1 /\ heads' = heads /\ note' = note /\ task' = task
      /\ queue' = queue /\ buf' = buf /\ flash' = flash /\ writeOff' = writeOff /\ margin' = margin
      /\ UNCHANGED <<ring, heads, note>>
  BY DEF TakeNumber, ring
<1>2. /\ seq \in Nat /\ MaxSeq \in Nat /\ buf \in Seq(Nat) /\ queue \in Seq(Nat) /\ LineOK
      /\ note \in Nat \cup {NoNumber} /\ pending \in Nat \cup {NoNumber} /\ note < seq
      /\ Below(Stored, {seq}) /\ (task \in {"cleared", "noting"} => ClearedOK)
  BY <1>1, RecorderAssumption DEF RecorderInv, NumbersInv
<1>3. Length \in Nat /\ Length = Len(buf) + Len(queue) /\ Length' = Length + 1
      /\ Len(buf) \in Nat /\ Len(queue) \in Nat
  <2>1. seq # NoNumber
    BY <1>2 DEF NoNumber
  <2> QED
    BY <1>1, <1>2, <2>1 DEF Length
<1>4. \A k \in InLine : Line(k)' = Line(k) /\ Line(k) \in Nat
  <2>1. \A k \in InLine : k <= Len(buf) + Len(queue) /\ Line(k) \in Nat
    BY <1>2, <1>3, InTheLine DEF InLine
  <2> QED
    BY <1>1, <2>1 DEF Line
<1>12. PICK n \in Nat : n = Length + 1
  BY <1>3
<1>5. Line(n)' = seq
  <2>1. ~(n <= Len(buf)) /\ ~(n <= Len(buf) + Len(queue))
    BY <1>3, <1>12
  <2> QED
    BY <1>1, <2>1 DEF Line
<1>6. LineOK'
  BY <1>1, <1>2, <1>3, <1>4, <1>5, <1>12, LineGrows
<1>7. Stored' = Stored /\ \A x \in Stored : x \in Nat /\ x < seq /\ x < seq + 1
  <2>1. \A x \in Stored : x \in Nat /\ x < seq
    BY <1>2 DEF Below, Stored, Numbers
  <2> QED
    BY <1>1, <1>2, <2>1 DEF Stored
<1>8. InLine' = InLine \cup {n}
  BY <1>3, <1>12 DEF InLine
<1>9. task \in {"cleared", "noting"} => ClearedOK'
  <2> SUFFICES ASSUME task \in {"cleared", "noting"} PROVE ClearedOK'
    OBVIOUS
  <2>1. ClearedOK /\ Length' <= Overtakes
    <3>1. ClearedOK /\ Len(queue) < Overtakes /\ Len(buf) = 0 /\ Overtakes \in Nat
      BY <1>1, <1>2, RecorderAssumption DEF ClearedOK
    <3> QED
      BY <1>3, <3>1
  <2>2. ASSUME task = "noting", NEW k \in InLine' PROVE Line(k)' # note
    <3>1. CASE k \in InLine
      BY <1>4, <2>1, <2>2, <3>1 DEF ClearedOK
    <3>2. CASE k = n
      BY <1>2, <1>5, <2>1, <2>2, <3>2 DEF ClearedOK
    <3> QED
      BY <1>8, <3>1, <3>2
  <2> QED
    BY <1>1, <2>1, <2>2 DEF ClearedOK
<1>10. NumbersInv'
  <2>1. /\ note' < seq' /\ seq' \in Nat /\ seq' <= MaxSeq /\ seq' < MaxSeq
    BY <1>1, <1>2 DEF NoNumber
  <2>2. Below(Stored', {seq'})
    BY <1>1, <1>7 DEF Below
  <2> QED
    BY <1>1, <1>2, <1>6, <1>9, <2>1, <2>2 DEF NumbersInv
<1>11. HeadsInv'
  <2>1. Lined' = Lined \cup {seq}
    BY <1>4, <1>5, <1>8 DEF Lined
  <2> SUFFICES ASSUME NEW h \in heads
               PROVE  h \in Nat /\ h # seq /\ h < seq + 1
                      /\ (h \in Stored \cup Lined' \/ Below({h}, Stored \cup Lined'))
    BY <1>1, <1>7 DEF HeadsInv
  <2>2. h \in Nat /\ h < seq /\ (h \in Stored \cup Lined \/ Below({h}, Stored \cup Lined))
    BY <1>1 DEF RecorderInv, HeadsInv
  <2> QED
    BY <1>2, <2>1, <2>2 DEF Below
<1> QED
  BY <1>10, <1>11

\* What nav_task has numbered is queued, or dropped.
LEMMA EnqueueLine ==
  ASSUME RecorderInv, Enqueue, task # "off"
  PROVE  /\ buf \in Seq(Nat) /\ queue \in Seq(Nat) /\ queue' \in Seq(Nat) /\ pending \in Nat
         /\ Length \in Nat /\ Length' \in Nat /\ Length' <= Length
         /\ \A k \in 1 .. Length' : Line(k)' = Line(k)
         /\ Length' = Length \/ (Length' = Length - 1 /\ Line(Length) = pending)
<1>1. pending # NoNumber /\ pending' = NoNumber /\ buf' = buf
      /\ (queue' = Append(queue, pending) \/ queue' = queue)
  BY DEF Enqueue, Queued
<1>2. buf \in Seq(Nat) /\ queue \in Seq(Nat) /\ pending \in Nat
  BY <1>1 DEF RecorderInv, NumbersInv
<1>3. /\ Append(queue, pending) \in Seq(Nat) /\ Len(Append(queue, pending)) = Len(queue) + 1
      /\ \A k \in 1 .. Len(queue) : Append(queue, pending)[k] = queue[k]
      /\ Append(queue, pending)[Len(queue) + 1] = pending
      /\ Len(queue) \in Nat /\ Len(buf) \in Nat
  BY <1>2, OneMore
<1>4. Length = Len(buf) + Len(queue) + 1 /\ Length' = Len(buf) + Len(queue')
  BY <1>1, <1>3 DEF Length
<1>5. CASE queue' = queue
  <2>1. \A k \in 1 .. Length' : k <= Len(buf) + Len(queue)
    BY <1>3, <1>4, <1>5
  <2>2. \A k \in 1 .. Length' : Line(k)' = Line(k)
    BY <1>1, <1>5, <2>1 DEF Line
  <2>3. ~(Length <= Len(buf)) /\ ~(Length <= Len(buf) + Len(queue))
    BY <1>3, <1>4
  <2>4. Line(Length) = pending
    BY <2>3 DEF Line
  <2> QED
    BY <1>2, <1>3, <1>4, <1>5, <2>2, <2>4
<1>6. CASE queue' = Append(queue, pending)
  <2>1. Len(queue') = Len(queue) + 1 /\ queue'[Len(queue) + 1] = pending
        /\ \A k \in 1 .. Len(queue) : queue'[k] = queue[k]
    BY <1>3, <1>6
  <2>2. ASSUME NEW k \in 1 .. Length' PROVE Line(k)' = Line(k)
    <3>1. k \in Nat /\ 1 <= k /\ k <= Len(buf) + Len(queue) + 1
      BY <1>3, <1>4, <2>1
    <3>2. CASE k <= Len(buf)
      BY <1>1, <3>2 DEF Line
    <3>3. CASE ~(k <= Len(buf)) /\ k <= Len(buf) + Len(queue)
      <4>1. k - Len(buf) \in 1 .. Len(queue) /\ k <= Len(buf) + Len(queue')
        BY <1>3, <2>1, <3>1, <3>3
      <4> QED
        BY <1>1, <2>1, <3>3, <4>1 DEF Line
    <3>4. CASE ~(k <= Len(buf)) /\ ~(k <= Len(buf) + Len(queue))
      <4>1. k - Len(buf) = Len(queue) + 1 /\ k <= Len(buf) + Len(queue')
        BY <1>3, <2>1, <3>1, <3>4
      <4> QED
        BY <1>1, <2>1, <3>4, <4>1 DEF Line
    <3> QED
      BY <3>2, <3>3, <3>4
  <2> QED
    BY <1>2, <1>3, <1>4, <1>6, <2>1, <2>2
<1> QED
  BY <1>1, <1>5, <1>6

\* A record that is received goes from the head of the queue to the end of the
\* batch, which is where it stood in the line.
LEMMA ReceiveLine ==
  ASSUME RecorderInv, Receive
  PROVE  /\ buf \in Seq(Nat) /\ queue \in Seq(Nat) /\ buf' \in Seq(Nat) /\ queue' \in Seq(Nat)
         /\ Length \in Nat /\ Length' = Length
         /\ \A k \in 1 .. Length' : Line(k)' = Line(k)
<1>1. /\ task = "loop" /\ queue # <<>> /\ buf' = Append(buf, Head(queue)) /\ queue' = Tail(queue)
      /\ pending' = pending
  BY DEF Receive
<1>2. buf \in Seq(Nat) /\ queue \in Seq(Nat) /\ pending \in Nat \cup {NoNumber}
  BY <1>1 DEF RecorderInv, NumbersInv
<1>3. /\ Len(queue) \in Nat /\ Len(queue) > 0 /\ Head(queue) = queue[1] /\ Head(queue) \in Nat
      /\ queue' \in Seq(Nat) /\ Len(queue') = Len(queue) - 1
      /\ \A k \in 1 .. Len(queue) - 1 : queue'[k] = queue[k + 1]
  BY <1>1, <1>2, OneLess
<1>4. /\ buf' \in Seq(Nat) /\ Len(buf') = Len(buf) + 1 /\ Len(buf) \in Nat
      /\ \A k \in 1 .. Len(buf) : buf'[k] = buf[k]
      /\ buf'[Len(buf) + 1] = Head(queue)
  BY <1>1, <1>2, <1>3, OneMore
<1>5. Length' = Length /\ Length \in Nat
  BY <1>1, <1>3, <1>4 DEF Length
<1>6. ASSUME NEW k \in 1 .. Length' PROVE Line(k)' = Line(k)
  <2>1. k \in Nat /\ 1 <= k
    BY <1>5
  <2>2. CASE k <= Len(buf)
    <3>1. k <= Len(buf') /\ k \in 1 .. Len(buf)
      BY <1>4, <2>1, <2>2
    <3> QED
      BY <1>4, <2>2, <3>1 DEF Line
  <2>3. CASE k = Len(buf) + 1
    <3>1. k <= Len(buf') /\ ~(k <= Len(buf)) /\ k <= Len(buf) + Len(queue) /\ k - Len(buf) = 1
      BY <1>3, <1>4, <2>3
    <3> QED
      BY <1>3, <1>4, <2>3, <3>1 DEF Line
  <2>4. CASE ~(k <= Len(buf)) /\ k # Len(buf) + 1 /\ k <= Len(buf) + Len(queue)
    <3>1. /\ ~(k <= Len(buf')) /\ k <= Len(buf') + Len(queue')
          /\ k - Len(buf') \in 1 .. Len(queue) - 1 /\ k - Len(buf') + 1 = k - Len(buf)
      BY <1>3, <1>4, <2>1, <2>4
    <3> QED
      BY <1>3, <2>4, <3>1 DEF Line
  <2>5. CASE ~(k <= Len(buf)) /\ ~(k <= Len(buf) + Len(queue))
    <3>1. ~(k <= Len(buf')) /\ ~(k <= Len(buf') + Len(queue'))
      BY <1>3, <1>4, <2>1, <2>5
    <3> QED
      BY <1>1, <2>5, <3>1 DEF Line
  <2> QED
    BY <2>2, <2>3, <2>4, <2>5
<1> QED
  BY <1>2, <1>3, <1>4, <1>5, <1>6

\* Steps that change neither the ring nor the numbers.
LEMMA IdleKeepsNumbers ==
  ASSUME RecorderInv, task # "off",
         Enqueue \/ RequestErase \/ (\E active \in BOOLEAN : SetFlight(active))
              \/ TakeRequest \/ Receive \/ FlushTimeout
  PROVE  NumbersInv' /\ HeadsInv'
<1>1. /\ flash' = flash /\ writeOff' = writeOff /\ margin' = margin
      /\ seq' = seq /\ heads' = heads /\ note' = note
  BY DEF Enqueue, RequestErase, SetFlight, TakeRequest, Receive, FlushTimeout, ring, numbers
<1>2. /\ seq \in Nat /\ seq <= MaxSeq /\ (task \in {"erasing", "cleared"} => seq < MaxSeq)
      /\ buf \in Seq(Nat) /\ queue \in Seq(Nat) /\ LineOK
      /\ note \in Nat \cup {NoNumber} /\ pending \in Nat \cup {NoNumber} /\ note < seq
      /\ Below(Stored, {seq}) /\ (task \in {"cleared", "noting"} => ClearedOK)
  BY DEF RecorderInv, NumbersInv
<1>3. HeadsInv /\ Stored' = Stored
  BY <1>1 DEF RecorderInv, Stored
<1>4. CASE RequestErase \/ (\E active \in BOOLEAN : SetFlight(active)) \/ TakeRequest \/ FlushTimeout
  <2>1. /\ task' # "off" /\ (task' \in {"erasing", "cleared"} => seq < MaxSeq)
        /\ (task' \in {"cleared", "noting"} => task' = task)
        /\ buf' = buf /\ queue' = queue /\ pending' = pending
    BY <1>2, <1>4 DEF RequestErase, SetFlight, TakeRequest, FlushTimeout, InBound
  <2>2. Length' = Length /\ InLine' = InLine /\ Lined' = Lined /\ \A k : Line(k)' = Line(k)
    BY <2>1 DEF Length, InLine, Lined, Line
  <2>3. LineOK'
    BY <1>1, <1>2, <1>3, <2>2 DEF LineOK, Follows, Excused
  <2>4. task' \in {"cleared", "noting"} => ClearedOK'
    BY <1>1, <1>2, <2>1, <2>2 DEF ClearedOK
  <2>5. NumbersInv'
    BY <1>1, <1>2, <1>3, <2>1, <2>3, <2>4 DEF NumbersInv
  <2> QED
    BY <1>1, <1>3, <2>1, <2>2, <2>5 DEF HeadsInv
<1>5. CASE Receive
  <2>1. task = "loop" /\ task' \in {"loop", "flush"} /\ pending' = pending
    BY <1>5 DEF Receive
  <2>2. buf' \in Seq(Nat) /\ queue' \in Seq(Nat) /\ LineOK' /\ Lined' = Lined
    <3>1. /\ buf' \in Seq(Nat) /\ queue' \in Seq(Nat) /\ Length \in Nat /\ Length' = Length
          /\ \A k \in 1 .. Length' : Line(k)' = Line(k)
      BY <1>5, ReceiveLine
    <3>2. Length' \in Nat /\ Length' <= Length
      BY <3>1
    <3> QED
      BY <1>1, <1>2, <3>1, <3>2, SameLine
  <2>3. NumbersInv'
    BY <1>1, <1>2, <1>3, <2>1, <2>2 DEF NumbersInv
  <2> QED
    BY <1>1, <1>3, <2>1, <2>2, <2>3 DEF HeadsInv
<1>6. CASE Enqueue
  <2>1. task' = task /\ pending' = NoNumber /\ buf' = buf
    BY <1>6 DEF Enqueue
  <2>2. /\ queue' \in Seq(Nat) /\ Length \in Nat /\ Length' \in Nat /\ Length' <= Length
        /\ \A k \in 1 .. Length' : Line(k)' = Line(k)
        /\ Length' = Length \/ (Length' = Length - 1 /\ Line(Length) = pending)
    BY <1>6, EnqueueLine
  <2>3. LineOK' /\ Lined' \subseteq Lined /\ (Length' = Length => Lined' = Lined)
    BY <1>1, <1>2, <2>2, SameLine
  <2>4. task \in {"cleared", "noting"} => ClearedOK'
    <3> SUFFICES ASSUME ClearedOK PROVE ClearedOK'
      BY <1>2
    <3>1. Overtakes \in Nat /\ Length' <= Overtakes
      BY <2>2, RecorderAssumption DEF ClearedOK
    <3>2. \A k \in InLine' : k \in InLine /\ Line(k)' = Line(k)
      BY <2>2 DEF InLine
    <3> QED
      BY <1>1, <2>1, <3>1, <3>2 DEF ClearedOK
  <2>5. NumbersInv'
    BY <1>1, <1>2, <1>3, <2>1, <2>2, <2>3, <2>4 DEF NumbersInv
  <2>6. HeadsInv'
    <3> SUFFICES ASSUME NEW h \in heads
                 PROVE  h \in Nat /\ h # NoNumber /\ h < seq
                        /\ (h \in Stored \cup Lined' \/ Below({h}, Stored \cup Lined'))
      BY <1>1, <1>3, <2>1 DEF HeadsInv
    <3>1. /\ h \in Nat /\ h # pending /\ h < seq
          /\ (h \in Stored \cup Lined \/ Below({h}, Stored \cup Lined))
      BY <1>3 DEF HeadsInv
    <3>2. ASSUME NEW k \in InLine, h = Line(k) PROVE h \in Lined'
      <4>1. k \in 1 .. Length' \/ (k = Length /\ Line(Length) = pending)
        BY <2>2 DEF InLine
      <4> QED
        BY <2>2, <3>1, <3>2, <4>1 DEF Lined, InLine
    <3>3. h \in Lined => h \in Lined'
      BY <3>2 DEF Lined
    <3>4. h # NoNumber
      BY <3>1 DEF NoNumber
    <3> QED
      BY <2>3, <3>1, <3>3, <3>4 DEF Below
  <2> QED
    BY <2>5, <2>6
<1> QED
  BY <1>4, <1>5, <1>6

\* A batch is given up when the margin does not reach to the end of the partition,
\* and then nothing is out of its turn any more.
LEMMA GivenUpNotExcused ==
  ASSUME RingInv, task = "flush", margin < Chunk, Len(buf) \in Nat
  PROVE  \A k : ~Excused(k)
<1>1. writeOff \in Nat /\ writeOff < Cap /\ margin \in Nat /\ Cap \in Nat
  BY Sizes DEF RingInv, PointersOK, Slots
<1>2. margin # Cap - writeOff
  BY <1>1 DEF Chunk, Smaller
<1> QED
  BY <1>2 DEF Excused

\* The others move up.
LEMMA GivesUpKeeps ==
  ASSUME RecorderInv, FlushGivesUp
  PROVE  NumbersInv' /\ HeadsInv'
<1>1. /\ task = "flush" /\ task' = "loop" /\ margin < Chunk
      /\ buf' = <<>> /\ heads' = heads \ Range(buf)
      /\ flash' = flash /\ seq' = seq /\ note' = note /\ queue' = queue /\ pending' = pending
  BY DEF FlushGivesUp, ring
<1>2. RingInv /\ NumbersInv /\ HeadsInv
  BY DEF RecorderInv
<1>3. /\ seq \in Nat /\ seq <= MaxSeq /\ buf \in Seq(Nat) /\ queue \in Seq(Nat) /\ LineOK
      /\ note \in Nat \cup {NoNumber} /\ pending \in Nat \cup {NoNumber} /\ note < seq
      /\ Below(Stored, {seq})
  BY <1>1, <1>2 DEF NumbersInv
<1>4. /\ Length \in Nat /\ Len(buf) <= Length /\ Len(buf) \in Nat /\ Len(queue) \in Nat
      /\ \A k \in 1 .. Len(buf) : k \in InLine /\ Line(k) = buf[k]
  BY <1>3, InTheLine
<1>5. buf' \in Seq(Nat) /\ Len(buf') = 0 /\ Stored' = Stored
  BY <1>1 DEF Stored
<1>6. Length' = Length - Len(buf) /\ Length' \in Nat /\ Length' + Len(buf) <= Length
      /\ \A k \in 1 .. Length' : Line(k)' = Line(k + Len(buf))
  <2>1. Len(buf) \in 0 .. Len(buf) /\ Len(buf') = Len(buf) - Len(buf)
        /\ \A k \in 1 .. Len(buf) - Len(buf) : buf'[k] = buf[Len(buf) + k]
    BY <1>4, <1>5
  <2> QED
    BY <1>1, <1>3, <1>5, <2>1, BatchShrinks
<1>7. \A k \in 1 .. Length' : Line(k)' = Line(k + Len(buf))
  BY <1>6
<1>8. \A k : ~Excused(k)
  BY <1>1, <1>2, <1>4, GivenUpNotExcused
<1>9. LineOK'
  <2>1. \A k \in 1 .. Length' : Excused(k + Len(buf)) => Excused(k)'
    BY <1>8
  <2>2. \A x \in Stored' : x \in Stored \/ \E i \in 1 .. Len(buf) : x = Line(i)
    BY <1>5
  <2> QED
    BY <1>1, <1>3, <1>4, <1>6, <1>7, <2>1, <2>2, LineMoves
<1>10. NumbersInv'
  BY <1>1, <1>3, <1>5, <1>9 DEF NumbersInv
<1>11. \A k \in 1 .. Length' : k + Len(buf) \in InLine
  BY <1>4, <1>6 DEF InLine
<1>12. Lined' \subseteq Lined
  BY <1>7, <1>11 DEF Lined, InLine
<1>13. ASSUME NEW k \in InLine, Line(k) \notin Range(buf) PROVE Line(k) \in Lined'
  <2>1. k \in Nat /\ 1 <= k /\ k <= Length
    BY <1>4 DEF InLine
  <2>2. ~(k <= Len(buf))
    <3> SUFFICES ASSUME k <= Len(buf) PROVE FALSE
      OBVIOUS
    <3>1. k \in DOMAIN buf /\ Line(k) = buf[k]
      BY <1>3, <1>4, <2>1
    <3> QED
      BY <1>13, <3>1 DEF Range
  <2>3. k - Len(buf) \in 1 .. Length' /\ (k - Len(buf)) + Len(buf) = k
    BY <1>4, <1>6, <2>1, <2>2
  <2> QED
    BY <1>7, <2>3 DEF Lined, InLine
<1>14. HeadsInv'
  <2> SUFFICES ASSUME NEW h \in heads, h \notin Range(buf)
               PROVE  h \in Nat /\ h # pending /\ h < seq
                      /\ (h \in Stored \cup Lined' \/ Below({h}, Stored \cup Lined'))
    BY <1>1, <1>5 DEF HeadsInv
  <2>1. /\ h \in Nat /\ h # pending /\ h < seq
        /\ (h \in Stored \cup Lined \/ Below({h}, Stored \cup Lined))
    BY <1>1, <1>2 DEF HeadsInv
  <2>2. h \in Lined => h \in Lined'
    BY <1>13 DEF Lined
  <2> QED
    BY <1>12, <2>1, <2>2 DEF Below
<1> QED
  BY <1>10, <1>14

\* No sector is erased while the first one is written after a full erase: there is
\* margin enough.  So nothing that waits is out of its turn when one is.
LEMMA EraseNeverExcused ==
  ASSUME RingInv, task # "off", MayErase, NEW k \in InLine, Length \in Nat
  PROVE  ~Excused(k)
<1>1. /\ writeOff \in Nat /\ margin \in Nat /\ Cap \in Nat /\ PerSector \in Nat
      /\ margin < Cap - PerSector /\ k \in Nat /\ k >= 1
  BY Sizes DEF RingInv, PointersOK, Slots, MayErase, InLine
<1>2. margin = Cap - writeOff => ~(writeOff + k <= PerSector)
  BY <1>1
<1> QED
  BY <1>2 DEF Excused

\* What is stored after an erase was stored before it, and the line is the same.
LEMMA StillInTurn ==
  ASSUME LineOK, Length \in Nat, Stored' \subseteq Stored,
         UNCHANGED <<seq, note, queue, buf, pending>>,
         \A k \in InLine : Excused(k) => Excused(k)'
  PROVE  LineOK' /\ Lined' = Lined
<1>1. Length' = Length /\ InLine' = InLine /\ \A k : Line(k)' = Line(k)
  BY DEF Length, InLine, Line
<1>3. LineOK'
  <2>1. \A k \in InLine' : Line(k)' < seq'
    BY <1>1 DEF LineOK
  <2>2. ASSUME NEW i \in InLine, NEW k \in InLine, i < k PROVE Follows(Line(i), Line(k), k)'
    <3>1. Follows(Line(i), Line(k), k)
      BY <2>2 DEF LineOK
    <3> QED
      BY <1>1, <3>1 DEF Follows
  <2>3. ASSUME NEW x \in Stored', NEW k \in InLine PROVE Follows(x, Line(k), k)'
    <3>1. Follows(x, Line(k), k)
      BY DEF LineOK
    <3> QED
      BY <1>1, <3>1 DEF Follows
  <2> QED
    BY <1>1, <2>1, <2>2, <2>3 DEF LineOK
<1> QED
  BY <1>1, <1>3 DEF Lined

\* Erasing one sector, and one block of the erase of everything.
LEMMA EraseKeepsAll ==
  ASSUME RecorderInv, BackgroundErase \/ FlushErase
  PROVE  RecorderInv'
<1>1. /\ EraseOne /\ task \in {"loop", "flush"} /\ task' = task /\ seq' = seq /\ heads' = heads
      /\ note' = note /\ pending' = pending /\ queue' = queue /\ buf' = buf /\ block' = block
  BY DEF BackgroundErase, FlushErase, numbers
<1>2. RingInv /\ NumbersInv /\ HeadsInv
  BY DEF RecorderInv
<1>3. RingInv'
  <2>1. FlashOK' /\ PointersOK' /\ MarginErased' /\ SortedFrom(eraseNext)' /\ WrittenUpTo'
    BY <1>1, <1>2, EraseOneKeeps DEF RingInv
  <2> QED
    BY <1>1, <2>1 DEF RingInv
<1>4. PICK r \in SectorsOf :
           /\ eraseNext = Start(r) /\ flash' = ErasedSectors({r})
           /\ \A i \in Slots : i \div PerSector = r <=> InSector(r, i)
           /\ \A i, j \in Slots : InSector(r, i) /\ ~InSector(r, j) => Before(eraseNext, i, j)
  BY <1>1, <1>2, EraseTakesOldest
<1>5. /\ Stored' \subseteq Stored
      /\ \A i \in Slots : flash'[i] = IF i \div PerSector \in {r} THEN Erased ELSE flash[i]
      /\ \A i \in Slots : Holds(i)' => Holds(i) /\ flash'[i] = flash[i]
  BY <1>1, <1>2, <1>4, EraseKeeps DEF RingInv
<1>6. Length \in Nat /\ LineOK /\ seq \in Nat
  BY <1>1, <1>2, InTheLine DEF NumbersInv
<1>7. \A k \in InLine : ~Excused(k)
  BY <1>1, <1>2, <1>6, EraseNeverExcused DEF EraseOne
<1>8. LineOK' /\ Lined' = Lined
  BY <1>1, <1>5, <1>6, <1>7, StillInTurn
<1>9. NumbersInv'
  BY <1>1, <1>2, <1>5, <1>8 DEF NumbersInv, Below
<1>10. Erased \notin Numbers
  BY RecorderAssumption DEF Erased, Numbers
<1>11. ASSUME NEW h \in Stored, h \notin Stored' PROVE Below({h}, Stored')
  <2>1. PICK i \in Slots : flash[i] = h /\ h \in Numbers
    BY <1>11 DEF Stored
  <2>2. InSector(r, i)
    BY <1>4, <1>5, <1>11, <2>1 DEF Stored
  <2>3. ASSUME NEW j \in Slots, Holds(j)' PROVE h < flash'[j]
    <3>1. Holds(j) /\ flash'[j] = flash[j] /\ ~InSector(r, j)
      BY <1>4, <1>5, <1>10, <2>3 DEF Holds
    <3>2. SortedFrom(eraseNext) /\ Before(eraseNext, i, j) /\ Holds(i)
      BY <1>1, <1>2, <1>4, <2>1, <2>2, <3>1 DEF RingInv, Holds
    <3> QED
      BY <2>1, <2>2, <3>1, <3>2, NotMisplaced
  <2> QED
    BY <2>3 DEF Below, Stored, Holds
<1>12. HeadsInv'
  <2> SUFFICES ASSUME NEW h \in heads
               PROVE  h \in Nat /\ h # pending /\ h < seq
                      /\ (h \in Stored' \cup Lined \/ Below({h}, Stored' \cup Lined))
    BY <1>1, <1>8 DEF HeadsInv
  <2>1. /\ h \in Nat /\ h # pending /\ h < seq
        /\ (h \in Stored \cup Lined \/ Below({h}, Stored \cup Lined))
    BY <1>1, <1>2 DEF HeadsInv
  <2>2. CASE h \in Stored /\ h \notin Stored'
    <3>1. Below({h}, Stored')
      BY <1>11, <2>2
    <3>2. \A k \in InLine : h < Line(k)
      BY <1>6, <1>7, <2>2 DEF LineOK, Follows
    <3> QED
      BY <2>1, <3>1, <3>2 DEF Below, Lined
  <2> QED
    BY <1>5, <2>1, <2>2 DEF Below
<1> QED
  BY <1>3, <1>9, <1>12 DEF RecorderInv

\* A block of the full erase, which takes no notice of the pointers.
LEMMA EraseBlockKeeps ==
  ASSUME RecorderInv, EraseBlock
  PROVE  RecorderInv'
<1> DEFINE blocks == block .. block + BlockSectors - 1
<1>1. /\ task = "erasing" /\ task' = "erasing" /\ seq' = seq /\ note' = note /\ pending' = pending
      /\ queue' = queue /\ buf' = buf
      /\ writeOff' = writeOff /\ margin' = margin /\ eraseNext' = eraseNext
      /\ flash' = ErasedSectors(blocks)
      /\ heads' = heads \ {flash[i] : i \in {k \in Slots : k \div PerSector \in blocks}}
      /\ block' = Smaller(block + BlockSectors, Sectors)
  BY DEF EraseBlock
<1>2. RingInv /\ NumbersInv /\ HeadsInv
  BY DEF RecorderInv
<1>3. /\ FlashOK /\ PointersOK /\ MarginErased /\ SortedFrom(eraseNext) /\ block \in Nat
      /\ \A i \in Slots : i \div PerSector < block => flash[i] = Erased
  BY <1>1, <1>2 DEF RingInv
<1> HIDE DEF blocks
<1>4. /\ FlashOK' /\ Stored' \subseteq Stored
      /\ \A i \in Slots : flash'[i] = IF i \div PerSector \in blocks THEN Erased ELSE flash[i]
      /\ \A i \in Slots : Holds(i)' => Holds(i) /\ flash'[i] = flash[i]
      /\ \A e : SortedFrom(e) => SortedFrom(e)'
  BY <1>1, <1>3, EraseKeeps
<1>5. SortedFrom(eraseNext)'
  <2>1. PICK r \in SectorsOf : eraseNext = Start(r)
    BY <1>3 DEF PointersOK
  <2>2. SortedFrom(Start(r)) => SortedFrom(Start(r))'
    BY <1>4
  <2> QED
    BY <1>1, <1>3, <2>1, <2>2 DEF SortedFrom, Before, Misplaced
<1>6. PointersOK'
  BY <1>1, <1>3 DEF PointersOK
<1>7. MarginErased'
  BY <1>1, <1>3, <1>4 DEF MarginErased, InMargin
<1>8. block' \in Nat /\ \A i \in Slots : i \div PerSector < block' => flash'[i] = Erased
  <2>1. BlockSectors \in Nat /\ Sectors \in Nat
    BY RecorderAssumption
  <2>2. block' \in Nat /\ block' <= block + BlockSectors
    <3>1. block' = Smaller(block + BlockSectors, Sectors)
      BY <1>1
    <3>2. \A a, e \in Nat : Smaller(a, e) \in Nat /\ Smaller(a, e) <= a
      BY DEF Smaller
    <3>3. block + BlockSectors \in Nat
      BY <1>3, <2>1
    <3> QED
      BY <2>1, <3>1, <3>2, <3>3
  <2>3. ASSUME NEW i \in Slots, i \div PerSector < block' PROVE flash'[i] = Erased
    <3>1. i \div PerSector \in Nat
      BY SectorOfSlot DEF SectorsOf
    <3>2. i \div PerSector < block \/ i \div PerSector \in blocks
      BY <1>3, <2>1, <2>2, <2>3, <3>1 DEF blocks
    <3> QED
      BY <1>3, <1>4, <3>2
  <2> QED
    BY <2>2, <2>3
<1>9. RingInv'
  BY <1>1, <1>4, <1>5, <1>6, <1>7, <1>8 DEF RingInv
<1>10. LineOK' /\ Lined' = Lined
  <2>1. Length \in Nat /\ LineOK
    BY <1>1, <1>2, InTheLine DEF NumbersInv
  <2>2. \A k \in InLine : Excused(k) => Excused(k)'
    BY <1>1 DEF Excused
  <2> QED
    BY <1>1, <1>4, <2>1, <2>2, StillInTurn
<1>11. NumbersInv'
  BY <1>1, <1>2, <1>4, <1>10 DEF NumbersInv, Below
<1>12. HeadsInv'
  <2> SUFFICES ASSUME NEW h \in heads'
               PROVE  h \in Nat /\ h # pending /\ h < seq
                      /\ (h \in Stored' \cup Lined \/ Below({h}, Stored' \cup Lined))
    BY <1>1, <1>10 DEF HeadsInv
  <2>1. /\ h \in Nat /\ h # pending /\ h < seq
        /\ (h \in Stored \cup Lined \/ Below({h}, Stored \cup Lined))
    BY <1>1, <1>2 DEF HeadsInv
  <2>2. h \in Stored => h \in Stored'
    BY <1>1, <1>4 DEF Stored
  <2> QED
    BY <1>4, <2>1, <2>2 DEF Below
<1> QED
  BY <1>9, <1>11, <1>12 DEF RecorderInv

\* Everything is erased then, and the first sector is written next; of what
\* waited, only the record that nav_task has numbered is left.
LEMMA FinishEraseKeeps ==
  ASSUME RecorderInv, FinishErase
  PROVE  RecorderInv'
<1>1. /\ task = "erasing" /\ task' = "cleared" /\ block = Sectors
      /\ writeOff' = 0 /\ margin' = Cap /\ eraseNext' = 0 /\ flash' = flash
      /\ queue' = <<>> /\ buf' = <<>> /\ seq' = seq /\ heads' = {} /\ note' = NoNumber
      /\ pending' = pending
  BY DEF FinishErase
<1>2. /\ RingInv /\ seq \in Nat /\ seq < MaxSeq /\ seq <= MaxSeq /\ pending \in Nat \cup {NoNumber}
      /\ buf \in Seq(Nat) /\ queue \in Seq(Nat) /\ LineOK
  BY <1>1 DEF RecorderInv, NumbersInv
<1>3. \A i \in Slots : flash[i] = Erased
  <2> SUFFICES ASSUME NEW i \in Slots PROVE flash[i] = Erased
    OBVIOUS
  <2>1. i \div PerSector < Sectors
    BY SectorOfSlot, Sizes DEF SectorsOf
  <2> QED
    BY <1>1, <1>2, <2>1 DEF RingInv
<1>4. Erased \notin Numbers
  BY RecorderAssumption DEF Erased, Numbers
<1>5. FlashOK'
  BY <1>1, <1>2 DEF RingInv, FlashOK, FlashType, FilledFromFront, NumbersFirst, Holds, InSector
<1>6. PointersOK'
  <2>1. 0 \in SectorsOf /\ 0 \in Slots /\ Start(0) = 0 /\ Cap \in 0 .. Cap /\ 0 + Cap = Cap
        /\ 0 + Cap - Cap = 0
    BY Starts, Sizes DEF SectorsOf, Slots
  <2>2. ~(0 + Cap < Cap)
    BY Sizes
  <2> QED
    BY <1>1, <2>1, <2>2 DEF PointersOK
<1>7. MarginErased' /\ SortedFrom(eraseNext)'
  BY <1>1, <1>3, <1>4 DEF MarginErased, SortedFrom, Holds
<1>8. WrittenUpTo'
  <2> SUFFICES ASSUME NEW s \in SectorsOf, Start(s) < 0 PROVE FALSE
    BY <1>1 DEF WrittenUpTo
  <2> QED
    BY StartOfSector
<1>9. RingInv'
  BY <1>1, <1>5, <1>6, <1>7, <1>8 DEF RingInv
<1>10. Stored' = {}
  BY <1>1, <1>3, <1>4 DEF Stored
<1>11. /\ Length' = IF pending = NoNumber THEN 0 ELSE 1
       /\ \A k \in InLine' : k = 1 /\ Line(k)' = pending /\ pending \in Nat
  <2>1. Len(queue') = 0 /\ Len(buf') = 0
    BY <1>1
  <2>2. Length' = IF pending = NoNumber THEN 0 ELSE 1
    BY <1>1, <2>1 DEF Length
  <2>3. ASSUME NEW k \in InLine' PROVE k = 1 /\ pending \in Nat
    BY <1>2, <2>2, <2>3 DEF InLine
  <2>4. ~(1 <= 0) /\ ~(1 <= 0 + 0)
    OBVIOUS
  <2> QED
    BY <1>1, <2>1, <2>2, <2>3, <2>4 DEF Line
<1>12. pending \in Nat => pending < seq
  <2>1. /\ Length \in Nat /\ Len(buf) \in Nat /\ Len(queue) \in Nat
        /\ (pending \in Nat => Length = Len(buf) + Len(queue) + 1)
    BY <1>2 DEF Length, NoNumber
  <2>2. ASSUME pending \in Nat PROVE Length \in InLine /\ Line(Length) = pending
    <3>1. ~(Length <= Len(buf)) /\ ~(Length <= Len(buf) + Len(queue)) /\ Length \in 1 .. Length
      BY <2>1, <2>2
    <3> QED
      BY <3>1 DEF Line, InLine
  <2> QED
    BY <1>2, <2>2 DEF LineOK
<1>13. LineOK'
  BY <1>1, <1>10, <1>11, <1>12 DEF LineOK
<1>14. ClearedOK'
  <2>1. Length' <= Overtakes
    BY <1>11, RecorderAssumption
  <2> QED
    BY <1>1, <1>3, <2>1 DEF ClearedOK
<1>15. buf' \in Seq(Nat) /\ queue' \in Seq(Nat) /\ note' < seq'
  BY <1>1, <1>2 DEF NoNumber
<1>16. NumbersInv'
  BY <1>1, <1>2, <1>10, <1>13, <1>14, <1>15 DEF NumbersInv, Below
<1>17. HeadsInv'
  BY <1>1 DEF HeadsInv
<1> QED
  BY <1>9, <1>16, <1>17 DEF RecorderInv

\* The writer takes the number of its note.
LEMMA TakeNoteKeeps ==
  ASSUME RecorderInv, TakeNote
  PROVE  RecorderInv'
<1>1. /\ task = "cleared" /\ task' = "noting" /\ note' = seq /\ seq' = seq + 1
      /\ heads' = heads /\ pending' = pending /\ queue' = queue /\ buf' = buf /\ block' = block
      /\ flash' = flash /\ writeOff' = writeOff /\ margin' = margin /\ eraseNext' = eraseNext
  BY DEF TakeNote, ring
<1>2. /\ RingInv /\ seq \in Nat /\ seq < MaxSeq /\ pending \in Nat \cup {NoNumber}
      /\ buf \in Seq(Nat) /\ queue \in Seq(Nat) /\ LineOK /\ ClearedOK /\ MaxSeq \in Nat
  BY <1>1, RecorderAssumption DEF RecorderInv, NumbersInv
<1>3. \A i \in Slots : ~Holds(i)
  BY <1>2, RecorderAssumption DEF ClearedOK, Holds, Erased, Numbers
<1>4. RingInv'
  <2>1. FlashOK'
    BY <1>1, <1>2 DEF RingInv, FlashOK, FlashType, FilledFromFront, NumbersFirst, Holds, InSector
  <2>2. PointersOK' /\ MarginErased'
    BY <1>1, <1>2 DEF RingInv, PointersOK, MarginErased, InMargin
  <2>3. SortedFrom(eraseNext)'
    BY <1>1, <1>3 DEF SortedFrom, Holds
  <2>4. WrittenUpTo'
    BY <1>1, <1>2 DEF RingInv, WrittenUpTo, Holds, InSector
  <2> QED
    BY <1>1, <2>1, <2>2, <2>3, <2>4 DEF RingInv
<1>5. Stored = {} /\ Stored' = {}
  BY <1>1, <1>3 DEF Stored, Holds
<1>6. Length' = Length /\ InLine' = InLine /\ \A k : Line(k)' = Line(k)
  BY <1>1 DEF Length, InLine, Line
<1>7. \A k \in InLine : Line(k) \in Nat /\ Line(k) < seq /\ Line(k) < seq + 1 /\ Line(k) # seq
  <2>1. \A k \in InLine : Line(k) \in Nat /\ Line(k) < seq
    BY <1>2, InTheLine DEF LineOK
  <2> QED
    BY <1>2, <2>1
<1>8. \A i, k \in InLine : i < k => Line(i) < Line(k)
  <2>1. \A k \in InLine : Line(k) # NoNumber
    BY <1>7 DEF NoNumber
  <2> QED
    BY <1>1, <1>2, <2>1 DEF LineOK, Follows, ClearedOK
<1>9. LineOK'
  BY <1>1, <1>5, <1>6, <1>7, <1>8 DEF LineOK, Follows
<1>10. ClearedOK'
  BY <1>1, <1>2, <1>6, <1>7 DEF ClearedOK
<1>11. note' < seq' /\ seq' \in Nat /\ seq' <= MaxSeq
  BY <1>1, <1>2
<1>12. NumbersInv'
  BY <1>1, <1>2, <1>5, <1>9, <1>10, <1>11 DEF NumbersInv, Below
<1>13. HeadsInv'
  BY <1>1, <1>2 DEF HeadsInv, ClearedOK
<1> QED
  BY <1>4, <1>12, <1>13 DEF RecorderInv

\* The note joins the line among the first records after the erase, before or
\* behind the record that nav_task has numbered.
LEMMA QueueNoteKeeps ==
  ASSUME RecorderInv, QueueNote
  PROVE  RecorderInv'
<1>1. /\ task = "noting" /\ task' = "loop" /\ note' = note /\ seq' = seq
      /\ heads' = heads /\ pending' = pending /\ buf' = buf /\ block' = block
      /\ (queue' = Append(queue, note) \/ queue' = queue)
      /\ flash' = flash /\ writeOff' = writeOff /\ margin' = margin /\ eraseNext' = eraseNext
      /\ UNCHANGED ring
  BY DEF QueueNote, Queued, ring, numbers
<1>2. /\ RingInv /\ seq \in Nat /\ seq <= MaxSeq /\ pending \in Nat \cup {NoNumber}
      /\ buf \in Seq(Nat) /\ queue \in Seq(Nat) /\ LineOK /\ ClearedOK
      /\ note \in Nat /\ note < seq /\ Below(Stored, {seq})
  BY <1>1 DEF RecorderInv, NumbersInv, ClearedOK
<1>3. RingInv'
  <2>1. FlashOK' /\ PointersOK' /\ MarginErased' /\ SortedFrom(eraseNext)' /\ WrittenUpTo'
    BY <1>1, <1>2, SameRing DEF RingInv
  <2> QED
    BY <1>1, <2>1 DEF RingInv
<1>4. Stored = {} /\ Stored' = {}
  BY <1>1, <1>2, RecorderAssumption DEF Stored, ClearedOK, Erased, Numbers
<1>5. heads = {} /\ writeOff = 0 /\ margin = Cap /\ buf = <<>> /\ Length <= Overtakes
      /\ \A k \in InLine : Line(k) # note
  BY <1>1, <1>2 DEF ClearedOK
<1>6. /\ Length \in Nat /\ Len(queue) \in Nat /\ Len(buf) = 0 /\ Len(queue) <= Length
      /\ \A k \in InLine : Line(k) \in Nat /\ Line(k) < seq
  <2>1. Length \in Nat /\ Len(queue) \in Nat /\ Len(buf) = 0
        /\ \A k \in InLine : Line(k) \in Nat /\ Line(k) < seq
    BY <1>2, <1>5, InTheLine DEF LineOK
  <2> QED
    BY <1>2, <2>1 DEF Length
<1>7. CASE queue' = queue
  <2>1. Length' = Length /\ InLine' = InLine /\ \A k : Line(k)' = Line(k)
    BY <1>1, <1>7 DEF Length, InLine, Line
  <2>2. LineOK'
    BY <1>1, <1>2, <1>4, <2>1 DEF LineOK, Follows, Excused
  <2>3. NumbersInv'
    BY <1>1, <1>2, <1>4, <1>7, <2>2 DEF NumbersInv, Below
  <2>4. HeadsInv'
    BY <1>1, <1>5 DEF HeadsInv
  <2> QED
    BY <1>3, <2>3, <2>4 DEF RecorderInv
<1>8. CASE queue' = Append(queue, note)
  <2> DEFINE q == Len(queue)
  <2>1. /\ queue' \in Seq(Nat) /\ Len(queue') = q + 1
        /\ \A k \in 1 .. q : queue'[k] = queue[k]
        /\ queue'[q + 1] = note
    BY <1>2, <1>8, OneMore
  <2>2. Length' = Length + 1 /\ Length' \in Nat
    BY <1>1, <1>6, <2>1 DEF Length
  <2>3. ASSUME NEW k \in InLine'
        PROVE  /\ k \in Nat /\ 1 <= k /\ k <= Length + 1
               /\ k <= q => k \in InLine /\ Line(k)' = Line(k)
               /\ k = q + 1 => Line(k)' = note
               /\ k > q + 1 => k = Length + 1 /\ k - 1 \in InLine /\ Line(k)' = Line(k - 1)
    <3>1. k \in Nat /\ 1 <= k /\ k <= Length + 1 /\ q \in Nat
      BY <1>6, <2>2 DEF InLine
    <3>2. ASSUME k <= q PROVE k \in InLine /\ Line(k)' = Line(k)
      <4>1. k \in 1 .. q /\ ~(k <= 0) /\ k <= 0 + q /\ k <= 0 + (q + 1) /\ k - 0 = k /\ k \in 1 .. Length
        BY <1>6, <3>1, <3>2
      <4> QED
        BY <1>1, <1>6, <2>1, <4>1 DEF Line, InLine
    <3>3. ASSUME k = q + 1 PROVE Line(k)' = note
      <4>1. ~(k <= 0) /\ k <= 0 + (q + 1) /\ k - 0 = q + 1
        BY <3>1, <3>3
      <4> QED
        BY <1>1, <1>6, <2>1, <4>1 DEF Line
    <3>4. ASSUME k > q + 1 PROVE k = Length + 1 /\ k - 1 \in InLine /\ Line(k)' = Line(k - 1)
      <4>1. Length <= q + 1
        BY <1>6 DEF Length
      <4>2. k = Length + 1 /\ k - 1 \in 1 .. Length
        BY <1>6, <3>1, <3>4, <4>1
      <4>3. ~(k <= 0) /\ ~(k <= 0 + (q + 1)) /\ ~(k - 1 <= 0) /\ ~(k - 1 <= 0 + q)
        BY <3>1, <3>4
      <4> QED
        BY <1>1, <1>6, <2>1, <4>2, <4>3 DEF Line, InLine
    <3> QED
      BY <3>1, <3>2, <3>3, <3>4
  <2>4. ASSUME NEW k \in InLine' PROVE Excused(k)'
    <3>1. 0 + k <= PerSector
      BY <1>5, <1>6, <2>3, RecorderAssumption
    <3>2. Cap - 0 = Cap
      BY Sizes
    <3> QED
      BY <1>1, <1>5, <3>1, <3>2 DEF Excused
  <2>5. \A k \in InLine' : Line(k)' < seq'
    BY <1>1, <1>2, <1>6, <2>3
  <2>6. \A h, j \in InLine : h < j => Line(h) < Line(j)
    BY <1>2, <1>5 DEF Follows, LineOK
  <2>7. ASSUME NEW i \in InLine', NEW k \in InLine', i < k
        PROVE  Line(i)' < Line(k)' \/ (Line(k)' < Line(i)' /\ note \in {Line(i)', Line(k)'})
    <3>1. CASE i = q + 1
      <4>1. Line(i)' = note /\ \E x \in InLine : Line(k)' = Line(x)
        BY <2>3, <2>7, <3>1
      <4> QED
        BY <1>2, <1>5, <1>6, <4>1
    <3>2. CASE k = q + 1
      <4>1. Line(k)' = note /\ Line(i)' = Line(i) /\ i \in InLine
        BY <1>6, <2>3, <2>7, <3>2
      <4> QED
        BY <1>2, <1>5, <1>6, <4>1
    <3>3. CASE i # q + 1 /\ k # q + 1
      <4>1. i <= q /\ Line(i)' = Line(i) /\ i \in InLine
        BY <1>6, <2>3, <2>7, <3>3
      <4>2. PICK x \in InLine : Line(k)' = Line(x) /\ i < x
        <5>1. CASE k <= q
          BY <2>3, <2>7, <5>1
        <5>2. CASE k > q + 1
          BY <1>6, <2>3, <4>1, <5>2
        <5> QED
          BY <1>6, <2>3, <3>3, <5>1, <5>2
      <4> QED
        BY <2>6, <4>1, <4>2
    <3> QED
      BY <3>1, <3>2, <3>3
  <2>8. LineOK'
    <3>1. ASSUME NEW i \in InLine', NEW k \in InLine', i < k PROVE Follows(Line(i), Line(k), k)'
      BY <1>1, <2>4, <2>7, <3>1 DEF Follows
    <3> QED
      BY <1>4, <2>5, <3>1 DEF LineOK
  <2>9. NumbersInv'
    BY <1>1, <1>2, <1>4, <2>1, <2>8 DEF NumbersInv, Below
  <2>10. HeadsInv'
    BY <1>1, <1>5 DEF HeadsInv
  <2> QED
    BY <1>3, <2>9, <2>10 DEF RecorderInv
<1> QED
  BY <1>1, <1>7, <1>8

(***************************************************************************)
(* A reset                                                                 *)
(***************************************************************************)

\* A reset leaves what was programmed up to it; what waited is lost, and its
\* numbers are those that boot uses again.
LEMMA CrashKeeps ==
  ASSUME RecorderInv, Crash \/ CrashInProgram
  PROVE  RecorderInv'
<1>1. /\ task # "off" /\ task' = "off" /\ seq < MaxSeq /\ heads' = heads
      /\ pending' = NoNumber /\ note' = note
  BY DEF Crash, CrashInProgram, Off, InBound
<1>2. RingInv /\ NumbersInv /\ HeadsInv
  BY DEF RecorderInv
<1>3. PICK r \in SectorsOf : eraseNext = Start(r)
  BY <1>1, <1>2 DEF RingInv, PointersOK
<1>4. /\ seq \in Nat /\ MaxSeq \in Nat /\ buf \in Seq(Nat) /\ queue \in Seq(Nat)
      /\ pending \in Nat \cup {NoNumber} /\ note \in Nat \cup {NoNumber}
      /\ LineOK /\ Below(Stored, {seq})
  BY <1>1, <1>2, RecorderAssumption DEF NumbersInv
<1>5. /\ Len(buf) \in Nat /\ Len(buf) <= Length /\ Length \in Nat
      /\ \A k \in InLine : Line(k) \in Nat
      /\ \A k \in 1 .. Len(buf) : k \in InLine /\ Line(k) = buf[k]
  BY <1>4, InTheLine
<1>6. \A x \in Stored : x \in Nat /\ x < seq
  BY <1>4 DEF Below, Stored, Numbers
<1>7. ASSUME NEW h \in heads
      PROVE  /\ h \in Nat /\ h # NoNumber
             /\ h \in Stored \cup Lined \/ Below({h}, Stored \cup Lined)
             /\ \A k \in InLine : ~Excused(k)
  <2>1. h \in Nat /\ (h \in Stored \cup Lined \/ Below({h}, Stored \cup Lined))
    BY <1>1, <1>2 DEF HeadsInv
  <2>2. h # NoNumber
    BY <2>1 DEF NoNumber
  <2> QED
    BY <2>1, <2>2 DEF Excused
<1>8. CASE Crash
  <2>1. flash' = flash
    BY <1>8 DEF Crash
  <2>2. FlashOK' /\ SortedFrom(Start(r))' /\ Stored' = Stored
    BY <1>1, <1>2, <1>3, <2>1 DEF RingInv, FlashOK, FlashType, FilledFromFront, NumbersFirst,
                                  Holds, InSector, SortedFrom, Before, Stored, Misplaced
  <2>3. RingInv'
    BY <1>1, <2>2 DEF RingInv
  <2>4. NumbersInv'
    <3>1. \A n \in Stored : n + 1 < MaxSeq
      BY <1>1, <1>4, <1>6
    <3> QED
      BY <1>1, <1>4, <2>2, <3>1 DEF NumbersInv
  <2>5. HeadsInv'
    <3>1. ASSUME NEW h \in heads, h \in Lined PROVE Below(Stored, {h})
      <4>1. PICK k \in InLine : h = Line(k)
        BY <3>1 DEF Lined
      <4> QED
        BY <1>4, <1>7, <4>1 DEF LineOK, Follows, Below
    <3> QED
      BY <1>1, <1>7, <2>2, <3>1 DEF HeadsInv, Below
  <2> QED
    BY <2>3, <2>4, <2>5 DEF RecorderInv
<1>9. CASE CrashInProgram
  <2>1. PICK n \in 0 .. Chunk - 1 :
          flash' \in {Programmed(n), [Programmed(n) EXCEPT ![writeOff + n] = Torn]}
    BY <1>9 DEF CrashInProgram
  <2>2. task = "flush" /\ margin >= Chunk
    BY <1>9 DEF CrashInProgram
  <2>3. Chunk \in Nat /\ Chunk <= Len(buf)
    BY <1>2, <2>2, ChunkFits
  <2>4. n \in 0 .. Chunk /\ Programs(n) /\ n < Chunk /\ n \in Nat
    BY <2>1, <2>3 DEF Programs
  <2>5. FlashOK'
    BY <1>2, <2>2, <2>4, ProgramFills
  <2>6. /\ SortedFrom(Start(r))'
        /\ \A x \in Stored' : x \in Stored \/ \E k \in 1 .. n : x = buf[k]
        /\ \A k \in 1 .. n : buf[k] \in Stored'
        /\ Stored \subseteq Stored'
    BY <1>1, <1>2, <1>3, <2>2, <2>4, ProgramSorts
  <2>7. RingInv'
    BY <1>1, <2>5, <2>6 DEF RingInv
  <2>8. \A k \in 1 .. n : k \in InLine /\ Line(k) = buf[k] /\ Line(k) \in Nat /\ Line(k) < seq
    BY <1>4, <1>5, <2>3, <2>4 DEF LineOK
  <2>9. NumbersInv'
    <3>1. \A x \in Stored' : x < seq /\ x \in Nat
      BY <1>6, <2>6, <2>8
    <3>2. \A x \in Stored' : x + 1 < MaxSeq
      BY <1>1, <1>4, <3>1
    <3> QED
      BY <1>1, <1>4, <3>2 DEF NumbersInv
  <2>10. ASSUME NEW h \in heads, NEW j \in InLine, h = Line(j)
         PROVE  h \in Stored' \/ Below(Stored', {h})
    <3>1. Below(Stored, {h})
      BY <1>4, <1>7, <2>10 DEF LineOK, Follows, Below
    <3>2. j \in 1 .. n \/ \A k \in 1 .. n : k < j
      BY <1>5, <2>4 DEF InLine
    <3>3. (\A k \in 1 .. n : k < j) => \A k \in 1 .. n : buf[k] < h
      <4> SUFFICES ASSUME NEW k \in 1 .. n, k < j PROVE buf[k] < h
        OBVIOUS
      <4>1. Follows(Line(k), Line(j), j)
        BY <1>4, <2>8, <2>10 DEF LineOK
      <4>2. ~Excused(j)
        BY <2>10 DEF Excused
      <4> QED
        BY <2>8, <2>10, <4>1, <4>2 DEF Follows
    <3>4. j \in 1 .. n => h \in Stored'
      BY <2>6, <2>8, <2>10
    <3> QED
      BY <2>6, <3>1, <3>2, <3>3, <3>4 DEF Below
  <2>11. ASSUME NEW h \in heads, Below({h}, Stored \cup Lined) PROVE Below({h}, Stored')
    <3>1. \A k \in 1 .. n : h < buf[k]
      BY <2>8, <2>11 DEF Below, Lined
    <3> QED
      BY <2>6, <2>11, <3>1 DEF Below
  <2>12. HeadsInv'
    <3>1. ASSUME NEW h \in heads
          PROVE  h \in Stored' \/ Below({h}, Stored') \/ Below(Stored', {h})
      <4>1. h \in Lined => h \in Stored' \/ Below(Stored', {h})
        BY <2>10 DEF Lined
      <4> QED
        BY <1>7, <2>6, <2>11, <4>1
    <3> QED
      BY <1>1, <1>7, <3>1 DEF HeadsInv
  <2> QED
    BY <2>7, <2>9, <2>12 DEF RecorderInv
<1> QED
  BY <1>8, <1>9

(***************************************************************************)
(* The scan at boot                                                        *)
(***************************************************************************)

\* The order of slots is that of their sectors.
LEMMA BeforeBySector ==
  ASSUME NEW r \in SectorsOf, NEW s \in SectorsOf, NEW t \in SectorsOf,
         NEW i \in Int, NEW j \in Int, InSector(s, i), InSector(t, j)
  PROVE  /\ s # t => (Before(Start(r), i, j) <=> Before(r, s, t))
         /\ s = t => (Before(Start(r), i, j) <=> i < j)
<1>1. /\ Start(r) \in Nat /\ Start(s) \in Nat /\ Start(t) \in Nat /\ PerSector \in Nat
      /\ PerSector > 0 /\ r \in Nat /\ s \in Nat /\ t \in Nat
  BY StartOfSector, Sizes
<1>2. /\ r < s => Start(r) + PerSector <= Start(s)
      /\ s < r => Start(s) + PerSector <= Start(r)
      /\ r < t => Start(r) + PerSector <= Start(t)
      /\ t < r => Start(t) + PerSector <= Start(r)
      /\ s < t => Start(s) + PerSector <= Start(t)
      /\ t < s => Start(t) + PerSector <= Start(s)
  BY <1>1, Starts
<1>3. r <= s <=> Start(r) <= i
  BY <1>1, <1>2 DEF InSector
<1>4. t < r <=> j < Start(r)
  BY <1>1, <1>2 DEF InSector
<1>5. s # t => (s < t <=> i < j)
  BY <1>1, <1>2 DEF InSector
<1>6. s = t => (j < Start(r) <=> ~(Start(r) <= i))
  BY <1>1, <1>3, <1>4
<1> QED
  BY <1>3, <1>4, <1>5, <1>6 DEF Before

\* The records of a sector: all that is in front of the first erased slot.
LEMMA UsedFound ==
  ASSUME NEW s \in SectorsOf
  PROVE  /\ Used(s) \in 0 .. PerSector
         /\ \A i \in 0 .. Used(s) - 1 : flash[Start(s) + i] # Erased
         /\ Used(s) < PerSector => flash[Start(s) + Used(s)] = Erased
<1> DEFINE T == {k \in 0 .. PerSector : k = PerSector \/ flash[Start(s) + k] = Erased}
           Good(k) == /\ \A i \in 0 .. k - 1 : flash[Start(s) + i] # Erased
                      /\ k < PerSector => flash[Start(s) + k] = Erased
<1>1. PerSector \in Nat
  BY Sizes
<1>2. T \in SUBSET Nat /\ PerSector \in T
  BY <1>1
<1>3. PICK k \in T : \A y \in T : k <= y
  BY <1>2, SmallestNumber
<1>4. k \in 0 .. PerSector /\ k \in Nat
  BY <1>1
<1>5. \A i \in 0 .. k - 1 : i \in 0 .. PerSector /\ ~(k <= i)
  BY <1>1, <1>4
<1>6. \A i \in 0 .. k - 1 : i \notin T
  BY <1>3, <1>5
<1>7. Good(k)
  BY <1>1, <1>4, <1>5, <1>6
<1>8. Used(s) = CHOOSE x \in 0 .. PerSector : Good(x)
  BY DEF Used
<1> HIDE DEF Good, T
<1>9. Used(s) \in 0 .. PerSector /\ Good(Used(s))
  BY <1>4, <1>7, <1>8
<1> QED
  BY <1>9 DEF Good

\* The run of sectors that look erased.
LEMMA RunFound ==
  ASSUME NEW f \in Nat, f <= Sectors
  PROVE  /\ ErasedRun(Start(f)) \in 0 .. Sectors - 1
         /\ \A j \in 0 .. ErasedRun(Start(f)) - 1 : LooksErased((f + j) % Sectors)
<1> DEFINE Looks(n) == LooksErased((f + n) % Sectors)
           T == {n \in 0 .. Sectors - 1 : n = Sectors - 1 \/ ~Looks(n)}
           Good(n) == (\A i \in 0 .. n - 1 : Looks(i)) /\ (n < Sectors - 1 => ~Looks(n))
<1> HIDE DEF Looks
<1>1. Sectors \in Nat /\ Sectors > 1 /\ PerSector \in Nat /\ PerSector > 0
  BY Sizes
<1>2. T \in SUBSET Nat /\ Sectors - 1 \in T
  BY <1>1
<1>3. PICK k \in T : \A y \in T : k <= y
  BY <1>2, SmallestNumber
<1>4. k \in 0 .. Sectors - 1 /\ k \in Nat
  BY <1>1
<1>5. \A i \in 0 .. k - 1 : i \in 0 .. Sectors - 1 /\ ~(k <= i)
  BY <1>1, <1>4
<1>6. \A i \in 0 .. k - 1 : i \notin T
  BY <1>3, <1>5
<1>7. Good(k)
  BY <1>1, <1>4, <1>5, <1>6
<1>8. Start(f) \div PerSector = f
  <2>1. \A p \in Nat, x \in Nat : p > 0 => (x * p) \div p = x
    BY SMT
  <2> QED
    BY <1>1, <2>1 DEF Start
<1>9. ErasedRun(Start(f)) = CHOOSE n \in 0 .. Sectors - 1 : Good(n)
  BY <1>8 DEF ErasedRun, Looks
<1> HIDE DEF Good, T
<1>10. ErasedRun(Start(f)) \in 0 .. Sectors - 1 /\ Good(ErasedRun(Start(f)))
  BY <1>4, <1>7, <1>9
<1> QED
  BY <1>10 DEF Good, Looks

\* The newest sector is there when any is written.
LEMMA NewestFound ==
  ASSUME Written # {}
  PROVE  /\ NewestSector \in Written
         /\ \A u \in Written : flash[Start(u)] <= flash[Start(NewestSector)]
<1> DEFINE T == {flash[Start(s)] : s \in Written}
           Good(s) == \A u \in Written : flash[Start(u)] <= flash[Start(s)]
<1>1. MaxSeq \in Nat /\ T \in SUBSET Nat /\ T # {} /\ \A x \in T : x <= MaxSeq
  <2>1. MaxSeq \in Nat
    BY RecorderAssumption
  <2>2. \A s \in Written : flash[Start(s)] \in Numbers
    BY DEF Written
  <2>3. T \in SUBSET Numbers /\ T # {}
    BY <2>2
  <2> QED
    BY <2>1, <2>3 DEF Numbers
<1>2. PICK x \in T : \A y \in T : y <= x
  BY <1>1, LargestNumber
<1>3. PICK s \in Written : x = flash[Start(s)]
  OBVIOUS
<1>4. Good(s)
  BY <1>2, <1>3
<1>5. NewestSector = CHOOSE z \in Written : Good(z)
  BY DEF NewestSector
<1> HIDE DEF Good
<1>6. NewestSector \in Written /\ Good(NewestSector)
  BY <1>3, <1>4, <1>5
<1> QED
  BY <1>6 DEF Good

\* The largest number of a written sector.
LEMMA LastFound ==
  ASSUME FlashOK, NEW s \in Written
  PROVE  /\ LastSeq(s) \in Stored
         /\ \A i \in 0 .. Used(s) - 1 : flash[Start(s) + i] <= LastSeq(s)
<1>1. s \in SectorsOf /\ flash[Start(s)] \in Numbers
  BY DEF Written, SectorsOf
<1>2. Start(s) \in Nat /\ Start(s) + PerSector <= Cap /\ PerSector \in Nat /\ PerSector > 0
  BY <1>1, StartOfSector, Sizes
<1>3. Used(s) \in 0 .. PerSector /\ (Used(s) < PerSector => flash[Start(s) + Used(s)] = Erased)
  BY <1>1, UsedFound
<1>4. 0 \in 0 .. Used(s) - 1 /\ Start(s) + 0 = Start(s)
  <2>1. Used(s) # 0
    <3> SUFFICES ASSUME Used(s) = 0 PROVE FALSE
      OBVIOUS
    <3>1. Start(s) + Used(s) = Start(s)
      BY <1>2
    <3> QED
      BY <1>1, <1>2, <1>3, <3>1, RecorderAssumption DEF Erased, Numbers
  <2> QED
    BY <1>2, <1>3, <2>1
<1> DEFINE All == {flash[Start(s) + i] : i \in 0 .. Used(s) - 1}
           T == All \cap Numbers
           Good(n) == \A i \in 0 .. Used(s) - 1 : flash[Start(s) + i] <= n
<1>5. \A i \in 0 .. Used(s) - 1 : Start(s) + i \in Slots
  BY <1>2, <1>3, Sizes DEF Slots
<1>6. MaxSeq \in Nat /\ T \in SUBSET Nat /\ \A x \in T : x <= MaxSeq
  BY RecorderAssumption DEF Numbers
<1>7. flash[Start(s)] \in T
  BY <1>1, <1>4
<1>8. PICK x \in T : \A y \in T : y <= x
  BY <1>6, <1>7, LargestNumber
<1>9. Good(x)
  <2> SUFFICES ASSUME NEW i \in 0 .. Used(s) - 1 PROVE flash[Start(s) + i] <= x
    OBVIOUS
  <2>1. flash[Start(s) + i] \in Numbers \cup {Erased, Torn}
    BY <1>5 DEF FlashOK, FlashType
  <2>2. CASE flash[Start(s) + i] \in Numbers
    BY <1>8, <2>2
  <2>3. CASE flash[Start(s) + i] \in {Erased, Torn}
    BY <1>6, <1>8, <2>3 DEF Erased, Torn
  <2> QED
    BY <2>1, <2>2, <2>3
<1>10. LastSeq(s) = CHOOSE n \in All : Good(n)
  BY DEF LastSeq
<1>11. x \in All
  OBVIOUS
<1> HIDE DEF Good
<1>12. LastSeq(s) \in All /\ Good(LastSeq(s))
  BY <1>9, <1>10, <1>11
<1>13. LastSeq(s) \in Numbers
  <2>1. PICK i \in 0 .. Used(s) - 1 : LastSeq(s) = flash[Start(s) + i]
    BY <1>12
  <2>2. LastSeq(s) \in Numbers \cup {Erased, Torn}
    BY <1>5, <2>1 DEF FlashOK, FlashType
  <2>3. flash[Start(s)] <= LastSeq(s)
    BY <1>4, <1>12 DEF Good
  <2>4. flash[Start(s)] \in Nat
    BY <1>6, <1>7
  <2> QED
    BY <2>2, <2>3, <2>4 DEF Erased, Torn
<1>14. LastSeq(s) \in Stored
  <2>1. PICK i \in 0 .. Used(s) - 1 : LastSeq(s) = flash[Start(s) + i]
    BY <1>12
  <2> QED
    BY <1>5, <1>13, <2>1 DEF Stored
<1> QED
  BY <1>12, <1>14 DEF Good

\* Where the sector ends that the next record goes to.
LEMMA RestFound ==
  ASSUME NEW q \in SectorsOf, NEW u \in 1 .. PerSector, NEW w,
         w = Wrap(Start(q) + u)
  PROVE  \E f \in Nat :
           /\ f <= Sectors /\ (f = q + 1 \/ (q + 1 = Sectors /\ f = 0))
           /\ w \in Slots /\ w + RestOfSector(w) = Start(f)
           /\ RestOfSector(w) = IF u < PerSector THEN PerSector - u ELSE 0
           /\ u < PerSector => w = Start(q) + u
<1>1. /\ q \in Nat /\ q + 1 <= Sectors /\ Start(q) \in Nat /\ Start(q) + PerSector <= Cap
      /\ PerSector \in Nat /\ PerSector > 0 /\ Cap \in Nat /\ Sectors \in Nat
      /\ Start(q + 1) = Start(q) + PerSector /\ Start(0) = 0 /\ Start(Sectors) = Cap
      /\ u \in Nat /\ 1 <= u /\ u <= PerSector
  BY StartOfSector, Starts, Sizes DEF SectorsOf
<1>2. \A p, z \in Nat : p > 0 => /\ z < p => z % p = z
                                 /\ (p - 0) % p = 0
  OBVIOUS
<1>3. CASE u < PerSector
  <2>1. w = Start(q) + u /\ w \in Slots
    <3>1. PICK x \in Nat : x = Start(q) + u /\ x < Cap
      BY <1>1, <1>3
    <3> QED
      BY <1>1, <3>1, Wrapped DEF Wrap, Slots
  <2>2. w % PerSector = u
    <3>1. InSector(q, w) /\ w \in Int
      BY <1>1, <1>3, <2>1 DEF InSector
    <3>2. w \div PerSector = q
      BY <3>1, SlotInSector
    <3>3. \A z, p \in Nat : p > 0 => z = p * (z \div p) + (z % p)
      OBVIOUS
    <3>4. w = PerSector * q + (w % PerSector) /\ w % PerSector \in Int
      BY <1>1, <2>1, <3>2, <3>3
    <3>5. Start(q) = PerSector * q
      BY <1>1 DEF Start
    <3> QED
      BY <1>1, <2>1, <3>4, <3>5
  <2>3. RestOfSector(w) = PerSector - u
    <3>1. PICK z \in Nat : z = PerSector - u /\ z < PerSector
      BY <1>1, <1>3
    <3> QED
      BY <1>1, <1>2, <2>2, <3>1 DEF RestOfSector
  <2>4. w + RestOfSector(w) = Start(q + 1)
    BY <1>1, <2>1, <2>3
  <2>5. q + 1 \in Nat /\ q + 1 <= Sectors
    BY <1>1
  <2> QED
    BY <1>3, <2>1, <2>3, <2>4, <2>5
<1>4. CASE u = PerSector
  <2>1. PICK f \in SectorsOf : w = Start(f) /\ (f = q + 1 \/ (q + 1 = Sectors /\ f = 0))
    <3>1. PICK x \in Nat : x = Start(q) + PerSector /\ x <= Cap
      BY <1>1
    <3>2. w = IF x < Cap THEN x ELSE x - Cap
      BY <1>1, <1>4, <3>1, Wrapped, Sizes DEF Wrap
    <3>3. CASE q + 1 < Sectors
      <4>1. q + 1 \in SectorsOf /\ Start(q + 1) + PerSector <= Cap
        BY <1>1, <3>3, StartOfSector DEF SectorsOf
      <4> QED
        BY <1>1, <3>1, <3>2, <4>1
    <3>4. CASE q + 1 = Sectors
      <4>1. w = 0 /\ 0 \in SectorsOf
        BY <1>1, <3>1, <3>2, <3>4 DEF SectorsOf
      <4> QED
        BY <1>1, <3>4, <4>1
    <3> QED
      BY <1>1, <3>3, <3>4
  <2>2. w \in Slots /\ w \in Nat /\ f \in Nat /\ f <= Sectors
    BY <2>1, StartOfSector, Sizes DEF SectorsOf
  <2>3. w % PerSector = 0
    <3>1. \A p, x \in Nat : p > 0 => (x * p) % p = 0
      BY SMT
    <3> QED
      BY <1>1, <2>1, <2>2, <3>1 DEF Start
  <2>4. RestOfSector(w) = 0
    BY <1>1, <1>2, <2>3 DEF RestOfSector
  <2> QED
    BY <1>1, <1>4, <2>1, <2>2, <2>4
<1> QED
  BY <1>1, <1>3, <1>4

\* The rest of a sector, and then a run of sectors that look erased.
RestAndRun(f, n, w, rest) ==
  /\ f \in Nat /\ f <= Sectors /\ n \in 0 .. Sectors - 1
  /\ \A j \in 0 .. n - 1 : LooksErased((f + j) % Sectors)
  /\ w \in Slots /\ rest \in Nat /\ rest < PerSector /\ w + rest = Start(f)
  /\ rest > 0 => \E q \in SectorsOf : q + 1 = f /\ InSector(q, w) /\ flash[w] = Erased

IsMargin(w, m) ==
  /\ m \in 0 .. Cap
  /\ Wrap(w + m) = IF w + m < Cap THEN w + m ELSE w + m - Cap
  /\ \A i \in Slots : (w <= i /\ i < w + m) \/ i + Cap < w + m => flash[i] = Erased

\* They are a margin, which ends at a sector.
LEMMA MarginFound ==
  ASSUME FlashOK, NEW f, NEW n, NEW w, NEW rest, RestAndRun(f, n, w, rest),
         NEW m, m = rest + Start(n)
  PROVE  /\ IsMargin(w, m)
         /\ Wrap(w + m) = Start(IF f + n < Sectors THEN f + n ELSE f + n - Sectors)
<1> USE DEF RestAndRun
<1>1. /\ n \in Nat /\ n < Sectors /\ Sectors \in Nat /\ Cap \in Nat /\ PerSector \in Nat
      /\ PerSector > 0 /\ Start(n) \in Nat /\ Start(f) \in Nat /\ Start(Sectors) = Cap
      /\ Start(f + n) = Start(f) + Start(n)
      /\ Start(n) + PerSector <= Cap /\ w \in Nat /\ w < Cap
      /\ f + n \in Nat /\ Start(f + n) \in Nat
  <2>1. n \in Nat /\ n < Sectors /\ n \in SectorsOf /\ f + n \in Nat
    BY Sizes DEF SectorsOf
  <2>2. Start(n) + PerSector <= Cap
    BY <2>1, StartOfSector
  <2>3. /\ Start(n) \in Nat /\ Start(f) \in Nat /\ Start(Sectors) = Cap
        /\ Start(f + n) = Start(f) + Start(n) /\ Start(f + n) \in Nat
    BY <2>1, Starts
  <2> QED
    BY <2>1, <2>2, <2>3, Sizes DEF Slots
<1>2. Start(f) <= Cap
  <2>1. f < Sectors => Start(f) + PerSector <= Start(Sectors)
    BY <1>1, Starts
  <2>2. f < Sectors \/ f = Sectors
    BY <1>1
  <2> QED
    BY <1>1, <2>1, <2>2
<1>3. w + m = Start(f + n) /\ m \in 0 .. Cap /\ m \in Nat
  BY <1>1
<1>4. PICK x \in Nat : x = w + m /\ x < Cap + Cap /\ x = Start(f + n)
  BY <1>1, <1>2, <1>3
<1>5. Wrap(x) = IF x < Cap THEN x ELSE x - Cap
  BY <1>4, Wrapped DEF Wrap
<1>6. Wrap(x) = Start(IF f + n < Sectors THEN f + n ELSE f + n - Sectors)
  <2>1. CASE f + n < Sectors
    <3>1. Start(f + n) + PerSector <= Start(Sectors)
      BY <1>1, <2>1, Starts
    <3>2. x < Cap
      BY <1>1, <1>4, <3>1
    <3> QED
      BY <1>4, <1>5, <2>1, <3>2
  <2>2. CASE ~(f + n < Sectors)
    <3>1. PICK d \in Nat : d = f + n - Sectors
      BY <1>1, <2>2
    <3>2. Start(d + Sectors) = Start(d) + Start(Sectors) /\ Start(d) \in Nat
      BY <1>1, <3>1, Starts
    <3>3. d + Sectors = f + n
      BY <1>1, <3>1
    <3>4. x = Start(d) + Cap
      BY <1>1, <1>4, <3>2, <3>3
    <3>5. Wrap(x) = Start(d)
      BY <1>1, <1>5, <3>2, <3>4
    <3> QED
      BY <2>2, <3>1, <3>5
  <2> QED
    BY <2>1, <2>2
<1>7. ASSUME NEW i \in Slots, NEW j \in 0 .. n - 1, i \div PerSector = (f + j) % Sectors
      PROVE  flash[i] = Erased
  <2>1. PICK s \in SectorsOf : s = i \div PerSector /\ InSector(s, i)
    BY SectorOfSlot
  <2>2. flash[Start(s)] = Erased
    BY <1>7, <2>1 DEF LooksErased
  <2>3. Start(s) \in Slots /\ InSector(s, Start(s)) /\ (Start(s) = i \/ Start(s) < i)
    BY <2>1, StartOfSector DEF InSector, Slots
  <2> QED
    BY <2>1, <2>2, <2>3 DEF FlashOK, FilledFromFront
<1>8. ASSUME NEW i \in Slots,
             (w <= i /\ i < w + m) \/ i + Cap < w + m
      PROVE  flash[i] = Erased
  <2>1. PICK s \in SectorsOf : s = i \div PerSector /\ InSector(s, i)
    BY SectorOfSlot
  <2>2. /\ s \in Nat /\ s < Sectors /\ i \in Nat /\ i < Cap /\ Start(s) \in Nat
        /\ Start(s) <= i /\ i < Start(s) + PerSector
    BY <2>1, StartOfSector, Sizes DEF SectorsOf, Slots, InSector
  <2>3. CASE w <= i /\ i < w + rest
    <3>1. PICK q \in SectorsOf : q + 1 = f /\ InSector(q, w) /\ flash[w] = Erased
      BY <1>1, <2>2, <2>3
    <3>2. Start(f) = Start(q) + PerSector /\ q \in Nat /\ Start(q) \in Nat
      BY <3>1, StartOfSector, Starts
    <3>3. InSector(q, i) /\ (w = i \/ w < i)
      BY <1>1, <2>2, <2>3, <3>1, <3>2 DEF InSector
    <3> QED
      BY <3>1, <3>3 DEF FlashOK, FilledFromFront
  <2>4. CASE Start(f) <= i /\ i < Start(f + n)
    <3>1. ~(s < f)
      <4>1. s < f => Start(s) + PerSector <= Start(f)
        BY <2>2, Starts
      <4> QED
        BY <1>1, <2>2, <2>4, <4>1
    <3>2. ~(f + n <= s)
      <4>1. f + n < s => Start(f + n) + PerSector <= Start(s)
        BY <1>1, <2>2, Starts
      <4>2. f + n \in Nat /\ Start(f + n) \in Nat
        BY <1>1
      <4>3. f + n <= s => f + n < s \/ f + n = s
        BY <2>2, <4>2
      <4> QED
        BY <1>1, <2>2, <2>4, <4>1, <4>2, <4>3
    <3>3. PICK j \in 0 .. n - 1 : f + j = s
      <4>1. s - f \in 0 .. n - 1 /\ f + (s - f) = s
        BY <1>1, <2>2, <3>1, <3>2
      <4> QED
        BY <4>1
    <3>4. s % Sectors = s
      BY <1>1, <2>2, Wrapped
    <3> QED
      BY <1>7, <2>1, <3>3, <3>4
  <2>5. CASE i + Cap < Start(f + n)
    <3>1. ~(f + n <= s + Sectors)
      <4>1. Start(s + Sectors) = Start(s) + Cap /\ s + Sectors \in Nat
        BY <1>1, <2>2, Starts
      <4>2. f + n < s + Sectors => Start(f + n) + PerSector <= Start(s + Sectors)
        BY <1>1, <4>1, Starts
      <4>3. f + n \in Nat /\ Start(f + n) \in Nat
        BY <1>1
      <4>4. f + n <= s + Sectors => f + n < s + Sectors \/ f + n = s + Sectors
        BY <4>1, <4>3
      <4> QED
        BY <1>1, <2>2, <2>5, <4>1, <4>2, <4>3, <4>4
    <3>2. PICK j \in 0 .. n - 1 : f + j = s + Sectors
      <4>1. s + Sectors - f \in 0 .. n - 1 /\ f + (s + Sectors - f) = s + Sectors
        BY <1>1, <2>2, <3>1
      <4> QED
        BY <4>1
    <3>3. (s + Sectors) % Sectors = s
      <4>1. PICK z \in Nat : z = s + Sectors /\ z < Sectors + Sectors /\ ~(z < Sectors)
        BY <1>1, <2>2
      <4>2. z % Sectors = z - Sectors
        BY <4>1, Wrapped
      <4> QED
        BY <1>1, <2>2, <4>1, <4>2
    <3> QED
      BY <1>7, <2>1, <3>2, <3>3
  <2>6. \/ w <= i /\ i < w + rest
        \/ Start(f) <= i /\ i < Start(f + n)
        \/ i + Cap < Start(f + n)
    BY <1>1, <1>3, <1>8, <2>2
  <2> QED
    BY <2>3, <2>4, <2>5, <2>6
<1>10. Wrap(w + m) = IF w + m < Cap THEN w + m ELSE w + m - Cap
  BY <1>1, <1>3, <1>4, <1>5
<1>11. Wrap(w + m) = Start(IF f + n < Sectors THEN f + n ELSE f + n - Sectors)
  BY <1>4, <1>6
<1> QED
  BY <1>3, <1>8, <1>10, <1>11, Zenon DEF IsMargin

\* The sector found is the last one to be read, whatever sector reading begins
\* with that the scan may find; the number found is that of the last record.
LEMMA FoundOrder ==
  ASSUME FlashOK, NEW r \in SectorsOf, SortedFrom(Start(r)),
         NEW q \in Written, \A u \in Written : flash[Start(u)] <= flash[Start(q)],
         NEW f \in Nat, f = q + 1 \/ (q + 1 = Sectors /\ f = 0),
         NEW n \in 0 .. Sectors - 1, \A j \in 0 .. n - 1 : LooksErased((f + j) % Sectors),
         NEW e \in SectorsOf, e = IF f + n < Sectors THEN f + n ELSE f + n - Sectors
  PROVE  /\ SortedFrom(Start(e))
         /\ \A i \in Slots : Holds(i) => flash[i] <= LastSeq(q)
<1>1. /\ Sectors \in Nat /\ Sectors > 1 /\ q \in Nat /\ q < Sectors /\ r \in Nat /\ r < Sectors
      /\ e \in Nat /\ e < Sectors /\ n \in Nat /\ n < Sectors /\ Written \subseteq SectorsOf
      /\ q \in SectorsOf
  BY Sizes DEF SectorsOf, Written
<1>2. MaxSeq \in Nat /\ Erased \notin Numbers /\ Numbers \subseteq Nat
  BY RecorderAssumption DEF Numbers, Erased
<1>3. ASSUME NEW u \in Written
      PROVE  /\ u \in SectorsOf /\ u \in Nat /\ u < Sectors /\ Start(u) \in Slots /\ Start(u) \in Int
             /\ InSector(u, Start(u)) /\ Holds(Start(u)) /\ flash[Start(u)] \in Nat
  <2>1. u \in SectorsOf /\ flash[Start(u)] \in Numbers
    BY <1>1 DEF Written
  <2>2. u \in Nat /\ Start(u) \in Nat /\ Start(u) \in Slots /\ InSector(u, Start(u))
    BY <2>1, StartOfSector
  <2>3. u < Sectors
    BY <1>1, <2>1 DEF SectorsOf
  <2>4. flash[Start(u)] \in Nat
    BY <1>2, <2>1, Zenon
  <2>5. Start(u) \in Int
    <3>1. \A x \in Nat : x \in Int
      OBVIOUS
    <3> QED
      BY <2>2, <3>1, Zenon
  <2> QED
    BY <2>1, <2>2, <2>3, <2>4, <2>5, Zenon DEF Holds
<1>4. ASSUME NEW u \in Written, u # q PROVE Before(r, u, q)
  <2> SUFFICES ASSUME ~Before(r, u, q) PROVE FALSE
    OBVIOUS
  <2>1. Before(r, q, u)
    BY <1>1, <1>3, <1>4 DEF Before
  <2>2. Before(Start(r), Start(q), Start(u))
    BY <1>3, <1>4, <2>1, BeforeBySector
  <2>3. flash[Start(q)] < flash[Start(u)]
    <3>1. ~InSector(q, Start(u))
      BY <1>1, <1>3, <1>4, OneSector
    <3> QED
      BY <1>1, <1>3, <2>2, <3>1, NotMisplaced
  <2> QED
    BY <1>3, <2>3
<1>5. ASSUME NEW u \in Written, u # q PROVE Before(e, u, q)
  <2> SUFFICES ASSUME ~Before(e, u, q) PROVE FALSE
    OBVIOUS
  <2>1. u \in Nat /\ u < Sectors
    BY <1>3
  <2>2. \E j \in 0 .. n - 1 : f + j = u \/ f + j = u + Sectors
    <3>1. CASE f <= u
      <4>1. u - f \in 0 .. n - 1 /\ f + (u - f) = u
        BY <1>1, <1>5, <2>1, <3>1 DEF Before
      <4> QED
        BY <4>1
    <3>2. CASE ~(f <= u)
      <4>1. u + Sectors - f \in 0 .. n - 1 /\ f + (u + Sectors - f) = u + Sectors
        BY <1>1, <1>5, <2>1, <3>2 DEF Before
      <4> QED
        BY <4>1
    <3> QED
      BY <3>1, <3>2
  <2>3. PICK j \in 0 .. n - 1 : f + j = u \/ f + j = u + Sectors
    BY <2>2
  <2>4. (f + j) % Sectors = u
    <3>1. PICK z \in Nat : z = f + j /\ z < Sectors + Sectors
      BY <1>1, <2>1, <2>3
    <3>2. z % Sectors = IF z < Sectors THEN z ELSE z - Sectors
      BY <3>1, Wrapped
    <3> QED
      BY <1>1, <2>1, <2>3, <3>1, <3>2
  <2>5. flash[Start(u)] = Erased
    BY <2>4 DEF LooksErased
  <2> QED
    BY <1>2, <1>3, <2>5 DEF Holds
<1>6. ASSUME NEW i \in Slots, Holds(i)
      PROVE  \E s \in Written : InSector(s, i) /\ i \in Int
  <2>1. PICK s \in SectorsOf : InSector(s, i)
    BY SectorOfSlot
  <2>2. Holds(Start(s))
    BY <1>6, <2>1 DEF FlashOK, NumbersFirst
  <2>3. s \in Written /\ i \in Int
    BY <2>2 DEF Written, SectorsOf, Holds, Slots
  <2> QED
    BY <2>1, <2>3
<1>7. SortedFrom(Start(e))
  <2> SUFFICES ASSUME NEW i \in Slots, NEW j \in Slots, Holds(i), Holds(j), Before(Start(e), i, j)
               PROVE  flash[i] < flash[j] \/ Misplaced(i, j)
    BY DEF SortedFrom
  <2>1. PICK s \in Written : InSector(s, i) /\ i \in Int
    BY <1>6
  <2>2. PICK t \in Written : InSector(t, j) /\ j \in Int
    BY <1>6
  <2>3. Before(Start(r), i, j)
    <3>1. CASE s = t
      <4>1. s \in SectorsOf /\ InSector(s, i) /\ InSector(s, j) /\ i \in Int /\ j \in Int
        BY <1>3, <2>1, <2>2, <3>1
      <4>2. Before(Start(e), i, j) <=> i < j
        BY <4>1, BeforeBySector
      <4>3. Before(Start(r), i, j) <=> i < j
        BY <4>1, BeforeBySector
      <4> QED
        BY <4>2, <4>3
    <3>2. CASE s # t
      <4>1. Before(e, s, t)
        BY <1>3, <2>1, <2>2, <3>2, BeforeBySector
      <4>2. Before(r, s, t)
        <5>1. s \in Nat /\ t \in Nat
          BY <1>3
        <5>2. s = q \/ (Before(r, s, q) /\ Before(e, s, q))
          BY <1>4, <1>5
        <5>3. t = q \/ (Before(r, t, q) /\ Before(e, t, q))
          BY <1>4, <1>5
        <5> QED
          BY <1>1, <3>2, <4>1, <5>1, <5>2, <5>3 DEF Before
      <4> QED
        BY <1>3, <2>1, <2>2, <3>2, <4>2, BeforeBySector
    <3> QED
      BY <3>1, <3>2
  <2> QED
    BY <2>3 DEF SortedFrom
<1>8. ASSUME NEW i \in Slots, Holds(i) PROVE flash[i] <= LastSeq(q)
  <2>1. PICK s \in Written : InSector(s, i) /\ i \in Int
    BY <1>6, <1>8
  <2>2. LastSeq(q) \in Stored /\ \A k \in 0 .. Used(q) - 1 : flash[Start(q) + k] <= LastSeq(q)
    BY LastFound
  <2>3. /\ Used(q) \in 0 .. PerSector
        /\ Used(q) < PerSector => flash[Start(q) + Used(q)] = Erased
    BY <1>1, UsedFound
  <2>4. /\ Start(q) \in Nat /\ PerSector \in Nat /\ PerSector > 0 /\ Cap \in Nat
        /\ Start(q) + PerSector <= Cap
    BY <1>1, StartOfSector, Sizes
  <2>5. CASE s = q
    <3>1. ~(Used(q) < PerSector /\ Start(q) + Used(q) <= i)
      <4> SUFFICES ASSUME Used(q) < PerSector, Start(q) + Used(q) <= i PROVE FALSE
        OBVIOUS
      <4>1. PICK k \in Slots : k = Start(q) + Used(q)
        BY <2>3, <2>4 DEF Slots
      <4>2. InSector(q, k) /\ flash[k] = Erased /\ (k = i \/ k < i) /\ InSector(q, i)
        BY <2>1, <2>3, <2>4, <2>5, <4>1 DEF InSector
      <4>3. flash[i] = Erased
        BY <1>1, <4>2 DEF FlashOK, FilledFromFront
      <4> QED
        BY <1>2, <1>8, <4>3 DEF Holds
    <3>2. PICK k \in 0 .. Used(q) - 1 : i = Start(q) + k
      <4>1. i - Start(q) \in 0 .. Used(q) - 1 /\ i = Start(q) + (i - Start(q))
        BY <2>1, <2>3, <2>4, <2>5, <3>1 DEF InSector
      <4> QED
        BY <4>1
    <3> QED
      BY <2>2, <3>2
  <2>6. CASE s # q
    <3>1. Before(r, s, q)
      BY <1>4, <2>6
    <3>2. Before(Start(r), i, Start(q))
      BY <1>3, <2>1, <2>6, <3>1, BeforeBySector
    <3>3. flash[i] < flash[Start(q)]
      <4>1. ~InSector(s, Start(q))
        BY <1>1, <1>3, <2>6, OneSector
      <4> QED
        BY <1>3, <1>8, <2>1, <3>2, <4>1, NotMisplaced
    <3>4. flash[Start(q)] <= LastSeq(q)
      <4>1. Used(q) # 0
        <5> SUFFICES ASSUME Used(q) = 0 PROVE FALSE
          OBVIOUS
        <5>1. Start(q) + Used(q) = Start(q)
          BY <2>4
        <5> QED
          BY <1>2, <1>3, <2>3, <2>4, <5>1 DEF Holds
      <4>2. 0 \in 0 .. Used(q) - 1 /\ Start(q) + 0 = Start(q)
        BY <2>3, <2>4, <4>1
      <4> QED
        BY <2>2, <4>2
    <3>5. flash[i] \in Nat /\ flash[Start(q)] \in Nat /\ LastSeq(q) \in Nat
      BY <1>2, <1>3, <1>8, <2>2 DEF Holds, Stored
    <3> QED
      BY <3>3, <3>4, <3>5
  <2> QED
    BY <2>5, <2>6
<1> QED
  BY <1>7, <1>8

\* What init() finds in the flash is where the ring can go on: a margin that is
\* erased, everything in order from its end on, and a number above all.
LEMMA ScanFinds ==
  ASSUME RecorderInv, task = "off"
  PROVE  /\ FoundOff \in Slots /\ IsMargin(FoundOff, FoundMargin)
         /\ \E e \in SectorsOf :
              Wrap(FoundOff + FoundMargin) = Start(e) /\ SortedFrom(Start(e))
         /\ \A s \in SectorsOf : InSector(s, FoundOff) /\ Start(s) < FoundOff =>
              Holds(Start(s)) /\ \A i \in Slots : Start(s) <= i /\ i < FoundOff => flash[i] # Erased
         /\ FoundSeq \in Nat /\ FoundSeq < MaxSeq
         /\ \A x \in Stored : x < FoundSeq
         /\ \A h \in heads : h < FoundSeq => h \in Stored \/ Below({h}, Stored)
<1>1. /\ FlashOK /\ \A x \in Stored : x + 1 < MaxSeq
      /\ \A h \in heads : h \in Nat /\ (h \in Stored \/ Below({h}, Stored) \/ Below(Stored, {h}))
  BY DEF RecorderInv, RingInv, NumbersInv, HeadsInv
<1>2. PICK r \in SectorsOf : SortedFrom(Start(r))
  BY DEF RecorderInv, RingInv
<1>3. /\ MaxSeq \in Nat /\ MaxSeq > 0 /\ Numbers \subseteq Nat /\ Stored \subseteq Nat
  BY RecorderAssumption DEF Numbers, Stored
<1>4. /\ Sectors \in Nat /\ Sectors > 1 /\ PerSector \in Nat /\ PerSector > 0
      /\ Start(0) = 0 /\ Cap \in Nat /\ Cap > 0
  BY Starts, Sizes
<1>5. CASE Written = {}
  <2>1. FoundOff = 0 /\ FoundSeq = 0
    BY <1>5 DEF FoundOff, FoundSeq
  <2>2. \A i \in Slots : ~Holds(i)
    <3> SUFFICES ASSUME NEW i \in Slots, Holds(i) PROVE FALSE
      OBVIOUS
    <3>1. PICK s \in SectorsOf : InSector(s, i)
      BY SectorOfSlot
    <3>2. Holds(Start(s))
      BY <1>1, <3>1 DEF FlashOK, NumbersFirst
    <3> QED
      BY <1>5, <3>2 DEF Written, SectorsOf, Holds
  <2>3. Stored = {}
    BY <2>2 DEF Stored, Holds
  <2>4. RestOfSector(0) = 0
    <3>1. \A p \in Nat : p > 0 => (p - (0 % p)) % p = 0
      OBVIOUS
    <3> QED
      BY <1>4, <3>1 DEF RestOfSector
  <2>5. PICK n \in 0 .. Sectors - 1 :
          n = ErasedRun(Start(0)) /\ \A j \in 0 .. n - 1 : LooksErased((0 + j) % Sectors)
    <3>1. PICK f \in Nat : f = 0 /\ f <= Sectors
      BY <1>4
    <3>2. /\ ErasedRun(Start(f)) \in 0 .. Sectors - 1
          /\ \A j \in 0 .. ErasedRun(Start(f)) - 1 : LooksErased((f + j) % Sectors)
      BY <3>1, RunFound
    <3> QED
      BY <3>1, <3>2
  <2>6. Start(n) \in Nat /\ n \in SectorsOf
    BY <2>5, Starts DEF SectorsOf
  <2>7. FoundMargin = 0 + Start(n) /\ 0 + RestOfSector(0) = Start(0)
    BY <1>4, <2>1, <2>4, <2>5 DEF FoundMargin, Start
  <2>8. /\ IsMargin(0, FoundMargin)
        /\ Wrap(0 + FoundMargin) = Start(IF 0 + n < Sectors THEN 0 + n ELSE 0 + n - Sectors)
    <3>1. 0 \in Slots /\ 0 \in Nat /\ 0 <= Sectors /\ 0 < PerSector /\ 0 + 0 = Start(0)
      BY <1>4 DEF Slots
    <3>2. ~(0 > 0)
      OBVIOUS
    <3>3. RestAndRun(0, n, 0, 0)
      BY <2>5, <3>1, <3>2 DEF RestAndRun
    <3> QED
      BY <1>1, <2>7, <3>3, MarginFound
  <2>9. Wrap(0 + FoundMargin) = Start(n) /\ SortedFrom(Start(n))
    <3>1. n < Sectors /\ 0 + n = n
      BY <1>4, <2>5
    <3> QED
      BY <2>2, <2>8, <3>1 DEF SortedFrom
  <2>10. \A s \in SectorsOf : ~(Start(s) < 0)
    BY StartOfSector
  <2>11. 0 \in Slots
    BY <1>4 DEF Slots
  <2>12. FoundSeq \in Nat /\ FoundSeq < MaxSeq /\ \A h \in heads : ~(h < FoundSeq)
    <3>1. \A h \in heads : h \in Nat
      BY <1>1
    <3>2. \A h \in Nat : ~(h < 0)
      OBVIOUS
    <3> QED
      BY <1>3, <2>1, <3>1, <3>2
  <2> QED
    BY <2>1, <2>3, <2>6, <2>8, <2>9, <2>10, <2>11, <2>12
<1>6. CASE Written # {}
  <2>1. PICK q \in Written :
          q = NewestSector /\ \A u \in Written : flash[Start(u)] <= flash[Start(q)]
    BY <1>6, NewestFound
  <2>2. q \in SectorsOf /\ q \in Nat /\ Start(q) \in Nat /\ Start(q) \in Slots
    BY StartOfSector DEF Written, SectorsOf
  <2>3. /\ Used(q) \in 0 .. PerSector
        /\ \A i \in 0 .. Used(q) - 1 : flash[Start(q) + i] # Erased
        /\ Used(q) < PerSector => flash[Start(q) + Used(q)] = Erased
    BY <2>2, UsedFound
  <2>4. Holds(Start(q)) /\ flash[Start(q)] # Erased
    BY RecorderAssumption DEF Written, Holds, Numbers, Erased
  <2>5. PICK u \in 1 .. PerSector : u = Used(q)
    <3>1. Used(q) # 0
      <4> SUFFICES ASSUME Used(q) = 0 PROVE FALSE
        OBVIOUS
      <4>1. Start(q) + Used(q) = Start(q)
        BY <2>2
      <4> QED
        BY <1>4, <2>3, <2>4, <4>1
    <3> QED
      BY <1>4, <2>3, <3>1
  <2>6. PICK w : w = FoundOff /\ w = Wrap(Start(q) + u)
    BY <1>6, <2>1, <2>5 DEF FoundOff
  <2>7. PICK f \in Nat :
          /\ f <= Sectors /\ (f = q + 1 \/ (q + 1 = Sectors /\ f = 0))
          /\ w \in Slots /\ w + RestOfSector(w) = Start(f)
          /\ RestOfSector(w) = IF u < PerSector THEN PerSector - u ELSE 0
          /\ u < PerSector => w = Start(q) + u
    BY <2>2, <2>6, RestFound
  <2>8. PICK rest \in Nat : rest = RestOfSector(w) /\ rest < PerSector
    <3>1. PerSector - u \in Nat /\ PerSector - u < PerSector
      BY <1>4
    <3> QED
      BY <1>4, <2>7, <3>1
  <2>9. PICK n \in 0 .. Sectors - 1 :
          n = ErasedRun(Start(f)) /\ \A j \in 0 .. n - 1 : LooksErased((f + j) % Sectors)
    BY <2>7, RunFound
  <2>10. PICK m : m = FoundMargin /\ m = rest + Start(n)
    BY <2>6, <2>7, <2>8, <2>9 DEF FoundMargin, Start
  <2>11. PICK e \in SectorsOf : e = IF f + n < Sectors THEN f + n ELSE f + n - Sectors
    BY <1>4, <2>7, <2>9 DEF SectorsOf
  <2>12. rest > 0 => /\ q \in SectorsOf /\ q + 1 = f /\ InSector(q, w) /\ flash[w] = Erased
                     /\ w = Start(q) + u /\ u < PerSector
    <3> SUFFICES ASSUME rest > 0
                 PROVE  /\ q + 1 = f /\ InSector(q, w) /\ flash[w] = Erased
                        /\ w = Start(q) + u /\ u < PerSector
      BY <2>2
    <3>1. u < PerSector /\ w = Start(q) + u /\ flash[w] = Erased
      BY <1>4, <2>3, <2>5, <2>7, <2>8
    <3>2. InSector(q, w)
      BY <1>4, <2>2, <3>1 DEF InSector
    <3>3. Start(f) = Start(q) + PerSector
      BY <1>4, <2>2, <2>7, <3>1
    <3>4. f # 0
      BY <1>4, <2>2, <3>3
    <3> QED
      BY <2>7, <3>1, <3>2, <3>4
  <2>13. /\ IsMargin(w, m)
         /\ Wrap(w + m) = Start(IF f + n < Sectors THEN f + n ELSE f + n - Sectors)
    <3>1. rest > 0 => \E s \in SectorsOf : s + 1 = f /\ InSector(s, w) /\ flash[w] = Erased
      BY <2>12
    <3>2. w \in Slots /\ w + rest = Start(f) /\ f <= Sectors
      BY <2>7, <2>8
    <3>3. RestAndRun(f, n, w, rest)
      BY <2>8, <2>9, <3>1, <3>2 DEF RestAndRun
    <3> QED
      BY <1>1, <2>10, <3>3, MarginFound
  <2>14. SortedFrom(Start(e)) /\ \A i \in Slots : Holds(i) => flash[i] <= LastSeq(q)
    BY <1>1, <1>2, <2>1, <2>7, <2>9, <2>11, FoundOrder
  <2>15. LastSeq(q) \in Stored
    BY <1>1, LastFound
  <2>16. FoundSeq = LastSeq(q) + 1 /\ LastSeq(q) \in Nat
    BY <1>3, <1>6, <2>1, <2>15 DEF FoundSeq
  <2>17. FoundSeq \in Nat /\ FoundSeq < MaxSeq
    BY <1>1, <2>15, <2>16
  <2>18. \A x \in Stored : x <= LastSeq(q) /\ x < FoundSeq
    <3>1. \A x \in Stored : x <= LastSeq(q)
      BY <2>14 DEF Stored, Holds
    <3> QED
      BY <1>3, <2>16, <3>1
  <2>19. \A h \in heads : h < FoundSeq => h \in Stored \/ Below({h}, Stored)
    <3> SUFFICES ASSUME NEW h \in heads, h < FoundSeq, Below(Stored, {h}) PROVE FALSE
      BY <1>1
    <3>1. LastSeq(q) < h /\ h \in Nat
      BY <1>1, <2>15 DEF Below
    <3> QED
      BY <2>16, <3>1
  <2>20. ASSUME NEW s \in SectorsOf, InSector(s, w), Start(s) < w
         PROVE  Holds(Start(s)) /\ \A i \in Slots : Start(s) <= i /\ i < w => flash[i] # Erased
    <3>1. rest > 0
      <4> SUFFICES ASSUME rest = 0 PROVE FALSE
        BY <2>8
      <4>1. w = Start(f) /\ w < Cap /\ w \in Nat
        BY <1>4, <2>7, <2>8 DEF Slots
      <4>2. f # Sectors
        BY <1>4, <4>1, Starts
      <4>3. f \in SectorsOf /\ InSector(f, w)
        BY <1>4, <2>7, <4>1, <4>2 DEF SectorsOf, InSector
      <4>4. s = f
        BY <2>7, <2>20, <4>3, SlotsOfSector
      <4> QED
        BY <2>20, <4>1, <4>4
    <3>2. s = q
      BY <2>7, <2>12, <2>20, <3>1, SlotsOfSector
    <3>3. ASSUME NEW i \in Slots, Start(s) <= i, i < w PROVE flash[i] # Erased
      <4>1. i - Start(q) \in 0 .. Used(q) - 1 /\ Start(q) + (i - Start(q)) = i
        BY <2>2, <2>5, <2>12, <3>1, <3>2, <3>3 DEF Slots
      <4> QED
        BY <2>3, <4>1
    <3> QED
      BY <2>4, <3>2, <3>3
  <2>21. Wrap(w + m) = Start(e)
    BY <2>11, <2>13
  <2> QED
    BY <2>6, <2>7, <2>10, <2>13, <2>14, <2>17, <2>18, <2>19, <2>20, <2>21
<1> QED
  BY <1>5, <1>6

\* Boot goes on with a session header.
LEMMA BootKeeps ==
  ASSUME RecorderInv, Boot
  PROVE  RecorderInv'
<1>1. /\ task = "off" /\ task' = "loop" /\ flash' = flash
      /\ writeOff' = FoundOff /\ margin' = FoundMargin
      /\ eraseNext' = Wrap(FoundOff + FoundMargin)
      /\ seq' = FoundSeq + 1 /\ queue' = <<FoundSeq>> /\ buf' = <<>>
      /\ heads' = {h \in heads : h < FoundSeq} \cup {FoundSeq}
      /\ note' = (IF note < FoundSeq THEN note ELSE NoNumber) /\ pending' = pending
  BY DEF Boot
<1>2. /\ FoundOff \in Slots /\ IsMargin(FoundOff, FoundMargin)
      /\ \E e \in SectorsOf :
           Wrap(FoundOff + FoundMargin) = Start(e) /\ SortedFrom(Start(e))
      /\ \A s \in SectorsOf : InSector(s, FoundOff) /\ Start(s) < FoundOff =>
           Holds(Start(s)) /\ \A i \in Slots : Start(s) <= i /\ i < FoundOff => flash[i] # Erased
      /\ FoundSeq \in Nat /\ FoundSeq < MaxSeq
      /\ \A x \in Stored : x < FoundSeq
      /\ \A h \in heads : h < FoundSeq => h \in Stored \/ Below({h}, Stored)
  BY <1>1, ScanFinds
<1>3. PICK e \in SectorsOf : eraseNext' = Start(e) /\ SortedFrom(Start(e))
  BY <1>1, <1>2
<1>4. FlashOK'
  BY <1>1 DEF RecorderInv, RingInv, FlashOK, FlashType, FilledFromFront, NumbersFirst, Holds, InSector
<1>5. PointersOK'
  BY <1>1, <1>2 DEF PointersOK, IsMargin
<1>6. MarginErased'
  BY <1>1, <1>2 DEF MarginErased, InMargin, IsMargin
<1>7. SortedFrom(eraseNext)'
  <2>1. \A i, j \in Slots : Holds(i) /\ Holds(j) /\ Misplaced(i, j) => Misplaced(i, j)'
    <3> SUFFICES ASSUME NEW i \in Slots, NEW j \in Slots, Holds(i), Holds(j),
                        note \in {flash[i], flash[j]}
                 PROVE  note' = note
      BY <1>1 DEF Misplaced
    <3>1. flash[i] < FoundSeq /\ flash[j] < FoundSeq
      BY <1>2 DEF Stored, Holds
    <3> QED
      BY <1>1, <3>1
  <2> QED
    BY <1>1, <1>3, <2>1 DEF SortedFrom, Before, Holds
<1>8. WrittenUpTo'
  BY <1>1, <1>2 DEF WrittenUpTo, InSector, Holds
<1>9. RingInv'
  BY <1>1, <1>4, <1>5, <1>6, <1>7, <1>8 DEF RingInv
<1>10. Stored' = Stored
  BY <1>1 DEF Stored
<1>11. buf' \in Seq(Nat) /\ queue' \in Seq(Nat) /\ Len(buf') = 0 /\ Len(queue') = 1
       /\ queue'[1] = FoundSeq
  BY <1>1, <1>2
<1>12. pending = NoNumber /\ note \in Nat \cup {NoNumber}
  BY <1>1 DEF RecorderInv, NumbersInv
<1>13. InLine' = {1} /\ Line(1)' = FoundSeq
  <2>1. Length' = 1
    BY <1>1, <1>11, <1>12 DEF Length
  <2>2. ~(1 <= 0) /\ 1 <= 0 + 1 /\ 1 - 0 = 1
    OBVIOUS
  <2>3. Line(1)' = FoundSeq
    BY <1>11, <2>2 DEF Line
  <2> QED
    BY <2>1, <2>3 DEF InLine
<1>14. Lined' = {FoundSeq}
  BY <1>13 DEF Lined
<1>15. /\ seq' \in Nat /\ seq' <= MaxSeq /\ FoundSeq < seq'
       /\ \A x \in Nat : x < FoundSeq => x < seq'
  BY <1>1, <1>2, RecorderAssumption
<1>16. Stored \subseteq Nat
  BY RecorderAssumption DEF Stored, Numbers
<1>17. note' \in Nat \cup {NoNumber} /\ note' < seq'
  BY <1>1, <1>2, <1>12 DEF NoNumber
<1>18. LineOK'
  <2>1. \A k \in InLine' : k = 1
    BY <1>13
  <2>2. ~(1 < 1)
    OBVIOUS
  <2> QED
    BY <1>2, <1>10, <1>13, <1>15, <2>1, <2>2 DEF LineOK, Follows
<1>19. NumbersInv'
  <2>1. Below(Stored', {seq'})
    BY <1>2, <1>10, <1>15, <1>16 DEF Below
  <2> QED
    BY <1>1, <1>11, <1>12, <1>15, <1>17, <1>18, <2>1 DEF NumbersInv
<1>20. HeadsInv'
  <2> SUFFICES ASSUME NEW h \in heads'
               PROVE  h \in Nat /\ h # NoNumber /\ h < seq'
                      /\ (h \in Stored \cup {FoundSeq} \/ Below({h}, Stored \cup {FoundSeq}))
    BY <1>1, <1>10, <1>12, <1>14 DEF HeadsInv
  <2>1. \A x \in Nat : x # NoNumber
    BY DEF NoNumber
  <2>2. CASE h = FoundSeq
    BY <1>2, <1>15, <2>1, <2>2
  <2>3. CASE h \in heads /\ h < FoundSeq
    <3>1. h \in Nat
      BY <2>3 DEF RecorderInv, HeadsInv
    <3> QED
      BY <1>2, <1>15, <2>1, <2>3, <3>1 DEF Below
  <2> QED
    BY <1>1, <2>2, <2>3
<1> QED
  BY <1>9, <1>19, <1>20 DEF RecorderInv

(***************************************************************************)
(* Theorems                                                                *)
(***************************************************************************)

\* A partition that was never written.
LEMMA RecorderInit ==
  ASSUME Init
  PROVE  RecorderInv
<1>1. /\ task = "off" /\ heads = {} /\ note = NoNumber /\ pending = NoNumber
      /\ \A i \in Slots : flash[i] = Erased
  BY DEF Init
<1>2. Erased \notin Numbers
  BY RecorderAssumption DEF Erased, Numbers
<1>3. FlashOK
  BY <1>1, <1>2 DEF Init, FlashOK, FlashType, FilledFromFront, NumbersFirst, Holds
<1>4. 0 \in SectorsOf /\ SortedFrom(Start(0))
  BY <1>1, <1>2, Sizes DEF SectorsOf, SortedFrom, Holds
<1>5. Stored = {}
  BY <1>1, <1>2 DEF Stored
<1> QED
  BY <1>1, <1>3, <1>4, <1>5 DEF RecorderInv, RingInv, NumbersInv, HeadsInv

\* Every step of writer, producers and resets keeps the invariant.
LEMMA RecorderStep ==
  ASSUME RecorderInv, [Next]_vars
  PROVE  RecorderInv'
<1>1. CASE Boot
  BY <1>1, BootKeeps
<1>2. CASE TakeNumber \/ Enqueue \/ RequestErase \/ (\E active \in BOOLEAN : SetFlight(active))
           \/ TakeRequest \/ Receive \/ FlushTimeout \/ FlushGivesUp
  <2>1. task # "off"
    <3>1. Enqueue => task # "off"
      BY DEF Enqueue, RecorderInv, NumbersInv
    <3> QED
      BY <1>2, <3>1 DEF TakeNumber, RequestErase, SetFlight, TakeRequest, Receive, FlushTimeout,
                        FlushGivesUp
  <2>2. RingInv'
    BY <1>2, <2>1, IdleKeeps
  <2>3. NumbersInv' /\ HeadsInv'
    BY <1>2, <2>1, TakeNumberKeeps, IdleKeepsNumbers, GivesUpKeeps
  <2> QED
    BY <2>2, <2>3 DEF RecorderInv
<1>3. CASE BackgroundErase \/ FlushErase
  BY <1>3, EraseKeepsAll
<1>4. CASE EraseBlock
  BY <1>4, EraseBlockKeeps
<1>5. CASE FinishErase
  BY <1>5, FinishEraseKeeps
<1>6. CASE FlushWrite
  BY <1>6, WriteKeepsRing, WriteKeepsNumbers DEF RecorderInv
<1>7. CASE Crash \/ CrashInProgram
  BY <1>7, CrashKeeps
<1>8. CASE TakeNote \/ QueueNote
  BY <1>8, TakeNoteKeeps, QueueNoteKeeps
<1>9. CASE UNCHANGED vars
  <2>1. /\ flash' = flash /\ writeOff' = writeOff /\ margin' = margin /\ eraseNext' = eraseNext
        /\ seq' = seq /\ heads' = heads /\ queue' = queue /\ buf' = buf /\ task' = task
        /\ block' = block /\ note' = note /\ pending' = pending
    BY <1>9 DEF vars, ring, numbers
  <2>2. UNCHANGED ring /\ note' = note
    BY <1>9 DEF vars, numbers
  <2>3. Stored' = Stored /\ Length' = Length /\ InLine' = InLine /\ \A k : Line(k)' = Line(k)
    BY <2>1, <2>2, SameRing DEF Length, InLine, Line
  <2>4. RingInv'
    <3>1. FlashOK => FlashOK'
      BY <2>2, SameRing
    <3>2. PointersOK /\ MarginErased /\ SortedFrom(eraseNext)
          => PointersOK' /\ MarginErased' /\ SortedFrom(eraseNext)'
      BY <2>2, SameRing
    <3>3. WrittenUpTo => WrittenUpTo'
      BY <2>2, SameRing
    <3>4. (\E r \in SectorsOf : SortedFrom(Start(r))) => \E r \in SectorsOf : SortedFrom(Start(r))'
      BY <2>1 DEF SortedFrom, Holds, Before, Misplaced
    <3> QED
      BY <2>1, <3>1, <3>2, <3>3, <3>4 DEF RecorderInv, RingInv
  <2>5. NumbersInv'
    <3>1. LineOK => LineOK'
      BY <2>1, <2>3 DEF LineOK, Follows, Excused
    <3>2. ClearedOK => ClearedOK'
      BY <2>1, <2>3 DEF ClearedOK
    <3> QED
      BY <2>1, <2>3, <3>1, <3>2 DEF RecorderInv, NumbersInv
  <2>6. HeadsInv'
    BY <2>1, <2>3 DEF RecorderInv, HeadsInv, Lined
  <2> QED
    BY <2>4, <2>5, <2>6 DEF RecorderInv
<1> QED
  BY <1>1, <1>2, <1>3, <1>4, <1>5, <1>6, <1>7, <1>8, <1>9 DEF Next

\* Flash, pointers and numbers agree, whatever resets interrupt.
THEOREM RecorderInvariant == Spec => []RecorderInv
<1>1. Init => RecorderInv
  BY RecorderInit
<1>2. RecorderInv /\ [Next]_vars => RecorderInv'
  BY RecorderStep
<1> QED
  BY <1>1, <1>2, PTL DEF Spec

\* No record is programmed over what is not erased: the margin that the writer
\* counts is erased, and ends where it erases next.
THEOREM MarginTheorem == Spec => []MarginIsErased
<1>1. RecorderInv => MarginIsErased
  <2> SUFFICES ASSUME RecorderInv, task # "off"
               PROVE  /\ \A i \in 0 .. margin - 1 : flash[(writeOff + i) % Cap] = Erased
                      /\ eraseNext = (writeOff + margin) % Cap
    BY DEF MarginIsErased
  <2>1. /\ writeOff \in Nat /\ writeOff < Cap /\ margin \in Nat /\ margin <= Cap /\ Cap \in Nat
        /\ eraseNext = IF writeOff + margin < Cap THEN writeOff + margin ELSE writeOff + margin - Cap
        /\ \A i \in Slots : InMargin(i) => flash[i] = Erased
    BY Sizes DEF RecorderInv, RingInv, PointersOK, MarginErased, Slots
  <2>2. eraseNext = (writeOff + margin) % Cap
    <3>1. PICK x \in Nat : x = writeOff + margin /\ x < Cap + Cap
      BY <2>1
    <3>2. x % Cap = IF x < Cap THEN x ELSE x - Cap
      BY <3>1, Wrapped
    <3> QED
      BY <2>1, <3>1, <3>2
  <2>3. ASSUME NEW i \in 0 .. margin - 1 PROVE flash[(writeOff + i) % Cap] = Erased
    <3>1. PICK x \in Nat : x = writeOff + i /\ x < Cap + Cap
      BY <2>1
    <3>2. x % Cap = IF x < Cap THEN x ELSE x - Cap
      BY <3>1, Wrapped
    <3>3. PICK k \in Slots : k = x % Cap
      BY <2>1, <3>1, <3>2 DEF Slots
    <3>4. InMargin(k)
      BY <2>1, <3>1, <3>2, <3>3 DEF InMargin
    <3> QED
      BY <2>1, <3>1, <3>3, <3>4
  <2> QED
    BY <2>2, <2>3
<1> QED
  BY <1>1, RecorderInvariant, PTL

\* Reading begins at the next sector to erase and goes once around.
LEMMA ReadingOrder ==
  ASSUME RecorderInv, task # "off"
  PROVE  \E pos \in [Slots -> Slots] :
           /\ \A p \in Slots : At(p) = flash[pos[p]]
           /\ \A p, q \in Slots : p < q => Before(eraseNext, pos[p], pos[q])
           /\ \A i \in Slots : \E p \in Slots : pos[p] = i
           /\ \A p, q \in Slots : pos[p] < PerSector /\ pos[q] < PerSector =>
                p \div PerSector = q \div PerSector
<1>1. PICK r \in SectorsOf : eraseNext = Start(r)
  BY DEF RecorderInv, RingInv, PointersOK
<1>2. /\ eraseNext \div PerSector = r /\ eraseNext \in Nat /\ eraseNext < Cap
      /\ Cap \in Nat /\ Slots = 0 .. Cap - 1
  BY <1>1, StartOfSector, Sizes DEF Slots
<1> DEFINE pos == [p \in Slots |-> IF eraseNext + p < Cap THEN eraseNext + p
                                   ELSE eraseNext + p - Cap]
<1>3. pos \in [Slots -> Slots]
  BY <1>2
<1>4. ASSUME NEW p \in Slots PROVE At(p) = flash[pos[p]]
  <2>1. PICK x \in Nat : x = eraseNext + p /\ x < Cap + Cap
    BY <1>2
  <2>2. x % Cap = IF x < Cap THEN x ELSE x - Cap
    BY <2>1, Wrapped
  <2>3. (Start(r) + p) % Cap = pos[p]
    BY <1>1, <1>2, <2>1, <2>2
  <2> QED
    BY <1>2, <2>3 DEF At
<1>5. ASSUME NEW p \in Slots, NEW q \in Slots, p < q PROVE Before(eraseNext, pos[p], pos[q])
  BY <1>2, <1>5 DEF Before
<1>6. ASSUME NEW i \in Slots PROVE \E p \in Slots : pos[p] = i
  <2>1. CASE eraseNext <= i
    <3>1. i - eraseNext \in Slots /\ pos[i - eraseNext] = i
      BY <1>2, <2>1
    <3> QED
      BY <3>1
  <2>2. CASE ~(eraseNext <= i)
    <3>1. i + Cap - eraseNext \in Slots /\ pos[i + Cap - eraseNext] = i
      BY <1>2, <2>2
    <3> QED
      BY <3>1
  <2> QED
    BY <2>1, <2>2
<1>7. \E s \in SectorsOf : \A p \in Slots : pos[p] < PerSector => InSector(s, p)
  <2>1. CASE r = 0
    <3>1. 0 \in SectorsOf /\ Start(0) = 0 /\ eraseNext = 0
      BY <1>1, <2>1, Starts
    <3>2. \A p \in Slots : pos[p] = p
      BY <1>2, <3>1
    <3>3. \A p \in Slots : pos[p] < PerSector => InSector(0, p)
      BY <1>2, <3>1, <3>2, Sizes DEF InSector
    <3> QED
      BY <3>1, <3>3
  <2>2. CASE r # 0
    <3>1. r \in Nat /\ r > 0 /\ r < Sectors /\ Sectors \in Nat
      BY <2>2, Sizes DEF SectorsOf
    <3>2. PICK s \in Nat : s = Sectors - r /\ s < Sectors /\ r + s = Sectors
      BY <3>1
    <3>3. Start(r) + Start(s) = Cap /\ Start(s) \in Nat /\ PerSector <= Start(r) /\ s \in SectorsOf
      <4>1. Start(r + s) = Start(r) + Start(s) /\ Start(Sectors) = Cap /\ Start(s) \in Nat
        BY <3>1, <3>2, Starts
      <4>2. Start(0) + PerSector <= Start(r) /\ Start(0) = 0
        BY <3>1, Starts
      <4> QED
        BY <3>1, <3>2, <4>1, <4>2, Sizes DEF SectorsOf
    <3>4. \A p \in Slots : pos[p] < PerSector => InSector(s, p)
      BY <1>1, <1>2, <3>3, Sizes DEF InSector
    <3> QED
      BY <3>3, <3>4
  <2> QED
    BY <2>1, <2>2
<1>8. \A p, q \in Slots : pos[p] < PerSector /\ pos[q] < PerSector =>
        p \div PerSector = q \div PerSector
  BY <1>7, SlotsOfSector
<1> HIDE DEF pos
<1> QED
  BY <1>3, <1>4, <1>5, <1>6, <1>8

\* The note is not the header of a session.
NoteNoHeader == note \notin heads

\* No step makes it one: its number is newer than every header when it is taken.
LEMMA NoteStep ==
  ASSUME RecorderInv, NoteNoHeader, [Next]_vars
  PROVE  NoteNoHeader'
<1>1. CASE Boot
  <2>1. FoundSeq \in Nat /\ NoNumber \notin Nat /\ \A h \in heads : h \in Nat
    <3>1. FoundSeq \in Nat
      BY <1>1, ScanFinds DEF Boot
    <3>2. NoNumber \notin Nat
      BY DEF NoNumber
    <3>3. \A h \in heads : h \in Nat
      BY DEF RecorderInv, HeadsInv
    <3> QED
      BY <3>1, <3>2, <3>3
  <2>2. note' = (IF note < FoundSeq THEN note ELSE NoNumber)
        /\ heads' = {h \in heads : h < FoundSeq} \cup {FoundSeq}
    BY <1>1 DEF Boot
  <2>3. ~(FoundSeq < FoundSeq)
    BY <2>1
  <2> QED
    BY <2>1, <2>2, <2>3 DEF NoteNoHeader
<1>2. CASE FinishErase
  BY <1>2 DEF FinishErase, NoteNoHeader
<1>3. CASE TakeNote
  BY <1>3 DEF TakeNote, NoteNoHeader, RecorderInv, NumbersInv, ClearedOK
<1>4. CASE \/ TakeNumber \/ Enqueue \/ RequestErase \/ (\E active \in BOOLEAN : SetFlight(active))
           \/ BackgroundErase \/ FlushErase \/ TakeRequest \/ EraseBlock \/ QueueNote
           \/ UNCHANGED vars
  <2>1. note' = note /\ heads' \subseteq heads
    BY <1>4 DEF TakeNumber, Enqueue, RequestErase, SetFlight, BackgroundErase, FlushErase,
                TakeRequest, EraseBlock, QueueNote, vars, numbers
  <2> QED
    BY <2>1 DEF NoteNoHeader
<1>5. CASE Receive \/ FlushTimeout \/ FlushWrite \/ FlushGivesUp \/ Crash \/ CrashInProgram
  <2>1. note' = note /\ heads' \subseteq heads
    BY <1>5 DEF Receive, FlushTimeout, FlushWrite, FlushGivesUp, Crash, CrashInProgram, Off, numbers
  <2> QED
    BY <2>1 DEF NoteNoHeader
<1> QED
  BY <1>1, <1>2, <1>3, <1>4, <1>5 DEF Next

\* Records are read from the oldest to the newest but for the note, which keeps to
\* its sector; and a session that is dumped holds the records of one boot.
THEOREM OldestFirstTheorem == Spec => []OldestFirst
<1>1. RecorderInv /\ NoteNoHeader => OldestFirst
  <2> SUFFICES ASSUME RecorderInv, NoteNoHeader, task # "off"
               PROVE  /\ \A p, q \in Read : p < q =>
                           \/ At(p) < At(q)
                           \/ /\ note \in {At(p), At(q)} /\ At(p) # At(q)
                              /\ p \div PerSector = q \div PerSector
                      /\ \A p \in Listed : \A m, n \in Dumped(p), h \in heads : ~(m < h /\ h <= n)
    BY DEF OldestFirst
  <2>1. PICK pos \in [Slots -> Slots] :
           /\ \A p \in Slots : At(p) = flash[pos[p]]
           /\ \A p, q \in Slots : p < q => Before(eraseNext, pos[p], pos[q])
           /\ \A i \in Slots : \E p \in Slots : pos[p] = i
           /\ \A p, q \in Slots : pos[p] < PerSector /\ pos[q] < PerSector =>
                p \div PerSector = q \div PerSector
    BY ReadingOrder
  <2>2. SortedFrom(eraseNext)
    BY DEF RecorderInv, RingInv
  <2>3. /\ Read \subseteq Slots /\ \A p \in Read : At(p) \in Numbers
        /\ \A p \in Slots : At(p) \in Numbers => p \in Read
    BY DEF Read
  <2>4. Numbers \subseteq Nat /\ Slots \subseteq Int
    BY RecorderAssumption, Sizes DEF Numbers, Slots
  <2>5. ASSUME NEW p \in Read, NEW q \in Read, p < q
        PROVE  \/ At(p) < At(q)
               \/ /\ note \in {At(p), At(q)} /\ At(q) < At(p)
                  /\ p \div PerSector = q \div PerSector
    <3>1. /\ At(p) = flash[pos[p]] /\ At(q) = flash[pos[q]] /\ pos[p] \in Slots /\ pos[q] \in Slots
          /\ Before(eraseNext, pos[p], pos[q]) /\ p \in Slots /\ q \in Slots
          /\ Holds(pos[p]) /\ Holds(pos[q])
      BY <2>1, <2>3, <2>5 DEF Holds
    <3>2. flash[pos[p]] < flash[pos[q]] \/ Misplaced(pos[p], pos[q])
      BY <2>2, <3>1 DEF SortedFrom
    <3> QED
      BY <2>1, <3>1, <3>2 DEF Misplaced
  <2>6. \A p, q \in Read : p < q =>
          \/ At(p) < At(q)
          \/ /\ note \in {At(p), At(q)} /\ At(p) # At(q)
             /\ p \div PerSector = q \div PerSector
    <3>1. \A x \in Nat : ~(x < x)
      OBVIOUS
    <3>2. \A p \in Read : At(p) \in Nat
      BY <2>3, <2>4
    <3> QED
      BY <2>5, <3>1, <3>2
  <2>7. ASSUME NEW p \in Listed, NEW m \in Dumped(p), NEW n \in Dumped(p), NEW h \in heads,
               m < h, h <= n
        PROVE  FALSE
    <3>1. p \in Read /\ p \in Slots /\ p \in Int /\ (At(p) \in heads \/ \A q \in Read : p <= q)
      BY <2>3, <2>4 DEF Listed, Begins
    <3>2. /\ m >= At(p) /\ \A k \in Begins : k > p => n < At(k)
          /\ \E q \in Read : m = At(q)
          /\ \E q \in Read : n = At(q)
      BY DEF Dumped
    <3>3. \A q \in Read : At(q) \in Stored
      BY <2>1, <2>3 DEF Stored
    <3>4. m \in Stored /\ n \in Stored /\ m \in Nat /\ n \in Nat /\ At(p) \in Nat
      BY <2>3, <2>4, <3>1, <3>2, <3>3
    <3>5. h \in Nat /\ (h \in Stored \cup Lined \/ Below({h}, Stored \cup Lined))
      BY DEF RecorderInv, HeadsInv
    <3>6. CASE h \in Stored
      <4>1. PICK k \in Read : At(k) = h
        BY <2>1, <2>3, <3>6 DEF Stored
      <4>2. k \in Begins /\ k \in Int
        BY <2>3, <2>4, <4>1 DEF Begins
      <4>3. k # p
        BY <2>7, <3>2, <3>4, <3>5, <4>1
      <4>4. ~(k < p)
        <5> SUFFICES ASSUME k < p PROVE FALSE
          OBVIOUS
        <5>1. At(p) \in heads
          BY <3>1, <4>1, <4>2
        <5>2. At(k) < At(p)
          BY <2>5, <3>1, <4>1, <5>1 DEF NoteNoHeader
        <5> QED
          BY <2>7, <3>2, <3>4, <3>5, <4>1, <5>2
      <4>5. n < h
        BY <3>1, <3>2, <4>1, <4>2, <4>3, <4>4
      <4> QED
        BY <2>7, <3>4, <3>5, <4>5
    <3>7. CASE h \in Lined
      <4>1. PICK k \in InLine : h = Line(k)
        BY <3>7 DEF Lined
      <4>2. n < h
        BY <3>4, <4>1 DEF RecorderInv, NumbersInv, LineOK, Follows, Excused
      <4> QED
        BY <2>7, <3>4, <3>5, <4>2
    <3>8. CASE Below({h}, Stored \cup Lined)
      <4>1. h < m
        BY <3>4, <3>8 DEF Below
      <4> QED
        BY <2>7, <3>4, <3>5, <4>1
    <3> QED
      BY <3>5, <3>6, <3>7, <3>8
  <2> QED
    BY <2>6, <2>7
<1>2. Init => NoteNoHeader
  BY DEF Init, NoteNoHeader
<1>3. RecorderInv /\ NoteNoHeader /\ [Next]_vars => NoteNoHeader'
  BY NoteStep
<1> QED
  BY <1>1, <1>2, <1>3, RecorderInvariant, PTL DEF Spec

\* What making room costs is older than all that stays.
THEOREM LosesOldestTheorem == Spec => LosesOldestOnly
<1> DEFINE OldestLost ==
      task # "erasing" =>
        \A i, j \in Slots :
          /\ flash[i] \in Numbers /\ flash'[i] # flash[i]
          /\ flash[j] \in Numbers /\ flash'[j] = flash[j]
          => flash[i] < flash[j]
<1>1. ASSUME RecorderInv, [Next]_vars PROVE [OldestLost]_vars
  <2> SUFFICES ASSUME Next, task # "erasing", NEW i \in Slots, NEW j \in Slots,
                      flash[i] \in Numbers, flash'[i] # flash[i],
                      flash[j] \in Numbers, flash'[j] = flash[j]
               PROVE  flash[i] < flash[j]
    BY <1>1
  <2>1. RingInv /\ NumbersInv
    BY <1>1 DEF RecorderInv
  <2>2. Erased \notin Numbers
    BY RecorderAssumption DEF Erased, Numbers
  <2>3. CASE BackgroundErase \/ FlushErase
    <3>1. EraseOne /\ task # "off"
      BY <2>3 DEF BackgroundErase, FlushErase
    <3>2. PICK r \in SectorsOf :
             /\ eraseNext = Start(r) /\ flash' = ErasedSectors({r})
             /\ \A k \in Slots : k \div PerSector = r <=> InSector(r, k)
             /\ \A k, l \in Slots : InSector(r, k) /\ ~InSector(r, l) => Before(eraseNext, k, l)
      BY <2>1, <3>1, EraseTakesOldest
    <3>3. \A k \in Slots : flash'[k] = IF k \div PerSector \in {r} THEN Erased ELSE flash[k]
      BY <3>2 DEF ErasedSectors
    <3>4. InSector(r, i) /\ ~InSector(r, j)
      BY <2>2, <3>2, <3>3
    <3> QED
      BY <2>1, <3>1, <3>2, <3>4, NotMisplaced DEF RingInv, Holds
  <2>4. ASSUME NEW n \in 0 .. Chunk, Programs(n), task = "flush", margin >= Chunk PROVE FALSE
    <3>1. \A k \in Slots : flash[k] \in Numbers => flash'[k] = flash[k]
      BY <2>1, <2>2, <2>4, ProgramWrites
    <3> QED
      BY <3>1
  <2>5. CASE FlushWrite
    <3>1. task = "flush" /\ margin >= Chunk /\ flash' = Programmed(Chunk)
      BY <2>5 DEF FlushWrite
    <3>2. Chunk \in 0 .. Chunk
      BY <2>1, <3>1, ChunkFits
    <3> QED
      BY <2>4, <3>1, <3>2 DEF Programs
  <2>6. CASE CrashInProgram
    <3>1. /\ task = "flush" /\ margin >= Chunk
          /\ \E n \in 0 .. Chunk - 1 :
               flash' \in {Programmed(n), [Programmed(n) EXCEPT ![writeOff + n] = Torn]}
      BY <2>6 DEF CrashInProgram
    <3>2. Chunk \in Nat
      BY <2>1, <3>1, ChunkFits
    <3>3. PICK n \in 0 .. Chunk : Programs(n)
      BY <3>1, <3>2 DEF Programs
    <3> QED
      BY <2>4, <3>1, <3>3
  <2>7. CASE \/ Boot \/ TakeNumber \/ Enqueue \/ RequestErase
             \/ (\E active \in BOOLEAN : SetFlight(active))
             \/ TakeRequest \/ FinishErase \/ TakeNote \/ QueueNote
             \/ Receive \/ FlushTimeout \/ FlushGivesUp \/ Crash
    BY <2>7 DEF Boot, TakeNumber, Enqueue, RequestErase, SetFlight, TakeRequest, FinishErase,
                TakeNote, QueueNote, Receive, FlushTimeout, FlushGivesUp, Crash, ring
  <2>8. CASE EraseBlock
    BY <2>8 DEF EraseBlock
  <2> QED
    BY <2>3, <2>5, <2>6, <2>7, <2>8 DEF Next
<1> QED
  BY <1>1, RecorderInvariant, PTL DEF Spec, LosesOldestOnly

(***************************************************************************)
(* The log that the recorder implements                                    *)
(***************************************************************************)

\* What the log calls waiting is the line, and the note before it is queued.
WaitingIsLine ==
  buf \in Seq(Nat) /\ queue \in Seq(Nat) /\ pending \in Nat \cup {NoNumber} =>
    Waiting = Lined \cup (IF task = "noting" THEN {note} ELSE {})

\* Everything that waits is in the line, or is the note.
LEMMA LineWaits == WaitingIsLine
BY InTheLine DEF WaitingIsLine, Lined

\* After a step, too.
LEMMA LineWaitsAfter == WaitingIsLine'
BY LineWaits, PTL

\* The records of a sequence that grows at its end, or loses its first one.
LEMMA RangeOfMore ==
  ASSUME NEW q \in Seq(Nat), NEW n \in Nat
  PROVE  Range(Append(q, n)) = Range(q) \cup {n}
<1> DEFINE a == Append(q, n)
<1>1. /\ Len(a) = Len(q) + 1 /\ Len(q) \in Nat /\ a \in Seq(Nat)
      /\ \A k \in 1 .. Len(q) : a[k] = q[k]
      /\ a[Len(q) + 1] = n
  BY OneMore
<1>2. DOMAIN a = 1 .. Len(a) /\ DOMAIN q = 1 .. Len(q)
  BY <1>1
<1> HIDE DEF a
<1>3. \A k \in DOMAIN a : k \in DOMAIN q \/ k = Len(q) + 1
  BY <1>1, <1>2
<1>4. \A k \in DOMAIN q : k \in DOMAIN a
  BY <1>1, <1>2
<1>5. Len(q) + 1 \in DOMAIN a
  BY <1>1, <1>2
<1> QED
  BY <1>1, <1>2, <1>3, <1>4, <1>5 DEF Range, a

\* The head and the rest.
LEMMA RangeOfLess ==
  ASSUME NEW q \in Seq(Nat), q # <<>>
  PROVE  Range(q) = Range(Tail(q)) \cup {Head(q)}
<1> DEFINE t == Tail(q)
           h == Head(q)
<1>1. /\ Len(q) \in Nat /\ Len(q) > 0 /\ h = q[1] /\ t \in Seq(Nat)
      /\ Len(t) = Len(q) - 1 /\ \A k \in 1 .. Len(q) - 1 : t[k] = q[k + 1]
  BY OneLess
<1>2. DOMAIN t = 1 .. Len(q) - 1 /\ DOMAIN q = 1 .. Len(q)
  BY <1>1
<1> HIDE DEF t, h
<1>3. \A k \in DOMAIN q : k = 1 \/ (k - 1 \in DOMAIN t /\ t[k - 1] = q[k])
  BY <1>1, <1>2
<1>4. \A k \in DOMAIN t : k + 1 \in DOMAIN q /\ t[k] = q[k + 1]
  BY <1>1, <1>2
<1>5. 1 \in DOMAIN q
  BY <1>1, <1>2
<1> QED
  BY <1>1, <1>3, <1>4, <1>5 DEF Range, t, h

\* Nothing is the oldest part.
LEMMA NoneInTurn == ASSUME NEW all PROVE Log!InTurn({}, all)
BY DEF Log!InTurn

\* A partition that was never written is an empty log.
LEMMA LogInit == ASSUME Init PROVE Log!Init
<1>1. task = "off" /\ seq = 0 /\ heads = {} /\ queue = <<>> /\ buf = <<>>
      /\ note = NoNumber /\ pending = NoNumber /\ \A i \in Slots : flash[i] = Erased
  BY DEF Init
<1>2. Stored = {}
  BY <1>1, RecorderAssumption DEF Stored, Erased, Numbers
<1>3. Waiting = {}
  BY <1>1 DEF Waiting, Range, Given
<1> QED
  BY <1>1, <1>2, <1>3 DEF Mode, Log!Init, Log!None, NoNumber

\* The number that the scan finds is the one behind the newest that is stored.
LEMMA HeaderFound ==
  ASSUME RecorderInv, task = "off"
  PROVE  FoundSeq = Log!Header
<1>1. FoundSeq \in Nat /\ \A x \in Stored : x < FoundSeq
  BY ScanFinds
<1>2. Stored \subseteq Nat
  BY RecorderAssumption DEF Stored, Numbers
<1>3. CASE Written = {}
  <2>1. Stored = {}
    <3>1. FoundSeq = 0
      BY <1>3 DEF FoundSeq
    <3> QED
      BY <1>1, <1>2, <3>1
  <2> QED
    BY <1>3, <2>1 DEF FoundSeq, Log!Header
<1>4. CASE Written # {}
  <2>1. PICK n \in Stored : n = LastSeq(NewestSector)
    BY <1>4, NewestFound, LastFound DEF RecorderInv, RingInv
  <2>2. FoundSeq = n + 1 /\ n \in Nat
    BY <1>2, <1>4, <2>1 DEF FoundSeq
  <2>3. \A m \in Stored : m <= n
    BY <1>1, <1>2, <2>2
  <2>4. Log!Newest \in Stored /\ \A m \in Stored : m <= Log!Newest
    BY <2>1, <2>3 DEF Log!Newest
  <2>5. Log!Newest = n
    BY <1>2, <2>1, <2>3, <2>4
  <2> QED
    BY <2>1, <2>2, <2>5 DEF Log!Header
<1> QED
  BY <1>3, <1>4

\* Boot switches the log on.
LEMMA LogBoot == ASSUME RecorderInv, Boot PROVE Log!SwitchOn
<1>1. /\ task = "off" /\ task' = "loop" /\ flash' = flash /\ pending' = pending
      /\ seq' = FoundSeq + 1 /\ queue' = <<FoundSeq>> /\ buf' = <<>>
      /\ heads' = {h \in heads : h < FoundSeq} \cup {FoundSeq}
      /\ note' = (IF note < FoundSeq THEN note ELSE NoNumber)
  BY DEF Boot
<1>2. FoundSeq = Log!Header
  BY <1>1, HeaderFound
<1>3. Stored' = Stored
  BY <1>1 DEF Stored
<1>4. Waiting' = {FoundSeq}
  <2>1. pending = NoNumber
    BY <1>1 DEF RecorderInv, NumbersInv
  <2> QED
    BY <1>1, <2>1 DEF Waiting, Range, Given
<1> QED
  BY <1>1, <1>2, <1>3, <1>4 DEF Mode, Log!SwitchOn, Log!None, NoNumber

\* A number that nav_task takes is given.
LEMMA LogTake == ASSUME RecorderInv, TakeNumber PROVE Log!Give
<1>1. /\ task # "off" /\ task' = task /\ flash' = flash /\ seq' = seq + 1 /\ heads' = heads
      /\ buf' = buf /\ queue' = queue /\ note' = note /\ pending = NoNumber /\ pending' = seq
  BY DEF TakeNumber, ring
<1>2. Waiting' = Waiting \cup {seq}
  <2>1. seq # NoNumber
    BY <1>1 DEF RecorderInv, NumbersInv, NoNumber
  <2> QED
    BY <1>1, <2>1 DEF Waiting, Given
<1>3. Stored' = Stored
  BY <1>1 DEF Stored
<1>4. Mode # "off" /\ Mode' = Mode
  BY <1>1 DEF Mode
<1> QED
  BY <1>1, <1>2, <1>3, <1>4 DEF Log!Give

\* Its record waits in the queue, or there was no room for it.
LEMMA LogEnqueue == ASSUME RecorderInv, Enqueue PROVE Log!Refuse \/ UNCHANGED Log!vars
<1>1. /\ task' = task /\ flash' = flash /\ seq' = seq /\ heads' = heads /\ buf' = buf
      /\ note' = note /\ pending # NoNumber /\ pending' = NoNumber
  BY DEF Enqueue, ring, numbers
<1>2. task # "off"
  BY <1>1 DEF RecorderInv, NumbersInv
<1>3. LineOK /\ (task = "noting" => \A k \in InLine : Line(k) # note)
  BY <1>2 DEF RecorderInv, NumbersInv, ClearedOK
<1>4. /\ buf \in Seq(Nat) /\ queue \in Seq(Nat) /\ queue' \in Seq(Nat) /\ pending \in Nat
      /\ Length \in Nat /\ Length' \in Nat /\ Length' <= Length
      /\ \A k \in 1 .. Length' : Line(k)' = Line(k)
      /\ Length' = Length \/ (Length' = Length - 1 /\ Line(Length) = pending)
  BY <1>2, EnqueueLine
<1>5. /\ Waiting = Lined \cup (IF task = "noting" THEN {note} ELSE {})
      /\ Waiting' = Lined' \cup (IF task = "noting" THEN {note} ELSE {})
  BY <1>1, <1>4, LineWaits, LineWaitsAfter DEF WaitingIsLine
<1>6. Stored' = Stored /\ Mode' = Mode /\ Mode # "off"
  BY <1>1, <1>2 DEF Stored, Mode
<1>7. CASE Length' = Length
  <2>1. Lined' = Lined
    BY <1>4, <1>7 DEF Lined, InLine
  <2> QED
    BY <1>1, <1>5, <1>6, <2>1 DEF Log!vars
<1>8. CASE Length' = Length - 1 /\ Line(Length) = pending
  <2>1. InLine = InLine' \cup {Length} /\ \A k \in InLine' : k < Length
    BY <1>4, <1>8 DEF InLine
  <2>2. \A k \in InLine : Line(k) \in Nat
    BY <1>4, InTheLine
  <2>3. \A k \in InLine' : Line(k) # pending
    BY <1>3, <1>8, <2>1, <2>2 DEF LineOK, Follows
  <2>4. Lined' = Lined \ {pending} /\ pending \in Lined
    BY <1>4, <1>8, <2>1, <2>3 DEF Lined, InLine
  <2>5. task = "noting" => note # pending
    BY <1>3, <1>8, <2>1
  <2>6. Waiting' = Waiting \ {pending} /\ pending \in Waiting
    BY <1>5, <2>4, <2>5
  <2> QED
    BY <1>1, <1>6, <2>6 DEF Log!Refuse
<1> QED
  BY <1>4, <1>7, <1>8

\* What the log does not see.
LEMMA LogIdle ==
  ASSUME RecorderInv,
         RequestErase \/ (\E active \in BOOLEAN : SetFlight(active)) \/ Receive \/ FlushTimeout
  PROVE  UNCHANGED Log!vars
<1>1. flash' = flash /\ seq' = seq /\ heads' = heads /\ note' = note /\ pending' = pending
  BY DEF RequestErase, SetFlight, Receive, FlushTimeout, ring, numbers
<1>2. Stored' = Stored
  BY <1>1 DEF Stored
<1>3. Mode' = Mode /\ (task' = "noting" <=> task = "noting")
  BY DEF RequestErase, SetFlight, Receive, FlushTimeout, Mode
<1>4. Waiting' = Waiting
  <2>1. CASE Receive
    <3>1. /\ task = "loop" /\ queue # <<>>
          /\ buf' = Append(buf, Head(queue)) /\ queue' = Tail(queue)
      BY <2>1 DEF Receive
    <3>2. buf \in Seq(Nat) /\ queue \in Seq(Nat)
      BY <3>1 DEF RecorderInv, NumbersInv
    <3>3. Range(queue) = Range(Tail(queue)) \cup {Head(queue)} /\ Head(queue) \in Nat
      BY <3>1, <3>2, OneLess, RangeOfLess
    <3>4. Range(Append(buf, Head(queue))) = Range(buf) \cup {Head(queue)}
      BY <3>2, <3>3, RangeOfMore
    <3>5. Range(buf)' = Range(buf) \cup {Head(queue)} /\ Range(queue)' = Range(Tail(queue))
      BY <3>1, <3>4
    <3> QED
      BY <1>1, <1>3, <3>3, <3>5 DEF Waiting, Given
  <2>2. CASE ~Receive
    <3>1. buf' = buf /\ queue' = queue
      BY <2>2 DEF RequestErase, SetFlight, FlushTimeout
    <3> QED
      BY <1>1, <1>3, <3>1 DEF Waiting, Given
  <2> QED
    BY <2>1, <2>2
<1> QED
  BY <1>1, <1>2, <1>3, <1>4 DEF Log!vars

\* A sector that is erased held the oldest records.
LEMMA LogErase == ASSUME RecorderInv, BackgroundErase \/ FlushErase PROVE Log!MakeRoom
<1>1. /\ EraseOne /\ task \in {"loop", "flush"} /\ task' = task /\ seq' = seq /\ heads' = heads
      /\ queue' = queue /\ buf' = buf /\ note' = note /\ pending' = pending
  BY DEF BackgroundErase, FlushErase, numbers
<1>2. PICK r \in SectorsOf :
         /\ eraseNext = Start(r) /\ flash' = ErasedSectors({r})
         /\ \A i \in Slots : i \div PerSector = r <=> InSector(r, i)
         /\ \A i, j \in Slots : InSector(r, i) /\ ~InSector(r, j) => Before(eraseNext, i, j)
  BY <1>1, EraseTakesOldest DEF RecorderInv
<1>3. /\ Stored' \subseteq Stored
      /\ \A i \in Slots : flash'[i] = IF i \div PerSector \in {r} THEN Erased ELSE flash[i]
  BY <1>1, <1>2, EraseKeeps DEF RecorderInv, RingInv
<1>4. Erased \notin Numbers
  BY RecorderAssumption DEF Erased, Numbers
<1>5. SortedFrom(eraseNext)
  BY <1>1 DEF RecorderInv, RingInv
<1> DEFINE old == Stored \ Stored'
<1>6. ASSUME NEW m \in old, NEW n \in Stored \ old PROVE m < n
  <2>1. PICK i \in Slots : flash[i] = m /\ Holds(i)
    BY DEF Stored, Holds
  <2>2. PICK j \in Slots : flash'[j] = n /\ flash'[j] \in Numbers
    BY DEF Stored
  <2>3. InSector(r, i)
    <3>1. flash'[i] # m
      BY <2>1 DEF Stored, Holds
    <3> QED
      BY <1>2, <1>3, <2>1, <3>1
  <2>4. ~InSector(r, j) /\ flash[j] = n /\ Holds(j)
    BY <1>2, <1>3, <1>4, <2>2 DEF Holds
  <2> QED
    BY <1>2, <1>5, <2>1, <2>3, <2>4, NotMisplaced
<1>7. Log!OldestOf(old, Stored)
  BY <1>6 DEF Log!OldestOf
<1>8. Stored' = Stored \ old
  BY <1>3
<1>9. Waiting' = Waiting
  BY <1>1 DEF Waiting, Given
<1> HIDE DEF old
<1>10. old \in SUBSET Stored
  BY DEF old
<1> QED
  BY <1>1, <1>7, <1>8, <1>9, <1>10 DEF Mode, Log!MakeRoom

\* The request begins the erase of everything, or is refused.
LEMMA LogRequest == ASSUME TakeRequest PROVE Log!BeginClearing \/ UNCHANGED Log!vars
<1>1. /\ task = "loop" /\ task' \in {"loop", "erasing"} /\ flash' = flash /\ seq' = seq /\ heads' = heads
      /\ queue' = queue /\ buf' = buf /\ note' = note /\ pending' = pending
  BY DEF TakeRequest, ring, numbers
<1>2. Stored' = Stored /\ Waiting' = Waiting
  BY <1>1 DEF Stored, Waiting, Given
<1> QED
  BY <1>1, <1>2 DEF Mode, Log!BeginClearing, Log!vars

\* A block of it takes records and their headers.
LEMMA LogBlock == ASSUME RecorderInv, EraseBlock PROVE Log!Clear
<1> DEFINE blocks == block .. block + BlockSectors - 1
           gone == {flash[i] : i \in {k \in Slots : k \div PerSector \in blocks}}
<1>1. /\ task = "erasing" /\ task' = "erasing" /\ seq' = seq /\ queue' = queue /\ buf' = buf
      /\ note' = note /\ pending' = pending
      /\ flash' = ErasedSectors(blocks) /\ heads' = heads \ gone
  BY DEF EraseBlock
<1> HIDE DEF blocks
<1>2. /\ Stored' \subseteq Stored
      /\ \A i \in Slots : flash'[i] = IF i \div PerSector \in blocks THEN Erased ELSE flash[i]
  BY <1>1, EraseKeeps DEF RecorderInv, RingInv
<1>3. Waiting' = Waiting
  BY <1>1 DEF Waiting, Given
<1>4. Erased \notin Numbers
  BY RecorderAssumption DEF Erased, Numbers
<1>5. SortedFrom(eraseNext) /\ Slots \subseteq Int /\ eraseNext \in Int
  BY <1>1, Sizes, StartOfSector DEF RecorderInv, RingInv, PointersOK, Slots
<1>6. ASSUME NEW i \in Slots, NEW j \in Slots, Holds(i), flash[i] = flash[j] PROVE i = j
  <2>1. Holds(j) /\ flash[i] \in Nat
    BY <1>6, RecorderAssumption DEF Holds, Numbers
  <2> QED
    BY <1>5, <1>6, <2>1 DEF SortedFrom, Before, Misplaced
<1>7. ASSUME NEW h \in heads PROVE h \in gone <=> h \in Stored \ Stored'
  <2>1. h \in Nat /\ h # Erased /\ h # Torn
    <3>1. h \in Nat
      BY DEF RecorderInv, HeadsInv
    <3>2. \A n \in Nat : n # -1 /\ n # -2
      OBVIOUS
    <3> QED
      BY <3>1, <3>2 DEF Erased, Torn
  <2>2. ASSUME h \in gone PROVE h \in Stored \ Stored'
    <3>1. PICK i \in Slots : h = flash[i] /\ i \div PerSector \in blocks
      BY <2>2
    <3>2. h \in Numbers
      <4>1. h \in Numbers \cup {Erased, Torn}
        BY <3>1 DEF RecorderInv, RingInv, FlashOK, FlashType
      <4> QED
        BY <2>1, <4>1
    <3>3. ASSUME NEW j \in Slots, flash'[j] = h PROVE FALSE
      <4>1. flash[j] = h /\ ~(j \div PerSector \in blocks)
        BY <1>2, <2>1, <3>3
      <4>2. i = j
        BY <1>6, <3>1, <3>2, <4>1 DEF Holds
      <4> QED
        BY <3>1, <4>1, <4>2
    <3> QED
      BY <3>1, <3>2, <3>3 DEF Stored
  <2>3. ASSUME h \in Stored \ Stored' PROVE h \in gone
    <3>1. PICK i \in Slots : h = flash[i] /\ h \in Numbers /\ flash'[i] # h
      BY <2>3 DEF Stored
    <3> QED
      BY <1>2, <3>1
  <2> QED
    BY <2>2, <2>3
<1> HIDE DEF gone
<1>8. heads' = heads \ (Stored \ Stored')
  BY <1>1, <1>7
<1> QED
  BY <1>1, <1>2, <1>3, <1>8 DEF Mode, Log!Clear

\* Then nothing is left but the number that nav_task has taken.
LEMMA LogFinish == ASSUME RecorderInv, FinishErase PROVE Log!EndClearing
<1>1. /\ task = "erasing" /\ task' = "cleared" /\ block = Sectors /\ flash' = flash
      /\ queue' = <<>> /\ seq' = seq /\ heads' = {} /\ buf' = <<>> /\ note' = NoNumber
      /\ pending' = pending
  BY DEF FinishErase
<1>2. \A i \in Slots : flash[i] = Erased
  <2> SUFFICES ASSUME NEW i \in Slots PROVE flash[i] = Erased
    OBVIOUS
  <2>1. i \div PerSector < Sectors
    BY SectorOfSlot, Sizes DEF SectorsOf
  <2> QED
    BY <1>1, <2>1 DEF RecorderInv, RingInv
<1>3. Stored = {} /\ Stored' = {}
  BY <1>1, <1>2, RecorderAssumption DEF Stored, Erased, Numbers
<1>4. Waiting' \subseteq Waiting
  BY <1>1 DEF Waiting, Range, Given
<1> QED
  BY <1>1, <1>3, <1>4 DEF Mode, Log!EndClearing, Log!None, NoNumber

\* The log begins again with its note.
LEMMA LogNote == ASSUME RecorderInv, TakeNote PROVE Log!Announce
<1>1. /\ task = "cleared" /\ task' = "noting" /\ note' = seq /\ seq' = seq + 1
      /\ heads' = heads /\ pending' = pending /\ queue' = queue /\ buf' = buf /\ flash' = flash
  BY DEF TakeNote, ring
<1>2. Stored' = Stored
  BY <1>1 DEF Stored
<1>3. Waiting' = Waiting \cup {seq}
  BY <1>1 DEF Waiting, Given
<1> QED
  BY <1>1, <1>2, <1>3 DEF Mode, Log!Announce

\* The note waits in the queue, or there was no room for it.
LEMMA LogQueueNote == ASSUME RecorderInv, QueueNote PROVE Log!Refuse \/ UNCHANGED Log!vars
<1>1. /\ task = "noting" /\ task' = "loop" /\ note' = note /\ seq' = seq
      /\ heads' = heads /\ pending' = pending /\ buf' = buf /\ flash' = flash
      /\ (queue' = Append(queue, note) \/ queue' = queue)
  BY DEF QueueNote, Queued, ring, numbers
<1>2. /\ buf \in Seq(Nat) /\ queue \in Seq(Nat) /\ note \in Nat
      /\ pending \in Nat \cup {NoNumber} /\ \A k \in InLine : Line(k) # note
  BY <1>1 DEF RecorderInv, NumbersInv, ClearedOK
<1>3. Stored' = Stored /\ Mode' = Mode /\ Mode # "off"
  BY <1>1 DEF Stored, Mode
<1>4. CASE queue' = Append(queue, note)
  <2>1. Range(queue)' = Range(queue) \cup {note}
    BY <1>2, <1>4, RangeOfMore
  <2>2. Waiting' = Waiting
    BY <1>1, <2>1 DEF Waiting, Given
  <2> QED
    BY <1>1, <1>3, <2>2 DEF Log!vars
<1>5. CASE queue' = queue
  <2>1. Waiting = Lined \cup {note}
    BY <1>1, <1>2, LineWaits DEF WaitingIsLine
  <2>2. Waiting' = Lined' /\ Lined' = Lined
    <3>1. Length' = Length /\ InLine' = InLine /\ \A k : Line(k)' = Line(k)
      BY <1>1, <1>5 DEF Length, InLine, Line
    <3> QED
      BY <1>1, <1>2, <1>5, <3>1, LineWaitsAfter DEF WaitingIsLine, Lined
  <2>3. note \notin Lined
    BY <1>2 DEF Lined
  <2>4. Waiting' = Waiting \ {note} /\ note \in Waiting
    BY <2>1, <2>2, <2>3
  <2> QED
    BY <1>1, <1>3, <2>4 DEF Log!Refuse
<1> QED
  BY <1>1, <1>4, <1>5

\* The first c of the line, and what is left of it.
LEMMA FirstInLine ==
  ASSUME LineOK, Length \in Nat, NEW c \in Nat, Length' = Length - c, Length' \in Nat,
         \A k \in 1 .. Length' : Line(k)' = Line(k + c),
         \A k \in InLine : Line(k) \in Nat
  PROVE  LET first == {Line(k) : k \in 1 .. c}
         IN  /\ first \in SUBSET Lined /\ Lined' = Lined \ first
             /\ Log!InTurn(first, Lined)
             /\ (\A k : ~Excused(k)) => Log!OldestOf(first, Lined)
<1> DEFINE first == {Line(k) : k \in 1 .. c}
<1>1. c <= Length /\ \A k \in 1 .. c : k \in InLine
  BY DEF InLine
<1>2. \A k \in 1 .. Length' : k + c \in InLine /\ \A i \in 1 .. c : i < k + c
  BY DEF InLine
<1>3. \A j \in InLine : j \in 1 .. c \/ (j - c \in 1 .. Length' /\ (j - c) + c = j)
  BY <1>1 DEF InLine
<1>4. \A i \in 1 .. c, k \in 1 .. Length' : Follows(Line(i), Line(k + c), k + c)
  BY <1>1, <1>2 DEF LineOK
<1>5. ASSUME NEW k \in 1 .. Length' PROVE Line(k)' \in Lined /\ Line(k)' \notin first
  <2>1. Line(k)' = Line(k + c) /\ Line(k + c) \in Nat /\ k + c \in InLine
    BY <1>2
  <2>2. \A i \in 1 .. c : Line(i) \in Nat /\ Line(i) # Line(k + c)
    BY <1>1, <1>4, <2>1 DEF Follows
  <2> QED
    BY <2>1, <2>2 DEF Lined
<1>6. ASSUME NEW n \in Lined \ first
      PROVE  \E k \in 1 .. Length' : n = Line(k)' /\ n = Line(k + c)
  <2>1. PICK j \in InLine : n = Line(j)
    BY DEF Lined
  <2>2. j - c \in 1 .. Length' /\ (j - c) + c = j
    BY <1>3, <2>1
  <2> QED
    BY <2>1, <2>2
<1>7. Lined' = Lined \ first
  BY <1>5, <1>6 DEF Lined, InLine
<1>8. first \in SUBSET Lined
  BY <1>1 DEF Lined
<1>9. Log!InTurn(first, Lined)
  <2>1. ASSUME NEW m \in first, NEW n \in Lined \ first PROVE m < n \/ note \in {m, n}
    BY <1>4, <1>6 DEF Follows
  <2> QED
    BY <1>8, <2>1 DEF Log!InTurn
<1>10. ASSUME \A k : ~Excused(k) PROVE Log!OldestOf(first, Lined)
  <2>1. ASSUME NEW m \in first, NEW n \in Lined \ first PROVE m < n
    BY <1>4, <1>6, <1>10 DEF Follows
  <2> QED
    BY <1>8, <2>1 DEF Log!OldestOf
<1> HIDE DEF first
<1>11. /\ first \in SUBSET Lined /\ Lined' = Lined \ first
       /\ Log!InTurn(first, Lined)
       /\ (\A k : ~Excused(k)) => Log!OldestOf(first, Lined)
  BY <1>7, <1>8, <1>9, <1>10
<1> QED
  BY <1>11 DEF first

\* What is programmed leaves the batch for the flash.
LEMMA LogWrite == ASSUME RecorderInv, FlushWrite PROVE Log!Store
<1>1. /\ task = "flush" /\ margin >= Chunk /\ flash' = Programmed(Chunk)
      /\ task' \in {"loop", "flush"} /\ seq' = seq /\ heads' = heads /\ queue' = queue
      /\ note' = note /\ pending' = pending /\ buf' = SubSeq(buf, Chunk + 1, Len(buf))
  BY DEF FlushWrite, numbers
<1>2. /\ RingInv /\ NumbersInv /\ buf \in Seq(Nat) /\ queue \in Seq(Nat)
      /\ pending \in Nat \cup {NoNumber} /\ LineOK
  BY <1>1 DEF RecorderInv, NumbersInv
<1>3. Chunk \in 0 .. Len(buf) /\ Chunk \in 0 .. Chunk /\ Programs(Chunk) /\ Chunk \in Nat
  BY <1>1, <1>2, ChunkFits DEF Programs
<1>4. /\ Length \in Nat /\ \A k \in InLine : Line(k) \in Nat
      /\ \A k \in 1 .. Chunk : Line(k) = buf[k]
  <2>1. \A k \in 1 .. Chunk : k \in 1 .. Len(buf)
    BY <1>3
  <2> QED
    BY <1>2, <2>1, InTheLine
<1>5. /\ buf' \in Seq(Nat) /\ Len(buf') = Len(buf) - Chunk
      /\ \A k \in 1 .. Len(buf) - Chunk : buf'[k] = buf[Chunk + k]
  BY <1>1, <1>2, <1>3, RestOfBatch
<1>6. /\ Length' = Length - Chunk /\ Length' \in Nat
      /\ \A k \in 1 .. Length' : Line(k)' = Line(k + Chunk)
  BY <1>1, <1>2, <1>3, <1>5, BatchShrinks
<1> DEFINE first == {Line(k) : k \in 1 .. Chunk}
<1>7. Stored' = Stored \cup first
  <2>1. PICK r \in SectorsOf : eraseNext = Start(r)
    BY <1>1, <1>2 DEF RingInv, PointersOK
  <2>2. /\ \A x \in Stored' : x \in Stored \/ \E k \in 1 .. Chunk : x = buf[k]
        /\ \A k \in 1 .. Chunk : buf[k] \in Stored'
        /\ Stored \subseteq Stored'
    BY <1>1, <1>2, <1>3, <2>1, ProgramSorts
  <2> QED
    BY <1>4, <2>2
<1>8. first \in SUBSET Lined /\ Lined' = Lined \ first /\ Log!InTurn(first, Lined)
  BY <1>2, <1>3, <1>4, <1>6, FirstInLine
<1> HIDE DEF first
<1>9. Waiting = Lined /\ Waiting' = Lined'
  BY <1>1, <1>2, <1>5, LineWaits, LineWaitsAfter DEF WaitingIsLine
<1>10. Mode = "on" /\ Mode' = "on"
  BY <1>1 DEF Mode
<1> QED
  BY <1>1, <1>7, <1>8, <1>9, <1>10 DEF Log!Store

\* A batch that cannot be programmed is given up.
LEMMA LogGivesUp == ASSUME RecorderInv, FlushGivesUp PROVE Log!GiveUp
<1>1. /\ task = "flush" /\ task' = "loop" /\ margin < Chunk
      /\ buf' = <<>> /\ heads' = heads \ Range(buf)
      /\ flash' = flash /\ seq' = seq /\ queue' = queue /\ note' = note /\ pending' = pending
  BY DEF FlushGivesUp, ring
<1>2. /\ RingInv /\ buf \in Seq(Nat) /\ queue \in Seq(Nat) /\ pending \in Nat \cup {NoNumber}
      /\ LineOK
  BY <1>1 DEF RecorderInv, NumbersInv
<1>3. /\ Length \in Nat /\ Len(buf) \in Nat /\ \A k \in InLine : Line(k) \in Nat
      /\ \A k \in 1 .. Len(buf) : Line(k) = buf[k]
  BY <1>2, InTheLine
<1>4. /\ Length' = Length - Len(buf) /\ Length' \in Nat
      /\ \A k \in 1 .. Length' : Line(k)' = Line(k + Len(buf))
  <2>1. /\ buf' \in Seq(Nat) /\ Len(buf') = 0
        /\ Len(buf) \in 0 .. Len(buf) /\ Len(buf') = Len(buf) - Len(buf)
        /\ \A k \in 1 .. Len(buf) - Len(buf) : buf'[k] = buf[Len(buf) + k]
    BY <1>1, <1>3
  <2> QED
    BY <1>1, <1>2, <2>1, BatchShrinks
<1>5. \A k : ~Excused(k)
  BY <1>1, <1>2, <1>3, GivenUpNotExcused
<1> DEFINE first == {Line(k) : k \in 1 .. Len(buf)}
<1>6. first = Range(buf)
  <2>1. DOMAIN buf = 1 .. Len(buf)
    BY <1>2
  <2> QED
    BY <1>3, <2>1 DEF Range
<1>7. first \in SUBSET Lined /\ Lined' = Lined \ first /\ Log!OldestOf(first, Lined)
  BY <1>2, <1>3, <1>4, <1>5, FirstInLine
<1> HIDE DEF first
<1>8. Waiting = Lined /\ Waiting' = Lined'
  <2>1. buf' \in Seq(Nat)
    BY <1>1
  <2> QED
    BY <1>1, <1>2, <2>1, LineWaits, LineWaitsAfter DEF WaitingIsLine
<1>9. Stored' = Stored /\ Mode = "on" /\ Mode' = "on"
  BY <1>1 DEF Stored, Mode
<1> QED
  BY <1>1, <1>6, <1>7, <1>8, <1>9 DEF Log!GiveUp

\* The first records of a batch go before the rest of the line.
LEMMA FirstOfBatch ==
  ASSUME RecorderInv, task = "flush", NEW n \in 0 .. Len(buf)
  PROVE  LET first == {buf[k] : k \in 1 .. n}
         IN  first \in SUBSET Waiting /\ Log!InTurn(first, Waiting)
<1> DEFINE first == {buf[k] : k \in 1 .. n}
<1>1. buf \in Seq(Nat) /\ queue \in Seq(Nat) /\ pending \in Nat \cup {NoNumber} /\ LineOK
  BY DEF RecorderInv, NumbersInv
<1>2. /\ Len(buf) \in Nat /\ Len(buf) <= Length /\ Length \in Nat
      /\ \A k \in 1 .. n : k \in InLine /\ Line(k) = buf[k]
  <2>1. \A k \in 1 .. n : k \in 1 .. Len(buf)
    BY <1>1
  <2> QED
    BY <1>1, <2>1, InTheLine
<1>3. Waiting = Lined
  BY <1>1, LineWaits DEF WaitingIsLine
<1>4. first \in SUBSET Waiting
  BY <1>2, <1>3 DEF Lined
<1>5. ASSUME NEW x \in first, NEW y \in Waiting \ first PROVE x < y \/ note \in {x, y}
  <2>1. PICK k \in 1 .. n : x = Line(k) /\ k \in InLine
    BY <1>2
  <2>2. PICK j \in InLine : y = Line(j)
    BY <1>3 DEF Lined
  <2>3. ~(j \in 1 .. n)
    BY <1>2, <2>2
  <2>4. k < j
    BY <1>2, <2>1, <2>3 DEF InLine
  <2> QED
    BY <1>1, <2>1, <2>2, <2>4 DEF LineOK, Follows
<1>6. Log!InTurn(first, Waiting)
  BY <1>4, <1>5 DEF Log!InTurn
<1> HIDE DEF first
<1>7. first \in SUBSET Waiting /\ Log!InTurn(first, Waiting)
  BY <1>4, <1>6
<1> QED
  BY <1>7 DEF first

\* A reset stores the first records of a batch, or none.
LEMMA LogCrash == ASSUME RecorderInv, Crash \/ CrashInProgram PROVE Log!SwitchOff
<1>1. /\ task # "off" /\ task' = "off" /\ queue' = <<>> /\ buf' = <<>> /\ seq' = 0 /\ heads' = heads
      /\ note' = note /\ pending' = NoNumber
  BY DEF Crash, CrashInProgram, Off
<1>2. Waiting' = {}
  BY <1>1 DEF Waiting, Range, Given
<1>3. \E first \in SUBSET Waiting :
         /\ Log!InTurn(first, Waiting) /\ Stored' = Stored \cup first
         /\ Mode # "on" => first = {}
  <2>1. CASE Crash
    <3>1. Stored' = Stored
      BY <2>1 DEF Crash, Stored
    <3>2. Stored' = Stored \cup {} /\ {} \in SUBSET Waiting
      BY <3>1
    <3> QED
      BY <3>2, NoneInTurn
  <2>2. CASE CrashInProgram
    <3>1. PICK n \in 0 .. Chunk - 1 :
            flash' \in {Programmed(n), [Programmed(n) EXCEPT ![writeOff + n] = Torn]}
      BY <2>2 DEF CrashInProgram
    <3>2. task = "flush" /\ margin >= Chunk /\ RingInv /\ NumbersInv
      BY <2>2 DEF CrashInProgram, RecorderInv
    <3>3. Chunk \in Nat /\ Chunk <= Len(buf) /\ buf \in Seq(Nat)
      BY <3>2, ChunkFits DEF NumbersInv
    <3>4. n \in 0 .. Chunk /\ Programs(n) /\ n < Chunk /\ n \in 0 .. Len(buf)
      BY <3>1, <3>3 DEF Programs
    <3> DEFINE first == {buf[k] : k \in 1 .. n}
    <3>5. Stored' = Stored \cup first
      <4>1. PICK r \in SectorsOf : eraseNext = Start(r)
        BY <3>2 DEF RingInv, PointersOK
      <4>2. /\ \A x \in Stored' : x \in Stored \/ \E k \in 1 .. n : x = buf[k]
            /\ \A k \in 1 .. n : buf[k] \in Stored'
            /\ Stored \subseteq Stored'
        BY <1>1, <3>2, <3>4, <4>1, ProgramSorts
      <4> QED
        BY <4>2
    <3>6. first \in SUBSET Waiting /\ Log!InTurn(first, Waiting)
      BY <3>2, <3>4, FirstOfBatch
    <3> HIDE DEF first
    <3>7. Mode = "on"
      BY <3>2 DEF Mode
    <3> QED
      BY <3>5, <3>6, <3>7
  <2> QED
    BY <2>1, <2>2
<1>4. Mode # "off" /\ Mode' = "off"
  BY <1>1 DEF Mode
<1> QED
  BY <1>1, <1>2, <1>3, <1>4 DEF Log!SwitchOff

\* KeepsLog: the ring, its batches and its scan implement a log.
THEOREM LogKept == Spec => KeepsLog
<1>1. RecorderInv /\ [Next]_vars => [Log!Next]_(Log!vars)
  <2> SUFFICES ASSUME RecorderInv, [Next]_vars
               PROVE  Log!Next \/ UNCHANGED Log!vars
    OBVIOUS
  <2>1. CASE Boot
    BY <2>1, LogBoot DEF Log!Next
  <2>2. CASE TakeNumber
    BY <2>2, LogTake DEF Log!Next
  <2>3. CASE Enqueue
    BY <2>3, LogEnqueue DEF Log!Next
  <2>4. CASE RequestErase \/ (\E active \in BOOLEAN : SetFlight(active)) \/ Receive \/ FlushTimeout
    BY <2>4, LogIdle
  <2>5. CASE BackgroundErase \/ FlushErase
    BY <2>5, LogErase DEF Log!Next
  <2>6. CASE TakeRequest
    BY <2>6, LogRequest DEF Log!Next
  <2>7. CASE EraseBlock
    BY <2>7, LogBlock DEF Log!Next
  <2>8. CASE FinishErase
    BY <2>8, LogFinish DEF Log!Next
  <2>9. CASE TakeNote
    BY <2>9, LogNote DEF Log!Next
  <2>10. CASE QueueNote
    BY <2>10, LogQueueNote DEF Log!Next
  <2>11. CASE FlushWrite
    BY <2>11, LogWrite DEF Log!Next
  <2>12. CASE FlushGivesUp
    BY <2>12, LogGivesUp DEF Log!Next
  <2>13. CASE Crash \/ CrashInProgram
    BY <2>13, LogCrash DEF Log!Next
  <2>14. CASE UNCHANGED vars
    BY <2>14 DEF vars, ring, numbers, Mode, Stored, Waiting, Given, Log!vars
  <2> QED
    BY <2>1, <2>2, <2>3, <2>4, <2>5, <2>6, <2>7, <2>8, <2>9, <2>10, <2>11, <2>12, <2>13, <2>14
       DEF Next
<1>2. Init => Log!Init
  BY LogInit
<1> QED
  BY <1>1, <1>2, RecorderInvariant, PTL DEF Spec, KeepsLog, Log!Spec
=============================================================================
