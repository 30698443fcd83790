----------------------------- MODULE BootProofs -----------------------------
(***************************************************************************)
(* Theorems about Boot, for any image that is linked as Linked says, any    *)
(* memory, any table of processors and any MAX_CPU_COUNT: the kernel's      *)
(* memory is its image, whole and untouched; cpus stays in its bounds, and  *)
(* bootstrapCPU is the marked processor; at the prompt the address space is *)
(* laid out as memlayout.h draws it, and the free list has what is left.     *)
(***************************************************************************)
EXTENDS Boot, SequenceTheorems, FreeListProofs

(***************************************************************************)
(* The invariant is strengthened by what holds during the walk: the records *)
(* point at entries of the table, bootstrapCPU at a record that exists, of  *)
(* the marked entry, and nothing is started before the walk ends.           *)
(***************************************************************************)
WalkInv == /\ table \in Tables
           /\ i \in 0..Len(table)
           /\ cpus \in Seq(0..Len(table)) /\ cpuCount <= MaxCpuCount
           /\ bootstrap \in 0..cpuCount-1 \cup {None}
           /\ bootstrap # None /\ table # <<>> => cpus[bootstrap + 1] = Bsp(table)
           /\ pc \in {"search", "walk", "lapic", "done", "panic", "fault"}
           /\ pc \in {"search", "walk"} => started = {}
           /\ pc \in {"lapic", "done"} => bootstrap # None /\ started = {bootstrap}

\* A table is a sequence, and its marked entry is the one Bsp names.
LEMMA MarkedIsBsp ==
    ASSUME NEW t \in Tables, NEW k \in DOMAIN t, t[k].proc, t[k].bsp
    PROVE  k = Bsp(t)
<1>1. t \in Seq(Entries) /\ t # <<>>
  BY ProcessorsAssumption
<1>2. PICK n \in DOMAIN t : Marked(t) = {n}
  BY <1>1, ProcessorsAssumption
<1>3. k \in Marked(t)
  BY DEF Marked
<1> QED
  BY <1>2, <1>3 DEF Bsp

LEMMA WalkInvInit == Init => WalkInv
<1> SUFFICES ASSUME Init PROVE WalkInv
  OBVIOUS
<1>1. table \in Seq(Entries)
  BY ProcessorsAssumption DEF Init
<1> QED
  BY <1>1, ProcessorsAssumption DEF Init, WalkInv, None, cpuCount

\* A processor entry: a record is added, unless cpus is full.
LEMMA WalkInvAdd == WalkInv /\ AddProcessor => WalkInv'
<1> SUFFICES ASSUME WalkInv, AddProcessor PROVE WalkInv'
  OBVIOUS
<1> USE ProcessorsAssumption
<1>1. table \in Seq(Entries) /\ i + 1 \in DOMAIN table /\ table # <<>>
  BY DEF WalkInv, AddProcessor
<1>2. i' \in 0..Len(table) /\ table' = table /\ pc' = pc /\ pc = "walk" /\ started' = started
  BY <1>1 DEF WalkInv, AddProcessor
<1>3. CASE cpuCount < MaxCpuCount
  <2>1. cpus' = Append(cpus, i + 1) /\ bootstrap' = IF table[i + 1].bsp THEN cpuCount ELSE bootstrap
    BY <1>3 DEF AddProcessor
  <2>2. /\ cpus' \in Seq(0..Len(table)) /\ Len(cpus') = Len(cpus) + 1 /\ Len(cpus') <= MaxCpuCount
        /\ cpus'[Len(cpus) + 1] = i + 1
        /\ \A k \in 1..Len(cpus) : cpus'[k] = cpus[k]
    BY <1>1, <1>3, <2>1 DEF WalkInv, cpuCount
  <2>3. bootstrap' \in 0..Len(cpus')-1 \cup {None}
    BY <2>1, <2>2 DEF WalkInv, cpuCount, None
  <2>4. bootstrap' # None => cpus'[bootstrap' + 1] = Bsp(table)
    <3>1. CASE table[i + 1].bsp
      BY <1>1, <2>1, <2>2, <3>1, MarkedIsBsp DEF WalkInv, AddProcessor, cpuCount
    <3>2. CASE ~table[i + 1].bsp
      <4>1. bootstrap' = bootstrap
        BY <2>1, <3>2
      <4>2. bootstrap # None => bootstrap + 1 \in 1..Len(cpus)
        BY DEF WalkInv, cpuCount
      <4> QED
        BY <1>1, <2>2, <4>1, <4>2 DEF WalkInv
    <3> QED
      BY <3>1, <3>2
  <2> QED
    BY <1>2, <2>2, <2>3, <2>4 DEF WalkInv, cpuCount, None
<1>4. CASE ~(cpuCount < MaxCpuCount)
  BY <1>2, <1>4 DEF WalkInv, AddProcessor, cpuCount, None
<1> QED
  BY <1>3, <1>4

LEMMA WalkInvStep == WalkInv /\ [Next]_vars => WalkInv'
<1> SUFFICES ASSUME WalkInv, [Next]_vars PROVE WalkInv'
  OBVIOUS
<1> USE ProcessorsAssumption
<1>1. CASE Single
  BY <1>1 DEF WalkInv, Single, cpuCount, None
<1>2. CASE AddProcessor
  BY <1>2, WalkInvAdd
<1>3. CASE SkipEntry
  BY <1>3 DEF WalkInv, SkipEntry, cpuCount, None
<1>4. CASE Start
  BY <1>4 DEF WalkInv, Start, cpuCount, None
<1>5. CASE LapicInit
  BY <1>5 DEF WalkInv, LapicInit, cpuCount, None
<1>6. CASE RefuseTable \/ TakeTable
  BY <1>6 DEF WalkInv, RefuseTable, TakeTable, cpuCount, None
<1>7. CASE UNCHANGED vars
  BY <1>7 DEF WalkInv, vars, cpuCount, None
<1> QED
  BY <1>1, <1>2, <1>3, <1>4, <1>5, <1>6, <1>7 DEF Next

\* WalkInv is an invariant of mp::init.
THEOREM Inductive == Spec => []WalkInv
  BY WalkInvInit, WalkInvStep, PTL DEF Spec

\* mp::init writes no record beyond the end of cpus, however many processors
\* the table lists.
THEOREM TypeCorrect == Spec => []TypeOK
<1>1. WalkInv => TypeOK
  BY ProcessorsAssumption DEF WalkInv, TypeOK, cpuCount, None
<1> QED
  BY <1>1, Inductive, PTL

\* When mp::init goes on to the local APIC, bootstrapCPU is the processor that
\* the table marks, and the only one started.
THEOREM BootstrapCorrect == Spec => []BootstrapIsMarked
<1>1. WalkInv => BootstrapIsMarked
  BY ProcessorsAssumption DEF WalkInv, BootstrapIsMarked, cpuCount, None
<1> QED
  BY <1>1, Inductive, PTL

-----------------------------------------------------------------------------
LEMMA Product ==
  ASSUME NEW a \in Nat, NEW b \in Nat
  PROVE  a * b \in Nat /\ (a > 0 /\ b > 0 => a * b > 0)
OBVIOUS

-----------------------------------------------------------------------------
(***************************************************************************)
(* The loader.  While readseg is in segment h, pa is in the sectors of h,   *)
(* and sect is the one of the file that belongs there; what lies below pa   *)
(* has been read.  Reading a whole sector does no harm, since all segments  *)
(* that lie in it lie alike in the file.                                    *)
(***************************************************************************)
Reading(h) == /\ pa \in Int /\ sect \in Int
              /\ pa = (pa \div SectSize) * SectSize
              /\ h.pa \div SectSize <= pa \div SectSize
              /\ (sect - 1) * SectSize = pa - Shift(h)
              /\ endPa = h.pa + h.memsz

\* Byte a of segment h is the one of the file.
Whole(h, a) == mem[a] = a - Shift(h)

LoadInv ==
    /\ image \in Images
    /\ DOMAIN mem = 0..MemTop-1
    /\ seg \in 0..Len(image.phdrs)
    /\ stage = "load" => /\ seg > 0 => Reading(image.phdrs[seg])
                         /\ \A k \in 1..seg : \A a \in Bytes(image.phdrs[k]) :
                               k < seg \/ a < pa => Whole(image.phdrs[k], a)
    /\ stage = "entered" => \A k \in DOMAIN image.phdrs : \A a \in Bytes(image.phdrs[k]) :
                               Whole(image.phdrs[k], a)
    /\ InKernel(stage) => ImageLoaded

\* What is known of an image that a run may have.
LEMMA ImageIs ==
  ASSUME LoadInv
  PROVE  /\ image.phdrs \in Seq(Headers)
         /\ image.edata \in Nat /\ image.end \in Nat /\ image.kernEnd \in Nat \ {0}
         /\ SectSize \in Nat /\ SectSize > 0 /\ MemTop \in Nat
         /\ \A k \in DOMAIN image.phdrs :
               /\ Shift(image.phdrs[k]) \in Int
               /\ Shift(image.phdrs[k]) % SectSize = 0
               /\ image.phdrs[k].memsz = 0 => image.phdrs[k].pa % SectSize = 0
               /\ Bytes(image.phdrs[k]) \subseteq 0..MemTop-1
               /\ \A a \in Bytes(image.phdrs[k]) : a < image.kernEnd
         /\ \A j, k \in DOMAIN image.phdrs :
               Sectors(image.phdrs[j]) \cap Sectors(image.phdrs[k]) # {}
                  => Shift(image.phdrs[j]) = Shift(image.phdrs[k])
<1>1. Linked(image)
  BY BootLoaderAssumption, Zenon DEF LoadInv
<1>2. \A k \in DOMAIN image.phdrs : image.phdrs[k] \in ToSet(image.phdrs)
  BY Zenon DEF ToSet
<1>3. image.phdrs \in Seq(Headers)
  BY <1>1 DEF Linked
<1>4. \A k \in DOMAIN image.phdrs : image.phdrs[k] \in Headers
  BY <1>3
<1>5. ElfHdr + HdrSize \in Nat /\ MemTop \in Nat /\ SectSize \in Nat /\ SectSize > 0
  BY BootLoaderAssumption
<1>6. \A h \in ToSet(image.phdrs) : /\ Shift(h) % SectSize = 0
                                    /\ h.memsz = 0 => h.pa % SectSize = 0
                                    /\ Bytes(h) \subseteq ElfHdr+HdrSize..MemTop-1
                                    /\ \A a \in Bytes(h) : a < image.kernEnd
  BY <1>1 DEF Linked
<1>7. ASSUME NEW k \in DOMAIN image.phdrs
      PROVE  /\ Shift(image.phdrs[k]) \in Int
             /\ Shift(image.phdrs[k]) % SectSize = 0
             /\ image.phdrs[k].memsz = 0 => image.phdrs[k].pa % SectSize = 0
             /\ Bytes(image.phdrs[k]) \subseteq 0..MemTop-1
             /\ \A a \in Bytes(image.phdrs[k]) : a < image.kernEnd
  <2>1. Shift(image.phdrs[k]) \in Int
    BY <1>4 DEF Shift, Headers
  <2>2. /\ Shift(image.phdrs[k]) % SectSize = 0
        /\ image.phdrs[k].memsz = 0 => image.phdrs[k].pa % SectSize = 0
        /\ Bytes(image.phdrs[k]) \subseteq ElfHdr+HdrSize..MemTop-1
        /\ \A a \in Bytes(image.phdrs[k]) : a < image.kernEnd
    <3>1. image.phdrs[k] \in ToSet(image.phdrs)
      BY <1>2
    <3> QED
      BY <1>6, <3>1
  <2>3. Bytes(image.phdrs[k]) \subseteq 0..MemTop-1
    BY <1>5, <2>2
  <2> QED
    BY <2>1, <2>2, <2>3
<1>8. ASSUME NEW j \in DOMAIN image.phdrs, NEW k \in DOMAIN image.phdrs,
             Sectors(image.phdrs[j]) \cap Sectors(image.phdrs[k]) # {}
      PROVE  Shift(image.phdrs[j]) = Shift(image.phdrs[k])
  BY <1>1, <1>2, <1>8, Zenon DEF Linked
<1>9. image.edata \in Nat /\ image.end \in Nat /\ image.kernEnd \in Nat \ {0}
  BY <1>1 DEF Linked
<1> QED
  BY <1>3, <1>5, <1>7, <1>8, <1>9

LEMMA LoadInvInit == LoadInit => LoadInv
<1> SUFFICES ASSUME LoadInit PROVE LoadInv
  OBVIOUS
<1>1. image \in Images /\ DOMAIN mem = 0..MemTop-1 /\ seg = 0 /\ stage = "load"
  BY DEF LoadInit
<1>2. Linked(image)
  BY <1>1, BootLoaderAssumption
<1>3. 0 \in 0..Len(image.phdrs)
  BY <1>2 DEF Linked
<1> QED
  BY <1>1, <1>3 DEF LoadInv, InKernel

\* The bytes of a sector of h that readseg is at, and what they become.
LEMMA SectorIs ==
  ASSUME LoadInv, NEW h \in Headers, Reading(h), pa < endPa,
         h.memsz = 0 => h.pa % SectSize = 0
  PROVE  pa \div SectSize \in Sectors(h)
<1>1. SectSize \in Nat /\ SectSize > 0
  BY ImageIs
<1>2. h.pa \in Nat /\ h.memsz \in Nat /\ pa \in Int /\ endPa = h.pa + h.memsz
  BY DEF Reading, Headers
<1>3. h.memsz > 0
  <2> SUFFICES ASSUME h.memsz = 0 PROVE FALSE
    BY <1>2
  <2> DEFINE q == h.pa \div SectSize
             r == pa \div SectSize
  <2>1. h.pa = q * SectSize + (h.pa % SectSize) /\ h.pa % SectSize = 0 /\ q \in Int /\ r \in Int
    <3>1. h.pa \in Int /\ h.pa % SectSize = 0
      BY <1>2
    <3>2. h.pa = q * SectSize + (h.pa % SectSize) /\ q \in Int
      BY <1>1, <3>1, Quotient
    <3>3. r \in Int
      BY <1>1, <1>2, Quotient
    <3> QED
      BY <3>1, <3>2, <3>3
  <2>2. q <= r /\ pa = r * SectSize
    BY DEF Reading
  <2> HIDE DEF q, r
  <2>3. q < r => q * SectSize + SectSize <= r * SectSize
    BY <1>1, <2>1, Apart
  <2>4. q * SectSize \in Int
    BY <1>1, <2>1
  <2>5. h.pa = q * SectSize
    BY <2>1, <2>4
  <2>6. h.pa <= pa
    BY <1>1, <1>2, <2>1, <2>2, <2>3, <2>4, <2>5
  <2> QED
    BY <1>2, <2>6
<1>4. CASE pa < h.pa
  <2>1. pa \div SectSize <= h.pa \div SectSize
    BY <1>1, <1>2, <1>4, QuotientGrows
  <2>2. pa \div SectSize = h.pa \div SectSize
    <3>1. pa \div SectSize \in Int /\ h.pa \div SectSize \in Int
      BY <1>1, <1>2, Quotient
    <3> QED
      BY <2>1, <3>1 DEF Reading
  <2>3. h.pa \in Bytes(h)
    BY <1>2, <1>3 DEF Bytes
  <2> QED
    BY <2>2, <2>3 DEF Sectors
<1>5. CASE ~(pa < h.pa)
  <2>1. pa \in Bytes(h)
    BY <1>2, <1>5 DEF Bytes
  <2> QED
    BY <2>1 DEF Sectors
<1> QED
  BY <1>4, <1>5

LEMMA LoadInvRead == LoadInv /\ ReadSector => LoadInv'
<1> SUFFICES ASSUME LoadInv, ReadSector PROVE LoadInv'
  OBVIOUS
<1> DEFINE hdr(k) == image.phdrs[k]
<1>1. /\ stage = "load" /\ stage' = "load" /\ pa < endPa
      /\ mem' = [a \in DOMAIN mem |-> IF a \in pa..pa+SectSize-1
                                      THEN (sect - 1) * SectSize + (a - pa) ELSE mem[a]]
      /\ pa' = pa + SectSize /\ sect' = sect + 1
      /\ image' = image /\ seg' = seg /\ endPa' = endPa
  BY DEF ReadSector
<1>2. /\ SectSize \in Nat /\ SectSize > 0 /\ MemTop \in Nat /\ Len(image.phdrs) \in Nat
      /\ image.phdrs \in Seq(Headers)
      /\ DOMAIN image.phdrs = 1..Len(image.phdrs)
  BY ImageIs
<1>3. seg \in 0..Len(image.phdrs) /\ image \in Images /\ DOMAIN mem = 0..MemTop-1
  BY DEF LoadInv
<1>4. \A k \in 1..seg : k \in DOMAIN image.phdrs /\ hdr(k) \in Headers /\ hdr(k).pa \in Nat
  <2> TAKE k \in 1..seg
  <2>1. k \in DOMAIN image.phdrs
    BY <1>2, <1>3
  <2>2. hdr(k) \in Headers
    BY <1>2, <2>1
  <2> QED
    BY <2>1, <2>2 DEF Headers
<1>5. ASSUME seg > 0 PROVE Reading(hdr(seg))'
  <2> DEFINE h == hdr(seg)
             q == pa \div SectSize
  <2>1. Reading(h)
    BY <1>1, <1>5 DEF LoadInv
  <2>2. /\ pa \in Int /\ sect \in Int /\ q \in Int /\ pa = q * SectSize
        /\ h.pa \div SectSize <= q /\ (sect - 1) * SectSize = pa - Shift(h)
        /\ h.pa \div SectSize \in Int /\ Shift(h) \in Int
    <3>1. seg \in DOMAIN image.phdrs /\ h.pa \in Nat
      BY <1>2, <1>3, <1>4, <1>5
    <3>2. Shift(h) \in Int
      BY <3>1, ImageIs
    <3> QED
      BY <1>2, <2>1, <3>1, <3>2, Quotient DEF Reading
  <2> HIDE DEF q, h
  <2>3. q * SectSize \in Int /\ (q + 1) * SectSize = q * SectSize + SectSize
    BY <1>2, <2>2
  <2>4. (pa + SectSize) \div SectSize = q + 1
    BY <1>2, <2>2, <2>3, QuotientIs
  <2>5. ((sect + 1) - 1) * SectSize = (pa + SectSize) - Shift(h)
    <3>1. ((sect + 1) - 1) * SectSize = (sect - 1) * SectSize + SectSize
      BY <1>2, <2>2
    <3> QED
      BY <1>2, <2>2, <3>1
  <2>6. Reading(h)'
    BY <1>1, <1>2, <2>1, <2>2, <2>3, <2>4, <2>5 DEF Reading, Shift, h, hdr
  <2> QED
    BY <2>6 DEF h
<1>6. ASSUME NEW k \in 1..seg, NEW a \in Bytes(hdr(k)), k < seg \/ a < pa + SectSize
      PROVE  mem'[a] = a - Shift(hdr(k))
  <2>1. seg > 0 /\ seg \in 1..seg /\ a \in DOMAIN mem /\ a \in Int /\ pa \in Int
    <3>1. seg \in Nat /\ k \in Int /\ seg > 0
      BY <1>2, <1>3
    <3>2. a \in 0..MemTop-1
      BY <1>4, ImageIs
    <3>3. Reading(hdr(seg))
      BY <1>1, <3>1 DEF LoadInv
    <3> QED
      <4>1. pa \in Int
        BY <3>3 DEF Reading
      <4>2. a \in 0..MemTop-1 /\ a \in Int
        BY <1>2, <3>2
      <4> QED
        BY <1>3, <3>1, <4>1, <4>2
  <2>2. CASE a \in pa..pa+SectSize-1
    <3>1. Reading(hdr(seg)) /\ hdr(seg).memsz = 0 => hdr(seg).pa % SectSize = 0
      BY <1>1, <1>4, <2>1, ImageIs DEF LoadInv
    <3>2. pa \div SectSize \in Sectors(hdr(seg))
      BY <1>1, <1>4, <2>1, <3>1, SectorIs DEF LoadInv
    <3>3. a \div SectSize = pa \div SectSize
      <4>1. pa = (pa \div SectSize) * SectSize /\ pa \div SectSize \in Int
        <5>1. pa = (pa \div SectSize) * SectSize
          BY <1>1, <2>1 DEF LoadInv, Reading
        <5>2. SectSize \in Nat /\ SectSize > 0
          BY <1>2
        <5>3. pa \div SectSize \in Int
          BY ONLY <2>1, <5>2, Quotient
        <5> QED
          BY <5>1, <5>3
      <4> DEFINE d == pa \div SectSize
      <4>2. SectSize \in Nat /\ SectSize > 0 /\ a \in Int /\ d \in Int
        BY <1>2, <2>1, <4>1
      <4>3. d * SectSize <= a /\ a < d * SectSize + SectSize
        <5>1. a >= pa /\ a <= pa + SectSize - 1
          BY <2>2
        <5> QED
          BY ONLY <2>1, <4>1, <4>2, <5>1
      <4> HIDE DEF d
      <4>4. a \div SectSize = d
        BY ONLY <4>2, <4>3, QuotientIs
      <4> QED
        BY <4>4 DEF d
    <3>4. pa \div SectSize \in Sectors(hdr(k))
      BY <3>3 DEF Sectors
    <3>5. Shift(hdr(k)) = Shift(hdr(seg)) /\ Shift(hdr(k)) \in Int
      BY <1>4, <2>1, <3>2, <3>4, ImageIs
    <3>6. mem'[a] = (sect - 1) * SectSize + (a - pa)
      BY <1>1, <2>1, <2>2
    <3>7. (sect - 1) * SectSize = pa - Shift(hdr(seg))
      BY <1>1, <2>1 DEF LoadInv, Reading
    <3> QED
      BY <2>1, <3>5, <3>6, <3>7
  <2>3. CASE a \notin pa..pa+SectSize-1
    <3>1. k < seg \/ a < pa
      BY <1>2, <1>6, <2>1, <2>3
    <3>2. mem[a] = a - Shift(hdr(k))
      BY <1>1, <3>1 DEF LoadInv, Whole
    <3> QED
      BY <1>1, <2>1, <2>3, <3>2
  <2> QED
    BY <2>2, <2>3
<1>7. DOMAIN mem' = 0..MemTop-1
  BY <1>1, <1>3
<1>8. \A k \in 1..seg : \A a \in Bytes(hdr(k)) :
         k < seg \/ a < pa + SectSize => Whole(hdr(k), a)'
  BY <1>1, <1>6 DEF Whole, Shift
<1>9. \A k \in 1..seg' : \A a \in Bytes(image.phdrs[k])' :
         k < seg' \/ a < pa' => Whole(image.phdrs[k], a)'
  BY <1>1, <1>8 DEF Bytes, Whole, Shift
<1> QED
  BY <1>1, <1>3, <1>5, <1>7, <1>9 DEF LoadInv, InKernel

\* When readseg is done with a segment all of it is there.
LEMMA AllRead ==
  ASSUME LoadInv, SegmentRead
  PROVE  \A k \in 1..seg : \A a \in Bytes(image.phdrs[k]) : Whole(image.phdrs[k], a)
<1> TAKE k \in 1..seg
<1> TAKE a \in Bytes(image.phdrs[k])
<1>1. seg \in 0..Len(image.phdrs) /\ Len(image.phdrs) \in Nat /\ image.phdrs \in Seq(Headers)
  <2>1. image.phdrs \in Seq(Headers)
    BY ImageIs
  <2>2. Len(image.phdrs) \in Nat
    BY <2>1
  <2> QED
    BY <2>1, <2>2 DEF LoadInv
<1>2. k \in DOMAIN image.phdrs /\ k \in Nat /\ seg \in Nat /\ seg > 0 /\ image.phdrs[k] \in Headers
  <2>1. k \in 1..Len(image.phdrs)
    BY <1>1
  <2> QED
    BY <1>1, <2>1
<1>3. image.phdrs[k].pa \in Nat /\ image.phdrs[k].memsz \in Nat
  BY <1>2 DEF Headers
<1>4. Reading(image.phdrs[seg])
  BY <1>2 DEF LoadInv, SegmentRead
<1>5. k < seg \/ a < pa
  <2> SUFFICES ASSUME k = seg PROVE a < pa
    BY <1>1, <1>2
  <2>1. a \in image.phdrs[k].pa .. image.phdrs[k].pa + image.phdrs[k].memsz - 1
    BY DEF Bytes
  <2>2. pa \in Int /\ endPa = image.phdrs[k].pa + image.phdrs[k].memsz /\ pa >= endPa
    BY <1>4 DEF Reading, SegmentRead
  <2> QED
    BY <1>3, <2>1, <2>2
<1> QED
  BY <1>5 DEF LoadInv, SegmentRead

LEMMA LoadInvSegment == LoadInv /\ NextSegment => LoadInv'
<1> SUFFICES ASSUME LoadInv, NextSegment PROVE LoadInv'
  OBVIOUS
<1> DEFINE h == image.phdrs[seg + 1]
<1>1. /\ SegmentRead /\ stage = "load" /\ seg < Len(image.phdrs)
      /\ seg' = seg + 1 /\ image' = image /\ mem' = mem /\ stage' = stage
      /\ pa' = (h.pa \div SectSize) * SectSize /\ endPa' = h.pa + h.memsz
      /\ sect' = h.offset \div SectSize + 1
  BY DEF NextSegment, SegmentRead, ReadSeg
<1>2. /\ SectSize \in Nat /\ SectSize > 0 /\ Len(image.phdrs) \in Nat
      /\ image.phdrs \in Seq(Headers) /\ image \in Images /\ DOMAIN mem = 0..MemTop-1
      /\ seg \in 0..Len(image.phdrs)
  BY ImageIs DEF LoadInv
<1>3. seg + 1 \in DOMAIN image.phdrs /\ h \in Headers
  BY <1>1, <1>2
<1>4. h.pa \in Nat /\ h.memsz \in Nat /\ h.offset \in Nat
  BY <1>3 DEF Headers
<1>5. Shift(h) % SectSize = 0 /\ Shift(h) = h.pa - h.offset
  BY <1>3, ImageIs DEF Shift
<1> DEFINE q == h.pa \div SectSize
           o == h.offset \div SectSize
           t == Shift(h) \div SectSize
<1>6. /\ q \in Int /\ h.pa % SectSize \in 0..SectSize-1
      /\ h.pa = q * SectSize + (h.pa % SectSize)
  <2>1. h.pa \in Int /\ SectSize \in Nat /\ SectSize > 0
    BY <1>2, <1>4
  <2> QED
    BY ONLY <2>1, Quotient
<1>7. Shift(h) \in Int /\ t \in Int /\ Shift(h) = t * SectSize
  <2>1. Shift(h) \in Int
    BY <1>4, <1>5
  <2>2. t \in Int /\ Shift(h) = t * SectSize + (Shift(h) % SectSize)
    BY <1>2, <2>1, Quotient
  <2>3. t * SectSize \in Int
    BY <1>2, <2>2
  <2> QED
    BY <1>5, <2>1, <2>2, <2>3
<1> HIDE DEF h, q, t
<1>8. o = q - t
  <2>1. (q - t) * SectSize = q * SectSize - t * SectSize
    BY <1>2, <1>6, <1>7
  <2>2. q * SectSize \in Int /\ t * SectSize \in Int /\ q - t \in Int
    BY <1>2, <1>6, <1>7
  <2>3. (q - t) * SectSize <= h.offset /\ h.offset < (q - t) * SectSize + SectSize
    <3> DEFINE qs == q * SectSize
               ts == t * SectSize
               r  == h.pa % SectSize
    <3>1. qs \in Int /\ ts \in Int /\ r \in 0..SectSize-1
      BY <1>6, <2>2
    <3>2. h.pa = qs + r /\ h.pa - h.offset = ts /\ (q - t) * SectSize = qs - ts
      BY <1>5, <1>6, <1>7, <2>1
    <3> HIDE DEF qs, ts, r
    <3> QED
      BY <1>2, <1>4, <3>1, <3>2
  <2>4. h.offset \div SectSize = q - t
    <3> DEFINE r == q - t
               a == h.offset
    <3>1. r \in Int /\ a \in Int /\ r * SectSize <= a /\ a < r * SectSize + SectSize
      BY <1>4, <2>2, <2>3
    <3> HIDE DEF r, a
    <3>2. a \div SectSize = r
      BY <1>2, <3>1, QuotientIs
    <3> QED
      BY <3>2 DEF r, a
  <2> QED
    BY <2>4
<1> HIDE DEF o
<1>9. pa' = q * SectSize /\ q * SectSize \in Int /\ sect' = o + 1 /\ sect' \in Int
  <2>1. pa' = q * SectSize /\ sect' = o + 1
    BY <1>1 DEF q, o, h
  <2>2. q * SectSize \in Int
    BY <1>2, <1>6
  <2>3. o \in Int
    BY <1>6, <1>7, <1>8
  <2> QED
    BY <2>1, <2>2, <2>3
<1>10. pa' \div SectSize = q
  BY <1>2, <1>6, <1>9, QuotientIs
<1>11. (sect' - 1) * SectSize = pa' - Shift(h)
  <2>1. sect' - 1 = q - t
    BY <1>6, <1>7, <1>8, <1>9
  <2>2. (q - t) * SectSize = q * SectSize - t * SectSize
    BY <1>2, <1>6, <1>7
  <2> QED
    BY <1>7, <1>9, <2>1, <2>2
<1>12. Reading(image.phdrs[seg])'
  <2>1. image'.phdrs[seg'] = h
    BY <1>1 DEF h
  <2>2. pa' \in Int /\ pa' = (pa' \div SectSize) * SectSize /\ q <= pa' \div SectSize
    BY <1>6, <1>9, <1>10
  <2>3. endPa' = h.pa + h.memsz
    BY <1>1 DEF h
  <2> QED
    BY <1>9, <1>11, <2>1, <2>2, <2>3 DEF Reading, Shift, q
<1>13. \A a \in Bytes(h) : ~(a < pa')
  <2>1. pa' <= h.pa
    BY <1>4, <1>6, <1>9
  <2> QED
    BY <1>4, <1>9, <2>1 DEF Bytes
<1>14. ASSUME NEW k \in 1..seg+1, NEW a \in Bytes(image.phdrs[k]), k < seg + 1 \/ a < pa'
       PROVE  Whole(image.phdrs[k], a)
  <2>1. CASE k = seg + 1
    BY <1>2, <1>13, <1>14, <2>1 DEF h
  <2>2. CASE k # seg + 1
    <3>1. k \in 1..seg
      BY <1>2, <2>2
    <3> QED
      BY <1>1, <3>1, AllRead
  <2> QED
    BY <2>1, <2>2
<1>15. \A k \in 1..seg' : \A a \in Bytes(image.phdrs[k])' :
          k < seg' \/ a < pa' => Whole(image.phdrs[k], a)'
  BY <1>1, <1>14 DEF Bytes, Whole, Shift
<1>16. seg' \in 0..Len(image'.phdrs)
  BY <1>1, <1>2
<1> QED
  BY <1>1, <1>2, <1>12, <1>15, <1>16 DEF LoadInv, InKernel

LEMMA LoadInvClear == LoadInv /\ ClearBss => LoadInv'
<1> SUFFICES ASSUME LoadInv, ClearBss PROVE LoadInv'
  OBVIOUS
<1>1. /\ stage = "entered" /\ stage' = "detect" /\ image' = image /\ seg' = seg
      /\ mem' = [a \in DOMAIN mem |-> IF a \in image.edata..image.end-1 THEN Zero ELSE mem[a]]
  BY DEF ClearBss
<1>2. DOMAIN mem = 0..MemTop-1
  BY DEF LoadInv
<1>3. ImageLoaded'
  <2> SUFFICES ASSUME NEW h \in ToSet(image.phdrs), NEW a \in Bytes(h)
               PROVE  mem'[a] = IF a \in image.edata..image.end-1 THEN Zero ELSE a - Shift(h)
    BY <1>1 DEF ImageLoaded, Bytes, Shift
  <2>1. PICK k \in DOMAIN image.phdrs : h = image.phdrs[k]
    BY DEF ToSet
  <2>2. a \in DOMAIN mem
    BY <1>2, <2>1, ImageIs
  <2>3. mem[a] = a - Shift(h)
    BY <1>1, <2>1 DEF LoadInv, Whole
  <2> QED
    BY <1>1, <2>2, <2>3
<1> QED
  BY <1>1, <1>2, <1>3 DEF LoadInv, InKernel

LEMMA LoadInvNext == LoadInv /\ Loading => LoadInv'
<1> SUFFICES ASSUME LoadInv, Loading PROVE LoadInv'
  OBVIOUS
<1>1. CASE ReadSector
  BY <1>1, LoadInvRead
<1>2. CASE NotElf
  BY <1>2 DEF NotElf, LoadInv, loadVars, SegmentRead, InKernel, Whole
<1>3. CASE NextSegment
  BY <1>3, LoadInvSegment
<1>4. CASE EnterKernel
  <2>1. /\ SegmentRead /\ seg = Len(image.phdrs) /\ stage' = "entered"
        /\ image' = image /\ mem' = mem /\ seg' = seg
    BY <1>4 DEF EnterKernel, loadVars
  <2>2. DOMAIN image.phdrs = 1..seg
    BY <2>1, ImageIs
  <2>3. \A k \in DOMAIN image.phdrs : \A a \in Bytes(image.phdrs[k]) : Whole(image.phdrs[k], a)
    BY <2>1, <2>2, AllRead
  <2>4. \A k \in DOMAIN image'.phdrs : \A a \in Bytes(image.phdrs[k])' : Whole(image.phdrs[k], a)'
    BY <2>1, <2>3 DEF Bytes, Whole, Shift
  <2> QED
    BY <2>1, <2>4 DEF LoadInv, InKernel
<1>5. CASE ClearBss
  BY <1>5, LoadInvClear
<1> QED
  BY <1>1, <1>2, <1>3, <1>4, <1>5 DEF Loading, LoadNext

\* After that nothing changes the image.
LEMMA LoadInvKept ==
  ASSUME LoadInv, UNCHANGED loadVars, UNCHANGED stage \/ (InKernel(stage) /\ InKernel(stage'))
  PROVE  LoadInv'
<1>1. ImageLoaded' <=> ImageLoaded
  BY DEF ImageLoaded, loadVars, Bytes, Shift
<1>2. \A h : Reading(h) => Reading(h)'
  BY DEF Reading, loadVars, Shift
<1>3. \A h, a : Whole(h, a) <=> Whole(h, a)'
  BY DEF Whole, loadVars, Shift
<1>4. \A h : Bytes(h)' = Bytes(h)
  BY DEF Bytes
<1>5. CASE UNCHANGED stage
  BY <1>1, <1>2, <1>3, <1>4, <1>5 DEF LoadInv, loadVars, InKernel
<1>6. CASE InKernel(stage) /\ InKernel(stage')
  BY <1>1, <1>6 DEF LoadInv, loadVars, InKernel
<1> QED
  BY <1>5, <1>6

-----------------------------------------------------------------------------
(***************************************************************************)
(* vmem::init.  All pages that it fills or lists lie from page k on, the    *)
(* first one behind the image.  The shape of m, whose counts are of the     *)
(* pages D and whose maps are M.                                            *)
(***************************************************************************)
High(k) == {p \in Int : p >= k}

Machines(D, M, k) ==
    [free : Seq(High(k)), refs : [D -> Int], pde : [0..NPD-1 -> Int], maps : {M},
     cr3 : {"entry", "kernel"}, written : SUBSET High(k), stop : {"no", "panic", "fault"}]

LEMMA Fields ==
  ASSUME NEW D, NEW M, NEW k, NEW x \in Machines(D, M, k)
  PROVE  /\ x.free \in Seq(High(k)) /\ x.refs \in [D -> Int] /\ x.pde \in [0..NPD-1 -> Int]
         /\ x.maps = M /\ x.cr3 \in {"entry", "kernel"} /\ x.written \subseteq High(k)
         /\ x.stop \in {"no", "panic", "fault"}
BY DEF Machines

LEMMA Counted ==
  ASSUME NEW D, NEW f \in [D -> Int], NEW p, NEW n \in Int
  PROVE  [f EXCEPT ![p] = @ + n] \in [D -> Int] /\ [f EXCEPT ![p] = @ - n] \in [D -> Int]
<1>1. CASE p \in D
  <2>1. f[p] + n \in Int /\ f[p] - n \in Int
    BY <1>1
  <2> QED
    BY <2>1
<1>2. CASE p \notin D
  BY <1>2
<1> QED
  BY <1>1, <1>2

LEMMA EnsureKeeps ==
  ASSUME NEW D, NEW M, NEW k, NEW x \in Machines(D, M, k), NEW cond
  PROVE  Ensure(x, cond) \in Machines(D, M, k)
BY DEF Machines, Ensure

LEMMA TouchKeeps ==
  ASSUME NEW D, NEW M, NEW k, NEW x \in Machines(D, M, k), NEW pages, pages \subseteq High(k)
  PROVE  Touch(x, pages) \in Machines(D, M, k)
<1>1. Touch(x, pages) \in {x, [x EXCEPT !.written = @ \cup pages], [x EXCEPT !.stop = "fault"]}
  BY DEF Touch
<1>2. [x EXCEPT !.written = @ \cup pages] \in Machines(D, M, k)
  BY DEF Machines
<1>3. [x EXCEPT !.stop = "fault"] \in Machines(D, M, k)
  BY DEF Machines
<1> QED
  BY <1>1, <1>2, <1>3

LEMMA TakeKeeps ==
  ASSUME NEW D, NEW M, NEW k, NEW x \in Machines(D, M, k), x.free # <<>>
  PROVE  Head(x.free) \in High(k) /\ TakePage(x) \in Machines(D, M, k)
<1> DEFINE S == High(k)
           f == x.free
<1>1. f \in Seq(S) /\ f # <<>>
  BY Fields
<1> HIDE DEF S, f
<1>2. Head(f) \in S /\ Tail(f) \in Seq(S)
  BY <1>1, HeadTailProperties
<1>3. [x EXCEPT !.free = Tail(@)] \in Machines(D, M, k)
  BY <1>2 DEF Machines, S, f
<1>4. Ensure([x EXCEPT !.free = Tail(@)], Head(x.free) < NPages) \in Machines(D, M, k)
  BY <1>3, EnsureKeeps
<1>5. {Head(x.free)} \subseteq High(k)
  BY <1>2 DEF S, f
<1>6. TakePage(x) \in Machines(D, M, k)
  BY <1>4, <1>5, TouchKeeps DEF TakePage
<1> QED
  BY <1>2, <1>6 DEF S, f

LEMMA TableKeeps ==
  ASSUME NEW D, NEW M, NEW k, NEW x \in Machines(D, M, k), NEW d
  PROVE  WithTable(x, d) \in Machines(D, M, k)
<1>1. CASE x.stop # "no" \/ x.pde[d] # NoFrame
  BY <1>1 DEF WithTable
<1>2. CASE x.free = <<>>
  BY <1>2 DEF WithTable, Machines
<1>3. CASE ~(x.stop # "no" \/ x.pde[d] # NoFrame) /\ x.free # <<>>
  <2> DEFINE p == Head(x.free)
             t == TakePage(x)
  <2>1. p \in Int /\ t \in Machines(D, M, k)
    BY <1>3, TakeKeeps DEF High
  <2>2. WithTable(x, d) \in {t, [t EXCEPT !.refs[p] = @ + 1, !.pde[d] = p]}
    BY <1>3 DEF WithTable
  <2> HIDE DEF p, t
  <2>3. [t EXCEPT !.refs[p] = @ + 1, !.pde[d] = p] \in Machines(D, M, k)
    <3> DEFINE r == [t.refs EXCEPT ![p] = @ + 1]
               e == [t.pde EXCEPT ![d] = p]
    <3>1. r \in [D -> Int]
      <4>1. t.refs \in [D -> Int] /\ 1 \in Int
        BY <2>1, Fields
      <4> QED
        BY <4>1, Counted
    <3>2. e \in [0..NPD-1 -> Int]
      BY <2>1, Fields
    <3>3. [t EXCEPT !.refs[p] = @ + 1, !.pde[d] = p] = [t EXCEPT !.refs = r, !.pde = e]
      BY <2>1 DEF Machines
    <3> HIDE DEF r, e
    <3>4. [t EXCEPT !.refs = r, !.pde = e] \in Machines(D, M, k)
      BY <2>1, <3>1, <3>2 DEF Machines
    <3> QED
      BY <3>3, <3>4
  <2> QED
    BY <2>1, <2>2, <2>3
<1> QED
  BY <1>1, <1>2, <1>3

\* The loop of staticMap over the tables that it needs.
WithTables(x, first, last) ==
    LET with[d \in first .. last] == WithTable(IF d = first THEN x ELSE with[d - 1], d)
    IN with

LEMMA TablesIn ==
  ASSUME NEW S, NEW x, NEW first \in Int, NEW last \in Int, first <= last,
         WithTable(x, first) \in S,
         \A y \in S : \A d \in first+1..last : WithTable(y, d) \in S
  PROVE  WithTables(x, first, last)[last] \in S
<1> DEFINE n == last - first
           start == WithTable(x, first)
           step == [j \in Nat |-> [y \in S |-> IF j < n THEN WithTable(y, first + j + 1) ELSE y]]
           with == WithTables(x, first, last)
<1>1. n \in Nat
  OBVIOUS
<1>2. \A y \in S : \A j \in Nat : j < n => WithTable(y, first + j + 1) \in S
  <2> TAKE y \in S
  <2> SUFFICES ASSUME NEW j \in Nat, j < n PROVE WithTable(y, first + j + 1) \in S
    OBVIOUS
  <2>1. first + j + 1 \in first+1..last
    OBVIOUS
  <2> QED
    BY <2>1
<1>3. start \in S
  OBVIOUS
<1> HIDE DEF n, start
<1>4. /\ step \in [Nat -> [S -> S]]
      /\ \A j \in Nat : \A y \in S : j < n => step[j][y] = WithTable(y, first + j + 1)
  BY <1>2
<1> HIDE DEF step
<1>5. Runs(n, S, start, step)
  BY <1>1, <1>3, <1>4, Recursion
<1>6. PICK f \in [0..n -> S] : f[0] = start /\ \A j \in 1..n : f[j] = step[j-1][f[j-1]]
  BY <1>5 DEF Runs
<1> DEFINE g == [d \in first..last |-> f[d - first]]
<1>7. g = [d \in first..last |-> WithTable(IF d = first THEN x ELSE g[d - 1], d)]
  <2> SUFFICES ASSUME NEW d \in first..last
               PROVE  f[d - first] = WithTable(IF d = first THEN x ELSE g[d - 1], d)
    OBVIOUS
  <2>1. CASE d = first
    <3>1. d - first = 0
      BY <2>1
    <3> QED
      BY <1>6, <2>1, <3>1 DEF start
  <2>2. CASE d # first
    <3>1. /\ d - first \in 1..n /\ (d - first) - 1 \in 0..n /\ (d - first) - 1 \in Nat
          /\ d - 1 \in first..last /\ (d - 1) - first = (d - first) - 1
          /\ first + ((d - first) - 1) + 1 = d /\ (d - first) - 1 < n
      BY <2>2 DEF n
    <3>2. f[(d - first) - 1] \in S
      BY <1>6, <3>1
    <3>3. f[d - first] = WithTable(f[(d - first) - 1], first + ((d - first) - 1) + 1)
      BY <1>4, <1>6, <3>1, <3>2
    <3>4. g[d - 1] = f[(d - first) - 1]
      BY <3>1
    <3> QED
      BY <2>2, <3>1, <3>3, <3>4
  <2> QED
    BY <2>1, <2>2
<1>8. with = [d \in first..last |-> WithTable(IF d = first THEN x ELSE with[d - 1], d)]
  BY <1>7, Zenon DEF WithTables
<1> HIDE DEF with, g
<1> DEFINE T == {j \in Nat : j <= n => with[first + j] \in S}
<1>9. 0 \in T
  <2>1. first \in first..last /\ first + 0 = first
    OBVIOUS
  <2>2. with[first] = WithTable(x, first)
    BY <1>8, <2>1
  <2> QED
    BY <1>3, <2>1, <2>2 DEF start
<1>10. \A j \in Nat : j \in T => j + 1 \in T
  <2> SUFFICES ASSUME NEW j \in Nat, j \in T, j + 1 <= n PROVE with[first + (j + 1)] \in S
    OBVIOUS
  <2>1. /\ first + (j + 1) \in first..last /\ first + (j + 1) # first
        /\ (first + (j + 1)) - 1 = first + j /\ j <= n
        /\ first + (j + 1) \in first+1..last
    BY DEF n
  <2>2. with[first + (j + 1)] = WithTable(with[first + j], first + (j + 1))
    BY <1>8, <2>1
  <2>3. with[first + j] \in S
    BY <2>1
  <2> QED
    BY <2>1, <2>2, <2>3
<1> HIDE DEF T
<1>11. \A j \in Nat : j \in T
  BY <1>9, <1>10, SetInduction
<1>12. n \in T /\ first + n = last
  BY <1>1, <1>11 DEF n
<1> QED
  BY <1>1, <1>12 DEF T, with

LEMMA TablesKeep ==
  ASSUME NEW D, NEW M, NEW k, NEW x \in Machines(D, M, k),
         NEW first \in Int, NEW last \in Int, first <= last
  PROVE  WithTables(x, first, last)[last] \in Machines(D, M, k)
<1> DEFINE S == Machines(D, M, k)
<1>1. \A y \in S : \A d : WithTable(y, d) \in S
  BY TableKeeps
<1> HIDE DEF S
<1> QED
  BY <1>1, TablesIn DEF S

LEMMA PagesAre ==
  ASSUME NEW a \in Nat
  PROVE  /\ PgSize \in Nat /\ PgSize > 0 /\ PagesIn(a) \in Nat
         /\ RoundUp(a) = PagesIn(a) * PgSize /\ RoundUp(a) \in Nat
         /\ a <= RoundUp(a) /\ (a > 0 => PagesIn(a) > 0)
<1> DEFINE b == a + PgSize - 1
           d == b \div PgSize
<1>1. PgSize \in Nat /\ PgSize > 0 /\ b \in Nat
  BY BootMemoryAssumption
<1>2. d \in Int /\ b % PgSize \in 0..PgSize-1 /\ b = d * PgSize + (b % PgSize)
  BY <1>1, Quotient
<1>3. RoundUp(a) = d * PgSize
  BY DEF RoundUp
<1> DEFINE r == b % PgSize
<1>4. r \in 0..PgSize-1 /\ b = d * PgSize + r /\ a = b - PgSize + 1
  BY <1>1, <1>2
<1> HIDE DEF b, d, r
<1>5. d * PgSize \in Int
  BY <1>1, <1>2
<1>6. d < 0 => d * PgSize + PgSize <= 0 * PgSize
  BY <1>1, <1>2, Apart
<1>7. 0 * PgSize = 0
  BY <1>1
<1>8. d \in Nat
  BY <1>1, <1>2, <1>4, <1>5, <1>6, <1>7
<1>9. a <= d * PgSize
  BY <1>1, <1>4, <1>5
<1>10. PagesIn(a) = d
  <2>1. (d * PgSize) \div PgSize = d
    BY <1>1, <1>2, <1>5, QuotientIs
  <2> QED
    BY <1>3, <2>1 DEF PagesIn
<1>11. a > 0 => d > 0
  <2> SUFFICES ASSUME d = 0 PROVE a <= 0
    BY <1>8
  <2> QED
    BY <1>7, <1>9
<1>12. d * PgSize \in Nat
  BY <1>5, <1>9
<1> QED
  BY <1>1, <1>3, <1>8, <1>9, <1>10, <1>11, <1>12

\* The maps N are those of M below the windows of memlayout.h.
SameBelow(M, N) ==
    \A w \in DOMAIN N : w < UEnvsPdx * NPT => w \in DOMAIN M /\ N[w] = M[w]

LEMMA MapKeeps ==
  ASSUME NEW D, NEW M, NEW k, NEW x \in Machines(D, M, k),
         NEW v \in Nat, NEW size \in Nat, size > 0, UEnvsPdx * NPT <= v, NEW frame, NEW perm
  PROVE  LET y == StaticMap(x, v, size, frame, perm)
         IN y \in Machines(D, y.maps, k) /\ SameBelow(M, y.maps)
<1> DEFINE n == PagesIn(size)
           first == v \div NPT
           last == (v + n - 1) \div NPT
           t == WithTables(x, first, last)[last]
           f == [w \in v..v+n-1 |-> [frame |-> frame + (w - v), perm |-> perm]]
           y == StaticMap(x, v, size, frame, perm)
<1>1. n \in Nat /\ n > 0 /\ NPT \in Nat /\ NPT > 0 /\ UEnvsPdx \in Int
  BY PagesAre, BootMemoryAssumption DEF UEnvsPdx
<1>2. first \in Int /\ last \in Int /\ first <= last
  <2>1. v + n - 1 \in Int /\ v <= v + n - 1
    BY <1>1
  <2> HIDE DEF n
  <2> QED
    BY <1>1, <2>1, Quotient, QuotientGrows
<1>3. y = IF t.stop # "no" THEN t ELSE [t EXCEPT !.maps = Entered(f, @)]
  BY DEF StaticMap, WithTables
<1> HIDE DEF first, last
<1>4. t \in Machines(D, M, k)
  BY <1>2, TablesKeep
<1>5. DOMAIN f = v..v+n-1
  OBVIOUS
<1> HIDE DEF t, f, n, y
<1>6. t.maps = M
  BY <1>4, Fields
<1>7. CASE t.stop # "no"
  BY <1>3, <1>4, <1>6, <1>7 DEF SameBelow, y
<1>8. CASE ~(t.stop # "no")
  <2> DEFINE N == Entered(f, M)
  <2>1. y = [t EXCEPT !.maps = N]
    BY <1>3, <1>6, <1>8
  <2>2. SameBelow(M, N)
    <3> SUFFICES ASSUME NEW w \in DOMAIN N, w < UEnvsPdx * NPT
                 PROVE  w \in DOMAIN M /\ N[w] = M[w]
      BY DEF SameBelow
    <3>1. w \notin DOMAIN f
      <4> SUFFICES ASSUME w \in v..v+n-1 PROVE FALSE
        BY <1>5
      <4>1. UEnvsPdx * NPT \in Int /\ w \in Int /\ v <= w
        BY <1>1
      <4> QED
        BY <4>1
    <3> QED
      BY <3>1 DEF Entered
  <2> HIDE DEF N
  <2>3. y \in Machines(D, N, k) /\ y.maps = N
    BY <1>4, <2>1 DEF Machines
  <2> QED
    BY <2>2, <2>3 DEF y
<1> QED
  BY <1>7, <1>8

LEMMA RemovedKeeps ==
  ASSUME NEW D, NEW M, NEW k, NEW x \in Machines(D, M, k), NEW v, M[v].frame \in High(k)
  PROVE  LET y == Removed(x, v)
         IN y \in Machines(D, y.maps, k) /\ SameBelow(M, y.maps)
<1> DEFINE p == M[v].frame
           N == [w \in DOMAIN M \ {v} |-> M[w]]
           r == [x.refs EXCEPT ![p] = @ - 1]
           z == [x EXCEPT !.refs = r, !.maps = N]
           y == Removed(x, v)
<1>1. x.maps = M /\ x.refs \in [D -> Int] /\ x.free \in Seq(High(k))
  BY Fields
<1>2. r \in [D -> Int]
  <2>1. x.refs \in [D -> Int] /\ 1 \in Int
    BY <1>1
  <2> QED
    BY <2>1, Counted
<1>3. y = IF z.refs[p] = 0 THEN [z EXCEPT !.free = <<p>> \o @] ELSE z
  BY <1>1 DEF Removed, Machines
<1>4. SameBelow(M, N)
  BY DEF SameBelow
<1> HIDE DEF r, N
<1>5. z \in Machines(D, N, k)
  BY <1>2 DEF Machines
<1> HIDE DEF z, p
<1>6. <<p>> \o z.free \in Seq(High(k))
  <2>1. z.free \in Seq(High(k))
    BY <1>5, Fields
  <2>2. <<p>> \in Seq(High(k))
    BY DEF p
  <2> QED
    BY <2>1, <2>2, ConcatProperties
<1>7. [z EXCEPT !.free = <<p>> \o @] \in Machines(D, N, k)
  BY <1>5, <1>6 DEF Machines
<1>8. y \in Machines(D, N, k)
  BY <1>3, <1>5, <1>7
<1>9. y.maps = N
  BY <1>8, Fields
<1> QED
  BY <1>4, <1>8, <1>9

(***************************************************************************)
(* What holds of m throughout: nothing of the image is on the free list, or *)
(* was filled, and no page of it is mapped at the self test's address, so   *)
(* that remove cannot free one.                                             *)
(***************************************************************************)
LowAbove(M, k) == \A w \in DOMAIN M : w < UEnvsPdx * NPT => M[w].frame \in High(k)

OffImage(x, D, k) == x \in Machines(D, x.maps, k) /\ LowAbove(x.maps, k)

LEMMA Layout ==
  /\ NPT \in Nat /\ NPT > 0 /\ PgSize \in Nat /\ PgSize > 1 /\ UEnvsPdx \in Nat /\ NPD \in Nat
  /\ UEnvsPdx * NPT \in Nat /\ UPagesPdx * NPT \in Nat /\ MmioPdx * NPT \in Nat /\ KernPdx * NPT \in Nat
  /\ UEnvsPdx * NPT <= UPagesPdx * NPT /\ UEnvsPdx * NPT <= MmioPdx * NPT
  /\ UEnvsPdx * NPT <= KernPdx * NPT - KStkPages /\ KernPdx * NPT - KStkPages \in Nat
  /\ UEnvsPdx * NPT <= KernPdx * NPT
  /\ TestVa \in Nat /\ TestVa < UEnvsPdx * NPT
<1>1. /\ NPT \in Nat /\ NPT > 0 /\ PgSize \in Nat /\ PgSize > 1 /\ NPD \in Nat /\ KernPdx \in Nat
      /\ TestPdx \in Nat /\ KStkPages \in Nat /\ KStkPages <= NPT
      /\ UEnvsPdx = KernPdx - 5 /\ UPagesPdx = KernPdx - 4 /\ MmioPdx = KernPdx - 2
      /\ TestPdx < UEnvsPdx
  <2>1. /\ NPT \in Nat /\ NPT > 0 /\ KStkPages \in Nat /\ KStkPages <= NPT
        /\ PgSize \in Nat /\ PgSize > 1 /\ NPD \in Nat
    <3>1. NPT \in Nat \ {0} /\ KStkPages \in Nat \ {0} /\ KStkPages <= NPT
      BY BootMemoryAssumption
    <3>2. PgSize \in Nat \ {0, 1} /\ NPD \in Nat
      BY BootMemoryAssumption
    <3>3. PgSize > 1
      BY <3>2
    <3> QED
      BY <3>1, <3>2, <3>3
  <2>2. KernPdx \in 0..NPD-1 /\ TestPdx \in 0..UEnvsPdx-1
    BY BootMemoryAssumption
  <2>3. UEnvsPdx = KernPdx - 5 /\ UPagesPdx = KernPdx - 4 /\ MmioPdx = KernPdx - 2
    BY DEF UEnvsPdx, UPagesPdx, MmioPdx
  <2>4. KernPdx \in Nat
    BY <2>1, <2>2
  <2>5. TestPdx \in Nat /\ TestPdx < UEnvsPdx
    BY <2>2, <2>3, <2>4
  <2> QED
    BY <2>1, <2>3, <2>4, <2>5
<1> DEFINE at(d) == d * NPT
<1>2. \A d \in Nat : at(d) \in Nat
  BY <1>1
<1>3. \A d, e \in Nat : d < e => at(d) + NPT <= at(e)
  BY <1>1, Apart
<1> HIDE DEF at
<1>4. UEnvsPdx \in Nat /\ UPagesPdx \in Nat /\ MmioPdx \in Nat
  BY <1>1
<1>5. /\ at(TestPdx) \in Nat /\ at(UEnvsPdx) \in Nat /\ at(UPagesPdx) \in Nat
      /\ at(MmioPdx) \in Nat /\ at(KernPdx) \in Nat
  BY <1>1, <1>2, <1>4
<1>6. /\ at(TestPdx) + NPT <= at(UEnvsPdx) /\ at(UEnvsPdx) + NPT <= at(UPagesPdx)
      /\ at(UEnvsPdx) + NPT <= at(MmioPdx) /\ at(UEnvsPdx) + NPT <= at(KernPdx)
  BY <1>1, <1>3, <1>4
<1>7. /\ at(UEnvsPdx) \in Nat /\ at(UPagesPdx) \in Nat /\ at(MmioPdx) \in Nat /\ at(KernPdx) \in Nat
      /\ at(UEnvsPdx) <= at(UPagesPdx) /\ at(UEnvsPdx) <= at(MmioPdx)
      /\ at(UEnvsPdx) <= at(KernPdx) - KStkPages /\ at(KernPdx) - KStkPages \in Nat
      /\ at(UEnvsPdx) <= at(KernPdx)
      /\ at(TestPdx) \in Nat /\ at(TestPdx) < at(UEnvsPdx)
  BY <1>1, <1>5, <1>6
<1> QED
  BY <1>1, <1>4, <1>7 DEF at, TestVa

LEMMA SameIsAbove ==
  ASSUME NEW M, NEW N, NEW k, SameBelow(M, N), LowAbove(M, k)
  PROVE  LowAbove(N, k)
BY DEF SameBelow, LowAbove

LEMMA OffImageEnsure ==
  ASSUME NEW D, NEW k, NEW x, OffImage(x, D, k), NEW cond
  PROVE  LET y == Ensure(x, cond)
         IN OffImage(y, D, k) /\ y.maps = x.maps /\ y.cr3 = x.cr3 /\ (y.stop = "no" => x.stop = "no")
<1> DEFINE y == Ensure(x, cond)
<1>1. y \in Machines(D, x.maps, k)
  BY EnsureKeeps DEF OffImage
<1>2. y.maps = x.maps
  BY <1>1, Fields
<1>3. y.cr3 = x.cr3 /\ (y.stop = "no" => x.stop = "no")
  BY DEF Ensure, OffImage, Machines
<1> QED
  BY <1>1, <1>2, <1>3 DEF OffImage

LEMMA OffImageFill ==
  ASSUME NEW D, NEW k \in Int, NEW x, OffImage(x, D, k), NEW a \in Nat, k <= a \div PgSize,
         NEW size \in Nat
  PROVE  OffImage(Fill(x, a, size), D, k)
<1> DEFINE pages == a \div PgSize .. a \div PgSize + PagesIn(size) - 1
           y == Touch(x, pages)
<1>1. a \div PgSize \in Int /\ PagesIn(size) \in Nat
  BY Layout, Quotient, PagesAre
<1>2. pages \subseteq High(k)
  BY <1>1 DEF High
<1> HIDE DEF pages
<1>3. y \in Machines(D, x.maps, k)
  BY <1>2, TouchKeeps DEF OffImage
<1>4. y.maps = x.maps
  BY <1>3, Fields
<1> QED
  BY <1>3, <1>4 DEF OffImage, Fill, pages

LEMMA OffImageMap ==
  ASSUME NEW D, NEW k, NEW x, OffImage(x, D, k),
         NEW v \in Nat, NEW size \in Nat, size > 0, UEnvsPdx * NPT <= v, NEW frame, NEW perm
  PROVE  OffImage(StaticMap(x, v, size, frame, perm), D, k)
<1> DEFINE y == StaticMap(x, v, size, frame, perm)
           M == x.maps
<1>1. x \in Machines(D, M, k)
  BY DEF OffImage
<1>2. LowAbove(M, k)
  BY DEF OffImage
<1> HIDE DEF M
<1>3. y \in Machines(D, y.maps, k) /\ SameBelow(M, y.maps)
  BY <1>1, MapKeeps
<1> QED
  BY <1>2, <1>3, SameIsAbove DEF OffImage

LEMMA OffImageTake ==
  ASSUME NEW D, NEW k, NEW x, OffImage(x, D, k), x.free # <<>>
  PROVE  /\ Head(x.free) \in High(k)
         /\ OffImage(TakePage(x), D, k) /\ TakePage(x).maps = x.maps
<1>1. Head(x.free) \in High(k) /\ TakePage(x) \in Machines(D, x.maps, k)
  BY TakeKeeps DEF OffImage
<1>2. TakePage(x).maps = x.maps
  BY <1>1, Fields
<1> QED
  BY <1>1, <1>2 DEF OffImage

LEMMA OffImageRemove ==
  ASSUME NEW D, NEW k, NEW x, OffImage(x, D, k), NEW v, v < UEnvsPdx * NPT, v \in DOMAIN x.maps
  PROVE  OffImage(Removed(x, v), D, k)
<1> DEFINE M == x.maps
           y == Removed(x, v)
<1>1. x \in Machines(D, M, k) /\ LowAbove(M, k) /\ M[v].frame \in High(k)
  BY DEF OffImage, LowAbove
<1> HIDE DEF M
<1>2. y \in Machines(D, y.maps, k) /\ SameBelow(M, y.maps)
  BY <1>1, RemovedKeeps
<1> QED
  BY <1>1, <1>2, SameIsAbove DEF OffImage

LEMMA OffImageInsert ==
  ASSUME NEW D, NEW k, NEW x, OffImage(x, D, k), NEW p \in High(k), NEW v, v < UEnvsPdx * NPT
  PROVE  LET y == Inserted(x, p, v)
         IN OffImage(y, D, k) /\ (y.stop = "no" => v \in DOMAIN y.maps)
<1> DEFINE t == WithTable(x, v \div NPT)
           c == [t EXCEPT !.refs[p] = @ + 1]
           r == IF v \in DOMAIN c.maps THEN Removed(c, v) ELSE c
           e == [w \in {v} |-> [frame |-> p, perm |-> {"W"}]]
           y == Inserted(x, p, v)
<1>1. t \in Machines(D, x.maps, k)
  BY TableKeeps DEF OffImage
<1>2. y = IF t.stop # "no" THEN t ELSE [r EXCEPT !.maps = Entered(e, @)]
  BY DEF Inserted
<1> HIDE DEF t, y
<1>3. OffImage(t, D, k)
  BY <1>1, Fields DEF OffImage
<1>4. OffImage(c, D, k)
  <2> DEFINE f == [t.refs EXCEPT ![p] = @ + 1]
  <2>1. f \in [D -> Int]
    <3>1. t.refs \in [D -> Int] /\ 1 \in Int
      BY <1>1, Fields
    <3> QED
      BY <3>1, Counted
  <2>2. c = [t EXCEPT !.refs = f]
    BY <1>1 DEF Machines
  <2> HIDE DEF f, c
  <2>3. c \in Machines(D, x.maps, k)
    BY <1>1, <2>1, <2>2 DEF Machines
  <2>4. c.maps = x.maps
    BY <2>3, Fields
  <2> QED
    BY <2>3, <2>4 DEF OffImage
<1> HIDE DEF c
<1>5. OffImage(r, D, k)
  BY <1>4, OffImageRemove
<1> HIDE DEF r
<1> DEFINE N == Entered(e, r.maps)
<1>6. v \in DOMAIN N /\ LowAbove(N, k)
  <2>1. DOMAIN N = {v} \cup DOMAIN r.maps
    BY DEF Entered
  <2>2. N[v].frame = p
    BY DEF Entered
  <2>3. \A w \in DOMAIN r.maps : w # v => N[w] = r.maps[w]
    BY DEF Entered
  <2> HIDE DEF N
  <2> QED
    BY <1>5, <2>1, <2>2, <2>3 DEF OffImage, LowAbove
<1> HIDE DEF N, e
<1>7. [r EXCEPT !.maps = N] \in Machines(D, N, k)
  BY <1>5 DEF OffImage, Machines
<1>8. CASE t.stop # "no"
  BY <1>2, <1>3, <1>8 DEF y
<1>9. CASE ~(t.stop # "no")
  <2>1. y = [r EXCEPT !.maps = N]
    BY <1>2, <1>5, <1>9 DEF N, OffImage, Machines
  <2>2. y \in Machines(D, N, k)
    BY <1>7, <2>1
  <2>3. y.maps = N
    BY <2>2, Fields
  <2> QED
    BY <1>6, <2>2, <2>3 DEF OffImage, y
<1> QED
  BY <1>8, <1>9

(***************************************************************************)
(* bootAlloc never returns a page of the image.  page::init lists all pages *)
(* from 4 MB on whatever the image is; the image ends below since else the  *)
(* directory behind it could not have been cleared (ImageEnd <= NPT).       *)
(***************************************************************************)
ImageEnd == PagesIn(image.kernEnd)

Behind(a) == a \in Nat /\ a = (a \div PgSize) * PgSize /\ ImageEnd <= a \div PgSize

SetupInv ==
    /\ ram \in Nat /\ totalMem \in Nat
    /\ OffImage(m, DOMAIN m.refs, ImageEnd)
    /\ next # 0 => Behind(next)
    /\ mmioNext \in Nat /\ UEnvsPdx * NPT <= mmioNext
    /\ stage \in {"load", "entered", "detect", "directory"} => m.cr3 = "entry"
    /\ stage = "pages" => m.stop # "no" \/ ImageEnd <= NPT
    /\ stage \in {"testAgain", "testEnd"} => m.stop # "no" \/ TestVa \in DOMAIN m.maps

BootInv == LoadInv /\ SetupInv

\* The counts of OffImage are those of all pages.
LEMMA OffImageRefs ==
  ASSUME NEW D, NEW k, NEW x, OffImage(x, D, k)
  PROVE  OffImage(x, DOMAIN x.refs, k)
<1>1. x.refs \in [D -> Int]
  BY Fields DEF OffImage
<1>2. DOMAIN x.refs = D
  BY <1>1
<1> QED
  BY <1>2

LEMMA Allocated ==
  ASSUME LoadInv, SetupInv
  PROVE  /\ ImageEnd \in Nat /\ Behind(BootNext) /\ BootNext # 0
         /\ \A size \in Nat : Behind(BootAfter(size))
<1>1. image.kernEnd \in Nat /\ image.kernEnd > 0
  BY ImageIs
<1>2. ImageEnd \in Nat /\ ImageEnd > 0
  BY <1>1, PagesAre DEF ImageEnd
<1>3. PgSize \in Nat /\ PgSize > 0
  BY Layout
<1>4. ASSUME NEW a \in Nat, ImageEnd <= PagesIn(a) PROVE Behind(RoundUp(a))
  <2>1. RoundUp(a) \in Nat /\ RoundUp(a) = PagesIn(a) * PgSize
    BY PagesAre
  <2>2. RoundUp(a) \div PgSize = PagesIn(a)
    BY DEF PagesIn
  <2> QED
    BY <1>4, <2>1, <2>2 DEF Behind
<1>5. Behind(BootNext)
  <2>1. CASE next = 0
    BY <1>1, <1>2, <1>4, <2>1 DEF BootNext, ImageEnd
  <2>2. CASE next # 0
    BY <2>2 DEF BootNext, SetupInv
  <2> QED
    BY <2>1, <2>2
<1>6. BootNext # 0
  <2> SUFFICES ASSUME BootNext = 0 PROVE FALSE
    OBVIOUS
  <2>1. 0 \div PgSize = 0
    <3>1. 0 * PgSize <= 0 /\ 0 < 0 * PgSize + PgSize /\ 0 \in Int
      BY <1>3
    <3> QED
      BY <1>3, <3>1, QuotientIs
  <2> QED
    BY <1>2, <1>5, <2>1 DEF Behind
<1>7. ASSUME NEW size \in Nat PROVE Behind(BootAfter(size))
  <2>1. CASE size = 0
    BY <1>5, <2>1 DEF BootAfter
  <2>2. CASE size # 0
    <3> DEFINE b == BootNext
               a == b + size
    <3>1. b \in Nat /\ ImageEnd <= b \div PgSize
      BY <1>5 DEF Behind
    <3> HIDE DEF b
    <3>2. a \in Nat /\ b <= a
      BY <3>1
    <3>3. BootAfter(size) = RoundUp(a)
      BY <2>2 DEF BootAfter, b
    <3> HIDE DEF a
    <3>4. RoundUp(a) \in Nat /\ a <= RoundUp(a)
      BY <3>2, PagesAre
    <3>5. b \div PgSize <= RoundUp(a) \div PgSize
      BY <1>3, <3>1, <3>2, <3>4, QuotientGrows
    <3>6. b \div PgSize \in Int /\ RoundUp(a) \div PgSize \in Int
      BY <1>3, <3>1, <3>4, Quotient
    <3>7. ImageEnd <= PagesIn(a)
      BY <1>2, <3>1, <3>5, <3>6 DEF PagesIn
    <3> QED
      BY <1>4, <3>2, <3>3, <3>7
  <2> QED
    BY <2>1, <2>2
<1> QED
  BY <1>2, <1>5, <1>6, <1>7

LEMMA SetupInvInit == BootInit => SetupInv
<1> SUFFICES ASSUME BootInit PROVE SetupInv
  OBVIOUS
<1>1. ram \in Nat /\ totalMem = 0 /\ next = 0 /\ mmioNext = MmioPdx * NPT /\ stage = "load"
  BY BootMemoryAssumption DEF BootInit, SetupInit, LoadInit
<1>2. m = [free |-> <<>>, refs |-> <<>>, pde |-> [d \in 0..NPD-1 |-> NoFrame], maps |-> <<>>,
           cr3 |-> "entry", written |-> {}, stop |-> "no"]
  BY DEF BootInit, SetupInit
<1>3. <<>> \in Seq(High(ImageEnd)) /\ DOMAIN <<>> = {}
  OBVIOUS
<1>4. <<>> \in [DOMAIN <<>> -> Int]
  OBVIOUS
<1>5. m \in Machines(DOMAIN m.refs, m.maps, ImageEnd)
  BY <1>2, <1>3, <1>4 DEF Machines, NoFrame
<1>6. LowAbove(m.maps, ImageEnd)
  BY <1>2, <1>3 DEF LowAbove
<1> QED
  BY <1>1, <1>2, <1>5, <1>6, Layout DEF SetupInv, OffImage

\* What is left to show of a step that leaves the image alone.
LEMMA SetupKept ==
  ASSUME LoadInv, SetupInv, image' = image, ram' = ram, totalMem' \in Nat,
         NEW D, OffImage(m', D, ImageEnd),
         next' \in {next, BootNext} \/ \E size \in Nat : next' = BootAfter(size),
         mmioNext' \in Nat, UEnvsPdx * NPT <= mmioNext',
         stage' \in {"load", "entered", "detect", "directory"} => m'.cr3 = "entry",
         stage' = "pages" => m'.stop # "no" \/ ImageEnd <= NPT,
         stage' \in {"testAgain", "testEnd"} => m'.stop # "no" \/ TestVa \in DOMAIN m'.maps
  PROVE  SetupInv'
<1>1. ImageEnd' = ImageEnd
  BY DEF ImageEnd
<1>2. OffImage(m', DOMAIN m'.refs, ImageEnd)
  BY OffImageRefs
<1>3. next' # 0 => Behind(next')
  BY Allocated DEF SetupInv
<1>4. (next # 0 => Behind(next))'
  BY <1>1, <1>3 DEF Behind
<1> QED
  BY <1>1, <1>2, <1>4 DEF SetupInv

LEMMA Downwards ==
  ASSUME NEW from \in Int, NEW to \in Int, NEW k \in Int, k <= to
  PROVE  Down(from, to) \in Seq(High(k))
<1> DEFINE n == from - to + 1
           d == [j \in 1..n |-> from - j + 1]
<1>1. n \in Int /\ Down(from, to) = d
  BY DEF Down
<1>2. \A j \in 1..n : from - j + 1 \in High(k)
  BY DEF High
<1> HIDE DEF n
<1>3. CASE n >= 0
  <2>1. n \in Nat
    BY <1>1, <1>3
  <2> QED
    BY <1>1, <1>2, <2>1
<1>4. CASE n < 0
  <2>1. 1..n = 1..0
    BY <1>1, <1>4
  <2>2. d = [j \in 1..0 |-> from - j + 1]
    BY <2>1
  <2>3. Len(<<>>) = 0 /\ <<>> \in Seq(High(k))
    OBVIOUS
  <2>4. d = <<>>
    BY <2>2
  <2> QED
    BY <1>1, <2>3, <2>4
<1> QED
  BY <1>1, <1>3, <1>4

LEMMA DetectKeeps ==
  ASSUME LoadInv, SetupInv, Detect, image' = image
  PROVE  SetupInv'
<1>1. /\ stage = "detect" /\ stage' = "directory" /\ ram' = ram /\ next' = next /\ m' = m
      /\ mmioNext' = mmioNext
      /\ totalMem' = IF Ext16Mem # 0 THEN MB16 + Ext16Mem
                     ELSE IF ExtMem # 0 THEN MB1 + ExtMem ELSE BaseMem
  BY DEF Detect
<1>2. ram \in Nat /\ MB1 \in Nat /\ MB16 \in Nat /\ BaseKB \in Nat /\ ExtMaxKB \in Nat
      /\ ExtUnit \in Nat /\ ExtUnit > 0
  <2>1. {MB1, MB16, BaseKB, ExtMaxKB} \subseteq Nat
    BY BootMemoryAssumption
  <2>2. ExtUnit \in Nat \ {0}
    BY BootMemoryAssumption
  <2>3. ExtUnit > 0
    BY <2>2
  <2>4. ram \in Nat
    BY DEF SetupInv
  <2>5. MB1 \in Nat /\ MB16 \in Nat /\ BaseKB \in Nat /\ ExtMaxKB \in Nat
    BY <2>1
  <2> QED
    BY <2>2, <2>3, <2>4, <2>5
<1>3. \A a, b \in Nat : Min({a, b}) \in Nat
  <2> TAKE a, b \in Nat
  <2>1. \E x \in {a, b} : \A y \in {a, b} : x <= y
    <3>1. CASE a <= b
      BY <3>1
    <3>2. CASE ~(a <= b)
      BY <3>2
    <3> QED
      BY <3>1, <3>2
  <2>2. Min({a, b}) \in {a, b}
    BY <2>1, Zenon DEF Min
  <2> QED
    BY <2>2
<1>4. BaseMem \in Nat
  BY <1>2, <1>3 DEF BaseMem
<1>5. ExtMem \in Nat
  <2>1. CASE ram > MB1
    <3>1. ram - MB1 \in Nat
      BY <1>2, <2>1
    <3> QED
      BY <1>2, <1>3, <2>1, <3>1 DEF ExtMem
  <2>2. CASE ~(ram > MB1)
    BY <2>2 DEF ExtMem
  <2> QED
    BY <2>1, <2>2
<1>6. Ext16Mem \in Nat
  <2>1. CASE ram > MB16
    <3> DEFINE a == ram - MB16
               q == a \div ExtUnit
    <3>1. a \in Nat
      BY <1>2, <2>1
    <3>2. q \in Nat
      BY <1>2, <3>1
    <3> HIDE DEF a, q
    <3>3. q * ExtUnit \in Nat
      BY <1>2, <3>2, Product
    <3> QED
      BY <2>1, <3>3 DEF Ext16Mem, a, q
  <2>2. CASE ~(ram > MB16)
    BY <2>2 DEF Ext16Mem
  <2> QED
    BY <2>1, <2>2
<1>7. totalMem' \in Nat
  <2>1. MB16 + Ext16Mem \in Nat /\ MB1 + ExtMem \in Nat
    BY <1>2, <1>5, <1>6
  <2> QED
    BY <1>1, <1>4, <2>1
<1>8. /\ OffImage(m', DOMAIN m.refs, ImageEnd) /\ m'.cr3 = "entry"
      /\ mmioNext' \in Nat /\ UEnvsPdx * NPT <= mmioNext'
  BY <1>1 DEF SetupInv
<1> QED
  BY <1>1, <1>7, <1>8, SetupKept

\* pgdir::alloc clears the first page behind the image, which must lie below 4 MB.
LEMMA AllocDirKeeps ==
  ASSUME LoadInv, SetupInv, AllocDir, m.stop = "no", image' = image
  PROVE  SetupInv'
<1> DEFINE D == DOMAIN m.refs
           x == Fill(m, BootNext, PgSize)
           b == BootNext \div PgSize
<1>1. /\ stage = "directory" /\ stage' = "pages" /\ next' = BootAfter(PgSize)
      /\ m' = [x EXCEPT !.pde[UvptPdx] = b]
      /\ ram' = ram /\ totalMem' = totalMem /\ mmioNext' = mmioNext
  BY DEF AllocDir
<1>2. /\ BootNext \in Nat /\ ImageEnd \in Nat /\ ImageEnd <= b /\ b \in Int
      /\ PgSize \in Nat /\ PgSize > 0 /\ NPT \in Nat
  BY Allocated, Layout, Quotient DEF Behind
<1> HIDE DEF b
<1>3. OffImage(m, D, ImageEnd) /\ m.cr3 = "entry"
  BY <1>1 DEF SetupInv
<1>4. OffImage(x, D, ImageEnd)
  BY <1>2, <1>3, OffImageFill DEF b
<1>5. x.stop # "no" \/ ImageEnd <= NPT
  <2> DEFINE pages == b .. b + PagesIn(PgSize) - 1
  <2>1. PagesIn(PgSize) \in Nat /\ PagesIn(PgSize) > 0
    BY <1>2, PagesAre
  <2>2. b \in pages
    BY <1>2, <2>1
  <2>3. x = Touch(m, pages)
    BY DEF Fill, b
  <2> HIDE DEF x, pages
  <2>4. CASE \A p \in pages : p < NPT
    BY <1>2, <2>2, <2>4
  <2>5. CASE ~(\A p \in pages : p < NPT)
    <3>1. x = [m EXCEPT !.stop = "fault"]
      BY <1>3, <2>3, <2>5 DEF Touch
    <3> QED
      BY <1>3, <3>1 DEF OffImage, Machines
  <2> QED
    BY <2>4, <2>5
<1> HIDE DEF x
<1>6. OffImage(m', D, ImageEnd) /\ m'.stop = x.stop
  <2> DEFINE e == [x.pde EXCEPT ![UvptPdx] = b]
  <2>1. e \in [0..NPD-1 -> Int]
    BY <1>2, <1>4, Fields DEF OffImage
  <2>2. m' = [x EXCEPT !.pde = e]
    BY <1>1
  <2> HIDE DEF e
  <2>3. m' \in Machines(D, x.maps, ImageEnd)
    BY <1>4, <2>1, <2>2 DEF OffImage, Machines
  <2>4. m'.maps = x.maps
    BY <2>3, Fields
  <2>5. m'.stop = x.stop
    BY <1>4, <2>2 DEF OffImage, Machines
  <2> QED
    BY <1>4, <2>3, <2>4, <2>5 DEF OffImage
<1>7. totalMem' \in Nat /\ mmioNext' \in Nat /\ UEnvsPdx * NPT <= mmioNext'
  BY <1>1 DEF SetupInv
<1> QED
  BY <1>1, <1>2, <1>5, <1>6, <1>7, SetupKept

\* page::init lists no page below the first free one behind the image.
LEMMA InitPagesKeeps ==
  ASSUME LoadInv, SetupInv, InitPages, m.stop = "no", image' = image
  PROVE  SetupInv'
<1> DEFINE size == InfoSize * NPages
           b == BootAfter(size) \div PgSize
           first == Max({MB1 \div PgKB, b})
           free == FreeListFrom(first)
           x == Fill(m, BootNext, size)
           refs == [p \in 0..NPages-1 |-> IF p < first THEN 1 ELSE 0]
           pages == [x EXCEPT !.refs = refs, !.free = free]
           k == ImageEnd
           D == DOMAIN m.refs
<1>1. /\ stage = "pages" /\ stage' = "tasks" /\ next' = BootAfter(size)
      /\ \E cond : m' = Ensure(pages, cond)
      /\ ram' = ram /\ totalMem' = totalMem /\ mmioNext' = mmioNext
  BY DEF InitPages
<1>2. PgKB \in Nat /\ PgKB > 0 /\ InfoSize \in Nat /\ MB1 \in Nat /\ totalMem \in Nat
  <2>1. PgKB \in Nat \ {0} /\ InfoSize \in Nat \ {0}
    BY BootMemoryAssumption
  <2>2. {MB1, MB16, BaseKB, ExtMaxKB} \subseteq Nat
    BY BootMemoryAssumption
  <2>3. totalMem \in Nat
    BY DEF SetupInv
  <2> QED
    BY <2>1, <2>2, <2>3
<1>3. NPages \in Nat
  BY <1>2 DEF NPages
<1>4. size \in Nat
  BY <1>2, <1>3, Product
<1> HIDE DEF size
<1>5. k \in Nat /\ k <= b /\ b \in Int
  BY <1>4, Allocated, Layout, Quotient DEF Behind
<1>6. MB1 \div PgKB \in Int
  BY <1>2
<1> HIDE DEF b
<1>7. first \in Int /\ k <= first
  <2> DEFINE a == MB1 \div PgKB
  <2>1. a \in Int
    BY <1>6
  <2> HIDE DEF a
  <2>2. \E y \in {a, b} : \A z \in {a, b} : y >= z
    <3>1. CASE a <= b
      BY <1>5, <2>1, <3>1
    <3>2. CASE ~(a <= b)
      BY <1>5, <2>1, <3>2
    <3> QED
      BY <3>1, <3>2
  <2>3. Max({a, b}) \in {a, b} /\ \A z \in {a, b} : Max({a, b}) >= z
    BY <2>2, Zenon DEF Max
  <2>4. Max({a, b}) \in Int /\ Max({a, b}) >= b
    BY <1>5, <2>1, <2>3
  <2> HIDE DEF k
  <2>5. first = Max({a, b})
    BY DEF a
  <2> HIDE DEF first
  <2> QED
    BY <1>5, <2>4, <2>5
<1> HIDE DEF first
<1>8. NPT \in Nat /\ k <= NPT
  BY <1>1, Layout DEF SetupInv
<1>9. free \in Seq(High(k))
  <2>1. Down(NPT - 1, first) \in Seq(High(k))
    BY <1>5, <1>7, <1>8, Downwards
  <2>2. Down(NPages - 1, NPT) \in Seq(High(k))
    BY <1>3, <1>5, <1>8, Downwards
  <2> QED
    BY <2>1, <2>2, ConcatProperties DEF FreeListFrom
<1>10. OffImage(m, D, k) /\ mmioNext \in Nat /\ UEnvsPdx * NPT <= mmioNext
  BY DEF SetupInv
<1>11. OffImage(x, D, k)
  <2>1. BootNext \in Nat /\ k <= BootNext \div PgSize
    BY Allocated DEF Behind
  <2> QED
    BY <1>4, <1>5, <1>10, <2>1, OffImageFill
<1>12. refs \in [0..NPages-1 -> Int]
  OBVIOUS
<1> HIDE DEF x, free, refs, k
<1>13. OffImage(pages, 0..NPages-1, k)
  <2>1. pages \in Machines(0..NPages-1, x.maps, k)
    BY <1>9, <1>11, <1>12 DEF OffImage, Machines
  <2>2. pages.maps = x.maps
    BY <2>1, Fields
  <2> QED
    BY <1>11, <2>1, <2>2 DEF OffImage
<1> HIDE DEF pages
<1>14. OffImage(m', 0..NPages-1, ImageEnd)
  BY <1>1, <1>13, OffImageEnsure DEF k
<1> QED
  BY <1>1, <1>2, <1>4, <1>10, <1>14, SetupKept

\* A map of one of the windows leaves everything else as it is.
LEMMA WindowKeeps ==
  ASSUME LoadInv, SetupInv, image' = image, ram' = ram, totalMem' = totalMem, mmioNext' = mmioNext,
         NEW x, OffImage(x, DOMAIN m.refs, ImageEnd),
         NEW v \in Nat, UEnvsPdx * NPT <= v, NEW size \in Nat, size > 0, NEW frame, NEW perm,
         m' = StaticMap(x, v, size, frame, perm),
         next' = next \/ \E n \in Nat : next' = BootAfter(n),
         stage' \in {"map", "mapStack", "mapMemory", "loadCr3"}
  PROVE  SetupInv'
<1> DEFINE D == DOMAIN m.refs
           k == ImageEnd
           y == StaticMap(x, v, size, frame, perm)
<1> HIDE DEF D, k
<1>1. OffImage(y, D, k)
  BY OffImageMap DEF D, k
<1>2. OffImage(m', D, ImageEnd)
  BY <1>1 DEF k
<1>3. totalMem' \in Nat /\ mmioNext' \in Nat /\ UEnvsPdx * NPT <= mmioNext'
  BY DEF SetupInv
<1> QED
  BY <1>2, <1>3, SetupKept

LEMMA WindowsKeep ==
  ASSUME LoadInv, SetupInv, m.stop = "no", image' = image,
         AllocTasks \/ MapInfos \/ MapStack \/ MapMemory
  PROVE  SetupInv'
<1> DEFINE D == DOMAIN m.refs
<1>1. OffImage(m, D, ImageEnd)
  BY DEF SetupInv
<1>2. /\ NPT \in Nat /\ NPT > 0 /\ PgSize \in Nat /\ PgSize > 1 /\ KStkPages \in Nat /\ KStkPages > 0
      /\ TasksSize \in Nat /\ TasksSize > 0 /\ NPD \in Nat /\ KernPdx \in 0..NPD-1
  <2>1. /\ NPT \in Nat \ {0} /\ KStkPages \in Nat \ {0} /\ TasksSize \in Nat \ {0}
    BY BootMemoryAssumption
  <2>2. PgSize \in Nat \ {0, 1} /\ NPD \in Nat /\ KernPdx \in 0..NPD-1
    BY BootMemoryAssumption
  <2> QED
    BY <2>1, <2>2
<1>3. \A a, c \in Nat : a > 0 /\ c > 0 => a * c \in Nat /\ a * c >= c
  BY Product
<1>4. CASE AllocTasks
  <2> DEFINE x == Fill(m, BootNext, TasksSize)
             frame == BootNext \div PgSize
  <2>1. OffImage(x, D, ImageEnd)
    <3>1. BootNext \in Nat /\ ImageEnd <= BootNext \div PgSize /\ ImageEnd \in Int
      BY Allocated DEF Behind
    <3> QED
      BY <1>1, <1>2, <3>1, OffImageFill
  <2>2. RoundUp(TasksSize) \in Nat /\ RoundUp(TasksSize) > 0
    <3>1. RoundUp(TasksSize) \in Nat /\ TasksSize <= RoundUp(TasksSize)
      BY <1>2, PagesAre
    <3> QED
      BY <1>2, <3>1
  <2> HIDE DEF x, frame
  <2>3. /\ m' = StaticMap(x, UEnvsPdx * NPT, RoundUp(TasksSize), frame, {"U"})
        /\ next' = BootAfter(TasksSize) /\ stage' = "map"
        /\ ram' = ram /\ totalMem' = totalMem /\ mmioNext' = mmioNext
    BY <1>4 DEF AllocTasks, x, frame
  <2>4. UEnvsPdx * NPT \in Nat /\ UEnvsPdx * NPT <= UEnvsPdx * NPT
    BY Layout
  <2> QED
    BY <1>2, <2>1, <2>2, <2>3, <2>4, WindowKeeps
<1>5. CASE MapInfos
  <2>1. /\ m' = StaticMap(m, UPagesPdx * NPT, NPT * PgSize, infos \div PgSize, {"U"})
        /\ next' = next /\ stage' = "mapStack"
        /\ ram' = ram /\ totalMem' = totalMem /\ mmioNext' = mmioNext
    BY <1>5 DEF MapInfos
  <2>2. NPT * PgSize \in Nat /\ NPT * PgSize > 0
    BY <1>2, <1>3
  <2>3. UPagesPdx * NPT \in Nat /\ UEnvsPdx * NPT <= UPagesPdx * NPT
    BY Layout
  <2> QED
    BY <1>1, <2>1, <2>2, <2>3, WindowKeeps
<1>6. CASE MapStack
  <2>1. /\ m' = StaticMap(m, KernPdx * NPT - KStkPages, KStkPages * PgSize,
                          image.stack \div PgSize, {"W"})
        /\ next' = next /\ stage' = "mapMemory"
        /\ ram' = ram /\ totalMem' = totalMem /\ mmioNext' = mmioNext
    BY <1>6 DEF MapStack
  <2>2. KStkPages * PgSize \in Nat /\ KStkPages * PgSize > 0
    BY <1>2, <1>3
  <2>3. KernPdx * NPT - KStkPages \in Nat /\ UEnvsPdx * NPT <= KernPdx * NPT - KStkPages
    BY Layout
  <2> QED
    BY <1>1, <2>1, <2>2, <2>3, WindowKeeps
<1>7. CASE MapMemory
  <2> DEFINE d == NPD - KernPdx
             size == d * NPT * PgSize - 1
  <2>1. /\ m' = StaticMap(m, KernPdx * NPT, size, 0, {"W"})
        /\ next' = next /\ stage' = "loadCr3"
        /\ ram' = ram /\ totalMem' = totalMem /\ mmioNext' = mmioNext
    BY <1>7 DEF MapMemory
  <2>2. size \in Nat /\ size > 0
    <3>1. d \in Nat /\ d > 0
      BY <1>2
    <3> HIDE DEF d
    <3>2. d * NPT \in Nat /\ d * NPT > 0
      BY <1>2, <1>3, <3>1
    <3> DEFINE e == d * NPT
    <3> HIDE DEF e
    <3>3. e * PgSize \in Nat /\ e * PgSize >= PgSize
      BY <1>2, <1>3, <3>2 DEF e
    <3>4. size = e * PgSize - 1
      BY DEF e
    <3> QED
      BY <1>2, <3>3, <3>4
  <2> HIDE DEF size
  <2>3. KernPdx * NPT \in Nat /\ UEnvsPdx * NPT <= KernPdx * NPT
    BY Layout
  <2> QED
    BY <1>1, <2>1, <2>2, <2>3, WindowKeeps
<1> QED
  BY <1>4, <1>5, <1>6, <1>7

\* From here on the directory in use is the kernel's.
LEMMA TestsKeep ==
  ASSUME LoadInv, SetupInv, m.stop = "no", image' = image,
         LoadDir \/ TestFirst \/ TestSecond \/ TestEnd
  PROVE  SetupInv'
<1> DEFINE D == DOMAIN m.refs
           k == ImageEnd
<1>1. OffImage(m, D, k) /\ mmioNext \in Nat /\ UEnvsPdx * NPT <= mmioNext /\ totalMem \in Nat
  BY DEF SetupInv
<1>2. ram' = ram /\ totalMem' = totalMem /\ next' = next /\ mmioNext' = mmioNext
  BY DEF LoadDir, TestFirst, TestSecond, TestEnd
<1>3. totalMem' \in Nat /\ mmioNext' \in Nat /\ UEnvsPdx * NPT <= mmioNext'
  BY <1>1, <1>2
<1> HIDE DEF D, k
<1>4. TestVa < UEnvsPdx * NPT
  BY Layout
<1>5. CASE LoadDir
  <2> DEFINE x == [m EXCEPT !.cr3 = "kernel"]
  <2>1. stage' = "test" /\ \E cond : m' = Ensure(x, cond)
    BY <1>5 DEF LoadDir
  <2>2. OffImage(x, D, k)
    <3>1. x \in Machines(D, m.maps, k)
      BY <1>1 DEF OffImage, Machines
    <3>2. x.maps = m.maps
      BY <3>1, Fields
    <3> QED
      BY <1>1, <3>1, <3>2 DEF OffImage
  <2> HIDE DEF x
  <2>3. OffImage(m', D, ImageEnd)
    BY <2>1, <2>2, OffImageEnsure DEF k
  <2> QED
    BY <1>2, <1>3, <2>1, <2>3, SetupKept
<1>6. ASSUME m.free # <<>>, NEW x, x = Inserted(TakePage(m), Head(m.free), TestVa), NEW cond,
             m' = Ensure(x, cond)
      PROVE  OffImage(m', D, k) /\ (m'.stop # "no" \/ TestVa \in DOMAIN m'.maps)
  <2> DEFINE t == TakePage(m)
             p == Head(m.free)
  <2>1. p \in High(k) /\ OffImage(t, D, k)
    BY <1>1, <1>6, OffImageTake
  <2> HIDE DEF t, p
  <2>2. OffImage(x, D, k) /\ (x.stop = "no" => TestVa \in DOMAIN x.maps)
    BY <1>4, <1>6, <2>1, OffImageInsert DEF t, p
  <2> QED
    BY <1>6, <2>2, OffImageEnsure
<1>7. ASSUME m.free = <<>>, m' = Ensure(m, FALSE)
      PROVE  OffImage(m', D, k) /\ m'.stop # "no"
  <2>1. OffImage(m', D, k)
    BY <1>1, <1>7, OffImageEnsure
  <2>2. m' = [m EXCEPT !.stop = "panic"]
    BY <1>7 DEF Ensure
  <2> QED
    BY <1>1, <2>1, <2>2 DEF OffImage, Machines
<1>8. CASE TestFirst \/ TestSecond
  <2>1. /\ stage' \in {"testAgain", "testEnd"}
        /\ \/ m.free = <<>> /\ m' = Ensure(m, FALSE)
           \/ m.free # <<>> /\ \E cond :
                 m' = Ensure(Inserted(TakePage(m), Head(m.free), TestVa), cond)
    BY <1>8 DEF TestFirst, TestSecond
  <2>2. OffImage(m', D, ImageEnd) /\ (m'.stop # "no" \/ TestVa \in DOMAIN m'.maps)
    BY <1>6, <1>7, <2>1 DEF k
  <2> QED
    BY <1>2, <1>3, <2>1, <2>2, SetupKept
<1>9. CASE TestEnd
  <2> DEFINE x == Removed(m, TestVa)
  <2>1. stage = "testEnd" /\ stage' = "processors" /\ \E cond : m' = Ensure(x, cond)
    BY <1>9 DEF TestEnd
  <2>2. TestVa \in DOMAIN m.maps
    BY <2>1 DEF SetupInv
  <2>3. OffImage(x, D, k)
    BY <1>1, <1>4, <2>2, OffImageRemove
  <2> HIDE DEF x
  <2>4. OffImage(m', D, ImageEnd)
    BY <2>1, <2>3, OffImageEnsure DEF k
  <2> QED
    BY <1>2, <1>3, <2>1, <2>4, SetupKept
<1> QED
  BY <1>5, <1>8, <1>9

LEMMA SettingUpKeeps == BootInv /\ SettingUp => BootInv'
<1> SUFFICES ASSUME LoadInv, SetupInv, SettingUp PROVE LoadInv' /\ SetupInv'
  BY DEF BootInv
<1>1. SetupNext /\ UNCHANGED loadVars /\ image' = image /\ m.stop = "no"
  BY DEF SettingUp, SetupNext, loadVars
<1>2. InKernel(stage) /\ InKernel(stage')
  BY <1>1 DEF SetupNext, Detect, AllocDir, InitPages, AllocTasks, MapInfos, MapStack, MapMemory,
              LoadDir, TestFirst, TestSecond, TestEnd, InKernel
<1>3. LoadInv'
  BY <1>1, <1>2, LoadInvKept
<1>4. SetupInv'
  BY <1>1, DetectKeeps, AllocDirKeeps, InitPagesKeeps, WindowsKeep, TestsKeep DEF SetupNext
<1> QED
  BY <1>3, <1>4

\* mp::init, of whose work only mmioMap concerns the memory.
LEMMA CountingKeeps == BootInv /\ Counting => BootInv'
<1> SUFFICES ASSUME LoadInv, SetupInv, Counting PROVE LoadInv' /\ SetupInv'
  BY DEF BootInv
<1>1. /\ UNCHANGED loadVars /\ image' = image /\ stage = "processors" /\ stage' = stage
      /\ ram' = ram /\ totalMem' = totalMem /\ next' = next
      /\ \/ UNCHANGED <<m, mmioNext>>
         \/ MmioMap(lapicPhy, PgSize)
  BY DEF Counting, loadVars
<1>2. LoadInv'
  BY <1>1, LoadInvKept
<1>3. /\ OffImage(m, DOMAIN m.refs, ImageEnd) /\ totalMem \in Nat
      /\ mmioNext \in Nat /\ UEnvsPdx * NPT <= mmioNext
  BY DEF SetupInv
<1> DEFINE D == DOMAIN m.refs
           k == ImageEnd
           n == PagesIn(PgSize)
           size == RoundUp(PgSize)
<1>4. n \in Nat /\ size \in Nat /\ size > 0 /\ UEnvsPdx * NPT \in Nat
  <2>1. PgSize \in Nat /\ PgSize > 0
    BY Layout
  <2>2. n \in Nat /\ size \in Nat /\ PgSize <= size
    BY <2>1, PagesAre
  <2> HIDE DEF n, size
  <2> QED
    BY <2>1, <2>2, Layout
<1> HIDE DEF D, k, n, size
<1>5. CASE UNCHANGED <<m, mmioNext>>
  <2>1. OffImage(m', D, ImageEnd) /\ totalMem' \in Nat
        /\ mmioNext' \in Nat /\ UEnvsPdx * NPT <= mmioNext'
    BY <1>1, <1>3, <1>5 DEF D
  <2> QED
    BY <1>1, <1>2, <2>1, SetupKept
<1>6. CASE MmioMap(lapicPhy, PgSize)
  <2>1. \/ m' = Ensure(m, FALSE) /\ mmioNext' = mmioNext
        \/ \E perm : m' = StaticMap(m, mmioNext, size, lapicPhy, perm) /\ mmioNext' = mmioNext + n
    BY <1>6 DEF MmioMap, n, size
  <2>2. OffImage(m', D, ImageEnd)
    BY <1>3, <1>4, <2>1, OffImageEnsure, OffImageMap DEF D
  <2>3. mmioNext' \in Nat /\ UEnvsPdx * NPT <= mmioNext' /\ totalMem' \in Nat
    <3> DEFINE w == UEnvsPdx * NPT
    <3>1. w \in Nat /\ w <= mmioNext /\ mmioNext \in Nat /\ n \in Nat
      BY <1>3, <1>4
    <3> HIDE DEF w
    <3>2. mmioNext' = mmioNext \/ mmioNext' = mmioNext + n
      BY <2>1
    <3>3. mmioNext' \in Nat /\ w <= mmioNext'
      BY <3>1, <3>2
    <3> QED
      BY <1>1, <1>3, <3>3 DEF w
  <2> QED
    BY <1>1, <1>2, <2>2, <2>3, SetupKept
<1> QED
  BY <1>1, <1>2, <1>5, <1>6

-----------------------------------------------------------------------------
LEMMA BootInvInit == BootInit => BootInv
BY LoadInvInit, SetupInvInit DEF BootInv, BootInit

LEMMA BootInvNext == BootInv /\ [BootNextStep]_bvars => BootInv'
<1> SUFFICES ASSUME BootInv, [BootNextStep]_bvars PROVE BootInv'
  OBVIOUS
<1> USE DEF BootInv
<1>1. CASE Loading
  <2>1. LoadInv'
    BY <1>1, LoadInvNext
  <2>2. /\ UNCHANGED setupVars /\ image' = image /\ stage \in {"load", "entered"}
        /\ stage' \in {"load", "bad", "entered", "detect"}
    BY <1>1 DEF Loading, LoadNext, ReadSector, NotElf, NextSegment, EnterKernel, ClearBss,
                SegmentRead, loadVars
  <2>3. /\ OffImage(m', DOMAIN m.refs, ImageEnd) /\ m'.cr3 = "entry"
        /\ ram' = ram /\ next' = next /\ totalMem' \in Nat
        /\ mmioNext' \in Nat /\ UEnvsPdx * NPT <= mmioNext'
    BY <2>2 DEF setupVars, SetupInv
  <2>4. SetupInv'
    BY <2>2, <2>3, SetupKept
  <2> QED
    BY <2>1, <2>4
<1>2. CASE SettingUp
  BY <1>2, SettingUpKeeps
<1>3. CASE Counting
  BY <1>3, CountingKeeps
<1>4. CASE EnterMonitor
  <2>1. /\ UNCHANGED <<loadVars, setupVars>> /\ image' = image
        /\ stage = "processors" /\ stage' = "monitor"
    BY <1>4 DEF EnterMonitor, loadVars
  <2>2. LoadInv'
    BY <2>1, LoadInvKept DEF InKernel
  <2>3. SetupInv'
    BY <2>1, SetupKept DEF setupVars, SetupInv
  <2> QED
    BY <2>2, <2>3
<1>5. CASE UNCHANGED bvars
  <2>1. UNCHANGED <<loadVars, setupVars, stage>> /\ image' = image
    BY <1>5 DEF bvars, loadVars
  <2>2. LoadInv'
    BY <2>1, LoadInvKept
  <2>3. SetupInv'
    BY <2>1, SetupKept DEF setupVars, SetupInv
  <2> QED
    BY <2>2, <2>3
<1> QED
  BY <1>1, <1>2, <1>3, <1>4, <1>5 DEF BootNextStep

\* The pages of the image end where bootAlloc begins.
LEMMA ImageIsKept == BootInv => ImageKept
<1> SUFFICES ASSUME LoadInv, SetupInv, NEW q \in ImagePages, q \in m.written \cup ToSet(m.free)
             PROVE  FALSE
  BY DEF BootInv, ImageKept
<1>1. PICK a \in UNION {Bytes(h) : h \in ToSet(image.phdrs)} : q = a \div PgSize
  BY DEF ImagePages, PagesOf, PageOf
<1> DEFINE e == image.kernEnd
           k == ImageEnd
<1>2. a \in Nat /\ e \in Nat /\ a < e
  <2>1. PICK h \in ToSet(image.phdrs) : a \in Bytes(h)
    BY <1>1
  <2>2. PICK j \in DOMAIN image.phdrs : h = image.phdrs[j]
    BY <2>1 DEF ToSet
  <2>3. a \in 0..MemTop-1 /\ a < e /\ e \in Nat
    BY <2>1, <2>2, ImageIs
  <2> QED
    BY <2>3
<1>3. /\ PgSize \in Nat /\ PgSize > 0 /\ k \in Nat
      /\ RoundUp(e) = k * PgSize /\ e <= RoundUp(e)
  BY <1>2, PagesAre DEF ImageEnd
<1>4. q \in Int /\ a \in Int /\ q * PgSize <= a
  BY <1>1, <1>2, <1>3, Quotient
<1>5. q >= k
  <2>1. OffImage(m, DOMAIN m.refs, k)
    BY DEF SetupInv
  <2> HIDE DEF k
  <2>2. m.free \in Seq(High(k)) /\ m.written \subseteq High(k)
    BY <2>1, Fields DEF OffImage
  <2>3. ToSet(m.free) \subseteq High(k)
    BY <2>2 DEF ToSet
  <2> QED
    BY <2>2, <2>3 DEF High
<1> HIDE DEF e, k
<1>6. k * PgSize <= q * PgSize
  <2>1. CASE k = q
    BY <1>3, <1>4, <2>1
  <2>2. CASE k # q
    <3>1. k < q
      BY <1>3, <1>4, <1>5, <2>2
    <3>2. k * PgSize + PgSize <= q * PgSize
      BY <1>3, <1>4, <3>1, Apart
    <3> QED
      BY <1>3, <1>4, <3>2
  <2> QED
    BY <2>1, <2>2
<1>7. q * PgSize \in Int /\ k * PgSize \in Int
  BY <1>3, <1>4
<1> QED
  BY <1>2, <1>3, <1>4, <1>6, <1>7

(***************************************************************************)
(* Whatever linked image the disk holds and whatever memory the machine     *)
(* has, the kernel runs the program that was linked, and vmem::init neither *)
(* fills nor lists a page of it.                                            *)
(***************************************************************************)
THEOREM KernelCorrect == BootSpec => []KernelIntact
<1>1. BootInv => KernelIntact
  BY ImageIsKept DEF BootInv, LoadInv, KernelIntact
<1> QED
  BY <1>1, BootInvInit, BootInvNext, PTL DEF BootSpec

\* The processors are found during boot as mp::init finds them: each step of boot
\* is one of theirs, or leaves them alone.
THEOREM ProcessorsImplemented == BootSpec => Spec
<1>1. BootInit => Init
  BY DEF BootInit
<1>2. [BootNextStep]_bvars => [Next]_vars
  BY DEF BootNextStep, Loading, SettingUp, Counting, EnterMonitor, bvars
<1> QED
  BY <1>1, <1>2, PTL DEF BootSpec, Spec

\* So at the start of the machine too.
THEOREM BootCountsProcessors == BootSpec => [](TypeOK /\ BootstrapIsMarked)
BY ProcessorsImplemented, TypeCorrect, BootstrapCorrect, PTL

-----------------------------------------------------------------------------
(***************************************************************************)
(* The page tables.  The free list f, the directory t and the pages L that  *)
(* are on neither: no page is listed twice or named twice, or is of two of   *)
(* these kinds.                                                             *)
(***************************************************************************)
Pdes == 0..NPD-1

Separate(f, t, L) ==
    /\ \A s, j \in 1..Len(f) : f[s] = f[j] => s = j
    /\ \A s \in 1..Len(f) : f[s] \notin L
    /\ \A d, e \in Pdes : d # e /\ t[d] # NoFrame => t[d] # t[e]
    /\ \A d \in Pdes : t[d] \notin L
    /\ \A s \in 1..Len(f), d \in Pdes : f[s] # t[d]

LEMMA SeparateTake ==
  ASSUME NEW f \in Seq(Int), f # <<>>, NEW t, NEW L, Separate(f, t, L)
  PROVE  Head(f) \notin L /\ Separate(Tail(f), t, L \cup {Head(f)})
<1> DEFINE g == Tail(f)
           p == Head(f)
           n == Len(f)
<1>1. n \in Nat /\ n > 0 /\ Len(g) = n - 1 /\ p = f[1] /\ \A s \in 1..n-1 : g[s] = f[s + 1]
  <2>1. n \in Nat /\ n # 0
    BY EmptySeq, LenProperties
  <2> QED
    BY <2>1, HeadTailProperties
<1> HIDE DEF g, p, n
<1>2. \A s \in 1..n-1 : s + 1 \in 1..n /\ s + 1 # 1
  BY <1>1
<1>3. 1 \in 1..n
  BY <1>1
<1>4. p \notin L /\ \A d \in Pdes : t[d] # p
  BY <1>1, <1>3 DEF Separate, n
<1>5. \A s, j \in 1..n-1 : g[s] = g[j] => s = j
  <2> SUFFICES ASSUME NEW s \in 1..n-1, NEW j \in 1..n-1, g[s] = g[j] PROVE s = j
    OBVIOUS
  <2>1. f[s + 1] = f[j + 1] /\ s + 1 \in 1..n /\ j + 1 \in 1..n
    BY <1>1, <1>2
  <2>2. s + 1 = j + 1
    BY <2>1 DEF Separate, n
  <2> QED
    BY <2>2
<1>6. \A s \in 1..n-1 : g[s] \notin L /\ g[s] # p /\ \A d \in Pdes : g[s] # t[d]
  <2> TAKE s \in 1..n-1
  <2>1. g[s] = f[s + 1] /\ s + 1 \in 1..n /\ s + 1 # 1
    BY <1>1, <1>2
  <2> QED
    BY <1>1, <1>3, <2>1 DEF Separate, n
<1>7. Separate(g, t, L \cup {p})
  BY <1>1, <1>4, <1>5, <1>6 DEF Separate
<1> QED
  BY <1>4, <1>7 DEF g, p

LEMMA SeparateName ==
  ASSUME NEW f, NEW t \in [Pdes -> Int], NEW L, NEW p, p # NoFrame, p \notin L,
         Separate(f, t, L \cup {p}), NEW d
  PROVE  Separate(f, [t EXCEPT ![d] = p], L)
<1> DEFINE u == [t EXCEPT ![d] = p]
<1>1. \A e \in Pdes : u[e] = IF e = d THEN p ELSE t[e]
  OBVIOUS
<1> HIDE DEF u
<1>2. \A e \in Pdes : t[e] # p
  BY DEF Separate
<1> QED
  BY <1>1, <1>2 DEF Separate, u

LEMMA SeparateGive ==
  ASSUME NEW f \in Seq(Int), NEW t, NEW L, NEW p \in Int, p \notin L, Separate(f, t, L \cup {p})
  PROVE  Separate(<<p>> \o f, t, L)
<1> DEFINE n == Len(f)
           g == <<p>> \o f
<1>1. n \in Nat /\ Len(g) = n + 1 /\ \A s \in 1..n+1 : g[s] = IF s = 1 THEN p ELSE f[s - 1]
  <2>1. Len(<<p>>) = 1 /\ <<p>>[1] = p /\ <<p>> \in Seq(Int)
    OBVIOUS
  <2> QED
    BY <2>1, ConcatProperties
<1>2. \A s \in 1..n+1 : s # 1 => s - 1 \in 1..n
  BY <1>1
<1> HIDE DEF n, g
<1>3. \A s \in 1..n : f[s] # p /\ f[s] \notin L
  BY DEF Separate, n
<1>4. \A s, j \in 1..n+1 : g[s] = g[j] => s = j
  <2> SUFFICES ASSUME NEW s \in 1..n+1, NEW j \in 1..n+1, g[s] = g[j] PROVE s = j
    OBVIOUS
  <2>1. CASE s # 1 /\ j # 1
    <3>1. f[s - 1] = f[j - 1] /\ s - 1 \in 1..n /\ j - 1 \in 1..n
      BY <1>1, <1>2, <2>1
    <3>2. s - 1 = j - 1
      BY <3>1 DEF Separate, n
    <3> QED
      BY <1>1, <3>2
  <2> QED
    BY <1>1, <1>2, <1>3, <2>1
<1>5. \A s \in 1..n+1 : g[s] \notin L /\ \A d \in Pdes : g[s] # t[d]
  <2> TAKE s \in 1..n+1
  <2>1. g[s] = p \/ \E j \in 1..n : g[s] = f[j]
    BY <1>1, <1>2
  <2> QED
    BY <2>1 DEF Separate, n
<1> QED
  BY <1>1, <1>4, <1>5 DEF Separate, g

LEMMA SeparateLess ==
  ASSUME NEW f, NEW t, NEW L, NEW K, K \subseteq L, Separate(f, t, L)
  PROVE  Separate(f, t, K)
BY DEF Separate

\* m with its free list and its tables in order, and u as the entry at UVPT.
Orderly(D, M, k, L, u) ==
    {x \in Machines(D, M, k) : Separate(x.free, x.pde, L) /\ x.pde[UvptPdx] = u}

\* What is mapped at address w.
Unmapped == [frame |-> NoFrame, perm |-> {}]

MapsAt(M, w) == IF w \in DOMAIN M THEN M[w] ELSE Unmapped

LEMMA OrderlySame ==
  ASSUME NEW D, NEW M, NEW N, NEW k, NEW L, NEW u, NEW x \in Orderly(D, M, k, L, u),
         NEW y \in Machines(D, N, k), y.free = x.free, y.pde = x.pde
  PROVE  y \in Orderly(D, N, k, L, u)
BY DEF Orderly

LEMMA OrderlyLess ==
  ASSUME NEW D, NEW M, NEW k, NEW L, NEW K, K \subseteq L, NEW u, NEW x \in Orderly(D, M, k, L, u)
  PROVE  x \in Orderly(D, M, k, K, u)
BY SeparateLess DEF Orderly

LEMMA EnsureSame ==
  ASSUME NEW D, NEW M, NEW k, NEW x \in Machines(D, M, k), NEW cond
  PROVE  LET y == Ensure(x, cond)
         IN /\ y \in Machines(D, M, k) /\ y.free = x.free /\ y.pde = x.pde /\ y.maps = x.maps
            /\ y.refs = x.refs /\ y.cr3 = x.cr3
            /\ y.stop = "no" => x.stop = "no"
<1> DEFINE y == Ensure(x, cond)
<1>1. y \in Machines(D, M, k)
  BY EnsureKeeps
<1>2. y = x \/ y = [x EXCEPT !.stop = "panic"]
  BY DEF Ensure
<1>3. /\ y.free = x.free /\ y.pde = x.pde /\ y.maps = x.maps /\ y.refs = x.refs /\ y.cr3 = x.cr3
      /\ y.stop = "no" => x.stop = "no"
  BY <1>2 DEF Ensure, Machines
<1> QED
  BY <1>1, <1>3

LEMMA TouchSame ==
  ASSUME NEW D, NEW M, NEW k, NEW x \in Machines(D, M, k), NEW pages, pages \subseteq High(k)
  PROVE  LET y == Touch(x, pages)
         IN /\ y \in Machines(D, M, k) /\ y.free = x.free /\ y.pde = x.pde /\ y.maps = x.maps
            /\ y.refs = x.refs /\ y.cr3 = x.cr3
            /\ y.stop = "no" => x.stop = "no"
<1> DEFINE y == Touch(x, pages)
<1>1. y \in Machines(D, M, k)
  BY TouchKeeps
<1>2. y \in {x, [x EXCEPT !.written = @ \cup pages], [x EXCEPT !.stop = "fault"]}
  BY DEF Touch
<1>3. /\ y.free = x.free /\ y.pde = x.pde /\ y.maps = x.maps /\ y.refs = x.refs /\ y.cr3 = x.cr3
  BY <1>2 DEF Machines
<1>4. y.stop = "no" => x.stop = "no"
  BY <1>2 DEF Touch, Machines
<1> QED
  BY <1>1, <1>3, <1>4

LEMMA OrderlyTake ==
  ASSUME NEW D, NEW M, NEW k \in Nat, NEW L, NEW u, NEW x \in Orderly(D, M, k, L, u), x.free # <<>>
  PROVE  /\ Head(x.free) \in High(k) /\ Head(x.free) \notin L
         /\ TakePage(x) \in Orderly(D, M, k, L \cup {Head(x.free)}, u)
         /\ TakePage(x).pde = x.pde
<1> DEFINE p == Head(x.free)
           z == [x EXCEPT !.free = Tail(@)]
           e == Ensure(z, p < NPages)
           t == TakePage(x)
<1>1. x \in Machines(D, M, k) /\ Separate(x.free, x.pde, L) /\ x.pde[UvptPdx] = u
  BY DEF Orderly
<1>2. p \in High(k) /\ t \in Machines(D, M, k)
  BY <1>1, TakeKeeps
<1>3. x.free \in Seq(Int)
  <2>1. x.free \in Seq(High(k)) /\ High(k) \subseteq Int
    BY <1>1, Fields DEF High
  <2> QED
    BY <2>1
<1>4. p \notin L /\ Separate(Tail(x.free), x.pde, L \cup {p})
  BY <1>1, <1>3, SeparateTake
<1>5. Tail(x.free) \in Seq(High(k))
  <2>1. x.free \in Seq(High(k))
    BY <1>1, Fields
  <2> QED
    BY <2>1, HeadTailProperties
<1>6. z \in Machines(D, M, k) /\ z.free = Tail(x.free) /\ z.pde = x.pde
  BY <1>1, <1>5 DEF Machines
<1>7. t = Touch(e, {p})
  BY DEF TakePage
<1> HIDE DEF z, p, t
<1>8. e \in Machines(D, M, k) /\ e.free = z.free /\ e.pde = z.pde
  BY <1>6, EnsureSame
<1> HIDE DEF e
<1>9. {p} \subseteq High(k)
  BY <1>2
<1>10. t.free = e.free /\ t.pde = e.pde
  BY <1>7, <1>8, <1>9, TouchSame
<1>11. t \in Orderly(D, M, k, L \cup {p}, u)
  BY <1>1, <1>2, <1>4, <1>6, <1>8, <1>10 DEF Orderly
<1> QED
  BY <1>2, <1>4, <1>6, <1>8, <1>10, <1>11 DEF p, t

LEMMA OrderlyTable ==
  ASSUME NEW D, NEW M, NEW k \in Nat, NEW L, NEW u, u # NoFrame,
         NEW x \in Orderly(D, M, k, L, u), NEW d
  PROVE  WithTable(x, d) \in Orderly(D, M, k, L, u)
<1>1. x \in Machines(D, M, k) /\ x.pde[UvptPdx] = u
  BY DEF Orderly
<1> DEFINE y == WithTable(x, d)
<1>2. y \in Machines(D, M, k)
  BY <1>1, TableKeeps
<1>3. CASE x.stop # "no" \/ x.pde[d] # NoFrame
  BY <1>3 DEF WithTable
<1>4. CASE ~(x.stop # "no" \/ x.pde[d] # NoFrame) /\ x.free = <<>>
  <2>1. y = [x EXCEPT !.stop = "fault"]
    BY <1>4 DEF WithTable
  <2>2. y.free = x.free /\ y.pde = x.pde
    BY <1>1, <2>1 DEF Machines
  <2> HIDE DEF y
  <2>3. y \in Orderly(D, M, k, L, u)
    BY <1>2, <2>2, OrderlySame
  <2> QED
    BY <2>3 DEF y
<1>5. CASE ~(x.stop # "no" \/ x.pde[d] # NoFrame) /\ x.free # <<>>
  <2> DEFINE p == Head(x.free)
             t == TakePage(x)
  <2>1. /\ p \in High(k) /\ p \notin L /\ t \in Orderly(D, M, k, L \cup {p}, u) /\ t.pde = x.pde
    <3>1. x.free # <<>>
      BY <1>5
    <3> QED
      BY ONLY <3>1, OrderlyTake, k \in Nat, x \in Orderly(D, M, k, L, u)
  <2>2. y = IF t.stop # "no" THEN t ELSE [t EXCEPT !.refs[p] = @ + 1, !.pde[d] = p]
    BY <1>5 DEF WithTable
  <2>3. p # NoFrame
    BY <2>1 DEF High, NoFrame
  <2> HIDE DEF p, t, y
  <2>4. t \in Orderly(D, M, k, L, u)
    BY <2>1, OrderlyLess
  <2>5. t \in Machines(D, M, k) /\ Separate(t.free, t.pde, L \cup {p}) /\ t.pde[UvptPdx] = u
    BY <2>1 DEF Orderly
  <2>6. t.pde \in [Pdes -> Int]
    BY <2>5, Fields DEF Pdes
  <2>7. CASE t.stop # "no"
    BY <2>2, <2>4, <2>7 DEF y
  <2>8. CASE ~(t.stop # "no")
    <3> DEFINE e == [t.pde EXCEPT ![d] = p]
    <3>1. y.free = t.free /\ y.pde = e
      BY <2>2, <2>5, <2>8 DEF Machines
    <3>2. Separate(t.free, e, L)
      BY <2>1, <2>3, <2>5, <2>6, SeparateName
    <3>3. e[UvptPdx] = u
      <4>1. d # UvptPdx
        BY <1>1, <1>5
      <4> QED
        BY <2>5, <2>6, <4>1
    <3> HIDE DEF e
    <3> QED
      BY <1>2, <3>1, <3>2, <3>3 DEF Orderly, y
  <2> QED
    BY <2>7, <2>8
<1> QED
  BY <1>3, <1>4, <1>5

\* A map of n pages from v on, and what is mapped besides.
Window(w, v, n, frame, perm, else) ==
    IF w \in v..v+n-1 THEN [frame |-> frame + (w - v), perm |-> perm] ELSE else

MapsMore(M, N, v, n, frame, perm) ==
    \A w \in Int : MapsAt(N, w) = Window(w, v, n, frame, perm, MapsAt(M, w))

LEMMA OrderlyMap ==
  ASSUME NEW D, NEW M, NEW k \in Nat, NEW L, NEW u, u # NoFrame,
         NEW x \in Orderly(D, M, k, L, u),
         NEW v \in Nat, NEW size \in Nat, size > 0, NEW frame, NEW perm
  PROVE  LET y == StaticMap(x, v, size, frame, perm)
         IN /\ y \in Orderly(D, y.maps, k, L, u)
            /\ y.stop = "no" => MapsMore(M, y.maps, v, PagesIn(size), frame, perm)
<1> DEFINE n == PagesIn(size)
           first == v \div NPT
           last == (v + n - 1) \div NPT
           t == WithTables(x, first, last)[last]
           f == [w \in v..v+n-1 |-> [frame |-> frame + (w - v), perm |-> perm]]
           y == StaticMap(x, v, size, frame, perm)
           S == Orderly(D, M, k, L, u)
<1>1. n \in Nat /\ n > 0 /\ NPT \in Nat /\ NPT > 0
  BY PagesAre, Layout
<1>2. first \in Int /\ last \in Int /\ first <= last
  <2>1. v + n - 1 \in Int /\ v <= v + n - 1
    BY <1>1
  <2> HIDE DEF n
  <2> QED
    BY <1>1, <2>1, Quotient, QuotientGrows
<1>3. y = IF t.stop # "no" THEN t ELSE [t EXCEPT !.maps = Entered(f, @)]
  BY DEF StaticMap, WithTables
<1> HIDE DEF first, last
<1>4. \A z \in S : \A d : WithTable(z, d) \in S
  BY OrderlyTable
<1> HIDE DEF S
<1>5. t \in S
  BY <1>2, <1>4, TablesIn DEF S
<1>6. DOMAIN f = v..v+n-1 /\ \A w \in v..v+n-1 : f[w] = [frame |-> frame + (w - v), perm |-> perm]
  OBVIOUS
<1> HIDE DEF t, f, n, y
<1>7. t \in Machines(D, M, k) /\ t.maps = M
  BY <1>5, Fields DEF Orderly, S
<1>8. CASE t.stop # "no"
  BY <1>3, <1>5, <1>7, <1>8 DEF y, S
<1>9. CASE ~(t.stop # "no")
  <2> DEFINE N == Entered(f, M)
  <2>1. y = [t EXCEPT !.maps = N]
    BY <1>3, <1>7, <1>9
  <2>2. \A w \in Int : MapsAt(N, w) = IF w \in DOMAIN f THEN f[w] ELSE MapsAt(M, w)
    BY DEF MapsAt, Entered
  <2> HIDE DEF N
  <2>3. y \in Machines(D, N, k) /\ y.maps = N /\ y.free = t.free /\ y.pde = t.pde
    BY <1>7, <2>1 DEF Machines
  <2>4. y \in Orderly(D, N, k, L, u)
    BY <1>5, <2>3, OrderlySame DEF S
  <2>5. MapsMore(M, N, v, n, frame, perm)
    BY <1>6, <2>2 DEF MapsMore, Window
  <2> QED
    BY <2>3, <2>4, <2>5 DEF y, n
<1> QED
  BY <1>8, <1>9

\* The maps N are those of M, but for address v, where N has e.
SameBut(M, N, v, e) == \A w \in Int : MapsAt(N, w) = IF w = v THEN e ELSE MapsAt(M, w)

\* remove takes the page that is mapped at v, on no list, back to the list or leaves it out.
LEMMA OrderlyRemove ==
  ASSUME NEW D, NEW M, NEW k \in Nat, NEW K, NEW u, NEW v, M[v].frame \in High(k), M[v].frame \in K,
         NEW x \in Orderly(D, M, k, K, u)
  PROVE  LET y == Removed(x, v)
         IN /\ y \in Orderly(D, y.maps, k, K \ {M[v].frame}, u)
            /\ y.stop = x.stop
            /\ SameBut(M, y.maps, v, Unmapped)
<1> DEFINE p == M[v].frame
           L == K \ {p}
           N == [w \in DOMAIN M \ {v} |-> M[w]]
           r == [x.refs EXCEPT ![p] = @ - 1]
           z == [x EXCEPT !.refs = r, !.maps = N]
           g == <<p>> \o z.free
           y == Removed(x, v)
<1>0. p \in High(k) /\ p \notin L /\ K = L \cup {p}
  OBVIOUS
<1>1. x \in Machines(D, M, k) /\ Separate(x.free, x.pde, L \cup {p}) /\ x.pde[UvptPdx] = u
  BY <1>0 DEF Orderly
<1>2. x.maps = M /\ x.refs \in [D -> Int] /\ x.free \in Seq(High(k))
  BY <1>1, Fields
<1>3. r \in [D -> Int]
  <2>1. x.refs \in [D -> Int] /\ 1 \in Int
    BY <1>2
  <2> QED
    BY <2>1, Counted
<1>4. y = IF z.refs[p] = 0 THEN [z EXCEPT !.free = g] ELSE z
  BY <1>1, <1>2 DEF Removed, Machines
<1>5. SameBut(M, N, v, Unmapped)
  BY DEF MapsAt, SameBut
<1> HIDE DEF r, N, y, L, p
<1>6. z \in Machines(D, N, k) /\ z.free = x.free /\ z.pde = x.pde /\ z.stop = x.stop
  BY <1>1, <1>3 DEF Machines
<1> HIDE DEF z
<1>7. g \in Seq(High(k)) /\ Separate(g, z.pde, L)
  <2>1. <<p>> \in Seq(High(k))
    BY <1>0
  <2>2. z.free \in Seq(High(k)) /\ High(k) \subseteq Int /\ p \in Int
    BY <1>0, <1>2, <1>6 DEF High
  <2>3. g \in Seq(High(k))
    BY <2>1, <2>2, ConcatProperties
  <2>4. z.free \in Seq(Int)
    BY <2>2
  <2>5. Separate(z.free, z.pde, L \cup {p})
    BY <1>1, <1>6
  <2>6. Separate(g, z.pde, L)
    BY <1>0, <2>2, <2>4, <2>5, SeparateGive
  <2> QED
    BY <2>3, <2>6
<1> HIDE DEF g
<1>8. CASE z.refs[p] = 0
  <2>1. y = [z EXCEPT !.free = g]
    BY <1>4, <1>8
  <2>2. y \in Machines(D, N, k) /\ y.free = g /\ y.pde = z.pde /\ y.maps = N /\ y.stop = z.stop
    BY <1>6, <1>7, <2>1 DEF Machines
  <2>3. y \in Orderly(D, N, k, L, u)
    BY <1>1, <1>6, <1>7, <2>2 DEF Orderly
  <2> QED
    BY <1>5, <1>6, <2>2, <2>3 DEF y, L, p
<1>9. CASE ~(z.refs[p] = 0)
  <2>1. y = z /\ y.maps = N
    BY <1>4, <1>6, <1>9, Fields
  <2>2. Separate(z.free, z.pde, L)
    BY <1>1, <1>6, SeparateLess
  <2>3. y \in Orderly(D, N, k, L, u)
    BY <1>1, <1>6, <2>1, <2>2 DEF Orderly
  <2> QED
    BY <1>5, <1>6, <2>1, <2>3 DEF y, L, p
<1> QED
  BY <1>8, <1>9

\* insert of page p, which is on no list, where the page of K was, if there was one.
LEMMA OrderlyInsert ==
  ASSUME NEW D, NEW M, NEW k \in Nat, NEW p \in High(k), NEW v, NEW K, NEW u, u # NoFrame,
         v \in DOMAIN M => K = {M[v].frame} /\ M[v].frame \in High(k), p \notin K,
         NEW x \in Orderly(D, M, k, K \cup {p}, u)
  PROVE  LET y == Inserted(x, p, v)
         IN /\ y.stop = "no" => y \in Orderly(D, y.maps, k, {p}, u)
            /\ y.stop = "no" => v \in DOMAIN y.maps
            /\ y.stop = "no" => SameBut(M, y.maps, v, [frame |-> p, perm |-> {"W"}])
<1> DEFINE t == WithTable(x, v \div NPT)
           f == [t.refs EXCEPT ![p] = @ + 1]
           c == [t EXCEPT !.refs[p] = @ + 1]
           r == IF v \in DOMAIN c.maps THEN Removed(c, v) ELSE c
           e == [w \in {v} |-> [frame |-> p, perm |-> {"W"}]]
           y == Inserted(x, p, v)
           L == K \cup {p}
<1> HIDE DEF L
<1>1. t \in Orderly(D, M, k, L, u)
  BY OrderlyTable DEF L
<1>2. y = IF t.stop # "no" THEN t ELSE [r EXCEPT !.maps = Entered(e, @)]
  BY DEF Inserted
<1> HIDE DEF t, y
<1>3. t \in Machines(D, M, k)
  BY <1>1 DEF Orderly
<1>4. f \in [D -> Int]
  <2>1. t.refs \in [D -> Int] /\ 1 \in Int
    BY <1>3, Fields
  <2> QED
    BY <2>1, Counted
<1>5. c = [t EXCEPT !.refs = f]
  BY <1>3 DEF Machines
<1> HIDE DEF f, c
<1>6. c \in Machines(D, M, k) /\ c.free = t.free /\ c.pde = t.pde /\ c.stop = t.stop /\ c.maps = M
  BY <1>3, <1>4, <1>5 DEF Machines
<1>7. c \in Orderly(D, M, k, L, u)
  BY <1>1, <1>6, OrderlySame
<1>8. r \in Orderly(D, r.maps, k, {p}, u) /\ \A w \in Int : w # v => MapsAt(r.maps, w) = MapsAt(M, w)
  <2>1. CASE v \in DOMAIN M
    <3>1. r = Removed(c, v)
      BY <1>6, <2>1
    <3>2. M[v].frame \in High(k) /\ M[v].frame \in L /\ L \ {M[v].frame} = {p}
      BY <2>1 DEF L
    <3> DEFINE q == M[v].frame
               K2 == L \ {q}
    <3>3. q \in High(k) /\ q \in L
      BY <3>2
    <3> HIDE DEF r
    <3>4. Removed(c, v) \in Orderly(D, Removed(c, v).maps, k, K2, u)
      BY <1>7, <3>3, OrderlyRemove
    <3>5. SameBut(M, Removed(c, v).maps, v, Unmapped)
      BY <1>7, <3>3, OrderlyRemove
    <3>6. K2 = {p}
      BY <3>2
    <3> HIDE DEF K2
    <3> QED
      BY <3>1, <3>4, <3>5, <3>6 DEF SameBut
  <2>2. CASE v \notin DOMAIN M
    <3>1. r = c /\ r.maps = M
      BY <1>6, <2>2
    <3>2. c \in Orderly(D, M, k, {p}, u)
      BY <1>7, OrderlyLess DEF L
    <3> QED
      BY <3>1, <3>2
  <2> QED
    BY <2>1, <2>2
<1> HIDE DEF r
<1> DEFINE N == Entered(e, r.maps)
<1>9. v \in DOMAIN N /\ SameBut(M, N, v, [frame |-> p, perm |-> {"W"}])
  <2>1. DOMAIN N = {v} \cup DOMAIN r.maps /\ N[v] = [frame |-> p, perm |-> {"W"}]
    BY DEF Entered
  <2>2. \A w \in DOMAIN r.maps : w # v => N[w] = r.maps[w]
    BY DEF Entered
  <2> HIDE DEF N
  <2> QED
    BY <1>8, <2>1, <2>2 DEF MapsAt, SameBut
<1> HIDE DEF N
<1>10. CASE y.stop = "no"
  <2>1. ~(t.stop # "no")
    BY <1>2, <1>10
  <2>2. r \in Machines(D, r.maps, k)
    BY <1>8 DEF Orderly
  <2>3. y = [r EXCEPT !.maps = N]
    BY <1>2, <2>1, <2>2 DEF N, Machines
  <2>4. y \in Machines(D, N, k) /\ y.maps = N /\ y.free = r.free /\ y.pde = r.pde
    BY <2>2, <2>3 DEF Machines
  <2>5. y \in Orderly(D, N, k, {p}, u)
    BY <1>8, <2>4, OrderlySame
  <2> QED
    BY <1>9, <2>4, <2>5 DEF y
<1> QED
  BY <1>10 DEF y

LEMMA OrderlyRefs ==
  ASSUME NEW D, NEW M, NEW k, NEW L, NEW u, NEW x \in Orderly(D, M, k, L, u)
  PROVE  DOMAIN x.refs = D /\ x.maps = M /\ x \in Machines(D, M, k)
<1>1. x \in Machines(D, M, k)
  BY DEF Orderly
<1>2. x.refs \in [D -> Int] /\ x.maps = M
  BY <1>1, Fields
<1> QED
  BY <1>1, <1>2

-----------------------------------------------------------------------------
(***************************************************************************)
(* The windows of memlayout.h, each mapped over those before it; what is    *)
(* mapped at each stage; and the page of the self test, which is on no list.*)
(***************************************************************************)
TasksLaid(w) ==
    Window(w, UEnvsPdx * NPT, PagesIn(RoundUp(TasksSize)), PageOf(tasks), {"U"}, Unmapped)

InfosLaid(w) ==
    Window(w, UPagesPdx * NPT, PagesIn(NPT * PgSize), PageOf(infos), {"U"}, TasksLaid(w))

StackLaid(w) ==
    Window(w, KernPdx * NPT - KStkPages, PagesIn(KStkPages * PgSize), PageOf(image.stack), {"W"},
           InfosLaid(w))

MemoryLaid(w) ==
    Window(w, KernPdx * NPT, PagesIn((NPD - KernPdx) * NPT * PgSize - 1), 0, {"W"}, StackLaid(w))

LapicLaid(w) ==
    Window(w, MmioPdx * NPT, PagesIn(RoundUp(PgSize)), lapicPhy, {"W", "PCD", "PWT"}, MemoryLaid(w))

HasLapic == pc = "done" /\ table # <<>> /\ lapicPhy # 0

Laid(w) ==
    CASE stage = "map"        -> TasksLaid(w)
      [] stage = "mapStack"  -> InfosLaid(w)
      [] stage = "mapMemory" -> StackLaid(w)
      [] stage \in {"loadCr3", "test", "testAgain", "testEnd"} -> MemoryLaid(w)
      [] stage \in {"processors", "monitor"} -> IF HasLapic THEN LapicLaid(w) ELSE MemoryLaid(w)
      [] OTHER -> Unmapped

Testing == stage \in {"testAgain", "testEnd"}

TestPages == IF Testing THEN {TestPage} ELSE {}

Early == {"load", "bad", "entered", "detect", "directory"}

\* page::init has been called.
Listed == {"tasks", "map", "mapStack", "mapMemory", "loadCr3", "test", "testAgain", "testEnd",
           "processors", "monitor"}

\* The only table is the directory, which lies below 4 MB and before what is next.
DirAlone ==
    /\ m.pde = [d \in Pdes |-> IF d = UvptPdx THEN PageOf(kernelPageDir) ELSE NoFrame]
    /\ PageOf(kernelPageDir) < NPT
    /\ next # 0 /\ PageOf(kernelPageDir) < PageOf(next)

InOrder ==
    /\ stage \in Early \cup {"pages"} => m.free = <<>> /\ m.maps = <<>>
    /\ stage \in Early => m.pde = [d \in Pdes |-> NoFrame]
    /\ stage = "pages" => DirAlone
    /\ stage \in Listed \cup {"pages"} => PageOf(kernelPageDir) \in Nat
    /\ stage \in Listed => m \in Orderly(DOMAIN m.refs, m.maps, ImageEnd, TestPages, PageOf(kernelPageDir))
    /\ \A w \in Int : ~(Testing /\ w = TestVa) => MapsAt(m.maps, w) = Laid(w)

PhaseInv ==
    /\ stage = "monitor" => m.stop = "no" /\ pc = "done"
    /\ stage \notin {"processors", "monitor"} => pc = "search"
    /\ pc \in {"walk", "lapic"} => table # <<>>
    /\ pc \in {"search", "walk", "lapic"} => mmioNext = MmioPdx * NPT
    /\ lapicPhy \in Nat

LayoutInv == PhaseInv /\ (m.stop = "no" => InOrder)

LEMMA PhaseInvInit == BootInit => PhaseInv
<1>1. LapicFrames \subseteq Nat
  BY ProcessorsAssumption
<1> QED
  BY <1>1 DEF BootInit, LoadInit, SetupInit, Init, PhaseInv

LEMMA PhaseInvNext == PhaseInv /\ [BootNextStep]_bvars => PhaseInv'
<1> SUFFICES ASSUME PhaseInv, [BootNextStep]_bvars PROVE PhaseInv'
  OBVIOUS
<1>1. CASE Loading
  BY <1>1 DEF Loading, LoadNext, ReadSector, NotElf, NextSegment, EnterKernel, ClearBss,
              SegmentRead, setupVars, vars, PhaseInv
<1>2. CASE SettingUp
  <2>1. stage' # "monitor" /\ stage # "monitor" /\ stage # "processors" /\ mmioNext' = mmioNext
        /\ UNCHANGED vars
    <3> DEFINE kept == stage \notin {"processors", "monitor"} /\ stage' # "monitor" /\ mmioNext' = mmioNext
    <3>1. Detect => kept
      BY DEF Detect
    <3>2. AllocDir => kept
      BY DEF AllocDir
    <3>3. InitPages => kept
      BY DEF InitPages
    <3>4. AllocTasks => kept
      BY DEF AllocTasks
    <3>5. MapInfos => kept
      BY DEF MapInfos
    <3>6. MapStack => kept
      BY DEF MapStack
    <3>7. MapMemory => kept
      BY DEF MapMemory
    <3>8. LoadDir => kept
      BY DEF LoadDir
    <3>9. TestFirst => kept
      BY DEF TestFirst
    <3>10. TestSecond => kept
      BY DEF TestSecond
    <3>11. TestEnd => kept
      BY DEF TestEnd
    <3> QED
      BY <1>2, <3>1, <3>2, <3>3, <3>4, <3>5, <3>6, <3>7, <3>8, <3>9, <3>10, <3>11 DEF SettingUp, SetupNext
  <2> QED
    BY <2>1 DEF PhaseInv, vars
<1>3. CASE Counting
  <2>1. stage = "processors" /\ stage' = "processors" /\ Next
        /\ (~(pc = "lapic" /\ lapicPhy # 0) => UNCHANGED <<m, mmioNext>>)
    BY <1>3 DEF Counting
  <2>2. CASE pc = "lapic"
    <3>1. pc' = "done" /\ lapicPhy' = lapicPhy
      BY <2>1, <2>2 DEF Next, Single, RefuseTable, TakeTable, AddProcessor, SkipEntry, Start, LapicInit
    <3> QED
      BY <2>1, <3>1 DEF PhaseInv
  <2>3. CASE pc # "lapic"
    <3>1. /\ mmioNext' = mmioNext /\ lapicPhy' = lapicPhy /\ table' = table
          /\ pc \in {"search", "walk"}
          /\ pc = "walk" \/ (pc' \in {"walk", "lapic"} => table # <<>>)
      BY <2>1, <2>3 DEF Next, Single, RefuseTable, TakeTable, AddProcessor, SkipEntry, Start, LapicInit
    <3> QED
      BY <2>1, <3>1 DEF PhaseInv
  <2> QED
    BY <2>2, <2>3
<1>4. CASE EnterMonitor
  BY <1>4 DEF EnterMonitor, setupVars, vars, PhaseInv
<1>5. CASE UNCHANGED bvars
  BY <1>5 DEF bvars, setupVars, vars, PhaseInv
<1> QED
  BY <1>1, <1>2, <1>3, <1>4, <1>5 DEF BootNextStep

LEMMA LaidAt ==
  ASSUME NEW w
  PROVE  /\ stage \in Early \cup {"pages", "tasks"} => Laid(w) = Unmapped
         /\ stage = "map" => Laid(w) = TasksLaid(w)
         /\ stage = "mapStack" => Laid(w) = InfosLaid(w)
         /\ stage = "mapMemory" => Laid(w) = StackLaid(w)
         /\ stage \in {"loadCr3", "test", "testAgain", "testEnd"} => Laid(w) = MemoryLaid(w)
         /\ stage \in {"processors", "monitor"} => Laid(w) = IF HasLapic THEN LapicLaid(w) ELSE MemoryLaid(w)
BY DEF Laid, Early

\* Until the maps begin there is nothing mapped.
LEMMA NoneMapped ==
  ASSUME stage \in Early \cup {"pages", "tasks"}, m.maps = <<>>, NEW w
  PROVE  MapsAt(m.maps, w) = Laid(w)
<1>1. DOMAIN m.maps = {}
  OBVIOUS
<1>2. MapsAt(m.maps, w) = Unmapped
  BY <1>1 DEF MapsAt
<1> QED
  BY <1>2, LaidAt

LEMMA LayoutInvInit == BootInit => LayoutInv
<1> SUFFICES ASSUME BootInit PROVE LayoutInv
  OBVIOUS
<1>1. stage = "load" /\ m.maps = <<>> /\ m.free = <<>> /\ m.pde = [d \in Pdes |-> NoFrame]
  BY DEF BootInit, LoadInit, SetupInit, Pdes
<1>2. \A w \in Int : MapsAt(m.maps, w) = Laid(w)
  BY <1>1, NoneMapped DEF Early
<1>3. InOrder
  BY <1>1, <1>2 DEF InOrder, Early, Listed
<1> QED
  BY <1>3, PhaseInvInit DEF LayoutInv

\* A step before the free list is made.
LEMMA EarlyKeeps ==
  ASSUME InOrder, stage \in Early, stage' \in Early, m' = m
  PROVE  InOrder'
<1>1. m.maps = <<>> /\ m.free = <<>> /\ m.pde = [d \in Pdes |-> NoFrame]
  BY DEF InOrder
<1>2. ASSUME NEW w \in Int PROVE MapsAt(m.maps, w)' = Laid(w)'
  <2>1. MapsAt(m.maps, w)' = Unmapped
    <3>1. DOMAIN m'.maps = {}
      BY <1>1
    <3> QED
      BY <3>1 DEF MapsAt
  <2>2. Laid(w)' = Unmapped
    BY DEF Laid, Early
  <2> QED
    BY <2>1, <2>2
<1> QED
  BY <1>1, <1>2 DEF InOrder, Early, Listed, Pdes, NoFrame

LEMMA DirInOrder ==
  ASSUME LoadInv, SetupInv, InOrder, AllocDir, m.stop = "no", m'.stop = "no"
  PROVE  InOrder'
<1> DEFINE x == Fill(m, BootNext, PgSize)
           b == BootNext \div PgSize
           after == BootAfter(PgSize)
<1>1. /\ stage = "directory" /\ stage' = "pages" /\ next' = after /\ kernelPageDir' = BootNext
      /\ m' = [x EXCEPT !.pde[UvptPdx] = b]
  BY DEF AllocDir
<1>2. /\ BootNext \in Nat /\ BootNext = b * PgSize /\ b \in Int /\ ImageEnd \in Nat /\ ImageEnd <= b
      /\ PgSize \in Nat /\ PgSize > 0 /\ NPT \in Nat /\ after \in Nat /\ NPD \in Nat
  BY Allocated, Layout, Quotient DEF Behind
<1>3. /\ m \in Machines(DOMAIN m.refs, m.maps, ImageEnd) /\ m.cr3 = "entry"
      /\ m.maps = <<>> /\ m.free = <<>> /\ m.pde = [d \in Pdes |-> NoFrame]
  BY <1>1 DEF SetupInv, OffImage, InOrder, Early
<1>4. b < PageOf(after) /\ after # 0
  <2> DEFINE a == BootNext + PgSize
  <2>1. a \in Nat /\ a = b * PgSize + PgSize /\ after = RoundUp(a)
    BY <1>2 DEF BootAfter
  <2> HIDE DEF a
  <2>2. a <= after /\ RoundUp(a) \in Nat
    BY <2>1, PagesAre
  <2>3. a \div PgSize = b + 1
    <3>1. (b + 1) * PgSize = b * PgSize + PgSize /\ b * PgSize \in Int
      BY <1>2
    <3>2. b + 1 \in Int /\ (b + 1) * PgSize <= a /\ a < (b + 1) * PgSize + PgSize
      BY <1>2, <2>1, <3>1
    <3> QED
      BY <1>2, <2>1, <3>2, QuotientIs
  <2>4. b + 1 <= after \div PgSize /\ after \div PgSize \in Int
    <3>1. a \div PgSize <= after \div PgSize
      BY <1>2, <2>1, <2>2, QuotientGrows
    <3>2. after \div PgSize \in Int
      BY <1>2, Quotient
    <3> QED
      BY <2>3, <3>1, <3>2
  <2>5. after # 0
    <3>1. a > 0
      BY <1>2, <2>1
    <3> QED
      BY <1>2, <2>1, <2>2, <3>1
  <2> HIDE DEF b, after
  <2> QED
    BY <1>2, <2>4, <2>5 DEF PageOf
<1> HIDE DEF after
<1> DEFINE pages == b .. b + PagesIn(PgSize) - 1
<1>5. pages \subseteq High(ImageEnd) /\ b \in pages
  <2>1. PagesIn(PgSize) \in Nat /\ PagesIn(PgSize) > 0
    BY <1>2, PagesAre
  <2> HIDE DEF b
  <2> QED
    BY <1>2, <2>1 DEF High
<1>6. x = Touch(m, pages)
  BY DEF Fill
<1> HIDE DEF pages, x
<1>7. /\ x \in Machines(DOMAIN m.refs, m.maps, ImageEnd)
      /\ x.free = m.free /\ x.pde = m.pde /\ x.maps = m.maps
  BY <1>3, <1>5, <1>6, TouchSame
<1>8. /\ m'.free = <<>> /\ m'.maps = <<>> /\ x.stop = "no"
      /\ m'.pde = [x.pde EXCEPT ![UvptPdx] = b]
  BY <1>1, <1>3, <1>7 DEF Machines
<1>9. b < NPT
  <2>1. CASE \A p \in pages : p < NPT
    BY <1>5, <2>1
  <2>2. CASE ~(\A p \in pages : p < NPT)
    <3>1. x = [m EXCEPT !.stop = "fault"]
      BY <1>3, <1>6, <2>2 DEF Touch
    <3> QED
      BY <1>3, <1>8, <3>1 DEF Machines
  <2> QED
    BY <2>1, <2>2
<1>10. PageOf(kernelPageDir)' = b /\ PageOf(next)' = PageOf(after)
  BY <1>1 DEF PageOf
<1>11. m'.pde = [d \in Pdes |-> IF d = UvptPdx THEN b ELSE NoFrame]
  BY <1>3, <1>7, <1>8
<1>12. DirAlone'
  BY <1>1, <1>4, <1>9, <1>10, <1>11 DEF DirAlone, Pdes, NoFrame
<1>13. ASSUME NEW w \in Int PROVE MapsAt(m.maps, w)' = Laid(w)'
  <2>1. MapsAt(m.maps, w)' = Unmapped
    <3>1. DOMAIN m'.maps = {}
      BY <1>8
    <3> QED
      BY <3>1 DEF MapsAt
  <2>2. Laid(w)' = Unmapped
    BY <1>1 DEF Laid
  <2> QED
    BY <2>1, <2>2
<1>14. b \in Nat
  BY <1>2
<1> HIDE DEF b
<1> QED
  BY <1>1, <1>8, <1>10, <1>12, <1>13, <1>14 DEF InOrder, Early, Listed

\* The pages from `from' down to `to', each once.
EachOnce(d) == \A s, j \in 1..Len(d) : d[s] = d[j] => s = j

Between(d, low, high) == \A s \in 1..Len(d) : low <= d[s] /\ d[s] <= high

LEMMA DownOnce ==
  ASSUME NEW from \in Int, NEW to \in Int
  PROVE  Down(from, to) \in Seq(Int) /\ EachOnce(Down(from, to)) /\ Between(Down(from, to), to, from)
<1> DEFINE d == Down(from, to)
           n == from - to + 1
<1>1. n \in Int /\ d = [j \in 1..n |-> from - j + 1]
  BY DEF Down
<1>2. d \in Seq(High(to))
  BY Downwards
<1>3. CASE n >= 0
  <2>1. n \in Nat
    BY <1>1, <1>3
  <2>2. d = [j \in 1..n |-> from - j + 1]
    BY <1>1
  <2> HIDE DEF n, d
  <2>3. Len(d) = n /\ \A j \in 1..n : d[j] = from - j + 1
    BY <2>1, <2>2
  <2>4. \A j \in 1..n : j \in Int /\ 1 <= j /\ j <= n
    BY <2>1
  <2>5. \A s, j \in 1..n : d[s] = d[j] => s = j
    BY <2>3, <2>4
  <2>6. \A s \in 1..n : to <= d[s] /\ d[s] <= from
    BY <2>3, <2>4 DEF n
  <2>7. d \in Seq(Int)
    BY <2>1, <2>2
  <2> QED
    BY <2>3, <2>5, <2>6, <2>7 DEF d, EachOnce, Between
<1>4. CASE n < 0
  <2>1. 1..n = {}
    BY <1>1, <1>4
  <2>2. DOMAIN d = {}
    BY <1>1, <2>1
  <2> HIDE DEF n, d
  <2>3. Len(d) \in Nat /\ DOMAIN d = 1..Len(d)
    BY <1>2
  <2>4. Len(d) = 0
    <3> SUFFICES ASSUME Len(d) # 0 PROVE FALSE
      OBVIOUS
    <3>1. 1 \in 1..Len(d)
      BY <2>3
    <3> QED
      BY <2>2, <2>3, <3>1
  <2>5. d \in Seq(Int)
    <3>1. High(to) \subseteq Int
      BY DEF High
    <3> QED
      BY <1>2, <3>1
  <2> QED
    BY <2>4, <2>5 DEF d, EachOnce, Between
<1> HIDE DEF n
<1> QED
  BY <1>1, <1>3, <1>4

\* The free list of page::init lists each page once, and none below first and 4 MB.
LEMMA FreeListOnce ==
  ASSUME NEW first \in Int, NPages \in Int
  PROVE  LET f == FreeListFrom(first)
         IN /\ f \in Seq(Int)
            /\ EachOnce(f)
            /\ \A s \in 1..Len(f) : first <= f[s] \/ NPT <= f[s]
<1> DEFINE g == Down(NPT - 1, first)
           h == Down(NPages - 1, NPT)
           f == g \o h
           a == Len(g)
           b == Len(h)
<1>1. NPT \in Nat
  BY Layout
<1>12. NPT - 1 \in Int /\ NPages - 1 \in Int
  BY <1>1
<1>13. g \in Seq(Int) /\ EachOnce(g) /\ Between(g, first, NPT - 1)
  BY <1>12, DownOnce
<1>14. h \in Seq(Int) /\ EachOnce(h) /\ Between(h, NPT, NPages - 1)
  BY <1>1, <1>12, DownOnce
<1>4. FreeListFrom(first) = f
  BY DEF FreeListFrom
<1> HIDE DEF g, h
<1>2. /\ g \in Seq(Int) /\ \A s, j \in 1..a : g[s] = g[j] => s = j
      /\ \A s \in 1..a : first <= g[s] /\ g[s] <= NPT - 1
  BY <1>13 DEF EachOnce, Between
<1>3. /\ h \in Seq(Int) /\ \A s, j \in 1..b : h[s] = h[j] => s = j
      /\ \A s \in 1..b : NPT <= h[s] /\ h[s] <= NPages - 1
  BY <1>14 DEF EachOnce, Between
<1>5. \A s \in 1..a : g[s] \in Int
  BY <1>2
<1>6. \A s \in 1..b : h[s] \in Int
  BY <1>3
<1>7. a \in Nat /\ b \in Nat
  BY <1>2, <1>3
<1>8. /\ f \in Seq(Int) /\ Len(f) = a + b
      /\ \A s \in 1..a+b : f[s] = IF s <= a THEN g[s] ELSE h[s - a]
  BY <1>2, <1>3, ConcatProperties
<1> HIDE DEF a, b, f
<1>9. \A s \in 1..a+b : IF s <= a THEN s \in 1..a /\ s \in Int ELSE s - a \in 1..b /\ s \in Int
  BY <1>7
<1>10. \A s, j \in 1..a+b : f[s] = f[j] => s = j
  <2> SUFFICES ASSUME NEW s \in 1..a+b, NEW j \in 1..a+b, f[s] = f[j] PROVE s = j
    OBVIOUS
  <2>1. CASE s <= a /\ j <= a
    BY <1>2, <1>8, <1>9, <2>1
  <2>2. CASE ~(s <= a) /\ ~(j <= a)
    <3>1. h[s - a] = h[j - a] /\ s - a \in 1..b /\ j - a \in 1..b
      BY <1>8, <1>9, <2>2
    <3>2. s - a = j - a
      BY <1>3, <3>1
    <3> QED
      BY <1>7, <1>9, <3>2
  <2>3. CASE s <= a /\ ~(j <= a)
    <3>1. g[s] = h[j - a] /\ s \in 1..a /\ j - a \in 1..b
      BY <1>8, <1>9, <2>3
    <3> QED
      BY <1>1, <1>2, <1>3, <1>5, <1>6, <3>1
  <2>4. CASE ~(s <= a) /\ j <= a
    <3>1. h[s - a] = g[j] /\ j \in 1..a /\ s - a \in 1..b
      BY <1>8, <1>9, <2>4
    <3> QED
      BY <1>1, <1>2, <1>3, <1>5, <1>6, <3>1
  <2> QED
    BY <2>1, <2>2, <2>3, <2>4
<1>11. \A s \in 1..a+b : first <= f[s] \/ NPT <= f[s]
  BY <1>2, <1>3, <1>8, <1>9
<1> QED
  BY <1>4, <1>8, <1>10, <1>11 DEF EachOnce

\* bootAlloc goes upwards.
LEMMA AllocatesUp ==
  ASSUME LoadInv, SetupInv, NEW size \in Nat
  PROVE  PageOf(BootNext) \in Int /\ PageOf(BootAfter(size)) \in Int
         /\ PageOf(BootNext) <= PageOf(BootAfter(size))
<1> DEFINE b == BootNext
           a == b + size
           c == BootAfter(size)
<1>1. b \in Nat /\ c \in Nat /\ PgSize \in Nat /\ PgSize > 0
  BY Allocated, Layout DEF Behind
<1>2. b <= c
  <2>1. CASE size = 0
    BY <1>1, <2>1 DEF BootAfter
  <2>2. CASE size # 0
    <3>1. c = RoundUp(a)
      BY <2>2 DEF BootAfter
    <3> HIDE DEF b, c
    <3>2. a \in Nat /\ b <= a
      BY <1>1
    <3> HIDE DEF a
    <3>3. a <= RoundUp(a)
      BY <3>2, PagesAre
    <3> QED
      BY <1>1, <3>1, <3>2, <3>3
  <2> QED
    BY <2>1, <2>2
<1> HIDE DEF b, c
<1>3. b \div PgSize \in Int /\ c \div PgSize \in Int /\ b \div PgSize <= c \div PgSize
  BY <1>1, <1>2, Quotient, QuotientGrows
<1> QED
  BY <1>3 DEF PageOf, b, c

LEMMA UvptIs == UvptPdx \in Pdes
<1>1. NPD \in Nat /\ KernPdx \in 0..NPD-1 /\ TestPdx \in 0..UEnvsPdx-1
  BY BootMemoryAssumption
<1> QED
  BY <1>1 DEF UvptPdx, UEnvsPdx, Pdes

\* What page::init makes of m, before its asserts.
WithList(size, first) ==
    [Fill(m, BootNext, size) EXCEPT
        !.refs = [p \in 0..NPages-1 |-> IF p < first THEN 1 ELSE 0],
        !.free = FreeListFrom(first)]

FirstFree(size) == Max({MB1 \div PgKB, BootAfter(size) \div PgSize})

LEMMA InitPagesIs ==
  ASSUME InitPages
  PROVE  /\ stage = "pages" /\ stage' = "tasks"
         /\ \E cond : /\ m' = Ensure(WithList(InfoSize * NPages, FirstFree(InfoSize * NPages)), cond)
                      /\ cond => Head(FreeListFrom(FirstFree(InfoSize * NPages))) \div NPT = 0
<1> DEFINE size == InfoSize * NPages
           pages == WithList(size, FirstFree(size))
           below == Head(FreeListFrom(FirstFree(size))) \div NPT = 0
<1>1. stage = "pages" /\ stage' = "tasks"
  BY DEF InitPages
<1>2. m' = Ensure(pages, /\ pages.refs[MB1 \div PgKB - 1] > 0
                         /\ pages.refs[BootNext \div PgSize] > 0
                         /\ pages.refs[(totalMem - PgKB) \div PgKB] = 0
                         /\ below)
  BY DEF InitPages, WithList, FirstFree
<1> HIDE DEF pages, below
<1>3. \E cond : m' = Ensure(pages, cond) /\ (cond => below)
  BY <1>2
<1> QED
  BY <1>1, <1>3 DEF pages, below

LEMMA ListInOrder ==
  ASSUME LoadInv, SetupInv, InOrder, InitPages, m.stop = "no", image' = image
  PROVE  m'.stop = "no" => InOrder'
<1> DEFINE size == InfoSize * NPages
           b == BootAfter(size) \div PgSize
           first == FirstFree(size)
           free == FreeListFrom(first)
           x == Fill(m, BootNext, size)
           refs == [p \in 0..NPages-1 |-> IF p < first THEN 1 ELSE 0]
           pages == WithList(size, first)
           k == ImageEnd
           D == 0..NPages-1
           u == PageOf(kernelPageDir)
<1>1. /\ stage = "pages" /\ stage' = "tasks" /\ kernelPageDir' = kernelPageDir
      /\ \E cond : m' = Ensure(pages, cond)
  <2>1. stage = "pages" /\ stage' = "tasks" /\ \E cond : m' = Ensure(pages, cond)
    BY InitPagesIs
  <2>2. UNCHANGED <<ram, totalMem, kernelPageDir, tasks, mmioNext>>
    BY DEF InitPages
  <2>3. kernelPageDir' = kernelPageDir
    BY <2>2
  <2> QED
    BY <2>1, <2>3
<1>2. /\ PgKB \in Nat /\ PgKB > 0 /\ InfoSize \in Nat /\ MB1 \in Nat /\ totalMem \in Nat
      /\ PgSize \in Nat /\ PgSize > 0 /\ NPT \in Nat
  <2>1. PgKB \in Nat \ {0} /\ InfoSize \in Nat \ {0}
    BY BootMemoryAssumption
  <2>2. {MB1, MB16, BaseKB, ExtMaxKB} \subseteq Nat
    BY BootMemoryAssumption
  <2>3. totalMem \in Nat
    BY DEF SetupInv
  <2> QED
    BY <2>1, <2>2, <2>3, Layout
<1>3. NPages \in Nat
  BY <1>2 DEF NPages
<1>4. size \in Nat
  BY <1>2, <1>3, Product
<1> HIDE DEF size
<1>5. /\ m.free = <<>> /\ m.maps = <<>> /\ u \in Nat /\ u < NPT /\ next # 0 /\ u < PageOf(next)
      /\ m.pde = [d \in Pdes |-> IF d = UvptPdx THEN u ELSE NoFrame]
  BY <1>1 DEF InOrder, DirAlone
<1>6. k \in Nat /\ b \in Int /\ u < b
  <2>1. BootNext = next
    BY <1>5 DEF BootNext
  <2>2. PageOf(BootNext) \in Int /\ b \in Int /\ PageOf(BootNext) <= b
    BY <1>4, AllocatesUp DEF PageOf
  <2>3. k \in Nat
    BY Allocated
  <2> HIDE DEF b, u
  <2> QED
    BY <1>5, <2>1, <2>2, <2>3
<1> HIDE DEF b
<1>7. first \in Int /\ u < first
  <2> DEFINE a == MB1 \div PgKB
  <2>1. a \in Int
    BY <1>2
  <2> HIDE DEF a
  <2>2. \E y \in {a, b} : \A z \in {a, b} : y >= z
    <3>1. CASE a <= b
      BY <1>6, <2>1, <3>1
    <3>2. CASE ~(a <= b)
      BY <1>6, <2>1, <3>2
    <3> QED
      BY <3>1, <3>2
  <2>3. Max({a, b}) \in {a, b} /\ \A z \in {a, b} : Max({a, b}) >= z
    BY <2>2, Zenon DEF Max
  <2>4. Max({a, b}) \in Int /\ Max({a, b}) >= b
    BY <1>6, <2>1, <2>3
  <2> HIDE DEF k, u
  <2>5. first = Max({a, b})
    BY DEF a, b, FirstFree
  <2> HIDE DEF first
  <2> QED
    BY <1>5, <1>6, <2>4, <2>5
<1> HIDE DEF first, u
<1>8. /\ free \in Seq(Int) /\ EachOnce(free)
      /\ \A j \in 1..Len(free) : first <= free[j] \/ NPT <= free[j]
  BY <1>3, <1>7, FreeListOnce
<1>9. Separate(free, m.pde, {})
  <2> HIDE DEF free
  <2>1. \A j \in 1..Len(free) : free[j] \in Int
    BY <1>8
  <2>2. \A d \in Pdes : m.pde[d] = IF d = UvptPdx THEN u ELSE NoFrame
    BY <1>5
  <2>3. \A j \in 1..Len(free) : free[j] # u /\ free[j] # NoFrame
    <3> TAKE j \in 1..Len(free)
    <3>1. free[j] \in Int /\ u < free[j]
      BY <1>2, <1>5, <1>7, <1>8, <2>1
    <3> QED
      BY <1>5, <3>1 DEF NoFrame
  <2> QED
    BY <1>8, <2>2, <2>3 DEF Separate, EachOnce
<1>10. x \in Machines(DOMAIN m.refs, m.maps, k) /\ x.pde = m.pde /\ x.maps = m.maps
  <2> DEFINE q == BootNext \div PgSize
             filled == q .. q + PagesIn(size) - 1
  <2>1. q \in Int /\ k <= q /\ PagesIn(size) \in Nat
    BY <1>2, <1>4, Allocated, PagesAre, Quotient DEF Behind
  <2>2. filled \subseteq High(k)
    <3> HIDE DEF q, k
    <3> QED
      BY <1>6, <2>1 DEF High
  <2>3. x = Touch(m, filled)
    BY DEF Fill
  <2>4. m \in Machines(DOMAIN m.refs, m.maps, k)
    BY DEF SetupInv, OffImage
  <2> HIDE DEF filled, x, k
  <2> QED
    BY <2>2, <2>3, <2>4, TouchSame
<1> HIDE DEF x, free, refs, k
<1>11. pages = [x EXCEPT !.refs = refs, !.free = free]
  BY DEF WithList, x, refs, free
<1>12. m'.free = free /\ m'.pde = m.pde /\ m'.maps = <<>>
  <2>1. m' \in {pages, [pages EXCEPT !.stop = "panic"]}
    BY <1>1 DEF Ensure
  <2> HIDE DEF pages
  <2> QED
    BY <1>5, <1>10, <1>11, <2>1 DEF Machines
<1>13. m' \in Machines(DOMAIN m'.refs, m'.maps, k)
  <2>1. SetupInv' /\ ImageEnd' = ImageEnd
    BY InitPagesKeeps DEF ImageEnd
  <2> QED
    BY <2>1 DEF SetupInv, OffImage, k
<1>14. m' \in Orderly(DOMAIN m'.refs, m'.maps, k, {}, u)
  <2>1. m'.pde[UvptPdx] = u
    BY <1>5, <1>12, UvptIs
  <2> QED
    BY <1>9, <1>12, <1>13, <2>1 DEF Orderly
<1>15. ASSUME NEW w \in Int PROVE MapsAt(m.maps, w)' = Laid(w)'
  <2>1. MapsAt(m.maps, w)' = Unmapped
    <3>1. DOMAIN m'.maps = {}
      BY <1>12
    <3> QED
      BY <3>1 DEF MapsAt
  <2>2. Laid(w)' = Unmapped
    BY <1>1 DEF Laid
  <2> QED
    BY <2>1, <2>2
<1>16. ImageEnd' = k /\ TestPages' = {} /\ PageOf(kernelPageDir)' = u
  BY <1>1 DEF k, u, ImageEnd, TestPages, Testing, PageOf
<1> QED
  BY <1>1, <1>5, <1>14, <1>15, <1>16 DEF InOrder, Early, Listed

\* m keeps its order when one more window is mapped.
LEMMA WindowInOrder ==
  ASSUME LoadInv, SetupInv, InOrder, stage \in Listed, ~Testing, stage' \in Listed, ~Testing',
         image' = image, kernelPageDir' = kernelPageDir,
         NEW x \in Orderly(DOMAIN m.refs, m.maps, ImageEnd, {}, PageOf(kernelPageDir)),
         NEW v \in Nat, NEW size \in Nat, size > 0, NEW frame, NEW perm,
         m' = StaticMap(x, v, size, frame, perm), m'.stop = "no",
         \A w \in Int : Laid(w)' = Window(w, v, PagesIn(size), frame, perm, Laid(w))
  PROVE  InOrder'
<1> DEFINE D == DOMAIN m.refs
           k == ImageEnd
           u == PageOf(kernelPageDir)
           n == PagesIn(size)
<1>1. u \in Nat /\ k \in Nat /\ u # NoFrame
  <2>1. u \in Nat /\ k \in Nat
    BY Allocated DEF InOrder
  <2> HIDE DEF u, k
  <2> QED
    BY <2>1 DEF NoFrame
<1>2. m' \in Orderly(D, m'.maps, k, {}, u) /\ MapsMore(m.maps, m'.maps, v, n, frame, perm)
  <2> DEFINE M == m.maps
             y == StaticMap(x, v, size, frame, perm)
  <2> HIDE DEF D, k, u, M
  <2>1. x \in Orderly(D, M, k, {}, u)
    BY DEF D, k, u, M
  <2>2. y \in Orderly(D, y.maps, k, {}, u)
    BY <1>1, <2>1, OrderlyMap
  <2>3. y.stop = "no" => MapsMore(M, y.maps, v, PagesIn(size), frame, perm)
    BY <1>1, <2>1, OrderlyMap
  <2> QED
    BY <2>2, <2>3 DEF M
<1>3. ImageEnd' = k /\ u' = u /\ TestPages' = {}
  BY DEF ImageEnd, PageOf, TestPages
<1>4. DOMAIN m'.refs = D
  BY <1>2, OrderlyRefs
<1>5. ASSUME NEW w \in Int PROVE MapsAt(m.maps, w)' = Laid(w)'
  <2>1. MapsAt(m.maps, w) = Laid(w)
    BY DEF InOrder
  <2>2. MapsAt(m.maps, w)' = MapsAt(m'.maps, w)
    BY DEF MapsAt
  <2>3. MapsAt(m'.maps, w) = Window(w, v, n, frame, perm, MapsAt(m.maps, w))
    BY <1>2 DEF MapsMore
  <2> HIDE DEF n
  <2>4. Laid(w)' = Window(w, v, n, frame, perm, Laid(w))
    BY DEF n
  <2> QED
    BY <2>1, <2>2, <2>3, <2>4
<1>6. stage' \notin Early \cup {"pages"}
  BY DEF Early, Listed
<1> HIDE DEF D, k, u
<1>7. (m \in Orderly(DOMAIN m.refs, m.maps, ImageEnd, TestPages, PageOf(kernelPageDir)))'
  <2>1. PageOf(kernelPageDir)' = u
    BY <1>3 DEF u
  <2> QED
    BY <1>2, <1>3, <1>4, <2>1
<1>8. PageOf(kernelPageDir)' \in Nat
  BY <1>1, <1>3 DEF u
<1> QED
  BY <1>5, <1>6, <1>7, <1>8 DEF InOrder

\* The free list is in order between the self test's stages.
LEMMA Ordered ==
  ASSUME InOrder, stage \in Listed, ~Testing
  PROVE  m \in Orderly(DOMAIN m.refs, m.maps, ImageEnd, {}, PageOf(kernelPageDir))
BY DEF InOrder, TestPages

\* To fill pages behind the image changes neither list nor tables.
LEMMA FillOrderly ==
  ASSUME NEW D, NEW M, NEW k \in Int, NEW L, NEW u, NEW x \in Orderly(D, M, k, L, u),
         NEW a \in Nat, k <= a \div PgSize, NEW size \in Nat
  PROVE  Fill(x, a, size) \in Orderly(D, M, k, L, u)
<1> DEFINE pages == a \div PgSize .. a \div PgSize + PagesIn(size) - 1
           y == Touch(x, pages)
<1>1. a \div PgSize \in Int /\ PagesIn(size) \in Nat
  BY Layout, Quotient, PagesAre
<1>2. pages \subseteq High(k)
  BY <1>1 DEF High
<1> HIDE DEF pages
<1>3. x \in Machines(D, M, k)
  BY DEF Orderly
<1>4. y \in Machines(D, M, k) /\ y.free = x.free /\ y.pde = x.pde
  BY <1>2, <1>3, TouchSame
<1>5. y \in Orderly(D, M, k, L, u)
  BY <1>4, OrderlySame
<1> QED
  BY <1>5 DEF Fill, pages

LEMMA TasksInOrder ==
  ASSUME LoadInv, SetupInv, InOrder, AllocTasks, image' = image, m'.stop = "no"
  PROVE  InOrder'
<1> DEFINE D == DOMAIN m.refs
           k == ImageEnd
           u == PageOf(kernelPageDir)
           x == Fill(m, BootNext, TasksSize)
           v == UEnvsPdx * NPT
           size == RoundUp(TasksSize)
           frame == BootNext \div PgSize
           perm == {"U"}
<1>1. /\ stage = "tasks" /\ stage' = "map" /\ tasks' = BootNext /\ kernelPageDir' = kernelPageDir
      /\ m' = StaticMap(x, v, size, frame, perm)
  BY DEF AllocTasks
<1>2. stage \in Listed /\ stage' \in Listed /\ ~Testing /\ ~Testing'
  BY <1>1 DEF Listed, Testing
<1>3. x \in Orderly(D, m.maps, k, {}, u)
  <2>1. m \in Orderly(D, m.maps, k, {}, u)
    BY <1>2, Ordered
  <2>2. BootNext \in Nat /\ k <= BootNext \div PgSize /\ k \in Int
    BY Allocated DEF Behind
  <2>3. TasksSize \in Nat
    BY BootMemoryAssumption
  <2> HIDE DEF D, k, u
  <2> QED
    BY <2>1, <2>2, <2>3, FillOrderly
<1>4. v \in Nat /\ size \in Nat /\ size > 0
  <2>1. TasksSize \in Nat \ {0}
    BY BootMemoryAssumption
  <2>2. size \in Nat /\ TasksSize <= size
    BY <2>1, PagesAre
  <2> HIDE DEF size
  <2>3. size > 0
    BY <2>1, <2>2
  <2> QED
    BY <2>2, <2>3, Layout
<1>5. ASSUME NEW w \in Int PROVE Laid(w)' = Window(w, v, PagesIn(size), frame, perm, Laid(w))
  <2>1. Laid(w) = Unmapped
    BY <1>1, LaidAt
  <2>2. Laid(w)' = TasksLaid(w)'
    BY <1>1 DEF Laid
  <2>3. TasksLaid(w)' = Window(w, v, PagesIn(size), frame, perm, Unmapped)
    BY <1>1 DEF TasksLaid, PageOf
  <2> QED
    BY <2>1, <2>2, <2>3
<1> HIDE DEF x, v, size, frame, perm
<1> QED
  BY <1>1, <1>2, <1>3, <1>4, <1>5, WindowInOrder

LEMMA MapsInOrder ==
  ASSUME LoadInv, SetupInv, InOrder, MapInfos \/ MapStack \/ MapMemory, image' = image, m'.stop = "no"
  PROVE  InOrder'
<1>1. /\ NPT \in Nat /\ NPT > 0 /\ PgSize \in Nat /\ PgSize > 1 /\ KStkPages \in Nat /\ KStkPages > 0
      /\ NPD \in Nat /\ KernPdx \in 0..NPD-1
  <2>1. KStkPages \in Nat \ {0} /\ KernPdx \in 0..NPD-1
    BY BootMemoryAssumption
  <2> QED
    BY <2>1, Layout
<1>2. \A a, c \in Nat : a > 0 /\ c > 0 => a * c \in Nat /\ a * c >= c
  BY Product
<1>3. stage \in Listed /\ stage' \in Listed /\ ~Testing /\ ~Testing'
      /\ kernelPageDir' = kernelPageDir /\ tasks' = tasks /\ infos' = infos
  BY DEF MapInfos, MapStack, MapMemory, Listed, Testing
<1>4. m \in Orderly(DOMAIN m.refs, m.maps, ImageEnd, {}, PageOf(kernelPageDir))
  BY <1>3, Ordered
<1>5. \A w \in Int : TasksLaid(w)' = TasksLaid(w)
  BY <1>3 DEF TasksLaid, PageOf
<1>6. ASSUME NEW w \in Int PROVE InfosLaid(w)' = InfosLaid(w)
  BY <1>3, <1>5 DEF InfosLaid, PageOf
<1>7. ASSUME NEW w \in Int PROVE StackLaid(w)' = StackLaid(w)
  BY <1>6 DEF StackLaid, PageOf
<1>8. CASE MapInfos
  <2> DEFINE v == UPagesPdx * NPT
             size == NPT * PgSize
             frame == infos \div PgSize
             perm == {"U"}
  <2>1. stage = "map" /\ stage' = "mapStack" /\ m' = StaticMap(m, v, size, frame, perm)
    BY <1>8 DEF MapInfos
  <2>2. v \in Nat /\ size \in Nat /\ size > 0
    BY <1>1, <1>2, Layout
  <2>3. ASSUME NEW w \in Int PROVE Laid(w)' = Window(w, v, PagesIn(size), frame, perm, Laid(w))
    <3>1. Laid(w) = TasksLaid(w)
      BY <2>1, LaidAt
    <3>2. Laid(w)' = InfosLaid(w)'
      BY <2>1 DEF Laid
    <3>3. InfosLaid(w)' = Window(w, v, PagesIn(size), frame, perm, TasksLaid(w))
      BY <1>6 DEF InfosLaid, PageOf
    <3> QED
      BY <3>1, <3>2, <3>3
  <2> HIDE DEF v, size, frame, perm
  <2> QED
    BY <1>3, <1>4, <2>1, <2>2, <2>3, WindowInOrder
<1>9. CASE MapStack
  <2> DEFINE v == KernPdx * NPT - KStkPages
             size == KStkPages * PgSize
             frame == image.stack \div PgSize
             perm == {"W"}
  <2>1. stage = "mapStack" /\ stage' = "mapMemory" /\ m' = StaticMap(m, v, size, frame, perm)
    BY <1>9 DEF MapStack
  <2>2. v \in Nat /\ size \in Nat /\ size > 0
    BY <1>1, <1>2, Layout
  <2>3. ASSUME NEW w \in Int PROVE Laid(w)' = Window(w, v, PagesIn(size), frame, perm, Laid(w))
    <3>1. Laid(w) = InfosLaid(w)
      BY <2>1, LaidAt
    <3>2. Laid(w)' = StackLaid(w)'
      BY <2>1 DEF Laid
    <3>3. StackLaid(w)' = Window(w, v, PagesIn(size), frame, perm, InfosLaid(w))
      BY <1>7 DEF StackLaid, PageOf
    <3> QED
      BY <3>1, <3>2, <3>3
  <2> HIDE DEF v, size, frame, perm
  <2> QED
    BY <1>3, <1>4, <2>1, <2>2, <2>3, WindowInOrder
<1>10. CASE MapMemory
  <2> DEFINE d == NPD - KernPdx
             v == KernPdx * NPT
             size == d * NPT * PgSize - 1
             perm == {"W"}
  <2>1. stage = "mapMemory" /\ stage' = "loadCr3" /\ m' = StaticMap(m, v, size, 0, perm)
    BY <1>10 DEF MapMemory
  <2>2. size \in Nat /\ size > 0
    <3>1. d \in Nat /\ d > 0
      BY <1>1
    <3> HIDE DEF d
    <3>2. d * NPT \in Nat /\ d * NPT > 0
      BY <1>1, <1>2, <3>1
    <3> DEFINE e == d * NPT
    <3> HIDE DEF e
    <3>3. e * PgSize \in Nat /\ e * PgSize >= PgSize
      BY <1>1, <1>2, <3>2 DEF e
    <3>4. size = e * PgSize - 1
      BY DEF e
    <3> QED
      BY <1>1, <3>3, <3>4
  <2>3. v \in Nat
    BY Layout
  <2>4. ASSUME NEW w \in Int PROVE Laid(w)' = Window(w, v, PagesIn(size), 0, perm, Laid(w))
    <3>1. Laid(w) = StackLaid(w)
      BY <2>1, LaidAt
    <3>2. Laid(w)' = MemoryLaid(w)'
      BY <2>1 DEF Laid
    <3>3. MemoryLaid(w)' = Window(w, v, PagesIn(size), 0, perm, StackLaid(w))
      BY <1>7 DEF MemoryLaid
    <3> QED
      BY <3>1, <3>2, <3>3
  <2> HIDE DEF v, size, perm
  <2> QED
    BY <1>3, <1>4, <2>1, <2>2, <2>3, <2>4, WindowInOrder
<1> QED
  BY <1>8, <1>9, <1>10

\* At the self test's address there is nothing else.
LEMMA TestVaFree ==
  TestVa \in Int /\ MemoryLaid(TestVa) = Unmapped
<1> DEFINE n1 == PagesIn(RoundUp(TasksSize))
           n2 == PagesIn(NPT * PgSize)
           n3 == PagesIn(KStkPages * PgSize)
           n4 == PagesIn((NPD - KernPdx) * NPT * PgSize - 1)
<1>1. TestVa \in Nat /\ TestVa < UEnvsPdx * NPT
  BY Layout
<1>2. \A v, n, frame, perm, else : v \in Nat /\ UEnvsPdx * NPT <= v => Window(TestVa, v, n, frame, perm, else) = else
  <2> SUFFICES ASSUME NEW v \in Nat, NEW n, UEnvsPdx * NPT <= v PROVE TestVa \notin v..v+n-1
    BY DEF Window
  <2>1. UEnvsPdx * NPT \in Nat
    BY Layout
  <2> SUFFICES ASSUME TestVa \in v..v+n-1 PROVE FALSE
    OBVIOUS
  <2>2. v <= TestVa
    OBVIOUS
  <2> DEFINE e == UEnvsPdx * NPT
  <2>3. e \in Nat /\ e <= v /\ TestVa < e
    BY <1>1, <2>1
  <2> HIDE DEF e
  <2> QED
    BY <1>1, <2>2, <2>3
<1>3. /\ UEnvsPdx * NPT \in Nat /\ UEnvsPdx * NPT <= UEnvsPdx * NPT
      /\ UPagesPdx * NPT \in Nat /\ UEnvsPdx * NPT <= UPagesPdx * NPT
      /\ KernPdx * NPT - KStkPages \in Nat /\ UEnvsPdx * NPT <= KernPdx * NPT - KStkPages
      /\ KernPdx * NPT \in Nat /\ UEnvsPdx * NPT <= KernPdx * NPT
  BY Layout
<1>4. TasksLaid(TestVa) = Unmapped
  BY <1>2, <1>3 DEF TasksLaid
<1>5. InfosLaid(TestVa) = Unmapped
  BY <1>2, <1>3, <1>4 DEF InfosLaid
<1>6. StackLaid(TestVa) = Unmapped
  BY <1>2, <1>3, <1>5 DEF StackLaid
<1>7. MemoryLaid(TestVa) = Unmapped
  BY <1>2, <1>3, <1>6 DEF MemoryLaid
<1> QED
  BY <1>1, <1>7

\* A step after the maps that leaves everything but m alone.
LEMMA LaterInOrder ==
  ASSUME InOrder, stage \in {"loadCr3", "test", "testAgain", "testEnd"},
         stage' \in {"test", "testAgain", "testEnd", "processors"},
         stage' = "processors" => pc' = "search",
         image' = image, kernelPageDir' = kernelPageDir, tasks' = tasks, infos' = infos,
         NEW L, m' \in Orderly(DOMAIN m.refs, m'.maps, ImageEnd, L, PageOf(kernelPageDir)),
         TestPages' = L,
         \A w \in Int : w # TestVa => MapsAt(m'.maps, w) = MapsAt(m.maps, w),
         ~Testing' => MapsAt(m'.maps, TestVa) = Unmapped
  PROVE  InOrder'
<1>1. stage \in Listed /\ stage' \in Listed /\ stage' \notin Early \cup {"pages"}
  BY DEF Listed, Early
<1>2. DOMAIN m'.refs = DOMAIN m.refs
  BY OrderlyRefs
<1>3. ImageEnd' = ImageEnd /\ PageOf(kernelPageDir)' = PageOf(kernelPageDir)
  BY DEF ImageEnd, PageOf
<1>4. (m \in Orderly(DOMAIN m.refs, m.maps, ImageEnd, TestPages, PageOf(kernelPageDir)))'
  BY <1>2, <1>3
<1>5. ASSUME NEW w \in Int PROVE MemoryLaid(w)' = MemoryLaid(w)
  BY DEF MemoryLaid, StackLaid, InfosLaid, TasksLaid, PageOf
<1>6. \A w \in Int : Laid(w)' = MemoryLaid(w)
  <2>1. \A w \in Int : Laid(w)' = MemoryLaid(w)'
    BY DEF Laid, HasLapic
  <2> QED
    BY <1>5, <2>1
<1>7. ASSUME NEW w \in Int, ~(Testing' /\ w = TestVa) PROVE MapsAt(m.maps, w)' = Laid(w)'
  <2>1. MapsAt(m.maps, w)' = MapsAt(m'.maps, w)
    BY DEF MapsAt
  <2>2. CASE w # TestVa
    <3>1. MapsAt(m.maps, w) = Laid(w)
      BY <2>2 DEF InOrder
    <3>2. Laid(w) = MemoryLaid(w)
      BY LaidAt
    <3> QED
      BY <1>6, <2>1, <2>2, <3>1, <3>2
  <2>3. CASE w = TestVa
    BY <1>6, <1>7, <2>1, <2>3, TestVaFree
  <2> QED
    BY <2>2, <2>3
<1>8. PageOf(kernelPageDir)' \in Nat
  BY <1>1, <1>3 DEF InOrder
<1>9. TestVa' = TestVa
  BY DEF TestVa
<1> QED
  BY <1>1, <1>4, <1>7, <1>8, <1>9 DEF InOrder

LEMMA LoadInOrder ==
  ASSUME LoadInv, SetupInv, InOrder, LoadDir, image' = image, m'.stop = "no"
  PROVE  InOrder'
<1> DEFINE D == DOMAIN m.refs
           k == ImageEnd
           u == PageOf(kernelPageDir)
           M == m.maps
           x == [m EXCEPT !.cr3 = "kernel"]
<1>1. /\ stage = "loadCr3" /\ stage' = "test" /\ \E cond : m' = Ensure(x, cond)
      /\ kernelPageDir' = kernelPageDir /\ tasks' = tasks /\ infos' = infos
  BY DEF LoadDir
<1>2. stage \in Listed /\ ~Testing /\ ~Testing' /\ TestPages' = {}
  BY <1>1 DEF Listed, Testing, TestPages
<1>3. m \in Orderly(D, M, k, {}, u)
  BY <1>2, Ordered
<1>4. m \in Machines(D, M, k)
  BY <1>3 DEF Orderly
<1>5. x \in Machines(D, M, k) /\ x.free = m.free /\ x.pde = m.pde
  BY <1>4 DEF Machines
<1> HIDE DEF D, k, u, M, x
<1>6. m' \in Machines(D, M, k) /\ m'.free = m.free /\ m'.pde = m.pde
  <2>1. PICK cond : m' = Ensure(x, cond)
    BY <1>1
  <2> DEFINE y == Ensure(x, cond)
  <2>2. y \in Machines(D, M, k) /\ y.free = x.free /\ y.pde = x.pde
    BY <1>5, EnsureSame
  <2> QED
    BY <1>5, <2>1, <2>2
<1>7. m' \in Orderly(D, M, k, {}, u)
  BY <1>3, <1>6, OrderlySame
<1>8. m'.maps = M
  BY <1>6, Fields
<1>9. m' \in Orderly(D, m'.maps, k, {}, u)
  BY <1>7, <1>8
<1>10. \A w \in Int : MapsAt(m'.maps, w) = MapsAt(m.maps, w)
  BY <1>8 DEF M
<1>11. MapsAt(m'.maps, TestVa) = Unmapped
  <2>1. MapsAt(m.maps, TestVa) = Laid(TestVa)
    BY <1>2, TestVaFree DEF InOrder
  <2>2. Laid(TestVa) = MemoryLaid(TestVa)
    BY <1>1, LaidAt
  <2> QED
    BY <1>10, <2>1, <2>2, TestVaFree
<1> QED
  BY <1>1, <1>2, <1>9, <1>10, <1>11, LaterInOrder DEF D, k, u

LEMMA TestInOrder ==
  ASSUME LoadInv, SetupInv, InOrder, TestFirst \/ TestSecond, image' = image, m.stop = "no", m'.stop = "no"
  PROVE  InOrder'
<1> DEFINE D == DOMAIN m.refs
           k == ImageEnd
           u == PageOf(kernelPageDir)
           M == m.maps
           L == TestPages
           p == Head(m.free)
           t == TakePage(m)
           y == Inserted(t, p, TestVa)
           e == [frame |-> p, perm |-> {"W"}]
<1>1. /\ stage \in {"test", "testAgain"} /\ stage' \in {"testAgain", "testEnd"}
      /\ kernelPageDir' = kernelPageDir /\ tasks' = tasks /\ infos' = infos
      /\ \/ m.free = <<>> /\ m' = Ensure(m, FALSE)
         \/ m.free # <<>> /\ \E cond : m' = Ensure(y, cond)
  BY DEF TestFirst, TestSecond
<1>2. /\ stage \in Listed /\ Testing'
  BY <1>1 DEF Listed, Testing
<1>3. u \in Nat /\ k \in Nat /\ u # NoFrame
  <2>1. u \in Nat /\ k \in Nat
    BY <1>2, Allocated DEF InOrder
  <2> HIDE DEF u, k
  <2> QED
    BY <2>1 DEF NoFrame
<1>4. m \in Orderly(D, M, k, L, u)
  BY <1>2 DEF InOrder
<1>5. m \in Machines(D, M, k) /\ LowAbove(M, k) /\ TestVa \in Int /\ TestVa < UEnvsPdx * NPT
  BY Layout DEF SetupInv, OffImage
<1>6. TestVa \in DOMAIN M => L = {M[TestVa].frame} /\ M[TestVa].frame \in High(k)
  <2> SUFFICES ASSUME TestVa \in DOMAIN M PROVE L = {M[TestVa].frame} /\ M[TestVa].frame \in High(k)
    OBVIOUS
  <2>1. M[TestVa].frame \in High(k)
    BY <1>5 DEF LowAbove
  <2>2. CASE stage = "test"
    <3>1. MapsAt(M, TestVa) = Laid(TestVa)
      BY <1>5, <2>2 DEF InOrder, Testing
    <3>2. Laid(TestVa) = Unmapped
      BY <2>2, LaidAt, TestVaFree
    <3>3. M[TestVa].frame = NoFrame
      BY <3>1, <3>2 DEF MapsAt, Unmapped
    <3> QED
      BY <1>3, <2>1, <3>3 DEF High, NoFrame
  <2>3. CASE stage = "testAgain"
    BY <2>1, <2>3 DEF TestPages, Testing, TestPage, FrameAt
  <2> QED
    BY <1>1, <2>2, <2>3
<1> HIDE DEF D, k, u, M, L
<1>7. m.free # <<>>
  <2> SUFFICES ASSUME m' = Ensure(m, FALSE) PROVE FALSE
    BY <1>1
  <2>1. m' = [m EXCEPT !.stop = "panic"]
    BY DEF Ensure
  <2> QED
    BY <1>5, <2>1 DEF Machines
<1>8. p \in High(k) /\ p \notin L /\ t \in Orderly(D, M, k, L \cup {p}, u)
  BY <1>3, <1>4, <1>7, OrderlyTake
<1> HIDE DEF p, t
<1>9. /\ y.stop = "no" => y \in Orderly(D, y.maps, k, {p}, u)
      /\ y.stop = "no" => TestVa \in DOMAIN y.maps
      /\ y.stop = "no" => SameBut(M, y.maps, TestVa, e)
  <2> DEFINE v == TestVa
             H == L \cup {p}
  <2> HIDE DEF v
  <2>1. v \in DOMAIN M => L = {M[v].frame} /\ M[v].frame \in High(k)
    BY <1>6 DEF v
  <2> QED
    BY <1>3, <1>8, <2>1, OrderlyInsert DEF v
<1>10. PICK cond : m' = Ensure(y, cond)
  BY <1>1, <1>7
<1> HIDE DEF y
<1>11. y.stop = "no"
  BY <1>10 DEF Ensure
<1>12. y \in Machines(D, y.maps, k)
  BY <1>9, <1>11 DEF Orderly
<1>13. m' \in Machines(D, y.maps, k) /\ m'.free = y.free /\ m'.pde = y.pde /\ m'.maps = y.maps
  <2> DEFINE N == y.maps
  <2>1. y \in Machines(D, N, k)
    BY <1>12
  <2> HIDE DEF N
  <2> DEFINE z == Ensure(y, cond)
  <2>2. z \in Machines(D, N, k) /\ z.free = y.free /\ z.pde = y.pde /\ z.maps = y.maps
    BY <2>1, EnsureSame
  <2> HIDE DEF z
  <2> QED
    BY <1>10, <2>2 DEF N, z
<1>14. m' \in Orderly(D, m'.maps, k, {p}, u)
  BY <1>9, <1>11, <1>13, OrderlySame
<1>15. TestPages' = {p}
  <2>1. TestVa \in DOMAIN m'.maps /\ MapsAt(m'.maps, TestVa) = e
    BY <1>5, <1>9, <1>11, <1>13 DEF SameBut
  <2>2. m'.maps[TestVa].frame = p
    BY <2>1 DEF MapsAt
  <2>3. TestVa' = TestVa
    BY DEF TestVa
  <2>4. TestPage' = p
    BY <2>1, <2>2, <2>3 DEF TestPage, FrameAt
  <2> QED
    BY <1>2, <2>4 DEF TestPages
<1>16. \A w \in Int : w # TestVa => MapsAt(m'.maps, w) = MapsAt(m.maps, w)
  BY <1>9, <1>11, <1>13 DEF SameBut, M
<1> QED
  BY <1>1, <1>2, <1>14, <1>15, <1>16, LaterInOrder DEF D, k, u

LEMMA TestEndInOrder ==
  ASSUME LoadInv, SetupInv, PhaseInv, InOrder, TestEnd, UNCHANGED vars, image' = image,
         m.stop = "no", m'.stop = "no"
  PROVE  InOrder'
<1> DEFINE D == DOMAIN m.refs
           k == ImageEnd
           u == PageOf(kernelPageDir)
           M == m.maps
           v == TestVa
           K == {M[v].frame}
           y == Removed(m, v)
<1>1. /\ stage = "testEnd" /\ stage' = "processors"
      /\ kernelPageDir' = kernelPageDir /\ tasks' = tasks /\ infos' = infos
      /\ \E cond : m' = Ensure(y, cond)
  BY DEF TestEnd
<1>2. stage \in Listed /\ Testing /\ ~Testing' /\ pc' = "search" /\ TestPages' = {}
  BY <1>1 DEF Listed, Testing, TestPages, PhaseInv, vars
<1>3. k \in Nat
  BY Allocated
<1>4. LowAbove(M, k) /\ v \in Int /\ v < UEnvsPdx * NPT /\ v \in DOMAIN M
  BY <1>1, Layout DEF SetupInv, OffImage
<1>5. M[v].frame \in High(k)
  BY <1>4 DEF LowAbove
<1>6. TestPages = K
  BY <1>2, <1>4 DEF TestPages, TestPage, FrameAt
<1>7. m \in Orderly(D, M, k, K, u)
  BY <1>2, <1>6 DEF InOrder
<1>8. M[v].frame \in K /\ K \ {M[v].frame} = {}
  OBVIOUS
<1> HIDE DEF D, k, u, M, v, K
<1>9. y \in Orderly(D, y.maps, k, {}, u) /\ SameBut(M, y.maps, v, Unmapped)
  <2> DEFINE H == K \ {M[v].frame}
  <2>1. y \in Orderly(D, y.maps, k, H, u) /\ SameBut(M, y.maps, v, Unmapped)
    BY <1>3, <1>5, <1>7, <1>8, OrderlyRemove
  <2>2. H = {}
    BY <1>8
  <2> HIDE DEF H
  <2> QED
    BY <2>1, <2>2
<1>10. PICK cond : m' = Ensure(y, cond)
  BY <1>1
<1> HIDE DEF y
<1>11. m' \in Machines(D, y.maps, k) /\ m'.free = y.free /\ m'.pde = y.pde /\ m'.maps = y.maps
  <2> DEFINE N == y.maps
  <2>1. y \in Machines(D, N, k)
    BY <1>9 DEF Orderly
  <2> HIDE DEF N
  <2> DEFINE z == Ensure(y, cond)
  <2>2. z \in Machines(D, N, k) /\ z.free = y.free /\ z.pde = y.pde /\ z.maps = y.maps
    BY <2>1, EnsureSame
  <2> HIDE DEF z
  <2> QED
    BY <1>10, <2>2 DEF N, z
<1>12. m' \in Orderly(D, m'.maps, k, {}, u)
  BY <1>9, <1>11, OrderlySame
<1>13. \A w \in Int : w # TestVa => MapsAt(m'.maps, w) = MapsAt(m.maps, w)
  BY <1>9, <1>11 DEF SameBut, M, v
<1>14. MapsAt(m'.maps, TestVa) = Unmapped
  BY <1>4, <1>9, <1>11 DEF SameBut, v
<1> QED
  BY <1>1, <1>2, <1>12, <1>13, <1>14, LaterInOrder DEF D, k, u

\* A step of the last two stages that leaves the memory alone.
LEMMA LastInOrder ==
  ASSUME InOrder, stage \in {"processors", "monitor"}, stage' \in {"processors", "monitor"},
         UNCHANGED setupVars, image' = image, lapicPhy' = lapicPhy, HasLapic' <=> HasLapic
  PROVE  InOrder'
<1>1. /\ m' = m /\ kernelPageDir' = kernelPageDir /\ tasks' = tasks /\ infos' = infos
  BY DEF setupVars
<1>2. /\ stage \in Listed /\ stage' \in Listed /\ stage' \notin Early \cup {"pages"}
      /\ ~Testing /\ ~Testing' /\ TestPages = {} /\ TestPages' = {}
  BY DEF Listed, Early, Testing, TestPages
<1>3. ImageEnd' = ImageEnd /\ PageOf(kernelPageDir)' = PageOf(kernelPageDir)
  BY <1>1 DEF ImageEnd, PageOf
<1>4. (m \in Orderly(DOMAIN m.refs, m.maps, ImageEnd, TestPages, PageOf(kernelPageDir)))'
  BY <1>1, <1>2, <1>3 DEF InOrder
<1>5. ASSUME NEW w \in Int PROVE MemoryLaid(w)' = MemoryLaid(w)
  BY <1>1 DEF MemoryLaid, StackLaid, InfosLaid, TasksLaid, PageOf
<1>6. ASSUME NEW w \in Int PROVE LapicLaid(w)' = LapicLaid(w)
  BY <1>5 DEF LapicLaid
<1>7. ASSUME NEW w \in Int PROVE MapsAt(m.maps, w)' = Laid(w)'
  <2>1. MapsAt(m.maps, w)' = MapsAt(m.maps, w)
    BY <1>1 DEF MapsAt
  <2>2. MapsAt(m.maps, w) = Laid(w)
    BY <1>2 DEF InOrder
  <2>3. Laid(w) = IF HasLapic THEN LapicLaid(w) ELSE MemoryLaid(w)
    BY LaidAt
  <2>4. Laid(w)' = IF HasLapic' THEN LapicLaid(w)' ELSE MemoryLaid(w)'
    BY DEF Laid
  <2> QED
    BY <1>5, <1>6, <2>1, <2>2, <2>3, <2>4
<1>8. PageOf(kernelPageDir)' \in Nat
  BY <1>2, <1>3 DEF InOrder
<1> QED
  BY <1>2, <1>4, <1>7, <1>8 DEF InOrder

LEMMA CountingInOrder ==
  ASSUME LoadInv, SetupInv, PhaseInv, InOrder, Counting, m.stop = "no", m'.stop = "no"
  PROVE  InOrder'
<1>1. /\ stage = "processors" /\ stage' = "processors" /\ image' = image /\ Next
      /\ kernelPageDir' = kernelPageDir /\ tasks' = tasks /\ infos' = infos
      /\ ram' = ram /\ totalMem' = totalMem /\ next' = next
  BY DEF Counting, loadVars
<1>2. table' = table /\ lapicPhy' = lapicPhy
  BY <1>1 DEF Next, Single, RefuseTable, TakeTable, AddProcessor, SkipEntry, Start, LapicInit
<1>3. CASE pc = "lapic" /\ lapicPhy # 0
  <2> DEFINE v == MmioPdx * NPT
             size == RoundUp(PgSize)
             perm == {"W", "PCD", "PWT"}
  <2>1. MmioMap(lapicPhy, PgSize)
    BY <1>3 DEF Counting
  <2>2. ~(m' = Ensure(m, FALSE))
    <3> SUFFICES ASSUME m' = Ensure(m, FALSE) PROVE FALSE
      OBVIOUS
    <3>1. m' = [m EXCEPT !.stop = "panic"]
      BY DEF Ensure
    <3> QED
      BY <3>1 DEF SetupInv, OffImage, Machines
  <2>3. m' = StaticMap(m, v, size, lapicPhy, perm)
    BY <1>3, <2>1, <2>2 DEF MmioMap, PhaseInv
  <2>4. v \in Nat /\ size \in Nat /\ size > 0
    <3>1. PgSize \in Nat /\ PgSize > 0
      BY Layout
    <3>2. size \in Nat /\ PgSize <= size
      BY <3>1, PagesAre
    <3> HIDE DEF size
    <3> QED
      BY <3>1, <3>2, Layout
  <2>5. ~HasLapic /\ HasLapic'
    <3>1. pc' = "done"
      BY <1>1, <1>3 DEF Next, Single, RefuseTable, TakeTable, AddProcessor, SkipEntry, Start, LapicInit
    <3>2. table # <<>>
      BY <1>3 DEF PhaseInv
    <3> QED
      BY <1>2, <1>3, <3>1, <3>2 DEF HasLapic
  <2>6. ASSUME NEW w \in Int PROVE MemoryLaid(w)' = MemoryLaid(w)
    BY <1>1 DEF MemoryLaid, StackLaid, InfosLaid, TasksLaid, PageOf
  <2>7. ASSUME NEW w \in Int PROVE Laid(w)' = Window(w, v, PagesIn(size), lapicPhy, perm, Laid(w))
    <3>1. Laid(w) = MemoryLaid(w)
      BY <1>1, <2>5, LaidAt
    <3>2. Laid(w)' = LapicLaid(w)'
      BY <1>1, <2>5 DEF Laid
    <3>3. LapicLaid(w)' = Window(w, v, PagesIn(size), lapicPhy, perm, MemoryLaid(w))
      BY <1>2, <2>6 DEF LapicLaid
    <3> QED
      BY <3>1, <3>2, <3>3
  <2>8. stage \in Listed /\ stage' \in Listed /\ ~Testing /\ ~Testing'
    BY <1>1 DEF Listed, Testing
  <2>9. m \in Orderly(DOMAIN m.refs, m.maps, ImageEnd, {}, PageOf(kernelPageDir))
    BY <2>8, Ordered
  <2> HIDE DEF v, size, perm
  <2> QED
    BY <1>1, <2>3, <2>4, <2>7, <2>8, <2>9, WindowInOrder
<1>4. CASE ~(pc = "lapic" /\ lapicPhy # 0)
  <2>1. m' = m /\ mmioNext' = mmioNext
    BY <1>4 DEF Counting
  <2>2. HasLapic' <=> HasLapic
    <3>1. \/ pc' # "done" /\ pc # "done"
          \/ pc' = "done" /\ pc # "done" /\ table = <<>>
          \/ pc' = "done" /\ pc = "lapic"
      BY <1>1 DEF Next, Single, RefuseTable, TakeTable, AddProcessor, SkipEntry, Start, LapicInit
    <3> QED
      BY <1>2, <1>4, <3>1 DEF HasLapic
  <2>3. UNCHANGED setupVars
    BY <1>1, <2>1 DEF setupVars
  <2> QED
    BY <1>1, <1>2, <2>2, <2>3, LastInOrder
<1> QED
  BY <1>3, <1>4

LEMMA LayoutInvNext == BootInv /\ LayoutInv /\ [BootNextStep]_bvars => LayoutInv'
<1> SUFFICES ASSUME LoadInv, SetupInv, PhaseInv, m.stop = "no" => InOrder, [BootNextStep]_bvars,
                    m'.stop = "no"
             PROVE  InOrder'
  BY PhaseInvNext DEF BootInv, LayoutInv
<1>1. CASE Loading
  <2>1. m' = m /\ stage \in Early /\ stage' \in Early
    BY <1>1 DEF Loading, LoadNext, ReadSector, NotElf, NextSegment, EnterKernel, ClearBss,
                SegmentRead, setupVars, Early
  <2> QED
    BY <2>1, EarlyKeeps
<1>2. CASE SettingUp
  <2>1. SetupNext /\ UNCHANGED vars /\ image' = image /\ m.stop = "no" /\ InOrder
    BY <1>2 DEF SettingUp, SetupNext, loadVars
  <2>2. CASE Detect
    <3>1. m' = m /\ stage \in Early /\ stage' \in Early
      BY <2>2 DEF Detect, Early
    <3> QED
      BY <2>1, <3>1, EarlyKeeps
  <2>3. CASE AllocDir
    BY <2>1, <2>3, DirInOrder
  <2>4. CASE InitPages
    BY <2>1, <2>4, ListInOrder
  <2>5. CASE AllocTasks
    BY <2>1, <2>5, TasksInOrder
  <2>6. CASE MapInfos \/ MapStack \/ MapMemory
    BY <2>1, <2>6, MapsInOrder
  <2>7. CASE LoadDir
    BY <2>1, <2>7, LoadInOrder
  <2>8. CASE TestFirst \/ TestSecond
    BY <2>1, <2>8, TestInOrder
  <2>9. CASE TestEnd
    BY <2>1, <2>9, TestEndInOrder
  <2> QED
    BY <2>1, <2>2, <2>3, <2>4, <2>5, <2>6, <2>7, <2>8, <2>9 DEF SetupNext
<1>3. CASE Counting
  <2>1. m.stop = "no"
    BY <1>3 DEF Counting
  <2> QED
    BY <1>3, <2>1, CountingInOrder
<1>4. CASE EnterMonitor
  <2>1. /\ UNCHANGED setupVars /\ image' = image /\ stage \in {"processors", "monitor"}
        /\ stage' \in {"processors", "monitor"} /\ m.stop = "no" /\ UNCHANGED vars
    BY <1>4 DEF EnterMonitor, loadVars
  <2>2. lapicPhy' = lapicPhy /\ (HasLapic' <=> HasLapic)
    BY <2>1 DEF vars, HasLapic
  <2> QED
    BY <2>1, <2>2, LastInOrder
<1>5. CASE UNCHANGED bvars
  <2>1. /\ image' = image /\ stage' = stage /\ m' = m /\ next' = next /\ kernelPageDir' = kernelPageDir
        /\ infos' = infos /\ tasks' = tasks /\ pc' = pc /\ table' = table /\ lapicPhy' = lapicPhy
    BY <1>5 DEF bvars, loadVars, setupVars, vars
  <2>2. InOrder
    BY <2>1
  <2>3. ASSUME NEW w \in Int PROVE MemoryLaid(w)' = MemoryLaid(w)
    BY <2>1 DEF MemoryLaid, StackLaid, InfosLaid, TasksLaid, PageOf
  <2>4. ASSUME NEW w \in Int PROVE Laid(w)' = Laid(w)
    BY <2>1, <2>3 DEF Laid, LapicLaid, MemoryLaid, StackLaid, InfosLaid, TasksLaid, HasLapic, PageOf
  <2>5. ImageEnd' = ImageEnd /\ TestPages' = TestPages /\ PageOf(kernelPageDir)' = PageOf(kernelPageDir)
        /\ Testing' = Testing /\ DirAlone' = DirAlone
    BY <2>1 DEF ImageEnd, TestPages, Testing, TestPage, FrameAt, TestVa, PageOf, DirAlone
  <2>6. \A w \in Int : MapsAt(m.maps, w)' = MapsAt(m.maps, w)
    BY <2>1 DEF MapsAt
  <2>7. ASSUME NEW w \in Int, ~(Testing' /\ w = TestVa) PROVE MapsAt(m.maps, w)' = Laid(w)'
    BY <2>2, <2>4, <2>5, <2>6, <2>7 DEF InOrder
  <2> QED
    BY <2>1, <2>2, <2>5, <2>7 DEF InOrder, TestVa
<1> QED
  BY <1>1, <1>2, <1>3, <1>4, <1>5 DEF BootNextStep

-----------------------------------------------------------------------------
\* The sizes of the windows, in pages.
LEMMA PagesQuotient ==
  ASSUME NEW a \in Nat
  PROVE  PagesIn(a) = (a + PgSize - 1) \div PgSize
<1> DEFINE d == (a + PgSize - 1) \div PgSize
<1>1. PgSize \in Nat /\ PgSize > 0
  BY Layout
<1>2. d \in Int
  BY <1>1, Quotient
<1>3. PagesIn(a) = (d * PgSize) \div PgSize
  BY DEF PagesIn, RoundUp
<1> HIDE DEF d
<1>4. d * PgSize \in Int
  BY <1>1, <1>2
<1>5. (d * PgSize) \div PgSize = d
  BY <1>1, <1>2, <1>4, QuotientIs
<1> QED
  BY <1>3, <1>5 DEF d

\* Whole pages, and one byte less.
LEMMA WholePages ==
  ASSUME NEW q \in Nat
  PROVE  /\ PagesIn(q * PgSize) = q
         /\ q > 0 => PagesIn(q * PgSize - 1) = q
<1> DEFINE a == q * PgSize
<1>1. PgSize \in Nat /\ PgSize > 1
  BY Layout
<1>2. a \in Nat /\ (q > 0 => a > 0)
  BY <1>1, Product
<1>3. a = q * PgSize
  OBVIOUS
<1> HIDE DEF a
<1>4. (a + PgSize - 1) \div PgSize = q
  <2> DEFINE b == a + PgSize - 1
  <2>1. b \in Int /\ q * PgSize <= b /\ b < q * PgSize + PgSize
    BY <1>1, <1>2, <1>3
  <2> HIDE DEF b
  <2>2. b \div PgSize = q
    BY <1>1, <2>1, QuotientIs
  <2> QED
    BY <2>2 DEF b
<1>5. ASSUME q > 0 PROVE (a - 1 + PgSize - 1) \div PgSize = q
  <2> DEFINE b == a - 1 + PgSize - 1
  <2>1. b \in Int /\ q * PgSize <= b /\ b < q * PgSize + PgSize
    BY <1>1, <1>2, <1>3
  <2> HIDE DEF b
  <2>2. b \div PgSize = q
    BY <1>1, <2>1, QuotientIs
  <2> QED
    BY <2>2 DEF b
<1>6. PagesIn(a) = q
  BY <1>2, <1>4, PagesQuotient
<1>7. ASSUME q > 0 PROVE PagesIn(a - 1) = q
  <2>1. a - 1 \in Nat
    BY <1>2, <1>7
  <2> QED
    BY <1>5, <1>7, <2>1, PagesQuotient
<1> QED
  BY <1>6, <1>7 DEF a

LEMMA Sizes ==
  /\ PagesIn(RoundUp(TasksSize)) = PagesIn(TasksSize)
  /\ PagesIn(TasksSize) \in 0..NPT
  /\ PagesIn(NPT * PgSize) = NPT
  /\ PagesIn(KStkPages * PgSize) = KStkPages
  /\ PagesIn((NPD - KernPdx) * NPT * PgSize - 1) = (NPD - KernPdx) * NPT
  /\ PagesIn(RoundUp(PgSize)) = 1
<1>1. /\ NPT \in Nat /\ NPT > 0 /\ PgSize \in Nat /\ PgSize > 1 /\ KStkPages \in Nat
      /\ TasksSize \in Nat /\ TasksSize <= NPT * PgSize /\ NPD \in Nat /\ KernPdx \in 0..NPD-1
  <2>1. KStkPages \in Nat \ {0} /\ TasksSize \in Nat \ {0}
    BY BootMemoryAssumption
  <2>2. KernPdx \in 0..NPD-1 /\ TasksSize <= NPT * PgSize
    BY BootMemoryAssumption
  <2> QED
    BY <2>1, <2>2, Layout
<1>2. ASSUME NEW a \in Nat PROVE PagesIn(RoundUp(a)) = PagesIn(a)
  BY PagesAre, WholePages
<1>3. PagesIn(TasksSize) \in 0..NPT
  <2> DEFINE a == NPT * PgSize
  <2>1. a \in Nat
    BY <1>1, Product
  <2>2. PagesIn(a) = NPT
    BY <1>1, WholePages
  <2>3. TasksSize <= a
    BY <1>1
  <2> HIDE DEF a
  <2>4. TasksSize + PgSize - 1 \in Int /\ a + PgSize - 1 \in Int
        /\ TasksSize + PgSize - 1 <= a + PgSize - 1
    BY <1>1, <2>1, <2>3
  <2>5. (TasksSize + PgSize - 1) \div PgSize <= (a + PgSize - 1) \div PgSize
    BY <1>1, <2>4, QuotientGrows
  <2>6. PagesIn(TasksSize) <= PagesIn(a)
    BY <1>1, <2>1, <2>5, PagesQuotient
  <2>7. PagesIn(TasksSize) \in Nat
    BY <1>1, PagesAre
  <2> QED
    BY <1>1, <2>2, <2>6, <2>7
<1>4. PagesIn(NPT * PgSize) = NPT /\ PagesIn(KStkPages * PgSize) = KStkPages
  BY <1>1, WholePages
<1>5. PagesIn((NPD - KernPdx) * NPT * PgSize - 1) = (NPD - KernPdx) * NPT
  <2> DEFINE d == NPD - KernPdx
             q == d * NPT
  <2>1. d \in Nat /\ d > 0
    BY <1>1
  <2> HIDE DEF d
  <2>2. q \in Nat /\ q > 0
    BY <1>1, <2>1, Product
  <2> HIDE DEF q
  <2>3. PagesIn(q * PgSize - 1) = q
    BY <2>2, WholePages
  <2> QED
    BY <2>3 DEF q, d
<1>6. PagesIn(RoundUp(PgSize)) = 1
  <2>1. PagesIn(RoundUp(PgSize)) = PagesIn(PgSize)
    BY <1>1, <1>2
  <2>2. 1 * PgSize = PgSize
    BY <1>1
  <2>3. PagesIn(1 * PgSize) = 1
    BY WholePages
  <2> QED
    BY <2>1, <2>2, <2>3
<1> QED
  BY <1>1, <1>2, <1>3, <1>4, <1>5, <1>6

\* Which addresses are in a part of the 4 MB of entry q.
LEMMA InPart ==
  ASSUME NEW v \in Int, NEW q \in Int, NEW low \in 0..NPT, NEW high \in 0..NPT
  PROVE  /\ v \in q * NPT + low .. q * NPT + high - 1
              <=> v \div NPT = q /\ low <= v % NPT /\ v % NPT < high
         /\ v \div NPT = q => v - q * NPT = v % NPT
<1> DEFINE d == v \div NPT
           k == v % NPT
           s == q * NPT
<1>1. NPT \in Nat /\ NPT > 0
  BY Layout
<1>2. d \in Int /\ k \in 0..NPT-1 /\ v = d * NPT + k
  BY <1>1, Quotient
<1>3. s \in Int /\ s = q * NPT
  BY <1>1
<1> HIDE DEF k, s
<1>4. v \in s + low .. s + high - 1 <=> s + low <= v /\ v < s + high
  BY <1>1, <1>3
<1>5. s <= v /\ v < s + NPT => d = q
  <2> HIDE DEF d
  <2> SUFFICES ASSUME s <= v, v < s + NPT PROVE d = q
    OBVIOUS
  <2>1. v \div NPT = q
    BY <1>1, <1>3, QuotientIs
  <2> QED
    BY <2>1 DEF d
<1> HIDE DEF d
<1>6. d = q => v = s + k
  BY <1>2, <1>3
<1>7. v \in s + low .. s + high - 1 => d = q
  BY <1>1, <1>3, <1>4, <1>5
<1>8. d = q => (v \in s + low .. s + high - 1 <=> low <= k /\ k < high) /\ v - s = k
  BY <1>1, <1>2, <1>3, <1>4, <1>6
<1> QED
  BY <1>7, <1>8 DEF d, k, s

\* The window that starts low pages into the 4 MB of entry q, and ends there.
LEMMA WindowIs ==
  ASSUME NEW v \in Int, NEW q \in Int, NEW low \in 0..NPT, NEW n \in 0..NPT, low + n <= NPT,
         NEW a, a = q * NPT + low, NEW frame, NEW perm, NEW else
  PROVE  Window(v, a, n, frame, perm, else)
           = IF v \div NPT = q /\ low <= v % NPT /\ v % NPT < low + n
             THEN [frame |-> frame + ((v % NPT) - low), perm |-> perm] ELSE else
<1> DEFINE d == v \div NPT
           k == v % NPT
           s == q * NPT
           high == low + n
<1>1. NPT \in Nat /\ NPT > 0
  BY Layout
<1>2. k \in Int /\ s \in Int /\ low \in Int /\ n \in Int
  BY <1>1, Quotient
<1>3. high \in 0..NPT
  BY <1>1
<1>4. v \in s + low .. s + high - 1 <=> d = q /\ low <= k /\ k < high
  BY <1>3, InPart
<1>5. d = q => v - s = k
  BY <1>3, InPart
<1> HIDE DEF d, k, s
<1>6. a = s + low /\ a + n - 1 = s + high - 1
  BY <1>1, <1>2 DEF s
<1> HIDE DEF high
<1>7. d = q => v - a = k - low
  BY <1>2, <1>5, <1>6
<1>8. v \in a .. a + n - 1 <=> d = q /\ low <= k /\ k < high
  BY <1>4, <1>6
<1>9. Window(v, a, n, frame, perm, else)
        = IF d = q /\ low <= k /\ k < high THEN [frame |-> frame + (k - low), perm |-> perm] ELSE else
  BY <1>7, <1>8 DEF Window
<1> QED
  BY <1>9 DEF d, k, high

\* The windows, as they lie in the entries of the directory.
LEMMA WindowsAre ==
  ASSUME LoadInv, lapicPhy \in Nat,
         NEW v \in 0..NPD*NPT-1
  PROVE  LET d == v \div NPT
             k == v % NPT
         IN /\ TasksLaid(v) = IF d = UEnvsPdx /\ k < PagesIn(TasksSize)
                              THEN [frame |-> PageOf(tasks) + k, perm |-> {"U"}] ELSE Unmapped
            /\ InfosLaid(v) = IF d = UPagesPdx
                              THEN [frame |-> PageOf(infos) + k, perm |-> {"U"}] ELSE TasksLaid(v)
            /\ StackLaid(v) = IF d = StackPdx /\ k >= NPT - KStkPages
                              THEN [frame |-> PageOf(image.stack) + k - (NPT - KStkPages), perm |-> {"W"}]
                              ELSE InfosLaid(v)
            /\ MemoryLaid(v) = IF d >= KernPdx
                               THEN [frame |-> v - KernPdx * NPT, perm |-> {"W"}] ELSE StackLaid(v)
            /\ LapicLaid(v) = IF d = MmioPdx /\ k = 0
                              THEN [frame |-> lapicPhy, perm |-> {"W", "PCD", "PWT"}] ELSE MemoryLaid(v)
<1> DEFINE d == v \div NPT
           k == v % NPT
<1>1. NPT \in Nat /\ NPT > 0 /\ NPD \in Nat /\ KernPdx * NPT \in Nat /\ PgSize \in Nat /\ PgSize > 0
  BY Layout
<1>2. KStkPages \in Nat /\ KStkPages <= NPT /\ KernPdx \in 0..NPD-1
  <2>1. KStkPages \in Nat \ {0} /\ KStkPages <= NPT
    BY BootMemoryAssumption
  <2>2. KernPdx \in 0..NPD-1
    BY BootMemoryAssumption
  <2> QED
    BY <2>1, <2>2
<1>3. /\ UEnvsPdx \in Int /\ UPagesPdx \in Int /\ MmioPdx \in Int /\ StackPdx \in Int
      /\ StackPdx = KernPdx - 1
  BY <1>2 DEF UEnvsPdx, UPagesPdx, MmioPdx, StackPdx
<1>4. NPD * NPT \in Int
  BY <1>1, Product
<1>5. v \in Int /\ v >= 0 /\ v < NPD * NPT
  BY <1>4
<1>6. d \in Int /\ k \in 0..NPT-1 /\ v = d * NPT + k
  BY <1>1, <1>5, Quotient
<1>7. PageOf(image.stack) \in Int
  <2>1. Linked(image)
    BY BootLoaderAssumption, Zenon DEF LoadInv
  <2>2. image.stack \in Int
    BY <2>1 DEF Linked
  <2> QED
    BY <1>1, <2>2, Quotient DEF PageOf
<1>8. 0 \in 0..NPT /\ NPT \in 0..NPT /\ 1 \in 0..NPT
  BY <1>1
<1>9. TasksLaid(v) = IF d = UEnvsPdx /\ k < PagesIn(TasksSize)
                     THEN [frame |-> PageOf(tasks) + k, perm |-> {"U"}] ELSE Unmapped
  <2> DEFINE n == PagesIn(TasksSize)
             f == PageOf(tasks)
             perm == {"U"}
             else == Unmapped
  <2>1. n \in 0..NPT /\ PagesIn(RoundUp(TasksSize)) = n
    BY Sizes
  <2>3. 0 + n <= NPT /\ n \in Int
    BY <1>1, <2>1
  <2>4. UEnvsPdx * NPT = UEnvsPdx * NPT + 0
    BY <1>1, <1>3
  <2>5. TasksLaid(v) = Window(v, UEnvsPdx * NPT, n, f, perm, else)
    BY <2>1 DEF TasksLaid
  <2> HIDE DEF n, f, perm, else
  <2>6. Window(v, UEnvsPdx * NPT, n, f, perm, else)
          = IF v \div NPT = UEnvsPdx /\ 0 <= v % NPT /\ v % NPT < 0 + n
            THEN [frame |-> f + ((v % NPT) - 0), perm |-> perm] ELSE else
    BY <1>3, <1>5, <1>8, <2>1, <2>3, <2>4, WindowIs
  <2> HIDE DEF d, k
  <2>7. k - 0 = k /\ 0 <= k /\ 0 + n = n
    BY <1>6, <2>3
  <2> QED
    BY <2>5, <2>6, <2>7 DEF d, k, n, f, perm, else
<1>10. InfosLaid(v) = IF d = UPagesPdx
                      THEN [frame |-> PageOf(infos) + k, perm |-> {"U"}] ELSE TasksLaid(v)
  <2> DEFINE f == PageOf(infos)
             perm == {"U"}
             else == TasksLaid(v)
             q == UPagesPdx
             a == UPagesPdx * NPT
             n == NPT
  <2>1. PagesIn(NPT * PgSize) = NPT
    BY Sizes
  <2>2. q \in Int /\ n \in 0..NPT /\ 0 \in 0..NPT
    BY <1>3, <1>8
  <2>3. 0 + n <= NPT
    BY <1>1
  <2>4. a = q * NPT + 0
    BY <1>1, <1>3
  <2>5. InfosLaid(v) = Window(v, a, n, f, perm, else)
    BY <2>1 DEF InfosLaid
  <2> HIDE DEF f, perm, else, q, a, n
  <2>6. Window(v, a, n, f, perm, else)
          = IF v \div NPT = q /\ 0 <= v % NPT /\ v % NPT < 0 + n
            THEN [frame |-> f + ((v % NPT) - 0), perm |-> perm] ELSE else
    BY <1>5, <2>2, <2>3, <2>4, WindowIs
  <2> HIDE DEF d, k
  <2>7. k - 0 = k /\ 0 <= k /\ k < 0 + n
    BY <1>1, <1>6, <2>2 DEF n
  <2> QED
    BY <2>5, <2>6, <2>7 DEF d, k, f, perm, else, q
<1>11. StackLaid(v) = IF d = StackPdx /\ k >= NPT - KStkPages
                      THEN [frame |-> PageOf(image.stack) + k - (NPT - KStkPages), perm |-> {"W"}]
                      ELSE InfosLaid(v)
  <2> DEFINE f == PageOf(image.stack)
             perm == {"W"}
             else == InfosLaid(v)
             low == NPT - KStkPages
             q == StackPdx
             n == KStkPages
             a == KernPdx * NPT - KStkPages
  <2>1. PagesIn(KStkPages * PgSize) = KStkPages
    BY Sizes
  <2>2. f \in Int /\ q \in Int
    BY <1>3, <1>7
  <2>3. low \in 0..NPT /\ n \in 0..NPT
    BY <1>1, <1>2
  <2>4. a = q * NPT + low
    <3>1. (KernPdx - 1) * NPT = KernPdx * NPT - NPT
      BY <1>1, <1>2
    <3> QED
      BY <1>1, <1>2, <1>3, <3>1
  <2>5. StackLaid(v) = Window(v, a, n, f, perm, else)
    BY <2>1 DEF StackLaid
  <2>6. low + n <= NPT
    BY <1>1, <1>2
  <2> HIDE DEF f, perm, else, low, a, q, n
  <2>7. Window(v, a, n, f, perm, else)
          = IF v \div NPT = q /\ low <= v % NPT /\ v % NPT < low + n
            THEN [frame |-> f + ((v % NPT) - low), perm |-> perm] ELSE else
    BY <1>5, <2>2, <2>3, <2>4, <2>6, WindowIs
  <2> HIDE DEF d, k
  <2>8. (low <= k <=> k >= low) /\ k < low + n /\ f + (k - low) = f + k - low
    BY <1>1, <1>2, <1>6, <2>2 DEF low, n
  <2>9. Window(v, a, n, f, perm, else)
          = IF d = q /\ k >= low
            THEN [frame |-> f + k - low, perm |-> perm] ELSE else
    BY <2>7, <2>8 DEF d, k
  <2> QED
    BY <2>5, <2>9 DEF f, perm, else, low, q
<1>12. MemoryLaid(v) = IF d >= KernPdx
                       THEN [frame |-> v - KernPdx * NPT, perm |-> {"W"}] ELSE StackLaid(v)
  <2> DEFINE a == KernPdx * NPT
             n == (NPD - KernPdx) * NPT
             else == StackLaid(v)
  <2>1. MemoryLaid(v) = Window(v, a, n, 0, {"W"}, else)
    BY Sizes DEF MemoryLaid
  <2>2. a + n = NPD * NPT
    BY <1>1, <1>2
  <2>3. a \in Nat /\ n \in Int
    BY <1>1, <1>2
  <2> HIDE DEF d, k
  <2>4. a <= v <=> d >= KernPdx
    <3>1. d < KernPdx => d * NPT + NPT <= KernPdx * NPT
      BY <1>1, <1>2, <1>6, Apart
    <3>2. d > KernPdx => KernPdx * NPT + NPT <= d * NPT
      BY <1>1, <1>2, <1>6, Apart
    <3>3. d * NPT \in Int /\ k \in Int /\ k >= 0 /\ k < NPT
      BY <1>1, <1>6
    <3>4. d = KernPdx => a = d * NPT
      OBVIOUS
    <3> HIDE DEF a
    <3>5. d < KernPdx => v < a
      BY <1>1, <1>6, <2>3, <3>1, <3>3 DEF a
    <3>6. d > KernPdx => a <= v
      BY <1>1, <1>6, <2>3, <3>2, <3>3 DEF a
    <3>7. d = KernPdx => a <= v
      BY <1>6, <3>3, <3>4
    <3> QED
      BY <1>2, <1>5, <1>6, <2>3, <3>5, <3>6, <3>7
  <2> HIDE DEF a, n, else
  <2>5. v \in a .. a + n - 1 <=> a <= v
    BY <1>4, <1>5, <2>2, <2>3
  <2>6. 0 + (v - a) = v - a
    BY <1>5, <2>3
  <2>7. Window(v, a, n, 0, {"W"}, else)
          = IF d >= KernPdx THEN [frame |-> v - a, perm |-> {"W"}] ELSE else
    BY <2>4, <2>5, <2>6 DEF Window
  <2> QED
    BY <2>1, <2>7 DEF a, else
<1>13. LapicLaid(v) = IF d = MmioPdx /\ k = 0
                      THEN [frame |-> lapicPhy, perm |-> {"W", "PCD", "PWT"}] ELSE MemoryLaid(v)
  <2> DEFINE perm == {"W", "PCD", "PWT"}
             else == MemoryLaid(v)
             q == MmioPdx
             a == MmioPdx * NPT
             n == 1
  <2>1. PagesIn(RoundUp(PgSize)) = 1
    BY Sizes
  <2>2. q \in Int /\ n \in 0..NPT /\ 0 \in 0..NPT
    BY <1>3, <1>8
  <2>3. 0 + n <= NPT
    BY <1>1
  <2>4. a = q * NPT + 0
    BY <1>1, <1>3
  <2>5. LapicLaid(v) = Window(v, a, n, lapicPhy, perm, else)
    BY <2>1 DEF LapicLaid
  <2> HIDE DEF perm, else, q, a, n
  <2>6. Window(v, a, n, lapicPhy, perm, else)
          = IF v \div NPT = q /\ 0 <= v % NPT /\ v % NPT < 0 + n
            THEN [frame |-> lapicPhy + ((v % NPT) - 0), perm |-> perm] ELSE else
    BY <1>5, <2>2, <2>3, <2>4, WindowIs
  <2> HIDE DEF d, k
  <2>7. (k < 0 + n <=> k = 0) /\ 0 <= k /\ (k = 0 => lapicPhy + (k - 0) = lapicPhy)
    BY <1>6 DEF n
  <2>8. LapicLaid(v) = IF d = q /\ k = 0 THEN [frame |-> lapicPhy, perm |-> perm] ELSE else
    BY <2>5, <2>6, <2>7 DEF d, k
  <2> QED
    BY <2>8 DEF perm, else, q
<1> QED
  BY <1>9, <1>10, <1>11, <1>12, <1>13

\* Once the processors are found, what is mapped is what memlayout.h draws: no two
\* windows share an address.
LEMMA LaidAsDrawn ==
  ASSUME LoadInv, lapicPhy \in Nat, pc = "done",
         NEW v \in 0..NPD*NPT-1
  PROVE  (IF HasLapic THEN LapicLaid(v) ELSE MemoryLaid(v)) = Drawn(v)
<1> DEFINE d == v \div NPT
           k == v % NPT
           n == PagesIn(TasksSize)
           lastK == NPT - KStkPages
           laid == IF HasLapic THEN LapicLaid(v) ELSE MemoryLaid(v)
           rTasks == [frame |-> PageOf(tasks) + k, perm |-> {"U"}]
           rInfos == [frame |-> PageOf(infos) + k, perm |-> {"U"}]
           rLapic == [frame |-> lapicPhy, perm |-> {"W", "PCD", "PWT"}]
           rStack == [frame |-> PageOf(image.stack) + k - lastK, perm |-> {"W"}]
           rMemory == [frame |-> v - KernPdx * NPT, perm |-> {"W"}]
<1> SUFFICES laid = Drawn(v)
  BY DEF laid
<1>1. /\ TasksLaid(v) = IF d = UEnvsPdx /\ k < n THEN rTasks ELSE Unmapped
      /\ InfosLaid(v) = IF d = UPagesPdx THEN rInfos ELSE TasksLaid(v)
      /\ StackLaid(v) = IF d = StackPdx /\ k >= lastK THEN rStack ELSE InfosLaid(v)
      /\ MemoryLaid(v) = IF d >= KernPdx THEN rMemory ELSE StackLaid(v)
      /\ LapicLaid(v) = IF d = MmioPdx /\ k = 0 THEN rLapic ELSE MemoryLaid(v)
  BY WindowsAre
<1>2. Drawn(v) = CASE d = UEnvsPdx /\ k < n -> rTasks
                   [] d = UPagesPdx -> rInfos
                   [] d = MmioPdx /\ k = 0 /\ lapicPhy # 0 /\ table # <<>> -> rLapic
                   [] d = StackPdx /\ k >= lastK -> rStack
                   [] d >= KernPdx -> rMemory
                   [] OTHER -> Unmapped
  BY DEF Drawn, Unmapped
<1>3. HasLapic <=> lapicPhy # 0 /\ table # <<>>
  BY DEF HasLapic
<1>4. KernPdx \in Int /\ d \in Int
  <2>1. KernPdx \in 0..NPD-1 /\ NPD \in Nat
    BY BootMemoryAssumption
  <2>2. NPT \in Nat /\ NPT > 0 /\ NPD * NPT \in Int
    BY Layout, Product
  <2> QED
    BY <2>1, <2>2, Quotient
<1> HIDE DEF d, k, n, lastK, laid, rTasks, rInfos, rLapic, rStack, rMemory
<1>5. /\ d = UEnvsPdx => ~(d = UPagesPdx) /\ ~(d = MmioPdx) /\ ~(d = StackPdx) /\ ~(d >= KernPdx)
      /\ d = UPagesPdx => ~(d = MmioPdx) /\ ~(d = StackPdx) /\ ~(d >= KernPdx)
      /\ d = MmioPdx => ~(d = StackPdx) /\ ~(d >= KernPdx)
      /\ d = StackPdx => ~(d >= KernPdx)
  BY <1>4 DEF UEnvsPdx, UPagesPdx, MmioPdx, StackPdx
<1>6. laid = IF lapicPhy # 0 /\ table # <<>> THEN LapicLaid(v) ELSE MemoryLaid(v)
  BY <1>3 DEF laid
<1>7. CASE d = UEnvsPdx
  <2>1. laid = TasksLaid(v)
    BY <1>1, <1>5, <1>6, <1>7
  <2>2. Drawn(v) = CASE k < n -> rTasks [] OTHER -> Unmapped
    BY <1>2, <1>5, <1>7
  <2> QED
    BY <1>1, <1>7, <2>1, <2>2
<1>8. CASE d = UPagesPdx
  <2>1. laid = rInfos
    BY <1>1, <1>5, <1>6, <1>8
  <2>2. Drawn(v) = rInfos
    BY <1>2, <1>5, <1>8
  <2> QED
    BY <2>1, <2>2
<1>9. CASE d = MmioPdx
  <2>1. laid = IF lapicPhy # 0 /\ table # <<>> /\ k = 0 THEN rLapic ELSE Unmapped
    BY <1>1, <1>5, <1>6, <1>9
  <2>2. Drawn(v) = CASE k = 0 /\ lapicPhy # 0 /\ table # <<>> -> rLapic [] OTHER -> Unmapped
    BY <1>2, <1>5, <1>9
  <2> QED
    BY <2>1, <2>2
<1>10. CASE d = StackPdx
  <2>1. laid = IF k >= lastK THEN rStack ELSE Unmapped
    BY <1>1, <1>5, <1>6, <1>10
  <2>2. Drawn(v) = CASE k >= lastK -> rStack [] OTHER -> Unmapped
    BY <1>2, <1>5, <1>10
  <2> QED
    BY <2>1, <2>2
<1>11. CASE d >= KernPdx
  <2>1. laid = rMemory
    BY <1>1, <1>5, <1>6, <1>11
  <2>2. Drawn(v) = rMemory
    BY <1>2, <1>5, <1>11
  <2> QED
    BY <2>1, <2>2
<1>12. CASE ~(d = UEnvsPdx) /\ ~(d = UPagesPdx) /\ ~(d = MmioPdx) /\ ~(d = StackPdx) /\ ~(d >= KernPdx)
  <2>1. laid = Unmapped
    BY <1>1, <1>6, <1>12
  <2>2. Drawn(v) = Unmapped
    BY <1>2, <1>12
  <2> QED
    BY <2>1, <2>2
<1> QED
  BY <1>7, <1>8, <1>9, <1>10, <1>11, <1>12

LEMMA LayoutHolds == BootInv /\ LayoutInv => LayoutAsDrawn
<1> SUFFICES ASSUME BootInv, LayoutInv, stage = "monitor" PROVE
      /\ \A v \in 0..NPD*NPT-1 : MapsAt(m.maps, v) = Drawn(v)
      /\ m.pde[UvptPdx] = PageOf(kernelPageDir)
      /\ \A d, e \in 0..NPD-1 : d # e /\ m.pde[d] # NoFrame => m.pde[d] # m.pde[e]
  BY DEF LayoutAsDrawn, MapsAt, Unmapped
<1>1. InOrder /\ pc = "done" /\ lapicPhy \in Nat
  BY DEF LayoutInv, PhaseInv
<1>2. ~Testing /\ stage \in Listed
  BY DEF Testing, Listed
<1>3. m \in Orderly(DOMAIN m.refs, m.maps, ImageEnd, TestPages, PageOf(kernelPageDir))
  BY <1>1, <1>2 DEF InOrder
<1>4. Separate(m.free, m.pde, TestPages) /\ m.pde[UvptPdx] = PageOf(kernelPageDir)
  BY <1>3 DEF Orderly
<1>5. ASSUME NEW v \in 0..NPD*NPT-1 PROVE MapsAt(m.maps, v) = Drawn(v)
  <2>1. v \in Int
    <3>1. NPD * NPT \in Int
      BY Layout, Product
    <3> QED
      BY <3>1
  <2>2. MapsAt(m.maps, v) = Laid(v)
    BY <1>1, <1>2, <2>1 DEF InOrder
  <2>3. Laid(v) = IF HasLapic THEN LapicLaid(v) ELSE MemoryLaid(v)
    BY LaidAt
  <2>4. (IF HasLapic THEN LapicLaid(v) ELSE MemoryLaid(v)) = Drawn(v)
    BY <1>1, LaidAsDrawn DEF BootInv
  <2> QED
    BY <2>2, <2>3, <2>4
<1> QED
  BY <1>4, <1>5 DEF Separate, Pdes

\* At the prompt the address space is the one that memlayout.h draws, page by page,
\* whatever image was loaded, however much memory there is and whatever processors
\* were found: the calls of staticMap and the self test's insert and remove leave the
\* windows whole, each under tables that nothing else uses.
THEOREM LayoutCorrect == BootSpec => []LayoutAsDrawn
<1>1. BootInit => BootInv /\ LayoutInv
  BY BootInvInit, LayoutInvInit
<1>2. BootInv /\ LayoutInv /\ [BootNextStep]_bvars => (BootInv /\ LayoutInv)'
  BY BootInvNext, LayoutInvNext
<1> QED
  BY <1>1, <1>2, LayoutHolds, PTL DEF BootSpec

-----------------------------------------------------------------------------
(***************************************************************************)
(* The free list.  No page is lost: those on the list, the tables and the   *)
(* pages L, which are on neither, are P throughout; and those on the list   *)
(* are counted as free.                                                     *)
(***************************************************************************)
TableSet(t) == {t[d] : d \in Pdes} \ {NoFrame}

Stocked(x, L, P) ==
    /\ ToSet(x.free) \cup TableSet(x.pde) \cup L = P
    /\ \A p \in ToSet(x.free) : p \in DOMAIN x.refs => x.refs[p] = 0

LEMMA ListSet ==
  ASSUME NEW f \in Seq(Int), NEW p
  PROVE  p \in ToSet(f) <=> \E j \in 1..Len(f) : f[j] = p
BY DEF ToSet

LEMMA TakeSet ==
  ASSUME NEW f \in Seq(Int), f # <<>>
  PROVE  ToSet(f) = {Head(f)} \cup ToSet(Tail(f))
<1> DEFINE g == Tail(f)
           n == Len(f)
<1>1. n \in Nat /\ n > 0 /\ g \in Seq(Int) /\ Len(g) = n - 1 /\ Head(f) = f[1]
      /\ \A s \in 1..n-1 : g[s] = f[s + 1]
  <2>1. n \in Nat /\ n # 0
    BY EmptySeq, LenProperties
  <2> QED
    BY <2>1, HeadTailProperties
<1> HIDE DEF g
<1>2. ASSUME NEW p \in ToSet(f) PROVE p = Head(f) \/ p \in ToSet(g)
  <2>1. PICK j \in 1..n : f[j] = p
    BY ListSet
  <2> HIDE DEF n
  <2>2. CASE j = 1
    BY <1>1, <2>1, <2>2
  <2>3. CASE j # 1
    <3>1. j - 1 \in 1..n-1 /\ (j - 1) + 1 = j
      BY <1>1, <2>3
    <3>2. g[j - 1] = p
      BY <1>1, <2>1, <3>1
    <3> QED
      BY <1>1, <3>1, <3>2, ListSet
  <2> QED
    BY <2>2, <2>3
<1>3. ASSUME NEW p \in ToSet(g) PROVE p \in ToSet(f)
  <2>1. PICK j \in 1..n-1 : g[j] = p
    BY <1>1, ListSet
  <2>2. f[j + 1] = p
    BY <1>1, <2>1
  <2>3. j + 1 \in 1..n
    <3> HIDE DEF n
    <3> QED
      BY <1>1
  <2> QED
    BY <2>2, <2>3, ListSet
<1>4. Head(f) \in ToSet(f)
  <2>1. 1 \in 1..n
    BY <1>1
  <2> QED
    BY <1>1, <2>1, ListSet
<1> QED
  BY <1>2, <1>3, <1>4 DEF g

LEMMA GiveSet ==
  ASSUME NEW f \in Seq(Int), NEW p \in Int
  PROVE  ToSet(<<p>> \o f) = {p} \cup ToSet(f)
<1> DEFINE n == Len(f)
           g == <<p>> \o f
<1>1. n \in Nat /\ g \in Seq(Int) /\ Len(g) = n + 1
      /\ \A s \in 1..n+1 : g[s] = IF s = 1 THEN p ELSE f[s - 1]
  <2>1. Len(<<p>>) = 1 /\ <<p>>[1] = p /\ <<p>> \in Seq(Int)
    OBVIOUS
  <2> QED
    BY <2>1, ConcatProperties
<1> HIDE DEF g
<1>2. ASSUME NEW q \in ToSet(g) PROVE q = p \/ q \in ToSet(f)
  <2>1. PICK j \in 1..n+1 : g[j] = q
    BY <1>1, ListSet
  <2>2. CASE j = 1
    BY <1>1, <2>1, <2>2
  <2>3. CASE j # 1
    <3>1. j - 1 \in 1..n /\ f[j - 1] = q
      BY <1>1, <2>1, <2>3
    <3> QED
      BY <3>1, ListSet
  <2> QED
    BY <2>2, <2>3
<1>3. ASSUME NEW q \in ToSet(f) PROVE q \in ToSet(g)
  <2>1. PICK j \in 1..n : f[j] = q
    BY ListSet
  <2>2. j + 1 \in 1..n+1 /\ j + 1 # 1 /\ (j + 1) - 1 = j
    BY <1>1
  <2>3. g[j + 1] = q
    BY <1>1, <2>1, <2>2
  <2> QED
    BY <1>1, <2>2, <2>3, ListSet
<1>4. p \in ToSet(g)
  <2>1. 1 \in 1..n+1
    BY <1>1
  <2>2. g[1] = p
    BY <1>1, <2>1
  <2> QED
    BY <1>1, <2>1, <2>2, ListSet
<1> QED
  BY <1>2, <1>3, <1>4 DEF g

LEMMA ApartSets ==
  ASSUME NEW f \in Seq(Int), NEW t, NEW L, Separate(f, t, L)
  PROVE  ToSet(f) \cap L = {} /\ ToSet(f) \cap TableSet(t) = {}
<1>1. ASSUME NEW p \in ToSet(f) PROVE p \notin L /\ p \notin TableSet(t)
  <2>1. PICK j \in 1..Len(f) : f[j] = p
    BY ListSet
  <2> QED
    BY <2>1 DEF Separate, TableSet
<1> QED
  BY <1>1

LEMMA StockSame ==
  ASSUME NEW L, NEW P, NEW x, NEW y, Stocked(x, L, P), y.free = x.free, y.pde = x.pde, y.refs = x.refs
  PROVE  Stocked(y, L, P)
BY DEF Stocked

LEMMA ListOf ==
  ASSUME NEW D, NEW M, NEW k, NEW x \in Machines(D, M, k)
  PROVE  x.free \in Seq(Int)
<1>1. x.free \in Seq(High(k)) /\ High(k) \subseteq Int
  BY Fields DEF High
<1> QED
  BY <1>1

LEMMA StockTake ==
  ASSUME NEW D, NEW M, NEW k \in Nat, NEW L, NEW u, NEW P, NEW x \in Orderly(D, M, k, L, u),
         x.free # <<>>, Stocked(x, L, P)
  PROVE  Stocked(TakePage(x), L \cup {Head(x.free)}, P)
<1> DEFINE p == Head(x.free)
           z == [x EXCEPT !.free = Tail(@)]
           e == Ensure(z, p < NPages)
           t == TakePage(x)
<1>1. x \in Machines(D, M, k)
  BY DEF Orderly
<1>2. x.free \in Seq(High(k)) /\ x.free \in Seq(Int)
  BY <1>1, Fields, ListOf
<1>3. p \in High(k) /\ Tail(x.free) \in Seq(High(k))
  BY <1>2, HeadTailProperties
<1>4. ToSet(x.free) = {p} \cup ToSet(Tail(x.free))
  BY <1>2, TakeSet
<1>5. z \in Machines(D, M, k) /\ z.free = Tail(x.free) /\ z.pde = x.pde /\ z.refs = x.refs
  BY <1>1, <1>3 DEF Machines
<1>6. t = Touch(e, {p})
  BY DEF TakePage
<1> HIDE DEF z, p, t
<1>7. Stocked(z, L \cup {p}, P)
  BY <1>4, <1>5 DEF Stocked
<1>8. e \in Machines(D, M, k) /\ e.free = z.free /\ e.pde = z.pde /\ e.refs = z.refs
  BY <1>5, EnsureSame
<1> HIDE DEF e
<1>9. {p} \subseteq High(k)
  BY <1>3
<1>10. t.free = e.free /\ t.pde = e.pde /\ t.refs = e.refs
  BY <1>6, <1>8, <1>9, TouchSame
<1>11. Stocked(t, L \cup {p}, P)
  BY <1>7, <1>8, <1>10, StockSame
<1> QED
  BY <1>11 DEF t, p

\* A page that becomes a table stays among the pages.
LEMMA StockTable ==
  ASSUME NEW D, NEW M, NEW k \in Nat, NEW L, NEW u, u # NoFrame, NEW P,
         NEW x \in Orderly(D, M, k, L, u), x.stop = "no" => Stocked(x, L, P), NEW d \in Pdes
  PROVE  WithTable(x, d).stop = "no" => Stocked(WithTable(x, d), L, P)
<1> DEFINE y == WithTable(x, d)
<1>1. x \in Machines(D, M, k)
  BY DEF Orderly
<1>2. CASE x.stop # "no" \/ x.pde[d] # NoFrame
  BY <1>2 DEF WithTable
<1>3. CASE ~(x.stop # "no" \/ x.pde[d] # NoFrame) /\ x.free = <<>>
  <2>1. y = [x EXCEPT !.stop = "fault"]
    BY <1>3 DEF WithTable
  <2>2. y.stop # "no"
    BY <1>1, <2>1 DEF Machines
  <2> QED
    BY <2>2
<1>4. CASE ~(x.stop # "no" \/ x.pde[d] # NoFrame) /\ x.free # <<>>
  <2> DEFINE p == Head(x.free)
             t == TakePage(x)
  <2>1. p \in High(k) /\ t \in Orderly(D, M, k, L \cup {p}, u) /\ t.pde = x.pde /\ p \notin L
    BY <1>4, OrderlyTake
  <2>2. Stocked(t, L \cup {p}, P)
    BY <1>4, StockTake
  <2>3. y = IF t.stop # "no" THEN t ELSE [t EXCEPT !.refs[p] = @ + 1, !.pde[d] = p]
    BY <1>4 DEF WithTable
  <2>4. p # NoFrame
    BY <2>1 DEF High, NoFrame
  <2> HIDE DEF p, t, y
  <2>5. t \in Machines(D, M, k) /\ Separate(t.free, t.pde, L \cup {p})
    BY <2>1 DEF Orderly
  <2>6. t.pde \in [Pdes -> Int] /\ t.refs \in [D -> Int] /\ t.free \in Seq(Int)
    BY <2>5, Fields, ListOf DEF Pdes
  <2>7. CASE t.stop # "no"
    BY <2>3, <2>7 DEF y
  <2>8. CASE ~(t.stop # "no")
    <3> DEFINE e == [t.pde EXCEPT ![d] = p]
               f == [t.refs EXCEPT ![p] = @ + 1]
    <3>1. y.free = t.free /\ y.pde = e /\ y.refs = f
      BY <2>3, <2>5, <2>8 DEF Machines
    <3>2. TableSet(e) = TableSet(t.pde) \cup {p}
      <4>1. t.pde[d] = NoFrame
        BY <1>4, <2>1
      <4>2. \A j \in Pdes : e[j] = IF j = d THEN p ELSE t.pde[j]
        BY <2>6
      <4> HIDE DEF e
      <4> QED
        BY <2>4, <4>1, <4>2 DEF TableSet
    <3>3. ToSet(t.free) \cap (L \cup {p}) = {}
      BY <2>5, <2>6, ApartSets
    <3>4. \A q \in ToSet(t.free) : q \in DOMAIN f => f[q] = 0
      <4> TAKE q \in ToSet(t.free)
      <4>1. q # p
        BY <3>3
      <4>2. DOMAIN f = DOMAIN t.refs /\ (q \in DOMAIN t.refs => f[q] = t.refs[q])
        BY <2>6, <4>1
      <4> QED
        BY <2>2, <4>2 DEF Stocked
    <3> HIDE DEF e, f
    <3>5. ToSet(t.free) \cup TableSet(e) \cup L = P
      BY <2>2, <3>2 DEF Stocked
    <3>6. Stocked(y, L, P)
      BY <3>1, <3>4, <3>5 DEF Stocked
    <3> QED
      BY <3>6 DEF y
  <2> QED
    BY <2>7, <2>8
<1> QED
  BY <1>2, <1>3, <1>4

LEMMA InDirectory ==
  ASSUME NEW a \in Int, 0 <= a, a < NPD * NPT
  PROVE  a \div NPT \in Pdes
<1> DEFINE d == a \div NPT
           r == a % NPT
<1>1. NPT \in Nat /\ NPT > 0 /\ NPD \in Nat
  BY Layout
<1>2. d \in Int /\ r \in 0..NPT-1 /\ a = d * NPT + r
  BY <1>1, Quotient
<1> HIDE DEF d, r
<1>3. d * NPT \in Int /\ NPD * NPT \in Int /\ 0 * NPT = 0
  BY <1>1, <1>2
<1>4. d < 0 => d * NPT + NPT <= 0 * NPT
  BY <1>1, <1>2, Apart
<1>5. d > NPD => NPD * NPT + NPT <= d * NPT
  BY <1>1, <1>2, Apart
<1>6. d = NPD => d * NPT = NPD * NPT
  OBVIOUS
<1>7. r >= 0 /\ r < NPT /\ r \in Int
  BY <1>1, <1>2
<1>8. ~(d < 0)
  BY <1>1, <1>2, <1>3, <1>4, <1>7
<1>9. ~(d > NPD) /\ d # NPD
  BY <1>1, <1>2, <1>3, <1>5, <1>6, <1>7
<1> QED
  BY <1>1, <1>2, <1>8, <1>9 DEF Pdes, d

\* The tables that a map needs come from the pages.
LEMMA StockMap ==
  ASSUME NEW D, NEW M, NEW k \in Nat, NEW L, NEW u, u # NoFrame, NEW P,
         NEW x \in Orderly(D, M, k, L, u), x.stop = "no" => Stocked(x, L, P),
         NEW v \in Nat, NEW size \in Nat, size > 0, NEW frame, NEW perm,
         v + PagesIn(size) <= NPD * NPT
  PROVE  LET y == StaticMap(x, v, size, frame, perm)
         IN y.stop = "no" => Stocked(y, L, P)
<1> DEFINE n == PagesIn(size)
           first == v \div NPT
           last == (v + n - 1) \div NPT
           t == WithTables(x, first, last)[last]
           f == [w \in v..v+n-1 |-> [frame |-> frame + (w - v), perm |-> perm]]
           y == StaticMap(x, v, size, frame, perm)
           S == {z \in Orderly(D, M, k, L, u) : z.stop = "no" => Stocked(z, L, P)}
<1>1. n \in Nat /\ n > 0 /\ NPT \in Nat /\ NPT > 0 /\ NPD * NPT \in Int /\ v + n <= NPD * NPT
  <2>1. NPD * NPT \in Int
    BY Layout, Product
  <2> QED
    BY <2>1, PagesAre, Layout
<1>2. first \in Int /\ last \in Int /\ first <= last /\ first \in Pdes /\ last \in Pdes
  <2> DEFINE e == v + n - 1
             top == NPD * NPT
  <2>1. e \in Int /\ v <= e /\ 0 <= e /\ e < top /\ v < top
    <3> HIDE DEF n, top
    <3> QED
      BY <1>1 DEF top
  <2> HIDE DEF e, n
  <2>2. v \div NPT <= e \div NPT /\ v \div NPT \in Int /\ e \div NPT \in Int
    BY <1>1, <2>1, Quotient, QuotientGrows
  <2>3. v \div NPT \in Pdes /\ e \div NPT \in Pdes
    BY <2>1, InDirectory
  <2> QED
    BY <2>2, <2>3 DEF e, n
<1>3. y = IF t.stop # "no" THEN t ELSE [t EXCEPT !.maps = Entered(f, @)]
  BY DEF StaticMap, WithTables
<1> HIDE DEF first, last
<1>4. \A z \in S : \A d \in Pdes : WithTable(z, d) \in S
  <2> TAKE z \in S
  <2> TAKE d \in Pdes
  <2>1. WithTable(z, d) \in Orderly(D, M, k, L, u)
    BY OrderlyTable
  <2>2. WithTable(z, d).stop = "no" => Stocked(WithTable(z, d), L, P)
    BY StockTable
  <2> QED
    BY <2>1, <2>2
<1>5. x \in S
  OBVIOUS
<1> HIDE DEF S
<1>6. \A d \in first+1..last : d \in Pdes
  <2>1. NPD \in Int
    BY Layout
  <2> QED
    BY <1>2, <2>1 DEF Pdes
<1>7. t \in S
  BY <1>2, <1>4, <1>5, <1>6, TablesIn
<1> HIDE DEF t, f, n, y
<1>8. t \in Machines(D, M, k) /\ (t.stop = "no" => Stocked(t, L, P))
  BY <1>7 DEF Orderly, S
<1>9. y.stop = "no" => Stocked(y, L, P)
  <2> SUFFICES ASSUME y.stop = "no" PROVE Stocked(y, L, P)
    OBVIOUS
  <2>1. t.stop = "no"
    BY <1>3
  <2>2. y = [t EXCEPT !.maps = Entered(f, @)]
    BY <1>3, <2>1
  <2>3. y.free = t.free /\ y.pde = t.pde /\ y.refs = t.refs
    BY <1>8, <2>2 DEF Machines
  <2> QED
    BY <1>8, <2>1, <2>3, StockSame
<1> QED
  BY <1>9 DEF y

\* A page that is mapped no more comes back to the list if it is used no more.
LEMMA StockRemove ==
  ASSUME NEW D, NEW M, NEW k \in Nat, NEW K, NEW u, NEW P, NEW v,
         M[v].frame \in High(k), M[v].frame \in K,
         NEW x \in Orderly(D, M, k, K, u), Stocked(x, K, P),
         Removed(x, v).refs[M[v].frame] = 0
  PROVE  Stocked(Removed(x, v), K \ {M[v].frame}, P)
<1> DEFINE p == M[v].frame
           r == [x.refs EXCEPT ![p] = @ - 1]
           N == [w \in DOMAIN M \ {v} |-> M[w]]
           z == [x EXCEPT !.refs = r, !.maps = N]
           g == <<p>> \o x.free
           y == Removed(x, v)
<1>1. x \in Machines(D, M, k) /\ Separate(x.free, x.pde, K) /\ p \in Int
  BY DEF Orderly, High
<1>2. x.maps = M /\ x.refs \in [D -> Int] /\ x.free \in Seq(Int)
  BY <1>1, Fields, ListOf
<1>3. y = IF z.refs[p] = 0 THEN [z EXCEPT !.free = <<p>> \o @] ELSE z
  BY <1>1, <1>2 DEF Removed, Machines
<1>4. y.refs[p] = 0
  OBVIOUS
<1> HIDE DEF p, r, N, y
<1>5. z.refs = r /\ z.free = x.free /\ z.pde = x.pde
  BY <1>1 DEF Machines
<1>6. z.refs[p] = 0
  BY <1>3, <1>4
<1>7. y.free = g /\ y.pde = x.pde /\ y.refs = r
  <2>1. y = [z EXCEPT !.free = <<p>> \o @]
    BY <1>3, <1>6
  <2> QED
    BY <1>1, <1>5, <2>1 DEF Machines
<1> HIDE DEF z
<1>8. ToSet(g) = {p} \cup ToSet(x.free)
  BY <1>1, <1>2, GiveSet
<1> HIDE DEF g
<1>9. \A q \in ToSet(g) : q \in DOMAIN r => r[q] = 0
  <2> SUFFICES ASSUME NEW q \in ToSet(g), q \in DOMAIN r, q # p PROVE r[q] = 0
    BY <1>4, <1>7
  <2>1. q \in ToSet(x.free) /\ q \in DOMAIN x.refs /\ r[q] = x.refs[q]
    BY <1>2, <1>8 DEF r
  <2> QED
    BY <2>1 DEF Stocked
<1>10. ToSet(g) \cup TableSet(x.pde) \cup (K \ {p}) = P
  <2>1. p \in K
    BY DEF p
  <2> QED
    BY <1>8, <2>1 DEF Stocked
<1>11. Stocked(y, K \ {p}, P)
  BY <1>7, <1>9, <1>10 DEF Stocked
<1> QED
  BY <1>11 DEF y, p

\* A page that is mapped where the page of K was, if there was one.
LEMMA StockInsert ==
  ASSUME NEW D, NEW M, NEW k \in Nat, NEW p \in High(k), NEW v, v \div NPT \in Pdes,
         NEW K, NEW u, u # NoFrame, NEW P,
         v \in DOMAIN M => K = {M[v].frame} /\ M[v].frame \in High(k),
         v \notin DOMAIN M => K = {}, p \notin K,
         NEW x \in Orderly(D, M, k, K \cup {p}, u), Stocked(x, K \cup {p}, P),
         Inserted(x, p, v).stop = "no",
         v \in DOMAIN M => Inserted(x, p, v).refs[M[v].frame] = 0
  PROVE  Stocked(Inserted(x, p, v), {p}, P)
<1> DEFINE t == WithTable(x, v \div NPT)
           f == [t.refs EXCEPT ![p] = @ + 1]
           c == [t EXCEPT !.refs[p] = @ + 1]
           r == IF v \in DOMAIN c.maps THEN Removed(c, v) ELSE c
           e == [w \in {v} |-> [frame |-> p, perm |-> {"W"}]]
           y == Inserted(x, p, v)
           L == K \cup {p}
<1> HIDE DEF L
<1>1. t \in Orderly(D, M, k, L, u) /\ (t.stop = "no" => Stocked(t, L, P))
  BY OrderlyTable, StockTable DEF L
<1>2. y = IF t.stop # "no" THEN t ELSE [r EXCEPT !.maps = Entered(e, @)]
  BY DEF Inserted
<1>3. y.stop = "no"
  OBVIOUS
<1> HIDE DEF t, y, e
<1>4. t \in Machines(D, M, k) /\ Separate(t.free, t.pde, L) /\ t.stop = "no"
  BY <1>1, <1>2, <1>3 DEF Orderly
<1>5. t.refs \in [D -> Int] /\ f \in [D -> Int] /\ t.free \in Seq(Int)
  <2>1. t.refs \in [D -> Int] /\ 1 \in Int
    BY <1>4, Fields
  <2> QED
    BY <1>4, <2>1, Counted, ListOf
<1>6. c = [t EXCEPT !.refs = f]
  BY <1>4 DEF Machines
<1>7. \A q \in ToSet(t.free) : q \in DOMAIN f => f[q] = 0
  <2> TAKE q \in ToSet(t.free)
  <2>1. ToSet(t.free) \cap L = {}
    BY <1>4, <1>5, ApartSets
  <2>2. q # p
    BY <2>1 DEF L
  <2> QED
    BY <1>1, <1>4, <1>5, <2>2 DEF Stocked
<1> HIDE DEF f, c
<1>8. c \in Machines(D, M, k) /\ c.free = t.free /\ c.pde = t.pde /\ c.maps = M /\ c.refs = f
  BY <1>4, <1>5, <1>6 DEF Machines
<1>9. c \in Orderly(D, M, k, L, u)
  BY <1>1, <1>8, OrderlySame
<1>10. Stocked(c, L, P)
  BY <1>1, <1>4, <1>7, <1>8 DEF Stocked
<1>11. r.free = y.free /\ r.pde = y.pde /\ r.refs = y.refs
  <2>1. \E N : r \in Machines(D, N, k)
    <3>1. CASE v \in DOMAIN M
      <4>1. M[v].frame \in High(k) /\ r = Removed(c, v)
        BY <1>8, <3>1
      <4> HIDE DEF r
      <4>2. Removed(c, v) \in Machines(D, Removed(c, v).maps, k)
        BY <1>8, <4>1, RemovedKeeps
      <4> QED
        BY <4>1, <4>2
    <3>2. CASE v \notin DOMAIN M
      BY <1>8, <3>2
    <3> QED
      BY <3>1, <3>2
  <2>2. y = [r EXCEPT !.maps = Entered(e, @)]
    BY <1>2, <1>4
  <2> HIDE DEF r
  <2> QED
    BY <2>1, <2>2 DEF Machines
<1>12. Stocked(r, {p}, P)
  <2>1. CASE v \in DOMAIN M
    <3> DEFINE q == M[v].frame
               K2 == L \ {q}
    <3>1. q \in High(k) /\ q \in L /\ K2 = {p}
      BY <2>1 DEF L
    <3>2. r = Removed(c, v) /\ r.refs[q] = 0
      BY <1>8, <1>11, <2>1 DEF y
    <3> HIDE DEF r
    <3>3. Stocked(Removed(c, v), K2, P)
      BY <1>9, <1>10, <3>1, <3>2, StockRemove
    <3> HIDE DEF K2
    <3> QED
      BY <3>1, <3>2, <3>3
  <2>2. CASE v \notin DOMAIN M
    <3>1. r = c /\ L = {p}
      BY <1>8, <2>2 DEF L
    <3> QED
      BY <1>10, <3>1
  <2> QED
    BY <2>1, <2>2
<1> HIDE DEF r
<1>13. Stocked(y, {p}, P)
  BY <1>11, <1>12, StockSame
<1> QED
  BY <1>13 DEF y

(***************************************************************************)
(* Where bootAlloc puts the directory, PageInfo::array and Task::array, in  *)
(* pages, and the pages that page::init lists.  The asserts of page::init,  *)
(* the first table, and what can be touched before the directory is loaded  *)
(* show that the machine has at least 4 MB and that all these lie in them.  *)
(***************************************************************************)
InfoEnd == PageOf(infos) + PagesIn(InfoSize * NPages)

FirstPage == Max({MB1 \div PgKB, InfoEnd})

PagesFrom(first) == (first..NPT-1) \cup (NPT..NPages-1)

Pool == PagesFrom(FirstPage) \cup {PageOf(kernelPageDir)}

Carved ==
    /\ PageOf(kernelPageDir) = ImageEnd /\ PageOf(infos) = ImageEnd + 1
    /\ DOMAIN m.refs = 0..NPages-1
    /\ Stocked(m, TestPages, Pool)

BelowTables ==
    /\ FirstPage < NPT /\ NPT <= NPages
    /\ PageOf(tasks) = InfoEnd /\ InfoEnd + PagesIn(TasksSize) <= NPT

InStock ==
    /\ stage \in Early => next = 0
    /\ stage \in {"pages", "tasks"} => m.cr3 = "entry"
    /\ stage = "pages" => PageOf(kernelPageDir) = ImageEnd /\ PageOf(next) = ImageEnd + 1
    /\ stage \in Listed => Carved
    /\ stage = "tasks" => /\ next # 0 /\ PageOf(next) = InfoEnd
                          /\ m.pde[UEnvsPdx] = NoFrame
                          /\ m.free # <<>> => FirstPage < NPT /\ Head(m.free) = NPT - 1
    /\ stage \in Listed \ {"tasks"} => BelowTables

StockInv == /\ ram \in Ram /\ totalMem <= ram
            /\ m.stop = "no" => InStock

LEMMA StockInvInit == BootInit => StockInv
<1> SUFFICES ASSUME BootInit PROVE StockInv
  OBVIOUS
<1>1. ram \in Ram /\ totalMem = 0 /\ next = 0 /\ stage = "load"
  BY DEF BootInit, LoadInit, SetupInit
<1>2. Ram \subseteq Nat
  BY BootMemoryAssumption
<1>3. totalMem <= ram
  BY <1>1, <1>2
<1> QED
  BY <1>1, <1>3 DEF StockInv, InStock, Listed

\* The NVRAM never says more than there is.
LEMMA MemoryMeasured ==
  ASSUME SetupInv, Detect
  PROVE  totalMem' <= ram
<1>1. /\ ram \in Nat /\ MB1 \in Nat /\ MB16 \in Nat /\ BaseKB \in Nat /\ ExtMaxKB \in Nat
      /\ ExtUnit \in Nat /\ ExtUnit > 0
  <2>1. {MB1, MB16, BaseKB, ExtMaxKB} \subseteq Nat
    BY BootMemoryAssumption
  <2>2. ExtUnit \in Nat \ {0}
    BY BootMemoryAssumption
  <2>3. ram \in Nat
    BY DEF SetupInv
  <2> QED
    BY <2>1, <2>2, <2>3
<1>2. \A a, b \in Nat : Min({a, b}) \in Nat /\ Min({a, b}) <= a
  <2> TAKE a, b \in Nat
  <2>1. \E x \in {a, b} : \A y \in {a, b} : x <= y
    <3>1. CASE a <= b
      BY <3>1
    <3>2. CASE ~(a <= b)
      BY <3>2
    <3> QED
      BY <3>1, <3>2
  <2>2. Min({a, b}) \in {a, b} /\ \A y \in {a, b} : Min({a, b}) <= y
    BY <2>1, Zenon DEF Min
  <2> QED
    BY <2>2
<1>3. BaseMem <= ram
  BY <1>1, <1>2 DEF BaseMem
<1>4. ExtMem # 0 => MB1 + ExtMem <= ram
  <2> SUFFICES ASSUME ram > MB1 PROVE MB1 + ExtMem <= ram
    BY DEF ExtMem
  <2> DEFINE a == ram - MB1
  <2>1. a \in Nat /\ ram = MB1 + a
    BY <1>1
  <2>2. ExtMem = Min({a, ExtMaxKB})
    BY DEF ExtMem
  <2> HIDE DEF a
  <2>3. ExtMem \in Nat /\ ExtMem <= a
    BY <1>1, <1>2, <2>1, <2>2
  <2> QED
    BY <1>1, <2>1, <2>3
<1>5. Ext16Mem # 0 => MB16 + Ext16Mem <= ram
  <2> SUFFICES ASSUME ram > MB16 PROVE MB16 + Ext16Mem <= ram
    BY DEF Ext16Mem
  <2> DEFINE a == ram - MB16
             q == a \div ExtUnit
             r == a % ExtUnit
  <2>1. a \in Int /\ ram = MB16 + a
    BY <1>1
  <2>2. Ext16Mem = q * ExtUnit
    BY DEF Ext16Mem
  <2> HIDE DEF a
  <2>3. q \in Int /\ r \in 0..ExtUnit-1 /\ a = q * ExtUnit + r
    BY <1>1, <2>1, Quotient
  <2> HIDE DEF q, r
  <2>4. q * ExtUnit \in Int /\ r \in Nat
    BY <1>1, <2>3
  <2>5. q * ExtUnit <= a
    BY <2>3, <2>4
  <2> QED
    BY <1>1, <2>1, <2>2, <2>4, <2>5
<1> QED
  BY <1>3, <1>4, <1>5 DEF Detect

\* bootAlloc takes whole pages, one after the other.
LEMMA AllocatesPages ==
  ASSUME LoadInv, SetupInv, NEW size \in Nat
  PROVE  /\ PageOf(BootNext) \in Nat /\ PagesIn(size) \in Nat
         /\ PageOf(BootAfter(size)) = PageOf(BootNext) + PagesIn(size)
<1> DEFINE b == BootNext \div PgSize
           a == BootNext + size
           c == BootAfter(size)
<1>1. /\ BootNext \in Nat /\ BootNext = b * PgSize /\ ImageEnd \in Nat /\ ImageEnd <= b /\ b \in Int
      /\ PgSize \in Nat /\ PgSize > 0
  BY Allocated, Layout, Quotient DEF Behind
<1>2. PagesIn(size) \in Nat /\ b \in Nat
  BY <1>1, PagesAre
<1>3. CASE size = 0
  <2>1. c = BootNext
    BY <1>3 DEF BootAfter
  <2>2. 0 * PgSize = 0
    BY <1>1
  <2>3. PagesIn(0 * PgSize) = 0
    BY WholePages
  <2>4. PagesIn(size) = 0
    BY <1>3, <2>2, <2>3
  <2>5. PageOf(c) = b
    BY <2>1 DEF PageOf
  <2> HIDE DEF b, c
  <2> QED
    BY <1>2, <2>4, <2>5 DEF PageOf, b, c
<1>4. CASE size # 0
  <2> DEFINE e == size + PgSize - 1
             q == e \div PgSize
             r == e % PgSize
  <2>1. c = RoundUp(a)
    BY <1>4 DEF BootAfter
  <2>2. a \in Nat /\ a = b * PgSize + size
    BY <1>1
  <2> HIDE DEF a, b, c
  <2>3. PageOf(c) = PagesIn(a)
    BY <2>1 DEF PageOf, PagesIn
  <2>4. PagesIn(a) = (a + PgSize - 1) \div PgSize
    BY <2>2, PagesQuotient
  <2>5. PagesIn(size) = q
    BY PagesQuotient
  <2>6. e \in Int /\ a + PgSize - 1 = b * PgSize + e
    BY <1>1, <2>2
  <2> HIDE DEF e
  <2>7. q \in Int /\ r \in 0..PgSize-1 /\ e = q * PgSize + r
    BY <1>1, <2>6, Quotient
  <2> HIDE DEF q, r
  <2> DEFINE s == (b + q) * PgSize
  <2>8. s \in Int /\ s = b * PgSize + q * PgSize /\ b + q \in Int
    BY <1>1, <2>7
  <2>9. s <= b * PgSize + e /\ b * PgSize + e < s + PgSize
    <3>1. b * PgSize \in Int /\ q * PgSize \in Int
      BY <1>1, <2>7
    <3> HIDE DEF s
    <3> QED
      BY <1>1, <2>7, <2>8, <3>1
  <2>10. (b * PgSize + e) \div PgSize = b + q
    <3> DEFINE g == b * PgSize + e
    <3>1. g \in Int
      BY <1>1, <2>6
    <3>2. s <= g /\ g < s + PgSize
      BY <2>9
    <3> HIDE DEF g
    <3>3. g \div PgSize = b + q
      BY <1>1, <2>8, <3>1, <3>2, QuotientIs
    <3> QED
      BY <3>3 DEF g
  <2>11. PageOf(c) = b + PagesIn(size)
    BY <2>3, <2>4, <2>5, <2>6, <2>10
  <2> QED
    BY <1>2, <2>11 DEF PageOf, b, c
<1> QED
  BY <1>3, <1>4

LEMMA DirInStock ==
  ASSUME LoadInv, SetupInv, InStock, AllocDir, m.stop = "no", m'.stop = "no", image' = image
  PROVE  InStock'
<1> DEFINE x == Fill(m, BootNext, PgSize)
           b == BootNext \div PgSize
           pages == b .. b + PagesIn(PgSize) - 1
<1>1. /\ stage = "directory" /\ stage' = "pages" /\ next' = BootAfter(PgSize)
      /\ kernelPageDir' = BootNext /\ m' = [x EXCEPT !.pde[UvptPdx] = b]
  BY DEF AllocDir
<1>2. PgSize \in Nat /\ next = 0 /\ BootNext = RoundUp(image.kernEnd)
  BY <1>1, Layout DEF InStock, Early, BootNext
<1>3. PageOf(kernelPageDir)' = ImageEnd /\ PageOf(BootNext) = ImageEnd /\ ImageEnd' = ImageEnd
  BY <1>1, <1>2 DEF PageOf, ImageEnd, PagesIn
<1>4. PagesIn(PgSize) = 1
  <2>1. 1 * PgSize = PgSize
    BY <1>2
  <2>2. PagesIn(1 * PgSize) = 1
    BY WholePages
  <2> QED
    BY <2>1, <2>2
<1>5. PageOf(next)' = ImageEnd + 1
  <2>1. PageOf(BootAfter(PgSize)) = PageOf(BootNext) + PagesIn(PgSize)
    BY <1>2, AllocatesPages
  <2>2. PageOf(next)' = PageOf(BootAfter(PgSize))
    BY <1>1 DEF PageOf
  <2> QED
    BY <1>3, <1>4, <2>1, <2>2
<1>6. m \in Machines(DOMAIN m.refs, m.maps, ImageEnd) /\ m.cr3 = "entry"
  BY <1>1 DEF SetupInv, OffImage
<1>7. pages \subseteq High(ImageEnd)
  <2>1. b \in Int /\ ImageEnd \in Nat /\ ImageEnd <= b
    BY <1>2, Allocated, Layout, Quotient DEF Behind
  <2> HIDE DEF b
  <2> QED
    BY <1>4, <2>1 DEF High
<1>8. x = Touch(m, pages)
  BY DEF Fill
<1> HIDE DEF x, pages
<1>9. x \in Machines(DOMAIN m.refs, m.maps, ImageEnd) /\ x.cr3 = m.cr3
  BY <1>6, <1>7, <1>8, TouchSame
<1>10. m'.cr3 = "entry"
  BY <1>1, <1>6, <1>9 DEF Machines
<1> QED
  BY <1>1, <1>3, <1>5, <1>10 DEF InStock, Early, Listed

LEMMA DownSet ==
  ASSUME NEW from \in Int, NEW to \in Int
  PROVE  ToSet(Down(from, to)) = to..from
<1> DEFINE n == from - to + 1
           d == [j \in 1..n |-> from - j + 1]
<1>1. Down(from, to) = d /\ n \in Int
  BY DEF Down
<1>2. ASSUME NEW p \in to..from PROVE p \in ToSet(d)
  <2> DEFINE j == from - p + 1
  <2>1. j \in 1..n /\ from - j + 1 = p
    OBVIOUS
  <2> HIDE DEF j, n
  <2>2. d[j] = p /\ j \in DOMAIN d
    BY <2>1
  <2> QED
    BY <2>2 DEF ToSet
<1>3. ASSUME NEW p \in ToSet(d) PROVE p \in to..from
  <2>1. PICK j \in DOMAIN d : d[j] = p
    BY <1>3 DEF ToSet
  <2>2. j \in 1..n /\ p = from - j + 1
    BY <2>1
  <2> QED
    BY <2>2
<1> QED
  BY <1>1, <1>2, <1>3

LEMMA ConcatSet ==
  ASSUME NEW f \in Seq(Int), NEW g \in Seq(Int)
  PROVE  ToSet(f \o g) = ToSet(f) \cup ToSet(g)
<1> DEFINE h == f \o g
           a == Len(f)
           b == Len(g)
<1>1. /\ h \in Seq(Int) /\ Len(h) = a + b /\ a \in Nat /\ b \in Nat
      /\ \A s \in 1..a+b : h[s] = IF s <= a THEN f[s] ELSE g[s - a]
  BY ConcatProperties
<1> HIDE DEF h, a, b
<1>2. ASSUME NEW p \in ToSet(h) PROVE p \in ToSet(f) \/ p \in ToSet(g)
  <2>1. PICK j \in 1..a+b : h[j] = p
    BY <1>1, ListSet
  <2>2. CASE j <= a
    <3>1. j \in 1..a /\ f[j] = p
      BY <1>1, <2>1, <2>2
    <3> QED
      BY <3>1, ListSet DEF a
  <2>3. CASE ~(j <= a)
    <3>1. j - a \in 1..b /\ g[j - a] = p
      BY <1>1, <2>1, <2>3
    <3> QED
      BY <3>1, ListSet DEF b
  <2> QED
    BY <2>2, <2>3
<1>3. ASSUME NEW p \in ToSet(f) PROVE p \in ToSet(h)
  <2>1. PICK j \in 1..a : f[j] = p
    BY ListSet DEF a
  <2>2. j \in 1..a+b /\ h[j] = p
    BY <1>1, <2>1
  <2> QED
    BY <1>1, <2>2, ListSet
<1>4. ASSUME NEW p \in ToSet(g) PROVE p \in ToSet(h)
  <2>1. PICK j \in 1..b : g[j] = p
    BY ListSet DEF b
  <2>2. a + j \in 1..a+b /\ ~(a + j <= a) /\ (a + j) - a = j
    BY <1>1
  <2>3. h[a + j] = p
    BY <1>1, <2>1, <2>2
  <2> QED
    BY <1>1, <2>2, <2>3, ListSet
<1> QED
  BY <1>2, <1>3, <1>4 DEF h

\* What page::init lists, and that its last assert finds a page below 4 MB in front.
LEMMA ListIs ==
  ASSUME NEW first \in Int, NPages \in Nat
  PROVE  LET f == FreeListFrom(first)
         IN /\ f \in Seq(Int) /\ ToSet(f) = PagesFrom(first)
            /\ f # <<>> /\ Head(f) \div NPT = 0 => first < NPT /\ Head(f) = NPT - 1
<1> DEFINE g == Down(NPT - 1, first)
           h == Down(NPages - 1, NPT)
           f == FreeListFrom(first)
<1>1. NPT \in Nat /\ NPT > 0
  BY Layout
<1>2. NPT - 1 \in Int /\ NPages - 1 \in Int /\ NPT \in Int
  BY <1>1
<1>3. g \in Seq(Int) /\ ToSet(g) = first..NPT-1
  BY <1>2, DownOnce, DownSet
<1>4. h \in Seq(Int) /\ ToSet(h) = NPT..NPages-1
  BY <1>2, DownOnce, DownSet
<1>5. f = g \o h
  BY DEF FreeListFrom
<1>6. g \in Seq(Int) /\ g = [j \in 1..(NPT - 1) - first + 1 |-> (NPT - 1) - j + 1]
  BY <1>3 DEF Down
<1>7. f \in Seq(Int) /\ \A s \in 1..Len(f) : first <= f[s] \/ NPT <= f[s]
  BY <1>1, FreeListOnce
<1> HIDE DEF g, h, f
<1>8. ToSet(f) = PagesFrom(first)
  BY <1>3, <1>4, <1>5, ConcatSet DEF PagesFrom
<1>9. ASSUME f # <<>>, Head(f) \div NPT = 0 PROVE first < NPT /\ Head(f) = NPT - 1
  <2>1. Len(f) \in Nat /\ Len(f) > 0 /\ Head(f) = f[1]
    <3>1. Len(f) \in Nat /\ Len(f) # 0
      BY <1>7, <1>9, EmptySeq, LenProperties
    <3> QED
      BY <1>7, <1>9, <3>1, HeadTailProperties
  <2>2. f[1] \in Int /\ 1 \in 1..Len(f)
    BY <1>7, <2>1
  <2>3. f[1] < NPT
    <3> DEFINE p == f[1]
               r == p % NPT
    <3>1. p \in Int /\ p \div NPT = 0
      BY <1>9, <2>1, <2>2
    <3>2. r \in 0..NPT-1 /\ p = (p \div NPT) * NPT + r
      BY <1>1, <3>1, Quotient
    <3> HIDE DEF r
    <3>3. 0 * NPT = 0
      BY <1>1
    <3>4. p = 0 + r
      BY <3>1, <3>2, <3>3
    <3> QED
      BY <1>1, <3>2, <3>4
  <2>4. first < NPT
    <3>1. first <= f[1] \/ NPT <= f[1]
      BY <1>7, <2>2
    <3> QED
      BY <1>1, <2>2, <2>3, <3>1
  <2>5. f[1] = NPT - 1
    <3> DEFINE n == (NPT - 1) - first + 1
    <3>1. n \in Nat /\ n > 0
      BY <1>1, <2>4
    <3> HIDE DEF n
    <3>2. g = [j \in 1..n |-> (NPT - 1) - j + 1]
      BY <1>6 DEF n
    <3>3. Len(g) = n /\ g[1] = (NPT - 1) - 1 + 1
      BY <3>1, <3>2
    <3>4. f[1] = g[1]
      <4>1. /\ Len(f) = Len(g) + Len(h)
            /\ \A s \in 1..Len(g)+Len(h) : f[s] = IF s <= Len(g) THEN g[s] ELSE h[s - Len(g)]
        BY <1>3, <1>4, <1>5, ConcatProperties
      <4>2. 1 \in 1..Len(g)+Len(h) /\ 1 <= Len(g)
        BY <2>1, <3>1, <3>3, <4>1
      <4> QED
        BY <4>1, <4>2
    <3> QED
      BY <1>1, <3>3, <3>4
  <2> QED
    BY <2>1, <2>4, <2>5
<1> QED
  BY <1>7, <1>8, <1>9 DEF f

LEMMA ListInStock ==
  ASSUME LoadInv, SetupInv, InOrder, InStock, InitPages, m.stop = "no", m'.stop = "no", image' = image
  PROVE  InStock'
<1> DEFINE size == InfoSize * NPages
           first == FirstFree(size)
           free == FreeListFrom(first)
           x == Fill(m, BootNext, size)
           refs == [p \in 0..NPages-1 |-> IF p < first THEN 1 ELSE 0]
           pages == WithList(size, first)
           u == PageOf(kernelPageDir)
           end == PageOf(BootAfter(size))
           k == ImageEnd
<1>1. /\ stage = "pages" /\ stage' = "tasks" /\ kernelPageDir' = kernelPageDir /\ totalMem' = totalMem
      /\ infos' = BootNext /\ next' = BootAfter(size)
  BY DEF InitPages
<1>2. PICK cond : m' = Ensure(pages, cond) /\ (cond => Head(free) \div NPT = 0)
  BY InitPagesIs
<1>3. /\ PgKB \in Nat /\ PgKB > 0 /\ InfoSize \in Nat /\ MB1 \in Nat /\ totalMem \in Nat
      /\ PgSize \in Nat /\ PgSize > 0 /\ NPT \in Nat /\ k \in Nat
  <2>1. PgKB \in Nat \ {0} /\ InfoSize \in Nat \ {0}
    BY BootMemoryAssumption
  <2>2. {MB1, MB16, BaseKB, ExtMaxKB} \subseteq Nat
    BY BootMemoryAssumption
  <2>3. totalMem \in Nat
    BY DEF SetupInv
  <2> QED
    BY <2>1, <2>2, <2>3, Layout, Allocated
<1>4. NPages \in Nat
  BY <1>3 DEF NPages
<1>5. size \in Nat
  BY <1>3, <1>4, Product
<1>6. NPages' = NPages /\ ImageEnd' = k /\ u' = u /\ TestPages' = {} /\ TestPages = {}
  BY <1>1 DEF NPages, ImageEnd, PageOf, TestPages, Testing
<1>7. /\ next # 0 /\ u = k /\ PageOf(next) = k + 1 /\ m.cr3 = "entry"
      /\ m.pde = [d \in Pdes |-> IF d = UvptPdx THEN u ELSE NoFrame]
  BY <1>1 DEF InOrder, DirAlone, InStock
<1>8. PageOf(BootNext) = k + 1 /\ PageOf(infos)' = k + 1
  BY <1>1, <1>7 DEF BootNext, PageOf
<1>9. end = k + 1 + PagesIn(size) /\ PagesIn(size) \in Nat
  BY <1>5, <1>8, AllocatesPages
<1>10. InfoEnd' = end /\ PageOf(next)' = end
  <2>1. (InfoSize * NPages)' = size
    BY <1>6
  <2>2. InfoEnd' = PageOf(infos)' + PagesIn(size)
    BY <2>1 DEF InfoEnd, PagesIn, RoundUp
  <2>3. PageOf(next)' = end
    BY <1>1 DEF PageOf
  <2> QED
    BY <1>8, <1>9, <2>2, <2>3
<1>11. first = Max({MB1 \div PgKB, end}) /\ FirstPage' = first
  BY <1>10 DEF FirstFree, FirstPage, PageOf
<1> HIDE DEF size, end, u, k
<1>12. first \in Int /\ end <= first /\ end \in Nat /\ u < first
  <2> DEFINE a == MB1 \div PgKB
  <2>1. a \in Int /\ end \in Nat
    BY <1>3, <1>9
  <2> HIDE DEF a
  <2>2. \E y \in {a, end} : \A z \in {a, end} : y >= z
    <3>1. CASE a <= end
      BY <2>1, <3>1
    <3>2. CASE ~(a <= end)
      BY <2>1, <3>2
    <3> QED
      BY <3>1, <3>2
  <2>3. Max({a, end}) \in {a, end} /\ \A z \in {a, end} : Max({a, end}) >= z
    BY <2>2, Zenon DEF Max
  <2>4. Max({a, end}) \in Int /\ Max({a, end}) >= end
    BY <2>1, <2>3
  <2>5. first = Max({a, end})
    BY <1>11 DEF a
  <2> HIDE DEF first
  <2> QED
    BY <1>3, <1>7, <1>9, <2>1, <2>4, <2>5
<1> HIDE DEF first
<1>13. /\ free \in Seq(Int) /\ ToSet(free) = PagesFrom(first)
       /\ free # <<>> /\ Head(free) \div NPT = 0 => first < NPT /\ Head(free) = NPT - 1
  BY <1>4, <1>12, ListIs
<1>14. x \in Machines(DOMAIN m.refs, m.maps, k) /\ x.pde = m.pde /\ x.cr3 = m.cr3
  <2> DEFINE q == BootNext \div PgSize
             filled == q .. q + PagesIn(size) - 1
  <2>1. q \in Int /\ k <= q
    BY <1>3, <1>8 DEF PageOf
  <2>2. filled \subseteq High(k)
    <3> HIDE DEF q
    <3> QED
      BY <1>3, <1>9, <2>1 DEF High
  <2>3. x = Touch(m, filled)
    BY DEF Fill
  <2>4. m \in Machines(DOMAIN m.refs, m.maps, k)
    BY DEF SetupInv, OffImage, k
  <2> HIDE DEF filled, x
  <2> QED
    BY <2>2, <2>3, <2>4, TouchSame
<1> HIDE DEF x, free, refs
<1>15. pages = [x EXCEPT !.refs = refs, !.free = free]
  BY DEF WithList, x, refs, free
<1> HIDE DEF pages
<1>16. pages.stop = "no" /\ cond /\ m' = pages
  BY <1>2 DEF Ensure
<1>17. m'.free = free /\ m'.pde = m.pde /\ m'.refs = refs /\ m'.cr3 = "entry"
  BY <1>7, <1>14, <1>15, <1>16 DEF Machines
<1>18. free # <<>> => first < NPT /\ Head(free) = NPT - 1
  BY <1>13, <1>16, <1>2
<1>19. DOMAIN refs = 0..NPages-1 /\ \A p \in 0..NPages-1 : refs[p] = IF p < first THEN 1 ELSE 0
  BY DEF refs
<1>20. \A p \in ToSet(free) : p \in DOMAIN refs => refs[p] = 0
  <2> SUFFICES ASSUME NEW p \in ToSet(free), p \in 0..NPages-1 PROVE ~(p < first)
    BY <1>19
  <2>1. free # <<>>
    BY <1>13, ListSet
  <2>2. first < NPT
    BY <1>18, <2>1
  <2>3. p \in first..NPT-1 \/ p \in NPT..NPages-1
    BY <1>13 DEF PagesFrom
  <2> QED
    BY <1>3, <1>4, <1>12, <2>2, <2>3
<1>21. TableSet(m.pde) = {u}
  <2>1. u # NoFrame
    <3>1. u \in Nat
      BY <1>3, <1>7
    <3> QED
      BY <3>1 DEF NoFrame
  <2>2. \A d \in Pdes : m.pde[d] = IF d = UvptPdx THEN u ELSE NoFrame
    BY <1>7
  <2> QED
    BY <2>1, <2>2, UvptIs DEF TableSet
<1>22. Pool' = PagesFrom(first) \cup {u}
  <2>1. PagesFrom(FirstPage)' = PagesFrom(first)
    BY <1>6, <1>11 DEF PagesFrom
  <2>2. PageOf(kernelPageDir)' = u
    BY <1>6 DEF u
  <2> QED
    BY <2>1, <2>2 DEF Pool
<1>23. Stocked(m', {}, PagesFrom(first) \cup {u})
  BY <1>13, <1>17, <1>20, <1>21 DEF Stocked
<1>24. Carved'
  <2>1. Stocked(m', TestPages', Pool')
    BY <1>6, <1>22, <1>23
  <2>2. Stocked(m, TestPages, Pool)'
    BY <2>1 DEF Stocked, TableSet
  <2>3. PageOf(kernelPageDir)' = ImageEnd' /\ PageOf(infos)' = ImageEnd' + 1
    BY <1>6, <1>7, <1>8 DEF u
  <2>4. DOMAIN m'.refs = 0..NPages'-1
    BY <1>6, <1>17, <1>19
  <2> QED
    BY <2>2, <2>3, <2>4 DEF Carved
<1>25. next' # 0
  <2> SUFFICES ASSUME next' = 0 PROVE FALSE
    OBVIOUS
  <2>1. 0 * PgSize = 0
    BY <1>3
  <2>2. 0 \div PgSize = 0
    BY <1>3, <2>1, QuotientIs
  <2>3. PageOf(next)' = 0
    BY <2>2 DEF PageOf
  <2> QED
    BY <1>3, <1>9, <1>10, <2>3
<1>26. m'.pde[UEnvsPdx] = NoFrame
  <2>1. UEnvsPdx \in Pdes /\ UEnvsPdx # UvptPdx
    <3>1. NPD \in Nat /\ KernPdx \in 0..NPD-1 /\ UEnvsPdx \in Nat
      BY BootMemoryAssumption, Layout
    <3> QED
      BY <3>1 DEF UEnvsPdx, UvptPdx, Pdes
  <2> QED
    BY <1>7, <1>17, <2>1
<1>27. m'.free # <<>> => FirstPage' < NPT /\ Head(m'.free) = NPT - 1
  BY <1>11, <1>17, <1>18
<1> QED
  BY <1>1, <1>10, <1>17, <1>24, <1>25, <1>26, <1>27 DEF InStock, Early, Listed

\* A map that needs a table has taken the first page of the list for it.
LEMMA MapTakes ==
  ASSUME NEW D, NEW M, NEW k, NEW x \in Machines(D, M, k),
         NEW v \in Nat, NEW size \in Nat, size > 0, NEW frame, NEW perm,
         StaticMap(x, v, size, frame, perm).stop = "no"
  PROVE  /\ x.stop = "no"
         /\ x.pde[v \div NPT] = NoFrame => x.free # <<>> /\ Head(x.free) < NPages
<1> DEFINE n == PagesIn(size)
           first == v \div NPT
           last == (v + n - 1) \div NPT
           t == WithTables(x, first, last)[last]
           taken == /\ x.stop = "no"
                    /\ x.pde[first] = NoFrame => x.free # <<>> /\ Head(x.free) < NPages
           S == {z \in Machines(D, M, k) : z.stop = "no" => taken}
           f == [w \in v..v+n-1 |-> [frame |-> frame + (w - v), perm |-> perm]]
           y == StaticMap(x, v, size, frame, perm)
<1>1. n \in Nat /\ n > 0 /\ NPT \in Nat /\ NPT > 0
  BY PagesAre, Layout
<1>2. first \in Int /\ last \in Int /\ first <= last
  <2>1. v + n - 1 \in Int /\ v <= v + n - 1
    BY <1>1
  <2> HIDE DEF n
  <2> QED
    BY <1>1, <2>1, Quotient, QuotientGrows
<1>3. y = IF t.stop # "no" THEN t ELSE [t EXCEPT !.maps = Entered(f, @)]
  BY DEF StaticMap, WithTables
<1> HIDE DEF first, last
<1>4. WithTable(x, first) \in S
  <2> SUFFICES ASSUME WithTable(x, first).stop = "no" PROVE taken
    BY TableKeeps
  <2>1. x.stop = "no"
    BY DEF WithTable
  <2>2. ASSUME x.pde[first] = NoFrame PROVE x.free # <<>> /\ Head(x.free) < NPages
    <3>1. x.free # <<>>
      <4> SUFFICES ASSUME x.free = <<>> PROVE FALSE
        OBVIOUS
      <4>1. WithTable(x, first) = [x EXCEPT !.stop = "fault"]
        BY <2>1, <2>2 DEF WithTable
      <4> QED
        BY <4>1 DEF Machines
    <3> DEFINE p == Head(x.free)
               z == [x EXCEPT !.free = Tail(@)]
               e == Ensure(z, p < NPages)
    <3>2. TakePage(x).stop = "no"
      BY <2>1, <2>2, <3>1 DEF WithTable
    <3>3. TakePage(x) = Touch(e, {p})
      BY DEF TakePage
    <3> HIDE DEF e
    <3>4. e.stop = "no"
      BY <3>2, <3>3 DEF Touch
    <3> HIDE DEF p
    <3>5. z.stop = "no"
      BY <2>1 DEF Machines
    <3> HIDE DEF z
    <3>6. p < NPages
      <4> SUFFICES ASSUME ~(p < NPages) PROVE FALSE
        OBVIOUS
      <4>1. e = [z EXCEPT !.stop = "panic"]
        BY <3>5 DEF e, Ensure
      <4>2. z \in Machines(D, M, k)
        <5>1. x.free \in Seq(High(k))
          BY Fields
        <5>2. Tail(x.free) \in Seq(High(k))
          BY <3>1, <5>1, HeadTailProperties
        <5> QED
          BY <5>2 DEF z, Machines
      <4> QED
        BY <3>4, <4>1, <4>2 DEF Machines
    <3> QED
      BY <3>1, <3>6 DEF p
  <2> QED
    BY <2>1, <2>2
<1>5. \A z \in S : \A d \in first+1..last : WithTable(z, d) \in S
  <2> TAKE z \in S
  <2> TAKE d \in first+1..last
  <2>1. WithTable(z, d) \in Machines(D, M, k)
    BY TableKeeps
  <2> SUFFICES ASSUME WithTable(z, d).stop = "no" PROVE taken
    BY <2>1
  <2>2. z.stop = "no"
    BY DEF WithTable
  <2> QED
    BY <2>2
<1> HIDE DEF S, taken
<1>6. t \in S
  BY <1>2, <1>4, <1>5, TablesIn
<1>7. t.stop = "no"
  <2> HIDE DEF t, f
  <2> QED
    BY <1>3
<1> HIDE DEF t
<1>8. taken
  BY <1>6, <1>7 DEF S
<1> QED
  BY <1>8 DEF taken, first

LEMMA StockNumbers ==
  ASSUME LoadInv, SetupInv, InStock, stage \in Listed
  PROVE  /\ ImageEnd \in Nat /\ NPages \in Nat /\ PageOf(kernelPageDir) = ImageEnd
         /\ PageOf(kernelPageDir) # NoFrame /\ InfoEnd \in Nat /\ ImageEnd + 1 <= InfoEnd
<1>1. /\ PgKB \in Nat /\ PgKB > 0 /\ InfoSize \in Nat /\ totalMem \in Nat /\ ImageEnd \in Nat
  <2>1. PgKB \in Nat \ {0} /\ InfoSize \in Nat \ {0}
    BY BootMemoryAssumption
  <2>2. totalMem \in Nat
    BY DEF SetupInv
  <2> QED
    BY <2>1, <2>2, Allocated
<1>2. NPages \in Nat
  BY <1>1 DEF NPages
<1>3. InfoSize * NPages \in Nat
  BY <1>1, <1>2, Product
<1>4. PagesIn(InfoSize * NPages) \in Nat
  BY <1>3, PagesAre
<1>5. PageOf(kernelPageDir) = ImageEnd /\ PageOf(infos) = ImageEnd + 1
  BY DEF InStock, Carved
<1> DEFINE n == PagesIn(InfoSize * NPages)
<1>6. InfoEnd = ImageEnd + 1 + n /\ n \in Nat
  BY <1>4, <1>5 DEF InfoEnd
<1> HIDE DEF n
<1>7. InfoEnd \in Nat /\ ImageEnd + 1 <= InfoEnd
  BY <1>1, <1>6
<1> QED
  BY <1>1, <1>2, <1>5, <1>7 DEF NoFrame

\* A step that leaves the three arrays where they are.
LEMMA LaterInStock ==
  ASSUME InStock, stage \in Listed, stage' \in Listed \ {"tasks"},
         image' = image, totalMem' = totalMem, kernelPageDir' = kernelPageDir, infos' = infos,
         DOMAIN m'.refs = DOMAIN m.refs, Stocked(m', TestPages', Pool), BelowTables'
  PROVE  InStock'
<1>1. /\ NPages' = NPages /\ ImageEnd' = ImageEnd /\ PageOf(kernelPageDir)' = PageOf(kernelPageDir)
      /\ PageOf(infos)' = PageOf(infos)
  BY DEF NPages, ImageEnd, PageOf
<1>2. InfoEnd' = InfoEnd
  BY <1>1 DEF InfoEnd, PagesIn, RoundUp
<1>3. FirstPage' = FirstPage
  BY <1>2 DEF FirstPage
<1>4. Pool' = Pool
  BY <1>1, <1>3 DEF Pool, PagesFrom
<1>5. Stocked(m, TestPages, Pool)'
  <2>1. Stocked(m', TestPages', Pool')
    BY <1>4
  <2> QED
    BY <2>1 DEF Stocked, TableSet
<1>6. Carved
  BY DEF InStock
<1>7. Carved'
  BY <1>1, <1>5, <1>6 DEF Carved
<1>8. stage' \notin Early \cup {"pages", "tasks"}
  BY DEF Early, Listed
<1> QED
  BY <1>7, <1>8 DEF InStock

LEMMA BelowKept ==
  ASSUME InStock, stage \in Listed \ {"tasks"}, totalMem' = totalMem, infos' = infos, tasks' = tasks
  PROVE  BelowTables'
<1>1. BelowTables
  BY DEF InStock
<1>2. NPages' = NPages /\ PageOf(infos)' = PageOf(infos) /\ PageOf(tasks)' = PageOf(tasks)
  BY DEF NPages, PageOf
<1>3. InfoEnd' = InfoEnd
  BY <1>2 DEF InfoEnd, PagesIn, RoundUp
<1>4. FirstPage' = FirstPage
  BY <1>3 DEF FirstPage
<1> QED
  BY <1>1, <1>2, <1>3, <1>4 DEF BelowTables

\* One more window, whose tables come from the list.
LEMMA WindowInStock ==
  ASSUME LoadInv, SetupInv, InOrder, InStock, stage \in Listed, ~Testing, stage' \in Listed \ {"tasks"},
         ~Testing', image' = image, totalMem' = totalMem, kernelPageDir' = kernelPageDir, infos' = infos,
         BelowTables',
         NEW x \in Orderly(DOMAIN m.refs, m.maps, ImageEnd, {}, PageOf(kernelPageDir)),
         Stocked(x, {}, Pool),
         NEW v \in Nat, NEW size \in Nat, size > 0, NEW frame, NEW perm,
         v + PagesIn(size) <= NPD * NPT,
         m' = StaticMap(x, v, size, frame, perm), m'.stop = "no"
  PROVE  InStock'
<1> DEFINE D == DOMAIN m.refs
           M == m.maps
           k == ImageEnd
           u == PageOf(kernelPageDir)
           P == Pool
           y == StaticMap(x, v, size, frame, perm)
<1>1. k \in Nat /\ u # NoFrame
  BY StockNumbers
<1> HIDE DEF D, M, k, u, P
<1>2. x \in Orderly(D, M, k, {}, u) /\ Stocked(x, {}, P)
  BY DEF D, M, k, u, P
<1>3. y \in Orderly(D, y.maps, k, {}, u)
  BY <1>1, <1>2, OrderlyMap
<1>4. y.stop = "no" => Stocked(y, {}, P)
  BY <1>1, <1>2, StockMap
<1>5. Stocked(m', {}, Pool)
  BY <1>4 DEF P
<1>6. DOMAIN m'.refs = DOMAIN m.refs
  BY <1>3, OrderlyRefs DEF D
<1>7. TestPages' = {}
  BY DEF TestPages
<1> QED
  BY <1>5, <1>6, <1>7, LaterInStock

\* The windows lie in the directory.
LEMMA WindowsFit ==
  /\ UEnvsPdx * NPT + PagesIn(RoundUp(TasksSize)) <= NPD * NPT
  /\ UPagesPdx * NPT + PagesIn(NPT * PgSize) <= NPD * NPT
  /\ KernPdx * NPT - KStkPages + PagesIn(KStkPages * PgSize) <= NPD * NPT
  /\ KernPdx * NPT + PagesIn((NPD - KernPdx) * NPT * PgSize - 1) <= NPD * NPT
  /\ MmioPdx * NPT + PagesIn(RoundUp(PgSize)) <= NPD * NPT
  /\ TestVa \div NPT \in Pdes
<1>1. /\ NPT \in Nat /\ NPT > 0 /\ NPD \in Nat /\ KernPdx \in Nat /\ KernPdx < NPD /\ KStkPages \in Nat
      /\ UEnvsPdx \in Nat /\ UEnvsPdx = KernPdx - 5 /\ UPagesPdx = KernPdx - 4 /\ MmioPdx = KernPdx - 2
  <2>1. KernPdx \in 0..NPD-1 /\ KStkPages \in Nat \ {0}
    BY BootMemoryAssumption
  <2> QED
    BY <2>1, Layout DEF UEnvsPdx, UPagesPdx, MmioPdx
<1>2. /\ PagesIn(RoundUp(TasksSize)) \in 0..NPT /\ PagesIn(NPT * PgSize) = NPT
      /\ PagesIn(KStkPages * PgSize) = KStkPages
      /\ PagesIn((NPD - KernPdx) * NPT * PgSize - 1) = (NPD - KernPdx) * NPT
      /\ PagesIn(RoundUp(PgSize)) = 1
  BY Sizes
<1> DEFINE n1 == PagesIn(RoundUp(TasksSize))
           at(d) == d * NPT
<1> HIDE DEF n1
<1>3. \A d \in Nat : at(d) \in Nat
  BY <1>1
<1>4. \A d \in Nat : d < NPD => at(d) + NPT <= at(NPD)
  BY <1>1, Apart
<1>5. (NPD - KernPdx) * NPT = at(NPD) - at(KernPdx)
  BY <1>1
<1> HIDE DEF at
<1>6. UPagesPdx \in Nat /\ MmioPdx \in Nat /\ UEnvsPdx < NPD /\ UPagesPdx < NPD /\ MmioPdx < NPD
  BY <1>1
<1>7. /\ at(UEnvsPdx) \in Nat /\ at(UPagesPdx) \in Nat /\ at(MmioPdx) \in Nat /\ at(KernPdx) \in Nat
      /\ at(NPD) \in Nat
      /\ at(UEnvsPdx) + NPT <= at(NPD) /\ at(UPagesPdx) + NPT <= at(NPD)
      /\ at(MmioPdx) + NPT <= at(NPD) /\ at(KernPdx) + NPT <= at(NPD)
  BY <1>1, <1>3, <1>4, <1>6
<1>8. n1 \in Nat /\ n1 <= NPT
  BY <1>1, <1>2 DEF n1
<1>9. at(UEnvsPdx) + n1 <= at(NPD) /\ at(UPagesPdx) + NPT <= at(NPD)
      /\ (at(KernPdx) - KStkPages) + KStkPages <= at(NPD)
      /\ at(KernPdx) + (at(NPD) - at(KernPdx)) <= at(NPD) /\ at(MmioPdx) + 1 <= at(NPD)
  BY <1>1, <1>7, <1>8
<1>10. TestVa \div NPT \in Pdes
  <2>1. TestVa \in Nat /\ TestVa < at(UEnvsPdx)
    BY Layout DEF at
  <2>2. TestVa < at(NPD)
    BY <1>1, <1>7, <2>1
  <2> QED
    BY <2>1, <2>2, InDirectory DEF at
<1> QED
  BY <1>2, <1>5, <1>9, <1>10 DEF n1, at

\* Task::array is filled before the directory is loaded, and its table is the
\* last page below 4 MB.
LEMMA TasksInStock ==
  ASSUME LoadInv, SetupInv, InOrder, InStock, AllocTasks, image' = image, m'.stop = "no"
  PROVE  InStock'
<1> DEFINE D == DOMAIN m.refs
           k == ImageEnd
           u == PageOf(kernelPageDir)
           x == Fill(m, BootNext, TasksSize)
           v == UEnvsPdx * NPT
           size == RoundUp(TasksSize)
           frame == BootNext \div PgSize
           perm == {"U"}
           n == PagesIn(TasksSize)
           filled == frame .. frame + n - 1
<1>1. /\ stage = "tasks" /\ stage' = "map" /\ tasks' = BootNext
      /\ kernelPageDir' = kernelPageDir /\ infos' = infos /\ totalMem' = totalMem
      /\ m' = StaticMap(x, v, size, frame, perm)
  BY DEF AllocTasks
<1>2. stage \in Listed /\ stage' \in Listed \ {"tasks"} /\ ~Testing /\ ~Testing'
  BY <1>1 DEF Listed, Testing
<1>3. /\ next # 0 /\ PageOf(next) = InfoEnd /\ m.cr3 = "entry" /\ m.pde[UEnvsPdx] = NoFrame
      /\ (m.free # <<>> => FirstPage < NPT /\ Head(m.free) = NPT - 1)
      /\ Stocked(m, TestPages, Pool)
  BY <1>1, <1>2 DEF InStock, Carved
<1>4. TestPages = {}
  BY <1>2 DEF TestPages
<1>5. PageOf(BootNext) = InfoEnd /\ frame = InfoEnd
  BY <1>3 DEF BootNext, PageOf
<1>6. /\ k \in Nat /\ NPages \in Nat /\ InfoEnd \in Nat /\ k + 1 <= InfoEnd /\ NPT \in Nat /\ NPT > 0
  BY <1>2, StockNumbers, Layout
<1>7. n \in Nat /\ n > 0
  <2>1. TasksSize \in Nat /\ TasksSize > 0
    <3>1. TasksSize \in Nat \ {0}
      BY BootMemoryAssumption
    <3> QED
      BY <3>1
  <2> QED
    BY <2>1, PagesAre
<1>8. m \in Orderly(D, m.maps, k, {}, u)
  BY <1>2, Ordered
<1>9. m \in Machines(D, m.maps, k)
  BY <1>8 DEF Orderly
<1>10. filled \subseteq High(k)
  <2> HIDE DEF frame, k, n
  <2> QED
    BY <1>5, <1>6, <1>7 DEF High
<1>11. x = Touch(m, filled)
  BY DEF Fill
<1>12. v \in Nat /\ size \in Nat /\ size > 0 /\ v + PagesIn(size) <= NPD * NPT
  <2>1. TasksSize \in Nat \ {0}
    BY BootMemoryAssumption
  <2>2. size \in Nat /\ TasksSize <= size
    BY <2>1, PagesAre
  <2> HIDE DEF size, v
  <2>3. size > 0
    BY <2>1, <2>2
  <2>4. v + PagesIn(size) <= NPD * NPT
    BY WindowsFit DEF v, size
  <2> QED
    BY <2>2, <2>3, <2>4, Layout DEF v
<1> HIDE DEF D, k, u, x, v, size, frame, perm, n, filled
<1>13. /\ x \in Machines(D, m.maps, k) /\ x.free = m.free /\ x.pde = m.pde /\ x.refs = m.refs
       /\ x.cr3 = m.cr3
  BY <1>9, <1>10, <1>11, TouchSame
<1>14. x \in Orderly(D, m.maps, k, {}, u)
  BY <1>8, <1>13, OrderlySame
<1>15. Stocked(x, {}, Pool)
  BY <1>3, <1>4, <1>13, StockSame
<1>16. x.stop = "no" /\ (x.pde[v \div NPT] = NoFrame => x.free # <<>> /\ Head(x.free) < NPages)
  <2>1. StaticMap(x, v, size, frame, perm).stop = "no"
    BY <1>1
  <2> DEFINE M == m.maps
  <2>2. x \in Machines(D, M, k)
    BY <1>13
  <2> HIDE DEF M
  <2> QED
    BY <1>12, <2>1, <2>2, MapTakes
<1>17. v \div NPT = UEnvsPdx
  <2>1. UEnvsPdx \in Int /\ v = UEnvsPdx * NPT /\ v \in Int
    BY <1>12, Layout DEF v
  <2>2. v <= v /\ v < v + NPT
    BY <1>6, <1>12
  <2> QED
    BY <1>6, <2>1, <2>2, QuotientIs
<1>18. m.free # <<>> /\ Head(m.free) < NPages
  BY <1>3, <1>13, <1>16, <1>17
<1>19. FirstPage < NPT /\ NPT <= NPages
  <2>1. Head(m.free) = NPT - 1 /\ FirstPage < NPT
    BY <1>3, <1>18
  <2> QED
    BY <1>6, <1>18, <2>1
<1>20. \A p \in filled : p < NPT
  <2> SUFFICES ASSUME NEW p \in filled, ~(p < NPT) PROVE FALSE
    OBVIOUS
  <2>1. x = [m EXCEPT !.stop = "fault"] \/ (x = m /\ m.stop # "no")
    BY <1>3, <1>11 DEF Touch
  <2>2. x.stop # "no"
    BY <1>9, <2>1 DEF Machines
  <2> QED
    BY <1>16, <2>2
<1>21. InfoEnd + n <= NPT
  <2>1. frame + n - 1 \in filled
    <3>1. frame \in Nat
      BY <1>5, <1>6
    <3> QED
      BY <1>7, <3>1 DEF filled
  <2>2. frame + n - 1 < NPT
    BY <1>20, <2>1
  <2> QED
    BY <1>5, <1>6, <1>7, <2>2
<1>22. BelowTables'
  <2>1. NPages' = NPages /\ PageOf(infos)' = PageOf(infos) /\ PageOf(tasks)' = PageOf(BootNext)
    BY <1>1 DEF NPages, PageOf
  <2>2. InfoEnd' = InfoEnd
    BY <2>1 DEF InfoEnd, PagesIn, RoundUp
  <2>3. FirstPage' = FirstPage
    BY <2>2 DEF FirstPage
  <2>4. PagesIn(TasksSize)' = n
    BY DEF n, PagesIn, RoundUp
  <2> QED
    BY <1>5, <1>19, <1>21, <2>1, <2>2, <2>3, <2>4 DEF BelowTables
<1>23. x \in Orderly(DOMAIN m.refs, m.maps, ImageEnd, {}, PageOf(kernelPageDir))
  BY <1>14 DEF D, k, u
<1> QED
  BY <1>1, <1>2, <1>12, <1>15, <1>22, <1>23, WindowInStock

LEMMA MapsInStock ==
  ASSUME LoadInv, SetupInv, InOrder, InStock, MapInfos \/ MapStack \/ MapMemory, image' = image,
         m'.stop = "no"
  PROVE  InStock'
<1>1. /\ NPT \in Nat /\ NPT > 0 /\ PgSize \in Nat /\ PgSize > 1 /\ KStkPages \in Nat /\ KStkPages > 0
      /\ NPD \in Nat /\ KernPdx \in 0..NPD-1
  <2>1. KStkPages \in Nat \ {0} /\ KernPdx \in 0..NPD-1
    BY BootMemoryAssumption
  <2> QED
    BY <2>1, Layout
<1>2. \A a, c \in Nat : a > 0 /\ c > 0 => a * c \in Nat /\ a * c >= c
  BY Product
<1>3. /\ stage \in Listed \ {"tasks"} /\ stage' \in Listed \ {"tasks"} /\ ~Testing /\ ~Testing'
      /\ kernelPageDir' = kernelPageDir /\ tasks' = tasks /\ infos' = infos /\ totalMem' = totalMem
  BY DEF MapInfos, MapStack, MapMemory, Listed, Testing
<1>4. m \in Orderly(DOMAIN m.refs, m.maps, ImageEnd, {}, PageOf(kernelPageDir))
  BY <1>3, Ordered
<1>5. Stocked(m, {}, Pool)
  BY <1>3 DEF InStock, Carved, TestPages
<1>6. BelowTables'
  BY <1>3, BelowKept
<1>7. CASE MapInfos
  <2> DEFINE v == UPagesPdx * NPT
             size == NPT * PgSize
             frame == infos \div PgSize
             perm == {"U"}
  <2>1. m' = StaticMap(m, v, size, frame, perm) /\ v + PagesIn(size) <= NPD * NPT
    BY <1>7, WindowsFit DEF MapInfos
  <2>2. v \in Nat /\ size \in Nat /\ size > 0
    BY <1>1, <1>2, Layout
  <2> HIDE DEF v, size, frame, perm
  <2> QED
    BY <1>3, <1>4, <1>5, <1>6, <2>1, <2>2, WindowInStock
<1>8. CASE MapStack
  <2> DEFINE v == KernPdx * NPT - KStkPages
             size == KStkPages * PgSize
             frame == image.stack \div PgSize
             perm == {"W"}
  <2>1. m' = StaticMap(m, v, size, frame, perm) /\ v + PagesIn(size) <= NPD * NPT
    BY <1>8, WindowsFit DEF MapStack
  <2>2. v \in Nat /\ size \in Nat /\ size > 0
    BY <1>1, <1>2, Layout
  <2> HIDE DEF v, size, frame, perm
  <2> QED
    BY <1>3, <1>4, <1>5, <1>6, <2>1, <2>2, WindowInStock
<1>9. CASE MapMemory
  <2> DEFINE d == NPD - KernPdx
             v == KernPdx * NPT
             size == d * NPT * PgSize - 1
             perm == {"W"}
  <2>1. m' = StaticMap(m, v, size, 0, perm) /\ v + PagesIn(size) <= NPD * NPT
    BY <1>9, WindowsFit DEF MapMemory
  <2>2. size \in Nat /\ size > 0
    <3>1. d \in Nat /\ d > 0
      BY <1>1
    <3> HIDE DEF d
    <3>2. d * NPT \in Nat /\ d * NPT > 0
      BY <1>1, <1>2, <3>1
    <3> DEFINE e == d * NPT
    <3> HIDE DEF e
    <3>3. e * PgSize \in Nat /\ e * PgSize >= PgSize
      BY <1>1, <1>2, <3>2 DEF e
    <3>4. size = e * PgSize - 1
      BY DEF e
    <3> QED
      BY <1>1, <3>3, <3>4
  <2>3. v \in Nat
    BY Layout
  <2> HIDE DEF v, size, perm
  <2> QED
    BY <1>3, <1>4, <1>5, <1>6, <2>1, <2>2, <2>3, WindowInStock
<1> QED
  BY <1>7, <1>8, <1>9

\* A step of the last two stages that leaves the memory alone.
LEMMA LastInStock ==
  ASSUME InStock, stage \in {"processors", "monitor"}, stage' \in {"processors", "monitor"},
         UNCHANGED setupVars, image' = image
  PROVE  InStock'
<1>1. /\ m' = m /\ kernelPageDir' = kernelPageDir /\ tasks' = tasks /\ infos' = infos
      /\ totalMem' = totalMem
  BY DEF setupVars
<1>2. stage \in Listed \ {"tasks"} /\ stage' \in Listed \ {"tasks"} /\ ~Testing /\ ~Testing'
  BY DEF Listed, Testing
<1>3. TestPages = {} /\ TestPages' = {}
  BY <1>2 DEF TestPages
<1>4. Stocked(m', TestPages', Pool)
  BY <1>1, <1>2, <1>3 DEF InStock, Carved
<1>5. BelowTables'
  BY <1>1, <1>2, BelowKept
<1> QED
  BY <1>1, <1>2, <1>4, <1>5, LaterInStock

LEMMA CountingInStock ==
  ASSUME LoadInv, SetupInv, PhaseInv, InOrder, InStock, Counting, m.stop = "no", m'.stop = "no"
  PROVE  InStock'
<1>1. /\ stage = "processors" /\ stage' = "processors" /\ image' = image
      /\ kernelPageDir' = kernelPageDir /\ tasks' = tasks /\ infos' = infos
      /\ ram' = ram /\ totalMem' = totalMem /\ next' = next
  BY DEF Counting, loadVars
<1>2. CASE pc = "lapic" /\ lapicPhy # 0
  <2> DEFINE v == MmioPdx * NPT
             size == RoundUp(PgSize)
             perm == {"W", "PCD", "PWT"}
  <2>1. MmioMap(lapicPhy, PgSize)
    BY <1>2 DEF Counting
  <2>2. ~(m' = Ensure(m, FALSE))
    <3> SUFFICES ASSUME m' = Ensure(m, FALSE) PROVE FALSE
      OBVIOUS
    <3>1. m' = [m EXCEPT !.stop = "panic"]
      BY DEF Ensure
    <3> QED
      BY <3>1 DEF SetupInv, OffImage, Machines
  <2>3. m' = StaticMap(m, v, size, lapicPhy, perm) /\ v + PagesIn(size) <= NPD * NPT
    BY <1>2, <2>1, <2>2, WindowsFit DEF MmioMap, PhaseInv
  <2>4. v \in Nat /\ size \in Nat /\ size > 0
    <3>1. PgSize \in Nat /\ PgSize > 0
      BY Layout
    <3>2. size \in Nat /\ PgSize <= size
      BY <3>1, PagesAre
    <3> HIDE DEF size
    <3> QED
      BY <3>1, <3>2, Layout
  <2>5. stage \in Listed \ {"tasks"} /\ stage' \in Listed \ {"tasks"} /\ ~Testing /\ ~Testing'
    BY <1>1 DEF Listed, Testing
  <2>6. m \in Orderly(DOMAIN m.refs, m.maps, ImageEnd, {}, PageOf(kernelPageDir))
    BY <2>5, Ordered
  <2>7. Stocked(m, {}, Pool)
    BY <2>5 DEF InStock, Carved, TestPages
  <2>8. BelowTables'
    BY <1>1, <2>5, BelowKept
  <2> HIDE DEF v, size, perm
  <2> QED
    BY <1>1, <2>3, <2>4, <2>5, <2>6, <2>7, <2>8, WindowInStock
<1>3. CASE ~(pc = "lapic" /\ lapicPhy # 0)
  <2>1. m' = m /\ mmioNext' = mmioNext
    BY <1>3 DEF Counting
  <2>2. UNCHANGED setupVars
    BY <1>1, <2>1 DEF setupVars
  <2> QED
    BY <1>1, <2>2, LastInStock
<1> QED
  BY <1>2, <1>3

LEMMA LoadInStock ==
  ASSUME LoadInv, SetupInv, InOrder, InStock, LoadDir, image' = image, m'.stop = "no"
  PROVE  InStock'
<1> DEFINE D == DOMAIN m.refs
           k == ImageEnd
           M == m.maps
           x == [m EXCEPT !.cr3 = "kernel"]
<1>1. /\ stage = "loadCr3" /\ stage' = "test" /\ \E cond : m' = Ensure(x, cond)
      /\ kernelPageDir' = kernelPageDir /\ tasks' = tasks /\ infos' = infos /\ totalMem' = totalMem
  BY DEF LoadDir
<1>2. /\ stage \in Listed \ {"tasks"} /\ stage' \in Listed \ {"tasks"} /\ ~Testing
      /\ TestPages = {} /\ TestPages' = {}
  BY <1>1 DEF Listed, Testing, TestPages
<1>3. m \in Machines(D, M, k)
  BY DEF SetupInv, OffImage
<1>4. x \in Machines(D, M, k) /\ x.free = m.free /\ x.pde = m.pde /\ x.refs = m.refs
  BY <1>3 DEF Machines
<1>5. PICK cond : m' = Ensure(x, cond)
  BY <1>1
<1> DEFINE y == Ensure(x, cond)
<1> HIDE DEF D, k, M, x
<1>6. y.free = x.free /\ y.pde = x.pde /\ y.refs = x.refs
  BY <1>4, EnsureSame
<1> HIDE DEF y
<1>7. m'.free = m.free /\ m'.pde = m.pde /\ m'.refs = m.refs
  BY <1>4, <1>5, <1>6 DEF y
<1>8. Stocked(m, {}, Pool)
  BY <1>2 DEF InStock, Carved
<1>9. Stocked(m', TestPages', Pool)
  BY <1>2, <1>7, <1>8, StockSame
<1>10. BelowTables'
  BY <1>1, <1>2, BelowKept
<1> QED
  BY <1>1, <1>2, <1>7, <1>9, <1>10, LaterInStock

\* The self test takes a page and gives the one before it back.
LEMMA TestInStock ==
  ASSUME LoadInv, SetupInv, InOrder, InStock, TestFirst \/ TestSecond, image' = image,
         m.stop = "no", m'.stop = "no"
  PROVE  InStock'
<1> DEFINE D == DOMAIN m.refs
           k == ImageEnd
           u == PageOf(kernelPageDir)
           M == m.maps
           K == TestPages
           v == TestVa
           p == Head(m.free)
           t == TakePage(m)
           y == Inserted(t, p, v)
           e == [frame |-> p, perm |-> {"W"}]
           P == Pool
           given == \A q : stage = "testAgain" /\ q = TestPage => y.refs[q] = 0
<1>1. /\ stage \in {"test", "testAgain"} /\ stage' \in {"testAgain", "testEnd"}
      /\ kernelPageDir' = kernelPageDir /\ tasks' = tasks /\ infos' = infos /\ totalMem' = totalMem
      /\ \/ m.free = <<>> /\ m' = Ensure(m, FALSE)
         \/ m.free # <<>> /\ \E cond : m' = Ensure(y, cond) /\ (cond => given)
  BY DEF TestFirst, TestSecond
<1>2. /\ stage \in Listed \ {"tasks"} /\ stage' \in Listed \ {"tasks"} /\ Testing'
  BY <1>1 DEF Listed, Testing
<1>3. k \in Nat /\ u # NoFrame
  BY <1>2, StockNumbers
<1>4. m \in Orderly(D, M, k, K, u) /\ Stocked(m, K, P)
  BY <1>2 DEF InOrder, InStock, Carved
<1>5. /\ m \in Machines(D, M, k) /\ LowAbove(M, k) /\ v \in Int /\ v < UEnvsPdx * NPT
      /\ v \div NPT \in Pdes
  BY Layout, WindowsFit DEF SetupInv, OffImage
<1>6. v \in DOMAIN M => /\ K = {M[v].frame} /\ M[v].frame \in High(k)
                        /\ stage = "testAgain" /\ M[v].frame = TestPage
  <2> SUFFICES ASSUME v \in DOMAIN M
               PROVE  /\ K = {M[v].frame} /\ M[v].frame \in High(k)
                      /\ stage = "testAgain" /\ M[v].frame = TestPage
    OBVIOUS
  <2>1. M[v].frame \in High(k)
    BY <1>5 DEF LowAbove
  <2>2. stage # "test"
    <3> SUFFICES ASSUME stage = "test" PROVE FALSE
      OBVIOUS
    <3>1. MapsAt(M, v) = Laid(v)
      BY <1>5 DEF InOrder, Testing
    <3>2. Laid(v) = Unmapped
      BY LaidAt, TestVaFree
    <3>3. M[v].frame = NoFrame
      BY <3>1, <3>2 DEF MapsAt, Unmapped
    <3> QED
      BY <1>3, <2>1, <3>3 DEF High, NoFrame
  <2>3. stage = "testAgain"
    BY <1>1, <2>2
  <2> QED
    BY <2>1, <2>3 DEF TestPages, Testing, TestPage, FrameAt
<1>7. v \notin DOMAIN M => K = {}
  <2>1. stage = "testAgain" => v \in DOMAIN M
    BY DEF SetupInv
  <2>2. stage = "test" => K = {}
    BY DEF TestPages, Testing
  <2> QED
    BY <1>1, <2>1, <2>2
<1> HIDE DEF D, k, u, M, K, v, P, given
<1>8. m.free # <<>>
  <2> SUFFICES ASSUME m' = Ensure(m, FALSE) PROVE FALSE
    BY <1>1
  <2>1. m' = [m EXCEPT !.stop = "panic"]
    BY DEF Ensure
  <2> QED
    BY <1>5, <2>1 DEF Machines
<1>9. p \in High(k) /\ p \notin K /\ t \in Orderly(D, M, k, K \cup {p}, u)
      /\ Stocked(t, K \cup {p}, P)
  BY <1>3, <1>4, <1>8, OrderlyTake, StockTake
<1>10. PICK cond : m' = Ensure(y, cond) /\ (cond => given)
  BY <1>1, <1>8
<1> HIDE DEF p, t, y
<1>11. y.stop = "no"
  BY <1>10 DEF Ensure
<1>12. /\ y \in Orderly(D, y.maps, k, {p}, u)
       /\ v \in DOMAIN y.maps
       /\ SameBut(M, y.maps, v, e)
  <2> DEFINE H == K \cup {p}
  <2>1. t \in Orderly(D, M, k, H, u)
    BY <1>9
  <2> HIDE DEF H, e
  <2>2. v \in DOMAIN M => K = {M[v].frame} /\ M[v].frame \in High(k)
    BY <1>6
  <2> USE DEF H
  <2>3. v = TestVa
    BY DEF v
  <2> QED
    BY <1>3, <1>9, <1>11, <2>2, <2>3, OrderlyInsert DEF y, e
<1>13. y \in Machines(D, y.maps, k)
  BY <1>12, OrderlyRefs
<1>14. cond
  <2> SUFFICES ASSUME ~cond PROVE FALSE
    OBVIOUS
  <2>1. m' = [y EXCEPT !.stop = "panic"]
    BY <1>10, <1>11 DEF Ensure
  <2> QED
    BY <1>13, <2>1 DEF Machines
<1>15. m' = y
  BY <1>10, <1>14 DEF Ensure
<1>16. v \in DOMAIN M => y.refs[M[v].frame] = 0
  BY <1>6, <1>10, <1>14 DEF given
<1>17. Stocked(y, {p}, P)
  <2> HIDE DEF e
  <2>1. v \in DOMAIN M => K = {M[v].frame} /\ M[v].frame \in High(k)
    BY <1>6
  <2>2. Inserted(t, p, v).stop = "no"
    BY <1>11 DEF y
  <2>3. v \in DOMAIN M => Inserted(t, p, v).refs[M[v].frame] = 0
    BY <1>16 DEF y
  <2>4. v \div NPT \in Pdes
    BY <1>5
  <2>5. Stocked(Inserted(t, p, v), {p}, P)
    BY <1>3, <1>7, <1>9, <2>1, <2>2, <2>3, <2>4, StockInsert
  <2> QED
    BY <2>5 DEF y
<1>18. TestPages' = {p}
  <2>1. v \in DOMAIN m'.maps /\ MapsAt(m'.maps, v) = e
    BY <1>5, <1>12, <1>15 DEF SameBut
  <2>2. m'.maps[v].frame = p
    BY <2>1 DEF MapsAt
  <2>3. TestVa' = v
    BY DEF TestVa, v
  <2>4. TestPage' = p
    BY <2>1, <2>2, <2>3 DEF TestPage, FrameAt
  <2> QED
    BY <1>2, <2>4 DEF TestPages
<1>19. Stocked(m', TestPages', Pool)
  BY <1>15, <1>17, <1>18 DEF P
<1>20. DOMAIN m'.refs = DOMAIN m.refs
  BY <1>12, <1>15, OrderlyRefs DEF D
<1>21. BelowTables'
  BY <1>1, <1>2, BelowKept
<1> QED
  BY <1>1, <1>2, <1>19, <1>20, <1>21, LaterInStock

LEMMA TestEndInStock ==
  ASSUME LoadInv, SetupInv, PhaseInv, InOrder, InStock, TestEnd, image' = image,
         m.stop = "no", m'.stop = "no"
  PROVE  InStock'
<1> DEFINE D == DOMAIN m.refs
           k == ImageEnd
           u == PageOf(kernelPageDir)
           M == m.maps
           v == TestVa
           q == M[v].frame
           K == {q}
           y == Removed(m, v)
           P == Pool
<1>1. /\ stage = "testEnd" /\ stage' = "processors"
      /\ kernelPageDir' = kernelPageDir /\ tasks' = tasks /\ infos' = infos /\ totalMem' = totalMem
      /\ \E cond : m' = Ensure(y, cond) /\ (cond => y.refs[TestPage] = 0)
  BY DEF TestEnd
<1>2. /\ stage \in Listed \ {"tasks"} /\ stage' \in Listed \ {"tasks"} /\ Testing
      /\ TestPages' = {}
  BY <1>1 DEF Listed, Testing, TestPages
<1>3. k \in Nat
  BY Allocated
<1>4. LowAbove(M, k) /\ v \in Int /\ v < UEnvsPdx * NPT /\ v \in DOMAIN M
  BY <1>1, Layout DEF SetupInv, OffImage
<1>5. q \in High(k)
  BY <1>4 DEF LowAbove
<1>6. TestPages = K /\ TestPage = q
  BY <1>2, <1>4 DEF TestPages, TestPage, FrameAt
<1>7. m \in Orderly(D, M, k, K, u) /\ Stocked(m, K, P)
  BY <1>2, <1>6 DEF InOrder, InStock, Carved
<1>8. q \in K /\ K \ {q} = {}
  OBVIOUS
<1>9. PICK cond : m' = Ensure(y, cond) /\ (cond => y.refs[TestPage] = 0)
  BY <1>1
<1> HIDE DEF D, k, u, M, v, K, P
<1>10. y \in Orderly(D, y.maps, k, {}, u)
  <2> DEFINE H == K \ {q}
  <2>1. y \in Orderly(D, y.maps, k, H, u)
    BY <1>3, <1>5, <1>7, <1>8, OrderlyRemove
  <2>2. H = {}
    BY <1>8
  <2> HIDE DEF H
  <2> QED
    BY <2>1, <2>2
<1>11. y \in Machines(D, y.maps, k)
  BY <1>10, OrderlyRefs
<1> HIDE DEF y
<1>12. y.stop = "no"
  BY <1>9 DEF Ensure
<1>13. cond
  <2> SUFFICES ASSUME ~cond PROVE FALSE
    OBVIOUS
  <2>1. m' = [y EXCEPT !.stop = "panic"]
    BY <1>9, <1>12 DEF Ensure
  <2> QED
    BY <1>11, <2>1 DEF Machines
<1>14. m' = y /\ y.refs[q] = 0
  BY <1>6, <1>9, <1>13 DEF Ensure
<1>15. Stocked(y, {}, P)
  <2> DEFINE H == K \ {q}
  <2>1. Removed(m, v).refs[M[v].frame] = 0
    BY <1>14 DEF y
  <2>2. Stocked(Removed(m, v), H, P)
    BY <1>3, <1>5, <1>7, <1>8, <2>1, StockRemove
  <2>3. H = {}
    BY <1>8
  <2> HIDE DEF H
  <2> QED
    BY <2>2, <2>3 DEF y
<1>16. Stocked(m', TestPages', Pool)
  BY <1>2, <1>14, <1>15 DEF P
<1>17. DOMAIN m'.refs = DOMAIN m.refs
  BY <1>10, <1>14, OrderlyRefs DEF D
<1>18. BelowTables'
  BY <1>1, <1>2, BelowKept
<1> QED
  BY <1>1, <1>2, <1>16, <1>17, <1>18, LaterInStock

LEMMA StockInvNext ==
  BootInv /\ LayoutInv /\ StockInv /\ [BootNextStep]_bvars => StockInv'
<1> SUFFICES ASSUME LoadInv, SetupInv, LayoutInv, StockInv, [BootNextStep]_bvars
             PROVE  StockInv'
  BY DEF BootInv
<1>1. ram' = ram /\ totalMem' <= ram
  <2>1. CASE Detect /\ SettingUp
    BY <2>1, MemoryMeasured DEF Detect
  <2>2. CASE ~Detect \/ ~SettingUp
    <3> DEFINE kept == ram' = ram /\ totalMem' = totalMem
    <3>1. AllocDir => kept
      BY DEF AllocDir
    <3>2. InitPages => kept
      BY DEF InitPages
    <3>3. AllocTasks => kept
      BY DEF AllocTasks
    <3>4. MapInfos \/ MapStack \/ MapMemory => kept
      BY DEF MapInfos, MapStack, MapMemory
    <3>5. LoadDir => kept
      BY DEF LoadDir
    <3>6. TestFirst \/ TestSecond => kept
      BY DEF TestFirst, TestSecond
    <3>7. TestEnd => kept
      BY DEF TestEnd
    <3>8. SettingUp => kept
      BY <2>2, <3>1, <3>2, <3>3, <3>4, <3>5, <3>6, <3>7 DEF SettingUp, SetupNext
    <3>9. Loading \/ EnterMonitor \/ UNCHANGED bvars => kept
      BY DEF Loading, EnterMonitor, bvars, setupVars
    <3>10. Counting => kept
      BY DEF Counting
    <3> QED
      BY <3>8, <3>9, <3>10 DEF BootNextStep, StockInv
  <2> QED
    BY <2>1, <2>2
<1>2. SUFFICES ASSUME m'.stop = "no" PROVE InStock'
  BY <1>1 DEF StockInv
<1>3. m.stop = "no" => InOrder /\ InStock
  BY DEF LayoutInv, StockInv
<1>4. CASE Loading
  <2>1. /\ m' = m /\ next' = next /\ stage \in Early /\ stage' \in Early
    BY <1>4 DEF Loading, LoadNext, ReadSector, NotElf, NextSegment, EnterKernel, ClearBss,
                SegmentRead, setupVars, Early
  <2> QED
    BY <1>3, <2>1, <1>2 DEF InStock, Early, Listed
<1>5. CASE SettingUp
  <2>1. SetupNext /\ UNCHANGED vars /\ image' = image /\ m.stop = "no" /\ InOrder /\ InStock /\ PhaseInv
    BY <1>3, <1>5 DEF SettingUp, SetupNext, loadVars, LayoutInv
  <2>2. CASE Detect
    <3>1. m' = m /\ next' = next /\ stage \in Early /\ stage' \in Early
      BY <2>2 DEF Detect, Early
    <3> QED
      BY <2>1, <3>1 DEF InStock, Early, Listed
  <2>3. CASE AllocDir
    BY <1>2, <2>1, <2>3, DirInStock
  <2>4. CASE InitPages
    BY <1>2, <2>1, <2>4, ListInStock
  <2>5. CASE AllocTasks
    BY <1>2, <2>1, <2>5, TasksInStock
  <2>6. CASE MapInfos \/ MapStack \/ MapMemory
    BY <1>2, <2>1, <2>6, MapsInStock
  <2>7. CASE LoadDir
    BY <1>2, <2>1, <2>7, LoadInStock
  <2>8. CASE TestFirst \/ TestSecond
    BY <1>2, <2>1, <2>8, TestInStock
  <2>9. CASE TestEnd
    BY <1>2, <2>1, <2>9, TestEndInStock
  <2> QED
    BY <2>1, <2>2, <2>3, <2>4, <2>5, <2>6, <2>7, <2>8, <2>9 DEF SetupNext
<1>6. CASE Counting
  <2>1. m.stop = "no" /\ PhaseInv
    BY <1>6 DEF Counting, LayoutInv
  <2> QED
    BY <1>2, <1>3, <1>6, <2>1, CountingInStock
<1>7. CASE EnterMonitor
  <2>1. /\ UNCHANGED setupVars /\ image' = image /\ stage \in {"processors", "monitor"}
        /\ stage' \in {"processors", "monitor"} /\ m.stop = "no"
    BY <1>7 DEF EnterMonitor, loadVars
  <2> QED
    BY <1>3, <2>1, LastInStock
<1>8. CASE UNCHANGED bvars
  <2>1. /\ image' = image /\ stage' = stage /\ m' = m /\ next' = next /\ kernelPageDir' = kernelPageDir
        /\ infos' = infos /\ tasks' = tasks /\ totalMem' = totalMem
    BY <1>8 DEF bvars, loadVars, setupVars
  <2>2. InStock
    BY <1>2, <1>3, <2>1
  <2>3. CASE stage \notin Listed \ {"tasks"}
    <3>1. /\ NPages' = NPages /\ ImageEnd' = ImageEnd /\ PageOf(kernelPageDir)' = PageOf(kernelPageDir)
          /\ PageOf(infos)' = PageOf(infos) /\ PageOf(next)' = PageOf(next)
      BY <2>1 DEF NPages, ImageEnd, PageOf
    <3>2. InfoEnd' = InfoEnd
      BY <3>1 DEF InfoEnd, PagesIn, RoundUp
    <3>3. FirstPage' = FirstPage
      BY <3>2 DEF FirstPage
    <3>4. Pool' = Pool
      BY <3>1, <3>3 DEF Pool, PagesFrom
    <3>5. TestPages' = TestPages
      BY <2>1 DEF TestPages, Testing, TestPage, FrameAt, TestVa
    <3>6. Carved => Carved'
      <4>1. Stocked(m, TestPages, Pool) => Stocked(m, TestPages, Pool)'
        BY <2>1, <3>4, <3>5 DEF Stocked, TableSet
      <4> QED
        BY <2>1, <3>1, <4>1 DEF Carved
    <3> QED
      BY <2>1, <2>2, <2>3, <3>1, <3>2, <3>3, <3>6 DEF InStock
  <2>4. CASE stage \in Listed \ {"tasks"}
    <3>1. Stocked(m', TestPages', Pool)
      <4>1. TestPages' = TestPages
        BY <2>1 DEF TestPages, Testing, TestPage, FrameAt, TestVa
      <4> QED
        BY <2>1, <2>2, <2>4, <4>1 DEF InStock, Carved
    <3>2. BelowTables'
      BY <2>1, <2>2, <2>4, BelowKept
    <3> QED
      BY <2>1, <2>2, <2>4, <3>1, <3>2, LaterInStock
  <2> QED
    BY <2>3, <2>4
<1> QED
  BY <1>4, <1>5, <1>6, <1>7, <1>8 DEF BootNextStep

-----------------------------------------------------------------------------
\* At the prompt.
LEMMA ListSize ==
  ASSUME NEW f \in Seq(Int), \A s, j \in 1..Len(f) : f[s] = f[j] => s = j
  PROVE  Cardinality(ToSet(f)) = Len(f)
<1> DEFINE n == Len(f)
           S == ToSet(f)
<1>1. n \in Nat /\ DOMAIN f = 1..n /\ f \in [1..n -> Int]
  BY LenProperties
<1>2. \A p : p \in S <=> \E j \in 1..n : f[j] = p
  BY ListSet
<1> HIDE DEF S
<1>3. f \in [1..n -> S]
  BY <1>1, <1>2
<1>4. f \in Bijection(1..n, S)
  BY <1>2, <1>3 DEF Bijection, Injection, IsInjective, Surjection
<1>5. ExistsBijection(1..n, S)
  BY <1>4 DEF ExistsBijection
<1>6. Cardinality(S) = n
  BY <1>1, <1>5, FS_CountingElements
<1> QED
  BY <1>6 DEF S

\* The image fills the pages from 1 MB on, and PageInfo::array ends behind it.
LEMMA ImagePagesAre ==
  ASSUME LoadInv, SetupInv, InStock, stage \in Listed
  PROVE  /\ MB1 \div PgKB \in Nat /\ MB1 \div PgKB < ImageEnd
         /\ ImagePages = MB1 \div PgKB .. ImageEnd - 1
         /\ FirstPage = InfoEnd
<1> DEFINE a == MB1 \div PgKB
           e == image.kernEnd
           q == (e - 1) \div PgSize
           r == (e - 1) % PgSize
<1>1. image \in Images /\ e \in Nat /\ e > 0 /\ PgSize \in Nat /\ PgSize > 0
  <2>1. image.kernEnd \in Nat \ {0}
    BY ImageIs
  <2>2. image \in Images
    BY DEF LoadInv
  <2> QED
    BY <2>1, <2>2, Layout
<1>2. ImagePages = a..q /\ a <= q
  <2>1. PageOf(e - 1) = q
    BY DEF PageOf
  <2>2. PagesOf(image) = a .. PageOf(e - 1) /\ a <= PageOf(e - 1)
    BY <1>1, BootAssumption
  <2> HIDE DEF a, q
  <2> QED
    BY <2>1, <2>2 DEF ImagePages
<1>3. a \in Nat
  <2>1. {MB1, MB16, BaseKB, ExtMaxKB} \subseteq Nat
    BY BootMemoryAssumption
  <2>2. PgKB \in Nat \ {0}
    BY BootMemoryAssumption
  <2> QED
    BY <2>1, <2>2
<1>4. ImageEnd \in Nat /\ InfoEnd \in Nat /\ ImageEnd + 1 <= InfoEnd
  BY StockNumbers
<1>5. ImageEnd = q + 1 /\ q \in Int
  <2>1. ImageEnd = (e + PgSize - 1) \div PgSize
    BY <1>1, PagesQuotient DEF ImageEnd
  <2>2. q \in Int /\ r \in 0..PgSize-1 /\ e - 1 = q * PgSize + r
    <3> DEFINE b == e - 1
    <3>1. b \in Int
      BY <1>1
    <3> HIDE DEF b
    <3>2. b \div PgSize \in Int /\ b % PgSize \in 0..PgSize-1 /\ b = (b \div PgSize) * PgSize + (b % PgSize)
      BY <1>1, <3>1, Quotient
    <3> QED
      BY <3>2 DEF b
  <2> HIDE DEF q, r, e
  <2> DEFINE c == e + PgSize - 1
             s == (q + 1) * PgSize
  <2>3. s \in Int /\ s = q * PgSize + PgSize /\ q * PgSize \in Int /\ q + 1 \in Int
    BY <1>1, <2>2
  <2>4. s <= c /\ c < s + PgSize /\ c \in Int
    <3> HIDE DEF s
    <3> QED
      BY <1>1, <2>2, <2>3
  <2> HIDE DEF c
  <2>5. c \div PgSize = q + 1
    BY <1>1, <2>3, <2>4, QuotientIs
  <2> QED
    BY <2>1, <2>2, <2>5 DEF c
<1> HIDE DEF a, e, q, r
<1>6. a < ImageEnd
  BY <1>2, <1>3, <1>5
<1>7. FirstPage = InfoEnd
  <2>1. \A y \in {a, InfoEnd} : InfoEnd >= y
    BY <1>3, <1>4, <1>6
  <2>2. \E x \in {a, InfoEnd} : \A y \in {a, InfoEnd} : x >= y
    BY <2>1, Zenon
  <2>3. Max({a, InfoEnd}) \in {a, InfoEnd} /\ \A y \in {a, InfoEnd} : Max({a, InfoEnd}) >= y
    BY <2>2, Zenon DEF Max
  <2>4. FirstPage = Max({a, InfoEnd})
    BY DEF FirstPage, a
  <2> HIDE DEF FirstPage
  <2> DEFINE x == Max({a, InfoEnd})
  <2>5. x \in {a, InfoEnd} /\ x >= InfoEnd
    BY <2>3
  <2> HIDE DEF x
  <2>6. x = InfoEnd
    BY <1>3, <1>4, <1>6, <2>5
  <2> QED
    BY <2>4, <2>6 DEF x
<1>8. q = ImageEnd - 1
  BY <1>5
<1>9. ImagePages = a .. ImageEnd - 1
  BY <1>2, <1>8
<1> QED
  BY <1>3, <1>6, <1>7, <1>9 DEF a

\* The pages that boot took and those that it listed.
LEMMA PoolIs ==
  ASSUME LoadInv, SetupInv, InStock, stage \in Listed \ {"tasks"}
  PROVE  /\ Pool = (InfoEnd..NPages-1) \cup {ImageEnd}
         /\ Pool \cup TaskPages \cup ImagePages \cup InfoPages = MB1 \div PgKB .. NPages - 1
         /\ Pool \cap InfoPages = {}
         /\ Pool \subseteq 0..NPages-1
<1> DEFINE a == MB1 \div PgKB
           n == PagesIn(TasksSize)
           k == ImageEnd
           i1 == InfoEnd
           P == Pool
<1>1. /\ k \in Nat /\ NPages \in Nat /\ i1 \in Nat /\ k + 1 <= i1 /\ PageOf(kernelPageDir) = k
      /\ NPT \in Nat
  BY StockNumbers, Layout
<1>2. a \in Nat /\ a < k /\ ImagePages = a .. k - 1 /\ FirstPage = i1
  BY ImagePagesAre
<1>3. /\ PageOf(infos) = k + 1
      /\ i1 < NPT /\ NPT <= NPages /\ PageOf(tasks) = i1 /\ i1 + n <= NPT
  BY <1>2 DEF InStock, Carved, BelowTables
<1>4. n \in Nat
  BY Sizes
<1>5. TaskPages = i1 .. i1 + n - 1
  BY <1>3 DEF TaskPages
<1>6. InfoPages = k + 1 .. i1 - 1
  <2> DEFINE l == PagesIn(InfoSize * NPages)
  <2>1. InfoPages = PageOf(infos) .. PageOf(infos) + l - 1
    BY DEF InfoPages
  <2>2. i1 = PageOf(infos) + l
    BY DEF InfoEnd
  <2>3. l \in Nat
    <3>1. InfoSize \in Nat \ {0}
      BY BootMemoryAssumption
    <3>2. InfoSize * NPages \in Nat
      BY <1>1, <3>1, Product
    <3> QED
      BY <3>2, PagesAre
  <2> HIDE DEF l, i1, k
  <2>4. PageOf(infos) + l - 1 = i1 - 1
    BY <1>1, <1>3, <2>2, <2>3
  <2> QED
    BY <1>3, <2>1, <2>4
<1>7. P = (i1..NPT-1) \cup (NPT..NPages-1) \cup {k}
  BY <1>1, <1>2 DEF Pool, PagesFrom
<1> HIDE DEF a, n, k, i1, P
<1> DEFINE N == NPages
<1> HIDE DEF N
<1>8. N \in Nat /\ NPT <= N /\ P = (i1..NPT-1) \cup (NPT..N-1) \cup {k}
  BY <1>1, <1>3, <1>7 DEF N
<1>9. (i1..NPT-1) \cup (NPT..N-1) = i1..N-1
  BY <1>1, <1>3, <1>8
<1>10. P = (i1..N-1) \cup {k}
  BY <1>8, <1>9
<1>11. P \cup TaskPages \cup ImagePages \cup InfoPages = a .. N - 1
  <2>1. \A q \in Int : q \in TaskPages => q \in i1..N-1
    BY <1>1, <1>3, <1>4, <1>5, <1>8
  <2>2. \A q \in Int : q \in a..N-1 <=> \/ q \in i1..N-1 \/ q = k \/ q \in a..k-1 \/ q \in k+1..i1-1
    BY <1>1, <1>2, <1>3, <1>8
  <2>3. TaskPages \subseteq i1..N-1
    BY <1>1, <1>4, <1>5, <2>1
  <2>4. a..N-1 = (i1..N-1) \cup {k} \cup (a..k-1) \cup (k+1..i1-1)
    BY <1>1, <1>2, <1>8, <2>2
  <2> QED
    BY <1>2, <1>6, <1>10, <2>3, <2>4
<1>12. P \cap InfoPages = {}
  <2> SUFFICES ASSUME NEW q \in P, q \in InfoPages PROVE FALSE
    OBVIOUS
  <2>1. q \in k+1..i1-1
    BY <1>6
  <2>2. q \in i1..N-1 \/ q = k
    BY <1>10
  <2> QED
    BY <1>1, <1>8, <2>1, <2>2
<1>13. P \subseteq 0..N-1
  BY <1>1, <1>3, <1>8, <1>10
<1> QED
  BY <1>10, <1>11, <1>12, <1>13 DEF a, k, i1, P, N

\* No machine has more memory than there is room for at KERNBASE.
Addressable == \A r \in Ram : r \div PgKB <= (NPD - KernPdx) * NPT

\* Physical memory lies at KERNBASE.
LEMMA MemoryAt ==
  ASSUME InOrder, stage = "monitor", NEW p \in Nat, p < (NPD - KernPdx) * NPT
  PROVE  FrameAt(m, KernPdx * NPT + p) = p
<1> DEFINE v == KernPdx * NPT
           w == v + p
           n == (NPD - KernPdx) * NPT
           b == MmioPdx * NPT
<1>1. v \in Nat /\ b \in Nat /\ w \in Int
  BY Layout
<1>2. b + 1 <= v
  <2>1. NPT \in Nat /\ NPT > 0
    BY Layout
  <2>2. MmioPdx \in Int /\ KernPdx \in Int /\ MmioPdx < KernPdx
    <3>1. KernPdx \in 0..NPD-1 /\ NPD \in Nat
      BY BootMemoryAssumption
    <3> QED
      BY <3>1 DEF MmioPdx
  <2>3. b + NPT <= v
    BY <2>1, <2>2, Apart
  <2> HIDE DEF b, v
  <2> QED
    BY <1>1, <2>1, <2>3
<1>3. n \in Int
  <2>1. NPD - KernPdx \in Nat /\ NPT \in Nat
    <3>1. KernPdx \in 0..NPD-1 /\ NPD \in Nat
      BY BootMemoryAssumption
    <3> QED
      BY <3>1, Layout
  <2> DEFINE d == NPD - KernPdx
  <2> HIDE DEF d
  <2> QED
    BY <2>1, Product DEF d
<1>4. MapsAt(m.maps, w) = Laid(w)
  <2>1. ~Testing
    BY DEF Testing
  <2> QED
    BY <1>1, <2>1 DEF InOrder
<1>5. Laid(w) = IF HasLapic THEN LapicLaid(w) ELSE MemoryLaid(w)
  BY LaidAt
<1>6. MemoryLaid(w) = Window(w, v, n, 0, {"W"}, StackLaid(w))
  BY Sizes DEF MemoryLaid
<1>7. LapicLaid(w) = Window(w, b, 1, lapicPhy, {"W", "PCD", "PWT"}, MemoryLaid(w))
  BY Sizes DEF LapicLaid
<1> HIDE DEF v, n, b
<1>8. w \in v..v+n-1 /\ w - v = p
  <2>1. p < n
    BY DEF n
  <2> QED
    BY <1>1, <1>3, <2>1
<1>9. MemoryLaid(w) = [frame |-> 0 + p, perm |-> {"W"}]
  BY <1>6, <1>8 DEF Window
<1>10. w \notin b..b+1-1
  BY <1>1, <1>2
<1>11. LapicLaid(w) = MemoryLaid(w)
  BY <1>7, <1>10 DEF Window
<1> HIDE DEF w
<1>12. MapsAt(m.maps, w).frame = p
  <2>1. MapsAt(m.maps, w) = [frame |-> 0 + p, perm |-> {"W"}]
    BY <1>4, <1>5, <1>9, <1>11
  <2> QED
    BY <2>1
<1>13. FrameAt(m, w) = p
  BY <1>12 DEF FrameAt, MapsAt, Unmapped
<1> QED
  BY <1>13 DEF w, v

LEMMA FreePagesHold ==
  ASSUME Addressable
  PROVE  BootInv /\ LayoutInv /\ StockInv => FreePagesUsable
<1> DEFINE k == ImageEnd
           a == MB1 \div PgKB
           N == NPages
           f == m.free
           S == ToSet(f)
<1> SUFFICES ASSUME BootInv, LayoutInv, StockInv, stage = "monitor"
             PROVE  /\ Cardinality(S) = Len(f)
                    /\ S \cup TaskPages \cup ImagePages \cup InfoPages \cup TablePages = a..N-1
                    /\ S \cap (ImagePages \cup InfoPages \cup TablePages) = {}
                    /\ \A p \in S : /\ (p + 1) * PgKB <= ram
                                    /\ m.refs[p] = 0
                                    /\ FrameAt(m, KernPdx * NPT + p) = p
  BY DEF FreePagesUsable
<1>1. LoadInv /\ SetupInv /\ PhaseInv /\ m.stop = "no" /\ InOrder /\ InStock
  BY DEF BootInv, LayoutInv, PhaseInv, StockInv
<1>2. stage \in Listed /\ stage \in Listed \ {"tasks"} /\ ~Testing /\ TestPages = {}
  BY DEF Listed, Testing, TestPages
<1>3. m \in Orderly(DOMAIN m.refs, m.maps, k, {}, PageOf(kernelPageDir))
  BY <1>1, <1>2, Ordered
<1>4. Separate(f, m.pde, {}) /\ f \in Seq(Int)
  <2>1. m \in Machines(DOMAIN m.refs, m.maps, k)
    BY <1>3 DEF Orderly
  <2> QED
    BY <1>3, <2>1, ListOf DEF Orderly
<1>5. Stocked(m, {}, Pool) /\ DOMAIN m.refs = 0..N-1
  BY <1>1, <1>2 DEF InStock, Carved
<1>6. /\ Pool \cup TaskPages \cup ImagePages \cup InfoPages = a..N-1
      /\ Pool \cap InfoPages = {}
      /\ Pool \subseteq 0..N-1
  BY <1>1, <1>2, PoolIs
<1>7. TablePages = TableSet(m.pde)
  BY DEF TablePages, TableSet, Pdes
<1>8. ImageKept
  BY ImageIsKept
<1> HIDE DEF k, a, N, f, S
<1>9. S \cup TablePages = Pool
  BY <1>5, <1>7 DEF Stocked, S, f
<1>10. Cardinality(S) = Len(f)
  BY <1>4, ListSize DEF Separate, S
<1>11. S \cup TaskPages \cup ImagePages \cup InfoPages \cup TablePages = a..N-1
  BY <1>6, <1>9
<1>12. S \cap (ImagePages \cup InfoPages \cup TablePages) = {}
  <2>1. S \cap TablePages = {}
    BY <1>4, <1>7, ApartSets DEF S
  <2>2. S \cap ImagePages = {}
    BY <1>8 DEF ImageKept, S, f
  <2> QED
    BY <1>6, <1>9, <2>1, <2>2
<1>13. ASSUME NEW p \in S
       PROVE  /\ (p + 1) * PgKB <= ram
              /\ m.refs[p] = 0
              /\ FrameAt(m, KernPdx * NPT + p) = p
  <2>1. p \in 0..N-1
    BY <1>6, <1>9
  <2>2. /\ N \in Nat /\ totalMem \in Nat /\ ram \in Ram /\ ram \in Nat /\ totalMem <= ram
        /\ PgKB \in Nat /\ PgKB > 0
    <3>1. PgKB \in Nat \ {0} /\ Ram \subseteq Nat
      BY BootMemoryAssumption
    <3>2. N \in Nat
      BY <1>1, <1>2, StockNumbers DEF N
    <3>3. totalMem \in Nat /\ ram \in Ram /\ totalMem <= ram
      BY <1>1 DEF SetupInv, StockInv
    <3> QED
      BY <3>1, <3>2, <3>3
  <2>3. (p + 1) * PgKB <= ram
    <3> DEFINE r == totalMem % PgKB
               q == p + 1
               c == N * PgKB
               e == q * PgKB
    <3>1. r \in 0..PgKB-1 /\ totalMem = c + r
      BY <2>2, Quotient DEF N, NPages
    <3>2. q \in Int /\ q <= N
      BY <2>1, <2>2
    <3>3. c \in Int /\ e \in Int
      BY <2>2, <3>2
    <3> HIDE DEF q
    <3>4. q < N => e + PgKB <= c
      BY <2>2, <3>2, Apart
    <3>5. q = N => e = c
      OBVIOUS
    <3> HIDE DEF e, c, r
    <3>6. e <= ram
      BY <2>2, <3>1, <3>2, <3>3, <3>4, <3>5
    <3> QED
      BY <3>6 DEF e, q
  <2>4. m.refs[p] = 0
    BY <1>5, <2>1 DEF Stocked, S, f
  <2>5. FrameAt(m, KernPdx * NPT + p) = p
    <3> DEFINE room == (NPD - KernPdx) * NPT
    <3>1. N <= ram \div PgKB /\ ram \div PgKB <= room /\ ram \div PgKB \in Int
      BY <2>2, QuotientGrows, Quotient DEF N, NPages, Addressable
    <3>2. room \in Int
      <4>1. KernPdx \in 0..NPD-1 /\ NPD \in Nat
        BY BootMemoryAssumption
      <4> DEFINE d == NPD - KernPdx
      <4>2. d \in Nat /\ NPT \in Nat
        BY <4>1, Layout
      <4> HIDE DEF d
      <4> QED
        BY <4>2, Product DEF d
    <3> HIDE DEF room
    <3>3. p \in Nat /\ p < room
      BY <2>1, <2>2, <3>1, <3>2
    <3> QED
      BY <1>1, <3>3, MemoryAt DEF room
  <2> QED
    BY <2>3, <2>4, <2>5
<1> QED
  BY <1>10, <1>11, <1>12, <1>13

\* At the prompt every page above 1 MB that the machine has and the kernel can address is
\* on the free list, once, counted as free, and mapped, unless boot took it: what the asserts
\* of page::init and the self test of pgdir::init look at in single pages holds of all of
\* them, whatever image was loaded and however much memory was detected.  With more memory
\* than fits at KERNBASE the list would hold pages that the kernel cannot reach, as page::init
\* does not look.
THEOREM FreeListCorrect ==
  ASSUME Addressable
  PROVE  BootSpec => []FreePagesUsable
<1> DEFINE Inv == BootInv /\ LayoutInv /\ StockInv
<1>1. BootInit => Inv
  BY BootInvInit, LayoutInvInit, StockInvInit
<1>2. Inv /\ [BootNextStep]_bvars => Inv'
  BY BootInvNext, LayoutInvNext, StockInvNext
<1>3. Inv => FreePagesUsable
  BY FreePagesHold
<1> QED
  BY <1>1, <1>2, <1>3, PTL DEF BootSpec
=============================================================================
