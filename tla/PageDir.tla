------------------------------ MODULE PageDir ------------------------------
(***************************************************************************)
(* Page directories and page tables (kernel/vmem.cc:180-337) and the pages  *)
(* of a task (kernel/task.cc:109-203), as operators on the record of        *)
(* PhysMem with two more fields:                                            *)
(*   word : Page -> Index -> Word   what a page holds, read as a table: the *)
(*                                  page an entry points to, or NoPage when *)
(*                                  the entry is not present, a cleared     *)
(*                                  word.  Anything else is data that a     *)
(*                                  program or a loader wrote: Data         *)
(*   wild : BOOLEAN                 the kernel walked into Data, or gave    *)
(*                                  out a page that holds kernel data: what *)
(*                                  it does next is not in the code         *)
(* A page holds NWords words (1024 in the code), as a directory, a table or *)
(* data.  Permission bits are left out.                                     *)
(***************************************************************************)
EXTENDS PhysMem

CONSTANTS NWords,    \* NPDENTRIES and NPTENTRIES
          NUser,     \* PDX(UTOP): directory entries below it belong to the task
          Resident,  \* pages above FirstFree that hold kernel data (Task::array)
          Data       \* a word of a data page

KernPdx == NUser         \* stands for all entries that the kernel maps statically
SelfPdx == NUser + 1     \* PDX(UVPT): the directory as its own table
Index   == 0..NWords-1
UserPdx == 0..NUser-1
KDir    == 0             \* kernelPageDir comes from bootAlloc

ASSUME PageDirAssumption == /\ NWords \in Nat /\ NUser \in Nat /\ NUser + 1 < NWords
                            /\ FirstFree > 0
                            /\ Resident \subseteq Page \ Reserved
                            /\ Data \notin Page \cup {NoPage}

Va == UserPdx \X Index   \* a user address: its PDX and its PTX

Memory == [refCount : [Page -> 0..RefMod-1], nextFree : [Page -> PageRef],
           freeList : PageRef, panic : BOOLEAN,
           word : [Page -> [Index -> PageRef \cup {Data}]], wild : BOOLEAN]

ZeroPage == [i \in Index |-> NoPage]
DataPage == [i \in Index |-> Data]
IsData(w) == w # NoPage /\ w \notin Page

Stopped(m) == m.panic \/ m.wild
Wild(m)    == [m EXCEPT !.wild = TRUE]
Panic(m)   == [m EXCEPT !.panic = TRUE]

\* Op applied to m for 0, 1, .., n-1 in turn, a `for` loop.
For(n, Op(_, _), m) ==
    LET after[k \in 0..n] == IF k = 0 THEN m ELSE Op(after[k-1], k-1)
    IN after[n]

(***************************************************************************)
(* PageInfo::alloc(true), for callers that found the list not empty.        *)
(***************************************************************************)
AllocZero(m) ==
    IF m.freeList \in Resident THEN Wild(m)
    ELSE [AfterAlloc(m) EXCEPT !.word[m.freeList] = ZeroPage]

(***************************************************************************)
(* findPte with create: the table of an absent directory entry is           *)
(* allocated, counted and entered.  The entry stays NoPage when there is no *)
(* page, and findPte returns nullptr.                                       *)
(***************************************************************************)
WithTable(m, dir, pdx) ==
    IF Stopped(m) \/ m.word[dir][pdx] # NoPage \/ m.freeList = NoPage THEN m
    ELSE LET pt == m.freeList
             a  == AllocZero(m)
         IN IF Stopped(a) THEN a ELSE [IncRef(a, pt) EXCEPT !.word[dir][pdx] = pt]

(***************************************************************************)
(* remove: the page mapped at va loses a reference, then the entry goes.    *)
(***************************************************************************)
\* Seeded fault: the reference of the page is kept.
RemoveKeepsRef(m, dir, va) ==
    LET pt == m.word[dir][va[1]]
    IN IF Stopped(m) \/ pt = NoPage THEN m
       ELSE IF pt = Data \/ IsData(m.word[pt][va[2]]) THEN Wild(m)
       ELSE [m EXCEPT !.word[pt][va[2]] = NoPage]

\* Seeded fault: the entry is not cleared.
RemoveKeepsEntry(m, dir, va) ==
    LET pt == m.word[dir][va[1]]
        pg == m.word[pt][va[2]]
    IN IF Stopped(m) \/ pt = NoPage THEN m
       ELSE IF IsData(pt) THEN Wild(m)
       ELSE IF pg = NoPage THEN m
       ELSE IF IsData(pg) THEN Wild(m)
       ELSE DecRef(m, pg)

Remove(m, dir, va) ==
    LET pt == m.word[dir][va[1]]
        pg == m.word[pt][va[2]]
        d  == DecRef(m, pg)
    IN IF Stopped(m) \/ pt = NoPage THEN m
       ELSE IF IsData(pt) THEN Wild(m)
       ELSE IF pg = NoPage THEN m
       ELSE IF IsData(pg) THEN Wild(m)
       ELSE IF d.panic THEN d
       ELSE [d EXCEPT !.word[pt][va[2]] = NoPage]

(***************************************************************************)
(* insert: p is counted before the old page at va is removed, so that       *)
(* inserting the page that is already there does not free it (the corner    *)
(* case of vmem.cc:257-259).                                                *)
(***************************************************************************)
InsertFails(m, dir, va) ==
    m.word[dir][va[1]] = NoPage /\ m.freeList = NoPage

\* Seeded fault: the old page is removed before the new one is counted.
InsertRemovesFirst(m, dir, p, va) ==
    LET t  == WithTable(m, dir, va[1])
        pt == t.word[dir][va[1]]
        r  == IncRef(Remove(t, dir, va), p)
    IN IF Stopped(t) \/ pt = NoPage THEN t
       ELSE IF IsData(pt) THEN Wild(t)
       ELSE IF Stopped(r) THEN r
       ELSE [r EXCEPT !.word[pt][va[2]] = p]

Insert(m, dir, p, va) ==
    LET t  == WithTable(m, dir, va[1])
        pt == t.word[dir][va[1]]
        r  == Remove(IncRef(t, p), dir, va)
    IN IF Stopped(t) \/ pt = NoPage THEN t
       ELSE IF IsData(pt) THEN Wild(t)
       ELSE IF Stopped(r) THEN r
       ELSE [r EXCEPT !.word[pt][va[2]] = p]

(***************************************************************************)
(* Task::setupMemory: a directory with the words of kernelPageDir, all of   *)
(* them, and its own self map.  Fails when the list is empty.               *)
(***************************************************************************)
SetupMemory(m) ==
    LET p == m.freeList
        a == AllocZero(m)
    IN IF Stopped(m) \/ p = NoPage THEN m
       ELSE IF Stopped(a) THEN a
       ELSE [IncRef(a, p) EXCEPT !.word[p] = [a.word[KDir] EXCEPT ![SelfPdx] = p]]

(***************************************************************************)
(* One round of Task::regionAlloc: a new cleared page at va.  Both failures *)
(* are kernelPanic.                                                         *)
(***************************************************************************)
\* Seeded fault: the page is not cleared.
RegionAllocDirty(m, dir, va) ==
    LET p == m.freeList
        a == AfterAlloc(m)
        i == Insert(a, dir, p, va)
    IN IF Stopped(m) THEN m
       ELSE IF p = NoPage THEN Panic(m)
       ELSE IF InsertFails(a, dir, va) THEN Panic(a)
       ELSE i

RegionAlloc(m, dir, va) ==
    LET p == m.freeList
        a == AllocZero(m)
        i == Insert(a, dir, p, va)
    IN IF Stopped(m) THEN m
       ELSE IF p = NoPage THEN Panic(m)
       ELSE IF Stopped(a) THEN a
       ELSE IF InsertFails(a, dir, va) THEN Panic(a)
       ELSE i

\* A program writes to its pages.
Filled(m, pages) ==
    IF Stopped(m) THEN m
    ELSE [m EXCEPT !.word = [p \in Page |-> IF p \in pages THEN DataPage ELSE m.word[p]]]

(***************************************************************************)
(* The loops of Task::free: every page of every table in the user half, the *)
(* table, and at last the directory.                                        *)
(***************************************************************************)
\* Seeded fault: the tables are not freed.
FreeTableKeepsTable(m, dir, pdx) ==
    LET pt == m.word[dir][pdx]
        Unmap(x, ptx) == IF ~Stopped(x) /\ x.word[pt][ptx] # NoPage
                         THEN Remove(x, dir, <<pdx, ptx>>) ELSE x
        u == For(NWords, Unmap, m)
    IN IF Stopped(m) \/ pt = NoPage THEN m
       ELSE IF IsData(pt) THEN Wild(m)
       ELSE IF Stopped(u) THEN u
       ELSE [u EXCEPT !.word[dir][pdx] = NoPage]

FreeTable(m, dir, pdx) ==
    LET pt == m.word[dir][pdx]
        Unmap(x, ptx) == IF ~Stopped(x) /\ x.word[pt][ptx] # NoPage
                         THEN Remove(x, dir, <<pdx, ptx>>) ELSE x
        u == For(NWords, Unmap, m)
    IN IF Stopped(m) \/ pt = NoPage THEN m
       ELSE IF IsData(pt) THEN Wild(m)
       ELSE IF Stopped(u) THEN u
       ELSE DecRef([u EXCEPT !.word[dir][pdx] = NoPage], pt)

\* Seeded fault: PageInfo::free of the directory in place of decRef.
FreeSpaceFreesDir(m, dir) ==
    LET Step(x, pdx) == FreeTable(x, dir, pdx)
        f == For(NUser, Step, m)
    IN IF Stopped(f) THEN f ELSE FreePage(f, dir)

FreeSpace(m, dir) ==
    LET Step(x, pdx) == FreeTable(x, dir, pdx)
        f == For(NUser, Step, m)
    IN IF Stopped(f) THEN f ELSE DecRef(f, dir)

-----------------------------------------------------------------------------
(***************************************************************************)
(* What refers to a page when the words are w and D are the directories in  *)
(* use: entries of directories, entries of tables, and the task that owns a *)
(* directory.                                                               *)
(***************************************************************************)
TablesIn(w, D)        == {w[d][i] : d \in D, i \in UserPdx} \ {NoPage}
DirEntries(w, D, p)   == {di \in D \X UserPdx : w[di[1]][di[2]] = p}
TableEntries(w, D, p) == {ti \in TablesIn(w, D) \X Index : w[ti[1]][ti[2]] = p}
Refs(w, D, p) == Cardinality(DirEntries(w, D, p)) + Cardinality(TableEntries(w, D, p))
                 + (IF p \in D THEN 1 ELSE 0)

\* What the processor finds at va when it walks dir.
Translation(w, dir, va) ==
    IF w[dir][va[1]] = NoPage THEN NoPage ELSE w[w[dir][va[1]]][va[2]]

-----------------------------------------------------------------------------
(***************************************************************************)
(* Boot: page::init, the static maps, which leave one table per entry of    *)
(* the kernel half, and the self test of pgdir::init, which maps two pages  *)
(* in turn at va (0x80000000 in the code) and removes the mapping.  The     *)
(* table that the test made stays in kernelPageDir.  A failed assert is     *)
(* kernelPanic.                                                             *)
(***************************************************************************)
BootPages ==
    [refCount |-> InitPages.refCount, nextFree |-> InitPages.nextFree,
     freeList |-> InitPages.freeList, panic |-> FALSE,
     word |-> [[p \in Page |-> ZeroPage] EXCEPT ![KDir][SelfPdx] = KDir],
     wild |-> FALSE]

StaticMap(m) == WithTable(m, KDir, KernPdx)

SelfTest(m, va) ==
    LET p0 == m.freeList
        m1 == Insert(AfterAlloc(m), KDir, p0, va)
        p1 == m1.freeList
        m2 == Insert(AfterAlloc(m1), KDir, p1, va)
        m3 == Remove(m2, KDir, va)
    IN IF /\ m1.refCount[p0] = 1
          /\ m2.refCount[p0] = 0 /\ m2.nextFree[p0] # NoPage
          /\ m3.refCount[p1] = 0 /\ m3.nextFree[p1] # NoPage
       THEN m3 ELSE Panic(m3)
=============================================================================
