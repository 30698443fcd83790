----------------------------- MODULE BootMemory -----------------------------
(***************************************************************************)
(* vmem::init and what it calls (kernel/vmem.cc, task.cc:23-34): the memory *)
(* is measured, the first allocations follow the kernel image, the free     *)
(* list is built, and the kernel's page directory is filled and loaded.     *)
(* Until then only the first 4 MB can be touched (entrypgdir.c).  Pages are *)
(* numbers, allocations are in bytes.                                       *)
(***************************************************************************)
EXTENDS BootLoader

CONSTANTS PgSize, PgKB,        \* PGSIZE in bytes and in KB
          MB1, MB16, ExtUnit,  \* 1 MB, 16 MB and 64 KB, in KB
          BaseKB, ExtMaxKB,    \* what the NVRAM says at most of base and extended memory
          NPT,                 \* entries of a table, which maps 4 MB
          NPD, KernPdx,        \* entries of the directory, PDX(KERNBASE)
          TestPdx,             \* PDX of the self test's address
          InfoSize,            \* sizeof(PageInfo)
          TasksSize,           \* sizeof(Task) * Task::maxCount
          KStkPages,           \* KSTKSIZE in pages
          Ram                  \* the memory a machine may have, in KB

\* memlayout.h: windows of 4 MB below KERNBASE, the kernel's stack at its end.
StackPdx == KernPdx - 1
MmioPdx  == KernPdx - 2
UvptPdx  == KernPdx - 3
UPagesPdx == KernPdx - 4
UEnvsPdx == KernPdx - 5

ASSUME BootMemoryAssumption ==
    /\ \A n \in {PgKB, NPT, InfoSize, TasksSize, KStkPages} : n \in Nat \ {0}
    /\ PgSize \in Nat \ {0, 1} /\ KStkPages <= NPT /\ TasksSize <= NPT * PgSize
    /\ {MB1, MB16, BaseKB, ExtMaxKB} \subseteq Nat /\ Ram \subseteq Nat
    /\ MB1 % PgKB = 0 /\ ExtUnit \in Nat \ {0}
    /\ NPD \in Nat /\ KernPdx \in 0..NPD-1 /\ TestPdx \in 0..UEnvsPdx-1
    /\ \A im \in Images : im.stack % PgSize = 0

VARIABLES ram,        \* the memory of the machine, in KB
          totalMem,   \* vmem::totalMem
          next,       \* the next of bootAlloc; 0 is nullptr
          kernelPageDir, infos, tasks,  \* kernelPageDir, PageInfo::array, Task::array
          m,          \* pages, page tables and cr3
          mmioNext    \* the next of mmioMap, in pages

setupVars == <<ram, totalMem, next, kernelPageDir, infos, tasks, m, mmioNext>>

NoFrame == -1
NPages == totalMem \div PgKB

SetupInit ==
    /\ ram \in Ram
    /\ totalMem = 0 /\ next = 0 /\ kernelPageDir = 0 /\ infos = 0 /\ tasks = 0
    /\ m = [free |-> <<>>,                  \* PageInfo::freeList
            refs |-> <<>>,                  \* the counts
            pde  |-> [d \in 0..NPD-1 |-> NoFrame],
            maps |-> <<>>,                  \* the present entries of the tables
            cr3  |-> "entry",               \* entry_pgdir
            written |-> {},                 \* pages that were cleared or filled
            stop |-> "no"]                  \* panic, or fault: an address that is not mapped
    /\ mmioNext = MmioPdx * NPT

-----------------------------------------------------------------------------
RoundUp(a) == ((a + PgSize - 1) \div PgSize) * PgSize

\* Seeded fault: a last page that is not whole is not mapped.
PagesInWhole(size) == size \div PgSize

\* The rounds of a loop that advances by PGSIZE while it is below size.
PagesIn(size) == RoundUp(size) \div PgSize

\* bootAlloc returns BootNext and leaves BootAfter(size).
BootNext == IF next = 0 THEN RoundUp(image.kernEnd) ELSE next
BootAfter(size) == IF size = 0 THEN BootNext ELSE RoundUp(BootNext + size)

\* The kernel writes to pages, at KERNBASE.
Touch(x, pages) ==
    LET mapped(p) == IF x.cr3 = "entry" THEN p < NPT
                     ELSE p < (NPD - KernPdx) * NPT /\ KernPdx * NPT + p \in DOMAIN x.maps
    IN IF x.stop # "no" THEN x
       ELSE IF \A p \in pages : mapped(p) THEN [x EXCEPT !.written = @ \cup pages]
       ELSE [x EXCEPT !.stop = "fault"]

Fill(x, a, size) == Touch(x, a \div PgSize .. a \div PgSize + PagesIn(size) - 1)

Ensure(x, cond) == IF x.stop = "no" /\ ~cond THEN [x EXCEPT !.stop = "panic"] ELSE x

\* PageInfo::alloc and its memory; toKernV panics beyond the last page.
TakePage(x) ==
    LET p == Head(x.free)
    IN Touch(Ensure([x EXCEPT !.free = Tail(@)], p < NPages), {p})

\* findPte with create.  Without a page it returns a null pointer, which
\* staticMap writes to.
WithTable(x, pdx) ==
    IF x.stop # "no" \/ x.pde[pdx] # NoFrame THEN x
    ELSE IF x.free = <<>> THEN [x EXCEPT !.stop = "fault"]
    ELSE LET p == Head(x.free)
             t == TakePage(x)
         IN IF t.stop # "no" THEN t ELSE [t EXCEPT !.refs[p] = @ + 1, !.pde[pdx] = p]

\* The entries of old, but for those that are replaced by new.
Entered(new, old) ==
    [w \in DOMAIN new \cup DOMAIN old |-> IF w \in DOMAIN new THEN new[w] ELSE old[w]]

\* The tables are made in the order of the addresses.
StaticMap(x, v, size, frame, perm) ==
    LET n == PagesIn(size)
        first == v \div NPT
        with[d \in first .. (v + n - 1) \div NPT] ==
            WithTable(IF d = first THEN x ELSE with[d - 1], d)
        t == with[(v + n - 1) \div NPT]
    IN IF t.stop # "no" THEN t
       ELSE [t EXCEPT !.maps =
               Entered([w \in v..v+n-1 |-> [frame |-> frame + (w - v), perm |-> perm]], @)]

-----------------------------------------------------------------------------
\* What the BIOS leaves in the NVRAM, in the units of the code.
BaseMem  == Min({ram, BaseKB})
ExtMem   == IF ram > MB1 THEN Min({ram - MB1, ExtMaxKB}) ELSE 0
Ext16Mem == IF ram > MB16 THEN ((ram - MB16) \div ExtUnit) * ExtUnit ELSE 0

\* Seeded fault: the two counts of extended memory are added up.
DetectBoth == /\ stage = "detect"
              /\ totalMem' = IF Ext16Mem # 0 THEN MB16 + ExtMem + Ext16Mem
                             ELSE IF ExtMem # 0 THEN MB1 + ExtMem ELSE BaseMem
              /\ stage' = "directory"
              /\ UNCHANGED <<ram, next, kernelPageDir, infos, tasks, m, mmioNext>>

Detect == /\ stage = "detect"
          /\ totalMem' = IF Ext16Mem # 0 THEN MB16 + Ext16Mem
                         ELSE IF ExtMem # 0 THEN MB1 + ExtMem ELSE BaseMem
          /\ stage' = "directory"
          /\ UNCHANGED <<ram, next, kernelPageDir, infos, tasks, m, mmioNext>>

\* pgdir::alloc, with the directory as its own table.
AllocDir ==
    /\ stage = "directory"
    /\ kernelPageDir' = BootNext /\ next' = BootAfter(PgSize)
    /\ m' = [Fill(m, BootNext, PgSize) EXCEPT !.pde[UvptPdx] = BootNext \div PgSize]
    /\ stage' = "pages"
    /\ UNCHANGED <<ram, totalMem, infos, tasks, mmioNext>>

Down(from, to) == [k \in 1..from-to+1 |-> from - k + 1]

\* Seeded fault: the pages below 4 MB are put on the list first.
FreeListLowFirst(first) == Down(NPages - 1, NPT) \o Down(NPT - 1, first)

\* The free list of page::init: pages above 4 MB, then those below, each put
\* in front of the others.
FreeListFrom(first) == Down(NPT - 1, first) \o Down(NPages - 1, NPT)

\* page::init.  Its assert on 0xb8000 is made of the last page below 1 MB.
InitPages ==
    LET size  == InfoSize * NPages
        first == Max({MB1 \div PgKB, BootAfter(size) \div PgSize})
        free  == FreeListFrom(first)
        pages == [Fill(m, BootNext, size) EXCEPT
                    !.refs = [p \in 0..NPages-1 |-> IF p < first THEN 1 ELSE 0],
                    !.free = free]
    IN /\ stage = "pages"
       /\ infos' = BootNext /\ next' = BootAfter(size)
       /\ m' = Ensure(pages, /\ pages.refs[MB1 \div PgKB - 1] > 0
                             /\ pages.refs[BootNext \div PgSize] > 0
                             /\ pages.refs[(totalMem - PgKB) \div PgKB] = 0
                             /\ Head(free) \div NPT = 0)
       /\ stage' = "tasks"
       /\ UNCHANGED <<ram, totalMem, kernelPageDir, tasks, mmioNext>>

\* task::allocArray, the last call of bootAlloc that is allowed.
AllocTasks ==
    /\ stage = "tasks"
    /\ tasks' = BootNext /\ next' = BootAfter(TasksSize)
    /\ m' = StaticMap(Fill(m, BootNext, TasksSize), UEnvsPdx * NPT, RoundUp(TasksSize),
                      BootNext \div PgSize, {"U"})
    /\ stage' = "map"
    /\ UNCHANGED <<ram, totalMem, kernelPageDir, infos, mmioNext>>

\* The static maps of pgdir::init.
MapInfos ==
    /\ stage = "map"
    /\ m' = StaticMap(m, UPagesPdx * NPT, NPT * PgSize, infos \div PgSize, {"U"})
    /\ stage' = "mapStack"
    /\ UNCHANGED <<ram, totalMem, next, kernelPageDir, infos, tasks, mmioNext>>

MapStack ==
    /\ stage = "mapStack"
    /\ m' = StaticMap(m, KernPdx * NPT - KStkPages, KStkPages * PgSize, image.stack \div PgSize, {"W"})
    /\ stage' = "mapMemory"
    /\ UNCHANGED <<ram, totalMem, next, kernelPageDir, infos, tasks, mmioNext>>

\* The size is ~KERNBASE, one less than there is.
MapMemory ==
    /\ stage = "mapMemory"
    /\ m' = StaticMap(m, KernPdx * NPT, (NPD - KernPdx) * NPT * PgSize - 1, 0, {"W"})
    /\ stage' = "loadCr3"
    /\ UNCHANGED <<ram, totalMem, next, kernelPageDir, infos, tasks, mmioNext>>

FrameAt(x, v) == IF v \in DOMAIN x.maps THEN x.maps[v].frame ELSE NoFrame

\* lcr3, and the asserts that read PageInfo::array and the stack twice.
LoadDir ==
    LET x == [m EXCEPT !.cr3 = "kernel"]
    IN /\ stage = "loadCr3"
       /\ m' = Ensure(x, /\ FrameAt(x, UPagesPdx * NPT) = FrameAt(x, KernPdx * NPT + infos \div PgSize)
                         /\ FrameAt(x, KernPdx * NPT - 1)
                              = FrameAt(x, KernPdx * NPT + image.stack \div PgSize + KStkPages - 1))
       /\ stage' = "test"
       /\ UNCHANGED <<ram, totalMem, next, kernelPageDir, infos, tasks, mmioNext>>

\* pgdir::remove, and PageInfo::free when the count has come to 0.
Removed(x, v) ==
    LET p == x.maps[v].frame
        y == [x EXCEPT !.refs[p] = @ - 1, !.maps = [w \in DOMAIN @ \ {v} |-> @[w]]]
    IN IF y.refs[p] = 0 THEN [y EXCEPT !.free = <<p>> \o @] ELSE y

\* pgdir::insert: the new page is counted before the old one is removed.
Inserted(x, p, v) ==
    LET t == WithTable(x, v \div NPT)
        c == [t EXCEPT !.refs[p] = @ + 1]
        r == IF v \in DOMAIN c.maps THEN Removed(c, v) ELSE c
    IN IF t.stop # "no" THEN t
       ELSE [r EXCEPT !.maps = Entered([w \in {v} |-> [frame |-> p, perm |-> {"W"}]], @)]

\* The self test of pgdir::init: two pages in turn at one address.
TestVa   == TestPdx * NPT
TestPage == FrameAt(m, TestVa)

TestFirst ==
    LET p == Head(m.free)
        x == Inserted(TakePage(m), p, TestVa)
    IN /\ stage = "test"
       /\ m' = IF m.free = <<>> THEN Ensure(m, FALSE) ELSE Ensure(x, x.refs[p] = 1)
       /\ stage' = "testAgain"
       /\ UNCHANGED <<ram, totalMem, next, kernelPageDir, infos, tasks, mmioNext>>

\* The first page is on the list again, and not at its end.
TestSecond ==
    LET x == Inserted(TakePage(m), Head(m.free), TestVa)
    IN /\ stage = "testAgain"
       /\ m' = IF m.free = <<>> THEN Ensure(m, FALSE)
               ELSE Ensure(x, x.refs[TestPage] = 0 /\ Last(x.free) # TestPage)
       /\ stage' = "testEnd"
       /\ UNCHANGED <<ram, totalMem, next, kernelPageDir, infos, tasks, mmioNext>>

TestEnd ==
    LET x == Removed(m, TestVa)
    IN /\ stage = "testEnd"
       /\ m' = Ensure(x, x.refs[TestPage] = 0 /\ Last(x.free) # TestPage)
       /\ stage' = "processors"
       /\ UNCHANGED <<ram, totalMem, next, kernelPageDir, infos, tasks, mmioNext>>

\* mmioMap of [frame, frame+size), which lapic::init calls.
MmioMap(frame, size) ==
    LET n == PagesIn(size)
    IN IF mmioNext + n >= StackPdx * NPT
       THEN m' = Ensure(m, FALSE) /\ UNCHANGED mmioNext
       ELSE /\ m' = StaticMap(m, mmioNext, RoundUp(size), frame, {"W", "PCD", "PWT"})
            /\ mmioNext' = mmioNext + n

\* Nothing happens after a panic or a fault.
SetupNext == /\ m.stop = "no"
             /\ \/ Detect \/ AllocDir \/ InitPages \/ AllocTasks
                \/ MapInfos \/ MapStack \/ MapMemory \/ LoadDir
                \/ TestFirst \/ TestSecond \/ TestEnd
=============================================================================
