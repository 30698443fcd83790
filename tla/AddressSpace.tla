---------------------------- MODULE AddressSpace ----------------------------
(***************************************************************************)
(* The page directory interface (vmem::pgdir, Task::setupMemory,            *)
(* regionAlloc and the page loops of Task::free) in the order any caller    *)
(* may use it, with the processor's TLB.  The callers share data pages only *)
(* through insert, and never a table: the user half of kernelPageDir, which *)
(* setupMemory copies, is empty here.  TaskMemory has the boot that breaks  *)
(* this condition.                                                          *)
(***************************************************************************)
EXTENDS PageDir

CONSTANT UsedVa     \* bound: the user addresses that are mapped
ASSUME AddressAssumption == UsedVa \subseteq Va

VARIABLES m,     \* pages and their contents
          dirs,  \* page directories of live address spaces
          cr3,   \* the loaded page directory
          tlb    \* user translations cached for cr3, NoPage when none

vars == <<m, dirs, cr3, tlb>>

Flushed == [va \in Va |-> NoPage]

Init == /\ m = StaticMap(BootPages)
        /\ dirs = {}
        /\ cr3 = KDir
        /\ tlb = Flushed

Translate(dir, va) == Translation(m.word, dir, va)

KernelTables == {m.word[KDir][KernPdx]}
Tables       == TablesIn(m.word, dirs)
DataPages    == {m.word[t][i] : t \in Tables, i \in Index} \ {NoPage}

NewDir == /\ ~Stopped(m)
          /\ m.freeList # NoPage
          /\ m' = SetupMemory(m)
          /\ dirs' = dirs \cup {m.freeList}
          /\ UNCHANGED <<cr3, tlb>>

\* Seeded fault: insert without invalidateTLB.
MapNewNoInvlpg(d, va) ==
    /\ ~Stopped(m)
    /\ m' = Filled(RegionAlloc(m, d, va), {m.freeList})
    /\ UNCHANGED <<dirs, cr3, tlb>>

\* regionAlloc of one page; insert invalidates va whatever directory is loaded.
MapNew(d, va) ==
    /\ ~Stopped(m)
    /\ m' = Filled(RegionAlloc(m, d, va), {m.freeList})
    /\ tlb' = [tlb EXCEPT ![va] = NoPage]
    /\ UNCHANGED <<dirs, cr3>>

\* insert of a page that is mapped already, perhaps at the same address.
\* When it returns Result::fuck for want of a table, nothing has changed.  The
\* count has 16 bits and no check: no caller may take it past RefMod - 1.
MapAgain(d, va, p) ==
    /\ ~Stopped(m)
    /\ p \in DataPages
    /\ m.refCount[p] < RefMod - 1
    /\ m' = Insert(m, d, p, va)
    /\ tlb' = IF InsertFails(m, d, va) THEN tlb ELSE [tlb EXCEPT ![va] = NoPage]
    /\ UNCHANGED <<dirs, cr3>>

\* remove; it invalidates va when it found a page there.
Unmap(d, va) ==
    /\ ~Stopped(m)
    /\ m' = Remove(m, d, va)
    /\ tlb' = IF Translate(d, va) = NoPage THEN tlb ELSE [tlb EXCEPT ![va] = NoPage]
    /\ UNCHANGED <<dirs, cr3>>

\* Task::free; its caller or itself loads kernelPageDir if d is loaded.
Teardown(d) ==
    /\ ~Stopped(m)
    /\ m' = FreeSpace(m, d)
    /\ dirs' = dirs \ {d}
    /\ cr3' = IF cr3 = d THEN KDir ELSE cr3
    /\ tlb' = IF cr3 = d THEN Flushed
              ELSE [va \in Va |-> IF Translate(d, va) = NoPage THEN tlb[va] ELSE NoPage]

\* lcr3 flushes the TLB.
Load(d) ==
    /\ ~Stopped(m)
    /\ cr3' = d
    /\ tlb' = Flushed
    /\ UNCHANGED <<m, dirs>>

\* The processor caches a translation it used.
Touch(va) ==
    /\ ~Stopped(m)
    /\ Translate(cr3, va) # NoPage
    /\ tlb' = [tlb EXCEPT ![va] = Translate(cr3, va)]
    /\ UNCHANGED <<m, dirs, cr3>>

Next == \/ NewDir
        \/ \E d \in dirs : Load(d) \/ Teardown(d)
        \/ Load(KDir)
        \/ \E va \in UsedVa : Touch(va)
        \/ \E d \in dirs, va \in UsedVa :
              \/ MapNew(d, va)
              \/ Unmap(d, va)
              \/ \E p \in Page : MapAgain(d, va, p)

Spec == Init /\ [][Next]_vars

-----------------------------------------------------------------------------
References(p) == Refs(m.word, dirs, p)

Counted == Page \ (Reserved \cup KernelTables)

(***************************************************************************)
(* refCount is the number of places that refer to the page: entries of page *)
(* directories and tables, and the task that owns a directory.  insert,     *)
(* remove, findPte and Task::free each change counts and entries in         *)
(* different lines (vmem.cc:213-218, 241-243, 255-262, task.cc:138-147).    *)
(***************************************************************************)
RefCountExact == ~Stopped(m) => \A p \in Counted : m.refCount[p] = References(p)

(***************************************************************************)
(* Every page is on the free list or referred to: mapping, failing to map,  *)
(* remapping and tearing down lose no page.                                 *)
(***************************************************************************)
NoPageLost == ~Stopped(m) => FreeChainOver(m, {p \in Counted : References(p) = 0})

(***************************************************************************)
(* The loaded directory is in use, and the TLB holds no translation that    *)
(* its tables no longer have: what lcr3 in Task::free and invalidateTLB are *)
(* there for (task.cc:126, vmem.cc:343).                                   *)
(***************************************************************************)
TLBCoherent ==
    ~Stopped(m) => /\ cr3 \in dirs \cup {KDir}
                   /\ \A va \in Va : tlb[va] # NoPage => tlb[va] = Translate(cr3, va)

(***************************************************************************)
(* The only panic is for want of memory in regionAlloc (task.cc:198, 201);  *)
(* PageInfo::free never finds a page in use or already free.                *)
(***************************************************************************)
PanicsOnlyWhenExhausted == [][m'.panic /\ ~m.panic => m'.freeList = NoPage]_vars

(***************************************************************************)
(* No page is a table in one place and data or a directory in another, so   *)
(* the kernel never takes user data for page table entries.                 *)
(***************************************************************************)
RolesDisjoint ==
    /\ ~m.wild
    /\ ~Stopped(m) => /\ dirs \cap (Tables \cup DataPages) = {}
                      /\ Tables \cap DataPages = {}
=============================================================================
