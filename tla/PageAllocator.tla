---------------------------- MODULE PageAllocator ----------------------------
(***************************************************************************)
(* The physical page allocator at work (kernel/vmem.cc:27-67), driven by    *)
(* callers that keep the discipline of the code's call sites: a page is     *)
(* referenced and dereferenced only by someone who holds it, from the       *)
(* PageInfo::alloc that returned it to the decRef that takes its count to   *)
(* 0.  The count is incremented after the allocation by the caller, so a    *)
(* held page may have no reference yet.                                     *)
(*                                                                          *)
(* The kernel runs with interrupts disabled on one CPU (kernel/trap.cc:84), *)
(* so each call is one step.                                                *)
(***************************************************************************)
EXTENDS PhysMem

VARIABLES m,     \* PageInfo::array and PageInfo::freeList
          held,  \* pages that callers hold (not stored by the code)
          ret    \* the pointer that the last PageInfo::alloc returned

vars == <<m, held, ret>>

Init == /\ m = InitPages
        /\ held = {}
        /\ ret = NoPage

Alloc == /\ ~m.panic
         /\ ret' = m.freeList
         /\ m' = AfterAlloc(m)
         /\ held' = held \cup ({m.freeList} \ {NoPage})

\* The count has 16 bits and no check: a caller may not take it past RefMod - 1.
TakeRef(p) == /\ ~m.panic
              /\ p \in held
              /\ m.refCount[p] < RefMod - 1
              /\ m' = IncRef(m, p)
              /\ UNCHANGED <<held, ret>>

DropRef(p) == /\ ~m.panic
              /\ p \in held
              /\ m.refCount[p] > 0
              /\ m' = DecRef(m, p)
              /\ held' = IF m.refCount[p] = 1 THEN held \ {p} ELSE held
              /\ UNCHANGED ret

Next == Alloc \/ \E p \in Page : TakeRef(p) \/ DropRef(p)

Spec == Init /\ [][Next]_vars

-----------------------------------------------------------------------------
Free == Page \ (Reserved \cup held)

\* The page table keeps its shape, and the callers hold pages above the kernel.
TypeOK == /\ m \in PageTable
          /\ held \in SUBSET (Page \ Reserved)
          /\ ret \in PageRef

(***************************************************************************)
(* The list that PageInfo::alloc and free maintain holds exactly the pages  *)
(* that nobody uses, each once: no page is lost, none is handed out twice,  *)
(* and the list has an end.                                                 *)
(***************************************************************************)
FreeListSound == FreeChainOver(m, Free)

\* Only a held page has references: what vmem.cc:36 checks.
FreeUnreferenced == \A p \in Free : m.refCount[p] = 0

(***************************************************************************)
(* kernelPanic("pageFree: cannot free page") of vmem.cc:36-38 never fires   *)
(* under the callers' discipline: a page that loses its last reference was  *)
(* unlinked when it was allocated.                                          *)
(***************************************************************************)
NoFreePanic == ~m.panic

(***************************************************************************)
(* PageInfo::freeCount, the monitor command `page`, terminates and returns  *)
(* the number of pages that nobody uses.                                    *)
(***************************************************************************)
FreeCountExact == FreeCountIs(m, Cardinality(Free))

(***************************************************************************)
(* The free list implements the pool of PagePool: PageInfo::alloc returns a *)
(* page that nobody owns, or nullptr when there is none, and decRef gives a *)
(* page back when its last reference goes and no earlier.                   *)
(***************************************************************************)
Pool == INSTANCE PagePool WITH
            Pages <- Page, Kernel <- Reserved, None <- NoPage,
            owned <- Reserved \cup held, refs <- m.refCount

ImplementsPool == Pool!Spec
=============================================================================
