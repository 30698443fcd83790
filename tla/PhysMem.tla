------------------------------ MODULE PhysMem ------------------------------
(***************************************************************************)
(* The physical page table of the kernel: PageInfo::array, one record       *)
(* {nextFree, refCount} per physical page, and the LIFO list of free pages  *)
(* threaded through it (kernel/vmem.hh:83-111, kernel/vmem.cc:27-67).       *)
(*                                                                          *)
(* The module has no state of its own.  It defines the operations of        *)
(* PageInfo as operators on a record m with the fields                      *)
(*   refCount : Page -> 0..RefMod-1     the uint16_t of the page            *)
(*   nextFree : Page -> Page or NoPage  NoPage is nullptr                   *)
(*   freeList : Page or NoPage          PageInfo::freeList                  *)
(*   panic    : BOOLEAN                 kernelPanic was called              *)
(* A module that adds fields to m (page contents, for instance) can use the *)
(* same operators.  kernelPanic never returns (kernel/panic.cc:29-31), so   *)
(* nothing changes m once m.panic holds.                                    *)
(***************************************************************************)
EXTENDS FreeList

CONSTANTS NPages,     \* vmem::nPages
          FirstFree,  \* nextFreePage of page::init: first page above the kernel
          LowPages,   \* pages below 4 MB, all that entry_pgdir maps
          RefMod,     \* refCount is a uint16_t: 65536 in the code
          NoPage      \* nullptr

ASSUME PhysMemAssumption ==
    /\ NPages \in Nat /\ FirstFree \in Nat /\ LowPages \in Nat
    /\ FirstFree < LowPages /\ LowPages <= NPages
    /\ RefMod \in Nat /\ RefMod > 1
    /\ NoPage \notin 0..NPages-1

Page     == 0..NPages-1
Reserved == 0..FirstFree-1      \* pages below 1 MB and the kernel image
PageRef  == Page \cup {NoPage}

PageTable == [refCount : [Page -> 0..RefMod-1], nextFree : [Page -> PageRef],
              freeList : PageRef, panic : BOOLEAN]

(***************************************************************************)
(* The lists that page::init leaves behind.  Pages [LowPages, NPages) are   *)
(* pushed first and in ascending order, then [FirstFree, LowPages), so that *)
(* the first pages handed out lie below 4 MB.                               *)
(***************************************************************************)
\* Seeded fault: the loop over the high pages runs one page too far.
InitNextPastEnd(p) ==
    IF p > FirstFree /\ p # LowPages THEN p - 1
    ELSE IF p = FirstFree /\ LowPages < NPages THEN NPages
    ELSE NoPage

InitNext(p) ==
    IF p > FirstFree /\ p # LowPages THEN p - 1
    ELSE IF p = FirstFree /\ LowPages < NPages THEN NPages - 1
    ELSE NoPage

InitPages ==
    [refCount |-> [p \in Page |-> IF p < FirstFree THEN 1 ELSE 0],
     nextFree |-> [p \in Page |-> InitNext(p)],
     freeList |-> LowPages - 1,
     panic    |-> FALSE]

(***************************************************************************)
(* PageInfo::alloc.  The caller gets m.freeList, NoPage when the list is    *)
(* empty, and AfterAlloc(m) is the table it leaves.                         *)
(***************************************************************************)
\* Seeded fault: `pp->nextFree = nullptr` forgotten.
AfterAllocKeepsLink(m) ==
    IF m.panic \/ m.freeList = NoPage THEN m
    ELSE [m EXCEPT !.freeList = m.nextFree[m.freeList]]

AfterAlloc(m) ==
    IF m.panic \/ m.freeList = NoPage THEN m
    ELSE [m EXCEPT !.freeList = m.nextFree[m.freeList],
                   !.nextFree[m.freeList] = NoPage]

(***************************************************************************)
(* PageInfo::free pushes p, after a check that p is not in use and not on   *)
(* the list.  The check cannot see the last page of the list, whose         *)
(* nextFree is nullptr.                                                     *)
(***************************************************************************)
\* Seeded fault: the two assignments in the wrong order.
FreePageSwapped(m, p) ==
    IF m.refCount[p] # 0 \/ m.nextFree[p] # NoPage
    THEN [m EXCEPT !.panic = TRUE]
    ELSE [m EXCEPT !.nextFree[p] = p, !.freeList = p]

FreePage(m, p) ==
    IF m.refCount[p] # 0 \/ m.nextFree[p] # NoPage
    THEN [m EXCEPT !.panic = TRUE]
    ELSE [m EXCEPT !.nextFree[p] = m.freeList, !.freeList = p]

\* `refCount++` at the callers (vmem.cc:213 and 255, task.cc:117), in uint16_t.
IncRef(m, p) ==
    IF m.panic THEN m
    ELSE [m EXCEPT !.refCount[p] = IF @ = RefMod - 1 THEN 0 ELSE @ + 1]

\* Seeded fault: the page is freed while one reference is left.
DecRefEarly(m, p) ==
    LET less == [m EXCEPT !.refCount[p] = IF @ = 0 THEN RefMod - 1 ELSE @ - 1]
    IN IF m.panic THEN m
       ELSE IF less.refCount[p] <= 1 THEN FreePage([less EXCEPT !.refCount[p] = 0], p) ELSE less

(***************************************************************************)
(* PageInfo::decRef.  `--refCount <= 0` is `= 0` for an unsigned count: a   *)
(* count of 0 wraps around and frees nothing.                               *)
(***************************************************************************)
DecRef(m, p) ==
    LET less == [m EXCEPT !.refCount[p] = IF @ = 0 THEN RefMod - 1 ELSE @ - 1]
    IN IF m.panic THEN m
       ELSE IF less.refCount[p] = 0 THEN FreePage(less, p) ELSE less

(***************************************************************************)
(* PageInfo::freeCount walks the list.  Walk(m)[n] is the pointer after n   *)
(* steps; the count is the number of steps to nullptr, and the loop of the  *)
(* code does not end when a list of NPages pages has no such step.          *)
(***************************************************************************)
\* Seeded fault: the loop tests p->nextFree.
WalkToLast(m) ==
    LET node[n \in 0..NPages] ==
            LET q == node[n-1]
                p == IF n = 0 THEN m.freeList ELSE IF q = NoPage THEN NoPage ELSE m.nextFree[q]
            IN IF p # NoPage /\ m.nextFree[p] = NoPage THEN NoPage ELSE p
    IN node

Walk(m) ==
    LET node[n \in 0..NPages] ==
            LET q == node[n-1]
            IN IF n = 0 THEN m.freeList ELSE IF q = NoPage THEN NoPage ELSE m.nextFree[q]
    IN node

FreeCountIs(m, n) ==
    /\ Walk(m)[n] = NoPage
    /\ \A k \in 0..n-1 : Walk(m)[k] # NoPage

(***************************************************************************)
(* The free list holds exactly the pages of the set free, and no page off   *)
(* the list has a link.                                                     *)
(***************************************************************************)
FreeChainOver(m, free) ==
    /\ IsListOf(m.freeList, m.nextFree, NoPage, free)
    /\ \A p \in Page \ free : m.nextFree[p] = NoPage
=============================================================================
