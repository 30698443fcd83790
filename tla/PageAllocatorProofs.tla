------------------------- MODULE PageAllocatorProofs -------------------------
(***************************************************************************)
(* Proofs about PageAllocator, for every number of pages and every width of *)
(* the reference count: the type invariant, the soundness of the free list, *)
(* the absence of the pageFree panic, and the refinement of PagePool.       *)
(***************************************************************************)
EXTENDS PageAllocator, FreeListProofs

-----------------------------------------------------------------------------
(***************************************************************************)
(* The page operations keep the shape of the page table.                    *)
(***************************************************************************)
LEMMA InitType == InitPages \in PageTable
<1> USE PhysMemAssumption
<1>1. \A p \in Page : InitNext(p) \in PageRef
  BY DEF InitNext, Page, PageRef
<1>2. LowPages - 1 \in PageRef
  BY DEF Page, PageRef
<1> QED
  BY <1>1, <1>2 DEF InitPages, PageTable, Page

LEMMA AllocType ==
  ASSUME NEW t \in PageTable
  PROVE  AfterAlloc(t) \in PageTable /\ t.freeList \in PageRef
BY DEF AfterAlloc, PageTable, PageRef

LEMMA RefType ==
  ASSUME NEW t \in PageTable, NEW p \in Page
  PROVE  IncRef(t, p) \in PageTable /\ DecRef(t, p) \in PageTable
<1> USE PhysMemAssumption
<1>1. IncRef(t, p) \in PageTable
  BY DEF IncRef, PageTable
<1>2. DecRef(t, p) \in PageTable
  <2> DEFINE less == [t EXCEPT !.refCount[p] = IF @ = 0 THEN RefMod - 1 ELSE @ - 1]
  <2>1. less \in PageTable
    BY DEF PageTable
  <2>2. FreePage(less, p) \in PageTable
    BY <2>1 DEF FreePage, PageTable, PageRef
  <2> QED
    BY <2>1, <2>2 DEF DecRef
<1> QED
  BY <1>1, <1>2

(***************************************************************************)
(* The list of page::init is sound: LowPages-1 down to FirstFree, then      *)
(* NPages-1 down to LowPages.                                               *)
(***************************************************************************)
LEMMA InitChain == FreeChainOver(InitPages, Page \ Reserved)
<1> USE PhysMemAssumption
<1> DEFINE next == InitPages.nextFree
<1>1. Page \ Reserved = FirstFree..NPages-1 /\ InitPages.freeList = LowPages - 1
  BY DEF Page, Reserved, InitPages
<1>2. \A p \in FirstFree..NPages-1 :
        next[p] = IF p > FirstFree /\ p # LowPages THEN p - 1
                  ELSE IF p = FirstFree /\ LowPages < NPages THEN NPages - 1 ELSE NoPage
  BY DEF InitPages, InitNext, Page
<1> HIDE DEF next
<1>3. /\ FirstFree \in Nat /\ LowPages \in Nat /\ NPages \in Nat
      /\ FirstFree < LowPages /\ LowPages <= NPages
  OBVIOUS
<1>4. IsListOf(InitPages.freeList, InitPages.nextFree, NoPage, Page \ Reserved)
  <2>1. IsListOf(LowPages - 1, next, NoPage, FirstFree..NPages-1)
    BY <1>2, <1>3, TwoRuns
  <2> QED
    BY <1>1, <2>1 DEF next
<1>5. \A p \in Page \ (Page \ Reserved) : InitPages.nextFree[p] = NoPage
  BY DEF InitPages, InitNext, Page, Reserved
<1> QED
  BY <1>4, <1>5 DEF FreeChainOver

\* Page is finite and nullptr is none of the pages.
LEMMA PageFinite == /\ IsFiniteSet(Page)
                    /\ \A free \in SUBSET Page : IsFiniteSet(free) /\ NoPage \notin free
<1>1. IsFiniteSet(Page)
  BY PhysMemAssumption, FS_Interval DEF Page
<1> QED
  BY <1>1, PhysMemAssumption, FS_Subset DEF Page

(***************************************************************************)
(* PageInfo::alloc takes the head off a sound list and leaves a sound list. *)
(***************************************************************************)
LEMMA PopChain ==
  ASSUME NEW t \in PageTable, NEW free \in SUBSET Page,
         FreeChainOver(t, free), ~t.panic, t.freeList # NoPage
  PROVE  /\ t.freeList \in free
         /\ FreeChainOver(AfterAlloc(t), free \ {t.freeList})
<1> DEFINE u == AfterAlloc(t)
<1>1. /\ u.freeList = t.nextFree[t.freeList]
      /\ u.nextFree = [t.nextFree EXCEPT ![t.freeList] = NoPage]
      /\ t.nextFree \in [Page -> PageRef]
  BY DEF AfterAlloc, PageTable
<1> HIDE DEF u
<1>2. t.freeList \in free
  BY ListHead, PageFinite DEF FreeChainOver
<1>3. /\ \A p \in free \ {t.freeList} : u.nextFree[p] = t.nextFree[p]
      /\ u.nextFree[t.freeList] = NoPage
      /\ \A p \in Page \ free : u.nextFree[p] = t.nextFree[p]
  BY <1>1, <1>2
<1>4. IsListOf(u.freeList, u.nextFree, NoPage, free \ {t.freeList})
  BY <1>1, <1>3, PopList, PageFinite DEF FreeChainOver
<1>5. FreeChainOver(u, free \ {t.freeList})
  BY <1>2, <1>3, <1>4 DEF FreeChainOver
<1> QED
  BY <1>2, <1>5 DEF u

(***************************************************************************)
(* PageInfo::free on an unreferenced page off the list does not panic and   *)
(* leaves a sound list with the page added.                                 *)
(***************************************************************************)
LEMMA PushChain ==
  ASSUME NEW t \in PageTable, NEW free \in SUBSET Page, NEW p \in Page \ free,
         FreeChainOver(t, free), t.refCount[p] = 0
  PROVE  /\ FreePage(t, p).panic = t.panic
         /\ FreePage(t, p).refCount = t.refCount
         /\ FreeChainOver(FreePage(t, p), free \cup {p})
<1> DEFINE u == FreePage(t, p)
<1>1. t.nextFree[p] = NoPage
  BY DEF FreeChainOver
<1>2. /\ u.panic = t.panic /\ u.refCount = t.refCount
      /\ u.freeList = p
      /\ u.nextFree = [t.nextFree EXCEPT ![p] = t.freeList]
      /\ t.nextFree \in [Page -> PageRef]
  BY <1>1 DEF FreePage, PageTable
<1> HIDE DEF u
<1>3. u.nextFree[p] = t.freeList /\ \A q \in Page \ {p} : u.nextFree[q] = t.nextFree[q]
  BY <1>2
<1>4. /\ IsListOf(t.freeList, t.nextFree, NoPage, free) /\ IsFiniteSet(free)
      /\ p \notin free
      /\ u.nextFree[p] = t.freeList /\ \A q \in free : u.nextFree[q] = t.nextFree[q]
  BY <1>3, PageFinite DEF FreeChainOver
<1>5. IsListOf(p, u.nextFree, NoPage, free \cup {p})
  BY <1>4, PushList
<1>6. FreeChainOver(u, free \cup {p})
  BY <1>2, <1>3, <1>5 DEF FreeChainOver
<1> QED
  BY <1>2, <1>6 DEF u

\* The chain is a matter of the two link fields alone.
LEMMA SameLinks ==
  ASSUME NEW t, NEW u, NEW free, FreeChainOver(t, free),
         u.freeList = t.freeList, u.nextFree = t.nextFree
  PROVE  FreeChainOver(u, free)
BY DEF FreeChainOver

(***************************************************************************)
(* PageInfo::freeCount: on a sound list the walk meets the listed pages in  *)
(* their order, nullptr after them, and no nullptr before.                  *)
(***************************************************************************)
LEMMA WalkList ==
  ASSUME NEW t, NEW free \in SUBSET Page, FreeChainOver(t, free)
  PROVE  FreeCountIs(t, Cardinality(free))
<1> DEFINE c == Cardinality(free)
<1>1. c \in Nat /\ c <= NPages /\ NPages \in Nat /\ NoPage \notin free
  <2>1. Cardinality(Page) = NPages
    <3>1. 0 \in Int /\ NPages-1 \in Int
          /\ (IF 0 > NPages-1 THEN 0 ELSE NPages-1-0+1) = NPages
      BY PhysMemAssumption
    <3> QED
      BY <3>1, FS_Interval DEF Page
  <2> QED
    BY <2>1, PageFinite, FS_CardinalityType, FS_Subset, PhysMemAssumption
<1>2. PICK s \in [1..c -> free] : IsChain(t.freeList, t.nextFree, NoPage, c, s)
  BY DEF FreeChainOver, IsListOf, IsListWith
<1> HIDE DEF c
<1> DEFINE node == Walk(t)
           f    == [n \in 0..NPages |-> IF n < c THEN s[n+1] ELSE NoPage]
<1>3. f = [n \in 0..NPages |->
             IF n = 0 THEN t.freeList ELSE IF f[n-1] = NoPage THEN NoPage ELSE t.nextFree[f[n-1]]]
  <2> SUFFICES ASSUME NEW n \in 0..NPages
               PROVE  f[n] = IF n = 0 THEN t.freeList
                             ELSE IF f[n-1] = NoPage THEN NoPage ELSE t.nextFree[f[n-1]]
    BY Zenon
  <2>1. CASE n = 0
    BY <1>1, <1>2, <2>1 DEF IsChain
  <2>2. CASE n # 0 /\ n <= c
    <3>1. n-1 \in 0..NPages /\ n-1 < c /\ n \in 1..c /\ n-1+1 = n
      BY <1>1, <2>2
    <3>2. f[n-1] = s[n] /\ s[n] \in free
      BY <3>1
    <3>3. t.nextFree[s[n]] = IF n = c THEN NoPage ELSE s[n+1]
      BY <1>2, <3>1 DEF IsChain
    <3> QED
      BY <1>1, <2>2, <3>1, <3>2, <3>3
  <2>3. CASE n > c
    BY <1>1, <2>3
  <2> QED
    BY <1>1, <2>1, <2>2, <2>3
<1>4. node = [n \in 0..NPages |->
             IF n = 0 THEN t.freeList
             ELSE IF node[n-1] = NoPage THEN NoPage ELSE t.nextFree[node[n-1]]]
  <2> HIDE DEF f
  <2> QED
    BY <1>3, Zenon DEF Walk
<1>5. \A n \in Nat : n \in 0..NPages => node[n] = f[n]
  <2> DEFINE S == {n \in Nat : n \in 0..NPages => node[n] = f[n]}
  <2> HIDE DEF node, f
  <2>1. 0 \in S
    BY <1>1, <1>3, <1>4
  <2>2. ASSUME NEW n \in Nat, n \in S PROVE n + 1 \in S
    <3> SUFFICES ASSUME n + 1 \in 0..NPages PROVE node[n+1] = f[n+1]
      OBVIOUS
    <3>1. n \in 0..NPages /\ n + 1 - 1 = n /\ n + 1 # 0 /\ node[n] = f[n]
      BY <1>1, <2>2
    <3> QED
      BY <1>3, <1>4, <3>1
  <2> HIDE DEF S
  <2>3. \A n \in Nat : n \in S
    BY <2>1, <2>2, SetInduction
  <2> QED
    BY <2>3 DEF S
<1>6. node[c] = NoPage /\ \A k \in 0..c-1 : node[k] # NoPage
  <2>1. c \in 0..NPages /\ f[c] = NoPage
    BY <1>1
  <2>2. ASSUME NEW k \in 0..c-1 PROVE k \in 0..NPages /\ f[k] # NoPage
    <3>1. k \in 0..NPages /\ k < c /\ k+1 \in 1..c
      BY <1>1
    <3> QED
      BY <1>1, <3>1
  <2> HIDE DEF node, f
  <2> QED
    BY <1>1, <1>5, <2>1, <2>2
<1> QED
  BY <1>6 DEF FreeCountIs, c

-----------------------------------------------------------------------------
(***************************************************************************)
(* The inductive invariant.  FreeListSound alone is not inductive: decRef   *)
(* needs to know that the page it frees is off the list, and the check in   *)
(* PageInfo::free that a page on the list has count 0.                      *)
(***************************************************************************)
IInv == TypeOK /\ FreeListSound /\ FreeUnreferenced /\ NoFreePanic

LEMMA IInvInit == Init => IInv
<1> SUFFICES ASSUME Init PROVE IInv
  OBVIOUS
<1> USE PhysMemAssumption DEF Init
<1>1. TypeOK
  BY InitType DEF TypeOK, PageRef
<1>2. Free = Page \ Reserved
  BY DEF Free
<1>3. FreeListSound
  BY <1>2, InitChain DEF FreeListSound
<1>4. FreeUnreferenced
  BY <1>2 DEF FreeUnreferenced, InitPages, Page, Reserved
<1>5. NoFreePanic
  BY DEF NoFreePanic, InitPages
<1> QED
  BY <1>1, <1>3, <1>4, <1>5 DEF IInv

LEMMA IInvAlloc == IInv /\ Alloc => IInv'
<1> SUFFICES ASSUME IInv, Alloc PROVE IInv'
  OBVIOUS
<1> USE DEF IInv
<1>1. m \in PageTable /\ ~m.panic /\ Free \in SUBSET Page /\ FreeChainOver(m, Free)
  BY DEF TypeOK, NoFreePanic, Free, FreeListSound
<1>2. m' \in PageTable /\ ret' \in PageRef
  BY <1>1, AllocType DEF Alloc
<1>3. m'.refCount = m.refCount /\ m'.panic = m.panic
  BY <1>1 DEF Alloc, AfterAlloc, PageTable
<1>4. CASE m.freeList = NoPage
  <2>1. m' = m /\ held' = held
    BY <1>4 DEF Alloc, AfterAlloc
  <2> QED
    BY <1>2, <2>1 DEF TypeOK, FreeListSound, FreeUnreferenced, NoFreePanic, Free
<1>5. CASE m.freeList # NoPage
  <2>1. m.freeList \in Free /\ FreeChainOver(m', Free \ {m.freeList})
    BY <1>1, <1>5, PopChain DEF Alloc
  <2>2. held' = held \cup {m.freeList} /\ Free' = Free \ {m.freeList}
    BY <1>5 DEF Alloc, Free
  <2> QED
    BY <1>1, <1>2, <1>3, <2>1, <2>2
    DEF TypeOK, FreeListSound, FreeUnreferenced, NoFreePanic, Free
<1> QED
  BY <1>4, <1>5

LEMMA IInvTakeRef == \A p \in Page : IInv /\ TakeRef(p) => IInv'
<1> SUFFICES ASSUME NEW p \in Page, IInv, TakeRef(p) PROVE IInv'
  OBVIOUS
<1> USE DEF IInv
<1>1. m' \in PageTable /\ held' = held /\ ret' = ret
  BY RefType DEF TakeRef, TypeOK
<1>2. /\ m'.freeList = m.freeList /\ m'.nextFree = m.nextFree /\ ~m'.panic
      /\ \A q \in Page \ {p} : m'.refCount[q] = m.refCount[q]
  BY DEF TakeRef, IncRef, TypeOK, PageTable
<1>3. p \notin Free /\ Free' = Free
  BY <1>1 DEF TakeRef, Free
<1>4. FreeListSound'
  BY <1>2, <1>3, SameLinks DEF FreeListSound
<1> QED
  BY <1>1, <1>2, <1>3, <1>4 DEF TypeOK, FreeUnreferenced, NoFreePanic, Free

LEMMA IInvDropRef == \A p \in Page : IInv /\ DropRef(p) => IInv'
<1> SUFFICES ASSUME NEW p \in Page, IInv, DropRef(p) PROVE IInv'
  OBVIOUS
<1> USE DEF IInv
<1> DEFINE less == [m EXCEPT !.refCount[p] = IF @ = 0 THEN RefMod - 1 ELSE @ - 1]
<1>1. m \in PageTable /\ ~m.panic /\ Free \in SUBSET Page /\ p \notin Free
      /\ FreeChainOver(m, Free) /\ m.refCount[p] \in 0..RefMod-1 /\ m.refCount[p] > 0
  BY DEF DropRef, TypeOK, NoFreePanic, Free, FreeListSound, PageTable
<1>2. /\ less \in PageTable /\ less.freeList = m.freeList /\ less.nextFree = m.nextFree
      /\ ~less.panic /\ less.refCount[p] = m.refCount[p] - 1
      /\ \A q \in Page \ {p} : less.refCount[q] = m.refCount[q]
  BY <1>1, PhysMemAssumption DEF PageTable
<1>3. m' \in PageTable /\ ret' = ret
  BY <1>1, RefType DEF DropRef
<1>4. m' = IF less.refCount[p] = 0 THEN FreePage(less, p) ELSE less
  BY <1>1 DEF DropRef, DecRef
<1> HIDE DEF less
<1>5. FreeChainOver(less, Free)
  BY <1>1, <1>2, SameLinks
<1>6. CASE m.refCount[p] = 1
  <2>1. less.refCount[p] = 0 /\ m' = FreePage(less, p)
    BY <1>2, <1>4, <1>6
  <2>2. /\ m'.panic = less.panic /\ m'.refCount = less.refCount
        /\ FreeChainOver(m', Free \cup {p})
    BY <1>1, <1>2, <1>5, <2>1, PushChain
  <2>3. held' = held \ {p} /\ Free' = Free \cup {p}
    BY <1>6 DEF DropRef, Free, TypeOK
  <2>4. TypeOK' /\ FreeListSound' /\ NoFreePanic'
    BY <1>2, <1>3, <2>2, <2>3 DEF TypeOK, FreeListSound, NoFreePanic
  <2>5. FreeUnreferenced'
    BY <1>1, <1>2, <2>1, <2>2, <2>3 DEF FreeUnreferenced
  <2> QED
    BY <2>4, <2>5
<1>7. CASE m.refCount[p] # 1
  <2>1. m' = less /\ held' = held /\ Free' = Free
    BY <1>1, <1>2, <1>4, <1>7 DEF DropRef, Free
  <2> QED
    BY <1>1, <1>2, <1>3, <1>5, <2>1
    DEF TypeOK, FreeListSound, FreeUnreferenced, NoFreePanic
<1> QED
  BY <1>6, <1>7

(***************************************************************************)
(* The inductive invariant holds of every behaviour of the allocator.       *)
(***************************************************************************)
THEOREM Inductive == Spec => []IInv
<1>1. IInv /\ [Next]_vars => IInv'
  <2> SUFFICES ASSUME IInv, [Next]_vars PROVE IInv'
    OBVIOUS
  <2>1. CASE Alloc
    BY <2>1, IInvAlloc
  <2>2. CASE \E p \in Page : TakeRef(p)
    BY <2>2, IInvTakeRef
  <2>3. CASE \E p \in Page : DropRef(p)
    BY <2>3, IInvDropRef
  <2>4. CASE UNCHANGED vars
    BY <2>4 DEF vars, IInv, TypeOK, FreeListSound, FreeUnreferenced, NoFreePanic, Free
  <2> QED
    BY <2>1, <2>2, <2>3, <2>4 DEF Next
<1> QED
  BY IInvInit, <1>1, PTL DEF Spec

(***************************************************************************)
(* PageInfo::array and the callers' pages keep their types.                 *)
(***************************************************************************)
THEOREM TypeCorrect == Spec => []TypeOK
BY Inductive, PTL DEF IInv

(***************************************************************************)
(* For any number of pages, the list of PageInfo::alloc and free holds      *)
(* exactly the pages that nobody uses, each once.                           *)
(***************************************************************************)
THEOREM FreeListCorrect == Spec => []FreeListSound
BY Inductive, PTL DEF IInv

(***************************************************************************)
(* The panic of PageInfo::free is unreachable for callers that keep the     *)
(* discipline of PageAllocator.                                             *)
(***************************************************************************)
THEOREM NoDoubleFree == Spec => []NoFreePanic
BY Inductive, PTL DEF IInv

(***************************************************************************)
(* PageInfo::freeCount comes to the end of the list and returns the number  *)
(* of pages that nobody uses, for any number of pages.                      *)
(***************************************************************************)
THEOREM FreeCountCorrect == Spec => []FreeCountExact
<1>1. IInv => FreeCountExact
  <2> SUFFICES ASSUME IInv PROVE FreeCountExact
    OBVIOUS
  <2>1. m \in PageTable /\ Free \in SUBSET Page /\ FreeChainOver(m, Free)
    BY DEF IInv, TypeOK, Free, FreeListSound
  <2> QED
    BY <2>1, WalkList DEF FreeCountExact
<1> QED
  BY Inductive, <1>1, PTL

-----------------------------------------------------------------------------
(***************************************************************************)
(* The allocator implements the pool: an allocation returns a page nobody   *)
(* owns, or nullptr when every page is owned, and a page goes back with its *)
(* last reference.                                                          *)
(***************************************************************************)
LEMMA PoolInit == Init => Pool!Init
BY PhysMemAssumption DEF Init, Pool!Init, InitPages, Page, Reserved

LEMMA PoolStep == IInv /\ [Next]_vars => [Pool!Next]_Pool!vars
<1> SUFFICES ASSUME IInv, [Next]_vars PROVE [Pool!Next]_Pool!vars
  OBVIOUS
<1> USE DEF IInv
<1>1. m \in PageTable /\ ~m.panic /\ Free \in SUBSET Page /\ FreeChainOver(m, Free)
      /\ held \subseteq Page \ Reserved
  BY DEF TypeOK, NoFreePanic, Free, FreeListSound
<1>2. CASE Alloc
  <2>1. m'.refCount = m.refCount
    BY <1>1, <1>2 DEF Alloc, AfterAlloc, PageTable
  <2>2. CASE m.freeList = NoPage
    <3>1. Free = {}
      BY <1>1, <2>2, ListHead, PageFinite DEF FreeChainOver
    <3>2. Reserved \subseteq Page
      BY PhysMemAssumption DEF Reserved, Page
    <3>3. Reserved \cup held = Page
      BY <1>1, <3>1, <3>2 DEF Free
    <3> QED
      BY <1>2, <2>1, <2>2, <3>3 DEF Alloc, Pool!Next, Pool!Allocate
  <2>3. CASE m.freeList # NoPage
    <3>1. m.freeList \in Free
      BY <1>1, <2>3, PopChain
    <3> QED
      BY <1>2, <2>1, <2>3, <3>1 DEF Alloc, Free, Pool!Next, Pool!Allocate
  <2> QED
    BY <2>2, <2>3
<1>3. ASSUME NEW p \in Page, TakeRef(p) PROVE Pool!Next
  <2>1. /\ m'.refCount = [m.refCount EXCEPT ![p] = @ + 1]
        /\ p \in held /\ held' = held /\ ret' = ret
    BY <1>1, <1>3 DEF TakeRef, IncRef, PageTable
  <2>2. Pool!Share(p)
    BY <1>1, <2>1 DEF Pool!Share
  <2> QED
    BY <2>2 DEF Pool!Next
<1>4. ASSUME NEW p \in Page, DropRef(p) PROVE Pool!Next
  <2>1. m'.refCount = [m.refCount EXCEPT ![p] = @ - 1]
    BY <1>1, <1>4 DEF DropRef, DecRef, FreePage, PageTable
  <2>2. Pool!Drop(p)
    BY <1>1, <1>4, <2>1 DEF DropRef, Pool!Drop
  <2> QED
    BY <2>2 DEF Pool!Next
<1>5. CASE UNCHANGED vars
  BY <1>5 DEF vars, Pool!vars
<1> QED
  BY <1>2, <1>3, <1>4, <1>5 DEF Next

THEOREM Refinement == Spec => ImplementsPool
BY PoolInit, PoolStep, Inductive, PTL DEF Spec, ImplementsPool, Pool!Spec
=============================================================================
