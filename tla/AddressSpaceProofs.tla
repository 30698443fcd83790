-------------------------- MODULE AddressSpaceProofs --------------------------
(***************************************************************************)
(* Theorems about AddressSpace, for any number of pages, directories, words *)
(* of a table and user addresses, and whatever the callers map, map again,  *)
(* unmap and tear down.                                                     *)
(*                                                                          *)
(* The first part, up to the definition of Coherent, is lemmas about the    *)
(* operations of PhysMem and PageDir on any memory: what they do to the     *)
(* roles of the pages, to the references, to the counts and to the list of  *)
(* free pages.                                                              *)
(***************************************************************************)
EXTENDS AddressSpace, FreeListProofs

-----------------------------------------------------------------------------
\* page::init builds a page table.
LEMMA InitType == InitPages \in PageTable
<1> USE PhysMemAssumption
<1>1. \A p \in Page : InitNext(p) \in PageRef
  BY DEF InitNext, Page, PageRef
<1>2. LowPages - 1 \in PageRef
  BY DEF Page, PageRef
<1> QED
  BY <1>1, <1>2 DEF InitPages, PageTable, Page

(***************************************************************************)
(* The list of page::init is sound: LowPages-1 down to FirstFree, then      *)
(* NPages-1 down to LowPages.                                               *)
(***************************************************************************)
LEMMA InitChain == FreeChainOver(InitPages, Page \ Reserved)
<1> USE PhysMemAssumption
<1> DEFINE next == InitPages.nextFree
<1>1. Page \ Reserved = FirstFree..NPages-1 /\ InitPages.freeList = LowPages - 1
  BY DEF Page, Reserved, InitPages
<1>2. \A p \in FirstFree..NPages-1 :
        next[p] = IF p > FirstFree /\ p # LowPages THEN p - 1
                  ELSE IF p = FirstFree /\ LowPages < NPages THEN NPages - 1 ELSE NoPage
  BY DEF InitPages, InitNext, Page
<1> HIDE DEF next
<1>3. /\ FirstFree \in Nat /\ LowPages \in Nat /\ NPages \in Nat
      /\ FirstFree < LowPages /\ LowPages <= NPages
  OBVIOUS
<1>4. IsListOf(InitPages.freeList, InitPages.nextFree, NoPage, Page \ Reserved)
  <2>1. IsListOf(LowPages - 1, next, NoPage, FirstFree..NPages-1)
    BY <1>2, <1>3, TwoRuns
  <2> QED
    BY <1>1, <2>1 DEF next
<1>5. \A p \in Page \ (Page \ Reserved) : InitPages.nextFree[p] = NoPage
  BY DEF InitPages, InitNext, Page, Reserved
<1> QED
  BY <1>4, <1>5 DEF FreeChainOver

\* Page is finite and nullptr is none of the pages.
LEMMA PageFinite == /\ IsFiniteSet(Page)
                    /\ \A free \in SUBSET Page : IsFiniteSet(free) /\ NoPage \notin free
<1>1. IsFiniteSet(Page)
  BY PhysMemAssumption, FS_Interval DEF Page
<1> QED
  BY <1>1, PhysMemAssumption, FS_Subset DEF Page

(***************************************************************************)
(* Popping and pushing in terms of the two link fields, whatever other      *)
(* fields the record has.                                                   *)
(***************************************************************************)
LEMMA PopLinks ==
  ASSUME NEW t, t.nextFree \in [Page -> PageRef], NEW free \in SUBSET Page,
         FreeChainOver(t, free), t.freeList # NoPage,
         NEW u, u.freeList = t.nextFree[t.freeList],
         u.nextFree = [t.nextFree EXCEPT ![t.freeList] = NoPage]
  PROVE  t.freeList \in free /\ FreeChainOver(u, free \ {t.freeList})
<1>1. t.freeList \in free
  BY ListHead, PageFinite DEF FreeChainOver
<1>2. /\ \A p \in free \ {t.freeList} : u.nextFree[p] = t.nextFree[p]
      /\ u.nextFree[t.freeList] = NoPage
      /\ \A p \in Page \ free : u.nextFree[p] = t.nextFree[p]
  BY <1>1
<1>3. IsListOf(u.freeList, u.nextFree, NoPage, free \ {t.freeList})
  BY <1>2, PopList, PageFinite DEF FreeChainOver
<1> QED
  BY <1>1, <1>2, <1>3 DEF FreeChainOver

LEMMA PushLinks ==
  ASSUME NEW t, t.nextFree \in [Page -> PageRef], NEW free \in SUBSET Page, NEW p \in Page \ free,
         FreeChainOver(t, free),
         NEW u, u.freeList = p, u.nextFree = [t.nextFree EXCEPT ![p] = t.freeList]
  PROVE  FreeChainOver(u, free \cup {p})
<1>1. u.nextFree[p] = t.freeList /\ \A q \in Page \ {p} : u.nextFree[q] = t.nextFree[q]
  OBVIOUS
<1>2. /\ IsListOf(t.freeList, t.nextFree, NoPage, free) /\ IsFiniteSet(free)
      /\ p \notin free
      /\ u.nextFree[p] = t.freeList /\ \A q \in free : u.nextFree[q] = t.nextFree[q]
  BY <1>1, PageFinite DEF FreeChainOver
<1>3. IsListOf(p, u.nextFree, NoPage, free \cup {p})
  BY <1>2, PushList
<1> QED
  BY <1>1, <1>3 DEF FreeChainOver

\* The chain is a matter of the two link fields alone.
LEMMA SameLinks ==
  ASSUME NEW t, NEW u, NEW free, FreeChainOver(t, free),
         u.freeList = t.freeList, u.nextFree = t.nextFree
  PROVE  FreeChainOver(u, free)
BY DEF FreeChainOver

-----------------------------------------------------------------------------

Words == [Page -> [Index -> PageRef \cup {Data}]]

\* The pages that are counted: not those of the kernel and of its static map.
PoolOf(w) == Page \ (Reserved \cup {w[KDir][KernPdx]})

(***************************************************************************)
(* The roles of pages: the directories in D, the tables they name and what  *)
(* the tables name are three disjoint sets of pages of the pool, and no     *)
(* table is named twice.  kernelPageDir names no table of the user half.    *)
(***************************************************************************)
Roles(w, D) ==
    /\ w[KDir][KernPdx] \in Page \ Reserved
    /\ \A i \in UserPdx : w[KDir][i] = NoPage
    /\ D \subseteq PoolOf(w)
    /\ \A d \in D, i \in UserPdx : w[d][i] # NoPage => w[d][i] \in PoolOf(w) \ D
    /\ \A d, e \in D, i, j \in UserPdx :
          w[d][i] = w[e][j] /\ w[d][i] # NoPage => d = e /\ i = j
    /\ \A t \in TablesIn(w, D), i \in Index :
          w[t][i] # NoPage => w[t][i] \in PoolOf(w) \ (D \cup TablesIn(w, D))

-----------------------------------------------------------------------------
LEMMA Constants ==
  /\ KDir \in Reserved /\ Reserved \subseteq Page
  /\ UserPdx \subseteq Index /\ KernPdx \in Index /\ SelfPdx \in Index
  /\ KernPdx \notin UserPdx /\ SelfPdx \notin UserPdx
  /\ NoPage \notin Page /\ Data \notin Page /\ Data # NoPage
  /\ IsFiniteSet(Index) /\ IsFiniteSet(UserPdx)
  /\ 1 \in 0..RefMod-1 /\ 0 \in 0..RefMod-1
<1> USE PhysMemAssumption, PageDirAssumption
<1>1. IsFiniteSet(Index) /\ IsFiniteSet(UserPdx)
  <2>1. 0 \in Int /\ NWords-1 \in Int /\ NUser-1 \in Int
    OBVIOUS
  <2> QED
    BY <2>1, FS_Interval DEF Index, UserPdx
<1> QED
  BY <1>1 DEF KDir, Reserved, Page, UserPdx, Index, KernPdx, SelfPdx

\* A table is what an entry of a directory names.
LEMMA TableIs ==
  ASSUME NEW w, NEW D, NEW t
  PROVE  t \in TablesIn(w, D) <=> t # NoPage /\ \E d \in D, i \in UserPdx : w[d][i] = t
BY DEF TablesIn

LEMMA RolesPages ==
  ASSUME NEW w, NEW D, Roles(w, D)
  PROVE  /\ D \subseteq Page /\ TablesIn(w, D) \subseteq PoolOf(w) \ D
         /\ PoolOf(w) \subseteq Page /\ KDir \notin PoolOf(w) /\ KDir \notin D
         /\ IsFiniteSet(D) /\ IsFiniteSet(TablesIn(w, D))
<1>1. /\ D \subseteq Page /\ TablesIn(w, D) \subseteq PoolOf(w) \ D
      /\ PoolOf(w) \subseteq Page /\ KDir \notin PoolOf(w) /\ KDir \notin D
  BY Constants DEF Roles, TablesIn, PoolOf
<1> QED
  BY <1>1, PageFinite, FS_Subset

\* The references are finite sets of pairs.
LEMMA EntriesFinite ==
  ASSUME NEW w, NEW D, Roles(w, D), NEW p
  PROVE  IsFiniteSet(DirEntries(w, D, p)) /\ IsFiniteSet(TableEntries(w, D, p))
<1>1. IsFiniteSet(D \X UserPdx) /\ IsFiniteSet(TablesIn(w, D) \X Index)
  BY RolesPages, Constants, FS_Product
<1>2. DirEntries(w, D, p) \in SUBSET (D \X UserPdx)
      /\ TableEntries(w, D, p) \in SUBSET (TablesIn(w, D) \X Index)
  BY DEF DirEntries, TableEntries
<1> QED
  BY <1>1, <1>2, FS_Subset

LEMMA EntryIs ==
  ASSUME NEW w, NEW D, NEW p
  PROVE  /\ \A d, i : <<d, i>> \in DirEntries(w, D, p)
                        <=> d \in D /\ i \in UserPdx /\ w[d][i] = p
         /\ \A t, i : <<t, i>> \in TableEntries(w, D, p)
                        <=> t \in TablesIn(w, D) /\ i \in Index /\ w[t][i] = p
BY DEF DirEntries, TableEntries

(***************************************************************************)
(* Words that agree with w on the directories, their tables and             *)
(* kernelPageDir give every page the same role and the same references.     *)
(***************************************************************************)
LEMMA SameWords ==
  ASSUME NEW w, NEW D, Roles(w, D), NEW v, v[KDir] = w[KDir],
         \A q \in D \cup TablesIn(w, D) : v[q] = w[q]
  PROVE  /\ TablesIn(v, D) = TablesIn(w, D) /\ PoolOf(v) = PoolOf(w)
         /\ Roles(v, D)
         /\ \A p : Refs(v, D, p) = Refs(w, D, p)
<1>1. TablesIn(v, D) = TablesIn(w, D) /\ PoolOf(v) = PoolOf(w)
  BY DEF TablesIn, PoolOf
<1>2. Roles(v, D)
  BY <1>1 DEF Roles
<1>3. ASSUME NEW p PROVE DirEntries(v, D, p) = DirEntries(w, D, p)
  BY DEF DirEntries
<1>4. ASSUME NEW p PROVE TableEntries(v, D, p) = TableEntries(w, D, p)
  BY <1>1 DEF TableEntries
<1> QED
  BY <1>1, <1>2, <1>3, <1>4 DEF Refs

\* A page without references is no directory, and no entry names it.
LEMMA NoRefs ==
  ASSUME NEW w, NEW D, Roles(w, D), NEW p
  PROVE  /\ Refs(w, D, p) \in Nat
         /\ Refs(w, D, p) = 0 <=>
               /\ p \notin D
               /\ \A d \in D, i \in UserPdx : w[d][i] # p
               /\ \A t \in TablesIn(w, D), i \in Index : w[t][i] # p
<1>1. /\ Cardinality(DirEntries(w, D, p)) \in Nat /\ Cardinality(TableEntries(w, D, p)) \in Nat
      /\ Cardinality(DirEntries(w, D, p)) = 0 <=> DirEntries(w, D, p) = {}
      /\ Cardinality(TableEntries(w, D, p)) = 0 <=> TableEntries(w, D, p) = {}
  BY EntriesFinite, FS_CardinalityType, FS_EmptySet
<1>2. DirEntries(w, D, p) = {} <=> \A d \in D, i \in UserPdx : w[d][i] # p
  <2>1. \A x \in DirEntries(w, D, p) : x[1] \in D /\ x[2] \in UserPdx /\ w[x[1]][x[2]] = p
    BY DEF DirEntries
  <2>2. \A d \in D, i \in UserPdx : w[d][i] = p => <<d, i>> \in DirEntries(w, D, p)
    BY EntryIs
  <2> QED
    BY <2>1, <2>2
<1>3. TableEntries(w, D, p) = {} <=> \A t \in TablesIn(w, D), i \in Index : w[t][i] # p
  <2>1. \A x \in TableEntries(w, D, p) :
           x[1] \in TablesIn(w, D) /\ x[2] \in Index /\ w[x[1]][x[2]] = p
    BY DEF TableEntries
  <2>2. \A t \in TablesIn(w, D), i \in Index : w[t][i] = p => <<t, i>> \in TableEntries(w, D, p)
    BY EntryIs
  <2> QED
    BY <2>1, <2>2
<1> QED
  BY <1>1, <1>2, <1>3 DEF Refs

(***************************************************************************)
(* A new, empty table pt in entry i of directory d.                         *)
(***************************************************************************)
LEMMA NewTableWords ==
  ASSUME NEW w, NEW D, Roles(w, D), NEW d \in D, NEW i \in UserPdx, w[d][i] = NoPage,
         NEW pt \in PoolOf(w), Refs(w, D, pt) = 0,
         NEW v, \A q \in Page, j \in Index :
                   v[q][j] = IF q = d /\ j = i THEN pt
                             ELSE IF q = pt THEN NoPage ELSE w[q][j]
  PROVE  /\ TablesIn(v, D) = TablesIn(w, D) \cup {pt} /\ PoolOf(v) = PoolOf(w)
         /\ Roles(v, D)
         /\ \A q \in Page : Refs(v, D, q) = Refs(w, D, q) + (IF q = pt THEN 1 ELSE 0)
<1>1. /\ pt \notin D /\ \A e \in D, j \in UserPdx : w[e][j] # pt
      /\ \A t \in TablesIn(w, D), j \in Index : w[t][j] # pt
      /\ pt \in Page /\ pt # NoPage /\ pt # KDir
  BY NoRefs, RolesPages, Constants
<1>2. /\ D \subseteq Page /\ TablesIn(w, D) \subseteq PoolOf(w) \ D /\ PoolOf(w) \subseteq Page
      /\ KDir \notin PoolOf(w) /\ KDir \in Page /\ KDir # d
  BY RolesPages, Constants DEF Roles
<1>3. /\ \A e \in D, j \in UserPdx : v[e][j] = IF e = d /\ j = i THEN pt ELSE w[e][j]
      /\ \A t \in TablesIn(w, D), j \in Index : v[t][j] = w[t][j]
      /\ \A j \in Index : v[pt][j] = NoPage /\ v[KDir][j] = w[KDir][j]
  BY <1>1, <1>2, Constants DEF TablesIn
<1>4. TablesIn(v, D) = TablesIn(w, D) \cup {pt}
  <2> SUFFICES ASSUME NEW t PROVE t \in TablesIn(v, D) <=> t \in TablesIn(w, D) \cup {pt}
    OBVIOUS
  <2>1. t \in TablesIn(v, D) => t \in TablesIn(w, D) \cup {pt}
    BY <1>3, TableIs
  <2>2. ASSUME t \in TablesIn(w, D) PROVE t \in TablesIn(v, D)
    <3>1. PICK e \in D, j \in UserPdx : w[e][j] = t
      BY <2>2, TableIs
    <3>2. v[e][j] = t /\ t # NoPage
      BY <1>3, <2>2, <3>1, TableIs
    <3> QED
      BY <3>2, TableIs
  <2>3. pt \in TablesIn(v, D)
    BY <1>1, <1>3, TableIs
  <2> QED
    BY <2>1, <2>2, <2>3
<1>5. PoolOf(v) = PoolOf(w)
  BY <1>3, Constants DEF PoolOf
<1>6. Roles(v, D)
  <2>1. /\ v[KDir][KernPdx] \in Page \ Reserved
        /\ \A j \in UserPdx : v[KDir][j] = NoPage
        /\ D \subseteq PoolOf(v)
    BY <1>3, <1>5, Constants DEF Roles
  <2>2. \A e \in D, j \in UserPdx : v[e][j] # NoPage => v[e][j] \in PoolOf(v) \ D
    BY <1>1, <1>3, <1>5 DEF Roles
  <2>3. \A e, f \in D, j, k \in UserPdx :
           v[e][j] = v[f][k] /\ v[e][j] # NoPage => e = f /\ j = k
    BY <1>1, <1>3 DEF Roles
  <2>4. \A t \in TablesIn(v, D), j \in Index :
           v[t][j] # NoPage => v[t][j] \in PoolOf(v) \ (D \cup TablesIn(v, D))
    BY <1>1, <1>3, <1>4, <1>5 DEF Roles
  <2> QED
    BY <2>1, <2>2, <2>3, <2>4 DEF Roles
<1>7. ASSUME NEW q \in Page
      PROVE  Refs(v, D, q) = Refs(w, D, q) + (IF q = pt THEN 1 ELSE 0)
  <2>1. TableEntries(v, D, q) = TableEntries(w, D, q)
    BY <1>3, <1>4, Constants DEF TableEntries
  <2>2. Cardinality(DirEntries(v, D, q)) = Cardinality(DirEntries(w, D, q)) + (IF q = pt THEN 1 ELSE 0)
    <3>1. CASE q = pt
      <4>1. DirEntries(v, D, q) = DirEntries(w, D, q) \cup {<<d, i>>}
        BY <1>1, <1>3, <3>1 DEF DirEntries
      <4>2. <<d, i>> \notin DirEntries(w, D, q)
        BY <1>1, <3>1, EntryIs
      <4>3. IsFiniteSet(DirEntries(w, D, q))
        BY EntriesFinite
      <4>4. Cardinality(DirEntries(w, D, q) \cup {<<d, i>>}) = Cardinality(DirEntries(w, D, q)) + 1
        BY <4>2, <4>3, FS_AddElement
      <4> QED
        BY <3>1, <4>1, <4>4
    <3>2. CASE q # pt
      <4>1. DirEntries(v, D, q) = DirEntries(w, D, q)
        BY <1>1, <1>3, <3>2, Constants DEF DirEntries
      <4>2. Cardinality(DirEntries(w, D, q)) \in Nat
        BY EntriesFinite, FS_CardinalityType
      <4> QED
        BY <3>2, <4>1, <4>2
    <3> QED
      BY <3>1, <3>2
  <2>3. Cardinality(DirEntries(w, D, q)) \in Nat /\ Cardinality(TableEntries(w, D, q)) \in Nat
    BY EntriesFinite, FS_CardinalityType
  <2> QED
    BY <2>1, <2>2, <2>3 DEF Refs
<1> QED
  BY <1>4, <1>5, <1>6, <1>7

(***************************************************************************)
(* Entry j of table pt is set from old to p, either of them nullptr.        *)
(***************************************************************************)
LEMMA EntryWords ==
  ASSUME NEW w, NEW D, Roles(w, D), NEW pt \in TablesIn(w, D), NEW j \in Index,
         NEW p, p # NoPage => p \in PoolOf(w) \ (D \cup TablesIn(w, D)),
         w[pt][j] = NoPage \/ p = NoPage,
         NEW v, \A q \in Page, k \in Index : v[q][k] = IF q = pt /\ k = j THEN p ELSE w[q][k]
  PROVE  /\ TablesIn(v, D) = TablesIn(w, D) /\ PoolOf(v) = PoolOf(w)
         /\ Roles(v, D)
         /\ \A q \in Page : Refs(v, D, q) = IF p = w[pt][j] THEN Refs(w, D, q)
                                            ELSE IF q = p THEN Refs(w, D, q) + 1
                                            ELSE IF q = w[pt][j] THEN Refs(w, D, q) - 1
                                            ELSE Refs(w, D, q)
<1>1. /\ D \subseteq Page /\ TablesIn(w, D) \subseteq PoolOf(w) \ D /\ PoolOf(w) \subseteq Page
      /\ KDir \notin PoolOf(w) /\ KDir \in Page
  BY RolesPages, Constants
<1>2. /\ \A e \in D, k \in UserPdx : v[e][k] = w[e][k]
      /\ \A t \in TablesIn(w, D), k \in Index : v[t][k] = IF t = pt /\ k = j THEN p ELSE w[t][k]
      /\ \A k \in Index : v[KDir][k] = w[KDir][k]
  BY <1>1, Constants
<1>3. TablesIn(v, D) = TablesIn(w, D)
  BY <1>2 DEF TablesIn
<1>4. PoolOf(v) = PoolOf(w)
  BY <1>2, Constants DEF PoolOf
<1>5. Roles(v, D)
  <2>1. /\ v[KDir][KernPdx] \in Page \ Reserved
        /\ \A k \in UserPdx : v[KDir][k] = NoPage
        /\ D \subseteq PoolOf(v)
    BY <1>2, <1>4, Constants DEF Roles
  <2>2. /\ \A e \in D, k \in UserPdx : v[e][k] # NoPage => v[e][k] \in PoolOf(v) \ D
        /\ \A e, f \in D, k, l \in UserPdx :
              v[e][k] = v[f][l] /\ v[e][k] # NoPage => e = f /\ k = l
    BY <1>2, <1>4 DEF Roles
  <2>3. \A t \in TablesIn(v, D), k \in Index :
           v[t][k] # NoPage => v[t][k] \in PoolOf(v) \ (D \cup TablesIn(v, D))
    BY <1>2, <1>3, <1>4 DEF Roles
  <2> QED
    BY <2>1, <2>2, <2>3 DEF Roles
<1>6. ASSUME NEW q \in Page
      PROVE  Refs(v, D, q) = IF p = w[pt][j] THEN Refs(w, D, q)
                             ELSE IF q = p THEN Refs(w, D, q) + 1
                             ELSE IF q = w[pt][j] THEN Refs(w, D, q) - 1
                             ELSE Refs(w, D, q)
  <2> DEFINE old == TableEntries(w, D, q)
             new == TableEntries(v, D, q)
  <2>1. DirEntries(v, D, q) = DirEntries(w, D, q)
    BY <1>2 DEF DirEntries
  <2>2. /\ IsFiniteSet(old) /\ Cardinality(old) \in Nat
        /\ Cardinality(DirEntries(w, D, q)) \in Nat
    BY EntriesFinite, FS_CardinalityType
  <2>3. CASE p = w[pt][j] \/ q \notin {p, w[pt][j]}
    <3>1. new = old
      BY <1>2, <1>3, <2>3 DEF TableEntries
    <3> QED
      BY <2>1, <2>2, <2>3, <3>1 DEF Refs
  <2>4. CASE p # w[pt][j] /\ q = p
    <3>1. new = old \cup {<<pt, j>>}
      BY <1>2, <1>3, <2>4 DEF TableEntries
    <3>2. <<pt, j>> \notin old
      BY <2>4, EntryIs
    <3> HIDE DEF new, old
    <3>3. Cardinality(new) = Cardinality(old) + 1
      BY <2>2, <3>1, <3>2, FS_AddElement
    <3> QED
      BY <2>1, <2>2, <2>4, <3>3 DEF Refs, new, old
  <2>5. CASE p # w[pt][j] /\ q # p /\ q = w[pt][j]
    <3>1. new = old \ {<<pt, j>>}
      <4>1. \A t \in TablesIn(w, D), k \in Index : v[t][k] = q <=> w[t][k] = q /\ <<t, k>> # <<pt, j>>
        BY <1>2, <2>5
      <4>2. new = {x \in TablesIn(w, D) \X Index : v[x[1]][x[2]] = q}
            /\ old = {x \in TablesIn(w, D) \X Index : w[x[1]][x[2]] = q}
        BY <1>3 DEF TableEntries
      <4>3. ASSUME NEW x \in TablesIn(w, D) \X Index
            PROVE  v[x[1]][x[2]] = q <=> w[x[1]][x[2]] = q /\ x # <<pt, j>>
        <5>1. x[1] \in TablesIn(w, D) /\ x[2] \in Index /\ x = <<x[1], x[2]>>
          OBVIOUS
        <5> QED
          BY <4>1, <5>1
      <4> HIDE DEF new, old
      <4> QED
        BY <4>2, <4>3
    <3>2. <<pt, j>> \in old
      BY <2>5, EntryIs
    <3> HIDE DEF new, old
    <3>3. Cardinality(new) = Cardinality(old) - 1
      BY <2>2, <3>1, <3>2, FS_RemoveElement
    <3> QED
      BY <2>1, <2>2, <2>5, <3>3 DEF Refs, new, old
  <2> QED
    BY <2>3, <2>4, <2>5
<1> QED
  BY <1>3, <1>4, <1>5, <1>6

(***************************************************************************)
(* An empty table pt goes from entry i of directory d.                      *)
(***************************************************************************)
LEMMA DropTableWords ==
  ASSUME NEW w, NEW D, Roles(w, D), NEW d \in D, NEW i \in UserPdx, NEW pt,
         w[d][i] = pt, pt # NoPage, \A j \in Index : w[pt][j] = NoPage,
         NEW v, \A q \in Page, j \in Index :
                   v[q][j] = IF q = d /\ j = i THEN NoPage ELSE w[q][j]
  PROVE  /\ TablesIn(v, D) = TablesIn(w, D) \ {pt} /\ PoolOf(v) = PoolOf(w)
         /\ Roles(v, D)
         /\ \A q \in Page : Refs(v, D, q) = IF q = pt THEN 0 ELSE Refs(w, D, q)
         /\ Refs(w, D, pt) = 1
<1>1. /\ D \subseteq Page /\ TablesIn(w, D) \subseteq PoolOf(w) \ D /\ PoolOf(w) \subseteq Page
      /\ KDir \notin PoolOf(w) /\ KDir \in Page /\ KDir # d
      /\ pt \in TablesIn(w, D)
  BY RolesPages, Constants, TableIs DEF Roles
<1>2. /\ \A e \in D, j \in UserPdx : v[e][j] = IF e = d /\ j = i THEN NoPage ELSE w[e][j]
      /\ \A t \in TablesIn(w, D), j \in Index : v[t][j] = w[t][j]
      /\ \A j \in Index : v[KDir][j] = w[KDir][j]
  BY <1>1, Constants
<1>3. \A e \in D, j \in UserPdx : w[e][j] = pt => e = d /\ j = i
  BY DEF Roles
<1>4. TablesIn(v, D) = TablesIn(w, D) \ {pt}
  <2> SUFFICES ASSUME NEW t PROVE t \in TablesIn(v, D) <=> t \in TablesIn(w, D) \ {pt}
    OBVIOUS
  <2>1. t \in TablesIn(v, D) => t \in TablesIn(w, D) \ {pt}
    BY <1>2, <1>3, TableIs
  <2>2. ASSUME t \in TablesIn(w, D), t # pt PROVE t \in TablesIn(v, D)
    <3>1. PICK e \in D, j \in UserPdx : w[e][j] = t
      BY <2>2, TableIs
    <3>2. v[e][j] = t /\ t # NoPage
      BY <1>2, <2>2, <3>1, TableIs
    <3> QED
      BY <3>2, TableIs
  <2> QED
    BY <2>1, <2>2
<1>5. PoolOf(v) = PoolOf(w)
  BY <1>2, Constants DEF PoolOf
<1>6. Roles(v, D)
  <2>1. /\ v[KDir][KernPdx] \in Page \ Reserved
        /\ \A j \in UserPdx : v[KDir][j] = NoPage
        /\ D \subseteq PoolOf(v)
    BY <1>2, <1>5, Constants DEF Roles
  <2>2. /\ \A e \in D, j \in UserPdx : v[e][j] # NoPage => v[e][j] \in PoolOf(v) \ D
        /\ \A e, f \in D, j, k \in UserPdx :
              v[e][j] = v[f][k] /\ v[e][j] # NoPage => e = f /\ j = k
    BY <1>2, <1>5 DEF Roles
  <2>3. \A t \in TablesIn(v, D), j \in Index :
           v[t][j] # NoPage => v[t][j] \in PoolOf(v) \ (D \cup TablesIn(v, D))
    BY <1>2, <1>4, <1>5 DEF Roles
  <2> QED
    BY <2>1, <2>2, <2>3 DEF Roles
<1>7. \A q \in Page : TableEntries(v, D, q) = TableEntries(w, D, q)
  <2> SUFFICES ASSUME NEW q \in Page PROVE TableEntries(v, D, q) = TableEntries(w, D, q)
    OBVIOUS
  <2>1. \A t \in TablesIn(w, D), j \in Index : w[t][j] = q => t # pt
    BY Constants
  <2> QED
    BY <1>2, <1>4, <2>1 DEF TableEntries
<1>8. TableEntries(w, D, pt) = {} /\ pt \notin D
  <2>1. \A x \in TableEntries(w, D, pt) :
           x[1] \in TablesIn(w, D) /\ x[2] \in Index /\ w[x[1]][x[2]] = pt
    BY DEF TableEntries
  <2> QED
    BY <1>1, <2>1 DEF Roles
<1>9. DirEntries(w, D, pt) = {<<d, i>>} /\ DirEntries(v, D, pt) = {}
  BY <1>1, <1>2, <1>3 DEF DirEntries
<1>10. \A q \in Page \ {pt} : DirEntries(v, D, q) = DirEntries(w, D, q)
  <2> SUFFICES ASSUME NEW q \in Page \ {pt} PROVE DirEntries(v, D, q) = DirEntries(w, D, q)
    OBVIOUS
  <2>1. \A e \in D, j \in UserPdx : v[e][j] = q <=> w[e][j] = q
    BY <1>2, Constants
  <2> QED
    BY <2>1 DEF DirEntries
<1>11. \A q \in Page \ {pt} : Refs(v, D, q) = Refs(w, D, q)
  BY <1>7, <1>10 DEF Refs
<1>12. Refs(v, D, pt) = 0 /\ Refs(w, D, pt) = 1
  <2>1. pt \in Page
    BY <1>1
  <2>2. Cardinality({<<d, i>>}) = 1 /\ Cardinality({}) = 0
    BY FS_Singleton, FS_EmptySet
  <2> QED
    BY <1>7, <1>8, <1>9, <2>1, <2>2 DEF Refs
<1> QED
  BY <1>4, <1>5, <1>6, <1>11, <1>12

(***************************************************************************)
(* A page becomes a directory without tables, and a directory without       *)
(* tables goes.                                                             *)
(***************************************************************************)
BareDir(w, p, v) ==
    (\A q \in Page \ {p} : v[q] = w[q]) /\ (\A i \in UserPdx : v[p][i] = NoPage)

LEMMA NewDirWords ==
  ASSUME NEW w, NEW D, Roles(w, D), NEW p \in PoolOf(w), Refs(w, D, p) = 0,
         NEW v, BareDir(w, p, v)
  PROVE  /\ TablesIn(v, D \cup {p}) = TablesIn(w, D) /\ PoolOf(v) = PoolOf(w)
         /\ Roles(v, D \cup {p})
         /\ \A q \in Page : Refs(v, D \cup {p}, q) = Refs(w, D, q) + (IF q = p THEN 1 ELSE 0)
<1>1. /\ p \notin D /\ \A e \in D, j \in UserPdx : w[e][j] # p
      /\ \A t \in TablesIn(w, D), j \in Index : w[t][j] # p
      /\ p \in Page /\ p # NoPage /\ p # KDir /\ p \notin TablesIn(w, D)
      /\ \A j \in UserPdx : v[p][j] = NoPage
  BY NoRefs, RolesPages, Constants, TableIs DEF BareDir
<1>2. /\ D \subseteq Page /\ TablesIn(w, D) \subseteq PoolOf(w) \ D /\ PoolOf(w) \subseteq Page
      /\ KDir \in Page
  BY RolesPages, Constants
<1>3. /\ \A e \in D, j \in UserPdx : v[e][j] = w[e][j]
      /\ \A t \in TablesIn(w, D), j \in Index : v[t][j] = w[t][j]
      /\ \A j \in Index : v[KDir][j] = w[KDir][j]
  BY <1>1, <1>2 DEF BareDir
<1>4. TablesIn(v, D \cup {p}) = TablesIn(w, D)
  BY <1>1, <1>3 DEF TablesIn
<1>5. PoolOf(v) = PoolOf(w)
  BY <1>3, Constants DEF PoolOf
<1>6. Roles(v, D \cup {p})
  <2>1. /\ v[KDir][KernPdx] \in Page \ Reserved
        /\ \A j \in UserPdx : v[KDir][j] = NoPage
        /\ D \cup {p} \subseteq PoolOf(v)
    BY <1>3, <1>5, Constants DEF Roles
  <2>2. /\ \A e \in D \cup {p}, j \in UserPdx : v[e][j] # NoPage => v[e][j] \in PoolOf(v) \ (D \cup {p})
        /\ \A e, f \in D \cup {p}, j, k \in UserPdx :
              v[e][j] = v[f][k] /\ v[e][j] # NoPage => e = f /\ j = k
    BY <1>1, <1>3, <1>5 DEF Roles
  <2>3. \A t \in TablesIn(w, D), j \in Index :
           v[t][j] # NoPage => v[t][j] \in PoolOf(v) \ (D \cup {p} \cup TablesIn(w, D))
    BY <1>1, <1>3, <1>5 DEF Roles
  <2> QED
    BY <1>4, <2>1, <2>2, <2>3 DEF Roles
<1>7. ASSUME NEW q \in Page
      PROVE  Refs(v, D \cup {p}, q) = Refs(w, D, q) + (IF q = p THEN 1 ELSE 0)
  <2>1. DirEntries(v, D \cup {p}, q) = DirEntries(w, D, q)
    BY <1>1, <1>3, Constants DEF DirEntries
  <2>2. TableEntries(v, D \cup {p}, q) = TableEntries(w, D, q)
    BY <1>3, <1>4 DEF TableEntries
  <2>3. Cardinality(DirEntries(w, D, q)) \in Nat /\ Cardinality(TableEntries(w, D, q)) \in Nat
    BY EntriesFinite, FS_CardinalityType
  <2> QED
    BY <1>1, <2>1, <2>2, <2>3 DEF Refs
<1> QED
  BY <1>4, <1>5, <1>6, <1>7

LEMMA DropDirWords ==
  ASSUME NEW w, NEW D, Roles(w, D), NEW d \in D, \A i \in UserPdx : w[d][i] = NoPage
  PROVE  /\ TablesIn(w, D \ {d}) = TablesIn(w, D)
         /\ Roles(w, D \ {d})
         /\ \A q \in Page : Refs(w, D \ {d}, q) = IF q = d THEN 0 ELSE Refs(w, D, q)
         /\ Refs(w, D, d) = 1
<1>1. TablesIn(w, D \ {d}) = TablesIn(w, D)
  BY DEF TablesIn
<1>2. Roles(w, D \ {d})
  BY <1>1 DEF Roles
<1>3. \A q \in Page : DirEntries(w, D \ {d}, q) = DirEntries(w, D, q)
  BY Constants DEF DirEntries
<1>4. \A q \in Page : TableEntries(w, D \ {d}, q) = TableEntries(w, D, q)
  BY <1>1 DEF TableEntries
<1>5. d \in Page /\ d # NoPage /\ DirEntries(w, D, d) = {} /\ TableEntries(w, D, d) = {}
  <2>1. d \in Page /\ d # NoPage
    BY RolesPages, Constants
  <2>2. \A e \in D, j \in UserPdx : w[e][j] # d
    BY <2>1 DEF Roles
  <2>3. \A t \in TablesIn(w, D), j \in Index : w[t][j] # d
    BY <2>1 DEF Roles
  <2> QED
    BY <2>1, <2>2, <2>3 DEF DirEntries, TableEntries
<1>6. Refs(w, D, d) = 1 /\ Refs(w, D \ {d}, d) = 0
  BY <1>3, <1>4, <1>5, FS_EmptySet DEF Refs
<1>7. \A q \in Page \ {d} : Refs(w, D \ {d}, q) = Refs(w, D, q)
  BY <1>3, <1>4 DEF Refs
<1> QED
  BY <1>1, <1>2, <1>6, <1>7

-----------------------------------------------------------------------------
(***************************************************************************)
(* A sound memory: the pages have their roles, the count of each page of    *)
(* the pool is its references, and the pages without references are on the  *)
(* list.  Within an operation one page may be off: owe is counted and not   *)
(* yet entered, loose is allocated and not yet counted.                     *)
(***************************************************************************)
FreeOf(x, loose) == {p \in PoolOf(x.word) : x.refCount[p] = 0} \ {loose}

Sound(x, D, owe, loose) ==
    /\ x \in Memory
    /\ ~Stopped(x)
    /\ Roles(x.word, D)
    /\ \A p \in PoolOf(x.word) :
          x.refCount[p] = Refs(x.word, D, p) + (IF p = owe THEN 1 ELSE 0)
    /\ FreeChainOver(x, FreeOf(x, loose))
    /\ owe # NoPage => owe \in PoolOf(x.word) \ (D \cup TablesIn(x.word, D))
    /\ loose # NoPage => loose \in PoolOf(x.word) /\ x.refCount[loose] = 0

\* The kernel went on with a page that holds kernel data.
HitsResident(x) == x.wild /\ ~x.panic /\ Resident # {}

\* The fields of a memory after the operations of PageInfo.
LEMMA AllocFields ==
  ASSUME NEW x \in Memory, ~x.panic, x.freeList # NoPage, x.freeList \notin Resident
  PROVE  /\ AllocZero(x) \in Memory
         /\ AllocZero(x).panic = x.panic /\ AllocZero(x).wild = x.wild
         /\ AllocZero(x).refCount = x.refCount
         /\ AllocZero(x).freeList = x.nextFree[x.freeList]
         /\ AllocZero(x).nextFree = [x.nextFree EXCEPT ![x.freeList] = NoPage]
         /\ AllocZero(x).word = [x.word EXCEPT ![x.freeList] = ZeroPage]
<1>1. x.freeList \in Page
  BY DEF Memory, PageRef
<1>2. ZeroPage \in [Index -> PageRef \cup {Data}]
  BY DEF ZeroPage, PageRef
<1> QED
  BY <1>1, <1>2 DEF AllocZero, AfterAlloc, Memory, PageRef

LEMMA IncFields ==
  ASSUME NEW x \in Memory, ~x.panic, NEW p \in Page, x.refCount[p] < RefMod - 1
  PROVE  /\ IncRef(x, p) \in Memory
         /\ IncRef(x, p).panic = x.panic /\ IncRef(x, p).wild = x.wild
         /\ IncRef(x, p).refCount = [x.refCount EXCEPT ![p] = @ + 1]
         /\ IncRef(x, p).freeList = x.freeList
         /\ IncRef(x, p).nextFree = x.nextFree
         /\ IncRef(x, p).word = x.word
<1> DEFINE c == [x.refCount EXCEPT ![p] = x.refCount[p] + 1]
<1>1. /\ x.refCount \in [Page -> 0..RefMod-1] /\ x.refCount[p] # RefMod - 1
      /\ x.refCount[p] + 1 \in 0..RefMod-1
  BY PhysMemAssumption DEF Memory
<1>2. c \in [Page -> 0..RefMod-1] /\ c = [x.refCount EXCEPT ![p] = @ + 1]
  BY <1>1
<1>3. IncRef(x, p) = [x EXCEPT !.refCount = c]
  BY <1>1 DEF IncRef
<1> HIDE DEF c
<1> QED
  BY <1>2, <1>3 DEF Memory

\* decRef of a page that is counted, and off the list.
LEMMA DecFields ==
  ASSUME NEW x \in Memory, ~x.panic, NEW p \in Page, x.refCount[p] > 0,
         x.nextFree[p] = NoPage
  PROVE  /\ DecRef(x, p) \in Memory
         /\ DecRef(x, p).panic = x.panic /\ DecRef(x, p).wild = x.wild
         /\ DecRef(x, p).refCount = [x.refCount EXCEPT ![p] = @ - 1]
         /\ DecRef(x, p).word = x.word
         /\ x.refCount[p] # 1 => /\ DecRef(x, p).freeList = x.freeList
                                 /\ DecRef(x, p).nextFree = x.nextFree
         /\ x.refCount[p] = 1 => /\ DecRef(x, p).freeList = p
                                 /\ DecRef(x, p).nextFree = [x.nextFree EXCEPT ![p] = x.freeList]
<1> DEFINE c    == [x.refCount EXCEPT ![p] = x.refCount[p] - 1]
           less == [x EXCEPT !.refCount = c]
<1>1. /\ x.refCount \in [Page -> 0..RefMod-1] /\ x.refCount[p] # 0
      /\ x.refCount[p] - 1 \in 0..RefMod-1
      /\ x.refCount[p] - 1 = 0 <=> x.refCount[p] = 1
  BY PhysMemAssumption DEF Memory
<1>2. /\ c \in [Page -> 0..RefMod-1] /\ c = [x.refCount EXCEPT ![p] = @ - 1]
      /\ c[p] = 0 <=> x.refCount[p] = 1
  BY <1>1
<1>3. less = [x EXCEPT !.refCount[p] = IF @ = 0 THEN RefMod - 1 ELSE @ - 1]
  BY <1>1
<1> HIDE DEF c
<1>4. /\ less \in Memory /\ less.panic = x.panic /\ less.wild = x.wild /\ less.word = x.word
      /\ less.refCount = c /\ less.freeList = x.freeList /\ less.nextFree = x.nextFree
  BY <1>2 DEF Memory
<1>5. DecRef(x, p) = IF less.refCount[p] = 0 THEN FreePage(less, p) ELSE less
  BY <1>3, Zenon DEF DecRef
<1> HIDE DEF less
<1>6. CASE x.refCount[p] # 1
  BY <1>2, <1>4, <1>5, <1>6
<1>7. CASE x.refCount[p] = 1
  <2>1. DecRef(x, p) = [less EXCEPT !.nextFree[p] = less.freeList, !.freeList = p]
    BY <1>2, <1>4, <1>5, <1>7 DEF FreePage
  <2> DEFINE nf == [less.nextFree EXCEPT ![p] = less.freeList]
  <2>2. nf \in [Page -> PageRef] /\ p \in PageRef
    BY <1>4 DEF Memory, PageRef
  <2>3. DecRef(x, p) = [less EXCEPT !.nextFree = nf, !.freeList = p]
    BY <2>1
  <2>4. nf = [x.nextFree EXCEPT ![p] = x.freeList]
    BY <1>4
  <2> HIDE DEF nf
  <2>5. /\ DecRef(x, p) \in Memory
        /\ DecRef(x, p).panic = less.panic /\ DecRef(x, p).wild = less.wild
        /\ DecRef(x, p).refCount = less.refCount /\ DecRef(x, p).word = less.word
        /\ DecRef(x, p).freeList = p /\ DecRef(x, p).nextFree = nf
    BY <1>4, <2>2, <2>3 DEF Memory
  <2> QED
    BY <1>2, <1>4, <1>7, <2>4, <2>5
<1> QED
  BY <1>6, <1>7

(***************************************************************************)
(* A page that is counted is off the list, and so is a loose one.           *)
(***************************************************************************)
LEMMA SoundFacts ==
  ASSUME NEW x, NEW D, NEW owe, NEW loose, Sound(x, D, owe, loose)
  PROVE  /\ FreeOf(x, loose) \in SUBSET Page /\ PoolOf(x.word) \subseteq Page
         /\ \A p \in PoolOf(x.word) :
               x.refCount[p] \in Nat /\ (x.refCount[p] # 0 \/ p = loose => x.nextFree[p] = NoPage)
         /\ x.freeList # NoPage => /\ x.freeList \in FreeOf(x, loose)
                                   /\ x.freeList \in PoolOf(x.word) /\ x.freeList \in Page
                                   /\ x.refCount[x.freeList] = 0 /\ x.freeList # loose
                                   /\ x.freeList # owe
                                   /\ Refs(x.word, D, x.freeList) = 0
<1>1. FreeOf(x, loose) \in SUBSET Page /\ PoolOf(x.word) \subseteq Page
  BY DEF FreeOf, PoolOf
<1>2. \A p \in PoolOf(x.word) :
         x.refCount[p] \in Nat /\ (x.refCount[p] # 0 \/ p = loose => x.nextFree[p] = NoPage)
  BY <1>1, PhysMemAssumption DEF Sound, FreeOf, FreeChainOver, Memory
<1>3. ASSUME x.freeList # NoPage PROVE x.freeList \in FreeOf(x, loose)
  BY <1>1, <1>3, ListHead, PageFinite DEF Sound, FreeChainOver
<1>4. ASSUME x.freeList # NoPage
      PROVE  /\ x.freeList \in PoolOf(x.word) /\ x.freeList \in Page
             /\ x.refCount[x.freeList] = 0 /\ x.freeList # loose
  BY <1>1, <1>3, <1>4 DEF FreeOf
<1>5. ASSUME x.freeList # NoPage
      PROVE  x.freeList # owe /\ Refs(x.word, D, x.freeList) = 0
  <2>1. Refs(x.word, D, x.freeList) \in Nat
    BY NoRefs DEF Sound
  <2>2. 0 = Refs(x.word, D, x.freeList) + (IF x.freeList = owe THEN 1 ELSE 0)
    BY <1>4, <1>5 DEF Sound
  <2> QED
    BY <2>1, <2>2
<1> QED
  BY <1>1, <1>2, <1>3, <1>4, <1>5

(***************************************************************************)
(* PageInfo::alloc: the head of the list is loose and clear.                *)
(***************************************************************************)
LEMMA AllocSound ==
  ASSUME NEW x, NEW D, Sound(x, D, NoPage, NoPage), x.freeList # NoPage,
         x.freeList \notin Resident
  PROVE  /\ Sound(AllocZero(x), D, NoPage, x.freeList)
         /\ AllocZero(x).word[x.freeList] = ZeroPage
         /\ \A q \in Page \ {x.freeList} : AllocZero(x).word[q] = x.word[q]
         /\ PoolOf(AllocZero(x).word) = PoolOf(x.word)
         /\ x.freeList \notin D \cup TablesIn(x.word, D) \cup {KDir}
         /\ TablesIn(AllocZero(x).word, D) = TablesIn(x.word, D)
<1> DEFINE p == x.freeList
           y == AllocZero(x)
<1>1. /\ y \in Memory /\ y.panic = x.panic /\ y.wild = x.wild /\ y.refCount = x.refCount
      /\ y.freeList = x.nextFree[p] /\ y.nextFree = [x.nextFree EXCEPT ![p] = NoPage]
      /\ y.word = [x.word EXCEPT ![p] = ZeroPage]
  BY AllocFields DEF Sound, Stopped
<1>2. /\ p \in FreeOf(x, NoPage) /\ p \in PoolOf(x.word) /\ p \in Page /\ x.refCount[p] = 0
      /\ p # NoPage /\ Refs(x.word, D, p) = 0 /\ FreeOf(x, NoPage) \in SUBSET Page
  BY SoundFacts
<1> HIDE DEF y, p
<1>3. /\ p \notin D \cup TablesIn(x.word, D) \cup {KDir}
      /\ y.word[p] = ZeroPage /\ \A q \in Page \ {p} : y.word[q] = x.word[q]
  BY <1>1, <1>2, NoRefs, TableIs, RolesPages DEF Sound, Memory
<1>4. /\ TablesIn(y.word, D) = TablesIn(x.word, D) /\ PoolOf(y.word) = PoolOf(x.word)
      /\ Roles(y.word, D) /\ \A q : Refs(y.word, D, q) = Refs(x.word, D, q)
  <2>1. y.word[KDir] = x.word[KDir] /\ \A q \in D \cup TablesIn(x.word, D) : y.word[q] = x.word[q]
    BY <1>3, RolesPages, Constants DEF Sound
  <2> QED
    BY <2>1, SameWords DEF Sound
<1>5. FreeOf(y, p) = FreeOf(x, NoPage) \ {p}
  <2>1. NoPage \notin PoolOf(x.word)
    BY Constants DEF PoolOf
  <2> QED
    BY <1>1, <1>4, <2>1 DEF FreeOf
<1>6. FreeChainOver(y, FreeOf(y, p))
  <2>1. /\ x.nextFree \in [Page -> PageRef] /\ FreeChainOver(x, FreeOf(x, NoPage))
        /\ x.freeList = p
    BY DEF Sound, Memory, p
  <2> QED
    BY <1>1, <1>2, <1>5, <2>1, PopLinks
<1> QED
  BY <1>1, <1>2, <1>3, <1>4, <1>6 DEF Sound, Stopped, y, p

(***************************************************************************)
(* The table that findPte makes: allocated, cleared, counted and entered.   *)
(***************************************************************************)
LEMMA TableFields ==
  ASSUME NEW x \in Memory, ~Stopped(x), NEW d \in Page, NEW i \in Index,
         x.word[d][i] = NoPage, x.freeList # NoPage, x.freeList \notin Resident \cup {d},
         x.refCount[x.freeList] = 0,
         NEW y, y = WithTable(x, d, i)
  PROVE  /\ y \in Memory /\ ~Stopped(y)
         /\ y.refCount = [x.refCount EXCEPT ![x.freeList] = 1]
         /\ y.freeList = x.nextFree[x.freeList]
         /\ y.nextFree = [x.nextFree EXCEPT ![x.freeList] = NoPage]
         /\ \A q \in Page, j \in Index :
               y.word[q][j] = IF q = d /\ j = i THEN x.freeList
                              ELSE IF q = x.freeList THEN NoPage ELSE x.word[q][j]
<1> DEFINE pt == x.freeList
           a  == AllocZero(x)
           b  == IncRef(a, pt)
           w  == [b.word EXCEPT ![d][i] = pt]
<1>1. pt \in Page /\ ~x.panic /\ ~x.wild
  BY DEF Memory, PageRef, Stopped
<1>2. /\ a \in Memory /\ a.panic = x.panic /\ a.wild = x.wild /\ a.refCount = x.refCount
      /\ a.freeList = x.nextFree[pt] /\ a.nextFree = [x.nextFree EXCEPT ![pt] = NoPage]
      /\ a.word = [x.word EXCEPT ![pt] = ZeroPage]
  BY <1>1, AllocFields
<1> HIDE DEF a
<1>3. ~a.panic /\ a.refCount[pt] = 0 /\ 0 < RefMod - 1
  BY <1>1, <1>2, PhysMemAssumption
<1>4. /\ b \in Memory /\ b.panic = a.panic /\ b.wild = a.wild
      /\ b.refCount = [a.refCount EXCEPT ![pt] = @ + 1]
      /\ b.freeList = a.freeList /\ b.nextFree = a.nextFree /\ b.word = a.word
  BY <1>1, <1>2, <1>3, IncFields
<1>5. b.refCount = [x.refCount EXCEPT ![pt] = 1]
  <2>1. 0 + 1 = 1 /\ x.refCount[pt] = 0
    OBVIOUS
  <2>2. x.refCount \in [Page -> 0..RefMod-1]
    BY DEF Memory
  <2> HIDE DEF b, pt
  <2> QED
    BY <1>2, <1>4, <2>1, <2>2
<1> HIDE DEF b
<1>6. y = [b EXCEPT !.word = w]
  <2>1. ~Stopped(x) /\ ~Stopped(a) /\ x.word[d][i] = NoPage /\ pt # NoPage
    BY <1>1, <1>2 DEF Stopped
  <2>2. y = [b EXCEPT !.word[d][i] = pt]
    BY <2>1, Zenon DEF WithTable, a, b
  <2> QED
    BY <2>2
<1>7. /\ w \in [Page -> [Index -> PageRef \cup {Data}]]
      /\ \A q \in Page, j \in Index :
            w[q][j] = IF q = d /\ j = i THEN pt
                      ELSE IF q = pt THEN NoPage ELSE x.word[q][j]
  <2>1. b.word \in [Page -> [Index -> PageRef \cup {Data}]]
    BY <1>4 DEF Memory
  <2>2. \A q \in Page, j \in Index : b.word[q][j] = IF q = pt THEN NoPage ELSE x.word[q][j]
    BY <1>1, <1>2, <1>4 DEF Memory, ZeroPage
  <2>3. \A q \in Page, j \in Index :
           w[q][j] = IF q = d /\ j = i THEN pt ELSE b.word[q][j]
    BY <2>1
  <2>4. w \in [Page -> [Index -> PageRef \cup {Data}]]
    BY <1>1, <2>1 DEF PageRef
  <2> HIDE DEF w, pt
  <2> QED
    BY <2>2, <2>3, <2>4
<1> HIDE DEF w
<1>8. /\ y \in Memory /\ y.panic = b.panic /\ y.wild = b.wild /\ y.refCount = b.refCount
      /\ y.freeList = b.freeList /\ y.nextFree = b.nextFree /\ y.word = w
  BY <1>4, <1>6, <1>7 DEF Memory
<1> QED
  BY <1>1, <1>2, <1>4, <1>5, <1>7, <1>8 DEF Stopped

(***************************************************************************)
(* findPte with create in a sound memory: a page that was counted or loose  *)
(* keeps its count and its role, and no translation changes.                *)
(***************************************************************************)
Kept(x, y, D, loose) ==
    /\ PoolOf(y.word) = PoolOf(x.word)
    /\ \A q \in PoolOf(x.word) : x.refCount[q] # 0 \/ q = loose =>
          /\ y.refCount[q] = x.refCount[q]
          /\ q \in TablesIn(y.word, D) <=> q \in TablesIn(x.word, D)
          /\ Refs(y.word, D, q) = Refs(x.word, D, q)
          /\ q \notin D => y.word[q] = x.word[q]
    /\ \A e \in D \cup {KDir}, va \in Va :
          Translation(y.word, e, va) = Translation(x.word, e, va)

LEMMA KeptSame == ASSUME NEW x, NEW D, NEW loose PROVE Kept(x, x, D, loose)
BY DEF Kept

LEMMA TableSound ==
  ASSUME NEW x, NEW D, NEW loose, Sound(x, D, NoPage, loose), NEW d \in D, NEW i \in UserPdx,
         NEW y, y = WithTable(x, d, i)
  PROVE  \/ HitsResident(y)
         \/ /\ Sound(y, D, NoPage, loose)
            /\ Kept(x, y, D, loose)
            /\ y.word[d][i] = NoPage <=> x.word[d][i] = NoPage /\ x.freeList = NoPage
            /\ y.word[d][i] = NoPage => y = x
<1> DEFINE pt == x.freeList
<1>1. CASE x.word[d][i] # NoPage \/ pt = NoPage
  <2>1. y = x
    BY <1>1 DEF WithTable
  <2> QED
    BY <1>1, <2>1, KeptSame
<1>2. CASE x.word[d][i] = NoPage /\ pt # NoPage /\ pt \in Resident
  <2>1. y = Wild(x) /\ ~x.panic /\ x \in Memory
    BY <1>2 DEF WithTable, AllocZero, Sound, Stopped, Wild, Memory
  <2> QED
    BY <1>2, <2>1 DEF Wild, Memory, HitsResident
<1>3. CASE x.word[d][i] = NoPage /\ pt # NoPage /\ pt \notin Resident
  <2>1. /\ x \in Memory /\ ~Stopped(x) /\ Roles(x.word, D) /\ d \in Page /\ i \in Index
        /\ D \subseteq Page /\ TablesIn(x.word, D) \subseteq PoolOf(x.word) \ D /\ KDir \in Page
    BY RolesPages, Constants DEF Sound
  <2>2. /\ pt \in FreeOf(x, loose) /\ pt \in PoolOf(x.word) /\ pt \in Page /\ x.refCount[pt] = 0
        /\ pt # loose /\ Refs(x.word, D, pt) = 0 /\ FreeOf(x, loose) \in SUBSET Page
    BY <1>3, SoundFacts
  <2>3. pt \notin D \cup TablesIn(x.word, D) \cup {KDir}
    BY <1>3, <2>1, <2>2, NoRefs, TableIs, RolesPages
  <2>4. /\ y \in Memory /\ ~Stopped(y)
        /\ y.refCount = [x.refCount EXCEPT ![pt] = 1]
        /\ y.freeList = x.nextFree[pt]
        /\ y.nextFree = [x.nextFree EXCEPT ![pt] = NoPage]
        /\ \A q \in Page, j \in Index :
              y.word[q][j] = IF q = d /\ j = i THEN pt
                             ELSE IF q = pt THEN NoPage ELSE x.word[q][j]
    BY <1>3, <2>1, <2>2, <2>3, TableFields
  <2> HIDE DEF pt
  <2>5. /\ TablesIn(y.word, D) = TablesIn(x.word, D) \cup {pt} /\ PoolOf(y.word) = PoolOf(x.word)
        /\ Roles(y.word, D)
        /\ \A q \in Page : Refs(y.word, D, q) = Refs(x.word, D, q) + (IF q = pt THEN 1 ELSE 0)
    BY <1>3, <2>1, <2>2, <2>4, NewTableWords
  <2>6. \A q \in Page : Refs(x.word, D, q) \in Nat
    BY <2>1, NoRefs
  <2>7. \A q \in Page : q # pt => Refs(y.word, D, q) = Refs(x.word, D, q)
    BY <2>5, <2>6
  <2>8. Refs(y.word, D, pt) = 1
    BY <2>2, <2>5
  <2>9. x.refCount \in [Page -> 0..RefMod-1] /\ x.nextFree \in [Page -> PageRef]
        /\ y.word \in Words /\ x.word \in Words
    BY <2>1, <2>4 DEF Memory, Words
  <2>10. \A q \in Page : y.refCount[q] = IF q = pt THEN 1 ELSE x.refCount[q]
    BY <2>2, <2>4, <2>9
  <2>11. \A q \in PoolOf(y.word) :
            y.refCount[q] = Refs(y.word, D, q) + (IF q = NoPage THEN 1 ELSE 0)
    <3>1. \A q \in PoolOf(x.word) : q \in Page /\ q # NoPage
      BY Constants DEF PoolOf
    <3>2. \A q \in PoolOf(x.word) : x.refCount[q] = Refs(x.word, D, q)
      BY <3>1, <2>6 DEF Sound
    <3>3. \A q \in PoolOf(y.word) : y.refCount[q] = Refs(y.word, D, q)
      BY <2>5, <2>7, <2>8, <2>10, <3>1, <3>2
    <3>4. \A q \in PoolOf(y.word) : Refs(y.word, D, q) \in Nat
      BY <2>5, <3>1, NoRefs
    <3> QED
      BY <2>5, <3>1, <3>3, <3>4
  <2>12. FreeOf(y, loose) = FreeOf(x, loose) \ {pt}
    BY <2>5, <2>10 DEF FreeOf, PoolOf
  <2>13. FreeChainOver(y, FreeOf(y, loose))
    <3>1. FreeChainOver(x, FreeOf(x, loose)) /\ x.freeList = pt
      BY DEF Sound, pt
    <3> QED
      BY <1>3, <2>2, <2>4, <2>9, <2>12, <3>1, PopLinks
  <2>14. Sound(y, D, NoPage, loose)
    <3>1. loose # NoPage => loose \in PoolOf(y.word) /\ y.refCount[loose] = 0
      BY <2>2, <2>5, <2>10 DEF Sound, PoolOf
    <3> QED
      BY <2>4, <2>5, <2>11, <2>13, <3>1 DEF Sound
  <2>15. Kept(x, y, D, loose)
    <3>1. ASSUME NEW q \in PoolOf(x.word), x.refCount[q] # 0 \/ q = loose
          PROVE  /\ y.refCount[q] = x.refCount[q]
                 /\ q \in TablesIn(y.word, D) <=> q \in TablesIn(x.word, D)
                 /\ Refs(y.word, D, q) = Refs(x.word, D, q)
                 /\ q \notin D => y.word[q] = x.word[q]
      <4>1. q # pt /\ q \in Page
        BY <2>2, <3>1 DEF PoolOf
      <4>2. ASSUME q # d PROVE y.word[q] = x.word[q]
        BY <2>4, <2>9, <4>1, <4>2 DEF Words
      <4> QED
        BY <2>5, <2>7, <2>10, <4>1, <4>2
    <3>2. ASSUME NEW e \in D \cup {KDir}, NEW va \in Va
          PROVE  Translation(y.word, e, va) = Translation(x.word, e, va)
      <4>1. va[1] \in UserPdx /\ va[2] \in Index /\ va[1] \in Index /\ e \in Page /\ e # pt
        BY <2>1, <2>3, Constants DEF Va
      <4>2. CASE e = d /\ va[1] = i
        <5>1. y.word[e][va[1]] = pt /\ y.word[pt][va[2]] = NoPage
          BY <2>2, <2>3, <2>4, <4>1, <4>2
        <5> QED
          BY <1>3, <4>2, <5>1 DEF Translation
      <4>3. CASE ~(e = d /\ va[1] = i)
        <5>1. y.word[e][va[1]] = x.word[e][va[1]]
          BY <2>4, <4>1, <4>3
        <5>2. CASE e \in D /\ x.word[e][va[1]] # NoPage
          <6>1. x.word[e][va[1]] \in TablesIn(x.word, D)
            BY <4>1, <5>2, TableIs
          <6>2. /\ x.word[e][va[1]] \in Page /\ x.word[e][va[1]] # pt
                /\ x.word[e][va[1]] # d
            BY <2>1, <2>3, <6>1 DEF PoolOf
          <6>3. y.word[x.word[e][va[1]]][va[2]] = x.word[x.word[e][va[1]]][va[2]]
            BY <2>4, <4>1, <6>2
          <6> QED
            BY <5>1, <6>3 DEF Translation
        <5>3. CASE e = KDir \/ x.word[e][va[1]] = NoPage
          <6>1. x.word[e][va[1]] = NoPage
            BY <2>1, <4>1, <5>3 DEF Roles
          <6> QED
            BY <5>1, <6>1 DEF Translation
        <5> QED
          BY <5>2, <5>3
      <4> QED
        BY <4>2, <4>3
    <3> QED
      BY <2>5, <3>1, <3>2 DEF Kept
  <2>16. y.word[d][i] = pt
    BY <2>1, <2>4
  <2> QED
    BY <1>3, <2>14, <2>15, <2>16 DEF pt
<1> QED
  BY <1>1, <1>2, <1>3

(***************************************************************************)
(* refCount++ before insert enters the page: a loose page, or one that is   *)
(* mapped already.                                                          *)
(***************************************************************************)
LEMMA IncSound ==
  ASSUME NEW x, NEW D, NEW loose, Sound(x, D, NoPage, loose),
         NEW p \in PoolOf(x.word), p \notin D \cup TablesIn(x.word, D),
         p = loose \/ (loose = NoPage /\ x.refCount[p] # 0),
         x.refCount[p] < RefMod - 1,
         NEW y, y = IncRef(x, p)
  PROVE  Sound(y, D, p, NoPage) /\ y.word = x.word /\ y.freeList = x.freeList
<1>1. /\ x \in Memory /\ ~Stopped(x) /\ ~x.panic /\ Roles(x.word, D)
      /\ FreeChainOver(x, FreeOf(x, loose)) /\ NoPage \notin Page
      /\ p \in Page /\ PoolOf(x.word) \subseteq Page
  BY RolesPages, Constants DEF Sound, Stopped
<1>2. /\ y \in Memory /\ y.panic = x.panic /\ y.wild = x.wild
      /\ y.refCount = [x.refCount EXCEPT ![p] = @ + 1]
      /\ y.freeList = x.freeList /\ y.nextFree = x.nextFree /\ y.word = x.word
  BY <1>1, IncFields
<1>3. x.refCount \in [Page -> 0..RefMod-1] /\ \A q \in Page : x.refCount[q] \in Nat
  BY <1>1, PhysMemAssumption DEF Memory
<1>4. /\ y.refCount[p] = x.refCount[p] + 1 /\ y.refCount[p] # 0
      /\ \A q \in Page \ {p} : y.refCount[q] = x.refCount[q]
  BY <1>1, <1>2, <1>3
<1>5. ASSUME NEW q \in PoolOf(x.word)
      PROVE  y.refCount[q] = Refs(x.word, D, q) + (IF q = p THEN 1 ELSE 0)
  <2>1. /\ x.refCount[q] = Refs(x.word, D, q) + (IF q = NoPage THEN 1 ELSE 0)
        /\ q # NoPage /\ q \in Page
    BY <1>1 DEF Sound
  <2>2. Refs(x.word, D, q) \in Nat
    BY <1>1, NoRefs
  <2> QED
    BY <1>4, <2>1, <2>2
<1>6. FreeOf(y, NoPage) = FreeOf(x, loose)
  <2>1. ASSUME NEW q PROVE q \in FreeOf(y, NoPage) <=> q \in FreeOf(x, loose)
    BY <1>1, <1>2, <1>4 DEF FreeOf
  <2> QED
    BY <2>1
<1>7. FreeChainOver(y, FreeOf(y, NoPage))
  BY <1>1, <1>2, <1>6, SameLinks
<1> QED
  BY <1>1, <1>2, <1>5, <1>7 DEF Sound, Stopped

(***************************************************************************)
(* remove takes one entry of a table away, and frees the page when this was *)
(* its last reference.                                                      *)
(***************************************************************************)
LEMMA RemoveSound ==
  ASSUME NEW x, NEW D, NEW owe, Sound(x, D, owe, NoPage), NEW d \in D, NEW va \in Va,
         NEW y, y = Remove(x, d, va)
  PROVE  /\ Sound(y, D, owe, NoPage)
         /\ \A q \in Page, j \in Index :
               y.word[q][j] = IF x.word[d][va[1]] # NoPage /\ q = x.word[d][va[1]] /\ j = va[2]
                              THEN NoPage ELSE x.word[q][j]
         /\ x.freeList # NoPage => y.freeList # NoPage
<1> DEFINE pt == x.word[d][va[1]]
           j0 == va[2]
           pg == x.word[pt][j0]
<1>1. /\ x \in Memory /\ ~Stopped(x) /\ ~x.panic /\ Roles(x.word, D)
      /\ FreeChainOver(x, FreeOf(x, NoPage)) /\ NoPage \notin Page
      /\ PoolOf(x.word) \subseteq Page /\ va[1] \in UserPdx /\ j0 \in Index
      /\ FreeOf(x, NoPage) \in SUBSET Page
  BY RolesPages, Constants, SoundFacts DEF Sound, Stopped, Va
<1>2. CASE pt = NoPage
  BY <1>1, <1>2 DEF Remove
<1>3. CASE pt # NoPage
  <2>1. /\ pt \in TablesIn(x.word, D) /\ pt \in Page /\ ~IsData(pt)
        /\ pg # NoPage => pg \in PoolOf(x.word) \ (D \cup TablesIn(x.word, D)) /\ pg \in Page /\ ~IsData(pg)
    <3>1. pt \in TablesIn(x.word, D)
      BY <1>1, <1>3, TableIs
    <3>2. pt \in Page /\ ~IsData(pt)
      BY <1>1, <3>1, RolesPages DEF IsData
    <3> HIDE DEF pt, j0
    <3>3. pg # NoPage => pg \in PoolOf(x.word) \ (D \cup TablesIn(x.word, D))
      BY <1>1, <3>1 DEF Roles
    <3> HIDE DEF pg
    <3>4. pg # NoPage => pg \in Page /\ ~IsData(pg)
      BY <1>1, <3>3 DEF IsData
    <3> QED
      BY <3>1, <3>2, <3>3, <3>4
  <2> HIDE DEF pt, j0
  <2>2. CASE pg = NoPage
    <3>1. y = x
      BY <1>1, <1>3, <2>1, <2>2 DEF Remove, pt, j0
    <3> QED
      BY <1>1, <2>2, <3>1 DEF pt, j0
  <2>3. CASE pg # NoPage
    <3> DEFINE e == DecRef(x, pg)
               w == [e.word EXCEPT ![pt][j0] = NoPage]
    <3>1. Refs(x.word, D, pg) \in Nat /\ Refs(x.word, D, pg) # 0
      BY <1>1, <2>1, NoRefs
    <3>2. x.refCount[pg] = Refs(x.word, D, pg) + (IF pg = owe THEN 1 ELSE 0)
          /\ x.refCount[pg] \in Nat /\ x.refCount[pg] # 0
      BY <2>1, <2>3, <3>1, SoundFacts DEF Sound
    <3>3. x.refCount[pg] > 0 /\ x.nextFree[pg] = NoPage /\ pg \in Page
      BY <2>1, <2>3, <3>2, SoundFacts
    <3> HIDE DEF pg
    <3>4. /\ e \in Memory /\ e.panic = x.panic /\ e.wild = x.wild
          /\ e.refCount = [x.refCount EXCEPT ![pg] = @ - 1]
          /\ e.word = x.word
          /\ x.refCount[pg] # 1 => e.freeList = x.freeList /\ e.nextFree = x.nextFree
          /\ x.refCount[pg] = 1 => /\ e.freeList = pg
                                   /\ e.nextFree = [x.nextFree EXCEPT ![pg] = x.freeList]
      BY <1>1, <3>3, DecFields
    <3>5. y = [e EXCEPT !.word = w]
      <4>1. ~e.panic
        BY <1>1, <3>4
      <4>2. y = [e EXCEPT !.word[pt][j0] = NoPage]
        BY <1>1, <1>3, <2>1, <2>3, <4>1, Zenon DEF Remove, e, pg, pt, j0
      <4> QED
        BY <4>2
    <3> HIDE DEF e
    <3>6. /\ w \in Words
          /\ \A q \in Page, j \in Index :
                w[q][j] = IF q = pt /\ j = j0 THEN NoPage ELSE x.word[q][j]
      BY <1>1, <2>1, <3>4 DEF Words, Memory, PageRef
    <3> HIDE DEF w
    <3>7. /\ y \in Memory /\ y.panic = x.panic /\ y.wild = x.wild /\ y.refCount = e.refCount
          /\ y.freeList = e.freeList /\ y.nextFree = e.nextFree /\ y.word = w
      BY <3>4, <3>5, <3>6 DEF Memory, Words
    <3>8. /\ TablesIn(w, D) = TablesIn(x.word, D) /\ PoolOf(w) = PoolOf(x.word)
          /\ Roles(w, D)
          /\ \A q \in Page : Refs(w, D, q) = IF NoPage = pg THEN Refs(x.word, D, q)
                                             ELSE IF q = NoPage THEN Refs(x.word, D, q) + 1
                                             ELSE IF q = pg THEN Refs(x.word, D, q) - 1
                                             ELSE Refs(x.word, D, q)
      BY <1>1, <2>1, <3>6, EntryWords DEF pg
    <3>9. x.refCount \in [Page -> 0..RefMod-1] /\ x.nextFree \in [Page -> PageRef]
      BY <1>1 DEF Memory
    <3>10. \A q \in Page : y.refCount[q] = IF q = pg THEN x.refCount[pg] - 1 ELSE x.refCount[q]
      BY <3>3, <3>4, <3>7, <3>9
    <3>11. ASSUME NEW q \in PoolOf(y.word)
           PROVE  y.refCount[q] = Refs(y.word, D, q) + (IF q = owe THEN 1 ELSE 0)
      <4>1. q \in PoolOf(x.word) /\ q \in Page /\ q # NoPage
        BY <1>1, <3>7, <3>8
      <4>2. x.refCount[q] = Refs(x.word, D, q) + (IF q = owe THEN 1 ELSE 0)
        BY <4>1 DEF Sound
      <4>3. Refs(x.word, D, q) \in Nat
        BY <1>1, NoRefs
      <4>4. Refs(y.word, D, q) = IF q = pg THEN Refs(x.word, D, q) - 1 ELSE Refs(x.word, D, q)
        BY <2>3, <3>7, <3>8, <4>1
      <4> QED
        BY <3>10, <4>1, <4>2, <4>3, <4>4
    <3>12. FreeChainOver(y, FreeOf(y, NoPage))
      <4>1. CASE x.refCount[pg] # 1
        <5>1. \A q \in Page : y.refCount[q] = 0 <=> x.refCount[q] = 0
          BY <3>2, <3>10, <4>1
        <5>2. FreeOf(y, NoPage) = FreeOf(x, NoPage)
          BY <1>1, <3>7, <3>8, <5>1 DEF FreeOf
        <5> QED
          BY <1>1, <3>4, <3>7, <4>1, <5>2, SameLinks
      <4>2. CASE x.refCount[pg] = 1
        <5>1. \A q \in Page : y.refCount[q] = 0 <=> x.refCount[q] = 0 \/ q = pg
          BY <3>2, <3>10, <4>2
        <5>2. FreeOf(y, NoPage) = FreeOf(x, NoPage) \cup {pg}
          BY <1>1, <2>1, <2>3, <3>7, <3>8, <5>1 DEF FreeOf, pg
        <5>3. pg \in Page \ FreeOf(x, NoPage)
          BY <3>2, <3>3 DEF FreeOf
        <5> QED
          BY <1>1, <3>4, <3>7, <3>9, <4>2, <5>2, <5>3, PushLinks
      <4> QED
        BY <4>1, <4>2
    <3>13. Sound(y, D, owe, NoPage)
      <4>1. owe # NoPage => owe \in PoolOf(y.word) \ (D \cup TablesIn(y.word, D))
        BY <3>7, <3>8 DEF Sound
      <4> QED
        BY <1>1, <3>7, <3>8, <3>11, <3>12, <4>1 DEF Sound, Stopped
    <3>14. x.freeList # NoPage => y.freeList # NoPage
      BY <1>1, <3>3, <3>4, <3>7
    <3> QED
      BY <1>3, <3>6, <3>7, <3>13, <3>14 DEF pt, j0
  <2> QED
    BY <2>2, <2>3
<1> QED
  BY <1>2, <1>3

\* The words v are w with p in entry j0 of page q0.
Entered(w, q0, j0, p, v) ==
    \A q \in Page, j \in Index : v[q][j] = IF q = q0 /\ j = j0 THEN p ELSE w[q][j]

\* In the words v the address va means p in d; all else means what it meant in w.
Remapped(w, D, d, va, p, v) ==
    \A e \in D \cup {KDir}, vb \in Va :
        Translation(v, e, vb) = IF e = d /\ vb = va THEN p ELSE Translation(w, e, vb)

Store(x, q0, j0, p) == [x EXCEPT !.word[q0][j0] = p]

(***************************************************************************)
(* Entry va[2] of the table that d names at va[1] decides what va means in  *)
(* d, and nothing else.                                                     *)
(***************************************************************************)
LEMMA EntryTranslation ==
  ASSUME NEW w, NEW D, Roles(w, D), NEW d \in D, NEW va \in Va, NEW p,
         w[d][va[1]] # NoPage,
         NEW v, Entered(w, w[d][va[1]], va[2], p, v)
  PROVE  Remapped(w, D, d, va, p, v)
<1> DEFINE pt == w[d][va[1]]
<1>1. /\ D \subseteq Page /\ TablesIn(w, D) \subseteq PoolOf(w) \ D /\ PoolOf(w) \subseteq Page
      /\ KDir \notin PoolOf(w) /\ KDir \in Page
      /\ va[1] \in UserPdx /\ va[2] \in Index /\ UserPdx \subseteq Index
      /\ pt \in TablesIn(w, D)
  BY RolesPages, Constants, TableIs DEF Va
<1> SUFFICES ASSUME NEW e \in D \cup {KDir}, NEW vb \in Va
             PROVE  Translation(v, e, vb) = IF e = d /\ vb = va THEN p ELSE Translation(w, e, vb)
  BY DEF Remapped
<1>2. /\ vb[1] \in UserPdx /\ vb[2] \in Index /\ e \in Page /\ e # pt
      /\ va = <<va[1], va[2]>> /\ vb = <<vb[1], vb[2]>>
  BY <1>1 DEF Va
<1>3. v[e][vb[1]] = w[e][vb[1]]
  BY <1>1, <1>2 DEF Entered
<1>4. CASE w[e][vb[1]] = NoPage
  BY <1>2, <1>3, <1>4 DEF Translation
<1>5. CASE w[e][vb[1]] # NoPage
  <2>1. e \in D
    BY <1>2, <1>5 DEF Roles
  <2>2. w[e][vb[1]] \in TablesIn(w, D) /\ w[e][vb[1]] \in Page
    BY <1>1, <1>2, <1>5, <2>1, TableIs
  <2>3. w[e][vb[1]] = pt <=> e = d /\ vb[1] = va[1]
    BY <1>1, <1>2, <1>5, <2>1 DEF Roles
  <2>4. v[w[e][vb[1]]][vb[2]] = IF w[e][vb[1]] = pt /\ vb[2] = va[2] THEN p
                                ELSE w[w[e][vb[1]]][vb[2]]
    BY <1>2, <2>2 DEF Entered
  <2> HIDE DEF pt
  <2>5. vb = va <=> vb[1] = va[1] /\ vb[2] = va[2]
    BY <1>2
  <2> QED
    BY <1>3, <1>5, <2>3, <2>4, <2>5 DEF Translation
<1> QED
  BY <1>4, <1>5

(***************************************************************************)
(* The end of insert: the page that was counted goes into the free entry.   *)
(***************************************************************************)
LEMMA StoreSound ==
  ASSUME NEW x, NEW D, NEW p, p # NoPage, Sound(x, D, p, NoPage),
         NEW pt \in TablesIn(x.word, D), NEW j0 \in Index, x.word[pt][j0] = NoPage,
         NEW y, y = Store(x, pt, j0, p)
  PROVE  Sound(y, D, NoPage, NoPage) /\ Entered(x.word, pt, j0, p, y.word)
<1> DEFINE w == [x.word EXCEPT ![pt][j0] = p]
<1>1. /\ x \in Memory /\ ~Stopped(x) /\ Roles(x.word, D) /\ NoPage \notin Page
      /\ PoolOf(x.word) \subseteq Page /\ pt \in Page
      /\ p \in PoolOf(x.word) \ (D \cup TablesIn(x.word, D)) /\ p \in Page
  BY RolesPages, Constants DEF Sound
<1>2. /\ w \in Words
      /\ \A q \in Page, j \in Index : w[q][j] = IF q = pt /\ j = j0 THEN p ELSE x.word[q][j]
  BY <1>1 DEF Words, Memory, PageRef
<1>3. y = [x EXCEPT !.word = w]
  BY DEF Store
<1> HIDE DEF w
<1>4. /\ y \in Memory /\ y.panic = x.panic /\ y.wild = x.wild /\ y.refCount = x.refCount
      /\ y.freeList = x.freeList /\ y.nextFree = x.nextFree /\ y.word = w
  BY <1>1, <1>2, <1>3 DEF Memory, Words
<1>5. /\ TablesIn(w, D) = TablesIn(x.word, D) /\ PoolOf(w) = PoolOf(x.word)
      /\ Roles(w, D)
      /\ \A q \in Page : Refs(w, D, q) = IF p = x.word[pt][j0] THEN Refs(x.word, D, q)
                                         ELSE IF q = p THEN Refs(x.word, D, q) + 1
                                         ELSE IF q = x.word[pt][j0] THEN Refs(x.word, D, q) - 1
                                         ELSE Refs(x.word, D, q)
  BY <1>1, <1>2, EntryWords
<1>6. ASSUME NEW q \in PoolOf(x.word)
      PROVE  y.refCount[q] = Refs(w, D, q) + (IF q = NoPage THEN 1 ELSE 0)
  <2>1. q \in Page /\ q # NoPage /\ Refs(x.word, D, q) \in Nat
    BY <1>1, NoRefs
  <2>2. y.refCount[q] = Refs(x.word, D, q) + (IF q = p THEN 1 ELSE 0)
    BY <1>4 DEF Sound
  <2>3. Refs(w, D, q) = Refs(x.word, D, q) + (IF q = p THEN 1 ELSE 0)
    BY <1>1, <1>5, <2>1
  <2> QED
    BY <2>1, <2>2, <2>3
<1>7. FreeOf(y, NoPage) = FreeOf(x, NoPage)
  BY <1>4, <1>5 DEF FreeOf
<1>8. FreeChainOver(y, FreeOf(y, NoPage))
  BY <1>4, <1>7, SameLinks DEF Sound
<1>9. Sound(y, D, NoPage, NoPage)
  <2>1. ~Stopped(y)
    BY <1>1, <1>4 DEF Stopped
  <2> QED
    BY <1>4, <1>5, <1>6, <1>8, <2>1 DEF Sound
<1> QED
  BY <1>2, <1>4, <1>9 DEF Entered

(***************************************************************************)
(* insert: the new mapping is there, the old one is gone and everything     *)
(* else is as it was; or there was no page for a table, and nothing changed.*)
(***************************************************************************)
LEMMA InsertSound ==
  ASSUME NEW x, NEW D, NEW loose, Sound(x, D, NoPage, loose), NEW d \in D, NEW va \in Va,
         NEW p \in PoolOf(x.word), p \notin D \cup TablesIn(x.word, D),
         p = loose \/ (loose = NoPage /\ x.refCount[p] # 0),
         x.refCount[p] < RefMod - 1,
         NEW y, y = Insert(x, d, p, va)
  PROVE  \/ HitsResident(y)
         \/ InsertFails(x, d, va) /\ y = x
         \/ /\ ~InsertFails(x, d, va)
            /\ Sound(y, D, NoPage, NoPage)
            /\ p \notin D \cup TablesIn(y.word, D) \cup {KDir}
            /\ Remapped(x.word, D, d, va, p, y.word)
<1> DEFINE t  == WithTable(x, d, va[1])
           pt == t.word[d][va[1]]
           u  == IncRef(t, p)
           r  == Remove(u, d, va)
<1>1. va[1] \in UserPdx /\ va[2] \in Index
  BY DEF Va
<1>2. \/ HitsResident(t)
      \/ /\ Sound(t, D, NoPage, loose)
         /\ Kept(x, t, D, loose)
         /\ pt = NoPage <=> x.word[d][va[1]] = NoPage /\ x.freeList = NoPage
         /\ pt = NoPage => t = x
  BY <1>1, TableSound
<1>3. y = IF Stopped(t) \/ pt = NoPage THEN t
          ELSE IF IsData(pt) THEN Wild(t)
          ELSE IF Stopped(r) THEN r
          ELSE [r EXCEPT !.word[pt][va[2]] = p]
  BY Zenon DEF Insert
<1> HIDE DEF t
<1>4. CASE HitsResident(t)
  <2>1. Stopped(t)
    BY <1>4 DEF HitsResident, Stopped
  <2> QED
    BY <1>3, <1>4, <2>1
<1>5. CASE pt = NoPage /\ ~HitsResident(t)
  BY <1>2, <1>3, <1>5 DEF InsertFails
<1>6. CASE pt # NoPage /\ ~HitsResident(t)
  <2>1. /\ Sound(t, D, NoPage, loose) /\ Roles(t.word, D) /\ ~Stopped(t)
        /\ PoolOf(t.word) = PoolOf(x.word) /\ t.refCount[p] = x.refCount[p]
        /\ p \notin D \cup TablesIn(t.word, D)
        /\ \A e \in D \cup {KDir}, vb \in Va :
              Translation(t.word, e, vb) = Translation(x.word, e, vb)
        /\ p \in Page /\ p # NoPage /\ p # KDir
    BY <1>2, <1>6, Constants DEF Sound, Kept, PoolOf
  <2>2. pt \in TablesIn(t.word, D) /\ pt \in Page /\ ~IsData(pt)
    BY <1>1, <1>6, <2>1, TableIs, RolesPages DEF IsData
  <2> HIDE DEF u
  <2>3. Sound(u, D, p, NoPage) /\ u.word = t.word
    BY <2>1, IncSound DEF u
  <2> HIDE DEF r
  <2>4. /\ Sound(r, D, p, NoPage)
        /\ \A q \in Page, j \in Index :
              r.word[q][j] = IF pt # NoPage /\ q = pt /\ j = va[2] THEN NoPage ELSE t.word[q][j]
    BY <2>3, RemoveSound DEF r
  <2>5. ~Stopped(r) /\ y = [r EXCEPT !.word[pt][va[2]] = p]
    BY <1>3, <1>6, <2>1, <2>2, <2>4 DEF Sound
  <2> HIDE DEF pt
  <2>6. pt \in TablesIn(r.word, D) /\ r.word[pt][va[2]] = NoPage
    <3>1. \A e \in D, j \in UserPdx : r.word[e][j] = t.word[e][j]
      BY <2>1, <2>2, <2>4, RolesPages, Constants
    <3>2. r.word[d][va[1]] = pt
      BY <1>1, <3>1 DEF pt
    <3> QED
      BY <1>1, <1>6, <2>2, <2>4, <3>2, TableIs
  <2>7. Sound(y, D, NoPage, NoPage) /\ Entered(r.word, pt, va[2], p, y.word)
    <3>1. Sound(r, D, p, NoPage) /\ p # NoPage /\ va[2] \in Index
          /\ y = Store(r, pt, va[2], p)
      BY <1>1, <2>1, <2>4, <2>5 DEF Store
    <3> QED
      BY <3>1, <2>6, StoreSound
  <2>8. Entered(t.word, pt, va[2], p, y.word)
    BY <2>4, <2>7 DEF Entered
  <2>9. Remapped(t.word, D, d, va, p, y.word)
    <3>1. /\ Roles(t.word, D) /\ t.word[d][va[1]] # NoPage
          /\ Entered(t.word, t.word[d][va[1]], va[2], p, y.word)
      BY <1>6, <2>1, <2>8 DEF pt
    <3> QED
      BY <3>1, EntryTranslation
  <2>10. p \notin TablesIn(y.word, D)
    <3>1. \A e \in D, j \in UserPdx : y.word[e][j] = t.word[e][j]
      BY <2>1, <2>2, <2>8, RolesPages, Constants DEF Entered
    <3> QED
      BY <2>1, <3>1, TableIs
  <2>11. Remapped(x.word, D, d, va, p, y.word)
    BY <2>1, <2>9 DEF Remapped
  <2> QED
    BY <1>2, <1>6, <2>1, <2>7, <2>10, <2>11 DEF InsertFails, pt
<1> QED
  BY <1>4, <1>5, <1>6

\* Addresses keep their meaning when directories and tables keep their words.
LEMMA SameTranslation ==
  ASSUME NEW w, NEW D, Roles(w, D), NEW v,
         \A q \in D \cup TablesIn(w, D) \cup {KDir} : v[q] = w[q]
  PROVE  \A e \in D \cup {KDir}, va \in Va : Translation(v, e, va) = Translation(w, e, va)
<1> SUFFICES ASSUME NEW e \in D \cup {KDir}, NEW va \in Va
             PROVE  Translation(v, e, va) = Translation(w, e, va)
  OBVIOUS
<1>1. va[1] \in UserPdx
  BY DEF Va
<1>2. CASE w[e][va[1]] = NoPage
  BY <1>2 DEF Translation
<1>3. CASE w[e][va[1]] # NoPage
  <2>1. w[e][va[1]] \in TablesIn(w, D)
    BY <1>1, <1>3, TableIs DEF Roles
  <2> QED
    BY <2>1 DEF Translation
<1> QED
  BY <1>2, <1>3

(***************************************************************************)
(* Whatever a program writes to a page of its data, no table is there.      *)
(***************************************************************************)
LEMMA FilledSound ==
  ASSUME NEW x, NEW D, Sound(x, D, NoPage, NoPage), NEW p,
         p \notin D \cup TablesIn(x.word, D) \cup {KDir},
         NEW y, y = Filled(x, {p})
  PROVE  /\ Sound(y, D, NoPage, NoPage)
         /\ \A e \in D \cup {KDir}, va \in Va :
               Translation(y.word, e, va) = Translation(x.word, e, va)
<1> DEFINE w == [q \in Page |-> IF q \in {p} THEN DataPage ELSE x.word[q]]
<1>1. /\ x \in Memory /\ ~Stopped(x) /\ Roles(x.word, D) /\ KDir \in Page /\ D \subseteq Page
      /\ TablesIn(x.word, D) \subseteq Page
  BY RolesPages, Constants DEF Sound
<1>2. w \in Words /\ \A q \in D \cup TablesIn(x.word, D) \cup {KDir} : w[q] = x.word[q]
  <2>1. DataPage \in [Index -> PageRef \cup {Data}]
    BY DEF DataPage
  <2> QED
    BY <1>1, <2>1 DEF Words, Memory
<1>3. y = [x EXCEPT !.word = w]
  BY <1>1 DEF Filled
<1> HIDE DEF w
<1>4. /\ y \in Memory /\ y.panic = x.panic /\ y.wild = x.wild /\ y.refCount = x.refCount
      /\ y.freeList = x.freeList /\ y.nextFree = x.nextFree /\ y.word = w
  BY <1>1, <1>2, <1>3 DEF Memory, Words
<1>5. /\ TablesIn(w, D) = TablesIn(x.word, D) /\ PoolOf(w) = PoolOf(x.word)
      /\ Roles(w, D) /\ \A q : Refs(w, D, q) = Refs(x.word, D, q)
  BY <1>1, <1>2, SameWords
<1>6. FreeOf(y, NoPage) = FreeOf(x, NoPage)
  BY <1>4, <1>5 DEF FreeOf
<1>7. FreeChainOver(y, FreeOf(y, NoPage))
  BY <1>4, <1>6, SameLinks DEF Sound
<1>8. Sound(y, D, NoPage, NoPage)
  BY <1>1, <1>4, <1>5, <1>7 DEF Sound, Stopped
<1>9. \A e \in D \cup {KDir}, va \in Va :
         Translation(w, e, va) = Translation(x.word, e, va)
  BY <1>1, <1>2, SameTranslation
<1> QED
  BY <1>4, <1>8, <1>9

(***************************************************************************)
(* regionAlloc of one page: the new page is mapped at va, or the kernel     *)
(* panics for want of memory.                                               *)
(***************************************************************************)
LEMMA RegionAllocSound ==
  ASSUME NEW x, NEW D, Sound(x, D, NoPage, NoPage), NEW d \in D, NEW va \in Va,
         NEW p, p = x.freeList,
         NEW y, y = RegionAlloc(x, d, va)
  PROVE  \/ HitsResident(y)
         \/ y.panic /\ ~y.wild /\ y.freeList = NoPage
         \/ /\ Sound(y, D, NoPage, NoPage)
            /\ p \notin D \cup TablesIn(y.word, D) \cup {KDir}
            /\ Remapped(x.word, D, d, va, p, y.word)
<1> DEFINE a == AllocZero(x)
           i == Insert(a, d, p, va)
<1>1. x \in Memory /\ ~Stopped(x) /\ ~x.panic /\ ~x.wild /\ Roles(x.word, D)
  BY DEF Sound, Stopped
<1>2. y = IF p = NoPage THEN Panic(x)
          ELSE IF Stopped(a) THEN a
          ELSE IF InsertFails(a, d, va) THEN Panic(a)
          ELSE i
  BY <1>1, Zenon DEF RegionAlloc
<1>3. CASE p = NoPage
  BY <1>1, <1>2, <1>3 DEF Panic, Memory
<1>4. CASE p # NoPage /\ p \in Resident
  <2>1. a = Wild(x)
    BY <1>4 DEF AllocZero
  <2>2. HitsResident(a)
    BY <1>1, <1>4, <2>1 DEF Wild, Memory, HitsResident
  <2> QED
    BY <1>2, <1>4, <2>2 DEF HitsResident, Stopped
<1>5. CASE p # NoPage /\ p \notin Resident
  <2>1. /\ Sound(a, D, NoPage, p)
        /\ \A q \in Page \ {p} : a.word[q] = x.word[q]
        /\ p \notin D \cup TablesIn(x.word, D) \cup {KDir}
        /\ TablesIn(a.word, D) = TablesIn(x.word, D)
    BY <1>5, AllocSound
  <2> HIDE DEF a
  <2>2. /\ p \in PoolOf(a.word) /\ p \notin D \cup TablesIn(a.word, D)
        /\ a.refCount[p] < RefMod - 1 /\ ~Stopped(a) /\ a \in Memory /\ ~a.wild
    BY <1>5, <2>1, PhysMemAssumption DEF Sound, Stopped
  <2>3. CASE InsertFails(a, d, va)
    <3>1. y = Panic(a) /\ a.freeList = NoPage
      BY <1>2, <1>5, <2>2, <2>3 DEF InsertFails
    <3> QED
      BY <2>2, <3>1 DEF Panic, Memory
  <2>4. CASE ~InsertFails(a, d, va)
    <3>1. y = i
      BY <1>2, <1>5, <2>2, <2>4
    <3>2. \/ HitsResident(y)
          \/ /\ Sound(y, D, NoPage, NoPage)
             /\ p \notin D \cup TablesIn(y.word, D) \cup {KDir}
             /\ Remapped(a.word, D, d, va, p, y.word)
      BY <2>1, <2>2, <2>4, <3>1, InsertSound
    <3>3. \A q \in D \cup TablesIn(x.word, D) \cup {KDir} : a.word[q] = x.word[q]
      BY <1>1, <2>1, RolesPages, Constants
    <3>4. \A e \in D \cup {KDir}, vb \in Va :
             Translation(a.word, e, vb) = Translation(x.word, e, vb)
      BY <1>1, <3>3, SameTranslation
    <3> QED
      BY <3>2, <3>4 DEF Remapped
  <2> QED
    BY <2>3, <2>4
<1> QED
  BY <1>3, <1>4, <1>5

(***************************************************************************)
(* setupMemory: one more directory, without tables of its own.              *)
(***************************************************************************)
LEMMA SetupSound ==
  ASSUME NEW x, NEW D, Sound(x, D, NoPage, NoPage), NEW p, p = x.freeList, p # NoPage,
         NEW y, y = SetupMemory(x)
  PROVE  \/ HitsResident(y)
         \/ /\ Sound(y, D \cup {p}, NoPage, NoPage)
            /\ p \notin D \cup {KDir}
            /\ \A e \in D \cup {KDir}, va \in Va :
                  Translation(y.word, e, va) = Translation(x.word, e, va)
<1> DEFINE a  == AllocZero(x)
           b  == IncRef(a, p)
           dw == [a.word[KDir] EXCEPT ![SelfPdx] = p]
           w  == [b.word EXCEPT ![p] = dw]
<1>1. x \in Memory /\ ~Stopped(x) /\ ~x.panic /\ ~x.wild /\ Roles(x.word, D) /\ p \in Page
  BY SoundFacts DEF Sound, Stopped
<1>2. y = IF Stopped(a) THEN a ELSE [b EXCEPT !.word[p] = dw]
  BY <1>1, Zenon DEF SetupMemory
<1>3. CASE p \in Resident
  <2>1. a = Wild(x)
    BY <1>3 DEF AllocZero
  <2>2. HitsResident(a)
    BY <1>1, <1>3, <2>1 DEF Wild, Memory, HitsResident
  <2> QED
    BY <1>2, <2>2 DEF HitsResident, Stopped
<1>4. CASE p \notin Resident
  <2>1. /\ Sound(a, D, NoPage, p) /\ ~Stopped(a)
        /\ \A q \in Page \ {p} : a.word[q] = x.word[q]
        /\ p \notin D \cup TablesIn(x.word, D) \cup {KDir}
        /\ TablesIn(a.word, D) = TablesIn(x.word, D)
    BY <1>4, AllocSound DEF Sound
  <2>2. /\ p \in PoolOf(a.word) /\ p \notin D \cup TablesIn(a.word, D)
        /\ a.refCount[p] = 0 /\ a.refCount[p] < RefMod - 1 /\ Roles(a.word, D)
        /\ a.word \in Words
    BY <2>1, PhysMemAssumption DEF Sound, Memory, Words
  <2>3. Refs(a.word, D, p) = 0
    <3>1. Refs(a.word, D, p) \in Nat
      BY <2>2, NoRefs
    <3>2. 0 = Refs(a.word, D, p) + (IF p = NoPage THEN 1 ELSE 0)
      BY <2>1, <2>2 DEF Sound
    <3> QED
      BY <3>1, <3>2
  <2>4. Sound(b, D, p, NoPage) /\ b.word = a.word
    <3> HIDE DEF a
    <3> QED
      BY <2>1, <2>2, IncSound
  <2>5. y = [b EXCEPT !.word = w]
    BY <1>2, <2>1
  <2> HIDE DEF a, b
  <2>6. /\ dw \in [Index -> PageRef \cup {Data}]
        /\ \A i \in UserPdx : dw[i] = NoPage
    <3>1. a.word[KDir] \in [Index -> PageRef \cup {Data}] /\ p \in PageRef
      BY <1>1, <2>2, Constants DEF Words, PageRef
    <3>2. \A i \in UserPdx : a.word[KDir][i] = NoPage /\ i # SelfPdx /\ i \in Index
      BY <2>2, Constants DEF Roles
    <3> QED
      BY <3>1, <3>2
  <2> HIDE DEF dw
  <2>7. w \in Words /\ w[p] = dw /\ \A q \in Page \ {p} : w[q] = a.word[q]
    BY <1>1, <2>2, <2>4, <2>6 DEF Words
  <2> HIDE DEF w
  <2>8. /\ y \in Memory /\ y.panic = b.panic /\ y.wild = b.wild /\ y.refCount = b.refCount
        /\ y.freeList = b.freeList /\ y.nextFree = b.nextFree /\ y.word = w
    BY <2>4, <2>5, <2>7 DEF Memory, Words, Sound
  <2>9. \A i \in UserPdx : w[p][i] = NoPage
    BY <2>6, <2>7
  <2>10. /\ TablesIn(w, D \cup {p}) = TablesIn(a.word, D) /\ PoolOf(w) = PoolOf(a.word)
         /\ Roles(w, D \cup {p})
         /\ \A q \in Page : Refs(w, D \cup {p}, q) = Refs(a.word, D, q) + (IF q = p THEN 1 ELSE 0)
    <3>1. /\ Roles(a.word, D) /\ p \in PoolOf(a.word) /\ Refs(a.word, D, p) = 0
          /\ BareDir(a.word, p, w)
      BY <2>2, <2>3, <2>7, <2>9 DEF BareDir
    <3> QED
      BY <3>1, NewDirWords
  <2>11. ASSUME NEW q \in PoolOf(w)
         PROVE  y.refCount[q] = Refs(w, D \cup {p}, q) + (IF q = NoPage THEN 1 ELSE 0)
    <3>1. q \in Page /\ q # NoPage /\ q \in PoolOf(b.word)
      BY <2>4, <2>10, Constants DEF PoolOf
    <3>2. b.refCount[q] = Refs(a.word, D, q) + (IF q = p THEN 1 ELSE 0)
      BY <2>4, <3>1 DEF Sound
    <3>3. Refs(w, D \cup {p}, q) \in Nat
      BY <2>10, NoRefs
    <3> QED
      <4>1. y.refCount[q] = Refs(w, D \cup {p}, q)
        BY <2>8, <2>10, <3>1, <3>2
      <4> QED
        BY <3>1, <3>3, <4>1
  <2>12. FreeChainOver(y, FreeOf(y, NoPage))
    <3>1. FreeOf(y, NoPage) = FreeOf(b, NoPage)
      BY <2>4, <2>8, <2>10 DEF FreeOf
    <3> QED
      BY <2>4, <2>8, <3>1, SameLinks DEF Sound
  <2>13. Sound(y, D \cup {p}, NoPage, NoPage)
    <3>1. ~Stopped(y)
      BY <2>4, <2>8 DEF Sound, Stopped
    <3> QED
      BY <2>8, <2>10, <2>11, <2>12, <3>1 DEF Sound
  <2>14. \A e \in D \cup {KDir}, va \in Va :
            Translation(w, e, va) = Translation(x.word, e, va)
    <3>1. \A q \in D \cup TablesIn(x.word, D) \cup {KDir} : w[q] = x.word[q]
      BY <1>1, <2>1, <2>7, RolesPages, Constants
    <3> QED
      BY <1>1, <3>1, SameTranslation
  <2> QED
    BY <2>1, <2>8, <2>13, <2>14
<1> QED
  BY <1>3, <1>4

-----------------------------------------------------------------------------
(***************************************************************************)
(* The inner loop of Task::free, as a function of the number of rounds: the *)
(* pages of the first entries of table pt are removed.                      *)
(***************************************************************************)
UnmapEntry(z, d, i, pt, j) ==
    IF ~Stopped(z) /\ z.word[pt][j] # NoPage THEN Remove(z, d, <<i, j>>) ELSE z

Unmapped(x, d, i, pt) ==
    LET after[k \in 0..NWords] ==
            IF k = 0 THEN x ELSE UnmapEntry(after[k-1], d, i, pt, k-1)
    IN after

CutTable(w, pt, n, v) ==
    \A q \in Page, j \in Index : v[q][j] = IF q = pt /\ j < n THEN NoPage ELSE w[q][j]

LEMMA UnmapRound ==
  ASSUME NEW D, NEW d \in D, NEW i \in UserPdx, NEW pt \in Page, pt # d, NEW k \in Index,
         NEW z, Sound(z, D, NoPage, NoPage), z.word[d][i] = pt
  PROVE  LET y == UnmapEntry(z, d, i, pt, k)
         IN  /\ Sound(y, D, NoPage, NoPage) /\ y.word[d][i] = pt
             /\ Entered(z.word, pt, k, NoPage, y.word)
<1> DEFINE y == UnmapEntry(z, d, i, pt, k)
           va == <<i, k>>
<1>1. va \in Va /\ va[1] = i /\ va[2] = k /\ pt # NoPage /\ ~Stopped(z) /\ i \in Index /\ d \in Page
  BY Constants, RolesPages DEF Va, Sound
<1>2. CASE z.word[pt][k] = NoPage
  <2>1. y = z
    BY <1>2 DEF UnmapEntry
  <2> QED
    BY <1>2, <2>1 DEF Entered
<1>3. CASE z.word[pt][k] # NoPage
  <2>1. y = Remove(z, d, va)
    BY <1>1, <1>3, Zenon DEF UnmapEntry
  <2> HIDE DEF y, va
  <2>2. /\ Sound(y, D, NoPage, NoPage)
        /\ \A q \in Page, j \in Index :
              y.word[q][j] = IF z.word[d][va[1]] # NoPage /\ q = z.word[d][va[1]] /\ j = va[2]
                             THEN NoPage ELSE z.word[q][j]
    BY <1>1, <2>1, RemoveSound
  <2> QED
    BY <1>1, <2>2 DEF Entered, y
<1> QED
  BY <1>2, <1>3

LEMMA UnmapLoop ==
  ASSUME NEW D, NEW d \in D, NEW i \in UserPdx, NEW pt \in Page, pt # d,
         NEW x, Sound(x, D, NoPage, NoPage), x.word[d][i] = pt,
         NEW u, u = Unmapped(x, d, i, pt)[NWords]
  PROVE  /\ Sound(u, D, NoPage, NoPage)
         /\ CutTable(x.word, pt, NWords, u.word)
<1> DEFINE S == {z \in Memory : Sound(z, D, NoPage, NoPage) /\ z.word[d][i] = pt}
           step == [k \in Nat |-> [z \in S |->
                      IF k < NWords THEN UnmapEntry(z, d, i, pt, k) ELSE z]]
           after == Unmapped(x, d, i, pt)
<1>1. NWords \in Nat /\ \A k \in Nat : k < NWords <=> k \in Index
  BY PageDirAssumption DEF Index
<1>2. u = after[NWords]
  OBVIOUS
<1>3. \A z \in S, k \in Index : UnmapEntry(z, d, i, pt, k) \in S
  <2> SUFFICES ASSUME NEW z \in S, NEW k \in Index PROVE UnmapEntry(z, d, i, pt, k) \in S
    OBVIOUS
  <2>1. Sound(z, D, NoPage, NoPage) /\ z.word[d][i] = pt
    OBVIOUS
  <2>2. LET y == UnmapEntry(z, d, i, pt, k)
        IN  Sound(y, D, NoPage, NoPage) /\ y.word[d][i] = pt
    BY <2>1, UnmapRound
  <2> QED
    BY <2>2 DEF Sound
<1>4. x \in S
  BY DEF Sound
<1> HIDE DEF S
<1>5. step \in [Nat -> [S -> S]]
  BY <1>1, <1>3
<1>6. \A k \in Index, z \in S : step[k][z] = UnmapEntry(z, d, i, pt, k)
  BY <1>1, PageDirAssumption DEF Index
<1> HIDE DEF step
<1>7. PICK f \in [0..NWords -> S] : f[0] = x /\ \A k \in 1..NWords : f[k] = step[k-1][f[k-1]]
  <2>1. Runs(NWords, S, x, step)
    BY <1>1, <1>4, <1>5, Recursion
  <2> QED
    BY <2>1 DEF Runs
<1>8. f = [k \in 0..NWords |-> IF k = 0 THEN x ELSE UnmapEntry(f[k-1], d, i, pt, k-1)]
  <2> SUFFICES ASSUME NEW k \in 0..NWords
               PROVE  f[k] = IF k = 0 THEN x ELSE UnmapEntry(f[k-1], d, i, pt, k-1)
    BY <1>7, Zenon
  <2>1. CASE k = 0
    BY <1>7, <2>1
  <2>2. CASE k # 0
    <3>1. k \in 1..NWords /\ k-1 \in 0..NWords /\ k-1 \in Index
      BY <1>1, <2>2 DEF Index
    <3>2. f[k-1] \in S
      BY <1>7, <3>1
    <3> QED
      BY <1>6, <1>7, <2>2, <3>1, <3>2
  <2> QED
    BY <2>1, <2>2
<1>9. after = [k \in 0..NWords |-> IF k = 0 THEN x ELSE UnmapEntry(after[k-1], d, i, pt, k-1)]
  BY <1>8, Zenon DEF Unmapped
<1> HIDE DEF after
<1>10. after[0] = x /\ \A k \in 1..NWords : after[k] = UnmapEntry(after[k-1], d, i, pt, k-1)
  BY <1>1, <1>9
<1> DEFINE Done == {k \in Nat : k <= NWords =>
                      /\ Sound(after[k], D, NoPage, NoPage) /\ after[k].word[d][i] = pt
                      /\ CutTable(x.word, pt, k, after[k].word)}
<1>11. 0 \in Done
  BY <1>10 DEF CutTable, Index
<1>12. ASSUME NEW k \in Nat, k \in Done PROVE k + 1 \in Done
  <2> SUFFICES ASSUME k + 1 <= NWords PROVE k + 1 \in Done
    OBVIOUS
  <2>1. /\ k \in Index /\ k + 1 \in 1..NWords /\ k <= NWords /\ k + 1 - 1 = k
        /\ Sound(after[k], D, NoPage, NoPage) /\ after[k].word[d][i] = pt
        /\ CutTable(x.word, pt, k, after[k].word)
    BY <1>1, <1>12
  <2>2. after[k+1] = UnmapEntry(after[k], d, i, pt, k)
    BY <1>10, <2>1
  <2>3. /\ Sound(after[k+1], D, NoPage, NoPage) /\ after[k+1].word[d][i] = pt
        /\ Entered(after[k].word, pt, k, NoPage, after[k+1].word)
    BY <2>1, <2>2, UnmapRound
  <2>4. CutTable(x.word, pt, k+1, after[k+1].word)
    <3>1. \A j \in Index : j < k + 1 <=> j < k \/ j = k
      BY DEF Index
    <3> QED
      BY <2>1, <2>3, <3>1 DEF CutTable, Entered
  <2> QED
    BY <2>3, <2>4
<1> HIDE DEF Done
<1>13. NWords \in Done
  BY <1>1, <1>11, <1>12, SetInduction
<1> QED
  BY <1>1, <1>2, <1>13 DEF Done

(***************************************************************************)
(* One round of the outer loop of Task::free: the pages of one table lose   *)
(* their references, and the table goes.                                    *)
(***************************************************************************)
CutEntry(w, d, i, v) ==
    \A q \in Page, j \in Index :
        v[q][j] = IF q = d /\ j = i THEN NoPage
                  ELSE IF w[d][i] # NoPage /\ q = w[d][i] THEN NoPage ELSE w[q][j]

LEMMA FreeTableIs ==
  ASSUME NEW x, NEW d, NEW i
  PROVE  FreeTable(x, d, i) =
           LET pt == x.word[d][i]
               u  == Unmapped(x, d, i, pt)[NWords]
           IN  IF Stopped(x) \/ pt = NoPage THEN x
               ELSE IF IsData(pt) THEN Wild(x)
               ELSE IF Stopped(u) THEN u
               ELSE DecRef([u EXCEPT !.word[d][i] = NoPage], pt)
BY Zenon DEF FreeTable, For, Unmapped, UnmapEntry

LEMMA FreeTableSound ==
  ASSUME NEW D, NEW d \in D, NEW i \in UserPdx,
         NEW x, Sound(x, D, NoPage, NoPage),
         NEW y, y = FreeTable(x, d, i)
  PROVE  Sound(y, D, NoPage, NoPage) /\ CutEntry(x.word, d, i, y.word)
<1> DEFINE pt == x.word[d][i]
           u  == Unmapped(x, d, i, pt)[NWords]
           w  == [u.word EXCEPT ![d][i] = NoPage]
           b  == [u EXCEPT !.word[d][i] = NoPage]
<1>1. /\ ~Stopped(x) /\ Roles(x.word, D) /\ d \in Page /\ d # KDir /\ i \in Index /\ NoPage \notin Page
      /\ KDir \in Page
  BY Constants, RolesPages DEF Sound
<1>2. y = IF Stopped(x) \/ pt = NoPage THEN x
          ELSE IF IsData(pt) THEN Wild(x)
          ELSE IF Stopped(u) THEN u
          ELSE DecRef(b, pt)
  BY FreeTableIs, Zenon
<1> HIDE DEF u, b
<1>3. CASE pt = NoPage
  <2>1. y = x
    BY <1>2, <1>3
  <2> QED
    BY <1>3, <2>1 DEF CutEntry
<1>4. CASE pt # NoPage
  <2>1. pt \in TablesIn(x.word, D) /\ pt \in Page /\ pt # d /\ pt # KDir /\ ~IsData(pt)
    BY <1>1, <1>4, TableIs, RolesPages DEF IsData
  <2> HIDE DEF pt
  <2>2. Sound(u, D, NoPage, NoPage) /\ CutTable(x.word, pt, NWords, u.word)
    <3>1. x.word[d][i] = pt
      BY DEF pt
    <3> QED
      BY <2>1, <3>1, UnmapLoop DEF u
  <2>3. u \in Memory /\ ~Stopped(u) /\ ~u.panic /\ Roles(u.word, D)
    BY <2>2 DEF Sound, Stopped
  <2>4. y = DecRef(b, pt)
    BY <1>1, <1>2, <1>4, <2>1, <2>3
  <2>5. b = [u EXCEPT !.word = w]
    BY DEF b
  <2>6. \A q \in Page, j \in Index : u.word[q][j] = IF q = pt THEN NoPage ELSE x.word[q][j]
    BY <2>2, PageDirAssumption DEF CutTable, Index
  <2>7. /\ w \in Words
        /\ \A q \in Page, j \in Index : w[q][j] = IF q = d /\ j = i THEN NoPage ELSE u.word[q][j]
    BY <1>1, <2>3 DEF Words, Memory, PageRef
  <2> HIDE DEF w
  <2>8. /\ b \in Memory /\ b.panic = u.panic /\ b.wild = u.wild /\ b.refCount = u.refCount
        /\ b.freeList = u.freeList /\ b.nextFree = u.nextFree /\ b.word = w
    BY <2>3, <2>5, <2>7 DEF Memory, Words
  <2>9. /\ u.word[d][i] = pt /\ \A j \in Index : u.word[pt][j] = NoPage
    BY <1>1, <2>1, <2>6 DEF pt
  <2>10. /\ TablesIn(w, D) = TablesIn(u.word, D) \ {pt} /\ PoolOf(w) = PoolOf(u.word)
         /\ Roles(w, D)
         /\ \A q \in Page : Refs(w, D, q) = IF q = pt THEN 0 ELSE Refs(u.word, D, q)
         /\ Refs(u.word, D, pt) = 1
    BY <1>1, <1>4, <2>3, <2>7, <2>9, DropTableWords
  <2>11. pt \in PoolOf(u.word) /\ PoolOf(u.word) \subseteq Page
    BY <1>1, <1>4, <2>3, <2>9, RolesPages DEF Roles
  <2>12. u.refCount[pt] = 1 /\ u.nextFree[pt] = NoPage /\ pt \in Page \ FreeOf(u, NoPage)
    <3>1. u.refCount[pt] = Refs(u.word, D, pt) + (IF pt = NoPage THEN 1 ELSE 0)
      BY <2>2, <2>11 DEF Sound
    <3>2. u.refCount[pt] = 1
      BY <1>4, <2>10, <3>1
    <3>3. u.nextFree[pt] = NoPage
      BY <2>2, <2>11, <3>2, SoundFacts
    <3> QED
      BY <2>11, <3>2, <3>3 DEF FreeOf
  <2>13. /\ y \in Memory /\ y.panic = b.panic /\ y.wild = b.wild
         /\ y.refCount = [b.refCount EXCEPT ![pt] = @ - 1] /\ y.word = b.word
         /\ y.freeList = pt /\ y.nextFree = [b.nextFree EXCEPT ![pt] = b.freeList]
    <3>1. ~b.panic /\ b.refCount[pt] > 0 /\ b.nextFree[pt] = NoPage /\ b.refCount[pt] = 1
      BY <2>3, <2>8, <2>12
    <3> QED
      BY <2>1, <2>4, <2>8, <3>1, DecFields
  <2>14. u.refCount \in [Page -> 0..RefMod-1] /\ u.nextFree \in [Page -> PageRef]
    BY <2>3 DEF Memory
  <2>15. \A q \in Page : y.refCount[q] = IF q = pt THEN 0 ELSE u.refCount[q]
    <3>1. 1 - 1 = 0
      OBVIOUS
    <3> QED
      BY <2>1, <2>8, <2>12, <2>13, <2>14, <3>1
  <2>16. ASSUME NEW q \in PoolOf(y.word)
         PROVE  y.refCount[q] = Refs(y.word, D, q) + (IF q = NoPage THEN 1 ELSE 0)
    <3>1. q \in PoolOf(u.word) /\ q \in Page /\ q # NoPage
      BY <1>1, <2>8, <2>10, <2>11, <2>13
    <3>2. u.refCount[q] = Refs(u.word, D, q) /\ Refs(u.word, D, q) \in Nat
      <4>1. Refs(u.word, D, q) \in Nat
        BY <2>3, NoRefs
      <4>2. u.refCount[q] = Refs(u.word, D, q) + (IF q = NoPage THEN 1 ELSE 0)
        BY <2>2, <3>1 DEF Sound
      <4> QED
        BY <3>1, <4>1, <4>2
    <3>3. y.refCount[q] = Refs(y.word, D, q) /\ Refs(y.word, D, q) \in Nat
      BY <2>8, <2>10, <2>13, <2>15, <3>1, <3>2
    <3> QED
      BY <3>1, <3>3
  <2>17. FreeChainOver(y, FreeOf(y, NoPage))
    <3>1. FreeOf(y, NoPage) = FreeOf(u, NoPage) \cup {pt}
      <4>1. PoolOf(y.word) = PoolOf(u.word) /\ pt # NoPage
        BY <1>4, <2>8, <2>10, <2>13
      <4> QED
        BY <2>11, <2>15, <4>1 DEF FreeOf
    <3>2. FreeChainOver(u, FreeOf(u, NoPage)) /\ FreeOf(u, NoPage) \in SUBSET Page
      BY <2>2, SoundFacts DEF Sound
    <3>3. y.freeList = pt /\ y.nextFree = [u.nextFree EXCEPT ![pt] = u.freeList]
      BY <2>8, <2>13
    <3> QED
      BY <2>12, <2>14, <3>1, <3>2, <3>3, PushLinks
  <2>18. Sound(y, D, NoPage, NoPage)
    <3>1. ~Stopped(y) /\ Roles(y.word, D)
      BY <2>3, <2>8, <2>10, <2>13 DEF Stopped
    <3> QED
      BY <2>13, <2>16, <2>17, <3>1 DEF Sound
  <2>19. \A q \in Page, j \in Index :
            w[q][j] = IF q = d /\ j = i THEN NoPage
                      ELSE IF q = pt THEN NoPage ELSE x.word[q][j]
    BY <2>6, <2>7
  <2>20. CutEntry(x.word, d, i, w)
    BY <1>4, <2>19 DEF CutEntry, pt
  <2> QED
    BY <2>8, <2>13, <2>18, <2>20
<1> QED
  BY <1>3, <1>4

(***************************************************************************)
(* The outer loop of Task::free, and its end: the directory goes too.  The  *)
(* other directories and kernelPageDir translate as before.                 *)
(***************************************************************************)
OthersKeep(w, D, d, v) ==
    \A e \in (D \ {d}) \cup {KDir}, va \in Va : Translation(v, e, va) = Translation(w, e, va)

Emptied(x, d) ==
    LET after[k \in 0..NUser] == IF k = 0 THEN x ELSE FreeTable(after[k-1], d, k-1)
    IN after

LEMMA FreeSpaceIs ==
  ASSUME NEW x, NEW d
  PROVE  FreeSpace(x, d) = LET f == Emptied(x, d)[NUser]
                           IN  IF Stopped(f) THEN f ELSE DecRef(f, d)
BY Zenon DEF FreeSpace, For, Emptied

LEMMA CutKeepsOthers ==
  ASSUME NEW w, NEW D, Roles(w, D), NEW d \in D, NEW i \in UserPdx, NEW v, CutEntry(w, d, i, v)
  PROVE  OthersKeep(w, D, d, v)
<1> SUFFICES ASSUME NEW e \in (D \ {d}) \cup {KDir}, NEW va \in Va
             PROVE  Translation(v, e, va) = Translation(w, e, va)
  BY DEF OthersKeep
<1>1. /\ D \subseteq Page /\ TablesIn(w, D) \subseteq PoolOf(w) \ D /\ PoolOf(w) \subseteq Page
      /\ KDir \notin PoolOf(w) /\ KDir \notin D /\ KDir \in Page
      /\ va[1] \in UserPdx /\ va[2] \in Index /\ UserPdx \subseteq Index /\ e # d /\ e \in Page
  BY RolesPages, Constants DEF Va
<1>2. w[d][i] # NoPage => w[d][i] \in TablesIn(w, D)
  BY TableIs
<1>3. v[e][va[1]] = w[e][va[1]]
  <2>1. w[d][i] # NoPage => e # w[d][i]
    BY <1>1, <1>2
  <2>2. va[1] \in Index
    BY <1>1
  <2> QED
    BY <1>1, <2>1, <2>2 DEF CutEntry
<1>4. CASE w[e][va[1]] = NoPage
  BY <1>3, <1>4 DEF Translation
<1>5. CASE w[e][va[1]] # NoPage
  <2>1. e \in D
    BY <1>1, <1>5 DEF Roles
  <2>2. w[e][va[1]] \in TablesIn(w, D) /\ w[e][va[1]] \in Page /\ w[e][va[1]] # d
    BY <1>1, <1>5, <2>1, TableIs
  <2>3. w[e][va[1]] # w[d][i]
    BY <1>1, <1>5, <2>1 DEF Roles
  <2>4. v[w[e][va[1]]][va[2]] = w[w[e][va[1]]][va[2]]
    BY <1>1, <2>2, <2>3 DEF CutEntry
  <2> QED
    BY <1>3, <1>5, <2>4 DEF Translation
<1> QED
  BY <1>4, <1>5

EmptyBelow(w, d, n) == \A j \in UserPdx : j < n => w[d][j] = NoPage

LEMMA EmptyLoop ==
  ASSUME NEW D, NEW d \in D, NEW x, Sound(x, D, NoPage, NoPage),
         NEW u, u = Emptied(x, d)[NUser]
  PROVE  /\ Sound(u, D, NoPage, NoPage) /\ EmptyBelow(u.word, d, NUser)
         /\ OthersKeep(x.word, D, d, u.word)
<1> DEFINE S == {z \in Memory : Sound(z, D, NoPage, NoPage)}
           step == [k \in Nat |-> [z \in S |-> IF k < NUser THEN FreeTable(z, d, k) ELSE z]]
           after == Emptied(x, d)
<1>1. NUser \in Nat /\ \A k \in Nat : k < NUser <=> k \in UserPdx
  BY PageDirAssumption DEF UserPdx
<1>2. u = after[NUser]
  OBVIOUS
<1>3. \A z \in S, k \in UserPdx : FreeTable(z, d, k) \in S
  <2> SUFFICES ASSUME NEW z \in S, NEW k \in UserPdx PROVE FreeTable(z, d, k) \in S
    OBVIOUS
  <2>1. Sound(z, D, NoPage, NoPage)
    OBVIOUS
  <2>2. Sound(FreeTable(z, d, k), D, NoPage, NoPage)
    BY <2>1, FreeTableSound
  <2> QED
    BY <2>2 DEF Sound
<1>4. x \in S
  BY DEF Sound
<1> HIDE DEF S
<1>5. step \in [Nat -> [S -> S]]
  BY <1>1, <1>3
<1>6. \A k \in UserPdx, z \in S : step[k][z] = FreeTable(z, d, k)
  BY <1>1, PageDirAssumption DEF UserPdx
<1> HIDE DEF step
<1>7. PICK f \in [0..NUser -> S] : f[0] = x /\ \A k \in 1..NUser : f[k] = step[k-1][f[k-1]]
  <2>1. Runs(NUser, S, x, step)
    BY <1>1, <1>4, <1>5, Recursion
  <2> QED
    BY <2>1 DEF Runs
<1>8. f = [k \in 0..NUser |-> IF k = 0 THEN x ELSE FreeTable(f[k-1], d, k-1)]
  <2> SUFFICES ASSUME NEW k \in 0..NUser
               PROVE  f[k] = IF k = 0 THEN x ELSE FreeTable(f[k-1], d, k-1)
    BY <1>7, Zenon
  <2>1. CASE k = 0
    BY <1>7, <2>1
  <2>2. CASE k # 0
    <3>1. k \in 1..NUser /\ k-1 \in 0..NUser /\ k-1 \in UserPdx
      BY <1>1, <2>2 DEF UserPdx
    <3>2. f[k-1] \in S
      BY <1>7, <3>1
    <3> QED
      BY <1>6, <1>7, <2>2, <3>1, <3>2
  <2> QED
    BY <2>1, <2>2
<1>9. after = [k \in 0..NUser |-> IF k = 0 THEN x ELSE FreeTable(after[k-1], d, k-1)]
  BY <1>8, Zenon DEF Emptied
<1> HIDE DEF after
<1>10. after[0] = x /\ \A k \in 1..NUser : after[k] = FreeTable(after[k-1], d, k-1)
  BY <1>1, <1>9
<1> DEFINE Done == {k \in Nat : k <= NUser =>
                      /\ Sound(after[k], D, NoPage, NoPage) /\ EmptyBelow(after[k].word, d, k)
                      /\ OthersKeep(x.word, D, d, after[k].word)}
<1>11. 0 \in Done
  BY <1>10 DEF EmptyBelow, OthersKeep, UserPdx
<1>12. ASSUME NEW k \in Nat, k \in Done PROVE k + 1 \in Done
  <2> SUFFICES ASSUME k + 1 <= NUser PROVE k + 1 \in Done
    OBVIOUS
  <2>1. /\ k \in UserPdx /\ k + 1 \in 1..NUser /\ k <= NUser /\ k + 1 - 1 = k
        /\ Sound(after[k], D, NoPage, NoPage) /\ EmptyBelow(after[k].word, d, k)
        /\ OthersKeep(x.word, D, d, after[k].word)
    BY <1>1, <1>12
  <2>2. after[k+1] = FreeTable(after[k], d, k)
    BY <1>10, <2>1
  <2>3. /\ Sound(after[k+1], D, NoPage, NoPage)
        /\ CutEntry(after[k].word, d, k, after[k+1].word)
    BY <2>1, <2>2, FreeTableSound
  <2>4. OthersKeep(x.word, D, d, after[k+1].word)
    <3>1. OthersKeep(after[k].word, D, d, after[k+1].word)
      BY <2>1, <2>3, CutKeepsOthers DEF Sound
    <3> QED
      BY <2>1, <3>1 DEF OthersKeep
  <2>5. EmptyBelow(after[k+1].word, d, k + 1)
    <3>1. \A j \in UserPdx : j \in Index /\ (j < k + 1 <=> j < k \/ j = k)
      BY Constants DEF UserPdx
    <3>2. d \in Page
      BY <2>1, RolesPages DEF Sound
    <3> QED
      BY <2>1, <2>3, <3>1, <3>2 DEF CutEntry, EmptyBelow
  <2> QED
    BY <2>3, <2>4, <2>5
<1> HIDE DEF Done
<1>13. NUser \in Done
  BY <1>1, <1>11, <1>12, SetInduction
<1> QED
  BY <1>1, <1>2, <1>13 DEF Done

LEMMA FreeSpaceSound ==
  ASSUME NEW D, NEW d \in D, NEW x, Sound(x, D, NoPage, NoPage),
         NEW y, y = FreeSpace(x, d)
  PROVE  Sound(y, D \ {d}, NoPage, NoPage) /\ OthersKeep(x.word, D, d, y.word)
<1> DEFINE u == Emptied(x, d)[NUser]
           E == D \ {d}
<1>1. /\ Sound(u, D, NoPage, NoPage) /\ EmptyBelow(u.word, d, NUser)
      /\ OthersKeep(x.word, D, d, u.word)
  BY EmptyLoop
<1>2. y = IF Stopped(u) THEN u ELSE DecRef(u, d)
  BY FreeSpaceIs, Zenon
<1> HIDE DEF u
<1>3. /\ u \in Memory /\ ~Stopped(u) /\ ~u.panic /\ Roles(u.word, D) /\ d \in PoolOf(u.word)
      /\ PoolOf(u.word) \subseteq Page /\ d \in Page /\ NoPage \notin Page
      /\ \A i \in UserPdx : u.word[d][i] = NoPage
  <2>1. u \in Memory /\ ~Stopped(u) /\ ~u.panic /\ Roles(u.word, D)
    BY <1>1 DEF Sound, Stopped
  <2>2. d \in PoolOf(u.word) /\ PoolOf(u.word) \subseteq Page /\ d \in Page /\ NoPage \notin Page
    BY <2>1, RolesPages, Constants DEF Roles
  <2>3. \A i \in UserPdx : i < NUser
    BY PageDirAssumption DEF UserPdx
  <2> QED
    BY <1>1, <2>1, <2>2, <2>3 DEF EmptyBelow
<1>4. /\ TablesIn(u.word, E) = TablesIn(u.word, D)
      /\ Roles(u.word, E)
      /\ \A q \in Page : Refs(u.word, E, q) = IF q = d THEN 0 ELSE Refs(u.word, D, q)
      /\ Refs(u.word, D, d) = 1
  BY <1>3, DropDirWords
<1> HIDE DEF E
<1>5. \A q \in PoolOf(u.word) : u.refCount[q] = Refs(u.word, D, q) /\ Refs(u.word, D, q) \in Nat
  <2> TAKE q \in PoolOf(u.word)
  <2>1. u.refCount[q] = Refs(u.word, D, q) + (IF q = NoPage THEN 1 ELSE 0) /\ q # NoPage
    BY <1>1, <1>3 DEF Sound
  <2>2. Refs(u.word, D, q) \in Nat
    BY <1>3, NoRefs
  <2> QED
    BY <2>1, <2>2
<1>6. u.refCount[d] = 1 /\ u.nextFree[d] = NoPage /\ d \in Page \ FreeOf(u, NoPage)
  <2>1. u.refCount[d] = 1
    BY <1>3, <1>4, <1>5
  <2>2. u.nextFree[d] = NoPage
    BY <1>1, <1>3, <2>1, SoundFacts
  <2> QED
    BY <1>3, <2>1, <2>2 DEF FreeOf
<1>7. /\ y \in Memory /\ y.panic = u.panic /\ y.wild = u.wild
      /\ y.refCount = [u.refCount EXCEPT ![d] = @ - 1] /\ y.word = u.word
      /\ y.freeList = d /\ y.nextFree = [u.nextFree EXCEPT ![d] = u.freeList]
  <2>1. y = DecRef(u, d) /\ u.refCount[d] > 0
    BY <1>2, <1>3, <1>6
  <2> QED
    BY <1>3, <1>6, <2>1, DecFields
<1>8. u.refCount \in [Page -> 0..RefMod-1] /\ u.nextFree \in [Page -> PageRef]
  BY <1>3 DEF Memory
<1>9. \A q \in Page : y.refCount[q] = IF q = d THEN 0 ELSE u.refCount[q]
  <2>1. 1 - 1 = 0
    OBVIOUS
  <2> QED
    BY <1>3, <1>6, <1>7, <1>8, <2>1
<1>10. ASSUME NEW q \in PoolOf(y.word)
       PROVE  y.refCount[q] = Refs(y.word, E, q) + (IF q = NoPage THEN 1 ELSE 0)
  <2>1. q \in PoolOf(u.word) /\ q \in Page /\ q # NoPage
    BY <1>3, <1>7
  <2>2. y.refCount[q] = Refs(y.word, E, q) /\ Refs(y.word, E, q) \in Nat
    BY <1>4, <1>5, <1>7, <1>9, <2>1
  <2> QED
    BY <2>1, <2>2
<1>11. FreeChainOver(y, FreeOf(y, NoPage))
  <2>1. FreeOf(y, NoPage) = FreeOf(u, NoPage) \cup {d}
    BY <1>3, <1>7, <1>9 DEF FreeOf
  <2>2. FreeChainOver(u, FreeOf(u, NoPage)) /\ FreeOf(u, NoPage) \in SUBSET Page
    BY <1>1, SoundFacts DEF Sound
  <2> QED
    BY <1>6, <1>7, <1>8, <2>1, <2>2, PushLinks
<1>12. Sound(y, E, NoPage, NoPage)
  <2>1. ~Stopped(y) /\ Roles(y.word, E)
    BY <1>3, <1>4, <1>7 DEF Stopped
  <2> QED
    BY <1>7, <1>10, <1>11, <2>1 DEF Sound
<1> QED
  BY <1>1, <1>7, <1>12 DEF E

(***************************************************************************)
(* remove, as the processor sees it: va means nothing in d any more.        *)
(***************************************************************************)
LEMMA RemoveRemaps ==
  ASSUME NEW x, NEW D, Sound(x, D, NoPage, NoPage), NEW d \in D, NEW va \in Va,
         NEW y, y = Remove(x, d, va)
  PROVE  Sound(y, D, NoPage, NoPage) /\ Remapped(x.word, D, d, va, NoPage, y.word)
<1> DEFINE pt == x.word[d][va[1]]
<1>1. /\ Sound(y, D, NoPage, NoPage)
      /\ \A q \in Page, j \in Index :
            y.word[q][j] = IF pt # NoPage /\ q = pt /\ j = va[2] THEN NoPage ELSE x.word[q][j]
  BY RemoveSound
<1>2. Roles(x.word, D) /\ Roles(y.word, D) /\ x.word \in Words /\ y.word \in Words
  BY <1>1 DEF Sound, Memory, Words
<1>3. CASE pt = NoPage
  <2>1. \A q \in Page : y.word[q] = x.word[q]
    BY <1>1, <1>2, <1>3 DEF Words
  <2>2. \A q \in D \cup TablesIn(x.word, D) \cup {KDir} : y.word[q] = x.word[q]
    BY <1>2, <2>1, RolesPages, Constants
  <2>3. \A e \in D \cup {KDir}, vb \in Va : Translation(y.word, e, vb) = Translation(x.word, e, vb)
    BY <1>2, <2>2, SameTranslation
  <2>4. Translation(x.word, d, va) = NoPage
    BY <1>3 DEF Translation
  <2> QED
    BY <1>1, <2>3, <2>4 DEF Remapped
<1>4. CASE pt # NoPage
  <2>1. Entered(x.word, x.word[d][va[1]], va[2], NoPage, y.word)
    BY <1>1, <1>4 DEF Entered
  <2>2. x.word[d][va[1]] # NoPage
    BY <1>4
  <2> HIDE DEF pt
  <2> QED
    BY <1>1, <1>2, <2>1, <2>2, EntryTranslation
<1> QED
  BY <1>3, <1>4

-----------------------------------------------------------------------------
(***************************************************************************)
(* The memory that the static maps leave behind.                            *)
(***************************************************************************)
LEMMA BootSound ==
  ASSUME NEW y, y = StaticMap(BootPages)
  PROVE  HitsResident(y) \/ Sound(y, {}, NoPage, NoPage)
<1> DEFINE x  == BootPages
           pt == LowPages - 1
           w  == [[p \in Page |-> ZeroPage] EXCEPT ![KDir][SelfPdx] = KDir]
<1>1. /\ InitPages.refCount \in [Page -> 0..RefMod-1]
      /\ InitPages.nextFree \in [Page -> PageRef] /\ InitPages.freeList \in PageRef
  BY InitType DEF PageTable
<1>2. /\ x.refCount = InitPages.refCount /\ x.nextFree = InitPages.nextFree
      /\ x.freeList = InitPages.freeList /\ x.panic = FALSE /\ x.wild = FALSE /\ x.word = w
      /\ DOMAIN x = {"refCount", "nextFree", "freeList", "panic", "word", "wild"}
  BY DEF BootPages
<1>3. /\ KDir \in Page /\ pt \in Page \ Reserved /\ pt # KDir /\ pt # NoPage
      /\ KDir \in Reserved
  BY PhysMemAssumption, Constants DEF Reserved, Page
<1>4. /\ w \in Words
      /\ \A i \in Index : w[KDir][i] = IF i = SelfPdx THEN KDir ELSE NoPage
  <2>1. ZeroPage \in [Index -> PageRef \cup {Data}] /\ KDir \in PageRef
        /\ \A i \in Index : ZeroPage[i] = NoPage
    BY <1>3 DEF ZeroPage, PageRef
  <2> QED
    BY <1>3, <2>1, Constants DEF Words
<1> HIDE DEF w
<1>5. x \in Memory
  BY <1>1, <1>4 DEF Memory, BootPages, Words, w
<1>6. x.freeList = pt /\ x.refCount[pt] = 0
      /\ \A q \in Page \ Reserved : x.refCount[q] = 0
  BY <1>2, <1>3, PhysMemAssumption DEF InitPages, Reserved, Page
<1> HIDE DEF x
<1>7. /\ ~Stopped(x) /\ KernPdx \in Index /\ KernPdx # SelfPdx /\ x.word[KDir][KernPdx] = NoPage
      /\ \A i \in UserPdx : i \in Index /\ i # KernPdx /\ x.word[KDir][i] = NoPage
  <2>1. KernPdx # SelfPdx
    BY PageDirAssumption DEF KernPdx, SelfPdx
  <2>2. \A i \in UserPdx : i # KernPdx /\ i # SelfPdx /\ i \in Index
    BY Constants
  <2> QED
    BY <1>2, <1>4, <2>1, <2>2, Constants DEF Stopped
<1>8. y = WithTable(x, KDir, KernPdx)
  BY DEF StaticMap, x
<1> HIDE DEF pt
<1>9. CASE pt \in Resident
  <2>1. y = Wild(x)
    BY <1>2, <1>3, <1>6, <1>7, <1>8, <1>9 DEF WithTable, AllocZero, Stopped, Wild
  <2> QED
    BY <1>2, <1>5, <1>9, <2>1 DEF Wild, Memory, HitsResident
<1>10. CASE pt \notin Resident
  <2>1. /\ y \in Memory /\ ~Stopped(y)
        /\ y.refCount = [x.refCount EXCEPT ![pt] = 1]
        /\ y.freeList = x.nextFree[pt]
        /\ y.nextFree = [x.nextFree EXCEPT ![pt] = NoPage]
        /\ \A q \in Page, j \in Index :
              y.word[q][j] = IF q = KDir /\ j = KernPdx THEN pt
                             ELSE IF q = pt THEN NoPage ELSE x.word[q][j]
    BY <1>3, <1>5, <1>6, <1>7, <1>8, <1>10, TableFields
  <2>2. /\ y.word[KDir][KernPdx] = pt /\ \A i \in UserPdx : y.word[KDir][i] = NoPage
    BY <1>3, <1>7, <2>1
  <2>3. TablesIn(y.word, {}) = {} /\ \A q : DirEntries(y.word, {}, q) = {} /\ TableEntries(y.word, {}, q) = {}
    BY DEF TablesIn, DirEntries, TableEntries
  <2>4. Roles(y.word, {})
    BY <1>3, <2>2, <2>3 DEF Roles
  <2>5. \A q : Refs(y.word, {}, q) = 0
    BY <2>3, FS_EmptySet DEF Refs
  <2>6. PoolOf(y.word) = (Page \ Reserved) \ {pt}
    BY <2>2 DEF PoolOf
  <2>7. \A q \in PoolOf(y.word) : y.refCount[q] = 0 /\ q # NoPage
    BY <1>5, <1>6, <2>1, <2>6, Constants DEF Memory
  <2>8. FreeOf(y, NoPage) = (Page \ Reserved) \ {pt}
    BY <2>6, <2>7 DEF FreeOf
  <2>9. FreeChainOver(y, FreeOf(y, NoPage))
    <3>1. FreeChainOver(x, Page \ Reserved) /\ x.nextFree \in [Page -> PageRef]
      BY <1>1, <1>2, InitChain, SameLinks
    <3>2. Page \ Reserved \in SUBSET Page
      OBVIOUS
    <3> QED
      BY <1>3, <1>6, <2>1, <2>8, <3>1, <3>2, PopLinks
  <2>10. \A q \in PoolOf(y.word) :
            y.refCount[q] = Refs(y.word, {}, q) + (IF q = NoPage THEN 1 ELSE 0)
    BY <2>5, <2>7
  <2> QED
    BY <2>1, <2>4, <2>9, <2>10 DEF Sound
<1> QED
  BY <1>9, <1>10

-----------------------------------------------------------------------------
\* The TLB holds only what the loaded directory says.
Coherent(w, D, c, t) ==
    /\ c \in D \cup {KDir}
    /\ t = [va \in Va |-> t[va]]
    /\ \A va \in Va : t[va] # NoPage => t[va] = Translation(w, c, va)

(***************************************************************************)
(* The inductive invariant.  RefCountExact and NoPageLost alone are not     *)
(* inductive: that remove takes one reference and one entry away needs each *)
(* table to be named once, and that no data page is a table needs the roles *)
(* of all pages.  Sound says both.                                          *)
(***************************************************************************)
IInv == /\ ~Stopped(m) => /\ Sound(m, dirs, NoPage, NoPage)
                          /\ Coherent(m.word, dirs, cr3, tlb)
        /\ m.wild => Resident # {}

\* What a step of the page directories does to m: the kernel goes on with a
\* resident page, or is out of memory, or leaves a sound memory.
Outcome(x, D) ==
    \/ HitsResident(x)
    \/ x.panic /\ ~x.wild /\ x.freeList = NoPage
    \/ Sound(x, D, NoPage, NoPage)

LEMMA OutcomeIs ==
  ASSUME NEW x, NEW D, Outcome(x, D)
  PROVE  /\ ~Stopped(x) => Sound(x, D, NoPage, NoPage)
         /\ x.wild => Resident # {}
         /\ x.panic => x.freeList = NoPage
BY DEF Outcome, HitsResident, Sound, Stopped

(***************************************************************************)
(* Flushing va when its translation in one directory changes is enough.     *)
(***************************************************************************)
LEMMA FlushOne ==
  ASSUME NEW w, NEW D, NEW c, NEW t, Coherent(w, D, c, t),
         NEW d, NEW va \in Va, NEW p, NEW v, Remapped(w, D, d, va, p, v)
  PROVE  Coherent(v, D, c, [t EXCEPT ![va] = NoPage])
<1> DEFINE u == [t EXCEPT ![va] = NoPage]
<1>1. u = [vb \in Va |-> IF vb = va THEN NoPage ELSE t[vb]]
  BY DEF Coherent
<1>2. \A vb \in Va : u[vb] # NoPage => vb # va /\ u[vb] = t[vb]
  BY <1>1
<1>3. u = [vb \in Va |-> u[vb]]
  BY <1>1
<1> HIDE DEF u
<1>4. \A vb \in Va : vb # va => Translation(v, c, vb) = Translation(w, c, vb)
  BY DEF Remapped, Coherent
<1>5. Coherent(v, D, c, u)
  BY <1>2, <1>3, <1>4 DEF Coherent
<1> QED
  BY <1>5 DEF u

LEMMA SameMeaning ==
  ASSUME NEW w, NEW D, NEW c, NEW t, Coherent(w, D, c, t),
         NEW v, \A e \in D \cup {KDir}, va \in Va : Translation(v, e, va) = Translation(w, e, va),
         NEW E, D \subseteq E
  PROVE  Coherent(v, E, c, t)
BY DEF Coherent

-----------------------------------------------------------------------------
LEMMA Initial == Init => IInv
<1> SUFFICES ASSUME Init PROVE IInv
  OBVIOUS
<1>1. HitsResident(m) \/ Sound(m, {}, NoPage, NoPage)
  BY BootSound DEF Init
<1>2. Coherent(m.word, dirs, cr3, tlb)
  BY DEF Init, Coherent, Flushed
<1> QED
  BY <1>1, <1>2 DEF Init, IInv, HitsResident, Sound, Stopped

LEMMA NewDirStep ==
  ASSUME IInv, NewDir
  PROVE  IInv' /\ Outcome(m', dirs')
<1>1. Sound(m, dirs, NoPage, NoPage) /\ Coherent(m.word, dirs, cr3, tlb)
  BY DEF IInv, NewDir
<1>2. \/ HitsResident(m')
      \/ /\ Sound(m', dirs', NoPage, NoPage)
         /\ \A e \in dirs \cup {KDir}, va \in Va :
               Translation(m'.word, e, va) = Translation(m.word, e, va)
  <2>1. m' = SetupMemory(m) /\ m.freeList # NoPage /\ dirs' = dirs \cup {m.freeList}
    BY DEF NewDir
  <2>2. \/ HitsResident(m')
        \/ /\ Sound(m', dirs \cup {m.freeList}, NoPage, NoPage)
           /\ \A e \in dirs \cup {KDir}, va \in Va :
                 Translation(m'.word, e, va) = Translation(m.word, e, va)
    BY <1>1, <2>1, SetupSound
  <2> QED
    BY <2>1, <2>2
<1>3. Outcome(m', dirs')
  BY <1>2 DEF Outcome
<1>4. ASSUME ~Stopped(m') PROVE Coherent(m'.word, dirs', cr3', tlb')
  <2>1. \A e \in dirs \cup {KDir}, va \in Va :
           Translation(m'.word, e, va) = Translation(m.word, e, va)
    BY <1>2, <1>4 DEF HitsResident, Stopped
  <2>2. cr3' = cr3 /\ tlb' = tlb /\ dirs \subseteq dirs'
    BY DEF NewDir
  <2> QED
    BY <1>1, <2>1, <2>2, SameMeaning
<1> QED
  BY <1>3, <1>4, OutcomeIs DEF IInv

LEMMA MapNewStep ==
  ASSUME IInv, NEW d \in dirs, NEW va \in Va, MapNew(d, va)
  PROVE  IInv' /\ Outcome(m', dirs')
<1> DEFINE p == m.freeList
           y == RegionAlloc(m, d, va)
<1>1. Sound(m, dirs, NoPage, NoPage) /\ Coherent(m.word, dirs, cr3, tlb)
      /\ m' = Filled(y, {p}) /\ dirs' = dirs /\ cr3' = cr3 /\ tlb' = [tlb EXCEPT ![va] = NoPage]
  BY DEF IInv, MapNew
<1>2. \/ HitsResident(y)
      \/ y.panic /\ ~y.wild /\ y.freeList = NoPage
      \/ /\ Sound(y, dirs, NoPage, NoPage)
         /\ p \notin dirs \cup TablesIn(y.word, dirs) \cup {KDir}
         /\ Remapped(m.word, dirs, d, va, p, y.word)
  BY <1>1, RegionAllocSound
<1> HIDE DEF y, p
<1>3. CASE Stopped(y)
  <2>1. m' = y
    BY <1>1, <1>3 DEF Filled
  <2>2. Outcome(m', dirs')
    BY <1>1, <1>2, <1>3, <2>1 DEF Outcome, Sound
  <2> QED
    BY <1>3, <2>1, <2>2, OutcomeIs DEF IInv
<1>4. CASE ~Stopped(y)
  <2>1. /\ Sound(y, dirs, NoPage, NoPage)
        /\ p \notin dirs \cup TablesIn(y.word, dirs) \cup {KDir}
        /\ Remapped(m.word, dirs, d, va, p, y.word)
    BY <1>2, <1>4 DEF HitsResident, Stopped
  <2>2. /\ Sound(m', dirs, NoPage, NoPage)
        /\ \A e \in dirs \cup {KDir}, vb \in Va :
              Translation(m'.word, e, vb) = Translation(y.word, e, vb)
    BY <1>1, <2>1, FilledSound
  <2>3. Coherent(y.word, dirs, cr3, tlb')
    BY <1>1, <2>1, FlushOne
  <2>4. Coherent(m'.word, dirs', cr3', tlb')
    BY <1>1, <2>2, <2>3, SameMeaning
  <2>5. Outcome(m', dirs')
    BY <1>1, <2>2 DEF Outcome
  <2> QED
    BY <1>1, <2>4, <2>5, OutcomeIs DEF IInv
<1> QED
  BY <1>3, <1>4

LEMMA MapAgainStep ==
  ASSUME IInv, NEW d \in dirs, NEW va \in Va, NEW p \in Page, MapAgain(d, va, p)
  PROVE  IInv' /\ Outcome(m', dirs')
<1>1. /\ Sound(m, dirs, NoPage, NoPage) /\ Coherent(m.word, dirs, cr3, tlb)
      /\ Roles(m.word, dirs)
      /\ m' = Insert(m, d, p, va) /\ dirs' = dirs /\ cr3' = cr3
      /\ tlb' = IF InsertFails(m, d, va) THEN tlb ELSE [tlb EXCEPT ![va] = NoPage]
      /\ p \in DataPages /\ m.refCount[p] < RefMod - 1
  BY DEF IInv, MapAgain, Sound
<1>2. PICK t \in TablesIn(m.word, dirs), i \in Index : m.word[t][i] = p /\ p # NoPage
  BY <1>1 DEF DataPages, Tables
<1>3. p \in PoolOf(m.word) /\ p \notin dirs \cup TablesIn(m.word, dirs)
  BY <1>1, <1>2 DEF Roles
<1>4. m.refCount[p] # 0
  <2>1. Refs(m.word, dirs, p) \in Nat /\ Refs(m.word, dirs, p) # 0
    BY <1>1, <1>2, NoRefs
  <2>2. m.refCount[p] = Refs(m.word, dirs, p) + (IF p = NoPage THEN 1 ELSE 0)
    BY <1>1, <1>3 DEF Sound
  <2> QED
    BY <1>2, <2>1, <2>2
<1>5. \/ HitsResident(m')
      \/ InsertFails(m, d, va) /\ m' = m
      \/ /\ ~InsertFails(m, d, va)
         /\ Sound(m', dirs, NoPage, NoPage)
         /\ Remapped(m.word, dirs, d, va, p, m'.word)
  BY <1>1, <1>3, <1>4, InsertSound
<1>6. Outcome(m', dirs')
  BY <1>1, <1>5 DEF Outcome
<1>7. ASSUME ~Stopped(m') PROVE Coherent(m'.word, dirs', cr3', tlb')
  <2>1. CASE InsertFails(m, d, va) /\ m' = m
    BY <1>1, <2>1
  <2>2. CASE ~InsertFails(m, d, va) /\ Remapped(m.word, dirs, d, va, p, m'.word)
    BY <1>1, <2>2, FlushOne
  <2> QED
    BY <1>5, <1>7, <2>1, <2>2 DEF HitsResident, Stopped
<1> QED
  BY <1>6, <1>7, OutcomeIs DEF IInv

LEMMA UnmapStep ==
  ASSUME IInv, NEW d \in dirs, NEW va \in Va, Unmap(d, va)
  PROVE  IInv' /\ Outcome(m', dirs')
<1>1. /\ Sound(m, dirs, NoPage, NoPage) /\ Coherent(m.word, dirs, cr3, tlb)
      /\ m' = Remove(m, d, va) /\ dirs' = dirs /\ cr3' = cr3
      /\ tlb' = IF Translation(m.word, d, va) = NoPage THEN tlb ELSE [tlb EXCEPT ![va] = NoPage]
  BY DEF IInv, Unmap, Translate
<1>2. Sound(m', dirs, NoPage, NoPage) /\ Remapped(m.word, dirs, d, va, NoPage, m'.word)
  BY <1>1, RemoveRemaps
<1>3. Outcome(m', dirs')
  BY <1>1, <1>2 DEF Outcome
<1>4. Coherent(m'.word, dirs', cr3', tlb')
  <2>1. CASE Translation(m.word, d, va) = NoPage
    <3>1. \A e \in dirs \cup {KDir}, vb \in Va :
             Translation(m'.word, e, vb) = Translation(m.word, e, vb)
      BY <1>2, <2>1 DEF Remapped
    <3> QED
      BY <1>1, <2>1, <3>1, SameMeaning
  <2>2. CASE Translation(m.word, d, va) # NoPage
    BY <1>1, <1>2, <2>2, FlushOne
  <2> QED
    BY <2>1, <2>2
<1> QED
  BY <1>3, <1>4, OutcomeIs DEF IInv

LEMMA TeardownStep ==
  ASSUME IInv, NEW d \in dirs, Teardown(d)
  PROVE  IInv' /\ Outcome(m', dirs')
<1>1. /\ Sound(m, dirs, NoPage, NoPage) /\ Coherent(m.word, dirs, cr3, tlb)
      /\ m' = FreeSpace(m, d) /\ dirs' = dirs \ {d}
      /\ cr3' = IF cr3 = d THEN KDir ELSE cr3
      /\ tlb' = IF cr3 = d THEN Flushed
                ELSE [va \in Va |-> IF Translation(m.word, d, va) = NoPage THEN tlb[va] ELSE NoPage]
  BY DEF IInv, Teardown, Translate
<1>2. Sound(m', dirs \ {d}, NoPage, NoPage) /\ OthersKeep(m.word, dirs, d, m'.word)
  BY <1>1, FreeSpaceSound
<1>3. Outcome(m', dirs')
  BY <1>1, <1>2 DEF Outcome
<1>4. Coherent(m'.word, dirs', cr3', tlb')
  <2>1. CASE cr3 = d
    BY <1>1, <2>1 DEF Coherent, Flushed
  <2>2. CASE cr3 # d
    <3>1. cr3' = cr3 /\ cr3 \in (dirs \ {d}) \cup {KDir}
      BY <1>1, <2>2 DEF Coherent
    <3>2. \A va \in Va : Translation(m'.word, cr3, va) = Translation(m.word, cr3, va)
      BY <1>2, <3>1 DEF OthersKeep
    <3>3. tlb' = [va \in Va |-> tlb'[va]]
          /\ \A va \in Va : tlb'[va] # NoPage => tlb'[va] = tlb[va]
      BY <1>1, <2>2
    <3> QED
      BY <1>1, <3>1, <3>2, <3>3 DEF Coherent
  <2> QED
    BY <2>1, <2>2
<1> QED
  BY <1>3, <1>4, OutcomeIs DEF IInv

LEMMA LoadStep ==
  ASSUME IInv, NEW d \in dirs \cup {KDir}, Load(d)
  PROVE  IInv' /\ Outcome(m', dirs')
<1>1. Sound(m, dirs, NoPage, NoPage) /\ m' = m /\ dirs' = dirs /\ cr3' = d /\ tlb' = Flushed
  BY DEF IInv, Load
<1>2. Outcome(m', dirs')
  BY <1>1 DEF Outcome
<1>3. Coherent(m'.word, dirs', cr3', tlb')
  BY <1>1 DEF Coherent, Flushed
<1> QED
  BY <1>2, <1>3, OutcomeIs DEF IInv

LEMMA TouchStep ==
  ASSUME IInv, NEW va \in Va, Touch(va)
  PROVE  IInv' /\ Outcome(m', dirs')
<1>1. /\ Sound(m, dirs, NoPage, NoPage) /\ Coherent(m.word, dirs, cr3, tlb)
      /\ m' = m /\ dirs' = dirs /\ cr3' = cr3
      /\ tlb' = [tlb EXCEPT ![va] = Translation(m.word, cr3, va)]
  BY DEF IInv, Touch, Translate
<1>2. Outcome(m', dirs')
  BY <1>1 DEF Outcome
<1>3. Coherent(m'.word, dirs', cr3', tlb')
  <2>1. tlb' = [vb \in Va |-> IF vb = va THEN Translation(m.word, cr3, va) ELSE tlb[vb]]
    BY <1>1 DEF Coherent
  <2> QED
    BY <1>1, <2>1 DEF Coherent
<1> QED
  BY <1>2, <1>3, OutcomeIs DEF IInv

LEMMA Step ==
  ASSUME IInv, Next
  PROVE  IInv' /\ Outcome(m', dirs')
<1>1. CASE NewDir
  BY <1>1, NewDirStep
<1>2. ASSUME NEW d \in dirs, Load(d) \/ Teardown(d)
      PROVE  IInv' /\ Outcome(m', dirs')
  BY <1>2, LoadStep, TeardownStep
<1>3. CASE Load(KDir)
  BY <1>3, LoadStep
<1>4. ASSUME NEW va \in UsedVa, Touch(va)
      PROVE  IInv' /\ Outcome(m', dirs')
  BY <1>4, TouchStep, AddressAssumption
<1>5. ASSUME NEW d \in dirs, NEW va \in UsedVa,
             MapNew(d, va) \/ Unmap(d, va) \/ \E p \in Page : MapAgain(d, va, p)
      PROVE  IInv' /\ Outcome(m', dirs')
  BY <1>5, MapNewStep, UnmapStep, MapAgainStep, AddressAssumption
<1> QED
  BY <1>1, <1>2, <1>3, <1>4, <1>5 DEF Next

THEOREM Invariant == Spec => []IInv
<1>1. IInv /\ [Next]_vars => IInv'
  <2>1. ASSUME IInv, UNCHANGED vars PROVE IInv'
    BY <2>1 DEF vars, IInv
  <2> QED
    BY <2>1, Step
<1> QED
  BY <1>1, Initial, PTL DEF Spec

-----------------------------------------------------------------------------
(***************************************************************************)
(* refCount is the number of places that refer to the page, in every state  *)
(* between two operations: the lines of findPte, insert, remove and         *)
(* Task::free that change counts and those that change entries agree.       *)
(***************************************************************************)
THEOREM RefCountCorrect == Spec => []RefCountExact
<1>1. IInv => RefCountExact
  <2> SUFFICES ASSUME IInv, ~Stopped(m), NEW p \in Counted PROVE m.refCount[p] = References(p)
    BY DEF RefCountExact
  <2>1. Sound(m, dirs, NoPage, NoPage) /\ Roles(m.word, dirs)
    BY DEF IInv, Sound
  <2>2. p \in PoolOf(m.word) /\ p # NoPage
    BY Constants DEF Counted, KernelTables, PoolOf
  <2>3. m.refCount[p] = Refs(m.word, dirs, p) + (IF p = NoPage THEN 1 ELSE 0)
    BY <2>1, <2>2 DEF Sound
  <2>4. Refs(m.word, dirs, p) \in Nat
    BY <2>1, NoRefs
  <2> QED
    BY <2>2, <2>3, <2>4 DEF References
<1> QED
  BY <1>1, Invariant, PTL

(***************************************************************************)
(* Every page of the pool is referred to, or on the free list and there     *)
(* once: whatever fails or is torn down, no page is lost and none is free   *)
(* and in use.                                                              *)
(***************************************************************************)
THEOREM PagesCorrect == Spec => []NoPageLost
<1>1. IInv => NoPageLost
  <2> SUFFICES ASSUME IInv, ~Stopped(m)
               PROVE  FreeChainOver(m, {p \in Counted : References(p) = 0})
    BY DEF NoPageLost
  <2>1. Sound(m, dirs, NoPage, NoPage) /\ Roles(m.word, dirs)
    BY DEF IInv, Sound
  <2>2. Counted = PoolOf(m.word) /\ NoPage \notin Counted
    BY Constants DEF Counted, KernelTables, PoolOf
  <2>3. \A p \in Counted : m.refCount[p] = References(p)
    <3> TAKE p \in Counted
    <3>1. m.refCount[p] = Refs(m.word, dirs, p) + (IF p = NoPage THEN 1 ELSE 0)
      BY <2>1, <2>2 DEF Sound
    <3>2. Refs(m.word, dirs, p) \in Nat
      BY <2>1, NoRefs
    <3> QED
      BY <2>2, <3>1, <3>2 DEF References
  <2>4. FreeOf(m, NoPage) = {p \in Counted : References(p) = 0}
    BY <2>2, <2>3 DEF FreeOf
  <2> QED
    BY <2>1, <2>4 DEF Sound
<1> QED
  BY <1>1, Invariant, PTL

(***************************************************************************)
(* The TLB never holds a translation that the loaded directory no longer    *)
(* has: the flushes of insert, remove and Task::free are enough.            *)
(***************************************************************************)
THEOREM TLBCorrect == Spec => []TLBCoherent
<1>1. IInv => TLBCoherent
  BY DEF IInv, TLBCoherent, Coherent, Translate
<1> QED
  BY <1>1, Invariant, PTL

(***************************************************************************)
(* Unless kernel data lies on the free list, the kernel never takes the     *)
(* words of a data page for table entries, and no page has two roles.       *)
(***************************************************************************)
THEOREM RolesCorrect ==
  ASSUME Resident = {}
  PROVE  Spec => []RolesDisjoint
<1>1. IInv => RolesDisjoint
  <2> SUFFICES ASSUME IInv PROVE RolesDisjoint
    OBVIOUS
  <2>1. ~m.wild
    BY DEF IInv
  <2>2. ASSUME ~Stopped(m)
        PROVE  dirs \cap (Tables \cup DataPages) = {} /\ Tables \cap DataPages = {}
    <3>1. Roles(m.word, dirs)
      BY <2>2 DEF IInv, Sound
    <3>2. \A p \in DataPages : p \notin dirs \cup TablesIn(m.word, dirs)
      BY <3>1 DEF Roles, DataPages, Tables
    <3>3. dirs \cap TablesIn(m.word, dirs) = {}
      BY <3>1, RolesPages
    <3> QED
      BY <3>2, <3>3 DEF Tables
  <2> QED
    BY <2>1, <2>2 DEF RolesDisjoint
<1> QED
  BY <1>1, Invariant, PTL

(***************************************************************************)
(* The kernel panics in these operations only when regionAlloc finds no     *)
(* page: the checks of PageInfo::free never fail.                           *)
(***************************************************************************)
THEOREM PanicsCorrect == Spec => PanicsOnlyWhenExhausted
<1>1. IInv /\ [Next]_vars => [m'.panic /\ ~m.panic => m'.freeList = NoPage]_vars
  <2>1. ASSUME IInv, Next PROVE m'.panic => m'.freeList = NoPage
    BY <2>1, Step, OutcomeIs
  <2> QED
    BY <2>1
<1> QED
  BY <1>1, Invariant, PTL DEF Spec, PanicsOnlyWhenExhausted
=============================================================================
