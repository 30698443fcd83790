----------------------------- MODULE TaskMemory -----------------------------
(***************************************************************************)
(* TaskLife with the physical memory under it: each runtask allocates the   *)
(* directories, tables and pages of PageDir, and each destroy frees them,   *)
(* from the memory that vmem::init leaves behind.  The success of an        *)
(* allocation, a choice in TaskLife, is what the free list decides here.    *)
(***************************************************************************)
EXTENDS TaskLife, PageDir, Sequences

CONSTANTS TestVa,    \* where pgdir::init maps its test pages (0x80000000)
          Program,   \* the program headers of the embedded ELF
          StackVa    \* USTACKTOP - PGSIZE

\* Addresses of the user's half in words, and the page and word they stand for.
Address     == 0 .. NUser * NWords * NWords - 1
PageOf(a)   == a \div NWords
VaOf(n)     == <<n \div NWords, n % NWords>>     \* the n-th page
Segment(h)  == h.va .. h.va + h.memsz - 1
FilePart(h) == h.va .. h.va + h.filesz - 1

\* scripts/user.ld begins .text within a page and aligns .data, and the linker
\* does not put a page into two segments.
ASSUME TaskMemoryAssumption ==
    /\ TestVa \in Va /\ StackVa \in Va
    /\ \A i \in DOMAIN Program :
          LET h == Program[i]
          IN h.offset \in Nat /\ h.memsz \in Nat /\ h.filesz \in 0..h.memsz /\ Segment(h) \subseteq Address
    /\ \A i, j \in {k \in DOMAIN Program : Program[k].load} : i # j =>
          \A a \in Segment(Program[i]), b \in Segment(Program[j]) : PageOf(a) # PageOf(b)

VARIABLES m,       \* pages and their contents
          dirOf,   \* Task::pageDir; cr3 holds the task, dirOf its directory
          found,   \* what the last program found at each address when it started
          given    \* history: the pages that each task was given by its runtask

mvars == <<vars, m, dirOf, found, given>>

\* vmem::init: page::init, the static maps, the self test.
BootMem == SelfTest(StaticMap(BootPages), TestVa)

MInit == /\ Init
         /\ m = BootMem
         /\ dirOf = [t \in Task |-> NoPage]
         /\ found = <<>>
         /\ given = [t \in Task |-> {}]

-----------------------------------------------------------------------------
RoundDown(a) == PageOf(a) * NWords
RoundUp(a)   == RoundDown(a + NWords - 1)

\* Task::regionAlloc: the pages of [va, va+len).
Region(x, dir, va, len) ==
    LET lo == RoundDown(va)
        hi == RoundUp(va + len)
        OnePage(y, n) == RegionAlloc(y, dir, VaOf(PageOf(lo) + n))
    IN For(PageOf(hi - lo), OnePage, x)

\* The page that the directory dir maps at address a.
FrameAt(x, dir, a) ==
    LET pt == x.word[dir][VaOf(PageOf(a))[1]]
        pg == IF pt \in Page THEN x.word[pt][VaOf(PageOf(a))[2]] ELSE NoPage
    IN IF pg \in Page THEN pg ELSE NoPage

\* A word of the ELF file, named by its offset, is none of a page table.
FileWord(h, k) == NPages + h.offset + k

\* mem::copy of the part of a segment that is in the file, with dir loaded; the
\* kernel panics in its own page fault where no page is mapped.
CopyFile(x, dir, h) ==
    LET Put(y, k) == [y EXCEPT !.word[FrameAt(y, dir, h.va + k)][(h.va + k) % NWords] = FileWord(h, k)]
    IN IF Stopped(x) THEN x
       ELSE IF \E a \in FilePart(h) : FrameAt(x, dir, a) = NoPage THEN Panic(x)
       ELSE For(h.filesz, Put, x)

(***************************************************************************)
(* Task::loadElf: each segment to load, then the stack.                     *)
(***************************************************************************)
Segments(x, dir) ==
    LET Load(y, k) ==
            LET h == Program[k + 1]
            IN IF ~h.load \/ h.memsz = 0 THEN y
               ELSE CopyFile(Region(y, dir, h.va, h.memsz), dir, h)
    IN For(Len(Program), Load, x)

LoadElf(x, dir) == RegionAlloc(Segments(x, dir), dir, StackVa)

Mapped(x, dir) == {a \in Address : FrameAt(x, dir, a) # NoPage}

(***************************************************************************)
(* Task::create calls setupMemory in alloc and once more itself; the second *)
(* directory replaces the first.  regionAlloc panics with the new directory *)
(* loaded in a segment, and with kernelPageDir for the stack.               *)
(***************************************************************************)
\* Seeded fault: Task::alloc does not set up the memory.
FirstSkipped == m

First  == SetupMemory(m)
Second == SetupMemory(First)

\* What the directory dir refers to in its user half.
TablesAt(x, dir) == {x.word[dir][i] : i \in UserPdx} \cap Page
PagesAt(x, dir)  == {x.word[pt][i] : pt \in TablesAt(x, dir), i \in Index} \cap Page

\* Pages that the list gives out, in as many steps as there are pages.
OnList(x) == LET w == Walk(x) IN {w[n] : n \in 0..NPages} \ {NoPage}

MRunTask(t) ==
    LET dir  == First.freeList
        done == LoadElf(Second, dir)
    IN /\ ~Stopped(m)
       /\ m.freeList # NoPage /\ First.freeList # NoPage
       /\ \/ /\ ~Stopped(done)
             /\ RunTask(t)
          \/ /\ done.panic
             /\ RunTaskNoPage(t)
             /\ cr3' = IF Segments(Second, dir).panic THEN t ELSE NoTask
          \/ /\ done.wild
             /\ mode = "monitor" /\ freeTask = t
             /\ UNCHANGED vars
       /\ m' = Filled(done, {FrameAt(done, dir, a) : a \in Mapped(done, dir)})
       /\ dirOf' = [dirOf EXCEPT ![t] = dir]
       /\ found' = [a \in Mapped(done, dir) |-> done.word[FrameAt(done, dir, a)][a % NWords]]
       /\ given' = [given EXCEPT ![t] =
              OnList(m) \cap ({dir} \cup TablesAt(done, dir) \cup PagesAt(done, dir))]

\* The two ways in which setupMemory fails are the two of RunTaskNoPageDir.
MRunTaskNoPageDir(t) ==
    /\ ~Stopped(m)
    /\ RunTaskNoPageDir(t)
    /\ UNCHANGED <<found, given>>
    /\ \/ /\ m.freeList = NoPage
          /\ status'[t] = "free"
          /\ UNCHANGED <<m, dirOf>>
       \/ /\ m.freeList # NoPage
          /\ First.freeList = NoPage
          /\ status'[t] = "ready"
          /\ m' = First
          /\ dirOf' = [dirOf EXCEPT ![t] = m.freeList]

MRunTaskNoSlot == ~Stopped(m) /\ RunTaskNoSlot /\ UNCHANGED <<m, dirOf, found, given>>

\* Task::destroy, whose Task::free gives the pages back before the slot.
MDestroy ==
    LET done == FreeSpace(m, dirOf[current])
    IN /\ ~Stopped(m)
       /\ mode = "user"
       /\ m' = done
       /\ IF Stopped(done) THEN UNCHANGED vars ELSE Destroy
       /\ given' = [given EXCEPT ![current] = {}]
       /\ UNCHANGED <<dirOf, found>>

MOther == /\ ~Stopped(m)
          /\ Cont \/ Si \/ Break \/ Syscall \/ GetChar \/ KeyComes
          /\ UNCHANGED <<m, dirOf, found, given>>

MNext == \/ \E t \in Task : MRunTask(t) \/ MRunTaskNoPageDir(t)
         \/ MRunTaskNoSlot \/ MDestroy \/ MOther

MSpec == MInit /\ [][MNext]_mvars

-----------------------------------------------------------------------------
Running == Live /\ ~Stopped(m)

LiveTasks == {t \in Task : status[t] # "free"}

OnFreeList == OnList(m)

(***************************************************************************)
(* The free list ends whatever the tasks did before: no page is pushed on   *)
(* itself or twice (the check of vmem.cc:36 does not see the last page).    *)
(***************************************************************************)
PageListEnds == Running => Walk(m)[NPages] = NoPage

\* The self test's table, which kernelPageDir names for good and so does every
\* copy of it, on the free list or not.
Stale == TablesAt(m, KDir)

\* An exit can empty the stale table under a task that has it, and frees it: all
\* that keeps the task then is that it has the CPU.
Keeps(t) == t = current \/ given[t] \cap Stale = {}

(***************************************************************************)
(* The pages that runtask gave a task, its directory, tables and pages,     *)
(* stay the task's until it exits: none is on the free list or given to     *)
(* another task, the directory leads to all of them, and each is counted    *)
(* once, so that the exit frees it.  Not so for a task that was given the   *)
(* stale table and lost the CPU: another task, which has that table from    *)
(* kernelPageDir, unmaps and frees its pages when it exits.                 *)
(***************************************************************************)
TaskPagesKept ==
    Running =>
        \A t \in LiveTasks : Keeps(t) =>
            /\ \A p \in given[t] \ Stale : m.refCount[p] = 1
            /\ given[t] \cap OnFreeList = {}
            /\ given[t] \subseteq {dirOf[t]} \cup TablesAt(m, dirOf[t]) \cup PagesAt(m, dirOf[t])
            /\ \A u \in LiveTasks \ {t} : Keeps(u) => given[u] \cap given[t] = {}

(***************************************************************************)
(* Task::free never takes the words of a data page for page table entries.  *)
(***************************************************************************)
NoDataWalk == ~m.wild

(***************************************************************************)
(* The only panic is for want of memory in regionAlloc: PageInfo::free      *)
(* never meets a page in use or already free (vmem.cc:36-38).               *)
(***************************************************************************)
FreePanicUnreachable == [][m'.panic /\ ~m.panic => m'.freeList = NoPage]_mvars

(***************************************************************************)
(* The program that starts finds each byte of its segments as the file has  *)
(* it, and the rest of its segments and pages and its stack clear, whatever *)
(* tasks wrote to the pages before and wherever in a page a segment begins  *)
(* or ends (task.cc:157-203); the kernel does not fault while it copies.    *)
(***************************************************************************)
ProgramIntact ==
    found # <<>> /\ ~m.wild /\ (m.panic => m.freeList # NoPage) =>
        LET headers == {Program[i] : i \in {j \in DOMAIN Program : Program[j].load}}
            pages   == {PageOf(a) : a \in UNION {Segment(h) : h \in headers}}
        IN /\ \A h \in headers : \A a \in FilePart(h) :
                 a \in DOMAIN found /\ found[a] = FileWord(h, a - h.va)
           /\ \A a \in Address \ UNION {FilePart(h) : h \in headers} :
                 PageOf(a) \in pages \/ VaOf(PageOf(a)) = StackVa =>
                    a \in DOMAIN found /\ found[a] = NoPage

(***************************************************************************)
(* task.cc:128 and 146, `free all pages, from 0x0 to UTOP` and `free the    *)
(* page dir itself`: when no task is left, every page that was free after   *)
(* boot is free again.                                                      *)
(***************************************************************************)
PagesReturned == Running /\ LiveTasks = {} => OnList(BootMem) \subseteq OnFreeList

(***************************************************************************)
(* vmem.cc:36 lets a page on the free list only with a count of 0.          *)
(***************************************************************************)
FreeHaveNoRef == Running => \A p \in OnFreeList : m.refCount[p] = 0

(***************************************************************************)
(* vmem.cc:148, `Mark pages where kernel resides as used`: PageInfo::alloc  *)
(* never gives out, and clears, a page that the kernel lives in.  Task::array *)
(* is allocated by task.cc:25, after the marking.                           *)
(***************************************************************************)
ResidentNotGivenOut == ~(m.wild /\ m.freeList \in Resident)
=============================================================================
