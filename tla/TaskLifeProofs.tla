---------------------------- MODULE TaskLifeProofs ----------------------------
(***************************************************************************)
(* Proofs about TaskLife for every number of task slots: the safety         *)
(* invariants that MCTaskLife checks, and that a ready task stays ready.    *)
(***************************************************************************)
EXTENDS TaskMemory, FreeListProofs

(***************************************************************************)
(* The inductive invariant is the conjunction of the checked ones: what     *)
(* destroy and runtask do to the list is right because the current task is  *)
(* not on it, which needs RunningIsCurrent and UserRunsCurrent, and these   *)
(* need ResumeSafe to survive cont and si.                                  *)
(***************************************************************************)
IInv == /\ TypeOK
        /\ SlotListSound
        /\ RunningIsCurrent
        /\ UserRunsCurrent
        /\ ResumeSafe

\* Slots are finite, and nullptr is none of them.
LEMMA TaskFinite == /\ IsFiniteSet(Task)
                    /\ Cardinality(Task) = NTasks
                    /\ \A S \in SUBSET Task : IsFiniteSet(S) /\ NoTask \notin S
<1>1. 0 \in Int /\ NTasks-1 \in Int /\ ~(0 > NTasks-1) /\ NTasks-1-0+1 = NTasks
  BY TaskAssumption
<1>2. IsFiniteSet(0..NTasks-1) /\ Cardinality(0..NTasks-1) = NTasks
  BY <1>1, FS_Interval
<1> QED
  BY <1>2, TaskAssumption, FS_Subset DEF Task

(***************************************************************************)
(* task::init builds a sound list of all slots.                             *)
(***************************************************************************)
LEMMA InitList == Init => IsListOf(freeTask, nextFree, NoTask, Task)
<1> SUFFICES ASSUME Init PROVE IsListOf(freeTask, nextFree, NoTask, Task)
  OBVIOUS
<1> USE TaskAssumption
<1> DEFINE s == [i \in 1..NTasks |-> i - 1]
<1>1. s \in [1..NTasks -> Task]
  BY DEF Task
<1>2. \A i, j \in 1..NTasks : s[i] = s[j] => i = j
  OBVIOUS
<1>3. freeTask = IF NTasks = 0 THEN NoTask ELSE s[1]
  BY DEF Init
<1>4. \A i \in 1..NTasks : nextFree[s[i]] = IF i = NTasks THEN NoTask ELSE s[i+1]
  BY DEF Init, Task
<1>5. \A t \in Task : \E i \in 1..NTasks : s[i] = t
  <2> TAKE t \in Task
  <2>1. t + 1 \in 1..NTasks /\ s[t+1] = t
    BY DEF Task
  <2> QED
    BY <2>1
<1> HIDE DEF s
<1>6. IsListWith(freeTask, nextFree, NoTask, Task, NTasks)
  BY <1>1, <1>2, <1>3, <1>4, <1>5 DEF IsListWith, IsChain
<1> QED
  BY <1>6, TaskFinite DEF IsListOf

LEMMA IInvInit == Init => IInv
<1> SUFFICES ASSUME Init PROVE IInv
  OBVIOUS
<1> USE TaskAssumption DEF Init
<1>1. TypeOK
  BY DEF TypeOK, Task, TaskRef, Status, Mode
<1>2. FreeSlots = Task
  BY DEF FreeSlots
<1>3. SlotListSound
  BY <1>2, InitList DEF SlotListSound
<1>4. RunningIsCurrent /\ UserRunsCurrent /\ ResumeSafe
  BY DEF RunningIsCurrent, UserRunsCurrent, ResumeSafe, Task
<1> QED
  BY <1>1, <1>3, <1>4 DEF IInv

\* The head of the list, when there is one, is a free slot.
LEMMA HeadFree ==
  ASSUME IInv, mode = "monitor", NEW t \in Task, freeTask = t
  PROVE  /\ status[t] = "free" /\ t # current
         /\ IsListOf(nextFree[t], nextFree, NoTask, FreeSlots \ {t})
<1>1. /\ IsListOf(freeTask, nextFree, NoTask, FreeSlots)
      /\ IsFiniteSet(FreeSlots) /\ NoTask \notin FreeSlots /\ t # NoTask
  BY TaskFinite DEF IInv, SlotListSound, Live, Halted, FreeSlots
<1>2. t \in FreeSlots
  BY <1>1, ListHead
<1>3. IsListOf(nextFree[freeTask], nextFree, NoTask, FreeSlots \ {freeTask})
  BY <1>1, PopList
<1>4. Live
  BY DEF Live, Halted
<1> QED
  BY <1>2, <1>3, <1>4 DEF IInv, FreeSlots, RunningIsCurrent

LEMMA IInvRunTask == \A t \in Task : IInv /\ RunTask(t) => IInv'
<1> SUFFICES ASSUME NEW t \in Task, IInv, RunTask(t) PROVE IInv'
  OBVIOUS
<1> USE DEF IInv
<1>1. mode = "monitor" /\ freeTask = t /\ Live /\ TypeOK
  BY DEF RunTask, Live, Halted
<1>2. status[t] = "free" /\ t # current
      /\ IsListOf(nextFree[t], nextFree, NoTask, FreeSlots \ {t})
  BY <1>1, HeadFree
<1>3. /\ \A u \in Task \ {t, current} : status'[u] = status[u]
      /\ status'[t] = "running"
      /\ current # NoTask => status'[current] = "ready"
      /\ status' \in [Task -> Status]
  <2>1. CASE current = NoTask
    BY <1>1, <1>2, <2>1, TaskAssumption DEF RunTask, SwitchTo, Yield, TypeOK, Status, TaskRef, Task
  <2>2. CASE current # NoTask
    <3>1. current \in Task /\ status[current] = "running"
      BY <1>1, <2>2 DEF TypeOK, TaskRef, RunningIsCurrent
    <3>2. status' = [[[status EXCEPT ![t] = "ready"] EXCEPT ![current] = "ready"]
                        EXCEPT ![t] = "running"]
      BY <1>1, <1>2, <2>2, <3>1 DEF RunTask, SwitchTo, Yield, TypeOK
    <3> QED
      BY <1>1, <1>2, <3>1, <3>2 DEF TypeOK, Status
  <2> QED
    BY <2>1, <2>2
<1>4. TypeOK'
  BY <1>1, <1>3 DEF RunTask, SwitchTo, TypeOK, TaskRef, Mode
<1>5. /\ current' = t
      /\ \A u \in Task \ {t, current} : status[u] # "running"
      /\ \A u \in Task \ {t} : u = current => status[u] = "running" /\ status'[u] = "ready"
  BY <1>1, <1>3, TaskAssumption DEF RunTask, SwitchTo, RunningIsCurrent, Task
<1>6. FreeSlots' = FreeSlots \ {t}
  <2> SUFFICES ASSUME NEW u \in Task
               PROVE  status'[u] = "free" <=> status[u] = "free" /\ u # t
    BY DEF FreeSlots
  <2>1. CASE u = t
    BY <1>3, <2>1
  <2>2. CASE u # t /\ u = current
    BY <1>5, <2>2
  <2>3. CASE u # t /\ u # current
    BY <1>3, <2>3
  <2> QED
    BY <2>1, <2>2, <2>3
<1>9. \A u \in Task : status'[u] = "running" <=> u = current'
  BY <1>3, <1>5
<1>7. SlotListSound'
  BY <1>2, <1>6 DEF RunTask, SlotListSound
<1>8. UserRunsCurrent' /\ ResumeSafe'
  BY TaskAssumption DEF RunTask, SwitchTo, UserRunsCurrent, ResumeSafe, Task
<1> QED
  BY <1>4, <1>7, <1>8, <1>9 DEF RunningIsCurrent

\* The three ways in which runtask ends the kernel.
LEMMA IInvHalt ==
  IInv /\ (RunTaskNoSlot \/ \E t \in Task : RunTaskNoPageDir(t) \/ RunTaskNoPage(t)) => IInv'
<1> SUFFICES ASSUME IInv,
                    RunTaskNoSlot \/ \E t \in Task : RunTaskNoPageDir(t) \/ RunTaskNoPage(t)
             PROVE  IInv'
  OBVIOUS
<1>1. TypeOK /\ \A st \in [Task -> Status] : Yield(st) \in [Task -> Status]
  BY DEF IInv, Yield, Status
<1>2. TypeOK' /\ mode' \in Halted
  <2>1. CASE RunTaskNoSlot
    BY <1>1, <2>1 DEF RunTaskNoSlot, TypeOK, Mode, Halted
  <2>2. ASSUME NEW t \in Task, RunTaskNoPageDir(t) PROVE TypeOK' /\ mode' \in Halted
    <3>1. [status EXCEPT ![t] = "ready"] \in [Task -> Status]
      BY <1>1 DEF TypeOK, Status
    <3> QED
      BY <1>1, <2>2, <3>1 DEF RunTaskNoPageDir, TypeOK, Mode, Halted
  <2>3. ASSUME NEW t \in Task, RunTaskNoPage(t) PROVE TypeOK' /\ mode' \in Halted
    BY <1>1, <2>3 DEF RunTaskNoPage, TypeOK, Mode, Halted, Status, TaskRef
  <2> QED
    BY <2>1, <2>2, <2>3
<1> QED
  BY <1>2 DEF IInv, SlotListSound, RunningIsCurrent, UserRunsCurrent, ResumeSafe, Live, Halted

LEMMA IInvResume == \A step \in BOOLEAN : IInv /\ Resume(step) => IInv'
<1> SUFFICES ASSUME NEW step \in BOOLEAN, IInv, Resume(step) PROVE IInv'
  OBVIOUS
<1> USE DEF IInv
<1>1. TypeOK'
  BY DEF Resume, slots, TypeOK, TaskRef, Mode
<1>2. Live /\ Live' /\ FreeSlots' = FreeSlots
  BY DEF Resume, slots, Live, Halted, FreeSlots
<1>3. SlotListSound' /\ RunningIsCurrent'
  BY <1>2 DEF Resume, slots, SlotListSound, RunningIsCurrent
<1>4. UserRunsCurrent' /\ ResumeSafe'
  BY DEF Resume, UserRunsCurrent, ResumeSafe
<1> QED
  BY <1>1, <1>3, <1>4

LEMMA IInvBreak == IInv /\ Break => IInv'
<1> SUFFICES ASSUME IInv, Break PROVE IInv'
  OBVIOUS
<1> USE DEF IInv
<1>1. TypeOK'
  BY DEF Break, slots, TypeOK, Mode
<1>2. Live /\ Live' /\ FreeSlots' = FreeSlots
  BY DEF Break, slots, Live, Halted, FreeSlots
<1>3. SlotListSound' /\ RunningIsCurrent'
  BY <1>2 DEF Break, slots, SlotListSound, RunningIsCurrent
<1>4. UserRunsCurrent' /\ ResumeSafe'
  BY DEF Break, UserRunsCurrent, ResumeSafe
<1> QED
  BY <1>1, <1>3, <1>4

LEMMA IInvDestroy == IInv /\ Destroy => IInv'
<1> SUFFICES ASSUME IInv, Destroy PROVE IInv'
  OBVIOUS
<1> USE DEF IInv
<1>1. Live /\ current \in Task /\ current # NoTask /\ status[current] = "running"
  BY DEF Destroy, Live, Halted, TypeOK, TaskRef, UserRunsCurrent, RunningIsCurrent
<1>2. TypeOK'
  BY <1>1 DEF Destroy, TypeOK, TaskRef, Mode, Status
<1>3. FreeSlots' = FreeSlots \cup {current} /\ current \notin FreeSlots
  BY <1>1 DEF Destroy, FreeSlots, TypeOK
<1>4. SlotListSound'
  <2>1. IsListOf(freeTask, nextFree, NoTask, FreeSlots) /\ IsFiniteSet(FreeSlots)
    BY <1>1, TaskFinite DEF SlotListSound, FreeSlots
  <2>2. nextFree'[current] = freeTask /\ \A q \in FreeSlots : nextFree'[q] = nextFree[q]
    BY <1>1, <1>3 DEF Destroy, TypeOK, FreeSlots
  <2>3. IsListOf(current, nextFree', NoTask, FreeSlots \cup {current})
    BY <1>3, <2>1, <2>2, PushList
  <2> QED
    BY <1>3, <2>3 DEF Destroy, SlotListSound
<1>5. RunningIsCurrent'
  BY <1>1, TaskAssumption DEF Destroy, RunningIsCurrent, TypeOK, Task
<1>6. UserRunsCurrent' /\ ResumeSafe'
  BY DEF Destroy, UserRunsCurrent, ResumeSafe
<1> QED
  BY <1>2, <1>4, <1>5, <1>6

\* A task waits for a key as the current one, and goes on as it.
LEMMA IInvKeys == IInv /\ (GetChar \/ KeyComes) => IInv'
<1> SUFFICES ASSUME IInv, GetChar \/ KeyComes PROVE IInv'
  OBVIOUS
<1> USE DEF IInv
<1>1. TypeOK'
  BY DEF GetChar, KeyComes, slots, TypeOK, Mode
<1>2. Live /\ Live' /\ FreeSlots' = FreeSlots
  BY DEF GetChar, KeyComes, slots, Live, Halted, FreeSlots
<1>3. SlotListSound' /\ RunningIsCurrent'
  BY <1>2 DEF GetChar, KeyComes, slots, SlotListSound, RunningIsCurrent
<1>4. UserRunsCurrent' /\ ResumeSafe'
  BY DEF GetChar, KeyComes, UserRunsCurrent, ResumeSafe
<1> QED
  BY <1>1, <1>3, <1>4

LEMMA IInvStep == IInv /\ [Next]_vars => IInv'
<1> SUFFICES ASSUME IInv, [Next]_vars PROVE IInv'
  OBVIOUS
<1>1. CASE \E t \in Task : RunTask(t)
  BY <1>1, IInvRunTask
<1>2. CASE RunTaskNoSlot \/ \E t \in Task : RunTaskNoPageDir(t) \/ RunTaskNoPage(t)
  BY <1>2, IInvHalt
<1>3. CASE Cont \/ Si
  BY <1>3, IInvResume DEF Cont, Si
<1>4. CASE Break
  BY <1>4, IInvBreak
<1>5. CASE Destroy
  BY <1>5, IInvDestroy
<1>6. CASE Syscall \/ UNCHANGED vars
  BY <1>6 DEF Syscall, vars, IInv, TypeOK, SlotListSound, RunningIsCurrent, UserRunsCurrent,
              ResumeSafe, Live, FreeSlots
<1>7. CASE GetChar \/ KeyComes
  BY <1>7, IInvKeys
<1> QED
  BY <1>1, <1>2, <1>3, <1>4, <1>5, <1>6, <1>7 DEF Next

\* The inductive invariant holds of every behaviour.
THEOREM Inductive == Spec => []IInv
BY IInvInit, IInvStep, PTL DEF Spec

(***************************************************************************)
(* The task table, Task::current and the CPU keep their types.              *)
(***************************************************************************)
THEOREM TypeCorrect == Spec => []TypeOK
BY Inductive, PTL DEF IInv

(***************************************************************************)
(* For any number of slots, Task::freeList holds the free slots, each once. *)
(***************************************************************************)
THEOREM SlotListCorrect == Spec => []SlotListSound
BY Inductive, PTL DEF IInv

(***************************************************************************)
(* The one task of status running is Task::current, as long as the kernel   *)
(* lives.                                                                   *)
(***************************************************************************)
THEOREM RunningCorrect == Spec => []RunningIsCurrent
BY Inductive, PTL DEF IInv

(***************************************************************************)
(* User code runs, and waits for keys, with a current task and its page     *)
(* directory, so that trap() never follows a null Task::current.            *)
(***************************************************************************)
THEOREM UserRunsCorrect == Spec => []UserRunsCurrent
BY Inductive, PTL DEF IInv

(***************************************************************************)
(* The frame that the monitor holds for cont and si is that of the current  *)
(* task, and its page directory is loaded.                                  *)
(***************************************************************************)
THEOREM CurrentCorrect == Spec => []ResumeSafe
BY Inductive, PTL DEF IInv

(***************************************************************************)
(* A task that lost the CPU never gets it back.                             *)
(***************************************************************************)
LEMMA ReadyStep ==
  IInv /\ [Next]_vars =>
    [\A t \in Task : status[t] = "ready" => status'[t] = "ready" /\ current' # t]_vars
<1> SUFFICES ASSUME IInv, Next, NEW u \in Task, status[u] = "ready"
             PROVE  status'[u] = "ready" /\ current' # u
  BY DEF vars
<1> USE DEF IInv
<1>1. Live /\ u # current /\ TypeOK
  BY DEF Next, RunTask, RunTaskNoPageDir, RunTaskNoPage, RunTaskNoSlot, Cont, Si, Resume,
         Break, Destroy, Syscall, GetChar, KeyComes, Live, Halted, RunningIsCurrent
<1>2. \A st \in [Task -> Status] : st[u] = "ready" => Yield(st)[u] = "ready"
  BY <1>1 DEF Yield
<1>3. ASSUME NEW t \in Task, RunTask(t) \/ RunTaskNoPageDir(t) \/ RunTaskNoPage(t)
      PROVE  status'[u] = "ready" /\ current' # u
  <2>1. t # u
    BY <1>3, HeadFree DEF RunTask, RunTaskNoPageDir, RunTaskNoPage
  <2>2. [status EXCEPT ![t] = "ready"] \in [Task -> Status]
    BY <1>1 DEF TypeOK, Status
  <2>3. Yield([status EXCEPT ![t] = "ready"])[u] = "ready" /\ Yield(status)[u] = "ready"
    BY <1>1, <1>2, <2>2 DEF TypeOK
  <2>4. Yield([status EXCEPT ![t] = "ready"]) \in [Task -> Status]
    BY <2>2 DEF Yield, Status
  <2> QED
    BY <1>1, <1>3, <2>1, <2>2, <2>3, <2>4
    DEF RunTask, RunTaskNoPageDir, RunTaskNoPage, SwitchTo, TypeOK
<1>4. CASE RunTaskNoSlot
  BY <1>1, <1>2, <1>4 DEF RunTaskNoSlot, TypeOK
<1>5. CASE Cont \/ Si \/ Break \/ Syscall \/ GetChar \/ KeyComes
  BY <1>1, <1>5 DEF Cont, Si, Resume, Break, Syscall, GetChar, KeyComes, slots, vars
<1>6. CASE Destroy
  BY <1>1, <1>6, TaskAssumption DEF Destroy, TypeOK, Task
<1> QED
  BY <1>3, <1>4, <1>5, <1>6 DEF Next

THEOREM ReadyStaysReady == Spec => ReadyIsForever
BY Inductive, ReadyStep, PTL DEF Spec, ReadyIsForever
-----------------------------------------------------------------------------
(***************************************************************************)
(* TaskMemory decides with its pages what TaskLife leaves open, and adds    *)
(* nothing to what a task does: a runtask that finds its pages, or lacks    *)
(* one for a directory, a segment or the stack, is one of the outcomes of   *)
(* runtask here; and where the kernel walks into data and the pages say no  *)
(* more, no slot changes.                                                   *)
(***************************************************************************)
LEMMA MRunTaskStep ==
  ASSUME NEW t \in Task, MRunTask(t)
  PROVE  RunTask(t) \/ RunTaskNoPage(t) \/ UNCHANGED vars
BY DEF MRunTask

LEMMA MDestroyStep == MDestroy => Destroy \/ UNCHANGED vars
BY DEF MDestroy

LEMMA MNextStep == [MNext]_mvars => [Next]_vars
<1> SUFFICES ASSUME [MNext]_mvars PROVE [Next]_vars
  OBVIOUS
<1>1. ASSUME NEW t \in Task, MRunTask(t)
      PROVE  [Next]_vars
  BY <1>1, MRunTaskStep DEF Next
<1>2. ASSUME NEW t \in Task, MRunTaskNoPageDir(t)
      PROVE  [Next]_vars
  BY <1>2 DEF MRunTaskNoPageDir, Next
<1>3. CASE MRunTaskNoSlot
  BY <1>3 DEF MRunTaskNoSlot, Next
<1>4. CASE MDestroy
  BY <1>4, MDestroyStep DEF Next
<1>5. CASE MOther
  BY <1>5 DEF MOther, Next
<1>6. CASE UNCHANGED mvars
  BY <1>6 DEF mvars
<1> QED
  BY <1>1, <1>2, <1>3, <1>4, <1>5, <1>6 DEF MNext

(***************************************************************************)
(* The task commands with their page directories, tables and pages are      *)
(* those of TaskLife, in any memory and for any program.                    *)
(***************************************************************************)
THEOREM TaskLifeImplemented == MSpec => Spec
<1>1. MInit => Init
  BY DEF MInit
<1> QED
  BY <1>1, MNextStep, PTL DEF MSpec, Spec

(***************************************************************************)
(* So the list of slots, Task::current, the loaded page directory and the   *)
(* frame of the monitor stay right whatever becomes of the pages, even of   *)
(* those that runtask loses and that Task::free frees too early.            *)
(***************************************************************************)
THEOREM TasksSoundInMemory ==
  MSpec => /\ [](SlotListSound /\ RunningIsCurrent /\ UserRunsCurrent /\ ResumeSafe)
           /\ ReadyIsForever
BY TaskLifeImplemented, SlotListCorrect, RunningCorrect, UserRunsCorrect, CurrentCorrect,
   ReadyStaysReady, PTL
=============================================================================
