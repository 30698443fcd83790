------------------------------ MODULE TaskLife ------------------------------
(***************************************************************************)
(* The life of the user tasks: who owns the CPU, which address space is     *)
(* loaded, and what the monitor may resume (kernel/task.cc, kernel/trap.cc, *)
(* kernel/ksyscall.cc, and the monitor commands runtask, cont and si).      *)
(*                                                                          *)
(* One CPU runs the kernel with interrupts disabled (trap.cc:84), so the    *)
(* kernel's part of a trap, from the trap to the iret or to the prompt of   *)
(* the monitor, is one step.  Between two steps the machine is in user      *)
(* mode, waits at the prompt, or waits for a key in the syscall getChar.    *)
(* Memory is abstracted to whether an allocation succeeds; TaskMemory       *)
(* refines this module with the pages.                                      *)
(***************************************************************************)
EXTENDS FreeList

CONSTANTS NTasks,   \* Task::maxCount
          NoTask    \* nullptr; as an address space, kernelPageDir

ASSUME TaskAssumption == /\ NTasks \in Nat /\ NTasks > 0
                         /\ NoTask \notin 0..NTasks-1

Task    == 0..NTasks-1
TaskRef == Task \cup {NoTask}

VARIABLES status,    \* Task::status, one of Status
          nextFree,  \* Task::nextFree
          freeTask,  \* Task::freeList
          stepping,  \* FL_TF in the eflags of each Task::trapFrame
          current,   \* Task::current
          cr3,       \* the task whose page directory is loaded
          mode,      \* where the CPU is, one of Mode
          frame      \* argument tf of the running monitor::main: the task whose
                     \* trapFrame it points to

slots == <<status, nextFree, freeTask>>
vars  == <<status, nextFree, freeTask, stepping, current, cr3, mode, frame>>

Status == {"free", "ready", "running"}      \* dying and waiting are never assigned
\* The halted modes: a trap taken in the kernel, and kernelPanic in regionAlloc.
Halted == {"fault", "panic"}
\* keys: in::getChar polls the keyboard for the current task, in the kernel.
Mode   == {"monitor", "user", "keys"} \cup Halted

\* Seeded fault: the last slot links to a slot that does not exist.
InitPastEnd ==
        /\ status = [t \in Task |-> "free"]
        /\ nextFree = [t \in Task |-> t + 1]
        /\ freeTask = 0
        /\ stepping = [t \in Task |-> FALSE]
        /\ current = NoTask
        /\ cr3 = NoTask
        /\ mode = "monitor"
        /\ frame = NoTask

\* task::init builds the list from the last slot down; then monitor::main(nullptr).
Init == /\ status = [t \in Task |-> "free"]
        /\ nextFree = [t \in Task |-> IF t = NTasks - 1 THEN NoTask ELSE t + 1]
        /\ freeTask = 0
        /\ stepping = [t \in Task |-> FALSE]
        /\ current = NoTask
        /\ cr3 = NoTask
        /\ mode = "monitor"
        /\ frame = NoTask

-----------------------------------------------------------------------------
(***************************************************************************)
(* Task::run leaves the task that had the CPU ready.                        *)
(***************************************************************************)
\* Seeded fault: the outgoing task keeps its status.
YieldNothing(st) == st

Yield(st) ==
    IF current # NoTask /\ st[current] = "running"
    THEN [st EXCEPT ![current] = "ready"] ELSE st

\* Seeded fault: the new page directory is not loaded.
SwitchToNoLoad(t, st) ==
    /\ status' = [Yield(st) EXCEPT ![t] = "running"]
    /\ current' = t
    /\ UNCHANGED cr3

\* Task::run of a task other than the current one.
SwitchTo(t, st) ==
    /\ status' = [Yield(st) EXCEPT ![t] = "running"]
    /\ current' = t
    /\ cr3' = t

(***************************************************************************)
(* runtask with a free slot and memory: Task::alloc takes the slot and      *)
(* clears its trapFrame, loadElf loads the program and returns to           *)
(* kernelPageDir, and Task::run starts the task.                            *)
(***************************************************************************)
RunTask(t) ==
    /\ mode = "monitor"
    /\ freeTask = t
    /\ freeTask' = nextFree[t]
    /\ stepping' = [stepping EXCEPT ![t] = FALSE]
    /\ SwitchTo(t, [status EXCEPT ![t] = "ready"])
    /\ mode' = "user"
    /\ frame' = NoTask
    /\ UNCHANGED nextFree

(***************************************************************************)
(* runtask does not look at the Result of Task::create.  When there is no   *)
(* free slot, or no page for the page directory, it calls run on a null     *)
(* Task: the kernel reads or writes page 0, which is not mapped, and panics *)
(* in its own page fault.  Task::run has already made the current task      *)
(* ready.  A slot taken before setupMemory failed stays off the list; its   *)
(* status is free if the first setupMemory failed and ready otherwise.      *)
(***************************************************************************)
RunTaskNoSlot ==
    /\ mode = "monitor"
    /\ freeTask = NoTask
    /\ status' = Yield(status)
    /\ mode' = "fault"
    /\ UNCHANGED <<nextFree, freeTask, stepping, current, cr3, frame>>

RunTaskNoPageDir(t) ==
    /\ mode = "monitor"
    /\ freeTask = t
    /\ freeTask' = nextFree[t]
    /\ \/ /\ status' = Yield(status)
          /\ UNCHANGED stepping
       \/ /\ status' = Yield([status EXCEPT ![t] = "ready"])
          /\ stepping' = [stepping EXCEPT ![t] = FALSE]
    /\ mode' = "fault"
    /\ UNCHANGED <<nextFree, current, cr3, frame>>

(***************************************************************************)
(* runtask when regionAlloc finds no page: kernelPanic, in loadElf with the *)
(* new page directory loaded for a segment, and with kernelPageDir loaded   *)
(* for the stack.                                                           *)
(***************************************************************************)
RunTaskNoPage(t) ==
    /\ mode = "monitor"
    /\ freeTask = t
    /\ freeTask' = nextFree[t]
    /\ status' = [status EXCEPT ![t] = "ready"]
    /\ stepping' = [stepping EXCEPT ![t] = FALSE]
    /\ cr3' \in {t, NoTask}
    /\ mode' = "panic"
    /\ UNCHANGED <<nextFree, current, frame>>

(***************************************************************************)
(* cont and si pop the trapFrame that the monitor was entered with.  They   *)
(* load no page directory and touch neither status nor current.  With no    *)
(* frame they return noSuchTask to the prompt, which changes nothing.       *)
(***************************************************************************)
Resume(step) ==
    /\ mode = "monitor"
    /\ frame # NoTask
    /\ stepping' = [stepping EXCEPT ![frame] = step]
    /\ mode' = "user"
    /\ frame' = NoTask
    /\ UNCHANGED <<slots, current, cr3>>

Cont == Resume(FALSE)
Si   == Resume(TRUE)

\* Seeded fault: a task that stops at the prompt loses its status, as in Task::run.
BreakYields ==
    /\ mode = "user"
    /\ mode' = "monitor"
    /\ frame' = current
    /\ status' = Yield(status)
    /\ UNCHANGED <<nextFree, freeTask, stepping, current, cr3>>

(***************************************************************************)
(* Breakpoint, debug exception and every other trap from user mode but page *)
(* fault and syscall: the frame is saved in the current task and the        *)
(* monitor starts with it.                                                  *)
(***************************************************************************)
Break ==
    /\ mode = "user"
    /\ mode' = "monitor"
    /\ frame' = current
    /\ UNCHANGED <<slots, stepping, current, cr3>>

(***************************************************************************)
(* Task::destroy of the current task: page fault, exit, and putString of    *)
(* memory that the task may not read.  Task::free puts the slot at the head *)
(* of the list, and the monitor starts with no frame.                       *)
(***************************************************************************)
\* Seeded fault: Task::current keeps pointing to the freed task.
DestroyKeepsCurrent ==
    /\ mode = "user"
    /\ cr3' = NoTask
    /\ status' = [status EXCEPT ![current] = "free"]
    /\ nextFree' = [nextFree EXCEPT ![current] = freeTask]
    /\ freeTask' = current
    /\ mode' = "monitor"
    /\ frame' = NoTask
    /\ UNCHANGED <<stepping, current>>

\* Seeded fault: the slot is not put back on the list.
DestroyLosesSlot ==
    /\ mode = "user"
    /\ current' = NoTask
    /\ cr3' = NoTask
    /\ status' = [status EXCEPT ![current] = "free"]
    /\ mode' = "monitor"
    /\ frame' = NoTask
    /\ UNCHANGED <<stepping, nextFree, freeTask>>

Destroy ==
    /\ mode = "user"
    /\ current' = NoTask
    /\ cr3' = NoTask
    /\ status' = [status EXCEPT ![current] = "free"]
    /\ nextFree' = [nextFree EXCEPT ![current] = freeTask]
    /\ freeTask' = current
    /\ mode' = "monitor"
    /\ frame' = NoTask
    /\ UNCHANGED stepping


(***************************************************************************)
(* A syscall that returns at once (putChar, putString, unknown numbers):    *)
(* trap() saves the frame, dispatches and runs the current task again,      *)
(* which for the current task switches nothing.                             *)
(***************************************************************************)
Syscall ==
    /\ mode = "user"
    /\ UNCHANGED vars

(***************************************************************************)
(* The syscall getChar polls, with interrupts disabled, until getNextChar   *)
(* has a character; then trap() runs the current task again.  No key need   *)
(* come: the user may press none, and a byte of the mouse keeps all later   *)
(* ones in the controller (Keyboard).                                       *)
(***************************************************************************)
GetChar ==
    /\ mode = "user"
    /\ mode' = "keys"
    /\ UNCHANGED <<slots, stepping, current, cr3, frame>>

KeyComes ==
    /\ mode = "keys"
    /\ mode' = "user"
    /\ UNCHANGED <<slots, stepping, current, cr3, frame>>

Next == \/ \E t \in Task : RunTask(t) \/ RunTaskNoPageDir(t) \/ RunTaskNoPage(t)
        \/ RunTaskNoSlot
        \/ Cont \/ Si \/ Break \/ Destroy \/ Syscall \/ GetChar \/ KeyComes

Spec == Init /\ [][Next]_vars

(***************************************************************************)
(* A task with FL_TF set traps after each instruction that is no syscall,   *)
(* and a program cannot execute syscall instructions only.  It may wait for *)
(* a key between any two of them, so the fairness is strong: a task that is *)
(* in user mode again and again traps.  Nothing makes a key come.           *)
(***************************************************************************)
Trapped == stepping[current] /\ (Break \/ Destroy)

FairSpec == Spec /\ SF_vars(mode = "user" /\ Trapped)

-----------------------------------------------------------------------------
Live == mode \notin Halted

\* Shape of the task table, of Task::current and of the CPU.
TypeOK == /\ status \in [Task -> Status]
          /\ nextFree \in [Task -> TaskRef]
          /\ freeTask \in TaskRef
          /\ stepping \in [Task -> BOOLEAN]
          /\ current \in TaskRef
          /\ cr3 \in TaskRef
          /\ mode \in Mode
          /\ frame \in TaskRef

FreeSlots == {t \in Task : status[t] = "free"}

(***************************************************************************)
(* Task::freeList (task.cc:75-78 and 150-152) holds exactly the slots of    *)
(* status free, each once: a slot is never given to two tasks, and none is  *)
(* lost while the kernel lives.                                             *)
(***************************************************************************)
SlotListSound == Live => IsListOf(freeTask, nextFree, NoTask, FreeSlots)

(***************************************************************************)
(* Task::current is the one task of status running: run and destroy change  *)
(* the two in different places (task.cc:223-226 and 237-238, 150).          *)
(***************************************************************************)
RunningIsCurrent == Live => \A t \in Task : status[t] = "running" <=> t = current

(***************************************************************************)
(* In user mode there is a current task and its page directory is loaded,   *)
(* so that trap() saves the frame in the task that was running (trap.cc:87  *)
(* dereferences Task::current without a check), and so they are while a     *)
(* syscall waits for a key, so that trap() runs the task that asked for it. *)
(***************************************************************************)
UserRunsCurrent == mode \in {"user", "keys"} => current # NoTask /\ cr3 = current

(***************************************************************************)
(* cont and si pop a frame without loading a page directory                 *)
(* (monitor.cc:103-120): the frame the monitor holds is that of the current *)
(* task, whose page directory is loaded; without a frame there is no        *)
(* current task, and kernelPageDir is loaded.                               *)
(***************************************************************************)
ResumeSafe == mode = "monitor" => frame = current /\ cr3 = current

(***************************************************************************)
(* A task that loses the CPU to another runtask stays ready for good:       *)
(* nothing runs it again and nothing frees its slot (there is no            *)
(* scheduler).                                                              *)
(***************************************************************************)
ReadyIsForever ==
    [][\A t \in Task : status[t] = "ready" => status'[t] = "ready" /\ current' # t]_vars

=============================================================================
