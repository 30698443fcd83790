---------------------------- MODULE MCTaskMemory ----------------------------
(***************************************************************************)
(* TaskMemory with pages of five words: the program lies in the first       *)
(* table, the boot test page in the second and the stack in the third, the  *)
(* order of their addresses in the code.  The text begins within a page and *)
(* ends in the next; a header with nothing to load follows, then data and   *)
(* .bss.  A task takes seven pages, and one more is lost with each runtask. *)
(***************************************************************************)
EXTENDS TaskMemory

Header(load, a, n, o, file) == [load |-> load, va |-> a, memsz |-> n, offset |-> o, filesz |-> file]

MCProgram == <<Header(TRUE, 1, 5, 1, 5), Header(FALSE, 0, 0, 0, 0), Header(TRUE, 10, 3, 10, 1)>>
MCSmallProgram == <<Header(TRUE, 1, 3, 1, 2)>>

MCTestVa  == <<1, 0>>
MCStackVa == <<2, 0>>

\* Task::array is allocated by bootAlloc after page::init.
MCTaskArray == {FirstFree}
\* Task::array set aside, to reach the end of memory.
MCNone == {}
=============================================================================
