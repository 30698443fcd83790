------------------------------ MODULE Console ------------------------------
(***************************************************************************)
(* The console as its users see it: text that the kernel or a program       *)
(* prints, and readline (kernel/readline.cc and user/lib/readline.cc), which *)
(* edits a line in a static buffer and echoes it on the screen.  Programs    *)
(* print through a buffer of their own and the system call putString.       *)
(*                                                                          *)
(* While a line is read nothing else runs: the monitor reads in the kernel, *)
(* a program waits in the system call getChar with interrupts off.          *)
(***************************************************************************)
EXTENDS Screen, SequencesExt

CONSTANTS Readers,      \* those who read lines, among "monitor" and "program"
          Keys,         \* the keys of the model, of which "UP" is above 127
          Texts,        \* the texts that are printed, as sequences of Chars
          LineBufSize,  \* READLINE_BUF_SIZE, 4096
          PrintBufSize  \* PrintBuf::maxCount, 256

ASSUME ConsoleAssumption == /\ Readers \subseteq {"monitor", "program"}
                            /\ Keys \subseteq Chars \cup {"UP"}
                            /\ \A t \in Texts : t \in Seq(Chars)
                            /\ LineBufSize \in Nat \ {0}
                            /\ PrintBufSize \in Nat \ {0, 1}

VARIABLES pc,       \* away, printing, reading, or panic
          reader,   \* who prints or reads
          after,    \* where the call of print goes on: away or reading
          todo,     \* what a program's print has yet to put into its PrintBuf
          pending,  \* PrintBuf
          queue,    \* what putString, or the kernel's print, has yet to put
          buf, idx, \* each reader's static buf, and idx of the call
          line,     \* the line as the person has edited it, per reader
          above     \* what stands left of the cursor once the prompt is printed

printing == <<after, todo, pending, queue>>
edit     == <<buf, idx, line>>
vars     == <<screen, pc, reader, printing, edit, above>>

-----------------------------------------------------------------------------
Cells(s) == [i \in 1..s.pos |-> s.buffer[i - 1]]

\* The screen s after the characters of text.
Shown(s, text) ==
    LET put[k \in 0..Len(text)] == IF k = 0 THEN s ELSE PutChar(put[k-1], text[k])
    IN put[Len(text)]

\* Last n elements.
Tip(s, n) == SubSeq(s, Len(s) - n + 1, Len(s))

\* The line as a C string.
CString(b) == LET ends == {i \in DOMAIN b : b[i] = "NUL"}
                  len  == IF ends = {} THEN LineBufSize ELSE CHOOSE i \in ends : \A j \in ends : i <= j
              IN [i \in 1..len |-> b[i - 1]]

-----------------------------------------------------------------------------
Init == /\ InitScreen
        /\ pc = "away" /\ reader \in Readers
        /\ after = "away" /\ todo = <<>> /\ pending = <<>> /\ queue = <<>>
        /\ buf = [w \in Readers |-> [i \in 0..LineBufSize-1 |-> "NUL"]]
        /\ idx = 0
        /\ line = [w \in Readers |-> <<>>]
        /\ above = <<>>

\* The command clear of the monitor.
ClearScreen ==
    /\ pc = "away"
    /\ "monitor" \in Readers
    /\ Clear
    /\ UNCHANGED <<pc, reader, printing, edit, above>>

\* printVa; readline's prompt when it is to be followed by a line.
StartPrint(who, text, then) ==
    /\ pc = "away"
    /\ pc' = "printing" /\ reader' = who /\ after' = then
    /\ IF who = "program" THEN todo' = text /\ queue' = <<>>
       ELSE todo' = <<>> /\ queue' = text
    /\ idx' = 0
    /\ line' = IF then = "reading" THEN [line EXCEPT ![who] = <<>>] ELSE line
    /\ above' = Cells(Shown(TheScreen, text))
    /\ UNCHANGED <<screen, pending, buf>>

\* PrintBuf::putChar, which flushes the buffer when all but one cell is used.
Format ==
    LET full == Append(pending, Head(todo))
    IN /\ pc = "printing" /\ queue = <<>> /\ todo # <<>>
       /\ todo' = Tail(todo)
       /\ IF Head(todo) = "NUL" THEN UNCHANGED <<pending, queue>>
          ELSE IF Len(full) = PrintBufSize - 1 THEN queue' = full /\ pending' = <<>>
          ELSE pending' = full /\ UNCHANGED queue
       /\ UNCHANGED <<screen, pc, reader, after, edit, above>>

\* The loop of putString, or of the kernel's own printing.
PutNext ==
    /\ pc = "printing" /\ queue # <<>>
    /\ Put(Head(queue))
    /\ queue' = Tail(queue)
    /\ UNCHANGED <<pc, reader, after, todo, pending, edit, above>>

\* The flush in the end.
Flush ==
    /\ pc = "printing" /\ queue = <<>> /\ todo = <<>> /\ pending # <<>>
    /\ queue' = pending /\ pending' = <<>>
    /\ UNCHANGED <<screen, pc, reader, after, todo, edit, above>>

PrintEnds ==
    /\ pc = "printing" /\ queue = <<>> /\ todo = <<>> /\ pending = <<>>
    /\ pc' = after
    /\ UNCHANGED <<screen, reader, printing, edit, above>>

Reads(c) == pc = "reading" /\ c \in Keys

\* Seeded fault: the last cell of the buffer is used for a character.
TypeOverEnd(c) ==
    /\ Reads(c) /\ c \in Glyphs
    /\ idx < LineBufSize
    /\ Put(c)
    /\ buf' = [buf EXCEPT ![reader][idx] = c]
    /\ idx' = idx + 1
    /\ line' = [line EXCEPT ![reader] = Append(@, c)]
    /\ UNCHANGED <<pc, reader, printing, above>>

\* A printable character, as long as one more fits before the terminator.
Type(c) ==
    /\ Reads(c) /\ c \in Glyphs
    /\ idx < LineBufSize - 1
    /\ Put(c)
    /\ buf' = [buf EXCEPT ![reader][idx] = c]
    /\ idx' = idx + 1
    /\ line' = [line EXCEPT ![reader] = Append(@, c)]
    /\ UNCHANGED <<pc, reader, printing, above>>

\* Seeded fault: an empty line may be erased further.
EraseAlways ==
    /\ Reads("BS")
    /\ Put("BS")
    /\ idx' = IF idx > 0 THEN idx - 1 ELSE 0
    /\ line' = [line EXCEPT ![reader] = IF idx > 0 THEN Front(@) ELSE @]
    /\ UNCHANGED <<pc, reader, printing, buf, above>>

Erase ==
    /\ Reads("BS")
    /\ idx > 0
    /\ Put("BS")
    /\ idx' = idx - 1
    /\ line' = [line EXCEPT ![reader] = Front(@)]
    /\ UNCHANGED <<pc, reader, printing, buf, above>>

\* Seeded fault: no terminator is written.
EnterUnterminated(c) ==
    /\ Reads(c) /\ c \in {"CR", "LF"}
    /\ Put("LF")
    /\ pc' = "away"
    /\ UNCHANGED <<reader, printing, edit, above>>

Enter(c) ==
    /\ Reads(c) /\ c \in {"CR", "LF"}
    /\ Put("LF")
    /\ buf' = [buf EXCEPT ![reader][idx] = "NUL"]
    /\ pc' = "away"
    /\ UNCHANGED <<reader, printing, idx, line, above>>

(***************************************************************************)
(* An arrow, Home, End and the like.  stdin.hh:15 declares getChar as       *)
(* returning char, so that readline takes the codes above 127 for negative  *)
(* ones.  The kernel panics; a program drops the key.                       *)
(***************************************************************************)
SpecialKey ==
    /\ Reads("UP")
    /\ pc' = IF reader = "monitor" THEN "panic" ELSE pc
    /\ UNCHANGED <<screen, reader, printing, edit, above>>

\* Any other key, and one that does not fit, changes nothing.
Next == \/ \E who \in Readers, t \in Texts, then \in {"away", "reading"} : StartPrint(who, t, then)
        \/ Format \/ PutNext \/ Flush \/ PrintEnds
        \/ ClearScreen
        \/ \E c \in Keys : Type(c) \/ Enter(c)
        \/ Erase \/ SpecialKey

Spec == Init /\ [][Next]_vars

-----------------------------------------------------------------------------
\* Shape of the state; idx leaves room for the terminator.
TypeOK == /\ ScreenTypeOK
          /\ pc \in {"away", "printing", "reading", "panic"} /\ reader \in Readers
          /\ Len(pending) < PrintBufSize
          /\ idx \in 0..LineBufSize-1
          /\ \A w \in Readers : /\ DOMAIN buf[w] = 0..LineBufSize-1
                                /\ \A i \in DOMAIN buf[w] : buf[w][i] \in Glyphs \cup {"NUL"}

(***************************************************************************)
(* While a line is edited the screen shows, left of the cursor, what was    *)
(* there when the prompt had been printed and then the line, as far as it   *)
(* fits on the screen, and nothing right of it: through wrapped lines,      *)
(* scrolling, and erasing over the end of a row (readline.cc:28-43,         *)
(* console.cc:156-192, user/lib/printf.cc:17-30).                           *)
(***************************************************************************)
EchoShowsLine ==
    pc = "reading" =>
        LET wanted == above \o line[reader]
        IN /\ pos <= Len(wanted)
           /\ Cells(TheScreen) = Tip(wanted, pos)
           /\ \A p \in pos..Size-1 : buffer[p] = " "

(***************************************************************************)
(* The string that readline returned is the line as it was edited, whatever *)
(* longer line stood in the static buffer before, and stays so until the    *)
(* same reader reads again (readline.cc:32-45).                             *)
(***************************************************************************)
LineReturned == \A w \in Readers : (pc # "away" /\ reader = w) \/ CString(buf[w]) = line[w]

(***************************************************************************)
(* readline.cc:31, kernelPanic(`Illegal input`): the code takes it for      *)
(* impossible that getChar returns less than 0.                             *)
(***************************************************************************)
NoIllegalInput == pc # "panic"
=============================================================================
