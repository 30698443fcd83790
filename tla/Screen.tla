------------------------------- MODULE Screen -------------------------------
(***************************************************************************)
(* The text display (kernel/console.cc, console::cga): a linear buffer of   *)
(* cells and a position, on which putChar acts and which it scrolls.        *)
(* Colours are left out.  Console puts characters on it.                    *)
(***************************************************************************)
EXTENDS Naturals, Sequences

CONSTANTS Rows, Cols,  \* CRT_ROWS and CRT_COLS
          Glyphs       \* the characters that show

Controls == {"BS", "TAB", "LF", "CR", "NUL"}

ASSUME ScreenAssumption == /\ Rows \in Nat /\ Rows > 1
                           /\ Cols \in Nat /\ Cols > 0
                           /\ Glyphs \cap Controls = {}

VARIABLES buffer, pos

screen == <<buffer, pos>>

-----------------------------------------------------------------------------
Size  == Rows * Cols    \* CRT_SIZE
Chars == Glyphs \cup Controls

\* The switch of putChar, the tabulator excepted.
Marked(s, c) ==
    CASE c = "BS"  -> IF s.pos > 0
                      THEN [buffer |-> [s.buffer EXCEPT ![s.pos - 1] = " "], pos |-> s.pos - 1]
                      ELSE s
      [] c = "LF"  -> [s EXCEPT !.pos = ((s.pos + Cols) \div Cols) * Cols]
      [] c = "CR"  -> [s EXCEPT !.pos = (s.pos \div Cols) * Cols]
      [] c = "NUL" -> s
      [] OTHER     -> [buffer |-> [s.buffer EXCEPT ![s.pos] = c], pos |-> s.pos + 1]

\* mem::copy of row i + 1 to row i.
CopyRow(b, i) == [p \in DOMAIN b |-> IF p \div Cols = i THEN b[p + Cols] ELSE b[p]]

\* Seeded fault: the rows are copied from the last one up.
MovedUpFromBelow(b) ==
    LET after[k \in 0..Rows-1] == IF k = 0 THEN b ELSE CopyRow(after[k-1], Rows-1-k)
    IN after[Rows-1]

\* The rows are copied from the top down; after[k] is the buffer after k of them.
MovedUp(b) ==
    LET after[k \in 0..Rows-1] == IF k = 0 THEN b ELSE CopyRow(after[k-1], k-1)
    IN after[Rows-1]

\* When the position has reached the end, the text moves up and the last row is blanked.
Scrolled(s) ==
    LET moved == MovedUp(s.buffer)
    IN IF s.pos # Size THEN s
       ELSE [buffer |-> [p \in 0..Size-1 |-> IF p >= Size - Cols THEN " " ELSE moved[p]],
             pos    |-> s.pos - Cols]

\* putChar; a tabulator is four spaces, each put by a call of its own.
PutChar(s, c) ==
    LET Space(t) == Scrolled(Marked(t, " "))
    IN Scrolled(IF c = "TAB" THEN Space(Space(Space(Space(s)))) ELSE Marked(s, c))

AllBlank == [p \in 0..Size-1 |-> " "]

-----------------------------------------------------------------------------
TheScreen == [buffer |-> buffer, pos |-> pos]

Shows(s) == buffer' = s.buffer /\ pos' = s.pos

\* cga::init takes the position from the BIOS, whose text is not modelled.
InitScreen == buffer = AllBlank /\ pos \in 0..Size-1

Put(c) == Shows(PutChar(TheScreen, c))

Clear == Shows([buffer |-> AllBlank, pos |-> 0])

-----------------------------------------------------------------------------
\* The position is always inside the buffer, also between two characters, so
\* that putChar writes nowhere else.
ScreenTypeOK == /\ pos \in 0..Size-1
                /\ DOMAIN buffer = 0..Size-1
                /\ \A p \in DOMAIN buffer : buffer[p] \in Glyphs \cup {" "}

\* The buffer cut into rows, and the position as a row and a column.
Promised == INSTANCE Terminal WITH
    lines <- [r \in 1..Rows |-> [c \in 1..Cols |-> buffer[(r - 1) * Cols + c - 1]]],
    row   <- (pos \div Cols) + 1,
    col   <- (pos % Cols) + 1

(***************************************************************************)
(* console.cc:156-205: with its linear position, the fall-through of the    *)
(* line feed, the recursion of the tabulator and its copying of rows, the   *)
(* display behaves as a terminal does.                                      *)
(***************************************************************************)
ImplementsTerminal == Promised!Spec
=============================================================================
