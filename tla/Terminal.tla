------------------------------ MODULE Terminal ------------------------------
(***************************************************************************)
(* What the screen of the console promises: lines of text with a cursor.    *)
(* Text goes to the cursor and goes on in the next line at the end of one;  *)
(* below the last line the text moves up.  Screen implements it in the      *)
(* linear memory of the display.                                            *)
(***************************************************************************)
EXTENDS Naturals, Sequences

CONSTANTS Rows, Cols, Glyphs

VARIABLES lines,   \* the Rows lines, from the top
          row, col \* the cursor

terminal == <<lines, row, col>>

Blank     == " "
BlankLine == [c \in 1..Cols |-> Blank]

-----------------------------------------------------------------------------
\* Operations on a terminal t with the fields lines, row and col.
NextLine(t) == IF t.row < Rows THEN [t EXCEPT !.row = @ + 1, !.col = 1]
               ELSE [t EXCEPT !.lines = Append(Tail(@), BlankLine), !.col = 1]

Written(t, g) == LET marked == [t EXCEPT !.lines[t.row][t.col] = g]
                 IN IF t.col < Cols THEN [marked EXCEPT !.col = @ + 1] ELSE NextLine(marked)

\* One cell back, to the end of the line above from the start of a line.
Erased(t) ==
    LET r == IF t.col > 1 THEN t.row ELSE t.row - 1
        c == IF t.col > 1 THEN t.col - 1 ELSE Cols
    IN IF r = 0 THEN t ELSE [lines |-> [t.lines EXCEPT ![r][c] = Blank], row |-> r, col |-> c]

\* Four blanks.
Tabbed(t) == LET Space(u) == Written(u, Blank) IN Space(Space(Space(Space(t))))

-----------------------------------------------------------------------------
Now == [lines |-> lines, row |-> row, col |-> col]

Becomes(t) == lines' = t.lines /\ row' = t.row /\ col' = t.col

Init == /\ lines = [r \in 1..Rows |-> BlankLine]
        /\ row \in 1..Rows /\ col \in 1..Cols

Write     == \E g \in Glyphs : Becomes(Written(Now, g))
Tab       == Becomes(Tabbed(Now))
NewLine   == Becomes(NextLine(Now))
Return    == Becomes([Now EXCEPT !.col = 1])
Backspace == Becomes(Erased(Now))
Clear     == Becomes([lines |-> [r \in 1..Rows |-> BlankLine], row |-> 1, col |-> 1])

Next == Write \/ Tab \/ NewLine \/ Return \/ Backspace \/ Clear

Spec == Init /\ [][Next]_terminal
=============================================================================
