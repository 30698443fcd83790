--------------------------- MODULE ConsoleProofs ---------------------------
(***************************************************************************)
(* Theorems about Console, for screens and buffers of any size, any texts   *)
(* and any keys: readline returns the line as it was edited, and the        *)
(* display buffer behaves as lines of text with a cursor.                   *)
(***************************************************************************)
EXTENDS Console, SequenceTheorems, FreeListProofs

\* The call of w that is under way, of which buf[w] has no terminator yet.
Active(w) == /\ w = reader
             /\ \/ pc \in {"reading", "panic"}
                \/ pc = "printing" /\ after = "reading"

Typed == /\ pc \in {"away", "printing", "reading", "panic"}
         /\ reader \in Readers
         /\ after \in {"away", "reading"}
         /\ idx \in 0..LineBufSize-1
         /\ buf \in [Readers -> [0..LineBufSize-1 -> Glyphs \cup {"NUL"}]]
         /\ line \in [Readers -> Seq(Glyphs)]

\* The buffer b begins with the line l and has room for a terminator.
BeginsWith(b, l) == /\ Len(l) < LineBufSize
                    /\ \A k \in 1..Len(l) : b[k - 1] = l[k]

(***************************************************************************)
(* LineReturned says nothing about a line that is being edited.  It is made *)
(* inductive by what the loop of readline maintains: the buffer begins with *)
(* the line at all times, and idx is its length.                            *)
(***************************************************************************)
IInv == /\ Typed
        /\ \A w \in Readers : BeginsWith(buf[w], line[w])
        /\ \A w \in Readers : Active(w) \/ buf[w][Len(line[w])] = "NUL"
        /\ Active(reader) => idx = Len(line[reader])

-----------------------------------------------------------------------------
\* A C string ends at the first terminator.
LEMMA Terminated ==
    ASSUME NEW b \in [0..LineBufSize-1 -> Glyphs \cup {"NUL"}], NEW l \in Seq(Glyphs),
           BeginsWith(b, l), b[Len(l)] = "NUL"
    PROVE  CString(b) = l
<1> DEFINE ends == {k \in DOMAIN b : b[k] = "NUL"}
           First(k) == \A j \in ends : k <= j
<1>1. LineBufSize \in Nat \ {0} /\ "NUL" \notin Glyphs
  BY ConsoleAssumption, ScreenAssumption DEF Controls
<1>2. DOMAIN b = 0..LineBufSize-1 /\ Len(l) \in Nat /\ Len(l) < LineBufSize
  BY DEF BeginsWith
<1>3. Len(l) \in ends
  BY <1>1, <1>2
<1>4. \A j \in ends : Len(l) <= j
  <2> SUFFICES ASSUME NEW j \in ends, j < Len(l) PROVE FALSE
    BY <1>1, <1>2
  <2>1. j \in Nat /\ j + 1 \in 1..Len(l)
    BY <1>1, <1>2
  <2>2. b[j] = l[j + 1]
    BY <2>1 DEF BeginsWith
  <2>3. l[j + 1] \in Glyphs
    BY <2>1
  <2> QED
    BY <1>1, <2>2, <2>3
<1>5. \A k \in ends : First(k) => k = Len(l)
  BY <1>1, <1>2, <1>3, <1>4
<1>6. (CHOOSE k \in ends : First(k)) = Len(l)
  BY <1>3, <1>4, <1>5
<1>7. CString(b) = [k \in 1..Len(l) |-> b[k - 1]]
  BY <1>3, <1>6 DEF CString
<1>8. l = [k \in 1..Len(l) |-> l[k]]
  OBVIOUS
<1> QED
  BY <1>7, <1>8 DEF BeginsWith

LEMMA IInvInit == Init => IInv
<1> SUFFICES ASSUME Init PROVE IInv
  OBVIOUS
<1>1. LineBufSize \in Nat \ {0}
  BY ConsoleAssumption
<1>2. Typed
  BY <1>1 DEF Init, Typed
<1>3. \A w \in Readers : line[w] = <<>> /\ buf[w] = [i \in 0..LineBufSize-1 |-> "NUL"]
  BY DEF Init
<1> QED
  BY <1>1, <1>2, <1>3 DEF Init, IInv, BeginsWith, Active

-----------------------------------------------------------------------------
\* One lemma for each kind of step: those that leave buffers and lines alone,
\* the call, and the keys that edit.
LEMMA IInvQuiet ==
    ASSUME IInv, Typed', UNCHANGED <<reader, edit>>, Active(reader)' = Active(reader)
    PROVE  IInv'
<1>1. \A w \in Readers : Active(w)' <=> Active(w)
  BY DEF Active
<1> QED
  BY <1>1 DEF IInv, edit, BeginsWith

LEMMA IInvPrint ==
    ASSUME IInv, NEW who \in Readers, NEW t \in Texts, NEW then \in {"away", "reading"},
           StartPrint(who, t, then)
    PROVE  IInv'
<1>1. LineBufSize \in Nat \ {0}
  BY ConsoleAssumption
<1>2. /\ pc = "away" /\ pc' = "printing" /\ reader' = who /\ after' = then /\ idx' = 0
      /\ buf' = buf
      /\ line' = IF then = "reading" THEN [line EXCEPT ![who] = <<>>] ELSE line
  BY DEF StartPrint
<1>3. Typed'
  BY <1>1, <1>2 DEF IInv, Typed
<1>4. \A w \in Readers : line'[w] = line[w] \/ (w = who /\ then = "reading" /\ line'[w] = <<>>)
  BY <1>2 DEF IInv, Typed
<1>5. \A w \in Readers : ~Active(w)
  BY <1>2 DEF Active
<1>6. ASSUME NEW w \in Readers PROVE BeginsWith(buf'[w], line'[w])
  BY <1>1, <1>2, <1>4 DEF IInv, BeginsWith
<1>7. ASSUME NEW w \in Readers PROVE Active(w)' \/ buf'[w][Len(line'[w])] = "NUL"
  BY <1>2, <1>4, <1>5 DEF IInv, Active
<1>8. Active(reader)' => idx' = Len(line'[reader'])
  BY <1>2 DEF IInv, Typed, Active
<1> QED
  BY <1>3, <1>6, <1>7, <1>8 DEF IInv

LEMMA IInvType ==
    ASSUME IInv, NEW c \in Keys, Type(c)
    PROVE  IInv'
<1>1. LineBufSize \in Nat \ {0}
  BY ConsoleAssumption
<1>2. /\ pc = "reading" /\ pc' = pc /\ reader' = reader /\ after' = after /\ c \in Glyphs
      /\ idx < LineBufSize - 1 /\ idx' = idx + 1
      /\ buf' = [buf EXCEPT ![reader][idx] = c]
      /\ line' = [line EXCEPT ![reader] = Append(@, c)]
  BY DEF Type, Reads, printing
<1>3. Typed /\ Active(reader) /\ idx = Len(line[reader])
  BY <1>2 DEF IInv, Active
<1>4. Typed'
  BY <1>1, <1>2, <1>3 DEF Typed
<1>5. \A w \in Readers : w # reader => buf'[w] = buf[w] /\ line'[w] = line[w]
  BY <1>2, <1>3 DEF Typed
<1>6. /\ line'[reader] = Append(line[reader], c)
      /\ buf'[reader] = [buf[reader] EXCEPT ![idx] = c]
      /\ DOMAIN buf[reader] = 0..LineBufSize-1
      /\ line[reader] \in Seq(Glyphs)
  BY <1>2, <1>3 DEF Typed
<1>7. BeginsWith(buf'[reader], line'[reader])
  <2>1. BeginsWith(buf[reader], line[reader])
    BY <1>3 DEF IInv, Typed
  <2> QED
    BY <1>1, <1>2, <1>3, <1>6, <2>1 DEF BeginsWith
<1>8. \A w \in Readers : Active(w)' <=> Active(w)
  BY <1>2 DEF Active
<1>9. idx' = Len(line'[reader])
  BY <1>2, <1>3, <1>6
<1> QED
  BY <1>2, <1>3, <1>4, <1>5, <1>7, <1>8, <1>9 DEF IInv

LEMMA IInvErase ==
    ASSUME IInv, Erase
    PROVE  IInv'
<1>1. LineBufSize \in Nat \ {0}
  BY ConsoleAssumption
<1>2. /\ pc = "reading" /\ pc' = pc /\ reader' = reader /\ after' = after
      /\ idx > 0 /\ idx' = idx - 1 /\ buf' = buf
      /\ line' = [line EXCEPT ![reader] = Front(@)]
  BY DEF Erase, Reads, printing
<1>3. Typed /\ Active(reader) /\ idx = Len(line[reader])
  BY <1>2 DEF IInv, Active
<1>4. line[reader] \in Seq(Glyphs) /\ line'[reader] = SubSeq(line[reader], 1, Len(line[reader]) - 1)
  BY <1>2, <1>3 DEF Typed, Front
<1>5. /\ line'[reader] \in Seq(Glyphs) /\ Len(line'[reader]) = idx - 1
      /\ \A k \in 1..idx-1 : line'[reader][k] = line[reader][k]
  BY <1>2, <1>3, <1>4
<1>6. \A w \in Readers : w # reader => line'[w] = line[w]
  BY <1>2, <1>3 DEF Typed
<1>7. Typed'
  BY <1>1, <1>2, <1>3, <1>5 DEF Typed
<1>8. BeginsWith(buf'[reader], line'[reader])
  <2>1. BeginsWith(buf[reader], line[reader])
    BY <1>3 DEF IInv, Typed
  <2> QED
    BY <1>1, <1>2, <1>3, <1>5, <2>1 DEF BeginsWith, Typed
<1>9. \A w \in Readers : Active(w)' <=> Active(w)
  BY <1>2 DEF Active
<1> QED
  BY <1>2, <1>3, <1>5, <1>6, <1>7, <1>8, <1>9 DEF IInv

LEMMA IInvEnter ==
    ASSUME IInv, NEW c \in Keys, Enter(c)
    PROVE  IInv'
<1>1. LineBufSize \in Nat \ {0}
  BY ConsoleAssumption
<1>2. /\ pc = "reading" /\ pc' = "away" /\ reader' = reader /\ after' = after
      /\ idx' = idx /\ line' = line
      /\ buf' = [buf EXCEPT ![reader][idx] = "NUL"]
  BY DEF Enter, Reads, printing
<1>3. Typed /\ Active(reader) /\ idx = Len(line[reader])
  BY <1>2 DEF IInv, Active
<1>4. Typed'
  BY <1>1, <1>2, <1>3 DEF Typed
<1>5. \A w \in Readers : w # reader => buf'[w] = buf[w] /\ ~Active(w)
  BY <1>2, <1>3 DEF Typed, Active
<1>6. /\ buf'[reader] = [buf[reader] EXCEPT ![idx] = "NUL"]
      /\ DOMAIN buf[reader] = 0..LineBufSize-1
      /\ line[reader] \in Seq(Glyphs)
  BY <1>2, <1>3 DEF Typed
<1>7. BeginsWith(buf'[reader], line'[reader]) /\ buf'[reader][Len(line'[reader])] = "NUL"
  <2>1. BeginsWith(buf[reader], line[reader])
    BY <1>3 DEF IInv, Typed
  <2> QED
    BY <1>1, <1>2, <1>3, <1>6, <2>1 DEF BeginsWith, Typed
<1>8. ~Active(reader)'
  BY <1>2 DEF Active
<1> QED
  BY <1>2, <1>4, <1>5, <1>7, <1>8 DEF IInv

LEMMA IInvStep == IInv /\ [Next]_vars => IInv'
<1> SUFFICES ASSUME IInv, [Next]_vars PROVE IInv'
  OBVIOUS
<1> USE DEF edit, printing
<1>1. CASE \E who \in Readers, t \in Texts, then \in {"away", "reading"} : StartPrint(who, t, then)
  BY <1>1, IInvPrint
<1>2. CASE Format
  BY <1>2, IInvQuiet DEF Format, IInv, Typed, Active
<1>3. CASE PutNext
  BY <1>3, IInvQuiet DEF PutNext, IInv, Typed, Active
<1>4. CASE Flush
  BY <1>4, IInvQuiet DEF Flush, IInv, Typed, Active
<1>5. CASE PrintEnds
  BY <1>5, IInvQuiet DEF PrintEnds, IInv, Typed, Active
<1>6. CASE ClearScreen
  BY <1>6, IInvQuiet DEF ClearScreen, IInv, Typed, Active
<1>7. CASE \E c \in Keys : Type(c)
  BY <1>7, IInvType
<1>8. CASE \E c \in Keys : Enter(c)
  BY <1>8, IInvEnter
<1>9. CASE Erase
  BY <1>9, IInvErase
<1>10. CASE SpecialKey
  BY <1>10, IInvQuiet DEF SpecialKey, Reads, IInv, Typed, Active
<1>11. CASE UNCHANGED vars
  BY <1>11, IInvQuiet DEF vars, IInv, Typed, Active
<1> QED
  BY <1>1, <1>2, <1>3, <1>4, <1>5, <1>6, <1>7, <1>8, <1>9, <1>10, <1>11 DEF Next

-----------------------------------------------------------------------------
\* Typing, erasing and entering keep the buffer and the line together.
THEOREM LineInBuffer == Spec => []IInv
  BY IInvInit, IInvStep, PTL DEF Spec

\* Whatever readline returns is the line as it was edited, and stays so until
\* the same reader calls it again, for every size of the buffer.
THEOREM LineReturnedCorrect == Spec => []LineReturned
<1>1. IInv => LineReturned
  <2> SUFFICES ASSUME IInv, NEW w \in Readers, ~(pc # "away" /\ reader = w)
               PROVE  CString(buf[w]) = line[w]
    BY DEF LineReturned
  <2>1. ~Active(w)
    BY DEF Active
  <2> QED
    BY <2>1, Terminated DEF IInv, Typed
<1> QED
  BY <1>1, LineInBuffer, PTL

-----------------------------------------------------------------------------
(***************************************************************************)
(* The screen as rows of cells.  At is the position of the cell in row r    *)
(* and column c.                                                            *)
(***************************************************************************)
At(r, c) == (r - 1) * Cols + c - 1

Cell  == Glyphs \cup {" "}
Frame == [0..Size-1 -> Cell]

LEMMA Sizes ==
  /\ Rows \in Nat /\ Rows > 1 /\ Cols \in Nat /\ Cols > 0
  /\ Size \in Nat /\ Size = Rows * Cols /\ Size - Cols = (Rows - 1) * Cols
  /\ Size > Cols
<1>1. Rows \in Nat /\ Rows > 1 /\ Cols \in Nat /\ Cols > 0
  BY ScreenAssumption
<1>2. Size = Rows * Cols /\ Size \in Nat
  BY <1>1 DEF Size
<1>3. (Rows - 1) * Cols = Rows * Cols - Cols
  BY <1>1
<1>4. (Rows - 1) * Cols >= Cols
  BY <1>1
<1> QED
  BY <1>1, <1>2, <1>3, <1>4

\* A smaller number of rows is at least a row less.
LEMMA RowsApart ==
  ASSUME NEW a \in Int, NEW b \in Int, a < b
  PROVE  a * Cols + Cols <= b * Cols
<1>1. Cols \in Nat /\ b - a - 1 \in Nat
  BY Sizes
<1>2. (b - a - 1) * Cols >= 0
  BY <1>1
<1>3. (b - a - 1) * Cols = b * Cols - a * Cols - Cols
  BY <1>1
<1> QED
  BY <1>1, <1>2, <1>3

LEMMA Divided ==
  ASSUME NEW q \in Nat, NEW x \in 0..Cols-1
  PROVE  (q * Cols + x) \div Cols = q /\ (q * Cols + x) % Cols = x
<1> DEFINE p == q * Cols + x
           d == p \div Cols
           m == p % Cols
<1>1. Cols \in Nat /\ Cols > 0 /\ p \in Nat
  BY Sizes
<1>2. p = Cols * d + m /\ m \in 0..Cols-1 /\ d \in Int
  BY <1>1
<1>3. d * Cols = Cols * d
  BY <1>1, <1>2
<1>4. p = q * Cols + x
  OBVIOUS
<1> HIDE DEF p, d, m
<1>5. ~(d < q)
  BY <1>1, <1>2, <1>3, <1>4, RowsApart
<1>6. ~(q < d)
  BY <1>1, <1>2, <1>3, <1>4, RowsApart
<1>7. d = q
  BY <1>2, <1>5, <1>6
<1>8. m = x
  BY <1>1, <1>2, <1>3, <1>4, <1>7
<1> QED
  BY <1>7, <1>8 DEF p, d, m

LEMMA Place ==
  ASSUME NEW r \in 1..Rows, NEW c \in 1..Cols
  PROVE  /\ At(r, c) \in 0..Size-1
         /\ At(r, c) \div Cols = r - 1 /\ At(r, c) % Cols = c - 1
         /\ At(r, c) < Size - Cols <=> r < Rows
<1>1. r - 1 \in Nat /\ c - 1 \in 0..Cols-1 /\ r \in Int /\ c \in Int
  BY Sizes
<1>2. At(r, c) = (r - 1) * Cols + (c - 1) /\ (r - 1) * Cols \in Nat
  BY <1>1, Sizes DEF At
<1>3. At(r, c) \div Cols = r - 1 /\ At(r, c) % Cols = c - 1
  BY <1>1, <1>2, Divided
<1>4. (r - 1) * Cols + Cols <= Rows * Cols
  BY <1>1, Sizes, RowsApart
<1>5. r < Rows => (r - 1) * Cols + Cols <= (Rows - 1) * Cols
  BY <1>1, Sizes, RowsApart
<1>6. r = Rows => (r - 1) * Cols = Size - Cols
  BY Sizes
<1>7. At(r, c) \in 0..Size-1
  BY <1>1, <1>2, <1>4, Sizes
<1>8. At(r, c) < Size - Cols <=> r < Rows
  <2>1. CASE r < Rows
    BY <1>1, <1>2, <1>5, <2>1, Sizes
  <2>2. CASE r = Rows
    BY <1>1, <1>2, <1>6, <2>2, Sizes
  <2> QED
    BY <1>1, <2>1, <2>2, Sizes
<1> QED
  BY <1>3, <1>7, <1>8

LEMMA PlaceOf ==
  ASSUME NEW p \in 0..Size-1
  PROVE  /\ (p \div Cols) + 1 \in 1..Rows /\ (p % Cols) + 1 \in 1..Cols
         /\ p = At((p \div Cols) + 1, (p % Cols) + 1)
<1> DEFINE d == p \div Cols
           m == p % Cols
<1>1. Cols \in Nat /\ Cols > 0 /\ Rows \in Nat /\ Rows > 1 /\ Size = Rows * Cols /\ p \in 0..Size-1
  BY Sizes
<1>2. p = Cols * d + m /\ m \in 0..Cols-1 /\ d \in Int
  BY <1>1
<1>3. d * Cols = Cols * d
  BY <1>1, <1>2
<1> HIDE DEF d, m
<1>4. ~(d < 0)
  <2> SUFFICES ASSUME d < 0 PROVE FALSE
    OBVIOUS
  <2>1. d * Cols + Cols <= 0 * Cols
    BY <1>2, RowsApart
  <2>2. 0 * Cols = 0
    BY <1>1
  <2> QED
    BY <1>1, <1>2, <1>3, <2>1, <2>2
<1>5. ~(Rows - 1 < d)
  <2> SUFFICES ASSUME Rows - 1 < d PROVE FALSE
    OBVIOUS
  <2>1. (Rows - 1) * Cols + Cols <= d * Cols
    BY <1>1, <1>2, RowsApart
  <2>2. (Rows - 1) * Cols + Cols = Size
    BY Sizes
  <2> QED
    BY <1>1, <1>2, <1>3, <2>1, <2>2
<1>6. d + 1 \in 1..Rows /\ m + 1 \in 1..Cols
  BY <1>1, <1>2, <1>4, <1>5
<1>7. p = At(d + 1, m + 1)
  <2>1. (d + 1) - 1 = d /\ (m + 1) - 1 = m
    BY <1>1, <1>2
  <2>2. At(d + 1, m + 1) = d * Cols + (m + 1) - 1
    BY <2>1 DEF At
  <2>3. d * Cols \in Int
    BY <1>1, <1>2
  <2> QED
    BY <1>1, <1>2, <1>3, <2>2, <2>3
<1> QED
  BY <1>6, <1>7 DEF d, m

LEMMA PlaceNext ==
  ASSUME NEW r \in 1..Rows, NEW c \in 1..Cols
  PROVE  /\ c < Cols => At(r, c + 1) = At(r, c) + 1
         /\ c > 1 => At(r, c - 1) = At(r, c) - 1
         /\ r < Rows => /\ At(r + 1, c) = At(r, c) + Cols
                        /\ At(r + 1, 1) = At(r, Cols) + 1
                        /\ At(r + 1, 1) = At(r, 1) + Cols
         /\ r > 1 => At(r - 1, Cols) = At(r, 1) - 1
         /\ At(1, 1) = 0 /\ At(Rows, Cols) = Size - 1 /\ At(Rows, 1) = Size - Cols
         /\ (At(r, c) \div Cols) * Cols = At(r, 1)
         /\ ((At(r, c) + Cols) \div Cols) * Cols = At(r, 1) + Cols
<1>1. /\ Rows \in Nat /\ Rows > 1 /\ Cols \in Nat /\ Cols > 0 /\ r \in Nat /\ c \in Nat /\ r - 1 \in Nat
      /\ Size \in Nat /\ Size - Cols = (Rows - 1) * Cols
  BY Sizes
<1> DEFINE x == (r - 1) * Cols
<1>2. x \in Nat /\ \A k \in Int : At(r, k) = x + k - 1
  BY <1>1 DEF At
<1>3. r * Cols = x + Cols /\ (r + 1) - 1 = r
  BY <1>1
<1>4. \A k \in Int : At(r + 1, k) = x + Cols + k - 1
  BY <1>1, <1>2, <1>3 DEF At
<1>5. (r - 1 - 1) * Cols = x - Cols
  BY <1>1
<1>6. At(r - 1, Cols) = x - 1
  BY <1>1, <1>2, <1>5 DEF At
<1> HIDE DEF x
<1>7. At(1, 1) = 0
  BY <1>1 DEF At
<1>8. At(Rows, Cols) = Size - 1 /\ At(Rows, 1) = Size - Cols
  BY <1>1 DEF At
<1>9. (At(r, c) \div Cols) * Cols = At(r, 1)
  <2>1. At(r, c) \div Cols = r - 1
    BY Place
  <2> QED
    BY <1>1, <1>2, <2>1 DEF x
<1>10. ((At(r, c) + Cols) \div Cols) * Cols = At(r, 1) + Cols
  <2>1. At(r, c) + Cols = r * Cols + (c - 1) /\ c - 1 \in 0..Cols-1
    BY <1>1, <1>2, <1>3
  <2>2. (At(r, c) + Cols) \div Cols = r
    BY <1>1, <2>1, Divided
  <2> QED
    BY <1>1, <1>2, <1>3, <2>2
<1>11. (c < Cols => At(r, c + 1) = At(r, c) + 1) /\ (c > 1 => At(r, c - 1) = At(r, c) - 1)
  BY <1>1, <1>2
<1>12. At(r + 1, c) = At(r, c) + Cols /\ At(r + 1, 1) = At(r, 1) + Cols
  BY <1>1, <1>2, <1>4
<1>13. At(r + 1, 1) = At(r, Cols) + 1
  BY <1>1, <1>2, <1>4
<1>14. At(r - 1, Cols) = At(r, 1) - 1
  BY <1>1, <1>2, <1>6
<1> QED
  BY <1>7, <1>8, <1>9, <1>10, <1>11, <1>12, <1>13, <1>14

(***************************************************************************)
(* Scrolling copies the rows over each other, each before it is overwritten *)
(* from below.                                                              *)
(***************************************************************************)
Copies(b) ==
    LET moved[k \in 0..Rows-1] == IF k = 0 THEN b ELSE CopyRow(moved[k-1], k-1)
    IN moved

LEMMA CopyOne ==
  ASSUME NEW b \in Frame, NEW v \in Frame, NEW k \in 0..Rows-2,
         \A p \in 0..Size-1 : v[p] = IF p < k * Cols THEN b[p + Cols] ELSE b[p]
  PROVE  /\ CopyRow(v, k) \in Frame
         /\ \A p \in 0..Size-1 : CopyRow(v, k)[p] = IF p < (k + 1) * Cols THEN b[p + Cols] ELSE b[p]
<1>1. /\ Rows \in Nat /\ Cols \in Nat /\ Cols > 0 /\ Size \in Nat /\ Size - Cols = (Rows - 1) * Cols
      /\ k \in Nat /\ k + 1 \in Nat
  BY Sizes
<1>2. CopyRow(v, k) = [p \in 0..Size-1 |-> IF p \div Cols = k THEN v[p + Cols] ELSE v[p]]
  BY DEF CopyRow, Frame
<1> DEFINE x == k * Cols
           y == (k + 1) * Cols
<1>3. x \in Nat /\ y = x + Cols /\ y <= Size - Cols
  <2>1. y = x + Cols /\ x \in Nat
    BY <1>1
  <2>2. k + 1 < Rows - 1 => y + Cols <= (Rows - 1) * Cols
    BY <1>1, RowsApart
  <2>3. k + 1 = Rows - 1 => y = (Rows - 1) * Cols
    OBVIOUS
  <2>4. k + 1 < Rows - 1 \/ k + 1 = Rows - 1
    BY <1>1
  <2> HIDE DEF x, y
  <2> QED
    BY <1>1, <2>1, <2>2, <2>3, <2>4
<1>4. ASSUME NEW p \in 0..Size-1
      PROVE  p \div Cols = k <=> x <= p /\ p < y
  <2> DEFINE d == p \div Cols
             c == p % Cols
  <2>1. p = Cols * d + c /\ c \in 0..Cols-1 /\ d \in Int
    BY <1>1
  <2>2. d * Cols = Cols * d
    BY <1>1, <2>1
  <2> HIDE DEF d, c
  <2>3. d < k => d * Cols + Cols <= x
    BY <1>1, <2>1, RowsApart
  <2>4. k < d => x + Cols <= d * Cols
    BY <1>1, <2>1, RowsApart
  <2>5. d = k => d * Cols = x
    OBVIOUS
  <2> HIDE DEF x, y
  <2>6. d = k <=> x <= p /\ p < y
    BY <1>1, <1>3, <2>1, <2>2, <2>3, <2>4, <2>5
  <2> QED
    BY <2>6 DEF d
<1> HIDE DEF x, y
<1>5. ASSUME NEW p \in 0..Size-1
      PROVE  CopyRow(v, k)[p] = (IF p < y THEN b[p + Cols] ELSE b[p]) /\ CopyRow(v, k)[p] \in Cell
  <2>1. CopyRow(v, k)[p] = IF p \div Cols = k THEN v[p + Cols] ELSE v[p]
    BY <1>2
  <2>2. v[p] = (IF p < x THEN b[p + Cols] ELSE b[p]) /\ v[p] \in Cell
    BY DEF x, Frame
  <2>3. CASE x <= p /\ p < y
    <3>1. p + Cols \in 0..Size-1 /\ ~(p + Cols < x)
      BY <1>1, <1>3, <2>3
    <3>2. v[p + Cols] = b[p + Cols] /\ v[p + Cols] \in Cell
      BY <3>1 DEF x, Frame
    <3> QED
      BY <1>4, <2>1, <2>3, <3>2
  <2>4. CASE ~(x <= p /\ p < y)
    <3>1. p < x <=> p < y
      BY <1>1, <1>3, <2>4
    <3> QED
      BY <1>4, <2>1, <2>2, <2>4, <3>1
  <2> QED
    BY <2>3, <2>4
<1>6. CopyRow(v, k) \in Frame
  BY <1>2, <1>5 DEF Frame
<1> QED
  BY <1>5, <1>6 DEF y

LEMMA Moved ==
  ASSUME NEW b \in Frame
  PROVE  /\ MovedUp(b) \in Frame
         /\ \A p \in 0..Size-1 : p < Size - Cols => MovedUp(b)[p] = b[p + Cols]
<1> DEFINE step == [k \in Nat |-> [v \in Frame |-> IF k < Rows - 1 THEN CopyRow(v, k) ELSE v]]
           moved == Copies(b)
<1>1. Rows \in Nat /\ Rows > 1 /\ Cols \in Nat /\ Size \in Nat /\ Size - Cols = (Rows - 1) * Cols
  BY Sizes
<1>2. ASSUME NEW v \in Frame, NEW k \in Nat
      PROVE  CopyRow(v, k) = [p \in 0..Size-1 |-> IF p \div Cols = k THEN v[p + Cols] ELSE v[p]]
  BY DEF CopyRow, Frame
<1>3. ASSUME NEW v \in Frame, NEW k \in Nat, k < Rows - 1
      PROVE  CopyRow(v, k) \in Frame
  <2> SUFFICES ASSUME NEW p \in 0..Size-1, p \div Cols = k PROVE p + Cols \in 0..Size-1
    <3>1. CopyRow(v, k) = [p \in 0..Size-1 |-> IF p \div Cols = k THEN v[p + Cols] ELSE v[p]]
      BY <1>2, <1>3
    <3>2. \A p \in 0..Size-1 : v[p] \in Cell
      BY DEF Frame
    <3> QED
      BY <3>1, <3>2 DEF Frame
  <2> DEFINE c == p % Cols
  <2>1. p = Cols * k + c /\ c \in 0..Cols-1
    BY Sizes
  <2> HIDE DEF c
  <2>2. k * Cols + Cols <= (Rows - 1) * Cols
    BY <1>1, <1>3, RowsApart
  <2>3. Cols * k = k * Cols
    BY <1>1
  <2> QED
    BY <1>1, <2>1, <2>2, <2>3
<1>4. step \in [Nat -> [Frame -> Frame]]
  BY <1>3
<1>5. \A k \in Nat, v \in Frame : k < Rows - 1 => step[k][v] = CopyRow(v, k)
  OBVIOUS
<1> HIDE DEF step
<1>6. PICK f \in [0..Rows-1 -> Frame] : f[0] = b /\ \A k \in 1..Rows-1 : f[k] = step[k-1][f[k-1]]
  <2>1. Runs(Rows - 1, Frame, b, step)
    BY <1>1, <1>4, Recursion
  <2> QED
    BY <2>1 DEF Runs
<1>7. f = [k \in 0..Rows-1 |-> IF k = 0 THEN b ELSE CopyRow(f[k-1], k-1)]
  <2> SUFFICES ASSUME NEW k \in 0..Rows-1
               PROVE  f[k] = IF k = 0 THEN b ELSE CopyRow(f[k-1], k-1)
    BY <1>6, Zenon
  <2>1. CASE k = 0
    BY <1>6, <2>1
  <2>2. CASE k # 0
    <3>1. k \in 1..Rows-1 /\ k-1 \in 0..Rows-1 /\ k-1 \in Nat /\ k-1 < Rows-1
      BY <1>1, <2>2
    <3>2. f[k-1] \in Frame
      BY <1>6, <3>1
    <3> QED
      BY <1>5, <1>6, <2>2, <3>1, <3>2
  <2> QED
    BY <2>1, <2>2
<1>8. moved = [k \in 0..Rows-1 |-> IF k = 0 THEN b ELSE CopyRow(moved[k-1], k-1)]
  BY <1>7, Zenon DEF Copies
<1>9. MovedUp(b) = moved[Rows-1]
  BY DEF MovedUp, Copies
<1> HIDE DEF moved
<1>10. moved[0] = b /\ \A k \in 1..Rows-1 : moved[k] = CopyRow(moved[k-1], k-1)
  <2>1. 0 \in 0..Rows-1 /\ \A k \in 1..Rows-1 : k \in 0..Rows-1 /\ k # 0
    BY <1>1
  <2> QED
    BY <1>8, <2>1, Zenon
<1> DEFINE Done == {k \in Nat : k <= Rows - 1 =>
                      /\ moved[k] \in Frame
                      /\ \A p \in 0..Size-1 : moved[k][p] = IF p < k * Cols THEN b[p + Cols] ELSE b[p]}
<1>11. 0 \in Done
  <2>1. 0 * Cols = 0
    BY <1>1
  <2> QED
    BY <1>10, <2>1
<1>12. ASSUME NEW k \in Nat, k \in Done PROVE k + 1 \in Done
  <2> SUFFICES ASSUME k + 1 <= Rows - 1 PROVE k + 1 \in Done
    OBVIOUS
  <2>1. k \in 0..Rows-2 /\ k + 1 \in 1..Rows-1 /\ k <= Rows - 1 /\ k + 1 - 1 = k
    BY <1>1
  <2>2. moved[k] \in Frame /\ \A p \in 0..Size-1 : moved[k][p] = IF p < k * Cols THEN b[p + Cols] ELSE b[p]
    BY <1>12, <2>1
  <2>3. moved[k+1] = CopyRow(moved[k], k)
    BY <1>10, <2>1
  <2>4. /\ CopyRow(moved[k], k) \in Frame
        /\ \A p \in 0..Size-1 :
              CopyRow(moved[k], k)[p] = IF p < (k + 1) * Cols THEN b[p + Cols] ELSE b[p]
    BY <2>1, <2>2, CopyOne
  <2> QED
    BY <2>3, <2>4
<1>13. Rows - 1 \in Done
  <2> HIDE DEF Done
  <2> QED
    BY <1>1, <1>11, <1>12, SetInduction
<1>14. moved[Rows-1] \in Frame /\ \A p \in 0..Size-1 :
          moved[Rows-1][p] = IF p < (Rows - 1) * Cols THEN b[p + Cols] ELSE b[p]
  BY <1>1, <1>13
<1> QED
  BY <1>1, <1>9, <1>14

-----------------------------------------------------------------------------
(***************************************************************************)
(* What putChar does, in the linear memory.                                 *)
(***************************************************************************)
Screens == [buffer : Frame, pos : 0..Size-1]

\* v is b with the text moved up by a row.
Raised(b, v) == \A p \in 0..Size-1 : v[p] = IF p >= Size - Cols THEN " " ELSE b[p + Cols]

\* u is s, with the text moved up if s has come to its end.
IsScrolled(s, u) == IF s.pos # Size THEN u = s
                    ELSE u.pos = Size - Cols /\ Raised(s.buffer, u.buffer)

LEMMA Scrolling ==
  ASSUME NEW s \in [buffer : Frame, pos : 0..Size]
  PROVE  Scrolled(s) \in Screens /\ IsScrolled(s, Scrolled(s))
<1>1. Size \in Nat /\ Cols \in Nat /\ Cols > 0 /\ Size > Cols
  BY Sizes
<1>2. CASE s.pos # Size
  BY <1>1, <1>2 DEF Scrolled, IsScrolled, Screens
<1>3. CASE s.pos = Size
  <2> DEFINE moved == MovedUp(s.buffer)
             v == [p \in 0..Size-1 |-> IF p >= Size - Cols THEN " " ELSE moved[p]]
  <2>1. moved \in Frame /\ \A p \in 0..Size-1 : p < Size - Cols => moved[p] = s.buffer[p + Cols]
    BY Moved
  <2>2. Scrolled(s) = [buffer |-> v, pos |-> s.pos - Cols]
    BY <1>3 DEF Scrolled
  <2> HIDE DEF moved
  <2>3. v \in Frame
    BY <2>1 DEF Frame, Cell
  <2>4. ASSUME NEW p \in 0..Size-1
        PROVE  v[p] = IF p >= Size - Cols THEN " " ELSE s.buffer[p + Cols]
    <3>1. v[p] = IF p >= Size - Cols THEN " " ELSE moved[p]
      OBVIOUS
    <3>2. p >= Size - Cols \/ p < Size - Cols
      BY <1>1
    <3> QED
      BY <2>1, <3>1, <3>2
  <2> HIDE DEF v
  <2>5. s.pos - Cols = Size - Cols /\ Size - Cols \in 0..Size-1
    BY <1>1, <1>3
  <2>6. Scrolled(s) \in Screens
    BY <2>2, <2>3, <2>5 DEF Screens
  <2>7. Scrolled(s).pos = Size - Cols /\ Scrolled(s).buffer = v
    BY <2>2, <2>5
  <2> QED
    BY <1>3, <2>4, <2>6, <2>7 DEF IsScrolled, Raised
<1> QED
  BY <1>2, <1>3

LEMMA Marking ==
  ASSUME NEW s \in Screens
  PROVE  /\ \A c \in Cell : Marked(s, c) = [buffer |-> [s.buffer EXCEPT ![s.pos] = c], pos |-> s.pos + 1]
         /\ Marked(s, "BS") = IF s.pos > 0
                              THEN [buffer |-> [s.buffer EXCEPT ![s.pos - 1] = " "], pos |-> s.pos - 1]
                              ELSE s
         /\ Marked(s, "LF") = [buffer |-> s.buffer, pos |-> ((s.pos + Cols) \div Cols) * Cols]
         /\ Marked(s, "CR") = [buffer |-> s.buffer, pos |-> (s.pos \div Cols) * Cols]
         /\ Marked(s, "NUL") = s
<1>1. \A c \in Cell : c \notin {"BS", "LF", "CR", "NUL"}
  BY ScreenAssumption DEF Cell, Controls
<1>2. s = [buffer |-> s.buffer, pos |-> s.pos]
  BY DEF Screens
<1>3. \A c \in Cell : Marked(s, c) = [buffer |-> [s.buffer EXCEPT ![s.pos] = c], pos |-> s.pos + 1]
  BY <1>1 DEF Marked
<1>4. Marked(s, "LF") = [buffer |-> s.buffer, pos |-> ((s.pos + Cols) \div Cols) * Cols]
  BY <1>2 DEF Marked
<1>5. Marked(s, "CR") = [buffer |-> s.buffer, pos |-> (s.pos \div Cols) * Cols]
  BY <1>2 DEF Marked
<1> QED
  BY <1>3, <1>4, <1>5 DEF Marked

\* Each character leaves a position that Scrolled takes.
LEMMA MarkedType ==
  ASSUME NEW s \in Screens, NEW c \in Cell \cup {"BS", "LF", "CR", "NUL"}
  PROVE  Marked(s, c) \in [buffer : Frame, pos : 0..Size]
<1>1. s.pos \in 0..Size-1 /\ s.buffer \in Frame /\ Size \in Nat
  BY Sizes DEF Screens
<1>2. CASE c \in Cell
  <2>1. [s.buffer EXCEPT ![s.pos] = c] \in Frame
    BY <1>1, <1>2 DEF Frame
  <2>2. Marked(s, c) = [buffer |-> [s.buffer EXCEPT ![s.pos] = c], pos |-> s.pos + 1]
    BY <1>2, Marking
  <2>3. s.pos + 1 \in 0..Size
    BY <1>1
  <2> QED
    BY <2>1, <2>2, <2>3
<1>3. CASE c = "BS"
  <2> DEFINE b == [s.buffer EXCEPT ![s.pos - 1] = " "]
             x == s.pos - 1
  <2>1. b \in Frame
    BY <1>1 DEF Frame, Cell
  <2>2. s \in [buffer : Frame, pos : 0..Size]
    BY <1>1 DEF Screens
  <2>3. Marked(s, "BS") = IF s.pos > 0
                          THEN [buffer |-> b, pos |-> x]
                          ELSE s
    BY Marking
  <2>4. s.pos > 0 => x \in 0..Size
    BY <1>1
  <2> HIDE DEF b, x
  <2> QED
    BY <1>3, <2>1, <2>2, <2>3, <2>4
<1> DEFINE r == (s.pos \div Cols) + 1
           k == (s.pos % Cols) + 1
<1>4. r \in 1..Rows /\ k \in 1..Cols /\ s.pos = At(r, k)
  BY <1>1, PlaceOf
<1> HIDE DEF r, k
<1>5. /\ (s.pos \div Cols) * Cols = At(r, 1) /\ ((s.pos + Cols) \div Cols) * Cols = At(r, 1) + Cols
      /\ At(r, 1) \in 0..Size-1 /\ At(r, 1) + Cols \in 0..Size
  <2>1. 1 \in 1..Cols /\ r \in Int
    BY <1>4, Sizes
  <2>2. At(r, 1) \in 0..Size-1
    BY <1>4, <2>1, Place
  <2>3. r < Rows => At(r + 1, 1) = At(r, 1) + Cols /\ r + 1 \in 1..Rows
    BY <1>4, <2>1, PlaceNext, Sizes
  <2>4. r < Rows => At(r, 1) + Cols \in 0..Size-1
    BY <2>1, <2>3, Place
  <2>5. r = Rows => At(r, 1) + Cols = Size
    BY <1>4, <2>1, PlaceNext, Sizes
  <2>6. r < Rows \/ r = Rows
    BY <1>4, Sizes
  <2> QED
    BY <1>1, <1>4, <2>2, <2>4, <2>5, <2>6, PlaceNext
<1>6. CASE c = "LF"
  <2>1. Marked(s, "LF") = [buffer |-> s.buffer, pos |-> ((s.pos + Cols) \div Cols) * Cols]
    BY Marking
  <2>2. Marked(s, "LF") = [buffer |-> s.buffer, pos |-> At(r, 1) + Cols]
    BY <1>5, <2>1
  <2> QED
    BY <1>1, <1>5, <1>6, <2>2
<1>7. CASE c = "CR"
  <2>1. At(r, 1) \in 0..Size
    BY <1>1, <1>5
  <2>2. Marked(s, "CR") = [buffer |-> s.buffer, pos |-> (s.pos \div Cols) * Cols]
    BY Marking
  <2>3. Marked(s, "CR") = [buffer |-> s.buffer, pos |-> At(r, 1)]
    BY <1>5, <2>2
  <2> QED
    BY <1>1, <1>7, <2>1, <2>3
<1>8. CASE c = "NUL"
  <2>1. Marked(s, "NUL") = s
    BY Marking
  <2>2. s \in [buffer : Frame, pos : 0..Size]
    BY <1>1 DEF Screens
  <2> QED
    BY <1>8, <2>1, <2>2
<1> QED
  BY <1>2, <1>3, <1>6, <1>7, <1>8

LEMMA PutType ==
  ASSUME NEW s \in Screens, NEW c \in Chars
  PROVE  PutChar(s, c) \in Screens
<1> DEFINE Space(t) == Scrolled(Marked(t, " "))
<1>1. \A t \in Screens : Space(t) \in Screens
  BY MarkedType, Scrolling DEF Cell
<1>2. \A t \in Screens : Scrolled(t) \in Screens
  <2>1. Screens \subseteq [buffer : Frame, pos : 0..Size]
    BY Sizes DEF Screens
  <2> QED
    BY <2>1, Scrolling
<1>3. CASE c = "TAB"
  <2>1. PutChar(s, c) = Scrolled(Space(Space(Space(Space(s)))))
    BY <1>3 DEF PutChar
  <2> HIDE DEF Space
  <2> QED
    BY <1>1, <1>2, <2>1
<1>4. CASE c # "TAB"
  <2>1. PutChar(s, c) = Scrolled(Marked(s, c))
    BY <1>4 DEF PutChar
  <2>2. c \in Cell \cup {"BS", "LF", "CR", "NUL"}
    BY <1>4 DEF Chars, Controls, Cell
  <2> QED
    BY <2>1, <2>2, MarkedType, Scrolling
<1> QED
  BY <1>3, <1>4

-----------------------------------------------------------------------------
(***************************************************************************)
(* The screen as a terminal: what each putChar does to the rows of cells.   *)
(***************************************************************************)
Lines(b) == [r \in 1..Rows |-> [c \in 1..Cols |-> b[At(r, c)]]]

Rendered(s) == [lines |-> Lines(s.buffer), row |-> (s.pos \div Cols) + 1, col |-> (s.pos % Cols) + 1]

Empties == [c \in 1..Cols |-> " "]

LEMMA RenderedAt ==
  ASSUME NEW s, NEW r \in 1..Rows, NEW c \in 1..Cols, s.pos = At(r, c)
  PROVE  Rendered(s) = [lines |-> Lines(s.buffer), row |-> r, col |-> c]
<1>1. (s.pos \div Cols) + 1 = r /\ (s.pos % Cols) + 1 = c
  <2>1. s.pos \div Cols = r - 1 /\ s.pos % Cols = c - 1 /\ r \in Int /\ c \in Int
    BY Place
  <2> QED
    BY <2>1
<1> QED
  BY <1>1 DEF Rendered

\* Each screen has a row and a column.
LEMMA RenderedSome ==
  ASSUME NEW s \in Screens
  PROVE  \E r \in 1..Rows, c \in 1..Cols :
            s.pos = At(r, c) /\ Rendered(s) = [lines |-> Lines(s.buffer), row |-> r, col |-> c]
<1> DEFINE r == (s.pos \div Cols) + 1
           c == (s.pos % Cols) + 1
<1>1. s.pos \in 0..Size-1
  BY DEF Screens
<1>2. r \in 1..Rows /\ c \in 1..Cols /\ s.pos = At(r, c)
  BY <1>1, PlaceOf
<1> HIDE DEF r, c
<1> QED
  BY <1>2, RenderedAt

\* One cell changes.
LEMMA LinesMark ==
  ASSUME NEW b \in Frame, NEW r \in 1..Rows, NEW c \in 1..Cols, NEW g
  PROVE  Lines([b EXCEPT ![At(r, c)] = g]) = [Lines(b) EXCEPT ![r] = [Lines(b)[r] EXCEPT ![c] = g]]
<1> DEFINE v == [b EXCEPT ![At(r, c)] = g]
           e == [Lines(b) EXCEPT ![r] = [Lines(b)[r] EXCEPT ![c] = g]]
<1>1. ASSUME NEW q \in 1..Rows, NEW k \in 1..Cols
      PROVE  v[At(q, k)] = IF q = r /\ k = c THEN g ELSE b[At(q, k)]
  <2>1. At(q, k) \in 0..Size-1 /\ At(r, c) \in 0..Size-1
    BY Place
  <2>2. At(q, k) = At(r, c) => q = r /\ k = c
    <3>1. At(q, k) = At(r, c) => q - 1 = r - 1 /\ k - 1 = c - 1
      BY Place
    <3> QED
      BY <3>1
  <2> QED
    BY <2>1, <2>2 DEF Frame
<1> HIDE DEF v
<1>2. Lines(v) = [q \in 1..Rows |-> [k \in 1..Cols |-> IF q = r /\ k = c THEN g ELSE b[At(q, k)]]]
  BY <1>1 DEF Lines
<1>3. Lines(b) = [q \in 1..Rows |-> Lines(b)[q]] /\ \A q \in 1..Rows : Lines(b)[q] = [k \in 1..Cols |-> b[At(q, k)]]
  BY DEF Lines
<1>4. e = [q \in 1..Rows |-> [k \in 1..Cols |-> IF q = r /\ k = c THEN g ELSE b[At(q, k)]]]
  <2>1. e = [q \in 1..Rows |-> IF q = r THEN [Lines(b)[r] EXCEPT ![c] = g] ELSE Lines(b)[q]]
    BY <1>3
  <2>2. [Lines(b)[r] EXCEPT ![c] = g] = [k \in 1..Cols |-> IF k = c THEN g ELSE b[At(r, k)]]
    <3>1. Lines(b)[r] = [k \in 1..Cols |-> b[At(r, k)]]
      BY <1>3
    <3> DEFINE row == Lines(b)[r]
    <3>2. row = [k \in 1..Cols |-> b[At(r, k)]]
      BY <3>1
    <3> HIDE DEF row
    <3>3. [row EXCEPT ![c] = g] = [k \in 1..Cols |-> IF k = c THEN g ELSE b[At(r, k)]]
      BY <3>2
    <3> QED
      BY <3>3 DEF row
  <2>3. ASSUME NEW q \in 1..Rows
        PROVE  (IF q = r THEN [Lines(b)[r] EXCEPT ![c] = g] ELSE Lines(b)[q])
                 = [k \in 1..Cols |-> IF q = r /\ k = c THEN g ELSE b[At(q, k)]]
    BY <1>3, <2>2
  <2> HIDE DEF e
  <2> QED
    BY <2>1, <2>3
<1> QED
  BY <1>2, <1>4 DEF v

\* The first line goes, and a line is put behind the others.
LEMMA TailAppend ==
  ASSUME NEW S, NEW n \in Nat, n > 0, NEW l \in [1..n -> S], NEW e \in S
  PROVE  Append(Tail(l), e) = [r \in 1..n |-> IF r < n THEN l[r + 1] ELSE e]
<1> DEFINE t == Tail(l)
           a == Append(t, e)
<1>1. l \in Seq(S) /\ Len(l) = n /\ l # <<>>
  <2>1. l \in Seq(S) /\ Len(l) = n
    OBVIOUS
  <2> QED
    BY <2>1
<1>2. t \in Seq(S) /\ Len(t) = n - 1 /\ \A r \in 1..n-1 : t[r] = l[r + 1]
  BY <1>1, HeadTailProperties
<1> HIDE DEF t
<1>3. a \in Seq(S) /\ Len(a) = n /\ a[n] = e /\ \A r \in 1..n-1 : a[r] = t[r]
  BY <1>2
<1> HIDE DEF a
<1>4. a = [r \in 1..n |-> a[r]]
  BY <1>3
<1>5. ASSUME NEW r \in 1..n
      PROVE  a[r] = IF r < n THEN l[r + 1] ELSE e
  <2>1. CASE r < n
    BY <1>2, <1>3, <2>1
  <2>2. CASE r = n
    BY <1>3, <2>2
  <2> QED
    BY <2>1, <2>2
<1> QED
  BY <1>4, <1>5 DEF a, t

\* The text moves up by a row.
LEMMA LinesScrolled ==
  ASSUME NEW b \in Frame, NEW v, Raised(b, v)
  PROVE  Lines(v) = Append(Tail(Lines(b)), Empties)
<1>1. Rows \in Nat /\ Rows > 1 /\ Cols \in Nat /\ Size \in Nat
  BY Sizes
<1>2. \A r \in 1..Rows : r < Rows => r + 1 \in 1..Rows
  BY <1>1
<1>3. ASSUME NEW r \in 1..Rows, NEW c \in 1..Cols
      PROVE  v[At(r, c)] = IF r < Rows THEN b[At(r + 1, c)] ELSE " "
  <2>1. At(r, c) \in 0..Size-1 /\ (At(r, c) < Size - Cols <=> r < Rows)
    BY Place
  <2>2. r < Rows => At(r + 1, c) = At(r, c) + Cols
    BY PlaceNext
  <2>3. At(r, c) >= Size - Cols <=> ~(At(r, c) < Size - Cols)
    BY <1>1, <2>1
  <2>4. v[At(r, c)] = IF At(r, c) >= Size - Cols THEN " " ELSE b[At(r, c) + Cols]
    BY <2>1 DEF Raised
  <2> QED
    BY <2>1, <2>2, <2>3, <2>4
<1> DEFINE l == Lines(b)
<1>4. Lines(v) = [r \in 1..Rows |-> IF r < Rows THEN l[r + 1] ELSE Empties]
  <2>1. \A r \in 1..Rows : r < Rows => l[r + 1] = [c \in 1..Cols |-> b[At(r + 1, c)]]
    BY <1>2 DEF Lines
  <2> HIDE DEF l
  <2>2. ASSUME NEW r \in 1..Rows
        PROVE  [c \in 1..Cols |-> v[At(r, c)]] = IF r < Rows THEN l[r + 1] ELSE Empties
    BY <1>3, <2>1 DEF Empties
  <2> QED
    BY <2>2 DEF Lines
<1> DEFINE R == [1..Cols -> Cell]
<1>5. l \in [1..Rows -> R] /\ Empties \in R
  BY Place DEF Lines, Frame, Empties, Cell
<1>6. Rows \in Nat /\ Rows > 0
  BY <1>1
<1> HIDE DEF l, R
<1>7. Append(Tail(l), Empties) = [r \in 1..Rows |-> IF r < Rows THEN l[r + 1] ELSE Empties]
  BY ONLY <1>5, <1>6, TailAppend
<1> QED
  BY <1>4, <1>7 DEF l

\* The position goes to the next row, and the text moves up at the end.
LEMMA NextLineIs ==
  ASSUME NEW u \in [buffer : Frame, pos : 0..Size], NEW r \in 1..Rows, NEW c \in 1..Cols,
         u.pos = At(r, 1) + Cols
  PROVE  Rendered(Scrolled(u)) = Promised!NextLine([lines |-> Lines(u.buffer), row |-> r, col |-> c])
<1> DEFINE t == [lines |-> Lines(u.buffer), row |-> r, col |-> c]
           w == Scrolled(u)
<1>1. Rows \in Nat /\ Cols \in Nat /\ Cols > 0 /\ 1 \in 1..Cols /\ r \in Nat /\ Size \in Nat /\ u.buffer \in Frame
  BY Sizes
<1>2. w \in Screens /\ IsScrolled(u, w)
  BY Scrolling
<1>3. CASE r < Rows
  <2>1. r + 1 \in 1..Rows /\ u.pos = At(r + 1, 1)
    BY <1>1, <1>3, PlaceNext
  <2>2. u.pos \in 0..Size-1
    BY <1>1, <2>1, Place
  <2>3. w = u
    BY <1>1, <1>2, <2>2 DEF IsScrolled
  <2>4. Rendered(w) = [lines |-> Lines(u.buffer), row |-> r + 1, col |-> 1]
    BY <1>1, <2>1, <2>3, RenderedAt
  <2>5. Promised!NextLine(t) = [lines |-> Lines(u.buffer), row |-> r + 1, col |-> 1]
    BY <1>3 DEF Promised!NextLine
  <2> QED
    BY <2>4, <2>5
<1>4. CASE r = Rows
  <2>1. u.pos = Size /\ At(Rows, 1) = Size - Cols /\ Rows \in 1..Rows
    BY <1>1, <1>4, PlaceNext
  <2>2. w.pos = At(Rows, 1) /\ Raised(u.buffer, w.buffer)
    BY <1>2, <2>1 DEF IsScrolled
  <2>3. Lines(w.buffer) = Append(Tail(Lines(u.buffer)), Empties)
    BY <1>1, <2>2, LinesScrolled
  <2>4. Rendered(w) = [lines |-> Append(Tail(Lines(u.buffer)), Empties), row |-> Rows, col |-> 1]
    BY <1>1, <2>1, <2>2, <2>3, RenderedAt
  <2>5. ~(r < Rows)
    BY <1>1, <1>4
  <2>6. Promised!NextLine(t) = [lines |-> Append(Tail(Lines(u.buffer)), Empties), row |-> Rows, col |-> 1]
    BY <1>4, <2>5 DEF Promised!NextLine, Promised!BlankLine, Promised!Blank, Empties
  <2> QED
    BY <2>4, <2>6
<1>5. r < Rows \/ r = Rows
  BY <1>1
<1> QED
  BY <1>3, <1>4, <1>5

LEMMA WriteIs ==
  ASSUME NEW s \in Screens, NEW g \in Cell
  PROVE  Rendered(Scrolled(Marked(s, g))) = Promised!Written(Rendered(s), g)
<1>1. PICK r \in 1..Rows, c \in 1..Cols :
         s.pos = At(r, c) /\ Rendered(s) = [lines |-> Lines(s.buffer), row |-> r, col |-> c]
  BY RenderedSome
<1> DEFINE u == Marked(s, g)
           b == s.buffer
           v == [b EXCEPT ![At(r, c)] = g]
<1>2. u = [buffer |-> v, pos |-> At(r, c) + 1]
  <2> DEFINE p == At(r, c)
  <2>1. s.pos = p
    BY <1>1
  <2>2. u = [buffer |-> [b EXCEPT ![s.pos] = g], pos |-> s.pos + 1]
    BY Marking
  <2> HIDE DEF u, b, p
  <2>3. u = [buffer |-> [b EXCEPT ![p] = g], pos |-> p + 1]
    BY <2>1, <2>2
  <2> QED
    BY <2>3 DEF p
<1>3. u \in [buffer : Frame, pos : 0..Size]
  BY MarkedType
<1>4. Rows \in Nat /\ Cols \in Nat /\ Cols > 0 /\ c \in Nat /\ r \in Nat /\ 1 \in 1..Cols /\ Size \in Nat /\ b \in Frame
  BY Sizes DEF Screens
<1>5. Lines(v) = [Lines(b) EXCEPT ![r] = [Lines(b)[r] EXCEPT ![c] = g]]
  <2> HIDE DEF b
  <2>1. Lines([b EXCEPT ![At(r, c)] = g]) = [Lines(b) EXCEPT ![r] = [Lines(b)[r] EXCEPT ![c] = g]]
    BY <1>4, LinesMark
  <2> QED
    BY <2>1
<1> HIDE DEF u, v
<1> DEFINE m == [lines |-> Lines(v), row |-> r, col |-> c]
<1>6. Promised!Written(Rendered(s), g) =
         IF c < Cols THEN [lines |-> Lines(v), row |-> r, col |-> c + 1] ELSE Promised!NextLine(m)
  <2> DEFINE t == Rendered(s)
             marked == [t EXCEPT !.lines[t.row][t.col] = g]
  <2>1. t = [lines |-> Lines(b), row |-> r, col |-> c]
    BY <1>1
  <2> HIDE DEF t, b
  <2>2. marked = m
    BY <1>5, <2>1
  <2>3. Promised!Written(t, g) = IF t.col < Cols THEN [marked EXCEPT !.col = @ + 1] ELSE Promised!NextLine(marked)
    BY DEF Promised!Written
  <2> HIDE DEF marked
  <2>4. t.col = c /\ [m EXCEPT !.col = @ + 1] = [lines |-> Lines(v), row |-> r, col |-> c + 1]
    BY <2>1
  <2> HIDE DEF m
  <2>5. Promised!Written(t, g) =
           IF c < Cols THEN [lines |-> Lines(v), row |-> r, col |-> c + 1] ELSE Promised!NextLine(m)
    BY <2>2, <2>3, <2>4
  <2> QED
    BY <2>5 DEF t
<1>7. CASE c < Cols
  <2>1. c + 1 \in 1..Cols /\ u.pos = At(r, c + 1) /\ u.buffer = v
    BY <1>2, <1>4, <1>7, PlaceNext
  <2>2. u.pos # Size
    BY <1>4, <2>1, Place
  <2>3. Scrolled(u) = u
    BY <1>3, <2>2, Scrolling DEF IsScrolled
  <2>4. Rendered(u) = [lines |-> Lines(v), row |-> r, col |-> c + 1]
    BY <2>1, RenderedAt
  <2> QED
    BY <1>6, <1>7, <2>3, <2>4 DEF u
<1>8. CASE c = Cols
  <2>1. At(r, 1) + Cols = At(r, Cols) + 1
    BY <1>4 DEF At
  <2>2. u.pos = At(r, 1) + Cols /\ u.buffer = v
    BY <1>2, <1>8, <2>1
  <2>3. Rendered(Scrolled(u)) = Promised!NextLine(m)
    BY <1>3, <2>2, NextLineIs
  <2>4. ~(c < Cols)
    BY <1>4, <1>8
  <2> QED
    BY <1>6, <2>3, <2>4 DEF u
<1> QED
  BY <1>4, <1>7, <1>8

LEMMA NewLineIs ==
  ASSUME NEW s \in Screens
  PROVE  Rendered(Scrolled(Marked(s, "LF"))) = Promised!NextLine(Rendered(s))
<1>1. PICK r \in 1..Rows, c \in 1..Cols :
         s.pos = At(r, c) /\ Rendered(s) = [lines |-> Lines(s.buffer), row |-> r, col |-> c]
  BY RenderedSome
<1> DEFINE u == Marked(s, "LF")
<1>2. u \in [buffer : Frame, pos : 0..Size]
  BY MarkedType
<1>3. u.buffer = s.buffer /\ u.pos = At(r, 1) + Cols
  <2>1. u = [buffer |-> s.buffer, pos |-> ((s.pos + Cols) \div Cols) * Cols]
    BY Marking
  <2>2. ((At(r, c) + Cols) \div Cols) * Cols = At(r, 1) + Cols
    BY PlaceNext
  <2> HIDE DEF u
  <2> QED
    BY <1>1, <2>1, <2>2
<1> HIDE DEF u
<1>4. Rendered(Scrolled(u)) = Promised!NextLine([lines |-> Lines(u.buffer), row |-> r, col |-> c])
  BY <1>2, <1>3, NextLineIs
<1> QED
  BY <1>1, <1>3, <1>4 DEF u

LEMMA ReturnIs ==
  ASSUME NEW s \in Screens
  PROVE  Rendered(Scrolled(Marked(s, "CR"))) = [Rendered(s) EXCEPT !.col = 1]
<1>1. PICK r \in 1..Rows, c \in 1..Cols :
         s.pos = At(r, c) /\ Rendered(s) = [lines |-> Lines(s.buffer), row |-> r, col |-> c]
  BY RenderedSome
<1> DEFINE u == Marked(s, "CR")
<1>2. u \in [buffer : Frame, pos : 0..Size]
  BY MarkedType
<1>3. u.buffer = s.buffer /\ u.pos = At(r, 1)
  <2>1. u = [buffer |-> s.buffer, pos |-> (s.pos \div Cols) * Cols]
    BY Marking
  <2>2. (At(r, c) \div Cols) * Cols = At(r, 1)
    BY PlaceNext
  <2> HIDE DEF u
  <2> QED
    BY <1>1, <2>1, <2>2
<1> HIDE DEF u
<1>4. 1 \in 1..Cols /\ Size \in Nat
  BY Sizes
<1>5. u.pos # Size
  BY <1>3, <1>4, Place
<1>6. Scrolled(u) = u
  BY <1>2, <1>5, Scrolling DEF IsScrolled
<1>7. Rendered(u) = [lines |-> Lines(s.buffer), row |-> r, col |-> 1]
  BY <1>3, <1>4, RenderedAt
<1> QED
  BY <1>1, <1>6, <1>7 DEF u

LEMMA EraseIs ==
  ASSUME NEW s \in Screens
  PROVE  Rendered(Scrolled(Marked(s, "BS"))) = Promised!Erased(Rendered(s))
<1>1. PICK r \in 1..Rows, c \in 1..Cols :
         s.pos = At(r, c) /\ Rendered(s) = [lines |-> Lines(s.buffer), row |-> r, col |-> c]
  BY RenderedSome
<1> DEFINE u == Marked(s, "BS")
           b == s.buffer
           x == s.pos - 1
           v == [b EXCEPT ![x] = " "]
<1>2. u = IF s.pos > 0 THEN [buffer |-> v, pos |-> x] ELSE s
  BY Marking
<1>3. /\ Rows \in Nat /\ Cols \in Nat /\ Cols > 0 /\ c \in Nat /\ r \in Nat /\ 1 \in 1..Cols /\ Cols \in 1..Cols
      /\ Size \in Nat /\ b \in Frame /\ s.pos \in 0..Size-1 /\ u \in [buffer : Frame, pos : 0..Size]
  BY Sizes, MarkedType DEF Screens
<1> HIDE DEF u, v
<1>4. u.pos # Size
  BY <1>2, <1>3
<1>5. Scrolled(u) = u
  BY <1>3, <1>4, Scrolling DEF IsScrolled
<1>6. ASSUME NEW q \in 1..Rows, NEW k \in 1..Cols, x = At(q, k),
             c > 1 => q = r /\ k = c - 1,
             ~(c > 1) => q = r - 1 /\ k = Cols
      PROVE  Rendered(u) = Promised!Erased(Rendered(s))
  <2>1. x \in 0..Size-1 /\ s.pos > 0
    BY <1>3, <1>6, Place
  <2>2. u.buffer = v /\ u.pos = At(q, k)
    BY <1>2, <1>6, <2>1
  <2>3. Lines(v) = [Lines(b) EXCEPT ![q] = [Lines(b)[q] EXCEPT ![k] = " "]]
    <3>1. v = [b EXCEPT ![At(q, k)] = " "]
      BY <1>6 DEF v
    <3>2. b \in Frame
      BY <1>3
    <3> HIDE DEF b, v
    <3>3. ASSUME NEW g \in Cell
          PROVE  Lines([b EXCEPT ![At(q, k)] = g]) = [Lines(b) EXCEPT ![q] = [Lines(b)[q] EXCEPT ![k] = g]]
      BY <3>2, LinesMark
    <3>4. " " \in Cell
      BY DEF Cell
    <3> QED
      BY <3>1, <3>3, <3>4, Zenon
  <2>4. Rendered(u) = [lines |-> Lines(v), row |-> q, col |-> k]
    BY <2>2, RenderedAt
  <2> DEFINE t == Rendered(s)
  <2>5. t.lines = Lines(b) /\ t.row = r /\ t.col = c
    BY <1>1
  <2>6. q # 0
    OBVIOUS
  <2> HIDE DEF t
  <2>7. /\ (IF t.col > 1 THEN t.row ELSE t.row - 1) = q
        /\ (IF t.col > 1 THEN t.col - 1 ELSE Cols) = k
    BY <1>6, <2>5
  <2>8. Promised!Erased(t) = [lines |-> [t.lines EXCEPT ![q] = [t.lines[q] EXCEPT ![k] = " "]], row |-> q, col |-> k]
    BY <2>6, <2>7 DEF Promised!Erased, Promised!Blank
  <2> QED
    BY <2>3, <2>4, <2>5, <2>8 DEF t
<1>7. CASE c > 1
  <2>1. c - 1 \in 1..Cols /\ x = At(r, c - 1)
    BY <1>1, <1>3, <1>7, PlaceNext
  <2> QED
    BY <1>5, <1>6, <1>7, <2>1 DEF u
<1>8. CASE c = 1 /\ r > 1
  <2>1. r - 1 \in 1..Rows /\ x = At(r - 1, Cols) /\ ~(c > 1)
    BY <1>1, <1>3, <1>8, PlaceNext
  <2> QED
    BY <1>3, <1>5, <1>6, <2>1 DEF u
<1>9. CASE c = 1 /\ r = 1
  <2>1. s.pos = 0
    BY <1>1, <1>3, <1>9, PlaceNext
  <2>2. u = s
    BY <1>2, <2>1
  <2>3. Promised!Erased(Rendered(s)) = Rendered(s)
    BY <1>1, <1>9 DEF Promised!Erased
  <2> QED
    BY <1>5, <2>2, <2>3 DEF u
<1> QED
  BY <1>3, <1>7, <1>8, <1>9

(***************************************************************************)
(* Each character that is put is one of the operations of a terminal.       *)
(***************************************************************************)
LEMMA PutIs ==
  ASSUME NEW s \in Screens, NEW c \in Chars
  PROVE  LET t == Rendered(s)
             u == Rendered(PutChar(s, c))
         IN \/ c \in Glyphs /\ u = Promised!Written(t, c)
            \/ u = Promised!Tabbed(t)
            \/ u = Promised!NextLine(t)
            \/ u = [t EXCEPT !.col = 1]
            \/ u = Promised!Erased(t)
            \/ u = t
<1>1. \A v \in Screens : Scrolled(v) = v
  <2>1. Screens \subseteq [buffer : Frame, pos : 0..Size]
    BY Sizes DEF Screens
  <2>2. \A v \in Screens : v.pos # Size
    BY Sizes DEF Screens
  <2> QED
    BY <2>1, <2>2, Scrolling DEF IsScrolled
<1>2. CASE c = "TAB"
  <2> DEFINE Space(v) == Scrolled(Marked(v, " "))
             Blanked(t) == Promised!Written(t, " ")
  <2>1. \A v \in Screens : Space(v) \in Screens
    BY MarkedType, Scrolling DEF Cell
  <2>2. \A v \in Screens : Rendered(Space(v)) = Blanked(Rendered(v))
    BY WriteIs DEF Cell
  <2>3. PutChar(s, c) = Scrolled(Space(Space(Space(Space(s)))))
    BY <1>2 DEF PutChar
  <2>4. Promised!Tabbed(Rendered(s)) = Blanked(Blanked(Blanked(Blanked(Rendered(s)))))
    BY DEF Promised!Tabbed, Promised!Blank
  <2> HIDE DEF Space, Blanked
  <2>5. PutChar(s, c) = Space(Space(Space(Space(s))))
    BY <1>1, <2>1, <2>3
  <2>6. Rendered(PutChar(s, c)) = Promised!Tabbed(Rendered(s))
    BY <2>1, <2>2, <2>4, <2>5
  <2> QED
    BY <2>6
<1>3. CASE c # "TAB"
  <2>1. PutChar(s, c) = Scrolled(Marked(s, c))
    BY <1>3 DEF PutChar
  <2>2. CASE c \in Glyphs
    <3>1. Rendered(PutChar(s, c)) = Promised!Written(Rendered(s), c)
      BY <2>1, <2>2, WriteIs DEF Cell
    <3> QED
      BY <2>2, <3>1
  <2>3. CASE c = "LF"
    BY <2>1, <2>3, NewLineIs
  <2>4. CASE c = "CR"
    BY <2>1, <2>4, ReturnIs
  <2>5. CASE c = "BS"
    BY <2>1, <2>5, EraseIs
  <2>6. CASE c = "NUL"
    <3>1. PutChar(s, c) = s
      BY <1>1, <2>1, <2>6, Marking
    <3> QED
      BY <3>1
  <2> QED
    BY <1>3, <2>2, <2>3, <2>4, <2>5, <2>6 DEF Chars, Controls
<1> QED
  BY <1>2, <1>3

\* What the refinement mapping makes of the screen.
LEMMA NowIs == Promised!Now = Rendered(TheScreen)
BY DEF Promised!Now, Rendered, TheScreen, Lines, At

LEMMA SameIs ==
  ASSUME Rendered(TheScreen)' = Rendered(TheScreen)
  PROVE  UNCHANGED Promised!terminal
BY DEF Promised!terminal, Rendered, TheScreen, Lines, At

LEMMA StepIs ==
  ASSUME NEW t, t = Rendered(TheScreen), NEW u, Rendered(TheScreen)' = u,
         \/ \E g \in Glyphs : u = Promised!Written(t, g)
         \/ u = Promised!Tabbed(t)
         \/ u = Promised!NextLine(t)
         \/ u = [t EXCEPT !.col = 1]
         \/ u = Promised!Erased(t)
         \/ u = [lines |-> [r \in 1..Rows |-> Promised!BlankLine], row |-> 1, col |-> 1]
  PROVE  Promised!Next
<1>1. t = Promised!Now
  BY NowIs
<1>2. /\ [r \in 1..Rows |-> [c \in 1..Cols |-> buffer'[(r - 1) * Cols + c - 1]]] = u.lines
      /\ (pos' \div Cols) + 1 = u.row
      /\ (pos' % Cols) + 1 = u.col
  BY DEF Rendered, TheScreen, Lines, At
<1>3. CASE \E g \in Glyphs : u = Promised!Written(t, g)
  BY <1>1, <1>2, <1>3 DEF Promised!Next, Promised!Write, Promised!Becomes
<1>4. CASE u = Promised!Tabbed(t)
  BY <1>1, <1>2, <1>4 DEF Promised!Next, Promised!Tab, Promised!Becomes
<1>5. CASE u = Promised!NextLine(t)
  BY <1>1, <1>2, <1>5 DEF Promised!Next, Promised!NewLine, Promised!Becomes
<1>6. CASE u = [t EXCEPT !.col = 1]
  BY <1>1, <1>2, <1>6 DEF Promised!Next, Promised!Return, Promised!Becomes
<1>7. CASE u = Promised!Erased(t)
  BY <1>1, <1>2, <1>7 DEF Promised!Next, Promised!Backspace, Promised!Becomes
<1>8. CASE u = [lines |-> [r \in 1..Rows |-> Promised!BlankLine], row |-> 1, col |-> 1]
  BY <1>2, <1>8 DEF Promised!Next, Promised!Clear, Promised!Becomes
<1> QED
  BY <1>3, <1>4, <1>5, <1>6, <1>7, <1>8

LEMMA PutStep ==
  ASSUME TheScreen \in Screens, NEW c \in Chars, Put(c)
  PROVE  /\ TheScreen' \in Screens
         /\ [Promised!Next]_Promised!terminal
<1>1. PutChar(TheScreen, c) \in Screens
  BY PutType
<1>2. TheScreen' = PutChar(TheScreen, c)
  <2> DEFINE v == PutChar(TheScreen, c)
  <2>1. v = [buffer |-> v.buffer, pos |-> v.pos]
    BY <1>1 DEF Screens
  <2>2. buffer' = v.buffer /\ pos' = v.pos
    BY DEF Put, Shows
  <2> HIDE DEF v
  <2>3. TheScreen' = v
    BY <2>1, <2>2 DEF TheScreen
  <2> QED
    BY <2>3 DEF v
<1>3. PICK t, u : t = Rendered(TheScreen) /\ u = Rendered(PutChar(TheScreen, c))
  OBVIOUS
<1>4. \/ c \in Glyphs /\ u = Promised!Written(t, c)
      \/ u = Promised!Tabbed(t)
      \/ u = Promised!NextLine(t)
      \/ u = [t EXCEPT !.col = 1]
      \/ u = Promised!Erased(t)
      \/ u = t
  BY <1>3, PutIs
<1>5. Rendered(TheScreen)' = u
  BY <1>2, <1>3 DEF Rendered
<1>6. u # t => Promised!Next
  BY <1>3, <1>4, <1>5, StepIs
<1>7. u = t => UNCHANGED Promised!terminal
  BY <1>3, <1>5, SameIs
<1> QED
  BY <1>1, <1>2, <1>6, <1>7

LEMMA ClearStep ==
  ASSUME TheScreen \in Screens, Clear
  PROVE  /\ TheScreen' \in Screens
         /\ Promised!Next
<1>1. TheScreen' = [buffer |-> AllBlank, pos |-> 0]
  BY DEF Clear, Shows, TheScreen
<1>2. TheScreen' \in Screens
  <2>1. AllBlank \in Frame
    BY DEF AllBlank, Frame, Cell
  <2>2. 0 \in 0..Size-1
    BY Sizes
  <2> QED
    BY <1>1, <2>1, <2>2 DEF Screens
<1>3. 1 \in 1..Rows /\ 1 \in 1..Cols /\ At(1, 1) = 0
  BY Sizes, PlaceNext
<1>4. Lines(AllBlank) = [r \in 1..Rows |-> Promised!BlankLine]
  <2>1. \A r \in 1..Rows, c \in 1..Cols : AllBlank[At(r, c)] = " "
    BY Place DEF AllBlank
  <2> QED
    BY <2>1 DEF Lines, Promised!BlankLine, Promised!Blank
<1>5. PICK t, u : /\ t = Rendered(TheScreen)
                  /\ u = [lines |-> [r \in 1..Rows |-> Promised!BlankLine], row |-> 1, col |-> 1]
  OBVIOUS
<1>6. Rendered(TheScreen)' = u
  <2>1. Rendered([buffer |-> AllBlank, pos |-> 0]) = [lines |-> Lines(AllBlank), row |-> 1, col |-> 1]
    BY <1>3, RenderedAt
  <2>2. Rendered(TheScreen)' = Rendered([buffer |-> AllBlank, pos |-> 0])
    BY <1>1 DEF Rendered
  <2> QED
    BY <1>4, <1>5, <2>1, <2>2
<1>7. Promised!Next
  BY <1>5, <1>6, StepIs
<1> QED
  BY <1>2, <1>7

(***************************************************************************)
(* What each step of the console does to the screen: it puts one character, *)
(* clears it, or leaves it alone.  Fits is inductive: the screen is one,    *)
(* what is to be printed is characters, and PrintBuf is never full.         *)
(***************************************************************************)
Fits == /\ TheScreen \in Screens
        /\ todo \in Seq(Chars) /\ pending \in Seq(Chars) /\ queue \in Seq(Chars)
        /\ Len(pending) < PrintBufSize - 1

LEMMA FitsInit == Init => Fits /\ Promised!Init
<1> SUFFICES ASSUME Init PROVE Fits /\ Promised!Init
  OBVIOUS
<1>1. buffer = AllBlank /\ pos \in 0..Size-1
  BY DEF Init, InitScreen
<1>2. TheScreen \in Screens
  <2>1. AllBlank \in Frame
    BY DEF AllBlank, Frame, Cell
  <2> QED
    BY <1>1, <2>1 DEF TheScreen, Screens
<1>3. Fits
  <2>1. PrintBufSize \in Nat /\ PrintBufSize > 1
    BY ConsoleAssumption
  <2> QED
    BY <1>2, <2>1 DEF Init, Fits
<1>4. Promised!Init
  <2>1. (pos \div Cols) + 1 \in 1..Rows /\ (pos % Cols) + 1 \in 1..Cols
    BY <1>1, PlaceOf
  <2>2. \A r \in 1..Rows, c \in 1..Cols : buffer[(r - 1) * Cols + c - 1] = " "
    BY <1>1, Place DEF AllBlank, At
  <2> QED
    BY <2>1, <2>2 DEF Promised!Init, Promised!BlankLine, Promised!Blank
<1> QED
  BY <1>3, <1>4

LEMMA SameScreen ==
  ASSUME Fits, UNCHANGED screen
  PROVE  TheScreen' \in Screens /\ [Promised!Next]_Promised!terminal
<1>1. TheScreen' = TheScreen
  BY DEF screen, TheScreen
<1>2. Rendered(TheScreen)' = Rendered(TheScreen)
  BY <1>1 DEF Rendered
<1> QED
  BY <1>1, <1>2, SameIs DEF Fits

LEMMA FitsStep ==
  ASSUME Fits, [Next]_vars
  PROVE  Fits' /\ [Promised!Next]_Promised!terminal
<1>1. /\ TheScreen \in Screens
      /\ todo \in Seq(Chars) /\ pending \in Seq(Chars) /\ queue \in Seq(Chars)
      /\ PrintBufSize \in Nat /\ PrintBufSize > 1
      /\ Len(pending) < PrintBufSize - 1 /\ Len(pending) \in Nat
  BY ConsoleAssumption DEF Fits
<1>2. ASSUME UNCHANGED <<todo, pending, queue>>, TheScreen' \in Screens
      PROVE  Fits'
  BY <1>1, <1>2 DEF Fits
<1>3. ASSUME NEW who \in Readers, NEW t \in Texts, NEW then \in {"away", "reading"}, StartPrint(who, t, then)
      PROVE  Fits' /\ [Promised!Next]_Promised!terminal
  <2>1. UNCHANGED screen /\ pending' = pending /\ todo' \in {t, <<>>} /\ queue' \in {t, <<>>}
    BY <1>3 DEF StartPrint
  <2>2. t \in Seq(Chars) /\ <<>> \in Seq(Chars)
    BY ConsoleAssumption
  <2>3. TheScreen' \in Screens /\ [Promised!Next]_Promised!terminal
    BY <2>1, SameScreen
  <2> QED
    BY <1>1, <2>1, <2>2, <2>3 DEF Fits
<1>4. CASE Format
  <2>1. UNCHANGED screen /\ todo # <<>> /\ todo' = Tail(todo)
    BY <1>4 DEF Format
  <2>2. TheScreen' \in Screens /\ [Promised!Next]_Promised!terminal
    BY <2>1, SameScreen
  <2> DEFINE full == Append(pending, Head(todo))
  <2>3. /\ todo' \in Seq(Chars) /\ full \in Seq(Chars) /\ Len(full) = Len(pending) + 1
    <3>1. Head(todo) \in Chars /\ Tail(todo) \in Seq(Chars)
      BY <1>1, <2>1, HeadTailProperties
    <3> QED
      BY <1>1, <2>1, <3>1
  <2>4. \/ UNCHANGED <<pending, queue>>
        \/ queue' = full /\ pending' = <<>>
        \/ pending' = full /\ queue' = queue /\ Len(full) # PrintBufSize - 1
    BY <1>4 DEF Format
  <2> HIDE DEF full
  <2>5. pending' \in Seq(Chars) /\ queue' \in Seq(Chars)
    <3>1. <<>> \in Seq(Chars)
      OBVIOUS
    <3> QED
      BY ONLY <1>1, <2>3, <2>4, <3>1, Zenon
  <2>6. Len(pending') < PrintBufSize - 1
    BY <1>1, <2>3, <2>4
  <2> QED
    BY <2>2, <2>3, <2>5, <2>6 DEF Fits
<1>5. CASE PutNext
  <2>1. queue # <<>> /\ Put(Head(queue)) /\ queue' = Tail(queue) /\ todo' = todo /\ pending' = pending
    BY <1>5 DEF PutNext
  <2>2. Head(queue) \in Chars /\ Tail(queue) \in Seq(Chars)
    BY <1>1, <2>1, HeadTailProperties
  <2>3. TheScreen' \in Screens /\ [Promised!Next]_Promised!terminal
    BY <1>1, <2>1, <2>2, PutStep
  <2> QED
    BY <1>1, <2>1, <2>2, <2>3 DEF Fits
<1>6. CASE Flush
  <2>1. UNCHANGED screen /\ queue' = pending /\ pending' = <<>> /\ todo' = todo
    BY <1>6 DEF Flush
  <2>2. TheScreen' \in Screens /\ [Promised!Next]_Promised!terminal
    BY <2>1, SameScreen
  <2>3. <<>> \in Seq(Chars) /\ Len(<<>>) < PrintBufSize - 1
    BY <1>1
  <2> QED
    BY <1>1, <2>1, <2>2, <2>3 DEF Fits
<1>7. CASE PrintEnds
  BY <1>2, <1>7, SameScreen DEF PrintEnds, printing
<1>8. CASE ClearScreen
  <2>1. Clear /\ UNCHANGED <<todo, pending, queue>>
    BY <1>8 DEF ClearScreen, printing
  <2> QED
    BY <1>1, <1>2, <2>1, ClearStep
<1>9. ASSUME NEW c \in Chars, Put(c), UNCHANGED printing
      PROVE  Fits' /\ [Promised!Next]_Promised!terminal
  BY <1>1, <1>2, <1>9, PutStep DEF printing
<1>10. ASSUME NEW c \in Keys, Type(c)
       PROVE  Fits' /\ [Promised!Next]_Promised!terminal
  BY <1>9, <1>10 DEF Type, Chars
<1>11. ASSUME NEW c \in Keys, Enter(c)
       PROVE  Fits' /\ [Promised!Next]_Promised!terminal
  BY <1>9, <1>11 DEF Enter, Chars, Controls
<1>12. CASE Erase
  BY <1>9, <1>12 DEF Erase, Chars, Controls
<1>13. CASE SpecialKey
  BY <1>2, <1>13, SameScreen DEF SpecialKey, printing
<1>14. CASE UNCHANGED vars
  BY <1>2, <1>14, SameScreen DEF vars, printing
<1> QED
  BY <1>3, <1>4, <1>5, <1>6, <1>7, <1>8, <1>10, <1>11, <1>12, <1>13, <1>14 DEF Next

(***************************************************************************)
(* putChar writes nowhere outside of the display's memory: the position is  *)
(* inside of it before each character, and so are the lines' buffers.       *)
(***************************************************************************)
THEOREM TypeCorrect == Spec => []TypeOK
<1>1. Spec => []Fits
  BY FitsInit, FitsStep, PTL DEF Spec
<1>2. IInv /\ Fits => TypeOK
  <2> SUFFICES ASSUME IInv, Fits PROVE TypeOK
    OBVIOUS
  <2>1. ScreenTypeOK
    <3>1. buffer \in Frame /\ pos \in 0..Size-1
      BY DEF Fits, TheScreen, Screens
    <3> QED
      BY <3>1 DEF ScreenTypeOK, Frame, Cell
  <2>2. Len(pending) < PrintBufSize
    <3>1. Len(pending) \in Nat /\ PrintBufSize \in Nat
      BY ConsoleAssumption DEF Fits
    <3> QED
      BY <3>1 DEF Fits
  <2>3. Typed
    BY DEF IInv
  <2>4. ASSUME NEW w \in Readers
        PROVE  /\ DOMAIN buf[w] = 0..LineBufSize-1
               /\ \A i \in DOMAIN buf[w] : buf[w][i] \in Glyphs \cup {"NUL"}
    <3>1. buf[w] \in [0..LineBufSize-1 -> Glyphs \cup {"NUL"}]
      BY <2>3 DEF Typed
    <3> QED
      BY <3>1
  <2> QED
    BY <2>1, <2>2, <2>3, <2>4 DEF TypeOK, Typed
<1> QED
  BY <1>1, <1>2, LineInBuffer, PTL

(***************************************************************************)
(* The display implements the terminal, for any numbers of rows and columns *)
(* and whatever is printed, typed and erased: each character that is put is *)
(* one operation of the terminal on the rows of the linear memory, or none. *)
(***************************************************************************)
THEOREM TerminalImplemented == Spec => ImplementsTerminal
<1>1. Init => Promised!Init
  BY FitsInit
<1>2. Init => Fits
  BY FitsInit
<1>3. Fits /\ [Next]_vars => Fits' /\ [Promised!Next]_Promised!terminal
  BY FitsStep
<1> QED
  BY <1>1, <1>2, <1>3, PTL DEF Spec, ImplementsTerminal, Promised!Spec

-----------------------------------------------------------------------------
(***************************************************************************)
(* The text that is printed.  Shown is a loop, of whose screens f is any    *)
(* sequence: so printing can be taken apart where queue, PrintBuf and the   *)
(* rest of the text meet.                                                   *)
(***************************************************************************)
Screening(f, s, text) == /\ f[0] = s
                         /\ \A k \in 1..Len(text) : f[k] = PutChar(f[k-1], text[k])

Putting(s, text) ==
    LET put[k \in 0..Len(text)] == IF k = 0 THEN s ELSE PutChar(put[k-1], text[k])
    IN put

LEMMA ShownBy ==
  ASSUME NEW s, NEW text \in Seq(Chars), NEW f, Screening(f, s, text)
  PROVE  Shown(s, text) = f[Len(text)]
<1> DEFINE n == Len(text)
           g == [k \in 0..n |-> f[k]]
           put == Putting(s, text)
<1>1. n \in Nat
  OBVIOUS
<1>2. g = [k \in 0..n |-> IF k = 0 THEN s ELSE PutChar(g[k-1], text[k])]
  <2> SUFFICES ASSUME NEW k \in 0..n
               PROVE  f[k] = IF k = 0 THEN s ELSE PutChar(g[k-1], text[k])
    OBVIOUS
  <2>1. CASE k = 0
    BY <2>1 DEF Screening
  <2>2. CASE k # 0
    <3>1. k \in 1..n /\ k - 1 \in 0..n
      BY <1>1, <2>2
    <3>2. g[k-1] = f[k-1]
      BY <3>1
    <3> QED
      BY <2>2, <3>1, <3>2 DEF Screening
  <2> QED
    BY <2>1, <2>2
<1>3. put = [k \in 0..n |-> IF k = 0 THEN s ELSE PutChar(put[k-1], text[k])]
  BY <1>2, Zenon DEF Putting
<1>4. Shown(s, text) = put[n]
  BY DEF Shown, Putting
<1> HIDE DEF put, g
<1> DEFINE T == {k \in Nat : k <= n => put[k] = f[k]}
<1>5. 0 \in T
  <2>1. 0 \in 0..n
    BY <1>1
  <2> QED
    BY <1>3, <2>1 DEF Screening
<1>6. \A k \in Nat : k \in T => k + 1 \in T
  <2> SUFFICES ASSUME NEW k \in Nat, k \in T, k + 1 <= n PROVE put[k+1] = f[k+1]
    OBVIOUS
  <2>1. k + 1 \in 0..n /\ k + 1 \in 1..n /\ k + 1 # 0 /\ (k + 1) - 1 = k /\ k <= n
    BY <1>1
  <2>2. put[k+1] = PutChar(put[k], text[k+1])
    BY <1>3, <2>1
  <2>3. f[k+1] = PutChar(f[k], text[k+1])
    BY <2>1 DEF Screening
  <2> QED
    BY <2>1, <2>2, <2>3
<1> HIDE DEF T
<1>7. \A k \in Nat : k \in T
  BY <1>5, <1>6, SetInduction
<1> QED
  BY <1>1, <1>4, <1>7 DEF T

LEMMA Screened ==
  ASSUME NEW s \in Screens, NEW text \in Seq(Chars)
  PROVE  \E f \in [0..Len(text) -> Screens] : Screening(f, s, text)
<1> DEFINE n == Len(text)
           step == [j \in Nat |-> [y \in Screens |-> IF j < n THEN PutChar(y, text[j+1]) ELSE y]]
<1>1. n \in Nat
  OBVIOUS
<1>2. ASSUME NEW j \in Nat, NEW y \in Screens
      PROVE  (IF j < n THEN PutChar(y, text[j+1]) ELSE y) \in Screens
  <2>1. j < n => text[j+1] \in Chars
    BY <1>1
  <2> QED
    BY <2>1, PutType
<1>3. /\ step \in [Nat -> [Screens -> Screens]]
      /\ \A j \in Nat : \A y \in Screens : step[j][y] = IF j < n THEN PutChar(y, text[j+1]) ELSE y
  BY <1>2
<1> HIDE DEF step
<1>4. PICK f \in [0..n -> Screens] : f[0] = s /\ \A k \in 1..n : f[k] = step[k-1][f[k-1]]
  <2> HIDE DEF n
  <2>1. Runs(n, Screens, s, step)
    BY <1>1, <1>3, Recursion
  <2> QED
    BY <2>1 DEF Runs
<1>5. \A k \in 1..n : f[k] = PutChar(f[k-1], text[k])
  <2> TAKE k \in 1..n
  <2>1. k - 1 \in Nat /\ k - 1 \in 0..n /\ k - 1 < n /\ (k - 1) + 1 = k
    BY <1>1
  <2>2. f[k-1] \in Screens
    BY <1>4, <2>1
  <2> QED
    BY <1>3, <1>4, <2>1, <2>2
<1> QED
  BY <1>4, <1>5 DEF Screening

LEMMA ShownType ==
  ASSUME NEW s \in Screens, NEW text \in Seq(Chars)
  PROVE  Shown(s, text) \in Screens
<1>1. PICK f \in [0..Len(text) -> Screens] : Screening(f, s, text)
  BY Screened
<1>2. Len(text) \in 0..Len(text)
  OBVIOUS
<1> QED
  BY <1>1, <1>2, ShownBy

LEMMA ShownNothing ==
  ASSUME NEW s
  PROVE  Shown(s, <<>>) = s
<1> DEFINE f == [k \in {0} |-> s]
<1>1. <<>> \in Seq(Chars) /\ Len(<<>>) = 0
  OBVIOUS
<1>2. Screening(f, s, <<>>)
  BY <1>1 DEF Screening
<1>3. f[0] = s
  OBVIOUS
<1> HIDE DEF f
<1> QED
  BY <1>1, <1>2, <1>3, ShownBy

LEMMA ShownRest ==
  ASSUME NEW s \in Screens, NEW text \in Seq(Chars), text # <<>>
  PROVE  Shown(PutChar(s, Head(text)), Tail(text)) = Shown(s, text)
<1> DEFINE n == Len(text)
           u == PutChar(s, Head(text))
<1>1. PICK f \in [0..n -> Screens] : Screening(f, s, text)
  BY Screened
<1>2. /\ Tail(text) \in Seq(Chars) /\ Len(Tail(text)) = n - 1 /\ n \in Nat /\ n > 0
      /\ \A k \in 1..n-1 : Tail(text)[k] = text[k+1]
      /\ Head(text) = text[1]
  BY HeadTailProperties
<1> DEFINE g == [k \in 0..n-1 |-> f[k+1]]
<1>3. Screening(g, u, Tail(text))
  <2>1. g[0] = u
    <3>1. f[1] = PutChar(f[1-1], text[1]) /\ f[0] = s /\ 0 \in 0..n-1
      BY <1>1, <1>2 DEF Screening
    <3> QED
      BY <1>2, <3>1
  <2>2. \A k \in 1..n-1 : g[k] = PutChar(g[k-1], Tail(text)[k])
    <3> TAKE k \in 1..n-1
    <3>1. k + 1 \in 1..n /\ (k + 1) - 1 = k /\ k \in 0..n-1 /\ k - 1 \in 0..n-1 /\ (k - 1) + 1 = k
      BY <1>2
    <3>2. f[k+1] = PutChar(f[k], text[k+1])
      BY <1>1, <3>1 DEF Screening
    <3>3. g[k] = f[k+1] /\ g[k-1] = f[k]
      BY <3>1
    <3> QED
      BY <1>2, <3>2, <3>3
  <2> HIDE DEF g
  <2> QED
    BY <1>2, <2>1, <2>2 DEF Screening
<1>4. Shown(u, Tail(text)) = g[n-1]
  <2> HIDE DEF g, u
  <2> QED
    BY <1>2, <1>3, ShownBy
<1>5. g[n-1] = f[n]
  BY <1>2
<1> HIDE DEF g
<1>6. Shown(s, text) = f[n]
  BY <1>1, ShownBy
<1> QED
  BY <1>4, <1>5, <1>6

\* A NUL shows nothing, wherever PrintBuf leaves it out.
LEMMA ShownWithout ==
  ASSUME NEW s \in Screens, NEW a \in Seq(Chars), NEW b \in Seq(Chars)
  PROVE  Shown(s, Append(a, "NUL") \o b) = Shown(s, a \o b)
<1> DEFINE n == Len(a)
           l == Len(b)
           t == a \o b
           u == Append(a, "NUL")
           v == u \o b
<1>1. "NUL" \in Chars /\ n \in Nat /\ l \in Nat
  BY DEF Chars, Controls
<1>2. /\ t \in Seq(Chars) /\ Len(t) = n + l
      /\ \A k \in 1..n+l : t[k] = IF k <= n THEN a[k] ELSE b[k-n]
  BY ConcatProperties
<1>3. /\ u \in Seq(Chars) /\ Len(u) = n + 1 /\ u[n+1] = "NUL"
      /\ \A k \in 1..n : u[k] = a[k]
  BY <1>1, AppendProperties
<1> HIDE DEF u
<1>4. /\ v \in Seq(Chars) /\ Len(v) = n + 1 + l
      /\ \A k \in 1..n+1+l : v[k] = IF k <= n + 1 THEN u[k] ELSE b[k-(n+1)]
  <2>1. /\ v \in Seq(Chars) /\ Len(v) = Len(u) + Len(b)
        /\ \A k \in 1..Len(u)+Len(b) : v[k] = IF k <= Len(u) THEN u[k] ELSE b[k-Len(u)]
    BY <1>3, ConcatProperties
  <2> HIDE DEF v
  <2> QED
    BY <1>3, <2>1
<1> HIDE DEF t, v
<1>5. PICK f \in [0..n+l -> Screens] : Screening(f, s, t)
  BY <1>2, Screened
<1> DEFINE g == [k \in 0..n+1+l |-> IF k <= n THEN f[k] ELSE f[k-1]]
<1>6. \A x \in Screens : PutChar(x, "NUL") = x
  <2> TAKE x \in Screens
  <2>1. Marked(x, "NUL") = x /\ x.pos # Size
    <3>1. x.pos \in 0..Size-1 /\ Size \in Nat
      BY Sizes DEF Screens
    <3>2. Marked(x, "NUL") = x
      BY Marking
    <3>3. x.pos # Size
      BY <3>1
    <3> QED
      BY <3>2, <3>3
  <2>2. "NUL" # "TAB"
    OBVIOUS
  <2>3. PutChar(x, "NUL") = Scrolled(x)
    BY <2>1, <2>2 DEF PutChar
  <2> QED
    BY <2>1, <2>3 DEF Scrolled
<1>7. Screening(g, s, v)
  <2>1. g[0] = s
    BY <1>1, <1>5 DEF Screening
  <2>2. ASSUME NEW k \in 1..n+1+l PROVE g[k] = PutChar(g[k-1], v[k])
    <3>1. k \in 0..n+1+l /\ k - 1 \in 0..n+1+l
      BY <1>1
    <3>2. CASE k <= n
      <4>1. /\ g[k] = f[k] /\ g[k-1] = f[k-1] /\ k \in 1..n+l /\ k \in 1..n
        BY <1>1, <3>1, <3>2
      <4>2. v[k] = u[k] /\ u[k] = a[k] /\ t[k] = a[k]
        BY <1>1, <1>2, <1>3, <1>4, <3>2, <4>1
      <4> QED
        BY <1>2, <1>5, <4>1, <4>2 DEF Screening
    <3>3. CASE k = n + 1
      <4>1. g[k] = f[n] /\ g[k-1] = f[n] /\ v[k] = "NUL" /\ f[n] \in Screens
        BY <1>1, <1>3, <1>4, <1>5, <3>1, <3>3
      <4> QED
        BY <1>6, <4>1
    <3>4. CASE k > n + 1
      <4>1. /\ g[k] = f[k-1] /\ g[k-1] = f[(k-1)-1] /\ v[k] = b[k-(n+1)]
            /\ k - 1 \in 1..n+l /\ t[k-1] = b[(k-1)-n] /\ k-(n+1) = (k-1)-n
        BY <1>1, <1>2, <1>4, <3>1, <3>4
      <4> QED
        BY <1>2, <1>5, <4>1 DEF Screening
    <3> QED
      BY <1>1, <3>2, <3>3, <3>4
  <2> HIDE DEF g
  <2> QED
    BY <1>4, <2>1, <2>2 DEF Screening
<1>8. g[n+1+l] = f[n+l]
  BY <1>1
<1> HIDE DEF g
<1>9. Shown(s, v) = g[n+1+l] /\ Shown(s, t) = f[n+l]
  BY <1>2, <1>4, <1>5, <1>7, ShownBy
<1> QED
  BY <1>8, <1>9 DEF t, u, v

-----------------------------------------------------------------------------
(***************************************************************************)
(* The line on the screen.  Left of the cursor of s stands the end of w.    *)
(***************************************************************************)
Echoes(s, w) == s.pos <= Len(w) /\ Cells(s) = Tip(w, s.pos)

LEMMA EchoIs ==
  ASSUME NEW s \in Screens, NEW w \in Seq(Cell)
  PROVE  Echoes(s, w) <=> /\ s.pos <= Len(w)
                          /\ \A i \in 1..s.pos : s.buffer[i-1] = w[Len(w) - s.pos + i]
<1> DEFINE n == s.pos
           l == Len(w)
           e == SubSeq(w, l - n + 1, l)
           c == Cells(s)
<1> SUFFICES ASSUME n <= l
             PROVE  c = e <=> \A i \in 1..n : s.buffer[i-1] = w[l - n + i]
  BY DEF Echoes, Tip
<1>1. n \in Nat /\ l \in Nat /\ \A i \in 1..n : s.buffer[i-1] \in Cell
  <2>1. n \in 0..Size-1 /\ Size \in Nat /\ s.buffer \in [0..Size-1 -> Cell]
    BY Sizes DEF Screens, Frame
  <2> QED
    BY <2>1
<1>2. c \in Seq(Cell) /\ Len(c) = n /\ \A i \in 1..n : c[i] = s.buffer[i-1]
  BY <1>1 DEF Cells
<1>3. e \in Seq(Cell) /\ Len(e) = n /\ \A i \in 1..n : e[i] = w[l - n + i]
  <2> DEFINE a == l - n + 1
  <2>1. a \in Int /\ l \in Int /\ \A i \in a..l : w[i] \in Cell
    BY <1>1
  <2> HIDE DEF l, n
  <2>2. e = SubSeq(w, a, l)
    OBVIOUS
  <2>3. l - a + 1 = n /\ (a <= l \/ n = 0) /\ \A i \in 1..n : a + i - 1 = l - n + i
    BY <1>1
  <2> HIDE DEF a, e
  <2>4. /\ e \in Seq(Cell) /\ Len(e) = IF a <= l THEN l - a + 1 ELSE 0
        /\ \A i \in 1..l-a+1 : e[i] = w[a + i - 1]
    BY <2>1, <2>2, SubSeqProperties
  <2>5. Len(e) = n
    BY <2>1, <2>3, <2>4, <1>1
  <2> QED
    BY <2>3, <2>4, <2>5
<1> HIDE DEF c, e, n, l
<1> QED
  <2>1. ASSUME c = e PROVE \A i \in 1..n : s.buffer[i-1] = w[l - n + i]
    BY <1>2, <1>3, <2>1
  <2>2. ASSUME \A i \in 1..n : s.buffer[i-1] = w[l - n + i] PROVE c = e
    BY <1>2, <1>3, <2>2, SeqEqual
  <2> QED
    BY <2>1, <2>2

\* Also when the screen scrolls under it.
LEMMA EchoType ==
  ASSUME NEW s \in Screens, NEW w \in Seq(Cell), Echoes(s, w), NEW g \in Glyphs
  PROVE  Echoes(PutChar(s, g), Append(w, g))
<1> DEFINE m == Marked(s, g)
           u == PutChar(s, g)
           v == Append(w, g)
           n == s.pos
           l == Len(w)
<1>1. /\ n \in 0..Size-1 /\ Size \in Nat /\ s.buffer \in [0..Size-1 -> Cell]
      /\ Cols \in Nat /\ Cols > 0 /\ Size > Cols
  BY Sizes DEF Screens, Frame
<1>2. g \in Cell /\ g # "TAB" /\ g \in Chars
  BY ScreenAssumption DEF Cell, Chars, Controls
<1>3. m = [buffer |-> [s.buffer EXCEPT ![n] = g], pos |-> n + 1]
  BY <1>2, Marking
<1>4. m \in [buffer : Frame, pos : 0..Size]
  BY <1>2, MarkedType
<1>5. u = Scrolled(m)
  BY <1>2 DEF PutChar
<1>6. u \in Screens /\ IsScrolled(m, u)
  BY <1>4, <1>5, Scrolling
<1> HIDE DEF u
<1>7. /\ m.pos = n + 1 /\ m.buffer[n] = g
      /\ \A p \in 0..Size-1 : p # n => m.buffer[p] = s.buffer[p]
  BY <1>1, <1>3
<1> HIDE DEF m
<1>8. v \in Seq(Cell) /\ Len(v) = l + 1 /\ v[l+1] = g /\ \A i \in 1..l : v[i] = w[i]
  BY <1>2, AppendProperties
<1> HIDE DEF v
<1>9. n <= l /\ l \in Nat /\ \A i \in 1..n : s.buffer[i-1] = w[l - n + i]
  BY EchoIs
<1> HIDE DEF n, l
<1>10. ASSUME NEW i \in 1..n+1 PROVE m.buffer[i-1] = v[(l + 1) - (n + 1) + i]
  <2>1. CASE i <= n
    <3>1. /\ i \in 1..n /\ i - 1 \in 0..Size-1 /\ i - 1 # n /\ l - n + i \in 1..l
          /\ (l + 1) - (n + 1) + i = l - n + i
      BY <1>1, <1>9, <2>1
    <3>2. m.buffer[i-1] = s.buffer[i-1] /\ v[l - n + i] = w[l - n + i]
      BY <1>7, <1>8, <3>1
    <3> QED
      BY <1>9, <3>1, <3>2
  <2>2. CASE i = n + 1
    <3>1. i - 1 = n /\ (l + 1) - (n + 1) + i = l + 1
      BY <1>1, <1>9, <2>2
    <3> QED
      BY <1>7, <1>8, <3>1
  <2> QED
    BY <1>1, <2>1, <2>2
<1>11. u.pos <= l + 1 /\ \A i \in 1..u.pos : u.buffer[i-1] = v[(l + 1) - u.pos + i]
  <2>1. CASE n + 1 # Size
    <3>1. u = m
      BY <1>6, <1>7, <2>1 DEF IsScrolled
    <3>2. u.pos = n + 1
      BY <1>7, <3>1
    <3>3. u.pos <= l + 1
      BY <1>1, <1>9, <3>2
    <3>4. \A i \in 1..n+1 : u.buffer[i-1] = v[(l + 1) - (n + 1) + i]
      BY <1>10, <3>1
    <3> QED
      BY <3>2, <3>3, <3>4
  <2>2. CASE n + 1 = Size
    <3>1. u.pos = Size - Cols /\ Raised(m.buffer, u.buffer)
      BY <1>6, <1>7, <2>2 DEF IsScrolled
    <3>2. ASSUME NEW i \in 1..u.pos PROVE u.buffer[i-1] = v[(l + 1) - u.pos + i]
      <4>1. /\ i - 1 \in 0..Size-1 /\ ~(i - 1 >= Size - Cols)
            /\ (i - 1) + Cols = (i + Cols) - 1 /\ i + Cols \in 1..n+1
            /\ (l + 1) - (n + 1) + (i + Cols) = (l + 1) - u.pos + i
        BY <1>1, <1>9, <2>2, <3>1
      <4>2. u.buffer[i-1] = m.buffer[(i-1) + Cols]
        BY <3>1, <4>1 DEF Raised
      <4>3. m.buffer[(i + Cols)-1] = v[(l + 1) - (n + 1) + (i + Cols)]
        BY <1>10, <4>1
      <4> QED
        BY <4>1, <4>2, <4>3
    <3> QED
      BY <1>1, <1>9, <2>2, <3>1, <3>2
  <2> QED
    BY <2>1, <2>2
<1>12. Echoes(u, v)
  BY <1>6, <1>8, <1>11, EchoIs
<1> QED
  BY <1>12 DEF u, v

LEMMA EchoErase ==
  ASSUME NEW s \in Screens, NEW w \in Seq(Cell), Echoes(s, w), w # <<>>
  PROVE  Echoes(PutChar(s, "BS"), Front(w))
<1> DEFINE n == s.pos
           l == Len(w)
           v == Front(w)
           u == PutChar(s, "BS")
<1>1. /\ n \in 0..Size-1 /\ Size \in Nat /\ s.buffer \in [0..Size-1 -> Cell]
  BY Sizes DEF Screens, Frame
<1>2. u \in Screens
  BY PutType DEF Chars, Controls
<1>3. u = Scrolled(Marked(s, "BS"))
  BY DEF PutChar
<1>4. l \in Nat /\ l > 0 /\ n <= l /\ \A i \in 1..n : s.buffer[i-1] = w[l - n + i]
  BY EchoIs
<1>5. v \in Seq(Cell) /\ Len(v) = l - 1 /\ \A i \in 1..l-1 : v[i] = w[i]
  <2>1. v = SubSeq(w, 1, l - 1)
    BY DEF Front
  <2>2. \A i \in 1..l-1 : w[i] \in Cell
    BY <1>4
  <2>3. /\ SubSeq(w, 1, l - 1) \in Seq(Cell)
        /\ Len(SubSeq(w, 1, l - 1)) = IF 1 <= l - 1 THEN l - 1 - 1 + 1 ELSE 0
        /\ \A i \in 1..l-1-1+1 : SubSeq(w, 1, l - 1)[i] = w[1 + i - 1]
    BY <1>4, <2>2, SubSeqProperties
  <2> HIDE DEF v
  <2>4. l - 1 - 1 + 1 = l - 1 /\ \A i \in 1..l-1 : 1 + i - 1 = i
    BY <1>4
  <2> QED
    BY <1>4, <2>1, <2>3, <2>4
<1> HIDE DEF v
<1>6. u.pos <= l - 1 /\ \A i \in 1..u.pos : u.buffer[i-1] = v[(l - 1) - u.pos + i]
  <2>1. CASE n > 0
    <3> DEFINE b == [s.buffer EXCEPT ![n - 1] = " "]
    <3>1. Marked(s, "BS") = [buffer |-> b, pos |-> n - 1]
      BY <2>1, Marking
    <3> HIDE DEF u
    <3>2. Scrolled([buffer |-> b, pos |-> n - 1]) = [buffer |-> b, pos |-> n - 1]
      <4>1. n - 1 # Size
        BY <1>1
      <4> QED
        BY <4>1 DEF Scrolled
    <3>3. u.buffer = b /\ u.pos = n - 1
      <4>1. u = [buffer |-> b, pos |-> n - 1]
        BY <1>3, <3>1, <3>2
      <4> QED
        BY <4>1
    <3>4. \A i \in 1..n-1 : b[i-1] = s.buffer[i-1]
      <4>1. \A i \in 1..n-1 : i - 1 \in 0..Size-1 /\ i - 1 # n - 1
        BY <1>1
      <4> QED
        BY <1>1, <4>1
    <3> HIDE DEF b, n, l
    <3>5. \A i \in 1..n-1 : /\ (l - 1) - (n - 1) + i = l - n + i /\ i \in 1..n
                            /\ l - n + i \in 1..l-1
      BY <1>1, <1>4
    <3>6. n - 1 <= l - 1
      BY <1>1, <1>4
    <3>7. \A i \in 1..n-1 : u.buffer[i-1] = v[(l - 1) - (n - 1) + i]
      BY <1>4, <1>5, <3>3, <3>4, <3>5
    <3> QED
      BY <3>3, <3>6, <3>7
  <2>2. CASE n = 0
    <3>1. Marked(s, "BS") = s /\ n # Size
      <4>1. Marked(s, "BS") = s
        <5>1. ~(s.pos > 0)
          BY <2>2
        <5> QED
          BY <5>1, Marking
      <4>2. n # Size
        BY <1>1
      <4> QED
        BY <4>1, <4>2
    <3>2. u = s
      BY <1>3, <3>1 DEF Scrolled
    <3> QED
      BY <1>4, <2>2, <3>2
  <2> QED
    BY <1>1, <2>1, <2>2
<1> HIDE DEF u
<1>7. Echoes(u, v)
  BY <1>2, <1>5, <1>6, EchoIs
<1> QED
  BY <1>7 DEF u, v

\* Pieces of sequences that are cut and joined elsewhere.
LEMMA Joined ==
  ASSUME NEW S, NEW a \in Seq(S), NEW b \in Seq(S), b # <<>>
  PROVE  /\ Append(a, Head(b)) \o Tail(b) = a \o b
         /\ Head(b \o a) = Head(b) /\ Tail(b \o a) = Tail(b) \o a /\ b \o a # <<>>
<1> DEFINE n == Len(a)
           l == Len(b)
           h == Head(b)
           t == Tail(b)
           u == Append(a, h)
<1>1. /\ h \in S /\ t \in Seq(S) /\ Len(t) = l - 1 /\ l \in Nat /\ l > 0 /\ n \in Nat /\ h = b[1]
      /\ \A i \in 1..l-1 : t[i] = b[i+1]
  BY HeadTailProperties
<1> HIDE DEF h, t
<1>2. u \in Seq(S) /\ Len(u) = n + 1 /\ u[n+1] = h /\ \A i \in 1..n : u[i] = a[i]
  BY <1>1, AppendProperties
<1> HIDE DEF u
<1>3. u \o t = a \o b
  <2> DEFINE x == u \o t
             y == a \o b
  <2>1. /\ x \in Seq(S) /\ Len(x) = Len(u) + Len(t)
        /\ \A i \in 1..Len(u)+Len(t) : x[i] = IF i <= Len(u) THEN u[i] ELSE t[i-Len(u)]
    BY <1>1, <1>2, ConcatProperties
  <2>2. /\ y \in Seq(S) /\ Len(y) = n + l
        /\ \A i \in 1..n+l : y[i] = IF i <= n THEN a[i] ELSE b[i-n]
    BY ConcatProperties
  <2> HIDE DEF x, y, n, l
  <2>3. Len(x) = n + l /\ \A i \in 1..n+l : x[i] = IF i <= n + 1 THEN u[i] ELSE t[i-(n+1)]
    <3>1. Len(u) + Len(t) = n + l /\ Len(u) = n + 1
      BY <1>1, <1>2
    <3> QED
      BY <2>1, <3>1
  <2>4. ASSUME NEW i \in 1..n+l PROVE x[i] = y[i]
    <3>1. CASE i <= n
      <4>1. i \in 1..n /\ i <= n + 1
        BY <1>1, <3>1
      <4> QED
        BY <1>2, <2>2, <2>3, <3>1, <4>1
    <3>2. CASE i = n + 1
      <4>1. i <= n + 1 /\ ~(i <= n) /\ i - n = 1
        BY <1>1, <3>2
      <4> QED
        BY <1>1, <1>2, <2>2, <2>3, <3>2, <4>1
    <3>3. CASE i > n + 1
      <4>1. ~(i <= n + 1) /\ ~(i <= n) /\ i-(n+1) \in 1..l-1 /\ (i-(n+1)) + 1 = i - n
        BY <1>1, <3>3
      <4> QED
        BY <1>1, <2>2, <2>3, <4>1
    <3> QED
      BY <1>1, <3>1, <3>2, <3>3
  <2>5. x = y
    BY <2>1, <2>2, <2>3, <2>4, SeqEqual
  <2> QED
    BY <2>5 DEF x, y
<1> DEFINE y == b \o a
<1>4. /\ y \in Seq(S) /\ Len(y) = l + n
      /\ \A i \in 1..l+n : y[i] = IF i <= l THEN b[i] ELSE a[i-l]
  BY ConcatProperties
<1> HIDE DEF y
<1>5. y # <<>> /\ y[1] = b[1]
  <2>1. 1 \in 1..l+n /\ 1 <= l
    BY <1>1
  <2>2. Len(y) > 0
    BY <1>1, <1>4
  <2> QED
    BY <1>4, <2>1, <2>2
<1>6. Head(y) = h
  BY <1>1, <1>4, <1>5
<1>7. Tail(y) = t \o a
  <2> DEFINE z == Tail(y)
             x == t \o a
  <2>1. z \in Seq(S) /\ Len(z) = Len(y) - 1 /\ \A i \in 1..Len(z) : z[i] = y[i+1]
    BY <1>4, <1>5, HeadTailProperties
  <2>2. /\ x \in Seq(S) /\ Len(x) = Len(t) + n
        /\ \A i \in 1..Len(t)+n : x[i] = IF i <= Len(t) THEN t[i] ELSE a[i-Len(t)]
    BY <1>1, ConcatProperties
  <2> HIDE DEF z, x, n, l
  <2>3. Len(z) = l + n - 1 /\ Len(x) = l + n - 1
    BY <1>1, <1>4, <2>1, <2>2
  <2>4. ASSUME NEW i \in 1..l+n-1 PROVE z[i] = x[i]
    <3>1. i + 1 \in 1..l+n /\ i \in 1..Len(z) /\ i \in 1..Len(t)+n
      BY <1>1, <2>3
    <3>2. z[i] = IF i + 1 <= l THEN b[i+1] ELSE a[(i+1)-l]
      BY <1>4, <2>1, <3>1
    <3>3. x[i] = IF i <= l - 1 THEN t[i] ELSE a[i-(l-1)]
      BY <1>1, <2>2, <3>1
    <3>4. CASE i <= l - 1
      <4>1. i + 1 <= l /\ i \in 1..l-1
        BY <1>1, <3>4
      <4> QED
        BY <1>1, <3>2, <3>3, <3>4, <4>1
    <3>5. CASE i > l - 1
      <4>1. ~(i + 1 <= l) /\ ~(i <= l - 1) /\ (i+1)-l = i-(l-1)
        BY <1>1, <3>5
      <4> QED
        BY <3>2, <3>3, <4>1
    <3> QED
      BY <1>1, <3>4, <3>5
  <2>5. z = x
    BY <2>1, <2>2, <2>3, <2>4, SeqEqual
  <2> QED
    BY <2>5 DEF x, z
<1> QED
  BY <1>3, <1>5, <1>6, <1>7 DEF u, h, t, y

\* The other end.
LEMMA JoinedLast ==
  ASSUME NEW S, NEW a \in Seq(S), NEW b \in Seq(S)
  PROVE  /\ \A c \in S : a \o Append(b, c) = Append(a \o b, c)
         /\ b # <<>> => a \o b # <<>> /\ Front(a \o b) = a \o Front(b)
<1>1. ASSUME NEW c \in S, NEW d \in Seq(S) PROVE a \o Append(d, c) = Append(a \o d, c)
  <2>1. Append(d, c) = d \o <<c>> /\ <<c>> \in Seq(S) /\ a \o d \in Seq(S)
    BY AppendIsConcat, ConcatProperties
  <2>2. Append(a \o d, c) = (a \o d) \o <<c>>
    BY <2>1, AppendIsConcat
  <2> QED
    BY <2>1, <2>2, ConcatAssociative
<1>2. ASSUME NEW x \in Seq(S), NEW c \in S PROVE Front(Append(x, c)) = x
  <2>1. Len(Append(x, c)) = Len(x) + 1 /\ Len(x) \in Nat
    BY AppendProperties
  <2>2. SubSeq(Append(x, c), 1, Len(x)) = x
    OBVIOUS
  <2> QED
    BY <2>1, <2>2 DEF Front
<1>3. ASSUME b # <<>> PROVE a \o b # <<>> /\ Front(a \o b) = a \o Front(b)
  <2>1. PICK d \in Seq(S), c \in S : b = Append(d, c)
    BY <1>3, SequenceEmptyOrAppend
  <2>2. a \o b = Append(a \o d, c) /\ a \o d \in Seq(S)
    BY <1>1, <2>1, ConcatProperties
  <2>3. Front(b) = d /\ Front(a \o b) = a \o d
    BY <1>2, <2>1, <2>2
  <2>4. a \o b # <<>>
    BY <2>2, AppendProperties
  <2> QED
    BY <2>3, <2>4
<1> QED
  BY <1>1, <1>3

-----------------------------------------------------------------------------
(***************************************************************************)
(* EchoShowsLine speaks of the time while a line is edited.  It comes from  *)
(* what holds while the prompt is printed, in pieces: what is left of it    *)
(* leads to the screen that was promised.                                   *)
(***************************************************************************)
Rest == (queue \o pending) \o todo

EchoInv ==
    /\ above \in Seq(Cell)
    /\ pc = "printing" => /\ Cells(Shown(TheScreen, Rest)) = above
                          /\ after = "reading" => line[reader] = <<>>
    /\ pc # "printing" => queue = <<>> /\ pending = <<>> /\ todo = <<>>
    /\ pc = "reading" => Echoes(TheScreen, above \o line[reader])

LEMMA PutIsNext ==
  ASSUME TheScreen \in Screens, NEW c \in Chars, Put(c)
  PROVE  TheScreen' = PutChar(TheScreen, c)
<1> DEFINE v == PutChar(TheScreen, c)
<1>1. v \in Screens
  BY PutType
<1>2. v = [buffer |-> v.buffer, pos |-> v.pos]
  BY <1>1 DEF Screens
<1>3. buffer' = v.buffer /\ pos' = v.pos
  BY DEF Put, Shows
<1> HIDE DEF v
<1>4. TheScreen' = v
  BY <1>2, <1>3 DEF TheScreen
<1> QED
  BY <1>4 DEF v

LEMMA RestIs ==
  ASSUME Fits
  PROVE  /\ Rest \in Seq(Chars)
         /\ queue = <<>> => Rest = pending \o todo
         /\ pending = <<>> /\ todo = <<>> => Rest = queue
<1>1. /\ todo \in Seq(Chars) /\ pending \in Seq(Chars) /\ queue \in Seq(Chars)
      /\ queue \o pending \in Seq(Chars)
  BY ConcatProperties DEF Fits
<1> QED
  BY <1>1, ConcatProperties, ConcatEmptySeq DEF Rest

LEMMA EchoInvInit == Init => EchoInv
<1> SUFFICES ASSUME Init PROVE EchoInv
  OBVIOUS
<1>1. <<>> \in Seq(Cell)
  OBVIOUS
<1> QED
  BY <1>1 DEF Init, EchoInv

LEMMA EchoPrint ==
  ASSUME IInv, Fits, EchoInv, Fits', NEW who \in Readers, NEW t \in Texts,
         NEW then \in {"away", "reading"}, StartPrint(who, t, then)
  PROVE  EchoInv'
<1>1. /\ pc = "away" /\ pc' = "printing" /\ reader' = who /\ after' = then
      /\ line' = IF then = "reading" THEN [line EXCEPT ![who] = <<>>] ELSE line
      /\ above' = Cells(Shown(TheScreen, t)) /\ UNCHANGED screen /\ pending' = pending
      /\ \/ todo' = t /\ queue' = <<>>
         \/ todo' = <<>> /\ queue' = t
  BY DEF StartPrint
<1>2. pending' = <<>> /\ t \in Seq(Chars)
  BY <1>1, ConsoleAssumption DEF EchoInv
<1>3. Rest' = t
  <2>1. (queue' \o <<>>) \o todo' = t
    <3>1. <<>> \in Seq(Chars) /\ <<>> \o <<>> = <<>>
      BY ConcatEmptySeq
    <3> QED
      BY <1>1, <1>2, <3>1, ConcatEmptySeq
  <2> QED
    BY <1>2, <2>1 DEF Rest
<1>4. TheScreen' = TheScreen
  BY <1>1 DEF TheScreen, screen
<1>5. Shown(TheScreen, t) \in Screens
  BY <1>2, ShownType DEF Fits
<1>6. \A s \in Screens : Cells(s) \in Seq(Cell)
  <2> TAKE s \in Screens
  <2>1. s.pos \in Nat /\ \A i \in 1..s.pos : s.buffer[i-1] \in Cell
    BY Sizes DEF Screens, Frame
  <2> QED
    BY <2>1 DEF Cells
<1>7. above' \in Seq(Cell)
  BY <1>1, <1>5, <1>6
<1>8. Cells(Shown(TheScreen, Rest))' = above'
  <2>1. Cells(Shown(TheScreen', Rest')) = above'
    BY <1>1, <1>3, <1>4
  <2> QED
    BY <2>1 DEF Cells, Shown
<1>9. then = "reading" => line'[who] = <<>>
  BY <1>1 DEF IInv, Typed
<1> QED
  BY <1>1, <1>7, <1>8, <1>9 DEF EchoInv

LEMMA EchoPrints ==
  ASSUME IInv, Fits, EchoInv, Format \/ PutNext \/ Flush
  PROVE  EchoInv'
<1>1. /\ pc = "printing" /\ pc' = "printing" /\ after' = after /\ reader' = reader
      /\ line' = line /\ above' = above
  BY DEF Format, PutNext, Flush, edit
<1>2. /\ TheScreen \in Screens /\ todo \in Seq(Chars) /\ pending \in Seq(Chars)
      /\ queue \in Seq(Chars)
  BY DEF Fits
<1>3. <<>> \in Seq(Chars) /\ \A x \in Seq(Chars) : x \o <<>> = x /\ <<>> \o x = x
  BY ConcatEmptySeq
<1>4. Rest \in Seq(Chars)
  BY RestIs
<1>5. Shown(TheScreen', Rest') = Shown(TheScreen, Rest)
  <2>1. CASE Format
    <3> DEFINE h == Head(todo)
               full == Append(pending, h)
    <3>1. /\ queue = <<>> /\ todo # <<>> /\ todo' = Tail(todo) /\ UNCHANGED screen
          /\ \/ h = "NUL" /\ pending' = pending /\ queue' = queue
             \/ queue' = full /\ pending' = <<>>
             \/ pending' = full /\ queue' = queue
      BY <2>1 DEF Format
    <3>2. TheScreen' = TheScreen
      BY <3>1 DEF TheScreen, screen
    <3>3. h \in Chars /\ Tail(todo) \in Seq(Chars)
      BY <1>2, <3>1, HeadTailProperties
    <3>4. Rest = pending \o todo
      BY <3>1, RestIs
    <3>5. full \o Tail(todo) = pending \o todo
      <4>1. pending \in Seq(Chars) /\ todo \in Seq(Chars) /\ todo # <<>>
        BY <1>2, <3>1
      <4> QED
        BY ONLY <4>1, Joined
    <3>6. full \in Seq(Chars)
      BY <1>2, <3>3, AppendProperties
    <3> HIDE DEF full, h
    <3>7. CASE h = "NUL" /\ pending' = pending /\ queue' = queue
      <4>1. Rest' = pending \o Tail(todo)
        BY <1>2, <1>3, <3>1, <3>7 DEF Rest
      <4>2. full = Append(pending, "NUL")
        BY <3>7 DEF full
      <4>3. Shown(TheScreen, full \o Tail(todo)) = Shown(TheScreen, pending \o Tail(todo))
        BY <1>2, <3>3, <4>2, ShownWithout
      <4> QED
        BY <3>2, <3>4, <3>5, <4>1, <4>3
    <3>8. CASE queue' = full /\ pending' = <<>>
      <4>1. Rest' = full \o Tail(todo)
        BY <1>3, <3>1, <3>6, <3>8 DEF Rest
      <4> QED
        BY <3>2, <3>4, <3>5, <4>1
    <3>9. CASE pending' = full /\ queue' = queue
      <4>1. Rest' = full \o Tail(todo)
        BY <1>3, <3>1, <3>6, <3>9 DEF Rest
      <4> QED
        BY <3>2, <3>4, <3>5, <4>1
    <3> QED
      BY <3>1, <3>7, <3>8, <3>9
  <2>2. CASE PutNext
    <3>1. queue # <<>> /\ Put(Head(queue)) /\ queue' = Tail(queue) /\ pending' = pending /\ todo' = todo
      BY <2>2 DEF PutNext
    <3>2. Head(queue) \in Chars
      BY <1>2, <3>1, HeadTailProperties
    <3>3. TheScreen' = PutChar(TheScreen, Head(queue))
      BY <1>2, <3>1, <3>2, PutIsNext
    <3> DEFINE x == queue \o pending
    <3>4. x \in Seq(Chars) /\ Head(x) = Head(queue) /\ Tail(x) = Tail(queue) \o pending /\ x # <<>>
      BY <1>2, <3>1, ConcatProperties, Joined
    <3>5. Rest = x \o todo /\ Rest' = Tail(x) \o todo
      BY <3>1, <3>4 DEF Rest
    <3> HIDE DEF x
    <3>6. Head(Rest) = Head(queue) /\ Rest' = Tail(Rest) /\ Rest # <<>>
      BY <1>2, <3>4, <3>5, Joined
    <3> QED
      BY <1>2, <1>4, <3>3, <3>6, ShownRest
  <2>3. CASE Flush
    <3>1. queue = <<>> /\ todo = <<>> /\ queue' = pending /\ pending' = <<>> /\ todo' = todo /\ UNCHANGED screen
      BY <2>3 DEF Flush
    <3>2. TheScreen' = TheScreen
      BY <3>1 DEF TheScreen, screen
    <3>3. Rest' = Rest
      BY <1>2, <1>3, <3>1 DEF Rest
    <3> QED
      BY <3>2, <3>3
  <2> QED
    BY <2>1, <2>2, <2>3
<1>6. Cells(Shown(TheScreen, Rest))' = above'
  <2>1. Cells(Shown(TheScreen', Rest')) = above'
    BY <1>1, <1>5 DEF EchoInv
  <2> QED
    BY <2>1 DEF Cells, Shown
<1> QED
  BY <1>1, <1>6 DEF EchoInv

\* A screen shows as many cells as stand left of its position.
LEMMA CellsOf ==
  ASSUME NEW s \in Screens
  PROVE  /\ Cells(s) \in Seq(Cell) /\ Len(Cells(s)) = s.pos
         /\ Echoes(s, Cells(s))
<1>1. s.pos \in Nat /\ \A i \in 1..s.pos : s.buffer[i-1] \in Cell
  BY Sizes DEF Screens, Frame
<1>2. Cells(s) \in Seq(Cell) /\ Len(Cells(s)) = s.pos
  <2> DEFINE n == s.pos
             e == [i \in 1..n |-> s.buffer[i-1]]
  <2>1. n \in Nat /\ e \in [1..n -> Cell]
    BY <1>1
  <2>2. Cells(s) = e
    BY DEF Cells
  <2> HIDE DEF n, e
  <2>3. e \in Seq(Cell) /\ Len(e) = n
    BY <2>1
  <2> QED
    BY <2>2, <2>3 DEF n
<1>3. \A i \in 1..s.pos : Cells(s)[i] = s.buffer[i-1]
  BY <1>1 DEF Cells
<1>4. \A i \in 1..s.pos : s.pos - s.pos + i = i
  BY <1>1
<1> QED
  BY <1>1, <1>2, <1>3, <1>4, EchoIs

LEMMA EchoEnds ==
  ASSUME IInv, Fits, EchoInv, PrintEnds
  PROVE  EchoInv'
<1>1. /\ pc = "printing" /\ pc' = after /\ queue = <<>> /\ pending = <<>> /\ todo = <<>>
      /\ UNCHANGED <<screen, reader, printing, edit, above>>
  BY DEF PrintEnds
<1>2. after \in {"away", "reading"} /\ TheScreen \in Screens
  BY DEF IInv, Typed, Fits
<1>3. TheScreen' = TheScreen /\ queue' = <<>> /\ pending' = <<>> /\ todo' = <<>>
  BY <1>1 DEF TheScreen, screen, printing
<1>4. Rest = <<>>
  BY <1>1, ConcatEmptySeq, RestIs DEF Fits
<1>5. above = Cells(TheScreen)
  BY <1>1, <1>4, ShownNothing DEF EchoInv
<1>6. above \in Seq(Cell) /\ above' = above
  BY <1>1 DEF EchoInv
<1>7. ASSUME after = "reading" PROVE Echoes(TheScreen, above \o line[reader])'
  <2>1. line' = line /\ reader' = reader /\ line[reader] = <<>>
    BY <1>1, <1>7 DEF EchoInv, edit
  <2>2. above \o line[reader] = above
    BY <1>6, <2>1, ConcatEmptySeq
  <2>3. Echoes(TheScreen, above)
    BY <1>2, <1>5, CellsOf
  <2>4. Echoes(TheScreen', above' \o line'[reader'])
    BY <1>3, <1>6, <2>1, <2>2, <2>3
  <2> QED
    BY <2>4 DEF Echoes, Cells, Tip
<1> QED
  BY <1>1, <1>2, <1>3, <1>6, <1>7 DEF EchoInv

\* What stands on the screen and the line that is edited.
LEMMA LineIs ==
  ASSUME IInv, Fits, EchoInv, pc = "reading"
  PROVE  /\ reader \in Readers /\ line \in [Readers -> Seq(Glyphs)]
         /\ line[reader] \in Seq(Cell) /\ above \in Seq(Cell)
         /\ above \o line[reader] \in Seq(Cell)
         /\ Echoes(TheScreen, above \o line[reader])
         /\ idx = Len(line[reader])
         /\ TheScreen \in Screens
<1>1. reader \in Readers /\ line \in [Readers -> Seq(Glyphs)]
  BY DEF IInv, Typed
<1>2. line[reader] \in Seq(Glyphs)
  BY <1>1
<1>3. Glyphs \subseteq Cell
  BY Zenon DEF Cell
<1>4. line[reader] \in Seq(Cell)
  BY <1>2, <1>3, ElementOfSeq
<1>5. above \in Seq(Cell)
  BY DEF EchoInv
<1>6. above \o line[reader] \in Seq(Cell)
  BY <1>4, <1>5, ConcatProperties
<1> QED
  BY <1>1, <1>4, <1>5, <1>6 DEF IInv, Active, EchoInv, Fits

LEMMA EchoTyped ==
  ASSUME IInv, Fits, EchoInv, NEW c \in Keys, Type(c)
  PROVE  EchoInv'
<1>1. /\ pc = "reading" /\ pc' = pc /\ c \in Glyphs /\ Put(c)
      /\ line' = [line EXCEPT ![reader] = Append(@, c)]
      /\ UNCHANGED <<reader, printing, above>>
  BY DEF Type, Reads
<1>2. c \in Chars
  BY <1>1 DEF Chars
<1> DEFINE l == line[reader]
<1>3. /\ reader \in Readers /\ line \in [Readers -> Seq(Glyphs)] /\ l \in Seq(Cell)
      /\ above \in Seq(Cell) /\ above \o l \in Seq(Cell) /\ Echoes(TheScreen, above \o l)
      /\ TheScreen \in Screens
  BY <1>1, LineIs
<1>4. TheScreen' = PutChar(TheScreen, c)
  BY <1>1, <1>2, <1>3, PutIsNext
<1>5. line'[reader] = Append(l, c) /\ reader' = reader /\ above' = above
  BY <1>1, <1>3
<1> HIDE DEF l
<1>6. above \o Append(l, c) = Append(above \o l, c)
  <2>1. c \in Cell
    BY <1>1, Zenon DEF Cell
  <2> QED
    BY <1>3, <2>1, JoinedLast
<1>7. Echoes(PutChar(TheScreen, c), Append(above \o l, c))
  BY <1>1, <1>3, EchoType
<1>8. Echoes(TheScreen', above' \o line'[reader'])
  BY <1>4, <1>5, <1>6, <1>7
<1>9. Echoes(TheScreen, above \o line[reader])'
  BY <1>8 DEF Echoes, Cells, Tip
<1> QED
  BY <1>1, <1>3, <1>9 DEF EchoInv, printing

LEMMA EchoErased ==
  ASSUME IInv, Fits, EchoInv, Erase
  PROVE  EchoInv'
<1>1. /\ pc = "reading" /\ pc' = pc /\ idx > 0 /\ Put("BS")
      /\ line' = [line EXCEPT ![reader] = Front(@)]
      /\ UNCHANGED <<reader, printing, above>>
  BY DEF Erase, Reads
<1>2. "BS" \in Chars
  BY DEF Chars, Controls
<1> DEFINE l == line[reader]
<1>3. /\ reader \in Readers /\ line \in [Readers -> Seq(Glyphs)] /\ l \in Seq(Cell)
      /\ above \in Seq(Cell) /\ above \o l \in Seq(Cell) /\ Echoes(TheScreen, above \o l)
      /\ TheScreen \in Screens /\ idx = Len(l)
  BY <1>1, LineIs
<1>4. TheScreen' = PutChar(TheScreen, "BS")
  BY <1>1, <1>2, <1>3, PutIsNext
<1>5. line'[reader] = Front(l) /\ reader' = reader /\ above' = above
  BY <1>1, <1>3
<1> HIDE DEF l
<1>6. l # <<>>
  BY <1>1, <1>3
<1>7. above \o l # <<>> /\ Front(above \o l) = above \o Front(l)
  BY <1>3, <1>6, JoinedLast
<1>8. Echoes(PutChar(TheScreen, "BS"), Front(above \o l))
  BY <1>3, <1>7, EchoErase
<1>9. Echoes(TheScreen', above' \o line'[reader'])
  BY <1>4, <1>5, <1>7, <1>8
<1>10. Echoes(TheScreen, above \o line[reader])'
  BY <1>9 DEF Echoes, Cells, Tip
<1> QED
  BY <1>1, <1>3, <1>10 DEF EchoInv, printing

LEMMA EchoInvStep ==
  ASSUME IInv, Fits, EchoInv, Fits', [Next]_vars
  PROVE  EchoInv'
<1>1. ASSUME NEW who \in Readers, NEW t \in Texts, NEW then \in {"away", "reading"},
             StartPrint(who, t, then)
      PROVE  EchoInv'
  BY <1>1, EchoPrint
<1>2. CASE Format \/ PutNext \/ Flush
  BY <1>2, EchoPrints
<1>3. CASE PrintEnds
  BY <1>3, EchoEnds
<1>4. CASE ClearScreen
  BY <1>4 DEF ClearScreen, EchoInv, printing, edit
<1>5. ASSUME NEW c \in Keys, Type(c) \/ Enter(c) PROVE EchoInv'
  <2>1. CASE Type(c)
    BY <2>1, EchoTyped
  <2>2. CASE Enter(c)
    BY <2>2 DEF Enter, Reads, EchoInv, printing
  <2> QED
    BY <1>5, <2>1, <2>2
<1>6. CASE Erase
  BY <1>6, EchoErased
<1>7. CASE SpecialKey \/ UNCHANGED vars
  <2>1. /\ UNCHANGED <<screen, reader, printing, edit, above>>
        /\ \/ pc' = pc
           \/ pc = "reading" /\ pc' = "panic"
    BY <1>7 DEF SpecialKey, Reads, vars
  <2>2. TheScreen' = TheScreen /\ Rest' = Rest
    BY <2>1 DEF TheScreen, screen, Rest, printing
  <2>3. Cells(Shown(TheScreen, Rest))' = Cells(Shown(TheScreen', Rest'))
    BY DEF Cells, Shown
  <2>4. Echoes(TheScreen, above \o line[reader])' = Echoes(TheScreen', above' \o line'[reader'])
    BY DEF Echoes, Cells, Tip
  <2> QED
    BY <2>1, <2>2, <2>3, <2>4 DEF EchoInv, printing, edit
<1> QED
  BY <1>1, <1>2, <1>3, <1>4, <1>5, <1>6, <1>7 DEF Next

-----------------------------------------------------------------------------
(***************************************************************************)
(* Nothing right of the cursor.  A carriage return would leave there what it *)
(* goes back over; readline echoes none, and no text of the kernel and of    *)
(* its programs has one.                                                     *)
(***************************************************************************)
NoReturns == \A t \in Texts : t \in Seq(Chars \ {"CR"})

EmptyFrom(b, n, e) == \A p \in n..Size-1 : b[p] = e

Empty == " "

Blank(s) == EmptyFrom(s.buffer, s.pos, Empty)

LEMMA MarkingEmpty ==
  ASSUME NEW s \in Screens
  PROVE  /\ \A c \in Cell : Marked(s, c) = [buffer |-> [s.buffer EXCEPT ![s.pos] = c], pos |-> s.pos + 1]
         /\ Marked(s, "BS") = IF s.pos > 0
                              THEN [buffer |-> [s.buffer EXCEPT ![s.pos - 1] = Empty], pos |-> s.pos - 1]
                              ELSE s
         /\ Marked(s, "LF") = [buffer |-> s.buffer, pos |-> ((s.pos + Cols) \div Cols) * Cols]
         /\ Marked(s, "NUL") = s
BY Marking, Zenon DEF Empty

LEMMA EmptyMarks ==
  ASSUME NEW b \in Frame, NEW n \in 0..Size-1, NEW e, EmptyFrom(b, n, e)
  PROVE  /\ \A g : EmptyFrom([b EXCEPT ![n] = g], n + 1, e)
         /\ n > 0 => EmptyFrom([b EXCEPT ![n - 1] = e], n - 1, e)
         /\ \A m \in Nat : m >= n => EmptyFrom(b, m, e)
<1>1. Size \in Nat
  BY Sizes
<1>2. ASSUME NEW g, NEW p \in n+1..Size-1 PROVE [b EXCEPT ![n] = g][p] = e
  <2>1. p \in n..Size-1 /\ p # n /\ p \in 0..Size-1
    BY <1>1
  <2> QED
    BY <2>1 DEF EmptyFrom, Frame
<1>3. ASSUME n > 0, NEW p \in n-1..Size-1 PROVE [b EXCEPT ![n - 1] = e][p] = e
  <2>1. p \in 0..Size-1 /\ n - 1 \in 0..Size-1 /\ (p = n - 1 \/ p \in n..Size-1)
    BY <1>1, <1>3
  <2> QED
    BY <2>1 DEF EmptyFrom, Frame
<1>4. ASSUME NEW m \in Nat, m >= n, NEW p \in m..Size-1 PROVE b[p] = e
  <2>1. p \in n..Size-1
    BY <1>1, <1>4
  <2> QED
    BY <2>1 DEF EmptyFrom
<1> QED
  BY <1>2, <1>3, <1>4 DEF EmptyFrom

LEMMA BlankScrolled ==
  ASSUME NEW s \in [buffer : Frame, pos : 0..Size], Blank(s)
  PROVE  Blank(Scrolled(s))
<1>1. IsScrolled(s, Scrolled(s))
  BY Scrolling
<1> DEFINE u == Scrolled(s)
<1> HIDE DEF u
<1>2. CASE s.pos # Size
  BY <1>1, <1>2 DEF IsScrolled
<1>3. CASE s.pos = Size
  <2>1. u.pos = Size - Cols /\ Raised(s.buffer, u.buffer)
    BY <1>1, <1>3 DEF IsScrolled, u
  <2>2. ASSUME NEW p \in Size-Cols..Size-1 PROVE u.buffer[p] = Empty
    <3>1. p \in 0..Size-1 /\ p >= Size - Cols
      BY Sizes
    <3> QED
      BY <2>1, <3>1, Zenon DEF Raised, Empty
  <2> QED
    BY <2>1, <2>2, Zenon DEF Blank, EmptyFrom, u
<1> QED
  BY <1>2, <1>3

LEMMA BlankMarked ==
  ASSUME NEW s \in Screens, Blank(s), NEW c \in Cell \cup {"BS", "LF", "NUL"}
  PROVE  Blank(Marked(s, c))
<1>1. s.pos \in 0..Size-1 /\ s.buffer \in Frame /\ Size \in Nat
  BY Sizes DEF Screens
<1> DEFINE n == s.pos
           b == s.buffer
<1>2. EmptyFrom(b, n, Empty)
  BY DEF Blank
<1>3. CASE c \in Cell
  <2> DEFINE d == [b EXCEPT ![n] = c]
             m == n + 1
  <2>1. EmptyFrom(d, m, Empty)
    BY <1>1, <1>2, EmptyMarks
  <2>2. Marked(s, c) = [buffer |-> d, pos |-> m]
    BY <1>3, MarkingEmpty
  <2> HIDE DEF d, m
  <2> QED
    BY <2>1, <2>2 DEF Blank
<1>4. CASE c = "BS"
  <2> DEFINE d == [b EXCEPT ![n - 1] = Empty]
             m == n - 1
  <2>1. n > 0 => EmptyFrom(d, m, Empty)
    BY <1>1, <1>2, EmptyMarks
  <2>2. Marked(s, c) = IF s.pos > 0 THEN [buffer |-> d, pos |-> m] ELSE s
    BY <1>4, MarkingEmpty
  <2> HIDE DEF d, m
  <2> QED
    BY <1>2, <2>1, <2>2 DEF Blank
<1>5. CASE c = "LF"
  <2> DEFINE m == ((n + Cols) \div Cols) * Cols
             r == (n \div Cols) + 1
             k == (n % Cols) + 1
  <2>1. r \in 1..Rows /\ k \in 1..Cols /\ n = At(r, k)
    BY <1>1, PlaceOf
  <2> HIDE DEF r, k
  <2>2. m = At(r, 1) + Cols
    BY <2>1, PlaceNext
  <2>3. At(r, 1) = (r - 1) * Cols /\ At(r, k) = (r - 1) * Cols + k - 1
    BY <2>1, Sizes DEF At
  <2>4. m \in Nat /\ m >= n
    <3> DEFINE q == (r - 1) * Cols
    <3>1. q \in Nat
      BY <2>1, Sizes
    <3> HIDE DEF q
    <3>2. At(r, 1) = q /\ At(r, k) = q + k - 1
      BY <2>3 DEF q
    <3> HIDE DEF m
    <3> QED
      BY <2>1, <2>2, <3>1, <3>2, Sizes
  <2>5. Marked(s, c) = [buffer |-> b, pos |-> m]
    BY <1>5, MarkingEmpty
  <2> HIDE DEF m
  <2>6. EmptyFrom(b, m, Empty)
    BY <1>1, <1>2, <2>4, EmptyMarks
  <2> QED
    BY <2>5, <2>6 DEF Blank
<1>6. CASE c = "NUL"
  BY <1>6, MarkingEmpty
<1> QED
  BY <1>3, <1>4, <1>5, <1>6

\* Only a carriage return goes back over what stands on the screen.
LEMMA BlankPut ==
  ASSUME NEW s \in Screens, Blank(s), NEW c \in Chars \ {"CR"}
  PROVE  Blank(PutChar(s, c))
<1> DEFINE Space(t) == Scrolled(Marked(t, " "))
           Kept == {t \in Screens : Blank(t)}
<1>1. \A t \in Kept, d \in Cell \cup {"BS", "LF", "NUL"} : Scrolled(Marked(t, d)) \in Kept
  BY MarkedType, Scrolling, BlankMarked, BlankScrolled
<1>2. \A t \in Kept : Space(t) \in Kept
  BY <1>1, Zenon DEF Cell
<1>3. \A t \in Kept : Scrolled(t) \in Kept
  <2>1. Screens \subseteq [buffer : Frame, pos : 0..Size]
    BY Sizes DEF Screens
  <2> QED
    BY <2>1, Scrolling, BlankScrolled
<1>4. s \in Kept
  OBVIOUS
<1>5. CASE c = "TAB"
  <2>1. PutChar(s, c) = Scrolled(Space(Space(Space(Space(s)))))
    BY <1>5 DEF PutChar
  <2> HIDE DEF Space, Kept
  <2>2. PutChar(s, c) \in Kept
    BY <1>2, <1>3, <1>4, <2>1
  <2> QED
    BY <2>2 DEF Kept
<1>6. CASE c # "TAB"
  <2>1. PutChar(s, c) = Scrolled(Marked(s, c))
    BY <1>6 DEF PutChar
  <2>2. c \in Cell \cup {"BS", "LF", "NUL"}
    BY <1>6, Zenon DEF Chars, Controls, Cell
  <2> HIDE DEF Kept
  <2>3. PutChar(s, c) \in Kept
    BY <1>1, <1>4, <2>1, <2>2
  <2> QED
    BY <2>3 DEF Kept
<1> QED
  BY <1>5, <1>6

Straight == Chars \ {"CR"}

StraightInv == /\ todo \in Seq(Straight) /\ pending \in Seq(Straight) /\ queue \in Seq(Straight)
               /\ Blank(TheScreen)

LEMMA StraightInit == Init => StraightInv
<1> SUFFICES ASSUME Init PROVE StraightInv
  OBVIOUS
<1>1. <<>> \in Seq(Straight)
  OBVIOUS
<1>2. todo = <<>> /\ pending = <<>> /\ queue = <<>> /\ buffer = AllBlank /\ pos \in 0..Size-1
  BY DEF Init, InitScreen
<1>3. \A p \in pos..Size-1 : p \in 0..Size-1
  BY <1>2, Sizes
<1>4. \A p \in pos..Size-1 : buffer[p] = Empty
  BY <1>2, <1>3, Zenon DEF AllBlank, Empty
<1>5. Blank(TheScreen)
  BY <1>4 DEF Blank, EmptyFrom, TheScreen
<1> QED
  BY <1>1, <1>2, <1>5 DEF StraightInv

LEMMA StraightPut ==
  ASSUME Fits, StraightInv, NEW c \in Straight, Put(c)
  PROVE  Blank(TheScreen)'
<1>1. c \in Chars /\ TheScreen \in Screens
  BY DEF Straight, Fits
<1>2. TheScreen' = PutChar(TheScreen, c)
  BY <1>1, PutIsNext
<1>3. Blank(TheScreen')
  BY <1>1, <1>2, BlankPut DEF Straight, StraightInv
<1> QED
  BY <1>3 DEF Blank, EmptyFrom

LEMMA StraightFormat ==
  ASSUME StraightInv, Format
  PROVE  StraightInv'
<1> DEFINE h == Head(todo)
           full == Append(pending, h)
<1>1. /\ todo # <<>> /\ todo' = Tail(todo) /\ UNCHANGED screen
      /\ \/ pending' = pending /\ queue' = queue
         \/ queue' = full /\ pending' = <<>>
         \/ pending' = full /\ queue' = queue
  BY DEF Format
<1>2. todo \in Seq(Straight) /\ pending \in Seq(Straight) /\ queue \in Seq(Straight)
  BY DEF StraightInv
<1>3. h \in Straight /\ Tail(todo) \in Seq(Straight)
  BY <1>1, <1>2, HeadTailProperties
<1>4. full \in Seq(Straight) /\ <<>> \in Seq(Straight)
  BY <1>2, <1>3, AppendProperties
<1>5. TheScreen' = TheScreen
  BY <1>1 DEF TheScreen, screen
<1>6. Blank(TheScreen)' = Blank(TheScreen')
  BY DEF Blank, EmptyFrom
<1> HIDE DEF full, h
<1> QED
  BY <1>1, <1>2, <1>3, <1>4, <1>5, <1>6 DEF StraightInv

LEMMA StraightStep ==
  ASSUME NoReturns, Fits, StraightInv, [Next]_vars
  PROVE  StraightInv'
<1>1. /\ todo \in Seq(Straight) /\ pending \in Seq(Straight) /\ queue \in Seq(Straight)
      /\ <<>> \in Seq(Straight) /\ Blank(TheScreen)
  BY DEF StraightInv
<1>2. Blank(TheScreen)' = Blank(TheScreen')
  BY DEF Blank, EmptyFrom
<1>3. UNCHANGED screen => Blank(TheScreen)'
  BY <1>1, <1>2 DEF TheScreen, screen
<1>4. ASSUME NEW who \in Readers, NEW t \in Texts, NEW then \in {"away", "reading"},
             StartPrint(who, t, then)
      PROVE  StraightInv'
  <2>1. t \in Seq(Straight)
    BY DEF NoReturns, Straight
  <2> QED
    BY <1>1, <1>3, <1>4, <2>1 DEF StartPrint, StraightInv
<1>5. CASE Format
  BY <1>5, StraightFormat
<1>6. CASE PutNext
  <2>1. queue # <<>> /\ Put(Head(queue)) /\ queue' = Tail(queue) /\ UNCHANGED <<pending, todo>>
    BY <1>6 DEF PutNext
  <2>2. Head(queue) \in Straight /\ Tail(queue) \in Seq(Straight)
    BY <1>1, <2>1, HeadTailProperties
  <2>3. Blank(TheScreen)'
    BY <2>1, <2>2, StraightPut
  <2> QED
    BY <1>1, <2>1, <2>2, <2>3 DEF StraightInv
<1>7. CASE Flush \/ PrintEnds \/ SpecialKey \/ UNCHANGED vars
  BY <1>1, <1>3, <1>7 DEF Flush, PrintEnds, SpecialKey, vars, printing, StraightInv
<1>8. CASE ClearScreen
  <2>1. Shows([buffer |-> AllBlank, pos |-> 0]) /\ UNCHANGED printing
    BY <1>8 DEF ClearScreen, Clear
  <2>2. buffer' = AllBlank /\ pos' = 0
    BY <2>1 DEF Shows
  <2>3. \A p \in 0..Size-1 : buffer'[p] = Empty
    BY <2>2, Zenon DEF AllBlank, Empty
  <2>4. Blank(TheScreen')
    BY <2>2, <2>3 DEF Blank, EmptyFrom, TheScreen
  <2> QED
    BY <1>1, <1>2, <2>1, <2>4 DEF StraightInv, printing
<1>9. ASSUME NEW c \in Straight, Put(c), UNCHANGED printing PROVE StraightInv'
  <2>1. Blank(TheScreen)'
    BY <1>9, StraightPut
  <2> QED
    BY <1>1, <1>9, <2>1 DEF StraightInv, printing
<1>10. ASSUME NEW c \in Keys, Type(c) \/ Enter(c) PROVE StraightInv'
  <2>1. CASE Type(c)
    <3>1. c \in Straight
      BY <2>1, ScreenAssumption DEF Type, Straight, Chars, Controls
    <3> QED
      BY <1>9, <2>1, <3>1 DEF Type
  <2>2. CASE Enter(c)
    <3>1. "LF" \in Straight
      BY DEF Straight, Chars, Controls
    <3> QED
      BY <1>9, <2>2, <3>1 DEF Enter
  <2> QED
    BY <1>10, <2>1, <2>2
<1>11. CASE Erase
  <2>1. "BS" \in Straight
    BY DEF Straight, Chars, Controls
  <2> QED
    BY <1>9, <1>11, <2>1 DEF Erase
<1> QED
  BY <1>4, <1>5, <1>6, <1>7, <1>8, <1>10, <1>11 DEF Next

\* While a line is edited the screen shows, left of the cursor, what was there
\* when the prompt had been printed and then the line (readline.cc:28-43,
\* console.cc:156-192), for every screen, buffer and text: the first two
\* conjuncts of EchoShowsLine.
EchoLeft == pc = "reading" => Echoes(TheScreen, above \o line[reader])

THEOREM LineShown == Spec => []EchoLeft
<1>1. Init => IInv /\ Fits /\ EchoInv
  BY IInvInit, FitsInit, EchoInvInit
<1>2. IInv /\ Fits /\ EchoInv /\ [Next]_vars => (IInv /\ Fits /\ EchoInv)'
  BY IInvStep, FitsStep, EchoInvStep
<1>3. EchoInv => EchoLeft
  BY DEF EchoInv, EchoLeft
<1> QED
  BY <1>1, <1>2, <1>3, PTL DEF Spec

\* And where no text has a carriage return, nothing stands right of the cursor.
THEOREM EchoCorrect == NoReturns => (Spec => []EchoShowsLine)
<1> SUFFICES ASSUME NoReturns PROVE Spec => []EchoShowsLine
  OBVIOUS
<1>1. Init => Fits /\ StraightInv
  BY FitsInit, StraightInit
<1>2. Fits /\ StraightInv /\ [Next]_vars => (Fits /\ StraightInv)'
  BY FitsStep, StraightStep
<1>3. EchoLeft /\ StraightInv => EchoShowsLine
  <2>1. EchoLeft => (pc = "reading" => /\ pos <= Len(above \o line[reader])
                                       /\ Cells(TheScreen) = Tip(above \o line[reader], pos))
    BY DEF EchoLeft, Echoes, TheScreen
  <2>2. StraightInv => \A p \in pos..Size-1 : buffer[p] = " "
    BY Zenon DEF StraightInv, Blank, EmptyFrom, TheScreen, Empty
  <2> QED
    BY <2>1, <2>2, Zenon DEF EchoShowsLine
<1> QED
  BY <1>1, <1>2, <1>3, LineShown, PTL DEF Spec
=============================================================================
