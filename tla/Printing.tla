------------------------------ MODULE Printing ------------------------------
(***************************************************************************)
(* printFmtVa (lib/printfmt.cc:76-215): the text that a format and its      *)
(* arguments make, for the directives that the monitor's lines are made of: *)
(* p, d, X and s, with a width and a padding.  A format is a sequence of    *)
(* characters, an argument an integer or a text.                            *)
(***************************************************************************)
EXTENDS Numbers

Flags       == {"0", "1", "2", "3", "4", "5", "6", "7", "8", "9"}

(***************************************************************************)
(* The flags of a directive: a 0 asks for padding with zeroes unless it     *)
(* continues a width.                                                       *)
(***************************************************************************)
NoFlags == [pad |-> " ", width |-> -1, inWidth |-> FALSE]

AddFlag(f, c) ==
    IF f.inWidth  THEN [f EXCEPT !.width = 10 * @ + DigitValue(c)]
    ELSE IF c = "0" THEN [f EXCEPT !.pad = "0"]
    ELSE [f EXCEPT !.width = DigitValue(c), !.inWidth = TRUE]

FlagsOf(s) == FoldLeft(AddFlag, NoFlags, s)

\* _getIntVa and _getUIntVa of a flag count of 0: an int of the stack.
UnsignedArg(a) == a % Word
SignedArg(a)   == IF UnsignedArg(a) >= Word \div 2 THEN UnsignedArg(a) - Word ELSE UnsignedArg(a)

\* One directive.  A minus sign is printed before the padding.
Convert(conv, f, a) ==
    CASE conv = "d" -> LET n == SignedArg(a)
                       IN IF n < 0 THEN <<"-">> \o PrintNumber(-n, 10, f.width, f.pad, Little)
                          ELSE PrintNumber(n, 10, f.width, f.pad, Little)
      [] conv = "X" -> PrintNumber(UnsignedArg(a), 16, f.width, f.pad, Capital)
      [] conv = "p" -> PrintNumber(a, 16, WordBits \div 4, "0", Little)
      [] conv = "s" -> Copies(f.width - Len(a), f.pad) \o a

(***************************************************************************)
(* The loop over the format, from position p on, with the arguments from    *)
(* number a on.                                                             *)
(***************************************************************************)
PrintFmt(fmt, args) ==
    LET text[p \in Nat, a \in Nat] ==
            LET q == After(fmt, p + 1, Flags)
            IN IF p > Len(fmt) THEN <<>>
               ELSE IF fmt[p] # "%" THEN <<fmt[p]>> \o text[p + 1, a]
               ELSE Convert(CharAt(fmt, q), FlagsOf(SubSeq(fmt, p + 1, q - 1)), args[a])
                    \o text[q + 1, a + 1]
    IN text[1, 1]
=============================================================================
