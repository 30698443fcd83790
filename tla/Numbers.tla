------------------------------ MODULE Numbers ------------------------------
(***************************************************************************)
(* Numbers to text and back: printNumber (lib/printfmt.cc:61-74) and toLong *)
(* (lib/strtol.cc:11-52), with words of WordBits bits.  A text is a         *)
(* sequence of characters; reading beyond its end reads the terminator.     *)
(***************************************************************************)
EXTENDS Integers, Sequences, SequencesExt, FiniteSetsExt

CONSTANT WordBits     \* of int, long and pointers: 32; long long has twice as many

ASSUME NumbersAssumption == WordBits \in Nat \ {0} /\ WordBits % 4 = 0

Word     == 2^WordBits
LongLong == 2^(2 * WordBits)

Little     == <<"0","1","2","3","4","5","6","7","8","9","a","b","c","d","e","f">>
Capital    == <<"0","1","2","3","4","5","6","7","8","9","A","B","C","D","E","F">>
WhiteSpace == {" ", "\t", "\n", "VT", "\f", "\r"}

CharAt(s, i) == IF i \in DOMAIN s THEN s[i] ELSE "NUL"

\* The text of n copies of c.
Copies(n, c) == [i \in 1..n |-> c]

-----------------------------------------------------------------------------
(***************************************************************************)
(* printNumber: the higher digits are printed by a call of itself with a    *)
(* width that is one less, and the padding by the innermost call.           *)
(***************************************************************************)
PrintNumber(num, base, width, pad, digits) ==
    LET print[n \in Nat, w \in Int] ==
            IF n < base THEN Copies(w - 1, pad) \o <<digits[n + 1]>>
            ELSE Append(print[n \div base, w - 1], digits[(n % base) + 1])
    IN print[num, width]

-----------------------------------------------------------------------------
\* What a character counts as a digit; more than any base in use when it is none.
DigitValue(c) ==
    IF \E d \in 1..16 : c \in {Little[d], Capital[d]}
    THEN CHOOSE d \in 0..15 : c \in {Little[d + 1], Capital[d + 1]}
    ELSE 99

\* The first position from i on whose character is not in cs.
After(s, i, cs) ==
    CHOOSE j \in i..Len(s) + 1 : CharAt(s, j) \notin cs /\ \A k \in i..j - 1 : s[k] \in cs

\* The characters from position i on that are digits of base.
DigitsFrom(s, i, base) ==
    IF i > Len(s) THEN <<>>
    ELSE SubSeq(s, i, After(s, i, {c \in ToSet(s) : DigitValue(c) < base}) - 1)

(***************************************************************************)
(* toLong, as the address that its callers take the result for: blanks, a   *)
(* sign, 0x or 0 for the base that is asked for with 0, then digits, summed *)
(* up in a long long that wraps and is cut to a long.                       *)
(***************************************************************************)
ToLong(s, base0) ==
    LET sign  == After(s, 1, WhiteSpace)
        start == IF CharAt(s, sign) \in {"-", "+"} THEN sign + 1 ELSE sign
        hex   == /\ base0 \in {0, 16}
                 /\ CharAt(s, start) = "0" /\ CharAt(s, start + 1) \in {"x", "X"}
        base  == IF hex THEN 16
                 ELSE IF base0 # 0 THEN base0
                 ELSE IF CharAt(s, start) = "0" THEN 8 ELSE 10
        acc   == FoldLeft(LAMBDA a, c : (a * base + DigitValue(c)) % LongLong, 0,
                          DigitsFrom(s, IF hex THEN start + 2 ELSE start, base))
    IN (IF CharAt(s, sign) = "-" THEN -acc ELSE acc) % Word

-----------------------------------------------------------------------------
(***************************************************************************)
(* The number that a person means by a text: the value of its digits by     *)
(* their places, up to the first character that cannot be part of it.       *)
(***************************************************************************)
ValueOf(ds, base) == MapThenSumSet(LAMBDA i : DigitValue(ds[i]) * base^(Len(ds) - i), DOMAIN ds)

Written(s) ==
    LET negative == s # <<>> /\ s[1] = "-"
        unsigned == IF s # <<>> /\ s[1] \in {"-", "+"} THEN Tail(s) ELSE s
        n == Len(unsigned)
        base == IF n >= 2 /\ unsigned[1] = "0" /\ unsigned[2] \in {"x", "X"} THEN 16
                ELSE IF n >= 1 /\ unsigned[1] = "0" THEN 8 ELSE 10
        from == IF base = 16 THEN 3 ELSE 1
        to   == CHOOSE k \in from-1..n : /\ \A j \in from..k : DigitValue(unsigned[j]) < base
                                         /\ k < n => DigitValue(unsigned[k + 1]) >= base
        value == ValueOf(SubSeq(unsigned, from, to), base)
    IN IF negative THEN -value ELSE value
=============================================================================
