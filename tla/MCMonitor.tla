----------------------------- MODULE MCMonitor -----------------------------
(***************************************************************************)
(* Monitor on all lines of up to seven characters (two letters and the      *)
(* blank, the only delimiter that readline lets through) and of up to four  *)
(* with a capital beside them; on vmshow with all numerals of up to three   *)
(* characters and longer ones that wrap; and on every command with pairs of *)
(* addresses.  Words have 8 bits, pages 16 bytes; six pages and a half are  *)
(* installed, and eight are mapped at 0x80.                                 *)
(***************************************************************************)
EXTENDS Monitor

Line(name, args) == name \o FlattenSeq([i \in DOMAIN args |-> <<" ">> \o args[i]])

Numerals == (SeqOf({"0", "1", "8", "f", "x", "-"}, 3) \ {<<>>})
            \cup {<<"0", "x">> \o n : n \in SeqOf({"0", "8", "F"}, 3)}

Literals == { <<"0">>, <<"0","x","4","3">>, <<"0","1","7","7">>, <<"0","x","8","0">>,
              <<"0","X","a","C">>, <<"-","6","8">>, <<"0","x","e","4">>, <<"3","6","0">>,
              <<"0","x","f","0">>, <<"0","x","1","F","C">> }

MCLines == SeqOf({"a", "A", "b", " "}, 4) \cup SeqOf({"a", "b", " "}, 7)
           \cup {Line(ShowName, <<n>>) : n \in Numerals}
           \cup {Line(n, a) : n \in {ShowName, DumpVName, DumpPName}, a \in {<<>>} \cup SeqOf(Literals, 2)}

MCLowerOf == [c \in {"A"} |-> "a"]
MCNames   == << <<"a", "b">>, <<"a">>, ShowName, DumpVName, DumpPName >>

\* Bits 0, 1 and 2 of an entry: present, writable, user.
MCEntryAt == [p \in 0..15 |->
    IF p >= 8 THEN [frame |-> p - 8, bits |-> {0, 1}]
    ELSE IF p = 4 THEN [frame |-> 2, bits |-> {0, 2, 6}]
    ELSE IF p \in {5, 6} THEN [frame |-> 0, bits |-> {}]
    ELSE NoTable]

MCRefCounts == [f \in 0..5 |-> IF f < 3 THEN 1 ELSE 12]
MCContent   == [a \in 0..103 |-> (a * 37) % 256]

\* What the theorems about the lines of the commands suppose.
ASSUME NumbersAreRight == NumbersRead /\ PagesLegible /\ RowsLegible /\ RowsKept
=============================================================================
