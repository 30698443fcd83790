------------------------------- MODULE Shell -------------------------------
(***************************************************************************)
(* The command line of the monitor (kernel/monitor.cc:225-261): a line from *)
(* readline is split in place (lib/string.cc), and the command is looked up  *)
(* by its name and called.  A line is a sequence of characters.  split is    *)
(* only called by splitWs, which ignores quotes, so they are left out.       *)
(* Monitor adds the commands and the next-state relation.                    *)
(***************************************************************************)
EXTENDS Naturals, Sequences, SequencesExt

CONSTANTS Lines,       \* the lines that are typed, without NUL
          Delimiters,  \* WHITESPACE
          LowerOf,     \* the small letter of each capital
          Names,       \* the names in commands, in order
          MaxArgs      \* MAX_ARGS, 16

ASSUME ShellAssumption == /\ MaxArgs \in Nat \ {0}
                          /\ \A l \in Lines : l \in Seq(ToSet(l)) /\ "NUL" \notin ToSet(l)
                          /\ Names \in Seq(ToSet(Names))
                          /\ \A l \in ToSet(Names) : /\ l \in Seq(ToSet(l)) /\ l # <<>>
                                                     /\ ToSet(l) \cap Delimiters = {}

VARIABLES pc,       \* prompt, parse, run, loop (in a command), report, or fault
          typed,    \* the line that was read
          lastRet,  \* lastRet
          called,   \* the name of the command that it called, or <<>>
          argv      \* its arguments as it sees them

vars == <<pc, typed, lastRet, called, argv>>

-----------------------------------------------------------------------------
Results == {"ok", "invalidArg", "noSuchTask"}  \* what the commands return

Min2(a, b) == IF a < b THEN a ELSE b

\* The first position from i on with a character of cs, or the end of the string.
From(s, i, cs) ==
    CHOOSE j \in i..Len(s)+1 : /\ j <= Len(s) => s[j] \in cs
                               /\ \A k \in i..j-1 : s[k] \notin cs

\* Where split lets its pieces begin, at most count of them.
PieceStarts(s, count) ==
    LET next[n \in 0..count] ==
            IF n = 0 THEN <<>>
            ELSE LET got   == next[n - 1]
                     ended == IF got = <<>> THEN 1 ELSE From(s, Last(got), Delimiters)
                     start == From(s, ended, ToSet(s) \ Delimiters)
                 IN IF Len(got) < n - 1 \/ start > Len(s) THEN got ELSE Append(got, start)
    IN next[count]

\* The line after split: the delimiters before a piece are overwritten, and
\* those after the last one unless there is no room for another.
Split(s, count) ==
    LET starts == PieceStarts(s, count)
        reach  == IF Len(starts) = count THEN Last(starts) ELSE Len(s)
    IN [i \in 1..Len(s) |-> IF i <= reach /\ s[i] \in Delimiters THEN "NUL" ELSE s[i]]

\* The C string at position i.
StringAt(s, i) == SubSeq(s, i, From(s, i, {"NUL"}) - 1)

Lower(c) == IF c \in DOMAIN LowerOf THEN LowerOf[c] ELSE c

\* Seeded fault: a prefix is equal.
SameNamePrefix(l, r) == \A i \in 1..Min2(Len(l), Len(r)) : Lower(l[i]) = Lower(r[i])

\* cmpCase(l, r) = 0
SameName(l, r) == /\ \A i \in 1..Min2(Len(l), Len(r)) : Lower(l[i]) = Lower(r[i])
                  /\ Len(l) = Len(r)

-----------------------------------------------------------------------------
Init == pc = "prompt" /\ typed = <<>> /\ lastRet = "ok" /\ called = <<>> /\ argv = <<>>

ReadLine(l) == /\ pc = "prompt"
               /\ pc' = IF l = <<>> THEN "report" ELSE "parse"
               /\ typed' = l
               /\ UNCHANGED <<lastRet, called, argv>>

(***************************************************************************)
(* parseCmd.  Without any piece argv[0] is NULL, which cmpCase reads.        *)
(***************************************************************************)
Arguments(l) ==
    LET starts == PieceStarts(l, MaxArgs + 1)
        cut    == Split(l, MaxArgs + 1)
    IN [i \in DOMAIN starts |-> StringAt(cut, starts[i])]

\* Seeded fault: the last argument that fits is taken for one too many.
RefuseEarly ==
    /\ pc = "parse" /\ Len(Arguments(typed)) >= MaxArgs
    /\ pc' = "report" /\ lastRet' = "tooManyArgs"
    /\ UNCHANGED <<typed, called, argv>>

Refuse ==
    /\ pc = "parse" /\ Len(Arguments(typed)) = MaxArgs + 1
    /\ pc' = "report" /\ lastRet' = "tooManyArgs"
    /\ UNCHANGED <<typed, called, argv>>

ReadNull ==
    /\ pc = "parse" /\ Arguments(typed) = <<>>
    /\ pc' = "fault"
    /\ UNCHANGED <<typed, lastRet, called, argv>>

\* The loop over commands, which ends at the first match.
Lookup(args) ==
    LET match == {n \in DOMAIN Names : SameName(args[1], Names[n])}
    IN /\ UNCHANGED typed
       /\ \/ /\ match = {}
             /\ pc' = "report" /\ lastRet' = "badCommand"
             /\ UNCHANGED <<called, argv>>
          \/ /\ match # {}
             /\ pc' = "run"
             /\ called' = Names[CHOOSE n \in match : \A m \in match : n <= m]
             /\ argv' = args
             /\ UNCHANGED lastRet

Call ==
    /\ pc = "parse" /\ Len(Arguments(typed)) \in 1..MaxArgs
    /\ Lookup(Arguments(typed))

\* A command returns; runtask and the like do not, and TaskLife has them.
Return(result) ==
    /\ pc \in {"run", "loop"}
    /\ pc' = "report" /\ lastRet' = result
    /\ UNCHANGED <<typed, called, argv>>

\* The error report; after an empty line that of the line before once more.
Report ==
    /\ pc = "report"
    /\ pc' = "prompt"
    /\ typed' = <<>> /\ called' = <<>> /\ argv' = <<>>
    /\ UNCHANGED lastRet

-----------------------------------------------------------------------------
\* Where the words of a line begin: its longest runs of characters that are no
\* delimiters.
WordStarts(s) == {i \in 1..Len(s) : s[i] \notin Delimiters /\ (i > 1 => s[i - 1] \in Delimiters)}

\* The members of a finite set of numbers in ascending order.
InOrder(S) == CHOOSE f \in [1..Cardinality(S) -> S] : \A i, j \in DOMAIN f : i < j => f[i] < f[j]

\* The last position of the word that begins at i.
EndOf(s, i) == CHOOSE j \in i..Len(s) : /\ \A k \in i..j : s[k] \notin Delimiters
                                        /\ j < Len(s) => s[j + 1] \in Delimiters

\* The words of a line, in the order in which they stand in it.
Words(s) ==
    LET starts == InOrder(WordStarts(s))
    IN [n \in DOMAIN starts |-> SubSeq(s, starts[n], EndOf(s, starts[n]))]

(***************************************************************************)
(* A command is called only when the first word of the line is its name up  *)
(* to case, and it sees the words of the line, all of them and no more,     *)
(* wherever blanks stand in the line (string.cc:153-176, 132-141).          *)
(***************************************************************************)
CalledAsTyped ==
    called # <<>> => /\ argv = Words(typed) /\ Len(argv) <= MaxArgs
                     /\ [i \in DOMAIN argv[1] |-> Lower(argv[1][i])] = [i \in DOMAIN called |-> Lower(called[i])]

(***************************************************************************)
(* A line is refused only for the reason that is reported: more than        *)
(* MAX_ARGS words with the name (monitor.cc:22), or a first word that is no *)
(* command; and the kernel faults on no line but one of blanks.              *)
(***************************************************************************)
RefusedWithReason ==
    /\ pc = "fault" /\ called = <<>> => Words(typed) = <<>>
    /\ pc = "report" /\ typed # <<>> =>
           /\ lastRet = "tooManyArgs" <=> Len(Words(typed)) > MaxArgs
           /\ lastRet = "badCommand" => \A n \in ToSet(Names) : ~SameName(Words(typed)[1], n)
=============================================================================
