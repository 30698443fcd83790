------------------------------ MODULE Monitor ------------------------------
(***************************************************************************)
(* The monitor's commands that look at memory, under the command line of    *)
(* Shell: vmshow, vmdumpv, vmdumpp (kernel/monitor.cc:65-89), the loops     *)
(* behind them (kernel/vmem.cc:372-435) and the text they print.  Addresses *)
(* are words that wrap.  The memory does not change meanwhile.              *)
(***************************************************************************)
EXTENDS Shell, Printing

CONSTANTS PgSize,    \* PGSIZE
          RowSize,   \* bytes in a row of a dump, 16
          KernBase,  \* KERNBASE
          KBytes,    \* bytes of a KB, the unit of totalMem
          TotalKB,   \* totalMem
          NoTable,   \* findPte returns nullptr
          EntryAt,   \* for each virtual page what findPte finds: NoTable, or the
                     \* frame and the set of bits of an entry
          RefCounts, \* the counts of the pages
          Content,   \* the byte at each physical address
          MaxRows    \* bound: rows that are kept of what a command prints

TotalMem == TotalKB * KBytes
NPages   == TotalMem \div PgSize

ASSUME MonitorAssumption ==
    /\ {Word, PgSize, RowSize, KernBase, KBytes} \subseteq Nat \ {0}
    /\ KBytes % RowSize = 0 /\ PgSize % KBytes = 0 /\ Word % PgSize = 0
    /\ TotalKB \in Nat /\ TotalMem <= Word - KernBase
    /\ EntryAt \in [0..(Word \div PgSize) - 1 -> {NoTable} \cup [frame : 0..(Word \div PgSize) - 1, bits : SUBSET (0..11)]]
    /\ RefCounts \in [0..NPages-1 -> Nat]

VARIABLES addr,   \* the loop variable of the command
          last,   \* where it ends
          rows    \* the lines that the command has printed

mvars == <<vars, addr, last, rows>>

ShowName  == <<"v","m","s","h","o","w">>
DumpVName == <<"v","m","d","u","m","p","v">>
DumpPName == <<"v","m","d","u","m","p","p">>

MInit == Init /\ addr = 0 /\ last = 0 /\ rows = <<>>

-----------------------------------------------------------------------------
RoundDown(a, n) == a - (a % n)
RoundUp(a, n)   == RoundDown((a + n - 1) % Word, n)

\* The arguments as addresses; one alone is both ends.
Begin == ToLong(argv[2], 0)
End   == IF Len(argv) >= 3 THEN ToLong(argv[3], 0) ELSE Begin

NoArgument ==
    /\ pc = "run" /\ called \in {ShowName, DumpVName, DumpPName} /\ Len(argv) <= 1
    /\ Return("invalidArg")
    /\ UNCHANGED <<addr, last, rows>>

Enter(first, end) ==
    /\ pc = "run" /\ Len(argv) >= 2
    /\ pc' = "loop"
    /\ addr' = first /\ last' = end
    /\ UNCHANGED <<typed, lastRet, called, argv, rows>>

\* Seeded fault: begin is not rounded.
StartShowWithin == called = ShowName /\ Enter(Begin, RoundDown(End, PgSize))

StartShow == called = ShowName /\ Enter(RoundDown(Begin, PgSize), RoundDown(End, PgSize))

\* Seeded fault: the roundings are exchanged.
StartDumpInside ==
    called \in {DumpVName, DumpPName} /\ Enter(RoundUp(Begin, RowSize), RoundDown(End, RowSize))

StartDump == called \in {DumpVName, DumpPName} /\ Enter(RoundDown(Begin, RowSize), RoundUp(End, RowSize))

\* One line printed; the loop variable moves on by n and wraps.
PrintRow(row, n) ==
    /\ rows' = IF Len(rows) < MaxRows THEN Append(rows, row) ELSE rows
    /\ addr' = (addr + n) % Word
    /\ UNCHANGED last

Continue(row, n) == PrintRow(row, n) /\ UNCHANGED vars

InLoop(name) == pc = "loop" /\ called = name /\ addr <= last

-----------------------------------------------------------------------------
FlagStr(bits) ==
    [i \in 1..12 |-> IF 12 - i \in bits THEN <<"A","V","L","G","P","D","A","C","T","U","W","P">>[i]
                     ELSE IF i = 10 THEN "S" ELSE IF i = 11 THEN "R" ELSE "_"]

AddressFmt == <<"%","p">>
ArrowFmt   == <<"%","p"," ","-",">"," ">>
EntryFmt   == <<"%","p"," "," ","%","2","d"," "," ","%","s">>
ByteFmt    == <<" ","%","0","2","X">>

\* A line of show; an entry that is not present is shown as frame 0.
ShowRow(va) ==
    LET e == EntryAt[va \div PgSize]
    IN PrintFmt(ArrowFmt, <<va>>) \o
       (IF e = NoTable THEN <<"NOT MAPPED">>
        ELSE IF e.frame >= NPages THEN <<"NOT EXIST">>
        ELSE PrintFmt(EntryFmt, <<e.frame * PgSize, RefCounts[e.frame], FlagStr(e.bits)>>))

\* Seeded fault: `continue` on a page that is not mapped.
ShowPageStuck ==
    InLoop(ShowName) /\ Continue(ShowRow(addr), IF EntryAt[addr \div PgSize] = NoTable THEN 0 ELSE PgSize)

ShowPage == InLoop(ShowName) /\ Continue(ShowRow(addr), PgSize)

Bytes(bs) == FlattenSeq([k \in DOMAIN bs |-> PrintFmt(ByteFmt, <<bs[k]>>)])

\* The bit PTE_P of the entry at va.
Present(va) == IF EntryAt[va \div PgSize] = NoTable THEN FALSE ELSE 0 \in EntryAt[va \div PgSize].bits

\* The CPU reads a byte of a page that is mapped; there may be no such memory.
Physical(va) == EntryAt[va \div PgSize].frame * PgSize + (va % PgSize)
Read(va) == IF Physical(va) \in DOMAIN Content THEN Content[Physical(va)] ELSE 255

\* The line for a row of dumpV: only the entry of its first byte is looked at.
DumpVLine(va) ==
    PrintFmt(AddressFmt, <<va>>) \o
    (IF Present(va) THEN Bytes([k \in 1..RowSize |-> Read(va + k - 1)]) ELSE <<"INVALID">>)

(***************************************************************************)
(* In the last row of the address space the test of the inner loop never    *)
(* fails: it goes on at address 0, which is not mapped, and the kernel      *)
(* panics.                                                                  *)
(***************************************************************************)
DumpVRow ==
    /\ InLoop(DumpVName)
    /\ \/ ~Present(addr) /\ PrintRow(DumpVLine(addr), 0) /\ Return("ok")
       \/ Present(addr) /\ addr + RowSize < Word /\ Continue(DumpVLine(addr), RowSize)
       \/ /\ Present(addr) /\ addr + RowSize = Word
          /\ pc' = "fault"
          /\ UNCHANGED <<typed, lastRet, called, argv, addr, last, rows>>

KernAddr(pa) == (pa + KernBase) % Word

\* The line for a row of dumpP, which ends with the memory.
Installed(a) == Cardinality({pa \in a..a + RowSize - 1 : pa < TotalMem})

DumpPLine(a) ==
    PrintFmt(AddressFmt, <<a>>) \o
    Bytes([k \in 1..Installed(a) |-> Read(KernAddr(a + k - 1))]) \o
    (IF Installed(a) < RowSize THEN <<"INVALID">> ELSE <<>>)

\* KERN_ADDR panics on a page that is not counted in nPages, which rounds the
\* size of the memory down.
Addressed(a) == \A k \in 0..Installed(a) - 1 : (a + k) \div PgSize < NPages

DumpPRow ==
    /\ InLoop(DumpPName)
    /\ \/ Addressed(addr) /\ Installed(addr) < RowSize /\ PrintRow(DumpPLine(addr), 0) /\ Return("ok")
       \/ Addressed(addr) /\ Installed(addr) = RowSize /\ Continue(DumpPLine(addr), RowSize)
       \/ /\ ~Addressed(addr)
          /\ pc' = "fault"
          /\ UNCHANGED <<typed, lastRet, called, argv, addr, last, rows>>

LoopEnds == pc = "loop" /\ addr > last /\ Return("ok") /\ UNCHANGED <<addr, last, rows>>

Loop == ShowPage \/ DumpVRow \/ DumpPRow \/ LoopEnds

OtherCommand ==
    /\ pc = "run" /\ called \notin {ShowName, DumpVName, DumpPName}
    /\ \E result \in Results : Return(result)
    /\ UNCHANGED <<addr, last, rows>>

MReport == Report /\ addr' = 0 /\ last' = 0 /\ rows' = <<>>

CommandLine == ((\E l \in Lines : ReadLine(l)) \/ Refuse \/ ReadNull \/ Call) /\ UNCHANGED <<addr, last, rows>>

MNext == \/ CommandLine \/ MReport
         \/ NoArgument \/ StartShow \/ StartDump \/ Loop \/ OtherCommand

\* A command keeps the CPU until it returns: interrupts are off.
MSpec == MInit /\ [][MNext]_mvars /\ WF_mvars(Loop)

-----------------------------------------------------------------------------
\* What the person asked for, by the value of the digits that were typed.
AskedBegin == Written(argv[2]) % Word
AskedEnd   == (IF Len(argv) >= 3 THEN Written(argv[3]) ELSE Written(argv[2])) % Word

\* The command called is one of names and has returned what its loop returns.
Returned(names) == pc = "report" /\ called \in names /\ lastRet = "ok"

\* The number printed in the n characters of a row from position p on.
NumberIn(row, p, n) == ToLong(SubSeq(row, p, p + n - 1), 16)
AddrDigits     == WordBits \div 4
AddressIn(row) == NumberIn(row, 1, AddrDigits)

\* The addresses in a line of show, read again as numbers, are those of the page
\* at va and of its frame.
ShowsPage(row, va) ==
    LET e == EntryAt[va \div PgSize]
    IN /\ AddressIn(row) = va
       /\ Last(row) = "NOT MAPPED" <=> e = NoTable
       /\ Last(row) = "NOT EXIST"  <=> e # NoTable /\ e.frame >= NPages
       /\ e # NoTable /\ e.frame < NPages => NumberIn(row, AddrDigits + 5, AddrDigits) = e.frame * PgSize

\* The multiples of n among the addresses.
Multiples(n) == {a \in 0..Word - 1 : a % n = 0}

\* The pages with a byte of the range.
AskedPages == {p \in Multiples(PgSize) : p + PgSize > AskedBegin /\ p <= AskedEnd}

(***************************************************************************)
(* vmem.cc:373, `Show memory map at va: [beginV, endV]`: whatever numbers   *)
(* are typed, the lines that vmshow prints are those of the pages with a    *)
(* byte of the range, each once and in order.                               *)
(***************************************************************************)
ShowsRange ==
    Returned({ShowName}) =>
        /\ Len(rows) = Cardinality(AskedPages)
        /\ \A p \in AskedPages : ShowsPage(rows[Cardinality({q \in AskedPages : q <= p})], p)

\* What a dump can read, and what it should show.
Readable(name, a) == IF name = DumpPName THEN a < TotalMem ELSE Present(a)
InMemory(name, a) == IF name = DumpPName THEN Content[a] ELSE Read(a)

\* How many bytes a row holds; and that it is the row of address a.
Held(row) == (Len(row) - AddrDigits) \div 3

DumpsRow(row, name, a) ==
    /\ AddressIn(row) = a
    /\ \A k \in 0..Held(row) - 1 : NumberIn(row, AddrDigits + 3 * k + 2, 2) = InMemory(name, a + k)

(***************************************************************************)
(* vmem.cc:394 and 416, `Show memory map at va: [beginV, endV]`: a dump     *)
(* shows every byte of the range up to the first that there is none of,     *)
(* with what the memory holds, and at most a row beyond either end; and it  *)
(* stops the kernel only in the last row of the address space, or beyond    *)
(* the last whole page of memory.  When the end lies in the last row, which *)
(* ROUNDUP takes for 0, nothing is claimed.                                 *)
(***************************************************************************)
DumpsRange ==
    /\ Returned({DumpVName, DumpPName}) /\ AskedEnd + RowSize <= Word =>
           LET first   == RoundDown(AskedBegin, RowSize)
               At(i)   == first + (i - 1) * RowSize
               n       == Len(rows)
               reached == IF n = 0 THEN first ELSE At(n) + Held(rows[n])
           IN /\ \A i \in 1..n : DumpsRow(rows[i], called, At(i)) /\ (i < n => Held(rows[i]) = RowSize)
              /\ reached > AskedEnd \/ ~Readable(called, reached)
              /\ reached > first => reached < AskedEnd + 2 * RowSize
    /\ pc = "fault" /\ called = DumpVName => addr + RowSize = Word
    /\ pc = "fault" /\ called = DumpPName => addr + RowSize > NPages * PgSize

(***************************************************************************)
(* What the two need of the numbers: that the code reads the numbers that   *)
(* are typed, and that the lines it makes are legible.                      *)
(***************************************************************************)
NumbersRead ==
    \A l \in Lines : \A i \in 2..Len(Words(l)) :
        LET w == Words(l)[i] IN ToLong(w, 0) \in 0..Word - 1 /\ ToLong(w, 0) = Written(w) % Word

PagesLegible == \A p \in Multiples(PgSize) : ShowsPage(ShowRow(p), p)

RowsLegible ==
    \A a \in Multiples(RowSize) :
        /\ DumpsRow(DumpVLine(a), DumpVName, a)
        /\ Held(DumpVLine(a)) = IF Present(a) THEN RowSize ELSE 0
        /\ Addressed(a) => DumpsRow(DumpPLine(a), DumpPName, a) /\ Held(DumpPLine(a)) = Installed(a)

\* No line is dropped: there are at most so many that an address begins.
RowsKept == MaxRows \in Nat /\ Word <= MaxRows * PgSize /\ Word <= MaxRows * RowSize

(***************************************************************************)
(* Each command returns to the prompt or stops the kernel (vmem.cc:379,     *)
(* 399, 424), whatever it is asked for, but vmshow up to an address in the  *)
(* last page: the loop variable wraps and never passes the end.             *)
(***************************************************************************)
CommandReturns ==
    (pc = "loop" /\ (called = ShowName => last + PgSize < Word)) ~> (pc # "loop")
=============================================================================
