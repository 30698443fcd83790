----------------------------- MODULE Processors -----------------------------
(***************************************************************************)
(* The search for processors (kernel/mp.cc): mp::init walks the table of    *)
(* the BIOS and fills cpus, then lapic::init sets up the interrupt input of *)
(* the processor it runs on.  The search for the structure that names the   *)
(* table, with its checksum, is left out, and so are the registers of the   *)
(* local APIC that no decision depends on.                                  *)
(***************************************************************************)
EXTENDS Naturals, Sequences, SequencesExt

CONSTANTS MaxCpuCount,  \* MAX_CPU_COUNT, 32
          Tables,       \* the tables a BIOS may leave, sequences of entries
          LapicFrames   \* the pages that local APICs are mapped at, 0 for none

\* Bit 0 of the flags, an unusable processor, is not looked at by the code.
Entries == [proc : {FALSE}] \cup [proc : {TRUE}, apic : 0..255, bsp : BOOLEAN]

Marked(t) == {k \in DOMAIN t : t[k].proc /\ t[k].bsp}

Bsp(t) == CHOOSE k \in Marked(t) : TRUE

ASSUME ProcessorsAssumption ==
    /\ MaxCpuCount \in Nat \ {0} /\ LapicFrames \subseteq Nat
    /\ \A t \in Tables : /\ t \in Seq(Entries)
                         /\ t # <<>> => \E k \in DOMAIN t : Marked(t) = {k}

\* What mp::init may find wrong with the table that an FPStruct names: no memory at
\* its address, no PCMP there (nor is any at 0, where a default configuration points:
\* the assert for it cannot fail, KERN_ADDR(0) being KERNBASE), a checksum.
Sound == "sound"
Flaws == {"outside", "unsigned", "base checksum", "extended checksum"}

VARIABLES table,      \* the table; <<>> when no FPStruct is found
          conf,       \* Sound, or what is wrong with the table
          i,          \* the entries that have been walked
          cpus,       \* for each id of cpus in use, the entry it was made of
          bootstrap,  \* the id that bootstrapCPU points at, or None
          started,    \* the ids with the status started
          lapicPhy,   \* lapic_address of the table, as a page
          lint0,      \* whether LINT0 of this processor is masked
          pc          \* search, walk, lapic, done; panic: an assert of the table
                      \* failed; fault: a null pointer is followed

vars == <<table, conf, i, cpus, bootstrap, started, lapicPhy, lint0, pc>>

None     == MaxCpuCount   \* nullptr
cpuCount == Len(cpus)

Init == /\ table \in Tables
        /\ conf \in {Sound} \cup Flaws
        /\ i = 0 /\ cpus = <<>> /\ bootstrap = None /\ started = {}
        /\ lapicPhy \in LapicFrames
        /\ lint0 = "open"
        /\ pc = "search"

-----------------------------------------------------------------------------
\* No table: one processor.  Entry 0 stands for no entry.
Single == /\ pc = "search" /\ table = <<>>
          /\ cpus' = <<0>> /\ bootstrap' = 0 /\ started' = {0}
          /\ pc' = "done"
          /\ UNCHANGED <<table, conf, i, lapicPhy, lint0>>

\* KERN_ADDR and the asserts on the table: each failure is kernelPanic.
RefuseTable == /\ pc = "search" /\ table # <<>> /\ conf # Sound
               /\ pc' = "panic"
               /\ UNCHANGED <<table, conf, i, cpus, bootstrap, started, lapicPhy, lint0>>

TakeTable == /\ pc = "search" /\ table # <<>> /\ conf = Sound
             /\ pc' = "walk"
             /\ UNCHANGED <<table, conf, i, cpus, bootstrap, started, lapicPhy, lint0>>

\* Seeded fault: the end of cpus is not checked.
AddProcessorUnchecked ==
    /\ pc = "walk" /\ i < Len(table) /\ table[i + 1].proc
    /\ i' = i + 1
    /\ cpus' = Append(cpus, i + 1)
    /\ bootstrap' = IF table[i + 1].bsp THEN cpuCount ELSE bootstrap
    /\ UNCHANGED <<table, conf, started, lapicPhy, lint0, pc>>

\* Seeded fault: cpuCount is advanced before the address is taken.
AddProcessorAhead ==
    /\ pc = "walk" /\ i < Len(table) /\ table[i + 1].proc
    /\ i' = i + 1
    /\ IF cpuCount < MaxCpuCount
       THEN /\ cpus' = Append(cpus, i + 1)
            /\ bootstrap' = IF table[i + 1].bsp THEN cpuCount + 1 ELSE bootstrap
       ELSE UNCHANGED <<cpus, bootstrap>>
    /\ UNCHANGED <<table, conf, started, lapicPhy, lint0, pc>>

AddProcessor ==
    /\ pc = "walk" /\ i < Len(table) /\ table[i + 1].proc
    /\ i' = i + 1
    /\ IF cpuCount < MaxCpuCount
       THEN /\ cpus' = Append(cpus, i + 1)
            /\ bootstrap' = IF table[i + 1].bsp THEN cpuCount ELSE bootstrap
       ELSE UNCHANGED <<cpus, bootstrap>>
    /\ UNCHANGED <<table, conf, started, lapicPhy, lint0, pc>>

SkipEntry ==
    /\ pc = "walk" /\ i < Len(table) /\ ~table[i + 1].proc
    /\ i' = i + 1
    /\ UNCHANGED <<table, conf, cpus, bootstrap, started, lapicPhy, lint0, pc>>

\* bootstrapCPU->status = started
Start ==
    /\ pc = "walk" /\ i = Len(table)
    /\ IF bootstrap = None THEN pc' = "fault" /\ UNCHANGED started
       ELSE pc' = "lapic" /\ started' = started \cup {bootstrap}
    /\ UNCHANGED <<table, conf, i, cpus, bootstrap, lapicPhy, lint0>>

\* thisCPU: the hardware's number is taken for an index of cpus.
ThisCPU == table[Bsp(table)].apic

LapicInit ==
    /\ pc = "lapic"
    /\ lint0' = IF lapicPhy # 0 /\ ThisCPU # bootstrap THEN "masked" ELSE lint0
    /\ pc' = "done"
    /\ UNCHANGED <<table, conf, i, cpus, bootstrap, started, lapicPhy>>

Next == Single \/ RefuseTable \/ TakeTable \/ AddProcessor \/ SkipEntry \/ Start \/ LapicInit

Spec == Init /\ [][Next]_vars

-----------------------------------------------------------------------------
\* cpus holds no more processors than it has room for.
TypeOK == /\ cpuCount <= MaxCpuCount
          /\ \A k \in DOMAIN cpus : cpus[k] \in 0..Len(table)
          /\ bootstrap \in 0..MaxCpuCount-1 \cup {None}
          /\ pc \in {"search", "walk", "lapic", "done", "panic", "fault"}

(***************************************************************************)
(* Whatever the table holds, bootstrapCPU is the record of the processor    *)
(* that the table marks, and of no other, and only this one is started      *)
(* (mp.cc:163-185), unless cpus was full before the walk came to it.        *)
(***************************************************************************)
BootstrapIsMarked ==
    pc \in {"lapic", "done"} /\ table # <<>> =>
        /\ bootstrap + 1 \in DOMAIN cpus
        /\ cpus[bootstrap + 1] = Bsp(table)
        /\ started = {bootstrap}
=============================================================================
