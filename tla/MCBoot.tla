------------------------------- MODULE MCBoot -------------------------------
(***************************************************************************)
(* Boot with pages of 16 bytes and of 4 KB, tables of 20 entries, so that   *)
(* "4 MB" are 20 pages, of which the first two lie below "1 MB".  KERNBASE  *)
(* has two tables above it.  All sizes of memory meet two images, all       *)
(* images and all sound tables of processors one memory, and each flaw a    *)
(* table of one entry.                                                      *)
(***************************************************************************)
EXTENDS Boot

Header(a, n, o) == [pa |-> a, memsz |-> n, offset |-> o]

\* One or two segments below the data and PT_GNU_STACK after it.  The first
\* begins at 1 MB; a second one follows it without a gap, in the same sector or not.
Kernel(text, ro, bss, over) ==
    LET end == 48 + 16 + bss + over
    IN [elf |-> TRUE,
        phdrs |-> <<Header(32, text, 16)>>
                  \o (IF ro = 0 THEN <<>> ELSE <<Header(32 + text, ro, 16 + text)>>)
                  \o <<Header(48, 16 + bss + over + 1, 32), Header(0, 0, 0)>>,
        stack |-> 48, edata |-> 48 + 16 + bss, end |-> end, kernEnd |-> end + 1]

Backwards(im) == [im EXCEPT !.phdrs = Reverse(@)]

SmallKernel == Kernel(6, 0, 3, 4)

MCImages == {Kernel(t, r, b, o) : t \in {4, 6, 9}, r \in {0, 2, 7}, b \in {0, 5}, o \in {0, 9, 10}}
            \cup {SmallKernel, Backwards(Kernel(6, 7, 3, 4)), [SmallKernel EXCEPT !.elf = FALSE]}

\* From "4 MB" to all that can be mapped at KERNBASE, whole pages or not, around
\* the "16 MB" (120 KB here) at which the NVRAM changes its unit.
MCRam == 80..160

MCEntries == [proc : {FALSE}] \cup [proc : {TRUE}, apic : 0..2, bsp : BOOLEAN]

Plausible(t) ==
    LET procs == {k \in DOMAIN t : t[k].proc}
    IN /\ \A k, n \in procs : k # n => t[k].apic # t[n].apic
       /\ \E k \in procs : t[k].bsp /\ \A n \in procs \ {k} : ~t[n].bsp

MCTables == {<<>>} \cup {t \in SeqOf(MCEntries, 4) : Plausible(t)}

MCLapicFrames == {0, 1000}

MCInit == /\ \/ /\ image \in {SmallKernel, Backwards(Kernel(6, 7, 3, 4))}
                /\ ram \in MCRam
                /\ table \in {t \in MCTables : Len(t) < 2} /\ conf = Sound
             \/ /\ image \in MCImages
                /\ ram = 160
                /\ table = <<>> /\ conf = Sound
             \/ /\ image = SmallKernel
                /\ ram = 130
                /\ table \in MCTables /\ conf = Sound
             \/ /\ image = SmallKernel
                /\ ram = 130
                /\ table \in {t \in MCTables : Len(t) = 1} /\ conf \in Flaws
          /\ BootInit

MCSpec == MCInit /\ [][BootNextStep]_bvars /\ WF_bvars(BootNextStep)
=============================================================================
