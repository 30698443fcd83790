----------------------------- MODULE BootLoader -----------------------------
(***************************************************************************)
(* The boot loader (boot/main.c) reads the segments of the kernel's ELF     *)
(* image from the disk into memory, sector by sector, and calls the kernel, *)
(* which clears its .bss first (kernel/init.cc).  A byte of the image is    *)
(* named by its offset in the file.  Physical addresses; the progress dots  *)
(* on the screen are left out.                                              *)
(***************************************************************************)
EXTENDS Integers, Sequences, SequencesExt, FiniteSetsExt

CONSTANTS SectSize,   \* SECTSIZE
          HdrSize,    \* what is read to find the headers, 8 sectors
          ElfHdr,     \* ELFHDR, the scratch space it is read to
          MemTop,     \* the memory that is looked at ends here
          Images      \* the images a disk may hold

Zero  == -1      \* a byte that was cleared
Other == -2      \* a byte that nothing has been read to

\* An image has the program headers of a linked kernel (scripts/kernel.ld), and
\* the symbols edata, end and kernEnd, and bootstack of entry.S.
Headers == [pa : Nat, memsz : Nat, offset : Nat]
Bytes(h) == h.pa .. h.pa + h.memsz - 1
Shift(h) == h.pa - h.offset
Sectors(h) == {a \div SectSize : a \in Bytes(h)}

\* The linker keeps address and offset alike modulo the page, does not put
\* segments that lie in one sector of memory into different ones of the file, and
\* gives a header without bytes (PT_GNU_STACK) the address 0.
Linked(im) ==
    LET phdrs == ToSet(im.phdrs)
    IN /\ im.phdrs \in Seq(Headers)
       /\ im.edata \in Nat /\ im.end \in Nat /\ im.kernEnd \in Nat /\ im.stack \in Nat
       /\ \A h \in phdrs : /\ Shift(h) % SectSize = 0
                           /\ h.memsz = 0 => h.pa % SectSize = 0
                           /\ Bytes(h) \subseteq ElfHdr+HdrSize..MemTop-1
       /\ \A g, h \in phdrs : Sectors(g) \cap Sectors(h) # {} => Shift(g) = Shift(h)
       /\ im.edata <= im.end /\ im.end < im.kernEnd
       /\ \A h \in phdrs : \A a \in Bytes(h) : a < im.kernEnd

ASSUME BootLoaderAssumption ==
    /\ SectSize \in Nat \ {0} /\ HdrSize \in Nat \ {0}
    /\ ElfHdr \in Nat /\ ElfHdr % SectSize = 0 /\ MemTop \in Nat
    /\ \A im \in Images : Linked(im)

VARIABLES image,   \* the image on the disk
          mem,     \* what each byte of memory holds
          seg,     \* the program headers that have been taken up
          pa,      \* readseg: where the next sector goes,
          endPa,   \*   where to stop,
          sect,    \*   and the next sector of the disk
          stage    \* what boot has come to

loadVars == <<image, mem, seg, pa, endPa, sect>>

\* Seeded fault: the end is computed from the rounded address.
ReadSegRounded(p, count, offset) ==
    /\ pa' = (p \div SectSize) * SectSize
    /\ endPa' = (p \div SectSize) * SectSize + count
    /\ sect' = offset \div SectSize + 1

\* readseg before its loop.  The image begins at sector 1 of the disk.
ReadSeg(p, count, offset) ==
    /\ pa' = (p \div SectSize) * SectSize
    /\ endPa' = p + count
    /\ sect' = offset \div SectSize + 1

\* bootmain has called readseg for the first sectors of the image.
LoadInit == /\ image \in Images
            /\ mem = [a \in 0..MemTop-1 |-> Other]
            /\ seg = 0
            /\ pa = ElfHdr /\ endPa = ElfHdr + HdrSize /\ sect = 1
            /\ stage = "load"

-----------------------------------------------------------------------------
\* A round of readseg's loop: all of a sector, whether it was asked for or not.
ReadSector ==
    /\ stage = "load" /\ pa < endPa
    /\ mem' = [a \in DOMAIN mem |-> IF a \in pa..pa+SectSize-1
                                    THEN (sect - 1) * SectSize + (a - pa) ELSE mem[a]]
    /\ pa' = pa + SectSize
    /\ sect' = sect + 1
    /\ UNCHANGED <<image, seg, endPa, stage>>

SegmentRead == stage = "load" /\ pa >= endPa

\* e_magic is not ELF_MAGIC: `while (1)`.
NotElf == /\ SegmentRead /\ seg = 0 /\ ~image.elf
          /\ stage' = "bad"
          /\ UNCHANGED loadVars

NextSegment ==
    /\ SegmentRead /\ image.elf /\ seg < Len(image.phdrs)
    /\ seg' = seg + 1
    /\ LET h == image.phdrs[seg + 1] IN ReadSeg(h.pa, h.memsz, h.offset)
    /\ UNCHANGED <<image, mem, stage>>

\* e_entry: entry.S loads entry_pgdir and calls i386InitLitchi.
EnterKernel == /\ SegmentRead /\ image.elf /\ seg = Len(image.phdrs)
               /\ stage' = "entered"
               /\ UNCHANGED loadVars

\* mem::set(edata, 0, end - edata)
ClearBss ==
    /\ stage = "entered"
    /\ mem' = [a \in DOMAIN mem |-> IF a \in image.edata..image.end-1 THEN Zero ELSE mem[a]]
    /\ stage' = "detect"
    /\ UNCHANGED <<image, seg, pa, endPa, sect>>

LoadNext == ReadSector \/ NotElf \/ NextSegment \/ EnterKernel \/ ClearBss
=============================================================================
