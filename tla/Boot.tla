-------------------------------- MODULE Boot --------------------------------
(***************************************************************************)
(* The start of the machine up to the prompt: the boot loader, then         *)
(* i386InitLitchi (kernel/init.cc:21-50) with vmem::init and mp::init.      *)
(* console::init, task::init and trap::init change nothing of this state    *)
(* and cannot fail once Task::array is set.                                 *)
(***************************************************************************)
EXTENDS BootMemory, Processors

bvars == <<loadVars, setupVars, vars, stage>>

BootInit == LoadInit /\ SetupInit /\ Init

Loading == LoadNext /\ UNCHANGED <<setupVars, vars>>

SettingUp == SetupNext /\ UNCHANGED <<loadVars, vars>>

\* mp::init; lapic::init maps the registers of the local APIC, if there is one.
Counting ==
    /\ stage = "processors" /\ m.stop = "no"
    /\ IF pc = "lapic" /\ lapicPhy # 0 THEN MmioMap(lapicPhy, PgSize) ELSE UNCHANGED <<m, mmioNext>>
    /\ Next
    /\ UNCHANGED <<loadVars, stage, ram, totalMem, next, kernelPageDir, infos, tasks>>

\* monitor::main
EnterMonitor == /\ stage = "processors" /\ pc = "done" /\ m.stop = "no"
                /\ stage' = "monitor"
                /\ UNCHANGED <<loadVars, setupVars, vars>>

BootNextStep == Loading \/ SettingUp \/ Counting \/ EnterMonitor

BootSpec == BootInit /\ [][BootNextStep]_bvars /\ WF_bvars(BootNextStep)

-----------------------------------------------------------------------------
PageOf(a)   == a \div PgSize
PagesOf(im) == {PageOf(a) : a \in UNION {Bytes(h) : h \in ToSet(im.phdrs)}}
ImagePages  == PagesOf(image)
TablePages  == {m.pde[d] : d \in 0..NPD-1} \ {NoFrame}
TaskPages   == PageOf(tasks) .. PageOf(tasks) + PagesIn(TasksSize) - 1
InfoPages   == PageOf(infos) .. PageOf(infos) + PagesIn(InfoSize * NPages) - 1
InKernel(s) == s \notin {"load", "bad", "entered"}

\* The sections of an image follow each other from 1 MB to kernEnd (scripts/kernel.ld).
ASSUME BootAssumption ==
    \A im \in Images : /\ PagesOf(im) = MB1 \div PgKB .. PageOf(im.kernEnd - 1)
                       /\ MB1 \div PgKB <= PageOf(im.kernEnd - 1)

\* The kernel's memory is the program that was linked, with .bss clear.
ImageLoaded ==
    \A h \in ToSet(image.phdrs) : \A a \in Bytes(h) :
        mem[a] = IF a \in image.edata..image.end-1 THEN Zero ELSE a - Shift(h)

\* No page of it was given away or filled.
ImageKept == ImagePages \cap (m.written \cup ToSet(m.free)) = {}

(***************************************************************************)
(* The kernel runs the program that was linked: every byte of every segment *)
(* is the one of the file, and .bss is clear, although the loader reads     *)
(* whole sectors, rounds addresses down and overwrites what lies around     *)
(* (main.c:84-92); and no page of it is given away or filled by vmem::init. *)
(***************************************************************************)
KernelIntact == InKernel(stage) => ImageLoaded /\ ImageKept

(***************************************************************************)
(* At the prompt the free list holds each page above 1 MB that the machine  *)
(* has, is counted as free, and that the kernel can address, and lacks only *)
(* those that boot took: the image, the page directory and its tables, and  *)
(* PageInfo::array.  (Pages of Task::array are on the list: a finding.)     *)
(***************************************************************************)
FreePagesUsable ==
    stage = "monitor" =>
        /\ Cardinality(ToSet(m.free)) = Len(m.free)
        /\ ToSet(m.free) \cup TaskPages \cup ImagePages \cup InfoPages \cup TablePages
              = MB1 \div PgKB .. NPages - 1
        /\ ToSet(m.free) \cap (ImagePages \cup InfoPages \cup TablePages) = {}
        /\ \A p \in ToSet(m.free) : /\ (p + 1) * PgKB <= ram
                                    /\ m.refs[p] = 0
                                    /\ FrameAt(m, KernPdx * NPT + p) = p

\* What memlayout.h draws: for each address above the user's space what is there.
Drawn(v) ==
    LET d == v \div NPT
        k == v % NPT
    IN CASE d = UEnvsPdx /\ k < PagesIn(TasksSize) -> [frame |-> PageOf(tasks) + k, perm |-> {"U"}]
         [] d = UPagesPdx -> [frame |-> PageOf(infos) + k, perm |-> {"U"}]
         [] d = MmioPdx /\ k = 0 /\ lapicPhy # 0 /\ table # <<>>
              -> [frame |-> lapicPhy, perm |-> {"W", "PCD", "PWT"}]
         [] d = StackPdx /\ k >= NPT - KStkPages
              -> [frame |-> PageOf(image.stack) + k - (NPT - KStkPages), perm |-> {"W"}]
         [] d >= KernPdx -> [frame |-> v - KernPdx * NPT, perm |-> {"W"}]
         [] OTHER -> [frame |-> NoFrame, perm |-> {}]

(***************************************************************************)
(* At the prompt every page of the address space is mapped as memlayout.h   *)
(* draws it (lines 20-80) and none besides, through tables of their own,    *)
(* after eight calls of staticMap, insert and remove with rounded sizes.    *)
(***************************************************************************)
LayoutAsDrawn ==
    stage = "monitor" =>
        /\ \A v \in 0..NPD*NPT-1 :
              (IF v \in DOMAIN m.maps THEN m.maps[v] ELSE [frame |-> NoFrame, perm |-> {}]) = Drawn(v)
        /\ m.pde[UvptPdx] = PageOf(kernelPageDir)
        /\ \A d, e \in 0..NPD-1 : d # e /\ m.pde[d] # NoFrame => m.pde[d] # m.pde[e]

\* The marked processor is in the table behind as many others as cpus has room for.
MarkedOutside == /\ table # <<>>
                 /\ Cardinality({k \in 1..Bsp(table) : table[k].proc}) > MaxCpuCount

\* Where boot ends: mp::init panics at a table that it refuses, and follows a
\* null bootstrapCPU when the marked processor has no room in cpus.
Outcome == IF table # <<>> /\ conf # Sound THEN pc = "panic"
           ELSE IF MarkedOutside THEN pc = "fault"
           ELSE stage = "monitor"

(***************************************************************************)
(* A machine with an ELF image comes to the prompt, unless its table of     *)
(* processors stops it in mp::init (mp.cc:143-147 and 185): no assert of    *)
(* vmem.cc fails, no allocation runs out of pages, and nothing above 4 MB   *)
(* is touched before the page directory is loaded (vmem.cc:161-175).        *)
(***************************************************************************)
BootReachesMonitor == image.elf ~> Outcome
=============================================================================
