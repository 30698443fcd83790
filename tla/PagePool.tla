------------------------------ MODULE PagePool ------------------------------
(***************************************************************************)
(* What the physical page allocator promises its callers, without lists or  *)
(* counters of fixed width: a page is owned by its callers from the         *)
(* allocation to the end of its last reference, an allocation returns a     *)
(* page nobody owns, and it fails only when every page is owned.            *)
(***************************************************************************)
EXTENDS Naturals

CONSTANTS Pages, Kernel, None   \* Kernel: the pages that are never given out

VARIABLES owned,   \* the pages in use
          refs,    \* references to each page
          ret      \* what the last allocation returned

vars == <<owned, refs, ret>>

Init == /\ owned = Kernel
        /\ refs = [p \in Pages |-> IF p \in Kernel THEN 1 ELSE 0]
        /\ ret = None

Allocate ==
    \/ \E p \in Pages \ owned :
          /\ owned' = owned \cup {p}
          /\ ret' = p
          /\ UNCHANGED refs
    \/ /\ owned = Pages
       /\ ret' = None
       /\ UNCHANGED <<owned, refs>>

Share(p) == /\ p \in owned \ Kernel
            /\ refs' = [refs EXCEPT ![p] = @ + 1]
            /\ UNCHANGED <<owned, ret>>

Drop(p) == /\ p \in owned \ Kernel
           /\ refs[p] > 0
           /\ refs' = [refs EXCEPT ![p] = @ - 1]
           /\ owned' = IF refs[p] = 1 THEN owned \ {p} ELSE owned
           /\ UNCHANGED ret

Next == Allocate \/ \E p \in Pages : Share(p) \/ Drop(p)

Spec == Init /\ [][Next]_vars
=============================================================================
