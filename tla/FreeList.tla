------------------------------ MODULE FreeList ------------------------------
(***************************************************************************)
(* The intrusive LIFO list that the kernel uses twice, for the pages        *)
(* (PageInfo::freeList) and for the tasks (Task::freeList): a head pointer  *)
(* and a nextFree link in every element.                                    *)
(***************************************************************************)
EXTENDS Naturals, FiniteSets

(***************************************************************************)
(* The chain from head through next visits each element of the set free     *)
(* once, nothing else, and ends in nil.                                     *)
(***************************************************************************)
IsChain(head, next, nil, n, s) ==
    /\ \A i, j \in 1..n : s[i] = s[j] => i = j
    /\ head = IF n = 0 THEN nil ELSE s[1]
    /\ \A i \in 1..n : next[s[i]] = IF i = n THEN nil ELSE s[i+1]

IsListWith(head, next, nil, free, n) ==
    \E s \in [1..n -> free] : /\ IsChain(head, next, nil, n, s)
                              /\ \A p \in free : \E i \in 1..n : s[i] = p

IsListOf(head, next, nil, free) ==
    IsListWith(head, next, nil, free, Cardinality(free))
=============================================================================
