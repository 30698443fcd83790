--------------------------- MODULE MCPageAllocator ---------------------------
(***************************************************************************)
(* PageAllocator on a small machine: one kernel page, two low free pages,   *)
(* three pages above the 4 MB line, and a reference count of two bits.      *)
(***************************************************************************)
EXTENDS PageAllocator
=============================================================================
