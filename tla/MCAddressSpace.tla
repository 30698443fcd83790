--------------------------- MODULE MCAddressSpace ---------------------------
(***************************************************************************)
(* AddressSpace on seven pages: kernelPageDir, a kernel table, and five     *)
(* that suffice for two directories with tables and a shared data page, and *)
(* for running out of memory in each of the allocations.                    *)
(***************************************************************************)
EXTENDS AddressSpace

MCUsedVa == {<<0, 0>>, <<0, 1>>, <<1, 0>>}
MCResident == {}
=============================================================================
