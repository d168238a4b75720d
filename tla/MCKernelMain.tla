----------------------------- MODULE MCKernelMain -----------------------------
(* Tables of 24 entries, so that the identity map is one page table, as 512 *)
(* entries are in the kernel.  Memory ends at any frame, with or without a  *)
(* region above the identity map; kernels leave 16, 15 and 14 frames below. *)
EXTENDS KernelMain

Low(n) == [base_addr |-> 0, length |-> 2 * n, entry_type |-> 1]
High == [base_addr |-> 48, length |-> 8, entry_type |-> 1]
Maps == {<<Low(n)>> : n \in 8 .. 28} \cup {<<Low(n), High>> : n \in {8, 12, 20, 23, 24}}
Boot2 == <<<<0, 4>>>>
Kernels == {<<4, 16>>, <<4, 17>>, <<4, 20>>}
Entries == {4, 5}
NoRequests == {}
AllBuilds == [removed : {1, 2}, pic : BOOLEAN]
Cached == {96, 1152}
=============================================================================
