--------------------------- MODULE MCVirtualMemory ----------------------------
(* Tables of two entries: sixteen pages.  The heap's two pages are in       *)
(* different tables of the last level; callers map one of them and a page   *)
(* of the upper half, and try addresses that map refuses.                   *)
EXTENDS VirtualMemory

Map == {<<[base_addr |-> 0, length |-> 20, entry_type |-> 1]>>}
Boot2 == <<<<0, 2>>>>
Kernels == {<<3, 4>>}
Requests ==
    {<<6, 4, FALSE, FALSE>>, <<6, 4, TRUE, TRUE>>, <<50, 4, TRUE, FALSE>>}
    \cup {<<20, 4, TRUE, TRUE>>, <<6, 3, TRUE, TRUE>>}
Identity == {<<0, 6, TRUE>>, <<0, 3, TRUE>>}
=============================================================================
