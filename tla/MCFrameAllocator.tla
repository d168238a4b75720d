--------------------------- MODULE MCFrameAllocator ---------------------------
(* Six frames of four bytes; memory maps of up to two entries of any        *)
(* alignment and overlap, one with an end that u64 cannot hold; boot ranges *)
(* that overlap, and a kernel that begins or ends inside a frame, also past *)
(* the last one.                                                            *)
EXTENDS FrameAllocator

Entries == [base_addr : {0, 3, 4, 9}, length : {0, 6, 15, 24}, entry_type : {1, 2}]
Maps == {<<e>> : e \in Entries} \cup {<<e, f>> : e, f \in Entries}
Boot == <<<<0, 4>>, <<1, 3>>>>
Kernels == {<<5, 9>>, <<8, 12>>, <<19, 26>>}
=============================================================================
