----------------------------- MODULE MCBootLoader -----------------------------
(* The layout of the code in granules of 16 KiB.  Kernels of one to sixteen *)
(* granules (256 KiB) with a note and up to two loadable segments; an       *)
(* invalid one; and one too large to be built.                              *)
EXTENDS BootLoader

Seg(type, offset, paddr, filesz, memsz) ==
    [p_type |-> type, p_offset |-> offset, p_paddr |-> paddr, p_filesz |-> filesz,
     p_memsz |-> memsz]

TwoSegments(n) ==
    [size |-> n, valid |-> TRUE,
     segments |-> <<Seg(4, 0, 64, 1, 1), Seg(1, n \div 2, 72, n - (n \div 2), 20),
                    Seg(1, 0, 64, n \div 2, 8)>>]

Documented ==
    {TwoSegments(n) : n \in {2, 7, 16}} \cup
    {[size |-> 1, valid |-> TRUE, segments |-> <<Seg(1, 0, 64, 1, 3)>>],
     [size |-> 3, valid |-> FALSE, segments |-> << >>],
     [size |-> 1, valid |-> TRUE, segments |-> << >>],
     [size |-> 0, valid |-> FALSE, segments |-> << >>],
     [size |-> 33, valid |-> TRUE, segments |-> << >>]}

(* What the image builder accepts is up to 32 granules.                     *)
Accepted == {TwoSegments(n) : n \in {16, 17}}
=============================================================================
