------------------------------ MODULE AddressMap ------------------------------
(***************************************************************************)
(* What an address space promises: a partial function from virtual pages   *)
(* to physical addresses and rights, and what each call does to it as told *)
(* by its answer.  A call that succeeds changes the pages it was asked     *)
(* for, as it was asked, and no other; one that fails changes none, except *)
(* that identity_map keeps the pages before the one that failed.           *)
(***************************************************************************)
EXTENDS Integers

CONSTANTS PAGE_SIZE, HEAP_START

VARIABLES
    vmap,       \* page -> [address, writable, user]
    reply       \* the last call: [call, request, ok]

AInit == DOMAIN vmap = {} /\ reply.call = "none"

(* The pages P are mapped, and the others are as before.                    *)
Plus(old, P, new) ==
    /\ P \cap DOMAIN old = {}
    /\ DOMAIN new = DOMAIN old \cup P
    /\ \A p \in DOMAIN old : new[p] = old[p]

First(start, n) == {start + k * PAGE_SIZE : k \in 0 .. n - 1}

(* The request is <<virtual, physical, writable, user>>.                    *)
Map(r, ok, old, new) ==
    IF ok THEN /\ Plus(old, {r[1]}, new)
               /\ new[r[1]] = [address |-> r[2], writable |-> r[3], user |-> r[4]]
    ELSE new = old

Unmap(va, old, new) == Plus(new, {va}, old)

(* The request is <<start, end, writable>>.                                 *)
IdentityMap(r, ok, old, new) ==
    \E n \in 0 .. (r[2] - r[1]) \div PAGE_SIZE :
      /\ ok <=> n = (r[2] - r[1]) \div PAGE_SIZE
      /\ Plus(old, First(r[1], n), new)
      /\ \A p \in First(r[1], n) : new[p] = [address |-> p, writable |-> r[3], user |-> FALSE]

(* The request is the number of pages; each gets a frame of its own.        *)
MapHeap(pages, ok, old, new) ==
    IF ok THEN LET P == First(HEAP_START, pages) IN
               /\ Plus(old, P, new)
               /\ \A p \in P : new[p].writable /\ ~new[p].user
               /\ \A p, q \in P : new[p].address = new[q].address => p = q
    ELSE new = old

Answers(a, old, new) ==
    \/ a.call = "map" /\ Map(a.request, a.ok, old, new)
    \/ a.call = "unmap" /\ Unmap(a.request, old, new)
    \/ a.call = "identity_map" /\ IdentityMap(a.request, a.ok, old, new)
    \/ a.call = "heap" /\ MapHeap(a.request, a.ok, old, new)

ANext == \E old \in {vmap}, new \in {vmap'} : Answers(reply', old, new)

ASpec == AInit /\ [][ANext]_<<vmap, reply>>
=============================================================================
