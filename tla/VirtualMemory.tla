---------------------------- MODULE VirtualMemory -----------------------------
(***************************************************************************)
(* Page tables, the kernel's address space and its heap                    *)
(* (kernel/src/memory/{page_table,address_space,heap}.rs) on top of the    *)
(* frame allocator.  tables is physical memory seen as page tables; a walk *)
(* goes through four of them.  Calls are sequential and any of them may    *)
(* run out of frames half way.                                             *)
(*                                                                         *)
(* No code sets HUGE_PAGE, so the huge branches of translate and unmap,    *)
(* which no entry of these tables reaches, are left out.                   *)
(***************************************************************************)
EXTENDS FrameAllocator

CONSTANTS
    ENTRIES,            \* entries of a table (512)
    VIRTUAL_LIMIT,      \* 2^64
    ADDRESS_MASK,       \* the last physical page an entry can hold
    HEAP_START, HEAP_SIZE,
    MapRequests,        \* what callers map: <<virtual, physical, writable, user>>
    IdentityRequests,   \* what they identity-map: <<start, end, writable>>
    MaxHeld             \* bound: frames callers keep for themselves

ASSUME VirtualAssumption ==
    /\ ENTRIES \in Nat \ {0}
    /\ {VIRTUAL_LIMIT, ADDRESS_MASK, HEAP_START, HEAP_SIZE, MaxHeld} \subseteq Nat
    /\ VIRTUAL_LIMIT % (ENTRIES * ENTRIES * ENTRIES * ENTRIES * FRAME_SIZE) = 0
    /\ MapRequests \subseteq (0 .. VIRTUAL_LIMIT - 1) \X Nat \X BOOLEAN \X BOOLEAN
    /\ IdentityRequests \subseteq (0 .. VIRTUAL_LIMIT - 1) \X (0 .. VIRTUAL_LIMIT - 1) \X BOOLEAN
    /\ HEAP_START + HEAP_SIZE <= VIRTUAL_LIMIT

VARIABLES
    tables,     \* the frames in use as page tables, and their entries
    pml4_phys,  \* AddressSpace, or None before new()
    heap,       \* KernelHeap
    held,       \* ghost: frames callers of allocate_frame have
    reply       \* ghost: the last call on the address space and how it ended

vm_vars == <<tables, pml4_phys, heap, held, reply>>
all_vars == <<fa_vars, vm_vars>>

PAGE_SIZE == FRAME_SIZE
None == -1
SPAN == ENTRIES * ENTRIES * ENTRIES * ENTRIES * PAGE_SIZE     \* 2^48

-----------------------------------------------------------------------------
(* page_table.rs.  m is what map and its callers change: the allocator, the *)
(* tables and whether the call goes on (ok); root is the PML4 it is given.  *)

is_canonical(va) == va < SPAN \div 2 \/ va >= VIRTUAL_LIMIT - SPAN \div 2

(* The indexes of a page in the four tables of its walk.                    *)
indexes(va) ==
    LET page == (va % SPAN) \div PAGE_SIZE
    IN  <<page \div (ENTRIES * ENTRIES * ENTRIES),
          (page \div (ENTRIES * ENTRIES)) % ENTRIES,
          (page \div ENTRIES) % ENTRIES,
          page % ENTRIES>>

NotPresent == [present |-> FALSE, address |-> 0, writable |-> FALSE, user |-> FALSE]

make_entry(address, w, u) ==
    [present |-> TRUE, address |-> address, writable |-> w, user |-> u]

zeroed == [i \in 0 .. ENTRIES - 1 |-> NotPresent]

(* A table entry is changed.                                                *)
put(m, table, i, entry) ==
    [m EXCEPT !.tables[table][i] = entry]

(* Mutant: an existing table keeps the rights it was made with.             *)
widened_Not(entry, w, u) == entry

(* The rights of an entry that is already there only grow.                  *)
widened(entry, w, u) ==
    make_entry(entry.address, entry.writable \/ w, entry.user \/ u)

(* A frame is taken and zeroed as a table.                                  *)
new_table(m) ==
    LET t == first_free(m.pmm) * FRAME_SIZE
    IN  [m EXCEPT !.pmm = mark_allocated(@, first_free(m.pmm)),
                  !.tables = [s \in DOMAIN @ \cup {t} |-> IF s = t THEN zeroed ELSE m.tables[s]]]

(* m after the child of m.at at index i was found or made; m.at is it.      *)
get_or_create_table(m, i, w, u) ==
    LET entry == m.tables[m.at][i]
        t == first_free(m.pmm) * FRAME_SIZE
    IN  IF ~m.ok THEN m
        ELSE IF entry.present
             THEN [put(m, m.at, i, widened(entry, w, u)) EXCEPT !.at = entry.address]
        ELSE IF ~HasFree(m.pmm) THEN [m EXCEPT !.ok = FALSE]
        ELSE [put(new_table(m), m.at, i, make_entry(t, w, u)) EXCEPT !.at = t]

MapAllowed(va, pa) ==
    /\ is_canonical(va) /\ va % PAGE_SIZE = 0
    /\ pa % PAGE_SIZE = 0 /\ pa <= ADDRESS_MASK

map(m, va, pa, w, u) ==
    LET ix == indexes(va)
        top == [m EXCEPT !.at = m.root]
        walked == get_or_create_table(
                    get_or_create_table(
                      get_or_create_table(top, ix[1], w, u), ix[2], w, u), ix[3], w, u)
    IN  IF ~MapAllowed(va, pa) THEN [m EXCEPT !.ok = FALSE]
        ELSE IF ~walked.ok THEN walked
        ELSE IF walked.tables[walked.at][ix[4]].present THEN [walked EXCEPT !.ok = FALSE]
        ELSE put(walked, walked.at, ix[4], make_entry(pa, w, u))

(* The four entries a walk meets, up to the first that is not present.      *)
walk(ts, va) ==
    LET ix == indexes(va)
        e1 == ts[pml4_phys][ix[1]]
        e2 == ts[e1.address][ix[2]]
        e3 == ts[e2.address][ix[3]]
        e4 == ts[e3.address][ix[4]]
    IN  IF ~e1.present THEN <<e1>>
        ELSE IF ~e2.present THEN <<e1, e2>>
        ELSE IF ~e3.present THEN <<e1, e2, e3>>
        ELSE <<e1, e2, e3, e4>>

Reaches(es) == Len(es) = 4 /\ es[4].present

IsMapped(ts, va) == Reaches(walk(ts, va))

translate(ts, va) ==
    IF ~is_canonical(va) \/ ~IsMapped(ts, va) THEN None
    ELSE walk(ts, va)[4].address + (va % PAGE_SIZE)

unmaps(ts, va) == is_canonical(va) /\ va % PAGE_SIZE = 0 /\ IsMapped(ts, va)

(* The leaf of va is zeroed; the tables above it stay.                      *)
unmap(m, va) == put(m, walk(m.tables, va)[3].address, indexes(va)[4], NotPresent)

-----------------------------------------------------------------------------
(* address_space.rs and heap.rs.                                            *)

(* The pages of a range in order; the first that cannot be mapped ends it,  *)
(* and the ones before stay.                                                *)
identity_map(m, start, end, w) ==
    LET mapped[n \in 0 .. (end - start) \div PAGE_SIZE] ==
          IF n = 0 THEN m
          ELSE LET before == mapped[n - 1]
                   va == start + (n - 1) * PAGE_SIZE
               IN  IF before.ok THEN map(before, va, va, w, FALSE) ELSE before
    IN  mapped[(end - start) \div PAGE_SIZE]

heap_page(n) == HEAP_START + n * PAGE_SIZE

(* Mutant: the frames of the pages that are unmapped are not given back.    *)
rollback_KeepsFrames(m, pages) ==
    LET undone[n \in 0 .. pages] ==
          IF n = 0 THEN m
          ELSE LET before == undone[n - 1]
                   va == heap_page(n - 1)
               IN  IF unmaps(before.tables, va) THEN unmap(before, va) ELSE before
    IN  undone[pages]

(* Mutant: the frames are given back and the pages stay mapped.             *)
rollback_LeavesMapped(m, pages) ==
    LET undone[n \in 0 .. pages] ==
          IF n = 0 THEN m
          ELSE LET before == undone[n - 1]
                   va == heap_page(n - 1)
               IN  IF unmaps(before.tables, va)
                   THEN [before EXCEPT !.pmm = freed(@, walk(before.tables, va)[4].address)]
                   ELSE before
    IN  undone[pages]

(* The first pages of the heap are unmapped and their frames freed.         *)
rollback(m, pages) ==
    LET undone[n \in 0 .. pages] ==
          IF n = 0 THEN m
          ELSE LET before == undone[n - 1]
                   va == heap_page(n - 1)
               IN  IF unmaps(before.tables, va)
                   THEN [unmap(before, va) EXCEPT
                           !.pmm = freed(@, walk(before.tables, va)[4].address)]
                   ELSE before
    IN  undone[pages]

(* One more page of the heap after pages of them.                           *)
heap_map_next(m, pages) ==
    LET frame == first_free(m.pmm)
        r == map([m EXCEPT !.pmm = mark_allocated(@, frame)],
                 heap_page(pages), frame * FRAME_SIZE, TRUE, FALSE)
    IN  IF ~HasFree(m.pmm) THEN rollback([m EXCEPT !.ok = FALSE], pages)
        ELSE IF r.ok THEN r
        ELSE rollback([r EXCEPT !.pmm = freed(@, frame * FRAME_SIZE)], pages)

heap_map(m, pages) ==
    LET mapped[n \in 0 .. pages] ==
          IF n = 0 THEN m
          ELSE LET before == mapped[n - 1]
               IN  IF before.ok THEN heap_map_next(before, n - 1) ELSE before
    IN  mapped[pages]

-----------------------------------------------------------------------------
(* A call, what it was asked for and whether it succeeded.                  *)
Answer(call, request, ok) == [call |-> call, request |-> request, ok |-> ok]

VInit ==
    /\ Init
    /\ tables = [t \in {} |-> zeroed]
    /\ pml4_phys = None
    /\ heap = [mapped_pages |-> 0, initialized |-> FALSE]
    /\ held = {}
    /\ reply = Answer("none", 0, TRUE)

Boot == initialize /\ UNCHANGED vm_vars

(* A caller takes a frame for itself, and gives it back; or frees the first *)
(* one, which the boot keeps, as the kernel's own check does.               *)
Allocate ==
    /\ Cardinality(held) < MaxHeld
    /\ allocate_frame
    /\ held' = held \cup {first_free(pmm)}
    /\ UNCHANGED <<tables, pml4_phys, heap, reply>>

Free ==
    \E f \in held \cup ({0} \ pmm.allocated) :
      /\ free_frame(f * FRAME_SIZE)
      /\ held' = held \ {f}
      /\ UNCHANGED <<tables, pml4_phys, heap, reply>>

AddressSpace_new ==
    /\ phase = "ready" /\ pml4_phys = None /\ HasFree(pmm)
    /\ pml4_phys' = first_free(pmm) * FRAME_SIZE
    /\ pmm' = mark_allocated(pmm, first_free(pmm))
    /\ tables' = [t \in {pml4_phys'} |-> zeroed]
    /\ UNCHANGED <<memory_map, kernel, phase, next, heap, held, reply>>

mem == [pmm |-> pmm, tables |-> tables, root |-> pml4_phys, at |-> pml4_phys, ok |-> TRUE]

Commit(m) ==
    /\ pml4_phys # None
    /\ pmm' = m.pmm /\ tables' = m.tables
    /\ UNCHANGED <<memory_map, kernel, phase, next, pml4_phys, held>>

MapPage ==
    \E r \in MapRequests :
      LET m == map(mem, r[1], r[2], r[3], r[4]) IN
        /\ Commit(m)
        /\ reply' = Answer("map", r, m.ok)
        /\ UNCHANGED heap

(* The pages of the heap are the heap's to unmap.                           *)
InHeap(va) == heap.initialized /\ \E n \in 0 .. heap.mapped_pages - 1 : va = heap_page(n)

UnmapPage ==
    \E va \in {r[1] : r \in MapRequests} :
      /\ pml4_phys # None
      /\ ~InHeap(va)
      /\ unmaps(tables, va)
      /\ Commit(unmap(mem, va))
      /\ reply' = Answer("unmap", va, TRUE)
      /\ UNCHANGED heap

IdentityMap ==
    \E r \in IdentityRequests :
      LET m == identity_map(mem, r[1], r[2], r[3]) IN
        /\ r[1] % PAGE_SIZE = 0 /\ r[2] % PAGE_SIZE = 0 /\ r[1] < r[2]
        /\ Commit(m)
        /\ reply' = Answer("identity_map", r, m.ok)
        /\ UNCHANGED heap

(* Pages 1 to the capacity; other numbers, and a second call, are refused.  *)
HeapInitialize ==
    \E pages \in 1 .. HEAP_SIZE \div PAGE_SIZE :
      LET m == heap_map(mem, pages) IN
        /\ ~heap.initialized
        /\ Commit(m)
        /\ reply' = Answer("heap", pages, m.ok)
        /\ heap' = [mapped_pages |-> IF m.ok THEN pages ELSE 0, initialized |-> m.ok]

VNext == \/ Boot \/ Allocate \/ Free \/ AddressSpace_new
         \/ MapPage \/ UnmapPage \/ IdentityMap \/ HeapInitialize

VSpec == VInit /\ [][VNext]_all_vars

-----------------------------------------------------------------------------
(* Properties.                                                              *)

Pages == {va \in {p * PAGE_SIZE : p \in 0 .. VIRTUAL_LIMIT \div PAGE_SIZE - 1} : is_canonical(va)}

(* What the processor makes of a walk: a right is granted if all four       *)
(* levels have it.                                                          *)
Granted(es) ==
    [address |-> es[4].address,
     writable |-> \A k \in 1 .. 4 : es[k].writable,
     user |-> \A k \in 1 .. 4 : es[k].user]

Mappings ==
    LET es == [p \in Pages |-> walk(tables, p)]
    IN  [va \in {p \in Pages : Reaches(es[p])} |-> Granted(es[va])]

Abstract == INSTANCE AddressMap WITH
    vmap <- IF pml4_phys = None THEN << >> ELSE Mappings

(* What the processor translates and grants is what the callers were told:  *)
(* a call that succeeds has mapped or unmapped the pages it was asked for,  *)
(* with the address and the rights it was asked for, and no other page; a   *)
(* call that fails, at whatever level of the tables or page of the heap it  *)
(* ran out of frames, has changed no page.  identity_map, which undoes      *)
(* nothing, has then mapped the pages before the one that failed.           *)
ImplementsAddressMap == Abstract!ASpec

(* The rights that a mapping was asked for, which its last entry has, are   *)
(* granted, whatever rights its tables were made with.                      *)
RightsGranted ==
    pml4_phys # None =>
      \A p \in Pages :
        LET es == walk(tables, p) IN
          Reaches(es) => Granted(es) = [address |-> es[4].address,
                                        writable |-> es[4].writable, user |-> es[4].user]

(* The tables of one level, from those of the level above.                  *)
Children(ts) == {e.address : e \in {x \in UNION {{tables[t][i] : i \in DOMAIN tables[t]} : t \in ts} : x.present}}

Level1 == {pml4_phys} \ {None}
Level2 == Children(Level1)
Level3 == Children(Level2)
Level4 == Children(Level3)

(* The tables are a tree: every table is reached from the root through one  *)
(* entry only, so that a page can be mapped or unmapped without another     *)
(* page being affected.                                                     *)
TablesFormTree ==
    /\ DOMAIN tables = Level1 \cup Level2 \cup Level3 \cup Level4
    /\ \A t, s \in Level1 \cup Level2 \cup Level3 :
         \A i, j \in 0 .. ENTRIES - 1 :
           /\ tables[t][i].present /\ tables[s][j].present
           /\ tables[t][i].address = tables[s][j].address
           => t = s /\ i = j

HeapFrames ==
    IF heap.initialized
    THEN {translate(tables, heap_page(n)) \div FRAME_SIZE : n \in 0 .. heap.mapped_pages - 1}
    ELSE {}

TableFrames == {t \div FRAME_SIZE : t \in DOMAIN tables}

(* Every frame handed out has one use: a caller has it, it is a table, or   *)
(* it is under one page of the heap.  None is lost by a call that fails     *)
(* half way, and none that is in use was freed.                             *)
EveryFrameHasOneUse ==
    /\ pmm.allocated = held \cup TableFrames \cup HeapFrames
    /\ Cardinality(pmm.allocated) =
         Cardinality(held) + Cardinality(TableFrames) + heap.mapped_pages
=============================================================================
