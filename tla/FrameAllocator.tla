---------------------------- MODULE FrameAllocator ----------------------------
(***************************************************************************)
(* The physical memory manager (kernel/src/memory/frame_allocator.rs).     *)
(* Two bitmaps say which frames are used and which of those were handed    *)
(* out; free_frames counts the others.  initialize marks everything used,  *)
(* releases the usable regions of the firmware's memory map one by one,    *)
(* then takes back the ranges the boot left in use.  Its loops over        *)
(* entries and ranges are steps of the model, the loops over the frames of *)
(* one region are set operations.                                          *)
(*                                                                         *)
(* The bitmaps are sets of frame numbers; addresses and lengths are in     *)
(* bytes.                                                                  *)
(***************************************************************************)
EXTENDS Integers, Sequences, FiniteSets

CONSTANTS
    FRAME_SIZE,     \* bytes (4096)
    MAX_FRAMES,     \* frames below MAX_PHYSICAL_MEMORY (2^20)
    ADDRESS_LIMIT,  \* 2^64: addresses and lengths are u64
    MemoryMaps,     \* the memory maps the firmware may report
    BootRanges,     \* the ranges initialize reserves, in order, as <<start, end>>
    KernelRanges    \* <<kernel_start, kernel_end>>: where the kernel may be loaded

MemoryMapEntry == [base_addr : Nat, length : Nat, entry_type : Nat]

ASSUME FrameAssumption ==
    /\ FRAME_SIZE \in Nat \ {0}
    /\ MAX_FRAMES \in Nat
    /\ ADDRESS_LIMIT \in Nat
    /\ \A m \in MemoryMaps : m \in Seq(MemoryMapEntry)
    /\ BootRanges \in Seq(Nat \X Nat)
    /\ \A j \in 1 .. Len(BootRanges) : BootRanges[j][1] < BootRanges[j][2]
    /\ KernelRanges \subseteq Nat \X Nat
    /\ \A k \in KernelRanges : k[1] < k[2]      \* _start halts otherwise

VARIABLES
    pmm,            \* the two bitmaps and the counter
    memory_map, kernel, \* what initialize is given
    phase, next     \* how far initialize is

fa_vars == <<pmm, memory_map, kernel, phase, next>>

Frames == 0 .. MAX_FRAMES - 1

(* Mutant: align_up rounds down.                                            *)
align_up_Down(value) == value - (value % FRAME_SIZE)

align_up(value) ==
    IF value % FRAME_SIZE = 0 THEN value ELSE value + (FRAME_SIZE - (value % FRAME_SIZE))

align_down(value) == value - (value % FRAME_SIZE)

(* The frames a loop from one aligned address to another visits.            *)
FramesFrom(start, end) == {f \in Frames : start <= f * FRAME_SIZE /\ f * FRAME_SIZE < end}

(* Mutant: a frame released twice is counted twice.                         *)
release_CountsTwice(p, fs) ==
    [used |-> p.used \ fs, allocated |-> p.allocated,
     free_frames |-> p.free_frames + Cardinality(fs)]

(* mark_free for each used frame of fs.                                     *)
release(p, fs) ==
    [used |-> p.used \ fs, allocated |-> p.allocated,
     free_frames |-> p.free_frames + Cardinality(fs \cap p.used)]

(* mark_used for each free frame of fs.                                     *)
reserve(p, fs) ==
    [used |-> p.used \cup fs, allocated |-> p.allocated,
     free_frames |-> p.free_frames - Cardinality(fs \ p.used)]

(* Mutant: the end of the range is rounded down.                            *)
reserve_range_RoundsDown(p, start, end) ==
    reserve(p, FramesFrom(align_down(start), align_down(end)))

reserve_range(p, start, end) == reserve(p, FramesFrom(align_down(start), align_up(end)))

(* base_addr.checked_add(length) is Some.                                   *)
end_exists(entry) == entry.base_addr + entry.length < ADDRESS_LIMIT

(* The frames that lie completely in a usable entry.                        *)
region(entry) ==
    IF entry.entry_type # 1 \/ ~end_exists(entry) THEN {}
    ELSE FramesFrom(align_up(entry.base_addr), align_down(entry.base_addr + entry.length))

-----------------------------------------------------------------------------
(* allocate_frame and free_frame, as functions of the allocator.            *)

HasFree(p) == Frames \ p.used # {}

(* The first frame whose bit is clear.                                      *)
first_free(p) == CHOOSE f \in Frames \ p.used : \A g \in Frames \ p.used : f <= g

(* Mutant: the frame is not entered in FRAME_BITMAP.                        *)
mark_allocated_LeavesFree(p, f) ==
    [used |-> p.used, allocated |-> p.allocated \cup {f}, free_frames |-> p.free_frames - 1]

mark_allocated(p, f) ==
    [used |-> p.used \cup {f}, allocated |-> p.allocated \cup {f},
     free_frames |-> p.free_frames - 1]

(* free_frame does something only for a frame that was handed out.          *)
frees(p, address) ==
    /\ address % FRAME_SIZE = 0
    /\ address \div FRAME_SIZE < MAX_FRAMES
    /\ address \div FRAME_SIZE \in p.allocated

freed(p, address) ==
    IF frees(p, address)
    THEN [used |-> p.used \ {address \div FRAME_SIZE},
          allocated |-> p.allocated \ {address \div FRAME_SIZE},
          free_frames |-> p.free_frames + 1]
    ELSE p

-----------------------------------------------------------------------------
(* FrameAllocator::empty(); the static bitmaps are zero.                    *)
Init ==
    /\ pmm = [used |-> {}, allocated |-> {}, free_frames |-> 0]
    /\ memory_map \in MemoryMaps
    /\ kernel \in KernelRanges
    /\ phase = "empty"
    /\ next = 1

initialize_start ==
    /\ phase = "empty"
    /\ pmm' = [used |-> Frames, allocated |-> {}, free_frames |-> 0]
    /\ phase' = "release"
    /\ UNCHANGED <<memory_map, kernel, next>>

initialize_release ==
    /\ phase = "release"
    /\ IF next <= Len(memory_map)
       THEN /\ pmm' = release(pmm, region(memory_map[next]))
            /\ next' = next + 1
            /\ UNCHANGED phase
       ELSE phase' = "reserve" /\ next' = 1 /\ UNCHANGED pmm
    /\ UNCHANGED <<memory_map, kernel>>

(* The ranges of the boot first, the kernel last.                           *)
initialize_reserve ==
    /\ phase = "reserve"
    /\ IF next <= Len(BootRanges)
       THEN /\ pmm' = reserve_range(pmm, BootRanges[next][1], BootRanges[next][2])
            /\ next' = next + 1
            /\ UNCHANGED phase
       ELSE /\ pmm' = reserve_range(pmm, kernel[1], kernel[2])
            /\ phase' = "ready"
            /\ UNCHANGED next
    /\ UNCHANGED <<memory_map, kernel>>

initialize == initialize_start \/ initialize_release \/ initialize_reserve

allocate_frame ==
    /\ phase = "ready"
    /\ HasFree(pmm)
    /\ pmm' = mark_allocated(pmm, first_free(pmm))
    /\ UNCHANGED <<memory_map, kernel, phase, next>>

free_frame(address) ==
    /\ phase = "ready"
    /\ pmm' = freed(pmm, address)
    /\ UNCHANGED <<memory_map, kernel, phase, next>>

(* Any address up to one frame past the last.                               *)
Next ==
    \/ initialize
    \/ allocate_frame
    \/ \E address \in 0 .. (MAX_FRAMES + 1) * FRAME_SIZE : free_frame(address)

Spec == Init /\ [][Next]_fa_vars

-----------------------------------------------------------------------------
(* Properties.                                                              *)

(* The bitmaps cover the frames below MAX_PHYSICAL_MEMORY and free_frames,  *)
(* a usize, is not taken below zero by initialize, allocate_frame or        *)
(* free_frame.                                                              *)
TypeOK ==
    /\ pmm \in [used : SUBSET Frames, allocated : SUBSET Frames, free_frames : Nat]
    /\ memory_map \in MemoryMaps /\ kernel \in KernelRanges
    /\ phase \in {"empty", "release", "reserve", "ready"}
    /\ next \in Nat \ {0}

(* free_frames is the number of clear bits at every moment, also while      *)
(* regions and ranges that overlap are released and reserved; so the        *)
(* decrements never take it below zero.                                     *)
CountExact == phase # "empty" => pmm.free_frames = Cardinality(Frames \ pmm.used)

Bytes(f) == f * FRAME_SIZE .. f * FRAME_SIZE + FRAME_SIZE - 1

(* Said of bytes and not of rounded addresses: a usable entry, whose end    *)
(* can be told, has all of f.                                               *)
Usable(f) ==
    \E i \in 1 .. Len(memory_map) :
      LET e == memory_map[i] IN
        /\ e.entry_type = 1 /\ end_exists(e)
        /\ \A b \in Bytes(f) : e.base_addr <= b /\ b < e.base_addr + e.length

(* Some byte of f is in a range that must not be handed out.                *)
InRange(f, range) == \E b \in Bytes(f) : range[1] <= b /\ b < range[2]

Reserved(f) ==
    InRange(f, kernel) \/ \E j \in 1 .. Len(BootRanges) : InRange(f, BootRanges[j])

(* Once initialize is done, exactly the frames that are wholly usable, not  *)
(* touched by the boot or the kernel and not handed out, are free: no byte  *)
(* of the kernel can be given away and no usable frame is lost.             *)
FreeExactly ==
    phase = "ready" =>
      \A f \in Frames :
        f \notin pmm.used <=> Usable(f) /\ ~Reserved(f) /\ f \notin pmm.allocated

(* What is handed out was good to hand out, whatever was freed before, and  *)
(* freeing an address that was not handed out changes nothing.              *)
HandedOutUsable ==
    \A f \in pmm.allocated : f \in pmm.used /\ Usable(f) /\ ~Reserved(f)

(* A step of a ready allocator takes one frame from the free ones to the    *)
(* handed out ones, or one the other way, or does nothing.                  *)
OneFrameMoves ==
    [][phase = "ready" =>
         \/ UNCHANGED pmm
         \/ \E f \in Frames \ pmm.used :
              pmm'.allocated = pmm.allocated \cup {f} /\ pmm'.used = pmm.used \cup {f}
         \/ \E f \in pmm.allocated :
              pmm'.allocated = pmm.allocated \ {f} /\ pmm'.used = pmm.used \ {f}]_fa_vars
=============================================================================
