------------------------- MODULE FrameAllocatorProofs -------------------------
(***************************************************************************)
(* The frame allocator's counter is exact and its free frames are the      *)
(* right ones, for every frame size, number of frames, memory map and      *)
(* kernel.  The arithmetic of rounding is in three lemmas about one frame; *)
(* the invariant says how far the loops of initialize have come.           *)
(***************************************************************************)
EXTENDS FrameAllocator, FiniteSetTheorems, NaturalsInduction, WellFoundedInduction, TLAPS

-----------------------------------------------------------------------------
(* Rounding.                                                                *)

(* Every number is a multiple of the frame size and a remainder.            *)
LEMMA Remainder ==
    ASSUME NEW v \in Nat
    PROVE  \E k \in Nat : v = k * FRAME_SIZE + (v % FRAME_SIZE)
                          /\ v % FRAME_SIZE \in 0 .. FRAME_SIZE - 1
<1>1. FRAME_SIZE \in Nat /\ FRAME_SIZE > 0
  BY FrameAssumption
<1>2. v = (v \div FRAME_SIZE) * FRAME_SIZE + (v % FRAME_SIZE)
  BY <1>1
<1>3. v \div FRAME_SIZE \in Nat /\ v % FRAME_SIZE \in 0 .. FRAME_SIZE - 1
  BY <1>1
<1> QED
  BY <1>2, <1>3

(* Multiples are ordered as their factors.                                  *)
LEMMA MultiplesOrdered ==
    ASSUME NEW k \in Nat, NEW f \in Nat
    PROVE  /\ k * FRAME_SIZE \in Nat
           /\ k <= f => k * FRAME_SIZE <= f * FRAME_SIZE
           /\ k < f => k * FRAME_SIZE + FRAME_SIZE <= f * FRAME_SIZE
<1>1. FRAME_SIZE \in Nat /\ FRAME_SIZE > 0
  BY FrameAssumption
<1>2. k * FRAME_SIZE \in Nat
  BY <1>1
<1>3. k <= f => k * FRAME_SIZE <= f * FRAME_SIZE
  BY <1>1
<1>4. (k + 1) * FRAME_SIZE = k * FRAME_SIZE + FRAME_SIZE
  BY <1>1
<1>5. k < f => (k + 1) * FRAME_SIZE <= f * FRAME_SIZE
  BY <1>1
<1> QED
  BY <1>2, <1>3, <1>4, <1>5

(* A frame begins at or after a rounded-up address iff at or after it.      *)
LEMMA AlignUp ==
    ASSUME NEW v \in Nat, NEW f \in Nat
    PROVE  align_up(v) <= f * FRAME_SIZE <=> v <= f * FRAME_SIZE
<1> DEFINE r == v % FRAME_SIZE
<1>1. FRAME_SIZE \in Nat /\ FRAME_SIZE > 0 /\ f * FRAME_SIZE \in Nat
  BY FrameAssumption, MultiplesOrdered
<1>2. PICK k \in Nat : v = k * FRAME_SIZE + r /\ r \in 0 .. FRAME_SIZE - 1
  BY Remainder
<1>3. CASE r = 0
  BY <1>3 DEF align_up
<1>4. CASE r # 0
  <2> HIDE DEF r
  <2>1. k * FRAME_SIZE \in Nat /\ r \in Nat /\ r > 0 /\ r < FRAME_SIZE
    BY <1>1, <1>2, <1>4, MultiplesOrdered
  <2>2. align_up(v) = k * FRAME_SIZE + FRAME_SIZE
    <3>1. align_up(v) = v + (FRAME_SIZE - r)
      BY <1>4 DEF align_up, r
    <3> QED
      BY <1>1, <1>2, <2>1, <3>1
  <2>3. CASE k < f
    BY <1>1, <1>2, <2>1, <2>2, <2>3, MultiplesOrdered
  <2>4. CASE f <= k
    BY <1>1, <1>2, <2>1, <2>2, <2>4, MultiplesOrdered
  <2> QED
    BY <2>3, <2>4
<1> QED
  BY <1>3, <1>4

(* A frame begins before a rounded-down address iff it ends by it.          *)
LEMMA AlignDown ==
    ASSUME NEW v \in Nat, NEW f \in Nat
    PROVE  f * FRAME_SIZE < align_down(v) <=> f * FRAME_SIZE + FRAME_SIZE <= v
<1> DEFINE r == v % FRAME_SIZE
<1>1. FRAME_SIZE \in Nat /\ FRAME_SIZE > 0 /\ f * FRAME_SIZE \in Nat
  BY FrameAssumption, MultiplesOrdered
<1>2. PICK k \in Nat : v = k * FRAME_SIZE + r /\ r \in 0 .. FRAME_SIZE - 1
  BY Remainder
<1>3. align_down(v) = v - r
  BY DEF align_down
<1> HIDE DEF r
<1>4. k * FRAME_SIZE \in Nat /\ r \in Nat /\ r < FRAME_SIZE
  BY <1>1, <1>2, MultiplesOrdered
<1>5. align_down(v) = k * FRAME_SIZE
  BY <1>1, <1>2, <1>3, <1>4
<1>6. CASE f < k
  BY <1>1, <1>2, <1>4, <1>5, <1>6, MultiplesOrdered
<1>7. CASE k <= f
  BY <1>1, <1>2, <1>4, <1>5, <1>7, MultiplesOrdered
<1> QED
  BY <1>6, <1>7

(* The bytes of a frame are a non-empty interval.                           *)
LEMMA BytesOf ==
    ASSUME NEW f \in Frames
    PROVE  /\ f \in Nat /\ f * FRAME_SIZE \in Nat
           /\ FRAME_SIZE \in Nat /\ FRAME_SIZE > 0
           /\ Bytes(f) = f * FRAME_SIZE .. f * FRAME_SIZE + FRAME_SIZE - 1
<1>1. f \in Nat
  BY FrameAssumption DEF Frames
<1> QED
  BY <1>1, FrameAssumption, MultiplesOrdered DEF Bytes

(* The loop over a usable entry visits the frames that lie in it.           *)
LEMMA RegionFrames ==
    ASSUME NEW e \in MemoryMapEntry, NEW f \in Frames
    PROVE  f \in region(e) <=>
             /\ e.entry_type = 1 /\ end_exists(e)
             /\ \A b \in Bytes(f) : e.base_addr <= b /\ b < e.base_addr + e.length
<1> DEFINE x == f * FRAME_SIZE
           s == e.base_addr
           t == e.base_addr + e.length
<1>1. s \in Nat /\ t \in Nat
  BY DEF MemoryMapEntry
<1>2. /\ f \in Nat /\ x \in Nat /\ FRAME_SIZE \in Nat /\ FRAME_SIZE > 0
      /\ Bytes(f) = x .. x + FRAME_SIZE - 1
  BY BytesOf
<1>3. align_up(s) <= x <=> s <= x
  BY <1>1, <1>2, AlignUp
<1>4. x < align_down(t) <=> x + FRAME_SIZE <= t
  BY <1>1, <1>2, AlignDown
<1>5. f \in region(e) <=> /\ e.entry_type = 1 /\ end_exists(e)
                          /\ align_up(s) <= x /\ x < align_down(t)
  BY DEF region, FramesFrom
<1> HIDE DEF x, s, t
<1>6. (\A b \in x .. x + FRAME_SIZE - 1 : s <= b /\ b < t) <=> s <= x /\ x + FRAME_SIZE <= t
  <2>1. x \in x .. x + FRAME_SIZE - 1 /\ x + FRAME_SIZE - 1 \in x .. x + FRAME_SIZE - 1
    BY <1>2
  <2>2. ASSUME \A b \in x .. x + FRAME_SIZE - 1 : s <= b /\ b < t
        PROVE  s <= x /\ x + FRAME_SIZE <= t
    <3>1. s <= x /\ x + FRAME_SIZE - 1 < t
      BY <2>1, <2>2
    <3> QED
      BY <1>1, <1>2, <3>1
  <2>3. ASSUME s <= x, x + FRAME_SIZE <= t, NEW b \in x .. x + FRAME_SIZE - 1
        PROVE  s <= b /\ b < t
    BY <1>1, <1>2, <2>3
  <2> QED
    BY <2>2, <2>3
<1> QED
  BY <1>2, <1>3, <1>4, <1>5, <1>6 DEF s, t

(* reserve_range takes the frames that a non-empty range has a byte of.     *)
LEMMA RangeFrames ==
    ASSUME NEW range \in Nat \X Nat, range[1] < range[2], NEW f \in Frames
    PROVE  f \in FramesFrom(align_down(range[1]), align_up(range[2])) <=> InRange(f, range)
<1> DEFINE x == f * FRAME_SIZE
           s == range[1]
           t == range[2]
<1>1. s \in Nat /\ t \in Nat /\ s < t
  OBVIOUS
<1>2. /\ f \in Nat /\ x \in Nat /\ FRAME_SIZE \in Nat /\ FRAME_SIZE > 0
      /\ Bytes(f) = x .. x + FRAME_SIZE - 1
  BY BytesOf
<1>3. align_up(t) \in Int /\ align_down(s) \in Int
  BY <1>1, <1>2 DEF align_up, align_down
<1>4. x < align_up(t) <=> x < t
  <2>1. align_up(t) <= x <=> t <= x
    BY <1>1, <1>2, AlignUp
  <2> HIDE DEF x, s, t
  <2> QED
    BY <1>1, <1>2, <1>3, <2>1
<1>5. align_down(s) <= x <=> s < x + FRAME_SIZE
  <2>1. x < align_down(s) <=> x + FRAME_SIZE <= s
    BY <1>1, <1>2, AlignDown
  <2> HIDE DEF x, s, t
  <2> QED
    BY <1>1, <1>2, <1>3, <2>1
<1>6. f \in FramesFrom(align_down(s), align_up(t)) <=> align_down(s) <= x /\ x < align_up(t)
  BY DEF FramesFrom
<1>7. InRange(f, range) <=> \E b \in x .. x + FRAME_SIZE - 1 : s <= b /\ b < t
  BY <1>2 DEF InRange
<1> HIDE DEF x, s, t
<1>8. (\E b \in x .. x + FRAME_SIZE - 1 : s <= b /\ b < t) <=> s < x + FRAME_SIZE /\ x < t
  <2>1. ASSUME NEW b \in x .. x + FRAME_SIZE - 1, s <= b, b < t
        PROVE  s < x + FRAME_SIZE /\ x < t
    BY <1>1, <1>2, <2>1
  <2>2. ASSUME s < x + FRAME_SIZE, x < t
        PROVE  \E b \in x .. x + FRAME_SIZE - 1 : s <= b /\ b < t
    <3>1. CASE s <= x
      <4>1. x \in x .. x + FRAME_SIZE - 1
        BY <1>2
      <4> QED
        BY <2>2, <3>1, <4>1
    <3>2. CASE ~(s <= x)
      <4>1. s \in x .. x + FRAME_SIZE - 1 /\ s <= s
        BY <1>1, <1>2, <2>2, <3>2
      <4> QED
        BY <1>1, <4>1
    <3> QED
      BY <3>1, <3>2
  <2> QED
    BY <2>1, <2>2
<1> QED
  BY <1>4, <1>5, <1>6, <1>7, <1>8 DEF s, t

-----------------------------------------------------------------------------
(* Counting.                                                                *)

Pmm == [used : SUBSET Frames, allocated : SUBSET Frames, free_frames : Nat]

Counted(p) == p \in Pmm /\ p.free_frames = Cardinality(Frames \ p.used)

(* There are finitely many frames.                                          *)
LEMMA FramesFinite ==
    /\ IsFiniteSet(Frames)
    /\ \A T \in SUBSET Frames : IsFiniteSet(T) /\ Cardinality(T) \in Nat
<1>1. IsFiniteSet(Frames)
  BY FrameAssumption, FS_Interval DEF Frames
<1> QED
  BY <1>1, FS_Subset, FS_CardinalityType

(* Releasing frames counts those that were used.                            *)
LEMMA ReleaseCounts ==
    ASSUME NEW p, Counted(p), NEW fs \in SUBSET Frames
    PROVE  Counted(release(p, fs))
<1> DEFINE A == Frames \ p.used
           B == fs \cap p.used
<1>1. /\ p.used \in SUBSET Frames /\ p.allocated \in SUBSET Frames
      /\ p.free_frames = Cardinality(A)
  BY DEF Counted, Pmm
<1>2. IsFiniteSet(A) /\ IsFiniteSet(B) /\ Cardinality(A) \in Nat /\ Cardinality(B) \in Nat
  BY FramesFinite
<1>3. A \cap B = {} /\ Frames \ (p.used \ fs) = A \cup B
  OBVIOUS
<1>4. Cardinality(A \cup B) = Cardinality(A) + Cardinality(B)
  <2> HIDE DEF A, B
  <2>1. Cardinality(A \cup B) = Cardinality(A) + Cardinality(B) - Cardinality(A \cap B)
    BY <1>2, FS_Union
  <2>2. Cardinality(A \cap B) = 0
    BY <1>3, FS_EmptySet
  <2> QED
    BY <1>2, <2>1, <2>2
<1>5. /\ release(p, fs).used = p.used \ fs
      /\ release(p, fs).allocated = p.allocated
      /\ release(p, fs).free_frames = Cardinality(A) + Cardinality(B)
  BY <1>1 DEF release
<1>6. release(p, fs) \in Pmm
  <2>1. Cardinality(A) + Cardinality(B) \in Nat
    BY <1>2
  <2> QED
    BY <1>1, <2>1 DEF release, Pmm
<1> HIDE DEF A, B
<1> QED
  BY <1>3, <1>4, <1>5, <1>6 DEF Counted

(* Reserving frames subtracts those that were free.                         *)
LEMMA ReserveCounts ==
    ASSUME NEW p, Counted(p), NEW fs \in SUBSET Frames
    PROVE  Counted(reserve(p, fs))
<1> DEFINE A == Frames \ p.used
           B == fs \ p.used
<1>1. /\ p.used \in SUBSET Frames /\ p.allocated \in SUBSET Frames
      /\ p.free_frames = Cardinality(A)
  BY DEF Counted, Pmm
<1>2. IsFiniteSet(A) /\ Cardinality(A) \in Nat /\ Cardinality(B) \in Nat
  BY FramesFinite
<1>3. A \cap B = B /\ Frames \ (p.used \cup fs) = A \ B
  OBVIOUS
<1>4. Cardinality(A \ B) = Cardinality(A) - Cardinality(B)
  <2> HIDE DEF A, B
  <2> QED
    BY <1>2, <1>3, FS_Difference
<1>5. Cardinality(A \ B) \in Nat
  BY FramesFinite
<1>6. /\ reserve(p, fs).used = p.used \cup fs
      /\ reserve(p, fs).allocated = p.allocated
      /\ reserve(p, fs).free_frames = Cardinality(A) - Cardinality(B)
  BY <1>1 DEF reserve
<1>7. reserve(p, fs) \in Pmm
  <2>1. Cardinality(A) - Cardinality(B) \in Nat
    BY <1>4, <1>5
  <2> QED
    BY <1>1, <2>1 DEF reserve, Pmm
<1> HIDE DEF A, B
<1> QED
  BY <1>3, <1>4, <1>6, <1>7 DEF Counted

(* The first clear bit is the bit of a free frame.                          *)
LEMMA FirstFree ==
    ASSUME NEW p, HasFree(p)
    PROVE  first_free(p) \in Frames \ p.used
<1> DEFINE T == Frames \ p.used
<1>1. T \in SUBSET Nat /\ T # {}
  BY FrameAssumption DEF HasFree, Frames
<1> HIDE DEF T
<1>2. PICK m \in T : \A n \in T : ~ (<<n, m>> \in OpToRel(<, Nat))
  BY <1>1, WFMin, NatLessThanWellFounded
<1>3. \A n \in T : ~ (n < m)
  BY <1>1, <1>2 DEF OpToRel
<1>4. \A n \in T : m <= n
  BY <1>1, <1>3
<1>5. \E f \in T : \A g \in T : f <= g
  BY <1>4
<1> QED
  BY <1>5 DEF first_free, T

(* Handing out a free frame counts one less.                                *)
LEMMA AllocateCounts ==
    ASSUME NEW p, Counted(p), NEW f \in Frames \ p.used
    PROVE  Counted(mark_allocated(p, f))
<1> DEFINE A == Frames \ p.used
<1>1. /\ p.used \in SUBSET Frames /\ p.allocated \in SUBSET Frames
      /\ p.free_frames = Cardinality(A)
  BY DEF Counted, Pmm
<1>2. IsFiniteSet(A) /\ f \in A /\ Frames \ (p.used \cup {f}) = A \ {f}
  BY FramesFinite
<1>3. Cardinality(A \ {f}) = Cardinality(A) - 1
  <2> HIDE DEF A
  <2> QED
    BY <1>2, FS_RemoveElement
<1>4. Cardinality(A \ {f}) \in Nat
  BY FramesFinite
<1>5. mark_allocated(p, f) \in Pmm
  <2>1. p.free_frames - 1 \in Nat
    BY <1>1, <1>3, <1>4
  <2> QED
    BY <1>1, <2>1 DEF mark_allocated, Pmm
<1>6. /\ mark_allocated(p, f).used = p.used \cup {f}
      /\ mark_allocated(p, f).free_frames = p.free_frames - 1
  BY DEF mark_allocated
<1> HIDE DEF A
<1> QED
  BY <1>1, <1>2, <1>3, <1>5, <1>6 DEF Counted

(* Freeing counts one more, because what is handed out is used.             *)
LEMMA FreeCounts ==
    ASSUME NEW p, Counted(p), p.allocated \subseteq p.used, NEW address \in Nat
    PROVE  Counted(freed(p, address))
<1> DEFINE A == Frames \ p.used
           f == address \div FRAME_SIZE
<1>1. /\ p.used \in SUBSET Frames /\ p.allocated \in SUBSET Frames
      /\ p.free_frames = Cardinality(A) /\ p.free_frames \in Nat
  BY DEF Counted, Pmm
<1>2. CASE ~frees(p, address)
  BY <1>2 DEF freed
<1>3. CASE frees(p, address)
  <2>1. f \in p.allocated
    BY <1>3 DEF frees
  <2>2. freed(p, address) = [used |-> p.used \ {f}, allocated |-> p.allocated \ {f},
                             free_frames |-> p.free_frames + 1]
    BY <1>3 DEF freed
  <2> HIDE DEF f
  <2>3. IsFiniteSet(A) /\ f \notin A /\ Frames \ (p.used \ {f}) = A \cup {f}
    BY <1>1, <2>1, FramesFinite
  <2>4. Cardinality(A \cup {f}) = Cardinality(A) + 1
    <3> HIDE DEF A
    <3> QED
      BY <2>3, FS_AddElement
  <2>5. freed(p, address) \in Pmm
    <3>1. p.free_frames + 1 \in Nat
      BY <1>1
    <3> QED
      BY <1>1, <2>2, <3>1 DEF Pmm
  <2>6. freed(p, address).used = p.used \ {f} /\ freed(p, address).free_frames = p.free_frames + 1
    BY <2>2
  <2> HIDE DEF A
  <2> QED
    BY <1>1, <2>3, <2>4, <2>5, <2>6 DEF Counted
<1> QED
  BY <1>2, <1>3

-----------------------------------------------------------------------------
(* The invariant.                                                           *)

(* The frames that are free after the first n entries were released, and    *)
(* after the first n ranges were then reserved.                             *)
Released(f, n) == \E i \in 1 .. n : f \in region(memory_map[i])
Withdrawn(f, n) == \E j \in 1 .. n : InRange(f, BootRanges[j])

Progress ==
    /\ phase = "empty" => next = 1 /\ pmm.free_frames = 0 /\ pmm.allocated = {}
    /\ phase = "release" =>
         /\ next \in 1 .. Len(memory_map) + 1 /\ pmm.allocated = {}
         /\ \A f \in Frames : f \notin pmm.used <=> Released(f, next - 1)
    /\ phase = "reserve" =>
         /\ next \in 1 .. Len(BootRanges) + 1 /\ pmm.allocated = {}
         /\ \A f \in Frames : f \notin pmm.used <=> Usable(f) /\ ~Withdrawn(f, next - 1)

IInv ==
    /\ TypeOK
    /\ CountExact
    /\ Progress
    /\ FreeExactly
    /\ HandedOutUsable

(* A frame is usable iff some entry releases it.                            *)
LEMMA UsableReleased ==
    ASSUME TypeOK, NEW f \in Frames
    PROVE  Usable(f) <=> Released(f, Len(memory_map))
<1>1. memory_map \in Seq(MemoryMapEntry)
  BY FrameAssumption DEF TypeOK
<1>2. \A i \in 1 .. Len(memory_map) : memory_map[i] \in MemoryMapEntry
  BY <1>1
<1>3. \A i \in 1 .. Len(memory_map) :
        f \in region(memory_map[i]) <=>
          /\ memory_map[i].entry_type = 1 /\ end_exists(memory_map[i])
          /\ \A b \in Bytes(f) : /\ memory_map[i].base_addr <= b
                                 /\ b < memory_map[i].base_addr + memory_map[i].length
  BY <1>2, RegionFrames
<1> QED
  BY <1>3 DEF Usable, Released

(* The bitmaps are zero and nothing is counted.                             *)
LEMMA InitIInv == Init => IInv
<1> SUFFICES ASSUME Init PROVE IInv
  OBVIOUS
<1>1. TypeOK
  BY DEF Init, TypeOK
<1> QED
  BY <1>1 DEF Init, IInv, CountExact, Progress, FreeExactly, HandedOutUsable

(* Every frame is reserved before the first entry is looked at.             *)
LEMMA StartIInv ==
    ASSUME IInv, initialize_start
    PROVE  IInv'
<1>1. /\ phase = "empty" /\ phase' = "release" /\ next' = next /\ next = 1
      /\ memory_map' = memory_map /\ kernel' = kernel
      /\ pmm' = [used |-> Frames, allocated |-> {}, free_frames |-> 0]
  BY DEF initialize_start, IInv, Progress
<1>2. pmm'.used = Frames /\ pmm'.allocated = {} /\ pmm'.free_frames = 0
  BY <1>1
<1>3. TypeOK'
  BY <1>1 DEF IInv, TypeOK
<1>4. CountExact'
  <2>1. Frames \ Frames = {}
    OBVIOUS
  <2> QED
    BY <1>2, <2>1, FS_EmptySet DEF CountExact
<1>5. Progress'
  <2>1. memory_map \in Seq(MemoryMapEntry)
    BY FrameAssumption DEF IInv, TypeOK
  <2>2. next' \in 1 .. Len(memory_map)' + 1 /\ ~ \E i \in 1 .. next' - 1 : TRUE
    BY <1>1, <2>1
  <2>3. \A f \in Frames : ~Released(f, next - 1)'
    BY <2>2 DEF Released
  <2> QED
    BY <1>1, <1>2, <2>2, <2>3 DEF Progress
<1>6. FreeExactly' /\ HandedOutUsable'
  BY <1>1, <1>2 DEF FreeExactly, HandedOutUsable
<1> QED
  BY <1>3, <1>4, <1>5, <1>6 DEF IInv

(* Releasing entry after entry; then all usable frames are free.            *)
LEMMA ReleaseIInv ==
    ASSUME IInv, initialize_release
    PROVE  IInv'
<1>1. /\ phase = "release" /\ memory_map' = memory_map /\ kernel' = kernel
      /\ next \in 1 .. Len(memory_map) + 1 /\ pmm.allocated = {}
      /\ \A f \in Frames : f \notin pmm.used <=> Released(f, next - 1)
      /\ Counted(pmm)
  BY DEF initialize_release, IInv, Progress, CountExact, Counted, Pmm, TypeOK
<1>2. memory_map \in Seq(MemoryMapEntry) /\ Len(memory_map) \in Nat
  BY FrameAssumption DEF IInv, TypeOK
<1>3. CASE next <= Len(memory_map)
  <2> DEFINE fs == region(memory_map[next])
  <2>1. /\ phase' = phase /\ next' = next + 1 /\ pmm' = release(pmm, fs)
    BY <1>3 DEF initialize_release
  <2>2. fs \in SUBSET Frames
    BY DEF region, FramesFrom
  <2>3. Counted(pmm')
    BY <1>1, <2>1, <2>2, ReleaseCounts
  <2>4. pmm'.used = pmm.used \ fs /\ pmm'.allocated = {}
    BY <1>1, <2>1 DEF release
  <2>5. TypeOK' /\ CountExact'
    BY <1>1, <1>2, <2>1, <2>3 DEF IInv, TypeOK, CountExact, Counted, Pmm
  <2>6. ASSUME NEW f \in Frames
        PROVE  f \notin pmm'.used <=> Released(f, next - 1)'
    <3>1. Released(f, next - 1)' <=> \E i \in 1 .. next : f \in region(memory_map[i])
      <4>1. next' - 1 = next
        BY <1>1, <2>1
      <4> QED
        BY <1>1, <4>1 DEF Released
    <3>2. (\E i \in 1 .. next : f \in region(memory_map[i])) <=>
            Released(f, next - 1) \/ f \in region(memory_map[next])
      <4>1. 1 .. next = 1 .. next - 1 \cup {next}
        BY <1>1
      <4> QED
        BY <4>1 DEF Released
    <3> QED
      BY <1>1, <2>4, <3>1, <3>2
  <2>7. Progress'
    BY <1>1, <1>2, <1>3, <2>1, <2>4, <2>6 DEF Progress
  <2>8. FreeExactly' /\ HandedOutUsable'
    BY <1>1, <2>1, <2>4 DEF FreeExactly, HandedOutUsable
  <2> QED
    BY <2>5, <2>7, <2>8 DEF IInv
<1>4. CASE ~(next <= Len(memory_map))
  <2>1. phase' = "reserve" /\ next' = 1 /\ pmm' = pmm
    BY <1>4 DEF initialize_release
  <2>2. TypeOK' /\ CountExact'
    BY <1>1, <2>1 DEF IInv, TypeOK, CountExact
  <2>3. next - 1 = Len(memory_map)
    BY <1>1, <1>2, <1>4
  <2>4. \A f \in Frames : f \notin pmm.used <=> Usable(f)
    BY <1>1, <2>3, UsableReleased DEF IInv
  <2>5. \A f \in Frames : (Usable(f) <=> Usable(f)') /\ ~Withdrawn(f, next - 1)'
    BY <1>1, <2>1 DEF Usable, Withdrawn
  <2>6. Progress'
    <3>1. 1 \in 1 .. Len(BootRanges) + 1
      BY FrameAssumption
    <3> QED
      BY <1>1, <2>1, <2>4, <2>5, <3>1 DEF Progress
  <2>7. FreeExactly' /\ HandedOutUsable'
    BY <1>1, <2>1 DEF FreeExactly, HandedOutUsable
  <2> QED
    BY <2>2, <2>6, <2>7 DEF IInv
<1> QED
  BY <1>3, <1>4

(* Reserving a non-empty range takes the frames it touches.                 *)
LEMMA ReserveRange ==
    ASSUME NEW p, Counted(p), NEW range \in Nat \X Nat, range[1] < range[2]
    PROVE  LET q == reserve_range(p, range[1], range[2])
           IN  /\ Counted(q) /\ q.allocated = p.allocated
               /\ \A f \in Frames : f \notin q.used <=> f \notin p.used /\ ~InRange(f, range)
<1> DEFINE fs == FramesFrom(align_down(range[1]), align_up(range[2]))
           q == reserve_range(p, range[1], range[2])
<1>1. fs \in SUBSET Frames /\ q = reserve(p, fs)
  BY DEF FramesFrom, reserve_range
<1>2. \A f \in Frames : f \in fs <=> InRange(f, range)
  BY RangeFrames
<1> HIDE DEF fs, q
<1>3. Counted(q)
  BY <1>1, ReserveCounts
<1>4. q.allocated = p.allocated /\ q.used = p.used \cup fs
  BY <1>1 DEF reserve
<1> QED
  BY <1>2, <1>3, <1>4 DEF q

(* Reserving range after range, the kernel last.                            *)
LEMMA ReserveIInv ==
    ASSUME IInv, initialize_reserve
    PROVE  IInv'
<1>1. /\ phase = "reserve" /\ memory_map' = memory_map /\ kernel' = kernel
      /\ next \in 1 .. Len(BootRanges) + 1 /\ pmm.allocated = {}
      /\ \A f \in Frames : f \notin pmm.used <=> Usable(f) /\ ~Withdrawn(f, next - 1)
      /\ Counted(pmm)
  BY DEF initialize_reserve, IInv, Progress, CountExact, Counted, Pmm, TypeOK
<1>2. BootRanges \in Seq(Nat \X Nat) /\ Len(BootRanges) \in Nat
  BY FrameAssumption
<1>3. \A f \in Frames : Usable(f)' <=> Usable(f)
  BY <1>1 DEF Usable
<1>4. CASE next <= Len(BootRanges)
  <2> DEFINE range == BootRanges[next]
  <2>1. /\ phase' = phase /\ next' = next + 1
        /\ pmm' = reserve_range(pmm, range[1], range[2])
    BY <1>4 DEF initialize_reserve
  <2>2. range \in Nat \X Nat /\ range[1] < range[2]
    BY <1>1, <1>2, <1>4, FrameAssumption
  <2>3. /\ Counted(pmm') /\ pmm'.allocated = {}
        /\ \A f \in Frames : f \notin pmm'.used <=> f \notin pmm.used /\ ~InRange(f, range)
    BY <1>1, <2>1, <2>2, ReserveRange
  <2>4. TypeOK' /\ CountExact'
    BY <1>1, <2>1, <2>3 DEF IInv, TypeOK, CountExact, Counted, Pmm
  <2>5. ASSUME NEW f \in Frames
        PROVE  Withdrawn(f, next - 1)' <=> Withdrawn(f, next - 1) \/ InRange(f, range)
    <3>1. next' - 1 = next /\ 1 .. next = 1 .. next - 1 \cup {next}
      BY <1>1, <2>1
    <3>2. Withdrawn(f, next - 1)' <=> \E j \in 1 .. next : InRange(f, BootRanges[j])
      BY <3>1 DEF Withdrawn, InRange, Bytes
    <3> QED
      BY <3>1, <3>2 DEF Withdrawn
  <2>6. Progress'
    <3>1. next + 1 \in 1 .. Len(BootRanges) + 1
      BY <1>1, <1>2, <1>4
    <3>2. \A f \in Frames :
            f \notin pmm'.used <=> Usable(f)' /\ ~Withdrawn(f, next - 1)'
      BY <1>1, <1>3, <2>3, <2>5
    <3> QED
      BY <1>1, <2>1, <2>3, <3>1, <3>2 DEF Progress
  <2>7. FreeExactly' /\ HandedOutUsable'
    BY <1>1, <2>1, <2>3 DEF FreeExactly, HandedOutUsable
  <2> QED
    BY <2>4, <2>6, <2>7 DEF IInv
<1>5. CASE ~(next <= Len(BootRanges))
  <2>1. /\ phase' = "ready" /\ next' = next
        /\ pmm' = reserve_range(pmm, kernel[1], kernel[2])
    BY <1>5 DEF initialize_reserve
  <2>2. kernel \in Nat \X Nat /\ kernel[1] < kernel[2]
    BY FrameAssumption DEF IInv, TypeOK
  <2>3. /\ Counted(pmm') /\ pmm'.allocated = {}
        /\ \A f \in Frames : f \notin pmm'.used <=> f \notin pmm.used /\ ~InRange(f, kernel)
    BY <1>1, <2>1, <2>2, ReserveRange
  <2>4. TypeOK' /\ CountExact'
    BY <1>1, <2>1, <2>3 DEF IInv, TypeOK, CountExact, Counted, Pmm
  <2>5. next - 1 = Len(BootRanges)
    BY <1>1, <1>2, <1>5
  <2>6. \A f \in Frames : Reserved(f)' <=> InRange(f, kernel) \/ Withdrawn(f, next - 1)
    BY <1>1, <2>5 DEF Reserved, Withdrawn, InRange, Bytes
  <2>7. FreeExactly'
    BY <1>1, <1>3, <2>3, <2>6 DEF FreeExactly
  <2>8. Progress' /\ HandedOutUsable'
    BY <2>1, <2>3 DEF Progress, HandedOutUsable
  <2> QED
    BY <2>4, <2>7, <2>8 DEF IInv
<1> QED
  BY <1>4, <1>5

(* A ready allocator that only moves one frame between free and handed out. *)
LEMMA ReadyIInv ==
    ASSUME IInv, phase = "ready", UNCHANGED <<memory_map, kernel, phase, next>>,
           Counted(pmm'),
           \/ pmm' = pmm
           \/ \E f \in Frames \ pmm.used : /\ pmm'.used = pmm.used \cup {f}
                                           /\ pmm'.allocated = pmm.allocated \cup {f}
           \/ \E f \in pmm.allocated : /\ pmm'.used = pmm.used \ {f}
                                       /\ pmm'.allocated = pmm.allocated \ {f}
    PROVE  IInv'
<1>1. TypeOK' /\ CountExact' /\ Progress'
  BY DEF IInv, TypeOK, CountExact, Progress, Counted, Pmm
<1>2. \A f \in Frames : (Usable(f)' <=> Usable(f)) /\ (Reserved(f)' <=> Reserved(f))
  BY DEF Usable, Reserved, InRange, Bytes
<1>3. pmm.used \subseteq Frames /\ pmm.allocated \subseteq Frames
  BY DEF IInv, TypeOK
<1>4. FreeExactly'
  BY <1>2, <1>3 DEF IInv, FreeExactly, HandedOutUsable
<1>5. HandedOutUsable'
  BY <1>2, <1>3 DEF IInv, FreeExactly, HandedOutUsable
<1> QED
  BY <1>1, <1>4, <1>5 DEF IInv

(* How allocate_frame moves a frame.                                        *)
LEMMA AllocateMoves ==
    ASSUME IInv, allocate_frame
    PROVE  /\ phase = "ready" /\ Counted(pmm')
           /\ \E f \in Frames \ pmm.used : /\ pmm'.used = pmm.used \cup {f}
                                           /\ pmm'.allocated = pmm.allocated \cup {f}
<1>1. phase = "ready" /\ HasFree(pmm) /\ pmm' = mark_allocated(pmm, first_free(pmm))
  BY DEF allocate_frame
<1>2. Counted(pmm)
  BY <1>1 DEF IInv, TypeOK, CountExact, Counted, Pmm
<1>3. first_free(pmm) \in Frames \ pmm.used
  BY <1>1, FirstFree
<1>4. Counted(pmm')
  BY <1>1, <1>2, <1>3, AllocateCounts
<1> QED
  BY <1>1, <1>3, <1>4 DEF mark_allocated

(* How free_frame moves a frame, if it does.                                *)
LEMMA FreeMoves ==
    ASSUME IInv, NEW address \in Nat, free_frame(address)
    PROVE  /\ phase = "ready" /\ Counted(pmm')
           /\ \/ pmm' = pmm
              \/ \E f \in pmm.allocated : /\ pmm'.used = pmm.used \ {f}
                                          /\ pmm'.allocated = pmm.allocated \ {f}
<1>1. phase = "ready" /\ pmm' = freed(pmm, address)
  BY DEF free_frame
<1>2. Counted(pmm) /\ pmm.allocated \subseteq pmm.used
  BY <1>1 DEF IInv, TypeOK, CountExact, Counted, Pmm, HandedOutUsable
<1>3. Counted(pmm')
  BY <1>1, <1>2, FreeCounts
<1> QED
  BY <1>1, <1>3 DEF freed, frees

(* The addresses that Next may free are natural numbers.                    *)
LEMMA NextActions ==
    ASSUME Next
    PROVE  initialize \/ allocate_frame \/ \E address \in Nat : free_frame(address)
<1>1. (MAX_FRAMES + 1) * FRAME_SIZE \in Nat
  BY FrameAssumption
<1>2. 0 .. (MAX_FRAMES + 1) * FRAME_SIZE \subseteq Nat
  BY <1>1
<1> QED
  BY <1>2 DEF Next

(* Every step keeps the invariant.                                          *)
LEMMA NextIInv == IInv /\ [Next]_fa_vars => IInv'
<1> SUFFICES ASSUME IInv, [Next]_fa_vars PROVE IInv'
  OBVIOUS
<1>1. CASE initialize
  BY <1>1, StartIInv, ReleaseIInv, ReserveIInv DEF initialize
<1>2. CASE allocate_frame
  BY <1>2, AllocateMoves, ReadyIInv DEF allocate_frame
<1>3. ASSUME NEW address \in Nat, free_frame(address) PROVE IInv'
  BY <1>3, FreeMoves, ReadyIInv DEF free_frame
<1>4. CASE UNCHANGED fa_vars
  BY <1>4 DEF fa_vars, IInv, TypeOK, CountExact, Progress, FreeExactly, HandedOutUsable,
     Usable, Reserved, InRange, Bytes, Released, Withdrawn
<1> QED
  BY <1>1, <1>2, <1>3, <1>4, NextActions

(* The invariant holds from boot on.                                        *)
THEOREM Invariance == Spec => []IInv
  BY InitIInv, NextIInv, PTL DEF Spec

(* free_frames never goes below zero and the bitmaps stay within bounds.    *)
THEOREM TypeCorrect == Spec => []TypeOK
<1>1. IInv => TypeOK
  BY DEF IInv
<1> QED
  BY <1>1, Invariance, PTL

(* free_frames is the number of clear bits, in the middle of initialize too. *)
THEOREM CountIsExact == Spec => []CountExact
<1>1. IInv => CountExact
  BY DEF IInv
<1> QED
  BY <1>1, Invariance, PTL

(* After initialize exactly the wholly usable frames that neither the boot  *)
(* nor the kernel touches and that are not handed out are free.             *)
THEOREM FreeFramesAreRight == Spec => []FreeExactly
<1>1. IInv => FreeExactly
  BY DEF IInv
<1> QED
  BY <1>1, Invariance, PTL

(* Nothing that allocate_frame hands out is the kernel's or the boot's.     *)
THEOREM HandsOutUsable == Spec => []HandedOutUsable
<1>1. IInv => HandedOutUsable
  BY DEF IInv
<1> QED
  BY <1>1, Invariance, PTL

(* allocate_frame and free_frame move one frame or none.                    *)
THEOREM MovesOneFrame == Spec => OneFrameMoves
<1> DEFINE A == phase = "ready" =>
                  \/ UNCHANGED pmm
                  \/ \E f \in Frames \ pmm.used :
                       pmm'.allocated = pmm.allocated \cup {f} /\ pmm'.used = pmm.used \cup {f}
                  \/ \E f \in pmm.allocated :
                       pmm'.allocated = pmm.allocated \ {f} /\ pmm'.used = pmm.used \ {f}
<1>1. IInv /\ [Next]_fa_vars => [A]_fa_vars
  <2> SUFFICES ASSUME IInv, Next PROVE A
    OBVIOUS
  <2>1. CASE initialize
    BY <2>1 DEF initialize, initialize_start, initialize_release, initialize_reserve
  <2>2. CASE allocate_frame
    BY <2>2, AllocateMoves
  <2>3. ASSUME NEW address \in Nat, free_frame(address) PROVE A
    BY <2>3, FreeMoves
  <2> QED
    BY <2>1, <2>2, <2>3, NextActions
<1> QED
  BY <1>1, Invariance, PTL DEF Spec, OneFrameMoves
=============================================================================
