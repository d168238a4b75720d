--------------------------- MODULE BootLoaderProofs ---------------------------
(***************************************************************************)
(* Proofs about the boot chain for every layout that LayoutAssumption      *)
(* allows, every kernel file and every answer of the firmware.  The        *)
(* inductive invariant follows the three things that share low memory: the *)
(* kernel file from the disk to its segments, the memory map, and the      *)
(* range that BootInfo will give.                                          *)
(***************************************************************************)
EXTENDS BootLoader, TLAPS

Content == {"other", "zero", "file", "e820", "stack", "boot_info"} \X Nat

(* The file ends below the memory map in the buffer it is read into.        *)
FitsBelowMap(k) == KERNEL_BUFFER + k.size <= E820_BUFFER

(* Loadable segments do not overlap in memory.                              *)
SegmentsApart(k) ==
    \A i, j \in 1 .. Len(k.segments) :
      LET s == k.segments[i] t == k.segments[j] IN
        i # j /\ s.p_type = 1 /\ t.p_type = 1 =>
          s.p_paddr + s.p_memsz <= t.p_paddr \/ t.p_paddr + t.p_memsz <= s.p_paddr

AfterBuild == pc \in {"stage1", "load", "e820", "long_mode", "elf", "segments", "start", "kernel"}
AfterMap == pc \in {"long_mode", "elf", "segments", "start", "kernel"}
AfterSegments == pc \in {"start", "kernel"}

Types ==
    /\ pc \in {"build", "refused", "halt"} \/ AfterBuild
    /\ kernel \in Kernels
    /\ ram \in [Granule -> Content]
    /\ remaining \in Nat /\ destination \in Nat /\ lba \in Nat
    /\ count \in Nat /\ segment \in Nat \ {0} /\ low \in Nat /\ high \in Nat

(* The image, and how far load_kernel is with it.                           *)
DiskHasKernel ==
    AfterBuild =>
      /\ kernel.size > 0 /\ kernel.size <= KERNEL_MAX
      /\ disk = [g \in 0 .. KERNEL_MAX - 1 |-> IF g < kernel.size THEN File(g) ELSE Zero]

LoadKeepsPace ==
    pc = "load" => destination = KERNEL_BUFFER + lba /\ remaining + lba = KERNEL_MAX

(* The first n granules of the file are in the buffer.                      *)
Buffered(n) == \A g \in Nat : g < n /\ g < kernel.size => ram[KERNEL_BUFFER + g] = File(g)

BufferHasKernel ==
    /\ pc = "load" => Buffered(lba)
    /\ pc \in {"e820", "long_mode", "elf", "segments"} /\ FitsBelowMap(kernel) =>
         Buffered(kernel.size)

(* Segment i is in memory.                                                  *)
InPlace(i) ==
    LET s == kernel.segments[i] IN
      \A k \in 0 .. s.p_memsz - 1 :
        ram[s.p_paddr + k] = IF k < s.p_filesz THEN File(s.p_offset + k) ELSE Zero

SegmentsInPlace ==
    FitsBelowMap(kernel) /\ SegmentsApart(kernel) =>
      /\ pc = "segments" =>
           \A i \in 1 .. Len(kernel.segments) : i < segment /\ Loaded(i) => InPlace(i)
      /\ AfterSegments => \A i \in 1 .. Len(kernel.segments) : Loaded(i) => InPlace(i)

(* What detect_memory_map has stored is counted and stays.                  *)
MapStored ==
    /\ pc \in {"build", "stage1", "load"} => count = 0 /\ reported = 0
    /\ pc = "e820" \/ AfterMap =>
         /\ reported = count /\ count <= E820_MAX
         /\ count > 0 => ram[E820_BUFFER] = E820
    /\ AfterMap => count > 0
    /\ AfterSegments => info.memory_map_count = count

(* lo and hi are the bounds of the first n loadable segments.               *)
Bounds(lo, hi, n) ==
    LET load == {i \in 1 .. Len(kernel.segments) : i < n /\ Loaded(i)}
        ends(i) == kernel.segments[i].p_paddr + kernel.segments[i].p_memsz
    IN  /\ \A i \in load : lo <= kernel.segments[i].p_paddr /\ ends(i) <= hi
        /\ load # {} => /\ \E i \in load : lo = kernel.segments[i].p_paddr
                        /\ \E i \in load : hi = ends(i)
        /\ load = {} => lo = Top /\ hi = 0

RangeCovers ==
    /\ pc \in {"build", "stage1", "load", "e820", "long_mode", "elf"} =>
         segment = 1 /\ low = Top /\ high = 0
    /\ pc = "segments" => Bounds(low, high, segment)
    /\ AfterSegments =>
         Bounds(info.kernel_phys_start, info.kernel_phys_end, Len(kernel.segments) + 1)
    /\ pc = "kernel" => info.kernel_phys_end > info.kernel_phys_start

BootInv ==
    /\ Types /\ DiskHasKernel /\ LoadKeepsPace /\ BufferHasKernel /\ SegmentsInPlace
    /\ MapStored /\ RangeCovers

-----------------------------------------------------------------------------
(* The constants.                                                           *)

(* The places of low memory are numbers, in order, and below every segment. *)
LEMMA Layout ==
    /\ KERNEL_MAX \in Nat \ {0} /\ E820_MAX \in Nat \ {0} /\ KERNEL_BUFFER \in Nat
    /\ E820_BUFFER \in Nat /\ BOOT_INFO \in Nat /\ STACK \in Nat
    /\ {KERNEL_BUFFER, E820_BUFFER, BOOT_INFO, STACK} \subseteq Granule
    /\ KERNEL_BUFFER <= E820_BUFFER /\ E820_BUFFER < BOOT_INFO /\ BOOT_INFO < STACK
    /\ STACK < KERNEL_BUFFER + KERNEL_MAX
    /\ KERNEL_BUFFER + KERNEL_MAX < RAM_END /\ RAM_END \in Nat
<1>1. KERNEL_BUFFER + KERNEL_MAX \in 0 .. RAM_END - 1
  BY BootAssumption DEF Granule
<1>2. KERNEL_MAX \in Nat \ {0} /\ E820_MAX \in Nat \ {0}
  BY BootAssumption
<1>3. {KERNEL_BUFFER, E820_BUFFER, BOOT_INFO, STACK} \subseteq Granule
  BY BootAssumption
<1>4. KERNEL_BUFFER \in Nat /\ E820_BUFFER \in Nat /\ BOOT_INFO \in Nat /\ STACK \in Nat
  BY <1>3 DEF Granule
<1>5. RAM_END \in Nat /\ KERNEL_BUFFER + KERNEL_MAX < RAM_END
  BY <1>1, <1>2, <1>4, BootAssumption
<1> QED
  BY <1>2, <1>3, <1>4, <1>5, LayoutAssumption

(* What BootAssumption says of a segment.                                   *)
LEMMA SegmentFacts ==
    ASSUME NEW k \in Kernels, NEW i \in 1 .. Len(k.segments)
    PROVE  LET s == k.segments[i] IN
             /\ s.p_type \in Nat /\ s.p_offset \in Nat /\ s.p_paddr \in Nat
             /\ s.p_filesz \in Nat /\ s.p_memsz \in Nat
             /\ s.p_offset + s.p_filesz <= k.size /\ s.p_filesz <= s.p_memsz
             /\ s.p_paddr >= KERNEL_BUFFER + KERNEL_MAX /\ s.p_paddr + s.p_memsz <= RAM_END
<1>1. k.segments \in Seq(Segment)
  BY BootAssumption
<1>2. k.segments[i] \in Segment
  BY <1>1
<1>3. LET s == k.segments[i] IN
        /\ s.p_offset + s.p_filesz <= k.size /\ s.p_filesz <= s.p_memsz
        /\ s.p_paddr >= KERNEL_BUFFER + KERNEL_MAX /\ s.p_paddr + s.p_memsz <= RAM_END
  BY BootAssumption
<1> QED
  BY <1>2, <1>3 DEF Segment

(* What BootAssumption says of a kernel.                                    *)
LEMMA KernelFacts ==
    ASSUME NEW k \in Kernels
    PROVE  k.size \in Nat /\ Len(k.segments) \in Nat
<1>1. k.segments \in Seq(Segment) /\ k.size \in Nat
  BY BootAssumption
<1> QED
  BY <1>1

(* Places of a file in the buffer, and of a segment, are granules.          *)
LEMMA BufferGranule ==
    ASSUME NEW o \in Nat, NEW f \in Nat, NEW p \in Nat, NEW g \in p .. p + f - 1,
           NEW size \in Nat, o + f <= size, size <= KERNEL_MAX
    PROVE  KERNEL_BUFFER + o + (g - p) \in Granule
<1>1. KERNEL_BUFFER \in Nat /\ RAM_END \in Nat /\ KERNEL_BUFFER + KERNEL_MAX < RAM_END
  BY Layout
<1>2. KERNEL_MAX \in Nat /\ g \in Nat
  BY Layout
<1> QED
  BY <1>1, <1>2 DEF Granule

(* The granules of a loaded segment are memory.                             *)
LEMMA SegmentGranule ==
    ASSUME NEW p \in Nat, NEW m \in Nat, p + m <= RAM_END, NEW n \in 0 .. m - 1
    PROVE  p + n \in Granule
<1>1. RAM_END \in Nat
  BY Layout
<1> QED
  BY <1>1 DEF Granule

(* Every content the model writes is one.                                   *)
LEMMA Contents ==
    /\ Other \in Content /\ Zero \in Content /\ E820 \in Content
    /\ <<"stack", 0>> \in Content /\ <<"boot_info", 0>> \in Content
    /\ \A g \in Nat : File(g) \in Content
BY DEF Other, Zero, E820, File, Content

-----------------------------------------------------------------------------
(* The steps.                                                               *)

(* The invariant holds before the image is built.                           *)
LEMMA BootInit == Init => BootInv
<1> SUFFICES ASSUME Init PROVE BootInv
  OBVIOUS
<1>1. ram \in [Granule -> Content]
  BY Contents DEF Init
<1>2. Top \in Nat
  BY Layout DEF Top
<1>3. Types
  BY <1>1, <1>2 DEF Init, Types
<1>4. DiskHasKernel /\ LoadKeepsPace /\ BufferHasKernel /\ SegmentsInPlace /\ MapStored /\ RangeCovers
  BY DEF Init, DiskHasKernel, LoadKeepsPace, BufferHasKernel, SegmentsInPlace, MapStored,
       RangeCovers, AfterBuild, AfterMap, AfterSegments
<1> QED
  BY <1>3, <1>4 DEF BootInv

(* The image builder refuses a file that does not fit.                      *)
LEMMA BuildKeeps == BootInv /\ build => BootInv'
<1> SUFFICES ASSUME BootInv, build PROVE BootInv'
  OBVIOUS
<1>1. /\ pc = "build" /\ kernel' = kernel /\ ram' = ram /\ count' = count /\ reported' = reported
      /\ remaining' = remaining /\ destination' = destination /\ lba' = lba
      /\ segment' = segment /\ low' = low /\ high' = high /\ info' = info
      /\ \/ pc' = "refused"
         \/ /\ pc' = "stage1" /\ kernel.size > 0 /\ kernel.size <= KERNEL_MAX
            /\ disk' = [g \in 0 .. KERNEL_MAX - 1 |-> IF g < kernel.size THEN File(g) ELSE Zero]
  BY DEF build, load_vars, elf_vars
<1>2. segment = 1 /\ low = Top /\ high = 0 /\ count = 0 /\ reported = 0
  BY <1>1 DEF BootInv, RangeCovers, MapStored
<1>3. Types'
  BY <1>1 DEF BootInv, Types, AfterBuild
<1>4. DiskHasKernel'
  BY <1>1 DEF DiskHasKernel, AfterBuild
<1>5. LoadKeepsPace' /\ BufferHasKernel' /\ SegmentsInPlace'
  BY <1>1 DEF LoadKeepsPace, BufferHasKernel, SegmentsInPlace, AfterSegments
<1>6. MapStored' /\ RangeCovers'
  BY <1>1, <1>2 DEF MapStored, RangeCovers, AfterMap, AfterSegments
<1> QED
  BY <1>3, <1>4, <1>5, <1>6 DEF BootInv

(* load_kernel begins at the first granule.                                 *)
LEMMA Stage1Keeps == BootInv /\ stage1 => BootInv'
<1> SUFFICES ASSUME BootInv, stage1 PROVE BootInv'
  OBVIOUS
<1>1. /\ pc = "stage1" /\ kernel' = kernel /\ disk' = disk /\ ram' = ram
      /\ count' = count /\ reported' = reported
      /\ segment' = segment /\ low' = low /\ high' = high /\ info' = info
      /\ \/ /\ pc' = "halt" /\ remaining' = remaining /\ destination' = destination /\ lba' = lba
         \/ /\ pc' = "load" /\ remaining' = KERNEL_MAX /\ destination' = KERNEL_BUFFER /\ lba' = 0
  BY DEF stage1, load_vars, elf_vars, halt
<1>2. Types'
  BY <1>1, Layout DEF BootInv, Types, AfterBuild
<1>3. DiskHasKernel'
  BY <1>1 DEF BootInv, DiskHasKernel, AfterBuild
<1>4. LoadKeepsPace'
  BY <1>1, Layout DEF LoadKeepsPace
<1>5. BufferHasKernel'
  BY <1>1 DEF BufferHasKernel, Buffered
<1>6. SegmentsInPlace'
  BY <1>1 DEF SegmentsInPlace, AfterSegments
<1>7. MapStored' /\ RangeCovers'
  BY <1>1 DEF BootInv, MapStored, RangeCovers, AfterMap, AfterSegments
<1> QED
  BY <1>2, <1>3, <1>4, <1>5, <1>6, <1>7 DEF BootInv

(* A read puts the next granule of the disk at its place in the buffer.     *)
LEMMA LoadKernelKeeps == BootInv /\ load_kernel => BootInv'
<1> SUFFICES ASSUME BootInv, load_kernel PROVE BootInv'
  OBVIOUS
<1>1. /\ pc = "load" /\ remaining > 0 /\ kernel' = kernel /\ disk' = disk
      /\ count' = count /\ reported' = reported
      /\ segment' = segment /\ low' = low /\ high' = high /\ info' = info
      /\ \/ /\ pc' = "load" /\ ram' = [ram EXCEPT ![destination] = disk[lba]]
            /\ remaining' = remaining - 1 /\ lba' = lba + 1 /\ destination' = destination + 1
         \/ /\ pc' = "halt" /\ ram' = ram
            /\ remaining' = remaining /\ destination' = destination /\ lba' = lba
  BY DEF load_kernel, load_vars, elf_vars, halt
<1>2. /\ kernel \in Kernels /\ ram \in [Granule -> Content]
      /\ remaining \in Nat /\ destination \in Nat /\ lba \in Nat
      /\ destination = KERNEL_BUFFER + lba /\ remaining + lba = KERNEL_MAX
  BY <1>1 DEF BootInv, Types, LoadKeepsPace
<1>3. lba \in 0 .. KERNEL_MAX - 1 /\ destination \in Granule
  BY <1>1, <1>2, Layout DEF Granule
<1>4. /\ disk[lba] = IF lba < kernel.size THEN File(lba) ELSE Zero
      /\ disk[lba] \in Content
  BY <1>1, <1>2, <1>3, Contents DEF BootInv, DiskHasKernel, AfterBuild
<1>5. ram' \in [Granule -> Content]
  BY <1>1, <1>2, <1>3, <1>4
<1>6. Types'
  BY <1>1, <1>2, <1>5 DEF BootInv, Types, AfterBuild
<1>7. DiskHasKernel'
  BY <1>1 DEF BootInv, DiskHasKernel, AfterBuild
<1>8. LoadKeepsPace'
  BY <1>1, <1>2, Layout DEF LoadKeepsPace
<1>9. BufferHasKernel'
  <2> SUFFICES ASSUME pc' = "load", NEW g \in Nat, g < lba', g < kernel'.size
               PROVE  ram'[KERNEL_BUFFER + g] = File(g)
    BY <1>1 DEF BufferHasKernel, Buffered
  <2>1. /\ ram' = [ram EXCEPT ![destination] = disk[lba]] /\ lba' = lba + 1
    BY <1>1
  <2>2. KERNEL_BUFFER + g \in Granule
    BY <1>2, <1>3, <2>1, Layout DEF Granule
  <2>3. CASE g = lba
    BY <1>1, <1>2, <1>3, <1>4, <2>1, <2>3
  <2>4. CASE g # lba
    <3>1. g < lba /\ KERNEL_BUFFER + g # destination
      BY <1>2, <2>1, <2>4, Layout
    <3>2. ram[KERNEL_BUFFER + g] = File(g)
      BY <1>1, <3>1 DEF BootInv, BufferHasKernel, Buffered
    <3> QED
      BY <1>2, <2>1, <2>2, <3>1, <3>2
  <2> QED
    BY <2>3, <2>4
<1>10. SegmentsInPlace' /\ MapStored' /\ RangeCovers'
  BY <1>1 DEF BootInv, SegmentsInPlace, MapStored, RangeCovers, AfterMap, AfterSegments
<1> QED
  BY <1>6, <1>7, <1>8, <1>9, <1>10 DEF BootInv

(* When nothing remains to be read, all of the file is in the buffer.       *)
LEMMA LoadDoneKeeps == BootInv /\ load_done => BootInv'
<1> SUFFICES ASSUME BootInv, load_done PROVE BootInv'
  OBVIOUS
<1>1. /\ pc = "load" /\ remaining = 0 /\ pc' = "e820" /\ kernel' = kernel /\ disk' = disk
      /\ ram' = ram /\ remaining' = remaining /\ destination' = destination /\ lba' = lba
      /\ count' = count /\ reported' = reported
      /\ segment' = segment /\ low' = low /\ high' = high /\ info' = info
  BY DEF load_done, load_vars, elf_vars
<1>2. lba = KERNEL_MAX /\ kernel.size <= KERNEL_MAX /\ kernel.size \in Nat
  BY <1>1, KernelFacts, Layout DEF BootInv, Types, LoadKeepsPace, DiskHasKernel, AfterBuild
<1>3. Types' /\ DiskHasKernel' /\ LoadKeepsPace'
  BY <1>1 DEF BootInv, Types, DiskHasKernel, LoadKeepsPace, AfterBuild
<1>4. BufferHasKernel'
  BY <1>1, <1>2, Layout DEF BootInv, BufferHasKernel, Buffered
<1>5. SegmentsInPlace'
  BY <1>1 DEF SegmentsInPlace, AfterSegments
<1>6. MapStored' /\ RangeCovers'
  BY <1>1, Layout DEF BootInv, MapStored, RangeCovers, AfterMap, AfterSegments
<1> QED
  BY <1>3, <1>4, <1>5, <1>6 DEF BootInv

(* An entry of the map is stored where no granule of a file that fits is.   *)
LEMMA DetectMemoryMapKeeps == BootInv /\ detect_memory_map => BootInv'
<1> SUFFICES ASSUME BootInv, detect_memory_map PROVE BootInv'
  OBVIOUS
<1>1. /\ pc = "e820" /\ kernel' = kernel /\ disk' = disk
      /\ remaining' = remaining /\ destination' = destination /\ lba' = lba
      /\ segment' = segment /\ low' = low /\ high' = high /\ info' = info
      /\ \/ /\ count >= E820_MAX /\ pc' = "long_mode" /\ ram' = ram
            /\ count' = count /\ reported' = reported
         \/ /\ count < E820_MAX /\ ram' = [ram EXCEPT ![E820_BUFFER] = E820]
            /\ \/ pc' = "halt" /\ count' = 0
               \/ /\ count' = count + 1 /\ reported' = reported + 1
                  /\ pc' = "e820" \/ pc' = "long_mode"
  BY Layout DEF detect_memory_map, load_vars, elf_vars, halt, BootInv, Types
<1>2. /\ kernel \in Kernels /\ ram \in [Granule -> Content] /\ count \in Nat
      /\ reported = count /\ count <= E820_MAX /\ (count > 0 => ram[E820_BUFFER] = E820)
  BY <1>1 DEF BootInv, Types, MapStored
<1>3. ram' \in [Granule -> Content]
  BY <1>1, <1>2, Contents
<1>4. Types'
  BY <1>1, <1>2, <1>3 DEF BootInv, Types, AfterBuild
<1>5. DiskHasKernel' /\ LoadKeepsPace'
  BY <1>1 DEF BootInv, DiskHasKernel, LoadKeepsPace, AfterBuild
<1>6. BufferHasKernel'
  <2> SUFFICES ASSUME FitsBelowMap(kernel), NEW g \in Nat, g < kernel.size
               PROVE  ram'[KERNEL_BUFFER + g] = File(g)
    BY <1>1 DEF BufferHasKernel, Buffered, FitsBelowMap
  <2>1. ram[KERNEL_BUFFER + g] = File(g)
    BY <1>1 DEF BootInv, BufferHasKernel, Buffered
  <2>2. KERNEL_BUFFER + g \in Granule /\ KERNEL_BUFFER + g # E820_BUFFER
    BY <1>2, Layout, KernelFacts DEF FitsBelowMap, Granule
  <2> QED
    BY <1>1, <1>2, <2>1, <2>2
<1>7. SegmentsInPlace'
  BY <1>1 DEF SegmentsInPlace, AfterSegments
<1>8. MapStored'
  BY <1>1, <1>2, Layout DEF MapStored, AfterMap, AfterSegments
<1>9. RangeCovers'
  BY <1>1 DEF BootInv, RangeCovers, AfterSegments
<1> QED
  BY <1>4, <1>5, <1>6, <1>7, <1>8, <1>9 DEF BootInv

(* The stack is above a file that fits, and not where the map is.           *)
LEMMA LongModeEntryKeeps == BootInv /\ long_mode_entry => BootInv'
<1> SUFFICES ASSUME BootInv, long_mode_entry PROVE BootInv'
  OBVIOUS
<1>1. /\ pc = "long_mode" /\ pc' = "elf" /\ kernel' = kernel /\ disk' = disk
      /\ ram' = [ram EXCEPT ![STACK] = <<"stack", 0>>]
      /\ remaining' = remaining /\ destination' = destination /\ lba' = lba
      /\ count' = count /\ reported' = reported
      /\ segment' = segment /\ low' = low /\ high' = high /\ info' = info
  BY DEF long_mode_entry, load_vars, elf_vars
<1>2. kernel \in Kernels /\ ram \in [Granule -> Content]
  BY DEF BootInv, Types
<1>3. ram' \in [Granule -> Content]
  BY <1>1, <1>2, Contents
<1>4. Types' /\ DiskHasKernel' /\ LoadKeepsPace'
  BY <1>1, <1>3 DEF BootInv, Types, DiskHasKernel, LoadKeepsPace, AfterBuild
<1>5. BufferHasKernel'
  <2> SUFFICES ASSUME FitsBelowMap(kernel), NEW g \in Nat, g < kernel.size
               PROVE  ram'[KERNEL_BUFFER + g] = File(g)
    BY <1>1 DEF BufferHasKernel, Buffered, FitsBelowMap
  <2>1. ram[KERNEL_BUFFER + g] = File(g)
    BY <1>1 DEF BootInv, BufferHasKernel, Buffered
  <2>2. KERNEL_BUFFER + g \in Granule /\ KERNEL_BUFFER + g # STACK
    BY <1>2, Layout, KernelFacts DEF FitsBelowMap, Granule
  <2> QED
    BY <1>1, <1>2, <2>1, <2>2
<1>6. ram'[E820_BUFFER] = ram[E820_BUFFER]
  BY <1>1, <1>2, Layout
<1>7. SegmentsInPlace'
  BY <1>1 DEF SegmentsInPlace, AfterSegments
<1>8. MapStored' /\ RangeCovers'
  BY <1>1, <1>6 DEF BootInv, MapStored, RangeCovers, AfterMap, AfterSegments
<1> QED
  BY <1>4, <1>5, <1>7, <1>8 DEF BootInv

(* The check of the header changes nothing.                                 *)
LEMMA ElfCheckKeeps == BootInv /\ elf_check => BootInv'
<1> SUFFICES ASSUME BootInv, elf_check PROVE BootInv'
  OBVIOUS
<1>1. /\ pc = "elf"
      /\ pc' = "segments" \/ pc' = "halt"
      /\ kernel' = kernel /\ disk' = disk /\ ram' = ram
      /\ remaining' = remaining /\ destination' = destination /\ lba' = lba
      /\ count' = count /\ reported' = reported
      /\ segment' = segment /\ low' = low /\ high' = high /\ info' = info
  BY DEF elf_check, load_vars, elf_vars, halt
<1>2. kernel \in Kernels /\ segment = 1 /\ low = Top /\ high = 0
  BY <1>1 DEF BootInv, Types, RangeCovers
<1>3. Types' /\ DiskHasKernel' /\ LoadKeepsPace'
  BY <1>1 DEF BootInv, Types, DiskHasKernel, LoadKeepsPace, AfterBuild
<1>4. BufferHasKernel'
  BY <1>1 DEF BootInv, BufferHasKernel, Buffered
<1>5. ~ \E i \in 1 .. Len(kernel.segments) : i < 1
  BY <1>2, KernelFacts
<1>6. SegmentsInPlace'
  BY <1>1, <1>2, <1>5 DEF SegmentsInPlace, AfterSegments
<1>7. MapStored'
  BY <1>1 DEF BootInv, MapStored, AfterMap, AfterSegments
<1>8. Bounds(low, high, 1)
  BY <1>2, <1>5 DEF Bounds
<1>9. Bounds(low, high, segment)'
  BY <1>1, <1>2, <1>8 DEF Bounds, Loaded
<1>10. RangeCovers'
  BY <1>1, <1>9 DEF RangeCovers, AfterSegments
<1> QED
  BY <1>3, <1>4, <1>6, <1>7, <1>10 DEF BootInv

(* Memory after a segment is copied: the segment is in place, and what is   *)
(* not its own is as before.                                                *)
LEMMA CopiedSegment ==
    ASSUME NEW k \in Kernels, NEW i \in 1 .. Len(k.segments), k.size <= KERNEL_MAX,
           ram \in [Granule -> Content]
    PROVE  LET s == k.segments[i] IN
             /\ copied(s) \in [Granule -> Content]
             /\ \A n \in 0 .. s.p_memsz - 1 :
                  copied(s)[s.p_paddr + n] = IF n < s.p_filesz
                                             THEN ram[KERNEL_BUFFER + s.p_offset + n] ELSE Zero
             /\ \A g \in Granule : g < s.p_paddr \/ s.p_paddr + s.p_memsz <= g =>
                  copied(s)[g] = ram[g]
<1> DEFINE s == k.segments[i]
<1>1. /\ s.p_offset \in Nat /\ s.p_paddr \in Nat /\ s.p_filesz \in Nat /\ s.p_memsz \in Nat
      /\ s.p_filesz <= s.p_memsz /\ s.p_paddr + s.p_memsz <= RAM_END
      /\ s.p_offset + s.p_filesz <= k.size
  BY SegmentFacts
<1> HIDE DEF s
<1>2. /\ \A g \in Granule : copied(s)[g] =
           IF g \in s.p_paddr .. s.p_paddr + s.p_filesz - 1
           THEN ram[KERNEL_BUFFER + s.p_offset + (g - s.p_paddr)]
           ELSE IF g \in s.p_paddr + s.p_filesz .. s.p_paddr + s.p_memsz - 1
           THEN Zero ELSE ram[g]
  BY DEF copied
<1>3. \A g \in Granule : copied(s)[g] \in Content
  <2> SUFFICES ASSUME NEW g \in Granule PROVE copied(s)[g] \in Content
    OBVIOUS
  <2>1. CASE g \in s.p_paddr .. s.p_paddr + s.p_filesz - 1
    <3>1. KERNEL_BUFFER + s.p_offset + (g - s.p_paddr) \in Granule
      BY <1>1, <2>1, KernelFacts, BufferGranule
    <3> QED
      BY <1>2, <2>1, <3>1
  <2>2. CASE g \notin s.p_paddr .. s.p_paddr + s.p_filesz - 1
    BY <1>2, <2>2, Contents
  <2> QED
    BY <2>1, <2>2
<1>4. copied(s) \in [Granule -> Content]
  BY <1>3 DEF copied
<1>5. ASSUME NEW n \in 0 .. s.p_memsz - 1
      PROVE  copied(s)[s.p_paddr + n] = IF n < s.p_filesz
                                        THEN ram[KERNEL_BUFFER + s.p_offset + n] ELSE Zero
  <2>1. s.p_paddr + n \in Granule
    BY <1>1, SegmentGranule
  <2>2. CASE n < s.p_filesz
    <3>1. /\ s.p_paddr + n \in s.p_paddr .. s.p_paddr + s.p_filesz - 1
          /\ (s.p_paddr + n) - s.p_paddr = n
      BY <1>1, <2>2
    <3> QED
      BY <1>2, <2>1, <2>2, <3>1
  <2>3. CASE ~(n < s.p_filesz)
    <3>1. /\ s.p_paddr + n \notin s.p_paddr .. s.p_paddr + s.p_filesz - 1
          /\ s.p_paddr + n \in s.p_paddr + s.p_filesz .. s.p_paddr + s.p_memsz - 1
      BY <1>1, <2>3, SMTT(30)
    <3> QED
      BY <1>2, <2>1, <2>3, <3>1, SMTT(30)
  <2> QED
    BY <2>2, <2>3
<1>6. ASSUME NEW g \in Granule, g < s.p_paddr \/ s.p_paddr + s.p_memsz <= g
      PROVE  copied(s)[g] = ram[g]
  <2>1. /\ g \notin s.p_paddr .. s.p_paddr + s.p_filesz - 1
        /\ g \notin s.p_paddr + s.p_filesz .. s.p_paddr + s.p_memsz - 1
    BY <1>1, <1>6 DEF Granule
  <2> QED
    BY <1>2, <2>1
<1> QED
  BY <1>4, <1>5, <1>6 DEF s

(* The bounds after one more segment.                                       *)
LEMMA BoundsExtend ==
    ASSUME kernel \in Kernels, segment \in 1 .. Len(kernel.segments), Loaded(segment),
           low \in Nat, high \in Nat, Bounds(low, high, segment)
    PROVE  LET s == kernel.segments[segment] IN
             Bounds(IF s.p_paddr < low THEN s.p_paddr ELSE low,
                    IF s.p_paddr + s.p_memsz > high THEN s.p_paddr + s.p_memsz ELSE high,
                    segment + 1)
<1> DEFINE N == 1 .. Len(kernel.segments)
           start(i) == kernel.segments[i].p_paddr
           ends(i) == kernel.segments[i].p_paddr + kernel.segments[i].p_memsz
           old == {i \in N : i < segment /\ Loaded(i)}
           new == {i \in N : i < segment + 1 /\ Loaded(i)}
           lo == IF start(segment) < low THEN start(segment) ELSE low
           hi == IF ends(segment) > high THEN ends(segment) ELSE high
<1>1. \A i \in N : start(i) \in Nat /\ ends(i) \in Nat /\ 0 < ends(i) /\ start(i) <= Top
  <2> SUFFICES ASSUME NEW i \in N
               PROVE  start(i) \in Nat /\ ends(i) \in Nat /\ 0 < ends(i) /\ start(i) <= Top
    OBVIOUS
  <2> DEFINE s == kernel.segments[i]
  <2>1. /\ s.p_paddr \in Nat /\ s.p_memsz \in Nat
        /\ s.p_paddr >= KERNEL_BUFFER + KERNEL_MAX /\ s.p_paddr + s.p_memsz <= RAM_END
    BY SegmentFacts
  <2>2. KERNEL_BUFFER \in Nat /\ KERNEL_MAX \in Nat \ {0} /\ RAM_END \in Nat
    BY Layout
  <2> HIDE DEF s
  <2>3. /\ s.p_paddr + s.p_memsz \in Nat /\ 0 < s.p_paddr + s.p_memsz
        /\ s.p_paddr <= RAM_END
    BY <2>1, <2>2
  <2> QED
    BY <2>1, <2>3 DEF s, Top
<1>2. /\ \A i \in old : low <= start(i) /\ ends(i) <= high
      /\ old # {} => (\E i \in old : low = start(i)) /\ (\E i \in old : high = ends(i))
      /\ old = {} => low = Top /\ high = 0
  BY DEF Bounds
<1>3. Len(kernel.segments) \in Nat
  BY KernelFacts
<1>4. new = old \cup {segment}
  BY <1>3
<1> HIDE DEF start, ends, old
<1>5. \A i \in new : lo <= start(i) /\ ends(i) <= hi
  <2> SUFFICES ASSUME NEW i \in new PROVE lo <= start(i) /\ ends(i) <= hi
    OBVIOUS
  <2>1. i \in N /\ (i \in old \/ i = segment)
    BY <1>4
  <2> QED
    BY <1>1, <1>2, <2>1
<1>6. \E i \in new : lo = start(i)
  <2>1. CASE start(segment) < low
    BY <1>4, <2>1
  <2>2. CASE ~(start(segment) < low) /\ old # {}
    BY <1>2, <1>4, <2>2
  <2>3. CASE ~(start(segment) < low) /\ old = {}
    BY <1>1, <1>2, <1>4, <2>3
  <2> QED
    BY <2>1, <2>2, <2>3
<1>7. \E i \in new : hi = ends(i)
  <2>1. CASE ends(segment) > high
    BY <1>4, <2>1
  <2>2. CASE ~(ends(segment) > high) /\ old # {}
    BY <1>2, <1>4, <2>2
  <2>3. CASE ~(ends(segment) > high) /\ old = {}
    BY <1>1, <1>2, <1>4, <2>3
  <2> QED
    BY <2>1, <2>2, <2>3
<1>8. new # {}
  BY <1>4
<1> HIDE DEF new
<1> QED
  BY <1>5, <1>6, <1>7, <1>8 DEF Bounds, start, ends, new

(* A step over a header that is not loadable leaves the bounds.             *)
LEMMA BoundsSkip ==
    ASSUME kernel \in Kernels, segment \in 1 .. Len(kernel.segments), ~Loaded(segment),
           Bounds(low, high, segment)
    PROVE  Bounds(low, high, segment + 1)
<1>1. {i \in 1 .. Len(kernel.segments) : i < segment + 1 /\ Loaded(i)} =
      {i \in 1 .. Len(kernel.segments) : i < segment /\ Loaded(i)}
  BY KernelFacts
<1> QED
  BY <1>1 DEF Bounds

(* Copying a segment leaves the buffer, the map and the other segments.     *)
LEMMA ElfProgramLoopKeeps == BootInv /\ elf_program_loop => BootInv'
<1> SUFFICES ASSUME BootInv, elf_program_loop PROVE BootInv'
  OBVIOUS
<1> DEFINE s == kernel.segments[segment]
<1>1. /\ pc = "segments" /\ pc' = pc /\ kernel' = kernel /\ disk' = disk /\ segment' = segment + 1
      /\ segment <= Len(kernel.segments)
      /\ remaining' = remaining /\ destination' = destination /\ lba' = lba
      /\ count' = count /\ reported' = reported /\ info' = info
  BY DEF elf_program_loop, load_vars
<1>2. /\ kernel \in Kernels /\ ram \in [Granule -> Content] /\ low \in Nat /\ high \in Nat
      /\ segment \in Nat \ {0} /\ Bounds(low, high, segment)
  BY <1>1 DEF BootInv, Types, RangeCovers
<1>3. segment \in 1 .. Len(kernel.segments) /\ Len(kernel.segments) \in Nat
  BY <1>1, <1>2, KernelFacts
<1>4. kernel.size \in Nat /\ kernel.size <= KERNEL_MAX
  BY <1>1, <1>2, KernelFacts DEF BootInv, DiskHasKernel, AfterBuild
<1>5. DiskHasKernel' /\ LoadKeepsPace'
  BY <1>1 DEF BootInv, DiskHasKernel, LoadKeepsPace, AfterBuild
<1>6. CASE s.p_type # 1
  <2>1. low' = low /\ high' = high /\ ram' = ram
    BY <1>6 DEF elf_program_loop
  <2>2. ~Loaded(segment)
    BY <1>6 DEF Loaded
  <2>3. Types'
    BY <1>1, <1>2, <2>1 DEF BootInv, Types, AfterBuild
  <2>4. BufferHasKernel'
    BY <1>1, <2>1 DEF BootInv, BufferHasKernel, Buffered
  <2>5. \A i \in 1 .. Len(kernel.segments) : i < segment + 1 /\ Loaded(i) => i < segment
    BY <1>2, <1>3, <2>2
  <2>6. SegmentsInPlace'
    BY <1>1, <2>1, <2>5 DEF BootInv, SegmentsInPlace, AfterSegments, InPlace, Loaded
  <2>7. MapStored'
    BY <1>1, <2>1 DEF BootInv, MapStored, AfterMap, AfterSegments
  <2>8. Bounds(low, high, segment + 1)
    BY <1>2, <1>3, <2>2, BoundsSkip
  <2>9. RangeCovers'
    BY <1>1, <2>1, <2>8 DEF RangeCovers, AfterSegments, Bounds, Loaded
  <2> QED
    BY <1>5, <2>3, <2>4, <2>6, <2>7, <2>9 DEF BootInv
<1>7. CASE s.p_type = 1
  <2>1. /\ low' = IF s.p_paddr < low THEN s.p_paddr ELSE low
        /\ high' = IF s.p_paddr + s.p_memsz > high THEN s.p_paddr + s.p_memsz ELSE high
        /\ ram' = copied(s)
    BY <1>7 DEF elf_program_loop
  <2>2. /\ s.p_offset \in Nat /\ s.p_paddr \in Nat /\ s.p_filesz \in Nat /\ s.p_memsz \in Nat
        /\ s.p_offset + s.p_filesz <= kernel.size
        /\ s.p_paddr >= KERNEL_BUFFER + KERNEL_MAX
    BY <1>2, <1>3, SegmentFacts
  <2>3. /\ copied(s) \in [Granule -> Content]
        /\ \A n \in 0 .. s.p_memsz - 1 :
             copied(s)[s.p_paddr + n] = IF n < s.p_filesz
                                        THEN ram[KERNEL_BUFFER + s.p_offset + n] ELSE Zero
        /\ \A g \in Granule : g < s.p_paddr \/ s.p_paddr + s.p_memsz <= g => copied(s)[g] = ram[g]
    BY <1>2, <1>3, <1>4, CopiedSegment
  <2>4. Bounds(low', high', segment + 1)
    BY <1>2, <1>3, <1>7, <2>1, BoundsExtend DEF Loaded
  <2> HIDE DEF s
  <2>5. Types'
    BY <1>1, <1>2, <2>1, <2>2, <2>3 DEF BootInv, Types, AfterBuild
  <2>6. \A g \in Granule : g < KERNEL_BUFFER + KERNEL_MAX => ram'[g] = ram[g]
    BY <2>1, <2>2, <2>3, Layout DEF Granule
  <2>7. ASSUME FitsBelowMap(kernel), NEW g \in Nat, g < kernel.size
        PROVE  ram[KERNEL_BUFFER + g] = File(g) /\ ram'[KERNEL_BUFFER + g] = File(g)
    <3>1. KERNEL_BUFFER + g \in Granule /\ KERNEL_BUFFER + g < KERNEL_BUFFER + KERNEL_MAX
      BY <1>4, <2>7, Layout DEF Granule
    <3>2. ram[KERNEL_BUFFER + g] = File(g)
      BY <1>1, <2>7 DEF BootInv, BufferHasKernel, Buffered
    <3> QED
      BY <2>6, <3>1, <3>2
  <2>8. BufferHasKernel'
    BY <1>1, <2>7 DEF BufferHasKernel, Buffered, FitsBelowMap
  <2>9. ram'[E820_BUFFER] = ram[E820_BUFFER]
    BY <2>6, Layout
  <2>10. MapStored'
    BY <1>1, <2>9 DEF BootInv, MapStored, AfterMap, AfterSegments
  <2>11. RangeCovers'
    BY <1>1, <2>4 DEF RangeCovers, AfterSegments, Bounds, Loaded
  <2>12. SegmentsInPlace'
    <3> SUFFICES ASSUME FitsBelowMap(kernel), SegmentsApart(kernel),
                        NEW i \in 1 .. Len(kernel.segments), i < segment + 1, Loaded(i),
                        NEW n \in 0 .. kernel.segments[i].p_memsz - 1
                 PROVE  LET t == kernel.segments[i] IN
                          ram'[t.p_paddr + n] =
                            IF n < t.p_filesz THEN File(t.p_offset + n) ELSE Zero
      BY <1>1 DEF SegmentsInPlace, AfterSegments, InPlace, Loaded, FitsBelowMap, SegmentsApart
    <3>1. CASE i = segment
      <4>1. n < s.p_filesz =>
              /\ s.p_offset + n \in Nat /\ s.p_offset + n < kernel.size
              /\ KERNEL_BUFFER + s.p_offset + n = KERNEL_BUFFER + (s.p_offset + n)
        <5>1. n \in 0 .. s.p_memsz - 1
          BY <3>1 DEF s
        <5>2. n \in Nat /\ KERNEL_BUFFER \in Nat
          BY <2>2, <5>1, Layout
        <5> QED
          BY <1>4, <2>2, <5>2
      <4>2. n < s.p_filesz => ram[KERNEL_BUFFER + s.p_offset + n] = File(s.p_offset + n)
        BY <2>7, <4>1
      <4> QED
        BY <2>1, <2>3, <3>1, <4>2 DEF s
    <3>2. CASE i # segment
      <4> DEFINE t == kernel.segments[i]
      <4>1. /\ t.p_paddr \in Nat /\ t.p_memsz \in Nat /\ t.p_paddr + t.p_memsz <= RAM_END
        BY <1>2, SegmentFacts
      <4>2. s.p_paddr + s.p_memsz <= t.p_paddr \/ t.p_paddr + t.p_memsz <= s.p_paddr
        BY <1>3, <1>7, <3>2 DEF SegmentsApart, Loaded, s
      <4>3. i < segment
        BY <1>2, <1>3, <3>2
      <4>4. ram[t.p_paddr + n] = IF n < t.p_filesz THEN File(t.p_offset + n) ELSE Zero
        BY <1>1, <4>3 DEF BootInv, SegmentsInPlace, InPlace
      <4>5. n \in 0 .. t.p_memsz - 1
        OBVIOUS
      <4> HIDE DEF t
      <4>6. t.p_paddr + n \in Granule
        BY <4>1, <4>5, SegmentGranule
      <4>7. t.p_paddr + n < s.p_paddr \/ s.p_paddr + s.p_memsz <= t.p_paddr + n
        BY <2>2, <4>1, <4>2, <4>5
      <4>8. ram'[t.p_paddr + n] = ram[t.p_paddr + n]
        BY <2>1, <2>3, <4>6, <4>7
      <4> QED
        BY <4>4, <4>8 DEF t
    <3> QED
      BY <3>1, <3>2
  <2> QED
    BY <1>5, <2>5, <2>8, <2>10, <2>11, <2>12 DEF BootInv
<1> QED
  BY <1>6, <1>7

(* BootInfo is below every segment and not where the map is.                *)
LEMMA ElfSegmentsDoneKeeps == BootInv /\ elf_segments_done => BootInv'
<1> SUFFICES ASSUME BootInv, elf_segments_done PROVE BootInv'
  OBVIOUS
<1>1. /\ pc = "segments" /\ pc' = "start" /\ segment > Len(kernel.segments)
      /\ ram' = [ram EXCEPT ![BOOT_INFO] = <<"boot_info", 0>>]
      /\ info' = [kernel_phys_start |-> low, kernel_phys_end |-> high,
                  memory_map_count |-> count]
      /\ kernel' = kernel /\ disk' = disk
      /\ remaining' = remaining /\ destination' = destination /\ lba' = lba
      /\ count' = count /\ reported' = reported
      /\ segment' = segment /\ low' = low /\ high' = high
  BY DEF elf_segments_done, load_vars, elf_vars
<1>2. /\ kernel \in Kernels /\ ram \in [Granule -> Content] /\ segment \in Nat
      /\ Bounds(low, high, segment)
  BY <1>1 DEF BootInv, Types, RangeCovers
<1>3. Len(kernel.segments) \in Nat
  BY <1>2, KernelFacts
<1>4. ram' \in [Granule -> Content]
  BY <1>1, <1>2, Contents
<1>5. Types' /\ DiskHasKernel' /\ LoadKeepsPace' /\ BufferHasKernel'
  BY <1>1, <1>4 DEF BootInv, Types, DiskHasKernel, LoadKeepsPace, BufferHasKernel, AfterBuild
<1>6. \A i \in 1 .. Len(kernel.segments) : i < segment /\ i < Len(kernel.segments) + 1
  BY <1>1, <1>2, <1>3
<1>7. SegmentsInPlace'
  <2> SUFFICES ASSUME FitsBelowMap(kernel), SegmentsApart(kernel),
                      NEW i \in 1 .. Len(kernel.segments), Loaded(i),
                      NEW n \in 0 .. kernel.segments[i].p_memsz - 1
               PROVE  LET t == kernel.segments[i] IN
                        ram'[t.p_paddr + n] =
                          IF n < t.p_filesz THEN File(t.p_offset + n) ELSE Zero
    BY <1>1 DEF SegmentsInPlace, AfterSegments, InPlace, Loaded, FitsBelowMap, SegmentsApart
  <2> DEFINE t == kernel.segments[i]
  <2>1. /\ t.p_paddr \in Nat /\ t.p_memsz \in Nat /\ t.p_paddr + t.p_memsz <= RAM_END
        /\ t.p_paddr >= KERNEL_BUFFER + KERNEL_MAX
    BY <1>2, SegmentFacts
  <2>2. ram[t.p_paddr + n] = IF n < t.p_filesz THEN File(t.p_offset + n) ELSE Zero
    BY <1>1, <1>6 DEF BootInv, SegmentsInPlace, InPlace
  <2>3. n \in 0 .. t.p_memsz - 1
    OBVIOUS
  <2> HIDE DEF t
  <2>4. t.p_paddr + n \in Granule
    BY <2>1, <2>3, SegmentGranule
  <2>5. t.p_paddr + n # BOOT_INFO
    BY <2>1, <2>3, Layout
  <2> QED
    BY <1>1, <1>2, <2>2, <2>4, <2>5 DEF t
<1>8. ram'[E820_BUFFER] = ram[E820_BUFFER]
  BY <1>1, <1>2, Layout
<1>9. MapStored'
  BY <1>1, <1>8 DEF BootInv, MapStored, AfterMap, AfterSegments
<1>10. Bounds(low, high, Len(kernel.segments) + 1)
  <2>1. {i \in 1 .. Len(kernel.segments) : i < Len(kernel.segments) + 1 /\ Loaded(i)} =
        {i \in 1 .. Len(kernel.segments) : i < segment /\ Loaded(i)}
    BY <1>6
  <2> QED
    BY <1>2, <2>1 DEF Bounds
<1>11. RangeCovers'
  BY <1>1, <1>10 DEF RangeCovers, AfterSegments, Bounds, Loaded
<1> QED
  BY <1>5, <1>7, <1>9, <1>11 DEF BootInv

(* The checks of _start change nothing.                                     *)
LEMMA KernelStartKeeps == BootInv /\ kernel_start => BootInv'
<1> SUFFICES ASSUME BootInv, kernel_start PROVE BootInv'
  OBVIOUS
<1>1. /\ pc = "start"
      /\ \/ pc' = "halt"
         \/ pc' = "kernel" /\ info.kernel_phys_end > info.kernel_phys_start
      /\ kernel' = kernel /\ disk' = disk /\ ram' = ram
      /\ remaining' = remaining /\ destination' = destination /\ lba' = lba
      /\ count' = count /\ reported' = reported
      /\ segment' = segment /\ low' = low /\ high' = high /\ info' = info
  BY DEF kernel_start, load_vars, elf_vars, halt
<1>2. Types' /\ DiskHasKernel' /\ LoadKeepsPace' /\ BufferHasKernel'
  BY <1>1 DEF BootInv, Types, DiskHasKernel, LoadKeepsPace, BufferHasKernel, AfterBuild
<1>3. SegmentsInPlace'
  BY <1>1 DEF BootInv, SegmentsInPlace, AfterSegments, InPlace, Loaded
<1>4. MapStored'
  BY <1>1 DEF BootInv, MapStored, AfterMap, AfterSegments
<1>5. RangeCovers'
  BY <1>1 DEF BootInv, RangeCovers, AfterSegments, Bounds, Loaded
<1> QED
  BY <1>2, <1>3, <1>4, <1>5 DEF BootInv

-----------------------------------------------------------------------------
(* BootInv is an inductive invariant of the boot chain.                     *)
THEOREM BootInvariance == Spec => []BootInv
<1>1. BootInv /\ UNCHANGED vars => BootInv'
  <2> SUFFICES ASSUME BootInv, UNCHANGED vars PROVE BootInv'
    OBVIOUS
  <2>1. /\ pc' = pc /\ kernel' = kernel /\ disk' = disk /\ ram' = ram
        /\ remaining' = remaining /\ destination' = destination /\ lba' = lba
        /\ count' = count /\ reported' = reported
        /\ segment' = segment /\ low' = low /\ high' = high /\ info' = info
    BY DEF vars, load_vars, elf_vars
  <2>2. Types' /\ DiskHasKernel' /\ LoadKeepsPace' /\ BufferHasKernel'
    BY <2>1 DEF BootInv, Types, DiskHasKernel, LoadKeepsPace, BufferHasKernel, AfterBuild,
         Buffered
  <2>3. SegmentsInPlace'
    BY <2>1 DEF BootInv, SegmentsInPlace, AfterSegments, InPlace, Loaded
  <2>4. MapStored' /\ RangeCovers'
    BY <2>1 DEF BootInv, MapStored, RangeCovers, AfterMap, AfterSegments, Bounds, Loaded
  <2> QED
    BY <2>2, <2>3, <2>4 DEF BootInv
<1>2. BootInv /\ [Next]_vars => BootInv'
  BY <1>1, BuildKeeps, Stage1Keeps, LoadKernelKeeps, LoadDoneKeeps, DetectMemoryMapKeeps,
     LongModeEntryKeeps, ElfCheckKeeps, ElfProgramLoopKeeps, ElfSegmentsDoneKeeps,
     KernelStartKeeps DEF Next
<1> QED
  BY <1>2, BootInit, PTL DEF Spec

(* A kernel file that ends below the memory map and whose segments do not   *)
(* overlap is in memory, complete, when it is entered.  (The image builder  *)
(* accepts longer files; the run boot_large shows what becomes of one.)     *)
THEOREM FittingKernelIsIntact ==
    Spec => [](FitsBelowMap(kernel) /\ SegmentsApart(kernel) => KernelIntact)
<1>1. BootInv => (FitsBelowMap(kernel) /\ SegmentsApart(kernel) => KernelIntact)
  BY DEF BootInv, SegmentsInPlace, AfterSegments, InPlace, KernelIntact, Loaded
<1> QED
  BY <1>1, BootInvariance, PTL

(* BootInfo gives the frame allocator exactly the range of the loadable     *)
(* segments of the kernel it enters.                                        *)
THEOREM RangeIsExact == Spec => []RangeExact
<1>1. BootInv => RangeExact
  <2> SUFFICES ASSUME BootInv, pc = "kernel" PROVE RangeExact
    BY DEF RangeExact
  <2> DEFINE load == {i \in 1 .. Len(kernel.segments) : Loaded(i)}
             ends(i) == kernel.segments[i].p_paddr + kernel.segments[i].p_memsz
  <2>1. kernel \in Kernels /\ Len(kernel.segments) \in Nat
    BY KernelFacts DEF BootInv, Types
  <2>2. load = {i \in 1 .. Len(kernel.segments) : i < Len(kernel.segments) + 1 /\ Loaded(i)}
    BY <2>1
  <2>3. /\ \A i \in load : /\ info.kernel_phys_start <= kernel.segments[i].p_paddr
                           /\ ends(i) <= info.kernel_phys_end
        /\ load # {} => /\ \E i \in load : info.kernel_phys_start = kernel.segments[i].p_paddr
                        /\ \E i \in load : info.kernel_phys_end = ends(i)
        /\ load = {} => info.kernel_phys_start = Top /\ info.kernel_phys_end = 0
    BY <2>2 DEF BootInv, RangeCovers, AfterSegments, Bounds
  <2>4. load # {}
    <3>1. info.kernel_phys_end > info.kernel_phys_start
      BY DEF BootInv, RangeCovers
    <3>2. Top \in Nat
      BY Layout DEF Top
    <3> QED
      BY <2>3, <3>1, <3>2
  <2> QED
    BY <2>3, <2>4 DEF RangeExact
<1> QED
  BY <1>1, BootInvariance, PTL

(* The kernel finds the map that the firmware reported, with its number of  *)
(* entries, and never an empty one.                                         *)
THEOREM MemoryMapIsIntact == Spec => []MemoryMapIntact
<1>1. BootInv => MemoryMapIntact
  <2> SUFFICES ASSUME BootInv, pc = "kernel" PROVE MemoryMapIntact
    BY DEF MemoryMapIntact
  <2>1. /\ reported = count /\ count <= E820_MAX /\ count > 0 /\ count \in Nat
        /\ ram[E820_BUFFER] = E820 /\ info.memory_map_count = count
    BY DEF BootInv, Types, MapStored, AfterMap, AfterSegments
  <2> QED
    BY <2>1, Layout DEF MemoryMapIntact
<1> QED
  BY <1>1, BootInvariance, PTL
=============================================================================
