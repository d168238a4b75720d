------------------------------ MODULE BootLoader ------------------------------
(***************************************************************************)
(* From the disk image to the kernel's entry: the image builder            *)
(* (tools/image-builder/src/main.rs), stage 1, stage 2 and the checks that *)
(* _start makes of BootInfo.  Low memory is shared: the buffer the kernel  *)
(* file is read into, the firmware's memory map, BootInfo and the stack    *)
(* have fixed places in it, and each stage writes without asking what is   *)
(* there.                                                                  *)
(*                                                                         *)
(* Addresses and sizes are in granules of one disk read (kernel_read_chunk *)
(* sectors, 16 KiB), the largest unit in which all the places differ.  The *)
(* content of a granule is a pair: what it is, and which one of the kernel *)
(* file.  The firmware may fail any call.                                  *)
(***************************************************************************)
EXTENDS Integers, Sequences

CONSTANTS
    KERNEL_MAX,     \* kernel_max_sectors = STAGE2_KERNEL_READ_SECTORS
    KERNEL_BUFFER,  \* 0x20000
    E820_BUFFER,    \* 0x60000
    BOOT_INFO,      \* 0x70000
    STACK,          \* below 0x90000
    RAM_END,        \* 2 MiB: what stage 2 maps
    E820_MAX,       \* 128 entries
    Kernels         \* the kernel files: size, valid, segments

Granule == 0 .. RAM_END - 1

(* p_type is 1 for PT_LOAD.  The file has the bytes a segment refers to, and *)
(* the linker script puts segments above the first MiB.                      *)
Segment == [p_type : Nat, p_offset : Nat, p_paddr : Nat, p_filesz : Nat, p_memsz : Nat]

ASSUME BootAssumption ==
    /\ {KERNEL_MAX, E820_MAX, RAM_END} \subseteq Nat \ {0}
    /\ {KERNEL_BUFFER, E820_BUFFER, BOOT_INFO, STACK} \subseteq Granule
    /\ KERNEL_BUFFER + KERNEL_MAX \in Granule
    /\ \A k \in Kernels :
         /\ k.size \in Nat /\ k.valid \in BOOLEAN /\ k.segments \in Seq(Segment)
         /\ \A i \in 1 .. Len(k.segments) :
              LET s == k.segments[i] IN
                /\ s.p_offset + s.p_filesz <= k.size
                /\ s.p_filesz <= s.p_memsz
                /\ s.p_paddr >= KERNEL_BUFFER + KERNEL_MAX
                /\ s.p_paddr + s.p_memsz <= RAM_END

(* The map, BootInfo and the stack are above each other in what stage 2     *)
(* reads the kernel area of the disk into.                                  *)
ASSUME LayoutAssumption ==
    /\ KERNEL_BUFFER <= E820_BUFFER /\ E820_BUFFER < BOOT_INFO /\ BOOT_INFO < STACK
    /\ STACK < KERNEL_BUFFER + KERNEL_MAX

VARIABLES
    pc,
    kernel,         \* the kernel file the image is built from
    disk,           \* the kernel area of the image
    ram,
    remaining, destination, lba,    \* load_kernel
    count, reported,                \* SI, and ghost: valid entries so far
    segment, low, high,             \* R8, R10 and R11
    info                            \* BootInfo

load_vars == <<remaining, destination, lba>>
elf_vars == <<segment, low, high>>
vars == <<pc, kernel, disk, ram, load_vars, count, reported, elf_vars, info>>

Other == <<"other", 0>>
Zero == <<"zero", 0>>
File(k) == <<"file", k>>
E820 == <<"e820", 0>>
NoInfo == [kernel_phys_start |-> 0, kernel_phys_end |-> 0, memory_map_count |-> 0]

(* R10 begins with the largest number.                                      *)
Top == RAM_END

Init ==
    /\ pc = "build"
    /\ kernel \in Kernels
    /\ disk = << >>
    /\ ram = [g \in Granule |-> Other]
    /\ remaining = 0 /\ destination = 0 /\ lba = 0
    /\ count = 0 /\ reported = 0
    /\ segment = 1 /\ low = Top /\ high = 0
    /\ info = NoInfo

halt == pc' = "halt"

-----------------------------------------------------------------------------
(* The image builder: no image of a kernel that is empty or too large, or   *)
(* if the boot stages, which the model does not follow, are refused; the    *)
(* rest of the kernel area is zero.                                         *)
build ==
    /\ pc = "build"
    /\ \/ pc' = "refused" /\ UNCHANGED disk
       \/ /\ kernel.size > 0 /\ kernel.size <= KERNEL_MAX
          /\ disk' = [g \in 0 .. KERNEL_MAX - 1 |-> IF g < kernel.size THEN File(g) ELSE Zero]
          /\ pc' = "stage1"
    /\ UNCHANGED <<kernel, ram, load_vars, count, reported, elf_vars, info>>

(* Stage 1 reads stage 2 and jumps to it, which sets up load_kernel.        *)
stage1 ==
    /\ pc = "stage1"
    /\ \/ halt /\ UNCHANGED load_vars
       \/ /\ pc' = "load"
          /\ remaining' = KERNEL_MAX
          /\ destination' = KERNEL_BUFFER
          /\ lba' = 0
    /\ UNCHANGED <<kernel, disk, ram, count, reported, elf_vars, info>>

(* One INT 13h read of load_kernel.                                         *)
load_kernel ==
    /\ pc = "load"
    /\ remaining > 0
    /\ \/ /\ ram' = [ram EXCEPT ![destination] = disk[lba]]
          /\ remaining' = remaining - 1
          /\ lba' = lba + 1
          /\ destination' = destination + 1
          /\ UNCHANGED pc
       \/ halt /\ UNCHANGED <<ram, load_vars>>
    /\ UNCHANGED <<kernel, disk, count, reported, elf_vars, info>>

load_done ==
    /\ pc = "load"
    /\ remaining = 0
    /\ pc' = "e820"
    /\ UNCHANGED <<kernel, disk, ram, load_vars, count, reported, elf_vars, info>>

(* Mutant: EBX is looked at before the entry is counted.                    *)
detect_memory_map_LosesLast ==
    /\ pc = "e820"
    /\ IF count >= E820_MAX
       THEN pc' = "long_mode" /\ UNCHANGED <<ram, count, reported>>
       ELSE /\ ram' = [ram EXCEPT ![E820_BUFFER] = E820]
            /\ \/ halt /\ count' = 0 /\ UNCHANGED reported
               \/ /\ count' = count + 1 /\ reported' = reported + 1
                  /\ pc' = "e820"
               \/ /\ UNCHANGED count /\ reported' = reported + 1
                  /\ pc' = "long_mode"
    /\ UNCHANGED <<kernel, disk, load_vars, elf_vars, info>>

(* Mutant: the map is asked for again after an error.                       *)
detect_memory_map_Retries ==
    /\ pc = "e820"
    /\ IF count >= E820_MAX
       THEN pc' = "long_mode" /\ UNCHANGED <<ram, count, reported>>
       ELSE /\ ram' = [ram EXCEPT ![E820_BUFFER] = E820]
            /\ \/ UNCHANGED pc /\ count' = 0 /\ reported' = 0
               \/ /\ count' = count + 1 /\ reported' = reported + 1
                  /\ pc' \in {"e820", "long_mode"}
    /\ UNCHANGED <<kernel, disk, load_vars, elf_vars, info>>

(* One INT 15h call of detect_memory_map: CF, the signature or the size is  *)
(* wrong, or an entry is stored and is the last one (EBX = 0) or not.       *)
detect_memory_map ==
    /\ pc = "e820"
    /\ IF count >= E820_MAX
       THEN pc' = "long_mode" /\ UNCHANGED <<ram, count, reported>>
       ELSE /\ ram' = [ram EXCEPT ![E820_BUFFER] = E820]
            /\ \/ halt /\ count' = 0 /\ UNCHANGED reported
               \/ /\ count' = count + 1 /\ reported' = reported + 1
                  /\ pc' \in {"e820", "long_mode"}
    /\ UNCHANGED <<kernel, disk, load_vars, elf_vars, info>>

(* Protected mode, paging, long mode; the stack is below 0x90000.           *)
long_mode_entry ==
    /\ pc = "long_mode"
    /\ ram' = [ram EXCEPT ![STACK] = <<"stack", 0>>]
    /\ pc' = "elf"
    /\ UNCHANGED <<kernel, disk, load_vars, count, reported, elf_vars, info>>

(* Magic, class and byte order; the header is in the first granule.         *)
elf_check ==
    /\ pc = "elf"
    /\ IF ram[KERNEL_BUFFER] = File(0) /\ kernel.valid THEN pc' = "segments" ELSE halt
    /\ UNCHANGED <<kernel, disk, ram, load_vars, count, reported, elf_vars, info>>

(* Mutant: what the file does not have is left as it was.                   *)
copied_NoZero(s) ==
    [g \in Granule |->
       IF g \in s.p_paddr .. s.p_paddr + s.p_filesz - 1
       THEN ram[KERNEL_BUFFER + s.p_offset + (g - s.p_paddr)] ELSE ram[g]]

(* memory_copy and memory_zero of a segment.                                *)
copied(s) ==
    [g \in Granule |->
       IF g \in s.p_paddr .. s.p_paddr + s.p_filesz - 1
       THEN ram[KERNEL_BUFFER + s.p_offset + (g - s.p_paddr)]
       ELSE IF g \in s.p_paddr + s.p_filesz .. s.p_paddr + s.p_memsz - 1
       THEN Zero ELSE ram[g]]

(* Mutant: the end is taken from the size in the file, without the BSS.     *)
elf_program_loop_NoBss ==
    /\ pc = "segments"
    /\ segment <= Len(kernel.segments)
    /\ LET s == kernel.segments[segment] IN
         IF s.p_type = 1
         THEN /\ low' = IF s.p_paddr < low THEN s.p_paddr ELSE low
              /\ high' = IF s.p_paddr + s.p_filesz > high THEN s.p_paddr + s.p_filesz ELSE high
              /\ ram' = copied(s)
         ELSE UNCHANGED <<low, high, ram>>
    /\ segment' = segment + 1
    /\ UNCHANGED <<pc, kernel, disk, load_vars, count, reported, info>>

elf_program_loop ==
    /\ pc = "segments"
    /\ segment <= Len(kernel.segments)
    /\ LET s == kernel.segments[segment] IN
         IF s.p_type = 1
         THEN /\ low' = IF s.p_paddr < low THEN s.p_paddr ELSE low
              /\ high' = IF s.p_paddr + s.p_memsz > high THEN s.p_paddr + s.p_memsz ELSE high
              /\ ram' = copied(s)
         ELSE UNCHANGED <<low, high, ram>>
    /\ segment' = segment + 1
    /\ UNCHANGED <<pc, kernel, disk, load_vars, count, reported, info>>

(* BootInfo is built and the kernel entered.                                *)
elf_segments_done ==
    /\ pc = "segments"
    /\ segment > Len(kernel.segments)
    /\ ram' = [ram EXCEPT ![BOOT_INFO] = <<"boot_info", 0>>]
    /\ info' = [kernel_phys_start |-> low, kernel_phys_end |-> high, memory_map_count |-> count]
    /\ pc' = "start"
    /\ UNCHANGED <<kernel, disk, load_vars, count, reported, elf_vars>>

(* _start: magic, version and sizes are constants both sides agree on.      *)
kernel_start ==
    /\ pc = "start"
    /\ IF /\ ram[BOOT_INFO] = <<"boot_info", 0>>
          /\ info.memory_map_count # 0
          /\ info.kernel_phys_end > info.kernel_phys_start
       THEN pc' = "kernel" ELSE halt
    /\ UNCHANGED <<kernel, disk, ram, load_vars, count, reported, elf_vars, info>>

Stopped == pc \in {"halt", "refused", "kernel"}

Next ==
    \/ build \/ stage1 \/ load_kernel \/ load_done \/ detect_memory_map \/ long_mode_entry
    \/ elf_check \/ elf_program_loop \/ elf_segments_done \/ kernel_start

Spec == Init /\ [][Next]_vars

(* The processor goes on.                                                   *)
FairSpec == Spec /\ WF_vars(Next)

-----------------------------------------------------------------------------
(* Properties.                                                              *)

Loaded(i) == kernel.segments[i].p_type = 1

(* When the kernel runs, the memory of every loadable segment is what the   *)
(* file has for it, then zeros: nothing that was written between the disk   *)
(* reads and the copy got in between.  (Segments do not overlap.)           *)
KernelIntact ==
    pc = "kernel" =>
      \A i \in {j \in 1 .. Len(kernel.segments) : Loaded(j)} :
        LET s == kernel.segments[i] IN
          \A k \in 0 .. s.p_memsz - 1 :
            ram[s.p_paddr + k] = IF k < s.p_filesz THEN File(s.p_offset + k) ELSE Zero

(* The range that BootInfo gives to the frame allocator to reserve has      *)
(* every granule of the kernel, BSS included, and no more than it must.     *)
RangeExact ==
    pc = "kernel" =>
      LET ends(i) == kernel.segments[i].p_paddr + kernel.segments[i].p_memsz
          load == {i \in 1 .. Len(kernel.segments) : Loaded(i)}
      IN  /\ \A i \in load : /\ info.kernel_phys_start <= kernel.segments[i].p_paddr
                             /\ ends(i) <= info.kernel_phys_end
          /\ \E i \in load : info.kernel_phys_start = kernel.segments[i].p_paddr
          /\ \E i \in load : info.kernel_phys_end = ends(i)

(* The kernel finds the memory map, and the number of entries, that the     *)
(* firmware reported: no disk read and no segment has overwritten it, and   *)
(* its entries are no more than the buffer holds.                           *)
MemoryMapIntact ==
    pc = "kernel" =>
      /\ ram[E820_BUFFER] = E820
      /\ info.memory_map_count = reported /\ reported \in 1 .. E820_MAX

(* The boot ends in the kernel or in a halt, also if the firmware never     *)
(* reports a last entry.                                                    *)
BootEnds == <>Stopped
=============================================================================
