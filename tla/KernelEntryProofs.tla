-------------------------- MODULE KernelEntryProofs ---------------------------
(***************************************************************************)
(* Proofs about the ways into the kernel and back, for every set of user   *)
(* numbers and of exceptions.  The inductive invariant says, for each      *)
(* point of a path, which word of the stack holds which register of the    *)
(* interrupted code; the paths are then shown to put each word back.       *)
(***************************************************************************)
EXTENDS KernelEntry, SequenceTheorems, TLAPS

(* What a register or a word of the stack can hold.                         *)
Names == Reg \cup {"n", "junk", "cs", "ss", "error", "version", "max", "entry", "task_stack"}
Word == Names \X Nat

(* The registers as SYSCALL leaves them, and as the entry saves them: RIP,  *)
(* RFLAGS and RSP of the user are in RCX, R11 and R12.                      *)
AfterSyscall == [was EXCEPT !["rcx"] = was["rip"], !["r11"] = was["rflags"]]
SyscallFrame == [AfterSyscall EXCEPT !["r12"] = was["rsp"]]

(* The words above the vector: RIP, RFLAGS and RSP from word n on.          *)
ReturnsTo(n) ==
    stack[n] = was["rip"] /\ stack[n + 2] = was["rflags"] /\ stack[n + 3] = was["rsp"]

ErrorWord(v) == IF v \in CPU_ERROR_CODE THEN <<"error", v>> ELSE Num(0)

(* The fifteen words that a common stub has pushed.                         *)
RegistersSaved == \A i \in 1 .. 15 : stack[i] = was[all_saved[16 - i]]

Types ==
    /\ at \in {"running", "save", "irq", "exception", "syscall", "restore", "resumed"}
    /\ path \in {"irq", "exception", "syscall", "start"}
    /\ regs \in [Reg -> Word] /\ was \in [Reg -> Word]
    /\ stack \in Seq(Word)

AtSave ==
    at = "save" =>
      /\ path = "irq" => regs = was /\ Len(stack) = 6 /\ ReturnsTo(2)
      /\ path = "exception" =>
           /\ regs = was /\ Len(stack) = 7
           /\ stack[1] = Num(vector) /\ stack[2] = ErrorWord(vector) /\ stack[3] = was["rip"]
      /\ path = "syscall" => regs = AfterSyscall
      /\ path # "start"

AtHandler ==
    /\ at = "irq" => path = "irq"
    /\ at = "exception" => path = "exception"
    /\ at = "syscall" => path = "syscall"
    /\ at \in {"irq", "restore"} /\ path = "irq" =>
         Len(stack) = 21 /\ RegistersSaved /\ ReturnsTo(17)
    /\ at = "exception" =>
         /\ Len(stack) = 22
         /\ stack[16] = Num(vector) /\ stack[17] = ErrorWord(vector) /\ stack[18] = was["rip"]
    /\ at = "restore" /\ path = "exception" => Len(stack) = 22
    /\ at = "restore" /\ path = "start" => Len(stack) = 21
    /\ at \in {"syscall", "restore"} /\ path = "syscall" =>
         /\ Len(stack) = 15
         /\ \A i \in 1 .. 15 : stack[i] = SyscallFrame[syscall_saved[16 - i]]

EntryInv == Types /\ AtSave /\ AtHandler /\ IrqTransparent /\ SyscallReturns /\ HandlerSeesFrame

-----------------------------------------------------------------------------
(* What the pairs that the model writes are.                                *)
LEMMA Words ==
    /\ \A n \in Nat : Num(n) \in Word
    /\ Junk \in Word
    /\ \A name \in Names : <<name, 0>> \in Word
    /\ \A v \in Nat : ErrorWord(v) \in Word
<1>1. \A n \in Nat : Num(n) \in Word
  BY DEF Num, Word, Names
<1>2. Junk \in Word
  BY DEF Junk, Word, Names
<1>3. \A name \in Names : <<name, 0>> \in Word
  BY DEF Word
<1>4. \A v \in Nat : <<"error", v>> \in Word
  BY DEF Word, Names
<1> QED
  BY <1>1, <1>2, <1>3, <1>4 DEF ErrorWord

(* A call of a Rust function leaves registers that hold words.              *)
LEMMA CalledType ==
    ASSUME regs \in [Reg -> Word], NEW w \in Word
    PROVE  called(w) \in [Reg -> Word]
BY Words DEF called

(* The frame of an interrupt has five words.                                *)
LEMMA IretFrame ==
    ASSUME regs \in [Reg -> Word]
    PROVE  /\ iret_frame \in Seq(Word) /\ Len(iret_frame) = 5
           /\ iret_frame[1] = regs["rip"] /\ iret_frame[3] = regs["rflags"]
           /\ iret_frame[4] = regs["rsp"]
<1>1. regs["rip"] \in Word /\ regs["rflags"] \in Word /\ regs["rsp"] \in Word
  BY DEF Reg
<1>2. <<"cs", 0>> \in Word /\ <<"ss", 0>> \in Word
  BY Words DEF Names
<1>3. iret_frame \in Seq(Word)
  BY <1>1, <1>2 DEF iret_frame
<1>4. Len(iret_frame) = 5
  BY DEF iret_frame
<1>5. iret_frame[1] = regs["rip"] /\ iret_frame[3] = regs["rflags"] /\ iret_frame[4] = regs["rsp"]
  BY DEF iret_frame
<1> QED
  BY <1>3, <1>4, <1>5

(* Pushing fifteen registers puts them, the last one first, on top.         *)
LEMMA PushedWords ==
    ASSUME regs \in [Reg -> Word], stack \in Seq(Word)
    PROVE  /\ pushed(all_saved) \in Seq(Word)
           /\ Len(pushed(all_saved)) = 15 + Len(stack)
           /\ \A i \in 1 .. 15 : pushed(all_saved)[i] = regs[all_saved[16 - i]]
           /\ \A i \in 1 .. Len(stack) : pushed(all_saved)[15 + i] = stack[i]
<1> DEFINE top == [i \in 1 .. 15 |-> regs[all_saved[16 - i]]]
<1>1. Len(all_saved) = 15 /\ \A i \in 1 .. 15 : all_saved[i] \in Reg
  BY DEF all_saved, Reg, GPR
<1>2. \A i \in 1 .. 15 : regs[all_saved[16 - i]] \in Word
  BY <1>1
<1>3. top \in Seq(Word) /\ Len(top) = 15
  BY <1>2
<1>4. pushed(all_saved) = top \o stack
  BY <1>1 DEF pushed
<1>5. \A i \in 1 .. 15 : top[i] = regs[all_saved[16 - i]]
  OBVIOUS
<1> HIDE DEF top
<1>6. /\ top \o stack \in Seq(Word)
      /\ Len(top \o stack) = Len(top) + Len(stack)
      /\ \A i \in 1 .. Len(top) + Len(stack) :
           (top \o stack)[i] = IF i <= Len(top) THEN top[i] ELSE stack[i - Len(top)]
  BY <1>3, ConcatProperties
<1>7. Len(stack) \in Nat
  BY LenProperties
<1>8. \A i \in 1 .. 15 : (top \o stack)[i] = regs[all_saved[16 - i]]
  BY <1>3, <1>5, <1>6, <1>7, SMTT(30)
<1>9. \A i \in 1 .. Len(stack) : (top \o stack)[15 + i] = stack[i]
  BY <1>3, <1>6, <1>7
<1> QED
  BY <1>3, <1>4, <1>6, <1>8, <1>9

-----------------------------------------------------------------------------
(* Every general register is among the saved ones.                          *)
LEMMA AllSaved ==
    /\ Len(all_saved) = 15 /\ \A i \in 1 .. 15 : all_saved[i] \in GPR
    /\ \A r \in GPR : \E i \in 1 .. 15 : all_saved[i] = r
<1>1. Len(all_saved) = 15 /\ \A i \in 1 .. 15 : all_saved[i] \in GPR
  BY DEF all_saved, GPR
<1>2. /\ all_saved[1] = "rax" /\ all_saved[2] = "rcx" /\ all_saved[3] = "rdx"
      /\ all_saved[4] = "rbx" /\ all_saved[5] = "rbp" /\ all_saved[6] = "rsi"
      /\ all_saved[7] = "rdi" /\ all_saved[8] = "r8" /\ all_saved[9] = "r9"
      /\ all_saved[10] = "r10" /\ all_saved[11] = "r11" /\ all_saved[12] = "r12"
      /\ all_saved[13] = "r13" /\ all_saved[14] = "r14" /\ all_saved[15] = "r15"
  BY DEF all_saved
<1>3. \A i \in {1, 2, 3, 4, 5, 6, 7, 8, 9, 10, 11, 12, 13, 14, 15} : i \in 1 .. 15
  OBVIOUS
<1>4. \A r \in GPR : \E i \in 1 .. 15 : all_saved[i] = r
  BY <1>2, <1>3 DEF GPR
<1> QED
  BY <1>1, <1>4

(* The pops of the common stubs, in the reverse order of the pushes, put    *)
(* every general register back.                                             *)
LEMMA GatePops ==
    ASSUME regs \in [Reg -> Word], stack \in Seq(Word), Len(stack) >= 15
    PROVE  /\ popped(Reverse(gate_pops)) \in [Reg -> Word]
           /\ RegistersSaved => \A r \in GPR : popped(Reverse(gate_pops))[r] = was[r]
<1> DEFINE order == Reverse(gate_pops)
           place(r) == CHOOSE i \in 1 .. Len(order) : order[i] = r
<1>1. Len(order) = 15 /\ \A i \in 1 .. 15 : order[i] = all_saved[16 - i]
  <2>1. Len(all_saved) = 15
    BY AllSaved
  <2> QED
    BY <2>1 DEF Reverse, gate_pops
<1> HIDE DEF order
<1>2. \A r \in GPR : \E i \in 1 .. 15 : order[i] = r
  <2> SUFFICES ASSUME NEW r \in GPR PROVE \E i \in 1 .. 15 : order[i] = r
    OBVIOUS
  <2>1. PICK j \in 1 .. 15 : all_saved[j] = r
    BY AllSaved
  <2>2. 16 - j \in 1 .. 15 /\ 16 - (16 - j) = j
    OBVIOUS
  <2> QED
    BY <2>1, <2>2, <1>1
<1>3. \A r \in Reg : (\E i \in 1 .. Len(order) : order[i] = r) =>
                       place(r) \in 1 .. 15 /\ order[place(r)] = r
  BY <1>1
<1> HIDE DEF place
<1>4. \A r \in Reg : popped(order)[r] = IF \E i \in 1 .. Len(order) : order[i] = r
                                        THEN stack[place(r)] ELSE regs[r]
  BY DEF popped, place
<1>5. \A i \in 1 .. 15 : stack[i] \in Word
  BY ElementOfSeq
<1>6. popped(order) \in [Reg -> Word]
  BY <1>3, <1>5 DEF popped, place
<1>7. ASSUME RegistersSaved, NEW r \in GPR PROVE popped(order)[r] = was[r]
  <2>1. place(r) \in 1 .. 15 /\ order[place(r)] = r /\ popped(order)[r] = stack[place(r)]
    BY <1>1, <1>2, <1>3, <1>4 DEF Reg
  <2>2. stack[place(r)] = was[all_saved[16 - place(r)]]
    BY <1>7, <2>1 DEF RegistersSaved
  <2> QED
    BY <1>1, <2>1, <2>2
<1> QED
  BY <1>6, <1>7 DEF order

(* The pops of unbound_syscall_entry mirror its pushes, but for RAX.        *)
LEMMA SyscallOrders ==
    /\ Len(syscall_saved) = 15 /\ Len(syscall_pops) = 15
    /\ \A i \in 1 .. 15 : syscall_saved[i] \in GPR
    /\ \A i \in 1 .. 15 : syscall_pops[i] # "skip" => syscall_pops[i] = syscall_saved[16 - i]
    /\ \A r \in GPR \ {"rax"} : \E i \in 1 .. 15 : syscall_pops[i] = r
    /\ \A r \in {"rax", "rip", "rflags", "rsp"}, i \in 1 .. 15 : syscall_pops[i] # r
<1>1. Len(syscall_saved) = 15 /\ Len(syscall_pops) = 15
  BY DEF syscall_saved, syscall_pops
<1>2. \A i \in 1 .. 15 : syscall_saved[i] \in GPR
  BY DEF syscall_saved, GPR
<1>3. \A i \in 1 .. 15 : syscall_pops[i] # "skip" => syscall_pops[i] = syscall_saved[16 - i]
  BY DEF syscall_saved, syscall_pops
<1>4. /\ syscall_pops[1] = "r15" /\ syscall_pops[2] = "r14" /\ syscall_pops[3] = "r13"
      /\ syscall_pops[4] = "r10" /\ syscall_pops[5] = "r9" /\ syscall_pops[6] = "r8"
      /\ syscall_pops[7] = "rdi" /\ syscall_pops[8] = "rsi" /\ syscall_pops[9] = "rbp"
      /\ syscall_pops[10] = "rbx" /\ syscall_pops[11] = "rdx" /\ syscall_pops[12] = "skip"
      /\ syscall_pops[13] = "r11" /\ syscall_pops[14] = "rcx" /\ syscall_pops[15] = "r12"
  BY DEF syscall_pops
<1>5. \A i \in {1, 2, 3, 4, 5, 6, 7, 8, 9, 10, 11, 12, 13, 14, 15} : i \in 1 .. 15
  OBVIOUS
<1>6. \A r \in GPR \ {"rax"} : \E i \in 1 .. 15 : syscall_pops[i] = r
  BY <1>4, <1>5 DEF GPR
<1>7. \A r \in {"rax", "rip", "rflags", "rsp"}, i \in 1 .. 15 : syscall_pops[i] # r
  BY <1>4
<1> QED
  BY <1>1, <1>2, <1>3, <1>6, <1>7

(* They give every register but RAX the value that was saved for it.        *)
LEMMA SyscallPops ==
    ASSUME regs \in [Reg -> Word], stack \in Seq(Word), Len(stack) = 15,
           \A i \in 1 .. 15 : stack[i] = SyscallFrame[syscall_saved[16 - i]]
    PROVE  /\ popped(syscall_pops) \in [Reg -> Word]
           /\ \A r \in GPR \ {"rax"} : popped(syscall_pops)[r] = SyscallFrame[r]
<1> DEFINE order == syscall_pops
           place(r) == CHOOSE i \in 1 .. Len(order) : order[i] = r
<1>1. Len(order) = 15
  BY SyscallOrders
<1>2. \A r \in Reg : (\E i \in 1 .. Len(order) : order[i] = r) =>
                       place(r) \in 1 .. 15 /\ order[place(r)] = r
  BY <1>1
<1>3. \A r \in Reg : popped(order)[r] = IF \E i \in 1 .. Len(order) : order[i] = r
                                        THEN stack[place(r)] ELSE regs[r]
  BY DEF popped
<1>4. \A i \in 1 .. 15 : stack[i] \in Word
  BY ElementOfSeq
<1>5. popped(order) \in [Reg -> Word]
  BY <1>2, <1>4 DEF popped
<1> HIDE DEF order, place
<1>6. ASSUME NEW r \in GPR \ {"rax"} PROVE popped(order)[r] = SyscallFrame[r]
  <2>1. r \in Reg /\ r # "skip"
    BY DEF Reg, GPR
  <2>2. \E i \in 1 .. 15 : order[i] = r
    BY SyscallOrders DEF order
  <2>3. place(r) \in 1 .. 15 /\ order[place(r)] = r /\ popped(order)[r] = stack[place(r)]
    BY <1>1, <1>2, <1>3, <2>1, <2>2
  <2>4. syscall_saved[16 - place(r)] = r
    BY <2>1, <2>3, SyscallOrders DEF order
  <2> QED
    BY <2>3, <2>4
<1> QED
  BY <1>5, <1>6 DEF order

-----------------------------------------------------------------------------
(* The entries.                                                             *)

(* The invariant holds before anything has come in.                         *)
LEMMA EntryInit == Init => EntryInv
<1> SUFFICES ASSUME Init PROVE EntryInv
  OBVIOUS
<1>1. UserRegs \in [Reg -> Word]
  BY Words DEF UserRegs, Names
<1>2. stack \in Seq(Word)
  BY EmptySeq DEF Init
<1> QED
  BY <1>1, <1>2 DEF Init, EntryInv, Types, AtSave, AtHandler, IrqTransparent, SyscallReturns,
       HandlerSeesFrame

(* User code changes registers only.                                        *)
LEMMA UserRunsKeeps == EntryInv /\ user_runs => EntryInv'
<1> SUFFICES ASSUME EntryInv, user_runs PROVE EntryInv'
  OBVIOUS
<1>1. UserRegs \in [Reg -> Word]
  BY Words DEF UserRegs, Names
<1>2. PICK rax \in Numbers, rsi \in Numbers, rbp \in Numbers :
        regs' = [UserRegs EXCEPT !["rax"] = Num(rax), !["rsi"] = Num(rsi), !["rbp"] = Num(rbp)]
  BY DEF user_runs
<1>3. Num(rax) \in Word /\ Num(rsi) \in Word /\ Num(rbp) \in Word
  BY Words, EntryAssumption
<1>4. regs' \in [Reg -> Word]
  BY <1>1, <1>2, <1>3
<1> QED
  BY <1>4 DEF user_runs, EntryInv, Types, AtSave, AtHandler, IrqTransparent, SyscallReturns,
       HandlerSeesFrame

(* An exception leaves its vector, its error code and the interrupted       *)
(* registers where the common stub expects them.                            *)
LEMMA IsrKeeps == EntryInv /\ isr => EntryInv'
<1> SUFFICES ASSUME EntryInv, isr PROVE EntryInv'
  OBVIOUS
<1>1. PICK v \in Vectors :
        /\ vector' = v
        /\ stack' = <<Num(v)>> \o dummy_code(v) \o error_code(v) \o iret_frame
  BY DEF isr
<1>2. v \in Nat
  BY EntryAssumption
<1>3. Num(v) \in Word /\ ErrorWord(v) \in Word
  BY <1>2, Words
<1>4. stack' = <<Num(v)>> \o <<ErrorWord(v)>> \o iret_frame
  <2>1. dummy_code(v) \o error_code(v) = <<ErrorWord(v)>>
    <3> DEFINE e == ErrorWord(v)
    <3>1. \/ dummy_code(v) = << >> /\ error_code(v) = <<e>>
          \/ dummy_code(v) = <<e>> /\ error_code(v) = << >>
      BY DEF dummy_code, error_code, ErrorWord, STUB_ERROR_CODE, CPU_ERROR_CODE
    <3>2. <<e>> \in Seq(Word)
      BY <1>3
    <3> HIDE DEF e
    <3>3. << >> \o <<e>> = <<e>> /\ <<e>> \o << >> = <<e>>
      BY <3>2
    <3> QED
      BY <3>1, <3>3 DEF e
  <2>2. dummy_code(v) \in Seq(Word) /\ error_code(v) \in Seq(Word) /\ <<Num(v)>> \in Seq(Word)
    BY <1>2, <1>3, Words DEF dummy_code, error_code, ErrorWord
  <2>3. <<Num(v)>> \o dummy_code(v) \o error_code(v) = <<Num(v)>> \o (dummy_code(v) \o error_code(v))
    BY <2>2
  <2> QED
    BY <1>1, <2>1, <2>3
<1>5. /\ regs \in [Reg -> Word] /\ regs' = regs /\ was' = regs
      /\ at' = "save" /\ path' = "exception"
  BY DEF isr, EntryInv, Types
<1>6. /\ iret_frame \in Seq(Word) /\ Len(iret_frame) = 5 /\ iret_frame[1] = regs["rip"]
  BY <1>5, IretFrame
<1> DEFINE head == <<Num(v)>> \o <<ErrorWord(v)>>
<1>7. head \in Seq(Word) /\ Len(head) = 2 /\ head[1] = Num(v) /\ head[2] = ErrorWord(v)
  BY <1>3
<1> HIDE DEF head
<1>8. /\ head \o iret_frame \in Seq(Word) /\ Len(head \o iret_frame) = Len(head) + Len(iret_frame)
      /\ \A i \in 1 .. Len(head) + Len(iret_frame) : (head \o iret_frame)[i] =
                     IF i <= Len(head) THEN head[i] ELSE iret_frame[i - Len(head)]
  BY <1>6, <1>7, ConcatProperties
<1>9. /\ stack' \in Seq(Word) /\ Len(stack') = 7
      /\ stack'[1] = Num(v) /\ stack'[2] = ErrorWord(v) /\ stack'[3] = regs["rip"]
  BY <1>4, <1>6, <1>7, <1>8 DEF head
<1>10. Types'
  BY <1>5, <1>9 DEF Types
<1>11. AtSave'
  <2>1. /\ stack'[1] = Num(vector') /\ stack'[2] = ErrorWord(vector') /\ stack'[3] = was'["rip"]
    BY <1>1, <1>5, <1>9
  <2> QED
    BY <1>5, <1>9, <2>1 DEF AtSave, ErrorWord, Num
<1>12. AtHandler' /\ IrqTransparent' /\ SyscallReturns' /\ HandlerSeesFrame'
  BY <1>5 DEF AtHandler, IrqTransparent, SyscallReturns, HandlerSeesFrame
<1> QED
  BY <1>10, <1>11, <1>12 DEF EntryInv

(* So does the timer interrupt, which has no error code.                    *)
LEMMA Irq0Keeps == EntryInv /\ irq0 => EntryInv'
<1> SUFFICES ASSUME EntryInv, irq0 PROVE EntryInv'
  OBVIOUS
<1>1. /\ regs \in [Reg -> Word] /\ regs' = regs /\ was' = regs
      /\ at' = "save" /\ path' = "irq" /\ stack' = <<Num(32)>> \o iret_frame
  BY DEF irq0, EntryInv, Types
<1>2. /\ iret_frame \in Seq(Word) /\ Len(iret_frame) = 5 /\ iret_frame[1] = regs["rip"]
      /\ iret_frame[3] = regs["rflags"] /\ iret_frame[4] = regs["rsp"]
  BY <1>1, IretFrame
<1> DEFINE head == <<Num(32)>>
<1>3. head \in Seq(Word) /\ Len(head) = 1
  BY Words
<1> HIDE DEF head
<1>4. /\ head \o iret_frame \in Seq(Word) /\ Len(head \o iret_frame) = Len(head) + Len(iret_frame)
      /\ \A i \in 1 .. Len(head) + Len(iret_frame) : (head \o iret_frame)[i] =
                     IF i <= Len(head) THEN head[i] ELSE iret_frame[i - Len(head)]
  BY <1>2, <1>3, ConcatProperties
<1>5. /\ stack' \in Seq(Word) /\ Len(stack') = 6
      /\ stack'[2] = regs["rip"] /\ stack'[4] = regs["rflags"] /\ stack'[5] = regs["rsp"]
  BY <1>1, <1>2, <1>3, <1>4 DEF head
<1>6. ReturnsTo(2)'
  BY <1>1, <1>5 DEF ReturnsTo
<1>7. Types' /\ AtSave'
  BY <1>1, <1>5, <1>6 DEF Types, AtSave
<1>8. AtHandler' /\ IrqTransparent' /\ SyscallReturns' /\ HandlerSeesFrame'
  BY <1>1 DEF AtHandler, IrqTransparent, SyscallReturns, HandlerSeesFrame
<1> QED
  BY <1>7, <1>8 DEF EntryInv

(* SYSCALL changes RCX and R11.                                             *)
LEMMA SyscallKeeps == EntryInv /\ syscall => EntryInv'
<1> SUFFICES ASSUME EntryInv, syscall PROVE EntryInv'
  OBVIOUS
<1>1. /\ regs \in [Reg -> Word] /\ was' = regs /\ at' = "save" /\ path' = "syscall"
      /\ regs' = [regs EXCEPT !["rcx"] = regs["rip"], !["r11"] = regs["rflags"]]
      /\ stack' = << >>
  BY DEF syscall, EntryInv, Types
<1>2. regs' \in [Reg -> Word] /\ stack' \in Seq(Word)
  BY <1>1, EmptySeq DEF Reg
<1> QED
  BY <1>1, <1>2 DEF EntryInv, Types, AtSave, AfterSyscall, AtHandler, IrqTransparent,
       SyscallReturns, HandlerSeesFrame

-----------------------------------------------------------------------------
(* Inside the kernel.                                                       *)

(* The common stubs push the interrupted registers above the frame.         *)
LEMMA GateSaveKeeps == EntryInv /\ gate_save => EntryInv'
<1> SUFFICES ASSUME EntryInv, gate_save PROVE EntryInv'
  OBVIOUS
<1>1. /\ at = "save" /\ path \in {"exception", "irq"} /\ at' = path
      /\ stack' = pushed(all_saved)
      /\ path' = path /\ regs' = regs /\ vector' = vector /\ was' = was /\ seen' = seen
  BY DEF gate_save
<1>2. /\ regs \in [Reg -> Word] /\ was \in [Reg -> Word] /\ stack \in Seq(Word)
  BY DEF EntryInv, Types
<1>3. /\ stack' \in Seq(Word) /\ Len(stack') = 15 + Len(stack)
      /\ \A i \in 1 .. 15 : stack'[i] = regs[all_saved[16 - i]]
      /\ \A i \in 1 .. Len(stack) : stack'[15 + i] = stack[i]
  BY <1>1, <1>2, PushedWords
<1>4. CASE path = "irq"
  <2>1. regs = was /\ Len(stack) = 6 /\ ReturnsTo(2)
    BY <1>1, <1>4 DEF EntryInv, AtSave
  <2>2. /\ Len(stack') = 21
        /\ stack'[17] = stack[2] /\ stack'[19] = stack[4] /\ stack'[20] = stack[5]
    BY <1>3, <2>1
  <2>3. Len(stack') = 21 /\ RegistersSaved' /\ ReturnsTo(17)'
    BY <1>1, <1>3, <2>1, <2>2 DEF RegistersSaved, ReturnsTo
  <2>4. Types' /\ AtSave'
    BY <1>1, <1>2, <1>3, <1>4 DEF Types, AtSave
  <2>5. AtHandler'
    BY <1>1, <1>4, <2>3 DEF AtHandler
  <2>6. IrqTransparent' /\ SyscallReturns' /\ HandlerSeesFrame'
    BY <1>1, <1>4 DEF IrqTransparent, SyscallReturns, HandlerSeesFrame
  <2> QED
    BY <2>4, <2>5, <2>6 DEF EntryInv
<1>5. CASE path = "exception"
  <2>1. /\ Len(stack) = 7
        /\ stack[1] = Num(vector) /\ stack[2] = ErrorWord(vector) /\ stack[3] = was["rip"]
    BY <1>1, <1>5 DEF EntryInv, AtSave
  <2>2. /\ Len(stack') = 22
        /\ stack'[16] = stack[1] /\ stack'[17] = stack[2] /\ stack'[18] = stack[3]
    BY <1>3, <2>1
  <2>3. /\ stack'[16] = Num(vector') /\ stack'[17] = ErrorWord(vector')
        /\ stack'[18] = was'["rip"]
    BY <1>1, <2>1, <2>2
  <2>4. Types' /\ AtSave'
    BY <1>1, <1>2, <1>3, <1>5 DEF Types, AtSave
  <2>5. AtHandler'
    BY <1>1, <1>5, <2>2, <2>3 DEF AtHandler, ErrorWord, Num
  <2>6. IrqTransparent' /\ SyscallReturns' /\ HandlerSeesFrame'
    BY <1>1, <1>5 DEF IrqTransparent, SyscallReturns, HandlerSeesFrame
  <2> QED
    BY <2>4, <2>5, <2>6 DEF EntryInv
<1> QED
  BY <1>1, <1>4, <1>5

(* unbound_syscall_entry pushes the registers with the user's RSP in R12.   *)
LEMMA SyscallSaveKeeps == EntryInv /\ syscall_save => EntryInv'
<1> SUFFICES ASSUME EntryInv, syscall_save PROVE EntryInv'
  OBVIOUS
<1>1. /\ at = "save" /\ path = "syscall" /\ at' = "syscall"
      /\ regs' = [regs EXCEPT !["r12"] = regs["rsp"]]
      /\ path' = path /\ was' = was
  BY DEF syscall_save
<1>2. /\ regs \in [Reg -> Word] /\ was \in [Reg -> Word] /\ regs = AfterSyscall
  BY <1>1 DEF EntryInv, Types, AtSave
<1>3. regs' = SyscallFrame /\ regs' \in [Reg -> Word]
  <2>1. regs["rsp"] = was["rsp"] /\ was["rsp"] \in Word
    BY <1>2 DEF AfterSyscall, Reg
  <2> QED
    BY <1>1, <1>2, <2>1 DEF SyscallFrame
<1>4. stack' = [i \in 1 .. 15 |-> regs'[syscall_saved[16 - i]]]
  BY SyscallOrders DEF syscall_save
<1>5. \A i \in 1 .. 15 : regs'[syscall_saved[16 - i]] \in Word
  BY <1>3, SyscallOrders DEF Reg
<1>6. stack' \in Seq(Word) /\ Len(stack') = 15
  BY <1>4, <1>5
<1>7. \A i \in 1 .. 15 : stack'[i] = SyscallFrame[syscall_saved[16 - i]]
  BY <1>3, <1>4
<1>8. SyscallFrame' = SyscallFrame
  BY <1>1 DEF SyscallFrame, AfterSyscall
<1>9. \A i \in 1 .. 15 : stack'[i] = (SyscallFrame')[syscall_saved[16 - i]]
  BY <1>7, <1>8
<1>10. Types' /\ AtSave'
  BY <1>1, <1>2, <1>3, <1>6 DEF Types, AtSave
<1>11. AtHandler'
  BY <1>1, <1>6, <1>9 DEF AtHandler
<1>12. IrqTransparent' /\ SyscallReturns' /\ HandlerSeesFrame'
  BY <1>1 DEF IrqTransparent, SyscallReturns, HandlerSeesFrame
<1> QED
  BY <1>10, <1>11, <1>12 DEF EntryInv

(* The exception handler is given the frame of the exception.               *)
LEMMA ExceptionHandlerKeeps == EntryInv /\ exception_handler => EntryInv'
<1> SUFFICES ASSUME EntryInv, exception_handler PROVE EntryInv'
  OBVIOUS
<1>1. /\ at = "exception" /\ at' = "restore" /\ regs' = called(Junk)
      /\ seen' = <<word(120), word(128), word(136)>>
      /\ path' = path /\ stack' = stack /\ vector' = vector /\ was' = was
  BY DEF exception_handler
<1>2. /\ path = "exception" /\ Len(stack) = 22
      /\ stack[16] = Num(vector) /\ stack[17] = ErrorWord(vector) /\ stack[18] = was["rip"]
  BY <1>1 DEF EntryInv, AtHandler
<1>3. regs' \in [Reg -> Word]
  BY <1>1, CalledType, Words DEF EntryInv, Types
<1>4. word(120) = stack[16] /\ word(128) = stack[17] /\ word(136) = stack[18]
  BY DEF word
<1>5. seen' = <<Num(vector), ErrorWord(vector), was["rip"]>>
  BY <1>1, <1>2, <1>4
<1>6. Types' /\ AtSave'
  BY <1>1, <1>3 DEF EntryInv, Types, AtSave
<1>7. AtHandler'
  BY <1>1, <1>2 DEF AtHandler
<1>8. IrqTransparent' /\ SyscallReturns'
  BY <1>1 DEF IrqTransparent, SyscallReturns
<1>9. HandlerSeesFrame'
  BY <1>1, <1>5 DEF HandlerSeesFrame, ErrorWord, Num
<1> QED
  BY <1>6, <1>7, <1>8, <1>9 DEF EntryInv

(* The timer handler leaves the stack alone.                                *)
LEMMA TimerHandlerKeeps == EntryInv /\ timer_handler => EntryInv'
<1> SUFFICES ASSUME EntryInv, timer_handler PROVE EntryInv'
  OBVIOUS
<1>1. /\ at = "irq" /\ at' = "restore" /\ regs' = called(Junk)
      /\ path' = path /\ stack' = stack /\ was' = was
  BY DEF timer_handler
<1>2. path = "irq" /\ Len(stack) = 21 /\ RegistersSaved /\ ReturnsTo(17)
  BY <1>1 DEF EntryInv, AtHandler
<1>3. regs' \in [Reg -> Word]
  BY <1>1, CalledType, Words DEF EntryInv, Types
<1>4. RegistersSaved' /\ ReturnsTo(17)'
  BY <1>1, <1>2 DEF RegistersSaved, ReturnsTo
<1>5. Types' /\ AtSave'
  BY <1>1, <1>3 DEF EntryInv, Types, AtSave
<1>6. AtHandler'
  BY <1>1, <1>2, <1>4 DEF AtHandler
<1>7. IrqTransparent' /\ SyscallReturns' /\ HandlerSeesFrame'
  BY <1>1, <1>2 DEF IrqTransparent, SyscallReturns, HandlerSeesFrame
<1> QED
  BY <1>5, <1>6, <1>7 DEF EntryInv

(* So does the dispatcher.                                                  *)
LEMMA SyscallDispatchKeeps == EntryInv /\ syscall_dispatch => EntryInv'
<1> SUFFICES ASSUME EntryInv, syscall_dispatch PROVE EntryInv'
  OBVIOUS
<1>1. /\ at = "syscall" /\ at' = "restore" /\ regs' = called(dispatch(word(56)))
      /\ path' = path /\ stack' = stack /\ was' = was
  BY DEF syscall_dispatch
<1>2. /\ path = "syscall" /\ Len(stack) = 15
      /\ \A i \in 1 .. 15 : stack[i] = SyscallFrame[syscall_saved[16 - i]]
  BY <1>1 DEF EntryInv, AtHandler
<1>3. dispatch(word(56)) \in Word
  <2>1. <<"version", 1>> \in Word /\ <<"max", 0>> \in Word
    BY DEF Word, Names
  <2> QED
    BY <2>1 DEF dispatch
<1>4. regs' \in [Reg -> Word]
  BY <1>1, <1>3, CalledType DEF EntryInv, Types
<1>5. SyscallFrame' = SyscallFrame
  BY <1>1 DEF SyscallFrame, AfterSyscall
<1>6. \A i \in 1 .. 15 : stack'[i] = (SyscallFrame')[syscall_saved[16 - i]]
  BY <1>1, <1>2, <1>5
<1>7. Types' /\ AtSave'
  BY <1>1, <1>4 DEF EntryInv, Types, AtSave
<1>8. AtHandler'
  BY <1>1, <1>2, <1>6 DEF AtHandler
<1>9. IrqTransparent' /\ SyscallReturns' /\ HandlerSeesFrame'
  BY <1>1, <1>2 DEF IrqTransparent, SyscallReturns, HandlerSeesFrame
<1> QED
  BY <1>7, <1>8, <1>9 DEF EntryInv

(* The synthetic frame has twenty-one words.                                *)
LEMMA InitializeInterruptContextKeeps ==
    EntryInv /\ initialize_interrupt_context => EntryInv'
<1> SUFFICES ASSUME EntryInv, initialize_interrupt_context PROVE EntryInv'
  OBVIOUS
<1> DEFINE zeros == [i \in 1 .. 15 |-> Num(0)]
           frame == <<Num(32), <<"entry", 0>>, <<"cs", 0>>, Num(514)>>
           reserve == <<Num(0), Num(0)>>
<1>1. /\ at' = "restore" /\ path' = "start" /\ regs' = regs /\ was' = started
      /\ stack' = zeros \o frame \o reserve
  BY DEF initialize_interrupt_context
<1>2. /\ Num(0) \in Word /\ Num(32) \in Word /\ Num(514) \in Word
      /\ <<"entry", 0>> \in Word /\ <<"cs", 0>> \in Word /\ <<"task_stack", 0>> \in Word
  BY Words DEF Names
<1>3. zeros \in Seq(Word) /\ Len(zeros) = 15
  BY <1>2
<1>4. frame \in Seq(Word) /\ Len(frame) = 4
  BY <1>2
<1>5. reserve \in Seq(Word) /\ Len(reserve) = 2
  BY <1>2
<1> HIDE DEF zeros, frame, reserve
<1>6. zeros \o frame \in Seq(Word) /\ Len(zeros \o frame) = 19
  <2>1. zeros \o frame \in Seq(Word) /\ Len(zeros \o frame) = Len(zeros) + Len(frame)
    BY <1>3, <1>4, ConcatProperties
  <2> QED
    BY <1>3, <1>4, <2>1
<1>7. stack' \in Seq(Word) /\ Len(stack') = 21
  <2> DEFINE words == zeros \o frame
  <2> HIDE DEF words
  <2>1. words \in Seq(Word) /\ Len(words) = 19
    BY <1>6 DEF words
  <2>2. words \o reserve \in Seq(Word) /\ Len(words \o reserve) = Len(words) + Len(reserve)
    BY <1>5, <2>1, ConcatProperties
  <2> QED
    BY <1>1, <1>5, <2>1, <2>2 DEF words
<1>8. started \in [Reg -> Word]
  BY <1>2 DEF started
<1>9. Types' /\ AtSave'
  BY <1>1, <1>7, <1>8 DEF EntryInv, Types, AtSave
<1>10. AtHandler' /\ IrqTransparent' /\ SyscallReturns' /\ HandlerSeesFrame'
  BY <1>1, <1>7 DEF AtHandler, IrqTransparent, SyscallReturns, HandlerSeesFrame
<1> QED
  BY <1>9, <1>10 DEF EntryInv

-----------------------------------------------------------------------------
(* The ways back.                                                           *)

(* The pops and IRETQ take RIP, RFLAGS and RSP from words 17, 19 and 20: a  *)
(* timer interrupt has them there.                                          *)
LEMMA GateReturnKeeps == EntryInv /\ gate_return => EntryInv'
<1> SUFFICES ASSUME EntryInv, gate_return PROVE EntryInv'
  OBVIOUS
<1> DEFINE frame == SubSeq(stack, 17, Len(stack))
           p == popped(Reverse(gate_pops))
<1>1. /\ at = "restore" /\ path \in {"exception", "irq", "start"} /\ at' = "resumed"
      /\ regs' = [p EXCEPT !["rip"] = frame[1], !["rflags"] = frame[3], !["rsp"] = frame[4]]
      /\ stack' = << >> /\ path' = path /\ was' = was
  BY DEF gate_return
<1>2. /\ regs \in [Reg -> Word] /\ was \in [Reg -> Word] /\ stack \in Seq(Word)
      /\ Len(stack) = 21 \/ Len(stack) = 22
  BY <1>1 DEF EntryInv, Types, AtHandler
<1>3. \A i \in 17 .. Len(stack) : stack[i] \in Word
  BY <1>2, ElementOfSeq
<1>4. frame[1] = stack[17] /\ frame[3] = stack[19] /\ frame[4] = stack[20]
  <2>1. \A i \in 1 .. Len(stack) - 17 + 1 : frame[i] = stack[17 + i - 1]
    BY <1>2, <1>3, SubSeqProperties
  <2> QED
    BY <1>2, <2>1
<1>5. stack[17] \in Word /\ stack[19] \in Word /\ stack[20] \in Word
  BY <1>2, <1>3
<1>6. /\ p \in [Reg -> Word]
      /\ RegistersSaved => \A r \in GPR : p[r] = was[r]
  <2>1. CASE Len(stack) = 21
    <3>1. Len(stack) >= 15
      BY <2>1
    <3> QED
      BY <1>2, <3>1, GatePops
  <2>2. CASE Len(stack) = 22
    <3>1. Len(stack) >= 15
      BY <2>2
    <3> QED
      BY <1>2, <3>1, GatePops
  <2> QED
    BY <1>2, <2>1, <2>2
<1> HIDE DEF frame, p
<1>7. regs' \in [Reg -> Word] /\ stack' \in Seq(Word)
  BY <1>1, <1>4, <1>5, <1>6, EmptySeq
<1>8. ASSUME path = "irq" PROVE regs' = was
  <2>1. RegistersSaved /\ ReturnsTo(17)
    BY <1>1, <1>8 DEF EntryInv, AtHandler
  <2>2. frame[1] = was["rip"] /\ frame[3] = was["rflags"] /\ frame[4] = was["rsp"]
    BY <1>4, <2>1 DEF ReturnsTo
  <2>3. \A r \in GPR : regs'[r] = was[r]
    BY <1>1, <1>6, <2>1 DEF GPR, Reg
  <2>4. regs'["rip"] = was["rip"] /\ regs'["rflags"] = was["rflags"] /\ regs'["rsp"] = was["rsp"]
    BY <1>1, <1>6, <2>2 DEF Reg
  <2>5. \A r \in Reg : regs'[r] = was[r]
    BY <2>3, <2>4 DEF Reg
  <2> QED
    BY <1>2, <1>7, <2>5
<1>9. Types' /\ AtSave' /\ AtHandler'
  BY <1>1, <1>2, <1>7 DEF EntryInv, Types, AtSave, AtHandler
<1>10. IrqTransparent' /\ SyscallReturns' /\ HandlerSeesFrame'
  BY <1>1, <1>8 DEF IrqTransparent, SyscallReturns, HandlerSeesFrame
<1> QED
  BY <1>9, <1>10 DEF EntryInv

(* The pops and SYSRET give the user all registers but four.                *)
LEMMA SyscallReturnKeeps == EntryInv /\ syscall_return => EntryInv'
<1> SUFFICES ASSUME EntryInv, syscall_return PROVE EntryInv'
  OBVIOUS
<1> DEFINE p == popped(syscall_pops)
<1>1. /\ at = "restore" /\ path = "syscall" /\ at' = "resumed"
      /\ regs' = [p EXCEPT !["rsp"] = p["r12"], !["rip"] = p["rcx"], !["rflags"] = p["r11"]]
      /\ stack' = << >> /\ path' = path /\ was' = was
  BY DEF syscall_return
<1>2. /\ regs \in [Reg -> Word] /\ was \in [Reg -> Word] /\ stack \in Seq(Word)
      /\ Len(stack) = 15
      /\ \A i \in 1 .. 15 : stack[i] = SyscallFrame[syscall_saved[16 - i]]
  BY <1>1 DEF EntryInv, Types, AtHandler
<1>3. p \in [Reg -> Word] /\ \A r \in GPR \ {"rax"} : p[r] = SyscallFrame[r]
  BY <1>2, SyscallPops
<1> HIDE DEF p
<1>4. /\ SyscallFrame["r12"] = was["rsp"] /\ SyscallFrame["rcx"] = was["rip"]
      /\ SyscallFrame["r11"] = was["rflags"]
      /\ \A r \in GPR \ {"rcx", "r11", "r12"} : SyscallFrame[r] = was[r]
  BY <1>2 DEF SyscallFrame, AfterSyscall, Reg, GPR
<1>5. p["r12"] = was["rsp"] /\ p["rcx"] = was["rip"] /\ p["r11"] = was["rflags"]
  BY <1>3, <1>4 DEF GPR
<1>6. regs' \in [Reg -> Word] /\ stack' \in Seq(Word)
  BY <1>1, <1>2, <1>3, <1>5, EmptySeq DEF Reg
<1>7. /\ regs'["rsp"] = was["rsp"] /\ regs'["rip"] = was["rip"] /\ regs'["rflags"] = was["rflags"]
      /\ \A r \in GPR : regs'[r] = p[r]
  BY <1>1, <1>3, <1>5 DEF Reg, GPR
<1>8. \A r \in Reg \ {"rax", "rcx", "r11", "r12"} : regs'[r] = was[r]
  BY <1>3, <1>4, <1>7 DEF Reg
<1>9. Types' /\ AtSave' /\ AtHandler'
  BY <1>1, <1>2, <1>6 DEF EntryInv, Types, AtSave, AtHandler
<1>10. IrqTransparent' /\ SyscallReturns' /\ HandlerSeesFrame'
  BY <1>1, <1>8 DEF IrqTransparent, SyscallReturns, HandlerSeesFrame
<1> QED
  BY <1>9, <1>10 DEF EntryInv

(* What was interrupted goes on with registers of its own.                  *)
LEMMA GoOnKeeps == EntryInv /\ go_on => EntryInv'
<1> SUFFICES ASSUME EntryInv, go_on PROVE EntryInv'
  OBVIOUS
<1>1. UserRegs \in [Reg -> Word]
  BY Words DEF UserRegs, Names
<1> QED
  BY <1>1 DEF go_on, EntryInv, Types, AtSave, AtHandler, IrqTransparent, SyscallReturns,
       HandlerSeesFrame

-----------------------------------------------------------------------------
(* EntryInv is an inductive invariant of the entry paths.                   *)
THEOREM EntryInvariance == Spec => []EntryInv
<1>1. EntryInv /\ [Next]_vars => EntryInv'
  <2> SUFFICES ASSUME EntryInv, [Next]_vars PROVE EntryInv'
    OBVIOUS
  <2>1. CASE UNCHANGED vars
    BY <2>1, ZenonT(60)
    DEF vars, EntryInv, Types, AtSave, AtHandler, RegistersSaved, ReturnsTo, ErrorWord,
         SyscallFrame, AfterSyscall, IrqTransparent, SyscallReturns, HandlerSeesFrame
  <2> QED
    BY <2>1, UserRunsKeeps, IsrKeeps, Irq0Keeps, SyscallKeeps, GateSaveKeeps, SyscallSaveKeeps,
       ExceptionHandlerKeeps, TimerHandlerKeeps, SyscallDispatchKeeps,
       InitializeInterruptContextKeeps, GateReturnKeeps, SyscallReturnKeeps, GoOnKeeps DEF Next
<1> QED
  BY <1>1, EntryInit, PTL DEF Spec

(* A timer interrupt is never noticed by what it interrupts: the pops of    *)
(* unbound_irq_common and IRETQ put every register back.                    *)
THEOREM IrqIsTransparent == Spec => []IrqTransparent
<1>1. EntryInv => IrqTransparent
  BY DEF EntryInv
<1> QED
  BY <1>1, EntryInvariance, PTL

(* A system call comes back to the user's RIP, RSP and RFLAGS with every    *)
(* register but RAX, RCX, R11 and R12 as it was.                            *)
THEOREM SyscallComesBack == Spec => []SyscallReturns
<1>1. EntryInv => SyscallReturns
  BY DEF EntryInv
<1> QED
  BY <1>1, EntryInvariance, PTL

(* unbound_exception_handler is given the vector, the error code and the    *)
(* RIP of the exception it is called for, with either kind of stub.         *)
THEOREM HandlerIsGivenFrame == Spec => []HandlerSeesFrame
<1>1. EntryInv => HandlerSeesFrame
  BY DEF EntryInv
<1> QED
  BY <1>1, EntryInvariance, PTL
=============================================================================
