-------------------------- MODULE Trampoline_proofs --------------------------
(***************************************************************************)
(* What the code the passes insert leaves of the program: for every site,  *)
(* every order of the registers and every choice of free ones, its         *)
(* registers, flags and stack are as they were, a memory operand is        *)
(* computed from the program's own values, the red zone is untouched and   *)
(* every call is made with an aligned stack.                               *)
(*                                                                         *)
(* The machine runs straight-line code, so the invariant has one state per *)
(* inserted instruction: the code that is left (Left), the stack pointer,  *)
(* the slots that were written, and the registers that are lent (At).  A   *)
(* piece a site does not need is empty code, and its state is the next     *)
(* one.                                                                    *)
(***************************************************************************)
EXTENDS Trampoline, DataLemmas

\* The inserted instructions, and the code that is left to execute.
Instructions ==
  {Push(r) : r \in GPRegs} \cup {Pop(r) : r \in GPRegs} \cup {Lea(n) : n \in Int}
  \cup {Add(n) : n \in Int} \cup {Mov(r, s) : r \in GPRegs, s \in GPRegs}
  \cup {Work(R) : R \in SUBSET GPRegs}
  \cup {<<"pushf">>, <<"popf">>, <<"lahf">>, <<"seto">>, <<"add7f">>, <<"sahf">>,
        <<"operand">>, <<"call">>, <<"return">>}
Codes == Seq(Instructions)
Left(code) == /\ pc \in Nat \ {0} /\ pc + Len(code) = Len(Code) + 1
              /\ \A j \in 1..Len(code) : Code[pc - 1 + j] = code[j]

\* Every instruction is one.
LEMMA CodeTypes ==
  /\ \A r \in GPRegs : <<Push(r)>> \in Codes /\ <<Pop(r)>> \in Codes
  /\ \A n \in Int : <<Lea(n)>> \in Codes /\ <<Add(n)>> \in Codes
  /\ \A r, s \in GPRegs : <<Mov(r, s)>> \in Codes
  /\ \A R \in SUBSET GPRegs : <<Work(R)>> \in Codes
  /\ <<<<"pushf">>>> \in Codes /\ <<<<"popf">>>> \in Codes /\ <<<<"lahf">>>> \in Codes
  /\ <<<<"seto">>>> \in Codes /\ <<<<"add7f">>>> \in Codes /\ <<<<"sahf">>>> \in Codes
  /\ <<<<"operand">>>> \in Codes /\ <<<<"call">>>> \in Codes /\ <<<<"return">>>> \in Codes
  /\ <<>> \in Codes
<1>1. \A i \in Instructions : <<i>> \in Codes
  <2> HIDE DEF Instructions
  <2> QED
    BY DEF Codes
<1>2. /\ \A r \in GPRegs : Push(r) \in Instructions /\ Pop(r) \in Instructions
      /\ \A n \in Int : Lea(n) \in Instructions /\ Add(n) \in Instructions
      /\ \A r, s \in GPRegs : Mov(r, s) \in Instructions
      /\ \A R \in SUBSET GPRegs : Work(R) \in Instructions
      /\ {<<"pushf">>, <<"popf">>, <<"lahf">>, <<"seto">>, <<"add7f">>, <<"sahf">>,
          <<"operand">>, <<"call">>, <<"return">>} \subseteq Instructions
  <2> HIDE DEF Push, Pop, Lea, Add, Mov, Work
  <2> QED
    BY DEF Instructions
<1>3. <<>> \in Codes
  BY DEF Codes
<1> QED
  BY <1>1, <1>2, <1>3

\* Joining pieces of code.
LEMMA CodeJoins ==
  /\ \A a, b \in Codes : a \o b \in Codes
  /\ \A a, b, c \in Codes : (a \o b) \o c = a \o (b \o c)
  /\ \A a \in Codes : <<>> \o a = a /\ a \o <<>> = a
  /\ \A a \in Codes : \A b : When(b, a) \in Codes
<1>1. \A a, b \in Codes : a \o b \in Codes
  BY ConcatProperties DEF Codes
<1>2. \A a, b, c \in Codes : (a \o b) \o c = a \o (b \o c)
  BY ConcatAssociative DEF Codes
<1>3. \A a \in Codes : <<>> \o a = a /\ a \o <<>> = a
  BY ConcatEmptySeq DEF Codes
<1>4. \A a \in Codes : \A b : When(b, a) \in Codes
  BY CodeTypes DEF When
<1> QED
  BY <1>1, <1>2, <1>3, <1>4

\* Joining two pieces, and regrouping three.
Regroups(x, y, z) == (x \o y) \o z = x \o (y \o z)
LEMMA Joined == \A x, y \in Codes : x \o y \in Codes
BY CodeJoins

LEMMA CodeRegroups == \A x, y, z \in Codes : Regroups(x, y, z)
BY CodeJoins DEF Regroups

\* Optional code.
LEMMA WhenCode ==
  /\ \A a \in Codes : \A b, c : ~b => When(b, a) \o c = <<>> \o c
  /\ \A a \in Codes : \A b, c : b => When(b, a) \o c = a \o c
BY DEF When

\* The next instruction is the first of what is left.
LEMMA LeftStep ==
  ASSUME NEW i, <<i>> \in Codes, NEW R \in Codes, Left(<<i>> \o R)
  PROVE  ~Finished /\ Code[pc] = i /\ (Proceed => Left(R)')
<1> DEFINE c == <<i>> \o R
<1>1. i \in Instructions
  <2>1. <<i>>[1] = i /\ Len(<<i>>) = 1
    OBVIOUS
  <2> HIDE DEF Instructions
  <2>2. \A s \in Seq(Instructions) : Len(s) = 1 => s[1] \in Instructions
    OBVIOUS
  <2> QED
    BY <2>1, <2>2 DEF Codes
<1>2. Len(R) \in Nat /\ Len(c) = 1 + Len(R) /\ c[1] = i /\ \A j \in 1..Len(R) : c[1 + j] = R[j]
  <2> HIDE DEF Instructions
  <2> QED
    BY <1>1 DEF Codes
<1> HIDE DEF c
<1>3. /\ pc \in Nat \ {0} /\ pc + Len(c) = Len(Code) + 1
      /\ \A j \in 1..Len(c) : Code[pc - 1 + j] = c[j]
  BY DEF Left, c
<1>4. 1 \in 1..Len(c) /\ \A j \in 1..Len(R) : 1 + j \in 1..Len(c) /\ pc - 1 + (1 + j) = pc + 1 - 1 + j
  BY <1>2, <1>3
<1>5. Code[pc] = i
  BY <1>2, <1>3, <1>4
<1>6. ~Finished
  BY <1>2, <1>3 DEF Finished
<1>7. ASSUME Proceed PROVE Left(R)'
  <2>1. pc' = pc + 1 /\ Code' = Code
    BY <1>7 DEF Proceed, Code
  <2>2. pc' + Len(R) = Len(Code) + 1 /\ pc' \in Nat \ {0}
    BY <1>2, <1>3, <2>1
  <2>3. \A j \in 1..Len(R) : Code[pc' - 1 + j] = R[j]
    BY <1>2, <1>3, <1>4, <2>1
  <2> QED
    BY <2>1, <2>2, <2>3 DEF Left
<1> QED
  BY <1>5, <1>6, <1>7

\* Nothing is left when the code is finished.
LEMMA LeftNone == Left(<<>>) => Finished
BY DEF Left, Finished
-----------------------------------------------------------------------------

Parts     == (GPRegs \cup {"rflags", "junk"}) \X {"top", "ah", "al", "low", "of", "junk"}
RegWords  == [top : Parts, ah : Parts, al : Parts]
FlagWords == [low : Parts, of : Parts]

\* What a site must leave alone on the stack: the frame, and the red zone where
\* the pass promises it.
Spared == site.code \in {"asan", "rep_movs"} /\ IsLeaf(site.base)
Own == IF Spared THEN Frame \cup RedZone ELSE Frame

\* The stack pointer is d, and the registers the program needs hold its values,
\* except those in lent.
Machine(lent, d) ==
  /\ rsp = d /\ regs \in [GPRegs -> RegWords] /\ flags \in FlagWords
  /\ mem = [k \in StackSlots |-> mem[k]]
  /\ \A r \in GPRegs \ (site.free \cup lent) : regs[r] = ProgramReg(r)
  /\ \A k \in Own : mem[k] = ProgramSlot(k)
FlagsIntact == "rflags" \notin site.free => flags = ProgramFlags

\* The values of the program are words.
LEMMA ProgramWords ==
  /\ \A r \in GPRegs : ProgramReg(r) \in RegWords
  /\ ProgramFlags \in FlagWords /\ JunkReg \in RegWords /\ JunkFlags \in FlagWords
BY DEF ProgramReg, ProgramFlags, JunkReg, JunkFlags, Junk, RegWords, FlagWords, Parts

\* The slots of the program.
LEMMA OwnSlots ==
  /\ Own \subseteq -16..2 /\ Own \subseteq StackSlots
  /\ ~Spared => Own \subseteq 0..2
  /\ site' = site => Own' = Own /\ Spared' = Spared
<1>1. Own \subseteq -16..2 /\ (~Spared => Own \subseteq 0..2)
  <2>1. 0..2 \subseteq -16..2 /\ (0..2) \cup (-16..-1) \subseteq -16..2
    OBVIOUS
  <2> QED
    BY <2>1 DEF Own, Frame, RedZone
<1>2. -16..2 \subseteq StackSlots
  BY DEF StackSlots
<1>3. site' = site => Own' = Own /\ Spared' = Spared
  BY DEF Own, Spared
<1> QED
  BY <1>1, <1>2, <1>3

\* A step of the program that is not a signal executes the next instruction.
LEMMA NextIs ==
  ASSUME NEW i, <<i>> \in Codes, NEW R \in Codes, Left(<<i>> \o R), MachineNext, ~Signal
  PROVE  /\ Left(R)' /\ site' = site /\ Arg = i[2]
         /\ i[1] = "push" => DoPush
         /\ i[1] = "pop" => DoPop
         /\ i[1] = "pushf" => DoPushf
         /\ i[1] = "popf" => DoPopf
         /\ i[1] = "lea" => DoLea
         /\ i[1] = "add" => DoAdd
         /\ i[1] = "mov" => DoMov
         /\ i[1] = "work" => DoWork
         /\ i[1] = "lahf" => DoLahf
         /\ i[1] = "seto" => DoSeto
         /\ i[1] = "add7f" => DoAdd7f
         /\ i[1] = "sahf" => DoSahf
         /\ i[1] = "operand" => DoOperand
         /\ i[1] = "call" => DoCall
         /\ i[1] = "return" => DoReturn
<1>1. ~Finished /\ Code[pc] = i /\ (Proceed => Left(R)')
  BY LeftStep
<1>2. \A op : Executing(op) => i[1] = op
  BY <1>1 DEF Executing
<1>3. \/ DoPush \/ DoPop \/ DoPushf \/ DoPopf \/ DoLea \/ DoAdd \/ DoMov \/ DoWork
      \/ DoLahf \/ DoSeto \/ DoAdd7f \/ DoSahf \/ DoOperand \/ DoCall \/ DoReturn
  BY DEF MachineNext
<1>4. Proceed
  BY <1>3 DEF DoPush, DoPop, DoPushf, DoPopf, DoLea, DoAdd, DoMov, DoWork, DoLahf, DoSeto,
              DoAdd7f, DoSahf, DoOperand, DoCall, DoReturn
<1>5. site' = site /\ Arg = i[2]
  BY <1>1, <1>4 DEF Proceed, Arg
<1>6. /\ DoPush => i[1] = "push"
      /\ DoPop => i[1] = "pop"
      /\ DoPushf => i[1] = "pushf"
      /\ DoPopf => i[1] = "popf"
      /\ DoLea => i[1] = "lea"
      /\ DoAdd => i[1] = "add"
      /\ DoMov => i[1] = "mov"
      /\ DoWork => i[1] = "work"
      /\ DoLahf => i[1] = "lahf"
      /\ DoSeto => i[1] = "seto"
      /\ DoAdd7f => i[1] = "add7f"
      /\ DoSahf => i[1] = "sahf"
      /\ DoOperand => i[1] = "operand"
      /\ DoCall => i[1] = "call"
      /\ DoReturn => i[1] = "return"
  BY <1>2 DEF DoPush, DoPop, DoPushf, DoPopf, DoLea, DoAdd, DoMov, DoWork, DoLahf, DoSeto,
              DoAdd7f, DoSahf, DoOperand, DoCall, DoReturn
<1> QED
  BY <1>1, <1>3, <1>4, <1>5, <1>6

\* A signal leaves alone what lies at most sixteen slots below the stack pointer.
LEMMA SignalStep ==
  ASSUME NEW lent, NEW d \in Int, d <= 0, Machine(lent, d), Signal
  PROVE  /\ Machine(lent, d)' /\ UNCHANGED <<site, regs, flags>>
         /\ \A c : Left(c) => Left(c)'
         /\ \A k \in StackSlots : k >= d - 16 => mem'[k] = mem[k]
<1>1. /\ UNCHANGED <<site, pc, regs, flags, rsp>>
      /\ mem' = [k \in StackSlots |-> IF k < rsp - 16 THEN JunkReg ELSE mem[k]]
  BY DEF Signal
<1>2. rsp = d
  BY DEF Machine
<1>3. \A k \in StackSlots : k >= d - 16 => mem'[k] = mem[k]
  BY <1>1, <1>2 DEF StackSlots
<1>4. mem' = [k \in StackSlots |-> mem'[k]]
  BY <1>1
<1>5. Own' = Own /\ Own \subseteq -16..2 /\ Own \subseteq StackSlots
  BY <1>1, OwnSlots
<1>6. \A k \in Own : mem'[k] = ProgramSlot(k)
  <2>1. \A k \in Own : k >= d - 16 /\ k \in StackSlots
    BY <1>5
  <2> QED
    BY <1>3, <2>1 DEF Machine
<1>7. Machine(lent, d)'
  BY <1>1, <1>4, <1>5, <1>6 DEF Machine
<1>8. \A c : Left(c) => Left(c)'
  BY <1>1 DEF Left, Code
<1> QED
  BY <1>1, <1>3, <1>7, <1>8

\* The instructions, one by one.
LEMMA PushStep ==
  ASSUME NEW r \in GPRegs, NEW R \in Codes, Left(<<Push(r)>> \o R), MachineNext, ~Signal,
         NEW lent, NEW d \in Int, Machine(lent, d), d - 1 \in StackSlots \ Own
  PROVE  /\ Left(R)' /\ Machine(lent, d - 1)' /\ UNCHANGED <<site, regs, flags>>
         /\ mem'[d - 1] = regs[r] /\ \A k \in StackSlots : k # d - 1 => mem'[k] = mem[k]
<1>1. /\ Left(R)' /\ site' = site /\ Arg = r /\ DoPush
  <2>1. Push(r)[1] = "push" /\ Push(r)[2] = r /\ <<Push(r)>> \in Codes
    BY CodeTypes DEF Push
  <2> QED
    BY <2>1, NextIs
<1>2. rsp = d /\ rsp' = d - 1 /\ mem' = [mem EXCEPT ![d - 1] = regs[r]] /\ UNCHANGED <<regs, flags>>
  BY <1>1 DEF DoPush, Machine
<1>3. mem = [k \in StackSlots |-> mem[k]]
  BY DEF Machine
<1>4. /\ mem' = [k \in StackSlots |-> mem'[k]] /\ mem'[d - 1] = regs[r]
      /\ \A k \in StackSlots : k # d - 1 => mem'[k] = mem[k]
  BY <1>2, <1>3
<1>5. Own' = Own /\ Own \subseteq StackSlots
  BY <1>1, OwnSlots
<1>6. Machine(lent, d - 1)'
  BY <1>1, <1>2, <1>4, <1>5 DEF Machine
<1> QED
  BY <1>1, <1>2, <1>4, <1>6

LEMMA PushfStep ==
  ASSUME NEW R \in Codes, Left(<<<<"pushf">>>> \o R), MachineNext, ~Signal,
         NEW lent, NEW d \in Int, Machine(lent, d), d - 1 \in StackSlots \ Own
  PROVE  /\ Left(R)' /\ Machine(lent, d - 1)' /\ UNCHANGED <<site, regs, flags>>
         /\ mem'[d - 1] = flags /\ \A k \in StackSlots : k # d - 1 => mem'[k] = mem[k]
<1>1. /\ Left(R)' /\ site' = site /\ DoPushf
  BY CodeTypes, NextIs
<1>2. rsp = d /\ rsp' = d - 1 /\ mem' = [mem EXCEPT ![d - 1] = flags] /\ UNCHANGED <<regs, flags>>
  BY <1>1 DEF DoPushf, Machine
<1>3. mem = [k \in StackSlots |-> mem[k]]
  BY DEF Machine
<1>4. /\ mem' = [k \in StackSlots |-> mem'[k]] /\ mem'[d - 1] = flags
      /\ \A k \in StackSlots : k # d - 1 => mem'[k] = mem[k]
  BY <1>2, <1>3
<1>5. Own' = Own /\ Own \subseteq StackSlots
  BY <1>1, OwnSlots
<1>6. Machine(lent, d - 1)'
  BY <1>1, <1>2, <1>4, <1>5 DEF Machine
<1> QED
  BY <1>1, <1>2, <1>4, <1>6

LEMMA PopStep ==
  ASSUME NEW r \in GPRegs, NEW R \in Codes, Left(<<Pop(r)>> \o R), MachineNext, ~Signal,
         NEW lent, NEW d \in Int, Machine(lent, d), mem[d] \in RegWords
  PROVE  /\ Left(R)' /\ UNCHANGED <<site, flags, mem>> /\ Machine(lent \cup {r}, d + 1)'
         /\ (r \notin site.free => mem[d] = ProgramReg(r)) => Machine(lent \ {r}, d + 1)'
         /\ regs'[r] = mem[d] /\ \A q \in GPRegs : q # r => regs'[q] = regs[q]
<1>1. /\ Left(R)' /\ site' = site /\ Arg = r /\ DoPop
  <2>1. Pop(r)[1] = "pop" /\ Pop(r)[2] = r /\ <<Pop(r)>> \in Codes
    BY CodeTypes DEF Pop
  <2> QED
    BY <2>1, NextIs
<1>2. rsp = d /\ rsp' = d + 1 /\ regs' = [regs EXCEPT ![r] = mem[d]] /\ UNCHANGED <<flags, mem>>
  BY <1>1 DEF DoPop, Machine
<1>3. regs \in [GPRegs -> RegWords]
  BY DEF Machine
<1>4. /\ regs' \in [GPRegs -> RegWords] /\ regs'[r] = mem[d]
      /\ \A q \in GPRegs : q # r => regs'[q] = regs[q]
  BY <1>2, <1>3
<1>5. Own' = Own
  BY <1>1, OwnSlots
<1>6. Machine(lent \cup {r}, d + 1)'
  BY <1>1, <1>2, <1>4, <1>5 DEF Machine
<1>7. (r \notin site.free => mem[d] = ProgramReg(r)) => Machine(lent \ {r}, d + 1)'
  BY <1>1, <1>2, <1>4, <1>5 DEF Machine
<1> QED
  BY <1>1, <1>2, <1>4, <1>6, <1>7

LEMMA PopfStep ==
  ASSUME NEW R \in Codes, Left(<<<<"popf">>>> \o R), MachineNext, ~Signal,
         NEW lent, NEW d \in Int, Machine(lent, d), mem[d] = ProgramFlags
  PROVE  /\ Left(R)' /\ UNCHANGED <<site, regs, mem>> /\ Machine(lent, d + 1)'
         /\ flags' = ProgramFlags
<1>1. /\ Left(R)' /\ site' = site /\ DoPopf
  BY CodeTypes, NextIs
<1>2. rsp = d /\ rsp' = d + 1 /\ flags' = ProgramFlags /\ UNCHANGED <<regs, mem>>
  BY <1>1 DEF DoPopf, Machine
<1>3. Own' = Own
  BY <1>1, OwnSlots
<1> QED
  BY <1>1, <1>2, <1>3, ProgramWords DEF Machine

LEMMA LeaStep ==
  ASSUME NEW n \in Int, NEW R \in Codes, Left(<<Lea(n)>> \o R), MachineNext, ~Signal,
         NEW lent, NEW d \in Int, Machine(lent, d)
  PROVE  /\ Left(R)' /\ UNCHANGED <<site, regs, flags, mem>> /\ Machine(lent, d + n)'
<1>1. /\ Left(R)' /\ site' = site /\ Arg = n /\ DoLea
  <2>1. Lea(n)[1] = "lea" /\ Lea(n)[2] = n /\ <<Lea(n)>> \in Codes
    BY CodeTypes DEF Lea
  <2> QED
    BY <2>1, NextIs
<1>2. rsp = d /\ rsp' = d + n /\ UNCHANGED <<regs, flags, mem>>
  BY <1>1 DEF DoLea, Machine
<1>3. Own' = Own
  BY <1>1, OwnSlots
<1> QED
  BY <1>1, <1>2, <1>3 DEF Machine

LEMMA AddStep ==
  ASSUME NEW n \in Int, NEW R \in Codes, Left(<<Add(n)>> \o R), MachineNext, ~Signal,
         NEW lent, NEW d \in Int, Machine(lent, d)
  PROVE  /\ Left(R)' /\ UNCHANGED <<site, regs, mem>> /\ Machine(lent, d + n)'
<1>1. /\ Left(R)' /\ site' = site /\ Arg = n /\ DoAdd
  <2>1. Add(n)[1] = "add" /\ Add(n)[2] = n /\ <<Add(n)>> \in Codes
    BY CodeTypes DEF Add
  <2> QED
    BY <2>1, NextIs
<1>2. rsp = d /\ rsp' = d + n /\ flags' = JunkFlags /\ UNCHANGED <<regs, mem>>
  BY <1>1 DEF DoAdd, Machine
<1>3. Own' = Own
  BY <1>1, OwnSlots
<1> QED
  BY <1>1, <1>2, <1>3, ProgramWords DEF Machine

LEMMA MovStep ==
  ASSUME NEW r \in GPRegs, NEW q \in GPRegs, NEW R \in Codes, Left(<<Mov(r, q)>> \o R),
         MachineNext, ~Signal, NEW lent, NEW d \in Int, Machine(lent, d)
  PROVE  /\ Left(R)' /\ UNCHANGED <<site, flags, mem>> /\ Machine(lent \cup {q}, d)'
         /\ (q \notin site.free => regs[r] = ProgramReg(q)) => Machine(lent \ {q}, d)'
         /\ regs'[q] = regs[r] /\ \A p \in GPRegs : p # q => regs'[p] = regs[p]
<1>1. <<Mov(r, q)>> \in Codes /\ Mov(r, q)[1] = "mov" /\ Mov(r, q)[2] = r /\ Mov(r, q)[3] = q
  BY CodeTypes DEF Mov
<1>2. Left(R)' /\ site' = site /\ Arg = r /\ DoMov
  BY <1>1, NextIs
<1>3. Code[pc] = Mov(r, q)
  BY <1>1, LeftStep
<1>4. rsp = d /\ rsp' = d /\ regs' = [regs EXCEPT ![q] = regs[r]] /\ UNCHANGED <<flags, mem>>
  BY <1>1, <1>2, <1>3 DEF DoMov, Machine
<1>5. regs \in [GPRegs -> RegWords]
  BY DEF Machine
<1>6. /\ regs' \in [GPRegs -> RegWords] /\ regs'[q] = regs[r]
      /\ \A p \in GPRegs : p # q => regs'[p] = regs[p]
  BY <1>4, <1>5
<1>7. Own' = Own
  BY <1>2, OwnSlots
<1>8. Machine(lent \cup {q}, d)'
  BY <1>2, <1>4, <1>6, <1>7 DEF Machine
<1>9. (q \notin site.free => regs[r] = ProgramReg(q)) => Machine(lent \ {q}, d)'
  BY <1>2, <1>4, <1>6, <1>7 DEF Machine
<1> QED
  BY <1>2, <1>4, <1>6, <1>8, <1>9

LEMMA WorkStep ==
  ASSUME NEW W \in SUBSET GPRegs, NEW R \in Codes, Left(<<Work(W)>> \o R),
         MachineNext, ~Signal, NEW lent, NEW d \in Int, Machine(lent, d)
  PROVE  /\ Left(R)' /\ UNCHANGED <<site, mem>> /\ Machine(lent \cup W, d)'
<1>1. /\ Left(R)' /\ site' = site /\ Arg = W /\ DoWork
  <2>1. Work(W)[1] = "work" /\ Work(W)[2] = W /\ <<Work(W)>> \in Codes
    BY CodeTypes DEF Work
  <2> QED
    BY <2>1, NextIs
<1>2. /\ rsp = d /\ rsp' = d /\ flags' = JunkFlags /\ UNCHANGED mem
      /\ regs' = [r \in GPRegs |-> IF r \in W THEN JunkReg ELSE regs[r]]
  BY <1>1 DEF DoWork, Machine
<1>3. regs' \in [GPRegs -> RegWords] /\ \A r \in GPRegs \ W : regs'[r] = regs[r]
  BY <1>2, ProgramWords DEF Machine
<1>4. Own' = Own
  BY <1>1, OwnSlots
<1> QED
  BY <1>1, <1>2, <1>3, <1>4, ProgramWords DEF Machine

LEMMA OperandStep ==
  ASSUME NEW R \in Codes, Left(<<<<"operand">>>> \o R), MachineNext, ~Signal,
         NEW lent, NEW d \in Int, Machine(lent, d)
  PROVE  Left(R)' /\ UNCHANGED <<site, regs, flags, mem>> /\ Machine(lent, d)'
<1>1. /\ Left(R)' /\ site' = site /\ DoOperand
  BY CodeTypes, NextIs
<1>2. rsp' = rsp /\ UNCHANGED <<regs, flags, mem>>
  BY <1>1 DEF DoOperand
<1>3. Own' = Own
  BY <1>1, OwnSlots
<1> QED
  BY <1>1, <1>2, <1>3 DEF Machine

LEMMA LahfStep ==
  ASSUME NEW R \in Codes, Left(<<<<"lahf">>>> \o R), MachineNext, ~Signal,
         NEW lent, NEW d \in Int, Machine(lent, d)
  PROVE  /\ Left(R)' /\ UNCHANGED <<site, flags, mem>> /\ Machine(lent \cup {"rax"}, d)'
         /\ regs'["rax"].ah = flags.low /\ \A q \in GPRegs : q # "rax" => regs'[q] = regs[q]
<1>1. /\ Left(R)' /\ site' = site /\ DoLahf
  BY CodeTypes, NextIs
<1>2. rsp' = rsp /\ UNCHANGED <<flags, mem>> /\ regs' = [regs EXCEPT !["rax"].ah = flags.low]
  BY <1>1 DEF DoLahf
<1>3. "rax" \in GPRegs /\ regs \in [GPRegs -> RegWords] /\ flags \in FlagWords
  BY RegAssumption DEF Machine
<1>4. /\ regs'["rax"].ah = flags.low /\ regs' \in [GPRegs -> RegWords]
      /\ \A q \in GPRegs : q # "rax" => regs'[q] = regs[q]
  BY <1>2, <1>3 DEF RegWords, FlagWords
<1>5. Own' = Own
  BY <1>1, OwnSlots
<1> QED
  BY <1>1, <1>2, <1>4, <1>5 DEF Machine

LEMMA SetoStep ==
  ASSUME NEW R \in Codes, Left(<<<<"seto">>>> \o R), MachineNext, ~Signal,
         NEW lent, NEW d \in Int, Machine(lent, d)
  PROVE  /\ Left(R)' /\ UNCHANGED <<site, flags, mem>> /\ Machine(lent \cup {"rax"}, d)'
         /\ regs'["rax"].ah = regs["rax"].ah /\ regs'["rax"].al = flags.of
         /\ \A q \in GPRegs : q # "rax" => regs'[q] = regs[q]
<1>1. /\ Left(R)' /\ site' = site /\ DoSeto
  BY CodeTypes, NextIs
<1>2. rsp' = rsp /\ UNCHANGED <<flags, mem>> /\ regs' = [regs EXCEPT !["rax"].al = flags.of]
  BY <1>1 DEF DoSeto
<1>3. "rax" \in GPRegs /\ regs \in [GPRegs -> RegWords] /\ flags \in FlagWords
  BY RegAssumption DEF Machine
<1>4. /\ regs'["rax"].ah = regs["rax"].ah /\ regs'["rax"].al = flags.of
      /\ regs' \in [GPRegs -> RegWords] /\ \A q \in GPRegs : q # "rax" => regs'[q] = regs[q]
  BY <1>2, <1>3 DEF RegWords, FlagWords
<1>5. Own' = Own
  BY <1>1, OwnSlots
<1> QED
  BY <1>1, <1>2, <1>4, <1>5 DEF Machine

LEMMA Add7fStep ==
  ASSUME NEW R \in Codes, Left(<<<<"add7f">>>> \o R), MachineNext, ~Signal,
         NEW lent, NEW d \in Int, Machine(lent, d)
  PROVE  /\ Left(R)' /\ UNCHANGED <<site, mem>> /\ Machine(lent \cup {"rax"}, d)'
         /\ regs'["rax"].ah = regs["rax"].ah /\ flags'.of = regs["rax"].al
         /\ \A q \in GPRegs : q # "rax" => regs'[q] = regs[q]
<1>1. /\ Left(R)' /\ site' = site /\ DoAdd7f
  BY CodeTypes, NextIs
<1>2. /\ rsp' = rsp /\ UNCHANGED mem /\ regs' = [regs EXCEPT !["rax"].al = Junk]
      /\ flags' = [low |-> Junk, of |-> regs["rax"].al]
  BY <1>1 DEF DoAdd7f
<1>3. "rax" \in GPRegs /\ regs \in [GPRegs -> RegWords] /\ Junk \in Parts
  BY RegAssumption DEF Machine, Junk, Parts
<1>4. /\ regs'["rax"].ah = regs["rax"].ah /\ regs' \in [GPRegs -> RegWords]
      /\ \A q \in GPRegs : q # "rax" => regs'[q] = regs[q]
  BY <1>2, <1>3 DEF RegWords
<1>5. flags' \in FlagWords /\ flags'.of = regs["rax"].al
  BY <1>2, <1>3 DEF RegWords, FlagWords
<1>6. Own' = Own
  BY <1>1, OwnSlots
<1> QED
  BY <1>1, <1>2, <1>4, <1>5, <1>6 DEF Machine

LEMMA SahfStep ==
  ASSUME NEW R \in Codes, Left(<<<<"sahf">>>> \o R), MachineNext, ~Signal,
         NEW lent, NEW d \in Int, Machine(lent, d)
  PROVE  /\ Left(R)' /\ UNCHANGED <<site, regs, mem>> /\ Machine(lent, d)'
         /\ regs["rax"].ah = ProgramFlags.low /\ flags.of = ProgramFlags.of
              => flags' = ProgramFlags
<1>1. /\ Left(R)' /\ site' = site /\ DoSahf
  BY CodeTypes, NextIs
<1>2. rsp' = rsp /\ UNCHANGED <<regs, mem>> /\ flags' = [flags EXCEPT !.low = regs["rax"].ah]
  BY <1>1 DEF DoSahf
<1>3. "rax" \in GPRegs /\ regs \in [GPRegs -> RegWords] /\ flags \in FlagWords
  BY RegAssumption DEF Machine
<1>4. flags' \in FlagWords /\ flags'.low = regs["rax"].ah /\ flags'.of = flags.of
  BY <1>2, <1>3 DEF RegWords, FlagWords
<1>5. \A f \in FlagWords : f.low = ProgramFlags.low /\ f.of = ProgramFlags.of => f = ProgramFlags
  BY DEF FlagWords, ProgramFlags
<1>6. Own' = Own
  BY <1>1, OwnSlots
<1> QED
  BY <1>1, <1>2, <1>4, <1>5, <1>6 DEF Machine

LEMMA CallStep ==
  ASSUME NEW R \in Codes, Left(<<<<"call">>>> \o R), MachineNext, ~Signal,
         NEW lent, NEW d \in Int, Machine(lent, d), d - 1 \in StackSlots \ Own
  PROVE  /\ Left(R)' /\ Machine(lent, d - 1)' /\ UNCHANGED <<site, regs, flags>>
         /\ \A k \in StackSlots : k # d - 1 => mem'[k] = mem[k]
<1>1. /\ Left(R)' /\ site' = site /\ DoCall
  BY CodeTypes, NextIs
<1>2. /\ rsp = d /\ rsp' = d - 1 /\ UNCHANGED <<regs, flags>>
      /\ mem' = [mem EXCEPT ![d - 1] = [slot |-> "return_address"]]
  BY <1>1 DEF DoCall, Machine
<1>3. mem = [k \in StackSlots |-> mem[k]]
  BY DEF Machine
<1>4. /\ mem' = [k \in StackSlots |-> mem'[k]]
      /\ \A k \in StackSlots : k # d - 1 => mem'[k] = mem[k]
  BY <1>2, <1>3
<1>5. Own' = Own /\ Own \subseteq StackSlots
  BY <1>1, OwnSlots
<1>6. Machine(lent, d - 1)'
  BY <1>1, <1>2, <1>4, <1>5 DEF Machine
<1> QED
  BY <1>1, <1>2, <1>4, <1>6

LEMMA ReturnStep ==
  ASSUME NEW R \in Codes, Left(<<<<"return">>>> \o R), MachineNext, ~Signal,
         NEW lent, NEW d \in Int, Machine(lent, d)
  PROVE  Left(R)' /\ UNCHANGED <<site, regs, flags, mem>> /\ Machine(lent, d + 1)'
<1>1. /\ Left(R)' /\ site' = site /\ DoReturn
  BY CodeTypes, NextIs
<1>2. rsp = d /\ rsp' = d + 1 /\ UNCHANGED <<regs, flags, mem>>
  BY <1>1 DEF DoReturn, Machine
<1>3. Own' = Own
  BY <1>1, OwnSlots
<1> QED
  BY <1>1, <1>2, <1>3 DEF Machine

-----------------------------------------------------------------------------
\* What the properties ask of a state, and what is proved of every state the
\* inserted code passes through.
Promises == /\ OperandIntact /\ AlignedAtCall
            /\ EntriesNeedNoFlag => Transparent
            /\ RedZonesViaRsp => RedZoneIntact
At(s, lent, d) == site = s /\ Machine(lent, d)

\* No other instruction is the operand or a call.
Plain(i) == <<i>> \in Codes /\ i[1] \notin {"operand", "call"}
LEMMA Operations ==
  /\ \A r \in GPRegs : Plain(Push(r)) /\ Plain(Pop(r))
  /\ \A n \in Int : Plain(Lea(n)) /\ Plain(Add(n))
  /\ \A r, q \in GPRegs : Plain(Mov(r, q))
  /\ \A W \in SUBSET GPRegs : Plain(Work(W))
  /\ \A op \in {"pushf", "popf", "lahf", "seto", "add7f", "sahf", "return"} : Plain(<<op>>)
<1>1. /\ \A r \in GPRegs : Push(r)[1] = "push" /\ Pop(r)[1] = "pop"
      /\ \A n \in Int : Lea(n)[1] = "lea" /\ Add(n)[1] = "add"
      /\ \A r, q \in GPRegs : Mov(r, q)[1] = "mov"
      /\ \A W \in SUBSET GPRegs : Work(W)[1] = "work"
  BY DEF Push, Pop, Lea, Add, Mov, Work
<1>2. \A op \in {"pushf", "popf", "lahf", "seto", "add7f", "sahf", "return"} : Plain(<<op>>)
  BY CodeTypes DEF Plain
<1> QED
  BY <1>1, <1>2, CodeTypes DEF Plain

\* An instruction that is neither the operand nor a call breaks no promise.
LEMMA Quiet ==
  ASSUME NEW s \in Sites, NEW lent, NEW d \in Int, At(s, lent, d),
         NEW i, Plain(i), NEW R \in Codes, Left(<<i>> \o R)
  PROVE  Promises
<1>1. ~Finished /\ Code[pc] = i
  BY LeftStep DEF Plain
<1>2. OperandIntact /\ AlignedAtCall /\ Transparent
  BY <1>1 DEF OperandIntact, AlignedAtCall, Transparent, Executing, Plain
<1>3. RedZonesViaRsp => RedZoneIntact
  BY DEF IsLeaf, RedZonesViaRsp, RedZoneIntact, At, Machine, Own, Spared
<1> QED
  BY <1>2, <1>3 DEF Promises

\* The machine begins in the state of the program.
LEMMA Starts == MachineInit => Machine({}, 0)
<1> SUFFICES ASSUME MachineInit PROVE Machine({}, 0)
  OBVIOUS
<1>1. rsp = 0 /\ flags = ProgramFlags /\ regs = [r \in GPRegs |-> ProgramReg(r)]
      /\ mem = [k \in StackSlots |-> ProgramSlot(k)]
  BY DEF MachineInit
<1>2. regs \in [GPRegs -> RegWords] /\ flags \in FlagWords
  BY <1>1, ProgramWords
<1>3. Own \subseteq StackSlots
  BY OwnSlots
<1> QED
  BY <1>1, <1>2, <1>3 DEF Machine
-----------------------------------------------------------------------------
(***************************************************************************)
(* The code of ASan, from its n-th piece on and with X after it, and what  *)
(* holds there.                                                            *)
(***************************************************************************)
Checked == {s \in Sites : s.code \in {"asan", "rep_movs"}}

Gp(s)      == ByAffinity(s.free)
Save2(s)   == Gp(s) = <<>>
R2(s)      == IF Save2(s) THEN "rsi" ELSE Gp(s)[1]
Save1(s)   == Len(Gp(s)) < 2
R1(s)      == IF ~Save1(s) THEN Gp(s)[2] ELSE IF R2(s) = "rdi" THEN "rsi" ELSE "rdi"
Unopt(s)   == "rflags" \notin s.free /\ Gp(s) = <<>>
Opt(s)     == "rflags" \notin s.free /\ Gp(s) # <<>>
SaveRax(s) == Opt(s) /\ "rax" \notin s.free
Adjust(s)  == IsLeaf(s.base) /\ (Save1(s) \/ Save2(s) \/ Unopt(s) \/ Opt(s))
One(b)     == IF b THEN 1 ELSE 0
Pushed(s)  == 32 * One(Adjust(s)) + One(Save1(s)) + One(Save2(s)) + One(Unopt(s) \/ Opt(s))

\* The stack pointer after each of the pushes.
Ground(s) == -32 * One(Adjust(s))
Depth1(s) == Ground(s) - One(Save1(s))
Depth2(s) == Depth1(s) - One(Save2(s))
Depth3(s) == Depth2(s) - One(Unopt(s))
Bottom(s) == -Pushed(s)

\* The scratch registers are free or saved, and the flags are saved in one way.
LEMMA Scratch ==
  ASSUME NEW s \in Checked
  PROVE  /\ R1(s) \in GPRegs /\ R2(s) \in GPRegs
         /\ ~Save1(s) => R1(s) \in s.free
         /\ ~Save2(s) => R2(s) \in s.free
         /\ Save2(s) => Save1(s)
         /\ "rflags" \notin s.free <=> Unopt(s) \/ Opt(s)
         /\ Opt(s) => ~Save2(s)
         /\ Unopt(s) => Save2(s)
         /\ SaveRax(s) => Opt(s) /\ "rax" \notin {R1(s), R2(s)}
         /\ Opt(s) /\ ~SaveRax(s) => "rax" \in s.free
<1> DEFINE A == {Affinity[i] : i \in 1..15}
<1>1. Affinity \in Seq(A) /\ "rflags" \notin A
  BY DEF Affinity
<1>2. Gp(s) \in Seq(A \cap s.free)
  BY <1>1, OnlyType DEF Gp, ByAffinity
<1>3. s.free \subseteq GPRegs \cup {"rflags"}
  BY SitesAssumption DEF Checked
<1>4. A \cap s.free \subseteq GPRegs
  BY <1>1, <1>3
<1> HIDE DEF A
<1>5. Gp(s) \in Seq(GPRegs \cap s.free)
  BY <1>2, <1>4
<1>6. /\ ~Save2(s) => Gp(s)[1] \in GPRegs \cap s.free
      /\ ~Save1(s) => Gp(s)[2] \in GPRegs \cap s.free
      /\ Save2(s) => Save1(s)
  BY <1>5 DEF Save1, Save2
<1>7. {"rsi", "rdi"} \subseteq GPRegs
  BY RegAssumption
<1>8. /\ R1(s) \in GPRegs /\ R2(s) \in GPRegs
      /\ ~Save1(s) => R1(s) \in s.free
      /\ ~Save2(s) => R2(s) \in s.free
      /\ Save1(s) => R1(s) \in {"rsi", "rdi"}
  BY <1>6, <1>7 DEF R1, R2
<1>9. "rax" \notin s.free /\ ~Save2(s) => "rax" \notin {R1(s), R2(s)}
  BY <1>8
<1> QED
  BY <1>6, <1>8, <1>9 DEF Unopt, Opt, SaveRax, Save2

\* Where the stack pointer is.
LEMMA Depths ==
  ASSUME NEW s \in Checked
  PROVE  /\ Ground(s) = IF Adjust(s) THEN -32 ELSE 0
         /\ Depth1(s) = IF Save1(s) THEN Ground(s) - 1 ELSE Ground(s)
         /\ Depth2(s) = IF Save2(s) THEN Depth1(s) - 1 ELSE Depth1(s)
         /\ Depth3(s) = IF Unopt(s) THEN Depth2(s) - 1 ELSE Depth2(s)
         /\ Bottom(s) = IF Opt(s) THEN Depth3(s) - 1 ELSE Depth3(s)
         /\ Ground(s) \in -35..0 /\ Depth1(s) \in -35..0 /\ Depth2(s) \in -35..0
         /\ Depth3(s) \in -35..0 /\ Bottom(s) \in -35..0
         /\ Save2(s) => Depth2(s) = Ground(s) - 2
         /\ Unopt(s) => Depth3(s) = Ground(s) - 3 /\ Bottom(s) = Ground(s) - 3
         /\ Opt(s) => Bottom(s) \in Ground(s) - 2..Ground(s) - 1
         /\ Pushed(s) = -Bottom(s) /\ Pushed(s) \in 0..35
<1>1. /\ Save2(s) => Save1(s)
      /\ Opt(s) => ~Save2(s)
      /\ Unopt(s) => Save2(s)
  BY Scratch
<1>2. /\ Unopt(s) \in BOOLEAN /\ Opt(s) \in BOOLEAN /\ Save1(s) \in BOOLEAN
      /\ Save2(s) \in BOOLEAN /\ Adjust(s) \in BOOLEAN
  BY DEF Unopt, Opt, Save1, Save2, Adjust
<1>3. /\ One(Adjust(s)) = IF Adjust(s) THEN 1 ELSE 0
      /\ One(Save1(s)) = IF Save1(s) THEN 1 ELSE 0
      /\ One(Save2(s)) = IF Save2(s) THEN 1 ELSE 0
      /\ One(Unopt(s)) = IF Unopt(s) THEN 1 ELSE 0
      /\ One(Unopt(s) \/ Opt(s)) = IF Unopt(s) \/ Opt(s) THEN 1 ELSE 0
  BY DEF One
<1>4. Ground(s) = IF Adjust(s) THEN -32 ELSE 0
  BY <1>3 DEF Ground
<1>5. /\ Depth1(s) = IF Save1(s) THEN Ground(s) - 1 ELSE Ground(s)
      /\ Depth2(s) = IF Save2(s) THEN Depth1(s) - 1 ELSE Depth1(s)
      /\ Depth3(s) = IF Unopt(s) THEN Depth2(s) - 1 ELSE Depth2(s)
  BY <1>3, <1>4 DEF Depth1, Depth2, Depth3
<1>6. Pushed(s) = (IF Save1(s) THEN 1 ELSE 0) + (IF Save2(s) THEN 1 ELSE 0)
                  + (IF Unopt(s) \/ Opt(s) THEN 1 ELSE 0) - Ground(s)
  BY <1>3, <1>4 DEF Pushed
<1>7. Pushed(s) \in 0..35 /\ Bottom(s) = -Pushed(s) /\ Pushed(s) = -Bottom(s)
  BY <1>4, <1>6 DEF Bottom
<1>8. Bottom(s) = IF Opt(s) THEN Depth3(s) - 1 ELSE Depth3(s)
  BY <1>1, <1>4, <1>5, <1>6, <1>7
<1>9. /\ Save2(s) => Depth2(s) = Ground(s) - 2
      /\ Unopt(s) => Depth3(s) = Ground(s) - 3 /\ Bottom(s) = Ground(s) - 3
      /\ Opt(s) => Bottom(s) \in Ground(s) - 2..Ground(s) - 1
      /\ Ground(s) \in -35..0 /\ Depth1(s) \in -35..0 /\ Depth2(s) \in -35..0
      /\ Depth3(s) \in -35..0 /\ Bottom(s) \in -35..0
  BY <1>1, <1>4, <1>5, <1>8
<1> QED
  BY <1>4, <1>5, <1>7, <1>8, <1>9

\* What is pushed lies outside the slots of the program.
LEMMA Room ==
  ASSUME NEW s \in Checked, site = s, Save1(s) \/ Save2(s) \/ Unopt(s) \/ Opt(s)
  PROVE  \A k \in Ground(s) - 3..Ground(s) - 1 : k \in StackSlots \ Own
<1>1. IF Adjust(s) THEN Ground(s) = -32 ELSE Ground(s) = 0
  BY Depths
<1>2. ~Adjust(s) => Own \subseteq 0..2
  BY OwnSlots DEF Adjust, Spared
<1>3. Own \subseteq -16..2
  BY OwnSlots
<1> QED
  BY <1>1, <1>2, <1>3 DEF StackSlots

\* What the saving has put on the stack and into the second scratch register.
HoldsFlags(w)  == w \in RegWords /\ w.ah = ProgramFlags.low /\ w.al = ProgramFlags.of
Restores(s, w, r) == w \in RegWords /\ (r \notin s.free => w = ProgramReg(r))
First(s)       == Save1(s) => Restores(s, mem[Ground(s) - 1], R1(s))
Second(s)      == Save2(s) => Restores(s, mem[Ground(s) - 2], R2(s))
PushedFlags(s) == Unopt(s) => mem[Ground(s) - 3] = ProgramFlags
SavedFlags(s)  == Opt(s) => HoldsFlags(mem[Bottom(s)])
Saved(s)       == First(s) /\ Second(s) /\ PushedFlags(s)
Aside(s)       == SaveRax(s) => regs[R2(s)] = ProgramReg("rax")
FlagsBack(s)   == Opt(s) => flags = ProgramFlags
Rax(s)         == IF Opt(s) THEN {"rax"} ELSE {}
Borrowed(s)    == {R1(s), R2(s)}

Asan21(s, X) == When(Adjust(s), <<Lea(32)>>) \o X
Asan20(s, X) == When(Save1(s), <<Pop(R1(s))>>) \o Asan21(s, X)
Asan19(s, X) == When(Save2(s), <<Pop(R2(s))>>) \o Asan20(s, X)
Asan18(s, X) == When(Unopt(s), <<<<"popf">>>>) \o Asan19(s, X)
Asan17(s, X) == When(SaveRax(s), <<Mov(R2(s), "rax")>>) \o Asan18(s, X)
Asan16(s, X) == <<<<"sahf">>>> \o Asan17(s, X)
Asan15(s, X) == <<<<"add7f">>>> \o Asan16(s, X)
Asan14(s, X) == When(Opt(s), <<Pop("rax")>> \o RaxToFlags) \o Asan17(s, X)
Asan13(s, X) == When(SaveRax(s), <<Mov("rax", R2(s))>>) \o Asan14(s, X)
Asan12(s, X) == When(Pushed(s) > 0, <<Lea(-Pushed(s))>>) \o Asan13(s, X)
Asan11(s, X) == <<Work(Borrowed(s))>> \o Asan12(s, X)
Asan10(s, X) == <<<<"operand">>>> \o Asan11(s, X)
Asan9(s, X)  == When(Pushed(s) > 0, <<Lea(Pushed(s))>>) \o Asan10(s, X)
Asan8(s, X)  == When(SaveRax(s), <<Mov(R2(s), "rax")>>) \o Asan9(s, X)
Asan7(s, X)  == <<Push("rax")>> \o Asan8(s, X)
Asan6(s, X)  == <<<<"seto">>>> \o Asan7(s, X)
Asan5(s, X)  == When(Opt(s), FlagsToRax \o <<Push("rax")>>) \o Asan8(s, X)
Asan4(s, X)  == When(SaveRax(s), <<Mov("rax", R2(s))>>) \o Asan5(s, X)
Asan3(s, X)  == When(Unopt(s), <<<<"pushf">>>>) \o Asan4(s, X)
Asan2(s, X)  == When(Save2(s), <<Push(R2(s))>>) \o Asan3(s, X)
Asan1(s, X)  == When(Save1(s), <<Push(R1(s))>>) \o Asan2(s, X)
Asan0(s, X)  == When(Adjust(s), <<Lea(-32)>>) \o Asan1(s, X)

\* The checks that may still follow one.
Check(s) == AsanCode(s.free, IsLeaf(s.base))
Tails(s) == {<<>>, Check(s), Check(s) \o Check(s), Check(s) \o Check(s) \o Check(s)}

Here0(s, X)  == Left(Asan0(s, X)) /\ At(s, {}, 0) /\ FlagsIntact
Here1(s, X)  == Left(Asan1(s, X)) /\ At(s, {}, Ground(s)) /\ FlagsIntact
Here2(s, X)  == Left(Asan2(s, X)) /\ At(s, {}, Depth1(s)) /\ FlagsIntact /\ First(s)
Here3(s, X)  == Left(Asan3(s, X)) /\ At(s, {}, Depth2(s)) /\ FlagsIntact /\ First(s) /\ Second(s)
Here4(s, X)  == Left(Asan4(s, X)) /\ At(s, {}, Depth3(s)) /\ FlagsIntact /\ Saved(s)
Here5(s, X)  == Left(Asan5(s, X)) /\ At(s, {}, Depth3(s)) /\ FlagsIntact /\ Saved(s) /\ Aside(s)
Here6(s, X)  == /\ Left(Asan6(s, X)) /\ At(s, {"rax"}, Depth3(s)) /\ FlagsIntact /\ Saved(s)
                /\ Opt(s) /\ Aside(s) /\ regs["rax"].ah = ProgramFlags.low
Here7(s, X)  == /\ Left(Asan7(s, X)) /\ At(s, {"rax"}, Depth3(s)) /\ Saved(s)
                /\ Opt(s) /\ Aside(s) /\ HoldsFlags(regs["rax"])
Here8(s, X)  == /\ Left(Asan8(s, X)) /\ At(s, Rax(s), Bottom(s)) /\ Saved(s) /\ SavedFlags(s)
                /\ Aside(s)
Here9(s, X)  == Left(Asan9(s, X)) /\ At(s, {}, Bottom(s)) /\ Saved(s) /\ SavedFlags(s)
Here10(s, X) == Left(Asan10(s, X)) /\ At(s, {}, 0) /\ Saved(s) /\ SavedFlags(s)
Here11(s, X) == Left(Asan11(s, X)) /\ At(s, {}, 0) /\ Saved(s) /\ SavedFlags(s)
Here12(s, X) == Left(Asan12(s, X)) /\ At(s, Borrowed(s), 0) /\ Saved(s) /\ SavedFlags(s)
Here13(s, X) == Left(Asan13(s, X)) /\ At(s, Borrowed(s), Bottom(s)) /\ Saved(s) /\ SavedFlags(s)
Here14(s, X) == /\ Left(Asan14(s, X)) /\ At(s, Borrowed(s), Bottom(s)) /\ Saved(s) /\ SavedFlags(s)
                /\ Aside(s)
Here15(s, X) == /\ Left(Asan15(s, X)) /\ At(s, Borrowed(s) \cup {"rax"}, Depth3(s)) /\ Saved(s)
                /\ Opt(s) /\ Aside(s) /\ HoldsFlags(regs["rax"])
Here16(s, X) == /\ Left(Asan16(s, X)) /\ At(s, Borrowed(s) \cup {"rax"}, Depth3(s)) /\ Saved(s)
                /\ Opt(s) /\ Aside(s) /\ regs["rax"].ah = ProgramFlags.low
                /\ flags.of = ProgramFlags.of
Here17(s, X) == /\ Left(Asan17(s, X)) /\ At(s, Borrowed(s) \cup Rax(s), Depth3(s)) /\ Saved(s)
                /\ Aside(s) /\ FlagsBack(s)
Here18(s, X) == Left(Asan18(s, X)) /\ At(s, Borrowed(s), Depth3(s)) /\ Saved(s) /\ FlagsBack(s)
Here19(s, X) == Left(Asan19(s, X)) /\ At(s, Borrowed(s), Depth2(s)) /\ FlagsIntact /\ First(s) /\ Second(s)
Here20(s, X) == Left(Asan20(s, X)) /\ At(s, {R1(s)}, Depth1(s)) /\ FlagsIntact /\ First(s)
Here21(s, X) == Left(Asan21(s, X)) /\ At(s, {}, Ground(s)) /\ FlagsIntact
Done(s, X)   == Left(X) /\ At(s, {}, 0) /\ FlagsIntact

InAsan(s, X) ==
  \/ Here0(s, X) \/ Here1(s, X) \/ Here2(s, X) \/ Here3(s, X) \/ Here4(s, X) \/ Here5(s, X)
  \/ Here6(s, X) \/ Here7(s, X) \/ Here8(s, X) \/ Here9(s, X) \/ Here10(s, X) \/ Here11(s, X)
  \/ Here12(s, X) \/ Here13(s, X) \/ Here14(s, X) \/ Here15(s, X) \/ Here16(s, X)
  \/ Here17(s, X) \/ Here18(s, X) \/ Here19(s, X) \/ Here20(s, X) \/ Here21(s, X)
  \/ Done(s, X)
AsanInv == \E s \in Checked : \E X \in Tails(s) : InAsan(s, X)
Goal == Promises /\ (MachineNext => AsanInv')

\* Between the flags and rax.
LEMMA FlagCodes ==
  /\ FlagsToRax = <<<<"lahf">>>> \o <<<<"seto">>>> /\ FlagsToRax \in Codes
  /\ RaxToFlags = <<<<"add7f">>>> \o <<<<"sahf">>>> /\ RaxToFlags \in Codes
<1>1. FlagsToRax = <<<<"lahf">>>> \o <<<<"seto">>>>
  BY DEF FlagsToRax
<1>2. RaxToFlags = <<<<"add7f">>>> \o <<<<"sahf">>>>
  BY DEF RaxToFlags
<1>3. /\ <<<<"lahf">>>> \in Codes /\ <<<<"seto">>>> \in Codes
      /\ <<<<"add7f">>>> \in Codes /\ <<<<"sahf">>>> \in Codes
  BY CodeTypes
<1>4. <<<<"lahf">>>> \o <<<<"seto">>>> \in Codes /\ <<<<"add7f">>>> \o <<<<"sahf">>>> \in Codes
  BY <1>3, CodeJoins
<1> QED
  BY <1>1, <1>2, <1>4

\* The pieces are code.
LEMMA AsanPieces ==
  ASSUME NEW s \in Checked, NEW X \in Codes
  PROVE  /\ Asan0(s, X) \in Codes /\ Asan1(s, X) \in Codes /\ Asan2(s, X) \in Codes
         /\ Asan3(s, X) \in Codes /\ Asan4(s, X) \in Codes /\ Asan5(s, X) \in Codes
         /\ Asan6(s, X) \in Codes /\ Asan7(s, X) \in Codes /\ Asan8(s, X) \in Codes
         /\ Asan9(s, X) \in Codes /\ Asan10(s, X) \in Codes /\ Asan11(s, X) \in Codes
         /\ Asan12(s, X) \in Codes /\ Asan13(s, X) \in Codes /\ Asan14(s, X) \in Codes
         /\ Asan15(s, X) \in Codes /\ Asan16(s, X) \in Codes /\ Asan17(s, X) \in Codes
         /\ Asan18(s, X) \in Codes /\ Asan19(s, X) \in Codes /\ Asan20(s, X) \in Codes
         /\ Asan21(s, X) \in Codes
<1>1. /\ R1(s) \in GPRegs /\ R2(s) \in GPRegs /\ "rax" \in GPRegs
      /\ Pushed(s) \in Int /\ -Pushed(s) \in Int /\ 32 \in Int /\ -32 \in Int
      /\ Borrowed(s) \subseteq GPRegs
  BY Scratch, Depths, RegAssumption DEF Borrowed
<1>2. FlagsToRax \o <<Push("rax")>> \in Codes /\ <<Pop("rax")>> \o RaxToFlags \in Codes
  BY <1>1, FlagCodes, CodeTypes, CodeJoins
<1>3. Asan21(s, X) \in Codes /\ Asan20(s, X) \in Codes /\ Asan19(s, X) \in Codes
  BY <1>1, CodeTypes, CodeJoins DEF Asan21, Asan20, Asan19
<1>4. Asan18(s, X) \in Codes /\ Asan17(s, X) \in Codes /\ Asan16(s, X) \in Codes
  BY <1>1, <1>3, CodeTypes, CodeJoins DEF Asan18, Asan17, Asan16
<1>5. Asan15(s, X) \in Codes /\ Asan14(s, X) \in Codes /\ Asan13(s, X) \in Codes
  BY <1>1, <1>2, <1>4, CodeTypes, CodeJoins DEF Asan15, Asan14, Asan13
<1>6. Asan12(s, X) \in Codes /\ Asan11(s, X) \in Codes /\ Asan10(s, X) \in Codes
  BY <1>1, <1>5, CodeTypes, CodeJoins DEF Asan12, Asan11, Asan10
<1>7. Asan9(s, X) \in Codes /\ Asan8(s, X) \in Codes /\ Asan7(s, X) \in Codes
  BY <1>1, <1>6, CodeTypes, CodeJoins DEF Asan9, Asan8, Asan7
<1>8. Asan6(s, X) \in Codes /\ Asan5(s, X) \in Codes /\ Asan4(s, X) \in Codes
  BY <1>1, <1>2, <1>7, CodeTypes, CodeJoins DEF Asan6, Asan5, Asan4
<1>9. Asan3(s, X) \in Codes /\ Asan2(s, X) \in Codes /\ Asan1(s, X) \in Codes
  BY <1>1, <1>8, CodeTypes, CodeJoins DEF Asan3, Asan2, Asan1
<1>10. Asan0(s, X) \in Codes
  BY <1>1, <1>9, CodeTypes, CodeJoins DEF Asan0
<1> QED
  BY <1>3, <1>4, <1>5, <1>6, <1>7, <1>8, <1>9, <1>10

\* A register the program does not need may as well be lent.
LEMMA Lend ==
  ASSUME NEW s \in Sites, NEW a, NEW b, NEW d, \A r \in a : r \in b \/ r \in s.free
  PROVE  /\ site = s /\ Machine(a, d) => At(s, b, d)
         /\ site' = s /\ Machine(a, d)' => At(s, b, d)'
BY DEF At, Machine

\* A signal spares what ASan has pushed.
LEMMA SignalSpares ==
  ASSUME NoSignalInLeaves, NEW s \in Checked, NEW lent, NEW d \in -35..0, At(s, lent, d), Signal
  PROVE  /\ \A c : Left(c) => Left(c)'
         /\ At(s, lent, d)' /\ UNCHANGED <<site, regs, flags>>
         /\ \A k \in Ground(s) - 3..Ground(s) - 1 : mem'[k] = mem[k]
<1>1. /\ Machine(lent, d)' /\ UNCHANGED <<site, regs, flags>>
      /\ \A c : Left(c) => Left(c)'
      /\ \A k \in StackSlots : k >= d - 16 => mem'[k] = mem[k]
  BY SignalStep DEF At
<1>2. Ground(s) = 0
  BY Depths DEF IsLeaf, NoSignalInLeaves, Checked, Adjust, Signal, At
<1>3. \A k \in Ground(s) - 3..Ground(s) - 1 : k \in StackSlots /\ k >= d - 16
  BY <1>2, Depths DEF StackSlots
<1> QED
  BY <1>1, <1>3 DEF At

\* What has been pushed is still there.
LEMMA SavedKept ==
  ASSUME NEW s \in Checked, \A k \in Ground(s) - 3..Ground(s) - 1 : mem'[k] = mem[k]
  PROVE  /\ Saved(s) => Saved(s)'
         /\ First(s) => First(s)'
         /\ Second(s) => Second(s)'
         /\ SavedFlags(s) => SavedFlags(s)'
<1>1. /\ Ground(s) \in Int
      /\ Opt(s) => Bottom(s) \in Ground(s) - 3..Ground(s) - 1
  BY Depths
<1>2. {Ground(s) - 1, Ground(s) - 2, Ground(s) - 3} \subseteq Ground(s) - 3..Ground(s) - 1
  BY <1>1
<1>3. /\ First(s) => First(s)'
      /\ Second(s) => Second(s)'
      /\ PushedFlags(s) => PushedFlags(s)'
  BY <1>2 DEF First, Second, PushedFlags, Restores
<1>4. SavedFlags(s) => SavedFlags(s)'
  BY <1>1 DEF SavedFlags, HoldsFlags
<1> QED
  BY <1>3, <1>4 DEF Saved

\* Before an instruction of ASan's code: the promises hold, and a signal, which
\* spares what the pass has pushed, changes nothing of interest.
LEMMA Still ==
  ASSUME NoSignalInLeaves, NEW s \in Checked, NEW lent, NEW d \in -35..0, At(s, lent, d),
         NEW i, Plain(i), NEW R \in Codes, NEW c, c = <<i>> \o R, Left(c)
  PROVE  /\ Promises
         /\ Signal => /\ Left(c)' /\ At(s, lent, d)' /\ UNCHANGED <<site, regs, flags>>
                      /\ Saved(s) => Saved(s)'
                      /\ First(s) => First(s)'
                      /\ Second(s) => Second(s)'
                      /\ SavedFlags(s) => SavedFlags(s)'
<1>1. Promises
  <2>1. s \in Sites /\ d \in Int
    BY DEF Checked
  <2> QED
    BY <2>1, Quiet
<1>2. ASSUME Signal
      PROVE  /\ Left(c)' /\ At(s, lent, d)' /\ UNCHANGED <<site, regs, flags>>
             /\ \A k \in Ground(s) - 3..Ground(s) - 1 : mem'[k] = mem[k]
  BY <1>2, SignalSpares
<1> QED
  BY <1>1, <1>2, SavedKept

\* Code that is left out.
LEMMA Skipped == \A c : c \in Codes => <<>> \o c = c
BY CodeJoins

\* What follows a check is code, and where it leads is covered.
LEMMA Reached ==
  ASSUME NEW s \in Checked, NEW X \in Tails(s)
  PROVE  InAsan(s, X)' => AsanInv'
BY DEF AsanInv

\* The steps of the check, the last first.
\* lea 256(%rsp), %rsp.
LEMMA AsanStep21 ==
  ASSUME NoSignalInLeaves, NEW s \in Checked, NEW X \in Tails(s), X \in Codes,
         Done(s, X) => Goal, Here21(s, X)
  PROVE  Goal
<1>1. /\ Left(Asan21(s, X)) /\ At(s, {}, Ground(s))
      /\ site = s /\ Machine({}, Ground(s))
      /\ FlagsIntact
  BY DEF Here21, At
<1>2. X \in Codes /\ Ground(s) \in Int /\ Ground(s) \in -35..0 /\ Plain(Lea(32))
  BY AsanPieces, Depths, Operations
<1>3. CASE Adjust(s)
  <2>1. Asan21(s, X) = <<Lea(32)>> \o X /\ Left(<<Lea(32)>> \o X)
    BY <1>1, <1>3 DEF Asan21, When
  <2>2. Promises /\ (Signal => Here21(s, X)')
    BY <1>1, <1>2, <2>1, Still DEF Here21, FlagsIntact
  <2>3. ASSUME MachineNext, ~Signal PROVE Done(s, X)'
    <3>1. Ground(s) + 32 = 0
      BY <1>3, Depths
    <3>2. Left(X)' /\ UNCHANGED <<site, regs, flags, mem>> /\ Machine({}, Ground(s) + 32)'
      BY <1>1, <1>2, <2>1, <2>3, LeaStep
    <3> QED
      BY <1>1, <3>1, <3>2 DEF Done, At, FlagsIntact
  <2> QED
    BY <2>2, <2>3, Reached DEF Goal, InAsan
<1>4. CASE ~Adjust(s)
  <2>1. Done(s, X)
    BY <1>1, <1>2, <1>4, Skipped, Depths DEF Asan21, Done, When
  <2> QED
    BY <2>1
<1> QED
  BY <1>3, <1>4

\* Pop the first scratch register.
LEMMA AsanStep20 ==
  ASSUME NoSignalInLeaves, NEW s \in Checked, NEW X \in Tails(s), X \in Codes,
         Done(s, X) => Goal, Here20(s, X)
  PROVE  Goal
<1>1. /\ Left(Asan20(s, X)) /\ At(s, {R1(s)}, Depth1(s))
      /\ site = s /\ Machine({R1(s)}, Depth1(s))
      /\ FlagsIntact /\ First(s)
  BY DEF Here20, At
<1>2. Asan21(s, X) \in Codes /\ Depth1(s) \in Int /\ Depth1(s) \in -35..0 /\ Plain(Pop(R1(s)))
  BY AsanPieces, Depths, Operations, Scratch
<1>3. CASE Save1(s)
  <2>1. Asan20(s, X) = <<Pop(R1(s))>> \o Asan21(s, X) /\ Left(<<Pop(R1(s))>> \o Asan21(s, X))
    BY <1>1, <1>3 DEF Asan20, When
  <2>2. Promises /\ (Signal => Here20(s, X)')
    BY <1>1, <1>2, <2>1, Still DEF Here20, FlagsIntact
  <2>3. ASSUME MachineNext, ~Signal PROVE Here21(s, X)'
    <3>1. /\ R1(s) \in GPRegs /\ Depth1(s) + 1 = Ground(s) /\ Depth1(s) = Ground(s) - 1
          /\ Restores(s, mem[Depth1(s)], R1(s))
      BY <1>1, <1>3, Scratch, Depths DEF First
    <3>2. mem[Depth1(s)] \in RegWords /\ (R1(s) \notin site.free => mem[Depth1(s)] = ProgramReg(R1(s)))
      BY <1>1, <3>1 DEF Restores
    <3>3. /\ Left(Asan21(s, X))' /\ UNCHANGED <<site, flags, mem>>
          /\ Machine({R1(s)} \ {R1(s)}, Depth1(s) + 1)'
      BY <1>1, <1>2, <2>1, <2>3, <3>1, <3>2, PopStep
    <3>4. At(s, {}, Ground(s))'
      BY <1>1, <3>1, <3>3, Lend DEF Checked
    <3> QED
      BY <1>1, <3>3, <3>4 DEF Here21, FlagsIntact
  <2> QED
    BY <2>2, <2>3, Reached DEF Goal, InAsan
<1>4. CASE ~Save1(s)
  <2>1. Here21(s, X)
    <3>1. At(s, {}, Ground(s))
      BY <1>1, <1>4, Scratch, Depths, Lend DEF Checked
    <3> QED
      BY <1>1, <1>2, <1>4, <3>1, Skipped DEF Asan20, Here21, When
  <2> QED
    BY <2>1, AsanStep21
<1> QED
  BY <1>3, <1>4

\* Pop the second scratch register.
LEMMA AsanStep19 ==
  ASSUME NoSignalInLeaves, NEW s \in Checked, NEW X \in Tails(s), X \in Codes,
         Done(s, X) => Goal, Here19(s, X)
  PROVE  Goal
<1>1. /\ Left(Asan19(s, X)) /\ At(s, Borrowed(s), Depth2(s))
      /\ site = s /\ Machine(Borrowed(s), Depth2(s))
      /\ FlagsIntact /\ First(s) /\ Second(s)
  BY DEF Here19, At
<1>2. Asan20(s, X) \in Codes /\ Depth2(s) \in Int /\ Depth2(s) \in -35..0 /\ Plain(Pop(R2(s)))
  BY AsanPieces, Depths, Operations, Scratch
<1>3. CASE Save2(s)
  <2>1. Asan19(s, X) = <<Pop(R2(s))>> \o Asan20(s, X) /\ Left(<<Pop(R2(s))>> \o Asan20(s, X))
    BY <1>1, <1>3 DEF Asan19, When
  <2>2. Promises /\ (Signal => Here19(s, X)')
    BY <1>1, <1>2, <2>1, Still DEF Here19, FlagsIntact
  <2>3. ASSUME MachineNext, ~Signal PROVE Here20(s, X)'
    <3>1. /\ R2(s) \in GPRegs /\ Depth2(s) + 1 = Depth1(s) /\ Depth2(s) = Ground(s) - 2
          /\ Restores(s, mem[Depth2(s)], R2(s))
      BY <1>1, <1>3, Scratch, Depths DEF Second
    <3>2. mem[Depth2(s)] \in RegWords /\ (R2(s) \notin site.free => mem[Depth2(s)] = ProgramReg(R2(s)))
      BY <1>1, <3>1 DEF Restores
    <3>3. /\ Left(Asan20(s, X))' /\ UNCHANGED <<site, flags, mem>>
          /\ Machine(Borrowed(s) \ {R2(s)}, Depth2(s) + 1)'
      BY <1>1, <1>2, <2>1, <2>3, <3>1, <3>2, PopStep
    <3>4. At(s, {R1(s)}, Depth1(s))'
      BY <1>1, <3>1, <3>3, Lend DEF Checked, Borrowed
    <3> QED
      BY <1>1, <3>3, <3>4 DEF Here20, FlagsIntact, First
  <2> QED
    BY <2>2, <2>3, Reached DEF Goal, InAsan
<1>4. CASE ~Save2(s)
  <2>1. Here20(s, X)
    <3>1. At(s, {R1(s)}, Depth1(s))
      BY <1>1, <1>4, Scratch, Depths, Lend DEF Checked, Borrowed
    <3> QED
      BY <1>1, <1>2, <1>4, <3>1, Skipped DEF Asan19, Here20, When
  <2> QED
    BY <2>1, AsanStep20
<1> QED
  BY <1>3, <1>4

\* popf.
LEMMA AsanStep18 ==
  ASSUME NoSignalInLeaves, NEW s \in Checked, NEW X \in Tails(s), X \in Codes,
         Done(s, X) => Goal, Here18(s, X)
  PROVE  Goal
<1>1. /\ Left(Asan18(s, X)) /\ At(s, Borrowed(s), Depth3(s))
      /\ site = s /\ Machine(Borrowed(s), Depth3(s))
      /\ Saved(s) /\ FlagsBack(s)
  BY DEF Here18, At
<1>2. Asan19(s, X) \in Codes /\ Depth3(s) \in Int /\ Depth3(s) \in -35..0 /\ Plain(<<"popf">>)
  BY AsanPieces, Depths, Operations
<1>3. CASE Unopt(s)
  <2>1. Asan18(s, X) = <<<<"popf">>>> \o Asan19(s, X) /\ Left(<<<<"popf">>>> \o Asan19(s, X))
    BY <1>1, <1>3 DEF Asan18, When
  <2>2. Promises /\ (Signal => Here18(s, X)')
    BY <1>1, <1>2, <2>1, Still DEF Here18, FlagsBack
  <2>3. ASSUME MachineNext, ~Signal PROVE Here19(s, X)'
    <3>1. Depth3(s) + 1 = Depth2(s) /\ mem[Depth3(s)] = ProgramFlags
      BY <1>1, <1>3, Depths DEF Saved, PushedFlags
    <3>2. /\ Left(Asan19(s, X))' /\ UNCHANGED <<site, regs, mem>>
          /\ Machine(Borrowed(s), Depth3(s) + 1)' /\ flags' = ProgramFlags
      BY <1>1, <1>2, <2>1, <2>3, <3>1, PopfStep
    <3> QED
      BY <1>1, <3>1, <3>2 DEF Here19, At, FlagsIntact, Saved, First, Second
  <2> QED
    BY <2>2, <2>3, Reached DEF Goal, InAsan
<1>4. CASE ~Unopt(s)
  <2>1. Here19(s, X)
    <3>1. FlagsIntact /\ Depth2(s) = Depth3(s)
      BY <1>1, <1>4, Scratch, Depths DEF FlagsIntact, FlagsBack
    <3> QED
      BY <1>1, <1>2, <1>4, <3>1, Skipped DEF Asan18, Here19, When, Saved
  <2> QED
    BY <2>1, AsanStep19
<1> QED
  BY <1>3, <1>4

\* Give rax back.
LEMMA AsanStep17 ==
  ASSUME NoSignalInLeaves, NEW s \in Checked, NEW X \in Tails(s), X \in Codes,
         Done(s, X) => Goal, Here17(s, X)
  PROVE  Goal
<1>1. /\ Left(Asan17(s, X)) /\ At(s, Borrowed(s) \cup Rax(s), Depth3(s))
      /\ site = s /\ Machine(Borrowed(s) \cup Rax(s), Depth3(s))
      /\ Saved(s) /\ Aside(s) /\ FlagsBack(s)
  BY DEF Here17, At
<1>2. Asan18(s, X) \in Codes /\ Depth3(s) \in Int /\ Depth3(s) \in -35..0 /\ Plain(Mov(R2(s), "rax"))
  BY AsanPieces, Depths, Operations, Scratch, RegAssumption
<1>3. CASE SaveRax(s)
  <2>1. Asan17(s, X) = <<Mov(R2(s), "rax")>> \o Asan18(s, X) /\ Left(<<Mov(R2(s), "rax")>> \o Asan18(s, X))
    BY <1>1, <1>3 DEF Asan17, When
  <2>2. Promises /\ (Signal => Here17(s, X)')
    BY <1>1, <1>2, <2>1, Still DEF Here17, FlagsBack, Aside
  <2>3. ASSUME MachineNext, ~Signal PROVE Here18(s, X)'
    <3>1. R2(s) \in GPRegs /\ "rax" \in GPRegs /\ regs[R2(s)] = ProgramReg("rax")
      BY <1>1, <1>3, Scratch, RegAssumption DEF Aside
    <3>2. /\ Left(Asan18(s, X))' /\ UNCHANGED <<site, flags, mem>>
          /\ Machine((Borrowed(s) \cup Rax(s)) \ {"rax"}, Depth3(s))'
      BY <1>1, <1>2, <2>1, <2>3, <3>1, MovStep
    <3>3. At(s, Borrowed(s), Depth3(s))'
      BY <1>1, <3>2, Lend DEF Checked, Rax
    <3> QED
      BY <1>1, <3>2, <3>3 DEF Here18, FlagsBack, Saved, First, Second, PushedFlags
  <2> QED
    BY <2>2, <2>3, Reached DEF Goal, InAsan
<1>4. CASE ~SaveRax(s)
  <2>1. Here18(s, X)
    <3>1. At(s, Borrowed(s), Depth3(s))
      BY <1>1, <1>4, Scratch, Lend DEF Checked, Rax
    <3> QED
      BY <1>1, <1>2, <1>4, <3>1, Skipped DEF Asan17, Here18, When
  <2> QED
    BY <2>1, AsanStep18
<1> QED
  BY <1>3, <1>4

\* sahf.
LEMMA AsanStep16 ==
  ASSUME NoSignalInLeaves, NEW s \in Checked, NEW X \in Tails(s), X \in Codes,
         Done(s, X) => Goal, Here16(s, X)
  PROVE  Goal
<1>1. /\ Left(Asan16(s, X)) /\ At(s, Borrowed(s) \cup {"rax"}, Depth3(s))
      /\ site = s /\ Machine(Borrowed(s) \cup {"rax"}, Depth3(s))
      /\ Saved(s) /\ Opt(s) /\ Aside(s) /\ regs["rax"].ah = ProgramFlags.low /\ flags.of = ProgramFlags.of
  BY DEF Here16, At
<1>2. Asan17(s, X) \in Codes /\ Depth3(s) \in Int /\ Depth3(s) \in -35..0 /\ Plain(<<"sahf">>)
  BY AsanPieces, Depths, Operations
<1>3. Asan16(s, X) = <<<<"sahf">>>> \o Asan17(s, X) /\ Left(<<<<"sahf">>>> \o Asan17(s, X))
  BY <1>1 DEF Asan16
<1>4. Promises /\ (Signal => Here16(s, X)')
  BY <1>1, <1>2, <1>3, Still DEF Here16, Aside
<1>5. ASSUME MachineNext, ~Signal PROVE Here17(s, X)'
  <2>1. /\ Left(Asan17(s, X))' /\ UNCHANGED <<site, regs, mem>>
        /\ Machine(Borrowed(s) \cup {"rax"}, Depth3(s))' /\ flags' = ProgramFlags
    BY <1>1, <1>2, <1>3, <1>5, SahfStep
  <2>2. At(s, Borrowed(s) \cup Rax(s), Depth3(s))'
    BY <1>1, <2>1 DEF At, Rax
  <2> QED
    BY <1>1, <2>1, <2>2 DEF Here17, FlagsBack, Aside, Saved, First, Second, PushedFlags
<1> QED
  BY <1>4, <1>5, Reached DEF Goal, InAsan

\* add $0x7f, %al.
LEMMA AsanStep15 ==
  ASSUME NoSignalInLeaves, NEW s \in Checked, NEW X \in Tails(s), X \in Codes,
         Done(s, X) => Goal, Here15(s, X)
  PROVE  Goal
<1>1. /\ Left(Asan15(s, X)) /\ At(s, Borrowed(s) \cup {"rax"}, Depth3(s))
      /\ site = s /\ Machine(Borrowed(s) \cup {"rax"}, Depth3(s))
      /\ Saved(s) /\ Opt(s) /\ Aside(s) /\ HoldsFlags(regs["rax"])
  BY DEF Here15, At
<1>2. Asan16(s, X) \in Codes /\ Depth3(s) \in Int /\ Depth3(s) \in -35..0 /\ Plain(<<"add7f">>)
  BY AsanPieces, Depths, Operations
<1>3. Asan15(s, X) = <<<<"add7f">>>> \o Asan16(s, X) /\ Left(<<<<"add7f">>>> \o Asan16(s, X))
  BY <1>1 DEF Asan15
<1>4. Promises /\ (Signal => Here15(s, X)')
  BY <1>1, <1>2, <1>3, Still DEF Here15, Aside, HoldsFlags
<1>5. ASSUME MachineNext, ~Signal PROVE Here16(s, X)'
  <2>1. /\ Left(Asan16(s, X))' /\ UNCHANGED <<site, mem>>
        /\ Machine((Borrowed(s) \cup {"rax"}) \cup {"rax"}, Depth3(s))'
        /\ regs'["rax"].ah = regs["rax"].ah /\ flags'.of = regs["rax"].al
        /\ \A q \in GPRegs : q # "rax" => regs'[q] = regs[q]
    BY <1>1, <1>2, <1>3, <1>5, Add7fStep
  <2>2. At(s, Borrowed(s) \cup {"rax"}, Depth3(s))'
    BY <1>1, <2>1, Lend DEF Checked
  <2>3. Aside(s)'
    BY <1>1, <2>1, Scratch DEF Aside
  <2> QED
    BY <1>1, <2>1, <2>2, <2>3 DEF Here16, HoldsFlags, Saved, First, Second, PushedFlags
<1> QED
  BY <1>4, <1>5, Reached DEF Goal, InAsan

\* Pop the flags into rax.
LEMMA AsanStep14 ==
  ASSUME NoSignalInLeaves, NEW s \in Checked, NEW X \in Tails(s), X \in Codes,
         Done(s, X) => Goal, Here14(s, X)
  PROVE  Goal
<1>1. /\ Left(Asan14(s, X)) /\ At(s, Borrowed(s), Bottom(s))
      /\ site = s /\ Machine(Borrowed(s), Bottom(s))
      /\ Saved(s) /\ SavedFlags(s) /\ Aside(s)
  BY DEF Here14, At
<1>2. Asan15(s, X) \in Codes /\ Bottom(s) \in Int /\ Bottom(s) \in -35..0 /\ Plain(Pop("rax"))
  BY AsanPieces, Depths, Operations, RegAssumption
<1>3. CASE Opt(s)
  <2>1. Asan14(s, X) = <<Pop("rax")>> \o Asan15(s, X) /\ Left(<<Pop("rax")>> \o Asan15(s, X))
    <3>1. Asan14(s, X) = (<<Pop("rax")>> \o RaxToFlags) \o Asan17(s, X)
      BY <1>3 DEF Asan14, When
    <3>2. Asan15(s, X) = RaxToFlags \o Asan17(s, X)
      BY FlagCodes, CodeJoins, CodeTypes, AsanPieces DEF Asan15, Asan16
    <3>3. <<Pop("rax")>> \in Codes /\ RaxToFlags \in Codes /\ Asan17(s, X) \in Codes
      BY FlagCodes, CodeTypes, AsanPieces, RegAssumption
    <3>4. (<<Pop("rax")>> \o RaxToFlags) \o Asan17(s, X) = <<Pop("rax")>> \o Asan15(s, X)
      BY <3>2, <3>3, CodeJoins
    <3> QED
      BY <1>1, <3>1, <3>4
  <2>2. Promises /\ (Signal => Here14(s, X)')
    BY <1>1, <1>2, <2>1, Still DEF Here14, Aside
  <2>3. ASSUME MachineNext, ~Signal PROVE Here15(s, X)'
    <3>1. /\ "rax" \in GPRegs /\ Bottom(s) + 1 = Depth3(s) /\ HoldsFlags(mem[Bottom(s)])
          /\ mem[Bottom(s)] \in RegWords
      BY <1>1, <1>3, Depths, RegAssumption DEF SavedFlags, HoldsFlags
    <3>2. /\ Left(Asan15(s, X))' /\ UNCHANGED <<site, flags, mem>>
          /\ Machine(Borrowed(s) \cup {"rax"}, Bottom(s) + 1)' /\ regs'["rax"] = mem[Bottom(s)]
          /\ \A q \in GPRegs : q # "rax" => regs'[q] = regs[q]
      BY <1>1, <1>2, <2>1, <2>3, <3>1, PopStep
    <3>3. Aside(s)'
      BY <1>1, <3>2, Scratch DEF Aside
    <3>4. HoldsFlags(regs["rax"])'
      BY <3>1, <3>2 DEF HoldsFlags
    <3> QED
      BY <1>1, <1>3, <3>1, <3>2, <3>3, <3>4 DEF Here15, At, Saved, First, Second, PushedFlags
  <2> QED
    BY <2>2, <2>3, Reached DEF Goal, InAsan
<1>4. CASE ~Opt(s)
  <2>1. Here17(s, X)
    <3>1. At(s, Borrowed(s) \cup Rax(s), Depth3(s)) /\ FlagsBack(s)
      BY <1>1, <1>4, Depths, Lend DEF Checked, Rax, FlagsBack
    <3> QED
      BY <1>1, <1>2, <1>4, <3>1, Skipped, AsanPieces DEF Asan14, Here17, When
  <2> QED
    BY <2>1, AsanStep17
<1> QED
  BY <1>3, <1>4

\* Put rax aside.
LEMMA AsanStep13 ==
  ASSUME NoSignalInLeaves, NEW s \in Checked, NEW X \in Tails(s), X \in Codes,
         Done(s, X) => Goal, Here13(s, X)
  PROVE  Goal
<1>1. /\ Left(Asan13(s, X)) /\ At(s, Borrowed(s), Bottom(s))
      /\ site = s /\ Machine(Borrowed(s), Bottom(s))
      /\ Saved(s) /\ SavedFlags(s)
  BY DEF Here13, At
<1>2. Asan14(s, X) \in Codes /\ Bottom(s) \in Int /\ Bottom(s) \in -35..0 /\ Plain(Mov("rax", R2(s)))
  BY AsanPieces, Depths, Operations, Scratch, RegAssumption
<1>3. CASE SaveRax(s)
  <2>1. Asan13(s, X) = <<Mov("rax", R2(s))>> \o Asan14(s, X) /\ Left(<<Mov("rax", R2(s))>> \o Asan14(s, X))
    BY <1>1, <1>3 DEF Asan13, When
  <2>2. Promises /\ (Signal => Here13(s, X)')
    BY <1>1, <1>2, <2>1, Still DEF Here13
  <2>3. ASSUME MachineNext, ~Signal PROVE Here14(s, X)'
    <3>1. R2(s) \in GPRegs /\ "rax" \in GPRegs /\ "rax" \notin site.free \cup Borrowed(s)
      BY <1>1, <1>3, Scratch, RegAssumption DEF Borrowed, SaveRax
    <3>2. regs["rax"] = ProgramReg("rax")
      BY <1>1, <3>1 DEF Machine
    <3>3. /\ Left(Asan14(s, X))' /\ UNCHANGED <<site, flags, mem>>
          /\ Machine(Borrowed(s) \cup {R2(s)}, Bottom(s))' /\ regs'[R2(s)] = regs["rax"]
      BY <1>1, <1>2, <2>1, <2>3, <3>1, MovStep
    <3>4. At(s, Borrowed(s), Bottom(s))'
      BY <1>1, <3>3, Lend DEF Checked, Borrowed
    <3> QED
      BY <1>1, <3>2, <3>3, <3>4 DEF Here14, Aside, SavedFlags, Saved, First, Second, PushedFlags
  <2> QED
    BY <2>2, <2>3, Reached DEF Goal, InAsan
<1>4. CASE ~SaveRax(s)
  <2>1. Here14(s, X)
    <3> QED
      BY <1>1, <1>2, <1>4, Skipped DEF Asan13, Here14, When, Aside
  <2> QED
    BY <2>1, AsanStep14
<1> QED
  BY <1>3, <1>4

\* lea -pushed(%rsp), %rsp.
LEMMA AsanStep12 ==
  ASSUME NoSignalInLeaves, NEW s \in Checked, NEW X \in Tails(s), X \in Codes,
         Done(s, X) => Goal, Here12(s, X)
  PROVE  Goal
<1>1. /\ Left(Asan12(s, X)) /\ At(s, Borrowed(s), 0)
      /\ site = s /\ Machine(Borrowed(s), 0)
      /\ Saved(s) /\ SavedFlags(s)
  BY DEF Here12, At
<1>2. Asan13(s, X) \in Codes /\ 0 \in Int /\ 0 \in -35..0 /\ Plain(Lea(-Pushed(s)))
  BY AsanPieces, Depths, Operations
<1>3. CASE Pushed(s) > 0
  <2>1. Asan12(s, X) = <<Lea(-Pushed(s))>> \o Asan13(s, X) /\ Left(<<Lea(-Pushed(s))>> \o Asan13(s, X))
    BY <1>1, <1>3 DEF Asan12, When
  <2>2. Promises /\ (Signal => Here12(s, X)')
    BY <1>1, <1>2, <2>1, Still DEF Here12
  <2>3. ASSUME MachineNext, ~Signal PROVE Here13(s, X)'
    <3>1. -Pushed(s) \in Int /\ 0 + (-Pushed(s)) = Bottom(s)
      BY Depths
    <3>2. /\ Left(Asan13(s, X))' /\ UNCHANGED <<site, regs, flags, mem>>
          /\ Machine(Borrowed(s), 0 + (-Pushed(s)))'
      BY <1>1, <1>2, <2>1, <2>3, <3>1, LeaStep
    <3> QED
      BY <1>1, <3>1, <3>2 DEF Here13, At, SavedFlags, Saved, First, Second, PushedFlags
  <2> QED
    BY <2>2, <2>3, Reached DEF Goal, InAsan
<1>4. CASE ~(Pushed(s) > 0)
  <2>1. Here13(s, X)
    <3>1. Bottom(s) = 0
      BY <1>4, Depths
    <3> QED
      BY <1>1, <1>2, <1>4, <3>1, Skipped DEF Asan12, Here13, When
  <2> QED
    BY <2>1, AsanStep13
<1> QED
  BY <1>3, <1>4

\* The check itself.
LEMMA AsanStep11 ==
  ASSUME NoSignalInLeaves, NEW s \in Checked, NEW X \in Tails(s), X \in Codes,
         Done(s, X) => Goal, Here11(s, X)
  PROVE  Goal
<1>1. /\ Left(Asan11(s, X)) /\ At(s, {}, 0)
      /\ site = s /\ Machine({}, 0)
      /\ Saved(s) /\ SavedFlags(s)
  BY DEF Here11, At
<1>2. Asan12(s, X) \in Codes /\ 0 \in Int /\ 0 \in -35..0 /\ Plain(Work(Borrowed(s)))
  BY AsanPieces, Depths, Operations, Scratch DEF Borrowed
<1>3. Asan11(s, X) = <<Work(Borrowed(s))>> \o Asan12(s, X) /\ Left(<<Work(Borrowed(s))>> \o Asan12(s, X))
  BY <1>1 DEF Asan11
<1>4. Promises /\ (Signal => Here11(s, X)')
  BY <1>1, <1>2, <1>3, Still DEF Here11
<1>5. ASSUME MachineNext, ~Signal PROVE Here12(s, X)'
  <2>1. Borrowed(s) \in SUBSET GPRegs
    BY Scratch DEF Borrowed
  <2>2. Left(Asan12(s, X))' /\ UNCHANGED <<site, mem>> /\ Machine({} \cup Borrowed(s), 0)'
    BY <1>1, <1>2, <1>3, <1>5, <2>1, WorkStep
  <2>3. At(s, Borrowed(s), 0)'
    BY <1>1, <2>2, Lend DEF Checked
  <2> QED
    BY <1>1, <2>2, <2>3 DEF Here12, SavedFlags, Saved, First, Second, PushedFlags
<1> QED
  BY <1>4, <1>5, Reached DEF Goal, InAsan

\* The operand is evaluated with the stack pointer and the registers of the program.
LEMMA AsanStep10 ==
  ASSUME NoSignalInLeaves, NEW s \in Checked, NEW X \in Tails(s), X \in Codes,
         Done(s, X) => Goal, Here10(s, X)
  PROVE  Goal
<1>1. /\ Left(<<<<"operand">>>> \o Asan11(s, X)) /\ At(s, {}, 0) /\ site = s /\ Machine({}, 0)
      /\ Saved(s) /\ SavedFlags(s)
  BY DEF Here10, At, Asan10
<1>2. Asan11(s, X) \in Codes /\ <<<<"operand">>>> \in Codes
  BY AsanPieces, CodeTypes
<1>3. ~Finished /\ Code[pc] = <<"operand">>
  BY <1>1, <1>2, LeftStep
<1>4. Promises
  <2>1. OperandIntact
    BY <1>1 DEF OperandIntact, Machine
  <2>2. Transparent /\ AlignedAtCall
    BY <1>3 DEF Transparent, AlignedAtCall, Executing
  <2>3. RedZonesViaRsp => RedZoneIntact
    BY <1>1 DEF IsLeaf, RedZonesViaRsp, RedZoneIntact, Machine, Own, Spared, Checked
  <2> QED
    BY <2>1, <2>2, <2>3 DEF Promises
<1>5. ASSUME Signal PROVE Here10(s, X)'
  <2>1. /\ At(s, {}, 0)' /\ Left(Asan10(s, X))'
        /\ \A k \in Ground(s) - 3..Ground(s) - 1 : mem'[k] = mem[k]
    BY <1>1, <1>5, SignalSpares DEF Asan10
  <2>2. Saved(s)' /\ SavedFlags(s)'
    BY <1>1, <2>1, SavedKept
  <2> QED
    BY <2>1, <2>2 DEF Here10
<1>6. ASSUME MachineNext, ~Signal PROVE Here11(s, X)'
  <2>1. Left(Asan11(s, X))' /\ UNCHANGED <<site, regs, flags, mem>> /\ Machine({}, 0)'
    BY <1>1, <1>2, <1>6, OperandStep
  <2> QED
    BY <1>1, <2>1 DEF Here11, At, SavedFlags, Saved, First, Second, PushedFlags
<1> QED
  BY <1>4, <1>5, <1>6, Reached DEF Goal, InAsan

\* lea pushed(%rsp), %rsp.
LEMMA AsanStep9 ==
  ASSUME NoSignalInLeaves, NEW s \in Checked, NEW X \in Tails(s), X \in Codes,
         Done(s, X) => Goal, Here9(s, X)
  PROVE  Goal
<1>1. /\ Left(Asan9(s, X)) /\ At(s, {}, Bottom(s))
      /\ site = s /\ Machine({}, Bottom(s))
      /\ Saved(s) /\ SavedFlags(s)
  BY DEF Here9, At
<1>2. Asan10(s, X) \in Codes /\ Bottom(s) \in Int /\ Bottom(s) \in -35..0 /\ Plain(Lea(Pushed(s)))
  BY AsanPieces, Depths, Operations
<1>3. CASE Pushed(s) > 0
  <2>1. Asan9(s, X) = <<Lea(Pushed(s))>> \o Asan10(s, X) /\ Left(<<Lea(Pushed(s))>> \o Asan10(s, X))
    BY <1>1, <1>3 DEF Asan9, When
  <2>2. Promises /\ (Signal => Here9(s, X)')
    BY <1>1, <1>2, <2>1, Still DEF Here9
  <2>3. ASSUME MachineNext, ~Signal PROVE Here10(s, X)'
    <3>1. Pushed(s) \in Int /\ Bottom(s) + Pushed(s) = 0
      BY Depths
    <3>2. /\ Left(Asan10(s, X))' /\ UNCHANGED <<site, regs, flags, mem>>
          /\ Machine({}, Bottom(s) + Pushed(s))'
      BY <1>1, <1>2, <2>1, <2>3, <3>1, LeaStep
    <3> QED
      BY <1>1, <3>1, <3>2 DEF Here10, At, SavedFlags, Saved, First, Second, PushedFlags
  <2> QED
    BY <2>2, <2>3, Reached DEF Goal, InAsan
<1>4. CASE ~(Pushed(s) > 0)
  <2>1. Here10(s, X)
    <3>1. Bottom(s) = 0
      BY <1>4, Depths
    <3> QED
      BY <1>1, <1>2, <1>4, <3>1, Skipped DEF Asan9, Here10, When
  <2> QED
    BY <2>1, AsanStep10
<1> QED
  BY <1>3, <1>4

\* Give rax back.
LEMMA AsanStep8 ==
  ASSUME NoSignalInLeaves, NEW s \in Checked, NEW X \in Tails(s), X \in Codes,
         Done(s, X) => Goal, Here8(s, X)
  PROVE  Goal
<1>1. /\ Left(Asan8(s, X)) /\ At(s, Rax(s), Bottom(s))
      /\ site = s /\ Machine(Rax(s), Bottom(s))
      /\ Saved(s) /\ SavedFlags(s) /\ Aside(s)
  BY DEF Here8, At
<1>2. Asan9(s, X) \in Codes /\ Bottom(s) \in Int /\ Bottom(s) \in -35..0 /\ Plain(Mov(R2(s), "rax"))
  BY AsanPieces, Depths, Operations, Scratch, RegAssumption
<1>3. CASE SaveRax(s)
  <2>1. Asan8(s, X) = <<Mov(R2(s), "rax")>> \o Asan9(s, X) /\ Left(<<Mov(R2(s), "rax")>> \o Asan9(s, X))
    BY <1>1, <1>3 DEF Asan8, When
  <2>2. Promises /\ (Signal => Here8(s, X)')
    BY <1>1, <1>2, <2>1, Still DEF Here8, Aside
  <2>3. ASSUME MachineNext, ~Signal PROVE Here9(s, X)'
    <3>1. R2(s) \in GPRegs /\ "rax" \in GPRegs /\ regs[R2(s)] = ProgramReg("rax")
      BY <1>1, <1>3, Scratch, RegAssumption DEF Aside
    <3>2. /\ Left(Asan9(s, X))' /\ UNCHANGED <<site, flags, mem>>
          /\ Machine(Rax(s) \ {"rax"}, Bottom(s))'
      BY <1>1, <1>2, <2>1, <2>3, <3>1, MovStep
    <3>3. At(s, {}, Bottom(s))'
      BY <1>1, <3>2, Lend DEF Checked, Rax
    <3> QED
      BY <1>1, <3>2, <3>3 DEF Here9, SavedFlags, Saved, First, Second, PushedFlags
  <2> QED
    BY <2>2, <2>3, Reached DEF Goal, InAsan
<1>4. CASE ~SaveRax(s)
  <2>1. Here9(s, X)
    <3>1. At(s, {}, Bottom(s))
      BY <1>1, <1>4, Scratch, Lend DEF Checked, Rax
    <3> QED
      BY <1>1, <1>2, <1>4, <3>1, Skipped DEF Asan8, Here9, When
  <2> QED
    BY <2>1, AsanStep9
<1> QED
  BY <1>3, <1>4

\* Push the flags.
LEMMA AsanStep7 ==
  ASSUME NoSignalInLeaves, NEW s \in Checked, NEW X \in Tails(s), X \in Codes,
         Done(s, X) => Goal, Here7(s, X)
  PROVE  Goal
<1>1. /\ Left(Asan7(s, X)) /\ At(s, {"rax"}, Depth3(s))
      /\ site = s /\ Machine({"rax"}, Depth3(s))
      /\ Saved(s) /\ Opt(s) /\ Aside(s) /\ HoldsFlags(regs["rax"])
  BY DEF Here7, At
<1>2. Asan8(s, X) \in Codes /\ Depth3(s) \in Int /\ Depth3(s) \in -35..0 /\ Plain(Push("rax"))
  BY AsanPieces, Depths, Operations, RegAssumption
<1>3. Asan7(s, X) = <<Push("rax")>> \o Asan8(s, X) /\ Left(<<Push("rax")>> \o Asan8(s, X))
  BY <1>1 DEF Asan7
<1>4. Promises /\ (Signal => Here7(s, X)')
  BY <1>1, <1>2, <1>3, Still DEF Here7, Aside, HoldsFlags
<1>5. ASSUME MachineNext, ~Signal PROVE Here8(s, X)'
  <2>1. /\ "rax" \in GPRegs /\ Depth3(s) - 1 = Bottom(s) /\ Depth3(s) - 1 \in StackSlots \ Own
        /\ Ground(s) \in Int /\ Bottom(s) \in Int
    BY <1>1, Depths, Room, RegAssumption
  <2>2. /\ Left(Asan8(s, X))' /\ Machine({"rax"}, Depth3(s) - 1)' /\ UNCHANGED <<site, regs, flags>>
        /\ mem'[Depth3(s) - 1] = regs["rax"]
        /\ \A k \in StackSlots : k # Depth3(s) - 1 => mem'[k] = mem[k]
    BY <1>1, <1>2, <1>3, <1>5, <2>1, PushStep
  <2>3. ~Save2(s) /\ ~Unopt(s) /\ (Save1(s) => Ground(s) - 1 \in StackSlots /\ Ground(s) - 1 # Bottom(s))
    BY <1>1, Scratch, Depths, Room
  <2>4. Saved(s)'
    BY <1>1, <2>1, <2>2, <2>3 DEF Saved, First, Second, PushedFlags
  <2>5. SavedFlags(s)'
    BY <1>1, <2>1, <2>2 DEF SavedFlags, HoldsFlags
  <2>6. At(s, Rax(s), Bottom(s))'
    BY <1>1, <2>1, <2>2 DEF At, Rax
  <2> QED
    BY <1>1, <2>2, <2>4, <2>5, <2>6 DEF Here8, Aside
<1> QED
  BY <1>4, <1>5, Reached DEF Goal, InAsan

\* seto %al.
LEMMA AsanStep6 ==
  ASSUME NoSignalInLeaves, NEW s \in Checked, NEW X \in Tails(s), X \in Codes,
         Done(s, X) => Goal, Here6(s, X)
  PROVE  Goal
<1>1. /\ Left(Asan6(s, X)) /\ At(s, {"rax"}, Depth3(s))
      /\ site = s /\ Machine({"rax"}, Depth3(s))
      /\ FlagsIntact /\ Saved(s) /\ Opt(s) /\ Aside(s) /\ regs["rax"].ah = ProgramFlags.low
  BY DEF Here6, At
<1>2. Asan7(s, X) \in Codes /\ Depth3(s) \in Int /\ Depth3(s) \in -35..0 /\ Plain(<<"seto">>)
  BY AsanPieces, Depths, Operations
<1>3. Asan6(s, X) = <<<<"seto">>>> \o Asan7(s, X) /\ Left(<<<<"seto">>>> \o Asan7(s, X))
  BY <1>1 DEF Asan6
<1>4. Promises /\ (Signal => Here6(s, X)')
  BY <1>1, <1>2, <1>3, Still DEF Here6, Aside, FlagsIntact
<1>5. ASSUME MachineNext, ~Signal PROVE Here7(s, X)'
  <2>1. /\ Left(Asan7(s, X))' /\ UNCHANGED <<site, flags, mem>>
        /\ Machine({"rax"} \cup {"rax"}, Depth3(s))'
        /\ regs'["rax"].ah = regs["rax"].ah /\ regs'["rax"].al = flags.of
        /\ \A q \in GPRegs : q # "rax" => regs'[q] = regs[q]
    BY <1>1, <1>2, <1>3, <1>5, SetoStep
  <2>2. At(s, {"rax"}, Depth3(s))'
    BY <1>1, <2>1, Lend DEF Checked
  <2>3. flags = ProgramFlags
    BY <1>1, Scratch DEF FlagsIntact
  <2>4. HoldsFlags(regs["rax"])'
    BY <1>1, <2>1, <2>3, RegAssumption DEF HoldsFlags, Machine
  <2>5. Aside(s)'
    BY <1>1, <2>1, Scratch DEF Aside
  <2> QED
    BY <1>1, <2>1, <2>2, <2>4, <2>5 DEF Here7, Saved, First, Second, PushedFlags
<1> QED
  BY <1>4, <1>5, Reached DEF Goal, InAsan

\* lahf.
LEMMA AsanStep5 ==
  ASSUME NoSignalInLeaves, NEW s \in Checked, NEW X \in Tails(s), X \in Codes,
         Done(s, X) => Goal, Here5(s, X)
  PROVE  Goal
<1>1. /\ Left(Asan5(s, X)) /\ At(s, {}, Depth3(s))
      /\ site = s /\ Machine({}, Depth3(s))
      /\ FlagsIntact /\ Saved(s) /\ Aside(s)
  BY DEF Here5, At
<1>2. Asan6(s, X) \in Codes /\ Depth3(s) \in Int /\ Depth3(s) \in -35..0 /\ Plain(<<"lahf">>)
  BY AsanPieces, Depths, Operations
<1>3. CASE Opt(s)
  <2>1. Asan5(s, X) = <<<<"lahf">>>> \o Asan6(s, X) /\ Left(<<<<"lahf">>>> \o Asan6(s, X))
    <3>1. Asan5(s, X) = (FlagsToRax \o <<Push("rax")>>) \o Asan8(s, X)
      BY <1>3 DEF Asan5, When
    <3>2. /\ <<Push("rax")>> \in Codes /\ FlagsToRax \in Codes /\ Asan8(s, X) \in Codes
          /\ <<<<"lahf">>>> \in Codes /\ <<<<"seto">>>> \in Codes /\ Asan7(s, X) \in Codes
      BY FlagCodes, CodeTypes, AsanPieces, RegAssumption
    <3>3. /\ Regroups(FlagsToRax, <<Push("rax")>>, Asan8(s, X))
          /\ Regroups(<<<<"lahf">>>>, <<<<"seto">>>>, Asan7(s, X))
      BY <3>2, CodeRegroups
    <3>4. (FlagsToRax \o <<Push("rax")>>) \o Asan8(s, X) = FlagsToRax \o Asan7(s, X)
      BY <3>3 DEF Regroups, Asan7
    <3>5. FlagsToRax \o Asan7(s, X) = <<<<"lahf">>>> \o Asan6(s, X)
      BY <3>3, FlagCodes DEF Regroups, Asan6
    <3> QED
      BY <1>1, <3>1, <3>4, <3>5
  <2>2. Promises /\ (Signal => Here5(s, X)')
    BY <1>1, <1>2, <2>1, Still DEF Here5, Aside, FlagsIntact
  <2>3. ASSUME MachineNext, ~Signal PROVE Here6(s, X)'
    <3>1. /\ Left(Asan6(s, X))' /\ UNCHANGED <<site, flags, mem>>
          /\ Machine({} \cup {"rax"}, Depth3(s))' /\ regs'["rax"].ah = flags.low
          /\ \A q \in GPRegs : q # "rax" => regs'[q] = regs[q]
      BY <1>1, <1>2, <2>1, <2>3, LahfStep
    <3>2. At(s, {"rax"}, Depth3(s))'
      BY <1>1, <3>1, Lend DEF Checked
    <3>3. flags = ProgramFlags
      BY <1>1, <1>3, Scratch DEF FlagsIntact
    <3>4. Aside(s)'
      BY <1>1, <3>1, Scratch DEF Aside
    <3> QED
      BY <1>1, <1>3, <3>1, <3>2, <3>3, <3>4 DEF Here6, FlagsIntact, Saved, First, Second, PushedFlags
  <2> QED
    BY <2>2, <2>3, Reached DEF Goal, InAsan
<1>4. CASE ~Opt(s)
  <2>1. Here8(s, X)
    <3>1. At(s, Rax(s), Bottom(s)) /\ SavedFlags(s)
      BY <1>1, <1>4, Depths DEF Rax, SavedFlags
    <3> QED
      BY <1>1, <1>2, <1>4, <3>1, Skipped, AsanPieces DEF Asan5, Here8, When
  <2> QED
    BY <2>1, AsanStep8
<1> QED
  BY <1>3, <1>4

\* Put rax aside.
LEMMA AsanStep4 ==
  ASSUME NoSignalInLeaves, NEW s \in Checked, NEW X \in Tails(s), X \in Codes,
         Done(s, X) => Goal, Here4(s, X)
  PROVE  Goal
<1>1. /\ Left(Asan4(s, X)) /\ At(s, {}, Depth3(s))
      /\ site = s /\ Machine({}, Depth3(s))
      /\ FlagsIntact /\ Saved(s)
  BY DEF Here4, At
<1>2. Asan5(s, X) \in Codes /\ Depth3(s) \in Int /\ Depth3(s) \in -35..0 /\ Plain(Mov("rax", R2(s)))
  BY AsanPieces, Depths, Operations, Scratch, RegAssumption
<1>3. CASE SaveRax(s)
  <2>1. Asan4(s, X) = <<Mov("rax", R2(s))>> \o Asan5(s, X) /\ Left(<<Mov("rax", R2(s))>> \o Asan5(s, X))
    BY <1>1, <1>3 DEF Asan4, When
  <2>2. Promises /\ (Signal => Here4(s, X)')
    BY <1>1, <1>2, <2>1, Still DEF Here4, FlagsIntact
  <2>3. ASSUME MachineNext, ~Signal PROVE Here5(s, X)'
    <3>1. R2(s) \in GPRegs /\ "rax" \in GPRegs /\ "rax" \notin site.free /\ R2(s) \in s.free
      BY <1>1, <1>3, Scratch, RegAssumption DEF SaveRax
    <3>2. regs["rax"] = ProgramReg("rax")
      BY <1>1, <3>1 DEF Machine
    <3>3. /\ Left(Asan5(s, X))' /\ UNCHANGED <<site, flags, mem>>
          /\ Machine({} \cup {R2(s)}, Depth3(s))' /\ regs'[R2(s)] = regs["rax"]
      BY <1>1, <1>2, <2>1, <2>3, <3>1, MovStep
    <3>4. At(s, {}, Depth3(s))'
      BY <1>1, <3>1, <3>3, Lend DEF Checked
    <3> QED
      BY <1>1, <3>2, <3>3, <3>4 DEF Here5, Aside, FlagsIntact, Saved, First, Second, PushedFlags
  <2> QED
    BY <2>2, <2>3, Reached DEF Goal, InAsan
<1>4. CASE ~SaveRax(s)
  <2>1. Here5(s, X)
    <3> QED
      BY <1>1, <1>2, <1>4, Skipped DEF Asan4, Here5, When, Aside
  <2> QED
    BY <2>1, AsanStep5
<1> QED
  BY <1>3, <1>4

\* pushf.
LEMMA AsanStep3 ==
  ASSUME NoSignalInLeaves, NEW s \in Checked, NEW X \in Tails(s), X \in Codes,
         Done(s, X) => Goal, Here3(s, X)
  PROVE  Goal
<1>1. /\ Left(Asan3(s, X)) /\ At(s, {}, Depth2(s))
      /\ site = s /\ Machine({}, Depth2(s))
      /\ FlagsIntact /\ First(s) /\ Second(s)
  BY DEF Here3, At
<1>2. Asan4(s, X) \in Codes /\ Depth2(s) \in Int /\ Depth2(s) \in -35..0 /\ Plain(<<"pushf">>)
  BY AsanPieces, Depths, Operations
<1>3. CASE Unopt(s)
  <2>1. Asan3(s, X) = <<<<"pushf">>>> \o Asan4(s, X) /\ Left(<<<<"pushf">>>> \o Asan4(s, X))
    BY <1>1, <1>3 DEF Asan3, When
  <2>2. Promises /\ (Signal => Here3(s, X)')
    BY <1>1, <1>2, <2>1, Still DEF Here3, FlagsIntact
  <2>3. ASSUME MachineNext, ~Signal PROVE Here4(s, X)'
    <3>1. /\ Depth2(s) - 1 = Depth3(s) /\ Depth3(s) = Ground(s) - 3 /\ Depth2(s) - 1 \in StackSlots \ Own
          /\ Ground(s) \in Int /\ Ground(s) - 1 \in StackSlots /\ Ground(s) - 2 \in StackSlots
      BY <1>1, <1>3, Depths, Room
    <3>2. /\ Left(Asan4(s, X))' /\ Machine({}, Depth2(s) - 1)' /\ UNCHANGED <<site, regs, flags>>
          /\ mem'[Depth2(s) - 1] = flags
          /\ \A k \in StackSlots : k # Depth2(s) - 1 => mem'[k] = mem[k]
      BY <1>1, <1>2, <2>1, <2>3, <3>1, PushfStep
    <3>3. flags = ProgramFlags
      BY <1>1, <1>3, Scratch DEF FlagsIntact
    <3>4. mem'[Ground(s) - 1] = mem[Ground(s) - 1] /\ mem'[Ground(s) - 2] = mem[Ground(s) - 2]
      BY <3>1, <3>2
    <3>5. Saved(s)'
      BY <1>1, <3>1, <3>2, <3>3, <3>4 DEF Saved, First, Second, PushedFlags
    <3> QED
      BY <1>1, <3>1, <3>2, <3>5 DEF Here4, At, FlagsIntact
  <2> QED
    BY <2>2, <2>3, Reached DEF Goal, InAsan
<1>4. CASE ~Unopt(s)
  <2>1. Here4(s, X)
    <3>1. Depth3(s) = Depth2(s)
      BY <1>4, Depths
    <3> QED
      BY <1>1, <1>2, <1>4, <3>1, Skipped DEF Asan3, Here4, When, Saved, PushedFlags
  <2> QED
    BY <2>1, AsanStep4
<1> QED
  BY <1>3, <1>4

\* Push the second scratch register.
LEMMA AsanStep2 ==
  ASSUME NoSignalInLeaves, NEW s \in Checked, NEW X \in Tails(s), X \in Codes,
         Done(s, X) => Goal, Here2(s, X)
  PROVE  Goal
<1>1. /\ Left(Asan2(s, X)) /\ At(s, {}, Depth1(s))
      /\ site = s /\ Machine({}, Depth1(s))
      /\ FlagsIntact /\ First(s)
  BY DEF Here2, At
<1>2. Asan3(s, X) \in Codes /\ Depth1(s) \in Int /\ Depth1(s) \in -35..0 /\ Plain(Push(R2(s)))
  BY AsanPieces, Depths, Operations, Scratch
<1>3. CASE Save2(s)
  <2>1. Asan2(s, X) = <<Push(R2(s))>> \o Asan3(s, X) /\ Left(<<Push(R2(s))>> \o Asan3(s, X))
    BY <1>1, <1>3 DEF Asan2, When
  <2>2. Promises /\ (Signal => Here2(s, X)')
    BY <1>1, <1>2, <2>1, Still DEF Here2, FlagsIntact
  <2>3. ASSUME MachineNext, ~Signal PROVE Here3(s, X)'
    <3>1. /\ Depth1(s) - 1 = Depth2(s) /\ Depth2(s) = Ground(s) - 2 /\ Depth1(s) - 1 \in StackSlots \ Own
          /\ Ground(s) \in Int /\ Ground(s) - 1 \in StackSlots /\ R2(s) \in GPRegs
      BY <1>1, <1>3, Depths, Room, Scratch
    <3>2. /\ Left(Asan3(s, X))' /\ Machine({}, Depth1(s) - 1)' /\ UNCHANGED <<site, regs, flags>>
          /\ mem'[Depth1(s) - 1] = regs[R2(s)]
          /\ \A k \in StackSlots : k # Depth1(s) - 1 => mem'[k] = mem[k]
      BY <1>1, <1>2, <2>1, <2>3, <3>1, PushStep
    <3>3. Restores(s, regs[R2(s)], R2(s))
      BY <1>1, <3>1 DEF Restores, Machine
    <3>4. mem'[Ground(s) - 1] = mem[Ground(s) - 1] /\ mem'[Ground(s) - 2] = regs[R2(s)]
      BY <3>1, <3>2
    <3>5. First(s)' /\ Second(s)'
      BY <1>1, <3>3, <3>4 DEF First, Second, Restores
    <3> QED
      BY <1>1, <3>1, <3>2, <3>5 DEF Here3, At, FlagsIntact
  <2> QED
    BY <2>2, <2>3, Reached DEF Goal, InAsan
<1>4. CASE ~Save2(s)
  <2>1. Here3(s, X)
    <3>1. Depth2(s) = Depth1(s)
      BY <1>4, Depths
    <3> QED
      BY <1>1, <1>2, <1>4, <3>1, Skipped DEF Asan2, Here3, When, Second
  <2> QED
    BY <2>1, AsanStep3
<1> QED
  BY <1>3, <1>4

\* Push the first scratch register.
LEMMA AsanStep1 ==
  ASSUME NoSignalInLeaves, NEW s \in Checked, NEW X \in Tails(s), X \in Codes,
         Done(s, X) => Goal, Here1(s, X)
  PROVE  Goal
<1>1. /\ Left(Asan1(s, X)) /\ At(s, {}, Ground(s))
      /\ site = s /\ Machine({}, Ground(s))
      /\ FlagsIntact
  BY DEF Here1, At
<1>2. Asan2(s, X) \in Codes /\ Ground(s) \in Int /\ Ground(s) \in -35..0 /\ Plain(Push(R1(s)))
  BY AsanPieces, Depths, Operations, Scratch
<1>3. CASE Save1(s)
  <2>1. Asan1(s, X) = <<Push(R1(s))>> \o Asan2(s, X) /\ Left(<<Push(R1(s))>> \o Asan2(s, X))
    BY <1>1, <1>3 DEF Asan1, When
  <2>2. Promises /\ (Signal => Here1(s, X)')
    BY <1>1, <1>2, <2>1, Still DEF Here1, FlagsIntact
  <2>3. ASSUME MachineNext, ~Signal PROVE Here2(s, X)'
    <3>1. /\ Ground(s) - 1 = Depth1(s) /\ Ground(s) - 1 \in StackSlots \ Own /\ R1(s) \in GPRegs
      BY <1>1, <1>3, Depths, Room, Scratch
    <3>2. /\ Left(Asan2(s, X))' /\ Machine({}, Ground(s) - 1)' /\ UNCHANGED <<site, regs, flags>>
          /\ mem'[Ground(s) - 1] = regs[R1(s)]
      BY <1>1, <1>2, <2>1, <2>3, <3>1, PushStep
    <3>3. Restores(s, regs[R1(s)], R1(s))
      BY <1>1, <3>1 DEF Restores, Machine
    <3>4. First(s)'
      BY <1>1, <3>2, <3>3 DEF First, Restores
    <3> QED
      BY <1>1, <3>1, <3>2, <3>4 DEF Here2, At, FlagsIntact
  <2> QED
    BY <2>2, <2>3, Reached DEF Goal, InAsan
<1>4. CASE ~Save1(s)
  <2>1. Here2(s, X)
    <3>1. Depth1(s) = Ground(s)
      BY <1>4, Depths
    <3> QED
      BY <1>1, <1>2, <1>4, <3>1, Skipped DEF Asan1, Here2, When, First
  <2> QED
    BY <2>1, AsanStep2
<1> QED
  BY <1>3, <1>4

\* lea -256(%rsp), %rsp.
LEMMA AsanStep0 ==
  ASSUME NoSignalInLeaves, NEW s \in Checked, NEW X \in Tails(s), X \in Codes,
         Done(s, X) => Goal, Here0(s, X)
  PROVE  Goal
<1>1. /\ Left(Asan0(s, X)) /\ At(s, {}, 0)
      /\ site = s /\ Machine({}, 0)
      /\ FlagsIntact
  BY DEF Here0, At
<1>2. Asan1(s, X) \in Codes /\ 0 \in Int /\ 0 \in -35..0 /\ Plain(Lea(-32))
  BY AsanPieces, Depths, Operations
<1>3. CASE Adjust(s)
  <2>1. Asan0(s, X) = <<Lea(-32)>> \o Asan1(s, X) /\ Left(<<Lea(-32)>> \o Asan1(s, X))
    BY <1>1, <1>3 DEF Asan0, When
  <2>2. Promises /\ (Signal => Here0(s, X)')
    BY <1>1, <1>2, <2>1, Still DEF Here0, FlagsIntact
  <2>3. ASSUME MachineNext, ~Signal PROVE Here1(s, X)'
    <3>1. -32 \in Int /\ 0 + (-32) = Ground(s)
      BY <1>3, Depths
    <3>2. Left(Asan1(s, X))' /\ UNCHANGED <<site, regs, flags, mem>> /\ Machine({}, 0 + (-32))'
      BY <1>1, <1>2, <2>1, <2>3, <3>1, LeaStep
    <3> QED
      BY <1>1, <3>1, <3>2 DEF Here1, At, FlagsIntact
  <2> QED
    BY <2>2, <2>3, Reached DEF Goal, InAsan
<1>4. CASE ~Adjust(s)
  <2>1. Here1(s, X)
    <3>1. Ground(s) = 0
      BY <1>4, Depths
    <3> QED
      BY <1>1, <1>2, <1>4, <3>1, Skipped DEF Asan0, Here1, When
  <2> QED
    BY <2>1, AsanStep1
<1> QED
  BY <1>3, <1>4

\* Eight pieces joined from the left or from the right.
Row(a, b, c, d, e, f, g, h)     == a \o b \o c \o d \o e \o f \o g \o h
Nest(a, b, c, d, e, f, g, h, Y) == a \o (b \o (c \o (d \o (e \o (f \o (g \o (h \o Y)))))))
Pieces(a, b, c, d, e, f, g, h)  == {a, b, c, d, e, f, g, h} \subseteq Codes
LEMMA Regrouped ==
  ASSUME NEW a, NEW b, NEW c, NEW d, NEW e, NEW f, NEW g, NEW h, Pieces(a, b, c, d, e, f, g, h)
  PROVE  /\ Row(a, b, c, d, e, f, g, h) \in Codes
         /\ \A Y \in Codes :
              Row(a, b, c, d, e, f, g, h) \o Y = Nest(a, b, c, d, e, f, g, h, Y)
<1> DEFINE P2 == a \o b
           P3 == P2 \o c
           P4 == P3 \o d
           P5 == P4 \o e
           P6 == P5 \o f
           P7 == P6 \o g
           P8 == P7 \o h
<1>0. /\ a \in Codes /\ b \in Codes /\ c \in Codes /\ d \in Codes
      /\ e \in Codes /\ f \in Codes /\ g \in Codes /\ h \in Codes
  BY DEF Pieces
<1>1. \A x, y \in Codes : x \o y \in Codes
  BY CodeJoins
<1>2. P2 \in Codes /\ P3 \in Codes /\ P4 \in Codes /\ P5 \in Codes
  BY <1>0, <1>1
<1>3. P6 \in Codes /\ P7 \in Codes /\ P8 \in Codes
  <2> HIDE DEF P5
  <2> QED
    BY <1>0, <1>1, <1>2
<1>4. ASSUME NEW Y \in Codes PROVE P8 \o Y = Nest(a, b, c, d, e, f, g, h, Y)
  <2> DEFINE Q8 == h \o Y
             Q7 == g \o Q8
             Q6 == f \o Q7
             Q5 == e \o Q6
             Q4 == d \o Q5
             Q3 == c \o Q4
             Q2 == b \o Q3
  <2>1. Q8 \in Codes /\ Q7 \in Codes /\ Q6 \in Codes /\ Q5 \in Codes
    BY <1>0, <1>1
  <2>2. Q4 \in Codes /\ Q3 \in Codes /\ Q2 \in Codes
    <3> HIDE DEF Q5
    <3> QED
      BY <1>0, <1>1, <2>1
  <2> HIDE DEF P2, P3, P4, P5, P6, P7, P8, Q8, Q7, Q6, Q5, Q4, Q3, Q2
  <2>3. /\ Regroups(P7, h, Y) /\ Regroups(P6, g, Q8) /\ Regroups(P5, f, Q7) /\ Regroups(P4, e, Q6)
        /\ Regroups(P3, d, Q5) /\ Regroups(P2, c, Q4) /\ Regroups(a, b, Q3)
    BY <1>0, <1>2, <1>3, <2>1, <2>2, CodeRegroups
  <2>4. P8 \o Y = P7 \o Q8 /\ P7 \o Q8 = P6 \o Q7
    BY <2>3 DEF Regroups, P8, Q8, P7, Q7
  <2>5. P6 \o Q7 = P5 \o Q6 /\ P5 \o Q6 = P4 \o Q5
    BY <2>3 DEF Regroups, P6, Q6, P5, Q5
  <2>6. P4 \o Q5 = P3 \o Q4 /\ P3 \o Q4 = P2 \o Q3
    BY <2>3 DEF Regroups, P4, Q4, P3, Q3
  <2>7. P2 \o Q3 = a \o Q2
    BY <2>3 DEF Regroups, P2, Q2
  <2>8. P8 \o Y = a \o Q2
    BY <2>4, <2>5, <2>6, <2>7
  <2> QED
    BY <2>8 DEF Nest, Q8, Q7, Q6, Q5, Q4, Q3, Q2
<1> QED
  BY <1>3, <1>4 DEF Row

\* The check is its pieces.
LEMMA CheckPieces ==
  ASSUME NEW s \in Checked
  PROVE  Check(s) \in Codes /\ \A X \in Codes : Check(s) \o X = Asan0(s, X)
<1> DEFINE a1 == When(Adjust(s), <<Lea(-32)>>)
           a2 == When(Save1(s), <<Push(R1(s))>>)
           a3 == When(Save2(s), <<Push(R2(s))>>)
           a4 == When(Unopt(s), <<<<"pushf">>>>)
           a5 == When(SaveRax(s), <<Mov("rax", R2(s))>>)
           a6 == When(Opt(s), FlagsToRax \o <<Push("rax")>>)
           a7 == When(SaveRax(s), <<Mov(R2(s), "rax")>>)
           a8 == When(Pushed(s) > 0, <<Lea(Pushed(s))>>)
           b1 == When(Pushed(s) > 0, <<Lea(-Pushed(s))>>)
           b3 == When(Opt(s), <<Pop("rax")>> \o RaxToFlags)
           b5 == When(Unopt(s), <<<<"popf">>>>)
           b6 == When(Save2(s), <<Pop(R2(s))>>)
           b7 == When(Save1(s), <<Pop(R1(s))>>)
           b8 == When(Adjust(s), <<Lea(32)>>)
           o  == <<<<"operand">>>>
           w  == <<Work(Borrowed(s))>>
           save    == Row(a1, a2, a3, a4, a5, a6, a7, a8)
           restore == Row(b1, a5, b3, a7, b5, b6, b7, b8)
<1>1. /\ R1(s) \in GPRegs /\ R2(s) \in GPRegs /\ "rax" \in GPRegs /\ Borrowed(s) \in SUBSET GPRegs
      /\ Pushed(s) \in Int /\ -Pushed(s) \in Int /\ 32 \in Int /\ -32 \in Int
  BY Scratch, Depths, RegAssumption DEF Borrowed
<1>2. FlagsToRax \o <<Push("rax")>> \in Codes /\ <<Pop("rax")>> \o RaxToFlags \in Codes
  BY <1>1, FlagCodes, CodeTypes, CodeJoins
<1>3. a1 \in Codes /\ a2 \in Codes /\ a3 \in Codes /\ a4 \in Codes
  BY <1>1, CodeTypes, CodeJoins
<1>4. a5 \in Codes /\ a6 \in Codes /\ a7 \in Codes /\ a8 \in Codes
  BY <1>1, <1>2, CodeTypes, CodeJoins
<1>5. b1 \in Codes /\ b3 \in Codes /\ b5 \in Codes
  BY <1>1, <1>2, CodeTypes, CodeJoins
<1>6. b6 \in Codes /\ b7 \in Codes /\ b8 \in Codes /\ o \in Codes /\ w \in Codes
  BY <1>1, CodeTypes, CodeJoins
<1>7. Check(s) = save \o <<<<"operand">>, Work(Borrowed(s))>> \o restore
  BY DEF Check, AsanCode, Gp, Save2, R2, Save1, R1, Unopt, Opt, SaveRax, Adjust, One, Pushed,
         Borrowed, Row
<1>8. <<<<"operand">>, Work(Borrowed(s))>> = o \o w
  OBVIOUS
<1> HIDE DEF a1, a2, a3, a4, a5, a6, a7, a8, b1, b3, b5, b6, b7, b8, o, w
<1>9. /\ save \in Codes /\ restore \in Codes /\ o \o w \in Codes
      /\ \A Z \in Codes : save \o Z = Nest(a1, a2, a3, a4, a5, a6, a7, a8, Z)
      /\ \A Z \in Codes : restore \o Z = Nest(b1, a5, b3, a7, b5, b6, b7, b8, Z)
  <2>1. save \in Codes /\ \A Z \in Codes : save \o Z = Nest(a1, a2, a3, a4, a5, a6, a7, a8, Z)
    <3>1. Pieces(a1, a2, a3, a4, a5, a6, a7, a8)
      BY <1>3, <1>4 DEF Pieces
    <3> QED
      BY <3>1, Regrouped
  <2>2. restore \in Codes /\ \A Z \in Codes : restore \o Z = Nest(b1, a5, b3, a7, b5, b6, b7, b8, Z)
    <3>1. Pieces(b1, a5, b3, a7, b5, b6, b7, b8)
      BY <1>4, <1>5, <1>6 DEF Pieces
    <3> QED
      BY <3>1, Regrouped
  <2> QED
    BY <1>6, <2>1, <2>2, CodeJoins
<1>10. ASSUME NEW X \in Codes PROVE Check(s) \o X = Asan0(s, X)
  <2>1. restore \o X = Nest(b1, a5, b3, a7, b5, b6, b7, b8, X)
    BY <1>9
  <2>2. restore \o X = Asan12(s, X)
    BY <2>1 DEF Nest, Asan12, Asan13, Asan14, Asan17, Asan18, Asan19, Asan20, Asan21,
                b1, a5, b3, a7, b5, b6, b7, b8
  <2> DEFINE Y == o \o (w \o (restore \o X))
  <2>3. Y = Asan10(s, X) /\ Y \in Codes
    BY <2>2, <1>6, AsanPieces DEF Asan10, Asan11, o, w
  <2>4. save \o Y = Nest(a1, a2, a3, a4, a5, a6, a7, a8, Y)
    BY <1>9, <2>3
  <2>5. save \o Y = Asan0(s, X)
    BY <2>3, <2>4 DEF Nest, Asan0, Asan1, Asan2, Asan3, Asan4, Asan5, Asan8, Asan9,
                      a1, a2, a3, a4, a5, a6, a7, a8
  <2> HIDE DEF save, restore
  <2>6. Check(s) \o X = save \o Y
    <3> DEFINE m == o \o w
               r == restore \o X
    <3>1. r \in Codes /\ m \in Codes /\ save \o m \in Codes /\ w \in Codes /\ o \in Codes
      BY <1>6, <1>9, Joined
    <3>2. /\ Regroups(save \o m, restore, X) /\ Regroups(save, m, r) /\ Regroups(o, w, r)
      BY <1>9, <3>1, CodeRegroups
    <3> HIDE DEF m
    <3>3. (save \o m \o restore) \o X = (save \o m) \o r
      BY <3>2 DEF Regroups
    <3> HIDE DEF r
    <3>4. (save \o m) \o r = save \o (m \o r)
      BY <3>2 DEF Regroups
    <3>5. m \o r = Y
      BY <3>2 DEF Regroups, m, r
    <3>6. Check(s) = save \o m \o restore
      BY <1>7, <1>8 DEF m
    <3> QED
      BY <3>3, <3>4, <3>5, <3>6
  <2> QED
    BY <2>5, <2>6
<1>11. Check(s) \in Codes
  <2> HIDE DEF save, restore
  <2>1. save \o (o \o w) \in Codes
    BY <1>9, CodeJoins
  <2>2. save \o (o \o w) \o restore \in Codes
    BY <1>9, <2>1, CodeJoins
  <2> QED
    BY <1>7, <1>8, <2>2
<1> QED
  BY <1>10, <1>11

\* What is left after the last check.
LEMMA AsanEnd ==
  ASSUME NEW s \in Checked, Done(s, <<>>)
  PROVE  Goal
<1>1. Finished /\ site = s /\ Machine({}, 0) /\ FlagsIntact
  BY LeftNone DEF Done, At
<1>2. ~MachineNext
  BY <1>1 DEF MachineNext, DoPush, DoPop, DoPushf, DoPopf, DoLea, DoAdd, DoMov, DoWork, DoLahf,
              DoSeto, DoAdd7f, DoSahf, DoOperand, DoCall, DoReturn, Signal, Executing
<1>3. OperandIntact /\ AlignedAtCall
  BY <1>1 DEF OperandIntact, AlignedAtCall, Executing
<1>4. Transparent
  BY <1>1 DEF Transparent, RegistersIntact, FlagsIntact, Machine, Own
<1>5. RedZonesViaRsp => RedZoneIntact
  BY <1>1 DEF IsLeaf, RedZonesViaRsp, RedZoneIntact, Machine, Own, Spared, Checked
<1> QED
  BY <1>2, <1>3, <1>4, <1>5 DEF Goal, Promises

\* Wherever the code of ASan is, the promises hold and its next step leads on.
LEMMA AsanGoal ==
  ASSUME NoSignalInLeaves, AsanInv
  PROVE  Goal
<1>1. PICK s \in Checked : \E X \in Tails(s) : InAsan(s, X)
  BY DEF AsanInv
<1> DEFINE C == Check(s)
<1>2. /\ C \in Codes /\ <<>> \in Codes /\ C \o C \in Codes /\ C \o C \o C \in Codes
      /\ C \o C \o C = C \o (C \o C)
      /\ \A X \in Codes : C \o X = Asan0(s, X)
      /\ C = C \o <<>>
  <2>1. C \in Codes /\ <<>> \in Codes /\ \A X \in Codes : C \o X = Asan0(s, X)
    BY CheckPieces, CodeTypes
  <2> HIDE DEF C
  <2>2. C \o C \in Codes /\ C = C \o <<>>
    BY <2>1, CodeJoins
  <2>3. C \o C \o C \in Codes /\ C \o C \o C = C \o (C \o C)
    BY <2>1, <2>2, CodeJoins
  <2> QED
    BY <2>1, <2>2, <2>3
<1> HIDE DEF C
<1>3. /\ <<>> \in Tails(s) /\ C \in Tails(s) /\ C \o C \in Tails(s)
      /\ \A X \in Tails(s) : X \in {<<>>, C, C \o C, C \o C \o C}
  BY DEF Tails, C
<1>4. Done(s, <<>>) => Goal
  BY AsanEnd
<1>5. \A X \in Tails(s) : X \in Codes /\ (Done(s, C \o X) => Here0(s, X))
  BY <1>2, <1>3 DEF Done, Here0
<1>6. Done(s, C) => Goal
  <2>1. Done(s, C \o <<>>) => Goal
    BY <1>2, <1>3, <1>4, <1>5, AsanStep0
  <2> QED
    BY <1>2, <2>1
<1>7. Done(s, C \o C) => Goal
  BY <1>3, <1>5, <1>6, AsanStep0
<1>8. Done(s, C \o C \o C) => Goal
  BY <1>2, <1>3, <1>5, <1>7, AsanStep0
<1>9. \A X \in Tails(s) : X \in Codes /\ (Done(s, X) => Goal)
  BY <1>3, <1>4, <1>5, <1>6, <1>7, <1>8
<1>10. PICK X \in Tails(s) : InAsan(s, X)
  BY <1>1
<1>11. X \in Codes /\ (Done(s, X) => Goal)
  BY <1>9
<1>12. /\ Here0(s, X) \/ Here1(s, X) \/ Here2(s, X) \/ Here3(s, X) => Goal
       /\ Here4(s, X) \/ Here5(s, X) \/ Here6(s, X) \/ Here7(s, X) => Goal
  BY <1>11, AsanStep0, AsanStep1, AsanStep2, AsanStep3, AsanStep4, AsanStep5, AsanStep6, AsanStep7
<1>13. /\ Here8(s, X) \/ Here9(s, X) \/ Here10(s, X) \/ Here11(s, X) => Goal
       /\ Here12(s, X) \/ Here13(s, X) \/ Here14(s, X) \/ Here15(s, X) => Goal
  BY <1>11, AsanStep8, AsanStep9, AsanStep10, AsanStep11, AsanStep12, AsanStep13, AsanStep14,
     AsanStep15
<1>14. /\ Here16(s, X) \/ Here17(s, X) \/ Here18(s, X) => Goal
       /\ Here19(s, X) \/ Here20(s, X) \/ Here21(s, X) => Goal
  BY <1>11, AsanStep16, AsanStep17, AsanStep18, AsanStep19, AsanStep20, AsanStep21
<1> QED
  BY <1>10, <1>11, <1>12, <1>13, <1>14 DEF InAsan

\* The code of ASan begins there.
LEMMA AsanStart ==
  ASSUME MachineInit, site.code \in {"asan", "rep_movs"}
  PROVE  AsanInv
<1>1. site \in Checked
  BY DEF MachineInit, Checked
<1> DEFINE C == Check(site)
<1>2. /\ C \in Codes /\ <<>> \in Codes /\ C \o C \in Codes /\ C \o C \o C \in Codes
      /\ C \o C \o C \o C = C \o (C \o C \o C)
      /\ \A X \in Codes : C \o X = Asan0(site, X)
      /\ C = C \o <<>>
  <2>1. C \in Codes /\ <<>> \in Codes /\ \A X \in Codes : C \o X = Asan0(site, X)
    BY <1>1, CheckPieces, CodeTypes
  <2> HIDE DEF C
  <2>2. C \o C \in Codes /\ C \o C \o C \in Codes /\ C = C \o <<>>
    BY <2>1, CodeJoins
  <2>3. C \o C \o C \o C = (C \o C) \o (C \o C) /\ (C \o C) \o (C \o C) = C \o (C \o (C \o C))
        /\ C \o C \o C = C \o (C \o C)
    BY <2>1, <2>2, CodeJoins
  <2> QED
    BY <2>1, <2>2, <2>3
<1>3. site.code = "asan" => Code = C \o <<>>
  BY <1>2 DEF Code, CodeOf, Check
<1>4. site.code = "rep_movs" => Code = C \o (C \o C \o C)
  BY <1>2 DEF Code, CodeOf, RepMovsCode, Check
<1>5. Left(Code)
  <2>1. Len(Code) \in Nat
    BY <1>2, <1>3, <1>4, CodeJoins DEF Codes
  <2> QED
    BY <2>1 DEF Left, MachineInit
<1>6. At(site, {}, 0) /\ FlagsIntact
  BY Starts DEF At, FlagsIntact, MachineInit
<1>7. \E X \in {<<>>, C \o C \o C} : Left(Asan0(site, X))
  BY <1>2, <1>3, <1>4, <1>5
<1>8. \E X \in Tails(site) : Here0(site, X)
  BY <1>6, <1>7 DEF Tails, Here0
<1> QED
  BY <1>1, <1>8 DEF AsanInv, InAsan
-----------------------------------------------------------------------------
(***************************************************************************)
(* The code of the coverage pass.                                          *)
(***************************************************************************)
\* Before an instruction of a pass that keeps what it has pushed at or above
\* the stack pointer.
LEMMA Resting ==
  ASSUME NEW s \in Sites, NEW lent, NEW d \in -35..0, At(s, lent, d),
         NEW i, Plain(i), NEW R \in Codes, NEW c, c = <<i>> \o R, Left(c)
  PROVE  /\ Promises
         /\ Signal => /\ Left(c)' /\ At(s, lent, d)' /\ UNCHANGED <<site, regs, flags>>
                      /\ \A k \in -35..-1 : k >= d => mem'[k] = mem[k]
<1>1. d \in Int /\ Left(<<i>> \o R)
  OBVIOUS
<1>2. Promises
  BY <1>1, Quiet
<1>3. ASSUME Signal
      PROVE  /\ Left(c)' /\ At(s, lent, d)' /\ UNCHANGED <<site, regs, flags>>
             /\ \A k \in StackSlots : k >= d - 16 => mem'[k] = mem[k]
  BY <1>1, <1>3, SignalStep DEF At
<1>4. \A k \in -35..-1 : k >= d => k \in StackSlots /\ k >= d - 16
  BY DEF StackSlots
<1> QED
  BY <1>2, <1>3, <1>4

\* Tuples as sequences of their elements.
LEMMA TupleJoins ==
  ASSUME NEW S, NEW i \in S, NEW j \in S
  PROVE  <<i, j>> = <<i>> \o <<j>> /\ \A k \in S : <<i, j, k>> = <<i>> \o <<j, k>>
<1>1. <<i>> \in Seq(S) /\ <<j>> \in Seq(S) /\ Len(<<i>>) = 1 /\ Len(<<j>>) = 1
  OBVIOUS
<1>2. <<i, j>> = <<i>> \o <<j>>
  <2>1. \A s \in Seq(S) : Len(s) = 2 => s = <<s[1], s[2]>>
    OBVIOUS
  <2>2. <<i>> \o <<j>> \in Seq(S)
    BY <1>1
  <2>3. Len(<<i>> \o <<j>>) = 2 /\ (<<i>> \o <<j>>)[1] = i /\ (<<i>> \o <<j>>)[2] = j
    BY <1>1
  <2> QED
    BY <2>1, <2>2, <2>3
<1>3. ASSUME NEW k \in S PROVE <<i, j, k>> = <<i>> \o <<j, k>>
  <2> DEFINE a == <<i>>
             u == <<j, k>>
             t == a \o u
  <2>1. \A s \in Seq(S) : Len(s) = 3 => s = <<s[1], s[2], s[3]>>
    OBVIOUS
  <2>2. /\ a \in Seq(S) /\ Len(a) = 1 /\ a[1] = i
        /\ u \in Seq(S) /\ Len(u) = 2 /\ u[1] = j /\ u[2] = k
    OBVIOUS
  <2> HIDE DEF a, u
  <2>3. /\ t \in Seq(S) /\ Len(t) = Len(a) + Len(u)
        /\ \A n \in 1..Len(a) + Len(u) : t[n] = IF n <= Len(a) THEN a[n] ELSE u[n - Len(a)]
    BY <2>2, ConcatProperties
  <2> HIDE DEF t
  <2>4. Len(t) = 3 /\ t[1] = a[1] /\ t[2] = u[1] /\ t[3] = u[2]
    BY <2>2, <2>3
  <2>5. t = <<i, j, k>>
    BY <2>1, <2>2, <2>3, <2>4
  <2> QED
    BY <2>5 DEF t, a, u
<1> QED
  BY <1>2, <1>3

\* An instruction that stands alone.
LEMMA Singles == \A i : <<i>> \in Codes => i \in Instructions
<1>1. \A i : <<i>>[1] = i /\ Len(<<i>>) = 1
  OBVIOUS
<1> HIDE DEF Instructions
<1>2. \A s \in Seq(Instructions) : Len(s) = 1 => s[1] \in Instructions
  OBVIOUS
<1> QED
  BY <1>1, <1>2 DEF Codes

\* Two or three instructions in a row.
Two(i, j) == /\ <<i, j>> \in Codes
             /\ \A Y \in Codes : <<i, j>> \o Y = <<i>> \o (<<j>> \o Y)
Three(i, j, k) == /\ <<i, j, k>> \in Codes
                  /\ \A Y \in Codes : <<i, j, k>> \o Y = <<i>> \o (<<j>> \o (<<k>> \o Y))
LEMMA Twos == \A i, j : <<i>> \in Codes /\ <<j>> \in Codes => Two(i, j)
<1> SUFFICES ASSUME NEW i, NEW j, <<i>> \in Codes, <<j>> \in Codes PROVE Two(i, j)
  OBVIOUS
<1>1. i \in Instructions /\ j \in Instructions
  BY Singles
<1>2. <<i, j>> = <<i>> \o <<j>>
  <2> HIDE DEF Instructions
  <2> QED
    BY <1>1, TupleJoins
<1>3. <<i, j>> \in Codes
  BY <1>2, CodeJoins
<1>4. ASSUME NEW Y \in Codes PROVE <<i, j>> \o Y = <<i>> \o (<<j>> \o Y)
  <2>1. Regroups(<<i>>, <<j>>, Y)
    BY CodeRegroups
  <2> QED
    BY <1>2, <2>1 DEF Regroups
<1> QED
  BY <1>3, <1>4 DEF Two
LEMMA Threes == \A i, j, k : <<i>> \in Codes /\ <<j>> \in Codes /\ <<k>> \in Codes => Three(i, j, k)
<1> SUFFICES ASSUME NEW i, NEW j, NEW k, <<i>> \in Codes, <<j>> \in Codes, <<k>> \in Codes
             PROVE  Three(i, j, k)
  OBVIOUS
<1>1. i \in Instructions /\ j \in Instructions /\ k \in Instructions
  BY Singles
<1>2. <<i, j, k>> = <<i>> \o <<j, k>>
  <2> HIDE DEF Instructions
  <2>1. \A l \in Instructions : <<i, j, l>> = <<i>> \o <<j, l>>
    BY <1>1, TupleJoins
  <2> QED
    BY <1>1, <2>1
<1>3. Two(j, k)
  BY Twos
<1>4. <<j, k>> \in Codes /\ \A Y \in Codes : <<j, k>> \o Y = <<j>> \o (<<k>> \o Y)
  BY <1>3 DEF Two
<1>5. <<i, j, k>> \in Codes
  <2>1. <<i>> \o <<j, k>> \in Codes
    BY <1>4, Joined
  <2> QED
    BY <1>2, <2>1
<1>6. ASSUME NEW Y \in Codes PROVE <<i, j, k>> \o Y = <<i>> \o (<<j>> \o (<<k>> \o Y))
  <2>1. Regroups(<<i>>, <<j, k>>, Y)
    BY <1>4, CodeRegroups
  <2>2. <<i, j, k>> \o Y = <<i>> \o (<<j, k>> \o Y)
    BY <1>2, <2>1 DEF Regroups
  <2>3. <<j, k>> \o Y = <<j>> \o (<<k>> \o Y)
    BY <1>4
  <2> QED
    BY <2>2, <2>3
<1> QED
  BY <1>5, <1>6 DEF Three

Counted == {s \in Sites : s.code = "coverage"}

Cov13    == <<Pop("rax")>> \o <<>>
Cov12    == <<<<"sahf">>>> \o Cov13
Cov11    == <<<<"add7f">>>> \o Cov12
Cov10    == <<Pop("rax")>> \o Cov11
Cov9     == <<Pop("rcx")>> \o Cov10
Cov8     == <<Work({"rcx"})>> \o Cov9
Cov7     == <<Work({"rcx"})>> \o Cov8
Cov6(s)  == When(s.mapped, <<Work({"rcx"}), Work({"rcx"})>>) \o Cov9
Cov5(s)  == <<Work({"rax"})>> \o Cov6(s)
Cov4(s)  == <<Push("rcx")>> \o Cov5(s)
Cov3(s)  == <<Push("rax")>> \o Cov4(s)
Cov2(s)  == <<<<"seto">>>> \o Cov3(s)
Cov1(s)  == <<<<"lahf">>>> \o Cov2(s)
Cov0(s)  == <<Push("rax")>> \o Cov1(s)

\* What a word says about the flags of a program that needs them.
Low(s, p)       == "rflags" \notin s.free => p = ProgramFlags.low
Overflow(s, p)  == "rflags" \notin s.free => p = ProgramFlags.of
FlagWord(s, w)  == w \in RegWords /\ Low(s, w.ah) /\ Overflow(s, w.al)
RaxKept(s)      == Restores(s, mem[-1], "rax")
FlagsKept(s)    == FlagWord(s, mem[-2])
RcxKept(s)      == Restores(s, mem[-3], "rcx")

Cover0(s)  == Left(Cov0(s)) /\ At(s, {}, 0) /\ FlagsIntact
Cover1(s)  == Left(Cov1(s)) /\ At(s, {}, -1) /\ FlagsIntact /\ RaxKept(s)
Cover2(s)  == /\ Left(Cov2(s)) /\ At(s, {"rax"}, -1) /\ FlagsIntact /\ RaxKept(s)
              /\ Low(s, regs["rax"].ah)
Cover3(s)  == Left(Cov3(s)) /\ At(s, {"rax"}, -1) /\ RaxKept(s) /\ FlagWord(s, regs["rax"])
Cover4(s)  == Left(Cov4(s)) /\ At(s, {"rax"}, -2) /\ RaxKept(s) /\ FlagsKept(s)
Cover5(s)  == Left(Cov5(s)) /\ At(s, {"rax"}, -3) /\ RaxKept(s) /\ FlagsKept(s) /\ RcxKept(s)
Cover6(s)  == Left(Cov6(s)) /\ At(s, {"rax"}, -3) /\ RaxKept(s) /\ FlagsKept(s) /\ RcxKept(s)
Cover7(s)  == Left(Cov7) /\ At(s, {"rax"}, -3) /\ RaxKept(s) /\ FlagsKept(s) /\ RcxKept(s)
Cover8(s)  == Left(Cov8) /\ At(s, {"rax", "rcx"}, -3) /\ RaxKept(s) /\ FlagsKept(s) /\ RcxKept(s)
Cover9(s)  == Left(Cov9) /\ At(s, {"rax", "rcx"}, -3) /\ RaxKept(s) /\ FlagsKept(s) /\ RcxKept(s)
Cover10(s) == Left(Cov10) /\ At(s, {"rax"}, -2) /\ RaxKept(s) /\ FlagsKept(s)
Cover11(s) == Left(Cov11) /\ At(s, {"rax"}, -1) /\ RaxKept(s) /\ FlagWord(s, regs["rax"])
Cover12(s) == /\ Left(Cov12) /\ At(s, {"rax"}, -1) /\ RaxKept(s)
              /\ Low(s, regs["rax"].ah) /\ Overflow(s, flags.of)
Cover13(s) == Left(Cov13) /\ At(s, {"rax"}, -1) /\ RaxKept(s) /\ FlagsIntact
Cover14(s) == Left(<<>>) /\ At(s, {}, 0) /\ FlagsIntact

InCover(s) == \/ Cover0(s) \/ Cover1(s) \/ Cover2(s) \/ Cover3(s) \/ Cover4(s) \/ Cover5(s)
              \/ Cover6(s) \/ Cover7(s) \/ Cover8(s) \/ Cover9(s) \/ Cover10(s)
              \/ Cover11(s) \/ Cover12(s) \/ Cover13(s) \/ Cover14(s)
CoverInv == \E s \in Counted : InCover(s)

\* The pieces are code.
LEMMA CoverPieces ==
  ASSUME NEW s \in Counted
  PROVE  /\ <<>> \in Codes /\ Cov13 \in Codes /\ Cov12 \in Codes /\ Cov11 \in Codes
         /\ Cov10 \in Codes /\ Cov9 \in Codes /\ Cov8 \in Codes /\ Cov7 \in Codes
         /\ Cov6(s) \in Codes /\ Cov5(s) \in Codes /\ Cov4(s) \in Codes /\ Cov3(s) \in Codes
         /\ Cov2(s) \in Codes /\ Cov1(s) \in Codes
<1>1. {"rax", "rcx"} \subseteq GPRegs /\ {"rax"} \in SUBSET GPRegs /\ {"rcx"} \in SUBSET GPRegs
  BY RegAssumption
<1>2. <<Work({"rcx"})>> \in Codes
  BY <1>1, CodeTypes
<1>3. <<Work({"rcx"}), Work({"rcx"})>> \in Codes
  BY <1>2, Twos DEF Two
<1>4. <<>> \in Codes /\ Cov13 \in Codes /\ Cov12 \in Codes
  BY <1>1, CodeTypes, CodeJoins DEF Cov13, Cov12
<1>5. Cov11 \in Codes /\ Cov10 \in Codes /\ Cov9 \in Codes
  BY <1>1, <1>4, CodeTypes, CodeJoins DEF Cov11, Cov10, Cov9
<1>6. Cov8 \in Codes /\ Cov7 \in Codes /\ Cov6(s) \in Codes
  BY <1>1, <1>3, <1>5, CodeTypes, CodeJoins DEF Cov8, Cov7, Cov6
<1>7. Cov5(s) \in Codes /\ Cov4(s) \in Codes /\ Cov3(s) \in Codes
  BY <1>1, <1>6, CodeTypes, CodeJoins DEF Cov5, Cov4, Cov3
<1>8. Cov2(s) \in Codes /\ Cov1(s) \in Codes
  BY <1>1, <1>7, CodeTypes, CodeJoins DEF Cov2, Cov1
<1> QED
  BY <1>4, <1>5, <1>6, <1>7, <1>8

\* The slots below the program's are free.
LEMMA Below ==
  ASSUME NEW s \in Sites, s.code \in {"coverage", "trace"}, site = s
  PROVE  \A k \in -35..-1 : k \in StackSlots \ Own
<1>1. Own \subseteq 0..2
  BY OwnSlots DEF Spared
<1> QED
  BY <1>1 DEF StackSlots

\* push %rax.
LEMMA CoverStep0 ==
  ASSUME NEW s \in Counted, Cover0(s)
  PROVE  Promises /\ (MachineNext => Cover0(s)' \/ Cover1(s)')
<1>1. /\ Left(Cov0(s)) /\ At(s, {}, 0) /\ site = s /\ Machine({}, 0)
      /\ FlagsIntact
  BY DEF Cover0, At
<1>2. /\ Cov1(s) \in Codes /\ Plain(Push("rax")) /\ s \in Sites /\ "rax" \in GPRegs /\ "rcx" \in GPRegs
      /\ 0 \in Int /\ 0 \in -35..0
  BY CoverPieces, Operations, RegAssumption DEF Counted
<1>3. Cov0(s) = <<Push("rax")>> \o Cov1(s) /\ Left(<<Push("rax")>> \o Cov1(s))
  BY <1>1 DEF Cov0
<1>4. Promises
  BY <1>1, <1>2, <1>3, Resting
<1>5. ASSUME Signal PROVE Cover0(s)'
  <2>1. /\ Left(Cov0(s))' /\ At(s, {}, 0)' /\ UNCHANGED <<site, regs, flags>>
        /\ \A k \in -35..-1 : k >= 0 => mem'[k] = mem[k]
    BY <1>1, <1>2, <1>3, <1>5, Resting
  <2> QED
    BY <1>1, <2>1 DEF Cover0, FlagsIntact
<1>6. ASSUME MachineNext, ~Signal PROVE Cover1(s)'
  <2>1. /\ Left(Cov1(s))' /\ Machine({}, 0 - 1)' /\ UNCHANGED <<site, regs, flags>>
        /\ mem'[0 - 1] = regs["rax"]
        /\ \A k \in StackSlots : k # 0 - 1 => mem'[k] = mem[k]
    <3>1. 0 - 1 \in StackSlots \ Own
      BY <1>1, <1>2, Below DEF Counted
    <3> QED
      BY <1>1, <1>2, <1>3, <1>6, <3>1, PushStep
  <2>2. At(s, {}, -1)' /\ mem'[-1] = regs["rax"]
        /\ \A k \in -35..-1 : k # -1 => mem'[k] = mem[k]
    BY <1>1, <2>1 DEF At, StackSlots
  <2>3. Restores(s, regs["rax"], "rax")
    BY <1>1, <1>2 DEF Machine, Restores
  <2> QED
    BY <1>1, <2>1, <2>2, <2>3 DEF Cover1, RaxKept, Restores, FlagsIntact
<1> QED
  BY <1>4, <1>5, <1>6

\* lahf.
LEMMA CoverStep1 ==
  ASSUME NEW s \in Counted, Cover1(s)
  PROVE  Promises /\ (MachineNext => Cover1(s)' \/ Cover2(s)')
<1>1. /\ Left(Cov1(s)) /\ At(s, {}, -1) /\ site = s /\ Machine({}, -1)
      /\ FlagsIntact /\ RaxKept(s)
  BY DEF Cover1, At
<1>2. /\ Cov2(s) \in Codes /\ Plain(<<"lahf">>) /\ s \in Sites /\ "rax" \in GPRegs /\ "rcx" \in GPRegs
      /\ -1 \in Int /\ -1 \in -35..0
  BY CoverPieces, Operations, RegAssumption DEF Counted
<1>3. Cov1(s) = <<<<"lahf">>>> \o Cov2(s) /\ Left(<<<<"lahf">>>> \o Cov2(s))
  BY <1>1 DEF Cov1
<1>4. Promises
  BY <1>1, <1>2, <1>3, Resting
<1>5. ASSUME Signal PROVE Cover1(s)'
  <2>1. /\ Left(Cov1(s))' /\ At(s, {}, -1)' /\ UNCHANGED <<site, regs, flags>>
        /\ \A k \in -35..-1 : k >= -1 => mem'[k] = mem[k]
    BY <1>1, <1>2, <1>3, <1>5, Resting
  <2> QED
    BY <1>1, <2>1 DEF Cover1, FlagsIntact, RaxKept, Restores
<1>6. ASSUME MachineNext, ~Signal PROVE Cover2(s)'
  <2>1. /\ Left(Cov2(s))' /\ UNCHANGED <<site, flags, mem>> /\ Machine({} \cup {"rax"}, -1)'
        /\ regs'["rax"].ah = flags.low
    BY <1>1, <1>2, <1>3, <1>6, LahfStep
  <2>2. At(s, {"rax"}, -1)'
    BY <1>1, <1>2, <2>1, Lend
  <2> QED
    BY <1>1, <2>1, <2>2 DEF Cover2, FlagsIntact, RaxKept, Restores, Low
<1> QED
  BY <1>4, <1>5, <1>6

\* seto %al.
LEMMA CoverStep2 ==
  ASSUME NEW s \in Counted, Cover2(s)
  PROVE  Promises /\ (MachineNext => Cover2(s)' \/ Cover3(s)')
<1>1. /\ Left(Cov2(s)) /\ At(s, {"rax"}, -1) /\ site = s /\ Machine({"rax"}, -1)
      /\ FlagsIntact /\ RaxKept(s) /\ Low(s, regs["rax"].ah)
  BY DEF Cover2, At
<1>2. /\ Cov3(s) \in Codes /\ Plain(<<"seto">>) /\ s \in Sites /\ "rax" \in GPRegs /\ "rcx" \in GPRegs
      /\ -1 \in Int /\ -1 \in -35..0
  BY CoverPieces, Operations, RegAssumption DEF Counted
<1>3. Cov2(s) = <<<<"seto">>>> \o Cov3(s) /\ Left(<<<<"seto">>>> \o Cov3(s))
  BY <1>1 DEF Cov2
<1>4. Promises
  BY <1>1, <1>2, <1>3, Resting
<1>5. ASSUME Signal PROVE Cover2(s)'
  <2>1. /\ Left(Cov2(s))' /\ At(s, {"rax"}, -1)' /\ UNCHANGED <<site, regs, flags>>
        /\ \A k \in -35..-1 : k >= -1 => mem'[k] = mem[k]
    BY <1>1, <1>2, <1>3, <1>5, Resting
  <2> QED
    BY <1>1, <2>1 DEF Cover2, FlagsIntact, Low, RaxKept, Restores
<1>6. ASSUME MachineNext, ~Signal PROVE Cover3(s)'
  <2>1. /\ Left(Cov3(s))' /\ UNCHANGED <<site, flags, mem>> /\ Machine({"rax"} \cup {"rax"}, -1)'
        /\ regs'["rax"].ah = regs["rax"].ah /\ regs'["rax"].al = flags.of
    BY <1>1, <1>2, <1>3, <1>6, SetoStep
  <2>2. At(s, {"rax"}, -1)'
    BY <1>1, <1>2, <2>1, Lend
  <2>3. FlagWord(s, regs["rax"])'
    BY <1>1, <1>2, <2>1 DEF FlagWord, Low, Overflow, FlagsIntact, Machine
  <2> QED
    BY <1>1, <2>1, <2>2, <2>3 DEF Cover3, RaxKept, Restores
<1> QED
  BY <1>4, <1>5, <1>6

\* push %rax.
LEMMA CoverStep3 ==
  ASSUME NEW s \in Counted, Cover3(s)
  PROVE  Promises /\ (MachineNext => Cover3(s)' \/ Cover4(s)')
<1>1. /\ Left(Cov3(s)) /\ At(s, {"rax"}, -1) /\ site = s /\ Machine({"rax"}, -1)
      /\ RaxKept(s) /\ FlagWord(s, regs["rax"])
  BY DEF Cover3, At
<1>2. /\ Cov4(s) \in Codes /\ Plain(Push("rax")) /\ s \in Sites /\ "rax" \in GPRegs /\ "rcx" \in GPRegs
      /\ -1 \in Int /\ -1 \in -35..0
  BY CoverPieces, Operations, RegAssumption DEF Counted
<1>3. Cov3(s) = <<Push("rax")>> \o Cov4(s) /\ Left(<<Push("rax")>> \o Cov4(s))
  BY <1>1 DEF Cov3
<1>4. Promises
  BY <1>1, <1>2, <1>3, Resting
<1>5. ASSUME Signal PROVE Cover3(s)'
  <2>1. /\ Left(Cov3(s))' /\ At(s, {"rax"}, -1)' /\ UNCHANGED <<site, regs, flags>>
        /\ \A k \in -35..-1 : k >= -1 => mem'[k] = mem[k]
    BY <1>1, <1>2, <1>3, <1>5, Resting
  <2> QED
    BY <1>1, <2>1 DEF Cover3, FlagWord, Low, Overflow, RaxKept, Restores
<1>6. ASSUME MachineNext, ~Signal PROVE Cover4(s)'
  <2>1. /\ Left(Cov4(s))' /\ Machine({"rax"}, -1 - 1)' /\ UNCHANGED <<site, regs, flags>>
        /\ mem'[-1 - 1] = regs["rax"]
        /\ \A k \in StackSlots : k # -1 - 1 => mem'[k] = mem[k]
    <3>1. -1 - 1 \in StackSlots \ Own
      BY <1>1, <1>2, Below DEF Counted
    <3> QED
      BY <1>1, <1>2, <1>3, <1>6, <3>1, PushStep
  <2>2. At(s, {"rax"}, -2)' /\ mem'[-2] = regs["rax"]
        /\ \A k \in -35..-1 : k # -2 => mem'[k] = mem[k]
    BY <1>1, <2>1 DEF At, StackSlots
  <2>3. RaxKept(s)' /\ FlagsKept(s)'
    BY <1>1, <2>2 DEF RaxKept, FlagsKept, Restores, FlagWord, Low, Overflow
  <2> QED
    BY <2>1, <2>2, <2>3 DEF Cover4
<1> QED
  BY <1>4, <1>5, <1>6

\* push %rcx.
LEMMA CoverStep4 ==
  ASSUME NEW s \in Counted, Cover4(s)
  PROVE  Promises /\ (MachineNext => Cover4(s)' \/ Cover5(s)')
<1>1. /\ Left(Cov4(s)) /\ At(s, {"rax"}, -2) /\ site = s /\ Machine({"rax"}, -2)
      /\ RaxKept(s) /\ FlagsKept(s)
  BY DEF Cover4, At
<1>2. /\ Cov5(s) \in Codes /\ Plain(Push("rcx")) /\ s \in Sites /\ "rax" \in GPRegs /\ "rcx" \in GPRegs
      /\ -2 \in Int /\ -2 \in -35..0
  BY CoverPieces, Operations, RegAssumption DEF Counted
<1>3. Cov4(s) = <<Push("rcx")>> \o Cov5(s) /\ Left(<<Push("rcx")>> \o Cov5(s))
  BY <1>1 DEF Cov4
<1>4. Promises
  BY <1>1, <1>2, <1>3, Resting
<1>5. ASSUME Signal PROVE Cover4(s)'
  <2>1. /\ Left(Cov4(s))' /\ At(s, {"rax"}, -2)' /\ UNCHANGED <<site, regs, flags>>
        /\ \A k \in -35..-1 : k >= -2 => mem'[k] = mem[k]
    BY <1>1, <1>2, <1>3, <1>5, Resting
  <2> QED
    BY <1>1, <2>1 DEF Cover4, FlagWord, FlagsKept, Low, Overflow, RaxKept, Restores
<1>6. ASSUME MachineNext, ~Signal PROVE Cover5(s)'
  <2>1. /\ Left(Cov5(s))' /\ Machine({"rax"}, -2 - 1)' /\ UNCHANGED <<site, regs, flags>>
        /\ mem'[-2 - 1] = regs["rcx"]
        /\ \A k \in StackSlots : k # -2 - 1 => mem'[k] = mem[k]
    <3>1. -2 - 1 \in StackSlots \ Own
      BY <1>1, <1>2, Below DEF Counted
    <3> QED
      BY <1>1, <1>2, <1>3, <1>6, <3>1, PushStep
  <2>2. At(s, {"rax"}, -3)' /\ mem'[-3] = regs["rcx"]
        /\ \A k \in -35..-1 : k # -3 => mem'[k] = mem[k]
    BY <1>1, <2>1 DEF At, StackSlots
  <2>3. Restores(s, regs["rcx"], "rcx")
    BY <1>1, <1>2 DEF Machine, Restores
  <2>4. RaxKept(s)' /\ FlagsKept(s)' /\ RcxKept(s)'
    BY <1>1, <2>2, <2>3 DEF RaxKept, FlagsKept, RcxKept, Restores, FlagWord, Low, Overflow
  <2> QED
    BY <2>1, <2>2, <2>4 DEF Cover5
<1> QED
  BY <1>4, <1>5, <1>6

\* The branch on the pointer's value.
LEMMA CoverStep5 ==
  ASSUME NEW s \in Counted, Cover5(s)
  PROVE  Promises /\ (MachineNext => Cover5(s)' \/ Cover6(s)')
<1>1. /\ Left(Cov5(s)) /\ At(s, {"rax"}, -3) /\ site = s /\ Machine({"rax"}, -3)
      /\ RaxKept(s) /\ FlagsKept(s) /\ RcxKept(s)
  BY DEF Cover5, At
<1>2. /\ Cov6(s) \in Codes /\ Plain(Work({"rax"})) /\ s \in Sites /\ "rax" \in GPRegs /\ "rcx" \in GPRegs
      /\ -3 \in Int /\ -3 \in -35..0
  BY CoverPieces, Operations, RegAssumption DEF Counted
<1>3. Cov5(s) = <<Work({"rax"})>> \o Cov6(s) /\ Left(<<Work({"rax"})>> \o Cov6(s))
  BY <1>1 DEF Cov5
<1>4. Promises
  BY <1>1, <1>2, <1>3, Resting
<1>5. ASSUME Signal PROVE Cover5(s)'
  <2>1. /\ Left(Cov5(s))' /\ At(s, {"rax"}, -3)' /\ UNCHANGED <<site, regs, flags>>
        /\ \A k \in -35..-1 : k >= -3 => mem'[k] = mem[k]
    BY <1>1, <1>2, <1>3, <1>5, Resting
  <2> QED
    BY <1>1, <2>1 DEF Cover5, FlagWord, FlagsKept, Low, Overflow, RaxKept, RcxKept, Restores
<1>6. ASSUME MachineNext, ~Signal PROVE Cover6(s)'
  <2>1. Left(Cov6(s))' /\ UNCHANGED <<site, mem>> /\ Machine({"rax"} \cup {"rax"}, -3)'
    BY <1>1, <1>2, <1>3, <1>6, WorkStep
  <2>2. At(s, {"rax"}, -3)'
    BY <1>1, <1>2, <2>1, Lend
  <2> QED
    BY <1>1, <2>1, <2>2 DEF Cover6, RaxKept, FlagsKept, RcxKept, Restores, FlagWord, Low, Overflow
<1> QED
  BY <1>4, <1>5, <1>6

\* The counter's index.
LEMMA CoverStep7 ==
  ASSUME NEW s \in Counted, Cover7(s)
  PROVE  Promises /\ (MachineNext => Cover7(s)' \/ Cover8(s)')
<1>1. /\ Left(Cov7) /\ At(s, {"rax"}, -3) /\ site = s /\ Machine({"rax"}, -3)
      /\ RaxKept(s) /\ FlagsKept(s) /\ RcxKept(s)
  BY DEF Cover7, At
<1>2. /\ Cov8 \in Codes /\ Plain(Work({"rcx"})) /\ s \in Sites /\ "rax" \in GPRegs /\ "rcx" \in GPRegs
      /\ -3 \in Int /\ -3 \in -35..0
  BY CoverPieces, Operations, RegAssumption DEF Counted
<1>3. Cov7 = <<Work({"rcx"})>> \o Cov8 /\ Left(<<Work({"rcx"})>> \o Cov8)
  BY <1>1 DEF Cov7
<1>4. Promises
  BY <1>1, <1>2, <1>3, Resting
<1>5. ASSUME Signal PROVE Cover7(s)'
  <2>1. /\ Left(Cov7)' /\ At(s, {"rax"}, -3)' /\ UNCHANGED <<site, regs, flags>>
        /\ \A k \in -35..-1 : k >= -3 => mem'[k] = mem[k]
    BY <1>1, <1>2, <1>3, <1>5, Resting
  <2> QED
    BY <1>1, <2>1 DEF Cover7, FlagWord, FlagsKept, Low, Overflow, RaxKept, RcxKept, Restores
<1>6. ASSUME MachineNext, ~Signal PROVE Cover8(s)'
  <2>1. Left(Cov8)' /\ UNCHANGED <<site, mem>> /\ Machine({"rax"} \cup {"rcx"}, -3)'
    BY <1>1, <1>2, <1>3, <1>6, WorkStep
  <2>2. At(s, {"rax", "rcx"}, -3)'
    BY <1>1, <1>2, <2>1, Lend
  <2> QED
    BY <1>1, <2>1, <2>2 DEF Cover8, RaxKept, FlagsKept, RcxKept, Restores, FlagWord, Low, Overflow
<1> QED
  BY <1>4, <1>5, <1>6

\* The counter.
LEMMA CoverStep8 ==
  ASSUME NEW s \in Counted, Cover8(s)
  PROVE  Promises /\ (MachineNext => Cover8(s)' \/ Cover9(s)')
<1>1. /\ Left(Cov8) /\ At(s, {"rax", "rcx"}, -3) /\ site = s /\ Machine({"rax", "rcx"}, -3)
      /\ RaxKept(s) /\ FlagsKept(s) /\ RcxKept(s)
  BY DEF Cover8, At
<1>2. /\ Cov9 \in Codes /\ Plain(Work({"rcx"})) /\ s \in Sites /\ "rax" \in GPRegs /\ "rcx" \in GPRegs
      /\ -3 \in Int /\ -3 \in -35..0
  BY CoverPieces, Operations, RegAssumption DEF Counted
<1>3. Cov8 = <<Work({"rcx"})>> \o Cov9 /\ Left(<<Work({"rcx"})>> \o Cov9)
  BY <1>1 DEF Cov8
<1>4. Promises
  BY <1>1, <1>2, <1>3, Resting
<1>5. ASSUME Signal PROVE Cover8(s)'
  <2>1. /\ Left(Cov8)' /\ At(s, {"rax", "rcx"}, -3)' /\ UNCHANGED <<site, regs, flags>>
        /\ \A k \in -35..-1 : k >= -3 => mem'[k] = mem[k]
    BY <1>1, <1>2, <1>3, <1>5, Resting
  <2> QED
    BY <1>1, <2>1 DEF Cover8, FlagWord, FlagsKept, Low, Overflow, RaxKept, RcxKept, Restores
<1>6. ASSUME MachineNext, ~Signal PROVE Cover9(s)'
  <2>1. Left(Cov9)' /\ UNCHANGED <<site, mem>> /\ Machine({"rax", "rcx"} \cup {"rcx"}, -3)'
    BY <1>1, <1>2, <1>3, <1>6, WorkStep
  <2>2. At(s, {"rax", "rcx"}, -3)'
    BY <1>1, <1>2, <2>1, Lend
  <2> QED
    BY <1>1, <2>1, <2>2 DEF Cover9, RaxKept, FlagsKept, RcxKept, Restores, FlagWord, Low, Overflow
<1> QED
  BY <1>4, <1>5, <1>6

\* pop %rcx.
LEMMA CoverStep9 ==
  ASSUME NEW s \in Counted, Cover9(s)
  PROVE  Promises /\ (MachineNext => Cover9(s)' \/ Cover10(s)')
<1>1. /\ Left(Cov9) /\ At(s, {"rax", "rcx"}, -3) /\ site = s /\ Machine({"rax", "rcx"}, -3)
      /\ RaxKept(s) /\ FlagsKept(s) /\ RcxKept(s)
  BY DEF Cover9, At
<1>2. /\ Cov10 \in Codes /\ Plain(Pop("rcx")) /\ s \in Sites /\ "rax" \in GPRegs /\ "rcx" \in GPRegs
      /\ -3 \in Int /\ -3 \in -35..0
  BY CoverPieces, Operations, RegAssumption DEF Counted
<1>3. Cov9 = <<Pop("rcx")>> \o Cov10 /\ Left(<<Pop("rcx")>> \o Cov10)
  BY <1>1 DEF Cov9
<1>4. Promises
  BY <1>1, <1>2, <1>3, Resting
<1>5. ASSUME Signal PROVE Cover9(s)'
  <2>1. /\ Left(Cov9)' /\ At(s, {"rax", "rcx"}, -3)' /\ UNCHANGED <<site, regs, flags>>
        /\ \A k \in -35..-1 : k >= -3 => mem'[k] = mem[k]
    BY <1>1, <1>2, <1>3, <1>5, Resting
  <2> QED
    BY <1>1, <2>1 DEF Cover9, FlagWord, FlagsKept, Low, Overflow, RaxKept, RcxKept, Restores
<1>6. ASSUME MachineNext, ~Signal PROVE Cover10(s)'
  <2>1. Restores(s, mem[-3], "rcx")
    BY <1>1 DEF RcxKept
  <2>2. mem[-3] \in RegWords /\ ("rcx" \notin site.free => mem[-3] = ProgramReg("rcx"))
    BY <1>1, <2>1 DEF Restores
  <2>3. /\ Left(Cov10)' /\ UNCHANGED <<site, flags, mem>> /\ regs'["rcx"] = mem[-3]
        /\ Machine({"rax", "rcx"} \ {"rcx"}, -3 + 1)'
    BY <1>1, <1>2, <1>3, <1>6, <2>2, PopStep
  <2>4. At(s, {"rax"}, -2)'
    <3>1. -3 + 1 = -2
      OBVIOUS
    <3> QED
      BY <1>1, <1>2, <2>3, <3>1, Lend
  <2> QED
    BY <1>1, <2>3, <2>4 DEF Cover10, RaxKept, FlagsKept, Restores, FlagWord, Low, Overflow
<1> QED
  BY <1>4, <1>5, <1>6

\* pop %rax.
LEMMA CoverStep10 ==
  ASSUME NEW s \in Counted, Cover10(s)
  PROVE  Promises /\ (MachineNext => Cover10(s)' \/ Cover11(s)')
<1>1. /\ Left(Cov10) /\ At(s, {"rax"}, -2) /\ site = s /\ Machine({"rax"}, -2)
      /\ RaxKept(s) /\ FlagsKept(s)
  BY DEF Cover10, At
<1>2. /\ Cov11 \in Codes /\ Plain(Pop("rax")) /\ s \in Sites /\ "rax" \in GPRegs /\ "rcx" \in GPRegs
      /\ -2 \in Int /\ -2 \in -35..0
  BY CoverPieces, Operations, RegAssumption DEF Counted
<1>3. Cov10 = <<Pop("rax")>> \o Cov11 /\ Left(<<Pop("rax")>> \o Cov11)
  BY <1>1 DEF Cov10
<1>4. Promises
  BY <1>1, <1>2, <1>3, Resting
<1>5. ASSUME Signal PROVE Cover10(s)'
  <2>1. /\ Left(Cov10)' /\ At(s, {"rax"}, -2)' /\ UNCHANGED <<site, regs, flags>>
        /\ \A k \in -35..-1 : k >= -2 => mem'[k] = mem[k]
    BY <1>1, <1>2, <1>3, <1>5, Resting
  <2> QED
    BY <1>1, <2>1 DEF Cover10, FlagWord, FlagsKept, Low, Overflow, RaxKept, Restores
<1>6. ASSUME MachineNext, ~Signal PROVE Cover11(s)'
  <2>1. mem[-2] \in RegWords
    BY <1>1 DEF FlagsKept, FlagWord
  <2>2. mem[-2] \in RegWords
    BY <1>1, <2>1 DEF Restores
  <2>3. /\ Left(Cov11)' /\ UNCHANGED <<site, flags, mem>> /\ regs'["rax"] = mem[-2]
        /\ Machine({"rax"} \cup {"rax"}, -2 + 1)'
    BY <1>1, <1>2, <1>3, <1>6, <2>2, PopStep
  <2>4. At(s, {"rax"}, -1)'
    <3>1. -2 + 1 = -1
      OBVIOUS
    <3> QED
      BY <1>1, <1>2, <2>3, <3>1, Lend
  <2> QED
    BY <1>1, <2>3, <2>4 DEF Cover11, RaxKept, FlagsKept, Restores, FlagWord, Low, Overflow
<1> QED
  BY <1>4, <1>5, <1>6

\* add $0x7f, %al.
LEMMA CoverStep11 ==
  ASSUME NEW s \in Counted, Cover11(s)
  PROVE  Promises /\ (MachineNext => Cover11(s)' \/ Cover12(s)')
<1>1. /\ Left(Cov11) /\ At(s, {"rax"}, -1) /\ site = s /\ Machine({"rax"}, -1)
      /\ RaxKept(s) /\ FlagWord(s, regs["rax"])
  BY DEF Cover11, At
<1>2. /\ Cov12 \in Codes /\ Plain(<<"add7f">>) /\ s \in Sites /\ "rax" \in GPRegs /\ "rcx" \in GPRegs
      /\ -1 \in Int /\ -1 \in -35..0
  BY CoverPieces, Operations, RegAssumption DEF Counted
<1>3. Cov11 = <<<<"add7f">>>> \o Cov12 /\ Left(<<<<"add7f">>>> \o Cov12)
  BY <1>1 DEF Cov11
<1>4. Promises
  BY <1>1, <1>2, <1>3, Resting
<1>5. ASSUME Signal PROVE Cover11(s)'
  <2>1. /\ Left(Cov11)' /\ At(s, {"rax"}, -1)' /\ UNCHANGED <<site, regs, flags>>
        /\ \A k \in -35..-1 : k >= -1 => mem'[k] = mem[k]
    BY <1>1, <1>2, <1>3, <1>5, Resting
  <2> QED
    BY <1>1, <2>1 DEF Cover11, FlagWord, Low, Overflow, RaxKept, Restores
<1>6. ASSUME MachineNext, ~Signal PROVE Cover12(s)'
  <2>1. /\ Left(Cov12)' /\ UNCHANGED <<site, mem>> /\ Machine({"rax"} \cup {"rax"}, -1)'
        /\ regs'["rax"].ah = regs["rax"].ah /\ flags'.of = regs["rax"].al
    BY <1>1, <1>2, <1>3, <1>6, Add7fStep
  <2>2. At(s, {"rax"}, -1)'
    BY <1>1, <1>2, <2>1, Lend
  <2> QED
    BY <1>1, <2>1, <2>2 DEF Cover12, RaxKept, Restores, FlagWord, Low, Overflow
<1> QED
  BY <1>4, <1>5, <1>6

\* sahf.
LEMMA CoverStep12 ==
  ASSUME NEW s \in Counted, Cover12(s)
  PROVE  Promises /\ (MachineNext => Cover12(s)' \/ Cover13(s)')
<1>1. /\ Left(Cov12) /\ At(s, {"rax"}, -1) /\ site = s /\ Machine({"rax"}, -1)
      /\ RaxKept(s) /\ Low(s, regs["rax"].ah) /\ Overflow(s, flags.of)
  BY DEF Cover12, At
<1>2. /\ Cov13 \in Codes /\ Plain(<<"sahf">>) /\ s \in Sites /\ "rax" \in GPRegs /\ "rcx" \in GPRegs
      /\ -1 \in Int /\ -1 \in -35..0
  BY CoverPieces, Operations, RegAssumption DEF Counted
<1>3. Cov12 = <<<<"sahf">>>> \o Cov13 /\ Left(<<<<"sahf">>>> \o Cov13)
  BY <1>1 DEF Cov12
<1>4. Promises
  BY <1>1, <1>2, <1>3, Resting
<1>5. ASSUME Signal PROVE Cover12(s)'
  <2>1. /\ Left(Cov12)' /\ At(s, {"rax"}, -1)' /\ UNCHANGED <<site, regs, flags>>
        /\ \A k \in -35..-1 : k >= -1 => mem'[k] = mem[k]
    BY <1>1, <1>2, <1>3, <1>5, Resting
  <2> QED
    BY <1>1, <2>1 DEF Cover12, Low, Overflow, RaxKept, Restores
<1>6. ASSUME MachineNext, ~Signal PROVE Cover13(s)'
  <2>1. /\ Left(Cov13)' /\ UNCHANGED <<site, regs, mem>> /\ Machine({"rax"}, -1)'
        /\ regs["rax"].ah = ProgramFlags.low /\ flags.of = ProgramFlags.of => flags' = ProgramFlags
    BY <1>1, <1>2, <1>3, <1>6, SahfStep
  <2> QED
    BY <1>1, <2>1 DEF Cover13, At, RaxKept, Restores, Low, Overflow, FlagsIntact
<1> QED
  BY <1>4, <1>5, <1>6

\* pop %rax.
LEMMA CoverStep13 ==
  ASSUME NEW s \in Counted, Cover13(s)
  PROVE  Promises /\ (MachineNext => Cover13(s)' \/ Cover14(s)')
<1>1. /\ Left(Cov13) /\ At(s, {"rax"}, -1) /\ site = s /\ Machine({"rax"}, -1)
      /\ RaxKept(s) /\ FlagsIntact
  BY DEF Cover13, At
<1>2. /\ <<>> \in Codes /\ Plain(Pop("rax")) /\ s \in Sites /\ "rax" \in GPRegs /\ "rcx" \in GPRegs
      /\ -1 \in Int /\ -1 \in -35..0
  BY CoverPieces, Operations, RegAssumption DEF Counted
<1>3. Cov13 = <<Pop("rax")>> \o <<>> /\ Left(<<Pop("rax")>> \o <<>>)
  BY <1>1 DEF Cov13
<1>4. Promises
  BY <1>1, <1>2, <1>3, Resting
<1>5. ASSUME Signal PROVE Cover13(s)'
  <2>1. /\ Left(Cov13)' /\ At(s, {"rax"}, -1)' /\ UNCHANGED <<site, regs, flags>>
        /\ \A k \in -35..-1 : k >= -1 => mem'[k] = mem[k]
    BY <1>1, <1>2, <1>3, <1>5, Resting
  <2> QED
    BY <1>1, <2>1 DEF Cover13, FlagsIntact, RaxKept, Restores
<1>6. ASSUME MachineNext, ~Signal PROVE Cover14(s)'
  <2>1. Restores(s, mem[-1], "rax")
    BY <1>1 DEF RaxKept
  <2>2. mem[-1] \in RegWords /\ ("rax" \notin site.free => mem[-1] = ProgramReg("rax"))
    BY <1>1, <2>1 DEF Restores
  <2>3. /\ Left(<<>>)' /\ UNCHANGED <<site, flags, mem>> /\ regs'["rax"] = mem[-1]
        /\ Machine({"rax"} \ {"rax"}, -1 + 1)'
    BY <1>1, <1>2, <1>3, <1>6, <2>2, PopStep
  <2>4. At(s, {}, 0)'
    <3>1. -1 + 1 = 0
      OBVIOUS
    <3> QED
      BY <1>1, <1>2, <2>3, <3>1, Lend
  <2> QED
    BY <1>1, <2>3, <2>4 DEF Cover14, FlagsIntact
<1> QED
  BY <1>4, <1>5, <1>6

\* The bitmap may not be mapped.
LEMMA CoverStep6 ==
  ASSUME NEW s \in Counted, Cover6(s)
  PROVE  Cover7(s) \/ Cover9(s)
<1>1. s.mapped => Cov6(s) = Cov7
  <2>1. <<Work({"rcx"})>> \in Codes /\ Cov9 \in Codes
    BY CoverPieces, CodeTypes, RegAssumption
  <2>2. Two(Work({"rcx"}), Work({"rcx"}))
    BY <2>1, Twos
  <2>3. <<Work({"rcx"}), Work({"rcx"})>> \o Cov9 = Cov7
    BY <2>1, <2>2 DEF Two, Cov7, Cov8
  <2> QED
    BY <2>3 DEF Cov6, When
<1>2. ~s.mapped => Cov6(s) = Cov9
  BY CoverPieces, Skipped DEF Cov6, When
<1>3. CASE s.mapped
  BY <1>1, <1>3 DEF Cover6, Cover7
<1>4. CASE ~s.mapped
  <2>1. Left(Cov9) /\ At(s, {"rax"}, -3) /\ s \in Sites
    BY <1>2, <1>4 DEF Cover6, Counted
  <2>2. At(s, {"rax", "rcx"}, -3)
    BY <2>1, Lend DEF At
  <2> QED
    BY <2>1, <2>2 DEF Cover6, Cover9
<1> QED
  BY <1>3, <1>4

\* A code that is finished makes no step.
LEMMA Ended == Left(<<>>) => Finished /\ ~MachineNext
<1> SUFFICES ASSUME Left(<<>>) PROVE Finished /\ ~MachineNext
  OBVIOUS
<1>1. Finished
  BY LeftNone
<1> QED
  BY <1>1 DEF MachineNext, DoPush, DoPop, DoPushf, DoPopf, DoLea, DoAdd, DoMov, DoWork, DoLahf,
              DoSeto, DoAdd7f, DoSahf, DoOperand, DoCall, DoReturn, Signal, Executing

\* At the end the promises hold.
LEMMA EndPromises ==
  ASSUME NEW s \in Sites, Left(<<>>), At(s, {}, 0), FlagsIntact \/ ~EntriesNeedNoFlag
  PROVE  Promises
<1>1. Finished /\ site = s /\ Machine({}, 0)
  BY LeftNone DEF At
<1>2. OperandIntact /\ AlignedAtCall
  BY <1>1 DEF OperandIntact, AlignedAtCall, Executing
<1>3. EntriesNeedNoFlag => Transparent
  BY <1>1 DEF Transparent, RegistersIntact, FlagsIntact, Machine, Own
<1>4. RedZonesViaRsp => RedZoneIntact
  BY <1>1 DEF IsLeaf, RedZonesViaRsp, RedZoneIntact, Machine, Own, Spared
<1> QED
  BY <1>2, <1>3, <1>4 DEF Promises

\* Wherever the code of the coverage pass is, the promises hold and its next
\* step leads on.
LEMMA CoverGoal ==
  ASSUME CoverInv
  PROVE  Promises /\ (MachineNext => CoverInv')
<1>1. PICK s \in Counted : InCover(s)
  BY DEF CoverInv
<1>2. CASE Cover0(s) \/ Cover1(s) \/ Cover2(s) \/ Cover3(s) \/ Cover4(s) \/ Cover5(s)
  BY <1>2, CoverStep0, CoverStep1, CoverStep2, CoverStep3, CoverStep4, CoverStep5
     DEF CoverInv, InCover
<1>3. CASE Cover6(s) \/ Cover7(s) \/ Cover8(s) \/ Cover9(s) \/ Cover10(s)
  BY <1>3, CoverStep6, CoverStep7, CoverStep8, CoverStep9, CoverStep10 DEF CoverInv, InCover
<1>4. CASE Cover11(s) \/ Cover12(s) \/ Cover13(s)
  BY <1>4, CoverStep11, CoverStep12, CoverStep13 DEF CoverInv, InCover
<1>5. CASE Cover14(s)
  BY <1>5, Ended, EndPromises DEF Cover14, Counted
<1> QED
  BY <1>1, <1>2, <1>3, <1>4, <1>5 DEF InCover

\* The code of the coverage pass begins there.
LEMMA CoverStart ==
  ASSUME MachineInit, site.code = "coverage"
  PROVE  CoverInv
<1> DEFINE s  == site
           p1 == <<Push("rax")>>
           p3 == <<Push("rax"), Push("rcx"), Work({"rax"})>>
           p4 == When(s.mapped, <<Work({"rcx"}), Work({"rcx"})>>)
           p5 == <<Pop("rcx"), Pop("rax")>>
<1>1. s \in Counted
  BY DEF MachineInit, Counted
<1>2. /\ <<Push("rax")>> \in Codes /\ <<Push("rcx")>> \in Codes /\ <<Work({"rax"})>> \in Codes
      /\ <<Work({"rcx"})>> \in Codes /\ <<Pop("rcx")>> \in Codes /\ <<Pop("rax")>> \in Codes
      /\ <<>> \in Codes
  BY CodeTypes, RegAssumption
<1>3. /\ p3 \in Codes
      /\ \A Y \in Codes : p3 \o Y = <<Push("rax")>> \o (<<Push("rcx")>> \o (<<Work({"rax"})>> \o Y))
  <2>1. Three(Push("rax"), Push("rcx"), Work({"rax"}))
    BY <1>2, Threes
  <2> QED
    BY <2>1 DEF Three
<1>11. p5 \in Codes /\ \A Y \in Codes : p5 \o Y = <<Pop("rcx")>> \o (<<Pop("rax")>> \o Y)
  <2>1. Two(Pop("rcx"), Pop("rax"))
    BY <1>2, Twos
  <2> QED
    BY <2>1 DEF Two
<1>4. p4 \in Codes
  <2>1. <<Work({"rcx"}), Work({"rcx"})>> \in Codes
    BY <1>2, Twos DEF Two
  <2> QED
    BY <2>1, CodeJoins
<1> HIDE DEF s, p3, p4, p5
<1>5. Pieces(p1, FlagsToRax, p3, p4, p5, RaxToFlags, <<Pop("rax")>>, <<>>)
  BY <1>2, <1>3, <1>4, <1>11, FlagCodes DEF Pieces
<1> DEFINE row == Row(p1, FlagsToRax, p3, p4, p5, RaxToFlags, <<Pop("rax")>>, <<>>)
<1>6. row \in Codes /\ row \o <<>> = Nest(p1, FlagsToRax, p3, p4, p5, RaxToFlags, <<Pop("rax")>>, <<>>, <<>>)
  <2>1. \A Y \in Codes : row \o Y = Nest(p1, FlagsToRax, p3, p4, p5, RaxToFlags, <<Pop("rax")>>, <<>>, Y)
    BY <1>5, Regrouped
  <2>2. row \in Codes
    BY <1>5, Regrouped
  <2>3. <<>> \in Codes
    BY <1>2
  <2> HIDE DEF row
  <2>4. row \o <<>> = Nest(p1, FlagsToRax, p3, p4, p5, RaxToFlags, <<Pop("rax")>>, <<>>, <<>>)
    BY <2>1, <2>3
  <2> QED
    BY <2>2, <2>4
<1>7. Code = row
  <2> DEFINE most == p1 \o FlagsToRax \o p3 \o p4 \o p5 \o RaxToFlags \o <<Pop("rax")>>
  <2>1. Code = most
    BY DEF Code, CodeOf, CoverageCode, p3, p4, p5, s
  <2>2. p1 \o FlagsToRax \in Codes /\ p1 \o FlagsToRax \o p3 \in Codes
    BY <1>2, <1>3, FlagCodes, CodeJoins
  <2>3. p1 \o FlagsToRax \o p3 \o p4 \in Codes /\ p1 \o FlagsToRax \o p3 \o p4 \o p5 \in Codes
    BY <1>4, <1>11, <2>2, CodeJoins
  <2>4. most \in Codes
    BY <1>2, <2>3, FlagCodes, CodeJoins
  <2>5. row = most \o <<>>
    BY DEF Row
  <2> HIDE DEF most, row
  <2> QED
    BY <2>1, <2>4, <2>5, CodeJoins
<1>8. Code = Cov0(s) /\ Code \in Codes
  <2> DEFINE c == RaxToFlags \o (<<Pop("rax")>> \o (<<>> \o <<>>))
             b == p4 \o (p5 \o c)
  <2>1. row = row \o <<>>
    BY <1>6, CodeJoins
  <2>2. row = p1 \o (FlagsToRax \o (p3 \o b))
    BY <1>6, <2>1 DEF Nest
  <2>3. c = Cov11
    <3>1. <<>> \o <<>> = <<>>
      BY <1>2, CodeJoins
    <3>2. <<<<"add7f">>>> \in Codes /\ <<<<"sahf">>>> \in Codes /\ Cov13 \in Codes
      BY <1>1, CodeTypes, CoverPieces
    <3>3. Regroups(<<<<"add7f">>>>, <<<<"sahf">>>>, Cov13)
      BY <3>2, CodeRegroups
    <3> QED
      BY <3>1, <3>3, FlagCodes DEF Regroups, Cov11, Cov12, Cov13
  <2>4. b = Cov6(s)
    <3>1. Cov11 \in Codes
      BY <1>1, CoverPieces
    <3>2. p5 \o Cov11 = Cov9
      BY <1>11, <3>1 DEF Cov9, Cov10
    <3> QED
      BY <2>3, <3>2 DEF Cov6, p4
  <2> HIDE DEF b, c
  <2>5. p3 \o b = Cov3(s)
    <3>1. Cov6(s) \in Codes
      BY <1>1, CoverPieces
    <3> QED
      BY <1>3, <2>4, <3>1 DEF Cov3, Cov4, Cov5
  <2>6. FlagsToRax \o Cov3(s) = Cov1(s)
    <3>1. <<<<"lahf">>>> \in Codes /\ <<<<"seto">>>> \in Codes /\ Cov3(s) \in Codes
      BY <1>1, CodeTypes, CoverPieces
    <3>2. Regroups(<<<<"lahf">>>>, <<<<"seto">>>>, Cov3(s))
      BY <3>1, CodeRegroups
    <3> QED
      BY <3>2, FlagCodes DEF Regroups, Cov1, Cov2
  <2>7. row = Cov0(s)
    BY <2>2, <2>5, <2>6 DEF Cov0
  <2> QED
    BY <1>6, <1>7, <2>7
<1>9. Left(Code)
  <2>1. Len(Code) \in Nat
    BY <1>8 DEF Codes
  <2> QED
    BY <2>1 DEF Left, MachineInit
<1>10. Cover0(s)
  BY <1>8, <1>9, Starts DEF Cover0, At, FlagsIntact, MachineInit, s
<1> QED
  BY <1>1, <1>10 DEF CoverInv, InCover
-----------------------------------------------------------------------------
(***************************************************************************)
(* The code of the trace pass: nine pushes, the call of __trace_log_entry, *)
(* whose code moves the stack pointer up and down below its frame, and     *)
(* nine pops.                                                              *)
(***************************************************************************)
Traced == {s \in Sites : s.code = "trace"}

PushAll   == [i \in 1..9 |-> Push(TraceSaved[i])]
PopAll    == [i \in 1..9 |-> Pop(TraceSaved[10 - i])]
Lent(n)   == {TraceSaved[j] : j \in 1..n}
Rest(q, m) == SubSeq(q, m + 1, Len(q))

Trace11      == <<Add(1)>> \o <<>>
PopsFrom(m)  == Rest(PopAll, m) \o Trace11
Trace10      == <<<<"sahf">>>> \o PopsFrom(0)
Trace9       == <<<<"add7f">>>> \o Trace10
Trace8       == <<Pop("rax")>> \o Trace9
Trace7       == <<<<"return">>>> \o Trace8
Trace6(s)    == LogEntry(s.mapped, s.printing) \o Trace7
Trace5(s)    == <<<<"call">>>> \o Trace6(s)
Trace4(s)    == <<Work({"rdi"})>> \o Trace5(s)
Trace3(s)    == <<Push("rax")>> \o Trace4(s)
Trace2(s)    == <<<<"seto">>>> \o Trace3(s)
Trace1(s)    == <<<<"lahf">>>> \o Trace2(s)
PushesFrom(s, m) == Rest(PushAll, m) \o Trace1(s)
Trace0(s)    == <<Add(-1)>> \o PushesFrom(s, 0)

\* The registers the pass saves.
LEMMA TraceRegisters ==
  /\ \A j \in 1..9 : TraceSaved[j] \in GPRegs
  /\ Lent(9) \subseteq GPRegs /\ Lent(0) = {}
  /\ {"rax", "rcx", "rdx", "rdi", "rsi", "r11"} \subseteq Lent(9)
  /\ \A n \in 1..9 : \A r \in Lent(n) : r = TraceSaved[n] \/ r \in Lent(n - 1)
<1>1. \A j \in 1..9 : TraceSaved[j] \in GPRegs
  BY RegAssumption DEF TraceSaved
<1>2. {"rax", "rcx", "rdx", "rdi", "rsi", "r11"} \subseteq Lent(9)
  <2>1. /\ TraceSaved[1] = "rdi" /\ TraceSaved[2] = "rsi" /\ TraceSaved[3] = "rax"
        /\ TraceSaved[4] = "rcx" /\ TraceSaved[5] = "rdx" /\ TraceSaved[9] = "r11"
    BY DEF TraceSaved
  <2> QED
    BY <2>1 DEF Lent
<1>3. \A n \in 1..9 : \A r \in Lent(n) : r = TraceSaved[n] \/ r \in Lent(n - 1)
  BY DEF Lent
<1> QED
  BY <1>1, <1>2, <1>3 DEF Lent

\* What is left of a code after its first instructions.
LEMMA RestCode ==
  ASSUME NEW q \in Codes
  PROVE  /\ Len(q) \in Nat /\ Rest(q, 0) = q /\ Rest(q, Len(q)) = <<>>
         /\ \A m \in 0..Len(q) : Rest(q, m) \in Codes
         /\ \A m \in 0..Len(q) - 1 : /\ <<q[m + 1]>> \in Codes
                                     /\ Rest(q, m) = <<q[m + 1]>> \o Rest(q, m + 1)
<1> HIDE DEF Instructions
<1>1. q \in Seq(Instructions) /\ Len(q) \in Nat
  BY DEF Codes
<1>2. Rest(q, 0) = q
  BY <1>1, SubSeqFull DEF Rest
<1>3. Rest(q, Len(q)) = <<>>
  BY <1>1, SubSeqEmpty DEF Rest
<1>4. ASSUME NEW m \in 0..Len(q) PROVE Rest(q, m) \in Codes
  <2>1. \A i \in m + 1..Len(q) : q[i] \in Instructions
    BY <1>1
  <2> QED
    BY <1>1, <2>1, SubSeqProperties DEF Rest, Codes
<1>5. ASSUME NEW m \in 0..Len(q) - 1
      PROVE  <<q[m + 1]>> \in Codes /\ Rest(q, m) = <<q[m + 1]>> \o Rest(q, m + 1)
  <2>1. m + 1 \in 1..Len(q) /\ Len(q) \in m + 1..Len(q) /\ q[m + 1] \in Instructions
    BY <1>1
  <2>2. <<q[m + 1]>> \in Codes
    BY <2>1 DEF Codes
  <2> QED
    BY <1>1, <2>1, <2>2, SubSeqRecursiveFirst DEF Rest
<1> QED
  BY <1>1, <1>2, <1>3, <1>4, <1>5

LEMMA SavesCode ==
  /\ PushAll \in Codes /\ Len(PushAll) = 9 /\ \A m \in 0..8 : PushAll[m + 1] = Push(TraceSaved[m + 1])
  /\ PopAll \in Codes /\ Len(PopAll) = 9 /\ \A m \in 0..8 : PopAll[m + 1] = Pop(TraceSaved[9 - m])
<1>1. \A j \in 1..9 : Push(TraceSaved[j]) \in Instructions /\ Pop(TraceSaved[j]) \in Instructions
  <2>1. \A j \in 1..9 : <<Push(TraceSaved[j])>> \in Codes /\ <<Pop(TraceSaved[j])>> \in Codes
    BY TraceRegisters, CodeTypes
  <2> QED
    BY <2>1, Singles
<1> HIDE DEF Instructions
<1>2. PushAll \in [1..9 -> Instructions] /\ PopAll \in [1..9 -> Instructions]
  BY <1>1 DEF PushAll, PopAll
<1>3. PushAll \in Codes /\ Len(PushAll) = 9 /\ PopAll \in Codes /\ Len(PopAll) = 9
  <2>1. ASSUME NEW f \in [1..9 -> Instructions] PROVE f \in Seq(Instructions) /\ Len(f) = 9
    <3>1. f \in Seq(Instructions)
      BY SeqDef
    <3>2. Len(f) \in Nat /\ 1..Len(f) = 1..9
      BY <3>1, LenProperties
    <3>3. 9 \in 1..Len(f) /\ Len(f) \in 1..Len(f)
      BY <3>2
    <3> QED
      BY <3>1, <3>2, <3>3
  <2> QED
    BY <1>2, <2>1 DEF Codes
<1>4. \A m \in 0..8 : m + 1 \in 1..9 /\ 10 - (m + 1) = 9 - m
  OBVIOUS
<1> QED
  BY <1>3, <1>4 DEF PushAll, PopAll

(***************************************************************************)
(* The code of __trace_log_entry: every instruction moves the stack        *)
(* pointer from one height to the next, never above the frame at -12.      *)
(***************************************************************************)
Heights == -24..-12
Moves(i, d, e) ==
  \/ \E r \in Lent(9) : i = Push(r) /\ e = d - 1
  \/ \E r \in Lent(9) : i = Pop(r) /\ e = d + 1
  \/ \E W \in SUBSET Lent(9) : i = Work(W) /\ e = d
Climbs(q, h) == /\ q \in Codes /\ h \in [1..Len(q) + 1 -> Heights]
                /\ \A j \in 1..Len(q) : Moves(q[j], h[j], h[j + 1])
Leads(q, d, e) == \E h : Climbs(q, h) /\ h[1] = d /\ h[Len(q) + 1] = e

LEMMA MovesCode == \A i, d, e : Moves(i, d, e) => <<i>> \in Codes /\ Plain(i)
<1>1. \A W \in SUBSET Lent(9) : W \in SUBSET GPRegs
  BY TraceRegisters
<1>2. \A r \in Lent(9) : r \in GPRegs
  BY TraceRegisters
<1> QED
  BY <1>1, <1>2, Operations DEF Moves, Plain

\* One code after another.
LEMMA LeadsJoin ==
  ASSUME NEW p, NEW q, NEW d, NEW e, NEW f, Leads(p, d, e), Leads(q, e, f)
  PROVE  Leads(p \o q, d, f)
<1>1. PICK g : Climbs(p, g) /\ g[1] = d /\ g[Len(p) + 1] = e
  BY DEF Leads
<1>2. PICK h : Climbs(q, h) /\ h[1] = e /\ h[Len(q) + 1] = f
  BY DEF Leads
<1> DEFINE pq == p \o q
           k == [j \in 1..Len(pq) + 1 |-> IF j <= Len(p) THEN g[j] ELSE h[j - Len(p)]]
<1> HIDE DEF Instructions
<1>3. p \in Seq(Instructions) /\ q \in Seq(Instructions)
  BY <1>1, <1>2 DEF Climbs, Codes
<1>4. /\ pq \in Codes /\ Len(pq) = Len(p) + Len(q) /\ Len(p) \in Nat /\ Len(q) \in Nat
      /\ \A j \in 1..Len(p) + Len(q) : pq[j] = IF j <= Len(p) THEN p[j] ELSE q[j - Len(p)]
  BY <1>3, ConcatProperties DEF Codes
<1>5. g \in [1..Len(p) + 1 -> Heights] /\ h \in [1..Len(q) + 1 -> Heights]
  BY <1>1, <1>2 DEF Climbs
<1> HIDE DEF pq
<1>6. k \in [1..Len(pq) + 1 -> Heights]
  <2> SUFFICES ASSUME NEW j \in 1..Len(pq) + 1
               PROVE  (IF j <= Len(p) THEN g[j] ELSE h[j - Len(p)]) \in Heights
    OBVIOUS
  <2>1. CASE j <= Len(p)
    <3>1. j \in 1..Len(p) + 1
      BY <1>4, <2>1
    <3> QED
      BY <1>5, <2>1, <3>1
  <2>2. CASE ~(j <= Len(p))
    <3>1. j - Len(p) \in 1..Len(q) + 1
      BY <1>4, <2>2
    <3> QED
      BY <1>5, <2>2, <3>1
  <2> QED
    BY <2>1, <2>2
<1>7. \A j \in 1..Len(p) + 1 : k[j] = g[j]
  <2>1. \A j \in 1..Len(p) + 1 : j \in 1..Len(pq) + 1
    BY <1>4
  <2>2. Len(p) + 1 - Len(p) = 1 /\ ~(Len(p) + 1 <= Len(p))
    BY <1>4
  <2>3. \A j \in 1..Len(p) + 1 : j <= Len(p) \/ j = Len(p) + 1
    BY <1>4
  <2> QED
    BY <1>1, <1>2, <2>1, <2>2, <2>3
<1>8. \A j \in 1..Len(q) + 1 : k[Len(p) + j] = h[j]
  <2> SUFFICES ASSUME NEW j \in 1..Len(q) + 1 PROVE k[Len(p) + j] = h[j]
    OBVIOUS
  <2>1. Len(p) + j \in 1..Len(pq) + 1 /\ ~(Len(p) + j <= Len(p)) /\ Len(p) + j - Len(p) = j
    BY <1>4
  <2> QED
    BY <2>1
<1> HIDE DEF k
<1>9. ASSUME NEW j \in 1..Len(pq) PROVE Moves(pq[j], k[j], k[j + 1])
  <2>1. CASE j <= Len(p)
    <3>1. j \in 1..Len(p) /\ j \in 1..Len(p) + 1 /\ j + 1 \in 1..Len(p) + 1 /\ pq[j] = p[j]
      BY <1>4, <2>1
    <3>2. k[j] = g[j] /\ k[j + 1] = g[j + 1]
      BY <1>7, <3>1
    <3> QED
      BY <1>1, <3>1, <3>2 DEF Climbs
  <2>2. CASE ~(j <= Len(p))
    <3> DEFINE i == j - Len(p)
    <3>1. /\ i \in 1..Len(q) /\ i + 1 \in 1..Len(q) + 1 /\ i \in 1..Len(q) + 1
          /\ Len(p) + i = j /\ Len(p) + (i + 1) = j + 1 /\ pq[j] = q[i]
      BY <1>4, <2>2
    <3> HIDE DEF i
    <3>2. k[j] = h[i] /\ k[j + 1] = h[i + 1]
      BY <1>8, <3>1
    <3> QED
      BY <1>2, <3>1, <3>2 DEF Climbs
  <2> QED
    BY <2>1, <2>2
<1>10. k[1] = d /\ k[Len(pq) + 1] = f
  <2>1. 1 \in 1..Len(p) + 1 /\ Len(q) + 1 \in 1..Len(q) + 1 /\ Len(p) + (Len(q) + 1) = Len(pq) + 1
    BY <1>4
  <2> QED
    BY <1>1, <1>2, <1>7, <1>8, <2>1
<1>11. Climbs(pq, k)
  BY <1>4, <1>6, <1>9 DEF Climbs
<1> QED
  BY <1>10, <1>11 DEF Leads, pq

\* No code and one instruction.
LEMMA LeadsStart ==
  /\ \A d \in Heights : Leads(<<>>, d, d)
  /\ \A i : \A d, e \in Heights : Moves(i, d, e) => Leads(<<i>>, d, e)
<1>1. ASSUME NEW d \in Heights PROVE Leads(<<>>, d, d)
  <2> DEFINE h == [j \in 1..1 |-> d]
  <2>1. Len(<<>>) = 0 /\ <<>> \in Codes
    BY CodeTypes
  <2>2. h \in [1..Len(<<>>) + 1 -> Heights] /\ h[1] = d /\ h[Len(<<>>) + 1] = d
    BY <2>1
  <2>3. \A j \in 1..Len(<<>>) : Moves(<<>>[j], h[j], h[j + 1])
    BY <2>1
  <2> HIDE DEF h
  <2> QED
    BY <2>1, <2>2, <2>3 DEF Leads, Climbs
<1>2. ASSUME NEW i, NEW d \in Heights, NEW e \in Heights, Moves(i, d, e) PROVE Leads(<<i>>, d, e)
  <2> DEFINE q == <<i>>
             h == [j \in 1..2 |-> IF j = 1 THEN d ELSE e]
  <2>1. Len(q) = 1 /\ q[1] = i /\ q \in Codes
    BY <1>2, MovesCode
  <2> HIDE DEF q
  <2>2. h \in [1..Len(q) + 1 -> Heights] /\ h[1] = d /\ h[2] = e /\ h[Len(q) + 1] = e
    BY <2>1
  <2> HIDE DEF h
  <2>3. \A j \in 1..Len(q) : Moves(q[j], h[j], h[j + 1])
    <3>1. \A j \in 1..Len(q) : j = 1
      BY <2>1
    <3>2. 1 + 1 = 2
      OBVIOUS
    <3> QED
      BY <1>2, <2>1, <2>2, <3>1, <3>2
  <2>4. Leads(q, d, e)
    BY <2>1, <2>2, <2>3 DEF Leads, Climbs
  <2> QED
    BY <2>4 DEF q
<1> QED
  BY <1>1, <1>2

\* __trace_log_entry returns with its stack pointer where it was.
LEMMA Raises ==
  /\ \A r \in Lent(9) : \A d \in Int : Moves(Push(r), d, d - 1) /\ Moves(Pop(r), d, d + 1)
  /\ \A W \in SUBSET Lent(9) : \A d : Moves(Work(W), d, d)
BY DEF Moves

\* A few instructions in a row.
LEMMA LeadsTwo ==
  ASSUME NEW d \in Heights, NEW e \in Heights, NEW f \in Heights, NEW i, NEW j,
         Moves(i, d, e), Moves(j, e, f)
  PROVE  Leads(<<i, j>>, d, f)
<1>1. <<i>> \in Codes /\ <<j>> \in Codes
  BY MovesCode
<1>2. i \in Instructions /\ j \in Instructions
  BY <1>1, Singles
<1>3. <<i, j>> = <<i>> \o <<j>>
  <2> HIDE DEF Instructions
  <2> QED
    BY <1>2, TupleJoins
<1>4. Leads(<<i>>, d, e) /\ Leads(<<j>>, e, f)
  BY LeadsStart
<1> QED
  BY <1>3, <1>4, LeadsJoin
LEMMA LeadsThree ==
  ASSUME NEW d \in Heights, NEW e \in Heights, NEW f \in Heights, NEW g \in Heights,
         NEW i, NEW j, NEW k, Moves(i, d, e), Moves(j, e, f), Moves(k, f, g)
  PROVE  Leads(<<i, j, k>>, d, g)
<1>1. <<i>> \in Codes /\ <<j>> \in Codes /\ <<k>> \in Codes
  BY MovesCode
<1>2. i \in Instructions /\ j \in Instructions /\ k \in Instructions
  BY <1>1, Singles
<1>3. <<i, j, k>> = <<i>> \o <<j, k>>
  <2> HIDE DEF Instructions
  <2> QED
    BY <1>2, TupleJoins
<1>4. Leads(<<i>>, d, e) /\ Leads(<<j, k>>, e, g)
  BY LeadsStart, LeadsTwo
<1> QED
  BY <1>3, <1>4, LeadsJoin
LEMMA LeadsLevel ==
  ASSUME NEW d \in Heights, NEW q \in Codes, \A j \in 1..Len(q) : Moves(q[j], d, d)
  PROVE  Leads(q, d, d)
<1> DEFINE h == [j \in 1..Len(q) + 1 |-> d]
<1>1. Len(q) \in Nat
  BY RestCode
<1>2. h \in [1..Len(q) + 1 -> Heights] /\ \A j \in 1..Len(q) + 1 : h[j] = d
  OBVIOUS
<1>3. \A j \in 1..Len(q) : j \in 1..Len(q) + 1 /\ j + 1 \in 1..Len(q) + 1
  BY <1>1
<1>4. 1 \in 1..Len(q) + 1 /\ Len(q) + 1 \in 1..Len(q) + 1
  BY <1>1
<1> HIDE DEF h
<1>5. \A j \in 1..Len(q) : h[j] = d /\ h[j + 1] = d
  BY <1>2, <1>3
<1>6. Climbs(q, h)
  BY <1>2, <1>5 DEF Climbs
<1>7. h[1] = d /\ h[Len(q) + 1] = d
  BY <1>2, <1>4
<1> QED
  BY <1>6, <1>7 DEF Leads
LEMMA LogLeads == \A mapped, printing : Leads(LogEntry(mapped, printing), -12, -12)
<1> SUFFICES ASSUME NEW mapped, NEW printing PROVE Leads(LogEntry(mapped, printing), -12, -12)
  OBVIOUS
<1> DEFINE w1 == Work({"rax"})
           w2 == Work({"rcx", "rdx"})
           w4 == Work({"rax", "rdi", "rsi", "rdx"})
           w5 == Syscall
           w6 == Work({"rsi", "rdx"})
           w7 == Work({"rax", "rdi"})
           Level(i) == /\ \A x \in Heights : Moves(i, x, x)
                       /\ i \in Instructions
           Up(r) == /\ \A x \in -18..-13 : Moves(Pop(r), x, x + 1)
                    /\ Pop(r) \in Instructions
           Down(r) == /\ \A x \in -18..-12 : Moves(Push(r), x, x - 1)
                      /\ Push(r) \in Instructions
<1>1. \A W \in SUBSET Lent(9) : Level(Work(W))
  <2> SUFFICES ASSUME NEW W \in SUBSET Lent(9) PROVE Level(Work(W))
    OBVIOUS
  <2>1. \A x : Moves(Work(W), x, x)
    BY Raises
  <2>2. Work(W) \in Instructions
    BY <2>1, MovesCode, Singles
  <2> HIDE DEF Instructions
  <2> QED
    BY <2>1, <2>2
<1>2. \A r \in Lent(9) : Up(r) /\ Down(r)
  <2> SUFFICES ASSUME NEW r \in Lent(9) PROVE Up(r) /\ Down(r)
    OBVIOUS
  <2>1. \A x \in Int : Moves(Push(r), x, x - 1) /\ Moves(Pop(r), x, x + 1)
    BY Raises
  <2>2. Push(r) \in Instructions /\ Pop(r) \in Instructions
    <3>1. Moves(Push(r), 0, 0 - 1) /\ Moves(Pop(r), 0, 0 + 1)
      BY <2>1
    <3> QED
      BY <3>1, MovesCode, Singles
  <2> HIDE DEF Instructions
  <2> QED
    BY <2>1, <2>2
<1>3. {"rax", "rcx", "rdx", "rdi", "rsi", "r11"} \subseteq Lent(9)
  BY TraceRegisters
<1>4. Level(w1) /\ Level(w2) /\ Level(w4) /\ Level(w5) /\ Level(w6) /\ Level(w7)
  <2>1. /\ {"rax"} \in SUBSET Lent(9) /\ {"rcx", "rdx"} \in SUBSET Lent(9)
        /\ {"rax", "rdi", "rsi", "rdx"} \in SUBSET Lent(9) /\ {"rax", "rcx", "r11"} \in SUBSET Lent(9)
        /\ {"rsi", "rdx"} \in SUBSET Lent(9) /\ {"rax", "rdi"} \in SUBSET Lent(9)
    BY <1>3
  <2> HIDE DEF Level
  <2> QED
    BY <1>1, <2>1 DEF Syscall
<1>5. /\ Up("rax") /\ Up("rcx") /\ Up("rdx") /\ Up("rdi") /\ Up("rsi") /\ Up("r11")
      /\ Down("rax") /\ Down("rcx") /\ Down("rdx") /\ Down("rdi") /\ Down("rsi") /\ Down("r11")
  <2> HIDE DEF Up, Down
  <2> QED
    BY <1>2, <1>3
<1> HIDE DEF w1, w2, w4, w5, w6, w7, Instructions
<1>6. -12 \in Heights /\ -13 \in Heights /\ -14 \in Heights /\ -15 \in Heights /\ -16 \in Heights
      /\ -17 \in Heights /\ -18 \in Heights
  BY DEF Heights
<1>7. Leads(<<Push("rax"), Push("rcx"), Push("rdx"), w1>>, -12, -15)
  <2>1. Moves(Push("rax"), -12, -13) /\ Moves(Push("rcx"), -13, -14) /\ Moves(Push("rdx"), -14, -15)
    BY <1>5
  <2>2. Leads(<<Push("rax"), Push("rcx"), Push("rdx")>>, -12, -15)
    BY <1>6, <2>1, LeadsThree
  <2>3. Leads(<<w1>>, -15, -15)
    BY <1>4, <1>6, LeadsStart
  <2>4. <<Push("rax"), Push("rcx"), Push("rdx"), w1>> = <<Push("rax"), Push("rcx"), Push("rdx")>> \o <<w1>>
    <3>1. {Push("rax"), Push("rcx"), Push("rdx"), w1} \subseteq Instructions
      BY <1>4, <1>5
    <3> QED
      BY <3>1
  <2> QED
    BY <2>2, <2>3, <2>4, LeadsJoin
<1>8. Leads(<<Pop("rdx"), Pop("rcx"), Pop("rax")>>, -15, -12)
  <2>1. Moves(Pop("rdx"), -15, -14) /\ Moves(Pop("rcx"), -14, -13) /\ Moves(Pop("rax"), -13, -12)
    BY <1>5
  <2> QED
    BY <1>6, <2>1, LeadsThree
<1>9. Leads(When(mapped, <<w2, w1>>), -15, -15)
  <2>1. Leads(<<w2, w1>>, -15, -15)
    BY <1>4, <1>6, LeadsTwo
  <2> QED
    BY <1>6, <2>1, LeadsStart DEF When
<1> DEFINE print == <<Push("rdi"), Push("rsi"), Push("r11"), w4, w5, w6, w7, w5, w4, w5,
                      Pop("r11"), Pop("rsi"), Pop("rdi")>>
<1>10. Leads(print, -15, -15)
  <2> DEFINE a == <<Push("rdi"), Push("rsi"), Push("r11")>>
             b == <<w4, w5, w6, w7, w5, w4, w5>>
             c == <<Pop("r11"), Pop("rsi"), Pop("rdi")>>
             bc == <<w4, w5, w6, w7, w5, w4, w5, Pop("r11"), Pop("rsi"), Pop("rdi")>>
  <2>1. Moves(Push("rdi"), -15, -16) /\ Moves(Push("rsi"), -16, -17) /\ Moves(Push("r11"), -17, -18)
    BY <1>5
  <2>2. Leads(a, -15, -18)
    BY <1>6, <2>1, LeadsThree
  <2>3. Moves(Pop("r11"), -18, -17) /\ Moves(Pop("rsi"), -17, -16) /\ Moves(Pop("rdi"), -16, -15)
    BY <1>5
  <2>4. Leads(c, -18, -15)
    BY <1>6, <2>3, LeadsThree
  <2>5. Leads(b, -18, -18)
    <3>1. \A j \in 1..7 : b[j] \in {w4, w5, w6, w7}
      OBVIOUS
    <3>2. b \in Seq(Instructions) /\ Len(b) = 7
      BY <1>4
    <3> HIDE DEF b
    <3>3. \A j \in 1..Len(b) : Moves(b[j], -18, -18)
      BY <1>4, <1>6, <3>1, <3>2
    <3> QED
      BY <1>6, <3>2, <3>3, LeadsLevel DEF Codes
  <2>6. print = a \o bc /\ bc = b \o c
    <3>1. /\ {Push("rdi"), Push("rsi"), Push("r11")} \subseteq Instructions
          /\ {Pop("r11"), Pop("rsi"), Pop("rdi")} \subseteq Instructions
          /\ {w4, w5, w6, w7} \subseteq Instructions
      BY <1>4, <1>5
    <3>2. print = a \o bc
      BY <3>1
    <3>3. bc = b \o c
      BY <3>1
    <3> QED
      BY <3>2, <3>3
  <2> HIDE DEF a, b, c, bc
  <2> QED
    BY <2>2, <2>4, <2>5, <2>6, LeadsJoin
<1> HIDE DEF print
<1>11. Leads(When(mapped /\ printing, print), -15, -15)
  BY <1>6, <1>10, LeadsStart DEF When
<1>12. LogEntry(mapped, printing)
         = <<Push("rax"), Push("rcx"), Push("rdx"), w1>> \o When(mapped, <<w2, w1>>)
           \o When(mapped /\ printing, print) \o <<Pop("rdx"), Pop("rcx"), Pop("rax")>>
  BY DEF LogEntry, w1, w2, w4, w5, w6, w7, print
<1> QED
  BY <1>7, <1>8, <1>9, <1>11, <1>12, LeadsJoin

(***************************************************************************)
(* Where the code of the trace pass is.                                    *)
(***************************************************************************)
\* The first n saved registers are on the stack.
Kept(s, n) == \A j \in 1..n : Restores(s, mem[-1 - j], TraceSaved[j])
Inside(s, d) == At(s, Lent(9), d) /\ Kept(s, 9)
RaxWord      == mem[-11] \in RegWords

Tracing0(s)   == Left(Trace0(s)) /\ At(s, {}, 0)
Pushing(s, m) == Left(PushesFrom(s, m)) /\ At(s, {}, -1 - m) /\ Kept(s, m)
Tracing1(s)   == Left(Trace1(s)) /\ Inside(s, -10)
Tracing2(s)   == Left(Trace2(s)) /\ Inside(s, -10)
Tracing3(s)   == Left(Trace3(s)) /\ Inside(s, -10)
Tracing4(s)   == Left(Trace4(s)) /\ Inside(s, -11) /\ RaxWord
Tracing5(s)   == Left(Trace5(s)) /\ Inside(s, -11) /\ RaxWord
\* After m instructions of __trace_log_entry, whose stack pointer follows h.
Logging(s, m, h) ==
  LET q == LogEntry(s.mapped, s.printing)
  IN  /\ Climbs(q, h) /\ h[1] = -12 /\ h[Len(q) + 1] = -12
      /\ Left(Rest(q, m) \o Trace7) /\ Inside(s, h[m + 1]) /\ RaxWord
      /\ \A k \in h[m + 1]..-13 : mem[k] \in RegWords
Tracing7(s)   == Left(Trace7) /\ Inside(s, -12) /\ RaxWord
Tracing8(s)   == Left(Trace8) /\ Inside(s, -11) /\ RaxWord
Tracing9(s)   == Left(Trace9) /\ Inside(s, -10)
Tracing10(s)  == Left(Trace10) /\ Inside(s, -10)
Popping(s, m) == Left(PopsFrom(m)) /\ At(s, Lent(9 - m), m - 10) /\ Kept(s, 9 - m)
Tracing11(s)  == Left(Trace11) /\ At(s, {}, -1)
Tracing12(s)  == Left(<<>>) /\ At(s, {}, 0)

InTrace(s) ==
  \/ Tracing0(s) \/ \E m \in 0..9 : Pushing(s, m)
  \/ Tracing1(s) \/ Tracing2(s) \/ Tracing3(s) \/ Tracing4(s) \/ Tracing5(s)
  \/ \E h : \E m \in 0..Len(LogEntry(s.mapped, s.printing)) : Logging(s, m, h)
  \/ Tracing7(s) \/ Tracing8(s) \/ Tracing9(s) \/ Tracing10(s)
  \/ \E m \in 0..9 : Popping(s, m)
  \/ Tracing11(s) \/ Tracing12(s)
TraceInv == \E s \in Traced : InTrace(s)

\* The pieces are code.
LEMMA TracePieces ==
  ASSUME NEW s \in Traced
  PROVE  /\ <<>> \in Codes /\ Trace11 \in Codes /\ \A m \in 0..9 : PopsFrom(m) \in Codes
         /\ Trace10 \in Codes /\ Trace9 \in Codes /\ Trace8 \in Codes /\ Trace7 \in Codes
         /\ LogEntry(s.mapped, s.printing) \in Codes
         /\ Trace6(s) \in Codes /\ Trace5(s) \in Codes /\ Trace4(s) \in Codes
         /\ Trace3(s) \in Codes /\ Trace2(s) \in Codes /\ Trace1(s) \in Codes
         /\ \A m \in 0..9 : PushesFrom(s, m) \in Codes
         /\ Trace0(s) \in Codes
<1>1. /\ "rax" \in GPRegs /\ {"rdi"} \in SUBSET GPRegs /\ 1 \in Int /\ -1 \in Int
  BY RegAssumption
<1>2. <<>> \in Codes /\ Trace11 \in Codes
  BY <1>1, CodeTypes, CodeJoins DEF Trace11
<1>3. \A m \in 0..9 : Rest(PushAll, m) \in Codes /\ Rest(PopAll, m) \in Codes
  BY SavesCode, RestCode
<1>4. \A m \in 0..9 : PopsFrom(m) \in Codes
  BY <1>2, <1>3, CodeJoins DEF PopsFrom
<1>5. Trace10 \in Codes /\ Trace9 \in Codes
  <2>1. PopsFrom(0) \in Codes
    BY <1>4
  <2> QED
    BY <2>1, CodeTypes, CodeJoins DEF Trace10, Trace9
<1>6. Trace8 \in Codes /\ Trace7 \in Codes
  BY <1>1, <1>5, CodeTypes, CodeJoins DEF Trace8, Trace7
<1>7. LogEntry(s.mapped, s.printing) \in Codes
  BY LogLeads DEF Leads, Climbs
<1>8. Trace6(s) \in Codes /\ Trace5(s) \in Codes /\ Trace4(s) \in Codes
  BY <1>1, <1>6, <1>7, CodeTypes, CodeJoins DEF Trace6, Trace5, Trace4
<1>9. Trace3(s) \in Codes /\ Trace2(s) \in Codes /\ Trace1(s) \in Codes
  BY <1>1, <1>8, CodeTypes, CodeJoins DEF Trace3, Trace2, Trace1
<1>10. \A m \in 0..9 : PushesFrom(s, m) \in Codes
  BY <1>3, <1>9, CodeJoins DEF PushesFrom
<1>11. Trace0(s) \in Codes
  <2>1. PushesFrom(s, 0) \in Codes
    BY <1>10
  <2> QED
    BY <1>1, <2>1, CodeTypes, CodeJoins DEF Trace0
<1> QED
  BY <1>2, <1>4, <1>5, <1>6, <1>7, <1>8, <1>9, <1>10, <1>11

\* What has been pushed stays.
LEMMA KeptStays ==
  ASSUME NEW s \in Traced, NEW n \in 0..9, \A k \in -1 - n..-2 : mem'[k] = mem[k], Kept(s, n)
  PROVE  Kept(s, n)'
<1>1. \A j \in 1..n : -1 - j \in -1 - n..-2
  OBVIOUS
<1> QED
  BY <1>1 DEF Kept, Restores
LEMMA InsideStays ==
  ASSUME NEW s \in Traced, NEW d, NEW e, Inside(s, d), At(s, Lent(9), e)',
         \A k \in -10..-2 : mem'[k] = mem[k]
  PROVE  Inside(s, e)'
<1>1. \A k \in -1 - 9..-2 : mem'[k] = mem[k]
  OBVIOUS
<1>2. Kept(s, 9)'
  BY <1>1, KeptStays DEF Inside
<1> QED
  BY <1>2 DEF Inside

\* lahf.
LEMMA TraceStep1 ==
  ASSUME NEW s \in Traced, Tracing1(s)
  PROVE  Promises /\ (MachineNext => Tracing1(s)' \/ Tracing2(s)')
<1>1. /\ Left(Trace1(s)) /\ At(s, Lent(9), -10) /\ site = s /\ Machine(Lent(9), -10)
      /\ Inside(s, -10)
  BY DEF Tracing1, Inside, At
<1>2. /\ Trace2(s) \in Codes /\ Plain(<<"lahf">>) /\ s \in Sites
      /\ -10 \in Int /\ -10 \in -35..0
  <2>1. Trace2(s) \in Codes
    BY TracePieces
  <2>2. "rax" \in GPRegs /\ {"rdi"} \in SUBSET GPRegs
    BY RegAssumption
  <2> QED
    BY <2>1, <2>2, Operations DEF Traced
<1>3. Trace1(s) = <<<<"lahf">>>> \o Trace2(s) /\ Left(<<<<"lahf">>>> \o Trace2(s))
  BY <1>1 DEF Trace1
<1>4. Promises
  BY <1>1, <1>2, <1>3, Resting
<1>5. ASSUME Signal PROVE Tracing1(s)'
  <2>1. /\ Left(Trace1(s))' /\ At(s, Lent(9), -10)'
        /\ \A k \in -35..-1 : k >= -10 => mem'[k] = mem[k]
    BY <1>1, <1>2, <1>3, <1>5, Resting
  <2>2. Inside(s, -10)'
    <3>1. \A k \in -10..-2 : mem'[k] = mem[k]
      BY <2>1
    <3> QED
      BY <1>1, <2>1, <3>1, InsideStays
  <2> QED
    BY <2>1, <2>2 DEF Tracing1
<1>6. ASSUME MachineNext, ~Signal PROVE Tracing2(s)'
  <2>1. Left(Trace2(s))' /\ mem' = mem /\ Machine(Lent(9) \cup {"rax"}, -10)'
    BY <1>1, <1>2, <1>3, <1>6, LahfStep
  <2>2. At(s, Lent(9), -10)'
    <3>1. -10 = -10 /\ "rax" \in Lent(9) /\ "rdi" \in Lent(9)
      BY TraceRegisters
    <3>2. site' = s
      BY <1>1, <1>2, <1>3, <1>6, LahfStep
    <3> QED
      BY <1>2, <2>1, <3>1, <3>2, Lend
  <2>3. Inside(s, -10)'
    BY <1>1, <2>1, <2>2, InsideStays
  <2> QED
    BY <2>1, <2>3 DEF Tracing2
<1> QED
  BY <1>4, <1>5, <1>6

\* seto %al.
LEMMA TraceStep2 ==
  ASSUME NEW s \in Traced, Tracing2(s)
  PROVE  Promises /\ (MachineNext => Tracing2(s)' \/ Tracing3(s)')
<1>1. /\ Left(Trace2(s)) /\ At(s, Lent(9), -10) /\ site = s /\ Machine(Lent(9), -10)
      /\ Inside(s, -10)
  BY DEF Tracing2, Inside, At
<1>2. /\ Trace3(s) \in Codes /\ Plain(<<"seto">>) /\ s \in Sites
      /\ -10 \in Int /\ -10 \in -35..0
  <2>1. Trace3(s) \in Codes
    BY TracePieces
  <2>2. "rax" \in GPRegs /\ {"rdi"} \in SUBSET GPRegs
    BY RegAssumption
  <2> QED
    BY <2>1, <2>2, Operations DEF Traced
<1>3. Trace2(s) = <<<<"seto">>>> \o Trace3(s) /\ Left(<<<<"seto">>>> \o Trace3(s))
  BY <1>1 DEF Trace2
<1>4. Promises
  BY <1>1, <1>2, <1>3, Resting
<1>5. ASSUME Signal PROVE Tracing2(s)'
  <2>1. /\ Left(Trace2(s))' /\ At(s, Lent(9), -10)'
        /\ \A k \in -35..-1 : k >= -10 => mem'[k] = mem[k]
    BY <1>1, <1>2, <1>3, <1>5, Resting
  <2>2. Inside(s, -10)'
    <3>1. \A k \in -10..-2 : mem'[k] = mem[k]
      BY <2>1
    <3> QED
      BY <1>1, <2>1, <3>1, InsideStays
  <2> QED
    BY <2>1, <2>2 DEF Tracing2
<1>6. ASSUME MachineNext, ~Signal PROVE Tracing3(s)'
  <2>1. Left(Trace3(s))' /\ mem' = mem /\ Machine(Lent(9) \cup {"rax"}, -10)'
    BY <1>1, <1>2, <1>3, <1>6, SetoStep
  <2>2. At(s, Lent(9), -10)'
    <3>1. -10 = -10 /\ "rax" \in Lent(9) /\ "rdi" \in Lent(9)
      BY TraceRegisters
    <3>2. site' = s
      BY <1>1, <1>2, <1>3, <1>6, SetoStep
    <3> QED
      BY <1>2, <2>1, <3>1, <3>2, Lend
  <2>3. Inside(s, -10)'
    BY <1>1, <2>1, <2>2, InsideStays
  <2> QED
    BY <2>1, <2>3 DEF Tracing3
<1> QED
  BY <1>4, <1>5, <1>6

\* push %rax.
LEMMA TraceStep3 ==
  ASSUME NEW s \in Traced, Tracing3(s)
  PROVE  Promises /\ (MachineNext => Tracing3(s)' \/ Tracing4(s)')
<1>1. /\ Left(Trace3(s)) /\ At(s, Lent(9), -10) /\ site = s /\ Machine(Lent(9), -10)
      /\ Inside(s, -10)
  BY DEF Tracing3, Inside, At
<1>2. /\ Trace4(s) \in Codes /\ Plain(Push("rax")) /\ s \in Sites
      /\ -10 \in Int /\ -10 \in -35..0
  <2>1. Trace4(s) \in Codes
    BY TracePieces
  <2>2. "rax" \in GPRegs /\ {"rdi"} \in SUBSET GPRegs
    BY RegAssumption
  <2> QED
    BY <2>1, <2>2, Operations DEF Traced
<1>3. Trace3(s) = <<Push("rax")>> \o Trace4(s) /\ Left(<<Push("rax")>> \o Trace4(s))
  BY <1>1 DEF Trace3
<1>4. Promises
  BY <1>1, <1>2, <1>3, Resting
<1>5. ASSUME Signal PROVE Tracing3(s)'
  <2>1. /\ Left(Trace3(s))' /\ At(s, Lent(9), -10)'
        /\ \A k \in -35..-1 : k >= -10 => mem'[k] = mem[k]
    BY <1>1, <1>2, <1>3, <1>5, Resting
  <2>2. Inside(s, -10)'
    <3>1. \A k \in -10..-2 : mem'[k] = mem[k]
      BY <2>1
    <3> QED
      BY <1>1, <2>1, <3>1, InsideStays
  <2> QED
    BY <2>1, <2>2 DEF Tracing3
<1>6. ASSUME MachineNext, ~Signal PROVE Tracing4(s)'
  <2>1. "rax" \in GPRegs /\ -10 - 1 \in StackSlots \ Own /\ -10 - 1 = -11
    <3>1. s.code = "trace" /\ -11 \in -35..-1 /\ -10 - 1 = -11
      BY DEF Traced
    <3> QED
      BY <1>1, <1>2, <3>1, RegAssumption, Below
  <2>2. /\ Left(Trace4(s))' /\ Machine(Lent(9), -10 - 1)' /\ site' = s
        /\ mem'[-10 - 1] = regs["rax"] /\ \A k \in StackSlots : k # -10 - 1 => mem'[k] = mem[k]
    BY <1>1, <1>2, <1>3, <1>6, <2>1, PushStep
  <2>3. At(s, Lent(9), -11)' /\ mem'[-11] \in RegWords
    BY <1>1, <2>1, <2>2 DEF At, Machine
  <2>4. \A k \in -10..-2 : mem'[k] = mem[k]
    BY <2>2 DEF StackSlots
  <2> QED
    BY <1>1, <2>2, <2>3, <2>4, InsideStays DEF Tracing4, RaxWord
<1> QED
  BY <1>4, <1>5, <1>6

\* The identifier of the function.
LEMMA TraceStep4 ==
  ASSUME NEW s \in Traced, Tracing4(s)
  PROVE  Promises /\ (MachineNext => Tracing4(s)' \/ Tracing5(s)')
<1>1. /\ Left(Trace4(s)) /\ At(s, Lent(9), -11) /\ site = s /\ Machine(Lent(9), -11)
      /\ Inside(s, -11) /\ RaxWord
  BY DEF Tracing4, Inside, At
<1>2. /\ Trace5(s) \in Codes /\ Plain(Work({"rdi"})) /\ s \in Sites
      /\ -11 \in Int /\ -11 \in -35..0
  <2>1. Trace5(s) \in Codes
    BY TracePieces
  <2>2. "rax" \in GPRegs /\ {"rdi"} \in SUBSET GPRegs
    BY RegAssumption
  <2> QED
    BY <2>1, <2>2, Operations DEF Traced
<1>3. Trace4(s) = <<Work({"rdi"})>> \o Trace5(s) /\ Left(<<Work({"rdi"})>> \o Trace5(s))
  BY <1>1 DEF Trace4
<1>4. Promises
  BY <1>1, <1>2, <1>3, Resting
<1>5. ASSUME Signal PROVE Tracing4(s)'
  <2>1. /\ Left(Trace4(s))' /\ At(s, Lent(9), -11)'
        /\ \A k \in -35..-1 : k >= -11 => mem'[k] = mem[k]
    BY <1>1, <1>2, <1>3, <1>5, Resting
  <2>2. Inside(s, -11)'
    <3>1. \A k \in -10..-2 : mem'[k] = mem[k]
      BY <2>1
    <3> QED
      BY <1>1, <2>1, <3>1, InsideStays
  <2>3. RaxWord'
    <3>1. mem'[-11] = mem[-11]
      BY <2>1
    <3> QED
      BY <1>1, <3>1 DEF RaxWord
  <2> QED
    BY <2>1, <2>2, <2>3 DEF Tracing4
<1>6. ASSUME MachineNext, ~Signal PROVE Tracing5(s)'
  <2>0. {"rdi"} \in SUBSET GPRegs
    BY RegAssumption
  <2>1. Left(Trace5(s))' /\ mem' = mem /\ Machine(Lent(9) \cup {"rdi"}, -11)'
    BY <1>1, <1>2, <1>3, <1>6, <2>0, WorkStep
  <2>2. At(s, Lent(9), -11)'
    <3>1. -11 = -11 /\ "rax" \in Lent(9) /\ "rdi" \in Lent(9)
      BY TraceRegisters
    <3>2. site' = s
      BY <1>1, <1>2, <1>3, <1>6, <2>0, WorkStep
    <3> QED
      BY <1>2, <2>1, <3>1, <3>2, Lend
  <2>3. Inside(s, -11)'
    BY <1>1, <2>1, <2>2, InsideStays
  <2>4. RaxWord'
    BY <1>1, <2>1 DEF RaxWord
  <2> QED
    BY <2>1, <2>3, <2>4 DEF Tracing5
<1> QED
  BY <1>4, <1>5, <1>6

\* ret.
LEMMA TraceStep7 ==
  ASSUME NEW s \in Traced, Tracing7(s)
  PROVE  Promises /\ (MachineNext => Tracing7(s)' \/ Tracing8(s)')
<1>1. /\ Left(Trace7) /\ At(s, Lent(9), -12) /\ site = s /\ Machine(Lent(9), -12)
      /\ Inside(s, -12) /\ RaxWord
  BY DEF Tracing7, Inside, At
<1>2. /\ Trace8 \in Codes /\ Plain(<<"return">>) /\ s \in Sites
      /\ -12 \in Int /\ -12 \in -35..0
  <2>1. Trace8 \in Codes
    BY TracePieces
  <2>2. "rax" \in GPRegs /\ {"rdi"} \in SUBSET GPRegs
    BY RegAssumption
  <2> QED
    BY <2>1, <2>2, Operations DEF Traced
<1>3. Trace7 = <<<<"return">>>> \o Trace8 /\ Left(<<<<"return">>>> \o Trace8)
  BY <1>1 DEF Trace7
<1>4. Promises
  BY <1>1, <1>2, <1>3, Resting
<1>5. ASSUME Signal PROVE Tracing7(s)'
  <2>1. /\ Left(Trace7)' /\ At(s, Lent(9), -12)'
        /\ \A k \in -35..-1 : k >= -12 => mem'[k] = mem[k]
    BY <1>1, <1>2, <1>3, <1>5, Resting
  <2>2. Inside(s, -12)'
    <3>1. \A k \in -10..-2 : mem'[k] = mem[k]
      BY <2>1
    <3> QED
      BY <1>1, <2>1, <3>1, InsideStays
  <2>3. RaxWord'
    <3>1. mem'[-11] = mem[-11]
      BY <2>1
    <3> QED
      BY <1>1, <3>1 DEF RaxWord
  <2> QED
    BY <2>1, <2>2, <2>3 DEF Tracing7
<1>6. ASSUME MachineNext, ~Signal PROVE Tracing8(s)'
  <2>1. Left(Trace8)' /\ mem' = mem /\ Machine(Lent(9), -12 + 1)'
    BY <1>1, <1>2, <1>3, <1>6, ReturnStep
  <2>2. At(s, Lent(9), -11)'
    <3>1. -12 + 1 = -11 /\ "rax" \in Lent(9) /\ "rdi" \in Lent(9)
      BY TraceRegisters
    <3>2. site' = s
      BY <1>1, <1>2, <1>3, <1>6, ReturnStep
    <3> QED
      BY <1>2, <2>1, <3>1, <3>2, Lend
  <2>3. Inside(s, -11)'
    BY <1>1, <2>1, <2>2, InsideStays
  <2>4. RaxWord'
    BY <1>1, <2>1 DEF RaxWord
  <2> QED
    BY <2>1, <2>3, <2>4 DEF Tracing8
<1> QED
  BY <1>4, <1>5, <1>6

\* pop %rax.
LEMMA TraceStep8 ==
  ASSUME NEW s \in Traced, Tracing8(s)
  PROVE  Promises /\ (MachineNext => Tracing8(s)' \/ Tracing9(s)')
<1>1. /\ Left(Trace8) /\ At(s, Lent(9), -11) /\ site = s /\ Machine(Lent(9), -11)
      /\ Inside(s, -11) /\ RaxWord
  BY DEF Tracing8, Inside, At
<1>2. /\ Trace9 \in Codes /\ Plain(Pop("rax")) /\ s \in Sites
      /\ -11 \in Int /\ -11 \in -35..0
  <2>1. Trace9 \in Codes
    BY TracePieces
  <2>2. "rax" \in GPRegs /\ {"rdi"} \in SUBSET GPRegs
    BY RegAssumption
  <2> QED
    BY <2>1, <2>2, Operations DEF Traced
<1>3. Trace8 = <<Pop("rax")>> \o Trace9 /\ Left(<<Pop("rax")>> \o Trace9)
  BY <1>1 DEF Trace8
<1>4. Promises
  BY <1>1, <1>2, <1>3, Resting
<1>5. ASSUME Signal PROVE Tracing8(s)'
  <2>1. /\ Left(Trace8)' /\ At(s, Lent(9), -11)'
        /\ \A k \in -35..-1 : k >= -11 => mem'[k] = mem[k]
    BY <1>1, <1>2, <1>3, <1>5, Resting
  <2>2. Inside(s, -11)'
    <3>1. \A k \in -10..-2 : mem'[k] = mem[k]
      BY <2>1
    <3> QED
      BY <1>1, <2>1, <3>1, InsideStays
  <2>3. RaxWord'
    <3>1. mem'[-11] = mem[-11]
      BY <2>1
    <3> QED
      BY <1>1, <3>1 DEF RaxWord
  <2> QED
    BY <2>1, <2>2, <2>3 DEF Tracing8
<1>6. ASSUME MachineNext, ~Signal PROVE Tracing9(s)'
  <2>0. "rax" \in GPRegs /\ mem[-11] \in RegWords
    BY <1>1, RegAssumption DEF RaxWord
  <2>1. Left(Trace9)' /\ mem' = mem /\ Machine(Lent(9) \cup {"rax"}, -11 + 1)'
    BY <1>1, <1>2, <1>3, <1>6, <2>0, PopStep
  <2>2. At(s, Lent(9), -10)'
    <3>1. -11 + 1 = -10 /\ "rax" \in Lent(9) /\ "rdi" \in Lent(9)
      BY TraceRegisters
    <3>2. site' = s
      BY <1>1, <1>2, <1>3, <1>6, <2>0, PopStep
    <3> QED
      BY <1>2, <2>1, <3>1, <3>2, Lend
  <2>3. Inside(s, -10)'
    BY <1>1, <2>1, <2>2, InsideStays
  <2> QED
    BY <2>1, <2>3 DEF Tracing9
<1> QED
  BY <1>4, <1>5, <1>6

\* add $0x7f, %al.
LEMMA TraceStep9 ==
  ASSUME NEW s \in Traced, Tracing9(s)
  PROVE  Promises /\ (MachineNext => Tracing9(s)' \/ Tracing10(s)')
<1>1. /\ Left(Trace9) /\ At(s, Lent(9), -10) /\ site = s /\ Machine(Lent(9), -10)
      /\ Inside(s, -10)
  BY DEF Tracing9, Inside, At
<1>2. /\ Trace10 \in Codes /\ Plain(<<"add7f">>) /\ s \in Sites
      /\ -10 \in Int /\ -10 \in -35..0
  <2>1. Trace10 \in Codes
    BY TracePieces
  <2>2. "rax" \in GPRegs /\ {"rdi"} \in SUBSET GPRegs
    BY RegAssumption
  <2> QED
    BY <2>1, <2>2, Operations DEF Traced
<1>3. Trace9 = <<<<"add7f">>>> \o Trace10 /\ Left(<<<<"add7f">>>> \o Trace10)
  BY <1>1 DEF Trace9
<1>4. Promises
  BY <1>1, <1>2, <1>3, Resting
<1>5. ASSUME Signal PROVE Tracing9(s)'
  <2>1. /\ Left(Trace9)' /\ At(s, Lent(9), -10)'
        /\ \A k \in -35..-1 : k >= -10 => mem'[k] = mem[k]
    BY <1>1, <1>2, <1>3, <1>5, Resting
  <2>2. Inside(s, -10)'
    <3>1. \A k \in -10..-2 : mem'[k] = mem[k]
      BY <2>1
    <3> QED
      BY <1>1, <2>1, <3>1, InsideStays
  <2> QED
    BY <2>1, <2>2 DEF Tracing9
<1>6. ASSUME MachineNext, ~Signal PROVE Tracing10(s)'
  <2>1. Left(Trace10)' /\ mem' = mem /\ Machine(Lent(9) \cup {"rax"}, -10)'
    BY <1>1, <1>2, <1>3, <1>6, Add7fStep
  <2>2. At(s, Lent(9), -10)'
    <3>1. -10 = -10 /\ "rax" \in Lent(9) /\ "rdi" \in Lent(9)
      BY TraceRegisters
    <3>2. site' = s
      BY <1>1, <1>2, <1>3, <1>6, Add7fStep
    <3> QED
      BY <1>2, <2>1, <3>1, <3>2, Lend
  <2>3. Inside(s, -10)'
    BY <1>1, <2>1, <2>2, InsideStays
  <2> QED
    BY <2>1, <2>3 DEF Tracing10
<1> QED
  BY <1>4, <1>5, <1>6

\* sahf.
LEMMA TraceStep10 ==
  ASSUME NEW s \in Traced, Tracing10(s)
  PROVE  Promises /\ (MachineNext => Tracing10(s)' \/ Popping(s, 0)')
<1>1. /\ Left(Trace10) /\ At(s, Lent(9), -10) /\ site = s /\ Machine(Lent(9), -10)
      /\ Inside(s, -10)
  BY DEF Tracing10, Inside, At
<1>2. /\ PopsFrom(0) \in Codes /\ Plain(<<"sahf">>) /\ s \in Sites
      /\ -10 \in Int /\ -10 \in -35..0
  <2>1. PopsFrom(0) \in Codes
    BY TracePieces
  <2>2. "rax" \in GPRegs /\ {"rdi"} \in SUBSET GPRegs
    BY RegAssumption
  <2> QED
    BY <2>1, <2>2, Operations DEF Traced
<1>3. Trace10 = <<<<"sahf">>>> \o PopsFrom(0) /\ Left(<<<<"sahf">>>> \o PopsFrom(0))
  BY <1>1 DEF Trace10
<1>4. Promises
  BY <1>1, <1>2, <1>3, Resting
<1>5. ASSUME Signal PROVE Tracing10(s)'
  <2>1. /\ Left(Trace10)' /\ At(s, Lent(9), -10)'
        /\ \A k \in -35..-1 : k >= -10 => mem'[k] = mem[k]
    BY <1>1, <1>2, <1>3, <1>5, Resting
  <2>2. Inside(s, -10)'
    <3>1. \A k \in -10..-2 : mem'[k] = mem[k]
      BY <2>1
    <3> QED
      BY <1>1, <2>1, <3>1, InsideStays
  <2> QED
    BY <2>1, <2>2 DEF Tracing10
<1>6. ASSUME MachineNext, ~Signal PROVE Popping(s, 0)'
  <2>1. Left(PopsFrom(0))' /\ mem' = mem /\ Machine(Lent(9), -10)' /\ site' = s
    BY <1>1, <1>2, <1>3, <1>6, SahfStep
  <2>2. At(s, Lent(9), -10)'
    BY <2>1 DEF At
  <2>3. Inside(s, -10)'
    BY <1>1, <2>1, <2>2, InsideStays
  <2>4. 9 - 0 = 9 /\ 0 - 10 = -10
    OBVIOUS
  <2> QED
    BY <2>1, <2>3, <2>4 DEF Inside, Popping
<1> QED
  BY <1>4, <1>5, <1>6

\* sub $8, %rsp.
LEMMA TraceStep0 ==
  ASSUME NEW s \in Traced, Tracing0(s)
  PROVE  Promises /\ (MachineNext => Tracing0(s)' \/ Pushing(s, 0)')
<1>1. Left(Trace0(s)) /\ At(s, {}, 0) /\ site = s /\ Machine({}, 0)
  BY DEF Tracing0, At
<1>2. /\ PushesFrom(s, 0) \in Codes /\ Plain(Add(-1)) /\ s \in Sites
      /\ 0 \in Int /\ 0 \in -35..0 /\ -1 \in Int
  <2>1. PushesFrom(s, 0) \in Codes
    BY TracePieces
  <2> QED
    BY <2>1, Operations DEF Traced
<1>3. Trace0(s) = <<Add(-1)>> \o PushesFrom(s, 0) /\ Left(<<Add(-1)>> \o PushesFrom(s, 0))
  BY <1>1 DEF Trace0
<1>4. Promises
  BY <1>1, <1>2, <1>3, Resting
<1>5. ASSUME Signal PROVE Tracing0(s)'
  <2>1. Left(Trace0(s))' /\ At(s, {}, 0)'
    BY <1>1, <1>2, <1>3, <1>5, Resting
  <2> QED
    BY <2>1 DEF Tracing0
<1>6. ASSUME MachineNext, ~Signal PROVE Pushing(s, 0)'
  <2>1. Left(PushesFrom(s, 0))' /\ site' = s /\ Machine({}, 0 + (-1))'
    BY <1>1, <1>2, <1>3, <1>6, AddStep
  <2>2. 0 + (-1) = -1 - 0 /\ 1..0 = {}
    OBVIOUS
  <2> QED
    BY <2>1, <2>2 DEF Pushing, At, Kept
<1> QED
  BY <1>4, <1>5, <1>6

\* A push of a register that the program may need.
LEMMA PushingStep ==
  ASSUME NEW s \in Traced, NEW m \in 0..8, Pushing(s, m)
  PROVE  Promises /\ (MachineNext => Pushing(s, m)' \/ Pushing(s, m + 1)')
<1> DEFINE r == TraceSaved[m + 1]
           R == PushesFrom(s, m + 1)
           d == -1 - m
<1>1. Left(PushesFrom(s, m)) /\ At(s, {}, d) /\ site = s /\ Machine({}, d) /\ Kept(s, m)
  BY DEF Pushing, At
<1>2. r \in GPRegs /\ R \in Codes /\ d \in Int /\ d \in -35..0 /\ s \in Sites
  <2>1. m + 1 \in 1..9 /\ m + 1 \in 0..9
    OBVIOUS
  <2>2. R \in Codes
    BY <2>1, TracePieces
  <2>3. r \in GPRegs
    BY <2>1, TraceRegisters
  <2> QED
    BY <2>2, <2>3 DEF Traced
<1>3. PushesFrom(s, m) = <<Push(r)>> \o R /\ Left(<<Push(r)>> \o R) /\ Plain(Push(r))
  <2>1. m \in 0..Len(PushAll) - 1 /\ m + 1 \in 0..Len(PushAll) /\ PushAll \in Codes
        /\ PushAll[m + 1] = Push(r)
    BY SavesCode
  <2>2. Rest(PushAll, m) = <<Push(r)>> \o Rest(PushAll, m + 1) /\ Rest(PushAll, m + 1) \in Codes
    BY <2>1, RestCode
  <2>3. <<Push(r)>> \in Codes /\ Trace1(s) \in Codes
    BY <1>2, CodeTypes, TracePieces
  <2>4. Regroups(<<Push(r)>>, Rest(PushAll, m + 1), Trace1(s))
    BY <2>2, <2>3, CodeRegroups
  <2>5. PushesFrom(s, m) = <<Push(r)>> \o R
    BY <2>2, <2>4 DEF Regroups, PushesFrom
  <2> QED
    BY <1>1, <1>2, <2>5, Operations
<1> HIDE DEF r, R
<1>4. Promises
  BY <1>1, <1>2, <1>3, Resting
<1>5. ASSUME Signal PROVE Pushing(s, m)'
  <2>1. /\ Left(PushesFrom(s, m))' /\ At(s, {}, d)'
        /\ \A k \in -35..-1 : k >= d => mem'[k] = mem[k]
    BY <1>1, <1>2, <1>3, <1>5, Resting
  <2>2. \A k \in -1 - m..-2 : mem'[k] = mem[k]
    BY <2>1
  <2>3. Kept(s, m)'
    <3>1. m \in 0..9
      OBVIOUS
    <3> QED
      BY <1>1, <2>2, <3>1, KeptStays
  <2> QED
    BY <2>1, <2>3 DEF Pushing
<1>6. ASSUME MachineNext, ~Signal PROVE Pushing(s, m + 1)'
  <2>1. d - 1 \in StackSlots \ Own
    <3>1. s.code = "trace" /\ d - 1 \in -35..-1
      BY DEF Traced
    <3> QED
      BY <1>1, <1>2, <3>1, Below
  <2>2. /\ Left(R)' /\ Machine({}, d - 1)' /\ site' = s
        /\ mem'[d - 1] = regs[r] /\ \A k \in StackSlots : k # d - 1 => mem'[k] = mem[k]
    BY <1>1, <1>2, <1>3, <1>6, <2>1, PushStep
  <2>3. At(s, {}, -1 - (m + 1))'
    <3>1. -1 - (m + 1) = d - 1
      OBVIOUS
    <3> QED
      BY <2>2, <3>1 DEF At
  <2>4. Restores(s, regs[r], r)
    BY <1>1, <1>2 DEF Machine, Restores
  <2>5. \A k \in -1 - m..-2 : mem'[k] = mem[k]
    BY <2>2 DEF StackSlots
  <2>6. Kept(s, m)'
    <3>1. m \in 0..9
      OBVIOUS
    <3> QED
      BY <1>1, <2>5, <3>1, KeptStays
  <2>7. Restores(s, mem'[-1 - (m + 1)], TraceSaved[m + 1])
    <3>1. -1 - (m + 1) = d - 1
      OBVIOUS
    <3> QED
      BY <2>2, <2>4, <3>1 DEF r
  <2>8. Kept(s, m + 1)'
    <3>1. \A j \in 1..m + 1 : j \in 1..m \/ j = m + 1
      OBVIOUS
    <3> QED
      BY <2>6, <2>7, <3>1 DEF Kept, Restores
  <2> QED
    BY <2>2, <2>3, <2>8 DEF Pushing, R
<1> QED
  BY <1>4, <1>5, <1>6
LEMMA PushingEnd == \A s \in Traced : Pushing(s, 9) => Tracing1(s)
<1> SUFFICES ASSUME NEW s \in Traced, Pushing(s, 9) PROVE Tracing1(s)
  OBVIOUS
<1>1. PushesFrom(s, 9) = Trace1(s)
  <2>1. Rest(PushAll, 9) = <<>>
    BY SavesCode, RestCode
  <2>2. Trace1(s) \in Codes
    BY TracePieces
  <2> QED
    BY <2>1, <2>2, Skipped DEF PushesFrom
<1>2. At(s, {}, -10) /\ Kept(s, 9)
  <2>1. -1 - 9 = -10
    OBVIOUS
  <2> QED
    BY <2>1 DEF Pushing
<1>3. At(s, Lent(9), -10)
  BY <1>2, Lend DEF At, Traced
<1> QED
  BY <1>1, <1>2, <1>3 DEF Pushing, Tracing1, Inside

\* A pop, which gives the register its value again.
LEMMA PoppingStep ==
  ASSUME NEW s \in Traced, NEW m \in 0..8, Popping(s, m)
  PROVE  Promises /\ (MachineNext => Popping(s, m)' \/ Popping(s, m + 1)')
<1> DEFINE n == 9 - m
           r == TraceSaved[n]
           R == PopsFrom(m + 1)
           d == m - 10
<1>1. Left(PopsFrom(m)) /\ At(s, Lent(n), d) /\ site = s /\ Machine(Lent(n), d) /\ Kept(s, n)
  BY DEF Popping, At
<1>2. r \in GPRegs /\ R \in Codes /\ d \in Int /\ d \in -35..0 /\ s \in Sites /\ n \in 1..9
  <2>1. n \in 1..9 /\ m + 1 \in 0..9
    OBVIOUS
  <2>2. R \in Codes
    BY <2>1, TracePieces
  <2>3. r \in GPRegs
    BY <2>1, TraceRegisters
  <2> QED
    BY <2>1, <2>2, <2>3 DEF Traced
<1>3. PopsFrom(m) = <<Pop(r)>> \o R /\ Left(<<Pop(r)>> \o R) /\ Plain(Pop(r))
  <2>1. m \in 0..Len(PopAll) - 1 /\ m + 1 \in 0..Len(PopAll) /\ PopAll \in Codes
        /\ PopAll[m + 1] = Pop(r)
    BY SavesCode
  <2>2. Rest(PopAll, m) = <<Pop(r)>> \o Rest(PopAll, m + 1) /\ Rest(PopAll, m + 1) \in Codes
    BY <2>1, RestCode
  <2>3. <<Pop(r)>> \in Codes /\ Trace11 \in Codes
    BY <1>2, CodeTypes, TracePieces
  <2>4. Regroups(<<Pop(r)>>, Rest(PopAll, m + 1), Trace11)
    BY <2>2, <2>3, CodeRegroups
  <2>5. PopsFrom(m) = <<Pop(r)>> \o R
    BY <2>2, <2>4 DEF Regroups, PopsFrom
  <2> QED
    BY <1>1, <1>2, <2>5, Operations
<1> HIDE DEF r, R
<1>4. Promises
  BY <1>1, <1>2, <1>3, Resting
<1>5. ASSUME Signal PROVE Popping(s, m)'
  <2>1. /\ Left(PopsFrom(m))' /\ At(s, Lent(n), d)'
        /\ \A k \in -35..-1 : k >= d => mem'[k] = mem[k]
    BY <1>1, <1>2, <1>3, <1>5, Resting
  <2>2. \A k \in -1 - n..-2 : mem'[k] = mem[k]
    BY <2>1
  <2>3. Kept(s, n)'
    <3>1. n \in 0..9
      OBVIOUS
    <3> QED
      BY <1>1, <2>2, <3>1, KeptStays
  <2> QED
    BY <2>1, <2>3 DEF Popping
<1>6. ASSUME MachineNext, ~Signal PROVE Popping(s, m + 1)'
  <2>1. Restores(s, mem[d], r)
    <3>1. -1 - n = d
      OBVIOUS
    <3> QED
      BY <1>1, <1>2, <3>1 DEF Kept, r
  <2>2. mem[d] \in RegWords /\ (r \notin site.free => mem[d] = ProgramReg(r))
    BY <1>1, <2>1 DEF Restores
  <2>3. Left(R)' /\ site' = s /\ mem' = mem /\ Machine(Lent(n) \ {r}, d + 1)'
    BY <1>1, <1>2, <1>3, <1>6, <2>2, PopStep
  <2>4. At(s, Lent(9 - (m + 1)), (m + 1) - 10)'
    <3>1. 9 - (m + 1) = n - 1 /\ (m + 1) - 10 = d + 1
      OBVIOUS
    <3>2. \A q \in Lent(n) \ {r} : q \in Lent(n - 1)
      BY <1>2, TraceRegisters DEF r
    <3> HIDE DEF n, d
    <3> QED
      BY <1>2, <2>3, <3>1, <3>2, Lend
  <2>5. Kept(s, 9 - (m + 1))'
    <3>1. \A j \in 1..9 - (m + 1) : j \in 1..n
      OBVIOUS
    <3> QED
      BY <1>1, <2>3, <3>1 DEF Kept, Restores
  <2> QED
    BY <2>3, <2>4, <2>5 DEF Popping, R
<1> QED
  BY <1>4, <1>5, <1>6
LEMMA PoppingEnd == \A s \in Traced : Popping(s, 9) => Tracing11(s)
<1> SUFFICES ASSUME NEW s \in Traced, Popping(s, 9) PROVE Tracing11(s)
  OBVIOUS
<1>1. PopsFrom(9) = Trace11
  <2>1. Rest(PopAll, 9) = <<>>
    BY SavesCode, RestCode
  <2>2. Trace11 \in Codes
    BY TracePieces
  <2> QED
    BY <2>1, <2>2, Skipped DEF PopsFrom
<1>2. 9 - 9 = 0 /\ 9 - 10 = -1 /\ Lent(0) = {}
  BY TraceRegisters
<1> QED
  BY <1>1, <1>2 DEF Popping, Tracing11

\* add $8, %rsp.
LEMMA TraceStep11 ==
  ASSUME NEW s \in Traced, Tracing11(s)
  PROVE  Promises /\ (MachineNext => Tracing11(s)' \/ Tracing12(s)')
<1>1. Left(Trace11) /\ At(s, {}, -1) /\ site = s /\ Machine({}, -1)
  BY DEF Tracing11, At
<1>2. <<>> \in Codes /\ Plain(Add(1)) /\ s \in Sites /\ -1 \in Int /\ -1 \in -35..0 /\ 1 \in Int
  BY CodeTypes, Operations DEF Traced
<1>3. Trace11 = <<Add(1)>> \o <<>> /\ Left(<<Add(1)>> \o <<>>)
  BY <1>1 DEF Trace11
<1>4. Promises
  BY <1>1, <1>2, <1>3, Resting
<1>5. ASSUME Signal PROVE Tracing11(s)'
  <2>1. Left(Trace11)' /\ At(s, {}, -1)'
    BY <1>1, <1>2, <1>3, <1>5, Resting
  <2> QED
    BY <2>1 DEF Tracing11
<1>6. ASSUME MachineNext, ~Signal PROVE Tracing12(s)'
  <2>1. Left(<<>>)' /\ site' = s /\ Machine({}, -1 + 1)'
    BY <1>1, <1>2, <1>3, <1>6, AddStep
  <2>2. -1 + 1 = 0
    OBVIOUS
  <2> QED
    BY <2>1, <2>2 DEF Tracing12, At
<1> QED
  BY <1>4, <1>5, <1>6

\* The call, on an aligned stack.
LEMMA TraceStep5 ==
  ASSUME NEW s \in Traced, Tracing5(s)
  PROVE  Promises /\ (MachineNext => Tracing5(s)' \/ \E h : Logging(s, 0, h)')
<1> DEFINE q == LogEntry(s.mapped, s.printing)
<1>1. /\ Left(Trace5(s)) /\ At(s, Lent(9), -11) /\ site = s /\ Machine(Lent(9), -11)
      /\ Inside(s, -11) /\ RaxWord
  BY DEF Tracing5, Inside, At
<1>2. /\ Trace6(s) \in Codes /\ <<<<"call">>>> \in Codes /\ s \in Sites /\ q \in Codes
  <2>1. Trace6(s) \in Codes /\ q \in Codes
    BY TracePieces
  <2> QED
    BY <2>1, CodeTypes DEF Traced
<1>3. Trace5(s) = <<<<"call">>>> \o Trace6(s) /\ Left(<<<<"call">>>> \o Trace6(s))
  BY <1>1 DEF Trace5
<1>4. Promises
  <2>1. ~Finished /\ Code[pc] = <<"call">>
    BY <1>2, <1>3, LeftStep
  <2>2. rsp = -11 /\ (8 + 8 * (-11)) % 16 = 0
    BY <1>1 DEF Machine
  <2>3. OperandIntact /\ AlignedAtCall /\ Transparent
    BY <2>1, <2>2 DEF OperandIntact, AlignedAtCall, Transparent, Executing
  <2>4. RedZonesViaRsp => RedZoneIntact
    BY <1>1, <1>2 DEF IsLeaf, RedZonesViaRsp, RedZoneIntact, Machine, Own, Spared
  <2> QED
    BY <2>3, <2>4 DEF Promises
<1>5. ASSUME Signal PROVE Tracing5(s)'
  <2>1. /\ Machine(Lent(9), -11)' /\ site' = site
        /\ \A c : Left(c) => Left(c)'
        /\ \A k \in StackSlots : k >= -11 - 16 => mem'[k] = mem[k]
    BY <1>1, <1>5, SignalStep
  <2>2. \A k \in -11..-2 : mem'[k] = mem[k]
    BY <2>1 DEF StackSlots
  <2>3. At(s, Lent(9), -11)'
    BY <1>1, <2>1 DEF At
  <2>4. Inside(s, -11)'
    <3>1. \A k \in -10..-2 : mem'[k] = mem[k]
      BY <2>2
    <3> QED
      BY <1>1, <2>3, <3>1, InsideStays
  <2>5. RaxWord'
    <3>1. mem'[-11] = mem[-11]
      BY <2>2
    <3> QED
      BY <1>1, <3>1 DEF RaxWord
  <2> QED
    BY <1>1, <2>1, <2>4, <2>5 DEF Tracing5
<1>6. ASSUME MachineNext, ~Signal PROVE \E h : Logging(s, 0, h)'
  <2>1. -11 - 1 \in StackSlots \ Own /\ -11 - 1 = -12
    <3>1. s.code = "trace" /\ -12 \in -35..-1 /\ -11 - 1 = -12
      BY DEF Traced
    <3> QED
      BY <1>1, <1>2, <3>1, Below
  <2>2. /\ Left(Trace6(s))' /\ Machine(Lent(9), -11 - 1)' /\ site' = s
        /\ \A k \in StackSlots : k # -11 - 1 => mem'[k] = mem[k]
    BY <1>1, <1>2, <1>3, <1>6, <2>1, CallStep
  <2>3. \A k \in -11..-2 : mem'[k] = mem[k]
    BY <2>1, <2>2 DEF StackSlots
  <2>4. At(s, Lent(9), -12)'
    BY <2>1, <2>2 DEF At
  <2>5. Inside(s, -12)'
    <3>1. \A k \in -10..-2 : mem'[k] = mem[k]
      BY <2>3
    <3> QED
      BY <1>1, <2>4, <3>1, InsideStays
  <2>6. RaxWord'
    <3>1. mem'[-11] = mem[-11]
      BY <2>3
    <3> QED
      BY <1>1, <3>1 DEF RaxWord
  <2>7. PICK h : Climbs(q, h) /\ h[1] = -12 /\ h[Len(q) + 1] = -12
    BY LogLeads DEF Leads
  <2>8. Rest(q, 0) = q /\ 0 + 1 = 1
    BY <1>2, RestCode
  <2>9. Left(Rest(q, 0) \o Trace7)' /\ Inside(s, h[0 + 1])'
    BY <2>2, <2>5, <2>7, <2>8 DEF Trace6
  <2>10. \A k \in h[0 + 1]..-13 : mem'[k] \in RegWords
    BY <2>7, <2>8
  <2> QED
    BY <2>6, <2>7, <2>9, <2>10 DEF Logging
<1> QED
  BY <1>4, <1>5, <1>6

\* An instruction of __trace_log_entry.
LEMMA LoggingStep ==
  ASSUME NEW s \in Traced, NEW h, NEW m \in 0..Len(LogEntry(s.mapped, s.printing)) - 1,
         Logging(s, m, h)
  PROVE  Promises /\ (MachineNext => Logging(s, m, h)' \/ Logging(s, m + 1, h)')
<1> DEFINE q == LogEntry(s.mapped, s.printing)
           i == q[m + 1]
           d == h[m + 1]
           e == h[m + 2]
           c == Rest(q, m) \o Trace7
           R == Rest(q, m + 1) \o Trace7
<1>1. /\ Climbs(q, h) /\ h[1] = -12 /\ h[Len(q) + 1] = -12 /\ Left(c)
      /\ At(s, Lent(9), d) /\ site = s /\ Machine(Lent(9), d) /\ Inside(s, d) /\ RaxWord
      /\ \A k \in d..-13 : mem[k] \in RegWords
  BY DEF Logging, Inside, At
<1>2. q \in Codes /\ Len(q) \in Nat /\ m + 1 \in 1..Len(q) /\ m + 1 + 1 = m + 2 /\ s \in Sites
  <2>1. q \in Codes
    BY <1>1 DEF Climbs
  <2>2. Len(q) \in Nat
    BY <2>1, RestCode
  <2> QED
    BY <2>1, <2>2 DEF Traced
<1>3. Moves(i, d, e) /\ d \in Heights /\ e \in Heights
  <2>1. /\ h \in [1..Len(q) + 1 -> Heights]
        /\ \A j \in 1..Len(q) : Moves(q[j], h[j], h[j + 1])
    BY <1>1 DEF Climbs
  <2>2. m + 1 \in 1..Len(q) + 1 /\ m + 2 \in 1..Len(q) + 1
    BY <1>2
  <2>3. Moves(q[m + 1], h[m + 1], h[m + 1 + 1])
    BY <1>2, <2>1
  <2> QED
    BY <1>2, <2>1, <2>2, <2>3
<1>4. d \in Int /\ d \in -35..0 /\ d <= -12 /\ e \in Int /\ e <= -12 /\ e \in -35..-1
  BY <1>3 DEF Heights
<1>5. <<i>> \in Codes /\ Plain(i)
  BY <1>3, MovesCode
<1>6. R \in Codes /\ c = <<i>> \o R
  <2>1. m \in 0..Len(q) - 1 /\ m + 1 \in 0..Len(q)
    BY <1>2
  <2>2. Rest(q, m) = <<i>> \o Rest(q, m + 1) /\ Rest(q, m + 1) \in Codes
    BY <1>2, <2>1, RestCode
  <2>3. Trace7 \in Codes
    BY TracePieces
  <2>4. Regroups(<<i>>, Rest(q, m + 1), Trace7)
    BY <1>5, <2>2, <2>3, CodeRegroups
  <2>5. R \in Codes
    BY <2>2, <2>3, CodeJoins
  <2> QED
    BY <2>2, <2>4, <2>5 DEF Regroups
<1> HIDE DEF i, d, e, c, R, q
<1>7. Left(<<i>> \o R)
  BY <1>1, <1>6
<1>8. Promises
  BY <1>1, <1>2, <1>4, <1>5, <1>6, Resting
<1>9. ASSUME Signal PROVE Logging(s, m, h)'
  <2>1. /\ Left(c)' /\ At(s, Lent(9), d)'
        /\ \A k \in -35..-1 : k >= d => mem'[k] = mem[k]
    BY <1>1, <1>2, <1>4, <1>5, <1>6, <1>9, Resting
  <2>2. /\ \A k \in -10..-2 : mem'[k] = mem[k]
        /\ mem'[-11] = mem[-11]
        /\ \A k \in d..-13 : mem'[k] = mem[k]
    <3>1. /\ \A k \in -10..-2 : k \in -35..-1 /\ k >= d
          /\ -11 \in -35..-1 /\ -11 >= d
          /\ \A k \in d..-13 : k \in -35..-1 /\ k >= d
      BY <1>4
    <3> QED
      BY <2>1, <3>1
  <2>3. Inside(s, d)'
    BY <1>1, <2>1, <2>2, InsideStays
  <2>4. RaxWord' /\ \A k \in d..-13 : mem'[k] \in RegWords
    BY <1>1, <2>2 DEF RaxWord
  <2> QED
    BY <1>1, <2>1, <2>3, <2>4 DEF Logging, q, d, c
<1>10. ASSUME MachineNext, ~Signal PROVE Logging(s, m + 1, h)'
  <2>1. SUFFICES /\ Left(R)' /\ Machine(Lent(9), e)' /\ site' = s
                 /\ \A k \in -11..-2 : mem'[k] = mem[k]
                 /\ \A k \in e..-13 : mem'[k] \in RegWords
    <3>1. /\ \A k \in -10..-2 : mem'[k] = mem[k]
          /\ mem'[-11] = mem[-11]
      BY <2>1
    <3>2. At(s, Lent(9), e)'
      BY <2>1 DEF At
    <3>3. Inside(s, e)'
      BY <1>1, <3>1, <3>2, InsideStays
    <3>4. RaxWord'
      BY <1>1, <3>1 DEF RaxWord
    <3>5. h[m + 1 + 1] = e
      BY <1>2 DEF e
    <3> QED
      BY <1>1, <2>1, <3>3, <3>4, <3>5 DEF Logging, q, R
  <2>2. CASE \E r \in Lent(9) : i = Push(r) /\ e = d - 1
    <3>1. PICK r \in Lent(9) : i = Push(r) /\ e = d - 1
      BY <2>2
    <3>2. r \in GPRegs /\ d - 1 \in StackSlots \ Own
      <4>1. s.code = "trace" /\ d - 1 \in -35..-1
        BY <1>4, <3>1 DEF Traced
      <4> QED
        BY <1>1, <1>2, <4>1, Below, TraceRegisters
    <3>3. /\ Left(R)' /\ Machine(Lent(9), d - 1)' /\ site' = s
          /\ mem'[d - 1] = regs[r] /\ \A k \in StackSlots : k # d - 1 => mem'[k] = mem[k]
      BY <1>1, <1>4, <1>6, <1>7, <1>10, <3>1, <3>2, PushStep
    <3>4. mem'[e] \in RegWords
      BY <1>1, <3>1, <3>2, <3>3 DEF Machine
    <3>5. /\ \A k \in -11..-2 : mem'[k] = mem[k]
          /\ \A k \in d..-13 : mem'[k] = mem[k]
      <4>1. /\ \A k \in -11..-2 : k \in StackSlots /\ k # d - 1
            /\ \A k \in d..-13 : k \in StackSlots /\ k # d - 1
        BY <1>4 DEF StackSlots
      <4> QED
        BY <3>3, <4>1
    <3>6. \A k \in e..-13 : k = e \/ k \in d..-13
      BY <1>4, <3>1
    <3> QED
      BY <1>1, <3>1, <3>3, <3>4, <3>5, <3>6
  <2>3. CASE \E r \in Lent(9) : i = Pop(r) /\ e = d + 1
    <3>1. PICK r \in Lent(9) : i = Pop(r) /\ e = d + 1
      BY <2>3
    <3>2. r \in GPRegs /\ mem[d] \in RegWords
      <4>1. d \in d..-13
        BY <1>4, <3>1
      <4> QED
        BY <1>1, <4>1, TraceRegisters
    <3>3. /\ Left(R)' /\ mem' = mem /\ Machine(Lent(9) \cup {r}, d + 1)' /\ site' = s
      BY <1>1, <1>4, <1>6, <1>7, <1>10, <3>1, <3>2, PopStep
    <3>4. Lent(9) \cup {r} = Lent(9)
      OBVIOUS
    <3>5. \A k \in e..-13 : k \in d..-13
      BY <1>4, <3>1
    <3> QED
      BY <1>1, <3>1, <3>3, <3>4, <3>5
  <2>4. CASE \E W \in SUBSET Lent(9) : i = Work(W) /\ e = d
    <3>1. PICK W \in SUBSET Lent(9) : i = Work(W) /\ e = d
      BY <2>4
    <3>2. W \in SUBSET GPRegs /\ Lent(9) \cup W = Lent(9)
      BY TraceRegisters
    <3>3. Left(R)' /\ mem' = mem /\ Machine(Lent(9) \cup W, d)' /\ site' = s
      BY <1>1, <1>4, <1>6, <1>7, <1>10, <3>1, <3>2, WorkStep
    <3> QED
      BY <1>1, <3>1, <3>2, <3>3
  <2> QED
    BY <1>3, <2>2, <2>3, <2>4 DEF Moves
<1> QED
  BY <1>8, <1>9, <1>10
LEMMA LoggingEnd ==
  \A s \in Traced : \A h : Logging(s, Len(LogEntry(s.mapped, s.printing)), h) => Tracing7(s)
<1> SUFFICES ASSUME NEW s \in Traced, NEW h, Logging(s, Len(LogEntry(s.mapped, s.printing)), h)
             PROVE  Tracing7(s)
  OBVIOUS
<1> DEFINE q == LogEntry(s.mapped, s.printing)
<1>1. q \in Codes /\ Trace7 \in Codes
  BY TracePieces
<1>2. Rest(q, Len(q)) = <<>>
  BY <1>1, RestCode
<1>3. <<>> \o Trace7 = Trace7
  BY <1>1, Skipped
<1>4. h[Len(q) + 1] = -12 /\ Left(Rest(q, Len(q)) \o Trace7) /\ Inside(s, h[Len(q) + 1]) /\ RaxWord
  BY DEF Logging
<1> QED
  BY <1>2, <1>3, <1>4 DEF Tracing7

\* Wherever the code of the trace pass is, the promises hold and its next step
\* leads on.
LEMMA TraceGoal ==
  ASSUME TraceInv
  PROVE  Promises /\ (MachineNext => TraceInv')
<1>1. PICK s \in Traced : InTrace(s)
  BY DEF TraceInv
<1> DEFINE G == Promises /\ (MachineNext => TraceInv')
           L == Len(LogEntry(s.mapped, s.printing))
<1>2. /\ \A m \in 0..9 : Pushing(s, m)' => TraceInv'
      /\ \A m \in 0..9 : Popping(s, m)' => TraceInv'
      /\ \A m \in 0..L : \A h : Logging(s, m, h)' => TraceInv'
      /\ L \in Nat
  <2>1. L \in Nat
    BY TracePieces, RestCode
  <2> QED
    BY <2>1 DEF TraceInv, InTrace
<1>3. /\ Tracing0(s)' \/ Tracing1(s)' \/ Tracing2(s)' \/ Tracing3(s)' \/ Tracing4(s)' => TraceInv'
      /\ Tracing5(s)' \/ Tracing7(s)' \/ Tracing8(s)' \/ Tracing9(s)' \/ Tracing10(s)' => TraceInv'
      /\ Tracing11(s)' \/ Tracing12(s)' => TraceInv'
  BY DEF TraceInv, InTrace
<1>4. Tracing0(s) => G
  <2>1. 0 \in 0..9
    OBVIOUS
  <2> QED
    BY <1>2, <1>3, <2>1, TraceStep0
<1>5. Tracing1(s) => G
  BY <1>3, TraceStep1
<1>6. Tracing2(s) => G
  BY <1>3, TraceStep2
<1>7. Tracing3(s) => G
  BY <1>3, TraceStep3
<1>8. Tracing4(s) => G
  BY <1>3, TraceStep4
<1>9. Tracing5(s) => G
  <2>1. 0 \in 0..L
    BY <1>2
  <2> QED
    BY <1>2, <1>3, <2>1, TraceStep5
<1>10. Tracing7(s) => G
  BY <1>3, TraceStep7
<1>11. Tracing8(s) => G
  BY <1>3, TraceStep8
<1>12. Tracing9(s) => G
  BY <1>3, TraceStep9
<1>13. Tracing10(s) => G
  <2>1. 0 \in 0..9
    OBVIOUS
  <2> QED
    BY <1>2, <1>3, <2>1, TraceStep10
<1>14. Tracing11(s) => G
  BY <1>3, TraceStep11
<1>15. Tracing12(s) => G
  <2>1. ASSUME Tracing12(s) PROVE G
    <3>1. Left(<<>>) /\ At(s, {}, 0) /\ s \in Sites /\ site = s /\ s.code = "trace"
      BY <2>1 DEF Tracing12, At, Traced
    <3>2. ~MachineNext
      BY <3>1, Ended
    <3>3. FlagsIntact \/ ~EntriesNeedNoFlag
      BY <3>1 DEF FlagsIntact, EntriesNeedNoFlag
    <3>4. Promises
      BY <3>1, <3>3, EndPromises
    <3> QED
      BY <3>2, <3>4
  <2> QED
    BY <2>1
<1>16. \A m \in 0..9 : Pushing(s, m) => G
  <2> SUFFICES ASSUME NEW m \in 0..9, Pushing(s, m) PROVE G
    OBVIOUS
  <2>1. CASE m \in 0..8
    <3>1. m + 1 \in 0..9
      BY <2>1
    <3>2. Promises /\ (MachineNext => Pushing(s, m)' \/ Pushing(s, m + 1)')
      BY <2>1, PushingStep
    <3> QED
      BY <1>2, <3>1, <3>2
  <2>2. CASE m = 9
    BY <1>5, <2>2, PushingEnd
  <2> QED
    BY <2>1, <2>2
<1>17. \A m \in 0..9 : Popping(s, m) => G
  <2> SUFFICES ASSUME NEW m \in 0..9, Popping(s, m) PROVE G
    OBVIOUS
  <2>1. CASE m \in 0..8
    <3>1. m + 1 \in 0..9
      BY <2>1
    <3>2. Promises /\ (MachineNext => Popping(s, m)' \/ Popping(s, m + 1)')
      BY <2>1, PoppingStep
    <3> QED
      BY <1>2, <3>1, <3>2
  <2>2. CASE m = 9
    BY <1>14, <2>2, PoppingEnd
  <2> QED
    BY <2>1, <2>2
<1>18. \A h : \A m \in 0..L : Logging(s, m, h) => G
  <2> SUFFICES ASSUME NEW h, NEW m \in 0..L, Logging(s, m, h) PROVE G
    OBVIOUS
  <2>1. CASE m \in 0..L - 1
    <3>1. m + 1 \in 0..L
      BY <1>2, <2>1
    <3>2. Promises /\ (MachineNext => Logging(s, m, h)' \/ Logging(s, m + 1, h)')
      BY <2>1, LoggingStep
    <3> QED
      BY <1>2, <3>1, <3>2
  <2>2. CASE m = L
    BY <1>10, <2>2, LoggingEnd
  <2>3. m \in 0..L - 1 \/ m = L
    BY <1>2
  <2> QED
    BY <2>1, <2>2, <2>3
<1> HIDE DEF G
<1>19. G
  BY <1>1, <1>4, <1>5, <1>6, <1>7, <1>8, <1>9, <1>10, <1>11, <1>12, <1>13, <1>14, <1>15, <1>16,
     <1>17, <1>18 DEF InTrace
<1> QED
  BY <1>19 DEF G

\* The code of the trace pass begins there.
LEMMA TraceStart ==
  ASSUME MachineInit, site.code = "trace"
  PROVE  TraceInv
<1> DEFINE s   == site
           sub == <<Add(-1)>>
           arg == <<Push("rax"), Work({"rdi"}), <<"call">>>>
           log == LogEntry(s.mapped, s.printing)
           ret == <<<<"return">>, Pop("rax")>>
           add == <<Add(1)>>
<1>1. s \in Traced /\ s \in Sites
  BY DEF MachineInit, Traced
<1>2. /\ sub \in Codes /\ add \in Codes /\ <<Push("rax")>> \in Codes /\ <<Pop("rax")>> \in Codes
      /\ <<Work({"rdi"})>> \in Codes /\ <<<<"call">>>> \in Codes /\ <<<<"return">>>> \in Codes
      /\ <<>> \in Codes
  <2>1. "rax" \in GPRegs /\ {"rdi"} \in SUBSET GPRegs /\ 1 \in Int /\ -1 \in Int
    BY RegAssumption
  <2> QED
    BY <2>1, CodeTypes
<1>3. /\ arg \in Codes
      /\ \A Y \in Codes : arg \o Y = <<Push("rax")>> \o (<<Work({"rdi"})>> \o (<<<<"call">>>> \o Y))
  <2>1. Three(Push("rax"), Work({"rdi"}), <<"call">>)
    BY <1>2, Threes
  <2> QED
    BY <2>1 DEF Three
<1>4. /\ ret \in Codes
      /\ \A Y \in Codes : ret \o Y = <<<<"return">>>> \o (<<Pop("rax")>> \o Y)
  <2>1. Two(<<"return">>, Pop("rax"))
    BY <1>2, Twos
  <2> QED
    BY <2>1 DEF Two
<1>5. log \in Codes /\ PushAll \in Codes /\ PopAll \in Codes
  BY <1>1, TracePieces, SavesCode
<1>6. [i \in 1..9 |-> Pop(Reverse(TraceSaved)[i])] = PopAll
  <2>1. Len(TraceSaved) = 9
    BY DEF TraceSaved
  <2>2. \A i \in 1..9 : Reverse(TraceSaved)[i] = TraceSaved[10 - i]
    <3>1. \A i \in 1..9 : 9 - i + 1 = 10 - i
      OBVIOUS
    <3> QED
      BY <2>1, <3>1 DEF Reverse
  <2> QED
    BY <2>2 DEF PopAll
<1> DEFINE row == Row(sub, PushAll, FlagsToRax, arg, log, ret, RaxToFlags, PopAll)
<1>7. Code = row \o add
  BY <1>6 DEF Code, CodeOf, TraceCode, PushAll, Row
<1> HIDE DEF s, sub, arg, log, ret, add
<1>8. /\ row \in Codes
      /\ row \o add = Nest(sub, PushAll, FlagsToRax, arg, log, ret, RaxToFlags, PopAll, add)
  <2>1. Pieces(sub, PushAll, FlagsToRax, arg, log, ret, RaxToFlags, PopAll)
    BY <1>2, <1>3, <1>4, <1>5, FlagCodes DEF Pieces
  <2>2. row \in Codes
    BY <2>1, Regrouped
  <2>3. \A Y \in Codes : row \o Y = Nest(sub, PushAll, FlagsToRax, arg, log, ret, RaxToFlags, PopAll, Y)
    BY <2>1, Regrouped
  <2> QED
    BY <1>2, <2>2, <2>3
<1>9. Code \in Codes
  <2> HIDE DEF row
  <2> QED
    BY <1>2, <1>7, <1>8, CodeJoins
<1>10. row \o add = Trace0(s)
  <2> DEFINE c8 == PopAll \o add
             c7 == RaxToFlags \o c8
             c6 == ret \o c7
             c5 == log \o c6
             c4 == arg \o c5
             c3 == FlagsToRax \o c4
             c2 == PushAll \o c3
  <2>1. row \o add = sub \o c2
    BY <1>8 DEF Nest
  <2>2. c8 = PopsFrom(0)
    <3>1. Rest(PopAll, 0) = PopAll
      BY <1>5, RestCode
    <3>2. add = Trace11
      BY <1>2, CodeJoins DEF Trace11, add
    <3> QED
      BY <3>1, <3>2 DEF PopsFrom
  <2>3. c7 = Trace9
    <3>1. <<<<"add7f">>>> \in Codes /\ <<<<"sahf">>>> \in Codes /\ PopsFrom(0) \in Codes
      BY <1>1, CodeTypes, TracePieces
    <3>2. Regroups(<<<<"add7f">>>>, <<<<"sahf">>>>, PopsFrom(0))
      BY <3>1, CodeRegroups
    <3> QED
      BY <2>2, <3>2, FlagCodes DEF Regroups, Trace9, Trace10
  <2> HIDE DEF c7
  <2>4. c6 = Trace7
    <3>1. Trace9 \in Codes
      BY <1>1, TracePieces
    <3> QED
      BY <1>4, <2>3, <3>1 DEF Trace7, Trace8
  <2> HIDE DEF c6
  <2>5. c5 = Trace6(s)
    BY <2>4 DEF Trace6, log
  <2> HIDE DEF c5
  <2>6. c4 = Trace3(s)
    <3>1. Trace6(s) \in Codes
      BY <1>1, TracePieces
    <3> QED
      BY <1>3, <2>5, <3>1 DEF Trace3, Trace4, Trace5
  <2> HIDE DEF c4
  <2>7. c3 = Trace1(s)
    <3>1. <<<<"lahf">>>> \in Codes /\ <<<<"seto">>>> \in Codes /\ Trace3(s) \in Codes
      BY <1>1, CodeTypes, TracePieces
    <3>2. Regroups(<<<<"lahf">>>>, <<<<"seto">>>>, Trace3(s))
      BY <3>1, CodeRegroups
    <3> QED
      BY <2>6, <3>2, FlagCodes DEF Regroups, Trace1, Trace2
  <2> HIDE DEF c3
  <2>8. c2 = PushesFrom(s, 0)
    <3>1. Rest(PushAll, 0) = PushAll
      BY <1>5, RestCode
    <3> QED
      BY <2>7, <3>1 DEF PushesFrom
  <2> QED
    BY <2>1, <2>8 DEF Trace0, sub
<1>11. Left(Code)
  <2>1. Len(Code) \in Nat
    BY <1>9 DEF Codes
  <2> QED
    BY <2>1 DEF Left, MachineInit
<1>12. Tracing0(s)
  BY <1>7, <1>10, <1>11, Starts DEF Tracing0, At, MachineInit, s
<1> QED
  BY <1>1, <1>12 DEF TraceInv, InTrace

-----------------------------------------------------------------------------
(***************************************************************************)
(* The code of the passes leaves the program alone.                        *)
(***************************************************************************)
MachineInv == AsanInv \/ CoverInv \/ TraceInv

\* Nothing changes in a step that changes nothing.
LEMMA Stutters ==
  ASSUME UNCHANGED machineVars
  PROVE  /\ UNCHANGED <<site, pc, regs, flags, rsp, mem>>
         /\ \A c : Left(c) => Left(c)'
         /\ \A s, lent, d : At(s, lent, d) => At(s, lent, d)'
         /\ FlagsIntact => FlagsIntact'
<1>1. UNCHANGED <<site, pc, regs, flags, rsp, mem>>
  BY DEF machineVars
<1>2. \A c : Left(c) => Left(c)'
  BY <1>1 DEF Left, Code
<1>3. \A lent, d : Machine(lent, d) => Machine(lent, d)'
  <2>1. Own' = Own
    BY <1>1, OwnSlots
  <2> QED
    BY <1>1, <2>1 DEF Machine
<1>4. FlagsIntact => FlagsIntact'
  BY <1>1 DEF FlagsIntact
<1> QED
  BY <1>1, <1>2, <1>3, <1>4 DEF At
LEMMA AsanStutters == AsanInv /\ UNCHANGED machineVars => AsanInv'
<1> SUFFICES ASSUME NEW s \in Checked, NEW X \in Tails(s), InAsan(s, X), UNCHANGED machineVars
             PROVE  InAsan(s, X)'
  BY DEF AsanInv
<1>1. /\ regs' = regs /\ flags' = flags
      /\ \A c : Left(c) => Left(c)'
      /\ \A lent, d : At(s, lent, d) => At(s, lent, d)'
      /\ FlagsIntact => FlagsIntact'
      /\ Saved(s) => Saved(s)'
      /\ First(s) => First(s)'
      /\ Second(s) => Second(s)'
      /\ SavedFlags(s) => SavedFlags(s)'
      /\ Aside(s) => Aside(s)'
      /\ FlagsBack(s) => FlagsBack(s)'
  <2>1. mem' = mem /\ regs' = regs /\ flags' = flags
    BY Stutters
  <2>2. /\ Saved(s) => Saved(s)'
        /\ First(s) => First(s)'
        /\ Second(s) => Second(s)'
        /\ SavedFlags(s) => SavedFlags(s)'
    BY <2>1, SavedKept
  <2>3. /\ Aside(s) => Aside(s)'
        /\ FlagsBack(s) => FlagsBack(s)'
    BY <2>1 DEF Aside, FlagsBack
  <2> QED
    BY <2>1, <2>2, <2>3, Stutters
<1>2. /\ Here0(s, X) => Here0(s, X)'
      /\ Here1(s, X) => Here1(s, X)'
      /\ Here2(s, X) => Here2(s, X)'
      /\ Here3(s, X) => Here3(s, X)'
  BY <1>1 DEF Here0, Here1, Here2, Here3
<1>3. /\ Here4(s, X) => Here4(s, X)'
      /\ Here5(s, X) => Here5(s, X)'
      /\ Here6(s, X) => Here6(s, X)'
      /\ Here7(s, X) => Here7(s, X)'
  BY <1>1 DEF Here4, Here5, Here6, Here7
<1>4. /\ Here8(s, X) => Here8(s, X)'
      /\ Here9(s, X) => Here9(s, X)'
      /\ Here10(s, X) => Here10(s, X)'
      /\ Here11(s, X) => Here11(s, X)'
  BY <1>1 DEF Here8, Here9, Here10, Here11
<1>5. /\ Here12(s, X) => Here12(s, X)'
      /\ Here13(s, X) => Here13(s, X)'
      /\ Here14(s, X) => Here14(s, X)'
      /\ Here15(s, X) => Here15(s, X)'
  BY <1>1 DEF Here12, Here13, Here14, Here15
<1>6. /\ Here16(s, X) => Here16(s, X)'
      /\ Here17(s, X) => Here17(s, X)'
      /\ Here18(s, X) => Here18(s, X)'
      /\ Here19(s, X) => Here19(s, X)'
  BY <1>1 DEF Here16, Here17, Here18, Here19
<1>7. /\ Here20(s, X) => Here20(s, X)'
      /\ Here21(s, X) => Here21(s, X)'
      /\ Done(s, X) => Done(s, X)'
  BY <1>1 DEF Here20, Here21, Done
<1> QED
  BY <1>2, <1>3, <1>4, <1>5, <1>6, <1>7 DEF InAsan
LEMMA CoverStutters == CoverInv /\ UNCHANGED machineVars => CoverInv'
<1> SUFFICES ASSUME NEW s \in Counted, InCover(s), UNCHANGED machineVars
             PROVE  InCover(s)'
  BY DEF CoverInv
<1>1. /\ regs' = regs /\ flags' = flags
      /\ \A c : Left(c) => Left(c)'
      /\ \A lent, d : At(s, lent, d) => At(s, lent, d)'
      /\ FlagsIntact => FlagsIntact'
      /\ RaxKept(s) => RaxKept(s)'
      /\ FlagsKept(s) => FlagsKept(s)'
      /\ RcxKept(s) => RcxKept(s)'
  <2>1. mem' = mem /\ regs' = regs /\ flags' = flags
    BY Stutters
  <2>2. /\ RaxKept(s) => RaxKept(s)'
        /\ FlagsKept(s) => FlagsKept(s)'
        /\ RcxKept(s) => RcxKept(s)'
    BY <2>1 DEF RaxKept, FlagsKept, RcxKept, Restores, FlagWord, Low, Overflow
  <2> QED
    BY <2>1, <2>2, Stutters
<1>2. /\ Cover0(s) => Cover0(s)'
      /\ Cover1(s) => Cover1(s)'
      /\ Cover2(s) => Cover2(s)'
      /\ Cover3(s) => Cover3(s)'
      /\ Cover4(s) => Cover4(s)'
  BY <1>1 DEF Cover0, Cover1, Cover2, Cover3, Cover4
<1>3. /\ Cover5(s) => Cover5(s)'
      /\ Cover6(s) => Cover6(s)'
      /\ Cover7(s) => Cover7(s)'
      /\ Cover8(s) => Cover8(s)'
      /\ Cover9(s) => Cover9(s)'
  BY <1>1 DEF Cover5, Cover6, Cover7, Cover8, Cover9
<1>4. /\ Cover10(s) => Cover10(s)'
      /\ Cover11(s) => Cover11(s)'
      /\ Cover12(s) => Cover12(s)'
      /\ Cover13(s) => Cover13(s)'
      /\ Cover14(s) => Cover14(s)'
  BY <1>1 DEF Cover10, Cover11, Cover12, Cover13, Cover14
<1> QED
  BY <1>2, <1>3, <1>4 DEF InCover
LEMMA TraceStutters == TraceInv /\ UNCHANGED machineVars => TraceInv'
<1> SUFFICES ASSUME NEW s \in Traced, InTrace(s), UNCHANGED machineVars
             PROVE  InTrace(s)'
  BY DEF TraceInv
<1>1. /\ \A c : Left(c) => Left(c)'
      /\ \A lent, d : At(s, lent, d) => At(s, lent, d)'
      /\ \A n : Kept(s, n) => Kept(s, n)'
      /\ \A d : Inside(s, d) => Inside(s, d)'
      /\ RaxWord => RaxWord'
      /\ mem' = mem
  <2>1. mem' = mem /\ \A lent, d : At(s, lent, d) => At(s, lent, d)'
    BY Stutters
  <2>2. \A n : Kept(s, n) => Kept(s, n)'
    BY <2>1 DEF Kept, Restores
  <2>3. \A d : Inside(s, d) => Inside(s, d)'
    BY <2>1, <2>2 DEF Inside
  <2>4. RaxWord => RaxWord'
    BY <2>1 DEF RaxWord
  <2> QED
    BY <2>1, <2>2, <2>3, <2>4, Stutters
<1>2. /\ Tracing0(s) => Tracing0(s)'
      /\ Tracing1(s) => Tracing1(s)'
      /\ Tracing2(s) => Tracing2(s)'
      /\ Tracing3(s) => Tracing3(s)'
      /\ Tracing4(s) => Tracing4(s)'
      /\ Tracing5(s) => Tracing5(s)'
  BY <1>1 DEF Tracing0, Tracing1, Tracing2, Tracing3, Tracing4, Tracing5
<1>3. /\ Tracing7(s) => Tracing7(s)'
      /\ Tracing8(s) => Tracing8(s)'
      /\ Tracing9(s) => Tracing9(s)'
      /\ Tracing10(s) => Tracing10(s)'
      /\ Tracing11(s) => Tracing11(s)'
      /\ Tracing12(s) => Tracing12(s)'
  BY <1>1 DEF Tracing7, Tracing8, Tracing9, Tracing10, Tracing11, Tracing12
<1>4. /\ \A m : Pushing(s, m) => Pushing(s, m)'
      /\ \A m : Popping(s, m) => Popping(s, m)'
  BY <1>1 DEF Pushing, Popping
<1>5. \A m, h : Logging(s, m, h) => Logging(s, m, h)'
  BY <1>1 DEF Logging
<1> QED
  BY <1>2, <1>3, <1>4, <1>5 DEF InTrace

LEMMA MachineStarts == MachineInit => MachineInv
<1> SUFFICES ASSUME MachineInit PROVE MachineInv
  OBVIOUS
<1>1. site.code \in {"asan", "rep_movs", "coverage", "trace"}
  BY SitesAssumption DEF MachineInit
<1> QED
  BY <1>1, AsanStart, CoverStart, TraceStart DEF MachineInv

LEMMA MachineSteps ==
  ASSUME NoSignalInLeaves, MachineInv
  PROVE  Promises /\ ([MachineNext]_machineVars => MachineInv')
<1>1. Promises /\ (MachineNext => MachineInv')
  BY AsanGoal, CoverGoal, TraceGoal DEF MachineInv, Goal
<1>2. UNCHANGED machineVars => MachineInv'
  BY Stutters, AsanStutters, CoverStutters, TraceStutters DEF MachineInv
<1> QED
  BY <1>1, <1>2

\* The code of ASan calls nothing.
Calm  == {i \in Instructions : i[1] # "call"}
Calms == Seq(Calm)

LEMMA CalmCodes ==
  /\ \A i : Plain(i) => <<i>> \in Calms
  /\ <<>> \in Calms /\ <<<<"operand">>>> \in Calms
  /\ \A a, b \in Calms : a \o b \in Calms
  /\ \A a \in Calms : \A c : When(c, a) \in Calms
<1>1. \A i : Plain(i) => i \in Calm
  BY Singles DEF Plain, Calm
<1>2. <<"operand">> \in Calm
  <2>1. <<"operand">> \in Instructions
    BY CodeTypes, Singles
  <2> QED
    BY <2>1 DEF Calm
<1>3. \A i \in Calm : <<i>> \in Calms
  <2> HIDE DEF Calm
  <2> QED
    BY DEF Calms
<1>4. <<>> \in Calms
  BY DEF Calms
<1>5. \A a, b \in Calms : a \o b \in Calms
  BY ConcatProperties DEF Calms
<1>6. \A a \in Calms : \A c : When(c, a) \in Calms
  BY <1>4 DEF When
<1> QED
  BY <1>1, <1>2, <1>3, <1>4, <1>5, <1>6

LEMMA CalmRow ==
  ASSUME NEW a \in Calms, NEW b \in Calms, NEW c \in Calms, NEW d \in Calms,
         NEW e \in Calms, NEW f \in Calms, NEW g \in Calms, NEW h \in Calms
  PROVE  Row(a, b, c, d, e, f, g, h) \in Calms
<1>1. \A x, y \in Calms : x \o y \in Calms
  BY CalmCodes
<1>2. a \o b \o c \in Calms
  BY <1>1
<1>3. a \o b \o c \o d \o e \in Calms
  BY <1>1, <1>2
<1>4. a \o b \o c \o d \o e \o f \o g \in Calms
  BY <1>1, <1>3
<1> QED
  BY <1>1, <1>4 DEF Row

LEMMA CalmCheck == \A s \in Checked : Check(s) \in Calms
<1> SUFFICES ASSUME NEW s \in Checked PROVE Check(s) \in Calms
  OBVIOUS
<1> DEFINE a1 == When(Adjust(s), <<Lea(-32)>>)
           a2 == When(Save1(s), <<Push(R1(s))>>)
           a3 == When(Save2(s), <<Push(R2(s))>>)
           a4 == When(Unopt(s), <<<<"pushf">>>>)
           a5 == When(SaveRax(s), <<Mov("rax", R2(s))>>)
           a6 == When(Opt(s), FlagsToRax \o <<Push("rax")>>)
           a7 == When(SaveRax(s), <<Mov(R2(s), "rax")>>)
           a8 == When(Pushed(s) > 0, <<Lea(Pushed(s))>>)
           b1 == When(Pushed(s) > 0, <<Lea(-Pushed(s))>>)
           b3 == When(Opt(s), <<Pop("rax")>> \o RaxToFlags)
           b5 == When(Unopt(s), <<<<"popf">>>>)
           b6 == When(Save2(s), <<Pop(R2(s))>>)
           b7 == When(Save1(s), <<Pop(R1(s))>>)
           b8 == When(Adjust(s), <<Lea(32)>>)
           o  == <<<<"operand">>>>
           w  == <<Work(Borrowed(s))>>
           save    == Row(a1, a2, a3, a4, a5, a6, a7, a8)
           restore == Row(b1, a5, b3, a7, b5, b6, b7, b8)
<1>1. /\ R1(s) \in GPRegs /\ R2(s) \in GPRegs /\ "rax" \in GPRegs /\ Borrowed(s) \in SUBSET GPRegs
      /\ Pushed(s) \in Int /\ -Pushed(s) \in Int /\ 32 \in Int /\ -32 \in Int
  BY Scratch, Depths, RegAssumption DEF Borrowed
<1>2. /\ Plain(Lea(-32)) /\ Plain(Lea(32)) /\ Plain(Lea(Pushed(s))) /\ Plain(Lea(-Pushed(s)))
      /\ Plain(Push(R1(s))) /\ Plain(Push(R2(s))) /\ Plain(Push("rax"))
      /\ Plain(Pop(R1(s))) /\ Plain(Pop(R2(s))) /\ Plain(Pop("rax"))
      /\ Plain(Mov("rax", R2(s))) /\ Plain(Mov(R2(s), "rax")) /\ Plain(Work(Borrowed(s)))
  BY <1>1, Operations
<1>3. /\ Plain(<<"pushf">>) /\ Plain(<<"popf">>) /\ Plain(<<"lahf">>) /\ Plain(<<"seto">>)
      /\ Plain(<<"add7f">>) /\ Plain(<<"sahf">>)
  BY Operations
<1>4. FlagsToRax \in Calms /\ RaxToFlags \in Calms
  BY <1>3, CalmCodes, FlagCodes
<1>5. FlagsToRax \o <<Push("rax")>> \in Calms /\ <<Pop("rax")>> \o RaxToFlags \in Calms
  BY <1>2, <1>4, CalmCodes
<1>6. a1 \in Calms /\ a2 \in Calms /\ a3 \in Calms /\ a4 \in Calms
  BY <1>2, <1>3, CalmCodes
<1>7. a5 \in Calms /\ a6 \in Calms /\ a7 \in Calms /\ a8 \in Calms
  BY <1>2, <1>5, CalmCodes
<1>8. b1 \in Calms /\ b3 \in Calms /\ b5 \in Calms
  BY <1>2, <1>3, <1>5, CalmCodes
<1>9. b6 \in Calms /\ b7 \in Calms /\ b8 \in Calms /\ o \in Calms /\ w \in Calms
  BY <1>2, CalmCodes
<1>10. Check(s) = save \o <<<<"operand">>, Work(Borrowed(s))>> \o restore
  BY DEF Check, AsanCode, Gp, Save2, R2, Save1, R1, Unopt, Opt, SaveRax, Adjust, One, Pushed,
         Borrowed, Row
<1>11. <<<<"operand">>, Work(Borrowed(s))>> = o \o w
  OBVIOUS
<1> HIDE DEF a1, a2, a3, a4, a5, a6, a7, a8, b1, b3, b5, b6, b7, b8, o, w
<1>12. save \in Calms
  BY <1>6, <1>7, CalmRow
<1>13. restore \in Calms
  BY <1>7, <1>8, <1>9, CalmRow
<1> HIDE DEF save, restore
<1>14. o \o w \in Calms
  BY <1>9, CalmCodes
<1>15. save \o (o \o w) \in Calms
  BY <1>12, <1>14, CalmCodes
<1>16. save \o (o \o w) \o restore \in Calms
  BY <1>13, <1>15, CalmCodes
<1> QED
  BY <1>10, <1>11, <1>16

\* A call is made by the trace pass alone.
AlignInv == CoverInv \/ TraceInv \/ (site \in Checked /\ pc \in 1..Len(Code) + 1)

LEMMA CheckedCode == site \in Checked => Code \in Calms /\ Len(Code) \in Nat
<1> SUFFICES ASSUME site \in Checked PROVE Code \in Calms /\ Len(Code) \in Nat
  OBVIOUS
<1> DEFINE C == Check(site)
<1>1. C \in Calms
  BY CalmCheck
<1>2. site.code = "asan" => Code = C
  BY DEF Code, CodeOf, Check
<1>3. site.code = "rep_movs" => Code = C \o C \o C \o C
  BY DEF Code, CodeOf, RepMovsCode, Check
<1> HIDE DEF C
<1>4. C \o C \in Calms /\ C \o C \o C \in Calms
  BY <1>1, CalmCodes
<1>5. C \o C \o C \o C \in Calms
  BY <1>1, <1>4, CalmCodes
<1>6. Code \in Calms
  BY <1>1, <1>2, <1>3, <1>5 DEF Checked
<1>7. Len(Code) \in Nat
  BY <1>6 DEF Calms
<1> QED
  BY <1>6, <1>7

LEMMA AlignStarts == MachineInit => AlignInv
<1> SUFFICES ASSUME MachineInit PROVE AlignInv
  OBVIOUS
<1>1. site \in Sites /\ pc = 1 /\ site.code \in {"asan", "rep_movs", "coverage", "trace"}
  BY SitesAssumption DEF MachineInit
<1>2. CASE site.code \in {"asan", "rep_movs"}
  <2>1. site \in Checked
    BY <1>1, <1>2 DEF Checked
  <2>2. pc \in 1..Len(Code) + 1
    BY <1>1, <2>1, CheckedCode
  <2> QED
    BY <2>1, <2>2 DEF AlignInv
<1> QED
  BY <1>1, <1>2, CoverStart, TraceStart DEF AlignInv

LEMMA AlignSteps ==
  ASSUME AlignInv
  PROVE  AlignedAtCall /\ ([MachineNext]_machineVars => AlignInv')
<1>1. CASE CoverInv
  BY <1>1, CoverGoal, CoverStutters DEF AlignInv, Promises
<1>2. CASE TraceInv
  BY <1>2, TraceGoal, TraceStutters DEF AlignInv, Promises
<1>3. CASE site \in Checked /\ pc \in 1..Len(Code) + 1
  <2> DEFINE Moved == site' = site /\ (pc' = pc \/ (~Finished /\ pc' = pc + 1))
  <2>1. Code \in Calms /\ Len(Code) \in Nat
    BY <1>3, CheckedCode
  <2>2. ~Finished => pc \in 1..Len(Code) /\ Code[pc] \in Calm
    <3>1. ~Finished => pc \in 1..Len(Code)
      BY <1>3, <2>1 DEF Finished
    <3>2. \A j \in 1..Len(Code) : Code[j] \in Calm
      <4> HIDE DEF Calm
      <4> QED
        BY <2>1 DEF Calms
    <3> QED
      BY <3>1, <3>2
  <2>3. AlignedAtCall
    BY <2>2 DEF AlignedAtCall, Executing, Calm
  <2>4. MachineNext => Moved
    <3>1. Signal => Moved
      BY DEF Signal
    <3>2. DoPush \/ DoPop \/ DoPushf \/ DoPopf \/ DoLea \/ DoAdd \/ DoMov \/ DoWork
            => ~Finished /\ Proceed
      BY DEF DoPush, DoPop, DoPushf, DoPopf, DoLea, DoAdd, DoMov, DoWork, Executing
    <3>3. DoLahf \/ DoSeto \/ DoAdd7f \/ DoSahf \/ DoOperand \/ DoCall \/ DoReturn
            => ~Finished /\ Proceed
      BY DEF DoLahf, DoSeto, DoAdd7f, DoSahf, DoOperand, DoCall, DoReturn, Executing
    <3>4. ~Finished /\ Proceed => Moved
      BY DEF Proceed
    <3> HIDE DEF Moved
    <3> QED
      BY <3>1, <3>2, <3>3, <3>4 DEF MachineNext
  <2>5. UNCHANGED machineVars => Moved
    BY DEF machineVars
  <2>6. site' = site => Code' = Code
    BY DEF Code
  <2>7. Moved => AlignInv'
    <3> SUFFICES ASSUME Moved PROVE AlignInv'
      OBVIOUS
    <3>1. pc' \in 1..Len(Code) + 1
      BY <1>3, <2>1, <2>2
    <3>2. Code' = Code /\ site' \in Checked
      BY <1>3, <2>6
    <3> QED
      BY <3>1, <3>2 DEF AlignInv
  <2> HIDE DEF Moved
  <2>8. MachineNext => AlignInv'
    BY <2>4, <2>7
  <2>9. UNCHANGED machineVars => AlignInv'
    BY <2>5, <2>7
  <2> QED
    BY <2>3, <2>8, <2>9
<1> QED
  BY <1>1, <1>2, <1>3 DEF AlignInv

\* For any registers in play and any sites, whichever of their instructions a
\* signal interrupts: after the code of a pass the stack pointer, the frame, and
\* the registers and flags the program needs are what they were (asan lines
\* 174-239, coverage lines 91-112, trace lines 86-114), when a leaf function
\* takes no signal and no flag is live where a function is entered.
THEOREM ProgramUnaware ==
  ASSUME NoSignalInLeaves, EntriesNeedNoFlag
  PROVE  MachineSpec => []Transparent
<1>1. MachineInit => MachineInv
  BY MachineStarts
<1>2. MachineInv /\ [MachineNext]_machineVars => MachineInv'
  BY MachineSteps
<1>3. MachineInv => Transparent
  BY MachineSteps DEF Promises
<1> QED
  BY <1>1, <1>2, <1>3, PTL DEF MachineSpec

\* Where ASan evaluates the operand of the instruction, after its pushes and
\* with rax lent to the flags, the stack pointer and every register the operand
\* may name are the program's (lines 217-223).
THEOREM OperandRight ==
  ASSUME NoSignalInLeaves
  PROVE  MachineSpec => []OperandIntact
<1>1. MachineInit => MachineInv
  BY MachineStarts
<1>2. MachineInv /\ [MachineNext]_machineVars => MachineInv'
  BY MachineSteps
<1>3. MachineInv => OperandIntact
  BY MachineSteps DEF Promises
<1> QED
  BY <1>1, <1>2, <1>3, PTL DEF MachineSpec

\* ASan never writes the red zone of a function that keeps data there through
\* rsp, at any of its instructions (LEAF_STACK_ADJUST, line 174).
THEOREM RedZoneSpared ==
  ASSUME NoSignalInLeaves, RedZonesViaRsp
  PROVE  MachineSpec => []RedZoneIntact
<1>1. MachineInit => MachineInv
  BY MachineStarts
<1>2. MachineInv /\ [MachineNext]_machineVars => MachineInv'
  BY MachineSteps
<1>3. MachineInv => RedZoneIntact
  BY MachineSteps DEF Promises
<1> QED
  BY <1>1, <1>2, <1>3, PTL DEF MachineSpec

\* Whatever the sites and the signals, the call of __trace_log_entry is made on
\* a 16-byte aligned stack (trace lines 74-79).
THEOREM CallsAligned == MachineSpec => []AlignedAtCall
<1>1. MachineInit => AlignInv
  BY AlignStarts
<1>2. AlignInv /\ [MachineNext]_machineVars => AlignInv'
  BY AlignSteps
<1>3. AlignInv => AlignedAtCall
  BY AlignSteps
<1> QED
  BY <1>1, <1>2, <1>3, PTL DEF MachineSpec
=============================================================================
