------------------------------ MODULE Trampoline ------------------------------
(***************************************************************************)
(* The machine code the instrumentation passes insert before an            *)
(* instruction of the program, executed on a small x86-64 machine.         *)
(*   AsanCode      Instrument.get_mem_instrumentation (asan): saves and    *)
(*                 frees scratch registers according to the free registers *)
(*                 of the instruction and the leaf flag of its function    *)
(*   CoverageCode  Instrument._get_trampoline (coverage)                   *)
(*   TraceCode     Instrument._get_entry_trampoline and the body of        *)
(*                 __trace_log_entry (trace)                               *)
(* A value is abstract: it says which program value, if any, each part of  *)
(* a word still holds.  The stack is counted in 8-byte slots relative to   *)
(* the stack pointer of the program, which is slot 0; the red zone is the  *)
(* sixteen slots below it.                                                 *)
(***************************************************************************)
EXTENDS Integers, Sequences, SequencesExt, Subsequences

CONSTANTS
  GPRegs,      \* the general purpose registers in play
  Sites        \* instrumented sites, described below

ASSUME RegAssumption ==
  {"rax", "rcx", "rdx", "rdi", "rsi", "r8", "r9", "r10", "r11"} \subseteq GPRegs

(***************************************************************************)
(* A site is a record                                                      *)
(*   code      the pass: "asan", "rep_movs", "coverage" or "trace"         *)
(*   free      the registers (and "rflags") the program does not need      *)
(*   base      the register through which the function accesses its red    *)
(*             zone, "none" when it keeps nothing there                    *)
(*   mapped    whether the runtime's constructor has mapped its memory     *)
(*   printing  whether RETRO_TRACE_PRINT is set                            *)
(*   signals   whether signal handlers run while the site executes         *)
(***************************************************************************)
ASSUME SitesAssumption ==
  \A s \in Sites : /\ s.code \in {"asan", "rep_movs", "coverage", "trace"}
                   /\ s.free \subseteq GPRegs \cup {"rflags"}
                   /\ s.base \in {"none", "rsp", "rbp"}
                   /\ {s.mapped, s.printing, s.signals} \subseteq BOOLEAN

RedZone == -16..-1
Frame   == 0..2        \* the slots above the red zone that we watch
StackSlots == -40..2   \* the deepest code here reaches slot -36

-----------------------------------------------------------------------------
(* Instructions are tuples <<operation, operand, ...>>.                    *)
Push(r) == <<"push", r>>
Pop(r)  == <<"pop", r>>
Lea(n)  == <<"lea", n>>            \* move the stack pointer by n slots
Add(n)  == <<"add", n>>            \* the same with add or sub, which set the flags
Mov(src, dst) == <<"mov", src, dst>>
Work(regs)    == <<"work", regs>>  \* computation that overwrites regs and the flags
When(cond, code) == IF cond THEN code ELSE <<>>

\* Mutant: sahf before the overflow flag is rebuilt.
SahfFirst    == <<<<"sahf">>, <<"add7f">>>>
FlagsToRax   == <<<<"lahf">>, <<"seto">>>>
RaxToFlags   == <<<<"add7f">>, <<"sahf">>>>

\* Mutant: the leaf flag is never set.
NeverLeaf(base) == FALSE

\* StackFrameAnalysis.analyze_is_fn_leaf: only a negative displacement from rsp
\* makes a function a leaf; base is the register its red-zone accesses use.
IsLeaf(base) == base = "rsp"

Affinity == <<"rdi", "rsi", "rcx", "rdx", "rbx", "r8", "r9", "r10", "r11",
              "r12", "r13", "r14", "r15", "rax", "rbp">>
\* Mutant: the affinity list taken without asking what is free.
ByAffinityAlone(free) == Affinity
ByAffinity(free) == Only(Affinity, free)

(***************************************************************************)
(* get_mem_instrumentation, lines 149-239: r2 (the shadow byte) and r1     *)
(* (the address) are free registers where there are any and rsi and rdi    *)
(* otherwise; the restore sequence mirrors the save sequence.              *)
(***************************************************************************)
AsanCode(free, isLeaf) ==
  LET gp      == ByAffinity(free)
      save2   == gp = <<>>
      r2      == IF save2 THEN "rsi" ELSE gp[1]
      save1   == Len(gp) < 2
      r1      == IF ~save1 THEN gp[2] ELSE IF r2 = "rdi" THEN "rsi" ELSE "rdi"
      unopt   == "rflags" \notin free /\ gp = <<>>
      opt     == "rflags" \notin free /\ gp # <<>>
      saveRax == opt /\ "rax" \notin free
      adjust  == isLeaf /\ (save1 \/ save2 \/ unopt \/ opt)
      One(b)  == IF b THEN 1 ELSE 0
      pushed  == 32 * One(adjust) + One(save1) + One(save2) + One(unopt \/ opt)
      save    == When(adjust, <<Lea(-32)>>)
                 \o When(save1, <<Push(r1)>>) \o When(save2, <<Push(r2)>>)
                 \o When(unopt, <<<<"pushf">>>>)
                 \o When(saveRax, <<Mov("rax", r2)>>)
                 \o When(opt, FlagsToRax \o <<Push("rax")>>)
                 \o When(saveRax, <<Mov(r2, "rax")>>)
                 \o When(pushed > 0, <<Lea(pushed)>>)
      check   == <<<<"operand">>, Work({r1, r2})>>
      restore == When(pushed > 0, <<Lea(-pushed)>>)
                 \o When(saveRax, <<Mov("rax", r2)>>)
                 \o When(opt, <<Pop("rax")>> \o RaxToFlags)
                 \o When(saveRax, <<Mov(r2, "rax")>>)
                 \o When(unopt, <<<<"popf">>>>)
                 \o When(save2, <<Pop(r2)>>) \o When(save1, <<Pop(r1)>>)
                 \o When(adjust, <<Lea(32)>>)
  IN save \o check \o restore

\* rep movs: the same check for both ends of both operands (lines 312-357).
RepMovsCode(free, isLeaf) ==
  AsanCode(free, isLeaf) \o AsanCode(free, isLeaf)
  \o AsanCode(free, isLeaf) \o AsanCode(free, isLeaf)

\* The coverage trampoline, when the bitmap exists and when it does not.
CoverageCode(mapped) ==
  <<Push("rax")>> \o FlagsToRax \o <<Push("rax"), Push("rcx"), Work({"rax"})>>
  \o When(mapped, <<Work({"rcx"}), Work({"rcx"})>>)
  \o <<Pop("rcx"), Pop("rax")>> \o RaxToFlags \o <<Pop("rax")>>

\* __trace_log_entry: a syscall overwrites rax, rcx and r11.
Syscall == Work({"rax", "rcx", "r11"})
LogEntry(mapped, printing) ==
  <<Push("rax"), Push("rcx"), Push("rdx"), Work({"rax"})>>
  \o When(mapped, <<Work({"rcx", "rdx"}), Work({"rax"})>>)
  \o When(mapped /\ printing,
          <<Push("rdi"), Push("rsi"), Push("r11"), Work({"rax", "rdi", "rsi", "rdx"}),
            Syscall, Work({"rsi", "rdx"}), Work({"rax", "rdi"}), Syscall,
            Work({"rax", "rdi", "rsi", "rdx"}), Syscall,
            Pop("r11"), Pop("rsi"), Pop("rdi")>>)
  \o <<Pop("rdx"), Pop("rcx"), Pop("rax")>>

TraceSaved == <<"rdi", "rsi", "rax", "rcx", "rdx", "r8", "r9", "r10", "r11">>
\* Mutant: no slot of padding.
TraceCodeUnpadded(mapped, printing) ==
  [i \in 1..9 |-> Push(TraceSaved[i])]
  \o FlagsToRax \o <<Push("rax"), Work({"rdi"}), <<"call">>>>
  \o LogEntry(mapped, printing) \o <<<<"return">>, Pop("rax")>> \o RaxToFlags
  \o [i \in 1..9 |-> Pop(Reverse(TraceSaved)[i])]
TraceCode(mapped, printing) ==
  <<Add(-1)>> \o [i \in 1..9 |-> Push(TraceSaved[i])]
  \o FlagsToRax \o <<Push("rax"), Work({"rdi"}), <<"call">>>>
  \o LogEntry(mapped, printing) \o <<<<"return">>, Pop("rax")>> \o RaxToFlags
  \o [i \in 1..9 |-> Pop(Reverse(TraceSaved)[i])] \o <<Add(1)>>

(***************************************************************************)
(* What the passes rely on, and the code does not establish.               *)
(***************************************************************************)
\* The calling convention leaves no flag live at a function's entry (trace).
EntriesNeedNoFlag == \A s \in Sites : s.code = "trace" => "rflags" \in s.free
\* No signal arrives while the registers of a leaf function are saved more than
\* 128 bytes below the stack pointer (asan).
NoSignalInLeaves ==
  \A s \in Sites : s.code \in {"asan", "rep_movs"} /\ s.base = "rsp" => ~s.signals
\* Only ASan meets functions that use a red zone, and they reach it through rsp.
RedZonesViaRsp ==
  \A s \in Sites : s.base # "none" => s.code \in {"asan", "rep_movs"} /\ s.base = "rsp"

CodeOf(site) ==
  CASE site.code = "asan"     -> AsanCode(site.free, IsLeaf(site.base))
    [] site.code = "rep_movs" -> RepMovsCode(site.free, IsLeaf(site.base))
    [] site.code = "coverage" -> CoverageCode(site.mapped)
    [] site.code = "trace"    -> TraceCode(site.mapped, site.printing)
-----------------------------------------------------------------------------
VARIABLES
  site,   \* the site being executed
  pc,     \* index of the next inserted instruction
  regs,   \* every register as three parts: bits 0-7, 8-15 and the rest
  flags,  \* the flags lahf saves, and the overflow flag
  rsp,    \* the stack pointer, in slots relative to the program's
  mem     \* the stack

machineVars == <<site, pc, regs, flags, rsp, mem>>

Junk           == <<"junk", "junk">>
ProgramReg(r)  == [top |-> <<r, "top">>, ah |-> <<r, "ah">>, al |-> <<r, "al">>]
ProgramFlags   == [low |-> <<"rflags", "low">>, of |-> <<"rflags", "of">>]
ProgramSlot(k) == [slot |-> k]
JunkReg        == [top |-> Junk, ah |-> Junk, al |-> Junk]
JunkFlags      == [low |-> Junk, of |-> Junk]

Code      == CodeOf(site)
Finished  == pc = Len(Code) + 1
Executing(op) == ~Finished /\ Code[pc][1] = op
Arg       == Code[pc][2]
Proceed   == pc' = pc + 1 /\ UNCHANGED site

MachineInit ==
  /\ site \in Sites
  /\ pc = 1 /\ rsp = 0
  /\ regs = [r \in GPRegs |-> ProgramReg(r)]
  /\ flags = ProgramFlags
  /\ mem = [k \in StackSlots |-> ProgramSlot(k)]

DoPush == /\ Executing("push") /\ Proceed
          /\ rsp' = rsp - 1 /\ mem' = [mem EXCEPT ![rsp'] = regs[Arg]]
          /\ UNCHANGED <<regs, flags>>
DoPop  == /\ Executing("pop") /\ Proceed
          /\ rsp' = rsp + 1 /\ regs' = [regs EXCEPT ![Arg] = mem[rsp]]
          /\ UNCHANGED <<flags, mem>>
DoPushf == /\ Executing("pushf") /\ Proceed
           /\ rsp' = rsp - 1 /\ mem' = [mem EXCEPT ![rsp'] = flags]
           /\ UNCHANGED <<regs, flags>>
DoPopf  == /\ Executing("popf") /\ Proceed
           /\ rsp' = rsp + 1 /\ flags' = mem[rsp]
           /\ UNCHANGED <<regs, mem>>
DoLea  == /\ Executing("lea") /\ Proceed
          /\ rsp' = rsp + Arg /\ UNCHANGED <<regs, flags, mem>>
DoAdd  == /\ Executing("add") /\ Proceed
          /\ rsp' = rsp + Arg /\ flags' = JunkFlags /\ UNCHANGED <<regs, mem>>
DoMov  == /\ Executing("mov") /\ Proceed
          /\ regs' = [regs EXCEPT ![Code[pc][3]] = regs[Arg]]
          /\ UNCHANGED <<flags, rsp, mem>>
DoWork == /\ Executing("work") /\ Proceed
          /\ regs' = [r \in GPRegs |-> IF r \in Arg THEN JunkReg ELSE regs[r]]
          /\ flags' = JunkFlags /\ UNCHANGED <<rsp, mem>>
DoLahf == /\ Executing("lahf") /\ Proceed
          /\ regs' = [regs EXCEPT !["rax"].ah = flags.low]
          /\ UNCHANGED <<flags, rsp, mem>>
DoSeto == /\ Executing("seto") /\ Proceed
          /\ regs' = [regs EXCEPT !["rax"].al = flags.of]
          /\ UNCHANGED <<flags, rsp, mem>>
\* add $0x7f, %al overflows exactly when seto had stored 1.
DoAdd7f == /\ Executing("add7f") /\ Proceed
           /\ flags' = [low |-> Junk, of |-> regs["rax"].al]
           /\ regs'  = [regs EXCEPT !["rax"].al = Junk]
           /\ UNCHANGED <<rsp, mem>>
DoSahf == /\ Executing("sahf") /\ Proceed
          /\ flags' = [flags EXCEPT !.low = regs["rax"].ah]
          /\ UNCHANGED <<regs, rsp, mem>>
\* The operand of the instrumented instruction is evaluated into r1.
DoOperand == /\ Executing("operand") /\ Proceed /\ UNCHANGED <<regs, flags, rsp, mem>>
DoCall    == /\ Executing("call") /\ Proceed
             /\ rsp' = rsp - 1 /\ mem' = [mem EXCEPT ![rsp'] = [slot |-> "return_address"]]
             /\ UNCHANGED <<regs, flags>>
DoReturn  == /\ Executing("return") /\ Proceed
             /\ rsp' = rsp + 1 /\ UNCHANGED <<regs, flags, mem>>

\* A signal handler runs on the stack of the program: the kernel skips 128
\* bytes below rsp and hands it everything deeper.
Signal == /\ site.signals /\ ~Finished
          /\ mem' = [k \in StackSlots |-> IF k < rsp - 16 THEN JunkReg ELSE mem[k]]
          /\ UNCHANGED <<site, pc, regs, flags, rsp>>

MachineNext ==
  \/ DoPush \/ DoPop \/ DoPushf \/ DoPopf \/ DoLea \/ DoAdd \/ DoMov \/ DoWork
  \/ DoLahf \/ DoSeto \/ DoAdd7f \/ DoSahf \/ DoOperand \/ DoCall \/ DoReturn
  \/ Signal

MachineSpec == MachineInit /\ [][MachineNext]_machineVars
-----------------------------------------------------------------------------
\* What the program still needs holds the program's values.
RegistersIntact ==
  /\ \A r \in GPRegs \ site.free : regs[r] = ProgramReg(r)
  /\ "rflags" \notin site.free => flags = ProgramFlags

\* After the inserted code the program cannot tell that it ran: its stack
\* pointer, its frame, and every register and flag the analysis did not call
\* free are what they were (save/restore pairing, asan lines 174-239; coverage
\* lines 91-112; trace lines 86-114).
Transparent ==
  Finished => /\ rsp = 0 /\ RegistersIntact
              /\ \A k \in Frame : mem[k] = ProgramSlot(k)

\* ASan computes the address the instruction will access: where it evaluates
\* the operand, after its pushes and after borrowing rax for the flags, the
\* stack pointer and every register the operand may name are the program's
\* (lines 217-223: move rsp back over the saved registers).
OperandIntact ==
  Executing("operand") =>
    /\ rsp = 0
    /\ \A r \in GPRegs \ site.free : regs[r] = ProgramReg(r)

\* A function that keeps data in the 128 bytes below its stack pointer finds
\* it unchanged (LEAF_STACK_ADJUST, line 174).
RedZoneIntact ==
  site.base # "none" => \A k \in RedZone : mem[k] = ProgramSlot(k)

\* The call of __trace_log_entry is made on a 16-byte aligned stack: rsp is 8
\* modulo 16 at a function's entry (trace lines 74-79).
AlignedAtCall == Executing("call") => (8 + 8 * rsp) % 16 = 0
=============================================================================
