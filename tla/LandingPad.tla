------------------------------ MODULE LandingPad ------------------------------
(***************************************************************************)
(* How the arm64 rewriter moves code and still leaves every code address   *)
(* the program can see as it was (librw_arm64/rw.py, container.py).        *)
(*                                                                         *)
(* The output holds the program twice.                                     *)
(*   The copy ("landing pad") keeps the layout of the input: its           *)
(*   instruction n is a branch to the label of instruction n.  Every       *)
(*   pointer the program builds or loads points into the copy.             *)
(*   The text holds the instructions, each after its label, with what      *)
(*   passes inserted before and after it.                                  *)
(* A value that is a code address is a record [region, at, step]: place at *)
(* of the copy, step number step of what is printed for instruction at, or *)
(* an address outside.  The base of the copy is left out of at: a pointer  *)
(* into the copy and the pointer of the original program have the same at. *)
(*                                                                         *)
(* The rewriter's own changes to the text: pointers are built from the     *)
(* base of the copy (_adjust_adrp_section_pointer), conditional branches   *)
(* that might not reach their target go through an unconditional one       *)
(* (fix_shortjumps), and, where exceptions need original return addresses, *)
(* a call becomes a jump that has set the link register itself             *)
(* (emulate_calls).                                                        *)
(***************************************************************************)
EXTENDS Integers, Sequences, Functions

CONSTANTS
  Code, Handler, Entry, Exit, Raise, Abort, Depth,  \* the program, as in Arm64Code
  Last,           \* the last address; the last section of code ends there
  Threshold,      \* fix_shortjumps: so many instructions are near
  PageSize,       \* in instructions
  Options         \* the ways to call the rewriter, and what the pass inserted

Addresses == 0..Last
Registers == {"lr", "x"}
Instructions ==
  [op : {"plain", "adrp", "adr", "load", "add", "branch", "jump", "call", "jump_register",
         "call_register", "push", "pop", "return"}, reg : Registers, to : Int]

ASSUME CodeAssumption ==
  /\ Last \in Nat
  /\ Code \in [Addresses -> Instructions]
  /\ Depth \in Nat /\ PageSize \in Nat \ {0} /\ Threshold \in Nat
  /\ DOMAIN Handler \subseteq Addresses /\ Handler \in [DOMAIN Handler -> Addresses]
  /\ Entry \in Addresses /\ {Exit, Raise, Abort} \subseteq Int \ Addresses /\ Exit - 1 \notin Addresses
  /\ Options \subseteq [emulate : BOOLEAN, dataText : BOOLEAN, optimize : BOOLEAN,
                       before : [Addresses -> Nat], after : [Addresses -> Nat]]

\* What compilers do: adrp names a page, and the link register is left to calls.
\* (A call through it would jump to its own return address when it is emulated.)
ASSUME CompilerAssumption == \A a \in Addresses :
  /\ Code[a].op = "adrp" => Code[a].to % PageSize = 0
  /\ Code[a].op \in {"adrp", "adr", "load", "add", "call_register"} => Code[a].reg = "x"

VARIABLES
  options,          \* emulate: exceptions keep the program's own tables; dataText and
                    \* optimize: --data-text, --optimize-dt-layout; before and after:
                    \* how many instructions a pass inserted around each
  pc, regs, stack   \* as in Arm64Code, for the rewritten program

vars == <<options, pc, regs, stack>>

Copy(n)    == [region |-> "copy", at |-> n, step |-> 0]
Text(a, s) == [region |-> "text", at |-> a, step |-> s]
Outside(n) == [region |-> "outside", at |-> n, step |-> 0]
Values     == [region : {"copy", "text", "outside"}, at : Int, step : Nat]
\* A label .LC<n>, or a name in the procedure linkage table.
Label(n)   == IF n \in Addresses THEN Text(n, 1) ELSE Outside(n)
-----------------------------------------------------------------------------
(* Building pointers.  The base of the copy is page aligned, except with    *)
(* --data-text and --optimize-dt-layout: then its last section ends at a    *)
(* page, and only the offset of the base inside a page matters.             *)
(* The options are the parameter o of everything the rewriter decides.      *)
Low(n)  == n % PageSize
Base(o) == IF o.dataText /\ o.optimize THEN -(Last + 1) ELSE 0

AddPage(r, n) == [op |-> "page", reg |-> r, to |-> n]  \* adrp r, (.fake.elf_header + n)
AddBase(r)    == [op |-> "base", reg |-> r, to |-> 0]  \* add r, r, :lo12:.fake.elf_header
AddLow(r, n)  == [op |-> "add", reg |-> r, to |-> Low(n)]
Pointer(r, n, based) == IF based THEN <<AddPage(r, n), AddBase(r), AddLow(r, n)>>
                                 ELSE <<AddPage(r, n), AddLow(r, n)>>
-----------------------------------------------------------------------------
(* What is printed for an instruction.                                      *)
Emulated(o, a) == o.emulate /\ Code[a].op \in {"call", "call_register"}
\* Mutant: blr stays what it is.
LeaveCalling(i) == [i EXCEPT !.op = IF i.op = "call" THEN "jump" ELSE i.op]
Leave(i)        == [i EXCEPT !.op = IF i.op = "call" THEN "jump" ELSE "jump_register"]

\* The pointer that the printed instructions build one after the other.
Builds(o, a)   == Emulated(o, a) \/ Code[a].op \in {"adrp", "adr"}
Register(o, a) == IF Emulated(o, a) THEN "lr" ELSE Code[a].reg
Pointee(o, a)  == IF Emulated(o, a) THEN a + 1 ELSE Code[a].to

\* update_instruction_count: before calls are emulated and branches are mended.
Pointing(o, a) == IF Code[a].op \notin {"adrp", "adr"} THEN 0
                  ELSE (IF o.dataText THEN 1 ELSE 0) + (IF Code[a].op = "adr" THEN 1 ELSE 0)
Counted(o, a)  == o.before[a] + 1 + Pointing(o, a) + o.after[a]
\* count_instructions between two addresses of a function.
Instrs(o, a, b) == LET low  == IF a < b THEN a ELSE b
                       high == IF a < b THEN b ELSE a
                   IN  SumFunctionOnSet([n \in Addresses |-> Counted(o, n)], (low + 1)..high)
\* Mutant: only the instructions of the input are counted.
MendedByAddress(o, a) ==
  Code[a].op = "branch" /\ (IF a < Code[a].to THEN Code[a].to - a ELSE a - Code[a].to) > Threshold
Mended(o, a) == Code[a].op = "branch" /\ Instrs(o, a, Code[a].to) > Threshold

\* The instruction and what the rewriter itself put around it.
Core(o, a) ==
  CASE Emulated(o, a)      -> Append(Pointer("lr", a + 1, o.optimize), Leave(Code[a]))
    [] Code[a].op = "adr"  -> Pointer(Code[a].reg, Code[a].to, o.dataText)
    [] Code[a].op = "adrp" -> IF o.dataText
                              THEN <<AddPage(Code[a].reg, Code[a].to), AddBase(Code[a].reg)>>
                              ELSE <<AddPage(Code[a].reg, Code[a].to)>>
    [] Mended(o, a)        -> <<[Code[a] EXCEPT !.op = "mended"]>>
    [] OTHER               -> <<Code[a]>>
JumpTo(n) == [op |-> "jump", reg |-> "x", to |-> n]
\* Mutant: the branch skips the way it should take.
DetourReversed(o, a) == IF Mended(o, a) THEN <<JumpTo(Code[a].to), JumpTo(a + 1)>> ELSE <<>>
\* Behind a mended branch: the way on when it is not taken, and when it is.
Detour(o, a) == IF Mended(o, a) THEN <<JumpTo(a + 1), JumpTo(Code[a].to)>> ELSE <<>>

Inserted      == [op |-> "plain", reg |-> "x", to |-> 0]
CoreEnd(o, a) == o.before[a] + Len(Core(o, a))
Size(o, a)    == CoreEnd(o, a) + o.after[a] + Len(Detour(o, a))
Printed(o, a, s) ==
  CASE s \in (o.before[a] + 1)..CoreEnd(o, a) -> Core(o, a)[s - o.before[a]]
    [] s > CoreEnd(o, a) + o.after[a]         -> Detour(o, a)[s - CoreEnd(o, a) - o.after[a]]
    [] OTHER                                  -> Inserted
-----------------------------------------------------------------------------
(* The rewritten program runs.                                              *)
Init == /\ options \in Options /\ pc = Label(Entry)
        /\ regs = [r \in Registers |-> Outside(Exit)] /\ stack = <<>>

I           == Printed(options, pc.at, pc.step)
Running(op) == pc.region = "text" /\ pc.at \in Addresses /\ I.op = op
Following   == IF pc.step < Size(options, pc.at) THEN Text(pc.at, pc.step + 1) ELSE Text(pc.at + 1, 1)
Step        == pc' = Following /\ UNCHANGED options

\* A pointer into the copy was followed: b .LC<n>.
Land   == /\ pc.region = "copy" /\ pc.at \in Addresses
          /\ pc' = Text(pc.at, 1) /\ UNCHANGED <<options, regs, stack>>
Plain  == Running("plain") /\ Step /\ UNCHANGED <<regs, stack>>
SetPage == /\ Running("page") /\ Step /\ UNCHANGED stack
           /\ regs' = [regs EXCEPT ![I.reg] = Copy(I.to - Low(Base(options) + I.to))]
SetBase == /\ Running("base") /\ Step /\ UNCHANGED stack
           /\ regs' = [regs EXCEPT ![I.reg].at = @ + Low(Base(options))]
Add    == /\ Running("add") /\ Step /\ UNCHANGED stack
          /\ regs' = [regs EXCEPT ![I.reg].at = @ + I.to]
\* The data section holds the pointer with the base of the copy added.
Load   == /\ Running("load") /\ Step /\ UNCHANGED stack
          /\ regs' = [regs EXCEPT ![I.reg] = Copy(I.to)]
Branch == /\ Running("branch") /\ pc' \in {Label(I.to), Following}
          /\ UNCHANGED <<options, regs, stack>>
MendedBranch == /\ Running("mended") /\ pc' \in {Text(pc.at, Size(options, pc.at)), Following}
                /\ UNCHANGED <<options, regs, stack>>
Jump   == Running("jump") /\ pc' = Label(I.to) /\ UNCHANGED <<options, regs, stack>>
JumpRegister == /\ Running("jump_register") /\ pc' = regs[I.reg]
                /\ UNCHANGED <<options, regs, stack>>
Call   == /\ Running("call") /\ pc' = Label(I.to)
          /\ regs' = [regs EXCEPT !.lr = Following] /\ UNCHANGED <<options, stack>>
CallRegister == /\ Running("call_register") /\ pc' = regs[I.reg]
                /\ regs' = [regs EXCEPT !.lr = Following] /\ UNCHANGED <<options, stack>>
Push   == /\ Running("push") /\ Len(stack) < Depth /\ Step
          /\ stack' = <<regs.lr>> \o stack /\ UNCHANGED regs
Pop    == /\ Running("pop") /\ stack # <<>> /\ Step
          /\ regs' = [regs EXCEPT !.lr = Head(stack)] /\ stack' = Tail(stack)
Return == Running("return") /\ pc' = regs.lr /\ UNCHANGED <<options, regs, stack>>
-----------------------------------------------------------------------------
(* Exceptions.  The unwinder knows a frame by its return address: with      *)
(* emulated calls the frame information and the program's own tables are    *)
(* those of the copy, otherwise both are printed anew for the text.         *)

\* The instruction of the program that a value leads to.
Begun(o, v) == v.region = "text" /\ v.at \in Addresses /\ v.step > o.before[v.at] + 1
Place(o, v) == IF Begun(o, v) THEN v.at + 1 ELSE v.at

Frames     == <<regs.lr>> \o stack
Covered(k) == Frames[k].region = IF options.emulate THEN "copy" ELSE "text"
Catches(k) == Covered(k) /\ Place(options, Frames[k]) - 1 \in DOMAIN Handler
Unwinding  == pc = Outside(Raise)
Catch == /\ Unwinding
         /\ \E k \in 1..Len(Frames) :
              /\ Catches(k) /\ \A j \in 1..(k - 1) : Covered(j) /\ ~Catches(j)
              /\ LET h == Handler[Place(options, Frames[k]) - 1]
                 IN  pc' = IF options.emulate THEN Copy(h) ELSE Text(h, 1)
              /\ regs' = [regs EXCEPT !.lr = Frames[k]]
              /\ stack' = SubSeq(stack, k, Len(stack))
         /\ UNCHANGED options
Terminate == /\ Unwinding
             /\ \A k \in 1..Len(Frames) : Catches(k) => \E j \in 1..(k - 1) : ~Covered(j)
             /\ pc' = Outside(Abort) /\ UNCHANGED <<options, regs, stack>>

Next == \/ Land \/ Plain \/ SetPage \/ SetBase \/ Add \/ Load \/ Branch \/ MendedBranch
        \/ Jump \/ JumpRegister \/ Call \/ CallRegister \/ Push \/ Pop \/ Return
        \/ Catch \/ Terminate
\* The processor goes on as long as it can.
Spec == Init /\ [][Next]_vars /\ WF_vars(Next)
-----------------------------------------------------------------------------
(* What the rewritten program is a way to run: the program counter, the     *)
(* registers and the stack of the original, when the options are o, the     *)
(* program counter is p, the registers are rs.  A pointer counts as built   *)
(* from the first instruction of its parts on, a call as made, a mended     *)
(* branch as decided.                                                       *)
PcOf(o, p, rs) ==
  CASE ~Begun(o, p) -> p.at
    [] Begun(o, p) /\ Emulated(o, p.at)
         -> IF Code[p.at].op = "call" THEN Code[p.at].to ELSE Place(o, rs[Code[p.at].reg])
    [] Begun(o, p) /\ Mended(o, p.at) /\ p.step = Size(o, p.at) -> Code[p.at].to
    [] OTHER -> p.at + 1
RegsOf(o, p, rs) == [r \in Registers |->
  IF Begun(o, p) /\ Builds(o, p.at) /\ r = Register(o, p.at)
  THEN Pointee(o, p.at) ELSE Place(o, rs[r])]
StackOf(o, frames) == [k \in 1..Len(frames) |-> Place(o, frames[k])]

Original == INSTANCE Arm64Code WITH
  pc <- PcOf(options, pc, regs), regs <- RegsOf(options, pc, regs), stack <- StackOf(options, stack)

\* The rewritten program runs as the original does, instruction by instruction:
\* the same path, the same code addresses in registers and on the stack whenever
\* the program can look at them, exceptions caught by the same handlers.  (rw.py,
\* line 300: the full landing pad is "100% safe but slightly higher overhead".)
RunsOriginal == Original!Spec

\* Where exceptions are left to the program's own tables, the unwinder and the
\* program only ever see return addresses of the original layout
\* (container.py, line 625: "needed to make the return address on the stack like
\* the original one").
ReturnsLikeOriginal ==
  options.emulate => /\ \A r \in Registers : regs[r].region # "text"
                     /\ \A k \in 1..Len(stack) : stack[k].region # "text"

\* Every conditional branch reaches the label it names: it covers twice as many
\* instructions as fix_shortjumps calls near (2^13 and 2^12 for tbz), although
\* calls are emulated and branches mended after it has counted.
Position(a, s) == SumFunctionOnSet([n \in Addresses |-> Size(options, n)], 0..(a - 1)) + s
Distance(a) == LET from == Position(a, options.before[a] + 1)
                   to == IF Mended(options, a) THEN Position(a, Size(options, a)) ELSE Position(Code[a].to, 1)
               IN  IF from < to THEN to - from ELSE from - to
ShortJumpsReach == \A a \in Addresses : Code[a].op = "branch" => Distance(a) < 2 * Threshold

\* What is printed of an instruction after fix_shortjumps has counted it.
Expansion(o, a) == CASE Emulated(o, a) -> IF o.optimize THEN 3 ELSE 2
                     [] Mended(o, a)   -> 2
                     [] OTHER          -> 0
Expansions(o, a, b) == SumFunctionOnSet([n \in Addresses |-> Expansion(o, n)], a..b)
\* What the factor of two is for, and what the rewriter does not check: an
\* unmended branch has few calls and mended branches on its way, and little is
\* inserted at the end of the way that is not counted.
FewExpanded == \A o \in Options, a \in Addresses : Code[a].op = "branch" =>
  LET to == Code[a].to IN
  /\ to \in Addresses /\ o.after[a] + 2 < 2 * Threshold
  /\ ~Mended(o, a) =>
       IF a < to THEN o.after[a] + Expansions(o, a, to - 1) < Threshold
       ELSE Counted(o, to) + Expansions(o, to, a - 1) <= Threshold
=============================================================================
