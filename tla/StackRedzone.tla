---------------------------- MODULE StackRedzone ----------------------------
(***************************************************************************)
(* The stack redzones of the ASan pass (instrument_stack in                *)
(* rwtools_x64/asan/instrument.py): the slot of a stack canary is poisoned *)
(* while the canary is in it.  The pass recognizes the canary by the shape *)
(* of the code around it; the inserted code then runs with the program.    *)
(*                                                                         *)
(* A function is a sequence of instructions [op, slot, target]; slot is 0  *)
(* when the instruction touches no stack slot.  Slots of eight bytes are   *)
(* numbered from the bottom of the stack, against the direction of         *)
(* addresses: slot s of a frame is place base + s, a frame of size n has   *)
(* its stack pointer at place base + n.                                    *)
(***************************************************************************)
EXTENDS Integers, Sequences, FiniteSets, FiniteSetsExt

CONSTANTS
  Code,     \* the functions, by name
  Size,     \* slots of each function's frame
  Main,     \* the function the program starts in
  Window,   \* 20: how far into a function a canary is looked for
  Deepest   \* bound: frames on the stack

Ops == {"load_canary", "store_canary", "read_canary", "xor_canary", "sub_canary",
        "movq", "access", "call", "branch", "setjmp", "longjmp_chk", "longjmp",
        "throw", "ret", "other"}
ASSUME CodeAssumption ==
  /\ Main \in DOMAIN Code /\ DOMAIN Size = DOMAIN Code
  /\ \A f \in DOMAIN Code : Code[f] \in Seq([op : Ops, slot : Int, target : Nat])
  /\ \A f \in DOMAIN Code : Size[f] \in Nat \ {0}
ASSUME BoundsAssumption == Window \in Nat /\ Deepest \in Nat

-----------------------------------------------------------------------------
(* What the pass sees and decides.                                         *)

InsAt(f, i)      == Code[f][i]
Indices(f)    == 1..Len(Code[f])
Movq          == {"store_canary", "read_canary", "movq"}   \* same mnemonic
CanaryFirst   == {"load_canary", "xor_canary", "sub_canary"}  \* op_str "%fs:0x28..."
HasMem(f, i)  == InsAt(f, i).slot # 0 \/ InsAt(f, i).op \in CanaryFirst

\* cidx: the first operand %fs:0x28 within the window, 0 if there is none.
CanaryIdx(f) ==
  LET found == {i \in Indices(f) : i <= Window /\ InsAt(f, i).op \in CanaryFirst}
  IN IF found = {} THEN 0 ELSE Min(found)

\* The slot is poisoned before the load when a movq follows at once.
PoisonAt(f) ==
  LET c == CanaryIdx(f)
  IN IF c # 0 /\ InsAt(f, c + 1).op \in Movq THEN c ELSE 0
Poisons(f)    == PoisonAt(f) # 0

\* Mutant: the slot below the canary is poisoned.
PoisonSlotBelow(f) == InsAt(f, PoisonAt(f) + 1).slot + 1

PoisonSlot(f) == InsAt(f, PoisonAt(f) + 1).slot

\* Mutant: the pass stops at the first canary read.
UnpoisonFirst(f) ==
  LET reads == {i \in Indices(f) : /\ Poisons(f) /\ i > PoisonAt(f) /\ HasMem(f, i)
                                   /\ InsAt(f, i + 1).op = "xor_canary"}
  IN IF reads = {} THEN {} ELSE {Min(reads)}

\* ... and unpoisoned before every access that an xor with the canary follows.
UnpoisonAt(f) ==
  {i \in Indices(f) : /\ Poisons(f) /\ i > PoisonAt(f) /\ HasMem(f, i)
                      /\ InsAt(f, i + 1).op = "xor_canary"}

\* Mutant: the store of the canary is checked like any other.
SkipReads(f) == IF Poisons(f) THEN {PoisonAt(f)} \cup UnpoisonAt(f) ELSE {}

\* skip_instrument: instructions that get no check of their own.
Skip(f) == IF Poisons(f) THEN {PoisonAt(f), PoisonAt(f) + 1} \cup UnpoisonAt(f) ELSE {}
-----------------------------------------------------------------------------
(* What compilers make of -fstack-protector.                               *)

\* Where control may go next inside the function.
Follows(f, i) ==
  CASE InsAt(f, i).op = "branch" -> {i + 1, InsAt(f, i).target}
    [] InsAt(f, i).op \in {"ret", "longjmp_chk", "longjmp", "throw"} -> {}
    [] OTHER -> {i + 1}

\* Only moves and accesses name stack slots; those of a canary are in the frame,
\* below the return address.
FrameAssumption ==
  \A f \in DOMAIN Code :
    /\ Code[f] # <<>>
    /\ \A i \in Indices(f) :
         /\ Follows(f, i) \subseteq Indices(f)
         /\ InsAt(f, i).slot # 0 => InsAt(f, i).op \in Movq \cup {"access"}
         /\ InsAt(f, i).op \in {"store_canary", "read_canary"} => InsAt(f, i).slot \in 1..(Size[f] - 1)

\* The canary is in its slot at the instructions in guarded: from the store to
\* a read, on every path, and never where the function returns.  Calls stand on
\* the side where setjmp does.
Guards(f, guarded) ==
  /\ 1 \notin guarded
  /\ \A i \in Indices(f) :
       CASE InsAt(f, i).op = "store_canary" -> i \notin guarded /\ i + 1 \in guarded
         [] InsAt(f, i).op = "read_canary"  -> i \in guarded /\ i + 1 \notin guarded
         [] InsAt(f, i).op = "ret"          -> i \notin guarded
         [] OTHER -> \A j \in Follows(f, i) : j \in guarded <=> i \in guarded
  /\ \A i, j \in Indices(f) :
       InsAt(f, i).op = "setjmp" /\ InsAt(f, j).op = "call" => (i \in guarded <=> j \in guarded)

\* A function whose canary the pass recognizes stores it once, right after it
\* loads it, and later compares what it reads from that slot.
ASSUME CompilerAssumption ==
  /\ FrameAssumption
  /\ \A f \in DOMAIN Code : LET c == PoisonAt(f) IN c # 0 =>
       /\ InsAt(f, c).op = "load_canary"
       /\ \A i \in Indices(f) :
            /\ InsAt(f, i).op = "store_canary" <=> i = c + 1
            /\ c + 1 \in Follows(f, i) => i = c
            /\ InsAt(f, i).op = "read_canary" =>
                 i > c /\ InsAt(f, i).slot = InsAt(f, c + 1).slot
                 /\ InsAt(f, i + 1).op \in {"xor_canary", "sub_canary"}
            /\ HasMem(f, i) /\ InsAt(f, i + 1).op = "xor_canary"
                 => InsAt(f, i).op = "read_canary"
       /\ \E guarded \in SUBSET Indices(f) : Guards(f, guarded)
-----------------------------------------------------------------------------
(* The program with the inserted code.                                     *)

VARIABLES
  stack,     \* the frames, the running one last; guard: where its canary is, or 0
  poisoned,  \* places whose shadow is not zero
  saved,     \* the jmp_buf: depth and index setjmp returns to, or depth 0
  abandoned, \* canary places left poisoned by a jump the pass does not handle
  report     \* the access ASan reported, which ends the program
stackVars == <<stack, poisoned, saved, abandoned, report>>

Frame(f, base) == [fn |-> f, idx |-> 1, base |-> base, guard |-> 0]
NoReport == [place |-> 0, op |-> "other", next |-> "other"]
NoJump   == [depth |-> 0, idx |-> 0]

StackInit == /\ stack = <<Frame(Main, 0)>>
             /\ poisoned = {} /\ abandoned = {}
             /\ saved = NoJump /\ report = NoReport

Depth    == Len(stack)
Top      == stack[Depth]
Ins      == InsAt(Top.fn, Top.idx)
Rsp(fr)  == fr.base + Size[fr.fn]
Running  == Depth > 0 /\ report = NoReport
PoisonPlace  == Top.base + PoisonSlot(Top.fn)
\* The canaries in frames d and above, of functions with a redzone.
Canaries(d)  == {stack[k].guard : k \in {j \in d..Depth : Poisons(stack[j].fn)}} \ {0}

Continue(idx, guard) == stack' = [stack EXCEPT ![Depth].idx = idx, ![Depth].guard = guard]

\* poison_stack and unpoison_stack in front of the instruction.
AfterInserted ==
  IF Poisons(Top.fn) /\ Top.idx = PoisonAt(Top.fn) THEN poisoned \cup {PoisonPlace}
  ELSE IF Top.idx \in UnpoisonAt(Top.fn) THEN poisoned \ {Top.base + Ins.slot}
  ELSE poisoned

\* An instruction that stays in the function, with its check.
Plain ==
  /\ Running
  /\ Ins.op \in Movq \cup CanaryFirst \cup {"access", "other"}
  /\ poisoned' = AfterInserted
  /\ LET place == Top.base + Ins.slot
     IN IF Ins.slot # 0 /\ Top.idx \notin Skip(Top.fn) /\ place \in poisoned'
        THEN /\ report' = [place |-> place, op |-> Ins.op, next |-> InsAt(Top.fn, Top.idx + 1).op]
             /\ UNCHANGED stack
        ELSE /\ UNCHANGED report
             /\ Continue(Top.idx + 1, CASE Ins.op = "store_canary" -> place
                                        [] Ins.op = "read_canary"  -> 0
                                        [] OTHER -> Top.guard)
  /\ UNCHANGED <<saved, abandoned>>

Branch ==
  /\ Running /\ Ins.op = "branch"
  /\ \E i \in {Top.idx + 1, Ins.target} : Continue(i, Top.guard)
  /\ UNCHANGED <<poisoned, saved, abandoned, report>>

Call ==
  /\ Running /\ Ins.op = "call" /\ Depth < Deepest
  /\ \E f \in DOMAIN Code \ {Main} :
       stack' = Append([stack EXCEPT ![Depth].idx = @ + 1], Frame(f, Rsp(Top)))
  /\ UNCHANGED <<poisoned, saved, abandoned, report>>

Setjmp ==
  /\ Running /\ Ins.op = "setjmp"
  /\ saved' = [depth |-> Depth, idx |-> Top.idx + 1]
  /\ Continue(Top.idx + 1, Top.guard)
  /\ UNCHANGED <<poisoned, abandoned, report>>

\* The frames above depth d are gone; a jmp_buf of one of them is of no use.
CutTo(d) == saved' = IF saved.depth > d THEN NoJump ELSE saved

Ret ==
  /\ Running /\ Ins.op = "ret"
  /\ stack' = SubSeq(stack, 1, Depth - 1)
  /\ CutTo(Depth - 1)
  /\ UNCHANGED <<poisoned, abandoned, report>>

\* Mutant: the loop stops at the frame of the caller of longjmp.
LongjmpUnpoisonShort(from, to) == {p \in from..to : p < Top.base}
\* handle_longjmp: from the stack pointer in the jmp_buf down to the current one.
LongjmpUnpoison(from, to) == from..(to - 1)

\* A call of __longjmp_chk, the only name that starts with "__longjmp".
LongjmpChk ==
  /\ Running /\ Ins.op = "longjmp_chk" /\ saved.depth \in 1..(Depth - 1)
  /\ poisoned' = poisoned \ LongjmpUnpoison(Rsp(stack[saved.depth]), Rsp(Top))
  /\ stack' = [SubSeq(stack, 1, saved.depth) EXCEPT ![saved.depth].idx = saved.idx]
  /\ UNCHANGED <<saved, abandoned, report>>

\* A plain longjmp, or an exception caught in a frame further up: no inserted code.
Unwind ==
  /\ Running
  /\ \/ Ins.op = "longjmp" /\ saved.depth \in 1..(Depth - 1)
        /\ stack' = [SubSeq(stack, 1, saved.depth) EXCEPT ![saved.depth].idx = saved.idx]
        /\ abandoned' = abandoned \cup (Canaries(saved.depth + 1) \cap poisoned)
        /\ UNCHANGED saved
     \/ Ins.op = "throw"
        /\ \E d \in 1..(Depth - 1) :
             /\ stack' = SubSeq(stack, 1, d)
             /\ abandoned' = abandoned \cup (Canaries(d + 1) \cap poisoned)
             /\ CutTo(d)
  /\ UNCHANGED <<poisoned, report>>

StackNext == Plain \/ Branch \/ Call \/ Setjmp \/ Ret \/ LongjmpChk \/ Unwind
StackSpec == StackInit /\ [][StackNext]_stackVars
-----------------------------------------------------------------------------
\* A slot is poisoned exactly while a canary is in it (lines 580-664): of every
\* frame on the stack, however control went through its exits, nested calls and
\* longjmps, and nothing else but what an unhandled jump left behind.
AboutToStore == {stack[k].base + InsAt(stack[k].fn, stack[k].idx).slot :
                   k \in {j \in 1..Depth : InsAt(stack[j].fn, stack[j].idx).op = "store_canary"}}
PoisonMatchesFrames ==
  /\ Canaries(1) \subseteq poisoned
  /\ poisoned \subseteq Canaries(1) \cup AboutToStore \cup abandoned

\* The program's own handling of a canary is never reported, nor an access to a
\* place that holds none, unless an unhandled jump poisoned it.  A check with
\* sub is the exception: the pass knows only xor (line 648).
NoFalseReport ==
  report # NoReport =>
    \/ report.place \in abandoned
    \/ report.op = "read_canary" /\ report.next = "sub_canary"
    \/ report.op \in {"movq", "access"} /\ report.place \in Canaries(1)

\* An access that reaches the canary of any frame, its own or a caller's, does
\* not happen: it is reported, wherever the function and its callers stand.
OverflowReported ==
  [][Running /\ Ins.op \in {"movq", "access"} /\ Top.base + Ins.slot \in Canaries(1)
     => report' # NoReport]_stackVars
=============================================================================
