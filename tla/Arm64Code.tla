------------------------------ MODULE Arm64Code ------------------------------
(***************************************************************************)
(* An aarch64 program as its binary runs, before it is rewritten: the part *)
(* of the machine that handles code addresses.  The code around calls,     *)
(* jumps and exceptions is what the rewriter touches; everything else an   *)
(* instruction does is "plain".                                            *)
(*                                                                         *)
(* An instruction is a record [op, reg, to].  Instructions have the        *)
(* addresses 0, 1, 2, ... (their unit is one instruction).                 *)
(*   plain                          nothing that concerns addresses        *)
(*   adrp, adr  reg := to           a page, an address near pc             *)
(*   load       reg := to           a pointer kept in a data section       *)
(*   add        reg := reg + to                                            *)
(*   branch                         cbz, tbz, b.eq ... : to or the next    *)
(*   jump, call                     b, bl                                  *)
(*   jump_register, call_register   br, blr: the target is in reg          *)
(*   push, pop                      the link register to and from a frame  *)
(*   return                         ret                                    *)
(***************************************************************************)
EXTENDS Integers, Sequences

CONSTANTS
  Code,     \* the instructions, by address
  Handler,  \* the language specific data: call sites with a handler, and where it is
  Entry,    \* where the program starts
  Exit, Raise, Abort,  \* addresses outside: the caller of Entry, __cxa_throw, terminate
  Depth     \* bound: frames on the stack

VARIABLES
  pc,    \* the program counter
  regs,  \* the link register "lr" and a general register "x"
  stack  \* saved link registers, the innermost frame first

codeVars  == <<pc, regs, stack>>
Addresses == DOMAIN Code
At(op)    == pc \in Addresses /\ Code[pc].op = op
I         == Code[pc]

Init == pc = Entry /\ regs = [r \in {"lr", "x"} |-> Exit] /\ stack = <<>>

Plain  == At("plain") /\ pc' = pc + 1 /\ UNCHANGED <<regs, stack>>
Point  == /\ At("adrp") \/ At("adr") \/ At("load")
          /\ regs' = [regs EXCEPT ![I.reg] = I.to] /\ pc' = pc + 1 /\ UNCHANGED stack
Add    == /\ At("add")
          /\ regs' = [regs EXCEPT ![I.reg] = @ + I.to] /\ pc' = pc + 1 /\ UNCHANGED stack
Branch == At("branch") /\ pc' \in {I.to, pc + 1} /\ UNCHANGED <<regs, stack>>
Jump   == At("jump") /\ pc' = I.to /\ UNCHANGED <<regs, stack>>
JumpRegister == At("jump_register") /\ pc' = regs[I.reg] /\ UNCHANGED <<regs, stack>>
Call   == /\ At("call")
          /\ pc' = I.to /\ regs' = [regs EXCEPT !.lr = pc + 1] /\ UNCHANGED stack
CallRegister == /\ At("call_register")
                /\ pc' = regs[I.reg] /\ regs' = [regs EXCEPT !.lr = pc + 1]
                /\ UNCHANGED stack
Push   == /\ At("push") /\ Len(stack) < Depth
          /\ stack' = <<regs.lr>> \o stack /\ pc' = pc + 1 /\ UNCHANGED regs
Pop    == /\ At("pop") /\ stack # <<>>
          /\ regs' = [regs EXCEPT !.lr = Head(stack)] /\ stack' = Tail(stack) /\ pc' = pc + 1
Return == At("return") /\ pc' = regs.lr /\ UNCHANGED <<regs, stack>>

\* An exception: the innermost frame whose call site has a handler goes on there.
Frames == <<regs.lr>> \o stack
Catches(k) == Frames[k] - 1 \in DOMAIN Handler
Catch == /\ pc = Raise
         /\ \E k \in 1..Len(Frames) :
              /\ Catches(k) /\ \A j \in 1..(k - 1) : ~Catches(j)
              /\ pc' = Handler[Frames[k] - 1]
              /\ regs' = [regs EXCEPT !.lr = Frames[k]]
              /\ stack' = SubSeq(stack, k, Len(stack))
Terminate == /\ pc = Raise /\ \A k \in 1..Len(Frames) : ~Catches(k)
             /\ pc' = Abort /\ UNCHANGED <<regs, stack>>

Next == \/ Plain \/ Point \/ Add \/ Branch \/ Jump \/ JumpRegister \/ Call \/ CallRegister
        \/ Push \/ Pop \/ Return \/ Catch \/ Terminate
Runs == Init /\ [][Next]_codeVars
\* The processor goes on as long as it can.
Spec == Runs /\ WF_codeVars(Next)
=============================================================================
