----------------------------- MODULE RegAnalysis -----------------------------
(***************************************************************************)
(* RegisterAnalysis (librw_x64/analysis/register.py): the backward data    *)
(* flow that decides, for every instruction of a function, which registers *)
(* instrumentation inserted before it may overwrite.                       *)
(*                                                                         *)
(* The analysis starts from "every register of the pool is used" and makes *)
(* passes over the function.  `change = change or analyze_instruction()`   *)
(* short-circuits: the first instruction whose set changes ends the work   *)
(* of its pass, so a pass makes at most one change, and after MaxIter      *)
(* passes (8192) the loop gives up wherever it stands.                     *)
(*                                                                         *)
(* The functions of a kernel module are analysed by cftool/main.go. Its    *)
(* loop and its equations are the same, but a set is a word with one bit   *)
(* per register: there are no sub-register names, and an instruction that  *)
(* writes 8 or 16 bits of a register counts as one that reads it.          *)
(*                                                                         *)
(* A register name is a pair <<register, width>>; the pool holds the       *)
(* 64-bit names of the general purpose registers and of rflags.            *)
(***************************************************************************)
EXTENDS ControlFlow, FiniteSets

CONSTANTS
  Registers,   \* general purpose registers without rip and rsp, and rflags
  Widths,      \* the widths each register has a name for (always "64")
  RetUses,     \* used_regs['ret']: registers used when a function returns
  CallUses,    \* used_regs['call']: registers used by a callee
  MaxIter,     \* 8192 in the code
  Functions    \* the functions to analyse

ASSUME PoolAssumption == IsFiniteSet(Registers) /\ "sub-register names" \notin Registers
ASSUME WidthAssumption ==
  \A r \in Registers : "64" \in Widths[r] /\ Widths[r] \subseteq {"64", "32", "16", "8l", "8h"}
ASSUME UsesAssumption == RetUses \subseteq Registers /\ CallUses \subseteq Registers
ASSUME IterAssumption == MaxIter \in Nat

Names   == {n \in Registers \X {"64", "32", "16", "8l", "8h"} : n[2] \in Widths[n[1]]}
Full(r) == <<r, "64">>
Pool    == {Full(r) : r \in Registers}    \* reg_pool

\* An instruction with the register names capstone says it reads and writes.
Instruction == [kind : Kinds, target : Nat \cup {Outside, Indirect},
                reads : SUBSET Names, writes : SUBSET Names]
ASSUME FunctionsAssumption == \A g \in Functions : g \in Seq(Instruction) /\ g # <<>>

(***************************************************************************)
(* _init_closure_list: the other names a name drags along.  A 64-bit name  *)
(* brings its sub-registers, a 32-bit name the rest of its register (the   *)
(* write zero-extends), a 16-bit name only its two bytes, and a byte none. *)
(***************************************************************************)
\* Mutant: a 16-bit write taken to overwrite the whole register.
BelowZeroExtending(w) == IF w \in {"64", "32", "16"} THEN {"64", "32", "16", "8l", "8h"} \ {w}
                         ELSE {}
Below(w) == CASE w = "64" -> {"32", "16", "8l", "8h"}
              [] w = "32" -> {"64", "16", "8l", "8h"}
              [] w = "16" -> {"8l", "8h"}
              [] OTHER    -> {}
ClosureOf(n) == {<<n[1], w>> : w \in Below(n[2]) \cap Widths[n[1]]}
Closure(S)   == S \cup UNION {ClosureOf(n) : n \in S}

-----------------------------------------------------------------------------
VARIABLES
  fn,      \* the function under analysis
  tool,    \* what analyses it
  used,    \* used_regs, for the instructions of fn
  idx,     \* position of the current pass
  change,  \* this pass already changed a set
  iter,    \* passes completed
  free     \* free_regs once finalize has run; <<>> before

vars == <<fn, tool, used, idx, change, iter, free>>

Tools == {"register.py", "main.go"}
Edges(i) == IF tool = "main.go" THEN KernelNexts(fn, i) ELSE Nexts(fn, i)

\* used_regs[n]: a dictionary that holds the two special entries and answers
\* the whole pool for a key it does not have ("undef", one past the end).
UsedAt(u, n) == IF n \in Idx(fn) THEN u[n]
                ELSE IF n = RetEdge THEN {Full(r) : r \in RetUses}
                ELSE IF n = CallEdge THEN {Full(r) : r \in CallUses}
                ELSE Pool

\* The set analyze_instruction computes for instruction i.
ReadRegs(i)   == {Full(n[1]) : n \in fn[i].reads}
\* analyzeFunction: registers of which the instruction preserves a part.
Preserved(i)  == {Full(n[1]) : n \in {m \in fn[i].writes : m[2] \notin {"64", "32"}}}
\* Mutant: such an instruction does not read the register.
ReadsNothingPreserved(i) == ReadRegs(i)
Reads(i)      == ReadRegs(i) \cup (IF tool = "main.go" THEN Preserved(i) ELSE {})
WrittenRegs(i) == {Full(n[1]) : n \in fn[i].writes}
WriteNames(i) == (IF tool = "main.go" THEN WrittenRegs(i) ELSE Closure(fn[i].writes)) \ Reads(i)
Uses(u, i)    == Reads(i) \cup UNION {UsedAt(u, n) \ WriteNames(i) : n \in Edges(i)}
\* Mutant: what the instruction writes is taken out of what it reads too.
TransferKillsReads(u, i) ==
  Closure((Reads(i) \cup UNION {UsedAt(u, n) : n \in Edges(i)}) \ Closure(fn[i].writes))
Transfer(u, i) == IF tool = "main.go" THEN Uses(u, i) ELSE Closure(Uses(u, i))

\* Mutant: the analysis starts from "nothing is used".
InitOptimistic == /\ fn \in Functions /\ tool \in Tools
                  /\ used = [i \in Idx(fn) |-> {}]
                  /\ idx = 1 /\ change = FALSE /\ iter = 0 /\ free = <<>>

Init == /\ fn \in Functions /\ tool \in Tools
        /\ used = [i \in Idx(fn) |-> Pool]
        /\ idx = 1 /\ change = FALSE /\ iter = 0 /\ free = <<>>

Running == free = <<>> /\ iter < MaxIter /\ idx \in Idx(fn)

\* Mutant: the new set is compared before its closure is taken.
AnalyzeComparingEarly ==
  /\ Running /\ ~change
  /\ used'   = [used EXCEPT ![idx] = Transfer(used, idx)]
  /\ change' = (Transfer(used, idx) \cap Pool # used[idx])
  /\ idx'    = idx + 1
  /\ UNCHANGED <<fn, tool, iter, free>>

\* analyze_instruction, reached only while this pass has changed nothing.
AnalyzeInstruction ==
  /\ Running /\ ~change
  /\ used'   = [used EXCEPT ![idx] = Transfer(used, idx)]
  /\ change' = (Transfer(used, idx) # used[idx])
  /\ idx'    = idx + 1
  /\ UNCHANGED <<fn, tool, iter, free>>

\* Mutants: a pass starts over, or forgets to clear its flag.
NextPassRestarting ==
  /\ free = <<>> /\ iter < MaxIter
  /\ change
  /\ iter' = iter + 1 /\ idx' = 1 /\ change' = FALSE
  /\ used' = [i \in Idx(fn) |-> Pool]
  /\ UNCHANGED <<fn, tool, free>>
NextPassKeepingChange ==
  /\ free = <<>> /\ iter < MaxIter
  /\ change
  /\ iter' = iter + 1 /\ idx' = 1
  /\ UNCHANGED <<fn, tool, used, change, free>>

\* The rest of a pass that already made its change: nothing is analysed.
NextPass ==
  /\ free = <<>> /\ iter < MaxIter
  /\ change
  /\ iter' = iter + 1 /\ idx' = 1 /\ change' = FALSE
  /\ UNCHANGED <<fn, tool, used, free>>

FixpointReached == idx = Len(fn) + 1 /\ ~change
GaveUp          == iter = MaxIter

\* Mutant: every name that is not used counts as free.
FinalizeNames ==
  /\ free = <<>> /\ (FixpointReached \/ GaveUp)
  /\ free' = [i \in Idx(fn) |-> Names \ used[i]]
  /\ UNCHANGED <<fn, tool, used, idx, change, iter>>

\* finalize: the free registers are the pool without the used ones.
Finalize ==
  /\ free = <<>> /\ (FixpointReached \/ GaveUp)
  /\ free' = [i \in Idx(fn) |-> Pool \ used[i]]
  /\ UNCHANGED <<fn, tool, used, idx, change, iter>>

Next == AnalyzeInstruction \/ NextPass \/ Finalize

Done == free # <<>>
Spec == Init /\ [][Next]_vars /\ WF_vars(Next)
-----------------------------------------------------------------------------
TypeOK ==
  /\ fn \in Functions /\ tool \in Tools
  /\ used \in [Idx(fn) -> SUBSET Names]
  /\ idx \in 1..(Len(fn) + 1)
  /\ change \in BOOLEAN
  /\ iter \in 0..MaxIter
  /\ free = <<>> \/ free \in [Idx(fn) -> SUBSET Pool]

\* The registers of a set of names that are in the pool.
RegsOf(S) == {r \in Registers : Full(r) \in S}

\* What the analysis relies on between any two steps, the give-up included:
\* every set already covers what its own equation asks for (lines 136-158).
\* A set that was ever too small could be the one MaxIter freezes.
CoversEquation ==
  \A i \in Idx(fn) : RegsOf(Transfer(used, i)) \subseteq RegsOf(used[i])

\* No step ever adds a register to a set: the iteration descends from "all
\* used", so stopping it early is only imprecise, never wrong (lines 126-134).
OnlyShrinks ==
  [][\A i \in Idx(fn) : RegsOf(used'[i]) \subseteq RegsOf(used[i])]_vars

\* A set changes at most once per register and once to add the sub-register
\* names, and each pass makes one change: this many passes always suffice, which
\* tells which functions the cap of 8192 passes (line 129) can cut short.
Changes     == Idx(fn) \X (Registers \cup {"sub-register names"})
ChangeBound == iter <= Cardinality(Changes)

(***************************************************************************)
(* Reference definition.  A register is wanted at i when some walk of the  *)
(* control-flow graph from i reads it, or hands it to a successor outside  *)
(* the function that uses it, before overwriting all of it.  A walk longer *)
(* than the function went round a loop that never decides; the analysis,   *)
(* descending from "used", keeps such a register used.  For cftool, what   *)
(* an instruction preserves a part of counts as read.                      *)
(***************************************************************************)
Overwrites(i, r) == \E n \in fn[i].writes : n[1] = r /\ n[2] \in {"64", "32"}
LeavesUsing(i, r) ==
  \/ RetEdge \in Edges(i) /\ r \in RetUses
  \/ CallEdge \in Edges(i) /\ r \in CallUses
  \/ Undef \in Edges(i)
  \/ Len(fn) + 1 \in Edges(i)
ReadsPart(i, r) ==
  \/ \E n \in fn[i].reads : n[1] = r
  \/ tool = "main.go" /\ \E n \in fn[i].writes : n[1] = r /\ n[2] \notin {"64", "32"}
\* One step of the walks that stand at S and keep r.
Onward(S, r)  == UNION {Edges(j) \cap Idx(fn) : j \in {x \in S : ~Overwrites(x, r)}}
Reached(i, r) == LET R[k \in 0..Len(fn)] == IF k = 0 THEN {i} ELSE Onward(R[k - 1], r) IN R
Wanted(i, r) ==
  LET R == Reached(i, r)
  IN \E k \in 0..Len(fn) : \E j \in R[k] :
       \/ ReadsPart(j, r)
       \/ ~Overwrites(j, r) /\ (LeavesUsing(j, r) \/ k = Len(fn))

\* An analysis that reached its fixpoint frees exactly the registers no walk
\* wants; one that gave up frees no register a walk wants.
FreeIsExact ==
  Done => \A i \in Idx(fn), r \in Registers :
            /\ Full(r) \in free[i] => ~Wanted(i, r)
            /\ FixpointReached /\ ~Wanted(i, r) => Full(r) \in free[i]

\* The analysis of a function that the cap leaves room for ends, at its fixpoint
\* (line 129): the comparison of line 154 settles, although it compares sets of
\* names that the closure of line 153 had widened.
Converges == Cardinality(Changes) < MaxIter ~> Done /\ FixpointReached
=============================================================================
