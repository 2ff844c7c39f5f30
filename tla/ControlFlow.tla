----------------------------- MODULE ControlFlow -----------------------------
(***************************************************************************)
(* The control-flow graph RetroWrite recovers for one disassembled         *)
(* function: Symbolizer.symbolize_cf_transfer in librw_x64/rw.py, and      *)
(* Symbolizer.symbolize_direct_branches in krw.py for kernel modules.      *)
(*                                                                         *)
(* A function is the sequence Function.cache.  An instruction is a record  *)
(*   kind    "plain", "ret", "jcc" (any jump whose mnemonic is not jmp),   *)
(*           "jmp" or "call"                                               *)
(*   target  of a transfer: an index of the function, Outside (immediate   *)
(*           operand elsewhere) or Indirect (register or memory operand)   *)
(*   reads, writes   the register names capstone reports                   *)
(* Indices start at 1 here and at 0 in the code.                           *)
(***************************************************************************)
EXTENDS Naturals, Sequences

CONSTANTS
  Outside, Indirect,       \* targets that are not an instruction of the function
  RetEdge, CallEdge, Undef \* successors that are not an instruction: "ret", "call", "undef"

Kinds == {"plain", "ret", "jcc", "jmp", "call"}

\* A successor that is not an instruction is no index of any function.
ASSUME SuccessorAssumption ==
  /\ {RetEdge, CallEdge, Undef, Outside, Indirect} \cap Nat = {}
  /\ RetEdge # CallEdge /\ Undef \notin {RetEdge, CallEdge}

Idx(fn) == 1..Len(fn)

\* Natural flow out of a conditional jump or a call.  A plain instruction
\* always gets idx + 1, even when that is past the end of the function.
NaturalNext(fn, i) == IF i < Len(fn) THEN i + 1 ELSE Undef

\* The edge of a taken jump: the index of an immediate target inside this
\* function, "undef" for every other target.
TakenNext(fn, i) == IF fn[i].target \in Idx(fn) THEN fn[i].target ELSE Undef

\* function.nexts[i]
Nexts(fn, i) ==
  CASE fn[i].kind = "plain" -> {i + 1}
    [] fn[i].kind = "ret"   -> {RetEdge}
    [] fn[i].kind = "jcc"   -> {NaturalNext(fn, i), TakenNext(fn, i)}
    [] fn[i].kind = "jmp"   -> {TakenNext(fn, i)}
    [] fn[i].kind = "call"  -> {CallEdge, NaturalNext(fn, i)}

\* function.nexts[i] of a kernel module (krw.py): the natural successor is given
\* even where it is past the end of the function.
KernelNexts(fn, i) ==
  CASE fn[i].kind = "plain" -> {i + 1}
    [] fn[i].kind = "ret"   -> {RetEdge}
    [] fn[i].kind = "jcc"   -> {i + 1, TakenNext(fn, i)}
    [] fn[i].kind = "jmp"   -> {TakenNext(fn, i)}
    [] fn[i].kind = "call"  -> {CallEdge, i + 1}

\* function.bbstarts, as far as it names instructions of this function: its
\* start, and every immediate target of a jump or call.
BbStarts(fn) ==
  {1} \cup {t \in Idx(fn) : \E i \in Idx(fn) :
              fn[i].kind \in {"jcc", "jmp", "call"} /\ fn[i].target = t}
=============================================================================
