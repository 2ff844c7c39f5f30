---------------------------- MODULE BlockEntries ----------------------------
(***************************************************************************)
(* Which instructions the coverage pass instruments                        *)
(* (rwtools_x64/coverage/instrument.py, instrument_basic_blocks), against  *)
(* the basic blocks an execution of the function enters.                   *)
(***************************************************************************)
EXTENDS ControlFlow

CONSTANT Functions

VARIABLES
  fn,   \* the function
  at,   \* the instruction about to run; 0 when control left the function
  how   \* how control got there

vars == <<fn, at, how>>

\* The first instruction and every address in fn.bbstarts get a trampoline.
IsBbEntry(i) == i = 1 \/ i \in BbStarts(fn)

Init == fn \in Functions /\ at = 1 /\ how = "entry"

GoTo(i, way) ==
  /\ at' = IF i \in Idx(fn) THEN i ELSE 0
  /\ how' = IF i \in Idx(fn) THEN way ELSE "left"
  /\ UNCHANGED fn

Straight   == at # 0 /\ fn[at].kind = "plain" /\ GoTo(at + 1, "next")
Return     == at # 0 /\ fn[at].kind = "ret" /\ GoTo(0, "left")
\* A callee outside the function returns to the next instruction.
Call       == at # 0 /\ fn[at].kind = "call" /\ GoTo(at + 1, "returned")
NotTaken   == at # 0 /\ fn[at].kind = "jcc" /\ GoTo(at + 1, "not taken")
DirectJump ==
  /\ at # 0 /\ fn[at].kind \in {"jcc", "jmp"} /\ fn[at].target # Indirect
  /\ GoTo(fn[at].target, "jumped")
\* A jump table: any instruction of the function.
TableJump  ==
  /\ at # 0 /\ fn[at].kind = "jmp" /\ fn[at].target = Indirect
  /\ \E i \in Idx(fn) : GoTo(i, "table")

Next == Straight \/ Return \/ Call \/ NotTaken \/ DirectJump \/ TableJump
Spec == Init /\ [][Next]_vars
-----------------------------------------------------------------------------
\* Every block is counted: whenever control can also have gone elsewhere, the
\* instruction it arrives at is instrumented ("it instruments every basic
\* block", line 10).
BlocksCounted == how \in {"entry", "jumped", "not taken", "table"} => IsBbEntry(at)
=============================================================================
