------------------------------- MODULE Clobber -------------------------------
(***************************************************************************)
(* What the register analysis is for.  After RegAnalysis has finished, the *)
(* function runs with instrumentation before its instructions, and that    *)
(* instrumentation overwrites registers the analysis called free without   *)
(* saving them (rwtools_x64/asan/instrument.py takes its scratch registers *)
(* from free_registers).  The instructions are executed as the processor   *)
(* does, independently of the edges the analysis used; a register part     *)
(* that holds an instrumentation value instead of the program's is         *)
(* tainted.                                                                *)
(***************************************************************************)
EXTENDS RegAnalysis

VARIABLES
  pc,       \* 0: not running; an index; or where control went: RetEdge, CallEdge, Undef
  resume,   \* where a callee returns to
  tainted   \* register parts <<register, part>> that instrumentation overwrote

cvars == <<fn, tool, used, idx, change, iter, free, pc, resume, tainted>>

\* "up" is bits 16 to 63, "h" bits 8 to 15, "l" bits 0 to 7.
Parts == {"up", "h", "l"}
AllParts(regs) == regs \X Parts
PartsOf(n) == {n[1]} \X (CASE n[2] \in {"64", "32"} -> Parts
                           [] n[2] = "16" -> {"h", "l"}
                           [] n[2] = "8h" -> {"h"}
                           [] n[2] = "8l" -> {"l"})
PartsOfAll(S) == UNION {PartsOf(n) : n \in S}

\* Where the processor goes from instruction i.  A jump through a register or
\* memory may land on any instruction of the function or outside it.
OrOut(t) == IF t \in Idx(fn) THEN t ELSE Undef
RealNext(i) ==
  CASE fn[i].kind \in {"plain", "call"} -> {OrOut(i + 1)}
    [] fn[i].kind = "ret" -> {RetEdge}
    [] fn[i].kind = "jcc" -> {OrOut(i + 1), OrOut(fn[i].target)}
    [] fn[i].kind = "jmp" -> IF fn[i].target = Indirect THEN Idx(fn) \cup {Undef}
                             ELSE {OrOut(fn[i].target)}

CInit == Init /\ pc = 0 /\ resume = 0 /\ tainted = {}

Analyse == Next /\ UNCHANGED <<pc, resume, tainted>>

Enter == /\ Done /\ pc = 0
         /\ pc' = 1
         /\ UNCHANGED <<vars, resume, tainted>>

\* Instrumentation before instruction pc uses one free register as scratch.
ClobberFree ==
  /\ pc \in Idx(fn)
  /\ \E r \in RegsOf(free[pc]) : tainted' = tainted \cup AllParts({r})
  /\ UNCHANGED <<vars, pc, resume>>

\* The instruction itself: what it writes holds program values again.
Execute ==
  /\ pc \in Idx(fn)
  /\ tainted' = tainted \ PartsOfAll(fn[pc].writes)
  /\ \E n \in RealNext(pc) :
       IF fn[pc].kind = "call" THEN pc' = CallEdge /\ resume' = n
                               ELSE pc' = n /\ UNCHANGED resume
  /\ UNCHANGED vars

\* The callee returns.  The worst callee leaves every register as it found it.
CalleeReturns ==
  /\ pc = CallEdge
  /\ pc' = resume
  /\ UNCHANGED <<vars, resume, tainted>>

\* Control left for good; the function can be entered again.
Leave == /\ pc \in {RetEdge, Undef}
         /\ pc' = 0 /\ tainted' = {}
         /\ UNCHANGED <<vars, resume>>

CNext == Analyse \/ Enter \/ ClobberFree \/ Execute \/ CalleeReturns \/ Leave
CSpec == CInit /\ [][CNext]_cvars /\ WF_cvars(Analyse)
-----------------------------------------------------------------------------
CTypeOK ==
  /\ TypeOK
  /\ pc \in {0, RetEdge, CallEdge, Undef} \cup Idx(fn)
  /\ resume \in {0, Undef} \cup Idx(fn)
  /\ tainted \subseteq Registers \X Parts

\* What the code at pc may read next: the operands of the instruction, or
\* whatever the caller, the callee or unknown code looks at.
ReadNext ==
  IF pc \in Idx(fn) THEN PartsOfAll(fn[pc].reads)
  ELSE IF pc = RetEdge THEN AllParts(RetUses)
  ELSE IF pc = CallEdge THEN AllParts(CallUses)
  ELSE IF pc = Undef THEN AllParts(Registers)
  ELSE {}

\* Instrumentation is invisible to the program: neither an instruction nor the
\* code control leaves to ever reads a register that instrumentation overwrote
\* and the program has not written again, partial writes included.
NoTaintedRead == tainted \cap ReadNext = {}

\* The inductive strengthening: whatever is tainted is free where we stand.
TaintIsFree ==
  \A r \in Registers : (\E p \in Parts : <<r, p>> \in tainted) =>
    /\ pc \in Idx(fn) => Full(r) \in free[pc]
    /\ pc = RetEdge   => r \notin RetUses
    /\ pc = CallEdge  => /\ r \notin CallUses
                         /\ resume # Undef
                         /\ resume \in Idx(fn) => Full(r) \in free[resume]
    /\ pc # Undef

\* The analysis is finished while the function runs, and its free sets are the
\* complements of sets that cover their equations.
RunsOnResult ==
  /\ pc # 0 => Done
  /\ pc = CallEdge => resume # 0
  /\ Done => free = [i \in Idx(fn) |-> Pool \ used[i]]
=============================================================================
