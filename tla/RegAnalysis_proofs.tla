-------------------------- MODULE RegAnalysis_proofs --------------------------
(***************************************************************************)
(* For every set of functions, every register file and every MaxIter: the  *)
(* analysis keeps its types, only ever shrinks its sets, at each moment    *)
(* covers its equations, frees exactly the registers that no walk of the   *)
(* graph wants, and needs a bounded number of passes; and instrumentation  *)
(* that overwrites free registers is invisible to the program (Clobber).   *)
(***************************************************************************)
EXTENDS Clobber, DataLemmas

\* A set of names a pass stores: a sub-register never stands without the
\* 64-bit name of its register, and cftool has no sub-registers.
Closed(S) == /\ S \subseteq Names /\ \A n \in S : Full(n[1]) \in S
             /\ tool = "main.go" => S \subseteq Pool

SetsClosed == \A i \in Idx(fn) : Closed(used[i])

\* The inductive invariant.
RInv == /\ TypeOK
        /\ SetsClosed
        /\ CoversEquation

-----------------------------------------------------------------------------
\* Names and their registers (register.py:52-86).
LEMMA NameFacts ==
  /\ \A r \in Registers : Full(r) \in Names /\ Full(r)[1] = r /\ Full(r) \in Pool
  /\ \A n \in Names : n = <<n[1], n[2]>> /\ n[1] \in Registers /\ n[2] \in Widths[n[1]]
  /\ \A n \in Names : ClosureOf(n) \subseteq Names
  /\ \A n \in Names : \A m \in ClosureOf(n) : m[1] = n[1]
  /\ Pool \subseteq Names
<1>1. \A r \in Registers : Full(r) \in Names /\ Full(r)[1] = r /\ Full(r) \in Pool
  BY WidthAssumption DEF Names, Full, Pool
<1>2. \A n \in Names : n = <<n[1], n[2]>> /\ n[1] \in Registers /\ n[2] \in Widths[n[1]]
  BY DEF Names
<1>3. \A n \in Names : ClosureOf(n) \subseteq Names
  BY WidthAssumption, <1>2 DEF Names, ClosureOf, Below
<1>4. \A n \in Names : \A m \in ClosureOf(n) : m[1] = n[1]
  BY DEF ClosureOf
<1>5. QED
  BY <1>1, <1>2, <1>3, <1>4 DEF Pool

\* The closure of a set of names: it stays among the names, keeps the set, and
\* adds only names of registers already there (register.py:109-114).
LEMMA ClosureFacts ==
  ASSUME NEW S \in SUBSET Names
  PROVE  /\ Closure(S) \subseteq Names
         /\ S \subseteq Closure(S)
         /\ \A n \in Closure(S) : \E m \in S : m[1] = n[1]
BY NameFacts DEF Closure

\* Writing a 64-bit or a 32-bit name overwrites every name of the register;
\* nothing else puts the 64-bit name into the closure.
LEMMA WholeWrite ==
  ASSUME NEW S \in SUBSET Names, NEW r \in Registers, Full(r) \in Closure(S)
  PROVE  /\ \E n \in S : n[1] = r /\ n[2] \in {"64", "32"}
         /\ \A m \in Names : m[1] = r => m \in Closure(S)
<1>1. PICK n \in S : n = Full(r) \/ Full(r) \in ClosureOf(n)
  BY DEF Closure
<1>2. n[1] = r /\ n[2] \in {"64", "32"}
  <2>1. CASE n = Full(r)
    BY <2>1 DEF Full
  <2>2. CASE Full(r) \in ClosureOf(n)
    <3>1. PICK w \in Below(n[2]) \cap Widths[n[1]] : Full(r) = <<n[1], w>>
      BY <2>2 DEF ClosureOf
    <3>2. n[1] = r /\ "64" \in Below(n[2])
      BY <3>1 DEF Full
    <3>3. n[2] \in {"64", "32", "16", "8l", "8h"}
      BY DEF Names
    <3>4. QED
      BY <3>2, <3>3 DEF Below
  <2>3. QED
    BY <1>1, <2>1, <2>2
<1>3. ASSUME NEW m \in Names, m[1] = r
      PROVE  m \in Closure(S)
  <2>1. m = <<r, m[2]>> /\ m[2] \in Widths[r] /\ m[2] \in {"64", "32", "16", "8l", "8h"}
    BY <1>3, NameFacts DEF Names
  <2>2. m = n \/ m \in ClosureOf(n)
    <3>1. n = <<r, n[2]>>
      BY <1>2, NameFacts
    <3>2. CASE m[2] = n[2]
      BY <2>1, <3>1, <3>2
    <3>3. CASE m[2] # n[2]
      <4>1. m[2] \in Below(n[2])
        BY <1>2, <2>1, <3>3 DEF Below
      <4>2. QED
        BY <1>2, <2>1, <4>1 DEF ClosureOf
    <3>4. QED
      BY <3>2, <3>3
  <2>3. QED
    BY <2>2 DEF Closure
<1>4. QED
  BY <1>2, <1>3

-----------------------------------------------------------------------------
\* The instructions of the function under analysis.
LEMMA FnFacts ==
  ASSUME fn \in Functions
  PROVE  /\ fn \in Seq(Instruction) /\ Len(fn) \in Nat \ {0}
         /\ \A i \in Idx(fn) : fn[i] \in Instruction
         /\ \A i \in Idx(fn) : Reads(i) \subseteq Pool
         /\ \A i \in Idx(fn) : WriteNames(i) \subseteq Names
<1>1. fn \in Seq(Instruction) /\ Len(fn) \in Nat \ {0}
  BY FunctionsAssumption
<1>2. \A i \in Idx(fn) : fn[i] \in Instruction
  BY <1>1 DEF Idx
<1>3. \A i \in Idx(fn) : fn[i].reads \subseteq Names /\ fn[i].writes \subseteq Names
  BY <1>2 DEF Instruction
<1>4. \A i \in Idx(fn) : Reads(i) \subseteq Pool
  BY <1>3, NameFacts DEF Reads, ReadRegs, Preserved
<1>5. \A i \in Idx(fn) : WriteNames(i) \subseteq Names
  BY <1>3, ClosureFacts, NameFacts DEF WriteNames, WrittenRegs
<1>6. QED
  BY <1>1, <1>2, <1>4, <1>5

\* A register is overwritten with all its names or keeps its 64-bit name (in
\* cftool, the only one).
LEMMA KillsWholeRegister ==
  ASSUME fn \in Functions, NEW i \in Idx(fn), NEW r \in Registers,
         Full(r) \in WriteNames(i),
         NEW m \in Names, m[1] = r, tool = "main.go" => m \in Pool
  PROVE  m \in WriteNames(i)
<1>1. CASE tool = "main.go"
  BY <1>1, NameFacts DEF Pool
<1>2. CASE tool # "main.go"
  <2>1. fn[i].writes \subseteq Names
    BY FnFacts DEF Instruction
  <2>2. Full(r) \in Closure(fn[i].writes) /\ Full(r) \notin Reads(i)
    BY <1>2 DEF WriteNames
  <2>3. m \in Closure(fn[i].writes)
    BY <2>1, <2>2, WholeWrite
  <2>4. m \notin Reads(i)
    BY <2>2, FnFacts, NameFacts DEF Pool
  <2>5. QED
    BY <1>2, <2>3, <2>4 DEF WriteNames
<1>3. QED
  BY <1>1, <1>2

\* What is overwritten with all its names was written by its 64-bit or 32-bit name.
LEMMA WrittenWholly ==
  ASSUME fn \in Functions, NEW i \in Idx(fn), NEW r \in Registers, Full(r) \in WriteNames(i)
  PROVE  \E n \in fn[i].writes : n[1] = r /\ n[2] \in {"64", "32"}
<1>1. fn[i].writes \subseteq Names
  BY FnFacts DEF Instruction
<1>2. CASE tool = "main.go"
  <2>1. Full(r) \in WrittenRegs(i) /\ Full(r) \notin Preserved(i)
    BY <1>2 DEF WriteNames, Reads
  <2>2. PICK n \in fn[i].writes : Full(r) = Full(n[1])
    BY <2>1 DEF WrittenRegs
  <2>3. n[1] = r
    BY <2>2 DEF Full
  <2>4. QED
    BY <2>1, <2>2, <2>3 DEF Preserved
<1>3. CASE tool # "main.go"
  BY <1>1, <1>3, WholeWrite DEF WriteNames
<1>4. QED
  BY <1>2, <1>3

\* What a successor uses, special successors included, is a closed set.
LEMMA UsedAtClosed ==
  ASSUME NEW u \in [Idx(fn) -> SUBSET Names], \A i \in Idx(fn) : Closed(u[i]), NEW s
  PROVE  Closed(UsedAt(u, s))
BY NameFacts, UsesAssumption DEF UsedAt, Closed, Pool

\* The equation of an instruction, register by register: used if read here, or
\* used by a successor and not overwritten here (register.py:136-152).
LEMMA TransferFull ==
  ASSUME fn \in Functions,
         NEW u \in [Idx(fn) -> SUBSET Names], \A i \in Idx(fn) : Closed(u[i]),
         NEW i \in Idx(fn)
  PROVE  /\ Closed(Transfer(u, i))
         /\ \A r \in Registers :
              Full(r) \in Transfer(u, i) <=>
                \/ Full(r) \in Reads(i)
                \/ \E s \in Edges(i) : Full(r) \in UsedAt(u, s) \ WriteNames(i)
<1> DEFINE S == Reads(i) \cup UNION {UsedAt(u, s) \ WriteNames(i) : s \in Edges(i)}
<1>1. S \in SUBSET Names /\ (tool = "main.go" => S \subseteq Pool)
  BY UsedAtClosed, FnFacts, NameFacts DEF Closed
<1>2. Transfer(u, i) = IF tool = "main.go" THEN S ELSE Closure(S)
  BY DEF Transfer, Uses
<1>3. ASSUME NEW m \in S
      PROVE  Full(m[1]) \in S
  <2>1. CASE m \in Reads(i)
    BY <2>1, FnFacts, NameFacts DEF Pool
  <2>2. CASE m \notin Reads(i)
    <3>1. PICK s \in Edges(i) : m \in UsedAt(u, s) \ WriteNames(i)
      BY <2>2
    <3>2. Full(m[1]) \in UsedAt(u, s)
      BY <3>1, UsedAtClosed DEF Closed
    <3>3. m \in Names /\ m[1] \in Registers
      BY <1>1, NameFacts
    <3>4. Full(m[1]) \notin WriteNames(i)
      BY <1>1, <3>1, <3>3, KillsWholeRegister
    <3>5. QED
      BY <3>2, <3>4
  <2>3. QED
    BY <2>1, <2>2
<1> HIDE DEF S
<1>4. \A n \in Closure(S) : Full(n[1]) \in S
  <2>1. TAKE n \in Closure(S)
  <2>2. PICK m \in S : m[1] = n[1]
    BY <1>1, ClosureFacts
  <2>3. QED
    BY <1>3, <2>2
<1>5. Closure(S) \subseteq Names /\ S \subseteq Closure(S)
  BY <1>1, ClosureFacts
<1>6. \A r \in Registers : Full(r) \in Closure(S) <=> Full(r) \in S
  BY <1>4, <1>5, NameFacts
<1>7. Closed(Transfer(u, i))
  BY <1>1, <1>2, <1>3, <1>4, <1>5 DEF Closed
<1>8. QED
  BY <1>2, <1>6, <1>7 DEF S

\* Smaller sets of used registers never make an equation ask for more.
LEMMA TransferMonotone ==
  ASSUME fn \in Functions,
         NEW u \in [Idx(fn) -> SUBSET Names], \A i \in Idx(fn) : Closed(u[i]),
         NEW v \in [Idx(fn) -> SUBSET Names], \A i \in Idx(fn) : Closed(v[i]),
         \A i \in Idx(fn) : RegsOf(u[i]) \subseteq RegsOf(v[i]),
         NEW j \in Idx(fn)
  PROVE  RegsOf(Transfer(u, j)) \subseteq RegsOf(Transfer(v, j))
<1>1. SUFFICES ASSUME NEW r \in Registers, Full(r) \in Transfer(u, j)
               PROVE  Full(r) \in Transfer(v, j)
  BY DEF RegsOf
<1>2. CASE Full(r) \in Reads(j)
  BY <1>2, TransferFull
<1>3. CASE \E s \in Edges(j) : Full(r) \in UsedAt(u, s) \ WriteNames(j)
  <2>1. PICK s \in Edges(j) : Full(r) \in UsedAt(u, s) \ WriteNames(j)
    BY <1>3
  <2>2. Full(r) \in UsedAt(v, s)
    BY <2>1 DEF UsedAt, RegsOf
  <2>3. QED
    BY <2>1, <2>2, TransferFull
<1>4. QED
  BY <1>1, <1>2, <1>3, TransferFull

-----------------------------------------------------------------------------
\* The analysis starts from sets that are the whole pool: they cover anything.
LEMMA InitRInv == Init => RInv
<1> SUFFICES ASSUME Init PROVE RInv
  OBVIOUS
<1>1. fn \in Functions /\ Len(fn) \in Nat \ {0}
  BY FnFacts DEF Init
<1>2. SetsClosed
  BY NameFacts DEF Init, SetsClosed, Closed, Pool
<1>3. TypeOK
  <2>1. Pool \in SUBSET Names
    BY NameFacts
  <2>2. used \in [Idx(fn) -> SUBSET Names]
    BY <2>1 DEF Init
  <2>3. idx \in 1..(Len(fn) + 1) /\ iter \in 0..MaxIter
    BY <1>1, IterAssumption DEF Init
  <2>4. QED
    BY <1>1, <2>2, <2>3 DEF Init, TypeOK
<1>4. CoversEquation
  <2>1. \A i \in Idx(fn) : RegsOf(used[i]) = Registers
    BY NameFacts DEF Init, RegsOf
  <2>2. QED
    BY <2>1 DEF CoversEquation, RegsOf
<1>5. QED
  BY <1>2, <1>3, <1>4 DEF RInv

\* One call of analyze_instruction keeps the invariant and only removes registers.
LEMMA AnalyzeStep ==
  ASSUME RInv, AnalyzeInstruction
  PROVE  RInv' /\ \A i \in Idx(fn) : RegsOf(used'[i]) \subseteq RegsOf(used[i])
<1> USE DEF RInv, SetsClosed
<1>1. /\ fn \in Functions /\ fn' = fn /\ tool' = tool /\ idx \in Idx(fn)
      /\ used \in [Idx(fn) -> SUBSET Names]
      /\ used' = [used EXCEPT ![idx] = Transfer(used, idx)]
  BY DEF AnalyzeInstruction, Running, TypeOK
<1>2. Closed(Transfer(used, idx))
  BY <1>1, TransferFull
<1>3. \A i \in Idx(fn) : Closed(used'[i])
  BY <1>1, <1>2
<1>4. used' \in [Idx(fn) -> SUBSET Names]
  BY <1>1, <1>2 DEF Closed
<1>5. \A i \in Idx(fn) : RegsOf(used'[i]) \subseteq RegsOf(used[i])
  BY <1>1 DEF CoversEquation
<1>6. \A i \in Idx(fn) : RegsOf(Transfer(used', i)) \subseteq RegsOf(used'[i])
  <2>1. TAKE i \in Idx(fn)
  <2>2. RegsOf(Transfer(used', i)) \subseteq RegsOf(Transfer(used, i))
    BY <1>1, <1>3, <1>4, <1>5, TransferMonotone
  <2>3. CASE i = idx
    BY <1>1, <2>2, <2>3
  <2>4. CASE i # idx
    BY <1>1, <2>2, <2>4 DEF CoversEquation
  <2>5. QED
    BY <2>3, <2>4
<1>7. CoversEquation'
  <2>1. \A i \in Idx(fn) : Transfer(used, i)' = Transfer(used', i)
    BY <1>1 DEF Transfer, Uses, Reads, ReadRegs, Preserved, WriteNames, WrittenRegs, Edges, UsedAt
  <2>2. QED
    BY <1>1, <1>6, <2>1 DEF CoversEquation
<1>8. TypeOK'
  <2>1. Len(fn) \in Nat
    BY <1>1, FnFacts
  <2>2. QED
    BY <1>1, <1>4, <2>1 DEF AnalyzeInstruction, TypeOK, Idx
<1>9. SetsClosed'
  BY <1>1, <1>3 DEF Closed
<1>10. QED
  BY <1>5, <1>7, <1>8, <1>9

\* The other steps leave the sets alone.
LEMMA QuietStep ==
  ASSUME RInv, NextPass \/ Finalize \/ UNCHANGED vars
  PROVE  RInv' /\ used' = used
<1> USE DEF RInv
<1>1. used' = used /\ fn' = fn /\ tool' = tool
  BY DEF NextPass, Finalize, vars
<1>2. CoversEquation' /\ SetsClosed'
  <2>1. \A i \in Idx(fn) : Transfer(used, i)' = Transfer(used, i)
    BY <1>1 DEF Transfer, Uses, Reads, ReadRegs, Preserved, WriteNames, WrittenRegs, Edges, UsedAt
  <2>2. CoversEquation'
    BY <1>1, <2>1 DEF CoversEquation
  <2>3. SetsClosed'
    BY <1>1 DEF SetsClosed, Closed
  <2>4. QED
    BY <2>2, <2>3
<1>3. TypeOK'
  <2>1. CASE NextPass
    <3>1. Len(fn) \in Nat \ {0}
      BY FnFacts DEF TypeOK
    <3>2. iter \in 0..MaxIter /\ iter < MaxIter
      BY <2>1 DEF NextPass, TypeOK
    <3>3. iter' \in 0..MaxIter /\ idx' \in 1..(Len(fn) + 1)
      BY <2>1, <3>1, <3>2, IterAssumption DEF NextPass
    <3>4. UNCHANGED <<fn, tool, used, free>> /\ change' \in BOOLEAN
      BY <2>1 DEF NextPass
    <3>5. QED
      BY <3>3, <3>4 DEF TypeOK
  <2>2. CASE Finalize
    BY <2>2 DEF Finalize, TypeOK
  <2>3. CASE UNCHANGED vars
    BY <2>3 DEF vars, TypeOK
  <2>4. QED
    BY <2>1, <2>2, <2>3
<1>4. QED
  BY <1>1, <1>2, <1>3

\* Each step of the analysis keeps its sets closed and above their equations.
LEMMA NextRInv == RInv /\ [Next]_vars => RInv'
BY AnalyzeStep, QuietStep DEF Next

\* The inductive invariant holds of every analysis.
THEOREM Invariant == Spec => []RInv
BY InitRInv, NextRInv, PTL DEF Spec

\* Type correctness of the analysis.
THEOREM TypeCorrect == Spec => []TypeOK
<1>1. RInv => TypeOK
  BY DEF RInv
<1>2. QED
  BY <1>1, Invariant, PTL

\* At every moment, and so also when the 8192 passes run out, each set covers
\* what its equation asks for: the result errs only towards "used".
THEOREM AlwaysCovers == Spec => []CoversEquation
<1>1. RInv => CoversEquation
  BY DEF RInv
<1>2. QED
  BY <1>1, Invariant, PTL

\* No step of the analysis adds a register to a set.
THEOREM Descends == Spec => OnlyShrinks
<1>1. RInv /\ [Next]_vars =>
        [\A i \in Idx(fn) : RegsOf(used'[i]) \subseteq RegsOf(used[i])]_vars
  BY AnalyzeStep, QuietStep DEF Next
<1>2. QED
  BY <1>1, Invariant, PTL DEF Spec, OnlyShrinks
-----------------------------------------------------------------------------
(***************************************************************************)
(* Exactness.  The invariant above says a set is never too small for its   *)
(* equation, which a too optimistic solution satisfies as well: what rules *)
(* that out is that the registers an instruction frees were freed in an    *)
(* order, each after the ones it depends on (NoFreeLoop).                  *)
(***************************************************************************)
\* The instructions before which r is not used.
Decided(r) == {i \in Idx(fn) : Full(r) \notin used[i]}

\* No set of such instructions keeps r alive by going round in itself.
NoFreeLoop ==
  \A r \in Registers : \A T \in SUBSET Decided(r) :
    T # {} => \E i \in T : Overwrites(i, r) \/ Edges(i) \cap T = {}

\* A pass that has changed nothing met only sets that satisfy their equations.
SettledSoFar == ~change => \A i \in Idx(fn) : i < idx => used[i] = Transfer(used, i)

\* What finalize stores.
FreeIsRest == Done => free = [i \in Idx(fn) |-> Pool \ used[i]]

FInv == NoFreeLoop /\ SettledSoFar /\ FreeIsRest

\* An instruction has a successor in the function or one of four outside it.
LEMMA EdgesKnown ==
  ASSUME fn \in Functions, NEW i \in Idx(fn), NEW s \in Edges(i)
  PROVE  s \in Idx(fn) \/ s \in {RetEdge, CallEdge, Undef, Len(fn) + 1}
<1>1. fn[i].kind \in Kinds /\ Len(fn) \in Nat /\ i \in 1..Len(fn)
  BY FnFacts DEF Instruction, Idx
<1>2. i + 1 \in Idx(fn) \/ i + 1 = Len(fn) + 1
  BY <1>1 DEF Idx
<1>3. s \in {i + 1, RetEdge, CallEdge, NaturalNext(fn, i), TakenNext(fn, i)}
  BY <1>1 DEF Edges, Nexts, KernelNexts, Kinds
<1>4. NaturalNext(fn, i) \in {i + 1, Undef} /\ TakenNext(fn, i) \in Idx(fn) \cup {Undef}
  BY DEF NaturalNext, TakenNext
<1>5. QED
  BY <1>2, <1>3, <1>4

\* An instruction uses r by its equation when it reads a part of it ...
LEMMA ReadsWhat ==
  ASSUME fn \in Functions, NEW i \in Idx(fn), NEW r \in Registers
  PROVE  Full(r) \in Reads(i) <=> ReadsPart(i, r)
BY DEF Reads, ReadRegs, Preserved, ReadsPart, Full

\* ... and overwriting r without reading it ends the use of r.
LEMMA OverwritesWhat ==
  ASSUME fn \in Functions, NEW i \in Idx(fn), NEW r \in Registers,
         Full(r) \notin Reads(i)
  PROVE  Full(r) \in WriteNames(i) <=> Overwrites(i, r)
<1>1. Full(r) \in WriteNames(i) => Overwrites(i, r)
  BY WrittenWholly DEF Overwrites
<1>2. ASSUME Overwrites(i, r) PROVE Full(r) \in WriteNames(i)
  <2>1. PICK n \in fn[i].writes : n[1] = r /\ n[2] \in {"64", "32"}
    BY <1>2 DEF Overwrites
  <2>2. n \in Names
    BY FnFacts DEF Instruction
  <2>3. Full(r) \in WrittenRegs(i)
    BY <2>1 DEF WrittenRegs
  <2>4. n = Full(r) \/ Full(r) \in ClosureOf(n)
    BY <2>1, <2>2, WidthAssumption, NameFacts DEF Full, ClosureOf, Below
  <2>5. Full(r) \in Closure(fn[i].writes)
    BY <2>1, <2>4 DEF Closure
  <2>6. QED
    BY <2>3, <2>5 DEF WriteNames
<1>3. QED
  BY <1>1, <1>2

\* What uses r outside the function uses it by the equation, and nothing else does.
LEMMA LeavesWhat ==
  ASSUME fn \in Functions, NEW u, NEW r \in Registers, NEW i \in Idx(fn)
  PROVE  LeavesUsing(i, r) <=> \E s \in Edges(i) \ Idx(fn) : Full(r) \in UsedAt(u, s)
<1>1. Idx(fn) \subseteq Nat /\ Len(fn) + 1 \in Nat /\ Len(fn) + 1 \notin Idx(fn)
  BY FnFacts DEF Idx
<1>2. /\ RetEdge \notin Nat /\ CallEdge \notin Nat /\ Undef \notin Nat
      /\ RetEdge # CallEdge /\ Undef # RetEdge /\ Undef # CallEdge
  BY SuccessorAssumption
<1>3. /\ UsedAt(u, RetEdge) = {Full(x) : x \in RetUses}
      /\ UsedAt(u, CallEdge) = {Full(x) : x \in CallUses}
      /\ UsedAt(u, Undef) = Pool
      /\ UsedAt(u, Len(fn) + 1) = Pool
  BY <1>1, <1>2 DEF UsedAt
<1>4. \A S : Full(r) \in {Full(x) : x \in S} <=> r \in S
  BY DEF Full
<1>5. \A s \in Edges(i) \ Idx(fn) : s \in {RetEdge, CallEdge, Undef, Len(fn) + 1}
  BY EdgesKnown
<1>6. QED
  BY <1>1, <1>2, <1>3, <1>4, <1>5, NameFacts DEF LeavesUsing

\* A register that is not used before j is not read there, and is overwritten
\* there or not used by any successor either.
LEMMA DecidedStep ==
  ASSUME RInv, NEW r \in Registers, NEW j \in Decided(r)
  PROVE  /\ ~ReadsPart(j, r)
         /\ ~Overwrites(j, r) => ~LeavesUsing(j, r) /\ Edges(j) \cap Idx(fn) \subseteq Decided(r)
<1>1. /\ fn \in Functions /\ used \in [Idx(fn) -> SUBSET Names]
      /\ \A i \in Idx(fn) : Closed(used[i])
      /\ j \in Idx(fn) /\ Full(r) \notin used[j]
  BY DEF RInv, TypeOK, SetsClosed, Decided
<1>2. Full(r) \notin Transfer(used, j)
  BY <1>1 DEF RInv, CoversEquation, RegsOf
<1>3. Full(r) \notin Reads(j)
  BY <1>1, <1>2, TransferFull
<1>4. ASSUME ~Overwrites(j, r)
      PROVE  ~LeavesUsing(j, r) /\ Edges(j) \cap Idx(fn) \subseteq Decided(r)
  <2>1. \A s \in Edges(j) : Full(r) \notin UsedAt(used, s)
    BY <1>1, <1>2, <1>3, <1>4, TransferFull, OverwritesWhat
  <2>2. QED
    BY <1>1, <2>1, LeavesWhat DEF Decided, UsedAt
<1>5. QED
  BY <1>1, <1>3, <1>4, ReadsWhat

\* The order in which registers are freed survives a step of the analysis: what
\* it frees depends on what was free already.
LEMMA NoFreeLoopStep ==
  ASSUME RInv, NoFreeLoop, AnalyzeInstruction
  PROVE  NoFreeLoop'
<1>1. /\ fn \in Functions /\ fn' = fn /\ tool' = tool /\ idx \in Idx(fn)
      /\ used \in [Idx(fn) -> SUBSET Names] /\ \A i \in Idx(fn) : Closed(used[i])
      /\ used' = [used EXCEPT ![idx] = Transfer(used, idx)]
  BY DEF RInv, SetsClosed, AnalyzeInstruction, Running, TypeOK
<1>2. \A i, r : Overwrites(i, r)' = Overwrites(i, r) /\ Edges(i)' = Edges(i)
  BY <1>1 DEF Overwrites, Edges
<1>3. SUFFICES ASSUME NEW r \in Registers, NEW T \in SUBSET Decided(r)', T # {}
               PROVE  \E i \in T : Overwrites(i, r) \/ Edges(i) \cap T = {}
  BY <1>2 DEF NoFreeLoop
<1> DEFINE Old == T \cap Decided(r)
<1>4. \A i \in T : i \in Idx(fn) /\ (i \in Old \/ i = idx)
  BY <1>1 DEF Decided
<1>5. CASE Old # {}
  <2>1. PICK i \in Old : Overwrites(i, r) \/ Edges(i) \cap Old = {}
    BY <1>5 DEF NoFreeLoop
  <2>2. ~Overwrites(i, r) => Edges(i) \cap T \subseteq Old
    BY <1>4, DecidedStep
  <2>3. QED
    BY <2>1, <2>2
<1>6. CASE Old = {}
  <2>1. T = {idx} /\ idx \notin Decided(r) /\ Full(r) \notin Transfer(used, idx)
    BY <1>1, <1>3, <1>4, <1>6 DEF Decided
  <2>2. ASSUME ~Overwrites(idx, r), idx \in Edges(idx)
        PROVE  FALSE
    <3>1. Full(r) \notin Reads(idx) /\ Full(r) \notin WriteNames(idx)
      BY <1>1, <2>1, <2>2, TransferFull, OverwritesWhat
    <3>2. Full(r) \in used[idx] /\ used[idx] = UsedAt(used, idx)
      BY <1>1, <2>1 DEF Decided, UsedAt
    <3>3. QED
      BY <1>1, <2>1, <2>2, <3>1, <3>2, TransferFull
  <2>3. QED
    BY <2>1, <2>2
<1>7. QED
  BY <1>5, <1>6

\* The equations depend on the function, the tool and the sets only.
LEMMA TransferUnchanged ==
  ASSUME fn' = fn, tool' = tool, used' = used
  PROVE  \A i : Transfer(used, i)' = Transfer(used, i)
BY DEF Transfer, Uses, Reads, ReadRegs, Preserved, WriteNames, WrittenRegs, Edges, UsedAt

LEMMA InitFInv == Init => FInv
<1> SUFFICES ASSUME Init PROVE FInv
  OBVIOUS
<1>1. \A r \in Registers : Decided(r) = {}
  BY NameFacts DEF Init, Decided
<1>2. NoFreeLoop
  BY <1>1 DEF NoFreeLoop
<1>3. SettledSoFar
  BY DEF Init, SettledSoFar, Idx
<1>4. FreeIsRest
  BY DEF Init, FreeIsRest, Done
<1>5. QED
  BY <1>2, <1>3, <1>4 DEF FInv

LEMMA NextFInv == RInv /\ FInv /\ [Next]_vars => FInv'
<1> SUFFICES ASSUME RInv, FInv, [Next]_vars PROVE FInv'
  OBVIOUS
<1> USE DEF FInv
<1>1. CASE AnalyzeInstruction
  <2>1. /\ fn' = fn /\ tool' = tool /\ free' = free /\ free = <<>> /\ ~change
        /\ idx \in Idx(fn) /\ idx' = idx + 1
        /\ used \in [Idx(fn) -> SUBSET Names]
        /\ used' = [used EXCEPT ![idx] = Transfer(used, idx)]
        /\ change' = (Transfer(used, idx) # used[idx])
    BY <1>1 DEF AnalyzeInstruction, Running, RInv, TypeOK
  <2>2. ~change' => used' = used
    BY <2>1
  <2>3. used' = used => \A i : Transfer(used, i)' = Transfer(used, i)
    BY <2>1, TransferUnchanged
  <2>4. \A i \in Idx(fn) : i < idx' => i < idx \/ i = idx
    BY <2>1 DEF Idx
  <2>5. SettledSoFar'
    BY <2>1, <2>2, <2>3, <2>4 DEF SettledSoFar
  <2>6. QED
    BY <1>1, <2>1, <2>5, NoFreeLoopStep DEF FreeIsRest, Done
<1>2. CASE NextPass \/ Finalize \/ UNCHANGED vars
  <2>1. used' = used /\ fn' = fn /\ tool' = tool
    BY <1>2 DEF NextPass, Finalize, vars
  <2>2. \A i : Transfer(used, i)' = Transfer(used, i)
    BY <2>1, TransferUnchanged
  <2>3. NoFreeLoop'
    <3>1. \A i, r : Overwrites(i, r)' = Overwrites(i, r) /\ Edges(i)' = Edges(i)
      BY <2>1 DEF Overwrites, Edges
    <3>2. \A r : Decided(r)' = Decided(r)
      BY <2>1 DEF Decided
    <3>3. QED
      BY <3>1, <3>2 DEF NoFreeLoop
  <2>4. SettledSoFar'
    <3>1. CASE NextPass
      BY <3>1 DEF NextPass, SettledSoFar, Idx
    <3>2. CASE Finalize \/ UNCHANGED vars
      BY <2>1, <2>2, <3>2 DEF Finalize, vars, SettledSoFar
    <3>3. QED
      BY <1>2, <3>1, <3>2
  <2>5. FreeIsRest'
    BY <1>2, <2>1 DEF NextPass, Finalize, vars, FreeIsRest, Done
  <2>6. QED
    BY <2>3, <2>4, <2>5
<1>3. QED
  BY <1>1, <1>2 DEF Next

-----------------------------------------------------------------------------
\* The reference's walks.  Reached is a recursive function: its equation, by
\* induction on the length of the walk.
LEMMA ReachedEquation ==
  ASSUME fn \in Functions, NEW i, NEW r
  PROVE  \A k \in 0..Len(fn) :
           Reached(i, r)[k] = IF k = 0 THEN {i} ELSE Onward(Reached(i, r)[k - 1], r)
<1> DEFINE Eq(f, n) == f = [k \in 0..n |-> IF k = 0 THEN {i} ELSE Onward(f[k - 1], r)]
           S == {n \in Nat : \E f : Eq(f, n)}
<1>1. 0 \in S
  <2> DEFINE f == [k \in 0..0 |-> {i}]
  <2>1. Eq(f, 0)
    OBVIOUS
  <2>2. QED
    BY <2>1
<1>2. ASSUME NEW n \in S PROVE n + 1 \in S
  <2>1. n \in Nat
    OBVIOUS
  <2>2. PICK f : Eq(f, n)
    OBVIOUS
  <2> DEFINE g == [k \in 0..(n + 1) |-> IF k = 0 THEN {i} ELSE Onward(f[k - 1], r)]
  <2>3. \A k \in 0..n : f[k] = g[k]
    <3> DEFINE h == [k \in 0..n |-> IF k = 0 THEN {i} ELSE Onward(f[k - 1], r)]
    <3>1. f = h
      BY <2>2
    <3>2. \A k \in 0..n : h[k] = g[k]
      BY <2>1
    <3> HIDE DEF h, g
    <3>3. QED
      BY <3>1, <3>2
  <2>4. \A k \in 0..(n + 1) : k # 0 => k - 1 \in 0..n
    BY <2>1
  <2>5. \A k \in 0..(n + 1) : g[k] = IF k = 0 THEN {i} ELSE Onward(g[k - 1], r)
    BY <2>3, <2>4
  <2>6. Eq(g, n + 1)
    <3>1. g = [k \in 0..(n + 1) |-> g[k]]
      OBVIOUS
    <3> HIDE DEF g
    <3>2. [k \in 0..(n + 1) |-> g[k]]
            = [k \in 0..(n + 1) |-> IF k = 0 THEN {i} ELSE Onward(g[k - 1], r)]
      BY <2>5
    <3>3. QED
      BY <3>1, <3>2
  <2>7. \E h : Eq(h, n + 1)
    <3> HIDE DEF g, Eq
    <3>1. QED
      BY <2>6
  <2>8. QED
    <3> HIDE DEF Eq
    <3>1. QED
      BY <2>1, <2>7
<1>3. S = Nat
  <2> HIDE DEF S
  <2>1. S \subseteq Nat
    BY DEF S
  <2>2. QED
    BY <1>1, <1>2, <2>1, Induction
<1>4. Len(fn) \in S
  BY <1>3, FnFacts
<1>5. \E f : Eq(f, Len(fn))
  BY <1>4
<1>6. Eq(Reached(i, r), Len(fn))
  BY <1>5 DEF Reached
<1>7. QED
  <2> DEFINE R == Reached(i, r)
  <2> HIDE DEF R
  <2>1. R = [k \in 0..Len(fn) |-> IF k = 0 THEN {i} ELSE Onward(R[k - 1], r)]
    BY <1>6 DEF R
  <2>2. \A k \in 0..Len(fn) : R[k] = IF k = 0 THEN {i} ELSE Onward(R[k - 1], r)
    BY <2>1
  <2>3. QED
    BY <2>2 DEF R

\* The same as two facts, one per length.
LEMMA ReachedSteps ==
  ASSUME fn \in Functions, NEW i, NEW r
  PROVE  /\ Reached(i, r)[0] = {i}
         /\ \A n \in Nat : n + 1 <= Len(fn) =>
              Reached(i, r)[n + 1] = Onward(Reached(i, r)[n], r)
<1> DEFINE R == Reached(i, r)
<1> HIDE DEF R
<1>1. Len(fn) \in Nat
  BY FnFacts
<1>2. \A k \in 0..Len(fn) : R[k] = IF k = 0 THEN {i} ELSE Onward(R[k - 1], r)
  BY ReachedEquation DEF R
<1>3. R[0] = {i}
  BY <1>1, <1>2
<1>4. ASSUME NEW n \in Nat, n + 1 <= Len(fn) PROVE R[n + 1] = Onward(R[n], r)
  <2>1. n + 1 \in 0..Len(fn) /\ n + 1 # 0 /\ (n + 1) - 1 = n
    BY <1>1, <1>4
  <2>2. QED
    BY <1>2, <2>1
<1>5. QED
  BY <1>3, <1>4 DEF R

\* A walk that keeps r and starts where r is not used never meets a use of it.
LEMMA WalkStaysDecided ==
  ASSUME RInv, NEW r \in Registers, NEW i \in Decided(r)
  PROVE  \A k \in 0..Len(fn) : Reached(i, r)[k] \subseteq Decided(r)
<1>1. fn \in Functions /\ Len(fn) \in Nat
  BY FnFacts DEF RInv, TypeOK
<1> DEFINE S == {n \in Nat : n <= Len(fn) => Reached(i, r)[n] \subseteq Decided(r)}
<1>2. 0 \in S
  BY <1>1, ReachedSteps
<1>3. ASSUME NEW n \in S PROVE n + 1 \in S
  <2>1. n \in Nat /\ n + 1 \in Nat
    OBVIOUS
  <2>2. SUFFICES ASSUME n + 1 <= Len(fn)
                 PROVE  Reached(i, r)[n + 1] \subseteq Decided(r)
    BY <2>1
  <2>3. Reached(i, r)[n] \subseteq Decided(r)
    BY <1>1, <2>1, <2>2
  <2>4. Onward(Reached(i, r)[n], r) \subseteq Decided(r)
    BY <2>3, DecidedStep DEF Onward
  <2>5. QED
    BY <1>1, <2>1, <2>2, <2>4, ReachedSteps
<1>4. S = Nat
  <2> HIDE DEF S
  <2>1. S \subseteq Nat
    BY DEF S
  <2>2. QED
    BY <1>2, <1>3, <2>1, Induction
<1>5. QED
  BY <1>1, <1>4

\* Each place such a walk reaches is reached by an explicit one.
Walks(i, r, n) ==
  {w \in [0..n -> Decided(r)] :
     w[0] = i /\ \A m \in 0..(n - 1) : ~Overwrites(w[m], r) /\ w[m + 1] \in Edges(w[m])}

LEMMA WalkReaches ==
  ASSUME RInv, NEW r \in Registers, NEW i \in Decided(r)
  PROVE  \A k \in 0..Len(fn) : \A j \in Reached(i, r)[k] : \E w \in Walks(i, r, k) : w[k] = j
<1>1. fn \in Functions /\ Len(fn) \in Nat
  BY FnFacts DEF RInv, TypeOK
<1> DEFINE S == {n \in Nat : n <= Len(fn) =>
                   \A j \in Reached(i, r)[n] : \E w \in Walks(i, r, n) : w[n] = j}
<1>2. 0 \in S
  <2> DEFINE w == [m \in 0..0 |-> i]
  <2>1. w \in Walks(i, r, 0) /\ w[0] = i
    BY DEF Walks
  <2> HIDE DEF w
  <2>2. Reached(i, r)[0] = {i}
    BY <1>1, ReachedSteps
  <2>3. \A j \in Reached(i, r)[0] : \E x \in Walks(i, r, 0) : x[0] = j
    BY <2>1, <2>2
  <2>4. QED
    BY <2>3
<1>3. ASSUME NEW n \in S PROVE n + 1 \in S
  <2>1. n \in Nat /\ n + 1 \in Nat
    OBVIOUS
  <2>2. SUFFICES ASSUME n + 1 <= Len(fn), NEW j \in Reached(i, r)[n + 1]
                 PROVE  \E w \in Walks(i, r, n + 1) : w[n + 1] = j
    BY <2>1
  <2>3. Reached(i, r)[n + 1] = Onward(Reached(i, r)[n], r)
    BY <1>1, <2>1, <2>2, ReachedSteps
  <2>4. PICK x \in Reached(i, r)[n] : ~Overwrites(x, r) /\ j \in Edges(x) \cap Idx(fn)
    BY <2>3 DEF Onward
  <2>5. n <= Len(fn)
    BY <1>1, <2>1, <2>2
  <2>6. PICK w \in Walks(i, r, n) : w[n] = x
    BY <2>4, <2>5
  <2>7. j \in Decided(r)
    <3>1. n + 1 \in 0..Len(fn)
      BY <1>1, <2>1, <2>2
    <3>2. QED
      BY <2>2, <3>1, WalkStaysDecided
  <2> DEFINE v == [m \in 0..(n + 1) |-> IF m = n + 1 THEN j ELSE w[m]]
  <2>8. w \in [0..n -> Decided(r)] /\ w[0] = i
        /\ \A m \in 0..(n - 1) : ~Overwrites(w[m], r) /\ w[m + 1] \in Edges(w[m])
    BY <2>6 DEF Walks
  <2>9. v \in [0..(n + 1) -> Decided(r)] /\ v[n + 1] = j
    BY <2>1, <2>7, <2>8
  <2>10. \A m \in 0..n : v[m] = w[m]
    BY <2>1, <2>8
  <2>11. v[0] = i
    BY <2>1, <2>8
  <2>12. ASSUME NEW m \in 0..((n + 1) - 1)
         PROVE  ~Overwrites(v[m], r) /\ v[m + 1] \in Edges(v[m])
    <3> HIDE DEF v
    <3>1. CASE m = n
      BY <2>1, <2>4, <2>6, <2>9, <2>10, <3>1
    <3>2. CASE m # n
      <4>1. m \in 0..(n - 1) /\ m \in 0..n /\ m + 1 \in 0..n
        BY <2>1, <3>2
      <4>2. QED
        BY <2>8, <2>10, <4>1
    <3>3. QED
      BY <3>1, <3>2
  <2>13. v \in Walks(i, r, n + 1)
    <3> HIDE DEF v
    <3>1. QED
      BY <2>9, <2>11, <2>12 DEF Walks
  <2> HIDE DEF v
  <2>14. QED
    BY <2>9, <2>13
<1>4. S = Nat
  <2> HIDE DEF S
  <2>1. S \subseteq Nat
    BY DEF S
  <2>2. QED
    BY <1>2, <1>3, <2>1, Induction
<1>5. QED
  BY <1>1, <1>4

\* A walk as long as the function would come by some place twice, and the loop
\* between would keep r alive among places that freed it: there is none.
LEMMA NoLongWalk ==
  ASSUME RInv, NoFreeLoop, NEW r \in Registers, NEW i \in Decided(r)
  PROVE  Reached(i, r)[Len(fn)] = {}
<1>1. fn \in Functions /\ Len(fn) \in Nat
  BY FnFacts DEF RInv, TypeOK
<1> DEFINE n == Len(fn)
<1>2. SUFFICES ASSUME NEW j \in Reached(i, r)[n] PROVE FALSE
  OBVIOUS
<1>3. PICK w \in Walks(i, r, n) : w[n] = j
  BY <1>1, <1>2, WalkReaches
<1>4. /\ w \in [0..n -> Decided(r)]
      /\ \A m \in 0..(n - 1) : ~Overwrites(w[m], r) /\ w[m + 1] \in Edges(w[m])
  BY <1>3 DEF Walks
<1>5. \E x, y \in 0..n : x # y /\ w[x] = w[y]
  <2>1. IsFiniteSet(0..n) /\ IsFiniteSet(1..n) /\ Cardinality(1..n) < Cardinality(0..n)
    <3>1. IsFiniteSet(0..n) /\ Cardinality(0..n) = n + 1
      BY <1>1, FS_Interval
    <3>2. IsFiniteSet(1..n) /\ Cardinality(1..n) = n
      <4>1. n \in Nat /\ (1 <= n => n - 1 + 1 = n) /\ (~(1 <= n) => n = 0)
        BY <1>1
      <4> HIDE DEF n
      <4> QED
        BY <4>1, FS_Interval
    <3>3. n < n + 1
      BY <1>1
    <3>4. QED
      BY <3>1, <3>2, <3>3, Zenon
  <2>2. w \in [0..n -> 1..n]
    BY <1>4 DEF Decided, Idx
  <2> HIDE DEF n
  <2>3. QED
    BY <2>1, <2>2, FS_PigeonHole
<1>6. PICK x \in 0..n, y \in 0..n : x < y /\ w[x] = w[y]
  <2>1. PICK x \in 0..n, y \in 0..n : x # y /\ w[x] = w[y]
    BY <1>5
  <2>2. x < y \/ y < x
    BY <1>1, <2>1
  <2>3. QED
    BY <2>1, <2>2
<1> DEFINE T == {w[m] : m \in x..(y - 1)}
<1>7. \A m \in x..(y - 1) : m \in 0..(n - 1) /\ m \in 0..n /\ (m + 1 \in x..(y - 1) \/ m + 1 = y)
  BY <1>1, <1>6
<1>8. x \in x..(y - 1)
  BY <1>1, <1>6
<1>9. T \in SUBSET Decided(r) /\ T # {}
  BY <1>4, <1>7, <1>8
<1>10. PICK e \in T : Overwrites(e, r) \/ Edges(e) \cap T = {}
  <2> HIDE DEF T
  <2>1. QED
    BY <1>9 DEF NoFreeLoop
<1>11. PICK m \in x..(y - 1) : e = w[m]
  BY <1>10
<1>12. ~Overwrites(e, r) /\ w[m + 1] \in Edges(e)
  BY <1>4, <1>7, <1>11
<1>13. w[m + 1] \in T
  BY <1>6, <1>7, <1>8, <1>11
<1>14. QED
  BY <1>10, <1>12, <1>13

\* What the analysis frees, no walk wants.
LEMMA FreeIsUnwanted ==
  ASSUME RInv, NoFreeLoop, NEW r \in Registers, NEW i \in Decided(r)
  PROVE  ~Wanted(i, r)
<1>1. fn \in Functions /\ Len(fn) \in Nat
  BY FnFacts DEF RInv, TypeOK
<1> DEFINE R == Reached(i, r)
<1>2. SUFFICES ASSUME NEW k \in 0..Len(fn), NEW j \in R[k],
                      \/ ReadsPart(j, r)
                      \/ ~Overwrites(j, r) /\ (LeavesUsing(j, r) \/ k = Len(fn))
               PROVE  FALSE
  BY DEF Wanted
<1>3. j \in Decided(r)
  BY WalkStaysDecided
<1>4. k # Len(fn)
  BY NoLongWalk
<1>5. QED
  BY <1>2, <1>3, <1>4, DecidedStep

\* At a fixpoint, a register no walk wants is used nowhere: a use is read here or
\* handed on by a successor, and following it on is such a walk.
LEMMA UnwantedIsFree ==
  ASSUME RInv, \A x \in Idx(fn) : used[x] = Transfer(used, x),
         NEW r \in Registers, NEW i \in Idx(fn), ~Wanted(i, r)
  PROVE  i \in Decided(r)
<1>1. /\ fn \in Functions /\ Len(fn) \in Nat
      /\ used \in [Idx(fn) -> SUBSET Names] /\ \A x \in Idx(fn) : Closed(used[x])
  BY FnFacts DEF RInv, TypeOK, SetsClosed
<1> DEFINE R == Reached(i, r)
           S == {n \in Nat : n <= Len(fn) => \E j \in R[n] : j \in Idx(fn) /\ Full(r) \in used[j]}
<1>2. SUFFICES ASSUME Full(r) \in used[i] PROVE FALSE
  BY DEF Decided
<1>3. \A k \in 0..Len(fn) : \A j \in R[k] :
        ~ReadsPart(j, r) /\ (~Overwrites(j, r) => ~LeavesUsing(j, r) /\ k # Len(fn))
  BY DEF Wanted
<1> HIDE DEF R
<1>4. ASSUME NEW k \in 0..Len(fn), NEW j \in R[k], j \in Idx(fn), Full(r) \in used[j]
      PROVE  ~Overwrites(j, r) /\ \E s \in Edges(j) \cap Idx(fn) : Full(r) \in used[s]
  <2>1. Full(r) \notin Reads(j)
    BY <1>1, <1>3, <1>4, ReadsWhat
  <2>2. PICK s \in Edges(j) : Full(r) \in UsedAt(used, s) \ WriteNames(j)
    <3>1. Full(r) \in Transfer(used, j)
      BY <1>4
    <3>2. QED
      BY <1>1, <1>4, <2>1, <3>1, TransferFull
  <2>3. ~Overwrites(j, r)
    BY <1>1, <1>4, <2>1, <2>2, OverwritesWhat
  <2>4. s \in Idx(fn)
    BY <1>1, <1>3, <1>4, <2>2, <2>3, LeavesWhat
  <2>5. QED
    BY <2>2, <2>3, <2>4 DEF UsedAt
<1>5. 0 \in S
  <2>1. R[0] = {i}
    BY <1>1, ReachedSteps DEF R
  <2>2. QED
    BY <1>2, <2>1
<1>6. ASSUME NEW n \in S PROVE n + 1 \in S
  <2>1. n \in Nat /\ n + 1 \in Nat
    OBVIOUS
  <2>2. SUFFICES ASSUME n + 1 <= Len(fn)
                 PROVE  \E j \in R[n + 1] : j \in Idx(fn) /\ Full(r) \in used[j]
    BY <2>1
  <2>3. n \in 0..Len(fn) /\ n <= Len(fn)
    BY <1>1, <2>1, <2>2
  <2>4. PICK j \in R[n] : j \in Idx(fn) /\ Full(r) \in used[j]
    BY <2>3
  <2>5. R[n + 1] = Onward(R[n], r)
    BY <1>1, <2>1, <2>2, ReachedSteps DEF R
  <2>6. PICK s \in Edges(j) \cap Idx(fn) : ~Overwrites(j, r) /\ Full(r) \in used[s]
    BY <1>4, <2>3, <2>4
  <2>7. s \in R[n + 1]
    BY <2>4, <2>5, <2>6 DEF Onward
  <2>8. QED
    BY <2>6, <2>7
<1>7. S = Nat
  <2> HIDE DEF S
  <2>1. S \subseteq Nat
    BY DEF S
  <2>2. QED
    BY <1>5, <1>6, <2>1, Induction
<1>8. \E j \in R[Len(fn)] : j \in Idx(fn) /\ Full(r) \in used[j]
  BY <1>1, <1>7
<1>9. Len(fn) \in 0..Len(fn)
  BY <1>1
<1>10. QED
  BY <1>3, <1>4, <1>8, <1>9

LEMMA ExactNow == RInv /\ FInv => FreeIsExact
<1> SUFFICES ASSUME RInv, FInv, Done, NEW i \in Idx(fn), NEW r \in Registers
             PROVE  /\ Full(r) \in free[i] => ~Wanted(i, r)
                    /\ FixpointReached /\ ~Wanted(i, r) => Full(r) \in free[i]
  BY DEF FreeIsExact
<1>1. Full(r) \in free[i] <=> i \in Decided(r)
  BY NameFacts DEF FInv, FreeIsRest, Decided
<1>2. Full(r) \in free[i] => ~Wanted(i, r)
  BY <1>1, FreeIsUnwanted DEF FInv
<1>3. ASSUME FixpointReached, ~Wanted(i, r) PROVE Full(r) \in free[i]
  <2>1. \A x \in Idx(fn) : x < idx
    BY <1>3, FnFacts DEF FixpointReached, Idx, RInv, TypeOK
  <2>2. \A x \in Idx(fn) : used[x] = Transfer(used, x)
    BY <1>3, <2>1 DEF FInv, SettledSoFar, FixpointReached
  <2>3. QED
    BY <1>1, <1>3, <2>2, UnwantedIsFree
<1>4. QED
  BY <1>2, <1>3

\* An analysis that reached its fixpoint frees exactly the registers that no walk
\* of the control-flow graph wants; one cut short by MaxIter frees none that a
\* walk wants. For both tools and functions of every length.
THEOREM Exact == Spec => []FreeIsExact
BY Invariant, InitFInv, NextFInv, ExactNow, PTL DEF Spec

-----------------------------------------------------------------------------
(***************************************************************************)
(* How many passes there can be: each pass that changes something marks an *)
(* element of Changes that was not marked before, and none is unmarked.    *)
(***************************************************************************)
\* The set of names the equations make of a set of registers.
NamesOf(R) == IF tool = "main.go" THEN {Full(r) : r \in R} ELSE {n \in Names : n[1] \in R}

\* A set is the pool it started as, or the names of its registers.
SetsShaped == \A i \in Idx(fn) : used[i] = Pool \/ used[i] = NamesOf(RegsOf(used[i]))

\* The changes made so far.
Made(u) == {c \in Changes : IF c[2] \in Registers THEN Full(c[2]) \notin u[c[1]]
                            ELSE u[c[1]] # Pool}
PassesCounted == iter + (IF change THEN 1 ELSE 0) <= Cardinality(Made(used))

BInv == SetsShaped /\ PassesCounted

LEMMA ChangesFinite ==
  ASSUME fn \in Functions
  PROVE  /\ IsFiniteSet(Changes) /\ Cardinality(Changes) \in Nat
         /\ \A S \in SUBSET Changes : IsFiniteSet(S) /\ Cardinality(S) \in Nat
<1>1. IsFiniteSet(Idx(fn))
  BY FnFacts, FS_Interval DEF Idx
<1>2. IsFiniteSet(Registers \cup {"sub-register names"})
  BY PoolAssumption, FS_AddElement
<1>3. IsFiniteSet(Changes)
  BY <1>1, <1>2, FS_Product DEF Changes
<1>4. QED
  BY <1>3, FS_Subset, FS_CardinalityType

\* A set an equation yields is determined by its registers.
LEMMA TransferShaped ==
  ASSUME RInv, NEW i \in Idx(fn)
  PROVE  Transfer(used, i) = NamesOf(RegsOf(Transfer(used, i)))
<1>1. /\ fn \in Functions /\ used \in [Idx(fn) -> SUBSET Names]
      /\ \A x \in Idx(fn) : Closed(used[x])
  BY DEF RInv, TypeOK, SetsClosed
<1>2. Closed(Transfer(used, i))
  BY <1>1, TransferFull
<1>3. CASE tool = "main.go"
  BY <1>2, <1>3, NameFacts DEF Closed, NamesOf, RegsOf, Pool
<1>4. CASE tool # "main.go"
  <2> DEFINE U == Uses(used, i)
  <2>1. Transfer(used, i) = Closure(U)
    BY <1>4 DEF Transfer
  <2>2. U \in SUBSET Names
    BY <1>1, UsedAtClosed, FnFacts, NameFacts DEF Uses, Closed
  <2>3. \A n \in Closure(U) : n \in Names /\ n[1] \in RegsOf(Closure(U))
    BY <1>2, <2>1, NameFacts DEF Closed, RegsOf
  <2>4. ASSUME NEW n \in Names, n[1] \in RegsOf(Closure(U)) PROVE n \in Closure(U)
    BY <2>2, <2>4, WholeWrite DEF RegsOf
  <2> HIDE DEF U
  <2>5. QED
    BY <1>4, <2>1, <2>3, <2>4 DEF NamesOf
<1>5. QED
  BY <1>3, <1>4

LEMMA InitBInv == Init => BInv
<1> SUFFICES ASSUME Init PROVE BInv
  OBVIOUS
<1>1. fn \in Functions /\ Made(used) \in SUBSET Changes
  BY DEF Init, Made
<1>2. Cardinality(Made(used)) \in Nat
  BY <1>1, ChangesFinite
<1>3. QED
  BY <1>2 DEF Init, BInv, SetsShaped, PassesCounted

\* Analysing an instruction unmarks no change, and marks one when its set changes.
LEMMA MadeGrows ==
  ASSUME RInv, SetsShaped, AnalyzeInstruction
  PROVE  /\ SetsShaped'
         /\ Made(used) \subseteq Made(used')
         /\ change' => Made(used) # Made(used')
<1> DEFINE New == Transfer(used, idx)
           Old == used[idx]
<1>1. /\ fn \in Functions /\ fn' = fn /\ tool' = tool /\ idx \in Idx(fn)
      /\ used \in [Idx(fn) -> SUBSET Names] /\ \A x \in Idx(fn) : Closed(used[x])
      /\ used' = [used EXCEPT ![idx] = New]
      /\ change' = (New # Old)
  BY DEF RInv, SetsClosed, AnalyzeInstruction, Running, TypeOK
<1>2. used' \in [Idx(fn) -> SUBSET Names] /\ used'[idx] = New
      /\ \A x \in Idx(fn) : x # idx => used'[x] = used[x]
  BY <1>1, TransferFull DEF Closed
<1>3. New = NamesOf(RegsOf(New)) /\ RegsOf(New) \subseteq RegsOf(Old)
  BY <1>1, TransferShaped DEF RInv, CoversEquation
<1>4. Old = Pool \/ Old = NamesOf(RegsOf(Old))
  BY <1>1 DEF SetsShaped
<1> HIDE DEF New, Old
<1>5. SetsShaped'
  <2>1. \A R : NamesOf(R)' = NamesOf(R')
    BY <1>1 DEF NamesOf
  <2>2. QED
    BY <1>1, <1>2, <1>3 DEF SetsShaped, NamesOf
<1>6. RegsOf(Pool) = Registers
  BY NameFacts DEF RegsOf
<1>7. Old # Pool => New # Pool
  <2>1. ASSUME Old # Pool, New = Pool PROVE FALSE
    <3>1. RegsOf(Old) = Registers
      BY <1>3, <1>6, <2>1 DEF RegsOf
    <3>2. QED
      BY <1>3, <1>4, <1>6, <2>1, <3>1
  <2>2. QED
    BY <2>1
<1>8. Made(used) \subseteq Made(used')
  <2>1. SUFFICES ASSUME NEW c \in Made(used) PROVE c \in Made(used')
    OBVIOUS
  <2>2. c \in Changes /\ c[1] \in Idx(fn)
    BY DEF Made, Changes
  <2>3. CASE c[1] # idx
    BY <1>2, <2>2, <2>3 DEF Made
  <2>4. CASE c[1] = idx
    BY <1>2, <1>3, <1>7, <2>2, <2>4 DEF Made, RegsOf, Old
  <2>5. QED
    BY <2>3, <2>4
<1>9. ASSUME New # Old PROVE Made(used) # Made(used')
  <2>1. CASE Old = Pool
    <3> DEFINE c == <<idx, "sub-register names">>
    <3>1. c \in Changes /\ c[1] = idx /\ c[2] \notin Registers
      BY <1>1, PoolAssumption DEF Changes
    <3> HIDE DEF c
    <3>2. c \in Made(used') /\ c \notin Made(used)
      BY <1>2, <1>9, <2>1, <3>1 DEF Made, Old
    <3>3. QED
      BY <3>2
  <2>2. CASE Old # Pool
    <3>1. RegsOf(New) # RegsOf(Old)
      BY <1>3, <1>4, <1>9, <2>2
    <3>2. PICK r \in RegsOf(Old) : r \notin RegsOf(New)
      BY <1>3, <3>1
    <3> DEFINE c == <<idx, r>>
    <3>3. c \in Changes /\ c[1] = idx /\ c[2] = r /\ r \in Registers
      BY <1>1, <3>2 DEF Changes, RegsOf
    <3> HIDE DEF c
    <3>4. c \in Made(used') /\ c \notin Made(used)
      BY <1>2, <3>2, <3>3 DEF Made, Old, RegsOf
    <3>5. QED
      BY <3>4
  <2>3. QED
    BY <2>1, <2>2
<1>10. QED
  BY <1>1, <1>5, <1>8, <1>9

LEMMA NextBInv == RInv /\ BInv /\ [Next]_vars => BInv'
<1> SUFFICES ASSUME RInv, BInv, [Next]_vars PROVE BInv'
  OBVIOUS
<1> USE DEF BInv
<1>1. fn \in Functions /\ iter \in Nat /\ change \in BOOLEAN
  BY IterAssumption DEF RInv, TypeOK
<1>2. CASE AnalyzeInstruction
  <2>1. iter' = iter /\ ~change /\ fn' = fn /\ change' \in BOOLEAN
    BY <1>2 DEF AnalyzeInstruction
  <2>2. /\ SetsShaped' /\ Made(used) \subseteq Made(used')
        /\ change' => Made(used) # Made(used')
    BY <1>2, MadeGrows
  <2>3. Made(used)' = Made(used') /\ Made(used') \in SUBSET Changes
    BY <2>1 DEF Made, Changes
  <2>4. /\ IsFiniteSet(Made(used'))
        /\ Cardinality(Made(used')) \in Nat /\ Cardinality(Made(used)) \in Nat
    BY <1>1, <2>2, <2>3, ChangesFinite
  <2>5. /\ Cardinality(Made(used)) <= Cardinality(Made(used'))
        /\ Cardinality(Made(used)) = Cardinality(Made(used')) => Made(used) = Made(used')
    BY <2>2, <2>4, FS_Subset
  <2>6. iter <= Cardinality(Made(used))
    BY <1>1, <2>1 DEF PassesCounted
  <2> DEFINE before == Cardinality(Made(used))
             after  == Cardinality(Made(used'))
  <2>7. before \in Nat /\ after \in Nat /\ iter <= before /\ before <= after
        /\ (change' => before # after)
    BY <2>2, <2>4, <2>5, <2>6
  <2> HIDE DEF before, after
  <2>8. iter' + (IF change' THEN 1 ELSE 0) <= after
    BY <1>1, <2>1, <2>7
  <2>9. PassesCounted'
    BY <2>3, <2>8 DEF PassesCounted, after
  <2>10. QED
    BY <2>2, <2>9
<1>3. CASE NextPass \/ Finalize \/ UNCHANGED vars
  <2>1. used' = used /\ fn' = fn /\ tool' = tool
    BY <1>3 DEF NextPass, Finalize, vars
  <2>2. SetsShaped' /\ Made(used)' = Made(used)
    BY <2>1 DEF SetsShaped, NamesOf, Made, Changes
  <2>3. iter' + (IF change' THEN 1 ELSE 0) = iter + (IF change THEN 1 ELSE 0)
    <3>1. CASE NextPass
      BY <1>1, <3>1 DEF NextPass
    <3>2. CASE Finalize \/ UNCHANGED vars
      BY <3>2 DEF Finalize, vars
    <3>3. QED
      BY <1>3, <3>1, <3>2
  <2>4. QED
    BY <2>2, <2>3 DEF PassesCounted
<1>4. QED
  BY <1>2, <1>3 DEF Next

LEMMA BoundNow == RInv /\ BInv => ChangeBound
<1> SUFFICES ASSUME RInv, BInv PROVE ChangeBound
  OBVIOUS
<1>1. fn \in Functions /\ iter \in Nat /\ Made(used) \in SUBSET Changes
  BY IterAssumption DEF RInv, TypeOK, Made
<1>2. Cardinality(Made(used)) <= Cardinality(Changes) /\ Cardinality(Made(used)) \in Nat
      /\ Cardinality(Changes) \in Nat
  BY <1>1, ChangesFinite, FS_Subset
<1>3. iter <= Cardinality(Made(used))
  BY <1>1, <1>2 DEF BInv, PassesCounted
<1>4. QED
  BY <1>1, <1>2, <1>3 DEF ChangeBound

\* However long the function, the analysis needs no more passes than there are
\* changes to make: one per instruction and register, and one per instruction.
THEOREM BoundedPasses == Spec => []ChangeBound
BY Invariant, InitBInv, NextBInv, BoundNow, PTL DEF Spec

\* An analysis ends at its fixpoint or because the passes ran out.
EndsForAReason == Done => FixpointReached \/ GaveUp

LEMMA EndsStep == EndsForAReason /\ [Next]_vars => EndsForAReason'
<1> SUFFICES ASSUME EndsForAReason, [Next]_vars PROVE EndsForAReason'
  OBVIOUS
<1>1. CASE AnalyzeInstruction \/ NextPass
  BY <1>1 DEF AnalyzeInstruction, Running, NextPass, EndsForAReason, Done
<1>2. CASE Finalize
  BY <1>2 DEF Finalize, EndsForAReason, FixpointReached, GaveUp
<1>3. CASE UNCHANGED vars
  BY <1>3 DEF vars, EndsForAReason, Done, FixpointReached, GaveUp
<1>4. QED
  BY <1>1, <1>2, <1>3 DEF Next

\* A function the cap of 8192 passes leaves room for is never cut short: when its
\* analysis ends, it ends at the fixpoint, where its result is exact.
THEOREM RoomEnough ==
  Spec => [](Done /\ Cardinality(Changes) < MaxIter => FixpointReached)
<1>1. Init => EndsForAReason
  BY DEF Init, EndsForAReason, Done
<1>2. TypeOK /\ ChangeBound /\ EndsForAReason =>
        (Done /\ Cardinality(Changes) < MaxIter => FixpointReached)
  <2> SUFFICES ASSUME TypeOK, ChangeBound, EndsForAReason, Done,
                      Cardinality(Changes) < MaxIter
               PROVE  ~GaveUp
    BY DEF EndsForAReason
  <2>1. Cardinality(Changes) \in Nat /\ MaxIter \in Nat
    BY ChangesFinite, IterAssumption DEF TypeOK
  <2>2. QED
    BY <2>1 DEF ChangeBound, GaveUp
<1>3. QED
  BY <1>1, <1>2, EndsStep, TypeCorrect, BoundedPasses, PTL DEF Spec
-----------------------------------------------------------------------------
(***************************************************************************)
(* Clobber: a function runs with instrumentation that overwrites free      *)
(* registers, and never reads what it wrote.                               *)
(***************************************************************************)

\* A function that is not running has nothing tainted.
CleanOutside == pc = 0 => tainted = {}

\* The inductive invariant: the one of the analysis, and that whatever
\* instrumentation destroyed is free at the point control has reached.
CInv == RInv /\ CTypeOK /\ RunsOnResult /\ TaintIsFree /\ CleanOutside

-----------------------------------------------------------------------------
\* What stands for control outside the function is none of its indices.
LEMMA NoIndex ==
  ASSUME fn \in Functions
  PROVE  0 \notin Idx(fn) /\ 0 \notin {RetEdge, CallEdge, Undef} /\ RetEdge \notin Idx(fn)
         /\ CallEdge \notin Idx(fn) /\ RetEdge # CallEdge /\ RetEdge # Undef /\ CallEdge # Undef
<1>1. 0 \notin Idx(fn) /\ Idx(fn) \subseteq Nat
  BY FnFacts DEF Idx
<1>2. {RetEdge, CallEdge, Undef} \cap Nat = {} /\ 0 \in Nat
  BY SuccessorAssumption
<1>3. QED
  BY <1>1, <1>2, SuccessorAssumption

\* The three successors outside the function, and one past its end.
LEMMA UsedOutside ==
  ASSUME fn \in Functions
  PROVE  /\ UsedAt(used, RetEdge) = {Full(r) : r \in RetUses}
         /\ UsedAt(used, CallEdge) = {Full(r) : r \in CallUses}
         /\ UsedAt(used, Undef) = Pool
         /\ UsedAt(used, Len(fn) + 1) = Pool
<1>1. Len(fn) \in Nat
  BY FnFacts
<1>2. /\ RetEdge \notin Idx(fn) /\ CallEdge \notin Idx(fn) /\ Undef \notin Idx(fn)
      /\ Len(fn) + 1 \notin Idx(fn)
      /\ Len(fn) + 1 # RetEdge /\ Len(fn) + 1 # CallEdge
  <2>1. Idx(fn) \subseteq Nat /\ Len(fn) + 1 \in Nat /\ Len(fn) + 1 \notin Idx(fn)
    BY <1>1 DEF Idx
  <2>2. RetEdge \notin Nat /\ CallEdge \notin Nat /\ Undef \notin Nat
    BY SuccessorAssumption
  <2>3. QED
    BY <2>1, <2>2
<1>3. QED
  BY <1>2, SuccessorAssumption DEF UsedAt

\* A register that is free before an instruction is not read by it, and is
\* either overwritten entirely or free along every edge out of it.
LEMMA FreeBefore ==
  ASSUME CInv, pc \in Idx(fn), NEW r \in Registers, Full(r) \in free[pc]
  PROVE  /\ \A n \in fn[pc].reads : n[1] # r
         /\ \/ \A p \in Parts : <<r, p>> \in PartsOfAll(fn[pc].writes)
            \/ \A s \in Edges(pc) : Full(r) \notin UsedAt(used, s)
<1>1. fn \in Functions /\ used \in [Idx(fn) -> SUBSET Names]
      /\ \A i \in Idx(fn) : Closed(used[i])
  BY DEF CInv, RInv, SetsClosed, TypeOK
<1>2. pc # 0
  BY <1>1, FnFacts DEF Idx
<1>3. Full(r) \notin used[pc]
  BY <1>2 DEF CInv, RunsOnResult
<1>4. Full(r) \notin Transfer(used, pc)
  BY <1>3 DEF CInv, RInv, CoversEquation, RegsOf
<1>5. Full(r) \notin Reads(pc)
      /\ \A s \in Edges(pc) : Full(r) \notin UsedAt(used, s) \ WriteNames(pc)
  BY <1>1, <1>4, TransferFull
<1>6. \A n \in fn[pc].reads : n[1] # r
  BY <1>5 DEF Reads, ReadRegs
<1>7. CASE Full(r) \in WriteNames(pc)
  <2>1. PICK n \in fn[pc].writes : n[1] = r /\ n[2] \in {"64", "32"}
    BY <1>1, <1>7, WrittenWholly
  <2>2. PartsOf(n) = {r} \X Parts
    BY <2>1 DEF PartsOf
  <2>3. QED
    BY <1>6, <2>1, <2>2 DEF PartsOfAll
<1>8. CASE Full(r) \notin WriteNames(pc)
  BY <1>5, <1>6, <1>8
<1>9. QED
  BY <1>7, <1>8

\* A register unused by every recovered successor is free wherever the
\* processor really goes.
LEMMA FreeAfter ==
  ASSUME CInv, pc \in Idx(fn), NEW r \in Registers,
         \A s \in Edges(pc) : Full(r) \notin UsedAt(used, s),
         NEW n \in RealNext(pc)
  PROVE  /\ n # Undef
         /\ n \in Idx(fn) => Full(r) \in free[n]
         /\ n = RetEdge => r \notin RetUses
         /\ fn[pc].kind = "call" => r \notin CallUses
<1>1. /\ fn \in Functions /\ fn[pc] \in Instruction
      /\ Len(fn) \in Nat \ {0} /\ pc \in 1..Len(fn)
  BY FnFacts DEF CInv, RInv, TypeOK, Idx
<1>2. /\ free = [i \in Idx(fn) |-> Pool \ used[i]]
      /\ Full(r) \in Pool
  BY <1>1, NameFacts DEF CInv, RunsOnResult
<1>3. Undef \notin Edges(pc) /\ Len(fn) + 1 \notin Edges(pc)
  BY <1>1, <1>2, UsedOutside
<1>4. RetEdge \in Edges(pc) => r \notin RetUses
  BY <1>1, UsedOutside
<1>5. CallEdge \in Edges(pc) => r \notin CallUses
  BY <1>1, UsedOutside
<1>6. \A s \in Idx(fn) : s \in Edges(pc) => Full(r) \in free[s]
  BY <1>2 DEF UsedAt
<1>7. /\ pc + 1 \in Idx(fn) <=> pc < Len(fn)
      /\ ~(pc < Len(fn)) => pc + 1 = Len(fn) + 1
      /\ RetEdge \notin Idx(fn) /\ RetEdge # Undef /\ Indirect \notin Idx(fn)
  BY <1>1, SuccessorAssumption DEF Idx
<1>8. n \in Edges(pc) \ {Undef} /\ (fn[pc].kind = "call" => CallEdge \in Edges(pc))
  <2>1. CASE fn[pc].kind = "plain"
    BY <2>1, <1>3, <1>7 DEF Edges, Nexts, KernelNexts, RealNext, OrOut
  <2>2. CASE fn[pc].kind = "ret"
    BY <2>2, <1>7 DEF Edges, Nexts, KernelNexts, RealNext
  <2>3. CASE fn[pc].kind = "jcc"
    BY <2>3, <1>3, <1>7 DEF Edges, Nexts, KernelNexts, RealNext, OrOut, NaturalNext, TakenNext
  <2>4. CASE fn[pc].kind = "jmp"
    BY <2>4, <1>3, <1>7 DEF Edges, Nexts, KernelNexts, RealNext, OrOut, TakenNext
  <2>5. CASE fn[pc].kind = "call"
    BY <2>5, <1>3, <1>7 DEF Edges, Nexts, KernelNexts, RealNext, OrOut, NaturalNext
  <2>6. QED
    BY <1>1, <2>1, <2>2, <2>3, <2>4, <2>5 DEF Instruction, Kinds
<1>9. QED
  BY <1>4, <1>5, <1>6, <1>8

-----------------------------------------------------------------------------
\* Before the analysis has run nothing is tainted.
LEMMA InitCInv == CInit => CInv
<1> SUFFICES ASSUME CInit PROVE CInv
  OBVIOUS
<1>1. RInv
  BY InitRInv DEF CInit
<1>2. CTypeOK
  BY <1>1 DEF CInit, CTypeOK, RInv
<1>3. RunsOnResult
  BY SuccessorAssumption DEF CInit, Init, RunsOnResult, Done
<1>4. TaintIsFree
  BY DEF CInit, TaintIsFree
<1>5. CleanOutside
  BY DEF CInit, CleanOutside
<1>6. QED
  BY <1>1, <1>2, <1>3, <1>4, <1>5 DEF CInv

\* The analysis steps run while the function does not.
LEMMA AnalyseStep == ASSUME CInv, Analyse PROVE CInv'
<1>1. free = <<>> /\ pc = 0 /\ UNCHANGED <<pc, resume, tainted, fn, tool>>
  BY DEF CInv, RunsOnResult, Done, Analyse, Next, AnalyzeInstruction, Running, NextPass, Finalize
<1>2. RInv'
  BY NextRInv DEF CInv, Analyse
<1>3. CTypeOK'
  BY <1>1, <1>2 DEF CInv, CTypeOK, RInv
<1>4. RunsOnResult'
  <2>1. CASE Finalize
    BY <1>1, <2>1, SuccessorAssumption DEF Finalize, RunsOnResult
  <2>2. CASE ~Finalize
    BY <1>1, <2>2, SuccessorAssumption
      DEF Analyse, Next, AnalyzeInstruction, NextPass, RunsOnResult, Done
  <2>3. QED
    BY <2>1, <2>2
<1>5. TaintIsFree'
  <2>1. 0 \notin Idx(fn) /\ 0 \notin {RetEdge, CallEdge, Undef}
    BY NoIndex DEF CInv, RInv, TypeOK
  <2>2. QED
    BY <1>1, <2>1 DEF TaintIsFree
<1>6. CleanOutside'
  BY <1>1 DEF CInv, CleanOutside
<1>7. QED
  BY <1>2, <1>3, <1>4, <1>5, <1>6 DEF CInv

\* The variables of the analysis do not change while the function runs.
LEMMA Frozen ==
  ASSUME CInv, UNCHANGED vars
  PROVE  RInv' /\ TypeOK' /\ UNCHANGED <<fn, tool, used, free>> /\ Idx(fn)' = Idx(fn)
BY NextRInv DEF CInv, RInv, vars

\* Entering the function starts with no tainted register.
LEMMA EnterStep == ASSUME CInv, Enter PROVE CInv'
<1>1. pc' = 1 /\ UNCHANGED <<resume, tainted>> /\ Done /\ 1 \in Idx(fn)
  BY FnFacts DEF Enter, Idx, CInv, RInv, TypeOK
<1>2. RInv' /\ TypeOK' /\ UNCHANGED <<fn, tool, used, free>> /\ Idx(fn)' = Idx(fn)
  BY Frozen DEF Enter
<1>3. CTypeOK'
  BY <1>1, <1>2 DEF CInv, CTypeOK
<1>4. RunsOnResult'
  BY <1>1, <1>2, SuccessorAssumption DEF CInv, RunsOnResult, Done
<1>5. tainted = {}
  BY DEF Enter, CInv, CleanOutside
<1>6. TaintIsFree'
  BY <1>1, <1>5 DEF TaintIsFree
<1>7. CleanOutside'
  BY <1>1, <1>5 DEF CleanOutside
<1>8. QED
  BY <1>2, <1>3, <1>4, <1>6, <1>7 DEF CInv

\* Instrumentation only taints a register that is free where control stands.
LEMMA ClobberStep == ASSUME CInv, ClobberFree PROVE CInv'
<1>1. PICK r \in RegsOf(free[pc]) : tainted' = tainted \cup AllParts({r})
  BY DEF ClobberFree
<1>2. pc \in Idx(fn) /\ UNCHANGED <<pc, resume>> /\ r \in Registers /\ Full(r) \in free[pc]
  BY <1>1 DEF ClobberFree, RegsOf
<1>3. RInv' /\ TypeOK' /\ UNCHANGED <<fn, tool, used, free>> /\ Idx(fn)' = Idx(fn)
  BY Frozen DEF ClobberFree
<1>4. CTypeOK'
  BY <1>1, <1>2, <1>3 DEF CInv, CTypeOK, AllParts
<1>5. RunsOnResult'
  BY <1>2, <1>3 DEF CInv, RunsOnResult, Done
<1>6. pc \notin {0, RetEdge, CallEdge, Undef}
  BY <1>2, FnFacts, SuccessorAssumption DEF Idx, CInv, RInv, TypeOK
<1>7. TaintIsFree'
  BY <1>1, <1>2, <1>3, <1>6 DEF CInv, TaintIsFree, AllParts
<1>8. CleanOutside'
  BY <1>2, <1>6 DEF CleanOutside
<1>9. QED
  BY <1>3, <1>4, <1>5, <1>7, <1>8 DEF CInv

\* An instruction leaves tainted only what is free at its successor: a register
\* that was free before it and that it did not overwrite is free along every edge.
LEMMA ExecuteStep == ASSUME CInv, Execute PROVE CInv'
<1>1. pc \in Idx(fn) /\ tainted' = tainted \ PartsOfAll(fn[pc].writes)
  BY DEF Execute
<1>2. PICK n \in RealNext(pc) :
        IF fn[pc].kind = "call" THEN pc' = CallEdge /\ resume' = n
                                ELSE pc' = n /\ UNCHANGED resume
  BY DEF Execute
<1>3. RInv' /\ TypeOK' /\ UNCHANGED <<fn, tool, used, free>> /\ Idx(fn)' = Idx(fn)
  BY Frozen DEF Execute
<1>4. /\ n \in Idx(fn) \cup {RetEdge, Undef} /\ n # 0
      /\ fn[pc].kind = "call" => n # RetEdge
  <2>1. fn[pc] \in Instruction /\ 0 \notin Idx(fn) /\ RetEdge \notin Idx(fn)
        /\ 0 # RetEdge /\ 0 # Undef /\ RetEdge # Undef
    <3>1. fn \in Functions
      BY DEF CInv, RInv, TypeOK
    <3>2. fn[pc] \in Instruction /\ 0 \notin Idx(fn) /\ Idx(fn) \subseteq Nat
      BY <1>1, <3>1, FnFacts DEF Idx
    <3>3. RetEdge \notin Nat /\ Undef \notin Nat /\ RetEdge # Undef
      BY SuccessorAssumption
    <3>4. QED
      BY <3>2, <3>3
  <2>2. n \in Idx(fn) \cup {RetEdge, Undef} /\ (fn[pc].kind = "call" => n # RetEdge)
    BY <1>2, <2>1 DEF RealNext, OrOut, Instruction, Kinds
  <2>3. QED
    BY <2>1, <2>2
<1>5. CTypeOK'
  BY <1>1, <1>2, <1>3, <1>4 DEF CInv, CTypeOK
<1>6. pc \notin {0, RetEdge, CallEdge, Undef} /\ 0 \notin Idx(fn)
      /\ {RetEdge, CallEdge, Undef} \cap Idx(fn) = {}
  <2>1. 0 \notin Idx(fn) /\ Idx(fn) \subseteq Nat
    <3>1. Len(fn) \in Nat
      BY FnFacts DEF CInv, RInv, TypeOK
    <3>2. QED
      BY <3>1 DEF Idx
  <2>2. {RetEdge, CallEdge, Undef} \cap Nat = {}
    BY SuccessorAssumption
  <2>3. QED
    BY <1>1, <2>1, <2>2
<1>7. RunsOnResult'
  BY <1>2, <1>3, <1>4, <1>6, SuccessorAssumption DEF CInv, RunsOnResult, Done
<1>8. TaintIsFree'
  <2>1. SUFFICES ASSUME NEW r \in Registers, NEW p \in Parts, <<r, p>> \in tainted'
                 PROVE  /\ pc' \in Idx(fn) => Full(r) \in free[pc']
                        /\ pc' = RetEdge => r \notin RetUses
                        /\ pc' = CallEdge => /\ r \notin CallUses
                                             /\ resume' # Undef
                                             /\ resume' \in Idx(fn) => Full(r) \in free[resume']
                        /\ pc' # Undef
    BY <1>3 DEF TaintIsFree
  <2>2. Full(r) \in free[pc] /\ <<r, p>> \notin PartsOfAll(fn[pc].writes)
    BY <1>1, <2>1 DEF CInv, TaintIsFree
  <2>3. \A s \in Edges(pc) : Full(r) \notin UsedAt(used, s)
    BY <1>1, <2>2, FreeBefore
  <2>4. /\ n # Undef
        /\ n \in Idx(fn) => Full(r) \in free[n]
        /\ n = RetEdge => r \notin RetUses
        /\ fn[pc].kind = "call" => r \notin CallUses
    BY <1>1, <2>3, FreeAfter
  <2>5. QED
    BY <1>2, <1>4, <1>6, <2>4, SuccessorAssumption
<1>9. CleanOutside'
  BY <1>2, <1>4, SuccessorAssumption DEF CleanOutside
<1>10. QED
  BY <1>3, <1>5, <1>7, <1>8, <1>9 DEF CInv

\* A callee hands back control, and what is tainted is free where it returns to.
LEMMA ReturnStep == ASSUME CInv, CalleeReturns \/ Leave PROVE CInv'
<1>1. RInv' /\ TypeOK' /\ UNCHANGED <<fn, tool, used, free>> /\ Idx(fn)' = Idx(fn)
  BY Frozen DEF CalleeReturns, Leave
<1>2. 0 \notin Idx(fn) /\ 0 \notin {RetEdge, CallEdge, Undef} /\ RetEdge \notin Idx(fn)
      /\ CallEdge \notin Idx(fn) /\ RetEdge # CallEdge /\ RetEdge # Undef /\ CallEdge # Undef
  BY NoIndex DEF CInv, RInv, TypeOK
<1>3. CASE CalleeReturns
  <2>1. pc = CallEdge /\ pc' = resume /\ UNCHANGED <<resume, tainted>>
        /\ resume \in {Undef} \cup Idx(fn)
    BY <1>3 DEF CalleeReturns, CInv, CTypeOK, RunsOnResult
  <2>2. CTypeOK' /\ RunsOnResult' /\ CleanOutside'
    BY <1>1, <1>2, <2>1 DEF CInv, CTypeOK, RunsOnResult, Done, CleanOutside
  <2>3. TaintIsFree'
    BY <1>1, <1>2, <2>1 DEF CInv, TaintIsFree
  <2>4. QED
    BY <1>1, <2>2, <2>3 DEF CInv
<1>4. CASE Leave
  <2>1. pc' = 0 /\ tainted' = {} /\ UNCHANGED resume
    BY <1>4 DEF Leave
  <2>2. CTypeOK' /\ RunsOnResult' /\ CleanOutside'
    BY <1>1, <1>2, <2>1 DEF CInv, CTypeOK, RunsOnResult, Done, CleanOutside
  <2>3. TaintIsFree'
    BY <2>1 DEF TaintIsFree
  <2>4. QED
    BY <1>1, <2>2, <2>3 DEF CInv
<1>5. QED
  BY <1>3, <1>4

\* Every step, of the analysis or of the function, preserves the invariant.
LEMMA NextCInv == CInv /\ [CNext]_cvars => CInv'
<1> SUFFICES ASSUME CInv, [CNext]_cvars PROVE CInv'
  OBVIOUS
<1>1. CASE UNCHANGED cvars
  <2>1. RInv' /\ TypeOK' /\ UNCHANGED <<fn, tool, used, free, pc, resume, tainted>> /\ Idx(fn)' = Idx(fn)
    BY <1>1, Frozen DEF cvars, vars
  <2>2. QED
    BY <2>1 DEF CInv, CTypeOK, RunsOnResult, Done, TaintIsFree, CleanOutside
<1>2. QED
  BY <1>1, AnalyseStep, EnterStep, ClobberStep, ExecuteStep, ReturnStep DEF CNext

-----------------------------------------------------------------------------
\* A register that is free where control stands is not read there.
LEMMA CInvSafe == CInv => NoTaintedRead
<1> SUFFICES ASSUME CInv, NEW x \in tainted, x \in ReadNext PROVE FALSE
  BY DEF NoTaintedRead
<1>1. PICK r \in Registers, p \in Parts : x = <<r, p>>
  BY DEF CInv, CTypeOK
<1>2. /\ pc \in Idx(fn) => Full(r) \in free[pc]
      /\ pc = RetEdge   => r \notin RetUses
      /\ pc = CallEdge  => r \notin CallUses
      /\ pc # Undef
  BY <1>1 DEF CInv, TaintIsFree
<1>3. CASE pc \in Idx(fn)
  <2>1. \A n \in fn[pc].reads : n[1] # r
    BY <1>2, <1>3, FreeBefore
  <2>2. PICK n \in fn[pc].reads : x \in PartsOf(n)
    BY <1>3 DEF ReadNext, PartsOfAll
  <2>3. x[1] = n[1]
    BY <2>2 DEF PartsOf
  <2>4. QED
    BY <1>1, <2>1, <2>3
<1>4. CASE pc \notin Idx(fn)
  BY <1>1, <1>2, <1>4 DEF ReadNext, AllParts
<1>5. QED
  BY <1>3, <1>4

\* The invariant holds in every reachable state (register.py lines 114-167).
THEOREM ClobberInvariant == CSpec => []CInv
BY InitCInv, NextCInv, PTL DEF CSpec

\* Overwriting the registers the analysis calls free is never seen by the
\* program: no instruction, caller, callee or unknown code reads one of them
\* before the program itself has written all of what it reads.
THEOREM InstrumentationInvisible == CSpec => []NoTaintedRead
BY CInvSafe, ClobberInvariant, PTL

\* The machine's state stays well typed while it runs on the analysis: control
\* is never anywhere but at an instruction or at one of the three ways out.
THEOREM RunTypeCorrect == CSpec => []CTypeOK
<1>1. CInv => CTypeOK
  BY DEF CInv
<1> QED
  BY <1>1, ClobberInvariant, PTL
=============================================================================
