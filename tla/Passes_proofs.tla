--------------------------- MODULE Passes_proofs ----------------------------
(***************************************************************************)
(* Theorems about the instrumentation passes of the x86-64 rewriter: the   *)
(* coverage runtime for every identifier width, every assignment of        *)
(* identifiers and every interleaving of threads; the shadow test of the   *)
(* memory checks for memory of any size; the stack redzones for every      *)
(* program whose compiler protects its stack, at every depth.              *)
(***************************************************************************)
EXTENDS Coverage, AsanCheck, StackRedzone, DataLemmas

-----------------------------------------------------------------------------
(* Coverage.  That nothing is overcounted needs an account: the increments *)
(* made never exceed the entries into the trampoline, and a thread between *)
(* reading and writing a counter holds one of them in hand.                *)

\* A word stays a word under the operations of the trampoline.
LEMMA WordOperations ==
  ASSUME NEW a \in Words, NEW b \in Words
  PROVE  Xor(a, b) \in Words /\ Shift(a) \in Words
BY DEF Words, Xor, Shift

\* xorq with the same identifier twice restores the word.
LEMMA XorTwice == ASSUME NEW a, NEW b PROVE Xor(Xor(a, b), b) = a
BY DEF Xor

\* What every access of the globals and the bitmap rests on.
WordInv ==
  /\ team \subseteq Threads
  /\ prevLoc \in Words
  /\ tmp \in [Threads -> Words]
  /\ block \in [Threads -> Blocks]

\* No step makes anything but a word of a word.
LEMMA NextWordInv == WordInv /\ [Next]_vars => WordInv'
<1> SUFFICES ASSUME WordInv, [Next]_vars PROVE WordInv'
  OBVIOUS
<1> USE IdAssumption
<1>1. CASE UNCHANGED vars
  BY <1>1 DEF vars, WordInv, Words, Bits, Blocks
<1>2. CASE MapBitmap
  BY <1>2 DEF MapBitmap, WordInv, Words, Bits, Blocks
<1>3. ASSUME NEW t \in Threads, NEW b \in Blocks, EnterBlock(t, b) PROVE WordInv'
  BY <1>3 DEF EnterBlock, WordInv, Words, Bits, Blocks
<1>4. ASSUME NEW t \in Threads, Trampoline(t) PROVE WordInv'
  <2>1. Id[block[t]] \in Words
    BY DEF WordInv
  <2>2. Xor(prevLoc, Id[block[t]]) \in Words /\ Shift(Id[block[t]]) \in Words
    BY <2>1, WordOperations DEF WordInv
  <2>3. CASE LoadPtr(t) \/ IncRead(t) \/ Fault(t) \/ IncWrite(t)
    BY <2>3 DEF LoadPtr, IncRead, Fault, IncWrite, WordInv, Words, Bits, Blocks
  <2>4. CASE XorRead(t) \/ XorWrite(t)
    BY <2>2, <2>4 DEF XorRead, XorWrite, WordInv, Words, Bits, Blocks
  <2>5. CASE Load(t) \/ Store(t)
    BY <2>2, <2>5 DEF Load, Store, WordInv, Words, Bits, Blocks
  <2> QED
    BY <1>4, <2>3, <2>4, <2>5 DEF Trampoline
<1> QED
  BY <1>1, <1>2, <1>3, <1>4 DEF Next, WordInv

\* The counter a thread increments is inside the bitmap, with any number of
\* threads updating __cov_prev_loc without a lock.
THEOREM StaysInBitmap == Spec => []IndexInBounds
<1>1. Init => WordInv
  BY DEF Init, WordInv, Words
<1>2. WordInv => IndexInBounds
  BY DEF WordInv, IndexInBounds
<1> QED
  BY <1>1, <1>2, NextWordInv, PTL DEF Spec
-----------------------------------------------------------------------------
(***************************************************************************)
(* Any number of threads: no count is invented.                            *)
(*                                                                         *)
(* That the counters sum to at most the block entries is not inductive: a  *)
(* thread that writes a stale count can raise a counter by more than one,  *)
(* because another thread's stale write had lowered it.  The invariant     *)
(* speaks of the increments made so far on each counter (made, which no    *)
(* variable holds): a counter, and a count some thread has read of it, is  *)
(* never more than that, and each increment used up one block entry.       *)
(***************************************************************************)

\* A thread that has recorded its block and not yet stored the counter.
Owes(t) == pc[t] \in {"xor_read", "xor_write", "load", "inc_read", "inc_write"}
\* The block entries of each thread whose counter is stored.
Through == [t \in Threads |-> IF Owes(t) THEN Len(path[t]) - 1 ELSE Len(path[t])]

CountTypes ==
  /\ WordInv
  /\ pc \in [Threads -> Labels] /\ count \in [Threads -> Nat]
  /\ area \in [Words -> Nat]
  /\ path \in [Threads -> Seq(Blocks)]
  /\ \A t \in Threads : Owes(t) => Len(path[t]) > 0
Accounts(made) ==
  /\ \A w \in Words : area[w] <= made[w]
  /\ \A t \in Threads : pc[t] = "inc_write" => count[t] <= made[tmp[t]]
  /\ SumFunctionOnSet(made, Words) <= SumFunctionOnSet(Through, Threads)
OInv == CountTypes /\ \E made \in [Words -> Nat] : Accounts(made)

LEMMA WordsFinite == IsFiniteSet(Words)
<1>1. 0 \in Int /\ Width - 1 \in Int
  BY WidthAssumption
<1>2. IsFiniteSet(Bits)
  BY <1>1, FS_Interval DEF Bits
<1> QED
  BY <1>2, FS_SUBSET DEF Words

LEMMA ThroughNat == CountTypes => \A t \in Threads : Through[t] \in Nat
<1> SUFFICES ASSUME CountTypes, NEW t \in Threads PROVE Through[t] \in Nat
  OBVIOUS
<1>1. Len(path[t]) \in Nat /\ (Owes(t) => Len(path[t]) > 0)
  BY DEF CountTypes
<1> QED
  BY <1>1 DEF Through

\* A thread that is not about to store a count moves on: nobody's account changes.
LEMMA AccountStands ==
  ASSUME CountTypes, NEW made \in [Words -> Nat], Accounts(made),
         area' = area, Through' = Through,
         \A u \in Threads : pc'[u] = "inc_write" =>
            \/ pc[u] = "inc_write" /\ count'[u] = count[u] /\ tmp'[u] = tmp[u]
            \/ tmp'[u] \in Words /\ count'[u] = area[tmp'[u]]
  PROVE  Accounts(made)'
<1>1. \A w \in Words : area'[w] <= made[w]
  BY DEF Accounts
<1>2. \A u \in Threads : pc'[u] = "inc_write" => count'[u] <= made[tmp'[u]]
  BY DEF Accounts
<1>3. Words' = Words
  BY DEF Words, Bits
<1> QED
  BY <1>1, <1>2, <1>3 DEF Accounts

\* The thread that stores a count makes one increment.
LEMMA AccountAdds ==
  ASSUME CountTypes, NEW made \in [Words -> Nat], Accounts(made),
         NEW t \in Threads, IncWrite(t), CountTypes'
  PROVE  \E more \in [Words -> Nat] : Accounts(more)'
<1> DEFINE w0 == tmp[t]
<1>1. w0 \in Words /\ pc[t] = "inc_write" /\ count[t] \in Nat /\ count[t] <= made[w0]
  BY DEF CountTypes, WordInv, IncWrite, At, Accounts
<1>2. /\ area' = [area EXCEPT ![w0] = (count[t] + 1) % Counters]
      /\ pc' = [pc EXCEPT ![t] = "store"] /\ UNCHANGED <<tmp, count, path>>
  BY DEF IncWrite, Goto
<1>3. PICK more \in [Words -> Nat] : \A w \in Words : more[w] = IF w = w0 THEN made[w] + 1 ELSE made[w]
  <2> DEFINE m == [w \in Words |-> IF w = w0 THEN made[w] + 1 ELSE made[w]]
  <2>1. m \in [Words -> Nat] /\ \A w \in Words : m[w] = IF w = w0 THEN made[w] + 1 ELSE made[w]
    OBVIOUS
  <2> HIDE DEF m
  <2> QED
    BY <2>1
<1>4. ASSUME NEW w \in Words PROVE area'[w] <= more[w]
  <2>1. (count[t] + 1) % Counters <= count[t] + 1
    BY <1>1, CountersAssumption, SMT
  <2>2. CASE w = w0
    <3>1. area'[w] = (count[t] + 1) % Counters /\ more[w] = made[w0] + 1
      BY <1>2, <1>3, <2>2 DEF CountTypes
    <3>2. (count[t] + 1) % Counters \in Nat
      BY <1>1, CountersAssumption
    <3>3. made[w0] \in Nat
      BY <1>1
    <3> QED
      BY <1>1, <2>1, <3>1, <3>2, <3>3
  <2>3. CASE w # w0
    <3>1. area'[w] = area[w] /\ more[w] = made[w]
      BY <1>2, <1>3, <2>3 DEF CountTypes
    <3> QED
      BY <3>1 DEF Accounts
  <2> QED
    BY <2>2, <2>3
<1>5. ASSUME NEW u \in Threads, pc'[u] = "inc_write" PROVE count'[u] <= more[tmp'[u]]
  <2>1. pc[u] = "inc_write" /\ tmp[u] \in Words /\ count[u] <= made[tmp[u]]
    BY <1>2, <1>5 DEF CountTypes, WordInv, Accounts
  <2>2. made[tmp[u]] \in Nat /\ count[u] \in Nat /\ more[tmp[u]] \in {made[tmp[u]], made[tmp[u]] + 1}
    BY <1>3, <2>1 DEF CountTypes
  <2> QED
    BY <1>2, <2>1, <2>2
<1>6. SumFunctionOnSet(more, Words) = SumFunctionOnSet(made, Words) + 1
  <2>1. \A w \in Words : /\ made[w] \in Nat /\ more[w] \in Nat
                         /\ w # w0 => made[w] = more[w]
    BY <1>3
  <2>2. SumFunctionOnSet(more, Words) + made[w0] = SumFunctionOnSet(made, Words) + more[w0]
    BY <1>1, <2>1, WordsFinite, SumUpdate
  <2>3. SumFunctionOnSet(more, Words) \in Nat /\ SumFunctionOnSet(made, Words) \in Nat
    BY <2>1, WordsFinite, SumNat
  <2>4. more[w0] = made[w0] + 1 /\ made[w0] \in Nat
    BY <1>1, <1>3
  <2> QED
    BY <2>2, <2>3, <2>4
<1>7. SumFunctionOnSet(Through', Threads) = SumFunctionOnSet(Through, Threads) + 1
  <2>0. Through' = [Through EXCEPT ![t] = @ + 1]
    <3>1. /\ pc[t] = "inc_write" /\ pc'[t] = "store" /\ path' = path
          /\ \A u \in Threads : u # t => pc'[u] = pc[u]
      BY <1>1, <1>2 DEF CountTypes
    <3>2. Len(path[t]) \in Nat
      BY DEF CountTypes
    <3>3. \A u \in Threads : Through[u] = IF Owes(u) THEN Len(path[u]) - 1 ELSE Len(path[u])
      BY DEF Through
    <3>4. Owes(t) /\ ~Owes(t)' /\ \A u \in Threads : u # t => (Owes(u)' <=> Owes(u))
      BY <3>1 DEF Owes
    <3>5. Through' = [u \in Threads |-> IF Owes(u)' THEN Len(path[u]) - 1 ELSE Len(path[u])]
      BY <3>1 DEF Through
    <3>6. Len(path[t]) = (Len(path[t]) - 1) + 1
      BY <3>2
    <3>7. Through' = [u \in Threads |-> IF u = t THEN Through[u] + 1 ELSE Through[u]]
      <4>1. ASSUME NEW u \in Threads
            PROVE  (IF Owes(u)' THEN Len(path[u]) - 1 ELSE Len(path[u]))
                     = (IF u = t THEN Through[u] + 1 ELSE Through[u])
        BY <3>3, <3>4, <3>6
      <4> QED
        BY <3>5, <4>1
    <3> QED
      BY <3>7 DEF Through
  <2>1. \A u \in Threads : /\ Through[u] \in Nat /\ Through'[u] \in Nat
                           /\ u # t => Through[u] = Through'[u]
    <3>1. \A u \in Threads : Through[u] \in Nat
      BY ThroughNat
    <3> QED
      BY <2>0, <3>1
  <2>2. Through'[t] = Through[t] + 1
    BY <2>0 DEF Through
  <2>3. SumFunctionOnSet(Through', Threads) + Through[t] = SumFunctionOnSet(Through, Threads) + Through'[t]
    BY <2>1, ThreadsAssumption, SumUpdate
  <2>4. SumFunctionOnSet(Through', Threads) \in Nat /\ SumFunctionOnSet(Through, Threads) \in Nat
    BY <2>1, ThreadsAssumption, SumNat
  <2> QED
    BY <2>1, <2>2, <2>3, <2>4
<1>8. SumFunctionOnSet(made, Words) <= SumFunctionOnSet(Through, Threads)
  BY DEF Accounts
<1>9. SumFunctionOnSet(made, Words) \in Nat /\ SumFunctionOnSet(Through, Threads) \in Nat
  <2>1. SumFunctionOnSet(made, Words) \in Nat
    BY WordsFinite, SumNat
  <2>2. SumFunctionOnSet(Through, Threads) \in Nat
    BY ThreadsAssumption, ThroughNat, SumNat
  <2> QED
    BY <2>1, <2>2
<1>10. SumFunctionOnSet(more, Words) <= SumFunctionOnSet(Through', Threads)
  BY <1>6, <1>7, <1>8, <1>9
<1>11. Accounts(more)'
  BY <1>4, <1>5, <1>10 DEF Accounts, Words, Bits
<1> QED
  BY <1>3, <1>11 DEF Words, Bits

LEMMA InitOInv == Init => OInv
<1> SUFFICES ASSUME Init PROVE OInv
  OBVIOUS
<1>1. CountTypes
  BY DEF Init, CountTypes, WordInv, Words, Labels, Owes
<1> DEFINE made == [w \in Words |-> 0]
<1>2. SumFunctionOnSet(made, Words) <= SumFunctionOnSet(Through, Threads)
  <2>1. \A w \in Words : made[w] \in Nat /\ made[w] <= made[w]
    OBVIOUS
  <2>2. SumFunctionOnSet(Through, Threads) \in Nat
    BY <1>1, ThreadsAssumption, ThroughNat, SumNat
  <2>3. SumFunctionOnSet(made, Words) = 0
    BY WordsFinite, SumZero
  <2> QED
    BY <2>2, <2>3
<1>3. Accounts(made)
  BY <1>2 DEF Init, Accounts
<1> QED
  BY <1>1, <1>3 DEF OInv

\* Every step keeps the types, and every step but the store of a counter leaves
\* what each thread is through with.
LEMMA NextCountTypes ==
  ASSUME CountTypes, [Next]_vars
  PROVE  /\ CountTypes'
         /\ (\A t \in Threads : ~IncWrite(t)) => Through' = Through
<1>1. WordInv'
  BY NextWordInv DEF CountTypes
<1>2. \A t \in Threads : Len(path[t]) \in Nat
  BY DEF CountTypes
<1> DEFINE Good == CountTypes' /\ Through' = Through
<1>3. CASE UNCHANGED vars
  BY <1>1, <1>3 DEF vars, CountTypes, Through, Owes, Words, Bits, Blocks
<1>4. CASE MapBitmap
  BY <1>1, <1>4 DEF MapBitmap, CountTypes, Through, Owes, Words, Bits, Blocks
<1>5. ASSUME NEW t \in Threads, NEW b \in Blocks, EnterBlock(t, b) PROVE Good
  BY <1>1, <1>5 DEF EnterBlock, At, Goto, CountTypes, Through, Owes, Labels, Words, Bits, Blocks
<1>6. ASSUME NEW t \in Threads, LoadPtr(t) PROVE Good
  <2>1. block[t] \in Blocks /\ path[t] \in Seq(Blocks)
    BY DEF CountTypes, WordInv
  <2>2. Append(path[t], block[t]) \in Seq(Blocks) /\ Len(Append(path[t], block[t])) = Len(path[t]) + 1
    BY <2>1
  <2>3. CASE areaPtr = "null"
    BY <1>1, <1>6, <2>3 DEF LoadPtr, At, Goto, CountTypes, Through, Owes, Labels, Words, Bits, Blocks
  <2>4. CASE areaPtr # "null"
    <3>1. /\ pc[t] = "load_ptr" /\ pc' = [pc EXCEPT ![t] = "xor_read"]
          /\ path' = [path EXCEPT ![t] = Append(path[t], block[t])]
          /\ UNCHANGED <<area, count>>
      BY <1>6, <2>4 DEF LoadPtr, At, Goto
    <3>2. CountTypes'
      <4>1. pc' \in [Threads -> Labels] /\ count' \in [Threads -> Nat] /\ (area \in [Words -> Nat])'
        BY <3>1 DEF CountTypes, Labels, Words, Bits
      <4>2. path' \in [Threads -> Seq(Blocks)]
        BY <2>2, <3>1 DEF CountTypes
      <4>3. \A u \in Threads : Owes(u)' => Len(path'[u]) > 0
        BY <1>2, <2>2, <3>1 DEF CountTypes, Owes
      <4> QED
        BY <1>1, <4>1, <4>2, <4>3 DEF CountTypes, Blocks
    <3>3. ASSUME NEW u \in Threads PROVE (IF Owes(u)' THEN Len(path'[u]) - 1 ELSE Len(path'[u]))
                                         = (IF Owes(u) THEN Len(path[u]) - 1 ELSE Len(path[u]))
      BY <1>2, <2>2, <3>1 DEF CountTypes, Owes
    <3> QED
      BY <3>2, <3>3 DEF Through
  <2> QED
    BY <2>3, <2>4
<1>7. ASSUME NEW t \in Threads, XorRead(t) \/ XorWrite(t) \/ Load(t) PROVE Good
  BY <1>1, <1>7 DEF XorRead, XorWrite, Load, At, Goto, CountTypes, Through, Owes, Labels, Words, Bits, Blocks
<1>8. ASSUME NEW t \in Threads, IncRead(t) \/ Fault(t) \/ Store(t) PROVE Good
  <2>1. tmp[t] \in Words /\ area[tmp[t]] \in Nat
    BY DEF CountTypes, WordInv
  <2> QED
    BY <1>1, <1>8, <2>1
       DEF IncRead, Fault, Store, At, Goto, CountTypes, Through, Owes, Labels, Words, Bits, Blocks
<1>9. ASSUME NEW t \in Threads, IncWrite(t) PROVE CountTypes'
  <2>1. (count[t] + 1) % Counters \in Nat
    BY CountersAssumption DEF CountTypes
  <2> QED
    BY <1>1, <1>9, <2>1 DEF IncWrite, At, Goto, CountTypes, Owes, Labels, Words, Bits, Blocks
<1>10. team \subseteq Threads
  BY DEF CountTypes, WordInv
<1> QED
  BY <1>3, <1>4, <1>5, <1>6, <1>7, <1>8, <1>9, <1>10 DEF Next, Trampoline

\* No step breaks the account.
LEMMA NextOInv == OInv /\ [Next]_vars => OInv'
<1> SUFFICES ASSUME OInv, [Next]_vars PROVE OInv'
  OBVIOUS
<1>1. CountTypes /\ CountTypes' /\ ((\A t \in Threads : ~IncWrite(t)) => Through' = Through)
  BY NextCountTypes DEF OInv
<1>2. PICK made \in [Words -> Nat] : Accounts(made)
  BY DEF OInv
<1>3. ASSUME NEW t \in Threads, IncWrite(t) PROVE OInv'
  BY <1>1, <1>2, <1>3, AccountAdds DEF OInv
<1>4. CASE \A t \in Threads : ~IncWrite(t)
  <2>1. Accounts(made)'
    <3>1. /\ area' = area
          /\ \A u \in Threads : pc'[u] = "inc_write" =>
               \/ pc[u] = "inc_write" /\ count'[u] = count[u] /\ tmp'[u] = tmp[u]
               \/ tmp'[u] \in Words /\ count'[u] = area[tmp'[u]]
      <4> DEFINE Fine == area' = area /\ \A u \in Threads : pc'[u] = "inc_write" =>
               \/ pc[u] = "inc_write" /\ count'[u] = count[u] /\ tmp'[u] = tmp[u]
               \/ tmp'[u] \in Words /\ count'[u] = area[tmp'[u]]
      <4>1. team \subseteq Threads /\ pc \in [Threads -> Labels] /\ count \in [Threads -> Nat]
            /\ tmp \in [Threads -> Words]
        BY <1>1 DEF CountTypes, WordInv
      <4>2. CASE UNCHANGED vars \/ MapBitmap
        BY <4>2 DEF vars, MapBitmap
      <4>3. ASSUME NEW t \in Threads, NEW b \in Blocks, EnterBlock(t, b) PROVE Fine
        BY <4>1, <4>3 DEF EnterBlock, Goto
      <4>4. ASSUME NEW t \in Threads, LoadPtr(t) \/ XorRead(t) \/ XorWrite(t) \/ Load(t)
                   \/ Fault(t) \/ Store(t) PROVE Fine
        BY <4>1, <4>4 DEF LoadPtr, XorRead, XorWrite, Load, Fault, Store, At, Goto
      <4>5. ASSUME NEW t \in Threads, IncRead(t) PROVE Fine
        BY <4>1, <4>5 DEF IncRead, At, Goto
      <4> QED
        BY <1>4, <4>1, <4>2, <4>3, <4>4, <4>5 DEF Next, Trampoline
    <3> QED
      BY <1>1, <1>2, <1>4, <3>1, AccountStands
  <2> QED
    BY <1>1, <1>2, <2>1 DEF OInv, Words, Bits
<1> QED
  BY <1>3, <1>4

\* With races on the bitmap and on the last block, between any number of
\* threads, the counters never sum to more than the block entries.
THEOREM CountsEarned == Spec => []NothingOvercounted
<1>1. ASSUME OInv PROVE NothingOvercounted
  <2>1. CountTypes
    BY <1>1 DEF OInv
  <2>2. PICK made \in [Words -> Nat] : Accounts(made)
    BY <1>1 DEF OInv
  <2> DEFINE entries == [t \in Threads |-> Len(path[t])]
  <2>3. SumFunctionOnSet(area, Words) <= SumFunctionOnSet(made, Words)
    <3>1. \A w \in Words : area[w] \in Nat /\ made[w] \in Nat /\ area[w] <= made[w]
      BY <2>1, <2>2 DEF CountTypes, Accounts
    <3> QED
      BY <3>1, WordsFinite, SumMonotone
  <2>4. SumFunctionOnSet(Through, Threads) <= SumFunctionOnSet(entries, Threads)
    <3>1. \A t \in Threads : Len(path[t]) \in Nat
      BY <2>1 DEF CountTypes
    <3>2. \A t \in Threads : Through[t] \in Nat /\ entries[t] \in Nat /\ Through[t] <= entries[t]
      BY <2>1, <3>1, ThroughNat DEF Through
    <3> QED
      BY <3>2, ThreadsAssumption, SumMonotone
  <2>5. /\ SumFunctionOnSet(area, Words) \in Nat /\ SumFunctionOnSet(made, Words) \in Nat
    <3>1. \A w \in Words : area[w] \in Nat /\ made[w] \in Nat
      BY <2>1 DEF CountTypes
    <3> QED
      BY <3>1, WordsFinite, SumNat
  <2>6. SumFunctionOnSet(Through, Threads) \in Nat
    BY <2>1, ThroughNat, ThreadsAssumption, SumNat
  <2>7. SumFunctionOnSet(entries, Threads) \in Nat
    <3>1. \A t \in Threads : entries[t] \in Nat
      BY <2>1 DEF CountTypes
    <3> QED
      BY <3>1, ThreadsAssumption, SumNat
  <2>8. SumFunctionOnSet(made, Words) <= SumFunctionOnSet(Through, Threads)
    BY <2>2 DEF Accounts
  <2>9. SumFunction(area) = SumFunctionOnSet(area, Words) /\ SumFunction(entries) = SumFunctionOnSet(entries, Threads)
    <3>1. DOMAIN area = Words /\ DOMAIN entries = Threads
      BY <2>1 DEF CountTypes
    <3> QED
      BY <3>1 DEF SumFunction
  <2> QED
    BY <2>3, <2>4, <2>5, <2>6, <2>7, <2>8, <2>9 DEF NothingOvercounted
<1> QED
  BY <1>1, InitOInv, NextOInv, PTL DEF Spec
-----------------------------------------------------------------------------
(***************************************************************************)
(* One thread: the trampoline implements the edge profile.                 *)
(***************************************************************************)

\* What the registers of the only thread stand for between its instructions.
Matches(m) ==
  /\ WordInv
  /\ pc[m] = "xor_write" => tmp[m] = Xor(prevLoc, Id[block[m]])
  /\ pc[m] \in {"inc_read", "inc_write"} => tmp[m] = prevLoc
  /\ pc[m] = "inc_write" => count[m] = area[tmp[m]]
  /\ pc \in [Threads -> Labels] /\ count \in [Threads -> Nat]
  /\ area \in [Words -> Nat]

\* The last block, in terms of where the only thread is.
LEMMA LastBlockIs ==
  ASSUME NEW m \in Threads, team = {m}
  PROVE  LastBlock = IF pc[m] = "store" THEN Shift(Id[block[m]])
                     ELSE IF pc[m] \in {"load", "inc_read", "inc_write"}
                          THEN Xor(prevLoc, Id[block[m]])
                     ELSE prevLoc
<1>1. (CHOOSE t \in team : TRUE) = m
  OBVIOUS
<1> QED
  BY <1>1 DEF LastBlock, Counted, Hashed, Current

\* The initial states have an empty profile and no last block.
LEMMA InitMatches ==
  ASSUME NEW m \in Threads, team = {m}, Init
  PROVE  Matches(m) /\ LastBlock = {}
<1>1. Matches(m)
  BY DEF Init, Matches, WordInv, Labels, Words
<1>2. LastBlock = {}
  BY LastBlockIs DEF Init
<1> QED
  BY <1>1, <1>2

\* One step of the profile, in terms of the runtime's state.
CountsEdge(b) == /\ area' = [area EXCEPT ![Xor(LastBlock, Id[b])] = (@ + 1) % Counters]
             /\ LastBlock' = Shift(Id[b])

\* The threads of a process stay the ones it has.
LEMMA SameTeam == [Next]_vars => UNCHANGED team
BY DEF Next, vars, MapBitmap, EnterBlock, Trampoline, LoadPtr, XorRead, XorWrite, Load,
       IncRead, Fault, IncWrite, Store

\* Every step of the only thread is one step of the profile or none: the one
\* that stores the counter enters the block.
LEMMA StepRefines ==
  ASSUME NEW m \in Threads, team = {m}, Matches(m), [Next]_vars
  PROVE  /\ Matches(m)'
         /\ UNCHANGED <<area, LastBlock>> \/ \E b \in Blocks : CountsEdge(b)
<1> DEFINE id == Id[block[m]]
<1> DEFINE Stutters == area' = area /\ LastBlock' = LastBlock
<1>1. WordInv'
  BY NextWordInv DEF Matches
<1>2. /\ LastBlock = IF pc[m] = "store" THEN Shift(id)
                    ELSE IF pc[m] \in {"load", "inc_read", "inc_write"}
                         THEN Xor(prevLoc, id) ELSE prevLoc
      /\ LastBlock' = IF pc'[m] = "store" THEN Shift(id')
                     ELSE IF pc'[m] \in {"load", "inc_read", "inc_write"}
                          THEN Xor(prevLoc', id') ELSE prevLoc'
  <2>1. (CHOOSE t \in team : TRUE) = m
    OBVIOUS
  <2>2. team' = team
    BY SameTeam
  <2>3. (CHOOSE t \in team' : TRUE) = m
    BY <2>1, <2>2
  <2> QED
    BY <2>1, <2>2, <2>3 DEF LastBlock, Counted, Hashed, Current
<1>3. /\ m \in Threads /\ id \in Words /\ id = Id[block[m]] /\ id' = Id[block'[m]]
  BY IdAssumption DEF Matches, WordInv
<1> HIDE DEF id
<1>4. SUFFICES Matches(m)' /\ (Stutters \/ \E b \in Blocks : CountsEdge(b))
  OBVIOUS
<1>5. CASE UNCHANGED vars
  <2>1. Matches(m)'
    BY <1>1, <1>3, <1>5 DEF vars, Matches, Words, Bits
  <2>2. Stutters
    BY <1>2, <1>3, <1>5 DEF vars
  <2> QED
    BY <2>1, <2>2
<1>6. CASE MapBitmap
  <2>1. Matches(m)'
    BY <1>1, <1>3, <1>6 DEF MapBitmap, Matches, Words, Bits
  <2>2. Stutters
    BY <1>2, <1>3, <1>6 DEF MapBitmap
  <2> QED
    BY <2>1, <2>2
<1>7. ASSUME NEW b \in Blocks, EnterBlock(m, b) PROVE Matches(m)' /\ Stutters
  <2>1. pc[m] = "block" /\ pc'[m] = "load_ptr" /\ pc' \in [Threads -> Labels]
    BY <1>3, <1>7 DEF EnterBlock, At, Goto, Matches, Labels
  <2>2. Matches(m)'
    BY <1>1, <1>7, <2>1 DEF EnterBlock, Matches, Words, Bits
  <2> QED
    BY <1>2, <1>7, <2>1, <2>2 DEF EnterBlock
<1>8. CASE LoadPtr(m) \/ IncRead(m) \/ Fault(m)
  <2>1. tmp[m] \in Words /\ area[tmp[m]] \in Nat
    BY <1>3 DEF Matches, WordInv
  <2>2. Matches(m)'
    BY <1>1, <1>3, <1>8, <2>1 DEF LoadPtr, IncRead, Fault, Matches, At, Goto, Labels, Words, Bits
  <2>3. Stutters
    BY <1>2, <1>3, <1>8 DEF LoadPtr, IncRead, Fault, Matches, At, Goto
  <2> QED
    BY <2>2, <2>3
<1>9. CASE XorRead(m) \/ XorWrite(m)
  <2>1. Matches(m)'
    BY <1>1, <1>3, <1>9 DEF XorRead, XorWrite, Matches, At, Goto, Labels, Words, Bits, WordInv
  <2>2. Stutters
    BY <1>2, <1>3, <1>9, XorTwice DEF XorRead, XorWrite, Matches, At, Goto
  <2> QED
    BY <2>1, <2>2
<1>10. CASE Load(m) \/ Store(m)
  <2>1. Matches(m)'
    BY <1>1, <1>3, <1>10 DEF Load, Store, Matches, At, Goto, Labels, Words, Bits, WordInv
  <2>2. Stutters
    BY <1>2, <1>3, <1>10 DEF Load, Store, Matches, At, Goto
  <2> QED
    BY <2>1, <2>2
<1>11. CASE IncWrite(m)
  <2>0. \A n \in Nat : (n + 1) % Counters \in Nat
    BY CountersAssumption
  <2>1. Matches(m)'
    BY <1>1, <1>3, <1>11, <2>0 DEF IncWrite, Matches, At, Goto, Labels, Words, Bits
  <2>2. /\ tmp[m] = prevLoc /\ count[m] = area[prevLoc] /\ pc[m] = "inc_write"
        /\ area' = [area EXCEPT ![prevLoc] = (area[prevLoc] + 1) % Counters]
        /\ LastBlock = Xor(prevLoc, id) /\ LastBlock' = Shift(id)
    BY <1>2, <1>3, <1>11 DEF IncWrite, Matches, At, Goto
  <2>3. Xor(LastBlock, id) = prevLoc
    BY <2>2, XorTwice
  <2>4. block[m] \in Blocks
    BY <1>3 DEF Matches, WordInv
  <2>5. CountsEdge(block[m])
    BY <1>3, <2>2, <2>3 DEF CountsEdge
  <2> QED
    BY <2>1, <2>4, <2>5
<1> QED
  BY <1>5, <1>6, <1>7, <1>8, <1>9, <1>10, <1>11 DEF Next, Trampoline

\* The invariant of the refinement: in a process with one thread, the registers
\* stand for what they should.
RInv == /\ WordInv
        /\ \A m \in Threads : team = {m} => Matches(m)

\* The two variables of the abstract profile.
MappedArea == IF Alone THEN area ELSE [w \in Words |-> 0]
MappedLast == IF Alone THEN LastBlock ELSE {}

\* Initially the profile is empty.
LEMMA InitRefines == Init => RInv /\ Profile!Init
<1> SUFFICES ASSUME Init PROVE RInv /\ Profile!Init
  OBVIOUS
<1>1. WordInv
  BY DEF Init, WordInv, Words
<1>2. \A m \in Threads : team = {m} => Matches(m) /\ LastBlock = {}
  BY InitMatches
<1>3. MappedArea = [w \in Words |-> 0] /\ MappedLast = {}
  BY <1>2 DEF Init, MappedArea, MappedLast, Alone
<1> QED
  BY <1>1, <1>2, <1>3 DEF RInv, Profile!Init, MappedArea, MappedLast,
     Profile!Words, Profile!Bits, Words, Bits

\* Every step of the runtime is a step of the profile or leaves it alone.
LEMMA NextRefines ==
  ASSUME RInv, [Next]_vars
  PROVE  RInv' /\ [Profile!Next]_<<MappedArea, MappedLast>>
<1>1. WordInv' /\ team' = team
  BY NextWordInv, SameTeam DEF RInv
<1>2. CASE Alone
  <2>1. PICK m \in Threads : team = {m}
    BY <1>2 DEF Alone
  <2>2. /\ Matches(m)'
        /\ UNCHANGED <<area, LastBlock>> \/ \E b \in Blocks : CountsEdge(b)
    BY <2>1, StepRefines DEF RInv
  <2>3. RInv'
    BY <1>1, <2>1, <2>2 DEF RInv
  <2>4. /\ MappedArea = area /\ MappedArea' = area'
        /\ MappedLast = LastBlock /\ MappedLast' = LastBlock'
    BY <1>1, <1>2 DEF MappedArea, MappedLast, Alone
  <2>5. ASSUME NEW b \in Blocks, CountsEdge(b) PROVE Profile!Enter(b)
    BY <2>4, <2>5 DEF CountsEdge, Profile!Enter, Profile!Xor, Profile!Shift, Profile!Bits,
       Xor, Shift, Bits, MappedArea, MappedLast
  <2> QED
    BY <2>2, <2>3, <2>4, <2>5 DEF Profile!Next, Blocks
<1>3. CASE ~Alone
  <2>1. UNCHANGED <<MappedArea, MappedLast>>
    BY <1>1, <1>3 DEF MappedArea, MappedLast, Alone, Words, Bits
  <2>2. RInv'
    BY <1>1, <1>3 DEF RInv, Alone
  <2> QED
    BY <2>1, <2>2
<1> QED
  BY <1>2, <1>3

\* In a process with one thread the instrumented code computes the edge profile
\* the docstring describes, for any program and any identifiers.
THEOREM ImplementsProfile == Spec => IsEdgeProfile
<1>1. RInv /\ [Next]_vars => RInv' /\ [Profile!Next]_<<MappedArea, MappedLast>>
  BY NextRefines
<1>2. Spec => Profile!Init /\ [][Profile!Next]_<<MappedArea, MappedLast>>
  BY <1>1, InitRefines, PTL DEF Spec
<1> QED
  BY <1>2 DEF IsEdgeProfile, Profile!Spec, MappedArea, MappedLast
-----------------------------------------------------------------------------
(***************************************************************************)
(* The hash itself: the shift makes it tell an edge from the reverse edge. *)
(***************************************************************************)

\* A word that has a one bit has a highest one bit.
LEMMA HighestBit ==
  ASSUME NEW d \in Words, d # {}
  PROVE  \E x \in d : x + 1 \notin d
<1> DEFINE T == {y \in Nat : \E x \in d : y = Width - 1 - x}
<1>1. \A x \in d : x \in Nat /\ x <= Width - 1
  BY WidthAssumption DEF Words, Bits
<1>2. \A x \in d : Width - 1 - x \in T
  BY <1>1, WidthAssumption
<1>3. PICK y \in T : \A z \in T : y <= z
  BY <1>2, LeastOfSet
<1>4. PICK x \in d : y = Width - 1 - x
  OBVIOUS
<1>5. ASSUME x + 1 \in d PROVE FALSE
  <2>1. Width - 1 - (x + 1) \in T
    BY <1>2, <1>5
  <2>2. y <= Width - 1 - (x + 1)
    BY <1>3, <2>1
  <2> QED
    BY <1>1, <1>4, <2>2, WidthAssumption
<1> QED
  BY <1>5

\* Two different blocks: the edge from a to b and the edge from b to a never
\* share a counter, whatever identifiers were drawn (line 148; "the >>1 shift
\* prevents A->B and B->A from hashing to the same edge", readme/QNA.md:271).
THEOREM DirectionsDiffer ==
  ASSUME NEW a \in Words, NEW b \in Words, a # b
  PROVE  Xor(Shift(a), b) # Xor(Shift(b), a)
<1> DEFINE d == Xor(a, b)
<1>1. d \in Words /\ d # {}
  BY WordOperations DEF Xor, Words
<1>2. PICK x \in d : x + 1 \notin d
  BY <1>1, HighestBit
<1>3. x \in Bits
  BY <1>1 DEF Words
<1>4. x \in Shift(a) <=> x \in Shift(b)
  BY <1>2, <1>3 DEF Xor, Shift
<1>5. ~(x \in a <=> x \in b)
  BY <1>2 DEF Xor
<1> QED
  BY <1>4, <1>5 DEF Xor
-----------------------------------------------------------------------------
(* Memory checks *)

\* The offset in its granule of a byte n further on, while no granule is left.
LEMMA OffsetInGranule ==
  ASSUME NEW x \in Nat, NEW n \in Nat, (x % 8) + n <= 7
  PROVE  (x + n) \div 8 = x \div 8 /\ (x + n) % 8 = (x % 8) + n
OBVIOUS

\* The shadow of any address is a shadow byte.
LEMMA ShadowType ==
  ASSUME shadow \in [0..(Granules - 1) -> ShadowBytes], NEW x \in Nat
  PROVE  ShadowAt(x) \in ShadowBytes
<1>1. x \div 8 \in Nat
  OBVIOUS
<1> QED
  BY <1>1, GranulesAssumption DEF ShadowAt, ShadowBytes

\* Every byte of the granule after a byte that may not be accessed is like it.
LEMMA ReportMeansBad ==
  ASSUME shadow \in [0..(Granules - 1) -> ShadowBytes],
         NEW x \in Nat, NEW n \in {1, 2, 4, 8}, Reports(x, n)
  PROVE  \E y \in x..(x + n - 1) : ~Addressable(y)
<1> DEFINE k == ShadowAt(x)
<1> DEFINE last == IF (x % 8) + n <= 8 THEN x + n - 1 ELSE x + 7 - (x % 8)
<1>1. k \in -1..7 /\ k # 0 /\ x % 8 \in 0..7
  BY ShadowType DEF Reports, ShadowBytes
<1>2. last \in x..(x + n - 1)
  BY <1>1
<1>3. last \div 8 = x \div 8 /\ last % 8 = last - x + (x % 8)
  <2>1. last - x \in Nat /\ (x % 8) + (last - x) <= 7
    BY <1>1
  <2>2. x + (last - x) = last
    BY <2>1
  <2> QED
    BY <1>1, <2>1, <2>2, OffsetInGranule
<1>4. ShadowAt(last) = k
  BY <1>3 DEF ShadowAt
<1>5. last % 8 >= k
  <2>1. CASE (x % 8) + n <= 8
    BY <1>1, <1>3, <2>1 DEF Reports
  <2>2. CASE (x % 8) + n > 8
    BY <1>1, <1>3, <2>2
  <2> QED
    BY <1>1, <2>1, <2>2
<1>6. ~Addressable(last)
  BY <1>1, <1>4, <1>5 DEF Addressable
<1> QED
  BY <1>2, <1>6

\* An unreported access within a granule touches only bytes it may access.
LEMMA SilenceMeansGood ==
  ASSUME shadow \in [0..(Granules - 1) -> ShadowBytes],
         NEW x \in Nat, NEW n \in {1, 2, 4, 8}, ~Reports(x, n), (x % 8) + n <= 8
  PROVE  \A y \in x..(x + n - 1) : Addressable(y)
<1> SUFFICES ASSUME NEW y \in x..(x + n - 1) PROVE Addressable(y)
  OBVIOUS
<1> DEFINE k == ShadowAt(x)
<1>1. k \in -1..7 /\ x % 8 \in 0..7
  BY ShadowType DEF ShadowBytes
<1>2. y - x \in Nat /\ (x % 8) + (y - x) <= 7 /\ x + (y - x) = y
  BY <1>1
<1>3. y \div 8 = x \div 8 /\ y % 8 = (x % 8) + (y - x)
  BY <1>2, OffsetInGranule
<1>4. ShadowAt(y) = k
  BY <1>3 DEF ShadowAt
<1>5. k = 0 \/ (n # 8 /\ (x % 8) + (n - 1) < k)
  BY <1>1 DEF Reports
<1>6. k = 0 \/ (k > 0 /\ y % 8 < k)
  BY <1>1, <1>2, <1>3, <1>5
<1> QED
  BY <1>4, <1>6 DEF Addressable
\* One byte that is reported may not be accessed.
LEMMA ReportedByte ==
  ASSUME shadow \in [0..(Granules - 1) -> ShadowBytes], NEW x \in Nat, Reports(x, 1)
  PROVE  ~Addressable(x)
<1>1. PICK y \in x..(x + 1 - 1) : ~Addressable(y)
  BY ReportMeansBad
<1> QED
  BY <1>1
-----------------------------------------------------------------------------
\* The addresses a string operation is checked at.
Points == {rdi, rdi + size} \cup (IF op = "rep movs" THEN {rsi, rsi + size} ELSE {})

\* What is checked is one of four places.
LEMMA PointsElements ==
  \A x : x \in Points <=> \/ x = rdi \/ x = rdi + size
                          \/ op = "rep movs" /\ (x = rsi \/ x = rsi + size)
<1>1. CASE op = "rep movs"
  BY <1>1 DEF Points
<1>2. CASE op # "rep movs"
  BY <1>2 DEF Points
<1> QED
  BY <1>1, <1>2

\* What is still to check, and what a verdict says of the shadow test.
Types ==
  /\ shadow \in [0..(Granules - 1) -> ShadowBytes]
  /\ op \in {"access", "rep movs", "rep stos"} /\ rdi \in Nat /\ rsi \in Nat /\ size \in Nat
AccessInv ==
  /\ size \in {1, 2, 4, 8} /\ pending \in {<<rdi>>, <<>>}
  /\ verdict = "report" => Reports(rdi, size)
  /\ verdict = "ok" => ~Reports(rdi, size)
StringInv ==
  /\ pending \in Seq(Points)
  /\ verdict = "report" => \E x \in Points : Reports(x, 1)
AInv == Types /\ (IF op = "access" THEN AccessInv ELSE StringInv)

\* Pairs and quadruples are sequences.
LEMMA Tuples ==
  ASSUME NEW S, NEW a \in S, NEW b \in S, NEW c \in S, NEW d \in S
  PROVE  <<a, b>> \in Seq(S) /\ <<a, b, c, d>> \in Seq(S)
OBVIOUS

\* Every operation starts with the places to check.
LEMMA InitAInv == CheckInit => AInv
<1> SUFFICES ASSUME CheckInit PROVE AInv
  OBVIOUS
<1>1. Types
  <2>1. op \in {"access", "rep movs", "rep stos"}
    BY OperationsAssumption DEF CheckInit
  <2>2. shadow \in [0..(Granules - 1) -> ShadowBytes] /\ rdi \in Nat /\ rsi \in Nat
    <3>1. \A x \in Addresses : x \in Nat
      BY GranulesAssumption DEF Addresses
    <3>2. rdi \in Addresses /\ (rsi \in Addresses \/ rsi = 0)
      BY DEF CheckInit
    <3>3. rdi \in Nat /\ rsi \in Nat
      BY <3>1, <3>2
    <3> QED
      BY <3>3 DEF CheckInit
  <2>3. size \in Nat
    <3>1. size \in Sizes \cup Counts
      BY DEF CheckInit
    <3>2. Sizes \subseteq Nat /\ Counts \subseteq Nat
      <4>1. {1, 2, 4, 8} \subseteq Nat
        OBVIOUS
      <4> QED
        BY <4>1, OperationsAssumption, CountsAssumption
    <3> QED
      BY <3>1, <3>2
  <2> QED
    BY <2>1, <2>2, <2>3 DEF Types
<1>2. verdict = "none" /\ pending = Checked(op, rdi, rsi, size)
  BY DEF CheckInit
<1>3. CASE op = "access"
  <2>1. size \in {1, 2, 4, 8}
    BY <1>3, OperationsAssumption DEF CheckInit
  <2>2. pending = <<rdi>>
    BY <1>2, <1>3 DEF Checked
  <2> QED
    BY <1>1, <1>2, <1>3, <2>1, <2>2 DEF AInv, AccessInv
<1>4. CASE op = "rep stos"
  <2>1. pending = <<rdi, rdi + size>>
    BY <1>2, <1>4 DEF Checked
  <2>2. pending \in Seq(Points)
    BY <2>1, PointsElements, Tuples
  <2> QED
    BY <1>1, <1>2, <1>4, <2>2 DEF AInv, StringInv
<1>5. CASE op = "rep movs"
  <2>1. pending = <<rdi, rdi + size, rsi, rsi + size>>
    BY <1>2, <1>5 DEF Checked
  <2>2. pending \in Seq(Points)
    BY <1>5, <2>1, PointsElements, Tuples
  <2> QED
    BY <1>1, <1>2, <1>5, <2>2 DEF AInv, StringInv
<1> QED
  BY <1>1, <1>3, <1>4, <1>5 DEF Types

\* A check consumes one place and decides.
LEMMA CheckAInv == AInv /\ Check => AInv'
<1> SUFFICES ASSUME AInv, Check PROVE AInv'
  OBVIOUS
<1>1. UNCHANGED <<shadow, op, rdi, rsi, size>> /\ Points' = Points /\ Types'
  BY DEF Check, Points, AInv, Types
<1>2. \A x, n : Reports(x, n)' = Reports(x, n)
  BY <1>1 DEF Reports, ShadowAt
<1>3. CASE op = "access"
  <2>1. pending = <<rdi>> /\ Len(pending) = 1 /\ pending[1] = rdi /\ Tail(pending) = <<>>
    BY <1>3 DEF Check, AInv, AccessInv
  <2>2. verdict' = (IF Reports(rdi, size) THEN "report" ELSE "ok") /\ pending' = <<>>
    BY <1>3, <2>1 DEF Check
  <2>3. AccessInv'
    BY <1>1, <1>2, <1>3, <2>2 DEF AInv, AccessInv
  <2> QED
    BY <1>1, <1>3, <2>3 DEF AInv
<1>4. CASE op # "access"
  <2>1. pending \in Seq(Points) /\ pending # <<>>
    BY <1>4 DEF Check, AInv, StringInv
  <2>2. pending[1] \in Points /\ Tail(pending) \in Seq(Points)
    BY <2>1
  <2>3. verdict' = "report" => Reports(pending[1], 1)
    BY <1>4 DEF Check
  <2>4. StringInv'
    BY <1>1, <1>2, <2>2, <2>3 DEF Check, StringInv
  <2> QED
    BY <1>1, <1>4, <2>4 DEF AInv
<1> QED
  BY <1>3, <1>4

\* An access touches its first byte.
LEMMA FirstByte == ASSUME NEW a \in Nat, NEW n \in Nat, n > 0 PROVE a \in a..(a + n - 1)
OBVIOUS

\* A report of a string operation: the address is touched, or the one behind it.
LEMMA StringReport ==
  ASSUME AInv, op # "access", verdict = "report"
  PROVE  Bad # {} \/ \E x \in Behind : ~Addressable(x)
<1>1. PICK x \in Points : Reports(x, 1)
  BY DEF AInv, StringInv
<1>2. x \in Nat /\ size \in Nat /\ rdi \in Nat /\ rsi \in Nat
  <2>1. size \in Nat /\ rdi \in Nat /\ rsi \in Nat
    BY DEF AInv, Types
  <2>2. x \in {rdi, rdi + size, rsi, rsi + size}
    BY <1>1, PointsElements
  <2> QED
    BY <2>1, <2>2
<1>3. ~Addressable(x)
  BY <1>1, <1>2, ReportedByte DEF AInv, Types
<1>4. rdi + size \in Behind /\ (op = "rep movs" => rsi + size \in Behind)
  BY DEF Behind
<1>5. ASSUME x \notin Behind PROVE x \in Touched
  <2>1. size > 0 /\ (x = rdi \/ (op = "rep movs" /\ x = rsi))
    <3>1. x # rdi + size /\ ~(op = "rep movs" /\ x = rsi + size)
      BY <1>4, <1>5
    <3>2. x = rdi \/ (op = "rep movs" /\ x = rsi)
      BY <1>1, <3>1, PointsElements
    <3>3. size # 0
      <4>1. SUFFICES ASSUME size = 0 PROVE FALSE
        OBVIOUS
      <4>2. rdi + size = rdi /\ rsi + size = rsi
        BY <1>2, <4>1
      <4> QED
        BY <3>1, <3>2, <4>2
    <3>4. size > 0
      BY <1>2, <3>3
    <3> QED
      BY <3>2, <3>4
  <2>2. rdi \in rdi..(rdi + size - 1) /\ rsi \in rsi..(rsi + size - 1)
    BY <1>2, <2>1, FirstByte
  <2> QED
    BY <2>1, <2>2 DEF Touched
<1> QED
  BY <1>3, <1>5 DEF Bad

\* The bytes an access touches.
LEMMA TouchedByAccess == op = "access" /\ rdi \in Nat => Touched = rdi..(rdi + size - 1)
BY DEF Touched

\* Every check preserves the invariant.
LEMMA NextAInv == AInv /\ [Check]_checkVars => AInv'
<1>1. ASSUME AInv, UNCHANGED checkVars PROVE AInv'
  <2>1. Points' = Points /\ Types' /\ \A x, n : Reports(x, n)' = Reports(x, n)
    BY <1>1 DEF checkVars, AInv, Types, Reports, ShadowAt, Points
  <2>2. UNCHANGED <<op, rdi, size, pending, verdict>>
    BY <1>1 DEF checkVars
  <2> QED
    BY <1>1, <2>1, <2>2 DEF AInv, AccessInv, StringInv
<1> QED
  BY <1>1, CheckAInv

\* For memory of any size: an operation is stopped only when it touches a byte it
\* may not (a string operation also when such a byte lies right behind it:
\* instrument.py lines 101-133 and 298-357).
THEOREM NoAlarmForNothing == CheckSpec => []NoFalseAlarm
<1>1. AInv => NoFalseAlarm
  <2>1. AInv /\ op = "access" => NoFalseAlarm
    BY TouchedByAccess, ReportMeansBad DEF AInv, Types, AccessInv, NoFalseAlarm, Bad
  <2> QED
    BY <2>1, StringReport DEF NoFalseAlarm
<1> QED
  BY InitAInv, NextAInv, <1>1, PTL DEF CheckSpec

\* For memory of any size: an access inside a granule that touches a byte it may
\* not is always stopped (snippets.py lines 33-49).
THEOREM AccessesStopped == CheckSpec => []NothingMissed
<1>1. AInv => NothingMissed
  BY TouchedByAccess, SilenceMeansGood
     DEF AInv, Types, AccessInv, NothingMissed, Bad, WithinGranule
<1> QED
  BY InitAInv, NextAInv, <1>1, PTL DEF CheckSpec
-----------------------------------------------------------------------------
(* Stack redzones.  A frame armed at its index has its slot poisoned, and  *)
(* the slots of two frames are different places: what a step does to the   *)
(* running frame, or to the frames it leaves, disturbs no other.           *)

\* Where the canary is in its slot, by the assumption on compilers; and where a
\* function's slot is poisoned: from the store on, which it does not check.
Guarded(f) == CHOOSE g \in SUBSET Indices(f) : Guards(f, g)
ArmedAt(f) == IF Poisons(f) THEN Guarded(f) \cup {PoisonAt(f) + 1} ELSE {}

\* The shape of a function whose canary the pass recognizes.
LEMMA Shape ==
  ASSUME NEW f \in DOMAIN Code
  PROVE  /\ Len(Code[f]) \in Nat /\ 1 \in Indices(f) /\ Size[f] \in Nat \ {0}
         /\ \A i \in Indices(f) : InsAt(f, i) \in [op : Ops, slot : Int, target : Nat]
         /\ \A i \in Indices(f) : Follows(f, i) \subseteq Indices(f)
         /\ \A i \in Indices(f) : InsAt(f, i).slot # 0 => InsAt(f, i).op \in Movq \cup {"access"}
         /\ \A i \in Indices(f) : InsAt(f, i).op \in {"store_canary", "read_canary"} =>
              InsAt(f, i).slot \in 1..(Size[f] - 1)
<1> DEFINE R == [op : Ops, slot : Int, target : Nat]
<1>1. Code[f] \in Seq(R) /\ Size[f] \in Nat \ {0}
  BY CodeAssumption
<1>2. \A i \in Indices(f) : InsAt(f, i) \in R
  <2> HIDE DEF R
  <2> QED
    BY <1>1 DEF Indices, InsAt
<1>3. Len(Code[f]) \in Nat /\ (Code[f] # <<>> => 1 \in Indices(f))
  <2> HIDE DEF R
  <2> QED
    BY <1>1 DEF Indices
<1> QED
  BY <1>1, <1>2, <1>3, CompilerAssumption DEF FrameAssumption

\* The load is inside the function.
LEMMA LoadInside ==
  ASSUME NEW f \in DOMAIN Code, Poisons(f)
  PROVE  /\ PoisonAt(f) \in Indices(f) /\ PoisonAt(f) + 1 \in Indices(f)
         /\ PoisonAt(f) = CanaryIdx(f) /\ InsAt(f, PoisonAt(f)).op = "load_canary"
<1> DEFINE found == {i \in Indices(f) : i <= Window /\ InsAt(f, i).op \in CanaryFirst}
<1>1. CanaryIdx(f) # 0 /\ PoisonAt(f) = CanaryIdx(f)
  BY DEF Poisons, PoisonAt
<1>2. found # {} /\ CanaryIdx(f) = Min(found)
  BY <1>1 DEF CanaryIdx
<1>3. found \subseteq Nat
  BY Shape DEF Indices
<1>4. PICK x \in found : \A y \in found : x <= y
  BY <1>2, <1>3, LeastOfSet
<1>5. Min(found) \in found
  BY <1>4 DEF Min
<1>6. InsAt(f, PoisonAt(f)).op = "load_canary"
  BY CompilerAssumption DEF Poisons
<1>7. PoisonAt(f) \in Indices(f)
  BY <1>1, <1>2, <1>5
<1>8. PoisonAt(f) + 1 \in Follows(f, PoisonAt(f))
  BY <1>6 DEF Follows
<1> QED
  BY <1>1, <1>6, <1>7, <1>8, Shape

\* What the assumption says of it, with the pass's words.
LEMMA Recognized ==
  ASSUME NEW f \in DOMAIN Code, Poisons(f)
  PROVE  LET c == PoisonAt(f)
         IN /\ InsAt(f, c + 1).op = "store_canary" /\ PoisonSlot(f) \in 1..(Size[f] - 1)
            /\ Guards(f, Guarded(f)) /\ Guarded(f) \subseteq Indices(f)
            /\ \A i \in Indices(f) :
                 /\ InsAt(f, i).op = "store_canary" <=> i = c + 1
                 /\ c + 1 \in Follows(f, i) => i = c
                 /\ InsAt(f, i).op = "read_canary" =>
                      /\ i > c /\ InsAt(f, i).slot = PoisonSlot(f)
                      /\ InsAt(f, i + 1).op \in {"xor_canary", "sub_canary"}
                 /\ HasMem(f, i) /\ InsAt(f, i + 1).op = "xor_canary" => InsAt(f, i).op = "read_canary"
<1>1. PoisonAt(f) + 1 \in Indices(f) /\ PoisonAt(f) # 0
  BY LoadInside DEF Poisons
<1>2. /\ \A i \in Indices(f) :
            /\ InsAt(f, i).op = "store_canary" <=> i = PoisonAt(f) + 1
            /\ PoisonAt(f) + 1 \in Follows(f, i) => i = PoisonAt(f)
            /\ InsAt(f, i).op = "read_canary" =>
                 /\ i > PoisonAt(f) /\ InsAt(f, i).slot = InsAt(f, PoisonAt(f) + 1).slot
                 /\ InsAt(f, i + 1).op \in {"xor_canary", "sub_canary"}
            /\ HasMem(f, i) /\ InsAt(f, i + 1).op = "xor_canary" => InsAt(f, i).op = "read_canary"
      /\ \E g \in SUBSET Indices(f) : Guards(f, g)
  BY <1>1, CompilerAssumption, Zenon
<1>3. Guarded(f) \in SUBSET Indices(f) /\ Guards(f, Guarded(f))
  BY <1>2, Zenon DEF Guarded
<1>4. InsAt(f, PoisonAt(f) + 1).op = "store_canary"
  BY <1>1, <1>2
<1>5. PoisonSlot(f) \in 1..(Size[f] - 1)
  BY <1>1, <1>4, Shape DEF PoisonSlot
<1> QED
  BY <1>2, <1>3, <1>4, <1>5 DEF PoisonSlot

\* The canary comes and goes with the instructions that store and read it.
LEMMA GuardFlow ==
  ASSUME NEW f \in DOMAIN Code, Poisons(f), NEW i \in Indices(f)
  PROVE  /\ 1 \notin Guarded(f)
         /\ InsAt(f, i).op = "store_canary" => i \notin Guarded(f) /\ i + 1 \in Guarded(f)
         /\ InsAt(f, i).op = "read_canary" => i \in Guarded(f) /\ i + 1 \notin Guarded(f)
         /\ InsAt(f, i).op = "ret" => i \notin Guarded(f)
         /\ InsAt(f, i).op \notin {"store_canary", "read_canary"} =>
              \A j \in Follows(f, i) : j \in Guarded(f) <=> i \in Guarded(f)
         /\ \A j \in Indices(f) : InsAt(f, i).op = "setjmp" /\ InsAt(f, j).op = "call" =>
              (i + 1 \in Guarded(f) <=> j + 1 \in Guarded(f))
<1>1. Guards(f, Guarded(f))
  BY Recognized
<1>2. 1 \notin Guarded(f)
  BY <1>1 DEF Guards
<1>3. /\ InsAt(f, i).op = "store_canary" => i \notin Guarded(f) /\ i + 1 \in Guarded(f)
      /\ InsAt(f, i).op = "read_canary" => i \in Guarded(f) /\ i + 1 \notin Guarded(f)
      /\ InsAt(f, i).op = "ret" => i \notin Guarded(f)
  BY <1>1 DEF Guards
<1>4. ASSUME NEW k \in Indices(f), InsAt(f, k).op \notin {"store_canary", "read_canary"}
      PROVE  \A j \in Follows(f, k) : j \in Guarded(f) <=> k \in Guarded(f)
  <2>1. CASE InsAt(f, k).op = "ret"
    BY <2>1 DEF Follows
  <2>2. CASE InsAt(f, k).op # "ret"
    BY <1>1, <1>4, <2>2 DEF Guards
  <2> QED
    BY <2>1, <2>2
<1>5. ASSUME NEW j \in Indices(f), InsAt(f, i).op = "setjmp", InsAt(f, j).op = "call"
      PROVE  i + 1 \in Guarded(f) <=> j + 1 \in Guarded(f)
  <2>1. i \in Guarded(f) <=> j \in Guarded(f)
    BY <1>1, <1>5 DEF Guards
  <2>2. i + 1 \in Follows(f, i) /\ j + 1 \in Follows(f, j)
    BY <1>5 DEF Follows
  <2>3. (i + 1 \in Guarded(f) <=> i \in Guarded(f)) /\ (j + 1 \in Guarded(f) <=> j \in Guarded(f))
    BY <1>4, <1>5, <2>2
  <2> QED
    BY <2>1, <2>3
<1> QED
  BY <1>2, <1>3, <1>4, <1>5

\* So does the poison, which comes one instruction earlier.
LEMMA ArmedFlow ==
  ASSUME NEW f \in DOMAIN Code, NEW i \in Indices(f)
  PROVE  /\ 1 \notin ArmedAt(f)
         /\ Poisons(f) /\ i = PoisonAt(f) => i + 1 \in ArmedAt(f)
         /\ InsAt(f, i).op = "read_canary" => i + 1 \notin ArmedAt(f)
         /\ InsAt(f, i).op = "read_canary" /\ Poisons(f) => i \in ArmedAt(f)
         /\ InsAt(f, i).op = "ret" => i \notin ArmedAt(f)
         /\ InsAt(f, i).op # "read_canary" /\ ~(Poisons(f) /\ i = PoisonAt(f)) =>
              \A j \in Follows(f, i) : j \in ArmedAt(f) <=> i \in ArmedAt(f)
         /\ \A j \in Indices(f) : InsAt(f, i).op = "setjmp" /\ InsAt(f, j).op = "call" =>
              (i + 1 \in ArmedAt(f) <=> j + 1 \in ArmedAt(f))
<1>1. CASE ~Poisons(f)
  BY <1>1 DEF ArmedAt
<1>2. CASE Poisons(f)
  <2> DEFINE c == PoisonAt(f)
  <2>1. /\ c \in Indices(f) /\ c + 1 \in Indices(f) /\ c \in Nat /\ c # 0
        /\ InsAt(f, c).op = "load_canary"
    BY <1>2, LoadInside, Shape DEF Indices, Poisons
  <2>2. /\ InsAt(f, i).op = "store_canary" <=> i = c + 1
        /\ c + 1 \in Follows(f, i) => i = c
    BY <1>2, Recognized
  <2>3. \A j : j \in ArmedAt(f) <=> j \in Guarded(f) \/ j = c + 1
    BY <1>2 DEF ArmedAt
  <2>4. i + 1 = c + 1 => i = c
    BY <2>1, Shape DEF Indices
  <2>5. ASSUME NEW k \in Indices(f), InsAt(f, k).op = "setjmp" \/ InsAt(f, k).op = "call"
        PROVE  k + 1 # c + 1
    BY <2>1, <2>5, Shape DEF Indices
  <2>6. 1 \notin ArmedAt(f)
    BY <1>2, <2>1, <2>3, GuardFlow
  <2>7. i = c => i + 1 \in ArmedAt(f)
    BY <2>3
  <2>8. InsAt(f, i).op = "read_canary" => i \in ArmedAt(f) /\ i + 1 \notin ArmedAt(f)
    BY <1>2, <2>1, <2>3, <2>4, GuardFlow
  <2>9. InsAt(f, i).op = "ret" => i \notin ArmedAt(f)
    BY <1>2, <2>2, <2>3, GuardFlow
  <2>10. ASSUME InsAt(f, i).op # "read_canary", i # c, NEW j \in Follows(f, i)
         PROVE  j \in ArmedAt(f) <=> i \in ArmedAt(f)
    <3>1. j # c + 1
      BY <2>2, <2>10
    <3>2. CASE i = c + 1
      <4>1. Follows(f, i) = {i + 1}
        BY <2>2, <3>2 DEF Follows
      <4> QED
        BY <1>2, <2>2, <2>3, <2>10, <3>2, <4>1, GuardFlow
    <3>3. CASE i # c + 1
      BY <1>2, <2>2, <2>3, <2>10, <3>1, <3>3, GuardFlow
    <3> QED
      BY <3>2, <3>3
  <2>11. ASSUME NEW j \in Indices(f), InsAt(f, i).op = "setjmp", InsAt(f, j).op = "call"
         PROVE  i + 1 \in ArmedAt(f) <=> j + 1 \in ArmedAt(f)
    <3>1. i + 1 \in Guarded(f) <=> j + 1 \in Guarded(f)
      BY <1>2, <2>11, GuardFlow
    <3>2. i + 1 # c + 1 /\ j + 1 # c + 1
      BY <2>5, <2>11
    <3> QED
      BY <2>3, <3>1, <3>2
  <2> QED
    BY <1>2, <2>6, <2>7, <2>8, <2>9, <2>10, <2>11
<1> QED
  BY <1>1, <1>2

\* Which instructions get no check, and which unpoison.
LEMMA Unchecked ==
  ASSUME NEW f \in DOMAIN Code, NEW i \in Indices(f)
  PROVE  /\ i \in UnpoisonAt(f) <=>
              Poisons(f) /\ InsAt(f, i).op = "read_canary" /\ InsAt(f, i + 1).op = "xor_canary"
         /\ i \in Skip(f) => InsAt(f, i).op \in {"load_canary", "store_canary", "read_canary"}
         /\ Poisons(f) /\ InsAt(f, i).op = "store_canary" => i \in Skip(f)
         /\ Poisons(f) /\ InsAt(f, i).op = "read_canary" =>
              /\ InsAt(f, i).slot = PoisonSlot(f)
              /\ i \in Skip(f) <=> i \in UnpoisonAt(f)
              /\ i \in Skip(f) \/ InsAt(f, i + 1).op = "sub_canary"
<1>1. CASE ~Poisons(f)
  BY <1>1 DEF UnpoisonAt, Skip
<1>2. CASE Poisons(f)
  <2>1. /\ InsAt(f, i).op = "store_canary" <=> i = PoisonAt(f) + 1
        /\ InsAt(f, i).op = "read_canary" =>
             /\ i > PoisonAt(f) /\ InsAt(f, i).slot = PoisonSlot(f)
             /\ InsAt(f, i + 1).op \in {"xor_canary", "sub_canary"}
        /\ HasMem(f, i) /\ InsAt(f, i + 1).op = "xor_canary" => InsAt(f, i).op = "read_canary"
    BY <1>2, Recognized
  <2>2. InsAt(f, i).op = "read_canary" => HasMem(f, i)
    BY Shape DEF HasMem
  <2>3. i \in UnpoisonAt(f) <=> InsAt(f, i).op = "read_canary" /\ InsAt(f, i + 1).op = "xor_canary"
    BY <1>2, <2>1, <2>2 DEF UnpoisonAt
  <2>4. i \in Skip(f) <=> i = PoisonAt(f) \/ i = PoisonAt(f) + 1 \/ i \in UnpoisonAt(f)
    BY <1>2 DEF Skip
  <2>5. InsAt(f, PoisonAt(f)).op = "load_canary"
    BY <1>2, LoadInside
  <2> QED
    BY <1>2, <2>1, <2>3, <2>4, <2>5
<1> QED
  BY <1>1, <1>2
-----------------------------------------------------------------------------

Frames    == [fn : DOMAIN Code, idx : Nat, base : Nat, guard : Nat]
AfterOp(f, i, name) == i - 1 \in Indices(f) /\ InsAt(f, i - 1).op = name

\* A frame stands inside its function, and knows where its canary is.
FrameOK(fr) ==
  /\ fr.idx \in Indices(fr.fn)
  /\ Poisons(fr.fn) =>
       fr.guard = IF fr.idx \in Guarded(fr.fn) THEN fr.base + PoisonSlot(fr.fn) ELSE 0

\* The frames do not overlap; every frame but the last waits for a call.
FramesOK(st) ==
  /\ st \in Seq(Frames)
  /\ \A k \in 1..Len(st) : FrameOK(st[k])
  /\ \A j, k \in 1..Len(st) : j < k =>
       /\ Rsp(st[j]) <= st[k].base
       /\ AfterOp(st[j].fn, st[j].idx, "call")

\* The jmp_buf is of a frame still on the stack.
SavedOK(st, sv) ==
  /\ sv \in [depth : Nat, idx : Nat] /\ sv.depth <= Len(st)
  /\ sv.depth # 0 => LET f == st[sv.depth].fn
                     IN sv.idx \in Indices(f) /\ AfterOp(f, sv.idx, "setjmp")

\* The poisoned places are those of the frames between their store and their
\* read, but for what was abandoned.
Place(fr)       == fr.base + PoisonSlot(fr.fn)
Armed(fr)       == fr.idx \in ArmedAt(fr.fn)
PoisonOK(st, poison, left) ==
  /\ \A k \in 1..Len(st) : Armed(st[k]) => Place(st[k]) \in poison
  /\ \A p \in poison : p \in left \/ \E k \in 1..Len(st) : Armed(st[k]) /\ p = Place(st[k])

RedzoneInv == /\ FramesOK(stack) /\ SavedOK(stack, saved)
              /\ PoisonOK(stack, poisoned, abandoned) /\ NoFalseReport

\* Where the canary of a frame is.
LEMMA FrameFacts ==
  ASSUME NEW fr \in Frames, FrameOK(fr)
  PROVE  /\ fr.fn \in DOMAIN Code /\ fr.base \in Nat /\ Rsp(fr) \in Nat /\ fr.base < Rsp(fr)
         /\ Armed(fr) => Poisons(fr.fn)
         /\ Poisons(fr.fn) => Place(fr) \in (fr.base + 1)..(Rsp(fr) - 1)
         /\ Poisons(fr.fn) /\ fr.guard # 0 => Armed(fr) /\ fr.guard = Place(fr)
         /\ Armed(fr) /\ InsAt(fr.fn, fr.idx).op # "store_canary" => fr.guard = Place(fr)
         /\ Armed(fr) /\ InsAt(fr.fn, fr.idx).op = "store_canary" =>
              InsAt(fr.fn, fr.idx).slot = PoisonSlot(fr.fn)
<1>1. /\ fr.fn \in DOMAIN Code /\ fr.base \in Nat /\ Size[fr.fn] \in Nat \ {0}
      /\ fr.idx \in Indices(fr.fn)
  BY Shape DEF Frames, FrameOK
<1>2. Rsp(fr) \in Nat /\ fr.base < Rsp(fr)
  BY <1>1 DEF Rsp
<1>3. CASE ~Poisons(fr.fn)
  BY <1>1, <1>2, <1>3 DEF Armed, ArmedAt
<1>4. CASE Poisons(fr.fn)
  <2>1. PoisonSlot(fr.fn) \in 1..(Size[fr.fn] - 1)
    BY <1>1, <1>4, Recognized
  <2>2. Place(fr) \in (fr.base + 1)..(Rsp(fr) - 1)
    BY <1>1, <2>1 DEF Place, Rsp
  <2>3. fr.guard = IF fr.idx \in Guarded(fr.fn) THEN Place(fr) ELSE 0
    BY <1>4 DEF FrameOK, Place
  <2>4. Armed(fr) <=> fr.idx \in Guarded(fr.fn) \/ fr.idx = PoisonAt(fr.fn) + 1
    BY <1>4 DEF Armed, ArmedAt
  <2>5. InsAt(fr.fn, fr.idx).op = "store_canary" <=> fr.idx = PoisonAt(fr.fn) + 1
    BY <1>1, <1>4, Recognized
  <2>6. InsAt(fr.fn, fr.idx).op = "store_canary" => InsAt(fr.fn, fr.idx).slot = PoisonSlot(fr.fn)
    BY <2>5 DEF PoisonSlot
  <2> QED
    BY <1>1, <1>2, <1>4, <2>2, <2>3, <2>4, <2>5, <2>6
<1> QED
  BY <1>3, <1>4

\* A frame that waits for a call, or was left by setjmp, does not stand before
\* its store.
LEMMA WaitingFrame ==
  ASSUME NEW f \in DOMAIN Code, NEW i \in Indices(f), NEW name \in {"call", "setjmp"},
         AfterOp(f, i, name)
  PROVE  Poisons(f) => InsAt(f, i).op # "store_canary"
<1> SUFFICES ASSUME Poisons(f), InsAt(f, i).op = "store_canary" PROVE FALSE
  OBVIOUS
<1>1. i = PoisonAt(f) + 1
  BY Recognized
<1>2. InsAt(f, PoisonAt(f)).op = "load_canary" /\ PoisonAt(f) \in Nat /\ i \in Nat
  BY LoadInside DEF Indices
<1>3. i - 1 = PoisonAt(f)
  BY <1>1, <1>2
<1> QED
  BY <1>2, <1>3 DEF AfterOp

\* The canaries of two frames are in different places.
LEMMA PlacesDiffer ==
  ASSUME NEW st, FramesOK(st), NEW j \in 1..Len(st), NEW k \in 1..Len(st), j < k
  PROVE  /\ st[j] \in Frames /\ st[k] \in Frames
         /\ Rsp(st[j]) <= st[k].base /\ Rsp(st[j]) <= Rsp(st[k])
         /\ Poisons(st[j].fn) => Place(st[j]) < Rsp(st[j])
         /\ Poisons(st[k].fn) => Rsp(st[j]) < Place(st[k])
<1>1. st[j] \in Frames /\ st[k] \in Frames /\ FrameOK(st[j]) /\ FrameOK(st[k])
      /\ Rsp(st[j]) <= st[k].base
  BY DEF FramesOK
<1>2. /\ Rsp(st[j]) \in Nat /\ Rsp(st[k]) \in Nat /\ st[k].base \in Nat /\ st[k].base < Rsp(st[k])
      /\ Poisons(st[j].fn) => Place(st[j]) \in (st[j].base + 1)..(Rsp(st[j]) - 1)
      /\ Poisons(st[k].fn) => Place(st[k]) \in (st[k].base + 1)..(Rsp(st[k]) - 1)
      /\ st[j].base \in Nat
  BY <1>1, FrameFacts
<1>3. Poisons(st[j].fn) => Place(st[j]) < Rsp(st[j])
  BY <1>2
<1>4. Poisons(st[k].fn) => Rsp(st[j]) < Place(st[k])
  BY <1>1, <1>2
<1> QED
  BY <1>1, <1>2, <1>3, <1>4

\* A step inside the running function changes the last frame only.
LEMMA MovedFrame ==
  ASSUME NEW st, FramesOK(st), Len(st) # 0, NEW fr \in Frames, FrameOK(fr),
         fr.fn = st[Len(st)].fn, fr.base = st[Len(st)].base
  PROVE  LET st2 == [st EXCEPT ![Len(st)] = fr]
         IN /\ FramesOK(st2) /\ Len(st2) = Len(st) /\ st2[Len(st)] = fr
            /\ \A k \in 1..Len(st) : k # Len(st) => st2[k] = st[k]
<1> DEFINE n == Len(st)
           st2 == [st EXCEPT ![n] = fr]
<1>1. st \in Seq(Frames) /\ n \in 1..n /\ n \in Nat
  <2>1. st \in Seq(Frames)
    BY DEF FramesOK
  <2> QED
    BY <2>1
<1>2. st2 \in Seq(Frames) /\ Len(st2) = n /\ st2[n] = fr
      /\ \A k \in 1..n : k # n => st2[k] = st[k]
  BY <1>1
<1>3. \A k \in 1..n : FrameOK(st2[k])
  BY <1>2 DEF FramesOK
<1>4. ASSUME NEW j \in 1..n, NEW k \in 1..n, j < k
      PROVE  Rsp(st2[j]) <= st2[k].base /\ AfterOp(st2[j].fn, st2[j].idx, "call")
  <2>1. Rsp(st[j]) <= st[k].base /\ AfterOp(st[j].fn, st[j].idx, "call")
    BY <1>4 DEF FramesOK
  <2>2. st2[j] = st[j]
    <3>1. j # n
      BY <1>1, <1>4
    <3> QED
      BY <1>2, <3>1
  <2>3. st2[k].base = st[k].base
    BY <1>2
  <2> QED
    BY <2>1, <2>2, <2>3
<1>5. FramesOK(st2)
  BY <1>2, <1>3, <1>4 DEF FramesOK
<1> QED
  BY <1>2, <1>5

\* A step that leaves functions keeps the lower frames.
LEMMA CutFrames ==
  ASSUME NEW st, FramesOK(st), NEW d \in 0..Len(st)
  PROVE  LET st2 == SubSeq(st, 1, d)
         IN /\ FramesOK(st2) /\ Len(st2) = d
            /\ \A k \in 1..d : k \in 1..Len(st) /\ st2[k] = st[k]
<1> DEFINE st2 == SubSeq(st, 1, d)
<1>1. st \in Seq(Frames) /\ d \in Nat /\ Len(st) \in Nat
  <2>1. st \in Seq(Frames)
    BY DEF FramesOK
  <2> QED
    BY <2>1
<1>2. \A k \in 1..d : k \in 1..Len(st)
  BY <1>1
<1>3. st2 \in Seq(Frames) /\ Len(st2) = d /\ \A k \in 1..d : st2[k] = st[k]
  BY <1>1, <1>2, SubSeqProperties
<1>4. FramesOK(st2)
  <2> HIDE DEF st2
  <2> QED
    BY <1>2, <1>3 DEF FramesOK
<1> QED
  BY <1>2, <1>3, <1>4

\* How the poisoned places follow a step inside the running function.
LEMMA MovedPoison ==
  ASSUME NEW st, FramesOK(st), Len(st) # 0, NEW fr \in Frames, FrameOK(fr),
         fr.fn = st[Len(st)].fn, fr.base = st[Len(st)].base,
         NEW P, NEW P2, NEW A, PoisonOK(st, P, A),
         \/ (Armed(fr) <=> Armed(st[Len(st)])) /\ P2 = P
         \/ Armed(fr) /\ P2 = P \cup {Place(fr)}
         \/ ~Armed(fr) /\ Poisons(fr.fn) /\ P2 = P \ {Place(fr)}
  PROVE  PoisonOK([st EXCEPT ![Len(st)] = fr], P2, A)
<1> DEFINE n == Len(st)
           st2 == [st EXCEPT ![n] = fr]
<1>1. st \in Seq(Frames)
  BY DEF FramesOK
<1>2. n \in Nat /\ n \in 1..n
  BY <1>1
<1>3. Len(st2) = n /\ st2[n] = fr /\ \A k \in 1..n : k # n => st2[k] = st[k]
  BY MovedFrame
<1>4. Place(fr) = Place(st[n])
  BY DEF Place
<1> HIDE DEF n, st2
<1>5. ASSUME NEW k \in 1..n, k # n, Armed(st[k]), Poisons(fr.fn)
      PROVE  Place(st[k]) # Place(fr)
  <2>1. k < n
    BY <1>2, <1>5
  <2>2. st[k] \in Frames /\ FrameOK(st[k])
    BY <1>5 DEF FramesOK, n
  <2>3. Poisons(st[k].fn)
    BY <1>5, <2>2, FrameFacts
  <2>4. Place(st[k]) < Rsp(st[k]) /\ Rsp(st[k]) < Place(st[n])
    BY <1>2, <1>5, <2>1, <2>3, PlacesDiffer DEF n
  <2>5. Rsp(st[k]) \in Nat /\ Place(st[k]) \in Int /\ Place(st[n]) \in Int
    BY <1>2, <1>4, <1>5, <2>2, <2>3, FrameFacts DEF n
  <2> QED
    BY <1>4, <2>4, <2>5
<1>6. ASSUME NEW k \in 1..n, Armed(st2[k])
      PROVE  Place(st2[k]) \in P2
  <2>1. CASE k = n
    BY <1>2, <1>3, <1>4, <1>6, <2>1 DEF PoisonOK, n
  <2>2. CASE k # n
    <3>1. Place(st[k]) \in P /\ Armed(st[k]) /\ st2[k] = st[k]
      BY <1>3, <1>6, <2>2 DEF PoisonOK, n
    <3> QED
      BY <1>5, <2>2, <3>1
  <2> QED
    BY <2>1, <2>2
<1>7. ASSUME NEW p \in P2
      PROVE  p \in A \/ \E k \in 1..n : Armed(st2[k]) /\ p = Place(st2[k])
  <2>1. CASE p \in P
    <3>1. p \in A \/ \E k \in 1..n : Armed(st[k]) /\ p = Place(st[k])
      BY <2>1 DEF PoisonOK, n
    <3> SUFFICES ASSUME NEW k \in 1..n, Armed(st[k]), p = Place(st[k])
                 PROVE  Armed(st2[k]) /\ p = Place(st2[k])
      BY <3>1
    <3>2. CASE k = n
      BY <1>3, <1>4, <1>7, <3>2 DEF n
    <3>3. CASE k # n
      BY <1>3, <3>3
    <3> QED
      BY <3>2, <3>3
  <2>2. CASE p \notin P
    <3>1. Armed(fr) /\ p = Place(fr)
      BY <1>7, <2>2
    <3> QED
      BY <1>2, <1>3, <3>1
  <2> QED
    BY <2>1, <2>2
<1> QED
  BY <1>3, <1>6, <1>7 DEF PoisonOK, n, st2

\* ... and one that leaves functions.
LEMMA CutPoison ==
  ASSUME NEW st, FramesOK(st), NEW d \in 0..Len(st),
         NEW P, NEW P2, NEW A, NEW A2, PoisonOK(st, P, A), P2 \subseteq P, A \subseteq A2,
         \A k \in 1..d : Armed(st[k]) => Place(st[k]) \in P2,
         \A k \in (d + 1)..Len(st) : Armed(st[k]) /\ Place(st[k]) \in P2 => Place(st[k]) \in A2
  PROVE  PoisonOK(SubSeq(st, 1, d), P2, A2)
<1> DEFINE st2 == SubSeq(st, 1, d)
<1>1. Len(st2) = d /\ \A k \in 1..d : st2[k] = st[k]
  BY CutFrames
<1>2. st \in Seq(Frames)
  BY DEF FramesOK
<1>3. Len(st) \in Nat /\ d \in Nat
  BY <1>2
<1> HIDE DEF st2
<1>4. ASSUME NEW p \in P2
      PROVE  p \in A2 \/ \E k \in 1..d : Armed(st2[k]) /\ p = Place(st2[k])
  <2>1. p \in A \/ \E k \in 1..Len(st) : Armed(st[k]) /\ p = Place(st[k])
    BY <1>4 DEF PoisonOK
  <2> SUFFICES ASSUME NEW k \in 1..Len(st), Armed(st[k]), p = Place(st[k])
               PROVE  p \in A2 \/ \E j \in 1..d : Armed(st2[j]) /\ p = Place(st2[j])
    BY <2>1
  <2>2. CASE k \in 1..d
    BY <1>1, <2>2
  <2>3. CASE k \notin 1..d
    <3>1. k \in (d + 1)..Len(st)
      BY <1>3, <2>3
    <3> QED
      BY <1>4, <3>1
  <2> QED
    BY <2>2, <2>3
<1> QED
  BY <1>1, <1>4 DEF PoisonOK, st2
-----------------------------------------------------------------------------

\* The running frame.
LEMMA TopFrame ==
  ASSUME FramesOK(stack), Depth # 0
  PROVE  /\ Depth \in Nat /\ Depth \in 1..Depth /\ Top \in Frames /\ FrameOK(Top)
         /\ Top.fn \in DOMAIN Code /\ Top.idx \in Indices(Top.fn) /\ Top.base \in Nat
         /\ Top.idx \in Nat /\ Top.guard \in Nat
         /\ \A k \in 1..Depth : k # Depth => k < Depth
<1>1. stack \in Seq(Frames)
  BY DEF FramesOK
<1>2. Depth \in Nat /\ Depth \in 1..Depth /\ \A k \in 1..Depth : k # Depth => k < Depth
  BY <1>1 DEF Depth
<1>3. Top \in Frames /\ FrameOK(Top)
  BY <1>1, <1>2 DEF FramesOK, Depth, Top
<1>4. Top.idx \in Indices(Top.fn)
  BY <1>3 DEF FrameOK
<1>5. Top.fn \in DOMAIN Code /\ Top.base \in Nat /\ Top.idx \in Nat /\ Top.guard \in Nat
  BY <1>3 DEF Frames
<1> QED
  BY <1>2, <1>3, <1>4, <1>5

\* A frame with another index and canary.
LEMMA FrameUpdate ==
  ASSUME NEW fr \in Frames, NEW i \in Nat, NEW g \in Nat
  PROVE  [[fr EXCEPT !.idx = i] EXCEPT !.guard = g]
           = [fn |-> fr.fn, idx |-> i, base |-> fr.base, guard |-> g]
<1> DEFINE u == [fn |-> fr.fn, idx |-> i, base |-> fr.base, guard |-> fr.guard]
<1>1. [fr EXCEPT !.idx = i] = u
  BY DEF Frames
<1>2. u \in Frames /\ u.fn = fr.fn /\ u.idx = i /\ u.base = fr.base
  BY DEF Frames
<1> HIDE DEF u
<1>3. [u EXCEPT !.guard = g] = [fn |-> fr.fn, idx |-> i, base |-> fr.base, guard |-> g]
  BY <1>2 DEF Frames
<1> QED
  BY <1>1, <1>3

\* A step that changes the index and the canary of the running frame.
LEMMA ContinueKeeps ==
  ASSUME FramesOK(stack), Depth # 0, NEW i \in Indices(Top.fn), NEW g \in Nat,
         FrameOK([fn |-> Top.fn, idx |-> i, base |-> Top.base, guard |-> g]),
         Continue(i, g)
  PROVE  LET fr == [fn |-> Top.fn, idx |-> i, base |-> Top.base, guard |-> g]
         IN /\ fr \in Frames /\ stack' = [stack EXCEPT ![Len(stack)] = fr]
            /\ FramesOK(stack') /\ Len(stack') = Len(stack) /\ stack'[Len(stack)] = fr
            /\ \A k \in 1..Len(stack) : k # Len(stack) => stack'[k] = stack[k]
<1> DEFINE fr == [fn |-> Top.fn, idx |-> i, base |-> Top.base, guard |-> g]
<1>1. /\ Top.fn \in DOMAIN Code /\ Top.base \in Nat /\ i \in Nat
      /\ Depth \in 1..Depth /\ Top \in Frames
  <2>1. i \in Nat
    BY DEF Indices
  <2> QED
    BY <2>1, TopFrame
<1>2. fr \in Frames
  BY <1>1 DEF Frames
<1>3. stack \in Seq(Frames)
  BY DEF FramesOK
<1>4. [[Top EXCEPT !.idx = i] EXCEPT !.guard = g] = fr
  BY <1>1, FrameUpdate
<1>5. stack' = [stack EXCEPT ![Len(stack)] = fr]
  <2>1. stack' = [stack EXCEPT ![Depth] = [[Top EXCEPT !.idx = i] EXCEPT !.guard = g]]
    <3>1. stack' = [[stack EXCEPT ![Depth].idx = i] EXCEPT ![Depth].guard = g]
      BY DEF Continue
    <3> QED
      BY <1>1, <1>3, <3>1 DEF Top, Depth
  <2> QED
    BY <1>4, <2>1 DEF Depth
<1>6. Len(stack) # 0 /\ fr.fn = stack[Len(stack)].fn /\ fr.base = stack[Len(stack)].base
  BY DEF Depth, Top
<1> HIDE DEF fr
<1>7. FrameOK(fr)
  BY DEF fr
<1>8. LET st2 == [stack EXCEPT ![Len(stack)] = fr]
      IN /\ FramesOK(st2) /\ Len(st2) = Len(stack) /\ st2[Len(stack)] = fr
         /\ \A k \in 1..Len(stack) : k # Len(stack) => st2[k] = stack[k]
  BY <1>2, <1>6, <1>7, MovedFrame
<1> QED
  BY <1>2, <1>5, <1>8 DEF fr

\* The jmp_buf stays good when the frames below and its own keep their place.
LEMMA SavedKeeps ==
  ASSUME NEW st, NEW st2, NEW sv, SavedOK(st, sv), Len(st) \in Nat, Len(st2) \in Nat,
         sv.depth <= Len(st2), \A k \in 1..sv.depth : st2[k].fn = st[k].fn
  PROVE  SavedOK(st2, sv)
<1>1. sv.depth # 0 => sv.depth \in 1..sv.depth
  BY DEF SavedOK
<1> QED
  BY <1>1 DEF SavedOK
\* What the inserted code does to the running frame's place.
LEMMA Inserted ==
  ASSUME FramesOK(stack), Depth # 0
  PROVE  LET f == Top.fn
             i == Top.idx
         IN /\ Poisons(f) /\ i = PoisonAt(f) => AfterInserted = poisoned \cup {Place(Top)}
            /\ i \in UnpoisonAt(f) => AfterInserted = poisoned \ {Place(Top)}
            /\ ~(Poisons(f) /\ i = PoisonAt(f)) /\ i \notin UnpoisonAt(f) => AfterInserted = poisoned
            /\ i \notin Skip(f) => AfterInserted = poisoned
<1> DEFINE f == Top.fn
           i == Top.idx
<1>1. f \in DOMAIN Code /\ i \in Indices(f)
  BY TopFrame
<1>2. i \in UnpoisonAt(f) => Ins.slot = PoisonSlot(f) /\ Poisons(f) /\ InsAt(f, i).op = "read_canary"
  BY <1>1, Unchecked DEF Ins
<1>3. Poisons(f) => InsAt(f, PoisonAt(f)).op = "load_canary"
  BY <1>1, LoadInside
<1>4. i \in UnpoisonAt(f) => ~(Poisons(f) /\ i = PoisonAt(f))
  BY <1>2, <1>3
<1>5. i \notin Skip(f) => ~(Poisons(f) /\ i = PoisonAt(f)) /\ i \notin UnpoisonAt(f)
  BY <1>2 DEF Skip
<1>6. Poisons(f) /\ i = PoisonAt(f) => AfterInserted = poisoned \cup {Place(Top)}
  BY DEF AfterInserted, PoisonPlace, Place
<1>7. i \in UnpoisonAt(f) => AfterInserted = poisoned \ {Place(Top)}
  BY <1>2, <1>4 DEF AfterInserted, Place
<1>8. ~(Poisons(f) /\ i = PoisonAt(f)) /\ i \notin UnpoisonAt(f) => AfterInserted = poisoned
  BY DEF AfterInserted
<1> QED
  BY <1>5, <1>6, <1>7, <1>8

\* The check in front of an instruction finds its place poisoned.
CheckFires == /\ Ins.slot # 0 /\ Top.idx \notin Skip(Top.fn)
           /\ Top.base + Ins.slot \in AfterInserted

\* A read of the canary that the pass does not recognize is always reported.
LEMMA UnknownRead ==
  ASSUME FramesOK(stack), Depth # 0, PoisonOK(stack, poisoned, abandoned),
         Poisons(Top.fn), Ins.op = "read_canary", Top.idx \notin UnpoisonAt(Top.fn)
  PROVE  CheckFires
<1> DEFINE f == Top.fn
           i == Top.idx
<1>1. f \in DOMAIN Code /\ i \in Indices(f) /\ Depth \in 1..Depth
  BY TopFrame
<1>2. Ins.slot = PoisonSlot(f) /\ Ins.slot # 0
  <2>1. InsAt(f, i).slot = PoisonSlot(f)
    BY <1>1, Unchecked DEF Ins
  <2>2. PoisonSlot(f) \in 1..(Size[f] - 1)
    BY <1>1, Recognized
  <2> QED
    BY <2>1, <2>2 DEF Ins
<1>3. i \notin Skip(f)
  BY <1>1, Unchecked DEF Ins
<1>4. Armed(Top)
  BY <1>1, ArmedFlow DEF Armed, Ins
<1>5. Place(Top) \in poisoned
  BY <1>1, <1>4 DEF PoisonOK, Depth, Top
<1>6. AfterInserted = poisoned
  BY <1>3, Inserted
<1> QED
  BY <1>2, <1>3, <1>5, <1>6 DEF CheckFires, Place

\* An instruction that stays in the function, when its check finds nothing.
LEMMA PlainMoves ==
  ASSUME FramesOK(stack), SavedOK(stack, saved), PoisonOK(stack, poisoned, abandoned),
         Plain, ~CheckFires
  PROVE  /\ FramesOK(stack') /\ SavedOK(stack', saved') /\ PoisonOK(stack', poisoned', abandoned')
         /\ UNCHANGED report
<1> DEFINE f == Top.fn
           i == Top.idx
           g == CASE Ins.op = "store_canary" -> Top.base + Ins.slot
                  [] Ins.op = "read_canary"  -> 0
                  [] OTHER -> Top.guard
           fr == [fn |-> f, idx |-> i + 1, base |-> Top.base, guard |-> g]
<1>1. /\ Depth # 0 /\ Ins.op \in Movq \cup CanaryFirst \cup {"access", "other"}
      /\ UNCHANGED saved /\ UNCHANGED abandoned
  BY DEF Plain, Running
<1>2. poisoned' = AfterInserted
  BY DEF Plain
<1>3. Continue(i + 1, g) /\ UNCHANGED report
  <2>1. ~(Ins.slot # 0 /\ Top.idx \notin Skip(Top.fn) /\ Top.base + Ins.slot \in poisoned')
    BY <1>2 DEF CheckFires
  <2> QED
    BY <2>1 DEF Plain
<1>4. /\ f \in DOMAIN Code /\ i \in Indices(f) /\ Depth \in 1..Depth /\ i \in Nat
      /\ Top.base \in Nat /\ Top.guard \in Nat /\ Top \in Frames /\ FrameOK(Top)
  BY <1>1, TopFrame
<1>5. Follows(f, i) = {i + 1} /\ i + 1 \in Indices(f)
  <2>1. Follows(f, i) = {i + 1}
    BY <1>1 DEF Follows, Ins, Movq, CanaryFirst
  <2> QED
    BY <1>4, <2>1, Shape
<1>6. g \in Nat
  <2>1. Ins.op = "store_canary" => Ins.slot \in 1..(Size[f] - 1) /\ Size[f] \in Nat
    BY <1>4, Shape DEF Ins
  <2>2. Ins.op = "store_canary" => Top.base + Ins.slot \in Nat
    BY <1>4, <2>1
  <2> QED
    BY <1>4, <2>2
<1>7. FrameOK(fr)
  <2>1. SUFFICES ASSUME Poisons(f)
                 PROVE  g = IF i + 1 \in Guarded(f) THEN Place(Top) ELSE 0
    BY <1>5 DEF FrameOK, Place
  <2>2. Top.guard = IF i \in Guarded(f) THEN Place(Top) ELSE 0
    BY <1>4, <2>1 DEF FrameOK, Place
  <2>3. CASE Ins.op = "store_canary"
    <3>1. i + 1 \in Guarded(f)
      BY <1>4, <2>1, <2>3, GuardFlow DEF Ins
    <3>2. Ins.slot = PoisonSlot(f)
      BY <1>4, <2>1, <2>3, Recognized DEF Ins, PoisonSlot
    <3> QED
      BY <2>3, <3>1, <3>2 DEF Place
  <2>4. CASE Ins.op = "read_canary"
    BY <1>4, <2>1, <2>4, GuardFlow DEF Ins
  <2>5. CASE Ins.op \notin {"store_canary", "read_canary"}
    <3>1. i + 1 \in Guarded(f) <=> i \in Guarded(f)
      BY <1>4, <1>5, <2>1, <2>5, GuardFlow DEF Ins
    <3> QED
      BY <2>2, <2>5, <3>1
  <2> QED
    BY <2>3, <2>4, <2>5
<1>8. Place(fr) = Place(Top) /\ (Armed(fr) <=> i + 1 \in ArmedAt(f))
  BY DEF Place, Armed
<1>9. \/ (Armed(fr) <=> Armed(Top)) /\ poisoned' = poisoned
      \/ Armed(fr) /\ poisoned' = poisoned \cup {Place(fr)}
      \/ ~Armed(fr) /\ Poisons(fr.fn) /\ poisoned' = poisoned \ {Place(fr)}
  <2>1. CASE Poisons(f) /\ i = PoisonAt(f)
    BY <1>1, <1>2, <1>4, <1>8, <2>1, ArmedFlow, Inserted
  <2>2. CASE i \in UnpoisonAt(f)
    <3>1. Poisons(f) /\ InsAt(f, i).op = "read_canary"
      BY <1>4, <2>2, Unchecked
    <3> QED
      BY <1>1, <1>2, <1>4, <1>8, <2>2, <3>1, ArmedFlow, Inserted
  <2>3. CASE ~(Poisons(f) /\ i = PoisonAt(f)) /\ i \notin UnpoisonAt(f)
    <3>1. poisoned' = poisoned
      BY <1>1, <1>2, <2>3, Inserted
    <3>2. CASE ~Poisons(f)
      BY <1>8, <3>1, <3>2 DEF Armed, ArmedAt
    <3>3. CASE Poisons(f)
      <4>1. Ins.op # "read_canary"
        BY <1>1, <2>3, <3>3, UnknownRead
      <4>2. i + 1 \in ArmedAt(f) <=> i \in ArmedAt(f)
        BY <1>4, <1>5, <2>3, <4>1, ArmedFlow DEF Ins
      <4> QED
        BY <1>8, <3>1, <4>2 DEF Armed
    <3> QED
      BY <3>2, <3>3
  <2> QED
    BY <2>1, <2>2, <2>3
<1> HIDE DEF g
<1>10. /\ fr \in Frames /\ stack' = [stack EXCEPT ![Len(stack)] = fr]
       /\ FramesOK(stack') /\ Len(stack') = Len(stack) /\ stack'[Len(stack)] = fr
       /\ \A k \in 1..Len(stack) : k # Len(stack) => stack'[k] = stack[k]
  BY <1>1, <1>3, <1>5, <1>6, <1>7, ContinueKeeps
<1>11. fr.fn = stack[Len(stack)].fn /\ fr.base = stack[Len(stack)].base /\ Len(stack) # 0
  BY <1>1 DEF Top, Depth
<1> HIDE DEF fr
<1>12. PoisonOK(stack', poisoned', abandoned)
  BY <1>7, <1>9, <1>10, <1>11, MovedPoison DEF Top, Depth
<1>13. SavedOK(stack', saved)
  <2>1. \A k \in 1..Len(stack) : stack'[k].fn = stack[k].fn
    BY <1>10, <1>11
  <2>2. Len(stack) \in Nat
    BY <1>1, TopFrame DEF Depth
  <2>3. saved.depth \in Nat /\ saved.depth <= Len(stack)
    BY DEF SavedOK
  <2>4. \A k \in 1..saved.depth : stack'[k].fn = stack[k].fn
    BY <2>1, <2>2, <2>3
  <2> QED
    BY <1>10, <2>2, <2>3, <2>4, SavedKeeps
<1> QED
  BY <1>1, <1>3, <1>10, <1>12, <1>13
\* A report names a poisoned place that the instruction has no business with.
LEMMA ReportIsRight ==
  ASSUME FramesOK(stack), PoisonOK(stack, poisoned, abandoned), Plain, CheckFires
  PROVE  UNCHANGED <<stack, poisoned, saved, abandoned>> /\ NoFalseReport' /\ report' # NoReport
<1> DEFINE f == Top.fn
           i == Top.idx
           place == Top.base + Ins.slot
<1>1. /\ Depth # 0 /\ Ins.op \in Movq \cup CanaryFirst \cup {"access", "other"}
      /\ UNCHANGED saved /\ UNCHANGED abandoned /\ poisoned' = AfterInserted
  BY DEF Plain, Running
<1>2. i \notin Skip(f) /\ Ins.slot # 0 /\ place \in poisoned /\ poisoned' = poisoned
  BY <1>1, Inserted DEF CheckFires
<1>3. /\ UNCHANGED stack
      /\ report' = [place |-> place, op |-> Ins.op, next |-> InsAt(f, i + 1).op]
  BY <1>1, <1>2 DEF Plain
<1>4. /\ f \in DOMAIN Code /\ i \in Indices(f) /\ Depth \in 1..Depth /\ Depth \in Nat
      /\ Top.base \in Nat /\ Top \in Frames /\ FrameOK(Top)
      /\ \A k \in 1..Depth : k # Depth => k < Depth
  BY <1>1, TopFrame
<1>5. Ins.op \in Movq \cup {"access"} /\ Ins.op # "other"
  <2>1. Ins.op \in Movq \cup {"access"}
    BY <1>2, <1>4, Shape DEF Ins
  <2> QED
    BY <2>1 DEF Movq
<1>6. ASSUME NEW k \in 1..Depth, Armed(stack[k]), place = Place(stack[k])
      PROVE  \/ Ins.op = "read_canary" /\ InsAt(f, i + 1).op = "sub_canary"
             \/ Ins.op \in {"movq", "access"} /\ place \in Canaries(1)
  <2>1. stack[k] \in Frames /\ FrameOK(stack[k])
    BY <1>6 DEF FramesOK, Depth
  <2>2. Poisons(stack[k].fn) /\ place \in (stack[k].base + 1)..(Rsp(stack[k]) - 1)
    BY <1>6, <2>1, FrameFacts
  <2>3. ASSUME Ins.op \in {"store_canary", "read_canary"}
        PROVE  k = Depth
    <3>1. Ins.slot \in 1..(Size[f] - 1) /\ Size[f] \in Nat
      BY <1>4, <2>3, Shape DEF Ins
    <3>2. Top.base < place
      BY <1>4, <3>1
    <3>3. CASE k # Depth
      <4>1. k < Depth
        BY <1>4, <3>3
      <4>2. Rsp(stack[k]) <= Top.base
        BY <1>4, <4>1, PlacesDiffer DEF Depth, Top
      <4>3. Rsp(stack[k]) \in Nat /\ stack[k].base \in Nat
        BY <2>1, FrameFacts
      <4> QED
        BY <1>4, <2>2, <3>2, <4>2, <4>3
    <3> QED
      BY <3>3
  <2>4. CASE Ins.op = "store_canary"
    <3>1. Poisons(f)
      BY <2>2, <2>3, <2>4 DEF Top
    <3> QED
      BY <1>2, <1>4, <2>4, <3>1, Unchecked DEF Ins
  <2>5. CASE Ins.op = "read_canary"
    <3>1. Poisons(f)
      BY <2>2, <2>3, <2>5 DEF Top
    <3> QED
      BY <1>2, <1>4, <2>5, <3>1, Unchecked DEF Ins
  <2>6. CASE Ins.op \in {"movq", "access"}
    <3>1. InsAt(stack[k].fn, stack[k].idx).op # "store_canary"
      <4>1. CASE k = Depth
        BY <2>6, <4>1 DEF Ins, Top
      <4>2. CASE k # Depth
        <5>1. AfterOp(stack[k].fn, stack[k].idx, "call")
          BY <1>4, <4>2 DEF FramesOK, Depth
        <5>2. stack[k].fn \in DOMAIN Code /\ stack[k].idx \in Indices(stack[k].fn)
          BY <2>1, FrameFacts DEF FrameOK
        <5> QED
          BY <2>2, <5>1, <5>2, WaitingFrame
      <4> QED
        BY <4>1, <4>2
    <3>2. stack[k].guard = place
      BY <1>6, <2>1, <3>1, FrameFacts
    <3>3. place # 0
      BY <2>1, <2>2, FrameFacts
    <3>4. k \in 1..Depth
      BY <1>6
    <3> QED
      BY <2>2, <2>6, <3>2, <3>3, <3>4 DEF Canaries
  <2> QED
    BY <1>5, <2>4, <2>5, <2>6 DEF Movq
<1>7. \/ place \in abandoned
      \/ Ins.op = "read_canary" /\ InsAt(f, i + 1).op = "sub_canary"
      \/ Ins.op \in {"movq", "access"} /\ place \in Canaries(1)
  BY <1>2, <1>6 DEF PoisonOK, Depth
<1>8. Canaries(1)' = Canaries(1)
  BY <1>3 DEF Canaries, Depth
<1>9. /\ report'.place = place /\ report'.op = Ins.op /\ report'.next = InsAt(f, i + 1).op
      /\ report' # NoReport
  BY <1>3, <1>5 DEF NoReport
<1> QED
  BY <1>1, <1>2, <1>3, <1>7, <1>8, <1>9 DEF NoFalseReport

\* An instruction other than the pass's own that moves inside the function.
LEMMA OtherMoves ==
  ASSUME FramesOK(stack), PoisonOK(stack, poisoned, abandoned), Depth # 0,
         NEW i \in Follows(Top.fn, Top.idx),
         Ins.op \in {"branch", "setjmp", "call"}
  PROVE  LET fr == [fn |-> Top.fn, idx |-> i, base |-> Top.base, guard |-> Top.guard]
             st2 == [stack EXCEPT ![Len(stack)] = fr]
         IN /\ i \in Indices(Top.fn) /\ fr \in Frames /\ FrameOK(fr)
            /\ FramesOK(st2) /\ Len(st2) = Len(stack) /\ st2[Len(stack)] = fr
            /\ \A k \in 1..Len(stack) : k # Len(stack) => st2[k] = stack[k]
            /\ PoisonOK(st2, poisoned, abandoned)
<1> DEFINE f == Top.fn
           fr == [fn |-> f, idx |-> i, base |-> Top.base, guard |-> Top.guard]
<1>1. /\ f \in DOMAIN Code /\ Top.idx \in Indices(f) /\ Depth \in 1..Depth
      /\ Top.base \in Nat /\ Top.guard \in Nat /\ Top \in Frames /\ FrameOK(Top)
  BY TopFrame
<1>2. i \in Indices(f)
  BY <1>1, Shape
<1>3. i \in Nat
  BY <1>2 DEF Indices
<1>4. Poisons(f) => ~(Top.idx = PoisonAt(f))
  BY <1>1, LoadInside DEF Ins
<1>5. i \in ArmedAt(f) <=> Top.idx \in ArmedAt(f)
  BY <1>1, <1>4, ArmedFlow DEF Ins
<1>6. Poisons(f) => (i \in Guarded(f) <=> Top.idx \in Guarded(f))
  BY <1>1, GuardFlow DEF Ins
<1>7. fr \in Frames
  BY <1>1, <1>3 DEF Frames
<1>8. FrameOK(fr)
  BY <1>1, <1>2, <1>6 DEF FrameOK
<1>9. fr.fn = stack[Len(stack)].fn /\ fr.base = stack[Len(stack)].base /\ Len(stack) # 0
  BY DEF Top, Depth
<1>10. Armed(fr) <=> Armed(stack[Len(stack)])
  BY <1>5 DEF Armed, Top, Depth
<1> HIDE DEF fr
<1>11. PoisonOK([stack EXCEPT ![Len(stack)] = fr], poisoned, abandoned)
  BY <1>7, <1>8, <1>9, <1>10, MovedPoison
<1>12. LET st2 == [stack EXCEPT ![Len(stack)] = fr]
       IN /\ FramesOK(st2) /\ Len(st2) = Len(stack) /\ st2[Len(stack)] = fr
          /\ \A k \in 1..Len(stack) : k # Len(stack) => st2[k] = stack[k]
  BY <1>7, <1>8, <1>9, MovedFrame
<1> QED
  BY <1>2, <1>7, <1>8, <1>11, <1>12 DEF fr

\* A branch, either way.
LEMMA BranchKeeps ==
  ASSUME FramesOK(stack), SavedOK(stack, saved), PoisonOK(stack, poisoned, abandoned), Branch
  PROVE  FramesOK(stack') /\ SavedOK(stack', saved') /\ PoisonOK(stack', poisoned', abandoned')
<1>1. PICK i \in {Top.idx + 1, Ins.target} : Continue(i, Top.guard)
  BY DEF Branch
<1>2. Ins.op = "branch" /\ Depth # 0 /\ UNCHANGED <<poisoned, saved, abandoned>>
  BY DEF Branch, Running
<1>3. i \in Follows(Top.fn, Top.idx)
  BY <1>1, <1>2 DEF Follows, Ins
<1> DEFINE fr == [fn |-> Top.fn, idx |-> i, base |-> Top.base, guard |-> Top.guard]
           st2 == [stack EXCEPT ![Len(stack)] = fr]
<1>4. /\ i \in Indices(Top.fn) /\ fr \in Frames /\ FrameOK(fr)
      /\ FramesOK(st2) /\ Len(st2) = Len(stack) /\ st2[Len(stack)] = fr
      /\ \A k \in 1..Len(stack) : k # Len(stack) => st2[k] = stack[k]
      /\ PoisonOK(st2, poisoned, abandoned)
  BY <1>2, <1>3, OtherMoves
<1>5. Top.guard \in Nat /\ Len(stack) \in Nat
  BY <1>2, TopFrame DEF Depth
<1>6. stack' = st2
  BY <1>1, <1>2, <1>4, <1>5, ContinueKeeps
<1>7. \A k \in 1..Len(stack) : st2[k].fn = stack[k].fn
  <2>1. fr.fn = stack[Len(stack)].fn
    BY DEF Top, Depth
  <2> QED
    BY <1>4, <2>1
<1> HIDE DEF fr, st2
<1>8. SavedOK(st2, saved)
  <2>1. saved.depth \in Nat /\ saved.depth <= Len(stack)
    BY DEF SavedOK
  <2>2. \A k \in 1..saved.depth : st2[k].fn = stack[k].fn
    BY <1>5, <1>7, <2>1
  <2> QED
    BY <1>4, <1>5, <2>1, <2>2, SavedKeeps
<1> QED
  BY <1>2, <1>4, <1>6, <1>8

\* setjmp fills the jmp_buf with the frame it runs in.
LEMMA SetjmpKeeps ==
  ASSUME FramesOK(stack), SavedOK(stack, saved), PoisonOK(stack, poisoned, abandoned), Setjmp
  PROVE  FramesOK(stack') /\ SavedOK(stack', saved') /\ PoisonOK(stack', poisoned', abandoned')
<1> DEFINE i == Top.idx + 1
           fr == [fn |-> Top.fn, idx |-> i, base |-> Top.base, guard |-> Top.guard]
           st2 == [stack EXCEPT ![Len(stack)] = fr]
<1>1. /\ Ins.op = "setjmp" /\ Depth # 0 /\ UNCHANGED <<poisoned, abandoned>>
      /\ Continue(i, Top.guard) /\ saved' = [depth |-> Depth, idx |-> i]
  BY DEF Setjmp, Running
<1>2. i \in Follows(Top.fn, Top.idx)
  BY <1>1 DEF Follows, Ins
<1>3. /\ i \in Indices(Top.fn) /\ fr \in Frames /\ FrameOK(fr)
      /\ FramesOK(st2) /\ Len(st2) = Len(stack) /\ st2[Len(stack)] = fr
      /\ PoisonOK(st2, poisoned, abandoned)
  BY <1>1, <1>2, OtherMoves
<1>4. Top.guard \in Nat /\ Depth \in Nat /\ Top.idx \in Nat /\ Top.idx \in Indices(Top.fn)
  BY <1>1, TopFrame
<1>5. stack' = st2
  BY <1>1, <1>3, <1>4, ContinueKeeps
<1>6. st2[Len(stack)].fn = Top.fn
  BY <1>3
<1> HIDE DEF fr, st2
<1>7. AfterOp(Top.fn, i, "setjmp")
  BY <1>1, <1>4 DEF AfterOp, Ins
<1>8. SavedOK(st2, saved')
  <2>1. saved' \in [depth : Nat, idx : Nat] /\ saved'.depth = Depth /\ saved'.idx = i
    BY <1>1, <1>4
  <2>2. st2[saved'.depth].fn = Top.fn
    BY <1>6, <2>1 DEF Depth
  <2>3. saved'.depth <= Len(st2)
    BY <1>3, <1>4, <2>1 DEF Depth
  <2> QED
    BY <1>3, <1>7, <2>1, <2>2, <2>3 DEF SavedOK
<1> QED
  BY <1>1, <1>3, <1>5, <1>8
\* A new frame starts above the one that called it, and nothing of it is armed.
LEMMA PushedFrame ==
  ASSUME NEW st, FramesOK(st), Len(st) # 0, NEW fr \in Frames, FrameOK(fr), ~Armed(fr),
         AfterOp(st[Len(st)].fn, st[Len(st)].idx, "call"), Rsp(st[Len(st)]) <= fr.base,
         NEW P, NEW A, PoisonOK(st, P, A)
  PROVE  LET st2 == Append(st, fr)
         IN /\ FramesOK(st2) /\ PoisonOK(st2, P, A) /\ Len(st2) = Len(st) + 1
            /\ \A k \in 1..Len(st) : st2[k] = st[k]
<1> DEFINE n == Len(st)
           st2 == Append(st, fr)
<1>1. st \in Seq(Frames)
  BY DEF FramesOK
<1>2. n \in Nat /\ n \in 1..n /\ (\A k \in 1..n : k # n => k < n)
      /\ \A k \in 1..(n + 1) : k \in 1..n \/ k = n + 1
  BY <1>1
<1>3. st2 \in Seq(Frames) /\ Len(st2) = n + 1 /\ st2[n + 1] = fr
      /\ \A k \in 1..n : st2[k] = st[k]
  BY <1>1
<1> HIDE DEF n, st2
<1>4. \A k \in 1..(n + 1) : FrameOK(st2[k])
  BY <1>2, <1>3 DEF FramesOK, n
<1>5. ASSUME NEW j \in 1..(n + 1), NEW k \in 1..(n + 1), j < k
      PROVE  Rsp(st2[j]) <= st2[k].base /\ AfterOp(st2[j].fn, st2[j].idx, "call")
  <2>1. j \in 1..n
    BY <1>2, <1>5
  <2>2. CASE k \in 1..n
    BY <1>3, <1>5, <2>1, <2>2 DEF FramesOK, n
  <2>3. CASE k = n + 1
    <3>1. CASE j = n
      BY <1>3, <2>1, <2>3, <3>1 DEF n
    <3>2. CASE j # n
      <4>1. j < n
        BY <1>2, <2>1, <3>2
      <4>2. Rsp(st[j]) <= Rsp(st[n]) /\ AfterOp(st[j].fn, st[j].idx, "call")
        BY <1>2, <2>1, <4>1, PlacesDiffer DEF FramesOK, n
      <4>3. Rsp(st[j]) \in Nat /\ Rsp(st[n]) \in Nat /\ fr.base \in Nat
        <5>1. st[j] \in Frames /\ FrameOK(st[j]) /\ st[n] \in Frames /\ FrameOK(st[n])
          BY <1>2, <2>1 DEF FramesOK, n
        <5> QED
          BY <5>1, FrameFacts
      <4>4. Rsp(st[j]) <= fr.base
        BY <4>2, <4>3 DEF n
      <4> QED
        BY <1>3, <2>1, <2>3, <4>2, <4>4
    <3> QED
      BY <3>1, <3>2
  <2> QED
    BY <1>2, <2>2, <2>3
<1>6. FramesOK(st2)
  BY <1>3, <1>4, <1>5 DEF FramesOK
<1>7. \A k \in 1..n : k \in 1..(n + 1)
  BY <1>2
<1>8. PoisonOK(st2, P, A)
  <2>1. ASSUME NEW k \in 1..(n + 1), Armed(st2[k])
        PROVE  Place(st2[k]) \in P
    <3>1. k \in 1..n
      BY <1>2, <1>3, <2>1
    <3> QED
      BY <1>3, <2>1, <3>1 DEF PoisonOK, n
  <2>2. ASSUME NEW p \in P
        PROVE  p \in A \/ \E k \in 1..(n + 1) : Armed(st2[k]) /\ p = Place(st2[k])
    <3>1. p \in A \/ \E k \in 1..n : Armed(st[k]) /\ p = Place(st[k])
      BY <2>2 DEF PoisonOK, n
    <3> QED
      BY <1>3, <1>7, <3>1
  <2> QED
    BY <1>3, <2>1, <2>2 DEF PoisonOK
<1> QED
  BY <1>3, <1>6, <1>8 DEF n, st2

\* A call leaves its frame behind the call.
LEMMA CallKeeps ==
  ASSUME FramesOK(stack), SavedOK(stack, saved), PoisonOK(stack, poisoned, abandoned), Call
  PROVE  FramesOK(stack') /\ SavedOK(stack', saved') /\ PoisonOK(stack', poisoned', abandoned')
<1> DEFINE i == Top.idx + 1
           fr == [fn |-> Top.fn, idx |-> i, base |-> Top.base, guard |-> Top.guard]
           st2 == [stack EXCEPT ![Len(stack)] = fr]
<1>1. Ins.op = "call" /\ Depth # 0 /\ UNCHANGED <<poisoned, saved, abandoned>>
  BY DEF Call, Running
<1>2. i \in Follows(Top.fn, Top.idx)
  BY <1>1 DEF Follows, Ins
<1>3. /\ i \in Indices(Top.fn) /\ fr \in Frames /\ FrameOK(fr)
      /\ FramesOK(st2) /\ Len(st2) = Len(stack) /\ st2[Len(stack)] = fr
      /\ \A k \in 1..Len(stack) : k # Len(stack) => st2[k] = stack[k]
      /\ PoisonOK(st2, poisoned, abandoned)
  BY <1>1, <1>2, OtherMoves
<1>4. /\ Top.guard \in Nat /\ Depth \in Nat /\ Top.idx \in Nat /\ Top.idx \in Indices(Top.fn)
      /\ Top \in Frames /\ FrameOK(Top) /\ Top.base \in Nat
  BY <1>1, TopFrame
<1>5. PICK f \in DOMAIN Code \ {Main} :
        stack' = Append([stack EXCEPT ![Depth].idx = @ + 1], Frame(f, Rsp(Top)))
  BY DEF Call
<1>6. [stack EXCEPT ![Depth].idx = @ + 1] = st2
  <2>1. [Top EXCEPT !.idx = @ + 1] = fr
    BY <1>4 DEF Frames
  <2>2. [stack EXCEPT ![Depth].idx = @ + 1] = [stack EXCEPT ![Depth] = [Top EXCEPT !.idx = @ + 1]]
    BY DEF Top, Depth
  <2> QED
    BY <2>1, <2>2 DEF Depth
<1> DEFINE new == Frame(f, Rsp(Top))
<1>7. new \in Frames /\ new.base = Rsp(Top) /\ FrameOK(new) /\ ~Armed(new)
  <2>1. Rsp(Top) \in Nat
    BY <1>4, FrameFacts
  <2>2. new \in Frames /\ new.base = Rsp(Top) /\ new.fn = f /\ new.idx = 1 /\ new.guard = 0
    BY <1>5, <2>1 DEF Frames, Frame
  <2>3. 1 \in Indices(f)
    BY <1>5, Shape
  <2>4. 1 \notin ArmedAt(f) /\ (Poisons(f) => 1 \notin Guarded(f))
    BY <1>5, <2>3, ArmedFlow, GuardFlow
  <2> HIDE DEF new
  <2> QED
    BY <2>2, <2>3, <2>4 DEF FrameOK, Armed
<1>8. AfterOp(Top.fn, i, "call")
  BY <1>1, <1>4 DEF AfterOp, Ins
<1>9. st2[Len(stack)].fn = Top.fn /\ st2[Len(stack)].idx = i /\ Rsp(st2[Len(stack)]) = Rsp(Top)
  <2>1. fr.fn = Top.fn /\ fr.idx = i /\ Rsp(fr) = Rsp(Top)
    BY DEF Rsp
  <2> HIDE DEF fr, st2, i
  <2> QED
    BY <1>3, <2>1
<1>10. \A k \in 1..Len(stack) : st2[k].fn = stack[k].fn
  <2>1. fr.fn = stack[Len(stack)].fn
    BY DEF Top, Depth
  <2> QED
    BY <1>3, <2>1
<1> HIDE DEF fr, st2
<1>11. stack' = Append(st2, new)
  BY <1>5, <1>6
<1>12. Rsp(Top) <= Rsp(Top)
  BY <1>4, FrameFacts
<1> HIDE DEF new
<1>13. /\ FramesOK(stack') /\ PoisonOK(stack', poisoned, abandoned) /\ Len(stack') = Len(stack) + 1
       /\ \A k \in 1..Len(stack) : stack'[k] = st2[k]
  <2>1. Len(st2) # 0 /\ Len(st2) = Len(stack)
    BY <1>1, <1>3 DEF Depth
  <2> QED
    BY <1>3, <1>7, <1>8, <1>9, <1>11, <1>12, <2>1, PushedFrame
<1>14. SavedOK(stack', saved)
  <2>1. saved.depth \in Nat /\ saved.depth <= Len(stack) /\ Len(stack) \in Nat
    BY <1>4 DEF SavedOK, Depth
  <2>2. \A k \in 1..saved.depth : stack'[k].fn = stack[k].fn
    BY <1>10, <1>13, <2>1
  <2>3. Len(stack') \in Nat /\ saved.depth <= Len(stack')
    BY <1>13, <2>1
  <2> QED
    BY <2>1, <2>2, <2>3, SavedKeeps
<1> QED
  BY <1>1, <1>13, <1>14

\* The jmp_buf after frames are left.
LEMMA CutSaved ==
  ASSUME FramesOK(stack), SavedOK(stack, saved), NEW d \in 0..Depth, CutTo(d)
  PROVE  SavedOK(SubSeq(stack, 1, d), saved')
<1> DEFINE st2 == SubSeq(stack, 1, d)
<1>1. Len(st2) = d /\ \A k \in 1..d : k \in 1..Len(stack) /\ st2[k] = stack[k]
  BY CutFrames DEF Depth
<1>2. saved \in [depth : Nat, idx : Nat] /\ saved.depth \in Nat
  BY DEF SavedOK
<1> HIDE DEF st2
<1>3. d \in Nat /\ Len(stack) \in Nat
  <2>1. stack \in Seq(Frames)
    BY DEF FramesOK
  <2> QED
    BY <2>1 DEF Depth
<1>4. CASE saved.depth > d
  <2>1. saved' = NoJump
    BY <1>4 DEF CutTo
  <2> QED
    BY <1>1, <1>3, <2>1 DEF SavedOK, NoJump
<1>5. CASE ~(saved.depth > d)
  <2>1. saved' = saved /\ saved.depth <= d
    BY <1>2, <1>3, <1>5 DEF CutTo
  <2>2. \A k \in 1..saved.depth : st2[k].fn = stack[k].fn
    BY <1>1, <1>2, <1>3, <2>1
  <2>3. saved.depth <= Len(st2)
    BY <1>1, <2>1
  <2> QED
    BY <1>1, <1>3, <2>1, <2>2, <2>3, SavedKeeps DEF st2
<1> QED
  BY <1>4, <1>5 DEF st2

\* A function that returns has read its canary.
LEMMA RetKeeps ==
  ASSUME FramesOK(stack), SavedOK(stack, saved), PoisonOK(stack, poisoned, abandoned), Ret
  PROVE  FramesOK(stack') /\ SavedOK(stack', saved') /\ PoisonOK(stack', poisoned', abandoned')
<1> DEFINE d == Depth - 1
<1>1. /\ Ins.op = "ret" /\ Depth # 0 /\ UNCHANGED <<poisoned, abandoned>>
      /\ stack' = SubSeq(stack, 1, d) /\ CutTo(d)
  BY DEF Ret, Running
<1>2. Depth \in Nat /\ Depth \in 1..Depth /\ Top.fn \in DOMAIN Code /\ Top.idx \in Indices(Top.fn)
  BY <1>1, TopFrame
<1>3. d \in 0..Depth /\ d \in 0..Len(stack)
  BY <1>2 DEF Depth
<1>4. ~Armed(stack[Depth])
  BY <1>1, <1>2, ArmedFlow DEF Armed, Ins, Top
<1>5. FramesOK(stack')
  BY <1>1, <1>3, CutFrames
<1>6. SavedOK(stack', saved')
  BY <1>1, <1>3, CutSaved
<1>7. PoisonOK(stack', poisoned, abandoned)
  <2>1. \A k \in 1..d : Armed(stack[k]) => Place(stack[k]) \in poisoned
    <3>1. \A k \in 1..d : k \in 1..Len(stack)
      BY <1>2 DEF Depth
    <3> QED
      BY <3>1 DEF PoisonOK
  <2>2. \A k \in (d + 1)..Len(stack) : ~Armed(stack[k])
    <3>1. \A k \in (d + 1)..Len(stack) : k = Depth
      BY <1>2 DEF Depth
    <3> QED
      BY <1>4, <3>1
  <2>3. PoisonOK(SubSeq(stack, 1, d), poisoned, abandoned)
    <3> HIDE DEF d
    <3> QED
      BY <1>3, <2>1, <2>2, CutPoison
  <2> QED
    BY <1>1, <2>3
<1> QED
  BY <1>1, <1>5, <1>6, <1>7
\* A frame above depth d that was armed is where its canary is: an unwinding
\* step takes it for abandoned.
LEMMA ArmedAbove ==
  ASSUME FramesOK(stack), NEW d \in Nat, NEW k \in (d + 1)..Len(stack), Armed(stack[k]),
         Depth # 0, Ins.op # "store_canary"
  PROVE  Place(stack[k]) \in Canaries(d + 1)
<1>1. Depth \in Nat /\ Len(stack) = Depth
  BY TopFrame DEF Depth
<1>2. k \in 1..Depth /\ k \in (d + 1)..Depth
  BY <1>1
<1>3. stack[k] \in Frames /\ FrameOK(stack[k])
  BY <1>2 DEF FramesOK, Depth
<1>4. Poisons(stack[k].fn) /\ Place(stack[k]) # 0
  <2>1. /\ Poisons(stack[k].fn) /\ stack[k].base \in Nat
        /\ Place(stack[k]) \in (stack[k].base + 1)..(Rsp(stack[k]) - 1)
    BY <1>3, FrameFacts
  <2> QED
    BY <2>1
<1>5. InsAt(stack[k].fn, stack[k].idx).op # "store_canary"
  <2>1. CASE k = Depth
    BY <2>1 DEF Ins, Top
  <2>2. CASE k # Depth
    <3>1. k < Depth /\ Depth \in 1..Depth
      BY <1>1, <1>2, <2>2
    <3>2. AfterOp(stack[k].fn, stack[k].idx, "call")
      BY <1>2, <3>1 DEF FramesOK, Depth
    <3>3. stack[k].fn \in DOMAIN Code /\ stack[k].idx \in Indices(stack[k].fn)
      BY <1>3, FrameFacts DEF FrameOK
    <3> QED
      BY <1>4, <3>2, <3>3, WaitingFrame
  <2> QED
    BY <2>1, <2>2
<1>6. stack[k].guard = Place(stack[k])
  BY <1>3, <1>5, FrameFacts
<1> QED
  BY <1>2, <1>4, <1>6 DEF Canaries

\* A frame the program jumps back to: setjmp returns where the call stood, so
\* its canary is as it was.
LEMMA JumpedTo ==
  ASSUME FramesOK(stack), SavedOK(stack, saved), saved.depth \in 1..(Depth - 1), Depth # 0,
         NEW P, NEW A, PoisonOK(SubSeq(stack, 1, saved.depth), P, A)
  PROVE  LET st2 == [SubSeq(stack, 1, saved.depth) EXCEPT ![saved.depth].idx = saved.idx]
         IN FramesOK(st2) /\ SavedOK(st2, saved) /\ PoisonOK(st2, P, A)
<1> DEFINE d == saved.depth
           cut == SubSeq(stack, 1, d)
           old == stack[d]
           fr == [fn |-> old.fn, idx |-> saved.idx, base |-> old.base, guard |-> old.guard]
<1>1. Depth \in Nat /\ Depth \in 1..Depth /\ Len(stack) = Depth /\ d \in Nat
      /\ saved.idx \in Nat
  BY TopFrame DEF Depth, SavedOK
<1>2. d \in 1..Depth /\ d < Depth /\ d \in 0..Len(stack) /\ d # 0 /\ d \in 1..d
  BY <1>1
<1>3. /\ FramesOK(cut) /\ Len(cut) = d /\ cut[d] = old
      /\ \A k \in 1..d : k \in 1..Len(stack) /\ cut[k] = stack[k]
  BY <1>2, CutFrames
<1>4. old \in Frames /\ FrameOK(old) /\ AfterOp(old.fn, old.idx, "call")
  BY <1>1, <1>2 DEF FramesOK
<1>5. /\ saved.idx \in Indices(old.fn) /\ AfterOp(old.fn, saved.idx, "setjmp")
  BY <1>2 DEF SavedOK
<1>6. /\ old.fn \in DOMAIN Code /\ old.idx \in Indices(old.fn) /\ old.idx \in Nat
      /\ old.base \in Nat /\ old.guard \in Nat
  BY <1>4 DEF Frames, FrameOK
<1>7. /\ saved.idx \in ArmedAt(old.fn) <=> old.idx \in ArmedAt(old.fn)
      /\ Poisons(old.fn) => (saved.idx \in Guarded(old.fn) <=> old.idx \in Guarded(old.fn))
  <2> DEFINE s == saved.idx - 1
             c == old.idx - 1
  <2>1. s \in Indices(old.fn) /\ InsAt(old.fn, s).op = "setjmp"
        /\ c \in Indices(old.fn) /\ InsAt(old.fn, c).op = "call"
    BY <1>4, <1>5 DEF AfterOp
  <2>2. s + 1 = saved.idx /\ c + 1 = old.idx
    BY <1>1, <1>6
  <2> HIDE DEF s, c
  <2>3. s + 1 \in ArmedAt(old.fn) <=> c + 1 \in ArmedAt(old.fn)
    BY <1>6, <2>1, ArmedFlow
  <2>4. Poisons(old.fn) => (s + 1 \in Guarded(old.fn) <=> c + 1 \in Guarded(old.fn))
    BY <1>6, <2>1, GuardFlow
  <2> QED
    BY <2>2, <2>3, <2>4
<1>8. fr \in Frames /\ fr.fn = cut[Len(cut)].fn /\ fr.base = cut[Len(cut)].base
  BY <1>1, <1>3, <1>6 DEF Frames
<1>9. FrameOK(fr)
  BY <1>4, <1>5, <1>7 DEF FrameOK
<1>10. Armed(fr) <=> Armed(cut[Len(cut)])
  BY <1>3, <1>7 DEF Armed
<1>11. [cut EXCEPT ![d].idx = saved.idx] = [cut EXCEPT ![Len(cut)] = fr]
  <2>1. [old EXCEPT !.idx = saved.idx] = fr
    BY <1>4 DEF Frames
  <2> HIDE DEF fr, cut, old
  <2>2. [cut EXCEPT ![d].idx = saved.idx] = [cut EXCEPT ![d] = fr]
    BY <1>3, <2>1
  <2> QED
    BY <1>3, <2>2
<1>12. fr.fn = old.fn
  OBVIOUS
<1> HIDE DEF fr, cut, d, old
<1> DEFINE st2 == [cut EXCEPT ![Len(cut)] = fr]
<1>13. /\ FramesOK(st2) /\ Len(st2) = d /\ st2[d] = fr
       /\ \A k \in 1..d : k # d => st2[k] = cut[k]
  <2>1. /\ FramesOK(st2) /\ Len(st2) = Len(cut) /\ st2[Len(cut)] = fr
        /\ \A k \in 1..Len(cut) : k # Len(cut) => st2[k] = cut[k]
    <3>1. Len(cut) # 0
      BY <1>2, <1>3
    <3> QED
      BY <1>3, <1>8, <1>9, <3>1, MovedFrame
  <2> HIDE DEF st2
  <2> QED
    BY <1>3, <2>1
<1>14. PoisonOK(st2, P, A)
  <2>1. PoisonOK(cut, P, A)
    BY DEF cut, d
  <2> QED
    BY <1>2, <1>3, <1>8, <1>9, <1>10, <2>1, MovedPoison
<1>15. SavedOK(st2, saved)
  <2>1. \A k \in 1..d : st2[k].fn = stack[k].fn
    BY <1>3, <1>12, <1>13 DEF old
  <2>2. saved.depth = d /\ d <= d
    BY <1>1 DEF d
  <2> HIDE DEF st2
  <2> QED
    BY <1>1, <1>13, <2>1, <2>2, SavedKeeps
<1>16. [SubSeq(stack, 1, saved.depth) EXCEPT ![saved.depth].idx = saved.idx] = st2
  BY <1>11 DEF cut, d
<1> QED
  BY <1>13, <1>14, <1>15, <1>16

\* handle_longjmp unpoisons the frames it leaves, and no other.
LEMMA LongjmpChkKeeps ==
  ASSUME FramesOK(stack), SavedOK(stack, saved), PoisonOK(stack, poisoned, abandoned), LongjmpChk
  PROVE  FramesOK(stack') /\ SavedOK(stack', saved') /\ PoisonOK(stack', poisoned', abandoned')
<1> DEFINE d == saved.depth
           low == Rsp(stack[d])
           high == Rsp(Top)
<1>1. /\ Depth # 0 /\ d \in 1..(Depth - 1) /\ UNCHANGED <<saved, abandoned>>
      /\ poisoned' = poisoned \ low..(high - 1)
      /\ stack' = [SubSeq(stack, 1, d) EXCEPT ![d].idx = saved.idx]
  BY DEF LongjmpChk, Running, LongjmpUnpoison
<1>2. Depth \in Nat /\ Depth \in 1..Depth /\ Len(stack) = Depth
  BY <1>1, TopFrame DEF Depth
<1>3. d \in 1..Depth /\ d < Depth /\ d \in 0..Len(stack) /\ d \in Nat
  BY <1>1, <1>2
<1>4. ASSUME NEW k \in 1..Depth
      PROVE  /\ stack[k] \in Frames /\ FrameOK(stack[k]) /\ Rsp(stack[k]) \in Nat
             /\ stack[k].base \in Nat
             /\ Armed(stack[k]) => Place(stack[k]) \in (stack[k].base + 1)..(Rsp(stack[k]) - 1)
  <2>1. stack[k] \in Frames /\ FrameOK(stack[k])
    BY <1>2 DEF FramesOK
  <2> QED
    BY <2>1, FrameFacts
<1>5. low \in Nat /\ high \in Nat
  BY <1>2, <1>3, <1>4 DEF Top
<1>6. ASSUME NEW k \in 1..d, Armed(stack[k])
      PROVE  Place(stack[k]) \in poisoned'
  <2>1. k \in 1..Depth
    BY <1>2, <1>3
  <2>2. Place(stack[k]) \in poisoned
    BY <1>2, <1>6, <2>1 DEF PoisonOK
  <2>3. Rsp(stack[k]) <= low
    <3>1. CASE k = d
      BY <1>5, <3>1
    <3>2. CASE k # d
      <4>1. k < d
        BY <1>3, <3>2
      <4> QED
        BY <1>2, <1>3, <2>1, <4>1, PlacesDiffer
    <3> QED
      BY <3>1, <3>2
  <2>4. Place(stack[k]) < low
    <3>1. /\ Rsp(stack[k]) \in Nat /\ stack[k].base \in Nat
          /\ Place(stack[k]) \in (stack[k].base + 1)..(Rsp(stack[k]) - 1)
      BY <1>4, <1>6, <2>1
    <3> HIDE DEF low
    <3> QED
      BY <1>5, <2>3, <3>1
  <2> HIDE DEF low, high
  <2>5. Place(stack[k]) \notin low..(high - 1)
    BY <1>5, <2>4
  <2> QED
    BY <1>1, <2>2, <2>5
<1>7. ASSUME NEW k \in (d + 1)..Len(stack), Armed(stack[k])
      PROVE  Place(stack[k]) \notin poisoned'
  <2>1. k \in 1..Depth /\ d < k
    BY <1>2, <1>3
  <2>2. low <= stack[k].base
    BY <1>2, <1>3, <2>1, PlacesDiffer
  <2>3. Rsp(stack[k]) <= high
    <3>1. CASE k = Depth
      BY <1>5, <3>1 DEF Top
    <3>2. CASE k # Depth
      <4>1. k < Depth
        BY <1>2, <2>1, <3>2
      <4> QED
        BY <1>2, <2>1, <4>1, PlacesDiffer DEF Top
    <3> QED
      BY <3>1, <3>2
  <2>4. /\ Rsp(stack[k]) \in Nat /\ stack[k].base \in Nat
        /\ Place(stack[k]) \in (stack[k].base + 1)..(Rsp(stack[k]) - 1)
    BY <1>4, <1>7, <2>1
  <2> HIDE DEF low, high
  <2>5. Place(stack[k]) \in low..(high - 1)
    BY <1>5, <2>2, <2>3, <2>4
  <2> QED
    BY <1>1, <2>5
<1>8. PoisonOK(SubSeq(stack, 1, d), poisoned', abandoned)
  <2>1. poisoned' \subseteq poisoned
    BY <1>1
  <2> HIDE DEF d, low, high
  <2> QED
    BY <1>3, <1>6, <1>7, <2>1, CutPoison
<1>9. FramesOK(stack') /\ SavedOK(stack', saved) /\ PoisonOK(stack', poisoned', abandoned)
  BY <1>1, <1>8, JumpedTo
<1> QED
  BY <1>1, <1>9

\* What an unhandled jump leaves poisoned is what it abandons.
LEMMA UnwindKeeps ==
  ASSUME FramesOK(stack), SavedOK(stack, saved), PoisonOK(stack, poisoned, abandoned), Unwind
  PROVE  FramesOK(stack') /\ SavedOK(stack', saved') /\ PoisonOK(stack', poisoned', abandoned')
<1>1. Depth # 0 /\ UNCHANGED poisoned /\ Ins.op # "store_canary"
  BY DEF Unwind, Running
<1>2. Depth \in Nat /\ Len(stack) = Depth
  BY <1>1, TopFrame DEF Depth
<1>3. ASSUME NEW d \in 1..(Depth - 1),
             abandoned' = abandoned \cup (Canaries(d + 1) \cap poisoned)
      PROVE  /\ d \in 0..Len(stack) /\ d \in 0..Depth
             /\ PoisonOK(SubSeq(stack, 1, d), poisoned', abandoned')
  <2>1. d \in 0..Len(stack) /\ d \in 0..Depth /\ d \in Nat
        /\ \A k \in 1..d : k \in 1..Len(stack)
    BY <1>2
  <2>2. \A k \in 1..d : Armed(stack[k]) => Place(stack[k]) \in poisoned'
    BY <1>1, <2>1 DEF PoisonOK
  <2>3. \A k \in (d + 1)..Len(stack) :
          Armed(stack[k]) /\ Place(stack[k]) \in poisoned' => Place(stack[k]) \in abandoned'
    BY <1>1, <1>3, <2>1, ArmedAbove
  <2>4. poisoned' \subseteq poisoned /\ abandoned \subseteq abandoned'
    BY <1>1, <1>3
  <2> QED
    BY <2>1, <2>2, <2>3, <2>4, CutPoison
<1>4. CASE Ins.op = "longjmp"
  <2>1. /\ saved.depth \in 1..(Depth - 1) /\ UNCHANGED saved
        /\ stack' = [SubSeq(stack, 1, saved.depth) EXCEPT ![saved.depth].idx = saved.idx]
        /\ abandoned' = abandoned \cup (Canaries(saved.depth + 1) \cap poisoned)
    BY <1>4 DEF Unwind
  <2>2. PoisonOK(SubSeq(stack, 1, saved.depth), poisoned', abandoned')
    BY <1>3, <2>1
  <2> QED
    BY <1>1, <2>1, <2>2, JumpedTo
<1>5. CASE Ins.op # "longjmp"
  <2>1. PICK d \in 1..(Depth - 1) :
          /\ stack' = SubSeq(stack, 1, d)
          /\ abandoned' = abandoned \cup (Canaries(d + 1) \cap poisoned)
          /\ CutTo(d)
    BY <1>5 DEF Unwind
  <2>2. d \in 0..Len(stack) /\ d \in 0..Depth /\ PoisonOK(stack', poisoned', abandoned')
    BY <1>3, <2>1
  <2> QED
    BY <2>1, <2>2, CutFrames, CutSaved
<1> QED
  BY <1>4, <1>5-----------------------------------------------------------------------------

\* The program starts with nothing poisoned.
LEMMA RedzoneInit == StackInit => RedzoneInv
<1> SUFFICES ASSUME StackInit PROVE RedzoneInv
  OBVIOUS
<1> DEFINE fr == Frame(Main, 0)
<1>1. /\ stack = <<fr>> /\ poisoned = {} /\ saved = NoJump /\ report = NoReport
  BY DEF StackInit
<1>2. Main \in DOMAIN Code /\ 1 \in Indices(Main)
  BY CodeAssumption, Shape
<1>3. fr \in Frames /\ fr.fn = Main /\ fr.idx = 1 /\ fr.guard = 0
  BY <1>2 DEF Frame, Frames
<1>4. 1 \notin ArmedAt(Main) /\ (Poisons(Main) => 1 \notin Guarded(Main))
  BY <1>2, ArmedFlow, GuardFlow
<1> HIDE DEF fr
<1>5. stack \in Seq(Frames) /\ Len(stack) = 1 /\ stack[1] = fr /\ \A k \in 1..Len(stack) : k = 1
  BY <1>1, <1>3
<1>6. FramesOK(stack)
  <2>1. FrameOK(fr)
    BY <1>2, <1>3, <1>4 DEF FrameOK
  <2>2. \A j, k \in 1..Len(stack) : ~(j < k)
    BY <1>5
  <2> QED
    BY <1>5, <2>1, <2>2 DEF FramesOK
<1>7. SavedOK(stack, saved)
  BY <1>1, <1>5 DEF SavedOK, NoJump
<1>8. PoisonOK(stack, poisoned, abandoned)
  <2>1. ~Armed(stack[1])
    BY <1>3, <1>4, <1>5 DEF Armed
  <2> QED
    BY <1>1, <1>5, <2>1 DEF PoisonOK
<1>9. NoFalseReport
  BY <1>1 DEF NoFalseReport
<1> QED
  BY <1>6, <1>7, <1>8, <1>9 DEF RedzoneInv

\* Every step keeps the frames, the jmp_buf and the poisoned places together; a
\* report ends the program.
LEMMA RedzoneStep == RedzoneInv /\ [StackNext]_stackVars => RedzoneInv'
<1> SUFFICES ASSUME RedzoneInv, [StackNext]_stackVars PROVE RedzoneInv'
  OBVIOUS
<1>1. FramesOK(stack) /\ SavedOK(stack, saved) /\ PoisonOK(stack, poisoned, abandoned)
      /\ NoFalseReport
  BY DEF RedzoneInv
<1>2. CASE UNCHANGED stackVars
  <2>1. /\ stack' = stack /\ poisoned' = poisoned /\ saved' = saved
        /\ abandoned' = abandoned /\ report' = report
    BY <1>2 DEF stackVars
  <2>2. NoFalseReport'
    BY <1>1, <2>1 DEF NoFalseReport, Canaries, Depth
  <2>3. FramesOK(stack') /\ SavedOK(stack', saved') /\ PoisonOK(stack', poisoned', abandoned')
    BY <1>1, <2>1
  <2> QED
    BY <2>2, <2>3 DEF RedzoneInv
<1>3. ASSUME FramesOK(stack') /\ SavedOK(stack', saved') /\ PoisonOK(stack', poisoned', abandoned'),
             Running, UNCHANGED report
      PROVE  RedzoneInv'
  <2>1. NoFalseReport'
    BY <1>3 DEF NoFalseReport, Running
  <2> QED
    BY <1>3, <2>1 DEF RedzoneInv
<1>4. CASE Plain /\ CheckFires
  <2>1. /\ stack' = stack /\ poisoned' = poisoned /\ saved' = saved /\ abandoned' = abandoned
        /\ NoFalseReport'
    BY <1>1, <1>4, ReportIsRight
  <2>2. FramesOK(stack') /\ SavedOK(stack', saved') /\ PoisonOK(stack', poisoned', abandoned')
    BY <1>1, <2>1
  <2> QED
    BY <2>1, <2>2 DEF RedzoneInv
<1>5. CASE Plain /\ ~CheckFires
  <2>1. Running
    BY <1>5 DEF Plain
  <2> QED
    BY <1>1, <1>3, <1>5, <2>1, PlainMoves
<1>6. CASE Branch
  BY <1>1, <1>3, <1>6, BranchKeeps DEF Branch
<1>7. CASE Call
  BY <1>1, <1>3, <1>7, CallKeeps DEF Call
<1>8. CASE Setjmp
  BY <1>1, <1>3, <1>8, SetjmpKeeps DEF Setjmp
<1>9. CASE Ret
  BY <1>1, <1>3, <1>9, RetKeeps DEF Ret
<1>10. CASE LongjmpChk
  BY <1>1, <1>3, <1>10, LongjmpChkKeeps DEF LongjmpChk
<1>11. CASE Unwind
  BY <1>1, <1>3, <1>11, UnwindKeeps DEF Unwind
<1> QED
  BY <1>2, <1>4, <1>5, <1>6, <1>7, <1>8, <1>9, <1>10, <1>11 DEF StackNext

\* The frames do not overlap, the jmp_buf belongs to one of them, and what is
\* poisoned is the slot of each between its poison_stack and its unpoison_stack
\* (instrument_stack, rwtools_x64/asan/instrument.py:580-664).
THEOREM RedzonesKept == StackSpec => []RedzoneInv
  BY RedzoneInit, RedzoneStep, PTL DEF StackSpec

\* The invariant says what is poisoned.
LEMMA InvMatches == RedzoneInv => PoisonMatchesFrames
<1> SUFFICES ASSUME RedzoneInv PROVE PoisonMatchesFrames
  OBVIOUS
<1>1. FramesOK(stack) /\ PoisonOK(stack, poisoned, abandoned)
  BY DEF RedzoneInv
<1>2. ASSUME NEW k \in 1..Depth
      PROVE  stack[k] \in Frames /\ FrameOK(stack[k])
  BY <1>1, <1>2 DEF FramesOK, Depth
<1>3. Canaries(1) \subseteq poisoned
  <2> SUFFICES ASSUME NEW k \in 1..Depth, Poisons(stack[k].fn), stack[k].guard # 0
               PROVE  stack[k].guard \in poisoned
    BY DEF Canaries
  <2>1. Armed(stack[k]) /\ stack[k].guard = Place(stack[k])
    BY <1>2, FrameFacts
  <2> QED
    BY <1>1, <2>1 DEF PoisonOK, Depth
<1>4. ASSUME NEW k \in 1..Depth, Armed(stack[k])
      PROVE  Place(stack[k]) \in Canaries(1) \cup AboutToStore
  <2>1. /\ Poisons(stack[k].fn) /\ stack[k].base \in Nat
        /\ Place(stack[k]) \in (stack[k].base + 1)..(Rsp(stack[k]) - 1)
    BY <1>2, <1>4, FrameFacts
  <2>2. CASE InsAt(stack[k].fn, stack[k].idx).op = "store_canary"
    <3>1. InsAt(stack[k].fn, stack[k].idx).slot = PoisonSlot(stack[k].fn)
      BY <1>2, <1>4, <2>2, FrameFacts
    <3> QED
      BY <2>2, <3>1 DEF AboutToStore, Place
  <2>3. CASE InsAt(stack[k].fn, stack[k].idx).op # "store_canary"
    <3>1. stack[k].guard = Place(stack[k])
      BY <1>2, <1>4, <2>3, FrameFacts
    <3>2. Place(stack[k]) # 0
      BY <2>1
    <3> QED
      BY <2>1, <3>1, <3>2 DEF Canaries
  <2> QED
    BY <2>2, <2>3
<1>5. \A p \in poisoned : p \in abandoned \/ \E k \in 1..Depth : Armed(stack[k]) /\ p = Place(stack[k])
  BY <1>1 DEF PoisonOK, Depth
<1> QED
  BY <1>3, <1>4, <1>5 DEF PoisonMatchesFrames

\* A slot is poisoned exactly while a canary is in it, whatever the functions,
\* however control leaves them and however deep they nest (instrument_stack,
\* rwtools_x64/asan/instrument.py:580-664, and handle_longjmp, 571-580).
THEOREM PoisonFollowsCanaries == StackSpec => []PoisonMatchesFrames
  BY RedzonesKept, InvMatches, PTL

\* What the checks report is an access to a canary that is in place, a check of
\* one that the pass does not know, or what an unhandled jump left behind
\* (skip_instrument and its users in rwtools_x64/asan/instrument.py:630-664).
THEOREM ReportsAreRight == StackSpec => []NoFalseReport
<1>1. RedzoneInv => NoFalseReport
  BY DEF RedzoneInv
<1> QED
  BY <1>1, RedzonesKept, PTL

\* An access to a canary in place finds it poisoned, and is not skipped.
LEMMA HitReports ==
  ASSUME RedzoneInv, Running, Ins.op \in {"movq", "access"}, Top.base + Ins.slot \in Canaries(1)
  PROVE  CheckFires
<1> DEFINE place == Top.base + Ins.slot
<1>1. FramesOK(stack) /\ PoisonOK(stack, poisoned, abandoned) /\ Depth # 0
  BY DEF RedzoneInv, Running
<1>2. /\ Top.fn \in DOMAIN Code /\ Top.idx \in Indices(Top.fn) /\ Depth \in 1..Depth
      /\ Top.base \in Nat /\ \A k \in 1..Depth : k # Depth => k < Depth
  BY <1>1, TopFrame
<1>3. PICK k \in 1..Depth : Poisons(stack[k].fn) /\ stack[k].guard = place /\ place # 0
  BY DEF Canaries
<1>4. stack[k] \in Frames /\ FrameOK(stack[k])
  BY <1>1 DEF FramesOK, Depth
<1>5. /\ Armed(stack[k]) /\ place = Place(stack[k])
      /\ stack[k].base \in Nat /\ Rsp(stack[k]) \in Nat
      /\ place \in (stack[k].base + 1)..(Rsp(stack[k]) - 1)
  BY <1>3, <1>4, FrameFacts
<1>6. place \in poisoned
  BY <1>1, <1>5 DEF PoisonOK, Depth
<1>7. Top.idx \notin Skip(Top.fn)
  BY <1>2, Unchecked DEF Ins
<1>8. Ins.slot # 0
  <2> SUFFICES ASSUME Ins.slot = 0 PROVE FALSE
    OBVIOUS
  <2>1. place = Top.base
    BY <1>2
  <2>2. CASE k = Depth
    BY <1>2, <1>5, <2>1, <2>2 DEF Top
  <2>3. CASE k # Depth
    <3>1. Rsp(stack[k]) <= Top.base
      BY <1>1, <1>2, <2>3, PlacesDiffer DEF Depth, Top
    <3> HIDE DEF place
    <3> QED
      BY <1>2, <1>5, <2>1, <3>1
  <2> QED
    BY <2>2, <2>3
<1>9. AfterInserted = poisoned
  BY <1>1, <1>7, Inserted
<1> QED
  BY <1>6, <1>7, <1>8, <1>9 DEF CheckFires

\* An access that reaches the canary of any frame is reported instead of
\* executed, whatever the functions and however deep the stack
\* (rwtools_x64/asan/instrument.py:580-664).
THEOREM OverflowsReported == StackSpec => OverflowReported
<1> DEFINE Hit == Running /\ Ins.op \in {"movq", "access"} /\ Top.base + Ins.slot \in Canaries(1)
<1>1. ASSUME RedzoneInv, StackNext, Hit
      PROVE  report' # NoReport
  <2>1. CheckFires
    BY <1>1, HitReports
  <2>2. Plain
    BY <1>1 DEF StackNext, Branch, Call, Setjmp, Ret, LongjmpChk, Unwind
  <2> QED
    BY <1>1, <2>1, <2>2, ReportIsRight DEF RedzoneInv
<1>2. RedzoneInv /\ [StackNext]_stackVars => [Hit => report' # NoReport]_stackVars
  BY <1>1
<1> QED
  BY <1>2, RedzonesKept, PTL DEF StackSpec, OverflowReported
=============================================================================
