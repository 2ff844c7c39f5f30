------------------------- MODULE TraceBuffer_proofs -------------------------
(***************************************************************************)
(* For every number of threads, every buffer size and every interleaving:  *)
(* the trace runtime stores inside its buffer, what it stores is a         *)
(* function that was entered, and each thread's output is its calls in     *)
(* order.  With one thread the runtime is a bounded log of the calls.      *)
(*                                                                         *)
(* Three inductive invariants, each on top of the one before: IInv (types, *)
(* the null test, entered functions), OutInv (how much of each thread's    *)
(* lines has been written) and FullInv (the ring: which entries stand      *)
(* behind the index).                                                      *)
(***************************************************************************)
EXTENDS TraceBuffer, DataLemmas

Inside == {"load_ptr", "load_idx", "store", "store_idx", "check_print",
           "write_prefix", "write_name", "write_newline"}

Entries == Threads \X Functions \X BOOLEAN

\* The part of the type invariant that the two properties rest on.
TInv ==
  /\ team \subseteq Threads
  /\ idx \in Slots /\ buf \in [Slots -> Functions \cup {Empty}]
  /\ pc \in [Threads -> Labels] /\ rdi \in [Threads -> Functions]
  /\ rdx \in [Threads -> Slots]
  /\ calls \in Seq(Entries)
  /\ ptr \in {"null", "mapped", "error"}

\* A thread past the null test saw a pointer, and the pointer is never reset.
PastTest == {"load_idx", "store", "store_idx"}
PInv == \A t \in Threads : pc[t] \in PastTest => ptr # "null"

\* A thread inside the logger has in rdi a function that was entered.
WasEntered(f) == \E i \in 1..Len(calls) : calls[i][2] = f
EInv == \A t \in Threads : pc[t] \in Inside => WasEntered(rdi[t])

IInv == TInv /\ PInv /\ EInv /\ EntriesAreCalls

\* Incrementing an index and masking it gives an index (lines 270-271).
LEMMA MaskedIndex == ASSUME NEW n \in Slots PROVE (n + 1) % Size \in Slots
BY SizeAssumption, SMT DEF Slots

\* Every initial state satisfies the invariant: nothing is mapped or entered.
LEMMA InitIInv == Init => IInv
<1> SUFFICES ASSUME Init PROVE IInv
  OBVIOUS
<1>1. TInv
  BY SizeAssumption DEF Init, TInv, Slots, Labels
<1>2. PInv /\ EInv
  BY DEF Init, PInv, PastTest, EInv, Inside
<1>3. EntriesAreCalls
  BY DEF Init, EntriesAreCalls
<1> QED
  BY <1>1, <1>2, <1>3 DEF IInv

\* A step that leaves the history alone leaves entered functions entered.
LEMMA SameHistory ==
  ASSUME UNCHANGED calls, NEW f, WasEntered(f)
  PROVE  WasEntered(f)'
BY DEF WasEntered

\* A function entry adds its function to those entered and keeps the others.
LEMMA EnterHistory ==
  ASSUME TInv, NEW t \in Threads, NEW f \in Functions, Enter(t, f)
  PROVE  /\ WasEntered(f)'
         /\ \A g : WasEntered(g) => WasEntered(g)'
         /\ calls' \in Seq(Entries)
<1> DEFINE n == Len(calls)
           e == <<t, f, phase = "main">>
<1>1. /\ n \in Nat /\ calls' = Append(calls, e) /\ e \in Entries /\ e[2] = f
      /\ calls \in Seq(Entries)
  <2>1. e \in Entries
    BY DEF Entries
  <2>2. calls' = Append(calls, e) /\ calls \in Seq(Entries)
    BY DEF TInv, Enter
  <2> QED
    BY <2>1, <2>2
<1> HIDE DEF e
<1>2. /\ Len(calls') = n + 1 /\ calls'[n + 1] = e
      /\ \A i \in 1..n : calls'[i] = calls[i]
      /\ calls' \in Seq(Entries)
  BY <1>1
<1>3. WasEntered(f)'
  BY <1>1, <1>2 DEF WasEntered
<1>4. ASSUME NEW g, WasEntered(g) PROVE WasEntered(g)'
  <2>1. PICK i \in 1..n : calls[i][2] = g
    BY <1>4 DEF WasEntered
  <2> QED
    BY <1>1, <1>2, <2>1 DEF WasEntered
<1> QED
  BY <1>2, <1>3, <1>4

\* The constructor and the tests and writes of the logger: they change neither
\* the buffer nor the registers that name what it will hold.
LEMMA QuietSteps ==
  ASSUME IInv, NEW t \in Threads,
         MapBuffer \/ CheckEnvironment \/ LoadPtr(t) \/ Fault(t) \/ CheckPrint(t)
           \/ WritePrefix(t) \/ WriteName(t) \/ WriteNewline(t)
  PROVE  IInv'
<1>1. /\ UNCHANGED <<team, idx, buf, rdi, rdx, calls>>
      /\ ptr' \in {"null", "mapped", "error"} /\ (ptr # "null" => ptr' # "null")
      /\ pc' \in [Threads -> Labels]
      /\ \A u \in Threads : pc'[u] \in Inside => pc[u] \in Inside
      /\ \A u \in Threads : pc'[u] \in PastTest => pc[u] \in PastTest \/ ptr # "null"
  <2>1. CASE MapBuffer \/ CheckEnvironment \/ Fault(t)
    BY <2>1 DEF IInv, TInv, MapBuffer, CheckEnvironment, Fault, runtime, At, PInv, PastTest
  <2>2. CASE LoadPtr(t) \/ CheckPrint(t)
    BY <2>2 DEF IInv, TInv, LoadPtr, CheckPrint, runtime, At, Goto, Labels, Inside, PastTest
  <2>3. CASE WritePrefix(t) \/ WriteName(t) \/ WriteNewline(t)
    BY <2>3 DEF IInv, TInv, WritePrefix, WriteName, WriteNewline, Write, At, Goto,
                Labels, Inside, PastTest
  <2> QED
    BY <2>1, <2>2, <2>3 DEF IInv
<1>2. TInv'
  BY <1>1 DEF IInv, TInv, Slots
<1>3. PInv'
  BY <1>1 DEF IInv, PInv
<1>4. EInv' /\ EntriesAreCalls'
  BY <1>1 DEF IInv, EInv, EntriesAreCalls, WasEntered
<1> QED
  BY <1>2, <1>3, <1>4 DEF IInv

\* Entering the logger puts the new entry's function in rdi.
LEMMA EnterStep ==
  ASSUME IInv, NEW t \in Threads, NEW f \in Functions, Enter(t, f) PROVE IInv'
<1>1. /\ UNCHANGED <<team, ptr, idx, buf, rdx>>
      /\ rdi' = [rdi EXCEPT ![t] = f] /\ pc' = [pc EXCEPT ![t] = "load_ptr"]
  BY DEF Enter, runtime, Goto
<1>2. TInv'
  BY <1>1, EnterHistory DEF IInv, TInv, Labels, Slots
<1>3. PInv'
  BY <1>1 DEF IInv, TInv, PInv, PastTest
<1>4. EInv'
  <2> SUFFICES ASSUME NEW u \in Threads, pc'[u] \in Inside PROVE WasEntered(rdi[u])'
    BY DEF EInv
  <2>1. CASE u = t
    BY <1>1, <2>1, EnterHistory DEF IInv, TInv
  <2>2. CASE u # t
    BY <1>1, <2>2, EnterHistory DEF IInv, TInv, EInv
  <2> QED
    BY <2>1, <2>2
<1>5. EntriesAreCalls'
  <2> SUFFICES ASSUME NEW k \in Slots, buf'[k] # Empty PROVE WasEntered(buf[k])'
    BY DEF EntriesAreCalls, WasEntered, Slots
  <2>1. WasEntered(buf[k])
    BY <1>1 DEF IInv, EntriesAreCalls, WasEntered
  <2> QED
    BY <1>1, <2>1, EnterHistory DEF IInv
<1> QED
  BY <1>2, <1>3, <1>4, <1>5 DEF IInv

\* Loading and storing the index keep it and its copy inside the buffer.
LEMMA IndexSteps ==
  ASSUME IInv, NEW t \in Threads, LoadIdx(t) \/ StoreIdx(t) PROVE IInv'
<1>1. /\ UNCHANGED <<team, ptr, buf, rdi, calls>> /\ idx' \in Slots /\ rdx' \in [Threads -> Slots]
      /\ pc' \in [Threads -> Labels]
      /\ \A u \in Threads : /\ pc'[u] \in Inside => pc[u] \in Inside
                            /\ pc'[u] \in PastTest => pc[u] \in PastTest
  <2>1. CASE LoadIdx(t)
    BY <2>1 DEF IInv, TInv, LoadIdx, runtime, At, Goto, Labels, Inside, PastTest
  <2>2. CASE StoreIdx(t)
    <3>1. idx' \in Slots
      BY <2>2, MaskedIndex DEF IInv, TInv, StoreIdx
    <3> QED
      BY <2>2, <3>1 DEF IInv, TInv, StoreIdx, At, Goto, Labels, Inside, PastTest
  <2> QED
    BY <2>1, <2>2
<1>2. TInv'
  BY <1>1 DEF IInv, TInv, Slots
<1>3. PInv' /\ EInv' /\ EntriesAreCalls'
  BY <1>1 DEF IInv, PInv, EInv, EntriesAreCalls, WasEntered
<1> QED
  BY <1>2, <1>3 DEF IInv

\* The store writes the thread's own function into a slot of the buffer.
LEMMA StoreStep == ASSUME IInv, NEW t \in Threads, Store(t) PROVE IInv'
<1>1. /\ UNCHANGED <<team, ptr, idx, rdi, rdx, calls>>
      /\ buf' = [buf EXCEPT ![rdx[t]] = rdi[t]]
      /\ pc' = [pc EXCEPT ![t] = "store_idx"] /\ pc[t] = "store"
  BY DEF Store, Goto, At
<1>2. TInv'
  BY <1>1 DEF IInv, TInv, Labels, Slots
<1>3. PInv' /\ EInv'
  BY <1>1 DEF IInv, TInv, PInv, PastTest, EInv, Inside, WasEntered
<1>4. EntriesAreCalls'
  <2>1. WasEntered(rdi[t])
    BY <1>1 DEF IInv, EInv, Inside
  <2>2. \A k \in Slots : buf'[k] # Empty => WasEntered(buf'[k])
    BY <1>1, <2>1 DEF IInv, TInv, EntriesAreCalls, WasEntered
  <2> QED
    BY <1>1, <2>2 DEF EntriesAreCalls, WasEntered, Slots
<1> QED
  BY <1>2, <1>3, <1>4 DEF IInv

\* Every step, of every thread, preserves the invariant.
LEMMA NextIInv == IInv /\ [Next]_vars => IInv'
<1> SUFFICES ASSUME IInv, [Next]_vars PROVE IInv'
  OBVIOUS
<1>1. CASE UNCHANGED vars
  BY <1>1 DEF vars, IInv, Entries, TInv, PInv, EInv, EntriesAreCalls, WasEntered, Slots
<1>2. CASE MapBuffer \/ CheckEnvironment
  BY <1>2, ThreadAssumption, QuietSteps
<1>3. ASSUME NEW t \in Threads, LogEntry(t) PROVE IInv'
  BY <1>3, QuietSteps, IndexSteps, StoreStep DEF LogEntry
<1>4. ASSUME NEW t \in Threads, NEW f \in Functions, Enter(t, f) PROVE IInv'
  BY <1>4, EnterStep
<1> QED
  BY <1>1, <1>2, <1>3, <1>4 DEF Next, IInv, TInv

\* The invariant holds in every reachable state.
THEOREM Invariant == Spec => []IInv
BY InitIInv, NextIInv, PTL DEF Spec

\* No interleaving of the unlocked index updates makes the logger store outside
\* its buffer, or before the constructor mapped it (lines 261-272).
THEOREM StoresStayInBounds == Spec => []StoresInBounds
<1>1. IInv => StoresInBounds
  BY DEF IInv, TInv, PInv, PastTest, StoresInBounds
<1> QED
  BY <1>1, Invariant, PTL

\* Races lose entries of the log but never invent one.
THEOREM NothingInvented == Spec => []EntriesAreCalls
<1>1. IInv => EntriesAreCalls
  BY DEF IInv
<1> QED
  BY <1>1, Invariant, PTL
-----------------------------------------------------------------------------
(***************************************************************************)
(* The output.  A thread inside the logger is busy with its last call; its *)
(* place says how much of that call's line it has written.                 *)
(***************************************************************************)
Writing == {"write_prefix", "write_name", "write_newline"}

\* Before main() nothing is recorded and no thread but Main has started.
Before ==
  /\ printOn = FALSE
  /\ \A t \in Threads : pc[t] = "program" \/ (t = Main /\ phase = "ctors" /\ pc[t] = "load_ptr")
  /\ \A t \in Threads : CallsOf(t) = <<>> /\ OutputOf(t) = <<>>
  /\ Entered = <<>>

PhaseInv ==
  /\ phase \in {"ctors", "getenv", "main"} /\ printOn \in BOOLEAN
  /\ phase = "ctors" <=> ptr = "null"
  /\ phase # "main" => Before
  /\ stderr \in Seq(Threads \X Texts)

Written(t) ==
  LET n == Len(CallsOf(t))
  IN  IF phase # "main" \/ pc[t] = "program" THEN 3 * n
      ELSE 3 * (n - 1) + (IF pc[t] = "write_name" THEN 1 ELSE IF pc[t] = "write_newline" THEN 2 ELSE 0)

LinesInv(t) ==
  /\ phase = "main" /\ pc[t] \in Inside =>
       Len(CallsOf(t)) > 0 /\ CallsOf(t)[Len(CallsOf(t))][2] = rdi[t]
  /\ pc[t] \in Writing => printOn
  /\ ~printOn => OutputOf(t) = <<>>
  /\ printOn => /\ Len(OutputOf(t)) = Written(t)
                /\ \A n \in 1..Written(t) : OutputOf(t)[n] = LinesOf(t)[n]

OutInv == IInv /\ PhaseInv /\ \A t \in Threads : LinesInv(t)

\* The recorded calls and the output are sequences of what they should be.
LEMMA HistoryTypes ==
  ASSUME TInv
  PROVE  /\ \A t \in Threads : CallsOf(t) \in Seq(Entries)
         /\ Entered \in Seq(Functions)
<1>1. calls \in Seq(Entries)
  BY DEF TInv
<1>2. ASSUME NEW T PROVE Only(calls, T) \in Seq(Entries)
  <2>1. Only(calls, T) \in Seq(Entries \cap T)
    BY <1>1, OnlyType
  <2> DEFINE c == Only(calls, T)
  <2> HIDE DEF c
  <2>2. c \in Seq(Entries \cap T) => c \in Seq(Entries)
    <3> SUFFICES ASSUME c \in Seq(Entries \cap T) PROVE c \in Seq(Entries)
      OBVIOUS
    <3>1. Len(c) \in Nat /\ c = [i \in 1..Len(c) |-> c[i]] /\ \A i \in 1..Len(c) : c[i] \in Entries
      BY LenProperties
    <3> QED
      BY <3>1, IsASeq
  <2> QED
    BY <2>1, <2>2 DEF c
<1> DEFINE seen == Only(calls, Ready(Threads))
<1>3. seen \in Seq(Entries)
  BY <1>2
<1> HIDE DEF seen
<1>4. \A i \in 1..Len(seen) : seen[i][2] \in Functions
  BY <1>3 DEF Entries
<1>5. [i \in 1..Len(seen) |-> seen[i][2]] \in Seq(Functions)
  BY <1>3, <1>4
<1>6. Entered = [i \in 1..Len(seen) |-> seen[i][2]]
  BY DEF Entered, seen
<1>7. \A t \in Threads : CallsOf(t) \in Seq(Entries)
  BY <1>2 DEF CallsOf
<1> QED
  BY <1>5, <1>6, <1>7

\* An entry after the constructor is a call of its thread and of the process.
LEMMA EnterCalls ==
  ASSUME TInv, NEW t \in Threads, NEW f \in Functions, Enter(t, f)
  PROVE  /\ phase = "main" => /\ CallsOf(t)' = Append(CallsOf(t), <<t, f, TRUE>>)
                              /\ Entered' = Append(Entered, f)
         /\ phase # "main" => CallsOf(t)' = CallsOf(t) /\ Entered' = Entered
         /\ \A u \in Threads : u # t => CallsOf(u)' = CallsOf(u)
<1> DEFINE e == <<t, f, phase = "main">>
<1>1. calls \in Seq(Entries) /\ calls' = Append(calls, e) /\ e \in Entries
  <2>1. e \in Entries
    BY DEF Entries
  <2> QED
    BY <2>1 DEF TInv, Enter
<1>2. ASSUME NEW T
      PROVE  Only(calls', T) = IF e \in T THEN Append(Only(calls, T), e) ELSE Only(calls, T)
  <2> HIDE DEF e
  <2> QED
    BY <1>1, OnlyAppend
<1>3. \A u \in Threads : u # t => e \notin Ready({u})
  BY DEF Ready
<1>4. CASE phase = "main"
  <2>1. e = <<t, f, TRUE>>
    BY <1>4
  <2>2. e \in Ready({t}) /\ e \in Ready(Threads)
    BY <2>1 DEF Ready
  <2>3. CallsOf(t)' = Append(CallsOf(t), <<t, f, TRUE>>)
    BY <1>2, <2>1, <2>2 DEF CallsOf, Ready
  <2> DEFINE seen == Only(calls, Ready(Threads))
             more == Only(calls', Ready(Threads))
  <2>4. more = Append(seen, e)
    BY <1>2, <2>2
  <2>5. seen \in Seq(Entries)
    <3>1. seen \in Seq(Entries \cap Ready(Threads))
      BY <1>1, OnlyType
    <3>2. Entries \cap Ready(Threads) = Ready(Threads)
      BY DEF Entries, Ready
    <3> HIDE DEF seen
    <3>3. Len(seen) \in Nat /\ seen = [i \in 1..Len(seen) |-> seen[i]] /\ \A i \in 1..Len(seen) : seen[i] \in Entries
      BY <3>1, LenProperties
    <3> QED
      BY <3>3, IsASeq
  <2>6. Entered = [i \in 1..Len(seen) |-> seen[i][2]] /\ Entered' = [i \in 1..Len(more) |-> more[i][2]]
    BY DEF Entered, Ready
  <2> HIDE DEF seen, more, e
  <2>7. /\ Len(seen) \in Nat /\ Len(more) = Len(seen) + 1 /\ more[Len(seen) + 1] = e
        /\ \A i \in 1..Len(seen) : more[i] = seen[i]
    BY <1>1, <2>4, <2>5
  <2>8. e[2] = f
    BY <2>1
  <2>9. Entered' = Append(Entered, f)
    <3>1. Entered \in Seq(Functions) /\ Len(Entered) = Len(seen)
      BY <2>6, <2>7, HistoryTypes
    <3>2. \A i \in 1..Len(more) : more[i][2] \in Functions
      <4>1. \A i \in 1..Len(seen) : seen[i][2] \in Functions
        BY <2>5 DEF Entries
      <4> QED
        BY <2>7, <2>8, <4>1
    <3>3. Entered' \in Seq(Functions) /\ Len(Entered') = Len(seen) + 1
      BY <2>6, <2>7, <3>2
    <3>4. Append(Entered, f) \in Seq(Functions) /\ Len(Append(Entered, f)) = Len(seen) + 1
      BY <3>1
    <3>5. \A i \in 1..(Len(seen) + 1) : Entered'[i] = Append(Entered, f)[i]
      BY <2>6, <2>7, <2>8, <3>1
    <3> QED
      BY <3>3, <3>4, <3>5, SeqEqual
  <2> QED
    BY <1>2, <1>3, <1>4, <2>3, <2>9 DEF CallsOf, Ready
<1>5. CASE phase # "main"
  <2>1. e = <<t, f, FALSE>>
    BY <1>5
  <2>2. e \notin Ready({t}) /\ e \notin Ready(Threads)
    BY <2>1 DEF Ready
  <2> HIDE DEF e
  <2> QED
    BY <1>2, <1>3, <1>5, <2>2 DEF CallsOf, Entered, Ready
<1> QED
  BY <1>4, <1>5

\* What is written is output of the thread that writes it.
LEMMA WriteOutput ==
  ASSUME stderr \in Seq(Threads \X Texts), NEW t \in Threads, NEW x \in Texts,
         stderr' = Append(stderr, <<t, x>>)
  PROVE  /\ OutputOf(t)' = Append(OutputOf(t), <<t, x>>)
         /\ \A u \in Threads : u # t => OutputOf(u)' = OutputOf(u)
         /\ stderr' \in Seq(Threads \X Texts)
<1> DEFINE e == <<t, x>>
<1>1. e \in Threads \X Texts /\ e \in {t} \X Texts /\ \A u \in Threads : u # t => e \notin {u} \X Texts
  OBVIOUS
<1>2. stderr' = Append(stderr, e)
  OBVIOUS
<1> HIDE DEF e
<1>3. ASSUME NEW T
      PROVE  Only(stderr', T) = IF e \in T THEN Append(Only(stderr, T), e) ELSE Only(stderr, T)
  BY <1>1, <1>2, OnlyAppend
<1>4. OutputOf(t)' = Append(OutputOf(t), e)
  BY <1>1, <1>3 DEF OutputOf, Texts
<1>5. \A u \in Threads : u # t => OutputOf(u)' = OutputOf(u)
  BY <1>1, <1>3 DEF OutputOf, Texts
<1> QED
  BY <1>1, <1>2, <1>4, <1>5 DEF e

\* A thread's lines, piece by piece.
LEMMA LineFacts ==
  ASSUME TInv, NEW t \in Threads
  PROVE  /\ Len(CallsOf(t)) \in Nat
         /\ LinesOf(t) \in Seq(Threads \X Texts) /\ Len(LinesOf(t)) = 3 * Len(CallsOf(t))
         /\ \A n \in 1..Len(CallsOf(t)) :
              /\ LinesOf(t)[3 * (n - 1) + 1] = <<t, "[TRACE] ">>
              /\ LinesOf(t)[3 * (n - 1) + 2] = <<t, CallsOf(t)[n][2]>>
              /\ LinesOf(t)[3 * (n - 1) + 3] = <<t, "\n">>
<1> DEFINE c == CallsOf(t)
           n == Len(c)
           Text(k) == Piece(k % 3, c[(k + 2) \div 3][2])
<1>1. c \in Seq(Entries) /\ n \in Nat
  BY HistoryTypes
<1>2. LinesOf(t) = [k \in 1..(3 * n) |-> <<t, Text(k)>>]
  BY DEF LinesOf
<1> HIDE DEF c, n
<1>3. ASSUME NEW k \in 1..(3 * n) PROVE Text(k) \in Texts
  <2>1. k % 3 \in {0, 1, 2} /\ (k + 2) \div 3 \in 1..n
    BY <1>1
  <2>2. c[(k + 2) \div 3][2] \in Functions
    BY <1>1, <2>1 DEF Entries, n
  <2>3. \A j : Piece(j, c[(k + 2) \div 3][2]) \in Texts
    BY <2>2 DEF Piece, Texts
  <2> QED
    BY <2>3
<1>4. LinesOf(t) \in Seq(Threads \X Texts) /\ Len(LinesOf(t)) = 3 * n
  <2> HIDE DEF Text
  <2>1. \A k \in 1..(3 * n) : <<t, Text(k)>> \in Threads \X Texts
    BY <1>3
  <2> QED
    BY <1>1, <1>2, <2>1
<1>5. ASSUME NEW m \in 1..n
      PROVE  /\ LinesOf(t)[3 * (m - 1) + 1] = <<t, "[TRACE] ">>
             /\ LinesOf(t)[3 * (m - 1) + 2] = <<t, c[m][2]>>
             /\ LinesOf(t)[3 * (m - 1) + 3] = <<t, "\n">>
  <2> DEFINE k == 3 * (m - 1)
  <2>1. /\ k + 1 \in 1..(3 * n) /\ k + 2 \in 1..(3 * n) /\ k + 3 \in 1..(3 * n)
        /\ (k + 1) % 3 = 1 /\ (k + 2) % 3 = 2 /\ (k + 3) % 3 = 0 /\ ((k + 2) + 2) \div 3 = m
    BY <1>1
  <2> HIDE DEF k
  <2>2. Text(k + 1) = "[TRACE] " /\ Text(k + 2) = c[m][2] /\ Text(k + 3) = "\n"
    <3>1. \A f : Piece(1, f) = "[TRACE] " /\ Piece(2, f) = f /\ Piece(0, f) = "\n"
      BY DEF Piece
    <3> QED
      BY <2>1, <3>1
  <2> HIDE DEF Text
  <2>3. /\ LinesOf(t)[k + 1] = <<t, "[TRACE] ">> /\ LinesOf(t)[k + 2] = <<t, c[m][2]>>
        /\ LinesOf(t)[k + 3] = <<t, "\n">>
    BY <1>2, <2>1, <2>2
  <2> QED
    BY <2>3 DEF k
<1> QED
  BY <1>1, <1>4, <1>5 DEF n, c

\* The lines of further calls stand behind those there are.
LEMMA LinesGrow ==
  ASSUME TInv, TInv', NEW t \in Threads, NEW e \in Entries, CallsOf(t)' = Append(CallsOf(t), e)
  PROVE  /\ Len(CallsOf(t))' = Len(CallsOf(t)) + 1 /\ Len(CallsOf(t)) \in Nat
         /\ \A k \in 1..(3 * Len(CallsOf(t))) : LinesOf(t)'[k] = LinesOf(t)[k]
<1> DEFINE c == CallsOf(t)
           d == CallsOf(t)'
           n == Len(c)
<1>1. c \in Seq(Entries) /\ n \in Nat
  BY HistoryTypes
<1>2. d = Append(c, e)
  OBVIOUS
<1>3. /\ LinesOf(t) = [k \in 1..(3 * n) |->
           <<t, Piece(k % 3, c[(k + 2) \div 3][2])>>]
      /\ LinesOf(t)' = [k \in 1..(3 * Len(d)) |->
           <<t, Piece(k % 3, d[(k + 2) \div 3][2])>>]
  BY DEF LinesOf
<1> HIDE DEF c, d
<1>4. Len(d) = n + 1 /\ \A i \in 1..n : d[i] = c[i]
  BY <1>1, <1>2
<1> HIDE DEF n
<1>5. ASSUME NEW k \in 1..(3 * n) PROVE LinesOf(t)'[k] = LinesOf(t)[k]
  <2>1. k \in 1..(3 * Len(d)) /\ (k + 2) \div 3 \in 1..n
    BY <1>1, <1>4
  <2>2. d[(k + 2) \div 3] = c[(k + 2) \div 3]
    BY <1>4, <2>1
  <2> QED
    BY <1>3, <2>1, <2>2
<1> QED
  BY <1>1, <1>4, <1>5 DEF n, c, d

\* A step that calls and writes nothing leaves the history and the lines.
LEMMA SameOutput ==
  ASSUME UNCHANGED <<calls, stderr>>
  PROVE  Entered' = Entered /\ \A t \in Threads : /\ CallsOf(t)' = CallsOf(t)
                                                  /\ OutputOf(t)' = OutputOf(t) /\ LinesOf(t)' = LinesOf(t)
BY DEF Entered, CallsOf, OutputOf, LinesOf, Ready, Texts

Early == {"load_ptr", "load_idx", "store", "store_idx", "check_print"}

LEMMA InitOutInv == Init => OutInv
<1> SUFFICES ASSUME Init PROVE OutInv
  OBVIOUS
<1>1. IInv
  BY InitIInv
<1>2. \A T : Only(calls, T) = <<>> /\ Only(stderr, T) = <<>>
  BY OnlyEmpty DEF Init
<1>3. Before
  <2>1. \A t \in Threads : CallsOf(t) = <<>> /\ OutputOf(t) = <<>>
    BY <1>2 DEF CallsOf, OutputOf
  <2>2. Entered = <<>>
    <3>1. Only(calls, Ready(Threads)) = <<>>
      BY <1>2
    <3> QED
      BY <3>1 DEF Entered
  <2> QED
    BY <2>1, <2>2 DEF Init, Before
<1>4. PhaseInv
  <2>1. stderr \in Seq(Threads \X Texts)
    BY DEF Init
  <2> QED
    BY <1>3, <2>1 DEF Init, PhaseInv
<1>5. \A t \in Threads : LinesInv(t)
  BY <1>3 DEF Init, Before, LinesInv, Inside, Writing
<1> QED
  BY <1>1, <1>4, <1>5 DEF OutInv

\* Before main() only Main moves, and only as far as the null test.
LEMMA StepBefore ==
  ASSUME OutInv, [Next]_vars, phase # "main"
  PROVE  OutInv'
<1>1. IInv' /\ Before /\ team \subseteq Threads
  BY NextIInv DEF OutInv, PhaseInv, IInv, TInv
<1>2. CASE UNCHANGED vars
  BY <1>1, <1>2, SameOutput
     DEF vars, OutInv, PhaseInv, Before, LinesInv, Written, Inside, Writing
<1>3. CASE MapBuffer
  <2>1. Before'
    BY <1>1, <1>3, SameOutput DEF MapBuffer, Before, At
  <2>2. PhaseInv' /\ phase' # "main"
    BY <1>3, <2>1 DEF MapBuffer, OutInv, PhaseInv
  <2>3. \A t \in Threads : LinesInv(t)'
    BY <2>1, <2>2 DEF Before, LinesInv, Inside, Writing
  <2> QED
    BY <1>1, <2>2, <2>3 DEF OutInv
<1>4. CASE CheckEnvironment
  <2>1. /\ \A t \in Threads : pc'[t] = "program" /\ CallsOf(t)' = <<>> /\ OutputOf(t)' = <<>>
        /\ phase' = "main" /\ printOn' \in BOOLEAN /\ phase = "getenv" /\ UNCHANGED <<ptr, stderr>>
    BY <1>1, <1>4, SameOutput DEF CheckEnvironment, Before
  <2>2. PhaseInv'
    BY <2>1 DEF OutInv, PhaseInv, Texts
  <2>3. \A t \in Threads : LinesInv(t)'
    BY <2>1 DEF LinesInv, Inside, Writing, Written
  <2> QED
    BY <1>1, <2>2, <2>3 DEF OutInv
<1>5. ASSUME NEW t \in Threads, NEW f \in Functions, Enter(t, f) PROVE OutInv'
  <2>1. t = Main /\ phase = "ctors" /\ pc' = [pc EXCEPT ![t] = "load_ptr"]
        /\ UNCHANGED <<ptr, printOn, stderr, phase>>
    BY <1>5 DEF Enter, Goto, runtime
  <2>2. Entered' = Entered /\ \A u \in Threads : CallsOf(u)' = CallsOf(u) /\ OutputOf(u)' = OutputOf(u)
    BY <1>5, <2>1, EnterCalls DEF OutInv, IInv, OutputOf, Texts
  <2>3. Before'
    BY <1>1, <2>1, <2>2 DEF Before, OutInv, IInv, TInv
  <2>4. PhaseInv' /\ phase' # "main"
    BY <2>1, <2>3 DEF OutInv, PhaseInv, Texts
  <2>5. \A u \in Threads : LinesInv(u)'
    BY <2>3, <2>4 DEF Before, LinesInv, Inside, Writing
  <2> QED
    BY <1>1, <2>4, <2>5 DEF OutInv
<1>6. ASSUME NEW t \in Threads, LogEntry(t) PROVE OutInv'
  <2>1. t = Main /\ phase = "ctors" /\ pc[t] = "load_ptr" /\ ptr = "null"
    BY <1>1, <1>6 DEF LogEntry, LoadPtr, LoadIdx, Store, Fault, StoreIdx, CheckPrint, WritePrefix,
       WriteName, WriteNewline, Write, At, Before, OutInv, PhaseInv
  <2>2. pc' = [pc EXCEPT ![t] = "program"] /\ UNCHANGED <<ptr, printOn, stderr, phase, calls>>
    BY <1>6, <2>1 DEF LogEntry, LoadPtr, LoadIdx, Store, Fault, StoreIdx, CheckPrint, WritePrefix,
       WriteName, WriteNewline, Write, At, Goto, runtime
  <2>3. Before'
    BY <1>1, <2>1, <2>2, SameOutput DEF Before, OutInv, IInv, TInv
  <2>4. PhaseInv' /\ phase' # "main"
    BY <2>1, <2>2, <2>3 DEF OutInv, PhaseInv, Texts
  <2>5. \A u \in Threads : LinesInv(u)'
    BY <2>3, <2>4 DEF Before, LinesInv, Inside, Writing
  <2> QED
    BY <1>1, <2>4, <2>5 DEF OutInv
<1> QED
  BY <1>1, <1>2, <1>3, <1>4, <1>5, <1>6 DEF Next

\* Once main() runs, a function entry opens a line of its thread.
LEMMA EnterLines ==
  ASSUME OutInv, phase = "main", NEW t \in Threads, NEW f \in Functions, Enter(t, f)
  PROVE  \A u \in Threads : LinesInv(u)'
<1>1. TInv /\ TInv'
  BY EnterStep DEF OutInv, IInv
<1>2. /\ pc[t] = "program" /\ pc' = [pc EXCEPT ![t] = "load_ptr"] /\ rdi' = [rdi EXCEPT ![t] = f]
      /\ UNCHANGED <<printOn, stderr, phase>>
      /\ pc \in [Threads -> Labels] /\ rdi \in [Threads -> Functions]
  BY <1>1 DEF Enter, At, Goto, runtime, TInv
<1>3. \A u \in Threads : OutputOf(u)' = OutputOf(u)
  BY <1>2 DEF OutputOf, Texts
<1>4. /\ CallsOf(t)' = Append(CallsOf(t), <<t, f, TRUE>>)
      /\ \A u \in Threads : u # t => CallsOf(u)' = CallsOf(u)
  BY <1>1, EnterCalls
<1> SUFFICES ASSUME NEW u \in Threads PROVE LinesInv(u)'
  OBVIOUS
<1>5. CASE u # t
  <2>1. CallsOf(u)' = CallsOf(u) /\ pc'[u] = pc[u] /\ rdi'[u] = rdi[u]
    BY <1>2, <1>4, <1>5
  <2>2. LinesOf(u)' = LinesOf(u)
    BY <2>1 DEF LinesOf
  <2>3. LinesInv(u)
    BY DEF OutInv
  <2> QED
    BY <1>2, <1>3, <2>1, <2>2, <2>3 DEF LinesInv, Written
<1>6. CASE u = t
  <2> DEFINE c == CallsOf(t)
             n == Len(c)
             e == <<t, f, TRUE>>
  <2>1. c \in Seq(Entries) /\ e \in Entries
    BY <1>1, HistoryTypes DEF Entries
  <2>2. CallsOf(t)' = Append(c, e) /\ e[2] = f
    BY <1>4
  <2> HIDE DEF e, c
  <2>3. /\ n \in Nat /\ Len(CallsOf(t)') = n + 1 /\ CallsOf(t)'[n + 1] = e
    BY <2>1, <2>2
  <2>4. \A k \in 1..(3 * n) : LinesOf(t)'[k] = LinesOf(t)[k]
    BY <1>1, <2>1, <2>2, LinesGrow DEF c
  <2>5. Written(t) = 3 * n
    BY <1>2 DEF Written, c
  <2>6. Written(t)' = 3 * n
    <3>1. pc'[t] = "load_ptr" /\ phase' = "main"
      BY <1>2
    <3>2. Written(t)' = 3 * (Len(CallsOf(t)') - 1) + 0
      BY <3>1 DEF Written
    <3> QED
      BY <2>3, <3>2
  <2>7. LinesInv(t)
    BY DEF OutInv
  <2>8. /\ pc'[t] = "load_ptr" /\ rdi'[t] = f
    BY <1>2
  <2> HIDE DEF n
  <2>9. LinesInv(t)'
    <3>1. Len(CallsOf(t)') > 0 /\ CallsOf(t)'[Len(CallsOf(t)')][2] = rdi'[t]
      BY <2>2, <2>3, <2>8
    <3>2. ~printOn' => OutputOf(t)' = <<>>
      BY <1>2, <1>3, <2>7 DEF LinesInv
    <3>3. printOn' => /\ Len(OutputOf(t)') = Written(t)'
                      /\ \A k \in 1..Written(t)' : OutputOf(t)'[k] = LinesOf(t)'[k]
      BY <1>2, <1>3, <2>4, <2>5, <2>6, <2>7 DEF LinesInv
    <3> QED
      BY <2>8, <3>1, <3>2, <3>3 DEF LinesInv, Writing
  <2> QED
    BY <1>6, <2>9
<1> QED
  BY <1>5, <1>6

\* The instructions that store the entry write no output; without printing a
\* thread leaves from the test.
LEMMA QuietLines ==
  ASSUME OutInv, phase = "main", NEW t \in Threads,
         LoadPtr(t) \/ LoadIdx(t) \/ Store(t) \/ Fault(t) \/ StoreIdx(t) \/ CheckPrint(t)
  PROVE  \A u \in Threads : LinesInv(u)'
<1>1. /\ UNCHANGED <<printOn, stderr, rdi, phase, calls>>
      /\ pc[t] \in Early /\ pc' \in [Threads -> Labels] /\ pc \in [Threads -> Labels]
      /\ \A u \in Threads : u # t => pc'[u] = pc[u]
      /\ pc'[t] \in Early \/ (printOn /\ pc'[t] = "write_prefix") \/ (~printOn /\ pc'[t] = "program")
  <2>1. pc \in [Threads -> Labels] /\ ptr # "null"
    BY DEF OutInv, IInv, TInv, PhaseInv
  <2>2. CASE LoadPtr(t) \/ LoadIdx(t) \/ Store(t) \/ Fault(t) \/ StoreIdx(t)
    BY <2>1, <2>2 DEF LoadPtr, LoadIdx, Store, Fault, StoreIdx, At, Goto, runtime, Early, Labels
  <2>3. CASE CheckPrint(t)
    BY <2>1, <2>3 DEF CheckPrint, At, Goto, runtime, Early, Labels
  <2> QED
    BY <2>2, <2>3
<1>2. \A u \in Threads : CallsOf(u)' = CallsOf(u) /\ OutputOf(u)' = OutputOf(u) /\ LinesOf(u)' = LinesOf(u)
  BY <1>1, SameOutput
<1> SUFFICES ASSUME NEW u \in Threads PROVE LinesInv(u)'
  OBVIOUS
<1>3. LinesInv(u)
  BY DEF OutInv
<1>4. CASE u # t
  BY <1>1, <1>2, <1>3, <1>4 DEF LinesInv, Written
<1>5. CASE u = t
  <2>1. Written(u) = 3 * (Len(CallsOf(u)) - 1) + 0
    BY <1>1, <1>5 DEF Written, Early
  <2>2. printOn => Written(u)' = 3 * (Len(CallsOf(u)) - 1) + 0
    BY <1>1, <1>2, <1>5 DEF Written, Early
  <2>3. pc[u] \in Inside /\ (pc'[u] \in Writing => printOn)
    BY <1>1, <1>5 DEF Early, Inside, Writing
  <2> QED
    BY <1>1, <1>2, <1>3, <2>1, <2>2, <2>3 DEF LinesInv
<1> QED
  BY <1>4, <1>5

\* Each of the three writes adds the next piece of the thread's lines.
LEMMA WriteLines ==
  ASSUME OutInv, phase = "main", NEW t \in Threads, WritePrefix(t) \/ WriteName(t) \/ WriteNewline(t)
  PROVE  (\A u \in Threads : LinesInv(u)') /\ stderr' \in Seq(Threads \X Texts)
<1> DEFINE n == Len(CallsOf(t))
           m == 3 * (n - 1) + (IF WritePrefix(t) THEN 0 ELSE IF WriteName(t) THEN 1 ELSE 2)
           x == IF WritePrefix(t) THEN "[TRACE] " ELSE IF WriteName(t) THEN rdi[t] ELSE "\n"
<1>1. TInv /\ pc \in [Threads -> Labels] /\ rdi \in [Threads -> Functions]
      /\ stderr \in Seq(Threads \X Texts) /\ LinesInv(t) /\ n \in Nat
  BY LineFacts DEF OutInv, IInv, TInv, PhaseInv
<1>2. /\ pc[t] = IF WritePrefix(t) THEN "write_prefix" ELSE IF WriteName(t) THEN "write_name"
                 ELSE "write_newline"
      /\ pc' = [pc EXCEPT ![t] = IF WritePrefix(t) THEN "write_name"
                                 ELSE IF WriteName(t) THEN "write_newline" ELSE "program"]
      /\ stderr' = Append(stderr, <<t, x>>) /\ UNCHANGED <<printOn, rdi, phase, calls>>
  BY DEF WritePrefix, WriteName, WriteNewline, Write, At, Goto
<1>3. x \in Texts
  <2>1. rdi[t] \in Functions
    BY <1>1
  <2> QED
    BY <2>1 DEF Texts
<1>4. /\ OutputOf(t)' = Append(OutputOf(t), <<t, x>>) /\ stderr' \in Seq(Threads \X Texts)
      /\ \A u \in Threads : u # t => OutputOf(u)' = OutputOf(u)
  <2> HIDE DEF x
  <2> QED
    BY <1>1, <1>2, <1>3, WriteOutput
<1>5. \A u \in Threads : CallsOf(u)' = CallsOf(u) /\ LinesOf(u)' = LinesOf(u)
  BY <1>2 DEF CallsOf, LinesOf, Ready
<1>6. n > 0 /\ CallsOf(t)[n][2] = rdi[t] /\ printOn
  BY <1>1, <1>2 DEF LinesInv, Inside, Writing
<1>7. Written(t) = m /\ m \in Nat
  <2>1. Written(t) = 3 * (n - 1) + (IF pc[t] = "write_name" THEN 1
                                    ELSE IF pc[t] = "write_newline" THEN 2 ELSE 0)
    BY <1>2 DEF Written
  <2>0. n \in Nat \ {0}
    BY <1>1, <1>6
  <2> HIDE DEF n
  <2>2. CASE WritePrefix(t)
    <3>1. pc[t] = "write_prefix"
      BY <1>2, <2>2
    <3>2. Written(t) = 3 * (n - 1) + 0
      BY <2>1, <3>1
    <3>3. m = 3 * (n - 1) + 0
      BY <2>2
    <3> QED
      BY <2>0, <3>2, <3>3
  <2>3. CASE ~WritePrefix(t) /\ WriteName(t)
    BY <1>2, <2>0, <2>1, <2>3
  <2>4. CASE ~WritePrefix(t) /\ ~WriteName(t)
    BY <1>2, <2>0, <2>1, <2>4
  <2> QED
    BY <2>2, <2>3, <2>4
<1>8. Written(t)' = m + 1
  <2>1. Written(t)' = IF pc'[t] = "program" THEN 3 * n
                      ELSE 3 * (n - 1) + (IF pc'[t] = "write_name" THEN 1
                                          ELSE IF pc'[t] = "write_newline" THEN 2 ELSE 0)
    BY <1>2, <1>5 DEF Written
  <2>2. pc'[t] = IF WritePrefix(t) THEN "write_name"
                 ELSE IF WriteName(t) THEN "write_newline" ELSE "program"
    BY <1>1, <1>2
  <2>3. CASE WritePrefix(t)
    BY <1>1, <2>1, <2>2, <2>3
  <2>4. CASE ~WritePrefix(t) /\ WriteName(t)
    BY <1>1, <2>1, <2>2, <2>4
  <2>5. CASE ~WritePrefix(t) /\ ~WriteName(t)
    BY <1>1, <2>1, <2>2, <2>5
  <2> QED
    BY <2>3, <2>4, <2>5
<1>9. LinesOf(t)[m + 1] = <<t, x>>
  <2>1. /\ LinesOf(t)[3 * (n - 1) + 1] = <<t, "[TRACE] ">>
        /\ LinesOf(t)[3 * (n - 1) + 2] = <<t, rdi[t]>>
        /\ LinesOf(t)[3 * (n - 1) + 3] = <<t, "\n">>
    <3>1. n \in 1..n
      BY <1>1, <1>6
    <3> HIDE DEF n
    <3> QED
      BY <1>1, <1>6, <3>1, LineFacts DEF n
  <2>2. /\ (3 * (n - 1) + 0) + 1 = 3 * (n - 1) + 1 /\ (3 * (n - 1) + 1) + 1 = 3 * (n - 1) + 2
        /\ (3 * (n - 1) + 2) + 1 = 3 * (n - 1) + 3
    BY <1>1
  <2> HIDE DEF n
  <2> QED
    BY <2>1, <2>2
<1>10. OutputOf(t) \in Seq((Threads \X Texts) \cap ({t} \X Texts))
  BY <1>1, OnlyType DEF OutputOf
<1> HIDE DEF n, m, x
<1>11. /\ Len(OutputOf(t)) = m /\ \A k \in 1..m : OutputOf(t)[k] = LinesOf(t)[k]
  BY <1>1, <1>6, <1>7 DEF LinesInv
<1>12. /\ Len(OutputOf(t)') = m + 1 /\ \A k \in 1..(m + 1) : OutputOf(t)'[k] = LinesOf(t)'[k]
  <2>1. <<t, x>> \in (Threads \X Texts) \cap ({t} \X Texts)
    BY <1>3
  <2>2. /\ Len(OutputOf(t)') = m + 1 /\ OutputOf(t)'[m + 1] = <<t, x>>
        /\ \A k \in 1..m : OutputOf(t)'[k] = OutputOf(t)[k]
    BY <1>4, <1>10, <1>11, <2>1
  <2> QED
    BY <1>5, <1>7, <1>9, <1>11, <2>2
<1>13. ASSUME NEW u \in Threads PROVE LinesInv(u)'
  <2>1. CASE u # t
    <3>1. pc'[u] = pc[u] /\ LinesInv(u)
      BY <1>1, <1>2, <2>1 DEF OutInv
    <3> QED
      BY <1>2, <1>4, <1>5, <2>1, <3>1 DEF LinesInv, Written
  <2>2. CASE u = t
    <3>1. printOn' /\ rdi'[t] = rdi[t] /\ CallsOf(t)' = CallsOf(t) /\ Len(CallsOf(t)) > 0
          /\ CallsOf(t)[Len(CallsOf(t))][2] = rdi[t]
      BY <1>2, <1>5, <1>6 DEF n
    <3> QED
      BY <1>8, <1>12, <2>2, <3>1 DEF LinesInv
  <2> QED
    BY <2>1, <2>2
<1> QED
  BY <1>4, <1>13

\* No step of any thread disturbs the output.
LEMMA NextOutInv == OutInv /\ [Next]_vars => OutInv'
<1> SUFFICES ASSUME OutInv, [Next]_vars PROVE OutInv'
  OBVIOUS
<1>1. CASE phase # "main"
  BY <1>1, StepBefore
<1>2. CASE phase = "main"
  <2>1. IInv' /\ team \subseteq Threads
    BY NextIInv DEF OutInv, IInv, TInv
  <2>2. phase' = "main" /\ ptr' = ptr /\ printOn' = printOn
    BY <1>2 DEF Next, vars, runtime, MapBuffer, CheckEnvironment, Enter, LogEntry, LoadPtr, LoadIdx,
       Store, Fault, StoreIdx, CheckPrint, WritePrefix, WriteName, WriteNewline, Write
  <2>3. stderr \in Seq(Threads \X Texts) /\ ptr # "null" /\ printOn \in BOOLEAN
    BY <1>2 DEF OutInv, PhaseInv
  <2> DEFINE Good == (\A u \in Threads : LinesInv(u)') /\ stderr' \in Seq(Threads \X Texts)
  <2>4. CASE UNCHANGED vars
    <3>1. \A u \in Threads : LinesInv(u)'
      BY <2>4, SameOutput DEF vars, OutInv, LinesInv, Written
    <3> QED
      BY <2>1, <2>2, <2>3, <2>4, <3>1 DEF OutInv, PhaseInv, vars, Texts
  <2>5. ASSUME NEW t \in Threads, NEW f \in Functions, Enter(t, f) PROVE Good
    BY <1>2, <2>3, <2>5, EnterLines DEF Enter, runtime
  <2>6. ASSUME NEW t \in Threads, LogEntry(t) PROVE Good
    <3>1. CASE LoadPtr(t) \/ LoadIdx(t) \/ Store(t) \/ Fault(t) \/ StoreIdx(t) \/ CheckPrint(t)
      <4>1. stderr' = stderr
        BY <3>1 DEF LoadPtr, LoadIdx, Store, Fault, StoreIdx, CheckPrint, runtime
      <4> QED
        BY <1>2, <2>3, <3>1, <4>1, QuietLines
    <3>2. CASE WritePrefix(t) \/ WriteName(t) \/ WriteNewline(t)
      BY <1>2, <3>2, WriteLines
    <3> QED
      BY <2>6, <3>1, <3>2 DEF LogEntry
  <2>7. Good => OutInv'
    BY <2>1, <2>2, <2>3 DEF OutInv, PhaseInv, Texts
  <2>8. ~MapBuffer /\ ~CheckEnvironment
    BY <1>2 DEF MapBuffer, CheckEnvironment
  <2> HIDE DEF Good
  <2> QED
    BY <2>1, <2>4, <2>5, <2>6, <2>7, <2>8 DEF Next
<1> QED
  BY <1>1, <1>2

\* Whatever other threads do, each thread's part of the output is its calls, in
\* order, each as prefix, name and newline.
THEOREM OutputStaysInOrder == Spec => []OutputInOrder
<1>1. OutInv => OutputInOrder
  <2> SUFFICES ASSUME OutInv, NEW t \in Threads
               PROVE  IF printOn THEN IsPrefix(OutputOf(t), LinesOf(t)) ELSE OutputOf(t) = <<>>
    BY DEF OutputInOrder
  <2>1. LinesInv(t) /\ TInv /\ stderr \in Seq(Threads \X Texts)
    BY DEF OutInv, IInv, PhaseInv
  <2>2. CASE printOn
    <3> DEFINE o == OutputOf(t)
               l == LinesOf(t)
    <3>1. o \in Seq((Threads \X Texts) \cap ({t} \X Texts))
      BY <2>1, OnlyType DEF OutputOf
    <3>2. l \in Seq(Threads \X Texts) /\ Len(l) = 3 * Len(CallsOf(t)) /\ Len(CallsOf(t)) \in Nat
      BY <2>1, LineFacts
    <3>3. Len(o) = Written(t) /\ \A k \in 1..Written(t) : o[k] = l[k]
      BY <2>1, <2>2 DEF LinesInv
    <3>4. Len(o) <= Len(l)
      BY <3>2, <3>3 DEF Written
    <3> HIDE DEF o, l
    <3>5. \A k \in 1..Len(o) : o[k] = l[k]
      BY <3>3
    <3>6. IsPrefix(o, l)
      <4>1. SubSeq(o, 1, Len(o)) = SubSeq(l, 1, Len(o))
        <5>1. Len(o) \in Nat /\ Len(l) \in Nat
          BY <3>1, <3>2
        <5> QED
          BY <3>1, <3>2, <3>4, <3>5, <5>1
      <4> QED
        BY <3>4, <4>1 DEF IsPrefix
    <3> QED
      BY <2>2, <3>6 DEF o, l
  <2>3. CASE ~printOn
    BY <2>1, <2>3 DEF LinesInv
  <2> QED
    BY <2>2, <2>3
<1> QED
  BY <1>1, InitOutInv, NextOutInv, PTL DEF Spec
-----------------------------------------------------------------------------
(***************************************************************************)
(* The log of a process with one thread.  The function entries stored so   *)
(* far (Stored) stand behind the index, the last one right behind it, as   *)
(* many as there is room for; until the buffer has been filled once the    *)
(* index counts them and the slots from it on are empty.                   *)
(***************************************************************************)
Unstored == phase = "main" /\ pc[Main] \in {"load_ptr", "load_idx", "store"}
Stored   == IF Unstored THEN SubSeq(Entered, 1, Len(Entered) - 1) ELSE Entered

\* The slot a places behind slot i.
Behind(i, a) == IF i >= a THEN i - a ELSE i - a + Size
Ring(b, i, s) ==
  /\ Len(s) < Size => i = Len(s) /\ \A k \in Slots : k >= Len(s) => b[k] = Empty
  /\ \A a \in 1..Size : a <= Len(s) => b[Behind(i, a)] = s[Len(s) + 1 - a]

RingInv ==
  Alone => /\ Unstored => Len(Entered) > 0 /\ Entered[Len(Entered)] = rdi[Main]
           /\ pc[Main] \in {"store", "store_idx"} => rdx[Main] = idx
           /\ Ring(buf, NextIdx, Stored)

\* A remainder, where one subtraction is enough.
LEMMA SmallRemainder ==
  ASSUME NEW x \in 0..(2 * Size - 1)
  PROVE  x % Size = IF x < Size THEN x ELSE x - Size
<1>1. Size \in Nat \ {0} /\ x \in Nat
  BY SizeAssumption
<1>2. CASE x < Size
  BY <1>1, <1>2
<1>3. CASE ~(x < Size)
  <2> DEFINE y == x - Size
  <2>1. y \in Nat /\ y < Size /\ x = y + Size
    BY <1>1, <1>3
  <2>2. (y + Size) % Size = y
    BY <1>1, <2>1, SMT
  <2> QED
    BY <1>3, <2>1, <2>2
<1> QED
  BY <1>2, <1>3

\* The last elements, one by one.
LEMMA WindowFacts ==
  ASSUME NEW s \in Seq(Functions)
  PROVE  LET w == Log!Window(s)
         IN  /\ w \in Seq(Functions)
             /\ Len(w) = IF Len(s) <= Size THEN Len(s) ELSE Size
             /\ \A k \in 1..Len(w) : w[k] = s[Len(s) - Len(w) + k]
<1>1. Len(s) \in Nat /\ Size \in Nat \ {0}
  BY SizeAssumption
<1>2. CASE Len(s) <= Size
  BY <1>1, <1>2 DEF Log!Window
<1>3. CASE ~(Len(s) <= Size)
  <2> DEFINE w == SubSeq(s, Len(s) - Size + 1, Len(s))
  <2>1. Log!Window(s) = w
    BY <1>3 DEF Log!Window
  <2>2. w \in Seq(Functions) /\ Len(w) = Size /\ \A k \in 1..Size : w[k] = s[Len(s) - Size + k]
    BY <1>1, <1>3
  <2> HIDE DEF w
  <2> QED
    BY <1>3, <2>1, <2>2
<1> QED
  BY <1>2, <1>3

\* To record an entry only the window is needed.
LEMMA WindowAppend ==
  ASSUME NEW s \in Seq(Functions), NEW f \in Functions
  PROVE  Log!Window(Append(Log!Window(s), f)) = Log!Window(Append(s, f))
<1> DEFINE w == Log!Window(s)
           u == Append(w, f)
           v == Append(s, f)
           x == Log!Window(u)
           y == Log!Window(v)
<1>0. Len(s) \in Nat /\ Size \in Nat \ {0}
  BY SizeAssumption
<1>1. /\ w \in Seq(Functions) /\ Len(w) = IF Len(s) <= Size THEN Len(s) ELSE Size
      /\ \A k \in 1..Len(w) : w[k] = s[Len(s) - Len(w) + k]
  BY WindowFacts
<1> HIDE DEF w
<1>2. /\ u \in Seq(Functions) /\ Len(u) = Len(w) + 1
      /\ \A k \in 1..Len(w) : u[k] = w[k]
      /\ u[Len(w) + 1] = f
  BY <1>1
<1>3. /\ v \in Seq(Functions) /\ Len(v) = Len(s) + 1
      /\ \A k \in 1..Len(s) : v[k] = s[k]
      /\ v[Len(s) + 1] = f
  OBVIOUS
<1> HIDE DEF u, v
<1>4. ASSUME NEW k \in 1..Len(u) PROVE u[k] = v[Len(v) - Len(u) + k]
  <2>1. /\ Len(w) \in Nat /\ Len(w) <= Len(s) /\ k \in 1..(Len(w) + 1)
        /\ Len(v) - Len(u) + k = Len(s) - Len(w) + k
    BY <1>0, <1>1, <1>2, <1>3
  <2>2. CASE k = Len(w) + 1
    <3>1. Len(s) - Len(w) + k = Len(s) + 1
      BY <1>0, <2>1, <2>2
    <3> QED
      BY <1>2, <1>3, <2>1, <2>2, <3>1
  <2>3. CASE k # Len(w) + 1
    <3>1. k \in 1..Len(w) /\ Len(s) - Len(w) + k \in 1..Len(s)
      BY <1>0, <2>1, <2>3
    <3> QED
      BY <1>1, <1>2, <1>3, <2>1, <3>1
  <2> QED
    BY <2>2, <2>3
<1>5. /\ x \in Seq(Functions) /\ Len(x) = IF Len(u) <= Size THEN Len(u) ELSE Size
      /\ \A k \in 1..Len(x) : x[k] = u[Len(u) - Len(x) + k]
  BY <1>2, WindowFacts
<1>6. /\ y \in Seq(Functions) /\ Len(y) = IF Len(v) <= Size THEN Len(v) ELSE Size
      /\ \A k \in 1..Len(y) : y[k] = v[Len(v) - Len(y) + k]
  BY <1>3, WindowFacts
<1> HIDE DEF x, y
<1>7. Len(x) = Len(y)
  BY <1>0, <1>1, <1>2, <1>3, <1>5, <1>6
<1>8. ASSUME NEW k \in 1..Len(x) PROVE x[k] = y[k]
  <2>0. Len(x) \in Nat /\ Len(u) \in Nat /\ Len(v) \in Nat /\ Len(x) <= Len(u) /\ k \in Nat
    BY <1>0, <1>2, <1>3, <1>5
  <2>1. /\ Len(u) - Len(x) + k \in 1..Len(u)
        /\ Len(v) - Len(u) + (Len(u) - Len(x) + k) = Len(v) - Len(y) + k
    BY <1>7, <2>0
  <2>2. x[k] = u[Len(u) - Len(x) + k]
    BY <1>5
  <2>3. u[Len(u) - Len(x) + k] = v[Len(v) - Len(y) + k]
    BY <1>4, <2>1
  <2> QED
    BY <1>6, <1>7, <2>2, <2>3
<1>9. x = y
  BY <1>5, <1>6, <1>7, <1>8, SeqEqual
<1> QED
  BY <1>9 DEF x, y, u, v, w

\* What stands behind the index is what the reader of the buffer sees.
LEMMA RingContents ==
  ASSUME NEW b \in [Slots -> Functions \cup {Empty}], NEW i \in Slots, NEW s \in Seq(Functions),
         Ring(b, i, s)
  PROVE  Only([k \in 1..Size |-> b[(i + k - 1) % Size]], Functions) = Log!Window(s)
<1> DEFINE r == [k \in 1..Size |-> b[(i + k - 1) % Size]]
           n == Len(s)
           m == IF n < Size THEN Size - n ELSE 0
<1>0. n \in Nat /\ Size \in Nat \ {0} /\ i \in 0..(Size - 1) /\ m \in 0..Size
  BY SizeAssumption DEF Slots
<1>1. ASSUME NEW k \in 1..Size
      PROVE  /\ (i + k - 1) % Size \in Slots
             /\ (i + k - 1) % Size = Behind(i, Size + 1 - k)
             /\ i + k - 1 < Size => (i + k - 1) % Size = i + k - 1
  <2>1. i + k - 1 \in 0..(2 * Size - 1)
    BY <1>0
  <2> DEFINE x == i + k - 1
  <2>2. x % Size = IF x < Size THEN x ELSE x - Size
    <3>1. x \in 0..(2 * Size - 1)
      BY <2>1
    <3> HIDE DEF x
    <3> QED
      BY <3>1, SmallRemainder
  <2> HIDE DEF m
  <2> QED
    BY <1>0, <2>2 DEF Behind, Slots
<1>2. r \in Seq(Functions \cup {Empty}) /\ Len(r) = Size
  <2>1. \A k \in 1..Size : b[(i + k - 1) % Size] \in Functions \cup {Empty}
    BY <1>1
  <2> QED
    BY <1>0, <2>1
<1>3. ASSUME NEW k \in 1..m PROVE r[k] \notin Functions
  <2>1. n < Size /\ i = n /\ k \in 1..Size /\ i + k - 1 < Size /\ i + k - 1 >= n
    BY <1>0 DEF Ring
  <2>2. i + k - 1 \in Slots
    BY <1>0, <2>1 DEF Slots
  <2>3. r[k] = b[i + k - 1]
    BY <1>1, <2>1
  <2>4. b[i + k - 1] = Empty
    BY <2>1, <2>2 DEF Ring
  <2> QED
    BY <2>3, <2>4, EmptyAssumption
<1>4. ASSUME NEW k \in (m + 1)..Size PROVE r[k] = s[n - Size + k] /\ n - Size + k \in 1..n
  <2>1. k \in 1..Size /\ Size + 1 - k \in 1..Size /\ Size + 1 - k <= n
    BY <1>0
  <2>2. r[k] = b[Behind(i, Size + 1 - k)]
    BY <1>1, <2>1
  <2>3. b[Behind(i, Size + 1 - k)] = s[n + 1 - (Size + 1 - k)]
    BY <2>1 DEF Ring
  <2>4. n + 1 - (Size + 1 - k) = n - Size + k /\ n - Size + k \in 1..n
    BY <1>0, <2>1
  <2> QED
    BY <2>2, <2>3, <2>4
<1> HIDE DEF r, m
<1>5. \A k \in (m + 1)..Len(r) : r[k] \in Functions
  BY <1>2, <1>4
<1>6. m \in 0..Len(r)
  BY <1>0, <1>2
<1>7. Only(r, Functions) = [k \in 1..(Size - m) |-> r[m + k]]
  <2> DEFINE S == Functions \cup {Empty}
  <2>0. r \in Seq(S)
    BY <1>2
  <2> HIDE DEF S
  <2>1. Only(r, Functions) = [k \in 1..(Len(r) - m) |-> r[m + k]]
    BY <1>3, <1>5, <1>6, <2>0, OnlyEnd
  <2> QED
    BY <1>2, <2>1
<1> DEFINE o == [k \in 1..(Size - m) |-> r[m + k]]
           w == Log!Window(s)
<1>8. /\ w \in Seq(Functions) /\ Len(w) = IF n <= Size THEN n ELSE Size
      /\ \A k \in 1..Len(w) : w[k] = s[n - Len(w) + k]
  BY WindowFacts
<1> HIDE DEF w
<1> HIDE DEF n
<1>9. Size - m = Len(w)
  <2>1. CASE n < Size
    BY <1>0, <1>8, <2>1 DEF m
  <2>2. CASE ~(n < Size)
    BY <1>0, <1>8, <2>2 DEF m
  <2> QED
    BY <2>1, <2>2
<1>10. o \in Seq(Functions) /\ Len(o) = Size - m /\ \A k \in 1..(Size - m) : o[k] = r[m + k]
  <2>1. \A k \in 1..(Size - m) : m + k \in (m + 1)..Size
    BY <1>0
  <2>2. \A k \in 1..(Size - m) : r[m + k] \in Functions
    BY <1>2, <1>5, <2>1
  <2>3. Size - m \in Nat
    BY <1>0
  <2> QED
    BY <2>2, <2>3
<1> HIDE DEF o
<1>11. ASSUME NEW k \in 1..Len(w) PROVE o[k] = w[k]
  <2>1. k \in 1..(Size - m) /\ m + k \in (m + 1)..Size
    BY <1>0, <1>9
  <2>2. o[k] = s[n - Size + (m + k)]
    BY <1>4, <1>10, <2>1
  <2>3. n - Size + (m + k) = n - Len(w) + k
    BY <1>0, <1>9
  <2> QED
    BY <1>8, <2>2, <2>3
<1>12. o = w
  BY <1>8, <1>9, <1>10, <1>11, SeqEqual
<1> QED
  BY <1>7, <1>12 DEF o, r, w

\* Storing an entry at the index, and moving the index on.
LEMMA RingStore ==
  ASSUME NEW b \in [Slots -> Functions \cup {Empty}], NEW i \in Slots, NEW s \in Seq(Functions),
         NEW f \in Functions, Ring(b, i, s)
  PROVE  Ring([b EXCEPT ![i] = f], (i + 1) % Size, Append(s, f))
<1> DEFINE c == [b EXCEPT ![i] = f]
           j == (i + 1) % Size
           n == Len(s)
           v == Append(s, f)
<1>0. n \in Nat /\ Size \in Nat \ {0} /\ i \in 0..(Size - 1)
  BY SizeAssumption DEF Slots
<1>1. j = IF i + 1 = Size THEN 0 ELSE i + 1
  <2>1. i + 1 \in 0..(2 * Size - 1)
    BY <1>0
  <2> DEFINE x == i + 1
  <2>2. x % Size = IF x < Size THEN x ELSE x - Size
    <3>1. x \in 0..(2 * Size - 1)
      BY <2>1
    <3> HIDE DEF x
    <3> QED
      BY <3>1, SmallRemainder
  <2> QED
    BY <1>0, <2>2
<1>2. /\ v \in Seq(Functions) /\ Len(v) = n + 1 /\ v[n + 1] = f
      /\ \A k \in 1..n : v[k] = s[k]
  OBVIOUS
<1>3. \A k \in Slots : c[k] = IF k = i THEN f ELSE b[k]
  OBVIOUS
<1> HIDE DEF c, j, v
<1>4. ASSUME n + 1 < Size PROVE j = n + 1 /\ \A k \in Slots : k >= n + 1 => c[k] = Empty
  <2>1. i = n /\ \A k \in Slots : k >= n => b[k] = Empty
    BY <1>0, <1>4 DEF Ring
  <2>2. j = n + 1
    BY <1>0, <1>1, <1>4, <2>1
  <2> QED
    BY <1>0, <1>3, <2>1, <2>2 DEF Slots
<1>5. ASSUME NEW a \in 1..Size, a <= n + 1 PROVE c[Behind(j, a)] = v[(n + 1) + 1 - a]
  <2>1. CASE a = 1
    <3>1. Behind(j, 1) = i
      BY <1>0, <1>1 DEF Behind
    <3>2. (n + 1) + 1 - 1 = n + 1
      BY <1>0
    <3> QED
      BY <1>2, <1>3, <2>1, <3>1, <3>2
  <2>2. CASE a # 1
    <3>1. /\ Behind(j, a) = Behind(i, a - 1) /\ Behind(i, a - 1) # i
          /\ Behind(i, a - 1) \in Slots /\ a - 1 \in 1..Size /\ a - 1 <= n
      BY <1>0, <1>1, <1>5, <2>2 DEF Behind, Slots
    <3>2. b[Behind(i, a - 1)] = s[n + 1 - (a - 1)]
      BY <3>1 DEF Ring
    <3>3. n + 1 - (a - 1) = (n + 1) + 1 - a /\ n + 1 - (a - 1) \in 1..n
      BY <1>0, <1>5, <2>2
    <3> QED
      BY <1>2, <1>3, <3>1, <3>2, <3>3
  <2> QED
    BY <2>1, <2>2
<1>6. Ring(c, j, v)
  BY <1>2, <1>4, <1>5 DEF Ring
<1> QED
  BY <1>6 DEF c, j, v

\* Nothing but the entries and the index matter to the ring.
LEMMA RingTypes ==
  ASSUME IInv
  PROVE  /\ NextIdx \in Slots /\ Entered \in Seq(Functions) /\ Stored \in Seq(Functions)
         /\ buf \in [Slots -> Functions \cup {Empty}]
<1>1. /\ Entered \in Seq(Functions) /\ Len(Entered) \in Nat
      /\ buf \in [Slots -> Functions \cup {Empty}]
      /\ idx \in Slots /\ rdx[Main] \in Slots
  BY HistoryTypes, ThreadAssumption DEF IInv, TInv
<1>2. SubSeq(Entered, 1, Len(Entered) - 1) \in Seq(Functions)
  BY <1>1
<1>3. NextIdx \in Slots
  BY <1>1, MaskedIndex DEF NextIdx
<1> QED
  BY <1>1, <1>2, <1>3 DEF Stored

\* The last element may be taken off and put back.
LEMMA LastPutBack ==
  ASSUME NEW s \in Seq(Functions), NEW f \in Functions
  PROVE  /\ SubSeq(Append(s, f), 1, Len(Append(s, f)) - 1) = s
         /\ Len(Append(s, f)) > 0 /\ Append(s, f)[Len(Append(s, f))] = f
         /\ Len(s) > 0 /\ s[Len(s)] = f => s = Append(SubSeq(s, 1, Len(s) - 1), f)
<1> DEFINE n == Len(s)
           a == Append(s, f)
           b == SubSeq(a, 1, n)
<1>1. n \in Nat /\ a \in Seq(Functions) /\ Len(a) = n + 1 /\ a[n + 1] = f /\ \A k \in 1..n : a[k] = s[k]
  OBVIOUS
<1> HIDE DEF a
<1>2. b \in Seq(Functions) /\ Len(b) = n /\ \A k \in 1..n : b[k] = a[k]
  BY <1>1
<1> HIDE DEF b
<1>3. b = s
  BY <1>1, <1>2, SeqEqual
<1>4. ASSUME n > 0, s[n] = f PROVE s = Append(SubSeq(s, 1, n - 1), f)
  <2> DEFINE c == SubSeq(s, 1, n - 1)
             d == Append(c, f)
  <2>1. c \in Seq(Functions) /\ Len(c) = n - 1 /\ \A k \in 1..(n - 1) : c[k] = s[k]
    <3> DEFINE l == n - 1
    <3>1. l \in 0..Len(s) /\ 1 <= l + 1
      BY <1>1, <1>4
    <3> HIDE DEF l, n
    <3>2. SubSeq(s, 1, l) \in Seq(Functions) /\ Len(SubSeq(s, 1, l)) = l
          /\ \A k \in 1..l : SubSeq(s, 1, l)[k] = s[k]
      BY <3>1
    <3> QED
      BY <3>2 DEF l
  <2> HIDE DEF c
  <2>2. d \in Seq(Functions) /\ Len(d) = n /\ d[n] = f /\ \A k \in 1..(n - 1) : d[k] = c[k]
    BY <1>1, <1>4, <2>1
  <2> HIDE DEF d
  <2>3. \A k \in 1..n : d[k] = s[k]
    BY <1>1, <1>4, <2>1, <2>2
  <2>4. d = s
    BY <1>1, <2>2, <2>3, SeqEqual
  <2> QED
    BY <2>4 DEF c, d
<1>5. Len(a) - 1 = n
  BY <1>1
<1> QED
  BY <1>1, <1>3, <1>4, <1>5 DEF a, b

Kept == UNCHANGED <<buf, NextIdx, Stored>>
Recorded ==
  /\ Stored' = Append(Stored, rdi[Main]) /\ rdi[Main] \in Functions
  /\ buf' = [buf EXCEPT ![NextIdx] = rdi[Main]]
  /\ NextIdx' = (NextIdx + 1) % Size

\* What RingInv says of the entry on its way into the ring.
OnItsWay ==
  /\ Unstored => Len(Entered) > 0 /\ Entered[Len(Entered)] = rdi[Main]
  /\ pc[Main] \in {"store", "store_idx"} => rdx[Main] = idx

\* A function entry of the only thread: its entry is still to be stored.
LEMMA EnterRing ==
  ASSUME OutInv, OnItsWay, NEW f \in Functions, Enter(Main, f)
  PROVE  Kept /\ OnItsWay'
<1>1. IInv /\ TInv /\ Main \in Threads /\ Entered \in Seq(Functions)
  BY ThreadAssumption, RingTypes DEF OutInv, IInv
<1>2. /\ pc[Main] = "program" /\ pc'[Main] = "load_ptr" /\ rdi'[Main] = f
      /\ UNCHANGED <<buf, idx, rdx, phase>>
  BY <1>1 DEF Enter, At, Goto, runtime, TInv
<1>3. Stored = Entered /\ NextIdx' = NextIdx
  BY <1>2 DEF Stored, Unstored, NextIdx
<1>4. CASE phase = "main"
  <2>1. Entered' = Append(Entered, f)
    BY <1>1, <1>4, EnterCalls
  <2>2. Stored' = SubSeq(Entered', 1, Len(Entered') - 1)
    BY <1>2, <1>4 DEF Stored, Unstored
  <2>3. Stored' = Entered
    BY <1>1, <2>1, <2>2, LastPutBack
  <2>4. Len(Entered') > 0 /\ Entered'[Len(Entered')] = f
    BY <1>1, <2>1, LastPutBack
  <2> QED
    BY <1>2, <1>3, <2>3, <2>4 DEF Kept, OnItsWay
<1>5. CASE phase # "main"
  <2>1. Entered' = Entered /\ ~Unstored'
    BY <1>1, <1>2, <1>5, EnterCalls DEF Unstored
  <2> QED
    BY <1>2, <1>3, <2>1 DEF Kept, OnItsWay, Stored
<1> QED
  BY <1>4, <1>5

\* The store of the entry is the step that records it.
LEMMA StoreRing ==
  ASSUME OutInv, OnItsWay, Store(Main)
  PROVE  Recorded /\ OnItsWay'
<1>1. IInv /\ TInv /\ Main \in Threads /\ Entered \in Seq(Functions) /\ rdi[Main] \in Functions
  BY ThreadAssumption, RingTypes DEF OutInv, IInv, TInv
<1>2. /\ pc[Main] = "store" /\ pc'[Main] = "store_idx"
      /\ buf' = [buf EXCEPT ![rdx[Main]] = rdi[Main]] /\ UNCHANGED <<idx, rdx, rdi, phase, calls>>
  BY <1>1 DEF Store, At, Goto, TInv
<1>3. phase = "main"
  BY <1>1, <1>2 DEF OutInv, PhaseInv, Before
<1>4. Unstored /\ ~Unstored' /\ Entered' = Entered /\ rdx[Main] = idx
  BY <1>2, <1>3 DEF Unstored, OnItsWay, Entered, Ready
<1>5. Entered = Append(SubSeq(Entered, 1, Len(Entered) - 1), rdi[Main])
  BY <1>1, <1>4, LastPutBack DEF OnItsWay
<1>6. Stored' = Append(Stored, rdi[Main])
  BY <1>4, <1>5 DEF Stored
<1>7. NextIdx = rdx[Main] /\ NextIdx' = (rdx[Main] + 1) % Size
  BY <1>2, <1>4 DEF NextIdx
<1> QED
  BY <1>1, <1>2, <1>4, <1>6, <1>7 DEF Recorded, OnItsWay

\* The rest of the logger leaves the ring, its index and its entries alone.
LEMMA QuietRing ==
  ASSUME OutInv, OnItsWay,
         LoadPtr(Main) \/ LoadIdx(Main) \/ Fault(Main) \/ StoreIdx(Main) \/ CheckPrint(Main)
           \/ WritePrefix(Main) \/ WriteName(Main) \/ WriteNewline(Main)
  PROVE  Kept /\ OnItsWay'
<1>1. TInv /\ Main \in Threads /\ pc \in [Threads -> Labels] /\ rdx \in [Threads -> Slots]
  BY ThreadAssumption DEF OutInv, IInv, TInv
<1>2. UNCHANGED <<buf, rdi, phase, calls>>
  BY DEF LoadPtr, LoadIdx, Fault, StoreIdx, CheckPrint, WritePrefix, WriteName, WriteNewline, Write,
         runtime
<1>3. Entered' = Entered
  BY <1>2 DEF Entered, Ready
<1>4. /\ Unstored' <=> Unstored
      /\ pc'[Main] \in {"store", "store_idx"} => rdx'[Main] = idx'
      /\ NextIdx' = NextIdx
  <2>1. CASE LoadPtr(Main)
    <3>1. phase = "main" <=> ptr # "null"
      BY <1>1, <2>1 DEF LoadPtr, At, OutInv, PhaseInv, Before
    <3> QED
      BY <1>1, <2>1, <3>1 DEF LoadPtr, At, Goto, runtime, Unstored, NextIdx
  <2>2. CASE LoadIdx(Main)
    BY <1>1, <2>2 DEF LoadIdx, At, Goto, runtime, Unstored, NextIdx
  <2>3. CASE Fault(Main)
    BY <1>1, <2>3 DEF Fault, runtime, Unstored, NextIdx, OnItsWay
  <2>4. CASE StoreIdx(Main)
    BY <1>1, <2>4 DEF StoreIdx, At, Goto, Unstored, NextIdx
  <2>5. CASE CheckPrint(Main)
    BY <1>1, <2>5 DEF CheckPrint, At, Goto, runtime, Unstored, NextIdx
  <2>6. CASE WritePrefix(Main) \/ WriteName(Main) \/ WriteNewline(Main)
    BY <1>1, <2>6 DEF WritePrefix, WriteName, WriteNewline, Write, At, Goto, Unstored, NextIdx
  <2> QED
    BY <2>1, <2>2, <2>3, <2>4, <2>5, <2>6
<1> QED
  BY <1>2, <1>3, <1>4 DEF Kept, OnItsWay, Stored

\* Every step of a process with one thread keeps the ring or records an entry.
LEMMA RingStep ==
  ASSUME OutInv, OnItsWay, Alone, [Next]_vars
  PROVE  (Kept \/ Recorded) /\ OnItsWay' /\ Alone'
<1>1. team = {Main}
  BY DEF Alone
<1>2. CASE UNCHANGED vars
  BY <1>1, <1>2, SameOutput DEF vars, Kept, OnItsWay, Stored, Unstored, NextIdx, Alone
<1>3. CASE MapBuffer \/ CheckEnvironment
  <2>1. pc[Main] = "program" /\ UNCHANGED <<team, idx, buf, stderr, pc, rdi, rdx, calls>>
    BY <1>3 DEF MapBuffer, CheckEnvironment, At
  <2>2. Entered' = Entered
    BY <2>1, SameOutput
  <2> QED
    BY <2>1, <2>2 DEF Kept, OnItsWay, Stored, Unstored, NextIdx, Alone
<1>4. ASSUME NEW f \in Functions, Enter(Main, f) PROVE Kept /\ OnItsWay' /\ Alone'
  BY <1>4, EnterRing DEF Enter, Alone
<1>5. ASSUME LogEntry(Main) PROVE (Kept \/ Recorded) /\ OnItsWay' /\ Alone'
  <2>1. team' = team
    BY <1>5 DEF LogEntry, LoadPtr, LoadIdx, Store, Fault, StoreIdx, CheckPrint, WritePrefix,
       WriteName, WriteNewline, Write
  <2> QED
    BY <1>5, <2>1, StoreRing, QuietRing DEF LogEntry, Alone
<1> QED
  BY <1>1, <1>2, <1>3, <1>4, <1>5 DEF Next

FullInv == OutInv /\ RingInv

LEMMA InitFullInv == Init => FullInv
<1> SUFFICES ASSUME Init PROVE RingInv
  BY InitOutInv DEF FullInv
<1>1. Entered = <<>> /\ pc[Main] = "program" /\ idx = 0 /\ buf = [k \in Slots |-> Empty]
  BY InitOutInv, ThreadAssumption DEF Init, OutInv, PhaseInv, Before
<1>2. Stored = <<>> /\ NextIdx = 0
  BY <1>1 DEF Stored, Unstored, NextIdx
<1>3. Ring(buf, 0, <<>>)
  BY <1>1, SizeAssumption DEF Ring
<1> QED
  BY <1>1, <1>2, <1>3 DEF RingInv, Unstored

LEMMA NextFullInv == FullInv /\ [Next]_vars => FullInv'
<1> SUFFICES ASSUME FullInv, [Next]_vars PROVE RingInv'
  BY NextOutInv DEF FullInv
<1>1. CASE ~Alone
  <2>1. team' = team
    BY DEF Next, vars, MapBuffer, CheckEnvironment, Enter, LogEntry, LoadPtr, LoadIdx,
       Store, Fault, StoreIdx, CheckPrint, WritePrefix, WriteName, WriteNewline, Write
  <2> QED
    BY <1>1, <2>1 DEF Alone, RingInv
<1>2. CASE Alone
  <2>1. OutInv /\ OnItsWay /\ Ring(buf, NextIdx, Stored)
    BY <1>2 DEF FullInv, RingInv, OnItsWay
  <2>2. (Kept \/ Recorded) /\ OnItsWay'
    BY <1>2, <2>1, RingStep
  <2>3. NextIdx \in Slots /\ Stored \in Seq(Functions) /\ buf \in [Slots -> Functions \cup {Empty}]
    BY <2>1, RingTypes DEF OutInv
  <2>4. Ring(buf', NextIdx', Stored')
    BY <2>1, <2>2, <2>3, RingStore DEF Kept, Recorded
  <2>5. Ring(buf, NextIdx, Stored)'
    BY <2>4 DEF Ring, Slots, Behind
  <2> QED
    BY <2>2, <2>5 DEF RingInv, OnItsWay
<1> QED
  BY <1>1, <1>2

LEMMA FullInvariant == Spec => []FullInv
BY InitFullInv, NextFullInv, PTL DEF Spec

\* What a reader of the buffer sees is the last Size entries stored.
LEMMA ContentsAreStored == FullInv /\ Alone => Contents = Log!Window(Stored)
<1> SUFFICES ASSUME FullInv, Alone PROVE Contents = Log!Window(Stored)
  OBVIOUS
<1>1. NextIdx \in Slots /\ Stored \in Seq(Functions) /\ buf \in [Slots -> Functions \cup {Empty}]
  BY RingTypes DEF FullInv, OutInv
<1>2. Ring(buf, NextIdx, Stored)
  BY DEF FullInv, RingInv
<1> QED
  BY <1>1, <1>2, RingContents DEF Contents

\* With one thread, the buffer holds the last Size function entries, in order,
\* whenever the thread is outside the logger (lines 10-11 and 152).
THEOREM AloneAllLogged == Spec => []AloneEveryCallLogged
<1>1. FullInv => AloneEveryCallLogged
  <2> SUFFICES ASSUME FullInv, Alone, \A t \in Threads : pc[t] = "program"
               PROVE  Contents = Log!Window(Entered)
    BY DEF AloneEveryCallLogged, EveryCallLogged
  <2>1. Stored = Entered
    BY ThreadAssumption DEF Stored, Unstored
  <2> QED
    BY <2>1, ContentsAreStored
<1> QED
  BY <1>1, FullInvariant, PTL

\* With one thread the runtime implements the bounded log: each step leaves the
\* log as it is or records one entry at its end, however often the index wraps.
THEOREM ImplementsBoundedLog == Spec => IsBoundedLog
<1> DEFINE Mapped == IF Alone THEN Contents ELSE <<>>
<1>1. Init => Mapped = <<>>
  <2> SUFFICES ASSUME Init, Alone PROVE Contents = <<>>
    OBVIOUS
  <2>1. FullInv /\ Stored = <<>>
    <3>1. FullInv
      BY InitFullInv
    <3>2. Entered = <<>> /\ pc[Main] = "program"
      BY InitOutInv, ThreadAssumption DEF Init, OutInv, PhaseInv, Before
    <3> QED
      BY <3>1, <3>2 DEF Stored, Unstored
  <2>2. Log!Window(<<>>) = <<>>
    BY SizeAssumption DEF Log!Window
  <2> QED
    BY <2>1, <2>2, ContentsAreStored
<1>2. FullInv /\ FullInv' /\ [Next]_vars =>
        Mapped' = Mapped \/ \E f \in Functions : Mapped' = Log!Window(Append(Mapped, f))
  <2> SUFFICES ASSUME FullInv, FullInv', [Next]_vars
               PROVE  Mapped' = Mapped \/ \E f \in Functions : Mapped' = Log!Window(Append(Mapped, f))
    OBVIOUS
  <2>1. CASE ~Alone
    <3>1. team' = team
      BY DEF Next, vars, MapBuffer, CheckEnvironment, Enter, LogEntry, LoadPtr, LoadIdx,
         Store, Fault, StoreIdx, CheckPrint, WritePrefix, WriteName, WriteNewline, Write
    <3> QED
      BY <2>1, <3>1 DEF Alone
  <2>2. CASE Alone
    <3>1. (Kept \/ Recorded) /\ Alone'
      BY <2>2, RingStep DEF FullInv, RingInv, OnItsWay
    <3>2. Mapped = Log!Window(Stored) /\ Stored \in Seq(Functions)
      BY <2>2, ContentsAreStored, RingTypes DEF FullInv, OutInv
    <3>3. Mapped' = Log!Window(Stored')
      <4>1. (FullInv /\ Alone => Contents = Log!Window(Stored))'
        BY ContentsAreStored, PTL
      <4> QED
        BY <3>1, <4>1 DEF Log!Window
    <3>4. CASE Kept
      BY <3>2, <3>3, <3>4 DEF Kept
    <3>5. CASE Recorded
      BY <3>2, <3>3, <3>5, WindowAppend DEF Recorded
    <3> QED
      BY <3>1, <3>4, <3>5
  <2> QED
    BY <2>1, <2>2
<1>3. Init => Log!Init
  BY <1>1 DEF Log!Init
<1>4. FullInv /\ FullInv' /\ [Next]_vars => [Log!Next]_(Mapped)
  BY <1>2 DEF Log!Next, Log!Record
<1> QED
  BY <1>3, <1>4, FullInvariant, PTL DEF Spec, IsBoundedLog, Log!Spec
=============================================================================
