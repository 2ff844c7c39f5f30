----------------------------- MODULE TraceBuffer -----------------------------
(***************************************************************************)
(* The trace runtime inside an instrumented process: its constructor       *)
(* (instrument_trace_runtime, lines 202-241) and __trace_log_entry (lines  *)
(* 255-312), which every instrumented function entry calls.                *)
(*                                                                         *)
(* The runtime's globals are plain memory without locks or atomics, shared *)
(* by all threads, so each access of one is a step of its own.  Registers  *)
(* of a thread are rdi (the function), rdx (the index) and pc.             *)
(***************************************************************************)
EXTENDS Integers, Subsequences, SequencesExt

CONSTANTS
  Threads, Main,  \* Main runs the constructors before main()
  Functions,      \* instrumented functions
  Size,           \* TRACE_BUFFER_SIZE: 65536
  MaxCalls,       \* bound of the model: function entries in a behaviour
  Empty           \* content of a slot never written

ASSUME ThreadAssumption == Main \in Threads
ASSUME SizeAssumption   == Size \in Nat \ {0}    \* a power of two: & (Size - 1) is % Size
ASSUME EmptyAssumption  == Empty \notin Functions
ASSUME BoundAssumption  == MaxCalls \in Nat

VARIABLES
  team,     \* the threads this process has
  ptr,      \* __trace_buffer_ptr: "null", "mapped", or the "error" mmap returned
  idx,      \* __trace_buffer_idx
  printOn,  \* __trace_print_enabled
  buf,      \* the mapped memory
  stderr,   \* what reached file descriptor 2: <<thread, text>>
  pc, rdi, rdx,
  phase,    \* of Main: "ctors", "getenv", "main"
  crashed,  \* the process died of a fault
  calls     \* history: every function entry so far, <<thread, function, ready>>
            \* where ready says that the constructor had run

runtime == <<ptr, idx, printOn, buf, stderr>>
vars    == <<team, ptr, idx, printOn, buf, stderr, pc, rdi, rdx, phase, crashed, calls>>

Slots == 0..(Size - 1)
Init == /\ team \in {T \in SUBSET Threads : Main \in T}
        /\ ptr = "null" /\ idx = 0 /\ printOn = FALSE
        /\ buf = [k \in Slots |-> Empty] /\ stderr = <<>>
        /\ pc = [t \in Threads |-> "program"]
        /\ rdi \in [Threads -> Functions] /\ rdx = [t \in Threads |-> 0]
        /\ phase = "ctors" /\ crashed = FALSE /\ calls = <<>>

Goto(t, label) == pc' = [pc EXCEPT ![t] = label]
At(t, label)   == ~crashed /\ pc[t] = label

(***************************************************************************)
(* The constructor.  .quad trace.module_ctor is appended to .init_array    *)
(* (lines 196-200), so the program's own constructors have run before it.  *)
(***************************************************************************)
MapBuffer ==
  /\ At(Main, "program") /\ phase = "ctors"
  /\ ptr' \in {"mapped", "error"}
  /\ phase' = "getenv"
  /\ UNCHANGED <<team, idx, printOn, buf, stderr, pc, rdi, rdx, crashed, calls>>

\* getenv is outside: the environment is either way.
CheckEnvironment ==
  /\ At(Main, "program") /\ phase = "getenv"
  /\ printOn' \in BOOLEAN
  /\ phase' = "main"
  /\ UNCHANGED <<team, ptr, idx, buf, stderr, pc, rdi, rdx, crashed, calls>>

\* Mutant: the logger is called before its argument is loaded.
EnterStale(t, f) ==
  /\ At(t, "program") /\ Len(calls) < MaxCalls
  /\ phase = "main" \/ (phase = "ctors" /\ t = Main)
  /\ calls' = Append(calls, <<t, f, phase = "main">>)
  /\ Goto(t, "load_ptr")
  /\ UNCHANGED <<team, runtime, rdi, rdx, phase, crashed>>

\* Entry of function f in thread t: the trampoline loads the name into rdi and
\* calls __trace_log_entry.  While the runtime's own constructor runs, Main
\* enters no function of the program.
Enter(t, f) ==
  /\ At(t, "program") /\ Len(calls) < MaxCalls
  /\ phase = "main" \/ (phase = "ctors" /\ t = Main)
  /\ rdi' = [rdi EXCEPT ![t] = f]
  /\ calls' = Append(calls, <<t, f, phase = "main">>)
  /\ Goto(t, "load_ptr")
  /\ UNCHANGED <<team, runtime, rdx, phase, crashed>>

(***************************************************************************)
(* __trace_log_entry.                                                      *)
(***************************************************************************)
\* Mutant: no null test.
LoadPtrUntested(t) ==
  /\ At(t, "load_ptr")
  /\ Goto(t, "load_idx")
  /\ UNCHANGED <<team, runtime, rdi, rdx, phase, crashed, calls>>
LoadPtr(t) ==
  /\ At(t, "load_ptr")
  /\ Goto(t, IF ptr = "null" THEN "program" ELSE "load_idx")
  /\ UNCHANGED <<team, runtime, rdi, rdx, phase, crashed, calls>>
LoadIdx(t) ==
  /\ At(t, "load_idx")
  /\ rdx' = [rdx EXCEPT ![t] = idx]
  /\ Goto(t, "store")
  /\ UNCHANGED <<team, runtime, rdi, phase, crashed, calls>>
\* Mutant: the index is incremented before it is used.
StorePreIncremented(t) ==
  /\ At(t, "store") /\ ptr = "mapped"
  /\ buf' = [buf EXCEPT ![(rdx[t] + 1) % Size] = rdi[t]]
  /\ Goto(t, "store_idx")
  /\ UNCHANGED <<team, ptr, idx, printOn, stderr, rdi, rdx, phase, crashed, calls>>
\* movq %rdi, (%rax, %rdx, 8): a fault when mmap had failed.
Store(t) ==
  /\ At(t, "store") /\ ptr = "mapped"
  /\ buf' = [buf EXCEPT ![rdx[t]] = rdi[t]]
  /\ Goto(t, "store_idx")
  /\ UNCHANGED <<team, ptr, idx, printOn, stderr, rdi, rdx, phase, crashed, calls>>
Fault(t) ==
  /\ At(t, "store") /\ ptr = "error"
  /\ crashed' = TRUE
  /\ UNCHANGED <<team, runtime, pc, rdi, rdx, phase, calls>>
\* Mutant: the index is not incremented.
StoreIdxSame(t) ==
  /\ At(t, "store_idx")
  /\ idx' = rdx[t]
  /\ Goto(t, "check_print")
  /\ UNCHANGED <<team, ptr, printOn, buf, stderr, rdi, rdx, phase, crashed, calls>>
StoreIdx(t) ==
  /\ At(t, "store_idx")
  /\ idx' = (rdx[t] + 1) % Size
  /\ Goto(t, "check_print")
  /\ UNCHANGED <<team, ptr, printOn, buf, stderr, rdi, rdx, phase, crashed, calls>>
CheckPrint(t) ==
  /\ At(t, "check_print")
  /\ Goto(t, IF printOn THEN "write_prefix" ELSE "program")
  /\ UNCHANGED <<team, runtime, rdi, rdx, phase, crashed, calls>>
\* The three write system calls of a line.
Write(t, from, text, to) ==
  /\ At(t, from)
  /\ stderr' = Append(stderr, <<t, text>>)
  /\ Goto(t, to)
  /\ UNCHANGED <<team, ptr, idx, printOn, buf, rdi, rdx, phase, crashed, calls>>
WritePrefix(t)  == Write(t, "write_prefix", "[TRACE] ", "write_name")
\* Mutant: the name is read back from a global that all threads share.
WriteSharedName(t) ==
  Write(t, "write_name", calls[Len(calls)][2], "write_newline")
WriteName(t)    == Write(t, "write_name", rdi[t], "write_newline")
WriteNewline(t) == Write(t, "write_newline", "\n", "program")

LogEntry(t) == \/ LoadPtr(t) \/ LoadIdx(t) \/ Store(t) \/ Fault(t) \/ StoreIdx(t)
               \/ CheckPrint(t) \/ WritePrefix(t) \/ WriteName(t) \/ WriteNewline(t)

Next == \/ MapBuffer \/ CheckEnvironment
        \/ \E t \in team : LogEntry(t) \/ \E f \in Functions : Enter(t, f)

Spec == Init /\ [][Next]_vars
-----------------------------------------------------------------------------
\* Where a thread can stand.
Labels == {"program", "load_ptr", "load_idx", "store", "store_idx", "check_print",
           "write_prefix", "write_name", "write_newline"}

\* However threads interleave their loads and stores of the index, a store goes
\* into the buffer (lines 266-272), and never before the buffer is there.
StoresInBounds ==
  \A t \in Threads : pc[t] \in {"store", "store_idx"} =>
    /\ rdx[t] \in Slots
    /\ ptr # "null"

\* Whatever the races do to the index, each entry of the buffer is a function
\* that some thread entered: lost entries, never invented ones.
EntriesAreCalls ==
  \A k \in Slots : buf[k] # Empty => \E i \in 1..Len(calls) : calls[i][2] = buf[k]

(***************************************************************************)
(* The log as a reader of the buffer sees it: from the slot the index      *)
(* points at, which holds the oldest entry once the buffer is full, all    *)
(* the way round.  Between storing an entry and storing the index, the     *)
(* index a single thread is about to store is the one that counts.         *)
(***************************************************************************)
NextIdx  == IF pc[Main] = "store_idx" THEN (rdx[Main] + 1) % Size ELSE idx
Contents == Only([k \in 1..Size |-> buf[(NextIdx + k - 1) % Size]], Functions)

\* The promise is made to a process with one thread.
Alone == team = {Main}
Log   == INSTANCE BoundedLog WITH log <- IF Alone THEN Contents ELSE <<>>

\* With one thread the runtime is a bounded log: every step keeps the log or
\* records one function entry at its end, however often the index wraps.
IsBoundedLog == Log!Spec

\* What was entered since the constructor ran, in order.
Ready(T) == T \X Functions \X {TRUE}
Entered  == LET seen == Only(calls, Ready(Threads)) IN [i \in 1..Len(seen) |-> seen[i][2]]

\* Whenever no thread is inside the logger, the buffer holds the last Size
\* function entries, in order ("exactly which functions were called and in what
\* order", lines 10-11; "Always: stores the function name pointer", line 152).
EveryCallLogged ==
  (phase = "main" /\ ~crashed /\ ptr = "mapped" /\ \A t \in Threads : pc[t] = "program")
    => Contents = Log!Window(Entered)

\* With one thread that is what happens.
AloneEveryCallLogged == Alone => EveryCallLogged

\* Each thread's part of the output is its calls, in order, each as prefix,
\* name and newline: what another thread does never changes, drops or repeats
\* a part of it (the name is read back from the stack, line 288).
Texts       == Functions \cup {"[TRACE] ", "\n"}
OutputOf(t) == Only(stderr, {t} \X Texts)
CallsOf(t)  == Only(calls, Ready({t}))
Piece(n, f) == IF n = 1 THEN "[TRACE] " ELSE IF n = 2 THEN f ELSE "\n"
LinesOf(t)  == [n \in 1..(3 * Len(CallsOf(t))) |->
                  <<t, Piece(n % 3, CallsOf(t)[(n + 2) \div 3][2])>>]
OutputInOrder == \A t \in Threads :
  IF printOn THEN IsPrefix(OutputOf(t), LinesOf(t)) ELSE OutputOf(t) = <<>>
=============================================================================
