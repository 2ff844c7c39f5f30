------------------------------ MODULE Coverage ------------------------------
(***************************************************************************)
(* The coverage runtime inside an instrumented process: its constructor    *)
(* (instrument_coverage_runtime, lines 185-224) and the trampoline at the  *)
(* entry of each basic block (_get_trampoline, lines 91-112).              *)
(*                                                                         *)
(* The globals are shared by all threads; xorq and incb without a lock     *)
(* prefix read and write memory in two steps.                              *)
(***************************************************************************)
EXTENDS Words, Sequences, FiniteSets, Functions

CONSTANTS
  Threads,
  Id,        \* the identifier of each basic block, drawn at random (line 148)
  Counters,  \* 256: the values of a byte
  MaxBlocks  \* bound of the model: block entries in a behaviour

Blocks == DOMAIN Id

ASSUME ThreadsAssumption  == IsFiniteSet(Threads)
ASSUME CountersAssumption == Counters \in Nat \ {0}
ASSUME IdAssumption       == Id \in [Blocks -> Words]
ASSUME BoundAssumption    == MaxBlocks \in Nat

-----------------------------------------------------------------------------
VARIABLES
  team,      \* the threads this process has
  areaPtr,   \* __cov_area_ptr: "null", "mapped", or the "error" mmap returned
  prevLoc,   \* __cov_prev_loc
  area,      \* the bitmap
  pc, block, \* of each thread: where it is, and the block it entered last
  tmp,       \* the word a thread's xorq, movq or incb has read
  count,     \* the byte its incb has read
  entered,   \* block entries so far, at most MaxBlocks
  path,      \* history: each thread's blocks since the bitmap exists
  crashed    \* the process died of a fault

vars == <<team, areaPtr, prevLoc, area, pc, block, tmp, count, entered, path, crashed>>

Init == /\ team \in (SUBSET Threads) \ {{}}
        /\ areaPtr = "null" /\ prevLoc = {} /\ area = [w \in Words |-> 0]
        /\ pc = [t \in Threads |-> "block"] /\ block \in [Threads -> Blocks]
        /\ tmp = [t \in Threads |-> {}] /\ count = [t \in Threads |-> 0]
        /\ entered = 0 /\ path = [t \in Threads |-> <<>>] /\ crashed = FALSE

At(t, label)   == ~crashed /\ pc[t] = label
Goto(t, label) == pc' = [pc EXCEPT ![t] = label]

\* coverage.module_ctor maps the bitmap, before main() and after the program's
\* own constructors; it stores what mmap returns without looking at it.
MapBitmap ==
  /\ areaPtr = "null" /\ \A t \in Threads : pc[t] = "block"
  /\ areaPtr' \in {"mapped", "error"}
  /\ UNCHANGED <<team, prevLoc, area, pc, block, tmp, count, entered, path, crashed>>

EnterBlock(t, b) ==
  /\ At(t, "block") /\ entered < MaxBlocks
  /\ block' = [block EXCEPT ![t] = b]
  /\ entered' = entered + 1
  /\ Goto(t, "load_ptr")
  /\ UNCHANGED <<team, areaPtr, prevLoc, area, tmp, count, path, crashed>>

LoadPtr(t) ==
  /\ At(t, "load_ptr")
  /\ Goto(t, IF areaPtr = "null" THEN "block" ELSE "xor_read")
  /\ path' = IF areaPtr = "null" THEN path ELSE [path EXCEPT ![t] = Append(@, block[t])]
  /\ UNCHANGED <<team, areaPtr, prevLoc, area, block, tmp, count, entered, crashed>>

\* xorq $block_id, (%rcx)
XorRead(t) ==
  /\ At(t, "xor_read")
  /\ tmp' = [tmp EXCEPT ![t] = Xor(prevLoc, Id[block[t]])]
  /\ Goto(t, "xor_write")
  /\ UNCHANGED <<team, areaPtr, prevLoc, area, block, count, entered, path, crashed>>
XorWrite(t) ==
  /\ At(t, "xor_write")
  /\ prevLoc' = tmp[t]
  /\ Goto(t, "load")
  /\ UNCHANGED <<team, areaPtr, area, block, tmp, count, entered, path, crashed>>

\* movq (%rcx), %rcx
Load(t) ==
  /\ At(t, "load")
  /\ tmp' = [tmp EXCEPT ![t] = prevLoc]
  /\ Goto(t, "inc_read")
  /\ UNCHANGED <<team, areaPtr, prevLoc, area, block, count, entered, path, crashed>>

\* incb (%rax, %rcx)
IncRead(t) ==
  /\ At(t, "inc_read") /\ areaPtr = "mapped"
  /\ count' = [count EXCEPT ![t] = area[tmp[t]]]
  /\ Goto(t, "inc_write")
  /\ UNCHANGED <<team, areaPtr, prevLoc, area, block, tmp, entered, path, crashed>>
Fault(t) ==
  /\ At(t, "inc_read") /\ areaPtr = "error"
  /\ crashed' = TRUE
  /\ UNCHANGED <<team, areaPtr, prevLoc, area, pc, block, tmp, count, entered, path>>
\* Mutant: the block itself is counted as well.
IncWriteTwice(t) ==
  /\ At(t, "inc_write")
  /\ area' = [area EXCEPT ![tmp[t]] = (count[t] + 1) % Counters,
                          ![Id[block[t]]] = (@ + 1) % Counters]
  /\ Goto(t, "store")
  /\ UNCHANGED <<team, areaPtr, prevLoc, block, tmp, count, entered, path, crashed>>
IncWrite(t) ==
  /\ At(t, "inc_write")
  /\ area' = [area EXCEPT ![tmp[t]] = (count[t] + 1) % Counters]
  /\ Goto(t, "store")
  /\ UNCHANGED <<team, areaPtr, prevLoc, block, tmp, count, entered, path, crashed>>

\* Mutant: the identifier is stored without the shift.
StoreUnshifted(t) ==
  /\ At(t, "store")
  /\ prevLoc' = Id[block[t]]
  /\ Goto(t, "block")
  /\ UNCHANGED <<team, areaPtr, area, block, tmp, count, entered, path, crashed>>

\* movq $block_id_shifted, (%rcx)
Store(t) ==
  /\ At(t, "store")
  /\ prevLoc' = Shift(Id[block[t]])
  /\ Goto(t, "block")
  /\ UNCHANGED <<team, areaPtr, area, block, tmp, count, entered, path, crashed>>

Trampoline(t) == \/ LoadPtr(t) \/ XorRead(t) \/ XorWrite(t) \/ Load(t)
                 \/ IncRead(t) \/ Fault(t) \/ IncWrite(t) \/ Store(t)

Next == MapBitmap \/ \E t \in team : Trampoline(t) \/ \E b \in Blocks : EnterBlock(t, b)

Spec == Init /\ [][Next]_vars
-----------------------------------------------------------------------------
\* Where a thread can stand.
Labels == {"block", "load_ptr", "xor_read", "xor_write", "load", "inc_read", "inc_write", "store"}

\* Whatever the races on __cov_prev_loc make of it, the index of the counter a
\* thread increments is inside the bitmap (lines 101-104): no mask is needed.
IndexInBounds ==
  \A t \in Threads : pc[t] \in {"inc_read", "inc_write"} => tmp[t] \in Words

\* Races lose counts and never invent one: the counters never sum to more than
\* the block entries that found the bitmap.
NothingOvercounted ==
  SumFunction(area) <= SumFunction([t \in Threads |-> Len(path[t])])

(***************************************************************************)
(* With one thread the trampoline is the two assignments of EdgeProfile in *)
(* one step, taken when the counter is stored.  Until then the last block  *)
(* is what is in memory, with the identifier that xorq put there taken out *)
(* again; from then on it is what the thread is about to store.            *)
(***************************************************************************)
Hashed    == \E t \in team : pc[t] \in {"load", "inc_read", "inc_write"}
Counted   == \E t \in team : pc[t] = "store"
Current   == Id[block[CHOOSE t \in team : TRUE]]
LastBlock == IF Counted THEN Shift(Current)
             ELSE IF Hashed THEN Xor(prevLoc, Current)
             ELSE prevLoc

\* The promise is made to a process with one thread.
Alone   == \E m \in Threads : team = {m}
Profile == INSTANCE EdgeProfile WITH
             profile <- IF Alone THEN area ELSE [w \in Words |-> 0],
             last    <- IF Alone THEN LastBlock ELSE {}

\* With one thread the instrumented program implements the edge profile of the
\* docstring.
IsEdgeProfile == Profile!Spec
=============================================================================
