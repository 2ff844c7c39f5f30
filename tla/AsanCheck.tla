------------------------------ MODULE AsanCheck ------------------------------
(***************************************************************************)
(* What the inserted memory check decides (rwtools_x64/asan): the shadow   *)
(* test of snippets.py lines 33-49, as Instrument._access1, 2, 4 and 8     *)
(* adapt it to the access size, and the boundary checks that rep movs and  *)
(* rep stos get (instrument.py lines 298-357), in their byte forms and     *)
(* with the direction flag clear.                                          *)
(*                                                                         *)
(* Memory is cut into granules of eight bytes with one shadow byte each:   *)
(* 0 when all eight may be accessed, k in 1..7 when only the first k may,  *)
(* negative when none may.                                                 *)
(***************************************************************************)
EXTENDS Integers, Sequences

CONSTANTS
  Granules,   \* number of granules
  Operations, \* operations to check: "access", "rep movs", "rep stos"
  Sizes,      \* sizes of the accesses: 1, 2, 4, 8
  Counts      \* values of rcx before a string operation

ASSUME GranulesAssumption == Granules \in Nat \ {0}
ASSUME OperationsAssumption ==
  Operations \subseteq {"access", "rep movs", "rep stos"} /\ Sizes \subseteq {1, 2, 4, 8}
ASSUME CountsAssumption == Counts \subseteq Nat

Addresses   == 0..(8 * Granules - 1)
ShadowBytes == -1..7   \* every negative value acts like -1

-----------------------------------------------------------------------------
VARIABLES
  shadow,    \* shadow byte of each granule; outside the map it is 0
  op,        \* the operation about to run
  rdi, rsi,  \* its operand addresses; an access uses rdi
  size,      \* bytes of an access, or the count in rcx
  pending,   \* addresses still to check, in order
  verdict    \* "none", "report" or "ok"

checkVars == <<shadow, op, rdi, rsi, size, pending, verdict>>

ShadowAt(x) == IF x \div 8 \in 0..(Granules - 1) THEN shadow[x \div 8] ELSE 0

\* Mutants: the offset one past the last byte, and a comparison that lets the
\* first poisoned byte through.
ReportsOnePast(x, n) ==
  LET k == ShadowAt(x) IN k # 0 /\ (n # 8 => (x % 8) + n >= k)
ReportsOneLate(x, n) ==
  LET k == ShadowAt(x) IN k # 0 /\ (n # 8 => (x % 8) + (n - 1) > k)

\* testb / je, then andl $7, addl size-1, movsbl, cmpl / jl.  For eight bytes
\* cmpb $0 / je alone decides.
Reports(x, n) ==
  LET k == ShadowAt(x) IN
  /\ k # 0
  /\ n # 8 => (x % 8) + (n - 1) >= k

\* The operands the check code is emitted for.  A string operation is checked
\* as one-byte accesses at (%rdi) and (%rdi, %rcx), and for rep movs at (%rsi)
\* and (%rsi, %rcx).
Checked(o, d, s, n) ==
  CASE o = "access"   -> <<d>>
    [] o = "rep stos" -> <<d, d + n>>
    [] o = "rep movs" -> <<d, d + n, s, s + n>>

CheckInit ==
  /\ shadow \in [0..(Granules - 1) -> ShadowBytes]
  /\ op \in Operations
  /\ rdi \in Addresses
  /\ IF op = "rep movs" THEN rsi \in Addresses ELSE rsi = 0
  /\ IF op = "access" THEN size \in Sizes ELSE size \in Counts
  /\ rdi + size <= 8 * Granules /\ rsi + size <= 8 * Granules
  /\ pending = Checked(op, rdi, rsi, size) /\ verdict = "none"

\* One check; a report ends the process.
Check ==
  /\ verdict = "none" /\ pending # <<>>
  /\ verdict' = IF Reports(pending[1], IF op = "access" THEN size ELSE 1)
                THEN "report" ELSE IF Len(pending) = 1 THEN "ok" ELSE "none"
  /\ pending' = Tail(pending)
  /\ UNCHANGED <<shadow, op, rdi, rsi, size>>

CheckSpec == CheckInit /\ [][Check]_checkVars
-----------------------------------------------------------------------------
\* Reference: the bytes a program may access, and the ones the operation does.
Addressable(x) == LET k == ShadowAt(x) IN k = 0 \/ (k > 0 /\ x % 8 < k)
Touched == (rdi..(rdi + size - 1)) \cup
           (IF op = "rep movs" THEN rsi..(rsi + size - 1) ELSE {})
Bad == {x \in Touched : ~Addressable(x)}

\* A report means that the operation touches a byte it may not: no valid
\* program is stopped, whatever the size and alignment of the access.  The one
\* exception is a string operation up to the very end of a buffer, whose check
\* looks one byte past it (lines 299-301, 329-354); a count of zero is one too.
Behind == IF op = "access" THEN {}
          ELSE {rdi + size} \cup (IF op = "rep movs" THEN {rsi + size} ELSE {})
NoFalseAlarm ==
  verdict = "report" => Bad # {} \/ \E x \in Behind : ~Addressable(x)

\* An access that does not cross a granule and touches a byte it may not is
\* reported: the comparison of the last byte's offset with the shadow value
\* (lines 43-47) is neither off by one nor unsigned.
WithinGranule == (rdi % 8) + size <= 8
NothingMissed ==
  verdict = "ok" /\ op = "access" /\ WithinGranule => Bad = {}
=============================================================================
