-------------------------------- MODULE Words --------------------------------
(***************************************************************************)
(* Machine words of Width bits as sets of one bits, for the edge hash of   *)
(* the coverage pass (rwtools_x64/coverage/instrument.py, lines 101-106).  *)
(***************************************************************************)
EXTENDS Naturals

CONSTANT Width     \* 16: MAP_SIZE is 1 << 16

ASSUME WidthAssumption == Width \in Nat \ {0}

Bits  == 0..(Width - 1)
Words == SUBSET Bits    \* 0..MAP_SIZE-1

\* Mutant: shifted the other way.
ShiftLeft(a) == {b + 1 : b \in a}

Xor(a, b) == (a \ b) \cup (b \ a)
Shift(a)  == {b \in Bits : b + 1 \in a}    \* block_id >> 1
=============================================================================
