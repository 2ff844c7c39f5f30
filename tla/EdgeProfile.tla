----------------------------- MODULE EdgeProfile -----------------------------
(***************************************************************************)
(* What the coverage pass promises, in its own words                       *)
(* (rwtools_x64/coverage/instrument.py, lines 15-20):                      *)
(*     bitmap[cur_block_id XOR prev_block_id] += 1                         *)
(*     prev_block_id = cur_block_id >> 1                                   *)
(* at each entry of a basic block, as one step.                            *)
(***************************************************************************)
EXTENDS Words

CONSTANTS Id, Counters

VARIABLES
  profile,  \* the bitmap
  last      \* prev_block_id, shifted

Init     == profile = [w \in Words |-> 0] /\ last = {}
Enter(b) == /\ profile' = [profile EXCEPT ![Xor(last, Id[b])] = (@ + 1) % Counters]
            /\ last' = Shift(Id[b])
Next     == \E b \in DOMAIN Id : Enter(b)
Spec     == Init /\ [][Next]_<<profile, last>>
=============================================================================
