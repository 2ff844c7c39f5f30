----------------------------- MODULE BoundedLog -----------------------------
(***************************************************************************)
(* What the trace runtime promises (rwtools_x64/trace/instrument.py, lines *)
(* 9-20): a log of the most recent Size function entries, in the order     *)
(* they happened.                                                          *)
(***************************************************************************)
EXTENDS Naturals, Sequences

CONSTANTS Functions, Size

VARIABLE log

\* The last Size elements of a sequence.
Window(s) == IF Len(s) <= Size THEN s ELSE SubSeq(s, Len(s) - Size + 1, Len(s))

Init      == log = <<>>
Record(f) == log' = Window(Append(log, f))
Next      == \E f \in Functions : Record(f)
Spec      == Init /\ [][Next]_log
=============================================================================
