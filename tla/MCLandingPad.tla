---------------------------- MODULE MCLandingPad ----------------------------
(* A program of three functions for LandingPad, with every kind of           *)
(* instruction, direct and indirect calls, a jump table, a function pointer  *)
(* in a data section and an exception that is caught two frames up or not.   *)
EXTENDS LandingPad

MCI(op, reg, to) == [op |-> op, reg |-> reg, to |-> to]
MCProgram == <<
  \* main, at 0
  MCI("push", "lr", 0), MCI("adrp", "x", 8), MCI("add", "x", 2),
  MCI("call_register", "x", 0), MCI("branch", "x", 1), MCI("jump", "x", 8),
  \* its handler, at 6
  MCI("load", "x", 18), MCI("call_register", "x", 0), MCI("pop", "lr", 0),
  MCI("return", "lr", 0),
  \* f, at 10
  MCI("push", "lr", 0), MCI("adr", "x", 13), MCI("jump_register", "x", 0),
  MCI("branch", "x", 16), MCI("plain", "x", 0), MCI("call", "x", 18), MCI("pop", "lr", 0),
  MCI("return", "lr", 0),
  \* g, at 18
  MCI("push", "lr", 0), MCI("branch", "x", 21), MCI("call", "x", -2), MCI("pop", "lr", 0),
  MCI("return", "lr", 0)>>
MCCode    == [a \in 0..(Len(MCProgram) - 1) |-> MCProgram[a + 1]]
MCHandler == [a \in {3} |-> 6]
MCExit    == -1
MCRaise   == -2
MCAbort   == -3
\* A pass inserts little or much before some addresses, and one instruction after
\* others: at calls, at branches, between a branch and its target.
MCBefore  == {[a \in DOMAIN MCCode |-> CASE a = 3 -> m [] a = 14 -> n [] a = 20 -> k [] OTHER -> 0] :
                m \in 0..2, n \in {0, 1, 12}, k \in 0..2}
MCAfter   == {[a \in DOMAIN MCCode |-> IF a \in s THEN 1 ELSE 0] :
                s \in SUBSET {4, 19}}
MCOptions == [emulate : BOOLEAN, dataText : BOOLEAN, optimize : BOOLEAN,
              before : MCBefore, after : MCAfter]

\* On the way of the branches of the run few instructions are expanded.
ASSUME FewAssumption == FewExpanded
=============================================================================
