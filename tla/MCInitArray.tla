---------------------------- MODULE MCInitArray ----------------------------
(* Tables for InitArray: up to four constructors in any order, with or      *)
(* without function symbols, and frame_dummy where each run puts it.        *)
EXTENDS InitArray, FiniteSets

CONSTANTS
  MCFirst,   \* the positions frame_dummy may have
  MCSymbols  \* whether constructors have function symbols

MCFns == {"a", "b", "c", "d"}
MCEntry(f, s, b) == [fn |-> f, symbol |-> s, sized |-> s, below |-> b]
\* crtstuff's frame_dummy has a symbol of size 0.
MCFrameDummy == [fn |-> "frame_dummy", symbol |-> TRUE, sized |-> FALSE, below |-> TRUE]

MCOrders == {o \in UNION {[1..n -> MCFns] : n \in 0..4} :
               \A i, j \in DOMAIN o : o[i] = o[j] => i = j}
\* At most the last function of .text, here "d", has none after it.
MCConstructors == UNION {{[i \in DOMAIN o |-> MCEntry(o[i], s[i], o[i] # "d" \/ b)] :
                            s \in [DOMAIN o -> MCSymbols], b \in BOOLEAN} : o \in MCOrders}
MCArrays == UNION {{InsertAt(t, p, MCFrameDummy) : p \in MCFirst \cap 1..(Len(t) + 1)} :
                     t \in MCConstructors}
=============================================================================
