------------------------------ MODULE MCShapes ------------------------------
(***************************************************************************)
(* Small functions for RegAnalysis and Clobber: every sequence of up to    *)
(* MCLength instructions drawn from a set of shapes that covers each rule  *)
(* of the analysis, and some longer ones.  "a" is a register with          *)
(* sub-registers that calls and returns use (rax), "t" one that only       *)
(* returns use (r11), "f" is rflags.                                       *)
(***************************************************************************)
EXTENDS ControlFlow

CONSTANT MCLength

MCRegisters == {"a", "t", "f"}
MCWidths    == [r \in MCRegisters |-> IF r = "a" THEN {"64", "32", "16", "8l"} ELSE {"64"}]
MCRetUses   == {"a", "t"}
MCCallUses  == {"a"}

Plain(rd, wr) == [kind |-> "plain", target |-> Outside, reads |-> rd, writes |-> wr]
Transfers(k, rd, targets) ==
  {[kind |-> k, target |-> x, reads |-> rd, writes |-> {}] : x \in targets}
a(w) == <<"a", w>>
t == <<"t", "64">>
f == <<"f", "64">>

PlainShapes ==
  { Plain({}, {a("64")}), Plain({}, {a("32")}), Plain({}, {a("16")}),
    Plain({f}, {a("8l")}),          \* setc %al
    Plain({a("32")}, {f}),          \* test
    Plain({a("8l")}, {t}), Plain({t}, {t, f}) }
TransferShapes ==
  Transfers("jcc", {f}, 1..MCLength \cup {Outside})
  \cup Transfers("jmp", {}, 1..MCLength \cup {Outside, Indirect})
  \cup Transfers("call", {}, {Outside}) \cup Transfers("ret", {}, {Outside})

\* For questions about control flow alone, one plain instruction is enough.
MCControlFunctions == [1..MCLength -> {Plain({}, {})} \cup TransferShapes]

\* A few long functions, whose analysis needs one or two passes an instruction.
MCLong == [1..6 -> {Plain({}, {a("16")}), Plain({f}, {a("8l")})}
                   \cup Transfers("jcc", {f}, {1}) \cup Transfers("ret", {}, {Outside})]

MCFunctions == MCLong \cup UNION {[1..n -> PlainShapes \cup TransferShapes] : n \in 1..MCLength}
=============================================================================
