--------------------------- MODULE Rewriter_proofs ---------------------------
(***************************************************************************)
(* What the x86-64 rewriter and its command line get right.  The           *)
(* constructors in a rewritten .init_array and the tables of distances     *)
(* behind the switches, for every size of them; and, for any binaries, any *)
(* series of commands and any interruptions, the registers a function is   *)
(* instrumented with.                                                      *)
(***************************************************************************)
EXTENDS InitArray, SwitchTables, AnalysisStage, DataLemmas, FiniteSetTheorems, TLAPS

(* .init_array *)

FnAt(i) == array[i].fn

\* frame_dummy goes by its name and holds no code; any other known function has
\* another name and holds code.
KnownOK ==
  /\ <<"frame_dummy", "frame_dummy", FALSE>> \in known
  /\ \A k \in known : IF k[1] = "frame_dummy" THEN k[2] = "frame_dummy" /\ k[3] = FALSE
                      ELSE k[2] # "frame_dummy" /\ k[3] = TRUE
  /\ \A i \in 1..Len(array) : array[i].symbol => Knows(FnAt(i))
KnownTo(m) == \A i \in 1..m : Knows(FnAt(i))

\* The section after each step of each loop.
Copied     == [i \in 1..(IF next = 1 THEN 0 ELSE next - 2) |-> Raw(FnAt(i + 1))]
Relocated  == [i \in 1..(Len(array) - 1) |-> IF i + 1 < next THEN Label(FnAt(i + 1))
                                             ELSE Raw(FnAt(i + 1))]
AllLabels  == [i \in 1..(Len(array) - 1) |-> Label(FnAt(i + 1))]
WithRuntime == [i \in 1..Len(array) |-> Label(IF i < Len(array) THEN FnAt(i + 1) ELSE Runtime)]

SectionOK ==
  /\ step \in {"functions", "data", "relocations", "instrument", "done"}
  /\ next \in 1..Len(array)
  /\ IF step = "functions" THEN entries = <<>> /\ KnownTo(next - 1) ELSE KnownTo(Len(array))
  /\ step = "data"        => entries = Copied
  /\ step = "relocations" => entries = Relocated
  /\ step = "instrument"  => entries = AllLabels
  /\ step = "done"        => entries = WithRuntime

ArrayInv == /\ array \in Arrays
            /\ Recoverable => KnownOK /\ stubs = {} /\ SectionOK

\* What the assumption on the tables says of one.
LEMMA ArrayFacts ==
  ASSUME array \in Arrays
  PROVE  /\ array \in Seq(Entries) /\ Len(array) \in Nat /\ DOMAIN array = 1..Len(array)
         /\ \A i \in 1..Len(array) : /\ FnAt(i) \in Names
                                     /\ array[i].symbol \in BOOLEAN /\ array[i].sized \in BOOLEAN
                                     /\ array[i].below \in BOOLEAN
<1>1. array \in Seq(Entries)
  BY ArraysAssumption
<1>2. \A i \in 1..Len(array) : array[i] \in Entries
  BY <1>1
<1> QED
  BY <1>1, <1>2 DEF Entries, FnAt

\* frame_dummy stands first, and nowhere else.
LEMMA RecoverableFacts ==
  ASSUME array \in Arrays, Recoverable
  PROVE  /\ FnAt(1) = "frame_dummy" /\ array[1].symbol /\ array[1].sized = FALSE /\ 1 \in 1..Len(array)
         /\ \A i \in 1..Len(array) : i # 1 =>
              /\ FnAt(i) # "frame_dummy"
              /\ IF array[i].symbol THEN array[i].sized = TRUE ELSE array[i].below
<1>1. 1 \in 1..Len(array)
  BY ArrayFacts DEF Recoverable
<1>2. array[1].sized \in BOOLEAN /\ \A i \in 1..Len(array) : array[i].sized \in BOOLEAN
  BY <1>1, ArrayFacts
<1> QED
  BY <1>1, <1>2 DEF Recoverable, FnAt

\* What the tests of the loops find out.
LEMMA KnownTests ==
  ASSUME KnownOK, NEW f
  PROVE  /\ Named(f, "frame_dummy") <=> f = "frame_dummy"
         /\ HasCode(f) <=> Knows(f) /\ f # "frame_dummy"
         /\ Knows("frame_dummy")
BY DEF KnownOK, Named, HasCode, Knows

\* Whatever has a sized symbol is known when the loader begins.
LEMMA InitArrayInv == ArrayInit => ArrayInv
<1> SUFFICES ASSUME ArrayInit, Recoverable PROVE KnownOK /\ SectionOK
  BY DEF ArrayInit, ArrayInv
<1>1. array \in Arrays /\ known = {<<e.fn, e.fn, e.sized>> : e \in {x \in ToSet(array) : x.symbol}}
  BY DEF ArrayInit
<1>2. DOMAIN array = 1..Len(array) /\ Len(array) \in Nat /\ 1 \in 1..Len(array)
  BY <1>1, ArrayFacts, RecoverableFacts
<1>3. <<"frame_dummy", "frame_dummy", FALSE>> \in known
  <2>1. array[1] \in ToSet(array)
    BY <1>2 DEF ToSet
  <2> QED
    BY <1>1, <2>1, RecoverableFacts DEF FnAt
<1>4. ASSUME NEW k \in known
      PROVE  IF k[1] = "frame_dummy" THEN k[2] = "frame_dummy" /\ k[3] = FALSE
             ELSE k[2] # "frame_dummy" /\ k[3] = TRUE
  <2>1. PICK i \in 1..Len(array) : array[i].symbol /\ k = <<FnAt(i), FnAt(i), array[i].sized>>
    BY <1>1, <1>2 DEF ToSet, FnAt
  <2> QED
    BY <1>1, <2>1, RecoverableFacts
<1>5. KnownOK
  <2>1. ASSUME NEW i \in 1..Len(array), array[i].symbol PROVE Knows(FnAt(i))
    <3>1. array[i] \in ToSet(array)
      BY <1>2 DEF ToSet
    <3>2. <<FnAt(i), FnAt(i), array[i].sized>> \in known
      BY <1>1, <2>1, <3>1 DEF FnAt
    <3> QED
      BY <3>2 DEF Knows
  <2> QED
    BY <1>3, <1>4, <2>1 DEF KnownOK
<1>6. SectionOK
  BY <1>2, 1 - 1 = 0 DEF ArrayInit, SectionOK, KnownTo
<1> QED
  BY <1>5, <1>6


\* Advancing goes to the next entry, or to the next step.
LEMMA AdvanceFacts ==
  ASSUME NEW s, Advance(s), next \in 1..Len(array), Len(array) \in Nat
  PROVE  \/ next < Len(array) /\ next' = next + 1 /\ step' = step
         \/ next = Len(array) /\ next' = 1 /\ step' = s
BY DEF Advance

\* A function is added, or was there.
LEMMA AddMissingKeeps == ASSUME ArrayInv, AddMissing PROVE ArrayInv'
<1>1. array' = array /\ array \in Arrays /\ Recoverable' = Recoverable
  BY DEF ArrayInv, AddMissing, Recoverable
<1> SUFFICES ASSUME Recoverable PROVE KnownOK' /\ stubs' = {} /\ SectionOK'
  BY <1>1 DEF ArrayInv
<1> DEFINE f == array[next].fn
<1>2. /\ KnownOK /\ stubs = {} /\ step = "functions" /\ next \in 1..Len(array) /\ Len(array) \in Nat
      /\ entries = <<>> /\ KnownTo(next - 1) /\ entries' = entries
  BY <1>1, ArrayFacts DEF ArrayInv, SectionOK, AddMissing
<1>3. /\ stubs' = {} /\ known \subseteq known' /\ \E k \in known' : k[1] = f
      /\ \A k \in known' : k \in known
           \/ (k[1] # "frame_dummy" /\ k[2] # "frame_dummy" /\ k[3] = TRUE)
  <2>1. CASE Knows(f)
    <3>1. known' = known /\ stubs' = stubs
      BY <2>1 DEF AddMissing
    <3>2. \E k \in known : k[1] = f
      BY <2>1 DEF Knows
    <3> HIDE DEF f
    <3> QED
      BY <1>2, <3>1, <3>2
  <2>2. CASE ~Knows(f)
    <3>1. next # 1 /\ f # "frame_dummy"
      BY <1>1, <1>2, <2>2, KnownTests, RecoverableFacts DEF FnAt
    <3>2. array[next].below
      <4>1. ~array[next].symbol
        BY <1>2, <2>2 DEF KnownOK, FnAt
      <4> QED
        BY <1>1, <1>2, <3>1, <4>1, RecoverableFacts
    <3>3. known' = known \cup {<<f, "entry", TRUE>>} /\ stubs' = stubs
      BY <2>2, <3>1, <3>2 DEF AddMissing
    <3> HIDE DEF f
    <3>4. <<f, "entry", TRUE>> \in known' /\ <<f, "entry", TRUE>>[1] = f
      BY <3>3
    <3> DEFINE new == <<f, "entry", TRUE>>
    <3>5. new[1] # "frame_dummy" /\ new[2] # "frame_dummy" /\ new[3] = TRUE
      BY <3>1
    <3>6. known' = known \cup {new}
      BY <3>3
    <3> HIDE DEF new
    <3>7. \A k \in known' : k \in known
           \/ (k[1] # "frame_dummy" /\ k[2] # "frame_dummy" /\ k[3] = TRUE)
      BY <3>5, <3>6
    <3> QED
      BY <1>2, <3>3, <3>4, <3>7
  <2> QED
    BY <2>1, <2>2
<1>4. KnownOK'
  BY <1>1, <1>2, <1>3 DEF KnownOK, Knows, FnAt
<1>5. \A i \in 1..next : \E k \in known' : k[1] = FnAt(i)
  <2>1. \A i \in 1..next : i \in 1..(next - 1) \/ i = next
    BY <1>2
  <2> QED
    BY <1>2, <1>3, <2>1 DEF KnownTo, Knows, FnAt
<1>6. SectionOK'
  <2>1. \/ next < Len(array) /\ next' = next + 1 /\ step' = step
        \/ next = Len(array) /\ next' = 1 /\ step' = "data"
    BY <1>2, AdvanceFacts DEF AddMissing
  <2>2. CASE next < Len(array) /\ next' = next + 1 /\ step' = step
    <3>1. next' - 1 = next /\ next' \in 1..Len(array)
      BY <1>2, <2>2
    <3> QED
      BY <1>1, <1>2, <1>5, <2>2, <3>1 DEF SectionOK, KnownTo, Knows, FnAt
  <2>3. CASE next = Len(array) /\ next' = 1 /\ step' = "data"
    <3>1. Copied' = <<>>
      BY <2>3 DEF Copied
    <3> QED
      BY <1>1, <1>2, <1>5, <2>3, <3>1 DEF SectionOK, KnownTo, Knows, FnAt
  <2> QED
    BY <2>1, <2>2, <2>3
<1> QED
  BY <1>2, <1>3, <1>4, <1>6

\* What the last three actions leave alone.
LEMMA SameTable ==
  ASSUME ArrayInv, UNCHANGED <<array, known, stubs>>,
         Recoverable => /\ step' \in {"data", "relocations", "instrument", "done"}
                        /\ step # "functions" /\ next' \in 1..Len(array)
                        /\ step' = "data"        => entries' = Copied'
                        /\ step' = "relocations" => entries' = Relocated'
                        /\ step' = "instrument"  => entries' = AllLabels
                        /\ step' = "done"        => entries' = WithRuntime
  PROVE  ArrayInv'
<1>1. Recoverable' = Recoverable
  BY DEF Recoverable
<1> SUFFICES ASSUME Recoverable PROVE KnownOK' /\ stubs' = {} /\ SectionOK'
  BY <1>1 DEF ArrayInv
<1>2. KnownOK' /\ stubs' = {}
  BY DEF ArrayInv, KnownOK, Knows, FnAt
<1>3. KnownTo(Len(array))'
  BY DEF ArrayInv, SectionOK, KnownTo, Knows, FnAt
<1>4. AllLabels' = AllLabels /\ WithRuntime' = WithRuntime
  BY DEF AllLabels, WithRuntime, FnAt
<1> QED
  BY <1>2, <1>3, <1>4 DEF SectionOK

\* What the invariant says of a table that is being rewritten.
LEMMA InvFacts ==
  ASSUME ArrayInv, Recoverable, step # "functions"
  PROVE  /\ array \in Arrays /\ Len(array) \in Nat /\ next \in 1..Len(array)
         /\ (step = "data"        => entries = Copied)
         /\ (step = "relocations" => entries = Relocated)
         /\ (step = "instrument"  => entries = AllLabels)
         /\ (Named(FnAt(next), "frame_dummy") <=> next = 1)
         /\ (HasCode(FnAt(next)) <=> next # 1)
<1>1. array \in Arrays /\ Len(array) \in Nat /\ next \in 1..Len(array) /\ KnownOK /\ KnownTo(Len(array))
  BY ArrayFacts DEF ArrayInv, SectionOK
<1>2. FnAt(next) = "frame_dummy" <=> next = 1
  BY <1>1, RecoverableFacts
<1>3. Knows(FnAt(next))
  BY <1>1 DEF KnownTo
<1>4. /\ (step = "data"        => entries = Copied)
      /\ (step = "relocations" => entries = Relocated)
      /\ (step = "instrument"  => entries = AllLabels)
  BY DEF ArrayInv, SectionOK
<1> QED
  BY <1>1, <1>2, <1>3, <1>4, KnownTests

\* The first entry is left out, any other is copied behind the earlier ones.
LEMMA CopyEntryKeeps == ASSUME ArrayInv, CopyEntry PROVE ArrayInv'
<1> SUFFICES ASSUME Recoverable
             PROVE  /\ step' \in {"data", "relocations"} /\ next' \in 1..Len(array)
                    /\ step' = "data"        => entries' = Copied'
                    /\ step' = "relocations" => entries' = Relocated'
  BY SameTable DEF CopyEntry
<1>1. /\ step = "data" /\ array' = array /\ Len(array) \in Nat /\ next \in 1..Len(array)
      /\ entries = Copied
      /\ entries' = IF next = 1 THEN entries ELSE Append(entries, Raw(FnAt(next)))
  BY InvFacts DEF CopyEntry, FnAt
<1>2. \/ next < Len(array) /\ next' = next + 1 /\ step' = "data"
      \/ next = Len(array) /\ next' = 1 /\ step' = "relocations"
  BY <1>1, AdvanceFacts DEF CopyEntry
<1>3. entries' = [i \in 1..(next - 1) |-> Raw(FnAt(i + 1))]
  <2>1. CASE next = 1
    BY <1>1, <2>1 DEF Copied
  <2>2. CASE next # 1
    <3> DEFINE R == {Raw(FnAt(i + 1)) : i \in 1..(next - 1)}
               c == [i \in 1..(next - 2) |-> Raw(FnAt(i + 1))]
               d == [i \in 1..(next - 1) |-> Raw(FnAt(i + 1))]
    <3>1. entries' = Append(c, Raw(FnAt(next)))
      BY <1>1, <2>2 DEF Copied
    <3>2. next - 1 \in Nat /\ next - 2 \in Nat
      BY <1>1, <2>2
    <3>3. c \in Seq(R) /\ Len(c) = next - 2 /\ d \in Seq(R) /\ Len(d) = next - 1
          /\ Raw(FnAt(next)) \in R
      <4> HIDE DEF Raw, FnAt
      <4>1. \A i \in 1..(next - 2) : i \in 1..(next - 1)
        BY <1>1
      <4>2. next - 1 \in 1..(next - 1) /\ (next - 1) + 1 = next
        BY <1>1, <2>2
      <4> QED
        BY <3>2, <4>1, <4>2
    <3>4. \A i \in 1..(next - 1) : Append(c, Raw(FnAt(next)))[i] = d[i]
      <4> SUFFICES ASSUME NEW i \in 1..(next - 1) PROVE Append(c, Raw(FnAt(next)))[i] = d[i]
        OBVIOUS
      <4>1. CASE i = next - 1
        <5>1. i = Len(c) + 1 /\ i + 1 = next
          BY <1>1, <3>3, <4>1
        <5>2. d[i] = Raw(FnAt(i + 1))
          OBVIOUS
        <5> HIDE DEF c, d, R, Raw, FnAt
        <5> QED
          BY <3>3, <5>1, <5>2
      <4>2. CASE i # next - 1
        <5>1. i \in 1..(next - 2)
          BY <1>1, <4>2
        <5>2. c[i] = d[i]
          BY <5>1
        <5> HIDE DEF c, d, R, Raw, FnAt
        <5> QED
          BY <3>3, <5>1, <5>2
      <4> QED
        BY <4>1, <4>2
    <3>5. Append(c, Raw(FnAt(next))) \in Seq(R) /\ Len(Append(c, Raw(FnAt(next)))) = next - 1
      BY <1>1, <3>2, <3>3
    <3> HIDE DEF c, d, R
    <3>6. Append(c, Raw(FnAt(next))) = d
      BY <3>3, <3>4, <3>5, SeqEqual
    <3> QED
      BY <3>1, <3>6 DEF d
  <2> QED
    BY <2>1, <2>2
<1>4. CASE next < Len(array) /\ next' = next + 1 /\ step' = "data"
  <2>1. next' # 1 /\ next' - 2 = next - 1 /\ next' \in 1..Len(array)
    BY <1>1, <1>4
  <2>2. Copied' = [i \in 1..(next - 1) |-> Raw(FnAt(i + 1))]
    BY <1>1, <2>1 DEF Copied, FnAt
  <2> QED
    BY <1>3, <1>4, <2>1, <2>2
<1>5. CASE next = Len(array) /\ next' = 1 /\ step' = "relocations"
  <2>1. \A i \in 1..(next - 1) : ~(i + 1 < 1)
    BY <1>1
  <2>2. Relocated' = [i \in 1..(next - 1) |-> Raw(FnAt(i + 1))]
    BY <1>1, <1>5, <2>1 DEF Relocated, FnAt
  <2>3. entries' = Relocated' /\ next' \in 1..Len(array)
    BY <1>1, <1>3, <1>5, <2>2
  <2> QED
    BY <1>5, <2>3
<1> QED
  BY <1>2, <1>4, <1>5

\* The relocation of an entry, moved down by one, meets that entry's copy.
LEMMA RelocateKeeps == ASSUME ArrayInv, Relocate PROVE ArrayInv'
<1> SUFFICES ASSUME Recoverable
             PROVE  /\ step' \in {"relocations", "instrument"} /\ next' \in 1..Len(array)
                    /\ step' = "relocations" => entries' = Relocated'
                    /\ step' = "instrument"  => entries' = AllLabels
  BY SameTable DEF Relocate
<1>1. /\ step = "relocations" /\ array' = array /\ Len(array) \in Nat /\ next \in 1..Len(array)
      /\ entries = Relocated /\ (HasCode(array[next].fn) <=> next # 1)
  BY InvFacts DEF Relocate, FnAt
<1>2. Len(entries) = Len(array) - 1
  BY <1>1 DEF Relocated
<1>3. /\ Advance("instrument")
      /\ entries' = IF next = 1 THEN entries
                    ELSE [entries EXCEPT ![next - 1] = Label(FnAt(next))]
  <2>1. CASE next = 1
    BY <1>1, <2>1 DEF Relocate
  <2>2. CASE next # 1
    <3>1. HasCode(array[next].fn) /\ ~(next - 1 > Len(entries)) /\ next - 1 >= 1
      BY <1>1, <1>2, <2>2
    <3> QED
      BY <2>2, <3>1 DEF Relocate, FnAt
  <2> QED
    BY <2>1, <2>2
<1>4. \/ next < Len(array) /\ next' = next + 1 /\ step' = "relocations"
      \/ next = Len(array) /\ next' = 1 /\ step' = "instrument"
  BY <1>1, <1>3, AdvanceFacts
<1>5. entries' = [i \in 1..(Len(array) - 1) |-> IF i + 1 < next + 1 THEN Label(FnAt(i + 1))
                                                ELSE Raw(FnAt(i + 1))]
  <2> DEFINE E == [i \in 1..(Len(array) - 1) |-> IF i + 1 < next + 1 THEN Label(FnAt(i + 1))
                                                 ELSE Raw(FnAt(i + 1))]
  <2>1. entries' = [i \in 1..(Len(array) - 1) |-> entries'[i]]
    BY <1>1, <1>3 DEF Relocated
  <2>2. ASSUME NEW i \in 1..(Len(array) - 1) PROVE entries'[i] = E[i]
    <3>1. entries[i] = IF i + 1 < next THEN Label(FnAt(i + 1)) ELSE Raw(FnAt(i + 1))
      BY <1>1 DEF Relocated
    <3>2. entries'[i] = IF i + 1 = next THEN Label(FnAt(i + 1)) ELSE entries[i]
      <4>1. DOMAIN entries = 1..(Len(array) - 1)
        BY <1>1 DEF Relocated
      <4>2. i + 1 = next <=> next # 1 /\ i = next - 1
        BY <1>1
      <4> QED
        BY <1>1, <1>3, <4>1, <4>2
    <3>3. i + 1 < next + 1 <=> i + 1 < next \/ i + 1 = next
      BY <1>1
    <3> QED
      BY <3>1, <3>2, <3>3
  <2> HIDE DEF E
  <2>3. entries' = [i \in 1..(Len(array) - 1) |-> E[i]]
    BY <2>1, <2>2
  <2> QED
    BY <2>3 DEF E
<1>6. CASE next < Len(array) /\ next' = next + 1 /\ step' = "relocations"
  <2>1. Relocated' = [i \in 1..(Len(array) - 1) |-> IF i + 1 < next + 1 THEN Label(FnAt(i + 1))
                                                    ELSE Raw(FnAt(i + 1))]
    BY <1>1, <1>6 DEF Relocated, FnAt
  <2>2. next' \in 1..Len(array)
    BY <1>1, <1>6
  <2> QED
    BY <1>5, <1>6, <2>1, <2>2
<1>7. CASE next = Len(array) /\ next' = 1 /\ step' = "instrument"
  <2>1. \A i \in 1..(Len(array) - 1) : i + 1 < next + 1
    BY <1>1, <1>7
  <2>2. entries' = AllLabels
    BY <1>5, <2>1 DEF AllLabels
  <2> QED
    BY <1>1, <1>7, <2>2
<1> QED
  BY <1>4, <1>6, <1>7

\* The runtime's constructor comes last.
LEMMA AppendRuntimeKeeps == ASSUME ArrayInv, AppendRuntime PROVE ArrayInv'
<1> SUFFICES ASSUME Recoverable
             PROVE  step' = "done" /\ next' \in 1..Len(array) /\ entries' = WithRuntime
  BY SameTable DEF AppendRuntime
<1>1. /\ array \in Arrays /\ Len(array) \in Nat /\ next' \in 1..Len(array) /\ step' = "done"
      /\ entries = AllLabels /\ entries' = Append(entries, Label(Runtime)) /\ 1 \in 1..Len(array)
  BY InvFacts, RecoverableFacts DEF AppendRuntime
<1> DEFINE R == {Label(FnAt(i + 1)) : i \in 1..(Len(array) - 1)} \cup {Label(Runtime)}
<1>2. AllLabels \in Seq(R) /\ Len(AllLabels) = Len(array) - 1 /\ Label(Runtime) \in R
  <2> HIDE DEF Label, FnAt
  <2>1. Len(array) - 1 \in Nat
    BY <1>1
  <2> QED
    BY <2>1 DEF AllLabels
<1>3. WithRuntime \in Seq(R) /\ Len(WithRuntime) = Len(array)
  <2> DEFINE W(i) == Label(IF i < Len(array) THEN FnAt(i + 1) ELSE Runtime)
  <2>1. ASSUME NEW i \in 1..Len(array) PROVE W(i) \in R
    <3>1. i < Len(array) => i \in 1..(Len(array) - 1)
      BY <1>1
    <3> HIDE DEF Label, FnAt
    <3> QED
      BY <3>1
  <2>2. WithRuntime = [i \in 1..Len(array) |-> W(i)]
    BY DEF WithRuntime
  <2> HIDE DEF W, R
  <2> QED
    BY <1>1, <2>1, <2>2
<1>4. \A i \in 1..Len(array) : Append(AllLabels, Label(Runtime))[i] = WithRuntime[i]
  <2> SUFFICES ASSUME NEW i \in 1..Len(array)
               PROVE  Append(AllLabels, Label(Runtime))[i] = WithRuntime[i]
    OBVIOUS
  <2>1. WithRuntime[i] = Label(IF i < Len(array) THEN FnAt(i + 1) ELSE Runtime)
    BY DEF WithRuntime
  <2>2. i < Len(array) => i \in 1..(Len(array) - 1) /\ AllLabels[i] = Label(FnAt(i + 1))
    BY <1>1 DEF AllLabels
  <2> HIDE DEF R, Label
  <2> QED
    BY <1>1, <1>2, <2>1, <2>2
<1>5. Append(AllLabels, Label(Runtime)) \in Seq(R)
      /\ Len(Append(AllLabels, Label(Runtime))) = Len(array)
  <2> HIDE DEF R
  <2> QED
    BY <1>1, <1>2
<1> HIDE DEF R
<1>6. Append(AllLabels, Label(Runtime)) = WithRuntime
  BY <1>3, <1>4, <1>5, SeqEqual
<1> QED
  BY <1>1, <1>6

\* No step leaves the invariant.
LEMMA ArrayInductive == ASSUME ArrayInv, [ArrayNext]_arrayVars PROVE ArrayInv'
<1>1. CASE UNCHANGED arrayVars
  BY <1>1 DEF arrayVars, ArrayInv, Recoverable, KnownOK, SectionOK, Knows, KnownTo, FnAt, Copied,
              Relocated, AllLabels, WithRuntime
<1> QED
  BY <1>1, AddMissingKeeps, CopyEntryKeeps, RelocateKeeps, AppendRuntimeKeeps DEF ArrayNext

\* The constructors of a recoverable table are all entries but the first.
LEMMA ConstructorsRest ==
  ASSUME array \in Arrays, Recoverable
  PROVE  /\ Constructors = [i \in 1..(Len(array) - 1) |-> FnAt(i + 1)]
         /\ Len(array) \in Nat \ {0}
<1> DEFINE fns == [i \in 1..Len(array) |-> array[i].fn]
           T == ToSet(fns) \ {"frame_dummy"}
<1>1. Len(array) \in Nat /\ 1 \in 1..Len(array)
  BY ArrayFacts, RecoverableFacts
<1>2. fns \in Seq(Names) /\ Len(fns) = Len(array) /\ \A i \in 1..Len(array) : fns[i] = FnAt(i)
  BY <1>1, ArrayFacts DEF FnAt
<1>3. fns[1] \notin T
  BY <1>1, <1>2, RecoverableFacts
<1>4. \A n \in 2..Len(array) : fns[n] \in T
  <2> SUFFICES ASSUME NEW n \in 2..Len(array) PROVE fns[n] \in T
    OBVIOUS
  <2>1. n \in 1..Len(array) /\ n # 1 /\ n \in DOMAIN fns
    BY <1>1
  <2>2. fns[n] \in ToSet(fns)
    BY <2>1 DEF ToSet
  <2>3. fns[n] # "frame_dummy"
    BY <1>2, <2>1, RecoverableFacts
  <2> QED
    BY <2>2, <2>3
<1>5. Constructors = Only(fns, T)
  BY DEF Constructors
<1> HIDE DEF fns, T
<1>6. Only(fns, T) = [n \in 1..(Len(fns) - 1) |-> fns[1 + n]]
  <2>1. 1 \in 0..Len(fns) /\ (\A n \in 1..1 : fns[n] \notin T)
        /\ \A n \in (1 + 1)..Len(fns) : fns[n] \in T
    BY <1>1, <1>2, <1>3, <1>4
  <2> QED
    BY <1>2, <2>1, OnlyEnd
<1>7. \A n \in 1..(Len(array) - 1) : fns[1 + n] = FnAt(n + 1)
  <2>1. \A n \in 1..(Len(array) - 1) : 1 + n \in 1..Len(array) /\ 1 + n = n + 1
    BY <1>1
  <2> QED
    BY <1>2, <2>1
<1> QED
  BY <1>1, <1>2, <1>5, <1>6, <1>7

\* At the end the section is what the property says.
LEMMA ArrayInvImplies == ArrayInv => RunsConstructors
<1> SUFFICES ASSUME ArrayInv, step = "done", Recoverable
             PROVE  /\ entries = [i \in 1..(Len(Constructors) + 1) |->
                                    Label(IF i <= Len(Constructors) THEN Constructors[i] ELSE Runtime)]
                    /\ stubs \cap ToSet(Constructors) = {}
  BY DEF RunsConstructors
<1>1. array \in Arrays /\ entries = WithRuntime /\ stubs = {}
  BY DEF ArrayInv, SectionOK
<1>2. Constructors = [i \in 1..(Len(array) - 1) |-> FnAt(i + 1)] /\ Len(array) \in Nat \ {0}
  BY <1>1, ConstructorsRest
<1>3. Len(Constructors) + 1 = Len(array)
  <2>1. Len(Constructors) = Len(array) - 1
    BY <1>2
  <2> QED
    BY <1>2, <2>1
<1>4. \A i \in 1..Len(array) : Label(IF i < Len(array) THEN FnAt(i + 1) ELSE Runtime)
                             = Label(IF i <= Len(Constructors) THEN Constructors[i] ELSE Runtime)
  <2> SUFFICES ASSUME NEW i \in 1..Len(array)
               PROVE  (IF i < Len(array) THEN FnAt(i + 1) ELSE Runtime)
                    = IF i <= Len(Constructors) THEN Constructors[i] ELSE Runtime
    OBVIOUS
  <2>1. Len(Constructors) \in Nat /\ (i <= Len(Constructors) <=> i < Len(array))
    BY <1>2, <1>3
  <2>2. i < Len(array) => Constructors[i] = FnAt(i + 1)
    BY <1>2
  <2> QED
    BY <2>1, <2>2
<1>5. entries = [i \in 1..(Len(Constructors) + 1) |->
                   Label(IF i <= Len(Constructors) THEN Constructors[i] ELSE Runtime)]
  BY <1>1, <1>3, <1>4 DEF WithRuntime
<1> QED
  BY <1>1, <1>5

\* For an array of any length whose constructors are known or recovered: the rewritten
\* section holds the constructors without frame_dummy, in their order, then the one of
\* the runtime (rw.py lines 739-795, loader.py lines 46-140).
THEOREM ConstructorsRun == ArraySpec => []RunsConstructors
<1>1. ArrayInv /\ [ArrayNext]_arrayVars => ArrayInv'
  BY ArrayInductive
<1> QED
  BY InitArrayInv, <1>1, ArrayInvImplies, PTL DEF ArraySpec
-----------------------------------------------------------------------------
(* Switch tables *)

\* Multiples of an entry's size.
Aligned(n) == n % Entry = 0

\* Places an entry apart, for entries of any size.
LEMMA Remainders ==
  /\ 0 % Entry = 0
  /\ \A n \in Nat : n % Entry = 0 => (n + Entry) % Entry = 0
  /\ \A m, n \in Nat : m % Entry = 0 /\ n % Entry = 0 /\ m < n => m + Entry <= n
  /\ \A n \in Nat : \E q \in Nat : q % Entry = 0 /\ q <= n /\ n < q + Entry
<1>1. Entry \in Nat \ {0}
  BY SizesAssumption
<1>2. 0 % Entry = 0
  BY <1>1
<1>3. ASSUME NEW n \in Nat, n % Entry = 0 PROVE (n + Entry) % Entry = 0
  <2> DEFINE d == n \div Entry
             e == (n + Entry) \div Entry
             r == (n + Entry) % Entry
  <2>1. d \in Int /\ e \in Int /\ r \in 0..(Entry - 1)
        /\ n = Entry * d /\ n + Entry = Entry * e + r
    BY <1>1, <1>3
  <2> HIDE DEF d, e, r
  <2>2. Entry * (d + 1) = Entry * d + Entry /\ Entry * (e + 1) = Entry * e + Entry
    BY <1>1, <2>1
  <2>3. d + 1 <= e \/ d + 1 >= e + 1
    BY <2>1
  <2>4. CASE d + 1 <= e
    <3>1. Entry * (d + 1) <= Entry * e
      BY <1>1, <2>1, <2>4
    <3>2. Entry * d \in Int /\ Entry * e \in Int
      BY <1>1, <2>1
    <3> QED
      BY <1>1, <2>1, <2>2, <3>1, <3>2 DEF r
  <2>5. CASE d + 1 >= e + 1
    <3>1. Entry * (d + 1) >= Entry * (e + 1)
      BY <1>1, <2>1, <2>5
    <3>2. Entry * d \in Int /\ Entry * e \in Int
      BY <1>1, <2>1
    <3> QED
      BY <1>1, <2>1, <2>2, <3>1, <3>2
  <2> QED
    BY <2>3, <2>4, <2>5
<1>4. ASSUME NEW m \in Nat, NEW n \in Nat, m % Entry = 0, n % Entry = 0, m < n
      PROVE  m + Entry <= n
  <2>1. /\ m \div Entry \in Int /\ n \div Entry \in Int
        /\ m = Entry * (m \div Entry) /\ n = Entry * (n \div Entry)
    BY <1>1, <1>4
  <2>2. \A a, b \in Int : Entry * a < Entry * b => Entry * a + Entry <= Entry * b
    <3> SUFFICES ASSUME NEW a \in Int, NEW b \in Int, Entry * a < Entry * b
                 PROVE  Entry * a + Entry <= Entry * b
      OBVIOUS
    <3>1. a < b
      BY <1>1
    <3>2. Entry * (a + 1) <= Entry * b
      BY <1>1, <3>1
    <3>3. Entry * (a + 1) = Entry * a + Entry
      BY <1>1
    <3> QED
      BY <3>2, <3>3
  <2> QED
    BY <1>4, <2>1, <2>2
<1>5. ASSUME NEW n \in Nat PROVE \E q \in Nat : q % Entry = 0 /\ q <= n /\ n < q + Entry
  <2> DEFINE S == {k \in Nat : \E q \in Nat : q % Entry = 0 /\ q <= k /\ k < q + Entry}
  <2>1. 0 \in S
    BY <1>1, <1>2
  <2>2. ASSUME NEW k \in S PROVE k + 1 \in S
    <3>1. PICK q \in Nat : q % Entry = 0 /\ q <= k /\ k < q + Entry
      OBVIOUS
    <3>2. CASE k + 1 < q + Entry
      BY <3>1, <3>2
    <3>3. CASE ~(k + 1 < q + Entry)
      <4>a. k \in Nat /\ q <= k /\ k < q + Entry
        BY <3>1
      <4>b. k + 1 = q + Entry /\ q + Entry \in Nat
        BY <1>1, <3>3, <4>a
      <4>1. k + 1 = q + Entry /\ q + Entry \in Nat /\ (q + Entry) % Entry = 0
        BY <1>3, <3>1, <4>b
      <4>2. \E p \in Nat : p % Entry = 0 /\ p <= k + 1 /\ k + 1 < p + Entry
        <5> DEFINE p == q + Entry
        <5>1. p \in Nat /\ p % Entry = 0 /\ p = k + 1
          BY <4>1
        <5> HIDE DEF p
        <5>2. p <= k + 1 /\ k + 1 < p + Entry
          BY <1>1, <5>1
        <5> QED
          BY <5>1, <5>2
      <4> QED
        BY <4>2
    <3> QED
      BY <3>2, <3>3
  <2>3. S = Nat
    <3>1. S \subseteq Nat
      OBVIOUS
    <3> HIDE DEF S
    <3> QED
      BY <2>1, <2>2, <3>1, Induction
  <2> QED
    BY <2>3
<1> QED
  BY <1>2, <1>3, <1>4, <1>5

\* The same of Aligned.
LEMMA Multiples ==
  /\ Aligned(0)
  /\ \A n \in Nat : Aligned(n) => Aligned(n + Entry)
  /\ \A m, n \in Nat : Aligned(m) /\ Aligned(n) /\ m < n => m + Entry <= n
  /\ \A n \in Nat : \E q \in Nat : Aligned(q) /\ q <= n /\ n < q + Entry
BY Remainders DEF Aligned
-----------------------------------------------------------------------------
InputOK ==
  /\ input \in Inputs
  /\ input.bytes \in Seq(0..(Radix - 1)) /\ Len(input.bytes) \in Nat
  /\ End = Base + Len(input.bytes) /\ End \in Nat
  /\ input.used \in [Fns -> SUBSET Places]

\* What the assumption on the inputs says of one.
LEMMA InputFacts == input \in Inputs => InputOK
BY InputsAssumption, SizesAssumption DEF InputOK, End, Places

\* What a table's slots are: its base, and with a slot all places of the table
\* below it, which nothing uses.
LEMMA SlotFacts ==
  ASSUME InputOK, NEW t \in Tables
  PROVE  /\ t.fn \in Fns /\ t.base \in Places /\ t.base \in AllBases /\ t.base \in Slots(t)
         /\ \A s \in Slots(t) : /\ s \in t.base..(End - 1) /\ s \in Places
                                /\ Aligned(s - t.base)
                                /\ s # t.base => Word(s) \cap AllBases = {}
                                /\ Leads(t.fn, s, t.base)
                                /\ \A p \in t.base..s : Aligned(p - t.base) => p \in Slots(t)
<1>1. t.fn \in Fns /\ t.base \in Places /\ t.base \in input.used[t.fn] /\ Leads(t.fn, t.base, t.base)
  BY DEF Tables, Places
<1>2. Base \in Nat /\ End \in Nat /\ t.base \in Nat
  BY <1>1, SizesAssumption DEF InputOK, Places
<1>3. t.base \in AllBases
  BY <1>1 DEF AllBases
<1>4. t.base \in Slots(t)
  <2>1. t.base - t.base = 0 /\ t.base \in t.base..(End - 1)
    BY <1>1, <1>2 DEF Places
  <2>2. \A s \in t.base..t.base : s = t.base
    BY <1>2
  <2> QED
    BY <1>1, <2>1, <2>2, Multiples DEF Slots, Aligned
<1>5. ASSUME NEW s \in Slots(t)
      PROVE  /\ s \in t.base..(End - 1) /\ s \in Places
             /\ Aligned(s - t.base)
             /\ s # t.base => Word(s) \cap AllBases = {}
             /\ Leads(t.fn, s, t.base)
             /\ \A p \in t.base..s : Aligned(p - t.base) => p \in Slots(t)
  <2>1. /\ s \in t.base..(End - 1) /\ Aligned(s - t.base)
        /\ \A p \in t.base..s : Aligned(p - t.base) =>
             Leads(t.fn, p, t.base) /\ (p = t.base \/ Word(p) \cap AllBases = {})
    BY <1>5 DEF Slots, Aligned
  <2>2. s \in Places /\ s \in t.base..s
    BY <1>1, <1>2, <2>1 DEF Places
  <2>3. ASSUME NEW p \in t.base..s, Aligned(p - t.base) PROVE p \in Slots(t)
    <3>1. p \in t.base..(End - 1) /\ \A q \in t.base..p : q \in t.base..s
      BY <1>2, <2>1
    <3> QED
      BY <2>1, <2>3, <3>1 DEF Slots, Aligned
  <2> QED
    BY <2>1, <2>2, <2>3
<1> QED
  BY <1>1, <1>3, <1>4, <1>5

\* A table reaches no place that is used: it ends at the next table at the latest.
LEMMA EndsBefore ==
  ASSUME InputOK, Sound, NEW t \in Tables, NEW u \in Tables, NEW s \in Slots(t), t.base < u.base
  PROVE  s + Entry <= u.base
<1>1. /\ Entry \in Nat \ {0} /\ t.base \in Nat /\ u.base \in Nat /\ s \in Nat /\ t.base <= s
      /\ Base \in Nat /\ End \in Nat
  BY SizesAssumption, SlotFacts DEF InputOK, Places
<1> SUFFICES ASSUME u.base < s + Entry PROVE FALSE
  BY <1>1
<1>2. PICK d \in Nat : Aligned(d) /\ d <= u.base - t.base /\ u.base - t.base < d + Entry
  <2>1. u.base - t.base \in Nat
    BY <1>1
  <2> QED
    BY <2>1, Multiples
<1> DEFINE p == t.base + d
<1>3. p - t.base = d /\ p <= u.base /\ u.base < p + Entry /\ p \in Nat /\ t.base <= p
  BY <1>1, <1>2
<1>4. u.base \in Word(p)
  BY <1>1, <1>3 DEF Word
<1>5. p <= s
  <2> SUFFICES ASSUME s < p PROVE FALSE
    BY <1>1, <1>3
  <2>1. Aligned(s - t.base) /\ s - t.base \in Nat /\ s - t.base < d
    BY <1>1, <1>3, SlotFacts
  <2>2. (s - t.base) + Entry <= d
    BY <1>2, <2>1, Multiples
  <2> HIDE DEF p
  <2> QED
    BY <1>1, <1>3, <2>2
<1>6. p \in Slots(t)
  <2>1. p \in t.base..s /\ Aligned(p - t.base)
    BY <1>1, <1>2, <1>3, <1>5
  <2> HIDE DEF p
  <2> QED
    BY <2>1, SlotFacts
<1> HIDE DEF p
<1>7. u.base \in Word(p) \cap AllBases
  BY <1>4, SlotFacts
<1>8. p = t.base
  BY <1>6, <1>7, SlotFacts
<1>9. Word(t.base) \cap AllBases = {t.base}
  BY DEF Sound
<1> QED
  BY <1>1, <1>7, <1>8, <1>9

\* Words of slots do not overlap.
LEMMA Disjoint ==
  ASSUME InputOK, Sound, NEW t \in Tables, NEW u \in Tables, NEW s \in Slots(t), NEW r \in Slots(u),
         Word(s) \cap Word(r) # {}
  PROVE  t = u /\ s = r
<1>1. /\ Entry \in Nat \ {0} /\ t.base \in Nat /\ u.base \in Nat /\ s \in Nat /\ r \in Nat
      /\ t.base <= s /\ u.base <= r /\ Aligned(s - t.base) /\ Aligned(r - u.base)
  BY SizesAssumption, SlotFacts DEF InputOK, Places
<1>2. s < r + Entry /\ r < s + Entry
  BY <1>1 DEF Word
<1>3. ~(t.base < u.base) /\ ~(u.base < t.base)
  BY <1>1, <1>2, EndsBefore
<1>4. t.base = u.base
  BY <1>1, <1>3
<1>5. t = u
  BY <1>4 DEF Sound
<1>6. s - t.base \in Nat /\ r - t.base \in Nat /\ Aligned(r - t.base)
  BY <1>1, <1>4
<1>7. s - t.base < r - t.base => (s - t.base) + Entry <= r - t.base
  BY <1>1, <1>6, Multiples
<1>8. r - t.base < s - t.base => (r - t.base) + Entry <= s - t.base
  BY <1>1, <1>6, Multiples
<1>9. s = r
  BY <1>1, <1>2, <1>7, <1>8
<1> QED
  BY <1>5, <1>9

-----------------------------------------------------------------------------
\* The table that is being followed, or whose base is tried next.
Current == [fn |-> fn, base |-> swbase]

\* Its base was tried; it is rewritten, as far as the loop has come.
Tried(t)   == t.fn \notin left /\ (t.fn # fn \/ t.base \notin bases)
Written(t) == {s \in Slots(t) : Tried(t) /\ (swbase # 0 /\ t = Current => s < slot)}

Labelled(x, b) == [byte |-> Byte(x), label |-> <<(Distance(x) + b) % Radix^Entry, b>>,
                   sz |-> Entry, ignored |-> FALSE]
Unlabelled(x, i) == [byte |-> Byte(x), label |-> NoLabel, sz |-> 1, ignored |-> i]

\* The cells, given the slots written of each table.
CellsAre(c, w) ==
  /\ DOMAIN c = Places
  /\ \A x \in Places :
       /\ \A t \in Tables : x \in w[t] => c[x] = Labelled(x, t.base)
       /\ (\A t \in Tables : x \notin w[t]) =>
            c[x] = Unlabelled(x, \E t \in Tables : \E s \in w[t] : x \in Word(s))
\* The slot p of table t added to w; its word written, with label l, to c.
Added(v, w, t, p) == \A u \in Tables : v[u] = IF u = t THEN w[u] \cup {p} ELSE w[u]
Wrote(d, c, p, l) ==
  /\ DOMAIN d = Places
  /\ \A x \in Places :
       d[x] = [byte    |-> c[x].byte,
               label   |-> IF x = p THEN l ELSE c[x].label,
               sz      |-> IF x = p THEN Entry ELSE c[x].sz,
               ignored |-> c[x].ignored \/ (x # p /\ x \in Word(p))]
OfTables(w) == \A u \in Tables : w[u] \subseteq Slots(u)

AllWritten == [t \in Tables |-> Written(t)]

BasesOK ==
  /\ left \subseteq Fns
  /\ bases # {} \/ swbase # 0 => fn \in Fns \ left
  /\ bases \subseteq Places /\ (bases # {} => bases \subseteq input.used[fn])

\* The places of the current table before the slot are its slots.
FollowOK ==
  swbase # 0 => /\ Current \in Tables /\ swbase \notin bases /\ slot \in Nat
                /\ swbase < slot /\ Aligned(slot - swbase)
                /\ \A s \in swbase..(slot - 1) : Aligned(s - swbase) => s \in Slots(Current)

TablesInv == /\ input \in Inputs
             /\ Sound => BasesOK /\ FollowOK /\ CellsAre(cells, AllWritten)

\* Where the section lies.
LEMMA PlaceFacts ==
  ASSUME InputOK
  PROVE  /\ Base \in Nat \ {0} /\ Entry \in Nat \ {0} /\ End \in Nat
         /\ \A x \in Places : x \in Nat \ {0}
BY SizesAssumption DEF InputOK, Places

\* A place lies in its own word.
LEMMA OwnWord == \A x \in Nat : x \in Word(x)
<1>1. Entry \in Nat \ {0}
  BY SizesAssumption
<1> QED
  BY <1>1 DEF Word

\* Cells as records.
LEMMA CellRead ==
  ASSUME NEW x, NEW b, NEW i
  PROVE  /\ Labelled(x, b).byte = Byte(x) /\ Unlabelled(x, i).byte = Byte(x)
         /\ Unlabelled(x, i).label = NoLabel /\ Unlabelled(x, FALSE).ignored = FALSE
BY DEF Labelled, Unlabelled

\* A labelled cell outside the new word stays as it is.
LEMMA CellCopied ==
  ASSUME NEW x, NEW b, NEW c, c = Labelled(x, b)
  PROVE  [byte |-> c.byte, label |-> c.label, sz |-> c.sz, ignored |-> c.ignored \/ FALSE]
           = Labelled(x, b)
<1> DEFINE m == <<(Distance(x) + b) % Radix^Entry, b>>
           y == Byte(x)
<1>1. c = [byte |-> y, label |-> m, sz |-> Entry, ignored |-> FALSE]
  BY DEF Labelled
<1> HIDE DEF m, y
<1>2. c.byte = y /\ c.label = m /\ c.sz = Entry /\ c.ignored = FALSE
  BY <1>1
<1>3. (c.ignored \/ FALSE) = FALSE
  BY <1>2
<1>4. [byte |-> c.byte, label |-> c.label, sz |-> c.sz, ignored |-> c.ignored \/ FALSE]
        = [byte |-> y, label |-> m, sz |-> Entry, ignored |-> FALSE]
  BY <1>2, <1>3, Zenon
<1> QED
  BY <1>1, <1>4

\* An unlabelled cell is ignored when it was or when the new word covers it.
LEMMA CellIgnored ==
  ASSUME NEW x, NEW c, NEW i \in BOOLEAN, NEW j \in BOOLEAN, NEW k \in BOOLEAN, k <=> i \/ j,
         c = Unlabelled(x, i)
  PROVE  [byte |-> c.byte, label |-> c.label, sz |-> c.sz, ignored |-> c.ignored \/ j]
           = Unlabelled(x, k)
BY DEF Unlabelled

\* A slot is written: its word's cells change, and no other table's do.
LEMMA CellUpdate ==
  ASSUME InputOK, Sound, NEW c, NEW w, NEW v, NEW d, NEW t \in Tables, NEW p \in Slots(t),
         OfTables(w), p \notin w[t], CellsAre(c, w), Added(v, w, t, p),
         NEW l, l = <<(Distance(p) + t.base) % Radix^Entry, t.base>>, Wrote(d, c, p, l)
  PROVE  CellsAre(d, v)
<1> DEFINE Held(x) == \E u \in Tables : \E s \in w[u] : x \in Word(s)
<1>1. \A u \in Tables : w[u] \subseteq Slots(u) /\ v[u] = IF u = t THEN w[u] \cup {p} ELSE w[u]
  BY DEF OfTables, Added
<1>2. DOMAIN d = Places
  BY DEF Wrote
<1>3. \A x \in Places :
        d[x] = [byte    |-> c[x].byte,
                label   |-> IF x = p THEN l ELSE c[x].label,
                sz      |-> IF x = p THEN Entry ELSE c[x].sz,
                ignored |-> c[x].ignored \/ (x # p /\ x \in Word(p))]
  BY DEF Wrote
\* Nothing written before meets the word of p.
<1>4. \A u \in Tables : \A s \in w[u] : Word(s) \cap Word(p) = {}
  <2> SUFFICES ASSUME NEW u \in Tables, NEW s \in w[u], Word(s) \cap Word(p) # {} PROVE FALSE
    OBVIOUS
  <2>1. u = t /\ s = p
    BY <1>1, Disjoint
  <2> QED
    BY <2>1
<1>5. p \in Places /\ p \in Word(p) /\ \A u \in Tables : \A s \in w[u] : s \in Word(s)
  BY <1>1, SlotFacts, PlaceFacts, OwnWord
<1>6. \A u \in Tables : \A x \in Word(p) : x \notin w[u]
  BY <1>4, <1>5
<1>7. ASSUME NEW x \in Places, NEW u \in Tables, x \in v[u] PROVE d[x] = Labelled(x, u.base)
  <2>1. CASE x = p
    <3>1. u = t
      BY <1>1, <1>5, <1>6, <1>7, <2>1
    <3>2. (\A r \in Tables : p \notin w[r]) /\ ~Held(p)
      BY <1>4, <1>5, <1>6
    <3>3. c[p] = Unlabelled(p, FALSE)
      BY <1>5, <3>2 DEF CellsAre
    <3>4. c[p].byte = Byte(p) /\ (c[p].ignored \/ (p # p /\ p \in Word(p))) = FALSE
      BY <3>3, CellRead
    <3>5. d[p] = [byte |-> Byte(p), label |-> l, sz |-> Entry, ignored |-> FALSE]
      BY <1>3, <1>5, <3>4, Zenon
    <3> QED
      BY <2>1, <3>1, <3>5, Zenon DEF Labelled
  <2>2. CASE x # p
    <3>1. x \in w[u] /\ x \notin Word(p)
      BY <1>1, <1>6, <1>7, <2>2
    <3>2. c[x] = Labelled(x, u.base)
      BY <3>1 DEF CellsAre
    <3>3. d[x] = [byte |-> c[x].byte, label |-> c[x].label, sz |-> c[x].sz, ignored |-> c[x].ignored \/ FALSE]
      BY <1>3, <2>2, <3>1
    <3> QED
      BY <3>2, <3>3, CellCopied
  <2> QED
    BY <2>1, <2>2
<1>8. ASSUME NEW x \in Places, \A u \in Tables : x \notin v[u]
      PROVE  d[x] = Unlabelled(x, \E u \in Tables : \E s \in v[u] : x \in Word(s))
  <2>1. x # p /\ \A u \in Tables : x \notin w[u]
    BY <1>1, <1>8
  <2>2. c[x] = Unlabelled(x, Held(x))
    BY <2>1 DEF CellsAre
  <2>3. (\E u \in Tables : \E s \in v[u] : x \in Word(s)) <=> (Held(x) \/ x \in Word(p))
    BY <1>1
  <2> DEFINE after == \E u \in Tables : \E s \in v[u] : x \in Word(s)
             held  == Held(x)
             inP   == x \in Word(p)
  <2>4. held \in BOOLEAN /\ after \in BOOLEAN /\ inP \in BOOLEAN /\ (after <=> held \/ inP)
    BY <2>3
  <2>5. d[x] = [byte |-> c[x].byte, label |-> c[x].label, sz |-> c[x].sz, ignored |-> c[x].ignored \/ inP]
    BY <1>3, <2>1
  <2>6. c[x] = Unlabelled(x, held)
    BY <2>2
  <2> HIDE DEF Held, held, after, inP
  <2>7. d[x] = Unlabelled(x, after)
    BY <2>4, <2>5, <2>6, CellIgnored
  <2> QED
    BY <2>7 DEF after
<1> QED
  BY <1>2, <1>7, <1>8 DEF CellsAre

\* No byte is lost, so that a word reads as it was.
LEMMA ValueIsDistance ==
  ASSUME InputOK, NEW w, CellsAre(cells, w), NEW a
  PROVE  Value(a) = Distance(a)
<1>1. \A x \in Places : cells[x].byte = Byte(x)
  <2> SUFFICES ASSUME NEW x \in Places PROVE cells[x].byte = Byte(x)
    OBVIOUS
  <2>1. CASE \E t \in Tables : x \in w[t]
    BY <2>1, CellRead DEF CellsAre
  <2>2. CASE \A t \in Tables : x \notin w[t]
    BY <2>2, CellRead DEF CellsAre
  <2> QED
    BY <2>1, <2>2
<1>2. [x \in Places |-> cells[x].byte] = [x \in Places |-> Byte(x)]
  BY <1>1
<1> QED
  BY <1>2 DEF Value, Distance

\* What a test for an entry says.
LEMMA EntryTest ==
  ASSUME InputOK, Sound, NEW w, CellsAre(cells, w), OfTables(w),
         NEW f, NEW a, NEW b
  PROVE  /\ IsEntry(f, a, b) => Leads(f, a, b)
         /\ Target(a, b) = (Distance(a) + b) % Radix^Entry
         /\ \A t \in Tables : a \in Slots(t) /\ a \notin w[t] /\ f = t.fn /\ b = t.base => IsEntry(f, a, b)
<1>1. Value(a) = Distance(a)
  BY ValueIsDistance
<1>2. Target(a, b) = (Distance(a) + b) % Radix^Entry
  BY <1>1 DEF Target
<1>3. IsEntry(f, a, b) <=> Readable(a) /\ Leads(f, a, b)
  BY <1>1, <1>2, Zenon DEF IsEntry, Leads
<1>4. ASSUME NEW t \in Tables, a \in Slots(t), a \notin w[t], f = t.fn, b = t.base
      PROVE  IsEntry(f, a, b)
  <2>1. ASSUME NEW x \in Word(a) \cap Places PROVE cells[x].label = NoLabel
    <3>1. x \in Word(x)
      BY PlaceFacts, OwnWord
    <3>2. \A u \in Tables : x \notin w[u]
      <4> SUFFICES ASSUME NEW u \in Tables, x \in w[u] PROVE FALSE
        OBVIOUS
      <4>1. u = t /\ x = a
        BY <1>4, <3>1, Disjoint DEF OfTables
      <4> QED
        BY <1>4, <4>1
    <3>3. \E i : cells[x] = Unlabelled(x, i)
      BY <3>2 DEF CellsAre
    <3> QED
      BY <3>3, CellRead
  <2>2. Readable(a)
    BY <2>1 DEF Readable
  <2>3. Leads(f, a, b)
    BY <1>4, SlotFacts
  <2> QED
    BY <1>3, <2>2, <2>3
<1> QED
  BY <1>2, <1>3, <1>4

-----------------------------------------------------------------------------
\* The highest of the bases is one of them.
LEMMA MaxOfBases ==
  ASSUME InputOK, bases \subseteq Places, bases # {}
  PROVE  Max(bases) \in bases
<1> DEFINE D == {End - x : x \in bases}
<1>1. End \in Nat /\ \A x \in bases : x \in Nat /\ x < End
  BY PlaceFacts DEF Places
<1>2. D \subseteq Nat /\ D # {}
  BY <1>1
<1>3. PICK d \in D : \A e \in D : d <= e
  BY <1>2, LeastOfSet
<1>4. PICK x \in bases : d = End - x
  BY <1>3
<1>5. \A y \in bases : x >= y
  <2> SUFFICES ASSUME NEW y \in bases PROVE x >= y
    OBVIOUS
  <2>1. d <= End - y
    BY <1>3
  <2> QED
    BY <1>1, <1>4, <2>1
<1> QED
  BY <1>5 DEF Max

\* A record of a table, by its fields.
LEMMA TableFields ==
  ASSUME InputOK
  PROVE  /\ \A t \in Tables : t.fn \in Fns /\ t.base \in Places /\ t = [fn |-> t.fn, base |-> t.base]
         /\ \A f, b : [fn |-> f, base |-> b].fn = f /\ [fn |-> f, base |-> b].base = b
BY DEF Tables

\* What is written is of the table's slots.
LEMMA WrittenSlots == OfTables(AllWritten) /\ \A t \in Tables : AllWritten[t] = Written(t)
BY DEF AllWritten, Written, OfTables

\* At first nothing is written.
LEMMA InitTables == Init => TablesInv
<1> SUFFICES ASSUME Init, Sound PROVE BasesOK /\ FollowOK /\ CellsAre(cells, AllWritten)
  BY DEF Init, TablesInv
<1>1. InputOK /\ left = Fns /\ bases = {} /\ swbase = 0 /\ cells = [x \in Places |-> Cell(Byte(x))]
  BY InputFacts DEF Init
<1>2. \A t \in Tables : AllWritten[t] = {}
  BY <1>1, TableFields DEF AllWritten, Written, Tried
<1>3. CellsAre(cells, AllWritten)
  <2>1. DOMAIN cells = Places
    BY <1>1
  <2>2. ASSUME NEW x \in Places PROVE cells[x] = Unlabelled(x, FALSE)
    BY <1>1 DEF Cell, Unlabelled
  <2>3. ~ \E t \in Tables : \E s \in AllWritten[t] : TRUE
    BY <1>2
  <2> QED
    BY <1>2, <2>1, <2>2, <2>3 DEF CellsAre
<1> QED
  BY <1>1, <1>3 DEF BasesOK, FollowOK

\* The input, and what is said of it, stays.
LEMMA SameInput ==
  ASSUME input' = input
  PROVE  /\ Sound' = Sound /\ Tables' = Tables /\ Places' = Places /\ InputOK' = InputOK
         /\ \A t : Slots(t)' = Slots(t)
         /\ \A x, b : Labelled(x, b)' = Labelled(x, b) /\ \A i : Unlabelled(x, i)' = Unlabelled(x, i)
<1>1. /\ End' = End /\ Places' = Places /\ AllBases' = AllBases /\ \A x : Byte(x)' = Byte(x)
  BY DEF End, Places, AllBases, Byte
<1>2. \A a : Distance(a)' = Distance(a)
  BY <1>1 DEF Distance, Number, Word
<1>3. \A f, a, b : Leads(f, a, b)' = Leads(f, a, b)
  BY <1>2 DEF Leads
<1>4. \A t : Slots(t)' = Slots(t)
  BY <1>1, <1>3 DEF Slots
<1>5. Tables' = Tables
  BY <1>1, <1>3 DEF Tables
<1>6. Sound' = Sound
  BY <1>1, <1>5 DEF Sound, Word
<1>7. InputOK' = InputOK
  BY <1>1 DEF InputOK
<1>8. \A x, b : Labelled(x, b)' = Labelled(x, b) /\ \A i : Unlabelled(x, i)' = Unlabelled(x, i)
  BY <1>1, <1>2, Zenon DEF Labelled, Unlabelled
<1> QED
  BY <1>1, <1>4, <1>5, <1>6, <1>7, <1>8

\* A step that writes nothing.
LEMMA NothingWritten ==
  ASSUME input' = input, cells' = cells, CellsAre(cells, AllWritten),
         \A u \in Tables : Written(u)' = Written(u)
  PROVE  CellsAre(cells, AllWritten)'
<1>1. AllWritten' = AllWritten
  BY SameInput DEF AllWritten
<1>2. /\ Tables' = Tables /\ Places' = Places
      /\ \A x, b : Labelled(x, b)' = Labelled(x, b) /\ \A i : Unlabelled(x, i)' = Unlabelled(x, i)
  BY SameInput
<1>3. \A x : Word(x)' = Word(x)
  BY DEF Word
<1>4. ASSUME NEW x \in Places
      PROVE  /\ \A t \in Tables : x \in AllWritten[t] => cells'[x] = Labelled(x, t.base)'
             /\ (\A t \in Tables : x \notin AllWritten[t]) =>
                  cells'[x] = Unlabelled(x, \E t \in Tables : \E s \in AllWritten[t] : x \in Word(s))'
  <2>1. /\ \A t \in Tables : x \in AllWritten[t] => cells[x] = Labelled(x, t.base)
        /\ (\A t \in Tables : x \notin AllWritten[t]) =>
             cells[x] = Unlabelled(x, \E t \in Tables : \E s \in AllWritten[t] : x \in Word(s))
    BY <1>4 DEF CellsAre
  <2> QED
    BY <1>1, <1>2, <1>3, <2>1
<1>5. DOMAIN cells' = Places'
  BY <1>2 DEF CellsAre
<1> QED
  BY <1>1, <1>2, <1>3, <1>4, <1>5 DEF CellsAre

\* A step that writes one slot.
LEMMA SlotWritten ==
  ASSUME InputOK, Sound, CellsAre(cells, AllWritten), input' = input,
         NEW t \in Tables, NEW p \in Slots(t), p \notin Written(t),
         Replace(p, <<Target(p, t.base), t.base>>),
         \A u \in Tables : Written(u)' = IF u = t THEN Written(u) \cup {p} ELSE Written(u)
  PROVE  CellsAre(cells, AllWritten)'
<1> DEFINE v == [u \in Tables |-> Written(u)']
           l == <<Target(p, t.base), t.base>>
<1>1. Added(v, AllWritten, t, p) /\ OfTables(AllWritten)
  BY WrittenSlots DEF Added, OfTables
<1>2. p \notin AllWritten[t]
  BY WrittenSlots
<1>3. l = <<(Distance(p) + t.base) % Radix^Entry, t.base>>
  <2>1. Target(p, t.base) = (Distance(p) + t.base) % Radix^Entry
    BY ValueIsDistance DEF Target
  <2> QED
    BY <2>1, Zenon
<1>4. Wrote(cells', cells, p, l)
  <2>1. DOMAIN cells = Places
    BY DEF CellsAre
  <2> HIDE DEF l
  <2> QED
    BY <2>1 DEF Replace, Wrote, l
<1>5. AllWritten' = v
  BY SameInput DEF AllWritten
<1> HIDE DEF v, l
<1>6. CellsAre(cells', v)
  BY <1>1, <1>2, <1>3, <1>4, CellUpdate
<1>7. CellsAre(cells', AllWritten')
  BY <1>5, <1>6
<1>8. /\ DOMAIN cells' = Places
      /\ \A x \in Places :
           /\ \A u \in Tables : x \in AllWritten'[u] => cells'[x] = Labelled(x, u.base)
           /\ (\A u \in Tables : x \notin AllWritten'[u]) =>
                cells'[x] = Unlabelled(x, \E u \in Tables : \E s \in AllWritten'[u] : x \in Word(s))
  BY <1>7 DEF CellsAre
<1>9. /\ Tables' = Tables /\ Places' = Places
      /\ \A x, b : Labelled(x, b)' = Labelled(x, b) /\ \A i : Unlabelled(x, i)' = Unlabelled(x, i)
  BY SameInput
<1>10. ASSUME NEW x \in Places PROVE \A u \in Tables : x \in AllWritten'[u] => cells'[x] = Labelled(x, u.base)'
  BY <1>8, <1>9
<1>11. ASSUME NEW x \in Places, \A u \in Tables : x \notin AllWritten'[u]
       PROVE  cells'[x] = Unlabelled(x, \E u \in Tables : \E s \in AllWritten[u] : x \in Word(s))'
  <2>1. (\E u \in Tables : \E s \in AllWritten[u] : x \in Word(s))'
          = (\E u \in Tables : \E s \in AllWritten'[u] : x \in Word(s))
    BY <1>9 DEF Word
  <2> QED
    BY <1>8, <1>9, <1>11, <2>1, Zenon
<1> QED
  BY <1>8, <1>9, <1>10, <1>11, Zenon DEF CellsAre

\* What the invariant says of a section that is being rewritten.
LEMMA TablesInvFacts ==
  ASSUME TablesInv, Sound
  PROVE  /\ InputOK /\ BasesOK /\ FollowOK /\ CellsAre(cells, AllWritten)
         /\ Base \in Nat \ {0} /\ Entry \in Nat \ {0} /\ End \in Nat
BY InputFacts, PlaceFacts DEF TablesInv

\* A new function: none of its bases was tried.
LEMMA NextFunctionKeeps == ASSUME TablesInv, NextFunction PROVE TablesInv'
<1>1. input' = input /\ input \in Inputs
  BY DEF TablesInv, NextFunction
<1> SUFFICES ASSUME Sound PROVE BasesOK' /\ FollowOK' /\ CellsAre(cells, AllWritten)'
  BY <1>1, SameInput DEF TablesInv
<1>2. /\ InputOK /\ BasesOK /\ CellsAre(cells, AllWritten)
      /\ swbase = 0 /\ bases = {} /\ fn' \in left /\ left' = left \ {fn'} /\ bases' = input.used[fn']
      /\ cells' = cells /\ swbase' = 0
  BY TablesInvFacts DEF NextFunction
<1>3. fn' \in Fns /\ left' \subseteq Fns /\ bases' \subseteq Places
  BY <1>2 DEF BasesOK, InputOK
<1>4. BasesOK' /\ FollowOK'
  BY <1>1, <1>2, <1>3, SameInput DEF BasesOK, FollowOK
<1>5. ASSUME NEW u \in Tables PROVE Written(u)' = Written(u)
  <2>1. u.fn = fn' => u.base \in bases'
    BY <1>2 DEF Tables
  <2>2. Tried(u)' <=> Tried(u)
    BY <1>2, <2>1 DEF Tried
  <2> QED
    BY <1>1, <1>2, <2>2, SameInput DEF Written
<1> QED
  BY <1>1, <1>2, <1>4, <1>5, NothingWritten

\* A base of no table changes nothing; that of a table is its first slot.
LEMMA TryBaseKeeps == ASSUME TablesInv, TryBase PROVE TablesInv'
<1>1. input' = input /\ input \in Inputs
  BY DEF TablesInv, TryBase
<1> SUFFICES ASSUME Sound PROVE BasesOK' /\ FollowOK' /\ CellsAre(cells, AllWritten)'
  BY <1>1, SameInput DEF TablesInv
<1>a. PICK b : b = Max(bases)
  OBVIOUS
<1>b. PICK t : t = [fn |-> fn, base |-> b]
  OBVIOUS
<1>2. /\ InputOK /\ BasesOK /\ CellsAre(cells, AllWritten)
      /\ Base \in Nat \ {0} /\ Entry \in Nat \ {0} /\ End \in Nat
      /\ swbase = 0 /\ bases # {} /\ bases' = bases \ {b} /\ left' = left /\ fn' = fn
      /\ IF IsEntry(fn, b, b)
         THEN Replace(b, <<Target(b, b), b>>) /\ swbase' = b /\ slot' = b + Entry
         ELSE UNCHANGED <<cells, swbase, slot>>
  BY <1>a, TablesInvFacts DEF TryBase
<1>3. b \in bases /\ b \in Places /\ b \in input.used[fn] /\ fn \in Fns \ left /\ b \in Nat \ {0}
  BY <1>a, <1>2, MaxOfBases, PlaceFacts DEF BasesOK
<1>4. t.fn = fn /\ t.base = b
  BY <1>b
<1>5. t \in Tables <=> Leads(fn, b, b)
  BY <1>b, <1>3 DEF Tables
<1>6. BasesOK'
  BY <1>1, <1>2, <1>3, SameInput DEF BasesOK
<1>7. \A u \in Tables : u # t => (Tried(u)' <=> Tried(u))
  <2> SUFFICES ASSUME NEW u \in Tables, u # t PROVE Tried(u)' <=> Tried(u)
    OBVIOUS
  <2>1. u.fn # fn \/ u.base # b
    BY <1>b, <1>2, TableFields
  <2> QED
    BY <1>2, <2>1 DEF Tried
<1>8. Tried(t)' /\ ~Tried(t)
  BY <1>2, <1>3, <1>4 DEF Tried
<1>9. CASE IsEntry(fn, b, b)
  <2>1. t \in Tables /\ b \in Slots(t)
    BY <1>2, <1>4, <1>5, <1>9, WrittenSlots, EntryTest, SlotFacts
  <2>2. b \notin Written(t)
    BY <1>8 DEF Written
  <2>3. swbase' = b /\ slot' = b + Entry /\ Replace(b, <<Target(b, b), b>>)
    BY <1>2, <1>9
  <2>4. Current' = t
    BY <1>b, <1>2, <2>3 DEF Current
  <2>5. \A s \in Nat : b <= s /\ Aligned(s - b) /\ s < b + Entry => s = b
    <3> SUFFICES ASSUME NEW s \in Nat, b <= s, Aligned(s - b), s < b + Entry, s # b PROVE FALSE
      OBVIOUS
    <3>1. s - b \in Nat /\ 0 < s - b
      BY <1>3
    <3>2. 0 + Entry <= s - b
      BY <3>1, Multiples
    <3> QED
      BY <1>2, <1>3, <3>2
  <2>6. \A s \in Slots(t) : s \in Nat /\ b <= s /\ Aligned(s - b)
    BY <1>2, <1>3, <1>4, <2>1, SlotFacts, PlaceFacts
  <2>7. Written(t)' = Written(t) \cup {b}
    <3>1. Written(t) = {}
      BY <1>8 DEF Written
    <3>2. Written(t)' = {s \in Slots(t) : s < b + Entry}
      BY <1>1, <1>3, <1>8, <2>3, <2>4, SameInput DEF Written
    <3>3. {s \in Slots(t) : s < b + Entry} = {b}
      <4>1. b < b + Entry
        BY <1>2, <1>3
      <4>2. \A s \in Slots(t) : s < b + Entry => s = b
        BY <2>5, <2>6
      <4> QED
        BY <2>1, <4>1, <4>2
    <3> QED
      BY <3>1, <3>2, <3>3
  <2>8. \A u \in Tables : u # t => Written(u)' = Written(u)
    BY <1>1, <1>2, <1>7, <2>4, SameInput DEF Written
  <2>9. CellsAre(cells, AllWritten)'
    BY <1>1, <1>2, <1>4, <2>1, <2>2, <2>3, <2>7, <2>8, SlotWritten
  <2>10. FollowOK'
    <3>1. slot' \in Nat /\ b < slot' /\ slot' - b = 0 + Entry /\ slot' - 1 = b + Entry - 1
      BY <1>2, <1>3, <2>3
    <3>2. Aligned(slot' - b)
      BY <3>1, Multiples
    <3>3. \A s \in b..(slot' - 1) : Aligned(s - b) => s \in Slots(t)
      <4>a. b \in Nat /\ Entry \in Nat /\ slot' - 1 = b + Entry - 1
        BY <1>2, <1>3, <3>1
      <4>1. \A s \in b..(slot' - 1) : s \in Nat /\ b <= s /\ s < b + Entry
        BY <4>a
      <4> QED
        BY <2>1, <2>5, <4>1
    <3> QED
      BY <1>1, <1>2, <2>1, <2>3, <2>4, <3>1, <3>2, <3>3, SameInput DEF FollowOK, Aligned
  <2> QED
    BY <1>6, <2>9, <2>10
<1>10. CASE ~IsEntry(fn, b, b)
  <2>1. t \notin Tables
    <3> SUFFICES ASSUME t \in Tables PROVE FALSE
      OBVIOUS
    <3>1. b \in Slots(t) /\ b \notin AllWritten[t]
      BY <1>2, <1>4, <1>8, SlotFacts, WrittenSlots DEF Written
    <3> QED
      BY <1>2, <1>4, <1>10, <3>1, WrittenSlots, EntryTest
  <2>2. swbase' = 0 /\ cells' = cells
    BY <1>2, <1>10
  <2>3. \A u \in Tables : Written(u)' = Written(u)
    BY <1>1, <1>2, <1>7, <2>1, <2>2, SameInput DEF Written
  <2>4. FollowOK'
    BY <2>2 DEF FollowOK
  <2> QED
    BY <1>1, <1>2, <1>6, <2>2, <2>3, <2>4, NothingWritten
<1> QED
  BY <1>9, <1>10

\* The place is the next slot of the table and is written, or the table ends here.
LEMMA FollowKeeps == ASSUME TablesInv, Follow PROVE TablesInv'
<1>1. input' = input /\ input \in Inputs
  BY DEF TablesInv, Follow
<1> SUFFICES ASSUME Sound PROVE BasesOK' /\ FollowOK' /\ CellsAre(cells, AllWritten)'
  BY <1>1, SameInput DEF TablesInv
<1>a. PICK t : t = Current
  OBVIOUS
<1> DEFINE More == slot < End /\ ~Blocked(slot) /\ IsEntry(fn, slot, swbase)
<1>2. /\ InputOK /\ BasesOK /\ FollowOK /\ CellsAre(cells, AllWritten)
      /\ Base \in Nat \ {0} /\ Entry \in Nat \ {0} /\ End \in Nat
      /\ swbase # 0 /\ bases' = bases /\ left' = left /\ fn' = fn
      /\ IF More THEN /\ Replace(slot, <<Target(slot, swbase), swbase>>)
                      /\ slot' = slot + Entry /\ swbase' = swbase
                 ELSE swbase' = 0 /\ slot' = 0 /\ cells' = cells
  BY TablesInvFacts DEF Follow
<1>3. /\ t \in Tables /\ swbase \notin bases /\ slot \in Nat /\ swbase < slot /\ Aligned(slot - swbase)
      /\ \A s \in swbase..(slot - 1) : Aligned(s - swbase) => s \in Slots(t)
      /\ fn \in Fns \ left
  BY <1>a, <1>2 DEF FollowOK, BasesOK
<1>4. t.fn = fn /\ t.base = swbase /\ swbase \in Nat
  <2>1. t.fn = fn /\ t.base = swbase
    BY <1>a DEF Current
  <2> QED
    BY <1>2, <1>3, <2>1, TableFields, PlaceFacts
<1>5. BasesOK'
  BY <1>1, <1>2, <1>3, SameInput DEF BasesOK
<1>6. \A u : Tried(u)' <=> Tried(u)
  BY <1>2 DEF Tried
<1>7. Tried(t) /\ Written(t) = {s \in Slots(t) : s < slot}
  BY <1>a, <1>2, <1>3, <1>4 DEF Tried, Written
<1>8. slot \notin Written(t) /\ slot \notin AllWritten[t]
  BY <1>3, <1>7, WrittenSlots
<1>9. \A s \in Slots(t) : s \in Nat /\ swbase <= s /\ Aligned(s - swbase)
  BY <1>2, <1>3, <1>4, SlotFacts, PlaceFacts
<1>10. CASE More
  <2>1. slot' = slot + Entry /\ swbase' = swbase /\ Replace(slot, <<Target(slot, swbase), swbase>>)
    BY <1>2, <1>10
  <2>2. slot \in Slots(t)
    <3>1. Leads(fn, slot, swbase)
      BY <1>2, <1>10, WrittenSlots, EntryTest
    <3>2. slot \in t.base..(End - 1) /\ Word(slot) \cap AllBases = {}
      BY <1>2, <1>3, <1>4, <1>10 DEF Blocked
    <3>3. ASSUME NEW s \in t.base..slot, Aligned(s - t.base)
          PROVE  Leads(t.fn, s, t.base) /\ (s = t.base \/ Word(s) \cap AllBases = {})
      <4>1. CASE s = slot
        BY <1>4, <3>1, <3>2, <4>1
      <4>2. CASE s # slot
        <5>1. s \in swbase..(slot - 1) /\ Aligned(s - swbase)
          BY <1>3, <1>4, <3>3, <4>2
        <5> QED
          BY <1>2, <1>3, <5>1, SlotFacts
      <4> QED
        BY <4>1, <4>2
    <3>4. Aligned(slot - t.base)
      BY <1>3, <1>4
    <3> QED
      BY <3>2, <3>3, <3>4 DEF Slots, Aligned
  <2>3. Current' = t
    BY <1>a, <1>2, <2>1 DEF Current
  <2>4. \A s \in Nat : swbase <= s /\ Aligned(s - swbase) => (s < slot + Entry <=> s < slot \/ s = slot)
    <3> SUFFICES ASSUME NEW s \in Nat, swbase <= s, Aligned(s - swbase), s < slot + Entry, slot < s
                 PROVE  FALSE
      BY <1>2, <1>3
    <3>1. s - swbase \in Nat /\ slot - swbase \in Nat /\ slot - swbase < s - swbase
      BY <1>3, <1>4
    <3>2. (slot - swbase) + Entry <= s - swbase
      BY <1>3, <3>1, Multiples
    <3> QED
      BY <1>2, <1>3, <1>4, <3>2
  <2>5. Written(t)' = Written(t) \cup {slot}
    <3>1. Written(t)' = {s \in Slots(t) : s < slot + Entry}
      BY <1>1, <1>2, <1>6, <1>7, <2>1, <2>3, SameInput DEF Written
    <3> QED
      BY <1>7, <1>9, <2>2, <2>4, <3>1
  <2>6. \A u \in Tables : u # t => Written(u)' = Written(u)
    BY <1>1, <1>2, <1>6, <1>a, <2>1, <2>3, SameInput DEF Written
  <2>7. CellsAre(cells, AllWritten)'
    <3> QED
      BY <1>1, <1>2, <1>3, <1>4, <1>8, <2>1, <2>2, <2>5, <2>6, SlotWritten
  <2>8. FollowOK'
    <3>1. /\ slot' \in Nat /\ swbase < slot' /\ slot' - swbase = (slot - swbase) + Entry
          /\ slot - swbase \in Nat
      BY <1>2, <1>3, <1>4, <2>1
    <3>2. Aligned(slot' - swbase)
      BY <1>3, <3>1, Multiples
    <3>3. \A s \in swbase..(slot' - 1) : Aligned(s - swbase) => s \in Slots(t)
      <4> SUFFICES ASSUME NEW s \in swbase..(slot' - 1), Aligned(s - swbase) PROVE s \in Slots(t)
        OBVIOUS
      <4>1. s \in Nat /\ swbase <= s /\ s < slot + Entry
        BY <1>2, <1>3, <1>4, <2>1
      <4>2. s < slot \/ s = slot
        BY <2>4, <4>1
      <4>3. s < slot => s \in swbase..(slot - 1)
        BY <1>3, <1>4, <4>1
      <4> QED
        BY <1>3, <2>2, <4>2, <4>3
    <3> QED
      BY <1>1, <1>2, <1>3, <2>1, <2>3, <3>1, <3>2, <3>3, SameInput DEF FollowOK, Aligned
  <2> QED
    BY <1>5, <2>7, <2>8
<1>11. CASE ~More
  <2>1. swbase' = 0 /\ cells' = cells
    BY <1>2, <1>11
  <2>2. ASSUME NEW s \in Slots(t) PROVE s < slot
    <3> SUFFICES ASSUME slot <= s PROVE FALSE
      BY <1>3, <1>9
    <3>1. slot \in t.base..s /\ Aligned(slot - t.base) /\ slot # t.base
      BY <1>3, <1>4, <1>9
    <3>2. slot \in Slots(t)
      BY <1>2, <1>3, <3>1, SlotFacts
    <3>3. slot < End
      BY <1>2, <1>3, <3>2, SlotFacts DEF Places
    <3>4. ~Blocked(slot)
      BY <1>2, <1>3, <3>1, <3>2, SlotFacts DEF Blocked
    <3>5. IsEntry(fn, slot, swbase)
      BY <1>2, <1>3, <1>4, <1>8, <3>2, WrittenSlots, EntryTest
    <3> QED
      BY <1>11, <3>3, <3>4, <3>5
  <2>3. Written(t)' = Written(t)
    BY <1>1, <1>6, <1>7, <2>1, <2>2, SameInput DEF Written
  <2>4. \A u \in Tables : u # t => Written(u)' = Written(u)
    BY <1>1, <1>6, <1>a, <2>1, SameInput DEF Written
  <2>5. FollowOK'
    BY <2>1 DEF FollowOK
  <2> QED
    BY <1>1, <1>2, <1>5, <2>1, <2>3, <2>4, <2>5, NothingWritten
<1> QED
  BY <1>10, <1>11

\* No step leaves the invariant.
LEMMA TablesInductive == ASSUME TablesInv, [Next]_vars PROVE TablesInv'
<1>1. CASE UNCHANGED vars
  <2>1. input' = input /\ cells' = cells /\ UNCHANGED <<left, fn, bases, swbase, slot>>
    BY <1>1 DEF vars
  <2>2. \A u \in Tables : Written(u)' = Written(u)
    BY <2>1, SameInput DEF Written, Tried, Current
  <2>3. Sound => BasesOK' /\ FollowOK'
    BY <2>1, SameInput DEF TablesInv, BasesOK, FollowOK, Current, Aligned
  <2> QED
    BY <2>1, <2>2, <2>3, SameInput, NothingWritten DEF TablesInv
<1> QED
  BY <1>1, NextFunctionKeeps, TryBaseKeeps, FollowKeeps DEF Next

\* When every base was tried, every slot is written.
LEMMA TablesInvImplies == TablesInv => RewritesTables
<1> SUFFICES ASSUME TablesInv, Done, Sound, NEW a \in Places
             PROVE  LET own == {t \in Tables : a \in Slots(t)}
                        in  == {t \in Tables : \E s \in Slots(t) : a \in Word(s)}
                    IN cells[a] =
                         [byte |-> Byte(a),
                          label |-> IF own = {} THEN NoLabel
                                    ELSE LET b == (CHOOSE t \in own : TRUE).base
                                         IN <<(Distance(a) + b) % Radix^Entry, b>>,
                          sz |-> IF own = {} THEN 1 ELSE Entry,
                          ignored |-> own = {} /\ in # {}]
  BY DEF RewritesTables
<1> DEFINE own == {t \in Tables : a \in Slots(t)}
           in  == {t \in Tables : \E s \in Slots(t) : a \in Word(s)}
<1>1. CellsAre(cells, AllWritten) /\ left = {} /\ bases = {} /\ swbase = 0
  BY DEF Done, TablesInv
<1>2. \A t \in Tables : AllWritten[t] = Slots(t)
  BY <1>1 DEF AllWritten, Written, Tried
<1>3. CASE own = {}
  <2>1. cells[a] = Unlabelled(a, \E t \in Tables : \E s \in AllWritten[t] : a \in Word(s))
    BY <1>1, <1>2, <1>3 DEF CellsAre
  <2>2. (\E t \in Tables : \E s \in AllWritten[t] : a \in Word(s)) <=> in # {}
    BY <1>2
  <2> HIDE DEF own, in
  <2>3. cells[a] = Unlabelled(a, own = {} /\ in # {})
    BY <1>3, <2>1, <2>2
  <2>4. cells[a] = [byte |-> Byte(a), label |-> NoLabel, sz |-> 1, ignored |-> own = {} /\ in # {}]
    BY <2>3 DEF Unlabelled
  <2> QED
    BY <1>3, <2>4 DEF own, in
<1>4. CASE own # {}
  <2> DEFINE c == CHOOSE t \in own : TRUE
  <2>1. c \in own
    BY <1>4
  <2> HIDE DEF c
  <2>2. cells[a] = Labelled(a, c.base)
    BY <1>1, <1>2, <2>1 DEF CellsAre
  <2>3. (own = {} /\ in # {}) = FALSE
    BY <1>4
  <2> HIDE DEF own, in
  <2>4. cells[a] = [byte |-> Byte(a), label |-> <<(Distance(a) + c.base) % Radix^Entry, c.base>>,
                    sz |-> Entry, ignored |-> own = {} /\ in # {}]
    BY <2>2, <2>3, Zenon DEF Labelled
  <2> QED
    BY <1>4, <2>4, Zenon DEF own, in, c
<1> QED
  BY <1>3, <1>4

\* For any code and any section that the heuristic is sound for: once every function is
\* followed, each entry is rewritten against the base of its own table, and no other
\* byte is (rw.py lines 599-635).
THEOREM TablesRewritten == Spec => []RewritesTables
<1>1. TablesInv /\ [Next]_vars => TablesInv'
  BY TablesInductive
<1> QED
  BY InitTables, <1>1, TablesInvImplies, PTL DEF Spec

-----------------------------------------------------------------------------
(***************************************************************************)
(* The analysis cache and the analysis stage of the commands: a function   *)
(* is never instrumented with the registers of other code, and none is     *)
(* left without registers.                                                 *)
(*                                                                         *)
(* The invariant follows the registers on their three ways: every entry of *)
(* a cache was written by some command for that output (CacheOrigin); the  *)
(* names of kernel functions tell them apart (NamesIdentify, from the      *)
(* shape of the names, NameShape); and what the tool was given and what it *)
(* returned is by name the code of the function of that name (ToolOrigin). *)
(***************************************************************************)

\* Where a command is in, given which of the two ways it takes.
WayOK ==
  /\ pc \in {"load_cache", "open_cache", "write_cache"} => Cmd.cache /\ ~Cmd.kernel
  /\ pc = "analyze" => ~Cmd.kernel
  /\ pc \in {"dump_cf", "tool", "attach"} => Cmd.kernel

CacheOrigin ==
  \A o \in Outfiles : \A s \in DOMAIN disk[o].entries :
    \E k \in 1..Len(given) : /\ given[k].cache /\ ~given[k].kernel /\ given[k].out = o
                             /\ disk[o].entries[s] = <<given[k].bin, s>>
WrittenKnown == pc = "write_cache" => DOMAIN Cache.entries \subseteq DOMAIN analysis

NameShape ==
  Cmd.kernel => \A f \in functions :
    f.size > 0 /\ \E x : f.name = <<x>> \/ f.name = <<x, f.start>>
NamesIdentify ==
  Cmd.kernel => \A f, g \in functions : f.name = g.name => f = g

ToolOrigin ==
  pc \in {"tool", "attach"} =>
    /\ \A nm \in DOMAIN cf : \E f \in functions : f.name = nm /\ cf[nm] = Own(f.start)
    /\ \A nm \in sent : results[nm] = cf[nm]

\* Nothing was sent before the tool ran.
SentEarly == pc \notin Ended \cup {"tool", "attach", "instrument"} => sent = {}

IInv == /\ TypeOK /\ WayOK /\ CacheOrigin /\ WrittenKnown
        /\ NameShape /\ NamesIdentify /\ ToolOrigin /\ SentEarly /\ OwnRegisters
-----------------------------------------------------------------------------
\* Names are tuples; their length tells a renamed function from the others.
LEMMA NameTuples ==
  /\ \A x, y : <<x>> = <<y>> => x = y
  /\ \A x, y, s : <<x>> # <<y, s>>
  /\ \A x, y, s, r : <<x, s>> = <<y, r>> => s = r
<1>1. \A x, y, s : <<x>> # <<y, s>>
  <2>1. \A x, y, s : Len(<<x>>) = 1 /\ Len(<<y, s>>) = 2
    OBVIOUS
  <2>2. QED BY <2>1
<1>2. QED BY <1>1

LEMMA CmdType == TypeOK => /\ Cmd \in Commands /\ Cmd.out \in Outfiles
                           /\ Cmd.bin \in DOMAIN Symbols /\ Len(given) \in Nat \ {0}
BY CommandsAssumption DEF TypeOK, Cmd

LEMMA EmptyMap == IsMap(NoMap) /\ DOMAIN NoMap = {}
BY DEF IsMap, NoMap

LEMMA InitIInv == StageInit => IInv
<1> SUFFICES ASSUME StageInit PROVE IInv
  OBVIOUS
<1>1. PICK c \in Commands : given = <<c>>
  BY DEF StageInit
<1>2. given \in Seq(Commands) \ {<<>>} /\ Len(given) = 1 /\ Cmd = c
  BY <1>1 DEF Cmd
<1>3. TypeOK
  <2>1. c.bin \in DOMAIN Symbols
    BY CommandsAssumption
  <2>2. loaded \in 0..Len(Symbols[Cmd.bin])
    BY <1>2, <2>1, SymbolsAssumption DEF StageInit
  <2>3. \A o \in Outfiles : disk[o] = NoCache
    BY DEF StageInit
  <2>4. NoCache.state = "none" /\ NoCache.entries = NoMap
    BY DEF NoCache
  <2>5. DOMAIN disk = Outfiles
    BY DEF StageInit
  <2>6. QED BY <1>2, <2>2, <2>3, <2>4, <2>5, EmptyMap DEF StageInit, TypeOK
<1>4. /\ WayOK /\ CacheOrigin /\ WrittenKnown /\ NameShape /\ NamesIdentify
      /\ ToolOrigin /\ SentEarly /\ OwnRegisters
  BY EmptyMap DEF StageInit, SentEarly, WayOK, CacheOrigin, WrittenKnown, NameShape, NamesIdentify, ToolOrigin,
         OwnRegisters, NoCache
<1>5. QED BY <1>3, <1>4 DEF IInv
-----------------------------------------------------------------------------
\* A step that only moves on, where a piece of the invariant allows it.
LEMMA MovingOn ==
  ASSUME IInv, UNCHANGED <<disk, given, container, analysis, tool>>,
         pc' \in Ended \cup {"load_cache", "analyze", "dump_cf", "attach", "instrument", pc},
         WayOK', pc' = "attach" => pc \in {"tool", "attach"}, SentEarly'
  PROVE  IInv'
<1>1. /\ Cmd' = Cmd /\ Cache' = Cache /\ \A s : Own(s)' = Own(s)
      /\ \A b : StaleFrom(b)' = StaleFrom(b)
  BY DEF Cmd, Cache, Own, StaleFrom
<1>2. TypeOK'
  BY <1>1 DEF IInv, TypeOK, container, tool, Ended, IsMap, Codes
<1>3. CacheOrigin' /\ OwnRegisters'
  BY <1>1 DEF IInv, CacheOrigin, OwnRegisters
<1>4. WrittenKnown' /\ NameShape' /\ NamesIdentify'
  BY <1>1 DEF IInv, WrittenKnown, NameShape, NamesIdentify, container, Ended
<1>5. ToolOrigin'
  BY <1>1 DEF IInv, ToolOrigin, container, tool, Ended
<1>6. QED BY <1>2, <1>3, <1>4, <1>5 DEF IInv

LEMMA MovesOn ==
  IInv /\ (Interrupt \/ Loaded \/ (\E nm : Panic(nm)) \/ Encode \/ Instrument \/ UNCHANGED stageVars)
    => IInv'
<1> SUFFICES ASSUME IInv PROVE (Interrupt \/ Loaded \/ (\E nm : Panic(nm)) \/ Encode
                                  \/ Instrument \/ UNCHANGED stageVars) => IInv'
  OBVIOUS
<1>a. ASSUME given' = given PROVE Cmd' = Cmd
  BY <1>a DEF Cmd
<1>1. CASE Interrupt \/ Instrument \/ \E nm : Panic(nm)
  <2>1. pc' \in Ended
    BY <1>1 DEF Interrupt, Instrument, Panic, Ended
  <2>2. WayOK'
    BY <2>1 DEF WayOK, Ended
  <2>3. UNCHANGED <<disk, given, container, analysis, tool>>
    BY <1>1 DEF Interrupt, Instrument, Panic
  <2>4. SentEarly'
    BY <2>1 DEF SentEarly
  <2>5. QED BY <2>1, <2>2, <2>3, <2>4, MovingOn DEF Ended
<1>2. CASE Loaded
  <2>1. WayOK'
    BY <1>2, <1>a DEF Loaded, WayOK
  <2>2. SentEarly'
    BY <1>2 DEF Loaded, IInv, SentEarly, Ended, tool
  <2>3. QED BY <1>2, <2>1, <2>2, MovingOn DEF Loaded
<1>3. CASE Encode
  <2>1. WayOK'
    BY <1>3, <1>a DEF Encode, IInv, WayOK
  <2>2. SentEarly'
    BY <1>3 DEF Encode, IInv, SentEarly, Ended, tool
  <2>3. QED BY <1>3, <2>1, <2>2, MovingOn DEF Encode
<1>4. CASE UNCHANGED stageVars
  <2>1. WayOK'
    BY <1>4, <1>a DEF stageVars, IInv, WayOK
  <2>2. SentEarly'
    BY <1>4 DEF stageVars, IInv, SentEarly
  <2>3. QED BY <1>4, <2>1, <2>2, MovingOn DEF stageVars, container, tool
<1>5. QED BY <1>1, <1>2, <1>3, <1>4

LEMMA NewCommand == IInv /\ NextCommand => IInv'
<1> SUFFICES ASSUME IInv, NextCommand PROVE IInv'
  OBVIOUS
<1>1. PICK c \in Commands : given' = Append(given, c)
  BY DEF NextCommand
<1>2. /\ given' \in Seq(Commands) \ {<<>>} /\ Len(given') = Len(given) + 1
      /\ Cmd' = c /\ \A k \in 1..Len(given) : given'[k] = given[k]
  BY <1>1 DEF IInv, TypeOK, Cmd
<1>3. TypeOK'
  <2>1. c.bin \in DOMAIN Symbols
    BY CommandsAssumption
  <2>2. loaded' \in 0..Len(Symbols[Cmd'.bin])
    BY <1>2, <2>1, SymbolsAssumption DEF NextCommand
  <2>3. IsMap(analysis') /\ IsMap(cf') /\ IsMap(results') /\ DOMAIN results' = {}
    BY EmptyMap DEF NextCommand
  <2>4. \A o \in Outfiles : disk'[o] = disk[o]
    BY DEF NextCommand
  <2>5. QED BY <1>2, <2>2, <2>3, <2>4 DEF NextCommand, IInv, TypeOK, IsMap, Codes
<1>4. CacheOrigin'
  <2>1. Len(given) \in Nat
    BY DEF IInv, TypeOK
  <2>2. QED BY <1>2, <2>1 DEF NextCommand, IInv, CacheOrigin
<1>5. /\ WayOK' /\ WrittenKnown' /\ NameShape' /\ NamesIdentify' /\ ToolOrigin' /\ OwnRegisters'
      /\ SentEarly'
  BY EmptyMap DEF NextCommand, SentEarly, WayOK, WrittenKnown, NameShape, NamesIdentify, ToolOrigin,
                  OwnRegisters
<1>6. QED BY <1>3, <1>4, <1>5 DEF IInv
-----------------------------------------------------------------------------
LEMMA Element == ASSUME NEW S, NEW q \in Seq(S), NEW i \in 1..Len(q) PROVE q[i] \in S
OBVIOUS

\* A renamed function cannot meet its name again: the other one would start at
\* the same address and be in its way.
LEMMA FunctionAdded == IInv /\ AddFunction => IInv'
<1> SUFFICES ASSUME IInv, AddFunction PROVE IInv'
  OBVIOUS
<1> DEFINE sym == Symbols[Cmd.bin][loaded + 1]
           new == [sym EXCEPT !.name = NameOf(sym)]
<1>1. UNCHANGED <<disk, given, pc, analysis, tool>> /\ pc = "load" /\ Cmd' = Cmd
  BY DEF AddFunction, Cmd
<1>2. /\ sym \in [name : STRING, start : Nat, size : Nat]
      /\ loaded + 1 \in 0..Len(Symbols[Cmd.bin])
  <2>1. Symbols[Cmd.bin] \in Seq([name : STRING, start : Nat, size : Nat])
    BY CmdType, SymbolsAssumption DEF IInv
  <2>2. loaded \in Nat /\ loaded < Len(Symbols[Cmd.bin]) /\ Len(Symbols[Cmd.bin]) \in Nat
    BY <2>1 DEF IInv, TypeOK, AddFunction
  <2>3. loaded + 1 \in 1..Len(Symbols[Cmd.bin])
    BY <2>2
  <2>4. sym \in [name : STRING, start : Nat, size : Nat]
    BY <2>1, <2>3, Element
  <2>5. QED BY <2>2, <2>3, <2>4
<1>3. new.start = sym.start /\ new.size = sym.size /\ new.name = NameOf(sym)
  BY <1>2
<1>4. functions' \subseteq functions \cup {new} /\ names' = names \cup {new.name}
  BY DEF AddFunction
<1>5. TypeOK'
  <2>1. new.start \in Nat /\ new.size \in Nat /\ new.name \in names'
    BY <1>2, <1>3, <1>4
  <2>2. \A f \in functions' : f.start \in Nat /\ f.size \in Nat /\ f.name \in names'
    BY <1>4, <2>1 DEF IInv, TypeOK
  <2>3. loaded' = loaded + 1
    BY DEF AddFunction
  <2>4. QED BY <1>1, <1>2, <2>2, <2>3 DEF IInv, TypeOK, tool, IsMap, Codes
<1>6. NameShape' /\ NamesIdentify'
  <2> SUFFICES ASSUME Cmd.kernel PROVE NameShape' /\ NamesIdentify'
    BY <1>1 DEF NameShape, NamesIdentify
  <2>1. CASE functions' = functions
    BY <1>1, <2>1 DEF IInv, NameShape, NamesIdentify
  <2>2. CASE functions' # functions
    <3>1. /\ functions' = functions \cup {new} /\ new.size # 0
          /\ \A f \in functions : ~Overlaps(f, new)
      BY <2>2 DEF AddFunction
    <3>2. new.size > 0
      BY <3>1, <1>2, <1>3
    <3>3. \E x : new.name = <<x>> \/ new.name = <<x, new.start>>
      BY <1>3 DEF NameOf
    <3>4. ASSUME NEW f \in functions PROVE f.name # new.name
      <4>1. f.name \in names /\ f.start \in Nat /\ f.size \in Nat /\ f.size > 0
        BY <1>1, <3>4 DEF IInv, TypeOK, NameShape
      <4>2. f.start # new.start
        BY <3>1, <3>2, <4>1, <1>2, <1>3 DEF Overlaps
      <4>3. CASE <<sym.name>> \notin names
        BY <4>1, <4>3, <1>3 DEF NameOf
      <4>4. CASE <<sym.name>> \in names
        <5>1. new.name = <<sym.name, new.start>>
          BY <4>4, <1>3 DEF NameOf
        <5>2. PICK x : f.name = <<x>> \/ f.name = <<x, f.start>>
          BY <3>4 DEF IInv, NameShape
        <5>3. QED BY <5>1, <5>2, <4>2, NameTuples
      <4>5. QED BY <4>3, <4>4
    <3>5. NameShape'
      BY <1>1, <3>1, <3>2, <3>3 DEF IInv, NameShape
    <3>6. NamesIdentify'
      BY <1>1, <3>1, <3>4 DEF IInv, NamesIdentify
    <3>7. QED BY <3>5, <3>6
  <2>3. QED BY <2>1, <2>2
<1>7. CacheOrigin' /\ OwnRegisters'
  BY <1>1 DEF IInv, CacheOrigin, OwnRegisters, Own, StaleFrom
<1>8. WayOK' /\ WrittenKnown' /\ ToolOrigin' /\ SentEarly'
  BY <1>1 DEF IInv, WayOK, WrittenKnown, ToolOrigin, SentEarly, tool
<1>9. QED BY <1>5, <1>6, <1>7, <1>8 DEF IInv
-----------------------------------------------------------------------------
(* User space.                                                             *)

\* What a cache holds belongs to this command or to an earlier one for its output.
LEMMA CacheOwnOrStale ==
  ASSUME IInv, Cmd.cache, ~Cmd.kernel, NEW s \in DOMAIN Cache.entries
  PROVE  \/ Cache.entries[s] = Own(s)
         \/ \E b \in DOMAIN Symbols : Cache.entries[s] = <<b, s>> /\ StaleFrom(b)
<1>1. PICK k \in 1..Len(given) : /\ given[k].cache /\ ~given[k].kernel
                                 /\ given[k].out = Cmd.out
                                 /\ Cache.entries[s] = <<given[k].bin, s>>
  BY CmdType DEF IInv, CacheOrigin, Cache
<1>2. given \in Seq(Commands) /\ Len(given) \in Nat
  BY DEF IInv, TypeOK
<1>3. given[k].bin \in DOMAIN Symbols
  BY <1>2, Element, CommandsAssumption
<1>4. CASE k = Len(given)
  BY <1>1, <1>4 DEF Own, Cmd
<1>5. CASE k # Len(given)
  <2>1. k \in 1..(Len(given) - 1)
    BY <1>2, <1>5
  <2>2. StaleFrom(given[k].bin)
    BY <1>1, <2>1 DEF StaleFrom
  <2>3. QED BY <1>1, <1>3, <2>2
<1>6. QED BY <1>4, <1>5

LEMMA Loads == IInv /\ LoadCache => IInv'
<1> SUFFICES ASSUME IInv, LoadCache PROVE IInv'
  OBVIOUS
<1>1. /\ UNCHANGED <<disk, given, container, tool>> /\ pc = "load_cache"
      /\ pc' \in {"analyze", "failed", "instrument"} /\ Cmd' = Cmd
      /\ analysis' = analysis \/ analysis' = Cache.entries
  BY DEF LoadCache, Cmd
<1>2. Cmd.cache /\ ~Cmd.kernel
  BY <1>1 DEF IInv, WayOK
<1>3. IsMap(analysis')
  BY <1>1, CmdType DEF IInv, TypeOK, Cache
<1>4. TypeOK'
  BY <1>1, <1>3 DEF IInv, TypeOK, container, tool, IsMap, Codes, Ended
<1>5. OwnRegisters'
  <2>1. (\A s : Own(s)' = Own(s)) /\ \A b : StaleFrom(b)' = StaleFrom(b)
    BY <1>1 DEF Own, StaleFrom
  <2>2. CASE analysis' = analysis
    BY <1>1, <2>1, <2>2 DEF IInv, OwnRegisters
  <2>3. CASE analysis' = Cache.entries
    BY <1>1, <1>2, <2>1, <2>3, CacheOwnOrStale DEF OwnRegisters
  <2>4. QED BY <1>1, <2>2, <2>3
<1>6. /\ WayOK' /\ WrittenKnown' /\ ToolOrigin' /\ CacheOrigin' /\ NameShape' /\ NamesIdentify'
      /\ SentEarly'
  BY <1>1, <1>2 DEF IInv, SentEarly, Ended, tool, WayOK, WrittenKnown, ToolOrigin, CacheOrigin, NameShape,
                    NamesIdentify, container
<1>7. QED BY <1>4, <1>5, <1>6 DEF IInv

LEMMA Analyzes == IInv /\ Analyze => IInv'
<1> SUFFICES ASSUME IInv, Analyze PROVE IInv'
  OBVIOUS
<1>1. /\ UNCHANGED <<disk, given, container, tool>> /\ pc = "analyze" /\ Cmd' = Cmd
      /\ analysis' = [s \in Starts |-> Own(s)]
      /\ pc' = IF Cmd.cache THEN "open_cache" ELSE "instrument"
  BY DEF Analyze, Cmd
<1>2. IsMap(analysis')
  BY <1>1, CmdType DEF IInv, TypeOK, IsMap, Codes, Starts, Own
<1>3. TypeOK'
  BY <1>1, <1>2 DEF IInv, TypeOK, container, tool, IsMap, Codes, Ended
<1>4. OwnRegisters'
  BY <1>1 DEF OwnRegisters, Own
<1>5. /\ WayOK' /\ WrittenKnown' /\ ToolOrigin' /\ CacheOrigin' /\ NameShape' /\ NamesIdentify'
      /\ SentEarly'
  BY <1>1 DEF IInv, SentEarly, Ended, tool, WayOK, WrittenKnown, ToolOrigin, CacheOrigin, NameShape,
              NamesIdentify, container
<1>6. QED BY <1>3, <1>4, <1>5 DEF IInv

\* A step that writes entries of the analysis, or the entries there are.
LEMMA Saves ==
  ASSUME IInv, NEW state \in {"partial", "complete"}, NEW written, SetCache(state, written),
         DOMAIN written \subseteq DOMAIN analysis, IsMap(written),
         \A s \in DOMAIN written : \/ written[s] = analysis[s]
                                   \/ s \in DOMAIN Cache.entries /\ written[s] = Cache.entries[s],
         Cmd.cache, ~Cmd.kernel, UNCHANGED <<given, container, analysis, tool>>,
         pc' \in {"write_cache", "instrument"}, pc \in {"open_cache", "write_cache"}
  PROVE  IInv'
<1>1. /\ Cmd' = Cmd /\ Cmd \in Commands /\ Cmd.out \in Outfiles
      /\ DOMAIN disk = Outfiles /\ DOMAIN disk' = Outfiles
      /\ disk'[Cmd.out] = [state |-> state, entries |-> written]
      /\ \A o \in Outfiles : o # Cmd.out => disk'[o] = disk[o]
  BY CmdType DEF IInv, TypeOK, SetCache, Cmd
<1>2. disk'[Cmd.out].state = state /\ disk'[Cmd.out].entries = written
  BY <1>1
<1>3. TypeOK'
  <2>1. \A o \in Outfiles : /\ disk'[o].state \in {"none", "partial", "complete"}
                            /\ IsMap(disk'[o].entries)
    BY <1>1, <1>2 DEF IInv, TypeOK
  <2>2. QED BY <1>1, <2>1 DEF IInv, TypeOK, container, tool, IsMap, Codes
<1>4. CacheOrigin'
  <2>1. Len(given) \in Nat \ {0} /\ given' = given
    BY CmdType DEF IInv
  <2>2. ASSUME NEW s \in DOMAIN written
        PROVE  \E k \in 1..Len(given) : /\ given[k].cache /\ ~given[k].kernel
                                        /\ given[k].out = Cmd.out
                                        /\ written[s] = <<given[k].bin, s>>
    <3>1. CASE written[s] = analysis[s] /\ analysis[s] = Own(s)
      BY <2>1, <3>1 DEF Own, Cmd
    <3>2. CASE written[s] = analysis[s] /\ \E b : analysis[s] = <<b, s>> /\ StaleFrom(b)
      BY <2>1, <3>2 DEF StaleFrom
    <3>3. CASE s \in DOMAIN Cache.entries /\ written[s] = Cache.entries[s]
      BY <1>1, <3>3 DEF IInv, CacheOrigin, Cache
    <3>4. QED BY <3>1, <3>2, <3>3 DEF IInv, OwnRegisters
  <2>3. QED BY <1>1, <1>2, <2>1, <2>2 DEF IInv, CacheOrigin
<1>5. WrittenKnown'
  BY <1>1, <1>2 DEF WrittenKnown, Cache
<1>6. OwnRegisters'
  BY <1>1 DEF IInv, OwnRegisters, Own, StaleFrom
<1>7. WayOK' /\ ToolOrigin' /\ NameShape' /\ NamesIdentify' /\ SentEarly'
  BY <1>1 DEF IInv, SentEarly, Ended, tool, WayOK, ToolOrigin, NameShape, NamesIdentify, container
<1>8. QED BY <1>3, <1>4, <1>5, <1>6, <1>7 DEF IInv

LEMMA WritesCache == IInv /\ (OpenCache \/ WriteCache) => IInv'
<1> SUFFICES ASSUME IInv, OpenCache \/ WriteCache PROVE IInv'
  OBVIOUS
<1>1. /\ Cmd.cache /\ ~Cmd.kernel /\ UNCHANGED <<given, container, analysis, tool>>
      /\ pc' \in {"write_cache", "instrument"} /\ pc \in {"open_cache", "write_cache"}
  BY DEF OpenCache, WriteCache, IInv, WayOK
<1>2. CASE OpenCache
  BY <1>1, <1>2, EmptyMap, Saves DEF OpenCache
<1>3. CASE WriteCache
  <2>1. /\ DOMAIN Cache.entries \subseteq DOMAIN analysis
        /\ IsMap(Cache.entries) /\ IsMap(analysis)
    BY <1>3, CmdType DEF WriteCache, IInv, WrittenKnown, TypeOK, Cache
  <2>2. CASE SetCache("complete", Cache.entries)
    BY <1>1, <2>1, <2>2, Saves
  <2>3. ASSUME NEW s \in DOMAIN analysis,
               SetCache("partial", [x \in DOMAIN Cache.entries \cup {s} |-> analysis[x]])
        PROVE  IInv'
    <3> DEFINE new == [x \in DOMAIN Cache.entries \cup {s} |-> analysis[x]]
    <3>1. IsMap(new) /\ DOMAIN new \subseteq DOMAIN analysis
      BY <2>1 DEF IsMap
    <3>2. \A x \in DOMAIN new : new[x] = analysis[x]
      OBVIOUS
    <3>3. SetCache("partial", new)
      BY <2>3
    <3> HIDE DEF new
    <3>4. QED BY <1>1, <3>1, <3>2, <3>3, Saves
  <2>4. QED BY <1>3, <2>2, <2>3 DEF WriteCache
<1>4. QED BY <1>2, <1>3
-----------------------------------------------------------------------------
(* Kernel.                                                                 *)

LEMMA Dumps == IInv /\ DumpCf => IInv'
<1> SUFFICES ASSUME IInv, DumpCf PROVE IInv'
  OBVIOUS
<1> DEFINE named == {f.name : f \in functions}
<1>1. PICK last \in [named -> functions] :
        /\ \A nm \in named : last[nm].name = nm
        /\ cf' = [nm \in named |-> Own(last[nm].start)]
  BY DEF DumpCf
<1>2. /\ UNCHANGED <<disk, given, container, analysis, sent, results>>
      /\ pc = "dump_cf" /\ pc' = "tool" /\ Cmd' = Cmd
  BY DEF DumpCf, Cmd
<1>3. sent = {} /\ sent' = {}
  BY <1>2 DEF IInv, SentEarly, Ended
<1>4. TypeOK'
  <2>1. \A nm \in named : last[nm] \in functions /\ last[nm].start \in Nat
    BY <1>1 DEF IInv, TypeOK
  <2>2. IsMap(cf')
    BY <1>1, <2>1, CmdType DEF IInv, IsMap, Codes, Own
  <2>3. QED BY <1>2, <2>2, <1>3 DEF IInv, TypeOK, container, IsMap, Codes
<1>5. ToolOrigin'
  <2>1. \A nm \in DOMAIN cf' : last[nm] \in functions /\ last[nm].name = nm
                             /\ cf'[nm] = Own(last[nm].start)
    BY <1>1
  <2>2. functions' = functions /\ \A s : Own(s)' = Own(s)
    BY <1>2 DEF container, Own
  <2>3. \A nm \in DOMAIN cf' : \E f \in functions : f.name = nm /\ cf'[nm] = Own(f.start)
    BY <2>1
  <2>4. QED BY <1>3, <2>2, <2>3 DEF ToolOrigin, Own
<1>6. OwnRegisters' /\ CacheOrigin'
  BY <1>2 DEF IInv, OwnRegisters, CacheOrigin, Own, StaleFrom
<1>7. WayOK' /\ WrittenKnown' /\ NameShape' /\ NamesIdentify' /\ SentEarly'
  BY <1>2 DEF IInv, WayOK, WrittenKnown, NameShape, NamesIdentify, SentEarly, container
<1>8. QED BY <1>4, <1>5, <1>6, <1>7 DEF IInv

LEMMA Receives == ASSUME NEW nm PROVE IInv /\ Receive(nm) => IInv'
<1> SUFFICES ASSUME IInv, Receive(nm) PROVE IInv'
  OBVIOUS
<1>1. /\ UNCHANGED <<disk, given, pc, container, analysis, cf>>
      /\ pc = "tool" /\ Cmd' = Cmd /\ nm \in DOMAIN cf /\ sent' = sent \cup {nm}
      /\ results' = [x \in DOMAIN results \cup {nm} |-> IF x = nm THEN cf[nm] ELSE results[x]]
  BY DEF Receive, Collected, Cmd
<1>2. TypeOK'
  <2>1. IsMap(results')
    BY <1>1 DEF IInv, TypeOK, IsMap
  <2>2. QED BY <1>1, <2>1 DEF IInv, TypeOK, container, IsMap, Codes
<1>3. ToolOrigin'
  BY <1>1 DEF IInv, TypeOK, ToolOrigin, container, Own
<1>4. OwnRegisters' /\ CacheOrigin'
  BY <1>1 DEF IInv, OwnRegisters, CacheOrigin, Own, StaleFrom
<1>5. WayOK' /\ WrittenKnown' /\ NameShape' /\ NamesIdentify' /\ SentEarly'
  BY <1>1 DEF IInv, WayOK, WrittenKnown, NameShape, NamesIdentify, SentEarly, container
<1>6. QED BY <1>2, <1>3, <1>4, <1>5 DEF IInv

LEMMA Attaches == IInv /\ Attach => IInv'
<1> SUFFICES ASSUME IInv, Attach PROVE IInv'
  OBVIOUS
<1>1. PICK owner \in [DOMAIN results -> functions] :
        /\ \A nm \in DOMAIN results : owner[nm].name = nm
        /\ analysis' = [s \in {f.start : f \in Range(owner)} |->
                          results[CHOOSE nm \in DOMAIN results : owner[nm].start = s]]
  BY DEF Attach
<1>2. /\ UNCHANGED <<disk, given, container, tool>>
      /\ pc = "attach" /\ pc' = "instrument" /\ Cmd' = Cmd /\ Cmd.kernel
  BY DEF Attach, Cmd, IInv, WayOK
<1>3. ASSUME NEW nm \in DOMAIN results PROVE results[nm] = Own(owner[nm].start)
  <2>1. nm \in sent /\ nm \in DOMAIN cf /\ results[nm] = cf[nm]
    BY <1>2 DEF IInv, TypeOK, ToolOrigin
  <2>2. PICK f \in functions : f.name = nm /\ cf[nm] = Own(f.start)
    BY <1>2, <2>1 DEF IInv, ToolOrigin
  <2>3. f = owner[nm]
    BY <1>1, <1>2, <2>2 DEF IInv, NamesIdentify
  <2>4. QED BY <2>1, <2>2, <2>3
<1>4. ASSUME NEW s \in DOMAIN analysis' PROVE analysis'[s] = Own(s) /\ s \in Nat
  <2>1. s \in {f.start : f \in Range(owner)}
    BY <1>1
  <2>2. \E nm \in DOMAIN results : owner[nm].start = s
    BY <2>1 DEF Range
  <2>3. s \in Nat
    BY <1>1, <2>2 DEF IInv, TypeOK
  <2> DEFINE nm == CHOOSE x \in DOMAIN results : owner[x].start = s
  <2>4. nm \in DOMAIN results /\ owner[nm].start = s
    BY <2>2
  <2>5. analysis'[s] = results[nm]
    BY <1>1, <2>1
  <2>6. QED BY <1>3, <2>3, <2>4, <2>5
<1>5. TypeOK'
  <2>1. IsMap(analysis')
    <3>1. \A s \in DOMAIN analysis' : analysis'[s] \in Codes
      BY <1>4, CmdType DEF IInv, Own, Codes
    <3>2. analysis' = [s \in DOMAIN analysis' |-> analysis'[s]]
      BY <1>1
    <3>3. QED BY <3>1, <3>2 DEF IsMap
  <2>2. QED BY <1>2, <2>1 DEF IInv, TypeOK, container, tool, IsMap, Codes
<1>6. OwnRegisters'
  BY <1>2, <1>4 DEF OwnRegisters, Own
<1>7. CacheOrigin' /\ WayOK' /\ WrittenKnown' /\ NameShape' /\ NamesIdentify' /\ ToolOrigin'
      /\ SentEarly'
  BY <1>2 DEF IInv, CacheOrigin, WayOK, WrittenKnown, NameShape, NamesIdentify, ToolOrigin,
              SentEarly, container
<1>8. QED BY <1>5, <1>6, <1>7 DEF IInv

-----------------------------------------------------------------------------
THEOREM Invariance == StageSpec => []IInv
<1>1. IInv /\ [StageNext]_stageVars => IInv'
  <2> SUFFICES ASSUME IInv, [StageNext]_stageVars PROVE IInv'
    OBVIOUS
  <2>1. CASE Step
    <3>1. CASE AddFunction
      BY <3>1, FunctionAdded
    <3>2. CASE Loaded \/ Encode \/ Instrument
      BY <3>2, MovesOn
    <3>3. CASE LoadCache \/ Analyze \/ OpenCache \/ WriteCache
      BY <3>3, Loads, Analyzes, WritesCache
    <3>4. CASE DumpCf \/ Attach
      BY <3>4, Dumps, Attaches
    <3>5. ASSUME NEW nm \in DOMAIN cf, Receive(nm) \/ Panic(nm) PROVE IInv'
      BY <3>5, Receives, MovesOn
    <3>6. QED BY <2>1, <3>1, <3>2, <3>3, <3>4, <3>5 DEF Step
  <2>2. CASE NextCommand
    BY <2>2, NewCommand
  <2>3. CASE Interrupt \/ UNCHANGED stageVars
    BY <2>3, MovesOn
  <2>4. QED BY <2>1, <2>2, <2>3 DEF StageNext
<1>2. QED BY <1>1, InitIInv, PTL DEF StageSpec

\* The state stays well typed, for any binaries and commands.
THEOREM StageTypeCorrect == StageSpec => []TypeOK
<1>1. IInv => TypeOK
  BY DEF IInv
<1>2. QED BY <1>1, Invariance, PTL

\* Two functions of a kernel module never go by one name (add_function, lines
\* 78-90), so that results that come back by name find their function.
THEOREM NamesAreUnique == StageSpec => []NamesIdentify
<1>1. IInv => NamesIdentify
  BY DEF IInv
<1>2. QED BY <1>1, Invariance, PTL

\* No function ever has the registers of other code, unless the cache of its
\* output was written for another binary.
THEOREM RegistersAreOwn == StageSpec => []OwnRegisters
<1>1. IInv => OwnRegisters
  BY DEF IInv
<1>2. QED BY <1>1, Invariance, PTL
-----------------------------------------------------------------------------
(***************************************************************************)
(* No function lacks its registers.  The invariant follows which functions *)
(* there are, where the one above follows whose registers they have: all   *)
(* symbols are loaded before anything is analysed, a cache that is whole   *)
(* has an entry for every function of the command that wrote it, and the   *)
(* tool returns a result for every name.                                   *)
(***************************************************************************)
\* The start addresses of the first n symbols of a binary, and of all.
StartsTo(b, n) == {Symbols[b][i].start : i \in 1..n}
StartsOf(b)    == StartsTo(b, Len(Symbols[b]))

LoadedSoFar == ~Cmd.kernel => Starts = StartsTo(Cmd.bin, loaded)
LoadedAll   == pc \notin Ended \cup {"load"} => loaded = Len(Symbols[Cmd.bin])

CacheIsWhole ==
  \A o \in Outfiles : disk[o].state = "complete" =>
    \E k \in 1..Len(given) : /\ given[k].cache /\ ~given[k].kernel /\ given[k].out = o
                             /\ DOMAIN disk[o].entries = StartsOf(given[k].bin)
AllSaved == pc \in {"open_cache", "write_cache"} => DOMAIN analysis = Starts

NamesFinite == IsFiniteSet(names)
ToolGetsAll ==
  /\ pc \in {"tool", "attach"} => DOMAIN cf = {f.name : f \in functions}
  /\ pc = "attach" => sent = DOMAIN cf

EInv == /\ LoadedSoFar /\ LoadedAll /\ CacheIsWhole /\ AllSaved
        /\ NamesFinite /\ ToolGetsAll /\ EveryFunctionAnalysed

LEMMA StartsStep ==
  ASSUME NEW b, NEW n \in Nat
  PROVE  StartsTo(b, n + 1) = StartsTo(b, n) \cup {Symbols[b][n + 1].start}
<1>1. 1..(n + 1) = (1..n) \cup {n + 1}
  OBVIOUS
<1>2. QED BY <1>1 DEF StartsTo

LEMMA LoadedIsNat == IInv => loaded \in Nat /\ Len(Symbols[Cmd.bin]) \in Nat
BY CmdType, SymbolsAssumption DEF IInv, TypeOK

LEMMA InitEInv == StageInit => EInv
<1> SUFFICES ASSUME StageInit PROVE EInv
  OBVIOUS
<1>1. Starts = {} /\ StartsTo(Cmd.bin, loaded) = {}
  BY DEF StageInit, Starts, StartsTo
<1>2. \A o \in Outfiles : disk[o].state = "none"
  BY DEF StageInit, NoCache
<1>3. NamesFinite
  BY FS_EmptySet DEF StageInit, NamesFinite
<1>4. QED
  BY <1>1, <1>2, <1>3 DEF StageInit, EInv, LoadedSoFar, LoadedAll, CacheIsWhole, AllSaved, ToolGetsAll,
                          EveryFunctionAnalysed

\* A step that leaves the files, the commands and the container alone keeps what
\* is said of them.
LEMMA SameContainer ==
  ASSUME EInv, UNCHANGED <<disk, given, container>>
  PROVE  /\ LoadedSoFar' /\ CacheIsWhole' /\ NamesFinite'
         /\ Cmd' = Cmd /\ Starts' = Starts /\ functions' = functions
         /\ \A b : StaleFrom(b)' = StaleFrom(b)
         /\ loaded = Len(Symbols[Cmd.bin]) => LoadedAll'
<1>1. Cmd' = Cmd /\ Starts' = Starts /\ loaded' = loaded /\ names' = names
  BY DEF container, Cmd, Starts
<1>2. LoadedSoFar' /\ NamesFinite'
  BY <1>1 DEF EInv, LoadedSoFar, NamesFinite
<1>3. CacheIsWhole'
  BY DEF EInv, CacheIsWhole
<1>4. \A b : StaleFrom(b)' = StaleFrom(b)
  BY <1>1 DEF StaleFrom
<1>5. QED
  BY <1>1, <1>2, <1>3, <1>4 DEF container, LoadedAll

LEMMA AddsE == IInv /\ EInv /\ AddFunction => EInv'
<1> SUFFICES ASSUME IInv, EInv, AddFunction PROVE EInv'
  OBVIOUS
<1> DEFINE sym == Symbols[Cmd.bin][loaded + 1]
           new == [sym EXCEPT !.name = NameOf(sym)]
<1>1. /\ UNCHANGED <<disk, given, pc, analysis, tool>> /\ pc = "load" /\ Cmd' = Cmd
      /\ names' = names \cup {new.name} /\ loaded' = loaded + 1
      /\ ~Cmd.kernel => functions' = {f \in functions : f.start # new.start} \cup {new}
  BY DEF AddFunction, Cmd
<1>2. sym \in [name : STRING, start : Nat, size : Nat]
  <2>1. Symbols[Cmd.bin] \in Seq([name : STRING, start : Nat, size : Nat])
    BY CmdType, SymbolsAssumption DEF IInv
  <2>2. loaded + 1 \in 1..Len(Symbols[Cmd.bin])
    BY <2>1, LoadedIsNat DEF AddFunction
  <2>3. QED BY <2>1, <2>2, Element
<1>3. new.start = sym.start
  BY <1>2
<1> HIDE DEF new
<1>4. ~Cmd.kernel => Starts' = Starts \cup {sym.start}
  BY <1>1, <1>3 DEF Starts
<1>5. LoadedSoFar'
  BY <1>1, <1>4, LoadedIsNat, StartsStep DEF EInv, LoadedSoFar
<1>6. NamesFinite'
  BY <1>1, FS_AddElement DEF EInv, NamesFinite
<1>7. CacheIsWhole'
  BY <1>1 DEF EInv, CacheIsWhole
<1>8. LoadedAll' /\ AllSaved' /\ ToolGetsAll' /\ EveryFunctionAnalysed'
  BY <1>1 DEF LoadedAll, AllSaved, ToolGetsAll, EveryFunctionAnalysed
<1>9. QED BY <1>5, <1>6, <1>7, <1>8 DEF EInv

LEMMA MovesOnE ==
  IInv /\ EInv /\ (Interrupt \/ Loaded \/ (\E nm : Panic(nm)) \/ Encode \/ Instrument
                     \/ UNCHANGED stageVars) => EInv'
<1> SUFFICES ASSUME IInv, EInv,
                    Interrupt \/ Loaded \/ (\E nm : Panic(nm)) \/ Encode \/ Instrument
                      \/ UNCHANGED stageVars
             PROVE  EInv'
  OBVIOUS
<1>1. UNCHANGED <<disk, given, container, analysis, tool>>
  BY DEF Interrupt, Loaded, Panic, Encode, Instrument, stageVars, container, tool
<1>2. /\ LoadedSoFar' /\ CacheIsWhole' /\ NamesFinite' /\ Cmd' = Cmd /\ Starts' = Starts
      /\ functions' = functions /\ \A b : StaleFrom(b)' = StaleFrom(b)
      /\ loaded = Len(Symbols[Cmd.bin]) => LoadedAll'
  BY <1>1, SameContainer
<1>3. CASE Interrupt \/ Instrument \/ \E nm : Panic(nm)
  <2>1. pc' \in Ended
    BY <1>3 DEF Interrupt, Instrument, Panic, Ended
  <2>2. QED
    BY <1>2, <2>1 DEF EInv, LoadedAll, AllSaved, ToolGetsAll, EveryFunctionAnalysed, Ended
<1>4. CASE Loaded
  <2>1. pc' \in {"dump_cf", "load_cache", "analyze"} /\ loaded = Len(Symbols[Cmd.bin])
    BY <1>4 DEF Loaded
  <2>2. QED
    BY <1>2, <2>1 DEF EInv, AllSaved, ToolGetsAll, EveryFunctionAnalysed
<1>5. CASE Encode
  <2>1. /\ pc = "tool" /\ pc' = "attach" /\ loaded = Len(Symbols[Cmd.bin])
        /\ DOMAIN cf = {f.name : f \in functions} /\ sent \subseteq DOMAIN cf
        /\ Cardinality(sent) = Cardinality(DOMAIN cf)
    BY <1>5 DEF Encode, ResultsAwaited, EInv, IInv, TypeOK, LoadedAll, ToolGetsAll, Ended
  <2>2. DOMAIN cf \subseteq names
    BY <2>1 DEF IInv, TypeOK
  <2>3. IsFiniteSet(DOMAIN cf)
    BY <2>2, FS_Subset DEF EInv, NamesFinite
  <2>4. sent = DOMAIN cf
    BY <2>1, <2>3, FS_Subset
  <2>5. ToolGetsAll'
    BY <1>1, <1>2, <2>1, <2>4 DEF ToolGetsAll, tool
  <2>6. QED
    BY <1>2, <2>1, <2>5 DEF EInv, AllSaved, EveryFunctionAnalysed
<1>6. CASE UNCHANGED stageVars
  <2>1. pc' = pc /\ analysis' = analysis /\ cf' = cf /\ sent' = sent /\ loaded' = loaded
    BY <1>6 DEF stageVars
  <2>2. LoadedAll'
    BY <1>2, <2>1 DEF EInv, LoadedAll
  <2>3. AllSaved' /\ ToolGetsAll' /\ EveryFunctionAnalysed'
    BY <1>2, <2>1 DEF EInv, AllSaved, ToolGetsAll, EveryFunctionAnalysed
  <2>4. QED BY <1>2, <2>2, <2>3 DEF EInv
<1>7. QED BY <1>3, <1>4, <1>5, <1>6

LEMMA NewCommandE == IInv /\ EInv /\ NextCommand => EInv'
<1> SUFFICES ASSUME IInv, EInv, NextCommand PROVE EInv'
  OBVIOUS
<1>1. PICK c \in Commands : given' = Append(given, c)
  BY DEF NextCommand
<1>2. /\ Len(given) \in Nat /\ Len(given') = Len(given) + 1
      /\ \A k \in 1..Len(given) : k \in 1..Len(given') /\ given'[k] = given[k]
  BY <1>1 DEF IInv, TypeOK
<1>3. /\ pc' = "load" /\ loaded' = 0 /\ functions' = {} /\ names' = {} /\ disk' = disk
  BY DEF NextCommand
<1>4. LoadedSoFar'
  <2>1. Starts' = {} /\ \A b : StartsTo(b, 0) = {}
    BY <1>3 DEF Starts, StartsTo
  <2>2. QED BY <1>3, <2>1 DEF LoadedSoFar, StartsTo
<1>5. CacheIsWhole'
  BY <1>2, <1>3 DEF EInv, CacheIsWhole
<1>6. NamesFinite'
  BY <1>3, FS_EmptySet DEF NamesFinite
<1>7. QED
  BY <1>3, <1>4, <1>5, <1>6 DEF EInv, LoadedAll, AllSaved, ToolGetsAll, EveryFunctionAnalysed, Ended

\* A whole cache was written for the same functions, unless for another binary.
LEMMA LoadsE == IInv /\ EInv /\ LoadCache => EInv'
<1> SUFFICES ASSUME IInv, EInv, LoadCache PROVE EInv'
  OBVIOUS
<1>1. /\ UNCHANGED <<disk, given, container, tool>> /\ pc = "load_cache"
      /\ pc' \in {"analyze", "failed", "instrument"}
      /\ pc' = "instrument" => Cache.state = "complete" /\ analysis' = Cache.entries
  BY DEF LoadCache
<1>2. Cmd.cache /\ ~Cmd.kernel /\ loaded = Len(Symbols[Cmd.bin])
  BY <1>1 DEF IInv, WayOK, EInv, LoadedAll, Ended
<1>3. /\ LoadedSoFar' /\ CacheIsWhole' /\ NamesFinite' /\ Cmd' = Cmd /\ Starts' = Starts
      /\ LoadedAll' /\ \A b : StaleFrom(b)' = StaleFrom(b)
  BY <1>1, <1>2, SameContainer
<1>4. EveryFunctionAnalysed'
  <2>1. SUFFICES ASSUME pc' = "instrument",
                        \A b \in DOMAIN Symbols \ {Cmd.bin} : ~StaleFrom(b)
                 PROVE  DOMAIN analysis' = Starts
    BY <1>2, <1>3 DEF EveryFunctionAnalysed
  <2>2. PICK k \in 1..Len(given) : /\ given[k].cache /\ ~given[k].kernel
                                   /\ given[k].out = Cmd.out
                                   /\ DOMAIN Cache.entries = StartsOf(given[k].bin)
    BY <1>1, <2>1, CmdType DEF IInv, EInv, CacheIsWhole, Cache
  <2>3. given \in Seq(Commands) /\ Len(given) \in Nat
    BY DEF IInv, TypeOK
  <2>4. given[k].bin \in DOMAIN Symbols
    BY <2>3, Element, CommandsAssumption
  <2>5. given[k].bin = Cmd.bin
    <3>1. CASE k = Len(given)
      BY <3>1 DEF Cmd
    <3>2. CASE k # Len(given)
      <4>1. k \in 1..(Len(given) - 1)
        BY <2>3, <3>2
      <4>2. StaleFrom(given[k].bin)
        BY <2>2, <4>1 DEF StaleFrom
      <4>3. QED BY <2>1, <2>4, <4>2
    <3>3. QED BY <3>1, <3>2
  <2>6. QED
    BY <1>1, <1>2, <2>1, <2>2, <2>5 DEF EInv, LoadedSoFar, StartsOf
<1>5. AllSaved' /\ ToolGetsAll'
  BY <1>1 DEF AllSaved, ToolGetsAll
<1>6. QED BY <1>3, <1>4, <1>5 DEF EInv

LEMMA AnalyzesE == IInv /\ EInv /\ Analyze => EInv'
<1> SUFFICES ASSUME IInv, EInv, Analyze PROVE EInv'
  OBVIOUS
<1>1. /\ UNCHANGED <<disk, given, container, tool>> /\ pc = "analyze"
      /\ DOMAIN analysis' = Starts /\ pc' \in {"open_cache", "instrument"}
  BY DEF Analyze
<1>2. loaded = Len(Symbols[Cmd.bin])
  BY <1>1 DEF EInv, LoadedAll, Ended
<1>3. /\ LoadedSoFar' /\ CacheIsWhole' /\ NamesFinite' /\ Starts' = Starts /\ LoadedAll'
  BY <1>1, <1>2, SameContainer
<1>4. QED
  BY <1>1, <1>3 DEF EInv, AllSaved, ToolGetsAll, EveryFunctionAnalysed

\* What is saved is an entry for every function; the file is whole at the end only.
LEMMA SavesE == IInv /\ EInv /\ (OpenCache \/ WriteCache) => EInv'
<1> SUFFICES ASSUME IInv, EInv, OpenCache \/ WriteCache PROVE EInv'
  OBVIOUS
<1>1. /\ UNCHANGED <<given, container, analysis, tool>> /\ Cmd.cache /\ ~Cmd.kernel
      /\ pc \in {"open_cache", "write_cache"} /\ pc' \in {"write_cache", "instrument"}
  BY DEF OpenCache, WriteCache, IInv, WayOK
<1>2. PICK state, written :
        /\ SetCache(state, written)
        /\ state # "partial" => state = "complete" /\ DOMAIN written = DOMAIN analysis
  <2>1. CASE OpenCache
    BY <2>1 DEF OpenCache
  <2>2. CASE WriteCache
    <3>1. DOMAIN Cache.entries \subseteq DOMAIN analysis
      BY <2>2 DEF WriteCache, IInv, WrittenKnown
    <3>2. QED BY <2>2, <3>1 DEF WriteCache
  <2>3. QED BY <2>1, <2>2
<1>3. /\ Cmd' = Cmd /\ Starts' = Starts /\ functions' = functions /\ loaded' = loaded
      /\ names' = names
  BY <1>1 DEF container, Cmd, Starts
<1>4. loaded = Len(Symbols[Cmd.bin]) /\ DOMAIN analysis = Starts
  BY <1>1 DEF EInv, LoadedAll, AllSaved, Ended
<1>5. CacheIsWhole'
  <2>1. /\ Cmd.out \in Outfiles /\ Len(given) \in Nat \ {0} /\ DOMAIN disk = Outfiles
    BY CmdType DEF IInv, TypeOK
  <2>2. /\ disk'[Cmd.out].state = state /\ disk'[Cmd.out].entries = written
        /\ \A o \in Outfiles : o # Cmd.out => disk'[o] = disk[o]
    BY <1>2, <2>1 DEF SetCache
  <2>3. Starts = StartsOf(Cmd.bin)
    BY <1>1, <1>4 DEF EInv, LoadedSoFar, StartsOf
  <2>4. ASSUME NEW o \in Outfiles, disk'[o].state = "complete"
        PROVE  \E k \in 1..Len(given) : /\ given[k].cache /\ ~given[k].kernel /\ given[k].out = o
                                        /\ DOMAIN disk'[o].entries = StartsOf(given[k].bin)
    <3>1. CASE o = Cmd.out
      <4>1. DOMAIN written = StartsOf(Cmd.bin)
        BY <1>2, <1>4, <2>2, <2>3, <2>4, <3>1
      <4>2. Len(given) \in 1..Len(given) /\ given[Len(given)] = Cmd
        BY <2>1 DEF Cmd
      <4>3. QED BY <1>1, <2>2, <3>1, <4>1, <4>2
    <3>2. CASE o # Cmd.out
      BY <2>2, <2>4, <3>2 DEF EInv, CacheIsWhole
    <3>3. QED BY <3>1, <3>2
  <2>5. QED BY <1>1, <2>4 DEF CacheIsWhole
<1>6. LoadedSoFar' /\ LoadedAll' /\ NamesFinite'
  BY <1>3, <1>4 DEF EInv, LoadedSoFar, LoadedAll, NamesFinite
<1>7. AllSaved' /\ ToolGetsAll' /\ EveryFunctionAnalysed'
  BY <1>1, <1>3, <1>4 DEF AllSaved, ToolGetsAll, EveryFunctionAnalysed
<1>8. QED BY <1>5, <1>6, <1>7 DEF EInv

LEMMA ToolStepsE == IInv /\ EInv /\ (DumpCf \/ \E nm : Receive(nm)) => EInv'
<1> SUFFICES ASSUME IInv, EInv, DumpCf \/ \E nm : Receive(nm) PROVE EInv'
  OBVIOUS
<1>1. UNCHANGED <<disk, given, container, analysis>> /\ pc \in {"dump_cf", "tool"} /\ pc' = "tool"
  BY DEF DumpCf, Receive
<1>2. /\ LoadedSoFar' /\ CacheIsWhole' /\ NamesFinite' /\ functions' = functions /\ LoadedAll'
  <2>1. loaded = Len(Symbols[Cmd.bin])
    BY <1>1 DEF EInv, LoadedAll, Ended
  <2>2. QED BY <1>1, <2>1, SameContainer
<1>3. DOMAIN cf' = {f.name : f \in functions}
  <2>1. CASE DumpCf
    BY <2>1 DEF DumpCf
  <2>2. CASE \E nm : Receive(nm)
    BY <2>2 DEF Receive, EInv, ToolGetsAll
  <2>3. QED BY <2>1, <2>2
<1>4. QED
  BY <1>1, <1>2, <1>3 DEF EInv, AllSaved, ToolGetsAll, EveryFunctionAnalysed

\* Each function has a name of its own and each name a result.
LEMMA AttachesE == IInv /\ EInv /\ Attach => EInv'
<1> SUFFICES ASSUME IInv, EInv, Attach PROVE EInv'
  OBVIOUS
<1>1. PICK owner \in [DOMAIN results -> functions] :
        /\ \A nm \in DOMAIN results : owner[nm].name = nm
        /\ DOMAIN analysis' = {f.start : f \in Range(owner)}
  BY DEF Attach
<1>2. UNCHANGED <<disk, given, container, tool>> /\ pc = "attach" /\ pc' = "instrument" /\ Cmd.kernel
  BY DEF Attach, IInv, WayOK
<1>3. /\ LoadedSoFar' /\ CacheIsWhole' /\ NamesFinite' /\ Starts' = Starts /\ LoadedAll'
  <2>1. loaded = Len(Symbols[Cmd.bin])
    BY <1>2 DEF EInv, LoadedAll, Ended
  <2>2. QED BY <1>2, <2>1, SameContainer
<1>4. DOMAIN results = {f.name : f \in functions}
  BY <1>2 DEF IInv, TypeOK, EInv, ToolGetsAll
<1>5. ASSUME NEW f \in functions PROVE f \in Range(owner)
  <2>1. f.name \in DOMAIN results /\ owner[f.name] \in functions /\ owner[f.name].name = f.name
    BY <1>1, <1>4
  <2>2. owner[f.name] = f
    BY <1>2, <2>1 DEF IInv, NamesIdentify
  <2>3. QED BY <1>1, <2>1, <2>2 DEF Range
<1>6. Range(owner) = functions
  BY <1>1, <1>5 DEF Range
<1>7. DOMAIN analysis' = Starts
  BY <1>1, <1>6 DEF Starts
<1>8. QED
  BY <1>2, <1>3, <1>7 DEF EInv, AllSaved, ToolGetsAll, EveryFunctionAnalysed

LEMMA NextEInv == IInv /\ EInv /\ [StageNext]_stageVars => EInv'
<1> SUFFICES ASSUME IInv, EInv, [StageNext]_stageVars PROVE EInv'
  OBVIOUS
<1>1. CASE Step
  <2>1. CASE AddFunction
    BY <2>1, AddsE
  <2>2. CASE Loaded \/ Encode \/ Instrument
    BY <2>2, MovesOnE
  <2>3. CASE LoadCache \/ Analyze \/ OpenCache \/ WriteCache
    BY <2>3, LoadsE, AnalyzesE, SavesE
  <2>4. CASE DumpCf \/ Attach
    BY <2>4, ToolStepsE, AttachesE
  <2>5. CASE \E nm \in DOMAIN cf : Receive(nm) \/ Panic(nm)
    BY <2>5, ToolStepsE, MovesOnE
  <2>6. QED BY <1>1, <2>1, <2>2, <2>3, <2>4, <2>5 DEF Step
<1>2. CASE NextCommand
  BY <1>2, NewCommandE
<1>3. CASE Interrupt \/ UNCHANGED stageVars
  BY <1>3, MovesOnE
<1>4. QED BY <1>1, <1>2, <1>3 DEF StageNext

\* Whatever was interrupted before and in whatever order the tool's goroutines
\* delivered: when instrumentation starts, every function has registers, except
\* after a cache for another binary (analyze_registers, lines 28-82; asank).
THEOREM NoneForgotten == StageSpec => []EveryFunctionAnalysed
<1>1. EInv => EveryFunctionAnalysed
  BY DEF EInv
<1>2. QED BY <1>1, Invariance, InitEInv, NextEInv, PTL DEF StageSpec
=============================================================================
