-------------------------- MODULE LandingPad_proofs --------------------------
(***************************************************************************)
(* The rewritten arm64 program runs as the original, for every program,    *)
(* page size and threshold and whatever a pass inserts, provided that the  *)
(* parts of a pointer add up (NoCarry); and its conditional branches reach *)
(* their labels, provided that few calls lie on their way (FewExpanded).   *)
(***************************************************************************)
EXTENDS LandingPad, DataLemmas

\* The places in a page of the base and of what is pointed to add up without a
\* carry out of the page.
NoCarry == \A o \in Options, a \in Addresses :
  Builds(o, a) => Low(Base(o) + Pointee(o, a)) = Low(Base(o)) + Low(Pointee(o, a))
-----------------------------------------------------------------------------
(* The invariant.                                                           *)

\* What the register holds when step s of an instruction that builds a pointer
\* is the next one.
Based(o, a)   == IF Emulated(o, a) THEN o.optimize ELSE o.dataText
PageOf(o, a)  == Pointee(o, a) - Low(Base(o) + Pointee(o, a))
Built(o, a, s) == CASE s = o.before[a] + 2                -> Copy(PageOf(o, a))
                    [] s = o.before[a] + 3 /\ Based(o, a) -> Copy(PageOf(o, a) + Low(Base(o)))
                    [] OTHER                              -> Copy(Pointee(o, a))

IsStep(o, p) == p.step = 1 \/ (p.at \in Addresses /\ p.step \in 1..Size(o, p.at))
\* Between its first part and its last a pointer is what has been built of it.
PcOK(o, p, rs) ==
  /\ p.region = "text" => IsStep(o, p)
  /\ Begun(o, p) /\ Builds(o, p.at) =>
       /\ rs[Register(o, p.at)] = Built(o, p.at, p.step)
       /\ Emulated(o, p.at) => p.step <= CoreEnd(o, p.at)

\* Addresses in the text are return addresses, and there are none when calls are
\* emulated.
Kept(o, v) == v.region = "text" =>
  /\ ~o.emulate
  /\ \/ v.step = 1
     \/ /\ v.at \in Addresses /\ Code[v.at].op \in {"call", "call_register"}
        /\ v.step \in 1..Size(o, v.at)

\* A frame the unwinder does not know is the caller of the program, and so are
\* all frames behind it.
Known(o, v) == v.region = IF o.emulate THEN "copy" ELSE "text"
FramesOK(o, lr, frames) ==
  /\ Known(o, lr) \/ lr = Outside(Exit)
  /\ \A k \in 1..Len(frames) : Known(o, frames[k]) \/ frames[k] = Outside(Exit)
  /\ lr = Outside(Exit) => \A k \in 1..Len(frames) : frames[k] = Outside(Exit)
  /\ \A j, k \in 1..Len(frames) :
       j < k /\ frames[j] = Outside(Exit) => frames[k] = Outside(Exit)

TypeInv == /\ options \in Options /\ pc \in Values
           /\ regs \in [Registers -> Values] /\ stack \in Seq(Values)
KeptInv == /\ regs["x"].region # "text" /\ Kept(options, regs["lr"])
           /\ \A k \in 1..Len(stack) : Kept(options, stack[k])
IInv == TypeInv /\ PcOK(options, pc, regs) /\ KeptInv /\ FramesOK(options, regs["lr"], stack)
-----------------------------------------------------------------------------
(* What is printed.                                                         *)

LEMMA Constants ==
  ASSUME NEW o \in Options, NEW a \in Addresses
  PROVE  /\ o.emulate \in BOOLEAN /\ o.dataText \in BOOLEAN /\ o.optimize \in BOOLEAN
         /\ o.before[a] \in Nat /\ o.after[a] \in Nat
         /\ a \in Int /\ Code[a] \in Instructions /\ DOMAIN Code = Addresses
BY CodeAssumption DEF Addresses

\* Append to short sequences.
LEMMA Append2 == ASSUME NEW w, NEW x, NEW z PROVE Append(<<w, x>>, z) = <<w, x, z>>
<1> DEFINE s == <<w, x>>
           t == <<w, x, z>>
           S == {w, x, z}
<1>1. s \in Seq(S) /\ t \in Seq(S) /\ Len(s) = 2 /\ Len(t) = 3
  OBVIOUS
<1>2. Append(s, z) \in Seq(S) /\ Len(Append(s, z)) = 3 /\ \A i \in 1..3 : Append(s, z)[i] = t[i]
  BY <1>1
<1> HIDE DEF s, t
<1>3. Append(s, z) = t
  BY <1>1, <1>2, SeqEqual
<1> QED BY <1>3 DEF s, t

LEMMA Append3 == ASSUME NEW w, NEW x, NEW y, NEW z PROVE Append(<<w, x, y>>, z) = <<w, x, y, z>>
<1> DEFINE s == <<w, x, y>>
           t == <<w, x, y, z>>
           S == {w, x, y, z}
<1>1. s \in Seq(S) /\ t \in Seq(S) /\ Len(s) = 3 /\ Len(t) = 4
  OBVIOUS
<1>2. Append(s, z) \in Seq(S) /\ Len(Append(s, z)) = 4 /\ \A i \in 1..4 : Append(s, z)[i] = t[i]
  BY <1>1
<1> HIDE DEF s, t
<1>3. Append(s, z) = t
  BY <1>1, <1>2, SeqEqual
<1> QED BY <1>3 DEF s, t

LEMMA CoreOf ==
  ASSUME NEW o \in Options, NEW a \in Addresses
  PROVE  LET r == Register(o, a)
             n == Pointee(o, a)
         IN  /\ Emulated(o, a) /\ Based(o, a) =>
                  Core(o, a) = <<AddPage(r, n), AddBase(r), AddLow(r, n), Leave(Code[a])>>
             /\ Emulated(o, a) /\ ~Based(o, a) =>
                  Core(o, a) = <<AddPage(r, n), AddLow(r, n), Leave(Code[a])>>
             /\ ~Emulated(o, a) /\ Code[a].op = "adr" =>
                  Core(o, a) = IF Based(o, a) THEN <<AddPage(r, n), AddBase(r), AddLow(r, n)>>
                                              ELSE <<AddPage(r, n), AddLow(r, n)>>
             /\ ~Emulated(o, a) /\ Code[a].op = "adrp" =>
                  Core(o, a) = IF Based(o, a) THEN <<AddPage(r, n), AddBase(r)>>
                                              ELSE <<AddPage(r, n)>>
             /\ Mended(o, a) => Core(o, a) = <<[Code[a] EXCEPT !.op = "mended"]>>
             /\ ~Builds(o, a) /\ ~Mended(o, a) => Core(o, a) = <<Code[a]>>
<1> USE Constants
<1>1. CASE Emulated(o, a)
  <2>1. Core(o, a) = Append(Pointer("lr", a + 1, o.optimize), Leave(Code[a]))
    BY <1>1 DEF Core, Emulated, Mended
  <2>2. /\ Register(o, a) = "lr" /\ Pointee(o, a) = a + 1 /\ Based(o, a) = o.optimize
        /\ Builds(o, a) /\ ~Mended(o, a)
    BY <1>1 DEF Register, Pointee, Based, Builds, Mended, Emulated
  <2>3. CASE o.optimize
    <3>1. Core(o, a) = Append(<<AddPage("lr", a + 1), AddBase("lr"), AddLow("lr", a + 1)>>, Leave(Code[a]))
      BY <2>1, <2>3 DEF Pointer
    <3>2. Core(o, a) = <<AddPage("lr", a + 1), AddBase("lr"), AddLow("lr", a + 1), Leave(Code[a])>>
      BY <3>1, Append3
    <3> QED BY <1>1, <2>2, <2>3, <3>2, Zenon DEF Emulated
  <2>4. CASE ~o.optimize
    <3>1. Core(o, a) = Append(<<AddPage("lr", a + 1), AddLow("lr", a + 1)>>, Leave(Code[a]))
      BY <2>1, <2>4 DEF Pointer
    <3>2. Core(o, a) = <<AddPage("lr", a + 1), AddLow("lr", a + 1), Leave(Code[a])>>
      BY <3>1, Append2
    <3> QED BY <1>1, <2>2, <2>4, <3>2, Zenon DEF Emulated
  <2> QED BY <2>3, <2>4
<1>2. CASE ~Emulated(o, a) /\ Code[a].op = "adr"
  BY <1>2 DEF Core, Builds, Based, Register, Pointee, Pointer, Mended
<1>3. CASE ~Emulated(o, a) /\ Code[a].op = "adrp"
  BY <1>3 DEF Core, Builds, Based, Register, Pointee, Pointer, Mended
<1>4. CASE ~Emulated(o, a) /\ Code[a].op \notin {"adr", "adrp"}
  BY <1>4 DEF Core, Builds, Mended
<1> QED BY <1>1, <1>2, <1>3, <1>4

\* The lengths of what is printed, and where the core stands in it.
LEMMA Lengths ==
  ASSUME NEW o \in Options, NEW a \in Addresses
  PROVE  /\ Len(Core(o, a)) \in 1..4
         /\ Len(Detour(o, a)) = IF Mended(o, a) THEN 2 ELSE 0
         /\ Mended(o, a) => Len(Core(o, a)) = 1 /\ ~Builds(o, a)
         /\ CoreEnd(o, a) = o.before[a] + Len(Core(o, a))
         /\ Size(o, a) = CoreEnd(o, a) + o.after[a] + (IF Mended(o, a) THEN 2 ELSE 0)
         /\ CoreEnd(o, a) \in Nat /\ Size(o, a) \in Nat
         /\ o.before[a] < CoreEnd(o, a) /\ CoreEnd(o, a) <= Size(o, a)
<1>1. Mended(o, a) => Len(Core(o, a)) = 1 /\ ~Builds(o, a)
  BY CoreOf DEF Mended, Builds, Emulated
<1>2. Len(Core(o, a)) \in 1..4
  <2>1. CASE Emulated(o, a)
    BY <2>1, CoreOf
  <2>2. CASE ~Emulated(o, a) /\ Builds(o, a)
    BY <2>2, CoreOf DEF Builds
  <2>3. CASE ~Builds(o, a)
    BY <1>1, <2>3, CoreOf
  <2> QED BY <2>1, <2>2, <2>3
<1>3. Len(Detour(o, a)) = IF Mended(o, a) THEN 2 ELSE 0
  BY DEF Detour
<1>4. CoreEnd(o, a) = o.before[a] + Len(Core(o, a))
  BY DEF CoreEnd
<1>5. Size(o, a) = CoreEnd(o, a) + o.after[a] + (IF Mended(o, a) THEN 2 ELSE 0)
  BY <1>3 DEF Size
<1>6. o.before[a] \in Nat /\ o.after[a] \in Nat
  BY Constants
<1>7. CoreEnd(o, a) \in Nat /\ o.before[a] < CoreEnd(o, a)
  <2>1. PICK n \in 1..4 : n = Len(Core(o, a))
    BY <1>2
  <2>2. CoreEnd(o, a) = o.before[a] + n
    BY <1>4, <2>1, Zenon
  <2>3. PICK before \in Nat : before = o.before[a]
    BY <1>6
  <2> QED BY <2>2, <2>3
<1>8. Size(o, a) \in Nat /\ CoreEnd(o, a) <= Size(o, a)
  BY <1>5, <1>6, <1>7
<1> QED BY <1>1, <1>2, <1>3, <1>4, <1>5, <1>7, <1>8

LEMMA CallLength ==
  ASSUME NEW o \in Options, NEW a \in Addresses, Emulated(o, a)
  PROVE  CoreEnd(o, a) = o.before[a] + (IF Based(o, a) THEN 4 ELSE 3)
BY CoreOf, Lengths

\* The five places of a printed instruction.
LEMMA Places ==
  ASSUME NEW o \in Options, NEW a \in Addresses, NEW s \in 1..Size(o, a)
  PROVE  /\ s \in Int /\ o.before[a] \in Nat /\ CoreEnd(o, a) \in Nat /\ Size(o, a) \in Nat
         /\ o.before[a] < CoreEnd(o, a)
         /\ \/ s <= o.before[a] /\ Printed(o, a, s) = Inserted
            \/ /\ s > o.before[a] /\ s <= CoreEnd(o, a)
               /\ Printed(o, a, s) = Core(o, a)[s - o.before[a]]
            \/ /\ s > CoreEnd(o, a) /\ Printed(o, a, s) = Inserted
               /\ Mended(o, a) => s <= Size(o, a) - 2
            \/ /\ Mended(o, a) /\ s = Size(o, a) - 1 /\ s > CoreEnd(o, a)
               /\ Printed(o, a, s) = JumpTo(a + 1)
            \/ /\ Mended(o, a) /\ s = Size(o, a) /\ s > CoreEnd(o, a)
               /\ Printed(o, a, s) = JumpTo(Code[a].to)
<1>1. /\ o.before[a] \in Nat /\ o.after[a] \in Nat /\ CoreEnd(o, a) \in Nat /\ Size(o, a) \in Nat
      /\ o.before[a] < CoreEnd(o, a) /\ s \in Int /\ s >= 1 /\ s <= Size(o, a)
      /\ Mended(o, a) => Size(o, a) = CoreEnd(o, a) + o.after[a] + 2
      /\ ~Mended(o, a) => Size(o, a) = CoreEnd(o, a) + o.after[a]
  BY Constants, Lengths
<1>2. CASE s <= o.before[a]
  BY <1>1, <1>2 DEF Printed
<1>3. CASE s > o.before[a] /\ s <= CoreEnd(o, a)
  BY <1>1, <1>3 DEF Printed
<1>4. CASE s > CoreEnd(o, a) /\ s <= CoreEnd(o, a) + o.after[a]
  BY <1>1, <1>4 DEF Printed
<1>5. CASE s > CoreEnd(o, a) + o.after[a]
  <2>1. Mended(o, a)
    BY <1>1, <1>5
  <2>2. Printed(o, a, s) = Detour(o, a)[s - CoreEnd(o, a) - o.after[a]]
    BY <1>1, <1>5 DEF Printed
  <2>3. Detour(o, a) = <<JumpTo(a + 1), JumpTo(Code[a].to)>>
    BY <2>1 DEF Detour
  <2>4. s - CoreEnd(o, a) - o.after[a] = 1 \/ s - CoreEnd(o, a) - o.after[a] = 2
    BY <1>1, <1>5, <2>1
  <2> QED BY <1>1, <1>5, <2>1, <2>2, <2>3, <2>4
<1> QED BY <1>1, <1>2, <1>3, <1>4, <1>5

\* An instruction of the program that is printed as it is, at its place.
First(o, a, s) == /\ s = o.before[a] + 1 /\ Printed(o, a, s) = Code[a]
                  /\ ~Builds(o, a) /\ ~Mended(o, a)

\* What an instruction of each kind is, wherever it is printed.
LEMMA PrintedOf ==
  ASSUME NEW o \in Options, NEW a \in Addresses, NEW s \in 1..Size(o, a)
  PROVE  LET i == Printed(o, a, s) IN
         /\ i.op = "page" => /\ s = o.before[a] + 1 /\ Builds(o, a)
                             /\ i.reg = Register(o, a) /\ i.to = Pointee(o, a)
         /\ i.op = "base" => /\ s = o.before[a] + 2 /\ Builds(o, a) /\ Based(o, a)
                             /\ i.reg = Register(o, a)
         /\ i.op = "add" =>
              \/ First(o, a, s)
              \/ /\ s = o.before[a] + (IF Based(o, a) THEN 3 ELSE 2) /\ Builds(o, a)
                 /\ Emulated(o, a) \/ Code[a].op = "adr"
                 /\ i.reg = Register(o, a) /\ i.to = Low(Pointee(o, a))
         /\ i.op = "plain" => \/ First(o, a, s)
                              \/ s <= o.before[a]
                              \/ s > CoreEnd(o, a) /\ (Mended(o, a) => s <= Size(o, a) - 2)
         /\ i.op = "mended" => s = o.before[a] + 1 /\ Mended(o, a) /\ i.to = Code[a].to
         /\ i.op = "jump" =>
              \/ First(o, a, s)
              \/ /\ Emulated(o, a) /\ Code[a].op = "call" /\ s = CoreEnd(o, a)
                 /\ i.to = Code[a].to
              \/ Mended(o, a) /\ s = Size(o, a) - 1 /\ s > CoreEnd(o, a) /\ i.to = a + 1
              \/ Mended(o, a) /\ s = Size(o, a) /\ s > CoreEnd(o, a) /\ i.to = Code[a].to
         /\ i.op = "jump_register" =>
              \/ First(o, a, s)
              \/ /\ Emulated(o, a) /\ Code[a].op = "call_register" /\ s = CoreEnd(o, a)
                 /\ i.reg = Code[a].reg
         /\ i.op \in {"load", "branch", "push", "pop", "return", "call", "call_register"} =>
              First(o, a, s)
<1> DEFINE i == Printed(o, a, s)
<1>1. CASE /\ i = Inserted
           /\ s <= o.before[a] \/ (s > CoreEnd(o, a) /\ (Mended(o, a) => s <= Size(o, a) - 2))
  <2>1. i.op = "plain"
    BY <1>1 DEF Inserted
  <2> QED BY <1>1, <2>1
<1>2. CASE /\ Mended(o, a) /\ s > CoreEnd(o, a)
           /\ \/ s = Size(o, a) - 1 /\ i = JumpTo(a + 1)
              \/ s = Size(o, a) /\ i = JumpTo(Code[a].to)
  <2>1. i.op = "jump" /\ (i = JumpTo(a + 1) => i.to = a + 1) /\ (i = JumpTo(Code[a].to) => i.to = Code[a].to)
    BY <1>2 DEF JumpTo
  <2> QED BY <1>2, <2>1
<1>3. CASE s > o.before[a] /\ s <= CoreEnd(o, a) /\ i = Core(o, a)[s - o.before[a]]
  <2>1. /\ Code[a] \in Instructions /\ Len(Core(o, a)) \in Nat /\ o.before[a] \in Nat /\ s \in Int
        /\ CoreEnd(o, a) = o.before[a] + Len(Core(o, a))
    BY Constants, Lengths
  <2>2. CASE Mended(o, a)
    <3>1. s = o.before[a] + 1 /\ i = [Code[a] EXCEPT !.op = "mended"] /\ ~Builds(o, a)
      BY <1>3, <2>1, <2>2, CoreOf, Lengths
    <3> QED BY <2>1, <2>2, <3>1 DEF Instructions
  <2>3. CASE ~Mended(o, a) /\ ~Builds(o, a)
    <3>1. s = o.before[a] + 1 /\ i = Code[a]
      BY <1>3, <2>1, <2>3, CoreOf
    <3>2. First(o, a, s)
      BY <3>1, <2>3 DEF First
    <3> QED BY <2>1, <3>1, <3>2 DEF Instructions
  <2>4. CASE Builds(o, a)
    <3> DEFINE r == Register(o, a)
               n == Pointee(o, a)
    <3>1. /\ Register(o, a) = (IF Emulated(o, a) THEN "lr" ELSE Code[a].reg)
          /\ Pointee(o, a) = (IF Emulated(o, a) THEN a + 1 ELSE Code[a].to)
      BY DEF Register, Pointee
    <3>2. ~Emulated(o, a) => Code[a].op = "adr" \/ Code[a].op = "adrp"
      BY <2>4 DEF Builds
    <3>3. \/ s = o.before[a] + 1 /\ i = AddPage(r, n)
          \/ s = o.before[a] + 2 /\ Based(o, a) /\ i = AddBase(r)
          \/ /\ s = o.before[a] + (IF Based(o, a) THEN 3 ELSE 2)
             /\ Emulated(o, a) \/ Code[a].op = "adr"
             /\ i = AddLow(r, n)
          \/ Emulated(o, a) /\ s = CoreEnd(o, a) /\ i = Leave(Code[a])
      <4> PICK k \in 1..Len(Core(o, a)) : s = o.before[a] + k /\ i = Core(o, a)[k]
        <5>1. s - o.before[a] \in 1..Len(Core(o, a)) /\ s = o.before[a] + (s - o.before[a])
          BY <1>3, <2>1
        <5> QED BY <1>3, <5>1
      <4>1. CASE Emulated(o, a) /\ Based(o, a)
        <5>1. Core(o, a) = <<AddPage(r, n), AddBase(r), AddLow(r, n), Leave(Code[a])>>
          BY <4>1, CoreOf
        <5>2. k \in 1..4 /\ CoreEnd(o, a) = o.before[a] + 4
          BY <2>1, <5>1
        <5> QED BY <4>1, <5>1, <5>2
      <4>2. CASE Emulated(o, a) /\ ~Based(o, a)
        <5>1. Core(o, a) = <<AddPage(r, n), AddLow(r, n), Leave(Code[a])>>
          BY <4>2, CoreOf
        <5>2. k \in 1..3 /\ CoreEnd(o, a) = o.before[a] + 3
          BY <2>1, <5>1
        <5> QED BY <4>2, <5>1, <5>2
      <4>3. CASE ~Emulated(o, a) /\ Based(o, a)
        <5>1. CASE Code[a].op = "adr"
          <6>1. Core(o, a) = <<AddPage(r, n), AddBase(r), AddLow(r, n)>>
            BY <4>3, <5>1, CoreOf
          <6>2. k \in 1..3
            BY <6>1
          <6> QED BY <4>3, <5>1, <6>1, <6>2
        <5>2. CASE Code[a].op = "adrp"
          <6>1. Core(o, a) = <<AddPage(r, n), AddBase(r)>>
            BY <4>3, <5>2, CoreOf
          <6>2. k \in 1..2
            BY <6>1
          <6> QED BY <4>3, <5>2, <6>1, <6>2
        <5> QED BY <4>3, <3>2, <5>1, <5>2
      <4>4. CASE ~Emulated(o, a) /\ ~Based(o, a)
        <5>1. CASE Code[a].op = "adr"
          <6>1. Core(o, a) = <<AddPage(r, n), AddLow(r, n)>>
            BY <4>4, <5>1, CoreOf
          <6>2. k \in 1..2
            BY <6>1
          <6> QED BY <4>4, <5>1, <6>1, <6>2
        <5>2. CASE Code[a].op = "adrp"
          <6>1. Core(o, a) = <<AddPage(r, n)>>
            BY <4>4, <5>2, CoreOf
          <6>2. k \in 1..1
            BY <6>1
          <6> QED BY <4>4, <5>2, <6>1, <6>2
        <5> QED BY <4>4, <3>2, <5>1, <5>2
      <4> QED BY <4>1, <4>2, <4>3, <4>4
    <3>4. /\ AddPage(r, n).op = "page" /\ AddPage(r, n).reg = r /\ AddPage(r, n).to = n
          /\ AddBase(r).op = "base" /\ AddBase(r).reg = r
          /\ AddLow(r, n).op = "add" /\ AddLow(r, n).reg = r /\ AddLow(r, n).to = Low(n)
      BY DEF AddPage, AddBase, AddLow
    <3>5. Emulated(o, a) =>
            /\ Leave(Code[a]).reg = Code[a].reg /\ Leave(Code[a]).to = Code[a].to
            /\ \/ Code[a].op = "call" /\ Leave(Code[a]).op = "jump"
               \/ Code[a].op = "call_register" /\ Leave(Code[a]).op = "jump_register"
      BY <2>1 DEF Emulated, Leave, Instructions
    <3> QED BY <2>4, <3>3, <3>4, <3>5
  <2> QED BY <2>2, <2>3, <2>4
<1>4. \/ /\ i = Inserted
         /\ s <= o.before[a] \/ (s > CoreEnd(o, a) /\ (Mended(o, a) => s <= Size(o, a) - 2))
      \/ /\ Mended(o, a) /\ s > CoreEnd(o, a)
         /\ \/ s = Size(o, a) - 1 /\ i = JumpTo(a + 1)
            \/ s = Size(o, a) /\ i = JumpTo(Code[a].to)
      \/ s > o.before[a] /\ s <= CoreEnd(o, a) /\ i = Core(o, a)[s - o.before[a]]
  BY Places
<1> QED BY <1>1, <1>2, <1>3, <1>4, Zenon
-----------------------------------------------------------------------------
(* What the mapping makes of a place.                                       *)

LEMMA Arithmetic == \A n \in Int : Low(n) \in Int /\ Low(n) >= 0
BY CodeAssumption DEF Low

LEMMA CodeType ==
  ASSUME NEW a \in Addresses
  PROVE  /\ Code[a].to \in Int /\ Code[a].reg \in Registers
         /\ Code[a].op \in {"adrp", "adr", "load", "add", "call_register"} => Code[a].reg = "x"
BY Constants, CodeAssumption, CompilerAssumption DEF Instructions

LEMMA BuildsType ==
  ASSUME NEW o \in Options, NEW a \in Addresses
  PROVE  /\ Register(o, a) \in Registers /\ Pointee(o, a) \in Int /\ PageOf(o, a) \in Int
         /\ Base(o) \in Int /\ Low(Base(o)) \in Int
         /\ Builds(o, a) => Register(o, a) = IF Emulated(o, a) THEN "lr" ELSE "x"
         /\ Builds(o, a) => ~Mended(o, a)
<1>1. Pointee(o, a) \in Int /\ Register(o, a) \in Registers
  BY CodeType DEF Pointee, Register, Addresses, Registers
<1>2. Base(o) \in Int
  BY CodeAssumption DEF Base
<1>3. Low(Base(o)) \in Int /\ PageOf(o, a) \in Int
  BY <1>1, <1>2, Arithmetic DEF PageOf
<1>4. Builds(o, a) => Register(o, a) = IF Emulated(o, a) THEN "lr" ELSE "x"
  BY CodeType DEF Register, Builds
<1> QED BY <1>1, <1>2, <1>3, <1>4, Lengths

\* The parts of a pointer add up.
LEMMA BuiltSteps ==
  ASSUME NoCarry, NEW o \in Options, NEW a \in Addresses, Builds(o, a)
  PROVE  LET b == o.before[a]
             k == IF Based(o, a) THEN 3 ELSE 2
             n == Pointee(o, a)
         IN  /\ Built(o, a, b + 2) = Copy(PageOf(o, a))
             /\ Based(o, a) => Built(o, a, b + 3) = Copy(PageOf(o, a) + Low(Base(o)))
             /\ Emulated(o, a) \/ Code[a].op = "adr" =>
                  /\ Built(o, a, b + k).region = "copy" /\ Built(o, a, b + k).step = 0
                  /\ Built(o, a, b + k).at + Low(n) = n
                  /\ Built(o, a, b + k + 1) = Copy(n)
             /\ \A s \in Int : s > CoreEnd(o, a) => Built(o, a, s) = Copy(n)
             /\ Emulated(o, a) => Built(o, a, CoreEnd(o, a)) = Copy(n)
<1>1. o.before[a] \in Nat /\ Pointee(o, a) \in Int /\ Low(Base(o)) \in Int /\ Low(Pointee(o, a)) \in Int
  BY Constants, BuildsType, Arithmetic
<1>2. PageOf(o, a) = Pointee(o, a) - Low(Base(o)) - Low(Pointee(o, a))
  BY <1>1 DEF NoCarry, PageOf
<1>3. ~Based(o, a) => Low(Base(o)) = 0
  <2>1. ~Based(o, a) => Base(o) = 0
    BY Constants DEF Based, Base
  <2>2. Low(0) = 0
    BY CodeAssumption DEF Low
  <2> QED BY <2>1, <2>2
<1>4. ~Emulated(o, a) /\ Code[a].op = "adrp" => Low(Pointee(o, a)) = 0
  BY CompilerAssumption DEF Pointee, Low
<1>5. CASE Emulated(o, a)
  <2>1. CoreEnd(o, a) = o.before[a] + (IF Based(o, a) THEN 4 ELSE 3)
    BY <1>5, CallLength
  <2> QED BY <1>1, <1>2, <1>3, <1>5, <2>1 DEF Built, Copy
<1>6. CASE ~Emulated(o, a) /\ Code[a].op = "adr"
  <2>1. CoreEnd(o, a) = o.before[a] + (IF Based(o, a) THEN 3 ELSE 2)
    BY <1>6, CoreOf, Lengths
  <2> QED BY <1>1, <1>2, <1>3, <1>6, <2>1 DEF Built, Copy
<1>7. CASE ~Emulated(o, a) /\ Code[a].op = "adrp"
  <2>1. CoreEnd(o, a) = o.before[a] + (IF Based(o, a) THEN 2 ELSE 1)
    BY <1>7, CoreOf, Lengths
  <2> QED BY <1>1, <1>2, <1>3, <1>4, <1>7, <2>1 DEF Built, Copy
<1> QED BY <1>5, <1>6, <1>7 DEF Builds

\* Where the mapping is the place itself.
Quiet(o, p) == /\ p \in Values /\ (p.region = "text" => IsStep(o, p))
               /\ ~Begun(o, p) \/ (~Builds(o, p.at) /\ ~Mended(o, p.at))
RegPlaces(o, rs) == [r \in Registers |-> Place(o, rs[r])]

LEMMA AtQuiet ==
  ASSUME NEW o \in Options, NEW p, NEW rs, Quiet(o, p)
  PROVE  PcOf(o, p, rs) = Place(o, p) /\ RegsOf(o, p, rs) = RegPlaces(o, rs) /\ PcOK(o, p, rs)
BY DEF Quiet, PcOf, RegsOf, PcOK, Place, RegPlaces, Builds

LEMMA QuietLabels ==
  ASSUME NEW o \in Options, NEW n \in Int
  PROVE  \A v \in {Label(n), Copy(n), Outside(n), Text(n, 1)} : Quiet(o, v) /\ Place(o, v) = n
<1>1. \A a \in Addresses : ~(1 > o.before[a] + 1)
  BY Constants
<1> QED BY <1>1 DEF Quiet, Label, Copy, Outside, Text, Values, Begun, Place, IsStep

LEMMA QuietKept ==
  ASSUME NEW o \in Options, NEW v \in Values, Kept(o, v)
  PROVE  Quiet(o, v)
<1>1. CASE ~Begun(o, v)
  BY <1>1 DEF Quiet, Kept, IsStep
<1>2. CASE Begun(o, v)
  <2>1. v.region = "text" /\ v.at \in Addresses /\ v.step > o.before[v.at] + 1 /\ v.step # 1
    BY <1>2, Constants DEF Begun, Values
  <2>2. ~o.emulate /\ Code[v.at].op \in {"call", "call_register"} /\ v.step \in 1..Size(o, v.at)
    BY <2>1 DEF Kept
  <2> QED BY <2>1, <2>2 DEF Quiet, IsStep, Builds, Emulated, Mended
<1> QED BY <1>1, <1>2

NextOf(o, a, s) == IF s < Size(o, a) THEN Text(a, s + 1) ELSE Text(a + 1, 1)

LEMMA NextStep ==
  ASSUME NEW o \in Options, NEW a \in Addresses, NEW s \in 1..Size(o, a)
  PROVE  /\ NextOf(o, a, s) \in Values /\ NextOf(o, a, s).region = "text"
         /\ IsStep(o, NextOf(o, a, s))
BY Constants, Lengths DEF NextOf, Text, Values, IsStep

LEMMA BeforeFirst ==
  ASSUME NEW o \in Options, NEW a \in Addresses, NEW s \in 1..Size(o, a), s <= o.before[a]
  PROVE  /\ Quiet(o, Text(a, s)) /\ Place(o, Text(a, s)) = a
         /\ Quiet(o, NextOf(o, a, s)) /\ Place(o, NextOf(o, a, s)) = a
<1>1. o.before[a] \in Nat /\ o.before[a] < Size(o, a) /\ Size(o, a) \in Nat /\ a \in Int
  BY Constants, Lengths
<1>2. NextOf(o, a, s) = Text(a, s + 1) /\ ~(s > o.before[a] + 1) /\ ~(s + 1 > o.before[a] + 1)
  BY <1>1 DEF NextOf
<1>3. ~Begun(o, Text(a, s)) /\ ~Begun(o, Text(a, s + 1))
  BY <1>2 DEF Begun, Text
<1> QED BY <1>1, <1>2, <1>3 DEF Quiet, Text, Place, IsStep, Values

LEMMA AtFirst ==
  ASSUME NEW o \in Options, NEW a \in Addresses, o.before[a] + 1 \in 1..Size(o, a)
  PROVE  Quiet(o, Text(a, o.before[a] + 1)) /\ Place(o, Text(a, o.before[a] + 1)) = a
<1>1. o.before[a] \in Nat /\ a \in Int
  BY Constants
<1>2. ~Begun(o, Text(a, o.before[a] + 1))
  BY <1>1 DEF Begun, Text
<1> QED BY <1>1, <1>2 DEF Quiet, Text, Place, IsStep, Values

\* Behind an instruction that is printed as it is.
LEMMA AfterFirst ==
  ASSUME NEW o \in Options, NEW a \in Addresses, NEW s \in 1..Size(o, a),
         s >= o.before[a] + 1, ~Builds(o, a), ~Mended(o, a)
  PROVE  Quiet(o, NextOf(o, a, s)) /\ Place(o, NextOf(o, a, s)) = a + 1
<1>1. o.before[a] \in Nat /\ Size(o, a) \in Nat /\ a \in Int
  BY Constants, Lengths
<1>2. CASE s < Size(o, a)
  <2>1. NextOf(o, a, s) = Text(a, s + 1) /\ s + 1 > o.before[a] + 1
    BY <1>1, <1>2 DEF NextOf
  <2> QED BY <1>1, <1>2, <2>1, NextStep DEF Quiet, Place, Begun, Text
<1>3. CASE ~(s < Size(o, a))
  BY <1>1, <1>3, QuietLabels DEF NextOf
<1> QED BY <1>2, <1>3

\* Between and behind the parts of a pointer.
BuildPc(o, a, rs) == IF Emulated(o, a)
                     THEN IF Code[a].op = "call" THEN Code[a].to ELSE Place(o, rs[Code[a].reg])
                     ELSE a + 1
BuildRegs(o, a, rs) ==
  [r \in Registers |-> IF r = Register(o, a) THEN Pointee(o, a) ELSE Place(o, rs[r])]

LEMMA AtBuild ==
  ASSUME NEW o \in Options, NEW a \in Addresses, NEW s \in Int, s > o.before[a] + 1,
         Builds(o, a), NEW rs
  PROVE  /\ PcOf(o, Text(a, s), rs) = BuildPc(o, a, rs)
         /\ RegsOf(o, Text(a, s), rs) = BuildRegs(o, a, rs)
<1>1. Begun(o, Text(a, s)) /\ Text(a, s).at = a /\ ~Mended(o, a)
  BY Lengths DEF Begun, Text
<1> QED BY <1>1 DEF PcOf, RegsOf, BuildPc, BuildRegs

LEMMA AfterPart ==
  ASSUME NoCarry, NEW o \in Options, NEW a \in Addresses, NEW s \in 1..Size(o, a),
         s >= o.before[a] + 1, Builds(o, a), Emulated(o, a) => s < CoreEnd(o, a),
         NEW rs, rs[Register(o, a)] = Built(o, a, s + 1)
  PROVE  LET p == NextOf(o, a, s)
         IN  /\ PcOK(o, p, rs)
             /\ PcOf(o, p, rs) = BuildPc(o, a, rs) /\ RegsOf(o, p, rs) = BuildRegs(o, a, rs)
<1>1. /\ o.before[a] \in Nat /\ Size(o, a) \in Nat /\ CoreEnd(o, a) \in Nat /\ a \in Int
      /\ CoreEnd(o, a) <= Size(o, a)
  BY Constants, Lengths
<1>2. CASE s < Size(o, a)
  <2>1. NextOf(o, a, s) = Text(a, s + 1) /\ s + 1 > o.before[a] + 1 /\ s + 1 \in Int
    BY <1>1, <1>2 DEF NextOf
  <2>2. PcOK(o, NextOf(o, a, s), rs)
    BY <1>1, <2>1, NextStep DEF PcOK, Text
  <2> QED BY <2>1, <2>2, AtBuild
<1>3. CASE ~(s < Size(o, a))
  <2>1. NextOf(o, a, s) = Text(a + 1, 1) /\ a + 1 \in Int /\ ~Emulated(o, a)
    BY <1>1, <1>3 DEF NextOf
  <2>2. rs[Register(o, a)] = Copy(Pointee(o, a))
    BY <1>1, <1>3, BuiltSteps
  <2>3. Place(o, rs[Register(o, a)]) = Pointee(o, a)
    BY <2>2, BuildsType, QuietLabels
  <2>4. /\ PcOf(o, NextOf(o, a, s), rs) = a + 1 /\ PcOK(o, NextOf(o, a, s), rs)
        /\ RegsOf(o, NextOf(o, a, s), rs) = RegPlaces(o, rs)
    BY <2>1, QuietLabels, AtQuiet
  <2> QED BY <2>1, <2>3, <2>4 DEF RegPlaces, BuildPc, BuildRegs
<1> QED BY <1>2, <1>3
-----------------------------------------------------------------------------
(* Frames.                                                                  *)

LEMMA Cons ==
  ASSUME NEW S, NEW v \in S, NEW frames \in Seq(S)
  PROVE  /\ <<v>> \o frames \in Seq(S) /\ Len(<<v>> \o frames) = Len(frames) + 1
         /\ (<<v>> \o frames)[1] = v
         /\ \A k \in 1..Len(frames) : (<<v>> \o frames)[k + 1] = frames[k]
OBVIOUS

LEMMA FramesCall ==
  ASSUME NEW o, NEW v, NEW w, NEW frames, FramesOK(o, v, frames), Known(o, w)
  PROVE  FramesOK(o, w, frames)
BY DEF FramesOK, Known, Outside

LEMMA FramesPush ==
  ASSUME NEW o, NEW v \in Values, NEW frames \in Seq(Values), FramesOK(o, v, frames)
  PROVE  FramesOK(o, v, <<v>> \o frames)
<1> DEFINE new == <<v>> \o frames
<1>1. /\ Len(frames) \in Nat /\ Len(new) = Len(frames) + 1 /\ new[1] = v
      /\ \A k \in 1..Len(frames) : new[k + 1] = frames[k]
  BY Cons
<1>2. \A k \in 1..Len(new) : k = 1 \/ (k - 1 \in 1..Len(frames) /\ new[k] = frames[k - 1])
  <2>1. SUFFICES ASSUME NEW k \in 1..Len(new), k # 1
                 PROVE  k - 1 \in 1..Len(frames) /\ new[k] = frames[k - 1]
    OBVIOUS
  <2>2. k - 1 \in 1..Len(frames) /\ k = (k - 1) + 1
    BY <1>1, <2>1
  <2> QED BY <1>1, <2>2
<1> HIDE DEF new
<1>3. ASSUME NEW k \in 1..Len(new)
      PROVE  /\ Known(o, new[k]) \/ new[k] = Outside(Exit)
             /\ v = Outside(Exit) => new[k] = Outside(Exit)
  BY <1>1, <1>2 DEF FramesOK
<1>4. ASSUME NEW j \in 1..Len(new), NEW k \in 1..Len(new), j < k, new[j] = Outside(Exit)
      PROVE  new[k] = Outside(Exit)
  <2>1. k - 1 \in 1..Len(frames) /\ new[k] = frames[k - 1]
    BY <1>1, <1>2, <1>4
  <2>2. CASE j = 1
    BY <1>1, <1>4, <2>1, <2>2 DEF FramesOK
  <2>3. CASE j # 1
    <3>1. j - 1 \in 1..Len(frames) /\ new[j] = frames[j - 1] /\ j - 1 < k - 1
      BY <1>1, <1>2, <1>4, <2>3
    <3> QED BY <1>4, <2>1, <3>1 DEF FramesOK
  <2> QED BY <2>2, <2>3
<1>5. FramesOK(o, v, new)
  BY <1>3, <1>4 DEF FramesOK
<1> QED BY <1>5 DEF new

LEMMA FramesFrom ==
  ASSUME NEW o, NEW v \in Values, NEW frames \in Seq(Values), FramesOK(o, v, frames),
         NEW j \in 1..(Len(frames) + 1)
  PROVE  FramesOK(o, (<<v>> \o frames)[j], SubSeq(frames, j, Len(frames)))
<1> DEFINE rest == SubSeq(frames, j, Len(frames))
           top  == (<<v>> \o frames)[j]
<1>1. Len(frames) \in Nat /\ Len(rest) = Len(frames) - j + 1
      /\ \A k \in 1..Len(rest) : k + j - 1 \in 1..Len(frames) /\ rest[k] = frames[k + j - 1]
  BY SubSeqProperties
<1>2. \/ j = 1 /\ top = v
      \/ j - 1 \in 1..Len(frames) /\ top = frames[j - 1]
  <2>1. CASE j = 1
    BY <2>1, Cons
  <2>2. CASE j # 1
    <3>1. j - 1 \in 1..Len(frames) /\ j = (j - 1) + 1
      BY <2>2, <1>1
    <3> QED BY <3>1, Cons
  <2> QED BY <2>1, <2>2
<1> HIDE DEF rest, top
<1>3. ASSUME NEW k \in 1..Len(rest)
      PROVE  /\ Known(o, rest[k]) \/ rest[k] = Outside(Exit)
             /\ top = Outside(Exit) => rest[k] = Outside(Exit)
  <2>1. k + j - 1 \in 1..Len(frames) /\ rest[k] = frames[k + j - 1]
    BY <1>1
  <2>2. top = Outside(Exit) => frames[k + j - 1] = Outside(Exit)
    <3>1. CASE j = 1
      BY <1>2, <2>1, <3>1 DEF FramesOK
    <3>2. CASE j # 1
      <4>1. j - 1 \in 1..Len(frames) /\ top = frames[j - 1] /\ j - 1 < k + j - 1
        BY <1>1, <1>2, <3>2
      <4> QED BY <2>1, <4>1 DEF FramesOK
    <3> QED BY <3>1, <3>2
  <2> QED BY <2>1, <2>2 DEF FramesOK
<1>4. ASSUME NEW i \in 1..Len(rest), NEW k \in 1..Len(rest), i < k, rest[i] = Outside(Exit)
      PROVE  rest[k] = Outside(Exit)
  <2>1. /\ i + j - 1 \in 1..Len(frames) /\ rest[i] = frames[i + j - 1]
        /\ k + j - 1 \in 1..Len(frames) /\ rest[k] = frames[k + j - 1]
        /\ i + j - 1 < k + j - 1
    BY <1>1, <1>4
  <2> QED BY <1>4, <2>1 DEF FramesOK
<1>5. Known(o, top) \/ top = Outside(Exit)
  BY <1>2 DEF FramesOK
<1>6. FramesOK(o, top, rest)
  BY <1>3, <1>4, <1>5 DEF FramesOK
<1> QED BY <1>6 DEF rest, top

LEMMA PlaceType == ASSUME NEW o, NEW v \in Values PROVE Place(o, v) \in Int
BY DEF Place, Values

LEMMA StackType ==
  ASSUME NEW o, NEW frames \in Seq(Values)
  PROVE  /\ StackOf(o, frames) \in Seq(Int) /\ Len(StackOf(o, frames)) = Len(frames)
         /\ \A k \in 1..Len(frames) : StackOf(o, frames)[k] = Place(o, frames[k])
<1>1. \A k \in 1..Len(frames) : Place(o, frames[k]) \in Int
  BY PlaceType
<1> QED BY <1>1 DEF StackOf

LEMMA StackPush ==
  ASSUME NEW o, NEW v \in Values, NEW frames \in Seq(Values)
  PROVE  StackOf(o, <<v>> \o frames) = <<Place(o, v)>> \o StackOf(o, frames)
<1> DEFINE left  == StackOf(o, <<v>> \o frames)
           right == <<Place(o, v)>> \o StackOf(o, frames)
<1>1. /\ <<v>> \o frames \in Seq(Values) /\ Len(<<v>> \o frames) = Len(frames) + 1
      /\ (<<v>> \o frames)[1] = v
      /\ \A k \in 1..Len(frames) : (<<v>> \o frames)[k + 1] = frames[k]
  BY Cons
<1>2. /\ left \in Seq(Int) /\ Len(left) = Len(frames) + 1
      /\ \A k \in 1..(Len(frames) + 1) : left[k] = Place(o, (<<v>> \o frames)[k])
  BY <1>1, StackType
<1>3. /\ right \in Seq(Int) /\ Len(right) = Len(frames) + 1 /\ right[1] = Place(o, v)
      /\ \A k \in 1..Len(frames) : right[k + 1] = Place(o, frames[k])
  <2>1. /\ StackOf(o, frames) \in Seq(Int) /\ Len(StackOf(o, frames)) = Len(frames)
        /\ \A k \in 1..Len(frames) : StackOf(o, frames)[k] = Place(o, frames[k])
    BY StackType
  <2> QED BY <2>1, PlaceType, Cons
<1>4. ASSUME NEW k \in 1..(Len(frames) + 1) PROVE left[k] = right[k]
  <2>1. CASE k = 1
    BY <1>1, <1>2, <1>3, <2>1
  <2>2. CASE k # 1
    <3>1. k - 1 \in 1..Len(frames) /\ k = (k - 1) + 1
      BY <2>2
    <3> QED BY <1>1, <1>2, <1>3, <3>1
  <2> QED BY <2>1, <2>2
<1> HIDE DEF left, right
<1>5. left = right
  BY <1>2, <1>3, <1>4, SeqEqual
<1> QED BY <1>5 DEF left, right

LEMMA StackFrom ==
  ASSUME NEW o, NEW frames \in Seq(Values), NEW j \in 1..(Len(frames) + 1)
  PROVE  SubSeq(StackOf(o, frames), j, Len(StackOf(o, frames)))
           = StackOf(o, SubSeq(frames, j, Len(frames)))
<1> DEFINE rest  == SubSeq(frames, j, Len(frames))
           left  == SubSeq(StackOf(o, frames), j, Len(frames))
           right == StackOf(o, rest)
<1>1. /\ rest \in Seq(Values) /\ Len(rest) = Len(frames) - j + 1
      /\ \A k \in 1..Len(rest) : k + j - 1 \in 1..Len(frames) /\ rest[k] = frames[k + j - 1]
  BY SubSeqProperties
<1>2. /\ StackOf(o, frames) \in Seq(Int) /\ Len(StackOf(o, frames)) = Len(frames)
      /\ \A k \in 1..Len(frames) : StackOf(o, frames)[k] = Place(o, frames[k])
  BY StackType
<1>3. /\ right \in Seq(Int) /\ Len(right) = Len(frames) - j + 1
      /\ \A k \in 1..(Len(frames) - j + 1) : right[k] = Place(o, rest[k])
  BY <1>1, StackType
<1>4. /\ left \in Seq(Int) /\ Len(left) = Len(frames) - j + 1
      /\ \A k \in 1..(Len(frames) - j + 1) : left[k] = StackOf(o, frames)[k + j - 1]
  BY <1>2, SubSeqProperties
<1>5. ASSUME NEW k \in 1..(Len(frames) - j + 1) PROVE left[k] = right[k]
  BY <1>1, <1>2, <1>3, <1>4
<1> HIDE DEF left, right
<1>6. left = right
  BY <1>3, <1>4, <1>5, SeqEqual
<1> QED BY <1>2, <1>6 DEF left, right
-----------------------------------------------------------------------------
(* Steps.  Every action keeps the invariant and is a step of the original   *)
(* program or none.                                                         *)
Mpc     == PcOf(options, pc, regs)
Mregs   == RegsOf(options, pc, regs)
Mstack  == StackOf(options, stack)
Refines == IInv' /\ [Original!Next]_<<Mpc, Mregs, Mstack>>

LEMMA AtRunning ==
  ASSUME IInv, NEW op, Running(op)
  PROVE  /\ options \in Options /\ pc.at \in Addresses /\ pc.at \in Int
         /\ pc.step \in 1..Size(options, pc.at) /\ pc = Text(pc.at, pc.step)
         /\ I = Printed(options, pc.at, pc.step) /\ I.op = op
         /\ Following = NextOf(options, pc.at, pc.step)
         /\ Following \in Values
<1>1. options \in Options /\ pc \in Values /\ pc.region = "text" /\ pc.at \in Addresses /\ I.op = op
  BY DEF IInv, TypeInv, Running
<1>2. pc = Text(pc.at, pc.step) /\ pc.step \in Nat
  BY <1>1 DEF Values, Text
<1>3. pc.step = 1 \/ pc.step \in 1..Size(options, pc.at)
  BY <1>1 DEF IInv, PcOK, IsStep
<1>4. 1 \in 1..Size(options, pc.at)
  <2>1. /\ Size(options, pc.at) \in Nat /\ CoreEnd(options, pc.at) \in Nat
        /\ options.before[pc.at] \in Nat /\ options.before[pc.at] < CoreEnd(options, pc.at)
        /\ CoreEnd(options, pc.at) <= Size(options, pc.at)
    BY <1>1, Lengths, Constants
  <2> QED BY <2>1
<1>5. pc.step \in 1..Size(options, pc.at)
  BY <1>3, <1>4
<1> QED BY <1>1, <1>2, <1>5, NextStep, Constants DEF I, Following, NextOf

LEMMA AtFirstOf ==
  ASSUME IInv, NEW op, Running(op), First(options, pc.at, pc.step)
  PROVE  /\ I = Code[pc.at] /\ Code[pc.at].op = op /\ ~Builds(options, pc.at)
         /\ Mpc = pc.at /\ Mregs = RegPlaces(options, regs)
         /\ Original!At(op) /\ Original!I = Code[pc.at]
         /\ Quiet(options, Following) /\ Place(options, Following) = pc.at + 1
<1>1. /\ options \in Options /\ pc.at \in Addresses /\ pc = Text(pc.at, pc.step)
      /\ pc.step \in 1..Size(options, pc.at) /\ pc.step = options.before[pc.at] + 1
      /\ I = Code[pc.at] /\ I.op = op /\ ~Builds(options, pc.at) /\ ~Mended(options, pc.at)
      /\ Following = NextOf(options, pc.at, pc.step) /\ options.before[pc.at] \in Nat
  BY AtRunning, Constants DEF First
<1>2. Quiet(options, pc) /\ Place(options, pc) = pc.at
  BY <1>1, AtFirst
<1>3. Mpc = pc.at /\ Mregs = RegPlaces(options, regs)
  BY <1>1, <1>2, AtQuiet DEF Mpc, Mregs
<1>4. Quiet(options, Following) /\ Place(options, Following) = pc.at + 1
  BY <1>1, AfterFirst
<1>5. Original!At(op) /\ Original!I = Code[pc.at]
  BY <1>1, <1>3, Constants DEF Original!At, Original!I, Original!Addresses, Mpc
<1> QED BY <1>1, <1>3, <1>4, <1>5

\* A step that only moves the program counter, to a quiet place.
LEMMA OnlyPc ==
  ASSUME IInv, UNCHANGED <<options, regs, stack>>, Quiet(options, pc')
  PROVE  /\ IInv' /\ Mpc' = Place(options, pc') /\ Mregs' = RegPlaces(options, regs)
         /\ Mstack' = Mstack
<1>1. options \in Options /\ pc' \in Values
  BY DEF IInv, TypeInv, Quiet
<1>2. PcOf(options, pc', regs) = Place(options, pc') /\ PcOK(options, pc', regs)
      /\ RegsOf(options, pc', regs) = RegPlaces(options, regs)
  BY <1>1, AtQuiet
<1>3. TypeInv' /\ KeptInv' /\ FramesOK(options, regs["lr"], stack)'
  BY <1>1 DEF IInv, TypeInv, KeptInv
<1> QED BY <1>2, <1>3 DEF IInv, Mpc, Mregs, Mstack

LEMMA LandStep == ASSUME IInv, Land PROVE Refines
<1>1. /\ options \in Options /\ pc \in Values /\ pc.at \in Int /\ pc.region = "copy"
      /\ pc' = Text(pc.at, 1) /\ UNCHANGED <<options, regs, stack>>
  BY DEF Land, IInv, TypeInv, Values
<1>2. Quiet(options, pc) /\ Place(options, pc) = pc.at
  BY <1>1 DEF Quiet, Begun, Place
<1>3. Quiet(options, pc') /\ Place(options, pc') = pc.at
  BY <1>1, QuietLabels
<1>4. Mpc = pc.at /\ Mregs = RegPlaces(options, regs)
  BY <1>1, <1>2, AtQuiet DEF Mpc, Mregs
<1> QED BY <1>1, <1>3, <1>4, OnlyPc DEF Refines

LEMMA ReturnStep == ASSUME IInv, Return PROVE Refines
<1>1. /\ Running("return") /\ pc' = regs["lr"] /\ UNCHANGED <<options, regs, stack>>
      /\ options \in Options /\ regs["lr"] \in Values
  BY DEF Return, IInv, TypeInv, Registers
<1>2. First(options, pc.at, pc.step)
  BY <1>1, AtRunning, PrintedOf
<1>3. /\ Mpc = pc.at /\ Mregs = RegPlaces(options, regs) /\ Original!At("return")
  BY <1>1, <1>2, AtFirstOf
<1>4. Quiet(options, pc')
  BY <1>1, QuietKept DEF IInv, KeptInv
<1>5. /\ IInv' /\ Mpc' = Place(options, regs["lr"]) /\ Mregs' = RegPlaces(options, regs)
      /\ Mstack' = Mstack
  BY <1>1, <1>4, OnlyPc
<1>6. Original!Return
  BY <1>3, <1>5 DEF Original!Return, Mpc, Mregs, Mstack, RegPlaces, Registers
<1> QED BY <1>5, <1>6 DEF Refines, Original!Next

LEMMA SetRegister ==
  ASSUME IInv, UNCHANGED <<options, stack>>, pc' \in Values, NEW r \in Registers, NEW v \in Values,
         regs' = [regs EXCEPT ![r] = v], r = "x" => v.region # "text",
         r = "lr" => Kept(options, v) /\ Known(options, v), PcOK(options, pc', regs')
  PROVE  IInv' /\ Mstack' = Mstack
<1>1. TypeInv'
  BY DEF IInv, TypeInv
<1>2. KeptInv'
  BY DEF IInv, TypeInv, KeptInv, Registers
<1>3. FramesOK(options, regs["lr"], stack)'
  <2>1. CASE r = "x"
    BY <2>1 DEF IInv, TypeInv, Registers
  <2>2. CASE r = "lr"
    <3>1. regs'["lr"] = v
      BY <2>2 DEF IInv, TypeInv
    <3>2. FramesOK(options, v, stack)
      BY <2>2, FramesCall DEF IInv
    <3> QED BY <3>1, <3>2
  <2> QED BY <2>1, <2>2 DEF Registers
<1> QED BY <1>1, <1>2, <1>3 DEF IInv, Mstack

\* A later part of a pointer.
LEMMA PartStep ==
  ASSUME IInv, NoCarry, NEW op, Running(op), Builds(options, pc.at),
         pc.step > options.before[pc.at] + 1,
         Emulated(options, pc.at) => pc.step < CoreEnd(options, pc.at),
         Step, UNCHANGED stack, NEW v \in Values, v.region = "copy",
         v = Built(options, pc.at, pc.step + 1),
         regs' = [regs EXCEPT ![Register(options, pc.at)] = v]
  PROVE  Refines
<1> DEFINE a == pc.at
           s == pc.step
           r == Register(options, a)
<1>1. /\ options \in Options /\ a \in Addresses /\ s \in 1..Size(options, a) /\ pc = Text(a, s)
      /\ pc' = NextOf(options, a, s) /\ pc' \in Values /\ options' = options
      /\ s \in Int /\ options.before[a] \in Nat
  BY AtRunning, Constants, Lengths DEF Step
<1>2. r \in Registers /\ r = IF Emulated(options, a) THEN "lr" ELSE "x"
  BY <1>1, BuildsType
<1>3. regs'[r] = v /\ \A q \in Registers : q # r => regs'[q] = regs[q]
  BY <1>2 DEF IInv, TypeInv
<1>4. r = "lr" => options.emulate
  BY <1>2 DEF Emulated
<1>5. Kept(options, v) /\ (r = "lr" => Known(options, v))
  BY <1>4 DEF Kept, Known
<1>6. s >= options.before[a] + 1
  BY <1>1
<1>7. /\ PcOK(options, pc', regs')
      /\ PcOf(options, pc', regs') = BuildPc(options, a, regs')
      /\ RegsOf(options, pc', regs') = BuildRegs(options, a, regs')
  <2>1. /\ options \in Options /\ a \in Addresses /\ s \in 1..Size(options, a)
        /\ s >= options.before[a] + 1 /\ Builds(options, a)
        /\ Emulated(options, a) => s < CoreEnd(options, a)
        /\ regs'[Register(options, a)] = Built(options, a, s + 1)
    BY <1>1, <1>3, <1>6
  <2> HIDE DEF a, s
  <2>2. /\ PcOK(options, NextOf(options, a, s), regs')
        /\ PcOf(options, NextOf(options, a, s), regs') = BuildPc(options, a, regs')
        /\ RegsOf(options, NextOf(options, a, s), regs') = BuildRegs(options, a, regs')
    BY <2>1, AfterPart
  <2> QED BY <1>1, <2>2
<1>8. Mpc = BuildPc(options, a, regs) /\ Mregs = BuildRegs(options, a, regs)
  BY <1>1, AtBuild DEF Mpc, Mregs
<1>9. Mregs' = Mregs
  BY <1>1, <1>3, <1>7, <1>8 DEF Mregs, BuildRegs
<1>10. Mpc' = Mpc
  <2>1. CASE Emulated(options, a) /\ Code[a].op # "call"
    <3>1. Code[a].reg = "x" /\ r = "lr"
      BY <1>1, <1>2, <2>1, CodeType DEF Emulated
    <3>2. regs'[Code[a].reg] = regs[Code[a].reg]
      BY <1>3, <3>1 DEF Registers
    <3> QED BY <1>1, <1>7, <1>8, <2>1, <3>2 DEF Mpc, BuildPc
  <2>2. CASE ~(Emulated(options, a) /\ Code[a].op # "call")
    BY <1>1, <1>7, <1>8, <2>2 DEF Mpc, BuildPc
  <2> QED BY <2>1, <2>2
<1>11. IInv' /\ Mstack' = Mstack
  BY <1>1, <1>2, <1>5, <1>7, SetRegister
<1> QED BY <1>9, <1>10, <1>11 DEF Refines

\* Behind a mended branch: taken at the last step, not taken before it.
LEMMA AtDetour ==
  ASSUME NEW o \in Options, NEW a \in Addresses, NEW s \in 1..Size(o, a), s > o.before[a] + 1,
         Mended(o, a), NEW rs
  PROVE  /\ PcOf(o, Text(a, s), rs) = IF s = Size(o, a) THEN Code[a].to ELSE a + 1
         /\ RegsOf(o, Text(a, s), rs) = RegPlaces(o, rs) /\ PcOK(o, Text(a, s), rs)
<1>1. /\ Begun(o, Text(a, s)) /\ Text(a, s).at = a /\ Text(a, s).step = s
      /\ Text(a, s).region = "text"
  BY DEF Begun, Text
<1>2. ~Builds(o, a) /\ ~Emulated(o, a)
  BY Lengths DEF Builds
<1> QED BY <1>1, <1>2 DEF PcOf, RegsOf, RegPlaces, PcOK, IsStep

\* A step that only moves the program counter and takes the original nowhere.
LEMMA NoStep ==
  ASSUME IInv, UNCHANGED <<options, regs, stack>>, pc' \in Values, PcOK(options, pc', regs),
         PcOf(options, pc', regs) = Mpc, RegsOf(options, pc', regs) = Mregs
  PROVE  Refines
<1>1. IInv'
  BY DEF IInv, TypeInv, KeptInv
<1> QED BY <1>1 DEF Refines, Mpc, Mregs, Mstack

LEMMA PlainStep == ASSUME IInv, NoCarry, Plain PROVE Refines
<1> DEFINE a == pc.at
           s == pc.step
<1>1. /\ Running("plain") /\ options \in Options /\ a \in Addresses /\ s \in 1..Size(options, a)
      /\ pc = Text(a, s) /\ pc' = NextOf(options, a, s) /\ pc' = Following /\ pc' \in Values
      /\ UNCHANGED <<options, regs, stack>>
      /\ s \in Int /\ options.before[a] \in Nat /\ Size(options, a) \in Nat
      /\ CoreEnd(options, a) \in Nat /\ options.before[a] < CoreEnd(options, a)
  BY AtRunning, Constants, Lengths DEF Plain, Step
<1>2. \/ First(options, a, s)
      \/ s <= options.before[a]
      \/ s > CoreEnd(options, a) /\ (Mended(options, a) => s <= Size(options, a) - 2)
  BY <1>1, AtRunning, PrintedOf
<1>3. CASE First(options, a, s)
  <2>1. /\ Mpc = a /\ Mregs = RegPlaces(options, regs) /\ Original!At("plain")
        /\ Quiet(options, pc') /\ Place(options, pc') = a + 1
    BY <1>1, <1>3, AtFirstOf
  <2>2. IInv' /\ Mpc' = a + 1 /\ Mregs' = Mregs /\ Mstack' = Mstack
    BY <1>1, <2>1, OnlyPc
  <2>3. Original!Plain
    BY <2>1, <2>2 DEF Original!Plain, Mpc, Mregs, Mstack
  <2> QED BY <2>2, <2>3 DEF Refines, Original!Next
<1>4. CASE s <= options.before[a]
  <2>1. /\ Quiet(options, pc) /\ Place(options, pc) = a
        /\ Quiet(options, pc') /\ Place(options, pc') = a
    BY <1>1, <1>4, BeforeFirst
  <2>2. Mpc = a /\ Mregs = RegPlaces(options, regs)
    BY <1>1, <2>1, AtQuiet DEF Mpc, Mregs
  <2> QED BY <1>1, <2>1, <2>2, OnlyPc DEF Refines
<1>5. CASE s > CoreEnd(options, a) /\ (Mended(options, a) => s <= Size(options, a) - 2)
  <2>1. s > options.before[a] + 1 /\ s >= options.before[a] + 1
    BY <1>1, <1>5
  <2>2. CASE ~Builds(options, a) /\ ~Mended(options, a)
    <3>1. Quiet(options, pc') /\ Place(options, pc') = a + 1
      BY <1>1, <2>1, <2>2, AfterFirst
    <3>2. Quiet(options, pc) /\ Place(options, pc) = a + 1
      BY <1>1, <2>1, <2>2 DEF IInv, TypeInv, Quiet, IsStep, Place, Begun, Text
    <3>3. Mpc = a + 1 /\ Mregs = RegPlaces(options, regs)
      BY <1>1, <3>2, AtQuiet DEF Mpc, Mregs
    <3> QED BY <1>1, <3>1, <3>3, OnlyPc DEF Refines
  <2>3. CASE Mended(options, a)
    <3>1. pc' = Text(a, s + 1) /\ s + 1 \in 1..Size(options, a) /\ s + 1 > options.before[a] + 1
      BY <1>1, <1>5, <2>1, <2>3 DEF NextOf
    <3>2. Mpc = a + 1 /\ Mregs = RegPlaces(options, regs)
      BY <1>1, <1>5, <2>1, <2>3, AtDetour DEF Mpc, Mregs
    <3>3. s + 1 # Size(options, a)
      BY <1>1, <1>5, <2>3
    <3>4. /\ PcOf(options, pc', regs) = a + 1 /\ RegsOf(options, pc', regs) = RegPlaces(options, regs)
          /\ PcOK(options, pc', regs)
      BY <1>1, <2>3, <3>1, <3>3, AtDetour
    <3> QED BY <1>1, <3>2, <3>4, NoStep
  <2>4. CASE Builds(options, a)
    <3>1. Begun(options, pc) /\ pc.at = a
      BY <1>1, <2>1 DEF Begun, Text
    <3>2. /\ regs[Register(options, a)] = Built(options, a, s)
          /\ Emulated(options, a) => s <= CoreEnd(options, a)
      BY <2>4, <3>1 DEF IInv, PcOK
    <3>3. ~Emulated(options, a)
      BY <1>1, <1>5, <3>2
    <3>4. /\ Built(options, a, s) = Copy(Pointee(options, a))
          /\ Built(options, a, s + 1) = Copy(Pointee(options, a))
      BY <1>1, <1>5, <2>4, BuiltSteps
    <3>5. Copy(Pointee(options, a)) \in Values /\ Copy(Pointee(options, a)).region = "copy"
      BY <1>1, BuildsType DEF Copy, Values
    <3>6. regs' = [regs EXCEPT ![Register(options, a)] = Copy(Pointee(options, a))]
      BY <1>1, <3>2, <3>4, BuildsType DEF IInv, TypeInv
    <3>7. Step /\ UNCHANGED stack
      BY DEF Plain
    <3> QED BY <1>1, <2>1, <2>4, <3>3, <3>4, <3>5, <3>6, <3>7, PartStep
  <2> QED BY <2>2, <2>3, <2>4
<1> QED BY <1>2, <1>3, <1>4, <1>5

LEMMA SetPageStep == ASSUME IInv, NoCarry, SetPage PROVE Refines
<1> DEFINE a == pc.at
           s == pc.step
           r == Register(options, a)
           v == Copy(PageOf(options, a))
<1>1. /\ Running("page") /\ options \in Options /\ a \in Addresses /\ s \in 1..Size(options, a)
      /\ pc = Text(a, s) /\ pc' = NextOf(options, a, s) /\ pc' \in Values
      /\ UNCHANGED <<options, stack>> /\ options.before[a] \in Nat
  BY AtRunning, Constants DEF SetPage, Step
<1>2. /\ s = options.before[a] + 1 /\ Builds(options, a)
      /\ I.reg = Register(options, a) /\ I.to = Pointee(options, a)
  BY <1>1, AtRunning, PrintedOf
<1>3. regs' = [regs EXCEPT ![r] = v]
  BY <1>2 DEF SetPage, PageOf
<1>4. /\ r \in Registers /\ r = (IF Emulated(options, a) THEN "lr" ELSE "x")
      /\ v \in Values /\ v.region = "copy"
  BY <1>1, <1>2, BuildsType DEF Copy, Values
<1>5. regs'[r] = v /\ \A q \in Registers : q # r => regs'[q] = regs[q]
  BY <1>3, <1>4 DEF IInv, TypeInv
<1>6. Emulated(options, a) => s < CoreEnd(options, a)
  <2>1. Emulated(options, a) =>
          CoreEnd(options, a) = options.before[a] + (IF Based(options, a) THEN 4 ELSE 3)
    BY <1>1, CallLength
  <2> QED BY <1>1, <1>2, <2>1
<1>7. v = Built(options, a, s + 1)
  <2>1. s + 1 = options.before[a] + 2
    BY <1>1, <1>2
  <2> QED BY <1>1, <1>2, <2>1, BuiltSteps
<1>8. /\ PcOK(options, pc', regs') /\ PcOf(options, pc', regs') = BuildPc(options, a, regs')
      /\ RegsOf(options, pc', regs') = BuildRegs(options, a, regs')
  <2>1. /\ options \in Options /\ a \in Addresses /\ s \in 1..Size(options, a)
        /\ s >= options.before[a] + 1 /\ Builds(options, a)
        /\ Emulated(options, a) => s < CoreEnd(options, a)
        /\ regs'[Register(options, a)] = Built(options, a, s + 1)
    BY <1>1, <1>2, <1>5, <1>6, <1>7
  <2> HIDE DEF a, s
  <2>2. /\ PcOK(options, NextOf(options, a, s), regs')
        /\ PcOf(options, NextOf(options, a, s), regs') = BuildPc(options, a, regs')
        /\ RegsOf(options, NextOf(options, a, s), regs') = BuildRegs(options, a, regs')
    BY <2>1, AfterPart
  <2> QED BY <1>1, <2>2
<1>9. IInv' /\ Mstack' = Mstack
  <2>1. Kept(options, v) /\ (r = "lr" => Known(options, v))
    BY <1>4 DEF Kept, Known, Emulated
  <2> QED BY <1>1, <1>3, <1>4, <1>8, <2>1, SetRegister
<1>10. Mpc = a /\ Mregs = RegPlaces(options, regs)
  <2>1. Quiet(options, pc) /\ Place(options, pc) = a
    BY <1>1, <1>2, AtFirst
  <2> QED BY <1>1, <2>1, AtQuiet DEF Mpc, Mregs
<1>11. Original!I = Code[a] /\ \A op : Code[a].op = op => Original!At(op)
  BY <1>1, <1>10, Constants DEF Original!I, Original!At, Original!Addresses, Mpc
<1>12. Mregs' = BuildRegs(options, a, regs') /\ Mpc' = BuildPc(options, a, regs')
  BY <1>1, <1>8 DEF Mregs, Mpc
<1>13. Mregs' = [Mregs EXCEPT ![r] = Pointee(options, a)]
  BY <1>4, <1>5, <1>10, <1>12 DEF BuildRegs, RegPlaces
<1>14. CASE Emulated(options, a) /\ Code[a].op = "call"
  <2>1. Mpc' = Code[a].to /\ r = "lr" /\ Pointee(options, a) = a + 1
    BY <1>4, <1>12, <1>14 DEF BuildPc, Pointee
  <2>2. Original!Call
    BY <1>9, <1>10, <1>11, <1>13, <1>14, <2>1 DEF Original!Call, Mpc, Mregs, Mstack
  <2> QED BY <1>9, <2>2 DEF Refines, Original!Next
<1>15. CASE Emulated(options, a) /\ Code[a].op = "call_register"
  <2>1. r = "lr" /\ Pointee(options, a) = a + 1 /\ Code[a].reg = "x"
    BY <1>1, <1>4, <1>15, CodeType DEF Pointee
  <2>2. Mpc' = Place(options, regs["x"]) /\ Mregs["x"] = Place(options, regs["x"])
    BY <1>5, <1>10, <1>12, <1>15, <2>1 DEF BuildPc, RegPlaces, Registers
  <2>3. Original!CallRegister
    BY <1>9, <1>10, <1>11, <1>13, <1>15, <2>1, <2>2
       DEF Original!CallRegister, Mpc, Mregs, Mstack
  <2> QED BY <1>9, <2>3 DEF Refines, Original!Next
<1>16. CASE ~Emulated(options, a)
  <2>1. /\ Code[a].op = "adrp" \/ Code[a].op = "adr"
        /\ Mpc' = a + 1 /\ r = Code[a].reg /\ Pointee(options, a) = Code[a].to
    BY <1>2, <1>12, <1>16 DEF BuildPc, Pointee, Register, Builds
  <2>2. Original!At("adrp") \/ Original!At("adr")
    BY <1>11, <2>1
  <2>3. Original!Point
    BY <1>9, <1>10, <1>11, <1>13, <2>1, <2>2 DEF Original!Point, Mpc, Mregs, Mstack
  <2> QED BY <1>9, <2>3 DEF Refines, Original!Next
<1>17. Emulated(options, a) => Code[a].op = "call" \/ Code[a].op = "call_register"
  BY DEF Emulated
<1> QED BY <1>14, <1>15, <1>16, <1>17

LEMMA SetBaseStep == ASSUME IInv, NoCarry, SetBase PROVE Refines
<1> DEFINE a == pc.at
           s == pc.step
           r == Register(options, a)
           v == Copy(PageOf(options, a) + Low(Base(options)))
<1>1. /\ Running("base") /\ options \in Options /\ a \in Addresses /\ s \in 1..Size(options, a)
      /\ pc = Text(a, s) /\ options.before[a] \in Nat /\ Step /\ UNCHANGED stack
  BY AtRunning, Constants DEF SetBase
<1>2. /\ s = options.before[a] + 2 /\ Builds(options, a) /\ Based(options, a)
      /\ I.reg = Register(options, a)
  BY <1>1, AtRunning, PrintedOf
<1>3. Begun(options, pc) /\ s > options.before[a] + 1
  BY <1>1, <1>2 DEF Begun, Text
<1>4. regs[r] = Copy(PageOf(options, a)) /\ v = Built(options, a, s + 1)
  <2>1. s + 1 = options.before[a] + 3
    BY <1>1, <1>2
  <2>2. regs[r] = Built(options, a, s)
    BY <1>2, <1>3 DEF IInv, PcOK
  <2> QED BY <1>1, <1>2, <2>1, <2>2, BuiltSteps
<1>5. regs' = [regs EXCEPT ![r] = v]
  <2>1. regs' = [regs EXCEPT ![r] = [regs[r] EXCEPT !.at = @ + Low(Base(options))]]
    BY <1>1, <1>2, BuildsType DEF SetBase, IInv, TypeInv
  <2>2. [regs[r] EXCEPT !.at = @ + Low(Base(options))] = v
    BY <1>4 DEF Copy
  <2> QED BY <2>1, <2>2
<1>6. v \in Values /\ v.region = "copy"
  BY <1>1, BuildsType DEF Copy, Values
<1>7. Emulated(options, a) => s < CoreEnd(options, a)
  <2>1. Emulated(options, a) => CoreEnd(options, a) = options.before[a] + 4
    BY <1>1, <1>2, CallLength
  <2> QED BY <1>1, <1>2, <2>1
<1> QED BY <1>1, <1>2, <1>3, <1>4, <1>5, <1>6, <1>7, PartStep

\* An instruction of the program that changes the general register.
LEMMA FirstSetsX ==
  ASSUME IInv, NEW op, Running(op), First(options, pc.at, pc.step), Step, UNCHANGED stack,
         NEW v \in Values, v.region # "text", regs' = [regs EXCEPT !["x"] = v]
  PROVE  /\ IInv' /\ Mpc = pc.at /\ Mpc' = pc.at + 1 /\ Mstack' = Mstack
         /\ Mregs' = [Mregs EXCEPT !["x"] = v.at] /\ Mregs["x"] = Place(options, regs["x"])
         /\ Original!At(op) /\ Original!I = Code[pc.at] /\ I = Code[pc.at]
<1>1. /\ options \in Options /\ pc' = Following /\ pc' \in Values /\ options' = options
  BY AtRunning DEF Step
<1>2. /\ Mpc = pc.at /\ Mregs = RegPlaces(options, regs)
      /\ Original!At(op) /\ Original!I = Code[pc.at] /\ I = Code[pc.at]
      /\ Quiet(options, pc') /\ Place(options, pc') = pc.at + 1
  BY <1>1, AtFirstOf
<1>3. /\ PcOf(options, pc', regs') = pc.at + 1 /\ PcOK(options, pc', regs')
      /\ RegsOf(options, pc', regs') = RegPlaces(options, regs')
  BY <1>1, <1>2, AtQuiet
<1>4. IInv' /\ Mstack' = Mstack
  BY <1>1, <1>3, SetRegister DEF Registers
<1>5. Place(options, v) = v.at
  BY DEF Place, Begun
<1>6. Mregs' = [Mregs EXCEPT !["x"] = v.at] /\ Mregs["x"] = Place(options, regs["x"])
  <2>1. Mregs' = RegPlaces(options, regs')
    BY <1>1, <1>3 DEF Mregs
  <2>2. regs'["x"] = v /\ regs'["lr"] = regs["lr"]
    BY DEF IInv, TypeInv, Registers
  <2> QED BY <1>2, <1>5, <2>1, <2>2 DEF RegPlaces, Registers
<1> QED BY <1>1, <1>2, <1>3, <1>4, <1>6 DEF Mpc

LEMMA AddStep == ASSUME IInv, NoCarry, Add PROVE Refines
<1> DEFINE a == pc.at
           s == pc.step
<1>1. /\ Running("add") /\ options \in Options /\ a \in Addresses /\ s \in 1..Size(options, a)
      /\ pc = Text(a, s) /\ I = Printed(options, a, s) /\ I.op = "add"
      /\ options.before[a] \in Nat /\ Step /\ UNCHANGED stack
      /\ regs' = [regs EXCEPT ![I.reg].at = @ + I.to]
  BY AtRunning, Constants DEF Add
<1>2. CASE First(options, a, s)
  <2> DEFINE v == [regs["x"] EXCEPT !.at = @ + I.to]
  <2>1. I = Code[a] /\ Code[a].op = "add"
    BY <1>1, <1>2, AtFirstOf
  <2>2. I.reg = "x" /\ I.to \in Int /\ regs["x"] \in Values /\ regs["x"].region # "text"
    BY <1>1, <2>1, CodeType DEF IInv, TypeInv, KeptInv, Registers
  <2>3. v \in Values /\ v.region # "text" /\ v.at = regs["x"].at + I.to
    BY <2>2 DEF Values
  <2>4. regs' = [regs EXCEPT !["x"] = v]
    BY <1>1, <2>2 DEF IInv, TypeInv
  <2>5. Place(options, regs["x"]) = regs["x"].at
    BY <2>2 DEF Place, Begun
  <2>6. /\ IInv' /\ Mpc = a /\ Mpc' = a + 1 /\ Mstack' = Mstack
        /\ Mregs' = [Mregs EXCEPT !["x"] = v.at] /\ Mregs["x"] = Place(options, regs["x"])
        /\ Original!At("add") /\ Original!I = Code[a] /\ I = Code[a]
    <3> HIDE DEF v
    <3> QED BY <1>1, <1>2, <2>3, <2>4, FirstSetsX
  <2>7. Mregs' = [Mregs EXCEPT !["x"] = @ + I.to]
    BY <2>3, <2>5, <2>6
  <2>8. Original!Add
    BY <2>1, <2>2, <2>6, <2>7 DEF Original!Add, Mpc, Mregs, Mstack
  <2> QED BY <2>6, <2>8 DEF Refines, Original!Next
<1>3. CASE ~First(options, a, s)
  <2> DEFINE r == Register(options, a)
             n == Pointee(options, a)
             k == IF Based(options, a) THEN 3 ELSE 2
  <2>1. /\ s = options.before[a] + k /\ Builds(options, a)
        /\ Emulated(options, a) \/ Code[a].op = "adr"
        /\ I.reg = r /\ I.to = Low(n)
    BY <1>1, <1>3, PrintedOf
  <2>2. Begun(options, pc) /\ s > options.before[a] + 1 /\ s + 1 = options.before[a] + k + 1
    BY <1>1, <2>1 DEF Begun, Text
  <2>3. regs[r] = Built(options, a, s)
    BY <2>1, <2>2 DEF IInv, PcOK
  <2>4. /\ regs[r].region = "copy" /\ regs[r].step = 0 /\ regs[r].at + Low(n) = n
        /\ Built(options, a, s + 1) = Copy(n)
    <3>1. LET t == options.before[a] + k
          IN  /\ Built(options, a, t).region = "copy" /\ Built(options, a, t).step = 0
              /\ Built(options, a, t).at + Low(n) = n /\ Built(options, a, t + 1) = Copy(n)
      BY <1>1, <2>1, BuiltSteps
    <3> HIDE DEF n, k
    <3> QED BY <2>1, <2>3, <3>1
  <2>5. r \in Registers /\ regs[r] \in Values /\ n \in Int
    <3>1. r \in Registers /\ n \in Int
      BY <1>1, BuildsType
    <3>2. regs \in [Registers -> Values]
      BY DEF IInv, TypeInv
    <3> HIDE DEF r, n
    <3> QED
      BY <3>1, <3>2
  <2>6. [regs[r] EXCEPT !.at = @ + Low(n)] = Copy(n)
    BY <2>4, <2>5 DEF Values, Copy
  <2>7. regs' = [regs EXCEPT ![r] = Copy(n)]
    BY <1>1, <2>1, <2>5, <2>6 DEF IInv, TypeInv
  <2>8. Copy(n) \in Values /\ Copy(n).region = "copy"
    BY <2>5 DEF Copy, Values
  <2>9. Emulated(options, a) => s < CoreEnd(options, a)
    <3>1. Emulated(options, a) =>
            CoreEnd(options, a) = options.before[a] + (IF Based(options, a) THEN 4 ELSE 3)
      BY <1>1, CallLength
    <3>2. s = options.before[a] + (IF Based(options, a) THEN 3 ELSE 2)
      BY <2>1
    <3>3. options.before[a] \in Nat
      BY <1>1
    <3> HIDE DEF s
    <3> QED BY <3>1, <3>2, <3>3
  <2> QED BY <1>1, <2>1, <2>2, <2>4, <2>7, <2>8, <2>9, PartStep
<1> QED BY <1>2, <1>3

LEMMA LoadStep == ASSUME IInv, Load PROVE Refines
<1> DEFINE a == pc.at
           v == Copy(I.to)
<1>1. /\ Running("load") /\ options \in Options /\ a \in Addresses /\ Step /\ UNCHANGED stack
      /\ regs' = [regs EXCEPT ![I.reg] = Copy(I.to)] /\ First(options, a, pc.step)
  BY AtRunning, PrintedOf DEF Load
<1>2. I = Code[a] /\ Code[a].op = "load"
  BY <1>1, AtFirstOf
<1>3. I.reg = "x" /\ v \in Values /\ v.region # "text" /\ v.at = I.to
  BY <1>1, <1>2, CodeType DEF Copy, Values
<1>4. /\ IInv' /\ Mpc = a /\ Mpc' = a + 1 /\ Mstack' = Mstack
      /\ Mregs' = [Mregs EXCEPT !["x"] = v.at]
      /\ Original!At("load") /\ Original!I = Code[a]
  <2>1. regs' = [regs EXCEPT !["x"] = v]
    BY <1>1, <1>3
  <2> HIDE DEF v
  <2> QED BY <1>1, <1>3, <2>1, FirstSetsX
<1>5. Original!Point
  BY <1>2, <1>3, <1>4 DEF Original!Point, Mpc, Mregs, Mstack
<1> QED BY <1>4, <1>5 DEF Refines, Original!Next

LEMMA BranchStep == ASSUME IInv, Branch PROVE Refines
<1> DEFINE a == pc.at
<1>1. /\ Running("branch") /\ options \in Options /\ a \in Addresses
      /\ First(options, a, pc.step) /\ UNCHANGED <<options, regs, stack>>
      /\ pc' = Label(I.to) \/ pc' = Following
  BY AtRunning, PrintedOf DEF Branch
<1>2. /\ I = Code[a] /\ Mpc = a /\ Mregs = RegPlaces(options, regs)
      /\ Original!At("branch") /\ Original!I = Code[a] /\ Code[a].to \in Int
      /\ Quiet(options, Following) /\ Place(options, Following) = a + 1
  BY <1>1, AtFirstOf, CodeType
<1>3. Quiet(options, pc') /\ Place(options, pc') \in {Code[a].to, a + 1}
  BY <1>1, <1>2, QuietLabels
<1>4. IInv' /\ Mpc' \in {Code[a].to, a + 1} /\ Mregs' = Mregs /\ Mstack' = Mstack
  BY <1>1, <1>2, <1>3, OnlyPc
<1>5. Original!Branch
  BY <1>2, <1>4 DEF Original!Branch, Mpc, Mregs, Mstack
<1> QED BY <1>4, <1>5 DEF Refines, Original!Next

LEMMA MendedBranchStep == ASSUME IInv, MendedBranch PROVE Refines
<1> DEFINE a == pc.at
           s == pc.step
<1>1. /\ Running("mended") /\ options \in Options /\ a \in Addresses /\ s \in 1..Size(options, a)
      /\ pc = Text(a, s) /\ Following = NextOf(options, a, s)
      /\ s = options.before[a] + 1 /\ Mended(options, a)
      /\ UNCHANGED <<options, regs, stack>>
      /\ pc' = Text(a, Size(options, a)) \/ pc' = Following
  BY AtRunning, PrintedOf DEF MendedBranch
<1>2. /\ Size(options, a) \in Nat /\ options.before[a] \in Nat
      /\ Size(options, a) >= options.before[a] + 3
  <2>1. /\ CoreEnd(options, a) \in Nat /\ options.before[a] < CoreEnd(options, a)
        /\ Size(options, a) = CoreEnd(options, a) + options.after[a] + 2
        /\ options.after[a] \in Nat /\ options.before[a] \in Nat /\ Size(options, a) \in Nat
    BY <1>1, Lengths, Constants
  <2> QED BY <2>1
<1>3. Mpc = a /\ Mregs = RegPlaces(options, regs)
  <2>1. Quiet(options, pc) /\ Place(options, pc) = a
    BY <1>1, AtFirst
  <2> QED BY <1>1, <2>1, AtQuiet DEF Mpc, Mregs
<1>4. Original!At("branch") /\ Original!I = Code[a]
  BY <1>1, <1>3, Constants DEF Original!At, Original!I, Original!Addresses, Mended, Mpc
<1>5. \E t \in 1..Size(options, a) : t > options.before[a] + 1 /\ pc' = Text(a, t)
  BY <1>1, <1>2 DEF NextOf
<1>6. PICK t \in 1..Size(options, a) : t > options.before[a] + 1 /\ pc' = Text(a, t)
  BY <1>5
<1>7. /\ PcOf(options, pc', regs) = IF t = Size(options, a) THEN Code[a].to ELSE a + 1
      /\ RegsOf(options, pc', regs) = RegPlaces(options, regs) /\ PcOK(options, pc', regs)
  BY <1>1, <1>6, AtDetour
<1>8. pc' \in Values
  BY <1>1, <1>6, Constants DEF Text, Values
<1>9. IInv'
  BY <1>1, <1>7, <1>8 DEF IInv, TypeInv, KeptInv
<1>10. Mpc' \in {Code[a].to, a + 1} /\ Mregs' = Mregs /\ Mstack' = Mstack
  BY <1>1, <1>3, <1>7 DEF Mpc, Mregs, Mstack
<1>11. Original!Branch
  BY <1>3, <1>4, <1>10 DEF Original!Branch, Mpc, Mregs, Mstack
<1> QED BY <1>9, <1>11 DEF Refines, Original!Next

\* The end of an emulated call: the original has made the call already.
LEMMA AtCallEnd ==
  ASSUME IInv, NoCarry, NEW op, Running(op), Emulated(options, pc.at),
         pc.step = CoreEnd(options, pc.at)
  PROVE  /\ Mpc = BuildPc(options, pc.at, regs) /\ Mregs = RegPlaces(options, regs)
<1> DEFINE a == pc.at
           s == pc.step
<1>1. /\ options \in Options /\ a \in Addresses /\ s \in 1..Size(options, a) /\ pc = Text(a, s)
      /\ options.before[a] \in Nat /\ s \in Int
  BY AtRunning, Constants
<1>2. /\ Builds(options, a) /\ s > options.before[a] + 1
      /\ Register(options, a) = "lr" /\ Pointee(options, a) = a + 1 /\ a + 1 \in Int
  <2>1. CoreEnd(options, a) = options.before[a] + (IF Based(options, a) THEN 4 ELSE 3)
    BY <1>1, CallLength
  <2>2. s > options.before[a] + 1
    BY <1>1, <2>1
  <2> QED BY <1>1, <2>2, Constants DEF Builds, Register, Pointee
<1>3. Begun(options, pc)
  BY <1>1, <1>2 DEF Begun, Text
<1>4. regs["lr"] = Copy(a + 1)
  <2>1. regs["lr"] = Built(options, a, s)
    BY <1>2, <1>3 DEF IInv, PcOK
  <2> QED BY <1>1, <1>2, <2>1, BuiltSteps
<1>5. Place(options, regs["lr"]) = a + 1
  BY <1>1, <1>2, <1>4, QuietLabels
<1>6. Mpc = BuildPc(options, a, regs) /\ Mregs = BuildRegs(options, a, regs)
  BY <1>1, <1>2, AtBuild DEF Mpc, Mregs
<1>7. BuildRegs(options, a, regs) = RegPlaces(options, regs)
  BY <1>2, <1>5 DEF BuildRegs, RegPlaces
<1> QED BY <1>6, <1>7

LEMMA JumpStep == ASSUME IInv, NoCarry, Jump PROVE Refines
<1> DEFINE a == pc.at
           s == pc.step
<1>1. /\ Running("jump") /\ options \in Options /\ a \in Addresses /\ s \in 1..Size(options, a)
      /\ pc = Text(a, s) /\ I.op = "jump" /\ I = Printed(options, a, s)
      /\ pc' = Label(I.to) /\ UNCHANGED <<options, regs, stack>>
      /\ Code[a].to \in Int /\ a + 1 \in Int
  BY AtRunning, CodeType DEF Jump
<1>2. CASE First(options, a, s)
  <2>1. /\ I = Code[a] /\ Mpc = a /\ Mregs = RegPlaces(options, regs)
        /\ Original!At("jump") /\ Original!I = Code[a]
    BY <1>1, <1>2, AtFirstOf
  <2>2. Quiet(options, pc') /\ Place(options, pc') = Code[a].to
    BY <1>1, <2>1, QuietLabels
  <2>3. IInv' /\ Mpc' = Code[a].to /\ Mregs' = Mregs /\ Mstack' = Mstack
    BY <1>1, <2>1, <2>2, OnlyPc
  <2>4. Original!Jump
    BY <2>1, <2>3 DEF Original!Jump, Mpc, Mregs, Mstack
  <2> QED BY <2>3, <2>4 DEF Refines, Original!Next
<1>3. CASE /\ Emulated(options, a) /\ Code[a].op = "call" /\ s = CoreEnd(options, a)
           /\ I.to = Code[a].to
  <2>1. Mpc = Code[a].to /\ Mregs = RegPlaces(options, regs)
    BY <1>1, <1>3, AtCallEnd DEF BuildPc
  <2>2. Quiet(options, pc') /\ Place(options, pc') = Code[a].to
    BY <1>1, <1>3, QuietLabels
  <2> QED BY <1>1, <2>1, <2>2, OnlyPc DEF Refines
<1>4. CASE /\ Mended(options, a) /\ s > CoreEnd(options, a)
           /\ \/ s = Size(options, a) - 1 /\ I.to = a + 1
              \/ s = Size(options, a) /\ I.to = Code[a].to
  <2>1. /\ s > options.before[a] + 1 /\ Size(options, a) \in Nat
    <3>1. options.before[a] < CoreEnd(options, a) /\ Size(options, a) \in Nat
          /\ CoreEnd(options, a) \in Nat /\ s \in 1..Size(options, a) /\ options.before[a] \in Nat
      BY <1>1, Lengths, Constants
    <3> QED BY <1>1, <1>4, <3>1
  <2>2. Mpc = I.to /\ Mregs = RegPlaces(options, regs)
    <3>1. /\ Mpc = IF s = Size(options, a) THEN Code[a].to ELSE a + 1
          /\ Mregs = RegPlaces(options, regs)
      BY <1>1, <1>4, <2>1, AtDetour DEF Mpc, Mregs
    <3> HIDE DEF s
    <3> QED BY <1>4, <2>1, <3>1
  <2>3. Quiet(options, pc') /\ Place(options, pc') = I.to
    BY <1>1, <1>4, QuietLabels
  <2> QED BY <1>1, <2>2, <2>3, OnlyPc DEF Refines
<1> QED BY <1>1, <1>2, <1>3, <1>4, PrintedOf

\* What a register holds is a place to go.
LEMMA RegQuiet ==
  ASSUME IInv, NEW r \in Registers
  PROVE  regs[r] \in Values /\ Kept(options, regs[r]) /\ Quiet(options, regs[r])
<1>1. options \in Options /\ regs[r] \in Values /\ Kept(options, regs[r])
  BY DEF IInv, TypeInv, KeptInv, Registers, Kept
<1> QED BY <1>1, QuietKept

LEMMA JumpRegisterStep == ASSUME IInv, NoCarry, JumpRegister PROVE Refines
<1> DEFINE a == pc.at
           s == pc.step
<1>1. /\ Running("jump_register") /\ options \in Options /\ a \in Addresses
      /\ s \in 1..Size(options, a) /\ I.op = "jump_register" /\ I = Printed(options, a, s)
      /\ pc' = regs[I.reg] /\ UNCHANGED <<options, regs, stack>> /\ Code[a].reg \in Registers
  BY AtRunning, CodeType DEF JumpRegister
<1>2. CASE First(options, a, s)
  <2>1. /\ I = Code[a] /\ Mpc = a /\ Mregs = RegPlaces(options, regs)
        /\ Original!At("jump_register") /\ Original!I = Code[a]
    BY <1>1, <1>2, AtFirstOf
  <2>2. Quiet(options, pc')
    BY <1>1, <2>1, RegQuiet
  <2>3. /\ IInv' /\ Mpc' = Place(options, regs[Code[a].reg]) /\ Mregs' = Mregs
        /\ Mstack' = Mstack
    BY <1>1, <2>1, <2>2, OnlyPc
  <2>4. Original!JumpRegister
    BY <1>1, <2>1, <2>3 DEF Original!JumpRegister, Mpc, Mregs, Mstack, RegPlaces
  <2> QED BY <2>3, <2>4 DEF Refines, Original!Next
<1>3. CASE /\ Emulated(options, a) /\ Code[a].op = "call_register" /\ s = CoreEnd(options, a)
           /\ I.reg = Code[a].reg
  <2>1. Mpc = Place(options, regs[Code[a].reg]) /\ Mregs = RegPlaces(options, regs)
    BY <1>1, <1>3, AtCallEnd DEF BuildPc
  <2>2. Quiet(options, pc')
    BY <1>1, <1>3, RegQuiet
  <2> QED BY <1>1, <1>3, <2>1, <2>2, OnlyPc DEF Refines
<1> QED BY <1>1, <1>2, <1>3, PrintedOf

\* A call that stays a call returns into the text.
LEMMA CallReturns ==
  ASSUME IInv, NEW op \in {"call", "call_register"}, Running(op),
         UNCHANGED <<options, stack>>, regs' = [regs EXCEPT !.lr = Following],
         pc' \in Values, Quiet(options, pc')
  PROVE  /\ IInv' /\ Mpc = pc.at /\ Mregs = RegPlaces(options, regs)
         /\ I = Code[pc.at] /\ Code[pc.at].op = op
         /\ Original!At(op) /\ Original!I = Code[pc.at]
         /\ Mpc' = Place(options, pc') /\ Mregs' = [Mregs EXCEPT !.lr = pc.at + 1]
         /\ Mstack' = Mstack
<1> DEFINE a == pc.at
<1>1. /\ options \in Options /\ a \in Addresses /\ pc.step \in 1..Size(options, a)
      /\ First(options, a, pc.step) /\ Following = NextOf(options, a, pc.step)
      /\ Following \in Values
  BY AtRunning, PrintedOf
<1>2. /\ I = Code[a] /\ Code[a].op = op /\ Mpc = a /\ Mregs = RegPlaces(options, regs)
      /\ Original!At(op) /\ Original!I = Code[a] /\ ~Builds(options, a)
      /\ Place(options, Following) = a + 1
  BY <1>1, AtFirstOf
<1>3. ~options.emulate
  BY <1>2 DEF Builds, Emulated
<1>4. Following.region = "text" /\ Kept(options, Following) /\ Known(options, Following)
  <2>1. \/ Following = Text(a, pc.step + 1) /\ pc.step + 1 \in 1..Size(options, a)
        \/ Following = Text(a + 1, 1)
    BY <1>1, Lengths DEF NextOf
  <2> QED BY <1>1, <1>2, <1>3, <2>1 DEF Kept, Known, Text
<1>5. /\ PcOf(options, pc', regs') = Place(options, pc') /\ PcOK(options, pc', regs')
      /\ RegsOf(options, pc', regs') = RegPlaces(options, regs')
  BY <1>1, AtQuiet
<1>6. IInv' /\ Mstack' = Mstack
  BY <1>1, <1>4, <1>5, SetRegister DEF Registers
<1>7. Mregs' = [Mregs EXCEPT !.lr = a + 1]
  <2>1. regs'["lr"] = Following /\ regs'["x"] = regs["x"]
    BY DEF IInv, TypeInv, Registers
  <2>2. Mregs' = RegPlaces(options, regs')
    BY <1>1, <1>5 DEF Mregs
  <2>3. Place(options, regs'["lr"]) = a + 1 /\ Place(options, regs'["x"]) = Place(options, regs["x"])
    BY <1>2, <2>1, Zenon
  <2> QED BY <1>2, <2>2, <2>3 DEF RegPlaces, Registers
<1> QED BY <1>1, <1>2, <1>5, <1>6, <1>7 DEF Mpc

LEMMA CallStep == ASSUME IInv, Call PROVE Refines
<1> DEFINE a == pc.at
<1>1. /\ Running("call") /\ options \in Options /\ a \in Addresses
      /\ First(options, a, pc.step) /\ UNCHANGED <<options, stack>>
      /\ pc' = Label(I.to) /\ regs' = [regs EXCEPT !.lr = Following]
  BY AtRunning, PrintedOf DEF Call
<1>2. I = Code[a] /\ Code[a].to \in Int
  BY <1>1, AtFirstOf, CodeType
<1>3. Quiet(options, pc') /\ Place(options, pc') = Code[a].to /\ pc' \in Values
  BY <1>1, <1>2, QuietLabels DEF Quiet
<1>4. /\ IInv' /\ Mpc = a /\ Original!At("call") /\ Original!I = Code[a]
      /\ Mpc' = Code[a].to /\ Mregs' = [Mregs EXCEPT !.lr = a + 1] /\ Mstack' = Mstack
  BY <1>1, <1>3, CallReturns
<1>5. Original!Call
  BY <1>4 DEF Original!Call, Mpc, Mregs, Mstack
<1> QED BY <1>4, <1>5 DEF Refines, Original!Next

LEMMA CallRegisterStep == ASSUME IInv, CallRegister PROVE Refines
<1> DEFINE a == pc.at
<1>1. /\ Running("call_register") /\ options \in Options /\ a \in Addresses
      /\ First(options, a, pc.step) /\ UNCHANGED <<options, stack>>
      /\ pc' = regs[I.reg] /\ regs' = [regs EXCEPT !.lr = Following]
  BY AtRunning, PrintedOf DEF CallRegister
<1>2. I = Code[a] /\ Code[a].reg \in Registers
  BY <1>1, AtFirstOf, CodeType
<1>3. Quiet(options, pc') /\ pc' \in Values
  BY <1>1, <1>2, RegQuiet
<1>4. /\ IInv' /\ Mpc = a /\ Mregs = RegPlaces(options, regs)
      /\ Original!At("call_register") /\ Original!I = Code[a]
      /\ Mpc' = Place(options, pc') /\ Mregs' = [Mregs EXCEPT !.lr = a + 1] /\ Mstack' = Mstack
  BY <1>1, <1>3, CallReturns
<1>5. Mpc' = Mregs[Code[a].reg]
  BY <1>1, <1>2, <1>4 DEF RegPlaces
<1>6. Original!CallRegister
  BY <1>4, <1>5 DEF Original!CallRegister, Mpc, Mregs, Mstack
<1> QED BY <1>4, <1>6 DEF Refines, Original!Next

LEMMA PushStep == ASSUME IInv, Push PROVE Refines
<1> DEFINE a == pc.at
           lr == regs["lr"]
<1>1. /\ Running("push") /\ options \in Options /\ a \in Addresses
      /\ First(options, a, pc.step) /\ UNCHANGED <<options, regs>> /\ Len(stack) < Depth
      /\ pc' = Following /\ stack' = <<lr>> \o stack
      /\ lr \in Values /\ stack \in Seq(Values)
  BY AtRunning, PrintedOf DEF Push, Step, IInv, TypeInv, Registers
<1>2. /\ Mpc = a /\ Mregs = RegPlaces(options, regs) /\ Original!At("push")
      /\ Quiet(options, pc') /\ Place(options, pc') = a + 1
  BY <1>1, AtFirstOf
<1>3. /\ PcOf(options, pc', regs) = a + 1 /\ PcOK(options, pc', regs)
      /\ RegsOf(options, pc', regs) = RegPlaces(options, regs)
  BY <1>1, <1>2, AtQuiet
<1>4. TypeInv'
  BY <1>1, <1>2 DEF IInv, TypeInv, Quiet
<1>5. KeptInv'
  <2>1. ASSUME NEW k \in 1..Len(stack') PROVE Kept(options, stack'[k])
    <3>1. /\ stack'[1] = lr /\ Len(stack') = Len(stack) + 1 /\ Len(stack) \in Nat
          /\ \A j \in 1..Len(stack) : stack'[j + 1] = stack[j]
      BY <1>1, Cons
    <3>2. CASE k = 1
      BY <3>1, <3>2 DEF IInv, KeptInv
    <3>3. CASE k # 1
      <4>1. k - 1 \in 1..Len(stack) /\ k = (k - 1) + 1
        BY <3>1, <3>3
      <4>2. stack'[k] = stack[k - 1]
        BY <3>1, <4>1
      <4> QED BY <4>1, <4>2 DEF IInv, KeptInv
    <3> QED BY <3>2, <3>3
  <2> QED BY <1>1, <2>1 DEF IInv, KeptInv
<1>6. FramesOK(options, regs["lr"], stack)'
  BY <1>1, FramesPush DEF IInv
<1>7. IInv'
  BY <1>1, <1>3, <1>4, <1>5, <1>6 DEF IInv
<1>8. Mstack' = <<Mregs["lr"]>> \o Mstack /\ Len(Mstack) < Depth
  BY <1>1, <1>2, StackPush, StackType DEF Mstack, RegPlaces, Registers
<1>9. Mpc' = a + 1 /\ Mregs' = Mregs
  BY <1>1, <1>2, <1>3 DEF Mpc, Mregs
<1>10. Original!Push
  BY <1>2, <1>8, <1>9 DEF Original!Push, Mpc, Mregs, Mstack
<1> QED BY <1>7, <1>10 DEF Refines, Original!Next

\* Unwinding to frame j, as Pop does to the second and Catch to any.
LEMMA Unwind ==
  ASSUME IInv, UNCHANGED options, Quiet(options, pc'),
         NEW j \in 1..Len(Frames), regs' = [regs EXCEPT !.lr = Frames[j]],
         stack' = SubSeq(stack, j, Len(stack))
  PROVE  /\ IInv' /\ Mpc' = Place(options, pc')
         /\ Mregs' = [RegPlaces(options, regs) EXCEPT !.lr = Place(options, Frames[j])]
         /\ Mstack' = SubSeq(Mstack, j, Len(Mstack))
<1>1. /\ options \in Options /\ regs["lr"] \in Values /\ stack \in Seq(Values)
      /\ Frames = <<regs["lr"]>> \o stack /\ pc' \in Values
  BY DEF IInv, TypeInv, Registers, Frames, Quiet
<1>2. /\ Frames \in Seq(Values) /\ Len(Frames) = Len(stack) + 1 /\ Frames[1] = regs["lr"]
      /\ \A k \in 1..Len(stack) : Frames[k + 1] = stack[k]
      /\ Len(stack) \in Nat
  BY <1>1, Cons
<1>3. /\ SubSeq(stack, j, Len(stack)) \in Seq(Values)
      /\ Len(SubSeq(stack, j, Len(stack))) = Len(stack) - j + 1
      /\ \A k \in 1..Len(SubSeq(stack, j, Len(stack))) :
           /\ k + j - 1 \in 1..Len(stack)
           /\ SubSeq(stack, j, Len(stack))[k] = stack[k + j - 1]
  BY <1>1, <1>2, SubSeqProperties
<1>4. Frames[j] \in Values /\ Kept(options, Frames[j])
  <2>1. CASE j = 1
    BY <1>1, <1>2, <2>1 DEF IInv, KeptInv
  <2>2. CASE j # 1
    <3>1. j - 1 \in 1..Len(stack) /\ j = (j - 1) + 1
      BY <1>2, <2>2
    <3>2. Frames[j] = stack[j - 1]
      BY <1>2, <3>1
    <3> QED BY <1>1, <3>1, <3>2 DEF IInv, KeptInv
  <2> QED BY <2>1, <2>2
<1>5. regs'["lr"] = Frames[j] /\ regs'["x"] = regs["x"]
  BY DEF IInv, TypeInv, Registers
<1>6. TypeInv'
  BY <1>1, <1>3, <1>4 DEF IInv, TypeInv
<1>7. KeptInv'
  BY <1>3, <1>4, <1>5 DEF IInv, KeptInv
<1>8. FramesOK(options, regs["lr"], stack)'
  <2>1. j \in 1..(Len(stack) + 1)
    BY <1>2
  <2>2. FramesOK(options, Frames[j], SubSeq(stack, j, Len(stack)))
    BY <1>1, <2>1, FramesFrom DEF IInv
  <2> QED BY <1>5, <2>2
<1>9. /\ PcOf(options, pc', regs') = Place(options, pc') /\ PcOK(options, pc', regs')
      /\ RegsOf(options, pc', regs') = RegPlaces(options, regs')
  BY <1>1, AtQuiet
<1>10. IInv'
  BY <1>6, <1>7, <1>8, <1>9 DEF IInv
<1>11. Mregs' = [RegPlaces(options, regs) EXCEPT !.lr = Place(options, Frames[j])]
  <2>1. Mregs' = RegPlaces(options, regs')
    BY <1>9 DEF Mregs
  <2>2. /\ Place(options, regs'["lr"]) = Place(options, Frames[j])
        /\ Place(options, regs'["x"]) = Place(options, regs["x"])
    BY <1>5, Zenon
  <2> QED BY <2>1, <2>2 DEF RegPlaces, Registers
<1>12. Mstack' = SubSeq(Mstack, j, Len(Mstack))
  <2>1. j \in 1..(Len(stack) + 1)
    BY <1>2
  <2> QED BY <1>1, <2>1, StackFrom DEF Mstack
<1> QED BY <1>9, <1>10, <1>11, <1>12 DEF Mpc

LEMMA TailOf ==
  ASSUME NEW S, NEW frames \in Seq(S), frames # <<>>
  PROVE  /\ Len(frames) \in Nat \ {0} /\ Head(frames) = frames[1]
         /\ Tail(frames) = SubSeq(frames, 2, Len(frames))
<1> DEFINE n     == Len(frames)
           left  == Tail(frames)
           right == SubSeq(frames, 2, n)
<1>1. n \in Nat /\ n >= 1 /\ Head(frames) = frames[1]
  BY EmptySeq
<1>2. left \in Seq(S) /\ Len(left) = n - 1 /\ \A k \in 1..(n - 1) : left[k] = frames[k + 1]
  BY <1>1, HeadTailProperties
<1>3. /\ right \in Seq(S) /\ Len(right) = IF 2 <= n THEN n - 2 + 1 ELSE 0
      /\ \A k \in 1..(n - 2 + 1) : right[k] = frames[2 + k - 1]
  <2>1. \A k \in 2..n : frames[k] \in S
    BY <1>1
  <2> QED BY <1>1, <2>1, SubSeqProperties
<1> HIDE DEF n, left, right
<1>4. \A k \in 1..(n - 1) : k \in 1..(n - 2 + 1) /\ 2 + k - 1 = k + 1
  BY <1>1
<1>5. Len(right) = n - 1
  BY <1>1, <1>3
<1>6. \A k \in 1..(n - 1) : right[k] = frames[k + 1]
  BY <1>3, <1>4
<1>7. left = right
  BY <1>2, <1>3, <1>5, <1>6, SeqEqual
<1> QED BY <1>1, <1>7 DEF n, left, right

LEMMA PopStep == ASSUME IInv, Pop PROVE Refines
<1> DEFINE a == pc.at
<1>1. /\ Running("pop") /\ options \in Options /\ a \in Addresses
      /\ First(options, a, pc.step) /\ UNCHANGED options /\ stack # <<>>
      /\ pc' = Following /\ regs' = [regs EXCEPT !.lr = Head(stack)] /\ stack' = Tail(stack)
      /\ regs["lr"] \in Values /\ stack \in Seq(Values)
  BY AtRunning, PrintedOf DEF Pop, Step, IInv, TypeInv, Registers
<1>2. /\ Mpc = a /\ Mregs = RegPlaces(options, regs) /\ Original!At("pop")
      /\ Quiet(options, pc') /\ Place(options, pc') = a + 1
  BY <1>1, AtFirstOf
<1>3. /\ Len(stack) \in Nat \ {0} /\ Head(stack) = stack[1]
      /\ Tail(stack) = SubSeq(stack, 2, Len(stack))
  BY <1>1, TailOf
<1>4. 2 \in 1..Len(Frames) /\ Frames[2] = stack[1]
  <2>1. /\ Len(Frames) = Len(stack) + 1 /\ 1 \in 1..Len(stack)
        /\ \A k \in 1..Len(stack) : Frames[k + 1] = stack[k]
    BY <1>1, <1>3, Cons DEF Frames
  <2> QED BY <1>3, <2>1
<1>5. /\ IInv' /\ Mpc' = a + 1 /\ Mstack' = SubSeq(Mstack, 2, Len(Mstack))
      /\ Mregs' = [RegPlaces(options, regs) EXCEPT !.lr = Place(options, Frames[2])]
  BY <1>1, <1>2, <1>3, <1>4, Unwind
<1>6. /\ Mstack \in Seq(Int) /\ Len(Mstack) = Len(stack) /\ Mstack # <<>>
      /\ Mstack[1] = Place(options, stack[1])
  <2>1. /\ Mstack \in Seq(Int) /\ Len(Mstack) = Len(stack) /\ 1 \in 1..Len(stack)
        /\ \A k \in 1..Len(stack) : Mstack[k] = Place(options, stack[k])
    BY <1>1, <1>3, StackType DEF Mstack
  <2>2. Len(Mstack) # 0
    BY <1>3, <2>1
  <2> QED BY <2>1, <2>2, EmptySeq
<1>7. Head(Mstack) = Place(options, stack[1]) /\ Mstack' = Tail(Mstack)
  BY <1>5, <1>6, TailOf
<1>8. Mregs' = [Mregs EXCEPT !.lr = Head(Mstack)]
  BY <1>2, <1>4, <1>5, <1>7
<1>9. Original!Pop
  BY <1>2, <1>5, <1>6, <1>7, <1>8 DEF Original!Pop, Mpc, Mregs, Mstack
<1> QED BY <1>5, <1>9 DEF Refines, Original!Next

\* While an exception is thrown both programs have the same frames.
LEMMA AtRaise ==
  ASSUME IInv, Unwinding
  PROVE  /\ Mpc = Raise /\ Mregs = RegPlaces(options, regs)
         /\ Frames \in Seq(Values) /\ Len(Original!Frames) = Len(Frames) /\ Len(Frames) \in Nat
         /\ \A k \in 1..Len(Frames) :
              /\ Original!Frames[k] = Place(options, Frames[k])
              /\ Original!Catches(k) <=> Place(options, Frames[k]) - 1 \in DOMAIN Handler
<1>1. /\ options \in Options /\ regs["lr"] \in Values /\ stack \in Seq(Values)
      /\ pc = Outside(Raise) /\ Frames = <<regs["lr"]>> \o stack /\ Raise \in Int
  BY CodeAssumption DEF IInv, TypeInv, Registers, Unwinding, Frames
<1>2. Mpc = Raise /\ Mregs = RegPlaces(options, regs)
  <2>1. Quiet(options, pc) /\ Place(options, pc) = Raise
    BY <1>1, QuietLabels
  <2> QED BY <1>1, <2>1, AtQuiet DEF Mpc, Mregs
<1>3. Original!Frames = StackOf(options, Frames)
  BY <1>1, <1>2, StackPush DEF Original!Frames, Mregs, RegPlaces, Registers
<1>4. Frames \in Seq(Values) /\ Len(Frames) \in Nat
  BY <1>1, Cons
<1>5. /\ Len(Original!Frames) = Len(Frames)
      /\ \A k \in 1..Len(Frames) : Original!Frames[k] = Place(options, Frames[k])
  BY <1>3, <1>4, StackType
<1> QED BY <1>2, <1>4, <1>5 DEF Original!Catches

LEMMA CatchStep == ASSUME IInv, Catch PROVE Refines
<1>1. PICK k \in 1..Len(Frames) :
        /\ Catches(k) /\ \A j \in 1..(k - 1) : Covered(j) /\ ~Catches(j)
        /\ LET h == Handler[Place(options, Frames[k]) - 1]
           IN  pc' = IF options.emulate THEN Copy(h) ELSE Text(h, 1)
        /\ regs' = [regs EXCEPT !.lr = Frames[k]]
        /\ stack' = SubSeq(stack, k, Len(stack))
  BY DEF Catch
<1>2. Unwinding /\ options' = options /\ options \in Options
  BY DEF Catch, IInv, TypeInv
<1>3. /\ Mpc = Raise /\ Mregs = RegPlaces(options, regs) /\ Len(Frames) \in Nat
      /\ Len(Original!Frames) = Len(Frames)
      /\ \A j \in 1..Len(Frames) :
           /\ Original!Frames[j] = Place(options, Frames[j])
           /\ Original!Catches(j) <=> Place(options, Frames[j]) - 1 \in DOMAIN Handler
  BY <1>2, AtRaise
<1> DEFINE h == Handler[Place(options, Frames[k]) - 1]
<1>4. Place(options, Frames[k]) - 1 \in DOMAIN Handler
  BY <1>1 DEF Catches
<1>5. h \in Int
  BY <1>4, CodeAssumption DEF Addresses
<1>6. Quiet(options, pc') /\ Place(options, pc') = h
  <2>1. pc' = Copy(h) \/ pc' = Text(h, 1)
    BY <1>1
  <2> HIDE DEF h
  <2> QED BY <1>2, <1>5, <2>1, QuietLabels
<1>7. /\ IInv' /\ Mpc' = h /\ Mstack' = SubSeq(Mstack, k, Len(Mstack))
      /\ Mregs' = [Mregs EXCEPT !.lr = Place(options, Frames[k])]
  BY <1>1, <1>2, <1>3, <1>6, Unwind
<1>8. \A j \in 1..(k - 1) : ~Original!Catches(j)
  <2>1. SUFFICES ASSUME NEW j \in 1..(k - 1) PROVE ~Original!Catches(j)
    OBVIOUS
  <2>2. j \in 1..Len(Frames)
    BY <1>3
  <2>3. Covered(j) /\ ~Catches(j)
    BY <1>1
  <2> QED BY <1>3, <2>2, <2>3 DEF Catches
<1>9. Original!Catches(k) /\ Original!Frames[k] = Place(options, Frames[k]) /\ k \in 1..Len(Original!Frames)
  BY <1>3, <1>4
<1>10. Original!Catch
  BY <1>3, <1>7, <1>8, <1>9 DEF Original!Catch, Mpc, Mregs, Mstack
<1> QED BY <1>7, <1>10 DEF Refines, Original!Next

LEMMA TerminateStep == ASSUME IInv, Terminate PROVE Refines
<1>1. /\ Unwinding /\ pc' = Outside(Abort) /\ UNCHANGED <<options, regs, stack>>
      /\ \A k \in 1..Len(Frames) : Catches(k) => \E j \in 1..(k - 1) : ~Covered(j)
      /\ options \in Options /\ Abort \in Int
  BY CodeAssumption DEF Terminate, IInv, TypeInv
<1>2. /\ Mpc = Raise /\ Mregs = RegPlaces(options, regs) /\ Frames \in Seq(Values)
      /\ Len(Original!Frames) = Len(Frames) /\ Len(Frames) \in Nat
      /\ \A k \in 1..Len(Frames) :
           Original!Catches(k) <=> Place(options, Frames[k]) - 1 \in DOMAIN Handler
  BY <1>1, AtRaise
<1>3. Quiet(options, pc') /\ Place(options, pc') = Abort
  BY <1>1, QuietLabels
<1>4. IInv' /\ Mpc' = Abort /\ Mregs' = Mregs /\ Mstack' = Mstack
  BY <1>1, <1>2, <1>3, OnlyPc
<1>5. ASSUME NEW k \in 1..Len(Frames), Original!Catches(k) PROVE FALSE
  <2>1. FramesOK(options, regs["lr"], Frames)
    BY FramesPush DEF IInv, TypeInv, Registers, Frames
  <2>2. Place(options, Frames[k]) - 1 \in DOMAIN Handler
    BY <1>2, <1>5
  <2>3. PICK j \in 1..k : ~Covered(j)
    <3>1. CASE Covered(k)
      <4>1. \E j \in 1..(k - 1) : ~Covered(j)
        BY <1>1, <2>2, <3>1 DEF Catches
      <4> QED BY <1>2, <4>1
    <3>2. CASE ~Covered(k)
      BY <1>2, <3>2
    <3> QED BY <3>1, <3>2
  <2>4. Frames[j] = Outside(Exit)
    BY <1>2, <2>1, <2>3 DEF FramesOK, Known, Covered
  <2>5. Frames[k] = Outside(Exit)
    <3>1. j \in 1..Len(Frames) /\ (j = k \/ j < k)
      BY <1>2
    <3> QED BY <2>1, <2>4, <3>1 DEF FramesOK
  <2>6. Place(options, Frames[k]) = Exit
    BY <2>5 DEF Place, Begun, Outside
  <2> QED BY <2>2, <2>6, CodeAssumption
<1>6. Original!Terminate
  BY <1>2, <1>4, <1>5 DEF Original!Terminate, Mpc, Mregs, Mstack
<1> QED BY <1>4, <1>6 DEF Refines, Original!Next
-----------------------------------------------------------------------------
(* The theorems.                                                            *)

LEMMA InitRefines == Init => IInv /\ Original!Init
<1> SUFFICES ASSUME Init PROVE IInv /\ Original!Init
  OBVIOUS
<1>1. /\ options \in Options /\ pc = Label(Entry) /\ stack = <<>>
      /\ regs = [r \in Registers |-> Outside(Exit)] /\ Entry \in Int /\ Exit \in Int
  BY CodeAssumption DEF Init, Addresses
<1>2. /\ Quiet(options, pc) /\ Place(options, pc) = Entry
      /\ Place(options, Outside(Exit)) = Exit /\ Outside(Exit) \in Values
  BY <1>1, QuietLabels DEF Quiet
<1>3. Mpc = Entry /\ Mregs = RegPlaces(options, regs) /\ PcOK(options, pc, regs)
  BY <1>1, <1>2, AtQuiet DEF Mpc, Mregs
<1>4. Mregs = [r \in {"lr", "x"} |-> Exit]
  BY <1>1, <1>2, <1>3 DEF RegPlaces, Registers
<1>5. Mstack = <<>>
  <2>1. stack \in Seq(Values) /\ Len(stack) = 0
    BY <1>1
  <2>2. Len(Mstack) = 0 /\ Mstack \in Seq(Int)
    BY <2>1, StackType DEF Mstack
  <2> QED BY <2>2, EmptySeq
<1>6. TypeInv
  BY <1>1, <1>2 DEF TypeInv, Quiet, Registers
<1>7. KeptInv
  BY <1>1 DEF KeptInv, Kept, Outside, Registers
<1>8. FramesOK(options, regs["lr"], stack)
  BY <1>1 DEF FramesOK, Registers
<1> QED BY <1>3, <1>4, <1>5, <1>6, <1>7, <1>8 DEF IInv, Original!Init, Mpc, Mregs, Mstack

LEMMA NextRefines == ASSUME NoCarry, IInv, [Next]_vars PROVE Refines
<1>1. CASE UNCHANGED vars
  BY <1>1 DEF vars, IInv, TypeInv, KeptInv, Refines, Mpc, Mregs, Mstack
<1>2. CASE Next
  BY <1>2, LandStep, PlainStep, SetPageStep, SetBaseStep, AddStep, LoadStep, BranchStep,
     MendedBranchStep, JumpStep, JumpRegisterStep, CallStep, CallRegisterStep, PushStep,
     PopStep, ReturnStep, CatchStep, TerminateStep DEF Next
<1> QED BY <1>1, <1>2

\* Where the base of the copy is at the start of a page nothing can be carried.
LEMMA AlignedBase == (\A o \in Options : ~(o.dataText /\ o.optimize)) => NoCarry
<1> SUFFICES ASSUME \A o \in Options : ~(o.dataText /\ o.optimize),
                    NEW o \in Options, NEW a \in Addresses, Builds(o, a)
             PROVE  Low(Base(o) + Pointee(o, a)) = Low(Base(o)) + Low(Pointee(o, a))
  BY DEF NoCarry
<1>1. Base(o) = 0 /\ Pointee(o, a) \in Int
  BY BuildsType DEF Base
<1>2. Low(0) = 0
  BY CodeAssumption DEF Low
<1>3. Low(Pointee(o, a)) \in Int
  BY <1>1, Arithmetic
<1> QED BY <1>1, <1>2, <1>3

\* The types, and everything the refinement rests on: for every program, page size,
\* threshold, set of options and instrumentation.
THEOREM InvariantHolds == NoCarry => (Spec => []IInv)
<1> SUFFICES ASSUME NoCarry PROVE Spec => []IInv
  OBVIOUS
<1>1. Init => IInv
  BY InitRefines
<1>2. IInv /\ [Next]_vars => IInv'
  BY NextRefines DEF Refines
<1> QED BY <1>1, <1>2, PTL DEF Spec

\* Emulated calls leave no address of the text in a register or in a frame: the
\* unwinder and the program see the return addresses of the original.
THEOREM ReturnsStay == NoCarry => (Spec => []ReturnsLikeOriginal)
<1> SUFFICES ASSUME NoCarry PROVE Spec => []ReturnsLikeOriginal
  OBVIOUS
<1>1. Spec => []IInv
  BY InvariantHolds
<1>2. IInv => ReturnsLikeOriginal
  BY DEF IInv, KeptInv, Kept, ReturnsLikeOriginal, Registers
<1> QED BY <1>1, <1>2, PTL

\* The safety part of RunsOriginal: what the rewritten program does the original
\* program could have done, address by address.
THEOREM ImplementsOriginal == NoCarry => (Spec => Original!Runs)
<1> SUFFICES ASSUME NoCarry PROVE Spec => Original!Runs
  OBVIOUS
<1>1. Init => IInv /\ Original!Init
  BY InitRefines
<1>2. IInv /\ [Next]_vars => IInv' /\ [Original!Next]_<<Mpc, Mregs, Mstack>>
  BY NextRefines DEF Refines
<1>3. Spec => Original!Init /\ [][Original!Next]_<<Mpc, Mregs, Mstack>>
  BY <1>1, <1>2, PTL DEF Spec
<1> QED BY <1>3 DEF Original!Runs, Original!codeVars, Mpc, Mregs, Mstack
-----------------------------------------------------------------------------
(* Conditional branches.                                                    *)

CountedAt(o)   == [n \in Addresses |-> Counted(o, n)]
ExpansionAt(o) == [n \in Addresses |-> Expansion(o, n)]
SizeAt(o)      == [n \in Addresses |-> Size(o, n)]

\* What is printed is what was counted and what was added to it.
LEMMA SizeIsCounted ==
  ASSUME NEW o \in Options, NEW a \in Addresses
  PROVE  /\ Counted(o, a) \in Nat \ {0} /\ Expansion(o, a) \in Nat
         /\ Size(o, a) = Counted(o, a) + Expansion(o, a)
<1>1. /\ Pointing(o, a) \in 0..2 /\ Expansion(o, a) \in 0..3
      /\ Len(Core(o, a)) + (IF Mended(o, a) THEN 2 ELSE 0) = 1 + Pointing(o, a) + Expansion(o, a)
  <2>1. CASE Emulated(o, a)
    <3>1. Len(Core(o, a)) = IF o.optimize THEN 4 ELSE 3
      BY <2>1, CoreOf DEF Based
    <3>2. Pointing(o, a) = 0 /\ ~Mended(o, a)
      BY <2>1 DEF Emulated, Pointing, Mended
    <3>3. Expansion(o, a) = IF o.optimize THEN 3 ELSE 2
      BY <2>1, <3>2, Zenon DEF Expansion
    <3> QED
      BY <3>1, <3>2, <3>3
  <2>2. CASE ~Emulated(o, a) /\ Code[a].op = "adr"
    BY <2>2, CoreOf DEF Mended, Based, Pointing, Expansion
  <2>3. CASE ~Emulated(o, a) /\ Code[a].op = "adrp"
    BY <2>3, CoreOf DEF Mended, Based, Pointing, Expansion
  <2>4. CASE Mended(o, a)
    <3>1. Len(Core(o, a)) = 1
      BY <2>4, Lengths
    <3>2. Pointing(o, a) = 0 /\ ~Emulated(o, a)
      BY <2>4 DEF Emulated, Pointing, Mended
    <3>3. Expansion(o, a) = 2
      BY <2>4, <3>2 DEF Expansion
    <3> QED
      BY <2>4, <3>1, <3>2, <3>3
  <2>5. CASE ~Builds(o, a) /\ ~Mended(o, a)
    <3>1. Len(Core(o, a)) = 1
      BY <2>5, CoreOf
    <3>2. Pointing(o, a) = 0 /\ ~Emulated(o, a)
      BY <2>5 DEF Builds, Pointing
    <3>3. Expansion(o, a) = 0
      BY <2>5, <3>2 DEF Expansion
    <3> QED
      BY <2>5, <3>1, <3>2, <3>3
  <2> QED
    BY <2>1, <2>2, <2>3, <2>4, <2>5 DEF Builds
<1>2. PICK before \in Nat, after \in Nat, core \in Nat, pointing \in Nat, more \in Nat, mend \in Nat :
        /\ before = o.before[a] /\ after = o.after[a] /\ core = Len(Core(o, a))
        /\ pointing = Pointing(o, a) /\ more = Expansion(o, a)
        /\ mend = IF Mended(o, a) THEN 2 ELSE 0
  <2>1. o.before[a] \in Nat /\ o.after[a] \in Nat
    BY Constants
  <2>2. Len(Core(o, a)) \in Nat /\ Pointing(o, a) \in Nat /\ Expansion(o, a) \in Nat
    BY <1>1, Lengths
  <2>3. (IF Mended(o, a) THEN 2 ELSE 0) \in Nat
    OBVIOUS
  <2> QED
    BY <2>1, <2>2, <2>3, Zenon
<1>3. Size(o, a) = (before + core) + after + mend
  BY <1>2, Lengths, Zenon
<1>4. Counted(o, a) = before + 1 + pointing + after
  BY <1>2, Zenon DEF Counted
<1>5. core + mend = 1 + pointing + more
  BY <1>1, <1>2, Zenon
<1>6. Size(o, a) = Counted(o, a) + more /\ Counted(o, a) \in Nat \ {0}
  BY <1>3, <1>4, <1>5
<1> QED
  BY <1>2, <1>6

\* Sums over addresses.
LEMMA AddressSums ==
  ASSUME NEW f \in [Addresses -> Nat], NEW a \in Addresses, NEW b \in Addresses, a <= b
  PROVE  LET F(i, j) == SumFunctionOnSet(f, i..j)
         IN  /\ F(0, a - 1) \in Nat /\ F(a, b - 1) \in Nat /\ F(a + 1, b) \in Nat
             /\ F(0, b - 1) = F(0, a - 1) + F(a, b - 1)
             /\ F(a, b - 1) + f[b] = f[a] + F(a + 1, b)
             /\ a < b => f[b] <= F(a + 1, b)
<1> DEFINE F(i, j) == SumFunctionOnSet(f, i..j)
<1>1. a \in Nat /\ b \in Nat /\ \A i, j \in Int : IsFiniteSet(i..j)
  BY CodeAssumption, FS_Interval DEF Addresses
<1>2. \A x \in 0..b : f[x] \in Nat
  BY <1>1, CodeAssumption DEF Addresses
<1>3. F(0, a - 1) \in Nat /\ F(a, b - 1) \in Nat /\ F(a + 1, b) \in Nat
  <2>1. \A x \in 0..a - 1 : f[x] \in Nat
    BY <1>1, <1>2
  <2>2. \A x \in a..b - 1 : f[x] \in Nat
    BY <1>1, <1>2
  <2>3. \A x \in a + 1..b : f[x] \in Nat
    BY <1>1, <1>2
  <2>4. IsFiniteSet(0..a - 1) /\ IsFiniteSet(a..b - 1) /\ IsFiniteSet(a + 1..b)
    BY <1>1
  <2> QED
    BY <2>1, <2>2, <2>3, <2>4, SumNat
<1>4. F(0, b - 1) = F(0, a - 1) + F(a, b - 1)
  <2> DEFINE A == 0..a - 1
             S == a..b - 1
  <2>1. 0..b - 1 = A \cup S /\ A \cap S = {}
    BY <1>1
  <2>2. \A x \in A \cup S : x \in 0..b
    BY <1>1
  <2>3. IsFiniteSet(A) /\ IsFiniteSet(S)
    BY <1>1
  <2> HIDE DEF A, S
  <2>4. SumFunctionOnSet(f, A \cup S) = SumFunctionOnSet(f, A) + SumFunctionOnSet(f, S)
    BY <1>2, <2>1, <2>2, <2>3, SumUnion
  <2> QED
    BY <2>1, <2>4 DEF A, S
<1>5. F(a, b) = f[a] + F(a + 1, b)
  <2>1. a \in a..b /\ (a..b) \ {a} = a + 1..b
    BY <1>1
  <2>2. \A x \in a..b : f[x] \in Nat
    BY <1>1, <1>2
  <2> QED
    BY <1>1, <2>1, <2>2, SumRemove
<1>6. F(a, b) = f[b] + F(a, b - 1)
  <2>1. b \in a..b /\ (a..b) \ {b} = a..b - 1
    BY <1>1
  <2>2. \A x \in a..b : f[x] \in Nat
    BY <1>1, <1>2
  <2> QED
    BY <1>1, <2>1, <2>2, SumRemove
<1>7. f[a] \in Nat /\ f[b] \in Nat
  OBVIOUS
<1>10. ASSUME a < b PROVE f[b] <= F(a + 1, b)
  <2> DEFINE W == a + 1..b
  <2>1. b \in W /\ IsFiniteSet(W) /\ \A x \in W : x \in 0..b
    BY <1>1, <1>10
  <2> HIDE DEF W
  <2>2. IsFiniteSet(W \ {b}) /\ \A x \in W : f[x] \in Nat
    BY <1>2, <2>1, FS_RemoveElement
  <2>3. SumFunctionOnSet(f, W) = f[b] + SumFunctionOnSet(f, W \ {b})
    BY <2>1, <2>2, SumRemove
  <2>4. SumFunctionOnSet(f, W \ {b}) \in Nat /\ f[b] \in Nat
    BY <2>2, SumNat
  <2>5. f[b] <= SumFunctionOnSet(f, W)
    BY <2>3, <2>4
  <2> QED
    BY <2>5 DEF W
<1> HIDE DEF F
<1>8. F(a, b - 1) + f[b] = f[a] + F(a + 1, b)
  BY <1>3, <1>5, <1>6, <1>7
<1>9. /\ F(0, a - 1) \in Nat /\ F(a, b - 1) \in Nat /\ F(a + 1, b) \in Nat
      /\ F(0, b - 1) = F(0, a - 1) + F(a, b - 1)
      /\ F(a, b - 1) + f[b] = f[a] + F(a + 1, b)
      /\ a < b => f[b] <= F(a + 1, b)
  BY <1>3, <1>4, <1>8, <1>10
<1> QED
  BY <1>9 DEF F

\* The way between two addresses, printed and counted.
LEMMA WayPrinted ==
  ASSUME NEW a \in Addresses, NEW b \in Addresses, a <= b, options \in Options
  PROVE  \E before, way, more \in Nat :
           /\ \A s : Position(a, s) = before + s /\ Position(b, s) = before + way + s
           /\ more = Expansions(options, a, b - 1)
           /\ way + Counted(options, b)
                = Counted(options, a) + Instrs(options, a, b) + more
           /\ Instrs(options, b, a) = Instrs(options, a, b) /\ Instrs(options, a, b) \in Nat
           /\ a < b => Counted(options, b) <= Instrs(options, a, b)
<1> DEFINE o == options
           c == CountedAt(o)
           e == ExpansionAt(o)
           z == SizeAt(o)
<1>1. /\ c \in [Addresses -> Nat] /\ e \in [Addresses -> Nat] /\ z \in [Addresses -> Nat]
      /\ \A n \in Addresses : z[n] = c[n] + e[n]
  BY SizeIsCounted DEF CountedAt, ExpansionAt, SizeAt
<1>2. c[a] = Counted(o, a) /\ c[b] = Counted(o, b)
  BY DEF CountedAt
<1> DEFINE S(f, i, j) == SumFunctionOnSet(f, i..j)
<1>3. /\ \A s : Position(a, s) = S(z, 0, a - 1) + s /\ Position(b, s) = S(z, 0, b - 1) + s
      /\ Expansions(o, a, b - 1) = S(e, a, b - 1)
  BY DEF Position, Expansions, SizeAt, ExpansionAt
<1>4. a \in Int /\ b \in Int
  BY Constants DEF Addresses
<1>5. Instrs(o, a, b) = S(c, a + 1, b) /\ Instrs(o, b, a) = S(c, a + 1, b)
  <2>1. (IF a < b THEN a ELSE b) = a /\ (IF a < b THEN b ELSE a) = b
    BY <1>4
  <2>2. (IF b < a THEN b ELSE a) = a /\ (IF b < a THEN a ELSE b) = b
    BY <1>4
  <2> QED
    BY <2>1, <2>2, Zenon DEF Instrs, CountedAt
<1>6. S(z, a, b - 1) = S(c, a, b - 1) + S(e, a, b - 1)
  <2> DEFINE W == a..b - 1
  <2>1. IsFiniteSet(W)
    BY <1>4, FS_Interval
  <2>2. \A n \in W : n \in Addresses
    <3>1. Last \in Nat /\ a \in 0..Last /\ b \in 0..Last
      BY CodeAssumption DEF Addresses
    <3> QED
      BY <3>1 DEF Addresses
  <2> HIDE DEF c, e, z, W
  <2>3. \A n \in W : c[n] \in Nat /\ e[n] \in Nat /\ z[n] = c[n] + e[n]
    BY <1>1, <2>2
  <2>4. SumFunctionOnSet(z, W) = SumFunctionOnSet(c, W) + SumFunctionOnSet(e, W)
    BY <2>1, <2>3, SumPlus
  <2> QED
    BY <2>4 DEF W
<1>7. /\ S(z, 0, a - 1) \in Nat /\ S(z, a, b - 1) \in Nat
      /\ S(z, 0, b - 1) = S(z, 0, a - 1) + S(z, a, b - 1)
  <2> HIDE DEF z
  <2> QED
    BY <1>1, AddressSums
<1>8. /\ S(c, a, b - 1) \in Nat /\ S(c, a + 1, b) \in Nat
      /\ S(c, a, b - 1) + c[b] = c[a] + S(c, a + 1, b)
      /\ a < b => c[b] <= S(c, a + 1, b)
  <2> HIDE DEF c
  <2> QED
    BY <1>1, AddressSums
<1>9. S(e, a, b - 1) \in Nat
  <2> HIDE DEF e
  <2> QED
    BY <1>1, AddressSums
<1>10. c[a] \in Nat /\ c[b] \in Nat
  BY <1>1
<1> HIDE DEF S, c, e, z
<1>11. S(z, a, b - 1) + c[b] = c[a] + S(c, a + 1, b) + S(e, a, b - 1)
  BY <1>6, <1>8, <1>9, <1>10
<1>12. /\ \A s : Position(a, s) = S(z, 0, a - 1) + s /\ Position(b, s) = S(z, 0, a - 1) + S(z, a, b - 1) + s
       /\ S(e, a, b - 1) = Expansions(o, a, b - 1)
       /\ S(z, a, b - 1) + Counted(o, b) = Counted(o, a) + Instrs(o, a, b) + S(e, a, b - 1)
       /\ Instrs(o, b, a) = Instrs(o, a, b) /\ Instrs(o, a, b) \in Nat
       /\ a < b => Counted(o, b) <= Instrs(o, a, b)
  BY <1>2, <1>3, <1>5, <1>7, <1>8, <1>11
<1> QED
  BY <1>7, <1>9, <1>12

LEMMA BranchReaches ==
  ASSUME FewExpanded, options \in Options, NEW a \in Addresses, Code[a].op = "branch"
  PROVE  Distance(a) < 2 * Threshold
<1> DEFINE o  == options
           to == Code[a].to
<1>1. /\ to \in Addresses /\ o.after[a] + 2 < 2 * Threshold
      /\ ~Mended(o, a) => IF a < to THEN o.after[a] + Expansions(o, a, to - 1) < Threshold
                          ELSE Counted(o, to) + Expansions(o, to, a - 1) <= Threshold
  BY DEF FewExpanded
<1>2. /\ a \in Int /\ to \in Int /\ o.before[a] \in Nat /\ o.after[a] \in Nat /\ Threshold \in Nat
      /\ o.before[to] \in Nat
  BY <1>1, Constants, CodeAssumption
<1>3. CASE Mended(o, a)
  <2>1. PICK n \in Nat : \A s : Position(a, s) = n + s
    BY <1>2, WayPrinted
  <2>2. Size(o, a) = o.before[a] + 1 + o.after[a] + 2
    BY <1>3, Lengths
  <2> DEFINE from == Position(a, o.before[a] + 1)
             end  == Position(a, Size(o, a))
  <2>3. from = n + (o.before[a] + 1) /\ end = n + Size(o, a)
    BY <2>1
  <2>4. Distance(a) = IF from < end THEN end - from ELSE from - end
    BY <1>3, Zenon DEF Distance
  <2> HIDE DEF from, end
  <2> QED
    BY <1>1, <1>2, <2>2, <2>3, <2>4
<1>4. CASE ~Mended(o, a) /\ a < to
  <2>1. PICK n, way, more \in Nat :
          /\ \A s : Position(a, s) = n + s /\ Position(to, s) = n + way + s
          /\ more = Expansions(o, a, to - 1)
          /\ way + Counted(o, to) = Counted(o, a) + Instrs(o, a, to) + more
          /\ Instrs(o, to, a) = Instrs(o, a, to) /\ Instrs(o, a, to) \in Nat
          /\ a < to => Counted(o, to) <= Instrs(o, a, to)
    <3>1. a <= to
      BY <1>2, <1>4
    <3> QED
      BY <1>1, <3>1, WayPrinted, Zenon
  <2>2. Counted(o, to) \in Nat \ {0} /\ Counted(o, a) = o.before[a] + 1 + o.after[a]
    BY <1>1, <1>2, SizeIsCounted DEF Counted, Pointing
  <2>3. Instrs(o, a, to) <= Threshold
    BY <1>2, <1>4, <2>1 DEF Mended
  <2> DEFINE from == Position(a, o.before[a] + 1)
             end  == Position(to, 1)
  <2>4. from = n + (o.before[a] + 1) /\ end = n + way + 1
    BY <2>1
  <2>7. Distance(a) = IF from < end THEN end - from ELSE from - end
    BY <1>4, Zenon DEF Distance
  <2> HIDE DEF from, end
  <2>5. o.after[a] + more < Threshold
    BY <1>1, <1>4, <2>1
  <2>6. way \in Nat /\ o.before[a] < way /\ way < o.before[a] + 2 * Threshold
    BY <1>2, <1>4, <2>1, <2>2, <2>3, <2>5
  <2> QED
    BY <1>2, <2>4, <2>6, <2>7
<1>5. CASE ~Mended(o, a) /\ ~(a < to)
  <2>1. PICK n, way, more \in Nat :
          /\ \A s : Position(to, s) = n + s /\ Position(a, s) = n + way + s
          /\ more = Expansions(o, to, a - 1)
          /\ way + Counted(o, a) = Counted(o, to) + Instrs(o, to, a) + more
          /\ Instrs(o, a, to) = Instrs(o, to, a) /\ Instrs(o, to, a) \in Nat
          /\ to < a => Counted(o, a) <= Instrs(o, to, a)
    <3>1. to <= a
      BY <1>2, <1>5
    <3> QED
      BY <1>1, <3>1, WayPrinted, Zenon
  <2>2. Counted(o, to) \in Nat \ {0} /\ Counted(o, a) = o.before[a] + 1 + o.after[a]
    BY <1>1, <1>2, SizeIsCounted DEF Counted, Pointing
  <2>3. Instrs(o, to, a) <= Threshold
    BY <1>2, <1>5, <2>1 DEF Mended
  <2> DEFINE from == Position(a, o.before[a] + 1)
             end  == Position(to, 1)
  <2>4. from = n + way + (o.before[a] + 1) /\ end = n + 1
    BY <2>1
  <2>7. Distance(a) = IF from < end THEN end - from ELSE from - end
    BY <1>5, Zenon DEF Distance
  <2> HIDE DEF from, end
  <2>5. Counted(o, to) + more <= Threshold
    BY <1>1, <1>5, <2>1
  <2>6. way + o.before[a] + 1 <= 2 * Threshold
    BY <1>2, <2>1, <2>2, <2>3, <2>5
  <2> QED
    BY <1>2, <2>4, <2>6, <2>7
<1> QED
  BY <1>3, <1>4, <1>5

\* Every conditional branch reaches the label it names, for every program and
\* threshold and whatever a pass inserts, when few calls and mended branches lie on
\* the way of each (fix_shortjumps counts before emulate_calls and its own changes;
\* its thresholds leave a factor of two).
THEOREM BranchesReach == FewExpanded => (Spec => []ShortJumpsReach)
<1> SUFFICES ASSUME FewExpanded PROVE Spec => []ShortJumpsReach
  OBVIOUS
<1>1. Init => options \in Options
  BY DEF Init
<1>2. options \in Options /\ [Next]_vars => (options \in Options)'
  BY DEF Next, vars, Land, Plain, SetPage, SetBase, Add, Load, Branch, MendedBranch, Jump,
         JumpRegister, Call, CallRegister, Push, Pop, Return, Catch, Terminate, Step
<1>3. options \in Options => ShortJumpsReach
  BY BranchReaches DEF ShortJumpsReach
<1> QED
  BY <1>1, <1>2, <1>3, PTL DEF Spec
=============================================================================
