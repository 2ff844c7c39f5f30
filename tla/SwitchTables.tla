---------------------------- MODULE SwitchTables ----------------------------
(***************************************************************************)
(* Symbolizer.symbolize_switch_tables (librw_x64/rw.py): which words of    *)
(* .rodata are taken for entries of a jump table.  An entry is the         *)
(* distance from the table's base to an instruction of the function that   *)
(* uses the table.  The binary does not say where tables are: every        *)
(* address of .rodata that a function uses is tried as the base of one.    *)
(*                                                                         *)
(* DataSection keeps one cell per byte; replacing a word puts a label of   *)
(* the word's size into its first cell and ignores the others.             *)
(***************************************************************************)
EXTENDS Integers, Sequences, FiniteSets, FiniteSetsExt, Functions

CONSTANTS
  Inputs,        \* sections and uses: [bytes : a sequence, used : what each function uses]
  Instructions,  \* the addresses of each function's instructions
  Base,          \* address of the section
  Entry,         \* 4: bytes of an entry
  Radix          \* 256: values of a byte

Fns == DOMAIN Instructions
\* The ELF header lies below any section.
ASSUME SizesAssumption == Base \in Nat \ {0} /\ Entry \in Nat \ {0} /\ Radix \in Nat \ {0}
ASSUME InputsAssumption ==
  \A i \in Inputs : /\ i.bytes \in Seq(0..(Radix - 1))
                    /\ i.used \in [Fns -> SUBSET (Base..(Base + Len(i.bytes) - 1))]

VARIABLES
  input,  \* the section and its uses
  cells,  \* DataSection.cache: the cell of each address
  left,   \* functions of pot_sw_bases not looked at yet
  fn,     \* the current function, and the bases of it not tried yet
  bases,
  swbase, \* the table that is being followed, 0 when there is none
  slot    \* and the place in it

vars == <<input, cells, left, fn, bases, swbase, slot>>

NoLabel        == <<>>
Cell(b)        == [byte |-> b, label |-> NoLabel, sz |-> 1, ignored |-> FALSE]
End            == Base + Len(input.bytes)
Places         == Base..(End - 1)
Byte(a)        == input.bytes[a - Base + 1]
Word(a)        == a..(a + Entry - 1)

Init ==
  /\ input \in Inputs
  /\ cells = [x \in Places |-> Cell(Byte(x))]
  /\ left = Fns /\ fn = (CHOOSE f \in Fns : TRUE) /\ bases = {}
  /\ swbase = 0 /\ slot = 0

\* all_bases
AllBases == UNION {input.used[f] : f \in Fns}

\* read_at gives no value when one of the cells holds a label ...
Readable(a) == \A x \in Word(a) \cap Places : cells[x].label = NoLabel

\* ... and otherwise the bytes of all cells, ignored or not, with zeros behind
\* the end of the section.
Number(bytes, a) == LET word == Word(a) \cap Places
                    IN  SumFunctionOnSet([x \in word |-> bytes[x] * Radix^(x - a)], word)
Value(a)         == Number([x \in Places |-> cells[x].byte], a)

Target(a, b) == (Value(a) + b) % Radix^Entry

\* An entry at a of a table at b, for function f.
IsEntry(f, a, b) == /\ Readable(a) /\ Value(a) # 0
                    /\ Target(a, b) \in Instructions[f]

\* DataSection.replace
Replace(a, label) ==
  cells' = [x \in DOMAIN cells |->
              [byte    |-> cells[x].byte,
               label   |-> IF x = a THEN label ELSE cells[x].label,
               sz      |-> IF x = a THEN Entry ELSE cells[x].sz,
               ignored |-> cells[x].ignored \/ (x # a /\ x \in Word(a))]]

\* The functions in the order of the dictionary, which is any.
NextFunction ==
  /\ swbase = 0 /\ bases = {} /\ left # {}
  /\ fn' \in left /\ left' = left \ {fn'} /\ bases' = input.used[fn']
  /\ UNCHANGED <<input, cells, swbase, slot>>

\* The bases of a function from the highest down: the first entry decides.
TryBase ==
  /\ swbase = 0 /\ bases # {}
  /\ LET b == Max(bases)
     IN /\ bases' = bases \ {b}
        /\ IF IsEntry(fn, b, b)
           THEN Replace(b, <<Target(b, b), b>>) /\ swbase' = b /\ slot' = b + Entry
           ELSE UNCHANGED <<cells, swbase, slot>>
  /\ UNCHANGED <<input, left, fn>>

\* Mutants: only the place itself, or only the bases of this function, end a table.
BlockedAtSlot(a)     == a \in AllBases
BlockedByFunction(a) == Word(a) \cap input.used[fn] # {}
\* A table ends where something is used by an address of its own.
Blocked(a) == Word(a) \cap AllBases # {}

\* "Symbolize as long as we can"
Follow ==
  /\ swbase # 0
  /\ IF slot < End /\ ~Blocked(slot) /\ IsEntry(fn, slot, swbase)
     THEN /\ Replace(slot, <<Target(slot, swbase), swbase>>)
          /\ slot' = slot + Entry /\ UNCHANGED swbase
     ELSE swbase' = 0 /\ slot' = 0 /\ UNCHANGED cells
  /\ UNCHANGED <<input, left, fn, bases>>

Next == NextFunction \/ TryBase \/ Follow
Spec == Init /\ [][Next]_vars /\ WF_vars(Next)

Done == left = {} /\ bases = {} /\ swbase = 0
-----------------------------------------------------------------------------
(* Reference: the tables of a section, from its bytes alone.               *)

Distance(a)    == Number([x \in Places |-> Byte(x)], a)
Leads(f, a, b) == Distance(a) # 0 /\ (Distance(a) + b) % Radix^Entry \in Instructions[f]
Tables         == {t \in [fn : Fns, base : Places] :
                     t.base \in input.used[t.fn] /\ Leads(t.fn, t.base, t.base)}
\* The slots of a table: its entries up to the first place that is used otherwise.
Slots(t) ==
  {a \in t.base..(End - 1) :
     /\ (a - t.base) % Entry = 0
     /\ \A s \in t.base..a : (s - t.base) % Entry = 0 =>
          Leads(t.fn, s, t.base) /\ (s = t.base \/ Word(s) \cap AllBases = {})}

\* What the heuristic needs of a program: nothing is used inside the first
\* entry of a table, and no two functions share a table.
Sound == \A t \in Tables : /\ Word(t.base) \cap AllBases = {t.base}
                           /\ \A u \in Tables : u.base = t.base => u = t

\* The outcome does not depend on the order of functions and bases: exactly the
\* slots of the tables become labels, each relative to the base of its own
\* table; every other byte stays, and every place that is used keeps its label
\* (__str__ prints none for an ignored cell).
RewritesTables ==
  Done /\ Sound =>
    \A a \in Places :
      LET own == {t \in Tables : a \in Slots(t)}
          in  == {t \in Tables : \E s \in Slots(t) : a \in Word(s)}
      IN cells[a] =
           [byte |-> Byte(a),
            label |-> IF own = {} THEN NoLabel
                      ELSE LET b == (CHOOSE t \in own : TRUE).base
                           IN <<(Distance(a) + b) % Radix^Entry, b>>,
            sz |-> IF own = {} THEN 1 ELSE Entry,
            ignored |-> own = {} /\ in # {}]
=============================================================================
