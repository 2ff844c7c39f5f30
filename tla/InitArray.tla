------------------------------ MODULE InitArray ------------------------------
(***************************************************************************)
(* What becomes of the program's .init_array, the table of functions that  *)
(* run before main():                                                      *)
(*   Loader.load_functions gives functions to entries without a symbol     *)
(*   Loader.load_data_sections leaves out frame_dummy                      *)
(*   Symbolizer.symbolize_data_sections puts labels where the relocations  *)
(*   are, each moved down by one entry                                     *)
(*   an instrumentation pass appends the constructor of its runtime        *)
(* An entry of the array is a record                                       *)
(*   fn      the function it points to ("frame_dummy" for crtstuff's)      *)
(*   symbol  there is a function symbol for it                             *)
(*   sized   the symbol has a size, so that addresses fall into it         *)
(*   below   some known function lies at a higher address                  *)
(* The section is a sequence of eight-byte entries: bytes as they were     *)
(* ("raw"), a .quad of a label, or a .quad of a label followed by seven    *)
(* bytes that should have been replaced by it ("torn").                    *)
(***************************************************************************)
EXTENDS Integers, Sequences, SequencesExt, Subsequences

CONSTANTS
  Arrays,   \* the tables to process
  Names,    \* the functions they point to
  Runtime   \* the constructor the pass appends

Entries == [fn : Names, symbol : BOOLEAN, sized : BOOLEAN, below : BOOLEAN]
ASSUME ArraysAssumption == Arrays \subseteq Seq(Entries) /\ Runtime \notin Names

VARIABLES
  array,   \* the table in the binary; relocation i points at entry i
  known,   \* functions of the container, with the name they go by
  stubs,   \* functions whose body was replaced by ret
  entries, \* the section's cache
  step,    \* "functions", "data", "relocations", "instrument", "done", "crashed"
  next     \* the entry or relocation the current loop is at

arrayVars == <<array, known, stubs, entries, step, next>>

Raw(fn)   == [kind |-> "raw", fn |-> fn]
Label(fn) == [kind |-> "label", fn |-> fn]
Torn(fn)  == [kind |-> "torn", fn |-> fn]

\* Functions loaded from the symbol table: <<function, name, has a size>>.
ArrayInit ==
  /\ array \in Arrays
  /\ known = {<<e.fn, e.fn, e.sized>> : e \in {x \in ToSet(array) : x.symbol}}
  /\ stubs = {} /\ entries = <<>> /\ step = "functions" /\ next = 1

Knows(fn)     == \E k \in known : k[1] = fn
Named(fn, nm) == \E k \in known : k[1] = fn /\ k[2] = nm
\* Mutant: the end of a function counts as inside it.
HasCodeInclusive(fn) == \E k \in known : k[1] = fn
HasCode(fn)   == \E k \in known : k[1] = fn /\ k[3]    \* function_of_address

Advance(to) == IF next < Len(array) THEN next' = next + 1 /\ UNCHANGED step
                                    ELSE next' = 1 /\ step' = to

\* load_functions, lines 63-83: an entry without a function gets one that
\* reaches up to the next function, if there is a next one; the body of the very
\* first is a single ret.
AddMissing ==
  /\ step = "functions"
  /\ LET fn == array[next].fn IN
     IF Knows(fn) \/ ~array[next].below THEN UNCHANGED <<known, stubs>>
     ELSE /\ known' = known \cup {<<fn, "entry", TRUE>>}
          /\ stubs' = IF next = 1 THEN stubs \cup {fn} ELSE stubs
  /\ Advance("data")
  /\ UNCHANGED <<array, entries>>

\* load_data_sections, lines 109-129: copy the entries except frame_dummy.
CopyEntry ==
  /\ step = "data"
  /\ LET fn == array[next].fn IN
     entries' = IF Named(fn, "frame_dummy") THEN entries ELSE Append(entries, Raw(fn))
  /\ Advance("relocations")
  /\ UNCHANGED <<array, known, stubs>>

\* Mutant: the other pointers keep their places.
RelocateInPlace ==
  /\ step = "relocations"
  /\ LET fn == array[next].fn IN
     /\ entries' = IF HasCode(fn) /\ next <= Len(entries) THEN [entries EXCEPT ![next] = Label(fn)]
                 ELSE entries
     /\ Advance("instrument")
  /\ UNCHANGED <<array, known, stubs>>

(***************************************************************************)
(* symbolize_data_sections, lines 777-792, with DataSection.replace: the   *)
(* relocation of an entry that is in no function is dropped, any other is  *)
(* applied one entry lower.  One entry below the first is index -8 of a    *)
(* Python list: the first byte of the last entry, with an empty slice of   *)
(* bytes to ignore after it.                                               *)
(***************************************************************************)
Relocate ==
  /\ step = "relocations"
  /\ LET fn == array[next].fn
         at == next - 1
     IN IF ~HasCode(fn) \/ at > Len(entries) THEN
          UNCHANGED entries /\ Advance("instrument")
        ELSE IF at >= 1 THEN
          entries' = [entries EXCEPT ![at] = Label(fn)] /\ Advance("instrument")
        ELSE IF entries # <<>> THEN
          entries' = [entries EXCEPT ![Len(entries)] = Torn(fn)] /\ Advance("instrument")
        ELSE step' = "crashed" /\ UNCHANGED <<entries, next>>
  /\ UNCHANGED <<array, known, stubs>>

\* Instrument: section.cache.append(constructor).
AppendRuntime ==
  /\ step = "instrument"
  /\ entries' = Append(entries, Label(Runtime))
  /\ step' = "done"
  /\ UNCHANGED <<array, known, stubs, next>>

ArrayNext == AddMissing \/ CopyEntry \/ Relocate \/ AppendRuntime
ArraySpec == ArrayInit /\ [][ArrayNext]_arrayVars /\ WF_arrayVars(ArrayNext)
-----------------------------------------------------------------------------
\* The constructors of the program: all entries but frame_dummy.
Constructors == LET fns == [i \in 1..Len(array) |-> array[i].fn]
                IN  Only(fns, ToSet(fns) \ {"frame_dummy"})

\* The rewritten program runs exactly its constructors, each with its own code,
\* in their order, and then the runtime's: every entry is a label, because a
\* raw or torn entry is not an address in the rewritten program.  "We should
\* offset the other pointers in that section" (rw.py lines 788-790).
\* The exceptions: a table that does not begin with frame_dummy, which has a
\* symbol without a size (a constructor with a priority stands before it), is
\* torn; a constructor whose symbol has no size keeps its raw entry; one without
\* a symbol that ends .text has no function to go by.
Recoverable ==
  /\ Len(array) > 0
  /\ \A i \in 1..Len(array) :
       LET e == array[i]
       IN  IF i = 1 THEN e.fn = "frame_dummy" /\ e.symbol /\ ~e.sized
           ELSE e.fn # "frame_dummy" /\ (IF e.symbol THEN e.sized ELSE e.below)
RunsConstructors ==
  step = "done" /\ Recoverable =>
    /\ entries = [i \in 1..(Len(Constructors) + 1) |->
                    Label(IF i <= Len(Constructors) THEN Constructors[i] ELSE Runtime)]
    /\ stubs \cap ToSet(Constructors) = {}

\* Symbolization of the section always completes (no IndexError).
Completes == <>(step = "done")
=============================================================================
