---------------------------- MODULE AnalysisStage ----------------------------
(***************************************************************************)
(* How the result of the register analysis reaches the instrumentation, in *)
(* a series of invocations of the retrowrite command line:                 *)
(*   user space  the analysis runs in the process, or its result is loaded *)
(*               from the file <outfile>.analysis_cache, which outlives it *)
(*   kernel      an external tool analyses all functions at once, each in  *)
(*               a goroutine; functions go and come back by name           *)
(* A command can be interrupted between any two steps; only the files stay.*)
(*                                                                         *)
(* The free registers of a function are represented by the code they were  *)
(* computed from, <<binary, start address>>.                               *)
(***************************************************************************)
EXTENDS Integers, Sequences, FiniteSets, Functions

CONSTANTS
  Symbols,   \* for each binary the function symbols [name, start, size], in order
  Unknown,   \* code in which capstone names a register the tool does not know
  Commands,  \* the commands [bin, out, kernel, cache] that may be given
  Outfiles,  \* the output files they name
  Most       \* bound: commands in a row

ASSUME CommandsAssumption ==
  Commands \subseteq [bin : DOMAIN Symbols, out : Outfiles, kernel : BOOLEAN, cache : BOOLEAN]
ASSUME SymbolsAssumption ==
  \A b \in DOMAIN Symbols : Symbols[b] \in Seq([name : STRING, start : Nat, size : Nat])

VARIABLES
  disk,       \* of each output file the cache: a state and the entries in it
  given,      \* the commands given so far; the last one runs
  pc,         \* what it does: see the actions
  loaded,     \* symbols loaded so far
  functions,  \* container.functions, as a set of [name, start, size]
  names,      \* container.function_names
  analysis,   \* fn.analysis["free_registers"], by start address
  cf,         \* the tool's input: code by function name
  sent,       \* names of the goroutines that delivered their result
  results     \* the tool's output: code by function name

stageVars == <<disk, given, pc, loaded, functions, names, analysis, cf, sent, results>>
tool == <<cf, sent, results>>
container == <<loaded, functions, names>>

Cmd       == given[Len(given)]
Starts    == {f.start : f \in functions}
Own(s)    == <<Cmd.bin, s>>
NoMap     == [x \in {} |-> x]
Ended     == {"done", "failed", "interrupted"}
NoCache   == [state |-> "none", entries |-> NoMap]
Cache     == disk[Cmd.out]

StageInit ==
  /\ disk = [o \in Outfiles |-> NoCache]
  /\ (\E c \in Commands : given = <<c>>) /\ pc = "load"
  /\ loaded = 0 /\ functions = {} /\ names = {} /\ analysis = NoMap
  /\ cf = NoMap /\ sent = {} /\ results = NoMap

\* A new process: nothing is left but the files.
NextCommand ==
  /\ pc \in Ended /\ Len(given) < Most
  /\ \E c \in Commands : given' = Append(given, c)
  /\ pc' = "load"
  /\ loaded' = 0 /\ functions' = {} /\ names' = {} /\ analysis' = NoMap
  /\ cf' = NoMap /\ sent' = {} /\ results' = NoMap
  /\ UNCHANGED disk

Interrupt ==
  /\ pc \notin Ended
  /\ pc' = "interrupted"
  /\ UNCHANGED <<disk, given, container, analysis, tool>>

-----------------------------------------------------------------------------
(* The container.                                                          *)

\* Mutant: the second of two functions with a name gets the same new name as
\* the third.
NameUnnumbered(sym) == IF <<sym.name>> \in names THEN <<sym.name, 0>> ELSE <<sym.name>>

\* A name that is taken gets the address appended; a name is the tuple of its parts.
NameOf(sym) == IF <<sym.name>> \in names THEN <<sym.name, sym.start>> ELSE <<sym.name>>

Overlaps(f, g) == f.start < g.start + g.size /\ g.start < f.start + f.size

\* add_function: the user space container is keyed by address, the last symbol
\* wins; the kernel's keeps intervals, the first symbol wins.
AddFunction ==
  /\ pc = "load" /\ loaded < Len(Symbols[Cmd.bin])
  /\ LET sym == Symbols[Cmd.bin][loaded + 1]
         new == [sym EXCEPT !.name = NameOf(sym)]
     IN /\ functions' =
             IF ~Cmd.kernel THEN {f \in functions : f.start # new.start} \cup {new}
             ELSE IF new.size = 0 \/ \E f \in functions : Overlaps(f, new) THEN functions
             ELSE functions \cup {new}
        /\ names' = names \cup {new.name}
  /\ loaded' = loaded + 1
  /\ UNCHANGED <<disk, given, pc, analysis, tool>>

\* asank, or analyze_registers.
Loaded ==
  /\ pc = "load" /\ loaded = Len(Symbols[Cmd.bin])
  /\ pc' = IF Cmd.kernel THEN "dump_cf" ELSE IF Cmd.cache THEN "load_cache" ELSE "analyze"
  /\ UNCHANGED <<disk, given, container, analysis, tool>>

-----------------------------------------------------------------------------
(* User space: analyze_registers.                                          *)

\* Mutant: a cache that was cut short counts as far as it goes.
LoadCacheAsFarAsItGoes ==
  /\ pc = "load_cache"
  /\ \/ /\ Cache.state = "none" /\ pc' = "analyze" /\ UNCHANGED analysis
     \/ /\ Cache.state # "none"
        /\ analysis' = Restrict(Cache.entries, DOMAIN Cache.entries \cap Starts)
        /\ pc' = "instrument"
  /\ UNCHANGED <<disk, given, container, tool>>

\* load_analysis_cache: only an IOError leads to the analysis.  A file that was
\* cut short is no JSON (ValueError); an address without a function is a
\* KeyError.  Both end the command.
LoadCache ==
  /\ pc = "load_cache"
  /\ \/ Cache.state = "none" /\ pc' = "analyze" /\ UNCHANGED analysis
     \/ Cache.state = "partial" /\ pc' = "failed" /\ UNCHANGED analysis
     \/ /\ Cache.state = "complete"
        /\ IF DOMAIN Cache.entries \subseteq Starts
           THEN analysis' = Cache.entries /\ pc' = "instrument"
           ELSE pc' = "failed" /\ UNCHANGED analysis
  /\ UNCHANGED <<disk, given, container, tool>>

\* RegisterAnalysis.analyze
Analyze ==
  /\ pc = "analyze"
  /\ analysis' = [s \in Starts |-> Own(s)]
  /\ pc' = IF Cmd.cache THEN "open_cache" ELSE "instrument"
  /\ UNCHANGED <<disk, given, container, tool>>

SetCache(state, entries) ==
  disk' = [disk EXCEPT ![Cmd.out] = [state |-> state, entries |-> entries]]

\* save_analysis_cache: open(..., "w") truncates the file, then json.dump
\* writes it piece by piece.
OpenCache ==
  /\ pc = "open_cache"
  /\ SetCache("partial", NoMap)
  /\ pc' = "write_cache"
  /\ UNCHANGED <<given, container, analysis, tool>>

WriteCache ==
  /\ pc = "write_cache"
  /\ LET left == DOMAIN analysis \ DOMAIN Cache.entries
     IN IF left = {} THEN /\ SetCache("complete", Cache.entries) /\ pc' = "instrument"
        ELSE /\ \E s \in left :
                  SetCache("partial", [x \in DOMAIN Cache.entries \cup {s} |-> analysis[x]])
             /\ UNCHANGED pc
  /\ UNCHANGED <<given, container, analysis, tool>>

-----------------------------------------------------------------------------
(* Kernel: asank, and main of cftool.                                      *)

\* dump_cf_info writes a dictionary: of functions with one name the last stays.
DumpCf ==
  /\ pc = "dump_cf"
  /\ LET named == {f.name : f \in functions}
     IN \E last \in [named -> functions] :
          /\ \A nm \in named : last[nm].name = nm
          /\ cf' = [nm \in named |-> Own(last[nm].start)]
  /\ pc' = "tool"
  /\ UNCHANGED <<disk, given, container, analysis, sent, results>>

\* Mutant: one result more than there are goroutines is awaited.
ResultsAwaitedOneMore == Cardinality(DOMAIN cf) + 1
ResultsAwaited == Cardinality(DOMAIN cf)     \* len(data)

\* Mutant: the map of results is made anew for each of them.
CollectedAnew(nm) == [x \in {nm} |-> cf[x]]
\* out[ar.FunctionName] = ...
Collected(nm) == [x \in DOMAIN results \cup {nm} |-> IF x = nm THEN cf[nm] ELSE results[x]]

\* The main goroutine receives a result; the channel has no buffer, so this is
\* also the step in which the sender's goroutine ends.
Receive(nm) ==
  /\ pc = "tool" /\ Cardinality(sent) < ResultsAwaited
  /\ nm \in DOMAIN cf \ sent /\ cf[nm] \notin Unknown
  /\ sent' = sent \cup {nm}
  /\ results' = Collected(nm)
  /\ UNCHANGED <<disk, given, pc, container, analysis, cf>>

\* regNameToUnitSet: a panic in any goroutine ends the tool, check_call raises.
Panic(nm) ==
  /\ pc = "tool"
  /\ nm \in DOMAIN cf \ sent /\ cf[nm] \in Unknown
  /\ pc' = "failed"
  /\ UNCHANGED <<disk, given, container, analysis, tool>>

\* encoder.Encode(out), the exit of the tool and json.load.
Encode ==
  /\ pc = "tool" /\ Cardinality(sent) = ResultsAwaited
  /\ pc' = "attach"
  /\ UNCHANGED <<disk, given, container, analysis, tool>>

\* Mutant: the results are taken to be in the order of the functions.
AttachInOrder ==
  /\ pc = "attach"
  /\ \E order \in [Starts -> DOMAIN results] :
       /\ IsInjective(order)
       /\ analysis' = [s \in Starts |-> results[order[s]]]
  /\ pc' = "instrument"
  /\ UNCHANGED <<disk, given, container, tool>>

\* Each result goes to the first function get_function_by_name finds.
Attach ==
  /\ pc = "attach"
  /\ \E fn \in [DOMAIN results -> functions] :
       /\ \A nm \in DOMAIN results : fn[nm].name = nm
       /\ analysis' = [s \in {f.start : f \in Range(fn)} |->
                         results[CHOOSE nm \in DOMAIN results : fn[nm].start = s]]
  /\ pc' = "instrument"
  /\ UNCHANGED <<disk, given, container, tool>>

-----------------------------------------------------------------------------
\* The pass looks up every function (TypeError when one has no registers); the
\* kernel branch of the command line names a class that it never imported.
Instrument ==
  /\ pc = "instrument"
  /\ pc' = IF ~Cmd.kernel /\ Starts \subseteq DOMAIN analysis THEN "done" ELSE "failed"
  /\ UNCHANGED <<disk, given, container, analysis, tool>>

Step == \/ AddFunction \/ Loaded \/ LoadCache \/ Analyze \/ OpenCache \/ WriteCache
        \/ DumpCf \/ (\E nm \in DOMAIN cf : Receive(nm) \/ Panic(nm)) \/ Encode
        \/ Attach \/ Instrument
StageNext == Step \/ NextCommand \/ Interrupt

\* The process and its goroutines run; nobody need interrupt it or start another.
StageSpec == StageInit /\ [][StageNext]_stageVars /\ WF_stageVars(Step)
-----------------------------------------------------------------------------
Codes    == (DOMAIN Symbols) \X Nat
IsMap(m) == m \in [DOMAIN m -> Codes]
TypeOK ==
  /\ DOMAIN disk = Outfiles
  /\ \A o \in Outfiles : /\ disk[o].state \in {"none", "partial", "complete"}
                        /\ IsMap(disk[o].entries)
  /\ given \in Seq(Commands) \ {<<>>}
  /\ pc \in Ended \cup {"load", "load_cache", "analyze", "open_cache", "write_cache",
                       "dump_cf", "tool", "attach", "instrument"}
  /\ loaded \in 0..Len(Symbols[Cmd.bin])
  /\ \A f \in functions : f.start \in Nat /\ f.size \in Nat /\ f.name \in names
  /\ IsMap(analysis) /\ IsMap(cf) /\ IsMap(results)
  /\ DOMAIN results = sent /\ sent \subseteq DOMAIN cf

\* An earlier command left its cache under the same output name for other code:
\* "Save/load register analysis cache" (retrowrite line 189) has no other key.
StaleFrom(bin) ==
  \E k \in 1..(Len(given) - 1) : /\ given[k].cache /\ ~given[k].kernel
                                 /\ given[k].out = Cmd.out /\ given[k].bin = bin

\* A function is never instrumented with the registers of other code: not of
\* another function of its name or of one whose goroutine was faster, and of
\* another binary only through a cache for the same output (lines 14-82).
OwnRegisters ==
  \A s \in DOMAIN analysis :
    \/ analysis[s] = Own(s)
    \/ /\ Cmd.cache /\ ~Cmd.kernel
       /\ \E b \in DOMAIN Symbols : analysis[s] = <<b, s>> /\ StaleFrom(b)

\* When the instrumentation starts no function lacks its registers: none was
\* lost to a name used twice, or to a save of the cache that was interrupted.
EveryFunctionAnalysed ==
  pc = "instrument" /\ ~(Cmd.cache /\ \E b \in DOMAIN Symbols \ {Cmd.bin} : StaleFrom(b))
    => DOMAIN analysis = Starts

\* Every command ends: the tool is never left with a goroutine that waits to
\* send or with a receive nobody answers (main.go lines 412-436).
EveryCommandEnds == pc \notin Ended ~> pc \in Ended
=============================================================================
