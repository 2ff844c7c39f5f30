# RetroWrite: a verification project

RetroWrite (`src/project/retrowrite`) rewrites a position-independent x86-64 binary
into assembly that can be reassembled, and instruments it on the way: with
AddressSanitizer checks, or with one of the two passes this repository adds, edge
coverage and function tracing. A variant rewrites kernel modules, with an analysis tool
of its own, and a second backend rewrites arm64 binaries for afl-fuzz. This directory holds TLA+ models of that program, TLC
configurations that check them on small instances, and TLAPS proofs for the results
that matter most.

The rewriter is sequential, and what it decides is hard to test: one wrong register in
the free set, one push in the wrong place, and the *rewritten* program misbehaves, on
some inputs, much later. The code it inserts does run concurrently: its globals are
shared by all the threads of the rewritten program, without a lock, and the arm64
runtime is a server of processes. Around the rewriter, results survive in a cache file
or come from goroutines of another program. The models follow
that split: algorithms of the rewriter on one side, behaviour of the inserted code on
the other, and a composition (`Clobber`) in which the second runs on the results of the
first.

## Inventory

Paths are relative to `src/project/retrowrite`.

| Component | State | Operations | What makes it correct | Here |
|---|---|---|---|---|
| Loader, containers (`librw_x64/loader.py`, `container.py`) | functions, sections as caches of cells, relocations | load symbols, sections, relocations | sections keep their layout; constructors survive | `.init_array` only: `InitArray` |
| Control-flow recovery (`rw.py`, `symbolize_cf_transfer`) | `nexts`, `bbstarts` of each function | one pass over the instructions | every real edge is covered or answered with "undef" | `ControlFlow`, `BlockEntries`, `Clobber` |
| Switch tables (`rw.py`, `symbolize_switch_tables`) | cells, `pot_sw_bases` | follow each table from its base, replace words by labels | exactly the tables' slots become labels, whatever the order | `SwitchTables` |
| Symbolization of operands and data (`rw.py`) | cells, `bases` | replace values by labels | labels name what the addresses named | relocations of `.init_array` only |
| Register analysis (`analysis/register.py`) | `used_regs`, `free_regs`, the pass's `change` | `analyze_instruction`, passes, `finalize` | a free register is never read before it is written | `RegAnalysis`, `Clobber` |
| Leaf analysis (`analysis/stackframe.py`) | the leaf flag | scan for accesses below rsp | no red zone is overlooked | `Trampoline` |
| ASan checks (`rwtools_x64/asan`) | checked sites | choose scratch registers, save, check, restore | transparent, exact | `AsanCheck`, `Trampoline` |
| ASan stack redzones (`instrument_stack`) | poisoned slots | poison on entry, unpoison before the canary is read or a longjmp | a slot is poisoned exactly while a canary is in it | `StackRedzone` |
| Coverage pass (`rwtools_x64/coverage`) | bitmap, `__cov_prev_loc` | constructor, trampoline per block | counts the edges taken | `Coverage`, `EdgeProfile`, `Words`, `Trampoline`, `BlockEntries` |
| Trace pass (`rwtools_x64/trace`) | ring buffer, index, print flag | constructor, trampoline per function, `__trace_log_entry` | logs the last calls in order | `TraceBuffer`, `BoundedLog`, `Trampoline` |
| Exception tables, DWARF | decoded tables | decode, print | | not modelled |
| CLI and free-register cache (`retrowrite`) | a JSON file | the pipeline, load/save | a function gets its own registers, all of them | `AnalysisStage` |
| Kernel container, cftool (`librw_x64/kcontainer.py`, `krw.py`, `cftool/main.go`) | functions and their names, a channel, results by name | add functions, dump them, one goroutine each, analyse, collect | names tell functions apart, the tool ends, free registers are free | `AnalysisStage`, `RegAnalysis` |
| arm64 coverage runtime (`rwtools_arm64/coverage`) | processes, two pipes, the shared map | set up, serve requests, persistent loop | a result belongs to its run, nobody waits for ever | `ForkServer` |
| arm64 rewriter (`librw_arm64/rw.py`, `container.py`) | the code twice: a copy in the old layout, and the text | build pointers, load relocated ones, emulate calls, mend short branches, place exception tables | the program runs as before, whatever code addresses it looks at | `LandingPad`, `Arm64Code` |
| kasan, kcov, jumparound, the arm64 passes but coverage, fuzzing scripts | | | | not modelled |

How they interact. The CLI calls loader, symbolizer, leaf analysis, register analysis,
one pass, and the printer, in this order. The symbolizer hands `nexts` to the register
analysis and `bbstarts` to the coverage pass; the analyses hand free registers and the
leaf flag to ASan; every pass appends its runtime's constructor to the `.init_array`
the symbolizer has rebuilt. At run time the constructor creates the memory that the
trampolines of all threads share. For a kernel module the CLI hands the functions to
`cftool` in a file and reads the registers back from another. The arm64 pass inserts
calls of a runtime that talks to afl-fuzz over descriptors 198 and 199.

What is hard here: data flow through loops, cut short by a cap; partial register
writes; the order of saves and restores; the red zone; races on the runtimes' globals;
constructors that run before the runtime's; indices that wrap, go negative or are off
by one; frames left by a jump; commands and fuzzers that die half way; results that
carry no name or one that is not unique; code that exists in two layouts, with
addresses of both in registers, frames and tables. `PROJECT.json` lists each under `hazards`, with the property that covers it or
the reason none does.

## Modules

**`ControlFlow`** – a function as a sequence of instructions (kind, target, registers
read and written as capstone reports them); `Nexts` is `function.nexts`, `BbStarts` is
`function.bbstarts`. Indices start at 1 (0 in the code). `KernelNexts` is what `krw.py`
computes for a kernel module.

**`RegAnalysis`** – `RegisterAnalysis`. `used`, `free` are `used_regs`, `free_regs`;
`idx`, `change`, `iter` are the loop variables of `analyze_function`. One action per
step: `AnalyzeInstruction`, `NextPass` (the rest of a pass after a change:
`change or analyze_instruction()` analyses nothing more), `Finalize`. `MaxIter` is 8192
in the code. A name is `<<register, width>>`; `Closure` is the closure list. Registers
in the used sets that are not in the pool (rsp) are left out: they are never free. The
reference definition is `Wanted`: a walk of the graph from an instruction that reads
the register, or leaves the function with it, before overwriting all of it.

`tool` says who analyses: `register.py`, or `analyzeFunction` of `cftool/main.go` for the
functions of a kernel module. The Go program has the same loop and cap; its sets are words
with one bit per register, so it knows no sub-registers and no closure, and an instruction
that writes 8 or 16 bits of a register (`Preserved`) counts as one that reads it.

**`Clobber`** – what the analysis is for. It extends `RegAnalysis` with the processor:
`ClobberFree` overwrites a free register before the current instruction (ASan's scratch
registers), `Execute` runs the instruction and follows the *processor's* successors
(a jump through memory may land anywhere), not the analysis' edges; callees return,
functions are entered again. `tainted` holds register parts (bits 0-7, 8-15, the rest)
with an instrumentation value.

**`Trampoline`** – the inserted machine code of the three passes as lists of
instructions, built the way `get_mem_instrumentation`, `_get_trampoline`,
`_get_entry_trampoline` and the body of `__trace_log_entry` build it, executed on a
machine with registers, flags (lahf's and the overflow flag apart), a stack in slots of
eight bytes and signal handlers. Values are symbolic: they say whose value a part is.
Three named hypotheses say what the passes rely on and the code does not establish:
`EntriesNeedNoFlag` (no flag is live at a function's entry), `NoSignalInLeaves` (no signal
arrives while a leaf function's registers are saved below its red zone, deeper than the
kernel skips) and `RedZonesViaRsp` (only ASan meets functions with a red zone, and they reach
it through rsp). The sites of the run satisfy them (`PromiseAssumption`).

**`TraceBuffer`**, **`BoundedLog`** – the trace runtime: `MapBuffer`,
`CheckEnvironment` (constructor), `Enter` (trampoline), then `LoadPtr` to
`WriteNewline`, one action per access of a shared global or system call. `BoundedLog`
is its promise: each step appends one function to the last `Size`.

**`Coverage`**, **`EdgeProfile`**, **`Words`** – the coverage runtime with `xorq` and
`incb` split into read and write; words are sets of bits, so that XOR and shift are set
operations. `EdgeProfile` is the two assignments of the docstring as one step.

**`AsanCheck`** – the shadow test, for accesses of each size and for rep movsb and
rep stosb, against the set of bytes touched.

**`StackRedzone`** – `instrument_stack` as operators on the code of a function
(`CanaryIdx`, `PoisonAt`, `UnpoisonAt`, `Skip`: what the loop over `fn.cache` recognizes
and inserts), and the program with the inserted code: frames, nested calls, returns,
`__longjmp` with the unpoisoning loop of `handle_longjmp`, plain longjmp and exceptions
without one. A place is a slot of eight bytes, one shadow byte. `abandoned` collects the
canaries of frames left by a jump the pass does not see. The pass recognizes code by its
shape, so its promise depends on the compiler: `CompilerAssumption` says what
-fstack-protector makes of a function the pass recognizes. The canary is stored once, by
the instruction after its load, which nothing jumps to; what is read from a canary's slot
is compared next; and there is a set of instructions at which the canary is in place
(`Guards`), entered by the store, left by a read, and never left on another way out than a
jump. In a function that calls `setjmp`, all calls stand on the same side of the store.
The call of `__stack_chk_fail` behind a failed comparison is left out: it ends the program.

**`SwitchTables`** – `symbolize_switch_tables` with `read_at` and `replace` on the cells
of `.rodata`: `NextFunction`, `TryBase`, `Follow` are its three loops. The reference
(`Tables`, `Slots`) is written from the bytes of the section alone.

**`AnalysisStage`** – a series of commands. `AddFunction` to `Instrument` are the steps
of one; `disk` is what outlives it. The registers of a function are represented by the
code they were computed from, so that a mix-up is visible. `Receive` and `Panic` are the
goroutines of `cftool`; an unbuffered channel makes sending and receiving one step.

**`ForkServer`** – `main_payload_arm` and `persistent_loop`, one action per block between
two library calls, for the server and each child; `program`, `server` and `fuzzer` group
the variables by owner. Pipes are sequences of words; a word is known by its place only.
afl-fuzz is external: it reads what it waits for, sets a timer for a run, may stop or die
at any moment.

**`LandingPad`**, **`Arm64Code`** – the arm64 output. `Copy`, `Text` and `Label` are the
two layouts (`dump`); `Core` is what is printed for an instruction after
`symbolize_mem_accesses`, `symbolize_cf_transfer`, `emulate_calls` and `fix_shortjumps`,
`Printed` adds what a pass inserted before and after it; the actions run the result, one
printed instruction each. `Catch` is the unwinder, which finds a frame by its return
address, in the tables of the copy or of the text. `Arm64Code` is the program as its
binary runs. The mapping of the refinement counts a pointer as built from the first of its
parts on: in between, no instruction of the program looks at it.

**`BlockEntries`** – which instructions the coverage pass instruments, against
executions of the function.

**`InitArray`** – `.init_array` from the loader over the relocations to the runtime's
constructor, with `DataSection.replace` on a Python list.

**`Subsequences`** – the elements of a sequence that belong to a set (`SelectSeq`, as a
recursive function that proofs can unfold). **`DataLemmas`** – see Proofs.

`MC*` modules give the constants their values for TLC; `MCShapes` builds the functions
that `clobber` and `blocks` analyse. `*_proofs` modules hold the theorems.
`PROJECT.json` maps every definition to its lines; definitions marked external are the
processor and the kernel.

## Runs

| Run | Bounds | Shows |
|---|---|---|
| `clobber` | both tools; all functions of up to 3 instructions over 18 shapes, and functions of 6; 3 registers (with sub-registers, call-used, flags); `MaxIter` 9 | the analysis is exact against `Wanted` when it reaches its fixpoint and safe when cut short; taint is never read; it settles |
| `trampoline` | every set of free registers the choice can tell apart, leaf and not, buffer mapped or not, printing or not | inserted code is transparent, evaluates operands in the program's state, spares the red zone, calls on an aligned stack |
| `trace_buffer` | one or two threads, 2 functions, buffer of 2, 4 calls (two wraps) | stores in bounds, no invented entry, refinement of `BoundedLog` for one thread, output in order |
| `coverage` | one or two threads, 3 blocks of 3-bit ids with a colliding pair, counters modulo 3, 4 entries | index in bounds, nothing overcounted, refinement of `EdgeProfile` for one thread |
| `asan_check` | 3 granules, every shadow byte, every address and size, counts 0, 1, 3 and 8 | no false report but for the byte behind a string operation; nothing missed inside a granule |
| `init_array` | up to 4 constructors in any order, with or without symbols, `frame_dummy` among the first three | the rewritten table runs them in order, then the runtime's, when `frame_dummy` is first |
| `fork_server` | 2 requests, 0 to 2 cycles, any failure of fork and waitpid, the fuzzer stopping anywhere | result and map belong to the run; no request unanswered; nothing outlives the fuzzer but what hangs; one server |
| `stack_redzone` | 9 functions, 5 frames, one jmp_buf | poisoned exactly while a canary is there; the program's own code not reported; overflows into a canary reported |
| `analysis_stage` | 3 commands over 5 binaries (3 user space, 2 kernel modules) and 2 outputs, interrupted anywhere | own registers, for every function, and every command ends |
| `switch_tables` | all sections of 6 bytes (values 0 to 2, entries of 2 bytes), up to 3 uses by 2 functions | exactly the tables' slots become labels, in any order of functions |
| `landing_pad` | 23 instructions in 3 functions, pages of 8, threshold 5 (2^12 and 2^17 in the code), every setting of the three options, 108 amounts of inserted code | the rewritten program implements the original; return addresses keep the old layout; mended and unmended branches reach their labels |
| `blocks` | all functions of 3 instructions over the jumps, calls and returns of `clobber` | finding: uncounted blocks |

The bounds let the interesting cases happen. In `clobber`, functions of length 3
already contain loops, nested jumps and calls between a write and a read; those of
length 6 need more than 9 passes, so the cap really cuts analyses short. (`ChangeBound`
says how many passes suffice for any function: a register leaves each set at most once,
plus one pass a set gains its sub-register names; `Converges` is claimed below the
cap.) Calls and the mapped/unmapped cases in `trace_buffer` let the index wrap twice.
Counters modulo 3 make counters wrap within four entries.

In `fork_server` the second run is what can be confused with the first, and two cycles
are one stop of the child; `stack_redzone` needs main, a function with a canary, one that
calls `setjmp` while its canary is in place, one it calls and one that jumps; in `analysis_stage` three commands are one that leaves a cache,
one for other code and one more after an interruption; the program of `landing_pad` calls
directly and through a register, jumps through a table, follows a pointer from a data
section, crosses pages, and throws from two frames up, to be caught or not; six bytes hold three entries, so
that tables overlap, touch and end in one another.

One run states what a comment of the repository says, and TLC shows that the code does
something else; it is the finding of `PROJECT.json`:

- `blocks` – blocks entered by falling through, and jump-table targets, are not
  instrumented.

Other disagreements between the code and what is said of it are the exceptions the
passing properties name; dropping the exception makes TLC show the case:

- The end of rep movs and rep stos is checked one byte too far
  (`rwtools_x64/asan/instrument.py:299-301`, 329-354), although `readme/QNA.md:195` says
  that this "would be a false positive for every valid memcpy where the buffer is exactly
  %rcx bytes" (`NoFalseAlarm`, `Behind`).
- A constructor placed before `frame_dummy` (one with a priority) tears `.init_array`
  (`librw_x64/rw.py:788-791`; `Recoverable`).
- The coverage trampoline pushes over the red zone of leaf functions
  (`rwtools_x64/coverage/instrument.py:92`); the docstring says "we can't clobber anything"
  (line 78) and `src/project/midterm_report/main.tex:181` says the same. `RedZoneIntact` is
  shown for ASan; adding "coverage" to `MCCodes` shows the case.
- With two threads the trace loses entries (both load one index) and the coverage map
  counts edges nobody took (both use one previous location). The docstrings do not limit
  themselves to one thread; `AloneEveryCallLogged`, `IsBoundedLog` and `IsEdgeProfile` do.
- "Need to unpoison the stack before any CF leaves this function"
  (`rwtools_x64/asan/instrument.py:582-583`): an exception or a plain `longjmp` (only
  names that start with `__longjmp` are recognized) leaves the canary slots of the frames
  it leaves poisoned, and later frames at that place are reported (`abandoned`).
- Compilers that check the canary with `sub` instead of `xor`: the pass does not
  recognize the exit (line 648), and the program's own check of the canary is reported.
- The cache belongs to an output name, not to a binary (`StaleFrom`): with the same
  function addresses the registers of the other binary are used in silence, with others
  the command ends in a KeyError or TypeError. A cache that was cut short ends every
  later command with a ValueError, since only an IOError leads to the analysis
  (`retrowrite:44-48`). The help text says "only used with --asan" (`retrowrite:189`),
  but `--module` uses it too (line 337).
- `cftool` means to "skip segment registers" (`main.go:152`), but the loop over the written
  names (line 256) does not: a name it does not know has size 0, which is below 32, so an
  instruction that writes ds or gs ends the tool in a panic (`Unknown` in `AnalysisStage`).
- The kernel branch of the CLI names classes it never imports (`retrowrite:321`), so no
  kernel command ends well (`Instrument` in `AnalysisStage`).
- In persistent mode with more than one cycle the child stops itself; `waitpid` without
  options does not return for that, so each run ends by the fuzzer's timer.
- `rwtools_arm64/coverage/instrument.py:48` comments out an instruction of whichever
  function was listed last (`fn`), not of `_start`; line 32 draws identifiers up to
  MAP_SIZE inclusive.
- With `--data-text` and `--optimize-dt-layout` together the base of the copy is not page
  aligned, and adding the low bits can carry out of the page that `adrp` names: the
  emulated return address, or the pointer, is then a page off
  (`librw_arm64/container.py:630-632`, `rw.py:1294`), although the address should be "like
  the original one" (`container.py:625`). `NoCarry` (in the proofs) excludes it, and the
  instance has no such case.
- `blr x30` is emulated as a jump to its own return address (`container.py:635-640`;
  `CompilerAssumption` excludes it).
- "It is *very* important that no further instrumentation is added from now!"
  (`librw_arm64/rw.py:209`), yet `fix_shortjumps` and `emulate_calls` add instructions
  afterwards (line 218). The thresholds leave a factor of two, which suffices while no more
  than about a third of the instructions are calls (`ShortJumpsReach`, under `FewExpanded`).
- Code a pass inserts after an emulated call is never executed: the callee returns into the
  copy, which leads to the next instruction.

Each property of a passing run has a mutant: a definition changed as a plausible bug
would change it (marked `Mutant` in the modules), under which TLC finds the property
violated.

**Fairness.** `RegAnalysis` and `InitArray` are sequential programs that run to their
end: weak fairness of their next step (in `Clobber`, of the analysis) says only that
they are not abandoned. `SwitchTables` is the same. In `AnalysisStage` the command is
weakly fair (the process and its goroutines are scheduled; nobody need interrupt it or
start another). In `ForkServer` each process is weakly fair, as are the fuzzer's reads of
the pipe it waits on and its timer: the kernel schedules runnable processes, and afl-fuzz
does nothing else while a run is under way. A new request, a stop of the fuzzer and the
program's misbehaviour are not fair. In `LandingPad` the processor is weakly fair, which
is what the original is granted too. The x86-64 runtimes have no liveness property:
nothing makes a program enter functions. Deadlock is checked in `clobber`, whose machine never stops;
the other models end (inserted code runs off its end, bounded histories fill up).

**Assumptions of the models.** Constructors of the program start no threads. A process
keeps the threads it has (`team`): a history with fewer threads is one in which they do
nothing. Calls follow the convention that `used_regs` encodes. The flags are dead at
function entry. `getenv`, `mmap` and the environment are nondeterministic; a failed
`mmap` faults at the first use of its result (action `Fault`).

## Proofs

All theorems hold for every value of the constants that satisfies the named assumptions;
`tlapm` checks each to its leaves. `DataLemmas` has the facts that need induction:
well-founded induction stated for sets (a set of numbers that holds 0 and with n also n + 1
is Nat; a family of finite sets that holds the empty set and is closed under adding an
element holds every finite subset), sums over finite sets (`SumFunction`, a fold), and the
subsequences of `Subsequences`. The component proofs build on it.

- `RegAnalysis_proofs`, safety – `AlwaysCovers`, `Descends`, `TypeCorrect`. The inductive
  invariant `RInv` strengthens `CoversEquation` (every set covers the right side of its
  equation) with: sets are closed, a sub-register never stands without its register.
  Closure is what makes the transfer function monotone on sets of names
  (`TransferMonotone`), and monotonicity gives both facts: recomputing a set that
  covers its equation can only shrink it, and shrinking it keeps every other equation
  covered. For `cftool` the sets stay inside the pool, and what an instruction overwrites is
  written by a 32-bit or 64-bit name (`WrittenWholly`), since other writes count as reads.
  Nothing in it needs the fixpoint, which is why the cap is harmless.
- `RegAnalysis_proofs`, exactness – `Exact`: at the fixpoint a register is free exactly
  when no walk wants it. One half is `RInv`: by set induction on the length of a walk, a
  register that is free where the walk starts is not wanted where it ends. The other half is
  not, since a set of equations with loops has solutions that free too much. `NoFreeLoop`
  is inductive and rules them out: of the instructions where a register has been freed, no
  set keeps itself free going round in itself, because they were freed one after the other.
  So from an instruction where the register is *not* free a walk leads to a use; a walk
  that is wanted at all is wanted within as many steps as there are instructions
  (`NoLongWalk`, a pigeonhole argument), which is how far `Wanted` looks.
- `RegAnalysis_proofs`, passes – `BoundedPasses` counts: each pass that changes something
  removes a register from a set, or adds sub-register names to a set for the first time
  (`PassesCounted` compares the pass number with the cardinality of the changes made).
  `RoomEnough` follows: below that number the cap of 8192 never decides.
- `RegAnalysis_proofs`, use – `InstrumentationInvisible`: `NoTaintedRead` of `Clobber` for
  every function, both tools and every cap. It is not inductive; `CInv` adds `TaintIsFree`
  (what is tainted is free where control stands, and unused by whoever has control outside)
  and `RunsOnResult`. `FreeBefore` and `FreeAfter` carry it over an instruction: a register
  that is free at an instruction is not read there and is, unless wholly overwritten, free
  at each successor *of the processor*. (`Clobber` extends `RegAnalysis`; its theorems stand
  in the same module.)
- `Trampoline_proofs` – `ProgramUnaware`, `OperandRight`, `RedZoneSpared`, `CallsAligned`, for
  any sites, any set of free registers and any registers in play. The properties look at one or
  two of the inserted instructions; the invariant has a state for each. A state is the code
  that is left (`Left`), where the stack pointer is and which registers are lent (`At`), and
  which slots hold what will be popped (`First`, `Second`, `SavedFlags`). ASan inserts a piece
  only when it needs it, so its states are parameterised by the choice (`Save1`, `Opt`,
  `Adjust`, ...): the code of a piece that is not needed is empty, and its state is the next
  one. The code of rep movs is the same code three times (`Tails`). Inside
  `__trace_log_entry` the states are only heights of the stack pointer, one per instruction
  (`Leads`): none rises above the frame of its caller, so what the trampoline saved there stays. `Scratch`
  shows the choice of scratch registers right: whichever was not free is pushed, and neither is
  rax when rax is put aside for the flags. A signal may come between any two
  instructions and overwrites only what lies more than sixteen slots down; the three
  hypotheses are used exactly where the code needs them, and `CallsAligned` needs none.
- `TraceBuffer_proofs`, any number of threads – `StoresStayInBounds`, `NothingInvented`: a
  thread past the null test saw a pointer that is never reset, the index is always masked,
  and a thread inside the logger holds a function that was entered (`IInv`).
  `OutputStaysInOrder`: `LinesInv` says for each thread how many pieces of its lines stand
  in the output (`Written`, a function of its calls and its program counter) and that they
  are those pieces; a write of one thread adds nothing to the output of another.
- `TraceBuffer_proofs`, one thread – `AloneAllLogged`, `ImplementsBoundedLog`. `RingInv` says
  where each entry is: the entry stored a steps ago stands a slots behind the index, as many
  as fit, and until the buffer was full once the index counts them and the rest is empty.
  `RingStore` shows that a store and the move of the index preserve it across the wrap,
  `RingContents` that a reader who starts at the index sees the last `Size` entries. Each
  step then keeps what the reader sees or records one entry (`RingStep`).
- `Passes_proofs`, coverage – `StaysInBitmap`; `CountsEarned`: `NothingOvercounted` compares sums of
  counters that wrap, and two threads may write back what they read in any order, so no
  single counter can be bounded by what is in the state. The invariant states that an
  account of the increments made exists (`Accounts`): no counter, and no value a thread holds
  between `IncRead` and `IncWrite`, exceeds it, and its sum is at most the block entries
  whose counter was stored. `ImplementsProfile`, the refinement of `EdgeProfile` in a process
  with one thread, where the invariant `Matches` says what the registers of the thread stand
  for between two of its instructions and the abstract step is taken at `IncWrite`;
  `DirectionsDiffer`, that the shift makes A->B and B->A hash apart.
- `Passes_proofs`, memory checks – `NoAlarmForNothing`, `AccessesStopped`: the shadow test
  is right for accesses, and string operations are reported only for a byte they touch or
  the one behind.
- `Passes_proofs`, stack redzones – `PoisonFollowsCanaries`, `ReportsAreRight`,
  `OverflowsReported`, for any program of the shape `CompilerAssumption` describes, any
  depth of calls and any jumps. None of the three properties is inductive: they say what is
  poisoned, not why. `RedzoneInv` ties it to where each frame stands: `ArmedAt` is the set of
  instructions of a function at which its slot is poisoned (those of `Guards`, and the store
  itself, in front of which `poison_stack` already ran). `PoisonOK`: the slot of every frame
  that stands at one of them is poisoned, and nothing else is but what was abandoned.
  `FramesOK`: frames do not overlap, so the slots of two frames are different places
  (`PlacesDiffer`) and a step of the running frame disturbs no other; every frame below the
  running one stands behind a call, so none of them is about to store. `SavedOK`: a jmp_buf
  belongs to a frame on the stack, and `setjmp` returns into it on the side of the store
  where its call stood (`JumpedTo`). The loop of `handle_longjmp` then covers the slots of
  exactly the frames it leaves (`LongjmpChkKeeps`).
- `Rewriter_proofs`, `.init_array` – `ConstructorsRun`, for tables of any length. `ArrayInv`
  says what the section holds at each index of each loop (`SectionOK`: the loader has copied
  the entries one place lower, then each relocation in turn has made a label of one), and
  who is known: `frame_dummy` under its name and without code, everybody else under another
  name and with code (`KnownOK`), which is why exactly the first entry is left out and only
  its relocation dropped. `Recoverable` is the property's own hypothesis; the tables that
  fail it are described under Findings. `ConstructorsRest`: without `frame_dummy`, the
  constructors are the rest of the table.
- `Rewriter_proofs`, switch tables – `TablesRewritten`, for any section, code and uses. The
  reference reads the original bytes while the loops read cells that change, so the
  invariant gives every cell as a function of the slots written so far (`CellsAre` of
  `AllWritten`): the slots of each table that was tried, of the one being followed those
  before the current slot. `Disjoint`: the words of two slots, of one table or of two, do not
  overlap, because a table ends where anything is used and a slot lies a multiple of
  `Entry` from its base. So what is read at the next slot is still the original distance,
  unless it has become a label (`EntryTest`), and writing it disturbs no other slot
  (`CellUpdate`). Two hypotheses of the property (`Sound`) are needed: without them one table
  is cut by another inside its first entry, or belongs to two functions.
- `Rewriter_proofs`, analysis stage – `RegistersAreOwn`, `NamesAreUnique`, `StageTypeCorrect`, for any
  symbol tables and any series of commands. `OwnRegisters` speaks of the last of three ways
  registers come; the invariant follows each: every entry of a cache was written by a
  command for that output (`CacheOrigin`), kernel names tell functions apart
  (`NamesIdentify`, because a renamed function has a longer name that ends in its own
  address, and intervals do not overlap), and the tool's input and output are by name the
  code of the function of that name (`ToolOrigin`). `NoneForgotten` needs the converse,
  that none is missing: a cache that is whole has an entry for every function of the
  command that wrote it (`CacheIsWhole`), and the tool has been given, and has answered,
  every name (`ToolGetsAll`; a channel of which as many results as names have been read has
  delivered all, by cardinality).
- `ForkServer_proofs` – `ServesOnce`, `ServerTypeCorrect`, for any number of runs.
  `OneServer` is not inductive, since children do enter the set up again;
  `ClosedAfterResume` (a child closed the pipe before it ran anything else) is what stops
  them at the write of the hello. `ResultsBelong` and `MapsBelong` rest on `Conversation`:
  for each state of the fuzzer, where the server can stand, what is in the two pipes, which
  child lives (at most one, the one forked last) and who wrote to the map. It holds until
  the fuzzer is gone or a signal interrupts `waitpid`, and so do the properties.
- `LandingPad_proofs`, layouts – `ImplementsOriginal`, `ReturnsStay`, `InvariantHolds`, for any
  program, page size, threshold and inserted code. The invariant `IInv` says that a
  half-built pointer holds what has been built of it (`Built`), that text addresses are
  only ever return addresses, and none when calls are emulated (`Kept`), and that a frame
  the unwinder does not know is the program's caller (`FramesOK`). One lemma per action
  shows that it keeps `IInv` and takes one step of the original or none. All three theorems
  assume `NoCarry`, that the parts of a pointer add up inside a page; `AlignedBase` proves
  it unless `--data-text` and `--optimize-dt-layout` are used together.
- `LandingPad_proofs`, branches – `BranchesReach`. `ShortJumpsReach` is false for arbitrary
  programs: instructions are counted before emulated calls (one becomes three or four) and
  mended branches (one becomes three) are expanded, and what a pass inserted at one end of the
  way is not counted. `FewExpanded` says that for each unmended branch these amount to less
  than the threshold; the factor of two between thresholds and reach then suffices. What is
  printed of an instruction is what was counted and its `Expansion` (`SizeIsCounted`), and
  `WayPrinted` adds that up between two addresses (`SumUnion`, `SumPlus` of `DataLemmas`); the
  two ends of the way are what the counting gets differently for branches ahead and back.

They rest on the named assumptions of the modules (`WidthAssumption`, `SizeAssumption`, ...),
which TLC evaluates in every run. Two were added for proofs that count: the register file
and the threads are finite sets (`PoolAssumption` of `RegAnalysis`, which also keeps the
marker of `Changes` apart from register names, and `ThreadsAssumption` of `Coverage`). The two
of the data sections give the inputs their types (`ArraysAssumption`, `InputsAssumption`);
`SizesAssumption` of `SwitchTables` also puts the section above address 0, since the model
writes 0 for "no table"; the ELF header lies there. `CompilerAssumption` of `StackRedzone`
speaks of code the pass is given, not of code it writes: it names nothing the pass inserts,
and the functions of the run satisfy it, among them one whose canary the pass does not
recognize and one whose comparison it does not. Of the hypotheses of `Trampoline`,
`EntriesNeedNoFlag` is the calling convention; the other two exclude the two cases in which
the code does fail (`PROJECT.json`, hazards at `stackframe.py:35` and
`asan/instrument.py:221`), and each theorem names those it uses. The rewriter checks
`FewExpanded` no more than it checks `NoCarry`; the instance of `landing_pad` satisfies it
(`FewAssumption`), with calls between branches and their targets.

Only model-checked:

- Liveness (`Converges`, `Completes`, `EveryRequestAnswered`, `EndsWithFuzzer`,
  `EveryCommandEnds`, the other half of `RunsOriginal`): fairness and ENABLED are outside
  the prover's reach.

## Not modelled

Parsing and printing of ELF, DWARF and assembly; symbolization of operands (a rewriting of
text, whose result the assembler checks); ASan's global redzones (the call is commented
out, `rwtools_x64/asan/instrument.py:680`); kasan and kcov, which repeat the user-space
passes and which the command line cannot reach; of the arm64 rewriter, the recognition of jump tables (switched off
in the code, `librw_arm64/rw.py:41`, with no option to turn it on) and of data between
instructions, and its ASan; jumparound (a
demonstration that shuffles instructions linked by calls); the scripts that start fuzzers,
whose state is in a queue server and in screen sessions; demos, targets, reports and the
other course work, which are not part of the rewriter. `PROJECT.json` gives the reason for
each.

`StackRedzone` leaves out two failures of the pass itself: `fn.cache[idx + 1]` does not
exist when the last instruction of a function with a canary accesses memory, and an
rsp-relative slot is shifted by the push of the scratch register when no register is free.
`SwitchTables` states its promise for `Sound` programs: bytes that look like a distance to
an instruction are taken for an entry, and an entry that leads into another function (a
`.cold` part) ends the table early, its slots left as raw distances.

## Plan

Done, in order of importance: register analysis and its use, the inserted code, the two
runtimes, the checks, block starts, `.init_array`; then the fork server, the stack
redzones, the way of the registers through cache and tool, switch tables, and the two
layouts of arm64 code.

Left:

1. `JumpAround` – the shuffled function executes the original order.
2. Re-entry of a function's first instruction through a loop (trace), signals at leaf
   sites and red zones used through rbp (`Trampoline`), more threads.
3. arm64: data in text and literal pools, the check of its ASan.
