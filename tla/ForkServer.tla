----------------------------- MODULE ForkServer -----------------------------
(***************************************************************************)
(* The fork server that the arm64 coverage pass puts into the program      *)
(* (rwtools_arm64/coverage/instrument.py), with afl-fuzz at the other end  *)
(* of its two pipes.                                                       *)
(*                                                                         *)
(* The first trampoline the program executes attaches the coverage map and *)
(* turns the process into a server: for each request on descriptor 198 it  *)
(* forks, reports the child and later the child's status on 199.  Children *)
(* close both descriptors and are the program.  In persistent mode (cycles *)
(* not 0) main is replaced by a loop that calls one function of it; a pass *)
(* that is not the last one stops the process with SIGSTOP.                *)
(*                                                                         *)
(* Bound: the fuzzer makes at most Runs requests.                          *)
(***************************************************************************)
EXTENDS Integers, Sequences

CONSTANTS
  Runs,       \* requests the fuzzer makes
  CycleCounts \* values of AFL_PERSISTENT_CYCLES; 0 when the mode is off

ASSUME RunsAssumption   == Runs \in Nat
ASSUME CyclesAssumption == CycleCounts \subseteq Nat

Server   == 0              \* the process the fuzzer started
Children == 1..Runs        \* a child is named by its pid
Procs    == Children \cup {Server}

\* How a process ends; also the status waitpid stores for it.
Ended == {"exited", "crashed", "killed"}
\* Where only a fork server can be: __afl_fork_wait_loop.
Serving == {"request", "fork", "send_pid", "wait", "send_status"}
Hung    == {"looping", "stopped"}

\* A four-byte word on the status pipe; the reader knows it by its place only.
Hello       == [pid |-> 0, status |-> "exited"]
PidWord(n)  == [pid |-> n, status |-> "exited"]
StatWord(s) == [pid |-> 0, status |-> s]
Words       == [pid : Children \cup {0, -1}, status : Ended]
NoResult    == [pid |-> 0, status |-> "exited", timedOut |-> FALSE]

VARIABLES
  cycles,   \* PERSISTENT_CYCLES
  shm,      \* shmat gives a map
  pc,       \* what each process executes; "run" is the program's own code
  at,       \* how far the program of each process is
  area,     \* __afl_area_ptr is not null, in each process
  failed,   \* __afl_setup_failure is not zero, in each process
  open,     \* descriptors 198 and 199 are open in each process
  born,     \* children forked so far
  forkPid,  \* __afl_fork_pid of the server
  temp,     \* __afl_temp of the server
  ctl, st,  \* the two pipes
  bitmap,   \* the processes whose hits are in the map
  faults,   \* failures of system calls that happened
  fz, asked, fzPid, timedOut, last   \* afl-fuzz: state, requests, child, result

program == <<cycles, shm, at, area, failed>>
server  == <<born, forkPid, temp>>
fuzzer  == <<fz, asked, fzPid, timedOut, last>>
vars == <<program, pc, open, server, ctl, st, bitmap, faults, fuzzer>>

Alive(p) == pc[p] \notin Ended \cup {"unborn"}
Gone     == fz \in {"none", "stopped", "aborted"}   \* nobody at the other end
Goto(p, l) == pc' = [pc EXCEPT ![p] = l]

Init ==
  /\ cycles \in CycleCounts
  /\ shm \in BOOLEAN
  /\ fz \in {"none", "hello"}
  /\ pc = [p \in Procs |-> IF p = Server THEN "run" ELSE "unborn"]
  /\ at = [p \in Procs |-> "start"]
  /\ area = [p \in Procs |-> FALSE]
  /\ failed = [p \in Procs |-> FALSE]
  /\ open = [p \in Procs |-> p = Server /\ fz = "hello"]
  /\ born = 0 /\ forkPid = 0 /\ temp = "exited"
  /\ ctl = <<>> /\ st = <<>> /\ bitmap = {} /\ faults = {}
  /\ asked = 0 /\ fzPid = 0 /\ timedOut = FALSE /\ last = NoResult

-----------------------------------------------------------------------------
(* The trampoline and the set up.                                          *)

\* __afl_return: behind the first trampoline comes the body, or the loop.
AfterReturn(p) ==
  [at EXCEPT ![p] = IF @ # "start" THEN @ ELSE IF cycles = 0 THEN "body" ELSE "loop"]
Return(p) == Goto(p, "run") /\ at' = AfterReturn(p)

\* __afl_maybe_log: nothing after a failed set up, else count, else set up.
MaybeLog(p) ==
  /\ pc[p] = "run" /\ at[p] # "loop"
  /\ \/ failed[p] /\ Return(p) /\ UNCHANGED bitmap
     \/ ~failed[p] /\ area[p] /\ Return(p) /\ bitmap' = bitmap \cup {p}
     \/ ~failed[p] /\ ~area[p] /\ Goto(p, "setup") /\ UNCHANGED <<at, bitmap>>
  /\ UNCHANGED <<cycles, shm, area, failed, open, server, ctl, st, faults, fuzzer>>

\* __afl_setup and __afl_setup_abort.
Setup(p) ==
  /\ pc[p] = "setup"
  /\ \/ shm /\ Goto(p, "hello") /\ UNCHANGED <<at, failed>>
     \/ ~shm /\ failed' = [failed EXCEPT ![p] = TRUE] /\ Return(p)
  /\ UNCHANGED <<cycles, shm, area, open, server, ctl, st, bitmap, faults, fuzzer>>

\* A write to the status pipe: through a closed descriptor it fails, and a pipe
\* without a reader kills the writer (SIGPIPE).
Write(p, word, next, otherwise) ==
  IF ~open[p] THEN Goto(p, otherwise) /\ UNCHANGED st
  ELSE IF Gone THEN Goto(p, "killed") /\ UNCHANGED st
  ELSE Goto(p, next) /\ st' = Append(st, word)

\* __afl_forkserver: without a fuzzer the process goes on as the program.
Forkserver(p) ==
  /\ pc[p] = "hello"
  /\ area' = [area EXCEPT ![p] = TRUE]
  /\ Write(p, Hello, "request", "resume")
  /\ UNCHANGED <<cycles, shm, at, failed, open, server, ctl, bitmap, faults, fuzzer>>

\* Mutant: the descriptors stay open in the program.
ForkResumeKeepingPipes(p) ==
  /\ pc[p] = "resume"
  /\ bitmap' = bitmap \cup {p}
  /\ Return(p)
  /\ UNCHANGED <<cycles, shm, area, failed, open, server, ctl, st, faults, fuzzer>>

\* __afl_fork_resume, which falls through to __afl_store.
ForkResume(p) ==
  /\ pc[p] = "resume"
  /\ open' = [open EXCEPT ![p] = FALSE]
  /\ bitmap' = bitmap \cup {p}
  /\ Return(p)
  /\ UNCHANGED <<cycles, shm, area, failed, server, ctl, st, faults, fuzzer>>

-----------------------------------------------------------------------------
(* __afl_fork_wait_loop.  fork and waitpid return 32-bit integers and the  *)
(* code tests all 64 bits of the register: a result of -1 passes the test  *)
(* or not, as the upper half of the register happens to be.                *)

\* __afl_die: exit(0), which still runs the program's exit handlers.
Die(p) == Goto(p, "run") /\ at' = [at EXCEPT ![p] = "exit"]

\* Mutant: the end of the control pipe is taken for a read to repeat.
ReadRequestAgain(p) ==
  /\ pc[p] = "request"
  /\ ctl # <<>> /\ ctl' = Tail(ctl) /\ Goto(p, "fork") /\ UNCHANGED at
  /\ UNCHANGED <<cycles, shm, area, failed, open, server, st, bitmap, faults, fuzzer>>

\* The read of a request; at the end of the pipe it returns 0.
ReadRequest(p) ==
  /\ pc[p] = "request"
  /\ \/ ctl # <<>> /\ ctl' = Tail(ctl) /\ Goto(p, "fork") /\ UNCHANGED at
     \/ ctl = <<>> /\ Gone /\ Die(p) /\ UNCHANGED ctl
  /\ UNCHANGED <<cycles, shm, area, failed, open, server, st, bitmap, faults, fuzzer>>

\* The child inherits everything and starts at __afl_fork_resume.
Fork(p) ==
  /\ pc[p] = "fork" /\ born < Runs
  /\ LET c == born + 1 IN
       /\ born' = c /\ forkPid' = c
       /\ pc'   = [pc EXCEPT ![c] = "resume", ![p] = "send_pid"]
       /\ at'   = [at EXCEPT ![c] = at[p]]
       /\ area' = [area EXCEPT ![c] = area[p]]
       /\ open' = [open EXCEPT ![c] = open[p]]
  /\ UNCHANGED <<cycles, shm, failed, temp, ctl, st, bitmap, faults, fuzzer>>

ForkFails(p) ==
  /\ pc[p] = "fork"
  /\ faults' = faults \cup {"fork"}
  /\ \/ Die(p) /\ UNCHANGED forkPid
     \/ forkPid' = -1 /\ Goto(p, "send_pid") /\ UNCHANGED at
  /\ UNCHANGED <<cycles, shm, area, failed, open, born, temp, ctl, st, bitmap, fuzzer>>

SendPid(p) ==
  /\ pc[p] = "send_pid"
  /\ Write(p, PidWord(forkPid), "wait", "exited")
  /\ UNCHANGED <<program, open, server, ctl, bitmap, faults, fuzzer>>

\* Mutants: a child that does not run counts as ended; the wait does not block.
WaitpidUntraced(p) ==
  /\ pc[p] = "wait" /\ forkPid # -1 /\ pc[forkPid] \in Ended \cup {"stopped"}
  /\ temp' = pc[forkPid]
  /\ Goto(p, "send_status")
  /\ UNCHANGED <<program, open, born, forkPid, ctl, st, bitmap, faults, fuzzer>>
WaitpidNoHang(p) ==
  /\ pc[p] = "wait" /\ forkPid # -1
  /\ temp' = IF pc[forkPid] \in Ended THEN pc[forkPid] ELSE temp
  /\ Goto(p, "send_status")
  /\ UNCHANGED <<program, open, born, forkPid, ctl, st, bitmap, faults, fuzzer>>

\* waitpid(pid, &temp, 0) returns when the child has ended.  Pid -1 means any
\* child: one whose wait was interrupted may be left.
Waitpid(p) ==
  /\ pc[p] = "wait"
  /\ \E c \in 1..born : /\ c = forkPid \/ (forkPid = -1 /\ "signal" \in faults)
                       /\ pc[c] \in Ended
                       /\ temp' = pc[c]
  /\ Goto(p, "send_status")
  /\ UNCHANGED <<program, open, born, forkPid, ctl, st, bitmap, faults, fuzzer>>

\* waitpid fails: there is no child, or a handler interrupted it.  temp is stale.
WaitpidFails(p) ==
  /\ pc[p] = "wait"
  /\ \/ forkPid = -1 /\ (\A c \in Children : ~Alive(c)) /\ UNCHANGED faults
     \/ forkPid # -1 /\ Alive(forkPid) /\ faults' = faults \cup {"signal"}
  /\ \/ Die(p)
     \/ Goto(p, "send_status") /\ UNCHANGED at
  /\ UNCHANGED <<cycles, shm, area, failed, open, server, ctl, st, bitmap, fuzzer>>

\* Mutant: back to the loop without telling the fuzzer.
SendStatusForgotten(p) ==
  /\ pc[p] = "send_status"
  /\ Goto(p, "request")
  /\ UNCHANGED <<program, open, server, ctl, st, bitmap, faults, fuzzer>>

SendStatus(p) ==
  /\ pc[p] = "send_status"
  /\ Write(p, StatWord(temp), "request", "exited")
  /\ UNCHANGED <<program, open, server, ctl, bitmap, faults, fuzzer>>
-----------------------------------------------------------------------------
(* The program between two trampolines.                                    *)

\* __afl_persistent_loop, first pass: clears the map and marks its first byte
\* through a pointer that is null when the set up failed.
LoopFirst(p) ==
  /\ pc[p] = "run" /\ at[p] = "loop"
  /\ \/ area[p] /\ bitmap' = {p} /\ at' = [at EXCEPT ![p] = "body"] /\ UNCHANGED pc
     \/ ~area[p] /\ Goto(p, "crashed") /\ UNCHANGED <<at, bitmap>>
  /\ UNCHANGED <<cycles, shm, area, failed, open, server, ctl, st, faults, fuzzer>>

\* The body returns: to exit, or to the next pass of the loop, which stops the
\* process, or after the last pass forgets the map (its dummy pointer is null).
Finish(p) ==
  /\ pc[p] = "run" /\ at[p] = "body"
  /\ \/ cycles = 0 /\ at' = [at EXCEPT ![p] = "exit"] /\ UNCHANGED <<pc, area>>
     \/ cycles = 1 /\ at' = [at EXCEPT ![p] = "exit"]
        /\ area' = [area EXCEPT ![p] = FALSE] /\ UNCHANGED pc
     \/ cycles > 1 /\ Goto(p, "stopped") /\ UNCHANGED <<at, area>>
  /\ UNCHANGED <<cycles, shm, failed, open, server, ctl, st, bitmap, faults, fuzzer>>

Exit(p) ==
  /\ pc[p] = "run" /\ at[p] = "exit"
  /\ Goto(p, "exited")
  /\ UNCHANGED <<program, open, server, ctl, st, bitmap, faults, fuzzer>>

Misbehave(p) ==
  /\ pc[p] = "run" /\ at[p] = "body"
  /\ \E l \in {"crashed", "looping"} : Goto(p, l)
  /\ UNCHANGED <<program, open, server, ctl, st, bitmap, faults, fuzzer>>

Process(p) ==
  \/ MaybeLog(p) \/ Setup(p) \/ Forkserver(p) \/ ForkResume(p)
  \/ ReadRequest(p) \/ Fork(p) \/ ForkFails(p) \/ SendPid(p)
  \/ Waitpid(p) \/ WaitpidFails(p) \/ SendStatus(p)
  \/ LoopFirst(p) \/ Finish(p) \/ Exit(p) \/ Misbehave(p)
-----------------------------------------------------------------------------
(* afl-fuzz, as far as the server sees it.                                 *)

Killed(S) == [p \in Procs |-> IF p \in S /\ Alive(p) THEN "killed" ELSE pc[p]]
EndOfFile == st = <<>> /\ \A p \in Procs : Alive(p) => ~open[p]

FzHello ==
  /\ fz = "hello" /\ st # <<>>
  /\ st' = Tail(st) /\ fz' = "idle"
  /\ UNCHANGED <<program, pc, open, server, ctl, bitmap, faults, asked, fzPid, timedOut, last>>

FzRequest ==
  /\ fz = "idle" /\ asked < Runs
  /\ asked' = asked + 1 /\ last' = NoResult /\ bitmap' = {}
  /\ IF \E p \in Procs : Alive(p) /\ open[p]
     THEN ctl' = Append(ctl, "run") /\ fz' = "pid"
     ELSE fz' = "aborted" /\ UNCHANGED ctl
  /\ UNCHANGED <<program, pc, open, server, st, faults, fzPid, timedOut>>

FzPid ==
  /\ fz = "pid" /\ st # <<>>
  /\ st' = Tail(st) /\ fzPid' = Head(st).pid /\ timedOut' = FALSE
  /\ fz' = IF Head(st).pid > 0 THEN "status" ELSE "aborted"
  /\ UNCHANGED <<program, pc, open, server, ctl, bitmap, faults, asked, last>>

FzTimeout ==
  /\ fz = "status" /\ ~timedOut
  /\ timedOut' = TRUE
  /\ pc' = Killed({fzPid})
  /\ UNCHANGED <<program, open, server, ctl, st, bitmap, faults, fz, asked, fzPid, last>>

FzStatus ==
  /\ fz = "status" /\ st # <<>>
  /\ st' = Tail(st) /\ fz' = "idle"
  /\ last' = [pid |-> fzPid, status |-> Head(st).status, timedOut |-> timedOut]
  /\ UNCHANGED <<program, pc, open, server, ctl, bitmap, faults, asked, fzPid, timedOut>>

FzEndOfFile ==
  /\ fz \in {"hello", "pid", "status"} /\ EndOfFile
  /\ fz' = "aborted"
  /\ UNCHANGED <<program, pc, open, server, ctl, st, bitmap, faults, asked, fzPid, timedOut, last>>

\* Ctrl-C kills the server and the child; a crash of the fuzzer kills nobody.
FzStop ==
  /\ ~Gone
  /\ fz' = "stopped"
  /\ \E S \in {{}, {Server} \cup (IF fz = "status" THEN {fzPid} ELSE {})} : pc' = Killed(S)
  /\ UNCHANGED <<program, open, server, ctl, st, bitmap, faults, asked, fzPid, timedOut, last>>

Reads == FzHello \/ FzPid \/ FzStatus \/ FzEndOfFile
Next == Reads \/ FzRequest \/ FzTimeout \/ FzStop \/ \E p \in Procs : Process(p)

\* The kernel schedules every process that can run; the fuzzer reads what it
\* waits for and its timer expires.  It need not ask again or stop.
Spec == Init /\ [][Next]_vars
             /\ \A p \in Procs : WF_vars(Process(p))
             /\ WF_vars(Reads) /\ WF_vars(FzTimeout)
-----------------------------------------------------------------------------
TypeOK ==
  /\ cycles \in CycleCounts /\ shm \in BOOLEAN
  /\ pc \in [Procs -> Ended \cup Serving \cup Hung
                      \cup {"unborn", "run", "setup", "hello", "resume"}]
  /\ at \in [Procs -> {"start", "loop", "body", "exit"}]
  /\ area \in [Procs -> BOOLEAN] /\ failed \in [Procs -> BOOLEAN]
  /\ open \in [Procs -> BOOLEAN]
  /\ born \in 0..Runs /\ forkPid \in Children \cup {0, -1} /\ temp \in Ended
  /\ ctl \in Seq({"run"}) /\ st \in Seq(Words)
  /\ bitmap \subseteq Procs /\ faults \subseteq {"fork", "signal"}
  /\ fz \in {"none", "hello", "idle", "pid", "status", "stopped", "aborted"}
  /\ asked \in 0..Runs /\ fzPid \in Children \cup {0, -1} /\ timedOut \in BOOLEAN
  /\ last \in [pid : Children \cup {0}, status : Ended, timedOut : BOOLEAN]

\* One process serves requests, however often a set up is entered again: the
\* program forgets the map at the end of its loop and its exit handlers then run
\* __afl_setup a second time, in a child (lines 203-257, 487-495).
OneServer == \A p \in Procs : pc[p] \in Serving => p = Server

\* A result belongs to the run that was asked for: the child whose pid was read
\* has ended, with the status that was read, and nobody but it wrote to the map
\* or still can (lines 261-309).  Not so once a signal interrupted waitpid.
HasResult == fz = "idle" /\ last # NoResult
ResultIsOfRun ==
  HasResult /\ "signal" \notin faults => last.pid = born /\ pc[born] = last.status
MapIsOfRun ==
  HasResult /\ "signal" \notin faults =>
    /\ bitmap \subseteq {last.pid}
    /\ \A p \in Children : ~Alive(p)
    /\ pc[last.pid] = "exited" => last.pid \in bitmap

\* A request gets a result, whatever the program does, unless the fuzzer is
\* stopped or a system call of the server failed: neither side waits for the
\* other, and a hung or stopped child ends by the fuzzer's timer.
EveryRequestAnswered ==
  fz \in {"pid", "status"} ~> fz \in {"idle", "stopped"} \/ faults # {}

\* When the fuzzer is gone everything it caused ends, but for programs that
\* hang and a server that waits for one (line 272, __afl_die).
HangsOrWaits(p) ==
  \/ pc[p] \in Hung
  \/ pc[p] = "wait" /\ \E c \in Children : forkPid \in {c, -1} /\ pc[c] \in Hung
EndsWithFuzzer ==
  fz \in {"stopped", "aborted"} ~> \A p \in Procs : Alive(p) => HangsOrWaits(p)
=============================================================================
