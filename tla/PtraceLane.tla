----------------------------- MODULE PtraceLane -----------------------------
(***************************************************************************)
(* The syscall lane: the trace loop of the ptrace backend                  *)
(* (src/backends/ptrace/trace_loop.c, backend.c), its arch-spec operations *)
(* (as_ptrace.c behind as_ops.c), and the scripts that decide a call: the  *)
(* action runner with the actions that change a call's fate.  The kernel   *)
(* and the tracee are external: they are the stops PTRACE_SYSCALL          *)
(* produces.  The arguments of a call are not modelled, nor what an action *)
(* does to them.                                                           *)
(*                                                                         *)
(* The loop declares its frame inside the loop body, so the exit stop      *)
(* reads a variable the entry stop set one iteration before.  Its address  *)
(* escapes to the engine and nothing else lives in its stack slot, so the  *)
(* build keeps the value, and so does the model.                           *)
(***************************************************************************)
EXTENDS Integers, Sequences, FiniteSets

CONSTANTS Calls,        \* the system calls of the tracee, by name
          Unprototyped, \* of these, the ones without a prototype
          NoReal,       \* of these, the ones libc has no function for
          Untouched,    \* of these, the ones filtered, variadic or unscripted
          Pointers,     \* of these, the ones whose prototype returns a pointer
          Timeouts,     \* of these, the ones freeze lets through
          OptionSet     \* scripts and bounds, one of which Init picks

\* A call is in the first of the three classes that applies to it.  libc has
\* execve.  "getpid" is the call the lane puts in the place of a skipped one; a
\* script that skips getpid itself is left out.
ASSUME CallsAssumption ==
    /\ {"exec", "exit"} \subseteq Calls /\ "getpid" \notin Calls
    /\ "exec" \notin NoReal
    /\ NoReal \cap Unprototyped = {} /\ NoReal \cap Untouched = {}

VARIABLES
    opts,        \* script: the actions; room: the entries of the two tables;
                 \* skips: what becomes of the number of a harmless call in the
                 \* registers; bounds: calls, signals, faults
    tracee,      \* external: where the tracee is
    call,        \* external: the system call it made
    nr,          \* external: the call its registers name
    ran,         \* external: the calls the kernel executed since
    result,      \* external: the result register
    loop,        \* retrace_ptrace_trace_loop: "start", "run" or "returned"
    in_syscall, frame,
    fails, counts, \* the tables of fail_first and call_count_limit
    left,        \* history: calls, signals and faults still allowed
    due,         \* history: what the preload lane would make of the call
    faulted      \* history: a register access for this call failed

vars == <<opts, tracee, call, nr, ran, result, loop, in_syscall, frame,
          fails, counts, left, due, faulted>>

\* Values of the result register: the kernel's for a call and for getpid,
\* PTRACE_RET_DEFERRED, and the errnos the lane uses.
OfCall == 7
OfGetpid == 42
DEFERRED == 99
EPERM == 1
EACCES == 13
ENOSYS == 38
ECONNREFUSED == 111

\* An action of a script: its name, a value and a number.  PTRACE_RET_DEFERRED
\* is no value a script may force.
Action == [op : STRING, v : Int \ {DEFERRED}, n : Nat]
ASSUME ScriptAssumption == \A o \in OptionSet : o.script \in Seq(Action)

\* The kernel runs the call whose number was written, goes on with the one it
\* had (aarch64, whose number is no register of this set), or there is no
\* number of a harmless call to write.
ASSUME SkipsAssumption ==
    \A o \in OptionSet : o.skips \in {"taken", "ignored", "none"}

NoFrame == [skip_real |-> FALSE, forced |-> 0, override |-> FALSE, retval |-> 0]
Stops == {"entry", "exit", "execstop", "sigstop"}

-----------------------------------------------------------------------------
(* Actions.  A call in progress has the context's ret_val and ret_errno,    *)
(* whether the script aborted, whether the real call is to run, and its     *)
(* function's entries in the two tables.                                    *)

\* An entry of a table: free as long as its count is zero.
Free == [count |-> 0, limit |-> 0]
Room(table) == Cardinality({c \in Calls : table[c].count > 0}) < opts.room
Begin(c) == [name |-> c, ret |-> 0, errno |-> 0, aborted |-> FALSE, runs |-> FALSE,
             fails |-> fails[c], failsRoom |-> Room(fails),
             counts |-> counts[c], countsRoom |-> Room(counts)]
Abort(x) == [x EXCEPT !.aborted = TRUE]

\* find_or_claim and the increment: the limit is the one of the first claim,
\* and in a full table the function has no entry.
Tracked(e, limit, room) ==
    IF e.count > 0 THEN [e EXCEPT !.count = @ + 1]
                   ELSE IF room THEN [count |-> 1, limit |-> limit] ELSE e

deny_ret(x) == IF x.name \in Pointers THEN 0 ELSE -1
deny(x) == [Abort(x) EXCEPT !.errno = EACCES, !.ret = deny_ret(x)]
ia_freeze(x) ==
    IF x.name \in Timeouts THEN x ELSE [Abort(x) EXCEPT !.ret = deny_ret(x)]
ia_fail_first(x, a) ==
    LET y == [x EXCEPT !.fails = Tracked(x.fails, a.n, x.failsRoom)]
    IN  IF y.fails.count \in 1 .. y.fails.limit
          THEN [Abort(y) EXCEPT !.ret = a.v] ELSE y
ia_call_count_limit(x, a) ==
    LET y == [x EXCEPT !.counts = Tracked(x.counts, a.n, x.countsRoom)]
    IN  IF y.counts.count > y.counts.limit THEN Abort(y) ELSE y
ia_modify_return_value_int(x, a) == [x EXCEPT !.ret = a.v]

\* n: the percentage of the result that is left.
ia_incomplete_io(x, a) ==
    IF x.ret <= 0 \/ a.n >= 100 THEN x ELSE [x EXCEPT !.ret = (@ * a.n) \div 100]
\* n: whether the random number is under fail_rate; a seed makes both lanes draw
\* the same.
ia_memory_fuzz(x, a) == IF a.n = 1 THEN [x EXCEPT !.ret = 0] ELSE x
\* A filter over the parameters, n: whether it holds; and one over the result.
ia_filter(x, a) == IF a.n = 1 THEN x ELSE Abort(x)
ia_filter_ret(x, a) == IF x.ret >= a.v THEN x ELSE Abort(x)
\* n: whether the address of the call matches.  On the syscall lane a parameter
\* that points to anything but a string is NULL, and the call is let through.
ia_addr_deny(x, a, lane) ==
    IF lane = "preload" /\ a.n = 1
      THEN [Abort(x) EXCEPT !.ret = 0 - ECONNREFUSED] ELSE x

\* call_real answers with the result on the preload lane, with the sentinel
\* on this one.
Answer(lane) == IF lane = "preload" THEN OfCall ELSE DEFERRED
ia_call_real(x, lane) == [x EXCEPT !.runs = TRUE, !.ret = Answer(lane)]

Act(x, a, lane) ==
    IF x.aborted THEN x ELSE
    CASE a.op = "sandbox" -> deny(x)
      [] a.op = "freeze" -> ia_freeze(x)
      [] a.op = "fail_first" -> ia_fail_first(x, a)
      [] a.op = "call_count_limit" -> ia_call_count_limit(x, a)
      [] a.op = "modify" -> ia_modify_return_value_int(x, a)
      [] a.op = "incomplete_io" -> ia_incomplete_io(x, a)
      [] a.op = "memory_fuzz" -> ia_memory_fuzz(x, a)
      [] a.op = "filter" -> ia_filter(x, a)
      [] a.op = "filter_ret" -> ia_filter_ret(x, a)
      [] a.op = "addr_deny" -> ia_addr_deny(x, a, lane)
      [] a.op = "call_real" -> ia_call_real(x, lane)
      [] a.op = "log" -> x      \* one that only looks, or waits
      [] OTHER -> Abort(x)      \* not an action, or without its parameters

\* The context after each action of a script.
Progress(script, x, lane) ==
    LET After[i \in 0 .. Len(script)] ==
            IF i = 0 THEN x ELSE Act(After[i - 1], script[i], lane)
    IN  After
retrace_action_runner_run(c, lane) ==
    Progress(opts.script, Begin(c), lane)[Len(opts.script)]

\* No action of the script reads what this lane does not have: an address, or
\* the result of a call that has still to run.
ReadsResult == {"incomplete_io", "filter_ret"}
Deferrable(script) ==
    \A j \in 1 .. Len(script) :
        /\ script[j].op # "addr_deny"
        /\ script[j].op \in ReadsResult =>
             \A i \in 1 .. j : script[i].op # "call_real"

-----------------------------------------------------------------------------
(* The lane's operations on the frame. *)

cancel_sched_real(f) == [f EXCEPT !.skip_real = TRUE, !.forced = 0 - ENOSYS]

\* Mutant: the deferred result of a call that runs is written like any other.
set_ret_val_keeps_sentinel(f, ret, errno, live) ==
    IF f.skip_real THEN [f EXCEPT !.forced = IF ret = -1 THEN 0 - errno ELSE ret]
                   ELSE [f EXCEPT !.override = TRUE, !.retval = ret]

\* as_ops.c turns -1 into the errno the action recorded; as_ptrace.c forces
\* the value on a skipped call and defers it to the exit stop on one that
\* runs.  Without a recorded errno the live one is used, whatever it is.
set_ret_val(f, ret, errno, live) ==
    LET v == IF ret = -1 /\ errno > 0 THEN 0 - errno ELSE ret
    IN  CASE ~f.skip_real /\ v # DEFERRED ->
                 [f EXCEPT !.override = TRUE, !.retval = v]
          [] ~f.skip_real /\ v = DEFERRED -> f
          [] f.skip_real -> [f EXCEPT !.forced = IF v = -1 THEN 0 - live ELSE v]

\* retrace_engine_wrapper with these operations: the bail without a real
\* implementation, the ways around the actions, and a script.
Scripted(c) == c \notin Unprototyped \cup NoReal \cup Untouched
Skipping(x) == IF x.runs THEN NoFrame ELSE cancel_sched_real(NoFrame)
engine_wrapper(c, x, live) ==
    CASE c \in NoReal -> set_ret_val(NoFrame, -1, 0, live)
      [] c \in Untouched -> NoFrame
      [] Scripted(c) -> set_ret_val(Skipping(x), x.ret, x.errno, live)

\* What the preload lane makes of the same script: whether the real function
\* runs, and what the caller gets; -1 comes with some errno.
Preload(c) ==
    IF Scripted(c)
      THEN LET x == retrace_action_runner_run(c, "preload")
           IN  [runs |-> x.runs, ret |-> IF x.ret = -1 /\ x.errno > 0
                                           THEN 0 - x.errno ELSE x.ret]
      ELSE [runs |-> TRUE, ret |-> OfCall]
SameResult(r, ret) == IF ret = -1 THEN r < 0 ELSE r = ret

-----------------------------------------------------------------------------
Init ==
    /\ opts \in OptionSet
    /\ tracee = "born" /\ call = "exec" /\ nr = "exec"
    /\ ran = {"exec"} /\ result = OfCall
    /\ loop = "start" /\ in_syscall = FALSE /\ frame = NoFrame
    /\ fails = [c \in Calls |-> Free] /\ counts = [c \in Calls |-> Free]
    /\ left = [calls |-> opts.calls, signals |-> opts.signals,
               faults |-> opts.faults]
    /\ due = [runs |-> TRUE, ret |-> OfCall] /\ faulted = FALSE

\* A register access fails only when the bound allows it.
Fault == left.faults > 0
Spent(failed) == IF failed THEN [left EXCEPT !.faults = @ - 1] ELSE left

-----------------------------------------------------------------------------
(* External: the tracee and the kernel.                                     *)

Syscall(c) ==
    /\ tracee = "user" /\ left.calls > 0
    /\ left' = [left EXCEPT !.calls = @ - 1]
    /\ tracee' = "entry" /\ call' = c /\ nr' = c /\ ran' = {}
    /\ due' = Preload(c) /\ faulted' = FALSE
    /\ UNCHANGED <<opts, result, loop, in_syscall, frame, fails, counts>>

\* The kernel executes the call the registers name; exit does not return, a
\* successful exec stops once more before it returns.
KernelExecutes ==
    /\ tracee = "kernel"
    /\ ran' = ran \cup {nr}
    /\ result' = IF nr = "getpid" THEN OfGetpid ELSE OfCall
    /\ tracee' \in CASE nr = "exit" -> {"gone"}
                     [] nr = "exec" -> {"execstop", "exit"}
                     [] OTHER -> {"exit"}
    /\ UNCHANGED <<opts, call, nr, loop, in_syscall, frame, fails, counts, left,
                   due, faulted>>

\* Signal-delivery stops come on the way to user mode, after the exit stop.
Signal ==
    /\ tracee = "user" /\ left.signals > 0
    /\ left' = [left EXCEPT !.signals = @ - 1]
    /\ tracee' = "sigstop"
    /\ UNCHANGED <<opts, call, nr, ran, result, loop, in_syscall, frame, fails,
                   counts, due, faulted>>

Killed ==
    /\ tracee # "gone" /\ left.signals > 0
    /\ left' = [left EXCEPT !.signals = @ - 1]
    /\ tracee' = "gone"
    /\ UNCHANGED <<opts, call, nr, ran, result, loop, in_syscall, frame, fails,
                   counts, due, faulted>>

-----------------------------------------------------------------------------
(* retrace_ptrace_trace_loop, one action per way through its body.  A stop  *)
(* of the tracee ends in PTRACE_SYSCALL, which fails only for a tracee that *)
(* is gone: LoopReturns.                                                    *)

LoopStarts ==
    /\ loop = "start" /\ tracee = "born"
    /\ loop' = "run" /\ tracee' = "user"
    /\ UNCHANGED <<opts, call, nr, ran, result, in_syscall, frame, fails, counts,
                   left, due, faulted>>

SyscallStop == loop = "run" /\ tracee \in {"entry", "exit"}

\* The entry stop of a call the engine has no say in, and of one whose
\* registers could not be read: the frame is zeroed and the call runs.
EntryPasses ==
    /\ SyscallStop /\ ~in_syscall
    /\ \/ nr \in Unprototyped /\ UNCHANGED <<left, faulted>>
       \/ Fault /\ left' = Spent(TRUE) /\ faulted' = TRUE
    /\ frame' = NoFrame /\ in_syscall' = TRUE
    /\ tracee' = IF tracee = "entry" THEN "kernel" ELSE "user"
    /\ UNCHANGED <<opts, call, nr, ran, result, loop, fails, counts, due>>

\* The entry stop of a call the engine decides.  A skipped one is turned into
\* getpid, unless the registers cannot be written; without a number for getpid
\* it runs.
EntryDispatches ==
    /\ SyscallStop /\ ~in_syscall /\ nr \notin Unprototyped
    /\ \E failed \in {FALSE, Fault}, live \in {EPERM, ENOSYS} :
         LET x == retrace_action_runner_run(nr, "syscall")
             f == engine_wrapper(nr, x, live)
             s == Scripted(nr)
             rewritten == f.skip_real /\ opts.skips # "none"
         IN /\ failed => rewritten
            /\ frame' = IF rewritten
                          THEN [f EXCEPT !.override = TRUE, !.retval = f.forced]
                          ELSE f
            /\ nr' = IF rewritten /\ opts.skips = "taken" /\ ~failed
                       THEN "getpid" ELSE nr
            /\ fails' = IF s THEN [fails EXCEPT ![nr] = x.fails] ELSE fails
            /\ counts' = IF s THEN [counts EXCEPT ![nr] = x.counts] ELSE counts
            /\ left' = Spent(failed) /\ faulted' = failed
    /\ in_syscall' = TRUE
    /\ tracee' = IF tracee = "entry" THEN "kernel" ELSE "user"
    /\ UNCHANGED <<opts, call, ran, result, loop, due>>

\* The exit stop: an override replaces the result, unless the registers
\* cannot be read or written.
ExitStop ==
    /\ SyscallStop /\ in_syscall
    /\ \E failed \in {FALSE, Fault /\ frame.override} :
         /\ result' = IF frame.override /\ ~failed THEN frame.retval ELSE result
         /\ left' = Spent(failed) /\ faulted' = (faulted \/ failed)
    /\ frame' = [frame EXCEPT !.override = FALSE]
    /\ in_syscall' = FALSE
    /\ tracee' = IF tracee = "entry" THEN "kernel" ELSE "user"
    /\ UNCHANGED <<opts, call, nr, ran, loop, fails, counts, due>>

\* Mutant: the exec event ends the call.
ExecStopToggles ==
    /\ loop = "run" /\ tracee = "execstop"
    /\ tracee' = "exit" /\ in_syscall' = FALSE
    /\ UNCHANGED <<opts, call, nr, ran, result, loop, frame, fails, counts, left,
                   due, faulted>>

\* The exec event is a ptrace artifact and is not delivered.
ExecStop ==
    /\ loop = "run" /\ tracee = "execstop"
    /\ tracee' = "exit"
    /\ UNCHANGED <<opts, call, nr, ran, result, loop, in_syscall, frame, fails,
                   counts, left, due, faulted>>

SignalStop ==
    /\ loop = "run" /\ tracee = "sigstop"
    /\ tracee' = "user"
    /\ UNCHANGED <<opts, call, nr, ran, result, loop, in_syscall, frame, fails,
                   counts, left, due, faulted>>

\* Mutant: the end of the tracee is looked for only between calls.
LoopReturnsBetweenCalls ==
    /\ loop # "returned" /\ tracee = "gone" /\ ~in_syscall
    /\ loop' = "returned"
    /\ UNCHANGED <<opts, tracee, call, nr, ran, result, in_syscall, frame, fails,
                   counts, left, due, faulted>>

\* The status says the tracee exited or was killed, or resuming it failed.
LoopReturns ==
    /\ loop # "returned" /\ tracee = "gone"
    /\ loop' = "returned"
    /\ UNCHANGED <<opts, tracee, call, nr, ran, result, in_syscall, frame, fails,
                   counts, left, due, faulted>>

Tracer ==
    \/ LoopStarts \/ EntryPasses \/ EntryDispatches \/ ExitStop
    \/ ExecStop \/ SignalStop \/ LoopReturns
Next ==
    \/ \E c \in Calls : Syscall(c)
    \/ KernelExecutes \/ Signal \/ Killed \/ Tracer

Spec == Init /\ [][Next]_vars
\* The loop answers every stop and the kernel finishes every call.
FairSpec == Spec /\ WF_vars(Tracer) /\ WF_vars(KernelExecutes)

-----------------------------------------------------------------------------
(* Properties *)

\* The loop tells entries from exits by counting syscall stops
\* (trace_loop.c:194, :285).  Across exec events, signals and failed register
\* accesses its count agrees with the kernel: it never takes an exit for an
\* entry, which would run the policy on a finished call and let the next one
\* through unjudged, and a frame never carries an override into the next call.
StopsPaired ==
    /\ tracee = "entry" => ~in_syscall
    /\ tracee \in {"kernel", "exit", "execstop"} => in_syscall
    /\ tracee \in {"user", "sigstop"} /\ loop = "run" =>
           ~in_syscall /\ ~frame.override

\* When a call returns, it was executed exactly if the script would have run
\* the real function on the preload lane, and the tracee reads what the caller
\* would have read, the libc convention turned into the kernel's (ADR-0016,
\* as_ptrace.c:129-192).  For a call without a libc counterpart the lanes
\* differ: engine.c:425 gives up with -1, which here lets the call run and
\* hides its result.
Agreement ==
    IF call \in NoReal
      THEN call \in ran /\ result = -1
      ELSE /\ due.runs <=> call \in ran
           /\ SameResult(result, due.ret)

\* The two lanes agree on a script that reads nothing this lane does not have,
\* with a kernel that runs the call whose number was written.
Comparable == opts.skips = "taken" /\ Deferrable(opts.script)
LanesAgree == tracee = "user" /\ ~faulted /\ Comparable => Agreement

\* What ADR-0016 says without the first restriction: "honest action semantics
\* [...] all from the same JSON scripts the preload lanes use".  An action
\* behind call_real that reads the result reads the sentinel instead.
SameScriptsAgree ==
    /\ tracee = "user" /\ ~faulted /\ opts.skips = "taken"
    /\ \A i \in 1 .. Len(opts.script) : opts.script[i].op # "addr_deny"
    => Agreement

\* A stopped tracee runs again, or is gone, and then the loop returns
\* (trace_loop.c:183, :301-320): a stop that no branch answered would leave
\* the target hanging.
NoStopUnanswered ==
    /\ (loop = "run" /\ tracee \in Stops) ~> tracee \in {"user", "gone"}
    /\ (tracee = "gone") ~> (loop = "returned")
=============================================================================
