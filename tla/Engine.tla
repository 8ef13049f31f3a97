------------------------------- MODULE Engine -------------------------------
(***************************************************************************)
(* Dispatch of intercepted calls (src/core/engine.c) with the parts it     *)
(* runs through: the name cache, the per-thread context and its guard      *)
(* (thread_context.c, reentrance_guard.c, cleanup.c), the script resolver  *)
(* (script_resolver.c, config_cache.c, caller_match.c), the action runner  *)
(* (action_runner.c), and the swap of the configuration by the agent.      *)
(*                                                                         *)
(* A thread has a stack of calls in flight: a nested call is libc called   *)
(* from the resolver or from an action, or by a signal handler of the      *)
(* target, so it may arrive between any two steps.  The pre-init path      *)
(* schedules the real implementation and touches no state: left out.       *)
(***************************************************************************)
EXTENDS Integers, Sequences, FiniteSets

CONSTANTS Threads,     \* threads of the target
          Permanent,   \* of these, retrace's own: under the permanent guard
          Funcs,       \* wrapped functions
          Missing,     \* of these, the ones without a real implementation
          Unprototyped,\* of these, the ones without a prototype
          Callers,     \* return addresses
          Size, Home,  \* REAL_CACHE_SLOTS; the slot a name hashes to
          MaxEntries,  \* CONFIG_CACHE_MAX_ENTRIES
          OptionSet    \* configurations and bounds, one of which Init picks

ASSUME SizeAssumption ==
    Size \in Nat \ {0} /\ Home \in [Funcs -> 0 .. Size - 1] /\ MaxEntries \in Nat
ASSUME FuncsAssumption ==
    /\ Missing \subseteq Funcs /\ Unprototyped \subseteq Funcs
    /\ Funcs \cap {"none", "null", "*"} = {} /\ Callers \cap {"null", "any"} = {}
ASSUME ThreadsAssumption == Permanent \subseteq Threads

VARIABLES
    opts,      \* the configurations "first" and "second"; the threads that call
               \* and the functions they call; the bounds depth, calls and faults
    conf,      \* retrace_conf: one of the two
    snapshot,  \* g_snap: the one the name index was built from
    table,     \* real_cache
    ctx,       \* each thread's ThreadContext
    stack,     \* each thread's calls in flight, the innermost last
    left,      \* history: calls and faults still allowed
    clash      \* history: slots two calls were filling at the same time

vars == <<opts, conf, snapshot, table, ctx, stack, left, clash>>

None == "none"
Slots == 0 .. Size - 1
EmptySlot == [hash |-> None, name |-> None, real |-> None, proto |-> None]
Filling == {"copy", "fill", "publish"}
Guarded == {"proto", "find", "act", "return"}
ForGood == 0 - 1        \* RETRANCE_GUARD_PERMANENT

\* A zeroed context; guard is the call whose frame it holds.  ret_addr is
\* zeroed with it and assigned nowhere.
NoContext == [live |-> FALSE, guard |-> 0, depth |-> 0, proto |-> None,
              ret |-> "zero", ret_addr |-> "null"]
Cleared == [NoContext EXCEPT !.live = TRUE]

\* What is known of the options: threads and functions of the target, and lists
\* of scripts as script_resolver.c reads them.
Script == [func : Funcs \cup {"*"}, callers : SUBSET Callers,
           addr : Callers \cup {"any"}, does : STRING]
ASSUME OptionsAssumption ==
    \A o \in OptionSet : /\ o.threads \subseteq Threads /\ o.funcs \subseteq Funcs
                         /\ o.depth \in Nat
                         /\ o.first \in Seq(Script) /\ o.second \in Seq(Script)

Real(f) == IF f \in Missing THEN "null" ELSE f
Proto(f) == IF f \in Unprototyped THEN None ELSE f

-----------------------------------------------------------------------------
(* script_resolver.c.  A script has a function (or "*"), the callers its    *)
(* caller_matches name ({} when there is no array), its return_addr (or     *)
(* "any"), and what its actions come to.                                    *)

\* eval_caller_matches: -1 without an array and when no entry could be
\* evaluated, as for a null return address.
eval_caller_matches(s, addr) ==
    CASE s.callers = {} \/ addr = "null" -> -1
      [] s.callers # {} /\ addr \in s.callers -> 1
      [] OTHER -> 0

\* The scan stops at this script; or remembers it as a candidate.
Stops(s, f, addr) ==
    \/ s.func = "*"
    \/ /\ s.func = f
       /\ \/ eval_caller_matches(s, addr) = 1
          \/ eval_caller_matches(s, addr) = -1 /\ addr \in {"null", s.addr}
Candidate(s, f, addr) ==
    /\ s.func = f /\ s.addr = "any"
    /\ eval_caller_matches(s, addr) = -1 /\ addr # "null"

NoScript == [func |-> None, callers |-> {}, addr |-> None, does |-> None]
Least(hits) == CHOOSE i \in hits : \A j \in hits : i <= j
FirstOf(list, hits) == IF hits = {} THEN NoScript ELSE list[Least(hits)]

\* retrace_config_cache_build: the named scripts, as many as fit;
\* retrace_config_cache_lookup: the first of that name.
NamedUpTo(list, i) == {j \in 1 .. i : list[j].func # "*"}
Indexed(list) ==
    {i \in DOMAIN list : /\ list[i].func # "*"
                         /\ Cardinality(NamedUpTo(list, i)) <= MaxEntries}
Lookup(list, f) == FirstOf(list, {i \in Indexed(list) : list[i].func = f})

Scan(list, f, addr) ==
    LET hit == FirstOf(list, {i \in DOMAIN list : Stops(list[i], f, addr)})
    IN IF hit # NoScript THEN hit
       ELSE FirstOf(list, {i \in DOMAIN list : Candidate(list[i], f, addr)})

\* Mutant: a name the index does not have is taken for a name without script.
find_trusts_index(snap, list, f, addr) == Lookup(snap, f)

\* retrace_script_find: the indexed script at once if it is unconstrained.
retrace_script_find(snap, list, f, addr) ==
    LET cached == Lookup(snap, f)
    IN IF cached # NoScript /\ cached.callers = {} /\ cached.addr = "any"
       THEN cached ELSE Scan(list, f, addr)

-----------------------------------------------------------------------------
(* The innermost call of a thread, and its steps.                           *)

NewCall(f, c) ==
    [func |-> f, caller |-> c, pc |-> "probe", slot |-> Home[f], real |-> None,
     proto |-> None, sched |-> FALSE, ret |-> None, list |-> None,
     snap |-> None, script |-> NoScript]

Top(t) == stack[t][Len(stack[t])]
At(t, pc) == stack[t] # <<>> /\ Top(t).pc = pc
SetTop(t, call) == stack' = [stack EXCEPT ![t][Len(stack[t])] = call]

\* A call arrives, nested or not.
Enter(t, f, c) ==
    /\ left.calls > 0 /\ Len(stack[t]) < opts.depth
    /\ stack[t] # <<>> => Top(t).pc # "exit"
    /\ stack' = [stack EXCEPT ![t] = Append(@, NewCall(f, c))]
    /\ left' = [left EXCEPT !.calls = @ - 1]
    /\ UNCHANGED <<opts, conf, snapshot, table, ctx, clash>>

\* Mutant: only a slot of another hash is passed.
ProbeStaysOnHash(t) ==
    /\ At(t, "probe")
    /\ LET call == Top(t)
           el   == table[call.slot]
       IN \/ /\ el.hash = call.func /\ el.name = call.func
             /\ SetTop(t, [call EXCEPT !.pc = "context", !.real = el.real])
          \/ /\ el.hash = None
             /\ SetTop(t, [call EXCEPT !.pc = "copy"])
          \/ /\ el.hash \notin {None, call.func}
             /\ SetTop(t, [call EXCEPT !.slot = (@ + 1) % Size])
    /\ UNCHANGED <<opts, conf, snapshot, table, ctx, left, clash>>

\* name_slot_lookup: a published slot of this name answers, an empty one is
\* taken, any other is passed.
Probe(t) ==
    /\ At(t, "probe")
    /\ LET call == Top(t)
           el   == table[call.slot]
       IN \/ /\ el.hash = call.func /\ el.name = call.func
             /\ SetTop(t, [call EXCEPT !.pc = "context", !.real = el.real])
             /\ UNCHANGED clash
          \/ /\ el.hash = None
             /\ SetTop(t, [call EXCEPT !.pc = "copy"])
             /\ clash' = IF \E u \in Threads, i \in 1 .. opts.depth :
                               /\ i \in DOMAIN stack[u]
                               /\ stack[u][i].slot = call.slot
                               /\ stack[u][i].pc \in Filling
                         THEN clash \cup {call.slot} ELSE clash
          \/ /\ el.hash # None /\ ~(el.hash = call.func /\ el.name = call.func)
             /\ SetTop(t, [call EXCEPT !.slot = (@ + 1) % Size])
             /\ UNCHANGED clash
    /\ UNCHANGED <<opts, conf, snapshot, table, ctx, left>>

\* Mutant: the hash is published before the slot is filled.
CopyAndPublish(t) ==
    /\ At(t, "copy")
    /\ table' = [table EXCEPT ![Top(t).slot].name = Top(t).func,
                              ![Top(t).slot].hash = Top(t).func]
    /\ SetTop(t, [Top(t) EXCEPT !.pc = "fill"])
    /\ UNCHANGED <<opts, conf, snapshot, ctx, left, clash>>

\* The real implementation is resolved and the name copied into the slot ...
CopyName(t) ==
    /\ At(t, "copy")
    /\ table' = [table EXCEPT ![Top(t).slot].name = Top(t).func]
    /\ SetTop(t, [Top(t) EXCEPT !.pc = "fill"])
    /\ UNCHANGED <<opts, conf, snapshot, ctx, left, clash>>

\* ... then the answer, no prototype yet ...
FillSlot(t) ==
    /\ At(t, "fill")
    /\ table' = [table EXCEPT ![Top(t).slot].real = Real(Top(t).func),
                              ![Top(t).slot].proto = None]
    /\ SetTop(t, [Top(t) EXCEPT !.pc = "publish"])
    /\ UNCHANGED <<opts, conf, snapshot, ctx, left, clash>>

\* ... and the hash, which makes the slot visible.
PublishSlot(t) ==
    /\ At(t, "publish")
    /\ table' = [table EXCEPT ![Top(t).slot].hash = Top(t).func]
    /\ SetTop(t, [Top(t) EXCEPT !.pc = "context", !.real = Real(Top(t).func)])
    /\ UNCHANGED <<opts, conf, snapshot, ctx, left, clash>>

\* retrace_thread_context_get, allocated on first use, and the depth count.
\* Without a context the call leaves with nothing scheduled.  One step: a signal
\* between the tss_set and the memset of the new context is left out.
GetContext(t) ==
    /\ At(t, "context")
    /\ \/ /\ ctx' = [ctx EXCEPT ![t].live = TRUE, ![t].depth = @ + 1]
          /\ SetTop(t, [Top(t) EXCEPT !.pc = "sched"])
          /\ UNCHANGED left
       \/ /\ ~ctx[t].live /\ left.faults > 0
          /\ left' = [left EXCEPT !.faults = @ - 1]
          /\ SetTop(t, [Top(t) EXCEPT !.pc = "exit", !.ret = "unset"])
          /\ UNCHANGED ctx
    /\ UNCHANGED <<opts, conf, snapshot, table, clash>>

\* Mutant: the guard's early return clears the context.
GuardClears(t) ==
    /\ At(t, "sched")
    /\ LET call == Top(t)
       IN \/ /\ call.real # "null" /\ ctx[t].guard # 0
             /\ ctx' = [ctx EXCEPT ![t] = Cleared]
             /\ SetTop(t, [call EXCEPT !.pc = "exit", !.sched = TRUE])
          \/ /\ call.real # "null" /\ ctx[t].guard = 0
             /\ ctx' = [ctx EXCEPT ![t].guard = Len(stack[t])]
             /\ SetTop(t, [call EXCEPT !.pc = "proto", !.sched = TRUE])
    /\ UNCHANGED <<opts, conf, snapshot, table, left, clash>>

\* No real implementation: return -1.  Else schedule it, leave if the guard is
\* taken, and take it.
SchedAndGuard(t) ==
    /\ At(t, "sched")
    /\ LET call == Top(t)
       IN \/ /\ call.real = "null"
             /\ ctx' = [ctx EXCEPT ![t].depth = @ - 1]
             /\ SetTop(t, [call EXCEPT !.pc = "exit", !.ret = "minus one"])
          \/ /\ call.real # "null" /\ ctx[t].guard # 0
             /\ ctx' = [ctx EXCEPT ![t].depth = @ - 1]
             /\ SetTop(t, [call EXCEPT !.pc = "exit", !.sched = TRUE])
          \/ /\ call.real # "null" /\ ctx[t].guard = 0
             /\ ctx' = [ctx EXCEPT ![t].guard = Len(stack[t])]
             /\ SetTop(t, [call EXCEPT !.pc = "proto", !.sched = TRUE])
    /\ UNCHANGED <<opts, conf, snapshot, table, left, clash>>

\* slot_proto: from the slot the entry resolved, filled in if it is not there.
\* No prototype, a filtered function, parameters that cannot be set up: the
\* context is cleared and the real call stands.  Else read retrace_conf.
FindPrototype(t) ==
    /\ At(t, "proto")
    /\ LET call  == Top(t)
           proto == IF table[call.slot].proto # None THEN table[call.slot].proto
                    ELSE Proto(call.func)
       IN /\ table' = [table EXCEPT ![call.slot].proto = proto]
          /\ \/ /\ SetTop(t, [call EXCEPT !.pc = "exit", !.proto = proto])
                /\ ctx' = [ctx EXCEPT ![t] = Cleared]
             \/ /\ proto # None
                /\ SetTop(t, [call EXCEPT !.pc = "find", !.proto = proto,
                                          !.list = conf])
                /\ ctx' = [ctx EXCEPT ![t].proto = proto]
    /\ UNCHANGED <<opts, conf, snapshot, left, clash>>

\* retrace_script_find with the current index; no script: the real call stands.
FindScript(t) ==
    /\ At(t, "find")
    /\ LET call == Top(t)
           s    == retrace_script_find(opts[snapshot], opts[call.list], call.func,
                                       ctx[t].ret_addr)
       IN \/ /\ s = NoScript
             /\ SetTop(t, [call EXCEPT !.pc = "exit", !.snap = snapshot])
             /\ ctx' = [ctx EXCEPT ![t] = Cleared]
          \/ /\ s # NoScript
             /\ SetTop(t, [call EXCEPT !.pc = "act", !.sched = FALSE, !.script = s,
                                       !.snap = snapshot])
             /\ UNCHANGED ctx
    /\ UNCHANGED <<opts, conf, snapshot, table, left, clash>>

\* retrace_action_runner_run: the actions set the context's ret_val, or an
\* action aborts the script (or there is none) and it stays zero.
RunActions(t) ==
    /\ At(t, "act")
    /\ \E r \in {Top(t).script.does, "zero"} : ctx' = [ctx EXCEPT ![t].ret = r]
    /\ SetTop(t, [Top(t) EXCEPT !.pc = "return"])
    /\ UNCHANGED <<opts, conf, snapshot, table, left, clash>>

\* The value goes to the call's own frame and the context is cleared.
WriteBack(t) ==
    /\ At(t, "return")
    /\ SetTop(t, [Top(t) EXCEPT !.pc = "exit", !.ret = ctx[t].ret])
    /\ ctx' = [ctx EXCEPT ![t] = Cleared]
    /\ UNCHANGED <<opts, conf, snapshot, table, left, clash>>

Leave(t) ==
    /\ At(t, "exit")
    /\ stack' = [stack EXCEPT ![t] = SubSeq(@, 1, Len(@) - 1)]
    /\ UNCHANGED <<opts, conf, snapshot, table, ctx, left, clash>>

-----------------------------------------------------------------------------
(* retrace_agent_policy_apply: the index first, then the configuration.     *)

BuildIndex ==
    /\ snapshot = "first" /\ opts.first # opts.second
    /\ snapshot' = "second"
    /\ UNCHANGED <<opts, conf, table, ctx, stack, left, clash>>

SetConf ==
    /\ conf # snapshot
    /\ conf' = snapshot
    /\ UNCHANGED <<opts, snapshot, table, ctx, stack, left, clash>>

-----------------------------------------------------------------------------
Init ==
    /\ opts \in OptionSet
    /\ conf = "first" /\ snapshot = "first"
    /\ table = [i \in Slots |-> EmptySlot]
    /\ ctx = [t \in Threads |->
                IF t \in Permanent THEN [Cleared EXCEPT !.guard = ForGood]
                ELSE NoContext]
    /\ stack = [t \in Threads |-> <<>>]
    /\ left = [calls |-> opts.calls, faults |-> opts.faults]
    /\ clash = {}

Step(t) == \/ Probe(t) \/ CopyName(t) \/ FillSlot(t) \/ PublishSlot(t)
           \/ GetContext(t) \/ SchedAndGuard(t) \/ FindPrototype(t)
           \/ FindScript(t) \/ RunActions(t) \/ WriteBack(t) \/ Leave(t)

Next == \/ \E t \in Threads : Step(t)
        \/ \E t \in opts.threads, f \in opts.funcs, c \in Callers : Enter(t, f, c)
        \/ BuildIndex \/ SetConf

Spec == Init /\ [][Next]_vars
\* Every thread is scheduled.
FairSpec == Spec /\ \A t \in Threads : WF_vars(Step(t))

-----------------------------------------------------------------------------
Calls(t) == {stack[t][i] : i \in DOMAIN stack[t]}

(* A call is sent to its own real implementation and read with its own      *)
(* prototype, whatever calls interrupt it and whatever other threads look   *)
(* up -- except through a slot two calls were filling at the same time.     *)
OwnResolution ==
    \A t \in Threads : \A call \in Calls(t) :
        (call.slot \notin clash /\ call.pc \notin {"probe"} \cup Filling)
        => /\ call.real = Real(call.func)
           /\ call.proto \in {None, Proto(call.func)}

(* The guard: between taking it and clearing the context a call owns the    *)
(* context -- no nested call, however it arrives, takes or clears it, and a *)
(* call that ran a script returns what its own script decided.  retrace's   *)
(* own threads stay under the permanent guard.                              *)
ContextOwned ==
    \A t \in Threads :
        /\ \A i \in DOMAIN stack[t] :
              /\ (stack[t][i].pc \in Guarded) <=> (ctx[t].guard = i)
              /\ stack[t][i].pc = "exit" /\ stack[t][i].script # NoScript
                 => stack[t][i].ret \in {stack[t][i].script.does, "zero"}
        /\ t \in Permanent => ctx[t].guard = ForGood

(* A call whose configuration is swapped under it gets a script of one of   *)
(* the two all the same: the first, in array order, that is for its         *)
(* function or for all in the one it read, or the first of its own name in  *)
(* the one the index was built from.  And a wildcard in front takes nothing *)
(* away from a function's own script (cookbook 09, 10, 11, 18 and 19 seed   *)
(* the generator in a "*" in front of the script that matters), unless that *)
(* script has a condition, or stands behind the last entry of the index.    *)
(* Conditions on the caller select nothing: see CallerGated.                *)
FirstMatch(list, f) == FirstOf(list, {i \in DOMAIN list : list[i].func \in {f, "*"}})
OwnScript(list, f) == FirstOf(list, {i \in DOMAIN list : list[i].func = f})
OwnIndexed(list, f) ==
    \E i \in DOMAIN list :
        /\ list[i].func = f /\ list[i].callers = {} /\ list[i].addr = "any"
        /\ \A j \in DOMAIN list : list[j].func = f => i <= j
        /\ Cardinality({j \in 1 .. i : list[j].func # "*"}) <= MaxEntries
OfOnePolicy(s, list, snap, f) ==
    /\ s \in {FirstMatch(list, f), OwnScript(snap, f)}
    /\ OwnIndexed(snap, f) => s.func = f
OnePolicy ==
    \A t \in Threads : \A call \in Calls(t) :
        call.snap # None
        => OfOnePolicy(call.script, opts[call.list], opts[call.snap], call.func)

(* docs/cookbook/17: "retrace captures the return address ... lets you gate *)
(* the script on that address": a script with caller_matches runs for the   *)
(* callers it names and no others.                                          *)
CallerGated ==
    \A t \in Threads : \A call \in Calls(t) :
        (call.script # NoScript /\ call.script.callers # {})
        => call.caller \in call.script.callers

(* Every call returns: probing ends, nesting unwinds.                       *)
CallsReturn == (\E t \in Threads : stack[t] # <<>>)
               ~> (\A t \in Threads : stack[t] = <<>>)

=============================================================================
