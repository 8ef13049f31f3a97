------------------------------- MODULE Agent -------------------------------
(***************************************************************************)
(* The evidence side of the supervised agent (src/supervisor/agent_posix.c *)
(* and agent_ring.c): threads of the target queue events in a bounded      *)
(* ring, one agent thread owns the connection and drains the ring, a fork  *)
(* leaves a child with half an agent, and deinit waits for the last drain. *)
(*                                                                         *)
(* The model follows one process; a fork step follows the child.  A        *)
(* critical section is one step; the mutex is explicit because a fork can  *)
(* leave it taken for ever.  What the daemon sends back                    *)
(* (WELCOME, POLICY_SET) is in PolicyPlane and Supervisor.                 *)
(***************************************************************************)
EXTENDS Naturals, Sequences, FiniteSets

CONSTANTS Threads,     \* threads of the target
          Cap,         \* AGENT_RING_CAP
          OptionSet    \* start-up options and bounds, one of which Init picks

ASSUME CapAssumption == Cap \in Nat \ {0}
ASSUME ThreadsAssumption == "agent" \notin Threads  \* the sender of markers
ASSUME OptionAssumption ==
    OptionSet \subseteq [eager : BOOLEAN, numbers : Nat, faults : Nat]

VARIABLES
    opts,      \* eager: RETRACE_SUPERVISOR_EAGER; the bounds on sequence numbers
               \* and on daemon deaths, failed allocations and failed creates
    pid,       \* 1, and 2 once the child is followed
    tpc,       \* where each thread of the target is in emit_event or kick
    item,      \* the number of the event a thread is about to queue
    mu,        \* g_agent.mu: "free", or who keeps it for ever
    ring,      \* g_agent.ring, oldest first
    dropped,   \* ring.dropped
    reported,  \* drops_reported
    seen,      \* the drop count drain_queue has read and not yet reported
    seq,       \* g_agent.seq
    spawned,   \* thread_spawned
    spawner,   \* spawner_pid
    handlers,  \* pthread_atfork registrations of this image
    kicked,    \* g_kick_done
    stop, apc, \* the stop flag; where the agent thread is ("none": no thread)
    final,     \* the agent thread is past its loop
    link,      \* the agent's connection: "none", "up", "broken"
    daemon,    \* "up"; "stuck": it lives and reads nothing; "down"
    sent,      \* history: what reached the daemon, in order, in this process
    pushed,    \* history: events queue_push was called for, in this process
    lost,      \* history: events discarded by fork_adopt
    handled,   \* history: no fork happened without the atfork handlers
    faults

queueVars == <<mu, ring, dropped, reported, seen>>
spawnVars == <<spawned, spawner, handlers, kicked>>
agentThread == <<apc, final, link>>
history == <<sent, pushed, lost, handled>>
vars == <<opts, pid, tpc, item, queueVars, seq, spawnVars, stop, agentThread,
          daemon, history, faults>>

Event(s, t) == [kind |-> "event", seq |-> s, by |-> t, total |-> 0]
Marker(n)   == [kind |-> "marker", seq |-> 0, by |-> "agent", total |-> n]
\* The places of the events in a queue.
Events(q)   == {i \in DOMAIN q : q[i].kind = "event"}

-----------------------------------------------------------------------------
\* Mutant: a full ring gives its oldest item away, uncounted.
PushOverOldest(m) ==
    /\ ring' = Append(IF Len(ring) >= Cap THEN Tail(ring) ELSE ring, m)
    /\ UNCHANGED dropped

\* agent_ring_push: a full ring refuses the new item and counts it.  (What the
\* agent copies into a slot always fits: both buffers are 768 bytes.)
Push(m) ==
    IF Len(ring) >= Cap
    THEN dropped' = dropped + 1 /\ UNCHANGED ring
    ELSE ring' = Append(ring, m) /\ UNCHANGED dropped

At(t, here, there) == tpc[t] = here /\ tpc' = [tpc EXCEPT ![t] = there]

-----------------------------------------------------------------------------
(* retrace_agent_emit_event, in any thread of the target.                   *)

\* The number is taken before the mutex.  The event fits the stack buffer; or
\* build_event_json takes the heap and a second number; or its allocations,
\* which come before that number, fail and emit_event returns -1.
EmitFormats(t) ==
    /\ \/ /\ At(t, "idle", "push")
          /\ \E n \in {1, 2} : seq' = seq + n
          /\ UNCHANGED faults
       \/ /\ tpc[t] = "idle" /\ faults > 0
          /\ faults' = faults - 1 /\ seq' = seq + 1
          /\ UNCHANGED tpc
    /\ seq' <= opts.numbers
    /\ item' = [item EXCEPT ![t] = IF tpc'[t] = "push" THEN seq' ELSE 0]
    /\ UNCHANGED <<opts, pid, queueVars, spawnVars, stop, agentThread, daemon,
                   history>>

\* queue_push
EmitPushes(t) ==
    /\ At(t, "push", "adopt") /\ mu = "free"
    /\ Push(Event(item[t], t))
    /\ item' = [item EXCEPT ![t] = 0]
    /\ pushed' = pushed + 1
    /\ UNCHANGED <<opts, pid, mu, reported, seen, seq, spawnVars, stop, agentThread,
                   daemon, sent, lost, handled, faults>>

\* fork_adopt: a thread flag whose spawner is not this pid is taken over, and
\* the ring emptied outside the mutex: a push under way may undo that.
EmitAdopts(t) ==
    /\ At(t, "adopt", "idle")
    /\ spawned /\ spawner # pid
    /\ ring' \in {<<>>} \cup {ring : u \in {v \in Threads \ {t} : tpc[v] = "push"}}
    /\ lost' = lost + Cardinality(Events(ring)) - Cardinality(Events(ring'))
    /\ link' = "none" /\ stop' = FALSE /\ spawner' = pid
    /\ UNCHANGED <<opts, pid, item, mu, dropped, reported, seen, seq, spawned,
                   handlers, kicked, apc, final, daemon, sent, pushed, handled,
                   faults>>

\* spawn_agent_thread: one winner of the CAS, which then records its pid and
\* creates the thread; a failed create gives the flag back.
Wins(t, here, create) ==
    /\ IF spawned THEN At(t, here, "idle") ELSE At(t, here, create)
    /\ spawned' = TRUE

Creates(t, here) ==
    /\ At(t, here, "idle")
    /\ spawner' = pid
    /\ \/ apc' = "loop" /\ UNCHANGED <<spawned, faults>>
       \/ faults > 0 /\ faults' = faults - 1 /\ spawned' = FALSE /\ UNCHANGED apc

EmitSpawns(t) ==
    /\ \/ /\ ~(spawned /\ spawner # pid)
          /\ Wins(t, "adopt", "create")
          /\ UNCHANGED <<spawner, apc, faults>>
       \/ Creates(t, "create")
    /\ UNCHANGED <<opts, pid, item, queueVars, seq, handlers, kicked, stop, final,
                   link, daemon, history>>

-----------------------------------------------------------------------------
(* retrace_agent_kick, on a dispatch of any thread.                         *)

\* The flag is read here and written at the end, or at once when the thread
\* runs.  (Without EAGER kick only sets the flag: Init has it set.)
KickChecks(t) ==
    /\ ~kicked
    /\ IF spawned THEN tpc[t] = "idle" /\ UNCHANGED tpc ELSE At(t, "idle", "kick")
    /\ kicked' = spawned
    /\ UNCHANGED <<opts, pid, item, queueVars, seq, spawned, spawner, handlers, stop,
                   agentThread, daemon, history, faults>>

\* pthread_atfork, then the CAS of spawn_agent_thread.
KickRegisters(t) ==
    /\ Wins(t, "kick", "kickCreate")
    /\ handlers' = handlers + 1
    /\ kicked' = (kicked \/ spawned)
    /\ UNCHANGED <<opts, pid, item, queueVars, seq, spawner, stop, agentThread,
                   daemon, history, faults>>

KickSpawns(t) ==
    /\ Creates(t, "kickCreate")
    /\ kicked' = TRUE
    /\ UNCHANGED <<opts, pid, item, queueVars, seq, handlers, stop, final, link,
                   daemon, history>>

-----------------------------------------------------------------------------
(* fork() by thread t: the child has that thread alone.                     *)

Child(t) == /\ pid' = 2
            /\ tpc' = [u \in Threads |-> IF u = t THEN "idle" ELSE "gone"]
            /\ apc' = "none" /\ final' = FALSE /\ seen' = 0
            /\ sent' = <<>> /\ pushed' = 0 /\ lost' = 0
            /\ item' = [u \in Threads |-> 0]
            /\ UNCHANGED <<opts, dropped, reported, seq, handlers, kicked, daemon,
                           faults>>

\* Without handlers the child starts from a copy, and the mutex stays taken if
\* another thread of the parent was inside a critical section.
ForkPlain(t) ==
    /\ pid = 1 /\ tpc[t] = "idle" /\ handlers = 0
    /\ Child(t)
    /\ mu' \in IF apc \in {"peek", "pop", "mark"} \/ \E u \in Threads : tpc[u] = "push"
              THEN {"free", "gone"} ELSE {"free"}
    /\ handled' = FALSE
    /\ UNCHANGED <<ring, spawned, spawner, stop, link>>

\* Mutant: agent_atfork_child keeps the inherited thread flag.
ForkKeepsFlag(t) ==
    /\ pid = 1 /\ tpc[t] = "idle" /\ handlers = 1 /\ mu = "free"
    /\ Child(t)
    /\ link' = "none" /\ ring' = <<>> /\ stop' = FALSE
    /\ UNCHANGED <<mu, spawned, spawner, handled>>

\* agent_atfork_prepare waits for the mutex; agent_atfork_child resets.
ForkHandled(t) ==
    /\ pid = 1 /\ tpc[t] = "idle" /\ handlers = 1 /\ mu = "free"
    /\ Child(t)
    /\ link' = "none" /\ ring' = <<>>
    /\ spawned' = FALSE /\ stop' = FALSE
    /\ UNCHANGED <<mu, spawner, handled>>

\* Two registrations: the second prepare locks the mutex the first one holds.
ForkStuck(t) ==
    /\ pid = 1 /\ handlers > 1 /\ mu = "free"
    /\ At(t, "idle", "stuck")
    /\ mu' = t
    /\ UNCHANGED <<opts, pid, item, ring, dropped, reported, seen, seq, spawnVars,
                   stop, agentThread, daemon, history, faults>>

-----------------------------------------------------------------------------
(* agent_thread_main                                                        *)

Step(here, there) == apc = here /\ apc' = there
KeepTarget == UNCHANGED <<opts, pid, tpc, item, seq, spawnVars, pushed, lost,
                           handled>>

\* Mutant: the stop flag is read only with a connection.
LoopWaitsForDaemon ==
    /\ Step("loop", IF link = "none" /\ daemon = "down" THEN "loop" ELSE "peek")
    /\ final' = (stop /\ link # "none")
    /\ link' = IF link = "none" /\ daemon # "down" THEN "up" ELSE link
    /\ UNCHANGED <<queueVars, stop, daemon, sent, faults>> /\ KeepTarget

\* Top of the loop: stop ends it; no connection means try_connect, with its
\* HELLO, or a nap.  After the loop one more connect is tried before the last
\* drain.  A stuck daemon's backlog still takes a connection.
LoopTop ==
    /\ Step("loop", IF link = "none" /\ daemon = "down"
                    THEN (IF stop THEN "bye" ELSE "loop") ELSE "peek")
    /\ final' = stop
    /\ link' = IF link = "none" /\ daemon # "down" THEN "up" ELSE link
    /\ UNCHANGED <<queueVars, stop, daemon, sent, faults>> /\ KeepTarget

\* drain_queue: look at the oldest item under the mutex ...
DrainPeeks ==
    /\ mu = "free"
    /\ Step("peek", IF ring = <<>> THEN "marker" ELSE "send")
    /\ UNCHANGED <<queueVars, stop, final, link, daemon, sent, faults>> /\ KeepTarget

\* ... send it without the mutex; a failed send keeps the item and drops the
\* connection.  The send has no timeout: with a stuck daemon it returns while the
\* socket's buffer has room, and else not (Blocks) ...
DrainSends ==
    /\ \/ /\ link = "up" /\ Step("send", "pop")
          /\ sent' = Append(sent, Head(ring))
          /\ UNCHANGED link
       \/ /\ link = "broken" /\ Step("send", "poll")
          /\ link' = "none"
          /\ UNCHANGED sent
    /\ UNCHANGED <<queueVars, stop, final, daemon, faults>> /\ KeepTarget

\* Mutant: the place is given back only when the connection still stands.
PopsIfUp ==
    /\ mu = "free" /\ Step("pop", "peek")
    /\ ring' = IF link = "up" THEN Tail(ring) ELSE ring
    /\ UNCHANGED <<mu, dropped, reported, seen, stop, final, link, daemon, sent, faults>>
    /\ KeepTarget

\* ... and give the place back.
DrainPops ==
    /\ mu = "free" /\ Step("pop", "peek")
    /\ ring' = Tail(ring)
    /\ UNCHANGED <<mu, dropped, reported, seen, stop, final, link, daemon, sent, faults>>
    /\ KeepTarget

\* The ring was empty: the drop count is read, without the mutex ...
DrainCounts ==
    /\ Step("marker", IF dropped = reported THEN "poll" ELSE "mark")
    /\ seen' = IF dropped = reported THEN 0 ELSE dropped
    /\ UNCHANGED <<mu, ring, dropped, reported, stop, final, link, daemon, sent,
                   faults>>
    /\ KeepTarget

\* ... a loss marker for it is queued, unless the ring is full again (it leaves
\* with a later drain) ...
DrainMarks ==
    /\ mu = "free"
    /\ Step("mark", IF Len(ring) < Cap THEN "report" ELSE "poll")
    /\ Push(Marker(seen))
    /\ seen' = IF Len(ring) < Cap THEN seen ELSE 0
    /\ UNCHANGED <<mu, reported, stop, final, link, daemon, sent, faults>>
    /\ KeepTarget

\* ... and, queued, the count is remembered as reported.
DrainReports ==
    /\ Step("report", "poll")
    /\ reported' = seen /\ seen' = 0
    /\ UNCHANGED <<mu, ring, dropped, stop, final, link, daemon, sent, faults>>
    /\ KeepTarget

\* poll, read, heartbeat: a dead peer is noticed.  After the last drain: BYE.
PollAndBeat ==
    /\ Step("poll", IF final THEN "bye" ELSE "loop")
    /\ link' = IF link = "broken" THEN "none" ELSE link
    /\ UNCHANGED <<queueVars, stop, final, daemon, sent, faults>> /\ KeepTarget

SendBye ==
    /\ Step("bye", "done")
    /\ link' = "none"
    /\ UNCHANGED <<queueVars, stop, final, daemon, sent, faults>> /\ KeepTarget

-----------------------------------------------------------------------------
(* The main thread's exit, and the daemon.                                  *)

\* retrace_agent_deinit: nothing to do without a thread; else stop and join.
Deinit ==
    /\ spawned /\ ~stop
    /\ stop' = TRUE
    /\ UNCHANGED <<opts, pid, tpc, item, queueVars, seq, spawnVars, agentThread,
                   daemon, history, faults>>

DaemonDies ==
    /\ daemon # "down" /\ faults > 0
    /\ daemon' = "down" /\ faults' = faults - 1
    /\ link' = IF link = "up" THEN "broken" ELSE link
    /\ UNCHANGED <<opts, pid, tpc, item, queueVars, seq, spawnVars, stop, apc, final,
                   history>>

\* The daemon stays alive and stops reading: suspended, or busy elsewhere.
DaemonSticks ==
    /\ daemon = "up" /\ faults > 0
    /\ daemon' = "stuck" /\ faults' = faults - 1
    /\ UNCHANGED <<opts, pid, tpc, item, queueVars, seq, spawnVars, stop,
                   agentThread, history>>

DaemonBack ==
    /\ daemon # "up" /\ daemon' = "up"
    /\ UNCHANGED <<opts, pid, tpc, item, queueVars, seq, spawnVars, stop,
                   agentThread, history, faults>>

-----------------------------------------------------------------------------
Init ==
    /\ opts \in OptionSet
    /\ pid = 1
    /\ tpc = [t \in Threads |-> "idle"]
    /\ item = [t \in Threads |-> 0]
    /\ mu = "free" /\ ring = <<>> /\ seq = 0
    /\ dropped = 0 /\ reported = 0 /\ seen = 0
    /\ spawned = FALSE /\ spawner = 0 /\ handlers = 0 /\ kicked = ~opts.eager
    /\ stop = FALSE /\ apc = "none" /\ final = FALSE /\ link = "none"
    /\ daemon = "up"
    /\ sent = <<>> /\ pushed = 0 /\ lost = 0 /\ handled = TRUE
    /\ faults = opts.faults

AgentStep == LoopTop \/ DrainPeeks \/ DrainSends \/ DrainPops \/ DrainCounts
             \/ DrainMarks \/ DrainReports \/ PollAndBeat \/ SendBye
EmitStep(t) == EmitPushes(t) \/ EmitAdopts(t) \/ EmitSpawns(t)
               \/ KickRegisters(t) \/ KickSpawns(t)

Next ==
    \/ \E t \in Threads : \/ EmitFormats(t) \/ EmitStep(t) \/ KickChecks(t)
                          \/ ForkPlain(t) \/ ForkHandled(t) \/ ForkStuck(t)
    \/ AgentStep \/ Deinit \/ DaemonDies \/ DaemonSticks \/ DaemonBack

\* The agent thread is in a call that waits for a daemon that reads: HELLO, an
\* event, a heartbeat or BYE (rc_send without a timeout).
Blocks == /\ daemon = "stuck"
          /\ \/ apc = "loop" /\ link = "none"
             \/ apc \in {"send", "poll", "bye"} /\ link = "up"

\* The agent thread and a thread inside emit_event or kick are scheduled; a send
\* to a stuck daemon need not return.  Nobody has to emit, fork or exit, and the
\* daemon need not come back.
Fairness == /\ WF_vars(AgentStep /\ ~Blocks)
            /\ \A t \in Threads : WF_vars(EmitStep(t))

Spec == Init /\ [][Next]_vars
FairSpec == Spec /\ Fairness

-----------------------------------------------------------------------------
(* The peek/pop split: what reaches the daemon has no event twice, and the  *)
(* events of one thread arrive in the order of their numbers, whatever      *)
(* connections broke in between and however full the ring was.              *)
SentInThreadOrder ==
    \A i, j \in DOMAIN sent :
        (i < j /\ sent[i].kind = "event" /\ sent[i].by = sent[j].by)
        => sent[i].seq < sent[j].seq

(* Every event handed to queue_push is on its way, delivered, or counted as *)
(* a drop; only fork_adopt discards events uncounted.  (The event between send  *)
(* and pop is in both places.  A refused loss marker is counted as a drop.) *)
Between == IF apc = "pop" /\ Head(ring).kind = "event" THEN 1 ELSE 0
LossCounted ==
    pushed + Between <= Cardinality(Events(sent)) + Cardinality(Events(ring))
                        + dropped + lost

(* If the daemon stays up from some time on, what is in the ring leaves it, *)
(* and what was dropped is told (the marker is queued and leaves as well),  *)
(* once a thread was spawned (a failed create gives the flag back): no lost *)
(* wakeup between emit, spawn, fork and the thread's loop -- for a target   *)
(* that emits so many events and then pauses, in a process that did not     *)
(* fork, or whose fork ran the atfork handlers, once.                       *)
Told == ring = <<>> /\ dropped = reported
Waiting == ~Told /\ spawned /\ ~stop
EventsReachDaemon ==
    <>[](daemon = "up")
    => (Waiting ~> (Told \/ stop \/ ~spawned \/ ~handled \/ handlers > 1))

(* The same promise for a child that adopts its parent's thread, as the     *)
(* comment at fork_adopt has it: "One thread before the fork, one thread    *)
(* after".                                                                  *)
AdoptedChildDelivers ==
    (pid = 2 /\ spawner = pid /\ Waiting) ~> (Told \/ stop)

(* deinit's join returns, whether the daemon is up, down or restarting -- if *)
(* it is not stuck for ever, and unless a fork without the handlers left the *)
(* mutex taken, or they were registered twice.                               *)
Joined == (stop /\ apc # "none")
              ~> (apc \in {"none", "done"} \/ ~handled \/ handlers > 1)
StopCompletes == <>[](daemon # "stuck") => Joined

(* The same with a stuck daemon, as the comment at the final flush has it:  *)
(* "the budget guards a stuck peer".  It does not hold: the join has no     *)
(* budget and the send no timeout (AgentStuckPeer.cfg).                     *)
BudgetGuardsStuckPeer == Joined

=============================================================================
