------------------------------ MODULE OtlpLive ------------------------------
(***************************************************************************)
(* Live streaming to a collector: the doors and the teardown handshake of  *)
(* src/core/otlp_live.c, and the parts of the otlp-c exporter it runs on   *)
(* (third_party/otlp-c/src/exporter.c, mpsc_queue.c, http_client.c).       *)
(*                                                                         *)
(* Emitters are the log flusher and the threads that report security       *)
(* events; one tick thread drains the queues, batches, posts and retries;  *)
(* the process exit runs deinit.  The collector and the clocks are         *)
(* external.  An item is <<emitter, number>>.  Left out: what an item      *)
(* says, encoding, keep-alive of the connection, the diagnostics           *)
(* callbacks, the synchronous flush and the null transport, which          *)
(* otlp_live does not use.  Atomic operations take effect in one order:    *)
(* that deinit's store to the door may become visible after its load of    *)
(* emit_busy is not modelled.                                              *)
(***************************************************************************)
EXTENDS Naturals, Sequences, FiniteSets

CONSTANTS Emitters,
          Signals,    \* the number of signals, in order of priority
          BatchSize,  \* batch_size; a pending batch holds twice as many
          MaxRetries, \* max_retries
          OptionSet   \* what each emitter emits, and bounds

ASSUME EmittersAssumption == IsFiniteSet(Emitters)
ASSUME SignalsAssumption == Signals \in Nat \ {0}
ASSUME OptionsAssumption ==
    \A o \in OptionSet : /\ o.signal \in [Emitters -> 1 .. Signals]
                         /\ o.answers \subseteq {"ok", "retry", "fatal"}

VARIABLES
    opts,       \* cap: queue_capacity; each emitter's signal; the answers of
                \* the collector; bounds: the items each emitter has, spawns and
                \* builds that fail
    door_open, emit_busy, running, thread_spawned, stop_signal,
    exporter,   \* "live" or "freed"
    shutdown,   \* shutdown_requested
    queue,      \* each signal's queue: entries, reserved or published
    pending, first, \* each signal's batch; whether first_set and batch_ms over
    request,    \* in_flight: its signal, in_flight_count, what it carries, state
    attempt, backoff,
    emitter,    \* where each emitter is
    tick, at,   \* where the tick thread is; the signal its loop is at
    mode, late, \* which tick: of the loop, the last one, or of the flush;
                \* whether the time for the flush is over
    deinit,     \* where the exit is
    counts,     \* each signal's emitted, sent and dropped_err
    done,       \* history: how many items each emitter is done with
    left,       \* history: failures still allowed
    accepted,   \* history: items pushed
    sent, dropped, \* history: items a 2xx answered, items given up
    behind,     \* history: items batched while a request was in flight
    freed,      \* history: items freed with the exporter
    orphan      \* history: a batch whose retry could not be built

vars == <<opts, door_open, emit_busy, running, thread_spawned, stop_signal,
          exporter, shutdown, queue, pending, first, request, attempt, backoff,
          emitter, tick, at, mode, late, deinit, counts, done, left, accepted,
          sent, dropped, behind, freed, orphan>>
doorVars == <<opts, door_open, emit_busy, running, thread_spawned, stop_signal>>
threadVars == <<at, mode, late, deinit>>
batchVars == <<pending, first, request, attempt, backoff>>
outcomes == <<sent, dropped, behind, orphan>>
history == <<accepted, freed, outcomes>>

Signal == 1 .. Signals
NoRequest(s) == [signal |-> s, n |-> 0, body |-> {}, state |-> "none"]
InFlight == request.state # "none"
Items(s) == {s[i] : i \in 1 .. Len(s)}
Item(e) == <<e, done[e]>>
SignalOf(e) == opts.signal[e]

\* mpsc_queue.c: a producer reserves the head with a CAS, writes the item and
\* publishes the slot; the consumer takes the tail only once it is published.
Reserved(q, item) == Append(q, [item |-> item, ready |-> FALSE])
Published(q, item) ==
    [i \in 1 .. Len(q) |-> IF q[i].item = item THEN [q[i] EXCEPT !.ready = TRUE]
                                               ELSE q[i]]
Poppable(q) == q # <<>> /\ Head(q).ready

-----------------------------------------------------------------------------
Init ==
    /\ opts \in OptionSet
    /\ door_open = TRUE /\ emit_busy = 0 /\ running = TRUE
    /\ thread_spawned = FALSE /\ stop_signal = FALSE
    /\ exporter = "live" /\ shutdown = FALSE
    /\ queue = [s \in Signal |-> <<>>] /\ pending = [s \in Signal |-> <<>>]
    /\ first = [s \in Signal |-> "unset"]
    /\ request = NoRequest(1) /\ attempt = 0 /\ backoff = "off"
    /\ emitter = [e \in Emitters |-> "idle"]
    /\ tick = "none" /\ at = 1 /\ mode = "loop" /\ late = FALSE
    /\ deinit = "no"
    /\ counts = [s \in Signal |-> [emitted |-> 0, sent |-> 0, err |-> 0]]
    /\ done = [e \in Emitters |-> 0]
    /\ left = [spawns |-> opts.spawns, builds |-> opts.builds]
    /\ accepted = {} /\ sent = {} /\ dropped = {} /\ behind = {}
    /\ freed = {} /\ orphan = FALSE

-----------------------------------------------------------------------------
(* The doors: retrace_otlp_live_emit_json and _emit_event.                  *)

AtEmit(e, from, to) == emitter[e] = from /\ emitter' = [emitter EXCEPT ![e] = to]

\* The first look at the door; a closed one turns the item away.
EmitLooks(e) ==
    /\ done[e] < opts.items[e]
    /\ AtEmit(e, "idle", IF door_open THEN "enter" ELSE "idle")
    /\ done' = IF door_open THEN done ELSE [done EXCEPT ![e] = @ + 1]
    /\ UNCHANGED <<doorVars, batchVars, history, exporter, shutdown, queue, tick,
                   threadVars, counts, left>>

EmitEnters(e) ==
    /\ AtEmit(e, "enter", "recheck")
    /\ emit_busy' = emit_busy + 1
    /\ UNCHANGED <<opts, door_open, running, thread_spawned, stop_signal,
                   batchVars, history, exporter, shutdown, queue, tick,
                   threadVars, counts, done, left>>

\* Mutant: the caller that was let in does not look at the door again.
EmitTrusts(e) ==
    /\ AtEmit(e, "recheck", "inner")
    /\ UNCHANGED <<doorVars, batchVars, history, exporter, shutdown, queue, tick,
                   threadVars, counts, done, left>>

\* The second look, under the counter.
EmitRechecks(e) ==
    /\ AtEmit(e, "recheck", IF door_open THEN "inner" ELSE "leave")
    /\ UNCHANGED <<doorVars, batchVars, history, exporter, shutdown, queue, tick,
                   threadVars, counts, done, left>>

\* otlp_live_ensure_thread: the CAS admits one creator.
EnsureThread(e) ==
    /\ running /\ exporter = "live"
    /\ AtEmit(e, "inner", IF thread_spawned THEN "push" ELSE "create")
    /\ thread_spawned' = TRUE
    /\ UNCHANGED <<opts, door_open, emit_busy, running, stop_signal, batchVars,
                   history, exporter, shutdown, queue, tick, threadVars, counts,
                   done, left>>

\* The creator makes the thread; when that fails, the next emitter may try.
\* Those that came in between have gone on to push without one.
CreateThread(e) ==
    /\ AtEmit(e, "create", "push")
    /\ \/ tick' = "pop" /\ UNCHANGED <<thread_spawned, left>>
       \/ /\ left.spawns > 0 /\ left' = [left EXCEPT !.spawns = @ - 1]
          /\ thread_spawned' = FALSE /\ UNCHANGED tick
    /\ UNCHANGED <<opts, door_open, emit_busy, running, stop_signal, batchVars,
                   history, exporter, shutdown, queue, threadVars, counts, done>>

\* emit_move_common up to the CAS of the push: refused after shutdown, dropped
\* when the queue is full.
EmitPushes(e) ==
    LET s == SignalOf(e)
        refused == shutdown \/ Len(queue[s]) = opts.cap
    IN /\ AtEmit(e, "push", IF refused THEN "leave" ELSE "publish")
       /\ queue' = IF refused THEN queue
                              ELSE [queue EXCEPT ![s] = Reserved(@, Item(e))]
       /\ UNCHANGED <<doorVars, batchVars, history, exporter, shutdown, tick,
                   threadVars, counts, done, left>>

EmitPublishes(e) ==
    /\ AtEmit(e, "publish", "count")
    /\ queue' = [queue EXCEPT ![SignalOf(e)] = Published(@, Item(e))]
    /\ accepted' = accepted \cup {Item(e)}
    /\ UNCHANGED <<doorVars, batchVars, freed, outcomes, exporter, shutdown, tick,
                   threadVars, counts, done, left>>

EmitCounts(e) ==
    /\ AtEmit(e, "count", "leave")
    /\ counts' = [counts EXCEPT ![SignalOf(e)].emitted = @ + 1]
    /\ UNCHANGED <<doorVars, batchVars, history, exporter, shutdown, queue, tick,
                   threadVars, done, left>>

EmitLeaves(e) ==
    /\ AtEmit(e, "leave", "idle")
    /\ emit_busy' = emit_busy - 1
    /\ done' = [done EXCEPT ![e] = @ + 1]
    /\ UNCHANGED <<opts, door_open, running, thread_spawned, stop_signal,
                   batchVars, history, exporter, shutdown, queue, tick,
                   threadVars, counts, left>>

-----------------------------------------------------------------------------
(* otlp_exporter_tick, one action per stage of an iteration.                *)

tickOnly == <<doorVars, exporter, emitter, deinit, done, late, accepted, freed>>
AtTick(from) == tick = from

\* 1. The queues are drained into the batches, in order of the signals.
TickPops ==
    /\ AtTick("pop") /\ Poppable(queue[at]) /\ Len(pending[at]) < 2 * BatchSize
    /\ queue' = [queue EXCEPT ![at] = Tail(@)]
    /\ pending' = [pending EXCEPT ![at] = Append(@, Head(queue[at]).item)]
    /\ first' = [first EXCEPT ![at] = IF @ = "unset" THEN "set" ELSE @]
    /\ behind' = IF InFlight /\ request.signal = at
                   THEN behind \cup {Head(queue[at]).item} ELSE behind
    /\ UNCHANGED <<tickOnly, shutdown, request, attempt, backoff, tick, at, mode,
                   counts, left, sent, dropped, orphan>>

TickDrained ==
    /\ AtTick("pop")
    /\ ~Poppable(queue[at]) \/ Len(pending[at]) = 2 * BatchSize
    /\ at' = IF at = Signals THEN 1 ELSE at + 1
    /\ tick' = IF at = Signals THEN "post" ELSE "pop"
    /\ UNCHANGED <<tickOnly, batchVars, outcomes, shutdown, queue, mode, counts,
                   left>>

\* Mutant: a retry counts the items of the first attempt.
PostedAgain(s) ==
    [signal |-> s, n |-> IF attempt > 0 THEN 1 ELSE Len(pending[s]),
     body |-> Items(pending[s]), state |-> "busy"]

\* try_start_post for signal s: the request holds what is pending now; when it
\* cannot be built (no memory, no address, connection refused) nothing else
\* changes.
Posted(s) ==
    [signal |-> s, n |-> Len(pending[s]), body |-> Items(pending[s]),
     state |-> "busy"]
Builds(s) ==
    /\ request' = Posted(s) /\ first' = [first EXCEPT ![s] = "unset"]
    /\ UNCHANGED left
BuildFails ==
    /\ left.builds > 0 /\ left' = [left EXCEPT !.builds = @ - 1]
    /\ UNCHANGED <<request, first>>

\* 3. The first batch that is full, old enough or left over at shutdown.
BatchReady(s) ==
    \/ Len(pending[s]) >= BatchSize
    \/ first[s] = "over"
    \/ shutdown /\ pending[s] # <<>>
TickPosts ==
    /\ AtTick("post")
    /\ at' = IF at = Signals THEN 1 ELSE at + 1
    /\ tick' = IF at = Signals THEN "step" ELSE "post"
    /\ IF ~InFlight /\ backoff = "off" /\ BatchReady(at) /\ pending[at] # <<>>
         THEN Builds(at) \/ BuildFails
         ELSE UNCHANGED <<request, first, left>>
    /\ UNCHANGED <<tickOnly, outcomes, shutdown, queue, pending, attempt, backoff,
                   mode, counts>>

\* clear_in_flight_batch frees the whole batch, not only what was posted.
Cleared(s) ==
    /\ pending' = [pending EXCEPT ![s] = <<>>]
    /\ first' = [first EXCEPT ![s] = "unset"]
    /\ attempt' = 0 /\ backoff' = "off"

\* Mutant: the retries of one batch are not limited.
OutcomeRetriedForever(s) ==
    /\ request.state = "retry"
    /\ backoff' = "armed"
    /\ UNCHANGED <<attempt, pending, first, counts, sent, dropped>>

\* Mutant: the batch is freed when its first attempt has failed.
OutcomeRetriedFreed(s) ==
    /\ request.state = "retry" /\ attempt < MaxRetries
    /\ attempt' = attempt + 1 /\ backoff' = "armed"
    /\ pending' = [pending EXCEPT ![s] = <<>>]
    /\ UNCHANGED <<first, counts, sent, dropped>>

\* record_outcome: 2xx; a network error, 429 or 5xx, retried up to the limit;
\* any other status.
OutcomeSent(s) ==
    /\ request.state = "ok"
    /\ Cleared(s)
    /\ sent' = sent \cup request.body
    /\ counts' = [counts EXCEPT ![s].sent = @ + request.n]
    /\ UNCHANGED dropped
OutcomeRetried(s) ==
    /\ request.state = "retry" /\ attempt < MaxRetries
    /\ attempt' = attempt + 1 /\ backoff' = "armed"
    /\ UNCHANGED <<pending, first, counts, sent, dropped>>
OutcomeDropped(s) ==
    /\ \/ request.state = "retry" /\ attempt >= MaxRetries
       \/ request.state = "fatal"
    /\ Cleared(s)
    /\ dropped' = dropped \cup request.body
    /\ counts' = [counts EXCEPT ![s].err = @ + request.n]
    /\ UNCHANGED sent

\* 4. A step of the request in flight; its outcome when it has ended.
TickSteps ==
    /\ AtTick("step") /\ tick' = "retry"
    /\ IF request.state \in {"none", "busy"}
         THEN UNCHANGED <<request, pending, first, attempt, backoff, counts,
                          sent, dropped>>
         ELSE /\ request' = NoRequest(request.signal)
              /\ LET s == request.signal
                 IN OutcomeSent(s) \/ OutcomeRetried(s) \/ OutcomeDropped(s)
    /\ UNCHANGED <<tickOnly, shutdown, queue, at, mode, left, behind, orphan>>

\* 5. A retry once the backoff is over.  When it cannot be built, the batch is
\* left with neither a backoff nor a timer.
Retries == backoff = "over" /\ ~InFlight
TickRetries ==
    /\ AtTick("retry") /\ tick' = "end"
    /\ IF Retries
         THEN /\ backoff' = "off"
              /\ \/ Builds(request.signal) /\ UNCHANGED orphan
                 \/ BuildFails /\ orphan' = (orphan \/ first[request.signal] = "unset")
         ELSE UNCHANGED <<backoff, request, first, left, orphan>>
    /\ UNCHANGED <<tickOnly, shutdown, queue, pending, attempt, at, mode, counts,
                   sent, dropped, behind>>

\* The end of an iteration.  The tick thread ticks until it is told to stop,
\* ticks once more, requests shutdown and flushes until nothing is left or the
\* time for it is over.
NothingLeft == ~InFlight /\ \A s \in Signal : pending[s] = <<>> /\ queue[s] = <<>>
TickEnds ==
    /\ AtTick("end")
    /\ \/ mode = "loop" /\ tick' = "pop" /\ UNCHANGED <<running, shutdown>>
          /\ mode' = IF stop_signal THEN "last" ELSE "loop"
       \/ mode = "last" /\ tick' = "pop" /\ mode' = "flush" /\ shutdown' = TRUE
          /\ UNCHANGED running
       \/ mode = "flush" /\ ~NothingLeft /\ ~late /\ tick' = "pop"
          /\ UNCHANGED <<mode, running, shutdown>>
       \/ mode = "flush" /\ (NothingLeft \/ late) /\ tick' = "done"
          /\ running' = FALSE /\ UNCHANGED <<mode, shutdown>>
    /\ UNCHANGED <<opts, door_open, emit_busy, thread_spawned, stop_signal,
                   batchVars, history, exporter, queue, emitter, at, late,
                   deinit, counts, done, left>>

-----------------------------------------------------------------------------
(* retrace_otlp_live_deinit                                                 *)

deinitOnly == <<opts, emit_busy, thread_spawned, first, attempt, backoff, accepted,
                outcomes, shutdown, emitter, tick, at, mode, late, counts, done,
                left>>
itemsKept == <<exporter, queue, pending, request, freed>>

Waiting == UNION {Items(pending[s]) \cup {queue[s][i].item : i \in 1 .. Len(queue[s])}
                    : s \in Signal}

DeinitCloses ==
    /\ deinit = "no" /\ running
    /\ door_open' = FALSE /\ deinit' = "drain"
    /\ UNCHANGED <<deinitOnly, itemsKept, running, stop_signal>>

\* The callers inside are waited for; when that takes too long, everything is
\* left as it is, leaked.
DeinitDrains ==
    /\ deinit = "drain" /\ emit_busy = 0
    /\ stop_signal' = TRUE /\ deinit' = "join"
    /\ UNCHANGED <<deinitOnly, itemsKept, running, door_open>>
DeinitLeaks ==
    /\ deinit = "drain" /\ emit_busy > 0
    /\ deinit' = "leaked"
    /\ UNCHANGED <<deinitOnly, itemsKept, running, stop_signal, door_open>>

\* The tick thread, if there is one, is joined; then otlp_exporter_free frees
\* what is still queued, pending or in flight, and counts none of it.
DeinitFrees ==
    /\ deinit = "join" /\ (thread_spawned => tick = "done")
    /\ exporter' = "freed" /\ running' = FALSE /\ deinit' = "done"
    /\ freed' = freed \cup Waiting
    /\ queue' = [s \in Signal |-> <<>>] /\ pending' = [s \in Signal |-> <<>>]
    /\ request' = NoRequest(request.signal)
    /\ UNCHANGED <<deinitOnly, stop_signal, door_open>>

-----------------------------------------------------------------------------
(* The clocks and the collector (external).                                 *)

worldOnly == <<doorVars, exporter, shutdown, queue, pending, attempt, emitter,
               tick, at, mode, deinit, counts, done, left, history>>

\* A batch gets old, a backoff is over, the time for the flush is over.
TimePasses ==
    /\ \/ \E s \in Signal : first[s] = "set" /\ first' = [first EXCEPT ![s] = "over"]
             /\ UNCHANGED <<backoff, late>>
       \/ backoff = "armed" /\ backoff' = "over" /\ UNCHANGED <<first, late>>
       \/ mode = "flush" /\ ~late /\ late' = TRUE /\ UNCHANGED <<first, backoff>>
    /\ UNCHANGED <<worldOnly, request>>

\* The request ends: with a 2xx, with something to retry (429, 5xx, no answer
\* in time, connection lost), or with another status.
Answered ==
    /\ request.state = "busy"
    /\ \E a \in opts.answers : request' = [request EXCEPT !.state = a]
    /\ UNCHANGED <<worldOnly, first, backoff, late>>

-----------------------------------------------------------------------------
EmitStep ==
    \E e \in Emitters : \/ EmitLooks(e) \/ EmitEnters(e) \/ EmitRechecks(e)
                        \/ EnsureThread(e) \/ CreateThread(e) \/ EmitPushes(e)
                        \/ EmitPublishes(e) \/ EmitCounts(e) \/ EmitLeaves(e)
TickStep == \/ TickPops \/ TickDrained \/ TickPosts \/ TickSteps \/ TickRetries
            \/ TickEnds
DeinitStep == DeinitDrains \/ DeinitLeaks \/ DeinitFrees
World == TimePasses \/ Answered

Next == EmitStep \/ TickStep \/ DeinitCloses \/ DeinitStep \/ World

Spec == Init /\ [][Next]_vars

FairSpec == Spec /\ WF_vars(EmitStep) /\ WF_vars(TickStep)
                 /\ WF_vars(DeinitStep) /\ WF_vars(World)

-----------------------------------------------------------------------------
Settled(i) == i \in sent \cup dropped

\* The teardown handshake of retrace_otlp_live_deinit: the exporter is never
\* freed under an emitter that is past the door or under the tick thread.  And
\* no emitter is refused for shutdown: emit_move_common frees the item it
\* refuses, and the doors would free it again.
NoUseAfterFree ==
    /\ exporter = "freed" =>
         /\ \A e \in Emitters : emitter[e] \in {"idle", "enter", "recheck", "leave"}
         /\ tick \in {"none", "done"}
    /\ shutdown => \A e \in Emitters : emitter[e] # "push"

\* An item the exporter took is waiting, was answered with a 2xx or was counted
\* as dropped, with two exceptions: it was drained into a batch that was already
\* posted, which clear_in_flight_batch frees whole, or otlp_exporter_free found
\* it at the exit.  And deinit leaves something for otlp_exporter_free only when
\* the time for the flush was over or no tick thread could be created.
LossesConfined ==
    /\ \A i \in accepted : i \in Waiting \/ Settled(i) \/ i \in behind \/ i \in freed
    /\ freed # {} => late \/ ~thread_spawned

\* What exporter.c and the cookbook say of the counters: every item that was
\* taken is still there or counted, as sent or as dropped.
AcceptedAccounted ==
    exporter = "live" => \A i \in accepted : i \in Waiting \/ Settled(i)

\* The statistics never claim more or less than happened, over all the retries
\* of batches that grow between attempts: `sent` is the number of items a 2xx
\* answered, dropped_err the number given up, and no item is both.
CountersHonest ==
    /\ sent \cap dropped = {}
    /\ \A s \in Signal :
         LET of(items) == Cardinality({i \in items : SignalOf(i[1]) = s})
         IN counts[s].sent = of(sent) /\ counts[s].err = of(dropped)

\* A batch does not wait for ever: what is pending is posted, retried and
\* settled, unless the thread has ended, or a retry could not be built and the
\* batch has been left without a timer.
BatchesSettle ==
    \A s \in Signal :
        pending[s] # <<>> ~> pending[s] = <<>> \/ tick = "done" \/ orphan

\* The exit of the process is not held up: deinit returns, whatever the
\* collector and the emitters do.
DeinitReturns == deinit = "drain" ~> deinit \in {"done", "leaked"}
=============================================================================
