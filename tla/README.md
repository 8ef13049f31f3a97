# TLA+ models of retrace

retrace intercepts library calls of a running program. A library is loaded into
the program, an engine runs configured actions on each intercepted call, a
logger records what happened, and an optional agent reports to a supervisor
daemon (`retraced`) that keeps a tamper-evident journal and hands out policy.

This directory holds TLA+ models of parts of that system, TLC configurations
that check them on small instances, and proofs checked by TLAPS. The modules are
translated from the C sources; `PROJECT.json` maps every definition to its lines.
Paths below are relative to the repository root.

## Parts of the system

| Part | Module | What is hard about it |
|---|---|---|
| Log ring (`src/core/log_ring.c`) | LogRing, BoundedFifo, LogRingProofs | no lock; stale indices; wrap-around; ownership of heap copies |
| Logger, flusher, process lifetime (`src/core/logger.c`, `log_flusher.c`, `main.c`) | Logger, LoggerProofs | lazy spawn, exit while threads run, failing allocations, one document with several writers |
| Journal (`tools/retraced/journal.c`, `journal_sign.c`) | Journal | a kill between any two writes, recovery, rotation, retention |
| Policy plane (`tools/retraced/retraced_ctl.c`, `main.c`; the agent's policy code and `policy_sig.c`) | PolicyPlane, PolicyPlaneProofs | late and repeated pushes, freeze and thaw, reconnect, fork, daemon restart |
| Daemon loop, frames and registry (`tools/retraced/main.c`, `daemon_frame.c`, `registry.c`) | Supervisor, SupervisorProofs | reused slots and pids, sessions over fork and reconnect, idle loops, table limits |
| Agent (`src/supervisor/agent_posix.c`, `agent_ring.c`) | Agent, AgentProofs | several producers, losses, lazy thread, fork, exit |
| Engine, resolver, config cache (`src/core/engine.c`, `script_resolver.c`, `config_cache.c`, guard, context, runner) | Engine, EngineProofs | nested calls, concurrent claims of one slot, a policy swap in the middle of a call |
| ptrace lane and actions (`src/backends/ptrace/`, `src/core/actions/`) | PtraceLane, PtraceLaneProofs | stops told apart by a flag, skipped calls, two calling conventions |
| Live OTLP export (`src/core/otlp_live.c`, `third_party/otlp-c`) | OtlpLive, OtlpLiveProofs | teardown under running emitters, batches that grow behind a request, retries |
| Filter expressions (`src/core/filter_dsl.c`) | FilterDsl | precedence, arrays that move while pointers into them are held, backtracking |

How they interact: the engine's actions log through the logger and emit events
through the agent and the OTLP doors; the logger's flusher drains the rings; the
agent's thread carries events to the daemon, which journals them, and brings
policies back, which it installs by swapping the engine's configuration. The
modules meet at those edges: `Logger` uses the queue that `LogRing` is proved to
implement, `PolicyPlane` holds both ends of the policy exchange, `Supervisor` both
ends of registration, and `Engine` has the policy swap as two steps of the
agent's thread.

## Modules

**BoundedFifo** is what a ring promises: a queue of at most `Capacity` entries,
first in first out, that refuses new entries when full and counts them. A place
taken by the consumer comes back only when the consumer releases it.

**LogRing** is `retrace_log_ring_push` and `retrace_log_ring_drain`, one step for
each access to shared memory. `head` and `tail` are the two atomic words;
`headSeen` and `tailSeen` are what the other thread's next acquire load returns,
which may be older. A text is named by the push that copied it; `live` is the set
of copies not yet freed. `accepted` and `emitted` are history variables.

**Logger** composes the threads of a process: application threads in
`retrace_logger_log_json`, the flusher, and the constructor and destructor. Each
ring is the bounded queue of `BoundedFifo` (queue, held places, drops), which the
ring is proved to implement. `Failures` chooses which calls may fail; a flusher
that cannot be created is reported by two nested `log_err` calls, as in the code.

**Journal** is the daemon's journal with the parts of `main` that start, flush,
close and seal it. A line's hash is represented by a unique number, so two lines
never collide. `buf` is the stdio buffer, `disk` the segment files. Each write is
a step and the daemon may be killed between any two steps; a kill keeps some
whole buffered lines and, when `Fragments` says so, part of the next one. `opts`
holds the command-line options (rotation, retention, signing) and the bounds of a
behaviour; `Init` picks them.
Appending behind a torn line makes one unreadable line of two; `Merges` names the
records lost that way. Sealing fails on a broken chain or on an unusable key.
Replay is the code's fold over the segments.

**PolicyPlane** composes the daemon's policy state and verbs (`blob`,
`policyEpoch`, `thawBlob`), its connections (`conn`), and the agents (`sock`,
`held`, `active`). `inbox` is what the daemon wrote and the agent has not read. A
policy is its epoch, what its scripts do, whether it is sealed or expires, and its
size against the agent's receive buffer. Each handler is one step, as both sides
are single threaded. Connections drop, the daemon stops and starts with another
policy file and another nonce, and processes fork. Every HELLO takes a registry
entry for good (`entries`), and a HELLO to a full registry is refused and leaves
the connection open. A process has an agent thread (`threads`) from its first
event or `kick` on, or from its boot.

**Supervisor** is the poll loop with the registry: `rows` are the entries, `conn`
the slots, `proc` the processes by pid. One iteration reaps, handles one ready
descriptor and sweeps when due; an idle iteration only reaps. Pids and slots are
used again, and the children of a process that ends get a parent outside. An agent
whose `setenv` was not resolved when WELCOME arrives (an agent started lazily)
does not pass the session on to its children, and `raced` records it. Kernel-lane
events carry the identity of their sender as history, so that attribution can be
stated.

**Agent** is the evidence side of the agent in one process: threads inside
`emit_event` and `kick` (`tpc`), the ring, the lazily created thread (`apc`), the
fork handlers, adoption by a child that ran without them, and `deinit`. The end of
a drain is three steps, the unlocked read of the drop count (`seen`), the push of
the marker and the note of what was reported, with pushes of other threads between
them. The daemon is up, down or `stuck`: connected and not reading. A fork step
follows the child.

**Engine** gives every thread a stack of calls in flight. A nested call may arrive
between any two steps: libc called by retrace itself, or a signal handler of the
target. `table` is the name cache, filled in the order of the code (hash, name,
pointer, published); `ctx` the per-thread context; `snapshot` and `conf` the index
and the configuration, which a swap replaces one after the other.

**PtraceLane** is the trace loop against the stops of a tracee (external), with the
action runner and the actions that change a call's fate, with the two tables of
counted functions and their limit. `due` is what the same script makes of the call
on the preload lane. The arguments of a call are not modelled, only what an action
decides from them. `opts.skips` says what becomes of a skipped call: the number of
getpid is written and taken, it is written and the kernel goes on with the old one
(on aarch64, where the number is not in the register set `translate.c:196-220`
writes), or there is no number to write (`trace_loop.c:245-251`; both tables have
getpid, so this branch is not met in practice).

**OtlpLive** is the emitters' door, the tick thread with its queues, batches,
requests and backoff, and `deinit`. The collector and the clocks are external.

**FilterDsl** takes expressions as sequences of tokens and patterns as sequences of
characters. A pointer is a block and an index, stale once the block has moved.
The grammar of `filter_dsl.h` and the meaning of patterns are written down
independently (`Derives`, `Means`, `Matches`, with `ClassMeans` for classes and
ranges) as the reference.

Each `MC` module gives the constants values for TLC. An operator whose comment
starts with "Mutant" (in the older modules "Mutation of") is a plausible slip in
the definition behind it; with it in place TLC reports the property it is listed
with as violated.

## Runs

| Run | Result | States | Question |
|---|---|---|---|
| `log_ring` | holds | 33,204 | Does the ring never race on a slot, leak or free twice, does it implement `BoundedFifo`, and does everything accepted come out? |
| `logger` | holds | 269,757 | Is the document well formed and complete, is no freed ring used, is a thread's order kept, and does exit finish, when other threads end before it? |
| `journal` | holds | 399,341 | After a kill anywhere, in the middle of a line too, do the files replay as one chain with every flushed record, up to a record glued to a torn line? Are gaps and removals on record, closed segments left alone, the seal valid? |
| `policy` | holds | 543,473 | Is an acknowledged policy in force, do spectators get nothing, and do the agents with a thread and a place in the registry end up with the current policy? |
| `supervisor` | holds | 374,420 | Is evidence filed under its sender, do linked processes share a session, do drift summaries add up, are exits recorded and silent agents found? |
| `agent` | holds | 357,964 | Does a thread's order survive broken connections, is every loss counted, is what is queued delivered and every loss reported, does `deinit` return unless the daemon stays stuck? |
| `engine` | holds | 131,464 | Does a call use its own function's slot and its own context, is its script the one that the index or the scan of one policy gives, does it return? |
| `ptrace` | holds | 20,998 | Do entry and exit stops stay paired, does a call end as on the preload lane when its script reads nothing this lane lacks, is every stop answered? |
| `otlp` | holds | 192,694 | Is nothing used after it was freed, are the counters honest, is an item lost only behind a request in flight or with the exporter freed at exit, do batches settle? |
| `filter` | holds | 1,332,000 | Is what compiles what the grammar derives, with its meaning, while the first arrays suffice? Does the matcher agree with the meaning of patterns? |
| `filter_grown` | violated | | Does an accepted expression keep its meaning when the arrays grow? |
| `journal_pruned_boot` | violated | | Does the daemon start on a journal whose first segment retention removed? |

### Further configurations

These are kept beside the runs and are started the same way
(`tlc -config X.cfg M`). They ask the same models for the rest.

Holding: `LogRingMore` (`TypeOK`, `FifoDelivery`, `StoredEntriesStable`,
`FullIsTransient`), `LoggerMore` (`TypeOK`, `SingleWriter`,
`FlusherGoneBeforeFree`), `JournalMore` (`TypeOK`, `CleanIsNotUnclean`,
`BudgetHolds`), `OtlpLiveMore` (`DeinitReturns`), `FilterDslMore`
(`ComparesByType`: the operand resolver and the comparisons against their
reference, which no run of the table does).

Violated, each by a disagreement between the code and what is said of it:

| Configuration | Property | What the code does, and what is said |
|---|---|---|
| `LoggerLateUse` | `NoUseAfterFree` | A thread already inside a log call when the destructor runs pushes into a freed ring; `logger.c:206` says late calls are declined. |
| `LoggerNodeOom` | `NoUseAfterFree` | When the registry node cannot be allocated, the freed ring is used; `log_ring.c:129` says the caller sees NULL. |
| `JournalPrunedSeries` | `LiveIsHighest` | Once segment 1 is pruned, the live segment is resolved as 0; `journal.c:149` says the highest existing number. |
| `JournalTornTail` | `TornTailIsHarmless` | The first record of the next daemon is appended to the torn line, both are unreadable, and the chain no longer verifies; `journal.c:500` says "torn tail: normal after a crash". |
| `JournalTornGap` | `GapsNeverSilent` | The gap record is appended to a torn line and lost with it; `tools/retraced/main.c:771` says "never silent". |
| `PolicyHeld` | `HeldMeansInForce` | Two policies with one epoch: the second is answered as held while the first is in force; `policy_sig.c:331` says "already in force, the ACK says so". |
| `PolicyRefused` | `PolicyReturns` | An agent that reconnects takes a new registry entry; when the table is full it is refused, stays connected and gets no policy. `registry.c:99` says "the registry entry survives the connection it arrived on". |
| `SupervisorSession` | `OneDetonationOneSession` | A child that registers before its parent's WELCOME gets a session of its own; `docs/cookbook/37-detonation-farm.md:53` says one detonation is one session. |
| `AgentAdopt` | `AdoptedChildDelivers` | A child forked without the handlers re-owns a thread that fork did not copy, and never delivers; the comment before `agent_posix.c:371` says the inherited thread works, "one thread before the fork, one thread after". |
| `AgentStuckPeer` | `BudgetGuardsStuckPeer` | `send` has no timeout and the join no budget: with a daemon that stays connected and does not read, `deinit` waits for ever; `agent_posix.c:884` says "the budget guards a stuck peer". |
| `EngineCaller` | `CallerGated` | `ret_addr` is never assigned, so a caller condition cannot be evaluated and its script runs for every caller; `docs/cookbook/17-per-return-address.md:18` says the address is captured. |
| `PtraceReads` | `SameScriptsAgree` | An action behind `call_real` that reads the result (`incomplete_io`, a filter on the result) reads the sentinel on the ptrace lane; ADR-0016 says "honest action semantics [...] all from the same JSON scripts the preload lanes use". |
| `OtlpLoss` | `AcceptedAccounted` | Items batched while a request is in flight are freed with it (`exporter.c:810`) and counted nowhere; `exporter.c:1544` says emitted is sent plus dropped. |

### Bounds

A behaviour's options and bounds are in `opts` (or `left`), picked by `Init`, so
one run explores several scenarios.

- `LogRing`: 4 slots and 6 pushes. The index goes round once and a half, the ring
  fills (3 entries) and drops.
- `Logger`: two threads, two places per ring, two log calls each, three rings. Two
  places let a drain hold one entry while another is queued, so that order inside a
  ring is at stake; the two calls and their error reports still fill a ring; the
  third ring is one made anew after a key failed.
- `Journal`: three events, three starts and two kills, rotation after three
  records; with retention six events, rotation after two records and budgets of
  three and four records, one start and one kill; closed segments are removed
  under both. A kill leaves whole lines, and perhaps half a line or a line without its
  newline. `DurableRecordsReplay` is asked of the options without retention;
  restarts over a pruned series are in `JournalPrunedBoot` and
  `JournalPrunedSeries`.
- `PolicyPlane`: two slots; one process with three, or two related ones with two,
  verbs, restarts, lost connections or expiries; a plain policy, a sealed one that
  expires, and one above the receive buffer; a registry of two or three entries.
  Three such events allow a verb before and after a restart, and push, freeze,
  thaw, and reconnects fill the registry. A policy that just fits the buffer
  (`"edge"`) is in the model and the proofs, and in no run.
- `Supervisor`: two pids, two slots, two or three entries; two births with one lost
  connection, a wiped environment or a kernel event, or three births, where a pid
  is used again: enough to reuse a slot and to fill the table.
- `Agent`: two producers and a ring of two places; started lazily with three
  sequence numbers and one fault (a dead or stuck daemon, a failed allocation or
  thread creation) or four without, started eagerly with one number fewer. Three
  events overflow the ring, and the marker competes with events for its places.
- `Engine`: a table of three slots where two functions share a home slot, up to
  three calls on one thread, three deep, or on two threads; the flusher's thread
  under its permanent guard; an index with room for one script; a list with its
  wildcard in front.
- `PtraceLane`: twenty-one scripts of up to three actions; two calls with one signal
  and one register failure, or three calls of a script that counts them; tables
  with room for two functions, and for one, so that the second finds it full.
- `OtlpLive`: two emitters with one item each, batches of two, one retry, queues of
  one or two.
- `FilterDsl`: expressions of six tokens, patterns of five characters (the
  shortest range, `[a-b]`, has five), texts of up to three; first arrays of 5
  nodes and 6 strings, and of 3 and 3, in place of 16 nodes and 128 bytes, so that
  growing is met within the bound.

No configuration uses symmetry: the runs with several threads check liveness.
Deadlock is not checked where a behaviour may end: a process exits, a bound is
spent.

### Fairness

- `LogRing`: a begun push goes on; the flusher keeps draining (its loop has no
  exit but the stop signal); stores become visible; the callback does not refuse
  for ever. The only callback in use, `logger_emit_entry`, always returns 0.
- `Logger`: a begun log call, the flusher's loop and a begun destructor go on.
  Nothing obliges a thread to log, to end or to call `exit`.
- `PolicyPlane`: `poll` serves every ready connection, and an agent's thread, once
  there is one, connects, retries and reads as long as its process runs. Nothing
  obliges a process to start its agent thread (`Kick` needs an intercepted call),
  nothing the operator, and the daemon need not come back.
- `Supervisor`: the loop wakes at least every 500 ms and time passes.
  `SilentGoesStale` adds, as a premise, that traffic never ends: an iteration
  whose `poll` timed out does not sweep (`main.c:1104`).
- `Agent`: the agent's thread, unless it is in a `send` to a stuck daemon, and a
  thread inside `emit_event` or `kick` are scheduled. `StopCompletes` assumes that
  the daemon is not stuck for ever. `EventsReachDaemon` assumes the daemon stays
  up from some time on.
- `Engine`, `PtraceLane`, `OtlpLive`: every thread is scheduled, the kernel
  finishes calls, a request ends (the client has a timeout) and clocks advance.
- `Journal` and `FilterDsl` have no liveness property.

## Proofs

### LogRingProofs

`LogRingProofs` proves, for every capacity above 1 and every number of pushes,
`TypeOK`, `NoSlotRace`, `FifoDelivery`, `TextsOwned`, `StoredEntriesStable` and
`ImplementsFifo`. The assumptions are `CapAssumption` and `MaxPushesAssumption`.
`ring_alloc` also requires a power of two; the proof does not need it, because
`Succ` is the successor modulo the capacity, which is what the mask computes then.

None of these is inductive alone. The invariant `IInv` adds:

- `IndexOrder`: going round from `tailSeen`, the indices stand in the order
  `tailSeen`, `tail`, `t`, `h`, `headSeen`, `head`. This is why a stale index is
  safe: it only makes the producer see less room and the consumer fewer entries.
- `SlotContents`: the slot at distance `d` from the cursor holds the `d`-th text
  accepted and not retired, and all others hold nothing.
- `NamesGrow`: later pushes have larger names, so texts are distinct.
- `LiveTexts`: the heap holds the copies that are pointed at.

One lemma per conjunct shows that each action preserves it. The refinement maps
the queue to the slots from the cursor to `head`, and the unreleased places to
the slots from `tailSeen` to the cursor.

### LoggerProofs

For any set of threads, any ring capacity and any number of rings and log calls,
and whatever fails but the two calls below: `NothingIsLost` is
`NothingLostAtExit`, `EntriesInOrder` is `PerThreadOrder` and `DocumentIsArray` is
`DocumentWellFormed`.

All have the hypothesis `Calm`: the other threads end before `exit` runs, the
registry's node can be allocated and the join waits. Without each of these the
property fails (`LoggerLateUse`, `LoggerNodeOom`) or the code accepts that it may
(the bounded join on macOS). `DocumentIsArray` also has `Ringed`: without the
rings every thread writes the document itself.

The invariant `IInv` holds:

- `Control`: where a thread may be, given the phase and the two flags of the
  logger; `OneFlusher`: the spawn flag stands for the flusher or for the one
  thread that creates it, and teardown past the join means that it has ended.
- `RingsHeld`: a ring is freed only by teardown, and every ring that a thread, the
  flusher's walk or a queued entry needs is in the registry.
- `Drains` and `Kept`: a drain emits what it found, the one behind the stop signal
  leaves out no ring, and an accepted entry is queued or written. This is where
  the final drain is needed.
- `InOrder`: a thread's queued entries are in one ring, behind everything of that
  thread that is written, and below the number of its present call, which counts
  the two error reports nested in the first one.
- `Document`: `g_first_json` is right but for the moment between a write and its
  mark, where nobody else writes.

### EngineProofs

For any threads, functions, hash, table size, depth of nesting and lists of
scripts of any length: `EngineContextOwned` (`ContextOwned`),
`EngineOwnResolution` (`OwnResolution`) and `EngineOnePolicy` (`OnePolicy`).

`Owned` says which frame of a thread's stack the guard names and what the context
holds for it. `Resolved` says that a slot outside `clash` is filled by one call at
most, that nobody fills it once its hash is published, and what a call knows of
its slot from then on; it is inductive because a published slot never changes its
name. `EngineOnePolicy` has no assumption on the lists. It says which script a
call may get: the first match of the list it scanned or the function's own script
in the index it asked, and the latter whenever that script is in the index and has
no condition. So a wildcard in front of a function's own script is passed over
(several cookbook recipes rely on it), while `docs/configuration.md:37` says "The
first matching script wins". `FindIsFirstMatch` says what the two lookups compute.

The assumptions on the constants only keep names and sentinels (`"none"`,
`"null"`, `"*"`, `"any"`) apart and give the options their types.

### PtraceLaneProofs

For scripts of any length over the modelled actions, tables of any size, any
signals and failed register accesses: `LaneStopsPaired` (`StopsPaired`) and
`LanesDoAgree` (`LanesAgree`). `RunnerAlike` runs a script on both lanes at once
and shows that the two contexts differ at most in the result of a call that is to
run, which this lane does not have yet. `LanesAgree` is therefore about scripts in
which nothing behind `call_real` reads that result and no action reads an address
(`Deferrable`), on a kernel that takes the written number; `PtraceReads` shows the
rest. The lemma is an induction on the length of the script, done with a set of numbers
and the least-element theorem of the library. `Carried` then takes what the entry
stop decided through the kernel, exec and signal stops to the exit stop.

The assumptions: `DEFERRED` is not a value a script returns (as_ptrace.c uses it
as its sentinel), `getpid`, which replaces a skipped call, is not itself
intercepted, and a call without a libc function is not also without a prototype
or outside the engine. The first is the one the code itself depends on.

### AgentProofs

For any threads, ring size, sequence numbers and faults: `EventsInOrder`
(`SentInThreadOrder`) and `LossesCounted` (`LossCounted`). `OneAgent` says that
`spawned` stands for the agent thread or for the one thread about to create it.
`InOrder` says that what was sent precedes what is queued (without the head, when
it is sent and not yet popped) and that a thread in front of its push holds a
number above all it has queued. That a thread's numbers, not all numbers, are in
order is the strongest that holds: two producers may push in either order.

### SupervisorProofs

For any pids, slots, table size and bounds: `EvidenceFiled`
(`EvidenceAttributed`), `DriftNeverLost` (`DriftAccounted`) and
`LinksShareSession` (`LinkedShareSession`).

- `Seats`: a HELLO is the first and a BYE the last frame of a connection, the
  entry a connection holds has its owner's pid, and no two hold the same entry.
  `EvidenceFiled` follows, over reused slots and pids.
- `Ends`: a process and its connection name each other.
- `Sessions`, while nothing raced: the token of a process, the session of its
  entries, what WELCOME told it, the tokens of its children and those in HELLOs
  on their way agree, and a child without a token has a parent that is
  registered. The session rule speaks of entries only; the rest is where the
  session of an entry comes from.

`raced` is the history of the orders in which the rule fails by design of the
protocol (`SupervisorSession` shows one): a fork, or a lost connection, before the
token of WELCOME was read; a pid used again while an entry or a HELLO still names
it; an environment wiped in a process that has children, or whose parent has no
entry.

### OtlpLiveProofs

`TeardownSafe` is `NoUseAfterFree` for any finite set of emitters, any options and
any queue sizes (`EmittersAssumption`). The invariant `Handshake` says that
`emit_busy` is the number of emitters between the door and their leave; that once
`deinit` has seen zero behind the closed door no emitter is active, though one may
still raise the count to find the door closed; and that the stop signal, shutdown
and the end of the thread follow in that order. The counting part rests on
lemmas about the cardinality of the emitters inside. Atomic operations take effect
in one order, in the model and so in the proof.

`LossOnlyThere` (`LossesConfined`) and `CountersAreHonest` (`CountersHonest`)
follow from `Accounts`: an item is once in the queue of its signal, once in the
batch, or settled (`Placed`); the one between the halves of a push is where no
tick can pop it (`Offered`); and a request in flight holds as many items as it
will count, all still in the batch, with only later ones behind them (`Carries`);
what `otlp_exporter_free` still finds at exit is kept as `freed`, and there is
something only after a late flush or without a tick thread. That the counters
equal the sets is an argument about cardinalities, once for each outcome.

### PolicyPlaneProofs

`SpectatorsSafe` is `SpectatorsGetNoPolicy`, and `Types` the type invariant, for
any processes, slots, operator's policies and options (`OperatorAssumption`,
`NoPolicyAssumption`, `NamesAssumption`). The rule is not inductive: a push looks
at the role a connection was given at HELLO, the rule speaks of nonces. `IInv`
adds `Paired` (a live connection and the agent's socket name each other),
`Roles` (the HELLO on its way carries the nonce of its process, and the role is
the comparison of the nonces) and `Unsent` (nothing is on its way to a process
that has not registered or is a spectator). `IInvStep` has one lemma for each
group of actions.

`AckIsEvidence` is `AckMeansInForce`. `Rows` says that the last ACK sent over a
live connection, read or not, cites the epoch its process holds, and `Evidence`
that what a process runs was issued with that epoch. The property, and so the
theorem, is about daemons that gave no epoch two meanings (`OneMeaning`);
`PolicyHeld` shows what happens otherwise.

### Only model-checked

- The liveness properties of all modules, which are outside the prover's reach.
- `Journal`: its replay is a fold over the files with a head carried from line to
  line, so what the properties say of a series needs an induction over its lines
  that relates two such folds.
- `FilterDsl`: it is written with recursive operators, about which nothing can be
  proved here.
- `NoUseAfterFree` of `Logger`.

The type invariants of `Agent`, `Engine`, `Supervisor` and `PtraceLane` are the
first conjunct (`Types`, `TypeOK`) of the inductive invariant of their proofs.

## Not modelled

Components left out, with the reason, are in `PROJECT.json`: trampolines and
loader tables, the Windows agent and pipe server, transport security, front ends,
redaction, replay, prototypes, offline tools. They are single calls, tables filled
once, or the same protocol over another transport. Inside the modelled parts:

- Journal: failures of `fopen`, `fputs`, `fflush` and `remove`; lines of 2048 bytes
  or more, which `retraced_journal_event` drops; loss of the page cache (the code
  never calls `fsync`); in the passing run, restarts over a pruned series.
- Logger: log filters, JSONL output, sinks; a thread that logs after its ring key
  destructor ran; `RETRACE_LOGGER_RING=0` (then every thread writes synchronously
  and `SingleWriter` does not hold). The bounded wait for the flusher on macOS
  (`join_timeout`) is off in the runs. The `logger` run lets the other threads end
  before `exit`; without that the destructor can also run between the creation of
  the flusher and `running = 1` and skip the stop.
- Agent: the text of events; samples of resources and stacks.
- Supervisor: a descriptor that became invalid (`POLLNVAL`), verbs that only
  print, drift rules by text, identities restored by replay.
- Engine: a signal between the `tss_set` and the `memset` of a new context;
  parameter setup and the filters before the lookup, the caller cache (never asked
  with an address), races on the tables of `fail_first` and `call_count_limit`,
  the unlocked cache of compiled filters in `actions/filter.c`.
- PtraceLane: threads and children of the tracee, register layouts, arguments, a
  script that skips `getpid` itself, the sandbox's decoys.
- OtlpLive: encoding, HTTP, TLS, partial success; the two-second wait on macOS
  after which the exporter is freed under a running tick thread; hardware that lets
  `deinit` read `emit_busy` before its store to the door is visible
  (`otlp_live.c:410-414`).

## Other differences met while modelling

- The ring's drop count is summed at deinit but no summary entry is written
  (`log_ring.h` promises one). `segment_opened` carries the head before the closing
  record. Sealing is refused for any segment but the first. A seal or a rotation
  behind the close marker makes the next start record an unclean shutdown.
- A thaw cannot re-stamp a sealed policy (`retraced_ctl.c:665`): agents refuse its
  old epoch and stay frozen. A policy above the agent's receive buffer makes the
  agent drop its connection, reconnect, be sent it again, and so on; this is why
  `PolicyConverges` speaks of policies that fit.
- The registry never gives an entry back; an agent that meets a full table is not
  told: the daemon prints a line and keeps the connection.
- Two threads in `retrace_agent_kick` can register the fork handlers twice, after
  which `fork` locks a lock it holds. A fork without handlers while the queue lock
  is taken leaves the child's agent waiting for ever.
- The name cache probes without a bound: a full table never ends a probe for a new
  name (the runs keep a slot free). A slot that two calls fill at once may keep
  the pointer of one under the name of the other (`clash`).
- On aarch64 the number written for a skipped call is not taken by the kernel: the
  call runs and its result is replaced. ADR-0016 says that of `sandbox` only the
  deny branch applies on this lane; `decoy` (`sandbox.c:499-526`) nevertheless
  reports success.
- A register write that fails at a skipped call lets the call run. A call without a
  libc function is executed and its result replaced by -1.
- In the exporter a retry that cannot be built leaves its batch without a timer
  (`orphan`), and a permanent 4xx is dropped at once, while
  `docs/cookbook/36-live-otlp-stream.md:62` counts it among the retries.
- In a filter, `==` of two integer parameters is always true, because both resolve
  to the string NULL; a star in the text is compared with a star in the pattern as
  a character before it is taken as a wildcard. Filter expressions of a pushed
  policy are not validated before it is applied (`conf.c:190` does so at boot).
