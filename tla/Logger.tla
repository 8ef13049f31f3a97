------------------------------- MODULE Logger -------------------------------
(***************************************************************************)
(* The logger of an interposed process: logger.c, log_flusher.c, the ring  *)
(* registry of log_ring.c and the constructor and destructor of main.c.    *)
(* Application threads log through retrace_logger_log_json; one flusher    *)
(* thread, spawned by whichever thread logs first, walks the registered    *)
(* rings and writes the document "[ e , e ... ]"; the thread that runs the *)
(* destructor stops the flusher, frees the rings and closes the document   *)
(* while other threads may still be inside a log call.                     *)
(*                                                                         *)
(* A ring here is the bounded queue that LogRing is proved to implement:   *)
(* queue, places held by an unfinished drain, and losses.                  *)
(***************************************************************************)
EXTENDS Naturals, Sequences, FiniteSets

CONSTANTS
    Thread,         \* application threads, Main among them
    Main,           \* runs the constructor and the destructor
    RingCap,        \* entries a ring holds
    RingEnabled,    \* RETRACE_LOGGER_RING is not 0
    QuiescentExit,  \* the other threads have ended when exit() runs
    Failures,       \* the calls that may fail, see FailureKind
    MaxLogs,        \* bound: log calls per thread
    MaxRings        \* bound: rings ever allocated

FailureKind == {"malloc_ring", "malloc_node", "malloc_text", "tss_set", "thread_create",
                "ring_init", "boot", "join_timeout"}

ASSUME LoggerAssumption ==
    /\ Main \in Thread
    /\ RingCap \in Nat \ {0}
    /\ RingEnabled \in BOOLEAN /\ QuiescentExit \in BOOLEAN
    /\ Failures \subseteq FailureKind
    /\ MaxLogs \in Nat /\ MaxRings \in Nat

Ring == 1 .. MaxRings
NoRing == 0

VARIABLES
    phase,      \* the process: "new", "booting", "run", "noboot"
    active,     \* g_logger_active
    ringReady,  \* g_logger_ring_ready (with g_logger_ring_enabled)
    first,      \* g_first_json: an entry has been written
    out,        \* what has been written: brackets and entries
    spawned,    \* g_flusher_spawned
    running,    \* g_flusher.running
    stop,       \* g_flusher.stop_signal
    registry,   \* g_registry.head: rings, the newest first
    ring,       \* the ring records
    tss,        \* g_ring_key, per thread
    pc,         \* where each thread is in retrace_logger_log_json
    cur,        \* its local ring
    logged,     \* how many log calls each thread has made
    owed,       \* calls of log_err that each thread's log call has nested in it
    exited,     \* threads that have ended
    accepted,   \* history: texts push stored
    fpc,        \* where flusher_main is
    walk,       \* rings the walk in progress still has to visit
    batch,      \* entries the drain in progress still has to emit
    final,      \* the walk in progress is the one after the stop signal
    dpc         \* where retrace_logger_deinit is

threadVars == <<tss, pc, cur, logged, owed, exited, accepted>>
flusherVars == <<fpc, walk, batch, final>>
flagVars == <<active, ringReady, spawned, running, stop>>
docVars == <<first, out>>
ringVars == <<registry, ring>>
vars == <<phase, flagVars, docVars, ringVars, threadVars, flusherVars, dpc>>

FreshRing == [state |-> "none", queue |-> <<>>, held |-> 0, dropped |-> 0]

Init ==
    /\ phase = "new"
    /\ active = FALSE /\ ringReady = FALSE
    /\ first = FALSE /\ out = <<>>
    /\ spawned = FALSE /\ running = FALSE /\ stop = FALSE
    /\ registry = <<>> /\ ring = [r \in Ring |-> FreshRing]
    /\ tss = [x \in Thread |-> NoRing]
    /\ pc = [x \in Thread |-> "idle"]
    /\ cur = [x \in Thread |-> NoRing]
    /\ logged = [x \in Thread |-> 0] /\ owed = [x \in Thread |-> 0]
    /\ exited = {} /\ accepted = {}
    /\ fpc = "none" /\ walk = <<>> /\ batch = 0 /\ final = FALSE
    /\ dpc = "none"

Goto(x, label) == pc' = [pc EXCEPT ![x] = label]

\* A log call and the two it may nest have numbers of their own, in order.
Text(x) == <<x, 3 * logged[x] - owed[x]>>

\* The log call returns: to the application, or, when it was a log_err that
\* reports a flusher that did not start, to the second log_err (declined when
\* the logger is no longer active) and then to the call that wanted a flusher.
Return(x) ==
    LET again == owed[x] = 2 /\ active
    IN  /\ owed' = [owed EXCEPT ![x] = IF again THEN 1 ELSE 0]
        /\ Goto(x, IF again THEN "gate" ELSE IF owed[x] > 0 THEN "get" ELSE "idle")

Entry(text) == [kind |-> "entry", text |-> text, comma |-> first]
Bracket(kind) == [kind |-> kind, text |-> <<>>, comma |-> FALSE]

-----------------------------------------------------------------------------
(***************************************************************************)
(* retrace_main and retrace_logger_init.                                   *)
(***************************************************************************)
LoggerInit ==
    /\ phase = "new"
    /\ phase' = "booting"
    /\ out' = <<Bracket("open")>>
    /\ active' = TRUE
    /\ ringReady' \in {RingEnabled} \cup (IF "ring_init" \in Failures THEN {FALSE} ELSE {})
    /\ UNCHANGED <<first, spawned, running, stop, ringVars, threadVars, flusherVars, dpc>>

\* A later module's init fails: the constructor returns with retrace_inited 0.
BootEnd ==
    /\ phase = "booting" /\ pc[Main] = "idle"
    /\ phase' \in {"run"} \cup (IF "boot" \in Failures THEN {"noboot"} ELSE {})
    /\ UNCHANGED <<flagVars, docVars, ringVars, threadVars, flusherVars, dpc>>

-----------------------------------------------------------------------------
(***************************************************************************)
(* retrace_logger_log_json.                                                *)
(***************************************************************************)

\* Threads that may call it: the constructor's own during boot; any whole
\* thread once the engine dispatches; the engine bypasses everything when the
\* constructor gave up.
MayLog(x) ==
    /\ pc[x] = "idle" /\ x \notin exited
    /\ logged[x] < MaxLogs
    /\ \/ phase = "booting" /\ x = Main
       \/ phase = "run" /\ (x = Main => dpc \in {"none", "done"})

LogBegin(x) ==
    /\ MayLog(x)
    /\ logged' = [logged EXCEPT ![x] = @ + 1]
    /\ Goto(x, IF active THEN "gate" ELSE "idle")
    /\ UNCHANGED <<phase, flagVars, docVars, ringVars, tss, cur, owed, exited, accepted, flusherVars, dpc>>

LogGate(x) ==
    /\ pc[x] = "gate"
    /\ Goto(x, IF ringReady /\ phase = "run" THEN "ensure" ELSE "sync")
    /\ UNCHANGED <<phase, flagVars, docVars, ringVars, tss, cur, logged, owed, exited, accepted, flusherVars, dpc>>

\* The synchronous branch: write the line, then g_first_json = 1.
SyncWrite(x) ==
    /\ pc[x] = "sync"
    /\ out' = Append(out, Entry(Text(x)))
    /\ Goto(x, "mark")
    /\ UNCHANGED <<phase, flagVars, first, ringVars, tss, cur, logged, owed, exited, accepted, flusherVars, dpc>>

SyncMark(x) ==
    /\ pc[x] = "mark"
    /\ first' = TRUE
    /\ Return(x)
    /\ UNCHANGED <<phase, flagVars, out, ringVars, tss, cur, logged, exited, accepted, flusherVars, dpc>>

\* ensure_flusher_running: rc_cas(&g_flusher_spawned, 0, 1).
EnsureFlusher(x) ==
    /\ pc[x] = "ensure"
    /\ spawned' = TRUE
    /\ Goto(x, IF spawned THEN "get" ELSE "create")
    /\ UNCHANGED <<phase, active, ringReady, running, stop, docVars, ringVars, tss, cur, logged, owed,
                   exited, accepted, flusherVars, dpc>>

\* retrace_log_flusher_init creates the thread first and sets running after.  Its
\* failure is reported by two calls of log_err, unless that severity is off.
FlusherCreate(x) ==
    /\ pc[x] = "create"
    /\ ~running
    /\ stop' = FALSE
    /\ \/ fpc' = "check" /\ Goto(x, "started") /\ UNCHANGED owed
       \/ /\ "thread_create" \in Failures
          /\ \E reports \in {0, 2} :
               /\ owed' = [owed EXCEPT ![x] = IF active THEN reports ELSE 0]
               /\ Goto(x, IF reports = 2 /\ active THEN "gate" ELSE "get")
          /\ UNCHANGED fpc
    /\ UNCHANGED <<phase, active, ringReady, spawned, running, docVars, ringVars, tss, cur, logged,
                   exited, accepted, walk, batch, final, dpc>>

FlusherStarted(x) ==
    /\ pc[x] = "started"
    /\ running' = TRUE
    /\ Goto(x, "get")
    /\ UNCHANGED <<phase, active, ringReady, spawned, stop, docVars, ringVars, tss, cur, logged, owed,
                   exited, accepted, flusherVars, dpc>>

\* Mutation of RingGet: the thread's key is never looked at.
RingGetAlwaysNew(x) ==
    /\ pc[x] = "get"
    /\ \E r \in Ring :
         /\ ring[r].state = "none"
         /\ \A s \in Ring : s < r => ring[s].state # "none"
         /\ ring' = [ring EXCEPT ![r].state = "live"]
         /\ cur' = [cur EXCEPT ![x] = r]
    /\ Goto(x, "add")
    /\ UNCHANGED <<phase, flagVars, docVars, registry, tss, logged, owed, exited, accepted, flusherVars, dpc>>

\* retrace_log_ring_get: this thread's ring, or a new one.
RingGet(x) ==
    /\ pc[x] = "get"
    /\ \/ /\ tss[x] # NoRing
          /\ cur' = [cur EXCEPT ![x] = tss[x]]
          /\ Goto(x, "push")
          /\ UNCHANGED <<ring, owed>>
       \/ /\ tss[x] = NoRing
          /\ \E r \in Ring :
               /\ ring[r].state = "none"
               /\ \A s \in Ring : s < r => ring[s].state # "none"
               /\ ring' = [ring EXCEPT ![r].state = "live"]
               /\ cur' = [cur EXCEPT ![x] = r]
          /\ Goto(x, "add")
          /\ UNCHANGED owed
       \/ /\ tss[x] = NoRing
          /\ "malloc_ring" \in Failures
          /\ Return(x)
          /\ UNCHANGED <<ring, cur>>
    /\ UNCHANGED <<phase, flagVars, docVars, registry, tss, logged, exited, accepted, flusherVars, dpc>>

\* Mutation of RegistryAdd: the new ring is not registered.
RegistryAddForgotten(x) ==
    /\ pc[x] = "add"
    /\ Goto(x, "settss")
    /\ UNCHANGED <<phase, flagVars, docVars, ringVars, tss, cur, logged, owed, exited, accepted,
                   flusherVars, dpc>>

\* registry_add prepends under the mutex; without memory for the node it frees
\* the ring and returns to a caller that goes on with the pointer.
RegistryAdd(x) ==
    /\ pc[x] = "add"
    /\ Goto(x, "settss")
    /\ \/ registry' = <<cur[x]>> \o registry /\ UNCHANGED ring
       \/ /\ "malloc_node" \in Failures
          /\ ring' = [ring EXCEPT ![cur[x]].state = "freed"]
          /\ UNCHANGED registry
    /\ UNCHANGED <<phase, flagVars, docVars, tss, cur, logged, owed, exited, accepted, flusherVars, dpc>>

TssSet(x) ==
    /\ pc[x] = "settss"
    /\ \/ tss' = [tss EXCEPT ![x] = cur[x]] /\ Goto(x, "push") /\ UNCHANGED owed
       \/ "tss_set" \in Failures /\ Return(x) /\ UNCHANGED tss
    /\ UNCHANGED <<phase, flagVars, docVars, ringVars, cur, logged, exited, accepted, flusherVars, dpc>>

RoomIn(r) == Len(ring[r].queue) + ring[r].held < RingCap

\* retrace_log_ring_push copies the text first; without memory for the copy it
\* returns, uncounted.  A full ring counts the loss.
RingPush(x) ==
    /\ pc[x] = "push"
    /\ LET r == cur[x] IN
         \/ /\ RoomIn(r)
            /\ ring' = [ring EXCEPT ![r].queue = Append(@, Text(x))]
            /\ accepted' = accepted \cup {Text(x)}
         \/ /\ ~RoomIn(r)
            /\ ring' = [ring EXCEPT ![r].dropped = @ + 1]
            /\ UNCHANGED accepted
         \/ "malloc_text" \in Failures /\ UNCHANGED <<ring, accepted>>
    /\ Return(x)
    /\ UNCHANGED <<phase, flagVars, docVars, registry, tss, cur, logged, exited, flusherVars, dpc>>

\* ring_key_destructor: the ring stays registered, the key is cleared.
ThreadExit(x) ==
    /\ phase = "run" /\ x # Main /\ x \notin exited
    /\ pc[x] = "idle"
    /\ exited' = exited \cup {x}
    /\ tss' = [tss EXCEPT ![x] = NoRing]
    /\ UNCHANGED <<phase, flagVars, docVars, ringVars, pc, cur, logged, owed, accepted, flusherVars, dpc>>

Log(x) ==
    \/ LogBegin(x) \/ LogGate(x) \/ SyncWrite(x) \/ SyncMark(x)
    \/ EnsureFlusher(x) \/ FlusherCreate(x) \/ FlusherStarted(x)
    \/ RingGet(x) \/ RegistryAdd(x) \/ TssSet(x) \/ RingPush(x)

-----------------------------------------------------------------------------
(***************************************************************************)
(* flusher_main, retrace_log_flusher_drain_all and logger_emit_entry.      *)
(***************************************************************************)

\* Mutation of FlusherCheck: the stop is never seen.
FlusherCheckNoStop ==
    /\ fpc = "check"
    /\ final' = FALSE
    /\ fpc' = "begin"
    /\ UNCHANGED <<phase, flagVars, docVars, ringVars, threadVars, walk, batch, dpc>>

\* One turn of the loop: look at stop_signal ...
FlusherCheck ==
    /\ fpc = "check"
    /\ final' = stop
    /\ fpc' = "begin"
    /\ UNCHANGED <<phase, flagVars, docVars, ringVars, threadVars, walk, batch, dpc>>

\* Mutation of FlusherBegin: leave without the final drain.
FlusherBeginNoFinalDrain ==
    /\ fpc = "begin"
    /\ walk' = IF final THEN <<>> ELSE registry
    /\ fpc' = "walk"
    /\ UNCHANGED <<phase, flagVars, docVars, ringVars, threadVars, batch, final, dpc>>

\* ... then retrace_log_ring_walk takes the registry as it is by now.
FlusherBegin ==
    /\ fpc = "begin"
    /\ walk' = registry
    /\ fpc' = "walk"
    /\ UNCHANGED <<phase, flagVars, docVars, ringVars, threadVars, batch, final, dpc>>

FlusherWalk ==
    /\ fpc = "walk"
    /\ \/ /\ walk # <<>>
          /\ batch' = Len(ring[Head(walk)].queue)
          /\ fpc' = "drain"
       \/ /\ walk = <<>>
          /\ fpc' = IF final THEN "leave" ELSE "check"
          /\ UNCHANGED batch
    /\ UNCHANGED <<phase, flagVars, docVars, ringVars, threadVars, walk, final, dpc>>

\* logger_emit_entry writes the line with the comma g_first_json asks for ...
FlusherEmit ==
    /\ fpc = "drain" /\ batch > 0
    /\ out' = Append(out, Entry(Head(ring[Head(walk)].queue)))
    /\ ring' = [ring EXCEPT ![Head(walk)].queue = Tail(@),
                            ![Head(walk)].held = @ + 1]
    /\ fpc' = "mark"
    /\ UNCHANGED <<phase, flagVars, first, registry, threadVars, walk, batch, final, dpc>>

\* Mutation of FlusherMark: g_first_json is not set.
FlusherMarkForgotten ==
    /\ fpc = "mark"
    /\ batch' = batch - 1
    /\ fpc' = "drain"
    /\ UNCHANGED <<phase, flagVars, docVars, ringVars, threadVars, walk, final, dpc>>

\* ... and sets it after the sinks have run.
FlusherMark ==
    /\ fpc = "mark"
    /\ first' = TRUE
    /\ batch' = batch - 1
    /\ fpc' = "drain"
    /\ UNCHANGED <<phase, flagVars, out, ringVars, threadVars, walk, final, dpc>>

FlusherRelease ==
    /\ fpc = "drain" /\ batch = 0
    /\ ring' = [ring EXCEPT ![Head(walk)].held = 0]
    /\ walk' = Tail(walk)
    /\ fpc' = "walk"
    /\ UNCHANGED <<phase, flagVars, docVars, registry, threadVars, batch, final, dpc>>

FlusherLeave ==
    /\ fpc = "leave"
    /\ running' = FALSE
    /\ fpc' = "done"
    /\ UNCHANGED <<phase, active, ringReady, spawned, stop, docVars, ringVars, threadVars, walk,
                   batch, final, dpc>>

Flusher ==
    \/ FlusherCheck \/ FlusherBegin \/ FlusherWalk \/ FlusherEmit
    \/ FlusherMark \/ FlusherRelease \/ FlusherLeave

-----------------------------------------------------------------------------
(***************************************************************************)
(* retrace_destructor, retrace_logger_deinit.                              *)
(***************************************************************************)
OthersEnded == exited = Thread \ {Main}

\* ring_was_ready is remembered in where the deinit goes next.
DeinitDecline ==
    /\ dpc = "none" /\ pc[Main] = "idle"
    /\ phase \in {"run", "noboot"}
    /\ QuiescentExit /\ phase = "run" => OthersEnded
    /\ active' = FALSE
    /\ ringReady' = FALSE
    /\ dpc' = IF ringReady THEN "stop" ELSE "close"
    /\ UNCHANGED <<phase, spawned, running, stop, docVars, ringVars, threadVars, flusherVars>>

\* Mutation of DeinitStop: the rings are freed without stopping the flusher.
DeinitStopSkipped ==
    /\ dpc = "stop"
    /\ dpc' = "free"
    /\ UNCHANGED <<phase, flagVars, docVars, ringVars, threadVars, flusherVars>>

\* retrace_log_flusher_stop.
DeinitStop ==
    /\ dpc = "stop"
    /\ IF spawned /\ running
       THEN stop' = TRUE /\ dpc' = "join"
       ELSE dpc' = "free" /\ UNCHANGED stop
    /\ UNCHANGED <<phase, active, ringReady, spawned, running, docVars, ringVars, threadVars, flusherVars>>

\* rc_thread_join; on macOS a wait that gives up after 10000 polls.
DeinitJoin ==
    /\ dpc = "join"
    /\ fpc = "done" \/ "join_timeout" \in Failures
    /\ dpc' = "free"
    /\ UNCHANGED <<phase, flagVars, docVars, ringVars, threadVars, flusherVars>>

\* retrace_log_ring_deinit: free the rings one by one, then drop the list.
DeinitFree ==
    /\ dpc = "free"
    /\ \/ \E i \in 1 .. Len(registry) :
            /\ ring[registry[i]].state = "live"
            /\ \A j \in 1 .. i - 1 : ring[registry[j]].state # "live"
            /\ ring' = [ring EXCEPT ![registry[i]].state = "freed"]
            /\ UNCHANGED <<registry, dpc>>
       \/ /\ \A i \in 1 .. Len(registry) : ring[registry[i]].state # "live"
          /\ registry' = <<>>
          /\ dpc' = "close"
          /\ UNCHANGED ring
    /\ UNCHANGED <<phase, flagVars, docVars, threadVars, flusherVars>>

DeinitClose ==
    /\ dpc = "close"
    /\ out' = Append(out, Bracket("close"))
    /\ dpc' = "done"
    /\ UNCHANGED <<phase, flagVars, first, ringVars, threadVars, flusherVars>>

Deinit ==
    \/ DeinitDecline \/ DeinitStop \/ DeinitJoin \/ DeinitFree \/ DeinitClose

\* The process is gone.
Gone == dpc = "done" /\ UNCHANGED vars

Next ==
    \/ LoggerInit \/ BootEnd
    \/ \E x \in Thread : Log(x) \/ ThreadExit(x)
    \/ Flusher
    \/ Deinit
    \/ Gone

Spec == Init /\ [][Next]_vars

(***************************************************************************)
(* Scheduling: a log call that has begun goes on, the flusher's 1 ms loop  *)
(* keeps turning, and the destructor, once begun, is not abandoned.        *)
(* Nothing says that a thread logs, ends or calls exit().                  *)
(***************************************************************************)
FairSpec ==
    /\ Spec
    /\ \A x \in Thread : WF_vars(Log(x) /\ pc[x] # "idle")
    /\ WF_vars(Flusher)
    /\ WF_vars(Deinit /\ dpc # "none")

-----------------------------------------------------------------------------
(***************************************************************************)
(* The variables keep their types, and no ring of retrace_log_ring_init    *)
(* ever holds more entries than it has places.                             *)
(***************************************************************************)
TypeOK ==
    /\ phase \in {"new", "booting", "run", "noboot"}
    /\ {active, ringReady, first, spawned, running, stop, final} \subseteq BOOLEAN
    /\ registry \in Seq(Ring)
    /\ \A r \in Ring :
          /\ ring[r].state \in {"none", "live", "freed"}
          /\ Len(ring[r].queue) + ring[r].held <= RingCap
          /\ ring[r].dropped \in Nat
    /\ tss \in [Thread -> Ring \cup {NoRing}]
    /\ pc \in [Thread -> {"idle", "gate", "sync", "mark", "ensure", "create", "started",
                          "get", "add", "settss", "push"}]
    /\ cur \in [Thread -> Ring \cup {NoRing}]
    /\ logged \in [Thread -> 0 .. MaxLogs] /\ owed \in [Thread -> 0 .. 2]
    /\ exited \subseteq Thread
    /\ fpc \in {"none", "check", "begin", "walk", "drain", "mark", "leave", "done"}
    /\ walk \in Seq(Ring) /\ batch \in 0 .. RingCap
    /\ dpc \in {"none", "stop", "join", "free", "close", "done"}

(***************************************************************************)
(* What the logger writes is one JSON array: the opening bracket, entries  *)
(* with a comma before every one but the first, and nothing after the      *)
(* closing bracket of retrace_logger_deinit.                               *)
(***************************************************************************)
DocumentWellFormed ==
    \A i \in 1 .. Len(out) :
        /\ out[i].kind = "open" <=> i = 1
        /\ out[i].kind = "close" => i = Len(out)
        /\ out[i].kind = "entry" => (out[i].comma <=> i > 2)

(***************************************************************************)
(* No thread pushes to a ring that has been freed, and the flusher does    *)
(* not walk onto one (registry_add's and retrace_log_ring_deinit's frees). *)
(***************************************************************************)
NoUseAfterFree ==
    /\ \A x \in Thread : pc[x] = "push" => ring[cur[x]].state = "live"
    /\ fpc \in {"walk", "drain", "mark"} =>
          \A i \in 1 .. Len(walk) : ring[walk[i]].state = "live"

Writers ==
    {x \in Thread : pc[x] \in {"sync", "mark"}}
        \cup {y \in {"flusher"} : fpc = "mark" \/ (fpc = "drain" /\ batch > 0)}
        \cup {y \in {"destructor"} : dpc = "close"}

(***************************************************************************)
(* One thread at a time writes the log file and g_first_json, which        *)
(* logger_emit_entry and the synchronous branch touch without a lock.      *)
(***************************************************************************)
SingleWriter == Cardinality(Writers) <= 1

(***************************************************************************)
(* The rings are torn down only when no flusher thread is left             *)
(* (retrace_logger_deinit stops it first).                                 *)
(***************************************************************************)
FlusherGoneBeforeFree ==
    dpc \in {"free", "close", "done"} => fpc \in {"none", "done"}

Written(text) == \E i \in 1 .. Len(out) : out[i].kind = "entry" /\ out[i].text = text

(***************************************************************************)
(* An entry that push accepted is in the document when the document is     *)
(* closed: the final drain misses nothing.  (When the flusher's thread     *)
(* could not be created, nothing drains the rings, before exit or at it.)  *)
(***************************************************************************)
NothingLostAtExit ==
    dpc = "done" /\ fpc # "none" => \A a \in accepted : Written(a)

(***************************************************************************)
(* The entries of one thread appear in the order it logged them, each      *)
(* once, through the synchronous branch and the ring alike.                *)
(***************************************************************************)
PerThreadOrder ==
    \A i, j \in 2 .. Len(out) :
        /\ i < j
        /\ out[i].kind = "entry" /\ out[j].kind = "entry"
        /\ out[i].text[1] = out[j].text[1]
        => out[i].text[2] < out[j].text[2]

(***************************************************************************)
(* The destructor finishes: the flusher sees stop_signal and the join in   *)
(* retrace_log_flusher_stop returns, however busy the rings are.           *)
(***************************************************************************)
ExitCompletes == dpc = "stop" ~> dpc = "done"

(***************************************************************************)
(* An accepted entry reaches the document, whether the process runs on or  *)
(* exits, once the flusher's thread exists.                                *)
(***************************************************************************)
EntriesSurface ==
    \A x \in Thread, n \in 1 .. MaxLogs :
        <<x, 3 * n>> \in accepted /\ fpc # "none" ~> Written(<<x, 3 * n>>)
=============================================================================
