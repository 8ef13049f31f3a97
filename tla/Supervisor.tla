----------------------------- MODULE Supervisor -----------------------------
(***************************************************************************)
(* The retraced daemon's poll loop on POSIX with the agent registry:       *)
(* registration, sessions and the process tree, heartbeats and staleness,  *)
(* kernel-lane evidence and its drift summaries, spawned children and      *)
(* their exit records (tools/retraced/main.c, registry.c, daemon_frame.c,  *)
(* retraced_ctl.c).                                                        *)
(*                                                                         *)
(* One iteration of the loop reaps, handles one ready descriptor and       *)
(* sweeps if a sweep is due; an iteration that finds several ready is      *)
(* several of these in a row.  An iteration whose poll() timed out only    *)
(* reaps.  Processes, their frames and time are the environment.           *)
(***************************************************************************)
EXTENDS Naturals, Sequences, FiniteSets

CONSTANTS Pids,        \* process ids
          Slots,       \* conns[]
          OptionSet,   \* sizes and bounds of a behaviour, one of which Init picks
          MaxRx,       \* bound: frames in flight on a connection
          StaleAge     \* ticks without heartbeat that exceed HB_TIMEOUT_MS

ASSUME BoundsAssumption ==
    /\ {MaxRx, StaleAge} \subseteq Nat
    /\ OptionSet \subseteq [rows : Nat, births : Nat, drops : Nat, kernel : Nat,
                            scrubs : Nat, time : BOOLEAN]
ASSUME PidsAssumption == Pids \subseteq Nat \ {0}
ASSUME SlotsAssumption == "none" \notin Slots

Outside == 0      \* a parent that is no candidate (init, the daemon itself)
NoSession == 0    \* an empty session token
NoRow == 0        \* an empty agent_id

VARIABLES
    up,        \* the loop runs (g_stop is not set)
    rows,      \* the registry's entries, in registration order
    minted,    \* sessions minted so far
    conn,      \* conns[]
    due,       \* more than SWEEP_INTERVAL_MS since the last sweep
    exits,     \* journal: processes with a retrace.ctl.exit record
    evidence,  \* journal: <<row named, process that sent>> of each event
    proc,      \* the processes, by pid
    births,    \* processes so far; a process is <<pid, births at its start>>
    left,      \* rows: RETRACED_REGISTRY_MAX; bounds left: processes, lost
               \* connections, kernel events, wiped environments; whether
               \* heartbeats and time are looked at
    ended,     \* history: children of the daemon that ended
    raced      \* history: a token could not travel with the process tree

daemonVars == <<rows, minted, conn, due, exits, evidence>>
procVars   == <<proc, births, left, ended, raced>>
vars == <<up, daemonVars, procVars>>

NoProc == [run |-> "none", gen |-> 0, ppid |-> Outside, token |-> NoSession,
           root |-> 0, child |-> FALSE,
           sock |-> "none", welcome |-> NoSession]
Free   == [pid |-> 0, gen |-> 0, open |-> FALSE, helloed |-> FALSE,
           row |-> NoRow, rx |-> <<>>]

-----------------------------------------------------------------------------
(* registry.c *)

\* retraced_registry_link_parent: the first entry with the parent's pid that
\* is not GONE; NoRow is a hole in the tree (or a root).
LinkParent(rs, i) ==
    LET cand == {j \in DOMAIN rs : j # i /\ rs[j].pid = rs[i].ppid
                                   /\ rs[j].state # "GONE"}
    IN  IF cand = {} THEN NoRow ELSE CHOOSE j \in cand : \A k \in cand : j <= k

\* retraced_registry_hello with no id of its own: always a fresh entry.
NewRow(pid, ppid, root, token) ==
    [pid |-> pid, ppid |-> ppid, root |-> root, session |-> token, parent |-> NoRow,
     state |-> "LIVE", age |-> 0, obs |-> 0, obsLast |-> 0, summed |-> 0]

\* retraced_registry_heartbeat, retraced_registry_bye
Heartbeat(rs, i) == [rs EXCEPT ![i] = [@ EXCEPT !.age = 0, !.state = "LIVE"]]
Bye(rs, i)       == [rs EXCEPT ![i] = [@ EXCEPT !.state = "GONE"]]

\* Mutant: the sweep starts at the second entry.
SweepMissesFirst(rs) == [i \in DOMAIN rs |->
    IF i > 1 /\ rs[i].state = "LIVE" /\ rs[i].age >= StaleAge
    THEN [rs[i] EXCEPT !.state = "STALE"] ELSE rs[i]]
\* retraced_registry_sweep
Sweep(rs) == [i \in DOMAIN rs |->
    IF rs[i].state = "LIVE" /\ rs[i].age >= StaleAge
    THEN [rs[i] EXCEPT !.state = "STALE"] ELSE rs[i]]

\* daemon_frame_drift_summaries: the unreported kernel observations of every
\* entry; "summed" adds up the deltas the journal received.
Summaries(rs) == [i \in DOMAIN rs |->
    [rs[i] EXCEPT !.summed = @ + (rs[i].obs - rs[i].obsLast),
                  !.obsLast = rs[i].obs]]

-----------------------------------------------------------------------------
(* An iteration: the reap at its start, the sweep at its end.              *)

Zombies == {p \in Pids : proc[p].run = "zombie"}

\* r and ps are the entries and the processes its handler leaves.
Iteration(r, ps) ==
    /\ up
    /\ exits' = exits \cup {<<p, proc[p].gen>> : p \in Zombies}
    /\ proc' = [p \in Pids |-> IF p \in Zombies THEN NoProc ELSE ps[p]]
    /\ rows' = IF due THEN Sweep(Summaries(r)) ELSE r
    /\ due' = FALSE
    /\ UNCHANGED up

\* Mutant: the reap waits for activity.
IdleWithoutReap == up /\ UNCHANGED vars

\* poll() timed out: "continue" comes after the reap and before the sweep.
IdleIteration ==
    /\ up /\ \A s \in Slots : conn[s].rx = <<>> /\ (conn[s].pid # 0 => conn[s].open)
    /\ exits' = exits \cup {<<p, proc[p].gen>> : p \in Zombies}
    /\ proc' = [p \in Pids |-> IF p \in Zombies THEN NoProc ELSE proc[p]]
    /\ UNCHANGED <<up, rows, minted, conn, due, evidence, births, left, ended, raced>>

RegistryFull == Len(rows) >= left.rows

\* Mutant: a tokenless child starts a session of its own.
SessionOfStranger(token, p, rs) == IF token # NoSession THEN token ELSE minted + 1
\* The session of a registration: its token, its parent's, or a minted one.
SessionOf(token, p, rs) ==
    IF token # NoSession THEN token
    ELSE IF p = NoRow THEN minted + 1 ELSE rs[p].session

\* HELLO: a fresh entry, its parent, its session (verbatim, the parent's, or
\* minted) and the WELCOME that carries it.  A full registry says nothing.
HandleHello(s, f) ==
    LET i  == Len(rows) + 1
        r0 == Append(rows, NewRow(f.pid, f.ppid, f.root, f.token))
        p  == LinkParent(r0, i)
        session == SessionOf(f.token, p, r0)
    IN  \/ /\ RegistryFull
           /\ conn' = [conn EXCEPT ![s] = [conn[s] EXCEPT !.rx = Tail(@)]]
           /\ UNCHANGED <<minted, evidence>>
           /\ Iteration(rows, proc)
        \/ /\ ~RegistryFull
           /\ conn' = [conn EXCEPT ![s] = [conn[s] EXCEPT !.rx = Tail(@), !.helloed = TRUE,
                                                          !.row = i]]
           /\ minted' = IF session = minted + 1 THEN minted + 1 ELSE minted
           /\ UNCHANGED evidence
           /\ Iteration([r0 EXCEPT ![i] = [@ EXCEPT !.parent = p, !.session = session]],
                        IF conn[s].open
                        THEN [proc EXCEPT ![conn[s].pid] = [@ EXCEPT !.welcome = session]]
                        ELSE proc)

\* HEARTBEAT, EVENT and BYE are ignored on a connection that is not registered;
\* the registry is looked up by the connection's agent_id.
HandleHeartbeat(s) ==
    /\ conn' = [conn EXCEPT ![s] = [conn[s] EXCEPT !.rx = Tail(@)]]
    /\ UNCHANGED <<minted, evidence>>
    /\ Iteration(IF conn[s].helloed THEN Heartbeat(rows, conn[s].row) ELSE rows, proc)

\* EVENT of the kernel lane: journaled under the agent_id, and counted.
HandleKernelEvent(s) ==
    /\ conn' = [conn EXCEPT ![s] = [conn[s] EXCEPT !.rx = Tail(@)]]
    /\ evidence' = IF conn[s].helloed
                   THEN evidence \cup {<<conn[s].row, conn[s].pid, conn[s].gen>>}
                   ELSE evidence
    /\ UNCHANGED minted
    /\ Iteration(IF conn[s].helloed
                 THEN [rows EXCEPT ![conn[s].row] = [rows[conn[s].row] EXCEPT !.obs = @ + 1]]
                 ELSE rows, proc)

HandleBye(s) ==
    /\ conn' = [conn EXCEPT ![s] = [conn[s] EXCEPT !.rx = Tail(@), !.helloed = FALSE]]
    /\ UNCHANGED <<minted, evidence>>
    /\ Iteration(IF conn[s].row # NoRow THEN Bye(rows, conn[s].row) ELSE rows, proc)

ReadAgent(s) ==
    /\ conn[s].rx # <<>>
    /\ LET f == Head(conn[s].rx)
       IN  \/ f.type = "HELLO" /\ HandleHello(s, f)
           \/ f.type = "HEARTBEAT" /\ HandleHeartbeat(s)
           \/ f.type = "KERNEL" /\ HandleKernelEvent(s)
           \/ f.type = "BYE" /\ HandleBye(s)
    /\ UNCHANGED <<births, left, ended, raced>>

\* Mutant: the leaver's observations wait for a sweep.
EofWithoutSummary(s) ==
    /\ conn[s].pid # 0 /\ conn[s].rx = <<>> /\ ~conn[s].open
    /\ conn' = [conn EXCEPT ![s] = [conn[s] EXCEPT !.pid = 0, !.gen = 0]]
    /\ UNCHANGED <<minted, evidence, births, left, ended, raced>>
    /\ Iteration(rows, proc)

\* EOF: the slot is free again, and the leaver's summary is journaled.
ReadEof(s) ==
    /\ conn[s].pid # 0 /\ conn[s].rx = <<>> /\ ~conn[s].open
    /\ conn' = [conn EXCEPT ![s] = [conn[s] EXCEPT !.pid = 0, !.gen = 0]]
    /\ UNCHANGED <<minted, evidence, births, left, ended, raced>>
    /\ Iteration(Summaries(rows), proc)

\* Mutant: the slot keeps the seat of the connection it held before.
OpenedInOldSeat(s, p, hello) ==
    [conn[s] EXCEPT !.pid = p, !.open = TRUE, !.gen = proc[p].gen, !.rx = <<hello>>]
Opened(s, p, hello) ==
    [Free EXCEPT !.pid = p, !.open = TRUE, !.gen = proc[p].gen, !.rx = <<hello>>]

\* The agent of p connects, sends HELLO, and is accepted into the first free
\* slot; only the named fields are set.  A full table closes the socket.
Accept(p) ==
    LET free == {s \in Slots : conn[s].pid = 0}
        s == CHOOSE t \in free : TRUE
        hello == [type |-> "HELLO", pid |-> p, ppid |-> proc[p].ppid,
                  root |-> proc[p].root, token |-> proc[p].token]
    IN  /\ proc[p].run = "running" /\ proc[p].sock = "none" /\ free # {}
        /\ conn' = [conn EXCEPT ![s] = Opened(s, p, hello)]
        /\ UNCHANGED <<minted, evidence, births, left, ended, raced>>
        /\ Iteration(rows, [proc EXCEPT ![p] = [@ EXCEPT !.sock = s]])

\* A process is born with the lowest free pid; r is the start of its tree.
Born(ppid, r, token, child) ==
    [NoProc EXCEPT !.run = "running", !.gen = births + 1, !.ppid = ppid,
                   !.root = r, !.token = token, !.child = child]
Birth(p) ==
    /\ left.births > 0 /\ proc[p].run = "none"
    /\ \A q \in Pids : proc[q].run = "none" => p <= q
    /\ births' = births + 1
    /\ left' = [left EXCEPT !.births = @ - 1]

\* An entry that is not GONE, or a HELLO that was not read yet, still names the
\* pid of an earlier process.
Claimed(p) ==
    \/ \E i \in DOMAIN rows : rows[i].pid = p /\ rows[i].state # "GONE"
    \/ \E s \in Slots : \E i \in DOMAIN conn[s].rx :
         conn[s].rx[i].type = "HELLO" /\ p \in {conn[s].rx[i].pid, conn[s].rx[i].ppid}

\* A parent whose entry can hand its session on, or none to link to.
Registered(p) ==
    p = Outside \/ \E i \in DOMAIN rows : rows[i].pid = p /\ rows[i].state # "GONE"

\* verb_spawn: fork and exec with the supervisor's environment, then the
\* retrace.ctl.spawn record; the child is the daemon's to reap.
verb_spawn(p) ==
    /\ Birth(p)
    /\ raced' = (raced \/ Claimed(p))
    /\ UNCHANGED <<minted, conn, evidence, ended>>
    /\ Iteration(rows, [proc EXCEPT ![p] = Born(Outside, births + 1, NoSession, TRUE)])

-----------------------------------------------------------------------------
(* The processes.                                                          *)

\* A behaviour ends with the daemon.
Running(p) == up /\ proc[p].run = "running"

\* An agent's thread sends a frame on its connection.
Send(p, f) ==
    LET s == proc[p].sock
    IN  /\ Running(p) /\ s \in Slots
        /\ Len(conn[s].rx) < MaxRx
        /\ conn' = [conn EXCEPT ![s] = [conn[s] EXCEPT !.rx = Append(@, f)]]

SendHeartbeat(p) ==
    /\ left.time
    /\ Send(p, [type |-> "HEARTBEAT"])
    /\ UNCHANGED <<up, rows, minted, due, exits, evidence, procVars>>

SendKernelEvent(p) ==
    /\ left.kernel > 0
    /\ Send(p, [type |-> "KERNEL"])
    /\ left' = [left EXCEPT !.kernel = @ - 1]
    /\ UNCHANGED <<up, rows, minted, due, exits, evidence, proc, births, ended, raced>>

\* WELCOME: the session token goes into the environment when there is a setenv
\* to put it there, which only the kick of an eager agent resolves.
ReadWelcome(p) ==
    /\ Running(p) /\ proc[p].welcome # NoSession
    /\ \E resolved \in BOOLEAN :
         LET token == IF resolved THEN proc[p].welcome ELSE proc[p].token
         IN  /\ proc' = [proc EXCEPT ![p] = [@ EXCEPT !.token = token,
                                                      !.welcome = NoSession]]
             /\ raced' = (raced \/ token = NoSession)
    /\ UNCHANGED <<up, daemonVars, births, left, ended>>

\* The child takes the environment of its parent, not its connection.
Fork(p, c) ==
    /\ Running(p)
    /\ Birth(c)
    /\ raced' = (raced \/ Claimed(c) \/ proc[p].token = NoSession)
    /\ proc' = [proc EXCEPT ![c] = Born(p, proc[p].root, proc[p].token, FALSE)]
    /\ UNCHANGED <<up, daemonVars, ended>>

\* An exec with a wiped environment: the new image connects without a token.
Scrub(p) ==
    /\ left.scrubs > 0
    /\ Running(p) /\ proc[p].sock = "none" /\ proc[p].token # NoSession
    /\ left' = [left EXCEPT !.scrubs = @ - 1]
    /\ raced' = (raced \/ Claimed(p) \/ (\E c \in Pids : proc[c].ppid = p)
                       \/ ~Registered(proc[p].ppid))
    /\ proc' = [proc EXCEPT ![p] = [@ EXCEPT !.token = NoSession]]
    /\ UNCHANGED <<up, daemonVars, births, ended>>

\* A process ends: with a BYE when its agent's deinit ran, without when it was
\* killed.  A child of the daemon waits to be reaped; its own children get
\* another parent (getppid() of the HELLO).
Exit(p, bye) ==
    LET s == proc[p].sock
    IN  /\ Running(p)
        /\ bye => s \in Slots
        /\ proc' = [q \in Pids |->
              IF q = p THEN [NoProc EXCEPT
                       !.run = IF proc[p].child THEN "zombie" ELSE "none",
                       !.gen = IF proc[p].child THEN proc[p].gen ELSE 0]
              ELSE IF proc[q].ppid = p THEN [proc[q] EXCEPT !.ppid = Outside]
              ELSE proc[q]]
        /\ conn' = IF s \in Slots
                   THEN [conn EXCEPT ![s] = [conn[s] EXCEPT !.open = FALSE, !.rx =
                           IF bye THEN Append(@, [type |-> "BYE"]) ELSE @]]
                   ELSE conn
        /\ ended' = IF proc[p].child THEN ended \cup {<<p, proc[p].gen>>} ELSE ended
        /\ UNCHANGED <<up, rows, minted, due, exits, evidence, births, left, raced>>

\* The agent loses its connection and will come back with a new one.
Disconnect(p) ==
    /\ left.drops > 0
    /\ Running(p) /\ proc[p].sock \in Slots
    /\ left' = [left EXCEPT !.drops = @ - 1]
    /\ conn' = [conn EXCEPT ![proc[p].sock] = [@ EXCEPT !.open = FALSE]]
    /\ proc' = [proc EXCEPT ![p] = [@ EXCEPT !.sock = "none", !.welcome = NoSession]]
    /\ raced' = (raced \/ proc[p].token = NoSession)
    /\ UNCHANGED <<up, rows, minted, due, exits, evidence, births, ended>>

\* Time: every silent entry grows older and the sweep becomes due.
Tick ==
    /\ up /\ left.time
    /\ rows' = [i \in DOMAIN rows |-> [rows[i] EXCEPT
                  !.age = IF @ < StaleAge THEN @ + 1 ELSE @]]
    /\ due' = TRUE
    /\ UNCHANGED <<up, minted, conn, exits, evidence, procVars>>

\* SIGTERM: the loop ends and the last summaries precede the journal's close.
Stop ==
    /\ up
    /\ up' = FALSE
    /\ rows' = Summaries(rows)
    /\ UNCHANGED <<minted, conn, due, exits, evidence, procVars>>

-----------------------------------------------------------------------------
Init ==
    /\ up = TRUE /\ rows = <<>> /\ minted = 0 /\ due = FALSE
    /\ conn = [s \in Slots |-> Free]
    /\ exits = {} /\ evidence = {}
    /\ proc = [p \in Pids |-> NoProc]
    /\ births = 0 /\ left \in OptionSet /\ ended = {} /\ raced = FALSE

\* An iteration that handled a ready descriptor.
Busy == \/ \E s \in Slots : ReadAgent(s) \/ ReadEof(s)
        \/ \E p \in Pids : Accept(p) \/ verb_spawn(p)

Next ==
    \/ Busy \/ IdleIteration \/ Tick \/ Stop
    \/ \E p \in Pids : \/ SendHeartbeat(p) \/ SendKernelEvent(p) \/ ReadWelcome(p)
                       \/ Disconnect(p) \/ Scrub(p) \/ Exit(p, TRUE) \/ Exit(p, FALSE)
                       \/ \E c \in Pids : Fork(p, c)

\* The daemon's loop never blocks for good (poll waits 500 ms), it serves what is
\* ready, and time passes.  Nothing is assumed of the processes.
Fairness ==
    /\ WF_vars(IdleIteration) /\ WF_vars(Tick)
    /\ \A s \in Slots : WF_vars(ReadAgent(s) \/ ReadEof(s))

Spec == Init /\ [][Next]_vars
FairSpec == Spec /\ Fairness

-----------------------------------------------------------------------------
Frame == [type : {"HELLO"}, pid : Pids, ppid : Pids \cup {Outside}, root : Nat,
          token : Nat]
         \cup [type : {"HEARTBEAT", "KERNEL", "BYE"}]

(* Evidence is filed under the process that sent it: the entry an event is   *)
(* journaled under carries the sender's pid, across reconnects, slots reused *)
(* after an EOF, and pids used again (main.c's "field init only").           *)
EvidenceAttributed ==
    \A e \in evidence : e[1] \in DOMAIN rows /\ rows[e[1]].pid = e[2]

(* A parent and a child joined by a link are in one session, even when the   *)
(* child's environment was wiped -- as long as every token had arrived       *)
(* before it had to travel (no fork and no lost connection before WELCOME,   *)
(* and no WELCOME to an agent that cannot set its environment),              *)
(* no pid still named by an entry or by a HELLO on its way went to another   *)
(* process or image, and no environment was wiped under a process with       *)
(* children or without its parent's entry to take the session from.          *)
LinkedShareSession ==
    ~raced => \A i \in DOMAIN rows :
                  rows[i].parent # NoRow =>
                      rows[i].session = rows[rows[i].parent].session

(* What the detonation cookbook says of a tree of processes: "One detonation *)
(* = one session id = one trace".                                            *)
OneDetonationOneSession ==
    \A i, j \in DOMAIN rows : rows[i].root = rows[j].root =>
                                rows[i].session = rows[j].session

(* No kernel observation is left out of the summaries: when the loop has     *)
(* ended, or the connection an entry came by is gone, the deltas in the      *)
(* journal add up to the observations counted.                               *)
DriftAccounted ==
    \A i \in DOMAIN rows :
        (~up \/ \A s \in Slots : ~(conn[s].pid # 0 /\ conn[s].row = i))
        => rows[i].summed = rows[i].obs

(* A spawned workload that ends is recorded as long as the daemon runs, even *)
(* when nothing else ever happens: the reap does not depend on traffic.      *)
ExitRecorded == (ended \ exits # {}) ~> (ended \subseteq exits \/ ~up)

(* An entry whose connection is gone does not stay LIVE while the daemon     *)
(* keeps handling something: heartbeats cannot revive it and the sweep       *)
(* finds it.  (With no traffic at all the sweep never runs: main.c:1104.)    *)
Deserted == {i \in DOMAIN rows :
                \A s \in Slots : ~(conn[s].pid # 0 /\ conn[s].row = i)}
StaleEntries == {i \in Deserted : rows[i].state = "LIVE"}
Traffic == \E s \in Slots : conn[s].rx # <<>>
SilentGoesStale == ([]<>Traffic) => (StaleEntries # {} ~> (StaleEntries = {} \/ ~up))

=============================================================================
