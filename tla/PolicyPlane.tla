---------------------------- MODULE PolicyPlane ----------------------------
(***************************************************************************)
(* How an interception policy travels from the operator to the processes:  *)
(* the daemon's policy state and control verbs (tools/retraced), the       *)
(* sockets to the agents, and the agent half that validates, installs and  *)
(* acknowledges a policy (src/supervisor).                                 *)
(*                                                                         *)
(* A policy is a record: its epoch, what its scripts do (body), whether it *)
(* is a signature wrapper, whether it carries an expiry, and its size      *)
(* against the agent's receive buffer.  The daemon is single threaded and  *)
(* so is an agent's socket side, so each handler is one step; what         *)
(* interleaves is the operator, the daemon, the agents and crashes.        *)
(***************************************************************************)
EXTENDS Naturals, Sequences, FiniteSets

CONSTANTS Agents,        \* processes that may carry an agent
          Slots,         \* conns[0 .. MAX_AGENTS - 1]
          Operator,      \* policies the operator can load or push
          Spawned,       \* processes that run from the start
          OptionSet,     \* start-up options, one of which Init picks
          NoPolicy       \* a NULL blob

Bodies == {p.body : p \in Operator} \cup {"freeze", "empty"}
Policy == [epoch : Nat \ {0}, body : Bodies, sealed : BOOLEAN,
           expires : BOOLEAN, size : {"fits", "edge", "big"}]

ASSUME OperatorAssumption == Operator \subseteq Policy
ASSUME NoPolicyAssumption == NoPolicy \notin Policy
ASSUME NamesAssumption == /\ Spawned \subseteq Agents /\ "none" \notin Agents
                          /\ Slots \cap {"none", "backlog", "dead"} = {}

VARIABLES
    opts,        \* fixedNonce: --nonce given; distrusts: agents pinned to another
                 \* key; family: processes of this run; entries:
                 \* RETRACED_REGISTRY_MAX; events: bound on verbs, daemon stops,
                 \* expiries and lost connections
    up,          \* the daemon runs
    nonce,       \* g_agent_nonce, counted up when a boot mints a fresh one
    blob,        \* g_ctl.policy_blob
    policyEpoch, \* g_ctl.policy_epoch
    thawBlob,    \* g_ctl.thaw_blob
    entries,     \* how many entries the registry has
    conn,        \* conns[]: the daemon's side of each connection
    born,        \* agents whose process exists
    threads,     \* of these, the ones with an agent thread
    envNonce,    \* RETRACE_SUPERVISOR_NONCE in the agent's environment
    sock,        \* the agent's side: a slot, "backlog", "dead" or "none"
    inbox,       \* POLICY_SET frames the daemon wrote and the agent has not read
    held,        \* g_agent.policy_epoch
    active,      \* what retrace_conf does
    late,        \* the wall clock passed the expiry dates
    issued,      \* history: every policy a daemon ever made current
    budget       \* what is left of opts.events

daemonVars == <<nonce, blob, policyEpoch, thawBlob>>
agentVars  == <<born, threads, envNonce, held, active>>
vars == <<opts, up, daemonVars, entries, conn, agentVars, sock, inbox, late,
          issued, budget>>

Free == [agent |-> "none", open |-> FALSE, helloed |-> FALSE,
         spectator |-> FALSE, acked |-> 0, rx |-> <<>>]
Opened(a, frame) == [agent |-> a, open |-> TRUE, helloed |-> FALSE,
                     spectator |-> FALSE, acked |-> 0, rx |-> <<frame>>]
Hello(n) == [type |-> "HELLO", nonce |-> n]
Ack(e)   == [type |-> "ACK", epoch |-> e]

-----------------------------------------------------------------------------
(* The daemon's writes.  A frame to a peer that closed its end is lost: the *)
(* return value of conn_send and write_frame is not looked at.              *)

\* Mutant: the spectator test is forgotten.
ReachedAll == {s \in Slots : conn[s].agent # "none" /\ conn[s].helloed
                             /\ conn[s].open}

\* retraced_ctl_push_policy: every registered connection that is no spectator.
Reached == {s \in Slots : conn[s].agent # "none" /\ conn[s].helloed
                          /\ ~conn[s].spectator /\ conn[s].open}

push_policy(p) ==
    inbox' = [a \in Agents |-> IF \E s \in Reached : conn[s].agent = a
                               THEN Append(inbox[a], p)
                               ELSE inbox[a]]

\* retraced_ctl_set_policy, and the push that follows it in every verb.
Issue(p, e) ==
    /\ blob' = p
    /\ policyEpoch' = e
    /\ issued' = issued \cup {p}
    /\ push_policy(p)

\* One of the bounded events of a behaviour.
Spend == budget > 0 /\ budget' = budget - 1

Verb == /\ up
        /\ Spend
        /\ UNCHANGED <<opts, entries, up, nonce, conn, agentVars, sock, late>>

\* verb_policy_push: any well-formed policy, whatever its epoch.
verb_policy_push ==
    \E p \in Operator :
        /\ Verb
        /\ Issue(p, p.epoch)
        /\ thawBlob' = p

Frozen(e) == [epoch |-> e, body |-> "freeze", sealed |-> FALSE,
              expires |-> FALSE, size |-> "fits"]
Emptied   == [epoch |-> 1, body |-> "empty", sealed |-> FALSE,
              expires |-> FALSE, size |-> "fits"]

verb_freeze ==
    /\ Verb
    /\ Issue(Frozen(policyEpoch + 1), policyEpoch + 1)
    /\ UNCHANGED thawBlob

\* The epoch is re-stamped in the top-level "policy" object, which a signature
\* wrapper does not have.
Restamp(p, e) == IF p.sealed THEN p ELSE [p EXCEPT !.epoch = e]

verb_thaw ==
    /\ Verb
    /\ Issue(Restamp(IF thawBlob # NoPolicy THEN thawBlob ELSE Emptied,
                     policyEpoch + 1), policyEpoch + 1)
    /\ UNCHANGED thawBlob

-----------------------------------------------------------------------------
(* The daemon's side of a connection.                                       *)

\* accept_gated and the first free slot; a full table closes the socket.
Accept(a) ==
    /\ up /\ sock[a] = "backlog"
    /\ IF \E s \in Slots : conn[s].agent = "none"
       THEN LET s == CHOOSE t \in Slots : conn[t].agent = "none"
            IN  /\ conn' = [conn EXCEPT ![s] = Opened(a, Hello(envNonce[a]))]
                /\ sock' = [sock EXCEPT ![a] = s]
       ELSE /\ sock' = [sock EXCEPT ![a] = "dead"]
            /\ UNCHANGED conn
    /\ UNCHANGED <<opts, entries, up, daemonVars, agentVars, inbox, late, issued, budget>>

\* retraced_registry_hello: every HELLO takes an entry, that of an agent that
\* comes back included, and no entry is ever given back.
Register == entries < opts.entries /\ entries' = entries + 1

\* Mutant: a registration is answered without the current policy.
HelloWithoutPolicy(s) ==
    /\ Head(conn[s].rx).type = "HELLO" /\ Register
    /\ conn' = [conn EXCEPT ![s].helloed = TRUE, ![s].acked = 0,
                   ![s].spectator = Head(conn[s].rx).nonce # nonce, ![s].rx = Tail(@)]
    /\ UNCHANGED inbox

\* The HELLO case of handle_agent_frame: role, row, current policy
\* (WELCOME, which carries the identity, changes nothing here).
HandleHello(s) ==
    LET c == conn[s]
        spectator == Head(c.rx).nonce # nonce
    IN  /\ Head(c.rx).type = "HELLO" /\ Register
        /\ conn' = [conn EXCEPT ![s] = [c EXCEPT !.helloed = TRUE, !.acked = 0,
                        !.spectator = spectator, !.rx = Tail(@)]]
        /\ inbox' = IF c.open /\ blob # NoPolicy /\ ~spectator
                    THEN [inbox EXCEPT ![c.agent] = Append(@, blob)]
                    ELSE inbox

\* The registry is full: the role is noted, and the agent gets no answer.
RefuseHello(s) ==
    /\ Head(conn[s].rx).type = "HELLO" /\ entries >= opts.entries
    /\ conn' = [conn EXCEPT ![s] = [conn[s] EXCEPT !.rx = Tail(@),
                    !.spectator = Head(conn[s].rx).nonce # nonce]]
    /\ UNCHANGED <<entries, inbox>>

\* daemon_frame_handle, POLICY_ACK: the registry row takes the epoch cited.
HandleAck(s) ==
    /\ Head(conn[s].rx).type = "ACK"
    /\ conn' = [conn EXCEPT ![s] = [conn[s] EXCEPT !.rx = Tail(@),
                    !.acked = IF conn[s].helloed THEN Head(conn[s].rx).epoch ELSE @]]
    /\ UNCHANGED <<entries, inbox>>

ReadAgent(s) ==
    /\ up /\ conn[s].agent # "none" /\ conn[s].rx # <<>>
    /\ HandleHello(s) \/ RefuseHello(s) \/ HandleAck(s)
    /\ UNCHANGED <<opts, up, daemonVars, agentVars, sock, late, issued, budget>>

\* read() returned 0: close and free the slot.
ReadEof(s) ==
    /\ up /\ conn[s].agent # "none" /\ conn[s].rx = <<>> /\ ~conn[s].open
    /\ conn' = [conn EXCEPT ![s] = Free]
    /\ UNCHANGED <<opts, entries, up, daemonVars, agentVars, sock, inbox, late, issued,
                   budget>>

-----------------------------------------------------------------------------
(* The agent thread.                                                        *)

\* drop_connection on the agent's side; the daemon still reads what was sent.
Hangup(a) ==
    /\ conn' = [s \in Slots |-> IF sock[a] = s THEN [conn[s] EXCEPT !.open = FALSE]
                                ELSE conn[s]]
    /\ sock'  = [sock EXCEPT ![a] = "none"]
    /\ inbox' = [inbox EXCEPT ![a] = <<>>]

\* try_connect: HELLO travels with the connection (see Accept).
Connect(a) ==
    /\ a \in threads /\ up /\ sock[a] = "none"
    /\ sock' = [sock EXCEPT ![a] = "backlog"]
    /\ UNCHANGED <<opts, entries, up, daemonVars, conn, agentVars, inbox, late, issued,
                   budget>>

\* retrace_policy_validate against the held epoch: "apply", "held" or "refused".
\* An edge-sized payload loses its last byte to the buffer and no longer parses.
Verdict(a, p) ==
    CASE p.size = "edge"                  -> "refused"
      [] p.sealed /\ a \in opts.distrusts -> "refused"
      [] p.epoch = held[a]                -> "held"
      [] p.epoch < held[a]                -> "refused"
      [] p.expires /\ late                -> "refused"
      [] OTHER                            -> "apply"

\* The ACK cites the epoch held once the frame was dealt with.
SendAck(a, e) ==
    conn' = IF sock[a] \in Slots
            THEN [conn EXCEPT ![sock[a]] = [conn[sock[a]] EXCEPT
                                               !.rx = Append(@, Ack(e))]]
            ELSE conn

\* Mutant: the ACK cites the epoch offered, taken or not.
HandlePolicyAcksOffer(a) ==
    LET p == Head(inbox[a])
        takes == Verdict(a, p) = "apply"
    IN  /\ held' = [held EXCEPT ![a] = IF takes THEN p.epoch ELSE @]
        /\ active' = [active EXCEPT ![a] = IF takes THEN p.body ELSE @]
        /\ SendAck(a, p.epoch)
        /\ inbox' = [inbox EXCEPT ![a] = Tail(@)]
        /\ UNCHANGED sock

\* retrace_agent_policy_apply and send_policy_ack.
HandlePolicy(a) ==
    LET p == Head(inbox[a])
        e == IF Verdict(a, p) = "apply" THEN p.epoch ELSE held[a]
    IN  /\ held' = [held EXCEPT ![a] = e]
        /\ active' = [active EXCEPT ![a] =
                         IF Verdict(a, p) = "apply" THEN p.body ELSE @]
        /\ SendAck(a, e)
        /\ inbox' = [inbox EXCEPT ![a] = Tail(@)]
        /\ UNCHANGED sock

\* One frame read by the agent.  A frame above the buffer never completes: the
\* buffer fills, read() is asked for 0 bytes, and its 0 is taken for an EOF.
AgentRead(a) ==
    /\ inbox[a] # <<>>
    /\ \/ Head(inbox[a]).size # "big" /\ HandlePolicy(a)
       \/ /\ Head(inbox[a]).size = "big" /\ Hangup(a)
          /\ UNCHANGED <<held, active>>
    /\ UNCHANGED <<opts, entries, up, daemonVars, born, threads, envNonce, late,
                   issued, budget>>

\* The daemon's end is gone and everything it wrote was read.
AgentEof(a) ==
    /\ sock[a] = "dead" /\ inbox[a] = <<>>
    /\ sock' = [sock EXCEPT ![a] = "none"]
    /\ UNCHANGED <<opts, entries, up, daemonVars, conn, agentVars, inbox, late, issued,
                   budget>>

\* A send that fails for the agent alone (drain_queue, heartbeat): drop, retry.
AgentDrops(a) ==
    /\ sock[a] \in Slots
    /\ Spend
    /\ Hangup(a)
    /\ UNCHANGED <<opts, entries, up, daemonVars, agentVars, late, issued>>

\* A process starts with the nonce its spawner reads now, and no policy.
Start(a) ==
    /\ a \in opts.family \ born
    /\ born' = born \cup {a}
    /\ envNonce' = [envNonce EXCEPT ![a] = nonce]
    /\ UNCHANGED <<opts, entries, up, daemonVars, conn, threads, sock, inbox, held,
                   active, late, issued, budget>>

\* agent_atfork_child: thread, connection and queue go, policy_epoch and the
\* configuration stay with the image.
Fork(p, c) ==
    /\ p \in born /\ c \in opts.family \ born
    /\ born' = born \cup {c}
    /\ envNonce' = [envNonce EXCEPT ![c] = envNonce[p]]
    /\ held' = [held EXCEPT ![c] = held[p]]
    /\ active' = [active EXCEPT ![c] = active[p]]
    /\ UNCHANGED <<opts, entries, up, daemonVars, conn, threads, sock, inbox, late,
                   issued, budget>>

\* The first dispatch of a new process, or the next event of a forked one,
\* creates the agent thread.
Kick(a) ==
    /\ a \in born \ threads
    /\ threads' = threads \cup {a}
    /\ UNCHANGED <<opts, entries, up, daemonVars, conn, born, envNonce, sock, inbox,
                   held, active, late, issued, budget>>

-----------------------------------------------------------------------------
(* Faults and time.                                                         *)

\* The daemon ends (SIGTERM or a crash): the agents' ends become dead, and what
\* was written to them stays readable.
DaemonStops ==
    /\ up /\ Spend
    /\ up' = FALSE
    /\ conn' = [s \in Slots |-> Free]
    /\ sock' = [a \in Agents |-> IF sock[a] = "none" THEN "none" ELSE "dead"]
    /\ UNCHANGED <<opts, entries, daemonVars, agentVars, inbox, late, issued>>

\* main(): the policy file is loaded (or none is given), the registry starts
\* empty and the thaw copy NULL, and a nonce is minted unless --nonce fixes it.
DaemonStarts ==
    /\ ~up
    /\ up' = TRUE
    /\ nonce' = IF opts.fixedNonce THEN nonce ELSE nonce + 1
    /\ thawBlob' = NoPolicy /\ entries' = 0
    /\ \/ \E p \in Operator :
            blob' = p /\ policyEpoch' = p.epoch /\ issued' = issued \cup {p}
       \/ blob' = NoPolicy /\ policyEpoch' = 0 /\ UNCHANGED issued
    /\ UNCHANGED <<opts, conn, agentVars, sock, inbox, late, budget>>

Expire == /\ ~late /\ Spend
          /\ late' = TRUE
          /\ UNCHANGED <<opts, entries, up, daemonVars, conn, agentVars, sock, inbox,
                         issued>>

-----------------------------------------------------------------------------
Init ==
    /\ opts \in OptionSet
    /\ up = TRUE /\ nonce = 1
    /\ \/ blob = NoPolicy /\ policyEpoch = 0 /\ issued = {}
       \/ \E p \in Operator : blob = p /\ policyEpoch = p.epoch /\ issued = {p}
    /\ thawBlob = NoPolicy
    /\ conn = [s \in Slots |-> Free]
    /\ entries = 0 /\ born = Spawned /\ threads = {}
    /\ envNonce = [a \in Agents |-> IF a \in Spawned THEN nonce ELSE 0]
    /\ sock = [a \in Agents |-> "none"]
    /\ inbox = [a \in Agents |-> <<>>]
    /\ held = [a \in Agents |-> 0]
    /\ active = [a \in Agents |-> "empty"]
    /\ late = FALSE
    /\ budget = opts.events

Next ==
    \/ verb_policy_push \/ verb_freeze \/ verb_thaw
    \/ \E s \in Slots : ReadAgent(s) \/ ReadEof(s)
    \/ \E a \in Agents : Accept(a) \/ Connect(a) \/ AgentRead(a) \/ AgentEof(a)
                         \/ AgentDrops(a) \/ Start(a) \/ Kick(a)
    \/ \E p, c \in Agents : Fork(p, c)
    \/ DaemonStops \/ DaemonStarts \/ Expire

\* The poll loop serves every ready descriptor, and an agent thread, once there
\* is one, connects, retries and reads for as long as its process runs.
Fairness ==
    /\ \A s \in Slots : WF_vars(ReadAgent(s)) /\ WF_vars(ReadEof(s))
    /\ \A a \in Agents : /\ WF_vars(Accept(a)) /\ WF_vars(Connect(a))
                         /\ WF_vars(AgentRead(a)) /\ WF_vars(AgentEof(a))

Spec == Init /\ [][Next]_vars
FairSpec == Spec /\ Fairness

-----------------------------------------------------------------------------
Frame == [type : {"HELLO"}, nonce : Nat] \cup [type : {"ACK"}, epoch : Nat]
Conn  == [agent : Agents \cup {"none"}, open : BOOLEAN, helloed : BOOLEAN,
          spectator : BOOLEAN, acked : Nat, rx : Seq(Frame)]

(* Types of the daemon's and the agents' variables. *)
TypeOK ==
    /\ up \in BOOLEAN /\ late \in BOOLEAN /\ nonce \in Nat
    /\ blob \in Policy \cup {NoPolicy} /\ thawBlob \in Policy \cup {NoPolicy}
    /\ policyEpoch \in Nat /\ entries \in Nat
    /\ conn \in [Slots -> Conn]
    /\ born \subseteq Agents /\ threads \subseteq born
    /\ envNonce \in [Agents -> Nat]
    /\ sock \in [Agents -> Slots \cup {"none", "backlog", "dead"}]
    /\ inbox \in [Agents -> Seq(Policy)]
    /\ held \in [Agents -> Nat]
    /\ active \in [Agents -> Bodies]
    /\ issued \subseteq Policy

\* No epoch number was ever given to two policies that do different things.
OneMeaning == \A p, q \in issued : p.epoch = q.epoch => p.body = q.body

(* The registry row is evidence.  When the daemon has read every ACK of a   *)
(* live connection and the last one cites the epoch of the current policy,  *)
(* the process at the other end runs that policy's scripts -- provided no   *)
(* epoch was issued for two different policies.  Crosses operator verbs,    *)
(* fork, reconnects, daemon restarts and the idempotent HELD answer of      *)
(* retrace_policy_validate.                                                 *)
AckMeansInForce ==
    OneMeaning => \A s \in Slots :
        (/\ blob # NoPolicy /\ conn[s].open
         /\ \A i \in DOMAIN conn[s].rx : conn[s].rx[i].type # "ACK"
         /\ conn[s].acked = blob.epoch)
        => active[conn[s].agent] = blob.body

(* The same promise without the proviso, as policy_sig.c states it of a     *)
(* re-delivered epoch: "the policy is already in force, the ACK says so".   *)
HeldMeansInForce ==
    \A s \in Slots :
        (/\ blob # NoPolicy /\ conn[s].open
         /\ \A i \in DOMAIN conn[s].rx : conn[s].rx[i].type # "ACK"
         /\ conn[s].acked = blob.epoch)
        => active[conn[s].agent] = blob.body

(* Policy never reaches a process that did not present the channel nonce of *)
(* the daemon it talks to: nothing is ever on its way there.                *)
SpectatorsGetNoPolicy ==
    \A s \in Slots :
        (conn[s].open /\ conn[s].helloed /\ envNonce[conn[s].agent] # nonce)
        => inbox[conn[s].agent] = <<>>

\* The agents a current policy is bound to reach: it outranks every epoch the
\* agent can hold, it fits, it verifies, and the agent has the nonce, a thread
\* and a connection slot.
Bound(a) ==
    /\ up /\ blob # NoPolicy /\ a \in threads /\ envNonce[a] = nonce
    /\ blob.size = "fits" /\ ~(blob.expires /\ late)
    /\ ~(blob.sealed /\ a \in opts.distrusts)
    /\ OneMeaning /\ \A p \in issued : p.epoch <= blob.epoch
    /\ Cardinality(born) <= Cardinality(Slots)

\* The agent has an entry in the registry, or can still get one.
Registrable(a) ==
    \/ entries < opts.entries
    \/ \E s \in Slots : conn[s].agent = a /\ conn[s].open /\ conn[s].helloed

(* The policy converges: once the operator, the crashes and the lost        *)
(* connections are over, every agent the current policy is bound to reach   *)
(* ends up running it for good, however it missed the push -- as long as    *)
(* the registry is not full.                                                *)
PolicyConverges ==
    \A a \in Agents : <>[](Bound(a) /\ Registrable(a) => active[a] = blob.body)

(* The same without the proviso: the agents that come back are no new       *)
(* agents (registry.c:99, "the registry entry survives the connection it    *)
(* arrived on"), and should not fill it.                                    *)
PolicyReturns ==
    \A a \in Agents : <>[](Bound(a) => active[a] = blob.body)

=============================================================================
