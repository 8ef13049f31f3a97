------------------------- MODULE PolicyPlaneProofs -------------------------
(***************************************************************************)
(* Types, the spectator rule and the evidence of the registry row in       *)
(* PolicyPlane, for any set of processes, connection slots and policies.   *)
(***************************************************************************)
EXTENDS PolicyPlane, TLAPS

\* A live connection and the agent's socket name each other, and only while
\* the daemon runs.
Paired ==
    /\ \A s \in Slots : conn[s].open => /\ conn[s].agent \in Agents
                                        /\ sock[conn[s].agent] = s /\ up
    /\ \A a \in Agents : sock[a] \in Slots => /\ conn[sock[a]].open
                                              /\ conn[sock[a]].agent = a
    /\ \A a \in Agents : sock[a] # "none" => a \in born
    /\ \A s \in Slots : conn[s].agent # "none" => conn[s].agent \in born

\* Who a connection belongs to is told by its HELLO, which carries the nonce of
\* the process; the role given to it is the comparison of the two nonces.
Role(s) ==
    /\ conn[s].agent = "none" => conn[s].rx = <<>> /\ ~conn[s].open
    /\ \A i \in DOMAIN conn[s].rx : conn[s].rx[i].type = "HELLO" =>
         conn[s].rx[i].nonce = envNonce[conn[s].agent]
    /\ conn[s].open /\ conn[s].helloed =>
         (conn[s].spectator <=> envNonce[conn[s].agent] # nonce)

Roles == \A s \in Slots : Role(s)

\* Nothing is on its way to a process before it has registered.
Unsent ==
    /\ \A a \in Agents : sock[a] \in {"none", "backlog"} => inbox[a] = <<>>
    /\ \A s \in Slots : conn[s].open /\ (~conn[s].helloed \/ conn[s].spectator)
                          => inbox[conn[s].agent] = <<>>

IInv == TypeOK /\ Paired /\ Roles /\ Unsent

-----------------------------------------------------------------------------
\* The policies the daemon makes up are policies: freeze, thaw and the empty one.
LEMMA MadePolicies ==
    ASSUME NEW e \in Nat \ {0}, NEW p \in Policy
    PROVE  Frozen(e) \in Policy /\ Emptied \in Policy /\ Restamp(p, e) \in Policy
BY DEF Frozen, Emptied, Restamp, Policy, Bodies

\* Making a policy current and pushing it keeps the types.
LEMMA IssueType ==
    ASSUME TypeOK, NEW p \in Policy, NEW e \in Nat, Issue(p, e)
    PROVE  /\ blob' \in Policy \cup {NoPolicy} /\ policyEpoch' \in Nat
           /\ issued' \subseteq Policy /\ inbox' \in [Agents -> Seq(Policy)]
BY DEF TypeOK, Issue, push_policy

\* What a verb issues: an operator's policy, a freeze or a thaw.
LEMMA VerbIssues ==
    ASSUME TypeOK, verb_policy_push \/ verb_freeze \/ verb_thaw
    PROVE  /\ Verb /\ thawBlob' \in Policy \cup {NoPolicy}
           /\ \E p \in Policy, e \in Nat : Issue(p, e)
<1>1. CASE verb_policy_push
  BY Zenon, <1>1, OperatorAssumption DEF verb_policy_push, Policy
<1>2. CASE verb_freeze
  <2>1. policyEpoch + 1 \in Nat \ {0}
    BY DEF TypeOK
  <2>2. Frozen(policyEpoch + 1) \in Policy
    BY Zenon, <2>1 DEF Frozen, Policy, Bodies
  <2> QED BY Zenon, <1>2, <2>1, <2>2 DEF verb_freeze, TypeOK
<1>3. CASE verb_thaw
  <2> DEFINE base == IF thawBlob # NoPolicy THEN thawBlob ELSE Emptied
  <2>1. policyEpoch + 1 \in Nat \ {0}
    BY DEF TypeOK
  <2>2. base \in Policy
    BY DEF TypeOK, Emptied, Policy, Bodies
  <2>3. Restamp(base, policyEpoch + 1) \in Policy
    BY Zenon, <2>1, <2>2, MadePolicies
  <2> QED BY Zenon, <1>3, <2>1, <2>3 DEF verb_thaw, TypeOK
<1> QED BY Zenon, <1>1, <1>2, <1>3

\* A connection's record after each edit a handler makes to it.
LEMMA ConnFree == Free \in Conn
BY DEF Free, Conn

\* An accepted connection, with the HELLO of its agent in it.
LEMMA ConnOpened ==
    ASSUME NEW a \in Agents, NEW f \in Frame PROVE Opened(a, f) \in Conn
BY DEF Opened, Conn

\* A HELLO that was handled (main.c): the frame is read, the gate decided.
LEMMA ConnHelloed ==
    ASSUME NEW c \in Conn, NEW r \in Seq(Frame), NEW b \in BOOLEAN
    PROVE  [c EXCEPT !.helloed = TRUE, !.acked = 0, !.spectator = b, !.rx = r] \in Conn
BY Zenon DEF Conn

\* Another frame that was handled: only the input gets shorter.
LEMMA ConnRead ==
    ASSUME NEW c \in Conn, NEW r \in Seq(Frame), NEW n \in Nat
    PROVE  [c EXCEPT !.rx = r, !.acked = n] \in Conn /\ [c EXCEPT !.rx = r] \in Conn
BY Zenon DEF Conn

\* A HELLO that was refused: the frame is read, the role noted.
LEMMA ConnRefused ==
    ASSUME NEW c \in Conn, NEW r \in Seq(Frame), NEW b \in BOOLEAN
    PROVE  [c EXCEPT !.rx = r, !.spectator = b] \in Conn
BY Zenon DEF Conn

\* A connection its agent has closed (drop_connection).
LEMMA ConnClosed == ASSUME NEW c \in Conn PROVE [c EXCEPT !.open = FALSE] \in Conn
BY Zenon DEF Conn

\* Hanging up keeps the types.
LEMMA HangupType ==
    ASSUME TypeOK, NEW a \in Agents, Hangup(a)
    PROVE  /\ conn' \in [Slots -> Conn] /\ inbox' \in [Agents -> Seq(Policy)]
           /\ sock' \in [Agents -> Slots \cup {"none", "backlog", "dead"}]
<1>1. \A s \in Slots : [conn[s] EXCEPT !.open = FALSE] \in Conn
  BY Zenon, ConnClosed DEF TypeOK
<1> QED BY <1>1 DEF TypeOK, Hangup

\* The types survive every step.
LEMMA TypeStep == TypeOK /\ [Next]_vars => TypeOK'
<1> SUFFICES ASSUME TypeOK, [Next]_vars PROVE TypeOK'
  BY Zenon
<1>1. CASE verb_policy_push \/ verb_freeze \/ verb_thaw
  <2>1. PICK p \in Policy, e \in Nat : Issue(p, e)
    BY Zenon, <1>1, VerbIssues
  <2> QED BY Zenon, <1>1, <2>1, VerbIssues, IssueType DEF TypeOK, Verb, agentVars
<1>2. ASSUME NEW s \in Slots, ReadAgent(s) PROVE TypeOK'
  <2>1. /\ conn[s].rx \in Seq(Frame) /\ conn[s].rx # <<>>
        /\ conn[s].agent \in Agents /\ conn[s] \in Conn /\ conn[s].acked \in Nat
    BY Zenon, <1>2 DEF TypeOK, ReadAgent, Conn
  <2>2. Head(conn[s].rx) \in Frame /\ Tail(conn[s].rx) \in Seq(Frame)
    BY <2>1
  <2>3. CASE HandleHello(s)
    <3>1. inbox' \in [Agents -> Seq(Policy)]
      BY <2>1, <2>3 DEF HandleHello, TypeOK
    <3> DEFINE b == Head(conn[s].rx).nonce # nonce
               new == [conn[s] EXCEPT !.helloed = TRUE, !.acked = 0,
                          !.spectator = b, !.rx = Tail(conn[s].rx)]
    <3>2. new \in Conn
      <4>1. b \in BOOLEAN
        BY Zenon
      <4> HIDE DEF b
      <4> QED BY Zenon, <2>1, <2>2, <4>1, ConnHelloed
    <3>3. conn' = [conn EXCEPT ![s] = new]
      BY Zenon, <2>3 DEF HandleHello
    <3> HIDE DEF new
    <3>4. conn' \in [Slots -> Conn]
      BY Zenon, <3>2, <3>3 DEF TypeOK
    <3>5. entries' \in Nat
      BY <2>3 DEF HandleHello, Register, TypeOK
    <3> QED BY Zenon, <1>2, <3>1, <3>4, <3>5
            DEF TypeOK, ReadAgent, daemonVars, agentVars
  <2>5. CASE RefuseHello(s)
    <3> DEFINE b == Head(conn[s].rx).nonce # nonce
               new == [conn[s] EXCEPT !.rx = Tail(conn[s].rx), !.spectator = b]
    <3>1. new \in Conn
      <4>1. b \in BOOLEAN
        BY Zenon
      <4> HIDE DEF b
      <4> QED BY Zenon, <2>1, <2>2, <4>1, ConnRefused
    <3>2. conn' = [conn EXCEPT ![s] = new]
      BY Zenon, <2>5 DEF RefuseHello
    <3> HIDE DEF new
    <3>3. conn' \in [Slots -> Conn]
      BY Zenon, <3>1, <3>2 DEF TypeOK
    <3> QED BY Zenon, <1>2, <2>5, <3>3
            DEF TypeOK, ReadAgent, RefuseHello, daemonVars, agentVars
  <2>4. CASE HandleAck(s)
    <3>1. Head(conn[s].rx).epoch \in Nat
      BY Zenon, <2>2, <2>4 DEF HandleAck, Frame
    <3> DEFINE n == IF conn[s].helloed THEN Head(conn[s].rx).epoch ELSE conn[s].acked
               new == [conn[s] EXCEPT !.rx = Tail(conn[s].rx), !.acked = n]
    <3>2. n \in Nat
      BY Zenon, <2>1, <3>1
    <3>3. conn' = [conn EXCEPT ![s] = new]
      BY Zenon, <2>4 DEF HandleAck
    <3> HIDE DEF n
    <3>4. new \in Conn
      BY Zenon, <2>1, <2>2, <3>2, ConnRead
    <3> HIDE DEF new
    <3>5. conn' \in [Slots -> Conn]
      BY Zenon, <3>3, <3>4 DEF TypeOK
    <3> QED BY Zenon, <1>2, <2>4, <3>5
            DEF TypeOK, ReadAgent, HandleAck, daemonVars, agentVars
  <2> QED BY Zenon, <1>2, <2>3, <2>4, <2>5 DEF ReadAgent
<1>3. ASSUME NEW s \in Slots, ReadEof(s) PROVE TypeOK'
  BY Zenon, <1>3, ConnFree DEF TypeOK, ReadEof, daemonVars, agentVars
<1>4. ASSUME NEW a \in Agents, Accept(a) PROVE TypeOK'
  <2>1. Hello(envNonce[a]) \in Frame
    BY Zenon DEF TypeOK, Hello, Frame
  <2>2. CASE \E s \in Slots : conn[s].agent = "none"
    <3> DEFINE s == CHOOSE t \in Slots : conn[t].agent = "none"
    <3>1. s \in Slots
      BY Zenon, <2>2
    <3>2. /\ conn' = [conn EXCEPT ![s] = Opened(a, Hello(envNonce[a]))]
          /\ sock' = [sock EXCEPT ![a] = s]
      BY Zenon, <1>4, <2>2 DEF Accept
    <3> HIDE DEF s
    <3>6. conn' \in [Slots -> Conn]
      BY Zenon, <2>1, <3>2, ConnOpened DEF TypeOK
    <3>7. sock' \in [Agents -> Slots \cup {"none", "backlog", "dead"}]
      BY Zenon, <3>1, <3>2 DEF TypeOK
    <3> QED BY Zenon, <1>4, <3>6, <3>7 DEF TypeOK, Accept, daemonVars, agentVars
  <2>3. CASE ~ \E s \in Slots : conn[s].agent = "none"
    BY Zenon, <1>4, <2>3 DEF TypeOK, Accept, daemonVars, agentVars
  <2> QED BY Zenon, <2>2, <2>3
<1>5. ASSUME NEW a \in Agents, Connect(a) \/ AgentEof(a) PROVE TypeOK'
  BY Zenon, <1>5 DEF TypeOK, Connect, AgentEof, daemonVars, agentVars
<1>13. ASSUME NEW a \in Agents, Start(a) \/ Kick(a) PROVE TypeOK'
  BY Zenon, <1>13 DEF TypeOK, Start, Kick, daemonVars
<1>6. ASSUME NEW a \in Agents, AgentRead(a) PROVE TypeOK'
  <2>1. /\ inbox[a] \in Seq(Policy) /\ inbox[a] # <<>>
        /\ Head(inbox[a]) \in Policy /\ Tail(inbox[a]) \in Seq(Policy)
    BY <1>6 DEF TypeOK, AgentRead
  <2>2. Head(inbox[a]).epoch \in Nat /\ Head(inbox[a]).body \in Bodies
    BY Zenon, <2>1 DEF Policy
  <2>3. CASE HandlePolicy(a)
    <3> DEFINE e == IF Verdict(a, Head(inbox[a])) = "apply"
                    THEN Head(inbox[a]).epoch ELSE held[a]
    <3>1. e \in Nat /\ Ack(e) \in Frame
      BY Zenon, <2>2 DEF TypeOK, Ack, Frame
    <3>2. held' = [held EXCEPT ![a] = e] /\ SendAck(a, e)
      BY Zenon, <2>3 DEF HandlePolicy
    <3> HIDE DEF e
    <3>3. conn' \in [Slots -> Conn]
      <4>1. CASE sock[a] \in Slots
        <5> DEFINE c == conn[sock[a]]
                   new == [c EXCEPT !.rx = Append(c.rx, Ack(e))]
        <5>1. c \in Conn /\ c.rx \in Seq(Frame)
          BY Zenon, <4>1 DEF TypeOK, Conn
        <5>2. Append(c.rx, Ack(e)) \in Seq(Frame)
          BY <3>1, <5>1
        <5>3. new \in Conn
          BY Zenon, <5>1, <5>2, ConnRead
        <5>4. conn' = [conn EXCEPT ![sock[a]] = new]
          BY Zenon, <3>2, <4>1 DEF SendAck
        <5> HIDE DEF new
        <5> QED BY Zenon, <4>1, <5>3, <5>4 DEF TypeOK
      <4> QED BY Zenon, <3>2, <4>1 DEF SendAck, TypeOK
    <3>4. /\ active' \in [Agents -> Bodies] /\ inbox' \in [Agents -> Seq(Policy)]
          /\ UNCHANGED sock
      BY Zenon, <2>1, <2>2, <2>3 DEF HandlePolicy, TypeOK
    <3> QED BY Zenon, <1>6, <3>1, <3>2, <3>3, <3>4 DEF TypeOK, AgentRead, daemonVars
  <2>4. CASE Hangup(a) /\ UNCHANGED <<held, active>>
    BY Zenon, <1>6, <2>4, HangupType DEF TypeOK, AgentRead, daemonVars
  <2> QED BY Zenon, <1>6, <2>3, <2>4 DEF AgentRead
<1>7. ASSUME NEW a \in Agents, AgentDrops(a) PROVE TypeOK'
  BY Zenon, <1>7, HangupType DEF TypeOK, AgentDrops, daemonVars, agentVars
<1>8. ASSUME NEW p \in Agents, NEW c \in Agents, Fork(p, c) PROVE TypeOK'
  BY Zenon, <1>8 DEF TypeOK, Fork, daemonVars
<1>9. CASE DaemonStops
  BY Zenon, <1>9, ConnFree DEF TypeOK, DaemonStops, daemonVars, agentVars
<1>10. CASE DaemonStarts
  <2>1. \A p \in Operator : p \in Policy /\ p.epoch \in Nat
    BY Zenon, OperatorAssumption DEF Policy
  <2> QED BY <1>10, <2>1 DEF TypeOK, DaemonStarts, agentVars
<1>11. CASE Expire
  BY Zenon, <1>11 DEF TypeOK, Expire, daemonVars, agentVars
<1>12. CASE UNCHANGED vars
  BY Zenon, <1>12 DEF TypeOK, vars, daemonVars, agentVars
<1> QED BY Zenon, <1>1, <1>2, <1>3, <1>4, <1>5, <1>6, <1>7, <1>8, <1>9, <1>10, <1>11,
           <1>12, <1>13 DEF Next
-----------------------------------------------------------------------------
\* An open connection has one agent, and that agent no other open connection.
LEMMA OneConn ==
    ASSUME TypeOK, Paired, NEW s \in Slots, NEW t \in Slots,
           conn[s].open, conn[t].open, conn[s].agent = conn[t].agent
    PROVE  s = t
BY DEF Paired

\* A verb writes only to registered connections that are no spectators.
LEMMA VerbKeeps ==
    ASSUME IInv, verb_policy_push \/ verb_freeze \/ verb_thaw
    PROVE  Paired' /\ Roles' /\ Unsent'
<1> USE DEF IInv
<1>1. PICK p \in Policy, e \in Nat : Issue(p, e)
  BY Zenon, VerbIssues
<1>2. UNCHANGED <<up, nonce, conn, born, envNonce, sock>>
  BY Zenon, VerbIssues DEF Verb, agentVars
<1>3. Paired' /\ Roles'
  BY Zenon, <1>2 DEF Paired, Roles, Role
<1>4. ASSUME NEW a \in Agents, inbox'[a] # inbox[a]
      PROVE  \E s \in Slots : /\ conn[s].agent = a /\ conn[s].open
                              /\ conn[s].helloed /\ ~conn[s].spectator
  BY Zenon, <1>1, <1>4 DEF Issue, push_policy, Reached, TypeOK
<1>5. ASSUME NEW a \in Agents, sock[a] \in {"none", "backlog"}
      PROVE  inbox'[a] = <<>>
  BY <1>4, <1>5, NamesAssumption DEF Paired, Unsent
<1>6. ASSUME NEW s \in Slots, conn[s].open, ~conn[s].helloed \/ conn[s].spectator
      PROVE  inbox'[conn[s].agent] = <<>>
  BY <1>4, <1>6, OneConn DEF Paired, Unsent
<1> QED BY Zenon, <1>2, <1>3, <1>5, <1>6 DEF Unsent

\* The role comes from the HELLO, and only then may the policy follow.
LEMMA HelloKeeps ==
    ASSUME IInv, NEW s \in Slots, ReadAgent(s), HandleHello(s)
    PROVE  Paired' /\ Roles' /\ Unsent'
<1> USE DEF IInv
<1> DEFINE c == conn[s]
<1>1. /\ UNCHANGED <<up, nonce, born, envNonce, sock>> /\ c.agent \in Agents
      /\ c \in Conn /\ c.rx \in Seq(Frame) /\ c.rx # <<>> /\ up
  BY Zenon DEF ReadAgent, TypeOK, Conn, daemonVars, agentVars
<1>2. /\ \A t \in Slots : t # s => conn'[t] = conn[t]
      /\ conn'[s].agent = c.agent /\ conn'[s].open = c.open
      /\ conn'[s].helloed = TRUE /\ conn'[s].rx = Tail(c.rx)
      /\ conn'[s].spectator = (Head(c.rx).nonce # nonce)
  BY Zenon, <1>1 DEF HandleHello, TypeOK, Conn
<1>3. Head(c.rx).type = "HELLO" /\ Head(c.rx).nonce = envNonce[c.agent]
  <2>1. Head(c.rx) = c.rx[1] /\ 1 \in DOMAIN c.rx
    BY <1>1
  <2> QED BY Zenon, <2>1 DEF HandleHello, Roles, Role
<1>4. Paired'
  BY <1>1, <1>2 DEF Paired
<1>5. Roles'
  <2>1. ASSUME NEW i \in DOMAIN Tail(c.rx)
        PROVE  i + 1 \in DOMAIN c.rx /\ Tail(c.rx)[i] = c.rx[i + 1]
    BY <1>1, <2>1
  <2>2. ASSUME NEW i \in DOMAIN Tail(c.rx), Tail(c.rx)[i].type = "HELLO"
        PROVE  Tail(c.rx)[i].nonce = envNonce[c.agent]
    BY Zenon, <2>1, <2>2 DEF Roles, Role
  <2>3. c.agent # "none"
    BY Zenon, <1>1, NamesAssumption
  <2>4. ASSUME NEW t \in Slots, t # s PROVE Role(t)'
    BY <1>1, <1>2, <2>4 DEF Roles, Role
  <2>5. Role(s)'
    BY ZenonT(30), <1>1, <1>2, <1>3, <2>2, <2>3 DEF Role
  <2> QED BY Zenon, <2>4, <2>5 DEF Roles
<1>6. ASSUME NEW a \in Agents, inbox'[a] # inbox[a]
      PROVE  a = c.agent /\ c.open /\ ~conn'[s].spectator
  BY Zenon, <1>1, <1>2, <1>6 DEF HandleHello, TypeOK
<1>7. ASSUME NEW a \in Agents, sock[a] \in {"none", "backlog"}
      PROVE  inbox'[a] = <<>>
  BY <1>6, <1>7, NamesAssumption DEF Paired, Unsent
<1>8. ASSUME NEW t \in Slots, t # s, conn[t].open,
             ~conn[t].helloed \/ conn[t].spectator
      PROVE  inbox'[conn[t].agent] = <<>>
  BY <1>6, <1>8, OneConn DEF Paired, Unsent
<1>9. ASSUME c.open, conn'[s].spectator PROVE inbox'[c.agent] = <<>>
  <2>1. inbox'[c.agent] = inbox[c.agent]
    BY Zenon, <1>1, <1>6, <1>9
  <2>2. ~c.helloed \/ c.spectator
    BY Zenon, <1>2, <1>3, <1>9 DEF Roles, Role
  <2> QED BY Zenon, <1>9, <2>1, <2>2 DEF Unsent
<1> QED BY <1>1, <1>2, <1>4, <1>5, <1>7, <1>8, <1>9 DEF Unsent

\* A full registry: the role is noted all the same, and no policy follows.
LEMMA RefuseKeeps ==
    ASSUME IInv, NEW s \in Slots, ReadAgent(s), RefuseHello(s)
    PROVE  Paired' /\ Roles' /\ Unsent'
<1> USE DEF IInv
<1> DEFINE c == conn[s]
<1>1. /\ UNCHANGED <<up, nonce, born, envNonce, sock, inbox>> /\ c \in Conn
      /\ c.rx \in Seq(Frame) /\ c.rx # <<>> /\ c.agent # "none"
  BY Zenon DEF ReadAgent, RefuseHello, TypeOK, Conn, daemonVars, agentVars
<1>2. /\ \A t \in Slots : t # s => conn'[t] = conn[t]
      /\ conn'[s].agent = c.agent /\ conn'[s].open = c.open
      /\ conn'[s].helloed = c.helloed /\ conn'[s].rx = Tail(c.rx)
      /\ conn'[s].spectator = (Head(c.rx).nonce # nonce)
  BY Zenon, <1>1 DEF RefuseHello, TypeOK, Conn
<1>3. Head(c.rx).nonce = envNonce[c.agent]
  <2>1. Head(c.rx) = c.rx[1] /\ 1 \in DOMAIN c.rx
    BY <1>1
  <2> QED BY Zenon, <2>1 DEF RefuseHello, Roles, Role
<1>4. Role(s)
  BY Zenon DEF Roles
<1>5. c.open /\ c.helloed => (conn'[s].spectator <=> c.spectator)
  BY Zenon, <1>2, <1>3, <1>4 DEF Role
<1>6. Paired' /\ Unsent'
  BY <1>1, <1>2, <1>5 DEF Paired, Unsent
<1>7. ASSUME NEW i \in DOMAIN Tail(c.rx)
      PROVE  i + 1 \in DOMAIN c.rx /\ Tail(c.rx)[i] = c.rx[i + 1]
  BY <1>1, <1>7
<1>8. ASSUME NEW t \in Slots, t # s PROVE Role(t)'
  BY <1>1, <1>2, <1>8 DEF Roles, Role
<1>9. ASSUME NEW i \in DOMAIN Tail(c.rx), Tail(c.rx)[i].type = "HELLO"
      PROVE  Tail(c.rx)[i].nonce = envNonce[c.agent]
  BY <1>4, <1>7, <1>9 DEF Role
<1>10. Role(s)'
  BY Zenon, <1>1, <1>2, <1>3, <1>9 DEF Role
<1> QED BY Zenon, <1>6, <1>8, <1>10 DEF Roles

\* An ACK moves no policy.
LEMMA AckKeeps ==
    ASSUME IInv, NEW s \in Slots, ReadAgent(s), HandleAck(s)
    PROVE  Paired' /\ Roles' /\ Unsent'
<1> USE DEF IInv
<1> DEFINE c == conn[s]
<1>1. /\ UNCHANGED <<up, nonce, born, envNonce, sock, inbox>> /\ c \in Conn
      /\ c.rx \in Seq(Frame) /\ c.rx # <<>> /\ c.agent # "none"
  BY Zenon DEF ReadAgent, HandleAck, TypeOK, Conn, daemonVars, agentVars
<1>2. /\ \A t \in Slots : t # s => conn'[t] = conn[t]
      /\ conn'[s].agent = c.agent /\ conn'[s].open = c.open
      /\ conn'[s].helloed = c.helloed /\ conn'[s].rx = Tail(c.rx)
      /\ conn'[s].spectator = c.spectator
  BY Zenon, <1>1 DEF HandleAck, TypeOK, Conn
<1>3. Paired' /\ Unsent'
  BY <1>1, <1>2 DEF Paired, Unsent
<1>4. ASSUME NEW i \in DOMAIN Tail(c.rx)
      PROVE  i + 1 \in DOMAIN c.rx /\ Tail(c.rx)[i] = c.rx[i + 1]
  BY <1>1, <1>4
<1>5. ASSUME NEW t \in Slots, t # s PROVE Role(t)'
  BY <1>1, <1>2, <1>5 DEF Roles, Role
<1>6. ASSUME NEW i \in DOMAIN Tail(c.rx), Tail(c.rx)[i].type = "HELLO"
      PROVE  Tail(c.rx)[i].nonce = envNonce[c.agent]
  BY <1>4, <1>6 DEF Roles, Role
<1>7. Role(s)
  BY Zenon DEF Roles
<1>8. Role(s)'
  BY <1>1, <1>2, <1>6, <1>7 DEF Role
<1>9. Roles'
  BY <1>5, <1>8 DEF Roles
<1> QED BY Zenon, <1>3, <1>9
\* A new connection starts with nothing on its way to the process.
LEMMA AcceptKeeps ==
    ASSUME IInv, NEW a \in Agents, Accept(a)
    PROVE  Paired' /\ Roles' /\ Unsent'
<1> USE DEF IInv
<1>1. /\ UNCHANGED <<up, nonce, born, envNonce, inbox>> /\ up /\ sock[a] = "backlog"
      /\ a # "none" /\ a \in born /\ inbox[a] = <<>>
  BY Zenon, NamesAssumption DEF Accept, daemonVars, agentVars, Paired, Unsent
<1>2. \A t \in Slots : conn[t].open => conn[t].agent # a
  BY <1>1, NamesAssumption DEF Paired
<1>3. CASE \E s \in Slots : conn[s].agent = "none"
  <2>1. PICK s \in Slots :
          /\ conn[s].agent = "none" /\ sock' = [sock EXCEPT ![a] = s]
          /\ conn' = [conn EXCEPT ![s] = Opened(a, Hello(envNonce[a]))]
    BY Zenon, <1>3 DEF Accept
  <2>3. /\ \A t \in Slots : t # s => conn'[t] = conn[t]
        /\ conn'[s].agent = a /\ conn'[s].open /\ ~conn'[s].helloed
        /\ conn'[s].rx = <<Hello(envNonce[a])>>
    BY Zenon, <2>1 DEF TypeOK, Opened
  <2>4. sock'[a] = s /\ \A b \in Agents : b # a => sock'[b] = sock[b]
    BY Zenon, <2>1 DEF TypeOK
  <2>5. Paired'
    BY <1>1, <1>2, <2>1, <2>3, <2>4, NamesAssumption DEF Paired
  <2>6. ASSUME NEW t \in Slots, t # s PROVE Role(t)'
    BY <1>1, <2>3, <2>6 DEF Roles, Role
  <2>7. Role(s)'
    <3>1. \A i \in DOMAIN conn'[s].rx : conn'[s].rx[i].nonce = envNonce[a]
      BY <2>3 DEF Hello
    <3> QED BY Zenon, <1>1, <2>3, <3>1 DEF Role
  <2>8. Unsent'
    BY <1>1, <2>1, <2>3, <2>4, NamesAssumption DEF Unsent
  <2> QED BY Zenon, <2>5, <2>6, <2>7, <2>8 DEF Roles
<1>4. CASE ~ \E s \in Slots : conn[s].agent = "none"
  <2>1. UNCHANGED conn /\ sock' = [sock EXCEPT ![a] = "dead"]
    BY Zenon, <1>4 DEF Accept
  <2>2. sock'[a] = "dead" /\ \A b \in Agents : b # a => sock'[b] = sock[b]
    BY Zenon, <2>1 DEF TypeOK
  <2>3. Paired' /\ Unsent'
    BY <1>1, <1>2, <2>1, <2>2, NamesAssumption DEF Paired, Unsent
  <2>4. Roles'
    BY Zenon, <1>1, <2>1 DEF Roles, Role
  <2> QED BY Zenon, <2>3, <2>4
<1> QED BY Zenon, <1>3, <1>4

\* A hang-up closes the agent's connection and discards what it had not read.
LEMMA HangupKeeps ==
    ASSUME IInv, NEW a \in Agents, Hangup(a),
           UNCHANGED <<up, nonce, born, envNonce>>
    PROVE  Paired' /\ Roles' /\ Unsent'
<1> USE DEF IInv
<1>1. /\ sock'[a] = "none" /\ inbox'[a] = <<>>
      /\ \A b \in Agents : b # a => sock'[b] = sock[b] /\ inbox'[b] = inbox[b]
  BY Zenon DEF Hangup, TypeOK
<1>2. \A s \in Slots : /\ conn'[s].agent = conn[s].agent /\ conn'[s].rx = conn[s].rx
                       /\ conn'[s].helloed = conn[s].helloed
                       /\ conn'[s].spectator = conn[s].spectator
                       /\ conn'[s].open <=> conn[s].open /\ sock[a] # s
  BY DEF Hangup, TypeOK, Conn
<1>3. \A s \in Slots : conn'[s].open => conn[s].open /\ conn[s].agent # a
  BY <1>2 DEF Paired
<1>4. Paired'
  BY <1>1, <1>2, <1>3, NamesAssumption DEF Paired
<1>5. Unsent'
  BY <1>1, <1>2, <1>3 DEF Unsent, Paired
<1>6. ASSUME NEW s \in Slots PROVE Role(s)'
  BY <1>2 DEF Roles, Role
<1> QED BY Zenon, <1>4, <1>5, <1>6 DEF Roles

\* Reading a policy takes it off the way and sends an ACK, which is no HELLO.
LEMMA PolicyKeeps ==
    ASSUME IInv, NEW a \in Agents, inbox[a] # <<>>, HandlePolicy(a),
           UNCHANGED <<up, nonce, born, envNonce>>
    PROVE  Paired' /\ Roles' /\ Unsent'
<1> USE DEF IInv
<1> DEFINE e == IF Verdict(a, Head(inbox[a])) = "apply"
                THEN Head(inbox[a]).epoch ELSE held[a]
<1>1. /\ UNCHANGED sock /\ SendAck(a, e)
      /\ \A b \in Agents : b # a => inbox'[b] = inbox[b]
  BY Zenon DEF HandlePolicy, TypeOK
<1> HIDE DEF e
<1>2. \A s \in Slots : /\ conn'[s].agent = conn[s].agent
                       /\ conn'[s].open = conn[s].open
                       /\ conn'[s].helloed = conn[s].helloed
                       /\ conn'[s].spectator = conn[s].spectator
  BY <1>1 DEF SendAck, TypeOK, Conn
<1>3. \A s \in Slots : \/ conn'[s].rx = conn[s].rx
                       \/ sock[a] = s /\ conn'[s].rx = Append(conn[s].rx, Ack(e))
  BY Zenon, <1>1 DEF SendAck, TypeOK, Conn
<1>4. Paired'
  BY <1>1, <1>2 DEF Paired
<1>5. Unsent'
  BY <1>1, <1>2 DEF Unsent, Paired
<1>6. ASSUME NEW s \in Slots PROVE Role(s)'
  <2>1. Role(s) /\ conn[s].rx \in Seq(Frame)
    BY Zenon DEF Roles, TypeOK, Conn
  <2>2. Ack(e).type = "ACK"
    BY Zenon DEF Ack
  <2>3. ASSUME NEW i \in DOMAIN conn'[s].rx, conn'[s].rx[i].type = "HELLO"
        PROVE  i \in DOMAIN conn[s].rx /\ conn'[s].rx[i] = conn[s].rx[i]
    <3>1. CASE conn'[s].rx = conn[s].rx
      BY Zenon, <2>3, <3>1
    <3>2. CASE conn'[s].rx = Append(conn[s].rx, Ack(e))
      <4>1. /\ DOMAIN Append(conn[s].rx, Ack(e)) = 1 .. (Len(conn[s].rx) + 1)
            /\ Append(conn[s].rx, Ack(e))[Len(conn[s].rx) + 1] = Ack(e)
            /\ \A j \in 1 .. Len(conn[s].rx) :
                 Append(conn[s].rx, Ack(e))[j] = conn[s].rx[j]
        BY <2>1
      <4>2. i # Len(conn[s].rx) + 1
        BY Zenon, <2>2, <2>3, <3>2, <4>1
      <4> QED BY <2>1, <2>3, <3>2, <4>1, <4>2
    <3> QED BY Zenon, <1>3, <3>1, <3>2
  <2>4. conn'[s].agent = "none" => conn'[s].rx = <<>>
    BY <1>2, <1>3, <2>1, NamesAssumption DEF Role, Paired
  <2> QED BY <1>2, <2>1, <2>3, <2>4 DEF Role
<1> QED BY Zenon, <1>4, <1>5, <1>6 DEF Roles
\* Every step keeps the invariant.
LEMMA IInvStep == IInv /\ [Next]_vars => IInv'
<1> SUFFICES ASSUME IInv, [Next]_vars PROVE Paired' /\ Roles' /\ Unsent'
  BY Zenon, TypeStep DEF IInv
<1> USE DEF IInv
<1>1. CASE verb_policy_push \/ verb_freeze \/ verb_thaw
  BY Zenon, <1>1, VerbKeeps
<1>2. ASSUME NEW s \in Slots, ReadAgent(s) PROVE Paired' /\ Roles' /\ Unsent'
  BY Zenon, <1>2, HelloKeeps, RefuseKeeps, AckKeeps DEF ReadAgent
<1>3. ASSUME NEW s \in Slots, ReadEof(s) PROVE Paired' /\ Roles' /\ Unsent'
  <2>1. UNCHANGED <<up, nonce, born, envNonce, sock, inbox>> /\ ~conn[s].open
    BY Zenon, <1>3 DEF ReadEof, daemonVars, agentVars
  <2>2. /\ \A t \in Slots : t # s => conn'[t] = conn[t]
        /\ conn'[s].agent = "none" /\ ~conn'[s].open /\ conn'[s].rx = <<>>
    BY Zenon, <1>3 DEF ReadEof, Free, TypeOK
  <2>3. Paired' /\ Unsent'
    BY <2>1, <2>2 DEF Paired, Unsent
  <2>4. ASSUME NEW t \in Slots PROVE Role(t)'
    BY <2>1, <2>2 DEF Roles, Role
  <2> QED BY Zenon, <2>3, <2>4 DEF Roles
<1>4. ASSUME NEW a \in Agents, Accept(a) PROVE Paired' /\ Roles' /\ Unsent'
  BY Zenon, <1>4, AcceptKeeps
<1>5. ASSUME NEW a \in Agents, Connect(a) \/ AgentEof(a)
      PROVE  Paired' /\ Roles' /\ Unsent'
  <2>1. /\ UNCHANGED <<up, nonce, born, envNonce, conn, inbox>>
        /\ sock[a] \in {"none", "dead"} /\ sock'[a] \in {"none", "backlog"}
        /\ a \in born /\ inbox[a] = <<>>
        /\ \A b \in Agents : b # a => sock'[b] = sock[b]
    BY <1>5 DEF Connect, AgentEof, daemonVars, agentVars, TypeOK, Paired, Unsent
  <2>2. Paired' /\ Unsent'
    BY <2>1, NamesAssumption DEF Paired, Unsent
  <2>3. Roles'
    BY Zenon, <2>1 DEF Roles, Role
  <2> QED BY Zenon, <2>2, <2>3
<1>6. ASSUME NEW a \in Agents, AgentRead(a) PROVE Paired' /\ Roles' /\ Unsent'
  <2>1. UNCHANGED <<up, nonce, born, envNonce>> /\ inbox[a] # <<>>
    BY Zenon, <1>6 DEF AgentRead, daemonVars
  <2>2. HandlePolicy(a) \/ Hangup(a)
    BY Zenon, <1>6 DEF AgentRead
  <2> QED BY Zenon, <2>1, <2>2, PolicyKeeps, HangupKeeps
<1>7. ASSUME NEW a \in Agents, AgentDrops(a) PROVE Paired' /\ Roles' /\ Unsent'
  BY Zenon, <1>7, HangupKeeps DEF AgentDrops, daemonVars, agentVars
<1>8. ASSUME NEW a \in Agents, a \notin born, born' = born \cup {a},
             NEW n \in Nat, envNonce' = [envNonce EXCEPT ![a] = n],
             UNCHANGED <<up, nonce, conn, sock, inbox>>
      PROVE  Paired' /\ Roles' /\ Unsent'
  <2>1. \A s \in Slots : conn[s].agent # a
    BY <1>8, NamesAssumption DEF Paired
  <2>2. \A b \in Agents : b # a => envNonce'[b] = envNonce[b]
    BY Zenon, <1>8 DEF TypeOK
  <2>3. Paired' /\ Unsent'
    BY Zenon, <1>8 DEF Paired, Unsent
  <2>4. ASSUME NEW s \in Slots PROVE Role(s)'
    <3>1. conn[s].agent \in Agents \cup {"none"}
      BY Zenon DEF TypeOK, Conn
    <3>2. Role(s)
      BY Zenon DEF Roles
    <3>3. CASE conn[s].agent = "none"
      BY <1>8, <3>2, <3>3 DEF Role
    <3>4. CASE conn[s].agent \in Agents
      BY Zenon, <1>8, <2>1, <2>2, <3>2, <3>4 DEF Role
    <3> QED BY Zenon, <3>1, <3>3, <3>4
  <2> QED BY Zenon, <2>3, <2>4 DEF Roles
<1>9. ASSUME NEW a \in Agents, Start(a) PROVE Paired' /\ Roles' /\ Unsent'
  BY Zenon, <1>8, <1>9 DEF Start, daemonVars, TypeOK
<1>10. ASSUME NEW p \in Agents, NEW c \in Agents, Fork(p, c)
       PROVE  Paired' /\ Roles' /\ Unsent'
  BY Zenon, <1>8, <1>10 DEF Fork, daemonVars, TypeOK
<1>11. CASE DaemonStops
  <2>1. /\ UNCHANGED <<nonce, born, envNonce, inbox>>
        /\ \A s \in Slots : /\ conn'[s].agent = "none" /\ ~conn'[s].open
                            /\ conn'[s].rx = <<>>
        /\ \A a \in Agents : sock'[a] = IF sock[a] = "none" THEN "none" ELSE "dead"
    BY Zenon, <1>11 DEF DaemonStops, Free, daemonVars, agentVars
  <2>2. Paired' /\ Unsent'
    BY <2>1, NamesAssumption DEF Paired, Unsent
  <2>3. Roles'
    BY <2>1 DEF Roles, Role
  <2> QED BY Zenon, <2>2, <2>3
<1>12. CASE DaemonStarts
  <2>1. /\ UNCHANGED <<conn, born, envNonce, sock, inbox>> /\ ~up
        /\ \A s \in Slots : ~conn[s].open
    BY Zenon, <1>12 DEF DaemonStarts, agentVars, Paired
  <2>2. Paired' /\ Unsent'
    BY Zenon, <2>1 DEF Paired, Unsent
  <2>3. Roles'
    BY Zenon, <2>1 DEF Roles, Role
  <2> QED BY <2>2, <2>3
<1>13. CASE Expire \/ (\E a \in Agents : Kick(a)) \/ UNCHANGED vars
  <2>1. UNCHANGED <<up, nonce, conn, born, envNonce, sock, inbox>>
    BY Zenon, <1>13 DEF Expire, Kick, vars, daemonVars, agentVars
  <2> QED BY Zenon, <2>1 DEF Paired, Roles, Role, Unsent
<1> QED BY Zenon, <1>1, <1>2, <1>3, <1>4, <1>5, <1>6, <1>7, <1>9, <1>10, <1>11, <1>12,
           <1>13 DEF Next

\* The first state: no connection, nothing on its way.
LEMMA IInvInit == Init => IInv
<1> SUFFICES ASSUME Init PROVE IInv
  BY Zenon
<1>1. \A p \in Operator : p \in Policy /\ p.epoch \in Nat
  BY Zenon, OperatorAssumption DEF Policy
<1>2. conn \in [Slots -> Conn]
  BY Zenon, ConnFree DEF Init
<1>3. TypeOK
  <2>1. /\ up \in BOOLEAN /\ late \in BOOLEAN /\ nonce \in Nat
        /\ thawBlob \in Policy \cup {NoPolicy} /\ born \subseteq Agents
        /\ threads \subseteq born /\ envNonce \in [Agents -> Nat]
    BY Zenon, NamesAssumption DEF Init
  <2>2. /\ blob \in Policy \cup {NoPolicy} /\ policyEpoch \in Nat
        /\ entries \in Nat /\ issued \subseteq Policy
    BY <1>1 DEF Init
  <2>3. /\ sock \in [Agents -> Slots \cup {"none", "backlog", "dead"}]
        /\ inbox \in [Agents -> Seq(Policy)] /\ held \in [Agents -> Nat]
        /\ active \in [Agents -> Bodies]
    BY DEF Init, Bodies
  <2> QED BY Zenon, <1>2, <2>1, <2>2, <2>3 DEF TypeOK
<1>4. \A s \in Slots : conn[s].agent = "none" /\ ~conn[s].open /\ conn[s].rx = <<>>
  BY Zenon DEF Init, Free
<1>5. Paired /\ Unsent
  BY Zenon, <1>4, NamesAssumption DEF Init, Paired, Unsent
<1>6. Roles
  BY <1>4 DEF Roles, Role
<1> QED BY Zenon, <1>3, <1>5, <1>6 DEF IInv

\* The daemon, the connections and the agents keep to their types: every policy
\* the verbs make up, freeze and thaw included, has an epoch and a body.
THEOREM Types == Spec => []TypeOK
<1>1. IInv => TypeOK
  BY Zenon DEF IInv
<1> QED BY IInvInit, IInvStep, <1>1, PTL DEF Spec

\* handle_agent_frame and retraced_ctl_push_policy: a process whose HELLO does
\* not carry the daemon's nonce never has a policy on its way, for any number of
\* processes, slots, verbs, restarts and reconnects.
THEOREM SpectatorsSafe == Spec => []SpectatorsGetNoPolicy
<1>1. IInv => SpectatorsGetNoPolicy
  BY Zenon DEF IInv, Roles, Role, Unsent, SpectatorsGetNoPolicy
<1> QED BY IInvInit, IInvStep, <1>1, PTL DEF Spec

-----------------------------------------------------------------------------
(* The evidence of the registry row.                                        *)

\* Everything current, on its way or in force was issued by a daemon; what an
\* agent runs is what some issued policy of the epoch it holds does.
Evidence ==
    /\ blob # NoPolicy => blob \in issued
    /\ \A a \in Agents : \A i \in DOMAIN inbox[a] : inbox[a][i] \in issued
    /\ \A a \in Agents : held[a] # 0 =>
         \E p \in issued : p.epoch = held[a] /\ p.body = active[a]

\* The last ACK among the frames, if there is one, cites epoch e.
NoAck(rx) == \A i \in DOMAIN rx : rx[i].type # "ACK"
Cites(rx, e) ==
    \A i \in DOMAIN rx :
        rx[i].type = "ACK" /\ (\A j \in DOMAIN rx : j > i => rx[j].type # "ACK")
          => rx[i].epoch = e

\* The last ACK sent over a live connection, read or not, cites what is held.
Row(s) ==
    conn[s].open => /\ ~conn[s].helloed => conn[s].acked = 0
                    /\ NoAck(conn[s].rx) => conn[s].acked \in {0, held[conn[s].agent]}
                    /\ Cites(conn[s].rx, held[conn[s].agent])
Rows == \A s \in Slots : Row(s)

\* Reading a frame: what is left still ends with the same ACK.
LEMMA CitesTail ==
    ASSUME NEW rx \in Seq(Frame), rx # <<>>, NEW e, Cites(rx, e)
    PROVE  /\ Cites(Tail(rx), e)
           /\ Head(rx).type = "ACK" /\ NoAck(Tail(rx)) => Head(rx).epoch = e
           /\ Head(rx).type # "ACK" /\ NoAck(Tail(rx)) => NoAck(rx)
<1> DEFINE t == Tail(rx)
<1>1. /\ Len(rx) \in Nat \ {0} /\ DOMAIN rx = 1 .. Len(rx) /\ Head(rx) = rx[1]
      /\ DOMAIN t = 1 .. (Len(rx) - 1) /\ \A i \in DOMAIN t : t[i] = rx[i + 1]
  OBVIOUS
<1> HIDE DEF t
<1>2. \A i \in DOMAIN t : i + 1 \in DOMAIN rx /\ t[i] = rx[i + 1]
  BY <1>1
<1>3. \A j \in DOMAIN rx : j = 1 \/ (j - 1 \in DOMAIN t /\ t[j - 1] = rx[j])
  BY <1>1
<1>4. Cites(t, e)
  <2> SUFFICES ASSUME NEW i \in DOMAIN t, t[i].type = "ACK",
                      \A j \in DOMAIN t : j > i => t[j].type # "ACK"
               PROVE  t[i].epoch = e
    BY Zenon DEF Cites
  <2>1. ASSUME NEW j \in DOMAIN rx, j > i + 1 PROVE rx[j].type # "ACK"
    <3>1. j - 1 \in DOMAIN t /\ t[j - 1] = rx[j] /\ j - 1 > i
      BY <1>1, <1>3, <2>1
    <3> QED BY Zenon, <3>1
  <2> QED BY Zenon, <1>2, <2>1 DEF Cites
<1>5. NoAck(t) => \A j \in DOMAIN rx : j > 1 => rx[j].type # "ACK"
  BY <1>1, <1>3 DEF NoAck
<1>6. 1 \in DOMAIN rx
  BY <1>1
<1>7. rx[1].type = "ACK" /\ NoAck(t) => rx[1].epoch = e
  BY Zenon, <1>5, <1>6 DEF Cites
<1>8. rx[1].type # "ACK" /\ NoAck(t) => NoAck(rx)
  BY <1>1, <1>5 DEF NoAck
<1> QED BY Zenon, <1>1, <1>4, <1>7, <1>8 DEF t

\* Sending an ACK: it is the last one.
LEMMA CitesAppend ==
    ASSUME NEW rx \in Seq(Frame), NEW e
    PROVE  Cites(Append(rx, Ack(e)), e) /\ ~NoAck(Append(rx, Ack(e)))
<1> DEFINE t == Append(rx, Ack(e))
           n == Len(rx) + 1
<1>1. DOMAIN t = 1 .. n /\ n \in Nat /\ n \in DOMAIN t /\ t[n] = Ack(e)
  OBVIOUS
<1>2. Ack(e).type = "ACK" /\ Ack(e).epoch = e
  BY Zenon DEF Ack
<1> HIDE DEF t, n
<1>3. \A i \in DOMAIN t : i = n \/ n > i
  BY <1>1
<1>4. Cites(t, e)
  BY Zenon, <1>1, <1>2, <1>3 DEF Cites
<1> QED BY Zenon, <1>1, <1>2, <1>4 DEF NoAck, t

\* A connection that was just accepted holds its HELLO only.
LEMMA CitesHello ==
    ASSUME NEW n, NEW e
    PROVE  Cites(<<Hello(n)>>, e) /\ NoAck(<<Hello(n)>>)
BY DEF Cites, NoAck, Hello

\* Issuing a policy keeps the evidence: it is issued before it is on its way.
LEMMA EvidenceIssue ==
    ASSUME TypeOK, Evidence, NEW p \in Policy, NEW e, Issue(p, e),
           UNCHANGED <<held, active>>
    PROVE  Evidence'
<1>1. blob' = p /\ issued' = issued \cup {p}
  BY Zenon DEF Issue
<1>2. ASSUME NEW a \in Agents, NEW i \in DOMAIN inbox'[a] PROVE inbox'[a][i] \in issued'
  <2>1. inbox[a] \in Seq(Policy)
    BY Zenon DEF TypeOK
  <2>2. inbox'[a] = inbox[a] \/ inbox'[a] = Append(inbox[a], p)
    BY Zenon DEF Issue, push_policy
  <2>3. CASE inbox'[a] = Append(inbox[a], p)
    <3>1. (i \in DOMAIN inbox[a] /\ inbox'[a][i] = inbox[a][i]) \/ inbox'[a][i] = p
      BY <1>2, <2>1, <2>3
    <3> QED BY Zenon, <1>1, <3>1 DEF Evidence
  <2>4. CASE inbox'[a] = inbox[a]
    BY Zenon, <1>1, <1>2, <2>4 DEF Evidence
  <2> QED BY Zenon, <2>2, <2>3, <2>4
<1> QED BY Zenon, <1>1, <1>2 DEF Evidence

\* A handler of the daemon that leaves the connections' frames and epochs alone.
LEMMA RowsStay ==
    ASSUME Rows, UNCHANGED <<conn, held>>
    PROVE  Rows'
BY Zenon DEF Rows, Row

\* A HELLO clears the row before it sends the current policy, which was issued.
LEMMA HelloEvidence ==
    ASSUME IInv, Evidence, Rows, NEW s \in Slots, ReadAgent(s), HandleHello(s)
    PROVE  Evidence' /\ Rows'
<1> USE DEF IInv
<1> DEFINE c == conn[s]
<1>1. /\ UNCHANGED <<blob, issued, held, active>> /\ c.agent \in Agents
      /\ c \in Conn /\ c.rx \in Seq(Frame) /\ c.rx # <<>>
  BY Zenon DEF ReadAgent, TypeOK, Conn, daemonVars, agentVars
<1>2. /\ \A t \in Slots : t # s => conn'[t] = conn[t]
      /\ conn'[s].agent = c.agent /\ conn'[s].open = c.open /\ conn'[s].acked = 0
      /\ conn'[s].helloed = TRUE /\ conn'[s].rx = Tail(c.rx)
  BY Zenon, <1>1 DEF HandleHello, TypeOK, Conn
<1>3. ASSUME NEW a \in Agents
      PROVE  \/ inbox'[a] = inbox[a]
             \/ blob # NoPolicy /\ inbox'[a] = Append(inbox[a], blob)
  BY Zenon, <1>1 DEF HandleHello, TypeOK
<1>4. ASSUME NEW a \in Agents, NEW i \in DOMAIN inbox'[a] PROVE inbox'[a][i] \in issued
  <2>1. inbox[a] \in Seq(Policy)
    BY Zenon DEF TypeOK
  <2>2. CASE blob # NoPolicy /\ inbox'[a] = Append(inbox[a], blob)
    <3>1. (i \in DOMAIN inbox[a] /\ inbox'[a][i] = inbox[a][i]) \/ inbox'[a][i] = blob
      BY <1>4, <2>1, <2>2
    <3> QED BY Zenon, <2>2, <3>1 DEF Evidence
  <2>3. CASE inbox'[a] = inbox[a]
    BY Zenon, <1>4, <2>3 DEF Evidence
  <2> QED BY Zenon, <1>3, <2>2, <2>3
<1>5. Evidence'
  BY Zenon, <1>1, <1>4 DEF Evidence
<1>6. ASSUME NEW t \in Slots, t # s PROVE Row(t)'
  BY Zenon, <1>1, <1>2, <1>6 DEF Rows, Row
<1>7. Row(s)'
  <2>1. c.open => Cites(c.rx, held[c.agent])
    BY Zenon DEF Rows, Row
  <2>2. c.open => Cites(Tail(c.rx), held[c.agent])
    BY Zenon, <1>1, <2>1, CitesTail
  <2> HIDE DEF c
  <2> QED BY Zenon, <1>1, <1>2, <2>2 DEF Row
<1> QED BY Zenon, <1>5, <1>6, <1>7 DEF Rows

\* A refused HELLO leaves the row, and the frames after it, as they are.
LEMMA RefuseEvidence ==
    ASSUME IInv, Evidence, Rows, NEW s \in Slots, ReadAgent(s), RefuseHello(s)
    PROVE  Evidence' /\ Rows'
<1> USE DEF IInv
<1> DEFINE c == conn[s]
<1>1. /\ UNCHANGED <<blob, issued, held, active, inbox>> /\ c \in Conn
      /\ c.rx \in Seq(Frame) /\ c.rx # <<>> /\ Head(c.rx).type # "ACK"
  BY Zenon DEF ReadAgent, RefuseHello, TypeOK, Conn, daemonVars, agentVars
<1>2. /\ \A t \in Slots : t # s => conn'[t] = conn[t]
      /\ conn'[s].agent = c.agent /\ conn'[s].open = c.open
      /\ conn'[s].helloed = c.helloed /\ conn'[s].rx = Tail(c.rx)
      /\ conn'[s].acked = c.acked
  BY Zenon, <1>1 DEF RefuseHello, TypeOK, Conn
<1>3. Evidence'
  BY Zenon, <1>1 DEF Evidence
<1>4. ASSUME NEW t \in Slots, t # s PROVE Row(t)'
  BY Zenon, <1>1, <1>2, <1>4 DEF Rows, Row
<1>5. Row(s)'
  <2>1. Row(s)
    BY Zenon DEF Rows
  <2>2. c.open => /\ Cites(Tail(c.rx), held[c.agent])
                  /\ NoAck(Tail(c.rx)) => NoAck(c.rx)
    BY Zenon, <1>1, <2>1, CitesTail DEF Row
  <2> QED BY Zenon, <1>1, <1>2, <2>1, <2>2 DEF Row
<1> QED BY Zenon, <1>3, <1>4, <1>5 DEF Rows

\* The row takes what the ACK cites; the last one read cites what is held.
LEMMA AckEvidence ==
    ASSUME IInv, Evidence, Rows, NEW s \in Slots, ReadAgent(s), HandleAck(s)
    PROVE  Evidence' /\ Rows'
<1> USE DEF IInv
<1> DEFINE c == conn[s]
<1>1. /\ UNCHANGED <<blob, issued, held, active, inbox>> /\ c \in Conn
      /\ c.rx \in Seq(Frame) /\ c.rx # <<>> /\ Head(c.rx).type = "ACK"
  BY Zenon DEF ReadAgent, HandleAck, TypeOK, Conn, daemonVars, agentVars
<1>2. /\ \A t \in Slots : t # s => conn'[t] = conn[t]
      /\ conn'[s].agent = c.agent /\ conn'[s].open = c.open
      /\ conn'[s].helloed = c.helloed /\ conn'[s].rx = Tail(c.rx)
      /\ conn'[s].acked = IF c.helloed THEN Head(c.rx).epoch ELSE c.acked
  BY Zenon, <1>1 DEF HandleAck, TypeOK, Conn
<1>3. Evidence'
  BY Zenon, <1>1 DEF Evidence
<1>4. ASSUME NEW t \in Slots, t # s PROVE Row(t)'
  BY Zenon, <1>1, <1>2, <1>4 DEF Rows, Row
<1>5. Row(s)'
  <2>1. c.open => Cites(c.rx, held[c.agent]) /\ (~c.helloed => c.acked = 0)
    BY Zenon DEF Rows, Row
  <2>2. c.open => /\ Cites(Tail(c.rx), held[c.agent])
                  /\ NoAck(Tail(c.rx)) => Head(c.rx).epoch = held[c.agent]
    BY Zenon, <1>1, <2>1, CitesTail
  <2> HIDE DEF c
  <2> QED BY Zenon, <1>1, <1>2, <2>1, <2>2 DEF Row
<1> QED BY <1>3, <1>4, <1>5 DEF Rows

\* retrace_agent_policy_apply and send_policy_ack: what is held and what is in
\* force change together, and the ACK that says so is the last of the connection.
LEMMA PolicyEvidence ==
    ASSUME IInv, Evidence, Rows, NEW a \in Agents, inbox[a] # <<>>, HandlePolicy(a),
           UNCHANGED <<blob, issued>>
    PROVE  Evidence' /\ Rows'
<1> USE DEF IInv
<1> DEFINE p == Head(inbox[a])
           takes == Verdict(a, p) = "apply"
<1>1. PICK e \in Nat : e = IF takes THEN p.epoch ELSE held[a]
  <2>1. inbox[a] \in Seq(Policy)
    BY Zenon DEF TypeOK
  <2>2. p \in Policy
    BY <2>1
  <2> QED BY Zenon, <2>2 DEF TypeOK, Policy
<1>2. /\ held' = [held EXCEPT ![a] = e] /\ SendAck(a, e) /\ UNCHANGED sock
      /\ active' = [active EXCEPT ![a] = IF takes THEN p.body ELSE @]
      /\ inbox' = [inbox EXCEPT ![a] = Tail(@)]
  BY Zenon, <1>1 DEF HandlePolicy
<1>3. /\ inbox[a] \in Seq(Policy) /\ p \in issued
      /\ \A i \in DOMAIN Tail(inbox[a]) : Tail(inbox[a])[i] \in issued
  <2>1. inbox[a] \in Seq(Policy)
    BY Zenon DEF TypeOK
  <2>2. 1 \in DOMAIN inbox[a] /\ p = inbox[a][1]
    BY <2>1
  <2>3. \A i \in DOMAIN Tail(inbox[a]) : i + 1 \in DOMAIN inbox[a]
                                         /\ Tail(inbox[a])[i] = inbox[a][i + 1]
    BY <2>1
  <2> QED BY Zenon, <2>1, <2>2, <2>3 DEF Evidence
<1> HIDE DEF p, takes
<1>4. /\ held'[a] = e /\ active'[a] = IF takes THEN p.body ELSE active[a]
      /\ inbox'[a] = Tail(inbox[a])
      /\ \A b \in Agents : b # a => /\ held'[b] = held[b] /\ active'[b] = active[b]
                                    /\ inbox'[b] = inbox[b]
  BY Zenon, <1>2 DEF TypeOK
<1>5. Evidence'
  <2>1. \A b \in Agents : \A i \in DOMAIN inbox'[b] : inbox'[b][i] \in issued
    BY Zenon, <1>3, <1>4 DEF Evidence
  <2>2. ASSUME NEW b \in Agents, held'[b] # 0
        PROVE  \E q \in issued : q.epoch = held'[b] /\ q.body = active'[b]
    <3>1. CASE b = a /\ takes
      BY Zenon, <3>1, <1>1, <1>3, <1>4
    <3>2. CASE b # a \/ ~takes
      BY <3>2, <2>2, <1>1, <1>4 DEF Evidence
    <3> QED BY Zenon, <3>1, <3>2
  <2> QED BY Zenon, <2>1, <2>2 DEF Evidence
<1>6. ASSUME NEW s \in Slots PROVE Row(s)'
  <2>1. /\ conn[s] \in Conn /\ conn[s].rx \in Seq(Frame)
        /\ conn'[s].agent = conn[s].agent /\ conn'[s].open = conn[s].open
        /\ conn'[s].helloed = conn[s].helloed /\ conn'[s].acked = conn[s].acked
        /\ conn'[s].rx = IF sock[a] = s THEN Append(conn[s].rx, Ack(e)) ELSE conn[s].rx
    BY SMTT(30), <1>2 DEF SendAck, TypeOK, Conn
  <2>2. CASE sock[a] = s
    <3>1. conn[s].agent = a
      BY Zenon, <2>2 DEF Paired
    <3>2. Cites(conn'[s].rx, e) /\ ~NoAck(conn'[s].rx)
      BY Zenon, <2>1, <2>2, CitesAppend
    <3>3. conn[s].open /\ ~conn[s].helloed => conn[s].acked = 0
      BY Zenon DEF Rows, Row
    <3> QED BY Zenon, <2>1, <3>1, <3>2, <3>3, <1>4 DEF Row
  <2>3. CASE sock[a] # s
    <3>1. conn[s].open => conn[s].agent \in Agents /\ conn[s].agent # a
      BY Zenon, <2>3 DEF Paired
    <3>2. conn[s].open => held'[conn[s].agent] = held[conn[s].agent]
      BY Zenon, <3>1, <1>4
    <3>3. Row(s)
      BY Zenon DEF Rows
    <3> QED BY Zenon, <2>1, <2>3, <3>2, <3>3 DEF Row
  <2> QED BY Zenon, <2>2, <2>3
<1> QED BY Zenon, <1>5, <1>6 DEF Rows

\* A connection that is closed is no evidence any more.
LEMMA HangupEvidence ==
    ASSUME IInv, Evidence, Rows, NEW a \in Agents, Hangup(a),
           UNCHANGED <<blob, issued, held, active>>
    PROVE  Evidence' /\ Rows'
<1> USE DEF IInv
<1>1. \A s \in Slots : /\ conn'[s].agent = conn[s].agent /\ conn'[s].rx = conn[s].rx
                       /\ conn'[s].helloed = conn[s].helloed
                       /\ conn'[s].acked = conn[s].acked
                       /\ conn'[s].open => conn[s].open
  BY DEF Hangup, TypeOK, Conn
<1>2. \A b \in Agents : inbox'[b] = inbox[b] \/ inbox'[b] = <<>>
  BY Zenon DEF Hangup, TypeOK
<1>3. Evidence'
  BY <1>2 DEF Evidence
<1>4. Rows'
  BY Zenon, <1>1 DEF Rows, Row
<1> QED BY Zenon, <1>3, <1>4

\* A process that comes into being has no connection yet; a forked one has the
\* image of its parent, epoch and configuration together.
LEMMA BirthEvidence ==
    ASSUME IInv, Evidence, Rows, NEW c \in Agents, c \notin born,
           UNCHANGED <<blob, issued, conn, inbox>>,
           \/ UNCHANGED <<held, active>>
           \/ \E p \in Agents : /\ held' = [held EXCEPT ![c] = held[p]]
                                /\ active' = [active EXCEPT ![c] = active[p]]
    PROVE  Evidence' /\ Rows'
<1> USE DEF IInv
<1>1. CASE UNCHANGED <<held, active>>
  BY Zenon, <1>1 DEF Evidence, Rows, Row
<1>2. ASSUME NEW p \in Agents, held' = [held EXCEPT ![c] = held[p]],
             active' = [active EXCEPT ![c] = active[p]]
      PROVE  Evidence' /\ Rows'
  <2>1. \A b \in Agents : /\ held'[b] = IF b = c THEN held[p] ELSE held[b]
                          /\ active'[b] = IF b = c THEN active[p] ELSE active[b]
    BY Zenon, <1>2 DEF TypeOK
  <2>2. Evidence'
    BY <2>1 DEF Evidence
  <2>3. \A s \in Slots : conn[s].open => conn[s].agent \in Agents /\ conn[s].agent # c
    BY NamesAssumption DEF Paired
  <2>4. ASSUME NEW s \in Slots PROVE Row(s)'
    <3>1. conn[s].open => held'[conn[s].agent] = held[conn[s].agent]
      BY Zenon, <2>1, <2>3
    <3>2. Row(s)
      BY Zenon DEF Rows
    <3> QED BY Zenon, <3>1, <3>2 DEF Row
  <2> QED BY Zenon, <2>2, <2>4 DEF Rows
<1> QED BY Zenon, <1>1, <1>2

\* Every step keeps the evidence and the rows.
LEMMA EvidenceStep == IInv /\ Evidence /\ Rows /\ [Next]_vars => Evidence' /\ Rows'
<1> SUFFICES ASSUME IInv, Evidence, Rows, [Next]_vars PROVE Evidence' /\ Rows'
  BY Zenon
<1> USE DEF IInv
<1>1. CASE verb_policy_push \/ verb_freeze \/ verb_thaw
  <2>1. PICK p \in Policy, e \in Nat : Issue(p, e)
    BY Zenon, <1>1, VerbIssues
  <2>2. UNCHANGED <<conn, held, active>>
    BY Zenon, <1>1, VerbIssues DEF Verb, agentVars
  <2> QED BY Zenon, <2>1, <2>2, EvidenceIssue, RowsStay
<1>2. ASSUME NEW s \in Slots, ReadAgent(s) PROVE Evidence' /\ Rows'
  BY Zenon, <1>2, HelloEvidence, RefuseEvidence, AckEvidence DEF ReadAgent
<1>3. ASSUME NEW s \in Slots, ReadEof(s) PROVE Evidence' /\ Rows'
  <2>1. UNCHANGED <<blob, issued, held, active, inbox>>
    BY Zenon, <1>3 DEF ReadEof, daemonVars, agentVars
  <2>2. ~conn'[s].open /\ \A t \in Slots : t # s => conn'[t] = conn[t]
    BY Zenon, <1>3 DEF ReadEof, Free, TypeOK
  <2> QED BY <2>1, <2>2 DEF Evidence, Rows, Row
<1>4. ASSUME NEW a \in Agents, Accept(a) PROVE Evidence' /\ Rows'
  <2>1. UNCHANGED <<blob, issued, held, active, inbox>>
    BY Zenon, <1>4 DEF Accept, daemonVars, agentVars
  <2>2. Evidence'
    BY Zenon, <2>1 DEF Evidence
  <2>3. CASE \E s \in Slots : conn[s].agent = "none"
    <3>1. PICK s \in Slots : conn' = [conn EXCEPT ![s] = Opened(a, Hello(envNonce[a]))]
      BY Zenon, <1>4, <2>3 DEF Accept
    <3>2. /\ conn'[s].agent = a /\ conn'[s].acked = 0
          /\ conn'[s].rx = <<Hello(envNonce[a])>>
          /\ \A t \in Slots : t # s => conn'[t] = conn[t]
      BY Zenon, <3>1 DEF TypeOK, Opened
    <3>3. Row(s)'
      BY Zenon, <3>2, CitesHello DEF Row
    <3>4. ASSUME NEW t \in Slots, t # s PROVE Row(t)'
      BY Zenon, <2>1, <3>2, <3>4 DEF Rows, Row
    <3> QED BY Zenon, <2>2, <3>3, <3>4 DEF Rows
  <2>4. CASE ~ \E s \in Slots : conn[s].agent = "none"
    BY Zenon, <1>4, <2>1, <2>2, <2>4, RowsStay DEF Accept
  <2> QED BY Zenon, <2>3, <2>4
<1>5. ASSUME UNCHANGED <<blob, issued, held, active, inbox, conn>>
      PROVE  Evidence' /\ Rows'
  BY Zenon, <1>5, RowsStay DEF Evidence
<1>6. ASSUME NEW a \in Agents, Connect(a) \/ AgentEof(a) PROVE Evidence' /\ Rows'
  BY Zenon, <1>5, <1>6 DEF Connect, AgentEof, daemonVars, agentVars
<1>7. ASSUME NEW a \in Agents, AgentRead(a) PROVE Evidence' /\ Rows'
  <2>1. inbox[a] # <<>> /\ UNCHANGED <<blob, issued>>
    BY Zenon, <1>7 DEF AgentRead, daemonVars
  <2>2. HandlePolicy(a) \/ (Hangup(a) /\ UNCHANGED <<held, active>>)
    BY Zenon, <1>7 DEF AgentRead
  <2> QED BY Zenon, <2>1, <2>2, PolicyEvidence, HangupEvidence
<1>8. ASSUME NEW a \in Agents, AgentDrops(a) PROVE Evidence' /\ Rows'
  BY Zenon, <1>8, HangupEvidence DEF AgentDrops, daemonVars, agentVars
<1>9. ASSUME NEW a \in Agents, Start(a) PROVE Evidence' /\ Rows'
  BY Zenon, <1>9, BirthEvidence DEF Start, daemonVars
<1>10. ASSUME NEW p \in Agents, NEW c \in Agents, Fork(p, c) PROVE Evidence' /\ Rows'
  BY Zenon, <1>10, BirthEvidence DEF Fork, daemonVars
<1>11. CASE DaemonStops
  <2>1. UNCHANGED <<blob, issued, held, active, inbox>>
        /\ \A s \in Slots : ~conn'[s].open
    BY Zenon, <1>11 DEF DaemonStops, Free, daemonVars, agentVars
  <2> QED BY Zenon, <2>1 DEF Evidence, Rows, Row
<1>12. CASE DaemonStarts
  <2>1. /\ UNCHANGED <<held, active, inbox, conn>> /\ issued \subseteq issued'
        /\ blob' # NoPolicy => blob' \in issued'
    BY Zenon, <1>12 DEF DaemonStarts, agentVars
  <2> QED BY Zenon, <2>1, RowsStay DEF Evidence
<1>13. CASE Expire \/ (\E a \in Agents : Kick(a)) \/ UNCHANGED vars
  BY Zenon, <1>5, <1>13 DEF Expire, Kick, vars, daemonVars, agentVars
<1> QED BY Zenon, <1>1, <1>2, <1>3, <1>4, <1>6, <1>7, <1>8, <1>9, <1>10, <1>11, <1>12,
           <1>13 DEF Next

\* The first state: what is current was issued, nothing is held.
LEMMA EvidenceInit == Init => Evidence /\ Rows
<1> SUFFICES ASSUME Init PROVE Evidence /\ Rows
  BY Zenon
<1>1. Evidence
  BY DEF Init, Evidence
<1>2. Rows
  BY Zenon DEF Init, Rows, Row, Free
<1> QED BY Zenon, <1>1, <1>2

\* AckMeansInForce: when the ACKs of a live connection have been read and the
\* row cites the epoch of the current policy, the process runs its scripts,
\* provided no epoch was issued with two meanings.
THEOREM AckIsEvidence == Spec => []AckMeansInForce
<1>1. IInv /\ Evidence /\ Rows => AckMeansInForce
  <2> SUFFICES ASSUME IInv, Evidence, Rows, OneMeaning, NEW s \in Slots,
                      blob # NoPolicy, conn[s].open, NoAck(conn[s].rx),
                      conn[s].acked = blob.epoch
               PROVE  active[conn[s].agent] = blob.body
    BY Zenon DEF AckMeansInForce, NoAck
  <2>1. blob \in issued /\ blob.epoch # 0
    BY Zenon DEF Evidence, IInv, TypeOK, Policy
  <2>2. held[conn[s].agent] = blob.epoch /\ conn[s].agent \in Agents
    BY Zenon, <2>1 DEF Rows, Row, IInv, Paired
  <2> QED BY <2>1, <2>2 DEF Evidence, OneMeaning
<1> QED BY <1>1, IInvInit, IInvStep, EvidenceInit, EvidenceStep, PTL DEF Spec
=============================================================================
