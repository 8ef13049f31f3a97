----------------------------- MODULE AgentProofs -----------------------------
(***************************************************************************)
(* What holds of the agent's ring for every set of threads, every capacity *)
(* and every bound: the events of a thread arrive once and in order, and   *)
(* none is lost uncounted.                                                 *)
(***************************************************************************)
EXTENDS Agent, FiniteSetTheorems, TLAPS

Item == [kind : {"event", "marker"}, seq : Nat, by : Threads \cup {"agent"}, total : Nat]

Place == {"idle", "push", "adopt", "create", "kick", "kickCreate", "gone", "stuck"}

(* The types the proofs use.                                               *)
Types ==
    /\ tpc \in [Threads -> Place] /\ item \in [Threads -> Nat]
    /\ ring \in Seq(Item) /\ sent \in Seq(Item)
    /\ {seq, dropped, seen, pushed, lost} \subseteq Nat
    /\ spawned \in BOOLEAN

-----------------------------------------------------------------------------
(* One agent thread.                                                       *)

\* A thread that won the CAS and has not created the agent thread yet.
Creating(t) == tpc[t] \in {"create", "kickCreate"}

\* The flag stands for the agent thread or for its one creator; the thread runs
\* in the process that recorded itself, and sends only what it has looked at.
OneAgent ==
    /\ apc # "none" => spawned /\ spawner = pid
    /\ \A t \in Threads : Creating(t) => spawned /\ apc = "none"
    /\ \A t, u \in Threads : Creating(t) /\ Creating(u) => t = u
    /\ apc \in {"send", "pop"} => ring # <<>>

-----------------------------------------------------------------------------
(* The order of a thread's events.                                         *)

\* m is an event, and if n is by the same thread, n is a later one.
Precedes(m, n) == m.kind = "event" /\ m.by = n.by => m.seq < n.seq
Ordered(q) == \A i, j \in DOMAIN q : i < j => Precedes(q[i], q[j])

\* What was sent precedes what is still to be sent: the ring, without its head
\* when that is already sent.
Ahead == \A i \in DOMAIN sent, j \in DOMAIN ring :
             (apc = "pop" => j > 1) => Precedes(sent[i], ring[j])

\* Only threads of the target send events, and the numbers they have taken are
\* above those of every event of theirs that was queued.
Old(m, s, tp, it) ==
    /\ m.seq <= s
    /\ m.kind = "event" => m.by \in Threads
    /\ \A t \in Threads : tp[t] = "push" /\ m.by = t => m.seq < it[t]
Older(q, s, tp, it) == \A i \in DOMAIN q : Old(q[i], s, tp, it)
Numbered ==
    /\ Older(sent, seq, tpc, item) /\ Older(ring, seq, tpc, item)
    /\ \A t \in Threads : item[t] <= seq

InOrder == Ordered(sent) /\ Ordered(ring) /\ Ahead /\ Numbered

IInv == Types /\ OneAgent /\ InOrder /\ LossCounted

-----------------------------------------------------------------------------
(* Queues.                                                                 *)

\* What m adds to the number of events.
One(m) == IF m.kind = "event" THEN 1 ELSE 0
Count(q) == Cardinality(Events(q))

(* A queue that holds something has a length above zero.                    *)
LEMMA NotEmpty == ASSUME NEW S, NEW q \in Seq(S), q # <<>> PROVE Len(q) \in Nat \ {0}
OBVIOUS

(* The events of a queue are counted by a number; none in an empty one.     *)
LEMMA CountType == ASSUME NEW q \in Seq(Item)
                   PROVE  IsFiniteSet(Events(q)) /\ Count(q) \in Nat
<1>1. IsFiniteSet(1 .. Len(q)) BY FS_Interval
<1>2. Events(q) \subseteq 1 .. Len(q) BY DEF Events
<1>3. IsFiniteSet(Events(q)) BY Zenon, <1>1, <1>2, FS_Subset
<1> QED BY Zenon, <1>3, FS_CardinalityType DEF Count

(* An empty ring holds no event.                                            *)
LEMMA CountEmpty == Count(<<>>) = 0
<1>1. Events(<<>>) = {} BY DEF Events
<1> QED BY Zenon, <1>1, FS_EmptySet DEF Count

(* agent_ring_push adds one item at the end.                                *)
LEMMA CountAppend ==
    ASSUME NEW q \in Seq(Item), NEW m \in Item
    PROVE  Count(Append(q, m)) = Count(q) + One(m)
<1>1. IsFiniteSet(Events(q)) /\ Count(q) \in Nat BY Zenon, CountType
<1>2. CASE m.kind = "event"
  <2>1. Events(Append(q, m)) = Events(q) \cup {Len(q) + 1} BY <1>2 DEF Events
  <2>2. Len(q) + 1 \notin Events(q) BY DEF Events
  <2> QED BY Zenon, <1>1, <1>2, <2>1, <2>2, FS_AddElement DEF Count, One
<1>3. CASE m.kind # "event"
  <2>1. Events(Append(q, m)) = Events(q) BY <1>3 DEF Events
  <2> QED BY <1>1, <1>3, <2>1 DEF Count, One
<1> QED BY Zenon, <1>2, <1>3

(* agent_ring_pop gives the oldest item's place back.                       *)
LEMMA CountTail ==
    ASSUME NEW q \in Seq(Item), q # <<>>
    PROVE  Count(q) = Count(Tail(q)) + One(q[1])
<1>0. /\ Tail(q) \in Seq(Item) /\ Len(Tail(q)) = Len(q) - 1 /\ Len(q) \in Nat /\ Len(q) > 0
      /\ \A i \in 1 .. Len(q) - 1 : Tail(q)[i] = q[i + 1]
  BY NotEmpty
<1>1. /\ IsFiniteSet(Events(q)) /\ Count(q) \in Nat
      /\ IsFiniteSet(Events(Tail(q))) /\ Count(Tail(q)) \in Nat
  BY Zenon, <1>0, CountType
<1>2. PICK f : f = [i \in Events(Tail(q)) |-> i + 1] BY Zenon
<1>3. \A i \in Nat : i \in Events(Tail(q)) <=> i # 0 /\ i + 1 \in Events(q)
  BY <1>0 DEF Events
<1>4. Events(Tail(q)) \subseteq Nat /\ Events(q) \subseteq Nat \ {0}
  BY <1>0 DEF Events
<1>5. f \in [Events(Tail(q)) -> Events(q) \ {1}] BY <1>2, <1>3, <1>4
<1>6. f \in Injection(Events(Tail(q)), Events(q) \ {1})
  <2>1. \A i, j \in Events(Tail(q)) : f[i] = f[j] => i = j BY <1>2, <1>4
  <2> QED BY Zenon, <1>5, <2>1 DEF Injection, IsInjective
<1>7. f \in Surjection(Events(Tail(q)), Events(q) \ {1})
  <2>1. ASSUME NEW k \in Events(q) \ {1} PROVE \E i \in Events(Tail(q)) : f[i] = k
    <3>1. k - 1 \in Nat /\ k - 1 # 0 /\ (k - 1) + 1 = k BY <1>4
    <3>2. k - 1 \in Events(Tail(q)) BY Zenon, <1>3, <3>1
    <3> QED BY Zenon, <1>2, <3>1, <3>2
  <2> QED BY Zenon, <1>5, <2>1 DEF Surjection
<1>8. ExistsBijection(Events(Tail(q)), Events(q) \ {1})
  BY Zenon, <1>6, <1>7 DEF ExistsBijection, Bijection
<1>9. Cardinality(Events(q) \ {1}) = Count(Tail(q)) BY Zenon, <1>1, <1>8, FS_Bijection DEF Count
<1>10. 1 \in Events(q) <=> q[1].kind = "event" BY <1>0 DEF Events
<1>11. Cardinality(Events(q) \ {1}) = IF 1 \in Events(q) THEN Count(q) - 1 ELSE Count(q)
  BY Zenon, <1>1, FS_RemoveElement DEF Count
<1> QED BY <1>1, <1>9, <1>10, <1>11 DEF One

\* q2 is q with m at its end, or q.
Joins(q, q2, m) == q2 = q \/ q2 = Append(q, m)

(* agent_ring_push keeps the oldest item, and either queues or counts.      *)
LEMMA PushIs ==
    ASSUME Types, NEW m \in Item, Push(m)
    PROVE  /\ ring' \in Seq(Item) /\ dropped' \in Nat
           /\ Joins(ring, ring', m)
           /\ Count(ring') + dropped' >= Count(ring) + dropped + One(m)
<1>1. ring \in Seq(Item) /\ dropped \in Nat BY Zenon DEF Types
<1>2. Count(ring) \in Nat /\ One(m) \in {0, 1} BY Zenon, <1>1, CountType DEF One
<1>3. CASE Len(ring) >= Cap
  <2>1. dropped' = dropped + 1 /\ ring' = ring BY Zenon, <1>3 DEF Push
  <2> QED BY <1>1, <1>2, <2>1 DEF Joins
<1>4. CASE ~(Len(ring) >= Cap)
  <2>1. dropped' = dropped /\ ring' = Append(ring, m) BY Zenon, <1>4 DEF Push
  <2>2. Count(ring') = Count(ring) + One(m) BY Zenon, <1>1, <2>1, CountAppend
  <2>3. ring' \in Seq(Item) BY <1>1, <2>1
  <2> QED BY <1>1, <1>2, <2>1, <2>2, <2>3 DEF Joins
<1> QED BY Zenon, <1>3, <1>4

-----------------------------------------------------------------------------
(* The steps, one invariant at a time.                                      *)

(* Every step keeps the types.                                             *)
LEMMA TypesStep ==
    ASSUME IInv, [Next]_vars
    PROVE  Types'
<1>1. Types /\ OneAgent BY Zenon DEF IInv
<1>2. /\ tpc \in [Threads -> Place] /\ item \in [Threads -> Nat]
      /\ ring \in Seq(Item) /\ sent \in Seq(Item)
      /\ seq \in Nat /\ dropped \in Nat /\ seen \in Nat /\ pushed \in Nat /\ lost \in Nat
      /\ spawned \in BOOLEAN
  BY Zenon, <1>1 DEF Types
<1>2a. <<>> \in Seq(Item) OBVIOUS
<1>3. ASSUME NEW t \in Threads, NEW h, NEW th \in Place, At(t, h, th)
      PROVE  tpc' \in [Threads -> Place]
  BY Zenon, <1>2, <1>3 DEF At
<1>4. CASE UNCHANGED vars
  BY Zenon, <1>1, <1>4 DEF vars, queueVars, spawnVars, agentThread, history, Types
<1>5. ASSUME NEW t \in Threads, EmitFormats(t) PROVE Types'
  <2>1. tpc' \in [Threads -> Place] BY Zenon, <1>2, <1>3, <1>5 DEF EmitFormats, Place
  <2>2. seq' \in Nat BY <1>2, <1>5 DEF EmitFormats
  <2>3. item' \in [Threads -> Nat] BY Zenon, <1>2, <1>5, <2>2 DEF EmitFormats
  <2> QED BY Zenon, <1>2, <1>5, <2>1, <2>2, <2>3
      DEF EmitFormats, Types, queueVars, spawnVars, history
<1>6. ASSUME NEW t \in Threads, EmitPushes(t) PROVE Types'
  <2>1. tpc' \in [Threads -> Place] BY Zenon, <1>2, <1>3, <1>6 DEF EmitPushes, Place
  <2>2. item' \in [Threads -> Nat] BY Zenon, <1>2, <1>6 DEF EmitPushes
  <2>3. Event(item[t], t) \in Item BY Zenon, <1>2 DEF Event, Item
  <2>4. ring' \in Seq(Item) /\ dropped' \in Nat BY Zenon, <1>1, <1>6, <2>3, PushIs DEF EmitPushes
  <2> QED BY <1>2, <1>6, <2>1, <2>2, <2>4 DEF EmitPushes, Types, spawnVars
<1>7. ASSUME NEW t \in Threads, EmitAdopts(t) PROVE Types'
  <2>1. tpc' \in [Threads -> Place] BY Zenon, <1>2, <1>3, <1>7 DEF EmitAdopts, Place
  <2>2. ring' = <<>> \/ ring' = ring BY Zenon, <1>7 DEF EmitAdopts
  <2>3. ring' \in Seq(Item) BY Zenon, <1>2, <1>2a, <2>2
  <2>4. Count(ring) \in Nat /\ (Count(ring') = 0 \/ Count(ring') = Count(ring))
    BY Zenon, <1>2, <2>2, CountType, CountEmpty
  <2>5. lost' = lost + Count(ring) - Count(ring') BY Zenon, <1>7 DEF EmitAdopts, Count
  <2>6. lost' \in Nat BY <1>2, <2>4, <2>5
  <2> QED BY Zenon, <1>2, <1>7, <2>1, <2>3, <2>6 DEF EmitAdopts, Types
<1>8. ASSUME NEW t \in Threads, EmitSpawns(t) PROVE Types'
  <2>1. tpc' \in [Threads -> Place]
    BY Zenon, <1>2, <1>3, <1>8 DEF EmitSpawns, Wins, Creates, Place
  <2>2. spawned' \in BOOLEAN BY Zenon, <1>2, <1>8 DEF EmitSpawns, Wins, Creates
  <2> QED BY Zenon, <1>2, <1>8, <2>1, <2>2 DEF EmitSpawns, Types, queueVars, history
<1>9. ASSUME NEW t \in Threads, KickChecks(t) PROVE Types'
  <2>1. tpc' \in [Threads -> Place] BY Zenon, <1>2, <1>3, <1>9 DEF KickChecks, Place
  <2> QED BY Zenon, <1>2, <1>9, <2>1 DEF KickChecks, Types, queueVars, history
<1>10. ASSUME NEW t \in Threads, KickRegisters(t) PROVE Types'
  <2>1. tpc' \in [Threads -> Place]
    BY Zenon, <1>2, <1>3, <1>10 DEF KickRegisters, Wins, Place
  <2>2. spawned' \in BOOLEAN BY Zenon, <1>10 DEF KickRegisters, Wins
  <2> QED BY Zenon, <1>2, <1>10, <2>1, <2>2 DEF KickRegisters, Types, queueVars, history
<1>11. ASSUME NEW t \in Threads, KickSpawns(t) PROVE Types'
  <2>1. tpc' \in [Threads -> Place]
    BY Zenon, <1>2, <1>3, <1>11 DEF KickSpawns, Creates, Place
  <2>2. spawned' \in BOOLEAN BY Zenon, <1>2, <1>11 DEF KickSpawns, Creates
  <2> QED BY Zenon, <1>2, <1>11, <2>1, <2>2 DEF KickSpawns, Types, queueVars, history
<1>12. ASSUME NEW t \in Threads, ForkPlain(t) \/ ForkHandled(t) PROVE Types'
  <2>1. Child(t) /\ ring' \in Seq(Item) /\ spawned' \in BOOLEAN
    BY Zenon, <1>2, <1>2a, <1>12 DEF ForkPlain, ForkHandled
  <2>2. tpc' \in [Threads -> Place] /\ item' \in [Threads -> Nat]
    BY Zenon, <2>1 DEF Child, Place
  <2> QED BY <1>2, <2>1, <2>2 DEF Child, Types
<1>13. ASSUME NEW t \in Threads, ForkStuck(t) PROVE Types'
  <2>1. tpc' \in [Threads -> Place] BY Zenon, <1>2, <1>3, <1>13 DEF ForkStuck, Place
  <2> QED BY Zenon, <1>2, <1>13, <2>1 DEF ForkStuck, Types, spawnVars, history
<1>14. CASE DrainMarks
  <2>1. Marker(seen) \in Item BY Zenon, <1>2 DEF Marker, Item
  <2>2. ring' \in Seq(Item) /\ dropped' \in Nat
    BY Zenon, <1>1, <1>2, <1>14, <2>1, PushIs DEF DrainMarks
  <2>3. seen' \in Nat BY Zenon, <1>2, <1>14 DEF DrainMarks
  <2> QED BY Zenon, <1>2, <1>14, <2>2, <2>3 DEF DrainMarks, KeepTarget, spawnVars, Types
<1>15. CASE DrainSends
  <2>1. ring # <<>> BY Zenon, <1>1, <1>15 DEF DrainSends, Step, OneAgent
  <2>2. PICK m \in Item : m = Head(ring) BY <1>2, <2>1
  <2>3. sent' = Append(sent, m) \/ sent' = sent BY Zenon, <1>15, <2>2 DEF DrainSends
  <2>4. Append(sent, m) \in Seq(Item) BY <1>2
  <2>5. sent' \in Seq(Item) BY Zenon, <1>2, <2>3, <2>4
  <2> QED BY Zenon, <1>2, <1>15, <2>5 DEF DrainSends, KeepTarget, queueVars, spawnVars, Types
<1>16. CASE DrainPops
  <2>1. ring # <<>> BY Zenon, <1>1, <1>16 DEF DrainPops, Step, OneAgent
  <2>2. ring' \in Seq(Item) BY <1>2, <1>16, <2>1 DEF DrainPops
  <2> QED BY Zenon, <1>2, <1>16, <2>2 DEF DrainPops, KeepTarget, spawnVars, Types
<1>17. CASE LoopTop \/ DrainPeeks \/ PollAndBeat \/ SendBye
  BY Zenon, <1>2, <1>17 DEF LoopTop, DrainPeeks, PollAndBeat, SendBye, KeepTarget, queueVars,
     spawnVars, Types
<1>18. CASE Deinit \/ DaemonDies \/ DaemonSticks \/ DaemonBack
  BY Zenon, <1>2, <1>18 DEF Deinit, DaemonDies, DaemonSticks, DaemonBack, queueVars, spawnVars,
     history, Types
<1>19. CASE DrainCounts \/ DrainReports
  <2>1. seen' \in Nat BY <1>2, <1>19 DEF DrainCounts, DrainReports
  <2> QED BY Zenon, <1>2, <1>19, <2>1 DEF DrainCounts, DrainReports, KeepTarget, spawnVars, Types
<1> QED
  BY Zenon, <1>4, <1>5, <1>6, <1>7, <1>8, <1>9, <1>10, <1>11, <1>12, <1>13, <1>14, <1>15,
     <1>16, <1>17, <1>18, <1>19
  DEF Next, EmitStep, AgentStep

(* There is one agent thread, or one thread about to create it: the CAS of  *)
(* spawn_agent_thread, fork_adopt and the atfork child agree.               *)
LEMMA OneAgentStep ==
    ASSUME IInv, [Next]_vars
    PROVE  OneAgent'
<1>1. Types /\ OneAgent BY DEF IInv
<1>2. tpc \in [Threads -> Place] /\ ring \in Seq(Item) /\ spawned \in BOOLEAN
  BY Zenon, <1>1 DEF Types
<1>3. CASE UNCHANGED vars
  BY Zenon, <1>1, <1>3 DEF vars, queueVars, spawnVars, agentThread, OneAgent, Creating
<1>4. ASSUME NEW t \in Threads,
             EmitFormats(t) \/ KickChecks(t) \/ ForkStuck(t) \/ EmitPushes(t)
      PROVE  OneAgent'
  <2>1. UNCHANGED <<apc, spawned, spawner, pid>>
    BY Zenon, <1>4 DEF EmitFormats, KickChecks, ForkStuck, EmitPushes, spawnVars, agentThread
  <2>2. \A u \in Threads : Creating(u)' => Creating(u)
    BY Zenon, <1>2, <1>4 DEF EmitFormats, KickChecks, ForkStuck, EmitPushes, At, Creating
  <2>3. ring # <<>> => ring' # <<>>
    BY <1>2, <1>4 DEF EmitFormats, KickChecks, ForkStuck, EmitPushes, Push, queueVars
  <2> QED BY Zenon, <1>1, <2>1, <2>2, <2>3 DEF OneAgent
<1>5. ASSUME NEW t \in Threads, EmitAdopts(t) PROVE OneAgent'
  <2>1. spawner # pid /\ UNCHANGED <<apc, spawned, pid>> BY Zenon, <1>5 DEF EmitAdopts
  <2>2. apc = "none" BY Zenon, <1>1, <2>1 DEF OneAgent
  <2>3. \A u \in Threads : Creating(u)' => Creating(u)
    BY Zenon, <1>2, <1>5 DEF EmitAdopts, At, Creating
  <2> QED BY Zenon, <1>1, <2>1, <2>2, <2>3 DEF OneAgent
<1>6. ASSUME NEW t \in Threads, NEW h, NEW c, Wins(t, h, c),
             UNCHANGED <<apc, spawner, pid, ring>>
      PROVE  OneAgent'
  <2>1. CASE spawned
    <3>1. \A u \in Threads : Creating(u)' => Creating(u)
      BY Zenon, <1>2, <1>6, <2>1 DEF Wins, At, Creating
    <3>2. spawned' BY Zenon, <1>6 DEF Wins
    <3> QED BY Zenon, <1>1, <1>6, <3>1, <3>2 DEF OneAgent
  <2>2. CASE ~spawned
    <3>1. apc = "none" /\ \A u \in Threads : ~Creating(u) BY Zenon, <1>1, <2>2 DEF OneAgent
    <3>2. \A u \in Threads : Creating(u)' => u = t
      BY Zenon, <1>2, <1>6, <2>2, <3>1 DEF Wins, At, Creating
    <3>3. spawned' BY <1>6 DEF Wins
    <3> QED BY Zenon, <1>6, <3>1, <3>2, <3>3 DEF OneAgent
  <2> QED BY Zenon, <2>1, <2>2
<1>7. ASSUME NEW t \in Threads, NEW h \in {"create", "kickCreate"}, Creates(t, h),
             UNCHANGED <<pid, ring>>
      PROVE  OneAgent'
  <2>1. Creating(t) BY Zenon, <1>7 DEF Creates, At, Creating
  <2>2. spawned /\ apc = "none" /\ \A u \in Threads : Creating(u) => u = t
    BY Zenon, <1>1, <2>1 DEF OneAgent
  <2>3. \A u \in Threads : ~Creating(u)'
    BY Zenon, <1>2, <1>7, <2>2 DEF Creates, At, Creating
  <2>4. spawner' = pid' /\ ((apc' = "loop" /\ spawned') \/ apc' = "none")
    BY Zenon, <1>7, <2>2 DEF Creates
  <2> QED BY Zenon, <2>3, <2>4 DEF OneAgent
<1>8. ASSUME NEW t \in Threads, EmitSpawns(t) \/ KickRegisters(t) \/ KickSpawns(t)
      PROVE  OneAgent'
  <2>1. UNCHANGED <<pid, ring>>
    BY Zenon, <1>8 DEF EmitSpawns, KickRegisters, KickSpawns, queueVars
  <2>2. \/ \E h, c : Wins(t, h, c) /\ UNCHANGED <<apc, spawner>>
        \/ \E h \in {"create", "kickCreate"} : Creates(t, h)
    BY Zenon, <1>8 DEF EmitSpawns, KickRegisters, KickSpawns, agentThread
  <2> QED BY Zenon, <1>6, <1>7, <2>1, <2>2
<1>9. ASSUME NEW t \in Threads, ForkPlain(t) \/ ForkHandled(t) PROVE OneAgent'
  <2>1. Child(t) BY Zenon, <1>9 DEF ForkPlain, ForkHandled
  <2>2. apc' = "none" /\ \A u \in Threads : ~Creating(u)' BY Zenon, <2>1 DEF Child, Creating
  <2> QED BY Zenon, <2>2 DEF OneAgent
<1>10. CASE AgentStep
  <2>1. apc # "none" /\ apc' # "none" /\ UNCHANGED <<tpc, spawned, spawner, pid>>
    BY Zenon, <1>10 DEF AgentStep, LoopTop, DrainPeeks, DrainSends, DrainPops, DrainCounts,
       DrainMarks, DrainReports, PollAndBeat, SendBye, Step, KeepTarget, spawnVars
  <2>2. apc' \in {"send", "pop"} => ring' # <<>>
    BY Zenon, <1>1, <1>10 DEF AgentStep, LoopTop, DrainPeeks, DrainSends, DrainPops, DrainCounts,
       DrainMarks, DrainReports, PollAndBeat, SendBye, Step, queueVars, OneAgent
  <2>3. spawned /\ spawner = pid /\ \A u \in Threads : ~Creating(u)
    BY Zenon, <1>1, <2>1 DEF OneAgent
  <2> QED BY Zenon, <2>1, <2>2, <2>3 DEF OneAgent, Creating
<1>11. CASE Deinit \/ DaemonDies \/ DaemonSticks \/ DaemonBack
  BY Zenon, <1>1, <1>11 DEF Deinit, DaemonDies, DaemonSticks, DaemonBack, queueVars, spawnVars, agentThread,
     OneAgent, Creating
<1> QED BY Zenon, <1>3, <1>4, <1>5, <1>8, <1>9, <1>10, <1>11 DEF Next, EmitStep

(* An item that every event of its sender precedes joins in order.          *)
LEMMA JoinOrdered ==
    ASSUME NEW q \in Seq(Item), NEW m \in Item, NEW q2, Joins(q, q2, m), Ordered(q),
           \A i \in DOMAIN q : Precedes(q[i], m)
    PROVE  Ordered(q2)
<1>1. CASE q2 = q BY Zenon, <1>1
<1>2. CASE q2 = Append(q, m)
  <2>1. /\ DOMAIN q2 = 1 .. Len(q) + 1 /\ DOMAIN q = 1 .. Len(q) /\ Len(q) \in Nat
        /\ q2[Len(q) + 1] = m /\ \A i \in 1 .. Len(q) : q2[i] = q[i]
    BY <1>2
  <2>2. ASSUME NEW i \in DOMAIN q2, NEW j \in DOMAIN q2, i < j PROVE Precedes(q2[i], q2[j])
    <3>1. i \in 1 .. Len(q) /\ q2[i] = q[i] BY <2>1, <2>2
    <3>2. CASE j = Len(q) + 1 BY Zenon, <2>1, <3>1, <3>2
    <3>3. CASE j # Len(q) + 1
      <4>1. j \in 1 .. Len(q) /\ q2[j] = q[j] BY <2>1, <3>3
      <4> QED BY Zenon, <2>1, <2>2, <3>1, <4>1 DEF Ordered
    <3> QED BY Zenon, <3>2, <3>3
  <2> QED BY Zenon, <2>2 DEF Ordered
<1> QED BY Zenon, <1>1, <1>2 DEF Joins

(* An item that is old joins old ones.                                      *)
LEMMA JoinOlder ==
    ASSUME NEW q \in Seq(Item), NEW m \in Item, NEW q2, Joins(q, q2, m),
           NEW s, NEW tp, NEW it, Older(q, s, tp, it), Old(m, s, tp, it)
    PROVE  Older(q2, s, tp, it)
<1>1. CASE q2 = q BY Zenon, <1>1
<1>2. CASE q2 = Append(q, m)
  <2>1. \A i \in DOMAIN q2 : q2[i] = m \/ (i \in DOMAIN q /\ q2[i] = q[i]) BY <1>2
  <2> QED BY Zenon, <2>1 DEF Older
<1> QED BY Zenon, <1>1, <1>2 DEF Joins

(* What neither queues, sends nor numbers keeps the order.                  *)
LEMMA OrderKept ==
    ASSUME InOrder, UNCHANGED <<sent, ring, seq, item>>,
           \A t \in Threads : tpc'[t] = "push" => tpc[t] = "push",
           apc = "pop" => apc' = "pop"
    PROVE  InOrder'
<1>1. ASSUME NEW q, Older(q, seq, tpc, item) PROVE Older(q, seq, tpc', item)
  BY Zenon, <1>1 DEF Older, Old
<1>2. Numbered' BY Zenon, <1>1 DEF InOrder, Numbered
<1>3. Ahead' BY Zenon DEF InOrder, Ahead
<1> QED BY Zenon, <1>2, <1>3 DEF InOrder

(* The number of an event is taken before it is queued, and it is a new one *)
(* (the fetch-and-add in build_event_json).                                 *)
LEMMA OrderFormats ==
    ASSUME IInv, NEW t \in Threads, EmitFormats(t)
    PROVE  InOrder'
<1>1. /\ Types /\ InOrder /\ tpc \in [Threads -> Place] /\ item \in [Threads -> Nat]
      /\ seq \in Nat /\ ring \in Seq(Item) /\ sent \in Seq(Item)
  BY Zenon DEF IInv, Types
<1>2. UNCHANGED <<sent, ring, apc>> BY Zenon DEF EmitFormats, queueVars, agentThread, history
<1>3. seq' \in Nat /\ seq < seq' BY <1>1 DEF EmitFormats
<1>4. item' = [item EXCEPT ![t] = IF tpc'[t] = "push" THEN seq' ELSE 0]
  BY Zenon DEF EmitFormats
<1>5. \A u \in Threads : u # t => tpc'[u] = tpc[u] BY Zenon, <1>1 DEF EmitFormats, At
<1>6. ASSUME NEW m \in Item, Old(m, seq, tpc, item) PROVE Old(m, seq', tpc', item')
  <2>1. m.seq \in Nat BY Zenon DEF Item
  <2>2. m.seq <= seq' /\ m.seq < seq' BY <1>1, <1>3, <1>6, <2>1 DEF Old
  <2>3. ASSUME NEW u \in Threads, tpc'[u] = "push", m.by = u PROVE m.seq < item'[u]
    <3>1. CASE u = t BY Zenon, <1>1, <1>4, <2>2, <2>3, <3>1
    <3>2. CASE u # t BY Zenon, <1>1, <1>4, <1>5, <1>6, <2>3, <3>2 DEF Old
    <3> QED BY Zenon, <3>1, <3>2
  <2> QED BY Zenon, <1>6, <2>2, <2>3 DEF Old
<1>7. ASSUME NEW q \in Seq(Item), Older(q, seq, tpc, item) PROVE Older(q, seq', tpc', item')
  <2>1. \A i \in DOMAIN q : q[i] \in Item OBVIOUS
  <2> QED BY Zenon, <1>6, <1>7, <2>1 DEF Older
<1>8. \A u \in Threads : item'[u] <= seq'
  BY <1>1, <1>3, <1>4 DEF InOrder, Numbered
<1>9. Numbered'
  BY Zenon, <1>1, <1>2, <1>7, <1>8 DEF InOrder, Numbered
<1>10. Ahead' BY Zenon, <1>1, <1>2 DEF InOrder, Ahead
<1> QED BY Zenon, <1>1, <1>2, <1>9, <1>10 DEF InOrder

(* An item of thread-order joins the ring.                                  *)
LEMMA OrderJoins ==
    ASSUME IInv, NEW m \in Item, Joins(ring, ring', m), UNCHANGED <<sent, seq>>,
           apc = "pop" => apc' = "pop" /\ ring # <<>>,
           \A i \in DOMAIN ring : Precedes(ring[i], m),
           \A i \in DOMAIN sent : Precedes(sent[i], m),
           Older(sent, seq, tpc', item'), Older(ring, seq, tpc', item'),
           Old(m, seq, tpc', item'), \A u \in Threads : item'[u] <= seq
    PROVE  InOrder'
<1>1. InOrder /\ ring \in Seq(Item) BY Zenon DEF IInv, Types
<1>2. Ordered(ring') BY Zenon, <1>1, JoinOrdered DEF InOrder
<1>3. Older(ring', seq, tpc', item') BY Zenon, <1>1, JoinOlder
<1>4. Ahead'
  <2>1. ASSUME NEW i \in DOMAIN sent, NEW j \in DOMAIN ring', apc' = "pop" => j > 1
        PROVE  Precedes(sent[i], ring'[j])
    <3>1. CASE ring'[j] = m BY Zenon, <3>1
    <3>2. CASE j \in DOMAIN ring /\ ring'[j] = ring[j]
      BY Zenon, <1>1, <2>1, <3>2 DEF InOrder, Ahead
    <3>3. ring'[j] = m \/ (j \in DOMAIN ring /\ ring'[j] = ring[j])
      <4>1. CASE ring' = ring BY Zenon, <4>1
      <4>2. CASE ring' = Append(ring, m) BY <1>1, <4>2
      <4> QED BY Zenon, <4>1, <4>2 DEF Joins
    <3> QED BY Zenon, <3>1, <3>2, <3>3
  <2> QED BY Zenon, <2>1 DEF Ahead
<1> QED BY Zenon, <1>1, <1>2, <1>3, <1>4 DEF InOrder, Numbered

(* queue_push: the event's number is above those of its thread's events     *)
(* before it.                                                               *)
LEMMA OrderPushes ==
    ASSUME IInv, NEW t \in Threads, EmitPushes(t)
    PROVE  InOrder'
<1>1. /\ Types /\ InOrder /\ tpc \in [Threads -> Place] /\ item \in [Threads -> Nat]
      /\ seq \in Nat /\ ring \in Seq(Item) /\ sent \in Seq(Item) /\ OneAgent
  BY Zenon DEF IInv, Types
<1>2. PICK m : m = Event(item[t], t) BY Zenon
<1>3. m \in Item /\ m.seq = item[t] /\ m.by = t /\ m.kind = "event"
  BY Zenon, <1>1, <1>2 DEF Event, Item
<1>4. Joins(ring, ring', m) BY Zenon, <1>1, <1>2, <1>3, PushIs DEF EmitPushes
<1>5. /\ tpc[t] = "push" /\ tpc'[t] = "adopt" /\ item'[t] = 0
      /\ \A u \in Threads : u # t => tpc'[u] = tpc[u] /\ item'[u] = item[u]
  BY Zenon, <1>1 DEF EmitPushes, At
<1>6. UNCHANGED <<sent, seq, apc>> BY Zenon DEF EmitPushes, agentThread
<1>7. ASSUME NEW x, Old(x, seq, tpc, item)
      PROVE  Precedes(x, m) /\ Old(x, seq, tpc', item')
  <2>1. Precedes(x, m) BY Zenon, <1>3, <1>5, <1>7 DEF Precedes, Old
  <2>2. Old(x, seq, tpc', item') BY Zenon, <1>5, <1>7 DEF Old
  <2> QED BY Zenon, <2>1, <2>2
<1>8. \A u \in Threads : item[u] <= seq BY Zenon, <1>1 DEF InOrder, Numbered
<1>9. Old(m, seq, tpc', item') BY Zenon, <1>3, <1>5, <1>8 DEF Old
<1>10. \A u \in Threads : item'[u] <= seq BY <1>1, <1>5, <1>8
<1>11. /\ \A i \in DOMAIN ring : Precedes(ring[i], m)
       /\ \A i \in DOMAIN sent : Precedes(sent[i], m)
       /\ Older(sent, seq, tpc', item') /\ Older(ring, seq, tpc', item')
  BY Zenon, <1>1, <1>7 DEF InOrder, Numbered, Older
<1>12. apc = "pop" => apc' = "pop" /\ ring # <<>> BY Zenon, <1>1, <1>6 DEF OneAgent
<1> QED BY Zenon, <1>3, <1>4, <1>6, <1>9, <1>10, <1>11, <1>12, OrderJoins

(* A loss marker belongs to no thread of the target.                        *)
LEMMA OrderMarks ==
    ASSUME IInv, DrainMarks
    PROVE  InOrder'
<1>1. /\ Types /\ InOrder /\ OneAgent /\ seen \in Nat /\ seq \in Nat BY Zenon DEF IInv, Types
<1>2. PICK m : m = Marker(seen) BY Zenon
<1>3. m \in Item /\ m.seq = 0 /\ m.by = "agent" /\ m.kind = "marker"
  BY Zenon, <1>1, <1>2 DEF Marker, Item
<1>4. Joins(ring, ring', m)
  BY Zenon, <1>1, <1>2, <1>3, PushIs DEF DrainMarks, Joins
<1>5. UNCHANGED <<sent, seq, tpc, item>> /\ apc # "pop" BY Zenon DEF DrainMarks, KeepTarget, Step
<1>6. ASSUME NEW x, Old(x, seq, tpc, item) PROVE Precedes(x, m)
  BY Zenon, <1>3, <1>6, ThreadsAssumption DEF Precedes, Old
<1>7. Old(m, seq, tpc, item) BY <1>1, <1>3, ThreadsAssumption DEF Old
<1>8. /\ \A i \in DOMAIN ring : Precedes(ring[i], m)
      /\ \A i \in DOMAIN sent : Precedes(sent[i], m)
      /\ Older(sent, seq, tpc', item') /\ Older(ring, seq, tpc', item')
      /\ \A u \in Threads : item'[u] <= seq
  BY Zenon, <1>1, <1>5, <1>6 DEF InOrder, Numbered, Older
<1> QED BY Zenon, <1>3, <1>4, <1>5, <1>7, <1>8, OrderJoins

(* Without the items of the ring the order holds as it did.                 *)
LEMMA OrderEmptied ==
    ASSUME InOrder, ring' \in {<<>>, ring}, sent' \in {<<>>, sent}, seq' = seq,
           \A t \in Threads : tpc'[t] # "push" \/ (tpc[t] = "push" /\ item'[t] = item[t]),
           \A t \in Threads : item'[t] <= seq,
           apc = "pop" /\ sent' # <<>> /\ ring' # <<>> => apc' = "pop"
    PROVE  InOrder'
<1>1. ASSUME NEW q, Older(q, seq, tpc, item) PROVE Older(q, seq, tpc', item')
  BY Zenon, <1>1 DEF Older, Old
<1>2. DOMAIN <<>> = {} OBVIOUS
<1>3. Older(<<>>, seq, tpc', item') /\ Ordered(<<>>) BY Zenon, <1>2 DEF Older, Ordered
<1>4. Numbered' BY Zenon, <1>1, <1>3 DEF InOrder, Numbered
<1>5. Ahead' BY Zenon, <1>2 DEF InOrder, Ahead
<1>6. Ordered(sent)' /\ Ordered(ring)' BY Zenon, <1>3 DEF InOrder
<1> QED BY Zenon, <1>4, <1>5, <1>6 DEF InOrder

(* The oldest item is sent while it stays in the ring.                      *)
LEMMA OrderSends ==
    ASSUME IInv, DrainSends
    PROVE  InOrder'
<1>1. /\ InOrder /\ OneAgent /\ ring \in Seq(Item) /\ sent \in Seq(Item)
  BY Zenon DEF IInv, Types
<1>2. /\ apc = "send" /\ ring # <<>> /\ UNCHANGED <<ring, seq, tpc, item>>
  BY Zenon, <1>1 DEF DrainSends, Step, queueVars, KeepTarget, OneAgent
<1>3. CASE link = "broken" /\ sent' = sent /\ apc' = "poll"
  BY Zenon, <1>1, <1>2, <1>3, OrderKept
<1>4. CASE apc' = "pop" /\ sent' = Append(sent, Head(ring))
  <2>1. 1 \in DOMAIN ring /\ DOMAIN ring = 1 .. Len(ring) /\ Len(ring) \in Nat
    BY <1>1, <1>2, NotEmpty
  <2>2. PICK m \in Item : m = ring[1] BY <1>1, <2>1
  <2>3. sent' = Append(sent, m) BY <1>1, <1>2, <1>4, <2>2
  <2>4. \A i \in DOMAIN sent : Precedes(sent[i], m)
    BY Zenon, <1>1, <1>2, <2>1, <2>2 DEF InOrder, Ahead
  <2>5. Ordered(sent') BY Zenon, <1>1, <2>3, <2>4, JoinOrdered DEF InOrder, Joins
  <2>6. Old(m, seq, tpc, item) BY Zenon, <1>1, <2>1, <2>2 DEF InOrder, Numbered, Older
  <2>7. Older(sent', seq, tpc, item)
    BY Zenon, <1>1, <2>3, <2>6, JoinOlder DEF InOrder, Numbered, Joins
  <2>8. Ahead'
    <3>1. ASSUME NEW i \in DOMAIN sent', NEW j \in DOMAIN ring, j > 1
          PROVE  Precedes(sent'[i], ring[j])
      <4>1. sent'[i] = m \/ (i \in DOMAIN sent /\ sent'[i] = sent[i]) BY <1>1, <2>3
      <4>2. CASE sent'[i] = m BY Zenon, <1>1, <2>1, <2>2, <3>1, <4>2 DEF InOrder, Ordered
      <4>3. CASE i \in DOMAIN sent /\ sent'[i] = sent[i]
        BY Zenon, <1>1, <1>2, <3>1, <4>3 DEF InOrder, Ahead
      <4> QED BY Zenon, <4>1, <4>2, <4>3
    <3> QED BY Zenon, <1>2, <1>4, <3>1 DEF Ahead
  <2> QED BY Zenon, <1>1, <1>2, <2>5, <2>7, <2>8 DEF InOrder, Numbered
<1> QED BY Zenon, <1>3, <1>4 DEF DrainSends, Step

(* The sent item leaves the ring.                                           *)
LEMMA OrderPops ==
    ASSUME IInv, DrainPops
    PROVE  InOrder'
<1>1. /\ InOrder /\ OneAgent /\ ring \in Seq(Item) BY Zenon DEF IInv, Types
<1>2. /\ apc = "pop" /\ apc' = "peek" /\ ring # <<>> /\ ring' = Tail(ring)
      /\ UNCHANGED <<sent, seq, tpc, item>>
  BY Zenon, <1>1 DEF DrainPops, Step, KeepTarget, OneAgent
<1>3. /\ DOMAIN ring = 1 .. Len(ring) /\ Len(ring) \in Nat /\ Len(ring) > 0
      /\ DOMAIN ring' = 1 .. Len(ring) - 1
      /\ \A i \in 1 .. Len(ring) - 1 : ring'[i] = ring[i + 1]
  BY <1>1, <1>2, NotEmpty
<1>4. \A i \in DOMAIN ring' : i \in Nat /\ i + 1 \in DOMAIN ring /\ i + 1 > 1
                              /\ ring'[i] = ring[i + 1]
  BY <1>3
<1>5. Ordered(ring')
  <2>1. ASSUME NEW i \in DOMAIN ring', NEW j \in DOMAIN ring', i < j
        PROVE  Precedes(ring'[i], ring'[j])
    <3>1. i + 1 < j + 1 BY <1>4, <2>1
    <3> QED BY Zenon, <1>1, <1>4, <3>1 DEF InOrder, Ordered
  <2> QED BY Zenon, <2>1 DEF Ordered
<1>6. Older(ring', seq, tpc, item) BY Zenon, <1>1, <1>4 DEF InOrder, Numbered, Older
<1>7. Ahead' BY Zenon, <1>1, <1>2, <1>4 DEF InOrder, Ahead
<1> QED BY Zenon, <1>1, <1>2, <1>5, <1>6, <1>7 DEF InOrder, Numbered

(* Every step keeps the order.                                              *)
LEMMA InOrderStep ==
    ASSUME IInv, [Next]_vars
    PROVE  InOrder'
<1>1. /\ Types /\ OneAgent /\ InOrder /\ tpc \in [Threads -> Place]
      /\ item \in [Threads -> Nat] /\ seq \in Nat
  BY Zenon DEF IInv, Types
<1>2. CASE UNCHANGED vars
  BY Zenon, <1>1, <1>2, OrderKept DEF vars, queueVars, agentThread, history
<1>3. ASSUME NEW t \in Threads, EmitFormats(t) PROVE InOrder' BY Zenon, <1>3, OrderFormats
<1>4. ASSUME NEW t \in Threads, EmitPushes(t) PROVE InOrder' BY <1>4, OrderPushes
<1>5. ASSUME NEW t \in Threads, EmitAdopts(t) PROVE InOrder'
  <2>1. ring' \in {<<>>, ring} /\ UNCHANGED <<sent, seq, item, apc>> BY Zenon, <1>5 DEF EmitAdopts
  <2>2. \A u \in Threads : tpc'[u] # "push" \/ (tpc[u] = "push" /\ item'[u] = item[u])
    BY Zenon, <1>1, <1>5, <2>1 DEF EmitAdopts, At
  <2>3. \A u \in Threads : item'[u] <= seq BY Zenon, <1>1, <2>1 DEF InOrder, Numbered
  <2> QED BY Zenon, <1>1, <2>1, <2>2, <2>3, OrderEmptied
<1>6. ASSUME NEW t \in Threads,
             \/ EmitSpawns(t) \/ KickChecks(t) \/ KickRegisters(t) \/ KickSpawns(t)
             \/ ForkStuck(t)
      PROVE  InOrder'
  <2>1. UNCHANGED <<sent, ring, seq, item>>
    BY Zenon, <1>6 DEF EmitSpawns, KickChecks, KickRegisters, KickSpawns, ForkStuck, queueVars,
       history
  <2>2. \A u \in Threads : tpc'[u] = "push" => tpc[u] = "push"
    BY Zenon, <1>1, <1>6 DEF EmitSpawns, KickChecks, KickRegisters, KickSpawns, ForkStuck, Wins,
       Creates, At
  <2>3. apc' = apc \/ Creating(t)
    BY Zenon, <1>6 DEF EmitSpawns, KickChecks, KickRegisters, KickSpawns, ForkStuck, Wins,
       Creates, At, Creating, agentThread
  <2>4. apc = "pop" => apc' = "pop" BY Zenon, <1>1, <2>3 DEF OneAgent
  <2> QED BY Zenon, <1>1, <2>1, <2>2, <2>4, OrderKept
<1>7. ASSUME NEW t \in Threads, ForkPlain(t) \/ ForkHandled(t) PROVE InOrder'
  <2>1. Child(t) /\ ring' \in {<<>>, ring} BY Zenon, <1>7 DEF ForkPlain, ForkHandled
  <2>2. sent' = <<>> /\ seq' = seq /\ \A u \in Threads : tpc'[u] # "push" /\ item'[u] = 0
    BY Zenon, <2>1 DEF Child
  <2>3. \A u \in Threads : item'[u] <= seq BY <1>1, <2>2
  <2> QED BY Zenon, <1>1, <2>1, <2>2, <2>3, OrderEmptied
<1>8. CASE LoopTop \/ DrainPeeks \/ DrainCounts \/ DrainReports \/ PollAndBeat \/ SendBye
  <2>1. UNCHANGED <<sent, ring, seq, item, tpc>> /\ apc # "pop"
    BY Zenon, <1>8 DEF LoopTop, DrainPeeks, DrainCounts, DrainReports, PollAndBeat, SendBye, Step,
       KeepTarget, queueVars
  <2> QED BY Zenon, <1>1, <2>1, OrderKept
<1>9. CASE DrainSends BY Zenon, <1>9, OrderSends
<1>10. CASE DrainPops BY <1>10, OrderPops
<1>11. CASE DrainMarks BY <1>11, OrderMarks
<1>12. CASE Deinit \/ DaemonDies \/ DaemonSticks \/ DaemonBack
  <2>1. UNCHANGED <<sent, ring, seq, item, tpc, apc>>
    BY Zenon, <1>12 DEF Deinit, DaemonDies, DaemonSticks, DaemonBack, queueVars, agentThread, history
  <2> QED BY Zenon, <1>1, <2>1, OrderKept
<1> QED
  BY Zenon, <1>2, <1>3, <1>4, <1>5, <1>6, <1>7, <1>8, <1>9, <1>10, <1>11, <1>12
  DEF Next, EmitStep, AgentStep

-----------------------------------------------------------------------------
(* Losses.                                                                  *)

(* What is in both places is the event between send and pop.                *)
LEMMA BetweenIs ==
    ASSUME IInv
    PROVE  Between = IF apc = "pop" THEN One(ring[1]) ELSE 0
<1>1. apc = "pop" => ring # <<>> BY Zenon DEF IInv, OneAgent
<1>2. ring \in Seq(Item) BY Zenon DEF IInv, Types
<1>3. apc = "pop" => Head(ring) = ring[1] BY <1>1, <1>2
<1> QED BY Zenon, <1>3 DEF Between, One

(* Every step keeps the account of losses.                                  *)
LEMMA LossStep ==
    ASSUME IInv, Types', OneAgent', [Next]_vars
    PROVE  LossCounted'
<1>1. /\ Types /\ OneAgent /\ ring \in Seq(Item) /\ sent \in Seq(Item)
      /\ dropped \in Nat /\ pushed \in Nat /\ lost \in Nat
      /\ ring' \in Seq(Item) /\ sent' \in Seq(Item)
      /\ dropped' \in Nat /\ pushed' \in Nat /\ lost' \in Nat
  BY Zenon DEF IInv, Types
<1>2. Count(ring) \in Nat /\ Count(sent) \in Nat /\ Count(ring') \in Nat /\ Count(sent') \in Nat
  BY Zenon, <1>1, CountType
<1>2a. /\ dropped \in Nat /\ pushed \in Nat /\ lost \in Nat
       /\ dropped' \in Nat /\ pushed' \in Nat /\ lost' \in Nat
  BY Zenon, <1>1
<1>3. pushed + Between <= Count(sent) + Count(ring) + dropped + lost
  BY Zenon DEF IInv, LossCounted, Count
<1>4. Between \in {0, 1} /\ Between' \in {0, 1} BY Zenon DEF Between
<1>5. ASSUME pushed' + Between' <= Count(sent') + Count(ring') + dropped' + lost'
      PROVE  LossCounted'
  BY Zenon, <1>5 DEF LossCounted, Count
<1>6. ASSUME UNCHANGED <<ring, sent, dropped, pushed, lost>>, apc' # "pop" \/ apc' = apc
      PROVE  LossCounted'
  <2>1. Between' <= Between BY <1>4, <1>6 DEF Between
  <2>2. /\ Count(sent') = Count(sent) /\ Count(ring') = Count(ring)
        /\ dropped' = dropped /\ pushed' = pushed /\ lost' = lost
    BY Zenon, <1>6
  <2>3. pushed' + Between' <= Count(sent') + Count(ring') + dropped' + lost'
    BY <1>2, <1>2a, <1>3, <1>4, <2>1, <2>2
  <2> QED BY Zenon, <1>5, <2>3
<1>7. CASE UNCHANGED vars
  BY Zenon, <1>6, <1>7 DEF vars, queueVars, agentThread, history
<1>8. ASSUME NEW m \in Item, Push(m), apc' = apc, UNCHANGED <<sent, lost>>,
             pushed' \in {pushed, pushed + One(m)}
      PROVE  LossCounted'
  <2>1. Joins(ring, ring', m) /\ Count(ring') + dropped' >= Count(ring) + dropped + One(m)
    BY Zenon, <1>1, <1>8, PushIs
  <2>2. apc = "pop" => Head(ring') = Head(ring)
    <3>1. apc = "pop" => ring # <<>> BY Zenon, <1>1 DEF OneAgent
    <3>2. ring # <<>> => Head(Append(ring, m)) = Head(ring) BY <1>1, <1>8, NotEmpty
    <3> QED BY Zenon, <2>1, <3>1, <3>2 DEF Joins
  <2>3. Between' = Between BY Zenon, <1>8, <2>2 DEF Between
  <2>4. One(m) \in {0, 1} BY Zenon DEF One
  <2>5. Count(sent') = Count(sent) /\ lost' = lost BY Zenon, <1>8
  <2>6. pushed' <= pushed + One(m) BY <1>1, <1>8, <2>4
  <2>7. pushed' + Between' <= Count(sent') + Count(ring') + dropped' + lost'
    <3>1. Count(ring') + dropped' >= Count(ring) + dropped + One(m) BY Zenon, <2>1
    <3> QED BY <1>2, <1>2a, <1>3, <1>4, <2>3, <2>4, <2>5, <2>6, <3>1
  <2> QED BY Zenon, <1>5, <2>7
<1>9. ASSUME NEW t \in Threads, EmitPushes(t) PROVE LossCounted'
  <2>1. PICK m : m = Event(item[t], t) BY Zenon
  <2>2. m \in Item /\ One(m) = 1 BY Zenon, <1>1, <2>1 DEF Event, Item, One, Types
  <2>3. Push(m) /\ apc' = apc /\ UNCHANGED <<sent, lost>> /\ pushed' = pushed + One(m)
    BY Zenon, <1>9, <2>1, <2>2 DEF EmitPushes, agentThread
  <2> QED BY Zenon, <1>8, <2>2, <2>3
<1>10. ASSUME NEW t \in Threads, EmitAdopts(t) PROVE LossCounted'
  <2>1. spawner # pid /\ UNCHANGED <<apc, sent, dropped, pushed>>
        /\ lost' = lost + Count(ring) - Count(ring')
    BY Zenon, <1>10 DEF EmitAdopts, Count
  <2>2. Between = 0 /\ Between' = 0 BY Zenon, <1>1, <2>1 DEF OneAgent, Between
  <2>3. /\ Count(sent') = Count(sent) /\ dropped' = dropped /\ pushed' = pushed
        /\ lost' = lost + Count(ring) - Count(ring')
    BY Zenon, <2>1
  <2>4. pushed' + Between' <= Count(sent') + Count(ring') + dropped' + lost'
    BY <1>2, <1>2a, <1>3, <2>2, <2>3
  <2> QED BY Zenon, <1>5, <2>4
<1>11. ASSUME NEW t \in Threads,
              \/ EmitFormats(t) \/ EmitSpawns(t) \/ KickChecks(t) \/ KickRegisters(t)
              \/ KickSpawns(t) \/ ForkStuck(t)
       PROVE  LossCounted'
  <2>1. UNCHANGED <<ring, sent, dropped, pushed, lost>>
    BY Zenon, <1>11 DEF EmitFormats, EmitSpawns, KickChecks, KickRegisters, KickSpawns, ForkStuck,
       queueVars, history
  <2>2. apc' # "pop" \/ apc' = apc
    BY Zenon, <1>11 DEF EmitFormats, EmitSpawns, KickChecks, KickRegisters, KickSpawns, ForkStuck,
       Creates, agentThread
  <2> QED BY Zenon, <1>6, <2>1, <2>2
<1>12. ASSUME NEW t \in Threads, ForkPlain(t) \/ ForkHandled(t) PROVE LossCounted'
  <2>1. pushed' = 0 /\ apc' = "none" BY Zenon, <1>12 DEF ForkPlain, ForkHandled, Child
  <2>2. Between' = 0 BY Zenon, <2>1 DEF Between
  <2>3. pushed' + Between' <= Count(sent') + Count(ring') + dropped' + lost'
    BY <1>2, <1>2a, <2>1, <2>2
  <2> QED BY <1>5, <2>3
<1>13. CASE LoopTop \/ DrainPeeks \/ DrainCounts \/ DrainReports \/ PollAndBeat \/ SendBye
  <2>1. UNCHANGED <<ring, sent, dropped, pushed, lost>> /\ apc' # "pop"
    BY Zenon, <1>13 DEF LoopTop, DrainPeeks, DrainCounts, DrainReports, PollAndBeat, SendBye, Step,
       KeepTarget, queueVars
  <2> QED BY Zenon, <1>6, <2>1
<1>14. CASE DrainSends
  <2>1. /\ apc = "send" /\ ring # <<>> /\ UNCHANGED <<ring, dropped, pushed, lost>>
    BY Zenon, <1>1, <1>14 DEF DrainSends, Step, queueVars, KeepTarget, OneAgent
  <2>2. CASE sent' = sent /\ apc' = "poll" BY Zenon, <1>6, <2>1, <2>2
  <2>3. CASE apc' = "pop" /\ sent' = Append(sent, Head(ring))
    <3>1. PICK m \in Item : m = Head(ring) BY <1>1, <2>1
    <3>2. Count(sent') = Count(sent) + One(m) BY Zenon, <1>1, <2>3, <3>1, CountAppend
    <3>3. Between = 0 /\ Between' = One(m) BY Zenon, <2>1, <2>3, <3>1 DEF Between, One
    <3>4. One(m) \in {0, 1} BY DEF One
    <3>5. Count(ring') = Count(ring) /\ dropped' = dropped /\ pushed' = pushed /\ lost' = lost
      BY Zenon, <2>1
    <3>6. pushed' + Between' <= Count(sent') + Count(ring') + dropped' + lost'
      BY <1>2, <1>2a, <1>3, <3>2, <3>3, <3>4, <3>5
    <3> QED BY <1>5, <3>6
  <2> QED BY Zenon, <1>14, <2>2, <2>3 DEF DrainSends, Step
<1>15. CASE DrainPops
  <2>1. /\ apc = "pop" /\ apc' = "peek" /\ ring # <<>> /\ ring' = Tail(ring)
        /\ UNCHANGED <<sent, dropped, pushed, lost>>
    BY Zenon, <1>1, <1>15 DEF DrainPops, Step, KeepTarget, OneAgent
  <2>2. Between = One(ring[1]) /\ Between' = 0 BY Zenon, <2>1, BetweenIs DEF Between
  <2>3. Count(ring) = Count(ring') + One(ring[1]) BY Zenon, <1>1, <2>1, CountTail
  <2>4. Count(sent') = Count(sent) /\ dropped' = dropped /\ pushed' = pushed /\ lost' = lost
    BY Zenon, <2>1
  <2>5. pushed' + Between' <= Count(sent') + Count(ring') + dropped' + lost'
    BY <1>2, <1>2a, <1>3, <1>4, <2>2, <2>3, <2>4
  <2> QED BY <1>5, <2>5
<1>16. CASE DrainMarks
  <2>1. apc # "pop" /\ apc' # "pop" /\ UNCHANGED <<sent, pushed, lost>>
    BY Zenon, <1>16 DEF DrainMarks, Step, KeepTarget
  <2>2. Between' = 0 BY Zenon, <2>1 DEF Between
  <2>3. Count(ring') + dropped' >= Count(ring) + dropped
    <3>1. PICK m : m = Marker(seen) BY Zenon
    <3>2. m \in Item /\ One(m) = 0 BY Zenon, <1>1, <3>1 DEF Marker, Item, One, Types
    <3>3. Push(m) BY Zenon, <1>16, <3>1 DEF DrainMarks
    <3>4. Count(ring') + dropped' >= Count(ring) + dropped + One(m)
      BY Zenon, <1>1, <3>2, <3>3, PushIs
    <3> QED BY <1>2, <1>2a, <3>2, <3>4
  <2>4. Count(sent') = Count(sent) /\ lost' = lost /\ pushed' = pushed BY Zenon, <2>1
  <2>5. pushed' + Between' <= Count(sent') + Count(ring') + dropped' + lost'
    BY <1>2, <1>2a, <1>3, <1>4, <2>2, <2>3, <2>4
  <2> QED BY <1>5, <2>5
<1>17. CASE Deinit \/ DaemonDies \/ DaemonSticks \/ DaemonBack
  <2>1. UNCHANGED <<ring, sent, dropped, pushed, lost, apc>>
    BY Zenon, <1>17 DEF Deinit, DaemonDies, DaemonSticks, DaemonBack, queueVars, agentThread, history
  <2> QED BY Zenon, <1>6, <2>1
<1> QED
  BY Zenon, <1>7, <1>9, <1>10, <1>11, <1>12, <1>13, <1>14, <1>15, <1>16, <1>17
  DEF Next, EmitStep, AgentStep

-----------------------------------------------------------------------------
(* The ring is empty and nobody has emitted when the agent is initialised.  *)
LEMMA InitIInv == Init => IInv
<1> SUFFICES ASSUME Init PROVE IInv BY Zenon
<1>1. <<>> \in Seq(Item) /\ DOMAIN <<>> = {} OBVIOUS
<1>2. /\ ring = <<>> /\ sent = <<>> /\ seq = 0 /\ dropped = 0 /\ seen = 0 /\ pushed = 0 /\ lost = 0
      /\ apc = "none" /\ spawned = FALSE
      /\ tpc = [t \in Threads |-> "idle"] /\ item = [t \in Threads |-> 0]
  BY Zenon DEF Init
<1>3. Types
  <2>1. tpc \in [Threads -> Place] /\ item \in [Threads -> Nat] BY Zenon, <1>2 DEF Place
  <2>2. ring \in Seq(Item) /\ sent \in Seq(Item) BY Zenon, <1>1, <1>2
  <2>3. seq \in Nat /\ dropped \in Nat /\ seen \in Nat /\ pushed \in Nat /\ lost \in Nat BY Zenon, <1>2
  <2> QED BY Zenon, <1>2, <2>1, <2>2, <2>3 DEF Types
<1>4. OneAgent BY Zenon, <1>2 DEF OneAgent, Creating
<1>5. InOrder BY <1>1, <1>2 DEF InOrder, Ordered, Ahead, Numbered, Older
<1>6. Between = 0 /\ Count(<<>>) = 0 BY Zenon, <1>2, CountEmpty DEF Between
<1>7. LossCounted BY <1>2, <1>6 DEF LossCounted, Count
<1> QED BY Zenon, <1>3, <1>4, <1>5, <1>7 DEF IInv

(* Every step keeps the invariant.                                          *)
LEMMA NextIInv == IInv /\ [Next]_vars => IInv'
<1> SUFFICES ASSUME IInv, [Next]_vars PROVE IInv' BY Zenon
<1>1. Types' BY Zenon, TypesStep
<1>2. OneAgent' BY OneAgentStep
<1> QED BY Zenon, <1>1, <1>2, InOrderStep, LossStep DEF IInv

(* Emitters, the agent thread, forks and deinit keep the agent's state      *)
(* consistent: one agent thread, numbers in order, losses accounted for.    *)
THEOREM AgentInvariant == Spec => []IInv
  BY InitIInv, NextIInv, PTL DEF Spec

(* What reaches the daemon has no event twice and keeps each thread's order *)
(* (the peek, send and pop of drain_queue).                                 *)
THEOREM EventsInOrder == Spec => []SentInThreadOrder
<1>1. IInv => SentInThreadOrder
  BY Zenon DEF IInv, InOrder, Ordered, Precedes, SentInThreadOrder
<1> QED BY <1>1, AgentInvariant, PTL

(* No event handed to queue_push disappears uncounted, but for those that   *)
(* fork_adopt discards.                                                     *)
THEOREM LossesCounted == Spec => []LossCounted
<1>1. IInv => LossCounted BY Zenon DEF IInv
<1> QED BY <1>1, AgentInvariant, PTL
=============================================================================
