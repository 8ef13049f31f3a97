--------------------------- MODULE OtlpLiveProofs ---------------------------
(***************************************************************************)
(* OtlpLive, for any number of emitters, items, signals and retries: the   *)
(* teardown handshake, what may be lost, and the counters.                 *)
(***************************************************************************)
EXTENDS OtlpLive, Integers, FiniteSetTheorems, TLAPS

-----------------------------------------------------------------------------
(* The teardown handshake.                                                  *)

\* Past the second look at the door, and counted in emit_busy.
Active == {"inner", "create", "push", "publish", "count"}
Counted == Active \cup {"recheck", "leave"}
Inside == {e \in Emitters : emitter[e] \in Counted}

\* The CAS on thread_spawned admits one creator, before there is a thread.
Creating ==
    /\ \A e \in Emitters : emitter[e] = "create" => thread_spawned /\ tick = "none"
    /\ \A e, d \in Emitters : emitter[e] = "create" /\ emitter[d] = "create" => e = d

\* Once the count has been seen at zero behind the closed door, an emitter may
\* still raise it, but only to find the door closed.
Handshake ==
    /\ emitter \in [Emitters -> Counted \cup {"idle", "enter"}]
    /\ emit_busy = Cardinality(Inside)
    /\ deinit \in {"no", "drain", "join", "done", "leaked"}
    /\ deinit # "no" => ~door_open
    /\ deinit \in {"join", "done"} => \A e \in Emitters : emitter[e] \notin Active
    /\ stop_signal => deinit \in {"join", "done"}
    /\ mode \in {"loop", "last", "flush"} /\ (mode # "loop" => stop_signal)
    /\ shutdown => stop_signal
    /\ exporter = "freed" => deinit = "done"
    /\ ~thread_spawned => tick = "none"
    /\ Creating
    /\ deinit = "done" => tick \in {"none", "done"}

\* The emitters inside the door are finitely many, so busy can count them.
LEMMA InsideFinite == IsFiniteSet(Inside) /\ Cardinality(Inside) \in Nat
  <1>1. Inside \subseteq Emitters
    BY Zenon DEF Inside
  <1>2. IsFiniteSet(Inside)
    BY Zenon, <1>1, EmittersAssumption, FS_Subset
  <1> QED BY Zenon, <1>2, FS_CardinalityType

\* The count follows the emitters: it stays when an emitter moves on either
\* side, and changes by one when an emitter comes in or leaves.
LEMMA CountStays ==
  ASSUME Handshake, NEW e \in Emitters, NEW from, NEW to,
         AtEmit(e, from, to), from \in Counted <=> to \in Counted
  PROVE  Inside' = Inside
  BY Zenon DEF Handshake, AtEmit, Inside

\* An emitter that passes the door adds one (fetch_add of busy).
LEMMA CountGoesUp ==
  ASSUME Handshake, NEW e \in Emitters, AtEmit(e, "enter", "recheck")
  PROVE  Cardinality(Inside') = emit_busy + 1
  <1>1. Inside' = Inside \cup {e} /\ e \notin Inside
    BY Zenon DEF Handshake, AtEmit, Inside, Counted, Active
  <1> QED BY Zenon, <1>1, InsideFinite, FS_AddElement DEF Handshake

\* An emitter that leaves takes one away (fetch_sub of busy).
LEMMA CountGoesDown ==
  ASSUME Handshake, NEW e \in Emitters, AtEmit(e, "leave", "idle")
  PROVE  Cardinality(Inside') = emit_busy - 1
  <1>1. Inside' = Inside \ {e} /\ e \in Inside
    BY Zenon DEF Handshake, AtEmit, Inside, Counted, Active
  <1> QED BY Zenon, <1>1, InsideFinite, FS_RemoveElement DEF Handshake

\* The exporter starts with the door as init opened it and nobody inside.
LEMMA HandshakeInit == Init => Handshake
  <1> SUFFICES ASSUME Init PROVE Handshake
    BY Zenon
  <1>1. Inside = {}
    BY Zenon DEF Init, Inside, Counted, Active
  <1>2. Cardinality(Inside) = 0
    BY Zenon, <1>1, FS_EmptySet
  <1> QED BY Zenon, <1>2 DEF Init, Handshake, Creating, Counted, Active

\* The steps of the emitters: none of them becomes active once deinit has seen
\* the count at zero.
LEMMA HandshakeEmit ==
  ASSUME Handshake, EmitStep
  PROVE  Handshake'
  <1> PICK e \in Emitters :
        \/ EmitLooks(e) \/ EmitEnters(e) \/ EmitRechecks(e) \/ EnsureThread(e)
        \/ CreateThread(e) \/ EmitPushes(e) \/ EmitPublishes(e) \/ EmitCounts(e) \/ EmitLeaves(e)
    BY Zenon DEF EmitStep
  <1> USE DEF AtEmit, doorVars, threadVars
  <1>1. CASE EmitLooks(e)
    <2>1. AtEmit(e, "idle", IF door_open THEN "enter" ELSE "idle")
      BY Zenon, <1>1 DEF EmitLooks
    <2>2. Inside' = Inside
      BY Zenon, <2>1, CountStays DEF Counted, Active
    <2> QED BY Zenon, <1>1, <2>2 DEF EmitLooks, Handshake, Creating, Counted, Active
  <1>2. CASE EmitEnters(e)
    <2>1. Cardinality(Inside') = emit_busy + 1
      BY Zenon, <1>2, CountGoesUp DEF EmitEnters
    <2> QED BY Zenon, <1>2, <2>1 DEF EmitEnters, Handshake, Creating, Counted, Active
  <1>3. CASE EmitRechecks(e)
    <2>1. AtEmit(e, "recheck", IF door_open THEN "inner" ELSE "leave")
      BY Zenon, <1>3 DEF EmitRechecks
    <2>2. Inside' = Inside
      BY Zenon, <2>1, CountStays DEF Counted, Active
    <2> QED BY Zenon, <1>3, <2>2 DEF EmitRechecks, Handshake, Creating, Counted, Active
  <1>4. CASE EnsureThread(e)
    <2>1. PICK to \in {"push", "create"} : AtEmit(e, "inner", to)
      BY Zenon, <1>4 DEF EnsureThread
    <2>2. Inside' = Inside
      BY Zenon, <2>1, CountStays DEF Counted, Active
    <2> QED BY <1>4, <2>1, <2>2 DEF EnsureThread, Handshake, Creating, Counted, Active
  <1>9. CASE CreateThread(e)
    <2>1. AtEmit(e, "create", "push")
      BY Zenon, <1>9 DEF CreateThread
    <2>2. Inside' = Inside
      BY Zenon, <2>1, CountStays DEF Counted, Active
    <2>3. tick = "none" /\ thread_spawned /\ \A d \in Emitters : emitter[d] = "create" => d = e
      BY Zenon, <2>1 DEF Handshake, Creating
    <2>4. deinit # "done" /\ ~(deinit \in {"join", "done"})
      BY Zenon, <2>1 DEF Handshake, Active
    <2>5. \A d \in Emitters : emitter'[d] # "create"
      BY Zenon, <2>1, <2>3 DEF Handshake
    <2> QED BY Zenon, <1>9, <2>2, <2>3, <2>4, <2>5 DEF CreateThread, Handshake, Creating, Counted, Active
  <1>5. CASE EmitPushes(e)
    <2>1. PICK to \in {"leave", "publish"} : AtEmit(e, "push", to)
      BY Zenon, <1>5 DEF EmitPushes
    <2>2. Inside' = Inside
      BY Zenon, <2>1, CountStays DEF Counted, Active
    <2> QED BY Zenon, <1>5, <2>1, <2>2 DEF EmitPushes, Handshake, Creating, Counted, Active
  <1>6. CASE EmitPublishes(e)
    <2>1. AtEmit(e, "publish", "count")
      BY Zenon, <1>6 DEF EmitPublishes
    <2>2. Inside' = Inside
      BY Zenon, <2>1, CountStays DEF Counted, Active
    <2> QED BY Zenon, <1>6, <2>2 DEF EmitPublishes, Handshake, Creating, Counted, Active
  <1>7. CASE EmitCounts(e)
    <2>1. AtEmit(e, "count", "leave")
      BY Zenon, <1>7 DEF EmitCounts
    <2>2. Inside' = Inside
      BY Zenon, <2>1, CountStays DEF Counted, Active
    <2> QED BY Zenon, <1>7, <2>2 DEF EmitCounts, Handshake, Creating, Counted, Active
  <1>8. CASE EmitLeaves(e)
    <2>1. Cardinality(Inside') = emit_busy - 1
      BY Zenon, <1>8, CountGoesDown DEF EmitLeaves
    <2> QED BY Zenon, <1>8, <2>1 DEF EmitLeaves, Handshake, Creating, Counted, Active
  <1> QED BY Zenon, <1>1, <1>2, <1>3, <1>4, <1>5, <1>6, <1>7, <1>8, <1>9

\* The steps of the tick thread: it asks for shutdown only after it has been
\* told to stop.
LEMMA HandshakeTick ==
  ASSUME Handshake, TickStep
  PROVE  Handshake'
  <1>1. tick \notin {"none", "done"}
    BY Zenon DEF TickStep, TickPops, TickDrained, TickPosts, TickSteps, TickRetries,
           TickEnds, AtTick
  <1>2. thread_spawned /\ deinit # "done"
    BY Zenon, <1>1 DEF Handshake
  <1>3. UNCHANGED <<door_open, emit_busy, thread_spawned, stop_signal, exporter,
                    emitter, deinit>>
    BY Zenon DEF TickStep, TickPops, TickDrained, TickPosts, TickSteps, TickRetries,
           TickEnds, tickOnly, doorVars
  <1>4. UNCHANGED <<shutdown, mode>> \/ TickEnds
    BY Zenon DEF TickStep, TickPops, TickDrained, TickPosts, TickSteps, TickRetries
  <1>5. Inside' = Inside
    BY Zenon, <1>3 DEF Inside
  <1>8. Creating'
    BY Zenon, <1>1, <1>3 DEF Handshake, Creating
  <1>6. CASE UNCHANGED <<shutdown, mode>>
    BY Zenon, <1>2, <1>3, <1>5, <1>6, <1>8 DEF Handshake
  <1>7. CASE TickEnds
    BY <1>2, <1>3, <1>5, <1>7, <1>8 DEF Handshake, TickEnds
  <1> QED BY Zenon, <1>4, <1>6, <1>7

\* The steps of deinit: behind the closed door, a count of zero means that no
\* emitter is active.
LEMMA HandshakeDeinit ==
  ASSUME Handshake, DeinitCloses \/ DeinitStep
  PROVE  Handshake'
  <1> USE DEF deinitOnly, itemsKept
  <1>1. UNCHANGED <<emitter, emit_busy, mode, shutdown, thread_spawned, tick>>
    BY Zenon DEF DeinitStep, DeinitCloses, DeinitDrains, DeinitLeaks, DeinitFrees
  <1>2. Inside' = Inside /\ Creating'
    BY Zenon, <1>1 DEF Inside, Handshake, Creating
  <1>3. CASE DeinitCloses
    BY <1>1, <1>2, <1>3 DEF DeinitCloses, Handshake
  <1>4. CASE DeinitDrains
    <2>1. Inside = {}
      BY Zenon, <1>4, InsideFinite, FS_EmptySet DEF DeinitDrains, Handshake
    <2>2. \A e \in Emitters : emitter[e] \notin Active
      BY Zenon, <2>1 DEF Inside, Counted
    <2> QED BY <1>1, <1>2, <1>4, <2>2 DEF DeinitDrains, Handshake
  <1>5. CASE DeinitLeaks
    BY <1>1, <1>2, <1>5 DEF DeinitLeaks, Handshake
  <1>6. CASE DeinitFrees
    BY <1>1, <1>2, <1>6 DEF DeinitFrees, Handshake
  <1> QED BY Zenon, <1>3, <1>4, <1>5, <1>6 DEF DeinitStep

\* Every step of an emitter, the tick thread, deinit or the world keeps it.
LEMMA HandshakeStep == Handshake /\ [Next]_vars => Handshake'
  <1> SUFFICES ASSUME Handshake, [Next]_vars PROVE Handshake'
    BY Zenon
  <1>1. CASE World \/ UNCHANGED vars
    <2>1. UNCHANGED <<door_open, emit_busy, thread_spawned, stop_signal, exporter,
                      shutdown, emitter, tick, mode, deinit>>
      BY Zenon, <1>1 DEF World, TimePasses, Answered, worldOnly, doorVars, vars
    <2>2. Inside' = Inside
      BY Zenon, <2>1 DEF Inside
    <2> QED BY Zenon, <2>1, <2>2 DEF Handshake, Creating
  <1> QED BY Zenon, <1>1, HandshakeEmit, HandshakeTick, HandshakeDeinit DEF Next

\* However many emitters there are and whatever they do, deinit never frees the
\* exporter under a caller or under the tick thread, and no item is refused for
\* shutdown, to be freed twice.
THEOREM TeardownSafe == Spec => []NoUseAfterFree
  <1>1. Handshake => NoUseAfterFree
    BY Zenon DEF Handshake, NoUseAfterFree, Counted, Active
  <1> QED BY <1>1, HandshakeInit, HandshakeStep, PTL DEF Spec

-----------------------------------------------------------------------------
(* The queues and the batches.                                              *)

AnItem == Emitters \X Nat
Entry == [item : AnItem, ready : BOOLEAN]
Queued(q) == {q[i].item : i \in 1 .. Len(q)}
Unready(q) == {q[i].item : i \in {j \in 1 .. Len(q) : ~q[j].ready}}
OnceQueued(q) == \A i, j \in 1 .. Len(q) : q[i].item = q[j].item => i = j
Once(p) == \A i, j \in 1 .. Len(p) : p[i] = p[j] => i = j

\* mpsc_queue.c, the CAS of a push: a new entry, not ready, behind the others.
LEMMA PushReserves ==
  ASSUME NEW q \in Seq(Entry), NEW x \in AnItem, x \notin Queued(q), OnceQueued(q)
  PROVE  /\ Reserved(q, x) \in Seq(Entry) /\ OnceQueued(Reserved(q, x))
         /\ Queued(Reserved(q, x)) = Queued(q) \cup {x}
         /\ Unready(Reserved(q, x)) = Unready(q) \cup {x}
  <1> DEFINE y == [item |-> x, ready |-> FALSE]
             r == Append(q, y)
  <1>1. y \in Entry /\ y.item = x /\ ~y.ready
    BY Zenon DEF Entry
  <1> HIDE DEF y
  <1>2. /\ r \in Seq(Entry) /\ Len(r) = Len(q) + 1 /\ Len(q) \in Nat
        /\ r[Len(q) + 1] = y /\ \A i \in 1 .. Len(q) : r[i] = q[i]
    BY <1>1
  <1> HIDE DEF r
  <1>3. 1 .. Len(r) = (1 .. Len(q)) \cup {Len(q) + 1}
    BY <1>2
  <1>4. Queued(r) = Queued(q) \cup {x}
    BY <1>1, <1>2, <1>3 DEF Queued
  <1>5. Unready(r) = Unready(q) \cup {x}
    BY <1>1, <1>2, <1>3 DEF Unready
  <1>6. OnceQueued(r)
    BY <1>1, <1>2, <1>3 DEF OnceQueued, Queued
  <1> QED BY Zenon, <1>2, <1>4, <1>5, <1>6 DEF Reserved, r, y

\* The store that publishes it: the same entries, this one ready.
LEMMA PublishReadies ==
  ASSUME NEW q \in Seq(Entry), NEW x, OnceQueued(q)
  PROVE  /\ Published(q, x) \in Seq(Entry) /\ OnceQueued(Published(q, x))
         /\ Queued(Published(q, x)) = Queued(q)
         /\ Unready(q) \ {x} \subseteq Unready(Published(q, x))
  <1> DEFINE r == Published(q, x)
  <1>1. ASSUME NEW i \in 1 .. Len(q)
        PROVE  /\ r[i] \in Entry /\ r[i].item = q[i].item
               /\ q[i].item # x => r[i] = q[i]
    <2>1. r[i] = IF q[i].item = x THEN [q[i] EXCEPT !.ready = TRUE] ELSE q[i]
      BY Zenon DEF Published
    <2>2. q[i] \in Entry
      OBVIOUS
    <2> QED BY Zenon, <2>1, <2>2 DEF Entry
  <1>2. r \in Seq(Entry) /\ Len(r) = Len(q) /\ Len(q) \in Nat
    <2>1. r = [i \in 1 .. Len(q) |-> r[i]] /\ Len(q) \in Nat
      BY DEF Published
    <2> HIDE DEF r
    <2> QED BY <1>1, <2>1
  <1> HIDE DEF r
  <1>3. Queued(r) = Queued(q) /\ OnceQueued(r)
    BY <1>1, <1>2 DEF Queued, OnceQueued
  <1>4. Unready(q) \ {x} \subseteq Unready(r)
    BY Zenon, <1>1, <1>2 DEF Unready
  <1> QED BY Zenon, <1>2, <1>3, <1>4 DEF r

\* The consumer takes the tail only when it is ready.
LEMMA PopTakesReady ==
  ASSUME NEW q \in Seq(Entry), Poppable(q), OnceQueued(q)
  PROVE  /\ Tail(q) \in Seq(Entry) /\ OnceQueued(Tail(q)) /\ Head(q) \in Entry
         /\ Head(q).item \in Queued(q) /\ Queued(Tail(q)) = Queued(q) \ {Head(q).item}
         /\ Unready(Tail(q)) = Unready(q)
  <1> DEFINE r == Tail(q)
  <1>1. /\ q # <<>> /\ Head(q) = q[1] /\ q[1].ready /\ Len(q) \in Nat \ {0}
        /\ q[1] \in Entry
    BY DEF Poppable
  <1>2. /\ r \in Seq(Entry) /\ Len(r) = Len(q) - 1
        /\ \A i \in 1 .. Len(q) - 1 : r[i] = q[i + 1]
    BY <1>1
  <1> HIDE DEF r
  <1>3. \A i \in 1 .. Len(q) : i = 1 \/ (i - 1 \in 1 .. Len(r) /\ r[i - 1] = q[i])
    BY <1>1, <1>2
  <1>4. \A i \in 1 .. Len(r) : i + 1 \in 1 .. Len(q) /\ i + 1 # 1 /\ r[i] = q[i + 1]
    BY <1>1, <1>2
  <1>5. OnceQueued(r)
    BY <1>2, <1>4 DEF OnceQueued
  <1>6. 1 \in 1 .. Len(q)
    BY <1>1
  <1>7. Queued(r) = Queued(q) \ {q[1].item}
    <2>1. Queued(r) \subseteq Queued(q) \ {q[1].item}
      BY SMTT(30), <1>4, <1>6 DEF Queued, OnceQueued
    <2>2. Queued(q) \ {q[1].item} \subseteq Queued(r)
      BY <1>3 DEF Queued
    <2> QED BY Zenon, <2>1, <2>2
  <1>8. Unready(r) = Unready(q)
    <2>1. Unready(r) \subseteq Unready(q)
      BY Zenon, <1>4 DEF Unready
    <2>2. Unready(q) \subseteq Unready(r)
      BY <1>1, <1>3 DEF Unready
    <2> QED BY Zenon, <2>1, <2>2
  <1>9. q[1].item \in Queued(q)
    BY Zenon, <1>6 DEF Queued
  <1> QED BY Zenon, <1>1, <1>2, <1>5, <1>7, <1>8, <1>9 DEF r

\* The batch grows by the item.
LEMMA BatchGrows ==
  ASSUME NEW p \in Seq(AnItem), NEW x \in AnItem, x \notin Items(p), Once(p)
  PROVE  /\ Append(p, x) \in Seq(AnItem) /\ Once(Append(p, x))
         /\ Items(Append(p, x)) = Items(p) \cup {x}
  <1> DEFINE r == Append(p, x)
  <1>1. /\ r \in Seq(AnItem) /\ Len(r) = Len(p) + 1 /\ Len(p) \in Nat
        /\ r[Len(p) + 1] = x /\ \A i \in 1 .. Len(p) : r[i] = p[i]
    OBVIOUS
  <1> HIDE DEF r
  <1>2. 1 .. Len(r) = (1 .. Len(p)) \cup {Len(p) + 1}
    BY <1>1
  <1>3. Items(r) = Items(p) \cup {x}
    BY <1>1, <1>2 DEF Items
  <1>4. Once(r)
    BY <1>1, <1>2 DEF Once, Items
  <1> QED BY Zenon, <1>1, <1>3, <1>4 DEF r

\* in_flight_count is the number of items the request carries.
LEMMA BatchCounted ==
  ASSUME NEW p \in Seq(AnItem), Once(p)
  PROVE  IsFiniteSet(Items(p)) /\ Cardinality(Items(p)) = Len(p) /\ Len(p) \in Nat
  <1> DEFINE f == [i \in 1 .. Len(p) |-> p[i]]
  <1>1. Len(p) \in Nat /\ f \in [1 .. Len(p) -> Items(p)]
    BY DEF Items
  <1>2. f \in Bijection(1 .. Len(p), Items(p))
    <2>1. \A i, j \in 1 .. Len(p) : f[i] = f[j] => i = j
      BY Zenon DEF Once
    <2>2. \A x \in Items(p) : \E i \in 1 .. Len(p) : f[i] = x
      BY Zenon DEF Items
    <2> HIDE DEF f
    <2> QED BY Zenon, <1>1, <2>1, <2>2 DEF Bijection, Injection, Surjection, IsInjective
  <1>3. ExistsBijection(1 .. Len(p), Items(p))
    BY Zenon, <1>2 DEF ExistsBijection
  <1> QED BY Zenon, <1>1, <1>3, FS_CountingElements, FS_NatBijection

-----------------------------------------------------------------------------
(* Where an item is.                                                        *)

ItemTypes ==
    /\ opts \in OptionSet /\ at \in Signal
    /\ emitter \in [Emitters -> Counted \cup {"idle", "enter"}]
    /\ done \in [Emitters -> Nat]
    /\ queue \in [Signal -> Seq(Entry)] /\ pending \in [Signal -> Seq(AnItem)]
    /\ request \in [signal : Signal, n : Nat, body : SUBSET AnItem,
                    state : {"none", "busy", "ok", "retry", "fatal"}]
    /\ counts \in [Signal -> [emitted : Nat, sent : Nat, err : Nat]]
    /\ sent \in SUBSET AnItem /\ dropped \in SUBSET AnItem
    /\ IsFiniteSet(sent) /\ IsFiniteSet(dropped)

\* An item its emitter has pushed: one of the earlier ones, or the present one
\* once the emitter is past its push.
Pushed(i) ==
    \/ i[2] < done[i[1]]
    \/ i[2] = done[i[1]] /\ emitter[i[1]] \in {"publish", "count", "leave"}

Here(s) == Queued(queue[s]) \cup Items(pending[s])

\* An item is in one place at a time: once in the queue of its signal, once in
\* the batch of its signal, or settled.
Placed ==
    /\ \A s \in Signal :
         /\ OnceQueued(queue[s]) /\ Once(pending[s])
         /\ Queued(queue[s]) \cap Items(pending[s]) = {}
         /\ \A i \in Here(s) : SignalOf(i[1]) = s /\ Pushed(i) /\ ~Settled(i)
    /\ \A i \in sent \cup dropped : Pushed(i)

\* The item of an emitter between the two halves of its push is in the queue,
\* where no tick can take it.
Offered ==
    \A e \in Emitters : emitter[e] = "publish" => Item(e) \in Unready(queue[SignalOf(e)])

\* A request in flight holds the first items of its batch, and what is behind
\* them was drained after it was posted.
Carries ==
    InFlight => /\ request.body \subseteq Items(pending[request.signal])
                /\ IsFiniteSet(request.body) /\ request.n = Cardinality(request.body)
                /\ Items(pending[request.signal]) \subseteq request.body \cup behind

\* Whatever was accepted is somewhere, or was lost where an item may be.
Kept == \A i \in accepted : i \in Waiting \/ Settled(i) \/ i \in behind \/ i \in freed

Accounts == ItemTypes /\ Placed /\ Offered /\ Carries
            /\ Kept /\ CountersHonest

\* What is queued or pending is an item.
LEMMA HereItems ==
  ASSUME ItemTypes, NEW s \in Signal
  PROVE  /\ queue[s] \in Seq(Entry) /\ pending[s] \in Seq(AnItem)
         /\ Queued(queue[s]) \subseteq AnItem /\ Items(pending[s]) \subseteq AnItem
  <1>1. queue[s] \in Seq(Entry) /\ pending[s] \in Seq(AnItem)
    BY Zenon DEF ItemTypes
  <1>2. \A i \in 1 .. Len(queue[s]) : queue[s][i] \in Entry
    BY <1>1
  <1>3. Queued(queue[s]) \subseteq AnItem
    BY Zenon, <1>2 DEF Queued, Entry
  <1>4. Items(pending[s]) \subseteq AnItem
    BY <1>1 DEF Items
  <1> QED BY Zenon, <1>1, <1>3, <1>4

\* The signal of an emitter, from the assumption on the options.
LEMMA EmitterSignal ==
  ASSUME ItemTypes, NEW e \in Emitters
  PROVE  SignalOf(e) \in Signal /\ Item(e) \in AnItem /\ Item(e)[1] = e
         /\ Item(e)[2] = done[e]
  BY OptionsAssumption DEF ItemTypes, SignalOf, Item, AnItem, Signal

\* The waiting items are the queued and the pending ones.
LEMMA WaitingIs ==
  /\ \A i : i \in Waiting <=> \E s \in Signal : i \in Here(s)
  /\ \A i : i \in Waiting' <=> \E s \in Signal : i \in Here(s)'
  BY Zenon DEF Waiting, Here, Queued

\* The items of a set that belong to a signal, and the statistics in these terms.
OfSignal(signal, items, s) == {i \in items : signal[i[1]] = s}
Honest(signal, c, in, out) ==
    /\ in \cap out = {}
    /\ \A s \in Signal : /\ c[s].sent = Cardinality(OfSignal(signal, in, s))
                        /\ c[s].err = Cardinality(OfSignal(signal, out, s))

\* CountersHonest says so, before and after a step.
LEMMA HonestIs ==
  /\ CountersHonest <=> Honest(opts.signal, counts, sent, dropped)
  /\ CountersHonest' <=> Honest(opts'.signal, counts', sent', dropped')
  BY Zenon DEF CountersHonest, Honest, OfSignal, SignalOf

Up(s, f, n) == counts' = [counts EXCEPT ![s] = [counts[s] EXCEPT ![f] = counts[s][f] + n]]

\* One counter of one signal goes up; the others stay.
LEMMA CounterUp ==
  ASSUME ItemTypes, NEW s \in Signal, NEW n \in Nat, NEW f \in {"emitted", "sent", "err"},
         Up(s, f, n)
  PROVE  /\ counts' \in [Signal -> [emitted : Nat, sent : Nat, err : Nat]]
         /\ \A r \in Signal, g \in {"emitted", "sent", "err"} :
              counts'[r][g] = counts[r][g] + (IF r = s /\ g = f THEN n ELSE 0)
  <1> DEFINE c == counts[s]
             d == [c EXCEPT ![f] = c[f] + n]
  <1>1. counts \in [Signal -> [emitted : Nat, sent : Nat, err : Nat]]
    BY Zenon DEF ItemTypes
  <1>2. c \in [emitted : Nat, sent : Nat, err : Nat]
    BY Zenon, <1>1
  <1>3. c.emitted \in Nat /\ c.sent \in Nat /\ c.err \in Nat
    BY Zenon, <1>2
  <1>4. c[f] + n \in Nat
    BY <1>3
  <1>5. d \in [emitted : Nat, sent : Nat, err : Nat]
    BY Zenon, <1>2, <1>4
  <1>6. \A g \in {"emitted", "sent", "err"} : d[g] = c[g] + (IF g = f THEN n ELSE 0)
    BY <1>2, <1>3
  <1>7. counts' = [counts EXCEPT ![s] = d]
    BY Zenon DEF Up
  <1> HIDE DEF d
  <1>8. counts' \in [Signal -> [emitted : Nat, sent : Nat, err : Nat]]
    BY Zenon, <1>1, <1>5, <1>7
  <1>9. ASSUME NEW r \in Signal, NEW g \in {"emitted", "sent", "err"}
        PROVE  counts'[r][g] = counts[r][g] + (IF r = s /\ g = f THEN n ELSE 0)
    <2>1. CASE r = s
      BY Zenon, <2>1, <1>1, <1>6, <1>7
    <2>2. CASE r # s
      <3>1. counts'[r] = counts[r]
        BY Zenon, <2>2, <1>1, <1>7
      <3>2. counts[r][g] \in Nat
        BY Zenon, <1>1
      <3> QED BY <2>2, <3>1, <3>2
    <2> QED BY Zenon, <2>1, <2>2
  <1> QED BY Zenon, <1>8, <1>9

\* The next signal of a round is a signal.
LEMMA NextSignal ==
  ASSUME at \in Signal
  PROVE  (IF at = Signals THEN 1 ELSE at + 1) \in Signal
  BY SignalsAssumption DEF Signal

\* A finite set B of items of signal s, apart from the finite set S; and what
\* adding them to S does to the count of signal r.
Joins(f, S, B, s) ==
    IsFiniteSet(S) /\ IsFiniteSet(B) /\ S \cap B = {} /\ OfSignal(f, B, s) = B
Adds(f, S, B, s, r) ==
    LET before == Cardinality(OfSignal(f, S, r))
        after == Cardinality(OfSignal(f, S \cup B, r))
    IN before \in Nat /\ after = IF r = s THEN before + Cardinality(B) ELSE before

\* The items of a settled batch are counted under its signal and no other.
LEMMA SettleCounts ==
  ASSUME NEW f, NEW S, NEW B, NEW s, NEW r, Joins(f, S, B, s)
  PROVE  Adds(f, S, B, s, r)
  <1> USE DEF Joins
  <1> DEFINE A == OfSignal(f, S, r)
             C == OfSignal(f, S \cup B, r)
  <1> USE DEF OfSignal
  <1>1. IsFiniteSet(A)
    <2>1. A \subseteq S
      BY Zenon
    <2> QED BY Zenon, <2>1, FS_Subset
  <1>2. Cardinality(A) \in Nat /\ Cardinality(B) \in Nat
    BY Zenon, <1>1, FS_CardinalityType
  <1>3. A \cap B = {}
    BY Zenon
  <1>4. Cardinality(A \cap B) = 0
    BY Zenon, <1>3, FS_EmptySet
  <1>5. Cardinality(A \cup B) = Cardinality(A) + Cardinality(B)
    <2>1. Cardinality(A \cup B) = Cardinality(A) + Cardinality(B) - Cardinality(A \cap B)
      BY Zenon, <1>1, FS_Union
    <2> HIDE DEF A
    <2> QED BY <2>1, <1>2, <1>4
  <1>6. r = s => C = A \cup B
    BY Zenon
  <1>7. r # s => C = A
    BY Zenon
  <1> HIDE DEF A, C
  <1>8. Cardinality(C) = IF r = s THEN Cardinality(A) + Cardinality(B) ELSE Cardinality(A)
    BY Zenon, <1>5, <1>6, <1>7
  <1> QED BY Zenon, <1>2, <1>8 DEF Adds, A, C

-----------------------------------------------------------------------------
(* The steps, by what they do to the items.                                 *)

\* A step that leaves the items where they are.
Aside ==
    /\ UNCHANGED <<opts, queue, pending, request, counts, sent, dropped, behind, freed,
                   accepted>>
    /\ at' \in Signal /\ done' \in [Emitters -> Nat]
    /\ emitter' \in [Emitters -> Counted \cup {"idle", "enter"}]
    /\ \A e \in Emitters :
         emitter'[e] = "publish" => emitter[e] = "publish" /\ done'[e] = done[e]
    /\ \A i \in AnItem : Pushed(i) => Pushed(i)'

\* A step that posts the batch, gets an answer or gives a batch back for a retry.
Reposts ==
    /\ UNCHANGED <<opts, queue, pending, counts, sent, dropped, behind, freed, accepted,
                   emitter, done>>
    /\ at' \in Signal
    /\ request' \in [signal : Signal, n : Nat, body : SUBSET AnItem,
                     state : {"none", "busy", "ok", "retry", "fatal"}]
    /\ Carries'

\* Nothing moves.
LEMMA AsideKeeps ==
  ASSUME Accounts, Aside
  PROVE  Accounts'
  <1> USE DEF Accounts
  <1>1. ItemTypes'
    BY Zenon DEF ItemTypes, Aside
  <1>2. \A s \in Signal : Here(s)' = Here(s) /\ Here(s) \subseteq AnItem
    BY Zenon, HereItems DEF Here, Aside
  <1>3. Placed'
    <2>1. \A i : SignalOf(i[1])' = SignalOf(i[1]) /\ (Settled(i)' <=> Settled(i))
      BY Zenon DEF SignalOf, Settled, Aside
    <2>2. sent \cup dropped \subseteq AnItem
      BY Zenon DEF ItemTypes
    <2> QED BY Zenon, <1>2, <2>1, <2>2 DEF Placed, Aside
  <1>4. Offered'
    BY Zenon DEF Offered, Aside, SignalOf, Item
  <1>5. Carries'
    BY Zenon DEF Carries, Aside, InFlight
  <1>6. Kept' /\ CountersHonest'
    BY HonestIs DEF Kept, Aside, Waiting, Settled
  <1> QED BY Zenon, <1>1, <1>3, <1>4, <1>5, <1>6

\* The items stay where they are, with a request that carries some of them.
LEMMA RepostsKeeps ==
  ASSUME Accounts, Reposts
  PROVE  Accounts'
  <1> USE DEF Accounts
  <1>1. ItemTypes'
    BY Zenon DEF ItemTypes, Reposts
  <1>2. Placed'
    BY DEF Placed, Reposts, Here, Pushed, SignalOf, Settled
  <1>3. Offered'
    BY Zenon DEF Offered, Reposts, SignalOf, Item
  <1>4. Kept' /\ CountersHonest'
    BY HonestIs DEF Kept, Reposts, Waiting, Settled
  <1> QED BY Zenon, <1>1, <1>2, <1>3, <1>4 DEF Reposts

\* What an emitter has pushed stays pushed when it goes on, before its push or
\* after it.
LEMMA PushedStays ==
  ASSUME ItemTypes, NEW e \in Emitters, NEW from, NEW to, AtEmit(e, from, to),
         UNCHANGED done,
         from \in {"publish", "count", "leave"} => to \in {"publish", "count", "leave"}
  PROVE  \A i \in AnItem : Pushed(i) => Pushed(i)'
  <1> SUFFICES ASSUME NEW i \in AnItem, Pushed(i)
               PROVE  Pushed(i)'
    BY Zenon
  <1>1. i[1] \in Emitters /\ i[2] \in Nat
    BY Zenon DEF AnItem
  <1>2. emitter'[i[1]] = IF i[1] = e THEN to ELSE emitter[i[1]]
    BY Zenon, <1>1 DEF AtEmit, ItemTypes
  <1>3. i[1] = e => emitter[i[1]] = from
    BY Zenon DEF AtEmit
  <1> QED BY Zenon, <1>2, <1>3 DEF Pushed

\* The item of a push is new: it is nowhere yet.
LEMMA ItemIsNew ==
  ASSUME Accounts, NEW e \in Emitters, emitter[e] = "push"
  PROVE  /\ \A s \in Signal : Item(e) \notin Here(s)
         /\ ~Settled(Item(e))
  <1>1. ~Pushed(Item(e))
    <2>1. Item(e)[1] = e /\ Item(e)[2] = done[e] /\ done[e] \in Nat
      BY Zenon, EmitterSignal DEF Accounts, ItemTypes
    <2> QED BY <2>1 DEF Pushed
  <1> QED BY Zenon, <1>1 DEF Accounts, Placed, Settled

\* emit_move_common takes the item: it is in the queue of its signal, and no
\* tick can have it before it is published.
LEMMA PushKeeps ==
  ASSUME Accounts, NEW e \in Emitters, EmitPushes(e), queue' # queue
  PROVE  Accounts'
  <1> USE DEF Accounts
  <1> PICK s \in Signal, x \in AnItem : s = SignalOf(e) /\ x = Item(e)
    BY Zenon, EmitterSignal
  <1>1. /\ AtEmit(e, "push", "publish")
        /\ queue' = [queue EXCEPT ![s] = Reserved(queue[s], x)]
        /\ UNCHANGED <<opts, at, done, pending, request, counts, sent, dropped, behind, freed,
                       accepted>>
    BY Zenon DEF EmitPushes, doorVars, batchVars, history, outcomes, threadVars
  <1>2. x[1] = e /\ x[2] = done[e]
    BY Zenon, EmitterSignal
  <1>3. emitter[e] = "push" /\ emitter' = [emitter EXCEPT ![e] = "publish"]
    BY Zenon, <1>1 DEF AtEmit
  <1>4. /\ \A r \in Signal : x \notin Here(r)
        /\ ~Settled(x)
    BY Zenon, <1>3, ItemIsNew
  <1>5. /\ queue[s] \in Seq(Entry) /\ OnceQueued(queue[s])
        /\ x \notin Queued(queue[s])
    BY Zenon, <1>2, <1>4, HereItems DEF Placed, Here
  <1>6. /\ Reserved(queue[s], x) \in Seq(Entry) /\ OnceQueued(Reserved(queue[s], x))
        /\ Queued(Reserved(queue[s], x)) = Queued(queue[s]) \cup {x}
        /\ Unready(Reserved(queue[s], x)) = Unready(queue[s]) \cup {x}
    BY Zenon, <1>2, <1>5, PushReserves
  <1>7. \A i : SignalOf(i)' = SignalOf(i)
    BY Zenon, <1>1 DEF SignalOf
  <1>8. \A i : Item(i)' = Item(i)
    BY Zenon, <1>1 DEF Item
  <1>9. /\ OnceQueued(queue'[s]) /\ queue'[s] \in Seq(Entry)
        /\ Queued(queue'[s]) = Queued(queue[s]) \cup {x}
        /\ Unready(queue'[s]) = Unready(queue[s]) \cup {x}
        /\ \A r \in Signal \ {s} : queue'[r] = queue[r]
    <2>1. /\ queue'[s] = Reserved(queue[s], x)
          /\ \A r \in Signal \ {s} : queue'[r] = queue[r]
      BY <1>1 DEF ItemTypes
    <2> QED BY Zenon, <2>1, <1>6
  <1>10. /\ emitter' \in [Emitters -> Counted \cup {"idle", "enter"}]
         /\ emitter'[e] = "publish"
         /\ \A d \in Emitters \ {e} : emitter'[d] = emitter[d]
    BY <1>3 DEF ItemTypes, Counted, Active
  <1>11. ItemTypes'
    <2>1. queue' \in [Signal -> Seq(Entry)]
      BY Zenon, <1>1, <1>2, <1>6 DEF ItemTypes
    <2> QED BY Zenon, <1>1, <1>10, <2>1 DEF ItemTypes
  <1>12. \A i \in AnItem : Pushed(i) => Pushed(i)'
    BY Zenon, <1>1, PushedStays
  <1>13. Pushed(x)'
    BY Zenon, <1>1, <1>2, <1>10 DEF Pushed
  <1>14. \A i : Settled(i)' <=> Settled(i)
    BY Zenon, <1>1 DEF Settled
  <1>15. ASSUME NEW r \in Signal
         PROVE  /\ Here(r)' = Here(r) \cup (IF r = s THEN {x} ELSE {})
                /\ Here(r) \subseteq AnItem
    BY Zenon, <1>1, <1>9, HereItems DEF Here
  <1>16. Placed'
    <2>1. ASSUME NEW r \in Signal
          PROVE  /\ OnceQueued(queue'[r]) /\ Once(pending'[r])
                 /\ Queued(queue'[r]) \cap Items(pending'[r]) = {}
      <3>1. /\ OnceQueued(queue[r]) /\ Once(pending[r]) /\ pending'[r] = pending[r]
            /\ Queued(queue[r]) \cap Items(pending[r]) = {} /\ x \notin Items(pending[r])
        BY Zenon, <1>1, <1>4 DEF Placed, Here
      <3>2. CASE r = s BY <1>9, <3>1, <3>2
      <3>3. CASE r # s
        <4>1. queue'[r] = queue[r] BY Zenon, <1>9, <3>3
        <4> QED BY Zenon, <3>1, <4>1
      <3> QED BY Zenon, <3>2, <3>3
    <2>2. ASSUME NEW r \in Signal, NEW i \in Here(r)'
          PROVE  SignalOf(i[1])' = r /\ Pushed(i)' /\ ~Settled(i)'
      <3>1. CASE i \in Here(r)
        BY Zenon, <3>1, <1>7, <1>12, <1>14, <1>15 DEF Placed
      <3>2. CASE r = s /\ i = x
        BY Zenon, <3>2, <1>2, <1>4, <1>7, <1>13, <1>14
      <3> QED BY Zenon, <3>1, <3>2, <1>15
    <2>3. \A i \in (sent \cup dropped)' : Pushed(i)'
      BY Zenon, <1>1, <1>12 DEF Placed, ItemTypes
    <2> QED BY Zenon, <2>1, <2>2, <2>3 DEF Placed
  <1>17. Offered'
    <2> SUFFICES ASSUME NEW d \in Emitters, emitter'[d] = "publish"
                 PROVE  Item(d) \in Unready(queue'[SignalOf(d)])
      BY Zenon, <1>7, <1>8 DEF Offered
    <2>1. CASE d = e
      BY Zenon, <2>1, <1>9
    <2>2. CASE d # e
      <3>1. Item(d) \in Unready(queue[SignalOf(d)]) /\ SignalOf(d) \in Signal
        BY Zenon, <2>2, <1>10, EmitterSignal DEF Offered
      <3> QED BY Zenon, <3>1, <1>9
    <2> QED BY Zenon, <2>1, <2>2
  <1>18. Carries'
    BY Zenon, <1>1 DEF Carries, InFlight
  <1>19. Kept'
    <2>1. Waiting \subseteq Waiting'
      BY Zenon, <1>15, WaitingIs
    <2> QED BY Zenon, <1>1, <1>14, <2>1 DEF Kept
  <1>20. CountersHonest'
    BY Zenon, <1>1, HonestIs
  <1> QED BY Zenon, <1>11, <1>16, <1>17, <1>18, <1>19, <1>20

\* The item is published: it is accepted, and it is in the queue.
LEMMA PublishKeeps ==
  ASSUME Accounts, NEW e \in Emitters, EmitPublishes(e)
  PROVE  Accounts'
  <1> DEFINE s == SignalOf(e)
             x == Item(e)
  <1> USE DEF Accounts
  <1>1. /\ AtEmit(e, "publish", "count")
        /\ queue' = [queue EXCEPT ![s] = Published(queue[s], x)]
        /\ accepted' = accepted \cup {x}
        /\ UNCHANGED <<opts, at, done, pending, request, counts, sent, dropped, behind, freed>>
    BY Zenon DEF EmitPublishes, doorVars, batchVars, outcomes, threadVars
  <1>2. s \in Signal /\ x \in AnItem /\ x[1] = e
    BY Zenon, EmitterSignal
  <1>3. emitter[e] = "publish" /\ emitter' = [emitter EXCEPT ![e] = "count"]
    BY Zenon, <1>1 DEF AtEmit
  <1>4. queue[s] \in Seq(Entry) /\ OnceQueued(queue[s])
    BY Zenon, <1>2, HereItems DEF Placed
  <1>5. /\ Published(queue[s], x) \in Seq(Entry) /\ OnceQueued(Published(queue[s], x))
        /\ Queued(Published(queue[s], x)) = Queued(queue[s])
        /\ Unready(queue[s]) \ {x} \subseteq Unready(Published(queue[s], x))
    BY Zenon, <1>4, PublishReadies
  <1>6. x \in Queued(queue[s])
    <2>1. x \in Unready(queue[s])
      BY Zenon, <1>3 DEF Offered
    <2> QED BY Zenon, <2>1 DEF Unready, Queued
  <1>7. \A i : SignalOf(i)' = SignalOf(i)
    BY Zenon, <1>1 DEF SignalOf
  <1>8. \A i : Item(i)' = Item(i)
    BY Zenon, <1>1 DEF Item
  <1> HIDE DEF s
  <1>9. /\ OnceQueued(queue'[s]) /\ Queued(queue'[s]) = Queued(queue[s])
        /\ Unready(queue[s]) \ {x} \subseteq Unready(queue'[s])
        /\ \A r \in Signal \ {s} : queue'[r] = queue[r]
    BY <1>1, <1>2, <1>5 DEF ItemTypes
  <1>10. /\ emitter' \in [Emitters -> Counted \cup {"idle", "enter"}]
         /\ emitter'[e] = "count"
         /\ \A d \in Emitters \ {e} : emitter'[d] = emitter[d]
    BY <1>3 DEF ItemTypes, Counted, Active
  <1>11. ItemTypes'
    <2>1. queue' \in [Signal -> Seq(Entry)]
      BY Zenon, <1>1, <1>2, <1>5 DEF ItemTypes
    <2> QED BY Zenon, <1>1, <1>10, <2>1 DEF ItemTypes
  <1>12. \A i \in AnItem : Pushed(i) => Pushed(i)'
    BY Zenon, <1>1, PushedStays
  <1>13. \A i : Settled(i)' <=> Settled(i)
    BY Zenon, <1>1 DEF Settled
  <1>14. ASSUME NEW r \in Signal
         PROVE  /\ Queued(queue'[r]) = Queued(queue[r]) /\ OnceQueued(queue'[r])
                /\ Here(r)' = Here(r) /\ Here(r) \subseteq AnItem
    BY Zenon, <1>1, <1>9, HereItems DEF Here, Placed
  <1>15. Placed'
    <2>1. ASSUME NEW r \in Signal
          PROVE  /\ OnceQueued(queue'[r]) /\ Once(pending'[r])
                 /\ Queued(queue'[r]) \cap Items(pending'[r]) = {}
      BY Zenon, <1>1, <1>14 DEF Placed
    <2>2. ASSUME NEW r \in Signal, NEW i \in Here(r)'
          PROVE  SignalOf(i[1])' = r /\ Pushed(i)' /\ ~Settled(i)'
      BY Zenon, <1>7, <1>12, <1>13, <1>14 DEF Placed
    <2>3. \A i \in (sent \cup dropped)' : Pushed(i)'
      BY Zenon, <1>1, <1>12 DEF Placed, ItemTypes
    <2> QED BY Zenon, <2>1, <2>2, <2>3 DEF Placed
  <1>16. Offered'
    <2> SUFFICES ASSUME NEW d \in Emitters, emitter'[d] = "publish"
                 PROVE  Item(d) \in Unready(queue'[SignalOf(d)])
      BY Zenon, <1>7, <1>8 DEF Offered
    <2>1. d # e /\ emitter[d] = "publish"
      BY Zenon, <1>10
    <2>2. Item(d) \in Unready(queue[SignalOf(d)]) /\ SignalOf(d) \in Signal
          /\ Item(d) # x
      BY Zenon, <2>1, <1>2, EmitterSignal DEF Offered
    <2> QED BY Zenon, <2>2, <1>9
  <1>17. Carries'
    BY Zenon, <1>1 DEF Carries, InFlight
  <1>18. Kept'
    <2>1. Waiting' = Waiting
      BY Zenon, <1>14, WaitingIs
    <2>2. x \in Waiting
      BY Zenon, <1>2, <1>6, WaitingIs DEF Here
    <2> QED BY Zenon, <1>1, <1>13, <2>1, <2>2 DEF Kept
  <1>19. CountersHonest'
    BY Zenon, <1>1, HonestIs
  <1> QED BY Zenon, <1>11, <1>15, <1>16, <1>17, <1>18, <1>19

\* The count of the items taken has nothing to do with the two others.
LEMMA CountKeeps ==
  ASSUME Accounts, NEW e \in Emitters, EmitCounts(e)
  PROVE  Accounts'
  <1> DEFINE s == SignalOf(e)
  <1> USE DEF Accounts
  <1>1. /\ AtEmit(e, "count", "leave")
        /\ counts' = [counts EXCEPT ![s].emitted = @ + 1]
        /\ UNCHANGED <<opts, at, done, queue, pending, request, accepted, sent,
                       dropped, behind, freed>>
    BY Zenon DEF EmitCounts, doorVars, batchVars, history, outcomes, threadVars
  <1>2. s \in Signal
    BY Zenon, EmitterSignal
  <1> HIDE DEF s
  <1>3. /\ counts' \in [Signal -> [emitted : Nat, sent : Nat, err : Nat]]
        /\ \A r \in Signal : counts'[r].sent = counts[r].sent
                             /\ counts'[r].err = counts[r].err
    <2>1. Up(s, "emitted", 1)
      BY Zenon, <1>1 DEF Up
    <2>2. \A r \in Signal : counts[r].sent \in Nat /\ counts[r].err \in Nat
      BY Zenon DEF ItemTypes
    <2>3. /\ counts' \in [Signal -> [emitted : Nat, sent : Nat, err : Nat]]
          /\ \A r \in Signal, g \in {"emitted", "sent", "err"} :
               counts'[r][g] = counts[r][g] + (IF r = s /\ g = "emitted" THEN 1 ELSE 0)
      BY <2>1, <1>2, CounterUp
    <2> QED BY <2>2, <2>3
  <1>4. /\ emitter' \in [Emitters -> Counted \cup {"idle", "enter"}]
        /\ \A d \in Emitters : emitter'[d] = "publish" => emitter[d] = "publish"
    BY Zenon, <1>1 DEF AtEmit, ItemTypes, Counted, Active
  <1>5. \A i \in AnItem : Pushed(i) => Pushed(i)'
    BY Zenon, <1>1, PushedStays
  <1>6. ItemTypes'
    BY Zenon, <1>1, <1>3, <1>4 DEF ItemTypes
  <1>7. Placed'
    <2>1. \A i : SignalOf(i[1])' = SignalOf(i[1]) /\ (Settled(i)' <=> Settled(i))
      BY Zenon, <1>1 DEF SignalOf, Settled
    <2>2. \A r \in Signal : Here(r)' = Here(r) /\ Here(r) \subseteq AnItem
      BY Zenon, <1>1, HereItems DEF Here
    <2>3. sent \cup dropped \subseteq AnItem
      BY Zenon DEF ItemTypes
    <2> QED BY Zenon, <1>1, <1>5, <2>1, <2>2, <2>3 DEF Placed
  <1>8. Offered'
    BY Zenon, <1>1, <1>4 DEF Offered, SignalOf, Item
  <1>9. Carries' /\ Kept'
    BY <1>1 DEF Carries, InFlight, Kept, Waiting, Settled
  <1>10. CountersHonest'
    BY Zenon, <1>1, <1>3, HonestIs DEF Honest
  <1> QED BY Zenon, <1>6, <1>7, <1>8, <1>9, <1>10

\* A tick takes the oldest item of a queue into the batch of the same signal.
\* Behind a request in flight for that signal it is remembered as such.
LEMMA PopKeeps ==
  ASSUME Accounts, TickPops
  PROVE  Accounts'
  <1> DEFINE x == Head(queue[at]).item
  <1> USE DEF Accounts
  <1>1. /\ Poppable(queue[at])
        /\ queue' = [queue EXCEPT ![at] = Tail(queue[at])]
        /\ pending' = [pending EXCEPT ![at] = Append(pending[at], x)]
        /\ behind' = IF InFlight /\ request.signal = at THEN behind \cup {x} ELSE behind
        /\ UNCHANGED <<opts, at, emitter, done, request, counts, accepted, freed, sent, dropped>>
    BY Zenon DEF TickPops, tickOnly, doorVars
  <1>2. at \in Signal
    BY Zenon DEF ItemTypes
  <1>3. /\ queue[at] \in Seq(Entry) /\ pending[at] \in Seq(AnItem)
        /\ OnceQueued(queue[at]) /\ Once(pending[at])
        /\ Queued(queue[at]) \cap Items(pending[at]) = {}
        /\ Queued(queue[at]) \subseteq AnItem
    BY Zenon, <1>2, HereItems DEF Placed
  <1>4. /\ Tail(queue[at]) \in Seq(Entry) /\ OnceQueued(Tail(queue[at]))
        /\ x \in Queued(queue[at]) /\ Queued(Tail(queue[at])) = Queued(queue[at]) \ {x}
        /\ Unready(Tail(queue[at])) = Unready(queue[at])
    BY Zenon, <1>1, <1>3, PopTakesReady
  <1> HIDE DEF x
  <1>5. /\ Append(pending[at], x) \in Seq(AnItem) /\ Once(Append(pending[at], x))
        /\ Items(Append(pending[at], x)) = Items(pending[at]) \cup {x}
    <2>1. x \in AnItem /\ x \notin Items(pending[at])
      BY Zenon, <1>3, <1>4
    <2> QED BY Zenon, <1>3, <2>1, BatchGrows
  <1>6. ItemTypes'
    BY Zenon, <1>1, <1>2, <1>4, <1>5 DEF ItemTypes
  <1>7. /\ queue'[at] = Tail(queue[at]) /\ pending'[at] = Append(pending[at], x)
        /\ \A r \in Signal \ {at} : queue'[r] = queue[r] /\ pending'[r] = pending[r]
    BY <1>1, <1>2 DEF ItemTypes
  <1>8. /\ \A i : SignalOf(i)' = SignalOf(i) /\ (Settled(i)' <=> Settled(i))
        /\ \A i : Item(i)' = Item(i) /\ (Pushed(i)' <=> Pushed(i))
    BY Zenon, <1>1 DEF SignalOf, Settled, Item, Pushed
  <1>9. ASSUME NEW r \in Signal
        PROVE  /\ Here(r)' = Here(r)
               /\ OnceQueued(queue'[r]) /\ Once(pending'[r])
               /\ Queued(queue'[r]) \cap Items(pending'[r]) = {}
               /\ Unready(queue'[r]) = Unready(queue[r])
    <2>1. CASE r = at
      <3>1. queue'[r] = Tail(queue[r]) /\ pending'[r] = Append(pending[r], x)
        BY Zenon, <2>1, <1>7
      <3>2. /\ Queued(queue'[r]) = Queued(queue[r]) \ {x} /\ x \in Queued(queue[r])
            /\ Items(pending'[r]) = Items(pending[r]) \cup {x}
            /\ Queued(queue[r]) \cap Items(pending[r]) = {}
        BY Zenon, <2>1, <3>1, <1>3, <1>4, <1>5
      <3>3. Here(r)' = Here(r) /\ Queued(queue'[r]) \cap Items(pending'[r]) = {}
        BY Zenon, <3>2 DEF Here
      <3>4. /\ OnceQueued(queue'[r]) /\ Once(pending'[r])
            /\ Unready(queue'[r]) = Unready(queue[r])
        BY Zenon, <2>1, <3>1, <1>4, <1>5
      <3> QED BY Zenon, <3>3, <3>4
    <2>2. CASE r # at
      BY Zenon, <2>2, <1>7 DEF Here, Placed
    <2> QED BY Zenon, <2>1, <2>2
  <1>10. Placed'
    <2>1. \A i \in (sent \cup dropped)' : Pushed(i)'
      BY Zenon, <1>1, <1>8 DEF Placed
    <2> QED BY Zenon, <1>8, <1>9, <2>1 DEF Placed
  <1>11. Offered'
    <2>1. \A e \in Emitters : SignalOf(e) \in Signal
      BY Zenon, EmitterSignal
    <2> QED BY Zenon, <1>1, <1>8, <1>9, <2>1 DEF Offered
  <1>12. Carries'
    <2>1. request.signal \in Signal
      BY Zenon DEF ItemTypes
    <2>2. CASE request.signal = at
      BY Zenon, <2>2, <1>1, <1>5, <1>7 DEF Carries, InFlight
    <2>3. CASE request.signal # at
      BY Zenon, <2>1, <2>3, <1>1, <1>7 DEF Carries, InFlight
    <2> QED BY Zenon, <2>2, <2>3
  <1>13. Kept'
    <2>1. Waiting' = Waiting
      BY Zenon, <1>9, WaitingIs
    <2> QED BY Zenon, <1>1, <1>8, <2>1 DEF Kept
  <1>14. CountersHonest'
    BY Zenon, <1>1, HonestIs
  <1> QED BY Zenon, <1>6, <1>10, <1>11, <1>12, <1>13, <1>14

\* What a request in flight carries: items of its signal, not settled yet.
LEMMA CarriedItems ==
  ASSUME Accounts, InFlight
  PROVE  /\ request.signal \in Signal /\ request.n = Cardinality(request.body)
         /\ request.n \in Nat /\ IsFiniteSet(request.body)
         /\ request.body \subseteq Here(request.signal)
         /\ request.body \cap sent = {} /\ request.body \cap dropped = {}
         /\ \A i \in request.body : SignalOf(i[1]) = request.signal
         /\ \A i \in Items(pending[request.signal]) : i \in request.body \/ i \in behind
  <1> USE DEF Accounts
  <1>1. request.signal \in Signal /\ request.n \in Nat
    BY Zenon DEF ItemTypes
  <1>2. /\ request.body \subseteq Here(request.signal)
        /\ IsFiniteSet(request.body) /\ request.n = Cardinality(request.body)
        /\ Items(pending[request.signal]) \subseteq request.body \cup behind
    BY Zenon DEF Carries, Here
  <1>3. \A i \in Here(request.signal) : SignalOf(i[1]) = request.signal /\ ~Settled(i)
    BY Zenon, <1>1 DEF Placed
  <1> QED BY Zenon, <1>1, <1>2, <1>3 DEF Settled

\* The end of a batch: its items are sent, or they are dropped.
SettleTo(s) ==
    /\ pending' = [pending EXCEPT ![s] = <<>>]
    /\ request' = NoRequest(s)
    /\ UNCHANGED <<opts, at, emitter, done, queue, behind, freed, accepted>>
    /\ \/ /\ sent' = sent \cup request.body /\ UNCHANGED dropped
          /\ counts' = [counts EXCEPT ![s].sent = @ + request.n]
       \/ /\ dropped' = dropped \cup request.body /\ UNCHANGED sent
          /\ counts' = [counts EXCEPT ![s].err = @ + request.n]

\* clear_in_flight_batch empties the batch: what the request carried is settled
\* and counted, the rest was behind it.
LEMMA SettleKeeps ==
  ASSUME Accounts, InFlight, SettleTo(request.signal)
  PROVE  Accounts'
  <1> DEFINE s == request.signal
             B == request.body
  <1> USE DEF Accounts
  <1>1. /\ s \in Signal /\ request.n = Cardinality(B) /\ request.n \in Nat
        /\ IsFiniteSet(B) /\ B \subseteq Here(s)
        /\ B \cap sent = {} /\ B \cap dropped = {}
        /\ \A i \in B : SignalOf(i[1]) = s
        /\ \A i \in Items(pending[s]) : i \in B \/ i \in behind
    BY Zenon, CarriedItems
  <1>2. /\ pending' = [pending EXCEPT ![s] = <<>>] /\ request' = NoRequest(s)
        /\ UNCHANGED <<opts, at, emitter, done, queue, behind, freed, accepted>>
        /\ \/ /\ sent' = sent \cup B /\ UNCHANGED dropped
              /\ counts' = [counts EXCEPT ![s].sent = @ + request.n]
           \/ /\ dropped' = dropped \cup B /\ UNCHANGED sent
              /\ counts' = [counts EXCEPT ![s].err = @ + request.n]
    BY Zenon DEF SettleTo
  <1>3. B \in SUBSET AnItem
    BY Zenon DEF ItemTypes
  <1> HIDE DEF s, B
  <1>4. /\ (sent \cup dropped)' = sent \cup dropped \cup B
        /\ sent' \in SUBSET AnItem /\ dropped' \in SUBSET AnItem
        /\ IsFiniteSet(sent') /\ IsFiniteSet(dropped') /\ sent' \cap dropped' = {}
    <2>1. IsFiniteSet(sent \cup B) /\ IsFiniteSet(dropped \cup B)
      BY Zenon, <1>1, FS_Union DEF ItemTypes
    <2> QED BY Zenon, <1>1, <1>2, <1>3, <2>1 DEF ItemTypes, CountersHonest
  <1>5. counts' \in [Signal -> [emitted : Nat, sent : Nat, err : Nat]]
    <2>1. PICK g \in {"sent", "err"} : Up(s, g, request.n)
      BY Zenon, <1>2 DEF Up
    <2> QED BY Zenon, <2>1, <1>1, CounterUp
  <1>6. request' \in [signal : Signal, n : Nat, body : SUBSET AnItem,
                      state : {"none", "busy", "ok", "retry", "fatal"}]
    BY Zenon, <1>1, <1>2 DEF NoRequest
  <1>7. /\ pending' \in [Signal -> Seq(AnItem)] /\ pending'[s] = <<>>
        /\ \A r \in Signal \ {s} : pending'[r] = pending[r]
    BY <1>1, <1>2 DEF ItemTypes
  <1>8. ItemTypes'
    BY Zenon, <1>2, <1>4, <1>5, <1>6, <1>7 DEF ItemTypes
  <1>9. Items(pending'[s]) = {} /\ Once(pending'[s])
    BY <1>7 DEF Items, Once
  <1>10. ASSUME NEW r \in Signal
         PROVE  /\ Here(r)' \subseteq Here(r) /\ Here(r)' \cap B = {}
                /\ Once(pending'[r]) /\ Queued(queue'[r]) \cap Items(pending'[r]) = {}
    <2>1. CASE r = s
      <3>1. Here(r)' = Queued(queue[r])
        BY Zenon, <2>1, <1>2, <1>9 DEF Here
      <3>2. Queued(queue[r]) \cap B = {}
        <4>1. B \subseteq Items(pending[s])
          BY Zenon DEF B, s, Carries
        <4> QED BY Zenon, <2>1, <4>1, <1>1 DEF Placed
      <3> QED BY Zenon, <2>1, <3>1, <3>2, <1>9 DEF Here
    <2>2. CASE r # s
      <3>1. Here(r)' = Here(r)
        BY Zenon, <2>2, <1>2, <1>7 DEF Here
      <3>2. Here(r) \cap B = {}
        BY Zenon, <2>2, <1>1 DEF Placed
      <3> QED BY Zenon, <2>2, <3>1, <3>2, <1>2, <1>7 DEF Placed
    <2> QED BY Zenon, <2>1, <2>2
  <1>11. /\ \A i : SignalOf(i)' = SignalOf(i) /\ Item(i)' = Item(i)
         /\ \A i : Pushed(i)' <=> Pushed(i)
         /\ \A i : Settled(i)' <=> (Settled(i) \/ i \in B)
    BY Zenon, <1>2, <1>4 DEF SignalOf, Item, Pushed, Settled
  <1>12. Placed'
    <2>1. \A i \in (sent \cup dropped)' : Pushed(i)'
      BY Zenon, <1>1, <1>4, <1>11 DEF Placed
    <2>2. ASSUME NEW r \in Signal
          PROVE  /\ OnceQueued(queue'[r]) /\ Once(pending'[r])
                 /\ Queued(queue'[r]) \cap Items(pending'[r]) = {}
                 /\ \A i \in Here(r)' : SignalOf(i[1])' = r /\ Pushed(i)' /\ ~Settled(i)'
      BY Zenon, <1>2, <1>10, <1>11 DEF Placed
    <2> QED BY Zenon, <2>1, <2>2 DEF Placed
  <1>13. Offered'
    BY Zenon, <1>2, <1>11 DEF Offered
  <1>14. Carries'
    BY Zenon, <1>2 DEF Carries, InFlight, NoRequest
  <1>15. Kept'
    <2> SUFFICES ASSUME NEW i \in accepted, ~Settled(i), i \notin B, i \notin behind,
                        i \notin freed
                 PROVE  i \in Waiting'
      BY Zenon, <1>2, <1>11 DEF Kept
    <2>1. PICK r \in Signal : i \in Here(r)
      BY Zenon, WaitingIs DEF Kept
    <2>2. i \in Here(r)'
      BY Zenon, <2>1, <1>1, <1>2, <1>7 DEF Here
    <2> QED BY Zenon, <2>2, WaitingIs
  <1>16. CountersHonest'
    <2> DEFINE f == opts.signal
    <2>1. Honest(f, counts, sent, dropped)
      BY Zenon, HonestIs
    <2>2. OfSignal(f, B, s) = B
      BY Zenon, <1>1 DEF SignalOf, OfSignal
    <2> HIDE DEF f
    <2>3. ASSUME NEW r \in Signal
          PROVE  /\ Cardinality(OfSignal(f, sent \cup B, r))
                      = Cardinality(OfSignal(f, sent, r)) + (IF r = s THEN request.n ELSE 0)
                 /\ Cardinality(OfSignal(f, dropped \cup B, r))
                      = Cardinality(OfSignal(f, dropped, r)) + (IF r = s THEN request.n ELSE 0)
      <3>1. Joins(f, sent, B, s) /\ Joins(f, dropped, B, s)
        BY Zenon, <1>1, <2>2 DEF Joins, ItemTypes
      <3>2. Adds(f, sent, B, s, r) /\ Adds(f, dropped, B, s, r)
        BY Zenon, <3>1, SettleCounts
      <3> QED BY <1>1, <3>2 DEF Adds
    <2>4. \A r \in Signal : counts[r].sent \in Nat /\ counts[r].err \in Nat
      BY Zenon DEF ItemTypes
    <2>5. CASE sent' = sent \cup B /\ dropped' = dropped
               /\ counts' = [counts EXCEPT ![s].sent = @ + request.n]
      <3>1. Up(s, "sent", request.n)
        BY Zenon, <2>5 DEF Up
      <3>2. \A r \in Signal :
              /\ counts'[r].sent = counts[r].sent + (IF r = s THEN request.n ELSE 0)
              /\ counts'[r].err = counts[r].err
        <4>1. \A r \in Signal, g \in {"emitted", "sent", "err"} :
                counts'[r][g] = counts[r][g] + (IF r = s /\ g = "sent" THEN request.n ELSE 0)
          BY <3>1, <1>1, CounterUp
        <4>2. ASSUME NEW r \in Signal
              PROVE  /\ counts'[r].sent = counts[r].sent + (IF r = s THEN request.n ELSE 0)
                     /\ counts'[r].err = counts[r].err
          <5>1. counts[r].sent \in Nat /\ counts[r].err \in Nat BY Zenon, <2>4
          <5>2. counts'[r]["sent"] = counts[r]["sent"] + (IF r = s THEN request.n ELSE 0)
            BY Zenon, <4>1
          <5>3. counts'[r]["err"] = counts[r]["err"] + 0 BY Zenon, <4>1
          <5> QED BY <5>1, <5>2, <5>3
        <4> QED BY Zenon, <4>2
      <3>3. Honest(f, counts', sent', dropped')
        BY ZenonT(40), <3>2, <2>1, <2>3, <2>5, <1>4 DEF Honest
      <3> QED BY Zenon, <3>3, <1>2, HonestIs DEF f
    <2>6. CASE dropped' = dropped \cup B /\ sent' = sent
               /\ counts' = [counts EXCEPT ![s].err = @ + request.n]
      <3>1. Up(s, "err", request.n)
        BY Zenon, <2>6 DEF Up
      <3>2. \A r \in Signal :
              /\ counts'[r].err = counts[r].err + (IF r = s THEN request.n ELSE 0)
              /\ counts'[r].sent = counts[r].sent
        <4>1. \A r \in Signal, g \in {"emitted", "sent", "err"} :
                counts'[r][g] = counts[r][g] + (IF r = s /\ g = "err" THEN request.n ELSE 0)
          BY <3>1, <1>1, CounterUp
        <4>2. ASSUME NEW r \in Signal
              PROVE  /\ counts'[r].err = counts[r].err + (IF r = s THEN request.n ELSE 0)
                     /\ counts'[r].sent = counts[r].sent
          <5>1. counts[r].sent \in Nat /\ counts[r].err \in Nat BY <2>4
          <5>2. counts'[r]["err"] = counts[r]["err"] + (IF r = s THEN request.n ELSE 0)
            BY Zenon, <4>1
          <5>3. counts'[r]["sent"] = counts[r]["sent"] + 0 BY Zenon, <4>1
          <5> QED BY <5>1, <5>2, <5>3
        <4> QED BY Zenon, <4>2
      <3>3. Honest(f, counts', sent', dropped')
        BY ZenonT(40), <3>2, <2>1, <2>3, <2>6, <1>4 DEF Honest
      <3> QED BY <3>3, <1>2, HonestIs DEF f
    <2> QED BY Zenon, <2>5, <2>6, <1>2
  <1> QED BY Zenon, <1>8, <1>12, <1>13, <1>14, <1>15, <1>16

\* A request that try_start_post builds carries the batch as it is.
LEMMA PostCarries ==
  ASSUME Accounts, NEW s \in Signal, request' = Posted(s), UNCHANGED pending
  PROVE  /\ request' \in [signal : Signal, n : Nat, body : SUBSET AnItem,
                          state : {"none", "busy", "ok", "retry", "fatal"}]
         /\ Carries'
  <1>1. /\ pending[s] \in Seq(AnItem) /\ Once(pending[s])
        /\ Items(pending[s]) \subseteq AnItem
    BY Zenon, HereItems DEF Accounts, Placed
  <1>2. /\ IsFiniteSet(Items(pending[s])) /\ Cardinality(Items(pending[s])) = Len(pending[s])
        /\ Len(pending[s]) \in Nat
    BY Zenon, <1>1, BatchCounted
  <1> QED BY Zenon, <1>1, <1>2 DEF Posted, Carries, InFlight

\* The steps of the emitters that move no item.
LEMMA EmitAside ==
  ASSUME ItemTypes, NEW e \in Emitters,
         \/ EmitLooks(e) \/ EmitEnters(e) \/ EmitRechecks(e) \/ EnsureThread(e)
         \/ CreateThread(e)
         \/ EmitPushes(e) /\ queue' = queue
         \/ EmitLeaves(e)
  PROVE  Aside
  <1>1. CASE EmitLeaves(e) \/ (EmitLooks(e) /\ ~door_open)
    <2>1. PICK from \in {"leave", "idle"} : AtEmit(e, from, "idle")
      BY Zenon, <1>1 DEF EmitLeaves, EmitLooks
    <2>2. done' = [done EXCEPT ![e] = @ + 1] /\ done[e] \in Nat
      BY Zenon, <1>1 DEF EmitLeaves, EmitLooks, ItemTypes
    <2>3. /\ done' \in [Emitters -> Nat] /\ done'[e] = done[e] + 1
          /\ \A d \in Emitters \ {e} : done'[d] = done[d]
      BY SMTT(30), <2>2 DEF ItemTypes
    <2>4. /\ emitter' \in [Emitters -> Counted \cup {"idle", "enter"}]
          /\ emitter'[e] = "idle"
          /\ \A d \in Emitters \ {e} : emitter'[d] = emitter[d]
      BY <2>1 DEF AtEmit, ItemTypes
    <2>5. ASSUME NEW i \in AnItem, Pushed(i)
          PROVE  Pushed(i)'
      <3>1. i[1] \in Emitters /\ i[2] \in Nat
        BY Zenon DEF AnItem
      <3>2. CASE i[1] = e
        BY <3>1, <3>2, <2>2, <2>3, <2>5 DEF Pushed
      <3>3. CASE i[1] # e
        BY Zenon, <3>1, <3>3, <2>3, <2>4, <2>5 DEF Pushed
      <3> QED BY Zenon, <3>2, <3>3
    <2>6. \A d \in Emitters : emitter'[d] = "publish"
                                => emitter[d] = "publish" /\ done'[d] = done[d]
      BY Zenon, <2>3, <2>4
    <2>7. /\ UNCHANGED <<opts, queue, pending, request, counts, sent, dropped, behind, freed,
                         accepted>>
          /\ at' = at
      BY Zenon, <1>1 DEF EmitLeaves, EmitLooks, doorVars, batchVars, history, outcomes,
                  threadVars
    <2> QED BY Zenon, <2>3, <2>4, <2>5, <2>6, <2>7 DEF Aside, ItemTypes
  <1>2. CASE \/ (EmitLooks(e) /\ door_open) \/ EmitEnters(e) \/ EmitRechecks(e)
             \/ EnsureThread(e) \/ CreateThread(e) \/ (EmitPushes(e) /\ queue' = queue)
    <2>1. PICK from \in Counted \cup {"idle", "enter"},
               to \in Counted \cup {"idle", "enter"} :
            /\ AtEmit(e, from, to) /\ to # "publish"
            /\ from \notin {"publish", "count", "leave"}
      <3>1. CASE EmitPushes(e) /\ queue' = queue
        <4>1. ~(shutdown \/ Len(queue[SignalOf(e)]) = opts.cap)
                => Len(queue'[SignalOf(e)]) = Len(queue[SignalOf(e)]) + 1
          <5>1. SignalOf(e) \in Signal
            BY Zenon, EmitterSignal
          <5>2. queue[SignalOf(e)] \in Seq(Entry)
            BY Zenon, <5>1 DEF ItemTypes
          <5> QED BY <3>1, <5>1, <5>2 DEF EmitPushes, Reserved, ItemTypes
        <4>2. Len(queue[SignalOf(e)]) \in Nat
          <5>1. SignalOf(e) \in Signal
            BY EmitterSignal
          <5>2. queue[SignalOf(e)] \in Seq(Entry)
            BY <5>1 DEF ItemTypes
          <5> QED BY <5>2
        <4>3. shutdown \/ Len(queue[SignalOf(e)]) = opts.cap
          BY <3>1, <4>1, <4>2
        <4>4. AtEmit(e, "push", "leave")
          BY Zenon, <3>1, <4>3 DEF EmitPushes
        <4> QED BY <4>4 DEF Counted, Active
      <3>2. CASE EmitLooks(e) /\ door_open
        <4>1. AtEmit(e, "idle", "enter") BY Zenon, <3>2 DEF EmitLooks
        <4> QED BY <4>1
      <3>3. CASE EmitEnters(e)
        BY <3>3 DEF EmitEnters, Counted, Active
      <3>4. CASE EmitRechecks(e)
        BY <3>4 DEF EmitRechecks, Counted, Active
      <3>5. CASE EnsureThread(e)
        BY <3>5 DEF EnsureThread, Counted, Active
      <3>6. CASE CreateThread(e)
        BY <3>6 DEF CreateThread, Counted, Active
      <3> QED BY Zenon, <1>2, <3>1, <3>2, <3>3, <3>4, <3>5, <3>6
    <2>2. /\ UNCHANGED <<opts, queue, pending, request, counts, sent, dropped, behind, freed,
                         accepted>>
          /\ at' = at /\ done' = done
      <3> USE DEF doorVars, batchVars, history, outcomes, threadVars
      <3>1. CASE EmitLooks(e) /\ door_open
        BY Zenon, <3>1 DEF EmitLooks
      <3>2. CASE EmitEnters(e) \/ EmitRechecks(e)
        BY Zenon, <3>2 DEF EmitEnters, EmitRechecks
      <3>3. CASE EnsureThread(e)
        BY Zenon, <3>3 DEF EnsureThread
      <3>4. CASE EmitPushes(e) /\ queue' = queue
        BY Zenon, <3>4 DEF EmitPushes
      <3>5. CASE CreateThread(e)
        BY Zenon, <3>5 DEF CreateThread
      <3> QED BY Zenon, <1>2, <3>1, <3>2, <3>3, <3>4, <3>5
    <2>3. \A i \in AnItem : Pushed(i) => Pushed(i)'
      BY Zenon, <2>1, <2>2, PushedStays
    <2>4. /\ emitter' \in [Emitters -> Counted \cup {"idle", "enter"}]
          /\ \A d \in Emitters : emitter'[d] = "publish" => emitter[d] = "publish"
      BY <2>1 DEF AtEmit, ItemTypes
    <2> QED BY Zenon, <2>2, <2>3, <2>4 DEF Aside, ItemTypes
  <1> QED BY Zenon, <1>1, <1>2

\* The steps of the other threads that leave the items and the emitters alone.
LEMMA OthersAside ==
  ASSUME ItemTypes,
         UNCHANGED <<opts, queue, pending, request, counts, sent, dropped, behind, freed,
                     accepted, emitter, done>>,
         at' \in Signal
  PROVE  Aside
  BY Zenon DEF Aside, ItemTypes, Pushed

\* otlp_exporter_free: what was waiting is freed, and no emitter is in between
\* the two halves of its push.
LEMMA FreeKeeps ==
  ASSUME Accounts, Handshake, DeinitFrees
  PROVE  Accounts'
  <1> USE DEF Accounts
  <1>1. /\ deinit = "join" /\ freed' = freed \cup Waiting
        /\ queue' = [s \in Signal |-> <<>>] /\ pending' = [s \in Signal |-> <<>>]
        /\ request' = NoRequest(request.signal)
        /\ UNCHANGED <<opts, emitter, done, at, counts, accepted, sent, dropped, behind>>
    BY Zenon DEF DeinitFrees, deinitOnly, outcomes
  <1>2. ItemTypes'
    <2>1. queue' \in [Signal -> Seq(Entry)] /\ pending' \in [Signal -> Seq(AnItem)]
      BY <1>1
    <2>2. request' \in [signal : Signal, n : Nat, body : SUBSET AnItem,
                         state : {"none", "busy", "ok", "retry", "fatal"}]
      BY Zenon, <1>1 DEF ItemTypes, NoRequest
    <2> QED BY Zenon, <1>1, <2>1, <2>2 DEF ItemTypes
  <1>0. \A s \in Signal : queue'[s] = <<>> /\ pending'[s] = <<>>
    BY Zenon, <1>1
  <1>3. \A s \in Signal : /\ queue'[s] = <<>> /\ pending'[s] = <<>>
                          /\ Queued(queue'[s]) = {} /\ Items(pending'[s]) = {}
    BY <1>0 DEF Queued, Items
  <1>4. ASSUME NEW s \in Signal
        PROVE  Here(s)' = {} /\ OnceQueued(queue'[s]) /\ Once(pending'[s])
    <2>1. Here(s)' = {}
      BY Zenon, <1>3 DEF Here
    <2>2. OnceQueued(queue'[s]) /\ Once(pending'[s])
      BY <1>0 DEF OnceQueued, Once
    <2> QED BY Zenon, <2>1, <2>2
  <1>5. Placed'
    BY Zenon, <1>1, <1>3, <1>4 DEF Placed, Pushed
  <1>6. Offered'
    BY Zenon, <1>1 DEF Offered, Handshake, Active
  <1>7. Carries'
    BY Zenon, <1>1 DEF Carries, InFlight, NoRequest
  <1>8. Kept'
    BY Zenon, <1>1 DEF Kept, Settled
  <1>9. CountersHonest'
    BY Zenon, <1>1, HonestIs
  <1> QED BY Zenon, <1>2, <1>5, <1>6, <1>7, <1>8, <1>9

\* Every step keeps the accounts.
LEMMA AccountsStep ==
  ASSUME Accounts, Handshake, [Next]_vars
  PROVE  Accounts'
  <1> DEFINE Still == UNCHANGED <<opts, queue, pending, request, counts, sent, dropped,
                                  behind, freed, accepted, emitter, done>>
  <1>1. ItemTypes /\ at \in Signal /\ request.signal \in Signal
    BY Zenon DEF Accounts, ItemTypes
  <1>2. ASSUME Still, at' \in Signal
        PROVE  Accounts'
    BY Zenon, <1>1, <1>2, OthersAside, AsideKeeps
  <1>3. CASE EmitStep
    <2>1. PICK e \in Emitters : \/ EmitLooks(e) \/ EmitEnters(e) \/ EmitRechecks(e)
                                \/ EnsureThread(e) \/ CreateThread(e) \/ EmitPushes(e)
                                \/ EmitPublishes(e) \/ EmitCounts(e) \/ EmitLeaves(e)
      BY Zenon, <1>3 DEF EmitStep
    <2>2. CASE EmitPushes(e) /\ queue' # queue
      BY Zenon, <2>2, PushKeeps
    <2>3. CASE EmitPublishes(e)
      BY Zenon, <2>3, PublishKeeps
    <2>4. CASE EmitCounts(e)
      BY <2>4, CountKeeps
    <2>5. CASE \/ EmitLooks(e) \/ EmitEnters(e) \/ EmitRechecks(e) \/ EnsureThread(e)
               \/ CreateThread(e)
               \/ EmitPushes(e) /\ queue' = queue
               \/ EmitLeaves(e)
      BY Zenon, <2>5, <1>1, EmitAside, AsideKeeps
    <2> QED BY Zenon, <2>1, <2>2, <2>3, <2>4, <2>5
  <1>4. CASE TickPops
    BY Zenon, <1>4, PopKeeps
  <1>5. CASE TickDrained
    BY Zenon, <1>5, <1>1, <1>2, NextSignal
       DEF TickDrained, tickOnly, doorVars, batchVars, outcomes
  <1>6. CASE TickPosts
    <2>1. /\ UNCHANGED <<opts, queue, pending, counts, sent, dropped, behind, freed, accepted,
                         emitter, done>>
          /\ at' \in Signal
      BY Zenon, <1>6, <1>1, NextSignal DEF TickPosts, tickOnly, doorVars, outcomes
    <2>2. CASE request' = Posted(at)
      BY Zenon, <2>1, <2>2, <1>1, PostCarries, RepostsKeeps DEF Reposts
    <2>3. CASE request' = request
      BY Zenon, <2>1, <2>3, <1>2
    <2> QED BY Zenon, <1>6, <2>2, <2>3 DEF TickPosts, Builds, BuildFails
  <1>7. CASE TickSteps
    <2>1. UNCHANGED <<opts, queue, behind, freed, accepted, emitter, done, at>>
      BY Zenon, <1>7 DEF TickSteps, tickOnly, doorVars
    <2>2. CASE request.state \in {"none", "busy"}
      BY Zenon, <2>1, <2>2, <1>7, <1>1, <1>2 DEF TickSteps
    <2>3. CASE request.state \notin {"none", "busy"}
      <3>1. /\ request' = NoRequest(request.signal)
            /\ \/ OutcomeSent(request.signal) \/ OutcomeRetried(request.signal)
               \/ OutcomeDropped(request.signal)
        BY Zenon, <2>3, <1>7 DEF TickSteps
      <3>2. CASE OutcomeRetried(request.signal)
        BY Zenon, <2>1, <3>1, <3>2, <1>1, RepostsKeeps
           DEF Reposts, OutcomeRetried, NoRequest, Carries, InFlight
      <3>3. CASE OutcomeSent(request.signal) \/ OutcomeDropped(request.signal)
        <4>1. SettleTo(request.signal)
          BY Zenon, <2>1, <3>1, <3>3 DEF SettleTo, OutcomeSent, OutcomeDropped, Cleared
        <4> QED BY Zenon, <4>1, <2>3, SettleKeeps DEF InFlight
      <3> QED BY Zenon, <3>1, <3>2, <3>3
    <2> QED BY Zenon, <2>2, <2>3
  <1>8. CASE TickRetries
    <2>1. /\ UNCHANGED <<opts, queue, pending, counts, sent, dropped, behind, freed, accepted,
                         emitter, done>>
          /\ at' \in Signal
      BY Zenon, <1>8, <1>1 DEF TickRetries, tickOnly, doorVars
    <2>2. CASE request' = Posted(request.signal)
      BY Zenon, <2>1, <2>2, <1>1, PostCarries, RepostsKeeps DEF Reposts
    <2>3. CASE request' = request
      BY <2>1, <2>3, <1>2
    <2> QED BY Zenon, <1>8, <2>2, <2>3 DEF TickRetries, Builds, BuildFails
  <1>9. CASE TickEnds
    BY Zenon, <1>9, <1>1, <1>2 DEF TickEnds, batchVars, history, outcomes
  <1>10. CASE DeinitCloses \/ DeinitDrains \/ DeinitLeaks
    BY Zenon, <1>10, <1>1, <1>2 DEF DeinitCloses, DeinitDrains, DeinitLeaks, deinitOnly,
                             itemsKept, outcomes
  <1>14. CASE DeinitFrees
    BY Zenon, <1>14, FreeKeeps
  <1>11. CASE TimePasses
    <2>1. Still /\ at' = at
      BY Zenon, <1>11 DEF TimePasses, worldOnly, doorVars, history, outcomes
    <2> QED BY Zenon, <2>1, <1>1, <1>2
  <1>12. CASE Answered
    <2>1. UNCHANGED <<opts, queue, pending, counts, sent, dropped, behind, freed, accepted,
                      emitter, done, at>>
      BY Zenon, <1>12 DEF Answered, worldOnly, doorVars, history, outcomes
    <2>2. PICK a \in {"ok", "retry", "fatal"} : request' = [request EXCEPT !.state = a]
      <3>1. opts.answers \subseteq {"ok", "retry", "fatal"}
        BY Zenon, <1>1, OptionsAssumption DEF ItemTypes
      <3> QED BY Zenon, <3>1, <1>12 DEF Answered
    <2>3. /\ request' \in [signal : Signal, n : Nat, body : SUBSET AnItem,
                           state : {"none", "busy", "ok", "retry", "fatal"}]
          /\ request'.signal = request.signal /\ request'.n = request.n
          /\ request'.body = request.body
      BY Zenon, <2>2, <1>1 DEF ItemTypes
    <2>4. Carries'
      BY Zenon, <2>1, <2>3, <1>12 DEF Accounts, Carries, InFlight, Answered
    <2> QED BY Zenon, <2>1, <2>3, <2>4, <1>1, RepostsKeeps DEF Reposts
  <1>13. CASE UNCHANGED vars
    BY Zenon, <1>13, <1>1, <1>2 DEF vars, doorVars, batchVars, threadVars, history, outcomes
  <1> QED BY Zenon, <1>3, <1>4, <1>5, <1>6, <1>7, <1>8, <1>9, <1>10, <1>11, <1>12, <1>13,
          <1>14 DEF Next, TickStep, DeinitStep, World

\* At start nothing is queued, pending or counted.
LEMMA AccountsInit == Init => Accounts
  <1> SUFFICES ASSUME Init
               PROVE  Accounts
    BY Zenon
  <1> DEFINE zero == [emitted |-> 0, sent |-> 0, err |-> 0]
  <1>1. 1 \in Signal
    BY SignalsAssumption DEF Signal
  <1>2. \A s \in Signal : queue[s] = <<>> /\ pending[s] = <<>>
    BY Zenon DEF Init
  <1>3. \A s \in Signal : Queued(queue[s]) = {} /\ Items(pending[s]) = {} /\ Here(s) = {}
    BY <1>2 DEF Queued, Items, Here
  <1>4. ItemTypes
    <2>1. /\ queue \in [Signal -> Seq(Entry)] /\ pending \in [Signal -> Seq(AnItem)]
      BY DEF Init
    <2>2. zero \in [emitted : Nat, sent : Nat, err : Nat]
      BY Zenon
    <2>3. counts \in [Signal -> [emitted : Nat, sent : Nat, err : Nat]]
      BY Zenon, <2>2 DEF Init
    <2>4. request \in [signal : Signal, n : Nat, body : SUBSET AnItem,
                       state : {"none", "busy", "ok", "retry", "fatal"}]
      BY Zenon, <1>1 DEF Init, NoRequest
    <2>5. IsFiniteSet(sent) /\ IsFiniteSet(dropped)
      BY Zenon, FS_EmptySet DEF Init
    <2> QED BY Zenon, <1>1, <2>1, <2>3, <2>4, <2>5 DEF ItemTypes, Init
  <1>5. Placed
    BY <1>2, <1>3 DEF Placed, OnceQueued, Once, Init
  <1>6. Offered /\ Carries /\ Kept
    BY Zenon DEF Init, Offered, Carries, InFlight, NoRequest, Kept
  <1>7. CountersHonest
    <2>1. \A f, s : OfSignal(f, {}, s) = {}
      BY Zenon DEF OfSignal
    <2>2. \A s \in Signal : counts[s].sent = 0 /\ counts[s].err = 0
      BY Zenon DEF Init
    <2>3. Honest(opts.signal, counts, sent, dropped)
      BY Zenon, <2>1, <2>2, FS_EmptySet DEF Honest, Init
    <2> QED BY Zenon, <2>3, HonestIs
  <1> QED BY Zenon, <1>4, <1>5, <1>6, <1>7 DEF Accounts

\* The inductive invariant of the items and the counters.
THEOREM AccountsInvariant == Spec => [](Accounts /\ Handshake)
  BY AccountsInit, AccountsStep, HandshakeInit, HandshakeStep, PTL DEF Spec

-----------------------------------------------------------------------------
(* What is left for otlp_exporter_free.                                     *)

\* The tick thread ends with nothing left or late, and from then on nobody
\* pushes; deinit frees no item behind the back of a thread that has the time.
Flushed ==
    /\ tick = "done" => mode = "flush" /\ (late \/ NothingLeft)
    /\ freed # {} => deinit = "done" /\ (late \/ ~thread_spawned)

\* An emitter past the door keeps deinit from freeing anything, and the tick
\* thread from ending.
LEMMA FlushedEmit ==
  ASSUME Flushed, Handshake, EmitStep
  PROVE  Flushed'
  <1> PICK e \in Emitters :
        \/ EmitLooks(e) \/ EmitEnters(e) \/ EmitRechecks(e) \/ EnsureThread(e)
        \/ CreateThread(e) \/ EmitPushes(e) \/ EmitPublishes(e) \/ EmitCounts(e)
        \/ EmitLeaves(e)
    BY Zenon DEF EmitStep
  <1> USE DEF doorVars, threadVars, batchVars, history, outcomes
  <1>1. CASE \/ EnsureThread(e) \/ CreateThread(e) \/ EmitPushes(e) \/ EmitPublishes(e)
    <2>1. emitter[e] \in Active
      BY <1>1 DEF EnsureThread, CreateThread, EmitPushes, EmitPublishes, AtEmit, Active
    <2>2. deinit \notin {"join", "done"} /\ mode = "loop"
      BY Zenon, <2>1 DEF Handshake
    <2>3. UNCHANGED <<freed, mode>>
      BY Zenon, <1>1 DEF EnsureThread, CreateThread, EmitPushes, EmitPublishes
    <2>4. tick' # "done"
      <3>1. tick # "done" BY <2>2 DEF Flushed
      <3>2. CASE CreateThread(e) BY <3>1, <3>2 DEF CreateThread
      <3>3. CASE EnsureThread(e) \/ EmitPushes(e) \/ EmitPublishes(e)
        BY Zenon, <3>1, <3>3 DEF EnsureThread, EmitPushes, EmitPublishes
      <3> QED BY Zenon, <1>1, <3>2, <3>3
    <2> QED BY Zenon, <2>2, <2>3, <2>4 DEF Flushed
  <1>2. CASE \/ EmitLooks(e) \/ EmitEnters(e) \/ EmitRechecks(e) \/ EmitCounts(e)
             \/ EmitLeaves(e)
    <2>1. UNCHANGED <<tick, mode, late, deinit, freed, thread_spawned, queue, pending,
                      request>>
      BY Zenon, <1>2 DEF EmitLooks, EmitEnters, EmitRechecks, EmitCounts, EmitLeaves
    <2> QED BY Zenon, <2>1 DEF Flushed, NothingLeft, InFlight
  <1> QED BY Zenon, <1>1, <1>2

\* The tick thread ends only from the flush.
LEMMA FlushedTick ==
  ASSUME Flushed, TickStep
  PROVE  Flushed'
  <1>1. UNCHANGED <<deinit, late, freed, thread_spawned>> /\ tick # "done"
    BY Zenon DEF TickStep, TickPops, TickDrained, TickPosts, TickSteps, TickRetries,
           TickEnds, tickOnly, doorVars, history, outcomes, AtTick
  <1>2. CASE TickEnds
    <2>1. UNCHANGED <<queue, pending, request>>
      BY Zenon, <1>2 DEF TickEnds, batchVars
    <2>2. tick' = "done" => mode' = "flush" /\ (late' \/ NothingLeft')
      <3>1. NothingLeft' <=> NothingLeft
        BY Zenon, <2>1 DEF NothingLeft, InFlight
      <3> QED BY <1>1, <1>2, <3>1 DEF TickEnds
    <2> QED BY Zenon, <1>1, <2>2 DEF Flushed
  <1>3. CASE \/ TickPops \/ TickDrained \/ TickPosts \/ TickSteps \/ TickRetries
    <2>1. tick' # "done"
      BY <1>1, <1>3 DEF TickPops, TickDrained, TickPosts, TickSteps, TickRetries
    <2> QED BY Zenon, <1>1, <2>1 DEF Flushed
  <1> QED BY Zenon, <1>2, <1>3 DEF TickStep

\* deinit: with a thread that ended in time there is nothing to free.
LEMMA FlushedDeinit ==
  ASSUME Flushed, DeinitCloses \/ DeinitStep
  PROVE  Flushed'
  <1>1. UNCHANGED <<tick, mode, late, thread_spawned>>
    BY Zenon DEF DeinitStep, DeinitCloses, DeinitDrains, DeinitLeaks, DeinitFrees,
           deinitOnly
  <1>2. CASE DeinitCloses \/ DeinitDrains \/ DeinitLeaks
    <2>1. UNCHANGED <<queue, pending, request, freed>> /\ deinit # "done"
      BY <1>2 DEF DeinitCloses, DeinitDrains, DeinitLeaks, itemsKept
    <2> QED BY Zenon, <1>1, <2>1 DEF Flushed, NothingLeft, InFlight
  <1>3. CASE DeinitFrees
    <2>1. /\ thread_spawned => tick = "done"
          /\ deinit = "join" /\ deinit' = "done" /\ freed' = freed \cup Waiting
          /\ queue' = [s \in Signal |-> <<>>] /\ pending' = [s \in Signal |-> <<>>]
          /\ request' = NoRequest(request.signal)
      BY Zenon, <1>3 DEF DeinitFrees
    <2>2. NothingLeft'
      BY <2>1 DEF NothingLeft, InFlight, NoRequest
    <2>3. NothingLeft => Waiting = {}
      BY DEF NothingLeft, Waiting, Items
    <2>4. freed = {}
      BY <2>1 DEF Flushed
    <2> QED BY Zenon, <1>1, <2>1, <2>2, <2>3, <2>4 DEF Flushed
  <1> QED BY Zenon, <1>2, <1>3 DEF DeinitStep

\* Time only makes the flush late, and no request is answered after the end.
LEMMA FlushedStep ==
  ASSUME Flushed, Handshake, [Next]_vars
  PROVE  Flushed'
  <1>1. CASE World \/ UNCHANGED vars
    <2>1. UNCHANGED <<tick, mode, deinit, freed, thread_spawned, queue, pending>>
      BY Zenon, <1>1 DEF World, TimePasses, Answered, worldOnly, doorVars, history, vars
    <2>2. late => late'
      BY Zenon, <1>1 DEF World, TimePasses, Answered, vars
    <2>3. InFlight' => InFlight
      BY Zenon, <1>1 DEF World, TimePasses, Answered, vars, InFlight
    <2> QED BY Zenon, <2>1, <2>2, <2>3 DEF Flushed, NothingLeft
  <1> QED BY Zenon, <1>1, FlushedEmit, FlushedTick, FlushedDeinit DEF Next

\* LossesConfined: what emit_move_common took is waiting, settled, was drained
\* behind a request already posted when clear_in_flight_batch freed it, or was
\* freed at the exit; and deinit frees an item with the exporter only when the
\* flush was out of time or there was no tick thread.
THEOREM LossOnlyThere == Spec => []LossesConfined
  <1>1. Init => Flushed
    BY Zenon DEF Init, Flushed
  <1>2. Accounts /\ Flushed => LossesConfined
    BY Zenon DEF Accounts, Kept, Flushed, LossesConfined
  <1> QED BY <1>1, <1>2, FlushedStep, AccountsInvariant, PTL DEF Spec

\* CountersHonest: whatever the retries and the growth of the batches, the
\* counters of record_outcome are the numbers of items sent and dropped.
THEOREM CountersAreHonest == Spec => []CountersHonest
  <1>1. Accounts => CountersHonest
    BY Zenon DEF Accounts
  <1> QED BY <1>1, AccountsInvariant, PTL
=============================================================================
