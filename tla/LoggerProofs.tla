---------------------------- MODULE LoggerProofs ----------------------------
(***************************************************************************)
(* What holds of the logger for every set of threads, every ring capacity  *)
(* and every number of log calls and rings: no accepted entry is missing   *)
(* from a closed document, the entries of a thread are in order, and the   *)
(* document is one JSON array.                                             *)
(***************************************************************************)
EXTENDS Logger, Integers, TLAPS

(* The exit the theorems are about: the other threads have ended, the join *)
(* waits for the flusher, and registry_add finds memory for its node.      *)
Calm == QuiescentExit /\ Failures \cap {"malloc_node", "join_timeout"} = {}

(* The rings are in use whenever the engine runs.                          *)
Ringed == RingEnabled /\ "ring_init" \notin Failures

TextOf == Thread \X Int
Item == [kind : {"open", "entry", "close"}, text : TextOf \cup {<<>>}, comma : BOOLEAN]
RingRecord == [state : {"none", "live", "freed"}, queue : Seq(TextOf), held : Nat, dropped : Nat]
RingLabel == {"ensure", "create", "started", "get", "add", "settss", "push"}
Label == {"idle", "gate", "sync", "mark"} \cup RingLabel

(* The types the proofs use.                                               *)
FlagTypes ==
    /\ active \in BOOLEAN /\ ringReady \in BOOLEAN /\ first \in BOOLEAN
    /\ spawned \in BOOLEAN /\ running \in BOOLEAN /\ stop \in BOOLEAN /\ final \in BOOLEAN

StoreTypes ==
    /\ phase \in {"new", "booting", "run", "noboot"}
    /\ out \in Seq(Item)
    /\ registry \in Seq(Ring) /\ walk \in Seq(Ring)
    /\ ring \in [Ring -> RingRecord]
    /\ tss \in [Thread -> Ring \cup {NoRing}] /\ cur \in [Thread -> Ring \cup {NoRing}]
    /\ pc \in [Thread -> Label]
    /\ logged \in [Thread -> Nat] /\ owed \in [Thread -> {0, 1, 2}]
    /\ exited \subseteq Thread /\ accepted \subseteq TextOf
    /\ fpc \in {"none", "check", "begin", "walk", "drain", "mark", "leave", "done"}
    /\ batch \in Nat
    /\ dpc \in {"none", "stop", "join", "free", "close", "done"}

Types == FlagTypes /\ StoreTypes

-----------------------------------------------------------------------------
(* Who may be where: threads log only while the logger is active, on the   *)
(* ring path only while the rings are ready, and on the synchronous branch *)
(* only when they are not.                                                 *)
Control ==
    /\ active <=> phase # "new" /\ dpc = "none"
    /\ phase \in {"new", "booting"} => dpc = "none"
    /\ ringReady => active
    /\ ~active \/ phase = "noboot" => \A x \in Thread : pc[x] = "idle"
    /\ phase = "booting" => \A x \in Thread : x # Main => pc[x] = "idle"
    /\ \A x \in exited : pc[x] = "idle"
    /\ \A x \in Thread : pc[x] \in RingLabel => ringReady /\ phase = "run"
    /\ \A x \in Thread : pc[x] \in {"sync", "mark"} => phase = "booting" \/ ~ringReady
    /\ \A x \in Thread : owed[x] # 0 => /\ pc[x] # "idle" /\ pc[x] # "create"
                                        /\ spawned /\ ringReady /\ phase = "run"
    /\ Ringed /\ phase # "new" /\ dpc = "none" => ringReady

Starting(x) == pc[x] \in {"create", "started"}

(* One flusher: the flag stands for it or for the one thread that creates  *)
(* it, it lives until it has seen the stop, and teardown waits for it.     *)
OneFlusher ==
    /\ fpc # "none" => spawned
    /\ spawned => phase = "run" /\ (ringReady \/ dpc # "none")
    /\ \A x \in Thread : Starting(x) => spawned /\ ~running
    /\ \A x, y \in Thread : Starting(x) /\ Starting(y) => x = y
    /\ \A x \in Thread : pc[x] = "create" => fpc = "none"
    /\ \A x \in Thread : pc[x] = "started" => fpc \notin {"none", "done"}
    /\ running => fpc \notin {"none", "done"}
    /\ fpc \notin {"none", "done"} => running \/ \E x \in Thread : pc[x] = "started"
    /\ stop => dpc \notin {"none", "stop"}
    /\ final => stop
    /\ fpc \in {"leave", "done"} => final
    /\ dpc \in {"free", "close", "done"} => fpc \in {"none", "done"}

-----------------------------------------------------------------------------
Registered == {registry[i] : i \in 1 .. Len(registry)}
ToWalk == {walk[i] : i \in 1 .. Len(walk)}

(* The rings a thread or the flusher holds are registered and not freed    *)
(* before teardown.                                                        *)
RingsHeld ==
    /\ \A r \in Ring : ring[r].state = "freed" => dpc \in {"free", "close", "done"}
    /\ \A r \in Ring : ring[r].queue # <<>> =>
          /\ phase = "run" /\ (ringReady \/ dpc # "none")
          /\ dpc \notin {"close", "done"} => r \in Registered
    /\ \A r \in Registered \cup ToWalk : ring[r].state # "none"
    /\ \A x \in Thread : pc[x] \in {"add", "settss"} =>
          cur[x] \in Ring /\ tss[x] = NoRing /\ ring[cur[x]].state # "none"
    /\ \A x \in Thread : pc[x] = "settss" => cur[x] \in Registered
    /\ \A x \in Thread : pc[x] = "push" => cur[x] = tss[x] /\ tss[x] # NoRing
    /\ \A x \in Thread : tss[x] # NoRing /\ dpc \notin {"close", "done"} => tss[x] \in Registered

Pending == Len(ring[Head(walk)].queue)

(* A drain emits no more than it found, and the one after the stop signal  *)
(* leaves no ring out and no entry behind.                                 *)
Drains ==
    /\ fpc \in {"drain", "mark"} => walk # <<>>
    /\ fpc = "drain" => batch <= Pending /\ (final => batch = Pending)
    /\ fpc = "mark" => /\ batch > 0 /\ batch - 1 <= Pending
                       /\ final => batch - 1 = Pending
    /\ final /\ fpc \in {"walk", "drain", "mark"} =>
          \A r \in Ring : ring[r].queue # <<>> => r \in ToWalk
    /\ fpc \in {"leave", "done"} => \A r \in Ring : ring[r].queue = <<>>

Queued(t) == \E r \in Ring : \E i \in 1 .. Len(ring[r].queue) : ring[r].queue[i] = t

(* An accepted entry is in a ring or in the document.                      *)
Kept == \A a \in accepted : Written(a) \/ Queued(a)

-----------------------------------------------------------------------------
(* The highest number an entry of x can have: that of its last log call,   *)
(* or, when the call may still nest two others, of the call before it.     *)
Limit(x) ==
    IF pc[x] \in {"idle", "mark"} THEN 3 * logged[x]
    ELSE IF pc[x] \in {"gate", "sync", "ensure", "create"} /\ owed[x] = 0 THEN 3 * logged[x] - 3
    ELSE 3 * logged[x] - owed[x] - 1

(* An entry is numbered above every entry of its thread before it, in the  *)
(* document and behind it in the thread's one ring.                        *)
InOrder ==
    /\ PerThreadOrder
    /\ \A r \in Ring : \A i, j \in 1 .. Len(ring[r].queue) :
          i < j /\ ring[r].queue[i][1] = ring[r].queue[j][1] =>
             ring[r].queue[i][2] < ring[r].queue[j][2]
    /\ \A x \in Thread, m, n \in Int : Written(<<x, m>>) /\ Queued(<<x, n>>) => m < n
    /\ \A r \in Ring : \A i \in 1 .. Len(ring[r].queue) :
          ring[r].queue[i][1] \in exited \/ tss[ring[r].queue[i][1]] = r
    /\ \A r, s \in Ring : \A i \in 1 .. Len(ring[r].queue), j \in 1 .. Len(ring[s].queue) :
          ring[r].queue[i][1] = ring[s].queue[j][1] => r = s
    /\ \A x \in Thread, n \in Int : Written(<<x, n>>) \/ Queued(<<x, n>>) => n <= Limit(x)

Marking == fpc = "mark" \/ \E x \in Thread : pc[x] = "mark"

Shape ==
    \A i \in 1 .. Len(out) :
        /\ out[i].kind = "open" <=> i = 1
        /\ out[i].kind = "close" => i = Len(out) /\ dpc = "done"
        /\ out[i].kind = "entry" => out[i].text \in TextOf

Commas == \A i \in 1 .. Len(out) : out[i].kind = "entry" => (out[i].comma <=> i > 2)

(* The document so far: brackets where they belong and, when the rings are *)
(* used, g_first_json right but for the moment between a write and its     *)
(* mark.                                                                   *)
Document ==
    /\ phase = "new" <=> out = <<>>
    /\ Shape
    /\ first \/ Marking => Len(out) > 1
    /\ Ringed => Commas /\ (Len(out) > 1 /\ dpc # "done" => first \/ Marking)

IInv == /\ Types /\ Control /\ OneFlusher
        /\ RingsHeld /\ Drains /\ Kept
        /\ InOrder /\ Document

-----------------------------------------------------------------------------
(* Types.                                                                  *)

(* A text is a thread and a number.                                         *)
LEMMA TextPair ==
    ASSUME NEW text \in TextOf
    PROVE  \E x \in Thread, n \in Int : text = <<x, n>>
  BY DEF TextOf

(* A log call's text is a pair of its thread and a number.                  *)
LEMMA TextIs ==
    ASSUME Types, NEW x \in Thread
    PROVE  /\ Text(x) = <<x, 3 * logged[x] - owed[x]>> /\ Text(x) \in TextOf
           /\ logged[x] \in Nat /\ owed[x] \in {0, 1, 2}
<1>1. logged[x] \in Nat /\ owed[x] \in {0, 1, 2} BY Zenon DEF Types, StoreTypes
<1>2. 3 * logged[x] - owed[x] \in Int BY <1>1
<1> QED BY Zenon, <1>1, <1>2 DEF Text, TextOf

(* Where a log call that returns goes on.                                   *)
LEMMA ReturnIs ==
    ASSUME Types, NEW x \in Thread, Return(x)
    PROVE  /\ pc' \in [Thread -> Label] /\ owed' \in [Thread -> {0, 1, 2}]
           /\ \A y \in Thread : y # x => pc'[y] = pc[y] /\ owed'[y] = owed[y]
           /\ \/ owed[x] = 2 /\ active /\ owed'[x] = 1 /\ pc'[x] = "gate"
              \/ owed[x] = 2 /\ ~active /\ owed'[x] = 0 /\ pc'[x] = "get"
              \/ owed[x] = 1 /\ owed'[x] = 0 /\ pc'[x] = "get"
              \/ owed[x] = 0 /\ owed'[x] = 0 /\ pc'[x] = "idle"
<1>1. pc \in [Thread -> Label] /\ owed \in [Thread -> {0, 1, 2}] BY Zenon DEF Types, StoreTypes
<1>2. PICK again : again = (owed[x] = 2 /\ active) BY Zenon
<1>3. owed' = [owed EXCEPT ![x] = IF owed[x] = 2 /\ active THEN 1 ELSE 0] BY Zenon DEF Return
<1>4. pc' = [pc EXCEPT ![x] = IF owed[x] = 2 /\ active THEN "gate"
                              ELSE IF owed[x] > 0 THEN "get" ELSE "idle"]
  BY Zenon DEF Return, Goto
<1>5. owed[x] \in {0, 1, 2} BY Zenon, <1>1
<1>6. pc' \in [Thread -> Label] BY Zenon, <1>1, <1>4 DEF Label, RingLabel
<1> QED BY <1>1, <1>3, <1>4, <1>5, <1>6

(* Where another step of a log call leads.                                  *)
LEMMA GotoIs ==
    ASSUME Types, NEW x \in Thread, NEW l \in Label, Goto(x, l)
    PROVE  /\ pc' \in [Thread -> Label] /\ pc'[x] = l
           /\ \A y \in Thread : y # x => pc'[y] = pc[y]
  BY Zenon DEF Types, StoreTypes, Goto

(* A new state, a new queue and a new count of a ring are those of the      *)
(* record, and the other rings are as they were.                            *)
LEMMA RingSet ==
    ASSUME Types, NEW r \in Ring, NEW rec \in RingRecord, ring' = [ring EXCEPT ![r] = rec]
    PROVE  /\ ring' \in [Ring -> RingRecord] /\ ring'[r] = rec
           /\ \A s \in Ring : s # r => ring'[s] = ring[s]
  BY Zenon DEF Types, StoreTypes

(* A ring's record has the fields of its type.                              *)
LEMMA RingFields ==
    ASSUME Types, NEW r \in Ring
    PROVE  /\ ring[r] \in RingRecord /\ ring[r].queue \in Seq(TextOf)
           /\ ring[r].held \in Nat /\ ring[r].dropped \in Nat
           /\ Len(ring[r].queue) \in Nat
<1>1. ring[r] \in RingRecord BY Zenon DEF Types, StoreTypes
<1>2. ring[r].queue \in Seq(TextOf) BY Zenon, <1>1 DEF RingRecord
<1> QED BY <1>1, <1>2 DEF RingRecord

(* What a push does to the rings.                                           *)
LEMMA PushIs ==
    ASSUME Types, NEW x \in Thread, cur[x] \in Ring, RingPush(x)
    PROVE  /\ ring' \in [Ring -> RingRecord]
           /\ \A s \in Ring : s # cur[x] => ring'[s] = ring[s]
           /\ ring'[cur[x]].state = ring[cur[x]].state
           /\ \/ /\ ring'[cur[x]].queue = Append(ring[cur[x]].queue, Text(x))
                 /\ accepted' = accepted \cup {Text(x)}
              \/ ring'[cur[x]].queue = ring[cur[x]].queue /\ accepted' = accepted
<1>1. PICK r \in Ring : r = cur[x] BY Zenon
<1>2. /\ ring[r] \in RingRecord /\ ring[r].queue \in Seq(TextOf)
      /\ ring[r].held \in Nat /\ ring[r].dropped \in Nat /\ ring \in [Ring -> RingRecord]
  BY Zenon, RingFields DEF Types, StoreTypes
<1>3. Text(x) \in TextOf BY Zenon, TextIs
<1>4. CASE /\ ring' = [ring EXCEPT ![r].queue = Append(@, Text(x))]
           /\ accepted' = accepted \cup {Text(x)}
  <2>1. PICK q : q = Append(ring[r].queue, Text(x)) BY Zenon
  <2>2. q \in Seq(TextOf) BY <1>2, <1>3, <2>1
  <2>3. PICK rec : rec = [ring[r] EXCEPT !.queue = q] BY Zenon
  <2>4. rec \in RingRecord /\ rec.queue = q /\ rec.state = ring[r].state
    BY Zenon, <1>2, <2>2, <2>3 DEF RingRecord
  <2>5. ring' = [ring EXCEPT ![r] = rec] BY Zenon, <1>2, <1>4, <2>1, <2>3
  <2>6. /\ ring' \in [Ring -> RingRecord] /\ ring'[r] = rec
        /\ \A s \in Ring : s # r => ring'[s] = ring[s]
    BY Zenon, <2>4, <2>5, RingSet
  <2> QED BY Zenon, <1>1, <1>4, <2>1, <2>4, <2>6
<1>5. CASE ring' = [ring EXCEPT ![r].dropped = @ + 1] /\ accepted' = accepted
  <2>1. ring[r].dropped \in Nat BY Zenon, <1>2
  <2>2. PICK d \in Nat : d = ring[r].dropped + 1 BY <2>1
  <2>3. PICK rec : rec = [ring[r] EXCEPT !.dropped = d] BY Zenon
  <2>4. rec \in RingRecord /\ rec.queue = ring[r].queue /\ rec.state = ring[r].state
    BY Zenon, <1>2, <2>2, <2>3 DEF RingRecord
  <2>5. ring' = [ring EXCEPT ![r] = rec] BY Zenon, <1>2, <1>5, <2>2, <2>3
  <2>6. /\ ring' \in [Ring -> RingRecord] /\ ring'[r] = rec
        /\ \A s \in Ring : s # r => ring'[s] = ring[s]
    BY Zenon, <2>4, <2>5, RingSet
  <2> QED BY Zenon, <1>1, <1>5, <2>4, <2>6
<1>6. CASE ring' = ring /\ accepted' = accepted BY Zenon, <1>2, <1>6
<1> QED BY Zenon, <1>1, <1>4, <1>5, <1>6 DEF RingPush

(* What a new state of a ring leaves alone.                                 *)
LEMMA StateSet ==
    ASSUME Types, NEW r \in Ring, NEW st \in {"none", "live", "freed"},
           ring' = [ring EXCEPT ![r].state = st]
    PROVE  /\ ring' \in [Ring -> RingRecord] /\ ring'[r].state = st
           /\ \A s \in Ring : s # r => ring'[s] = ring[s]
           /\ \A s \in Ring : ring'[s].queue = ring[s].queue
<1>1. ring[r] \in RingRecord /\ ring \in [Ring -> RingRecord] BY Zenon DEF Types, StoreTypes
<1>2. PICK rec : rec = [ring[r] EXCEPT !.state = st] BY Zenon
<1>3. rec \in RingRecord /\ rec.queue = ring[r].queue /\ rec.state = st
  BY Zenon, <1>1, <1>2 DEF RingRecord
<1>4. ring' = [ring EXCEPT ![r] = rec] BY Zenon, <1>1, <1>2
<1>5. /\ ring' \in [Ring -> RingRecord] /\ ring'[r] = rec
      /\ \A s \in Ring : s # r => ring'[s] = ring[s]
  BY Zenon, <1>3, <1>4, RingSet
<1> QED BY Zenon, <1>3, <1>5

(* The first ring of a walk.                                                *)
LEMMA WalkHead ==
    ASSUME Types, walk # <<>>
    PROVE  Head(walk) \in Ring /\ Head(walk) = walk[1] /\ Len(walk) \in Nat \ {0}
           /\ Tail(walk) \in Seq(Ring)
<1>1. walk \in Seq(Ring) BY Zenon DEF Types, StoreTypes
<1> QED BY <1>1

(* What an emitted entry does to its ring.                                  *)
LEMMA EmitIs ==
    ASSUME Types, walk # <<>>, batch <= Pending, FlusherEmit
    PROVE  /\ ring' \in [Ring -> RingRecord]
           /\ \A s \in Ring : s # Head(walk) => ring'[s] = ring[s]
           /\ ring'[Head(walk)].state = ring[Head(walk)].state
           /\ ring[Head(walk)].queue # <<>>
           /\ ring'[Head(walk)].queue = Tail(ring[Head(walk)].queue)
           /\ out' = Append(out, Entry(Head(ring[Head(walk)].queue)))
           /\ Head(ring[Head(walk)].queue) \in TextOf
           /\ out' \in Seq(Item)
<1>1. PICK r \in Ring : r = Head(walk) BY Zenon, WalkHead
<1>2. /\ ring[r] \in RingRecord /\ ring[r].queue \in Seq(TextOf)
      /\ ring[r].held \in Nat /\ ring \in [Ring -> RingRecord]
  BY Zenon, RingFields DEF Types, StoreTypes
<1>3. ring[r].queue # <<>>
  <2>1. batch \in Nat /\ batch > 0 /\ Len(ring[r].queue) >= batch
    BY Zenon, <1>1 DEF Types, StoreTypes, FlusherEmit, Pending
  <2>2. Len(ring[r].queue) # 0 BY <1>2, <2>1
  <2> QED BY <1>2, <2>2
<1>4. PICK q : q = Tail(ring[r].queue) BY Zenon
<1>5. q \in Seq(TextOf) /\ Head(ring[r].queue) \in TextOf BY <1>2, <1>3, <1>4
<1>6. ring[r].held \in Nat BY Zenon, <1>2
<1>7. PICK h \in Nat : h = ring[r].held + 1 BY <1>6
<1>8. PICK rec : rec = [ring[r] EXCEPT !.queue = q, !.held = h] BY Zenon
<1>9. rec \in RingRecord /\ rec.queue = q /\ rec.state = ring[r].state
  BY Zenon, <1>2, <1>5, <1>7, <1>8 DEF RingRecord
<1>10. ring' = [ring EXCEPT ![r].queue = Tail(@), ![r].held = @ + 1]
  BY Zenon, <1>1 DEF FlusherEmit
<1>11. ring' = [ring EXCEPT ![r] = rec] BY Zenon, <1>2, <1>4, <1>7, <1>8, <1>10
<1>12. /\ ring' \in [Ring -> RingRecord] /\ ring'[r] = rec
       /\ \A s \in Ring : s # r => ring'[s] = ring[s]
  BY Zenon, <1>9, <1>11, RingSet
<1>13. out' = Append(out, Entry(Head(ring[r].queue))) BY Zenon, <1>1 DEF FlusherEmit
<1>14. Entry(Head(ring[r].queue)) \in Item BY Zenon, <1>5 DEF Entry, Item, Types, FlagTypes
<1>15. out' \in Seq(Item) BY <1>13, <1>14 DEF Types, StoreTypes
<1> QED BY Zenon, <1>1, <1>3, <1>4, <1>5, <1>9, <1>12, <1>13, <1>15

(* A released drain gives its places back.                                  *)
LEMMA ReleaseIs ==
    ASSUME Types, walk # <<>>, FlusherRelease
    PROVE  /\ ring' \in [Ring -> RingRecord]
           /\ \A s \in Ring : ring'[s].queue = ring[s].queue /\ ring'[s].state = ring[s].state
<1>1. PICK r \in Ring : r = Head(walk) BY Zenon, WalkHead
<1>2. ring[r] \in RingRecord /\ ring \in [Ring -> RingRecord] BY Zenon DEF Types, StoreTypes
<1>3. PICK rec : rec = [ring[r] EXCEPT !.held = 0] BY Zenon
<1>4. rec \in RingRecord /\ rec.queue = ring[r].queue /\ rec.state = ring[r].state
  BY Zenon, <1>2, <1>3 DEF RingRecord
<1>5. ring' = [ring EXCEPT ![r] = rec] BY Zenon, <1>1, <1>2, <1>3 DEF FlusherRelease
<1>6. /\ ring' \in [Ring -> RingRecord] /\ ring'[r] = rec
      /\ \A s \in Ring : s # r => ring'[s] = ring[s]
  BY Zenon, <1>4, <1>5, RingSet
<1> QED BY Zenon, <1>4, <1>6

(* Rings held by threads and by the walk are rings.                         *)
LEMMA HeldRings ==
    ASSUME IInv
    PROVE  /\ \A x \in Thread : pc[x] \in {"add", "settss", "push"} => cur[x] \in Ring
           /\ fpc \in {"drain", "mark"} => walk # <<>>
           /\ fpc = "drain" => batch <= Pending
           /\ fpc = "mark" => batch > 0
<1>1. Types /\ RingsHeld /\ Drains BY Zenon DEF IInv
<1>2. \A x \in Thread : tss[x] \in Ring \cup {NoRing} BY Zenon, <1>1 DEF Types, StoreTypes
<1> QED BY Zenon, <1>1, <1>2 DEF RingsHeld, Drains

(* The steps of a log call keep the types.                                  *)
LEMMA LogTypes == ASSUME IInv, NEW x \in Thread, Log(x) PROVE StoreTypes'
<1>1. Types BY Zenon DEF IInv
<1>2. CASE LogBegin(x) \/ LogGate(x) \/ SyncWrite(x)
  <2>1. pc' \in [Thread -> Label]
    BY Zenon, <1>1, <1>2 DEF LogBegin, LogGate, SyncWrite, Goto, Types, StoreTypes, Label, RingLabel
  <2>2. logged' \in [Thread -> Nat]
    <3>1. logged \in [Thread -> Nat] /\ logged[x] \in Nat BY Zenon, <1>1 DEF Types, StoreTypes
    <3>2. logged[x] + 1 \in Nat BY <3>1
    <3> QED BY Zenon, <1>2, <3>1, <3>2 DEF LogBegin, LogGate, SyncWrite
  <2>3. out' \in Seq(Item)
    <3>1. Text(x) \in TextOf BY Zenon, <1>1, TextIs
    <3>2. Entry(Text(x)) \in Item BY Zenon, <1>1, <3>1 DEF Entry, Item, Types, FlagTypes
    <3>3. out \in Seq(Item) /\ Append(out, Entry(Text(x))) \in Seq(Item) BY <1>1, <3>2 DEF Types, StoreTypes
    <3> QED BY Zenon, <1>2, <3>3 DEF LogBegin, LogGate, SyncWrite, docVars
  <2> QED BY <1>1, <1>2, <2>1, <2>2, <2>3
      DEF LogBegin, LogGate, SyncWrite, Types, StoreTypes, flagVars, docVars, ringVars, flusherVars
<1>3. CASE SyncMark(x) \/ TssSet(x)
  <2>1. pc' \in [Thread -> Label] /\ owed' \in [Thread -> {0, 1, 2}]
    <3>1. CASE Return(x) BY Zenon, <1>1, <3>1, ReturnIs
    <3>2. CASE Goto(x, "push") /\ UNCHANGED owed
      BY Zenon, <1>1, <3>2 DEF Goto, Types, StoreTypes, Label, RingLabel
    <3> QED BY Zenon, <1>3, <3>1, <3>2 DEF SyncMark, TssSet
  <2>2. tss' \in [Thread -> Ring \cup {NoRing}] BY Zenon, <1>1, <1>3 DEF SyncMark, TssSet, Types, StoreTypes
  <2>3. CASE SyncMark(x)
    BY Zenon, <1>1, <2>1, <2>2, <2>3 DEF SyncMark, Types, StoreTypes, flagVars, docVars, ringVars, flusherVars
  <2>4. CASE TssSet(x)
    BY Zenon, <1>1, <2>1, <2>2, <2>4 DEF TssSet, Types, StoreTypes, flagVars, docVars, ringVars, flusherVars
  <2> QED BY Zenon, <1>3, <2>3, <2>4
<1>4. CASE EnsureFlusher(x) \/ FlusherCreate(x) \/ FlusherStarted(x)
  <2>1. pc' \in [Thread -> Label] /\ owed' \in [Thread -> {0, 1, 2}]
    BY Zenon, <1>1, <1>4 DEF EnsureFlusher, FlusherCreate, FlusherStarted, Goto, Types, StoreTypes, Label, RingLabel
  <2>2. CASE EnsureFlusher(x)
    BY Zenon, <1>1, <2>1, <2>2 DEF EnsureFlusher, Types, StoreTypes, docVars, ringVars, flusherVars
  <2>3. CASE FlusherCreate(x)
    BY Zenon, <1>1, <2>1, <2>3 DEF FlusherCreate, Types, StoreTypes, docVars, ringVars, flusherVars
  <2>4. CASE FlusherStarted(x)
    BY Zenon, <1>1, <2>1, <2>4 DEF FlusherStarted, Types, StoreTypes, docVars, ringVars, flusherVars
  <2> QED BY Zenon, <1>4, <2>2, <2>3, <2>4
<1>5. CASE RingGet(x)
  <2>1. pc' \in [Thread -> Label] /\ owed' \in [Thread -> {0, 1, 2}]
    <3>1. CASE Return(x) BY <1>1, <3>1, ReturnIs
    <3>2. CASE (Goto(x, "push") \/ Goto(x, "add")) /\ UNCHANGED owed
      BY Zenon, <1>1, <3>2 DEF Goto, Types, StoreTypes, Label, RingLabel
    <3> QED BY Zenon, <1>5, <3>1, <3>2 DEF RingGet
  <2>2. cur' \in [Thread -> Ring \cup {NoRing}] BY Zenon, <1>1, <1>5 DEF RingGet, Types, StoreTypes
  <2>3. ring' \in [Ring -> RingRecord]
    <3>1. ASSUME NEW r \in Ring, ring' = [ring EXCEPT ![r].state = "live"]
          PROVE  ring' \in [Ring -> RingRecord]
      BY Zenon, <1>1, <3>1, StateSet
    <3>2. UNCHANGED ring => ring' \in [Ring -> RingRecord] BY Zenon, <1>1 DEF Types, StoreTypes
    <3> QED BY Zenon, <1>5, <3>1, <3>2 DEF RingGet
  <2> QED BY Zenon, <1>1, <1>5, <2>1, <2>2, <2>3 DEF RingGet, Types, StoreTypes, flagVars, docVars, flusherVars
<1>6. CASE RegistryAdd(x)
  <2>1. cur[x] \in Ring BY Zenon, <1>6, HeldRings DEF RegistryAdd
  <2>2. pc' \in [Thread -> Label] BY Zenon, <1>1, <1>6 DEF RegistryAdd, Goto, Types, StoreTypes, Label, RingLabel
  <2>3. ring' \in [Ring -> RingRecord]
    <3>1. CASE ring' = [ring EXCEPT ![cur[x]].state = "freed"] BY Zenon, <1>1, <2>1, <3>1, StateSet
    <3> QED BY Zenon, <1>1, <1>6, <3>1 DEF RegistryAdd, Types, StoreTypes
  <2>4. registry' \in Seq(Ring)
    <3>1. <<cur[x]>> \in Seq(Ring) /\ registry \in Seq(Ring) BY <1>1, <2>1 DEF Types, StoreTypes
    <3>2. <<cur[x]>> \o registry \in Seq(Ring) BY <3>1
    <3> QED BY Zenon, <1>6, <3>1, <3>2 DEF RegistryAdd
  <2> QED BY Zenon, <1>1, <1>6, <2>2, <2>3, <2>4
      DEF RegistryAdd, Types, StoreTypes, flagVars, docVars, flusherVars
<1>7. CASE RingPush(x)
  <2>1. cur[x] \in Ring BY Zenon, <1>7, HeldRings DEF RingPush
  <2>2. ring' \in [Ring -> RingRecord] /\ accepted' \subseteq TextOf
    BY Zenon, <1>1, <1>7, <2>1, PushIs, TextIs DEF Types, StoreTypes
  <2>3. pc' \in [Thread -> Label] /\ owed' \in [Thread -> {0, 1, 2}]
    BY Zenon, <1>1, <1>7, ReturnIs DEF RingPush
  <2> QED BY Zenon, <1>1, <1>7, <2>2, <2>3 DEF RingPush, Types, StoreTypes, flagVars, docVars, flusherVars
<1> QED BY Zenon, <1>2, <1>3, <1>4, <1>5, <1>6, <1>7 DEF Log

(* The other steps keep the types.                                          *)
LEMMA OtherTypes ==
    ASSUME IInv, \/ LoggerInit \/ BootEnd \/ Flusher \/ Deinit \/ Gone
                 \/ \E x \in Thread : ThreadExit(x)
    PROVE  StoreTypes'
<1>1. Types BY Zenon DEF IInv
<1>2. CASE LoggerInit
  <2>1. Bracket("open") \in Item BY Zenon DEF Bracket, Item
  <2>2. <<Bracket("open")>> \in Seq(Item) BY <2>1
  <2>3. out' \in Seq(Item) /\ phase' = "booting" BY Zenon, <1>2, <2>2 DEF LoggerInit
  <2> QED BY Zenon, <1>1, <1>2, <2>3 DEF LoggerInit, Types, StoreTypes, ringVars, threadVars, flusherVars
<1>3. CASE BootEnd
  BY Zenon, <1>1, <1>3 DEF BootEnd, Types, StoreTypes, flagVars, docVars, ringVars, threadVars, flusherVars
<1>4. CASE \E x \in Thread : ThreadExit(x)
  <2>1. PICK x \in Thread : ThreadExit(x) BY Zenon, <1>4
  <2>2. exited' \subseteq Thread /\ tss' \in [Thread -> Ring \cup {NoRing}]
    BY Zenon, <1>1, <2>1 DEF ThreadExit, Types, StoreTypes
  <2> QED BY Zenon, <1>1, <2>1, <2>2 DEF ThreadExit, Types, StoreTypes, flagVars, docVars, ringVars, flusherVars
<1>5. CASE FlusherCheck \/ FlusherBegin \/ FlusherWalk
  <2>1. batch' \in Nat
    <3>1. CASE batch' = Len(ring[Head(walk)].queue) /\ walk # <<>>
      BY Zenon, <1>1, <3>1, WalkHead, RingFields
    <3> QED BY Zenon, <1>1, <1>5, <3>1 DEF FlusherCheck, FlusherBegin, FlusherWalk, Types, StoreTypes
  <2> QED BY Zenon, <1>1, <1>5, <2>1
      DEF FlusherCheck, FlusherBegin, FlusherWalk, Types, StoreTypes, flagVars, docVars, ringVars, threadVars
<1>6. CASE FlusherEmit
  <2>1. ring' \in [Ring -> RingRecord] /\ out' \in Seq(Item)
    BY Zenon, <1>1, <1>6, HeldRings, EmitIs DEF FlusherEmit
  <2> QED BY Zenon, <1>1, <1>6, <2>1 DEF FlusherEmit, Types, StoreTypes, flagVars, threadVars
<1>7. CASE FlusherMark \/ FlusherLeave
  <2>1. batch' \in Nat
    <3>1. batch \in Nat BY Zenon, <1>1 DEF Types, StoreTypes
    <3>2. CASE fpc = "mark" /\ batch' = batch - 1
      <4>1. batch > 0 BY Zenon, <3>2, HeldRings
      <4> QED BY <3>1, <3>2, <4>1
    <3> QED BY Zenon, <1>7, <3>1, <3>2 DEF FlusherMark, FlusherLeave
  <2>2. CASE FlusherMark
    BY Zenon, <1>1, <2>1, <2>2 DEF FlusherMark, Types, StoreTypes, flagVars, ringVars, threadVars
  <2>3. CASE FlusherLeave
    BY Zenon, <1>1, <2>1, <2>3 DEF FlusherLeave, Types, StoreTypes, docVars, ringVars, threadVars
  <2> QED BY Zenon, <1>7, <2>2, <2>3
<1>8. CASE FlusherRelease
  <2>1. walk # <<>> BY Zenon, <1>8, HeldRings DEF FlusherRelease
  <2>2. ring' \in [Ring -> RingRecord] BY Zenon, <1>1, <1>8, <2>1, ReleaseIs
  <2>3. walk' \in Seq(Ring) BY Zenon, <1>1, <1>8, <2>1, WalkHead DEF FlusherRelease
  <2> QED BY Zenon, <1>1, <1>8, <2>2, <2>3 DEF FlusherRelease, Types, StoreTypes, flagVars, docVars, threadVars
<1>9. CASE DeinitDecline \/ DeinitStop \/ DeinitJoin \/ Gone
  <2>1. CASE DeinitDecline
    BY Zenon, <1>1, <2>1 DEF DeinitDecline, Types, StoreTypes, docVars, ringVars, threadVars, flusherVars
  <2>2. CASE DeinitStop
    BY Zenon, <1>1, <2>2 DEF DeinitStop, Types, StoreTypes, docVars, ringVars, threadVars, flusherVars
  <2>3. CASE DeinitJoin
    BY Zenon, <1>1, <2>3 DEF DeinitJoin, Types, StoreTypes, flagVars, docVars, ringVars, threadVars, flusherVars
  <2>4. CASE Gone
    BY Zenon, <1>1, <2>4
    DEF Gone, vars, Types, StoreTypes, flagVars, docVars, ringVars, threadVars, flusherVars
  <2> QED BY Zenon, <1>9, <2>1, <2>2, <2>3, <2>4
<1>10. CASE DeinitFree
  <2>1. ring' \in [Ring -> RingRecord]
    <3>1. ASSUME NEW i \in 1 .. Len(registry), ring' = [ring EXCEPT ![registry[i]].state = "freed"]
          PROVE  ring' \in [Ring -> RingRecord]
      <4>1. registry[i] \in Ring BY <1>1 DEF Types, StoreTypes
      <4> QED BY Zenon, <1>1, <3>1, <4>1, StateSet
    <3>2. UNCHANGED ring => ring' \in [Ring -> RingRecord] BY Zenon, <1>1 DEF Types, StoreTypes
    <3> QED BY Zenon, <1>10, <3>1, <3>2 DEF DeinitFree
  <2>2. registry' \in Seq(Ring)
    <3>1. <<>> \in Seq(Ring) OBVIOUS
    <3>2. registry \in Seq(Ring) BY Zenon, <1>1 DEF Types, StoreTypes
    <3> QED BY Zenon, <1>10, <3>1, <3>2 DEF DeinitFree
  <2> QED BY Zenon, <1>1, <1>10, <2>1, <2>2
      DEF DeinitFree, Types, StoreTypes, flagVars, docVars, threadVars, flusherVars
<1>11. CASE DeinitClose
  <2>1. Bracket("close") \in Item BY Zenon DEF Bracket, Item
  <2>2. out' \in Seq(Item) BY <1>1, <1>11, <2>1 DEF DeinitClose, Types, StoreTypes
  <2> QED BY Zenon, <1>1, <1>11, <2>2
      DEF DeinitClose, Types, StoreTypes, flagVars, ringVars, threadVars, flusherVars
<1> QED BY Zenon, <1>2, <1>3, <1>4, <1>5, <1>6, <1>7, <1>8, <1>9, <1>10, <1>11 DEF Flusher, Deinit
(* Flags are Booleans in every state.                                       *)
LEMMA FlagsStep == ASSUME FlagTypes, Next PROVE FlagTypes'
<1>1. CASE LoggerInit
  <2>1. ringReady' \in BOOLEAN BY Zenon, <1>1, LoggerAssumption DEF LoggerInit
  <2> QED BY Zenon, <1>1, <2>1 DEF FlagTypes, LoggerInit, flusherVars
<1>2. CASE BootEnd BY Zenon, <1>2 DEF FlagTypes, BootEnd, flagVars, docVars, flusherVars
<1>3. ASSUME NEW x \in Thread, Log(x) PROVE FlagTypes'
  <2>1. CASE LogBegin(x) BY Zenon, <2>1 DEF FlagTypes, LogBegin, flagVars, docVars, flusherVars
  <2>2. CASE LogGate(x) BY Zenon, <2>2 DEF FlagTypes, LogGate, flagVars, docVars, flusherVars
  <2>3. CASE SyncWrite(x) BY Zenon, <2>3 DEF FlagTypes, SyncWrite, flagVars, flusherVars
  <2>4. CASE SyncMark(x) BY Zenon, <2>4 DEF FlagTypes, SyncMark, flagVars, flusherVars
  <2>5. CASE EnsureFlusher(x) BY Zenon, <2>5 DEF FlagTypes, EnsureFlusher, docVars, flusherVars
  <2>6. CASE FlusherCreate(x) BY Zenon, <2>6 DEF FlagTypes, FlusherCreate, docVars
  <2>7. CASE FlusherStarted(x) BY Zenon, <2>7 DEF FlagTypes, FlusherStarted, docVars, flusherVars
  <2>8. CASE RingGet(x) BY Zenon, <2>8 DEF FlagTypes, RingGet, flagVars, docVars, flusherVars
  <2>9. CASE RegistryAdd(x) BY Zenon, <2>9 DEF FlagTypes, RegistryAdd, flagVars, docVars, flusherVars
  <2>10. CASE TssSet(x) BY Zenon, <2>10 DEF FlagTypes, TssSet, flagVars, docVars, flusherVars
  <2>11. CASE RingPush(x) BY Zenon, <2>11 DEF FlagTypes, RingPush, flagVars, docVars, flusherVars
  <2> QED BY Zenon, <1>3, <2>1, <2>2, <2>3, <2>4, <2>5, <2>6, <2>7, <2>8, <2>9, <2>10, <2>11 DEF Log
<1>4. ASSUME NEW x \in Thread, ThreadExit(x) PROVE FlagTypes'
  BY Zenon, <1>4 DEF FlagTypes, ThreadExit, flagVars, docVars, flusherVars
<1>5. CASE Flusher
  <2>1. CASE FlusherCheck BY Zenon, <2>1 DEF FlagTypes, FlusherCheck, flagVars, docVars
  <2>1a. CASE FlusherBegin BY Zenon, <2>1a DEF FlagTypes, FlusherBegin, flagVars, docVars
  <2>2. CASE FlusherWalk BY Zenon, <2>2 DEF FlagTypes, FlusherWalk, flagVars, docVars
  <2>3. CASE FlusherEmit BY Zenon, <2>3 DEF FlagTypes, FlusherEmit, flagVars
  <2>4. CASE FlusherMark BY Zenon, <2>4 DEF FlagTypes, FlusherMark, flagVars
  <2>5. CASE FlusherRelease BY Zenon, <2>5 DEF FlagTypes, FlusherRelease, flagVars, docVars
  <2>6. CASE FlusherLeave BY Zenon, <2>6 DEF FlagTypes, FlusherLeave, docVars
  <2> QED BY Zenon, <1>5, <2>1, <2>1a, <2>2, <2>3, <2>4, <2>5, <2>6 DEF Flusher
<1>6. CASE Deinit \/ Gone
  <2>1. CASE DeinitDecline BY Zenon, <2>1 DEF FlagTypes, DeinitDecline, docVars, flusherVars
  <2>2. CASE DeinitStop BY Zenon, <2>2 DEF FlagTypes, DeinitStop, docVars, flusherVars
  <2>3. CASE DeinitJoin BY Zenon, <2>3 DEF FlagTypes, DeinitJoin, flagVars, docVars, flusherVars
  <2>4. CASE DeinitFree BY Zenon, <2>4 DEF FlagTypes, DeinitFree, flagVars, docVars, flusherVars
  <2>5. CASE DeinitClose BY Zenon, <2>5 DEF FlagTypes, DeinitClose, flagVars, flusherVars
  <2>6. CASE Gone BY Zenon, <2>6 DEF FlagTypes, Gone, vars, flagVars, docVars, flusherVars
  <2> QED BY Zenon, <1>6, <2>1, <2>2, <2>3, <2>4, <2>5, <2>6 DEF Deinit
<1> QED BY Zenon, <1>1, <1>2, <1>3, <1>4, <1>5, <1>6 DEF Next

(* Every step keeps the types.                                              *)
LEMMA TypesStep == ASSUME IInv, Next PROVE Types'
<1>1. FlagTypes' BY Zenon, FlagsStep DEF IInv, Types
<1>2. StoreTypes' BY Zenon, LogTypes, OtherTypes DEF Next
<1> QED BY Zenon, <1>1, <1>2 DEF Types

-----------------------------------------------------------------------------
(* Who may be where.                                                       *)

(* The steps of a log call keep threads where they may be.                  *)
LEMMA LogControl ==
    ASSUME Types, Control, OneFlusher, NEW x \in Thread, Log(x)
    PROVE  Control'
<1>1. /\ pc \in [Thread -> Label] /\ owed \in [Thread -> {0, 1, 2}]
      /\ exited \subseteq Thread
  BY Zenon DEF Types, StoreTypes
<1>2. CASE LogBegin(x)
  <2>1. /\ pc[x] = "idle" /\ x \notin exited
        /\ (phase = "booting" /\ x = Main) \/ phase = "run"
    BY Zenon, <1>2 DEF LogBegin, MayLog
  <2>2. /\ pc'[x] = IF active THEN "gate" ELSE "idle"
        /\ \A y \in Thread : y # x => pc'[y] = pc[y]
    BY Zenon, <1>1, <1>2 DEF LogBegin, Goto
  <2>3. UNCHANGED <<phase, active, ringReady, dpc, owed, spawned, exited>>
    BY Zenon, <1>2 DEF LogBegin, flagVars
  <2> QED BY <1>1, <2>1, <2>2, <2>3 DEF Control, RingLabel
<1>3. CASE LogGate(x) \/ SyncWrite(x) \/ RegistryAdd(x)
  <2>1. /\ pc'[x] \in {"ensure", "sync", "mark", "settss"}
        /\ pc[x] # "idle" /\ pc[x] # "create"
        /\ pc'[x] \in RingLabel => ringReady /\ phase = "run"
        /\ pc'[x] \in {"sync", "mark"} => phase = "booting" \/ ~ringReady
        /\ \A y \in Thread : y # x => pc'[y] = pc[y]
    <3>1. phase \in {"new", "booting", "run", "noboot"} BY Zenon DEF Types, StoreTypes
    <3>2. CASE LogGate(x) BY Zenon, <1>1, <3>1, <3>2 DEF LogGate, Goto, Control, RingLabel
    <3>3. CASE SyncWrite(x) BY Zenon, <1>1, <3>3 DEF SyncWrite, Goto, Control, RingLabel
    <3>4. CASE RegistryAdd(x) BY Zenon, <1>1, <3>4 DEF RegistryAdd, Goto, Control, RingLabel
    <3> QED BY Zenon, <1>3, <3>2, <3>3, <3>4
  <2>2. UNCHANGED <<phase, active, ringReady, dpc, owed, spawned, exited>>
    BY Zenon, <1>3 DEF LogGate, SyncWrite, RegistryAdd, flagVars
  <2> QED BY Zenon, <1>1, <2>1, <2>2 DEF Control, RingLabel
<1>4. ASSUME UNCHANGED <<phase, active, ringReady, dpc, spawned, exited>>, Return(x),
             pc[x] \in {"mark", "get", "settss", "push"}
      PROVE  Control'
  <2>1. /\ \A y \in Thread : y # x => pc'[y] = pc[y] /\ owed'[y] = owed[y]
        /\ \/ owed[x] # 0 /\ owed'[x] = 1 /\ pc'[x] = "gate"
           \/ owed[x] # 0 /\ owed'[x] = 0 /\ pc'[x] = "get"
           \/ owed[x] = 0 /\ owed'[x] = 0 /\ pc'[x] = "idle"
    <3>1. /\ \A y \in Thread : y # x => pc'[y] = pc[y] /\ owed'[y] = owed[y]
          /\ \/ owed[x] = 2 /\ active /\ owed'[x] = 1 /\ pc'[x] = "gate"
             \/ owed[x] = 2 /\ ~active /\ owed'[x] = 0 /\ pc'[x] = "get"
             \/ owed[x] = 1 /\ owed'[x] = 0 /\ pc'[x] = "get"
             \/ owed[x] = 0 /\ owed'[x] = 0 /\ pc'[x] = "idle"
      BY Zenon, <1>4, ReturnIs
    <3> QED BY <3>1
  <2> QED BY Zenon, <1>1, <1>4, <2>1 DEF Control, RingLabel
<1>5. CASE SyncMark(x)
  BY Zenon, <1>4, <1>5 DEF SyncMark, flagVars
<1>6. CASE EnsureFlusher(x)
  <2>1. /\ pc'[x] \in {"get", "create"} /\ pc[x] = "ensure" /\ spawned' = TRUE
        /\ pc'[x] = "create" => ~spawned
        /\ \A y \in Thread : y # x => pc'[y] = pc[y]
    BY Zenon, <1>1, <1>6 DEF EnsureFlusher, Goto
  <2>2. UNCHANGED <<phase, active, ringReady, dpc, owed, exited>> BY Zenon, <1>6 DEF EnsureFlusher
  <2> QED BY Zenon, <1>1, <2>1, <2>2 DEF Control, RingLabel
<1>7. CASE FlusherCreate(x)
  <2>1. /\ pc[x] = "create"
        /\ \A y \in Thread : y # x => pc'[y] = pc[y] /\ owed'[y] = owed[y]
        /\ \/ pc'[x] = "started" /\ owed'[x] = owed[x]
           \/ pc'[x] = "gate" /\ owed'[x] = 2
           \/ pc'[x] = "get" /\ owed'[x] = 0
        /\ spawned
    BY <1>1, <1>7 DEF FlusherCreate, Goto, OneFlusher, Starting
  <2>2. UNCHANGED <<phase, active, ringReady, dpc, spawned, exited>> BY Zenon, <1>7 DEF FlusherCreate
  <2> QED BY <1>1, <2>1, <2>2 DEF Control, RingLabel
<1>8. CASE FlusherStarted(x)
  <2>1. /\ pc[x] = "started" /\ pc'[x] = "get"
        /\ \A y \in Thread : y # x => pc'[y] = pc[y]
    BY Zenon, <1>1, <1>8 DEF FlusherStarted, Goto
  <2>2. UNCHANGED <<phase, active, ringReady, dpc, owed, spawned, exited>>
    BY Zenon, <1>8 DEF FlusherStarted
  <2> QED BY Zenon, <1>1, <2>1, <2>2 DEF Control, RingLabel
<1>9. ASSUME UNCHANGED <<phase, active, ringReady, dpc, owed, spawned, exited>>,
             pc[x] \in RingLabel, pc[x] # "create", NEW l \in {"push", "add"}, Goto(x, l)
      PROVE  Control'
  <2>1. pc'[x] = l /\ \A y \in Thread : y # x => pc'[y] = pc[y] BY Zenon, <1>1, <1>9 DEF Goto
  <2> QED BY Zenon, <1>1, <1>9, <2>1 DEF Control, RingLabel
<1>10. CASE RingGet(x)
  <2>1. UNCHANGED <<phase, active, ringReady, dpc, spawned, exited>> /\ pc[x] = "get"
    BY Zenon, <1>10 DEF RingGet, flagVars
  <2>2. CASE Return(x) BY Zenon, <1>4, <2>1, <2>2
  <2>3. CASE (Goto(x, "push") \/ Goto(x, "add")) /\ UNCHANGED owed
    BY Zenon, <1>9, <2>1, <2>3 DEF RingLabel
  <2> QED BY Zenon, <1>10, <2>2, <2>3 DEF RingGet
<1>11. CASE TssSet(x)
  <2>1. UNCHANGED <<phase, active, ringReady, dpc, spawned, exited>> /\ pc[x] = "settss"
    BY Zenon, <1>11 DEF TssSet, flagVars
  <2>2. CASE Return(x) BY Zenon, <1>4, <2>1, <2>2
  <2>3. CASE Goto(x, "push") /\ UNCHANGED owed BY Zenon, <1>9, <2>1, <2>3 DEF RingLabel
  <2> QED BY Zenon, <1>11, <2>2, <2>3 DEF TssSet
<1>12. CASE RingPush(x)
  BY Zenon, <1>4, <1>12 DEF RingPush, flagVars
<1> QED BY Zenon, <1>2, <1>3, <1>5, <1>6, <1>7, <1>8, <1>10, <1>11, <1>12 DEF Log

(* So do the constructor, the end of a thread, the flusher and teardown.    *)
LEMMA OtherControl ==
    ASSUME Calm, Types, Control,
           \/ LoggerInit \/ BootEnd \/ Flusher \/ Deinit \/ Gone
           \/ \E x \in Thread : ThreadExit(x)
    PROVE  Control'
<1>1. Main \in Thread BY Zenon, LoggerAssumption
<1>2. CASE LoggerInit
  <2>1. /\ phase = "new" /\ phase' = "booting" /\ active' = TRUE
        /\ Ringed => ringReady' = TRUE
        /\ UNCHANGED <<spawned, pc, owed, exited, dpc>>
    BY Zenon, <1>2 DEF LoggerInit, Ringed, threadVars
  <2> QED BY Zenon, <2>1 DEF Control, RingLabel
<1>3. CASE BootEnd
  <2>1. /\ phase = "booting" /\ pc[Main] = "idle" /\ phase' \in {"run", "noboot"}
        /\ UNCHANGED <<active, ringReady, spawned, pc, owed, exited, dpc>>
    BY Zenon, <1>3 DEF BootEnd, flagVars, threadVars
  <2>2. \A x \in Thread : pc[x] = "idle" BY Zenon, <2>1 DEF Control
  <2> QED BY Zenon, <2>1, <2>2 DEF Control, RingLabel
<1>4. CASE \E x \in Thread : ThreadExit(x)
  <2>1. PICK x \in Thread : ThreadExit(x) BY Zenon, <1>4
  <2>2. /\ pc[x] = "idle" /\ exited' = exited \cup {x}
        /\ UNCHANGED <<phase, active, ringReady, spawned, pc, owed, dpc>>
    BY Zenon, <2>1 DEF ThreadExit, flagVars
  <2> QED BY Zenon, <2>2 DEF Control
<1>5. CASE Flusher \/ DeinitFree \/ DeinitStop \/ DeinitJoin \/ DeinitClose \/ Gone
  <2>1. UNCHANGED <<phase, active, ringReady, spawned, pc, owed, exited>>
    BY Zenon, <1>5 DEF Flusher, FlusherCheck, FlusherBegin, FlusherWalk, FlusherEmit, FlusherMark,
       FlusherRelease, FlusherLeave, DeinitFree, DeinitStop, DeinitJoin, DeinitClose, Gone, vars, flagVars,
       threadVars
  <2>2. dpc' = dpc \/ (dpc # "none" /\ dpc' # "none")
    BY Zenon, <1>5 DEF Flusher, FlusherCheck, FlusherBegin, FlusherWalk, FlusherEmit, FlusherMark,
       FlusherRelease, FlusherLeave, DeinitFree, DeinitStop, DeinitJoin, DeinitClose, Gone, vars
  <2> QED BY Zenon, <2>1, <2>2 DEF Control
<1>6. CASE DeinitDecline
  <2>1. /\ dpc = "none" /\ pc[Main] = "idle" /\ phase \in {"run", "noboot"}
        /\ phase = "run" => exited = Thread \ {Main}
        /\ active' = FALSE /\ ringReady' = FALSE /\ dpc' # "none"
        /\ UNCHANGED <<phase, spawned, pc, owed, exited>>
    BY Zenon, <1>6 DEF DeinitDecline, Calm, OthersEnded, threadVars
  <2>2. \A x \in Thread : pc[x] = "idle" BY Zenon, <2>1 DEF Control
  <2> QED BY Zenon, <2>1, <2>2 DEF Control, RingLabel
<1> QED BY Zenon, <1>2, <1>3, <1>4, <1>5, <1>6 DEF Deinit

-----------------------------------------------------------------------------
(* One flusher.                                                            *)

(* The steps of a log call create one flusher at most.                      *)
LEMMA LogOneFlusher ==
    ASSUME Types, Control, OneFlusher, NEW x \in Thread, Log(x)
    PROVE  OneFlusher'
<1>1. pc \in [Thread -> Label] BY Zenon DEF Types, StoreTypes
<1>2. ASSUME UNCHANGED <<phase, ringReady, spawned, running, stop, fpc, final, dpc>>,
             \A y \in Thread : y # x => pc'[y] = pc[y],
             pc'[x] \notin {"create", "started"}, pc[x] # "started"
      PROVE  OneFlusher'
  BY Zenon, <1>2 DEF OneFlusher, Starting
<1>3. CASE LogBegin(x) \/ LogGate(x) \/ SyncWrite(x) \/ RegistryAdd(x)
  <2>1. UNCHANGED <<phase, ringReady, spawned, running, stop, fpc, final, dpc>>
    BY Zenon, <1>3 DEF LogBegin, LogGate, SyncWrite, RegistryAdd, flagVars, flusherVars
  <2>2. /\ \A y \in Thread : y # x => pc'[y] = pc[y]
        /\ pc'[x] \notin {"create", "started"} /\ pc[x] # "started"
    BY Zenon, <1>1, <1>3 DEF LogBegin, MayLog, LogGate, SyncWrite, RegistryAdd, Goto
  <2> QED BY Zenon, <1>2, <2>1, <2>2
<1>4. CASE SyncMark(x) \/ RingGet(x) \/ TssSet(x) \/ RingPush(x)
  <2>1. UNCHANGED <<phase, ringReady, spawned, running, stop, fpc, final, dpc>>
    BY Zenon, <1>4 DEF SyncMark, RingGet, TssSet, RingPush, flagVars, flusherVars
  <2>2. pc[x] # "started" /\ (Return(x) \/ Goto(x, "push") \/ Goto(x, "add"))
    BY Zenon, <1>4 DEF SyncMark, RingGet, TssSet, RingPush
  <2>3. /\ \A y \in Thread : y # x => pc'[y] = pc[y]
        /\ pc'[x] \notin {"create", "started"}
    BY Zenon, <1>1, <2>2, ReturnIs DEF Goto
  <2> QED BY Zenon, <1>2, <2>1, <2>2, <2>3
<1>5. CASE EnsureFlusher(x)
  <2>1. /\ spawned' = TRUE /\ pc[x] = "ensure"
        /\ \A y \in Thread : y # x => pc'[y] = pc[y]
        /\ spawned => pc'[x] = "get"
        /\ ~spawned => pc'[x] = "create"
    BY Zenon, <1>1, <1>5 DEF EnsureFlusher, Goto
  <2>2. UNCHANGED <<phase, ringReady, running, stop, fpc, final, dpc>>
    BY Zenon, <1>5 DEF EnsureFlusher, flusherVars
  <2>3. phase = "run" /\ ringReady BY Zenon, <2>1 DEF Control, RingLabel
  <2>4. fpc \in {"none", "check", "begin", "walk", "drain", "mark", "leave", "done"}
    BY Zenon DEF Types, StoreTypes
  <2>5. CASE spawned BY Zenon, <2>1, <2>2, <2>3, <2>5 DEF OneFlusher, Starting
  <2>6. CASE ~spawned
    <3>1. \A y \in Thread : ~Starting(y) BY Zenon, <2>6 DEF OneFlusher
    <3>2. fpc = "none" /\ ~running BY Zenon, <2>6 DEF OneFlusher
    <3> QED BY Zenon, <2>1, <2>2, <2>3, <2>6, <3>1, <3>2 DEF OneFlusher, Starting
  <2> QED BY Zenon, <2>5, <2>6
<1>6. CASE FlusherCreate(x)
  <2>1. /\ pc[x] = "create" /\ ~running /\ ~stop' /\ spawned /\ fpc = "none"
        /\ \A y \in Thread : y # x => pc'[y] = pc[y] /\ ~Starting(y)
        /\ \/ pc'[x] = "started" /\ fpc' = "check"
           \/ pc'[x] \in {"gate", "get"} /\ fpc' = fpc
    BY Zenon, <1>1, <1>6 DEF FlusherCreate, Goto, OneFlusher, Starting
  <2>2. UNCHANGED <<phase, ringReady, spawned, running, final, dpc>> BY Zenon, <1>6 DEF FlusherCreate
  <2>3. ~final /\ dpc = "none" BY Zenon, <2>1 DEF Control, OneFlusher, Starting
  <2> QED BY Zenon, <2>1, <2>2, <2>3 DEF OneFlusher, Starting
<1>7. CASE FlusherStarted(x)
  <2>1. /\ pc[x] = "started" /\ pc'[x] = "get" /\ running' = TRUE
        /\ \A y \in Thread : y # x => pc'[y] = pc[y] /\ ~Starting(y)
    BY Zenon, <1>1, <1>7 DEF FlusherStarted, Goto, OneFlusher, Starting
  <2>2. UNCHANGED <<phase, ringReady, spawned, stop, fpc, final, dpc>>
    BY Zenon, <1>7 DEF FlusherStarted, flusherVars
  <2>3. fpc \notin {"none", "done"}
    BY Zenon, <2>1 DEF OneFlusher
  <2> QED BY Zenon, <2>1, <2>2, <2>3 DEF OneFlusher, Starting
<1> QED BY Zenon, <1>3, <1>4, <1>5, <1>6, <1>7 DEF Log

(* The flusher leaves once it has seen the stop; teardown goes on after it. *)
LEMMA OtherOneFlusher ==
    ASSUME Calm, Types, Control, OneFlusher,
           \/ LoggerInit \/ BootEnd \/ Flusher \/ Deinit \/ Gone
           \/ \E x \in Thread : ThreadExit(x)
    PROVE  OneFlusher'
<1>1. dpc \in {"none", "stop", "join", "free", "close", "done"}
  BY Zenon DEF Types, StoreTypes
<1>2. CASE LoggerInit \/ BootEnd \/ Gone \/ \E x \in Thread : ThreadExit(x)
  <2>1. UNCHANGED <<spawned, running, stop, fpc, final, dpc, pc>>
    BY Zenon, <1>2 DEF LoggerInit, BootEnd, Gone, ThreadExit, vars, flagVars, threadVars, flusherVars
  <2>2. phase = "run" => phase' = "run" /\ ringReady' = ringReady
    BY Zenon, <1>2 DEF LoggerInit, BootEnd, Gone, ThreadExit, vars, flagVars
  <2> QED BY Zenon, <2>1, <2>2 DEF OneFlusher, Starting
<1>3. CASE Flusher
  <2>1. UNCHANGED <<phase, ringReady, spawned, stop, dpc, pc>>
    BY Zenon, <1>3 DEF Flusher, FlusherCheck, FlusherBegin, FlusherWalk, FlusherEmit, FlusherMark,
       FlusherRelease, FlusherLeave, flagVars, threadVars
  <2>2. CASE FlusherLeave
    <3>1. fpc = "leave" /\ fpc' = "done" /\ running' = FALSE /\ final' = final
      BY Zenon, <2>2 DEF FlusherLeave
    <3>2. \A y \in Thread : ~Starting(y)
      BY Zenon, <3>1 DEF OneFlusher, Control, Starting
    <3> QED BY Zenon, <2>1, <3>1, <3>2 DEF OneFlusher, Starting
  <2>3. CASE \/ FlusherCheck \/ FlusherBegin \/ FlusherWalk \/ FlusherEmit \/ FlusherMark \/ FlusherRelease
    <3>1. /\ fpc \in {"check", "begin", "walk", "drain", "mark"} /\ fpc' \notin {"none", "done"}
          /\ running' = running /\ (final' = final \/ final' = stop)
          /\ fpc' = "leave" => final /\ final' = final
      BY Zenon, <2>3 DEF FlusherCheck, FlusherBegin, FlusherWalk, FlusherEmit, FlusherMark, FlusherRelease, flagVars
    <3> QED BY <2>1, <3>1 DEF OneFlusher, Starting
  <2> QED BY Zenon, <1>3, <2>2, <2>3 DEF Flusher
<1>4. CASE Deinit
  <2>1. UNCHANGED <<phase, spawned, running, fpc, final, pc>>
    BY Zenon, <1>4 DEF Deinit, DeinitDecline, DeinitStop, DeinitJoin, DeinitFree, DeinitClose,
       flagVars, threadVars, flusherVars
  <2>2. CASE DeinitDecline
    <3>1. /\ dpc = "none" /\ stop' = stop
          /\ dpc' = "stop" \/ (~ringReady /\ dpc' = "close")
      BY Zenon, <2>2 DEF DeinitDecline
    <3> QED BY Zenon, <2>1, <3>1 DEF OneFlusher, Starting
  <2>3. CASE DeinitStop
    <3>1. \A y \in Thread : pc[y] = "idle" BY Zenon, <2>3 DEF DeinitStop, Control
    <3>2. fpc \in {"none", "done"} \/ (spawned /\ running) BY Zenon, <3>1 DEF OneFlusher
    <3>3. \/ stop' = TRUE /\ dpc' = "join"
          \/ ~(spawned /\ running) /\ dpc = "stop" /\ dpc' = "free" /\ stop' = stop
      BY Zenon, <2>3 DEF DeinitStop
    <3> QED BY Zenon, <2>1, <3>2, <3>3 DEF OneFlusher, Starting
  <2>4. CASE DeinitJoin
    <3>1. dpc = "join" /\ fpc = "done" /\ dpc' = "free" /\ stop' = stop
      BY Zenon, <2>4 DEF DeinitJoin, Calm, flagVars
    <3> QED BY Zenon, <2>1, <3>1 DEF OneFlusher, Starting
  <2>5. CASE DeinitFree \/ DeinitClose
    <3>1. /\ dpc \in {"free", "close"} /\ dpc' \in {"free", "close", "done"} /\ stop' = stop
      BY Zenon, <2>5 DEF DeinitFree, DeinitClose, flagVars
    <3> QED BY Zenon, <2>1, <3>1 DEF OneFlusher, Starting
  <2> QED BY Zenon, <1>4, <2>2, <2>3, <2>4, <2>5 DEF Deinit
<1> QED BY Zenon, <1>2, <1>3, <1>4

-----------------------------------------------------------------------------
(* The rings that are held.                                                *)

(* The rings of the registry and of the walk are rings.                     *)
LEMMA RingSets ==
    ASSUME Types
    PROVE  Registered \subseteq Ring /\ ToWalk \subseteq Ring
  BY DEF Types, StoreTypes, Registered, ToWalk

(* A prepended ring is registered with those that were.                     *)
LEMMA RegisteredMore ==
    ASSUME Types, NEW r \in Ring, registry' = <<r>> \o registry
    PROVE  Registered' = Registered \cup {r}
<1>1. registry \in Seq(Ring) /\ <<r>> \in Seq(Ring) BY DEF Types, StoreTypes
<1>2. Len(registry') = Len(registry) + 1 /\ registry'[1] = r BY <1>1
<1>3. \A i \in 1 .. Len(registry) : registry'[i + 1] = registry[i] BY <1>1
<1>4. \A i \in 1 .. Len(registry') : i = 1 \/ registry'[i] = registry[i - 1] BY <1>1
<1>5. Len(registry) \in Nat BY <1>1
<1>6. ASSUME NEW s \in Registered' PROVE s \in Registered \cup {r}
  <2>1. PICK i \in 1 .. Len(registry') : s = registry'[i] BY Zenon DEF Registered
  <2>2. CASE i = 1 BY Zenon, <1>2, <2>1, <2>2
  <2>3. CASE i # 1
    <3>1. i - 1 \in 1 .. Len(registry) BY <1>2, <1>5, <2>3
    <3> QED BY Zenon, <1>4, <2>1, <2>3, <3>1 DEF Registered
  <2> QED BY Zenon, <2>2, <2>3
<1>7. ASSUME NEW s \in Registered PROVE s \in Registered'
  <2>1. PICK i \in 1 .. Len(registry) : s = registry[i] BY Zenon DEF Registered
  <2>2. i + 1 \in 1 .. Len(registry') BY <1>2, <1>5
  <2> QED BY Zenon, <1>3, <2>1, <2>2 DEF Registered
<1>8. r \in Registered'
  <2>1. 1 \in 1 .. Len(registry') BY <1>2, <1>5
  <2> QED BY Zenon, <1>2, <2>1 DEF Registered
<1> QED BY Zenon, <1>6, <1>7, <1>8

(* The steps of a log call hold rings that are registered.                  *)
LEMMA LogHeld ==
    ASSUME Calm, IInv, NEW x \in Thread, Log(x)
    PROVE  RingsHeld'
<1>1. /\ Types /\ Control /\ RingsHeld /\ pc \in [Thread -> Label]
      /\ cur \in [Thread -> Ring \cup {NoRing}] /\ tss \in [Thread -> Ring \cup {NoRing}]
      /\ Registered \subseteq Ring /\ ToWalk \subseteq Ring /\ NoRing \notin Ring
  BY RingSets DEF IInv, Types, StoreTypes, NoRing, Ring
<1>2. UNCHANGED <<phase, ringReady, dpc, walk>> /\ ToWalk' = ToWalk
  BY DEF Log, LogBegin, LogGate, SyncWrite, SyncMark, EnsureFlusher, FlusherCreate,
     FlusherStarted, RingGet, RegistryAdd, TssSet, RingPush, flagVars, flusherVars, ToWalk
<1>3. registry' = registry => Registered' = Registered BY Zenon DEF Registered
<1>4. ASSUME UNCHANGED <<ring, registry, tss, cur>>,
             \A y \in Thread : y # x => pc'[y] = pc[y],
             pc'[x] \notin {"add", "settss", "push"}
      PROVE  RingsHeld'
  BY Zenon, <1>1, <1>2, <1>3, <1>4 DEF RingsHeld
<1>5. CASE \/ LogBegin(x) \/ LogGate(x) \/ SyncWrite(x) \/ EnsureFlusher(x)
           \/ FlusherCreate(x) \/ FlusherStarted(x)
  <2>1. UNCHANGED <<ring, registry, tss, cur>>
    BY Zenon, <1>5 DEF LogBegin, LogGate, SyncWrite, EnsureFlusher, FlusherCreate, FlusherStarted, ringVars
  <2>2. /\ \A y \in Thread : y # x => pc'[y] = pc[y]
        /\ pc'[x] \notin {"add", "settss", "push"}
    BY Zenon, <1>1, <1>5 DEF LogBegin, LogGate, SyncWrite, EnsureFlusher, FlusherCreate,
       FlusherStarted, Goto
  <2> QED BY Zenon, <1>4, <2>1, <2>2
<1>6. ASSUME UNCHANGED <<ring, registry, tss, cur>>, Return(x) PROVE RingsHeld'
  BY Zenon, <1>1, <1>4, <1>6, ReturnIs
<1>7. CASE SyncMark(x) BY Zenon, <1>6, <1>7 DEF SyncMark, ringVars
<1>8. CASE RingGet(x)
  <2>1. registry' = registry /\ tss' = tss BY Zenon, <1>8 DEF RingGet
  <2>2. CASE Return(x) /\ UNCHANGED <<ring, cur>> BY Zenon, <1>6, <2>1, <2>2
  <2>3. CASE /\ tss[x] # NoRing /\ cur' = [cur EXCEPT ![x] = tss[x]]
             /\ Goto(x, "push") /\ ring' = ring
    <3>1. /\ cur'[x] = tss[x] /\ pc'[x] = "push"
          /\ \A y \in Thread : y # x => cur'[y] = cur[y] /\ pc'[y] = pc[y]
      BY Zenon, <1>1, <2>3 DEF Goto
    <3> QED BY Zenon, <1>1, <1>2, <1>3, <2>1, <2>3, <3>1 DEF RingsHeld
  <2>4. ASSUME tss[x] = NoRing, NEW r \in Ring, ring[r].state = "none",
               ring' = [ring EXCEPT ![r].state = "live"],
               cur' = [cur EXCEPT ![x] = r], Goto(x, "add")
        PROVE  RingsHeld'
    <3>1. /\ cur'[x] = r /\ pc'[x] = "add"
          /\ \A y \in Thread : y # x => cur'[y] = cur[y] /\ pc'[y] = pc[y]
      BY Zenon, <1>1, <2>4 DEF Goto
    <3>2. /\ ring'[r].state = "live" /\ \A s \in Ring : s # r => ring'[s] = ring[s]
          /\ \A s \in Ring : ring'[s].queue = ring[s].queue
      BY Zenon, <1>1, <2>4, StateSet
    <3> QED BY <1>1, <1>2, <1>3, <2>1, <2>4, <3>1, <3>2 DEF RingsHeld
  <2> QED BY Zenon, <1>8, <2>2, <2>3, <2>4 DEF RingGet
<1>9. CASE RegistryAdd(x)
  <2>1. /\ pc[x] = "add" /\ cur[x] \in Ring /\ registry' = <<cur[x]>> \o registry
        /\ UNCHANGED <<ring, tss, cur>>
    BY Zenon, <1>1, <1>9 DEF RegistryAdd, Calm, RingsHeld
  <2>2. Registered' = Registered \cup {cur[x]} BY Zenon, <1>1, <2>1, RegisteredMore
  <2>3. pc'[x] = "settss" /\ \A y \in Thread : y # x => pc'[y] = pc[y]
    BY Zenon, <1>1, <1>9 DEF RegistryAdd, Goto
  <2> QED BY Zenon, <1>1, <1>2, <2>1, <2>2, <2>3 DEF RingsHeld
<1>10. CASE TssSet(x)
  <2>1. pc[x] = "settss" /\ UNCHANGED <<ring, registry, cur>> BY Zenon, <1>10 DEF TssSet, ringVars
  <2>2. CASE Return(x) /\ UNCHANGED tss BY Zenon, <1>6, <2>1, <2>2
  <2>3. CASE tss' = [tss EXCEPT ![x] = cur[x]] /\ Goto(x, "push")
    <3>1. /\ tss'[x] = cur[x] /\ pc'[x] = "push"
          /\ \A y \in Thread : y # x => tss'[y] = tss[y] /\ pc'[y] = pc[y]
      BY Zenon, <1>1, <2>3 DEF Goto
    <3> QED BY <1>1, <1>2, <1>3, <2>1, <3>1 DEF RingsHeld
  <2> QED BY Zenon, <1>10, <2>2, <2>3 DEF TssSet
<1>11. CASE RingPush(x)
  <2>1. /\ pc[x] = "push" /\ UNCHANGED <<registry, tss, cur>> /\ Return(x)
    BY Zenon, <1>11 DEF RingPush
  <2>2. cur[x] = tss[x] /\ cur[x] \in Ring /\ dpc = "none" /\ ringReady /\ phase = "run"
    BY Zenon, <1>1, <2>1 DEF RingsHeld, Control, RingLabel
  <2>3. /\ \A s \in Ring : s # cur[x] => ring'[s] = ring[s]
        /\ ring'[cur[x]].state = ring[cur[x]].state
    BY Zenon, <1>1, <1>11, <2>2, PushIs
  <2>4. /\ \A y \in Thread : y # x => pc'[y] = pc[y]
        /\ pc'[x] \notin {"add", "settss", "push"}
    BY Zenon, <1>1, <2>1, ReturnIs
  <2>5. tss[x] \in Registered BY Zenon, <1>1, <2>1, <2>2 DEF RingsHeld
  <2>6. \A s \in Ring : ring'[s].state = ring[s].state /\ (s # cur[x] => ring'[s] = ring[s])
    BY Zenon, <2>3
  <2>7. Registered' = Registered /\ ToWalk' = ToWalk BY Zenon, <1>2, <2>1 DEF Registered
  <2>8. ASSUME NEW r \in Ring, ring'[r].queue # <<>>
        PROVE  /\ phase' = "run" /\ (ringReady' \/ dpc' # "none")
               /\ dpc' \notin {"close", "done"} => r \in Registered'
    <3>1. CASE r = cur[x] BY Zenon, <1>2, <2>2, <2>5, <2>7, <3>1
    <3>2. CASE r # cur[x] BY Zenon, <1>1, <1>2, <2>6, <2>7, <2>8, <3>2 DEF RingsHeld
    <3> QED BY Zenon, <3>1, <3>2
  <2>9. \A y \in Thread : pc'[y] \in {"add", "settss", "push"} => pc'[y] = pc[y]
    BY Zenon, <2>4
  <2>10. \A y \in Thread : cur'[y] \in Ring => ring'[cur'[y]].state = ring[cur[y]].state
    BY Zenon, <2>1, <2>6
  <2>11. \A r \in Registered' \cup ToWalk' : ring'[r].state # "none"
    BY Zenon, <1>1, <2>6, <2>7 DEF RingsHeld
  <2> QED BY <1>1, <1>2, <2>1, <2>6, <2>7, <2>8, <2>9, <2>10, <2>11 DEF RingsHeld
<1> QED BY Zenon, <1>5, <1>7, <1>8, <1>9, <1>10, <1>11 DEF Log

(* What a walk has left to do when it steps past a ring.                    *)
LEMMA WalkTail ==
    ASSUME Types, walk # <<>>, walk' = Tail(walk)
    PROVE  /\ ToWalk' \subseteq ToWalk
           /\ \A r \in ToWalk : r # Head(walk) => r \in ToWalk'
<1>1. walk \in Seq(Ring) BY Zenon DEF Types, StoreTypes
<1>2. /\ Len(walk) \in Nat /\ Len(walk) # 0 /\ Len(walk') = Len(walk) - 1 /\ Head(walk) = walk[1]
      /\ \A i \in 1 .. Len(walk') : walk'[i] = walk[i + 1]
  BY <1>1
<1>3. ASSUME NEW r \in ToWalk' PROVE r \in ToWalk
  <2>1. PICK i \in 1 .. Len(walk') : r = walk'[i] BY Zenon DEF ToWalk
  <2>2. i + 1 \in 1 .. Len(walk) BY <1>2
  <2> QED BY Zenon, <1>2, <2>1, <2>2 DEF ToWalk
<1>4. ASSUME NEW r \in ToWalk, r # Head(walk) PROVE r \in ToWalk'
  <2>1. PICK i \in 1 .. Len(walk) : r = walk[i] BY Zenon DEF ToWalk
  <2>2. i # 1 BY Zenon, <1>2, <1>4, <2>1
  <2>3. i - 1 \in 1 .. Len(walk') /\ (i - 1) + 1 = i BY <1>2, <2>2
  <2>4. walk'[i - 1] = r BY Zenon, <1>2, <2>1, <2>3
  <2> QED BY Zenon, <2>3, <2>4 DEF ToWalk
<1> QED BY Zenon, <1>3, <1>4

(* The other steps hold rings that are registered until teardown drops      *)
(* them, when no thread logs any more.                                      *)
LEMMA OtherHeld ==
    ASSUME Calm, IInv,
           \/ LoggerInit \/ BootEnd \/ Flusher \/ Deinit \/ Gone
           \/ \E x \in Thread : ThreadExit(x)
    PROVE  RingsHeld'
<1>1. /\ Types /\ Control /\ RingsHeld /\ Registered \subseteq Ring /\ ToWalk \subseteq Ring
      /\ NoRing \notin Ring /\ tss \in [Thread -> Ring \cup {NoRing}]
  BY RingSets DEF IInv, Types, StoreTypes, NoRing, Ring
<1>2. registry' = registry => Registered' = Registered BY Zenon DEF Registered
<1>3. walk' = walk => ToWalk' = ToWalk BY DEF ToWalk
<1>4. CASE LoggerInit \/ BootEnd
  <2>1. UNCHANGED <<registry, ring, walk, pc, cur, tss, dpc>> /\ phase # "run"
    BY Zenon, <1>4 DEF LoggerInit, BootEnd, ringVars, threadVars, flusherVars
  <2>2. \A r \in Ring : ring'[r].queue = <<>> BY Zenon, <1>1, <2>1 DEF RingsHeld
  <2>3. Registered' = Registered /\ ToWalk' = ToWalk BY Zenon, <1>2, <1>3, <2>1
  <2> QED BY <1>1, <2>1, <2>2, <2>3 DEF RingsHeld
<1>5. CASE Gone \/ FlusherCheck \/ FlusherWalk \/ FlusherMark \/ FlusherLeave
  <2>1. UNCHANGED <<registry, ring, walk, pc, cur, tss, dpc, phase, ringReady>>
    BY Zenon, <1>5 DEF Gone, FlusherCheck, FlusherWalk, FlusherMark, FlusherLeave, vars, ringVars, threadVars,
       flusherVars, flagVars
  <2> QED BY Zenon, <1>1, <1>2, <1>3, <2>1 DEF RingsHeld
<1>6. ASSUME NEW x \in Thread, ThreadExit(x) PROVE RingsHeld'
  <2>1. /\ UNCHANGED <<registry, ring, walk, pc, cur, dpc, phase, ringReady>>
        /\ pc[x] = "idle" /\ tss' = [tss EXCEPT ![x] = NoRing]
    BY Zenon, <1>6 DEF ThreadExit, ringVars, flusherVars, flagVars
  <2>2. tss'[x] = NoRing /\ \A y \in Thread : y # x => tss'[y] = tss[y] BY Zenon, <1>1, <2>1
  <2> QED BY Zenon, <1>1, <1>2, <1>3, <2>1, <2>2 DEF RingsHeld
<1>7. CASE FlusherBegin
  <2>1. UNCHANGED <<registry, ring, pc, cur, tss, dpc, phase, ringReady>> /\ walk' = registry
    BY Zenon, <1>7 DEF FlusherBegin, ringVars, threadVars, flagVars
  <2>2. ToWalk' = Registered BY Zenon, <2>1 DEF ToWalk, Registered
  <2> QED BY Zenon, <1>1, <1>2, <2>1, <2>2 DEF RingsHeld
<1>8. CASE FlusherEmit
  <2>1. walk # <<>> /\ batch <= Pending BY Zenon, <1>8, HeldRings DEF FlusherEmit
  <2>2. Head(walk) \in Ring BY Zenon, <1>1, <2>1, WalkHead
  <2>3. /\ \A s \in Ring : ring'[s].state = ring[s].state
        /\ \A s \in Ring : ring'[s].queue # <<>> => ring[s].queue # <<>>
    BY Zenon, <1>1, <1>8, <2>1, EmitIs
  <2>4. UNCHANGED <<registry, walk, pc, cur, tss, dpc, phase, ringReady>>
    BY Zenon, <1>8 DEF FlusherEmit, threadVars, flagVars
  <2> QED BY <1>1, <1>2, <1>3, <2>3, <2>4 DEF RingsHeld
<1>9. CASE FlusherRelease
  <2>1. walk # <<>> /\ walk' = Tail(walk) BY Zenon, <1>9, HeldRings DEF FlusherRelease
  <2>2. \A s \in Ring : ring'[s].queue = ring[s].queue /\ ring'[s].state = ring[s].state
    BY Zenon, <1>1, <1>9, <2>1, ReleaseIs
  <2>3. UNCHANGED <<registry, pc, cur, tss, dpc, phase, ringReady>>
    BY Zenon, <1>9 DEF FlusherRelease, threadVars, flagVars
  <2>4. ToWalk' \subseteq ToWalk BY Zenon, <1>1, <2>1, WalkTail
  <2> QED BY <1>1, <1>2, <2>2, <2>3, <2>4 DEF RingsHeld
<1>10. CASE DeinitDecline
  <2>1. /\ UNCHANGED <<registry, ring, walk, pc, cur, tss, phase>> /\ dpc = "none"
        /\ dpc' = "stop" \/ (dpc' = "close" /\ ~ringReady)
    BY Zenon, <1>10 DEF DeinitDecline, ringVars, threadVars, flusherVars
  <2>2. \A x \in Thread : pc[x] = "idle"
    BY Zenon, <1>1, <1>10 DEF DeinitDecline, Calm, OthersEnded, Control
  <2> QED BY Zenon, <1>1, <1>2, <1>3, <2>1, <2>2 DEF RingsHeld
<1>11. ASSUME dpc # "none" PROVE \A x \in Thread : pc[x] = "idle" BY Zenon, <1>1, <1>11 DEF Control
<1>12. CASE DeinitStop \/ DeinitJoin \/ DeinitClose
  <2>1. /\ UNCHANGED <<registry, ring, walk, pc, cur, tss, phase, ringReady>>
        /\ dpc # "none" /\ dpc' # "none"
        /\ dpc' \in {"close", "done"} <=> dpc \in {"close", "done"}
        /\ dpc \in {"free", "close", "done"} => dpc' \in {"free", "close", "done"}
    BY Zenon, <1>12 DEF DeinitStop, DeinitJoin, DeinitClose, ringVars, threadVars, flusherVars, flagVars
  <2> QED BY Zenon, <1>1, <1>2, <1>3, <1>11, <2>1 DEF RingsHeld
<1>13. CASE DeinitFree
  <2>1. dpc = "free" /\ UNCHANGED <<walk, pc, cur, tss, phase, ringReady>>
    BY Zenon, <1>13 DEF DeinitFree, threadVars, flusherVars, flagVars
  <2>2. CASE registry' = <<>> /\ dpc' = "close" /\ ring' = ring
    <3>1. Registered' = {} BY <2>2 DEF Registered
    <3> QED BY Zenon, <1>1, <1>3, <1>11, <2>1, <2>2, <3>1 DEF RingsHeld
  <2>3. ASSUME NEW i \in 1 .. Len(registry), UNCHANGED <<registry, dpc>>,
               ring' = [ring EXCEPT ![registry[i]].state = "freed"]
        PROVE  RingsHeld'
    <3>1. PICK r \in Ring : r = registry[i] BY Zenon, <1>1 DEF Registered
    <3>2. ring' = [ring EXCEPT ![r].state = "freed"] BY Zenon, <2>3, <3>1
    <3>3. /\ ring'[r].state = "freed" /\ \A s \in Ring : s # r => ring'[s] = ring[s]
          /\ \A s \in Ring : ring'[s].queue = ring[s].queue
      BY Zenon, <1>1, <3>2, StateSet
    <3> QED BY <1>1, <1>2, <1>3, <1>11, <2>1, <2>3, <3>3 DEF RingsHeld
  <2> QED BY Zenon, <1>13, <2>2, <2>3 DEF DeinitFree
<1> QED BY Zenon, <1>4, <1>5, <1>6, <1>7, <1>8, <1>9, <1>10, <1>12, <1>13 DEF Flusher, Deinit

-----------------------------------------------------------------------------
(* The queues of the rings.                                                *)

(* Of the steps of a log call only a push changes a queue.                  *)
LEMMA LogQueues ==
    ASSUME IInv, NEW x \in Thread, Log(x), ~RingPush(x)
    PROVE  \A s \in Ring : ring'[s].queue = ring[s].queue
<1>1. Types BY Zenon DEF IInv
<1>2. ASSUME NEW r \in Ring, NEW st \in {"none", "live", "freed"},
             ring' = [ring EXCEPT ![r].state = st]
      PROVE  \A s \in Ring : ring'[s].queue = ring[s].queue
  BY Zenon, <1>1, <1>2, StateSet
<1>3. CASE \/ LogBegin(x) \/ LogGate(x) \/ SyncWrite(x) \/ SyncMark(x) \/ EnsureFlusher(x)
           \/ FlusherCreate(x) \/ FlusherStarted(x) \/ TssSet(x)
  BY Zenon, <1>3 DEF LogBegin, LogGate, SyncWrite, SyncMark, EnsureFlusher, FlusherCreate,
     FlusherStarted, TssSet, ringVars
<1>4. CASE RingGet(x) BY Zenon, <1>2, <1>4 DEF RingGet
<1>5. CASE RegistryAdd(x)
  <2>1. PICK r \in Ring : r = cur[x] BY Zenon, <1>5, HeldRings DEF RegistryAdd
  <2>2. ring' = ring \/ ring' = [ring EXCEPT ![r].state = "freed"]
    BY Zenon, <1>5, <2>1 DEF RegistryAdd
  <2> QED BY Zenon, <1>2, <2>2
<1> QED BY Zenon, <1>3, <1>4, <1>5 DEF Log

(* Of the other steps only an emitted entry changes a queue.                *)
LEMMA OtherQueues ==
    ASSUME IInv, ~FlusherEmit,
           \/ LoggerInit \/ BootEnd \/ Flusher \/ Deinit \/ Gone
           \/ \E x \in Thread : ThreadExit(x)
    PROVE  \A s \in Ring : ring'[s].queue = ring[s].queue
<1>1. Types /\ registry \in Seq(Ring) BY Zenon DEF IInv, Types, StoreTypes
<1>2. CASE LoggerInit \/ BootEnd \/ Gone \/ \E x \in Thread : ThreadExit(x)
  BY Zenon, <1>2 DEF LoggerInit, BootEnd, Gone, ThreadExit, vars, ringVars
<1>3. CASE FlusherCheck \/ FlusherBegin \/ FlusherWalk \/ FlusherMark \/ FlusherLeave
  BY Zenon, <1>3 DEF FlusherCheck, FlusherBegin, FlusherWalk, FlusherMark, FlusherLeave, ringVars
<1>4. CASE FlusherRelease BY Zenon, <1>1, <1>4, HeldRings, ReleaseIs DEF FlusherRelease
<1>5. CASE DeinitDecline \/ DeinitStop \/ DeinitJoin \/ DeinitClose
  BY Zenon, <1>5 DEF DeinitDecline, DeinitStop, DeinitJoin, DeinitClose, ringVars
<1>6. CASE DeinitFree
  <2>1. ASSUME NEW i \in 1 .. Len(registry),
               ring' = [ring EXCEPT ![registry[i]].state = "freed"]
        PROVE  \A s \in Ring : ring'[s].queue = ring[s].queue
    <3>1. PICK r \in Ring : r = registry[i] BY <1>1
    <3>2. ring' = [ring EXCEPT ![r].state = "freed"] BY Zenon, <2>1, <3>1
    <3> QED BY Zenon, <1>1, <3>2, StateSet
  <2> QED BY Zenon, <1>6, <2>1 DEF DeinitFree
<1> QED BY Zenon, <1>2, <1>3, <1>4, <1>5, <1>6 DEF Deinit, Flusher

(* What a push adds to the queue of its thread's ring.                      *)
LEMMA PushQueue ==
    ASSUME IInv, NEW x \in Thread, RingPush(x)
    PROVE  /\ cur[x] \in Ring /\ cur[x] = tss[x] /\ x \notin exited /\ dpc = "none"
           /\ \A s \in Ring : s # cur[x] => ring'[s].queue = ring[s].queue
           /\ ring[cur[x]].queue \in Seq(TextOf)
           /\ \/ /\ ring'[cur[x]].queue = Append(ring[cur[x]].queue, Text(x))
                 /\ accepted' = accepted \cup {Text(x)}
              \/ ring'[cur[x]].queue = ring[cur[x]].queue /\ accepted' = accepted
<1>1. Types /\ RingsHeld /\ Control /\ pc[x] = "push" BY Zenon DEF IInv, RingPush
<1>2. cur[x] \in Ring BY Zenon, <1>1, HeldRings
<1>3. cur[x] = tss[x] /\ x \notin exited /\ dpc = "none"
  BY Zenon, <1>1 DEF RingsHeld, Control, RingLabel
<1>4. ring[cur[x]].queue \in Seq(TextOf) BY Zenon, <1>1, <1>2, RingFields
<1> QED BY Zenon, <1>1, <1>2, <1>3, <1>4, PushIs

(* The final drain misses nothing: a thread that could push has ended.      *)
LEMMA LogDrains ==
    ASSUME IInv, NEW x \in Thread, Log(x)
    PROVE  Drains'
<1>1. Types /\ Control /\ OneFlusher /\ Drains BY Zenon DEF IInv
<1>2. UNCHANGED <<walk, batch, final>> /\ ToWalk' = ToWalk
  BY DEF Log, LogBegin, LogGate, SyncWrite, SyncMark, EnsureFlusher, FlusherCreate,
     FlusherStarted, RingGet, RegistryAdd, TssSet, RingPush, flusherVars, ToWalk
<1>3. walk # <<>> => Head(walk) \in Ring BY Zenon, <1>1, WalkHead
<1>4. CASE ~RingPush(x)
  <2>1. \A s \in Ring : ring'[s].queue = ring[s].queue BY Zenon, <1>4, LogQueues
  <2>2. fpc' = fpc \/ fpc' = "check"
    BY Zenon DEF Log, LogBegin, LogGate, SyncWrite, SyncMark, EnsureFlusher, FlusherCreate,
       FlusherStarted, RingGet, RegistryAdd, TssSet, RingPush, flusherVars
  <2>3. walk # <<>> => Pending' = Pending BY Zenon, <1>2, <1>3, <2>1 DEF Pending
  <2> QED BY Zenon, <1>1, <1>2, <2>1, <2>2, <2>3 DEF Drains
<1>5. CASE RingPush(x)
  <2>1. ~final /\ fpc \notin {"leave", "done"} /\ fpc' = fpc
    BY Zenon, <1>1, <1>5, PushQueue DEF OneFlusher, RingPush, flusherVars
  <2>2. ASSUME walk # <<>>
        PROVE  Pending \in Nat /\ (Pending' = Pending \/ Pending' = Pending + 1)
    <3>1. PICK r \in Ring : r = Head(walk) BY Zenon, <1>3, <2>2
    <3>2. ring[r].queue \in Seq(TextOf) /\ Text(x) \in TextOf BY Zenon, <1>1, RingFields, TextIs
    <3>3. ring'[r].queue = ring[r].queue \/ ring'[r].queue = Append(ring[r].queue, Text(x))
      BY Zenon, <1>5, PushQueue
    <3>4. Len(ring'[r].queue) = Len(ring[r].queue) \/ Len(ring'[r].queue) = Len(ring[r].queue) + 1
      BY <3>2, <3>3
    <3>5. Len(ring[r].queue) \in Nat BY <3>2
    <3> QED BY Zenon, <1>2, <3>1, <3>4, <3>5 DEF Pending
  <2>3. batch \in Nat BY Zenon, <1>1 DEF Types, StoreTypes
  <2> QED BY <1>1, <1>2, <2>1, <2>2, <2>3 DEF Drains
<1> QED BY Zenon, <1>4, <1>5

(* The walk after the stop visits every ring and empties it.                *)
LEMMA OtherDrains ==
    ASSUME IInv,
           \/ LoggerInit \/ BootEnd \/ Flusher \/ Deinit \/ Gone
           \/ \E x \in Thread : ThreadExit(x)
    PROVE  Drains'
<1>1. Types /\ Control /\ OneFlusher /\ RingsHeld /\ Drains BY Zenon DEF IInv
<1>2. walk # <<>> => Head(walk) \in Ring BY Zenon, <1>1, WalkHead
<1>3. batch \in Nat BY Zenon, <1>1 DEF Types, StoreTypes
<1>4. walk' = walk => ToWalk' = ToWalk BY Zenon DEF ToWalk
<1>5. CASE LoggerInit \/ BootEnd \/ Deinit \/ Gone \/ \E x \in Thread : ThreadExit(x)
  <2>1. UNCHANGED <<fpc, walk, batch, final>>
    BY Zenon, <1>5 DEF LoggerInit, BootEnd, Gone, ThreadExit, Deinit, DeinitDecline, DeinitStop,
       DeinitJoin, DeinitFree, DeinitClose, vars, flusherVars
  <2>2. ~FlusherEmit BY Zenon, <2>1 DEF FlusherEmit
  <2>3. \A s \in Ring : ring'[s].queue = ring[s].queue BY Zenon, <1>5, <2>2, OtherQueues
  <2>4. walk # <<>> => Pending' = Pending BY Zenon, <1>2, <2>1, <2>3 DEF Pending
  <2> QED BY Zenon, <1>1, <1>4, <2>1, <2>3, <2>4 DEF Drains
<1>6a. CASE FlusherCheck
  <2>1. fpc = "check" /\ fpc' = "begin" /\ ring' = ring BY Zenon, <1>6a DEF FlusherCheck, ringVars
  <2> QED BY Zenon, <1>1, <2>1 DEF Drains
<1>6. CASE FlusherBegin
  <2>1. fpc = "begin" /\ fpc' = "walk" /\ final' = final /\ walk' = registry /\ ring' = ring
    BY Zenon, <1>6 DEF FlusherBegin, ringVars
  <2>2. ToWalk' = Registered BY Zenon, <2>1 DEF ToWalk, Registered
  <2>3. dpc \notin {"close", "done"} BY Zenon, <1>1, <2>1 DEF OneFlusher
  <2> QED BY Zenon, <1>1, <2>1, <2>2, <2>3 DEF Drains, RingsHeld
<1>7. CASE FlusherWalk
  <2>1. fpc = "walk" /\ UNCHANGED <<ring, walk, final>> BY Zenon, <1>7 DEF FlusherWalk, ringVars
  <2>2. CASE walk # <<>> /\ batch' = Pending /\ fpc' = "drain"
    <3>1. Pending \in Nat BY Zenon, <1>1, <1>2, <2>2, RingFields DEF Pending
    <3>2. Pending' = Pending BY Zenon, <2>1 DEF Pending
    <3> QED BY <1>1, <1>4, <2>1, <2>2, <3>1, <3>2 DEF Drains
  <2>3. CASE walk = <<>> /\ fpc' = IF final THEN "leave" ELSE "check"
    <3>1. ToWalk = {} BY <2>3 DEF ToWalk
    <3> QED BY Zenon, <1>1, <2>1, <2>3, <3>1 DEF Drains
  <2> QED BY Zenon, <1>7, <2>2, <2>3 DEF FlusherWalk, Pending
<1>8. CASE FlusherEmit
  <2>1. /\ fpc = "drain" /\ batch > 0 /\ fpc' = "mark" /\ UNCHANGED <<walk, batch, final>>
        /\ walk # <<>> /\ batch <= Pending
    BY Zenon, <1>8, HeldRings DEF FlusherEmit
  <2>2. PICK r \in Ring : r = Head(walk) BY Zenon, <1>2, <2>1
  <2>3. /\ ring[r].queue # <<>> /\ ring'[r].queue = Tail(ring[r].queue)
        /\ \A s \in Ring : s # r => ring'[s] = ring[s]
    BY Zenon, <1>1, <1>8, <2>1, <2>2, EmitIs
  <2>4. ring[r].queue \in Seq(TextOf) BY Zenon, <1>1, RingFields
  <2>5. Len(ring'[r].queue) = Len(ring[r].queue) - 1 /\ Len(ring[r].queue) \in Nat
    BY <2>3, <2>4
  <2>6. Pending' = Pending - 1 /\ Pending \in Nat BY Zenon, <2>1, <2>2, <2>5 DEF Pending
  <2>7. final => \A s \in Ring : ring'[s].queue # <<>> => s \in ToWalk'
    BY Zenon, <1>1, <1>4, <2>1, <2>3 DEF Drains
  <2>8. final => batch = Pending BY Zenon, <1>1, <2>1 DEF Drains
  <2> QED BY <1>3, <2>1, <2>6, <2>7, <2>8 DEF Drains
<1>9. CASE FlusherMark
  <2>1. fpc = "mark" /\ fpc' = "drain" /\ batch' = batch - 1 /\ UNCHANGED <<ring, walk, final>>
    BY Zenon, <1>9 DEF FlusherMark, ringVars
  <2>2. Pending' = Pending BY Zenon, <2>1 DEF Pending
  <2> QED BY Zenon, <1>1, <1>4, <2>1, <2>2 DEF Drains
<1>10. CASE FlusherRelease
  <2>1. /\ fpc = "drain" /\ batch = 0 /\ walk' = Tail(walk) /\ fpc' = "walk" /\ final' = final
        /\ walk # <<>>
    BY Zenon, <1>10, HeldRings DEF FlusherRelease
  <2>2. \A s \in Ring : ring'[s].queue = ring[s].queue BY Zenon, <1>1, <1>10, <2>1, ReleaseIs
  <2>3. ASSUME final PROVE ring[Head(walk)].queue = <<>>
    <3>1. Len(ring[Head(walk)].queue) = 0 BY Zenon, <1>1, <2>1, <2>3 DEF Drains, Pending
    <3>2. ring[Head(walk)].queue \in Seq(TextOf) BY Zenon, <1>1, <1>2, <2>1, RingFields
    <3> QED BY <3>1, <3>2
  <2>4. \A s \in ToWalk : s # Head(walk) => s \in ToWalk' BY Zenon, <1>1, <2>1, WalkTail
  <2> QED BY Zenon, <1>1, <2>1, <2>2, <2>3, <2>4 DEF Drains
<1>11. CASE FlusherLeave
  <2>1. fpc = "leave" /\ fpc' = "done" /\ ring' = ring BY Zenon, <1>11 DEF FlusherLeave, ringVars
  <2> QED BY Zenon, <1>1, <2>1 DEF Drains
<1> QED BY Zenon, <1>5, <1>6a, <1>6, <1>7, <1>8, <1>9, <1>10, <1>11 DEF Flusher

(* A push queues its entry, when there is room, and displaces none.         *)
LEMMA PushQueued ==
    ASSUME IInv, NEW x \in Thread, RingPush(x)
    PROVE  /\ \A t : Queued(t) => Queued(t)'
           /\ \A a \in accepted' : a \in accepted \/ Queued(a)'
<1>1. PICK r \in Ring : r = cur[x] BY Zenon, PushQueue
<1>2. /\ ring[r].queue \in Seq(TextOf) /\ \A s \in Ring : s # r => ring'[s].queue = ring[s].queue
      /\ \/ /\ ring'[r].queue = Append(ring[r].queue, Text(x))
            /\ accepted' = accepted \cup {Text(x)}
         \/ ring'[r].queue = ring[r].queue /\ accepted' = accepted
  BY Zenon, <1>1, PushQueue
<1>3. CASE ring'[r].queue = ring[r].queue /\ accepted' = accepted
  BY Zenon, <1>2, <1>3 DEF Queued
<1>4. CASE ring'[r].queue = Append(ring[r].queue, Text(x)) /\ accepted' = accepted \cup {Text(x)}
  <2>1. PICK text \in TextOf : text = Text(x) BY Zenon, TextIs DEF IInv
  <2>2. /\ Len(ring'[r].queue) = Len(ring[r].queue) + 1 /\ Len(ring[r].queue) \in Nat
        /\ ring'[r].queue[Len(ring[r].queue) + 1] = text
        /\ \A i \in 1 .. Len(ring[r].queue) : ring'[r].queue[i] = ring[r].queue[i]
    BY <1>2, <1>4, <2>1
  <2>3. Len(ring[r].queue) + 1 \in 1 .. Len(ring'[r].queue) BY <2>2
  <2>4. Queued(text)' BY Zenon, <2>2, <2>3 DEF Queued
  <2>5. ASSUME NEW t, Queued(t) PROVE Queued(t)'
    <3>0. PICK s \in Ring : \E i \in 1 .. Len(ring[s].queue) : ring[s].queue[i] = t
      BY Zenon, <2>5 DEF Queued
    <3>1. PICK i \in 1 .. Len(ring[s].queue) : ring[s].queue[i] = t BY Zenon, <3>0
    <3>2. CASE s # r BY Zenon, <1>2, <3>1, <3>2 DEF Queued
    <3>3. CASE s = r
      <4>1. i \in 1 .. Len(ring'[r].queue) BY <2>2, <3>3
      <4> QED BY Zenon, <2>2, <3>1, <3>3, <4>1 DEF Queued
    <3> QED BY Zenon, <3>2, <3>3
  <2> QED BY Zenon, <1>4, <2>1, <2>4, <2>5
<1> QED BY Zenon, <1>2, <1>3, <1>4

(* What one more item of the document adds to what is written.              *)
LEMMA WrittenAppend ==
    ASSUME Types, NEW e \in Item, out' = Append(out, e)
    PROVE  \A t : Written(t)' <=> Written(t) \/ (e.kind = "entry" /\ e.text = t)
<1>1. out \in Seq(Item) BY Zenon DEF Types, StoreTypes
<1>2. /\ Len(out) \in Nat /\ Len(out') = Len(out) + 1 /\ out'[Len(out) + 1] = e
      /\ \A i \in 1 .. Len(out) : out'[i] = out[i]
  BY <1>1
<1>3. ASSUME NEW t, Written(t)' PROVE Written(t) \/ (e.kind = "entry" /\ e.text = t)
  <2>1. PICK i \in 1 .. Len(out') : out'[i].kind = "entry" /\ out'[i].text = t
    BY Zenon, <1>3 DEF Written
  <2>2. i \in 1 .. Len(out) \/ i = Len(out) + 1 BY <1>2
  <2> QED BY Zenon, <1>2, <2>1, <2>2 DEF Written
<1>4. ASSUME NEW t, Written(t) PROVE Written(t)'
  <2>1. PICK i \in 1 .. Len(out) : out[i].kind = "entry" /\ out[i].text = t
    BY Zenon, <1>4 DEF Written
  <2>2. i \in 1 .. Len(out') BY <1>2
  <2> QED BY Zenon, <1>2, <2>1, <2>2 DEF Written
<1>5. ASSUME NEW t, e.kind = "entry", e.text = t PROVE Written(t)'
  <2>1. Len(out) + 1 \in 1 .. Len(out') BY <1>2
  <2> QED BY Zenon, <1>2, <1>5, <2>1 DEF Written
<1> QED BY Zenon, <1>3, <1>4, <1>5

(* Of the other steps only an emitted entry adds an entry to the document.  *)
LEMMA OtherWritten ==
    ASSUME IInv, ~FlusherEmit,
           \/ LoggerInit \/ BootEnd \/ Flusher \/ Deinit \/ Gone
           \/ \E x \in Thread : ThreadExit(x)
    PROVE  \A t : Written(t)' <=> Written(t)
<1>1. CASE LoggerInit
  <2>1. out = <<>> /\ out' = <<Bracket("open")>> BY Zenon, <1>1 DEF LoggerInit, IInv, Document
  <2>2. Bracket("open").kind = "open" BY Zenon DEF Bracket
  <2>3. Len(out') = 1 /\ out'[1] = Bracket("open") /\ Len(out) = 0 BY Zenon, <2>1
  <2> QED BY <2>2, <2>3 DEF Written
<1>2. CASE DeinitClose
  <2>1. PICK e : e = Bracket("close") BY Zenon
  <2>2. e \in Item /\ e.kind = "close" BY Zenon, <2>1 DEF Bracket, Item
  <2> QED BY Zenon, <1>2, <2>1, <2>2, WrittenAppend DEF DeinitClose, IInv
<1>3. CASE out' = out BY Zenon, <1>3 DEF Written
<1>4. CASE \/ BootEnd \/ Gone \/ DeinitDecline \/ DeinitStop \/ DeinitJoin \/ DeinitFree
           \/ \E x \in Thread : ThreadExit(x)
  BY Zenon, <1>3, <1>4 DEF BootEnd, Gone, DeinitDecline, DeinitStop, DeinitJoin, DeinitFree,
     ThreadExit, vars, docVars
<1>5. CASE FlusherCheck \/ FlusherBegin \/ FlusherWalk \/ FlusherMark \/ FlusherRelease \/ FlusherLeave
  BY Zenon, <1>3, <1>5 DEF FlusherCheck, FlusherBegin, FlusherWalk, FlusherMark, FlusherRelease, FlusherLeave, docVars
<1> QED BY Zenon, <1>1, <1>2, <1>4, <1>5 DEF Deinit, Flusher

\* The step takes text from the queue of r and writes it.
Emits(r, text) ==
    /\ ring[r].queue \in Seq(TextOf) /\ ring[r].queue # <<>>
    /\ text = Head(ring[r].queue) /\ ring'[r].queue = Tail(ring[r].queue)
    /\ \A s \in Ring : s # r => ring'[s].queue = ring[s].queue
    /\ out' = Append(out, Entry(text))
    /\ \A t : Written(t)' <=> Written(t) \/ t = text
    /\ \A t : Queued(t) => Queued(t)' \/ t = text
    /\ \A t : Queued(t)' => Queued(t)
    /\ Queued(text)

(* An emitted entry leaves the queue for the document.                      *)
LEMMA EmitQueued ==
    ASSUME IInv, FlusherEmit
    PROVE  \E r \in Ring, text \in TextOf : Emits(r, text)
<1>1. Types /\ walk # <<>> /\ batch <= Pending BY Zenon, HeldRings DEF IInv, FlusherEmit
<1>2. PICK r \in Ring : r = Head(walk) BY Zenon, <1>1, WalkHead
<1>3. /\ \A s \in Ring : s # r => ring'[s] = ring[s]
      /\ ring[r].queue # <<>> /\ ring'[r].queue = Tail(ring[r].queue)
      /\ out' = Append(out, Entry(Head(ring[r].queue))) /\ Head(ring[r].queue) \in TextOf
  BY Zenon, <1>1, <1>2, EmitIs
<1>4. PICK text \in TextOf : text = Head(ring[r].queue) BY Zenon, <1>3
<1>5. ring[r].queue \in Seq(TextOf) BY Zenon, <1>1, RingFields
<1>6. \A t : Written(t)' <=> Written(t) \/ t = text
  <2>1. PICK e : e = Entry(text) BY Zenon
  <2>2. e \in Item /\ e.kind = "entry" /\ e.text = text
    BY Zenon, <1>1, <2>1 DEF Entry, Item, Types, FlagTypes
  <2> QED BY Zenon, <1>1, <1>3, <1>4, <2>1, <2>2, WrittenAppend
<1>7. /\ Len(ring[r].queue) \in Nat \ {0} /\ Len(ring'[r].queue) = Len(ring[r].queue) - 1
      /\ ring[r].queue[1] = text
      /\ \A i \in 1 .. Len(ring'[r].queue) : ring'[r].queue[i] = ring[r].queue[i + 1]
  BY <1>3, <1>4, <1>5
<1>8. ASSUME NEW t, Queued(t), t # text PROVE Queued(t)'
  <2>1. PICK s \in Ring : \E i \in 1 .. Len(ring[s].queue) : ring[s].queue[i] = t
    BY Zenon, <1>8 DEF Queued
  <2>2. PICK i \in 1 .. Len(ring[s].queue) : ring[s].queue[i] = t BY Zenon, <2>1
  <2>3. CASE s # r BY Zenon, <1>3, <2>2, <2>3 DEF Queued
  <2>4. CASE s = r
    <3>1. i # 1 BY Zenon, <1>7, <1>8, <2>2, <2>4
    <3>2. i - 1 \in 1 .. Len(ring'[r].queue) /\ (i - 1) + 1 = i BY <1>7, <2>4, <3>1
    <3>3. ring'[r].queue[i - 1] = t BY Zenon, <1>7, <2>2, <2>4, <3>2
    <3> QED BY Zenon, <3>2, <3>3 DEF Queued
  <2> QED BY Zenon, <2>3, <2>4
<1>9. ASSUME NEW t, Queued(t)' PROVE Queued(t)
  <2>1. PICK s \in Ring : \E i \in 1 .. Len(ring'[s].queue) : ring'[s].queue[i] = t
    BY Zenon, <1>9 DEF Queued
  <2>2. PICK i \in 1 .. Len(ring'[s].queue) : ring'[s].queue[i] = t BY Zenon, <2>1
  <2>3. CASE s # r BY Zenon, <1>3, <2>2, <2>3 DEF Queued
  <2>4. CASE s = r
    <3>1. i + 1 \in 1 .. Len(ring[r].queue) BY <1>7, <2>4
    <3>2. ring[r].queue[i + 1] = t BY Zenon, <1>7, <2>2, <2>4
    <3> QED BY Zenon, <3>1, <3>2 DEF Queued
  <2> QED BY Zenon, <2>3, <2>4
<1>10. Queued(text)
  <2>1. 1 \in 1 .. Len(ring[r].queue) BY <1>7
  <2> QED BY Zenon, <1>7, <2>1 DEF Queued
<1>11. \A s \in Ring : s # r => ring'[s].queue = ring[s].queue BY Zenon, <1>3
<1>12. out' = Append(out, Entry(text)) BY Zenon, <1>3, <1>4
<1>13. Emits(r, text)
  BY Zenon, <1>3, <1>4, <1>5, <1>6, <1>8, <1>9, <1>10, <1>11, <1>12 DEF Emits
<1> QED BY Zenon, <1>13

(* No step of the logger loses an accepted entry.                           *)
LEMMA KeptStep == ASSUME IInv, Next PROVE Kept'
<1>1. Kept /\ Types BY Zenon DEF IInv
<1>2. ASSUME \A s \in Ring : ring'[s].queue = ring[s].queue PROVE \A t : Queued(t) => Queued(t)'
  BY Zenon, <1>2 DEF Queued
<1>3. ASSUME accepted' = accepted, \A t : Written(t) => Written(t)',
             \A t : Queued(t) => Queued(t)' \/ Written(t)'
      PROVE  Kept'
  BY Zenon, <1>1, <1>3 DEF Kept
<1>4. ASSUME out' = out PROVE \A t : Written(t) => Written(t)' BY Zenon, <1>4 DEF Written
<1>5. ASSUME NEW x \in Thread, Log(x) PROVE Kept'
  <2>1. CASE RingPush(x)
    <3>1. \A t : Written(t) => Written(t)' BY Zenon, <1>4, <2>1 DEF RingPush, docVars
    <3> QED BY Zenon, <1>1, <2>1, <3>1, PushQueued DEF Kept
  <2>2. CASE ~RingPush(x)
    <3>1. \A t : Queued(t) => Queued(t)' BY Zenon, <1>2, <1>5, <2>2, LogQueues
    <3>2. accepted' = accepted
      BY Zenon, <1>5, <2>2 DEF Log, LogBegin, LogGate, SyncWrite, SyncMark, EnsureFlusher,
         FlusherCreate, FlusherStarted, RingGet, RegistryAdd, TssSet
    <3>3. CASE SyncWrite(x)
      <4>1. PICK e : e = Entry(Text(x)) BY Zenon
      <4>2. e \in Item BY Zenon, <1>1, <4>1, TextIs DEF Entry, Item, Types, FlagTypes
      <4>3. \A t : Written(t) => Written(t)'
        BY Zenon, <1>1, <3>3, <4>1, <4>2, WrittenAppend DEF SyncWrite
      <4> QED BY Zenon, <1>3, <3>1, <3>2, <4>3
    <3>4. CASE ~SyncWrite(x)
      <4>1. out' = out
        BY Zenon, <1>5, <2>2, <3>4 DEF Log, LogBegin, LogGate, SyncMark, EnsureFlusher,
           FlusherCreate, FlusherStarted, RingGet, RegistryAdd, TssSet, docVars
      <4> QED BY Zenon, <1>3, <1>4, <3>1, <3>2, <4>1
    <3> QED BY <3>3, <3>4
  <2> QED BY Zenon, <2>1, <2>2
<1>6. ASSUME \/ LoggerInit \/ BootEnd \/ Flusher \/ Deinit \/ Gone
             \/ \E x \in Thread : ThreadExit(x)
      PROVE  Kept'
  <2>1. accepted' = accepted
    BY Zenon, <1>6 DEF LoggerInit, BootEnd, Gone, ThreadExit, Deinit, DeinitDecline, DeinitStop,
       DeinitJoin, DeinitFree, DeinitClose, Flusher, FlusherCheck, FlusherBegin, FlusherWalk, FlusherEmit,
       FlusherMark, FlusherRelease, FlusherLeave, vars, threadVars
  <2>2. CASE FlusherEmit
    <3>1. PICK r \in Ring, text \in TextOf : Emits(r, text) BY Zenon, <2>2, EmitQueued
    <3> QED BY Zenon, <1>3, <2>1, <3>1 DEF Emits
  <2>3. CASE ~FlusherEmit
    <3>1. \A s \in Ring : ring'[s].queue = ring[s].queue BY Zenon, <1>6, <2>3, OtherQueues
    <3>2. \A t : Written(t) => Written(t)' BY Zenon, <1>6, <2>3, OtherWritten
    <3> QED BY Zenon, <1>2, <1>3, <2>1, <3>1, <3>2
  <2> QED BY Zenon, <2>2, <2>3
<1> QED BY Zenon, <1>5, <1>6 DEF Next

-----------------------------------------------------------------------------
(* The order of a thread's entries.                                        *)

(* A log call that returns leaves room for the numbers still to come.       *)
LEMMA ReturnLimit ==
    ASSUME Types, NEW x \in Thread, Return(x), logged' = logged,
           pc[x] \in {"get", "add", "settss", "push"}
    PROVE  /\ Limit(x) \in Int /\ Limit(x)' \in Int
           /\ Limit(x) < 3 * logged[x] - owed[x] /\ 3 * logged[x] - owed[x] <= Limit(x)'
<1>1. PICK l \in Nat : l = logged[x] /\ logged'[x] = l BY Zenon, TextIs
<1>2. PICK o \in {0, 1, 2} : o = owed[x] BY Zenon, TextIs
<1>3. Limit(x) = 3 * l - o - 1 BY Zenon, <1>1, <1>2 DEF Limit
<1>4. \/ o = 2 /\ owed'[x] = 1 /\ pc'[x] = "gate"
      \/ o \in {1, 2} /\ owed'[x] = 0 /\ pc'[x] = "get"
      \/ o = 0 /\ owed'[x] = 0 /\ pc'[x] = "idle"
  BY Zenon, <1>2, ReturnIs
<1>5. \/ o = 2 /\ Limit(x)' = 3 * l - 1 - 1
      \/ o \in {1, 2} /\ Limit(x)' = 3 * l - 0 - 1
      \/ o = 0 /\ Limit(x)' = 3 * l
  BY <1>1, <1>4 DEF Limit
<1> QED BY <1>1, <1>2, <1>3, <1>5

(* A log call's numbers only grow, and an entry it writes or pushes takes a *)
(* number above those before it.                                            *)
LEMMA LimitGrows ==
    ASSUME IInv, NEW x \in Thread, Log(x)
    PROVE  /\ Limit(x) \in Int /\ Limit(x)' \in Int /\ Limit(x) <= Limit(x)'
           /\ SyncWrite(x) \/ RingPush(x) => Limit(x) < 3 * logged[x] - owed[x]
                                              /\ 3 * logged[x] - owed[x] <= Limit(x)'
<1>1. Types /\ Control /\ pc \in [Thread -> Label] /\ logged \in [Thread -> Nat]
  BY Zenon DEF IInv, Types, StoreTypes
<1>2. PICK l \in Nat : l = logged[x] BY Zenon, <1>1
<1>3. PICK o \in {0, 1, 2} : o = owed[x] BY Zenon, <1>1, TextIs
<1>4. CASE LogBegin(x)
  <2>1. /\ pc[x] = "idle" /\ logged'[x] = l + 1 /\ owed' = owed
        /\ pc'[x] \in {"gate", "idle"} /\ ~SyncWrite(x) /\ ~RingPush(x)
    BY Zenon, <1>1, <1>2, <1>4 DEF LogBegin, MayLog, Goto, SyncWrite, RingPush
  <2>2. o = 0 BY Zenon, <1>1, <1>3, <2>1 DEF Control
  <2>3. Limit(x) = 3 * l /\ (Limit(x)' = 3 * (l + 1) \/ Limit(x)' = 3 * (l + 1) - 3)
    BY Zenon, <1>2, <1>3, <2>1, <2>2 DEF Limit
  <2> QED BY <2>1, <2>3
<1>5. CASE LogGate(x)
  <2>1. /\ pc[x] = "gate" /\ pc'[x] \in {"ensure", "sync"} /\ owed' = owed /\ logged' = logged
        /\ ~SyncWrite(x) /\ ~RingPush(x)
    BY Zenon, <1>1, <1>5 DEF LogGate, Goto, SyncWrite, RingPush
  <2>2. Limit(x)' = Limit(x) /\ Limit(x) = IF o = 0 THEN 3 * l - 3 ELSE 3 * l - o - 1
    BY Zenon, <1>2, <1>3, <2>1 DEF Limit
  <2> QED BY <1>3, <2>1, <2>2
<1>6. CASE SyncWrite(x)
  <2>1. pc[x] = "sync" /\ pc'[x] = "mark" /\ owed' = owed /\ logged' = logged
    BY Zenon, <1>1, <1>6 DEF SyncWrite, Goto
  <2>2. Limit(x)' = 3 * l /\ Limit(x) = IF o = 0 THEN 3 * l - 3 ELSE 3 * l - o - 1
    BY Zenon, <1>2, <1>3, <2>1 DEF Limit
  <2> QED BY <1>2, <1>3, <2>2
<1>7. CASE SyncMark(x)
  <2>1. pc[x] = "mark" /\ Return(x) /\ logged' = logged /\ ~SyncWrite(x) /\ ~RingPush(x)
    BY Zenon, <1>7 DEF SyncMark, SyncWrite, RingPush
  <2>2. owed[x] = 0 BY Zenon, <1>1, <2>1 DEF Control
  <2>3. pc'[x] = "idle" BY <1>1, <2>1, <2>2, ReturnIs
  <2>4. Limit(x)' = 3 * l /\ Limit(x) = 3 * l BY Zenon, <1>2, <2>1, <2>3 DEF Limit
  <2> QED BY <2>1, <2>4
<1>8. CASE EnsureFlusher(x)
  <2>1. /\ pc[x] = "ensure" /\ pc'[x] \in {"get", "create"} /\ owed' = owed /\ logged' = logged
        /\ ~SyncWrite(x) /\ ~RingPush(x)
    BY Zenon, <1>1, <1>8 DEF EnsureFlusher, Goto, SyncWrite, RingPush
  <2>2. /\ Limit(x) = IF o = 0 THEN 3 * l - 3 ELSE 3 * l - o - 1
        /\ Limit(x)' = Limit(x) \/ Limit(x)' = 3 * l - o - 1
    BY Zenon, <1>2, <1>3, <2>1 DEF Limit
  <2> QED BY <1>3, <2>1, <2>2
<1>9. CASE FlusherCreate(x)
  <2>1. /\ pc[x] = "create" /\ logged' = logged /\ ~SyncWrite(x) /\ ~RingPush(x)
        /\ \/ pc'[x] = "started" /\ owed' = owed
           \/ pc'[x] \in {"gate", "get"} /\ \E reports \in {0, 2} :
                /\ owed' = [owed EXCEPT ![x] = IF active THEN reports ELSE 0]
                /\ pc'[x] = IF reports = 2 /\ active THEN "gate" ELSE "get"
    BY Zenon, <1>1, <1>9 DEF FlusherCreate, Goto, SyncWrite, RingPush
  <2>2. o = 0 BY Zenon, <1>1, <1>3, <2>1 DEF Control
  <2>3. active BY Zenon, <1>1, <2>1 DEF Control
  <2>4. owed \in [Thread -> {0, 1, 2}] BY Zenon, <1>1 DEF Types, StoreTypes
  <2>5. \/ pc'[x] = "started" /\ owed'[x] = 0
        \/ pc'[x] = "gate" /\ owed'[x] = 2
        \/ pc'[x] = "get" /\ owed'[x] = 0
    BY Zenon, <1>3, <2>1, <2>2, <2>3, <2>4
  <2>6. Limit(x) = 3 * l - 3 BY Zenon, <1>2, <1>3, <2>1, <2>2 DEF Limit
  <2>7. Limit(x)' = 3 * l - 0 - 1 \/ Limit(x)' = 3 * l - 2 - 1
    BY <1>2, <2>1, <2>5 DEF Limit
  <2> QED BY <2>1, <2>6, <2>7
<1>10. CASE FlusherStarted(x)
  <2>1. /\ pc[x] = "started" /\ pc'[x] = "get" /\ owed' = owed /\ logged' = logged
        /\ ~SyncWrite(x) /\ ~RingPush(x)
    BY Zenon, <1>1, <1>10 DEF FlusherStarted, Goto, SyncWrite, RingPush
  <2>2. Limit(x) = 3 * l - o - 1 /\ Limit(x)' = 3 * l - o - 1
    BY Zenon, <1>2, <1>3, <2>1 DEF Limit
  <2> QED BY <1>3, <2>1, <2>2
<1>11. CASE RingGet(x) \/ RegistryAdd(x) \/ TssSet(x) \/ RingPush(x)
  <2>1. /\ pc[x] \in {"get", "add", "settss", "push"} /\ logged' = logged
        /\ \/ Return(x)
           \/ owed' = owed /\ pc'[x] \in {"add", "settss", "push"} /\ ~RingPush(x)
    BY Zenon, <1>1, <1>11 DEF RingGet, RegistryAdd, TssSet, RingPush, Goto
  <2>2. ~SyncWrite(x) BY Zenon, <2>1 DEF SyncWrite
  <2>3. CASE Return(x)
    <3>1. /\ Limit(x) \in Int /\ Limit(x)' \in Int /\ Limit(x) < 3 * l - o
          /\ 3 * l - o <= Limit(x)' /\ 3 * l - o \in Int
      BY <1>1, <1>2, <1>3, <2>1, <2>3, ReturnLimit
    <3> QED BY <1>2, <1>3, <3>1
  <2>4. CASE owed' = owed /\ pc'[x] \in {"add", "settss", "push"} /\ ~RingPush(x)
    <3>1. Limit(x) = 3 * l - o - 1 /\ Limit(x)' = 3 * l - o - 1
      BY Zenon, <1>2, <1>3, <2>1, <2>4 DEF Limit
    <3> QED BY <1>3, <2>2, <2>4, <3>1
  <2> QED BY Zenon, <2>1, <2>3, <2>4
<1> QED BY Zenon, <1>4, <1>5, <1>6, <1>7, <1>8, <1>9, <1>10, <1>11 DEF Log

(* A step of one thread's log call leaves the others where they are.        *)
LEMMA OthersStill ==
    ASSUME IInv, NEW x \in Thread, Log(x), NEW y \in Thread, y # x
    PROVE  /\ pc'[y] = pc[y] /\ logged'[y] = logged[y] /\ owed'[y] = owed[y]
           /\ Limit(y) \in Int /\ Limit(y)' = Limit(y)
<1>1. Types /\ pc \in [Thread -> Label] /\ logged \in [Thread -> Nat]
      /\ owed \in [Thread -> {0, 1, 2}]
  BY Zenon DEF IInv, Types, StoreTypes
<1>2. logged'[y] = logged[y]
  BY Zenon, <1>1 DEF Log, LogBegin, LogGate, SyncWrite, SyncMark, EnsureFlusher, FlusherCreate,
     FlusherStarted, RingGet, RegistryAdd, TssSet, RingPush
<1>3. pc'[y] = pc[y] /\ owed'[y] = owed[y]
  <2>1. \E l : pc' = [pc EXCEPT ![x] = l]
    BY Zenon DEF Log, LogBegin, LogGate, SyncWrite, SyncMark, EnsureFlusher, FlusherCreate,
       FlusherStarted, RingGet, RegistryAdd, TssSet, RingPush, Return, Goto
  <2>2. owed' = owed \/ \E o : owed' = [owed EXCEPT ![x] = o]
    BY Zenon DEF Log, LogBegin, LogGate, SyncWrite, SyncMark, EnsureFlusher, FlusherCreate,
       FlusherStarted, RingGet, RegistryAdd, TssSet, RingPush, Return
  <2> QED BY Zenon, <1>1, <2>1, <2>2
<1>4. Limit(y) \in Int BY <1>1 DEF Limit
<1> QED BY Zenon, <1>2, <1>3, <1>4 DEF Limit

(* An entry numbered above its thread's others keeps the document in order. *)
LEMMA OrderAppend ==
    ASSUME IInv, NEW e \in Item, out' = Append(out, e),
           e.kind = "entry" =>
              e.text \in TextOf /\ \A m \in Int : Written(<<e.text[1], m>>) => m < e.text[2]
    PROVE  PerThreadOrder'
<1>1. out \in Seq(Item) /\ PerThreadOrder BY Zenon DEF IInv, InOrder, Types, StoreTypes
<1>2. \A i \in 1 .. Len(out) : out[i].kind = "entry" => out[i].text \in TextOf
  BY Zenon DEF IInv, Document, Shape
<1>3. /\ Len(out) \in Nat /\ Len(out') = Len(out) + 1 /\ out'[Len(out) + 1] = e
      /\ \A i \in 1 .. Len(out) : out'[i] = out[i]
  BY <1>1
<1>4. SUFFICES ASSUME NEW i \in 2 .. Len(out'), NEW j \in 2 .. Len(out'), i < j,
                      out'[i].kind = "entry", out'[j].kind = "entry",
                      out'[i].text[1] = out'[j].text[1]
               PROVE  out'[i].text[2] < out'[j].text[2]
  BY Zenon DEF PerThreadOrder
<1>5. i \in 1 .. Len(out) /\ i \in 2 .. Len(out) /\ out'[i] = out[i] BY <1>3, <1>4
<1>6. CASE j \in 2 .. Len(out)
  <2>1. out'[j] = out[j] BY <1>3, <1>6
  <2> QED BY Zenon, <1>1, <1>4, <1>5, <1>6, <2>1 DEF PerThreadOrder
<1>7. CASE j = Len(out) + 1
  <2>1. out'[j] = e /\ out[i].text \in TextOf BY Zenon, <1>2, <1>3, <1>4, <1>5, <1>7
  <2>2. PICK y \in Thread, m \in Int : out[i].text = <<y, m>> BY Zenon, <2>1, TextPair
  <2>3. Written(<<y, m>>) BY Zenon, <1>4, <1>5, <2>2 DEF Written
  <2>4. y = e.text[1] /\ e.kind = "entry" BY <1>4, <1>5, <2>1, <2>2
  <2>5. m < e.text[2] BY Zenon, <2>3, <2>4
  <2> QED BY <1>5, <2>1, <2>2, <2>5
<1>8. j \in 2 .. Len(out) \/ j = Len(out) + 1 BY <1>3
<1> QED BY Zenon, <1>6, <1>7, <1>8

(* A step that neither writes nor queues an entry keeps the order.          *)
LEMMA OrderFrame ==
    ASSUME IInv, PerThreadOrder',
           \A s \in Ring : ring'[s].queue = ring[s].queue,
           \A t : Written(t)' <=> Written(t),
           \A y \in Thread : Limit(y) \in Int /\ Limit(y)' \in Int /\ Limit(y) <= Limit(y)',
           \A y \in Thread : /\ y \in exited => y \in exited'
                             /\ tss[y] # NoRing => tss'[y] = tss[y] \/ y \in exited'
    PROVE  InOrder'
<1>1. InOrder /\ Types BY Zenon DEF IInv
<1>2. \A t : Queued(t)' <=> Queued(t) BY Zenon DEF Queued
<1>3. \A r \in Ring : \A i, j \in 1 .. Len(ring'[r].queue) :
          i < j /\ ring'[r].queue[i][1] = ring'[r].queue[j][1] =>
             ring'[r].queue[i][2] < ring'[r].queue[j][2]
  BY Zenon, <1>1 DEF InOrder
<1>4. \A x \in Thread, m, n \in Int : Written(<<x, m>>)' /\ Queued(<<x, n>>)' => m < n
  BY Zenon, <1>1, <1>2 DEF InOrder
<1>5. ASSUME NEW r \in Ring, NEW i \in 1 .. Len(ring'[r].queue)
      PROVE  ring'[r].queue[i][1] \in exited' \/ tss'[ring'[r].queue[i][1]] = r
  <2>1. i \in 1 .. Len(ring[r].queue) /\ ring'[r].queue = ring[r].queue BY Zenon
  <2>2. ring[r].queue \in Seq(TextOf) BY Zenon, <1>1, RingFields
  <2>3. ring[r].queue[i] \in TextOf BY <2>1, <2>2
  <2>4. PICK y \in Thread : ring[r].queue[i][1] = y BY Zenon, <2>3 DEF TextOf
  <2>5. y \in exited \/ tss[y] = r BY Zenon, <1>1, <2>1, <2>4 DEF InOrder
  <2>6. r # NoRing BY DEF Ring, NoRing
  <2> QED BY Zenon, <2>1, <2>4, <2>5, <2>6
<1>6. ASSUME NEW r \in Ring, NEW s \in Ring,
             NEW i \in 1 .. Len(ring'[r].queue), NEW j \in 1 .. Len(ring'[s].queue),
             ring'[r].queue[i][1] = ring'[s].queue[j][1]
      PROVE  r = s
  <2>1. ring'[r].queue = ring[r].queue /\ ring'[s].queue = ring[s].queue BY Zenon
  <2> QED BY <1>1, <1>6, <2>1 DEF InOrder
<1>7. \A x \in Thread, n \in Int : Written(<<x, n>>)' \/ Queued(<<x, n>>)' => n <= Limit(x)'
  BY <1>1, <1>2 DEF InOrder
<1> QED BY Zenon, <1>3, <1>4, <1>5, <1>6, <1>7 DEF InOrder

(* The steps of a log call other than a write and a push keep the order.    *)
LEMMA LogOrder ==
    ASSUME IInv, NEW x \in Thread, Log(x), ~SyncWrite(x), ~RingPush(x)
    PROVE  InOrder'
<1>1. out' = out /\ exited' = exited
  BY Zenon DEF Log, LogBegin, LogGate, SyncMark, EnsureFlusher, FlusherCreate,
     FlusherStarted, RingGet, RegistryAdd, TssSet, docVars
<1>2. PerThreadOrder'
  <2>1. PerThreadOrder BY Zenon DEF IInv, InOrder
  <2> QED BY Zenon, <1>1, <2>1 DEF PerThreadOrder
<1>3. \A t : Written(t)' <=> Written(t) BY Zenon, <1>1 DEF Written
<1>4. \A s \in Ring : ring'[s].queue = ring[s].queue BY Zenon, LogQueues
<1>5. \A y \in Thread : tss[y] # NoRing => tss'[y] = tss[y]
  <2>1. tss' = tss \/ TssSet(x)
    BY Zenon DEF Log, LogBegin, LogGate, SyncMark, EnsureFlusher, FlusherCreate,
       FlusherStarted, RingGet, RegistryAdd
  <2>2. TssSet(x) => tss[x] = NoRing /\ (tss' = tss \/ tss' = [tss EXCEPT ![x] = cur[x]])
    BY Zenon DEF TssSet, IInv, RingsHeld
  <2>3. tss \in [Thread -> Ring \cup {NoRing}] BY Zenon DEF IInv, Types, StoreTypes
  <2> QED BY Zenon, <2>1, <2>2, <2>3
<1>6. \A y \in Thread : Limit(y) \in Int /\ Limit(y)' \in Int /\ Limit(y) <= Limit(y)'
  <2>1. \A y \in Thread : y # x => Limit(y) \in Int /\ Limit(y)' = Limit(y) BY Zenon, OthersStill
  <2> QED BY <2>1, LimitGrows
<1> QED BY Zenon, <1>1, <1>2, <1>3, <1>4, <1>5, <1>6, OrderFrame

(* An entry written by its own thread comes when none of its is queued.     *)
LEMMA SyncOrder ==
    ASSUME IInv, NEW x \in Thread, SyncWrite(x)
    PROVE  InOrder'
<1>1. Types /\ Control /\ RingsHeld /\ InOrder BY Zenon DEF IInv
<1>2. Log(x) /\ ~RingPush(x) BY Zenon DEF Log, SyncWrite, RingPush
<1>3. PICK n \in Int : Text(x) = <<x, n>> /\ n = 3 * logged[x] - owed[x] BY <1>1, TextIs
<1>4. PICK e : e = Entry(Text(x)) BY Zenon
<1>5. e \in Item /\ e.kind = "entry" /\ e.text = <<x, n>> /\ e.text \in TextOf
  BY Zenon, <1>1, <1>3, <1>4, TextIs DEF Entry, Item, Types, FlagTypes
<1>6. out' = Append(out, e) /\ UNCHANGED <<exited, tss>> BY Zenon, <1>4 DEF SyncWrite
<1>7. \A s \in Ring : ring'[s].queue = ring[s].queue /\ ring[s].queue = <<>>
  <2>1. phase = "booting" \/ (~ringReady /\ dpc = "none")
    BY Zenon, <1>1 DEF SyncWrite, Control
  <2> QED BY Zenon, <1>1, <1>2, <2>1, LogQueues DEF RingsHeld
<1>8. \A s \in Ring : Len(ring'[s].queue) = 0 BY <1>7
<1>9. \A t : ~Queued(t)' BY <1>8 DEF Queued
<1>10. \A t : Written(t)' <=> Written(t) \/ t = <<x, n>> BY Zenon, <1>1, <1>5, <1>6, WrittenAppend
<1>11. /\ Limit(x) \in Int /\ Limit(x)' \in Int /\ Limit(x) < n /\ n <= Limit(x)'
  BY Zenon, <1>2, <1>3, LimitGrows
<1>12. \A m \in Int : Written(<<x, m>>) => m < n BY <1>1, <1>11 DEF InOrder
<1>13. PerThreadOrder' BY <1>5, <1>6, <1>12, OrderAppend
<1>14. ASSUME NEW y \in Thread, NEW m \in Int, Written(<<y, m>>)' PROVE m <= Limit(y)'
  <2>1. CASE y = x
    <3>1. m < n \/ m = n BY Zenon, <1>10, <1>12, <1>14, <2>1
    <3> QED BY <1>11, <2>1, <3>1
  <2>2. CASE y # x
    <3>1. Written(<<y, m>>) BY Zenon, <1>10, <1>14, <2>2
    <3> QED BY <1>1, <1>2, <2>2, <3>1, OthersStill DEF InOrder
  <2> QED BY Zenon, <2>1, <2>2
<1> QED BY <1>8, <1>9, <1>13, <1>14 DEF InOrder

(* A pushed entry goes behind the thread's other entries, in its one ring.  *)
LEMMA PushOrder ==
    ASSUME IInv, NEW x \in Thread, RingPush(x)
    PROVE  InOrder'
<1>1. Types /\ InOrder BY Zenon DEF IInv
<1>2. Log(x) /\ ~SyncWrite(x) /\ out' = out /\ UNCHANGED <<exited, tss>>
  BY Zenon DEF Log, SyncWrite, RingPush, docVars
<1>3. PICK n \in Int : Text(x) = <<x, n>> /\ n = 3 * logged[x] - owed[x] BY <1>1, TextIs
<1>4. PICK r \in Ring : r = cur[x] BY Zenon, PushQueue
<1>5. PICK q \in Seq(TextOf) : q = ring[r].queue BY Zenon, <1>4, PushQueue
<1>6. /\ tss[x] = r /\ x \notin exited /\ \A s \in Ring : s # r => ring'[s].queue = ring[s].queue
      /\ ring'[r].queue = Append(q, <<x, n>>) \/ ring'[r].queue = q
  BY Zenon, <1>3, <1>4, <1>5, PushQueue
<1>7. /\ Limit(x) \in Int /\ Limit(x)' \in Int /\ Limit(x) < n /\ n <= Limit(x)'
  BY Zenon, <1>2, <1>3, LimitGrows
<1>8. \A y \in Thread : y # x => Limit(y) \in Int /\ Limit(y)' = Limit(y) BY Zenon, <1>2, OthersStill
<1>9. \A t : Written(t)' <=> Written(t) BY Zenon, <1>2 DEF Written
<1>10. PerThreadOrder' BY Zenon, <1>1, <1>2 DEF InOrder, PerThreadOrder
<1>11. CASE ring'[r].queue = q
  <2>1. \A s \in Ring : ring'[s].queue = ring[s].queue BY Zenon, <1>5, <1>6, <1>11
  <2>2. \A y \in Thread : Limit(y) \in Int /\ Limit(y)' \in Int /\ Limit(y) <= Limit(y)'
    BY <1>7, <1>8
  <2> QED BY Zenon, <1>2, <1>9, <1>10, <2>1, <2>2, OrderFrame
<1>12. CASE ring'[r].queue = Append(q, <<x, n>>)
  <2>1. <<x, n>> \in TextOf BY Zenon DEF TextOf
  <2>2a. Append(q, <<x, n>>) \in Seq(TextOf) BY <2>1
  <2>2. PICK q2 \in Seq(TextOf) : q2 = ring'[r].queue BY Zenon, <1>12, <2>2a
  <2>3. /\ Len(q) \in Nat /\ Len(q2) = Len(q) + 1 /\ q2[Len(q) + 1] = <<x, n>>
        /\ \A i \in 1 .. Len(q) : q2[i] = q[i] /\ q[i] \in TextOf
    BY <1>12, <2>1, <2>2
  <2>4. ASSUME NEW i \in 1 .. Len(q), q[i][1] = x PROVE q[i][2] < n
    <3>0. q[i] \in TextOf BY Zenon, <2>3
    <3>1. PICK y \in Thread, m \in Int : q[i] = <<y, m>> BY Zenon, <3>0, TextPair
    <3>2. Queued(<<x, m>>) BY <1>5, <2>4, <3>1 DEF Queued
    <3>3. m <= Limit(x) BY Zenon, <1>1, <3>2 DEF InOrder
    <3> QED BY <1>7, <3>1, <3>3
  <2>5. \A i \in 1 .. Len(q2) : i \in 1 .. Len(q) \/ i = Len(q) + 1 BY <2>3
  <2>6. \A t : Queued(t)' <=> Queued(t) \/ t = <<x, n>>
    <3>1. ASSUME NEW t, Queued(t)' PROVE Queued(t) \/ t = <<x, n>>
      <4>1. PICK s \in Ring : \E i \in 1 .. Len(ring'[s].queue) : ring'[s].queue[i] = t
        BY Zenon, <3>1 DEF Queued
      <4>2. CASE s # r BY Zenon, <1>6, <4>1, <4>2 DEF Queued
      <4>3. CASE s = r
        <5>1. PICK i \in 1 .. Len(q2) : q2[i] = t BY Zenon, <2>2, <4>1, <4>3
        <5>2. CASE i = Len(q) + 1 BY Zenon, <2>3, <5>1, <5>2
        <5>3. CASE i \in 1 .. Len(q) BY Zenon, <1>5, <2>3, <5>1, <5>3 DEF Queued
        <5> QED BY Zenon, <2>5, <5>2, <5>3
      <4> QED BY Zenon, <4>2, <4>3
    <3>2. Queued(<<x, n>>)'
      <4>1. Len(q) + 1 \in 1 .. Len(q2) BY <2>3
      <4>2. \E i \in 1 .. Len(ring'[r].queue) : ring'[r].queue[i] = <<x, n>>
        BY Zenon, <2>2, <2>3, <4>1
      <4> QED BY Zenon, <4>2 DEF Queued
    <3> QED BY Zenon, <3>1, <3>2, PushQueued
  <2>7. ASSUME NEW s \in Ring, NEW i \in 1 .. Len(ring'[s].queue),
               NEW j \in 1 .. Len(ring'[s].queue), i < j,
               ring'[s].queue[i][1] = ring'[s].queue[j][1]
        PROVE  ring'[s].queue[i][2] < ring'[s].queue[j][2]
    <3>1. CASE s # r BY Zenon, <1>1, <1>6, <2>7, <3>1 DEF InOrder
    <3>2. CASE s = r
      <4>1. i \in 1 .. Len(q2) /\ j \in 1 .. Len(q2) /\ q2[i][1] = q2[j][1]
        BY Zenon, <2>2, <2>7, <3>2
      <4>2. i \in 1 .. Len(q) /\ (j \in 1 .. Len(q) \/ j = Len(q) + 1) BY <2>3, <2>7, <4>1
      <4>3. CASE j = Len(q) + 1
        <5>1. q2[i] = q[i] /\ q2[j] = <<x, n>> BY Zenon, <2>3, <4>2, <4>3
        <5>2. q[i][1] = x BY <4>1, <5>1
        <5>3. q[i][2] < n BY Zenon, <2>4, <4>2, <5>2
        <5> QED BY <2>2, <3>2, <5>1, <5>3
      <4>4. CASE j \in 1 .. Len(q)
        <5>1. q2[i] = q[i] /\ q2[j] = q[j] BY Zenon, <2>3, <4>2, <4>4
        <5>2. q[i][2] < q[j][2] BY Zenon, <1>1, <1>5, <2>7, <4>1, <4>2, <4>4, <5>1 DEF InOrder
        <5> QED BY Zenon, <2>2, <3>2, <5>1, <5>2
      <4> QED BY Zenon, <4>2, <4>3, <4>4
    <3> QED BY Zenon, <3>1, <3>2
  <2>8. ASSUME NEW y \in Thread, NEW m \in Int, NEW k \in Int,
               Written(<<y, m>>)', Queued(<<y, k>>)'
        PROVE  m < k
    <3>1. Written(<<y, m>>) BY Zenon, <1>9, <2>8
    <3>2. CASE Queued(<<y, k>>) BY Zenon, <1>1, <3>1, <3>2 DEF InOrder
    <3>3. CASE y = x /\ k = n
      <4>1. m <= Limit(x) BY Zenon, <1>1, <3>1, <3>3 DEF InOrder
      <4> QED BY <1>7, <3>3, <4>1
    <3> QED BY Zenon, <2>6, <2>8, <3>2, <3>3
  <2>9. ASSUME NEW s \in Ring, NEW i \in 1 .. Len(ring'[s].queue)
        PROVE  ring'[s].queue[i][1] \in exited \/ tss[ring'[s].queue[i][1]] = s
    <3>1. CASE s # r BY Zenon, <1>1, <1>6, <2>9, <3>1 DEF InOrder
    <3>2. CASE s = r
      <4>1. i \in 1 .. Len(q2) /\ ring'[s].queue[i] = q2[i] BY Zenon, <2>2, <3>2
      <4>2. CASE i = Len(q) + 1 BY <1>6, <2>3, <3>2, <4>1, <4>2
      <4>3. CASE i \in 1 .. Len(q)
        <5>1. q2[i] = q[i] BY Zenon, <2>3, <4>3
        <5> QED BY <1>1, <1>5, <3>2, <4>1, <4>3, <5>1 DEF InOrder
      <4> QED BY Zenon, <2>5, <4>1, <4>2, <4>3
    <3> QED BY Zenon, <3>1, <3>2
  <2>10. ASSUME NEW s \in Ring, NEW t \in Ring,
                NEW i \in 1 .. Len(ring'[s].queue), NEW j \in 1 .. Len(ring'[t].queue),
                ring'[s].queue[i][1] = ring'[t].queue[j][1]
         PROVE  s = t
    <3>1. ASSUME NEW u \in Ring, NEW k \in 1 .. Len(ring'[u].queue)
          PROVE  \/ ring'[u].queue[k][1] = x /\ u = r
                 \/ \E l \in 1 .. Len(ring[u].queue) : ring[u].queue[l] = ring'[u].queue[k]
      <4>1. CASE u # r BY Zenon, <1>6, <4>1
      <4>2. CASE u = r
        <5>1. k \in 1 .. Len(q2) /\ ring'[u].queue[k] = q2[k] BY Zenon, <2>2, <4>2
        <5>2. CASE k = Len(q) + 1 BY <2>3, <4>2, <5>1, <5>2
        <5>3. CASE k \in 1 .. Len(q)
          <6>1. q2[k] = q[k] BY Zenon, <2>3, <5>3
          <6> QED BY Zenon, <1>5, <4>2, <5>1, <5>3, <6>1
        <5> QED BY Zenon, <2>5, <5>1, <5>2, <5>3
      <4> QED BY Zenon, <4>1, <4>2
    <3>2. ASSUME NEW u \in Ring, NEW k \in 1 .. Len(ring'[u].queue), ring'[u].queue[k][1] = x
          PROVE  u = r
      BY Zenon, <1>6, <2>9, <3>2
    <3>3. CASE ring'[s].queue[i][1] = x BY Zenon, <2>10, <3>2, <3>3
    <3>4. CASE ring'[s].queue[i][1] # x
      <4>1. PICK k \in 1 .. Len(ring[s].queue) : ring[s].queue[k] = ring'[s].queue[i]
        BY Zenon, <3>1, <3>4
      <4>2. PICK l \in 1 .. Len(ring[t].queue) : ring[t].queue[l] = ring'[t].queue[j]
        BY Zenon, <2>10, <3>1, <3>4
      <4>3. ring[s].queue[k][1] = ring[t].queue[l][1] BY Zenon, <2>10, <4>1, <4>2
      <4> QED BY Zenon, <1>1, <4>3 DEF InOrder
    <3> QED BY Zenon, <3>3, <3>4
  <2>11. ASSUME NEW y \in Thread, NEW m \in Int, Written(<<y, m>>)' \/ Queued(<<y, m>>)'
         PROVE  m <= Limit(y)'
    <3>1. CASE y = x /\ m = n BY Zenon, <1>7, <3>1
    <3>2. CASE Written(<<y, m>>) \/ Queued(<<y, m>>)
      <4>1. m <= Limit(y) BY Zenon, <1>1, <3>2 DEF InOrder
      <4>2. Limit(y) \in Int /\ Limit(y)' \in Int /\ Limit(y) <= Limit(y)' BY <1>7, <1>8
      <4> QED BY <4>1, <4>2
    <3> QED BY Zenon, <1>9, <2>6, <2>11, <3>1, <3>2
  <2> QED BY Zenon, <1>2, <1>10, <2>7, <2>8, <2>9, <2>10, <2>11 DEF InOrder
<1> QED BY Zenon, <1>6, <1>11, <1>12

(* An emitted entry is the first of its thread's that is queued.            *)
LEMMA EmitOrder ==
    ASSUME IInv, FlusherEmit
    PROVE  InOrder'
<1>1. Types /\ InOrder BY Zenon DEF IInv
<1>2. PICK r \in Ring, text \in TextOf : Emits(r, text) BY Zenon, EmitQueued
<1>3. PICK x \in Thread, n \in Int : text = <<x, n>> BY Zenon, TextPair
<1>4. \A s \in Ring : s # r => ring'[s].queue = ring[s].queue BY Zenon, <1>2 DEF Emits
<1>5. \A t : Written(t)' <=> Written(t) \/ t = <<x, n>> BY Zenon, <1>2, <1>3 DEF Emits
<1>6. (\A t : Queued(t)' => Queued(t)) /\ Queued(<<x, n>>) BY Zenon, <1>2, <1>3 DEF Emits
<1>7. PICK q \in Seq(TextOf) : q = ring[r].queue /\ q # <<>> BY Zenon, <1>2 DEF Emits
<1>8. Tail(q) \in Seq(TextOf) /\ ring'[r].queue = Tail(q) /\ Head(q) = <<x, n>>
  BY <1>2, <1>3, <1>7 DEF Emits
<1>9. PICK q2 \in Seq(TextOf) : q2 = ring'[r].queue BY Zenon, <1>8
<1>10. /\ Len(q) \in Nat /\ Len(q) # 0 /\ Len(q2) = Len(q) - 1 /\ q[1] = <<x, n>>
       /\ \A i \in 1 .. Len(q2) : q2[i] = q[i + 1]
  BY <1>7, <1>8, <1>9
<1>11. UNCHANGED <<pc, logged, owed, exited, tss>> BY Zenon DEF FlusherEmit, threadVars
<1>12. \A y \in Thread : Limit(y)' = Limit(y) BY Zenon, <1>11 DEF Limit
<1>13. \A m \in Int : Written(<<x, m>>) => m < n BY Zenon, <1>1, <1>6 DEF InOrder
<1>14. PerThreadOrder'
  <2>1. PICK e : e = Entry(text) BY Zenon
  <2>2. e \in Item /\ e.kind = "entry" /\ e.text = <<x, n>> /\ e.text \in TextOf
    BY Zenon, <1>1, <1>3, <2>1 DEF Entry, Item, Types, FlagTypes
  <2>3. out' = Append(out, e) BY Zenon, <1>2, <2>1 DEF Emits
  <2>4. e.text[1] = x /\ e.text[2] = n BY <2>2
  <2>5. \A m \in Int : Written(<<e.text[1], m>>) => m < e.text[2] BY Zenon, <1>13, <2>4
  <2> QED BY Zenon, <2>2, <2>3, <2>5, OrderAppend
<1>15. \A i \in 1 .. Len(q2) : i + 1 \in 1 .. Len(q) BY <1>10
<1>16. ASSUME NEW s \in Ring, NEW i \in 1 .. Len(ring'[s].queue)
       PROVE  \E k \in 1 .. Len(ring[s].queue) :
                 /\ ring[s].queue[k] = ring'[s].queue[i]
                 /\ k = i \/ k = i + 1
                 /\ s = r => k = i + 1
                 /\ s # r => k = i
  <2>1. CASE s # r BY Zenon, <1>4, <2>1
  <2>2. CASE s = r
    <3>1. i \in 1 .. Len(q2) /\ ring'[s].queue[i] = q2[i] BY Zenon, <1>9, <2>2
    <3>2. i + 1 \in 1 .. Len(q) /\ q2[i] = q[i + 1] BY Zenon, <1>10, <1>15, <3>1
    <3> QED BY Zenon, <1>7, <2>2, <3>1, <3>2
  <2> QED BY Zenon, <2>1, <2>2
<1>17. ASSUME NEW s \in Ring, NEW i \in 1 .. Len(ring'[s].queue),
              NEW j \in 1 .. Len(ring'[s].queue), i < j,
              ring'[s].queue[i][1] = ring'[s].queue[j][1]
       PROVE  ring'[s].queue[i][2] < ring'[s].queue[j][2]
  <2>1. PICK k \in 1 .. Len(ring[s].queue) :
          ring[s].queue[k] = ring'[s].queue[i] /\ (s = r => k = i + 1) /\ (s # r => k = i)
    BY Zenon, <1>16
  <2>2. PICK l \in 1 .. Len(ring[s].queue) :
          ring[s].queue[l] = ring'[s].queue[j] /\ (s = r => l = j + 1) /\ (s # r => l = j)
    BY Zenon, <1>16
  <2>3. k < l BY <1>17, <2>1, <2>2
  <2>4. ring[s].queue[k][1] = ring[s].queue[l][1] BY Zenon, <1>17, <2>1, <2>2
  <2>5. ring[s].queue[k][2] < ring[s].queue[l][2] BY Zenon, <1>1, <2>3, <2>4 DEF InOrder
  <2> QED BY Zenon, <2>1, <2>2, <2>5
<1>18. ASSUME NEW y \in Thread, NEW m \in Int, NEW k \in Int,
              Written(<<y, m>>)', Queued(<<y, k>>)'
       PROVE  m < k
  <2>1. Queued(<<y, k>>) BY Zenon, <1>6, <1>18
  <2>2. CASE Written(<<y, m>>) BY Zenon, <1>1, <2>1, <2>2 DEF InOrder
  <2>3. CASE y = x /\ m = n
    <3>1. PICK s \in Ring : \E i \in 1 .. Len(ring'[s].queue) : ring'[s].queue[i] = <<x, k>>
      BY Zenon, <1>18, <2>3 DEF Queued
    <3>2. PICK i \in 1 .. Len(ring'[s].queue) : ring'[s].queue[i] = <<x, k>> BY Zenon, <3>1
    <3>3. PICK l \in 1 .. Len(ring[s].queue) :
            ring[s].queue[l] = ring'[s].queue[i] /\ (s = r => l = i + 1)
      BY ZenonT(30), <1>16
    <3>4. 1 \in 1 .. Len(q) BY <1>10
    <3>5. ring[s].queue[l][1] = ring[r].queue[1][1] BY <1>7, <1>10, <3>2, <3>3
    <3>6. s = r BY Zenon, <1>1, <1>7, <3>4, <3>5 DEF InOrder
    <3>7. 1 < l BY <3>3, <3>6
    <3>8. ring[r].queue[1][2] < ring[r].queue[l][2]
      BY Zenon, <1>1, <1>7, <3>4, <3>5, <3>6, <3>7 DEF InOrder
    <3>9. ring[r].queue[l] = <<x, k>> BY Zenon, <3>2, <3>3, <3>6
    <3> QED BY <1>7, <1>10, <2>3, <3>8, <3>9
  <2> QED BY Zenon, <1>5, <1>18, <2>2, <2>3
<1>19. ASSUME NEW s \in Ring, NEW i \in 1 .. Len(ring'[s].queue)
       PROVE  ring'[s].queue[i][1] \in exited \/ tss[ring'[s].queue[i][1]] = s
  <2>1. PICK k \in 1 .. Len(ring[s].queue) : ring[s].queue[k] = ring'[s].queue[i] BY Zenon, <1>16
  <2>2. ring[s].queue[k][1] \in exited \/ tss[ring[s].queue[k][1]] = s BY Zenon, <1>1 DEF InOrder
  <2> QED BY Zenon, <2>1, <2>2
<1>20. ASSUME NEW s \in Ring, NEW t \in Ring,
              NEW i \in 1 .. Len(ring'[s].queue), NEW j \in 1 .. Len(ring'[t].queue),
              ring'[s].queue[i][1] = ring'[t].queue[j][1]
       PROVE  s = t
  <2>1. PICK k \in 1 .. Len(ring[s].queue) : ring[s].queue[k] = ring'[s].queue[i] BY Zenon, <1>16
  <2>2. PICK l \in 1 .. Len(ring[t].queue) : ring[t].queue[l] = ring'[t].queue[j] BY Zenon, <1>16
  <2>3. ring[s].queue[k][1] = ring[t].queue[l][1] BY Zenon, <1>20, <2>1, <2>2
  <2> QED BY Zenon, <1>1, <2>3 DEF InOrder
<1>21. ASSUME NEW y \in Thread, NEW m \in Int, Written(<<y, m>>)' \/ Queued(<<y, m>>)'
       PROVE  m <= Limit(y)'
  <2>1. Written(<<y, m>>) \/ Queued(<<y, m>>) BY Zenon, <1>5, <1>6, <1>21
  <2> QED BY <1>1, <1>12, <2>1 DEF InOrder
<1> QED BY Zenon, <1>11, <1>14, <1>17, <1>18, <1>19, <1>20, <1>21 DEF InOrder

(* The other steps write and queue no entry.                                *)
LEMMA OtherOrder ==
    ASSUME IInv,
           \/ LoggerInit \/ BootEnd \/ Flusher \/ Deinit \/ Gone
           \/ \E x \in Thread : ThreadExit(x)
    PROVE  InOrder'
<1>1. CASE FlusherEmit BY Zenon, <1>1, EmitOrder
<1>2. CASE ~FlusherEmit
  <2>1. \A s \in Ring : ring'[s].queue = ring[s].queue BY Zenon, <1>2, OtherQueues
  <2>2. \A t : Written(t)' <=> Written(t) BY Zenon, <1>2, OtherWritten
  <2>3. UNCHANGED <<pc, logged, owed>>
    BY Zenon DEF LoggerInit, BootEnd, Gone, ThreadExit, Deinit, DeinitDecline, DeinitStop,
       DeinitJoin, DeinitFree, DeinitClose, Flusher, FlusherCheck, FlusherBegin, FlusherWalk, FlusherEmit,
       FlusherMark, FlusherRelease, FlusherLeave, vars, threadVars
  <2>4. \A y \in Thread : logged[y] \in Nat /\ owed[y] \in {0, 1, 2} BY Zenon, TextIs DEF IInv
  <2>5. \A y \in Thread : Limit(y) \in Int BY <2>4 DEF Limit
  <2>6. \A y \in Thread : Limit(y)' = Limit(y) BY Zenon, <2>3 DEF Limit
  <2>7. \A y \in Thread : Limit(y) \in Int /\ Limit(y)' \in Int /\ Limit(y) <= Limit(y)'
    BY <2>5, <2>6
  <2>8. \A y \in Thread : /\ y \in exited => y \in exited'
                          /\ tss[y] # NoRing => tss'[y] = tss[y] \/ y \in exited'
    <3>1. CASE \E x \in Thread : ThreadExit(x)
      <4>1. PICK x \in Thread : exited' = exited \cup {x} /\ tss' = [tss EXCEPT ![x] = NoRing]
        BY Zenon, <3>1 DEF ThreadExit
      <4>2. tss \in [Thread -> Ring \cup {NoRing}] BY Zenon DEF IInv, Types, StoreTypes
      <4> QED BY Zenon, <4>1, <4>2
    <3>2. CASE LoggerInit \/ BootEnd \/ Flusher \/ Deinit \/ Gone
      BY Zenon, <3>2 DEF LoggerInit, BootEnd, Gone, Deinit, DeinitDecline, DeinitStop,
         DeinitJoin, DeinitFree, DeinitClose, Flusher, FlusherCheck, FlusherBegin, FlusherWalk, FlusherEmit,
         FlusherMark, FlusherRelease, FlusherLeave, vars, threadVars
    <3> QED BY Zenon, <3>1, <3>2
  <2>9. PerThreadOrder'
    <3>1. CASE out' = out
      <4>1. PerThreadOrder BY Zenon DEF IInv, InOrder
      <4> QED BY Zenon, <3>1, <4>1 DEF PerThreadOrder
    <3>2. CASE LoggerInit
      <4>1. Len(out') = 1 BY Zenon, <3>2 DEF LoggerInit
      <4> QED BY <4>1 DEF PerThreadOrder
    <3>3. CASE DeinitClose
      <4>1. PICK e : e = Bracket("close") BY Zenon
      <4>2. e \in Item /\ e.kind = "close" BY Zenon, <4>1 DEF Bracket, Item
      <4>3. out' = Append(out, e) BY Zenon, <3>3, <4>1 DEF DeinitClose
      <4>4. e \in Item /\ e.kind # "entry" BY Zenon, <4>2
      <4> QED BY Zenon, <4>3, <4>4, OrderAppend
    <3>4. CASE \/ BootEnd \/ Gone \/ DeinitDecline \/ DeinitStop \/ DeinitJoin \/ DeinitFree
               \/ FlusherCheck \/ FlusherBegin \/ FlusherWalk \/ FlusherMark \/ FlusherRelease \/ FlusherLeave
               \/ \E x \in Thread : ThreadExit(x)
      <4>1. out' = out
        BY Zenon, <3>4 DEF BootEnd, Gone, DeinitDecline, DeinitStop, DeinitJoin, DeinitFree,
           ThreadExit, FlusherCheck, FlusherBegin, FlusherWalk, FlusherMark, FlusherRelease, FlusherLeave,
           vars, docVars
      <4> QED BY Zenon, <3>1, <4>1
    <3> QED BY Zenon, <1>2, <3>2, <3>3, <3>4 DEF Deinit, Flusher
  <2> QED BY Zenon, <2>1, <2>2, <2>7, <2>8, <2>9, OrderFrame
<1> QED BY Zenon, <1>1, <1>2

-----------------------------------------------------------------------------
(* The document.                                                           *)

(* A step that writes nothing keeps the document as it is.                  *)
LEMMA DocumentFrame ==
    ASSUME Document, UNCHANGED <<out, first>>, phase' = "new" <=> phase = "new",
           dpc' = "done" <=> dpc = "done", fpc' = "mark" <=> fpc = "mark",
           \A y \in Thread : pc'[y] = "mark" <=> pc[y] = "mark"
    PROVE  Document'
<1>1. Marking' <=> Marking BY Zenon DEF Marking
<1>2. Shape' <=> Shape BY Zenon DEF Shape
<1>3. Commas' <=> Commas BY Zenon DEF Commas
<1> QED BY Zenon, <1>1, <1>2, <1>3 DEF Document

(* What one more item makes of the document.                                *)
LEMMA DocumentAppend ==
    ASSUME IInv, NEW e \in Item, out' = Append(out, e), phase # "new", dpc # "done",
           e.kind # "open", e.kind = "close" => dpc' = "done",
           e.kind = "entry" => e.text \in TextOf,
           Ringed /\ e.kind = "entry" => (e.comma <=> Len(out) > 1)
    PROVE  out' # <<>> /\ Len(out') > 1 /\ Shape' /\ (Ringed => Commas')
<1>1. out \in Seq(Item) /\ Document BY Zenon DEF IInv, Types, StoreTypes
<1>2. Shape /\ (Ringed => Commas) /\ out # <<>> BY Zenon, <1>1 DEF Document
<1>3. /\ Len(out) \in Nat /\ Len(out) # 0 /\ Len(out') = Len(out) + 1 /\ out'[Len(out) + 1] = e
      /\ \A i \in 1 .. Len(out) : out'[i] = out[i]
  BY <1>1, <1>2
<1>4. Len(out') > 1 BY <1>3
<1>5. out' # <<>> BY <1>3
<1>6. \A i \in 1 .. Len(out') : i \in 1 .. Len(out) \/ (i = Len(out) + 1 /\ i # 1) BY <1>3
<1>7. ASSUME NEW i \in 1 .. Len(out')
      PROVE  /\ out'[i].kind = "open" <=> i = 1
             /\ out'[i].kind = "close" => i = Len(out') /\ dpc' = "done"
             /\ out'[i].kind = "entry" => out'[i].text \in TextOf
  <2>1. CASE i \in 1 .. Len(out)
    <3>1. out'[i] = out[i] BY Zenon, <1>3, <2>1
    <3>2. out[i].kind # "close" BY Zenon, <1>2, <2>1 DEF Shape
    <3> QED BY Zenon, <1>2, <2>1, <3>1, <3>2 DEF Shape
  <2>2. CASE i = Len(out) + 1 /\ i # 1 BY Zenon, <1>3, <2>2
  <2> QED BY Zenon, <1>6, <2>1, <2>2
<1>8. ASSUME Ringed, NEW i \in 1 .. Len(out'), out'[i].kind = "entry"
      PROVE  out'[i].comma <=> i > 2
  <2>1. CASE i \in 1 .. Len(out)
    <3>1. out'[i] = out[i] BY <1>3, <2>1
    <3> QED BY Zenon, <1>2, <1>8, <2>1, <3>1 DEF Commas
  <2>2. CASE i = Len(out) + 1
    <3>1. out'[i] = e /\ (i > 2 <=> Len(out) > 1) BY <1>3, <2>2
    <3> QED BY Zenon, <1>8, <3>1
  <2> QED BY Zenon, <1>6, <2>1, <2>2
<1> QED BY Zenon, <1>4, <1>5, <1>7, <1>8 DEF Shape, Commas

(* When a thread or the flusher is about to write, g_first_json tells       *)
(* whether it writes the first entry: with the rings in use there is no     *)
(* other writer between its write and its mark.                             *)
LEMMA FirstKnown ==
    ASSUME IInv, Ringed, fpc # "mark", \A y \in Thread : pc[y] # "mark", dpc # "done"
    PROVE  first <=> Len(out) > 1
<1>1. ~Marking BY Zenon DEF Marking
<1> QED BY Zenon, <1>1 DEF IInv, Document

(* The steps of a log call keep the document.                               *)
LEMMA LogDocument ==
    ASSUME IInv, NEW x \in Thread, Log(x)
    PROVE  Document'
<1>1. Types /\ Control /\ OneFlusher /\ Document /\ pc \in [Thread -> Label]
  BY Zenon DEF IInv, Types, StoreTypes
<1>2. \A y \in Thread : y # x => pc'[y] = pc[y] BY Zenon, OthersStill
<1>3. UNCHANGED <<phase, dpc>> /\ (fpc' = "mark" <=> fpc = "mark")
  <2>1. CASE FlusherCreate(x)
    <3>1. pc[x] = "create" /\ UNCHANGED <<phase, dpc>> /\ fpc' \in {fpc, "check"}
      BY Zenon, <2>1 DEF FlusherCreate, flusherVars
    <3>2. fpc = "none" BY Zenon, <1>1, <3>1 DEF OneFlusher
    <3> QED BY Zenon, <3>1, <3>2
  <2>2. CASE ~FlusherCreate(x)
    <3>1. UNCHANGED <<phase, dpc, fpc>>
      BY Zenon, <2>2 DEF Log, LogBegin, LogGate, SyncWrite, SyncMark, EnsureFlusher, FlusherStarted,
         RingGet, RegistryAdd, TssSet, RingPush, flusherVars
    <3> QED BY Zenon, <3>1
  <2> QED BY Zenon, <2>1, <2>2
<1>4. CASE SyncWrite(x)
  <2>1. pc[x] = "sync" /\ pc'[x] = "mark" /\ first' = first /\ out' = Append(out, Entry(Text(x)))
    BY Zenon, <1>1, <1>4 DEF SyncWrite, Goto
  <2>2. phase # "new" /\ dpc = "none" BY Zenon, <1>1, <2>1 DEF Control
  <2>3. ASSUME Ringed PROVE first <=> Len(out) > 1
    <3>1. phase = "booting" BY Zenon, <1>1, <2>1, <2>2, <2>3 DEF Control
    <3>2. \A y \in Thread : pc[y] # "mark" BY Zenon, <1>1, <2>1, <3>1 DEF Control
    <3>3. fpc # "mark" BY Zenon, <1>1, <3>1 DEF OneFlusher
    <3> QED BY Zenon, <2>2, <2>3, <3>2, <3>3, FirstKnown
  <2>4. PICK e : e = Entry(Text(x)) BY Zenon
  <2>5. e \in Item /\ e.kind = "entry" /\ e.text \in TextOf /\ e.comma = first
    BY Zenon, <1>1, <2>4, TextIs DEF Entry, Item, Types, FlagTypes
  <2>6. out' # <<>> /\ Len(out') > 1 /\ Shape' /\ (Ringed => Commas')
    BY Zenon, <2>1, <2>2, <2>3, <2>4, <2>5, DocumentAppend
  <2>7. Marking' BY Zenon, <2>1 DEF Marking
  <2> QED BY Zenon, <1>3, <2>2, <2>6, <2>7 DEF Document
<1>5. CASE SyncMark(x)
  <2>1. pc[x] = "mark" /\ first' = TRUE /\ out' = out BY Zenon, <1>5 DEF SyncMark
  <2>2. Marking BY Zenon, <2>1 DEF Marking
  <2>3. Shape' <=> Shape BY Zenon, <1>3, <2>1 DEF Shape
  <2>4. Commas' <=> Commas BY Zenon, <2>1 DEF Commas
  <2> QED BY Zenon, <1>1, <1>3, <2>1, <2>2, <2>3, <2>4 DEF Document
<1>6. CASE ~SyncWrite(x) /\ ~SyncMark(x)
  <2>1. UNCHANGED <<out, first>>
    BY Zenon, <1>6 DEF Log, LogBegin, LogGate, EnsureFlusher, FlusherCreate, FlusherStarted, RingGet,
       RegistryAdd, TssSet, RingPush, docVars
  <2>2. pc[x] # "mark" /\ pc'[x] # "mark"
    <3>1. CASE LogBegin(x) \/ LogGate(x) \/ EnsureFlusher(x) \/ FlusherCreate(x)
               \/ FlusherStarted(x) \/ RegistryAdd(x)
      BY Zenon, <1>1, <3>1 DEF LogBegin, MayLog, LogGate, EnsureFlusher, FlusherCreate,
         FlusherStarted, RegistryAdd, Goto
    <3>2. CASE RingGet(x) \/ TssSet(x) \/ RingPush(x)
      <4>1. pc[x] # "mark" /\ (Return(x) \/ Goto(x, "push") \/ Goto(x, "add"))
        BY Zenon, <3>2 DEF RingGet, TssSet, RingPush
      <4> QED BY Zenon, <1>1, <4>1, ReturnIs DEF Goto
    <3> QED BY Zenon, <1>6, <3>1, <3>2 DEF Log
  <2> QED BY Zenon, <1>1, <1>2, <1>3, <2>1, <2>2, DocumentFrame
<1> QED BY Zenon, <1>4, <1>5, <1>6

(* The other steps open the document, write entries and close it once.      *)
LEMMA OtherDocument ==
    ASSUME IInv,
           \/ LoggerInit \/ BootEnd \/ Flusher \/ Deinit \/ Gone
           \/ \E x \in Thread : ThreadExit(x)
    PROVE  Document'
<1>1. Types /\ Control /\ OneFlusher /\ Document BY Zenon DEF IInv
<1>2. CASE LoggerInit
  <2>1. /\ phase = "new" /\ phase' = "booting" /\ out' = <<Bracket("open")>> /\ first' = first
        /\ UNCHANGED <<fpc, pc, dpc>>
    BY Zenon, <1>2 DEF LoggerInit, threadVars, flusherVars
  <2>2. Len(out) = 0 BY <1>1, <2>1 DEF Document
  <2>3. ~first /\ ~Marking BY <1>1, <2>2 DEF Document
  <2>4. ~Marking' BY Zenon, <2>1, <2>3 DEF Marking
  <2>5. Bracket("open").kind = "open" BY Zenon DEF Bracket
  <2>6. Len(out') = 1 /\ out'[1] = Bracket("open") BY Zenon, <2>1
  <2>7. Shape' /\ Commas' BY <2>5, <2>6 DEF Shape, Commas
  <2> QED BY <2>1, <2>3, <2>4, <2>6, <2>7 DEF Document
<1>3. CASE DeinitClose
  <2>1. /\ dpc = "close" /\ dpc' = "done" /\ out' = Append(out, Bracket("close"))
        /\ UNCHANGED <<phase, first, fpc, pc>>
    BY Zenon, <1>3 DEF DeinitClose, threadVars, flusherVars
  <2>2. phase # "new" BY Zenon, <1>1, <2>1 DEF Control
  <2>3. PICK e : e = Bracket("close") BY Zenon
  <2>4. e \in Item /\ e.kind = "close" BY <2>3 DEF Bracket, Item
  <2>5. out' # <<>> /\ Len(out') > 1 /\ Shape' /\ (Ringed => Commas')
    BY Zenon, <2>1, <2>2, <2>3, <2>4, DocumentAppend
  <2> QED BY Zenon, <2>1, <2>2, <2>5 DEF Document
<1>4. CASE FlusherEmit
  <2>1. /\ fpc = "drain" /\ fpc' = "mark" /\ UNCHANGED <<phase, first, dpc>>
    BY Zenon, <1>4 DEF FlusherEmit
  <2>2. phase = "run" /\ dpc \notin {"close", "done"} /\ (ringReady \/ dpc # "none")
    BY Zenon, <1>1, <2>1 DEF OneFlusher
  <2>3. \A y \in Thread : pc[y] # "mark" BY Zenon, <1>1, <2>2 DEF Control
  <2>4. Ringed => (first <=> Len(out) > 1) BY Zenon, <2>1, <2>2, <2>3, FirstKnown
  <2>5. PICK r \in Ring, text \in TextOf : Emits(r, text) BY Zenon, <1>4, EmitQueued
  <2>6. PICK e : e = Entry(text) BY Zenon
  <2>7. e \in Item /\ e.kind = "entry" /\ e.text = text /\ e.comma = first
    BY Zenon, <1>1, <2>6 DEF Entry, Item, Types, FlagTypes
  <2>8. out' = Append(out, e) BY Zenon, <2>5, <2>6 DEF Emits
  <2>9. out' # <<>> /\ Len(out') > 1 /\ Shape' /\ (Ringed => Commas')
    BY Zenon, <2>2, <2>4, <2>7, <2>8, DocumentAppend
  <2>10. Marking' BY Zenon, <2>1 DEF Marking
  <2> QED BY Zenon, <2>1, <2>2, <2>9, <2>10 DEF Document
<1>5. CASE FlusherMark
  <2>1. fpc = "mark" /\ first' = TRUE /\ UNCHANGED <<out, phase, dpc>> BY Zenon, <1>5 DEF FlusherMark
  <2>2. Marking BY Zenon, <2>1 DEF Marking
  <2>3. Shape' <=> Shape BY Zenon, <2>1 DEF Shape
  <2>4. Commas' <=> Commas BY Zenon, <2>1 DEF Commas
  <2> QED BY Zenon, <1>1, <2>1, <2>2, <2>3, <2>4 DEF Document
<1>6. CASE BootEnd \/ Gone \/ \E x \in Thread : ThreadExit(x)
  <2>1. UNCHANGED <<out, first, dpc, fpc, pc>> /\ (phase' = "new" <=> phase = "new")
    BY Zenon, <1>6 DEF BootEnd, Gone, ThreadExit, vars, docVars, threadVars, flusherVars
  <2> QED BY Zenon, <1>1, <2>1, DocumentFrame
<1>7. CASE FlusherCheck \/ FlusherBegin \/ FlusherWalk \/ FlusherRelease \/ FlusherLeave
  <2>1. UNCHANGED <<out, first, dpc, phase, pc>> /\ fpc # "mark" /\ fpc' # "mark"
    BY Zenon, <1>7 DEF FlusherCheck, FlusherBegin, FlusherWalk, FlusherRelease, FlusherLeave, docVars, threadVars
  <2> QED BY Zenon, <1>1, <2>1, DocumentFrame
<1>8. CASE DeinitDecline \/ DeinitStop \/ DeinitJoin \/ DeinitFree
  <2>1. UNCHANGED <<out, first, phase, fpc, pc>> /\ dpc # "done" /\ dpc' # "done"
    BY Zenon, <1>8 DEF DeinitDecline, DeinitStop, DeinitJoin, DeinitFree, docVars, threadVars,
       flusherVars
  <2> QED BY Zenon, <1>1, <2>1, DocumentFrame
<1> QED BY Zenon, <1>2, <1>3, <1>4, <1>5, <1>6, <1>7, <1>8 DEF Flusher, Deinit

-----------------------------------------------------------------------------
(* The inductive invariant.                                                *)

(* It holds before retrace_logger_init.                                     *)
LEMMA InitIInv == ASSUME Init PROVE IInv
<1>1. /\ out = <<>> /\ registry = <<>> /\ walk = <<>> /\ Len(out) = 0 /\ Len(registry) = 0
      /\ Len(walk) = 0 /\ 1 .. 0 = {} /\ 2 .. 0 = {}
  BY DEF Init
<1>2. \A r \in Ring : ring[r] = FreshRing BY Zenon DEF Init
<1>3. FreshRing \in RingRecord /\ FreshRing.state = "none" /\ FreshRing.queue = <<>>
  <2>1. <<>> \in Seq(TextOf) /\ 0 \in Nat OBVIOUS
  <2> QED BY Zenon, <2>1 DEF FreshRing, RingRecord
<1>4. \A r \in Ring : Len(ring[r].queue) = 0 BY <1>2, <1>3
<1>5. FlagTypes BY Zenon DEF Init, FlagTypes
<1>6. StoreTypes
  <2>1. ring \in [Ring -> RingRecord] BY Zenon, <1>3 DEF Init
  <2>2. out \in Seq(Item) /\ registry \in Seq(Ring) /\ walk \in Seq(Ring) BY <1>1
  <2>3. 0 \in Nat /\ 0 \in {0, 1, 2} /\ "idle" \in Label BY Zenon DEF Label
  <2> QED BY Zenon, <2>1, <2>2, <2>3 DEF Init, StoreTypes
<1>7. Control BY Zenon DEF Init, Control, RingLabel
<1>8. OneFlusher BY Zenon DEF Init, OneFlusher, Starting
<1>9. RingsHeld
  <2>1. Registered = {} /\ ToWalk = {} BY Zenon, <1>1 DEF Registered, ToWalk
  <2>2. \A x \in Thread : pc[x] = "idle" /\ tss[x] = NoRing BY Zenon DEF Init
  <2> QED BY Zenon, <1>2, <1>3, <2>1, <2>2 DEF RingsHeld
<1>10. Drains BY Zenon DEF Init, Drains
<1>11. \A t : ~Written(t) BY Zenon, <1>1 DEF Written
<1>12. \A t : ~Queued(t) BY Zenon, <1>1, <1>4 DEF Queued
<1>13. Kept BY Zenon DEF Init, Kept
<1>14. InOrder
  <2>1. PerThreadOrder BY Zenon, <1>1 DEF PerThreadOrder
  <2> QED BY Zenon, <1>1, <1>4, <1>11, <1>12, <2>1 DEF InOrder
<1>15. Document
  <2>1. Shape /\ Commas BY Zenon, <1>1 DEF Shape, Commas
  <2>2. ~first /\ ~Marking BY Zenon DEF Init, Marking
  <2>3. phase = "new" /\ ~(Len(out) > 1) BY <1>1 DEF Init
  <2> QED BY Zenon, <1>1, <2>1, <2>2, <2>3 DEF Document
<1> QED BY Zenon, <1>5, <1>6, <1>7, <1>8, <1>9, <1>10, <1>13, <1>14, <1>15 DEF IInv, Types

(* A step that changes nothing keeps it.                                    *)
LEMMA StutterIInv == ASSUME IInv, UNCHANGED vars PROVE IInv'
<1>1. UNCHANGED <<phase, active, ringReady, first, out, spawned, running, stop, registry, ring,
                  tss, pc, cur, logged, owed, exited, accepted, fpc, walk, batch, final, dpc>>
  BY Zenon DEF vars, threadVars, flusherVars, flagVars, docVars, ringVars
<1>2. Types' <=> Types BY <1>1 DEF Types, FlagTypes, StoreTypes
<1>3. Control' <=> Control BY Zenon, <1>1 DEF Control
<1>4. OneFlusher' <=> OneFlusher BY Zenon, <1>1 DEF OneFlusher, Starting
<1>5. RingsHeld' <=> RingsHeld
  <2>1. Registered' = Registered /\ ToWalk' = ToWalk BY Zenon, <1>1 DEF Registered, ToWalk
  <2> QED BY Zenon, <1>1, <2>1 DEF RingsHeld
<1>6. Drains' <=> Drains BY Zenon, <1>1 DEF Drains, Pending, ToWalk
<1>7. \A t : (Written(t)' <=> Written(t)) /\ (Queued(t)' <=> Queued(t))
  BY Zenon, <1>1 DEF Written, Queued
<1>8. Kept' <=> Kept BY Zenon, <1>1, <1>7 DEF Kept
<1>9. InOrder'
  <2>1. PerThreadOrder BY Zenon DEF IInv, InOrder
  <2>2. PerThreadOrder' BY Zenon, <1>1, <2>1 DEF PerThreadOrder
  <2>3. \A x \in Thread : Limit(x)' = Limit(x) BY Zenon, <1>1 DEF Limit
  <2>4. \A x \in Thread : logged[x] \in Nat /\ owed[x] \in {0, 1, 2}
    BY Zenon DEF IInv, Types, StoreTypes
  <2>5. \A x \in Thread : Limit(x) \in Int BY <2>4 DEF Limit
  <2>6. \A x \in Thread : Limit(x) \in Int /\ Limit(x)' \in Int /\ Limit(x) <= Limit(x)'
    BY <2>3, <2>5
  <2>7. \A x \in Thread : /\ x \in exited => x \in exited'
                          /\ tss[x] # NoRing => tss'[x] = tss[x] \/ x \in exited'
    BY Zenon, <1>1
  <2>8. (\A s \in Ring : ring'[s].queue = ring[s].queue) /\ \A t : Written(t)' <=> Written(t)
    BY Zenon, <1>1, <1>7
  <2> QED BY Zenon, <2>2, <2>6, <2>7, <2>8, OrderFrame
<1>10. Document' <=> Document BY <1>1 DEF Document, Shape, Commas, Marking
<1> QED BY Zenon, <1>2, <1>3, <1>4, <1>5, <1>6, <1>8, <1>9, <1>10 DEF IInv

(* Every step keeps it, when the exit is calm.                              *)
LEMMA NextIInv == ASSUME Calm, IInv, Next PROVE IInv'
<1>1. Types /\ Control /\ OneFlusher BY Zenon DEF IInv
<1>2. Types' /\ Kept' BY Zenon, TypesStep, KeptStep
<1>3. CASE \E x \in Thread : Log(x)
  <2>1. PICK x \in Thread : Log(x) BY Zenon, <1>3
  <2>2. Control' /\ OneFlusher' BY Zenon, <1>1, <2>1, LogControl, LogOneFlusher
  <2>3. RingsHeld' /\ Drains' BY Zenon, <2>1, LogHeld, LogDrains
  <2>4. InOrder' BY Zenon, <2>1, LogOrder, SyncOrder, PushOrder
  <2>5. Document' BY Zenon, <2>1, LogDocument
  <2> QED BY Zenon, <1>2, <2>2, <2>3, <2>4, <2>5 DEF IInv
<1>4. CASE \/ LoggerInit \/ BootEnd \/ Flusher \/ Deinit \/ Gone
           \/ \E x \in Thread : ThreadExit(x)
  <2>1. Control' /\ OneFlusher' BY Zenon, <1>1, <1>4, OtherControl, OtherOneFlusher
  <2>2. RingsHeld' /\ Drains' BY Zenon, <1>4, OtherHeld, OtherDrains
  <2>3. InOrder' /\ Document' BY Zenon, <1>4, OtherOrder, OtherDocument
  <2> QED BY Zenon, <1>2, <2>1, <2>2, <2>3 DEF IInv
<1> QED BY Zenon, <1>3, <1>4 DEF Next

(* What the logger does keeps IInv, for every number of threads, rings and  *)
(* log calls, whatever fails but the registry's node and the join, when the *)
(* other threads have ended before exit() runs.                             *)
THEOREM LoggerInvariant == ASSUME Calm PROVE Spec => []IInv
<1>1. Init => IInv BY Zenon, InitIInv
<1>2. IInv /\ [Next]_vars => IInv' BY Zenon, NextIInv, StutterIInv
<1> QED BY <1>1, <1>2, PTL DEF Spec

(* Whatever push accepted is in the closed document, once the flusher's     *)
(* thread was created: the drain after the stop signal leaves nothing.      *)
THEOREM NothingIsLost == ASSUME Calm PROVE Spec => []NothingLostAtExit
<1>1. ASSUME IInv, dpc = "done", fpc # "none", NEW a \in accepted PROVE Written(a)
  <2>1. OneFlusher /\ Drains /\ Kept BY Zenon, <1>1 DEF IInv
  <2>2. fpc = "done" BY Zenon, <1>1, <2>1 DEF OneFlusher
  <2>3. \A r \in Ring : Len(ring[r].queue) = 0 BY <2>1, <2>2 DEF Drains
  <2>4. ~Queued(a) BY <2>3 DEF Queued
  <2> QED BY Zenon, <2>1, <2>4 DEF Kept
<1>2. IInv => NothingLostAtExit BY Zenon, <1>1 DEF NothingLostAtExit
<1> QED BY <1>2, LoggerInvariant, PTL

(* A thread's entries are written in the order it logged them, though they  *)
(* travel through its ring, the synchronous branch and nested error reports. *)
THEOREM EntriesInOrder == ASSUME Calm PROVE Spec => []PerThreadOrder
<1>1. IInv => PerThreadOrder BY Zenon DEF IInv, InOrder
<1> QED BY <1>1, LoggerInvariant, PTL

(* With the rings in use the document is one JSON array, commas included,   *)
(* whichever of the constructor's thread and the flusher writes to it.      *)
THEOREM DocumentIsArray == ASSUME Calm, Ringed PROVE Spec => []DocumentWellFormed
<1>1. IInv => DocumentWellFormed BY Zenon DEF IInv, Document, Shape, Commas, DocumentWellFormed
<1> QED BY <1>1, LoggerInvariant, PTL
=============================================================================
