---------------------------- MODULE EngineProofs ----------------------------
(***************************************************************************)
(* The interception engine, for any number of threads, functions, slots    *)
(* and scripts and any depth of nesting: a call owns the context while it  *)
(* holds the guard, reaches its own real implementation, and runs one      *)
(* script of one policy.                                                   *)
(***************************************************************************)
EXTENDS Engine, TLAPS

-----------------------------------------------------------------------------
(* Types.                                                                   *)

PCs == {"probe", "context", "sched", "exit"} \cup Filling \cup Guarded
Found == Script \cup {NoScript}
Rets == {None, "unset", "minus one", "zero"} \cup {s.does : s \in Found}
Lists == {"first", "second"}
Call == [func : Funcs, caller : Callers, pc : PCs, slot : Slots,
         real : Funcs \cup {None, "null"}, proto : Funcs \cup {None},
         sched : BOOLEAN, ret : Rets, list : Lists \cup {None},
         snap : Lists \cup {None}, script : Found]
Context == [live : BOOLEAN, guard : Int, depth : Int, proto : Funcs \cup {None},
            ret : Rets, ret_addr : {"null"}]
Slot == [hash : Funcs \cup {None}, name : Funcs \cup {None},
         real : Funcs \cup {None, "null"}, proto : Funcs \cup {None}]

Types ==
    /\ opts \in OptionSet /\ conf \in Lists /\ snapshot \in Lists
    /\ table \in [Slots -> Slot] /\ ctx \in [Threads -> Context]
    /\ stack \in [Threads -> Seq(Call)]
    /\ \A t \in Threads : Len(stack[t]) <= opts.depth
    /\ \A t \in Threads : \A i \in DOMAIN stack[t] :
          stack[t][i].pc = "find" => stack[t][i].list \in Lists

\* The contexts a thread starts with and a call leaves behind.
LEMMA Contexts ==
    /\ Cleared \in Context /\ NoContext \in Context
    /\ [Cleared EXCEPT !.guard = ForGood] \in Context
    /\ Cleared.guard = 0 /\ NoContext.guard = 0
    /\ [Cleared EXCEPT !.guard = ForGood].guard = ForGood
<1>1. "zero" \in Rets /\ ForGood \in Int /\ None \in Funcs \cup {None}
  <2>1. "zero" \in Rets
    BY Zenon DEF Rets
  <2> QED BY <2>1 DEF ForGood
<1> HIDE DEF Rets, ForGood, None
<1>2. NoContext \in Context /\ NoContext.guard = 0
  BY <1>1 DEF Context, NoContext
<1>3. Cleared \in Context /\ Cleared.guard = 0
  BY Zenon, <1>2 DEF Context, Cleared
<1>4. /\ [Cleared EXCEPT !.guard = ForGood] \in Context
      /\ [Cleared EXCEPT !.guard = ForGood].guard = ForGood
  BY Zenon, <1>1, <1>3 DEF Context
<1> QED BY Zenon, <1>2, <1>3, <1>4

-----------------------------------------------------------------------------
(* The stack.                                                               *)

\* A step of the innermost call edits the top of its thread's stack and
\* nothing else.
LEMMA TopEdit ==
    ASSUME Types, NEW t \in Threads, stack[t] # <<>>, NEW c \in Call, SetTop(t, c)
    PROVE  /\ stack' \in [Threads -> Seq(Call)]
           /\ \A u \in Threads : Len(stack'[u]) = Len(stack[u])
           /\ \A u \in Threads : DOMAIN stack'[u] = DOMAIN stack[u]
           /\ Len(stack[t]) \in DOMAIN stack[t]
           /\ \A u \in Threads : \A i \in DOMAIN stack[u] :
                 stack'[u][i] = IF u = t /\ i = Len(stack[t]) THEN c ELSE stack[u][i]
<1>1. stack \in [Threads -> Seq(Call)] /\ stack[t] \in Seq(Call)
  BY Zenon DEF Types
<1>2. stack' = [stack EXCEPT ![t] = [stack[t] EXCEPT ![Len(stack[t])] = c]]
  BY Zenon DEF SetTop
<1>3. Len(stack[t]) \in 1 .. Len(stack[t]) /\ DOMAIN stack[t] = 1 .. Len(stack[t])
  BY <1>1
<1>4. [stack[t] EXCEPT ![Len(stack[t])] = c] \in Seq(Call)
  BY <1>1, <1>3
<1> QED BY <1>1, <1>2, <1>3, <1>4

\* A call arrives on top of the stack.
LEMMA Pushed ==
    ASSUME Types, NEW t \in Threads, NEW c \in Call,
           stack' = [stack EXCEPT ![t] = Append(@, c)]
    PROVE  /\ stack' \in [Threads -> Seq(Call)]
           /\ Len(stack[t]) \in Nat
           /\ \A u \in Threads : DOMAIN stack[u] = 1 .. Len(stack[u])
           /\ \A u \in Threads : DOMAIN stack'[u] = 1 .. Len(stack'[u])
           /\ Len(stack'[t]) = Len(stack[t]) + 1 /\ stack'[t][Len(stack[t]) + 1] = c
           /\ \A i \in 1 .. Len(stack[t]) : stack'[t][i] = stack[t][i]
           /\ \A u \in Threads \ {t} : stack'[u] = stack[u]
<1>1. stack \in [Threads -> Seq(Call)] /\ stack[t] \in Seq(Call)
  BY Zenon DEF Types
<1>2. Append(stack[t], c) \in Seq(Call)
  BY <1>1
<1>3. /\ Len(Append(stack[t], c)) = Len(stack[t]) + 1
      /\ Append(stack[t], c)[Len(stack[t]) + 1] = c
      /\ \A i \in 1 .. Len(stack[t]) : Append(stack[t], c)[i] = stack[t][i]
  BY <1>1
<1>4. stack'[t] = Append(stack[t], c) /\ \A u \in Threads \ {t} : stack'[u] = stack[u]
  BY Zenon, <1>1
<1>5. stack' \in [Threads -> Seq(Call)]
  BY Zenon, <1>1, <1>2
<1> QED BY <1>1, <1>3, <1>4, <1>5

\* The innermost call leaves.
LEMMA Popped ==
    ASSUME Types, NEW t \in Threads, stack[t] # <<>>,
           stack' = [stack EXCEPT ![t] = SubSeq(@, 1, Len(@) - 1)]
    PROVE  /\ stack' \in [Threads -> Seq(Call)]
           /\ Len(stack[t]) \in Nat \ {0}
           /\ \A u \in Threads : DOMAIN stack[u] = 1 .. Len(stack[u])
           /\ \A u \in Threads : DOMAIN stack'[u] = 1 .. Len(stack'[u])
           /\ Len(stack'[t]) = Len(stack[t]) - 1
           /\ \A i \in 1 .. Len(stack[t]) - 1 : stack'[t][i] = stack[t][i]
           /\ \A u \in Threads \ {t} : stack'[u] = stack[u]
<1>1. stack \in [Threads -> Seq(Call)] /\ stack[t] \in Seq(Call)
  BY Zenon DEF Types
<1>2. Len(stack[t]) \in Nat \ {0}
  BY <1>1
<1>3. PICK w : w = SubSeq(stack[t], 1, Len(stack[t]) - 1)
  BY Zenon
<1>4. /\ w \in Seq(Call)
      /\ Len(w) = Len(stack[t]) - 1
      /\ \A i \in 1 .. Len(stack[t]) - 1 : w[i] = stack[t][i]
  <2> DEFINE q == stack[t]
             n == Len(q) - 1
  <2>1. q \in Seq(Call) /\ 1 \in 1 .. Len(q) + 1 /\ n \in 1 - 1 .. Len(q)
    BY <1>1, <1>2
  <2> HIDE DEF q
  <2>2. /\ SubSeq(q, 1, n) \in Seq(Call)
        /\ Len(SubSeq(q, 1, n)) = IF 1 <= n THEN n - 1 + 1 ELSE 0
        /\ \A i \in 1 .. n - 1 + 1 : SubSeq(q, 1, n)[i] = q[1 + i - 1]
    BY <2>1
  <2> QED BY <1>2, <1>3, <2>2 DEF q
<1>5. stack'[t] = w /\ \A u \in Threads \ {t} : stack'[u] = stack[u]
  BY Zenon, <1>1, <1>3
<1>6. stack' \in [Threads -> Seq(Call)]
  BY Zenon, <1>1, <1>3, <1>4
<1> QED BY <1>1, <1>2, <1>4, <1>5, <1>6

-----------------------------------------------------------------------------
(* Types are kept.                                                          *)

\* The innermost call of a thread that has one.
LEMMA TopIs ==
    ASSUME Types, NEW t \in Threads, stack[t] # <<>>
    PROVE  /\ Top(t) \in Call /\ Len(stack[t]) \in DOMAIN stack[t]
           /\ Top(t) = stack[t][Len(stack[t])] /\ Len(stack[t]) \in Nat \ {0}
BY DEF Types, Top

\* Any call in flight.
LEMMA CallAt ==
    ASSUME Types, NEW t \in Threads, NEW i \in DOMAIN stack[t]
    PROVE  /\ stack[t][i] \in Call /\ stack[t][i].slot \in Slots
           /\ stack[t][i].func \in Funcs /\ stack[t][i].pc \in PCs
<1>1. stack[t] \in Seq(Call)
  BY Zenon DEF Types
<1>2. stack[t][i] \in Call
  BY <1>1
<1> QED BY Zenon, <1>2 DEF Call

\* An edit of the top keeps the types when the new call has its own.
LEMMA TopStep ==
    ASSUME Types, NEW t \in Threads, stack[t] # <<>>, NEW c \in Call, SetTop(t, c),
           UNCHANGED <<opts, conf, snapshot>>,
           table' \in [Slots -> Slot], ctx' \in [Threads -> Context],
           c.pc = "find" => c.list \in Lists
    PROVE  Types'
<1>1. /\ stack' \in [Threads -> Seq(Call)]
      /\ \A u \in Threads : Len(stack'[u]) = Len(stack[u])
      /\ \A u \in Threads : DOMAIN stack'[u] = DOMAIN stack[u]
      /\ \A u \in Threads : \A i \in DOMAIN stack[u] :
            stack'[u][i] = IF u = t /\ i = Len(stack[t]) THEN c ELSE stack[u][i]
  BY TopEdit
<1>2. ASSUME NEW u \in Threads, NEW i \in DOMAIN stack'[u], stack'[u][i].pc = "find"
      PROVE  stack'[u][i].list \in Lists
  BY <1>1, <1>2 DEF Types
<1>3. \A u \in Threads : Len(stack'[u]) <= opts'.depth
  BY Zenon, <1>1 DEF Types
<1>4. opts' \in OptionSet /\ conf' \in Lists /\ snapshot' \in Lists
  BY Zenon DEF Types
<1> QED BY Zenon, <1>1, <1>2, <1>3, <1>4 DEF Types

\* What a slot may be assigned.
LEMMA SlotEdits ==
    ASSUME NEW e \in Slot, NEW f \in Funcs, NEW p \in Funcs \cup {None}
    PROVE  /\ [e EXCEPT !.name = f] \in Slot /\ [e EXCEPT !.hash = f] \in Slot
           /\ [e EXCEPT !.proto = p] \in Slot
           /\ [e EXCEPT !.real = Real(f), !.proto = None] \in Slot
           /\ EmptySlot \in Slot
           /\ Real(f) \in Funcs \cup {None, "null"} /\ Proto(f) \in Funcs \cup {None}
<1>1. Real(f) \in Funcs \cup {None, "null"} /\ Proto(f) \in Funcs \cup {None}
  BY Zenon DEF Real, Proto
<1>2. [e EXCEPT !.name = f] \in Slot /\ [e EXCEPT !.hash = f] \in Slot
  BY Zenon DEF Slot
<1>3. [e EXCEPT !.proto = p] \in Slot
  BY Zenon DEF Slot
<1>4. [e EXCEPT !.real = Real(f), !.proto = None] \in Slot
  BY Zenon, <1>1 DEF Slot
<1>5. EmptySlot \in Slot
  BY Zenon DEF Slot, EmptySlot
<1> QED BY Zenon, <1>1, <1>2, <1>3, <1>4, <1>5

-----------------------------------------------------------------------------
(* The steps of a call, as the invariants see them: what becomes of the     *)
(* innermost call, and of the slot and the context it uses.                 *)

\* Some call is filling slot n.
Filled(n) == \E u \in Threads : \E i \in DOMAIN stack[u] :
                 stack[u][i].slot = n /\ stack[u][i].pc \in Filling

CacheMove(call, c) ==
    /\ c.func = call.func /\ c.script = call.script /\ c.list = call.list
    /\ c.snap = call.snap /\ c.proto = call.proto
    /\ \/ /\ call.pc = "probe" /\ c.pc = "context" /\ c.slot = call.slot
          /\ table[c.slot].hash = c.func /\ c.real = table[c.slot].real
          /\ UNCHANGED <<table, clash>>
       \/ /\ call.pc = "probe" /\ c.pc = "copy" /\ c.slot = call.slot
          /\ table[c.slot].hash = None
          /\ clash' = IF Filled(c.slot) THEN clash \cup {c.slot} ELSE clash
          /\ UNCHANGED table
       \/ /\ call.pc = "probe" /\ c.pc = "probe"
          /\ UNCHANGED <<table, clash>>
       \/ /\ call.pc = "copy" /\ c.pc = "fill" /\ c.slot = call.slot
          /\ table' = [table EXCEPT ![c.slot] = [@ EXCEPT !.name = c.func]]
          /\ UNCHANGED clash
       \/ /\ call.pc = "fill" /\ c.pc = "publish" /\ c.slot = call.slot
          /\ table' = [table EXCEPT ![c.slot] =
                         [@ EXCEPT !.real = Real(c.func), !.proto = None]]
          /\ UNCHANGED clash
       \/ /\ call.pc = "publish" /\ c.pc = "context" /\ c.slot = call.slot
          /\ c.real = Real(c.func)
          /\ table' = [table EXCEPT ![c.slot] = [@ EXCEPT !.hash = c.func]]
          /\ UNCHANGED clash

\* Steps of the name cache: they leave the contexts alone.
LEMMA CacheMoves ==
    ASSUME Types, NEW t \in Threads,
           Probe(t) \/ CopyName(t) \/ FillSlot(t) \/ PublishSlot(t)
    PROVE  /\ stack[t] # <<>> /\ UNCHANGED <<opts, conf, snapshot, ctx>> /\ Types'
           /\ \E c \in Call : SetTop(t, c) /\ CacheMove(Top(t), c)
<1> DEFINE call == Top(t)
<1>1. stack[t] # <<>> /\ UNCHANGED <<opts, conf, snapshot, ctx>>
  BY Zenon DEF Probe, CopyName, FillSlot, PublishSlot, At
<1>2. /\ call \in Call /\ call.slot \in Slots /\ call.func \in Funcs
      /\ table \in [Slots -> Slot] /\ ctx' \in [Threads -> Context]
      /\ table[call.slot] \in Slot
  BY Zenon, <1>1, TopIs DEF Call, Types
<1>3. {"context", "copy", "fill", "publish", "probe"} \subseteq PCs
  BY Zenon DEF PCs, Filling
<1>4. Real(call.func) \in Funcs \cup {None, "null"}
  BY Zenon, <1>2 DEF Real
<1>5. table[call.slot].real \in Funcs \cup {None, "null"}
  BY Zenon, <1>2 DEF Slot
<1>6. (call.slot + 1) % Size \in Slots
  BY <1>2, SizeAssumption DEF Slots
<1>7. SUFFICES \E c \in Call : /\ SetTop(t, c) /\ CacheMove(call, c)
                                /\ table' \in [Slots -> Slot] /\ c.pc # "find"
  BY Zenon, <1>1, <1>2, TopStep
<1> HIDE DEF call
<1>8. CASE Probe(t)
  <2>0. call.pc = "probe" /\ table' = table
    BY Zenon, <1>8 DEF Probe, At, call
  <2>1. CASE /\ table[call.slot].hash = call.func
             /\ SetTop(t, [call EXCEPT !.pc = "context", !.real = table[call.slot].real])
             /\ UNCHANGED clash
    <3> DEFINE c == [call EXCEPT !.pc = "context", !.real = table[call.slot].real]
    <3>1. c \in Call
      BY Zenon, <1>2, <1>3, <1>5 DEF Call
    <3>2. /\ c.pc = "context" /\ c.slot = call.slot /\ c.real = table[call.slot].real
          /\ c.func = call.func /\ c.script = call.script /\ c.list = call.list
          /\ c.snap = call.snap /\ c.proto = call.proto
      BY Zenon, <1>2 DEF Call
    <3>3. SetTop(t, c)
      BY Zenon, <2>1
    <3> HIDE DEF c
    <3> QED BY Zenon, <1>2, <2>0, <2>1, <3>1, <3>2, <3>3 DEF CacheMove
  <2>2. CASE /\ table[call.slot].hash = None
             /\ SetTop(t, [call EXCEPT !.pc = "copy"])
             /\ clash' = IF \E u \in Threads, i \in 1 .. opts.depth :
                               /\ i \in DOMAIN stack[u]
                               /\ stack[u][i].slot = call.slot
                               /\ stack[u][i].pc \in Filling
                         THEN clash \cup {call.slot} ELSE clash
    <3> DEFINE c == [call EXCEPT !.pc = "copy"]
    <3>1. c \in Call
      BY Zenon, <1>2, <1>3 DEF Call
    <3>2. /\ c.pc = "copy" /\ c.slot = call.slot
          /\ c.func = call.func /\ c.script = call.script /\ c.list = call.list
          /\ c.snap = call.snap /\ c.proto = call.proto
      BY Zenon, <1>2 DEF Call
    <3>3. \A u \in Threads : \A i \in DOMAIN stack[u] : i \in 1 .. opts.depth
      BY OptionsAssumption DEF Types
    <3>4. clash' = IF Filled(call.slot) THEN clash \cup {call.slot} ELSE clash
      BY Zenon, <2>2, <3>3 DEF Filled
    <3>5. SetTop(t, c)
      BY Zenon, <2>2
    <3> HIDE DEF c
    <3> QED BY Zenon, <1>2, <2>0, <2>2, <3>1, <3>2, <3>4, <3>5 DEF CacheMove
  <2>3. CASE /\ SetTop(t, [call EXCEPT !.slot = (call.slot + 1) % Size])
             /\ UNCHANGED clash
    <3> DEFINE c == [call EXCEPT !.slot = (call.slot + 1) % Size]
    <3>1. c \in Call
      BY Zenon, <1>2, <1>6 DEF Call
    <3>2. /\ c.pc = "probe"
          /\ c.func = call.func /\ c.script = call.script /\ c.list = call.list
          /\ c.snap = call.snap /\ c.proto = call.proto
      BY Zenon, <1>2, <2>0 DEF Call
    <3>3. SetTop(t, c)
      BY Zenon, <2>3
    <3> HIDE DEF c
    <3> QED BY Zenon, <1>2, <2>0, <2>3, <3>1, <3>2, <3>3 DEF CacheMove
  <2> QED BY Zenon, <1>8, <2>1, <2>2, <2>3 DEF Probe, call
<1>9. CASE CopyName(t)
  <2> DEFINE c == [call EXCEPT !.pc = "fill"]
  <2>1. c \in Call
    BY Zenon, <1>2, <1>3 DEF Call
  <2>2. /\ c.pc = "fill" /\ c.slot = call.slot
        /\ c.func = call.func /\ c.script = call.script /\ c.list = call.list
        /\ c.snap = call.snap /\ c.proto = call.proto
    BY Zenon, <1>2 DEF Call
  <2>3. /\ SetTop(t, c) /\ call.pc = "copy" /\ UNCHANGED clash
        /\ table' = [table EXCEPT ![call.slot] = [@ EXCEPT !.name = call.func]]
    BY Zenon, <1>9 DEF CopyName, call, At
  <2>4. table' \in [Slots -> Slot]
    BY Zenon, <1>2, <2>3, SlotEdits
  <2> HIDE DEF c
  <2> QED BY Zenon, <2>1, <2>2, <2>3, <2>4 DEF CacheMove
<1>10. CASE FillSlot(t)
  <2> DEFINE c == [call EXCEPT !.pc = "publish"]
  <2>1. c \in Call
    BY Zenon, <1>2, <1>3 DEF Call
  <2>2. /\ c.pc = "publish" /\ c.slot = call.slot
        /\ c.func = call.func /\ c.script = call.script /\ c.list = call.list
        /\ c.snap = call.snap /\ c.proto = call.proto
    BY Zenon, <1>2 DEF Call
  <2>3. SetTop(t, c) /\ call.pc = "fill" /\ UNCHANGED clash
    BY Zenon, <1>10 DEF FillSlot, call, At
  <2>4. table' = [table EXCEPT ![call.slot] =
                    [@ EXCEPT !.real = Real(call.func), !.proto = None]]
    BY Zenon, <1>2, <1>10 DEF FillSlot, call
  <2>5. [table[call.slot] EXCEPT !.real = Real(call.func), !.proto = None] \in Slot
    BY Zenon, <1>2, SlotEdits
  <2>6. table' \in [Slots -> Slot]
    BY Zenon, <1>2, <2>4, <2>5
  <2> HIDE DEF c
  <2> QED BY Zenon, <2>1, <2>2, <2>3, <2>4, <2>6 DEF CacheMove
<1>11. CASE PublishSlot(t)
  <2> DEFINE c == [call EXCEPT !.pc = "context", !.real = Real(call.func)]
  <2>1. c \in Call
    BY Zenon, <1>2, <1>3, <1>4 DEF Call
  <2>2. /\ c.pc = "context" /\ c.slot = call.slot /\ c.real = Real(call.func)
        /\ c.func = call.func /\ c.script = call.script /\ c.list = call.list
        /\ c.snap = call.snap /\ c.proto = call.proto
    BY Zenon, <1>2 DEF Call
  <2>3. /\ SetTop(t, c) /\ call.pc = "publish" /\ UNCHANGED clash
        /\ table' = [table EXCEPT ![call.slot] = [@ EXCEPT !.hash = call.func]]
    BY Zenon, <1>11 DEF PublishSlot, call, At
  <2>4. table' \in [Slots -> Slot]
    BY Zenon, <1>2, <2>3, SlotEdits
  <2> HIDE DEF c
  <2> QED BY Zenon, <2>1, <2>2, <2>3, <2>4 DEF CacheMove
<1> QED BY Zenon, <1>8, <1>9, <1>10, <1>11

\* What is found for a call: the resolver's answer, with the return address the
\* context has.
Answer(call) == retrace_script_find(opts[snapshot], opts[call.list], call.func, "null")

\* The context of thread t keeps its guard and its result.
Held(t) == ctx'[t].guard = ctx[t].guard /\ ctx'[t].ret = ctx[t].ret

ContextMove(t, call, c) ==
    /\ c.func = call.func /\ c.slot = call.slot /\ c.real = call.real
    /\ ctx' \in [Threads -> Context] /\ \A u \in Threads \ {t} : ctx'[u] = ctx[u]
    /\ UNCHANGED clash
    /\ \/ call.pc # "proto" /\ c.proto = call.proto /\ c.list = call.list /\ table' = table
       \/ /\ call.pc = "proto"
          /\ c.proto = IF table[c.slot].proto # None THEN table[c.slot].proto
                                                     ELSE Proto(c.func)
          /\ table' = [table EXCEPT ![c.slot] = [@ EXCEPT !.proto = c.proto]]
    /\ \/ call.pc # "find" /\ c.snap = call.snap /\ c.script = call.script
       \/ call.pc = "find" /\ c.snap = snapshot /\ c.pc = "act"
          /\ c.script = Answer(call) /\ c.script # NoScript
       \/ call.pc = "find" /\ c.snap = snapshot /\ c.pc = "exit"
          /\ c.script = call.script /\ NoScript = Answer(call)
    /\ \/ /\ call.pc = "context" /\ c.pc \in {"sched", "exit"} /\ Held(t)
       \/ /\ call.pc = "sched" /\ c.pc = "exit" /\ Held(t)
       \/ /\ call.pc = "sched" /\ c.pc = "proto"
          /\ ctx[t].guard = 0 /\ ctx'[t].guard = Len(stack[t])
       \/ /\ call.pc = "proto" /\ c.pc = "find" /\ Held(t)
       \/ /\ call.pc \in {"proto", "find"} /\ c.pc = "exit" /\ ctx'[t] = Cleared
       \/ /\ call.pc = "find" /\ c.pc = "act" /\ Held(t)
       \/ /\ call.pc = "act" /\ c.pc = "return"
          /\ ctx'[t].guard = ctx[t].guard /\ ctx'[t].ret \in {call.script.does, "zero"}
       \/ /\ call.pc = "return" /\ c.pc = "exit" /\ ctx'[t] = Cleared
          /\ c.ret = ctx[t].ret

\* What is known of the innermost call and its context before such a step.
LEMMA Before ==
    ASSUME Types, NEW t \in Threads, stack[t] # <<>>
    PROVE  /\ Top(t) \in Call /\ Top(t).slot \in Slots /\ Top(t).func \in Funcs
           /\ table \in [Slots -> Slot] /\ table[Top(t).slot] \in Slot
           /\ ctx \in [Threads -> Context] /\ ctx[t] \in Context
           /\ ctx[t].depth \in Int /\ ctx[t].ret \in Rets /\ ctx[t].ret_addr = "null"
           /\ Len(stack[t]) \in Int /\ Top(t).script \in Found
           /\ {"unset", "minus one", "zero"} \subseteq Rets
           /\ {"sched", "exit", "proto", "find", "act", "return"} \subseteq PCs
<1>1. /\ Top(t) \in Call /\ table \in [Slots -> Slot] /\ ctx \in [Threads -> Context]
      /\ Len(stack[t]) \in Int
  BY TopIs DEF Types
<1>2. Top(t).slot \in Slots /\ Top(t).func \in Funcs /\ Top(t).script \in Found
  BY Zenon, <1>1 DEF Call
<1>3. ctx[t].depth \in Int /\ ctx[t].ret \in Rets /\ ctx[t].ret_addr = "null"
  BY Zenon, <1>1 DEF Context
<1>4. {"unset", "minus one", "zero"} \subseteq Rets
  BY Zenon DEF Rets
<1>5. {"sched", "exit", "proto", "find", "act", "return"} \subseteq PCs
  BY Zenon DEF PCs, Guarded
<1> QED BY Zenon, <1>1, <1>2, <1>3, <1>4, <1>5

\* The context is taken and the guard is tried.
LEMMA GuardMoves ==
    ASSUME Types, NEW t \in Threads, GetContext(t) \/ SchedAndGuard(t)
    PROVE  /\ stack[t] # <<>> /\ UNCHANGED <<opts, conf, snapshot>> /\ Types'
           /\ \E c \in Call : SetTop(t, c) /\ ContextMove(t, Top(t), c)
<1> DEFINE call == Top(t)
<1>1. /\ stack[t] # <<>> /\ UNCHANGED <<opts, conf, snapshot, table, clash>>
      /\ call.pc \in {"context", "sched"}
  BY Zenon DEF GetContext, SchedAndGuard, At
<1>2. /\ call \in Call /\ table' \in [Slots -> Slot]
      /\ ctx \in [Threads -> Context] /\ ctx[t] \in Context
      /\ ctx[t].depth + 1 \in Int /\ ctx[t].depth - 1 \in Int /\ Len(stack[t]) \in Int
      /\ {"unset", "minus one"} \subseteq Rets /\ {"sched", "exit", "proto"} \subseteq PCs
  <2>1. /\ call \in Call /\ table \in [Slots -> Slot]
        /\ ctx \in [Threads -> Context] /\ ctx[t] \in Context
        /\ ctx[t].depth \in Int /\ Len(stack[t]) \in Int
        /\ {"unset", "minus one"} \subseteq Rets /\ {"sched", "exit", "proto"} \subseteq PCs
    BY Zenon, <1>1, Before
  <2>2. table' = table
    BY Zenon, <1>1
  <2>3. ctx[t].depth + 1 \in Int /\ ctx[t].depth - 1 \in Int
    <3>1. ctx[t].depth \in Int
      BY Zenon, <2>1
    <3> QED BY <3>1
  <2> QED BY Zenon, <2>1, <2>2, <2>3
<1>3. SUFFICES \E c \in Call : /\ SetTop(t, c) /\ ContextMove(t, call, c) /\ c.pc # "find"
  <2>1. ASSUME NEW c \in Call, SetTop(t, c), ContextMove(t, call, c), c.pc # "find"
        PROVE  Types'
    <3>1. ctx' \in [Threads -> Context]
      BY Zenon, <2>1 DEF ContextMove
    <3> QED BY Zenon, <1>1, <1>2, <2>1, <3>1, TopStep
  <2> QED BY Zenon, <1>1, <2>1
<1> HIDE DEF call
\* The shapes of these steps: the new call, and the context.
<1>4. ASSUME NEW c \in Call, NEW x \in Context,
             ctx' = [ctx EXCEPT ![t] = x],
             SetTop(t, c), c.func = call.func, c.slot = call.slot, c.real = call.real,
             c.proto = call.proto, c.list = call.list, c.snap = call.snap,
             c.script = call.script, x.ret = ctx[t].ret,
             \/ call.pc = "context" /\ c.pc \in {"sched", "exit"} /\ x.guard = ctx[t].guard
             \/ call.pc = "sched" /\ c.pc = "exit" /\ x.guard = ctx[t].guard
             \/ call.pc = "sched" /\ c.pc = "proto" /\ ctx[t].guard = 0
                /\ x.guard = Len(stack[t])
      PROVE  \E d \in Call : /\ SetTop(t, d) /\ ContextMove(t, call, d) /\ d.pc # "find"
  <2>1. ctx' \in [Threads -> Context] /\ ctx'[t] = x /\ \A u \in Threads \ {t} : ctx'[u] = ctx[u]
    BY Zenon, <1>2, <1>4
  <2> QED BY Zenon, <1>1, <1>4, <2>1 DEF ContextMove, Held
<1>5. CASE GetContext(t)
  <2>1. CASE /\ ctx' = [ctx EXCEPT ![t].live = TRUE, ![t].depth = @ + 1]
             /\ SetTop(t, [call EXCEPT !.pc = "sched"])
    <3> DEFINE c == [call EXCEPT !.pc = "sched"]
               x == [ctx[t] EXCEPT !.live = TRUE, !.depth = ctx[t].depth + 1]
    <3>0. c \in Call
      BY Zenon, <1>2 DEF Call
    <3>1. c \in Call /\ x \in Context
      BY Zenon, <1>2, <3>0 DEF Context
    <3>2. /\ c.func = call.func /\ c.slot = call.slot /\ c.real = call.real
          /\ c.proto = call.proto /\ c.list = call.list /\ c.snap = call.snap
          /\ c.script = call.script /\ c.pc = "sched"
      BY Zenon, <1>2 DEF Call
    <3>3. x.ret = ctx[t].ret /\ x.guard = ctx[t].guard
      BY Zenon, <1>2 DEF Context
    <3>4. ctx' = [ctx EXCEPT ![t] = x] /\ SetTop(t, c) /\ call.pc = "context"
      BY Zenon, <1>2, <1>5, <2>1 DEF GetContext, At, call
    <3> HIDE DEF c, x
    <3> QED BY Zenon, <1>4, <3>1, <3>2, <3>3, <3>4
  <2>2. CASE /\ SetTop(t, [call EXCEPT !.pc = "exit", !.ret = "unset"])
             /\ UNCHANGED ctx
    <3> DEFINE c == [call EXCEPT !.pc = "exit", !.ret = "unset"]
    <3>1. c \in Call
      BY Zenon, <1>2 DEF Call
    <3>2. /\ c.func = call.func /\ c.slot = call.slot /\ c.real = call.real
          /\ c.proto = call.proto /\ c.list = call.list /\ c.snap = call.snap
          /\ c.script = call.script /\ c.pc = "exit"
      BY Zenon, <1>2 DEF Call
    <3>3. ctx' = [ctx EXCEPT ![t] = ctx[t]] /\ SetTop(t, c) /\ call.pc = "context"
      BY Zenon, <1>2, <1>5, <2>2 DEF GetContext, At, call
    <3> HIDE DEF c
    <3> QED BY Zenon, <1>2, <1>4, <3>1, <3>2, <3>3
  <2> QED BY Zenon, <1>5, <2>1, <2>2 DEF GetContext, call
<1>6. CASE SchedAndGuard(t)
  <2>1. CASE /\ ctx' = [ctx EXCEPT ![t].depth = @ - 1]
             /\ \/ SetTop(t, [call EXCEPT !.pc = "exit", !.ret = "minus one"])
                \/ SetTop(t, [call EXCEPT !.pc = "exit", !.sched = TRUE])
    <3> DEFINE c == [call EXCEPT !.pc = "exit", !.ret = "minus one"]
               d == [call EXCEPT !.pc = "exit", !.sched = TRUE]
               x == [ctx[t] EXCEPT !.depth = ctx[t].depth - 1]
    <3>1. c \in Call /\ d \in Call
      BY Zenon, <1>2 DEF Call
    <3>2. x \in Context /\ x.ret = ctx[t].ret /\ x.guard = ctx[t].guard
      BY Zenon, <1>2 DEF Context
    <3>3. /\ c.func = call.func /\ c.slot = call.slot /\ c.real = call.real
          /\ c.proto = call.proto /\ c.list = call.list /\ c.snap = call.snap
          /\ c.script = call.script /\ c.pc = "exit"
      BY Zenon, <1>2 DEF Call
    <3>4. /\ d.func = call.func /\ d.slot = call.slot /\ d.real = call.real
          /\ d.proto = call.proto /\ d.list = call.list /\ d.snap = call.snap
          /\ d.script = call.script /\ d.pc = "exit"
      BY Zenon, <1>2 DEF Call
    <3>5. /\ ctx' = [ctx EXCEPT ![t] = x] /\ call.pc = "sched"
          /\ SetTop(t, c) \/ SetTop(t, d)
      BY Zenon, <1>2, <1>6, <2>1 DEF SchedAndGuard, At, call
    <3> HIDE DEF c, d, x
    <3> QED BY Zenon, <1>4, <3>1, <3>2, <3>3, <3>4, <3>5
  <2>2. CASE /\ ctx[t].guard = 0
             /\ ctx' = [ctx EXCEPT ![t].guard = Len(stack[t])]
             /\ SetTop(t, [call EXCEPT !.pc = "proto", !.sched = TRUE])
    <3> DEFINE c == [call EXCEPT !.pc = "proto", !.sched = TRUE]
               x == [ctx[t] EXCEPT !.guard = Len(stack[t])]
    <3>1. c \in Call
      BY Zenon, <1>2 DEF Call
    <3>2. x \in Context /\ x.ret = ctx[t].ret /\ x.guard = Len(stack[t])
      BY Zenon, <1>2 DEF Context
    <3>3. /\ c.func = call.func /\ c.slot = call.slot /\ c.real = call.real
          /\ c.proto = call.proto /\ c.list = call.list /\ c.snap = call.snap
          /\ c.script = call.script /\ c.pc = "proto"
      BY Zenon, <1>2 DEF Call
    <3>4. ctx' = [ctx EXCEPT ![t] = x] /\ SetTop(t, c) /\ call.pc = "sched"
      BY Zenon, <1>2, <1>6, <2>2 DEF SchedAndGuard, At, call
    <3> HIDE DEF c, x
    <3> QED BY Zenon, <1>4, <2>2, <3>1, <3>2, <3>3, <3>4
  <2> QED BY Zenon, <1>6, <2>1, <2>2 DEF SchedAndGuard, call
<1> QED BY Zenon, <1>5, <1>6

\* The actions run and the result is written back.
LEMMA ActMoves ==
    ASSUME Types, NEW t \in Threads, RunActions(t) \/ WriteBack(t)
    PROVE  /\ stack[t] # <<>> /\ UNCHANGED <<opts, conf, snapshot>> /\ Types'
           /\ \E c \in Call : SetTop(t, c) /\ ContextMove(t, Top(t), c)
<1> DEFINE call == Top(t)
<1>1. /\ stack[t] # <<>> /\ UNCHANGED <<opts, conf, snapshot, table, clash>>
  BY Zenon DEF RunActions, WriteBack, At
<1>2. /\ call \in Call /\ table \in [Slots -> Slot]
      /\ ctx \in [Threads -> Context] /\ ctx[t] \in Context /\ ctx[t].ret \in Rets
      /\ {"exit", "return"} \subseteq PCs /\ "zero" \in Rets /\ call.script \in Found
  BY Zenon, <1>1, Before
<1>3. Cleared \in Context
  BY Contexts
<1>4. SUFFICES \E c \in Call : SetTop(t, c) /\ ContextMove(t, call, c) /\ c.pc # "find"
  <2>1. ASSUME NEW c \in Call, SetTop(t, c), ContextMove(t, call, c), c.pc # "find"
        PROVE  Types'
    <3>1. ctx' \in [Threads -> Context] /\ table' \in [Slots -> Slot]
      BY Zenon, <1>1, <1>2, <2>1 DEF ContextMove
    <3> QED BY Zenon, <1>1, <2>1, <3>1, TopStep
  <2> QED BY Zenon, <1>1, <2>1
<1> HIDE DEF call
<1>5. CASE RunActions(t)
  <2> DEFINE c == [call EXCEPT !.pc = "return"]
  <2>1. PICK r \in {call.script.does, "zero"} : ctx' = [ctx EXCEPT ![t].ret = r]
    BY Zenon, <1>5 DEF RunActions, call
  <2>2. r \in Rets
    BY Zenon, <1>2 DEF Rets
  <2> DEFINE x == [ctx[t] EXCEPT !.ret = r]
  <2>3. x \in Context /\ x.ret = r /\ x.guard = ctx[t].guard
    BY Zenon, <1>2, <2>2 DEF Context
  <2>4. c \in Call
    BY Zenon, <1>2 DEF Call
  <2>5. /\ c.func = call.func /\ c.slot = call.slot /\ c.real = call.real
        /\ c.proto = call.proto /\ c.list = call.list /\ c.snap = call.snap
        /\ c.script = call.script /\ c.pc = "return"
    BY Zenon, <1>2 DEF Call
  <2>6. SetTop(t, c) /\ call.pc = "act"
    BY Zenon, <1>5 DEF RunActions, At, call
  <2>7. /\ ctx' \in [Threads -> Context] /\ ctx'[t] = x
        /\ \A u \in Threads \ {t} : ctx'[u] = ctx[u]
    BY Zenon, <1>2, <2>1, <2>3
  <2> HIDE DEF c, x
  <2>8. ContextMove(t, call, c)
    BY Zenon, <1>1, <2>1, <2>3, <2>5, <2>6, <2>7 DEF ContextMove
  <2> QED BY Zenon, <2>4, <2>5, <2>6, <2>8
<1>6. CASE WriteBack(t)
  <2> DEFINE c == [call EXCEPT !.pc = "exit", !.ret = ctx[t].ret]
  <2>1. c \in Call
    BY Zenon, <1>2 DEF Call
  <2>2. /\ c.func = call.func /\ c.slot = call.slot /\ c.real = call.real
        /\ c.proto = call.proto /\ c.list = call.list /\ c.snap = call.snap
        /\ c.script = call.script /\ c.pc = "exit" /\ c.ret = ctx[t].ret
    BY Zenon, <1>2 DEF Call
  <2>3. SetTop(t, c) /\ call.pc = "return" /\ ctx' = [ctx EXCEPT ![t] = Cleared]
    BY Zenon, <1>6 DEF WriteBack, At, call
  <2>4. /\ ctx' \in [Threads -> Context] /\ ctx'[t] = Cleared
        /\ \A u \in Threads \ {t} : ctx'[u] = ctx[u]
    BY Zenon, <1>2, <1>3, <2>3
  <2> HIDE DEF c
  <2>5. ContextMove(t, call, c)
    BY Zenon, <1>1, <2>2, <2>3, <2>4 DEF ContextMove
  <2> QED BY Zenon, <2>1, <2>2, <2>3, <2>5
<1> QED BY Zenon, <1>5, <1>6

-----------------------------------------------------------------------------
(* The guard and the context.                                               *)

\* What a call holds: it is under the guard exactly while the guard names it,
\* has a script only once one was found, and returns what that script decided.
Holds(t, i) ==
    LET call == stack[t][i]
    IN  /\ call.pc \in Guarded <=> ctx[t].guard = i
        /\ call.script # NoScript => call.pc \in {"act", "return", "exit"}
        /\ call.snap # None => call.pc \in {"act", "return", "exit"}
        /\ call.pc = "return" => ctx[t].ret \in {call.script.does, "zero"}
        /\ call.pc = "exit" /\ call.script # NoScript
               => call.ret \in {call.script.does, "zero"}
Owned ==
    \A t \in Threads :
        /\ ctx[t].guard \in {ForGood} \cup 0 .. Len(stack[t])
        /\ t \in Permanent => ctx[t].guard = ForGood
        /\ \A i \in DOMAIN stack[t] : Holds(t, i)

\* The steps of the name cache hold nothing and release nothing.
LEMMA OwnedCache ==
    ASSUME Types, Owned, NEW t \in Threads, stack[t] # <<>>, NEW c \in Call,
           SetTop(t, c), CacheMove(Top(t), c), ctx' = ctx
    PROVE  Owned'
<1>0. PICK n \in Nat : n = Len(stack[t])
  BY Zenon, TopIs
<1>1. /\ \A u \in Threads : Len(stack'[u]) = Len(stack[u])
      /\ \A u \in Threads : DOMAIN stack'[u] = DOMAIN stack[u]
      /\ n \in DOMAIN stack[t]
      /\ \A u \in Threads : \A i \in DOMAIN stack[u] :
            stack'[u][i] = IF u = t /\ i = n THEN c ELSE stack[u][i]
  BY <1>0, TopEdit
<1>2. Top(t) = stack[t][n] /\ Holds(t, n)
  BY Zenon, <1>0, <1>1 DEF Top, Owned
<1>3. /\ Top(t).pc \in {"probe"} \cup Filling /\ c.pc \in {"probe", "context"} \cup Filling
      /\ c.script = Top(t).script /\ c.snap = Top(t).snap
  BY Zenon DEF CacheMove, Filling
<1>4. Holds(t, n)'
  BY Zenon, <1>1, <1>2, <1>3 DEF Holds, Guarded, Filling
<1>5. ASSUME NEW u \in Threads, NEW i \in DOMAIN stack'[u] PROVE Holds(u, i)'
  <2>1. CASE u = t /\ i = n
    BY Zenon, <1>4, <2>1
  <2>2. CASE ~(u = t /\ i = n)
    BY <1>1, <1>5, <2>2 DEF Owned, Holds
  <2> QED BY Zenon, <2>1, <2>2
<1> QED BY Zenon, <1>1, <1>5 DEF Owned

\* A step under the context: the call that holds the guard is the innermost
\* that may, and no other call is disturbed.
LEMMA OwnedContext ==
    ASSUME Types, Owned, NEW t \in Threads, stack[t] # <<>>, NEW c \in Call,
           SetTop(t, c), ContextMove(t, Top(t), c)
    PROVE  Owned'
<1> DEFINE call == Top(t)
<1>0. PICK n \in Nat : n = Len(stack[t])
  BY Zenon, TopIs
<1>1. /\ \A u \in Threads : Len(stack'[u]) = Len(stack[u])
      /\ \A u \in Threads : DOMAIN stack'[u] = DOMAIN stack[u]
      /\ n \in DOMAIN stack[t] /\ n \in Nat /\ n # 0
      /\ \A u \in Threads : \A i \in DOMAIN stack[u] :
            stack'[u][i] = IF u = t /\ i = n THEN c ELSE stack[u][i]
  BY <1>0, TopEdit, TopIs
<1>2. call = stack[t][n] /\ Holds(t, n)
  BY Zenon, <1>0, <1>1 DEF Top, Owned
<1>3. DOMAIN stack[t] \subseteq Nat \ {0} /\ Cleared.guard = 0
  BY Contexts DEF Types
<1>4. ForGood # n /\ ForGood # 0
  BY <1>1 DEF ForGood
<1> HIDE DEF call
<1>5. CASE /\ call.pc \in {"context", "sched"} /\ c.pc \in {"sched", "exit"} /\ Held(t)
           /\ c.script = call.script /\ c.snap = call.snap
  <2>1. Holds(t, n)'
    BY Zenon, <1>1, <1>2, <1>5 DEF Holds, Held, Guarded
  <2>2. ASSUME NEW u \in Threads, NEW i \in DOMAIN stack'[u], ~(u = t /\ i = n)
        PROVE  Holds(u, i)'
    BY SMTT(30), <1>1, <1>5, <2>2 DEF Owned, Holds, Held, ContextMove
  <2>3. \A u \in Threads : ctx'[u].guard = ctx[u].guard
    BY Zenon, <1>5 DEF Held, ContextMove
  <2> QED BY <1>1, <2>1, <2>2, <2>3 DEF Owned
<1>6. CASE /\ call.pc = "sched" /\ c.pc = "proto"
           /\ ctx[t].guard = 0 /\ ctx'[t].guard = n
           /\ c.script = call.script /\ c.snap = call.snap
  <2>1. Holds(t, n)'
    BY Zenon, <1>1, <1>2, <1>6 DEF Holds, Guarded
  <2>2. ASSUME NEW u \in Threads, NEW i \in DOMAIN stack'[u], ~(u = t /\ i = n)
        PROVE  Holds(u, i)'
    <3>1. stack'[u][i] = stack[u][i] /\ i \in DOMAIN stack[u] /\ Holds(u, i)
      BY Zenon, <1>1, <2>2 DEF Owned
    <3>2. CASE u = t
      <4>1. i # 0 /\ i # n
        BY Zenon, <1>3, <2>2, <3>1, <3>2
      <4>2. stack[u][i].pc \notin Guarded
        BY Zenon, <1>6, <3>1, <3>2, <4>1 DEF Holds
      <4> QED BY Zenon, <1>6, <3>1, <3>2, <4>1, <4>2 DEF Holds, Guarded
    <3>3. CASE u # t
      BY Zenon, <3>1, <3>3 DEF Holds, ContextMove
    <3> QED BY Zenon, <3>2, <3>3
  <2>3. \A u \in Threads \ {t} : ctx'[u].guard = ctx[u].guard
    BY Zenon DEF ContextMove
  <2>4. n \in 0 .. n /\ t \notin Permanent
    BY <1>1, <1>4, <1>6 DEF Owned
  <2> QED BY <1>0, <1>1, <1>6, <2>1, <2>2, <2>3, <2>4 DEF Owned
<1>7. CASE /\ call.pc \in Guarded /\ c.pc \in Guarded
           /\ ctx'[t].guard = ctx[t].guard
           /\ c.pc = "return" => ctx'[t].ret \in {c.script.does, "zero"}
           /\ c.script # NoScript => c.pc \in {"act", "return"}
           /\ c.snap # None => c.pc \in {"act", "return"}
  <2>1. ctx[t].guard = n
    BY Zenon, <1>2, <1>7 DEF Holds
  <2>2. Holds(t, n)'
    BY Zenon, <1>1, <1>2, <1>7, <2>1 DEF Holds, Guarded
  <2>3. ASSUME NEW u \in Threads, NEW i \in DOMAIN stack'[u], ~(u = t /\ i = n)
        PROVE  Holds(u, i)'
    <3>1. stack'[u][i] = stack[u][i] /\ i \in DOMAIN stack[u] /\ Holds(u, i)
      BY <1>1, <2>3 DEF Owned
    <3>2. CASE u = t
      BY Zenon, <1>7, <2>1, <2>3, <3>1, <3>2 DEF Holds, Guarded
    <3>3. CASE u # t
      BY <3>1, <3>3 DEF Holds, ContextMove
    <3> QED BY <3>2, <3>3
  <2>4. \A u \in Threads : ctx'[u].guard = ctx[u].guard
    BY Zenon, <1>7 DEF ContextMove
  <2> QED BY <1>1, <2>2, <2>3, <2>4 DEF Owned
<1>8. CASE /\ call.pc \in Guarded /\ c.pc = "exit" /\ ctx'[t].guard = 0
           /\ c.script # NoScript => c.ret \in {c.script.does, "zero"}
  <2>1. ctx[t].guard = n
    BY Zenon, <1>2, <1>8 DEF Holds
  <2>2. Holds(t, n)'
    BY Zenon, <1>1, <1>8 DEF Holds, Guarded
  <2>3. ASSUME NEW u \in Threads, NEW i \in DOMAIN stack'[u], ~(u = t /\ i = n)
        PROVE  Holds(u, i)'
    <3>1. stack'[u][i] = stack[u][i] /\ i \in DOMAIN stack[u] /\ Holds(u, i)
      BY <1>1, <2>3 DEF Owned
    <3>2. CASE u = t
      <4>1. i # 0 /\ stack[u][i].pc \notin Guarded
        BY Zenon, <1>3, <2>1, <2>3, <3>1, <3>2 DEF Holds
      <4> QED BY Zenon, <1>8, <3>1, <3>2, <4>1 DEF Holds, Guarded
    <3>3. CASE u # t
      BY <3>1, <3>3 DEF Holds, ContextMove
    <3> QED BY <3>2, <3>3
  <2>4. \A u \in Threads \ {t} : ctx'[u].guard = ctx[u].guard
    BY DEF ContextMove
  <2>5. 0 \in 0 .. n /\ t \notin Permanent
    BY <1>1, <1>4, <2>1 DEF Owned
  <2> QED BY <1>0, <1>1, <1>8, <2>2, <2>3, <2>4, <2>5 DEF Owned
<1>9. QED
  <2>1. call.script # NoScript \/ call.snap # None => call.pc \in {"act", "return", "exit"}
    BY Zenon, <1>2 DEF Holds
  <2>2. call.pc = "return" => ctx[t].ret \in {call.script.does, "zero"}
    BY Zenon, <1>2 DEF Holds
  <2>3. CASE call.pc \in {"context", "sched"}
    BY Zenon, <1>0, <1>5, <1>6, <2>3 DEF ContextMove, call
  <2>4. CASE call.pc = "proto"
    BY Zenon, <1>3, <1>7, <1>8, <2>1, <2>4 DEF ContextMove, call, Held, Guarded
  <2>5. CASE call.pc = "find"
    BY Zenon, <1>3, <1>7, <1>8, <2>1, <2>5 DEF ContextMove, call, Held, Guarded
  <2>6. CASE call.pc \in {"act", "return"}
    BY Zenon, <1>3, <1>7, <1>8, <2>2, <2>6 DEF ContextMove, call, Guarded
  <2> QED BY Zenon, <2>3, <2>4, <2>5, <2>6 DEF ContextMove, call

-----------------------------------------------------------------------------
(* The name cache.                                                          *)

Settled == PCs \ ({"probe"} \cup Filling)

\* What a call knows of its slot, while no two calls were filling it.
Knows(t, i) ==
    LET call == stack[t][i]
        slot == table[call.slot]
    IN  /\ call.pc \in {"probe"} \cup Filling => call.proto = None
        /\ call.slot \notin clash =>
              /\ call.pc = "publish" => slot.real = Real(call.func) /\ slot.proto = None
              /\ call.pc \in Settled => /\ slot.hash = call.func
                                        /\ call.real = Real(call.func)
                                        /\ call.proto \in {None, Proto(call.func)}

\* A published slot answers for its name and nobody is filling it; an empty one
\* is filled by one call at most.
Published(n) ==
    n \notin clash /\ table[n].hash # None =>
        /\ table[n].real = Real(table[n].hash)
        /\ table[n].proto \in {None, Proto(table[n].hash)}
        /\ ~Filled(n)
OneFiller ==
    \A t, u \in Threads : \A i \in DOMAIN stack[t], j \in DOMAIN stack[u] :
        /\ stack[t][i].pc \in Filling /\ stack[u][j].pc \in Filling
        /\ stack[t][i].slot = stack[u][j].slot /\ stack[t][i].slot \notin clash
        => t = u /\ i = j
Resolved ==
    /\ \A n \in Slots : Published(n)
    /\ \A t \in Threads : \A i \in DOMAIN stack[t] : Knows(t, i)
    /\ OneFiller

\* A step of a call past the name cache: only slot_proto writes to the slot,
\* and what it writes is the name's own prototype.
LEMMA ResolvedContext ==
    ASSUME Types, Resolved, NEW t \in Threads, stack[t] # <<>>, NEW c \in Call,
           SetTop(t, c), ContextMove(t, Top(t), c)
    PROVE  Resolved'
<1> DEFINE call == Top(t)
<1>0. PICK n \in Nat : n = Len(stack[t])
  BY TopIs
<1>1. /\ \A u \in Threads : DOMAIN stack'[u] = DOMAIN stack[u]
      /\ n \in DOMAIN stack[t]
      /\ \A u \in Threads : \A i \in DOMAIN stack[u] :
            stack'[u][i] = IF u = t /\ i = n THEN c ELSE stack[u][i]
  BY <1>0, TopEdit
<1>2. call = stack[t][n] /\ Knows(t, n)
  BY Zenon, <1>0, <1>1 DEF Top, Resolved
<1>3. /\ call.pc \in Settled /\ c.pc \in Settled /\ c.slot = call.slot
      /\ c.func = call.func /\ c.real = call.real /\ clash' = clash
  BY Zenon DEF ContextMove, Settled, PCs, Filling, Guarded
<1>4. /\ table \in [Slots -> Slot] /\ c.slot \in Slots /\ c.func \in Funcs
      /\ table[c.slot] \in Slot
  BY Zenon DEF Types, Call
<1> HIDE DEF call
<1>5. /\ \A m \in Slots : /\ table'[m].hash = table[m].hash
                          /\ table'[m].real = table[m].real
                          /\ table'[m].proto = table[m].proto \/ m = c.slot
      /\ c.slot \notin clash => /\ c.proto \in {None, Proto(c.func)}
                                /\ table'[c.slot].proto \in {None, Proto(c.func)}
  <2>1. c.slot \notin clash => /\ table[c.slot].hash = c.func
                               /\ call.proto \in {None, Proto(c.func)}
    BY Zenon, <1>2, <1>3 DEF Knows
  <2>2. c.slot \notin clash => table[c.slot].proto \in {None, Proto(c.func)}
    BY Zenon, <1>4, <2>1, FuncsAssumption DEF Resolved, Published, None
  <2>3. CASE c.proto = call.proto /\ table' = table
    BY Zenon, <2>1, <2>2, <2>3
  <2>4. CASE /\ c.proto = IF table[c.slot].proto # None THEN table[c.slot].proto
                                                       ELSE Proto(c.func)
             /\ table' = [table EXCEPT ![c.slot] = [@ EXCEPT !.proto = c.proto]]
    <3>1. c.slot \notin clash => c.proto \in {None, Proto(c.func)}
      BY Zenon, <2>2, <2>4
    <3> DEFINE e == [table[c.slot] EXCEPT !.proto = c.proto]
    <3>2. /\ e.hash = table[c.slot].hash /\ e.real = table[c.slot].real
          /\ e.proto = c.proto
      BY Zenon, <1>4 DEF Slot
    <3>3. table' = [table EXCEPT ![c.slot] = e]
      BY Zenon, <2>4
    <3> HIDE DEF e
    <3> QED BY Zenon, <1>4, <3>1, <3>2, <3>3
  <2> QED BY Zenon, <2>3, <2>4 DEF ContextMove, call
<1>6. \A m \in Slots : Filled(m)' => Filled(m)
  BY <1>1, <1>2, <1>3 DEF Filled, Settled
<1>7. ASSUME NEW m \in Slots PROVE Published(m)'
  <2>1. Published(m)
    BY Zenon DEF Resolved
  <2>2. m = c.slot /\ m \notin clash => table[m].hash = c.func
    BY Zenon, <1>2, <1>3 DEF Knows
  <2> QED BY Zenon, <1>3, <1>5, <1>6, <2>1, <2>2 DEF Published
<1>8. ASSUME NEW u \in Threads, NEW i \in DOMAIN stack'[u] PROVE Knows(u, i)'
  <2>1. CASE u = t /\ i = n
    <3>1. stack'[u][i] = c
      BY Zenon, <1>1, <1>8, <2>1
    <3>2. c.pc # "publish" /\ c.pc \notin {"probe"} \cup Filling
      BY Zenon, <1>3 DEF Settled, Filling
    <3> QED BY Zenon, <1>2, <1>3, <1>4, <1>5, <3>1, <3>2 DEF Knows
  <2>2. CASE ~(u = t /\ i = n)
    <3> DEFINE d == stack[u][i]
    <3>1. stack'[u][i] = d /\ i \in DOMAIN stack[u] /\ Knows(u, i)
      BY Zenon, <1>1, <1>8, <2>2 DEF Resolved
    <3>2. d \in Call /\ d.slot \in Slots
      BY Zenon, <3>1, CallAt
    <3>3. d.pc = "publish" /\ d.slot \notin clash => d.slot # c.slot
      <4> SUFFICES ASSUME d.pc = "publish", d.slot \notin clash, d.slot = c.slot
                   PROVE  FALSE
        BY Zenon
      <4>1. Filled(d.slot)
        BY Zenon, <3>1 DEF Filled, Filling
      <4>2. table[d.slot].hash = c.func /\ c.func # None
        BY Zenon, <1>2, <1>3, <1>4, FuncsAssumption DEF Knows, None
      <4> QED BY Zenon, <3>2, <4>1, <4>2 DEF Resolved, Published
    <3> HIDE DEF d
    <3> QED BY Zenon, <1>3, <1>5, <3>1, <3>2, <3>3 DEF Knows, d
  <2> QED BY Zenon, <2>1, <2>2
<1>9. OneFiller'
  <2>1. c.pc \notin Filling
    BY Zenon, <1>3 DEF Settled
  <2> QED BY <1>1, <1>3, <2>1 DEF Resolved, OneFiller
<1> QED BY Zenon, <1>7, <1>8, <1>9 DEF Resolved

\* A step of the name cache.
LEMMA ResolvedCache ==
    ASSUME Types, Resolved, NEW t \in Threads, stack[t] # <<>>, NEW c \in Call,
           SetTop(t, c), CacheMove(Top(t), c)
    PROVE  Resolved'
<1> DEFINE call == Top(t)
<1>0. PICK n \in Nat : n = Len(stack[t])
  BY Zenon, TopIs
<1>1. /\ \A u \in Threads : DOMAIN stack'[u] = DOMAIN stack[u]
      /\ n \in DOMAIN stack[t]
      /\ \A u \in Threads : \A i \in DOMAIN stack[u] :
            stack'[u][i] = IF u = t /\ i = n THEN c ELSE stack[u][i]
  BY <1>0, TopEdit
<1>2. call = stack[t][n] /\ Knows(t, n)
  BY Zenon, <1>0, <1>1 DEF Top, Resolved
<1>3. /\ table \in [Slots -> Slot] /\ c.slot \in Slots /\ c.func \in Funcs
      /\ table[c.slot] \in Slot /\ c.func # None
  BY Zenon, FuncsAssumption DEF Types, Call, None
<1>4. c.func = call.func /\ c.proto = None /\ call.pc \in {"probe"} \cup Filling
  BY <1>2 DEF CacheMove, Knows, Filling
\* The other calls, and what is left of the invariant to show for each.
<1> DEFINE Other(u, i) == u \in Threads /\ i \in DOMAIN stack[u] /\ ~(u = t /\ i = n)
<1>5. \A u, i : Other(u, i) => stack'[u][i] = stack[u][i] /\ Knows(u, i)
  BY Zenon, <1>1 DEF Resolved
<1>6. Knows(t, n)' /\ (\A u, i : Other(u, i) => Knows(u, i)')
      => \A u \in Threads : \A i \in DOMAIN stack'[u] : Knows(u, i)'
  BY Zenon, <1>1
<1> HIDE DEF call
\* The slot a call is filling is its own.
<1>7. ASSUME call.pc \in Filling, c.slot = call.slot, c.slot \notin clash
      PROVE  /\ table[c.slot].hash = None
             /\ \A u, i : Other(u, i) /\ stack[u][i].slot = c.slot
                          => stack[u][i].pc = "probe"
  <2>1. Filled(c.slot)
    BY Zenon, <1>1, <1>2, <1>7 DEF Filled
  <2>2. table[c.slot].hash = None
    BY Zenon, <1>3, <1>7, <2>1 DEF Resolved, Published
  <2>3. ASSUME NEW u, NEW i, Other(u, i), stack[u][i].slot = c.slot
        PROVE  stack[u][i].pc = "probe"
    <3>1. stack[u][i].pc \notin Filling
      BY <1>1, <1>2, <1>7, <2>3 DEF Resolved, OneFiller
    <3>2. stack[u][i].pc \notin Settled
      <4>1. stack[u][i].func # None
        BY Zenon, <2>3, CallAt, FuncsAssumption DEF None
      <4> QED BY <1>5, <1>7, <2>2, <2>3, <4>1 DEF Knows
    <3>3. stack[u][i].pc \in PCs
      BY Zenon, <2>3, CallAt
    <3> QED BY Zenon, <3>1, <3>2, <3>3 DEF Settled
  <2> QED BY Zenon, <2>2, <2>3
<1>8. CASE /\ call.pc = "probe" /\ c.pc \in {"probe", "context"}
           /\ c.pc = "context" => table[c.slot].hash = c.func /\ c.real = table[c.slot].real
           /\ UNCHANGED <<table, clash>>
  <2>1. \A m \in Slots : Filled(m)' => Filled(m)
    BY <1>1, <1>8 DEF Filled, Filling
  <2>2. \A m \in Slots : Published(m)'
    BY Zenon, <1>8, <2>1 DEF Resolved, Published
  <2>3. Knows(t, n)'
    <3>1. stack'[t][n] = c /\ c.pc # "publish" /\ (c.pc = "probe" \/ c.pc = "context")
      BY Zenon, <1>1, <1>8
    <3>2. c.pc = "context" /\ c.slot \notin clash
              => table[c.slot].hash = c.func /\ c.real = Real(c.func)
      BY Zenon, <1>3, <1>8 DEF Resolved, Published
    <3> QED BY Zenon, <1>4, <1>8, <3>1, <3>2 DEF Knows, Settled
  <2>4. \A u, i : Other(u, i) => Knows(u, i)'
    BY <1>5, <1>8 DEF Knows
  <2>5. OneFiller'
    BY <1>1, <1>8 DEF Resolved, OneFiller, Filling
  <2> QED BY Zenon, <1>6, <2>2, <2>3, <2>4, <2>5 DEF Resolved
<1>9. CASE /\ call.pc = "probe" /\ c.pc = "copy" /\ table[c.slot].hash = None
           /\ clash' = IF Filled(c.slot) THEN clash \cup {c.slot} ELSE clash
           /\ UNCHANGED table
  <2>1. \A m \in Slots \ {c.slot} : Filled(m)' => Filled(m)
    BY <1>1 DEF Filled
  <2>2. clash \subseteq clash'
    BY Zenon, <1>9
  <2>3. \A m \in Slots : Published(m)'
    BY Zenon, <1>9, <2>1, <2>2 DEF Resolved, Published
  <2>4. Knows(t, n)'
    BY Zenon, <1>1, <1>4, <1>9 DEF Knows, Settled, Filling
  <2>5. \A u, i : Other(u, i) => Knows(u, i)'
    BY <1>5, <1>9, <2>2 DEF Knows
  <2>6. \A u, i : Other(u, i) /\ stack[u][i].pc \in Filling /\ stack[u][i].slot = c.slot
                  => c.slot \in clash'
    BY Zenon, <1>9 DEF Filled
  <2>7. OneFiller'
    <3> SUFFICES ASSUME NEW u \in Threads, NEW w \in Threads,
                        NEW i \in DOMAIN stack'[u], NEW j \in DOMAIN stack'[w],
                        stack'[u][i].pc \in Filling, stack'[w][j].pc \in Filling,
                        stack'[u][i].slot = stack'[w][j].slot,
                        stack'[u][i].slot \notin clash', ~(u = w /\ i = j)
                 PROVE  FALSE
      BY DEF OneFiller
    <3>1. CASE u = t /\ i = n
      <4>1. Other(w, j) /\ stack[w][j].pc \in Filling /\ stack[w][j].slot = c.slot
            /\ c.slot \notin clash'
        BY ZenonT(30), <1>1, <3>1
      <4> QED BY Zenon, <2>6, <4>1
    <3>2. CASE w = t /\ j = n
      <4>1. Other(u, i) /\ stack[u][i].pc \in Filling /\ stack[u][i].slot = c.slot
            /\ c.slot \notin clash'
        BY Zenon, <1>1, <3>2
      <4> QED BY Zenon, <2>6, <4>1
    <3>3. CASE ~(u = t /\ i = n) /\ ~(w = t /\ j = n)
      BY <1>1, <2>2, <3>3 DEF Resolved, OneFiller
    <3> QED BY Zenon, <3>1, <3>2, <3>3
  <2> QED BY <1>6, <2>3, <2>4, <2>5, <2>7 DEF Resolved
<1>10. CASE /\ call.pc \in {"copy", "fill"} /\ c.pc \in {"fill", "publish"}
            /\ c.slot = call.slot /\ UNCHANGED clash
            /\ \A m \in Slots : table'[m].hash = table[m].hash
            /\ \A m \in Slots \ {c.slot} : table'[m] = table[m]
            /\ c.pc = "publish" => /\ table'[c.slot].real = Real(c.func)
                                   /\ table'[c.slot].proto = None
  <2>1. \A m \in Slots : Filled(m)' => Filled(m)
    BY <1>1, <1>2, <1>10 DEF Filled, Filling
  <2>2. c.slot \notin clash => table[c.slot].hash = None
    BY Zenon, <1>7, <1>10 DEF Filling
  <2>3. ASSUME NEW m \in Slots PROVE Published(m)'
    <3>1. CASE m = c.slot
      BY Zenon, <1>10, <2>2, <3>1 DEF Published
    <3>2. CASE m # c.slot
      BY Zenon, <1>10, <2>1, <3>2 DEF Resolved, Published
    <3> QED BY Zenon, <3>1, <3>2
  <2>4. Knows(t, n)'
    BY Zenon, <1>1, <1>4, <1>10 DEF Knows, Settled, Filling
  <2>5. ASSUME NEW u, NEW i, Other(u, i) PROVE Knows(u, i)'
    <3> DEFINE d == stack[u][i]
    <3>1. stack'[u][i] = d /\ Knows(u, i) /\ d.slot \in Slots
      BY Zenon, <1>5, <2>5, CallAt
    <3>2. CASE d.slot # c.slot
      BY <1>10, <3>1, <3>2 DEF Knows
    <3>3. CASE d.slot = c.slot
      <4>1. d.slot \notin clash => d.pc = "probe"
        BY Zenon, <1>7, <1>10, <2>5, <3>3 DEF Filling
      <4> QED BY Zenon, <1>10, <3>1, <3>3, <4>1 DEF Knows, Settled
    <3> QED BY Zenon, <3>2, <3>3
  <2>6. OneFiller'
    BY <1>1, <1>2, <1>10 DEF Resolved, OneFiller, Filling
  <2> QED BY Zenon, <1>6, <2>3, <2>4, <2>5, <2>6 DEF Resolved
<1>11. CASE /\ call.pc = "publish" /\ c.pc = "context"
            /\ c.slot = call.slot /\ UNCHANGED clash /\ c.real = Real(c.func)
            /\ \A m \in Slots \ {c.slot} : table'[m] = table[m]
            /\ table'[c.slot].hash = c.func
            /\ table'[c.slot].real = table[c.slot].real
            /\ table'[c.slot].proto = table[c.slot].proto
  <2>1. c.pc \notin Filling /\ c.pc \in Settled
    BY Zenon, <1>11 DEF Filling, Settled, PCs
  <2>2. \A m \in Slots : Filled(m)' => Filled(m)
    BY <1>1, <2>1 DEF Filled
  <2>3. c.slot \notin clash => /\ table[c.slot].real = Real(c.func)
                               /\ table[c.slot].proto = None
    BY Zenon, <1>2, <1>4, <1>11 DEF Knows
  <2>4. c.slot \notin clash => ~Filled(c.slot)'
    <3> SUFFICES ASSUME c.slot \notin clash, NEW u \in Threads, NEW i \in DOMAIN stack'[u],
                        stack'[u][i].slot = c.slot, stack'[u][i].pc \in Filling
                 PROVE  FALSE
      BY Zenon, <1>1 DEF Filled
    <3>1. Other(u, i) /\ stack[u][i].slot = c.slot /\ stack[u][i].pc \in Filling
      BY <1>1, <2>1
    <3> QED BY Zenon, <1>7, <1>11, <3>1 DEF Filling
  <2>5. ASSUME NEW m \in Slots PROVE Published(m)'
    <3>1. CASE m = c.slot
      BY Zenon, <1>11, <2>3, <2>4, <3>1 DEF Published
    <3>2. CASE m # c.slot
      BY Zenon, <1>11, <2>2, <3>2 DEF Resolved, Published
    <3> QED BY <3>1, <3>2
  <2>6. Knows(t, n)'
    BY Zenon, <1>1, <1>4, <1>11, <2>1 DEF Knows
  <2>7. ASSUME NEW u, NEW i, Other(u, i) PROVE Knows(u, i)'
    <3> DEFINE d == stack[u][i]
    <3>1. stack'[u][i] = d /\ Knows(u, i) /\ d.slot \in Slots
      BY <1>5, <2>7, CallAt
    <3>2. CASE d.slot # c.slot
      BY Zenon, <1>11, <3>1, <3>2 DEF Knows
    <3>3. CASE d.slot = c.slot
      <4>1. d.slot \notin clash => d.pc = "probe"
        BY Zenon, <1>7, <1>11, <2>7, <3>3 DEF Filling
      <4> QED BY Zenon, <1>11, <3>1, <3>3, <4>1 DEF Knows, Settled
    <3> QED BY <3>2, <3>3
  <2>8. OneFiller'
    BY <1>1, <1>11, <2>1 DEF Resolved, OneFiller
  <2> QED BY <1>6, <2>5, <2>6, <2>7, <2>8 DEF Resolved
<1> QED
  <2> DEFINE e == table[c.slot]
  <2>1. /\ [e EXCEPT !.name = c.func].hash = e.hash
        /\ [e EXCEPT !.real = Real(c.func), !.proto = None].hash = e.hash
        /\ [e EXCEPT !.real = Real(c.func), !.proto = None].real = Real(c.func)
        /\ [e EXCEPT !.real = Real(c.func), !.proto = None].proto = None
        /\ [e EXCEPT !.hash = c.func].hash = c.func
        /\ [e EXCEPT !.hash = c.func].real = e.real
        /\ [e EXCEPT !.hash = c.func].proto = e.proto
    BY Zenon, <1>3 DEF Slot
  <2>2. ASSUME NEW x, table' = [table EXCEPT ![c.slot] = x]
        PROVE  table'[c.slot] = x /\ \A m \in Slots \ {c.slot} : table'[m] = table[m]
    BY Zenon, <1>3, <2>2
  <2>3. CASE call.pc = "probe"
    BY Zenon, <1>8, <1>9, <2>3 DEF CacheMove, call
  <2>4. CASE call.pc = "copy"
    <3>1. /\ c.pc = "fill" /\ c.slot = call.slot /\ UNCHANGED clash
          /\ table' = [table EXCEPT ![c.slot] = [e EXCEPT !.name = c.func]]
      BY Zenon, <2>4 DEF CacheMove, call
    <3> QED BY <1>10, <2>1, <2>2, <2>4, <3>1
  <2>5. CASE call.pc = "fill"
    <3>1. /\ c.pc = "publish" /\ c.slot = call.slot /\ UNCHANGED clash
          /\ table' = [table EXCEPT ![c.slot] =
                         [e EXCEPT !.real = Real(c.func), !.proto = None]]
      BY Zenon, <2>5 DEF CacheMove, call
    <3> DEFINE x == [e EXCEPT !.real = Real(c.func), !.proto = None]
    <3>2. table' = [table EXCEPT ![c.slot] = x]
      BY Zenon, <3>1
    <3>3. x.hash = e.hash /\ x.real = Real(c.func) /\ x.proto = None
      BY Zenon, <2>1
    <3> HIDE DEF x
    <3>4. table'[c.slot] = x /\ \A m \in Slots \ {c.slot} : table'[m] = table[m]
      BY Zenon, <2>2, <3>2
    <3> QED BY Zenon, <1>10, <2>5, <3>1, <3>3, <3>4
  <2>6. CASE call.pc = "publish"
    <3>1. /\ c.pc = "context" /\ c.slot = call.slot /\ UNCHANGED clash
          /\ c.real = Real(c.func)
          /\ table' = [table EXCEPT ![c.slot] = [e EXCEPT !.hash = c.func]]
      BY Zenon, <2>6 DEF CacheMove, call
    <3> QED BY Zenon, <1>11, <2>1, <2>2, <2>6, <3>1
  <2> QED BY Zenon, <1>4, <2>3, <2>4, <2>5, <2>6 DEF Filling

-----------------------------------------------------------------------------
(* Calls come and go.                                                       *)

\* A nested call finds the guard where it is and disturbs nobody's slot.
LEMMA EnterKeeps ==
    ASSUME Types, Owned, Resolved, NEW t \in Threads, NEW f \in Funcs,
           NEW x \in Callers, Enter(t, f, x)
    PROVE  Types' /\ Owned' /\ Resolved'
<1> DEFINE c == NewCall(f, x)
<1>0. PICK n \in Nat : n = Len(stack[t])
  BY DEF Types
<1>1. /\ UNCHANGED <<opts, conf, snapshot, table, ctx, clash>> /\ n < opts.depth
      /\ stack' = [stack EXCEPT ![t] = Append(@, c)]
  BY Zenon, <1>0 DEF Enter
<1>2. c \in Call
  <2>1. "probe" \in PCs /\ None \in Rets /\ NoScript \in Found /\ Home[f] \in Slots
    BY Zenon, SizeAssumption DEF PCs, Rets, Found, Slots
  <2> QED BY Zenon, <2>1 DEF NewCall, Call
<1>3. /\ c.pc = "probe" /\ c.script = NoScript /\ c.snap = None /\ c.proto = None
  BY Zenon DEF NewCall
<1> HIDE DEF c
<1>4. /\ stack' \in [Threads -> Seq(Call)]
      /\ \A u \in Threads : DOMAIN stack[u] = 1 .. Len(stack[u])
      /\ \A u \in Threads : DOMAIN stack'[u] = 1 .. Len(stack'[u])
      /\ Len(stack'[t]) = n + 1 /\ stack'[t][n + 1] = c
      /\ \A i \in 1 .. n : stack'[t][i] = stack[t][i]
      /\ \A u \in Threads \ {t} : stack'[u] = stack[u]
  BY Zenon, <1>0, <1>1, <1>2, Pushed
<1>5. /\ \A u \in Threads : \A i \in DOMAIN stack'[u] :
            \/ u = t /\ i = n + 1 /\ stack'[u][i] = c
            \/ i \in DOMAIN stack[u] /\ stack'[u][i] = stack[u][i]
  BY <1>0, <1>4
<1>6. Types'
  <2>1. \A u \in Threads : Len(stack'[u]) <= opts'.depth
    BY <1>1, <1>4, OptionsAssumption DEF Types
  <2>2. \A u \in Threads : \A i \in DOMAIN stack'[u] :
          stack'[u][i].pc = "find" => stack'[u][i].list \in Lists
    BY Zenon, <1>3, <1>5 DEF Types
  <2> QED BY Zenon, <1>1, <1>4, <2>1, <2>2 DEF Types
<1>7. Owned'
  <2>1. ASSUME NEW u \in Threads, NEW i \in DOMAIN stack'[u] PROVE Holds(u, i)'
    <3>1. CASE u = t /\ i = n + 1 /\ stack'[u][i] = c
      <4>1. ctx[t].guard # n + 1
        <5>1. ctx[t].guard \in {0 - 1} \cup 0 .. n
          BY Zenon, <1>0 DEF Owned, ForGood
        <5> QED BY <5>1
      <4> QED BY Zenon, <1>1, <1>3, <3>1, <4>1 DEF Holds, Guarded
    <3>2. CASE i \in DOMAIN stack[u] /\ stack'[u][i] = stack[u][i]
      <4>1. Holds(u, i) /\ ctx' = ctx
        BY Zenon, <1>1, <3>2 DEF Owned
      <4> QED BY Zenon, <3>2, <4>1 DEF Holds
    <3> QED BY Zenon, <1>5, <2>1, <3>1, <3>2
  <2>2. \A u \in Threads : 0 .. Len(stack[u]) \subseteq 0 .. Len(stack'[u])
    BY SMTT(30), <1>0, <1>4
  <2> QED BY Zenon, <1>1, <2>1, <2>2 DEF Owned
<1>8. Resolved'
  <2>1. \A m \in Slots : Filled(m)' => Filled(m)
    BY Zenon, <1>3, <1>5 DEF Filled, Filling
  <2>2. \A m \in Slots : Published(m)'
    BY Zenon, <1>1, <2>1 DEF Resolved, Published
  <2>3. ASSUME NEW u \in Threads, NEW i \in DOMAIN stack'[u] PROVE Knows(u, i)'
    <3>1. CASE u = t /\ i = n + 1 /\ stack'[u][i] = c
      BY Zenon, <1>3, <3>1 DEF Knows, Settled
    <3>2. CASE i \in DOMAIN stack[u] /\ stack'[u][i] = stack[u][i]
      <4>1. Knows(u, i) /\ table' = table /\ clash' = clash
        BY Zenon, <1>1, <3>2 DEF Resolved
      <4> QED BY Zenon, <3>2, <4>1 DEF Knows
    <3> QED BY Zenon, <1>5, <2>3, <3>1, <3>2
  <2>4. OneFiller'
    BY <1>1, <1>3, <1>5 DEF Resolved, OneFiller, Filling
  <2> QED BY Zenon, <2>2, <2>3, <2>4 DEF Resolved
<1> QED BY Zenon, <1>6, <1>7, <1>8

\* A call that leaves holds nothing.
LEMMA LeaveKeeps ==
    ASSUME Types, Owned, Resolved, NEW t \in Threads, Leave(t)
    PROVE  /\ Types' /\ Owned' /\ Resolved'
           /\ \A u \in Threads : \A i \in DOMAIN stack'[u] :
                 i \in DOMAIN stack[u] /\ stack'[u][i] = stack[u][i]
<1>0. PICK n \in Nat : n = Len(stack[t])
  BY DEF Types
<1>1. /\ UNCHANGED <<opts, conf, snapshot, table, ctx, clash>>
      /\ stack[t] # <<>> /\ Top(t).pc = "exit"
      /\ stack' = [stack EXCEPT ![t] = SubSeq(@, 1, Len(@) - 1)]
  BY Zenon DEF Leave, At
<1>2. /\ stack' \in [Threads -> Seq(Call)] /\ n # 0
      /\ \A u \in Threads : DOMAIN stack[u] = 1 .. Len(stack[u])
      /\ \A u \in Threads : DOMAIN stack'[u] = 1 .. Len(stack'[u])
      /\ Len(stack'[t]) = n - 1
      /\ \A i \in 1 .. n - 1 : stack'[t][i] = stack[t][i]
      /\ \A u \in Threads \ {t} : stack'[u] = stack[u]
  BY Zenon, <1>0, <1>1, Popped
<1>3. \A u \in Threads : \A i \in DOMAIN stack'[u] :
         i \in DOMAIN stack[u] /\ stack'[u][i] = stack[u][i]
  BY <1>0, <1>2
<1>4. Types'
  <2>1. \A u \in Threads : Len(stack'[u]) <= opts'.depth
    BY <1>0, <1>1, <1>2, OptionsAssumption DEF Types
  <2>2. \A u \in Threads : \A i \in DOMAIN stack'[u] :
          stack'[u][i].pc = "find" => stack'[u][i].list \in Lists
    BY Zenon, <1>3 DEF Types
  <2> QED BY Zenon, <1>1, <1>2, <2>1, <2>2 DEF Types
<1>5. Owned'
  <2>1. ASSUME NEW u \in Threads, NEW i \in DOMAIN stack'[u] PROVE Holds(u, i)'
    <3>1. i \in DOMAIN stack[u] /\ stack'[u][i] = stack[u][i] /\ ctx'[u] = ctx[u]
      BY Zenon, <1>1, <1>3, <2>1
    <3>2. Holds(u, i)
      BY Zenon, <3>1 DEF Owned
    <3> QED BY Zenon, <3>1, <3>2 DEF Holds
  <2>2. ctx[t].guard # n
    <3>1. n \in DOMAIN stack[t] /\ stack[t][n].pc = "exit"
      BY <1>0, <1>1, <1>2 DEF Top
    <3> QED BY Zenon, <3>1 DEF Owned, Holds, Guarded
  <2>3. ctx[t].guard \in {ForGood} \cup 0 .. n - 1
    <3>1. ctx[t].guard \in {ForGood} \cup 0 .. n
      BY Zenon, <1>0 DEF Owned
    <3> QED BY <2>2, <3>1
  <2>4. \A u \in Threads : ctx[u].guard \in {ForGood} \cup 0 .. Len(stack'[u])
    BY Zenon, <1>2, <2>3 DEF Owned
  <2> QED BY Zenon, <1>1, <2>1, <2>4 DEF Owned
<1>6. Resolved'
  <2>1. \A m \in Slots : Filled(m)' => Filled(m)
    BY <1>3 DEF Filled
  <2>2. \A m \in Slots : Published(m)'
    BY Zenon, <1>1, <2>1 DEF Resolved, Published
  <2>3. ASSUME NEW u \in Threads, NEW i \in DOMAIN stack'[u] PROVE Knows(u, i)'
    <3>1. i \in DOMAIN stack[u] /\ stack'[u][i] = stack[u][i]
      BY Zenon, <1>3, <2>3
    <3>2. Knows(u, i) /\ table' = table /\ clash' = clash
      BY Zenon, <1>1, <3>1 DEF Resolved
    <3> QED BY Zenon, <3>1, <3>2 DEF Knows
  <2>4. OneFiller'
    BY <1>1, <1>3 DEF Resolved, OneFiller
  <2> QED BY Zenon, <2>2, <2>3, <2>4 DEF Resolved
<1> QED BY Zenon, <1>3, <1>4, <1>5, <1>6

-----------------------------------------------------------------------------
(* The resolver.                                                            *)

INSTANCE WellFoundedInduction
INSTANCE FiniteSetTheorems

\* The first of the hits.
LEMMA LeastOf ==
    ASSUME NEW S \in SUBSET Nat, S # {}
    PROVE  Least(S) \in S /\ \A y \in S : Least(S) <= y
<1> DEFINE R == OpToRel(<, Nat)
<1>1. IsWellFoundedOn(R, Nat)
  BY Zenon, NatLessThanWellFounded
<1>2. \A x, y \in Nat : x < y => <<x, y>> \in R
  BY Zenon DEF OpToRel
<1> HIDE DEF R
<1>3. PICK x \in S : \A y \in S : ~(<<y, x>> \in R)
  <2>1. S \subseteq Nat /\ S # {}
    BY Zenon
  <2> QED BY Zenon, <1>1, <2>1, WFMin
<1>4. \A y \in S : x <= y
  <2> SUFFICES ASSUME NEW y \in S, ~(x <= y) PROVE FALSE
    BY Zenon
  <2>1. x \in Nat /\ y \in Nat /\ y < x
    OBVIOUS
  <2> QED BY Zenon, <1>2, <1>3, <2>1
<1> QED BY Zenon, <1>3, <1>4 DEF Least

\* What FirstOf returns: a script of the list that is a hit with no hit before
\* it, or no script when there is no hit.
LEMMA FirstOfIs ==
    ASSUME NEW list \in Seq(Script), NEW hits \in SUBSET DOMAIN list
    PROVE  /\ FirstOf(list, hits) \in Found
           /\ hits = {} => FirstOf(list, hits) = NoScript
           /\ hits # {} => /\ FirstOf(list, hits) \in Script
                          /\ Least(hits) \in hits /\ \A i \in hits : Least(hits) <= i
                          /\ FirstOf(list, hits) = list[Least(hits)]
<1>1. CASE hits = {}
  <2>1. FirstOf(list, hits) = NoScript
    BY Zenon, <1>1 DEF FirstOf
  <2> QED BY Zenon, <1>1, <2>1 DEF Found
<1>2. CASE hits # {}
  <2>1. hits \in SUBSET Nat
    OBVIOUS
  <2>2. Least(hits) \in hits /\ \A i \in hits : Least(hits) <= i
    BY Zenon, <1>2, <2>1, LeastOf
  <2>3. list[Least(hits)] \in Script
    BY <2>2
  <2> QED BY Zenon, <1>2, <2>2, <2>3 DEF FirstOf, Found
<1> QED BY Zenon, <1>1, <1>2

\* retrace_script_find answers with a script or with none.
LEMMA FindTypes ==
    ASSUME NEW snap \in Seq(Script), NEW list \in Seq(Script), NEW f, NEW addr
    PROVE  retrace_script_find(snap, list, f, addr) \in Found
<1> DEFINE A == {i \in Indexed(snap) : snap[i].func = f}
           B == {i \in DOMAIN list : Stops(list[i], f, addr)}
           C == {i \in DOMAIN list : Candidate(list[i], f, addr)}
<1>1. A \in SUBSET DOMAIN snap /\ B \in SUBSET DOMAIN list /\ C \in SUBSET DOMAIN list
  BY Zenon DEF Indexed
<1> HIDE DEF A, B, C
<1>2. FirstOf(snap, A) \in Found /\ FirstOf(list, B) \in Found /\ FirstOf(list, C) \in Found
  BY Zenon, <1>1, FirstOfIs
<1> QED BY Zenon, <1>2 DEF retrace_script_find, Lookup, Scan, A, B, C

\* The prototype and the script are looked up.
LEMMA FindMoves ==
    ASSUME Types, NEW t \in Threads, FindPrototype(t) \/ FindScript(t)
    PROVE  /\ stack[t] # <<>> /\ UNCHANGED <<opts, conf, snapshot>> /\ Types'
           /\ \E c \in Call : SetTop(t, c) /\ ContextMove(t, Top(t), c)
<1> DEFINE call == Top(t)
<1>1. /\ stack[t] # <<>> /\ UNCHANGED <<opts, conf, snapshot, clash>>
  BY Zenon DEF FindPrototype, FindScript, At
<1>2. /\ call \in Call /\ call.slot \in Slots /\ call.func \in Funcs
      /\ table \in [Slots -> Slot] /\ table[call.slot] \in Slot
      /\ ctx \in [Threads -> Context] /\ ctx[t] \in Context
      /\ ctx[t].ret_addr = "null"
      /\ {"exit", "find", "act"} \subseteq PCs
  BY Zenon, <1>1, Before
<1>3. Cleared \in Context
  BY Zenon, Contexts
<1>4. conf \in Lists /\ snapshot \in Lists
  BY Zenon DEF Types
<1>5. SUFFICES \E c \in Call : /\ SetTop(t, c) /\ ContextMove(t, call, c)
                               /\ table' \in [Slots -> Slot]
                               /\ c.pc = "find" => c.list \in Lists
  <2>1. ASSUME NEW c \in Call, SetTop(t, c), ContextMove(t, call, c),
               table' \in [Slots -> Slot], c.pc = "find" => c.list \in Lists
        PROVE  Types'
    <3>1. ctx' \in [Threads -> Context]
      BY Zenon, <2>1 DEF ContextMove
    <3> QED BY Zenon, <1>1, <2>1, <3>1, TopStep
  <2> QED BY Zenon, <1>1, <2>1
<1>6. call.pc = "find" => call.list \in Lists
  BY Zenon, <1>1, TopIs DEF Types
<1> HIDE DEF call
<1>7. CASE FindPrototype(t)
  <2> DEFINE proto == IF table[call.slot].proto # None THEN table[call.slot].proto
                      ELSE Proto(call.func)
  <2>1. proto \in Funcs \cup {None}
    BY Zenon, <1>2 DEF Slot, Proto
  <2>2. call.pc = "proto" /\ table' = [table EXCEPT ![call.slot] = [@ EXCEPT !.proto = proto]]
    BY Zenon, <1>7 DEF FindPrototype, At, call
  <2>3. table' \in [Slots -> Slot]
    <3>1. [table[call.slot] EXCEPT !.proto = proto] \in Slot
      BY Zenon, <1>2, <2>1, SlotEdits
    <3> QED BY Zenon, <1>2, <2>2, <3>1
  <2>4. CASE /\ SetTop(t, [call EXCEPT !.pc = "exit", !.proto = proto])
             /\ ctx' = [ctx EXCEPT ![t] = Cleared]
    <3> DEFINE c == [call EXCEPT !.pc = "exit", !.proto = proto]
    <3> HIDE DEF proto
    <3>1. c \in Call
      BY Zenon, <1>2, <2>1 DEF Call
    <3>2. /\ c.func = call.func /\ c.slot = call.slot /\ c.real = call.real
          /\ c.proto = proto /\ c.snap = call.snap /\ c.script = call.script
          /\ c.pc = "exit"
      BY Zenon, <1>2 DEF Call
    <3>3. SetTop(t, c)
      BY Zenon, <2>4
    <3>4. /\ ctx' \in [Threads -> Context] /\ ctx'[t] = Cleared
          /\ \A u \in Threads \ {t} : ctx'[u] = ctx[u]
      BY Zenon, <1>2, <1>3, <2>4
    <3> HIDE DEF c
    <3>5. ContextMove(t, call, c)
      BY Zenon, <1>1, <2>2, <3>2, <3>4 DEF ContextMove, proto
    <3> QED BY Zenon, <2>3, <3>1, <3>2, <3>3, <3>5
  <2>5. CASE /\ SetTop(t, [call EXCEPT !.pc = "find", !.proto = proto, !.list = conf])
             /\ ctx' = [ctx EXCEPT ![t].proto = proto]
    <3> DEFINE c == [call EXCEPT !.pc = "find", !.proto = proto, !.list = conf]
               x == [ctx[t] EXCEPT !.proto = proto]
    <3> HIDE DEF proto
    <3>1. c \in Call
      BY Zenon, <1>2, <1>4, <2>1 DEF Call
    <3>2. /\ c.func = call.func /\ c.slot = call.slot /\ c.real = call.real
          /\ c.proto = proto /\ c.snap = call.snap /\ c.script = call.script
          /\ c.pc = "find" /\ c.list = conf
      BY Zenon, <1>2 DEF Call
    <3>3. SetTop(t, c) /\ ctx' = [ctx EXCEPT ![t] = x]
      BY Zenon, <2>5
    <3>4. x \in Context /\ x.ret = ctx[t].ret /\ x.guard = ctx[t].guard
      BY Zenon, <1>2, <2>1 DEF Context
    <3> HIDE DEF c, x
    <3>5. /\ ctx' \in [Threads -> Context] /\ ctx'[t] = x
          /\ \A u \in Threads \ {t} : ctx'[u] = ctx[u]
      BY Zenon, <1>2, <3>3, <3>4
    <3>6. ContextMove(t, call, c)
      BY Zenon, <1>1, <2>2, <3>2, <3>4, <3>5 DEF ContextMove, proto, Held
    <3> QED BY Zenon, <1>4, <2>3, <3>1, <3>2, <3>3, <3>6
  <2> QED BY Zenon, <1>7, <2>4, <2>5 DEF FindPrototype, call
<1>8. CASE FindScript(t)
  <2>1. call.pc = "find" /\ table' = table
    BY Zenon, <1>8 DEF FindScript, At, call
  <2> DEFINE s == Answer(call)
  <2>2. s \in Found
    <3>1. opts.first \in Seq(Script) /\ opts.second \in Seq(Script)
      BY Zenon, OptionsAssumption DEF Types
    <3>2. opts[snapshot] \in Seq(Script) /\ opts[call.list] \in Seq(Script)
      BY Zenon, <1>4, <1>6, <2>1, <3>1 DEF Lists
    <3> QED BY Zenon, <3>2, FindTypes DEF Answer
  <2>3. \/ /\ s = NoScript
           /\ SetTop(t, [call EXCEPT !.pc = "exit", !.snap = snapshot])
           /\ ctx' = [ctx EXCEPT ![t] = Cleared]
        \/ /\ s # NoScript
           /\ SetTop(t, [call EXCEPT !.pc = "act", !.sched = FALSE, !.script = s,
                                     !.snap = snapshot])
           /\ UNCHANGED ctx
    BY Zenon, <1>2, <1>8 DEF FindScript, Answer, call
  <2> HIDE DEF s
  <2>4. CASE /\ s = NoScript
             /\ SetTop(t, [call EXCEPT !.pc = "exit", !.snap = snapshot])
             /\ ctx' = [ctx EXCEPT ![t] = Cleared]
    <3> DEFINE c == [call EXCEPT !.pc = "exit", !.snap = snapshot]
    <3>1. c \in Call
      BY Zenon, <1>2, <1>4 DEF Call
    <3>2. /\ c.func = call.func /\ c.slot = call.slot /\ c.real = call.real
          /\ c.proto = call.proto /\ c.list = call.list /\ c.snap = snapshot
          /\ c.script = call.script /\ c.pc = "exit"
      BY Zenon, <1>2 DEF Call
    <3>3. SetTop(t, c)
      BY Zenon, <2>4
    <3>4. /\ ctx' \in [Threads -> Context] /\ ctx'[t] = Cleared
          /\ \A u \in Threads \ {t} : ctx'[u] = ctx[u]
      BY Zenon, <1>2, <1>3, <2>4
    <3> HIDE DEF c
    <3>5. ContextMove(t, call, c)
      BY Zenon, <1>1, <2>1, <2>4, <3>2, <3>4 DEF ContextMove, s
    <3> QED BY Zenon, <1>2, <2>1, <3>1, <3>2, <3>3, <3>5
  <2>5. CASE /\ s # NoScript
             /\ SetTop(t, [call EXCEPT !.pc = "act", !.sched = FALSE, !.script = s,
                                       !.snap = snapshot])
             /\ UNCHANGED ctx
    <3> DEFINE c == [call EXCEPT !.pc = "act", !.sched = FALSE, !.script = s,
                                 !.snap = snapshot]
    <3>1. c \in Call
      BY Zenon, <1>2, <1>4, <2>2 DEF Call
    <3>2. /\ c.func = call.func /\ c.slot = call.slot /\ c.real = call.real
          /\ c.proto = call.proto /\ c.list = call.list /\ c.snap = snapshot
          /\ c.script = s /\ c.pc = "act"
      BY Zenon, <1>2 DEF Call
    <3>3. SetTop(t, c)
      BY Zenon, <2>5
    <3> HIDE DEF c
    <3>4. ContextMove(t, call, c)
      BY Zenon, <1>1, <1>2, <2>1, <2>5, <3>2 DEF ContextMove, s, Held
    <3> QED BY Zenon, <1>2, <2>1, <3>1, <3>2, <3>3, <3>4
  <2> QED BY Zenon, <2>3, <2>4, <2>5
<1> QED BY Zenon, <1>7, <1>8

-----------------------------------------------------------------------------
(* One policy.                                                              *)

\* The fast path answers with the function's own script in the list of the
\* index, the scan with the first match of its list: with the null return
\* address the context has, no caller condition is tried, and a name the full
\* index left out is found by the scan.
LEMMA FindIsOfOnePolicy ==
    ASSUME NEW snap \in Seq(Script), NEW list \in Seq(Script), NEW f \in Funcs
    PROVE  OfOnePolicy(retrace_script_find(snap, list, f, "null"), list, snap, f)
<1>1. Scan(list, f, "null") = FirstMatch(list, f)
  <2> DEFINE B == {i \in DOMAIN list : Stops(list[i], f, "null")}
             C == {i \in DOMAIN list : Candidate(list[i], f, "null")}
             M == {i \in DOMAIN list : list[i].func \in {f, "*"}}
  <2>1. \A s \in Script : eval_caller_matches(s, "null") = -1
    BY Zenon, FuncsAssumption DEF eval_caller_matches, Script
  <2>2. B = M
    BY <2>1 DEF Stops
  <2>3. C = {}
    BY Zenon DEF Candidate
  <2>4. M \in SUBSET DOMAIN list
    BY Zenon
  <2> HIDE DEF B, C, M
  <2>5. NoScript \notin Script
    <3>1. NoScript.func = None
      BY Zenon DEF NoScript
    <3>2. \A s \in Script : s.func \in Funcs \cup {"*"}
      BY Zenon DEF Script
    <3> QED BY Zenon, <3>1, <3>2, FuncsAssumption DEF None
  <2>6. FirstOf(list, M) # NoScript \/ M = {}
    BY Zenon, <2>4, <2>5, FirstOfIs
  <2>7. FirstOf(list, {}) = NoScript
    BY Zenon DEF FirstOf
  <2> QED BY Zenon, <2>2, <2>3, <2>6, <2>7 DEF Scan, FirstMatch, B, C, M
<1> DEFINE A == {i \in Indexed(snap) : snap[i].func = f}
           M == {i \in DOMAIN snap : snap[i].func = f}
<1>2. /\ A \in SUBSET DOMAIN snap /\ M \in SUBSET DOMAIN snap /\ A \subseteq M
      /\ DOMAIN snap \subseteq Nat /\ f # "*"
  BY FuncsAssumption DEF Indexed
<1>3. ASSUME NEW i \in DOMAIN snap, NEW j \in DOMAIN snap, i <= j,
             snap[i].func # "*", Cardinality(NamedUpTo(snap, j)) <= MaxEntries
      PROVE  i \in Indexed(snap)
  <2>0. i \in Nat /\ j \in Nat
    BY Zenon, <1>2
  <2>1. NamedUpTo(snap, i) \in SUBSET NamedUpTo(snap, j)
    BY <1>3, <2>0 DEF NamedUpTo
  <2>2. IsFiniteSet(1 .. j) /\ NamedUpTo(snap, j) \in SUBSET (1 .. j)
    BY <2>0, FS_Interval DEF NamedUpTo
  <2>3. IsFiniteSet(NamedUpTo(snap, j))
    BY Zenon, <2>2, FS_Subset
  <2>4. /\ Cardinality(NamedUpTo(snap, i)) <= Cardinality(NamedUpTo(snap, j))
        /\ IsFiniteSet(NamedUpTo(snap, i))
    BY Zenon, <2>1, <2>3, FS_Subset
  <2>5. /\ Cardinality(NamedUpTo(snap, i)) \in Nat
        /\ Cardinality(NamedUpTo(snap, j)) \in Nat
    BY Zenon, <2>3, <2>4, FS_CardinalityType
  <2>6. Cardinality(NamedUpTo(snap, i)) <= MaxEntries
    BY <1>3, <2>4, <2>5, SizeAssumption
  <2> QED BY Zenon, <1>3, <2>6 DEF Indexed
<1>4. ASSUME A # {}
      PROVE  /\ Lookup(snap, f) = OwnScript(snap, f) /\ Least(M) \in M
             /\ Lookup(snap, f) = snap[Least(M)] /\ \A i \in M : Least(M) <= i
  <2> DEFINE a == Least(A)
             m == Least(M)
  <2>1. /\ a \in A /\ m \in M /\ (\A i \in A : a <= i) /\ (\A i \in M : m <= i)
        /\ FirstOf(snap, A) = snap[a] /\ FirstOf(snap, M) = snap[m]
    <3> HIDE DEF A, M
    <3>1. M # {}
      BY Zenon, <1>2, <1>4
    <3> QED BY Zenon, <1>2, <1>4, <3>1, FirstOfIs
  <2>2. a \in DOMAIN snap /\ m \in DOMAIN snap /\ a \in Nat /\ m \in Nat /\ m <= a
    BY Zenon, <1>2, <2>1
  <2> HIDE DEF a, m
  <2>3. snap[m].func = f /\ Cardinality(NamedUpTo(snap, a)) <= MaxEntries
    BY Zenon, <2>1 DEF Indexed
  <2>4. m \in A
    BY Zenon, <1>2, <1>3, <2>2, <2>3
  <2>5. a = m
    BY <2>1, <2>2, <2>4
  <2>6. Lookup(snap, f) = FirstOf(snap, A) /\ OwnScript(snap, f) = FirstOf(snap, M)
    BY Zenon DEF Lookup, OwnScript
  <2> HIDE DEF A, M
  <2> QED BY Zenon, <2>1, <2>5, <2>6 DEF m
<1>5. retrace_script_find(snap, list, f, "null") \in {FirstMatch(list, f), OwnScript(snap, f)}
  <2>1. A = {} => Lookup(snap, f) = NoScript
    BY Zenon DEF Lookup, FirstOf
  <2> HIDE DEF A, M
  <2> QED BY Zenon, <1>1, <1>4, <2>1 DEF retrace_script_find
<1>6. ASSUME OwnIndexed(snap, f)
      PROVE  retrace_script_find(snap, list, f, "null").func = f
  <2>1. PICK i \in DOMAIN snap :
          /\ snap[i].func = f /\ snap[i].callers = {} /\ snap[i].addr = "any"
          /\ \A j \in DOMAIN snap : snap[j].func = f => i <= j
          /\ Cardinality(NamedUpTo(snap, i)) <= MaxEntries
    BY Zenon, <1>6 DEF OwnIndexed, NamedUpTo
  <2>2. i \in A /\ i \in M
    BY Zenon, <1>2, <2>1 DEF Indexed
  <2>3. /\ Lookup(snap, f) = snap[Least(M)] /\ Least(M) \in M /\ Least(M) <= i
        /\ i <= Least(M)
    BY Zenon, <1>4, <2>1, <2>2
  <2> HIDE DEF A
  <2>4. Least(M) = i
    BY <1>2, <2>2, <2>3
  <2> HIDE DEF M
  <2>5. snap[i] # NoScript
    <3>1. NoScript.func = None
      BY Zenon DEF NoScript
    <3> QED BY Zenon, <2>1, <3>1, FuncsAssumption DEF None
  <2> QED BY Zenon, <2>1, <2>3, <2>4, <2>5 DEF retrace_script_find
<1> QED BY Zenon, <1>5, <1>6 DEF OfOnePolicy

\* OnePolicy, call by call.
Ruled(t, i) ==
    LET call == stack[t][i]
    IN  call.snap # None
        => OfOnePolicy(call.script, opts[call.list], opts[call.snap], call.func)
Policed == \A t \in Threads : \A i \in DOMAIN stack[t] : Ruled(t, i)

\* A step of a call keeps its script to one policy.
LEMMA PolicedTop ==
    ASSUME Types, Owned, Policed, NEW t \in Threads, stack[t] # <<>>, NEW c \in Call,
           SetTop(t, c), opts' = opts,
           CacheMove(Top(t), c) \/ ContextMove(t, Top(t), c)
    PROVE  Policed'
<1> DEFINE call == Top(t)
<1>0. PICK n \in Nat : n = Len(stack[t])
  BY Zenon, TopIs
<1>1. /\ \A u \in Threads : DOMAIN stack'[u] = DOMAIN stack[u]
      /\ n \in DOMAIN stack[t]
      /\ \A u \in Threads : \A i \in DOMAIN stack[u] :
            stack'[u][i] = IF u = t /\ i = n THEN c ELSE stack[u][i]
  BY <1>0, TopEdit
<1>2. call = stack[t][n] /\ Holds(t, n) /\ Ruled(t, n)
  BY Zenon, <1>0, <1>1 DEF Top, Owned, Policed
<1>3. /\ call.snap # None => call.pc \in {"act", "return", "exit"}
      /\ call.script # NoScript => call.pc \in {"act", "return", "exit"}
  BY Zenon, <1>2 DEF Holds
<1>4. call.pc = "find" => call.list \in Lists
  BY Zenon, <1>1, <1>2 DEF Types
<1> HIDE DEF call
<1>5. SUFFICES ASSUME c.snap # None
               PROVE  OfOnePolicy(c.script, opts[c.list], opts[c.snap], c.func)
  BY <1>1 DEF Policed, Ruled
<1>6. CASE CacheMove(call, c)
  BY Zenon, <1>3, <1>5, <1>6 DEF CacheMove
<1>7. CASE ContextMove(t, call, c) /\ call.pc # "find"
  BY Zenon, <1>2, <1>3, <1>5, <1>7 DEF ContextMove, Ruled
<1>8. CASE ContextMove(t, call, c) /\ call.pc = "find"
  <2>1. opts \in OptionSet /\ snapshot \in Lists
    BY Zenon DEF Types
  <2>2. opts.first \in Seq(Script) /\ opts.second \in Seq(Script)
    BY Zenon, <2>1, OptionsAssumption
  <2>3. opts[snapshot] \in Seq(Script) /\ opts[call.list] \in Seq(Script)
    BY Zenon, <1>4, <1>8, <2>1, <2>2 DEF Lists
  <2>4. c.list = call.list /\ c.func = call.func /\ c.snap = snapshot /\ c.func \in Funcs
    BY Zenon, <1>8 DEF ContextMove, Call
  <2>5. c.script = Answer(call)
    BY Zenon, <1>3, <1>8 DEF ContextMove
  <2> QED BY Zenon, <2>3, <2>4, <2>5, FindIsOfOnePolicy DEF Answer
<1> QED BY Zenon, <1>6, <1>7, <1>8 DEF call

-----------------------------------------------------------------------------
(* The theorems.                                                            *)

IInv == Types /\ Owned /\ Resolved

\* Init satisfies the invariant.
LEMMA IInvInit ==
    ASSUME Init
    PROVE  IInv
<1>1. Types
  <2>1. EmptySlot \in Slot
    BY Zenon DEF Slot, EmptySlot
  <2>2. \A t \in Threads : stack[t] = <<>> /\ DOMAIN stack[t] = {} /\ Len(stack[t]) = 0
    BY DEF Init
  <2>3. stack \in [Threads -> Seq(Call)]
    BY DEF Init
  <2>4. ctx \in [Threads -> Context]
    BY Zenon, Contexts DEF Init
  <2> QED BY <2>1, <2>2, <2>3, <2>4, OptionsAssumption DEF Init, Types, Lists
<1>2. \A t \in Threads : DOMAIN stack[t] = {} /\ Len(stack[t]) = 0
  BY DEF Init
<1>3. Owned
  <2>1. \A t \in Threads : ctx[t].guard = IF t \in Permanent THEN ForGood ELSE 0
    BY Zenon, Contexts DEF Init
  <2> QED BY <1>2, <2>1 DEF Owned
<1>4. Resolved
  <2>1. \A n \in Slots : table[n].hash = None
    BY Zenon DEF Init, EmptySlot
  <2> QED BY Zenon, <1>2, <2>1 DEF Resolved, Published, OneFiller
<1> QED BY Zenon, <1>1, <1>3, <1>4 DEF IInv

\* Every step keeps the invariant.
LEMMA IInvStep ==
    ASSUME IInv, [Next]_vars
    PROVE  IInv'
<1> USE DEF IInv
<1>1. ASSUME NEW t \in Threads,
             Probe(t) \/ CopyName(t) \/ FillSlot(t) \/ PublishSlot(t)
      PROVE  IInv'
  BY Zenon, <1>1, CacheMoves, OwnedCache, ResolvedCache
<1>2. ASSUME NEW t \in Threads,
             \/ GetContext(t) \/ SchedAndGuard(t) \/ FindPrototype(t)
             \/ FindScript(t) \/ RunActions(t) \/ WriteBack(t)
      PROVE  IInv'
  <2>1. /\ stack[t] # <<>> /\ Types'
        /\ \E c \in Call : SetTop(t, c) /\ ContextMove(t, Top(t), c)
    BY Zenon, <1>2, GuardMoves, FindMoves, ActMoves
  <2> QED BY Zenon, <2>1, OwnedContext, ResolvedContext
<1>3. ASSUME NEW t \in opts.threads, NEW f \in opts.funcs, NEW x \in Callers,
             Enter(t, f, x)
      PROVE  IInv'
  <2>1. t \in Threads /\ f \in Funcs
    BY Zenon, OptionsAssumption DEF Types
  <2> QED BY Zenon, <1>3, <2>1, EnterKeeps
<1>4. CASE BuildIndex \/ SetConf \/ UNCHANGED vars
  <2>1. /\ UNCHANGED <<opts, table, ctx, stack, clash>>
        /\ conf' \in Lists /\ snapshot' \in Lists
    BY Zenon, <1>4 DEF BuildIndex, SetConf, vars, Types, Lists
  <2>2. Types'
    BY Zenon, <2>1 DEF Types
  <2>3. Owned'
    BY <2>1 DEF Owned, Holds
  <2>4. Resolved'
    BY <2>1 DEF Resolved, Published, Filled, Knows, OneFiller
  <2> QED BY Zenon, <2>2, <2>3, <2>4
<1> QED BY Zenon, <1>1, <1>2, <1>3, <1>4, LeaveKeeps DEF Next, Step

\* Every behaviour of the engine keeps the invariant.
THEOREM EngineInvariant == Spec => []IInv
<1>1. Init => IInv
  BY Zenon, IInvInit
<1>2. IInv /\ [Next]_vars => IInv'
  BY Zenon, IInvStep
<1> QED BY <1>1, <1>2, PTL DEF Spec

\* The guard (reentrance_guard.c): whatever calls nest in a call, and between
\* whichever of its steps, it owns the context while it holds the guard and
\* returns what its own script decided; retrace's own threads never dispatch.
THEOREM EngineContextOwned == Spec => []ContextOwned
<1>1. IInv => ContextOwned
  BY DEF IInv, Owned, Holds, ContextOwned
<1> QED BY <1>1, EngineInvariant, PTL

\* The name cache (engine.c:142-300): any number of threads and nested calls
\* probe and fill it without a lock, and a call reaches its own implementation
\* and prototype through every slot that one call filled.
THEOREM EngineOwnResolution == Spec => []OwnResolution
<1>1. IInv => OwnResolution
  <2> SUFFICES ASSUME IInv, NEW t \in Threads, NEW i \in DOMAIN stack[t],
                      stack[t][i].slot \notin clash,
                      stack[t][i].pc \notin {"probe"} \cup Filling
               PROVE  /\ stack[t][i].real = Real(stack[t][i].func)
                      /\ stack[t][i].proto \in {None, Proto(stack[t][i].func)}
    BY Zenon DEF OwnResolution, Calls
  <2>1. stack[t][i].pc \in Settled /\ Knows(t, i)
    BY Zenon, CallAt DEF IInv, Resolved, Settled
  <2> QED BY Zenon, <2>1 DEF Knows
<1> QED BY <1>1, EngineInvariant, PTL

\* A swap of the policy (retrace_agent_policy_apply) between any two steps of a
\* call gives it a script of one of the two lists, and a wildcard in front
\* takes nothing away from a function's own indexed script: for lists of any
\* length, in any order and with any conditions.
THEOREM EngineOnePolicy == Spec => []OnePolicy
<1>1. Init => Policed
  BY DEF Init, Policed
<1>2. IInv /\ Policed /\ [Next]_vars => Policed'
  <2> SUFFICES ASSUME IInv, Policed, [Next]_vars PROVE Policed'
    BY Zenon
  <2>0. Types /\ Owned /\ Resolved
    BY Zenon DEF IInv
  <2>1. ASSUME NEW t \in Threads,
               Probe(t) \/ CopyName(t) \/ FillSlot(t) \/ PublishSlot(t)
        PROVE  Policed'
    BY Zenon, <2>0, <2>1, CacheMoves, PolicedTop
  <2>2. ASSUME NEW t \in Threads,
               \/ GetContext(t) \/ SchedAndGuard(t) \/ FindPrototype(t)
               \/ FindScript(t) \/ RunActions(t) \/ WriteBack(t)
        PROVE  Policed'
    <3>1. /\ stack[t] # <<>> /\ opts' = opts
          /\ \E c \in Call : SetTop(t, c) /\ ContextMove(t, Top(t), c)
      BY Zenon, <2>0, <2>2, GuardMoves, FindMoves, ActMoves
    <3> QED BY Zenon, <2>0, <3>1, PolicedTop
  <2>3. ASSUME NEW t \in Threads, Leave(t) PROVE Policed'
    <3>1. opts' = opts /\ \A u \in Threads : \A i \in DOMAIN stack'[u] :
                             i \in DOMAIN stack[u] /\ stack'[u][i] = stack[u][i]
      BY Zenon, <2>0, <2>3, LeaveKeeps DEF Leave
    <3> QED BY <3>1 DEF Policed, Ruled
  <2>4. ASSUME NEW t \in opts.threads, NEW f \in opts.funcs, NEW x \in Callers,
               Enter(t, f, x)
        PROVE  Policed'
    <3>1. t \in Threads /\ f \in Funcs
      BY Zenon, <2>0, OptionsAssumption DEF Types
    <3>2. stack[t] \in Seq(Call) /\ stack \in [Threads -> Seq(Call)]
      BY Zenon, <2>0, <3>1 DEF Types
    <3>3. /\ opts' = opts
          /\ stack' = [stack EXCEPT ![t] = Append(stack[t], NewCall(f, x))]
      BY Zenon, <2>4 DEF Enter
    <3>4. NewCall(f, x).snap = None
      BY Zenon DEF NewCall
    <3>5. \A u \in Threads : \A i \in DOMAIN stack'[u] :
             \/ stack'[u][i] = NewCall(f, x)
             \/ i \in DOMAIN stack[u] /\ stack'[u][i] = stack[u][i]
      BY <3>1, <3>2, <3>3
    <3> QED BY <3>3, <3>4, <3>5 DEF Policed, Ruled
  <2>5. CASE BuildIndex \/ SetConf \/ UNCHANGED vars
    <3>1. opts' = opts /\ stack' = stack
      BY Zenon, <2>5 DEF BuildIndex, SetConf, vars
    <3> QED BY Zenon, <3>1 DEF Policed, Ruled
  <2> QED BY Zenon, <2>1, <2>2, <2>3, <2>4, <2>5 DEF Next, Step
<1>3. Policed => OnePolicy
  BY Zenon DEF Policed, Ruled, OnePolicy, Calls
<1> QED BY <1>1, <1>2, <1>3, EngineInvariant, PTL DEF Spec
=============================================================================
