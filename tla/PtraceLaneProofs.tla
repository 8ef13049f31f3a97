-------------------------- MODULE PtraceLaneProofs --------------------------
(***************************************************************************)
(* The syscall lane, for any calls, scripts of any length and any number   *)
(* of signals and failed register accesses: the loop's count of stops      *)
(* agrees with the kernel, and the lane agrees with the preload lane.      *)
(***************************************************************************)
EXTENDS PtraceLane, WellFoundedInduction, TLAPS

-----------------------------------------------------------------------------
(* The action runner.                                                       *)

\* A set of numbers with 0 and, with every number, the next, has them all.
LEMMA SetInduction ==
    ASSUME NEW T \in SUBSET Nat, 0 \in T, \A n \in T : n + 1 \in T
    PROVE  T = Nat
<1> DEFINE R == OpToRel(<, Nat)
<1>1. IsWellFoundedOn(R, Nat)
  BY Zenon, NatLessThanWellFounded
<1>2. \A x, y \in Nat : x < y => <<x, y>> \in R
  BY Zenon DEF OpToRel
<1> HIDE DEF R
<1> SUFFICES ASSUME Nat \ T # {} PROVE FALSE
  BY Zenon
<1>3. PICK x \in Nat \ T : \A y \in Nat \ T : ~(<<y, x>> \in R)
  BY Zenon, <1>1, WFMin
<1>4. x # 0 /\ x - 1 \in Nat /\ x - 1 < x /\ x = (x - 1) + 1
  BY <1>3
<1>5. x - 1 \in T
  BY Zenon, <1>2, <1>3, <1>4
<1> QED BY Zenon, <1>3, <1>4, <1>5

\* What is known of the context while a script runs.
Entry == [count : Nat, limit : Nat]
Context == [name : Calls, ret : Int, errno : Nat, aborted : BOOLEAN,
            runs : BOOLEAN, fails : Entry, failsRoom : BOOLEAN,
            counts : Entry, countsRoom : BOOLEAN]
Lanes == {"preload", "syscall"}

\* The edits the actions make to a context.
LEMMA Edits ==
    ASSUME NEW x \in Context, NEW r \in Int, NEW n \in Nat, NEW e \in Entry
    PROVE  /\ [x EXCEPT !.aborted = TRUE] \in Context
           /\ [x EXCEPT !.runs = TRUE, !.ret = r] \in Context
           /\ [x EXCEPT !.ret = r] \in Context
           /\ [x EXCEPT !.errno = n, !.ret = r] \in Context
           /\ [x EXCEPT !.fails = e] \in Context
           /\ [x EXCEPT !.counts = e] \in Context
BY Zenon DEF Context

\* A table's entry stays one (fail_first.c:70, call_count_limit.c:101).
LEMMA TrackedType ==
    ASSUME NEW e \in Entry, NEW n \in Nat, NEW room \in BOOLEAN
    PROVE  Tracked(e, n, room) \in Entry
BY DEF Tracked, Entry

\* The values the actions compute from a context and their parameters.
LEMMA ActValues ==
    ASSUME NEW x \in Context, NEW a \in Action, NEW lane \in Lanes
    PROVE  /\ deny_ret(x) \in Int \ {DEFERRED} /\ a.v \in Int \ {DEFERRED}
           /\ Answer(lane) \in Int /\ 0 - ECONNREFUSED \in Int
           /\ Tracked(x.fails, a.n, x.failsRoom) \in Entry
           /\ Tracked(x.counts, a.n, x.countsRoom) \in Entry
           /\ (x.ret * a.n) \div 100 \in Int
           /\ 0 \in Int \ {DEFERRED} /\ 0 \in Nat /\ Free \in Entry
<1>1. deny_ret(x) \in Int \ {DEFERRED} /\ a.v \in Int \ {DEFERRED}
  BY DEF deny_ret, Action, DEFERRED
<1>2. /\ x.fails \in Entry /\ x.counts \in Entry /\ a.n \in Nat /\ x.ret \in Int
      /\ x.failsRoom \in BOOLEAN /\ x.countsRoom \in BOOLEAN
  BY Zenon DEF Context, Action
<1>3. /\ Tracked(x.fails, a.n, x.failsRoom) \in Entry
      /\ Tracked(x.counts, a.n, x.countsRoom) \in Entry
  BY Zenon, <1>2, TrackedType
<1>4. (x.ret * a.n) \div 100 \in Int
  <2>1. x.ret * a.n \in Int
    BY <1>2
  <2> QED BY <2>1
<1>5. Answer(lane) \in Int /\ 0 - ECONNREFUSED \in Int
  BY DEF Answer, OfCall, DEFERRED, ECONNREFUSED
<1>6. 0 \in Int \ {DEFERRED} /\ 0 \in Nat /\ Free \in Entry
  BY DEF DEFERRED, Free, Entry
<1> QED BY Zenon, <1>1, <1>3, <1>4, <1>5, <1>6

\* Each action leaves a context (every action of src/core/actions does).
LEMMA ActType ==
    ASSUME NEW x \in Context, NEW a \in Action, NEW lane \in Lanes
    PROVE  Act(x, a, lane) \in Context
<1>0. /\ deny_ret(x) \in Int /\ a.v \in Int /\ Answer(lane) \in Int
      /\ 0 - ECONNREFUSED \in Int /\ (x.ret * a.n) \div 100 \in Int
      /\ Tracked(x.fails, a.n, x.failsRoom) \in Entry
      /\ Tracked(x.counts, a.n, x.countsRoom) \in Entry
      /\ 0 \in Int /\ 0 \in Nat /\ EACCES \in Nat /\ Free \in Entry
  <2>1. EACCES \in Nat
    BY DEF EACCES
  <2> QED BY Zenon, <2>1, ActValues
<1>1. Abort(x) \in Context
  BY Zenon, <1>0, Edits DEF Abort
<1>2. deny(x) \in Context /\ ia_freeze(x) \in Context
  BY Zenon, <1>0, <1>1, Edits DEF deny, ia_freeze
<1>3. ia_fail_first(x, a) \in Context
  <2> DEFINE y == [x EXCEPT !.fails = Tracked(x.fails, a.n, x.failsRoom)]
  <2>1. y \in Context
    BY Zenon, <1>0, Edits
  <2>2. Abort(y) \in Context
    BY Zenon, <1>0, <2>1, Edits DEF Abort
  <2> HIDE DEF y
  <2>3. [Abort(y) EXCEPT !.ret = a.v] \in Context
    BY Zenon, <1>0, <2>2, Edits
  <2> QED BY Zenon, <2>1, <2>3 DEF ia_fail_first, y
<1>4. ia_call_count_limit(x, a) \in Context
  <2> DEFINE y == [x EXCEPT !.counts = Tracked(x.counts, a.n, x.countsRoom)]
  <2>1. y \in Context
    BY Zenon, <1>0, Edits
  <2>2. Abort(y) \in Context
    BY Zenon, <1>0, <2>1, Edits DEF Abort
  <2> QED BY Zenon, <2>1, <2>2 DEF ia_call_count_limit
<1>5. ia_modify_return_value_int(x, a) \in Context /\ ia_call_real(x, lane) \in Context
  BY Zenon, <1>0, Edits DEF ia_modify_return_value_int, ia_call_real
<1>6. ia_incomplete_io(x, a) \in Context /\ ia_memory_fuzz(x, a) \in Context
  BY Zenon, <1>0, Edits DEF ia_incomplete_io, ia_memory_fuzz
<1>7. /\ ia_filter(x, a) \in Context /\ ia_filter_ret(x, a) \in Context
      /\ ia_addr_deny(x, a, lane) \in Context
  BY Zenon, <1>0, <1>1, Edits DEF ia_filter, ia_filter_ret, ia_addr_deny
<1> QED BY Zenon, <1>1, <1>2, <1>3, <1>4, <1>5, <1>6, <1>7 DEF Act

\* Only call_real has the real call run (basic.c).
LEMMA ActRuns ==
    ASSUME NEW x \in Context, NEW a \in Action, NEW lane \in Lanes,
           Act(x, a, lane).runs, a.op # "call_real"
    PROVE  x.runs
<1>1. \A y \in Context, v \in Int, n \in Nat, e \in Entry :
        /\ [y EXCEPT !.aborted = TRUE].runs = y.runs
        /\ [y EXCEPT !.ret = v].runs = y.runs
        /\ [y EXCEPT !.errno = n, !.ret = v].runs = y.runs
        /\ [y EXCEPT !.fails = e].runs = y.runs
        /\ [y EXCEPT !.counts = e].runs = y.runs
  BY Zenon DEF Context
<1>2. /\ Abort(x) \in Context /\ Abort(x).runs = x.runs
      /\ deny_ret(x) \in Int /\ a.v \in Int /\ EACCES \in Nat
      /\ 0 - ECONNREFUSED \in Int /\ (x.ret * a.n) \div 100 \in Int
      /\ Tracked(x.fails, a.n, x.failsRoom) \in Entry
      /\ Tracked(x.counts, a.n, x.countsRoom) \in Entry
      /\ 0 \in Int /\ 0 \in Nat
  <2>1. EACCES \in Nat
    BY DEF EACCES
  <2> QED BY Zenon, <1>1, <2>1, ActValues, Edits DEF Abort
<1>3. deny(x).runs = x.runs /\ ia_freeze(x).runs = x.runs
  BY Zenon, <1>1, <1>2 DEF deny, ia_freeze
<1>4. ia_fail_first(x, a).runs = x.runs
  <2> DEFINE y == [x EXCEPT !.fails = Tracked(x.fails, a.n, x.failsRoom)]
  <2>1. y \in Context /\ y.runs = x.runs
    BY Zenon, <1>1, <1>2, Edits
  <2> HIDE DEF y
  <2>2. Abort(y) \in Context /\ Abort(y).runs = x.runs
    BY Zenon, <1>1, <1>2, <2>1, Edits DEF Abort
  <2>3. [Abort(y) EXCEPT !.ret = a.v].runs = x.runs
    BY Zenon, <1>1, <1>2, <2>2
  <2> QED BY Zenon, <2>1, <2>3 DEF ia_fail_first, y
<1>5. ia_call_count_limit(x, a).runs = x.runs
  <2> DEFINE y == [x EXCEPT !.counts = Tracked(x.counts, a.n, x.countsRoom)]
  <2>1. y \in Context /\ y.runs = x.runs
    BY Zenon, <1>1, <1>2, Edits
  <2> HIDE DEF y
  <2>2. Abort(y).runs = x.runs
    BY Zenon, <1>1, <1>2, <2>1 DEF Abort
  <2> QED BY Zenon, <2>1, <2>2 DEF ia_call_count_limit, y
<1>6. /\ ia_modify_return_value_int(x, a).runs = x.runs
      /\ ia_incomplete_io(x, a).runs = x.runs /\ ia_memory_fuzz(x, a).runs = x.runs
  BY Zenon, <1>1, <1>2 DEF ia_modify_return_value_int, ia_incomplete_io, ia_memory_fuzz
<1>7. /\ ia_filter(x, a).runs = x.runs /\ ia_filter_ret(x, a).runs = x.runs
      /\ ia_addr_deny(x, a, lane).runs = x.runs
  BY Zenon, <1>1, <1>2 DEF ia_filter, ia_filter_ret, ia_addr_deny
<1> QED BY Zenon, <1>2, <1>3, <1>4, <1>5, <1>6, <1>7 DEF Act

\* How the contexts of the two lanes are related: the same but for the result of
\* a call that is to run, which this lane does not have yet.
Alike(x, y) ==
    /\ x \in Context /\ y \in Context
    /\ x.name = y.name /\ x.errno = y.errno /\ x.aborted = y.aborted
    /\ x.runs = y.runs /\ x.fails = y.fails /\ x.counts = y.counts
    /\ x.failsRoom = y.failsRoom /\ x.countsRoom = y.countsRoom
    /\ IF y.runs /\ y.ret = DEFERRED THEN x.ret = OfCall ELSE x.ret = y.ret

\* The edits keep two contexts alike.
LEMMA AlikeEdits ==
    ASSUME NEW x, NEW y, Alike(x, y), NEW n \in Nat, NEW e \in Entry,
           NEW r \in Int, r # DEFERRED \/ ~y.runs
    PROVE  /\ Alike([x EXCEPT !.aborted = TRUE], [y EXCEPT !.aborted = TRUE])
           /\ Alike([x EXCEPT !.ret = r], [y EXCEPT !.ret = r])
           /\ Alike([x EXCEPT !.errno = n, !.ret = r], [y EXCEPT !.errno = n, !.ret = r])
           /\ Alike([x EXCEPT !.fails = e], [y EXCEPT !.fails = e])
           /\ Alike([x EXCEPT !.counts = e], [y EXCEPT !.counts = e])
BY Zenon DEF Alike, Context

\* An action does the same on both lanes (ADR-0016) as long as it reads neither
\* an address nor the result of a call that has still to run: only call_real
\* answers differently, and its answer is the sentinel.
LEMMA ActAlike ==
    ASSUME NEW x, NEW y, Alike(x, y), NEW a \in Action,
           a.op # "addr_deny", a.op \in ReadsResult => ~y.runs
    PROVE  Alike(Act(x, a, "preload"), Act(y, a, "syscall"))
<1> DEFINE S == Tracked(x.fails, a.n, x.failsRoom)
           T == Tracked(x.counts, a.n, x.countsRoom)
<1>1. x \in Context /\ y \in Context
  BY Zenon DEF Alike
<1>2. /\ deny_ret(x) \in Int /\ deny_ret(x) # DEFERRED /\ deny_ret(y) = deny_ret(x)
      /\ a.v \in Int /\ a.v # DEFERRED /\ 0 \in Int /\ 0 # DEFERRED /\ 0 \in Nat
      /\ S \in Entry /\ Tracked(y.fails, a.n, y.failsRoom) = S
      /\ T \in Entry /\ Tracked(y.counts, a.n, y.countsRoom) = T
      /\ Free \in Entry /\ EACCES \in Nat
  <2>1. EACCES \in Nat
    BY DEF EACCES
  <2>2. /\ deny_ret(y) = deny_ret(x) /\ Tracked(y.fails, a.n, y.failsRoom) = S
        /\ Tracked(y.counts, a.n, y.countsRoom) = T
    BY Zenon DEF Alike, deny_ret
  <2> HIDE DEF S, T
  <2>3. S \in Entry /\ T \in Entry
    BY Zenon, <1>1, ActValues DEF S, T, Lanes
  <2> QED BY Zenon, <1>1, <2>1, <2>2, <2>3, ActValues DEF Lanes
<1>3. y.name = x.name /\ y.aborted = x.aborted
  BY Zenon DEF Alike
<1>4. Alike(Abort(x), Abort(y))
  BY Zenon, <1>2, AlikeEdits DEF Abort
<1>5. Alike(deny(x), deny(y))
  BY Zenon, <1>2, <1>4, AlikeEdits DEF deny
<1>6. Alike(ia_freeze(x), ia_freeze(y))
  BY Zenon, <1>2, <1>3, <1>4, AlikeEdits DEF ia_freeze
<1>7. Alike(ia_fail_first(x, a), ia_fail_first(y, a))
  <2> DEFINE u == [x EXCEPT !.fails = S]
             v == [y EXCEPT !.fails = S]
  <2>1. Alike(u, v)
    BY Zenon, <1>2, AlikeEdits
  <2>2. /\ ia_fail_first(x, a) = IF u.fails.count \in 1 .. u.fails.limit
                                  THEN [Abort(u) EXCEPT !.ret = a.v] ELSE u
        /\ ia_fail_first(y, a) = IF v.fails.count \in 1 .. v.fails.limit
                                  THEN [Abort(v) EXCEPT !.ret = a.v] ELSE v
    BY Zenon, <1>2 DEF ia_fail_first
  <2> HIDE DEF u, v, S
  <2>3. Alike(Abort(u), Abort(v))
    BY Zenon, <1>2, <2>1, AlikeEdits DEF Abort
  <2>4. Alike([Abort(u) EXCEPT !.ret = a.v], [Abort(v) EXCEPT !.ret = a.v])
    BY Zenon, <1>2, <2>3, AlikeEdits
  <2>5. u.fails = v.fails
    BY Zenon, <2>1 DEF Alike
  <2> QED BY Zenon, <2>1, <2>2, <2>4, <2>5
<1>8. Alike(ia_call_count_limit(x, a), ia_call_count_limit(y, a))
  <2> DEFINE u == [x EXCEPT !.counts = T]
             v == [y EXCEPT !.counts = T]
  <2>1. Alike(u, v)
    BY Zenon, <1>2, AlikeEdits
  <2>2. /\ ia_call_count_limit(x, a) = IF u.counts.count > u.counts.limit
                                        THEN Abort(u) ELSE u
        /\ ia_call_count_limit(y, a) = IF v.counts.count > v.counts.limit
                                        THEN Abort(v) ELSE v
    BY Zenon, <1>2 DEF ia_call_count_limit
  <2> HIDE DEF u, v, T
  <2>3. Alike(Abort(u), Abort(v))
    BY Zenon, <1>2, <2>1, AlikeEdits DEF Abort
  <2>4. u.counts = v.counts
    BY Zenon, <2>1 DEF Alike
  <2> QED BY Zenon, <2>1, <2>2, <2>3, <2>4
<1>9. /\ Alike(ia_modify_return_value_int(x, a), ia_modify_return_value_int(y, a))
      /\ Alike(ia_memory_fuzz(x, a), ia_memory_fuzz(y, a))
      /\ Alike(ia_filter(x, a), ia_filter(y, a))
  BY Zenon, <1>2, <1>4, AlikeEdits DEF ia_modify_return_value_int, ia_memory_fuzz, ia_filter
<1>10. Alike(ia_call_real(x, "preload"), ia_call_real(y, "syscall"))
  <2> DEFINE u == [x EXCEPT !.runs = TRUE, !.ret = OfCall]
             v == [y EXCEPT !.runs = TRUE, !.ret = DEFERRED]
  <2>0. OfCall \in Int /\ DEFERRED \in Int
    BY DEF OfCall, DEFERRED
  <2>1. u \in Context /\ v \in Context
    BY Zenon, <1>1, <1>2, <2>0, Edits
  <2>2. /\ u.name = x.name /\ u.errno = x.errno /\ u.aborted = x.aborted
        /\ u.runs = TRUE /\ u.fails = x.fails /\ u.counts = x.counts
        /\ u.failsRoom = x.failsRoom /\ u.countsRoom = x.countsRoom /\ u.ret = OfCall
    BY Zenon, <1>1 DEF Context
  <2>3. /\ v.name = y.name /\ v.errno = y.errno /\ v.aborted = y.aborted
        /\ v.runs = TRUE /\ v.fails = y.fails /\ v.counts = y.counts
        /\ v.failsRoom = y.failsRoom /\ v.countsRoom = y.countsRoom /\ v.ret = DEFERRED
    BY Zenon, <1>1 DEF Context
  <2>4. ia_call_real(x, "preload") = u /\ ia_call_real(y, "syscall") = v
    BY Zenon DEF ia_call_real, Answer
  <2> HIDE DEF u, v
  <2> QED BY Zenon, <2>1, <2>2, <2>3, <2>4 DEF Alike
<1>11. ASSUME a.op \in ReadsResult
       PROVE  /\ Alike(ia_incomplete_io(x, a), ia_incomplete_io(y, a))
              /\ Alike(ia_filter_ret(x, a), ia_filter_ret(y, a))
  <2>1. ~y.runs /\ x.ret = y.ret
    BY Zenon, <1>11 DEF Alike
  <2>2. (x.ret * a.n) \div 100 \in Int
    BY Zenon, <1>1, ActValues DEF Lanes
  <2> QED BY Zenon, <1>2, <1>4, <2>1, <2>2, AlikeEdits DEF ia_incomplete_io, ia_filter_ret
<1> HIDE DEF S, T
<1> QED BY Zenon, <1>3, <1>4, <1>5, <1>6, <1>7, <1>8, <1>9, <1>10, <1>11
        DEF Act, ReadsResult

\* The steps of retrace_action_runner_run: Progress is the function its
\* recursive definition describes.
LEMMA ProgressSteps ==
    ASSUME NEW script, NEW x, NEW lane, Len(script) \in Nat
    PROVE  /\ Progress(script, x, lane)[0] = x
           /\ \A i \in 1 .. Len(script) :
                Progress(script, x, lane)[i]
                    = Act(Progress(script, x, lane)[i - 1], script[i], lane)
<1> DEFINE Follows(g, n) ==
             g = [i \in 0 .. n |-> IF i = 0 THEN x ELSE Act(g[i - 1], script[i], lane)]
           T == {n \in Nat : \E g : Follows(g, n)}
<1>1. 0 \in T
  <2> DEFINE g == [i \in 0 .. 0 |-> x]
  <2>1. Follows(g, 0)
    OBVIOUS
  <2> QED BY Zenon, <2>1
<1>2. ASSUME NEW n \in T PROVE n + 1 \in T
  <2>1. PICK g : Follows(g, n)
    BY Zenon
  <2> DEFINE h == [i \in 0 .. (n + 1) |->
                     IF i = n + 1 THEN Act(g[n], script[n + 1], lane) ELSE g[i]]
  <2>2. Follows(h, n + 1)
    BY <2>1
  <2>3. n + 1 \in Nat /\ \E f : Follows(f, n + 1)
    <3> HIDE DEF h, Follows
    <3> QED BY <2>2
  <2> QED BY Zenon, <2>3
<1>3. T = Nat
  BY Zenon, <1>1, <1>2, SetInduction
<1>4. PICK g : Follows(g, Len(script))
  BY Zenon, <1>3
<1>5. Follows(Progress(script, x, lane), Len(script))
  BY Zenon, <1>4 DEF Progress
<1> HIDE DEF T
<1> QED BY <1>5

\* A script starts from a context and leaves one.
LEMMA BeginType ==
    ASSUME fails \in [Calls -> Entry], counts \in [Calls -> Entry], NEW c \in Calls
    PROVE  Begin(c) \in Context /\ ~Begin(c).runs
<1>1. Room(fails) \in BOOLEAN /\ Room(counts) \in BOOLEAN
  BY DEF Room
<1>2. fails[c] \in Entry /\ counts[c] \in Entry
  BY Zenon
<1> HIDE DEF Room
<1> QED BY <1>1, <1>2 DEF Begin, Context

\* The context stays one over the whole script, and the real call runs only
\* behind a call_real.
LEMMA RunnerType ==
    ASSUME opts \in OptionSet, fails \in [Calls -> Entry], counts \in [Calls -> Entry],
           NEW c \in Calls, NEW lane \in Lanes
    PROVE  \A i \in 0 .. Len(opts.script) :
             LET y == Progress(opts.script, Begin(c), lane)[i]
             IN  /\ y \in Context
                 /\ y.runs => \E j \in 1 .. i : opts.script[j].op = "call_real"
<1> DEFINE script == opts.script
           P(i) == Progress(script, Begin(c), lane)[i]
           Real(i) == \E j \in 1 .. i : script[j].op = "call_real"
           T == {i \in Nat : i <= Len(script) => P(i) \in Context /\ (P(i).runs => Real(i))}
<1>1. script \in Seq(Action) /\ Len(script) \in Nat
  BY ScriptAssumption
<1>2. Begin(c) \in Context /\ ~Begin(c).runs
  BY Zenon, BeginType
<1>3. \A i \in 1 .. Len(script) : script[i] \in Action
  BY <1>1
<1> HIDE DEF script
<1>4. /\ P(0) = Begin(c)
      /\ \A i \in 1 .. Len(script) : P(i) = Act(P(i - 1), script[i], lane)
  BY <1>1, ProgressSteps
<1> HIDE DEF P
<1>5. 0 \in T
  BY Zenon, <1>2, <1>4
<1>6. ASSUME NEW i \in T PROVE i + 1 \in T
  <2> SUFFICES ASSUME i + 1 <= Len(script)
               PROVE  P(i + 1) \in Context /\ (P(i + 1).runs => Real(i + 1))
    OBVIOUS
  <2>1. i + 1 \in 1 .. Len(script) /\ (i + 1) - 1 = i /\ i <= Len(script)
    BY <1>1
  <2>2. P(i) \in Context /\ (P(i).runs => Real(i)) /\ script[i + 1] \in Action
    BY Zenon, <1>3, <2>1
  <2>3. P(i + 1) = Act(P(i), script[i + 1], lane)
    BY Zenon, <1>4, <2>1
  <2>4. P(i + 1) \in Context
    BY Zenon, <2>2, <2>3, ActType
  <2>5. P(i + 1).runs => P(i).runs \/ script[i + 1].op = "call_real"
    BY Zenon, <2>2, <2>3, ActRuns
  <2>6. Real(i) \/ script[i + 1].op = "call_real" => Real(i + 1)
    <3>1. i + 1 \in 1 .. (i + 1) /\ \A j \in 1 .. i : j \in 1 .. (i + 1)
      OBVIOUS
    <3> QED BY Zenon, <3>1
  <2> QED BY Zenon, <2>2, <2>4, <2>5, <2>6
<1>7. T = Nat
  BY Zenon, <1>5, <1>6, SetInduction
<1>8. ASSUME NEW i \in 0 .. Len(script)
      PROVE  P(i) \in Context /\ (P(i).runs => Real(i))
  <2>1. i \in Nat /\ i <= Len(script)
    BY <1>1
  <2> QED BY Zenon, <1>7, <2>1
<1> QED BY Zenon, <1>8 DEF P, script

\* The whole script leaves the two lanes alike, whatever its length, when no
\* action of it reads what this lane does not have: neither its length nor what
\* it does to the counters depends on the lane.
LEMMA RunnerAlike ==
    ASSUME opts \in OptionSet, fails \in [Calls -> Entry], counts \in [Calls -> Entry],
           NEW c \in Calls, Deferrable(opts.script)
    PROVE  Alike(retrace_action_runner_run(c, "preload"),
                 retrace_action_runner_run(c, "syscall"))
<1> DEFINE script == opts.script
           x == Begin(c)
           P(i) == Progress(script, x, "preload")[i]
           Q(i) == Progress(script, x, "syscall")[i]
           T == {i \in Nat : i <= Len(script) => Alike(P(i), Q(i))}
<1>1. script \in Seq(Action) /\ Len(script) \in Nat
  BY ScriptAssumption
<1>2. Alike(x, x)
  BY Zenon, BeginType DEF Alike
<1>3. \A i \in 1 .. Len(script) : script[i] \in Action
  BY <1>1
<1>4. \A i \in 0 .. Len(script) :
        Q(i).runs => \E j \in 1 .. i : script[j].op = "call_real"
  BY Zenon, RunnerType DEF Lanes
<1> HIDE DEF x, script
<1>5. /\ P(0) = x /\ Q(0) = x
      /\ \A i \in 1 .. Len(script) : /\ P(i) = Act(P(i - 1), script[i], "preload")
                                    /\ Q(i) = Act(Q(i - 1), script[i], "syscall")
  BY <1>1, ProgressSteps
<1> HIDE DEF P, Q
<1>6. 0 \in T
  BY Zenon, <1>2, <1>5
<1>7. ASSUME NEW i \in T PROVE i + 1 \in T
  <2> SUFFICES ASSUME i + 1 <= Len(script) PROVE Alike(P(i + 1), Q(i + 1))
    OBVIOUS
  <2>1. /\ i + 1 \in 1 .. Len(script) /\ (i + 1) - 1 = i /\ i <= Len(script)
        /\ i \in 0 .. Len(script) /\ \A j \in 1 .. i : j \in 1 .. (i + 1)
    BY <1>1
  <2>2. Alike(P(i), Q(i)) /\ script[i + 1] \in Action
    BY Zenon, <1>3, <2>1
  <2>3. /\ script[i + 1].op # "addr_deny"
        /\ script[i + 1].op \in ReadsResult => ~Q(i).runs
    BY Zenon, <1>4, <2>1 DEF Deferrable, script
  <2>4. Alike(Act(P(i), script[i + 1], "preload"), Act(Q(i), script[i + 1], "syscall"))
    BY Zenon, <2>2, <2>3, ActAlike
  <2> QED BY Zenon, <1>5, <2>1, <2>4
<1>8. T = Nat
  BY Zenon, <1>6, <1>7, SetInduction
<1>9. Alike(P(Len(script)), Q(Len(script)))
  BY <1>1, <1>8
<1> QED BY Zenon, <1>9 DEF retrace_action_runner_run, P, Q, x, script

-----------------------------------------------------------------------------
(* The inductive invariant.                                                 *)

Frame == [skip_real : BOOLEAN, forced : Int, override : BOOLEAN, retval : Int]
TypeOK ==
    /\ opts \in OptionSet /\ call \in Calls
    /\ fails \in [Calls -> Entry] /\ counts \in [Calls -> Entry]
    /\ frame \in Frame /\ in_syscall \in BOOLEAN /\ faulted \in BOOLEAN
    /\ loop \in {"start", "run", "returned"}

\* StopsPaired, whatever the loop is doing.
Paired ==
    /\ tracee \in {"born", "user", "kernel", "gone"} \cup Stops
    /\ tracee = "entry" => ~in_syscall
    /\ tracee \in {"kernel", "exit", "execstop"} => in_syscall
    /\ tracee \in {"born", "user", "sigstop"} => ~in_syscall /\ ~frame.override

\* The result the tracee will read is the one due to it, once the exit stop
\* has put a pending override in its place.
Pending(r) ==
    IF call \in NoReal
      THEN frame.override /\ frame.retval = -1
      ELSE SameResult(IF frame.override THEN frame.retval ELSE r, due.ret)

\* What the entry stop decided stands until the call returns.
Unjudged == nr = call /\ ran = {} /\ due = Preload(call)
Judged ==
    /\ ran = {} /\ Pending(OfCall) /\ (frame.override \/ nr = call)
    /\ nr = IF call \in NoReal \/ due.runs THEN call ELSE "getpid"
Executed ==
    /\ call \in ran <=> call \in NoReal \/ due.runs
    /\ Pending(result)

Carried ==
    /\ tracee = "entry" => Unjudged /\ ~faulted
    /\ ~faulted /\ Comparable =>
        /\ tracee = "kernel" => Judged
        /\ tracee \in {"exit", "execstop"} => Executed
        /\ tracee \in {"born", "user", "sigstop"} => Agreement

IInv == TypeOK /\ Paired /\ Carried

\* The frame stays a frame, whatever the lane's operations do to it.
LEMMA FrameEdits ==
    ASSUME NEW f \in Frame, NEW v \in Int
    PROVE  /\ NoFrame \in Frame
           /\ [f EXCEPT !.override = FALSE] \in Frame
           /\ [f EXCEPT !.override = TRUE, !.retval = v] \in Frame
           /\ [f EXCEPT !.forced = v] \in Frame
           /\ cancel_sched_real(f) \in Frame
<1>1. NoFrame \in Frame
  BY DEF Frame, NoFrame
<1>2. [f EXCEPT !.override = FALSE] \in Frame
  BY Zenon DEF Frame
<1>3. [f EXCEPT !.override = TRUE, !.retval = v] \in Frame
  BY Zenon DEF Frame
<1>4. [f EXCEPT !.forced = v] \in Frame
  BY Zenon DEF Frame
<1>5. cancel_sched_real(f) \in Frame
  <2>1. 0 - ENOSYS \in Int
    BY DEF ENOSYS
  <2> QED BY Zenon, <2>1 DEF Frame, cancel_sched_real
<1> QED BY Zenon, <1>1, <1>2, <1>3, <1>4, <1>5

\* What the entry stop writes to the frame, as the arch-spec operations leave
\* it (as_ptrace.c:129-192).
Written(f) == IF f.skip_real THEN [f EXCEPT !.override = TRUE, !.retval = f.forced]
                             ELSE f

\* Whatever a script's verdict, the frame stays a frame.
LEMMA WrapperType ==
    ASSUME NEW c \in Calls, c \notin Unprototyped, NEW y \in Context,
           NEW live \in {EPERM, ENOSYS}
    PROVE  engine_wrapper(c, y, live) \in Frame /\ Written(engine_wrapper(c, y, live)) \in Frame
<1>1. \A g \in Frame, v \in Int, n \in Nat : set_ret_val(g, v, n, live) \in Frame
  <2> SUFFICES ASSUME NEW g \in Frame, NEW v \in Int, NEW n \in Nat
               PROVE  set_ret_val(g, v, n, live) \in Frame
    BY Zenon
  <2> DEFINE w == IF v = -1 /\ n > 0 THEN 0 - n ELSE v
             z == IF w = -1 THEN 0 - live ELSE w
  <2>1. w \in Int /\ z \in Int
    BY DEF EPERM, ENOSYS
  <2>2. g.skip_real \in BOOLEAN
    BY Zenon DEF Frame
  <2>3. set_ret_val(g, v, n, live)
          = CASE ~g.skip_real /\ w # DEFERRED ->
                   [g EXCEPT !.override = TRUE, !.retval = w]
              [] ~g.skip_real /\ w = DEFERRED -> g
              [] g.skip_real -> [g EXCEPT !.forced = z]
    BY Zenon DEF set_ret_val
  <2> HIDE DEF w, z
  <2>4. /\ [g EXCEPT !.override = TRUE, !.retval = w] \in Frame
        /\ [g EXCEPT !.forced = z] \in Frame
    BY Zenon, <2>1, FrameEdits
  <2> QED BY Zenon, <2>2, <2>3, <2>4
<1>2. NoFrame \in Frame /\ -1 \in Int /\ 0 \in Nat
  BY DEF NoFrame, Frame
<1>3. cancel_sched_real(NoFrame) \in Frame
  BY Zenon, <1>2, FrameEdits
<1>4. Skipping(y) \in Frame /\ y.ret \in Int /\ y.errno \in Nat
  BY Zenon, <1>2, <1>3 DEF Skipping, Context
<1>5. engine_wrapper(c, y, live) \in Frame
  <2>1. CASE c \in NoReal
    BY Zenon, <1>1, <1>2, <2>1, CallsAssumption DEF engine_wrapper, Scripted
  <2>2. CASE c \in Untouched
    BY Zenon, <1>2, <2>2, CallsAssumption DEF engine_wrapper, Scripted
  <2>3. CASE c \notin NoReal /\ c \notin Untouched
    BY Zenon, <1>1, <1>4, <2>3 DEF engine_wrapper, Scripted
  <2> QED BY Zenon, <2>1, <2>2, <2>3
<1>6. \A f \in Frame : Written(f) \in Frame
  BY Zenon DEF Written, Frame
<1> QED BY Zenon, <1>5, <1>6

\* A script's verdict reaches the frame: a call that is skipped, or whose
\* result the script replaced, leaves with the preload lane's result pending;
\* one that only runs leaves nothing pending and is due the kernel's.
LEMMA Verdict ==
    ASSUME NEW x, NEW y, Alike(x, y), NEW live \in {EPERM, ENOSYS},
           NEW f, f = set_ret_val(Skipping(y), y.ret, y.errno, live),
           NEW ret, ret = IF x.ret = -1 /\ x.errno > 0 THEN 0 - x.errno ELSE x.ret
    PROVE  /\ f \in Frame /\ Written(f) \in Frame
           /\ f.skip_real <=> ~x.runs
           /\ SameResult(IF Written(f).override THEN Written(f).retval ELSE OfCall, ret)
           /\ ~x.runs => Written(f).override
<1> DEFINE v == IF y.ret = -1 /\ y.errno > 0 THEN 0 - y.errno ELSE y.ret
<1>1. v \in Int /\ live \in Int /\ 0 - live < 0 /\ 0 - live \in Int
  BY DEF Alike, Context, EPERM, ENOSYS
<1>2. IF y.runs /\ v = DEFERRED THEN ret = OfCall ELSE ret = v
  BY DEF Alike, Context, DEFERRED, OfCall
<1>3. x.runs = y.runs /\ y.runs \in BOOLEAN
  BY Zenon DEF Alike, Context
<1>4. f = CASE ~Skipping(y).skip_real /\ v # DEFERRED ->
                 [Skipping(y) EXCEPT !.override = TRUE, !.retval = v]
            [] ~Skipping(y).skip_real /\ v = DEFERRED -> Skipping(y)
            [] Skipping(y).skip_real ->
                 [Skipping(y) EXCEPT !.forced = IF v = -1 THEN 0 - live ELSE v]
  BY Zenon DEF set_ret_val
<1> HIDE DEF v
<1>5. CASE y.runs /\ v # DEFERRED
  <2>1. f = [NoFrame EXCEPT !.override = TRUE, !.retval = v]
    BY Zenon, <1>4, <1>5 DEF Skipping, NoFrame
  <2>2. f \in Frame /\ ~f.skip_real /\ f.override /\ f.retval = v
    <3>1. NoFrame \in Frame /\ ~NoFrame.skip_real
      BY DEF NoFrame, Frame
    <3> QED BY Zenon, <1>1, <2>1, <3>1 DEF Frame
  <2>3. Written(f) = f /\ ret = v
    BY Zenon, <1>2, <1>5, <2>2 DEF Written
  <2>4. SameResult(f.retval, ret)
    BY <1>1, <2>2, <2>3 DEF SameResult
  <2> QED BY Zenon, <1>3, <1>5, <2>2, <2>3, <2>4
<1>6. CASE y.runs /\ v = DEFERRED
  <2>1. f = NoFrame
    BY Zenon, <1>4, <1>6 DEF Skipping, NoFrame
  <2>2. f \in Frame /\ ~f.skip_real /\ ~f.override
    BY <2>1 DEF Frame, NoFrame
  <2>3. Written(f) = f /\ SameResult(OfCall, ret)
    BY <1>2, <1>6, <2>2 DEF Written, SameResult, OfCall
  <2> QED BY Zenon, <1>3, <1>6, <2>2, <2>3
<1>7. CASE ~y.runs
  <2> DEFINE w == IF v = -1 THEN 0 - live ELSE v
  <2>1. w \in Int /\ SameResult(w, ret)
    BY Zenon, <1>1, <1>2, <1>7 DEF SameResult
  <2>2. f = [cancel_sched_real(NoFrame) EXCEPT !.forced = w]
    BY Zenon, <1>4, <1>7 DEF Skipping, NoFrame, cancel_sched_real
  <2> HIDE DEF w
  <2>3. f \in Frame /\ f.skip_real /\ f.forced = w
    <3>1. NoFrame \in Frame /\ 0 \in Int
      BY DEF NoFrame, Frame
    <3>2. cancel_sched_real(NoFrame) \in Frame
      BY Zenon, <3>1, FrameEdits
    <3>3. cancel_sched_real(NoFrame).skip_real
      BY Zenon, <3>1 DEF cancel_sched_real, Frame
    <3> HIDE DEF cancel_sched_real
    <3> QED BY Zenon, <2>1, <2>2, <3>2, <3>3 DEF Frame
  <2>4. Written(f) \in Frame /\ Written(f).override /\ Written(f).retval = w
    BY Zenon, <2>1, <2>3 DEF Written, Frame
  <2> QED BY Zenon, <1>3, <1>7, <2>1, <2>3, <2>4
<1> QED BY Zenon, <1>3, <1>5, <1>6, <1>7

\* The first stop of a call the engine decides, with the state read from its
\* registers: the frame and the call in the registers are what Judged says.
LEMMA DispatchKeeps ==
    ASSUME IInv, EntryDispatches
    PROVE  IInv'
<1> USE DEF IInv
<1>1. /\ tracee = "entry" /\ tracee' = "kernel" /\ in_syscall' = TRUE
      /\ opts' = opts /\ call' = call /\ ran' = ran /\ due' = due /\ loop' = loop
      /\ call \in Calls /\ nr \notin Unprototyped /\ faulted \in BOOLEAN
  BY Zenon DEF EntryDispatches, SyscallStop, Paired, TypeOK
<1>2. nr = call /\ ran = {} /\ due = Preload(call)
  BY Zenon, <1>1 DEF Carried, Unjudged
<1> DEFINE x == retrace_action_runner_run(call, "syscall")
           z == retrace_action_runner_run(call, "preload")
           Rewritten(f) == f.skip_real /\ opts.skips # "none"
<1>3. PICK failed \in {FALSE, Fault}, live \in {EPERM, ENOSYS} :
        LET f == engine_wrapper(call, x, live)
            s == Scripted(call)
        IN  /\ failed => Rewritten(f)
            /\ frame' = IF Rewritten(f)
                          THEN [f EXCEPT !.override = TRUE, !.retval = f.forced] ELSE f
            /\ nr' = IF Rewritten(f) /\ opts.skips = "taken" /\ ~failed
                       THEN "getpid" ELSE call
            /\ fails' = IF s THEN [fails EXCEPT ![call] = x.fails] ELSE fails
            /\ counts' = IF s THEN [counts EXCEPT ![call] = x.counts] ELSE counts
            /\ left' = Spent(failed) /\ faulted' = failed
  BY Zenon, <1>2 DEF EntryDispatches
<1> DEFINE f == engine_wrapper(call, x, live)
<1>4. failed \in BOOLEAN /\ faulted' = failed
  <2>1. Fault \in BOOLEAN
    BY DEF Fault
  <2>2. failed \in {FALSE, Fault} /\ faulted' = failed
    BY Zenon, <1>3
  <2> QED BY Zenon, <2>1, <2>2
<1>5. x \in Context
  <2>1. Len(opts.script) \in 0 .. Len(opts.script)
    <3>1. opts.script \in Seq(Action)
      BY Zenon, ScriptAssumption DEF TypeOK
    <3> QED BY <3>1
  <2> QED BY Zenon, <1>1, <2>1, RunnerType DEF TypeOK, Lanes, retrace_action_runner_run
<1>6. /\ fails' \in [Calls -> Entry] /\ counts' \in [Calls -> Entry]
  <2>1. x.fails \in Entry /\ x.counts \in Entry
    BY Zenon, <1>5 DEF Context
  <2>2. /\ fails' \in {fails, [fails EXCEPT ![call] = x.fails]}
        /\ counts' \in {counts, [counts EXCEPT ![call] = x.counts]}
    BY Zenon, <1>3
  <2> HIDE DEF x
  <2> QED BY Zenon, <2>1, <2>2 DEF TypeOK
<1>13. Comparable => Alike(z, x)
  BY Zenon, <1>1, RunnerAlike DEF TypeOK, Comparable
<1> HIDE DEF x, z
<1>14. f \in Frame /\ Written(f) \in Frame
  BY Zenon, <1>1, <1>2, <1>5, WrapperType
<1>15. frame' \in Frame
  <2>1. frame' \in {f, Written(f)}
    BY Zenon, <1>3 DEF Written
  <2> QED BY Zenon, <1>14, <2>1
<1>7. ASSUME Comparable
      PROVE
      /\ f \in Frame /\ Written(f) \in Frame
      /\ f.skip_real <=> call \notin NoReal /\ ~due.runs
      /\ IF call \in NoReal
           THEN Written(f).override /\ Written(f).retval = -1
           ELSE /\ SameResult(IF Written(f).override THEN Written(f).retval
                                                    ELSE OfCall, due.ret)
                /\ ~due.runs => Written(f).override
  <2>1. CASE call \in NoReal
    <3>1. f = [NoFrame EXCEPT !.override = TRUE, !.retval = -1]
      BY <2>1, CallsAssumption
         DEF engine_wrapper, Scripted, set_ret_val, NoFrame, DEFERRED
    <3>2. NoFrame \in Frame /\ ~NoFrame.skip_real /\ -1 \in Int
      BY DEF NoFrame, Frame
    <3>3. f \in Frame /\ ~f.skip_real /\ f.override /\ f.retval = -1
      BY Zenon, <3>1, <3>2 DEF Frame
    <3>4. Written(f) = f
      BY Zenon, <3>3 DEF Written
    <3> HIDE DEF f
    <3> QED BY Zenon, <2>1, <3>3, <3>4
  <2>2. CASE call \in Untouched
    <3>1. call \notin NoReal
      BY Zenon, <2>2, CallsAssumption
    <3>2. f = NoFrame /\ due = [runs |-> TRUE, ret |-> OfCall]
      BY Zenon, <1>2, <2>2, <3>1 DEF engine_wrapper, Scripted, Preload
    <3>3. f \in Frame /\ ~f.skip_real /\ ~f.override /\ Written(f) = f
      BY <3>2 DEF NoFrame, Frame, Written
    <3>4. due.runs /\ SameResult(OfCall, due.ret)
      BY <3>2 DEF SameResult, OfCall
    <3> HIDE DEF f
    <3> QED BY Zenon, <3>1, <3>3, <3>4
  <2>3. CASE call \notin NoReal /\ call \notin Untouched
    <3>1. Scripted(call)
      BY Zenon, <1>1, <1>2, <2>3 DEF Scripted
    <3>2. f = set_ret_val(Skipping(x), x.ret, x.errno, live)
      BY Zenon, <2>3, <3>1 DEF engine_wrapper
    <3> DEFINE ret == IF z.ret = -1 /\ z.errno > 0 THEN 0 - z.errno ELSE z.ret
    <3>3. due = [runs |-> z.runs, ret |-> ret]
      BY Zenon, <1>2, <3>1 DEF Preload, z
    <3>4. due.runs = z.runs /\ due.ret = ret
      BY Zenon, <3>3
    <3> HIDE DEF f
    <3>5. /\ f \in Frame /\ Written(f) \in Frame
          /\ f.skip_real <=> ~z.runs
          /\ SameResult(IF Written(f).override THEN Written(f).retval ELSE OfCall, ret)
          /\ ~z.runs => Written(f).override
      BY Zenon, <1>3, <1>7, <1>13, <3>2, Verdict
    <3> HIDE DEF ret
    <3> QED BY Zenon, <2>3, <3>4, <3>5
  <2> QED BY Zenon, <2>1, <2>2, <2>3
<1>8. Comparable =>
        /\ frame' = Written(f)
        /\ nr' = IF f.skip_real /\ ~failed THEN "getpid" ELSE call
  <2>1. Comparable => opts.skips = "taken" /\ "taken" # "none"
    BY DEF Comparable
  <2> QED BY Zenon, <1>3, <2>1 DEF Written
<1> HIDE DEF f
<1>9. TypeOK'
  BY Zenon, <1>1, <1>4, <1>6, <1>15 DEF TypeOK
<1>10. Paired'
  BY Zenon, <1>1 DEF Paired, Stops
<1>11. ~failed /\ Comparable => Judged'
  BY Zenon, <1>1, <1>2, <1>7, <1>8 DEF Judged, Pending
<1>12. Carried'
  BY Zenon, <1>1, <1>4, <1>11 DEF Carried, Comparable
<1> QED BY Zenon, <1>9, <1>10, <1>12

\* The entry stop of a call the engine has no say in; a failed register access
\* is on record, and nothing is claimed of that call.
LEMMA PassKeeps ==
    ASSUME IInv, EntryPasses
    PROVE  IInv'
<1> USE DEF IInv
<1>1. /\ tracee = "entry" /\ tracee' = "kernel" /\ in_syscall' = TRUE
      /\ opts' = opts /\ call' = call /\ nr' = nr /\ ran' = ran /\ due' = due
      /\ loop' = loop /\ fails' = fails /\ counts' = counts /\ frame' = NoFrame
  BY Zenon DEF EntryPasses, SyscallStop, Paired
<1>2. nr = call /\ ran = {} /\ due = Preload(call) /\ faulted = FALSE
  BY Zenon, <1>1 DEF Carried, Unjudged, TypeOK
<1>3. NoFrame \in Frame /\ ~NoFrame.override
  BY DEF NoFrame, Frame
<1>4. \/ nr \in Unprototyped /\ faulted' = FALSE
      \/ faulted' = TRUE
  BY Zenon, <1>2 DEF EntryPasses
<1>5. TypeOK'
  BY Zenon, <1>1, <1>3, <1>4 DEF TypeOK
<1>6. Paired'
  BY Zenon, <1>1 DEF Paired, Stops
<1>7. ~faulted' => Judged'
  <2> SUFFICES ASSUME ~faulted' PROVE Judged'
    BY Zenon
  <2>1. call \in Unprototyped /\ call \notin NoReal
    BY Zenon, <1>2, <1>4, CallsAssumption
  <2>2. due = [runs |-> TRUE, ret |-> OfCall]
    BY Zenon, <1>2, <2>1 DEF Preload, Scripted
  <2>3. due.runs /\ SameResult(OfCall, due.ret)
    BY <2>2 DEF SameResult, OfCall
  <2> QED BY Zenon, <1>1, <1>2, <1>3, <2>1, <2>3 DEF Judged, Pending
<1>8. Carried'
  BY Zenon, <1>1, <1>7 DEF Carried, Comparable
<1> QED BY Zenon, <1>5, <1>6, <1>8

\* The exit stop puts a pending override in the place of the result.
LEMMA ExitKeeps ==
    ASSUME IInv, ExitStop
    PROVE  IInv'
<1> USE DEF IInv
<1>1. /\ tracee = "exit" /\ tracee' = "user" /\ in_syscall' = FALSE
      /\ opts' = opts /\ call' = call /\ nr' = nr /\ ran' = ran /\ due' = due
      /\ loop' = loop /\ fails' = fails /\ counts' = counts
      /\ frame' = [frame EXCEPT !.override = FALSE] /\ frame \in Frame
  BY Zenon DEF ExitStop, SyscallStop, Paired, TypeOK
<1>2. PICK failed \in {FALSE, Fault /\ frame.override} :
        /\ result' = IF frame.override /\ ~failed THEN frame.retval ELSE result
        /\ faulted' = (faulted \/ failed)
  BY Zenon DEF ExitStop
<1>3. frame' \in Frame /\ ~frame'.override
  BY Zenon, <1>1 DEF Frame
<1>4. faulted' \in BOOLEAN
  BY Zenon, <1>2
<1>5. TypeOK'
  BY Zenon, <1>1, <1>3, <1>4 DEF TypeOK
<1>6. Paired'
  BY Zenon, <1>1, <1>3 DEF Paired, Stops
<1>7. ~faulted' /\ Comparable => Agreement'
  <2> SUFFICES ASSUME ~faulted', Comparable PROVE Agreement'
    BY Zenon
  <2>1. ~faulted /\ ~failed
    BY Zenon, <1>2
  <2>2. Executed
    BY Zenon, <1>1, <2>1 DEF Carried
  <2>3. result' = IF frame.override THEN frame.retval ELSE result
    BY Zenon, <1>2, <2>1
  <2> QED BY Zenon, <1>1, <2>2, <2>3 DEF Executed, Pending, Agreement
<1>8. Carried'
  BY Zenon, <1>1, <1>7 DEF Carried, Comparable
<1> QED BY Zenon, <1>5, <1>6, <1>8

\* Every step keeps the invariant.
LEMMA IInvStep ==
    ASSUME IInv, [Next]_vars
    PROVE  IInv'
<1> USE DEF IInv
<1>1. ASSUME NEW c \in Calls, Syscall(c) PROVE IInv'
  <2>1. TypeOK'
    BY Zenon, <1>1 DEF Syscall, TypeOK
  <2>2. Paired'
    BY Zenon, <1>1 DEF Syscall, Paired, Stops
  <2>3. Preload(c)' = Preload(c)
    BY Zenon, <1>1 DEF Syscall, Preload, retrace_action_runner_run, Begin, Room, Scripted
  <2>4. Carried'
    BY Zenon, <1>1, <2>3 DEF Syscall, Carried, Unjudged
  <2> QED BY Zenon, <2>1, <2>2, <2>4
<1>2. CASE KernelExecutes
  <2>1. /\ tracee = "kernel" /\ tracee' \in {"gone", "execstop", "exit"}
        /\ ran' = ran \cup {nr}
        /\ result' = IF nr = "getpid" THEN OfGetpid ELSE OfCall
        /\ UNCHANGED <<opts, call, nr, loop, in_syscall, frame, fails, counts, left,
                      due, faulted>>
    BY Zenon, <1>2 DEF KernelExecutes
  <2>2. TypeOK' /\ Paired'
    BY Zenon, <2>1 DEF TypeOK, Paired, Stops
  <2>3. ~faulted /\ Comparable => Executed'
    <3> SUFFICES ASSUME ~faulted, Comparable PROVE Executed'
      BY Zenon
    <3>1. Judged
      BY Zenon, <2>1 DEF Carried
    <3>2. call # "getpid"
      BY Zenon, CallsAssumption DEF TypeOK
    <3> QED BY Zenon, <2>1, <3>1, <3>2 DEF Judged, Executed, Pending
  <2>4. Carried'
    BY Zenon, <2>1, <2>3 DEF Carried, Comparable
  <2> QED BY Zenon, <2>2, <2>4
<1>3. CASE Signal \/ Killed \/ LoopStarts \/ ExecStop \/ SignalStop
  <2>1. /\ \/ tracee' = "gone"
           \/ tracee = "execstop" /\ tracee' = "exit"
           \/ tracee \in {"born", "user", "sigstop"} /\ tracee' \in {"user", "sigstop"}
        /\ loop' \in {loop, "run"}
        /\ UNCHANGED <<opts, call, nr, ran, result, in_syscall, frame, fails, counts,
                      due, faulted>>
    BY Zenon, <1>3 DEF Signal, Killed, LoopStarts, ExecStop, SignalStop
  <2>2. TypeOK' /\ Paired'
    BY Zenon, <2>1 DEF TypeOK, Paired, Stops
  <2>3. Executed' = Executed /\ Agreement' = Agreement
    BY Zenon, <2>1 DEF Executed, Agreement, Pending
  <2>4. Carried'
    BY Zenon, <2>1, <2>3 DEF Carried, Comparable
  <2> QED BY <2>2, <2>4
<1>4. CASE LoopReturns \/ UNCHANGED vars
  <2>1. /\ loop' \in {loop, "returned"}
        /\ UNCHANGED <<opts, tracee, call, nr, ran, result, in_syscall, frame, fails,
                      counts, due, faulted>>
    BY Zenon, <1>4 DEF LoopReturns, vars
  <2>2. TypeOK' /\ Paired'
    BY Zenon, <2>1 DEF TypeOK, Paired
  <2>3. Preload(call)' = Preload(call)
    BY Zenon, <2>1 DEF Preload, retrace_action_runner_run, Begin, Room, Scripted
  <2>4. Carried'
    BY Zenon, <2>1, <2>3
       DEF Carried, Comparable, Unjudged, Judged, Executed, Agreement, Pending
  <2> QED BY <2>2, <2>4
<1> QED BY Zenon, <1>1, <1>2, <1>3, <1>4, DispatchKeeps, PassKeeps, ExitKeeps DEF Next, Tracer

\* Every behaviour of the lane keeps the invariant.
THEOREM LaneInvariant == Spec => []IInv
<1>1. Init => IInv
  <2> SUFFICES ASSUME Init PROVE IInv
    BY Zenon
  <2>1. NoFrame \in Frame /\ ~NoFrame.override
    BY DEF NoFrame, Frame
  <2>2. TypeOK
    <3>1. Free \in Entry
      BY DEF Free, Entry
    <3> QED BY Zenon, <2>1, <3>1, CallsAssumption DEF Init, TypeOK
  <2>3. Paired
    BY Zenon, <2>1 DEF Init, Paired, Stops
  <2>4. due.runs /\ SameResult(result, due.ret)
    BY DEF Init, SameResult, OfCall
  <2>5. Carried
    BY Zenon, <2>4, CallsAssumption DEF Init, Carried, Agreement
  <2> QED BY Zenon, <2>2, <2>3, <2>5 DEF IInv
<1>2. IInv /\ [Next]_vars => IInv'
  BY Zenon, IInvStep
<1> QED BY <1>1, <1>2, PTL DEF Spec

\* The loop's count of stops agrees with the kernel's (trace_loop.c:194, :285),
\* for any script and any number of exec events, signals and failed accesses.
THEOREM LaneStopsPaired == Spec => []StopsPaired
<1>1. IInv => StopsPaired
  BY Zenon DEF IInv, Paired, StopsPaired
<1> QED BY <1>1, LaneInvariant, PTL

\* The syscall lane and the preload lane agree (ADR-0016) on every script of
\* the modelled actions, whatever its length and the values of the counters,
\* in which no action reads an address or the result of a call that has still
\* to run: RunnerAlike, carried from the entry stop to the exit stop.
THEOREM LanesDoAgree == Spec => []LanesAgree
<1>1. IInv => LanesAgree
  BY Zenon DEF IInv, Carried, LanesAgree
<1> QED BY <1>1, LaneInvariant, PTL
=============================================================================
