--------------------------- MODULE SupervisorProofs ---------------------------
(***************************************************************************)
(* What holds of the daemon's registry for every set of pids and slots and *)
(* every bound: evidence is filed under its sender, no observation is left *)
(* out of the summaries, and linked entries share a session.               *)
(***************************************************************************)
EXTENDS Supervisor, TLAPS

Row == [pid : Pids, ppid : Pids \cup {Outside}, root : Nat, session : Nat,
        parent : Nat, state : {"LIVE", "STALE", "GONE"}, age : Nat, obs : Nat,
        obsLast : Nat, summed : Nat]
Connection == [pid : Pids \cup {0}, gen : Nat, open : BOOLEAN, helloed : BOOLEAN,
               row : Nat, rx : Seq(Frame)]
Process == [run : {"none", "running", "zombie"}, gen : Nat,
            ppid : Pids \cup {Outside}, token : Nat, root : Nat, child : BOOLEAN,
            sock : Slots \cup {"none"}, welcome : Nat]
Budget == [rows : Nat, births : Nat, drops : Nat, kernel : Nat, scrubs : Nat,
           time : BOOLEAN]

(* The types the proofs use; links are bounded by Links.                   *)
Types ==
    /\ up \in BOOLEAN /\ due \in BOOLEAN /\ raced \in BOOLEAN
    /\ rows \in Seq(Row) /\ minted \in Nat /\ births \in Nat /\ left \in Budget
    /\ conn \in [Slots -> Connection]
    /\ proc \in [Pids -> Process]

-----------------------------------------------------------------------------
(* The daemon's side.                                                      *)

\* An unread HELLO, and a BYE on its way.
Greets(c)   == c.rx # <<>> /\ c.rx[1].type = "HELLO"
Parting(c)  == \E i \in DOMAIN c.rx : c.rx[i].type = "BYE"
\* A HELLO is the first frame of a connection that has no entry yet, in the name
\* of its owner; a BYE is the last frame of a closed one.
Orderly(c) ==
    /\ \A i \in DOMAIN c.rx : c.rx[i].type = "HELLO" =>
         i = 1 /\ c.row = NoRow /\ c.rx[i].pid = c.pid
    /\ \A i \in DOMAIN c.rx : c.rx[i].type = "BYE" => i = Len(c.rx) /\ ~c.open
    /\ c.open => c.pid # 0
    /\ c.rx # <<>> => c.pid # 0
    /\ c.helloed => c.row # NoRow
    /\ c.row # NoRow /\ ~c.helloed => c.rx = <<>> /\ ~c.open
\* The entry a connection registered bears its owner's pid and is not GONE
\* before its BYE.
Seated(c, rs) ==
    c.row # NoRow =>
        /\ c.row \in DOMAIN rs
        /\ c.pid # 0 => rs[c.row].pid = c.pid
        /\ c.helloed => rs[c.row].state # "GONE"
Seats(rs, cn) ==
    /\ \A s \in Slots : Orderly(cn[s]) /\ Seated(cn[s], rs)
    /\ \A s, t \in Slots : cn[s].row # NoRow /\ cn[s].row = cn[t].row => s = t

\* What the journal's summaries add up to.
Balanced(x) == x.summed = x.obsLast /\ x.obsLast <= x.obs
Drift == (\A i \in DOMAIN rows : Balanced(rows[i])) /\ DriftAccounted

-----------------------------------------------------------------------------
(* The processes' side.                                                    *)

\* A running process holds the open end of its connection, and WELCOME comes
\* over it; the rest have nothing; parents run.
Ended(x) == /\ x.sock = "none" /\ x.welcome = NoSession
            /\ x.ppid = Outside /\ x.token = NoSession
Ends(cn, pr) ==
    /\ \A p \in Pids : pr[p].run # "running" => Ended(pr[p])
    /\ \A p \in Pids : pr[p].sock \in Slots =>
         cn[pr[p].sock].pid = p /\ cn[pr[p].sock].open
    /\ \A s \in Slots : cn[s].open => cn[s].pid \in Pids /\ pr[cn[s].pid].sock = s
    /\ \A p \in Pids : pr[p].welcome # NoSession => pr[p].sock \in Slots
    /\ \A p \in Pids : pr[p].ppid # Outside => pr[pr[p].ppid].run = "running"

-----------------------------------------------------------------------------
(* The sessions: tokens, the tree, entries and HELLOs on their way agree.    *)

Agrees(token, session) == token \in {NoSession, session}
Names(x, p)  == x.pid = p /\ x.state # "GONE"
Known(rs, p) == \E i \in DOMAIN rs : Names(rs[i], p)

\* Entries of a running process carry its session.
EntryAgrees(x, y) == x.session = IF y.token # NoSession THEN y.token ELSE y.welcome
EntriesAgree(rs, pr) ==
    \A i \in DOMAIN rs : \A p \in Pids :
        Names(rs[i], p) /\ pr[p].run = "running" => EntryAgrees(rs[i], pr[p])
\* A token is what WELCOME says.
WelcomeAgrees(pr) ==
    \A p \in Pids : pr[p].welcome # NoSession => Agrees(pr[p].token, pr[p].welcome)
\* Only a process with a token has children, theirs is the same, and a child
\* without one will find its parent's entry.
ChildAgrees(x, y, known) ==
    /\ x.token # NoSession
    /\ Agrees(y.token, x.token)
    /\ y.token = NoSession => known
    /\ Agrees(y.welcome, x.token)
TreeAgrees(rs, pr) ==
    \A p, q \in Pids : pr[q].ppid = p => ChildAgrees(pr[p], pr[q], Known(rs, p))

\* A HELLO and the sender, if it still runs.
GreetsForSelf(c, x, known) ==
    /\ c.rx[1].token = x.token
    /\ x.ppid \in {c.rx[1].ppid, Outside}
    /\ x.token = NoSession => x.welcome = NoSession /\ c.open /\ ~known
\* A HELLO and the parent it names.
GreetsUnder(c, x) == x.token # NoSession /\ Agrees(c.rx[1].token, x.token)
\* A HELLO and the entries of the parent it names.
GreetsLinked(c, x) == c.rx[1].token # NoSession => x.session = c.rx[1].token
\* Two HELLOs on their way: of a child and its parent, or of one process.
GreetsWithParent(c, d) == d.rx[1].token # NoSession /\ Agrees(c.rx[1].token, d.rx[1].token)
GreetingsAgree(rs, cn, pr) ==
    /\ \A s \in Slots, p \in Pids : Greets(cn[s]) /\ pr[p].run = "running" =>
         /\ cn[s].pid = p => GreetsForSelf(cn[s], pr[p], Known(rs, p))
         /\ cn[s].rx[1].ppid = p => GreetsUnder(cn[s], pr[p])
    /\ \A s \in Slots, i \in DOMAIN rs :
         Greets(cn[s]) /\ Names(rs[i], cn[s].rx[1].ppid) => GreetsLinked(cn[s], rs[i])
    /\ \A s, t \in Slots : Greets(cn[s]) /\ Greets(cn[t]) =>
         /\ cn[s].rx[1].ppid = cn[t].pid => GreetsWithParent(cn[s], cn[t])
         /\ cn[s].pid = cn[t].pid /\ s # t => cn[t].rx[1].token # NoSession
\* A BYE that will end an entry comes from a process that no longer runs.
ByesAgree(cn, pr) ==
    \A s \in Slots, p \in Pids :
        Parting(cn[s]) /\ (cn[s].row # NoRow \/ Greets(cn[s])) /\ cn[s].pid = p
        => pr[p].run # "running"

Sessions(rs, cn, pr) ==
    /\ EntriesAgree(rs, pr) /\ WelcomeAgrees(pr) /\ TreeAgrees(rs, pr)
    /\ GreetingsAgree(rs, cn, pr) /\ ByesAgree(cn, pr)

\* A link names an entry of the same session; every entry has a session.
Links(rs) == \A i \in DOMAIN rs : rs[i].parent \in 0 .. Len(rs)
                                  /\ rs[i].session # NoSession
Shared(rs) == \A i \in DOMAIN rs :
                  rs[i].parent # NoRow => rs[i].session = rs[rs[i].parent].session

World(rs, cn, pr, race) ==
    /\ Links(rs) /\ Seats(rs, cn) /\ Ends(cn, pr)
    /\ ~race => Sessions(rs, cn, pr) /\ Shared(rs)

IInv == Types /\ World(rows, conn, proc, raced) /\ Drift /\ EvidenceAttributed

-----------------------------------------------------------------------------
(* Edits of the registry.                                                  *)

\* y is x after sweeps and summaries: the same entry, alive or not as before,
\* with nothing unaccounted for that was accounted for.
Same(x, y) ==
    /\ y.pid = x.pid /\ y.ppid = x.ppid /\ y.session = x.session
    /\ y.parent = x.parent /\ y.obs = x.obs
    /\ (y.state = "GONE") <=> (x.state = "GONE")
    /\ Balanced(x) => Balanced(y)
    /\ Balanced(x) /\ x.summed = x.obs => y.summed = y.obs
Kept(r, r2) ==
    /\ r2 \in Seq(Row) /\ Len(r2) = Len(r)
    /\ \A i \in 1 .. Len(r) : Same(r[i], r2[i])

(* The sweep keeps entries: only LIVE becomes STALE                         *)
(* (retraced_registry_sweep).                                               *)
LEMMA SweepKeeps == ASSUME NEW r \in Seq(Row) PROVE Kept(r, Sweep(r))
<1> DEFINE F(i) == IF r[i].state = "LIVE" /\ r[i].age >= StaleAge
                   THEN [r[i] EXCEPT !.state = "STALE"] ELSE r[i]
<1>a. Sweep(r) = [i \in 1 .. Len(r) |-> F(i)] BY DEF Sweep
<1>b. ASSUME NEW i \in 1 .. Len(r) PROVE F(i) \in Row
  <2>1. r[i] \in Row OBVIOUS
  <2>2. [r[i] EXCEPT !.state = "STALE"] \in Row BY Zenon, <2>1 DEF Row
  <2> QED BY Zenon, <2>1, <2>2
<1>1. /\ Sweep(r) \in Seq(Row) /\ Len(Sweep(r)) = Len(r)
      /\ \A i \in 1 .. Len(r) : Sweep(r)[i] = F(i)
  <2> HIDE DEF F
  <2> QED BY <1>a, <1>b
<1>2. ASSUME NEW i \in 1 .. Len(r) PROVE Same(r[i], Sweep(r)[i])
  <2>1. r[i] \in Row BY <1>2
  <2>2. CASE Sweep(r)[i] = r[i] BY Zenon, <2>2 DEF Same
  <2>3. CASE r[i].state = "LIVE" /\ Sweep(r)[i] = [r[i] EXCEPT !.state = "STALE"]
    BY Zenon, <2>1, <2>3 DEF Same, Balanced, Row
  <2> QED BY Zenon, <1>1, <2>2, <2>3
<1> QED BY Zenon, <1>1, <1>2 DEF Kept

(* The summaries keep entries and leave nothing unaccounted for              *)
(* (daemon_frame_drift_summaries).                                          *)
LEMMA SummariesKeep ==
    ASSUME NEW r \in Seq(Row), \A i \in DOMAIN r : Balanced(r[i])
    PROVE  /\ Kept(r, Summaries(r))
           /\ \A i \in 1 .. Len(r) : Summaries(r)[i].summed = Summaries(r)[i].obs
<1>1. ASSUME NEW x \in Row, Balanced(x), NEW y,
             y = [x EXCEPT !.summed = @ + (x.obs - x.obsLast), !.obsLast = x.obs]
      PROVE  y \in Row /\ Same(x, y) /\ y.summed = y.obs
  <2>1. x.obs \in Nat /\ x.obsLast \in Nat /\ x.summed \in Nat BY Zenon, <1>1 DEF Row
  <2>2. /\ y.summed = x.summed + (x.obs - x.obsLast) /\ y.obsLast = x.obs
        /\ y.obs = x.obs /\ y.pid = x.pid /\ y.ppid = x.ppid
        /\ y.session = x.session /\ y.parent = x.parent /\ y.state = x.state
    BY Zenon, <1>1 DEF Row
  <2>3. y.summed = y.obs /\ y.summed \in Nat BY <1>1, <2>1, <2>2 DEF Balanced
  <2>4. y \in Row BY Zenon, <1>1, <2>1, <2>3 DEF Row
  <2> QED BY <2>1, <2>2, <2>3, <2>4 DEF Same, Balanced
<1>2. ASSUME NEW i \in 1 .. Len(r)
      PROVE  /\ Summaries(r)[i] \in Row /\ Same(r[i], Summaries(r)[i])
             /\ Summaries(r)[i].summed = Summaries(r)[i].obs
  <2>1. r[i] \in Row /\ Balanced(r[i]) BY <1>2
  <2>a. i \in DOMAIN r BY <1>2
  <2>2. Summaries(r)[i] = [r[i] EXCEPT !.summed = @ + (r[i].obs - r[i].obsLast),
                                       !.obsLast = r[i].obs]
    BY <2>a, Zenon DEF Summaries
  <2> QED BY Zenon, <1>1, <2>1, <2>2
<1>3. Summaries(r) \in Seq(Row) /\ Len(Summaries(r)) = Len(r)
  <2> DEFINE F(i) == [r[i] EXCEPT !.summed = @ + (r[i].obs - r[i].obsLast),
                                  !.obsLast = r[i].obs]
  <2>1. Summaries(r) = [i \in 1 .. Len(r) |-> F(i)] BY DEF Summaries
  <2>2. \A i \in 1 .. Len(r) : F(i) = Summaries(r)[i] BY Zenon, <2>1
  <2>3. \A i \in 1 .. Len(r) : F(i) \in Row BY Zenon, <1>2, <2>2
  <2> HIDE DEF F
  <2> QED BY <2>1, <2>3
<1> QED BY Zenon, <1>2, <1>3 DEF Kept

(* Keeping is transitive and reflexive.                                     *)
LEMMA KeptChain ==
    ASSUME NEW a \in Seq(Row), NEW b, NEW c, Kept(a, b), Kept(b, c) PROVE Kept(a, c)
<1>1. ASSUME NEW i \in 1 .. Len(a) PROVE Same(a[i], c[i])
  <2>1. Same(a[i], b[i]) /\ Same(b[i], c[i]) BY Zenon, <1>1 DEF Kept
  <2> QED BY Zenon, <2>1 DEF Same
<1> QED BY Zenon, <1>1 DEF Kept

(* An iteration without a sweep leaves the registry as its handler left it.  *)
LEMMA KeptSelf == ASSUME NEW a \in Seq(Row) PROVE Kept(a, a)
  BY Zenon DEF Kept, Same

(* The entries an iteration leaves: those of its handler, swept and          *)
(* summed up when a sweep is due.                                           *)
LEMMA IterationKeeps ==
    ASSUME NEW r \in Seq(Row), \A i \in DOMAIN r : Balanced(r[i]), NEW ps, Iteration(r, ps)
    PROVE  Kept(r, rows')
<1>1. CASE ~due BY Zenon, <1>1, KeptSelf DEF Iteration
<1>2. CASE due
  <2>1. Kept(r, Summaries(r)) BY Zenon, SummariesKeep
  <2>2. Summaries(r) \in Seq(Row) BY Zenon, <2>1 DEF Kept
  <2>3. Kept(Summaries(r), Sweep(Summaries(r))) BY Zenon, <2>2, SweepKeeps
  <2> QED BY Zenon, <1>2, <2>1, <2>3, KeptChain DEF Iteration
<1> QED BY Zenon, <1>1, <1>2

-----------------------------------------------------------------------------
(* What the sweep, the summaries and the reap change is invisible to World.  *)

Look(x, y) ==
    /\ y.pid = x.pid /\ y.session = x.session /\ y.parent = x.parent
    /\ (y.state = "GONE") <=> (x.state = "GONE")
Alike(r, r2) ==
    /\ r2 \in Seq(Row) /\ Len(r2) = Len(r)
    /\ \A i \in 1 .. Len(r) : Look(r[i], r2[i])
Stays(x, y) ==
    /\ (y.run = "running") <=> (x.run = "running")
    /\ y.ppid = x.ppid /\ y.token = x.token /\ y.sock = x.sock /\ y.welcome = x.welcome
Stay(a, b) == \A p \in Pids : Stays(a[p], b[p])

(* What sweeps and summaries keep is all that links and sessions look at.    *)
LEMMA KeptAlike == ASSUME NEW r, NEW r2, Kept(r, r2) PROVE Alike(r, r2)
  BY Zenon DEF Kept, Alike, Same, Look

(* Sweeps, summaries and reaps disturb neither seats nor sessions: entries   *)
(* that look alike and processes that stay keep the relations between them.  *)
LEMMA WorldAlike ==
    ASSUME NEW r \in Seq(Row), NEW r2, NEW cn, NEW a \in [Pids -> Process],
           NEW b \in [Pids -> Process], NEW race,
           Alike(r, r2), Stay(a, b), World(r, cn, a, race)
    PROVE  World(r2, cn, b, race)
<1>1. /\ DOMAIN r = 1 .. Len(r) /\ DOMAIN r2 = DOMAIN r /\ Len(r2) = Len(r)
      /\ \A i \in DOMAIN r : Look(r[i], r2[i])
  BY DEF Alike
<1>2. \A i \in DOMAIN r : \A p : Names(r2[i], p) <=> Names(r[i], p)
  BY Zenon, <1>1 DEF Look, Names
<1>3. \A p : Known(r2, p) <=> Known(r, p) BY Zenon, <1>1, <1>2 DEF Known
<1>4. Links(r2) BY Zenon, <1>1 DEF World, Links, Look
<1>5. Seats(r2, cn)
  <2>1. ASSUME NEW s \in Slots PROVE Seated(cn[s], r2)
    BY Zenon, <1>1 DEF World, Seats, Seated, Look
  <2> QED BY Zenon, <2>1 DEF World, Seats
<1>6. Ends(cn, b)
  <2>1. \A p \in Pids : b[p].run # "running" => Ended(b[p])
    BY DEF World, Ends, Stay, Stays, Ended
  <2>2. \A p \in Pids : b[p].sock \in Slots =>
          cn[b[p].sock].pid = p /\ cn[b[p].sock].open
    BY Zenon DEF World, Ends, Stay, Stays
  <2>3. \A s \in Slots : cn[s].open => cn[s].pid \in Pids /\ b[cn[s].pid].sock = s
    BY Zenon DEF World, Ends, Stay, Stays
  <2>4. \A p \in Pids : b[p].welcome # NoSession => b[p].sock \in Slots
    BY Zenon DEF World, Ends, Stay, Stays
  <2>5. ASSUME NEW p \in Pids, b[p].ppid # Outside PROVE b[b[p].ppid].run = "running"
    <3>1. b[p].ppid \in Pids BY Zenon, <2>5 DEF Process
    <3> QED BY <2>5, <3>1 DEF World, Ends, Stay, Stays
  <2> QED BY Zenon, <2>1, <2>2, <2>3, <2>4, <2>5 DEF Ends
<1>7. CASE race BY Zenon, <1>4, <1>5, <1>6, <1>7 DEF World
<1>8. CASE ~race
  <2>1. Shared(r2)
    <3>1. ASSUME NEW i \in DOMAIN r, r2[i].parent # NoRow
          PROVE  r2[i].session = r2[r2[i].parent].session
      <4>1. r[i].parent # NoRow /\ r[i].parent \in 0 .. Len(r) /\ r2[i].parent = r[i].parent
        BY Zenon, <1>1, <3>1 DEF World, Links, Look
      <4>2. r[i].parent \in DOMAIN r BY <1>1, <4>1 DEF NoRow
      <4>3. r[i].session = r[r[i].parent].session BY Zenon, <1>8, <4>1 DEF World, Shared
      <4> QED BY Zenon, <1>1, <4>1, <4>2, <4>3 DEF Look
    <3> QED BY Zenon, <1>1, <3>1 DEF Shared
  <2>2. EntriesAgree(r2, b)
    <3>1. ASSUME NEW i \in DOMAIN r, NEW p \in Pids, Names(r2[i], p), b[p].run = "running"
          PROVE  EntryAgrees(r2[i], b[p])
      <4>1. EntryAgrees(r[i], a[p])
        BY Zenon, <1>2, <1>8, <3>1 DEF World, Sessions, EntriesAgree, Stay, Stays
      <4> QED BY Zenon, <1>1, <4>1 DEF EntryAgrees, Look, Stay, Stays
    <3> QED BY Zenon, <1>1, <3>1 DEF EntriesAgree
  <2>3. WelcomeAgrees(b) BY Zenon, <1>8 DEF World, Sessions, WelcomeAgrees, Stay, Stays
  <2>4. TreeAgrees(r2, b)
    BY ZenonT(40), <1>3, <1>8 DEF World, Sessions, TreeAgrees, ChildAgrees, Stay, Stays
  <2>5. GreetingsAgree(r2, cn, b)
    <3>0. GreetingsAgree(r, cn, a) BY Zenon, <1>8 DEF World, Sessions
    <3>1. ASSUME NEW s \in Slots, NEW p \in Pids, Greets(cn[s]), b[p].run = "running"
          PROVE  /\ cn[s].pid = p => GreetsForSelf(cn[s], b[p], Known(r2, p))
                 /\ cn[s].rx[1].ppid = p => GreetsUnder(cn[s], b[p])
      <4>1. /\ cn[s].pid = p => GreetsForSelf(cn[s], a[p], Known(r, p))
            /\ cn[s].rx[1].ppid = p => GreetsUnder(cn[s], a[p])
        BY Zenon, <3>0, <3>1 DEF GreetingsAgree, Stay, Stays
      <4> QED BY Zenon, <1>3, <4>1 DEF GreetsForSelf, GreetsUnder, Stay, Stays
    <3>2. ASSUME NEW s \in Slots, NEW i \in DOMAIN r, Greets(cn[s]),
                 Names(r2[i], cn[s].rx[1].ppid)
          PROVE  GreetsLinked(cn[s], r2[i])
      <4>1. GreetsLinked(cn[s], r[i]) BY Zenon, <1>2, <3>0, <3>2 DEF GreetingsAgree
      <4> QED BY Zenon, <1>1, <4>1 DEF GreetsLinked, Look
    <3> QED BY Zenon, <1>1, <3>0, <3>1, <3>2 DEF GreetingsAgree
  <2>6. ByesAgree(cn, b) BY Zenon, <1>8 DEF World, Sessions, ByesAgree, Stay, Stays
  <2> QED BY Zenon, <1>4, <1>5, <1>6, <2>1, <2>2, <2>3, <2>4, <2>5, <2>6 DEF World, Sessions
<1> QED BY Zenon, <1>7, <1>8

-----------------------------------------------------------------------------
(* Frames that come and go.                                                *)

\* d is c after traffic that registers nothing and ends nothing.
Quiet(c, d) ==
    /\ d.row = c.row /\ (d.helloed <=> c.helloed) /\ (d.open <=> c.open)
    /\ d.pid \in {c.pid, 0} /\ Orderly(d)
    /\ Greets(d) => Greets(c) /\ d.rx[1] = c.rx[1]
    /\ Parting(d) => Parting(c)

(* A frame that is no HELLO and no BYE, read or sent, and a freed slot       *)
(* disturb no relation between entries, connections and processes.           *)
LEMMA WorldQuiet ==
    ASSUME NEW r, NEW cn, NEW cn2, NEW a, NEW race, World(r, cn, a, race),
           \A s \in Slots : Quiet(cn[s], cn2[s])
    PROVE  World(r, cn2, a, race)
<1>1. \A s \in Slots : cn2[s].open \/ Greets(cn2[s]) => cn2[s].pid = cn[s].pid
  BY Zenon DEF Quiet, Orderly, Greets
<1>2. Seats(r, cn2)
  <2>1. ASSUME NEW s \in Slots PROVE Seated(cn2[s], r)
    BY <1>1 DEF World, Seats, Seated, Quiet
  <2>2. \A s, t \in Slots : cn2[s].row # NoRow /\ cn2[s].row = cn2[t].row => s = t
    BY DEF World, Seats, Quiet
  <2> QED BY Zenon, <2>1, <2>2 DEF Seats, Quiet
<1>3. Ends(cn2, a)
  BY Zenon, <1>1 DEF World, Ends, Quiet
<1>4. ASSUME ~race PROVE GreetingsAgree(r, cn2, a) /\ ByesAgree(cn2, a)
  <2>0. GreetingsAgree(r, cn, a) /\ ByesAgree(cn, a) BY Zenon, <1>4 DEF World, Sessions
  <2>1. \A s \in Slots : Greets(cn2[s]) =>
          /\ Greets(cn[s]) /\ cn2[s].rx[1] = cn[s].rx[1] /\ cn2[s].pid = cn[s].pid
          /\ cn2[s].open <=> cn[s].open
    BY Zenon, <1>1 DEF Quiet
  <2>2. ASSUME NEW s \in Slots, NEW p \in Pids, Greets(cn2[s]), a[p].run = "running"
        PROVE  /\ cn2[s].pid = p => GreetsForSelf(cn2[s], a[p], Known(r, p))
               /\ cn2[s].rx[1].ppid = p => GreetsUnder(cn2[s], a[p])
    BY <2>0, <2>1, <2>2 DEF GreetingsAgree, GreetsForSelf, GreetsUnder
  <2>3. ASSUME NEW s \in Slots, NEW i \in DOMAIN r, Greets(cn2[s]),
               Names(r[i], cn2[s].rx[1].ppid)
        PROVE  GreetsLinked(cn2[s], r[i])
    BY <2>0, <2>1, <2>3 DEF GreetingsAgree, GreetsLinked
  <2>4. ASSUME NEW s \in Slots, NEW t \in Slots, Greets(cn2[s]), Greets(cn2[t])
        PROVE  /\ cn2[s].rx[1].ppid = cn2[t].pid => GreetsWithParent(cn2[s], cn2[t])
               /\ cn2[s].pid = cn2[t].pid /\ s # t => cn2[t].rx[1].token # NoSession
    BY <2>0, <2>1, <2>4 DEF GreetingsAgree, GreetsWithParent
  <2>5. ByesAgree(cn2, a)
    <3>1. ASSUME NEW s \in Slots, NEW p \in Pids, Parting(cn2[s]), cn2[s].pid = p,
                 cn2[s].row # NoRow \/ Greets(cn2[s])
          PROVE  a[p].run # "running"
      <4>1. p # 0 BY Zenon, PidsAssumption
      <4>2. Parting(cn[s]) /\ cn[s].pid = p /\ (cn[s].row # NoRow \/ Greets(cn[s]))
        BY Zenon, <3>1, <4>1 DEF Quiet
      <4> QED BY Zenon, <2>0, <4>2 DEF ByesAgree
    <3> QED BY Zenon, <3>1 DEF ByesAgree
  <2> QED BY Zenon, <2>2, <2>3, <2>4, <2>5 DEF GreetingsAgree
<1> QED BY Zenon, <1>2, <1>3, <1>4 DEF World, Sessions

(* A popped frame was the only HELLO; the rest is in order.                  *)
LEMMA PopFacts ==
    ASSUME NEW c \in Connection, Orderly(c), c.rx # <<>>, NEW d \in Connection,
           d.rx = Tail(c.rx)
    PROVE  /\ ~Greets(d)
           /\ \A i \in DOMAIN d.rx : d.rx[i].type # "HELLO"
           /\ \A i \in DOMAIN d.rx : d.rx[i].type = "BYE" =>
                i = Len(d.rx) /\ ~c.open /\ Parting(c) /\ c.rx[1].type # "BYE"
<1>1. c.rx \in Seq(Frame) BY Zenon DEF Connection
<1>2. /\ DOMAIN d.rx = 1 .. (Len(c.rx) - 1) /\ Len(d.rx) = Len(c.rx) - 1
      /\ \A i \in DOMAIN d.rx : d.rx[i] = c.rx[i + 1] /\ i + 1 \in DOMAIN c.rx /\ i + 1 # 1
  BY <1>1
<1>3. \A i \in DOMAIN d.rx : d.rx[i].type # "HELLO" BY Zenon, <1>2 DEF Orderly
<1>4. ASSUME NEW i \in DOMAIN d.rx, d.rx[i].type = "BYE"
      PROVE  i = Len(d.rx) /\ ~c.open /\ Parting(c) /\ c.rx[1].type # "BYE"
  <2>1. c.rx[i + 1].type = "BYE" /\ i + 1 = Len(c.rx) /\ ~c.open BY Zenon, <1>2, <1>4 DEF Orderly
  <2>2. i \in Nat /\ i # 0 /\ 1 \in DOMAIN c.rx BY <1>1, <1>2, <1>4
  <2>3. c.rx[1].type = "BYE" => 1 = Len(c.rx) BY Zenon, <2>2 DEF Orderly
  <2> QED BY <1>2, <2>1, <2>2, <2>3 DEF Parting
<1>5. ~Greets(d)
  <2>1. d.rx \in Seq(Frame) BY Zenon DEF Connection
  <2> QED BY <2>1, <1>3 DEF Greets
<1> QED BY Zenon, <1>3, <1>4, <1>5

WithRx(c, q) == [c EXCEPT !.rx = q]

(* Edits of a connection's queue touch nothing else of it.                   *)
LEMMA RxEdit ==
    ASSUME NEW c \in Connection, NEW q \in Seq(Frame), NEW d, d = WithRx(c, q)
    PROVE  /\ d \in Connection /\ d.rx = q /\ d.row = c.row /\ d.pid = c.pid
           /\ (d.open <=> c.open) /\ (d.helloed <=> c.helloed)
<1>1. d.rx = q BY Zenon DEF Connection, WithRx
<1>2. d.row = c.row BY Zenon DEF Connection, WithRx
<1>3. d.pid = c.pid BY Zenon DEF Connection, WithRx
<1>4. d.open = c.open BY Zenon DEF Connection, WithRx
<1>5. d.helloed = c.helloed BY Zenon DEF Connection, WithRx
<1>6. d \in Connection BY Zenon DEF Connection, WithRx
<1> QED BY Zenon, <1>1, <1>2, <1>3, <1>4, <1>5, <1>6

(* Reading a frame leaves an orderly queue, as long as no HELLO or BYE was   *)
(* acted upon.                                                               *)
LEMMA PopQuiet ==
    ASSUME NEW c \in Connection, Orderly(c), c.rx # <<>>,
           NEW d, d = [c EXCEPT !.rx = Tail(c.rx)]
    PROVE  d \in Connection /\ Quiet(c, d)
<1>1. /\ d \in Connection /\ d.rx = Tail(c.rx) /\ d.row = c.row /\ d.pid = c.pid
      /\ (d.open <=> c.open) /\ (d.helloed <=> c.helloed)
  <2>1. c.rx \in Seq(Frame) BY Zenon DEF Connection
  <2>2. Tail(c.rx) \in Seq(Frame) BY <2>1
  <2>3. d = WithRx(c, Tail(c.rx)) BY Zenon DEF WithRx
  <2> QED BY Zenon, <2>2, <2>3, RxEdit
<1>2. Orderly(d) BY Zenon, <1>1, PopFacts DEF Orderly
<1>3. Parting(d) => Parting(c) BY Zenon, <1>1, PopFacts DEF Parting
<1> QED BY Zenon, <1>1, <1>2, <1>3, PopFacts DEF Quiet

(* A heartbeat or a kernel event behind the others.                         *)
LEMMA AppendQuiet ==
    ASSUME NEW c \in Connection, Orderly(c), c.open, NEW f \in Frame,
           f.type \notin {"HELLO", "BYE"}, NEW d, d = [c EXCEPT !.rx = Append(c.rx, f)]
    PROVE  d \in Connection /\ Quiet(c, d)
<1>1. /\ d \in Connection /\ d.rx = Append(c.rx, f) /\ d.row = c.row /\ d.pid = c.pid
      /\ (d.open <=> c.open) /\ (d.helloed <=> c.helloed) /\ c.rx \in Seq(Frame)
  <2>1. c.rx \in Seq(Frame) BY Zenon DEF Connection
  <2>2. Append(c.rx, f) \in Seq(Frame) BY <2>1
  <2>3. PICK q \in Seq(Frame) : q = Append(c.rx, f) BY Zenon, <2>2
  <2>4. d = WithRx(c, q) BY Zenon, <2>3 DEF WithRx
  <2>5. d \in Connection BY Zenon, <2>4, RxEdit
  <2>6. d.rx = Append(c.rx, f) BY <2>3, <2>4, RxEdit
  <2>7. d.row = c.row /\ d.pid = c.pid BY <2>4, RxEdit
  <2>8. d.open <=> c.open BY <2>4, RxEdit
  <2>9. d.helloed <=> c.helloed BY Zenon, <2>4, RxEdit
  <2> QED BY Zenon, <2>1, <2>5, <2>6, <2>7, <2>8, <2>9
<1>2. /\ Len(d.rx) = Len(c.rx) + 1 /\ DOMAIN d.rx = 1 .. (Len(c.rx) + 1)
      /\ DOMAIN c.rx = 1 .. Len(c.rx)
      /\ \A i \in DOMAIN d.rx : (i \in DOMAIN c.rx /\ d.rx[i] = c.rx[i]) \/ d.rx[i] = f
  BY <1>1
<1>3. \A i \in DOMAIN d.rx : d.rx[i].type \in {"HELLO", "BYE"} =>
        i \in DOMAIN c.rx /\ d.rx[i] = c.rx[i]
  BY Zenon, <1>2
<1>4. Orderly(d)
  BY <1>1, <1>3 DEF Orderly
<1>5. Parting(d) => Parting(c) BY Zenon, <1>3 DEF Parting
<1>6. Greets(d) => Greets(c) /\ d.rx[1] = c.rx[1]
  BY <1>1, <1>2, <1>3 DEF Greets
<1> QED BY Zenon, <1>1, <1>4, <1>5, <1>6 DEF Quiet

-----------------------------------------------------------------------------
(* A registration.                                                         *)

\* p is an entry for the parent of a new one, or there is none.
ParentIn(r, ppid, p) ==
    /\ p \in 0 .. Len(r)
    /\ p # NoRow => Names(r[p], ppid)
    /\ p = NoRow => ~Known(r, ppid)

\* x is the entry of the HELLO f with session m, linked to p.
Registers(r, f, x, m, p) ==
    /\ x \in Row /\ Names(x, f.pid) /\ x.parent = p /\ x.session = m /\ m # NoSession
    /\ ParentIn(r, f.ppid, p)
    /\ f.token # NoSession => m = f.token
    /\ f.token = NoSession /\ p # NoRow => m = r[p].session
\* b is a with WELCOME sent on c.
Welcomed(a, b, c, m) ==
    \A q \in Pids :
        /\ b[q].run = a[q].run /\ b[q].ppid = a[q].ppid /\ b[q].token = a[q].token
        /\ b[q].sock = a[q].sock
        /\ b[q].welcome = IF c.open /\ q = c.pid THEN m ELSE a[q].welcome
\* d is c registered as entry i.
TakesSeat(c, d, i) ==
    /\ d.rx = Tail(c.rx) /\ d.pid = c.pid /\ (d.open <=> c.open) /\ d.helloed
    /\ d.row = i

AfterHello(r, r2, cn, cn2, s, x) ==
    /\ \A i \in DOMAIN r : i \in DOMAIN r2 /\ r2[i] = r[i]
    /\ \A i \in DOMAIN r2 : i \in DOMAIN r \/ i = Len(r) + 1
    /\ r2[Len(r) + 1] = x /\ Len(r) + 1 \in DOMAIN r2
    /\ \A q : Known(r2, q) <=> Known(r, q) \/ q = cn[s].pid
    /\ cn[s].pid \in Pids /\ cn[s].rx[1].pid = cn[s].pid /\ ~Greets(cn2[s])
    /\ Parting(cn2[s]) => Parting(cn[s])
    /\ \A t \in Slots : Greets(cn2[t]) => t # s /\ cn2[t] = cn[t]
    /\ Seats(r2, cn2)

(* What the registry and the connections look like after a HELLO was         *)
(* answered (HELLO in retraced_daemon_frame).                               *)
LEMMA HelloFrame ==
    ASSUME NEW r \in Seq(Row), NEW cn \in [Slots -> Connection],
           NEW cn2 \in [Slots -> Connection],
           NEW s \in Slots, NEW x, NEW m, NEW p,
           Seats(r, cn), Greets(cn[s]), Registers(r, cn[s].rx[1], x, m, p),
           TakesSeat(cn[s], cn2[s], Len(r) + 1),
           \A t \in Slots : t # s => cn2[t] = cn[t]
    PROVE  AfterHello(r, Append(r, x), cn, cn2, s, x)
<1> DEFINE r2 == Append(r, x)
<1>0. x \in Row BY Zenon DEF Registers
<1>1. /\ DOMAIN r2 = 1 .. (Len(r) + 1) /\ r2[Len(r) + 1] = x /\ DOMAIN r = 1 .. Len(r)
      /\ \A j \in 1 .. Len(r) : r2[j] = r[j]
      /\ Len(r) \in Nat
  BY <1>0
<1> HIDE DEF r2
<1>2. cn[s] \in Connection /\ cn2[s] \in Connection /\ Orderly(cn[s]) BY Zenon DEF Seats
<1>3. cn[s].pid # 0 /\ cn[s].rx[1].pid = cn[s].pid /\ cn[s].row = NoRow
  <2>1. cn[s].rx \in Seq(Frame) BY Zenon, <1>2 DEF Connection
  <2>2. 1 \in DOMAIN cn[s].rx BY <2>1 DEF Greets
  <2> QED BY Zenon, <1>2, <2>2 DEF Orderly, Greets
<1>4. cn[s].pid \in Pids BY Zenon, <1>2, <1>3 DEF Connection
<1>5. /\ ~Greets(cn2[s])
      /\ \A i \in DOMAIN cn2[s].rx : cn2[s].rx[i].type # "HELLO"
      /\ \A i \in DOMAIN cn2[s].rx : cn2[s].rx[i].type = "BYE" =>
           i = Len(cn2[s].rx) /\ ~cn[s].open /\ Parting(cn[s])
  BY Zenon, <1>2, PopFacts DEF TakesSeat, Greets
<1>6. Names(x, cn[s].pid) BY Zenon, <1>3 DEF Registers
<1>7. ASSUME NEW q PROVE Known(r2, q) <=> Known(r, q) \/ q = cn[s].pid
  BY <1>1, <1>6 DEF Known, Names
<1>8. Orderly(cn2[s])
  BY <1>1, <1>3, <1>5 DEF Orderly, TakesSeat, NoRow
<1>9. Seated(cn2[s], r2)
  BY <1>1, <1>6 DEF Seated, TakesSeat, Names
<1>10. Seats(r2, cn2)
  <2>1. ASSUME NEW t \in Slots, t # s PROVE Orderly(cn2[t]) /\ Seated(cn2[t], r2)
    BY <1>1, <2>1 DEF Seats, Seated
  <2>2. ASSUME NEW t \in Slots, t # s, cn2[t].row # NoRow PROVE cn2[t].row \in 1 .. Len(r)
    BY Zenon, <1>1, <2>2 DEF Seats, Seated
  <2>3. \A t, u \in Slots : cn2[t].row # NoRow /\ cn2[t].row = cn2[u].row => t = u
    BY <1>1, <2>2 DEF Seats, TakesSeat
  <2> QED BY Zenon, <1>8, <1>9, <2>1, <2>3 DEF Seats
<1> QED BY <1>1, <1>3, <1>4, <1>5, <1>7, <1>10 DEF r2, Parting, AfterHello

(* HELLO admitted: the fresh entry takes its seat, its link and its session  *)
(* agree with the sender, its parent and the HELLOs still on their way.      *)
LEMMA WorldHello ==
    ASSUME NEW r \in Seq(Row), NEW cn \in [Slots -> Connection],
           NEW cn2 \in [Slots -> Connection], NEW a \in [Pids -> Process],
           NEW b \in [Pids -> Process], NEW race,
           NEW s \in Slots, NEW x, NEW m, NEW p,
           World(r, cn, a, race), Greets(cn[s]), Registers(r, cn[s].rx[1], x, m, p),
           TakesSeat(cn[s], cn2[s], Len(r) + 1),
           \A t \in Slots : t # s => cn2[t] = cn[t],
           Welcomed(a, b, cn[s], m)
    PROVE  World(Append(r, x), cn2, b, race)
<1> DEFINE r2 == Append(r, x)
           n == Len(r) + 1
           u == cn[s].pid
           f == cn[s].rx[1]
<1>0. Seats(r, cn) BY Zenon DEF World
<1>1. /\ \A i \in DOMAIN r : i \in DOMAIN r2 /\ r2[i] = r[i]
      /\ \A i \in DOMAIN r2 : i \in DOMAIN r \/ i = n
      /\ r2[n] = x /\ n \in DOMAIN r2
      /\ \A q : Known(r2, q) <=> Known(r, q) \/ q = u
      /\ u \in Pids /\ f.pid = u /\ ~Greets(cn2[s])
      /\ Parting(cn2[s]) => Parting(cn[s])
      /\ \A t \in Slots : Greets(cn2[t]) => t # s /\ cn2[t] = cn[t]
      /\ Seats(r2, cn2)
  <2>1. AfterHello(r, Append(r, x), cn, cn2, s, x) BY Zenon, <1>0, HelloFrame
  <2> QED BY Zenon, <2>1 DEF AfterHello
<1>2. /\ Names(x, u) /\ x.parent = p /\ x.session = m /\ m # NoSession /\ x \in Row
      /\ ParentIn(r, f.ppid, p)
      /\ f.token # NoSession => m = f.token
      /\ f.token = NoSession /\ p # NoRow => m = r[p].session
  BY Zenon, <1>1 DEF Registers
<1>3. DOMAIN r = 1 .. Len(r) /\ Len(r2) = n /\ Len(r) \in Nat BY <1>2
<1>4. cn2[s].pid = u /\ (cn2[s].open <=> cn[s].open) /\ cn2[s].row = n BY Zenon DEF TakesSeat
<1>5. /\ Ends(cn, a)
      /\ ~race => Sessions(r, cn, a) /\ Shared(r)
  BY Zenon DEF World
<1>6. Links(r2)
  <2>1. ASSUME NEW i \in DOMAIN r2
        PROVE  r2[i].parent \in 0 .. Len(r2) /\ r2[i].session # NoSession
    <3>1. CASE i \in DOMAIN r
      BY <1>1, <1>3, <3>1 DEF World, Links
    <3>2. CASE i = n BY <1>1, <1>2, <1>3, <3>2 DEF ParentIn
    <3> QED BY Zenon, <1>1, <3>1, <3>2
  <2> QED BY Zenon, <2>1 DEF Links
<1> HIDE DEF r2, n, u, f
<1>7. \A q \in Pids : b[q].welcome # a[q].welcome =>
        q = u /\ cn[s].open /\ a[q].sock = s /\ b[q].welcome = m
  BY ZenonT(40), <1>1, <1>5 DEF Welcomed, Ends, u
<1>8. Ends(cn2, b)
  <2>1. \A q \in Pids : b[q].run # "running" => Ended(b[q])
    <3>1. ASSUME NEW q \in Pids, b[q].run # "running" PROVE Ended(b[q])
      <4>1. Ended(a[q]) BY Zenon, <1>5, <3>1 DEF Ends, Welcomed
      <4>2. a[q].sock # s BY Zenon, <4>1, SlotsAssumption DEF Ended
      <4> QED BY Zenon, <1>7, <4>1, <4>2 DEF Ended, Welcomed
    <3> QED BY Zenon, <3>1
  <2>2. \A q \in Pids : b[q].sock \in Slots =>
          cn2[b[q].sock].pid = q /\ cn2[b[q].sock].open
    <3>1. ASSUME NEW q \in Pids, b[q].sock \in Slots
          PROVE  cn2[b[q].sock].pid = q /\ cn2[b[q].sock].open
      <4>1. b[q].sock = a[q].sock BY Zenon DEF Welcomed
      <4>2. cn[a[q].sock].pid = q /\ cn[a[q].sock].open BY Zenon, <1>5, <3>1, <4>1 DEF Ends
      <4> QED BY <1>4, <3>1, <4>1, <4>2 DEF u
    <3> QED BY Zenon, <3>1
  <2>3. \A t \in Slots : cn2[t].open => cn2[t].pid \in Pids /\ b[cn2[t].pid].sock = t
    <3>1. ASSUME NEW t \in Slots, cn2[t].open
          PROVE  cn2[t].pid \in Pids /\ b[cn2[t].pid].sock = t
      <4>1. cn[t].open /\ cn2[t].pid = cn[t].pid BY Zenon, <1>4, <3>1 DEF u
      <4>2. cn[t].pid \in Pids /\ a[cn[t].pid].sock = t BY Zenon, <1>5, <4>1 DEF Ends
      <4> QED BY <4>1, <4>2 DEF Welcomed
    <3> QED BY Zenon, <3>1
  <2>4. \A q \in Pids : b[q].welcome # NoSession => b[q].sock \in Slots
    BY <1>5, <1>7 DEF Ends, Welcomed
  <2>5. \A q \in Pids : b[q].ppid # Outside => b[b[q].ppid].run = "running"
    <3>1. ASSUME NEW q \in Pids, b[q].ppid # Outside PROVE b[b[q].ppid].run = "running"
      <4>1. b[q].ppid = a[q].ppid /\ a[q].ppid \in Pids BY <3>1 DEF Welcomed, Process
      <4> QED BY <1>5, <3>1, <4>1 DEF Ends, Welcomed
    <3> QED BY Zenon, <3>1
  <2> QED BY Zenon, <2>1, <2>2, <2>3, <2>4, <2>5 DEF Ends
<1>9. ASSUME ~race PROVE Sessions(r2, cn2, b) /\ Shared(r2)
  <2>0. /\ EntriesAgree(r, a) /\ WelcomeAgrees(a) /\ TreeAgrees(r, a)
        /\ GreetingsAgree(r, cn, a) /\ ByesAgree(cn, a) /\ Shared(r)
    BY Zenon, <1>5, <1>9 DEF Sessions
  <2>1. Shared(r2)
    <3>1. ASSUME NEW i \in DOMAIN r, r2[i].parent # NoRow
          PROVE  r2[i].session = r2[r2[i].parent].session
      <4>1. r2[i] = r[i] /\ r[i].parent \in 0 .. Len(r) BY Zenon, <1>1, <3>1 DEF World, Links
      <4>2. r[i].parent \in DOMAIN r BY <1>3, <3>1, <4>1 DEF NoRow
      <4>3. r[i].session = r[r[i].parent].session BY Zenon, <2>0, <3>1, <4>1 DEF Shared
      <4>4. r2[r[i].parent] = r[r[i].parent] BY Zenon, <1>1, <4>2
      <4> QED BY Zenon, <4>1, <4>3, <4>4
    <3>2. ASSUME p # NoRow PROVE m = r2[p].session
      <4>1. p \in DOMAIN r /\ Names(r[p], f.ppid) BY <1>2, <1>3, <3>2 DEF ParentIn, NoRow
      <4>2. r2[p] = r[p] BY Zenon, <1>1, <4>1
      <4>3. GreetsLinked(cn[s], r[p]) BY Zenon, <2>0, <4>1 DEF GreetingsAgree, f
      <4> QED BY Zenon, <1>2, <3>2, <4>2, <4>3 DEF GreetsLinked, f
    <3> QED BY Zenon, <1>1, <1>2, <3>1, <3>2 DEF Shared
  <2>2. ASSUME a[u].run = "running"
        PROVE  /\ f.token = a[u].token
               /\ a[u].ppid \in {f.ppid, Outside}
               /\ f.token = NoSession => a[u].welcome = NoSession /\ cn[s].open /\ ~Known(r, u)
    <3>1. GreetsForSelf(cn[s], a[u], Known(r, u))
      BY Zenon, <1>1, <2>0, <2>2 DEF GreetingsAgree, u
    <3> QED BY Zenon, <3>1 DEF GreetsForSelf, f
  <2>3. \A q \in Pids : b[q].run = a[q].run /\ b[q].ppid = a[q].ppid
                        /\ b[q].token = a[q].token
    BY Zenon DEF Welcomed
  <2>4. EntriesAgree(r2, b)
    <3>1. ASSUME NEW i \in DOMAIN r2, NEW q \in Pids, Names(r2[i], q), b[q].run = "running"
          PROVE  EntryAgrees(r2[i], b[q])
      <4>1. CASE i \in DOMAIN r
        <5>1. r2[i] = r[i] /\ EntryAgrees(r[i], a[q])
          BY Zenon, <1>1, <2>0, <2>3, <3>1, <4>1 DEF EntriesAgree
        <5>2. Known(r, q) BY Zenon, <3>1, <4>1, <5>1 DEF Known
        <5>3. a[q].token = NoSession => b[q].welcome = a[q].welcome
          BY Zenon, <1>7, <2>2, <2>3, <3>1, <5>2
        <5> QED BY Zenon, <2>3, <5>1, <5>3 DEF EntryAgrees
      <4>2. CASE i = n
        <5>1. q = u /\ r2[i] = x BY Zenon, <1>1, <1>2, <3>1, <4>2 DEF Names
        <5>2. f.token = a[q].token /\ (f.token = NoSession => cn[s].open)
          BY Zenon, <2>2, <2>3, <3>1, <5>1
        <5>3. cn[s].open => b[q].welcome = m BY Zenon, <5>1 DEF Welcomed, u
        <5> QED BY Zenon, <1>2, <2>3, <5>1, <5>2, <5>3 DEF EntryAgrees
      <4> QED BY Zenon, <1>1, <3>1, <4>1, <4>2
    <3> QED BY Zenon, <3>1 DEF EntriesAgree
  <2>5. ASSUME cn[s].open PROVE a[u].run = "running"
    <3>1. a[u].sock = s BY Zenon, <1>5, <2>5 DEF Ends, u
    <3>2. s # "none" BY Zenon, SlotsAssumption
    <3>3. a[u].run # "running" => Ended(a[u]) BY Zenon, <1>1, <1>5 DEF Ends
    <3> QED BY Zenon, <3>1, <3>2, <3>3 DEF Ended
  <2>6. WelcomeAgrees(b)
    <3>1. ASSUME NEW q \in Pids, b[q].welcome # NoSession
          PROVE  Agrees(b[q].token, b[q].welcome)
      <4>1. CASE b[q].welcome = a[q].welcome
        BY Zenon, <2>0, <2>3, <3>1, <4>1 DEF WelcomeAgrees
      <4>2. CASE b[q].welcome # a[q].welcome
        BY Zenon, <1>2, <1>7, <2>2, <2>3, <2>5, <4>2 DEF Agrees
      <4> QED BY Zenon, <4>1, <4>2
    <3> QED BY Zenon, <3>1 DEF WelcomeAgrees
  <2>7. TreeAgrees(r2, b)
    <3>1. ASSUME NEW v \in Pids, NEW q \in Pids, b[q].ppid = v
          PROVE  ChildAgrees(b[v], b[q], Known(r2, v))
      <4>1. ChildAgrees(a[v], a[q], Known(r, v)) BY Zenon, <2>0, <2>3, <3>1 DEF TreeAgrees
      <4>2. CASE b[q].welcome = a[q].welcome
        BY Zenon, <1>1, <2>3, <4>1, <4>2 DEF ChildAgrees
      <4>3. CASE b[q].welcome # a[q].welcome
        <5>1. q = u /\ b[q].welcome = m /\ a[u].run = "running" BY Zenon, <1>7, <2>5, <4>3
        <5>2. v # Outside BY Zenon, PidsAssumption DEF Outside
        <5>3. f.ppid = v /\ f.token = a[u].token BY Zenon, <2>2, <2>3, <3>1, <5>1, <5>2
        <5>4. CASE f.token # NoSession
          BY Zenon, <1>1, <1>2, <2>3, <4>1, <5>1, <5>3, <5>4 DEF ChildAgrees, Agrees
        <5>5. CASE f.token = NoSession
          <6>1. Known(r, v) /\ a[v].token # NoSession
            BY Zenon, <4>1, <5>1, <5>3, <5>5 DEF ChildAgrees
          <6>2. p # NoRow /\ p \in DOMAIN r /\ Names(r[p], v)
            BY <1>2, <1>3, <5>3, <6>1 DEF ParentIn, NoRow
          <6>3. a[v].run = "running" BY Zenon, <1>5, <6>1 DEF Ends, Ended
          <6>4. EntryAgrees(r[p], a[v]) BY Zenon, <2>0, <6>2, <6>3 DEF EntriesAgree
          <6>5. m = a[v].token BY Zenon, <1>2, <5>5, <6>1, <6>2, <6>4 DEF EntryAgrees
          <6> QED BY Zenon, <1>1, <2>3, <4>1, <5>1, <6>5 DEF ChildAgrees, Agrees
        <5> QED BY Zenon, <5>4, <5>5
      <4> QED BY Zenon, <4>2, <4>3
    <3> QED BY Zenon, <3>1 DEF TreeAgrees
  <2>8. GreetingsAgree(r2, cn2, b)
    <3>1. ASSUME NEW t \in Slots, NEW q \in Pids, Greets(cn2[t]), b[q].run = "running"
          PROVE  /\ cn2[t].pid = q => GreetsForSelf(cn2[t], b[q], Known(r2, q))
                 /\ cn2[t].rx[1].ppid = q => GreetsUnder(cn2[t], b[q])
      <4>1. t # s /\ cn2[t] = cn[t] BY Zenon, <1>1, <3>1
      <4>2. /\ cn[t].pid = q => GreetsForSelf(cn[t], a[q], Known(r, q))
            /\ cn[t].rx[1].ppid = q => GreetsUnder(cn[t], a[q])
        BY Zenon, <2>0, <2>3, <3>1, <4>1 DEF GreetingsAgree
      <4>3. cn[t].pid = u => cn[t].rx[1].token # NoSession
        BY Zenon, <2>0, <3>1, <4>1 DEF GreetingsAgree, u
      <4>4. ASSUME cn[t].pid = q PROVE GreetsForSelf(cn[t], b[q], Known(r2, q))
        <5>1. cn[t].rx[1].token = a[q].token /\ a[q].ppid \in {cn[t].rx[1].ppid, Outside}
          BY Zenon, <4>2, <4>4 DEF GreetsForSelf
        <5>2. ASSUME a[q].token = NoSession
              PROVE  b[q].welcome = NoSession /\ cn[t].open /\ ~Known(r2, q)
          <6>1. q # u BY Zenon, <4>3, <4>4, <5>1, <5>2
          <6> QED BY Zenon, <1>1, <1>7, <4>2, <4>4, <5>2, <6>1 DEF GreetsForSelf
        <5> QED BY Zenon, <2>3, <5>1, <5>2 DEF GreetsForSelf
      <4> QED BY Zenon, <2>3, <4>1, <4>2, <4>4 DEF GreetsUnder
    <3>2. ASSUME NEW t \in Slots, NEW i \in DOMAIN r2, Greets(cn2[t]),
                 Names(r2[i], cn2[t].rx[1].ppid)
          PROVE  GreetsLinked(cn2[t], r2[i])
      <4>1. t # s /\ cn2[t] = cn[t] BY Zenon, <1>1, <3>2
      <4>2. CASE i \in DOMAIN r BY Zenon, <1>1, <2>0, <3>2, <4>1, <4>2 DEF GreetingsAgree
      <4>3. CASE i = n
        <5>1. cn[t].rx[1].ppid = u BY Zenon, <1>1, <1>2, <3>2, <4>1, <4>3 DEF Names
        <5>2. GreetsWithParent(cn[t], cn[s])
          BY Zenon, <2>0, <3>2, <4>1, <5>1 DEF GreetingsAgree, u
        <5> QED BY Zenon, <1>1, <1>2, <4>1, <4>3, <5>2
             DEF GreetsWithParent, GreetsLinked, Agrees, f
      <4> QED BY Zenon, <1>1, <3>2, <4>2, <4>3
    <3>3. ASSUME NEW t \in Slots, NEW v \in Slots, Greets(cn2[t]), Greets(cn2[v])
          PROVE  /\ cn2[t].rx[1].ppid = cn2[v].pid => GreetsWithParent(cn2[t], cn2[v])
                 /\ cn2[t].pid = cn2[v].pid /\ t # v => cn2[v].rx[1].token # NoSession
      <4>1. cn2[t] = cn[t] /\ cn2[v] = cn[v] BY Zenon, <1>1, <3>3
      <4> QED BY Zenon, <2>0, <3>3, <4>1 DEF GreetingsAgree
    <3> QED BY Zenon, <3>1, <3>2, <3>3 DEF GreetingsAgree
  <2>9. ByesAgree(cn2, b)
    <3>1. ASSUME NEW t \in Slots, NEW q \in Pids, Parting(cn2[t]), cn2[t].pid = q,
                 cn2[t].row # NoRow \/ Greets(cn2[t])
          PROVE  b[q].run # "running"
      <4>1. CASE t = s
        <5>1. Parting(cn[s]) /\ cn[s].pid = q BY Zenon, <1>1, <1>4, <3>1, <4>1 DEF u
        <5> QED BY Zenon, <2>0, <2>3, <5>1 DEF ByesAgree
      <4>2. CASE t # s BY ZenonT(40), <2>0, <2>3, <3>1, <4>2 DEF ByesAgree
      <4> QED BY Zenon, <4>1, <4>2
    <3> QED BY Zenon, <3>1 DEF ByesAgree
  <2> QED BY Zenon, <2>1, <2>4, <2>6, <2>7, <2>8, <2>9 DEF Sessions
<1> QED BY Zenon, <1>1, <1>6, <1>8, <1>9 DEF World, r2

-----------------------------------------------------------------------------
(* BYE.                                                                    *)

\* d is c after its BYE was handled; r2 is r with the entry c.row GONE.
Leaves(c, d) ==
    /\ d.rx = Tail(c.rx) /\ d.pid = c.pid /\ (d.open <=> c.open) /\ ~d.helloed
    /\ d.row = c.row
GoneAt(r, r2, n) ==
    /\ r2 \in Seq(Row) /\ Len(r2) = Len(r)
    /\ \A i \in 1 .. Len(r) :
         /\ r2[i].pid = r[i].pid /\ r2[i].session = r[i].session
         /\ r2[i].parent = r[i].parent
         /\ r2[i].state = IF i = n THEN "GONE" ELSE r[i].state

(* A BYE (BYE in retraced_daemon_frame, retraced_registry_bye) ends an entry *)
(* no running process and no child still needs.                             *)
LEMMA WorldBye ==
    ASSUME NEW r \in Seq(Row), NEW r2, NEW cn \in [Slots -> Connection],
           NEW cn2 \in [Slots -> Connection], NEW a \in [Pids -> Process], NEW race,
           NEW s \in Slots, World(r, cn, a, race), cn[s].rx # <<>>,
           cn[s].rx[1].type = "BYE", Leaves(cn[s], cn2[s]), GoneAt(r, r2, cn[s].row),
           \A t \in Slots : t # s => cn2[t] = cn[t]
    PROVE  World(r2, cn2, a, race)
<1>1. /\ DOMAIN r = 1 .. Len(r) /\ DOMAIN r2 = DOMAIN r /\ Len(r2) = Len(r)
      /\ \A i \in DOMAIN r : /\ r2[i].pid = r[i].pid /\ r2[i].session = r[i].session
                             /\ r2[i].parent = r[i].parent
                             /\ r2[i].state = IF i = cn[s].row THEN "GONE" ELSE r[i].state
  BY DEF GoneAt
<1>2. Seats(r, cn) /\ Ends(cn, a) /\ Orderly(cn[s]) /\ Seated(cn[s], r)
  BY Zenon DEF World, Seats
<1>3. cn[s] \in Connection /\ cn2[s] \in Connection /\ cn[s].rx \in Seq(Frame)
  BY Zenon DEF Connection
<1>4. 1 \in DOMAIN cn[s].rx /\ Len(cn[s].rx) = 1 /\ ~cn[s].open /\ Parting(cn[s])
  <2>1. 1 \in DOMAIN cn[s].rx BY <1>3
  <2> QED BY Zenon, <1>2, <2>1 DEF Orderly, Parting
<1>5. cn2[s].rx = <<>> /\ ~cn2[s].open /\ cn2[s].pid = cn[s].pid /\ ~cn2[s].helloed
      /\ cn2[s].row = cn[s].row
  <2>a. PICK q \in Seq(Frame) : q = Tail(cn[s].rx) /\ Len(q) = 0
    <3>1. PICK w \in Seq(Frame) : w = cn[s].rx /\ Len(w) = 1 /\ w # <<>> BY Zenon, <1>3, <1>4
    <3>2. Tail(w) \in Seq(Frame) /\ Len(Tail(w)) = 0 BY <3>1
    <3> QED BY Zenon, <3>1, <3>2
  <2>1. Tail(cn[s].rx) = <<>> BY <2>a
  <2> QED BY Zenon, <1>4, <2>1 DEF Leaves
<1>6. Links(r2) BY Zenon, <1>1 DEF World, Links
<1>7. Seats(r2, cn2)
  <2>1. Orderly(cn2[s]) BY <1>5 DEF Orderly
  <2>2. Seated(cn2[s], r2) BY Zenon, <1>1, <1>2, <1>5 DEF Seated
  <2>3. ASSUME NEW t \in Slots, t # s PROVE Orderly(cn2[t]) /\ Seated(cn2[t], r2)
    <3>1. cn2[t] = cn[t] /\ Orderly(cn[t]) /\ Seated(cn[t], r) BY Zenon, <1>2, <2>3 DEF Seats
    <3>2. cn[t].row # NoRow => cn[t].row # cn[s].row BY Zenon, <1>2, <2>3 DEF Seats
    <3> QED BY <1>1, <3>1, <3>2 DEF Seated
  <2>4. \A t, u \in Slots : cn2[t].row # NoRow /\ cn2[t].row = cn2[u].row => t = u
    <3>1. \A t \in Slots : cn2[t].row = cn[t].row BY Zenon, <1>5
    <3>2. \A t, u \in Slots : cn[t].row # NoRow /\ cn[t].row = cn[u].row => t = u
      BY Zenon, <1>2 DEF Seats
    <3> QED BY Zenon, <3>1, <3>2
  <2> QED BY Zenon, <2>1, <2>2, <2>3, <2>4 DEF Seats
<1>8. Ends(cn2, a)
  <2>1. \A t \in Slots : cn2[t].pid = cn[t].pid /\ (cn2[t].open <=> cn[t].open)
    BY Zenon, <1>4, <1>5
  <2> QED BY Zenon, <1>2, <2>1 DEF Ends
<1>9. ASSUME ~race PROVE Sessions(r2, cn2, a) /\ Shared(r2)
  <2>0. /\ EntriesAgree(r, a) /\ WelcomeAgrees(a) /\ TreeAgrees(r, a)
        /\ GreetingsAgree(r, cn, a) /\ ByesAgree(cn, a) /\ Shared(r)
    BY Zenon, <1>9 DEF World, Sessions
  <2>1. Shared(r2)
    <3>1. ASSUME NEW i \in DOMAIN r, r2[i].parent # NoRow
          PROVE  r2[i].session = r2[r2[i].parent].session
      <4>1. r[i].parent \in DOMAIN r BY <1>1, <3>1 DEF World, Links, NoRow
      <4> QED BY <1>1, <2>0, <3>1, <4>1 DEF Shared
    <3> QED BY Zenon, <1>1, <3>1 DEF Shared
  <2>2. \A i \in DOMAIN r : \A q : Names(r2[i], q) => Names(r[i], q) BY Zenon, <1>1 DEF Names
  <2>3. \A q : Known(r2, q) => Known(r, q) BY Zenon, <1>1, <2>2 DEF Known
  <2>4. ASSUME NEW q \in Pids, a[q].run = "running", Known(r, q) PROVE Known(r2, q)
    <3>1. PICK i \in DOMAIN r : Names(r[i], q) BY Zenon, <2>4 DEF Known
    <3>2. CASE i = cn[s].row
      <4>1. cn[s].row # NoRow BY <1>1, <3>2 DEF NoRow
      <4>2. cn[s].pid = q BY Zenon, <1>2, <1>4, <3>1, <3>2, <4>1 DEF Seated, Names, Orderly
      <4>3. FALSE BY Zenon, <1>4, <2>0, <2>4, <4>1, <4>2 DEF ByesAgree
      <4> QED BY Zenon, <4>3
    <3>3. CASE i # cn[s].row BY Zenon, <1>1, <3>1, <3>3 DEF Known, Names
    <3> QED BY Zenon, <3>2, <3>3
  <2>5. EntriesAgree(r2, a)
    BY <1>1, <2>0, <2>2 DEF EntriesAgree, EntryAgrees
  <2>6. TreeAgrees(r2, a)
    <3>1. ASSUME NEW v \in Pids, NEW q \in Pids, a[q].ppid = v
          PROVE  ChildAgrees(a[v], a[q], Known(r2, v))
      <4>1. a[v].run = "running" BY Zenon, <1>2, <3>1, PidsAssumption DEF Ends, Outside
      <4>2. ChildAgrees(a[v], a[q], Known(r, v)) BY Zenon, <2>0, <3>1 DEF TreeAgrees
      <4> QED BY Zenon, <2>4, <4>1, <4>2 DEF ChildAgrees
    <3> QED BY Zenon, <3>1 DEF TreeAgrees
  <2>7. \A t \in Slots : Greets(cn2[t]) => cn2[t] = cn[t] BY Zenon, <1>5 DEF Greets
  <2>8. GreetingsAgree(r2, cn2, a)
    <3>1. ASSUME NEW t \in Slots, NEW q \in Pids, Greets(cn2[t]), a[q].run = "running"
          PROVE  /\ cn2[t].pid = q => GreetsForSelf(cn2[t], a[q], Known(r2, q))
                 /\ cn2[t].rx[1].ppid = q => GreetsUnder(cn2[t], a[q])
      <4>1. cn2[t] = cn[t] BY Zenon, <2>7, <3>1
      <4>2. /\ cn[t].pid = q => GreetsForSelf(cn[t], a[q], Known(r, q))
            /\ cn[t].rx[1].ppid = q => GreetsUnder(cn[t], a[q])
        BY Zenon, <2>0, <3>1, <4>1 DEF GreetingsAgree
      <4> QED BY Zenon, <2>3, <4>1, <4>2 DEF GreetsForSelf
    <3>2. ASSUME NEW t \in Slots, NEW i \in DOMAIN r, Greets(cn2[t]),
                 Names(r2[i], cn2[t].rx[1].ppid)
          PROVE  GreetsLinked(cn2[t], r2[i])
      <4>1. GreetsLinked(cn[t], r[i]) /\ cn2[t] = cn[t]
        BY Zenon, <2>0, <2>2, <2>7, <3>2 DEF GreetingsAgree
      <4> QED BY Zenon, <1>1, <4>1 DEF GreetsLinked
    <3>3. ASSUME NEW t \in Slots, NEW v \in Slots, Greets(cn2[t]), Greets(cn2[v])
          PROVE  /\ cn2[t].rx[1].ppid = cn2[v].pid => GreetsWithParent(cn2[t], cn2[v])
                 /\ cn2[t].pid = cn2[v].pid /\ t # v => cn2[v].rx[1].token # NoSession
      <4>1. cn2[t] = cn[t] /\ cn2[v] = cn[v] BY Zenon, <2>7, <3>3
      <4> QED BY Zenon, <2>0, <3>3, <4>1 DEF GreetingsAgree
    <3> QED BY Zenon, <1>1, <3>1, <3>2, <3>3 DEF GreetingsAgree
  <2>9. ByesAgree(cn2, a)
    <3>1. ~Parting(cn2[s]) BY <1>5 DEF Parting
    <3> QED BY Zenon, <2>0, <3>1 DEF ByesAgree
  <2> QED BY Zenon, <2>0, <2>1, <2>5, <2>6, <2>8, <2>9 DEF Sessions
<1> QED BY Zenon, <1>6, <1>7, <1>8, <1>9 DEF World

-----------------------------------------------------------------------------
(* A new connection.                                                       *)

\* d is a fresh connection of p, whose process is x, with its HELLO.
Opens(d, p, x) ==
    /\ d.pid = p /\ d.open /\ ~d.helloed /\ d.row = NoRow /\ Len(d.rx) = 1
    /\ d.rx[1].type = "HELLO" /\ d.rx[1].pid = p /\ d.rx[1].ppid = x.ppid
    /\ d.rx[1].token = x.token
\* b is a with the connection s for p.
Connects(a, b, p, s) ==
    \A q \in Pids :
        /\ b[q].run = a[q].run /\ b[q].ppid = a[q].ppid /\ b[q].token = a[q].token
        /\ b[q].welcome = a[q].welcome
        /\ b[q].sock = IF q = p THEN s ELSE a[q].sock

(* The HELLO of a new connection agrees with the tree, the entries and the   *)
(* HELLOs before it (accept in retraced_daemon_serve).                      *)
LEMMA WorldAccept ==
    ASSUME NEW r \in Seq(Row), NEW cn \in [Slots -> Connection],
           NEW cn2 \in [Slots -> Connection], NEW a \in [Pids -> Process],
           NEW b \in [Pids -> Process], NEW race,
           NEW s \in Slots, NEW p \in Pids, World(r, cn, a, race), cn[s].pid = 0,
           a[p].run = "running", a[p].sock = "none",
           Opens(cn2[s], p, a[p]), Connects(a, b, p, s),
           \A t \in Slots : t # s => cn2[t] = cn[t]
    PROVE  World(r, cn2, b, race)
<1>1. Links(r) /\ Seats(r, cn) /\ Ends(cn, a) BY Zenon DEF World
<1>2. cn[s].rx = <<>> /\ ~cn[s].open /\ cn2[s].rx \in Seq(Frame)
  <2>1. cn2[s] \in Connection BY Zenon
  <2> QED BY Zenon, <1>1, <2>1 DEF Seats, Orderly, Connection
<1>3. DOMAIN cn2[s].rx = {1} /\ p # 0 /\ Greets(cn2[s]) /\ ~Parting(cn2[s])
  <2>1. DOMAIN cn2[s].rx = 1 .. 1 BY <1>2 DEF Opens
  <2>2. DOMAIN cn2[s].rx = {1} BY <2>1
  <2>3. cn2[s].rx # <<>> BY <1>2 DEF Opens
  <2> QED BY Zenon, <2>2, <2>3, PidsAssumption DEF Opens, Greets, Parting
<1>4. Seats(r, cn2)
  <2>1. Orderly(cn2[s]) /\ Seated(cn2[s], r) BY Zenon, <1>3 DEF Orderly, Seated, Opens
  <2>2. \A t, u \in Slots : cn2[t].row # NoRow /\ cn2[t].row = cn2[u].row => t = u
    BY <1>1 DEF Seats, Opens
  <2> QED BY Zenon, <1>1, <2>1, <2>2 DEF Seats
<1>5. Ends(cn2, b)
  <2>1. \A q \in Pids : b[q].run # "running" => Ended(b[q])
    BY <1>1 DEF Ends, Connects, Ended
  <2>2. ASSUME NEW q \in Pids, b[q].sock \in Slots
        PROVE  cn2[b[q].sock].pid = q /\ cn2[b[q].sock].open
    <3>1. CASE q = p BY Zenon, <3>1 DEF Connects, Opens
    <3>2. CASE q # p
      <4>1. b[q].sock = a[q].sock BY Zenon, <3>2 DEF Connects
      <4>2. cn[a[q].sock].pid = q /\ cn[a[q].sock].open BY Zenon, <1>1, <2>2, <4>1 DEF Ends
      <4> QED BY Zenon, <1>2, <2>2, <4>1, <4>2
    <3> QED BY Zenon, <3>1, <3>2
  <2>3. ASSUME NEW t \in Slots, cn2[t].open
        PROVE  cn2[t].pid \in Pids /\ b[cn2[t].pid].sock = t
    <3>1. CASE t = s BY Zenon, <3>1 DEF Connects, Opens
    <3>2. CASE t # s
      <4>1. cn[t].pid \in Pids /\ a[cn[t].pid].sock = t BY Zenon, <1>1, <2>3, <3>2 DEF Ends
      <4> QED BY <3>2, <4>1, SlotsAssumption DEF Connects
    <3> QED BY Zenon, <3>1, <3>2
  <2>4. \A q \in Pids : b[q].welcome # NoSession => b[q].sock \in Slots
    BY <1>1 DEF Ends, Connects
  <2>5. ASSUME NEW q \in Pids, b[q].ppid # Outside PROVE b[b[q].ppid].run = "running"
    <3>1. b[q].ppid = a[q].ppid /\ a[q].ppid \in Pids BY <2>5 DEF Connects, Process
    <3> QED BY <1>1, <2>5, <3>1 DEF Ends, Connects
  <2> QED BY Zenon, <2>1, <2>2, <2>3, <2>4, <2>5 DEF Ends
<1>6. ASSUME ~race PROVE Sessions(r, cn2, b)
  <2>0. /\ EntriesAgree(r, a) /\ WelcomeAgrees(a) /\ TreeAgrees(r, a)
        /\ GreetingsAgree(r, cn, a) /\ ByesAgree(cn, a)
    BY Zenon, <1>6 DEF World, Sessions
  <2>1. EntriesAgree(r, b) BY <2>0 DEF EntriesAgree, EntryAgrees, Connects
  <2>2. WelcomeAgrees(b) BY Zenon, <2>0 DEF WelcomeAgrees, Connects
  <2>3. TreeAgrees(r, b) BY ZenonT(40), <2>0 DEF TreeAgrees, ChildAgrees, Connects
  <2>4. ByesAgree(cn2, b) BY <1>3, <2>0 DEF ByesAgree, Connects
  <2>5. ASSUME NEW q \in Pids, a[p].ppid = q
        PROVE  /\ a[q].run = "running" /\ a[q].token # NoSession
               /\ Agrees(a[p].token, a[q].token)
    <3>1. ChildAgrees(a[q], a[p], Known(r, q)) BY Zenon, <2>0, <2>5 DEF TreeAgrees
    <3>2. q # 0 BY Zenon, PidsAssumption
    <3> QED BY Zenon, <1>1, <2>5, <3>1, <3>2 DEF Ends, ChildAgrees, Outside
  <2>6. a[p].welcome = NoSession BY Zenon, <1>1, SlotsAssumption DEF Ends
  <2>7. a[p].token = NoSession => ~Known(r, p)
    <3>1. ASSUME NEW i \in DOMAIN r, Names(r[i], p), a[p].token = NoSession PROVE FALSE
      <4>1. EntryAgrees(r[i], a[p]) BY Zenon, <2>0, <3>1 DEF EntriesAgree
      <4> QED BY Zenon, <1>1, <2>6, <3>1, <4>1 DEF EntryAgrees, Links
    <3> QED BY Zenon, <3>1 DEF Known
  <2>8. ASSUME NEW t \in Slots, NEW q \in Pids, Greets(cn2[t]), b[q].run = "running"
        PROVE  /\ cn2[t].pid = q => GreetsForSelf(cn2[t], b[q], Known(r, q))
               /\ cn2[t].rx[1].ppid = q => GreetsUnder(cn2[t], b[q])
    <3>1. CASE t = s
      <4>1. cn2[t].pid = q => GreetsForSelf(cn2[t], b[q], Known(r, q))
        BY <2>6, <2>7, <3>1 DEF GreetsForSelf, Opens, Connects
      <4>2. cn2[t].rx[1].ppid = q => GreetsUnder(cn2[t], b[q])
        <5>1. cn2[t].rx[1].ppid = a[p].ppid /\ cn2[t].rx[1].token = a[p].token
          BY <3>1 DEF Opens
        <5>2. b[q].token = a[q].token BY Zenon DEF Connects
        <5> QED BY Zenon, <2>5, <5>1, <5>2 DEF GreetsUnder
      <4> QED BY Zenon, <4>1, <4>2
    <3>2. CASE t # s
      <4>1. cn2[t] = cn[t] BY Zenon, <3>2
      <4>2. /\ cn[t].pid = q => GreetsForSelf(cn[t], a[q], Known(r, q))
            /\ cn[t].rx[1].ppid = q => GreetsUnder(cn[t], a[q])
        BY Zenon, <2>0, <2>8, <4>1 DEF GreetingsAgree, Connects
      <4> QED BY Zenon, <4>1, <4>2 DEF GreetsForSelf, GreetsUnder, Connects
    <3> QED BY Zenon, <3>1, <3>2
  <2>9. ASSUME NEW t \in Slots, NEW i \in DOMAIN r, Greets(cn2[t]),
               Names(r[i], cn2[t].rx[1].ppid)
        PROVE  GreetsLinked(cn2[t], r[i])
    <3>1. CASE t = s
      <4>0. r[i] \in Row BY <2>9
      <4>1. r[i].pid \in Pids BY Zenon, <4>0 DEF Row
      <4>2. a[p].ppid = r[i].pid /\ Names(r[i], a[p].ppid) BY Zenon, <2>9, <3>1 DEF Opens, Names
      <4>3. EntryAgrees(r[i], a[a[p].ppid])
        BY Zenon, <2>0, <2>5, <4>1, <4>2 DEF EntriesAgree
      <4> QED BY ZenonT(40), <2>5, <3>1, <4>1, <4>2, <4>3 DEF EntryAgrees, GreetsLinked, Agrees, Opens
    <3>2. CASE t # s BY Zenon, <2>0, <2>9, <3>2 DEF GreetingsAgree
    <3> QED BY Zenon, <3>1, <3>2
  <2>10. ASSUME NEW t \in Slots, NEW v \in Slots, Greets(cn2[t]), Greets(cn2[v])
         PROVE  /\ cn2[t].rx[1].ppid = cn2[v].pid => GreetsWithParent(cn2[t], cn2[v])
                /\ cn2[t].pid = cn2[v].pid /\ t # v => cn2[v].rx[1].token # NoSession
    <3>0. /\ cn2[s].pid = p /\ cn2[s].rx[1].ppid = a[p].ppid
          /\ cn2[s].rx[1].token = a[p].token
      BY Zenon DEF Opens
    <3>a. ASSUME NEW w \in Slots, w # s, Greets(cn[w]), cn[w].pid = p
          PROVE  cn[w].rx[1].token = a[p].token /\ a[p].token # NoSession
      <4>1. GreetsForSelf(cn[w], a[p], Known(r, p)) BY Zenon, <2>0, <3>a DEF GreetingsAgree
      <4>2. ~cn[w].open
        <5>1. cn[w].open => a[p].sock = w BY Zenon, <1>1, <3>a DEF Ends
        <5> QED BY Zenon, <3>a, <5>1, SlotsAssumption
      <4> QED BY Zenon, <4>1, <4>2 DEF GreetsForSelf
    <3>1. CASE t = s /\ v = s
      BY Zenon, <2>5, <3>0, <3>1 DEF GreetsWithParent
    <3>2. CASE t = s /\ v # s
      <4>1. cn2[v] = cn[v] /\ Greets(cn[v]) BY Zenon, <2>10, <3>2
      <4>2. ASSUME a[p].ppid = cn[v].pid
            PROVE  GreetsWithParent(cn2[s], cn[v])
        <5>1. cn[v].pid \in Pids
          <6>1. cn[v] \in Connection /\ cn[v].pid # 0
            BY Zenon, <1>1, <4>1 DEF Seats, Orderly, Greets
          <6> QED BY Zenon, <6>1 DEF Connection
        <5>2. a[cn[v].pid].run = "running" /\ a[cn[v].pid].token # NoSession
              /\ Agrees(a[p].token, a[cn[v].pid].token)
          BY Zenon, <2>5, <4>2, <5>1
        <5>3. GreetsForSelf(cn[v], a[cn[v].pid], Known(r, cn[v].pid))
          BY Zenon, <2>0, <4>1, <5>1, <5>2 DEF GreetingsAgree
        <5> QED BY Zenon, <3>0, <5>2, <5>3 DEF GreetsWithParent, GreetsForSelf
      <4>3. cn[v].pid = p => cn[v].rx[1].token # NoSession BY Zenon, <3>2, <3>a, <4>1
      <4> QED BY Zenon, <3>0, <3>2, <4>1, <4>2, <4>3
    <3>3. CASE t # s /\ v = s
      <4>1. cn2[t] = cn[t] /\ Greets(cn[t]) BY Zenon, <2>10, <3>3
      <4>2. cn[t].rx[1].ppid = p => GreetsUnder(cn[t], a[p])
        BY Zenon, <2>0, <4>1 DEF GreetingsAgree
      <4>3. cn[t].pid = p => a[p].token # NoSession BY Zenon, <3>3, <3>a, <4>1
      <4> QED BY Zenon, <3>0, <3>3, <4>1, <4>2, <4>3 DEF GreetsWithParent, GreetsUnder
    <3>4. CASE t # s /\ v # s
      <4>1. cn2[t] = cn[t] /\ cn2[v] = cn[v] BY Zenon, <3>4
      <4> QED BY ZenonT(40), <2>0, <2>10, <4>1 DEF GreetingsAgree
    <3> QED BY Zenon, <3>1, <3>2, <3>3, <3>4
  <2>11. GreetingsAgree(r, cn2, b) BY Zenon, <2>8, <2>9, <2>10 DEF GreetingsAgree
  <2> QED BY Zenon, <2>1, <2>2, <2>3, <2>4, <2>11 DEF Sessions
<1> QED BY Zenon, <1>1, <1>4, <1>5, <1>6 DEF World

-----------------------------------------------------------------------------
(* Births, and what a process reads or loses.                              *)

Unclaimed(r, cn, p) ==
    /\ ~Known(r, p)
    /\ \A t \in Slots : Greets(cn[t]) => cn[t].pid # p /\ cn[t].rx[1].ppid # p
\* b is a with p changed.
OnlyAt(a, b, p) == \A q \in Pids : q # p => b[q] = a[q]
\* y is a process just born under the parent with the number pp and token k.
Newborn(y, pp, k) == /\ y.run = "running" /\ y.sock = "none" /\ y.welcome = NoSession
                     /\ y.ppid = pp /\ y.token = k

(* A process on a pid nobody names, with its parent's token if it has a      *)
(* parent (verb_spawn; fork).                                               *)
LEMMA WorldBirth ==
    ASSUME NEW r \in Seq(Row), NEW cn \in [Slots -> Connection],
           NEW a \in [Pids -> Process], NEW b \in [Pids -> Process], NEW race, NEW race2,
           NEW c \in Pids, NEW pp, NEW k, World(r, cn, a, race), a[c].run # "running",
           OnlyAt(a, b, c), Newborn(b[c], pp, k),
           pp = Outside \/ (pp \in Pids /\ a[pp].run = "running" /\ k = a[pp].token),
           ~race2 => /\ ~race /\ Unclaimed(r, cn, c)
                     /\ pp # Outside => k # NoSession
    PROVE  World(r, cn, b, race2)
<1>1. Links(r) /\ Seats(r, cn) /\ Ends(cn, a) BY Zenon DEF World
<1>2. Ended(a[c]) /\ pp # c BY Zenon, <1>1, PidsAssumption DEF Ends, Outside
<1>3. \A q \in Pids : a[q].ppid # c
  BY <1>1, PidsAssumption DEF Ends, Outside
<1>4. Ends(cn, b)
  <2>1. \A q \in Pids : b[q].run # "running" => Ended(b[q])
    BY Zenon, <1>1 DEF Ends, OnlyAt, Newborn
  <2>2. \A q \in Pids : b[q].sock \in Slots =>
          cn[b[q].sock].pid = q /\ cn[b[q].sock].open
    BY <1>1, SlotsAssumption DEF Ends, OnlyAt, Newborn
  <2>3. ASSUME NEW t \in Slots, cn[t].open
        PROVE  cn[t].pid \in Pids /\ b[cn[t].pid].sock = t
    <3>1. cn[t].pid \in Pids /\ a[cn[t].pid].sock = t BY Zenon, <1>1, <2>3 DEF Ends
    <3>2. cn[t].pid # c BY Zenon, <1>2, <3>1, SlotsAssumption DEF Ended
    <3> QED BY Zenon, <3>1, <3>2 DEF OnlyAt
  <2>4. \A q \in Pids : b[q].welcome # NoSession => b[q].sock \in Slots
    BY Zenon, <1>1 DEF Ends, OnlyAt, Newborn
  <2>5. ASSUME NEW q \in Pids, b[q].ppid # Outside PROVE b[b[q].ppid].run = "running"
    <3>1. CASE q = c BY Zenon, <1>2, <2>5, <3>1 DEF Newborn, OnlyAt
    <3>2. CASE q # c
      <4>1. b[q] = a[q] /\ a[q].ppid \in Pids /\ a[q].ppid # c
        BY Zenon, <1>3, <2>5, <3>2 DEF OnlyAt, Process
      <4> QED BY <1>1, <2>5, <4>1 DEF Ends, OnlyAt
    <3> QED BY Zenon, <3>1, <3>2
  <2> QED BY Zenon, <2>1, <2>2, <2>3, <2>4, <2>5 DEF Ends
<1>5. ASSUME ~race2 PROVE Sessions(r, cn, b) /\ Shared(r)
  <2>0. /\ EntriesAgree(r, a) /\ WelcomeAgrees(a) /\ TreeAgrees(r, a)
        /\ GreetingsAgree(r, cn, a) /\ ByesAgree(cn, a) /\ Shared(r)
        /\ Unclaimed(r, cn, c)
    BY Zenon, <1>5 DEF World, Sessions
  <2>1. EntriesAgree(r, b)
    BY Zenon, <2>0 DEF EntriesAgree, OnlyAt, Unclaimed, Known
  <2>2. WelcomeAgrees(b) BY Zenon, <2>0 DEF WelcomeAgrees, OnlyAt, Newborn
  <2>3. TreeAgrees(r, b)
    <3>1. ASSUME NEW v \in Pids, NEW q \in Pids, b[q].ppid = v
          PROVE  ChildAgrees(b[v], b[q], Known(r, v))
      <4>0. v # Outside BY Zenon, PidsAssumption DEF Outside
      <4>1. CASE q = c
        <5>1. v = pp /\ b[v] = a[v] /\ k = a[v].token /\ k # NoSession
          BY Zenon, <1>2, <1>5, <3>1, <4>0, <4>1 DEF Newborn, OnlyAt
        <5> QED BY Zenon, <4>1, <5>1 DEF ChildAgrees, Agrees, Newborn
      <4>2. CASE q # c
        <5>1. b[q] = a[q] /\ v # c /\ b[v] = a[v] BY Zenon, <1>3, <3>1, <4>2 DEF OnlyAt
        <5> QED BY Zenon, <2>0, <3>1, <5>1 DEF TreeAgrees
      <4> QED BY Zenon, <4>1, <4>2
    <3> QED BY Zenon, <3>1 DEF TreeAgrees
  <2>4. GreetingsAgree(r, cn, b)
    <3>1. ASSUME NEW t \in Slots, NEW q \in Pids, Greets(cn[t]), b[q].run = "running"
          PROVE  /\ cn[t].pid = q => GreetsForSelf(cn[t], b[q], Known(r, q))
                 /\ cn[t].rx[1].ppid = q => GreetsUnder(cn[t], b[q])
      <4>1. CASE q = c BY Zenon, <2>0, <3>1, <4>1 DEF Unclaimed
      <4>2. CASE q # c
        <5>1. b[q] = a[q] BY Zenon, <4>2 DEF OnlyAt
        <5> QED BY Zenon, <2>0, <3>1, <5>1 DEF GreetingsAgree
      <4> QED BY Zenon, <4>1, <4>2
    <3> QED BY Zenon, <2>0, <3>1 DEF GreetingsAgree
  <2>5. ByesAgree(cn, b)
    <3>1. ASSUME NEW t \in Slots, Parting(cn[t]), cn[t].pid = c,
                 cn[t].row # NoRow \/ Greets(cn[t])
          PROVE  FALSE
      <4>1. cn[t].row # NoRow BY Zenon, <2>0, <3>1 DEF Unclaimed
      <4>2. cn[t].rx # <<>> BY <3>1 DEF Parting
      <4>3. cn[t].helloed /\ cn[t].pid # 0 BY Zenon, <1>1, <4>1, <4>2 DEF Seats, Orderly
      <4>4. cn[t].row \in DOMAIN r /\ Names(r[cn[t].row], c)
        BY Zenon, <1>1, <3>1, <4>1, <4>3 DEF Seats, Seated, Names
      <4> QED BY Zenon, <2>0, <4>4 DEF Unclaimed, Known
    <3>2. ASSUME NEW t \in Slots, NEW q \in Pids, Parting(cn[t]), cn[t].pid = q,
                 cn[t].row # NoRow \/ Greets(cn[t])
          PROVE  b[q].run # "running"
      <4>1. q # c BY Zenon, <3>1, <3>2
      <4> QED BY Zenon, <2>0, <3>2, <4>1 DEF ByesAgree, OnlyAt
    <3> QED BY Zenon, <3>2 DEF ByesAgree
  <2> QED BY Zenon, <2>0, <2>1, <2>2, <2>3, <2>4, <2>5 DEF Sessions
<1> QED BY Zenon, <1>1, <1>4, <1>5 DEF World

\* b is a, where p's token and WELCOME are k and w.
Tokens(a, b, p, k, w) ==
    /\ OnlyAt(a, b, p)
    /\ b[p].run = a[p].run /\ b[p].ppid = a[p].ppid /\ b[p].sock = a[p].sock
    /\ b[p].token = k /\ b[p].welcome = w

(* Tokens do not touch who holds which end of a connection.                  *)
LEMMA EndsTokens ==
    ASSUME NEW cn, NEW a \in [Pids -> Process], NEW b \in [Pids -> Process],
           NEW p \in Pids, NEW k, Ends(cn, a), a[p].run = "running",
           Tokens(a, b, p, k, NoSession)
    PROVE  Ends(cn, b)
<1>1. \A q \in Pids : b[q].run = a[q].run /\ b[q].ppid = a[q].ppid /\ b[q].sock = a[q].sock
                      /\ (q # p => b[q] = a[q]) /\ (b[q].welcome # NoSession => b[q] = a[q])
  BY Zenon DEF Tokens, OnlyAt
<1>2. ASSUME NEW q \in Pids, b[q].run # "running" PROVE Ended(b[q])
  <2>1. a[q].run # "running" BY Zenon, <1>1, <1>2
  <2>2. Ended(a[q]) BY Zenon, <2>1 DEF Ends
  <2>3. q # p BY Zenon, <2>1
  <2> QED BY Zenon, <1>1, <2>2, <2>3
<1>3. ASSUME NEW q \in Pids, b[q].ppid # Outside PROVE b[b[q].ppid].run = "running"
  <2>1. a[q].ppid \in Pids BY ZenonT(40), <1>1, <1>3 DEF Process
  <2> QED BY <1>1, <1>3, <2>1 DEF Ends
<1>4. ASSUME NEW q \in Pids, b[q].sock \in Slots
      PROVE  cn[b[q].sock].pid = q /\ cn[b[q].sock].open
  <2>1. b[q].sock = a[q].sock BY Zenon, <1>1
  <2>2. cn[a[q].sock].pid = q /\ cn[a[q].sock].open BY Zenon, <1>4, <2>1 DEF Ends
  <2> QED BY Zenon, <2>1, <2>2
<1>5. \A s \in Slots : cn[s].open => cn[s].pid \in Pids /\ b[cn[s].pid].sock = s
  BY Zenon, <1>1 DEF Ends
<1>6. \A q \in Pids : b[q].welcome # NoSession => b[q].sock \in Slots
  BY Zenon, <1>1 DEF Ends
<1> QED BY Zenon, <1>2, <1>3, <1>4, <1>5, <1>6 DEF Ends

(* A process takes the session of its WELCOME into its environment: its      *)
(* entries, its children and its HELLO had it already, or there are none.   *)
LEMMA WorldToken ==
    ASSUME NEW r \in Seq(Row), NEW cn \in [Slots -> Connection],
           NEW a \in [Pids -> Process], NEW b \in [Pids -> Process], NEW race,
           NEW p \in Pids, World(r, cn, a, race), a[p].run = "running",
           a[p].welcome # NoSession, Tokens(a, b, p, a[p].welcome, NoSession)
    PROVE  World(r, cn, b, race)
<1>1. Links(r) /\ Seats(r, cn) /\ Ends(cn, a) BY Zenon DEF World
<1>2. Ends(cn, b) BY Zenon, <1>1, EndsTokens
<1>3. ASSUME ~race PROVE Sessions(r, cn, b)
  <2>0. /\ EntriesAgree(r, a) /\ WelcomeAgrees(a) /\ TreeAgrees(r, a)
        /\ GreetingsAgree(r, cn, a) /\ ByesAgree(cn, a)
    BY Zenon, <1>3 DEF World, Sessions
  <2>1. Agrees(a[p].token, a[p].welcome) BY Zenon, <2>0 DEF WelcomeAgrees
  <2>2. /\ b[p].run = a[p].run /\ b[p].ppid = a[p].ppid /\ b[p].welcome = NoSession
        /\ b[p].token = a[p].welcome
        /\ a[p].token # NoSession => b[p].token = a[p].token
    BY Zenon, <2>1 DEF Tokens, Agrees
  <2>3. \A q \in Pids : /\ q # p => b[q] = a[q]
                        /\ b[q].run = a[q].run /\ b[q].ppid = a[q].ppid
    BY Zenon, <2>2 DEF Tokens, OnlyAt
  <2>4. EntriesAgree(r, b)
    <3>1. ASSUME NEW i \in DOMAIN r, Names(r[i], p) PROVE EntryAgrees(r[i], b[p])
      BY Zenon, <2>0, <2>1, <2>2, <3>1 DEF EntriesAgree, EntryAgrees, Agrees
    <3> QED BY Zenon, <2>0, <2>3, <3>1 DEF EntriesAgree
  <2>5. WelcomeAgrees(b) BY Zenon, <2>0, <2>2, <2>3 DEF WelcomeAgrees
  <2>6. TreeAgrees(r, b)
    <3>1. ASSUME NEW v \in Pids, NEW q \in Pids, b[q].ppid = v
          PROVE  ChildAgrees(b[v], b[q], Known(r, v))
      <4>1. ChildAgrees(a[v], a[q], Known(r, v)) BY Zenon, <2>0, <2>3, <3>1 DEF TreeAgrees
      <4>2. b[v].token = a[v].token BY Zenon, <2>2, <2>3, <4>1 DEF ChildAgrees
      <4>3. CASE q = p BY Zenon, <2>2, <4>1, <4>2, <4>3 DEF ChildAgrees, Agrees
      <4>4. CASE q # p BY Zenon, <2>3, <4>1, <4>2, <4>4 DEF ChildAgrees
      <4> QED BY Zenon, <4>3, <4>4
    <3> QED BY Zenon, <3>1 DEF TreeAgrees
  <2>7. GreetingsAgree(r, cn, b)
    <3>1. ASSUME NEW t \in Slots, NEW q \in Pids, Greets(cn[t]), b[q].run = "running"
          PROVE  /\ cn[t].pid = q => GreetsForSelf(cn[t], b[q], Known(r, q))
                 /\ cn[t].rx[1].ppid = q => GreetsUnder(cn[t], b[q])
      <4>1. /\ cn[t].pid = q => GreetsForSelf(cn[t], a[q], Known(r, q))
            /\ cn[t].rx[1].ppid = q => GreetsUnder(cn[t], a[q])
        BY Zenon, <2>0, <2>3, <3>1 DEF GreetingsAgree
      <4>2. CASE q = p
        <5>1. cn[t].pid = p => GreetsForSelf(cn[t], b[p], Known(r, p))
          BY Zenon, <2>2, <4>1, <4>2 DEF GreetsForSelf
        <5>2. cn[t].rx[1].ppid = p => GreetsUnder(cn[t], b[p])
          BY Zenon, <2>2, <4>1, <4>2 DEF GreetsUnder
        <5> QED BY Zenon, <4>2, <5>1, <5>2
      <4>3. CASE q # p BY Zenon, <2>3, <4>1, <4>3
      <4> QED BY Zenon, <4>2, <4>3
    <3> QED BY Zenon, <2>0, <3>1 DEF GreetingsAgree
  <2>8. ByesAgree(cn, b) BY Zenon, <2>0, <2>3 DEF ByesAgree
  <2> QED BY Zenon, <2>4, <2>5, <2>6, <2>7, <2>8 DEF Sessions
<1> QED BY Zenon, <1>1, <1>2, <1>3 DEF World

(* A wiped environment under a process nobody names, with no children and    *)
(* with its parent's entry, if it has a parent.                             *)
LEMMA WorldScrub ==
    ASSUME NEW r \in Seq(Row), NEW cn \in [Slots -> Connection],
           NEW a \in [Pids -> Process], NEW b \in [Pids -> Process], NEW race, NEW race2,
           NEW p \in Pids, World(r, cn, a, race), a[p].run = "running",
           a[p].sock = "none", Tokens(a, b, p, NoSession, NoSession),
           ~race2 => /\ ~race /\ Unclaimed(r, cn, p)
                     /\ \A q \in Pids : a[q].ppid # p
                     /\ a[p].ppid # Outside => Known(r, a[p].ppid)
    PROVE  World(r, cn, b, race2)
<1>1. Links(r) /\ Seats(r, cn) /\ Ends(cn, a) BY Zenon DEF World
<1>2. Ends(cn, b) BY Zenon, <1>1, EndsTokens
<1>3. ASSUME ~race2 PROVE Sessions(r, cn, b) /\ Shared(r)
  <2>0. /\ EntriesAgree(r, a) /\ WelcomeAgrees(a) /\ TreeAgrees(r, a)
        /\ GreetingsAgree(r, cn, a) /\ ByesAgree(cn, a) /\ Shared(r)
        /\ Unclaimed(r, cn, p)
    BY Zenon, <1>3 DEF World, Sessions
  <2>1. /\ b[p].run = a[p].run /\ b[p].ppid = a[p].ppid /\ b[p].welcome = NoSession
        /\ b[p].token = NoSession
    BY Zenon DEF Tokens
  <2>2. \A q \in Pids : /\ q # p => b[q] = a[q]
                        /\ b[q].run = a[q].run /\ b[q].ppid = a[q].ppid
    BY Zenon, <2>1 DEF Tokens, OnlyAt
  <2>3. EntriesAgree(r, b) BY Zenon, <2>0, <2>2 DEF EntriesAgree, Unclaimed, Known
  <2>4. WelcomeAgrees(b) BY Zenon, <2>0, <2>1, <2>2 DEF WelcomeAgrees
  <2>5. TreeAgrees(r, b)
    <3>1. ASSUME NEW v \in Pids, NEW q \in Pids, b[q].ppid = v
          PROVE  ChildAgrees(b[v], b[q], Known(r, v))
      <4>0. v # Outside BY Zenon, PidsAssumption DEF Outside
      <4>1. ChildAgrees(a[v], a[q], Known(r, v)) BY Zenon, <2>0, <2>2, <3>1 DEF TreeAgrees
      <4>2. b[v] = a[v] BY <1>3, <2>2, <3>1
      <4>3. CASE q = p
        <5>1. Known(r, v) BY Zenon, <1>3, <2>1, <3>1, <4>0, <4>3
        <5> QED BY Zenon, <2>1, <4>1, <4>2, <4>3, <5>1 DEF ChildAgrees, Agrees
      <4>4. CASE q # p BY Zenon, <2>2, <4>1, <4>2, <4>4
      <4> QED BY Zenon, <4>3, <4>4
    <3> QED BY Zenon, <3>1 DEF TreeAgrees
  <2>6. GreetingsAgree(r, cn, b)
    <3>1. ASSUME NEW t \in Slots, NEW q \in Pids, Greets(cn[t]), b[q].run = "running"
          PROVE  /\ cn[t].pid = q => GreetsForSelf(cn[t], b[q], Known(r, q))
                 /\ cn[t].rx[1].ppid = q => GreetsUnder(cn[t], b[q])
      <4>1. CASE q = p BY Zenon, <2>0, <3>1, <4>1 DEF Unclaimed
      <4>2. CASE q # p
        <5>1. b[q] = a[q] BY Zenon, <2>2, <4>2
        <5> QED BY Zenon, <2>0, <3>1, <5>1 DEF GreetingsAgree
      <4> QED BY Zenon, <4>1, <4>2
    <3> QED BY Zenon, <2>0, <3>1 DEF GreetingsAgree
  <2>7. ByesAgree(cn, b) BY Zenon, <2>0, <2>2 DEF ByesAgree
  <2> QED BY Zenon, <2>0, <2>3, <2>4, <2>5, <2>6, <2>7 DEF Sessions
<1> QED BY Zenon, <1>1, <1>2, <1>3 DEF World

-----------------------------------------------------------------------------
(* A connection loses its process.                                         *)

\* d is c closed by its owner; bye: with a BYE behind the other frames.
Shut(c, d, bye) ==
    /\ d.row = c.row /\ d.pid = c.pid /\ (d.helloed <=> c.helloed) /\ ~d.open
    /\ Orderly(d)
    /\ Greets(d) => Greets(c) /\ d.rx[1] = c.rx[1]
    /\ ~bye /\ Parting(d) => Parting(c)
Lost(cn, cn2, p, bye) ==
    \A t \in Slots : IF cn[t].pid = p /\ cn[t].open THEN Shut(cn[t], cn2[t], bye)
                     ELSE cn2[t] = cn[t]

(* A closed connection is orderly, with a BYE as its last frame or none.     *)
LEMMA ShutIs ==
    ASSUME NEW c \in Connection, Orderly(c), c.open, NEW bye \in BOOLEAN, NEW d,
           d = [c EXCEPT !.open = FALSE,
                         !.rx = IF bye THEN Append(c.rx, [type |-> "BYE"]) ELSE c.rx]
    PROVE  d \in Connection /\ Shut(c, d, bye)
<1>0. c.rx \in Seq(Frame) /\ [type |-> "BYE"] \in Frame BY Zenon DEF Connection, Frame
<1>1. /\ d.row = c.row /\ d.pid = c.pid /\ d.helloed = c.helloed /\ d.open = FALSE
      /\ d.rx = IF bye THEN Append(c.rx, [type |-> "BYE"]) ELSE c.rx
  BY Zenon DEF Connection
<1>2. d.rx \in Seq(Frame) BY <1>0, <1>1
<1>3. d \in Connection BY Zenon, <1>2 DEF Connection
<1>4. \A i \in DOMAIN c.rx : c.rx[i].type # "BYE" BY Zenon DEF Orderly
<1>5. ~(c.row # NoRow /\ ~c.helloed) /\ c.pid # 0 BY Zenon DEF Orderly
<1>6. CASE ~bye
  <2>1. d.rx = c.rx BY Zenon, <1>1, <1>6
  <2>2. Orderly(d) BY <1>1, <1>4, <1>5, <2>1 DEF Orderly
  <2> QED BY Zenon, <1>1, <1>3, <2>1, <2>2 DEF Shut, Greets, Parting
<1>7. CASE bye
  <2>1. PICK f \in Frame : f = [type |-> "BYE"] /\ d.rx = Append(c.rx, f)
    BY Zenon, <1>0, <1>1, <1>7
  <2>2. f.type = "BYE" BY Zenon, <2>1
  <2>3. /\ Len(d.rx) = Len(c.rx) + 1 /\ DOMAIN d.rx = 1 .. (Len(c.rx) + 1)
        /\ DOMAIN c.rx = 1 .. Len(c.rx)
        /\ \A i \in DOMAIN d.rx : (i \in DOMAIN c.rx /\ d.rx[i] = c.rx[i])
                                  \/ (i = Len(d.rx) /\ d.rx[i] = f)
    BY <1>0, <2>1
  <2>4. \A i \in DOMAIN d.rx : d.rx[i].type = "HELLO" => i \in DOMAIN c.rx /\ d.rx[i] = c.rx[i]
    BY Zenon, <2>2, <2>3
  <2>5. \A i \in DOMAIN d.rx : d.rx[i].type = "BYE" => i = Len(d.rx)
    BY Zenon, <1>4, <2>3
  <2>6. Orderly(d) BY <1>1, <1>5, <2>4, <2>5 DEF Orderly
  <2>7. Greets(d) => Greets(c) /\ d.rx[1] = c.rx[1]
    BY <1>0, <2>3, <2>4 DEF Greets
  <2> QED BY Zenon, <1>1, <1>3, <1>7, <2>6, <2>7 DEF Shut
<1> QED BY Zenon, <1>6, <1>7

(* A closed connection keeps its seat until its EOF is read.                 *)
LEMMA SeatsLost ==
    ASSUME NEW r, NEW cn, NEW cn2, NEW p, NEW bye, Seats(r, cn), Lost(cn, cn2, p, bye)
    PROVE  Seats(r, cn2)
<1>1. \A t \in Slots : /\ cn2[t].row = cn[t].row /\ cn2[t].pid = cn[t].pid
                       /\ cn2[t].helloed <=> cn[t].helloed
  BY Zenon DEF Lost, Shut
<1>2. ASSUME NEW t \in Slots PROVE Orderly(cn2[t]) /\ Seated(cn2[t], r)
  <2>1. Orderly(cn2[t]) BY Zenon DEF Seats, Lost, Shut
  <2>2. Seated(cn2[t], r) BY Zenon, <1>1 DEF Seats, Seated
  <2> QED BY Zenon, <2>1, <2>2
<1>3. \A s, t \in Slots : cn2[s].row # NoRow /\ cn2[s].row = cn2[t].row => s = t
  BY ZenonT(40), <1>1 DEF Seats
<1> QED BY Zenon, <1>2, <1>3 DEF Seats

\* b is a after the end of p: its children have another parent.
Orphans(a, b, p) ==
    /\ b[p].run # "running" /\ Ended(b[p])
    /\ \A q \in Pids : q # p =>
         /\ b[q].run = a[q].run /\ b[q].token = a[q].token /\ b[q].sock = a[q].sock
         /\ b[q].welcome = a[q].welcome
         /\ b[q].ppid = IF a[q].ppid = p THEN Outside ELSE a[q].ppid

(* A process ends, with or without a BYE.                                   *)
LEMMA WorldExit ==
    ASSUME NEW r \in Seq(Row), NEW cn \in [Slots -> Connection],
           NEW cn2 \in [Slots -> Connection], NEW a \in [Pids -> Process],
           NEW b \in [Pids -> Process], NEW race, NEW bye, NEW p \in Pids,
           World(r, cn, a, race), Lost(cn, cn2, p, bye), Orphans(a, b, p)
    PROVE  World(r, cn2, b, race)
<1>1. Links(r) /\ Seats(r, cn) /\ Ends(cn, a) BY Zenon DEF World
<1>2. Seats(r, cn2) BY Zenon, <1>1, SeatsLost
<1>3. /\ \A t \in Slots : cn2[t].pid = cn[t].pid /\ cn2[t].row = cn[t].row
      /\ \A t \in Slots : cn2[t].open => cn[t].pid # p
      /\ \A t \in Slots : cn[t].pid # p => cn2[t] = cn[t]
      /\ \A t \in Slots : Greets(cn2[t]) => Greets(cn[t]) /\ cn2[t].rx[1] = cn[t].rx[1]
  BY Zenon DEF Lost, Shut
<1>4. Ends(cn2, b)
  <2>1. \A q \in Pids : b[q].run # "running" => Ended(b[q])
    <3>1. ASSUME NEW q \in Pids, b[q].run # "running", q # p PROVE Ended(b[q])
      <4>1. Ended(a[q]) BY Zenon, <1>1, <3>1 DEF Ends, Orphans
      <4> QED BY Zenon, <3>1, <4>1 DEF Ended, Orphans
    <3> QED BY Zenon, <3>1 DEF Orphans
  <2>2. ASSUME NEW q \in Pids, b[q].sock \in Slots
        PROVE  cn2[b[q].sock].pid = q /\ cn2[b[q].sock].open
    <3>1. q # p BY Zenon, <2>2, SlotsAssumption DEF Orphans, Ended
    <3>2. b[q].sock = a[q].sock BY Zenon, <3>1 DEF Orphans
    <3>3. cn[a[q].sock].pid = q /\ cn[a[q].sock].open BY Zenon, <1>1, <2>2, <3>2 DEF Ends
    <3> QED BY ZenonT(40), <1>3, <2>2, <3>1, <3>2, <3>3
  <2>3. ASSUME NEW t \in Slots, cn2[t].open
        PROVE  cn2[t].pid \in Pids /\ b[cn2[t].pid].sock = t
    <3>1. cn[t].pid # p /\ cn2[t] = cn[t] BY Zenon, <1>3, <2>3
    <3>2. cn[t].pid \in Pids /\ a[cn[t].pid].sock = t BY Zenon, <1>1, <2>3, <3>1 DEF Ends
    <3> QED BY Zenon, <3>1, <3>2 DEF Orphans
  <2>4. ASSUME NEW q \in Pids, b[q].welcome # NoSession PROVE b[q].sock \in Slots
    <3>1. q # p BY Zenon, <2>4 DEF Orphans, Ended
    <3> QED BY Zenon, <1>1, <2>4, <3>1 DEF Ends, Orphans
  <2>5. ASSUME NEW q \in Pids, b[q].ppid # Outside PROVE b[b[q].ppid].run = "running"
    <3>1. q # p BY Zenon, <2>5 DEF Orphans, Ended
    <3>2. b[q].ppid = a[q].ppid /\ a[q].ppid # p /\ a[q].ppid # Outside
      BY Zenon, <2>5, <3>1 DEF Orphans
    <3>3. a[q].ppid \in Pids BY Zenon, <3>2 DEF Process
    <3> QED BY <1>1, <3>2, <3>3 DEF Ends, Orphans
  <2> QED BY Zenon, <2>1, <2>2, <2>3, <2>4, <2>5 DEF Ends
<1>5. ASSUME ~race PROVE Sessions(r, cn2, b)
  <2>0. /\ EntriesAgree(r, a) /\ WelcomeAgrees(a) /\ TreeAgrees(r, a)
        /\ GreetingsAgree(r, cn, a) /\ ByesAgree(cn, a)
    BY Zenon, <1>5 DEF World, Sessions
  <2>1. \A q \in Pids : b[q].run = "running" =>
          /\ q # p /\ a[q].run = "running" /\ b[q].token = a[q].token
          /\ b[q].welcome = a[q].welcome
    BY Zenon DEF Orphans
  <2>2. EntriesAgree(r, b) BY Zenon, <2>0, <2>1 DEF EntriesAgree, EntryAgrees
  <2>3. WelcomeAgrees(b)
    <3>1. ASSUME NEW q \in Pids, b[q].welcome # NoSession
          PROVE  Agrees(b[q].token, b[q].welcome)
      <4>1. q # p BY <3>1 DEF Orphans, Ended
      <4> QED BY Zenon, <2>0, <3>1, <4>1 DEF WelcomeAgrees, Orphans
    <3> QED BY Zenon, <3>1 DEF WelcomeAgrees
  <2>4. TreeAgrees(r, b)
    <3>1. ASSUME NEW v \in Pids, NEW q \in Pids, b[q].ppid = v
          PROVE  ChildAgrees(b[v], b[q], Known(r, v))
      <4>0. v # Outside BY Zenon, PidsAssumption DEF Outside
      <4>1. q # p BY Zenon, <3>1, <4>0 DEF Orphans, Ended
      <4>2. a[q].ppid = v /\ v # p BY Zenon, <3>1, <4>0, <4>1 DEF Orphans
      <4>3. ChildAgrees(a[v], a[q], Known(r, v)) BY Zenon, <2>0, <4>2 DEF TreeAgrees
      <4> QED BY Zenon, <4>1, <4>2, <4>3 DEF ChildAgrees, Orphans
    <3> QED BY Zenon, <3>1 DEF TreeAgrees
  <2>5. GreetingsAgree(r, cn2, b)
    <3>1. ASSUME NEW t \in Slots, NEW q \in Pids, Greets(cn2[t]), b[q].run = "running"
          PROVE  /\ cn2[t].pid = q => GreetsForSelf(cn2[t], b[q], Known(r, q))
                 /\ cn2[t].rx[1].ppid = q => GreetsUnder(cn2[t], b[q])
      <4>1. Greets(cn[t]) /\ cn2[t].rx[1] = cn[t].rx[1] BY Zenon, <1>3, <3>1
      <4>2. /\ cn[t].pid = q => GreetsForSelf(cn[t], a[q], Known(r, q))
            /\ cn[t].rx[1].ppid = q => GreetsUnder(cn[t], a[q])
        BY Zenon, <2>0, <2>1, <3>1, <4>1 DEF GreetingsAgree
      <4>3. ASSUME cn2[t].pid = q PROVE GreetsForSelf(cn2[t], b[q], Known(r, q))
        <5>1. cn[t].pid = q /\ q # p /\ cn2[t] = cn[t] BY Zenon, <1>3, <2>1, <3>1, <4>3
        <5>2. b[q].ppid \in {a[q].ppid, Outside} BY Zenon, <5>1 DEF Orphans
        <5> QED BY Zenon, <2>1, <3>1, <4>2, <5>1, <5>2 DEF GreetsForSelf
      <4>4. cn2[t].rx[1].ppid = q => GreetsUnder(cn2[t], b[q])
        BY Zenon, <2>1, <3>1, <4>1, <4>2 DEF GreetsUnder
      <4> QED BY Zenon, <4>3, <4>4
    <3>2. ASSUME NEW t \in Slots, NEW i \in DOMAIN r, Greets(cn2[t]),
                 Names(r[i], cn2[t].rx[1].ppid)
          PROVE  GreetsLinked(cn2[t], r[i])
      <4>1. Greets(cn[t]) /\ cn2[t].rx[1] = cn[t].rx[1] BY Zenon, <1>3, <3>2
      <4>2. GreetsLinked(cn[t], r[i]) BY Zenon, <2>0, <3>2, <4>1 DEF GreetingsAgree
      <4> QED BY Zenon, <4>1, <4>2 DEF GreetsLinked
    <3>3. ASSUME NEW t \in Slots, NEW v \in Slots, Greets(cn2[t]), Greets(cn2[v])
          PROVE  /\ cn2[t].rx[1].ppid = cn2[v].pid => GreetsWithParent(cn2[t], cn2[v])
                 /\ cn2[t].pid = cn2[v].pid /\ t # v => cn2[v].rx[1].token # NoSession
      <4>1. /\ Greets(cn[t]) /\ cn2[t].rx[1] = cn[t].rx[1] /\ cn2[t].pid = cn[t].pid
            /\ Greets(cn[v]) /\ cn2[v].rx[1] = cn[v].rx[1] /\ cn2[v].pid = cn[v].pid
        BY Zenon, <1>3, <3>3
      <4> QED BY Zenon, <2>0, <4>1 DEF GreetingsAgree, GreetsWithParent
    <3> QED BY Zenon, <3>1, <3>2, <3>3 DEF GreetingsAgree
  <2>6. ByesAgree(cn2, b)
    <3>1. ASSUME NEW t \in Slots, NEW q \in Pids, Parting(cn2[t]), cn2[t].pid = q,
                 cn2[t].row # NoRow \/ Greets(cn2[t]), b[q].run = "running"
          PROVE  FALSE
      <4>1. cn2[t] = cn[t] /\ a[q].run = "running" BY Zenon, <1>3, <2>1, <3>1
      <4> QED BY Zenon, <2>0, <3>1, <4>1 DEF ByesAgree
    <3> QED BY Zenon, <3>1 DEF ByesAgree
  <2> QED BY Zenon, <2>2, <2>3, <2>4, <2>5, <2>6 DEF Sessions
<1> QED BY Zenon, <1>1, <1>2, <1>4, <1>5 DEF World

\* b is a where p gave up its connection.
GivesUp(a, b, p) ==
    /\ OnlyAt(a, b, p)
    /\ b[p].run = a[p].run /\ b[p].ppid = a[p].ppid /\ b[p].token = a[p].token
    /\ b[p].sock = "none" /\ b[p].welcome = NoSession

(* A process that has its token loses its connection.                       *)
LEMMA WorldDisconnect ==
    ASSUME NEW r \in Seq(Row), NEW cn \in [Slots -> Connection],
           NEW cn2 \in [Slots -> Connection], NEW a \in [Pids -> Process],
           NEW b \in [Pids -> Process], NEW race, NEW race2, NEW p \in Pids,
           World(r, cn, a, race), a[p].run = "running", Lost(cn, cn2, p, FALSE),
           GivesUp(a, b, p), ~race2 => ~race /\ a[p].token # NoSession
    PROVE  World(r, cn2, b, race2)
<1>1. Links(r) /\ Seats(r, cn) /\ Ends(cn, a) BY Zenon DEF World
<1>2. Seats(r, cn2) BY Zenon, <1>1, SeatsLost
<1>3. /\ \A t \in Slots : cn2[t].pid = cn[t].pid /\ cn2[t].row = cn[t].row
      /\ \A t \in Slots : cn2[t].open => cn[t].pid # p
      /\ \A t \in Slots : cn[t].pid # p => cn2[t] = cn[t]
      /\ \A t \in Slots : Greets(cn2[t]) => Greets(cn[t]) /\ cn2[t].rx[1] = cn[t].rx[1]
      /\ \A t \in Slots : Parting(cn2[t]) => Parting(cn[t])
  BY Zenon DEF Lost, Shut
<1>4. \A q \in Pids : /\ q # p => b[q] = a[q]
                      /\ b[q].run = a[q].run /\ b[q].ppid = a[q].ppid
                      /\ b[q].token = a[q].token
                      /\ b[q].welcome # NoSession => b[q].welcome = a[q].welcome /\ q # p
  BY Zenon DEF GivesUp, OnlyAt
<1>5. Ends(cn2, b)
  <2>1. \A q \in Pids : b[q].run # "running" => Ended(b[q])
    BY ZenonT(40), <1>1, <1>4 DEF Ends
  <2>2. ASSUME NEW q \in Pids, b[q].sock \in Slots
        PROVE  cn2[b[q].sock].pid = q /\ cn2[b[q].sock].open
    <3>1. q # p /\ b[q] = a[q] BY Zenon, <1>4, <2>2, SlotsAssumption DEF GivesUp
    <3>2. cn[a[q].sock].pid = q /\ cn[a[q].sock].open BY Zenon, <1>1, <2>2, <3>1 DEF Ends
    <3> QED BY <1>3, <2>2, <3>1, <3>2
  <2>3. ASSUME NEW t \in Slots, cn2[t].open
        PROVE  cn2[t].pid \in Pids /\ b[cn2[t].pid].sock = t
    <3>1. cn[t].pid # p /\ cn2[t] = cn[t] BY Zenon, <1>3, <2>3
    <3>2. cn[t].pid \in Pids /\ a[cn[t].pid].sock = t BY Zenon, <1>1, <2>3, <3>1 DEF Ends
    <3> QED BY Zenon, <1>4, <3>1, <3>2
  <2>4. \A q \in Pids : b[q].welcome # NoSession => b[q].sock \in Slots
    BY Zenon, <1>1, <1>4 DEF Ends
  <2>5. ASSUME NEW q \in Pids, b[q].ppid # Outside PROVE b[b[q].ppid].run = "running"
    <3>1. b[q].ppid = a[q].ppid /\ a[q].ppid \in Pids BY Zenon, <1>4, <2>5 DEF Process
    <3> QED BY <1>1, <1>4, <2>5, <3>1 DEF Ends
  <2> QED BY Zenon, <2>1, <2>2, <2>3, <2>4, <2>5 DEF Ends
<1>6. ASSUME ~race2 PROVE Sessions(r, cn2, b) /\ Shared(r)
  <2>0. /\ EntriesAgree(r, a) /\ WelcomeAgrees(a) /\ TreeAgrees(r, a)
        /\ GreetingsAgree(r, cn, a) /\ ByesAgree(cn, a) /\ Shared(r)
    BY Zenon, <1>6 DEF World, Sessions
  <2>1. EntriesAgree(r, b)
    <3>1. ASSUME NEW i \in DOMAIN r, NEW q \in Pids, Names(r[i], q), b[q].run = "running"
          PROVE  EntryAgrees(r[i], b[q])
      <4>1. EntryAgrees(r[i], a[q]) BY Zenon, <1>4, <2>0, <3>1 DEF EntriesAgree
      <4> QED BY Zenon, <1>4, <1>6, <4>1 DEF EntryAgrees
    <3> QED BY Zenon, <3>1 DEF EntriesAgree
  <2>2. WelcomeAgrees(b) BY Zenon, <1>4, <2>0 DEF WelcomeAgrees
  <2>3. TreeAgrees(r, b)
    <3>1. ASSUME NEW v \in Pids, NEW q \in Pids, b[q].ppid = v
          PROVE  ChildAgrees(b[v], b[q], Known(r, v))
      <4>1. ChildAgrees(a[v], a[q], Known(r, v)) BY Zenon, <1>4, <2>0, <3>1 DEF TreeAgrees
      <4> QED BY Zenon, <1>4, <4>1 DEF ChildAgrees, Agrees
    <3> QED BY Zenon, <3>1 DEF TreeAgrees
  <2>4. GreetingsAgree(r, cn2, b)
    <3>1. ASSUME NEW t \in Slots, NEW q \in Pids, Greets(cn2[t]), b[q].run = "running"
          PROVE  /\ cn2[t].pid = q => GreetsForSelf(cn2[t], b[q], Known(r, q))
                 /\ cn2[t].rx[1].ppid = q => GreetsUnder(cn2[t], b[q])
      <4>1. Greets(cn[t]) /\ cn2[t].rx[1] = cn[t].rx[1] BY Zenon, <1>3, <3>1
      <4>2. /\ cn[t].pid = q => GreetsForSelf(cn[t], a[q], Known(r, q))
            /\ cn[t].rx[1].ppid = q => GreetsUnder(cn[t], a[q])
        BY Zenon, <1>4, <2>0, <3>1, <4>1 DEF GreetingsAgree
      <4>3. ASSUME cn2[t].pid = q PROVE GreetsForSelf(cn2[t], b[q], Known(r, q))
        <5>0. GreetsForSelf(cn[t], a[q], Known(r, q)) BY Zenon, <1>3, <4>2, <4>3
        <5>1. CASE q = p
          <6>1. b[p].token # NoSession BY Zenon, <1>4, <1>6
          <6> QED BY Zenon, <1>4, <4>1, <5>0, <5>1, <6>1 DEF GreetsForSelf
        <5>2. CASE q # p BY <1>3, <1>4, <4>3, <5>0, <5>2
        <5> QED BY Zenon, <5>1, <5>2
      <4>4. cn2[t].rx[1].ppid = q => GreetsUnder(cn2[t], b[q])
        BY Zenon, <1>4, <4>1, <4>2 DEF GreetsUnder
      <4> QED BY Zenon, <4>3, <4>4
    <3>2. ASSUME NEW t \in Slots, NEW i \in DOMAIN r, Greets(cn2[t]),
                 Names(r[i], cn2[t].rx[1].ppid)
          PROVE  GreetsLinked(cn2[t], r[i])
      <4>1. Greets(cn[t]) /\ cn2[t].rx[1] = cn[t].rx[1] BY Zenon, <1>3, <3>2
      <4>2. GreetsLinked(cn[t], r[i]) BY Zenon, <2>0, <3>2, <4>1 DEF GreetingsAgree
      <4> QED BY Zenon, <4>1, <4>2 DEF GreetsLinked
    <3>3. ASSUME NEW t \in Slots, NEW v \in Slots, Greets(cn2[t]), Greets(cn2[v])
          PROVE  /\ cn2[t].rx[1].ppid = cn2[v].pid => GreetsWithParent(cn2[t], cn2[v])
                 /\ cn2[t].pid = cn2[v].pid /\ t # v => cn2[v].rx[1].token # NoSession
      <4>1. /\ Greets(cn[t]) /\ cn2[t].rx[1] = cn[t].rx[1] /\ cn2[t].pid = cn[t].pid
            /\ Greets(cn[v]) /\ cn2[v].rx[1] = cn[v].rx[1] /\ cn2[v].pid = cn[v].pid
        BY Zenon, <1>3, <3>3
      <4> QED BY Zenon, <2>0, <4>1 DEF GreetingsAgree, GreetsWithParent
    <3> QED BY Zenon, <3>1, <3>2, <3>3 DEF GreetingsAgree
  <2>5. ByesAgree(cn2, b)
    BY <1>3, <1>4, <2>0 DEF ByesAgree
  <2> QED BY Zenon, <2>0, <2>1, <2>2, <2>3, <2>4, <2>5 DEF Sessions
<1> QED BY Zenon, <1>1, <1>2, <1>5, <1>6 DEF World

-----------------------------------------------------------------------------
(* Drift and evidence.                                                     *)

Held(cn, i) == \E s \in Slots : cn[s].pid # 0 /\ cn[s].row = i
DriftIn(rs, cn, u) ==
    \A i \in DOMAIN rs : /\ Balanced(rs[i])
                         /\ ~u \/ ~Held(cn, i) => rs[i].summed = rs[i].obs
FiledIn(ev, rs) == \A e \in ev : e[1] \in DOMAIN rs /\ rs[e[1]].pid = e[2]

(* Drift, as a relation between the registry and the connections.            *)
LEMMA DriftIs == Drift <=> DriftIn(rows, conn, up)
  BY Zenon DEF Drift, DriftIn, DriftAccounted, Held

(* Evidence, as a relation between the journal and the registry.             *)
LEMMA FiledIs == EvidenceAttributed <=> FiledIn(evidence, rows)
  BY Zenon DEF EvidenceAttributed, FiledIn

(* Sweeps and summaries leave nothing unaccounted for that was, and no       *)
(* entry with another pid.                                                  *)
LEMMA KeptKeeps ==
    ASSUME NEW r \in Seq(Row), NEW r2, NEW cn, NEW u, NEW ev, Kept(r, r2),
           DriftIn(r, cn, u), FiledIn(ev, r)
    PROVE  DriftIn(r2, cn, u) /\ FiledIn(ev, r2)
<1>1. /\ DOMAIN r = 1 .. Len(r) /\ DOMAIN r2 = DOMAIN r
      /\ \A i \in DOMAIN r : Same(r[i], r2[i])
  BY DEF Kept
<1>2. DriftIn(r2, cn, u)
  <2>1. ASSUME NEW i \in DOMAIN r
        PROVE  /\ Balanced(r2[i])
               /\ ~u \/ ~Held(cn, i) => r2[i].summed = r2[i].obs
    <3>1. Same(r[i], r2[i]) /\ Balanced(r[i])
          /\ (~u \/ ~Held(cn, i) => r[i].summed = r[i].obs)
      BY Zenon, <1>1 DEF DriftIn
    <3> QED BY Zenon, <3>1 DEF Same
  <2> QED BY Zenon, <1>1, <2>1 DEF DriftIn
<1>3. FiledIn(ev, r2) BY Zenon, <1>1 DEF FiledIn, Same
<1> QED BY Zenon, <1>2, <1>3

(* No connection leaves an entry.                                           *)
LEMMA DriftHeld ==
    ASSUME NEW r, NEW cn, NEW cn2, NEW u, DriftIn(r, cn, u),
           \A s \in Slots : cn[s].pid # 0 /\ cn[s].row # NoRow =>
               cn2[s].pid # 0 /\ cn2[s].row = cn[s].row,
           NoRow \notin DOMAIN r
    PROVE  DriftIn(r, cn2, u)
<1>1. \A i \in DOMAIN r : Held(cn, i) => Held(cn2, i) BY Zenon DEF Held
<1> QED BY Zenon, <1>1 DEF DriftIn

(* The rest of an iteration: what its handler leaves, after the sweep and    *)
(* the reap (retraced_daemon_serve's loop).                                 *)
LEMMA IterationStep ==
    ASSUME Types, NEW r \in Seq(Row), NEW ps \in [Pids -> Process], Iteration(r, ps),
           conn' \in [Slots -> Connection], World(r, conn', ps, raced'),
           DriftIn(r, conn', up), FiledIn(evidence', r),
           \A p \in Pids : proc[p].run = "zombie" => ps[p].run # "running",
           minted' \in Nat, births' \in Nat, left' \in Budget, raced' \in BOOLEAN
    PROVE  IInv'
<1>1. \A i \in DOMAIN r : Balanced(r[i]) BY Zenon DEF DriftIn
<1>2. Kept(r, rows') BY Zenon, <1>1, IterationKeeps
<1>3. rows' \in Seq(Row) /\ Alike(r, rows') BY Zenon, <1>2, KeptAlike DEF Kept
<1>4. NoProc \in Process
  BY Zenon, PidsAssumption DEF NoProc, Process, Outside, NoSession
<1>5. proc' \in [Pids -> Process]
  BY Zenon, <1>4 DEF Iteration
<1>6. Stay(ps, proc')
  <2>1. ASSUME NEW p \in Pids PROVE Stays(ps[p], proc'[p])
    <3>1. CASE p \in Zombies
      <4>1. proc'[p] = NoProc /\ ps[p].run # "running" BY Zenon, <3>1 DEF Iteration, Zombies
      <4>2. Ended(ps[p]) BY Zenon, <4>1 DEF World, Ends
      <4> QED BY <4>1, <4>2 DEF Stays, Ended, NoProc
    <3>2. CASE p \notin Zombies
      <4>1. proc'[p] = ps[p] BY Zenon, <3>2 DEF Iteration
      <4> QED BY Zenon, <4>1 DEF Stays
    <3> QED BY Zenon, <3>1, <3>2
  <2> QED BY Zenon, <2>1 DEF Stay
<1>7. World(rows', conn', proc', raced')
  BY Zenon, <1>3, <1>5, <1>6, WorldAlike
<1>8. DriftIn(rows', conn', up) /\ FiledIn(evidence', rows') BY Zenon, <1>2, KeptKeeps
<1>9. up' = up /\ due' = FALSE BY Zenon DEF Iteration
<1>10. Drift'
  BY Zenon, <1>8, <1>9 DEF Drift, DriftIn, DriftAccounted, Held
<1>11. EvidenceAttributed' BY Zenon, <1>8 DEF EvidenceAttributed, FiledIn
<1>12. Types' BY Zenon, <1>3, <1>5, <1>9 DEF Types
<1> QED BY Zenon, <1>7, <1>10, <1>11, <1>12 DEF IInv

(* What the proof of each step starts from: the parts of the invariant.      *)
LEMMA IInvMeans ==
    ASSUME IInv
    PROVE  /\ Types /\ rows \in Seq(Row) /\ conn \in [Slots -> Connection]
           /\ proc \in [Pids -> Process] /\ minted \in Nat /\ births \in Nat
           /\ left \in Budget /\ raced \in BOOLEAN /\ up \in BOOLEAN
           /\ World(rows, conn, proc, raced)
           /\ \A s \in Slots : conn[s] \in Connection /\ Orderly(conn[s])
                               /\ Seated(conn[s], rows)
           /\ DriftIn(rows, conn, up) /\ FiledIn(evidence, rows)
           /\ NoRow \notin DOMAIN rows
<1>1. Types BY Zenon DEF IInv
<1>2. rows \in Seq(Row) BY Zenon, <1>1 DEF Types
<1>3. NoRow \notin DOMAIN rows BY <1>2 DEF NoRow
<1> QED BY Zenon, <1>1, <1>2, <1>3, DriftIs, FiledIs DEF IInv, Types, World, Seats

-----------------------------------------------------------------------------
(* The handlers.                                                           *)

(* A handler's edit of one entry leaves the others alone.                    *)
LEMMA RowEdit ==
    ASSUME NEW r \in Seq(Row), NEW i \in DOMAIN r, NEW y \in Row,
           NEW r2, r2 = [r EXCEPT ![i] = y]
    PROVE  /\ r2 \in Seq(Row) /\ Len(r2) = Len(r) /\ r2[i] = y
           /\ \A j \in 1 .. Len(r) : j # i => r2[j] = r[j]
  OBVIOUS

(* A handler that does not touch the processes.                              *)
LEMMA StaySelf == Stay(proc, proc)
  BY Zenon DEF Stay, Stays

(* A frame is taken off a connection, which stays as it is otherwise.        *)
LEMMA PopStep ==
    ASSUME IInv, NEW s \in Slots, conn[s].rx # <<>>,
           conn' = [conn EXCEPT ![s] = [conn[s] EXCEPT !.rx = Tail(conn[s].rx)]]
    PROVE  /\ conn' \in [Slots -> Connection]
           /\ World(rows, conn', proc, raced) /\ DriftIn(rows, conn', up)
           /\ conn'[s].row = conn[s].row /\ conn'[s].pid = conn[s].pid
<1>1. conn \in [Slots -> Connection] /\ conn[s] \in Connection /\ Orderly(conn[s])
  BY Zenon, IInvMeans
<1>2. PICK d : d = [conn[s] EXCEPT !.rx = Tail(conn[s].rx)] BY Zenon
<1>3. d \in Connection /\ Quiet(conn[s], d) BY Zenon, <1>1, <1>2, PopQuiet
<1>4. conn' = [conn EXCEPT ![s] = d] BY Zenon, <1>2
<1>5. conn' \in [Slots -> Connection] /\ conn'[s] = d
      /\ \A t \in Slots : t # s => conn'[t] = conn[t]
  BY Zenon, <1>1, <1>3, <1>4
<1>6. ASSUME NEW t \in Slots PROVE Quiet(conn[t], conn'[t])
  <2>1. CASE t = s BY Zenon, <1>3, <1>5, <2>1
  <2>2. CASE t # s
    <3>1. conn'[t] = conn[t] /\ Orderly(conn[t]) BY Zenon, <1>5, <2>2, IInvMeans
    <3> QED BY Zenon, <3>1 DEF Quiet
  <2> QED BY Zenon, <2>1, <2>2
<1>7. World(rows, conn', proc, raced) BY Zenon, <1>6, WorldQuiet, IInvMeans
<1>8. d.row = conn[s].row /\ d.pid = conn[s].pid BY Zenon, <1>1, <1>2 DEF Connection
<1>9. DriftIn(rows, conn', up)
  <2>1. \A t \in Slots : conn[t].pid # 0 /\ conn[t].row # NoRow =>
               conn'[t].pid # 0 /\ conn'[t].row = conn[t].row
    BY Zenon, <1>5, <1>8
  <2> QED BY Zenon, <2>1, DriftHeld, IInvMeans
<1> QED BY Zenon, <1>5, <1>7, <1>8, <1>9

(* A heartbeat keeps an entry that is not GONE                              *)
(* (retraced_registry_heartbeat).                                           *)
LEMMA HeartbeatKeeps ==
    ASSUME NEW r \in Seq(Row), NEW i \in DOMAIN r, r[i].state # "GONE"
    PROVE  Kept(r, Heartbeat(r, i))
<1>1. PICK y : y = [r[i] EXCEPT !.age = 0, !.state = "LIVE"] BY Zenon
<1>2. r[i] \in Row OBVIOUS
<1>3. y \in Row BY Zenon, <1>1, <1>2 DEF Row
<1>4. Heartbeat(r, i) = [r EXCEPT ![i] = y] BY Zenon, <1>1 DEF Heartbeat
<1>5. /\ Heartbeat(r, i) \in Seq(Row) /\ Len(Heartbeat(r, i)) = Len(r)
      /\ Heartbeat(r, i)[i] = y
      /\ \A j \in 1 .. Len(r) : j # i => Heartbeat(r, i)[j] = r[j]
  BY <1>3, <1>4, RowEdit
<1>6. Same(r[i], y)
  <2>1. /\ y.pid = r[i].pid /\ y.ppid = r[i].ppid /\ y.session = r[i].session
        /\ y.parent = r[i].parent /\ y.obs = r[i].obs /\ y.state = "LIVE"
        /\ y.obsLast = r[i].obsLast /\ y.summed = r[i].summed
    BY Zenon, <1>1, <1>2 DEF Row
  <2> QED BY Zenon, <2>1 DEF Same, Balanced
<1>7. \A j \in 1 .. Len(r) : Same(r[j], Heartbeat(r, i)[j])
  BY Zenon, <1>5, <1>6 DEF Same
<1> QED BY Zenon, <1>5, <1>7 DEF Kept

(* HEARTBEAT revives the sender's own entry (retraced_registry_heartbeat).   *)
LEMMA StepHeartbeat ==
    ASSUME IInv, NEW s \in Slots, conn[s].rx # <<>>, HandleHeartbeat(s),
           UNCHANGED <<births, left, ended, raced>>
    PROVE  IInv'
<1>0. conn' = [conn EXCEPT ![s] = [conn[s] EXCEPT !.rx = Tail(conn[s].rx)]]
  BY Zenon DEF HandleHeartbeat
<1>1. /\ conn' \in [Slots -> Connection]
      /\ World(rows, conn', proc, raced) /\ DriftIn(rows, conn', up)
  BY Zenon, <1>0, PopStep
<1>2. PICK r : /\ r = IF conn[s].helloed THEN Heartbeat(rows, conn[s].row) ELSE rows
               /\ Iteration(r, proc)
  BY Zenon DEF HandleHeartbeat
<1>3. Kept(rows, r)
  <2>1. CASE ~conn[s].helloed BY Zenon, <1>2, <2>1, KeptSelf, IInvMeans
  <2>2. CASE conn[s].helloed
    <3>1. conn[s].row \in DOMAIN rows /\ rows[conn[s].row].state # "GONE"
      BY Zenon, <2>2, IInvMeans DEF Orderly, Seated
    <3> QED BY Zenon, <1>2, <2>2, <3>1, HeartbeatKeeps, IInvMeans
  <2> QED BY Zenon, <2>1, <2>2
<1>4. r \in Seq(Row) /\ Alike(rows, r) BY Zenon, <1>3, KeptAlike DEF Kept
<1>5. World(r, conn', proc, raced) BY Zenon, <1>1, <1>4, StaySelf, WorldAlike, IInvMeans
<1>6. DriftIn(r, conn', up) /\ FiledIn(evidence, r)
  BY Zenon, <1>1, <1>3, KeptKeeps, IInvMeans
<1>7. evidence' = evidence /\ minted' = minted /\ raced' = raced /\ left' = left
      /\ births' = births
  BY Zenon DEF HandleHeartbeat
<1>8. Types /\ proc \in [Pids -> Process] /\ minted' \in Nat /\ births' \in Nat
      /\ left' \in Budget /\ raced' \in BOOLEAN
  BY Zenon, <1>7, IInvMeans
<1>9. World(r, conn', proc, raced') /\ FiledIn(evidence', r) BY Zenon, <1>5, <1>6, <1>7
<1>10. \A p \in Pids : proc[p].run = "zombie" => proc[p].run # "running" BY Zenon
<1> QED BY Zenon, <1>1, <1>2, <1>4, <1>6, <1>8, <1>9, <1>10, IterationStep

(* An event of the kernel lane is filed under the entry of its connection,   *)
(* which is still held.                                                     *)
LEMMA StepKernelEvent ==
    ASSUME IInv, NEW s \in Slots, conn[s].rx # <<>>, HandleKernelEvent(s),
           UNCHANGED <<births, left, ended, raced>>
    PROVE  IInv'
<1>0. conn' = [conn EXCEPT ![s] = [conn[s] EXCEPT !.rx = Tail(conn[s].rx)]]
  BY Zenon DEF HandleKernelEvent
<1>1. /\ conn' \in [Slots -> Connection]
      /\ World(rows, conn', proc, raced) /\ DriftIn(rows, conn', up)
      /\ conn'[s].row = conn[s].row /\ conn'[s].pid = conn[s].pid
  BY Zenon, <1>0, PopStep
<1>2. PICK r : /\ r = IF conn[s].helloed
                      THEN [rows EXCEPT ![conn[s].row] =
                                [rows[conn[s].row] EXCEPT !.obs = rows[conn[s].row].obs + 1]]
                      ELSE rows
               /\ Iteration(r, proc)
  BY Zenon DEF HandleKernelEvent
<1>3. up BY Zenon, <1>2 DEF Iteration
<1>4. /\ r \in Seq(Row) /\ Alike(rows, r) /\ DriftIn(r, conn', up)
      /\ FiledIn(evidence', r)
  <2>1. CASE ~conn[s].helloed
    <3>1. r = rows /\ evidence' = evidence BY Zenon, <1>2, <2>1 DEF HandleKernelEvent
    <3>2. Alike(rows, rows) BY Zenon, IInvMeans DEF Alike, Look
    <3> QED BY Zenon, <1>1, <3>1, <3>2, IInvMeans
  <2>2. CASE conn[s].helloed
    <3>1. PICK i : i = conn[s].row BY Zenon
    <3>2. conn[s].pid # 0 /\ i # NoRow BY Zenon, <2>2, <3>1, IInvMeans DEF Orderly
    <3>3. i \in DOMAIN rows /\ rows[i].pid = conn[s].pid
      BY Zenon, <3>1, <3>2, IInvMeans DEF Seated
    <3>4. PICK y : y = [rows[i] EXCEPT !.obs = rows[i].obs + 1] BY Zenon
    <3>5. rows \in Seq(Row) /\ rows[i] \in Row BY <3>3, IInvMeans
    <3>6. y \in Row
      <4>1. rows[i].obs \in Nat BY Zenon, <3>5 DEF Row
      <4>2. PICK n \in Nat : n = rows[i].obs + 1 BY <4>1
      <4>3. y = [rows[i] EXCEPT !.obs = n] BY Zenon, <3>4, <4>2
      <4> QED BY Zenon, <3>5, <4>3 DEF Row
    <3>7. r = [rows EXCEPT ![i] = y] BY Zenon, <1>2, <2>2, <3>1, <3>4
    <3>8. /\ r \in Seq(Row) /\ Len(r) = Len(rows) /\ r[i] = y
          /\ \A j \in 1 .. Len(rows) : j # i => r[j] = rows[j]
      BY <3>3, <3>5, <3>6, <3>7, RowEdit
    <3>9. /\ y.pid = rows[i].pid /\ y.session = rows[i].session
          /\ y.parent = rows[i].parent /\ y.state = rows[i].state
          /\ y.obs = rows[i].obs + 1 /\ y.obsLast = rows[i].obsLast
          /\ y.summed = rows[i].summed
      BY Zenon, <3>4, <3>5 DEF Row
    <3>10. DOMAIN rows = 1 .. Len(rows) /\ DOMAIN r = DOMAIN rows BY <3>5, <3>8
    <3>11. Alike(rows, r) BY Zenon, <3>8, <3>9, <3>10 DEF Alike, Look
    <3>12. Held(conn', i) BY Zenon, <1>1, <3>1, <3>2 DEF Held
    <3>13. Balanced(y)
      <4>1. Balanced(rows[i]) BY Zenon, <1>1, <3>3 DEF DriftIn
      <4>2. rows[i].obs \in Nat /\ rows[i].obsLast \in Nat BY Zenon, <3>5 DEF Row
      <4> QED BY <3>9, <4>1, <4>2 DEF Balanced
    <3>14. DriftIn(r, conn', up)
      BY Zenon, <1>1, <1>3, <3>8, <3>10, <3>12, <3>13 DEF DriftIn
    <3>15. evidence' = evidence \cup {<<i, conn[s].pid, conn[s].gen>>}
      BY Zenon, <2>2, <3>1 DEF HandleKernelEvent
    <3>16. \A j \in DOMAIN rows : r[j].pid = rows[j].pid BY Zenon, <3>8, <3>9, <3>10
    <3>17. FiledIn(evidence', r)
      <4>1. FiledIn(evidence, rows) BY Zenon, IInvMeans
      <4> QED BY <3>3, <3>10, <3>15, <3>16, <4>1 DEF FiledIn
    <3> QED BY Zenon, <3>8, <3>11, <3>14, <3>17
  <2> QED BY Zenon, <2>1, <2>2
<1>5. World(r, conn', proc, raced) BY Zenon, <1>1, <1>4, StaySelf, WorldAlike, IInvMeans
<1>6. minted' = minted /\ raced' = raced /\ left' = left /\ births' = births
  BY Zenon DEF HandleKernelEvent
<1>7. Types /\ proc \in [Pids -> Process] /\ minted' \in Nat /\ births' \in Nat
      /\ left' \in Budget /\ raced' \in BOOLEAN
  BY Zenon, <1>6, IInvMeans
<1>8. World(r, conn', proc, raced') BY Zenon, <1>5, <1>6
<1>9. \A p \in Pids : proc[p].run = "zombie" => proc[p].run # "running" OBVIOUS
<1> QED BY Zenon, <1>1, <1>2, <1>4, <1>7, <1>8, <1>9, IterationStep

(* BYE ends the sender's entry and the registration (retraced_registry_bye). *)
LEMMA StepBye ==
    ASSUME IInv, NEW s \in Slots, conn[s].rx # <<>>, conn[s].rx[1].type = "BYE",
           HandleBye(s), UNCHANGED <<births, left, ended, raced>>
    PROVE  IInv'
<1>1. PICK d : d = [conn[s] EXCEPT !.rx = Tail(conn[s].rx), !.helloed = FALSE] BY Zenon
<1>2. conn[s] \in Connection /\ conn \in [Slots -> Connection] BY Zenon, IInvMeans
<1>3. /\ d.rx = Tail(conn[s].rx) /\ d.pid = conn[s].pid /\ d.open = conn[s].open
      /\ d.helloed = FALSE /\ d.row = conn[s].row
  BY Zenon, <1>1, <1>2 DEF Connection
<1>4. d \in Connection
  <2>1. conn[s].rx \in Seq(Frame) BY Zenon, <1>2 DEF Connection
  <2>2. Tail(conn[s].rx) \in Seq(Frame) BY <2>1
  <2> QED BY Zenon, <1>1, <1>2, <2>2 DEF Connection
<1>5. conn' = [conn EXCEPT ![s] = d] BY Zenon, <1>1 DEF HandleBye
<1>6. /\ conn' \in [Slots -> Connection] /\ conn'[s] = d
      /\ \A t \in Slots : t # s => conn'[t] = conn[t]
  BY Zenon, <1>2, <1>4, <1>5
<1>7. Leaves(conn[s], conn'[s]) BY Zenon, <1>3, <1>6 DEF Leaves
<1>8. PICK r : /\ r = IF conn[s].row # NoRow THEN Bye(rows, conn[s].row) ELSE rows
               /\ Iteration(r, proc)
  BY Zenon DEF HandleBye
<1>9. /\ GoneAt(rows, r, conn[s].row)
      /\ \A i \in 1 .. Len(rows) : /\ r[i].obs = rows[i].obs /\ r[i].obsLast = rows[i].obsLast
                                   /\ r[i].summed = rows[i].summed
  <2>1. rows \in Seq(Row) BY Zenon, IInvMeans
  <2>2. CASE conn[s].row = NoRow
    <3>1. r = rows BY Zenon, <1>8, <2>2
    <3> QED BY <2>1, <2>2, <3>1 DEF GoneAt, NoRow
  <2>3. CASE conn[s].row # NoRow
    <3>1. PICK i \in DOMAIN rows : i = conn[s].row BY Zenon, <2>3, IInvMeans DEF Seated
    <3>2. PICK y : y = [rows[i] EXCEPT !.state = "GONE"] BY Zenon
    <3>3. rows[i] \in Row BY <2>1
    <3>4. y \in Row BY Zenon, <3>2, <3>3 DEF Row
    <3>5. r = [rows EXCEPT ![i] = y] BY Zenon, <1>8, <2>3, <3>1, <3>2 DEF Bye
    <3>6. /\ r \in Seq(Row) /\ Len(r) = Len(rows) /\ r[i] = y
          /\ \A j \in 1 .. Len(rows) : j # i => r[j] = rows[j]
      BY <2>1, <3>4, <3>5, RowEdit
    <3>7. /\ y.pid = rows[i].pid /\ y.session = rows[i].session
          /\ y.parent = rows[i].parent /\ y.state = "GONE"
          /\ y.obs = rows[i].obs /\ y.obsLast = rows[i].obsLast
          /\ y.summed = rows[i].summed
      BY Zenon, <3>2, <3>3 DEF Row
    <3> QED BY Zenon, <3>1, <3>6, <3>7 DEF GoneAt
  <2> QED BY Zenon, <2>2, <2>3
<1>10. World(r, conn', proc, raced)
  BY <1>2, <1>6, <1>7, <1>9, WorldBye, IInvMeans
<1>11. /\ r \in Seq(Row) /\ DOMAIN r = DOMAIN rows /\ DOMAIN rows = 1 .. Len(rows)
       /\ \A i \in DOMAIN rows : r[i].pid = rows[i].pid
  BY <1>9, IInvMeans DEF GoneAt
<1>12. DriftIn(r, conn', up)
  <2>1. \A t \in Slots : conn[t].pid # 0 /\ conn[t].row # NoRow =>
               conn'[t].pid # 0 /\ conn'[t].row = conn[t].row
    BY Zenon, <1>3, <1>6
  <2>2. DriftIn(rows, conn', up) BY Zenon, <2>1, DriftHeld, IInvMeans
  <2> QED BY Zenon, <1>9, <1>11, <2>2 DEF DriftIn, Balanced
<1>13. evidence' = evidence /\ minted' = minted /\ raced' = raced /\ left' = left
       /\ births' = births
  BY Zenon DEF HandleBye
<1>14. FiledIn(evidence', r)
  <2>1. FiledIn(evidence, rows) BY Zenon, IInvMeans
  <2> QED BY Zenon, <1>11, <1>13, <2>1 DEF FiledIn
<1>15. Types /\ proc \in [Pids -> Process] /\ minted' \in Nat /\ births' \in Nat
       /\ left' \in Budget /\ raced' \in BOOLEAN
  BY Zenon, <1>13, IInvMeans
<1>16. World(r, conn', proc, raced') BY Zenon, <1>10, <1>13
<1>17. \A p \in Pids : proc[p].run = "zombie" => proc[p].run # "running" BY Zenon
<1> QED BY Zenon, <1>6, <1>8, <1>11, <1>12, <1>14, <1>15, <1>16, <1>17, IterationStep

(* An EOF frees the slot after the leaver's summary.                        *)
LEMMA StepEof ==
    ASSUME IInv, NEW s \in Slots, ReadEof(s)
    PROVE  IInv'
<1>1. /\ Types /\ rows \in Seq(Row) /\ conn \in [Slots -> Connection]
      /\ conn[s] \in Connection /\ proc \in [Pids -> Process]
      /\ World(rows, conn, proc, raced) /\ Orderly(conn[s])
  BY Zenon, IInvMeans
<1>2. conn[s].rx = <<>> /\ ~conn[s].open BY Zenon DEF ReadEof
<1>3. PICK d : d = [conn[s] EXCEPT !.pid = 0, !.gen = 0] BY Zenon
<1>4. /\ d.rx = conn[s].rx /\ d.pid = 0 /\ d.open = conn[s].open
      /\ d.helloed = conn[s].helloed /\ d.row = conn[s].row
  BY Zenon, <1>1, <1>3 DEF Connection
<1>5. d \in Connection BY Zenon, <1>1, <1>3 DEF Connection
<1>6. /\ conn' \in [Slots -> Connection] /\ conn'[s] = d
      /\ \A t \in Slots : t # s => conn'[t] = conn[t]
  BY Zenon, <1>1, <1>3, <1>5 DEF ReadEof
<1>7. ASSUME NEW t \in Slots PROVE Quiet(conn[t], conn'[t])
  <2>1. CASE t = s
    <3>1. Orderly(d) BY <1>1, <1>2, <1>4 DEF Orderly
    <3>2. ~Greets(d) /\ ~Parting(d) BY <1>2, <1>4 DEF Greets, Parting
    <3> QED BY Zenon, <1>4, <1>6, <2>1, <3>1, <3>2 DEF Quiet
  <2>2. CASE t # s
    <3>1. conn'[t] = conn[t] /\ Orderly(conn[t]) BY Zenon, <1>6, <2>2, IInvMeans
    <3> QED BY Zenon, <3>1 DEF Quiet
  <2> QED BY Zenon, <2>1, <2>2
<1>8. World(rows, conn', proc, raced) BY Zenon, <1>1, <1>7, WorldQuiet
<1>9. \A i \in DOMAIN rows : Balanced(rows[i])
  <2>1. DriftIn(rows, conn, up) BY Zenon, IInvMeans
  <2> QED BY Zenon, <2>1 DEF DriftIn
<1>10. PICK r : r = Summaries(rows) BY Zenon
<1>11. Kept(rows, r) /\ \A i \in 1 .. Len(rows) : r[i].summed = r[i].obs
  BY Zenon, <1>1, <1>9, <1>10, SummariesKeep
<1>12. r \in Seq(Row) /\ Alike(rows, r) BY Zenon, <1>11, KeptAlike DEF Kept
<1>13. raced' = raced /\ evidence' = evidence /\ Iteration(r, proc) BY Zenon, <1>10 DEF ReadEof
<1>14. World(r, conn', proc, raced') BY Zenon, <1>1, <1>8, <1>12, <1>13, StaySelf, WorldAlike
<1>15. DriftIn(r, conn', up)
  <2>1. DOMAIN r = 1 .. Len(rows) /\ DOMAIN rows = 1 .. Len(rows) BY <1>1, <1>11 DEF Kept
  <2>2. \A i \in DOMAIN r : Balanced(r[i])
    BY Zenon, <1>9, <1>11, <2>1 DEF Kept, Same
  <2> QED BY Zenon, <1>11, <2>1, <2>2 DEF DriftIn
<1>16. FiledIn(evidence', r)
  <2>1. FiledIn(evidence, rows) /\ DriftIn(rows, conn, up) BY Zenon, IInvMeans
  <2> QED BY Zenon, <1>1, <1>11, <1>13, <2>1, KeptKeeps
<1>17. minted' \in Nat /\ births' \in Nat /\ left' \in Budget /\ raced' \in BOOLEAN
  BY Zenon, IInvMeans DEF ReadEof
<1>18. \A p \in Pids : proc[p].run = "zombie" => proc[p].run # "running" BY Zenon
<1> QED BY Zenon, <1>1, <1>6, <1>12, <1>13, <1>14, <1>15, <1>16, <1>17, <1>18, IterationStep

(* A new connection takes a free slot.                                      *)
LEMMA StepAccept ==
    ASSUME IInv, NEW p \in Pids, Accept(p)
    PROVE  IInv'
<1>1. /\ Types /\ rows \in Seq(Row) /\ conn \in [Slots -> Connection]
      /\ proc \in [Pids -> Process] /\ proc[p] \in Process
      /\ World(rows, conn, proc, raced)
  BY Zenon, IInvMeans
<1>2a. PICK s \in Slots :
        /\ conn[s].pid = 0
        /\ conn' = [conn EXCEPT ![s] = Opened(s, p,
             [type |-> "HELLO", pid |-> p, ppid |-> proc[p].ppid,
              root |-> proc[p].root, token |-> proc[p].token])]
        /\ Iteration(rows, [proc EXCEPT ![p] = [proc[p] EXCEPT !.sock = s]])
  <2>1. PICK s : /\ s = CHOOSE t \in {u \in Slots : conn[u].pid = 0} : TRUE
                 /\ conn' = [conn EXCEPT ![s] = Opened(s, p,
                      [type |-> "HELLO", pid |-> p, ppid |-> proc[p].ppid,
                       root |-> proc[p].root, token |-> proc[p].token])]
                 /\ Iteration(rows, [proc EXCEPT ![p] = [proc[p] EXCEPT !.sock = s]])
                 /\ {u \in Slots : conn[u].pid = 0} # {}
    BY Zenon DEF Accept
  <2>2. s \in {u \in Slots : conn[u].pid = 0} BY Zenon, <2>1
  <2> QED BY Zenon, <2>1, <2>2
<1>2. PICK h : /\ s \in Slots /\ conn[s].pid = 0
               /\ h = [type |-> "HELLO", pid |-> p, ppid |-> proc[p].ppid,
                       root |-> proc[p].root, token |-> proc[p].token]
               /\ conn' = [conn EXCEPT ![s] = Opened(s, p, h)]
               /\ Iteration(rows, [proc EXCEPT ![p] = [proc[p] EXCEPT !.sock = s]])
  BY Zenon, <1>2a
<1>3. proc[p].run = "running" /\ proc[p].sock = "none" BY Zenon DEF Accept
<1>4. h \in Frame /\ h.type = "HELLO" /\ h.pid = p /\ h.ppid = proc[p].ppid
      /\ h.token = proc[p].token
  BY Zenon, <1>1, <1>2 DEF Frame, Process
<1>5. PICK d : d = Opened(s, p, h) BY Zenon
<1>6. /\ d.pid = p /\ d.open = TRUE /\ d.helloed = FALSE /\ d.row = NoRow /\ d.rx = <<h>>
  BY Zenon, <1>5 DEF Opened, Free
<1>7. d \in Connection
  <2>1. <<h>> \in Seq(Frame) BY <1>4
  <2>2. proc[p].gen \in Nat BY Zenon, <1>1 DEF Process
  <2> QED BY Zenon, <1>5, <2>1, <2>2 DEF Opened, Free, Connection, NoRow
<1>8. /\ conn' \in [Slots -> Connection] /\ conn'[s] = d
      /\ \A t \in Slots : t # s => conn'[t] = conn[t]
  BY Zenon, <1>1, <1>2, <1>5, <1>7
<1>9. Len(<<h>>) = 1 /\ <<h>>[1] = h BY Zenon
<1>10. Opens(conn'[s], p, proc[p]) BY Zenon, <1>4, <1>6, <1>8, <1>9 DEF Opens
<1>11. PICK y : y = [proc[p] EXCEPT !.sock = s] BY Zenon
<1>12. PICK ps : ps = [proc EXCEPT ![p] = y] BY Zenon
<1>13. y \in Process BY Zenon, <1>1, <1>11 DEF Process
<1>14. /\ y.run = proc[p].run /\ y.ppid = proc[p].ppid /\ y.token = proc[p].token
       /\ y.sock = s /\ y.welcome = proc[p].welcome
  BY Zenon, <1>1, <1>11 DEF Process
<1>15. ps \in [Pids -> Process] /\ ps[p] = y /\ \A q \in Pids : q # p => ps[q] = proc[q]
  BY Zenon, <1>1, <1>12, <1>13
<1>16. Connects(proc, ps, p, s) BY Zenon, <1>14, <1>15 DEF Connects
<1>17. World(rows, conn', ps, raced)
  BY Zenon, <1>1, <1>2, <1>3, <1>8, <1>10, <1>15, <1>16, WorldAccept
<1>18. DriftIn(rows, conn', up)
  <2>1. \A t \in Slots : conn[t].pid # 0 /\ conn[t].row # NoRow =>
               conn'[t].pid # 0 /\ conn'[t].row = conn[t].row
    BY Zenon, <1>2, <1>8
  <2> QED BY Zenon, <2>1, DriftHeld, IInvMeans
<1>19. Iteration(rows, ps) BY Zenon, <1>2, <1>11, <1>12
<1>20. raced' = raced /\ minted' \in Nat /\ births' \in Nat /\ left' \in Budget
       /\ raced' \in BOOLEAN /\ FiledIn(evidence', rows)
  BY Zenon, IInvMeans DEF Accept
<1>21. World(rows, conn', ps, raced') BY Zenon, <1>17, <1>20
<1>22. \A q \in Pids : proc[q].run = "zombie" => ps[q].run # "running"
  BY Zenon, <1>3, <1>15
<1>23. /\ Types /\ rows \in Seq(Row) /\ ps \in [Pids -> Process]
       /\ conn' \in [Slots -> Connection]
  BY Zenon, <1>1, <1>8, <1>15
<1> QED BY Zenon, <1>18, <1>19, <1>20, <1>21, <1>22, <1>23, IterationStep

(* A pid that no live entry and no HELLO on its way names.                   *)
LEMMA UnclaimedIs ==
    ASSUME IInv, NEW p, ~Claimed(p)
    PROVE  Unclaimed(rows, conn, p)
<1>1. ~Known(rows, p) BY Zenon DEF Claimed, Known, Names
<1>2. ASSUME NEW t \in Slots, Greets(conn[t]) PROVE conn[t].pid # p /\ conn[t].rx[1].ppid # p
  <2>1. conn[t] \in Connection /\ Orderly(conn[t]) BY Zenon, IInvMeans
  <2>2. conn[t].rx \in Seq(Frame) BY Zenon, <2>1 DEF Connection
  <2>3. 1 \in DOMAIN conn[t].rx /\ conn[t].rx[1].type = "HELLO" BY <1>2, <2>2 DEF Greets
  <2>4. conn[t].rx[1].pid = conn[t].pid BY Zenon, <2>1, <2>3 DEF Orderly
  <2>5. p \notin {conn[t].rx[1].pid, conn[t].rx[1].ppid} BY Zenon, <2>3 DEF Claimed
  <2> QED BY Zenon, <2>4, <2>5
<1> QED BY Zenon, <1>1, <1>2 DEF Unclaimed

(* A process starts without a connection and without a WELCOME.              *)
LEMMA BornIs ==
    ASSUME births \in Nat, NEW pp \in Pids \cup {Outside}, NEW n \in Nat, NEW k \in Nat,
           NEW c \in BOOLEAN
    PROVE  Born(pp, n, k, c) \in Process /\ Newborn(Born(pp, n, k, c), pp, k)
<1>1. births + 1 \in Nat OBVIOUS
<1>2. Born(pp, n, k, c) \in Process
  BY Zenon, <1>1 DEF Born, NoProc, Process, NoSession
<1>3. Newborn(Born(pp, n, k, c), pp, k) BY Zenon DEF Born, NoProc, Newborn
<1> QED BY Zenon, <1>2, <1>3

(* A workload is started from the console.                                  *)
LEMMA StepSpawn ==
    ASSUME IInv, NEW p \in Pids, verb_spawn(p)
    PROVE  IInv'
<1>1. /\ Types /\ rows \in Seq(Row) /\ conn \in [Slots -> Connection]
      /\ proc \in [Pids -> Process] /\ births \in Nat /\ left \in Budget
      /\ raced \in BOOLEAN /\ World(rows, conn, proc, raced)
  BY Zenon, IInvMeans
<1>2. PICK n \in Nat : n = births + 1 BY <1>1
<1>3. PICK y : y = Born(Outside, n, NoSession, TRUE) BY Zenon
<1>4. y \in Process /\ Newborn(y, Outside, NoSession)
  BY Zenon, <1>1, <1>2, <1>3, BornIs DEF NoSession
<1>5. PICK ps : ps = [proc EXCEPT ![p] = y] BY Zenon
<1>6. ps \in [Pids -> Process] /\ ps[p] = y /\ OnlyAt(proc, ps, p)
  BY Zenon, <1>1, <1>4, <1>5 DEF OnlyAt
<1>7. proc[p].run = "none" /\ births' = n
  BY Zenon, <1>2 DEF verb_spawn, Birth
<1>8. ~raced' => ~raced /\ Unclaimed(rows, conn, p)
  BY Zenon, UnclaimedIs DEF verb_spawn
<1>9. World(rows, conn, ps, raced')
  BY Zenon, <1>1, <1>4, <1>6, <1>7, <1>8, WorldBirth
<1>10. left' \in Budget
  <2>1. left' = [left EXCEPT !.births = left.births - 1] /\ left.births > 0
    BY Zenon DEF verb_spawn, Birth
  <2>2. left.births \in Nat BY Zenon, <1>1 DEF Budget
  <2>3. left.births - 1 \in Nat BY <2>1, <2>2
  <2> QED BY Zenon, <1>1, <2>1, <2>3 DEF Budget
<1>11. Iteration(rows, ps) BY Zenon, <1>2, <1>3, <1>5 DEF verb_spawn
<1>12. conn' = conn /\ minted' = minted /\ evidence' = evidence /\ raced' \in BOOLEAN
  BY Zenon, <1>1 DEF verb_spawn, Claimed
<1>13. conn' \in [Slots -> Connection] /\ World(rows, conn', ps, raced')
       /\ DriftIn(rows, conn', up) /\ FiledIn(evidence', rows) /\ minted' \in Nat
       /\ births' \in Nat
  BY Zenon, <1>1, <1>7, <1>9, <1>12, IInvMeans
<1>14. \A q \in Pids : proc[q].run = "zombie" => ps[q].run # "running"
  BY Zenon, <1>6, <1>7 DEF OnlyAt
<1> QED BY Zenon, <1>1, <1>6, <1>10, <1>11, <1>12, <1>13, <1>14, IterationStep

(* The timeout of poll() reaps and does nothing else.                       *)
LEMMA StepIdle ==
    ASSUME IInv, IdleIteration
    PROVE  IInv'
<1>1. /\ Types /\ rows \in Seq(Row) /\ proc \in [Pids -> Process]
      /\ World(rows, conn, proc, raced)
  BY Zenon, IInvMeans
<1>2. NoProc \in Process
  BY Zenon, PidsAssumption DEF NoProc, Process, Outside, NoSession
<1>3. proc' \in [Pids -> Process] BY Zenon, <1>1, <1>2 DEF IdleIteration
<1>4. Stay(proc, proc')
  <2>1. ASSUME NEW p \in Pids PROVE Stays(proc[p], proc'[p])
    <3>1. CASE p \in Zombies
      <4>1. proc'[p] = NoProc /\ proc[p].run # "running" BY Zenon, <3>1 DEF IdleIteration, Zombies
      <4>2. Ended(proc[p]) BY Zenon, <1>1, <4>1 DEF World, Ends
      <4> QED BY <4>1, <4>2 DEF Stays, Ended, NoProc
    <3>2. CASE p \notin Zombies
      <4>1. proc'[p] = proc[p] BY Zenon, <3>2 DEF IdleIteration
      <4> QED BY Zenon, <4>1 DEF Stays
    <3> QED BY Zenon, <3>1, <3>2
  <2> QED BY Zenon, <2>1 DEF Stay
<1>5. Alike(rows, rows) BY Zenon, <1>1 DEF Alike, Look
<1>6. World(rows, conn, proc', raced) BY Zenon, <1>1, <1>3, <1>4, <1>5, WorldAlike
<1>7. UNCHANGED <<up, rows, minted, conn, due, evidence, births, left, raced>>
  BY Zenon DEF IdleIteration
<1>8. Types' BY Zenon, <1>1, <1>3, <1>7 DEF Types
<1>9. Drift' /\ EvidenceAttributed'
  BY Zenon, <1>7 DEF IInv, Drift, DriftAccounted, EvidenceAttributed
<1> QED BY Zenon, <1>6, <1>7, <1>8, <1>9 DEF IInv

(* What the processes do leaves the daemon's records alone.                 *)
LEMMA OutsideStep ==
    ASSUME IInv, UNCHANGED <<up, rows, minted, due, evidence>>,
           conn' \in [Slots -> Connection], proc' \in [Pids -> Process],
           births' \in Nat, left' \in Budget, raced' \in BOOLEAN,
           World(rows, conn', proc', raced'),
           \A s \in Slots : conn'[s].pid = conn[s].pid /\ conn'[s].row = conn[s].row
    PROVE  IInv'
<1>1. DriftIn(rows, conn', up)
  BY Zenon, DriftHeld, IInvMeans
<1>2. Drift'
  BY Zenon, <1>1 DEF Drift, DriftIn, DriftAccounted, Held
<1>3. EvidenceAttributed' BY Zenon DEF IInv, EvidenceAttributed
<1>4. Types' BY Zenon DEF IInv, Types
<1> QED BY Zenon, <1>2, <1>3, <1>4 DEF IInv

(* A frame other than HELLO and BYE joins the queue of its connection.      *)
LEMMA SendStep ==
    ASSUME IInv, NEW p \in Pids, NEW f \in Frame, f.type \notin {"HELLO", "BYE"},
           Send(p, f), UNCHANGED <<up, rows, minted, due, evidence, proc, births, raced>>,
           left' \in Budget
    PROVE  IInv'
<1>1. /\ conn \in [Slots -> Connection] /\ proc \in [Pids -> Process]
      /\ births \in Nat /\ raced \in BOOLEAN
      /\ World(rows, conn, proc, raced)
  BY Zenon, IInvMeans
<1>2. PICK s \in Slots : /\ s = proc[p].sock
                         /\ conn' = [conn EXCEPT ![s] = [conn[s] EXCEPT
                                       !.rx = Append(conn[s].rx, f)]]
  BY Zenon DEF Send
<1>3. conn[s] \in Connection /\ Orderly(conn[s]) BY Zenon, IInvMeans
<1>4. conn[s].open BY Zenon, <1>1, <1>2 DEF World, Ends
<1>5. PICK d : d = [conn[s] EXCEPT !.rx = Append(conn[s].rx, f)] BY Zenon
<1>6. d \in Connection /\ Quiet(conn[s], d) BY Zenon, <1>3, <1>4, <1>5, AppendQuiet
<1>7. d.pid = conn[s].pid /\ d.row = conn[s].row BY Zenon, <1>3, <1>5 DEF Connection
<1>8. /\ conn' \in [Slots -> Connection] /\ conn'[s] = d
      /\ \A t \in Slots : t # s => conn'[t] = conn[t]
  BY Zenon, <1>1, <1>2, <1>5, <1>6
<1>9. ASSUME NEW t \in Slots PROVE Quiet(conn[t], conn'[t])
  <2>1. CASE t = s BY Zenon, <1>6, <1>8, <2>1
  <2>2. CASE t # s
    <3>1. conn'[t] = conn[t] /\ Orderly(conn[t]) BY Zenon, <1>8, <2>2, IInvMeans
    <3> QED BY Zenon, <3>1 DEF Quiet
  <2> QED BY Zenon, <2>1, <2>2
<1>10. World(rows, conn', proc, raced) BY Zenon, <1>1, <1>9, WorldQuiet
<1>11. \A t \in Slots : conn'[t].pid = conn[t].pid /\ conn'[t].row = conn[t].row
  BY Zenon, <1>7, <1>8
<1> QED BY Zenon, <1>1, <1>8, <1>10, <1>11, OutsideStep

(* The agents' heartbeats and kernel-lane events.                            *)
LEMMA StepSend ==
    ASSUME IInv, NEW p \in Pids, SendHeartbeat(p) \/ SendKernelEvent(p)
    PROVE  IInv'
<1>1. left \in Budget BY Zenon, IInvMeans
<1>2. CASE SendHeartbeat(p)
  <2>1. PICK f : f = [type |-> "HEARTBEAT"] BY Zenon
  <2>2. f \in Frame /\ f.type \notin {"HELLO", "BYE"} BY Zenon, <2>1 DEF Frame
  <2>3. /\ Send(p, f) /\ left' = left
        /\ UNCHANGED <<up, rows, minted, due, evidence, proc, births, raced>>
    BY Zenon, <1>2, <2>1 DEF SendHeartbeat, procVars
  <2> QED BY Zenon, <1>1, <2>2, <2>3, SendStep
<1>3. CASE SendKernelEvent(p)
  <2>1. PICK f : f = [type |-> "KERNEL"] BY Zenon
  <2>2. f \in Frame /\ f.type \notin {"HELLO", "BYE"} BY Zenon, <2>1 DEF Frame
  <2>3. /\ Send(p, f) /\ left' = [left EXCEPT !.kernel = left.kernel - 1] /\ left.kernel > 0
        /\ UNCHANGED <<up, rows, minted, due, evidence, proc, births, raced>>
    BY Zenon, <1>3, <2>1 DEF SendKernelEvent
  <2>4. left.kernel \in Nat BY Zenon, <1>1 DEF Budget
  <2>5. left.kernel - 1 \in Nat BY <2>3, <2>4
  <2>6. left' \in Budget BY Zenon, <1>1, <2>3, <2>5 DEF Budget
  <2> QED BY Zenon, <2>2, <2>3, <2>6, SendStep
<1> QED BY Zenon, <1>2, <1>3

(* An agent reads WELCOME and takes its token from there, or cannot.        *)
LEMMA StepReadWelcome ==
    ASSUME IInv, NEW p \in Pids, ReadWelcome(p)
    PROVE  IInv'
<1>1. /\ rows \in Seq(Row) /\ conn \in [Slots -> Connection]
      /\ proc \in [Pids -> Process] /\ proc[p] \in Process
      /\ births \in Nat /\ raced \in BOOLEAN /\ left \in Budget
      /\ World(rows, conn, proc, raced)
  BY Zenon, IInvMeans
<1>2. PICK k \in {proc[p].welcome, proc[p].token} :
        /\ proc' = [proc EXCEPT ![p] = [@ EXCEPT !.token = k, !.welcome = NoSession]]
        /\ raced' = (raced \/ k = NoSession)
  BY Zenon DEF ReadWelcome
<1>3. PICK y : y = [proc[p] EXCEPT !.token = k, !.welcome = NoSession]
  BY Zenon
<1>4. k \in Nat BY Zenon, <1>1 DEF Process
<1>5. y \in Process BY Zenon, <1>1, <1>3, <1>4 DEF Process, NoSession
<1>6. /\ y.run = proc[p].run /\ y.ppid = proc[p].ppid /\ y.sock = proc[p].sock
      /\ y.token = k /\ y.welcome = NoSession
  BY Zenon, <1>1, <1>3 DEF Process
<1>7. proc' = [proc EXCEPT ![p] = y] BY Zenon, <1>2, <1>3
<1>8. proc' \in [Pids -> Process] /\ proc'[p] = y /\ OnlyAt(proc, proc', p)
  BY Zenon, <1>1, <1>5, <1>7 DEF OnlyAt
<1>9. Tokens(proc, proc', p, k, NoSession) BY Zenon, <1>6, <1>8 DEF Tokens
<1>10. proc[p].run = "running" /\ proc[p].welcome # NoSession
  BY Zenon DEF ReadWelcome, Running
<1>11. World(rows, conn, proc', raced')
  <2>1. Links(rows) /\ Seats(rows, conn) /\ Ends(conn, proc) BY Zenon, <1>1 DEF World
  <2>2. Ends(conn, proc') BY Zenon, <1>1, <1>8, <1>9, <1>10, <2>1, EndsTokens
  <2>3. CASE raced' BY Zenon, <2>1, <2>2, <2>3 DEF World
  <2>4. CASE ~raced'
    <3>1. ~raced /\ k # NoSession BY Zenon, <1>2, <2>4
    <3>2. WelcomeAgrees(proc) BY Zenon, <1>1, <3>1 DEF World, Sessions
    <3>3. k = proc[p].welcome
      BY Zenon, <1>2, <1>10, <3>1, <3>2 DEF WelcomeAgrees, Agrees
    <3>4. World(rows, conn, proc', raced)
      BY Zenon, <1>1, <1>8, <1>9, <1>10, <3>3, WorldToken
    <3> QED BY Zenon, <2>4, <3>1, <3>4 DEF World
  <2> QED BY Zenon, <2>3, <2>4
<1>12. UNCHANGED <<up, rows, minted, conn, due, evidence, births, left>>
  BY Zenon DEF ReadWelcome, daemonVars
<1>13. World(rows, conn', proc', raced') BY Zenon, <1>11, <1>12
<1>14. raced' \in BOOLEAN BY Zenon, <1>1, <1>2
<1> QED BY Zenon, <1>1, <1>8, <1>12, <1>13, <1>14, OutsideStep

(* A process forks: the child has its token and its pid as parent.          *)
LEMMA StepFork ==
    ASSUME IInv, NEW p \in Pids, NEW c \in Pids, Fork(p, c)
    PROVE  IInv'
<1>1. /\ rows \in Seq(Row) /\ conn \in [Slots -> Connection]
      /\ proc \in [Pids -> Process] /\ births \in Nat /\ left \in Budget
      /\ raced \in BOOLEAN /\ World(rows, conn, proc, raced)
  BY Zenon, IInvMeans
<1>2. proc[p].root \in Nat /\ proc[p].token \in Nat BY Zenon, <1>1 DEF Process
<1>3. PICK y : y = Born(p, proc[p].root, proc[p].token, FALSE) BY Zenon
<1>4. y \in Process /\ Newborn(y, p, proc[p].token)
  BY Zenon, <1>1, <1>2, <1>3, BornIs
<1>6. proc' \in [Pids -> Process] /\ proc'[c] = y /\ OnlyAt(proc, proc', c)
  BY Zenon, <1>1, <1>3, <1>4 DEF OnlyAt, Fork
<1>7. proc[c].run = "none" /\ proc[p].run = "running" /\ births' = births + 1
  BY Zenon DEF Fork, Birth, Running
<1>8. ~raced' => ~raced /\ Unclaimed(rows, conn, c) /\ proc[p].token # NoSession
  BY Zenon, UnclaimedIs DEF Fork
<1>9. World(rows, conn, proc', raced')
  BY Zenon, <1>1, <1>4, <1>6, <1>7, <1>8, WorldBirth
<1>10. left' \in Budget
  <2>1. left' = [left EXCEPT !.births = left.births - 1] /\ left.births > 0
    BY Zenon DEF Fork, Birth
  <2>2. left.births \in Nat BY Zenon, <1>1 DEF Budget
  <2>3. left.births - 1 \in Nat BY <2>1, <2>2
  <2> QED BY Zenon, <1>1, <2>1, <2>3 DEF Budget
<1>11. UNCHANGED <<up, rows, minted, conn, due, evidence>> /\ raced' \in BOOLEAN
  BY Zenon, <1>1 DEF Fork, daemonVars, Claimed
<1>12. births' \in Nat BY <1>1, <1>7
<1>13. World(rows, conn', proc', raced') BY Zenon, <1>9, <1>11
<1> QED BY Zenon, <1>1, <1>6, <1>10, <1>11, <1>12, <1>13, OutsideStep

(* An exec wipes the environment of a process without a connection.         *)
LEMMA StepScrub ==
    ASSUME IInv, NEW p \in Pids, Scrub(p)
    PROVE  IInv'
<1>1. /\ rows \in Seq(Row) /\ conn \in [Slots -> Connection]
      /\ proc \in [Pids -> Process] /\ proc[p] \in Process
      /\ births \in Nat /\ raced \in BOOLEAN /\ left \in Budget
      /\ World(rows, conn, proc, raced)
  BY IInvMeans
<1>2. PICK y : y = [proc[p] EXCEPT !.token = NoSession] BY Zenon
<1>3. y \in Process BY Zenon, <1>1, <1>2 DEF Process, NoSession
<1>4. /\ y.run = proc[p].run /\ y.ppid = proc[p].ppid /\ y.sock = proc[p].sock
      /\ y.token = NoSession /\ y.welcome = proc[p].welcome
  BY Zenon, <1>1, <1>2 DEF Process
<1>5. proc' = [proc EXCEPT ![p] = y] BY Zenon, <1>2 DEF Scrub
<1>6. proc' \in [Pids -> Process] /\ proc'[p] = y /\ OnlyAt(proc, proc', p)
  BY <1>1, <1>3, <1>5 DEF OnlyAt
<1>7. proc[p].run = "running" /\ proc[p].sock = "none" /\ left.scrubs > 0
  BY Zenon DEF Scrub, Running
<1>8. proc[p].welcome = NoSession
  BY Zenon, <1>1, <1>7, SlotsAssumption DEF World, Ends
<1>9. Tokens(proc, proc', p, NoSession, NoSession) BY Zenon, <1>4, <1>6, <1>8 DEF Tokens
<1>10. ~raced' => /\ ~raced /\ Unclaimed(rows, conn, p)
                  /\ \A q \in Pids : proc[q].ppid # p
                  /\ proc[p].ppid # Outside => Known(rows, proc[p].ppid)
  BY Zenon, UnclaimedIs DEF Scrub, Registered, Known, Names
<1>11. World(rows, conn, proc', raced')
  BY Zenon, <1>1, <1>6, <1>7, <1>9, <1>10, WorldScrub
<1>12. UNCHANGED <<up, rows, minted, conn, due, evidence, births>> /\ raced' \in BOOLEAN
  BY Zenon, <1>1 DEF Scrub, daemonVars, Claimed, Registered
<1>13. left' \in Budget
  <2>1. left' = [left EXCEPT !.scrubs = left.scrubs - 1] BY Zenon DEF Scrub
  <2>2. left.scrubs \in Nat BY Zenon, <1>1 DEF Budget
  <2>3. left.scrubs - 1 \in Nat BY <1>7, <2>2
  <2> QED BY Zenon, <1>1, <2>1, <2>3 DEF Budget
<1>14. World(rows, conn', proc', raced') BY Zenon, <1>11, <1>12
<1> QED BY Zenon, <1>1, <1>6, <1>12, <1>13, <1>14, OutsideStep

(* The connection a process closes is the one it holds open.                *)
LEMMA LostIs ==
    ASSUME IInv, NEW p \in Pids, NEW bye \in BOOLEAN, bye => proc[p].sock \in Slots,
           conn' = IF proc[p].sock \in Slots
                   THEN [conn EXCEPT ![proc[p].sock] =
                          [conn[proc[p].sock] EXCEPT !.open = FALSE, !.rx =
                             IF bye THEN Append(conn[proc[p].sock].rx, [type |-> "BYE"])
                             ELSE conn[proc[p].sock].rx]]
                   ELSE conn
    PROVE  /\ conn' \in [Slots -> Connection] /\ Lost(conn, conn', p, bye)
           /\ \A t \in Slots : conn'[t].pid = conn[t].pid /\ conn'[t].row = conn[t].row
<1>1. conn \in [Slots -> Connection] /\ Ends(conn, proc) /\ proc[p] \in Process
  BY Zenon, IInvMeans DEF World
<1>2. CASE proc[p].sock \in Slots
  <2>1. PICK s \in Slots : s = proc[p].sock BY Zenon, <1>2
  <2>2. conn[s].pid = p /\ conn[s].open BY Zenon, <1>1, <2>1 DEF Ends
  <2>3. conn[s] \in Connection /\ Orderly(conn[s]) BY Zenon, IInvMeans
  <2>4. PICK d : d = [conn[s] EXCEPT !.open = FALSE, !.rx =
                        IF bye THEN Append(conn[s].rx, [type |-> "BYE"]) ELSE conn[s].rx]
    BY Zenon
  <2>5. d \in Connection /\ Shut(conn[s], d, bye) BY Zenon, <2>2, <2>3, <2>4, ShutIs
  <2>6. /\ conn' \in [Slots -> Connection] /\ conn'[s] = d
        /\ \A t \in Slots : t # s => conn'[t] = conn[t]
    BY Zenon, <1>1, <2>1, <2>4, <2>5
  <2>7. \A t \in Slots : conn[t].pid = p /\ conn[t].open => t = s
    BY Zenon, <1>1, <2>1 DEF Ends
  <2>8. Lost(conn, conn', p, bye) BY Zenon, <2>2, <2>5, <2>6, <2>7 DEF Lost
  <2>9. d.pid = conn[s].pid /\ d.row = conn[s].row BY Zenon, <2>5 DEF Shut
  <2> QED BY Zenon, <2>6, <2>8, <2>9
<1>3. CASE proc[p].sock \notin Slots
  <2>1. conn' = conn BY Zenon, <1>3
  <2>2. \A t \in Slots : ~(conn[t].pid = p /\ conn[t].open)
    BY <1>1, <1>3 DEF Ends
  <2> QED BY Zenon, <1>1, <2>1, <2>2 DEF Lost
<1> QED BY Zenon, <1>2, <1>3

(* A process ends, with or without a BYE, and its children are reparented.  *)
LEMMA StepExit ==
    ASSUME IInv, NEW p \in Pids, NEW bye \in BOOLEAN, Exit(p, bye)
    PROVE  IInv'
<1>1. /\ rows \in Seq(Row) /\ conn \in [Slots -> Connection]
      /\ proc \in [Pids -> Process] /\ proc[p] \in Process
      /\ births \in Nat /\ raced \in BOOLEAN /\ left \in Budget
      /\ World(rows, conn, proc, raced)
  BY Zenon, IInvMeans
<1>2. /\ conn' \in [Slots -> Connection] /\ Lost(conn, conn', p, bye)
      /\ \A t \in Slots : conn'[t].pid = conn[t].pid /\ conn'[t].row = conn[t].row
  <2>1. /\ bye => proc[p].sock \in Slots
        /\ conn' = IF proc[p].sock \in Slots
                   THEN [conn EXCEPT ![proc[p].sock] =
                          [conn[proc[p].sock] EXCEPT !.open = FALSE, !.rx =
                             IF bye THEN Append(conn[proc[p].sock].rx, [type |-> "BYE"])
                             ELSE conn[proc[p].sock].rx]]
                   ELSE conn
    BY Zenon DEF Exit
  <2> QED BY Zenon, <2>1, LostIs
<1>3. PICK y : y = [NoProc EXCEPT !.run = IF proc[p].child THEN "zombie" ELSE "none",
                                  !.gen = IF proc[p].child THEN proc[p].gen ELSE 0]
  BY Zenon
<1>4. /\ y.run # "running" /\ Ended(y)
  BY Zenon, <1>3 DEF NoProc, Ended
<1>5. y \in Process
  BY Zenon, <1>1, <1>3 DEF NoProc, Process, Outside, NoSession
<1>6. proc' = [q \in Pids |->
              IF q = p THEN y
              ELSE IF proc[q].ppid = p THEN [proc[q] EXCEPT !.ppid = Outside]
              ELSE proc[q]]
  BY Zenon, <1>3 DEF Exit
<1>7. proc'[p] = y /\ \A q \in Pids : q # p => proc'[q] =
         IF proc[q].ppid = p THEN [proc[q] EXCEPT !.ppid = Outside] ELSE proc[q]
  BY Zenon, <1>6
<1>8. ASSUME NEW q \in Pids, q # p
      PROVE  /\ proc'[q] \in Process
             /\ proc'[q].run = proc[q].run /\ proc'[q].token = proc[q].token
             /\ proc'[q].sock = proc[q].sock /\ proc'[q].welcome = proc[q].welcome
             /\ proc'[q].ppid = IF proc[q].ppid = p THEN Outside ELSE proc[q].ppid
  <2>1. proc[q] \in Process BY Zenon, <1>1
  <2>2. CASE proc[q].ppid = p
    <3>1. proc'[q] = [proc[q] EXCEPT !.ppid = Outside] BY Zenon, <1>7, <1>8, <2>2
    <3>2. PICK z : z = proc'[q] BY Zenon
    <3>3. z = [proc[q] EXCEPT !.ppid = Outside] BY Zenon, <3>1, <3>2
    <3>4. /\ z \in Process /\ z.run = proc[q].run /\ z.token = proc[q].token
          /\ z.sock = proc[q].sock /\ z.welcome = proc[q].welcome /\ z.ppid = Outside
      BY Zenon, <2>1, <3>3 DEF Process
    <3> QED BY Zenon, <2>2, <3>2, <3>4
  <2>3. CASE proc[q].ppid # p
    <3>1. proc'[q] = proc[q] BY Zenon, <1>7, <1>8, <2>3
    <3> QED BY Zenon, <2>1, <2>3, <3>1
  <2> QED BY Zenon, <2>2, <2>3
<1>9. proc' \in [Pids -> Process]
  <2>1. \A q \in Pids : proc'[q] \in Process BY Zenon, <1>5, <1>7, <1>8
  <2> QED BY Zenon, <1>6, <2>1
<1>10. Orphans(proc, proc', p) BY Zenon, <1>4, <1>7, <1>8 DEF Orphans
<1>11. World(rows, conn', proc', raced) BY Zenon, <1>1, <1>2, <1>9, <1>10, WorldExit
<1>12. UNCHANGED <<up, rows, minted, due, evidence, births, left, raced>> BY Zenon DEF Exit
<1>13. World(rows, conn', proc', raced') BY Zenon, <1>11, <1>12
<1> QED BY Zenon, <1>1, <1>2, <1>9, <1>12, <1>13, OutsideStep

(* An agent loses its connection.                                           *)
LEMMA StepDisconnect ==
    ASSUME IInv, NEW p \in Pids, Disconnect(p)
    PROVE  IInv'
<1>1. /\ rows \in Seq(Row) /\ conn \in [Slots -> Connection]
      /\ proc \in [Pids -> Process] /\ proc[p] \in Process
      /\ births \in Nat /\ raced \in BOOLEAN /\ left \in Budget
      /\ World(rows, conn, proc, raced)
  BY IInvMeans
<1>2. /\ conn' \in [Slots -> Connection] /\ Lost(conn, conn', p, FALSE)
      /\ \A t \in Slots : conn'[t].pid = conn[t].pid /\ conn'[t].row = conn[t].row
  <2>1. PICK s \in Slots : s = proc[p].sock BY Zenon DEF Disconnect
  <2>2. conn' = [conn EXCEPT ![s] = [conn[s] EXCEPT !.open = FALSE]]
    BY Zenon, <2>1 DEF Disconnect
  <2>3. [conn[s] EXCEPT !.open = FALSE]
          = [conn[s] EXCEPT !.open = FALSE, !.rx = conn[s].rx]
    <3>1. conn[s] \in Connection BY Zenon, IInvMeans
    <3> QED BY Zenon, <3>1 DEF Connection
  <2>4. conn' = [conn EXCEPT ![s] = [conn[s] EXCEPT !.open = FALSE, !.rx =
                   IF FALSE THEN Append(conn[s].rx, [type |-> "BYE"]) ELSE conn[s].rx]]
    BY Zenon, <2>2, <2>3
  <2> QED BY Zenon, <2>1, <2>4, LostIs
<1>3. PICK y : y = [proc[p] EXCEPT !.sock = "none", !.welcome = NoSession] BY Zenon
<1>4. y \in Process BY Zenon, <1>1, <1>3 DEF Process, NoSession
<1>5. /\ y.run = proc[p].run /\ y.ppid = proc[p].ppid /\ y.token = proc[p].token
      /\ y.sock = "none" /\ y.welcome = NoSession
  BY Zenon, <1>1, <1>3 DEF Process
<1>6. proc' \in [Pids -> Process] /\ proc'[p] = y /\ OnlyAt(proc, proc', p)
  BY Zenon, <1>1, <1>3, <1>4 DEF OnlyAt, Disconnect
<1>7. GivesUp(proc, proc', p) BY Zenon, <1>5, <1>6 DEF GivesUp
<1>8. proc[p].run = "running" /\ left.drops > 0 BY Zenon DEF Disconnect, Running
<1>9. ~raced' => ~raced /\ proc[p].token # NoSession BY Zenon DEF Disconnect
<1>10. World(rows, conn', proc', raced')
  BY Zenon, <1>1, <1>2, <1>6, <1>7, <1>8, <1>9, WorldDisconnect
<1>11. UNCHANGED <<up, rows, minted, due, evidence, births>> /\ raced' \in BOOLEAN
  BY Zenon, <1>1 DEF Disconnect
<1>12. left' \in Budget
  <2>1. left' = [left EXCEPT !.drops = left.drops - 1] BY Zenon DEF Disconnect
  <2>2. left.drops \in Nat BY Zenon, <1>1 DEF Budget
  <2>3. left.drops - 1 \in Nat BY <1>8, <2>2
  <2> QED BY Zenon, <1>1, <2>1, <2>3 DEF Budget
<1> QED BY Zenon, <1>1, <1>2, <1>6, <1>10, <1>11, <1>12, OutsideStep

(* The registry moves to one that keeps its entries.                        *)
LEMMA KeptStep ==
    ASSUME IInv, Kept(rows, rows'), up' \in BOOLEAN, due' \in BOOLEAN,
           UNCHANGED <<minted, conn, evidence, procVars>>,
           DriftIn(rows', conn, up')
    PROVE  IInv'
<1>1. rows \in Seq(Row) /\ proc \in [Pids -> Process] /\ World(rows, conn, proc, raced)
      /\ FiledIn(evidence, rows) /\ DriftIn(rows, conn, up)
  BY Zenon, IInvMeans
<1>2. rows' \in Seq(Row) /\ Alike(rows, rows') BY Zenon, KeptAlike DEF Kept
<1>3. World(rows', conn, proc, raced) BY Zenon, <1>1, <1>2, StaySelf, WorldAlike
<1>4. FiledIn(evidence, rows') BY Zenon, <1>1, KeptKeeps
<1>5. UNCHANGED <<minted, conn, evidence, proc, births, left, raced>> BY Zenon DEF procVars
<1>6. Drift' BY Zenon, <1>5 DEF Drift, DriftIn, DriftAccounted, Held
<1>7. EvidenceAttributed' BY Zenon, <1>4, <1>5 DEF EvidenceAttributed, FiledIn
<1>8. Types' BY Zenon, <1>2, <1>5 DEF IInv, Types
<1> QED BY Zenon, <1>3, <1>5, <1>6, <1>7, <1>8 DEF IInv

(* Time makes entries older.                                                *)
LEMMA StepTick ==
    ASSUME IInv, Tick
    PROVE  IInv'
<1>1. rows \in Seq(Row) /\ DriftIn(rows, conn, up) /\ FiledIn(evidence, rows)
      /\ up \in BOOLEAN
  BY Zenon, IInvMeans
<1>2. StaleAge \in Nat BY Zenon, BoundsAssumption
<1> DEFINE F(i) == [rows[i] EXCEPT !.age = IF rows[i].age < StaleAge
                                           THEN rows[i].age + 1 ELSE rows[i].age]
<1>3. rows' = [i \in 1 .. Len(rows) |-> F(i)] BY <1>1 DEF Tick
<1>4. ASSUME NEW i \in 1 .. Len(rows) PROVE F(i) \in Row /\ Same(rows[i], F(i))
  <2>1. rows[i] \in Row BY <1>1
  <2>2. rows[i].age \in Nat BY Zenon, <2>1 DEF Row
  <2>3. PICK n \in Nat : n = IF rows[i].age < StaleAge THEN rows[i].age + 1
                             ELSE rows[i].age
    BY <2>2
  <2>4. PICK y : y = [rows[i] EXCEPT !.age = n] BY Zenon
  <2>5. y = F(i) BY Zenon, <2>3, <2>4
  <2>6. y \in Row BY Zenon, <2>1, <2>4 DEF Row
  <2>7. /\ y.pid = rows[i].pid /\ y.ppid = rows[i].ppid /\ y.session = rows[i].session
        /\ y.parent = rows[i].parent /\ y.obs = rows[i].obs /\ y.state = rows[i].state
        /\ y.summed = rows[i].summed /\ y.obsLast = rows[i].obsLast
    BY Zenon, <2>1, <2>4 DEF Row
  <2>8. Same(rows[i], y) BY Zenon, <2>7 DEF Same, Balanced
  <2> QED BY Zenon, <2>5, <2>6, <2>8
<1>5. Kept(rows, rows')
  <2> HIDE DEF F
  <2>1. /\ rows' \in Seq(Row) /\ Len(rows') = Len(rows)
        /\ \A i \in 1 .. Len(rows) : rows'[i] = F(i)
    BY <1>1, <1>3, <1>4
  <2> QED BY Zenon, <1>4, <2>1 DEF Kept
<1>6. DriftIn(rows', conn, up) BY Zenon, <1>1, <1>5, KeptKeeps
<1>7. up' = up /\ due' = TRUE /\ UNCHANGED <<minted, conn, evidence, procVars>>
  BY Zenon DEF Tick
<1>8. DriftIn(rows', conn, up') BY Zenon, <1>6, <1>7
<1> QED BY Zenon, <1>1, <1>5, <1>7, <1>8, KeptStep

(* The loop ends after the last summaries.                                  *)
LEMMA StepStop ==
    ASSUME IInv, Stop
    PROVE  IInv'
<1>1. rows \in Seq(Row) /\ DriftIn(rows, conn, up) BY Zenon, IInvMeans
<1>2. \A i \in DOMAIN rows : Balanced(rows[i]) BY Zenon, <1>1 DEF DriftIn
<1>3. rows' = Summaries(rows) BY Zenon DEF Stop
<1>4. Kept(rows, rows') /\ \A i \in 1 .. Len(rows) : rows'[i].summed = rows'[i].obs
  BY Zenon, <1>1, <1>2, <1>3, SummariesKeep
<1>5. DOMAIN rows' = 1 .. Len(rows) /\ DOMAIN rows = 1 .. Len(rows)
  BY <1>1, <1>4 DEF Kept
<1>6. \A i \in DOMAIN rows' : Balanced(rows'[i])
  BY Zenon, <1>2, <1>4, <1>5 DEF Kept, Same
<1>7. DriftIn(rows', conn, up') BY Zenon, <1>4, <1>5, <1>6 DEF DriftIn
<1>8. up' = FALSE /\ due' = due /\ UNCHANGED <<minted, conn, evidence, procVars>>
  BY Zenon DEF Stop
<1>9. due \in BOOLEAN BY Zenon DEF IInv, Types
<1> QED BY Zenon, <1>4, <1>7, <1>8, <1>9, KeptStep

-----------------------------------------------------------------------------
(* The step that registers a new entry, which finds its parent by the      *)
(* least index.                                                            *)
INSTANCE WellFoundedInduction

(* A non-empty set of numbers has a least one.                              *)
LEMMA HasLeast ==
    ASSUME NEW S \in SUBSET Nat, S # {}
    PROVE  \E x \in S : \A y \in S : x <= y
<1> DEFINE R == OpToRel(<, Nat)
<1>1. IsWellFoundedOn(R, Nat) BY Zenon, NatLessThanWellFounded
<1>2. \A x, y \in Nat : x < y => <<x, y>> \in R BY Zenon DEF OpToRel
<1> HIDE DEF R
<1>3. PICK x \in S : \A y \in S : ~(<<y, x>> \in R)
  <2>1. S \subseteq Nat /\ S # {} BY Zenon
  <2> QED BY Zenon, <1>1, <2>1, WFMin
<1>4. ASSUME NEW y \in S, ~(x <= y) PROVE FALSE
  <2>1. x \in Nat /\ y \in Nat /\ y < x BY <1>4
  <2> QED BY Zenon, <1>2, <1>3, <2>1
<1> QED BY Zenon, <1>4

(* retraced_registry_link_parent finds an entry of the parent that is not   *)
(* GONE, whenever there is one.                                             *)
LEMMA LinkParentIs ==
    ASSUME NEW r \in Seq(Row), NEW x
    PROVE  ParentIn(r, x.ppid, LinkParent(Append(r, x), Len(r) + 1))
<1> DEFINE i == Len(r) + 1
           r0 == Append(r, x)
           cand == {j \in DOMAIN r0 : j # i /\ r0[j].pid = r0[i].ppid
                                      /\ r0[j].state # "GONE"}
<1>1. /\ DOMAIN r0 = 1 .. (Len(r) + 1) /\ r0[i] = x /\ DOMAIN r = 1 .. Len(r)
      /\ \A j \in 1 .. Len(r) : r0[j] = r[j]
  OBVIOUS
<1>2. \A j : j \in cand <=> j \in 1 .. Len(r) /\ Names(r[j], x.ppid)
  BY <1>1 DEF Names
<1>3. LinkParent(r0, i) = IF cand = {} THEN NoRow
                          ELSE CHOOSE j \in cand : \A k \in cand : j <= k
  BY Zenon DEF LinkParent
<1>4. cand \in SUBSET Nat /\ NoRow \notin cand BY <1>2 DEF NoRow
<1> HIDE DEF cand, r0, i
<1>5. CASE cand = {}
  <2>1. LinkParent(r0, i) = NoRow BY Zenon, <1>3, <1>5
  <2>2. ~Known(r, x.ppid) BY Zenon, <1>1, <1>2, <1>5 DEF Known
  <2> QED BY <2>1, <2>2 DEF ParentIn, NoRow, r0, i
<1>6. CASE cand # {}
  <2>1. \E j \in cand : \A k \in cand : j <= k BY Zenon, <1>4, <1>6, HasLeast
  <2>2. LinkParent(r0, i) \in cand BY Zenon, <1>3, <1>6, <2>1
  <2>3. LinkParent(r0, i) \in 0 .. Len(r) /\ Names(r[LinkParent(r0, i)], x.ppid)
        /\ LinkParent(r0, i) # NoRow
    BY <1>2, <1>4, <2>2
  <2> QED BY Zenon, <2>3 DEF ParentIn, r0, i
<1> QED BY Zenon, <1>5, <1>6

\* x is the entry made for the HELLO f: m its session, p its parent.
Entry(f, x0, p, m, x) ==
    /\ x0 = NewRow(f.pid, f.ppid, f.root, f.token)
    /\ p = LinkParent(Append(rows, x0), Len(rows) + 1)
    /\ m = SessionOf(f.token, p, Append(rows, x0))
    /\ x = [x0 EXCEPT !.parent = p, !.session = m]

(* The session a registration is given is the token's, the parent entry's,   *)
(* or a new one (HELLO in retraced_daemon_frame).                           *)
LEMMA RegistersIs ==
    ASSUME Types, NEW f \in Frame, f.type = "HELLO", NEW x0, NEW p, NEW m, NEW x,
           Entry(f, x0, p, m, x), Links(rows)
    PROVE  /\ Registers(rows, f, x, m, p) /\ x0 \in Row /\ m \in Nat
           /\ x.obs = 0 /\ x.obsLast = 0 /\ x.summed = 0
<1>0. /\ x0 = NewRow(f.pid, f.ppid, f.root, f.token)
      /\ p = LinkParent(Append(rows, x0), Len(rows) + 1)
      /\ m = SessionOf(f.token, p, Append(rows, x0))
      /\ x = [x0 EXCEPT !.parent = p, !.session = m]
  BY Zenon DEF Entry
<1>1. rows \in Seq(Row) /\ minted \in Nat BY Zenon DEF Types
<1>2. f.pid \in Pids /\ f.ppid \in Pids \cup {Outside} /\ f.root \in Nat /\ f.token \in Nat
  BY Zenon DEF Frame
<1>3. x0 \in Row /\ x0.ppid = f.ppid /\ x0.pid = f.pid
  BY Zenon, <1>0, <1>2 DEF NewRow, Row, NoRow
<1>4. ParentIn(rows, f.ppid, p) BY Zenon, <1>0, <1>1, <1>3, LinkParentIs
<1>5. p \in Nat BY <1>1, <1>4 DEF ParentIn
<1>6. p # NoRow => p \in DOMAIN rows /\ Append(rows, x0)[p] = rows[p]
  <2>1. p \in 0 .. Len(rows) BY Zenon, <1>4 DEF ParentIn
  <2> QED BY <1>1, <1>3, <2>1 DEF NoRow
<1>7. p # NoRow => rows[p] \in Row /\ rows[p].session \in Nat
                   /\ rows[p].session # NoSession
  <2>1. ASSUME p # NoRow PROVE rows[p] \in Row BY <1>1, <1>6, <2>1
  <2> QED BY Zenon, <1>6, <2>1 DEF Row, Links
<1>8. /\ f.token # NoSession => m = f.token
      /\ f.token = NoSession /\ p # NoRow => m = rows[p].session
      /\ f.token = NoSession /\ p = NoRow => m = minted + 1
  BY Zenon, <1>0, <1>6 DEF SessionOf
<1>9. m \in Nat /\ m # NoSession
  <2>1. minted + 1 \in Nat /\ minted + 1 # NoSession BY <1>1 DEF NoSession
  <2> QED BY Zenon, <1>2, <1>7, <1>8, <2>1
<1>10. x \in Row
  <2>1. ASSUME NEW a \in Row, NEW j \in Nat, NEW k \in Nat
        PROVE  [a EXCEPT !.parent = j, !.session = k] \in Row
    BY Zenon DEF Row
  <2> QED BY Zenon, <1>0, <1>3, <1>5, <1>9, <2>1
<1>11. /\ x.parent = p /\ x.session = m /\ x.pid = f.pid /\ x.state = "LIVE"
       /\ x.obs = 0 /\ x.obsLast = 0 /\ x.summed = 0
  BY ZenonT(40), <1>0 DEF NewRow
<1> QED BY Zenon, <1>3, <1>4, <1>8, <1>9, <1>10, <1>11 DEF Registers, Names

(* The frame a handler gets is the first of the queue.                       *)
LEMMA HeadIs ==
    ASSUME IInv, NEW s \in Slots, conn[s].rx # <<>>
    PROVE  Head(conn[s].rx) = conn[s].rx[1] /\ conn[s].rx[1] \in Frame
<1>1. conn[s].rx \in Seq(Frame)
  <2>1. conn[s] \in Connection BY Zenon, IInvMeans
  <2> QED BY Zenon, <2>1 DEF Connection
<1> QED BY <1>1

\* The registry and the answer of a HELLO that finds room.
Admits(s, f, x0, p, m, x, ps) ==
    /\ Entry(f, x0, p, m, x)
    /\ conn' = [conn EXCEPT ![s] = [conn[s] EXCEPT !.rx = Tail(conn[s].rx),
                                     !.helloed = TRUE, !.row = Len(rows) + 1]]
    /\ minted' = IF m = minted + 1 THEN minted + 1 ELSE minted
    /\ evidence' = evidence
    /\ ps = IF conn[s].open
            THEN [proc EXCEPT ![conn[s].pid] = [proc[conn[s].pid] EXCEPT !.welcome = m]]
            ELSE proc
    /\ Iteration([Append(rows, x0) EXCEPT ![Len(rows) + 1] = x], ps)

(* HELLO to a full registry changes nothing but the queue.                   *)
LEMMA StepHelloFull ==
    ASSUME IInv, NEW s \in Slots, conn[s].rx # <<>>,
           conn' = [conn EXCEPT ![s] = [conn[s] EXCEPT !.rx = Tail(conn[s].rx)]],
           UNCHANGED <<minted, evidence, births, left, ended, raced>>,
           Iteration(rows, proc)
    PROVE  IInv'
<1>1. /\ conn' \in [Slots -> Connection]
      /\ World(rows, conn', proc, raced) /\ DriftIn(rows, conn', up)
  BY Zenon, PopStep
<1>2. Types /\ rows \in Seq(Row) /\ proc \in [Pids -> Process] /\ minted' \in Nat
      /\ births' \in Nat /\ left' \in Budget /\ raced' \in BOOLEAN
      /\ FiledIn(evidence', rows)
  BY Zenon, IInvMeans
<1>3. World(rows, conn', proc, raced') BY Zenon, <1>1
<1>4. \A p \in Pids : proc[p].run = "zombie" => proc[p].run # "running" BY Zenon
<1> QED BY Zenon, <1>1, <1>2, <1>3, <1>4, IterationStep

(* HELLO admitted: the HELLO case of the daemon's loop, to the WELCOME.      *)
LEMMA StepAdmit ==
    ASSUME IInv, NEW s \in Slots, Greets(conn[s]), NEW x0, NEW p, NEW m, NEW x, NEW ps,
           Admits(s, conn[s].rx[1], x0, p, m, x, ps),
           UNCHANGED <<births, left, ended, raced>>
    PROVE  IInv'
<1>1. /\ Types /\ rows \in Seq(Row) /\ conn \in [Slots -> Connection]
      /\ conn[s] \in Connection /\ proc \in [Pids -> Process] /\ minted \in Nat
      /\ World(rows, conn, proc, raced) /\ Orderly(conn[s])
  BY Zenon, IInvMeans
<1>2. conn[s].rx[1] \in Frame /\ conn[s].rx[1].type = "HELLO" /\ conn[s].rx # <<>>
  BY Zenon, HeadIs DEF Greets
<1>3. Links(rows) BY Zenon, <1>1 DEF World
<1>4. /\ Registers(rows, conn[s].rx[1], x, m, p) /\ x0 \in Row /\ m \in Nat
      /\ x.obs = 0 /\ x.obsLast = 0 /\ x.summed = 0
  <2>1. Entry(conn[s].rx[1], x0, p, m, x) BY Zenon DEF Admits
  <2>2. PICK f \in Frame : f = conn[s].rx[1] BY Zenon, <1>2
  <2>3. /\ Registers(rows, f, x, m, p) /\ x0 \in Row /\ m \in Nat
        /\ x.obs = 0 /\ x.obsLast = 0 /\ x.summed = 0
    BY Zenon, <1>1, <1>2, <1>3, <2>1, <2>2, RegistersIs
  <2> QED BY Zenon, <2>2, <2>3
<1>5. x \in Row BY Zenon, <1>4 DEF Registers
<1>6. Append(rows, x) = [Append(rows, x0) EXCEPT ![Len(rows) + 1] = x]
  <2>1. PICK a : a = Append(rows, x0) BY Zenon
  <2>2. PICK b : b = [a EXCEPT ![Len(rows) + 1] = x] BY Zenon
  <2>3. /\ a \in Seq(Row) /\ Len(a) = Len(rows) + 1 /\ Len(rows) + 1 \in DOMAIN a
        /\ \A i \in 1 .. Len(rows) : a[i] = rows[i]
    BY <1>1, <1>4, <2>1
  <2>a. PICK n \in DOMAIN a : n = Len(rows) + 1 BY Zenon, <2>3
  <2>b. b = [a EXCEPT ![n] = x] BY Zenon, <2>2, <2>a
  <2>4. /\ b \in Seq(Row) /\ Len(b) = Len(a) /\ b[n] = x
        /\ \A j \in 1 .. Len(a) : j # n => b[j] = a[j]
    <3>1. a \in Seq(Row) BY Zenon, <2>3
    <3> QED BY <1>5, <2>b, <3>1, RowEdit
  <2>5. PICK c \in Seq(Row) :
          /\ c = Append(rows, x) /\ Len(c) = Len(rows) + 1 /\ c[Len(rows) + 1] = x
          /\ \A i \in 1 .. Len(rows) : c[i] = rows[i]
    <3>1. /\ Append(rows, x) \in Seq(Row) /\ Len(Append(rows, x)) = Len(rows) + 1
          /\ Append(rows, x)[Len(rows) + 1] = x
          /\ \A i \in 1 .. Len(rows) : Append(rows, x)[i] = rows[i]
      BY <1>1, <1>5
    <3> QED BY <3>1, Zenon
  <2>6. Len(rows) \in Nat BY <1>1
  <2>7. \A j \in 1 .. Len(b) : b[j] = c[j] BY <2>a, <2>3, <2>4, <2>5, <2>6
  <2>8. b = c BY <2>3, <2>4, <2>5, <2>7
  <2> QED BY Zenon, <2>1, <2>2, <2>5, <2>8
<1>7. Iteration(Append(rows, x), ps) BY Zenon, <1>6 DEF Admits
<1>8. PICK d : d = [conn[s] EXCEPT !.rx = Tail(conn[s].rx), !.helloed = TRUE,
                                   !.row = Len(rows) + 1]
  BY Zenon
<1>9. /\ d.rx = Tail(conn[s].rx) /\ d.pid = conn[s].pid /\ d.open = conn[s].open
      /\ d.helloed = TRUE /\ d.row = Len(rows) + 1
  BY Zenon, <1>1, <1>8 DEF Connection
<1>10. d \in Connection
  <2>1. conn[s].rx \in Seq(Frame) BY Zenon, <1>1 DEF Connection
  <2>2. Tail(conn[s].rx) \in Seq(Frame) /\ Len(rows) + 1 \in Nat BY <1>1, <1>2, <2>1
  <2> QED BY Zenon, <1>1, <1>8, <2>2 DEF Connection
<1>11. conn' = [conn EXCEPT ![s] = d] BY Zenon, <1>8 DEF Admits
<1>12. /\ conn' \in [Slots -> Connection] /\ conn'[s] = d
       /\ \A t \in Slots : t # s => conn'[t] = conn[t]
  BY Zenon, <1>1, <1>10, <1>11
<1>13. TakesSeat(conn[s], conn'[s], Len(rows) + 1) BY Zenon, <1>9, <1>12 DEF TakesSeat
<1>14. ps \in [Pids -> Process] /\ Welcomed(proc, ps, conn[s], m)
  <2>1. CASE ~conn[s].open
    <3>1. ps = proc BY Zenon, <2>1 DEF Admits
    <3> QED BY Zenon, <1>1, <2>1, <3>1 DEF Welcomed
  <2>2. CASE conn[s].open
    <3>1. conn[s].pid \in Pids BY Zenon, <1>1, <2>2 DEF World, Ends
    <3>2. PICK u \in Pids : u = conn[s].pid BY Zenon, <3>1
    <3>3. PICK y : y = [proc[u] EXCEPT !.welcome = m] BY Zenon
    <3>4. proc[u] \in Process BY Zenon, <1>1
    <3>5. y \in Process BY Zenon, <1>4, <3>3, <3>4 DEF Process
    <3>6. /\ y.run = proc[u].run /\ y.ppid = proc[u].ppid /\ y.token = proc[u].token
          /\ y.sock = proc[u].sock /\ y.welcome = m
      BY Zenon, <3>3, <3>4 DEF Process
    <3>7. ps = [proc EXCEPT ![u] = y] BY Zenon, <2>2, <3>2, <3>3 DEF Admits
    <3>8. /\ ps \in [Pids -> Process] /\ ps[u] = y
          /\ \A q \in Pids : q # u => ps[q] = proc[q]
      BY Zenon, <1>1, <3>5, <3>7
    <3> QED BY Zenon, <2>2, <3>2, <3>6, <3>8 DEF Welcomed
  <2> QED BY Zenon, <2>1, <2>2
<1>15. World(Append(rows, x), conn', ps, raced)
  BY Zenon, <1>1, <1>4, <1>12, <1>13, <1>14, WorldHello
<1>16. Append(rows, x) \in Seq(Row) BY <1>1, <1>5
<1>17. /\ DOMAIN Append(rows, x) = 1 .. (Len(rows) + 1) /\ DOMAIN rows = 1 .. Len(rows)
       /\ Append(rows, x)[Len(rows) + 1] = x
       /\ \A i \in DOMAIN rows : Append(rows, x)[i] = rows[i]
  BY <1>1, <1>5
<1>18. DriftIn(Append(rows, x), conn', up)
  <2>1. conn[s].row = NoRow
    <3>1. 1 \in DOMAIN conn[s].rx
      <4>1. conn[s].rx \in Seq(Frame) BY <1>1 DEF Connection
      <4> QED BY <1>2, <4>1
    <3> QED BY Zenon, <1>1, <1>2, <3>1 DEF Orderly
  <2>2. \A t \in Slots : conn[t].pid # 0 /\ conn[t].row # NoRow =>
               conn'[t].pid # 0 /\ conn'[t].row = conn[t].row
    BY Zenon, <1>12, <2>1
  <2>3. DriftIn(rows, conn', up) BY Zenon, <2>2, DriftHeld, IInvMeans
  <2>4. Balanced(x) /\ x.summed = x.obs BY <1>4 DEF Balanced
  <2>5. ASSUME NEW i \in DOMAIN Append(rows, x)
        PROVE  /\ Balanced(Append(rows, x)[i])
               /\ ~up \/ ~Held(conn', i) =>
                    Append(rows, x)[i].summed = Append(rows, x)[i].obs
    <3>1. CASE i \in DOMAIN rows
      BY Zenon, <1>17, <2>3, <3>1 DEF DriftIn
    <3>2. CASE i = Len(rows) + 1 BY Zenon, <1>17, <2>4, <3>2
    <3>3. i \in DOMAIN rows \/ i = Len(rows) + 1
      <4>1. Len(rows) \in Nat BY <1>1
      <4> QED BY <1>17, <2>5, <4>1
    <3> QED BY Zenon, <3>1, <3>2, <3>3
  <2> QED BY Zenon, <2>5 DEF DriftIn
<1>19. FiledIn(evidence', Append(rows, x))
  <2>1. FiledIn(evidence, rows) /\ evidence' = evidence BY Zenon, IInvMeans DEF Admits
  <2>2. \A i \in DOMAIN rows : i \in DOMAIN Append(rows, x)
    <3>1. Len(rows) \in Nat BY <1>1
    <3> QED BY <1>17, <3>1
  <2> QED BY Zenon, <1>17, <2>1, <2>2 DEF FiledIn
<1>20. raced' = raced /\ minted' \in Nat /\ births' \in Nat /\ left' \in Budget
       /\ raced' \in BOOLEAN
  <2>1. minted + 1 \in Nat BY <1>1
  <2> QED BY Zenon, <1>1, <2>1, IInvMeans DEF Admits
<1>21. World(Append(rows, x), conn', ps, raced') BY Zenon, <1>15, <1>20
<1>22. \A q \in Pids : proc[q].run = "zombie" => ps[q].run # "running"
  BY Zenon, <1>14 DEF Welcomed
<1> QED BY Zenon, <1>1, <1>7, <1>12, <1>14, <1>16, <1>18, <1>19, <1>20, <1>21, <1>22,
           IterationStep

(* One frame is handled per turn of a ready connection.                     *)
LEMMA StepReadAgent ==
    ASSUME IInv, NEW s \in Slots, ReadAgent(s)
    PROVE  IInv'
<1>1. conn[s].rx # <<>> /\ UNCHANGED <<births, left, ended, raced>> BY Zenon DEF ReadAgent
<1>2. Head(conn[s].rx) = conn[s].rx[1] BY Zenon, <1>1, HeadIs
<1>3. PICK f : f = conn[s].rx[1] BY Zenon
<1>4. \/ f.type = "HELLO" /\ HandleHello(s, f)
      \/ f.type = "HEARTBEAT" /\ HandleHeartbeat(s)
      \/ f.type = "KERNEL" /\ HandleKernelEvent(s)
      \/ f.type = "BYE" /\ HandleBye(s)
  BY Zenon, <1>2, <1>3 DEF ReadAgent
<1>5. CASE HandleHeartbeat(s) BY Zenon, <1>1, <1>5, StepHeartbeat
<1>6. CASE HandleKernelEvent(s) BY <1>1, <1>6, StepKernelEvent
<1>7. CASE f.type = "BYE" /\ HandleBye(s) BY Zenon, <1>1, <1>3, <1>7, StepBye
<1>8. CASE f.type = "HELLO" /\ HandleHello(s, f)
  <2>1. Greets(conn[s]) BY Zenon, <1>1, <1>3, <1>8 DEF Greets
  <2>2. CASE RegistryFull
    <3>1. /\ conn' = [conn EXCEPT ![s] = [conn[s] EXCEPT !.rx = Tail(conn[s].rx)]]
          /\ UNCHANGED <<minted, evidence>> /\ Iteration(rows, proc)
      BY Zenon, <1>8, <2>2 DEF HandleHello
    <3> QED BY Zenon, <1>1, <3>1, StepHelloFull
  <2>3. CASE ~RegistryFull
    <3>1. PICK x0 : x0 = NewRow(f.pid, f.ppid, f.root, f.token) BY Zenon
    <3>2. PICK p : p = LinkParent(Append(rows, x0), Len(rows) + 1) BY Zenon
    <3>3. PICK m : m = SessionOf(f.token, p, Append(rows, x0)) BY Zenon
    <3>4. PICK x : x = [x0 EXCEPT !.parent = p, !.session = m] BY Zenon
    <3>5. PICK ps : ps = IF conn[s].open
            THEN [proc EXCEPT ![conn[s].pid] = [proc[conn[s].pid] EXCEPT !.welcome = m]]
            ELSE proc
      BY Zenon
    <3>6. Entry(f, x0, p, m, x) BY Zenon, <3>1, <3>2, <3>3, <3>4 DEF Entry
    <3>7. rows \in Seq(Row) BY Zenon, IInvMeans
    <3>8. Append(rows, x0)[Len(rows) + 1] = x0 BY <3>7
    <3>9. /\ conn' = [conn EXCEPT ![s] = [conn[s] EXCEPT !.rx = Tail(conn[s].rx),
                                     !.helloed = TRUE, !.row = Len(rows) + 1]]
          /\ minted' = IF m = minted + 1 THEN minted + 1 ELSE minted
          /\ evidence' = evidence
      BY Zenon, <1>8, <2>3, <3>1, <3>2, <3>3 DEF HandleHello
    <3>10. Iteration([Append(rows, x0) EXCEPT ![Len(rows) + 1] =
                        [Append(rows, x0)[Len(rows) + 1] EXCEPT !.parent = p, !.session = m]],
                     ps)
      BY Zenon, <1>8, <2>3, <3>1, <3>2, <3>3, <3>5 DEF HandleHello
    <3>11. Iteration([Append(rows, x0) EXCEPT ![Len(rows) + 1] = x], ps)
      BY Zenon, <3>4, <3>8, <3>10
    <3>12. Admits(s, f, x0, p, m, x, ps)
      BY Zenon, <3>5, <3>6, <3>9, <3>11 DEF Admits
    <3> QED BY Zenon, <1>1, <1>3, <2>1, <3>12, StepAdmit
  <2> QED BY Zenon, <2>2, <2>3
<1> QED BY Zenon, <1>4, <1>5, <1>6, <1>7, <1>8

(* The daemon starts with an empty registry and free slots, and no process  *)
(* runs yet.                                                                *)
LEMMA InitIInv == Init => IInv
<1> SUFFICES ASSUME Init PROVE IInv BY Zenon
<1>1. /\ rows = <<>> /\ up = TRUE /\ due = FALSE /\ minted = 0 /\ births = 0
      /\ left \in OptionSet /\ raced = FALSE /\ evidence = {}
  BY Zenon DEF Init
<1>2. conn = [s \in Slots |-> Free] /\ proc = [p \in Pids |-> NoProc] BY Zenon DEF Init
<1>3. Free \in Connection
  <2>1. <<>> \in Seq(Frame) OBVIOUS
  <2> QED BY Zenon, <2>1 DEF Free, Connection, NoRow
<1>4. NoProc \in Process
  BY Zenon, PidsAssumption DEF NoProc, Process, Outside, NoSession
<1>5. left \in Budget BY Zenon, <1>1, BoundsAssumption DEF Budget
<1>6. Types
  <2>1. conn \in [Slots -> Connection] BY Zenon, <1>2, <1>3
  <2>2. proc \in [Pids -> Process] BY Zenon, <1>2, <1>4
  <2>3. rows \in Seq(Row) BY <1>1
  <2>4. minted \in Nat /\ births \in Nat BY Zenon, <1>1
  <2> QED BY Zenon, <1>1, <1>5, <2>1, <2>2, <2>3, <2>4 DEF Types
<1>7. Drift /\ EvidenceAttributed
  BY <1>1 DEF Drift, DriftAccounted, EvidenceAttributed
<1>8. /\ Free.rx = <<>> /\ Free.row = NoRow /\ Free.pid = 0 /\ ~Free.open /\ ~Free.helloed
  BY Zenon DEF Free
<1>9. ~Greets(Free) /\ ~Parting(Free) /\ Orderly(Free)
  BY <1>8 DEF Greets, Parting, Orderly
<1>10. \A s \in Slots : conn[s] = Free BY Zenon, <1>2
<1>11. \A p \in Pids : proc[p] = NoProc BY Zenon, <1>2
<1>12. /\ NoProc.run # "running" /\ Ended(NoProc) /\ NoProc.sock \notin Slots
       /\ NoProc.welcome = NoSession /\ NoProc.ppid = Outside
  BY Zenon, SlotsAssumption DEF NoProc, Ended
<1>13. Seats(rows, conn) BY Zenon, <1>8, <1>9, <1>10 DEF Seats, Seated
<1>14. Ends(conn, proc) BY Zenon, <1>8, <1>10, <1>11, <1>12 DEF Ends
<1>15. Links(rows) /\ Shared(rows) BY <1>1 DEF Links, Shared
<1>16. \A p, q \in Pids : proc[q].ppid # p
  BY Zenon, <1>11, <1>12, PidsAssumption DEF Outside
<1>17. Sessions(rows, conn, proc)
  <2>1. EntriesAgree(rows, proc) BY <1>1 DEF EntriesAgree
  <2>2. WelcomeAgrees(proc) BY Zenon, <1>11, <1>12 DEF WelcomeAgrees
  <2>3. TreeAgrees(rows, proc) BY Zenon, <1>16 DEF TreeAgrees
  <2>4. GreetingsAgree(rows, conn, proc) BY Zenon, <1>9, <1>10 DEF GreetingsAgree
  <2>5. ByesAgree(conn, proc) BY Zenon, <1>9, <1>10 DEF ByesAgree
  <2> QED BY Zenon, <2>1, <2>2, <2>3, <2>4, <2>5 DEF Sessions
<1>18. World(rows, conn, proc, raced) BY Zenon, <1>13, <1>14, <1>15, <1>17 DEF World
<1> QED BY Zenon, <1>6, <1>7, <1>18 DEF IInv

(* Every step of the daemon and of the processes keeps the invariant.       *)
LEMMA NextIInv == IInv /\ [Next]_vars => IInv'
<1> SUFFICES ASSUME IInv, [Next]_vars PROVE IInv' BY Zenon
<1>1. CASE UNCHANGED vars
  <2>1. UNCHANGED <<up, rows, minted, conn, due, evidence, proc, births, left, raced>>
    BY Zenon, <1>1 DEF vars, daemonVars, procVars
  <2>2. Types' BY Zenon, <2>1 DEF IInv, Types
  <2>3. Drift' /\ EvidenceAttributed'
    BY Zenon, <2>1 DEF IInv, Drift, DriftAccounted, EvidenceAttributed
  <2>4. World(rows, conn, proc, raced)' BY Zenon, <2>1 DEF IInv
  <2> QED BY Zenon, <2>2, <2>3, <2>4 DEF IInv
<1>2. CASE Busy BY Zenon, <1>2, StepReadAgent, StepEof, StepAccept, StepSpawn DEF Busy
<1>3. CASE IdleIteration BY Zenon, <1>3, StepIdle
<1>4. CASE Tick BY <1>4, StepTick
<1>5. CASE Stop BY <1>5, StepStop
<1>6. ASSUME NEW p \in Pids, SendHeartbeat(p) \/ SendKernelEvent(p) PROVE IInv'
  BY Zenon, <1>6, StepSend
<1>7. ASSUME NEW p \in Pids, ReadWelcome(p) PROVE IInv' BY Zenon, <1>7, StepReadWelcome
<1>8. ASSUME NEW p \in Pids, Disconnect(p) PROVE IInv' BY <1>8, StepDisconnect
<1>9. ASSUME NEW p \in Pids, Scrub(p) PROVE IInv' BY <1>9, StepScrub
<1>10. ASSUME NEW p \in Pids, Exit(p, TRUE) \/ Exit(p, FALSE) PROVE IInv'
  BY Zenon, <1>10, StepExit
<1>11. ASSUME NEW p \in Pids, NEW c \in Pids, Fork(p, c) PROVE IInv' BY Zenon, <1>11, StepFork
<1> QED BY Zenon, <1>1, <1>2, <1>3, <1>4, <1>5, <1>6, <1>7, <1>8, <1>9, <1>10, <1>11 DEF Next

(* The registry, the connection table and the process tree stay consistent  *)
(* through every interleaving of registrations, lost connections, forks,    *)
(* wiped environments, exits, pids used again, sweeps and the end of the     *)
(* loop.                                                                    *)
THEOREM SupervisorInvariant == Spec => []IInv
  BY InitIInv, NextIInv, PTL DEF Spec

(* Evidence is filed under its sender: the agent_id an EVENT is journaled   *)
(* under (main.c, the EVENT case) names an entry with the sender's pid,     *)
(* whatever the slots, pids and registrations in between.                   *)
THEOREM EvidenceFiled == Spec => []EvidenceAttributed
<1>1. IInv => EvidenceAttributed BY Zenon DEF IInv
<1> QED BY <1>1, SupervisorInvariant, PTL

(* No kernel observation is left out: at an EOF and at the end of the loop  *)
(* the deltas of daemon_frame_drift_summaries add up to what was counted.   *)
THEOREM DriftNeverLost == Spec => []DriftAccounted
<1>1. IInv => DriftAccounted BY Zenon DEF IInv, Drift
<1> QED BY <1>1, SupervisorInvariant, PTL

(* Entries joined by a link carry one session, under the conditions that    *)
(* raced records (retraced_registry_link_parent and the HELLO case).        *)
THEOREM LinksShareSession == Spec => []LinkedShareSession
<1>1. IInv => LinkedShareSession BY Zenon DEF IInv, World, Shared, LinkedShareSession
<1> QED BY <1>1, SupervisorInvariant, PTL
=============================================================================
