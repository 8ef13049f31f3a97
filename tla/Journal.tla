------------------------------ MODULE Journal ------------------------------
(***************************************************************************)
(* The supervisor's journal (tools/retraced/journal.c, with the boot and   *)
(* the shutdown of tools/retraced/main.c and the seal of journal_sign.c):  *)
(* an append-only file, or a numbered series of segments, of hash-chained  *)
(* lines.  The daemon appends through a stdio buffer that only some        *)
(* records flush, rotates and prunes the series, may be killed between any *)
(* two writes, and replays the files when it starts again.                 *)
(*                                                                         *)
(* A line's hash is represented by an id no other line has; 0 is the chain *)
(* head of an empty journal.  A record's size is 1.                        *)
(***************************************************************************)
EXTENDS Integers, Sequences, FiniteSets, SequencesExt

CONSTANTS
    Options,      \* the command lines the daemon may be given, see Option
    Fragments     \* how a crash may cut the line being written

\* rotateAfter is rotate_bytes in records, budget is budget_bytes in records (0
\* is off for both), aged says that rotate_seconds is set, signing that there is
\* a signing key.  maxEvents, maxBoots and maxCrashes bound the behaviours: events
\* journaled while serving, starts of the daemon, and kills.
Option == [rotateAfter : Nat, aged : BOOLEAN, budget : Nat, signing : BOOLEAN,
           maxEvents : Nat, maxBoots : Nat, maxCrashes : Nat]

ASSUME JournalAssumption ==
    /\ Options \subseteq Option
    /\ Fragments \subseteq {"mid", "whole"}

VARIABLES
    opts,       \* the command line, the same at every start
    disk,       \* the segment files that exist, as sequences of lines
    buf,        \* complete lines still in the stdio buffer of j->f
    prev,       \* j->prev_hash
    lines,      \* j->lines
    segSeq,     \* j->segment_seq, the file j->path names
    segBytes,   \* j->seg_bytes
    pc,         \* where the daemon is
    ret,        \* where journal_rotate returns to
    head,       \* the local head of journal_rotate
    doomed,     \* the segment journal_retain has just removed
    id,         \* the next line's hash
    events,     \* how many events have been journaled
    boots,      \* how many times the daemon has started
    crashes,    \* how many times it has crashed
    helloed,    \* an agent has said HELLO to this daemon
    durable,    \* history: ids of the records flushed when written
    removed,    \* history: segments pruned
    gaps,       \* history: crashes that lost buffered records
    lastExit    \* history: how the previous daemon ended

chainVars == <<prev, lines, segSeq, segBytes>>
rotateVars == <<ret, head, doomed>>
storeVars == <<disk, buf, id>>
runVars == <<opts, events, boots, crashes, helloed>>
pastVars == <<removed, gaps, lastExit>>
vars == <<storeVars, chainVars, pc, rotateVars, runVars, durable, pastVars>>

Rotation == opts.rotateAfter # 0 \/ opts.aged

\* payload_is_durable: every control-plane class is flushed, telemetry is not.
DurableKind == {"control", "closed", "unclean", "segment_closed",
                "segment_opened", "segment_pruned", "signed"}

\* A line on disk.  "torn" has no newline, "garbage" does not parse.
LineKind == DurableKind \cup {"telemetry", "torn", "garbage"}
Readable(line) == line.kind \notin {"torn", "garbage"}

EmptyLines == <<>>
FileOf(s) == IF s \in DOMAIN disk THEN disk[s] ELSE EmptyLines

(***************************************************************************)
(* fopen(path, "a") writes behind whatever is there, so the first line     *)
(* written behind a torn one continues it.  When only the newline was      *)
(* missing, json_parse_string still reads the fragment's object, and the   *)
(* hash covers both; otherwise the line does not parse.                    *)
(***************************************************************************)
Merged(torn, line) ==
    [id |-> -line.id, prev |-> torn.prev,
     kind |-> IF torn.arg = 1 THEN "telemetry" ELSE "garbage",
     arg |-> IF line.kind = "closed" THEN 1 ELSE 0]

JoinLines(file, new) ==
    IF new # EmptyLines /\ file # EmptyLines /\ Last(file).kind = "torn"
    THEN Front(file) \o <<Merged(Last(file), Head(new))>> \o Tail(new)
    ELSE file \o new

OnDisk(s, file) == [x \in DOMAIN disk \cup {s} |-> IF x = s THEN file ELSE disk[x]]

\* fflush(j->f) with the given lines pending.
Flushed(pending) ==
    IF pending = EmptyLines
    THEN disk
    ELSE OnDisk(segSeq, JoinLines(FileOf(segSeq), pending))

(***************************************************************************)
(* retraced_journal_event up to the rotation test: the line carries the    *)
(* chain head, is buffered, is flushed when its class is durable, and      *)
(* becomes the head.  journal_writer creates the file on the first append. *)
(***************************************************************************)
WriteLine(kind, arg) ==
    LET line == [id |-> id, prev |-> prev, kind |-> kind, arg |-> arg]
        pending == Append(buf, line)
    IN  /\ id' = id + 1
        /\ prev' = id
        /\ lines' = lines + 1
        /\ segBytes' = segBytes + 1
        /\ UNCHANGED segSeq
        /\ IF kind \in DurableKind
           THEN /\ disk' = Flushed(pending)
                /\ buf' = EmptyLines
                /\ durable' = durable \cup {line.id}
           ELSE /\ disk' = OnDisk(segSeq, FileOf(segSeq))
                /\ buf' = pending
                /\ UNCHANGED durable

\* The rotation test that ends retraced_journal_event outside journal_rotate.
RotateDue == \/ opts.rotateAfter # 0 /\ segBytes + 1 >= opts.rotateAfter
             \/ opts.aged

MustRotate == opts.rotateAfter # 0 /\ segBytes + 1 >= opts.rotateAfter

ThenGoTo(next) ==
    \/ /\ RotateDue
       /\ pc' = "rotate" /\ ret' = next /\ head' = prev'
    \/ /\ ~MustRotate
       /\ pc' = next /\ UNCHANGED <<ret, head>>

(***************************************************************************)
(* Replay.                                                                 *)
(***************************************************************************)

\* The lines of a file that replay accepts: readable, and linked from p.
Accepted(file, p) ==
    Max({n \in 0 .. Len(file) : \A i \in 1 .. n :
            /\ Readable(file[i])
            /\ file[i].prev = IF i = 1 THEN p ELSE file[i - 1].id})

\* Mutation of ReplayFile: a close marker anywhere in the file counts.
ReplayFileAnyMarker(acc, s, live) ==
    LET file == FileOf(s)
        n == Accepted(file, acc.prev)
    IN  [prev |-> IF n = 0 THEN acc.prev ELSE file[n].id,
         broken |-> acc.broken \/ (n < Len(file) /\ Readable(file[n + 1])),
         lines |-> IF s = live THEN n ELSE 0,
         clean |-> acc.clean \/ \E i \in 1 .. n : file[i].kind = "closed",
         seen |-> acc.seen \cup {file[i].id : i \in 1 .. n}]

\* journal_replay_file: a line that does not parse ends the file, in any
\* segment; a line that parses and does not link breaks the chain.
ReplayFile(acc, s, live) ==
    LET file == FileOf(s)
        n == Accepted(file, acc.prev)
        stop == IF n < Len(file) THEN file[n + 1].kind ELSE "eof"
    IN  IF acc.broken \/ (s = live /\ s \notin DOMAIN disk)
        THEN acc
        ELSE [prev |-> IF n = 0 THEN acc.prev ELSE file[n].id,
              broken |-> \/ s \notin DOMAIN disk
                         \/ stop \notin {"eof", "torn", "garbage"},
              lines |-> IF s = live THEN n ELSE 0,
              clean |-> IF stop = "garbage" THEN file[n + 1].arg = 1
                        ELSE IF n = 0 THEN acc.clean
                        ELSE file[n].kind = "closed",
              seen |-> acc.seen \cup {file[i].id : i \in 1 .. n}]

FreshReplay == [prev |-> 0, broken |-> FALSE, lines |-> 0, clean |-> FALSE,
                seen |-> {}]

\* Mutation of ResolveLive: the oldest segment is taken for the live one.
ResolveLiveOldest ==
    IF Rotation /\ DOMAIN disk # {} THEN Min(DOMAIN disk) ELSE 0

\* retraced_journal_set_rotation: count up while the next number exists.
ResolveLive ==
    IF Rotation
    THEN Max({s \in 0 .. Cardinality(DOMAIN disk) : 1 .. s \subseteq DOMAIN disk})
    ELSE 0

\* retraced_journal_segment_lo
SegmentLo(hi) ==
    LET found == (0 .. hi) \cap DOMAIN disk
    IN  IF found = {} THEN -1 ELSE Min(found)

\* retraced_journal_replay
Replay ==
    LET live == ResolveLive
        lo == SegmentLo(live)
        Step(acc, s) == ReplayFile(acc, s, live)
    IN  IF lo < 0 THEN FreshReplay
        ELSE FoldLeft(Step, FreshReplay, [i \in 1 .. live - lo + 1 |-> lo + i - 1])

(***************************************************************************)
(* The daemon.                                                             *)
(***************************************************************************)
Init ==
    /\ opts \in Options
    /\ disk = [s \in {} |-> EmptyLines] /\ buf = EmptyLines
    /\ prev = 0 /\ lines = 0 /\ segSeq = 0 /\ segBytes = 0
    /\ pc = "down" /\ ret = "serving" /\ head = 0 /\ doomed = 0
    /\ id = 1 /\ events = 0 /\ boots = 0 /\ crashes = 0 /\ helloed = FALSE
    /\ durable = {} /\ removed = {} /\ gaps = 0 /\ lastExit = "none"

\* Mutation of Boot: the chain head is not resumed from replay.
BootForgetsHead ==
    /\ pc = "down" /\ boots < opts.maxBoots
    /\ boots' = boots + 1
    /\ segSeq' = ResolveLive
    /\ segBytes' = 0
    /\ helloed' = FALSE
    /\ prev' = 0
    /\ lines' = Replay.lines
    /\ pc' = IF Replay.broken THEN "refused"
             ELSE IF Replay.lines > 0 /\ ~Replay.clean THEN "unclean" ELSE "serving"
    /\ UNCHANGED <<storeVars, rotateVars, pastVars, events, durable, crashes, opts>>

\* main: open, set_rotation, replay; a broken chain refuses the start.
Boot ==
    /\ pc = "down" /\ boots < opts.maxBoots
    /\ boots' = boots + 1
    /\ segSeq' = ResolveLive
    /\ segBytes' = 0
    /\ helloed' = FALSE
    /\ IF Replay.broken
       THEN pc' = "refused" /\ UNCHANGED <<prev, lines>>
       ELSE /\ prev' = Replay.prev
            /\ lines' = Replay.lines
            /\ pc' = IF Replay.lines > 0 /\ ~Replay.clean THEN "unclean"
                                                          ELSE "serving"
    /\ UNCHANGED <<storeVars, rotateVars, pastVars, events, durable, crashes, opts>>

\* main: the gap left by an unclean shutdown gets its own record.
RecordUnclean ==
    /\ pc = "unclean"
    /\ WriteLine("unclean", 0)
    /\ ThenGoTo("serving")
    /\ UNCHANGED <<runVars, pastVars, doomed>>

\* retraced_journal_event for a control-plane record: a HELLO's decision, a
\* policy or session change.
ControlEvent ==
    /\ pc = "serving" /\ events < opts.maxEvents
    /\ WriteLine("control", 0)
    /\ ThenGoTo("serving")
    /\ events' = events + 1
    /\ helloed' = TRUE
    /\ UNCHANGED <<pastVars, doomed, boots, crashes, opts>>

\* ... and for an agent's EVENT, which only a connection that said HELLO sends.
TelemetryEvent ==
    /\ pc = "serving" /\ events < opts.maxEvents /\ helloed
    /\ WriteLine("telemetry", 0)
    /\ ThenGoTo("serving")
    /\ events' = events + 1
    /\ UNCHANGED <<pastVars, doomed, boots, helloed, crashes, opts>>

\* The poll loop: the end of a connection flushes the journal.
Disconnect ==
    /\ pc = "serving" /\ buf # EmptyLines
    /\ disk' = Flushed(buf)
    /\ durable' = durable \cup {buf[i].id : i \in DOMAIN buf}
    /\ buf' = EmptyLines
    /\ UNCHANGED <<chainVars, rotateVars, runVars, pastVars, pc, id>>

(***************************************************************************)
(* journal_rotate and journal_retain, one step per write: a crash may fall *)
(* between any two.                                                        *)
(***************************************************************************)
RotateClose ==
    /\ pc = "rotate"
    /\ WriteLine("segment_closed", head)
    /\ pc' = "advance"
    /\ UNCHANGED <<rotateVars, runVars, pastVars>>

RotateAdvance ==
    /\ pc = "advance"
    /\ segSeq' = segSeq + 1
    /\ segBytes' = 0 /\ lines' = 0
    /\ pc' = IF opts.budget = 0 THEN "open" ELSE "retain"
    /\ UNCHANGED <<storeVars, rotateVars, runVars, pastVars, prev, durable>>

ClosedSegments == {s \in DOMAIN disk : s < segSeq}
ClosedSize == FoldSet(LAMBDA s, sum : sum + Len(disk[s]), 0, ClosedSegments)

RetainRemove ==
    /\ pc = "retain"
    /\ ClosedSegments # {} /\ ClosedSize > opts.budget
    /\ doomed' = Min(ClosedSegments)
    /\ disk' = [s \in DOMAIN disk \ {doomed'} |-> disk[s]]
    /\ removed' = removed \cup {doomed'}
    /\ pc' = "pruned"
    /\ UNCHANGED <<chainVars, runVars, buf, ret, head, id, durable, gaps, lastExit>>

\* Mutation of RetainRecord: no record.
RetainRecordSilent ==
    /\ pc = "pruned"
    /\ pc' = "retain"
    /\ UNCHANGED <<storeVars, chainVars, rotateVars, runVars, pastVars, durable>>

RetainRecord ==
    /\ pc = "pruned"
    /\ WriteLine("segment_pruned", doomed)
    /\ pc' = "retain"
    /\ UNCHANGED <<rotateVars, runVars, pastVars>>

RetainDone ==
    /\ pc = "retain"
    /\ ClosedSegments = {} \/ ClosedSize <= opts.budget
    /\ pc' = "open"
    /\ UNCHANGED <<storeVars, chainVars, rotateVars, runVars, pastVars, durable>>

RotateOpen ==
    /\ pc = "open"
    /\ WriteLine("segment_opened", head)
    /\ pc' = ret
    /\ UNCHANGED <<rotateVars, runVars, pastVars>>

(***************************************************************************)
(* Shutdown and crash.                                                     *)
(***************************************************************************)

\* retraced_journal_close: the marker, which may rotate like any record.
CloseMarker ==
    /\ pc = "serving"
    /\ WriteLine("closed", 0)
    /\ ThenGoTo(IF opts.signing THEN "seal" ELSE "exit")
    /\ UNCHANGED <<runVars, pastVars, doomed>>

\* retraced_journal_chain_file: every stored line, parsed or not, links to the
\* line before it and the first one to a zero head.
ChainFileOk(file) ==
    \A i \in 1 .. Len(file) :
        file[i].prev = IF i = 1 THEN 0 ELSE file[i - 1].id

\* Mutation of Seal: the seal counts itself.
SealCountsItself ==
    /\ pc = "seal"
    /\ ChainFileOk(FileOf(segSeq))
    /\ WriteLine("signed", Len(FileOf(segSeq)) + 1)
    /\ ThenGoTo("exit")
    /\ UNCHANGED <<runVars, pastVars, doomed>>

\* main: retraced_journal_sign_file, then the seal as one more record.
Seal ==
    /\ pc = "seal"
    /\ ChainFileOk(FileOf(segSeq))
    /\ WriteLine("signed", Len(FileOf(segSeq)))
    /\ ThenGoTo("exit")
    /\ UNCHANGED <<runVars, pastVars, doomed>>

\* retraced_journal_sign_file fails: on a chain that does not verify, or (then
\* the file is left unsigned) in sign_head, on a key it cannot read or use.
SealRefused ==
    /\ pc = "seal"
    /\ \/ ~ChainFileOk(FileOf(segSeq)) /\ pc' = "exit"
       \/ ChainFileOk(FileOf(segSeq)) /\ pc' = "unsigned"
    /\ UNCHANGED <<storeVars, chainVars, rotateVars, runVars, pastVars, durable>>

Exit ==
    /\ pc \in {"exit", "unsigned"}
    /\ pc' = "down"
    /\ lastExit' = IF pc = "exit" THEN "clean" ELSE "unsigned"
    /\ UNCHANGED <<storeVars, chainVars, rotateVars, runVars, durable, removed, gaps>>

\* The daemon is killed: some whole buffered lines, and perhaps part of the next,
\* had reached the file.  What fflush handed to the system survives.
Crash ==
    /\ pc \notin {"down", "refused"} /\ crashes < opts.maxCrashes
    /\ crashes' = crashes + 1
    /\ \E n \in 0 .. Len(buf), cut \in Fragments \cup {"none"} :
         LET kept == SubSeq(buf, 1, n)
             torn == [buf[n + 1] EXCEPT !.kind = "torn",
                                        !.arg = IF cut = "whole" THEN 1 ELSE 0]
         IN  /\ cut # "none" => n < Len(buf)
             /\ disk' = Flushed(IF cut = "none" THEN kept ELSE Append(kept, torn))
             /\ gaps' = IF n < Len(buf) THEN gaps + 1 ELSE gaps
    /\ buf' = EmptyLines
    /\ pc' = "down"
    /\ lastExit' = IF pc = "pruned" THEN "pruning" ELSE "crash"
    /\ UNCHANGED <<chainVars, rotateVars, id, events, boots, helloed, durable, removed, opts>>

\* The last start is over.
Done ==
    /\ pc = "refused" \/ (pc = "down" /\ boots = opts.maxBoots)
    /\ UNCHANGED vars

Next ==
    \/ Boot \/ RecordUnclean
    \/ ControlEvent \/ TelemetryEvent \/ Disconnect
    \/ RotateClose \/ RotateAdvance \/ RetainRemove \/ RetainRecord
    \/ RetainDone \/ RotateOpen
    \/ CloseMarker \/ Seal \/ SealRefused \/ Exit
    \/ Crash \/ Done

Spec == Init /\ [][Next]_vars

(***************************************************************************)
(* Properties.                                                             *)
(***************************************************************************)
Line == [id : Int, prev : Int, kind : LineKind, arg : Nat]

\* Every variable of the journal has its type, and a segment file is a
\* sequence of lines of which only the last can lack its newline.
TypeOK ==
    /\ opts \in Options
    /\ DOMAIN disk \subseteq Nat
    /\ \A s \in DOMAIN disk : \A i \in 1 .. Len(disk[s]) :
         /\ disk[s][i] \in Line
         /\ disk[s][i].kind = "torn" => i = Len(disk[s])
    /\ \A i \in 1 .. Len(buf) : buf[i] \in Line /\ buf[i].kind = "telemetry"
    /\ {prev, lines, segSeq, segBytes, head, doomed, id} \subseteq Int
    /\ {pc, ret} \subseteq {"down", "refused", "unclean", "serving", "rotate", "advance",
                            "retain", "pruned", "open", "seal", "exit", "unsigned"}
    /\ {events, boots, crashes, gaps} \subseteq Nat
    /\ helloed \in BOOLEAN
    /\ durable \subseteq Nat /\ removed \subseteq Nat
    /\ lastExit \in {"none", "clean", "unsigned", "crash", "pruning"}

\* The records whose line was appended to a line a crash had torn.
Merges == UNION {{-line.id : line \in {l \in ToSet(disk[s]) : l.id < 0}} :
                 s \in DOMAIN disk}

\* Wherever the daemon stops, in the middle of a line included, the files then
\* replay as one unbroken chain that contains every record flushed when it was
\* written and every record of a finished connection: retraced_journal_replay
\* loses no more than the tail.  Once a later daemon has written behind a torn
\* line, this is so of the records before that line (see TornTailIsHarmless).
\* (Without a retention budget: what was pruned is gone, see NeverRefused.)
DurableRecordsReplay ==
    opts.budget = 0 =>
        LET replay == Replay
        IN  /\ {r \in durable : \A m \in Merges : r < m} \subseteq replay.seen
            /\ Merges = {} => ~replay.broken

\* The same without the proviso, for what journal.c:500 calls "torn tail: normal
\* after a crash": the next daemon's records replay too.
TornTailIsHarmless ==
    opts.budget = 0 => ~Replay.broken /\ durable \subseteq Replay.seen

\* Nothing but the daemon touches the files, so main never finds the chain
\* broken and never refuses to start.
NeverRefused == pc # "refused"

\* The daemon that serves has put a readable unclean record on disk for every
\* earlier crash that lost buffered records, as long as no record was written
\* behind a torn line: the gap is not silent.
GapsRecorded ==
    pc = "serving" /\ Merges = {} =>
        gaps <= Cardinality({<<s, i>> \in (DOMAIN disk) \X (1 .. id) :
                               i <= Len(disk[s]) /\ disk[s][i].kind = "unclean"})

\* The same without the proviso, as main.c:771 has it: "the gap gets its own
\* record -- never silent".
GapsNeverSilent ==
    pc = "serving" =>
        gaps <= Cardinality({<<s, i>> \in (DOMAIN disk) \X (1 .. id) :
                               i <= Len(disk[s]) /\ disk[s][i].kind = "unclean"})

\* A start of the single-file, unsigned daemon that follows a graceful close does
\* not record an unclean shutdown.  (A seal, or a rotation that the close marker
\* itself triggers, puts a record behind the marker; then it does.)
CleanIsNotUnclean ==
    pc = "unclean" /\ ~Rotation /\ ~opts.signing => lastExit = "crash"

\* The live segment that retraced_journal_set_rotation resolves is the highest
\* number that exists.
LiveIsHighest == pc = "serving" => \A s \in DOMAIN disk : s <= segSeq

\* What is missing before the oldest surviving segment is accounted for: the
\* last removal of journal_retain is named by a segment_pruned record on disk,
\* unless the daemon is, or was killed, between the removal and its record.
PrunesRecorded ==
    pc # "pruned" /\ lastExit # "pruning" /\ removed # {} =>
        \E s \in DOMAIN disk : \E i \in 1 .. Len(disk[s]) :
            disk[s][i].kind = "segment_pruned" /\ disk[s][i].arg = Max(removed)

\* While the daemon serves, the closed segments fit the retention budget.
BudgetHolds ==
    pc = "serving" /\ opts.budget # 0 => ClosedSegments = {} \/ ClosedSize <= opts.budget

\* Once journal_rotate has moved past a segment, or a later one exists, its lines
\* never change: it can only be removed, and only as the oldest one.
ClosedSegmentsImmutable ==
    [][\A s \in DOMAIN disk :
         s < segSeq \/ (\E later \in DOMAIN disk : later > s) =>
            \/ s \in DOMAIN disk' /\ disk'[s] = disk[s]
            \/ s \notin DOMAIN disk' /\ s = Min(DOMAIN disk)]_vars

\* After a graceful shutdown of the single-file daemon that could use its signing
\* key, and never wrote behind a torn line, the file ends with a seal over every line before it, which is what verify-journal
\* accepts.  (In a series the seal is refused: chain_file starts from zero.)
SealedAtExit ==
    pc = "down" /\ lastExit = "clean" /\ opts.signing /\ ~Rotation /\ Merges = {} =>
        LET file == FileOf(segSeq)
        IN  /\ file # EmptyLines
            /\ Last(file).kind = "signed"
            /\ Last(file).arg = Len(file) - 1
            /\ ChainFileOk(file)

=============================================================================
