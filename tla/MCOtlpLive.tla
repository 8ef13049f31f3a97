---------------------------- MODULE MCOtlpLive ----------------------------
(* OtlpLive for TLC.  The log flusher emits spans, another thread a span    *)
(* or a log record.                                                         *)
EXTENDS OtlpLive

Option(signal, answers, cap, spawns, builds) ==
    [signal |-> signal, items |-> [e \in Emitters |-> 1], answers |-> answers,
     cap |-> cap, spawns |-> spawns, builds |-> builds]

Spans == [e \in Emitters |-> 1]
SpanAndLog == [e \in Emitters |-> IF e = "flusher" THEN 1 ELSE 2]

\* Two emitters of one signal, with every answer of the collector and a thread
\* that cannot be created; of two signals, with a request that cannot be built;
\* and of one signal whose queue is full with one item.
Options ==
    {Option(Spans, {"ok", "retry", "fatal"}, 2, 1, 0),
     Option(SpanAndLog, {"ok", "retry"}, 2, 0, 1),
     Option(Spans, {"ok"}, 1, 0, 0)}

Healthy == {Option(Spans, {"ok"}, 2, 0, 0)}
=============================================================================
