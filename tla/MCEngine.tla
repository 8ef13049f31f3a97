------------------------------ MODULE MCEngine ------------------------------
(* TLC instances of Engine: f and g share a home slot. *)
EXTENDS Engine

MCHome == [x \in Funcs |-> IF x = "h" THEN 2 ELSE 0]
On(f, does) == [func |-> f, callers |-> {}, addr |-> "any", does |-> does]
At17(f, c, does) == [On(f, does) EXCEPT !.callers = {c}]

Named == <<On("f", "deny"), On("g", "real"), On("*", "log")>>
Other == <<On("g", "deny"), On("*", "real")>>
Gated == <<At17("f", "a1", "deny"), On("f", "real")>>
\* The wildcard in front; the index has room for f, and none for g.
Seeded == <<On("*", "zero"), On("f", "deny"), On("g", "real")>>

Options(first, second, threads, funcs, depth, calls, faults) ==
    [first |-> first, second |-> second, threads |-> threads, funcs |-> funcs,
     depth |-> depth, calls |-> calls, faults |-> faults]
MCOptionSet ==
    { Options(Named, Named, {"t1", "t2"}, {"f", "g"}, 1, 3, 0),
      Options(Named, Other, {"t1"}, {"f", "g"}, 3, 3, 0),
      Options(Seeded, Other, {"t1"}, {"f", "g"}, 2, 2, 0),
      Options(Gated, Seeded, {"t1"}, {"f", "g"}, 2, 2, 0),
      Options(Other, Gated, {"t1", "t2"}, {"f", "g"}, 1, 2, 0),
      Options(Gated, Named, {"t1", "flusher"}, {"f", "h"}, 2, 2, 1) }
ByCaller == { Options(Gated, Gated, {"t1"}, {"f"}, 1, 1, 0) }
=============================================================================
