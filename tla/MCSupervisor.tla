---------------------------- MODULE MCSupervisor ----------------------------
(* TLC instance of Supervisor: two pids, two connection slots, two or
three entries. *)
EXTENDS Supervisor

Bounds(r, b, d, k, s, t) ==
    [rows |-> r, births |-> b, drops |-> d, kernel |-> k, scrubs |-> s, time |-> t]
\* Sessions; sessions over reused pids; evidence over reused slots; silence and
\* the sweep.
MCOptionSet == {Bounds(3, 2, 1, 0, 1, FALSE), Bounds(2, 3, 0, 0, 0, FALSE),
                Bounds(2, 2, 1, 1, 0, FALSE), Bounds(2, 2, 0, 0, 0, TRUE)}
\* A tree of two processes with intact environments.
NoScrubs == {Bounds(3, 2, 0, 0, 0, FALSE)}
=============================================================================
