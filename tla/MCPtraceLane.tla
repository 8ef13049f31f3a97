---------------------------- MODULE MCPtraceLane ----------------------------
(* TLC instances of PtraceLane. *)
EXTENDS PtraceLane

A(op, v, n) == [op |-> op, v |-> v, n |-> n]
Real == A("call_real", 0, 0)
Scripts ==
    { <<>>,
      <<A("sandbox", 0, 0), Real>>,
      <<Real, A("sandbox", 0, 0)>>,
      <<A("freeze", 0, 0)>>,
      <<A("freeze", 0, 0), Real>>,
      <<Real, A("modify", -1, 0)>>,
      <<A("modify", 4, 0), A("incomplete_io", 0, 50)>>,
      <<Real, A("memory_fuzz", 0, 1), A("log", 0, 0)>>,
      <<A("filter", 0, 1), A("memory_fuzz", 0, 0), Real>>,
      <<A("filter", 0, 0), Real>>,
      <<A("filter_ret", 1, 0), Real>>,
      <<Real, A("no_such_action", 0, 0), A("modify", 5, 0)>> }

\* Scripts that count the calls of a function.
Counting ==
    { <<A("fail_first", -11, 1), Real>>,
      <<A("fail_first", -1, 1), Real, A("modify", 5, 0)>>,
      <<A("fail_first", -11, 1), A("fail_first", -12, 2), Real>>,
      <<A("call_count_limit", 0, 1), Real>>,
      <<A("modify", 5, 0), A("call_count_limit", 0, 1), Real>> }

\* Scripts that read what the syscall lane does not have.
Reading ==
    { <<Real, A("incomplete_io", 0, 50)>>,
      <<Real, A("filter_ret", 8, 0), A("modify", 5, 0)>>,
      <<A("addr_deny", 0, 1), Real>> }

\* Every script, with tables for two functions; some of them with tables for
\* one, and with the other ways of a skipped call.
MCOptionSet ==
    [script : Scripts \cup Reading, room : {2}, skips : {"taken"},
     calls : {2}, signals : {1}, faults : {1}]
    \cup [script : Counting, room : {2}, skips : {"taken"},
           calls : {3}, signals : {0}, faults : {0}]
    \cup [script : {<<A("fail_first", -11, 1), A("call_count_limit", 0, 1), Real>>},
           room : {1}, skips : {"taken"}, calls : {3}, signals : {0}, faults : {0}]
    \cup [script : {<<A("sandbox", 0, 0), Real>>}, room : {2},
           skips : {"ignored", "none"}, calls : {2}, signals : {1}, faults : {1}]
=============================================================================
