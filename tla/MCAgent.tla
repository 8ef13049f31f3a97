------------------------------ MODULE MCAgent ------------------------------
(* TLC instance of Agent: two threads, a ring of two places; one event     *)
(* fewer where kick and the atfork handlers add their steps.                *)
EXTENDS Agent
MCOptionSet == [eager : {FALSE}, numbers : {3}, faults : {1}]
               \cup [eager : {FALSE}, numbers : {4}, faults : {0}]
               \cup [eager : {TRUE}, numbers : {2}, faults : {1}]
               \cup [eager : {TRUE}, numbers : {3}, faults : {0}]
Lazy == [eager : {FALSE}, numbers : {3}, faults : {0}]
Stuck == [eager : {FALSE}, numbers : {2}, faults : {1}]
=============================================================================
