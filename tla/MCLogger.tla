------------------------------ MODULE MCLogger ------------------------------
(***************************************************************************)
(* Logger for TLC: the threads are model values.                           *)
(***************************************************************************)
EXTENDS Logger

CONSTANTS main, t1

TwoThreads == {main, t1}
=============================================================================
