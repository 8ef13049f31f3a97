---------------------------- MODULE BoundedFifo ----------------------------
(***************************************************************************)
(* What a log ring promises its two users (log_ring.h, struct LogRing):    *)
(* a first-in first-out queue that holds at most Capacity entries, where   *)
(* a producer that meets a full queue loses the new entry, never an old    *)
(* one, and counts the loss.                                               *)
(*                                                                         *)
(* An entry the consumer has taken keeps its place until the consumer      *)
(* gives the place back, which retrace_log_ring_drain does once, at the    *)
(* end of a batch; unreleased counts those places.                         *)
(***************************************************************************)
EXTENDS Naturals, Sequences

CONSTANTS
    Capacity,   \* the most entries the queue can hold
    Message     \* what a producer may push

VARIABLES
    queue,      \* the entries pushed and not yet taken, oldest first
    unreleased, \* places taken but not yet given back to the producer
    losses      \* how many entries were refused because no place was free

fifoVars == <<queue, unreleased, losses>>

FifoInit ==
    /\ queue = <<>>
    /\ unreleased = 0
    /\ losses = 0

HasPlace == Len(queue) + unreleased < Capacity

Put(m) ==
    /\ HasPlace
    /\ queue' = Append(queue, m)
    /\ UNCHANGED <<unreleased, losses>>

Lose ==
    /\ ~HasPlace
    /\ losses' = losses + 1
    /\ UNCHANGED <<queue, unreleased>>

Take ==
    /\ queue # <<>>
    /\ queue' = Tail(queue)
    /\ unreleased' = unreleased + 1
    /\ UNCHANGED losses

Release ==
    /\ unreleased' \in 0 .. unreleased
    /\ UNCHANGED <<queue, losses>>

FifoNext ==
    \/ \E m \in Message : Put(m)
    \/ Lose
    \/ Take
    \/ Release

FifoSpec == FifoInit /\ [][FifoNext]_fifoVars

=============================================================================
