------------------------------ MODULE LogRing ------------------------------
(***************************************************************************)
(* One per-thread log ring: src/core/log_ring.c, struct LogRing of         *)
(* log_ring.h.  The owning thread pushes, the flusher drains, and the two  *)
(* share two index words (head, written by the producer with a release     *)
(* store; tail, written by the consumer likewise) and an array of entries. *)
(* There is no lock, so every access to a shared word is a step of its     *)
(* own, and what a load returns is what has reached the loading thread:    *)
(* headSeen and tailSeen lag behind head and tail, as release/acquire      *)
(* ordering allows.                                                        *)
(*                                                                         *)
(* A text is a heap copy made by push and freed by drain; it is named by   *)
(* the number of the push that made it.  live is the set of copies that    *)
(* have been allocated and not freed.  accepted and emitted are history:   *)
(* what push stored and what the drain callback consumed, in order.        *)
(***************************************************************************)
EXTENDS Integers, Sequences

CONSTANTS
    Cap,        \* the ring's capacity: mask + 1
    MaxPushes   \* bound: how many times push is called

ASSUME CapAssumption == Cap \in Nat /\ Cap > 1
ASSUME MaxPushesAssumption == MaxPushes \in Nat

VARIABLES
    head,       \* r->head, as last stored by the producer
    tail,       \* r->tail, as last stored by the consumer
    headSeen,   \* the value of head the consumer's next load returns
    tailSeen,   \* the value of tail the producer's next load returns
    entries,    \* r->entries[i].text
    dropped,    \* r->dropped
    ppc,        \* where push is
    copy,       \* push's text_copy
    cpc,        \* where drain is
    t,          \* drain's local tail
    h,          \* drain's local head
    live,       \* text copies allocated and not freed
    pushes,     \* how many pushes have started: the next text's name
    accepted,   \* history: texts stored by push
    emitted     \* history: texts the drain callback consumed

vars == <<head, tail, headSeen, tailSeen, entries, dropped, ppc, copy,
          cpc, t, h, live, pushes, accepted, emitted>>

Index == 0 .. Cap - 1

\* The null text pointer; a text is named by a natural number.
NULL == -1

\* (i + 1) & r->mask
Succ(i) == IF i = Cap - 1 THEN 0 ELSE i + 1

\* How many slots lie from index i up to, not including, index j.
Dist(i, j) == IF j >= i THEN j - i ELSE j - i + Cap

\* ring_alloc leaves the slots as malloc returned them; NULL stands for that, as
\* for what drain stores: no text.  Only stored slots are ever read.
Init ==
    /\ head = 0
    /\ tail = 0
    /\ headSeen = 0
    /\ tailSeen = 0
    /\ entries = [i \in Index |-> NULL]
    /\ dropped = 0
    /\ ppc = "idle"
    /\ copy = NULL
    /\ cpc = "idle"
    /\ t = 0
    /\ h = 0
    /\ live = {}
    /\ pushes = 0
    /\ accepted = <<>>
    /\ emitted = <<>>

consumerVars == <<tail, headSeen, cpc, t, h, emitted>>

-----------------------------------------------------------------------------
(***************************************************************************)
(* retrace_log_ring_push, on the owning thread.                            *)
(***************************************************************************)

\* The text is copied before anything else is looked at.
PushCopy ==
    /\ ppc = "idle"
    /\ pushes < MaxPushes
    /\ pushes' = pushes + 1
    /\ copy' = pushes
    /\ live' = live \cup {pushes}
    /\ ppc' = "check"
    /\ UNCHANGED <<head, tailSeen, entries, dropped, accepted>>
    /\ UNCHANGED consumerVars

\* malloc of the copy fails: push returns -1 and counts nothing.
PushOutOfMemory ==
    /\ ppc = "idle"
    /\ pushes < MaxPushes
    /\ pushes' = pushes + 1
    /\ UNCHANGED <<head, tailSeen, entries, dropped, accepted, copy, live, ppc>>
    /\ UNCHANGED consumerVars

\* Mutations of RingFull: no test; one entry early.
RingFullNever == FALSE
RingFullEarly == Succ(head) = tailSeen \/ Succ(Succ(head)) = tailSeen

\* next == t, with t an acquire load of r->tail.
RingFull == Succ(head) = tailSeen

\* Mutation of PushDrop: the refused copy is not freed.
PushDropLeaks ==
    /\ ppc = "check"
    /\ RingFull
    /\ copy' = NULL
    /\ dropped' = dropped + 1
    /\ ppc' = "idle"
    /\ UNCHANGED <<head, tailSeen, entries, live, pushes, accepted>>
    /\ UNCHANGED consumerVars

\* next == t: free the copy, count the loss, return -1.
PushDrop ==
    /\ ppc = "check"
    /\ RingFull
    /\ live' = live \ {copy}
    /\ copy' = NULL
    /\ dropped' = dropped + 1
    /\ ppc' = "idle"
    /\ UNCHANGED <<head, tailSeen, entries, pushes, accepted>>
    /\ UNCHANGED consumerVars

PushRoom ==
    /\ ppc = "check"
    /\ ~RingFull
    /\ ppc' = "write"
    /\ UNCHANGED <<head, tailSeen, entries, dropped, copy, live, pushes, accepted>>
    /\ UNCHANGED consumerVars

PushWrite ==
    /\ ppc = "write"
    /\ entries' = [entries EXCEPT ![head] = copy]
    /\ ppc' = "publish"
    /\ UNCHANGED <<head, tailSeen, dropped, copy, live, pushes, accepted>>
    /\ UNCHANGED consumerVars

PushPublish ==
    /\ ppc = "publish"
    /\ head' = Succ(head)
    /\ accepted' = Append(accepted, copy)
    /\ copy' = NULL
    /\ ppc' = "idle"
    /\ UNCHANGED <<tailSeen, entries, dropped, live, pushes>>
    /\ UNCHANGED consumerVars

producerVars == <<head, tailSeen, dropped, ppc, copy, pushes, accepted>>

-----------------------------------------------------------------------------
(***************************************************************************)
(* retrace_log_ring_drain, on the flusher thread.                          *)
(***************************************************************************)

\* Mutation of DrainBegin: head is not loaded again.
DrainBeginStale ==
    /\ cpc = "idle"
    /\ t' = tail
    /\ cpc' = "loop"
    /\ UNCHANGED <<tail, headSeen, entries, live, emitted, h>>
    /\ UNCHANGED producerVars

DrainBegin ==
    /\ cpc = "idle"
    /\ t' = tail
    /\ h' = headSeen
    /\ cpc' = "loop"
    /\ UNCHANGED <<tail, headSeen, entries, live, emitted>>
    /\ UNCHANGED producerVars

\* The callback returns 0 for entries[t].
DrainCallback ==
    /\ cpc = "loop"
    /\ t # h
    /\ emitted' = Append(emitted, entries[t])
    /\ cpc' = "free"
    /\ UNCHANGED <<tail, headSeen, entries, live, t, h>>
    /\ UNCHANGED producerVars

\* The callback asks to stop: the entry stays for the next drain.
DrainStop ==
    /\ cpc = "loop"
    /\ t # h
    /\ cpc' = "store"
    /\ UNCHANGED <<tail, headSeen, entries, live, t, h, emitted>>
    /\ UNCHANGED producerVars

DrainFree ==
    /\ cpc = "free"
    /\ live' = live \ {entries[t]}
    /\ entries' = [entries EXCEPT ![t] = NULL]
    /\ t' = Succ(t)
    /\ cpc' = "loop"
    /\ UNCHANGED <<tail, headSeen, h, emitted>>
    /\ UNCHANGED producerVars

DrainEnd ==
    /\ cpc = "loop"
    /\ t = h
    /\ cpc' = "store"
    /\ UNCHANGED <<tail, headSeen, entries, live, t, h, emitted>>
    /\ UNCHANGED producerVars

\* One store of tail gives back every slot of the batch.
DrainStore ==
    /\ cpc = "store"
    /\ tail' = t
    /\ cpc' = "idle"
    /\ UNCHANGED <<headSeen, entries, live, t, h, emitted>>
    /\ UNCHANGED producerVars

-----------------------------------------------------------------------------
(***************************************************************************)
(* A release store becomes visible to the other thread's acquire load.     *)
(***************************************************************************)

HeadArrives ==
    /\ headSeen # head
    /\ headSeen' = head
    /\ UNCHANGED <<tail, entries, cpc, t, h, live, emitted>>
    /\ UNCHANGED producerVars

TailArrives ==
    /\ tailSeen # tail
    /\ tailSeen' = tail
    /\ UNCHANGED <<head, entries, dropped, ppc, copy, live, pushes, accepted>>
    /\ UNCHANGED consumerVars

Push ==
    \/ PushCopy
    \/ PushOutOfMemory
    \/ PushDrop
    \/ PushRoom
    \/ PushWrite
    \/ PushPublish

Drain ==
    \/ DrainBegin
    \/ DrainCallback
    \/ DrainStop
    \/ DrainFree
    \/ DrainEnd
    \/ DrainStore

Next == Push \/ Drain \/ HeadArrives \/ TailArrives

Spec == Init /\ [][Next]_vars

(***************************************************************************)
(* Scheduling: a push that has begun goes on, the flusher drains its rings *)
(* again and again (flusher_main's loop), a store reaches the other thread *)
(* in the end, and the callback does not refuse for ever                   *)
(* (logger_emit_entry, the only callback in use, always returns 0).        *)
(***************************************************************************)
Fairness ==
    /\ WF_vars(PushDrop \/ PushRoom \/ PushWrite \/ PushPublish)
    /\ WF_vars(Drain)
    /\ SF_vars(DrainCallback)
    /\ WF_vars(HeadArrives)
    /\ WF_vars(TailArrives)

FairSpec == Spec /\ Fairness

-----------------------------------------------------------------------------
TextName == 0 .. MaxPushes - 1

(***************************************************************************)
(* The variables stay in their types: the indices within the mask of       *)
(* ring_alloc, the slots text pointers or null.                            *)
(***************************************************************************)
TypeOK ==
    /\ head \in Index
    /\ tail \in Index
    /\ headSeen \in Index
    /\ tailSeen \in Index
    /\ entries \in [Index -> TextName \cup {NULL}]
    /\ dropped \in Nat
    /\ ppc \in {"idle", "check", "write", "publish"}
    /\ copy \in TextName \cup {NULL}
    /\ cpc \in {"idle", "loop", "free", "store"}
    /\ t \in Index
    /\ h \in Index
    /\ live \subseteq TextName
    /\ pushes \in 0 .. MaxPushes
    /\ accepted \in Seq(TextName)
    /\ emitted \in Seq(TextName)

(***************************************************************************)
(* The slot push is about to fill (e = &r->entries[h], written with plain  *)
(* stores) is not one the drain in progress still has to read and free:    *)
(* the entries need no atomics of their own.                               *)
(***************************************************************************)
NoSlotRace ==
    ppc \in {"write", "publish"} /\ cpc \in {"loop", "free"}
        => Dist(t, head) >= Dist(t, h)

(***************************************************************************)
(* The drain callback consumes exactly what push accepted, in that order:  *)
(* nothing is lost, repeated, reordered or overwritten once push returned  *)
(* 0, however often a batch is cut short.                                  *)
(***************************************************************************)
FifoDelivery ==
    /\ Len(emitted) <= Len(accepted)
    /\ \A k \in 1 .. Len(emitted) : emitted[k] = accepted[k]

(***************************************************************************)
(* Every text copy on the heap has one owner, push's local or one slot, so *)
(* none leaks and none is freed while something points at it ("producer-   *)
(* side malloc, consumer-side free", log_ring.h).                          *)
(***************************************************************************)
TextsOwned ==
    /\ live = ({copy} \cup {entries[i] : i \in Index}) \ {NULL}
    /\ \A i, j \in Index :
          i # j => entries[i] = NULL \/ entries[i] # entries[j]
    /\ \A i \in Index :
          copy # NULL /\ entries[i] = copy => ppc = "publish" /\ i = head

(***************************************************************************)
(* A push never changes what an earlier push stored: what the consumer     *)
(* may read (from its cursor up to the published head) changes only by the *)
(* consumer's own free.                                                    *)
(***************************************************************************)
StoredEntriesStable ==
    [][\A i \in Index :
          Dist(t, i) < Dist(t, head) /\ entries'[i] # entries[i]
              => cpc = "free" /\ i = t]_vars

(***************************************************************************)
(* Refinement: the entries from the consumer's cursor up to the published  *)
(* head are the queue, and the slots behind the cursor that the producer   *)
(* has not seen given back are the unreleased places.                      *)
(***************************************************************************)
Cursor == IF cpc = "free" THEN Succ(t) ELSE t

Slot(i, k) == IF i + k >= Cap THEN i + k - Cap ELSE i + k

Stored == [k \in 1 .. Dist(Cursor, head) |-> entries[Slot(Cursor, k - 1)]]

Fifo == INSTANCE BoundedFifo WITH
    Capacity <- Cap - 1,
    Message <- TextName,
    queue <- Stored,
    unreleased <- Dist(tailSeen, Cursor),
    losses <- dropped

(***************************************************************************)
(* The ring implements the bounded queue its header promises: a ring of    *)
(* Cap slots holds Cap - 1 entries, refuses only when those are taken, and *)
(* hands them out first in, first out.                                     *)
(***************************************************************************)
ImplementsFifo == Fifo!FifoSpec

(***************************************************************************)
(* Every text push accepted reaches the callback in the end.               *)
(***************************************************************************)
EventuallyEmitted ==
    \A n \in 1 .. MaxPushes :
        Len(accepted) >= n ~> Len(emitted) >= n

(***************************************************************************)
(* A full ring does not stay full: the places a drain frees reach the      *)
(* producer.                                                               *)
(***************************************************************************)
FullIsTransient == RingFull ~> ~RingFull
=============================================================================
