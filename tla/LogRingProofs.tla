--------------------------- MODULE LogRingProofs ---------------------------
(***************************************************************************)
(* Proofs about LogRing for every capacity and every number of pushes.     *)
(***************************************************************************)
EXTENDS LogRing, SequenceTheorems, TLAPS

(***************************************************************************)
(* Entries of accepted that drain has finished with: the one whose         *)
(* callback has returned but whose text is not freed yet does not count.   *)
(***************************************************************************)
Retired == IF cpc = "free" THEN Len(emitted) - 1 ELSE Len(emitted)

\* Going round from what the producer knows to be free, the six indices
\* stand in this order: tailSeen, tail, t, h, headSeen, head.
IndexOrder ==
    /\ Dist(tailSeen, tail) <= Dist(tailSeen, t)
    /\ Dist(tailSeen, t) <= Dist(tailSeen, headSeen)
    /\ Dist(tailSeen, headSeen) <= Dist(tailSeen, head)
    /\ cpc = "idle" => t = tail
    /\ cpc # "idle" => /\ Dist(tailSeen, t) <= Dist(tailSeen, h)
                       /\ Dist(tailSeen, h) <= Dist(tailSeen, headSeen)
    /\ cpc = "free" => t # h
    /\ ppc \in {"write", "publish"} => ~RingFull

\* What each slot holds.
SlotContents ==
    /\ Len(emitted) - Retired \in {0, 1}
    /\ Retired >= 0
    /\ Len(accepted) = Retired + Dist(t, head)
    /\ \A i \in Index :
          IF Dist(t, i) < Dist(t, head)
          THEN entries[i] = accepted[Retired + Dist(t, i) + 1]
          ELSE entries[i] = IF ppc = "publish" /\ i = head THEN copy ELSE NULL
    /\ \A k \in 1 .. Len(emitted) : emitted[k] = accepted[k]

\* A later push has a larger name.
NamesGrow ==
    /\ copy = NULL <=> ppc = "idle"
    /\ copy # NULL => copy < pushes
    /\ \A k \in 1 .. Len(accepted) : accepted[k] < pushes
    /\ copy # NULL => \A k \in 1 .. Len(accepted) : accepted[k] < copy
    /\ \A j, k \in 1 .. Len(accepted) : j < k => accepted[j] < accepted[k]

LiveTexts == live = ({copy} \cup {entries[i] : i \in Index}) \ {NULL}

IInv == TypeOK /\ IndexOrder /\ SlotContents /\ NamesGrow /\ LiveTexts

-----------------------------------------------------------------------------
(***************************************************************************)
(* The index arithmetic of the ring: (i + 1) & mask stays an index, and    *)
(* the distance between two indices changes by one with either end.        *)
(***************************************************************************)
LEMMA SuccIndex ==
  ASSUME NEW i \in Index
  PROVE  Succ(i) \in Index
  BY CapAssumption DEF Index, Succ

\* Distances are below the capacity, and zero only between equal indices.
LEMMA DistBounds ==
  ASSUME NEW i \in Index, NEW j \in Index
  PROVE  /\ Dist(i, j) \in 0 .. Cap - 1
         /\ Dist(i, j) = 0 <=> i = j
  BY CapAssumption DEF Index, Dist

\* Seen from one index, two indices at the same distance are the same slot.
LEMMA DistInjective ==
  ASSUME NEW i \in Index, NEW j \in Index, NEW k \in Index,
         Dist(i, j) = Dist(i, k)
  PROVE  j = k
  BY CapAssumption DEF Index, Dist

\* Advancing the far end (the producer's head) adds one slot, short of a wrap.
LEMMA DistLonger ==
  ASSUME NEW i \in Index, NEW j \in Index, Succ(j) # i
  PROVE  Dist(i, Succ(j)) = Dist(i, j) + 1
  BY CapAssumption DEF Index, Dist, Succ

\* Advancing the near end (the consumer's cursor) takes one slot away.
LEMMA DistShorter ==
  ASSUME NEW i \in Index, NEW j \in Index, i # j
  PROVE  Dist(Succ(i), j) = Dist(i, j) - 1
  BY CapAssumption DEF Index, Dist, Succ

\* An index lies a whole lap less one behind its successor: the one slot that
\* push always leaves empty.
LEMMA DistBehind ==
  ASSUME NEW i \in Index
  PROVE  Dist(Succ(i), i) = Cap - 1
  BY CapAssumption DEF Index, Dist, Succ

(***************************************************************************)
(* The numbers the invariant counts with are numbers.                      *)
(***************************************************************************)
LEMMA Counts ==
  ASSUME IInv
  PROVE  /\ Len(accepted) \in Nat /\ Len(emitted) \in Nat /\ Retired \in Nat
         /\ t \in Index /\ h \in Index /\ head \in Index
         /\ Dist(t, head) \in 0 .. Cap - 1
         /\ Len(accepted) = Retired + Dist(t, head)
         /\ Len(emitted) = IF cpc = "free" THEN Retired + 1 ELSE Retired
         /\ cpc = "free" => t # head
         /\ Len(emitted) <= Len(accepted)
  <1>1. /\ Len(accepted) \in Nat /\ Len(emitted) \in Nat
        /\ t \in Index /\ h \in Index /\ head \in Index
    BY DEF IInv, TypeOK
  <1>2. Dist(t, head) \in 0 .. Cap - 1
    BY Zenon, <1>1, DistBounds
  <1>3. Retired \in Nat /\ Len(accepted) = Retired + Dist(t, head)
    BY <1>1 DEF IInv, SlotContents, Retired
  <1>4. cpc = "free" => t # head
    BY CapAssumption DEF IInv, TypeOK, IndexOrder, Dist, Index
  <1>5. Len(emitted) = IF cpc = "free" THEN Retired + 1 ELSE Retired
    BY <1>1 DEF Retired
  <1>6. cpc = "free" => Dist(t, head) # 0
    BY Zenon, <1>1, <1>4, DistBounds
  <1>7. QED
    BY <1>1, <1>2, <1>3, <1>4, <1>5, <1>6, CapAssumption

\* Between filling a slot and publishing it, retrace_log_ring_push has its copy
\* in the slot at head.
LEMMA FilledSlot ==
  ASSUME IInv, ppc = "publish"
  PROVE  entries[head] = copy
  <1>1. head \in Index /\ ~(Dist(t, head) < Dist(t, head))
    BY Counts, CapAssumption
  <1>2. \A i \in Index : ~(Dist(t, i) < Dist(t, head)) =>
          entries[i] = IF ppc = "publish" /\ i = head THEN copy ELSE NULL
    BY Zenon DEF IInv, SlotContents
  <1>3. QED
    BY Zenon, <1>1, <1>2

\* The empty ring of ring_alloc satisfies the invariant.
LEMMA InitIInv == Init => IInv
  BY CapAssumption, MaxPushesAssumption
  DEF Init, IInv, TypeOK, IndexOrder, SlotContents, NamesGrow, LiveTexts,
      Retired, Index, TextName, NULL, Dist, Succ, RingFull

(***************************************************************************)
(* While retrace_log_ring_drain has an entry before it, that entry is the  *)
(* oldest one push accepted and the callback has not consumed.             *)
(***************************************************************************)
LEMMA NextEntry ==
  ASSUME IInv, cpc = "loop", t # h
  PROVE  /\ Len(emitted) + 1 \in 1 .. Len(accepted)
         /\ entries[t] = accepted[Len(emitted) + 1]
         /\ entries[t] \in TextName
  <1> USE CapAssumption DEF IInv, TypeOK, Index
  <1>1. Dist(t, t) = 0 /\ Dist(t, head) \in 1 .. Cap - 1
    BY DEF IndexOrder, Dist
  <1>2. Len(emitted) + 1 \in 1 .. Len(accepted)
    BY <1>1 DEF SlotContents, Retired
  <1>3. entries[t] = accepted[Len(emitted) + 1]
    BY <1>1 DEF SlotContents, Retired
  <1>4. QED
    BY <1>2, <1>3

\* Every step of push and drain keeps the variables in their types.
LEMMA TypeStep == IInv /\ [Next]_vars => TypeOK'
  <1> SUFFICES ASSUME IInv, [Next]_vars
               PROVE  TypeOK'
    BY Zenon
  <1> USE CapAssumption, MaxPushesAssumption
      DEF IInv, TypeOK, Index, TextName, NULL, Succ
  <1>1. CASE PushCopy
    BY <1>1 DEF PushCopy, consumerVars
  <1>2. CASE PushOutOfMemory
    BY <1>2 DEF PushOutOfMemory, consumerVars
  <1>3. CASE PushDrop
    BY <1>3 DEF PushDrop, consumerVars, RingFull
  <1>4. CASE PushRoom
    BY Zenon, <1>4 DEF PushRoom, consumerVars, RingFull
  <1>5. CASE PushWrite
    BY Zenon, <1>5 DEF PushWrite, consumerVars
  <1>6. CASE PushPublish
    <2>1. copy \in TextName
      BY Zenon, <1>6 DEF NamesGrow, PushPublish
    <2>2. accepted' \in Seq(TextName)
      BY <1>6, <2>1 DEF PushPublish
    <2>3. QED
      BY <1>6, <2>2 DEF PushPublish, consumerVars
  <1>7. CASE DrainBegin
    BY Zenon, <1>7 DEF DrainBegin, producerVars
  <1>8. CASE DrainCallback
    <2>1. emitted' \in Seq(TextName)
      BY <1>8, NextEntry DEF DrainCallback
    <2>2. QED
      BY Zenon, <1>8, <2>1 DEF DrainCallback, producerVars
  <1>9. CASE DrainStop
    BY Zenon, <1>9 DEF DrainStop, producerVars
  <1>10. CASE DrainFree
    <2>1. live' \subseteq TextName
      BY Zenon, <1>10 DEF DrainFree
    <2>2. entries' \in [Index -> TextName \cup {NULL}]
      BY Zenon, <1>10 DEF DrainFree
    <2>3. t' \in Index
      BY <1>10 DEF DrainFree
    <2>4. QED
      BY Zenon, <1>10, <2>1, <2>2, <2>3 DEF DrainFree, producerVars
  <1>11. CASE DrainEnd
    BY Zenon, <1>11 DEF DrainEnd, producerVars
  <1>12. CASE DrainStore
    BY Zenon, <1>12 DEF DrainStore, producerVars
  <1>13. CASE HeadArrives
    BY Zenon, <1>13 DEF HeadArrives, producerVars
  <1>14. CASE TailArrives
    BY Zenon, <1>14 DEF TailArrives, consumerVars
  <1>15. CASE UNCHANGED vars
    BY Zenon, <1>15 DEF vars
  <1>16. QED
    BY Zenon, <1>1, <1>2, <1>3, <1>4, <1>5, <1>6, <1>7, <1>8,
       <1>9, <1>10, <1>11, <1>12, <1>13, <1>14, <1>15 DEF Next, Push, Drain

\* Every step keeps the six index words in their cyclic order.
LEMMA IndexStep == IInv /\ [Next]_vars => IndexOrder'
  <1> SUFFICES ASSUME IInv, [Next]_vars
               PROVE  IndexOrder'
    OBVIOUS
  <1> USE CapAssumption, MaxPushesAssumption
      DEF IInv, TypeOK, IndexOrder, Index, Succ, Dist, RingFull
  <1>1. CASE PushCopy
    BY Zenon, <1>1 DEF PushCopy, consumerVars
  <1>2. CASE PushOutOfMemory
    BY Zenon, <1>2 DEF PushOutOfMemory, consumerVars
  <1>3. CASE PushDrop
    BY <1>3 DEF PushDrop, consumerVars
  <1>4. CASE PushRoom
    BY Zenon, <1>4 DEF PushRoom, consumerVars
  <1>5. CASE PushWrite
    BY Zenon, <1>5 DEF PushWrite, consumerVars
  <1>6. CASE PushPublish
    BY <1>6 DEF PushPublish, consumerVars
  <1>7. CASE DrainBegin
    BY <1>7 DEF DrainBegin, producerVars
  <1>8. CASE DrainCallback
    BY Zenon, <1>8 DEF DrainCallback, producerVars
  <1>9. CASE DrainStop
    BY Zenon, <1>9 DEF DrainStop, producerVars
  <1>10. CASE DrainFree
    BY <1>10 DEF DrainFree, producerVars
  <1>11. CASE DrainEnd
    BY Zenon, <1>11 DEF DrainEnd, producerVars
  <1>12. CASE DrainStore
    BY <1>12 DEF DrainStore, producerVars
  <1>13. CASE HeadArrives
    BY <1>13 DEF HeadArrives, producerVars
  <1>14. CASE TailArrives
    BY <1>14 DEF TailArrives, consumerVars
  <1>15. CASE UNCHANGED vars
    BY Zenon, <1>15 DEF vars
  <1>16. QED
    BY Zenon, <1>1, <1>2, <1>3, <1>4, <1>5, <1>6, <1>7, <1>8,
       <1>9, <1>10, <1>11, <1>12, <1>13, <1>14, <1>15 DEF Next, Push, Drain

(***************************************************************************)
(* A step that changes none of what SlotContents speaks of keeps it.       *)
(***************************************************************************)
LEMMA ContentsKept ==
  ASSUME SlotContents, UNCHANGED <<emitted, accepted, entries, t, head, copy>>,
         cpc' = "free" <=> cpc = "free",
         ppc' = "publish" <=> ppc = "publish"
  PROVE  SlotContents'
  BY Zenon DEF SlotContents, Retired, Dist

\* Every step keeps the slots in agreement with what push accepted and drain
\* has not yet emitted.
LEMMA ContentsStep == IInv /\ [Next]_vars => SlotContents'
  <1> SUFFICES ASSUME IInv, [Next]_vars
               PROVE  SlotContents'
    OBVIOUS
  <1>1. CASE PushCopy
    <2>1. entries' = entries /\ head \in Index
      BY Zenon, <1>1, Counts DEF PushCopy
    <2>2. QED
      BY Zenon, <1>1 DEF PushCopy, consumerVars, IInv, SlotContents, Retired, Dist
  <1>2. CASE PushOutOfMemory
    BY Zenon, <1>2, ContentsKept DEF PushOutOfMemory, consumerVars, IInv
  <1>3. CASE PushDrop
    BY Zenon, <1>3 DEF PushDrop, consumerVars, IInv, SlotContents, Retired, Dist
  <1>4. CASE PushRoom
    BY Zenon, <1>4, ContentsKept DEF PushRoom, consumerVars, IInv
  <1>5. CASE PushWrite
    <2>1. Retired' = Retired /\ \A i \in Index : Dist(t, i)' = Dist(t, i)
      BY Zenon, <1>5 DEF PushWrite, consumerVars, Retired, Dist
    <2>2. Dist(t, head)' = Dist(t, head)
      BY Zenon, <1>5 DEF PushWrite, consumerVars, Dist
    <2>3. ASSUME NEW i \in Index
          PROVE  IF Dist(t, i) < Dist(t, head)
                 THEN entries'[i] = accepted[Retired + Dist(t, i) + 1]
                 ELSE entries'[i] = IF i = head THEN copy ELSE NULL
      <3>1. CASE i = head
        BY <1>5, <3>1, Counts DEF PushWrite, IInv, TypeOK
      <3>2. CASE i # head
        BY Zenon, <1>5, <3>2 DEF PushWrite, IInv, TypeOK, SlotContents
      <3>3. QED
        BY Zenon, <3>1, <3>2
    <2>4. QED
      BY <1>5, <2>1, <2>2, <2>3
      DEF PushWrite, consumerVars, IInv, SlotContents
  <1>6. CASE PushPublish
    <2>1. copy \in TextName
      BY Zenon, <1>6 DEF PushPublish, IInv, TypeOK, NamesGrow
    <2>2. /\ Len(accepted') = Len(accepted) + 1
          /\ accepted'[Len(accepted) + 1] = copy
          /\ \A k \in 1 .. Len(accepted) : accepted'[k] = accepted[k]
      BY <1>6, <2>1 DEF PushPublish, IInv, TypeOK
    <2>3. /\ Retired' = Retired /\ t' = t
          /\ emitted' = emitted /\ entries' = entries
          /\ ppc' = "idle"
          /\ \A i \in Index : Dist(t, i)' = Dist(t, i)
      BY Zenon, <1>6 DEF PushPublish, consumerVars, Retired, Dist
    <2>4. Succ(head) # t
      BY <1>6, CapAssumption
      DEF PushPublish, IInv, TypeOK, IndexOrder, RingFull, Succ, Dist, Index
    <2>5. Dist(t, head)' = Dist(t, head) + 1
      <3>1. Dist(t, head)' = Dist(t, Succ(head))
        BY Zenon, <1>6, <2>3 DEF PushPublish, Dist
      <3>2. QED
        BY Zenon, <3>1, <2>4, DistLonger, Counts
    <2>6. Len(accepted') = Retired + Dist(t, head)'
      BY SMTT(30), <2>2, <2>5, Counts
    <2>7. ASSUME NEW i \in Index
          PROVE  IF Dist(t, i) < Dist(t, head)'
                 THEN entries[i] = accepted'[Retired + Dist(t, i) + 1]
                 ELSE entries[i] = NULL
      <3>1. CASE i = head
        <4>1. ~(Dist(t, i) < Dist(t, head))
          BY <3>1, Counts
        <4>2. entries[i] = copy
          BY Zenon, <1>6, <3>1, <4>1 DEF PushPublish, IInv, SlotContents
        <4>3. QED
          BY <4>2, <3>1, <2>2, <2>5, Counts
      <3>2. CASE i # head
        <4>1. Dist(t, i) # Dist(t, head) /\ Dist(t, i) \in Nat
          BY <3>2, DistInjective, DistBounds, Counts
        <4>2. Dist(t, i) < Dist(t, head) <=> Dist(t, i) < Dist(t, head)'
          BY <4>1, <2>5, Counts
        <4>3. Dist(t, i) < Dist(t, head)
                => Retired + Dist(t, i) + 1 \in 1 .. Len(accepted)
          BY <4>1, Counts
        <4>4. QED
          BY Zenon, <4>2, <4>3, <3>2, <2>2 DEF IInv, SlotContents
      <3>3. QED
        BY Zenon, <3>1, <3>2
    <2>8. \A k \in 1 .. Len(emitted) : emitted[k] = accepted'[k]
      BY <2>2, Counts DEF IInv, SlotContents
    <2>9. QED
      BY Zenon, <2>3, <2>6, <2>7, <2>8 DEF IInv, SlotContents
  <1>7. CASE DrainBegin
    BY Zenon, <1>7, Counts DEF DrainBegin, producerVars, IInv, IndexOrder,
                        SlotContents, Retired
  <1>8. CASE DrainCallback
    <2>1. /\ Len(emitted) + 1 \in 1 .. Len(accepted)
          /\ entries[t] = accepted[Len(emitted) + 1]
          /\ entries[t] \in TextName
      BY Zenon, <1>8, NextEntry DEF DrainCallback
    <2>2. /\ Len(emitted') = Len(emitted) + 1
          /\ emitted'[Len(emitted) + 1] = entries[t]
          /\ \A k \in 1 .. Len(emitted) : emitted'[k] = emitted[k]
      BY <1>8, <2>1 DEF DrainCallback, IInv, TypeOK
    <2>3. Retired' = Retired /\ Retired = Len(emitted)
      BY <1>8, <2>2, Counts DEF DrainCallback, Retired
    <2>4. ASSUME NEW k \in 1 .. Len(emitted')
          PROVE  emitted'[k] = accepted[k]
      <3>1. CASE k \in 1 .. Len(emitted)
        BY Zenon, <3>1, <2>2 DEF IInv, SlotContents
      <3>2. CASE k = Len(emitted) + 1
        BY Zenon, <3>2, <2>1, <2>2
      <3>3. QED
        BY <3>1, <3>2, <2>2, Counts
    <2>5. /\ UNCHANGED <<accepted, entries, t, head, copy, ppc>>
          /\ Dist(t, head)' = Dist(t, head)
          /\ \A i \in Index : Dist(t, i)' = Dist(t, i)
      BY Zenon, <1>8 DEF DrainCallback, producerVars, Dist
    <2>6. QED
      BY <2>2, <2>3, <2>4, <2>5, Counts DEF IInv, SlotContents
  <1>9. CASE DrainStop
    BY Zenon, <1>9, ContentsKept DEF DrainStop, producerVars, IInv
  <1>10. CASE DrainFree
    <2>1. /\ Retired' = Retired + 1
          /\ Retired' = Len(emitted)
          /\ emitted' = emitted /\ accepted' = accepted
          /\ head' = head /\ ppc' = ppc /\ copy' = copy
          /\ t' = Succ(t)
      BY Zenon, <1>10, Counts DEF DrainFree, producerVars, Retired
    <2>2. t # head
      BY Zenon, <1>10, Counts DEF DrainFree
    <2>3. /\ Dist(t, head)' = Dist(Succ(t), head)
          /\ \A i \in Index : Dist(t, i)' = Dist(Succ(t), i)
      BY Zenon, <2>1 DEF Dist
    <2>4. Dist(t, head)' = Dist(t, head) - 1
      BY Zenon, <2>2, <2>3, DistShorter, Counts
    <2>5. ASSUME NEW i \in Index
          PROVE  IF Dist(t, i)' < Dist(t, head)'
                 THEN entries'[i] = accepted[Retired' + Dist(t, i)' + 1]
                 ELSE entries'[i] = IF ppc = "publish" /\ i = head
                                    THEN copy ELSE NULL
      <3>1. CASE i = t
        <4>1. entries'[i] = NULL
          BY Zenon, <1>10, <3>1 DEF DrainFree, IInv, TypeOK
        <4>2. Dist(t, i)' = Cap - 1
          BY Zenon, <3>1, <2>3, DistBehind, Counts
        <4>3. ~(Dist(t, i)' < Dist(t, head)')
          BY <4>2, <2>4, Counts, CapAssumption
        <4>4. QED
          BY Zenon, <4>1, <4>3, <3>1, <2>2
      <3>2. CASE i # t
        <4>1. entries'[i] = entries[i]
          BY Zenon, <1>10, <3>2 DEF DrainFree, IInv, TypeOK
        <4>2. Dist(t, i)' = Dist(t, i) - 1 /\ Dist(t, i) \in Nat
          BY <3>2, <2>3, DistShorter, DistBounds, Counts
        <4>3. Dist(t, i)' < Dist(t, head)' <=> Dist(t, i) < Dist(t, head)
          BY <4>2, <2>4, Counts
        <4>4. Retired' + Dist(t, i)' + 1 = Retired + Dist(t, i) + 1
          BY <4>2, <2>1, Counts
        <4>5. QED
          BY Zenon, <4>1, <4>3, <4>4 DEF IInv, SlotContents
      <3>3. QED
        BY Zenon, <3>1, <3>2
    <2>6. Len(accepted') = Retired' + Dist(t, head)'
      BY <2>1, <2>4, Counts
    <2>7. QED
      BY <2>1, <2>5, <2>6, Counts DEF IInv, SlotContents
  <1>11. CASE DrainEnd
    BY Zenon, <1>11, ContentsKept DEF DrainEnd, producerVars, IInv
  <1>12. CASE DrainStore
    BY Zenon, <1>12, ContentsKept DEF DrainStore, producerVars, IInv
  <1>13. CASE HeadArrives
    BY Zenon, <1>13, ContentsKept DEF HeadArrives, producerVars, IInv
  <1>14. CASE TailArrives
    BY Zenon, <1>14, ContentsKept DEF TailArrives, consumerVars, IInv
  <1>15. CASE UNCHANGED vars
    BY Zenon, <1>15, ContentsKept DEF vars, IInv
  <1>16. QED
    BY Zenon, <1>1, <1>2, <1>3, <1>4, <1>5, <1>6, <1>7, <1>8,
       <1>9, <1>10, <1>11, <1>12, <1>13, <1>14, <1>15 DEF Next, Push, Drain

\* Every step keeps text names increasing, so no two live copies are confused.
LEMMA NamesStep == IInv /\ [Next]_vars => NamesGrow'
  <1> SUFFICES ASSUME IInv, [Next]_vars
               PROVE  NamesGrow'
    OBVIOUS
  <1> USE CapAssumption, MaxPushesAssumption
      DEF IInv, TypeOK, NamesGrow, Index, TextName, NULL
  <1>1. CASE PushCopy
    <2>1. /\ pushes \in Nat /\ pushes' = pushes + 1
          /\ copy' = pushes /\ ppc' = "check" /\ accepted' = accepted
      BY <1>1 DEF PushCopy
    <2>2. copy' # NULL /\ copy' < pushes'
      BY <2>1
    <2>3. \A k \in 1 .. Len(accepted) :
             accepted[k] \in Nat /\ accepted[k] < pushes
      OBVIOUS
    <2>4. \A k \in 1 .. Len(accepted') :
             accepted'[k] < pushes' /\ accepted'[k] < copy'
      BY <2>1, <2>3
    <2>5. \A j, k \in 1 .. Len(accepted') : j < k => accepted'[j] < accepted'[k]
      BY Zenon, <2>1
    <2>6. QED
      BY Zenon, <2>1, <2>2, <2>4, <2>5
  <1>2. CASE PushOutOfMemory
    BY <1>2 DEF PushOutOfMemory, consumerVars
  <1>3. CASE PushDrop
    BY Zenon, <1>3 DEF PushDrop, consumerVars, RingFull
  <1>4. CASE PushRoom
    BY Zenon, <1>4 DEF PushRoom, consumerVars, RingFull
  <1>5. CASE PushWrite
    BY Zenon, <1>5 DEF PushWrite, consumerVars
  <1>6. CASE PushPublish
    BY <1>6 DEF PushPublish, consumerVars
  <1>7. CASE DrainBegin
    BY Zenon, <1>7 DEF DrainBegin, producerVars
  <1>8. CASE DrainCallback
    BY Zenon, <1>8 DEF DrainCallback, producerVars
  <1>9. CASE DrainStop
    BY Zenon, <1>9 DEF DrainStop, producerVars
  <1>10. CASE DrainFree
    BY Zenon, <1>10 DEF DrainFree, producerVars
  <1>11. CASE DrainEnd
    BY Zenon, <1>11 DEF DrainEnd, producerVars
  <1>12. CASE DrainStore
    BY Zenon, <1>12 DEF DrainStore, producerVars
  <1>13. CASE HeadArrives
    BY Zenon, <1>13 DEF HeadArrives, producerVars
  <1>14. CASE TailArrives
    BY Zenon, <1>14 DEF TailArrives, consumerVars
  <1>15. CASE UNCHANGED vars
    BY Zenon, <1>15 DEF vars
  <1>16. QED
    BY Zenon, <1>1, <1>2, <1>3, <1>4, <1>5, <1>6, <1>7, <1>8,
       <1>9, <1>10, <1>11, <1>12, <1>13, <1>14, <1>15 DEF Next, Push, Drain

(***************************************************************************)
(* The inductive invariant gives every text copy one owner.                *)
(***************************************************************************)
LEMMA OwnedOnce == IInv => TextsOwned
  <1> SUFFICES ASSUME IInv PROVE TextsOwned
    BY Zenon
  <1>1. ASSUME NEW i \in Index
        PROVE  \/ entries[i] = NULL
               \/ ppc = "publish" /\ i = head /\ entries[i] = copy
               \/ /\ Retired + Dist(t, i) + 1 \in 1 .. Len(accepted)
                  /\ entries[i] = accepted[Retired + Dist(t, i) + 1]
    <2>1. Dist(t, i) \in Nat
      BY DistBounds, Counts
    <2>2. Dist(t, i) < Dist(t, head)
            => Retired + Dist(t, i) + 1 \in 1 .. Len(accepted)
      BY <2>1, Counts
    <2>3. QED
      BY Zenon, <2>2 DEF IInv, SlotContents
  <1>2. \A j, k \in 1 .. Len(accepted) : j # k => accepted[j] # accepted[k]
    <2>1. \A k \in 1 .. Len(accepted) : accepted[k] \in Int
      <3>1. \A k \in 1 .. Len(accepted) : accepted[k] \in TextName
        BY DEF IInv, TypeOK
      <3>2. QED
        BY <3>1, MaxPushesAssumption DEF TextName
    <2>2. \A j, k \in 1 .. Len(accepted) : j < k => accepted[j] < accepted[k]
      BY Zenon DEF IInv, NamesGrow
    <2>3. QED
      BY <2>1, <2>2, Counts
  <1>3. copy # NULL => \A k \in 1 .. Len(accepted) : accepted[k] # copy
    BY Counts DEF IInv, TypeOK, NamesGrow, TextName
  <1>4. ASSUME NEW i \in Index, NEW j \in Index, i # j, entries[i] # NULL
        PROVE  entries[i] # entries[j]
    <2>1. Retired + Dist(t, i) + 1 # Retired + Dist(t, j) + 1
      <3>1. Dist(t, i) \in Nat /\ Dist(t, j) \in Nat /\ Dist(t, i) # Dist(t, j)
        BY <1>4, DistBounds, DistInjective, Counts
      <3>2. QED
        BY <3>1, Counts
    <2>2. QED
      BY <1>1, <1>2, <1>3, <1>4, <2>1
  <1>5. ASSUME NEW i \in Index, copy # NULL, entries[i] = copy
        PROVE  ppc = "publish" /\ i = head
    BY Zenon, <1>1, <1>3, <1>5
  <1>6. QED
    BY Zenon, <1>4, <1>5 DEF IInv, TextsOwned, LiveTexts

(***************************************************************************)
(* The slot retrace_log_ring_drain frees holds a text and is not the one   *)
(* push is filling.                                                        *)
(***************************************************************************)
LEMMA FreedEntry ==
  ASSUME IInv, cpc = "free"
  PROVE  t # head /\ entries[t] \in TextName
  <1>1. t # head /\ t \in Index /\ head \in Index
    BY Zenon, Counts
  <1>2. Dist(t, t) = 0 /\ Dist(t, t) < Dist(t, head)
    BY <1>1, DistBounds, CapAssumption
  <1>3. entries[t] = accepted[Retired + Dist(t, t) + 1]
    BY Zenon, <1>1, <1>2 DEF IInv, SlotContents
  <1>4. Retired + Dist(t, t) + 1 \in 1 .. Len(accepted)
    BY <1>2, Counts
  <1>5. QED
    BY <1>1, <1>3, <1>4 DEF IInv, TypeOK

\* Every step keeps the live copies equal to the owned ones: push allocates,
\* push (on a full ring) or drain frees.
LEMMA LiveStep == IInv /\ [Next]_vars => LiveTexts'
  <1> SUFFICES ASSUME IInv, [Next]_vars
               PROVE  LiveTexts'
    BY Zenon
  <1> USE CapAssumption, MaxPushesAssumption
      DEF IInv, TypeOK, LiveTexts, NamesGrow, Index, TextName, NULL
  <1>1. CASE PushCopy
    BY <1>1 DEF PushCopy, consumerVars
  <1>2. CASE PushOutOfMemory
    BY Zenon, <1>2 DEF PushOutOfMemory, consumerVars
  <1>3. CASE PushDrop
    <2>1. \A i \in Index : entries[i] # copy
      BY Zenon, <1>3, OwnedOnce DEF PushDrop, TextsOwned
    <2>2. QED
      BY Zenon, <1>3, <2>1 DEF PushDrop, consumerVars
  <1>4. CASE PushRoom
    BY Zenon, <1>4 DEF PushRoom, consumerVars, RingFull
  <1>5. CASE PushWrite
    <2>1. entries[head] = NULL /\ copy # NULL
      BY <1>5 DEF PushWrite, SlotContents, Dist
    <2>2. \A i \in Index : entries'[i] = IF i = head THEN copy ELSE entries[i]
      BY Zenon, <1>5 DEF PushWrite
    <2>3. {entries'[i] : i \in Index} \ {NULL}
            = ({copy} \cup {entries[i] : i \in Index}) \ {NULL}
      BY ZenonT(40), <2>1, <2>2
    <2>4. QED
      BY Zenon, <1>5, <2>3 DEF PushWrite, consumerVars
  <1>6. CASE PushPublish
    <2>1. entries[head] = copy
      BY Zenon, <1>6, FilledSlot DEF PushPublish
    <2>2. QED
      BY Zenon, <1>6, <2>1 DEF PushPublish, consumerVars
  <1>7. CASE DrainBegin
    BY Zenon, <1>7 DEF DrainBegin, producerVars
  <1>8. CASE DrainCallback
    BY Zenon, <1>8 DEF DrainCallback, producerVars
  <1>9. CASE DrainStop
    BY Zenon, <1>9 DEF DrainStop, producerVars
  <1>10. CASE DrainFree
    <2>1. t # head /\ entries[t] # NULL
      BY <1>10, FreedEntry DEF DrainFree
    <2>2. /\ \A i \in Index : i # t => entries[i] # entries[t]
          /\ copy # entries[t]
      BY Zenon, <2>1, OwnedOnce DEF TextsOwned
    <2>3. \A i \in Index : entries'[i] = IF i = t THEN NULL ELSE entries[i]
      BY Zenon, <1>10 DEF DrainFree
    <2>4. {entries'[i] : i \in Index} \ {NULL}
            = {entries[i] : i \in Index} \ {NULL, entries[t]}
      BY ZenonT(40), <2>2, <2>3
    <2>5. QED
      BY Zenon, <1>10, <2>2, <2>4 DEF DrainFree, producerVars
  <1>11. CASE DrainEnd
    BY Zenon, <1>11 DEF DrainEnd, producerVars
  <1>12. CASE DrainStore
    BY Zenon, <1>12 DEF DrainStore, producerVars
  <1>13. CASE HeadArrives
    BY Zenon, <1>13 DEF HeadArrives, producerVars
  <1>14. CASE TailArrives
    BY Zenon, <1>14 DEF TailArrives, consumerVars
  <1>15. CASE UNCHANGED vars
    BY Zenon, <1>15 DEF vars
  <1>16. QED
    BY Zenon, <1>1, <1>2, <1>3, <1>4, <1>5, <1>6, <1>7, <1>8,
       <1>9, <1>10, <1>11, <1>12, <1>13, <1>14, <1>15 DEF Next, Push, Drain

-----------------------------------------------------------------------------
(***************************************************************************)
(* The inductive invariant holds of every state of the ring.               *)
(***************************************************************************)
THEOREM RingInvariant == Spec => []IInv
  <1>1. IInv /\ [Next]_vars => IInv'
    BY Zenon, TypeStep, IndexStep, ContentsStep, NamesStep, LiveStep DEF IInv
  <1>2. QED
    BY InitIInv, <1>1, PTL DEF Spec

(***************************************************************************)
(* retrace_log_ring_push and retrace_log_ring_drain keep the ring's        *)
(* fields in their types.                                                  *)
(***************************************************************************)
THEOREM RingTypes == Spec => []TypeOK
  <1>1. IInv => TypeOK
    BY Zenon DEF IInv
  <1>2. QED
    BY RingInvariant, <1>1, PTL

(***************************************************************************)
(* The slot push writes with plain stores is never one the drain in        *)
(* progress reads or frees.                                                *)
(***************************************************************************)
THEOREM RingNoSlotRace == Spec => []NoSlotRace
  <1>1. IInv => NoSlotRace
    BY CapAssumption DEF IInv, TypeOK, IndexOrder, NoSlotRace, Dist, Index
  <1>2. QED
    BY RingInvariant, <1>1, PTL

(***************************************************************************)
(* The drain callback gets what push accepted, in order, without loss or   *)
(* repetition.                                                             *)
(***************************************************************************)
THEOREM RingFifoDelivery == Spec => []FifoDelivery
  <1>1. IInv => FifoDelivery
    BY Zenon, Counts DEF IInv, SlotContents, FifoDelivery
  <1>2. QED
    BY RingInvariant, <1>1, PTL

(***************************************************************************)
(* No text copy leaks, is freed twice, or is freed while it is reachable.  *)
(***************************************************************************)
THEOREM RingTextsOwned == Spec => []TextsOwned
  BY RingInvariant, OwnedOnce, PTL

(***************************************************************************)
(* Between the consumer's cursor and the published head only the           *)
(* consumer's own free changes a slot.                                     *)
(***************************************************************************)
THEOREM RingEntriesStable == Spec => StoredEntriesStable
  <1> DEFINE A == \A i \in Index :
                     Dist(t, i) < Dist(t, head) /\ entries'[i] # entries[i]
                         => cpc = "free" /\ i = t
  <1>1. ASSUME IInv, [Next]_vars
        PROVE  A
    <2>1. CASE PushWrite
      BY <1>1, <2>1, Counts DEF PushWrite, IInv, TypeOK
    <2>2. CASE DrainFree
      BY Zenon, <1>1, <2>2 DEF DrainFree, IInv, TypeOK
    <2>3. CASE ~PushWrite /\ ~DrainFree
      <3>1. entries' = entries
        BY Zenon, <1>1, <2>3 DEF Next, Push, Drain, vars, PushCopy, PushOutOfMemory,
           PushDrop, PushRoom, PushPublish, DrainBegin, DrainCallback,
           DrainStop, DrainEnd, DrainStore, HeadArrives, TailArrives
      <3>2. QED
        BY Zenon, <3>1
    <2>4. QED
      BY Zenon, <2>1, <2>2, <2>3
  <1>2. QED
    BY RingInvariant, <1>1, PTL DEF Spec, StoredEntriesStable

-----------------------------------------------------------------------------
(***************************************************************************)
(* The refinement of BoundedFifo.                                          *)
(***************************************************************************)
LEMMA AppendAsFunction ==
  ASSUME NEW S, NEW s \in Seq(S), NEW e \in S
  PROVE  Append(s, e) =
           [k \in 1 .. Len(s) + 1 |-> IF k = Len(s) + 1 THEN e ELSE s[k]]
  <1> DEFINE f == [k \in 1 .. Len(s) + 1 |-> IF k = Len(s) + 1 THEN e ELSE s[k]]
  <1>1. Append(s, e) \in Seq(S) /\ Len(Append(s, e)) = Len(s) + 1
    OBVIOUS
  <1>2. f \in Seq(S) /\ Len(f) = Len(s) + 1
    OBVIOUS
  <1>3. \A k \in 1 .. Len(s) + 1 : Append(s, e)[k] = f[k]
    OBVIOUS
  <1>4. QED
    BY Zenon, <1>1, <1>2, <1>3, SeqEqual

\* Tail, written as the function it is.
LEMMA TailAsFunction ==
  ASSUME NEW S, NEW s \in Seq(S), s # <<>>
  PROVE  Tail(s) = [k \in 1 .. Len(s) - 1 |-> s[k + 1]]
  <1> DEFINE f == [k \in 1 .. Len(s) - 1 |-> s[k + 1]]
  <1>1. /\ Tail(s) \in Seq(S) /\ Len(Tail(s)) = Len(s) - 1
        /\ \A k \in 1 .. Len(s) - 1 : Tail(s)[k] = s[k + 1]
    BY Zenon, HeadTailProperties
  <1>2. f \in Seq(S) /\ Len(f) = Len(s) - 1
    OBVIOUS
  <1>3. QED
    BY Zenon, <1>1, <1>2, SeqEqual

\* The slot k places after i is at distance k from i.
LEMMA SlotPlace ==
  ASSUME NEW i \in Index, NEW k \in 0 .. Cap - 1
  PROVE  Slot(i, k) \in Index /\ Dist(i, Slot(i, k)) = k
  BY CapAssumption DEF Index, Slot, Dist

\* The consumer's cursor lies between the tail the producer sees and the head.
LEMMA CursorPlace ==
  ASSUME IInv
  PROVE  /\ Cursor \in Index /\ tailSeen \in Index /\ head \in Index
         /\ Dist(Cursor, head) \in 0 .. Cap - 1
         /\ Dist(tailSeen, Cursor) \in 0 .. Cap - 1
         /\ Dist(tailSeen, Cursor) + Dist(Cursor, head) = Dist(tailSeen, head)
         /\ Stored \in Seq(TextName \cup {NULL})
         /\ Len(Stored) = Dist(Cursor, head)
  <1>1. Cursor \in Index /\ tailSeen \in Index /\ head \in Index
    BY Zenon, SuccIndex DEF Cursor, IInv, TypeOK
  <1>2. /\ Dist(Cursor, head) \in 0 .. Cap - 1
        /\ Dist(tailSeen, Cursor) \in 0 .. Cap - 1
    BY Zenon, <1>1, DistBounds
  <1>3. Dist(tailSeen, Cursor) + Dist(Cursor, head) = Dist(tailSeen, head)
    BY CapAssumption
    DEF IInv, TypeOK, IndexOrder, Cursor, Succ, Dist, Index
  <1>4. \A k \in 1 .. Dist(Cursor, head) :
           entries[Slot(Cursor, k - 1)] \in TextName \cup {NULL}
    <2> SUFFICES ASSUME NEW k \in 1 .. Dist(Cursor, head)
                 PROVE  entries[Slot(Cursor, k - 1)] \in TextName \cup {NULL}
      BY Zenon
    <2>1. k - 1 \in 0 .. Cap - 1
      BY <1>2, CapAssumption
    <2>2. Slot(Cursor, k - 1) \in Index
      BY Zenon, <1>1, <2>1, SlotPlace
    <2>3. QED
      BY Zenon, <2>2 DEF IInv, TypeOK
  <1>5. /\ Stored \in Seq(TextName \cup {NULL})
        /\ Len(Stored) = Dist(Cursor, head)
    BY <1>2, <1>4 DEF Stored
  <1>6. QED
    BY Zenon, <1>1, <1>2, <1>3, <1>5

(***************************************************************************)
(* A step that leaves the occupied slots and the four indices alone is     *)
(* invisible in the abstract queue.                                        *)
(***************************************************************************)
LEMMA FifoStutter ==
  ASSUME IInv, Cursor' = Cursor, UNCHANGED <<head, tailSeen, dropped>>,
         \A k \in 1 .. Dist(Cursor, head) :
            entries'[Slot(Cursor, k - 1)] = entries[Slot(Cursor, k - 1)]
  PROVE  UNCHANGED Fifo!fifoVars
  <1>1. /\ Dist(Cursor, head)' = Dist(Cursor, head)
        /\ Dist(tailSeen, Cursor)' = Dist(tailSeen, Cursor)
    BY Zenon DEF Dist
  <1>2. \A k : Slot(Cursor, k - 1)' = Slot(Cursor, k - 1)
    BY Zenon DEF Slot
  <1>3. Stored' = Stored
    BY Zenon, <1>1, <1>2 DEF Stored
  <1>4. QED
    BY Zenon, <1>1, <1>3 DEF Fifo!fifoVars

\* Every step of push and drain is a step of the bounded queue, or changes
\* nothing the queue can see.
LEMMA FifoStep == IInv /\ [Next]_vars => [Fifo!FifoNext]_(Fifo!fifoVars)
  <1> SUFFICES ASSUME IInv, [Next]_vars
               PROVE  Fifo!FifoNext \/ UNCHANGED Fifo!fifoVars
    BY Zenon
  <1>1. CASE \/ PushCopy \/ PushOutOfMemory \/ PushRoom \/ DrainStop \/ DrainEnd
             \/ DrainStore \/ HeadArrives \/ UNCHANGED vars
    BY Zenon, <1>1, FifoStutter
    DEF PushCopy, PushOutOfMemory, PushRoom, DrainStop, DrainEnd, DrainStore,
        HeadArrives, consumerVars, producerVars, vars, Cursor
  <1>2. CASE DrainBegin
    BY Zenon, <1>2, FifoStutter DEF DrainBegin, producerVars, Cursor, IInv, IndexOrder
  <1>3. CASE PushWrite
    <2>1. ASSUME NEW k \in 1 .. Dist(Cursor, head)
          PROVE  entries'[Slot(Cursor, k - 1)] = entries[Slot(Cursor, k - 1)]
      <3>1. k - 1 \in 0 .. Cap - 1 /\ k - 1 # Dist(Cursor, head)
        BY CursorPlace, CapAssumption
      <3>2. Slot(Cursor, k - 1) # head /\ Slot(Cursor, k - 1) \in Index
        BY <3>1, SlotPlace, CursorPlace
      <3>3. QED
        BY Zenon, <1>3, <3>2 DEF PushWrite, IInv, TypeOK
    <2>2. QED
      BY Zenon, <1>3, <2>1, FifoStutter DEF PushWrite, consumerVars, Cursor
  <1>4. CASE PushDrop
    <2>1. Dist(tailSeen, head) = Cap - 1
      BY Zenon, <1>4, DistBehind, CursorPlace DEF PushDrop, RingFull
    <2>2. ~Fifo!HasPlace
      BY <2>1, CursorPlace, CapAssumption DEF Fifo!HasPlace
    <2>3. Stored' = Stored /\ Dist(tailSeen, Cursor)' = Dist(tailSeen, Cursor)
      BY Zenon, <1>4 DEF PushDrop, consumerVars, Stored, Cursor, Dist, Slot
    <2>4. Fifo!Lose
      BY Zenon, <1>4, <2>2, <2>3 DEF PushDrop, Fifo!Lose
    <2>5. QED
      BY Zenon, <2>4 DEF Fifo!FifoNext
  <1>5. CASE PushPublish
    <2>1. copy \in TextName
      BY Zenon, <1>5 DEF PushPublish, IInv, TypeOK, NamesGrow
    <2>2. Succ(head) # tailSeen
      BY Zenon, <1>5 DEF PushPublish, IInv, IndexOrder, RingFull
    <2>3. Dist(tailSeen, Succ(head)) = Dist(tailSeen, head) + 1
      BY Zenon, <2>2, DistLonger, CursorPlace
    <2>4. Dist(tailSeen, head) < Cap - 1
      BY SMTT(30), <2>3, DistBounds, SuccIndex, CursorPlace, CapAssumption
    <2>5. Fifo!HasPlace
      BY <2>4, CursorPlace, CapAssumption DEF Fifo!HasPlace
    <2>6. Cursor' = Cursor /\ \A k : Slot(Cursor, k)' = Slot(Cursor, k)
      BY Zenon, <1>5 DEF PushPublish, consumerVars, Cursor, Slot
    <2>7. Dist(Cursor, head)' = Dist(Cursor, head) + 1
      <3>1. Succ(head) # Cursor
        BY <2>4, CursorPlace, CapAssumption, DistBehind
      <3>2. Dist(Cursor, head)' = Dist(Cursor, Succ(head))
        BY Zenon, <1>5, <2>6 DEF PushPublish, Dist
      <3>3. QED
        BY Zenon, <3>1, <3>2, DistLonger, CursorPlace
    <2>8. Slot(Cursor, Dist(Cursor, head)) = head
      BY SlotPlace, DistInjective, CursorPlace
    <2>9. entries[head] = copy /\ entries' = entries
      BY Zenon, <1>5, FilledSlot DEF PushPublish
    <2>10. Stored' = [k \in 1 .. Dist(Cursor, head) + 1 |->
                          entries[Slot(Cursor, k - 1)]]
      BY Zenon, <2>6, <2>7, <2>9 DEF Stored
    <2>11. Stored' = Append(Stored, copy)
      <3> DEFINE n == Dist(Cursor, head)
      <3>1. n \in Nat /\ Len(Stored) = n /\ Stored \in Seq(TextName \cup {NULL})
        BY CursorPlace
      <3>2. Append(Stored, copy) =
              [k \in 1 .. n + 1 |-> IF k = n + 1 THEN copy ELSE Stored[k]]
        BY <3>1, <2>1, AppendAsFunction
      <3>3. ASSUME NEW k \in 1 .. n + 1
            PROVE  entries[Slot(Cursor, k - 1)]
                     = IF k = n + 1 THEN copy ELSE Stored[k]
        <4>1. CASE k = n + 1
          BY <4>1, <3>1, <2>8, <2>9
        <4>2. CASE k # n + 1
          BY <4>2, <3>1 DEF Stored
        <4>3. QED
          BY Zenon, <4>1, <4>2
      <3>4. QED
        BY Zenon, <3>2, <3>3, <2>10
    <2>12. Dist(tailSeen, Cursor)' = Dist(tailSeen, Cursor) /\ dropped' = dropped
      BY Zenon, <1>5, <2>6 DEF PushPublish, Dist
    <2>13. Fifo!Put(copy)
      BY Zenon, <2>5, <2>11, <2>12 DEF Fifo!Put
    <2>14. QED
      BY Zenon, <2>1, <2>13 DEF Fifo!FifoNext
  <1>6. CASE DrainCallback
    <2>1. Cursor = t /\ Cursor' = Succ(t)
      BY Zenon, <1>6 DEF DrainCallback, Cursor
    <2>2. t # head /\ t \in Index
      BY <1>6, CapAssumption
      DEF DrainCallback, IInv, TypeOK, IndexOrder, Dist, Index
    <2>3. UNCHANGED <<head, tailSeen, entries, dropped>>
      BY Zenon, <1>6 DEF DrainCallback, producerVars
    <2>4. Dist(Cursor, head)' = Dist(Cursor, head) - 1
      <3>1. Dist(Cursor, head)' = Dist(Succ(t), head)
        BY Zenon, <2>1, <2>3 DEF Dist
      <3>2. QED
        BY Zenon, <3>1, <2>1, <2>2, DistShorter, CursorPlace
    <2>5. Dist(tailSeen, Cursor)' = Dist(tailSeen, Cursor) + 1
      <3>1. Dist(tailSeen, Cursor)' = Dist(tailSeen, Succ(t))
        BY Zenon, <2>1, <2>3 DEF Dist
      <3>2. Succ(t) # tailSeen
        <4>1. Dist(t, head) # 0
          BY Zenon, <2>2, DistBounds, CursorPlace
        <4>2. Dist(tailSeen, t) # Cap - 1
          BY <4>1, <2>1, CursorPlace, DistBounds, CapAssumption
        <4>3. QED
          BY Zenon, <4>2, <2>2, DistBehind
      <3>3. QED
        BY Zenon, <3>1, <3>2, <2>1, <2>2, DistLonger, CursorPlace
    <2>6. Stored # <<>> /\ Stored' = Tail(Stored)
      <3> DEFINE n == Dist(Cursor, head)
      <3>1. n \in Nat /\ n # 0 /\ n < Cap
        BY <2>1, <2>2, DistBounds, CursorPlace, CapAssumption
      <3>2. Len(Stored) = n /\ Stored \in Seq(TextName \cup {NULL})
        BY Zenon, CursorPlace
      <3>3. Tail(Stored) = [k \in 1 .. n - 1 |-> Stored[k + 1]]
        BY <3>1, <3>2, TailAsFunction
      <3>4. Stored' = [k \in 1 .. n - 1 |-> entries[Slot(Succ(t), k - 1)]]
        <4>1. \A k : Slot(Cursor, k)' = Slot(Succ(t), k)
          BY Zenon, <2>1 DEF Slot
        <4>2. QED
          BY Zenon, <4>1, <2>3, <2>4 DEF Stored
      <3>5. ASSUME NEW k \in 1 .. n - 1
            PROVE  Stored[k + 1] = entries[Slot(Succ(t), k - 1)]
        <4>1. Slot(Succ(t), k - 1) = Slot(t, k)
          BY <3>1, <2>2, CapAssumption DEF Slot, Succ, Index
        <4>2. Stored[k + 1] = entries[Slot(Cursor, (k + 1) - 1)]
          BY <3>1 DEF Stored
        <4>3. QED
          BY <4>1, <4>2, <2>1, <3>1
      <3>6. QED
        BY Zenon, <3>1, <3>2, <3>3, <3>4, <3>5
    <2>7. Fifo!Take
      BY Zenon, <2>3, <2>5, <2>6 DEF Fifo!Take
    <2>8. QED
      BY Zenon, <2>7 DEF Fifo!FifoNext
  <1>7. CASE DrainFree
    <2>1. Cursor = Succ(t) /\ Cursor' = Cursor
      BY Zenon, <1>7 DEF DrainFree, Cursor
    <2>2. ASSUME NEW k \in 1 .. Dist(Cursor, head)
          PROVE  entries'[Slot(Cursor, k - 1)] = entries[Slot(Cursor, k - 1)]
      <3>1. k - 1 \in 0 .. Cap - 1 /\ k - 1 # Cap - 1
        BY CursorPlace, CapAssumption
      <3>2. Dist(Cursor, t) = Cap - 1
        BY Zenon, <2>1, DistBehind, Counts
      <3>3. Slot(Cursor, k - 1) # t /\ Slot(Cursor, k - 1) \in Index
        BY <3>1, <3>2, SlotPlace, CursorPlace
      <3>4. QED
        BY Zenon, <1>7, <3>3 DEF DrainFree, IInv, TypeOK
    <2>3. QED
      BY Zenon, <1>7, <2>1, <2>2, FifoStutter DEF DrainFree, producerVars
  <1>8. CASE TailArrives
    <2>1. Stored' = Stored /\ dropped' = dropped
      BY Zenon, <1>8 DEF TailArrives, consumerVars, Stored, Cursor, Dist, Slot
    <2>2. Dist(tailSeen, Cursor)' = Dist(tail, Cursor)
      BY Zenon, <1>8 DEF TailArrives, consumerVars, Cursor, Dist
    <2>3. Dist(tail, Cursor) \in 0 .. Dist(tailSeen, Cursor)
      BY CapAssumption DEF IInv, TypeOK, IndexOrder, Cursor, Succ, Dist, Index
    <2>4. Fifo!Release
      BY Zenon, <2>1, <2>2, <2>3 DEF Fifo!Release
    <2>5. QED
      BY Zenon, <2>4 DEF Fifo!FifoNext
  <1>9. QED
    BY Zenon, <1>1, <1>2, <1>3, <1>4, <1>5, <1>6, <1>7, <1>8 DEF Next, Push, Drain

(***************************************************************************)
(* The ring of log_ring.c implements a bounded queue of Cap - 1 entries    *)
(* that refuses only when full and delivers in order.                      *)
(***************************************************************************)
THEOREM RingImplementsFifo == Spec => ImplementsFifo
  <1>1. Init => Fifo!FifoInit
    BY CapAssumption DEF Init, Fifo!FifoInit, Stored, Cursor, Dist
  <1>2. QED
    BY <1>1, RingInvariant, FifoStep, PTL
    DEF Spec, ImplementsFifo, Fifo!FifoSpec
=============================================================================
