--------------------------- MODULE SkbFifoProofs ---------------------------
(***************************************************************************)
(* Proofs about SkbFifo, the queue SkbQueue implements: whatever the       *)
(* threads put, take, allocate and free, a packet is in one place.         *)
(***************************************************************************)
EXTENDS SkbFifo, SequenceTheorems, TLAPS

Inv == NoSkb \notin Skbs /\ FifoTypeOK /\ OnePlace

(* Taking a packet off either end leaves the others where they were, and   *)
(* no trace of the one taken.                                              *)
LEMMA TakenLeaves ==
  ASSUME NEW t \in Threads, Inv, TakeHead(t) \/ TakeTail(t)
  PROVE  \E s \in Queued :
           /\ hand' = [hand EXCEPT ![t] = s] /\ hand[t] = NoSkb
           /\ queue' \in Seq(Skbs)
           /\ Queued' = Queued \ {s}
           /\ \A i, j \in 1 .. Len(queue') : queue'[i] = queue'[j] => i = j
<1>1. CASE TakeHead(t)
  <2>1. queue \in Seq(Skbs) /\ queue # <<>> /\ queue' = Tail(queue)
    BY <1>1 DEF TakeHead, Inv, FifoTypeOK
  <2>2. /\ queue' \in Seq(Skbs) /\ Len(queue') = Len(queue) - 1
        /\ \A i \in 1 .. Len(queue') : queue'[i] = queue[i + 1]
        /\ Len(queue) \in Nat /\ Len(queue) >= 1 /\ Head(queue) = queue[1]
    BY <2>1, HeadTailProperties, EmptySeq, LenProperties
  <2>3. queue[1] \in Queued
    BY <2>2 DEF Queued
  <2>4. /\ Queued' = Queued \ {queue[1]}
        /\ \A i, j \in 1 .. Len(queue') : queue'[i] = queue'[j] => i = j
    <3>1. \A i, j \in 1 .. Len(queue) : queue[i] = queue[j] => i = j
      BY DEF Inv, OnePlace
    <3>2. ASSUME NEW i \in 1 .. Len(queue')
          PROVE  i + 1 \in 1 .. Len(queue) /\ queue'[i] = queue[i + 1] /\ queue'[i] # queue[1]
      BY <2>2, <3>1
    <3>3. ASSUME NEW i \in 1 .. Len(queue), queue[i] # queue[1]
          PROVE  i - 1 \in 1 .. Len(queue') /\ queue'[i - 1] = queue[i]
      <4>1. i # 1 /\ i - 1 \in 1 .. Len(queue') /\ (i - 1) + 1 = i
        BY <2>2, <3>3
      <4> QED BY <2>2, <4>1
    <3>4. Queued' = Queued \ {queue[1]}
      <4>1. \A x \in Queued' : x \in Queued \ {queue[1]}
        BY <3>2 DEF Queued
      <4>2. \A x \in Queued \ {queue[1]} : x \in Queued'
        BY <3>3 DEF Queued
      <4> QED BY <4>1, <4>2
    <3> QED BY <2>2, <3>1, <3>4
  <2> QED BY <1>1, <2>2, <2>3, <2>4 DEF TakeHead, Hand
<1>2. CASE TakeTail(t)
  <2> DEFINE n == Len(queue)
  <2>1. /\ queue \in Seq(Skbs) /\ queue # <<>> /\ n \in Nat /\ n >= 1
        /\ queue' = SubSeq(queue, 1, n - 1)
    BY <1>2, EmptySeq, LenProperties DEF TakeTail, Inv, FifoTypeOK
  <2>2. /\ queue' \in Seq(Skbs) /\ Len(queue') = n - 1
        /\ \A i \in 1 .. Len(queue') : queue'[i] = queue[i]
    <3>1. \A i \in 1 .. n - 1 : queue[i] \in Skbs
      BY <2>1, LenProperties
    <3>2. /\ SubSeq(queue, 1, n - 1) \in Seq(Skbs)
          /\ Len(SubSeq(queue, 1, n - 1)) = IF 1 <= n - 1 THEN n - 1 - 1 + 1 ELSE 0
          /\ \A i \in 1 .. n - 1 - 1 + 1 : SubSeq(queue, 1, n - 1)[i] = queue[1 + i - 1]
      BY <2>1, <3>1, SubSeqProperties
    <3> DEFINE q == SubSeq(queue, 1, n - 1)
    <3>3. q \in Seq(Skbs) /\ queue' = q
      BY <2>1, <3>2
    <3>4. Len(q) = n - 1
      <4>1. n \in Nat /\ n >= 1 /\ Len(q) = IF 1 <= n - 1 THEN n - 1 - 1 + 1 ELSE 0
        BY <2>1, <3>2, Zenon
      <4> HIDE DEF q, n
      <4> QED BY <4>1
    <3>5. ASSUME NEW i \in 1 .. n - 1
          PROVE  q[i] = queue[i]
      <4>1. i \in 1 .. n - 1 - 1 + 1 /\ 1 + i - 1 = i
        BY <2>1
      <4>2. q[i] = queue[1 + i - 1]
        BY <3>2, <4>1
      <4> QED BY <4>1, <4>2
    <3> HIDE DEF q
    <3> QED BY <3>3, <3>4, <3>5
  <2>3. queue[n] \in Queued
    BY <2>1 DEF Queued
  <2>4. /\ Queued' = Queued \ {queue[n]}
        /\ \A i, j \in 1 .. Len(queue') : queue'[i] = queue'[j] => i = j
    <3>1. \A i, j \in 1 .. n : queue[i] = queue[j] => i = j
      BY DEF Inv, OnePlace
    <3>2. ASSUME NEW i \in 1 .. n - 1
          PROVE  i \in 1 .. n /\ queue'[i] = queue[i] /\ queue[i] # queue[n]
      BY <2>1, <2>2, <3>1
    <3>3. \A i \in 1 .. n : queue[i] # queue[n] => i \in 1 .. n - 1
      BY <2>1
    <3>4. Queued' = Queued \ {queue[n]}
      BY <2>2, <3>2, <3>3 DEF Queued
    <3> QED BY <2>2, <3>1, <3>2, <3>4
  <2> QED BY <1>2, <2>2, <2>3, <2>4 DEF TakeTail, Hand
<1> QED BY <1>1, <1>2

(* Putting a packet in at either end adds it to the others.                *)
LEMMA PutAdds ==
  ASSUME NEW t \in Threads, NEW s \in Skbs, Inv, PutTail(t, s) \/ PutHead(t, s)
  PROVE  /\ queue' \in Seq(Skbs)
         /\ Queued' = Queued \cup {s}
         /\ \A i, j \in 1 .. Len(queue') : queue'[i] = queue'[j] => i = j
<1>1. queue \in Seq(Skbs) /\ Len(queue) \in Nat /\ s \notin Queued
  BY LenProperties
     DEF PutTail, PutHead, Holds, Inv, FifoTypeOK, OnePlace, Held
<1>2. \A i \in 1 .. Len(queue) : queue[i] # s
  BY <1>1 DEF Queued
<1>3. CASE PutTail(t, s)
  <2>1. queue' = Append(queue, s)
    BY <1>3 DEF PutTail
  <2>2. /\ queue' \in Seq(Skbs) /\ Len(queue') = Len(queue) + 1
        /\ \A i \in 1 .. Len(queue) : queue'[i] = queue[i]
        /\ queue'[Len(queue) + 1] = s
    BY <1>1, <2>1, AppendProperties
  <2>3. Queued' = Queued \cup {s}
    <3>1. 1 .. Len(queue') = 1 .. Len(queue) \cup {Len(queue) + 1}
      BY <1>1, <2>2
    <3> QED BY <2>2, <3>1 DEF Queued
  <2> QED BY <1>1, <1>2, <2>2, <2>3 DEF Inv, OnePlace
<1>4. CASE PutHead(t, s)
  <2>1. queue' = <<s>> \o queue
    BY <1>4 DEF PutHead
  <2>2. /\ queue' \in Seq(Skbs) /\ Len(queue') = Len(queue) + 1
        /\ queue'[1] = s
        /\ \A i \in 2 .. Len(queue) + 1 : queue'[i] = queue[i - 1]
    BY <1>1, <2>1, ConcatProperties
  <2>3. Queued' = Queued \cup {s}
    <3>1. 1 .. Len(queue') = {1} \cup 2 .. Len(queue) + 1
      BY <1>1, <2>2
    <3>2. \A i \in 1 .. Len(queue) : i + 1 \in 2 .. Len(queue) + 1 /\ (i + 1) - 1 = i
      BY <1>1
    <3>3. \A i \in 2 .. Len(queue) + 1 : i - 1 \in 1 .. Len(queue)
      BY <1>1
    <3>4. \A i \in 1 .. Len(queue) : queue'[i + 1] = queue[i]
      BY <2>2, <3>2
    <3> QED BY <2>2, <3>1, <3>2, <3>3, <3>4 DEF Queued
  <2>4. ASSUME NEW i \in 1 .. Len(queue'), NEW j \in 1 .. Len(queue'),
               queue'[i] = queue'[j]
        PROVE  i = j
    <3>1. \A k, l \in 1 .. Len(queue) : queue[k] = queue[l] => k = l
      BY DEF Inv, OnePlace
    <3>2. CASE i = 1 \/ j = 1
      <4>1. ASSUME NEW k \in 2 .. Len(queue) + 1
            PROVE  queue'[k] # s
        BY <1>1, <1>2, <2>2
      <4>2. queue'[i] = s /\ queue'[j] = s
        BY <2>2, <2>4, <3>2
      <4>3. i \notin 2 .. Len(queue) + 1 /\ j \notin 2 .. Len(queue) + 1
        BY <4>1, <4>2
      <4> QED BY <1>1, <2>2, <4>3
    <3>3. CASE i # 1 /\ j # 1
      <4>1. i - 1 \in 1 .. Len(queue) /\ j - 1 \in 1 .. Len(queue)
        BY <1>1, <2>2, <3>3
      <4>2. queue[i - 1] = queue[j - 1]
        BY <1>1, <2>2, <2>4, <3>3
      <4> QED BY <1>1, <3>1, <4>1, <4>2
    <3> QED BY <3>2, <3>3
  <2> QED BY <2>2, <2>3, <2>4
<1> QED BY <1>3, <1>4

(* Every step keeps each packet in one place.                              *)
LEMMA NextInv == Inv /\ [FifoNext]_fifoVars => Inv'
<1> SUFFICES ASSUME Inv, [FifoNext]_fifoVars PROVE Inv'
  OBVIOUS
<1>0. NoSkb \notin Skbs /\ FifoTypeOK /\ OnePlace
  BY DEF Inv
<1>1. ASSUME NEW t \in Threads, TakeHead(t) \/ TakeTail(t)
      PROVE  Inv'
  <2>1. PICK s \in Queued :
           /\ hand' = [hand EXCEPT ![t] = s] /\ hand[t] = NoSkb
           /\ queue' \in Seq(Skbs)
           /\ Queued' = Queued \ {s}
           /\ \A i, j \in 1 .. Len(queue') : queue'[i] = queue'[j] => i = j
    BY <1>1, TakenLeaves
  <2>2. free' = free /\ s \in Skbs
    BY <1>0, <1>1, LenProperties DEF TakeHead, TakeTail, FifoTypeOK, Queued
  <2>3. s \notin Held /\ s \notin free
    BY <1>0 DEF OnePlace
  <2>4. Held' = Held \cup {s}
    BY <1>0, <2>1, <2>2 DEF Held, FifoTypeOK
  <2>5. \A u, v \in Threads : hand'[u] = hand'[v] /\ hand'[u] # NoSkb => u = v
    <3>1. \A u \in Threads : hand[u] # s
      BY <1>0, <2>2, <2>3 DEF Held
    <3> QED BY <1>0, <2>1, <3>1 DEF OnePlace, FifoTypeOK
  <2>6. FifoTypeOK'
    BY <1>0, <2>1, <2>2 DEF FifoTypeOK
  <2>7. OnePlace'
    BY <1>0, <2>1, <2>2, <2>3, <2>4, <2>5 DEF OnePlace
  <2> QED BY <1>0, <2>6, <2>7 DEF Inv
<1>2. ASSUME NEW t \in Threads, NEW s \in Skbs, PutTail(t, s) \/ PutHead(t, s)
      PROVE  Inv'
  <2>1. /\ queue' \in Seq(Skbs)
        /\ Queued' = Queued \cup {s}
        /\ \A i, j \in 1 .. Len(queue') : queue'[i] = queue'[j] => i = j
    BY <1>2, PutAdds
  <2>2. /\ free' = free /\ hand' = [hand EXCEPT ![t] = NoSkb] /\ hand[t] = s
        /\ s # NoSkb
    BY <1>2 DEF PutTail, PutHead, Holds, Hand
  <2>3. s \in Held /\ Held' = Held \ {s}
    BY <1>0, <2>2 DEF Held, OnePlace, FifoTypeOK
  <2>4. \A u, v \in Threads : hand'[u] = hand'[v] /\ hand'[u] # NoSkb => u = v
    BY <1>0, <2>2 DEF OnePlace, FifoTypeOK
  <2>5. FifoTypeOK'
    BY <1>0, <2>1, <2>2 DEF FifoTypeOK
  <2>6. OnePlace'
    BY <1>0, <2>1, <2>2, <2>3, <2>4 DEF OnePlace
  <2> QED BY <1>0, <2>5, <2>6 DEF Inv
<1>3. ASSUME NEW t \in Threads, NEW s \in Skbs, Alloc(t, s)
      PROVE  Inv'
  <2>1. /\ queue' = queue /\ Queued' = Queued /\ free' = free \ {s} /\ s \in free
        /\ hand' = [hand EXCEPT ![t] = s] /\ hand[t] = NoSkb
    BY <1>3 DEF Alloc, Hand, Queued
  <2>2. s \notin Held /\ s \notin Queued /\ Held' = Held \cup {s}
    BY <1>0, <2>1 DEF OnePlace, Held, FifoTypeOK
  <2>3. \A u \in Threads : hand[u] # s
    BY <1>0, <2>2 DEF Held
  <2>4. \A u, v \in Threads : hand'[u] = hand'[v] /\ hand'[u] # NoSkb => u = v
    BY <1>0, <2>1, <2>3 DEF OnePlace, FifoTypeOK
  <2>5. FifoTypeOK'
    BY <1>0, <2>1 DEF FifoTypeOK
  <2>6. OnePlace'
    BY <1>0, <2>1, <2>2, <2>4 DEF OnePlace
  <2> QED BY <1>0, <2>5, <2>6 DEF Inv
<1>4. ASSUME NEW t \in Threads, NEW s \in Skbs, Free(t, s)
      PROVE  Inv'
  <2>1. /\ queue' = queue /\ Queued' = Queued /\ free' = free \cup {s}
        /\ hand' = [hand EXCEPT ![t] = NoSkb] /\ hand[t] = s /\ s # NoSkb
    BY <1>4 DEF Free, Hand, Holds, Queued
  <2>2. s \in Held /\ Held' = Held \ {s}
    BY <1>0, <2>1 DEF OnePlace, Held, FifoTypeOK
  <2>3. \A u, v \in Threads : hand'[u] = hand'[v] /\ hand'[u] # NoSkb => u = v
    BY <1>0, <2>1 DEF OnePlace, FifoTypeOK
  <2>4. FifoTypeOK'
    BY <1>0, <2>1 DEF FifoTypeOK
  <2>5. OnePlace'
    BY <1>0, <2>1, <2>2, <2>3 DEF OnePlace
  <2> QED BY <1>0, <2>4, <2>5 DEF Inv
<1>5. CASE UNCHANGED fifoVars
  BY <1>0, <1>5 DEF fifoVars, Inv, FifoTypeOK, OnePlace, Queued, Held
<1> QED BY <1>1, <1>2, <1>3, <1>4, <1>5 DEF FifoNext

(* No packet is queued twice, queued while a thread works on it, or freed  *)
(* while it is queued or held: what every user of skb_dequeue,             *)
(* skb_queue_tail and kfree_skb relies on.                                 *)
THEOREM FifoOnePlace ==
  ASSUME NoSkb \notin Skbs
  PROVE  FifoSpec => []OnePlace
<1>1. FifoInit => Inv
  <2> SUFFICES ASSUME FifoInit PROVE Inv
    OBVIOUS
  <2>1. FifoTypeOK
    BY EmptySeq DEF FifoInit, FifoTypeOK
  <2>2. OnePlace
    BY EmptySeq DEF FifoInit, OnePlace, Queued, Held
  <2> QED BY <2>1, <2>2 DEF Inv
<1>2. Inv => OnePlace
  BY DEF Inv
<1> QED BY <1>1, <1>2, NextInv, PTL DEF FifoSpec
=============================================================================
