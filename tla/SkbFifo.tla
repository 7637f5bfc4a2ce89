------------------------------ MODULE SkbFifo ------------------------------
(***************************************************************************)
(* What a packet queue (struct sk_buff_head, src/common/fm_skbuff.c)       *)
(* promises the threads that share it: they put packets at either end and  *)
(* take them from either end, each in one step; a packet is allocated,     *)
(* passed from hand to hand through the queue, and freed.                  *)
(***************************************************************************)
EXTENDS Naturals, Sequences

CONSTANTS
  Threads,
  Skbs,
  NoSkb       \* an empty hand, no member of Skbs

VARIABLES
  queue,      \* the packets queued, in order
  hand,       \* the packet each thread holds
  free        \* the packets that are not allocated

fifoVars == <<queue, hand, free>>

FifoInit ==
  /\ queue = <<>>
  /\ hand = [t \in Threads |-> NoSkb]
  /\ free = Skbs

Holds(t, s)  == hand[t] = s /\ s # NoSkb
Hand(t, s)   == hand' = [hand EXCEPT ![t] = s]

Alloc(t, s) ==
  /\ hand[t] = NoSkb /\ s \in free
  /\ Hand(t, s) /\ free' = free \ {s} /\ UNCHANGED queue

Free(t, s) ==
  /\ Holds(t, s)
  /\ Hand(t, NoSkb) /\ free' = free \cup {s} /\ UNCHANGED queue

PutTail(t, s) ==
  /\ Holds(t, s)
  /\ Hand(t, NoSkb) /\ queue' = Append(queue, s) /\ UNCHANGED free

PutHead(t, s) ==
  /\ Holds(t, s)
  /\ Hand(t, NoSkb) /\ queue' = <<s>> \o queue /\ UNCHANGED free

TakeHead(t) ==
  /\ hand[t] = NoSkb /\ queue # <<>>
  /\ Hand(t, Head(queue)) /\ queue' = Tail(queue) /\ UNCHANGED free

TakeTail(t) ==
  /\ hand[t] = NoSkb /\ queue # <<>>
  /\ Hand(t, queue[Len(queue)])
  /\ queue' = SubSeq(queue, 1, Len(queue) - 1)
  /\ UNCHANGED free

FifoNext ==
  \E t \in Threads :
    \/ TakeHead(t) \/ TakeTail(t)
    \/ \E s \in Skbs : Alloc(t, s) \/ Free(t, s) \/ PutTail(t, s) \/ PutHead(t, s)

FifoSpec == FifoInit /\ [][FifoNext]_fifoVars

FifoTypeOK ==
  /\ queue \in Seq(Skbs)
  /\ hand \in [Threads -> Skbs \cup {NoSkb}]
  /\ free \subseteq Skbs

(* A packet is in one place, no fewer and no more: at one position of the  *)
(* queue, in one hand, or free. None is lost, no two threads work on one   *)
(* packet, and none is freed while it is queued (skb_dequeue,              *)
(* skb_queue_tail, kfree_skb).                                             *)
Queued == {queue[i] : i \in 1 .. Len(queue)}
Held   == {hand[t] : t \in Threads} \ {NoSkb}
OnePlace ==
  /\ \A i, j \in 1 .. Len(queue) : queue[i] = queue[j] => i = j
  /\ \A t, u \in Threads : hand[t] = hand[u] /\ hand[t] # NoSkb => t = u
  /\ Queued \cap Held = {} /\ Queued \cap free = {} /\ Held \cap free = {}
  /\ Skbs = Queued \cup Held \cup free
=============================================================================
