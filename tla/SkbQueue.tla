------------------------------ MODULE SkbQueue ------------------------------
(***************************************************************************)
(* The doubly linked packet queue of src/common/fm_skbuff.c, store by      *)
(* store: a thread takes list->lock, changes the links and qlen, and gives *)
(* the lock back. The list head is a node of the ring. Two stores of       *)
(* __skb_insert, next->prev = prev->next = newsk, may happen in either     *)
(* order.                                                                  *)
(***************************************************************************)
EXTENDS Integers, Sequences, FiniteSets

CONSTANTS
  Threads,
  Skbs,
  List,       \* the sk_buff_head, seen as a node of the ring
  NoSkb,      \* NULL
  NoThread    \* nobody holds the lock

Nodes == Skbs \cup {List}

ASSUME RingAssumption ==
  List \notin Skbs /\ NoSkb \notin Nodes /\ NoThread \notin Threads /\ IsFiniteSet(Skbs)

VARIABLES
  next, prev, qlen, lock,   \* the ring
  pc, skb, nx, pv,          \* each thread: step, packet, locals next and prev
  free                      \* packets not allocated

ring   == <<next, prev, qlen>>
locals == <<skb, nx, pv>>
vars   == <<ring, lock, pc, locals, free>>

Init ==
  /\ next = [n \in Nodes |-> IF n = List THEN List ELSE NoSkb]
  /\ prev = [n \in Nodes |-> IF n = List THEN List ELSE NoSkb]
  /\ qlen = 0 /\ lock = NoThread
  /\ pc  = [t \in Threads |-> "idle"]
  /\ skb = [t \in Threads |-> NoSkb]
  /\ nx  = [t \in Threads |-> NoSkb]
  /\ pv  = [t \in Threads |-> NoSkb]
  /\ free = Skbs

Goto(t, step) == pc' = [pc EXCEPT ![t] = step]

alloc_skb(t, s) ==
  /\ pc[t] = "idle" /\ skb[t] = NoSkb /\ s \in free
  /\ free' = free \ {s}
  /\ skb' = [skb EXCEPT ![t] = s]
  /\ UNCHANGED <<ring, lock, pc, nx, pv>>

kfree_skb(t) ==
  /\ pc[t] = "idle" /\ skb[t] # NoSkb
  /\ free' = free \cup {skb[t]}
  /\ skb' = [skb EXCEPT ![t] = NoSkb]
  /\ UNCHANGED <<ring, lock, pc, nx, pv>>

----------------------------------------------------------------------------
(* skb_queue_tail and skb_queue_head take the lock and pick the two        *)
(* neighbours ...                                                          *)
Between(t, p, n) ==
  /\ pc[t] = "idle" /\ skb[t] # NoSkb /\ lock = NoThread
  /\ lock' = t
  /\ pv' = [pv EXCEPT ![t] = p] /\ nx' = [nx EXCEPT ![t] = n]
  /\ Goto(t, "insert")
  /\ UNCHANGED <<ring, skb, free>>

(* Mutant: the queue is read before the lock is taken, as if it were empty.*)
QueueTailStale(t) == Between(t, List, List)

skb_queue_tail(t) == Between(t, prev[List], List)
skb_queue_head(t) == Between(t, List, next[List])

(* ... and __skb_insert stores the links and counts.                       *)
InsertOwn(t) ==
  /\ pc[t] = "insert"
  /\ next' = [next EXCEPT ![skb[t]] = nx[t]]
  /\ prev' = [prev EXCEPT ![skb[t]] = pv[t]]
  /\ Goto(t, "link")
  /\ UNCHANGED <<qlen, lock, locals, free>>

LinkNext(t) ==
  /\ pc[t] \in {"link", "linknext"}
  /\ next' = [next EXCEPT ![pv[t]] = skb[t]]
  /\ Goto(t, IF pc[t] = "link" THEN "linkprev" ELSE "count")
  /\ UNCHANGED <<prev, qlen, lock, locals, free>>

(* Mutant: next->prev is left as it was.                                   *)
LinkPrevNot(t) ==
  /\ pc[t] \in {"link", "linkprev"}
  /\ Goto(t, IF pc[t] = "link" THEN "linknext" ELSE "count")
  /\ UNCHANGED <<ring, lock, locals, free>>

LinkPrev(t) ==
  /\ pc[t] \in {"link", "linkprev"}
  /\ prev' = [prev EXCEPT ![nx[t]] = skb[t]]
  /\ Goto(t, IF pc[t] = "link" THEN "linknext" ELSE "count")
  /\ UNCHANGED <<next, qlen, lock, locals, free>>

Release(t) == lock' = NoThread /\ Goto(t, "idle")

InsertCount(t) ==
  /\ pc[t] = "count"
  /\ qlen' = qlen + 1
  /\ skb' = [skb EXCEPT ![t] = NoSkb]
  /\ Release(t)
  /\ UNCHANGED <<next, prev, nx, pv, free>>

----------------------------------------------------------------------------
(* skb_dequeue and skb_dequeue_tail take the lock and peek; an empty queue *)
(* gives NULL. __skb_unlink counts, remembers the neighbours, clears the   *)
(* packet's links and closes the ring.                                     *)
(* Mutant: the peek does not tell the list head from a packet.             *)
UnlinkUntested(t, s) ==
  /\ pc[t] = "idle" /\ skb[t] = NoSkb /\ lock = NoThread
  /\ lock' = t
  /\ qlen' = qlen - 1
  /\ skb' = [skb EXCEPT ![t] = s]
  /\ nx' = [nx EXCEPT ![t] = next[s]] /\ pv' = [pv EXCEPT ![t] = prev[s]]
  /\ Goto(t, "clear")
  /\ UNCHANGED <<next, prev, free>>

Unlink(t, s) ==
  /\ pc[t] = "idle" /\ skb[t] = NoSkb /\ lock = NoThread
  /\ s # List
  /\ lock' = t
  /\ qlen' = qlen - 1
  /\ skb' = [skb EXCEPT ![t] = s]
  /\ nx' = [nx EXCEPT ![t] = next[s]] /\ pv' = [pv EXCEPT ![t] = prev[s]]
  /\ Goto(t, "clear")
  /\ UNCHANGED <<next, prev, free>>

skb_dequeue(t)      == Unlink(t, next[List])
skb_dequeue_tail(t) == Unlink(t, prev[List])

ClearOwn(t) ==
  /\ pc[t] = "clear"
  /\ next' = [next EXCEPT ![skb[t]] = NoSkb]
  /\ prev' = [prev EXCEPT ![skb[t]] = NoSkb]
  /\ Goto(t, "closeprev")
  /\ UNCHANGED <<qlen, lock, locals, free>>

(* Mutant: the lock is given back before the ring is closed.               *)
ClosePrevUnlocked(t) ==
  /\ pc[t] = "closeprev"
  /\ prev' = [prev EXCEPT ![nx[t]] = pv[t]]
  /\ lock' = NoThread /\ Goto(t, "closenext")
  /\ UNCHANGED <<next, qlen, locals, free>>

ClosePrev(t) ==
  /\ pc[t] = "closeprev"
  /\ prev' = [prev EXCEPT ![nx[t]] = pv[t]]
  /\ Goto(t, "closenext")
  /\ UNCHANGED <<next, qlen, lock, locals, free>>

(* Mutant: prev->next is left at the packet that was taken.                *)
CloseNextNot(t) ==
  /\ pc[t] = "closenext"
  /\ Release(t)
  /\ UNCHANGED <<ring, locals, free>>

CloseNext(t) ==
  /\ pc[t] = "closenext"
  /\ next' = [next EXCEPT ![pv[t]] = nx[t]]
  /\ Release(t)
  /\ UNCHANGED <<prev, qlen, locals, free>>

----------------------------------------------------------------------------
Put(t)  == skb_queue_tail(t) \/ skb_queue_head(t) \/ InsertOwn(t) \/ LinkNext(t)
           \/ LinkPrev(t) \/ InsertCount(t)
Take(t) == skb_dequeue(t) \/ skb_dequeue_tail(t) \/ ClearOwn(t) \/ ClosePrev(t)
           \/ CloseNext(t)

Next == \E t \in Threads :
          Put(t) \/ Take(t) \/ kfree_skb(t) \/ \E s \in Skbs : alloc_skb(t, s)

Spec == Init /\ [][Next]_vars

----------------------------------------------------------------------------
(* The nodes met from the list head on, following succ.                    *)
Follow(succ) ==
  LET at[k \in 0 .. Cardinality(Skbs)] ==
        IF k = 0 THEN succ[List]
        ELSE IF at[k - 1] \in Skbs THEN succ[at[k - 1]] ELSE at[k - 1]
      len == Cardinality({k \in DOMAIN at : at[k] \in Skbs})
  IN  [k \in 1 .. len |-> at[k - 1]]

(* The packet a thread is taking out keeps its place in the queue until    *)
(* the ring is closed behind it, though its own links are cleared before.  *)
Successor == [n \in Nodes |->
  IF \E t \in Threads : pc[t] \in {"closeprev", "closenext"} /\ skb[t] = n
  THEN nx[CHOOSE t \in Threads : pc[t] \in {"closeprev", "closenext"} /\ skb[t] = n]
  ELSE next[n]]

(* A thread holds the packet it puts in until prev->next leads to it.      *)
InHand(t) == IF pc[t] \in {"idle", "insert", "link", "linknext"} THEN skb[t] ELSE NoSkb

Fifo == INSTANCE SkbFifo WITH queue <- Follow(Successor),
                              hand  <- [t \in Threads |-> InHand(t)],
                              free  <- free

(* Every variable stays within its type.                                   *)
TypeOK ==
  /\ next \in [Nodes -> Nodes \cup {NoSkb}] /\ prev \in [Nodes -> Nodes \cup {NoSkb}]
  /\ qlen \in Nat
  /\ lock \in Threads \cup {NoThread}
  /\ pc \in [Threads -> {"idle", "insert", "link", "linknext", "linkprev", "count",
                         "clear", "closeprev", "closenext"}]
  /\ skb \in [Threads -> Skbs \cup {NoSkb}]
  /\ nx \in [Threads -> Nodes \cup {NoSkb}] /\ pv \in [Threads -> Nodes \cup {NoSkb}]
  /\ free \subseteq Skbs

(* The pointer stores under the lock implement a queue whose operations    *)
(* take one step each: puts take effect when prev->next is stored, takes   *)
(* when the ring is closed.                                                *)
ImplementsFifo == Fifo!FifoSpec

(* Every packet is at one place of the ring, in one hand, or free, at      *)
(* every store of every operation.                                         *)
PacketsInOnePlace == Fifo!OnePlace

(* Whenever the lock is free the ring is whole: the prev links lead the    *)
(* way back that the next links lead on, and qlen is its length.           *)
RingIsWhole ==
  LET on == Follow(next) back == Follow(prev) IN
  lock = NoThread =>
    /\ Len(back) = Len(on)
    /\ \A k \in 1 .. Len(on) : back[k] = on[Len(on) + 1 - k]
    /\ qlen = Len(on)

(* Whenever the lock is free, a packet that is neither free nor in a hand  *)
(* has two neighbours in the queue that point back to it, and qlen counts  *)
(* these packets: no store is lost between two threads, and none takes a   *)
(* packet along that another thread holds (fm_skbuff.c:25-70, 128-159).    *)
Queued == Nodes \ (free \cup {skb[t] : t \in Threads})
NeighboursAgree ==
  lock = NoThread =>
    /\ \A n \in Queued : /\ next[n] \in Queued /\ prev[next[n]] = n
                         /\ prev[n] \in Queued /\ next[prev[n]] = n
    /\ qlen = Cardinality(Queued) - 1
=============================================================================
