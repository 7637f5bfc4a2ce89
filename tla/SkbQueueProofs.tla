--------------------------- MODULE SkbQueueProofs ---------------------------
(***************************************************************************)
(* Proofs about the stores of the packet queue, for any number of threads  *)
(* and packets: the ring is one, in the order the queue promises.          *)
(***************************************************************************)
EXTENDS SkbQueue, FiniteSetTheorems, WellFoundedInduction, TLAPS

----------------------------------------------------------------------------
(* A ring of nodes, and that a node is put in and taken out of it. Only    *)
(* the values at its own nodes matter.                                     *)
Ring(S, N, P) == \A n \in S : N[n] \in S /\ P[N[n]] = n /\ P[n] \in S /\ N[P[n]] = n

Inserted(S, N, P, p, n, s, N2, P2) ==
  /\ Ring(S, N, P) /\ p \in S /\ n \in S /\ s \notin S /\ N[p] = n
  /\ N2[p] = s /\ N2[s] = n /\ \A m \in S \ {p} : N2[m] = N[m]
  /\ P2[n] = s /\ P2[s] = p /\ \A m \in S \ {n} : P2[m] = P[m]

Removed(S, N, P, s, N2, P2) ==
  /\ Ring(S, N, P) /\ s \in S /\ N[s] # s
  /\ N2[P[s]] = N[s] /\ \A m \in S \ {P[s], s} : N2[m] = N[m]
  /\ P2[N[s]] = P[s] /\ \A m \in S \ {N[s], s} : P2[m] = P[m]

LEMMA RingInsert ==
  ASSUME NEW S, NEW N, NEW P, NEW p, NEW n, NEW s, NEW N2, NEW P2,
         Inserted(S, N, P, p, n, s, N2, P2)
  PROVE  Ring(S \cup {s}, N2, P2)
<1> USE DEF Inserted
<1>1. P[n] = p
  BY DEF Ring
<1>2. ASSUME NEW m \in S PROVE N2[m] \in S \cup {s} /\ P2[N2[m]] = m
  <2>1. CASE m = p
    BY <2>1
  <2>2. CASE m # p
    BY <1>1, <2>2 DEF Ring
  <2> QED
    BY <2>1, <2>2
<1>3. ASSUME NEW m \in S PROVE P2[m] \in S \cup {s} /\ N2[P2[m]] = m
  <2>1. CASE m = n
    BY <2>1
  <2>2. CASE m # n
    BY <1>1, <2>2 DEF Ring
  <2> QED
    BY <2>1, <2>2
<1> QED
  BY <1>2, <1>3 DEF Ring

LEMMA RingRemove ==
  ASSUME NEW S, NEW N, NEW P, NEW s, NEW N2, NEW P2, Removed(S, N, P, s, N2, P2)
  PROVE  N[s] \in S \ {s} /\ P[s] \in S \ {s} /\ Ring(S \ {s}, N2, P2)
<1> USE DEF Removed
<1>1. N[s] \in S \ {s} /\ P[s] \in S \ {s}
  BY DEF Ring
<1>2. ASSUME NEW m \in S \ {s} PROVE N2[m] \in S \ {s} /\ P2[N2[m]] = m
  <2>1. CASE m = P[s]
    BY <1>1, <2>1
  <2>2. CASE m # P[s]
    BY <1>1, <2>2 DEF Ring
  <2> QED
    BY <2>1, <2>2
<1>3. ASSUME NEW m \in S \ {s} PROVE P2[m] \in S \ {s} /\ N2[P2[m]] = m
  <2>1. CASE m = N[s]
    BY <1>1, <2>1
  <2>2. CASE m # N[s]
    BY <1>1, <2>2 DEF Ring
  <2> QED
    BY <2>1, <2>2
<1> QED
  BY <1>1, <1>2, <1>3 DEF Ring

----------------------------------------------------------------------------
(* The invariant. The packets between two neighbours are put in or taken   *)
(* out by the thread that has the lock; the ring as it would be without    *)
(* its packet is whole at every store.                                     *)
Types ==
  /\ next \in [Nodes -> Nodes \cup {NoSkb}] /\ prev \in [Nodes -> Nodes \cup {NoSkb}]
  /\ qlen \in Int
  /\ lock \in Threads \cup {NoThread}
  /\ pc \in [Threads -> {"idle", "insert", "link", "linknext", "linkprev", "count",
                         "clear", "closeprev", "closenext"}]
  /\ skb \in [Threads -> Skbs \cup {NoSkb}]
  /\ nx \in [Threads -> Nodes \cup {NoSkb}] /\ pv \in [Threads -> Nodes \cup {NoSkb}]
  /\ free \subseteq Skbs

Held ==
  /\ \A t \in Threads : pc[t] # "idle" => lock = t /\ skb[t] \in Skbs
  /\ \A t \in Threads : lock = t => pc[t] # "idle"
  /\ \A t \in Threads : skb[t] \notin free
  /\ \A t, u \in Threads : t # u /\ skb[t] = skb[u] => skb[t] = NoSkb

Without ==
  /\ lock = NoThread => Ring(Queued, next, prev)
  /\ \A t \in Threads : lock = t =>
       /\ pv[t] \in Queued /\ nx[t] \in Queued
       /\ Ring(Queued, [next EXCEPT ![pv[t]] = nx[t]], [prev EXCEPT ![nx[t]] = pv[t]])

(* Which stores are done.                                                  *)
Stores == \A t \in Threads :
  /\ pc[t] = "insert" => next[pv[t]] = nx[t] /\ prev[nx[t]] = pv[t]
  /\ pc[t] \in {"link", "linknext", "linkprev", "count"} =>
       next[skb[t]] = nx[t] /\ prev[skb[t]] = pv[t]
  /\ pc[t] \in {"linkprev", "count"} => next[pv[t]] = skb[t]
  /\ pc[t] \in {"linknext", "count"} => prev[nx[t]] = skb[t]
  /\ pc[t] = "closenext" => prev[nx[t]] = pv[t]

Counted == qlen = Cardinality(Queued) - 1

Inv == Types /\ Held /\ Without /\ Stores /\ Counted

(* The list head is always queued, and the queue is finite.                *)
LEMMA QueuedFacts ==
  Types => /\ List \in Queued /\ Queued \subseteq Nodes /\ NoSkb \notin Queued
           /\ IsFiniteSet(Queued) /\ Cardinality(Queued) \in Nat \ {0}
           /\ List \in Nodes /\ Skbs \subseteq Nodes /\ NoSkb \notin Nodes
<1> SUFFICES ASSUME Types PROVE /\ List \in Queued /\ Queued \subseteq Nodes /\ NoSkb \notin Queued
           /\ IsFiniteSet(Queued) /\ Cardinality(Queued) \in Nat \ {0}
           /\ List \in Nodes /\ Skbs \subseteq Nodes /\ NoSkb \notin Nodes
  OBVIOUS
<1>1. List \in Nodes /\ Skbs \subseteq Nodes /\ NoSkb \notin Nodes /\ List \notin Skbs
  BY RingAssumption DEF Nodes
<1>2. List \in Queued /\ Queued \subseteq Nodes
  <2>1. \A t \in Threads : skb[t] # List
    BY <1>1 DEF Types
  <2> QED
    BY <1>1, <2>1 DEF Queued, Types
<1>3. IsFiniteSet(Nodes)
  BY RingAssumption, FS_AddElement DEF Nodes
<1>4. IsFiniteSet(Queued)
  BY <1>2, <1>3, FS_Subset
<1>5. Cardinality(Queued) \in Nat /\ Cardinality(Queued) # 0
  BY <1>2, <1>4, FS_CardinalityType, FS_EmptySet
<1> QED
  BY <1>1, <1>2, <1>4, <1>5

LEMMA InvImplies == Inv => TypeOK /\ NeighboursAgree
<1> SUFFICES ASSUME Inv PROVE TypeOK /\ NeighboursAgree
  OBVIOUS
<1>1. qlen \in Nat
  BY QueuedFacts DEF Inv, Counted
<1> QED
  BY <1>1 DEF Inv, Types, TypeOK, NeighboursAgree, Without, Ring, Counted

LEMMA InitInv == Init => Inv
<1> SUFFICES ASSUME Init PROVE Inv
  OBVIOUS
<1>1. List \in Nodes /\ NoSkb \notin Nodes /\ NoThread \notin Threads /\ List \notin Skbs
  BY RingAssumption DEF Nodes
<1>2. Types
  BY <1>1 DEF Init, Types
<1>3. Queued = {List}
  BY <1>1 DEF Init, Queued, Nodes
<1>4. Cardinality({List}) = 1
  BY FS_EmptySet, FS_AddElement
<1>5. next[List] = List /\ prev[List] = List
  BY <1>1 DEF Init
<1>6. Without
  BY <1>1, <1>3, <1>5 DEF Init, Without, Ring
<1>7. Held /\ Stores
  BY <1>1 DEF Init, Held, Stores, Nodes
<1> QED
  BY <1>2, <1>3, <1>4, <1>6, <1>7 DEF Init, Inv, Counted

LEMMA RingSame ==
  ASSUME NEW S, NEW N, NEW P, NEW N2, NEW P2, Ring(S, N, P),
         \A n \in S : N2[n] = N[n] /\ P2[n] = P[n]
  PROVE  Ring(S, N2, P2)
  BY DEF Ring

(* What is known of a thread that works on the ring.                       *)
LEMMA Working ==
  ASSUME Inv, NEW t \in Threads, pc[t] # "idle"
  PROVE  /\ lock = t /\ lock # NoThread /\ skb[t] \in Skbs /\ skb[t] \in Nodes
         /\ skb[t] \notin Queued /\ pv[t] \in Queued /\ nx[t] \in Queued
         /\ skb[t] # NoSkb /\ skb[t] \notin free
         /\ \A u \in Threads \ {t} : pc[u] = "idle" /\ skb[u] # skb[t]
         /\ Ring(Queued, [next EXCEPT ![pv[t]] = nx[t]], [prev EXCEPT ![nx[t]] = pv[t]])
<1>1. lock = t /\ lock # NoThread /\ skb[t] \in Skbs
  BY RingAssumption DEF Inv, Held
<1>2. skb[t] \in Nodes /\ skb[t] # NoSkb
  BY <1>1, QueuedFacts DEF Inv
<1>3. skb[t] \notin Queued
  BY DEF Queued
<1>4. \A u \in Threads \ {t} : pc[u] = "idle" /\ skb[u] # skb[t]
  BY <1>1, <1>2 DEF Inv, Held
<1> QED
  BY <1>1, <1>2, <1>3, <1>4 DEF Inv, Without, Held

(* A store of the thread that has the lock, at its packet or next to where *)
(* it is put in or was taken out.                                          *)
LEMMA StoreStep ==
  ASSUME Inv, NEW t \in Threads, pc[t] # "idle", NEW step \in
           {"insert", "link", "linknext", "linkprev", "count", "clear", "closeprev", "closenext"},
         Goto(t, step), UNCHANGED <<qlen, lock, locals, free>>,
         next' \in [Nodes -> Nodes \cup {NoSkb}], prev' \in [Nodes -> Nodes \cup {NoSkb}],
         \A n \in Nodes \ {skb[t], pv[t]} : next'[n] = next[n],
         \A n \in Nodes \ {skb[t], nx[t]} : prev'[n] = prev[n]
  PROVE  Types' /\ Held' /\ Without' /\ Counted' /\ pc'[t] = step
         /\ \A u \in Threads \ {t} : pc'[u] = "idle"
<1>1. /\ pc'[t] = step /\ \A u \in Threads \ {t} : pc'[u] = "idle"
      /\ UNCHANGED <<skb, nx, pv>>
  BY Working DEF Goto, Inv, Types, locals
<1>2. Types'
  BY <1>1 DEF Inv, Types, Goto
<1>3. Held'
  BY <1>1, Working DEF Inv, Held
<1>4. Queued' = Queued
  BY <1>1 DEF Queued
<1>5. Ring(Queued, [next' EXCEPT ![pv[t]] = nx[t]], [prev' EXCEPT ![nx[t]] = pv[t]])
  <2> DEFINE N == [next EXCEPT ![pv[t]] = nx[t]]
             P == [prev EXCEPT ![nx[t]] = pv[t]]
             N2 == [next' EXCEPT ![pv[t]] = nx[t]]
             P2 == [prev' EXCEPT ![nx[t]] = pv[t]]
  <2>1. Queued \subseteq Nodes
    BY QueuedFacts DEF Inv
  <2>2. ASSUME NEW n \in Queued PROVE N2[n] = N[n] /\ P2[n] = P[n]
    <3>1. n \in Nodes /\ n # skb[t]
      BY <2>1, Working
    <3>2. next \in [Nodes -> Nodes \cup {NoSkb}] /\ prev \in [Nodes -> Nodes \cup {NoSkb}]
      BY DEF Inv, Types
    <3>3. n # pv[t] => next'[n] = next[n]
      BY <3>1
    <3>4. n # nx[t] => prev'[n] = prev[n]
      BY <3>1
    <3> QED
      BY <3>1, <3>2, <3>3, <3>4
  <2>3. Ring(Queued, N, P)
    BY Working
  <2> HIDE DEF N, P, N2, P2
  <2>4. Ring(Queued, N2, P2)
    BY <2>2, <2>3, RingSame
  <2> QED
    BY <2>4 DEF N2, P2
<1>6. Without'
  <2>1. lock' = t /\ lock' # NoThread /\ pv[t] \in Queued /\ nx[t] \in Queued
    BY Working
  <2> QED
    BY <1>1, <1>4, <1>5, <2>1 DEF Without
<1>7. Counted'
  BY <1>4 DEF Inv, Counted
<1> QED
  BY <1>1, <1>2, <1>3, <1>6, <1>7

LEMMA InsertStoresInv ==
  ASSUME NEW t \in Threads, Inv, InsertOwn(t) \/ LinkNext(t) \/ LinkPrev(t)
  PROVE  Inv'
<1>1. /\ next \in [Nodes -> Nodes \cup {NoSkb}] /\ prev \in [Nodes -> Nodes \cup {NoSkb}]
      /\ nx[t] \in Nodes /\ pv[t] \in Nodes /\ skb[t] \in Nodes
      /\ pc[t] # "idle" /\ pc[t] \in {"insert", "link", "linkprev", "linknext"}
      /\ skb[t] # nx[t] /\ skb[t] # pv[t]
  <2>1. pc[t] # "idle" /\ pc[t] \in {"insert", "link", "linkprev", "linknext"}
    BY DEF InsertOwn, LinkNext, LinkPrev
  <2> QED
    BY <2>1, Working, QueuedFacts DEF Inv, Types
<1>2. CASE InsertOwn(t)
  <2>1. /\ next' = [next EXCEPT ![skb[t]] = nx[t]] /\ prev' = [prev EXCEPT ![skb[t]] = pv[t]]
        /\ Goto(t, "link") /\ UNCHANGED <<qlen, lock, locals, free>>
    BY <1>2 DEF InsertOwn
  <2>2. /\ next' \in [Nodes -> Nodes \cup {NoSkb}] /\ prev' \in [Nodes -> Nodes \cup {NoSkb}]
        /\ next'[skb[t]] = nx[t] /\ prev'[skb[t]] = pv[t]
        /\ \A n \in Nodes \ {skb[t], pv[t]} : next'[n] = next[n]
        /\ \A n \in Nodes \ {skb[t], nx[t]} : prev'[n] = prev[n]
    BY <1>1, <2>1
  <2>3. Types' /\ Held' /\ Without' /\ Counted' /\ pc'[t] = "link"
        /\ \A u \in Threads \ {t} : pc'[u] = "idle"
    BY <1>1, <2>1, <2>2, StoreStep
  <2>4. Stores'
    BY <2>1, <2>2, <2>3 DEF Stores, locals
  <2> QED
    BY <2>3, <2>4 DEF Inv
<1>3. CASE LinkNext(t)
  <2> DEFINE step == IF pc[t] = "link" THEN "linkprev" ELSE "count"
  <2>1. /\ next' = [next EXCEPT ![pv[t]] = skb[t]] /\ prev' = prev
        /\ Goto(t, step) /\ UNCHANGED <<qlen, lock, locals, free>>
        /\ pc[t] \in {"link", "linknext"}
    BY <1>3 DEF LinkNext
  <2>2. /\ next' \in [Nodes -> Nodes \cup {NoSkb}] /\ prev' \in [Nodes -> Nodes \cup {NoSkb}]
        /\ next'[pv[t]] = skb[t] /\ next'[skb[t]] = next[skb[t]]
        /\ \A n \in Nodes \ {skb[t], pv[t]} : next'[n] = next[n]
    BY <1>1, <2>1
  <2>3. Types' /\ Held' /\ Without' /\ Counted' /\ pc'[t] = step
        /\ \A u \in Threads \ {t} : pc'[u] = "idle"
    BY <1>1, <2>1, <2>2, StoreStep
  <2>4. Stores'
    BY <2>1, <2>2, <2>3 DEF Stores, locals, Inv
  <2> QED
    BY <2>3, <2>4 DEF Inv
<1>4. CASE LinkPrev(t)
  <2> DEFINE step == IF pc[t] = "link" THEN "linknext" ELSE "count"
  <2>1. /\ prev' = [prev EXCEPT ![nx[t]] = skb[t]] /\ next' = next
        /\ Goto(t, step) /\ UNCHANGED <<qlen, lock, locals, free>>
        /\ pc[t] \in {"link", "linkprev"}
    BY <1>4 DEF LinkPrev
  <2>2. /\ next' \in [Nodes -> Nodes \cup {NoSkb}] /\ prev' \in [Nodes -> Nodes \cup {NoSkb}]
        /\ prev'[nx[t]] = skb[t] /\ prev'[skb[t]] = prev[skb[t]]
        /\ \A n \in Nodes \ {skb[t], nx[t]} : prev'[n] = prev[n]
    BY <1>1, <2>1
  <2>3. Types' /\ Held' /\ Without' /\ Counted' /\ pc'[t] = step
        /\ \A u \in Threads \ {t} : pc'[u] = "idle"
    BY <1>1, <2>1, <2>2, StoreStep
  <2>4. Stores'
    BY <2>1, <2>2, <2>3 DEF Stores, locals, Inv
  <2> QED
    BY <2>3, <2>4 DEF Inv
<1> QED
  BY <1>2, <1>3, <1>4

LEMMA TakeStoresInv ==
  ASSUME NEW t \in Threads, Inv, ClearOwn(t) \/ ClosePrev(t)
  PROVE  Inv'
<1>1. /\ next \in [Nodes -> Nodes \cup {NoSkb}] /\ prev \in [Nodes -> Nodes \cup {NoSkb}]
      /\ nx[t] \in Nodes /\ pv[t] \in Nodes /\ skb[t] \in Nodes /\ pc[t] # "idle"
  <2>1. pc[t] # "idle"
    BY DEF ClearOwn, ClosePrev
  <2> QED
    BY <2>1, Working, QueuedFacts DEF Inv, Types
<1>2. CASE ClearOwn(t)
  <2>1. /\ next' = [next EXCEPT ![skb[t]] = NoSkb] /\ prev' = [prev EXCEPT ![skb[t]] = NoSkb]
        /\ Goto(t, "closeprev") /\ UNCHANGED <<qlen, lock, locals, free>>
    BY <1>2 DEF ClearOwn
  <2>2. /\ next' \in [Nodes -> Nodes \cup {NoSkb}] /\ prev' \in [Nodes -> Nodes \cup {NoSkb}]
        /\ \A n \in Nodes \ {skb[t], pv[t]} : next'[n] = next[n]
        /\ \A n \in Nodes \ {skb[t], nx[t]} : prev'[n] = prev[n]
    BY <1>1, <2>1
  <2>3. Types' /\ Held' /\ Without' /\ Counted' /\ pc'[t] = "closeprev"
        /\ \A u \in Threads \ {t} : pc'[u] = "idle"
    BY <1>1, <2>1, <2>2, StoreStep
  <2> QED
    BY <2>3 DEF Inv, Stores
<1>3. CASE ClosePrev(t)
  <2>1. /\ prev' = [prev EXCEPT ![nx[t]] = pv[t]] /\ next' = next
        /\ Goto(t, "closenext") /\ UNCHANGED <<qlen, lock, locals, free>>
    BY <1>3 DEF ClosePrev
  <2>2. /\ next' \in [Nodes -> Nodes \cup {NoSkb}] /\ prev' \in [Nodes -> Nodes \cup {NoSkb}]
        /\ prev'[nx[t]] = pv[t]
        /\ \A n \in Nodes \ {skb[t], nx[t]} : prev'[n] = prev[n]
    BY <1>1, <2>1
  <2>3. Types' /\ Held' /\ Without' /\ Counted' /\ pc'[t] = "closenext"
        /\ \A u \in Threads \ {t} : pc'[u] = "idle"
    BY <1>1, <2>1, <2>2, StoreStep
  <2> QED
    BY <2>1, <2>2, <2>3 DEF Inv, Stores, locals
<1> QED
  BY <1>2, <1>3

(* Nobody works on the ring while the lock is free.                        *)
LEMMA Unlocked ==
  ASSUME Inv, lock = NoThread
  PROVE  /\ \A u \in Threads : pc[u] = "idle"
         /\ NoThread \notin Threads /\ Ring(Queued, next, prev)
  BY RingAssumption DEF Inv, Held, Without

(* The list head's neighbours are as they are when the thread has the lock.*)
LEMMA PutBeginsInv ==
  ASSUME NEW t \in Threads, Inv, skb_queue_tail(t) \/ skb_queue_head(t)
  PROVE  Inv'
<1>1. PICK p \in Queued, n \in Queued : Between(t, p, n) /\ next[p] = n /\ prev[n] = p
  <2>1. List \in Queued /\ lock = NoThread
    BY QueuedFacts DEF Inv, skb_queue_tail, skb_queue_head, Between
  <2>2. Ring(Queued, next, prev)
    BY <2>1, Unlocked
  <2>3. /\ prev[List] \in Queued /\ next[prev[List]] = List
        /\ next[List] \in Queued /\ prev[next[List]] = List
    BY <2>1, <2>2 DEF Ring
  <2> QED
    BY <2>1, <2>3 DEF skb_queue_tail, skb_queue_head
<1>2. /\ p \in Nodes /\ n \in Nodes /\ Ring(Queued, next, prev)
      /\ \A u \in Threads : pc[u] = "idle"
      /\ skb[t] # NoSkb /\ skb[t] \in Skbs /\ lock' = t /\ t # NoThread
      /\ UNCHANGED <<next, prev, qlen, skb, free>>
      /\ pv'[t] = p /\ nx'[t] = n /\ pc'[t] = "insert"
      /\ \A u \in Threads \ {t} : pc'[u] = "idle"
  BY <1>1, QueuedFacts, Unlocked DEF Between, ring, Inv, Types, Goto
<1>3. Types'
  BY <1>1, <1>2 DEF Inv, Types, Between, Goto
<1>4. Held'
  BY <1>2 DEF Inv, Held
<1>5. Queued' = Queued
  BY <1>2 DEF Queued
<1>6. Without'
  <2>1. [next EXCEPT ![p] = n] = next /\ [prev EXCEPT ![n] = p] = prev
    BY <1>1, <1>2 DEF Inv, Types
  <2> QED
    BY <1>1, <1>2, <1>5, <2>1 DEF Without
<1>7. Stores'
  BY <1>1, <1>2 DEF Stores
<1>8. Counted'
  BY <1>2, <1>5 DEF Inv, Counted
<1> QED
  BY <1>3, <1>4, <1>6, <1>7, <1>8 DEF Inv

LEMMA InsertCountInv == ASSUME NEW t \in Threads, Inv, InsertCount(t) PROVE Inv'
<1> DEFINE s == skb[t]
<1>1. /\ pc[t] = "count" /\ UNCHANGED <<next, prev, nx, pv, free>> /\ qlen' = qlen + 1
      /\ lock' = NoThread /\ skb'[t] = NoSkb /\ pc'[t] = "idle"
      /\ \A u \in Threads \ {t} : skb'[u] = skb[u] /\ pc'[u] = pc[u]
  BY DEF InsertCount, Release, Goto, Inv, Types
<1>2. /\ s \in Nodes /\ s \notin Queued /\ s \notin free /\ s # NoSkb /\ NoSkb \notin Nodes
      /\ \A u \in Threads \ {t} : pc[u] = "idle" /\ skb[u] # s
      /\ pv[t] \in Queued /\ nx[t] \in Queued
      /\ Ring(Queued, [next EXCEPT ![pv[t]] = nx[t]], [prev EXCEPT ![nx[t]] = pv[t]])
  BY <1>1, Working, QueuedFacts DEF Inv
<1>3. Types'
  <2>1. qlen' \in Int
    BY <1>1 DEF Inv, Types
  <2> QED
    BY <1>1, <2>1 DEF Inv, Types, InsertCount, Release, Goto
<1>4. Held'
  BY <1>1, <1>2, RingAssumption DEF Inv, Held, Types, Nodes
<1>5. Queued' = Queued \cup {s}
  BY <1>1, <1>2 DEF Queued
<1>6. Ring(Queued \cup {s}, next, prev)
  <2> DEFINE N == [next EXCEPT ![pv[t]] = nx[t]]
             P == [prev EXCEPT ![nx[t]] = pv[t]]
  <2>1. next[pv[t]] = s /\ next[s] = nx[t] /\ prev[nx[t]] = s /\ prev[s] = pv[t]
    BY <1>1 DEF Inv, Stores
  <2>2. Queued \subseteq Nodes
    BY QueuedFacts DEF Inv
  <2>3. /\ N[pv[t]] = nx[t] /\ \A m \in Queued \ {pv[t]} : next[m] = N[m]
        /\ \A m \in Queued \ {nx[t]} : prev[m] = P[m]
    BY <1>2, <2>2 DEF Inv, Types
  <2>4. Ring(Queued, N, P) /\ pv[t] \in Queued /\ nx[t] \in Queued /\ s \notin Queued
    BY <1>2
  <2> HIDE DEF N, P, s
  <2>5. \A m \in Queued \ {nx[t]} : prev[m] = P[m]
    BY <2>3
  <2>6. N[pv[t]] = nx[t] /\ \A m \in Queued \ {pv[t]} : next[m] = N[m]
    BY <2>3
  <2>7. Inserted(Queued, N, P, pv[t], nx[t], s, next, prev)
    BY <2>1, <2>4, <2>5, <2>6 DEF Inserted
  <2> QED
    BY <2>7, RingInsert
<1>7. Without'
  BY <1>1, <1>5, <1>6, RingAssumption DEF Without
<1>8. Stores'
  BY <1>1, <1>2 DEF Stores
<1>9. Counted'
  <2>1. IsFiniteSet(Queued) /\ Cardinality(Queued) \in Nat
    BY QueuedFacts DEF Inv
  <2>2. Cardinality(Queued \cup {s}) = Cardinality(Queued) + 1
    BY <1>2, <2>1, FS_AddElement
  <2> QED
    BY <1>1, <1>5, <2>1, <2>2 DEF Inv, Counted
<1> QED
  BY <1>3, <1>4, <1>7, <1>8, <1>9 DEF Inv

(* A packet that is taken is next to the list head, so it is not its own   *)
(* neighbour.                                                              *)
LEMMA TakeBeginsInv ==
  ASSUME NEW t \in Threads, Inv, skb_dequeue(t) \/ skb_dequeue_tail(t)
  PROVE  Inv'
<1>1. PICK s \in Queued : Unlink(t, s) /\ next[s] # s
  <2>1. List \in Queued /\ lock = NoThread
    BY QueuedFacts DEF Inv, skb_dequeue, skb_dequeue_tail, Unlink
  <2>2. Ring(Queued, next, prev)
    BY <2>1, Unlocked
  <2>3. CASE skb_dequeue(t)
    <3>1. next[List] # List /\ next[List] \in Queued /\ prev[next[List]] = List
      BY <2>1, <2>2, <2>3 DEF skb_dequeue, Unlink, Ring
    <3>2. next[next[List]] # next[List]
      BY <2>1, <2>2, <3>1 DEF Ring
    <3> QED
      BY <2>3, <3>1, <3>2 DEF skb_dequeue
  <2>4. CASE skb_dequeue_tail(t)
    <3>1. prev[List] # List /\ prev[List] \in Queued /\ next[prev[List]] = List
      BY <2>1, <2>2, <2>4 DEF skb_dequeue_tail, Unlink, Ring
    <3> QED
      BY <2>4, <3>1 DEF skb_dequeue_tail
  <2> QED
    BY <2>3, <2>4
<1>2. /\ s # List /\ s \in Nodes /\ s \in Skbs /\ s # NoSkb /\ t # NoThread
      /\ Ring(Queued, next, prev)
      /\ \A u \in Threads : pc[u] = "idle"
      /\ skb[t] = NoSkb /\ lock' = t /\ UNCHANGED <<next, prev, free>>
      /\ qlen' = qlen - 1 /\ skb'[t] = s /\ nx'[t] = next[s] /\ pv'[t] = prev[s]
      /\ pc'[t] = "clear"
      /\ \A u \in Threads \ {t} : pc'[u] = "idle" /\ skb'[u] = skb[u]
  <2>1. s # List /\ s \in Nodes /\ s # NoSkb /\ lock = NoThread
    BY <1>1, QueuedFacts DEF Inv, Unlink
  <2>2. s \in Skbs
    BY <2>1 DEF Nodes
  <2> QED
    BY <1>1, <2>1, <2>2, Unlocked DEF Unlink, Inv, Types, Goto
<1>3. s \notin free /\ \A u \in Threads : skb[u] # s
  BY DEF Queued
<1>4. Types'
  <2>1. qlen' \in Int
    BY <1>2 DEF Inv, Types
  <2>2. next[s] \in Nodes \cup {NoSkb} /\ prev[s] \in Nodes \cup {NoSkb}
    BY <1>2 DEF Inv, Types
  <2> QED
    BY <1>1, <1>2, <2>1, <2>2 DEF Inv, Types, Unlink, Goto
<1>5. Held'
  BY <1>2, <1>3 DEF Inv, Held
<1>6. Queued' = Queued \ {s}
  <2>1. NoSkb \notin Nodes
    BY QueuedFacts DEF Inv
  <2> QED
    BY <1>2, <1>3, <2>1 DEF Queued
<1>7. Without'
  <2> DEFINE N2 == [next EXCEPT ![prev[s]] = next[s]]
             P2 == [prev EXCEPT ![next[s]] = prev[s]]
  <2>1. Queued \subseteq Nodes /\ next[s] \in Queued /\ prev[s] \in Queued
    BY <1>2, QueuedFacts DEF Inv, Ring
  <2>2. /\ N2[prev[s]] = next[s] /\ \A m \in Queued \ {prev[s], s} : N2[m] = next[m]
        /\ P2[next[s]] = prev[s] /\ \A m \in Queued \ {next[s], s} : P2[m] = prev[m]
    BY <2>1 DEF Inv, Types
  <2> HIDE DEF N2, P2
  <2>3. next[s] \in Queued \ {s} /\ prev[s] \in Queued \ {s} /\ Ring(Queued \ {s}, N2, P2)
    <3>1. s \in Queued /\ next[s] # s /\ Ring(Queued, next, prev)
      BY <1>1, <1>2
    <3>2. Removed(Queued, next, prev, s, N2, P2)
      BY <2>2, <3>1 DEF Removed
    <3> QED
      BY <3>2, RingRemove
  <2> QED
    BY <1>2, <1>6, <2>3 DEF Without, N2, P2
<1>8. Stores'
  BY <1>2 DEF Stores
<1>9. Counted'
  <2>1. IsFiniteSet(Queued) /\ Cardinality(Queued) \in Nat
    BY QueuedFacts DEF Inv
  <2>2. Cardinality(Queued \ {s}) = Cardinality(Queued) - 1
    BY <2>1, FS_RemoveElement
  <2> QED
    BY <1>2, <1>6, <2>1, <2>2 DEF Inv, Counted
<1> QED
  BY <1>4, <1>5, <1>7, <1>8, <1>9 DEF Inv

LEMMA CloseNextInv == ASSUME NEW t \in Threads, Inv, CloseNext(t) PROVE Inv'
<1>1. /\ pc[t] = "closenext" /\ UNCHANGED <<prev, qlen, skb, nx, pv, free>>
      /\ next' = [next EXCEPT ![pv[t]] = nx[t]]
      /\ lock' = NoThread /\ pc'[t] = "idle"
      /\ \A u \in Threads \ {t} : pc'[u] = pc[u]
  BY DEF CloseNext, Release, Goto, Inv, Types, locals
<1>2. /\ \A u \in Threads \ {t} : pc[u] = "idle"
      /\ nx[t] \in Nodes /\ pv[t] \in Nodes
      /\ Ring(Queued, [next EXCEPT ![pv[t]] = nx[t]], [prev EXCEPT ![nx[t]] = pv[t]])
  BY <1>1, Working, QueuedFacts DEF Inv
<1>3. Types'
  BY <1>1, <1>2 DEF Inv, Types, CloseNext, Release, Goto
<1>4. Held'
  BY <1>1, <1>2, RingAssumption DEF Inv, Held
<1>5. Queued' = Queued
  BY <1>1 DEF Queued
<1>6. [prev EXCEPT ![nx[t]] = pv[t]] = prev
  BY <1>1, <1>2 DEF Inv, Types, Stores
<1>7. Without'
  BY <1>1, <1>2, <1>5, <1>6, RingAssumption DEF Without
<1>8. Stores'
  BY <1>1, <1>2 DEF Stores
<1>9. Counted'
  BY <1>1, <1>5 DEF Inv, Counted
<1> QED
  BY <1>3, <1>4, <1>7, <1>8, <1>9 DEF Inv

(* A packet changes between free and a hand: the ring does not notice.     *)
LEMMA HandsInv ==
  ASSUME NEW t \in Threads, Inv, kfree_skb(t) \/ \E s \in Skbs : alloc_skb(t, s)
  PROVE  Inv'
<1>1. /\ pc[t] = "idle" /\ UNCHANGED <<next, prev, qlen, lock, pc, nx, pv>>
      /\ skb' \in [Threads -> Skbs \cup {NoSkb}] /\ free' \subseteq Skbs
      /\ \A u \in Threads \ {t} : skb'[u] = skb[u]
      /\ \/ skb[t] # NoSkb /\ skb'[t] = NoSkb /\ free' = free \cup {skb[t]}
         \/ skb[t] = NoSkb /\ skb'[t] \in free /\ free' = free \ {skb'[t]}
  BY DEF kfree_skb, alloc_skb, ring, Inv, Types
<1>2. Types'
  BY <1>1 DEF Inv, Types
<1>3. NoSkb \notin Nodes /\ NoSkb \notin Skbs
  BY QueuedFacts DEF Inv
<1>4. Held'
  <2>1. \A u \in Threads \ {t} : skb[u] \notin free'
    BY <1>1, <1>3 DEF Inv, Held
  <2>2. skb'[t] \notin free'
    BY <1>1, <1>3
  <2> QED
    BY <1>1, <2>1, <2>2 DEF Inv, Held
<1>5. Queued' = Queued
  BY <1>1, <1>3 DEF Queued
<1>6. Without'
  BY <1>1, <1>5 DEF Inv, Without
<1>7. Stores'
  <2>1. \A u \in Threads : pc[u] # "idle" => u # t
    BY <1>1
  <2> QED
    BY <1>1, <2>1 DEF Inv, Stores
<1>8. Counted'
  BY <1>1, <1>5 DEF Inv, Counted
<1> QED
  BY <1>2, <1>4, <1>6, <1>7, <1>8 DEF Inv

LEMMA NextInv == Inv /\ [Next]_vars => Inv'
<1>1. Inv /\ Next => Inv'
  BY PutBeginsInv, InsertStoresInv, InsertCountInv, TakeBeginsInv, TakeStoresInv, CloseNextInv,
     HandsInv DEF Next, Put, Take
<1>2. Inv /\ UNCHANGED vars => Inv'
  <2> SUFFICES ASSUME Inv, UNCHANGED vars PROVE Inv'
    OBVIOUS
  <2>1. Queued' = Queued
    BY DEF vars, locals, Queued
  <2>2. Types' /\ Held'
    BY DEF vars, ring, locals, Inv, Types, Held
  <2>3. Without' /\ Counted'
    BY <2>1 DEF vars, ring, locals, Inv, Without, Counted
  <2>4. Stores'
    BY DEF vars, ring, locals, Inv, Stores
  <2> QED
    BY <2>2, <2>3, <2>4 DEF Inv
<1> QED
  BY <1>1, <1>2

----------------------------------------------------------------------------
(* Induction over the natural numbers, for sets.                           *)
LEMMA LeastOfSet ==
  ASSUME NEW T \in SUBSET Nat, T # {}
  PROVE  \E n \in T : \A m \in T : n <= m
<1> DEFINE R == {ss \in Nat \X Nat : ss[1] < ss[2]}
<1>1. OpToRel(<, Nat) = R
  BY DEF OpToRel
<1>2. IsWellFoundedOn(R, Nat)
  BY <1>1, NatLessThanWellFounded
<1>3. PICK n \in T : \A m \in T : ~ (<<m, n>> \in R)
  BY <1>2, WFMin
<1>4. ASSUME NEW m \in T, m < n PROVE <<m, n>> \in R
  <2> DEFINE mn == <<m, n>>
  <2>1. mn \in Nat \X Nat /\ mn[1] = m /\ mn[2] = n
    OBVIOUS
  <2>2. mn[1] < mn[2]
    BY <1>4, <2>1
  <2> HIDE DEF mn
  <2>3. mn \in R
    BY <2>1, <2>2
  <2> QED
    BY <2>3 DEF mn
<1> HIDE DEF R
<1>5. \A m \in T : ~(m < n)
  BY <1>3, <1>4
<1> QED
  BY <1>5

LEMMA NatSetInduction ==
  ASSUME NEW S, 0 \in S, \A n \in Nat : n \in S => n + 1 \in S
  PROVE  Nat \subseteq S
<1> SUFFICES ASSUME Nat \ S # {} PROVE FALSE
  OBVIOUS
<1>1. PICK n \in Nat \ S : \A m \in Nat \ S : n <= m
  BY LeastOfSet
<1>2. n # 0 /\ n - 1 \in Nat /\ n - 1 \notin Nat \ S
  BY <1>1
<1> QED
  BY <1>1, <1>2

----------------------------------------------------------------------------
(* The packets of a ring in the order in which the links lead from the     *)
(* list head to each of them and back to it.                               *)
At(q, k) == IF k \in 1 .. Len(q) THEN q[k] ELSE List
Elems(q) == {q[k] : k \in 1 .. Len(q)}
Chain(q, S) ==
  /\ q \in Seq(Skbs)
  /\ \A i, j \in 1 .. Len(q) : q[i] = q[j] => i = j
  /\ \A k \in 0 .. Len(q) : S[At(q, k)] = At(q, k + 1)

(* A chain is no longer than there are packets.                            *)
LEMMA ChainFits ==
  ASSUME NEW q \in Seq(Skbs), \A i, j \in 1 .. Len(q) : q[i] = q[j] => i = j
  PROVE  /\ Len(q) \in Nat /\ IsFiniteSet(Elems(q)) /\ Cardinality(Elems(q)) = Len(q)
         /\ Elems(q) \subseteq Skbs
         /\ Cardinality(Skbs) \in Nat /\ Len(q) <= Cardinality(Skbs)
<1>1. Len(q) \in Nat /\ Elems(q) \subseteq Skbs /\ q \in [1 .. Len(q) -> Elems(q)]
  BY DEF Elems
<1>2. IsFiniteSet(1 .. Len(q)) /\ Cardinality(1 .. Len(q)) = Len(q)
  BY <1>1, FS_Interval
<1>3. q \in Bijection(1 .. Len(q), Elems(q))
  BY <1>1 DEF Bijection, Injection, Surjection, IsInjective, Elems
<1>4. IsFiniteSet(Elems(q)) /\ Cardinality(Elems(q)) = Len(q)
  BY <1>2, <1>3, FS_Bijection DEF ExistsBijection
<1>5. Cardinality(Skbs) \in Nat /\ Cardinality(Elems(q)) <= Cardinality(Skbs)
  BY <1>1, RingAssumption, FS_CardinalityType, FS_Subset
<1> QED
  BY <1>1, <1>4, <1>5

(* Following the links from the list head finds the chain.                 *)
LEMMA FollowChain ==
  ASSUME NEW q, NEW S, Chain(q, S)
  PROVE  Follow(S) = q
<1> DEFINE D == 0 .. Cardinality(Skbs)
           w == [k \in D |-> At(q, k + 1)]
           Step(f) == [k \in D |-> IF k = 0 THEN S[List]
                                   ELSE IF f[k - 1] \in Skbs THEN S[f[k - 1]] ELSE f[k - 1]]
           at == CHOOSE f : f = [k \in D |-> IF k = 0 THEN S[List]
                                   ELSE IF f[k - 1] \in Skbs THEN S[f[k - 1]] ELSE f[k - 1]]
<1>1. /\ q \in Seq(Skbs) /\ Len(q) \in Nat /\ Cardinality(Skbs) \in Nat
      /\ Len(q) <= Cardinality(Skbs) /\ List \notin Skbs
  BY ChainFits, RingAssumption DEF Chain
<1>2. w = Step(w)
  <2>1. ASSUME NEW k \in D PROVE w[k] = Step(w)[k]
    <3>1. CASE k = 0
      BY <1>1, <3>1 DEF Chain, At
    <3>2. CASE k # 0 /\ k <= Len(q)
      <4>1. k - 1 \in D /\ k \in 1 .. Len(q) /\ w[k - 1] = q[k] /\ q[k] \in Skbs
        BY <1>1, <3>2 DEF At
      <4>2. S[q[k]] = At(q, k + 1)
        BY <4>1 DEF Chain, At
      <4> QED
        BY <4>1, <4>2, <3>2
    <3>3. CASE k > Len(q)
      <4>1. k # 0 /\ k - 1 \in D /\ w[k - 1] = List /\ w[k] = List
        BY <1>1, <3>3 DEF At
      <4> QED
        BY <1>1, <4>1
    <3> QED
      BY <1>1, <3>1, <3>2, <3>3
  <2> QED
    BY <2>1
<1>3. ASSUME NEW f, f = Step(f) PROVE f = w
  <2> DEFINE T == {k \in Nat : k \in D => f[k] = w[k]}
  <2>1. 0 \in T
    BY <1>1, <1>2, <1>3
  <2>2. ASSUME NEW n \in Nat, n \in T PROVE n + 1 \in T
    <3> SUFFICES ASSUME n + 1 \in D PROVE f[n + 1] = w[n + 1]
      OBVIOUS
    <3>1. n \in D /\ f[n] = w[n] /\ n + 1 # 0 /\ (n + 1) - 1 = n
      BY <1>1, <2>2
    <3>2. f[n + 1] = IF f[n] \in Skbs THEN S[f[n]] ELSE f[n]
      BY <1>3, <3>1
    <3>3. w[n + 1] = IF w[n] \in Skbs THEN S[w[n]] ELSE w[n]
      BY <1>2, <3>1
    <3> QED
      BY <3>1, <3>2, <3>3
  <2> HIDE DEF T
  <2>3. Nat \subseteq T
    BY <2>1, <2>2, NatSetInduction
  <2>4. ASSUME NEW k \in D PROVE f[k] = w[k]
    <3>1. k \in Nat
      BY <1>1
    <3>2. k \in T
      BY <2>3, <3>1
    <3> QED
      BY <3>2 DEF T
  <2> QED
    BY <1>3, <2>4
<1>4. at = w
  <2>1. at = Step(at)
    BY <1>2
  <2> QED
    BY <1>3, <2>1
<1>5. {k \in DOMAIN w : w[k] \in Skbs} = 0 .. (Len(q) - 1)
  BY <1>1 DEF At
<1>6. Cardinality(0 .. (Len(q) - 1)) = Len(q)
  <2>1. Len(q) - 1 \in Int /\ 0 \in Int
    BY <1>1
  <2>2. Cardinality(0 .. (Len(q) - 1)) = IF 0 > Len(q) - 1 THEN 0 ELSE (Len(q) - 1) - 0 + 1
    BY <2>1, FS_Interval
  <2> QED
    BY <1>1, <2>2
<1>7. [k \in 1 .. Len(q) |-> w[k - 1]] = q
  BY <1>1 DEF At
<1>8. Follow(S) = [k \in 1 .. Cardinality({k \in DOMAIN at : at[k] \in Skbs}) |-> at[k - 1]]
  BY DEF Follow
<1> HIDE DEF at, w
<1> QED
  BY <1>4, <1>5, <1>6, <1>7, <1>8

(* Where the nodes of a chain are.                                         *)
LEMMA ChainFacts ==
  ASSUME NEW q, NEW S, Chain(q, S)
  PROVE  /\ q \in Seq(Skbs) /\ Len(q) \in Nat /\ Elems(q) \subseteq Skbs
         /\ List \notin Elems(q) /\ At(q, 0) = List /\ At(q, Len(q) + 1) = List
         /\ \A k \in 1 .. Len(q) : At(q, k) = q[k] /\ q[k] \in Skbs /\ q[k] \in Elems(q)
         /\ \A n \in Elems(q) \cup {List} : \E k \in 0 .. Len(q) : n = At(q, k)
         /\ \A j, k \in 0 .. Len(q) : At(q, j) = At(q, k) => j = k
<1>1. /\ q \in Seq(Skbs) /\ Len(q) \in Nat /\ Elems(q) \subseteq Skbs
      /\ List \notin Elems(q) /\ List \notin Skbs
  BY RingAssumption DEF Chain, Elems
<1>2. At(q, 0) = List /\ At(q, Len(q) + 1) = List
  BY <1>1 DEF At
<1>3. \A k \in 1 .. Len(q) : At(q, k) = q[k] /\ q[k] \in Skbs /\ q[k] \in Elems(q)
  BY <1>1 DEF At, Elems
<1>4. ASSUME NEW n \in Elems(q) \cup {List} PROVE \E k \in 0 .. Len(q) : n = At(q, k)
  <2>1. CASE n = List
    BY <1>1, <1>2, <2>1
  <2>2. CASE n \in Elems(q)
    <3>1. PICK k \in 1 .. Len(q) : n = q[k]
      BY <2>2 DEF Elems
    <3>2. k \in 0 .. Len(q) /\ n = At(q, k)
      BY <1>1, <1>3, <3>1
    <3> QED
      BY <3>2
  <2> QED
    BY <2>1, <2>2
<1>5. ASSUME NEW j \in 0 .. Len(q), NEW k \in 0 .. Len(q), At(q, j) = At(q, k) PROVE j = k
  <2>1. CASE j = 0 \/ k = 0
    BY <1>1, <1>2, <1>3, <1>5, <2>1
  <2>2. CASE j # 0 /\ k # 0
    <3>1. j \in 1 .. Len(q) /\ k \in 1 .. Len(q) /\ q[j] = q[k]
      BY <1>1, <1>3, <1>5, <2>2
    <3> QED
      BY <3>1 DEF Chain
  <2> QED
    BY <2>1, <2>2
<1> QED
  BY <1>1, <1>2, <1>3, <1>4, <1>5

(* A chain holds as long as the links of its own nodes stay as they are.   *)
LEMMA ChainSame ==
  ASSUME NEW q, NEW S, Chain(q, S), NEW S2, \A n \in Elems(q) \cup {List} : S2[n] = S[n]
  PROVE  Chain(q, S2)
<1>1. ASSUME NEW k \in 0 .. Len(q) PROVE S2[At(q, k)] = At(q, k + 1)
  <2>1. At(q, k) \in Elems(q) \cup {List}
    BY DEF At, Elems
  <2> QED
    BY <2>1 DEF Chain
<1> QED
  BY <1>1 DEF Chain

(* A packet put in at the end, or at the head, of a chain.                 *)
Apart(q, p, S, S2) == \A n \in (Elems(q) \cup {List}) \ {p} : S2[n] = S[n]

LEMMA ChainAppend ==
  ASSUME NEW q, NEW S, Chain(q, S), NEW s \in Skbs \ Elems(q), NEW S2,
         NEW p \in Elems(q) \cup {List}, S[p] = List,
         S2[p] = s, S2[s] = List, Apart(q, p, S, S2)
  PROVE  Chain(Append(q, s), S2) /\ Elems(Append(q, s)) = Elems(q) \cup {s}
<1> DEFINE r == Append(q, s)
<1>1. /\ q \in Seq(Skbs) /\ Len(q) \in Nat /\ r \in Seq(Skbs) /\ Len(r) = Len(q) + 1
      /\ r[Len(q) + 1] = s /\ \A k \in 1 .. Len(q) : r[k] = q[k]
      /\ s # List
  BY ChainFacts, RingAssumption
<1> HIDE DEF r
<1>2. p = At(q, Len(q))
  <2>1. PICK k \in 0 .. Len(q) : p = At(q, k)
    BY ChainFacts
  <2>2. At(q, k + 1) = List
    BY <2>1 DEF Chain
  <2>3. k = Len(q)
    <3>1. ASSUME k # Len(q) PROVE FALSE
      <4>1. k + 1 \in 1 .. Len(q)
        BY <1>1, <2>1, <3>1
      <4>2. At(q, k + 1) \in Elems(q)
        BY <4>1 DEF At, Elems
      <4> QED
        BY <2>2, <4>2, ChainFacts
    <3> QED
      BY <3>1
  <2> QED
    BY <2>1, <2>3
<1>3. /\ \A k \in 0 .. Len(q) : At(r, k) = At(q, k)
      /\ At(r, Len(q) + 1) = s /\ At(r, Len(q) + 2) = List
  BY <1>1 DEF At
<1>4. Elems(r) = Elems(q) \cup {s}
  <2>1. \A k \in 1 .. Len(r) : k \in 1 .. Len(q) \/ k = Len(q) + 1
    BY <1>1
  <2>2. ASSUME NEW n \in Elems(r) PROVE n \in Elems(q) \cup {s}
    BY <1>1, <2>1 DEF Elems
  <2>3. ASSUME NEW n \in Elems(q) \cup {s} PROVE n \in Elems(r)
    <3>1. CASE n = s
      BY <1>1, <3>1 DEF Elems
    <3>2. CASE n \in Elems(q)
      BY <1>1, <3>2 DEF Elems
    <3> QED
      BY <3>1, <3>2
  <2> QED
    BY <2>2, <2>3
<1>5. ASSUME NEW i \in 1 .. Len(r), NEW j \in 1 .. Len(r), r[i] = r[j] PROVE i = j
  <2>1. \A k \in 1 .. Len(q) : r[k] \in Elems(q)
    BY <1>1 DEF Elems
  <2>2. CASE i = Len(q) + 1 \/ j = Len(q) + 1
    BY <1>1, <1>5, <2>1, <2>2
  <2>3. CASE i # Len(q) + 1 /\ j # Len(q) + 1
    <3>1. i \in 1 .. Len(q) /\ j \in 1 .. Len(q) /\ q[i] = q[j]
      BY <1>1, <1>5, <2>3
    <3> QED
      BY <3>1 DEF Chain
  <2> QED
    BY <2>2, <2>3
<1>6. ASSUME NEW k \in 0 .. Len(r) PROVE S2[At(r, k)] = At(r, k + 1)
  <2>1. CASE k < Len(q)
    <3>1. k \in 0 .. Len(q) /\ k + 1 \in 0 .. Len(q) /\ Len(q) \in 0 .. Len(q)
      BY <1>1, <2>1
    <3>2. At(q, k) # p
      BY <1>2, <2>1, <3>1, ChainFacts
    <3>3. At(q, k) \in Elems(q) \cup {List} /\ S[At(q, k)] = At(q, k + 1)
      BY <3>1 DEF Chain, At, Elems
    <3>4. S2[At(q, k)] = At(q, k + 1)
      BY <3>2, <3>3 DEF Apart
    <3> QED
      BY <1>3, <3>1, <3>4
  <2>2. CASE k = Len(q)
    BY <1>1, <1>2, <1>3, <2>2
  <2>3. CASE k = Len(q) + 1
    <3>1. k + 1 = Len(q) + 2
      BY <1>1, <2>3
    <3> QED
      BY <1>3, <2>3, <3>1
  <2> QED
    BY <1>1, <2>1, <2>2, <2>3
<1>7. Chain(r, S2)
  BY <1>1, <1>5, <1>6 DEF Chain
<1> QED
  BY <1>4, <1>7 DEF r

LEMMA ChainPrepend ==
  ASSUME NEW q, NEW S, Chain(q, S), NEW s \in Skbs \ Elems(q), NEW S2,
         S2[List] = s, S2[s] = S[List], Apart(q, List, S, S2)
  PROVE  Chain(<<s>> \o q, S2) /\ Elems(<<s>> \o q) = Elems(q) \cup {s}
<1> DEFINE r == <<s>> \o q
<1>1. /\ q \in Seq(Skbs) /\ Len(q) \in Nat /\ r \in Seq(Skbs) /\ Len(r) = Len(q) + 1
      /\ r[1] = s /\ \A k \in 1 .. Len(q) : r[k + 1] = q[k]
      /\ s # List
  BY ChainFacts, RingAssumption
<1> HIDE DEF r
<1>2. At(r, 1) = s /\ At(r, 0) = List
  BY <1>1 DEF At
<1>3. ASSUME NEW k \in 1 .. (Len(q) + 1) PROVE At(r, k + 1) = At(q, k)
  <2>1. CASE k <= Len(q)
    <3>1. k \in 1 .. Len(q) /\ k + 1 \in 1 .. Len(r)
      BY <1>1, <2>1
    <3> QED
      BY <1>1, <3>1 DEF At
  <2>2. CASE k > Len(q)
    <3>1. ~(k \in 1 .. Len(q)) /\ ~(k + 1 \in 1 .. Len(r))
      BY <1>1, <2>2
    <3> QED
      BY <3>1 DEF At
  <2> QED
    BY <1>1, <2>1, <2>2
<1>4. Elems(r) = Elems(q) \cup {s}
  <2>1. ASSUME NEW n \in Elems(r) PROVE n \in Elems(q) \cup {s}
    <3>1. PICK k \in 1 .. Len(r) : n = r[k]
      BY DEF Elems
    <3>2. CASE k = 1
      BY <1>1, <3>1, <3>2
    <3>3. CASE k # 1
      <4>1. k - 1 \in 1 .. Len(q) /\ (k - 1) + 1 = k
        BY <1>1, <3>1, <3>3
      <4>2. n = q[k - 1]
        BY <1>1, <3>1, <4>1
      <4> QED
        BY <4>1, <4>2 DEF Elems
    <3> QED
      BY <3>2, <3>3
  <2>2. ASSUME NEW n \in Elems(q) \cup {s} PROVE n \in Elems(r)
    <3>1. CASE n = s
      <4>1. 1 \in 1 .. Len(r)
        BY <1>1
      <4> QED
        BY <1>1, <3>1, <4>1 DEF Elems
    <3>2. CASE n \in Elems(q)
      <4>1. PICK k \in 1 .. Len(q) : n = q[k]
        BY <3>2 DEF Elems
      <4>2. k + 1 \in 1 .. Len(r) /\ n = r[k + 1]
        BY <1>1, <4>1
      <4> QED
        BY <4>2 DEF Elems
    <3> QED
      BY <3>1, <3>2
  <2> QED
    BY <2>1, <2>2
<1>5. ASSUME NEW i \in 1 .. Len(r), NEW j \in 1 .. Len(r), r[i] = r[j] PROVE i = j
  <2>1. \A k \in 1 .. Len(r) : k # 1 => /\ k - 1 \in 1 .. Len(q) /\ r[k] = q[k - 1]
                                        /\ r[k] \in Elems(q)
    <3>1. ASSUME NEW k \in 1 .. Len(r), k # 1
          PROVE  k - 1 \in 1 .. Len(q) /\ r[k] = q[k - 1] /\ r[k] \in Elems(q)
      <4>1. k - 1 \in 1 .. Len(q) /\ (k - 1) + 1 = k
        BY <1>1, <3>1
      <4>2. r[k] = q[k - 1]
        BY <1>1, <4>1
      <4> QED
        BY <4>1, <4>2 DEF Elems
    <3> QED
      BY <3>1
  <2>2. CASE i = 1 \/ j = 1
    BY <1>1, <1>5, <2>1, <2>2
  <2>3. CASE i # 1 /\ j # 1
    <3>1. i - 1 \in 1 .. Len(q) /\ j - 1 \in 1 .. Len(q) /\ q[i - 1] = q[j - 1]
      BY <1>5, <2>1, <2>3
    <3>2. i - 1 = j - 1
      BY <3>1 DEF Chain
    <3> QED
      BY <1>1, <3>2
  <2> QED
    BY <2>2, <2>3
<1>6. ASSUME NEW k \in 0 .. Len(r) PROVE S2[At(r, k)] = At(r, k + 1)
  <2>1. CASE k = 0
    BY <1>2, <2>1
  <2>2. CASE k = 1
    <3>1. 0 \in 0 .. Len(q) /\ 1 \in 1 .. (Len(q) + 1)
      BY <1>1
    <3>2. S[At(q, 0)] = At(q, 0 + 1)
      BY <3>1 DEF Chain
    <3>3. S[List] = At(q, 1) /\ At(r, 1 + 1) = At(q, 1)
      BY <1>3, <3>1, <3>2, ChainFacts
    <3> QED
      BY <1>2, <2>2, <3>3
  <2>3. CASE k > 1
    <3>1. k - 1 \in 1 .. Len(q) /\ k - 1 \in 1 .. (Len(q) + 1) /\ k \in 1 .. (Len(q) + 1)
          /\ (k - 1) + 1 = k /\ k - 1 \in 0 .. Len(q)
      BY <1>1, <2>3
    <3>2. At(r, k) = At(q, k - 1) /\ At(r, k + 1) = At(q, k)
      BY <1>3, <3>1
    <3>3. At(q, k - 1) \in Elems(q) /\ At(q, k - 1) # List
      BY <3>1, ChainFacts
    <3>4. S[At(q, k - 1)] = At(q, k)
      BY <3>1 DEF Chain
    <3> QED
      BY <3>2, <3>3, <3>4 DEF Apart
  <2> QED
    BY <1>1, <2>1, <2>2, <2>3
<1>7. Chain(r, S2)
  BY <1>1, <1>5, <1>6 DEF Chain
<1> QED
  BY <1>4, <1>7 DEF r

(* The first, or the last, packet of a chain taken out.                    *)
LEMMA ChainTail ==
  ASSUME NEW q, NEW S, Chain(q, S), q # <<>>, NEW S2,
         S2[List] = S[q[1]], Apart(q, List, S, S2)
  PROVE  Chain(Tail(q), S2) /\ Elems(Tail(q)) = Elems(q) \ {q[1]} /\ S[List] = q[1]
<1> DEFINE r == Tail(q)
<1>1. /\ q \in Seq(Skbs) /\ Len(q) \in Nat /\ Len(q) # 0 /\ r \in Seq(Skbs)
      /\ Len(r) = Len(q) - 1 /\ \A k \in 1 .. Len(r) : r[k] = q[k + 1]
  BY ChainFacts
<1> HIDE DEF r
<1>2. At(r, 0) = List
  BY <1>1 DEF At
<1>3. ASSUME NEW k \in 1 .. Len(q) PROVE At(r, k) = At(q, k + 1)
  <2>1. CASE k < Len(q)
    <3>1. k \in 1 .. Len(r) /\ k + 1 \in 1 .. Len(q)
      BY <1>1, <2>1
    <3> QED
      BY <1>1, <3>1 DEF At
  <2>2. CASE k = Len(q)
    <3>1. ~(k \in 1 .. Len(r)) /\ ~(k + 1 \in 1 .. Len(q))
      BY <1>1, <2>2
    <3> QED
      BY <3>1 DEF At
  <2> QED
    BY <1>1, <2>1, <2>2
<1>4. S[List] = q[1]
  <2>1. 0 \in 0 .. Len(q) /\ 1 \in 1 .. Len(q)
    BY <1>1
  <2>2. S[At(q, 0)] = At(q, 0 + 1)
    BY <2>1 DEF Chain
  <2> QED
    BY <2>1, <2>2, ChainFacts
<1>5. Elems(r) = Elems(q) \ {q[1]}
  <2>1. ASSUME NEW n \in Elems(r) PROVE n \in Elems(q) \ {q[1]}
    <3>1. PICK k \in 1 .. Len(r) : n = r[k]
      BY DEF Elems
    <3>2. k + 1 \in 1 .. Len(q) /\ 1 \in 1 .. Len(q) /\ k + 1 # 1 /\ n = q[k + 1]
      BY <1>1, <3>1
    <3>3. q[k + 1] # q[1]
      BY <3>2 DEF Chain
    <3> QED
      BY <3>2, <3>3 DEF Elems
  <2>2. ASSUME NEW n \in Elems(q) \ {q[1]} PROVE n \in Elems(r)
    <3>1. PICK k \in 1 .. Len(q) : n = q[k]
      BY DEF Elems
    <3>2. k - 1 \in 1 .. Len(r) /\ (k - 1) + 1 = k
      BY <1>1, <3>1
    <3>3. n = r[k - 1]
      BY <1>1, <3>1, <3>2
    <3> QED
      BY <3>2, <3>3 DEF Elems
  <2> QED
    BY <2>1, <2>2
<1>6. ASSUME NEW i \in 1 .. Len(r), NEW j \in 1 .. Len(r), r[i] = r[j] PROVE i = j
  <2>1. i + 1 \in 1 .. Len(q) /\ j + 1 \in 1 .. Len(q) /\ q[i + 1] = q[j + 1]
    BY <1>1, <1>6
  <2>2. i + 1 = j + 1
    BY <2>1 DEF Chain
  <2> QED
    BY <1>1, <2>2
<1>7. ASSUME NEW k \in 0 .. Len(r) PROVE S2[At(r, k)] = At(r, k + 1)
  <2>1. k + 1 \in 1 .. Len(q) /\ k + 1 \in 0 .. Len(q)
    BY <1>1
  <2>2. At(r, k + 1) = At(q, (k + 1) + 1) /\ At(q, k + 1) = q[k + 1] /\ q[k + 1] \in Elems(q)
    BY <1>3, <2>1, ChainFacts
  <2>3. S[q[k + 1]] = At(r, k + 1)
    BY <2>1, <2>2 DEF Chain
  <2>4. CASE k = 0
    BY <1>2, <2>3, <2>4
  <2>5. CASE k # 0
    <3>1. k \in 1 .. Len(q)
      BY <1>1, <2>5
    <3>2. At(r, k) = q[k + 1] /\ q[k + 1] # List
      BY <1>3, <2>2, <3>1, ChainFacts
    <3> QED
      BY <2>2, <2>3, <3>2 DEF Apart
  <2> QED
    BY <2>4, <2>5
<1>8. Chain(r, S2)
  BY <1>1, <1>6, <1>7 DEF Chain
<1> QED
  BY <1>4, <1>5, <1>8 DEF r

LEMMA ChainFront ==
  ASSUME NEW q, NEW S, Chain(q, S), NEW s \in Elems(q), S[s] = List, NEW S2,
         NEW p \in Elems(q) \cup {List}, S[p] = s,
         S2[p] = List, Apart(q, p, S, S2)
  PROVE  /\ q # <<>> /\ s = q[Len(q)]
         /\ Chain(SubSeq(q, 1, Len(q) - 1), S2)
         /\ Elems(SubSeq(q, 1, Len(q) - 1)) = Elems(q) \ {s}
<1> DEFINE r == SubSeq(q, 1, Len(q) - 1)
<1>1. q \in Seq(Skbs) /\ Len(q) \in Nat
  BY ChainFacts
<1>2. Len(q) # 0 /\ s = q[Len(q)]
  <2>1. PICK k \in 1 .. Len(q) : s = q[k]
    BY DEF Elems
  <2>2. At(q, k) = s /\ k \in 0 .. Len(q)
    BY <1>1, <2>1, ChainFacts
  <2>3. At(q, k + 1) = List
    BY <2>2 DEF Chain
  <2>4. ASSUME k # Len(q) PROVE FALSE
    <3>1. k + 1 \in 1 .. Len(q)
      BY <1>1, <2>1, <2>4
    <3>2. At(q, k + 1) \in Elems(q)
      BY <3>1 DEF At, Elems
    <3> QED
      BY <2>3, <3>2, ChainFacts
  <2> QED
    BY <1>1, <2>1, <2>4
<1>3. /\ r \in Seq(Skbs) /\ Len(r) = Len(q) - 1 /\ \A k \in 1 .. Len(r) : r[k] = q[k]
  <2>1. Len(q) - 1 \in Nat /\ \A k \in 1 .. (Len(q) - 1) : k \in 1 .. Len(q)
    BY <1>1, <1>2
  <2>2. r = [k \in 1 .. (Len(q) - 1) |-> q[k]]
    BY <1>1, <2>1
  <2> HIDE DEF r
  <2>3. r \in [1 .. (Len(q) - 1) -> Skbs]
    <3>1. \A k \in 1 .. (Len(q) - 1) : q[k] \in Skbs
      BY <2>1, ChainFacts
    <3> QED
      BY <2>2, <3>1
  <2>4. r \in Seq(Skbs) /\ Len(r) = Len(q) - 1
    BY <2>1, <2>3
  <2> QED
    BY <2>2, <2>4
<1> HIDE DEF r
<1>4. /\ \A k \in 0 .. Len(r) : At(r, k) = At(q, k) /\ k \in 0 .. Len(q) /\ k # Len(q)
      /\ At(r, Len(q)) = List
  BY <1>1, <1>2, <1>3 DEF At
<1>5. At(q, Len(q)) = s
  BY <1>1, <1>2, ChainFacts
<1>6. p = At(q, Len(q) - 1)
  <2>1. PICK k \in 0 .. Len(q) : p = At(q, k)
    BY ChainFacts
  <2>2. At(q, k + 1) = s
    BY <2>1 DEF Chain
  <2>3. k # Len(q)
    BY <2>2, ChainFacts
  <2>4. k + 1 \in 0 .. Len(q) /\ Len(q) \in 0 .. Len(q)
    BY <1>1, <2>1, <2>3
  <2>5. k + 1 = Len(q)
    BY <1>5, <2>2, <2>4, ChainFacts
  <2> QED
    BY <1>1, <2>1, <2>5
<1>7. Elems(r) = Elems(q) \ {s}
  <2>1. ASSUME NEW n \in Elems(r) PROVE n \in Elems(q) \ {s}
    <3>1. PICK k \in 1 .. Len(r) : n = r[k]
      BY DEF Elems
    <3>2. k \in 1 .. Len(q) /\ Len(q) \in 1 .. Len(q) /\ k # Len(q) /\ n = q[k]
      BY <1>1, <1>3, <3>1
    <3>3. q[k] # q[Len(q)]
      BY <3>2 DEF Chain
    <3> QED
      BY <1>2, <3>2, <3>3 DEF Elems
  <2>2. ASSUME NEW n \in Elems(q) \ {s} PROVE n \in Elems(r)
    <3>1. PICK k \in 1 .. Len(q) : n = q[k]
      BY DEF Elems
    <3>2. k \in 1 .. Len(r)
      BY <1>1, <1>2, <1>3, <3>1
    <3> QED
      BY <1>3, <3>1, <3>2 DEF Elems
  <2> QED
    BY <2>1, <2>2
<1>8. ASSUME NEW i \in 1 .. Len(r), NEW j \in 1 .. Len(r), r[i] = r[j] PROVE i = j
  <2>1. i \in 1 .. Len(q) /\ j \in 1 .. Len(q) /\ q[i] = q[j]
    BY <1>1, <1>3, <1>8
  <2> QED
    BY <2>1 DEF Chain
<1>9. ASSUME NEW k \in 0 .. Len(r) PROVE S2[At(r, k)] = At(r, k + 1)
  <2>1. At(r, k) = At(q, k) /\ k \in 0 .. Len(q) /\ Len(q) - 1 \in 0 .. Len(q)
    BY <1>1, <1>2, <1>4
  <2>2. CASE k = Len(q) - 1
    <3>1. k + 1 = Len(q)
      BY <1>1, <2>2
    <3> QED
      BY <1>4, <1>6, <2>1, <2>2, <3>1
  <2>3. CASE k # Len(q) - 1
    <3>1. k + 1 \in 0 .. Len(r)
      BY <1>1, <1>3, <2>3
    <3>2. At(q, k) # p
      BY <1>6, <2>1, <2>3, ChainFacts
    <3>3. At(q, k) \in Elems(q) \cup {List}
      BY <2>1 DEF At, Elems
    <3>4. S2[At(q, k)] = At(q, k + 1)
      BY <2>1, <3>2, <3>3 DEF Apart, Chain
    <3> QED
      BY <1>4, <2>1, <3>1, <3>4
  <2> QED
    BY <2>2, <2>3
<1>10. Chain(r, S2)
  BY <1>3, <1>8, <1>9 DEF Chain
<1> QED
  BY <1>1, <1>2, <1>7, <1>10 DEF r

(* The prev links of a ring lead back along the next links.                *)
LEMMA ChainBack ==
  ASSUME NEW q, NEW N, NEW P, Chain(q, N), \A n \in Elems(q) \cup {List} : P[N[n]] = n
  PROVE  Chain([k \in 1 .. Len(q) |-> q[Len(q) + 1 - k]], P)
<1> DEFINE L == Len(q)
           r == [k \in 1 .. L |-> q[L + 1 - k]]
<1>1. q \in Seq(Skbs) /\ L \in Nat
  BY ChainFacts
<1>2. \A k \in 1 .. L : L + 1 - k \in 1 .. L /\ q[L + 1 - k] \in Skbs
  BY <1>1
<1>3. r \in Seq(Skbs) /\ Len(r) = L /\ \A k \in 1 .. L : r[k] = q[L + 1 - k]
  BY <1>1, <1>2
<1> HIDE DEF r
<1>4. ASSUME NEW k \in 0 .. (L + 1) PROVE At(r, k) = At(q, L + 1 - k)
  <2>1. CASE k \in 1 .. L
    <3>1. L + 1 - k \in 1 .. L
      BY <1>2, <2>1
    <3> QED
      BY <1>3, <2>1, <3>1 DEF At
  <2>2. CASE ~(k \in 1 .. L)
    <3>1. ~(L + 1 - k \in 1 .. L)
      BY <1>1, <2>2
    <3> QED
      BY <1>3, <2>2, <3>1 DEF At
  <2> QED
    BY <2>1, <2>2
<1>5. ASSUME NEW i \in 1 .. L, NEW j \in 1 .. L, r[i] = r[j] PROVE i = j
  <2>1. q[L + 1 - i] = q[L + 1 - j] /\ L + 1 - i \in 1 .. L /\ L + 1 - j \in 1 .. L
    BY <1>2, <1>3, <1>5
  <2>2. L + 1 - i = L + 1 - j
    BY <2>1 DEF Chain
  <2> QED
    BY <1>1, <2>2
<1>6. ASSUME NEW k \in 0 .. L PROVE P[At(r, k)] = At(r, k + 1)
  <2>1. L - k \in 0 .. L /\ (L - k) + 1 = L + 1 - k /\ L + 1 - (k + 1) = L - k
        /\ k \in 0 .. (L + 1) /\ k + 1 \in 0 .. (L + 1)
    BY <1>1
  <2>2. N[At(q, L - k)] = At(q, L + 1 - k)
    BY <2>1 DEF Chain
  <2>3. At(q, L - k) \in Elems(q) \cup {List}
    BY DEF At, Elems
  <2>4. P[At(q, L + 1 - k)] = At(q, L - k)
    BY <2>2, <2>3
  <2> QED
    BY <1>4, <2>1, <2>4
<1>7. Chain(r, P)
  BY <1>3, <1>5, <1>6 DEF Chain
<1> QED
  BY <1>7 DEF r
----------------------------------------------------------------------------
(* The invariant about the order of the packets. A thread works next to    *)
(* the list head. The queue, as the refinement mapping sees it, is a chain *)
(* of the queued packets and of the one a thread has linked but not yet    *)
(* counted, or is taking out.                                              *)
Links  == {"linkprev", "count", "clear", "closeprev", "closenext"}
Linked == {skb[t] : t \in {u \in Threads : pc[u] \in Links}}

Ends == \A t \in Threads : pc[t] # "idle" =>
  /\ pv[t] = List \/ nx[t] = List
  /\ pc[t] \in {"insert", "link", "linknext"} => next[pv[t]] = nx[t]
  /\ pc[t] \in {"clear", "closeprev", "closenext"} => next[pv[t]] = skb[t]
  /\ pc[t] = "clear" => next[skb[t]] = nx[t]

Order ==
  /\ Chain(Follow(Successor), Successor)
  /\ Elems(Follow(Successor)) = (Queued \ {List}) \cup Linked

FifoInv == Inv /\ Ends /\ Order

(* What Successor is at a node that nobody, or somebody, is taking out.    *)
Closing == {"closeprev", "closenext"}
SuccOf(p, s, x, nf) ==
  [n \in Nodes |-> IF \E t \in Threads : p[t] \in Closing /\ s[t] = n
                   THEN x[CHOOSE t \in Threads : p[t] \in Closing /\ s[t] = n]
                   ELSE nf[n]]

LEMMA SuccOfFacts ==
  ASSUME NEW p, NEW s, NEW x, NEW nf
  PROVE  /\ \A n \in Nodes : (\A t \in Threads : p[t] \in Closing => s[t] # n)
                               => SuccOf(p, s, x, nf)[n] = nf[n]
         /\ \A t \in Threads : p[t] \in Closing /\ s[t] \in Nodes
                               /\ (\A u \in Threads \ {t} : p[u] \notin Closing)
                               => SuccOf(p, s, x, nf)[s[t]] = x[t]
<1>1. ASSUME NEW n \in Nodes, \A t \in Threads : p[t] \in Closing => s[t] # n
      PROVE  SuccOf(p, s, x, nf)[n] = nf[n]
  BY <1>1 DEF SuccOf
<1>2. ASSUME NEW t \in Threads, p[t] \in Closing, s[t] \in Nodes,
             \A u \in Threads \ {t} : p[u] \notin Closing
      PROVE  SuccOf(p, s, x, nf)[s[t]] = x[t]
  <2>1. (CHOOSE u \in Threads : p[u] \in Closing /\ s[u] = s[t]) = t
    BY <1>2
  <2> QED
    BY <1>2, <2>1 DEF SuccOf
<1> QED
  BY <1>1, <1>2

LEMMA SuccessorIs ==
  /\ Successor = SuccOf(pc, skb, nx, next)
  /\ Successor' = SuccOf(pc', skb', nx', next')
  BY DEF Successor, SuccOf, Closing

LEMMA OrderFacts ==
  ASSUME FifoInv
  PROVE  /\ Chain(Follow(Successor), Successor)
         /\ Queued \subseteq Elems(Follow(Successor)) \cup {List}
         /\ Elems(Follow(Successor)) \subseteq Nodes /\ List \in Nodes
         /\ \A t \in Threads : pc[t] # "idle" =>
              Linked = IF pc[t] \in Links THEN {skb[t]} ELSE {}
         /\ (\A t \in Threads : pc[t] = "idle") => Linked = {}
         /\ \A t \in Threads : pc[t] \notin Links /\ skb[t] # NoSkb
                                 => skb[t] \notin Elems(Follow(Successor)) \cup {List}
<1>1. /\ Chain(Follow(Successor), Successor)
      /\ Elems(Follow(Successor)) = (Queued \ {List}) \cup Linked
  BY DEF FifoInv, Order
<1>2. Elems(Follow(Successor)) \subseteq Nodes /\ List \in Nodes
  BY <1>1, ChainFacts DEF Nodes
<1>3. ASSUME NEW t \in Threads, pc[t] # "idle"
      PROVE  Linked = IF pc[t] \in Links THEN {skb[t]} ELSE {}
  <2>1. \A u \in Threads \ {t} : pc[u] = "idle"
    BY <1>3, Working DEF FifoInv
  <2> QED
    BY <2>1 DEF Linked, Links
<1>4. (\A t \in Threads : pc[t] = "idle") => Linked = {}
  BY DEF Linked, Links
<1>5. ASSUME NEW t \in Threads, pc[t] \notin Links, skb[t] # NoSkb
      PROVE  skb[t] \notin Elems(Follow(Successor)) \cup {List}
  <2>1. skb[t] \notin Queued
    BY DEF Queued
  <2>2. skb[t] \notin Linked
    BY <1>5 DEF Linked, FifoInv, Inv, Held
  <2>3. skb[t] # List
    BY RingAssumption DEF FifoInv, Inv, Types, Nodes
  <2> QED
    BY <1>1, <2>1, <2>2, <2>3
<1> QED
  BY <1>1, <1>2, <1>3, <1>4, <1>5

(* What keeps the order, and what sets it.                                 *)
LEMMA OrderIs ==
  ASSUME NEW r, Chain(r, Successor'), Elems(r) = (Queued' \ {List}) \cup Linked'
  PROVE  Order' /\ Follow(Successor)' = r
<1>1. Follow(Successor') = r
  BY FollowChain
<1> QED
  BY <1>1 DEF Order

LEMMA OrderSame ==
  ASSUME FifoInv,
         \A n \in Elems(Follow(Successor)) \cup {List} : Successor'[n] = Successor[n],
         (Queued' \ {List}) \cup Linked' = (Queued \ {List}) \cup Linked
  PROVE  Order' /\ Follow(Successor)' = Follow(Successor)
<1>1. Chain(Follow(Successor), Successor')
  BY ChainSame DEF FifoInv, Order
<1>2. Elems(Follow(Successor)) = (Queued' \ {List}) \cup Linked'
  BY DEF FifoInv, Order
<1> QED
  BY <1>1, <1>2, OrderIs

(* The hands of the abstract queue.                                        *)
Hands == [t \in Threads |-> InHand(t)]

LEMMA HandsChange ==
  ASSUME NEW t \in Threads, NEW h, InHand(t)' = h,
         \A u \in Threads \ {t} : pc'[u] = pc[u] /\ skb'[u] = skb[u]
  PROVE  Hands' = [Hands EXCEPT ![t] = h]
<1>1. \A u \in Threads \ {t} : InHand(u)' = InHand(u)
  BY DEF InHand
<1> QED
  BY <1>1 DEF Hands

Stutter == UNCHANGED <<Follow(Successor), Hands, free>>

(* A put, or a take, that begins with the ring whole: the queue is as it   *)
(* was, and a packet that is taken keeps its place.                        *)
LEMMA PutBeginsOrder ==
  ASSUME NEW t \in Threads, FifoInv, skb_queue_tail(t) \/ skb_queue_head(t)
  PROVE  Ends' /\ Order' /\ Stutter
<1>1. PICK p \in Queued, n \in Queued :
        Between(t, p, n) /\ next[p] = n /\ (p = List \/ n = List)
  <2>1. List \in Queued /\ lock = NoThread
    BY QueuedFacts DEF FifoInv, Inv, skb_queue_tail, skb_queue_head, Between
  <2>2. Ring(Queued, next, prev)
    BY <2>1, Unlocked DEF FifoInv
  <2>3. prev[List] \in Queued /\ next[prev[List]] = List /\ next[List] \in Queued
    BY <2>1, <2>2 DEF Ring
  <2> QED
    BY <2>1, <2>3 DEF skb_queue_tail, skb_queue_head
<1>2. /\ UNCHANGED <<next, prev, qlen, skb, free>> /\ lock = NoThread
      /\ pv'[t] = p /\ nx'[t] = n /\ pc[t] = "idle" /\ pc'[t] = "insert"
      /\ \A u \in Threads \ {t} : pc'[u] = pc[u]
  BY <1>1 DEF Between, ring, FifoInv, Inv, Types, Goto
<1>3. \A u \in Threads : pc[u] = "idle"
  BY <1>2, Unlocked DEF FifoInv
<1>4. Ends'
  BY <1>1, <1>2, <1>3 DEF Ends
<1>5. \A n1 \in Nodes : Successor'[n1] = next[n1] /\ Successor[n1] = next[n1]
  BY <1>2, <1>3, SuccOfFacts, SuccessorIs DEF Closing
<1>6. Queued' = Queued /\ Linked' = {} /\ Linked = {}
  BY <1>2, <1>3 DEF Queued, Linked, Links
<1>7. Order' /\ Follow(Successor)' = Follow(Successor)
  BY <1>5, <1>6, OrderFacts, OrderSame
<1>8. Hands' = Hands
  BY <1>2 DEF Hands, InHand
<1> QED
  BY <1>2, <1>4, <1>7, <1>8 DEF Stutter

LEMMA TakeBeginsOrder ==
  ASSUME NEW t \in Threads, FifoInv, skb_dequeue(t) \/ skb_dequeue_tail(t)
  PROVE  Ends' /\ Order' /\ Stutter
<1>1. PICK s \in Queued : Unlink(t, s) /\ s # List /\ next[prev[s]] = s
                          /\ (prev[s] = List \/ next[s] = List)
  <2>1. List \in Queued /\ lock = NoThread
    BY QueuedFacts DEF FifoInv, Inv, skb_dequeue, skb_dequeue_tail, Unlink
  <2>2. Ring(Queued, next, prev)
    BY <2>1, Unlocked DEF FifoInv
  <2>3. /\ next[List] \in Queued /\ prev[next[List]] = List
        /\ prev[List] \in Queued /\ next[prev[List]] = List
    BY <2>1, <2>2 DEF Ring
  <2>4. next[prev[prev[List]]] = prev[List]
    BY <2>2, <2>3 DEF Ring
  <2> QED
    BY <2>3, <2>4 DEF skb_dequeue, skb_dequeue_tail, Unlink
<1>2. /\ UNCHANGED <<next, free>> /\ lock = NoThread /\ pc[t] = "idle" /\ skb[t] = NoSkb
      /\ skb'[t] = s /\ nx'[t] = next[s] /\ pv'[t] = prev[s] /\ pc'[t] = "clear"
      /\ \A u \in Threads \ {t} : pc'[u] = pc[u] /\ skb'[u] = skb[u]
  BY <1>1 DEF Unlink, FifoInv, Inv, Types, Goto
<1>3. /\ \A u \in Threads : pc[u] = "idle"
      /\ \A u \in Threads \ {t} : pc'[u] = "idle"
      /\ Linked = {}
  BY <1>2, Unlocked, OrderFacts DEF FifoInv
<1>4. Ends'
  BY <1>1, <1>2, <1>3 DEF Ends
<1>5. \A n \in Nodes : Successor'[n] = next[n] /\ Successor[n] = next[n]
  <2>1. \A u \in Threads : pc'[u] \notin Closing /\ pc[u] \notin Closing
    BY <1>2, <1>3 DEF Closing
  <2> QED
    BY <1>2, <2>1, SuccOfFacts, SuccessorIs
<1>6. Queued' = Queued \ {s} /\ Linked' = {s}
  <2>1. NoSkb \notin Nodes /\ s \in Nodes
    BY QueuedFacts DEF FifoInv, Inv
  <2>2. \A u \in Threads : skb[u] # s
    BY DEF Queued
  <2>3. Queued' = Queued \ {s}
    BY <1>2, <2>1, <2>2 DEF Queued
  <2>4. Linked' = {s}
    BY <1>2, <1>3 DEF Linked, Links
  <2> QED
    BY <2>3, <2>4
<1>7. Order' /\ Follow(Successor)' = Follow(Successor)
  <2>1. (Queued' \ {List}) \cup Linked' = (Queued \ {List}) \cup Linked
    BY <1>1, <1>3, <1>6
  <2> QED
    BY <1>5, <2>1, OrderFacts, OrderSame
<1>8. Hands' = Hands
  <2>1. InHand(t)' = NoSkb /\ Hands[t] = NoSkb
    BY <1>2 DEF InHand, Hands
  <2>2. Hands' = [Hands EXCEPT ![t] = NoSkb]
    BY <1>2, <2>1, HandsChange
  <2> QED
    BY <2>1, <2>2 DEF Hands
<1> QED
  BY <1>2, <1>4, <1>7, <1>8 DEF Stutter

(* A store that leaves what the next links say as it was.                  *)
LEMMA StoresOrder ==
  ASSUME NEW t \in Threads, FifoInv, InsertOwn(t) \/ LinkPrev(t) \/ ClearOwn(t) \/ ClosePrev(t)
  PROVE  Ends' /\ Order' /\ Stutter
<1>1. /\ pc[t] # "idle" /\ UNCHANGED <<qlen, lock, skb, nx, pv, free>>
      /\ \A u \in Threads \ {t} : pc'[u] = pc[u]
      /\ \/ /\ pc[t] = "insert" /\ pc'[t] = "link" /\ next' = [next EXCEPT ![skb[t]] = nx[t]]
         \/ /\ pc[t] = "link" /\ pc'[t] = "linknext" /\ next' = next
         \/ /\ pc[t] = "linkprev" /\ pc'[t] = "count" /\ next' = next
         \/ /\ pc[t] = "clear" /\ pc'[t] = "closeprev" /\ next' = [next EXCEPT ![skb[t]] = NoSkb]
         \/ /\ pc[t] = "closeprev" /\ pc'[t] = "closenext" /\ next' = next
  BY DEF InsertOwn, LinkPrev, ClearOwn, ClosePrev, FifoInv, Inv, Types, Goto, locals
<1>2. /\ skb[t] \in Nodes /\ skb[t] # NoSkb /\ skb[t] \notin Queued /\ pv[t] \in Queued
      /\ \A u \in Threads \ {t} : pc[u] = "idle" /\ pc'[u] = "idle"
      /\ next \in [Nodes -> Nodes \cup {NoSkb}]
  BY <1>1, Working DEF FifoInv, Inv, Types
<1>3. pv[t] \in Nodes /\ pv[t] # skb[t]
  BY <1>2, QueuedFacts DEF FifoInv, Inv
<1>4. Ends'
  <2>1. next'[pv[t]] = next[pv[t]]
    BY <1>1, <1>2, <1>3
  <2>2. /\ pv'[t] = List \/ nx'[t] = List
        /\ pc'[t] \in {"insert", "link", "linknext"} => next'[pv'[t]] = nx'[t]
        /\ pc'[t] \in {"clear", "closeprev", "closenext"} => next'[pv'[t]] = skb'[t]
        /\ pc'[t] # "clear"
    BY <1>1, <2>1 DEF FifoInv, Ends
  <2> QED
    BY <1>2, <2>2 DEF Ends
<1>5. Queued' = Queued /\ Linked' = Linked
  <2>1. Queued' = Queued
    BY <1>1 DEF Queued
  <2>2. \A u \in Threads : pc'[u] \in Links <=> pc[u] \in Links
    BY <1>1 DEF Links
  <2> QED
    BY <1>1, <2>1, <2>2 DEF Linked
<1>6. ASSUME NEW n \in Elems(Follow(Successor)) \cup {List} PROVE Successor'[n] = Successor[n]
  <2>1. n \in Nodes
    BY OrderFacts
  <2>2. CASE n # skb[t]
    <3>1. next'[n] = next[n]
      BY <1>1, <1>2, <2>1, <2>2
    <3>2. \A u \in Threads : (pc[u] \in Closing => skb[u] # n) /\ (pc'[u] \in Closing => skb'[u] # n)
      BY <1>1, <1>2, <2>2 DEF Closing
    <3> QED
      BY <2>1, <3>1, <3>2, SuccOfFacts, SuccessorIs
  <2>3. CASE n = skb[t]
    <3>1. pc[t] \in Links
      BY <1>2, <2>3, OrderFacts
    <3>2. \A u \in Threads \ {t} : pc[u] \notin Closing /\ pc'[u] \notin Closing
      BY <1>2 DEF Closing
    <3>3. CASE pc[t] = "linkprev"
      <4>1. \A u \in Threads : pc[u] \notin Closing /\ pc'[u] \notin Closing
        BY <1>1, <3>2, <3>3 DEF Closing
      <4> QED
        BY <1>1, <2>1, <3>3, <4>1, SuccOfFacts, SuccessorIs
    <3>4. CASE pc[t] = "clear"
      <4>1. \A u \in Threads : pc[u] \notin Closing
        BY <3>2, <3>4 DEF Closing
      <4>2. Successor[n] = next[n] /\ next[n] = nx[t]
        BY <2>1, <2>3, <3>4, <4>1, SuccOfFacts, SuccessorIs DEF FifoInv, Ends
      <4>3. pc'[t] \in Closing /\ skb'[t] = skb[t] /\ nx'[t] = nx[t]
        BY <1>1, <3>4 DEF Closing
      <4>4. Successor'[skb'[t]] = nx'[t]
        BY <1>2, <3>2, <4>3, SuccOfFacts, SuccessorIs
      <4> QED
        BY <2>3, <4>2, <4>3, <4>4
    <3>5. CASE pc[t] = "closeprev"
      <4>1. pc[t] \in Closing /\ pc'[t] \in Closing /\ skb'[t] = skb[t] /\ nx'[t] = nx[t]
        BY <1>1, <3>5 DEF Closing
      <4>2. Successor[skb[t]] = nx[t]
        BY <1>2, <3>2, <4>1, SuccOfFacts, SuccessorIs
      <4>3. Successor'[skb'[t]] = nx'[t]
        BY <1>2, <3>2, <4>1, SuccOfFacts, SuccessorIs
      <4> QED
        BY <2>3, <4>1, <4>2, <4>3
    <3> QED
      BY <1>1, <3>1, <3>3, <3>4, <3>5 DEF Links
  <2> QED
    BY <2>2, <2>3
<1>7. Order' /\ Follow(Successor)' = Follow(Successor)
  BY <1>5, <1>6, OrderSame
<1>8. Hands' = Hands
  <2>1. \A u \in Threads : InHand(u)' = InHand(u)
    BY <1>1 DEF InHand
  <2> QED
    BY <2>1 DEF Hands
<1> QED
  BY <1>1, <1>4, <1>7, <1>8 DEF Stutter

LEMMA InsertCountOrder ==
  ASSUME NEW t \in Threads, FifoInv, InsertCount(t)
  PROVE  Ends' /\ Order' /\ Stutter
<1>1. /\ pc[t] = "count" /\ UNCHANGED <<next, nx, pv, free>>
      /\ skb'[t] = NoSkb /\ pc'[t] = "idle"
      /\ \A u \in Threads \ {t} : skb'[u] = skb[u] /\ pc'[u] = pc[u]
  BY DEF InsertCount, Release, Goto, FifoInv, Inv, Types
<1>2. /\ skb[t] \in Nodes /\ skb[t] \notin free /\ NoSkb \notin Nodes /\ skb[t] # List
      /\ \A u \in Threads \ {t} : pc[u] = "idle" /\ skb[u] # skb[t]
      /\ Linked = {skb[t]}
  <2>1. skb[t] \in Skbs
    BY <1>1, Working DEF FifoInv
  <2>2. Linked = {skb[t]}
    BY <1>1, OrderFacts DEF Links
  <2> QED
    BY <1>1, <2>1, <2>2, Working, RingAssumption DEF FifoInv
<1>3. \A u \in Threads : pc'[u] = "idle"
  BY <1>1, <1>2
<1>4. Ends'
  BY <1>3 DEF Ends
<1>5. Queued' = Queued \cup {skb[t]} /\ Linked' = {}
  BY <1>1, <1>2, <1>3 DEF Queued, Linked, Links
<1>6. \A n \in Nodes : Successor'[n] = Successor[n]
  <2>1. \A u \in Threads : pc[u] \notin Closing /\ pc'[u] \notin Closing
    BY <1>1, <1>2, <1>3 DEF Closing
  <2> QED
    BY <1>1, <2>1, SuccOfFacts, SuccessorIs
<1>7. Order' /\ Follow(Successor)' = Follow(Successor)
  <2>1. (Queued' \ {List}) \cup Linked' = (Queued \ {List}) \cup Linked
    BY <1>2, <1>5
  <2> QED
    BY <1>6, <2>1, OrderFacts, OrderSame
<1>8. Hands' = Hands
  <2>1. InHand(t)' = NoSkb /\ Hands[t] = NoSkb
    BY <1>1 DEF InHand, Hands
  <2>2. Hands' = [Hands EXCEPT ![t] = NoSkb]
    BY <1>1, <2>1, HandsChange
  <2> QED
    BY <2>1, <2>2 DEF Hands
<1> QED
  BY <1>1, <1>4, <1>7, <1>8 DEF Stutter

(* prev->next = newsk: the packet leaves the thread's hand for an end of   *)
(* the queue.                                                              *)
LEMMA LinkNextOrder ==
  ASSUME NEW t \in Threads, FifoInv, LinkNext(t)
  PROVE  Ends' /\ Order' /\ (Fifo!PutTail(t, skb[t]) \/ Fifo!PutHead(t, skb[t]))
<1> DEFINE q == Follow(Successor)
           s == skb[t]
<1>1. /\ pc[t] \in {"link", "linknext"} /\ pc'[t] \in {"linkprev", "count"}
      /\ UNCHANGED <<skb, nx, pv, free>> /\ next' = [next EXCEPT ![pv[t]] = s]
      /\ \A u \in Threads \ {t} : pc'[u] = pc[u] /\ skb'[u] = skb[u]
  BY DEF LinkNext, FifoInv, Inv, Types, Goto, locals
<1>2. /\ s \in Skbs /\ s # NoSkb /\ s \in Nodes
      /\ pv[t] \in Queued /\ nx[t] \in Queued /\ s \notin Queued
      /\ \A u \in Threads \ {t} : pc[u] = "idle" /\ pc'[u] = "idle"
      /\ next \in [Nodes -> Nodes \cup {NoSkb}]
  BY <1>1, Working DEF FifoInv, Inv, Types
<1>3. /\ Chain(q, Successor) /\ Elems(q) \subseteq Nodes /\ List \in Nodes
      /\ pv[t] \in Elems(q) \cup {List} /\ pv[t] \in Nodes /\ Linked = {}
      /\ s \notin Elems(q) \cup {List} /\ pv[t] # s
  <2>1. pc[t] \notin Links /\ pc[t] # "idle"
    BY <1>1 DEF Links
  <2>2. Linked = {} /\ s \notin Elems(q) \cup {List}
    BY <1>2, <2>1, OrderFacts
  <2> QED
    BY <1>2, <2>2, OrderFacts
<1>4. Ends'
  <2>1. pv'[t] = List \/ nx'[t] = List
    BY <1>1 DEF FifoInv, Ends
  <2> QED
    BY <1>1, <1>2, <2>1 DEF Ends
<1>5. \A n \in Nodes : Successor[n] = next[n] /\ Successor'[n] = next'[n]
  <2>1. \A u \in Threads : pc[u] \notin Closing /\ pc'[u] \notin Closing
    BY <1>1, <1>2 DEF Closing
  <2> QED
    BY <2>1, SuccOfFacts, SuccessorIs
<1>6. /\ Successor[pv[t]] = nx[t] /\ Successor'[pv[t]] = s /\ Successor'[s] = nx[t]
      /\ Apart(q, pv[t], Successor, Successor')
  <2>1. next[pv[t]] = nx[t] /\ next[s] = nx[t]
    BY <1>1 DEF FifoInv, Inv, Ends, Stores
  <2>2. next'[pv[t]] = s /\ next'[s] = nx[t] /\ \A n \in Nodes \ {pv[t]} : next'[n] = next[n]
    BY <1>1, <1>2, <1>3, <2>1
  <2>3. \A n \in (Elems(q) \cup {List}) \ {pv[t]} : Successor'[n] = Successor[n]
    BY <1>3, <1>5, <2>2
  <2> QED
    BY <1>2, <1>3, <1>5, <2>1, <2>2, <2>3 DEF Apart
<1>7. (Queued' \ {List}) \cup Linked' = Elems(q) \cup {s}
  <2>1. Queued' = Queued
    BY <1>1 DEF Queued
  <2>2. Linked' = {s}
    BY <1>1, <1>2 DEF Linked, Links
  <2> QED
    BY <1>3, <2>1, <2>2 DEF FifoInv, Order
<1>8. Hands[t] = s /\ Hands' = [Hands EXCEPT ![t] = NoSkb]
  <2>1. InHand(t)' = NoSkb /\ Hands[t] = s
    BY <1>1 DEF InHand, Hands
  <2> QED
    BY <1>1, <2>1, HandsChange
<1> HIDE DEF q, s
<1>9. CASE nx[t] = List
  <2>1. Chain(Append(q, s), Successor') /\ Elems(Append(q, s)) = Elems(q) \cup {s}
    BY <1>2, <1>3, <1>6, <1>9, ChainAppend
  <2>2. Order' /\ q' = Append(q, s)
    BY <1>7, <2>1, OrderIs DEF q
  <2>3. Fifo!PutTail(t, s)
    BY <1>1, <1>2, <1>8, <2>2 DEF Fifo!PutTail, Fifo!Holds, Fifo!Hand, Hands, q
  <2> QED
    BY <1>4, <2>2, <2>3 DEF s
<1>10. CASE pv[t] = List
  <2>1. Chain(<<s>> \o q, Successor') /\ Elems(<<s>> \o q) = Elems(q) \cup {s}
    BY <1>2, <1>3, <1>6, <1>10, ChainPrepend
  <2>2. Order' /\ q' = <<s>> \o q
    BY <1>7, <2>1, OrderIs DEF q
  <2>3. Fifo!PutHead(t, s)
    BY <1>1, <1>2, <1>8, <2>2 DEF Fifo!PutHead, Fifo!Holds, Fifo!Hand, Hands, q
  <2> QED
    BY <1>4, <2>2, <2>3 DEF s
<1> QED
  BY <1>1, <1>9, <1>10 DEF FifoInv, Ends

(* prev->next = next: the packet leaves the end of the queue for the hand. *)
LEMMA CloseNextOrder ==
  ASSUME NEW t \in Threads, FifoInv, CloseNext(t)
  PROVE  Ends' /\ Order' /\ (Fifo!TakeHead(t) \/ Fifo!TakeTail(t))
<1> DEFINE q == Follow(Successor)
           s == skb[t]
<1>1. /\ pc[t] = "closenext" /\ pc'[t] = "idle"
      /\ UNCHANGED <<skb, nx, pv, free>> /\ next' = [next EXCEPT ![pv[t]] = nx[t]]
      /\ \A u \in Threads \ {t} : pc'[u] = pc[u] /\ skb'[u] = skb[u]
  BY DEF CloseNext, Release, Goto, FifoInv, Inv, Types, locals
<1>2. /\ s \in Skbs /\ s # NoSkb /\ s \in Nodes
      /\ pv[t] \in Queued /\ s \notin Queued
      /\ \A u \in Threads \ {t} : pc[u] = "idle"
      /\ next \in [Nodes -> Nodes \cup {NoSkb}]
  BY <1>1, Working DEF FifoInv, Inv, Types
<1>3. /\ Chain(q, Successor) /\ Elems(q) \subseteq Nodes /\ List \in Nodes
      /\ pv[t] \in Elems(q) \cup {List} /\ pv[t] \in Nodes /\ Linked = {s} /\ pv[t] # s
      /\ s \in Elems(q) /\ Elems(q) = (Queued \ {List}) \cup {s} /\ s # List
  <2>1. Linked = {s}
    BY <1>1, OrderFacts DEF Links
  <2>2. Elems(q) = (Queued \ {List}) \cup {s} /\ s # List
    BY <1>2, <2>1, RingAssumption DEF FifoInv, Order
  <2> QED
    BY <1>2, <2>1, <2>2, OrderFacts
<1>4. Ends'
  BY <1>1, <1>2 DEF Ends
<1>5. /\ \A n \in Nodes : Successor'[n] = next'[n]
      /\ \A n \in Nodes \ {s} : Successor[n] = next[n]
      /\ Successor[s] = nx[t]
  <2>1. /\ \A u \in Threads : pc'[u] \notin Closing
        /\ pc[t] \in Closing /\ \A u \in Threads \ {t} : pc[u] \notin Closing
    BY <1>1, <1>2 DEF Closing
  <2> QED
    BY <1>2, <2>1, SuccOfFacts, SuccessorIs
<1>6. /\ Successor[pv[t]] = s /\ Successor'[pv[t]] = nx[t]
      /\ \A n \in (Elems(q) \cup {List}) \ {pv[t], s} : Successor'[n] = Successor[n]
  <2>1. next[pv[t]] = s
    BY <1>1 DEF FifoInv, Ends
  <2>2. next'[pv[t]] = nx[t] /\ \A n \in Nodes \ {pv[t]} : next'[n] = next[n]
    BY <1>1, <1>2, <1>3
  <2> QED
    BY <1>3, <1>5, <2>1, <2>2
<1>7. (Queued' \ {List}) \cup Linked' = Elems(q) \ {s}
  <2>1. Queued' = Queued
    BY <1>1 DEF Queued
  <2>2. Linked' = {}
    BY <1>1, <1>2 DEF Linked, Links
  <2> QED
    BY <1>2, <1>3, <2>1, <2>2
<1>8. Hands[t] = NoSkb /\ Hands' = [Hands EXCEPT ![t] = s]
  <2>1. InHand(t)' = s /\ Hands[t] = NoSkb
    BY <1>1 DEF InHand, Hands
  <2> QED
    BY <1>1, <2>1, HandsChange
<1>9. q # <<>> /\ Head(q) = q[1]
  BY <1>3, ChainFacts DEF Elems
<1> HIDE DEF q, s
<1>10. CASE pv[t] = List
  <2>1. q[1] = s
    <3>1. 0 \in 0 .. Len(q) /\ 1 \in 1 .. Len(q)
      BY <1>3, <1>9, ChainFacts
    <3>2. Successor[At(q, 0)] = At(q, 0 + 1)
      BY <1>3, <3>1 DEF Chain
    <3> QED
      BY <1>3, <1>6, <1>10, <3>1, <3>2, ChainFacts
  <2> DEFINE S2 == [n \in Nodes |-> IF n = s THEN Successor[s] ELSE Successor'[n]]
  <2>2. Apart(q, List, Successor, S2) /\ S2[List] = Successor[q[1]]
    BY <1>2, <1>3, <1>5, <1>6, <1>10, <2>1 DEF Apart
  <2> HIDE DEF S2
  <2>3. Chain(Tail(q), S2) /\ Elems(Tail(q)) = Elems(q) \ {s}
    BY <1>3, <1>9, <2>1, <2>2, ChainTail
  <2>4. Chain(Tail(q), Successor')
    <3>1. \A n \in Elems(Tail(q)) \cup {List} : Successor'[n] = S2[n]
      BY <1>3, <2>3 DEF S2
    <3> QED
      BY <2>3, <3>1, ChainSame
  <2>5. Order' /\ q' = Tail(q)
    BY <1>7, <2>3, <2>4, OrderIs DEF q
  <2>6. Fifo!TakeHead(t)
    BY <1>1, <1>8, <1>9, <2>1, <2>5 DEF Fifo!TakeHead, Fifo!Hand, Hands, q
  <2> QED
    BY <1>4, <2>5, <2>6
<1>11. CASE nx[t] = List
  <2> DEFINE r == SubSeq(q, 1, Len(q) - 1)
             S2 == [n \in Nodes |-> IF n = s THEN Successor[s] ELSE Successor'[n]]
  <2>1. Apart(q, pv[t], Successor, S2) /\ S2[pv[t]] = List
    BY <1>2, <1>3, <1>5, <1>6, <1>11 DEF Apart
  <2> HIDE DEF S2
  <2>2. s = q[Len(q)] /\ Chain(r, S2) /\ Elems(r) = Elems(q) \ {s}
    BY <1>3, <1>5, <1>6, <1>11, <2>1, ChainFront
  <2> HIDE DEF r
  <2>3. Chain(r, Successor')
    <3>1. \A n \in Elems(r) \cup {List} : Successor'[n] = S2[n]
      BY <1>3, <2>2 DEF S2
    <3> QED
      BY <2>2, <3>1, ChainSame
  <2>4. Order' /\ q' = r
    BY <1>7, <2>2, <2>3, OrderIs DEF q
  <2>5. Fifo!TakeTail(t)
    BY <1>1, <1>8, <1>9, <2>2, <2>4 DEF Fifo!TakeTail, Fifo!Hand, Hands, q, r
  <2> QED
    BY <1>4, <2>4, <2>5
<1> QED
  BY <1>1, <1>10, <1>11 DEF FifoInv, Ends

(* A packet is allocated, or freed.                                        *)
LEMMA HandsOrder ==
  ASSUME NEW t \in Threads, FifoInv, NEW s \in Skbs, kfree_skb(t) \/ alloc_skb(t, s)
  PROVE  /\ Ends' /\ Order'
         /\ \/ Fifo!Alloc(t, s)
            \/ (skb[t] \in Skbs /\ Fifo!Free(t, skb[t]))
<1>1. /\ pc[t] = "idle" /\ UNCHANGED <<next, prev, qlen, lock, pc, nx, pv>>
      /\ \A u \in Threads \ {t} : skb'[u] = skb[u]
      /\ \/ skb[t] \in Skbs /\ skb[t] # NoSkb /\ skb'[t] = NoSkb /\ free' = free \cup {skb[t]}
         \/ alloc_skb(t, s) /\ skb[t] = NoSkb /\ skb'[t] = s /\ s \in free /\ free' = free \ {s}
  BY DEF kfree_skb, alloc_skb, ring, FifoInv, Inv, Types
<1>2. Ends'
  BY <1>1 DEF FifoInv, Ends
<1>3. Queued' = Queued /\ Linked' = Linked
  <2>1. NoSkb \notin Nodes
    BY QueuedFacts DEF FifoInv, Inv
  <2>2. Queued' = Queued
    BY <1>1, <2>1 DEF Queued
  <2>3. \A u \in Threads : pc'[u] \in Links => skb'[u] = skb[u]
    BY <1>1 DEF Links
  <2>4. Linked' = Linked
    BY <1>1, <2>3 DEF Linked
  <2> QED
    BY <2>2, <2>4
<1>4. ASSUME NEW n \in Nodes PROVE Successor'[n] = Successor[n]
  <2>1. \A u \in Threads : pc[u] \in Closing => skb'[u] = skb[u]
    BY <1>1 DEF Closing
  <2>2. CASE \A u \in Threads : pc[u] \in Closing => skb[u] # n
    BY <1>1, <2>1, <2>2, SuccOfFacts, SuccessorIs
  <2>3. CASE \E u \in Threads : pc[u] \in Closing /\ skb[u] = n
    <3>1. PICK u \in Threads : pc[u] \in Closing /\ skb[u] = n
      BY <2>3
    <3>2. \A v \in Threads \ {u} : pc[v] \notin Closing
      BY <3>1, Working DEF FifoInv, Closing
    <3>3. Successor[skb[u]] = nx[u]
      BY <3>1, <3>2, SuccOfFacts, SuccessorIs
    <3>4. Successor'[skb'[u]] = nx'[u]
      BY <1>1, <2>1, <3>1, <3>2, SuccOfFacts, SuccessorIs
    <3> QED
      BY <1>1, <2>1, <3>1, <3>3, <3>4
  <2> QED
    BY <2>2, <2>3
<1>5. Order' /\ Follow(Successor)' = Follow(Successor)
  BY <1>3, <1>4, OrderFacts, OrderSame
<1>6. Hands[t] = skb[t] /\ Hands' = [Hands EXCEPT ![t] = skb'[t]]
  <2>1. InHand(t)' = skb'[t] /\ Hands[t] = skb[t]
    BY <1>1 DEF InHand, Hands
  <2> QED
    BY <1>1, <2>1, HandsChange
<1>7. CASE skb[t] \in Skbs /\ skb[t] # NoSkb /\ skb'[t] = NoSkb /\ free' = free \cup {skb[t]}
  <2>1. Fifo!Free(t, skb[t])
    BY <1>5, <1>6, <1>7 DEF Fifo!Free, Fifo!Holds, Fifo!Hand, Hands
  <2> QED
    BY <1>2, <1>5, <1>7, <2>1
<1>8. CASE skb[t] = NoSkb /\ skb'[t] = s /\ s \in free /\ free' = free \ {s}
  <2>1. Fifo!Alloc(t, s)
    BY <1>5, <1>6, <1>8 DEF Fifo!Alloc, Fifo!Hand, Hands
  <2> QED
    BY <1>2, <1>5, <2>1
<1> QED
  BY <1>1, <1>7, <1>8

(* Every step keeps the invariant and is a step of the abstract queue, or  *)
(* none.                                                                   *)
LEMMA InitFifoInv == Init => FifoInv /\ Fifo!FifoInit
<1> SUFFICES ASSUME Init PROVE FifoInv /\ Fifo!FifoInit
  OBVIOUS
<1>1. Inv
  BY InitInv
<1>2. \A t \in Threads : pc[t] = "idle" /\ skb[t] = NoSkb
  BY DEF Init
<1>3. /\ List \in Nodes /\ NoSkb \notin Nodes /\ List \notin Skbs
      /\ next[List] = List /\ free = Skbs
  BY RingAssumption DEF Init, Nodes
<1>4. Ends
  BY <1>2 DEF Ends
<1>5. Successor[List] = List
  BY <1>2, <1>3, SuccOfFacts, SuccessorIs DEF Closing
<1>6. Chain(<<>>, Successor) /\ Elems(<<>>) = {}
  <2>1. \A k \in 0 .. Len(<<>>) : Successor[At(<<>>, k)] = At(<<>>, k + 1)
    BY <1>5 DEF At
  <2>2. <<>> \in Seq(Skbs) /\ Len(<<>>) = 0 /\ 1 .. 0 = {}
    OBVIOUS
  <2> QED
    BY <2>1, <2>2 DEF Chain, Elems
<1>7. Follow(Successor) = <<>>
  BY <1>6, FollowChain
<1>8. Queued = {List} /\ Linked = {}
  BY <1>2, <1>3 DEF Queued, Linked, Links, Nodes
<1>9. Order
  BY <1>6, <1>7, <1>8 DEF Order
<1>10. [t \in Threads |-> InHand(t)] = [t \in Threads |-> NoSkb]
  BY <1>2 DEF InHand
<1> QED
  BY <1>1, <1>3, <1>4, <1>7, <1>9, <1>10 DEF FifoInv, Fifo!FifoInit

LEMMA StutterIs == Stutter => UNCHANGED Fifo!fifoVars
  BY DEF Stutter, Hands, Fifo!fifoVars

LEMMA StepFifo ==
  ASSUME FifoInv, NEW t \in Threads,
         Put(t) \/ Take(t) \/ kfree_skb(t) \/ \E s \in Skbs : alloc_skb(t, s)
  PROVE  Ends' /\ Order' /\ [Fifo!FifoNext]_Fifo!fifoVars
<1>1. CASE skb_queue_tail(t) \/ skb_queue_head(t) \/ skb_dequeue(t) \/ skb_dequeue_tail(t)
           \/ InsertOwn(t) \/ LinkPrev(t) \/ ClearOwn(t) \/ ClosePrev(t) \/ InsertCount(t)
  <2>1. Ends' /\ Order' /\ Stutter
    BY <1>1, PutBeginsOrder, TakeBeginsOrder, StoresOrder, InsertCountOrder
  <2> QED
    BY <2>1, StutterIs
<1>2. CASE LinkNext(t)
  <2>1. Ends' /\ Order' /\ (Fifo!PutTail(t, skb[t]) \/ Fifo!PutHead(t, skb[t]))
    BY <1>2, LinkNextOrder
  <2>2. skb[t] \in Skbs
    BY <1>2, Working DEF LinkNext, FifoInv
  <2> QED
    BY <2>1, <2>2 DEF Fifo!FifoNext
<1>3. CASE CloseNext(t)
  <2>1. Ends' /\ Order' /\ (Fifo!TakeHead(t) \/ Fifo!TakeTail(t))
    BY <1>3, CloseNextOrder
  <2> QED
    BY <2>1 DEF Fifo!FifoNext
<1>4. CASE kfree_skb(t) \/ \E s \in Skbs : alloc_skb(t, s)
  <2>1. PICK s \in Skbs : kfree_skb(t) \/ alloc_skb(t, s)
    <3>1. CASE kfree_skb(t)
      <4>1. skb[t] \in Skbs
        BY <3>1 DEF kfree_skb, FifoInv, Inv, Types
      <4> QED
        BY <3>1, <4>1
    <3> QED
      BY <1>4, <3>1
  <2>2. /\ Ends' /\ Order'
        /\ Fifo!Alloc(t, s) \/ (skb[t] \in Skbs /\ Fifo!Free(t, skb[t]))
    BY <2>1, HandsOrder
  <2> QED
    BY <2>2 DEF Fifo!FifoNext
<1> QED
  BY <1>1, <1>2, <1>3, <1>4 DEF Put, Take

LEMMA NextFifoInv == FifoInv /\ [Next]_vars => FifoInv' /\ [Fifo!FifoNext]_Fifo!fifoVars
<1>1. FifoInv /\ [Next]_vars => Inv'
  BY NextInv DEF FifoInv
<1>2. FifoInv /\ Next => Ends' /\ Order' /\ [Fifo!FifoNext]_Fifo!fifoVars
  BY StepFifo DEF Next
<1>3. ASSUME FifoInv, UNCHANGED vars PROVE Ends' /\ Order' /\ UNCHANGED Fifo!fifoVars
  <2>1. UNCHANGED <<next, prev, qlen, lock, pc, skb, nx, pv, free>>
    BY <1>3 DEF vars, ring, locals
  <2>2. Ends'
    BY <1>3, <2>1 DEF FifoInv, Ends
  <2>3. Successor' = Successor
    BY <2>1, SuccessorIs
  <2>4. Queued' = Queued /\ Linked' = Linked
    BY <2>1 DEF Queued, Linked
  <2>5. Order' /\ Follow(Successor)' = Follow(Successor)
    BY <1>3, <2>3, <2>4, OrderSame
  <2>6. Hands' = Hands
    BY <2>1 DEF Hands, InHand
  <2> QED
    BY <2>1, <2>2, <2>5, <2>6, StutterIs DEF Stutter
<1> QED
  BY <1>1, <1>2, <1>3 DEF FifoInv

(* A packet in a chain is at one position, and in no hand or free, as it   *)
(* is queued or in the thread's links.                                     *)
LEMMA FifoInvInOnePlace == FifoInv => PacketsInOnePlace
<1> SUFFICES ASSUME FifoInv PROVE PacketsInOnePlace
  OBVIOUS
<1> DEFINE q == Follow(Successor)
<1>1. Chain(q, Successor) /\ Elems(q) = (Queued \ {List}) \cup Linked
  BY DEF FifoInv, Order
<1>2. Fifo!Queued = Elems(q)
  BY DEF Fifo!Queued, Elems
<1>3. Fifo!Held = {InHand(t) : t \in Threads} \ {NoSkb}
  BY DEF Fifo!Held
<1>4. Elems(q) \cap free = {}
  BY <1>1 DEF FifoInv, Inv, Held, Queued, Linked
<1>5. ASSUME NEW t \in Threads, InHand(t) # NoSkb
      PROVE  /\ InHand(t) = skb[t] /\ skb[t] \notin free
             /\ skb[t] \notin Elems(q)
             /\ \A u \in Threads : InHand(u) = InHand(t) => u = t
  <2>1. InHand(t) = skb[t] /\ pc[t] \notin Links /\ skb[t] # NoSkb
    BY <1>5 DEF InHand, Links
  <2>2. skb[t] \notin Elems(q)
    BY <2>1, OrderFacts
  <2>3. \A u \in Threads : InHand(u) = InHand(t) => skb[u] = skb[t]
    BY <1>5, <2>1 DEF InHand
  <2> QED
    BY <2>1, <2>2, <2>3 DEF FifoInv, Inv, Held
<1>6. \A i, j \in 1 .. Len(q) : q[i] = q[j] => i = j
  BY <1>1 DEF Chain
<1>7. Fifo!Held \cap free = {} /\ Fifo!Queued \cap Fifo!Held = {}
  BY <1>2, <1>3, <1>5
<1>8. \A t, u \in Threads :
        [v \in Threads |-> InHand(v)][t] = [v \in Threads |-> InHand(v)][u]
        /\ [v \in Threads |-> InHand(v)][t] # NoSkb => t = u
  BY <1>5
<1>9. Skbs = Elems(q) \cup Fifo!Held \cup free
  <2>1. /\ free \subseteq Skbs /\ NoSkb \notin Skbs /\ List \notin Skbs
        /\ \A t \in Threads : skb[t] \in Skbs \cup {NoSkb}
        /\ Nodes = Skbs \cup {List}
    BY RingAssumption DEF FifoInv, Inv, Types, Nodes
  <2>2. ASSUME NEW s \in Skbs, s \notin free
        PROVE  s \in Elems(q) \cup Fifo!Held
    <3>1. CASE \A t \in Threads : skb[t] # s
      BY <1>1, <2>1, <2>2, <3>1 DEF Queued
    <3>2. ASSUME NEW t \in Threads, skb[t] = s, pc[t] \in Links
          PROVE  s \in Elems(q)
      BY <1>1, <3>2 DEF Linked
    <3>3. ASSUME NEW t \in Threads, skb[t] = s, pc[t] \notin Links
          PROVE  s \in Fifo!Held
      <4>1. pc[t] \in {"idle", "insert", "link", "linknext"}
        BY <3>3 DEF FifoInv, Inv, Types, Links
      <4>2. InHand(t) = s /\ s # NoSkb
        BY <2>1, <3>3, <4>1 DEF InHand
      <4> QED BY <1>3, <4>2
    <3> QED BY <3>1, <3>2, <3>3
  <2>3. Elems(q) \subseteq Skbs
    <3>1. Queued \ {List} \subseteq Skbs
      BY <2>1 DEF Queued
    <3>2. Linked \subseteq Skbs
      BY <2>1 DEF FifoInv, Inv, Held, Linked, Links
    <3> QED BY <1>1, <3>1, <3>2
  <2>4. Fifo!Held \subseteq Skbs
    BY <1>3, <1>5, <2>1
  <2> QED BY <2>1, <2>2, <2>3, <2>4
<1> QED
  BY <1>2, <1>4, <1>6, <1>7, <1>8, <1>9 DEF PacketsInOnePlace, Fifo!OnePlace

(* While the lock is free the chain is in the next links, and the prev     *)
(* links lead back along it.                                               *)
LEMMA FifoInvWhole == FifoInv => RingIsWhole
<1> SUFFICES ASSUME FifoInv, lock = NoThread PROVE RingIsWhole
  BY DEF RingIsWhole
<1> DEFINE q == Follow(Successor)
           r == [k \in 1 .. Len(q) |-> q[Len(q) + 1 - k]]
<1>1. /\ \A t \in Threads : pc[t] = "idle"
      /\ Ring(Queued, next, prev) /\ Linked = {}
  BY Unlocked, OrderFacts DEF FifoInv
<1>2. \A n \in Nodes : Successor[n] = next[n]
  BY <1>1, SuccOfFacts, SuccessorIs DEF Closing
<1>3. Chain(q, next)
  BY <1>2, OrderFacts, ChainSame
<1>4. Elems(q) \cup {List} = Queued /\ Elems(q) = Queued \ {List}
  BY <1>1, QueuedFacts DEF FifoInv, Inv, Order
<1> HIDE DEF q
<1>5. \A n \in Elems(q) \cup {List} : prev[next[n]] = n
  BY <1>1, <1>4 DEF Ring
<1>6. Chain(r, prev)
  BY <1>3, <1>5, ChainBack
<1>7. Follow(next) = q /\ Follow(prev) = r
  BY <1>3, <1>6, FollowChain
<1>8. /\ Len(q) \in Nat /\ Len(r) = Len(q)
      /\ \A k \in 1 .. Len(q) : r[k] = q[Len(q) + 1 - k]
  BY <1>3, <1>6, ChainFacts
<1>9. qlen = Len(q)
  <2>1. Cardinality(Elems(q)) = Len(q)
    BY <1>3, ChainFits DEF Chain
  <2>2. Cardinality(Queued \ {List}) = Cardinality(Queued) - 1
    BY QueuedFacts, FS_RemoveElement DEF FifoInv, Inv
  <2> QED
    BY <1>4, <2>1, <2>2 DEF FifoInv, Inv, Counted
<1> HIDE DEF r
<1> QED
  BY <1>7, <1>8, <1>9 DEF RingIsWhole

(* Every variable of the ring keeps its type: qlen is never negative, as a *)
(* thread that finds the list head takes nothing (fm_skbuff.c:42-60).      *)
THEOREM QueueTypeCorrect == Spec => []TypeOK
  BY InitInv, NextInv, InvImplies, PTL DEF Spec

(* For any number of threads and packets, whenever the lock is free the    *)
(* neighbours of each queued packet point back to it and qlen counts the   *)
(* queued packets (fm_skbuff.c:25-70, 128-159).                            *)
THEOREM QueueNeighboursAgree == Spec => []NeighboursAgree
  BY InitInv, NextInv, InvImplies, PTL DEF Spec

(* Every packet is at one place of the ring, in one hand, or free, at      *)
(* every store of every operation (fm_skbuff.c:25-70, 128-159).            *)
THEOREM QueuePacketsInOnePlace == Spec => []PacketsInOnePlace
  BY InitFifoInv, NextFifoInv, FifoInvInOnePlace, PTL DEF Spec

(* Whenever the lock is free the prev links lead back along the next links *)
(* and qlen is the length of the queue (fm_skbuff.c:25-70, 128-159).       *)
THEOREM QueueRingIsWhole == Spec => []RingIsWhole
  BY InitFifoInv, NextFifoInv, FifoInvWhole, PTL DEF Spec

(* The stores under the lock implement the queue of SkbFifo, for any       *)
(* number of threads and packets: a put takes effect when prev->next is    *)
(* stored, a take when the ring is closed (fm_skbuff.c:25-70, 128-159).    *)
THEOREM QueueImplementsFifo == Spec => ImplementsFifo
  BY InitFifoInv, NextFifoInv, PTL DEF Spec, ImplementsFifo, Fifo!FifoSpec

=============================================================================
