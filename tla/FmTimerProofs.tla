--------------------------- MODULE FmTimerProofs ---------------------------
(***************************************************************************)
(* Proofs about FmTimer: its type, and that its counters, lists, expiry    *)
(* times and the wake-up of to_handler stay right for any number of        *)
(* clients, overlapping ticks and timers.                                  *)
(***************************************************************************)
EXTENDS FmTimer, FiniteSetTheorems, TLAPS

(* A timer of a time an int can count down has counted what the ticks have *)
(* waited since it was asked for.                                          *)
CountedDown(n) == Fits(n) => node[n].expires = node[n].to - node[n].waited
Countdown ==
  /\ interval <= INT_MAX
  /\ \A n \in active_list : CountedDown(n)

(* What a client holds while it adds a timer.                              *)
AddingInv ==
  \A c \in Clients :
    /\ client[c].step # "idle" => client[c].node \in Nodes
    /\ Filling(c) => CountedDown(client[c].node) /\ node[client[c].node].waited = 0

Inv == TypeOK /\ AddingInv /\ ListsHoldLiveNodes /\ Countdown /\ ExpiredOnTime

USE DEF Ids, Running, LockFree, lists, setup

(* The period of every granularity is a pair of naturals.                  *)
LEMMA PeriodType ==
  ASSUME NEW gr, NEW i \in Nat
  PROVE  Period(gr, i) \in [s : Nat, ns : Nat]
<1>1. /\ i \div 1000 \in Nat /\ (i % 1000) * 1000 \in Nat
      /\ i * 60 \in Nat /\ i * 360 \in Nat
  BY SMT
<1> QED BY <1>1 DEF Period, Off

(* The conversions to an int give integers, and keep what an int holds.    *)
LEMMA IntType ==
  ASSUME NEW i \in Int
  PROVE  /\ AsInt(i) \in Int /\ Wrap(i) \in Int /\ INT_MIN \in Int
         /\ i <= INT_MAX => AsInt(i) = i
         /\ i >= INT_MIN => Wrap(i) = i
BY IntAssumption DEF AsInt, Wrap, INT_MIN

(* The initial state satisfies the invariant.                              *)
LEMMA InitInv == Init => Inv
<1> SUFFICES ASSUME Init PROVE Inv
  OBVIOUS
<1>1. TypeOK
  BY DEF Init, TypeOK, Off, Freed, Idle, NodeType, ClientType
<1>2. AddingInv
  BY DEF Init, AddingInv, Filling, Idle
<1>3. ListsHoldLiveNodes
  BY DEF Init, ListsHoldLiveNodes, Filling, Idle
<1>4. ExpiredOnTime /\ Countdown
  BY IntAssumption DEF Init, ExpiredOnTime, Countdown
<1> QED BY <1>1, <1>2, <1>3, <1>4 DEF Inv

(* A set of nodes is finite.                                               *)
LEMMA NodesFinite ==
  ASSUME NEW S, S \subseteq Nodes
  PROVE  IsFiniteSet(S) /\ Cardinality(S) \in Nat
<1>1. IsFiniteSet(S)
  BY FS_Subset, NodesAssumption
<1> QED BY <1>1, FS_CardinalityType

----------------------------------------------------------------------------
(* A rearmed record.                                                       *)
LEMMA Rearmed ==
  ASSUME NEW old \in NodeType, NEW i \in Int
  PROVE  [old EXCEPT !.expires = i, !.to = i, !.waited = 0] \in NodeType
BY DEF NodeType

(* What a tick does to the record of a node.                               *)
LEMMA TickedFields ==
  ASSUME TypeOK, NEW n \in Nodes, Aged(n) \in Int
  PROVE  /\ Ticked(n) \in NodeType
         /\ Ticked(n).live = node[n].live /\ Ticked(n).to = node[n].to
         /\ Ticked(n).expires = Aged(n) /\ Ticked(n).waited = node[n].waited + interval
<1>1. node[n] \in NodeType /\ interval \in Nat
  BY DEF TypeOK
<1>2. node[n].waited + interval \in Nat
  BY <1>1 DEF NodeType
<1> DEFINE old == node[n]  i == Aged(n)  w == node[n].waited + interval
           new == [old EXCEPT !.expires = i, !.waited = w]
<1>3. old \in NodeType /\ i \in Int /\ w \in Nat
  BY <1>1, <1>2
<1>4. Ticked(n) = new
  BY Zenon DEF Ticked
<1> HIDE DEF old, i, w
<1>5. new \in NodeType
  BY <1>3 DEF NodeType
<1>6. new.live = old.live /\ new.to = old.to
  BY <1>3 DEF NodeType
<1>7. new.expires = i /\ new.waited = w
  BY <1>3 DEF NodeType
<1> HIDE DEF new
<1> QED BY <1>4, <1>5, <1>6, <1>7 DEF old, i, w

(* What a tick moves: the nodes that are due, and any whose difference no  *)
(* int holds.                                                              *)
Moved(odd) ==
  /\ active_list' = active_list \ (Due \cup odd)
  /\ expire_list' = expire_list \cup Due \cup odd
  /\ active_cnt' = active_cnt - Cardinality(Due \cup odd)
  /\ expire_cnt' = expire_cnt + Cardinality(Due \cup odd)

(* Each step preserves the types.                                          *)
LEMMA NextType == Inv /\ [Next]_vars => TypeOK'
<1> SUFFICES ASSUME Inv, [Next]_vars PROVE TypeOK'
  OBVIOUS
<1>0. TypeOK
  BY DEF Inv
<1>1. ASSUME NEW gr \in Granularities, NEW i \in Intervals, fmtimer_init(gr, i)
      PROVE  TypeOK'
  <2>1. Period(gr, i) \in [s : Nat, ns : Nat] /\ i \in Nat
    BY PeriodType, IntervalAssumption
  <2> QED BY <2>1, <1>0, <1>1 DEF TypeOK, fmtimer_init
<1>2. ASSUME NEW k \in Ticks, TickWalk(k)
      PROVE  TypeOK'
  <2>1. Due \subseteq Nodes /\ Cardinality(Due) \in Nat
    BY <1>0, NodesFinite DEF Due, TypeOK
  <2>2. \A n \in Nodes : Aged(n) \in Int
    BY <1>0, IntType DEF Aged, TypeOK, NodeType
  <2>3. node' \in [Nodes -> NodeType]
    <3>1. \A n \in Nodes : Ticked(n) \in NodeType
      BY <1>0, <2>2, TickedFields
    <3>2. node' = [n \in Nodes |-> IF n \in active_list THEN Ticked(n) ELSE node[n]]
      BY <1>2 DEF TickWalk
    <3> QED BY <1>0, <3>1, <3>2 DEF TypeOK
  <2>4. PICK odd \in SUBSET Overflown : Moved(odd)
    BY <1>2 DEF TickWalk, Moved
  <2>5. Due \cup odd \subseteq Nodes /\ Cardinality(Due \cup odd) \in Nat
    BY <1>0, <2>1, NodesFinite DEF Overflown, TypeOK
  <2> QED BY <2>3, <2>4, <2>5, <1>0, <1>2 DEF TypeOK, TickWalk, Moved
<1>3. ASSUME NEW k \in Ticks, TickPost(k)
      PROVE  TypeOK'
  BY <1>0, <1>3, BoundAssumption DEF TypeOK, TickPost, SemPost
<1>4. CASE HandlerWait
  BY <1>0, <1>4 DEF TypeOK, HandlerWait
<1>5. CASE HandlerLock
  BY <1>0, <1>5 DEF TypeOK, HandlerLock
<1>6. CASE HandlerEnd
  BY <1>0, <1>6 DEF TypeOK, HandlerEnd
<1>7. ASSUME NEW n \in Nodes, HandlerRun(n)
      PROVE  TypeOK'
  <2>1. Freed \in NodeType
    BY DEF Freed, NodeType
  <2> QED BY <2>1, <1>0, <1>7 DEF TypeOK, HandlerRun
<1>8. ASSUME NEW c \in Clients, AddStamp(c)
      PROVE  TypeOK'
  <2>1. client' \in [Clients -> ClientType] /\ client[c].id \in Nat
    BY <1>0, <1>8 DEF TypeOK, AddStamp, Step, ClientType
  <2>2. node' \in [Nodes -> NodeType]
    BY <1>0, <1>8, <2>1 DEF TypeOK, AddStamp, NodeType
  <2> QED BY <2>1, <2>2, <1>0, <1>8 DEF TypeOK, AddStamp
<1>9. ASSUME NEW c \in Clients, AddLink(c)
      PROVE  TypeOK'
  <2>1. client' \in [Clients -> ClientType]
    BY <1>0, <1>9 DEF TypeOK, AddLink, Step, ClientType
  <2>2. client[c].node \in Nodes
    BY <1>9 DEF Inv, AddingInv, AddLink
  <2> QED BY <2>1, <2>2, <1>0, <1>9 DEF TypeOK, AddLink
<1>10. ASSUME NEW c \in Clients, AddReturn(c)
       PROVE  TypeOK'
  <2>1. client[c].node \in Nodes
    BY <1>10 DEF Inv, AddingInv, AddReturn
  <2> DEFINE Read == IF node[client[c].node].live
                     THEN {node[client[c].node].timerID} ELSE Ids
  <2>2. PICK id \in Read :
          client' = [client EXCEPT ![c] = [Idle EXCEPT !.own = (id = client[c].id)]]
    BY <1>10 DEF AddReturn
  <2> DEFINE back == [Idle EXCEPT !.own = (id = client[c].id)]
  <2>5. back \in ClientType
    BY DEF Idle, ClientType
  <2>6. client' = [client EXCEPT ![c] = back]
    BY <2>2
  <2> HIDE DEF back, Read
  <2>7. client' \in [Clients -> ClientType]
    BY <1>0, <2>5, <2>6 DEF TypeOK
  <2> QED BY <2>7, <1>0, <1>10 DEF TypeOK, AddReturn
<1>11. ASSUME NEW c \in Clients, NEW n \in Nodes, NEW to \in Expiries,
              NEW f \in Functions, AddFill(c, n, to, f)
       PROVE  TypeOK'
  <2> DEFINE filled == [live |-> TRUE, expires |-> AsInt(to), function |-> f, timerID |-> 0,
                        to |-> to, waited |-> 0]
             taken  == [step |-> "stamp", node |-> n, id |-> timerID, own |-> TRUE]
  <2>0. to \in Int /\ AsInt(to) \in Int
    BY ExpiryAssumption, IntAssumption, IntType
  <2>1. filled \in NodeType /\ taken \in ClientType
    BY <1>0, <2>0, FunctionAssumption DEF TypeOK, NodeType, ClientType
  <2>2. node' = [node EXCEPT ![n] = filled] /\ client' = [client EXCEPT ![c] = taken]
    BY <1>11 DEF AddFill
  <2> HIDE DEF filled, taken
  <2> QED BY <2>1, <2>2, <1>0, <1>11 DEF TypeOK, AddFill
<1>12. ASSUME NEW c \in Clients, NEW id \in Ids, NEW e \in Expiries,
              fmtimer_rearm(c, id, AsInt(e))
       PROVE  TypeOK'
  <2>0. AsInt(e) \in Int
    BY ExpiryAssumption, IntAssumption, IntType
  <2> DEFINE new == AsInt(e)
  <2>a. PICK n \in Numbered(id) :
          node' = [node EXCEPT ![n] = [@ EXCEPT !.expires = new, !.to = new, !.waited = 0]]
    BY <1>12 DEF fmtimer_rearm
  <2>b. n \in Nodes /\ node[n] \in NodeType
    BY <1>0 DEF TypeOK, Numbered
  <2> DEFINE rec == [node[n] EXCEPT !.expires = new, !.to = new, !.waited = 0]
  <2>c. rec \in NodeType
    BY <2>0, <2>b, Rearmed
  <2>d. node' = [node EXCEPT ![n] = rec]
    BY <2>a
  <2> HIDE DEF new, rec
  <2>1. node' \in [Nodes -> NodeType]
    BY <1>0, <2>b, <2>c, <2>d DEF TypeOK
  <2> QED BY <2>1, <1>0, <1>12 DEF TypeOK, fmtimer_rearm
<1>13. ASSUME NEW c \in Clients, NEW id \in Ids, fmtimer_del(c, id)
       PROVE  TypeOK'
  <2>1. Cardinality(Numbered(id)) \in Nat
    BY <1>0, NodesFinite DEF Numbered, TypeOK
  <2>2. Freed \in NodeType
    BY DEF Freed, NodeType
  <2>3. node' \in [Nodes -> NodeType]
    BY <1>0, <1>13, <2>2 DEF TypeOK, fmtimer_del
  <2> QED BY <2>1, <2>3, <1>0, <1>13 DEF TypeOK, fmtimer_del
<1>14. CASE UNCHANGED vars
  BY <1>0, <1>14 DEF TypeOK, vars
<1> QED BY <1>1, <1>2, <1>3, <1>4, <1>5, <1>6, <1>7, <1>8, <1>9, <1>10, <1>11,
           <1>12, <1>13, <1>14 DEF Next, Tick, Handler, Add, Calls
----------------------------------------------------------------------------
(* Each step preserves the invariant.                                      *)
LEMMA NextInv == Inv /\ [Next]_vars => Inv'
<1> SUFFICES ASSUME Inv, [Next]_vars PROVE Inv'
  OBVIOUS
<1>0. /\ TypeOK /\ TypeOK' /\ AddingInv /\ ListsHoldLiveNodes
      /\ Countdown /\ ExpiredOnTime
  BY NextType DEF Inv
<1> SUFFICES AddingInv' /\ ListsHoldLiveNodes' /\ Countdown' /\ ExpiredOnTime'
  BY <1>0 DEF Inv
<1> DEFINE Goal == AddingInv' /\ ListsHoldLiveNodes' /\ Countdown' /\ ExpiredOnTime'
<1>a. INT_MIN \in Int /\ INT_MAX \in Nat /\ interval \in Nat
  BY <1>0, IntAssumption DEF INT_MIN, TypeOK
<1>b. \A n \in Nodes : /\ node[n].expires \in Int /\ node[n].to \in Int
                       /\ node[n].waited \in Nat
  BY <1>0 DEF TypeOK, NodeType
<1>1. ASSUME NEW gr \in Granularities, NEW i \in Intervals, fmtimer_init(gr, i)
      PROVE  Goal
  <2>1. /\ active_list' = active_list /\ expire_list' = expire_list
        /\ node' = node /\ client' = client
        /\ interval = 0 /\ interval' \in Nat /\ interval' <= INT_MAX
    BY <1>0, <1>1, IntervalAssumption, IntAssumption DEF fmtimer_init, TypeOK
  <2>2. \A n \in Nodes : Fits(n)' => Fits(n)
    BY <1>a, <1>b, <2>1 DEF Fits
  <2>3. AddingInv' /\ ListsHoldLiveNodes'
    BY <1>0, <2>1, <2>2 DEF AddingInv, ListsHoldLiveNodes, CountedDown, Filling
  <2>4. Countdown'
    BY <1>0, <2>1, <2>2 DEF Countdown, CountedDown, TypeOK
  <2>5. ASSUME NEW n \in expire_list
        PROVE  ~Fits(n)
    BY <1>0, <1>b, <2>1, <2>5 DEF ExpiredOnTime, TypeOK
  <2>6. ExpiredOnTime'
    BY <1>0, <2>1, <2>2, <2>5 DEF ExpiredOnTime, TypeOK
  <2> QED BY <2>3, <2>4, <2>6
<1>2. ASSUME NEW k \in Ticks, TickWalk(k)
      PROVE  Goal
  <2>0. PICK odd \in SUBSET Overflown : Moved(odd)
    BY <1>2 DEF TickWalk, Moved
  <2>1. /\ active_list' \cup expire_list' = active_list \cup expire_list
        /\ active_list' \cap expire_list' = {}
        /\ client' = client /\ interval' = interval /\ interval \in Nat \ {0}
    BY <1>0, <1>2, <2>0 DEF TickWalk, Moved, ListsHoldLiveNodes, TypeOK, Due, Overflown
  <2>2. ASSUME NEW n \in Nodes
        PROVE  /\ node'[n].live = node[n].live /\ node'[n].to = node[n].to
               /\ n \in active_list => /\ node'[n].expires = Aged(n)
                                       /\ node'[n].waited = node[n].waited + interval
               /\ n \notin active_list => node'[n] = node[n]
    <3>1. Aged(n) \in Int
      BY <1>a, <1>b, IntType DEF Aged
    <3>2. node'[n] = IF n \in active_list THEN Ticked(n) ELSE node[n]
      BY <1>2 DEF TickWalk
    <3> QED BY <1>0, <3>1, <3>2, TickedFields
  <2>3. AddingInv'
    BY <1>0, <2>1, <2>2 DEF AddingInv, ListsHoldLiveNodes, CountedDown, Fits, Filling
  <2>4. ListsHoldLiveNodes'
    BY <1>0, <2>1, <2>2 DEF AddingInv, ListsHoldLiveNodes, Filling, TypeOK
  <2>5. \A n \in Nodes : Fits(n)' <=> Fits(n)
    BY <2>1, <2>2 DEF Fits
  <2>6. ASSUME NEW n \in active_list, Fits(n)
        PROVE  /\ node[n].expires - interval >= INT_MIN
               /\ Aged(n) = node[n].to - node'[n].waited
               /\ node'[n].waited > 0
               /\ node'[n].waited = interval \/ node'[n].waited - interval < node[n].to
    <3>1. n \in Nodes /\ node[n].expires = node[n].to - node[n].waited
      BY <1>0, <2>6 DEF TypeOK, Countdown, CountedDown
    <3>2. node[n].waited = 0 \/ node[n].waited < node[n].to
      BY <1>0, <2>6 DEF ExpiredOnTime
    <3>3. node[n].expires - interval >= INT_MIN
      BY <1>0, <1>a, <1>b, <2>6, <3>1, <3>2 DEF Fits, Countdown, INT_MIN
    <3>4. Aged(n) = node[n].expires - interval
      BY <1>a, <1>b, <3>1, <3>3, IntType DEF Aged
    <3>5. node'[n].waited = node[n].waited + interval
      BY <2>2, <2>6, <3>1
    <3> QED BY <1>b, <2>1, <3>1, <3>2, <3>3, <3>4, <3>5
  <2>7. ASSUME NEW n \in active_list', Fits(n)'
        PROVE  CountedDown(n)' /\ node'[n].waited < node'[n].to
    <3>1. n \in active_list /\ n \notin Due /\ n \in Nodes
      BY <1>0, <2>0, <2>7 DEF Moved, TypeOK
    <3>2. Fits(n)
      BY <2>5, <2>7, <3>1
    <3>3. Aged(n) = node[n].to - node'[n].waited /\ ~(Aged(n) <= 0)
      BY <2>6, <3>1, <3>2 DEF Due
    <3>4. node'[n].waited \in Nat
      BY <1>0, <3>1 DEF TypeOK, NodeType
    <3>5. node'[n].expires = Aged(n) /\ node'[n].to = node[n].to
      BY <2>2, <3>1
    <3> QED BY <1>b, <3>1, <3>3, <3>4, <3>5 DEF CountedDown
  <2>8. Countdown'
    BY <1>0, <2>1, <2>7 DEF Countdown, CountedDown
  <2>9. ASSUME NEW n \in expire_list', Fits(n)'
        PROVE  /\ node'[n].waited > 0 /\ node'[n].waited >= node'[n].to
               /\ node'[n].waited = interval \/ node'[n].waited - interval < node'[n].to
    <3>0. n \in Nodes /\ Fits(n)
      BY <1>0, <2>5, <2>9 DEF TypeOK
    <3>1. CASE n \in active_list
      <4>1. n \in Due
        BY <2>0, <2>1, <2>6, <2>9, <3>0, <3>1, <1>a, <1>b
           DEF Moved, Overflown
      <4>2. Aged(n) <= 0
        BY <4>1 DEF Due
      <4>3. node'[n].waited \in Nat
        BY <1>0, <3>0 DEF TypeOK, NodeType
      <4> QED BY <1>b, <2>2, <2>6, <3>0, <3>1, <4>2, <4>3
    <3>2. CASE n \notin active_list
      <4>1. n \in expire_list
        BY <2>1, <2>9, <3>2
      <4> QED BY <1>0, <2>2, <3>0, <3>2, <4>1 DEF ExpiredOnTime
    <3> QED BY <3>1, <3>2
  <2>10. ExpiredOnTime'
    BY <2>1, <2>7, <2>9 DEF ExpiredOnTime
  <2> QED BY <2>3, <2>4, <2>8, <2>10
<1>3. ASSUME NEW k \in Ticks, TickPost(k)
      PROVE  Goal
  BY <1>0, <1>3 DEF TickPost, AddingInv, ListsHoldLiveNodes, ExpiredOnTime, Countdown,
     CountedDown, Fits, Filling
<1>4. CASE HandlerWait \/ HandlerLock \/ HandlerEnd \/ UNCHANGED vars
  BY <1>0, <1>4 DEF HandlerWait, HandlerLock, HandlerEnd, vars, AddingInv,
     ListsHoldLiveNodes, ExpiredOnTime, Countdown, CountedDown, Fits, Filling
<1>5. ASSUME NEW n \in Nodes, HandlerRun(n)
      PROVE  Goal
  <2>1. /\ n \in expire_list /\ expire_list' = expire_list \ {n}
        /\ active_list' = active_list /\ client' = client /\ interval' = interval
        /\ \A m \in Nodes \ {n} : node'[m] = node[m]
    BY <1>0, <1>5 DEF HandlerRun, TypeOK
  <2>2. \A c \in Clients : Filling(c) => client[c].node \in Nodes \ {n}
    BY <1>0, <2>1 DEF AddingInv, ListsHoldLiveNodes, Filling
  <2>3. AddingInv'
    BY <1>0, <2>1, <2>2 DEF AddingInv, CountedDown, Fits, Filling
  <2>4. ListsHoldLiveNodes'
    BY <1>0, <2>1, <2>2 DEF ListsHoldLiveNodes, Filling, TypeOK
  <2>5. Countdown' /\ ExpiredOnTime'
    BY <1>0, <2>1
       DEF Countdown, CountedDown, Fits, ExpiredOnTime, ListsHoldLiveNodes, TypeOK
  <2> QED BY <2>3, <2>4, <2>5
<1>6. ASSUME NEW c \in Clients, AddStamp(c)
      PROVE  Goal
  <2>1. /\ active_list' = active_list /\ expire_list' = expire_list
        /\ interval' = interval
        /\ \A n \in Nodes : /\ node'[n].live = node[n].live
                            /\ node'[n].expires = node[n].expires
                            /\ node'[n].to = node[n].to
                            /\ node'[n].waited = node[n].waited
        /\ \A d \in Clients : client'[d].node = client[d].node
        /\ client[c].step = "stamp" /\ client'[c].step = "link"
        /\ \A d \in Clients \ {c} : client'[d] = client[d]
    BY <1>0, <1>6 DEF AddStamp, Step, TypeOK, NodeType, ClientType
  <2>2. \A d \in Clients : /\ Filling(d)' <=> Filling(d)
                           /\ client'[d].step # "idle" <=> client[d].step # "idle"
    BY <2>1 DEF Filling
  <2>3. AddingInv'
    BY <1>0, <2>1, <2>2 DEF AddingInv, CountedDown, Fits, Filling
  <2>4. ListsHoldLiveNodes'
    BY <1>0, <2>1, <2>2 DEF AddingInv, ListsHoldLiveNodes, TypeOK, Filling
  <2>5. Countdown' /\ ExpiredOnTime'
    BY <1>0, <2>1
       DEF Countdown, CountedDown, Fits, ExpiredOnTime, TypeOK
  <2> QED BY <2>3, <2>4, <2>5
<1>7. ASSUME NEW c \in Clients, AddLink(c)
      PROVE  Goal
  <2>1. /\ active_list' = active_list \cup {client[c].node}
        /\ expire_list' = expire_list
        /\ interval' = interval /\ node' = node
        /\ \A d \in Clients : client'[d].node = client[d].node
        /\ client[c].step = "link" /\ client'[c].step = "return"
        /\ \A d \in Clients \ {c} : client'[d] = client[d]
    BY <1>0, <1>7 DEF AddLink, Step, TypeOK, ClientType
  <2>2. /\ ~Filling(c)' /\ Filling(c)
        /\ \A d \in Clients \ {c} : Filling(d)' <=> Filling(d)
        /\ \A d \in Clients : client'[d].step # "idle" <=> client[d].step # "idle"
    BY <2>1 DEF Filling
  <2>3. AddingInv'
    BY <1>0, <2>1, <2>2 DEF AddingInv, CountedDown, Fits, Filling
  <2>4. ListsHoldLiveNodes'
    BY <1>0, <2>1, <2>2 DEF ListsHoldLiveNodes, Filling
  <2>5. Countdown' /\ ExpiredOnTime'
    BY <1>0, <2>1, <2>2
       DEF Countdown, CountedDown, Fits, ExpiredOnTime, AddingInv
  <2> QED BY <2>3, <2>4, <2>5
<1>8. ASSUME NEW c \in Clients, AddReturn(c)
      PROVE  Goal
  <2>1. /\ active_list' = active_list /\ expire_list' = expire_list
        /\ interval' = interval /\ node' = node
        /\ client'[c].step = "idle"
        /\ \A d \in Clients \ {c} : client'[d] = client[d]
    BY <1>0, <1>8 DEF AddReturn, TypeOK, ClientType, Idle
  <2>2. AddingInv'
    BY <1>0, <2>1 DEF AddingInv, CountedDown, Fits, Filling
  <2>3. ListsHoldLiveNodes' /\ Countdown' /\ ExpiredOnTime'
    BY <1>0, <2>1
       DEF ListsHoldLiveNodes, Countdown, CountedDown, Fits, ExpiredOnTime, Filling
  <2> QED BY <2>2, <2>3
<1>9. ASSUME NEW c \in Clients, NEW n \in Nodes, NEW to \in Expiries,
             NEW f \in Functions, AddFill(c, n, to, f)
      PROVE  Goal
  <2>0. to \in Int /\ (to <= INT_MAX => AsInt(to) = to)
    BY <1>a, ExpiryAssumption, IntType
  <2>1. /\ active_list' = active_list /\ expire_list' = expire_list
        /\ interval' = interval
        /\ ~node[n].live /\ node'[n].live
        /\ node'[n].expires = AsInt(to) /\ node'[n].to = to /\ node'[n].waited = 0
        /\ \A m \in Nodes \ {n} : node'[m] = node[m]
        /\ client'[c].node = n /\ client'[c].step = "stamp"
        /\ \A d \in Clients \ {c} : client'[d] = client[d]
    BY <1>0, <1>9 DEF AddFill, TypeOK
  <2>2. /\ n \notin active_list \cup expire_list
        /\ \A d \in Clients \ {c} : Filling(d) => client[d].node # n
    BY <1>0, <2>1 DEF ListsHoldLiveNodes
  <2>3. Filling(c)' /\ \A d \in Clients \ {c} : Filling(d)' <=> Filling(d)
    BY <2>1 DEF Filling
  <2>4. AddingInv'
    <3>1. CountedDown(n)'
      BY <2>0, <2>1 DEF CountedDown, Fits
    <3> QED BY <1>0, <2>1, <2>2, <2>3, <3>1 DEF AddingInv, CountedDown, Fits, Filling
  <2>5. ListsHoldLiveNodes'
    BY <1>0, <2>1, <2>2, <2>3 DEF ListsHoldLiveNodes, Filling, TypeOK, AddingInv
  <2>6. Countdown' /\ ExpiredOnTime'
    BY <1>0, <2>1, <2>2
       DEF Countdown, CountedDown, Fits, ExpiredOnTime, TypeOK
  <2> QED BY <2>4, <2>5, <2>6
<1>10. ASSUME NEW c \in Clients, NEW id \in Ids, NEW e \in Expiries,
              fmtimer_rearm(c, id, AsInt(e))
       PROVE  Goal
  <2> DEFINE new == AsInt(e)
  <2>0. new \in Int
    BY <1>a, ExpiryAssumption, IntType
  <2>1. PICK n \in Numbered(id) :
          node' = [node EXCEPT ![n] = [@ EXCEPT !.expires = new, !.to = new, !.waited = 0]]
    BY <1>10 DEF fmtimer_rearm
  <2> HIDE DEF new
  <2>2. /\ active_list' = active_list /\ expire_list' = expire_list
        /\ interval' = interval /\ client' = client
        /\ n \in active_list /\ n \in Nodes
        /\ node'[n].live = node[n].live
        /\ node'[n].expires = new /\ node'[n].to = new /\ node'[n].waited = 0
        /\ \A m \in Nodes \ {n} : node'[m] = node[m]
    BY <1>0, <1>10, <2>1 DEF fmtimer_rearm, Numbered, TypeOK, NodeType
  <2>3. AddingInv'
    BY <1>0, <2>0, <2>2 DEF AddingInv, CountedDown, Fits, Filling
  <2>4. ListsHoldLiveNodes'
    BY <1>0, <2>2 DEF ListsHoldLiveNodes, Filling, TypeOK, AddingInv
  <2>5. Countdown' /\ ExpiredOnTime'
    BY <1>0, <2>0, <2>2
       DEF Countdown, CountedDown, Fits, ExpiredOnTime, ListsHoldLiveNodes, TypeOK
  <2> QED BY <2>3, <2>4, <2>5
<1>11. ASSUME NEW c \in Clients, NEW id \in Ids, fmtimer_del(c, id)
       PROVE  Goal
  <2>1. /\ active_list' = active_list \ Numbered(id) /\ expire_list' = expire_list
        /\ Numbered(id) \subseteq active_list
        /\ interval' = interval /\ client' = client
        /\ \A m \in Nodes \ Numbered(id) : node'[m] = node[m]
    BY <1>0, <1>11 DEF fmtimer_del, Numbered, TypeOK
  <2>2. \A d \in Clients : Filling(d) => client[d].node \in Nodes \ Numbered(id)
    BY <1>0, <2>1 DEF AddingInv, ListsHoldLiveNodes, Filling
  <2>3. AddingInv'
    BY <1>0, <2>1, <2>2 DEF AddingInv, CountedDown, Fits, Filling
  <2>4. ListsHoldLiveNodes'
    BY <1>0, <2>1, <2>2 DEF ListsHoldLiveNodes, Filling, TypeOK
  <2>5. Countdown' /\ ExpiredOnTime'
    BY <1>0, <2>1
       DEF Countdown, CountedDown, Fits, ExpiredOnTime, ListsHoldLiveNodes, TypeOK
  <2> QED BY <2>3, <2>4, <2>5
<1> QED BY <1>1, <1>2, <1>3, <1>4, <1>5, <1>6, <1>7, <1>8, <1>9, <1>10, <1>11
        DEF Next, Tick, Handler, Add, Calls

(* The invariant holds throughout.                                         *)
LEMMA InvHolds == Spec => []Inv
<1> QED BY InitInv, NextInv, PTL DEF Spec

(* Every variable of the timers keeps its type.                            *)
THEOREM TimerTypeCorrect == Spec => []TypeOK
<1>1. Inv => TypeOK
  BY DEF Inv
<1> QED BY <1>1, InvHolds, PTL

(* No timer is freed while a list holds it, none is on two lists, and no   *)
(* two additions share a node (fmtimer_add, clocktick_handler, to_handler, *)
(* fmtimer_del).                                                           *)
THEOREM ListsCorrect == Spec => []ListsHoldLiveNodes
<1>1. Inv => ListsHoldLiveNodes
  BY DEF Inv
<1> QED BY <1>1, InvHolds, PTL

(* clocktick_handler moves each timer in the interval it runs out in.      *)
THEOREM OnTimeCorrect == Spec => []ExpiredOnTime
<1>1. Inv => ExpiredOnTime
  BY DEF Inv
<1> QED BY <1>1, InvHolds, PTL
----------------------------------------------------------------------------
(* Taking a part out of a set of nodes lowers its cardinality by the       *)
(* part's, and putting one into a disjoint set raises it.                  *)
LEMMA CardinalityOut ==
  ASSUME NEW S \in SUBSET Nodes, NEW M \in SUBSET S
  PROVE  Cardinality(S \ M) = Cardinality(S) - Cardinality(M)
<1>1. IsFiniteSet(S) /\ S \cap M = M
  BY NodesFinite
<1> QED BY <1>1, FS_Difference

LEMMA CardinalityIn ==
  ASSUME NEW S \in SUBSET Nodes, NEW M \in SUBSET Nodes, S \cap M = {}
  PROVE  Cardinality(S \cup M) = Cardinality(S) + Cardinality(M)
<1>1. IsFiniteSet(S) /\ IsFiniteSet(M)
  BY NodesFinite
<1>2. Cardinality(S) \in Nat /\ Cardinality(M) \in Nat
  BY NodesFinite
<1>3. Cardinality(S \cup M) = Cardinality(S) + Cardinality(M) - Cardinality(S \cap M)
  BY <1>1, FS_Union
<1>4. Cardinality(S \cap M) = 0
  BY FS_EmptySet
<1> QED BY <1>2, <1>3, <1>4

(* Each step keeps the counters in step with the lists.                    *)
LEMMA NextCounts == Inv /\ CountsMatch /\ [Next]_vars => CountsMatch'
<1> SUFFICES ASSUME Inv, CountsMatch, [Next]_vars PROVE CountsMatch'
  OBVIOUS
<1>0. TypeOK /\ AddingInv /\ ListsHoldLiveNodes
  BY DEF Inv
<1>a. /\ active_list \subseteq Nodes /\ expire_list \subseteq Nodes
      /\ Cardinality(active_list) \in Nat /\ Cardinality(expire_list) \in Nat
      /\ active_list \cap expire_list = {}
  BY <1>0, NodesFinite DEF TypeOK, ListsHoldLiveNodes
<1>1. ASSUME NEW k \in Ticks, TickWalk(k)
      PROVE  CountsMatch'
  <2>0. PICK odd \in SUBSET Overflown : Moved(odd)
    BY <1>1 DEF TickWalk, Moved
  <2> DEFINE gone == Due \cup odd
  <2>1. gone \subseteq active_list
    BY DEF Due, Overflown
  <2>2. Cardinality(gone) \in Nat
    BY <1>a, <2>1, NodesFinite
  <2>3. /\ Cardinality(active_list \ gone) = Cardinality(active_list) - Cardinality(gone)
        /\ Cardinality(expire_list \cup gone) = Cardinality(expire_list) + Cardinality(gone)
    <3>1. gone \in SUBSET active_list /\ gone \in SUBSET Nodes /\ expire_list \cap gone = {}
      BY <1>a, <2>1
    <3> HIDE DEF gone
    <3> QED BY <1>a, <3>1, CardinalityOut, CardinalityIn
  <2>4. /\ active_list' = active_list \ gone /\ expire_list' = expire_list \cup gone
        /\ active_cnt' = active_cnt - Cardinality(gone)
        /\ expire_cnt' = expire_cnt + Cardinality(gone)
        /\ timer_thrd' = timer_thrd
    BY <1>1, <2>0 DEF TickWalk, Moved
  <2> HIDE DEF gone
  <2> QED BY <1>0, <1>a, <2>2, <2>3, <2>4 DEF CountsMatch, TypeOK
<1>2. ASSUME NEW n \in Nodes, HandlerRun(n)
      PROVE  CountsMatch'
  <2>1. {n} \subseteq expire_list /\ expire_list' = expire_list \ {n}
    BY <1>2 DEF HandlerRun
  <2>2. Cardinality(expire_list') = Cardinality(expire_list) - Cardinality({n})
    BY <1>a, <2>1, CardinalityOut
  <2>3. Cardinality({n}) \in Nat
    BY NodesFinite
  <2> QED BY <1>0, <1>2, <1>a, <2>2, <2>3 DEF HandlerRun, CountsMatch, TypeOK
<1>3. ASSUME NEW c \in Clients, AddLink(c)
      PROVE  CountsMatch'
  <2> DEFINE n == client[c].node
  <2>1. n \in Nodes /\ n \notin active_list
    BY <1>0, <1>3 DEF AddLink, AddingInv, ListsHoldLiveNodes, Filling
  <2>2. active_list' = active_list \cup {n}
    BY <1>3 DEF AddLink
  <2>3. Cardinality(active_list') = Cardinality(active_list) + 1
    BY <1>a, <2>1, <2>2, NodesFinite, FS_AddElement
  <2> QED BY <1>3, <2>3, <1>a DEF AddLink, CountsMatch
<1>4. ASSUME NEW c \in Clients, NEW id \in Ids, fmtimer_del(c, id)
      PROVE  CountsMatch'
  <2>1. Numbered(id) \subseteq active_list
    BY DEF Numbered
  <2>2. Cardinality(active_list \ Numbered(id)) =
          Cardinality(active_list) - Cardinality(Numbered(id))
    BY <1>a, <2>1, CardinalityOut
  <2>3. /\ active_list' = active_list \ Numbered(id)
        /\ active_cnt' = active_cnt - Cardinality(Numbered(id))
        /\ UNCHANGED <<expire_list, expire_cnt, timer_thrd>>
    BY <1>4 DEF fmtimer_del
  <2> QED BY <2>2, <2>3 DEF CountsMatch
<1>5. ASSUME UNCHANGED lists,
             timer_thrd' \in {"wait", "lock"} => timer_thrd \in {"wait", "lock"}
      PROVE  CountsMatch'
  BY <1>5 DEF CountsMatch
<1>6. ASSUME NEW gr \in Granularities, NEW i \in Intervals, fmtimer_init(gr, i)
      PROVE  UNCHANGED <<lists, timer_thrd>>
  BY <1>6 DEF fmtimer_init
<1>7. ASSUME NEW k \in Ticks, TickPost(k)
      PROVE  UNCHANGED <<lists, timer_thrd>>
  BY <1>7 DEF TickPost
<1>8. CASE HandlerWait \/ HandlerLock \/ HandlerEnd \/ UNCHANGED vars
  BY <1>5, <1>8 DEF HandlerWait, HandlerLock, HandlerEnd, vars
<1>9. ASSUME NEW c \in Clients, AddStamp(c) \/ AddReturn(c)
      PROVE  UNCHANGED <<lists, timer_thrd>>
  BY <1>9 DEF AddStamp, AddReturn
<1>10. ASSUME NEW c \in Clients, NEW n \in Nodes, NEW to \in Expiries,
              NEW f \in Functions, AddFill(c, n, to, f)
       PROVE  UNCHANGED <<lists, timer_thrd>>
  BY <1>10 DEF AddFill
<1>11. ASSUME NEW c \in Clients, NEW id \in Ids, NEW e \in Expiries,
              fmtimer_rearm(c, id, AsInt(e))
       PROVE  UNCHANGED <<lists, timer_thrd>>
  BY <1>11 DEF fmtimer_rearm
<1> QED BY <1>1, <1>2, <1>3, <1>4, <1>5, <1>6, <1>7, <1>8, <1>9, <1>10, <1>11
        DEF Next, Tick, Handler, Add, Calls

(* The counters of the timer lists agree with the lists, whatever the      *)
(* threads do between the unlocked and the locked parts of their calls.    *)
THEOREM CountsCorrect == Spec => []CountsMatch
<1>1. Init => CountsMatch
  BY FS_EmptySet DEF Init, CountsMatch
<1> QED BY <1>1, InvHolds, NextCounts, PTL DEF Spec

----------------------------------------------------------------------------
(* A tick that has moved a timer has yet to post, and finds expire_cnt     *)
(* positive when it does.                                                  *)
LEMMA NextWakeup == Inv /\ CountsMatch /\ NoLostWakeup /\ [Next]_vars => NoLostWakeup'
<1> SUFFICES ASSUME Inv, CountsMatch, NoLostWakeup, [Next]_vars,
                    timer_thrd' = "wait", expire_list' # {}
             PROVE  sem_timer' > 0 \/ \E k \in Ticks : tick'[k] = "post"
  BY DEF NoLostWakeup
<1>0. TypeOK
  BY DEF Inv
<1>1. ASSUME NEW k \in Ticks, TickWalk(k)
      PROVE  tick'[k] = "post"
  BY <1>0, <1>1 DEF TickWalk, TypeOK
<1>2. ASSUME NEW k \in Ticks, TickPost(k)
      PROVE  sem_timer' > 0
  <2>1. expire_list # {} /\ expire_list \subseteq Nodes
    BY <1>0, <1>2 DEF TickPost, TypeOK
  <2>2. Cardinality(expire_list) # 0 /\ Cardinality(expire_list) \in Nat
    BY <2>1, NodesFinite, FS_EmptySet
  <2>3. expire_cnt > 0
    BY <1>0, <2>2 DEF CountsMatch, TypeOK
  <2> QED BY <1>0, <1>2, <2>3, BoundAssumption DEF TickPost, SemPost, TypeOK
<1>3. ASSUME timer_thrd = "wait", expire_list # {}, UNCHANGED <<sem_timer, tick>>
      PROVE  sem_timer' > 0 \/ \E k \in Ticks : tick'[k] = "post"
  BY <1>3 DEF NoLostWakeup
<1>4. ASSUME NEW gr \in Granularities, NEW i \in Intervals, fmtimer_init(gr, i)
      PROVE  UNCHANGED <<lists, timer_thrd, sem_timer, tick>>
  BY <1>4 DEF fmtimer_init
<1>5. ASSUME HandlerWait \/ HandlerLock \/ HandlerEnd \/ \E n \in Nodes : HandlerRun(n)
      PROVE  FALSE
  BY <1>5 DEF HandlerWait, HandlerLock, HandlerEnd, HandlerRun
<1>6. ASSUME NEW c \in Clients, Add(c)
      PROVE  UNCHANGED <<expire_list, timer_thrd, sem_timer, tick>>
  BY <1>6 DEF Add, AddStamp, AddLink, AddReturn
<1>7. ASSUME NEW c \in Clients, Calls(c)
      PROVE  UNCHANGED <<expire_list, timer_thrd, sem_timer, tick>>
  BY <1>7 DEF Calls, AddFill, fmtimer_rearm, fmtimer_del
<1>8. CASE UNCHANGED vars
  BY <1>3, <1>8 DEF vars
<1> QED BY <1>1, <1>2, <1>3, <1>4, <1>5, <1>6, <1>7, <1>8 DEF Next, Tick, Handler

(* to_handler never waits for the semaphore with a timer on the expire     *)
(* list and no post under way, though clocktick_handler reads expire_cnt   *)
(* without the lock.                                                       *)
THEOREM WakeupCorrect == Spec => []NoLostWakeup
<1>1. Init => NoLostWakeup
  BY DEF Init, NoLostWakeup
<1> QED BY <1>1, InvHolds, CountsCorrect, NextWakeup, PTL DEF Spec
=============================================================================
