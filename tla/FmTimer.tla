------------------------------ MODULE FmTimer ------------------------------
(***************************************************************************)
(* The software timers of src/common/fm_timer.c: one POSIX timer whose     *)
(* ticks run clocktick_handler, each in a thread of its own                *)
(* (SIGEV_THREAD), one thread that runs to_handler, and client threads     *)
(* that call fmtimer_add, fmtimer_rearm and fmtimer_del.                   *)
(*                                                                         *)
(* tl.lock guards the two lists and their counters, so a critical section  *)
(* is one step; only to_handler, which calls the timers' functions with    *)
(* the lock held, holds it over several. The lists are sets: the order of  *)
(* their entries decides nothing but the order of the calls.               *)
(***************************************************************************)
EXTENDS Integers, FiniteSets

CONSTANTS
  Clients,        \* threads that call fmtimer_add, _rearm and _del
  Ticks,          \* threads in which clocktick_handler may be running at once
  Nodes,          \* addresses fm_malloc may return for a fmtimer_node
  NoNode,
  Granularities,  \* the gr and interval given to fmtimer_init
  Intervals,
  INT_MAX,        \* the largest int; a u32 goes up to 2 * INT_MAX + 1
  Expiries,       \* the timeouts given to fmtimer_add and, as ints, to fmtimer_rearm
  Functions,      \* what a timer's function does: none, no timer call, or one
  MaxTimers,      \* bound: timers created in a behaviour
  SemMax          \* SEM_VALUE_MAX: sem_post fails at it

ASSUME NodesAssumption    == NoNode \notin Nodes /\ IsFiniteSet(Nodes)
ASSUME GrAssumption       == Granularities \subseteq {"ms", "s", "min", "h"}
ASSUME IntAssumption      == INT_MAX \in Nat
ASSUME IntervalAssumption == Intervals \subseteq 1 .. INT_MAX
ASSUME ExpiryAssumption   == Expiries \subseteq 0 .. 2 * INT_MAX + 1
ASSUME FunctionAssumption == Functions \subseteq {"null", "plain", "api"}
ASSUME BoundAssumption    == MaxTimers \in Nat /\ SemMax \in Nat \ {0}

VARIABLES
  its, interval,            \* tl.its.it_interval and tl.interval
  active_list, expire_list, active_cnt, expire_cnt,
  node,                     \* the memory of the nodes
  timerID,                  \* the static counter
  sem_timer,
  tick,                     \* each run of clocktick_handler
  timer_thrd,               \* the thread in to_handler
  client                    \* each client: step, node, id taken, was it the one returned

lists == <<active_list, expire_list, active_cnt, expire_cnt>>
setup == <<its, interval>>
vars  == <<setup, lists, node, timerID, sem_timer, tick, timer_thrd, client>>

(* The fields "to" and "waited" are history: what was asked for last, and  *)
(* the time the ticks have counted since. Nothing depends on them.         *)
Freed   == [live |-> FALSE, expires |-> 0, function |-> "null", timerID |-> 0,
            to |-> 0, waited |-> 0]
Off     == [s |-> 0, ns |-> 0]
Idle    == [step |-> "idle", node |-> NoNode, id |-> 0, own |-> TRUE]
Ids     == 0 .. MaxTimers

Init ==
  /\ its = Off /\ interval = 0
  /\ active_list = {} /\ expire_list = {} /\ active_cnt = 0 /\ expire_cnt = 0
  /\ node = [n \in Nodes |-> Freed]
  /\ timerID = 0
  /\ sem_timer = 0
  /\ tick = [k \in Ticks |-> "idle"]
  /\ timer_thrd = "wait"
  /\ client = [c \in Clients |-> Idle]

(* expires is an int: a u32 above INT_MAX becomes negative, and what falls *)
(* below the smallest int comes out at the other end.                      *)
INT_MIN  == -INT_MAX - 1
AsInt(u) == IF u > INT_MAX THEN u - 2 * INT_MAX - 2 ELSE u
Wrap(i)  == IF i < INT_MIN THEN i + 2 * INT_MAX + 2 ELSE i

(* The period fmtimer_init computes, in seconds and nanoseconds.           *)
Period(gr, i) ==
  CASE gr = "ms"  -> [s |-> i \div 1000, ns |-> (i % 1000) * 1000]
    [] gr = "s"   -> [s |-> i,           ns |-> 0]
    [] gr = "min" -> [s |-> i * 60,      ns |-> 0]
    [] gr = "h"   -> [s |-> i * 360,     ns |-> 0]
    [] OTHER      -> Off

Running == interval # 0

fmtimer_init(gr, i) ==
  /\ ~Running
  /\ its' = Period(gr, i)
  /\ interval' = i
  /\ UNCHANGED <<lists, node, timerID, sem_timer, tick, timer_thrd, client>>

----------------------------------------------------------------------------
(* to_handler holds tl.lock while it runs the functions.                   *)
LockFree == timer_thrd \notin {"run", "stuck"}

(* clocktick_handler: the walk over the active list, in the lock ... What  *)
(* a test makes of a difference no int holds is up to the compiler.        *)
Aged(n) == Wrap(node[n].expires - interval)
Ticked(n) == [node[n] EXCEPT !.expires = Aged(n), !.waited = node[n].waited + interval]
Overflown == {n \in active_list : node[n].expires - interval < INT_MIN}

(* Mutant: a node is due a tick late.                                      *)
DueLate == {n \in active_list : Aged(n) < 0}

Due == {n \in active_list : Aged(n) <= 0}

TickWalk(k) ==
  /\ Running /\ tick[k] = "idle" /\ LockFree
  /\ node' = [n \in Nodes |-> IF n \in active_list THEN Ticked(n) ELSE node[n]]
  /\ \E odd \in SUBSET Overflown :
       /\ active_list' = active_list \ (Due \cup odd)
       /\ expire_list' = expire_list \cup Due \cup odd
       /\ active_cnt' = active_cnt - Cardinality(Due \cup odd)
       /\ expire_cnt' = expire_cnt + Cardinality(Due \cup odd)
  /\ tick' = [tick EXCEPT ![k] = "post"]
  /\ UNCHANGED <<setup, timerID, sem_timer, timer_thrd, client>>

(* ... and, with the lock given back, the read of expire_cnt and the post. *)
SemPost == sem_timer' = IF sem_timer < SemMax THEN sem_timer + 1 ELSE sem_timer

(* Mutant: the post comes only from the second expiry on.                  *)
TickPostForTwo(k) ==
  /\ tick[k] = "post"
  /\ IF expire_cnt > 1 THEN SemPost ELSE UNCHANGED sem_timer
  /\ tick' = [tick EXCEPT ![k] = "idle"]
  /\ UNCHANGED <<setup, lists, node, timerID, timer_thrd, client>>

TickPost(k) ==
  /\ tick[k] = "post"
  /\ IF expire_cnt > 0 THEN SemPost ELSE UNCHANGED sem_timer
  /\ tick' = [tick EXCEPT ![k] = "idle"]
  /\ UNCHANGED <<setup, lists, node, timerID, timer_thrd, client>>

----------------------------------------------------------------------------
(* Mutant: sem_trywait without a test of its result.                       *)
HandlerWaitNot ==
  /\ Running /\ timer_thrd = "wait"
  /\ sem_timer' = sem_timer - 1
  /\ timer_thrd' = "lock"
  /\ UNCHANGED <<setup, lists, node, timerID, tick, client>>

(* to_handler: one sem_wait, one walk over the expired timers, and the     *)
(* thread ends. A function that calls the timers waits for the lock its    *)
(* own thread holds. Nothing takes the handled timers off expire_cnt.      *)
HandlerWait ==
  /\ Running /\ timer_thrd = "wait" /\ sem_timer > 0
  /\ sem_timer' = sem_timer - 1
  /\ timer_thrd' = "lock"
  /\ UNCHANGED <<setup, lists, node, timerID, tick, client>>

HandlerLock ==
  /\ timer_thrd = "lock"
  /\ timer_thrd' = "run"
  /\ UNCHANGED <<setup, lists, node, timerID, sem_timer, tick, client>>

(* Mutant: fm_free without list_del.                                       *)
HandlerRunLinked(n) ==
  /\ timer_thrd = "run" /\ n \in expire_list
  /\ node' = [node EXCEPT ![n] = Freed]
  /\ timer_thrd' = "done"
  /\ UNCHANGED <<setup, lists, timerID, sem_timer, tick, client>>

HandlerRun(n) ==
  /\ timer_thrd = "run" /\ n \in expire_list
  /\ expire_list' = expire_list \ {n}
  /\ IF node[n].function = "api"
     THEN timer_thrd' = "stuck" /\ UNCHANGED node
     ELSE node' = [node EXCEPT ![n] = Freed] /\ UNCHANGED timer_thrd
  /\ UNCHANGED <<setup, active_list, active_cnt, expire_cnt, timerID, sem_timer, tick,
                 client>>

HandlerEnd ==
  /\ timer_thrd = "run" /\ expire_list = {}
  /\ timer_thrd' = "done"
  /\ UNCHANGED <<setup, lists, node, timerID, sem_timer, tick, client>>

----------------------------------------------------------------------------
(* fmtimer_add: the node is filled in and timerID++ done before the lock   *)
(* is taken; the number returned is read from the node after it is given   *)
(* back, when the node may be freed already.                               *)
Step(c, step) == client' = [client EXCEPT ![c].step = step]

AddFill(c, n, to, f) ==
  /\ Running /\ client[c].step = "idle" /\ timerID < MaxTimers
  /\ ~node[n].live
  /\ node' = [node EXCEPT ![n] = [live |-> TRUE, expires |-> AsInt(to), function |-> f,
                                  timerID |-> 0, to |-> to, waited |-> 0]]
  /\ client' = [client EXCEPT ![c] = [step |-> "stamp", node |-> n, id |-> timerID,
                                      own |-> TRUE]]
  /\ UNCHANGED <<setup, lists, timerID, sem_timer, tick, timer_thrd>>

AddStamp(c) ==
  /\ client[c].step = "stamp"
  /\ timerID' = client[c].id + 1
  /\ node' = [node EXCEPT ![client[c].node].timerID = client[c].id]
  /\ Step(c, "link")
  /\ UNCHANGED <<setup, lists, sem_timer, tick, timer_thrd>>

AddLink(c) ==
  /\ client[c].step = "link" /\ LockFree
  /\ active_list' = active_list \cup {client[c].node}
  /\ active_cnt' = active_cnt + 1
  /\ Step(c, "return")
  /\ UNCHANGED <<setup, expire_list, expire_cnt, node, timerID, sem_timer, tick, timer_thrd>>

AddReturn(c) ==
  LET n == client[c].node IN
  /\ client[c].step = "return"
  /\ \E id \in IF node[n].live THEN {node[n].timerID} ELSE Ids :
       client' = [client EXCEPT ![c] = [Idle EXCEPT !.own = (id = client[c].id)]]
  /\ UNCHANGED <<setup, lists, node, timerID, sem_timer, tick, timer_thrd>>

(* fmtimer_rearm and fmtimer_del look for the number among the active      *)
(* timers: the first one with it is rearmed, every one with it is deleted. *)
Numbered(id) == {n \in active_list : node[n].timerID = id}

fmtimer_rearm(c, id, new) ==
  /\ Running /\ client[c].step = "idle" /\ LockFree
  /\ \E n \in Numbered(id) :
       node' = [node EXCEPT ![n] = [@ EXCEPT !.expires = new, !.to = new, !.waited = 0]]
  /\ UNCHANGED <<setup, lists, timerID, sem_timer, tick, timer_thrd, client>>

(* Mutant: the search stops counting at the first timer it deletes.        *)
fmtimer_delCountOne(c, id) ==
  LET gone == Numbered(id) IN
  /\ Running /\ client[c].step = "idle" /\ LockFree
  /\ active_list' = active_list \ gone
  /\ active_cnt' = IF gone = {} THEN active_cnt ELSE active_cnt - 1
  /\ node' = [n \in Nodes |-> IF n \in gone THEN Freed ELSE node[n]]
  /\ UNCHANGED <<setup, expire_list, expire_cnt, timerID, sem_timer, tick, timer_thrd, client>>

fmtimer_del(c, id) ==
  LET gone == Numbered(id) IN
  /\ Running /\ client[c].step = "idle" /\ LockFree
  /\ active_list' = active_list \ gone
  /\ active_cnt' = active_cnt - Cardinality(gone)
  /\ node' = [n \in Nodes |-> IF n \in gone THEN Freed ELSE node[n]]
  /\ UNCHANGED <<setup, expire_list, expire_cnt, timerID, sem_timer, tick, timer_thrd, client>>

----------------------------------------------------------------------------
Tick(k)  == TickWalk(k) \/ TickPost(k)
Handler  == HandlerWait \/ HandlerLock \/ HandlerEnd \/ \E n \in Nodes : HandlerRun(n)
Add(c)   == AddStamp(c) \/ AddLink(c) \/ AddReturn(c)
Calls(c) == \/ \E n \in Nodes, to \in Expiries, f \in Functions : AddFill(c, n, to, f)
            \/ \E id \in Ids, e \in Expiries : fmtimer_rearm(c, id, AsInt(e))
            \/ \E id \in Ids : fmtimer_del(c, id)

Next ==
  \/ \E gr \in Granularities, i \in Intervals : fmtimer_init(gr, i)
  \/ \E k \in Ticks : Tick(k)
  \/ Handler
  \/ \E c \in Clients : Add(c) \/ Calls(c)

Spec == Init /\ [][Next]_vars

(* The kernel delivers the ticks of a periodic timer, and a thread that    *)
(* can go on does.                                                         *)
FairSpec == Spec /\ (\A k \in Ticks : WF_vars(Tick(k))) /\ WF_vars(Handler)
                 /\ \A c \in Clients : WF_vars(Add(c))

----------------------------------------------------------------------------
NodeType   == [live : BOOLEAN, expires : Int, function : {"null", "plain", "api"},
               timerID : Nat, to : Int, waited : Nat]
ClientType == [step : {"idle", "stamp", "link", "return"}, node : Nodes \cup {NoNode},
               id : Nat, own : BOOLEAN]

(* Every variable stays within its type.                                   *)
TypeOK ==
  /\ its \in [s : Nat, ns : Nat] /\ interval \in Nat
  /\ active_list \subseteq Nodes /\ expire_list \subseteq Nodes
  /\ active_cnt \in Int /\ expire_cnt \in Nat
  /\ node \in [Nodes -> NodeType]
  /\ timerID \in Nat
  /\ sem_timer \in Nat
  /\ tick \in [Ticks -> {"idle", "post"}]
  /\ timer_thrd \in {"wait", "lock", "run", "stuck", "done"}
  /\ client \in [Clients -> ClientType]

(* active_cnt is the length of the active list however additions,          *)
(* deletions of several timers with one number and ticks interleave;       *)
(* expire_cnt is that of the other list until to_handler runs, and, as     *)
(* nothing takes it down, at least that from then on: the unlocked test of *)
(* clocktick_handler never misses a timer, and until then sees none that   *)
(* is not there.                                                           *)
CountsMatch ==
  /\ active_cnt = Cardinality(active_list)
  /\ expire_cnt >= Cardinality(expire_list)
  /\ timer_thrd \in {"wait", "lock"} => expire_cnt = Cardinality(expire_list)

(* No timer is on a list after fm_free, or on both lists, or on a list     *)
(* while the fmtimer_add that fills it in has yet to link it; two          *)
(* additions never fill in the same node.                                  *)
Filling(c) == client[c].step \in {"stamp", "link"}
ListsHoldLiveNodes ==
  /\ \A n \in active_list \cup expire_list : node[n].live
  /\ active_list \cap expire_list = {}
  /\ \A c \in Clients : Filling(c) =>
       /\ node[client[c].node].live
       /\ client[c].node \notin active_list \cup expire_list
       /\ \A d \in Clients \ {c} : Filling(d) => client[d].node # client[c].node

(* A timer is on the active list until the first tick at which the time    *)
(* asked for last has passed, however it was rearmed in between: no tick   *)
(* takes it early and none passes it by. One of no time, or less, runs out *)
(* at the first tick. That is so of every time an int holds and can take   *)
(* an interval off; a longer one, which becomes negative where fmtimer_add *)
(* stores it (fm_timer.c:140, 145), runs out at the first tick, or long    *)
(* after.                                                                  *)
Fits(n) == node[n].to <= INT_MAX /\ node[n].to - interval >= INT_MIN
ExpiredOnTime ==
  /\ \A n \in active_list : Fits(n) =>
       node[n].waited = 0 \/ node[n].waited < node[n].to
  /\ \A n \in expire_list : Fits(n) =>
       /\ node[n].waited > 0 /\ node[n].waited >= node[n].to
       /\ node[n].waited = interval \/ node[n].waited - interval < node[n].to

(* to_handler does not sleep through an expiry: as long as it waits with a *)
(* timer on the expire list, the semaphore is up or a clocktick_handler    *)
(* still has to post it.                                                   *)
NoLostWakeup ==
  timer_thrd = "wait" /\ expire_list # {} =>
    sem_timer > 0 \/ \E k \in Ticks : tick[k] = "post"

(* The first timers that expire are handled: to_handler runs functions     *)
(* until the expire list is empty, or one calls the timers and never       *)
(* returns.                                                                *)
FirstExpiryIsHandled ==
  expire_list # {} /\ timer_thrd = "wait" ~> timer_thrd \in {"done", "stuck"}

(* "return the timerID" (fm_timer.c:139): fmtimer_add returns the number   *)
(* it gave to the timer. Violated: it reads the number from the node after *)
(* the lock is given back, when the timer may have expired, run and been   *)
(* freed.                                                                  *)
AddReturnsTimerID ==
  \A c \in Clients : client[c].own
=============================================================================
