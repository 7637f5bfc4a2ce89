----------------------------- MODULE TsmRouter -----------------------------
(***************************************************************************)
(* The router of the TSM server (src/tsm_router.c): the reading thread     *)
(* (router_aggregate_work) between epoll, the sockets of the agents, the   *)
(* list of registered agents and the queues, and the sending thread        *)
(* (router_disaggregate_work) that looks an answer's agent up in the same  *)
(* list. The VM threads are here what the router sees of them: packets go  *)
(* in, and some come out as answers (TsmVm has their inside).              *)
(*                                                                         *)
(* One action is one call on a socket, one access to a queue or semaphore, *)
(* or one critical section of agent_list.lock, which is split where the    *)
(* code does not leave it. The lock is a plain mutex: a thread that takes  *)
(* it twice waits for itself, and has no further action.                   *)
(*                                                                         *)
(* A connection is watched edge-triggered and read once per event: a       *)
(* second message waits for the next one. The three calls the compiler     *)
(* takes only with a diagnostic have both outcomes: read(fd, buf[i], 4)    *)
(* fails or reads the header, skb_pull(skb->data, ...) kills the process   *)
(* or not, list_add_entry(.., ae->entry) has its evident meaning.          *)
(***************************************************************************)
EXTENDS Integers, Sequences, FiniteSets

CONSTANTS
  Conns,      \* file descriptors that accept may return
  Server,     \* the listening socket
  Names,      \* names of agents
  NoName,     \* no name: a registration without TAG_AG_NAME
  Vms,        \* the threads of the pool
  MaxConns,   \* bound: connections peers open
  MaxMsgs     \* bound: messages peers send

ASSUME ConnsAssumption == Server \notin Conns
ASSUME NamesAssumption == NoName \notin Names
ASSUME VmsAssumption   == IsFiniteSet(Vms)
ASSUME BoundAssumption == MaxConns \in Nat /\ MaxMsgs \in Nat

(* What a message turns out to be: "late" is one whose payload is not all  *)
(* there when it is read. A registration names the agent, or does not.     *)
Kinds == {"create", "data", "reg", "unreg", "late"}
Msg   == [kind : Kinds \ {"reg"}, name : {NoName}]
           \cup [kind : {"reg"}, name : Names \cup {NoName}]
Sock  == [gen : Nat, open : BOOLEAN, inbox : Seq(Msg), edge : BOOLEAN,
          peer : {"up", "closed", "reset"}]
Agent == [name : Names \cup {NoName}, fd : Conns, gen : Nat]

NoMsg  == [kind |-> "data", name |-> NoName]
NoSock == [gen |-> 0, open |-> FALSE, inbox |-> <<>>, edge |-> FALSE, peer |-> "closed"]

VARIABLES
  sock,                     \* the sockets; gen numbers the connections of an fd
  backlog, conns, sent,     \* connections waiting; connections and messages so far
  agent_list, agent_lock,   \* the registered agents, and the list's lock
  reader, todo, fd, msg,    \* reading thread: step, events left, fd, message
  writer, dest,             \* sending thread: step, agent of the answer
  wpkg_list, sem_router_w,  \* the agents of the queued answers; their semaphore
  vm, rpkg,                 \* VM threads: step; packets handed to them
  fault                     \* the process died

netVars    == <<sock, backlog, conns, sent>>
agentVars  == <<agent_list, agent_lock>>
readerVars == <<reader, todo, fd, msg>>
writerVars == <<writer, dest>>
queueVars  == <<wpkg_list, sem_router_w>>
vmVars     == <<vm, rpkg>>
vars == <<netVars, agentVars, readerVars, writerVars, queueVars, vmVars, fault>>

Init ==
  /\ sock = [c \in Conns |-> NoSock]
  /\ backlog = 0 /\ conns = 0 /\ sent = 0
  /\ agent_list = <<>> /\ agent_lock = "free"
  /\ reader = "wait" /\ todo = {} /\ fd = Server /\ msg = NoMsg
  /\ writer = "wait" /\ dest = NoName
  /\ wpkg_list = <<>> /\ sem_router_w = 0
  /\ vm = [v \in Vms |-> "idle"] /\ rpkg = 0
  /\ fault = FALSE

Die == fault' = TRUE /\ UNCHANGED <<netVars, agentVars, readerVars, writerVars,
                                    queueVars, vmVars>>

----------------------------------------------------------------------------
(* The agents' side of the sockets.                                        *)
PeerConnect ==
  /\ conns < MaxConns
  /\ conns' = conns + 1 /\ backlog' = backlog + 1
  /\ UNCHANGED <<sock, sent, agentVars, readerVars, writerVars, queueVars, vmVars, fault>>

Heard(c, inbox, peer) ==
  [sock[c] EXCEPT !.inbox = inbox, !.peer = peer, !.edge = TRUE]

PeerSend(c, m) ==
  /\ sent < MaxMsgs
  /\ sock[c].open /\ sock[c].peer = "up"
  /\ sock' = [sock EXCEPT ![c] = Heard(c, Append(sock[c].inbox, m), "up")]
  /\ sent' = sent + 1
  /\ UNCHANGED <<backlog, conns, agentVars, readerVars, writerVars, queueVars, vmVars, fault>>

(* The peer closes, what it sent stays readable; or the connection breaks, *)
(* and what was not read is gone.                                          *)
PeerEnd(c) ==
  /\ sock[c].open /\ sock[c].peer = "up"
  /\ \E how \in {"closed", "reset"} :
       sock' = [sock EXCEPT ![c] = Heard(c, IF how = "closed" THEN sock[c].inbox ELSE <<>>, how)]
  /\ UNCHANGED <<backlog, conns, sent, agentVars, readerVars, writerVars, queueVars, vmVars,
                 fault>>

Peers == PeerConnect \/ \E c \in Conns : PeerEnd(c) \/ \E m \in Msg : PeerSend(c, m)

----------------------------------------------------------------------------
(* router_aggregate_work.                                                  *)
ReaderAt(step) == ~fault /\ reader = step

(* epoll_wait: the listening socket while connections wait, and every      *)
(* connection on which something happened since it was last reported.      *)
Ready == {c \in Conns : sock[c].open /\ sock[c].edge}
           \cup (IF backlog > 0 THEN {Server} ELSE {})

ReaderWait ==
  /\ ReaderAt("wait") /\ Ready # {}
  /\ todo' = Ready
  /\ sock' = [c \in Conns |-> [sock[c] EXCEPT !.edge = FALSE]]
  /\ reader' = "event"
  /\ UNCHANGED <<backlog, conns, sent, agentVars, fd, msg, writerVars, queueVars, vmVars, fault>>

ReaderBatchEnd ==
  /\ ReaderAt("event") /\ todo = {}
  /\ reader' = "wait" /\ fd' = Server /\ msg' = NoMsg
  /\ UNCHANGED <<netVars, agentVars, todo, writerVars, queueVars, vmVars, fault>>

(* skt_do_accept. accept may fail, for good (the peer is gone) or for the  *)
(* moment (no descriptor): only calls on -1 follow.                        *)
ReaderAccept ==
  /\ ReaderAt("event") /\ Server \in todo
  /\ todo' = todo \ {Server}
  /\ \/ \E c \in Conns :
          /\ ~sock[c].open
          /\ sock' = [sock EXCEPT ![c] = [NoSock EXCEPT !.gen = sock[c].gen + 1,
                                                        !.open = TRUE, !.peer = "up"]]
          /\ backlog' = backlog - 1
     \/ backlog' \in {backlog, backlog - 1} /\ UNCHANGED sock
  /\ UNCHANGED <<conns, sent, agentVars, reader, fd, msg, writerVars, queueVars, vmVars, fault>>

(* The first four bytes: nothing there or a broken connection (-1), the    *)
(* end (0), or a message. router_do_read: the header can be read, or       *)
(* cannot.                                                                 *)
HeaderStep(m) ==
  CASE m.kind = "data"                      -> "vm"
    [] m.kind \in {"create", "reg", "unreg"} -> "parse"
    [] m.kind = "late"                      -> "spin"

ReaderRead(c) ==
  /\ ReaderAt("event") /\ c \in todo
  /\ todo' = todo \ {c}
  /\ fd' = c
  /\ IF sock[c].inbox = <<>>
     THEN /\ reader' = IF sock[c].peer = "closed" THEN "close" ELSE "event"
          /\ UNCHANGED <<sock, msg>>
     ELSE /\ sock' = [sock EXCEPT ![c].inbox = Tail(@)]
          /\ msg' = Head(sock[c].inbox)
          /\ reader' \in {"drain", HeaderStep(msg')}
  /\ UNCHANGED <<backlog, conns, sent, agentVars, writerVars, queueVars, vmVars, fault>>

(* clear_buffer reads until read returns 0, and read returns 0 only when   *)
(* the connection is over: while the peer is silent the thread spins.      *)
ReaderDrain ==
  /\ ReaderAt("drain")
  /\ sock[fd].inbox # <<>> \/ sock[fd].peer # "up"
  /\ sock' = [sock EXCEPT ![fd].inbox = <<>>]
  /\ reader' = IF sock[fd].peer # "up" THEN "event" ELSE "drain"
  /\ UNCHANGED <<backlog, conns, sent, agentVars, todo, fd, msg, writerVars, queueVars, vmVars,
                 fault>>

(* The payload was not all there: read returns -1, so that "left" grows    *)
(* and "pos" moves back. What comes next is taken for payload; the stores  *)
(* in front of the packet may kill the process, or the sum may come out at *)
(* zero. At the end of the connection the thread spins.                    *)
ReaderSpin ==
  /\ ReaderAt("spin") /\ sock[fd].inbox # <<>>
  /\ \/ Die
     \/ /\ sock' = [sock EXCEPT ![fd].inbox = Tail(@)]
        /\ reader' \in {"spin", "vm"}
        /\ UNCHANGED <<backlog, conns, sent, agentVars, todo, fd, msg, writerVars, queueVars,
                       vmVars, fault>>

(* A control message: router_parse_tlv copies every value from behind the  *)
(* first head and advances by lengths only, so that it may never end, or   *)
(* read far outside; then the payload is pulled. INS_UNREG_AGENT does      *)
(* nothing, and the packet is lost.                                        *)
ReaderParse ==
  /\ ReaderAt("parse")
  /\ \/ Die
     \/ /\ reader' \in {"hung", CASE msg.kind = "create" -> "vm"
                                  [] msg.kind = "reg"    -> "register"
                                  [] msg.kind = "unreg"  -> "event"}
        /\ UNCHANGED <<netVars, agentVars, todo, fd, msg, writerVars, queueVars, vmVars, fault>>

(* A packet for the VM, or, "agent" never being set, for the probe.        *)
ReaderToVm ==
  /\ ReaderAt("vm")
  /\ rpkg' \in {rpkg, rpkg + 1}
  /\ reader' = "event"
  /\ UNCHANGED <<netVars, agentVars, todo, fd, msg, writerVars, queueVars, vm, fault>>

(* INS_REG_AGENT: the agent is listed with the descriptor it registered    *)
(* on, then told. list_add_entry is given ae->entry, not its address: the  *)
(* process dies, or the evident meaning. Without a name, strlen(ae->name)  *)
(* kills the process.                                                      *)
ReaderRegister ==
  /\ ReaderAt("register") /\ agent_lock = "free"
  /\ \/ Die
     \/ /\ msg.name # NoName
        /\ agent_list' = Append(agent_list,
                                [name |-> msg.name, fd |-> fd, gen |-> sock[fd].gen])
        /\ reader' = "ack"
        /\ UNCHANGED <<netVars, agent_lock, todo, fd, msg, writerVars, queueVars, vmVars, fault>>

ReaderAck ==
  /\ ReaderAt("ack")
  /\ wpkg_list' = Append(wpkg_list, msg.name)
  /\ reader' = "ackpost"
  /\ UNCHANGED <<netVars, agentVars, todo, fd, msg, writerVars, sem_router_w, vmVars, fault>>

(* Mutant: the post that wakes the sending thread is forgotten.            *)
ReaderAckQuiet ==
  /\ ReaderAt("ackpost")
  /\ reader' = "event"
  /\ UNCHANGED <<netVars, agentVars, todo, fd, msg, writerVars, queueVars, vmVars, fault>>

ReaderAckPost ==
  /\ ReaderAt("ackpost")
  /\ sem_router_w' = sem_router_w + 1
  /\ reader' = "event"
  /\ UNCHANGED <<netVars, agentVars, todo, fd, msg, writerVars, wpkg_list, vmVars, fault>>

(* router_unregister_agent: the descriptor is closed first, and may be     *)
(* given out again from here on.                                           *)
ReaderClose ==
  /\ ReaderAt("close")
  /\ sock' = [sock EXCEPT ![fd] = [NoSock EXCEPT !.gen = sock[fd].gen]]
  /\ reader' = "unregister"
  /\ UNCHANGED <<backlog, conns, sent, agentVars, todo, fd, msg, writerVars, queueVars, vmVars,
                 fault>>

ReaderUnregister ==
  /\ ReaderAt("unregister") /\ agent_lock = "free"
  /\ agent_lock' = "reader"
  /\ reader' = "scan"
  /\ UNCHANGED <<netVars, agent_list, todo, fd, msg, writerVars, queueVars, vmVars, fault>>

(* Mutant: an agent that is found is left in the list, the lock given back.*)
ReaderScanSkip ==
  /\ ReaderAt("scan")
  /\ agent_lock' = "free"
  /\ reader' = "event"
  /\ UNCHANGED <<netVars, agent_list, todo, fd, msg, writerVars, queueVars, vmVars, fault>>

(* With the list locked, list_del_entry of the agent found locks it again. *)
OfFd(c) == {k \in DOMAIN agent_list : agent_list[k].fd = c}
ReaderScan ==
  /\ ReaderAt("scan")
  /\ IF OfFd(fd) # {}
     THEN reader' = "relock" /\ UNCHANGED agent_lock
     ELSE reader' = "event" /\ agent_lock' = "free"
  /\ UNCHANGED <<netVars, agent_list, todo, fd, msg, writerVars, queueVars, vmVars, fault>>

Reader ==
  \/ ReaderWait \/ ReaderBatchEnd \/ ReaderAccept \/ (\E c \in Conns : ReaderRead(c))
  \/ ReaderDrain \/ ReaderSpin \/ ReaderParse \/ ReaderToVm
  \/ ReaderRegister \/ ReaderAck \/ ReaderAckPost
  \/ ReaderClose \/ ReaderUnregister \/ ReaderScan

----------------------------------------------------------------------------
(* The VM threads, as the router sees them: a packet is taken, and ends    *)
(* with an answer for the agent its APDUs name, or without one.            *)
VmTake(v) ==
  /\ ~fault /\ vm[v] = "idle" /\ rpkg > 0
  /\ rpkg' = rpkg - 1
  /\ \E end \in {"idle", "answer"} : vm' = [vm EXCEPT ![v] = end]
  /\ UNCHANGED <<netVars, agentVars, readerVars, writerVars, queueVars, fault>>

VmAnswer(v) ==
  /\ ~fault /\ vm[v] = "answer"
  /\ \E n \in Names : wpkg_list' = Append(wpkg_list, n)
  /\ vm' = [vm EXCEPT ![v] = "post"]
  /\ UNCHANGED <<netVars, agentVars, readerVars, writerVars, sem_router_w, rpkg, fault>>

(* Mutant: the answer is queued and the post forgotten.                    *)
VmPostQuiet(v) ==
  /\ ~fault /\ vm[v] = "post"
  /\ vm' = [vm EXCEPT ![v] = "idle"]
  /\ UNCHANGED <<netVars, agentVars, readerVars, writerVars, queueVars, rpkg, fault>>

VmPost(v) ==
  /\ ~fault /\ vm[v] = "post"
  /\ sem_router_w' = sem_router_w + 1
  /\ vm' = [vm EXCEPT ![v] = "idle"]
  /\ UNCHANGED <<netVars, agentVars, readerVars, writerVars, wpkg_list, rpkg, fault>>

Vm(v) == VmTake(v) \/ VmAnswer(v) \/ VmPost(v)

----------------------------------------------------------------------------
(* router_disaggregate_work.                                               *)
WriterAt(step) == ~fault /\ writer = step

(* Mutant: sem_trywait without a test of its result.                       *)
WriterWaitNot ==
  /\ WriterAt("wait")
  /\ sem_router_w' = sem_router_w - 1
  /\ writer' = "dequeue"
  /\ UNCHANGED <<netVars, agentVars, readerVars, dest, wpkg_list, vmVars, fault>>

WriterWait ==
  /\ WriterAt("wait") /\ sem_router_w > 0
  /\ sem_router_w' = sem_router_w - 1
  /\ writer' = "dequeue"
  /\ UNCHANGED <<netVars, agentVars, readerVars, dest, wpkg_list, vmVars, fault>>

(* The head is pushed on what skb_dequeue returned, untested.              *)
WriterDequeue ==
  /\ WriterAt("dequeue")
  /\ IF wpkg_list = <<>>
     THEN Die
     ELSE /\ dest' = Head(wpkg_list)
          /\ wpkg_list' = Tail(wpkg_list)
          /\ writer' = "find"
          /\ UNCHANGED <<netVars, agentVars, readerVars, sem_router_w, vmVars, fault>>

WriterFind ==
  /\ WriterAt("find") /\ agent_lock = "free"
  /\ agent_lock' = "writer"
  /\ writer' = "search"
  /\ UNCHANGED <<netVars, agent_list, readerVars, dest, queueVars, vmVars, fault>>

(* router_get_des_wfd: where it finds the agent it locks the list again;   *)
(* where it does not, it gives the lock back and the answer is freed.      *)
Named(n) == {k \in DOMAIN agent_list : agent_list[k].name = n}
(* Mutant: the lock is not given back when no agent is found.              *)
WriterSearchKeeps ==
  /\ WriterAt("search")
  /\ writer' = IF Named(dest) # {} THEN "relock" ELSE "wait"
  /\ UNCHANGED <<netVars, agentVars, readerVars, dest, queueVars, vmVars, fault>>

WriterSearch ==
  /\ WriterAt("search")
  /\ IF Named(dest) # {}
     THEN writer' = "relock" /\ UNCHANGED <<agent_lock, dest>>
     ELSE writer' = "wait" /\ agent_lock' = "free" /\ dest' = NoName
  /\ UNCHANGED <<netVars, agent_list, readerVars, queueVars, vmVars, fault>>

Writer == WriterWait \/ WriterDequeue \/ WriterFind \/ WriterSearch

Next == Peers \/ Reader \/ Writer \/ \E v \in Vms : Vm(v)

Spec == Init /\ [][Next]_vars

(* Every thread that can run does; nothing is assumed of the peers.        *)
Fairness == WF_vars(Reader) /\ WF_vars(Writer) /\ \A v \in Vms : WF_vars(Vm(v))
FairSpec == Spec /\ Fairness

----------------------------------------------------------------------------
ReaderSteps == {"wait", "event", "drain", "spin", "hung", "parse", "vm", "register", "ack",
                "ackpost", "close", "unregister", "scan", "relock"}
WriterSteps == {"wait", "dequeue", "find", "search", "relock"}

TypeOK ==
  /\ sock \in [Conns -> Sock]
  /\ backlog \in Nat /\ conns \in Nat /\ sent \in Nat
  /\ agent_list \in Seq(Agent) /\ agent_lock \in {"free", "reader", "writer"}
  /\ reader \in ReaderSteps /\ todo \subseteq Conns \cup {Server}
  /\ fd \in Conns \cup {Server} /\ msg \in Msg
  /\ writer \in WriterSteps /\ dest \in Names \cup {NoName}
  /\ wpkg_list \in Seq(Names) /\ sem_router_w \in Nat
  /\ vm \in [Vms -> {"idle", "answer", "post"}] /\ rpkg \in Nat
  /\ fault \in BOOLEAN

(* Every unit of sem_router_w, and the one the sending thread has taken    *)
(* and not used, stands for one answer of wpkg_list, though the reading    *)
(* thread and the VM threads all produce: the sending thread never gets    *)
(* NULL from skb_dequeue (tsm_router.c:277-280, 240-241, tsm_vm.c:167).    *)
TokensMatchAnswers ==
  sem_router_w + (IF writer = "dequeue" THEN 1 ELSE 0)
               + (IF reader = "ackpost" THEN 1 ELSE 0)
               + Cardinality({v \in Vms : vm[v] = "post"})
     = Len(wpkg_list)

(* The lock of agent_list is taken by who walks the list, and only by it;  *)
(* and a thread that stops for good on it stops on its own lock, because   *)
(* of an agent that is listed: the writer because the answer's agent is,   *)
(* the reader because the closed connection's is (tsm_router.c:51-61, 148- *)
(* 166). While no agent is registered nobody stops.                        *)
StopsOnlyOnListedAgent ==
  /\ agent_lock = "reader" <=> reader \in {"scan", "relock"}
  /\ agent_lock = "writer" <=> writer \in {"search", "relock"}
  /\ reader = "relock" => OfFd(fd) # {}
  /\ writer = "relock" => Named(dest) # {}

(* The descriptor of a listed agent still is the connection it registered  *)
(* on: it is open, or the reading thread is about to stop on it for good.  *)
(* The descriptor of a closed connection is given out again, and an answer *)
(* for the old agent would go to the new peer (tsm_router.c:153-161).      *)
AgentKeepsItsConnection ==
  \A k \in DOMAIN agent_list :
    LET c == agent_list[k].fd IN
    /\ sock[c].gen = agent_list[k].gen
    /\ sock[c].open \/ (fd = c /\ reader \in {"unregister", "scan", "relock"})

(* An answer that is queued, and a registration that was listed, are dealt *)
(* with: the answer is taken by the sending thread, the agent gets its     *)
(* acknowledgement queued and posted, unless the process died or a thread  *)
(* stopped on its own lock (tsm_router.c:224-242, 277-292).                *)
Stopped == fault \/ reader = "relock" \/ writer = "relock"
AnswersAreTaken == (wpkg_list # <<>>) ~> (writer = "dequeue" \/ Stopped)
RegistrationsAreAcked == (reader = "register") ~> (reader = "event" \/ Stopped)
=============================================================================
