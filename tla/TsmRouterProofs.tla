-------------------------- MODULE TsmRouterProofs --------------------------
(***************************************************************************)
(* Proofs about the router, for every number of descriptors, agents and    *)
(* VM threads and for all bounds.                                          *)
(***************************************************************************)
EXTENDS TsmRouter, FiniteSetTheorems, SequenceTheorems, TLAPS

(* While the reading thread works on a connection, the connection is open, *)
(* or its descriptor was just closed; the events it has not come to yet    *)
(* are those of other, open connections.                                   *)
Working == {"drain", "spin", "hung", "parse", "vm", "register", "ack", "ackpost", "close"}
Closing == {"unregister", "scan", "relock"}

ReaderInv ==
  /\ reader \in Working => fd \in Conns /\ sock[fd].open
  /\ reader \in Closing => fd \in Conns /\ fd \notin todo
  /\ reader \in Working => fd \notin todo
  /\ \A c \in todo : c \in Conns => sock[c].open
  /\ Server \in todo => backlog > 0

(* What the parser gets is a control message, and only a registration gets *)
(* to the list of agents.                                                  *)
MsgInv ==
  /\ reader = "parse" => msg.kind \in {"create", "reg", "unreg"}
  /\ reader \in {"ack", "ackpost"} => msg.name \in Names

TypeInv == TypeOK /\ ReaderInv /\ MsgInv

LEMMA TypeInit == Init => TypeInv
<1> SUFFICES ASSUME Init PROVE TypeInv
  OBVIOUS
<1>1. NoMsg \in Msg
  BY DEF NoMsg, Msg, Kinds
<1>2. NoSock \in Sock
  BY DEF NoSock, Sock
<1>3. agent_list \in Seq(Agent) /\ wpkg_list \in Seq(Names)
  BY DEF Init
<1>4. sock \in [Conns -> Sock] /\ vm \in [Vms -> {"idle", "answer", "post"}]
  BY <1>2 DEF Init
<1> QED
  BY <1>1, <1>3, <1>4 DEF Init, TypeInv, TypeOK, ReaderInv, MsgInv, ReaderSteps, WriterSteps,
     Working, Closing

(* The variables a thread other than the reader leaves alone are all that  *)
(* ReaderInv and MsgInv speak of.                                          *)
LEMMA ReaderKeeps ==
  ASSUME ReaderInv, MsgInv, UNCHANGED <<sock, backlog, readerVars>>
  PROVE  ReaderInv' /\ MsgInv'
  BY DEF ReaderInv, MsgInv, readerVars

(* One socket changes.                                                     *)
SockIs(c, k) ==
  /\ sock' \in [Conns -> Sock] /\ sock'[c] = k
  /\ \A d \in Conns \ {c} : sock'[d] = sock[d]

LEMMA SockStore ==
  ASSUME sock \in [Conns -> Sock], NEW c \in Conns, NEW k \in Sock,
         sock' = [sock EXCEPT ![c] = k]
  PROVE  SockIs(c, k)
  BY DEF SockIs

LEMMA TypePeers == TypeInv /\ Peers => TypeInv'
<1> SUFFICES ASSUME TypeInv, Peers PROVE TypeInv'
  OBVIOUS
<1> USE DEF TypeInv, TypeOK, agentVars, readerVars, writerVars, queueVars, vmVars
<1>1. CASE PeerConnect
  BY <1>1 DEF PeerConnect, ReaderInv, MsgInv
<1>2. ASSUME NEW c \in Conns, NEW inbox \in Seq(Msg), NEW how \in {"up", "closed", "reset"},
             sock' = [sock EXCEPT ![c] = Heard(c, inbox, how)]
      PROVE  sock' \in [Conns -> Sock] /\ \A d \in Conns : sock'[d].open = sock[d].open
  <2>1. sock[c] \in Sock
    OBVIOUS
  <2>2. Heard(c, inbox, how) \in Sock /\ Heard(c, inbox, how).open = sock[c].open
    BY <2>1 DEF Sock, Heard
  <2>3. SockIs(c, Heard(c, inbox, how))
    BY <1>2, <2>2, SockStore
  <2> QED
    BY <2>2, <2>3 DEF SockIs
<1>3. ASSUME NEW c \in Conns, PeerEnd(c) PROVE TypeInv'
  <2>1. PICK how \in {"closed", "reset"} :
          sock' = [sock EXCEPT ![c] =
                     Heard(c, IF how = "closed" THEN sock[c].inbox ELSE <<>>, how)]
    BY <1>3 DEF PeerEnd
  <2>2. sock[c].inbox \in Seq(Msg) /\ <<>> \in Seq(Msg)
    BY DEF Sock
  <2>3. sock' \in [Conns -> Sock] /\ \A d \in Conns : sock'[d].open = sock[d].open
    BY <1>2, <2>1, <2>2
  <2>4. ReaderInv' /\ MsgInv'
    BY <1>3, <2>3 DEF PeerEnd, ReaderInv, MsgInv
  <2> QED
    BY <1>3, <2>3, <2>4 DEF PeerEnd
<1>4. ASSUME NEW c \in Conns, NEW m \in Msg, PeerSend(c, m) PROVE TypeInv'
  <2>1. Append(sock[c].inbox, m) \in Seq(Msg)
    BY AppendProperties DEF Sock
  <2>2. sock' \in [Conns -> Sock] /\ \A d \in Conns : sock'[d].open = sock[d].open
    BY <1>2, <1>4, <2>1 DEF PeerSend
  <2>3. ReaderInv' /\ MsgInv'
    BY <1>4, <2>2 DEF PeerSend, ReaderInv, MsgInv
  <2> QED
    BY <1>4, <2>2, <2>3 DEF PeerSend
<1> QED
  BY <1>1, <1>3, <1>4 DEF Peers

LEMMA TypeDie == TypeInv /\ Die => TypeInv'
  BY DEF TypeInv, TypeOK, ReaderInv, MsgInv, Die, netVars, agentVars, readerVars, writerVars,
     queueVars, vmVars

LEMMA TypeWriter == TypeInv /\ Writer => TypeInv'
<1> SUFFICES ASSUME TypeInv, Writer PROVE TypeInv'
  OBVIOUS
<1> USE DEF TypeInv, TypeOK, WriterSteps, netVars, agentVars, readerVars, writerVars, queueVars,
            vmVars
<1>1. CASE WriterWait
  BY <1>1, ReaderKeeps DEF WriterWait
<1>2. CASE WriterDequeue
  <2>1. CASE wpkg_list = <<>>
    BY <1>2, <2>1, TypeDie DEF WriterDequeue
  <2>2. CASE wpkg_list # <<>>
    <3>1. Head(wpkg_list) \in Names /\ Tail(wpkg_list) \in Seq(Names)
      BY <2>2, HeadTailProperties
    <3> QED
      BY <1>2, <2>2, <3>1, ReaderKeeps DEF WriterDequeue
  <2> QED
    BY <2>1, <2>2
<1>3. CASE WriterFind
  BY <1>3, ReaderKeeps DEF WriterFind
<1>4. CASE WriterSearch
  BY <1>4, ReaderKeeps DEF WriterSearch
<1> QED
  BY <1>1, <1>2, <1>3, <1>4 DEF Writer

LEMMA TypeVm == ASSUME TypeInv, NEW v \in Vms, Vm(v) PROVE TypeInv'
<1> USE DEF TypeInv, TypeOK, netVars, agentVars, readerVars, writerVars, queueVars, vmVars
<1>1. CASE VmTake(v)
  BY <1>1, ReaderKeeps DEF VmTake
<1>2. CASE VmAnswer(v)
  <2>1. PICK n \in Names : wpkg_list' = Append(wpkg_list, n)
    BY <1>2 DEF VmAnswer
  <2> QED
    BY <1>2, <2>1, AppendProperties, ReaderKeeps DEF VmAnswer
<1>3. CASE VmPost(v)
  BY <1>3, ReaderKeeps DEF VmPost
<1> QED
  BY <1>1, <1>2, <1>3 DEF Vm

(* What accept makes of a socket, and what is left of a closed one.        *)
LEMMA OpenedIsSock ==
  ASSUME NEW n \in Nat
  PROVE  [NoSock EXCEPT !.gen = n, !.open = TRUE, !.peer = "up"] \in Sock
<1> DEFINE none == <<>>
<1>1. none \in Seq(Msg)
  OBVIOUS
<1>2. NoSock = [gen |-> 0, open |-> FALSE, inbox |-> none, edge |-> FALSE, peer |-> "closed"]
  BY DEF NoSock
<1> HIDE DEF none
<1> QED
  BY <1>1, <1>2 DEF Sock

LEMMA ClosedIsSock ==
  ASSUME NEW n \in Nat
  PROVE  [NoSock EXCEPT !.gen = n] \in Sock
<1> DEFINE none == <<>>
<1>1. none \in Seq(Msg)
  OBVIOUS
<1>2. NoSock = [gen |-> 0, open |-> FALSE, inbox |-> none, edge |-> FALSE, peer |-> "closed"]
  BY DEF NoSock
<1> HIDE DEF none
<1> QED
  BY <1>1, <1>2 DEF Sock

LEMMA TypeReader == TypeInv /\ Reader => TypeInv'
<1> SUFFICES ASSUME TypeInv, Reader PROVE TypeInv'
  OBVIOUS
<1> USE DEF TypeInv, TypeOK, agentVars, readerVars, writerVars, queueVars, vmVars, ReaderAt,
            ReaderSteps
<1>1. CASE ReaderWait
  <2>1. \A c \in Conns : [sock[c] EXCEPT !.edge = FALSE] \in Sock
                           /\ [sock[c] EXCEPT !.edge = FALSE].open = sock[c].open
    BY DEF Sock
  <2>2. sock' \in [Conns -> Sock] /\ \A c \in Conns : sock'[c].open = sock[c].open
    BY <1>1, <2>1 DEF ReaderWait
  <2>3. Ready \subseteq Conns \cup {Server} /\ \A c \in Ready : c \in Conns => sock[c].open
    BY ConnsAssumption DEF Ready
  <2>4. Server \in Ready => backlog > 0
    BY ConnsAssumption DEF Ready
  <2>5. ReaderInv' /\ MsgInv'
    BY <1>1, <2>2, <2>3, <2>4 DEF ReaderWait, ReaderInv, MsgInv, Working, Closing
  <2> QED
    BY <1>1, <2>2, <2>3, <2>5 DEF ReaderWait
<1>2. CASE ReaderBatchEnd
  <2>1. NoMsg \in Msg
    BY DEF NoMsg, Msg, Kinds
  <2> QED
    BY <1>2, <2>1 DEF ReaderBatchEnd, ReaderInv, MsgInv, Working, Closing, netVars
<1>3. CASE ReaderAccept
  <2>1. backlog \in Nat /\ backlog > 0
    BY <1>3 DEF ReaderAccept, ReaderInv
  <2>2. backlog' \in Nat /\ Server \notin todo' /\ todo' = todo \ {Server} /\ reader' = "event"
    <3>1. backlog' = backlog \/ backlog' = backlog - 1
      BY <1>3 DEF ReaderAccept
    <3>2. todo' = todo \ {Server} /\ reader' = "event"
      BY <1>3 DEF ReaderAccept
    <3> QED
      BY <2>1, <3>1, <3>2
  <2>3. sock' \in [Conns -> Sock] /\ \A c \in Conns : sock[c].open => sock'[c].open
    <3>1. CASE UNCHANGED sock
      BY <3>1
    <3>2. ASSUME NEW c \in Conns, ~sock[c].open,
                 sock' = [sock EXCEPT ![c] = [NoSock EXCEPT !.gen = sock[c].gen + 1,
                                                            !.open = TRUE, !.peer = "up"]]
          PROVE  sock' \in [Conns -> Sock] /\ \A d \in Conns : sock[d].open => sock'[d].open
      <4>1. sock[c].gen \in Nat
        BY DEF Sock
      <4>2. [NoSock EXCEPT !.gen = sock[c].gen + 1, !.open = TRUE, !.peer = "up"] \in Sock
        <5>1. sock[c].gen + 1 \in Nat
          BY <4>1
        <5> QED
          BY <5>1, OpenedIsSock
      <4>3. SockIs(c, [NoSock EXCEPT !.gen = sock[c].gen + 1, !.open = TRUE, !.peer = "up"])
        BY <3>2, <4>2, SockStore
      <4> QED
        BY <3>2, <4>3 DEF SockIs
    <3> QED
      BY <1>3, <3>1, <3>2 DEF ReaderAccept
  <2>4. ReaderInv' /\ MsgInv'
    BY <1>3, <2>2, <2>3 DEF ReaderAccept, ReaderInv, MsgInv, Working, Closing
  <2> QED
    BY <1>3, <2>2, <2>3, <2>4 DEF ReaderAccept
<1>4. ASSUME NEW c \in Conns, ReaderRead(c) PROVE TypeInv'
  <2>1. sock[c] \in Sock /\ sock[c].open
    BY <1>4 DEF ReaderRead, ReaderInv
  <2>2. CASE sock[c].inbox = <<>>
    BY <1>4, <2>1, <2>2, ConnsAssumption
       DEF ReaderRead, ReaderInv, MsgInv, Working, Closing
  <2>3. CASE sock[c].inbox # <<>>
    <3>1. Head(sock[c].inbox) \in Msg /\ Tail(sock[c].inbox) \in Seq(Msg)
      BY <2>1, <2>3, HeadTailProperties DEF Sock
    <3>2. [sock[c] EXCEPT !.inbox = Tail(sock[c].inbox)] \in Sock
      BY <2>1, <3>1 DEF Sock
    <3>3. sock' = [sock EXCEPT ![c] = [sock[c] EXCEPT !.inbox = Tail(sock[c].inbox)]]
      BY <1>4, <2>1, <2>3 DEF ReaderRead
    <3>4. SockIs(c, [sock[c] EXCEPT !.inbox = Tail(sock[c].inbox)])
      BY <3>2, <3>3, SockStore
    <3>5. sock' \in [Conns -> Sock] /\ \A d \in Conns : sock'[d].open = sock[d].open
      <4>1. [sock[c] EXCEPT !.inbox = Tail(sock[c].inbox)].open = sock[c].open
        BY <2>1 DEF Sock
      <4> QED
        BY <3>4, <4>1 DEF SockIs
    <3>6. msg' = Head(sock[c].inbox) /\ msg' \in Msg
      BY <1>4, <2>3, <3>1 DEF ReaderRead
    <3>7. msg'.kind \in Kinds
      BY <3>6 DEF Msg, Kinds
    <3>8. HeaderStep(msg') \in {"vm", "parse", "spin"}
            /\ (HeaderStep(msg') = "parse" => msg'.kind \in {"create", "reg", "unreg"})
      BY <3>7 DEF HeaderStep, Kinds
    <3>9. reader' \in {"drain", "vm", "parse", "spin"}
            /\ (reader' = "parse" => msg'.kind \in {"create", "reg", "unreg"})
      BY <1>4, <2>3, <3>8 DEF ReaderRead
    <3>10. ReaderInv' /\ MsgInv'
      BY <1>4, <2>1, <3>5, <3>9 DEF ReaderRead, ReaderInv, MsgInv, Working, Closing
    <3> QED
      BY <1>4, <3>5, <3>6, <3>9, <3>10 DEF ReaderRead
  <2> QED
    BY <2>2, <2>3
<1>5. CASE ReaderDrain
  <2>1. fd \in Conns /\ sock[fd] \in Sock
    BY <1>5 DEF ReaderDrain, ReaderInv, Working
  <2>2. [sock[fd] EXCEPT !.inbox = <<>>] \in Sock
          /\ [sock[fd] EXCEPT !.inbox = <<>>].open = sock[fd].open
    <3> DEFINE none == <<>>
    <3>1. none \in Seq(Msg)
      OBVIOUS
    <3> HIDE DEF none
    <3>2. [sock[fd] EXCEPT !.inbox = none] \in Sock
            /\ [sock[fd] EXCEPT !.inbox = none].open = sock[fd].open
      BY <2>1, <3>1 DEF Sock
    <3> QED
      BY <3>2 DEF none
  <2>3. sock' = [sock EXCEPT ![fd] = [sock[fd] EXCEPT !.inbox = <<>>]]
    BY <1>5, <2>1 DEF ReaderDrain
  <2>4. SockIs(fd, [sock[fd] EXCEPT !.inbox = <<>>])
    BY <2>1, <2>2, <2>3, SockStore
  <2>5. sock' \in [Conns -> Sock] /\ \A d \in Conns : sock'[d].open = sock[d].open
    BY <2>2, <2>4 DEF SockIs
  <2>6. ReaderInv' /\ MsgInv'
    BY <1>5, <2>5 DEF ReaderDrain, ReaderInv, MsgInv, Working, Closing
  <2> QED
    BY <1>5, <2>5, <2>6 DEF ReaderDrain
<1>6. CASE ReaderSpin
  <2>1. CASE Die
    BY <2>1, TypeDie
  <2>2. CASE ~Die
    <3>1. fd \in Conns /\ sock[fd] \in Sock
      BY <1>6 DEF ReaderSpin, ReaderInv, Working
    <3>2. Tail(sock[fd].inbox) \in Seq(Msg)
      BY <1>6, <3>1, HeadTailProperties DEF Sock, ReaderSpin
    <3>3. [sock[fd] EXCEPT !.inbox = Tail(sock[fd].inbox)] \in Sock
            /\ [sock[fd] EXCEPT !.inbox = Tail(sock[fd].inbox)].open = sock[fd].open
      BY <3>1, <3>2 DEF Sock
    <3>4. sock' = [sock EXCEPT ![fd] = [sock[fd] EXCEPT !.inbox = Tail(sock[fd].inbox)]]
      BY <1>6, <2>2, <3>1 DEF ReaderSpin
    <3>5. SockIs(fd, [sock[fd] EXCEPT !.inbox = Tail(sock[fd].inbox)])
      BY <3>1, <3>3, <3>4, SockStore
    <3>6. sock' \in [Conns -> Sock] /\ \A d \in Conns : sock'[d].open = sock[d].open
      BY <3>3, <3>5 DEF SockIs
    <3>7. ReaderInv' /\ MsgInv'
      BY <1>6, <2>2, <3>6 DEF ReaderSpin, ReaderInv, MsgInv, Working, Closing
    <3> QED
      BY <1>6, <2>2, <3>6, <3>7 DEF ReaderSpin
  <2> QED
    BY <2>1, <2>2
<1>7. CASE ReaderParse
  <2>1. CASE Die
    BY <2>1, TypeDie
  <2>2. CASE ~Die
    <3>1. msg.kind \in {"create", "reg", "unreg"}
      BY <1>7 DEF ReaderParse, MsgInv
    <3>2. reader' \in {"hung", "vm", "register", "event"}
      BY <1>7, <2>2, <3>1 DEF ReaderParse
    <3> QED
      BY <1>7, <2>2, <3>2 DEF ReaderParse, ReaderInv, MsgInv, Working, Closing, netVars
  <2> QED
    BY <2>1, <2>2
<1>8. CASE ReaderToVm
  BY <1>8 DEF ReaderToVm, ReaderInv, MsgInv, Working, Closing, netVars
<1>9. CASE ReaderRegister
  <2>1. CASE Die
    BY <2>1, TypeDie
  <2>2. CASE ~Die
    <3>1. fd \in Conns /\ sock[fd].gen \in Nat
      BY <1>9 DEF ReaderRegister, ReaderInv, Working, Sock
    <3>2. msg.name \in Names
      BY <1>9, <2>2 DEF ReaderRegister, Msg
    <3>3. [name |-> msg.name, fd |-> fd, gen |-> sock[fd].gen] \in Agent
      BY <3>1, <3>2 DEF Agent
    <3>4. agent_list' \in Seq(Agent)
      <4> DEFINE ae == [name |-> msg.name, fd |-> fd, gen |-> sock[fd].gen]
      <4>1. agent_list' = Append(agent_list, ae)
        BY <1>9, <2>2 DEF ReaderRegister
      <4>2. agent_list \in Seq(Agent) /\ ae \in Agent
        BY <3>3
      <4> HIDE DEF ae
      <4> QED
        BY <4>1, <4>2, AppendProperties
    <3>5. ReaderInv' /\ MsgInv'
      BY <1>9, <2>2, <3>2 DEF ReaderRegister, ReaderInv, MsgInv, Working, Closing, netVars
    <3> QED
      BY <1>9, <2>2, <3>4, <3>5 DEF ReaderRegister, netVars
  <2> QED
    BY <2>1, <2>2
<1>10. CASE ReaderAck
  <2>1. msg.name \in Names
    BY <1>10 DEF ReaderAck, MsgInv
  <2>2. wpkg_list' \in Seq(Names)
    BY <1>10, <2>1, AppendProperties DEF ReaderAck
  <2> QED
    BY <1>10, <2>1, <2>2 DEF ReaderAck, ReaderInv, MsgInv, Working, Closing, netVars
<1>11. CASE ReaderAckPost
  BY <1>11 DEF ReaderAckPost, ReaderInv, MsgInv, Working, Closing, netVars
<1>12. CASE ReaderClose
  <2>1. fd \in Conns /\ fd \notin todo /\ sock[fd].gen \in Nat
    BY <1>12 DEF ReaderClose, ReaderInv, Working, Sock
  <2>2. SockIs(fd, [NoSock EXCEPT !.gen = sock[fd].gen])
    BY <1>12, <2>1, SockStore, ClosedIsSock DEF ReaderClose
  <2>3. sock' \in [Conns -> Sock] /\ \A d \in Conns \ {fd} : sock'[d].open = sock[d].open
    BY <2>2 DEF SockIs
  <2>4. ReaderInv' /\ MsgInv'
    BY <1>12, <2>1, <2>3 DEF ReaderClose, ReaderInv, MsgInv, Working, Closing
  <2> QED
    BY <1>12, <2>3, <2>4 DEF ReaderClose
<1>13. CASE ReaderUnregister
  BY <1>13 DEF ReaderUnregister, ReaderInv, MsgInv, Working, Closing, netVars
<1>14. CASE ReaderScan
  <2>1. reader' \in {"relock", "event"} /\ agent_lock' \in {"free", "reader", "writer"}
    BY <1>14 DEF ReaderScan
  <2> QED
    BY <1>14, <2>1 DEF ReaderScan, ReaderInv, MsgInv, Working, Closing, netVars
<1> QED
  BY <1>1, <1>2, <1>3, <1>4, <1>5, <1>6, <1>7, <1>8, <1>9, <1>10, <1>11, <1>12, <1>13, <1>14
     DEF Reader

LEMMA TypeStep == TypeInv /\ [Next]_vars => TypeInv'
<1> SUFFICES ASSUME TypeInv, [Next]_vars PROVE TypeInv'
  OBVIOUS
<1>1. CASE UNCHANGED vars
  BY <1>1 DEF TypeInv, TypeOK, ReaderInv, MsgInv, vars, netVars, agentVars, readerVars,
     writerVars, queueVars, vmVars
<1>2. CASE Next
  BY <1>2, TypePeers, TypeReader, TypeWriter, TypeVm DEF Next
<1> QED
  BY <1>1, <1>2

(* Type correctness: whatever the agents send and however the threads      *)
(* interleave, no variable leaves its range.                               *)
THEOREM RouterTypeInv == Spec => []TypeInv
  BY TypeInit, TypeStep, PTL DEF Spec

THEOREM RouterTypeCorrect == Spec => []TypeOK
<1>1. TypeInv => TypeOK
  BY DEF TypeInv
<1> QED
  BY <1>1, RouterTypeInv, PTL

----------------------------------------------------------------------------
(* Where a message leads the reading thread.                               *)
LEMMA ReadLeadsTo ==
  ASSUME TypeInv, NEW c \in Conns, ReaderRead(c)
  PROVE  reader' \in {"close", "event", "drain", "vm", "parse", "spin"}
<1>1. CASE sock[c].inbox = <<>>
  BY <1>1 DEF ReaderRead
<1>2. CASE sock[c].inbox # <<>>
  <2>1. msg' = Head(sock[c].inbox) /\ sock[c].inbox \in Seq(Msg)
    BY <1>2 DEF ReaderRead, TypeInv, TypeOK, Sock
  <2>2. msg'.kind \in Kinds
    BY <1>2, <2>1, HeadTailProperties DEF Msg, Kinds
  <2>3. HeaderStep(msg') \in {"vm", "parse", "spin"}
    BY <2>2 DEF HeaderStep, Kinds
  <2> QED
    BY <1>2, <2>3 DEF ReaderRead
<1> QED
  BY <1>1, <1>2

LEMMA ParseLeadsTo ==
  ASSUME TypeInv, ReaderParse
  PROVE  Die \/ reader' \in {"hung", "vm", "register", "event"}
<1>1. msg.kind \in {"create", "reg", "unreg"}
  BY DEF ReaderParse, TypeInv, MsgInv, ReaderAt
<1> QED
  BY <1>1 DEF ReaderParse

(* Whoever is past the lock of the list holds it, and who waits for good   *)
(* found its agent: the list does not change under a thread that stands.   *)
LEMMA StopsInit == Init => StopsOnlyOnListedAgent
  BY DEF Init, StopsOnlyOnListedAgent

LEMMA StopsStep ==
  ASSUME TypeInv, StopsOnlyOnListedAgent, [Next]_vars PROVE StopsOnlyOnListedAgent'
<1> USE DEF StopsOnlyOnListedAgent, OfFd, Named, netVars, agentVars, readerVars, writerVars,
            queueVars, vmVars
<1>1. CASE UNCHANGED <<agentVars, reader, fd, writerVars>>
  BY <1>1
<1>2. CASE Peers
  BY <1>1, <1>2 DEF Peers, PeerConnect, PeerEnd, PeerSend
<1>3. CASE Reader
  <2>1. CASE UNCHANGED <<agentVars, writerVars>> /\ reader \notin {"scan", "relock"}
                                               /\ reader' \notin {"scan", "relock"}
    BY <2>1
  <2>2. CASE Die
    BY <1>1, <2>2 DEF Die
  <2>3. CASE ReaderWait \/ ReaderBatchEnd \/ ReaderAccept \/ ReaderDrain \/ ReaderToVm
    BY <2>1, <2>3 DEF ReaderWait, ReaderBatchEnd, ReaderAccept, ReaderDrain, ReaderToVm, ReaderAt
  <2>4. ASSUME NEW c \in Conns, ReaderRead(c) PROVE StopsOnlyOnListedAgent'
    BY <2>1, <2>4, ReadLeadsTo DEF ReaderRead, ReaderAt
  <2>5. CASE ReaderSpin
    BY <2>1, <2>2, <2>5 DEF ReaderSpin, ReaderAt
  <2>6. CASE ReaderParse
    BY <2>1, <2>2, <2>6, ParseLeadsTo DEF ReaderParse, ReaderAt
  <2>7. CASE ReaderRegister
    BY <2>2, <2>7 DEF ReaderRegister, ReaderAt
  <2>8. CASE ReaderAck \/ ReaderAckPost \/ ReaderClose
    BY <2>1, <2>8 DEF ReaderAck, ReaderAckPost, ReaderClose, ReaderAt
  <2>9. CASE ReaderUnregister
    BY <2>9 DEF ReaderUnregister, ReaderAt
  <2>10. CASE ReaderScan
    BY <2>10 DEF ReaderScan, ReaderAt
  <2> QED
    BY <1>3, <2>3, <2>4, <2>5, <2>6, <2>7, <2>8, <2>9, <2>10 DEF Reader
<1>4. CASE Writer
  <2>1. CASE WriterWait
    BY <2>1 DEF WriterWait, WriterAt
  <2>2. CASE WriterDequeue
    BY <2>2 DEF WriterDequeue, WriterAt, Die
  <2>3. CASE WriterFind
    BY <2>3 DEF WriterFind, WriterAt
  <2>4. CASE WriterSearch
    BY <2>4 DEF WriterSearch, WriterAt
  <2> QED
    BY <1>4, <2>1, <2>2, <2>3, <2>4 DEF Writer
<1>5. ASSUME NEW v \in Vms, Vm(v) PROVE StopsOnlyOnListedAgent'
  BY <1>1, <1>5 DEF Vm, VmTake, VmAnswer, VmPost
<1> QED
  BY <1>1, <1>2, <1>3, <1>4, <1>5 DEF Next, vars

(* A thread stops on the list's lock only because of an agent in the list. *)
THEOREM RouterStopsOnlyOnListedAgent == Spec => []StopsOnlyOnListedAgent
  BY StopsInit, StopsStep, RouterTypeInv, PTL DEF Spec

----------------------------------------------------------------------------
LEMMA AgentFd == TypeInv => \A k \in DOMAIN agent_list : agent_list[k].fd \in Conns
<1>1. TypeInv => \A k \in DOMAIN agent_list : agent_list[k] \in Agent
  BY ElementOfSeq, LenProperties DEF TypeInv, TypeOK
<1> QED
  BY <1>1 DEF Agent

(* What is left of AgentKeepsItsConnection to show for a step that lists   *)
(* no agent: no connection of an agent is opened or closed under it.       *)
LEMMA AgentsKeep ==
  ASSUME TypeInv, AgentKeepsItsConnection, UNCHANGED agent_list,
         \A c \in Conns : sock'[c].gen = sock[c].gen /\ sock'[c].open = sock[c].open,
         reader \notin Closing \/ (UNCHANGED fd /\ reader' \in Closing)
  PROVE  AgentKeepsItsConnection'
<1>1. \A k \in DOMAIN agent_list : agent_list[k].fd \in Conns
  BY AgentFd
<1> QED
  BY <1>1 DEF AgentKeepsItsConnection, Closing

LEMMA AgentsStep ==
  ASSUME TypeInv, AgentKeepsItsConnection, [Next]_vars PROVE AgentKeepsItsConnection'
<1> USE DEF netVars, agentVars, readerVars, writerVars, queueVars, vmVars, ReaderAt
<1> DEFINE Same == \A c \in Conns : sock'[c].gen = sock[c].gen /\ sock'[c].open = sock[c].open
<1>1. sock \in [Conns -> Sock] /\ agent_list \in Seq(Agent)
  BY DEF TypeInv, TypeOK
<1>2. \A k \in DOMAIN agent_list : agent_list[k].fd \in Conns
  BY AgentFd
<1>3. ASSUME NEW c, NEW inbox, sock' = [sock EXCEPT ![c] = [sock[c] EXCEPT !.inbox = inbox]]
      PROVE  Same
  <2>1. \A d \in Conns : sock[d] \in Sock
    BY <1>1
  <2> QED
    BY <1>1, <1>3, <2>1 DEF Sock
<1>4. CASE UNCHANGED <<sock, agent_list, reader, fd>>
  BY <1>4 DEF AgentKeepsItsConnection
<1>5. CASE Peers
  <2>1. CASE PeerConnect
    BY <1>4, <2>1 DEF PeerConnect
  <2>2. ASSUME NEW c \in Conns, NEW inbox, NEW how, sock' = [sock EXCEPT ![c] = Heard(c, inbox, how)]
        PROVE  Same
    BY <1>1, <2>2 DEF Heard, Sock
  <2>3. CASE Same /\ UNCHANGED <<agent_list, reader, fd>>
    BY <1>2, <2>3 DEF AgentKeepsItsConnection
  <2>4. ASSUME NEW c \in Conns, PeerEnd(c) PROVE AgentKeepsItsConnection'
    <3>1. Same
      BY <2>2, <2>4 DEF PeerEnd
    <3> QED
      BY <2>3, <2>4, <3>1 DEF PeerEnd
  <2>5. ASSUME NEW c \in Conns, NEW m \in Msg, PeerSend(c, m) PROVE AgentKeepsItsConnection'
    <3>1. Same
      BY <2>2, <2>5 DEF PeerSend
    <3> QED
      BY <2>3, <2>5, <3>1 DEF PeerSend
  <2> QED
    BY <1>5, <2>1, <2>4, <2>5 DEF Peers
<1>6. CASE Reader
  <2>1. CASE Same /\ UNCHANGED agent_list /\ reader \notin Closing
    BY <2>1, AgentsKeep
  <2>2. CASE Die
    BY <1>4, <2>2 DEF Die
  <2>3. CASE ReaderWait
    <3>1. Same
      BY <1>1, <2>3 DEF ReaderWait, Sock
    <3> QED
      BY <2>1, <2>3, <3>1 DEF ReaderWait, Closing
  <2>4. CASE ReaderBatchEnd \/ ReaderToVm \/ ReaderAck \/ ReaderAckPost
    BY <2>1, <2>4 DEF ReaderBatchEnd, ReaderToVm, ReaderAck, ReaderAckPost, Closing
  <2>5. CASE ReaderAccept
    <3>1. CASE UNCHANGED sock
      BY <2>1, <2>5, <3>1 DEF ReaderAccept, Closing
    <3>2. ASSUME NEW c \in Conns, ~sock[c].open,
                 \A d \in Conns \ {c} : sock'[d] = sock[d]
          PROVE  AgentKeepsItsConnection'
      <4>1. \A k \in DOMAIN agent_list : agent_list[k].fd # c
        BY <2>5, <3>2 DEF ReaderAccept, AgentKeepsItsConnection
      <4> QED
        BY <1>2, <2>5, <3>2, <4>1 DEF ReaderAccept, AgentKeepsItsConnection
    <3> QED
      BY <1>1, <2>5, <3>1, <3>2 DEF ReaderAccept
  <2>6. ASSUME NEW c \in Conns, ReaderRead(c) PROVE AgentKeepsItsConnection'
    <3>1. UNCHANGED sock \/ sock' = [sock EXCEPT ![c] =
                                        [sock[c] EXCEPT !.inbox = Tail(sock[c].inbox)]]
      BY <1>1, <2>6 DEF ReaderRead
    <3>2. Same
      BY <1>3, <3>1
    <3> QED
      BY <2>1, <2>6, <3>2 DEF ReaderRead, Closing
  <2>7. CASE ReaderDrain \/ (ReaderSpin /\ ~Die)
    <3>1. \/ sock' = [sock EXCEPT ![fd] = [sock[fd] EXCEPT !.inbox = <<>>]]
          \/ sock' = [sock EXCEPT ![fd] = [sock[fd] EXCEPT !.inbox = Tail(sock[fd].inbox)]]
      BY <1>1, <2>7 DEF ReaderDrain, ReaderSpin
    <3>2. Same
      BY <1>3, <3>1
    <3> QED
      BY <2>1, <2>7, <3>2 DEF ReaderDrain, ReaderSpin, Closing
  <2>8. CASE ReaderParse /\ ~Die
    BY <2>1, <2>8 DEF ReaderParse, Closing
  <2>9. CASE ReaderRegister /\ ~Die
    <3>1. sock[fd].open /\ UNCHANGED <<sock, fd>> /\ reader \notin Closing
      BY <2>9 DEF ReaderRegister, TypeInv, ReaderInv, Working, Closing
    <3>2. agent_list' = Append(agent_list, [name |-> msg.name, fd |-> fd, gen |-> sock[fd].gen])
      BY <2>9 DEF ReaderRegister
    <3> QED
      BY <1>1, <3>1, <3>2 DEF AgentKeepsItsConnection, Closing
  <2>10. CASE ReaderClose
    <3>1. fd \in Conns /\ UNCHANGED <<fd, agent_list>> /\ reader' = "unregister"
            /\ reader \notin Closing
      BY <2>10 DEF ReaderClose, TypeInv, ReaderInv, Working, Closing
    <3>2. sock'[fd].gen = sock[fd].gen /\ \A d \in Conns \ {fd} : sock'[d] = sock[d]
      BY <1>1, <2>10, <3>1 DEF ReaderClose, NoSock
    <3> QED
      BY <1>2, <3>1, <3>2 DEF AgentKeepsItsConnection
  <2>11. CASE ReaderUnregister
    BY <2>11 DEF ReaderUnregister, AgentKeepsItsConnection
  <2>12. CASE ReaderScan
    BY <2>12 DEF ReaderScan, OfFd, AgentKeepsItsConnection
  <2> QED
    BY <1>6, <2>2, <2>3, <2>4, <2>5, <2>6, <2>7, <2>8, <2>9, <2>10, <2>11, <2>12
       DEF Reader, ReaderSpin, ReaderParse, ReaderRegister
<1>7. CASE Writer
  BY <1>4, <1>7 DEF Writer, WriterWait, WriterDequeue, WriterFind, WriterSearch, Die
<1>8. ASSUME NEW v \in Vms, Vm(v) PROVE AgentKeepsItsConnection'
  BY <1>4, <1>8 DEF Vm, VmTake, VmAnswer, VmPost
<1> QED
  BY <1>4, <1>5, <1>6, <1>7, <1>8 DEF Next, vars

(* A listed agent's descriptor is never a later connection's.              *)
THEOREM RouterAgentKeepsItsConnection == Spec => []AgentKeepsItsConnection
<1>1. Init => AgentKeepsItsConnection
  BY DEF Init, AgentKeepsItsConnection
<1> QED
  BY <1>1, AgentsStep, RouterTypeInv, PTL DEF Spec

----------------------------------------------------------------------------
(* The answers VM threads have queued and not posted yet.                  *)
Posting == Cardinality({v \in Vms : vm[v] = "post"})

LEMMA PostingChanges ==
  ASSUME TypeInv, NEW v \in Vms, NEW step, vm' = [vm EXCEPT ![v] = step]
  PROVE  /\ Posting \in Nat
         /\ vm[v] = "post" /\ step # "post" => Posting' = Posting - 1
         /\ vm[v] # "post" /\ step = "post" => Posting' = Posting + 1
         /\ vm[v] # "post" /\ step # "post" => Posting' = Posting
<1> DEFINE Before == {u \in Vms : vm[u] = "post"}
           After  == {u \in Vms : vm'[u] = "post"}
<1>1. vm \in [Vms -> {"idle", "answer", "post"}]
  BY DEF TypeInv, TypeOK
<1>2. IsFiniteSet(Before) /\ Cardinality(Before) \in Nat
  BY VmsAssumption, FS_Subset, FS_CardinalityType
<1>3. After = IF step = "post" THEN Before \cup {v} ELSE Before \ {v}
  BY <1>1
<1>4. Posting = Cardinality(Before) /\ Posting' = Cardinality(After)
  BY DEF Posting
<1>5. vm[v] = "post" <=> v \in Before
  OBVIOUS
<1> HIDE DEF Before, After
<1>6. CASE step = "post"
  BY <1>2, <1>3, <1>4, <1>5, <1>6, FS_AddElement
<1>7. CASE step # "post" /\ v \in Before
  BY <1>2, <1>3, <1>4, <1>5, <1>7, FS_RemoveElement
<1>8. CASE step # "post" /\ v \notin Before
  <2>1. Before \ {v} = Before
    BY <1>8
  <2> QED
    BY <2>1, <1>2, <1>3, <1>4, <1>5, <1>8
<1> QED
  BY <1>6, <1>7, <1>8

LEMMA PostingNat == Posting \in Nat
  BY VmsAssumption, FS_Subset, FS_CardinalityType DEF Posting

Tokens == sem_router_w + (IF writer = "dequeue" THEN 1 ELSE 0)
                       + (IF reader = "ackpost" THEN 1 ELSE 0) + Posting

LEMMA TokensStep ==
  ASSUME TypeInv, Tokens = Len(wpkg_list), [Next]_vars PROVE Tokens' = Len(wpkg_list)'
<1> USE DEF Tokens, netVars, agentVars, readerVars, writerVars, queueVars, vmVars, ReaderAt,
            WriterAt
<1>1. Posting \in Nat /\ sem_router_w \in Nat /\ wpkg_list \in Seq(Names)
  BY PostingNat DEF TypeInv, TypeOK
<1>2. UNCHANGED vm => Posting' = Posting
  BY DEF Posting
<1>3. ASSUME UNCHANGED <<writer, queueVars, vm>>,
             reader = "ackpost" <=> reader' = "ackpost"
      PROVE  Tokens' = Len(wpkg_list)'
  BY <1>2, <1>3
<1>4. CASE Die
  BY <1>3, <1>4 DEF Die
<1>5. CASE Peers
  BY <1>3, <1>5 DEF Peers, PeerConnect, PeerEnd, PeerSend
<1>6. CASE Reader
  <2>1. CASE ReaderWait \/ ReaderBatchEnd \/ ReaderAccept \/ ReaderDrain \/ ReaderToVm
    BY <1>3, <2>1 DEF ReaderWait, ReaderBatchEnd, ReaderAccept, ReaderDrain, ReaderToVm
  <2>2. ASSUME NEW c \in Conns, ReaderRead(c) PROVE Tokens' = Len(wpkg_list)'
    BY <1>3, <2>2, ReadLeadsTo DEF ReaderRead
  <2>3. CASE ReaderSpin
    BY <1>3, <1>4, <2>3 DEF ReaderSpin
  <2>4. CASE ReaderParse
    BY <1>3, <1>4, <2>4, ParseLeadsTo DEF ReaderParse
  <2>5. CASE ReaderRegister
    BY <1>3, <1>4, <2>5 DEF ReaderRegister
  <2>6. CASE ReaderAck
    <3>1. Len(wpkg_list') = Len(wpkg_list) + 1
      BY <1>1, <2>6, AppendProperties DEF ReaderAck, TypeInv, MsgInv
    <3> QED
      BY <1>1, <1>2, <2>6, <3>1 DEF ReaderAck
  <2>7. CASE ReaderAckPost
    BY <1>1, <1>2, <2>7 DEF ReaderAckPost
  <2>8. CASE ReaderClose \/ ReaderUnregister \/ ReaderScan
    BY <1>3, <2>8 DEF ReaderClose, ReaderUnregister, ReaderScan
  <2> QED
    BY <1>6, <2>1, <2>2, <2>3, <2>4, <2>5, <2>6, <2>7, <2>8 DEF Reader
<1>7. CASE Writer
  <2>1. CASE WriterWait
    BY <1>1, <1>2, <2>1 DEF WriterWait
  <2>2. CASE WriterDequeue /\ wpkg_list # <<>>
    <3>1. Len(Tail(wpkg_list)) = Len(wpkg_list) - 1
      BY <1>1, <2>2, HeadTailProperties
    <3> QED
      BY <1>1, <1>2, <2>2, <3>1 DEF WriterDequeue
  <2>3. CASE WriterDequeue /\ wpkg_list = <<>>
    BY <1>4, <2>3 DEF WriterDequeue
  <2>4. CASE WriterFind
    BY <1>1, <1>2, <2>4 DEF WriterFind
  <2>5. CASE WriterSearch
    BY <1>1, <1>2, <2>5 DEF WriterSearch
  <2> QED
    BY <1>7, <2>1, <2>2, <2>3, <2>4, <2>5 DEF Writer
<1>8. ASSUME NEW v \in Vms, Vm(v) PROVE Tokens' = Len(wpkg_list)'
  <2>1. CASE VmTake(v)
    <3>1. PICK end \in {"idle", "answer"} : vm' = [vm EXCEPT ![v] = end]
      BY <2>1 DEF VmTake
    <3>2. Posting' = Posting
      BY <2>1, <3>1, PostingChanges DEF VmTake
    <3> QED
      BY <2>1, <3>2 DEF VmTake
  <2>2. CASE VmAnswer(v)
    <3>1. Posting' = Posting + 1
      BY <2>2, PostingChanges DEF VmAnswer
    <3>2. PICK n \in Names : wpkg_list' = Append(wpkg_list, n)
      BY <2>2 DEF VmAnswer
    <3>3. Len(wpkg_list') = Len(wpkg_list) + 1
      BY <1>1, <3>2, AppendProperties
    <3>4. UNCHANGED <<sem_router_w, writer, reader>>
      BY <2>2 DEF VmAnswer
    <3> QED
      BY <1>1, <3>1, <3>3, <3>4
  <2>3. CASE VmPost(v)
    <3>1. vm[v] = "post" /\ vm' = [vm EXCEPT ![v] = "idle"]
      BY <2>3 DEF VmPost
    <3>2. Posting' = Posting - 1
      <4> DEFINE step == "idle"
      <4>1. vm' = [vm EXCEPT ![v] = step] /\ step # "post"
        BY <3>1
      <4> HIDE DEF step
      <4> QED
        BY <3>1, <4>1, PostingChanges
    <3> QED
      BY <1>1, <2>3, <3>2 DEF VmPost
  <2> QED
    BY <1>8, <2>1, <2>2, <2>3 DEF Vm
<1> QED
  BY <1>3, <1>5, <1>6, <1>7, <1>8 DEF Next, vars

(* The sending thread never takes an answer that is not there.             *)
THEOREM RouterTokensMatchAnswers == Spec => []TokensMatchAnswers
<1>1. Init => Tokens = Len(wpkg_list)
  <2> SUFFICES ASSUME Init PROVE Tokens = Len(wpkg_list)
    OBVIOUS
  <2>1. {v \in Vms : vm[v] = "post"} = {}
    BY DEF Init
  <2>2. Posting = 0
    BY <2>1, FS_EmptySet DEF Posting
  <2> QED
    BY <2>2 DEF Init, Tokens
<1>2. TypeInv /\ Tokens = Len(wpkg_list) /\ [Next]_vars => (Tokens = Len(wpkg_list))'
  BY TokensStep
<1>3. Tokens = Len(wpkg_list) => TokensMatchAnswers
  BY DEF TokensMatchAnswers, Tokens, Posting
<1> QED
  BY <1>1, <1>2, <1>3, RouterTypeInv, PTL DEF Spec

=============================================================================
