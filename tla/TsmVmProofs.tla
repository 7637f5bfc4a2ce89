---------------------------- MODULE TsmVmProofs ----------------------------
(***************************************************************************)
(* Proofs about the VM thread pool, for every number of threads, packets,  *)
(* sessions and CCBs and for every script.                                 *)
(***************************************************************************)
EXTENDS TsmVm, FiniteSetTheorems, SequenceTheorems, TLAPS

(* Where a thread is decides what it has in hand; so does the router.      *)
HandOK(t) ==
  /\ pc[t] \in Holding => cur[t] \in Skbs
  /\ pc[t] \notin Holding => cur[t] = NoSkb
  /\ pc[t] \in WithCcb => ccb[t] \in DOMAIN ccb_list

HoldingInv ==
  /\ \A t \in Threads : HandOK(t)
  /\ router.step # "idle" => router.skb \in Skbs

(* What a step of thread t leaves alone in the other threads.              *)
OthersKeep(t) ==
  /\ pc' \in [Threads -> Steps] /\ cur' \in [Threads -> Skbs \cup {NoSkb}]
  /\ ccb' \in [Threads -> Nat] /\ DOMAIN ccb_list' = DOMAIN ccb_list
  /\ \A u \in Threads \ {t} : /\ pc'[u] = pc[u] /\ cur'[u] = cur[u]
                              /\ ccb'[u] = ccb[u] /\ fba'[u] = fba[u]
  /\ router' = router

(* A packet is parsed once: when it is no longer new, nothing is left.     *)
ParsedInv ==
  /\ \A s \in Skbs : ~packet[s].isNew => packet[s].drained
  /\ \A t \in Threads : pc[t] = "fetch" => fba[t] = cur[t]

TypeInv == TypeOK /\ HoldingInv

(* TypeOK without the variables HoldingInv is about.                       *)
DataOK ==
  /\ rpkg_list \in Seq(Skbs) /\ sem_vm \in Nat
  /\ ppkg_list \in Seq(Skbs) /\ sem_probe \in Nat
  /\ wpkg_list \in Seq(Nat) /\ sem_router_w \in Nat
  /\ mem \in [Skbs -> {"unused", "live", "freed"}]
  /\ packet \in [Skbs -> Packet]
  /\ fba \in [Threads -> Skbs \cup {NoSkb}]
  /\ op \in [Threads -> Instr]
  /\ work \in [Threads -> Work]
  /\ fault \in BOOLEAN
  /\ received \in Nat

(* What a step of thread t may assume about what it reads.                 *)
LEMMA InHand ==
  ASSUME TypeInv, NEW t \in Threads
  PROVE  /\ pc[t] \in Holding => cur[t] \in Skbs
         /\ pc[t] \in WithCcb => ccb[t] \in DOMAIN ccb_list /\ CCB(t) \in Ccb
  BY DEF TypeInv, TypeOK, HoldingInv, HandOK, CCB

LEMMA TypeInit == Init => TypeInv
<1> SUFFICES ASSUME Init PROVE TypeInv
  OBVIOUS
<1>1. /\ rpkg_list \in Seq(Skbs) /\ ppkg_list \in Seq(Skbs)
      /\ wpkg_list \in Seq(Nat) /\ ccb_list \in Seq(Ccb)
  BY EmptySeq DEF Init
<1>2. /\ op \in [Threads -> Instr] /\ packet \in [Skbs -> Packet] /\ router \in RouterAt
      /\ work \in [Threads -> Work]
  BY DEF Init, Work, NoWork, Instr, Kinds, Reserve, Packet, RouterAt, IdleRouter
<1> QED
  BY <1>1, <1>2, SkbsAssumption
     DEF Init, TypeInv, TypeOK, HoldingInv, HandOK, Holding, WithCcb, Steps, IdleRouter

(* A step that stores a record of type Ccb in the CCB of a thread.         *)
LEMMA SetCcbKeeps ==
  ASSUME TypeInv, NEW t \in Threads, pc[t] \in WithCcb, NEW c \in Ccb, SetCcb(t, c)
  PROVE  ccb_list' \in Seq(Ccb) /\ DOMAIN ccb_list' = DOMAIN ccb_list
<1>1. ccb_list \in Seq(Ccb) /\ ccb[t] \in 1 .. Len(ccb_list)
  BY DEF TypeInv, TypeOK, HoldingInv, HandOK
<1>2. [ccb_list EXCEPT ![ccb[t]] = c] \in Seq(Ccb)
  BY <1>1, ExceptSeq DEF SetCcb
<1> QED
  BY <1>2 DEF SetCcb

(* A step that stores the CCB of a thread again, for the same session.     *)
StoresCcb(t) == \E c \in Ccb : SetCcb(t, c) /\ c.session = CCB(t).session

LEMMA BuiltStored ==
  ASSUME TypeInv, NEW t \in Threads, pc[t] \in WithCcb, NEW q \in Seq(Apdu), SetBuilt(t, q)
  PROVE  StoresCcb(t)
<1>1. CCB(t) \in Ccb
  BY InHand
<1> DEFINE c == CCB(t)
<1> HIDE DEF c
<1>2. /\ [c EXCEPT !.apduQ = q] \in Ccb /\ [c EXCEPT !.apduQ = q].session = c.session
      /\ [c EXCEPT !.cmdQ = q] \in Ccb /\ [c EXCEPT !.cmdQ = q].session = c.session
  BY <1>1 DEF Ccb, c
<1> QED
  BY <1>2 DEF SetBuilt, StoresCcb, c

LEMMA PosStored ==
  ASSUME TypeInv, NEW t \in Threads, pc[t] \in Walks, work[t].at \in DOMAIN CCB(t).cmdQ,
         NEW apdu \in Apdu, SetPos(t, apdu)
  PROVE  StoresCcb(t)
<1>1. CCB(t) \in Ccb
  BY InHand DEF Walks, WithCcb, Holding, Steps
<1> DEFINE c == CCB(t)
           q == [c.cmdQ EXCEPT ![work[t].at] = apdu]
<1>2. c.cmdQ \in Seq(Apdu)
  BY <1>1 DEF Ccb
<1>3. q \in Seq(Apdu)
  BY <1>2, ExceptSeq
<1> HIDE DEF q, c
<1>4. [c EXCEPT !.cmdQ = q] \in Ccb /\ [c EXCEPT !.cmdQ = q].session = c.session
  BY <1>1, <1>3 DEF Ccb, c
<1>5. SetCcb(t, [c EXCEPT !.cmdQ = q])
  BY DEF SetPos, c, q
<1> QED
  BY <1>4, <1>5 DEF StoresCcb, c

(* Where a step of a walk leads.                                           *)
Walked(t) ==
  /\ pc' \in [Threads -> Steps] /\ \A u \in Threads \ {t} : pc'[u] = pc[u]
  /\ \/ pc[t] = "padSW" /\ pc'[t] \in {"padSW", "append", "flag", "hung"}
     \/ pc[t] \in {"padA0", "padA1"}
          /\ pc'[t] \in {"padA0", "agent", "padA1", "trailer", "hung"}
  /\ work' \in [Threads -> Work]

LEMMA WalkGoes ==
  ASSUME TypeInv, NEW t \in Threads, pc[t] \in Walks, NEW k \in Int, NEW len \in Nat,
         WalkTo(t, k, len)
  PROVE  Walked(t)
<1>1. /\ pc \in [Threads -> Steps] /\ work \in [Threads -> Work]
      /\ CCB(t) \in Ccb
  BY InHand DEF TypeInv, TypeOK, Walks, WithCcb, Holding, Steps
<1> DEFINE n == IF k < 1 THEN k ELSE Next1(CCB(t).cmdQ, k)
           w == [work[t] EXCEPT !.at = k, !.len = len, !.nxt = n]
<1>2. Len(CCB(t).cmdQ) \in Nat
  BY <1>1 DEF Ccb
<1>3. n \in Int
  BY <1>2 DEF Next1
<1> HIDE DEF n
<1>4. w \in Work
  BY <1>1, <1>3 DEF Work
<1>5. work' = [work EXCEPT ![t] = w]
  BY <1>1 DEF WalkTo, n
<1> HIDE DEF w
<1>6. work' \in [Threads -> Work]
  BY <1>1, <1>4, <1>5
<1>7. After(t) \in IF pc[t] = "padSW" THEN {"append", "flag"} ELSE {"agent", "trailer"}
  BY DEF After, Walks
<1> QED
  BY <1>1, <1>6, <1>7 DEF WalkTo, Walked, Goto, Walks, Steps

LEMMA HangGoes ==
  ASSUME TypeInv, NEW t \in Threads, pc[t] \in Walks, Hang(t)
  PROVE  Walked(t)
<1>1. NoWork \in Work
  BY DEF NoWork, Work
<1> QED
  BY <1>1 DEF TypeInv, TypeOK, Hang, Walked, Goto, Walks, Steps

(* The steps of the walks over cmdQ.                                       *)
WalkStep(t) == VmWalkBegin(t) \/ VmWalkFreed(t) \/ VmPadSw(t) \/ VmPadA0(t) \/ VmPadA1(t)

LEMMA VmWalks ==
  ASSUME TypeInv, NEW t \in Threads, WalkStep(t), ~Die
  PROVE  /\ Walked(t)
         /\ ccb_list' = ccb_list \/ StoresCcb(t)
         /\ UNCHANGED <<queueVars, mem, packet, router, cur, ccb, fba, op, fault, received>>
<1>1. /\ work[t] \in Work /\ work[t].at \in Int /\ work[t].nxt \in Int /\ work[t].len \in Nat
  BY DEF TypeInv, TypeOK, Work
<1>2. pc[t] \in Walks
  BY DEF WalkStep, VmWalkBegin, VmWalkFreed, VmPadSw, VmPadA0, VmPadA1, WalksAt, At, Walks
<1>3. CCB(t) \in Ccb
  BY <1>2, InHand DEF Walks, WithCcb, Holding, Steps
<1>4. CCB(t).cmdQ \in Seq(Apdu)
  BY <1>3 DEF Ccb
<1>5. work[t].at \in DOMAIN CCB(t).cmdQ => Pos(t) \in Apdu
  BY <1>4 DEF Pos
<1>6. \A apdu \in Apdu : apdu.bytes \in Nat
  BY DEF Apdu
<1>7. CASE VmWalkBegin(t)
  <2>1. Next1(CCB(t).cmdQ, 0) \in Int
    BY <1>4 DEF Next1
  <2> QED
    BY <1>7, <1>2, <2>1, WalkGoes DEF VmWalkBegin
<1>8. CASE VmWalkFreed(t)
  BY <1>8, <1>1, <1>2, WalkGoes, HangGoes DEF VmWalkFreed
<1>9. CASE VmPadSw(t)
  <2>1. work[t].at \in DOMAIN CCB(t).cmdQ /\ Pos(t) \in Apdu
    BY <1>9, <1>5 DEF VmPadSw, WalksAt
  <2>2. [Pos(t) EXCEPT !.bytes = @ + 2] \in Apdu
    BY <2>1 DEF Apdu
  <2>3. \/ Hang(t) /\ UNCHANGED ccb_list
        \/ SetPos(t, [Pos(t) EXCEPT !.bytes = @ + 2]) /\ WalkTo(t, work[t].nxt, 0)
    BY <1>9 DEF VmPadSw
  <2>4. Walked(t)
    BY <1>1, <1>2, <2>3, WalkGoes, HangGoes
  <2>5. ccb_list' = ccb_list \/ StoresCcb(t)
    BY <1>2, <2>1, <2>2, <2>3, PosStored
  <2> QED
    BY <1>9, <2>4, <2>5 DEF VmPadSw
<1>10. CASE VmPadA0(t)
  <2> DEFINE padded == Pos(t).bytes + TAG_A0_HEAD_ROOM
             apdu   == [bytes |-> padded, head |-> FALSE]
  <2>1. work[t].at \in DOMAIN CCB(t).cmdQ /\ Pos(t) \in Apdu
    BY <1>10, <1>5 DEF VmPadA0, WalksAt
  <2>2. padded \in Nat
    BY <2>1, <1>6 DEF TAG_A0_HEAD_ROOM
  <2>3. apdu \in Apdu
    BY <2>2 DEF Apdu
  <2>4. \/ Hang(t) /\ UNCHANGED ccb_list
        \/ SetPos(t, apdu) /\ WalkTo(t, work[t].nxt, work[t].len + padded)
    BY <1>10 DEF VmPadA0
  <2> HIDE DEF padded, apdu
  <2>5. work[t].len + padded \in Nat
    BY <1>1, <2>2
  <2>6. Walked(t)
    BY <1>1, <1>2, <2>4, <2>5, WalkGoes, HangGoes
  <2>7. ccb_list' = ccb_list \/ StoresCcb(t)
    BY <1>2, <2>1, <2>3, <2>4, PosStored
  <2> QED
    BY <1>10, <2>6, <2>7 DEF VmPadA0
<1>11. CASE VmPadA1(t)
  <2>1. Pos(t) \in Apdu
    BY <1>11, <1>5 DEF VmPadA1, WalksAt
  <2>2. work[t].len + Pos(t).bytes \in Nat
    BY <2>1, <1>1, <1>6
  <2>3. Hang(t) \/ WalkTo(t, work[t].nxt, work[t].len + Pos(t).bytes)
    BY <1>11 DEF VmPadA1
  <2>4. Walked(t)
    BY <1>1, <1>2, <2>2, <2>3, WalkGoes, HangGoes
  <2> QED
    BY <1>11, <2>4 DEF VmPadA1
<1> QED
  BY <1>7, <1>8, <1>9, <1>10, <1>11 DEF WalkStep

LEMMA AppendStored ==
  ASSUME TypeInv, NEW t \in Threads, VmAppend(t)
  PROVE  ccb_list' = ccb_list \/ StoresCcb(t)
<1> DEFINE apdu == [bytes |-> op[t].bytes, head |-> TRUE]
<1>1. pc[t] \in WithCcb
  BY DEF VmAppend, At, WithCcb, Holding, Steps
<1>2. CCB(t) \in Ccb /\ op[t] \in Instr
  BY <1>1, InHand DEF TypeInv, TypeOK
<1>3. Built(t) \in Seq(Apdu) /\ apdu \in Apdu
  BY <1>2 DEF Built, Ccb, Apdu, Instr
<1>4. Append(Built(t), apdu) \in Seq(Apdu)
  BY <1>3
<1>5. ccb_list' = ccb_list \/ SetBuilt(t, Append(Built(t), apdu))
  BY DEF VmAppend
<1> QED
  BY <1>1, <1>4, <1>5, BuiltStored

LEMMA TypeRouter == TypeInv /\ Router => TypeInv'
<1> SUFFICES ASSUME TypeInv, Router PROVE TypeInv'
  OBVIOUS
<1> USE SkbsAssumption DEF TypeInv, TypeOK, HoldingInv, HandOK, RouterAt
<1>1. ASSUME NEW s \in Skbs, NEW i \in Sessions, RouterCreate(s, i)
      PROVE  TypeInv'
  <2>1. PICK loaded \in BOOLEAN : ccb_list' = Append(ccb_list, NewCcb(i, loaded))
    BY <1>1 DEF RouterCreate
  <2>2. NewCcb(i, loaded) \in Ccb
    BY SessionAssumption DEF NewCcb, Ccb
  <2>3. ccb_list' \in Seq(Ccb) /\ \A k \in DOMAIN ccb_list : k \in DOMAIN ccb_list'
    BY <2>1, <2>2
  <2>4. PICK drained \in BOOLEAN : RouterReceive(s, i, "vm", drained)
    BY <1>1 DEF RouterCreate
  <2>5. packet' \in [Skbs -> Packet] /\ mem' \in [Skbs -> {"unused", "live", "freed"}]
        /\ router' \in RouterAt /\ router'.skb \in Skbs /\ received' \in Nat
    BY <2>4, SessionAssumption DEF RouterReceive, Packet
  <2> QED
    BY <1>1, <2>3, <2>5 DEF RouterCreate, queueVars, threadVars
<1>2. ASSUME NEW s \in Skbs, NEW i \in Sessions, RouterData(s, i)
      PROVE  TypeInv'
  <2>1. PICK list \in {"vm", "probe"} : RouterReceive(s, i, list, FALSE)
    BY <1>2 DEF RouterData
  <2>2. packet' \in [Skbs -> Packet] /\ mem' \in [Skbs -> {"unused", "live", "freed"}]
        /\ router' \in RouterAt /\ router'.skb \in Skbs /\ received' \in Nat
    BY <2>1, SessionAssumption DEF RouterReceive, Packet
  <2> QED
    BY <1>2, <2>2 DEF RouterData, queueVars, threadVars
<1>3. CASE RouterEnqueue
  <2>1. router.skb \in Skbs /\ router' \in RouterAt /\ router'.skb = router.skb
    BY <1>3 DEF RouterEnqueue
  <2>2. Append(rpkg_list, router.skb) \in Seq(Skbs) /\ Append(ppkg_list, router.skb) \in Seq(Skbs)
    BY <2>1
  <2>3. rpkg_list' \in Seq(Skbs) /\ ppkg_list' \in Seq(Skbs)
    BY <1>3, <2>2 DEF RouterEnqueue
  <2> QED
    BY <1>3, <2>1, <2>3 DEF RouterEnqueue, threadVars
<1>4. CASE RouterPost
  BY <1>4 DEF RouterPost, threadVars, IdleRouter
<1> QED
  BY <1>1, <1>2, <1>3, <1>4 DEF Router

(* The thread that steps: it has in hand what its next step needs.         *)
LEMMA VmThread ==
  ASSUME TypeInv, NEW t \in Threads, Vm(t)
  PROVE  Die \/ (OthersKeep(t) /\ HandOK(t)' /\ ccb_list' \in Seq(Ccb))
<1>s. ASSUME pc[t] \in WithCcb, StoresCcb(t)
      PROVE  ccb_list' \in Seq(Ccb) /\ DOMAIN ccb_list' = DOMAIN ccb_list
  BY <1>s, SetCcbKeeps DEF StoresCcb
<1>a. /\ pc[t] \in Holding => cur[t] \in Skbs
      /\ pc[t] \in WithCcb => ccb[t] \in DOMAIN ccb_list /\ CCB(t) \in Ccb
  BY InHand
<1>b. ASSUME pc[t] \in WithCcb, \E c \in Ccb : SetCcb(t, c)
      PROVE  ccb_list' \in Seq(Ccb) /\ DOMAIN ccb_list' = DOMAIN ccb_list
  BY <1>b, SetCcbKeeps
<1>c. /\ pc \in [Threads -> Steps] /\ cur \in [Threads -> Skbs \cup {NoSkb}]
      /\ ccb \in [Threads -> Nat] /\ ccb_list \in Seq(Ccb)
      /\ rpkg_list \in Seq(Skbs) /\ HandOK(t)
      /\ fba \in [Threads -> Skbs \cup {NoSkb}]
  BY DEF TypeInv, TypeOK, HoldingInv
<1>d. op[t] \in Instr
  BY DEF TypeInv, TypeOK
<1> USE <1>c, SkbsAssumption DEF OthersKeep, HandOK, Holding, WithCcb, Steps, At, Goto,
                          queueVars, threadVars
<1>1. CASE VmWait(t)
  BY <1>1, <1>a DEF VmWait
<1>2. CASE VmDequeue(t)
  <2>1. rpkg_list # <<>> => Head(rpkg_list) \in Skbs
    BY <1>c
  <2> QED
    BY <1>2, <1>a, <2>1 DEF VmDequeue
<1>3. CASE VmSkip(t)
  BY <1>3, <1>a DEF VmSkip
<1>4. CASE VmFetchCcb(t)
  <2>1. DOMAIN ccb_list \subseteq Nat
    BY <1>c
  <2>2. CASE \E k \in DOMAIN ccb_list : ccb' = [ccb EXCEPT ![t] = k]
    BY <1>4, <1>a, <2>1, <2>2 DEF VmFetchCcb
  <2> QED
    BY <1>4, <2>2 DEF VmFetchCcb
<1>5. CASE VmDispatch(t)
  <2>1. CASE CCB(t).PC \in DOMAIN Code
    <3>1. FirstStep(Code[CCB(t).PC].kind) \in {"wbtest", "jump", "purge", "flag"}
      BY <2>1, CodeAssumption DEF FirstStep, Instr, Kinds
    <3> QED
      BY <1>5, <3>1 DEF VmDispatch
  <2> QED
    BY <1>5, <2>1 DEF VmDispatch
<1>6. CASE VmJump(t)
  <2>1. (\E c \in Ccb : SetCcb(t, c))
    BY <1>6, <1>a, TargetAssumption DEF VmJump, Ccb
  <2>2. (ccb_list' \in Seq(Ccb) /\ DOMAIN ccb_list' = DOMAIN ccb_list)
    BY <1>6, <1>b, <2>1 DEF VmJump
  <2> QED
    BY <1>6, <1>a, <2>2 DEF VmJump
<1>7. CASE VmPurge(t)
  <2>1. Built(t) \in Seq(Apdu)
    BY <1>7, <1>a DEF VmPurge, Built, Ccb
  <2>2. CASE Built(t) = <<>>
    BY <1>7, <1>a, <2>2 DEF VmPurge
  <2>3. CASE Built(t) # <<>>
    <3>1. Tail(Built(t)) \in Seq(Apdu)
      BY <2>1, <2>3
    <3>2. SetBuilt(t, Tail(Built(t)))
      BY <1>7, <2>3 DEF VmPurge
    <3>3. StoresCcb(t)
      BY <1>7, <3>1, <3>2, BuiltStored DEF VmPurge
    <3>4. ccb_list' \in Seq(Ccb) /\ DOMAIN ccb_list' = DOMAIN ccb_list
      BY <1>7, <3>3, <1>s DEF VmPurge
    <3> QED
      BY <1>7, <1>a, <2>3, <3>4 DEF VmPurge
  <2> QED
    BY <2>2, <2>3
<1>8. CASE VmAppend(t)
  <2>1. ccb_list' = ccb_list \/ StoresCcb(t)
    BY <1>8, AppendStored
  <2>2. ccb_list' \in Seq(Ccb) /\ DOMAIN ccb_list' = DOMAIN ccb_list
    BY <1>8, <2>1, <1>s DEF VmAppend
  <2> QED
    BY <1>8, <1>a, <2>2 DEF VmAppend, Hang
<1>9. CASE VmFlag(t)
  <2>1. (\E c \in Ccb : SetCcb(t, c)) \/ Die
    BY <1>9, <1>a DEF VmFlag, Ccb
  <2>2. (ccb_list' \in Seq(Ccb) /\ DOMAIN ccb_list' = DOMAIN ccb_list) \/ Die
    BY <1>9, <1>b, <2>1 DEF VmFlag
  <2> QED
    BY <1>9, <1>a, <2>2 DEF VmFlag
<1>10. CASE VmTestWriteBack(t)
  BY <1>10, <1>a DEF VmTestWriteBack
<1>11. CASE VmClearWriteBack(t)
  <2>1. (\E c \in Ccb : SetCcb(t, c))
    BY <1>11, <1>a DEF VmClearWriteBack, Ccb
  <2>2. (ccb_list' \in Seq(Ccb) /\ DOMAIN ccb_list' = DOMAIN ccb_list)
    BY <1>11, <1>b, <2>1 DEF VmClearWriteBack
  <2> QED
    BY <1>11, <1>a, <2>2 DEF VmClearWriteBack
<1>12. CASE WalkStep(t)
  <2>1. ASSUME ~Die PROVE OthersKeep(t) /\ HandOK(t)' /\ ccb_list' \in Seq(Ccb)
    <3>1. /\ Walked(t) /\ (ccb_list' = ccb_list \/ StoresCcb(t))
          /\ UNCHANGED <<router, cur, ccb, fba>>
      BY <1>12, <2>1, VmWalks
    <3>2. ccb_list' \in Seq(Ccb) /\ DOMAIN ccb_list' = DOMAIN ccb_list
      BY <3>1, <1>s DEF Walked
    <3> QED
      BY <3>1, <3>2, <1>a DEF Walked
  <2> QED
    BY <2>1
<1>13. CASE VmAgentInfo(t)
  BY <1>13, <1>a DEF VmAgentInfo
<1>14. CASE VmTrailer(t)
  BY <1>14, <1>a DEF VmTrailer, Hang
<1>15. CASE VmPostWriter(t)
  BY <1>15, <1>a DEF VmPostWriter
<1>16. CASE VmTestBootstrap(t)
  BY <1>16, <1>a DEF VmTestBootstrap
<1>17. CASE VmClearBootstrap(t)
  <2>1. (\E c \in Ccb : SetCcb(t, c))
    BY <1>17, <1>a DEF VmClearBootstrap, Ccb
  <2>2. (ccb_list' \in Seq(Ccb) /\ DOMAIN ccb_list' = DOMAIN ccb_list)
    BY <1>17, <1>b, <2>1 DEF VmClearBootstrap
  <2> QED
    BY <1>17, <1>a, <2>2 DEF VmClearBootstrap
<1>18. CASE VmRequeue(t)
  BY <1>18, <1>a DEF VmRequeue
<1>19. CASE VmPost(t)
  BY <1>19, <1>a DEF VmPost
<1> QED
  BY <1>1, <1>2, <1>3, <1>4, <1>5, <1>6, <1>7, <1>8, <1>9, <1>10, <1>11, <1>12, <1>13, <1>14, <1>15, <1>16, <1>17, <1>18, <1>19 DEF Vm, WalkStep

LEMMA VmData ==
  ASSUME TypeInv, NEW t \in Threads, Vm(t), ~Die
  PROVE  DataOK'
<1>a. /\ pc[t] \in Holding => cur[t] \in Skbs
      /\ pc[t] \in WithCcb => ccb[t] \in DOMAIN ccb_list /\ CCB(t) \in Ccb
  BY InHand
<1>w. NoWork \in Work
  BY DEF NoWork, Work
<1>b. DataOK
  BY DEF TypeInv, TypeOK, DataOK
<1> USE <1>b DEF DataOK, queueVars, At, Holding, WithCcb, Steps
<1>1. CASE VmWait(t)
  BY <1>1, <1>a DEF VmWait
<1>2. CASE VmDequeue(t)
  <2>1. rpkg_list # <<>> => Tail(rpkg_list) \in Seq(Skbs)
    BY <1>b
  <2> QED
    BY <1>2, <2>1 DEF VmDequeue
<1>3. CASE VmSkip(t)
  <2>1. cur[t] \in Skbs /\ packet[cur[t]] \in Packet
    BY <1>3, <1>a DEF VmSkip
  <2>2. [packet[cur[t]] EXCEPT !.isNew = FALSE, !.drained = TRUE] \in Packet
    BY <2>1 DEF Packet
  <2>3. packet' \in [Skbs -> Packet]
    BY <1>3, <2>1, <2>2 DEF VmSkip
  <2> QED
    BY <1>3, <2>1, <2>3 DEF VmSkip
<1>4. CASE VmFetchCcb(t)
  BY <1>4, <1>a DEF VmFetchCcb
<1>5. CASE VmDispatch(t)
  <2>1. CCB(t).PC \in DOMAIN Code => Code[CCB(t).PC] \in Instr
    BY CodeAssumption
  <2> QED
    BY <1>5, <2>1 DEF VmDispatch
<1>6. CASE VmJump(t)
  BY <1>6, <1>a DEF VmJump
<1>7. CASE VmPurge(t)
  <2> DEFINE shifted(u) == [work[u] EXCEPT !.at = Unlinked(@), !.nxt = Unlinked(@)]
  <2>1. \A u \in Threads : shifted(u) \in Work
    <3>1. \A i \in Int : Unlinked(i) \in Int
      BY DEF Unlinked
    <3>2. \A u \in Threads : work[u] \in Work
      OBVIOUS
    <3> QED
      BY <3>1, <3>2 DEF Work
  <2>2. work' = work \/ \A u \in Threads : work'[u] \in {work[u], shifted(u)}
    BY <1>7 DEF VmPurge
  <2>3. work' \in [Threads -> Work]
    <3> HIDE DEF shifted
    <3>1. work' = work \/ work' = [u \in Threads |-> work'[u]]
      BY <1>7 DEF VmPurge
    <3> QED
      BY <2>1, <2>2, <3>1
  <2> QED
    BY <1>7, <2>3 DEF VmPurge
<1>8. CASE VmAppend(t)
  <2>1. /\ work[t] \in Work /\ work[t].made + 1 \in Nat
    BY DEF Work
  <2>2. [work[t] EXCEPT !.made = work[t].made + 1] \in Work
    BY <2>1 DEF Work
  <2>3. work' = [work EXCEPT ![t] = NoWork]
        \/ work' = [work EXCEPT ![t] = [work[t] EXCEPT !.made = work[t].made + 1]]
    BY <1>8 DEF VmAppend, Hang
  <2>4. work' \in [Threads -> Work]
    BY <2>2, <2>3, <1>w
  <2> QED
    BY <1>8, <2>4 DEF VmAppend
<1>9. CASE VmFlag(t)
  BY <1>9, <1>a, <1>w DEF VmFlag
<1>10. CASE VmTestWriteBack(t)
  BY <1>10, <1>a DEF VmTestWriteBack
<1>11. CASE VmClearWriteBack(t)
  BY <1>11, <1>a DEF VmClearWriteBack
<1>12. CASE WalkStep(t)
  <2>1. /\ work' \in [Threads -> Work]
        /\ UNCHANGED <<rpkg_list, sem_vm, ppkg_list, sem_probe, wpkg_list, sem_router_w,
                       mem, packet, fba, op, fault, received>>
    BY <1>12, VmWalks DEF Walked
  <2> QED
    BY <2>1
<1>13. CASE VmAgentInfo(t)
  <2> DEFINE size == work[t].len + MSG_HEAD_LEN + TAG_A1_HEAD_ROOM
  <2>1. work[t] \in Work /\ size \in Nat
    BY DEF Work, MSG_HEAD_LEN, TAG_A1_HEAD_ROOM
  <2>2. work' = [work EXCEPT ![t] = [work[t] EXCEPT !.size = size, !.len = 0]]
    BY <1>13 DEF VmAgentInfo
  <2> HIDE DEF size
  <2>3. [work[t] EXCEPT !.size = size, !.len = 0] \in Work
    BY <2>1 DEF Work
  <2>4. work' \in [Threads -> Work]
    BY <2>2, <2>3
  <2> QED
    BY <1>13, <2>4 DEF VmAgentInfo
<1>14. CASE VmTrailer(t)
  <2>1. CCB(t).session \in Nat
    BY <1>14, <1>a DEF VmTrailer, Ccb
  <2>2. Append(wpkg_list, CCB(t).session) \in Seq(Nat)
    BY <2>1, <1>b
  <2> QED
    BY <1>14, <1>w, <2>2 DEF VmTrailer, Hang
<1>15. CASE VmPostWriter(t)
  BY <1>15, <1>a DEF VmPostWriter
<1>16. CASE VmTestBootstrap(t)
  BY <1>16, <1>a DEF VmTestBootstrap
<1>17. CASE VmClearBootstrap(t)
  BY <1>17, <1>a DEF VmClearBootstrap, Packet
<1>18. CASE VmRequeue(t)
  <2>1. fault' \in BOOLEAN
    BY <1>18, Zenon DEF VmRequeue, Freed
  <2> QED
    BY <1>18, <1>a, <2>1 DEF VmRequeue
<1>19. CASE VmPost(t)
  BY <1>19, <1>a DEF VmPost
<1> QED
  BY <1>1, <1>2, <1>3, <1>4, <1>5, <1>6, <1>7, <1>8, <1>9, <1>10, <1>11, <1>12, <1>13, <1>14, <1>15, <1>16, <1>17, <1>18, <1>19 DEF Vm, WalkStep

LEMMA TypeVm == ASSUME TypeInv, NEW t \in Threads, Vm(t) PROVE TypeInv'
<1>1. CASE Die
  BY <1>1 DEF Die, TypeInv, TypeOK, HoldingInv, HandOK, queueVars, threadVars
<1>2. ASSUME OthersKeep(t), HandOK(t)', ccb_list' \in Seq(Ccb), ~Die
      PROVE  TypeInv'
  <2>1. HoldingInv'
    BY <1>2 DEF TypeInv, HoldingInv, HandOK, OthersKeep
  <2>2. TypeOK
    BY DEF TypeInv
  <2>3. DataOK'
    BY <1>2, VmData
  <2>6. router' \in RouterAt
    BY <1>2, <2>2 DEF OthersKeep, TypeOK
  <2> QED
    BY <1>2, <2>1, <2>3, <2>6 DEF TypeInv, TypeOK, DataOK, OthersKeep
<1> QED
  BY <1>1, <1>2, VmThread

LEMMA TypeStep == TypeInv /\ [Next]_vars => TypeInv'
<1>1. ASSUME TypeInv, UNCHANGED vars PROVE TypeInv'
  BY <1>1 DEF vars, queueVars, threadVars, TypeInv, TypeOK, HoldingInv, HandOK
<1> QED
  BY <1>1, TypeRouter, TypeVm DEF Next

(* Every reachable state of the pool is well typed.                        *)
THEOREM TypeCorrect == Spec => []TypeOK
<1>1. Spec => []TypeInv
  BY TypeInit, TypeStep, PTL DEF Spec
<1>2. TypeInv => TypeOK
  BY DEF TypeInv
<1> QED
  BY <1>1, <1>2, PTL

----------------------------------------------------------------------------
(* What a step of the pool does with the units of sem_vm and the packets   *)
(* of rpkg_list: take a unit, take a packet, give one back, post a unit,   *)
(* or neither.                                                             *)
Moves(t, from, to) == pc[t] = from /\ pc'[t] = to
TakesUnit(t)   == /\ Moves(t, "wait", "dequeue") /\ sem_vm > 0 /\ sem_vm' = sem_vm - 1
                  /\ UNCHANGED <<rpkg_list, cur>>
TakesPacket(t) == /\ Moves(t, "dequeue", "skip") /\ rpkg_list # <<>>
                  /\ rpkg_list' = Tail(rpkg_list)
                  /\ cur' = [cur EXCEPT ![t] = Head(rpkg_list)] /\ UNCHANGED sem_vm
GivesPacket(t) == /\ Moves(t, "requeue", "vpost")
                  /\ rpkg_list' = Append(rpkg_list, cur[t])
                  /\ cur' = [cur EXCEPT ![t] = NoSkb] /\ UNCHANGED sem_vm
PostsUnit(t)   == /\ Moves(t, "vpost", "wait") /\ sem_vm' = sem_vm + 1
                  /\ UNCHANGED <<rpkg_list, cur>>
Neither(t)     == /\ pc[t] \notin {"dequeue", "vpost"} /\ pc'[t] \notin {"dequeue", "vpost"}
                  /\ UNCHANGED <<rpkg_list, sem_vm>>
                  /\ cur' = cur \/ cur' = [cur EXCEPT ![t] = NoSkb]

LEMMA VmMoves ==
  ASSUME TypeInv, NEW t \in Threads, Vm(t), ~Die
  PROVE  TakesUnit(t) \/ TakesPacket(t) \/ GivesPacket(t) \/ PostsUnit(t) \/ Neither(t)
<1>a. pc \in [Threads -> Steps]
  BY DEF TypeInv, TypeOK
<1> USE <1>a DEF Moves, At, Goto, queueVars
<1>1. CASE VmWait(t)
  BY <1>1 DEF VmWait, TakesUnit
<1>2. CASE VmDequeue(t)
  BY <1>2 DEF VmDequeue, TakesPacket
<1>3. CASE VmSkip(t)
  BY <1>3 DEF VmSkip, Neither
<1>4. CASE VmFetchCcb(t)
  BY <1>4 DEF VmFetchCcb, Neither
<1>5. CASE VmDispatch(t)
  <2>1. CCB(t).PC \in DOMAIN Code =>
          FirstStep(Code[CCB(t).PC].kind) \in {"wbtest", "jump", "purge", "flag"}
    BY CodeAssumption DEF FirstStep, Instr, Kinds
  <2> QED
    BY <1>5, <2>1 DEF VmDispatch, Neither
<1>6. CASE VmJump(t)
  BY <1>6 DEF VmJump, Neither
<1>7. CASE VmPurge(t)
  BY <1>7 DEF VmPurge, Neither
<1>8. CASE VmAppend(t)
  BY <1>8 DEF VmAppend, Hang, Neither
<1>9. CASE VmFlag(t)
  BY <1>9 DEF VmFlag, Neither
<1>10. CASE VmTestWriteBack(t)
  BY <1>10 DEF VmTestWriteBack, Neither
<1>11. CASE VmClearWriteBack(t)
  BY <1>11 DEF VmClearWriteBack, Neither
<1>12. CASE WalkStep(t)
  BY <1>12, VmWalks DEF Walked, Neither
<1>13. CASE VmAgentInfo(t)
  BY <1>13 DEF VmAgentInfo, Neither
<1>14. CASE VmTrailer(t)
  BY <1>14 DEF VmTrailer, Hang, Neither
<1>15. CASE VmPostWriter(t)
  BY <1>15 DEF VmPostWriter, Neither
<1>16. CASE VmTestBootstrap(t)
  BY <1>16 DEF VmTestBootstrap, Neither
<1>17. CASE VmClearBootstrap(t)
  BY <1>17 DEF VmClearBootstrap, Neither
<1>18. CASE VmRequeue(t)
  BY <1>18 DEF VmRequeue, GivesPacket
<1>19. CASE VmPost(t)
  BY <1>19 DEF VmPost, PostsUnit
<1> QED
  BY <1>1, <1>2, <1>3, <1>4, <1>5, <1>6, <1>7, <1>8, <1>9, <1>10, <1>11, <1>12, <1>13, <1>14, <1>15, <1>16, <1>17, <1>18, <1>19 DEF Vm, WalkStep

(* Counting the threads at a step, when one thread moves.                  *)
LEMMA CountMove ==
  ASSUME NEW t \in Threads, NEW step,
         \A u \in Threads \ {t} : pc'[u] = pc[u]
  PROVE  /\ Cardinality(ThreadsAt(step)) \in Nat
         /\ (pc[t] = step <=> pc'[t] = step) =>
              Cardinality(ThreadsAt(step))' = Cardinality(ThreadsAt(step))
         /\ pc[t] # step /\ pc'[t] = step =>
              Cardinality(ThreadsAt(step))' = Cardinality(ThreadsAt(step)) + 1
         /\ pc[t] = step /\ pc'[t] # step =>
              Cardinality(ThreadsAt(step))' = Cardinality(ThreadsAt(step)) - 1
<1> DEFINE A == ThreadsAt(step)
           B == {u \in Threads : pc'[u] = step}
<1>1. IsFiniteSet(A) /\ IsFiniteSet(B)
  BY ThreadsAssumption, FS_Subset DEF ThreadsAt
<1>2. ThreadsAt(step)' = B
  BY DEF ThreadsAt
<1>3. Cardinality(A) \in Nat /\ Cardinality(B) \in Nat
  BY <1>1, FS_CardinalityType
<1>4. (pc[t] = step <=> pc'[t] = step) => B = A
  BY DEF ThreadsAt
<1>5. ASSUME pc[t] # step, pc'[t] = step PROVE Cardinality(B) = Cardinality(A) + 1
  <2>1. B = A \cup {t} /\ t \notin A
    BY <1>5 DEF ThreadsAt
  <2> QED
    BY <2>1, <1>1, FS_AddElement
<1>6. ASSUME pc[t] = step, pc'[t] # step PROVE Cardinality(B) = Cardinality(A) - 1
  <2>1. B = A \ {t} /\ t \in A
    BY <1>6 DEF ThreadsAt
  <2> QED
    BY <2>1, <1>1, FS_RemoveElement
<1> QED
  BY <1>2, <1>3, <1>4, <1>5, <1>6

----------------------------------------------------------------------------
(* The units of sem_vm match the packets of rpkg_list.                     *)
LEMMA TokensInit == Init => TokensMatchPackets
<1> SUFFICES ASSUME Init PROVE TokensMatchPackets
  OBVIOUS
<1>1. ThreadsAt("dequeue") = {} /\ ThreadsAt("vpost") = {}
  BY DEF Init, ThreadsAt
<1>2. Len(rpkg_list) = 0 /\ RouterOwes = 0 /\ sem_vm = 0
  BY DEF Init, RouterOwes, IdleRouter
<1>3. Cardinality(ThreadsAt("dequeue")) = 0 /\ Cardinality(ThreadsAt("vpost")) = 0
  BY <1>1, FS_EmptySet
<1> QED
  BY <1>2, <1>3 DEF TokensMatchPackets

LEMMA TokensVm ==
  ASSUME TypeInv, TokensMatchPackets, NEW t \in Threads, Vm(t)
  PROVE  TokensMatchPackets'
<1>1. CASE Die
  BY <1>1 DEF Die, TokensMatchPackets, ThreadsAt, RouterOwes, queueVars, threadVars
<1>2. ASSUME ~Die PROVE TokensMatchPackets'
  <2>1. OthersKeep(t)
    BY <1>2, VmThread
  <2>2. RouterOwes' = RouterOwes /\ RouterOwes \in Nat
    BY <2>1 DEF OthersKeep, RouterOwes
  <2> DEFINE D == Cardinality(ThreadsAt("dequeue"))
             P == Cardinality(ThreadsAt("vpost"))
  <2>3. /\ D \in Nat
        /\ (pc[t] = "dequeue" <=> pc'[t] = "dequeue") => D' = D
        /\ pc[t] # "dequeue" /\ pc'[t] = "dequeue" => D' = D + 1
        /\ pc[t] = "dequeue" /\ pc'[t] # "dequeue" => D' = D - 1
    BY <2>1, CountMove DEF OthersKeep
  <2>4. /\ P \in Nat
        /\ (pc[t] = "vpost" <=> pc'[t] = "vpost") => P' = P
        /\ pc[t] # "vpost" /\ pc'[t] = "vpost" => P' = P + 1
        /\ pc[t] = "vpost" /\ pc'[t] # "vpost" => P' = P - 1
    BY <2>1, CountMove DEF OthersKeep
  <2>5. sem_vm \in Nat /\ rpkg_list \in Seq(Skbs) /\ sem_vm + D + P + RouterOwes = Len(rpkg_list)
    BY DEF TypeInv, TypeOK, TokensMatchPackets
  <2> HIDE DEF D, P
  <2>6. sem_vm' + D' + P' + RouterOwes' = Len(rpkg_list')
    <3>1. CASE TakesUnit(t)
      BY <3>1, <2>2, <2>3, <2>4, <2>5 DEF TakesUnit, Moves
    <3>2. CASE TakesPacket(t)
      <4>1. Len(Tail(rpkg_list)) = Len(rpkg_list) - 1
        BY <3>2, <2>5, HeadTailProperties DEF TakesPacket
      <4> QED
        BY <4>1, <3>2, <2>2, <2>3, <2>4, <2>5 DEF TakesPacket, Moves
    <3>3. CASE GivesPacket(t)
      <4>1. cur[t] \in Skbs
        BY <3>3, InHand DEF GivesPacket, Moves, Holding, Steps
      <4>2. Len(Append(rpkg_list, cur[t])) = Len(rpkg_list) + 1
        BY <4>1, <2>5
      <4> QED
        BY <4>2, <3>3, <2>2, <2>3, <2>4, <2>5 DEF GivesPacket, Moves
    <3>4. CASE PostsUnit(t)
      BY <3>4, <2>2, <2>3, <2>4, <2>5 DEF PostsUnit, Moves
    <3>5. CASE Neither(t)
      BY <3>5, <2>2, <2>3, <2>4, <2>5 DEF Neither
    <3> QED
      BY <1>2, <3>1, <3>2, <3>3, <3>4, <3>5, VmMoves
  <2> QED
    BY <2>6 DEF TokensMatchPackets, D, P
<1> QED
  BY <1>1, <1>2

LEMMA TokensRouter ==
  ASSUME TypeInv, TokensMatchPackets, Router
  PROVE  TokensMatchPackets'
<1> DEFINE D == Cardinality(ThreadsAt("dequeue"))
           P == Cardinality(ThreadsAt("vpost"))
<1>1. pc' = pc
  BY DEF Router, RouterCreate, RouterData, RouterEnqueue, RouterPost, threadVars
<1>2. D' = D /\ P' = P /\ D \in Nat /\ P \in Nat
  <2>1. ThreadsAt("dequeue")' = ThreadsAt("dequeue") /\ ThreadsAt("vpost")' = ThreadsAt("vpost")
    BY <1>1 DEF ThreadsAt
  <2>2. IsFiniteSet(ThreadsAt("dequeue")) /\ IsFiniteSet(ThreadsAt("vpost"))
    BY ThreadsAssumption, FS_Subset DEF ThreadsAt
  <2> QED
    BY <2>1, <2>2, FS_CardinalityType
<1>3. sem_vm \in Nat /\ rpkg_list \in Seq(Skbs) /\ sem_vm + D + P + RouterOwes = Len(rpkg_list)
  BY DEF TypeInv, TypeOK, TokensMatchPackets
<1> HIDE DEF D, P
<1>4. sem_vm' + D' + P' + RouterOwes' = Len(rpkg_list')
  <2>1. ASSUME NEW s \in Skbs, NEW i \in Sessions, RouterCreate(s, i) \/ RouterData(s, i)
        PROVE  sem_vm' + D' + P' + RouterOwes' = Len(rpkg_list')
    BY <2>1, <1>2, <1>3 DEF RouterCreate, RouterData, RouterReceive, RouterOwes, queueVars
  <2>2. CASE RouterEnqueue
    <3>1. router \in RouterAt /\ router.skb \in Skbs
      BY <2>2 DEF TypeInv, TypeOK, HoldingInv, RouterEnqueue
    <3>2. router'.step = "post" /\ router'.list = router.list
      BY <3>1, <2>2 DEF RouterEnqueue, RouterAt
    <3>3. Len(Append(rpkg_list, router.skb)) = Len(rpkg_list) + 1
      BY <3>1, <1>3
    <3> QED
      BY <2>2, <3>2, <3>3, <1>2, <1>3 DEF RouterEnqueue, RouterOwes
  <2>3. CASE RouterPost
    BY <2>3, <1>2, <1>3 DEF RouterPost, RouterOwes, IdleRouter
  <2> QED
    BY <2>1, <2>2, <2>3 DEF Router
<1> QED
  BY <1>4 DEF TokensMatchPackets, D, P

(* A thread that has passed sem_wait finds a packet in rpkg_list: the      *)
(* units of the semaphore and the packets of the queue match at every      *)
(* moment, for any number of threads (tsm_vm.c:131-132,173-174).           *)
THEOREM TokensCorrect == Spec => []TokensMatchPackets
<1>1. TokensMatchPackets /\ TypeInv /\ [Next]_vars => TokensMatchPackets'
  <2>1. ASSUME TokensMatchPackets, UNCHANGED vars PROVE TokensMatchPackets'
    BY <2>1 DEF vars, queueVars, threadVars, TokensMatchPackets, ThreadsAt, RouterOwes
  <2> QED
    BY <2>1, TokensVm, TokensRouter DEF Next
<1> QED
  BY <1>1, TokensInit, TypeInit, TypeStep, PTL DEF Spec

----------------------------------------------------------------------------
(* A packet is in one place. What a step of the pool does with what a     *)
(* thread owns: keep it or give it up, take it from rpkg_list, put it back,*)
(* or free it.                                                             *)
OwnsNoMore(t) == Owns(t)' => Owns(t) /\ cur'[t] = cur[t]
Frees(t) == /\ Owns(t) /\ ~Owns(t)' /\ mem' = [mem EXCEPT ![cur[t]] = "freed"]
            /\ UNCHANGED rpkg_list
Keeps(t) == OwnsNoMore(t) /\ UNCHANGED <<rpkg_list, mem>>
Takes(t) == TakesPacket(t) /\ UNCHANGED mem
Gives(t) == GivesPacket(t) /\ UNCHANGED mem /\ fault' = Freed(t)

LEMMA VmHolds ==
  ASSUME TypeInv, NEW t \in Threads, Vm(t), ~Die
  PROVE  Keeps(t) \/ Takes(t) \/ Gives(t) \/ Frees(t)
<1>a. /\ pc \in [Threads -> Steps] /\ fba \in [Threads -> Skbs \cup {NoSkb}]
      /\ cur \in [Threads -> Skbs \cup {NoSkb}]
  BY DEF TypeInv, TypeOK
<1> USE <1>a DEF At, Goto, queueVars, Owns, Freed, AfterFree, Holding, Steps, OwnsNoMore
<1>1. CASE VmWait(t)
  BY <1>1 DEF VmWait, Keeps
<1>2. CASE VmDequeue(t)
  BY <1>2 DEF VmDequeue, Takes, TakesPacket, Moves
<1>3. CASE VmSkip(t)
  BY <1>3 DEF VmSkip, Keeps
<1>4. CASE VmFetchCcb(t)
  BY <1>4 DEF VmFetchCcb, Keeps
<1>5. CASE VmDispatch(t)
  BY <1>5 DEF VmDispatch, Keeps
<1>6. CASE VmJump(t)
  BY <1>6 DEF VmJump, Keeps
<1>7. CASE VmPurge(t)
  BY <1>7 DEF VmPurge, Keeps
<1>8. CASE VmAppend(t)
  BY <1>8 DEF VmAppend, Hang, Keeps
<1>9. CASE VmFlag(t)
  BY <1>9 DEF VmFlag, Keeps
<1>10. CASE VmTestWriteBack(t)
  BY <1>10 DEF VmTestWriteBack, Keeps, Frees
<1>11. CASE VmClearWriteBack(t)
  BY <1>11 DEF VmClearWriteBack, Keeps
<1>12. CASE WalkStep(t)
  BY <1>12, VmWalks DEF Walked, Keeps
<1>13. CASE VmAgentInfo(t)
  BY <1>13 DEF VmAgentInfo, Keeps
<1>14. CASE VmTrailer(t)
  BY <1>14 DEF VmTrailer, Hang, Keeps
<1>15. CASE VmPostWriter(t)
  BY <1>15 DEF VmPostWriter, Keeps
<1>16. CASE VmTestBootstrap(t)
  BY <1>16 DEF VmTestBootstrap, Keeps
<1>17. CASE VmClearBootstrap(t)
  BY <1>17 DEF VmClearBootstrap, Keeps
<1>18. CASE VmRequeue(t)
  BY <1>18 DEF VmRequeue, Gives, GivesPacket, Moves
<1>19. CASE VmPost(t)
  BY <1>19 DEF VmPost, Keeps
<1> QED
  BY <1>1, <1>2, <1>3, <1>4, <1>5, <1>6, <1>7, <1>8, <1>9, <1>10, <1>11, <1>12, <1>13, <1>14, <1>15, <1>16, <1>17, <1>18, <1>19 DEF Vm, WalkStep

LEMMA VmRuns == ASSUME NEW t \in Threads, Vm(t) PROVE ~fault
  BY DEF Vm, At, WalksAt, VmWait, VmDequeue, VmSkip, VmFetchCcb, VmDispatch, VmJump, VmPurge,
         VmAppend, VmFlag, VmWalkBegin, VmWalkFreed, VmPadSw, VmPadA0, VmPadA1,
         VmTestWriteBack, VmClearWriteBack, VmAgentInfo, VmTrailer, VmPostWriter,
         VmTestBootstrap, VmClearBootstrap, VmRequeue, VmPost

LEMMA HeldVm ==
  ASSUME TypeInv, PacketHeldOnce, NEW t \in Threads, Vm(t)
  PROVE  PacketHeldOnce'
<1>1. CASE Die
  BY <1>1 DEF Die, PacketHeldOnce
<1>2. ASSUME ~Die PROVE PacketHeldOnce'
  <2>1. OthersKeep(t) /\ router' = router /\ ~fault
    BY <1>2, VmThread, VmRuns DEF OthersKeep
  <2>2. /\ rpkg_list \in Seq(Skbs) /\ cur \in [Threads -> Skbs \cup {NoSkb}]
        /\ mem \in [Skbs -> {"unused", "live", "freed"}]
        /\ \A u \in Threads : Owns(u) => cur[u] \in Skbs
    BY InHand DEF TypeInv, TypeOK, Owns
  <2>3. \A u \in Threads \ {t} : Owns(u)' = Owns(u) /\ cur'[u] = cur[u]
    BY <2>1 DEF OthersKeep, Owns, Freed
  <2>4. \A s \in Skbs : RouterHas(s)' = RouterHas(s)
    BY <2>1 DEF RouterHas
  <2> USE <2>1, <2>2, <2>3, <2>4, SkbsAssumption DEF PacketHeldOnce
  <2>5. CASE Keeps(t)
    <3>1. \A s \in Skbs \cup {NoSkb} : InVmQueue(s)' = InVmQueue(s)
      BY <2>5 DEF Keeps, InVmQueue
    <3> QED
      BY <2>5, <3>1 DEF Keeps, OwnsNoMore
  <2>6. CASE Takes(t)
    <3> DEFINE s0 == Head(rpkg_list)
    <3>1. /\ s0 \in Skbs /\ InVmQueue(s0) /\ cur'[t] = s0
          /\ \A s \in Skbs : InVmQueue(s)' <=> InVmQueue(s) /\ s # s0
          /\ \A j, k \in DOMAIN rpkg_list' : rpkg_list'[j] = rpkg_list'[k] => j = k
      <4>1. /\ rpkg_list' = Tail(rpkg_list) /\ rpkg_list # <<>>
            /\ Len(rpkg_list') = Len(rpkg_list) - 1 /\ Len(rpkg_list) \in Nat \ {0}
            /\ \A k \in 1 .. Len(rpkg_list) - 1 : rpkg_list'[k] = rpkg_list[k + 1]
        BY <2>6, HeadTailProperties, EmptySeq DEF Takes, TakesPacket
      <4>2. /\ s0 = rpkg_list[1] /\ DOMAIN rpkg_list = 1 .. Len(rpkg_list)
            /\ DOMAIN rpkg_list' = 1 .. Len(rpkg_list) - 1
        BY <4>1
      <4>3. \A k \in DOMAIN rpkg_list : k # 1 => k - 1 \in 1 .. Len(rpkg_list) - 1 /\ (k - 1) + 1 = k
        BY <4>1, <4>2
      <4>4. /\ 1 \in DOMAIN rpkg_list
            /\ \A k \in DOMAIN rpkg_list' : k + 1 \in DOMAIN rpkg_list /\ k + 1 # 1
        BY <4>1, <4>2
      <4>5. \A j, k \in DOMAIN rpkg_list' : j + 1 = k + 1 => j = k
        BY <4>2
      <4>6. cur'[t] = s0 /\ s0 \in Skbs
        BY <2>6, <4>2, <4>4 DEF Takes, TakesPacket
      <4> HIDE DEF s0
      <4>7. \A s \in Skbs : InVmQueue(s)' <=> InVmQueue(s) /\ s # s0
        <5>1. \A s \in Skbs : InVmQueue(s)' => InVmQueue(s) /\ s # s0
          BY <4>1, <4>2, <4>4 DEF InVmQueue
        <5>2. ASSUME NEW s \in Skbs, InVmQueue(s), s # s0 PROVE InVmQueue(s)'
          <6>1. PICK k \in DOMAIN rpkg_list : rpkg_list[k] = s
            BY <5>2 DEF InVmQueue
          <6>2. k # 1 /\ k - 1 \in DOMAIN rpkg_list' /\ rpkg_list'[k - 1] = s
            BY <4>1, <4>2, <4>3, <5>2, <6>1
          <6> QED
            BY <6>2 DEF InVmQueue
        <5> QED
          BY <5>1, <5>2
      <4>8. \A j, k \in DOMAIN rpkg_list' : rpkg_list'[j] = rpkg_list'[k] => j = k
        BY <4>1, <4>2, <4>4, <4>5
      <4> QED
        BY <4>2, <4>4, <4>6, <4>7, <4>8 DEF InVmQueue
    <3> HIDE DEF s0
    <3> QED
      BY <2>6, <3>1 DEF Takes
  <2>7. CASE Gives(t)
    <3>1. Owns(t) \/ fault'
      BY <2>7 DEF Gives, GivesPacket, Moves, Owns, Holding, Steps
    <3>2. ~Owns(t)'
      BY <2>7 DEF Gives, GivesPacket, Moves, Owns, Holding
    <3>3. ASSUME Owns(t)
          PROVE  /\ \A s \in Skbs : InVmQueue(s)' <=> InVmQueue(s) \/ s = cur[t]
                 /\ \A j, k \in DOMAIN rpkg_list' : rpkg_list'[j] = rpkg_list'[k] => j = k
      <4>1. /\ \A k \in DOMAIN rpkg_list' :
                \/ k \in DOMAIN rpkg_list /\ rpkg_list'[k] = rpkg_list[k]
                \/ k = Len(rpkg_list) + 1 /\ rpkg_list'[k] = cur[t]
            /\ \A k \in DOMAIN rpkg_list : k \in DOMAIN rpkg_list' /\ rpkg_list'[k] = rpkg_list[k]
            /\ Len(rpkg_list) + 1 \in DOMAIN rpkg_list'
            /\ rpkg_list'[Len(rpkg_list) + 1] = cur[t]
        BY <2>7, <3>3 DEF Gives, GivesPacket
      <4> QED
        BY <3>3, <4>1 DEF InVmQueue
    <3> QED
      BY <2>7, <3>1, <3>2, <3>3 DEF Gives
  <2>8. CASE Frees(t)
    <3>1. \A s \in Skbs : InVmQueue(s)' = InVmQueue(s)
      BY <2>8 DEF Frees, InVmQueue
    <3>2. \A s \in Skbs : s # cur[t] => mem'[s] = mem[s]
      BY <2>8 DEF Frees
    <3> QED
      BY <2>8, <3>1, <3>2 DEF Frees
  <2> QED
    BY <1>2, <2>5, <2>6, <2>7, <2>8, VmHolds
<1> QED
  BY <1>1, <1>2

LEMMA HeldRouter ==
  ASSUME TypeInv, PacketHeldOnce, Router
  PROVE  PacketHeldOnce'
<1>1. /\ rpkg_list \in Seq(Skbs) /\ UNCHANGED <<cur, pc, fba>> /\ ~fault
      /\ mem \in [Skbs -> {"unused", "live", "freed"}]
      /\ \A u \in Threads : Owns(u) => cur[u] \in Skbs
      /\ router.step # "idle" => router.skb \in Skbs
      /\ router \in RouterAt
  BY InHand DEF TypeInv, TypeOK, HoldingInv, Owns, Router, RouterCreate, RouterData, RouterReceive,
                RouterEnqueue, RouterPost, threadVars
<1>2. \A u \in Threads : Owns(u)' = Owns(u)
  BY <1>1 DEF Owns, Freed
<1> USE <1>1, <1>2 DEF PacketHeldOnce, RouterHas
<1>3. ASSUME NEW s \in Skbs, NEW i \in Sessions, RouterCreate(s, i) \/ RouterData(s, i)
      PROVE  PacketHeldOnce'
  <2>1. /\ mem[s] # "live" /\ mem' = [mem EXCEPT ![s] = "live"] /\ rpkg_list' = rpkg_list
        /\ router'.skb = s /\ router'.step = "enqueue" /\ router.step = "idle"
    BY <1>3 DEF RouterCreate, RouterData, RouterReceive, queueVars
  <2>2. \A x \in Skbs : InVmQueue(x)' = InVmQueue(x)
    BY <2>1 DEF InVmQueue
  <2> QED
    BY <2>1, <2>2
<1>4. CASE RouterEnqueue
  <2>1. /\ router'.step = "post" /\ router.step = "enqueue" /\ mem' = mem /\ router.skb \in Skbs
    BY <1>4 DEF RouterEnqueue, RouterAt
  <2>2. CASE rpkg_list' = rpkg_list
    <3>1. \A x \in Skbs : InVmQueue(x)' = InVmQueue(x)
      BY <2>2 DEF InVmQueue
    <3> QED
      BY <2>1, <2>2, <3>1
  <2>3. CASE rpkg_list' = Append(rpkg_list, router.skb)
    <3>1. /\ \A k \in DOMAIN rpkg_list' :
                \/ k \in DOMAIN rpkg_list /\ rpkg_list'[k] = rpkg_list[k]
                \/ k = Len(rpkg_list) + 1 /\ rpkg_list'[k] = router.skb
          /\ \A k \in DOMAIN rpkg_list : k \in DOMAIN rpkg_list' /\ rpkg_list'[k] = rpkg_list[k]
          /\ Len(rpkg_list) + 1 \in DOMAIN rpkg_list'
          /\ rpkg_list'[Len(rpkg_list) + 1] = router.skb
      BY <2>1, <2>3
    <3>2. /\ \A s \in Skbs : InVmQueue(s)' <=> InVmQueue(s) \/ s = router.skb
          /\ \A j, k \in DOMAIN rpkg_list' : rpkg_list'[j] = rpkg_list'[k] => j = k
      BY <2>1, <3>1 DEF InVmQueue
    <3> QED
      BY <2>1, <3>2
  <2> QED
    BY <1>4, <2>2, <2>3 DEF RouterEnqueue
<1>5. CASE RouterPost
  <2>1. rpkg_list' = rpkg_list /\ mem' = mem /\ router'.step = "idle" /\ router.step = "post"
    BY <1>5 DEF RouterPost, IdleRouter
  <2>2. \A x \in Skbs : InVmQueue(x)' = InVmQueue(x)
    BY <2>1 DEF InVmQueue
  <2> QED
    BY <2>1, <2>2
<1> QED
  BY <1>3, <1>4, <1>5 DEF Router

LEMMA HeldInit == Init => PacketHeldOnce
  BY DEF Init, PacketHeldOnce, InVmQueue, RouterHas, IdleRouter, Owns, Holding

LEMMA HeldStep == PacketHeldOnce /\ TypeInv /\ [Next]_vars => PacketHeldOnce'
<1>1. ASSUME PacketHeldOnce, UNCHANGED vars PROVE PacketHeldOnce'
  BY <1>1 DEF vars, queueVars, threadVars, PacketHeldOnce, InVmQueue, RouterHas, Owns, Freed
<1> QED
  BY <1>1, HeldVm, HeldRouter DEF Next

(* A packet is in rpkg_list once, or with one thread that has not freed it,*)
(* or in the hands of the router, and is not freed memory, for any number  *)
(* of threads and any script and with alloc_skb handing out again what was *)
(* freed: up to the first step of VmRequeue that queues a freed packet     *)
(* (tsm_vm.c:132,151,173), which the run of FreedPacketStaysOut shows.     *)
THEOREM HeldOnceCorrect == Spec => []PacketHeldOnce
  BY HeldInit, HeldStep, TypeInit, TypeStep, PTL DEF Spec

----------------------------------------------------------------------------
(* A step of the pool changes no session number, of a CCB or of a packet,  *)
(* and a thread gets its CCB from fetch_ccb.                               *)
SameSessions == /\ \A k \in DOMAIN ccb_list : ccb_list'[k].session = ccb_list[k].session
                /\ \A s \in Skbs : packet'[s].session = packet[s].session
KeepsCcb(t) == pc[t] \in WithCcb /\ ccb'[t] = ccb[t] /\ cur'[t] = cur[t]
GetsCcb(t)  == /\ pc[t] = "fetch" /\ IsFirst(ccb'[t], packet[cur[t]].session)
               /\ cur'[t] = cur[t]

LEMMA SetCcbSession ==
  ASSUME TypeInv, NEW t \in Threads, pc[t] \in WithCcb, NEW c, SetCcb(t, c),
         c.session = CCB(t).session
  PROVE  \A k \in DOMAIN ccb_list : ccb_list'[k].session = ccb_list[k].session
<1>1. ccb_list \in Seq(Ccb)
  BY DEF TypeInv, TypeOK
<1> QED
  BY <1>1 DEF SetCcb, CCB

LEMMA VmSessions ==
  ASSUME TypeInv, NEW t \in Threads, Vm(t), ~Die
  PROVE  /\ SameSessions
         /\ pc'[t] \in WithCcb => KeepsCcb(t) \/ GetsCcb(t)
<1>a. /\ pc \in [Threads -> Steps] /\ cur \in [Threads -> Skbs \cup {NoSkb}]
      /\ ccb \in [Threads -> Nat] /\ packet \in [Skbs -> Packet]
  BY DEF TypeInv, TypeOK
<1>b. pc[t] \in WithCcb => CCB(t) \in Ccb
  BY InHand
<1> DEFINE SetsCcb == \E c : SetCcb(t, c) /\ c.session = CCB(t).session
<1>c. ASSUME pc[t] \in WithCcb, SetsCcb
      PROVE  \A k \in DOMAIN ccb_list : ccb_list'[k].session = ccb_list[k].session
  BY <1>c, SetCcbSession
<1> USE <1>a DEF At, Goto, WithCcb, Holding, Steps, SameSessions, KeepsCcb, GetsCcb
<1> HIDE DEF SetsCcb
<1>1. CASE VmWait(t)
  BY <1>1 DEF VmWait
<1>2. CASE VmDequeue(t)
  BY <1>2 DEF VmDequeue
<1>3. CASE VmSkip(t)
  <2>1. cur[t] \in Skbs /\ packet[cur[t]] \in Packet
    BY <1>3, InHand DEF VmSkip
  <2> DEFINE parsed == [packet[cur[t]] EXCEPT !.isNew = FALSE, !.drained = TRUE]
  <2>2. packet' = packet \/ packet' = [packet EXCEPT ![cur[t]] = parsed]
    BY <1>3 DEF VmSkip
  <2>4. parsed.session = packet[cur[t]].session
    BY <2>1 DEF Packet
  <2> HIDE DEF parsed
  <2>3. \A s \in Skbs : packet'[s].session = packet[s].session
    BY <2>1, <2>2, <2>4
  <2> QED
    BY <1>3, <2>3 DEF VmSkip
<1>4. CASE VmFetchCcb(t)
  BY <1>4 DEF VmFetchCcb
<1>5. CASE VmDispatch(t)
  BY <1>5 DEF VmDispatch
<1>6. CASE VmJump(t)
  <2>1. SetsCcb
    BY <1>6, <1>b DEF VmJump, SetsCcb, Ccb
  <2> QED
    BY <1>6, <1>c, <2>1 DEF VmJump
<1>7. CASE VmPurge(t)
  <2>1. CASE Built(t) = <<>>
    BY <1>7, <2>1 DEF VmPurge
  <2>2. CASE Built(t) # <<>>
    <3>4. CCB(t) \in Ccb
      BY <1>7, <1>b DEF VmPurge
    <3>5. CCB(t).apduQ \in Seq(Apdu) /\ CCB(t).cmdQ \in Seq(Apdu)
      BY <3>4 DEF Ccb
    <3>6. Built(t) \in Seq(Apdu)
      BY <3>5 DEF Built
    <3>1. Tail(Built(t)) \in Seq(Apdu)
      BY <2>2, <3>6
    <3>2. SetBuilt(t, Tail(Built(t)))
      BY <1>7, <2>2 DEF VmPurge
    <3>3. SetsCcb
      BY <1>7, <3>1, <3>2, BuiltStored DEF VmPurge, StoresCcb, SetsCcb
    <3> QED
      BY <1>7, <1>c, <2>2, <3>3 DEF VmPurge
  <2> QED
    BY <2>1, <2>2
<1>8. CASE VmAppend(t)
  <2>1. SetsCcb \/ ccb_list' = ccb_list
    BY <1>8, AppendStored DEF StoresCcb, SetsCcb
  <2> QED
    BY <1>8, <1>c, <2>1 DEF VmAppend, Hang
<1>9. CASE VmFlag(t)
  <2>1. SetsCcb \/ Die
    BY <1>9, <1>b DEF VmFlag, SetsCcb, Ccb
  <2> QED
    BY <1>9, <1>c, <2>1 DEF VmFlag
<1>10. CASE VmTestWriteBack(t)
  BY <1>10 DEF VmTestWriteBack
<1>11. CASE VmClearWriteBack(t)
  <2>1. SetsCcb
    BY <1>11, <1>b DEF VmClearWriteBack, SetsCcb, Ccb
  <2> QED
    BY <1>11, <1>c, <2>1 DEF VmClearWriteBack
<1>12. CASE WalkStep(t)
  <2>1. Walked(t) /\ (ccb_list' = ccb_list \/ StoresCcb(t)) /\ UNCHANGED <<packet, cur, ccb>>
    BY <1>12, VmWalks
  <2>2. SetsCcb \/ ccb_list' = ccb_list
    BY <2>1 DEF StoresCcb, SetsCcb
  <2> QED
    BY <1>c, <2>1, <2>2 DEF Walked
<1>13. CASE VmAgentInfo(t)
  BY <1>13 DEF VmAgentInfo
<1>14. CASE VmTrailer(t)
  BY <1>14 DEF VmTrailer, Hang
<1>15. CASE VmPostWriter(t)
  BY <1>15 DEF VmPostWriter
<1>16. CASE VmTestBootstrap(t)
  BY <1>16 DEF VmTestBootstrap
<1>17. CASE VmClearBootstrap(t)
  <2>1. SetsCcb
    BY <1>17, <1>b DEF VmClearBootstrap, SetsCcb, Ccb
  <2> QED
    BY <1>17, <1>c, <2>1 DEF VmClearBootstrap, Packet
<1>18. CASE VmRequeue(t)
  BY <1>18 DEF VmRequeue
<1>19. CASE VmPost(t)
  BY <1>19 DEF VmPost
<1> QED
  BY <1>1, <1>2, <1>3, <1>4, <1>5, <1>6, <1>7, <1>8, <1>9, <1>10, <1>11, <1>12, <1>13, <1>14, <1>15, <1>16, <1>17, <1>18, <1>19 DEF Vm, WalkStep

LEMMA SessionVm ==
  ASSUME TypeInv, SessionOnOneCcb, NEW t \in Threads, Vm(t)
  PROVE  SessionOnOneCcb'
<1>1. CASE Die
  BY <1>1 DEF Die, SessionOnOneCcb, IsFirst, Matches, Owns, Freed, threadVars
<1>2. ASSUME ~Die PROVE SessionOnOneCcb'
  <2>1. OthersKeep(t) /\ SameSessions /\ (pc'[t] \in WithCcb => KeepsCcb(t) \/ GetsCcb(t))
    BY <1>2, VmThread, VmSessions
  <2>2. \A u \in Threads : pc[u] \in WithCcb => cur[u] \in Skbs
    BY InHand DEF WithCcb
  <2>3. pc[t] = "fetch" => cur[t] \in Skbs
    BY InHand DEF Holding, Steps
  <2>4. \A k, i : IsFirst(k, i)' <=> IsFirst(k, i)
    BY <2>1 DEF OthersKeep, SameSessions, IsFirst, Matches
  <2>7. pc[t] # "dequeue" => (Owns(t)' => Owns(t))
    BY <1>2, VmHolds DEF Keeps, OwnsNoMore, Takes, Gives, TakesPacket, GivesPacket, Frees, Moves,
                         Owns, Holding, Steps
  <2>8. \A u \in Threads \ {t} : Owns(u)' = Owns(u)
    BY <2>1 DEF OthersKeep, Owns, Freed
  <2> SUFFICES ASSUME NEW u \in Threads, pc'[u] \in WithCcb, Owns(u)'
               PROVE  IsFirst(ccb[u], packet[cur[u]].session)'
    BY DEF SessionOnOneCcb
  <2>9. pc[t] \in WithCcb => pc[t] # "dequeue"
    BY DEF WithCcb, Holding
  <2>5. IsFirst(ccb'[u], packet[cur'[u]].session) /\ cur'[u] \in Skbs
    BY <2>1, <2>2, <2>3, <2>7, <2>8, <2>9 DEF SessionOnOneCcb, OthersKeep, KeepsCcb, GetsCcb
  <2>6. packet'[cur'[u]].session = packet[cur'[u]].session
    BY <2>1, <2>5 DEF SameSessions
  <2> QED
    BY <2>4, <2>5, <2>6
<1> QED
  BY <1>1, <1>2

LEMMA SessionRouter ==
  ASSUME TypeInv, PacketHeldOnce, SessionOnOneCcb, Router
  PROVE  SessionOnOneCcb'
<1>1. /\ ccb_list \in Seq(Ccb) /\ UNCHANGED <<pc, cur, ccb, fba>> /\ ~fault
      /\ packet \in [Skbs -> Packet]
      /\ \A u \in Threads : Owns(u) => cur[u] \in Skbs
  BY InHand DEF TypeInv, TypeOK, Owns, Router, RouterCreate, RouterData, RouterReceive,
                RouterEnqueue, RouterPost, threadVars
<1>5. \A u \in Threads : Owns(u)' = Owns(u)
  BY <1>1 DEF Owns, Freed
<1>6. \A u \in Threads : Owns(u) => mem[cur[u]] = "live"
  BY <1>1 DEF PacketHeldOnce
<1>2. \A u \in Threads : Owns(u) => packet'[cur[u]].session = packet[cur[u]].session
  BY <1>1, <1>6 DEF Router, RouterCreate, RouterData, RouterReceive, RouterEnqueue, RouterPost
<1>3. \/ ccb_list' = ccb_list
      \/ \E c \in Ccb : ccb_list' = Append(ccb_list, c)
  <2>1. \A i \in Sessions, loaded \in BOOLEAN : NewCcb(i, loaded) \in Ccb
    BY SessionAssumption DEF NewCcb, Ccb
  <2> QED
    BY <2>1 DEF Router, RouterCreate, RouterData, RouterEnqueue, RouterPost
<1>4. \A k, i : IsFirst(k, i) => IsFirst(k, i)'
  <2>1. ASSUME NEW c \in Ccb, ccb_list' = Append(ccb_list, c), NEW k, NEW i, IsFirst(k, i)
        PROVE  IsFirst(k, i)'
    <3>1. /\ \A j \in DOMAIN ccb_list : j \in DOMAIN ccb_list' /\ ccb_list'[j] = ccb_list[j]
          /\ \A j \in DOMAIN ccb_list' : j \in DOMAIN ccb_list \/ j = Len(ccb_list) + 1
          /\ \A j \in DOMAIN ccb_list : j <= Len(ccb_list) + 1
      BY <1>1, <2>1
    <3> QED
      BY <2>1, <3>1 DEF IsFirst, Matches
  <2> QED
    BY <1>3, <2>1 DEF IsFirst, Matches
<1> QED
  BY <1>1, <1>2, <1>4, <1>5 DEF SessionOnOneCcb

(* Packets of a session are all served by the CCB that was linked first    *)
(* for it, whatever CCBs the router links while a thread is at work        *)
(* (tsm_vm.c:15-30, tsm_router.c:209-217, fm_List.c:9-14).                 *)
THEOREM SessionCorrect == Spec => []SessionOnOneCcb
<1>1. Init => SessionOnOneCcb
  BY DEF Init, SessionOnOneCcb, WithCcb, Holding, Steps
<1>2. SessionOnOneCcb /\ PacketHeldOnce /\ TypeInv /\ [Next]_vars => SessionOnOneCcb'
  <2>1. ASSUME SessionOnOneCcb, UNCHANGED vars PROVE SessionOnOneCcb'
    BY <2>1 DEF vars, queueVars, threadVars, SessionOnOneCcb, IsFirst, Matches,
                   Owns, Freed
  <2> QED
    BY <2>1, SessionVm, SessionRouter DEF Next
<1> QED
  BY <1>1, <1>2, HeldInit, HeldStep, TypeInit, TypeStep, PTL DEF Spec

----------------------------------------------------------------------------
(* The fragments a byte code gets are those of its packet.                 *)
FragInv == FragmentsOfPacket /\ ParsedInv

(* The packets a step changes: parsed, marked, or given out.               *)
LEMMA VmFragments ==
  ASSUME TypeInv, FragInv, NEW t \in Threads, Vm(t), ~Die
  PROVE  /\ \A s \in Skbs : ~packet'[s].isNew => packet'[s].drained
         /\ \A u \in Threads \ {t} : fba'[u] = fba[u]
         /\ pc'[t] = "fetch" \/ pc'[t] \in BeforeFree => fba'[t] = cur'[t]
<1>a. /\ pc \in [Threads -> Steps] /\ cur \in [Threads -> Skbs \cup {NoSkb}]
      /\ fba \in [Threads -> Skbs \cup {NoSkb}] /\ packet \in [Skbs -> Packet]
      /\ pc[t] \in Holding => cur[t] \in Skbs
      /\ \A s \in Skbs : ~packet[s].isNew => packet[s].drained
      /\ pc[t] = "fetch" => fba[t] = cur[t]
      /\ pc[t] \in BeforeFree => fba[t] = cur[t]
  BY InHand DEF TypeInv, TypeOK, FragInv, ParsedInv, FragmentsOfPacket
<1> USE <1>a DEF At, Goto, BeforeFree, AfterFree, WithCcb, Holding, Steps
<1>1. CASE VmWait(t)
  BY <1>1 DEF VmWait
<1>2. CASE VmDequeue(t)
  BY <1>2 DEF VmDequeue
<1>3. CASE VmSkip(t)
  <2>1. cur[t] \in Skbs /\ packet[cur[t]] \in Packet /\ ~packet[cur[t]].drained
    BY <1>3 DEF VmSkip
  <2>2. /\ fba' = [fba EXCEPT ![t] = cur[t]] /\ cur' = cur /\ pc'[t] = "fetch"
        /\ packet' = [packet EXCEPT ![cur[t]] =
                         [packet[cur[t]] EXCEPT !.isNew = FALSE, !.drained = TRUE]]
    BY <1>3, <2>1 DEF VmSkip
  <2>3. \A s \in Skbs : ~packet'[s].isNew => packet'[s].drained
    BY <2>1, <2>2 DEF Packet
  <2> QED
    BY <2>2, <2>3
<1>4. CASE VmFetchCcb(t)
  BY <1>4 DEF VmFetchCcb
<1>5. CASE VmDispatch(t)
  BY <1>5 DEF VmDispatch
<1>6. CASE VmJump(t)
  BY <1>6 DEF VmJump
<1>7. CASE VmPurge(t)
  BY <1>7 DEF VmPurge
<1>8. CASE VmAppend(t)
  BY <1>8 DEF VmAppend, Hang
<1>9. CASE VmFlag(t)
  BY <1>9 DEF VmFlag
<1>10. CASE VmTestWriteBack(t)
  BY <1>10 DEF VmTestWriteBack
<1>11. CASE VmClearWriteBack(t)
  BY <1>11 DEF VmClearWriteBack
<1>12. CASE WalkStep(t)
  BY <1>12, VmWalks DEF Walked
<1>13. CASE VmAgentInfo(t)
  BY <1>13 DEF VmAgentInfo
<1>14. CASE VmTrailer(t)
  BY <1>14 DEF VmTrailer, Hang
<1>15. CASE VmPostWriter(t)
  BY <1>15 DEF VmPostWriter
<1>16. CASE VmTestBootstrap(t)
  BY <1>16 DEF VmTestBootstrap
<1>17. CASE VmClearBootstrap(t)
  <2>1. \A s \in Skbs : packet'[s].isNew = packet[s].isNew
                        /\ packet'[s].drained = packet[s].drained
    BY <1>17 DEF VmClearBootstrap, Packet
  <2> QED
    BY <1>17, <2>1 DEF VmClearBootstrap
<1>18. CASE VmRequeue(t)
  BY <1>18 DEF VmRequeue
<1>19. CASE VmPost(t)
  BY <1>19 DEF VmPost
<1> QED
  BY <1>1, <1>2, <1>3, <1>4, <1>5, <1>6, <1>7, <1>8, <1>9, <1>10, <1>11, <1>12, <1>13, <1>14, <1>15, <1>16, <1>17, <1>18, <1>19 DEF Vm, WalkStep

LEMMA FragmentsStep == FragInv /\ TypeInv /\ [Next]_vars => FragInv'
<1> SUFFICES ASSUME FragInv, TypeInv, [Next]_vars PROVE FragInv'
  OBVIOUS
<1> USE DEF FragInv, FragmentsOfPacket, ParsedInv
<1>1. CASE UNCHANGED vars
  BY <1>1 DEF vars, threadVars
<1>2. CASE Router
  <2>1. packet \in [Skbs -> Packet]
    BY DEF TypeInv, TypeOK
  <2>2. UNCHANGED <<pc, cur, fba>> /\ \A s \in Skbs : ~packet'[s].isNew => packet'[s].drained
    BY <1>2, <2>1 DEF Router, RouterCreate, RouterData, RouterReceive, RouterEnqueue, RouterPost,
                      threadVars
  <2> QED
    BY <2>2
<1>3. ASSUME NEW t \in Threads, Vm(t) PROVE FragInv'
  <2>1. CASE Die
    BY <2>1 DEF Die, threadVars
  <2>2. ASSUME ~Die PROVE FragInv'
    <3>1. OthersKeep(t)
      BY <1>3, <2>2, VmThread
    <3> QED
      BY <1>3, <2>2, <3>1, VmFragments DEF OthersKeep
  <2> QED
    BY <2>1, <2>2
<1> QED
  BY <1>1, <1>2, <1>3 DEF Next

(* No byte code runs on the fragments of an earlier packet: the local fba, *)
(* which tsm_vm never resets, is that of the packet in hand until the      *)
(* packet is freed (tsm_vm.c:129-145).                                     *)
THEOREM FragmentsCorrect == Spec => []FragmentsOfPacket
<1>1. Init => FragInv
  BY DEF Init, FragInv, FragmentsOfPacket, ParsedInv, BeforeFree, AfterFree, WithCcb, Holding, Steps
<1>2. FragInv => FragmentsOfPacket
  BY DEF FragInv
<1> QED
  BY <1>1, <1>2, FragmentsStep, TypeInit, TypeStep, PTL DEF Spec

=============================================================================
