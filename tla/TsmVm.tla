------------------------------- MODULE TsmVm -------------------------------
(***************************************************************************)
(* The virtual machine of the TSM server: the pool of threads that run     *)
(* tsm_vm() (src/tsm_vm.c), the CCBs they interpret scripts for            *)
(* (src/tsm_ccb.c), the byte codes they run as far as they touch shared    *)
(* state (src/bc_gp.c, src/bc_rsp.c), and the reading half of the router   *)
(* that feeds them (router_aggregate_work, src/tsm_router.c).              *)
(*                                                                         *)
(* One action is one access to state another thread can touch: a           *)
(* semaphore, a critical section of a queue or of ccb_list, one flag of a  *)
(* CCB, or one APDU of a walk over its queue, which no lock protects.      *)
(*                                                                         *)
(* A null or wild pointer that is dereferenced kills the process: "fault". *)
(* skb_put and skb_push spin for ever on an overrun: the thread is "hung". *)
(* Where the compiler accepts a call only with a diagnostic (a missing     *)
(* argument, a wrong level of indirection) the step has both outcomes, the *)
(* fault and the evident meaning; an uninitialised value takes any value.  *)
(* From the queueing of a packet that was freed on, C defines nothing: the *)
(* model stops there too, and says nothing of what follows ("fault").      *)
(***************************************************************************)
EXTENDS Integers, Sequences, FiniteSets

CONSTANTS
  Threads,    \* tsm_dev.threads: TSM_THREAD_NUM of them run tsm_vm
  Skbs,       \* the packets the router may allocate
  Sessions,   \* session numbers carried by packets
  NoSkb,      \* the null packet
  Code,       \* script address -> the instruction the byte code table gives it
  Targets,    \* addresses a conditional jump may put in PC
  MaxCcbs,    \* bound: CCBs created in a behaviour
  MaxReceived \* bound: packets received in a behaviour

(* A byte code as the VM sees it: its kind, how many APDUs its builders    *)
(* make (_gp_select and the others), and how long each is.                 *)
Kinds == {"reserve", "jump", "boot", "send", "mac"}
Instr == [kind : Kinds, apdus : Nat, bytes : Nat]

ASSUME ThreadsAssumption == IsFiniteSet(Threads)
ASSUME SkbsAssumption    == NoSkb \notin Skbs
ASSUME SessionAssumption == Sessions \subseteq Nat
ASSUME CodeAssumption    == Code \in [DOMAIN Code -> Instr] /\ DOMAIN Code \subseteq Int
ASSUME TargetAssumption  == Targets \subseteq Int
ASSUME MaxAssumption     == MaxCcbs \in Nat /\ MaxReceived \in Nat

MAX_APDU_LEN     == 300     \* bytes an APDU's packet is allocated with
TAG_A0_HEAD_ROOM == 3       \* tag, length and sequence number of an A0
TAG_A1_HEAD_ROOM == 4       \* tag and length of an A1
MSG_HEAD_LEN     == 12

VARIABLES
  rpkg_list, sem_vm,        \* packets for the VM, and their semaphore
  ppkg_list, sem_probe,     \* packets for the probe
  wpkg_list, sem_router_w,  \* sessions of the answers for the writer
  ccb_list,                 \* the CCBs, in list order
  mem,                      \* what became of each packet's memory
  packet,                   \* the fields of each packet
  router,                   \* where router_aggregate_work is
  pc, cur, ccb, fba, op,    \* each VM thread: step, skb, CCB, fba, ce
  work,                     \* each VM thread: how far it is with a queue of APDUs
  fault,                    \* the process died, or does what C leaves undefined
  received                  \* packets received so far

queueVars  == <<rpkg_list, sem_vm, ppkg_list, sem_probe, wpkg_list, sem_router_w>>
threadVars == <<pc, cur, ccb, fba, op, work>>
vars == <<queueVars, ccb_list, mem, packet, router, threadVars, fault, received>>

Steps == {"wait", "dequeue", "skip", "fetch", "exec", "jump", "purge", "append", "padSW",
          "flag", "wbtest", "wbclear", "padA0", "agent", "padA1", "trailer", "wpost",
          "boottest", "bootclear", "requeue", "vpost", "hung"}

Reserve  == [kind |-> "reserve", apdus |-> 0, bytes |-> 0]
(* head: the room for an A0 in front of the bytes is still free.           *)
Apdu     == [bytes : Nat, head : BOOLEAN]
Ccb      == [session : Nat, se : BOOLEAN, PC : Int, write_back : BOOLEAN,
             bootstrap : BOOLEAN, cmdQ : Seq(Apdu), apduQ : Seq(Apdu)]
(* made: APDUs appended; at, nxt: pos and n of list_for_each_safe, indexes *)
(* of cmdQ (0: its head, -1: an APDU that was freed); len: bytes counted   *)
(* so far; size: bytes of out.                                             *)
Work     == [made : Nat, at : Int, nxt : Int, len : Nat, size : Nat]
NoWork   == [made |-> 0, at |-> 0, nxt |-> 0, len |-> 0, size |-> 0]
Packet   == [session : Nat, isNew : BOOLEAN, drained : BOOLEAN,
             reason : {"normal", "bootstrap"}]
RouterAt == [step : {"idle", "enqueue", "post"}, skb : Skbs \cup {NoSkb},
             list : {"vm", "probe"}]
IdleRouter == [step |-> "idle", skb |-> NoSkb, list |-> "vm"]

Init ==
  /\ rpkg_list = <<>> /\ sem_vm = 0
  /\ ppkg_list = <<>> /\ sem_probe = 0
  /\ wpkg_list = <<>> /\ sem_router_w = 0
  /\ ccb_list = <<>>
  /\ mem = [s \in Skbs |-> "unused"]
  /\ packet = [s \in Skbs |-> [session |-> 0, isNew |-> TRUE, drained |-> FALSE,
                               reason |-> "normal"]]
  /\ router = IdleRouter
  /\ pc   = [t \in Threads |-> "wait"]
  /\ cur  = [t \in Threads |-> NoSkb]
  /\ ccb  = [t \in Threads |-> 0]
  /\ fba  = [t \in Threads |-> NoSkb]
  /\ op   = [t \in Threads |-> Reserve]
  /\ work = [t \in Threads |-> NoWork]
  /\ fault = FALSE
  /\ received = 0

----------------------------------------------------------------------------
(* The process dies: nothing runs any more.                                *)
Die == /\ fault' = TRUE
       /\ UNCHANGED <<queueVars, ccb_list, mem, packet, router, threadVars, received>>

At(t, step)   == ~fault /\ pc[t] = step
Goto(t, step) == pc' = [pc EXCEPT ![t] = step]

(* while(1) of skb_put and skb_push.                                       *)
Hang(t) == Goto(t, "hung") /\ work' = [work EXCEPT ![t] = NoWork]

(* The CCB a thread works on.                                              *)
CCB(t) == ccb_list[ccb[t]]
SetCcb(t, c) == ccb_list' = [ccb_list EXCEPT ![ccb[t]] = c]

----------------------------------------------------------------------------
(* router_aggregate_work. A packet that creates a CCB gets the session its *)
(* TLVs name (0 when none does) and is queued for the VM; nothing checks   *)
(* that the session is new. Its payload was pulled with skb_pull(skb->data,*)
(* ...), which either empties the packet or leaves it alone. The script    *)
(* may fail to load.                                                       *)
NewCcb(i, loaded) ==
  [session |-> i, se |-> loaded, PC |-> 0, write_back |-> FALSE,
   bootstrap |-> FALSE, cmdQ |-> <<>>, apduQ |-> <<>>]

(* alloc_skb may return what was freed before, also where a thread that    *)
(* freed it goes on using it (VmTestWriteBack).                            *)
RouterReceive(s, i, list, drained) ==
  /\ ~fault /\ router.step = "idle"
  /\ received < MaxReceived /\ received' = received + 1
  /\ mem[s] # "live"
  /\ mem' = [mem EXCEPT ![s] = "live"]
  /\ packet' = [packet EXCEPT ![s] = [session |-> i, isNew |-> TRUE,
                                      drained |-> drained, reason |-> "normal"]]
  /\ router' = [step |-> "enqueue", skb |-> s, list |-> list]

(* Mutant: list_add at the head of ccb_list.                               *)
RouterCreateAtHead(s, i) ==
  /\ Len(ccb_list) < MaxCcbs
  /\ \E drained \in BOOLEAN : RouterReceive(s, i, "vm", drained)
  /\ ccb_list' = <<NewCcb(i, TRUE)>> \o ccb_list
  /\ UNCHANGED <<queueVars, threadVars, fault>>

RouterCreate(s, i) ==
  /\ Len(ccb_list) < MaxCcbs
  /\ \E drained \in BOOLEAN : RouterReceive(s, i, "vm", drained)
  /\ \E loaded \in BOOLEAN : ccb_list' = Append(ccb_list, NewCcb(i, loaded))
  /\ UNCHANGED <<queueVars, threadVars, fault>>

(* A data packet: "agent" was never assigned, so the comparison with       *)
(* AG_TOOL sends it to either list.                                        *)
RouterData(s, i) ==
  /\ \E list \in {"vm", "probe"} : RouterReceive(s, i, list, FALSE)
  /\ UNCHANGED <<queueVars, ccb_list, threadVars, fault>>

RouterEnqueue ==
  /\ ~fault /\ router.step = "enqueue"
  /\ \/ /\ router.list = "vm"
        /\ rpkg_list' = Append(rpkg_list, router.skb)
        /\ UNCHANGED ppkg_list
     \/ /\ router.list = "probe"
        /\ ppkg_list' = Append(ppkg_list, router.skb)
        /\ UNCHANGED rpkg_list
  /\ router' = [router EXCEPT !.step = "post"]
  /\ UNCHANGED <<sem_vm, sem_probe, wpkg_list, sem_router_w, ccb_list, mem, packet,
                 threadVars, fault, received>>

(* Mutant: the post of sem_vm is forgotten.                                *)
RouterPostNothing ==
  /\ ~fault /\ router.step = "post"
  /\ router' = IdleRouter
  /\ UNCHANGED <<queueVars, ccb_list, mem, packet, threadVars, fault, received>>

RouterPost ==
  /\ ~fault /\ router.step = "post"
  /\ \/ router.list = "vm"    /\ sem_vm' = sem_vm + 1       /\ UNCHANGED sem_probe
     \/ router.list = "probe" /\ sem_probe' = sem_probe + 1 /\ UNCHANGED sem_vm
  /\ router' = IdleRouter
  /\ UNCHANGED <<rpkg_list, ppkg_list, wpkg_list, sem_router_w, ccb_list, mem, packet,
                 threadVars, fault, received>>

----------------------------------------------------------------------------
(* tsm_vm, from the semaphore to the CCB.                                  *)
(* Mutant: sem_trywait without a test of its result.                       *)
VmWaitNot(t) ==
  /\ At(t, "wait")
  /\ sem_vm' = sem_vm - 1
  /\ Goto(t, "dequeue")
  /\ UNCHANGED <<rpkg_list, ppkg_list, sem_probe, wpkg_list, sem_router_w, ccb_list,
                 mem, packet, router, cur, ccb, fba, op, work, fault, received>>

VmWait(t) ==
  /\ At(t, "wait") /\ sem_vm > 0
  /\ sem_vm' = sem_vm - 1
  /\ Goto(t, "dequeue")
  /\ UNCHANGED <<rpkg_list, ppkg_list, sem_probe, wpkg_list, sem_router_w, ccb_list,
                 mem, packet, router, cur, ccb, fba, op, work, fault, received>>

(* Mutant: skb_peek instead of skb_dequeue.                                *)
VmPeek(t) ==
  /\ At(t, "dequeue") /\ rpkg_list # <<>>
  /\ cur' = [cur EXCEPT ![t] = Head(rpkg_list)]
  /\ Goto(t, "skip")
  /\ UNCHANGED <<queueVars, ccb_list, mem, packet, router, ccb, fba, op, work, fault, received>>

(* skb_dequeue; the result is used without a test.                         *)
VmDequeue(t) ==
  /\ At(t, "dequeue")
  /\ IF rpkg_list = <<>>
     THEN Die
     ELSE /\ cur' = [cur EXCEPT ![t] = Head(rpkg_list)]
          /\ rpkg_list' = Tail(rpkg_list)
          /\ Goto(t, "skip")
          /\ UNCHANGED <<sem_vm, ppkg_list, sem_probe, wpkg_list, sem_router_w,
                         ccb_list, mem, packet, router, ccb, fba, op, work, fault, received>>

(* Mutant: the parser leaves the payload in the packet.                    *)
VmSkipCopy(t) ==
  /\ At(t, "skip")
  /\ ~packet[cur[t]].drained
  /\ fba' = IF packet[cur[t]].isNew THEN [fba EXCEPT ![t] = cur[t]] ELSE fba
  /\ packet' = [packet EXCEPT ![cur[t]].isNew = FALSE]
  /\ Goto(t, "fetch")
  /\ UNCHANGED <<queueVars, ccb_list, mem, router, cur, ccb, op, work, fault, received>>

(* skip_tagAx and tagA0s_to_fmBytesarray: the packet is this thread's      *)
(* alone. skb_pull returns NULL on a drained packet and the result is      *)
(* dereferenced; a payload that does not parse ends the same way. Parsing  *)
(* pulls until nothing is left.                                            *)
VmSkip(t) ==
  /\ At(t, "skip")
  /\ \/ Die
     \/ /\ ~packet[cur[t]].drained
        /\ IF packet[cur[t]].isNew
           THEN /\ fba' = [fba EXCEPT ![t] = cur[t]]
                /\ packet' = [packet EXCEPT ![cur[t]] =
                                 [@ EXCEPT !.isNew = FALSE, !.drained = TRUE]]
           ELSE UNCHANGED <<fba, packet>>
        /\ Goto(t, "fetch")
        /\ UNCHANGED <<queueVars, ccb_list, mem, router, cur, ccb, op, work, fault, received>>

(* fetch_ccb: the first CCB of the session, under the lock of ccb_list.    *)
(* NULL is tested for, and then dereferenced.                              *)
Matches(i) == {k \in DOMAIN ccb_list : ccb_list[k].session = i}
IsFirst(k, i) == k \in Matches(i) /\ \A j \in Matches(i) : k <= j

VmFetchCcb(t) ==
  /\ At(t, "fetch")
  /\ \/ /\ Matches(packet[cur[t]].session) = {}
        /\ Die
     \/ \E k \in DOMAIN ccb_list :
          /\ IsFirst(k, packet[cur[t]].session)
          /\ ccb' = [ccb EXCEPT ![t] = k]
          /\ Goto(t, "exec")
          /\ UNCHANGED <<queueVars, ccb_list, mem, packet, router, cur, fba, op, work, fault, received>>

(* se->ces[PC] and the byte code its entry names. No script, or a PC out   *)
(* of the script, or the parameters passed as a pointer to their pointer:  *)
(* the process dies. Nothing advances PC.                                  *)
FirstStep(kind) ==
  CASE kind = "reserve"          -> "wbtest"
    [] kind = "jump"             -> "jump"
    [] kind \in {"boot", "send"} -> "purge"
    [] kind = "mac"              -> "flag"

VmDispatch(t) ==
  /\ At(t, "exec")
  /\ \/ Die
     \/ /\ CCB(t).se /\ CCB(t).PC \in DOMAIN Code
        /\ op' = [op EXCEPT ![t] = Code[CCB(t).PC]]
        /\ Goto(t, FirstStep(Code[CCB(t).PC].kind))
        /\ UNCHANGED <<queueVars, ccb_list, mem, packet, router, cur, ccb, fba, work, fault, received>>

(* A conditional jump. fmBytes2intBE starts from an uninitialised value:   *)
(* the address is any.                                                     *)
VmJump(t) ==
  /\ At(t, "jump")
  /\ \E addr \in Targets \cup {CCB(t).PC} : SetCcb(t, [CCB(t) EXCEPT !.PC = addr])
  /\ Goto(t, "wbtest")
  /\ UNCHANGED <<queueVars, mem, packet, router, cur, ccb, fba, op, work, fault, received>>

----------------------------------------------------------------------------
(* The byte codes that build APDUs: purge the queue, append the APDUs, set *)
(* the flag. A walk over cmdQ takes no lock: its pos and n may be freed    *)
(* under it by the purge of another thread.                                *)
Built(t)   == IF op[t].kind = "boot" THEN CCB(t).apduQ ELSE CCB(t).cmdQ
SetBuilt(t, q) == SetCcb(t, IF op[t].kind = "boot" THEN [CCB(t) EXCEPT !.apduQ = q]
                                                   ELSE [CCB(t) EXCEPT !.cmdQ = q])
Unlinked(i) == IF i = 1 THEN -1 ELSE IF i > 1 THEN i - 1 ELSE i

(* skb_queue_purge, one skb_dequeue and kfree_skb at a time.               *)
VmPurge(t) ==
  /\ At(t, "purge")
  /\ IF Built(t) = <<>>
     THEN /\ Goto(t, IF op[t].apdus = 0 THEN "flag" ELSE "append")
          /\ UNCHANGED <<ccb_list, work>>
     ELSE /\ SetBuilt(t, Tail(Built(t)))
          /\ work' = [u \in Threads |->
                        IF ccb[u] = ccb[t] /\ op[t].kind = "send"
                        THEN [work[u] EXCEPT !.at = Unlinked(@), !.nxt = Unlinked(@)]
                        ELSE work[u]]
          /\ UNCHANGED pc
  /\ UNCHANGED <<queueVars, mem, packet, router, cur, ccb, fba, op, fault, received>>

(* One APDU: apdu_preprocess, the builder and skb_queue_tail. One too long *)
(* for its packet (gp_traverse) makes skb_put spin.                        *)
Used(apdu) == apdu.bytes + (IF apdu.head THEN TAG_A0_HEAD_ROOM ELSE 0)

VmAppend(t) ==
  /\ At(t, "append")
  /\ LET apdu == [bytes |-> op[t].bytes, head |-> TRUE]
         made == work[t].made + 1 IN
     IF Used(apdu) > MAX_APDU_LEN
     THEN Hang(t) /\ UNCHANGED ccb_list
     ELSE /\ SetBuilt(t, Append(Built(t), apdu))
          /\ work' = [work EXCEPT ![t].made = made]
          /\ Goto(t, IF op[t].kind = "send" THEN "padSW"
                     ELSE IF made < op[t].apdus THEN "append" ELSE "flag")
  /\ UNCHANGED <<queueVars, mem, packet, router, cur, ccb, fba, op, fault, received>>

(* list_for_each_safe over cmdQ: pos goes to k, and n to the one behind it;*)
(* at the head of the queue the walk is over.                              *)
Walks    == {"padSW", "padA0", "padA1"}
Next1(q, k) == IF k < Len(q) THEN k + 1 ELSE 0
After(t) == CASE pc[t] = "padSW" -> IF work[t].made < op[t].apdus THEN "append" ELSE "flag"
              [] pc[t] = "padA0" -> "agent"
              [] pc[t] = "padA1" -> "trailer"

WalkTo(t, k, len) ==
  /\ work' = [work EXCEPT ![t].at = k, ![t].len = len,
                          ![t].nxt = IF k < 1 THEN k ELSE Next1(CCB(t).cmdQ, k)]
  /\ IF k = 0 THEN Goto(t, After(t)) ELSE UNCHANGED pc

VmWalkBegin(t) ==
  /\ ~fault /\ pc[t] \in Walks /\ work[t].at = 0
  /\ WalkTo(t, Next1(CCB(t).cmdQ, 0), 0)
  /\ UNCHANGED <<queueVars, ccb_list, mem, packet, router, cur, ccb, fba, op, fault, received>>

(* An APDU that was freed: its memory may kill the process, make skb_put   *)
(* or skb_push spin, or be as it was. So may the one behind it, but where  *)
(* that was unlinked too its next is null.                                 *)
VmWalkFreed(t) ==
  /\ ~fault /\ pc[t] \in Walks /\ work[t].at = -1
  /\ \/ Die
     \/ /\ Hang(t) \/ (work[t].nxt # -1 /\ WalkTo(t, work[t].nxt, work[t].len))
        /\ UNCHANGED <<queueVars, ccb_list, mem, packet, router, cur, ccb, fba, op, fault, received>>

(* The APDU a walk is at.                                                  *)
WalksAt(t, step) == At(t, step) /\ work[t].at \in DOMAIN CCB(t).cmdQ
Pos(t)           == CCB(t).cmdQ[work[t].at]
SetPos(t, apdu)  == SetCcb(t, [CCB(t) EXCEPT !.cmdQ[work[t].at] = apdu])

(* _gp_padding_sw, after each APDU of a "send": two bytes behind every one *)
(* of cmdQ, the earlier ones too.                                          *)
VmPadSw(t) ==
  /\ WalksAt(t, "padSW")
  /\ IF Used(Pos(t)) + 2 > MAX_APDU_LEN
     THEN Hang(t) /\ UNCHANGED ccb_list
     ELSE /\ SetPos(t, [Pos(t) EXCEPT !.bytes = @ + 2])
          /\ WalkTo(t, work[t].nxt, 0)
  /\ UNCHANGED <<queueVars, mem, packet, router, cur, ccb, fba, op, fault, received>>

(* ccb_set_bootstrap(CCB, fm_true), or ccb_set_write_back(fm_true), whose  *)
(* first argument is missing.                                              *)
VmFlag(t) ==
  /\ At(t, "flag")
  /\ \/ /\ SetCcb(t, IF op[t].kind = "boot" THEN [CCB(t) EXCEPT !.bootstrap = TRUE]
                                            ELSE [CCB(t) EXCEPT !.write_back = TRUE])
        /\ work' = [work EXCEPT ![t] = NoWork]
        /\ Goto(t, "wbtest")
        /\ UNCHANGED <<queueVars, mem, packet, router, cur, ccb, fba, op, fault, received>>
     \/ op[t].kind # "boot" /\ Die

----------------------------------------------------------------------------
(* The write back. kfree_skb also frees skb->agent when it is not null;    *)
(* alloc_skb never cleared it.                                             *)
VmTestWriteBack(t) ==
  /\ At(t, "wbtest")
  /\ \/ /\ CCB(t).write_back
        /\ mem' = [mem EXCEPT ![cur[t]] = "freed"]
        /\ fba' = [fba EXCEPT ![t] = NoSkb]
        /\ Goto(t, "wbclear")
        /\ UNCHANGED <<queueVars, ccb_list, packet, router, cur, ccb, op, work, fault, received>>
     \/ CCB(t).write_back /\ Die
     \/ /\ ~CCB(t).write_back
        /\ Goto(t, "boottest")
        /\ UNCHANGED <<queueVars, ccb_list, mem, packet, router, cur, ccb, fba, op, work, fault, received>>

VmClearWriteBack(t) ==
  /\ At(t, "wbclear")
  /\ SetCcb(t, [CCB(t) EXCEPT !.write_back = FALSE])
  /\ Goto(t, "padA0")
  /\ UNCHANGED <<queueVars, mem, packet, router, cur, ccb, fba, op, work, fault, received>>

(* padding_tagA0 pushes three bytes in front of every APDU of cmdQ, whose  *)
(* head room is three: a second time skb_push spins.                       *)
VmPadA0(t) ==
  /\ WalksAt(t, "padA0")
  /\ LET padded == Pos(t).bytes + TAG_A0_HEAD_ROOM IN
     IF ~Pos(t).head
     THEN Hang(t) /\ UNCHANGED ccb_list
     ELSE /\ SetPos(t, [bytes |-> padded, head |-> FALSE])
          /\ WalkTo(t, work[t].nxt, work[t].len + padded)
  /\ UNCHANGED <<queueVars, mem, packet, router, cur, ccb, fba, op, fault, received>>

(* alloc_skb of out; setting_agent_info takes the agent of the first APDU, *)
(* if there is one, and it may be freed before it is copied.               *)
Purging(t) == \E u \in Threads \ {t} : /\ ccb[u] = ccb[t] /\ pc[u] = "purge"
                                      /\ op[u].kind = "send"

VmAgentInfo(t) ==
  /\ At(t, "agent")
  /\ \/ (CCB(t).cmdQ = <<>> \/ Purging(t)) /\ Die
     \/ /\ CCB(t).cmdQ # <<>>
        /\ work' = [work EXCEPT ![t].size = work[t].len + MSG_HEAD_LEN + TAG_A1_HEAD_ROOM,
                                ![t].len  = 0]
        /\ Goto(t, "padA1")
        /\ UNCHANGED <<queueVars, ccb_list, mem, packet, router, cur, ccb, fba, op, fault, received>>

(* padding_tagA1 reserves the head rooms, copies the APDUs, and puts the   *)
(* length and the tag behind them; skb_put spins past the end of out.      *)
OutLen(len) == MSG_HEAD_LEN + TAG_A1_HEAD_ROOM + len
Trailer(len) == IF len > 255 THEN 4 ELSE 2

VmPadA1(t) ==
  /\ WalksAt(t, "padA1")
  /\ LET len == work[t].len + Pos(t).bytes IN
     IF OutLen(len) > work[t].size THEN Hang(t) ELSE WalkTo(t, work[t].nxt, len)
  /\ UNCHANGED <<queueVars, ccb_list, mem, packet, router, cur, ccb, fba, op, fault, received>>

VmTrailer(t) ==
  /\ At(t, "trailer")
  /\ IF OutLen(work[t].len) + Trailer(work[t].len) > work[t].size
     THEN Hang(t) /\ UNCHANGED wpkg_list
     ELSE /\ wpkg_list' = Append(wpkg_list, CCB(t).session)
          /\ work' = [work EXCEPT ![t] = NoWork]
          /\ Goto(t, "wpost")
  /\ UNCHANGED <<rpkg_list, sem_vm, ppkg_list, sem_probe, sem_router_w, ccb_list, mem,
                 packet, router, cur, ccb, fba, op, fault, received>>

VmPostWriter(t) ==
  /\ At(t, "wpost")
  /\ sem_router_w' = sem_router_w + 1
  /\ Goto(t, "boottest")
  /\ UNCHANGED <<rpkg_list, sem_vm, ppkg_list, sem_probe, wpkg_list, ccb_list, mem, packet,
                 router, cur, ccb, fba, op, work, fault, received>>

----------------------------------------------------------------------------
(* The bootstrap: the packet goes back to rpkg_list, or is forgotten. The  *)
(* flag is the CCB's: another thread may have set it after this one freed  *)
(* its packet, which is then written to and queued all the same.           *)
AfterFree == {"wbclear", "padA0", "agent", "padA1", "trailer", "wpost", "boottest",
              "bootclear", "requeue", "hung"}
Freed(t)  == pc[t] \in AfterFree /\ fba[t] = NoSkb

VmTestBootstrap(t) ==
  /\ At(t, "boottest")
  /\ IF CCB(t).bootstrap
     THEN Goto(t, "bootclear") /\ UNCHANGED cur
     ELSE Goto(t, "wait") /\ cur' = [cur EXCEPT ![t] = NoSkb]
  /\ UNCHANGED <<queueVars, ccb_list, mem, packet, router, ccb, fba, op, work, fault, received>>

VmClearBootstrap(t) ==
  /\ At(t, "bootclear")
  /\ SetCcb(t, [CCB(t) EXCEPT !.bootstrap = FALSE])
  /\ packet' = [packet EXCEPT ![cur[t]].reason = "bootstrap"]
  /\ Goto(t, "requeue")
  /\ UNCHANGED <<queueVars, mem, router, cur, ccb, fba, op, work, fault, received>>

(* Mutant: the packet is queued again without a post.                      *)
VmRequeueQuiet(t) ==
  /\ At(t, "requeue")
  /\ rpkg_list' = Append(rpkg_list, cur[t])
  /\ cur' = [cur EXCEPT ![t] = NoSkb]
  /\ Goto(t, "wait")
  /\ UNCHANGED <<sem_vm, ppkg_list, sem_probe, wpkg_list, sem_router_w, ccb_list, mem,
                 packet, router, ccb, fba, op, work, fault, received>>

VmRequeue(t) ==
  /\ At(t, "requeue")
  /\ rpkg_list' = Append(rpkg_list, cur[t])
  /\ cur' = [cur EXCEPT ![t] = NoSkb]
  /\ fault' = Freed(t)
  /\ Goto(t, "vpost")
  /\ UNCHANGED <<sem_vm, ppkg_list, sem_probe, wpkg_list, sem_router_w, ccb_list, mem,
                 packet, router, ccb, fba, op, work, received>>

VmPost(t) ==
  /\ At(t, "vpost")
  /\ sem_vm' = sem_vm + 1
  /\ Goto(t, "wait")
  /\ UNCHANGED <<rpkg_list, ppkg_list, sem_probe, wpkg_list, sem_router_w, ccb_list, mem,
                 packet, router, cur, ccb, fba, op, work, fault, received>>

Vm(t) ==
  \/ VmWait(t) \/ VmDequeue(t) \/ VmSkip(t) \/ VmFetchCcb(t) \/ VmDispatch(t)
  \/ VmJump(t) \/ VmPurge(t) \/ VmAppend(t) \/ VmFlag(t)
  \/ VmWalkBegin(t) \/ VmWalkFreed(t) \/ VmPadSw(t) \/ VmPadA0(t) \/ VmPadA1(t)
  \/ VmTestWriteBack(t) \/ VmClearWriteBack(t) \/ VmAgentInfo(t) \/ VmTrailer(t)
  \/ VmPostWriter(t)
  \/ VmTestBootstrap(t) \/ VmClearBootstrap(t) \/ VmRequeue(t) \/ VmPost(t)

Router ==
  \/ \E s \in Skbs, i \in Sessions : RouterCreate(s, i) \/ RouterData(s, i)
  \/ RouterEnqueue
  \/ RouterPost

Next == Router \/ \E t \in Threads : Vm(t)

Spec == Init /\ [][Next]_vars

(* The scheduler runs every thread that can run: the router once it has a  *)
(* packet in hand, and each VM thread. No fairness on what peers send.     *)
Fairness == /\ WF_vars(RouterEnqueue \/ RouterPost)
            /\ \A t \in Threads : WF_vars(Vm(t))
FairSpec == Spec /\ Fairness

----------------------------------------------------------------------------
TypeOK ==
  /\ rpkg_list \in Seq(Skbs) /\ sem_vm \in Nat
  /\ ppkg_list \in Seq(Skbs) /\ sem_probe \in Nat
  /\ wpkg_list \in Seq(Nat) /\ sem_router_w \in Nat
  /\ ccb_list \in Seq(Ccb)
  /\ mem \in [Skbs -> {"unused", "live", "freed"}]
  /\ packet \in [Skbs -> Packet]
  /\ router \in RouterAt
  /\ pc \in [Threads -> Steps]
  /\ cur \in [Threads -> Skbs \cup {NoSkb}]
  /\ ccb \in [Threads -> Nat]
  /\ fba \in [Threads -> Skbs \cup {NoSkb}]
  /\ op \in [Threads -> Instr]
  /\ work \in [Threads -> Work]
  /\ fault \in BOOLEAN
  /\ received \in Nat

(* The threads between two steps of tsm_vm.                                *)
ThreadsAt(step) == {t \in Threads : pc[t] = step}
(* A packet the router has queued for the VM and not yet posted.           *)
RouterOwes == IF router.step = "post" /\ router.list = "vm" THEN 1 ELSE 0

(* Every unit of sem_vm, and every unit a thread has taken and not yet     *)
(* used, stands for one packet of rpkg_list: a producer queues before it   *)
(* posts, a consumer waits before it dequeues. This is why the pool may    *)
(* use the result of skb_dequeue without a test (tsm_vm.c:131-133).        *)
TokensMatchPackets ==
  sem_vm + Cardinality(ThreadsAt("dequeue")) + Cardinality(ThreadsAt("vpost")) + RouterOwes
     = Len(rpkg_list)

(* The steps at which a thread has a packet, and those at which it has a   *)
(* CCB too.                                                                *)
Holding    == Steps \ {"wait", "dequeue", "vpost"}
WithCcb    == Holding \ {"skip", "fetch"}
BeforeFree == WithCcb \ AfterFree
Owns(t)    == pc[t] \in Holding /\ ~Freed(t)

(* A packet is in one place: once in rpkg_list, or with one thread that has*)
(* not freed it, or in the router's hands; never is one of these packets   *)
(* freed memory, and alloc_skb, which hands freed memory out again, never  *)
(* returns one of them. So two threads never work on the same packet       *)
(* (tsm_vm.c:132,151,173). It holds up to the first packet that is queued  *)
(* after it was freed, which FreedPacketStaysOut shows to happen: the one  *)
(* step, VmRequeue, that may break it.                                     *)
InVmQueue(s) == \E k \in DOMAIN rpkg_list : rpkg_list[k] = s
RouterHas(s) == router.step = "enqueue" /\ router.skb = s
PacketHeldOnce ==
  fault \/
  /\ \A j, k \in DOMAIN rpkg_list : rpkg_list[j] = rpkg_list[k] => j = k
  /\ \A t, u \in Threads : t # u /\ Owns(t) /\ Owns(u) => cur[t] # cur[u]
  /\ \A t \in Threads : Owns(t) => ~InVmQueue(cur[t]) /\ ~RouterHas(cur[t])
  /\ \A s \in Skbs : RouterHas(s) => ~InVmQueue(s)
  /\ \A s \in Skbs :
       InVmQueue(s) \/ RouterHas(s) \/ (\E t \in Threads : Owns(t) /\ cur[t] = s)
         => mem[s] = "live"

(* The byte codes of a packet get the fragments of that packet: fba is a   *)
(* local that keeps its value from one packet of a thread to the next      *)
(* (tsm_vm.c:129,134-145), and a packet that comes back is not parsed.     *)
FragmentsOfPacket == \A t \in Threads : pc[t] \in BeforeFree => fba[t] = cur[t]

(* A session is served by one CCB: while a thread works on a packet it has *)
(* not freed, its CCB is the first one of the packet's session, though the *)
(* router may link another CCB with the same session number at any moment  *)
(* (tsm_vm.c:15-30, tsm_router.c:209-217).                                 *)
SessionOnOneCcb ==
  \A t \in Threads : pc[t] \in WithCcb /\ Owns(t) => IsFirst(ccb[t], packet[cur[t]].session)

(* A packet that waits in rpkg_list is taken, unless the process dies or   *)
(* every thread of the pool is lost to an overrun (tsm_vm.c:131-132).      *)
QueuedPacketIsTaken ==
  \A s \in Skbs : InVmQueue(s) ~> (~InVmQueue(s) \/ fault \/ \A t \in Threads : pc[t] = "hung")

----------------------------------------------------------------------------
(* What comments of the code say, and the code does not do.                *)

(* tsm_vm.c:147-150: once a write back starts, the packet and its fragments*)
(* have reached the end of their lifetime. A packet that was freed is not  *)
(* queued again.                                                           *)
FreedPacketStaysOut == \A k \in DOMAIN rpkg_list : mem[rpkg_list[k]] # "freed"

(* tsm_vm.c:146: a write back takes the APDUs from the queue and packs     *)
(* them with A0 and A1. Unless the process dies, it ends.                  *)
WriteBackEnds ==
  \A t \in Threads : pc[t] = "padA0" ~> (pc[t] = "boottest" \/ fault)
=============================================================================
