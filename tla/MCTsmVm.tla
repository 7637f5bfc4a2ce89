------------------------------ MODULE MCTsmVm ------------------------------
(* Small instances of TsmVm: scripts whose instructions meet in one CCB.   *)
EXTENDS TsmVm, TLC

CONSTANTS t1, t2, t3, s1, s2, s3, s4, s5

MCThreads2 == {t1, t2}
MCThreads3 == {t1, t2, t3}
MCSkbs2    == {s1, s2}
MCSkbs5    == {s1, s2, s3, s4, s5}

Jump       == [kind |-> "jump", apdus |-> 0, bytes |-> 0]
Boot       == [kind |-> "boot", apdus |-> 1, bytes |-> 5]
Send       == [kind |-> "send", apdus |-> 1, bytes |-> 5]
SendTwo    == [kind |-> "send", apdus |-> 2, bytes |-> 5]
Mac        == [kind |-> "mac",  apdus |-> 0, bytes |-> 0]

(* A script starts by choosing where to go; each address is one kind of    *)
(* instruction.                                                            *)
MCCode     == 0 :> Jump @@ 1 :> SendTwo @@ 2 :> Boot @@ 3 :> Mac @@ 4 :> Reserve
MCTargets  == {1, 2, 3, 4}
(* Fewer kinds for the two runs that look for one behaviour.               *)
SendFirst  == 0 :> Send
JumpBootSend == 0 :> Jump @@ 1 :> Send @@ 2 :> Boot

PermsFreed == Permutations(MCThreads3) \cup Permutations(MCSkbs5)

(* The search for a long race leaves aside the packets for the probe, the  *)
(* scripts that did not load, packets drained by the router, the dead      *)
(* process and the hung thread, and starts the threads once the packets    *)
(* are there.                                                              *)
RacesOnly == /\ ~fault
             /\ router.list = "vm"
             /\ \A k \in DOMAIN ccb_list : ccb_list[k].se
             /\ \A t \in Threads : pc[t] # "hung"
             /\ \A s \in Skbs : packet[s].isNew => ~packet[s].drained
             /\ \/ received = MaxReceived /\ router.step = "idle"
                \/ \A t \in Threads : pc[t] = "wait"
=============================================================================
