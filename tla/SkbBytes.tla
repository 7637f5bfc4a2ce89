------------------------------ MODULE SkbBytes ------------------------------
(***************************************************************************)
(* What the buffer of a packet (struct sk_buff, src/common/fm_skbuff.h)    *)
(* promises the code that builds and parses messages: it holds a sequence  *)
(* of bytes with room before and after it; bytes are added at both ends as *)
(* far as there is room and taken away at both ends.                       *)
(***************************************************************************)
EXTENDS Naturals, Sequences

CONSTANTS
  Chunks,     \* the sequences of bytes callers add
  Sizes       \* the sizes and lengths callers ask for

VARIABLES
  bytes,          \* what the packet holds
  before, after,  \* the room on either side
  stopped         \* the call that never returns: it spins in a panic

bytesVars == <<bytes, before, after, stopped>>

BytesInit == bytes = <<>> /\ before = 0 /\ after \in Sizes /\ stopped = "no"

Reserve(n) ==
  /\ stopped = "no" /\ bytes = <<>> /\ n <= after
  /\ before' = before + n /\ after' = after - n
  /\ UNCHANGED <<bytes, stopped>>

Put(s) ==
  /\ stopped = "no" /\ Len(s) <= after
  /\ bytes' = bytes \o s /\ after' = after - Len(s)
  /\ UNCHANGED <<before, stopped>>

Push(s) ==
  /\ stopped = "no" /\ Len(s) <= before
  /\ bytes' = s \o bytes /\ before' = before - Len(s)
  /\ UNCHANGED <<after, stopped>>

Pull(n) ==
  /\ stopped = "no" /\ n <= Len(bytes)
  /\ bytes' = SubSeq(bytes, n + 1, Len(bytes)) /\ before' = before + n
  /\ UNCHANGED <<after, stopped>>

Trim(n) ==
  /\ stopped = "no" /\ n <= Len(bytes)
  /\ bytes' = SubSeq(bytes, 1, n) /\ after' = after + Len(bytes) - n
  /\ UNCHANGED <<before, stopped>>

(* A call that never returns; what the packet holds is nobody's any more.  *)
Stop(call) ==
  /\ stopped = "no" /\ stopped' = call
  /\ bytes' = <<>> /\ before' = 0 /\ after' = 0

(* A put stops only when it asks for more room than there is behind the    *)
(* bytes, or when the packet has size zero; a push only when it asks for   *)
(* more room than there is before them.                                    *)
StopPut(s) ==
  /\ \/ Len(s) > after
     \/ bytes = <<>> /\ before = 0 /\ after = 0
  /\ Stop("put")

StopPush(s) == Len(s) > before /\ Stop("push")

BytesNext ==
  \/ \E s \in Chunks : Put(s) \/ Push(s) \/ StopPut(s) \/ StopPush(s)
  \/ \E n \in Sizes  : Reserve(n) \/ Pull(n) \/ Trim(n)

BytesSpec == BytesInit /\ [][BytesNext]_bytesVars
=============================================================================
