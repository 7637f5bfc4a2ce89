----------------------------- MODULE SkbBuffer -----------------------------
(***************************************************************************)
(* The buffer of a packet, pointer by pointer: skb_reserve, skb_put,       *)
(* skb_push, skb_pull and skb_trim of src/common/fm_skbuff.c on the        *)
(* pointers data and tail and the counter len. Addresses are offsets from  *)
(* head, so that head = 0 and end = data_len. One thread has the packet;   *)
(* a call and the stores its caller makes through the pointer it returns   *)
(* are one step.                                                           *)
(***************************************************************************)
EXTENDS Integers, Sequences

CONSTANTS
  Byte,       \* values callers store
  Zero,       \* what alloc_skb fills the buffer with
  Chunks,     \* the sequences of bytes callers add
  Sizes       \* the sizes and lengths callers ask for

ASSUME ChunksAssumption == Chunks \subseteq Seq(Byte)
ASSUME SizesAssumption  == Sizes \subseteq Nat

VARIABLES
  data_len,       \* the size of the buffer
  buff,           \* its content
  data, tail,     \* where the packet's bytes begin, and where they end
  len,            \* how many the packet says it has
  hung            \* the call whose thread spins after SKB_ASSERT or a panic

vars == <<data_len, buff, data, tail, len, hung>>

(* A packet alloc_skb returned.                                            *)
Init ==
  /\ data_len \in Sizes
  /\ buff = [j \in 0 .. data_len - 1 |-> Zero]
  /\ data = 0 /\ tail = 0 /\ len = 0
  /\ hung = "no"

(* buff with the bytes of s stored from an address on.                     *)
Stored(s, at) ==
  [j \in DOMAIN buff |-> IF j \in at .. at + Len(s) - 1 THEN s[j - at + 1] ELSE buff[j]]

(* It tests nothing; callers reserve part of what they allocated, before   *)
(* they put anything.                                                      *)
skb_reserve(n) ==
  /\ hung = "no" /\ len = 0 /\ tail + n <= data_len
  /\ data' = data + n /\ tail' = tail + n
  /\ UNCHANGED <<data_len, buff, len, hung>>

(* Mutant: the test looks at the tail before it moves.                     *)
PutTestsBefore(s) ==
  /\ hung = "no" /\ data_len # 0
  /\ tail' = tail + Len(s) /\ len' = len + Len(s)
  /\ hung' = IF tail > data_len THEN "put" ELSE "no"
  /\ buff' = IF hung' = "put" THEN buff ELSE Stored(s, tail)
  /\ UNCHANGED <<data_len, data>>

(* The pointer and the counter move before the test.                       *)
skb_put(s) ==
  /\ hung = "no" /\ data_len # 0
  /\ tail' = tail + Len(s) /\ len' = len + Len(s)
  /\ hung' = IF tail' > data_len THEN "put" ELSE "no"
  /\ buff' = IF hung' = "put" THEN buff ELSE Stored(s, tail)
  /\ UNCHANGED <<data_len, data>>

(* Mutant: the bytes are stored where the packet began before.             *)
PushAtOldData(s) ==
  /\ hung = "no"
  /\ data' = data - Len(s) /\ len' = len + Len(s)
  /\ hung' = IF data' < 0 THEN "push" ELSE "no"
  /\ buff' = IF hung' = "push" THEN buff ELSE Stored(s, data)
  /\ UNCHANGED <<data_len, tail>>

skb_push(s) ==
  /\ hung = "no"
  /\ data' = data - Len(s) /\ len' = len + Len(s)
  /\ hung' = IF data' < 0 THEN "push" ELSE "no"
  /\ buff' = IF hung' = "push" THEN buff ELSE Stored(s, data')
  /\ UNCHANGED <<data_len, tail>>

(* SKB_ASSERT: a put into a packet without a buffer.                       *)
PutNoBuffer(s) ==
  /\ hung = "no" /\ data_len = 0
  /\ hung' = "put"
  /\ UNCHANGED <<data_len, buff, data, tail, len>>

(* Mutant: more may be pulled than there is.                               *)
PullUnchecked(n) ==
  /\ hung = "no"
  /\ data' = data + n /\ len' = len - n
  /\ UNCHANGED <<data_len, buff, tail, hung>>

(* A pull of more than there is returns NULL and changes nothing.          *)
skb_pull(n) ==
  /\ hung = "no" /\ n <= len
  /\ data' = data + n /\ len' = len - n
  /\ UNCHANGED <<data_len, buff, tail, hung>>

skb_trim(n) ==
  /\ hung = "no" /\ len > n /\ data_len # 0
  /\ len' = n /\ tail' = data + n
  /\ UNCHANGED <<data_len, buff, data, hung>>

Next ==
  \/ \E s \in Chunks : skb_put(s) \/ PutNoBuffer(s) \/ skb_push(s)
  \/ \E n \in Sizes  : skb_reserve(n) \/ skb_pull(n) \/ skb_trim(n)

Spec == Init /\ [][Next]_vars

----------------------------------------------------------------------------
(* The bytes the writer sends: len of them from data on.                   *)
Contents == [j \in 1 .. len |-> buff[data + j - 1]]

Abstract == INSTANCE SkbBytes WITH
  bytes  <- IF hung = "no" THEN Contents ELSE <<>>,
  before <- IF hung = "no" THEN data ELSE 0,
  after  <- IF hung = "no" THEN data_len - tail ELSE 0,
  stopped <- hung

(* Every variable stays within its type.                                   *)
TypeOK ==
  /\ data_len \in Sizes /\ tail \in Nat /\ len \in Nat /\ data \in Int
  /\ buff \in [0 .. data_len - 1 -> Byte \cup {Zero}]
  /\ hung \in {"no", "put", "push"}

(* The pointers keep their order, whatever was put, pushed, pulled and     *)
(* trimmed: the len bytes from data on that the writer sends               *)
(* (router_send(fd, skb->data, skb->len)) are inside the buffer, and every  *)
(* one of them was stored by a caller.                                     *)
InBuffer ==
  hung = "no" => /\ 0 <= data /\ data <= tail /\ tail <= data_len
                 /\ data + len <= data_len
                 /\ \A j \in data .. data + len - 1 : buff[j] \in Byte

(* The pointers implement the sequence of bytes with room on both sides.   *)
ImplementsBytes == Abstract!BytesSpec
=============================================================================
