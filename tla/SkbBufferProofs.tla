-------------------------- MODULE SkbBufferProofs --------------------------
(* Theorems about SkbBuffer, for buffers and chunks of every size.         *)
EXTENDS SkbBuffer, SequenceTheorems, TLAPS

(* len is the distance of data and tail; between them are callers' bytes.  *)
Span ==
  hung = "no" => /\ 0 <= data /\ data <= tail /\ tail <= data_len
                 /\ len = tail - data
                 /\ \A j \in data .. tail - 1 : buff[j] \in Byte

BInv == TypeOK /\ Span

(* Storing a chunk that fits changes the bytes under it and no others.     *)
LEMMA StoredBytes ==
  ASSUME NEW s \in Chunks, NEW at \in Int,
         buff \in [0 .. data_len - 1 -> Byte \cup {Zero}], data_len \in Nat,
         0 <= at, at + Len(s) <= data_len
  PROVE  /\ Stored(s, at) \in [0 .. data_len - 1 -> Byte \cup {Zero}]
         /\ \A j \in at .. at + Len(s) - 1 : Stored(s, at)[j] = s[j - at + 1] /\ s[j - at + 1] \in Byte
         /\ \A j \in 0 .. data_len - 1 : j \notin at .. at + Len(s) - 1 => Stored(s, at)[j] = buff[j]
<1>1. s \in Seq(Byte) /\ Len(s) \in Nat BY ChunksAssumption
<1>2. \A j \in at .. at + Len(s) - 1 : j - at + 1 \in 1 .. Len(s) BY <1>1
<1>3. \A j \in at .. at + Len(s) - 1 : s[j - at + 1] \in Byte BY <1>1, <1>2
<1>4. DOMAIN buff = 0 .. data_len - 1 OBVIOUS
<1>5. \A j \in at .. at + Len(s) - 1 : j \in 0 .. data_len - 1 BY <1>1
<1> QED BY <1>1, <1>3, <1>4, <1>5 DEF Stored

(* The pointers start at the buffer's first byte.                          *)
LEMMA InitBInv == Init => BInv
<1> SUFFICES ASSUME Init PROVE BInv
  OBVIOUS
<1>1. data_len \in Nat BY SizesAssumption DEF Init
<1>2. buff \in [0 .. data_len - 1 -> Byte \cup {Zero}] BY DEF Init
<1>3. data_len \in Sizes /\ data = 0 /\ tail = 0 /\ len = 0 /\ hung = "no" BY DEF Init
<1>4. data .. tail - 1 = {} BY <1>3
<1>5. TypeOK
  <2>1. hung \in {"no", "put", "push"} BY <1>3
  <2>2. tail \in Nat /\ len \in Nat /\ data \in Int BY <1>3
  <2> QED BY <1>2, <1>3, <2>1, <2>2 DEF TypeOK
<1>6. Span BY <1>1, <1>3, <1>4 DEF Span
<1> QED BY <1>5, <1>6 DEF BInv

(* Every call keeps the pointers in order.                                 *)
LEMMA NextBInv == BInv /\ [Next]_vars => BInv'
<1> SUFFICES ASSUME BInv, [Next]_vars PROVE BInv'
  OBVIOUS
<1>a. /\ data_len \in Sizes /\ data_len \in Nat /\ tail \in Nat /\ len \in Nat /\ data \in Int
      /\ buff \in [0 .. data_len - 1 -> Byte \cup {Zero}] /\ hung \in {"no", "put", "push"}
  BY SizesAssumption DEF BInv, TypeOK
<1>b. ASSUME hung = "no"
      PROVE  /\ data \in Nat /\ data <= tail /\ tail <= data_len /\ len = tail - data
             /\ \A j \in data .. tail - 1 : buff[j] \in Byte
  BY <1>a, <1>b DEF BInv, Span
<1>1. ASSUME NEW s \in Chunks, skb_put(s) PROVE BInv'
  <2>1. Len(s) \in Nat BY ChunksAssumption
  <2>2. /\ tail' = tail + Len(s) /\ len' = len + Len(s) /\ data_len' = data_len /\ data' = data
        /\ hung = "no" /\ hung' \in {"no", "put"}
    BY <1>1 DEF skb_put
  <2>3. CASE hung' = "put"
    <3>1. buff' = buff BY <1>1, <2>3 DEF skb_put
    <3> QED BY <1>a, <2>1, <2>2, <2>3, <3>1 DEF BInv, TypeOK, Span
  <2>4. CASE hung' = "no"
    <3>1. tail + Len(s) <= data_len BY <1>a, <1>1, <2>1, <2>2, <2>4 DEF skb_put
    <3>2. buff' = Stored(s, tail) BY <1>1, <2>4 DEF skb_put
    <3>3. /\ buff' \in [0 .. data_len - 1 -> Byte \cup {Zero}]
          /\ \A j \in tail .. tail + Len(s) - 1 : buff'[j] = s[j - tail + 1] /\ s[j - tail + 1] \in Byte
          /\ \A j \in 0 .. data_len - 1 : j \notin tail .. tail + Len(s) - 1 => buff'[j] = buff[j]
      <4>1. tail \in Int /\ 0 <= tail BY <1>a
      <4> HIDE DEF Stored
      <4> QED BY <1>a, <3>1, <3>2, <4>1, StoredBytes
    <3>4. TypeOK' BY <1>a, <2>1, <2>2, <3>3 DEF TypeOK
    <3>5. \A j \in data' .. tail' - 1 : buff'[j] \in Byte
      BY <1>a, <1>b, <2>1, <2>2, <3>1, <3>3
    <3>6. 0 <= data' /\ data' <= tail' /\ tail' <= data_len' /\ len' = tail' - data'
      BY <1>a, <1>b, <2>1, <2>2, <3>1
    <3>7. Span' BY <3>5, <3>6 DEF Span
    <3> QED BY <3>4, <3>7 DEF BInv
  <2> QED BY <2>2, <2>3, <2>4
<1>2. ASSUME NEW s \in Chunks, PutNoBuffer(s) PROVE BInv'
  BY <1>a, <1>2 DEF PutNoBuffer, BInv, TypeOK, Span
<1>3. ASSUME NEW s \in Chunks, skb_push(s) PROVE BInv'
  <2>1. Len(s) \in Nat BY ChunksAssumption
  <2>2. /\ data' = data - Len(s) /\ len' = len + Len(s) /\ data_len' = data_len /\ tail' = tail
        /\ hung = "no" /\ hung' \in {"no", "push"}
    BY <1>3 DEF skb_push
  <2>3. CASE hung' = "push"
    <3>1. buff' = buff BY <1>3, <2>3 DEF skb_push
    <3> QED BY <1>a, <2>1, <2>2, <2>3, <3>1 DEF BInv, TypeOK, Span
  <2>4. CASE hung' = "no"
    <3>0. ~(data' < 0) BY <1>3, <2>4 DEF skb_push
    <3>1. 0 <= data' /\ data' \in Int /\ data' + Len(s) = data BY <1>a, <2>1, <2>2, <3>0
    <3>2. buff' = Stored(s, data') BY <1>3, <2>4 DEF skb_push
    <3>3. /\ buff' \in [0 .. data_len - 1 -> Byte \cup {Zero}]
          /\ \A j \in data' .. data' + Len(s) - 1 : buff'[j] = s[j - data' + 1] /\ s[j - data' + 1] \in Byte
          /\ \A j \in 0 .. data_len - 1 : j \notin data' .. data' + Len(s) - 1 => buff'[j] = buff[j]
      <4>1. data' + Len(s) <= data_len BY <1>a, <1>b, <2>2, <3>1
      <4> HIDE DEF Stored
      <4> QED BY <1>a, <3>1, <3>2, <4>1, StoredBytes
    <3>4. TypeOK' BY <1>a, <2>1, <2>2, <3>3 DEF TypeOK
    <3>a. /\ data \in Nat /\ data <= tail /\ tail <= data_len /\ len = tail - data
          /\ \A j \in data .. tail - 1 : buff[j] \in Byte
      BY <1>b, <2>2
    <3>5. \A j \in data' .. tail - 1 : buff'[j] \in Byte
      <4> TAKE j \in data' .. tail - 1
      <4>1. CASE j \in data' .. data' + Len(s) - 1 BY <3>3, <4>1
      <4>2. CASE j \notin data' .. data' + Len(s) - 1
        <5>1. j \in data .. tail - 1 /\ j \in 0 .. data_len - 1
          BY <1>a, <2>1, <3>a, <3>1, <4>2
        <5> QED BY <3>a, <3>3, <4>2, <5>1
      <4> QED BY <4>1, <4>2
    <3>6. 0 <= data' /\ data' <= tail' /\ tail' <= data_len' /\ len' = tail' - data'
      BY <1>a, <3>a, <2>1, <2>2, <3>1
    <3>7. Span' BY <2>2, <3>5, <3>6 DEF Span
    <3> QED BY <3>4, <3>7 DEF BInv
  <2> QED BY <2>2, <2>3, <2>4
<1>4. ASSUME NEW n \in Sizes, skb_reserve(n) PROVE BInv'
  <2>1. n \in Nat BY SizesAssumption
  <2> QED BY <1>a, <1>b, <1>4, <2>1 DEF skb_reserve, BInv, TypeOK, Span
<1>5. ASSUME NEW n \in Sizes, skb_pull(n) PROVE BInv'
  <2>1. n \in Nat BY SizesAssumption
  <2> QED BY <1>a, <1>b, <1>5, <2>1 DEF skb_pull, BInv, TypeOK, Span
<1>6. ASSUME NEW n \in Sizes, skb_trim(n) PROVE BInv'
  <2>1. n \in Nat BY SizesAssumption
  <2> QED BY <1>a, <1>b, <1>6, <2>1 DEF skb_trim, BInv, TypeOK, Span
<1>7. CASE UNCHANGED vars BY <1>7 DEF vars, BInv, TypeOK, Span
<1> QED BY <1>1, <1>2, <1>3, <1>4, <1>5, <1>6, <1>7 DEF Next

(* Every variable of a packet keeps its type.                              *)
THEOREM BufferTypeCorrect == Spec => []TypeOK
<1>1. BInv => TypeOK BY DEF BInv
<1> QED BY InitBInv, NextBInv, <1>1, PTL DEF Spec

(* What the writer sends is inside the buffer and was stored by a caller.  *)
THEOREM InBufferCorrect == Spec => []InBuffer
<1>1. ASSUME BInv PROVE InBuffer
  <2> SUFFICES ASSUME hung = "no" PROVE InBuffer
    BY DEF InBuffer
  <2>1. data_len \in Nat /\ tail \in Nat /\ len \in Nat /\ data \in Int
    BY <1>1, SizesAssumption DEF BInv, TypeOK
  <2>2. /\ 0 <= data /\ data <= tail /\ tail <= data_len /\ len = tail - data
        /\ \A j \in data .. tail - 1 : buff[j] \in Byte
    BY <1>1 DEF BInv, Span
  <2>3. data + len - 1 = tail - 1 BY <2>1, <2>2
  <2>4. data + len <= data_len BY <2>1, <2>2
  <2>5. data .. data + len - 1 = data .. tail - 1 BY <2>3, Zenon
  <2>6. \A j \in data .. data + len - 1 : buff[j] \in Byte BY <2>2, <2>5, Zenon
  <2> QED BY <2>2, <2>4, <2>6 DEF InBuffer
<1> QED BY InitBInv, NextBInv, <1>1, PTL DEF Spec

----------------------------------------------------------------------------
(* l bytes of memory b from address d on, as a sequence.                   *)
Window(b, d, l) == [j \in 1 .. l |-> b[d + j - 1]]

LEMMA WindowIsSeq ==
  ASSUME NEW b, NEW d \in Int, NEW l \in Nat, \A j \in d .. d + l - 1 : b[j] \in Byte
  PROVE  /\ Window(b, d, l) \in Seq(Byte)
         /\ Len(Window(b, d, l)) = l
         /\ \A j \in 1 .. l : Window(b, d, l)[j] = b[d + j - 1]
<1>1. \A j \in 1 .. l : d + j - 1 \in d .. d + l - 1 OBVIOUS
<1>2. \A j \in 1 .. l : b[d + j - 1] \in Byte BY <1>1
<1> QED BY <1>2 DEF Window

LEMMA ContentsIsWindow == Contents = Window(buff, data, len) /\ Contents' = Window(buff', data', len')
BY DEF Contents, Window

(* A window onto no bytes.                                                 *)
LEMMA EmptyWindow ==
  ASSUME NEW b, NEW d \in Int
  PROVE  Window(b, d, 0) = <<>>
<1>1. Window(b, d, 0) \in Seq(Byte) /\ Len(Window(b, d, 0)) = 0 BY WindowIsSeq
<1> QED BY <1>1, EmptySeq

(* Bytes stored behind a window extend it.                                 *)
LEMMA WindowAppend ==
  ASSUME NEW b, NEW c, NEW d \in Int, NEW l \in Nat, NEW s \in Seq(Byte),
         \A j \in d .. d + l - 1 : b[j] \in Byte /\ c[j] = b[j],
         \A j \in d + l .. d + l + Len(s) - 1 : c[j] = s[j - (d + l) + 1]
  PROVE  Window(c, d, l + Len(s)) = Window(b, d, l) \o s
<1> DEFINE w == Window(b, d, l)
           v == Window(c, d, l + Len(s))
<1>1. w \in Seq(Byte) /\ Len(w) = l /\ \A j \in 1 .. l : w[j] = b[d + j - 1] BY WindowIsSeq
<1>2. Len(s) \in Nat /\ \A j \in 1 .. Len(s) : s[j] \in Byte OBVIOUS
<1>3. \A j \in d .. d + (l + Len(s)) - 1 : c[j] \in Byte
  <2> TAKE j \in d .. d + (l + Len(s)) - 1
  <2>1. CASE j <= d + l - 1 BY <1>2, <2>1
  <2>2. CASE j > d + l - 1
    <3>1. j \in d + l .. d + l + Len(s) - 1 /\ j - (d + l) + 1 \in 1 .. Len(s) BY <1>2, <2>2
    <3> QED BY <1>2, <3>1
  <2> QED BY <1>2, <2>1, <2>2
<1>4. l + Len(s) \in Nat BY <1>2
<1>5. v \in Seq(Byte) /\ Len(v) = l + Len(s) /\ \A j \in 1 .. l + Len(s) : v[j] = c[d + j - 1]
  BY <1>3, <1>4, WindowIsSeq
<1> HIDE DEF w, v
<1>6. /\ w \o s \in Seq(Byte) /\ Len(w \o s) = l + Len(s)
      /\ \A j \in 1 .. l + Len(s) : (w \o s)[j] = IF j <= l THEN w[j] ELSE s[j - l]
  BY <1>1, ConcatProperties
<1>7. \A j \in 1 .. l + Len(s) : v[j] = (w \o s)[j]
  <2> TAKE j \in 1 .. l + Len(s)
  <2>1. CASE j <= l
    <3>1. d + j - 1 \in d .. d + l - 1 /\ j \in 1 .. l BY <2>1, <1>2
    <3>2. v[j] = b[d + j - 1] BY <1>5, <3>1
    <3>3. (w \o s)[j] = w[j] BY <1>6, <2>1
    <3> QED BY <1>1, <3>1, <3>2, <3>3
  <2>2. CASE j > l
    <3>1. d + j - 1 \in d + l .. d + l + Len(s) - 1 /\ (d + j - 1) - (d + l) + 1 = j - l BY <2>2, <1>2
    <3>2. ~(j <= l) BY <2>2, <1>2
    <3> QED BY <1>5, <1>6, <3>1, <3>2
  <2>3. j <= l \/ j > l BY <1>2
  <2> QED BY <2>1, <2>2, <2>3
<1>8. v = w \o s BY <1>5, <1>6, <1>7, SeqEqual
<1> QED BY <1>8 DEF w, v

(* Bytes stored before a window extend it, too.                            *)
LEMMA WindowPrepend ==
  ASSUME NEW b, NEW c, NEW d \in Int, NEW l \in Nat, NEW s \in Seq(Byte),
         \A j \in d + Len(s) .. d + Len(s) + l - 1 : b[j] \in Byte /\ c[j] = b[j],
         \A j \in d .. d + Len(s) - 1 : c[j] = s[j - d + 1]
  PROVE  Window(c, d, Len(s) + l) = s \o Window(b, d + Len(s), l)
<1> DEFINE w == Window(b, d + Len(s), l)
<1>1. Len(s) \in Nat /\ \A j \in 1 .. Len(s) : s[j] \in Byte OBVIOUS
<1>2. d + Len(s) \in Int BY <1>1
<1>3. w \in Seq(Byte) /\ Len(w) = l /\ \A j \in 1 .. l : w[j] = b[d + Len(s) + j - 1]
  BY <1>2, WindowIsSeq
<1>4. \A j \in d .. d + Len(s) - 1 : c[j] \in Byte
  <2> TAKE j \in d .. d + Len(s) - 1
  <2>1. j - d + 1 \in 1 .. Len(s) BY <1>1
  <2> QED BY <1>1, <2>1
<1>5. Window(c, d, Len(s)) \in Seq(Byte) /\ Len(Window(c, d, Len(s))) = Len(s)
      /\ \A j \in 1 .. Len(s) : Window(c, d, Len(s))[j] = c[d + j - 1]
  BY <1>1, <1>4, WindowIsSeq
<1>6. Window(c, d, Len(s)) = s
  <2>1. \A j \in 1 .. Len(s) : Window(c, d, Len(s))[j] = s[j]
    <3> TAKE j \in 1 .. Len(s)
    <3>1. d + j - 1 \in d .. d + Len(s) - 1 /\ (d + j - 1) - d + 1 = j BY <1>1
    <3> QED BY <1>5, <3>1
  <2> QED BY <1>5, <2>1, SeqEqual
<1>7. \A j \in d + Len(s) .. d + Len(s) + Len(w) - 1 : c[j] = w[j - (d + Len(s)) + 1]
  <2> TAKE j \in d + Len(s) .. d + Len(s) + Len(w) - 1
  <2>1. j \in d + Len(s) .. d + Len(s) + l - 1 /\ j - (d + Len(s)) + 1 \in 1 .. l
        /\ d + Len(s) + (j - (d + Len(s)) + 1) - 1 = j
    BY <1>1, <1>3
  <2> QED BY <1>3, <2>1
<1> HIDE DEF w
<1>8. Window(c, d, Len(s) + Len(w)) = Window(c, d, Len(s)) \o w
  <2> DEFINE n == Len(s)
  <2>1. \A j \in d .. d + n - 1 : c[j] \in Byte /\ c[j] = c[j] BY <1>4
  <2>2. \A j \in d + n .. d + n + Len(w) - 1 : c[j] = w[j - (d + n) + 1] BY <1>7
  <2>3. n \in Nat /\ w \in Seq(Byte) BY <1>1, <1>3
  <2> HIDE DEF n
  <2>4. Window(c, d, n + Len(w)) = Window(c, d, n) \o w BY <2>1, <2>2, <2>3, WindowAppend
  <2> QED BY <2>4 DEF n
<1> QED BY <1>3, <1>6, <1>8 DEF w

(* A part of a window is a window.                                         *)
LEMMA WindowPart ==
  ASSUME NEW b, NEW d \in Int, NEW l \in Nat, NEW m \in Nat, NEW k \in Nat, m <= k, k <= l,
         \A j \in d .. d + l - 1 : b[j] \in Byte
  PROVE  Window(b, d + m, k - m) = SubSeq(Window(b, d, l), m + 1, k)
<1> DEFINE w == Window(b, d, l)
           v == Window(b, d + m, k - m)
<1>1. w \in Seq(Byte) /\ Len(w) = l /\ \A j \in 1 .. l : w[j] = b[d + j - 1] BY WindowIsSeq
<1>2. d + m \in Int /\ k - m \in Nat OBVIOUS
<1>3. \A j \in d + m .. d + m + (k - m) - 1 : b[j] \in Byte OBVIOUS
<1>4. v \in Seq(Byte) /\ Len(v) = k - m /\ \A j \in 1 .. k - m : v[j] = b[d + m + j - 1]
  BY <1>2, <1>3, WindowIsSeq
<1> HIDE DEF w, v
<1>5. \A j \in m + 1 .. k : w[j] \in Byte
  <2> TAKE j \in m + 1 .. k
  <2>1. j \in 1 .. l /\ d + j - 1 \in d .. d + l - 1 OBVIOUS
  <2> QED BY <1>1, <2>1
<1>6. /\ SubSeq(w, m + 1, k) \in Seq(Byte)
      /\ Len(SubSeq(w, m + 1, k)) = IF m + 1 <= k THEN k - (m + 1) + 1 ELSE 0
      /\ \A j \in 1 .. k - (m + 1) + 1 : SubSeq(w, m + 1, k)[j] = w[(m + 1) + j - 1]
  BY <1>5, SubSeqProperties
<1>7. Len(SubSeq(w, m + 1, k)) = k - m BY <1>6
<1>8. \A j \in 1 .. k - m : v[j] = SubSeq(w, m + 1, k)[j]
  <2> TAKE j \in 1 .. k - m
  <2>1. j \in 1 .. k - (m + 1) + 1 /\ (m + 1) + j - 1 = m + j /\ m + j \in 1 .. l
        /\ d + (m + j) - 1 = d + m + j - 1
    OBVIOUS
  <2>2. SubSeq(w, m + 1, k)[j] = w[m + j] BY <1>6, <2>1
  <2>3. w[m + j] = b[d + m + j - 1] BY <1>1, <2>1
  <2> QED BY <1>4, <2>2, <2>3
<1>9. v = SubSeq(w, m + 1, k) BY <1>4, <1>6, <1>7, <1>8, SeqEqual
<1> QED BY <1>9 DEF w, v

----------------------------------------------------------------------------
(* A new packet is an empty sequence with all of its room behind it.       *)
LEMMA InitIsAbstract == Init => Abstract!BytesInit
<1> SUFFICES ASSUME Init PROVE Abstract!BytesInit
  OBVIOUS
<1>1. data_len \in Sizes /\ data = 0 /\ tail = 0 /\ len = 0 /\ hung = "no" BY DEF Init
<1>2. data_len \in Nat BY <1>1, SizesAssumption
<1>3. Contents = <<>> BY <1>1, ContentsIsWindow, EmptyWindow
<1>4. data_len - tail = data_len BY <1>1, <1>2
<1> QED BY <1>1, <1>3, <1>4 DEF Abstract!BytesInit

(* Every call is the step of that name, or a stop.                         *)
LEMMA NextIsAbstract == BInv /\ [Next]_vars => [Abstract!BytesNext]_(Abstract!bytesVars)
<1> SUFFICES ASSUME BInv, [Next]_vars PROVE [Abstract!BytesNext]_(Abstract!bytesVars)
  OBVIOUS
<1>0. CASE UNCHANGED vars
  <2>1. Contents' = Contents BY <1>0 DEF vars, Contents
  <2> QED BY <1>0, <2>1 DEF vars, Abstract!bytesVars
<1> SUFFICES ASSUME Next PROVE Abstract!BytesNext
  BY <1>0
<1>a. hung = "no"
  BY DEF BInv, TypeOK, Next, skb_put, PutNoBuffer, skb_push, skb_reserve, skb_pull, skb_trim
<1>b. /\ data_len \in Nat /\ tail \in Nat /\ len \in Nat /\ data \in Nat
      /\ buff \in [0 .. data_len - 1 -> Byte \cup {Zero}]
      /\ data <= tail /\ tail <= data_len /\ len = tail - data
      /\ \A j \in data .. tail - 1 : buff[j] \in Byte
  BY <1>a, SizesAssumption DEF BInv, TypeOK, Span
<1>f. data \in Int /\ len \in Nat /\ data + len = tail BY <1>b
<1>c. \A j \in data .. data + len - 1 : buff[j] \in Byte BY <1>b, <1>f
<1>d. Contents \in Seq(Byte) /\ Len(Contents) = len BY <1>c, <1>f, ContentsIsWindow, WindowIsSeq
<1>e. ASSUME NEW s \in Chunks, hung' = "put", Len(s) > data_len - tail \/ data_len = 0
      PROVE  Abstract!BytesNext
  <2>1. \/ Len(s) > data_len - tail
        \/ Contents = <<>> /\ data = 0 /\ data_len - tail = 0
    <3>1. CASE data_len = 0
      <4>1. data = 0 /\ tail = 0 /\ len = 0 /\ data_len - tail = 0 BY <1>b, <3>1
      <4> QED BY <1>d, <4>1, ContentsIsWindow, EmptyWindow
    <3> QED BY <1>e, <3>1
  <2>2. Abstract!StopPut(s) BY <1>a, <1>e, <2>1 DEF Abstract!StopPut, Abstract!Stop
  <2> QED BY <2>2 DEF Abstract!BytesNext
<1>g. ASSUME NEW s \in Chunks, hung' = "push", Len(s) > data
      PROVE  Abstract!BytesNext
  <2>1. Abstract!StopPush(s) BY <1>a, <1>g DEF Abstract!StopPush, Abstract!Stop
  <2> QED BY <2>1 DEF Abstract!BytesNext
<1>1. ASSUME NEW s \in Chunks, skb_put(s) PROVE Abstract!BytesNext
  <2>1. s \in Seq(Byte) /\ Len(s) \in Nat BY ChunksAssumption
  <2>2. /\ tail' = tail + Len(s) /\ len' = len + Len(s) /\ data_len' = data_len /\ data' = data
        /\ hung' \in {"no", "put"}
    BY <1>1 DEF skb_put
  <2>3. CASE hung' = "put"
    <3>1. tail' > data_len BY <1>1, <2>3 DEF skb_put
    <3>2. Len(s) > data_len - tail BY <1>b, <2>1, <2>2, <3>1
    <3> QED BY <1>e, <2>3, <3>2
  <2>4. CASE hung' = "no"
    <3>1. ~(tail' > data_len) /\ buff' = Stored(s, tail) BY <1>1, <2>4 DEF skb_put
    <3>2. tail + Len(s) <= data_len BY <1>b, <2>1, <2>2, <3>1
    <3>3. /\ \A j \in tail .. tail + Len(s) - 1 : buff'[j] = s[j - tail + 1]
          /\ \A j \in 0 .. data_len - 1 : j \notin tail .. tail + Len(s) - 1 => buff'[j] = buff[j]
      <4>1. tail \in Int /\ 0 <= tail BY <1>b
      <4> HIDE DEF Stored
      <4> QED BY <1>b, <3>1, <3>2, <4>1, StoredBytes
    <3>4. \A j \in data .. data + len - 1 : buff[j] \in Byte /\ buff'[j] = buff[j]
      <4> TAKE j \in data .. data + len - 1
      <4>1. j \in 0 .. data_len - 1 /\ j \notin tail .. tail + Len(s) - 1 BY <1>b, <1>f, <2>1
      <4> QED BY <1>c, <3>3, <4>1
    <3>5. Window(buff', data, len + Len(s)) = Window(buff, data, len) \o s
      <4>2. \A j \in data + len .. data + len + Len(s) - 1 : buff'[j] = s[j - (data + len) + 1]
        BY <1>b, <1>f, <3>3
      <4> QED BY <1>f, <2>1, <3>4, <4>2, WindowAppend
    <3>6. Contents' = Contents \o s BY <2>2, <3>5, ContentsIsWindow
    <3>7. Len(s) <= data_len - tail /\ data_len' - tail' = (data_len - tail) - Len(s)
      BY <1>b, <2>1, <2>2, <3>2
    <3>8. hung' = "no" BY <2>2, <2>4
    <3>9. Abstract!Put(s) BY <1>a, <2>2, <3>6, <3>7, <3>8 DEF Abstract!Put
    <3> QED BY <3>9 DEF Abstract!BytesNext
  <2> QED BY <2>2, <2>3, <2>4
<1>2. ASSUME NEW s \in Chunks, PutNoBuffer(s) PROVE Abstract!BytesNext
  <2>1. hung' = "put" /\ data_len = 0 BY <1>2 DEF PutNoBuffer
  <2> QED BY <1>e, <2>1
<1>3. ASSUME NEW s \in Chunks, skb_push(s) PROVE Abstract!BytesNext
  <2>1. s \in Seq(Byte) /\ Len(s) \in Nat BY ChunksAssumption
  <2>2. /\ data' = data - Len(s) /\ len' = len + Len(s) /\ data_len' = data_len /\ tail' = tail
        /\ hung' \in {"no", "push"}
    BY <1>3 DEF skb_push
  <2>3. CASE hung' = "push"
    <3>1. data' < 0 BY <1>3, <2>3 DEF skb_push
    <3>2. Len(s) > data BY <1>b, <2>1, <2>2, <3>1
    <3> QED BY <1>g, <2>3, <3>2
  <2>4. CASE hung' = "no"
    <3>1. ~(data' < 0) /\ buff' = Stored(s, data') BY <1>3, <2>4 DEF skb_push
    <3>2. data' \in Int /\ 0 <= data' /\ data' + Len(s) = data /\ data' + Len(s) <= data_len
      BY <1>b, <2>1, <2>2, <3>1
    <3>3. /\ \A j \in data' .. data' + Len(s) - 1 : buff'[j] = s[j - data' + 1]
          /\ \A j \in 0 .. data_len - 1 : j \notin data' .. data' + Len(s) - 1 => buff'[j] = buff[j]
      <4> HIDE DEF Stored
      <4> QED BY <1>b, <3>1, <3>2, StoredBytes
    <3>4. \A j \in data' + Len(s) .. data' + Len(s) + len - 1 : buff[j] \in Byte /\ buff'[j] = buff[j]
      <4> TAKE j \in data' + Len(s) .. data' + Len(s) + len - 1
      <4>1. /\ j \in data .. data + len - 1 /\ j \in 0 .. data_len - 1
            /\ j \notin data' .. data' + Len(s) - 1
        BY <1>b, <1>f, <2>1, <3>2
      <4> QED BY <1>c, <3>3, <4>1
    <3>5. Window(buff', data', Len(s) + len) = s \o Window(buff, data' + Len(s), len)
      <4>1. data' \in Int BY <3>2
      <4>2. \A j \in data' .. data' + Len(s) - 1 : buff'[j] = s[j - data' + 1] BY <3>3
      <4>3. len \in Nat BY <1>f
      <4> QED BY <2>1, <3>4, <4>1, <4>2, <4>3, WindowPrepend, Zenon
    <3>6. len' = Len(s) + len BY <1>b, <2>1, <2>2
    <3>7. Contents' = s \o Contents BY <3>2, <3>5, <3>6, ContentsIsWindow
    <3>8. Len(s) <= data /\ data_len' - tail' = data_len - tail BY <1>b, <2>1, <2>2, <3>2
    <3>9. hung' = "no" BY <2>2, <2>4
    <3>10. Abstract!Push(s) BY <1>a, <2>2, <3>7, <3>8, <3>9 DEF Abstract!Push
    <3> QED BY <3>10 DEF Abstract!BytesNext
  <2> QED BY <2>2, <2>3, <2>4
<1>4. ASSUME NEW n \in Sizes, skb_reserve(n) PROVE Abstract!BytesNext
  <2>1. n \in Nat BY SizesAssumption
  <2>2. /\ len = 0 /\ tail + n <= data_len /\ data' = data + n /\ tail' = tail + n
        /\ data_len' = data_len /\ len' = 0 /\ hung' = "no"
    BY <1>a, <1>4 DEF skb_reserve
  <2>3. data' \in Int BY <1>b, <2>1, <2>2
  <2>4. Contents = <<>> BY <1>b, <2>2, ContentsIsWindow, EmptyWindow
  <2>5. Contents' = <<>> BY <2>2, <2>3, ContentsIsWindow, EmptyWindow
  <2>6. n <= data_len - tail /\ data_len' - tail' = (data_len - tail) - n BY <1>b, <2>1, <2>2
  <2>7. Abstract!Reserve(n) BY <1>a, <2>2, <2>4, <2>5, <2>6 DEF Abstract!Reserve
  <2> QED BY <2>7 DEF Abstract!BytesNext
<1>5. ASSUME NEW n \in Sizes, skb_pull(n) PROVE Abstract!BytesNext
  <2>1. n \in Nat BY SizesAssumption
  <2>2. /\ n <= len /\ data' = data + n /\ len' = len - n /\ buff' = buff
        /\ data_len' = data_len /\ tail' = tail /\ hung' = "no"
    BY <1>a, <1>5 DEF skb_pull
  <2>3. Window(buff, data + n, len - n) = SubSeq(Window(buff, data, len), n + 1, len)
    <3>1. n <= len /\ len <= len BY <1>f, <2>2
    <3> QED BY <1>c, <1>f, <2>1, <3>1, WindowPart
  <2>4. Contents' = SubSeq(Contents, n + 1, Len(Contents)) BY <1>d, <2>2, <2>3, ContentsIsWindow
  <2>5. Abstract!Pull(n) BY <1>a, <1>d, <2>2, <2>4 DEF Abstract!Pull
  <2> QED BY <2>5 DEF Abstract!BytesNext
<1>6. ASSUME NEW n \in Sizes, skb_trim(n) PROVE Abstract!BytesNext
  <2>1. n \in Nat BY SizesAssumption
  <2>2. /\ len > n /\ len' = n /\ tail' = data + n /\ buff' = buff /\ data' = data
        /\ data_len' = data_len /\ hung' = "no"
    BY <1>a, <1>6 DEF skb_trim
  <2>3. Window(buff, data + 0, n - 0) = SubSeq(Window(buff, data, len), 0 + 1, n)
    <3>1. n <= len /\ 0 <= n /\ 0 \in Nat BY <1>f, <2>1, <2>2
    <3> QED BY <1>c, <1>f, <2>1, <3>1, WindowPart
  <2>4. data + 0 = data /\ n - 0 = n /\ 0 + 1 = 1 BY <1>b, <2>1
  <2>5. Contents' = SubSeq(Contents, 1, n) BY <2>2, <2>3, <2>4, ContentsIsWindow
  <2>6. n <= len /\ data_len' - tail' = (data_len - tail) + len - n BY <1>b, <2>1, <2>2
  <2>7. Abstract!Trim(n) BY <1>a, <1>d, <2>2, <2>5, <2>6 DEF Abstract!Trim
  <2> QED BY <2>7 DEF Abstract!BytesNext
<1> QED BY <1>1, <1>2, <1>3, <1>4, <1>5, <1>6 DEF Next

(* The pointers of a packet implement a sequence of bytes with room on     *)
(* both sides. A put stops the thread only when there is less room behind  *)
(* the bytes than it asks for, or none at all in the buffer; a push only   *)
(* when there is less room before them.                                    *)
THEOREM BufferImplementsBytes == Spec => ImplementsBytes
BY InitBInv, NextBInv, InitIsAbstract, NextIsAbstract, PTL
   DEF Spec, ImplementsBytes, Abstract!BytesSpec
=============================================================================
