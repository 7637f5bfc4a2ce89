------------------------------- MODULE BcData -------------------------------
(***************************************************************************)
(* The data byte codes (src/bc_data.c): what they make of the table of a   *)
(* CCB that gives names values (HashTable has its inside; here it is the   *)
(* map that the table implements). A key is the string that a pointer      *)
(* points to: a sequence of bytes without 0.                               *)
(*                                                                         *)
(* Each byte code is an operator from a table and the parameters of the    *)
(* script's entry to the tables it may leave. Of a parameter p the code    *)
(* passes sometimes p->buf, its text, sometimes p itself: then the string  *)
(* is what the structure begins with, its size.                            *)
(***************************************************************************)
EXTENDS Integers, Sequences, SequencesExt

(* map: key -> value, a name with a null value being none; lent: pairs of  *)
(* a key whose bytes are part of the value of another, and that other;     *)
(* status: "wild" once a key was freed with the value it was part of.      *)
EmptyTable == [map |-> <<>>, lent |-> {}, status |-> "ok"]
Dying(t)   == [t EXCEPT !.status = "dead"]

(* zc_hashtable_put: value is a set of at most one value, none for NULL;   *)
(* owner the key, if any, whose value's buffer is passed as the key. The   *)
(* old value is given back.                                                *)
Put(t, key, value, owner) ==
  LET lent == {p \in t.lent : p[1] # key} \cup ({key} \X owner)
      keys == IF value = {} THEN DOMAIN t.map \ {key} ELSE DOMAIN t.map \cup {key} IN
  IF t.status # "ok" THEN t
  ELSE [map    |-> [k \in keys |-> IF k = key THEN CHOOSE v \in value : TRUE ELSE t.map[k]],
        lent   |-> lent,
        status |-> IF key \in DOMAIN t.map /\ (\E p \in lent : p[2] = key)
                   THEN "wild" ELSE "ok"]

(* The string at a fmBytes: what is before the first 0 of the bytes of     *)
(* size, the lowest first, which fmBytes_alloc made the length of the      *)
(* parameter (no line is as long as 2^16). The string at its buffer: the   *)
(* text; calloc leaves zeros behind it (but for lengths of 24, 40, 56 and  *)
(* so on, which fill a block). The string at a value's buffer ends at its  *)
(* first 0.                                                                *)
SizeKey(size) == IF size % 256 = 0 THEN <<>>
                 ELSE IF size < 256 THEN <<size>> ELSE <<size % 256, size \div 256>>
StructKey(p) == SizeKey(Len(p))
TextKey(p)   == p
BufKey(v)    == SubSeq(v, 1, CHOOSE n \in 0..Len(v) : /\ \A i \in 1..n : v[i] # 0
                                                      /\ n = Len(v) \/ v[n + 1] = 0)

(* hexstr_to_hex takes every character for a digit: the low byte of        *)
(* ((x - 0x30) << 4) | (y - 0x30).                                         *)
Bit(n, i)     == (n \div 2^i) % 2
Or8(m, n)     == LET bits == {i \in 0..7 : Bit(m, i) = 1 \/ Bit(n, i) = 1} IN
                 FoldSet(LAMBDA i, sum : sum + 2^i, 0, bits)
hexstr_to_hex(p) ==
  [i \in 1..Len(p) \div 2 |-> Or8((16 * (p[2 * i - 1] - 48)) % 256, (p[2 * i] - 48) % 256)]

----------------------------------------------------------------------------
(* Mutant: every pair's data is put under the first name.                  *)
data_set_first(t, arg) ==
  LET after[n \in 0..Len(arg) \div 2] ==
        IF n = 0 THEN t
        ELSE Put(after[n - 1], StructKey(arg[2]), {hexstr_to_hex(arg[2 * n - 1])}, {}) IN
  {after[Len(arg) \div 2]}

(* data_set,data:name,...: the name is passed as the structure. Of a       *)
(* string of odd length the last digit is stored behind the buffer.        *)
data_set(t, arg) ==
  LET after[n \in 0..Len(arg) \div 2] ==
        IF n = 0 THEN t
        ELSE Put(after[n - 1], StructKey(arg[2 * n]), {hexstr_to_hex(arg[2 * n - 1])}, {}) IN
  IF Len(arg) % 2 # 0 THEN {t}
  ELSE {after[Len(arg) \div 2]}
       \cup {Dying(t) : i \in {i \in DOMAIN arg : i % 2 = 1 /\ Len(arg[i]) % 2 # 0}}

(* data_extract and data_extract_rsp, frm:start:end:name,...: the numbers  *)
(* come from fmBytes2intBE, which starts from an uninitialised value, and  *)
(* the name is a string of zeros. Whatever was asked for, a part of the    *)
(* source, nothing, or bytes from outside it are put under "".             *)
Unknown  == 256
Parts(v) == {SubSeq(v, i, j) : i \in 1..Len(v), j \in 0..Len(v)} \cup {<<>>, <<Unknown>>}

Extracted(t, arg, sources) ==
  IF Len(arg) % 4 # 0 \/ arg = <<>> THEN {t}
  ELSE {Put(t, <<>>, {v}, {}) : v \in UNION {Parts(s) : s \in sources}}
       \cup {Put(t, <<>>, {}, {}), Dying(t)}

(* The source is looked up as the structure; of no source nothing is       *)
(* copied. The last of several stays.                                      *)
data_extract(t, arg) ==
  LET key == IF arg = <<>> THEN <<>> ELSE StructKey(arg[Len(arg) - 3]) IN
  Extracted(t, arg, IF key \in DOMAIN t.map THEN {t.map[key]} ELSE {<<>>})

data_extract_rsp(t, arg, rsp) == Extracted(t, arg, rsp \cup {<<>>})

(* data_concat,sub,...,name: all are looked up by their texts, none may be *)
(* missing, and the value of name, not name, is the key of the result.     *)
data_concat(t, arg) ==
  IF arg = <<>> \/ (\E i \in DOMAIN arg : TextKey(arg[i]) \notin DOMAIN t.map)
  THEN {Dying(t)}
  ELSE LET name == TextKey(arg[Len(arg)])
           des  == FoldLeft(LAMBDA v, p : v \o t.map[TextKey(p)], <<>>, Front(arg)) IN
       {Put(t, BufKey(t.map[name]), {des}, {name})}

(* data_reverse,src:des,...: the complement of src under the text of des.  *)
Reversed(t, src, des) ==
  IF TextKey(src) \notin DOMAIN t.map THEN Dying(t)
  ELSE LET v == t.map[TextKey(src)] IN
       Put(t, TextKey(des), {[i \in DOMAIN v |-> 255 - v[i]]}, {})

data_reverse(t, arg) ==
  LET after[n \in 0..Len(arg) \div 2] ==
        IF n = 0 THEN t ELSE Reversed(after[n - 1], arg[2 * n - 1], arg[2 * n]) IN
  IF Len(arg) % 2 # 0 THEN {t} ELSE {after[Len(arg) \div 2]}

(* data_request and data_add_len touch nothing.                            *)
data_idle(t, arg) == {t}
=============================================================================
