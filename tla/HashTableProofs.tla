-------------------------- MODULE HashTableProofs --------------------------
(***************************************************************************)
(* Proofs about the hash table, for any keys, hashes, entries and sizes:   *)
(* its chains stay whole under put, remove, clean and growth, look-ups and *)
(* walks find what is stored, and the table is the map it promises.        *)
(***************************************************************************)
EXTENDS HashTable, FiniteSetTheorems, WellFoundedInduction, TLAPS

----------------------------------------------------------------------------
(* Induction over the natural numbers, for sets.                           *)
LEMMA LeastOfSet ==
  ASSUME NEW T \in SUBSET Nat, T # {}
  PROVE  \E n \in T : \A m \in T : n <= m
<1> DEFINE R == {ss \in Nat \X Nat : ss[1] < ss[2]}
<1>1. OpToRel(<, Nat) = R
  BY DEF OpToRel
<1>2. IsWellFoundedOn(R, Nat)
  BY <1>1, NatLessThanWellFounded
<1>3. PICK n \in T : \A m \in T : ~ (<<m, n>> \in R)
  BY <1>2, WFMin
<1>4. ASSUME NEW m \in T, m < n PROVE <<m, n>> \in R
  <2> DEFINE mn == <<m, n>>
  <2>1. mn \in Nat \X Nat /\ mn[1] = m /\ mn[2] = n
    OBVIOUS
  <2>2. mn[1] < mn[2]
    BY <1>4, <2>1
  <2> HIDE DEF mn
  <2>3. mn \in R
    BY <2>1, <2>2
  <2> QED
    BY <2>3 DEF mn
<1> HIDE DEF R
<1>5. \A m \in T : ~(m < n)
  BY <1>3, <1>4
<1> QED
  BY <1>5

LEMMA NatSetInduction ==
  ASSUME NEW S, 0 \in S, \A n \in Nat : n \in S => n + 1 \in S
  PROVE  Nat \subseteq S
<1> SUFFICES ASSUME Nat \ S # {} PROVE FALSE
  OBVIOUS
<1>1. PICK n \in Nat \ S : \A m \in Nat \ S : n <= m
  BY LeastOfSet
<1>2. n # 0 /\ n - 1 \in Nat /\ n - 1 \notin Nat \ S
  BY <1>1
<1> QED
  BY <1>1, <1>2

----------------------------------------------------------------------------
(* Walks along a function of successors. Walk of HashTable is W along next.*)
Closed(S, nx) == \A x \in S : nx[x] # Nil => nx[x] \in S
W(h, nx) == {e \in Entries : \A S \in SUBSET Entries :
                               (h # Nil => h \in S) /\ Closed(S, nx) => e \in S}

Succ == [Entries -> Entries \cup {Nil}]

LEMMA WalkIsW == ASSUME NEW STATE h PROVE Walk(h) = W(h, next)
  BY DEF Walk, W, Closed

(* A walk is the least set that has its head and is closed.                *)
LEMMA WalkLeast ==
  ASSUME NEW nx, NEW h, NEW S \in SUBSET Entries, h # Nil => h \in S, Closed(S, nx)
  PROVE  W(h, nx) \subseteq S
  BY DEF W

LEMMA WalkClosed ==
  ASSUME NEW nx \in Succ, NEW h \in Entries \cup {Nil}
  PROVE  /\ W(h, nx) \in SUBSET Entries /\ Closed(W(h, nx), nx)
         /\ h # Nil => h \in W(h, nx)
         /\ h = Nil => W(h, nx) = {}
<1>1. W(h, nx) \in SUBSET Entries
  BY DEF W
<1>2. Closed(W(h, nx), nx)
  <2> SUFFICES ASSUME NEW x \in W(h, nx), nx[x] # Nil PROVE nx[x] \in W(h, nx)
    BY DEF Closed
  <2>1. nx[x] \in Entries
    BY <1>1 DEF Succ
  <2>2. ASSUME NEW S \in SUBSET Entries, h # Nil => h \in S, Closed(S, nx) PROVE nx[x] \in S
    <3>1. x \in S
      BY <2>2 DEF W
    <3> QED
      BY <2>2, <3>1 DEF Closed
  <2> QED
    BY <2>1, <2>2 DEF W
<1>3. h # Nil => h \in W(h, nx)
  BY DEF W
<1>4. h = Nil => W(h, nx) = {}
  <2> SUFFICES ASSUME h = Nil PROVE W(h, nx) \subseteq {}
    OBVIOUS
  <2>1. {} \in SUBSET Entries /\ Closed({}, nx)
    BY DEF Closed
  <2> QED
    BY <2>1, WalkLeast
<1> QED
  BY <1>1, <1>2, <1>3, <1>4

(* A walk is its head and the walk from the head's successor.              *)
LEMMA WalkStep ==
  ASSUME NEW nx \in Succ, NEW h \in Entries
  PROVE  W(h, nx) = {h} \cup W(nx[h], nx)
<1>0. Nil \notin Entries /\ nx[h] \in Entries \cup {Nil}
  BY EntryAssumption DEF Succ
<1>1. W(h, nx) \in SUBSET Entries /\ Closed(W(h, nx), nx) /\ h \in W(h, nx)
  BY <1>0, WalkClosed
<1>2. /\ W(nx[h], nx) \in SUBSET Entries /\ Closed(W(nx[h], nx), nx)
      /\ nx[h] # Nil => nx[h] \in W(nx[h], nx)
  BY <1>0, WalkClosed
<1>3. W(h, nx) \subseteq {h} \cup W(nx[h], nx)
  <2>1. {h} \cup W(nx[h], nx) \in SUBSET Entries /\ Closed({h} \cup W(nx[h], nx), nx)
    BY <1>2 DEF Closed
  <2> QED
    BY <2>1, WalkLeast
<1>4. W(nx[h], nx) \subseteq W(h, nx)
  <2>1. nx[h] # Nil => nx[h] \in W(h, nx)
    BY <1>1 DEF Closed
  <2> QED
    BY <1>1, <2>1, WalkLeast
<1> QED
  BY <1>1, <1>3, <1>4

(* Only the successors of the entries on a walk matter.                    *)
LEMMA WalkSame ==
  ASSUME NEW nx \in Succ, NEW nx2 \in Succ, NEW h \in Entries \cup {Nil},
         \A x \in W(h, nx) : nx2[x] = nx[x]
  PROVE  W(h, nx2) = W(h, nx)
<1>1. /\ W(h, nx) \in SUBSET Entries /\ Closed(W(h, nx), nx) /\ (h # Nil => h \in W(h, nx))
      /\ W(h, nx2) \in SUBSET Entries /\ Closed(W(h, nx2), nx2) /\ (h # Nil => h \in W(h, nx2))
  BY WalkClosed
<1>2. W(h, nx2) \subseteq W(h, nx)
  <2>1. Closed(W(h, nx), nx2)
    BY <1>1 DEF Closed
  <2> QED
    BY <1>1, <2>1, WalkLeast
<1>3. W(h, nx) \subseteq W(h, nx) \cap W(h, nx2)
  <2> DEFINE S == W(h, nx) \cap W(h, nx2)
  <2>1. S \in SUBSET Entries /\ (h # Nil => h \in S) /\ Closed(S, nx)
    BY <1>1 DEF Closed
  <2> HIDE DEF S
  <2>2. W(h, nx) \subseteq S
    BY <2>1, WalkLeast
  <2> QED
    BY <2>2 DEF S
<1> QED
  BY <1>2, <1>3

(* A head that is nobody's successor is not met again.                     *)
LEMMA WalkBeyond ==
  ASSUME NEW nx \in Succ, NEW h \in Entries, \A x \in W(h, nx) : nx[x] # h
  PROVE  h \notin W(nx[h], nx)
<1>1. W(h, nx) \in SUBSET Entries /\ Closed(W(h, nx), nx) /\ h \in W(h, nx)
  BY EntryAssumption, WalkClosed
<1>2. W(h, nx) \ {h} \in SUBSET Entries /\ Closed(W(h, nx) \ {h}, nx)
      /\ (nx[h] # Nil => nx[h] \in W(h, nx) \ {h})
  BY <1>1 DEF Closed
<1>3. W(nx[h], nx) \subseteq W(h, nx) \ {h}
  BY <1>2, WalkLeast
<1> QED
  BY <1>3

(* An entry whose only predecessor pe skips it is left out, and no other.  *)
LEMMA WalkSkip ==
  ASSUME NEW nx \in Succ, NEW nx2 \in Succ, NEW h \in Entries, NEW e \in W(h, nx), e # h,
         NEW pe \in Entries, pe # e,
         \A x \in W(h, nx) : nx[x] = e => x = pe,
         nx[pe] = e, nx2[pe] = nx[e], nx2[e] = Nil,
         \A x \in W(h, nx) \ {e, pe} : nx2[x] = nx[x]
  PROVE  W(h, nx2) = W(h, nx) \ {e}
<1>1. /\ W(h, nx) \in SUBSET Entries /\ Closed(W(h, nx), nx) /\ h \in W(h, nx)
      /\ W(h, nx2) \in SUBSET Entries /\ Closed(W(h, nx2), nx2) /\ h \in W(h, nx2)
  BY EntryAssumption, WalkClosed
<1>2. W(h, nx2) \subseteq W(h, nx) \ {e}
  <2>1. ASSUME NEW x \in W(h, nx) \ {e}, nx2[x] # Nil PROVE nx2[x] \in W(h, nx) \ {e}
    <3>1. CASE x # pe
      BY <1>1, <2>1, <3>1 DEF Closed
    <3>2. CASE x = pe
      <4>1. nx[e] # e
        BY <1>1
      <4> QED
        BY <1>1, <2>1, <3>2, <4>1 DEF Closed
    <3> QED
      BY <3>1, <3>2
  <2>2. Closed(W(h, nx) \ {e}, nx2) /\ W(h, nx) \ {e} \in SUBSET Entries /\ h \in W(h, nx) \ {e}
    BY <1>1, <2>1 DEF Closed
  <2> QED
    BY <2>2, WalkLeast
<1>3. pe \in W(h, nx2)
  <2> SUFFICES ASSUME pe \notin W(h, nx2) PROVE FALSE
    OBVIOUS
  <2>1. Closed(W(h, nx2), nx)
    BY <1>1, <1>2 DEF Closed
  <2>2. W(h, nx) \subseteq W(h, nx2)
    BY <1>1, <2>1, WalkLeast
  <2> QED
    BY <1>2, <2>2
<1>4. W(h, nx) \subseteq W(h, nx2) \cup {e}
  <2>1. ASSUME NEW x \in W(h, nx2) \cup {e}, nx[x] # Nil PROVE nx[x] \in W(h, nx2) \cup {e}
    <3>1. CASE x = e
      BY <1>1, <1>3, <2>1, <3>1 DEF Closed
    <3>2. CASE x = pe
      BY <3>2
    <3>3. CASE x # e /\ x # pe
      BY <1>1, <1>2, <2>1, <3>3 DEF Closed
    <3> QED
      BY <3>1, <3>2, <3>3
  <2>2. Closed(W(h, nx2) \cup {e}, nx) /\ W(h, nx2) \cup {e} \in SUBSET Entries
    BY <1>1, <2>1 DEF Closed
  <2> QED
    BY <1>1, <2>2, WalkLeast
<1> QED
  BY <1>2, <1>4

----------------------------------------------------------------------------
(* A table t of "size" chains that holds the entries M: each chain is a    *)
(* walk over the entries of its slot, prev leads back along next, and the  *)
(* heads have no prev.                                                     *)
At(ky, e, size) == Hash[ky[e]] % size

TableTypes(t, size, M, ky, nx, pv) ==
  /\ size \in Nat \ {0} /\ t \in [0 .. size - 1 -> Entries \cup {Nil}]
  /\ M \subseteq Entries /\ nx \in Succ /\ pv \in Succ
  /\ \A e \in M : At(ky, e, size) \in 0 .. size - 1

Chains(t, size, M, ky, nx) ==
  \A b \in 0 .. size - 1 : W(t[b], nx) = {e \in M : At(ky, e, size) = b}

Links(t, size, M, ky, nx, pv) ==
  \A e \in M : /\ IF pv[e] = Nil THEN t[At(ky, e, size)] = e
                                 ELSE pv[e] \in M /\ nx[pv[e]] = e
               /\ nx[e] # Nil => pv[nx[e]] = e

Rooted(t, size, pv) == \A b \in 0 .. size - 1 : t[b] # Nil => pv[t[b]] = Nil

Table(t, size, M, ky, nx, pv) ==
  /\ TableTypes(t, size, M, ky, nx, pv) /\ Chains(t, size, M, ky, nx)
  /\ Links(t, size, M, ky, nx, pv) /\ Rooted(t, size, pv)

(* The head of a chain is an entry of the slot, and so is every successor. *)
LEMMA TableFacts ==
  ASSUME NEW t, NEW size, NEW M, NEW ky, NEW nx, NEW pv, Table(t, size, M, ky, nx, pv)
  PROVE  /\ \A b \in 0 .. size - 1 : t[b] # Nil => t[b] \in M /\ At(ky, t[b], size) = b
         /\ \A e \in M : nx[e] # Nil => nx[e] \in M /\ At(ky, nx[e], size) = At(ky, e, size)
<1> USE DEF Table
<1>1. ASSUME NEW b \in 0 .. size - 1, t[b] # Nil PROVE t[b] \in M /\ At(ky, t[b], size) = b
  <2>1. t[b] \in Entries \cup {Nil} /\ nx \in Succ
    BY DEF TableTypes
  <2>2. t[b] \in W(t[b], nx)
    BY <1>1, <2>1, WalkClosed
  <2> QED
    BY <2>2 DEF Chains
<1>2. ASSUME NEW e \in M, nx[e] # Nil PROVE nx[e] \in M /\ At(ky, nx[e], size) = At(ky, e, size)
  <2> DEFINE b == At(ky, e, size)
  <2>1. b \in 0 .. size - 1 /\ t[b] \in Entries \cup {Nil} /\ nx \in Succ
    BY DEF TableTypes
  <2>2. e \in W(t[b], nx)
    BY <2>1 DEF Chains
  <2>3. nx[e] \in W(t[b], nx)
    BY <1>2, <2>1, <2>2, WalkClosed DEF Closed
  <2> QED
    BY <2>1, <2>3 DEF Chains
<1> QED
  BY <1>1, <1>2

(* An entry that goes to the head of a chain.                              *)
PutAtHead(t, size, M, ky, nx, pv, e, j, t2, ky2, nx2, pv2) ==
  /\ e \in Entries /\ e \notin M /\ j \in 0 .. size - 1
  /\ t2 = [t EXCEPT ![j] = e]
  /\ At(ky2, e, size) = j /\ \A x \in M : ky2[x] = ky[x]
  /\ nx2 = [nx EXCEPT ![e] = t[j]]
  /\ pv2 = [x \in Entries |-> IF x = e THEN Nil ELSE IF x = t[j] THEN e ELSE pv[x]]

LEMMA PutKeepsTable ==
  ASSUME NEW t, NEW size, NEW M, NEW ky, NEW nx, NEW pv, NEW e, NEW j,
         NEW t2, NEW ky2, NEW nx2, NEW pv2,
         Table(t, size, M, ky, nx, pv),
         PutAtHead(t, size, M, ky, nx, pv, e, j, t2, ky2, nx2, pv2)
  PROVE  Table(t2, size, M \cup {e}, ky2, nx2, pv2)
<1>1. /\ size \in Nat \ {0} /\ t \in [0 .. size - 1 -> Entries \cup {Nil}]
      /\ M \subseteq Entries /\ nx \in Succ /\ pv \in Succ /\ Nil \notin Entries
      /\ \A x \in M : At(ky, x, size) \in 0 .. size - 1
      /\ Chains(t, size, M, ky, nx) /\ Links(t, size, M, ky, nx, pv) /\ Rooted(t, size, pv)
  BY EntryAssumption DEF Table, TableTypes
<1>2. /\ e \in Entries /\ e \notin M /\ j \in 0 .. size - 1 /\ At(ky2, e, size) = j
      /\ t2[j] = e /\ \A b \in (0 .. size - 1) \ {j} : t2[b] = t[b]
      /\ \A x \in M : At(ky2, x, size) = At(ky, x, size)
      /\ nx2[e] = t[j] /\ \A x \in Entries \ {e} : nx2[x] = nx[x]
      /\ pv2[e] = Nil /\ (t[j] # Nil => pv2[t[j]] = e)
      /\ \A x \in Entries \ {e, t[j]} : pv2[x] = pv[x]
  <2>1. t[j] # Nil => t[j] \in M
    BY TableFacts DEF PutAtHead
  <2> QED
    BY <1>1, <2>1 DEF PutAtHead, Succ, At
<1>3. TableTypes(t2, size, M \cup {e}, ky2, nx2, pv2)
  <2>1. t[j] \in Entries \cup {Nil}
    BY <1>1, <1>2
  <2>2. t2 \in [0 .. size - 1 -> Entries \cup {Nil}] /\ nx2 \in Succ /\ pv2 \in Succ
    BY <1>1, <1>2, <2>1 DEF PutAtHead, Succ
  <2> QED
    BY <1>1, <1>2, <2>2 DEF TableTypes
<1>4. nx2 \in Succ
  BY <1>3 DEF TableTypes
<1>5. ASSUME NEW b \in 0 .. size - 1 PROVE W(t[b], nx2) = {x \in M : At(ky, x, size) = b}
  <2>1. W(t[b], nx) = {x \in M : At(ky, x, size) = b}
    BY <1>1 DEF Chains
  <2>2. \A x \in W(t[b], nx) : nx2[x] = nx[x]
    BY <1>1, <1>2, <2>1
  <2>3. t[b] \in Entries \cup {Nil}
    BY <1>1
  <2> QED
    BY <1>1, <1>4, <2>1, <2>2, <2>3, WalkSame
<1>6. Chains(t2, size, M \cup {e}, ky2, nx2)
  <2> SUFFICES ASSUME NEW b \in 0 .. size - 1
               PROVE  W(t2[b], nx2) = {x \in M \cup {e} : At(ky2, x, size) = b}
    BY DEF Chains
  <2>1. CASE b # j
    BY <1>2, <1>5, <2>1
  <2>2. CASE b = j
    <3>1. W(e, nx2) = {e} \cup W(t[j], nx2)
      BY <1>2, <1>4, WalkStep
    <3> QED
      BY <1>2, <1>5, <2>2, <3>1
  <2> QED
    BY <2>1, <2>2
<1>7. Links(t2, size, M \cup {e}, ky2, nx2, pv2)
  <2>1. \A x \in M : nx[x] # Nil => nx[x] \in M /\ nx[x] # t[j] /\ pv[nx[x]] = x
    <3>1. \A x \in M : nx[x] # Nil => nx[x] \in M /\ pv[nx[x]] = x
      BY <1>1, TableFacts DEF Links
    <3>2. t[j] # Nil => pv[t[j]] = Nil
      BY <1>1, <1>2 DEF Rooted
    <3> QED
      BY <1>1, <3>1, <3>2
  <2>2. ASSUME NEW x \in M, nx2[x] # Nil PROVE pv2[nx2[x]] = x
    BY <1>1, <1>2, <2>1, <2>2
  <2>3. nx2[e] # Nil => pv2[nx2[e]] = e
    BY <1>2
  <2>4. ASSUME NEW x \in M
        PROVE  IF pv2[x] = Nil THEN t2[At(ky2, x, size)] = x
                               ELSE pv2[x] \in M \cup {e} /\ nx2[pv2[x]] = x
    <3>1. CASE x = t[j]
      <4>1. pv2[x] = e /\ nx2[e] = x
        BY <1>1, <1>2, <3>1
      <4> QED
        BY <1>1, <1>2, <4>1
    <3>2. CASE x # t[j]
      <4>1. pv2[x] = pv[x]
        BY <1>1, <1>2, <3>2
      <4>2. CASE pv[x] = Nil
        <5>1. t[At(ky, x, size)] = x
          BY <1>1, <4>2 DEF Links
        <5> QED
          BY <1>1, <1>2, <3>2, <4>1, <4>2, <5>1
      <4>3. CASE pv[x] # Nil
        <5>1. pv[x] \in M /\ nx[pv[x]] = x
          BY <1>1, <4>3 DEF Links
        <5> QED
          BY <1>1, <1>2, <4>1, <4>3, <5>1
      <4> QED
        BY <4>2, <4>3
    <3> QED
      BY <3>1, <3>2
  <2>5. pv2[e] = Nil /\ t2[At(ky2, e, size)] = e
    BY <1>2
  <2> QED
    BY <2>2, <2>3, <2>4, <2>5 DEF Links
<1>8. Rooted(t2, size, pv2)
  <2> SUFFICES ASSUME NEW b \in 0 .. size - 1, t2[b] # Nil PROVE pv2[t2[b]] = Nil
    BY DEF Rooted
  <2>1. CASE b = j
    BY <1>2, <2>1
  <2>2. CASE b # j
    <3>1. t2[b] = t[b] /\ t[b] \in M /\ At(ky, t[b], size) = b
      BY <1>2, <2>2, TableFacts
    <3>2. t[b] # t[j]
      BY <1>2, <2>2, <3>1, TableFacts
    <3>3. pv[t[b]] = Nil
      BY <1>1, <3>1 DEF Rooted
    <3> QED
      BY <1>1, <1>2, <3>1, <3>2, <3>3
  <2> QED
    BY <2>1, <2>2
<1> QED
  BY <1>3, <1>6, <1>7, <1>8 DEF Table

(* An entry without predecessor but itself is the head or not on the walk. *)
LEMMA WalkNoLoop ==
  ASSUME NEW nx \in Succ, NEW h \in Entries, NEW e, e # h, \A x \in W(h, nx) : nx[x] = e => x = e
  PROVE  e \notin W(h, nx)
<1>1. W(h, nx) \in SUBSET Entries /\ Closed(W(h, nx), nx) /\ h \in W(h, nx)
  BY EntryAssumption, WalkClosed
<1>2. W(h, nx) \ {e} \in SUBSET Entries /\ Closed(W(h, nx) \ {e}, nx) /\ h \in W(h, nx) \ {e}
  BY <1>1 DEF Closed
<1>3. W(h, nx) \subseteq W(h, nx) \ {e}
  BY <1>2, WalkLeast
<1> QED
  BY <1>3

(* An entry that is unlinked.                                              *)
TakenOut(t, size, M, ky, nx, pv, e, j, t2, ky2, nx2, pv2) ==
  /\ e \in M /\ j = At(ky, e, size)
  /\ t2 = IF pv[e] = Nil THEN [t EXCEPT ![j] = nx[e]] ELSE t
  /\ \A x \in M \ {e} : ky2[x] = ky[x]
  /\ nx2 = [x \in Entries |-> IF x = e THEN Nil ELSE IF x = pv[e] THEN nx[e] ELSE nx[x]]
  /\ pv2 = [x \in Entries |-> IF x = e THEN Nil ELSE IF x = nx[e] THEN pv[e] ELSE pv[x]]

LEMMA RemoveKeepsTable ==
  ASSUME NEW t, NEW size, NEW M, NEW ky, NEW nx, NEW pv, NEW e, NEW j,
         NEW t2, NEW ky2, NEW nx2, NEW pv2,
         Table(t, size, M, ky, nx, pv),
         TakenOut(t, size, M, ky, nx, pv, e, j, t2, ky2, nx2, pv2)
  PROVE  Table(t2, size, M \ {e}, ky2, nx2, pv2)
<1>1. /\ size \in Nat \ {0} /\ t \in [0 .. size - 1 -> Entries \cup {Nil}]
      /\ M \subseteq Entries /\ nx \in Succ /\ pv \in Succ /\ Nil \notin Entries
      /\ \A x \in M : At(ky, x, size) \in 0 .. size - 1
      /\ Chains(t, size, M, ky, nx) /\ Links(t, size, M, ky, nx, pv) /\ Rooted(t, size, pv)
  BY EntryAssumption DEF Table, TableTypes
<1>2. /\ e \in M /\ e \in Entries /\ j = At(ky, e, size) /\ j \in 0 .. size - 1
      /\ \A x \in M \ {e} : At(ky2, x, size) = At(ky, x, size)
      /\ nx2[e] = Nil /\ (pv[e] # Nil /\ pv[e] # e => nx2[pv[e]] = nx[e])
      /\ \A x \in Entries \ {e, pv[e]} : nx2[x] = nx[x]
      /\ pv2[e] = Nil /\ (nx[e] # Nil /\ nx[e] # e => pv2[nx[e]] = pv[e])
      /\ \A x \in Entries \ {e, nx[e]} : pv2[x] = pv[x]
      /\ \A b \in (0 .. size - 1) \ {j} : t2[b] = t[b]
      /\ (pv[e] = Nil => t2[j] = nx[e]) /\ (pv[e] # Nil => t2 = t)
  BY <1>1 DEF TakenOut, At, Succ
<1>3. /\ nx2 \in Succ /\ pv2 \in Succ
      /\ TableTypes(t2, size, M \ {e}, ky2, nx2, pv2)
  <2>1. nx[e] \in Entries \cup {Nil} /\ pv[e] \in Entries \cup {Nil}
    BY <1>1, <1>2 DEF Succ
  <2>2. nx2 \in Succ /\ pv2 \in Succ
    BY <1>1, <2>1 DEF TakenOut, Succ
  <2>3. t2 \in [0 .. size - 1 -> Entries \cup {Nil}]
    BY <1>1, <1>2, <2>1 DEF TakenOut
  <2> QED
    BY <1>1, <1>2, <2>2, <2>3 DEF TableTypes
<1>4. \A x \in M : nx[x] # Nil => nx[x] \in M /\ pv[nx[x]] = x /\ At(ky, nx[x], size) = At(ky, x, size)
  BY <1>1, TableFacts DEF Links
<1>5. pv[e] # Nil => /\ pv[e] \in M /\ nx[pv[e]] = e /\ pv[e] # e /\ At(ky, pv[e], size) = j
                     /\ t[j] # e /\ t[j] \in Entries
  <2> SUFFICES ASSUME pv[e] # Nil
               PROVE  /\ pv[e] \in M /\ nx[pv[e]] = e /\ pv[e] # e /\ At(ky, pv[e], size) = j
                      /\ t[j] # e /\ t[j] \in Entries
    OBVIOUS
  <2>1. pv[e] \in M /\ nx[pv[e]] = e
    BY <1>1, <1>2 DEF Links
  <2>2. e # Nil /\ t[j] # e
    BY <1>1, <1>2 DEF Rooted
  <2>3. At(ky, pv[e], size) = j
    BY <1>2, <1>4, <2>1, <2>2
  <2>4. e \in W(t[j], nx)
    BY <1>1, <1>2 DEF Chains
  <2>5. t[j] \in Entries
    <3>1. t[j] \in Entries \cup {Nil}
      BY <1>1, <1>2
    <3>2. t[j] # Nil
      BY <1>1, <2>4, <3>1, WalkClosed
    <3> QED
      BY <3>1, <3>2
  <2>6. pv[e] # e
    <3> SUFFICES ASSUME pv[e] = e PROVE FALSE
      OBVIOUS
    <3>1. \A x \in W(t[j], nx) : nx[x] = e => x = e
      <4>1. W(t[j], nx) \subseteq M
        BY <1>1, <1>2 DEF Chains
      <4> QED
        BY <1>4, <2>2, <4>1
    <3> QED
      BY <1>1, <2>2, <2>4, <2>5, <3>1, WalkNoLoop
  <2> QED
    BY <2>1, <2>2, <2>3, <2>5, <2>6
<1>6. pv[e] = Nil => t[j] = e /\ \A x \in M : nx[x] # e
  <2>1. pv[e] = Nil => t[j] = e
    BY <1>1, <1>2 DEF Links
  <2> QED
    BY <1>1, <1>2, <1>4, <2>1
<1>7. nx[e] # e
  BY <1>1, <1>2, <1>4, <1>5, <1>6
<1>8. Chains(t2, size, M \ {e}, ky2, nx2)
  <2> SUFFICES ASSUME NEW b \in 0 .. size - 1
               PROVE  W(t2[b], nx2) = {x \in M \ {e} : At(ky2, x, size) = b}
    BY DEF Chains
  <2>1. W(t[b], nx) = {x \in M : At(ky, x, size) = b} /\ t[b] \in Entries \cup {Nil}
    BY <1>1 DEF Chains
  <2>2. {x \in M \ {e} : At(ky2, x, size) = b} = W(t[b], nx) \ {e}
    BY <1>2, <2>1
  <2>3. CASE b # j
    <3>1. e \notin W(t[b], nx) /\ pv[e] \notin W(t[b], nx)
      BY <1>1, <1>2, <1>5, <2>1, <2>3
    <3>2. \A x \in W(t[b], nx) : nx2[x] = nx[x]
      BY <1>1, <1>2, <2>1, <3>1
    <3>3. W(t[b], nx2) = W(t[b], nx)
      BY <1>1, <1>3, <2>1, <3>2, WalkSame
    <3> QED
      BY <1>2, <2>2, <2>3, <3>1, <3>3
  <2>4. CASE b = j /\ pv[e] = Nil
    <3>1. t[b] = e /\ W(e, nx) \subseteq M
      BY <1>6, <2>1, <2>4
    <3>2. e \notin W(nx[e], nx)
      BY <1>1, <1>2, <1>6, <2>4, <3>1, WalkBeyond
    <3>3. W(e, nx) = {e} \cup W(nx[e], nx)
      BY <1>1, <1>2, WalkStep
    <3>4. \A x \in W(nx[e], nx) : nx2[x] = nx[x]
      BY <1>1, <1>2, <2>4, <3>1, <3>2, <3>3
    <3>5. nx[e] \in Entries \cup {Nil}
      BY <1>1, <1>2 DEF Succ
    <3>6. W(nx[e], nx2) = W(nx[e], nx)
      BY <1>1, <1>3, <3>4, <3>5, WalkSame
    <3> QED
      BY <1>2, <2>2, <2>4, <3>1, <3>2, <3>3, <3>6
  <2>5. CASE b = j /\ pv[e] # Nil
    <3>1. /\ t[j] \in Entries /\ e \in W(t[j], nx) /\ e # t[j] /\ pv[e] \in Entries /\ pv[e] # e
          /\ W(t[j], nx) \subseteq M
      BY <1>1, <1>2, <1>5, <2>1, <2>5
    <3>2. /\ \A x \in W(t[j], nx) : nx[x] = e => x = pv[e]
          /\ nx[pv[e]] = e /\ nx2[pv[e]] = nx[e] /\ nx2[e] = Nil
          /\ \A x \in W(t[j], nx) \ {e, pv[e]} : nx2[x] = nx[x]
      BY <1>1, <1>2, <1>4, <1>5, <2>5, <3>1
    <3>3. W(t[j], nx2) = W(t[j], nx) \ {e}
      BY <1>1, <1>3, <3>1, <3>2, WalkSkip
    <3> QED
      BY <1>2, <2>2, <2>5, <3>3
  <2> QED
    BY <2>3, <2>4, <2>5
<1>9. Links(t2, size, M \ {e}, ky2, nx2, pv2)
  <2>1. ASSUME NEW x \in M \ {e}, nx2[x] # Nil PROVE pv2[nx2[x]] = x
    <3>1. CASE x = pv[e]
      BY <1>1, <1>2, <1>5, <1>7, <2>1, <3>1
    <3>2. CASE x # pv[e]
      <4>1. nx2[x] = nx[x] /\ nx[x] # Nil
        BY <1>1, <1>2, <2>1, <3>2
      <4>2. nx[x] \in M /\ pv[nx[x]] = x
        BY <1>4, <4>1
      <4>3. nx[x] # e /\ nx[x] # nx[e]
        BY <1>2, <1>4, <3>2, <4>1, <4>2
      <4> QED
        BY <1>1, <1>2, <4>1, <4>2, <4>3
    <3> QED
      BY <3>1, <3>2
  <2>2. ASSUME NEW x \in M \ {e}
        PROVE  IF pv2[x] = Nil THEN t2[At(ky2, x, size)] = x
                               ELSE pv2[x] \in M \ {e} /\ nx2[pv2[x]] = x
    <3>1. CASE x = nx[e]
      <4>1. pv2[x] = pv[e] /\ At(ky2, x, size) = j
        BY <1>1, <1>2, <1>4, <1>7, <3>1
      <4> QED
        BY <1>2, <1>5, <3>1, <4>1
    <3>2. CASE x # nx[e]
      <4>1. pv2[x] = pv[x] /\ At(ky2, x, size) = At(ky, x, size)
        BY <1>1, <1>2, <3>2
      <4>2. CASE pv[x] = Nil
        <5>1. t[At(ky, x, size)] = x /\ At(ky, x, size) \in 0 .. size - 1
          BY <1>1, <4>2 DEF Links
        <5>2. At(ky, x, size) = j => pv[e] # Nil
          BY <1>6, <5>1
        <5> QED
          BY <1>2, <4>1, <4>2, <5>1, <5>2
      <4>3. CASE pv[x] # Nil
        <5>1. pv[x] \in M /\ nx[pv[x]] = x
          BY <1>1, <4>3 DEF Links
        <5>2. pv[x] # e /\ pv[x] # pv[e]
          BY <1>5, <3>2, <4>3, <5>1
        <5> QED
          BY <1>1, <1>2, <4>1, <4>3, <5>1, <5>2
      <4> QED
        BY <4>2, <4>3
    <3> QED
      BY <3>1, <3>2
  <2> QED
    BY <2>1, <2>2 DEF Links
<1>10. Rooted(t2, size, pv2)
  <2> SUFFICES ASSUME NEW b \in 0 .. size - 1, t2[b] # Nil PROVE pv2[t2[b]] = Nil
    BY DEF Rooted
  <2>1. CASE b = j /\ pv[e] = Nil
    BY <1>2, <1>7, <2>1
  <2>2. CASE ~(b = j /\ pv[e] = Nil)
    <3>1. t2[b] = t[b] /\ t[b] \in M /\ At(ky, t[b], size) = b /\ pv[t[b]] = Nil
      <4>1. t2[b] = t[b] /\ t[b] # Nil
        BY <1>2, <2>2
      <4> QED
        BY <1>1, <4>1, TableFacts DEF Rooted
    <3>2. t[b] # e
      BY <1>2, <1>5, <2>2, <3>1
    <3>3. t[b] # nx[e]
      BY <1>1, <1>2, <1>4, <3>1
    <3> QED
      BY <1>1, <1>2, <3>1, <3>2, <3>3
  <2> QED
    BY <2>1, <2>2
<1> QED
  BY <1>3, <1>8, <1>9, <1>10 DEF Table

----------------------------------------------------------------------------
(* The inductive invariant.                                                *)
Types ==
  /\ tab_size \in Nat \ {0} /\ tab \in [0 .. tab_size - 1 -> Entries \cup {Nil}]
  /\ live \subseteq Entries /\ \A e \in live : key[e] \in Keys
  /\ key \in [Entries -> Keys \cup {Nil}] /\ value \in [Entries -> Values \cup {Nil}]
  /\ prev \in Succ /\ next \in Succ
  /\ pc \in {"idle", "rehash", "insert"}
  /\ new \in [DOMAIN new -> Entries \cup {Nil}]
  /\ i \in 0 .. tab_size - 1 /\ p \in Entries \cup {Nil}
  /\ IF pc = "idle" THEN arg = NoArg ELSE arg \in [key : Keys, value : Values]

(* A key has one entry, and the key of a put under way has none.           *)
KeysApart ==
  /\ \A x, y \in live : key[x] = key[y] => x = y
  /\ pc # "idle" => \A x \in live : key[x] # arg.key

Counts ==
  /\ nelem \in Nat /\ nelem = Cardinality(live) /\ owned = nelem
  /\ 10 * (nelem - 1) <= 13 * tab_size
  /\ pc = "insert" => ~Crowded

Between == pc # "rehash" => Table(tab, tab_size, live, key, next, prev)

(* While the table grows: the entries the loop has passed.                 *)
Passed == {e \in live : \/ At(key, e, tab_size) < i
                        \/ At(key, e, tab_size) = i /\ e \notin W(p, next)}

(* They make up the new table; the rest hangs from p and from the chains   *)
(* the loop has not reached, its links as they were.                       *)
Growing ==
  pc = "rehash" =>
    /\ Table(new, 2 * tab_size, Passed, key, next, prev)
    /\ \A x \in W(p, next) : x \in live /\ At(key, x, tab_size) = i
    /\ \A j \in i + 1 .. tab_size - 1 :
         /\ W(tab[j], next) = {e \in live : At(key, e, tab_size) = j}
         /\ tab[j] # Nil => prev[tab[j]] = Nil
    /\ \A x \in live \ Passed : next[x] # Nil => prev[next[x]] = x
    /\ p # Nil => prev[p] \notin W(p, next)

IInv == Types /\ KeysApart /\ Counts /\ Between /\ Growing

LEMMA SlotRange ==
  ASSUME NEW k \in Keys, NEW size \in Nat \ {0}
  PROVE  Slot(k, size) \in 0 .. size - 1
<1>1. Hash[k] \in Nat
  BY HashAssumption
<1> QED
  BY <1>1 DEF Slot

LEMMA EmptyTable ==
  ASSUME NEW size \in Nat \ {0}, NEW ky, NEW nx \in Succ, NEW pv \in Succ
  PROVE  Table(Empty(size), size, {}, ky, nx, pv)
<1>1. Empty(size) \in [0 .. size - 1 -> Entries \cup {Nil}] /\ \A b \in 0 .. size - 1 : Empty(size)[b] = Nil
  BY DEF Empty
<1>2. W(Nil, nx) = {}
  BY WalkClosed
<1> QED
  BY <1>1, <1>2 DEF Table, TableTypes, Chains, Links, Rooted

LEMMA LiveFinite == Types => IsFiniteSet(live)
  BY EntryAssumption, FS_Subset DEF Types

(* The look-up finds the entries of the key.                               *)
LEMMA FindIsLookup ==
  ASSUME Types, Table(tab, tab_size, live, key, next, prev), NEW k \in Keys
  PROVE  /\ Find(k) = {e \in live : key[e] = k}
         /\ Chain(k) = {e \in live : At(key, e, tab_size) = Slot(k, tab_size)}
<1>1. Slot(k, tab_size) \in 0 .. tab_size - 1
  BY SlotRange DEF Types
<1>2. W(tab[Slot(k, tab_size)], next) = {e \in live : At(key, e, tab_size) = Slot(k, tab_size)}
  BY <1>1 DEF Table, Chains
<1>3. Chain(k) = W(tab[Slot(k, tab_size)], next)
  BY WalkIsW DEF Chain
<1> QED
  BY <1>2, <1>3 DEF Find, At, Slot

(* zc_hashtable_clean frees every entry.                                   *)
LEMMA CleanTakesAll ==
  ASSUME Types, Table(tab, tab_size, live, key, next, prev)
  PROVE  InTable = live
<1>1. DOMAIN tab = 0 .. tab_size - 1
  BY DEF Types
<1>2. \A b \in 0 .. tab_size - 1 : Walk(tab[b]) = {e \in live : At(key, e, tab_size) = b}
  BY WalkIsW DEF Table, Chains
<1>3. \A e \in live : At(key, e, tab_size) \in 0 .. tab_size - 1
  BY DEF Table, TableTypes
<1> QED
  BY <1>1, <1>2, <1>3 DEF InTable

----------------------------------------------------------------------------
LEMMA InitIInv == Init => IInv
<1> SUFFICES ASSUME Init PROVE IInv
  OBVIOUS
<1> USE DEF Init
<1>1. InitSize \in Nat \ {0} /\ Empty(InitSize) \in [0 .. InitSize - 1 -> Entries \cup {Nil}]
  BY HashAssumption DEF Empty
<1>2. Types
  BY <1>1 DEF Types, Succ, Empty
<1>3. Table(tab, tab_size, live, key, next, prev)
  BY <1>1, <1>2, EmptyTable DEF Types
<1>4. Counts
  BY <1>1, FS_EmptySet DEF Counts
<1> QED
  BY <1>2, <1>3, <1>4 DEF IInv, KeysApart, Between, Growing

----------------------------------------------------------------------------
(* A put of a key that is there changes values only.                       *)
LEMMA ReplaceStep ==
  ASSUME IInv, NEW k \in Keys, NEW v \in Values, Replace(k, v)
  PROVE  IInv'
<1> USE DEF IInv
<1>1. /\ UNCHANGED <<tab, tab_size, nelem, live, key, prev, next, pc, new, i, p, arg>>
      /\ owned' = owned /\ pc = "idle"
  BY DEF Replace, local, Counts
<1>2. value' \in [Entries -> Values \cup {Nil}]
  BY DEF Replace, Types
<1>3. Types' /\ KeysApart' /\ Counts'
  BY <1>1, <1>2 DEF Types, KeysApart, Counts, Crowded
<1>4. Between' /\ Growing'
  BY <1>1 DEF Between, Growing
<1> QED
  BY <1>3, <1>4

(* A new entry, with a key that has none, is put at the head of its chain. *)
LEMMA InsertStep ==
  ASSUME IInv, NEW e \in Entries, NEW k \in Keys, NEW v \in Values, InsertAt(e, k, v),
         pc # "rehash", pc' = "idle", arg' = NoArg,
         \A x \in live : key[x] # k, ~Crowded, owned' = owned + 1
  PROVE  IInv'
<1> DEFINE j == Slot(k, tab_size)
<1> USE DEF IInv
<1>1. Table(tab, tab_size, live, key, next, prev)
  BY DEF Between
<1>2. /\ tab_size \in Nat \ {0} /\ tab \in [0 .. tab_size - 1 -> Entries \cup {Nil}]
      /\ e \notin live /\ live \subseteq Entries /\ j \in 0 .. tab_size - 1
      /\ key \in [Entries -> Keys \cup {Nil}] /\ UNCHANGED <<tab_size, new, i, p>>
  BY SlotRange DEF InsertAt, Types, local
<1>3. PutAtHead(tab, tab_size, live, key, next, prev, e, j, tab', key', next', prev')
  BY <1>2 DEF PutAtHead, InsertAt, At, Slot
<1>4. Table(tab', tab_size, live', key', next', prev')
  <2>1. Table(tab', tab_size, live \cup {e}, key', next', prev')
    BY <1>1, <1>3, PutKeepsTable
  <2> QED
    BY <2>1 DEF InsertAt
<1>5. Types'
  <2>1. /\ tab' \in [0 .. tab_size - 1 -> Entries \cup {Nil}] /\ next' \in Succ /\ prev' \in Succ
        /\ live' \subseteq Entries
    BY <1>4 DEF Table, TableTypes
  <2>2. /\ key' \in [Entries -> Keys \cup {Nil}] /\ value' \in [Entries -> Values \cup {Nil}]
        /\ \A x \in live' : key'[x] \in Keys
    BY <1>2 DEF InsertAt, Types
  <2> QED
    BY <1>2, <2>1, <2>2 DEF Types
<1>6. KeysApart'
  BY <1>2 DEF KeysApart, InsertAt
<1>7. Counts'
  <2>1. IsFiniteSet(live)
    BY LiveFinite
  <2>2. Cardinality(live') = Cardinality(live) + 1
    BY <1>2, <2>1, FS_AddElement DEF InsertAt
  <2>3. nelem' = nelem + 1 /\ tab_size' = tab_size /\ nelem \in Nat /\ nelem = Cardinality(live) /\ owned = nelem
    BY <1>2 DEF InsertAt, Counts
  <2>4. nelem' \in Nat /\ 10 * (nelem' - 1) <= 13 * tab_size'
    BY <1>2, <2>3 DEF Crowded
  <2> QED
    BY <2>2, <2>3, <2>4 DEF Counts
<1> QED
  BY <1>2, <1>4, <1>5, <1>6, <1>7 DEF Between, Growing

(* A crowded table: the loop starts with nothing moved.                    *)
LEMMA GrowStep ==
  ASSUME IInv, NEW k \in Keys, NEW v \in Values, Grow(k, v)
  PROVE  IInv'
<1> USE DEF IInv
<1>1. /\ pc = "idle" /\ pc' = "rehash" /\ arg' = [key |-> k, value |-> v]
      /\ new' = Empty(2 * tab_size) /\ i' = 0 /\ p' = tab[0]
      /\ UNCHANGED <<tab, tab_size, nelem, live, key, value, prev, next, owned>>
  BY DEF Grow, entry
<1>2. /\ Table(tab, tab_size, live, key, next, prev) /\ Find(k) = {}
      /\ tab_size \in Nat \ {0} /\ 2 * tab_size \in Nat \ {0} /\ 0 \in 0 .. tab_size - 1
      /\ prev \in Succ /\ next \in Succ /\ Nil \notin Entries
      /\ tab \in [0 .. tab_size - 1 -> Entries \cup {Nil}]
  BY <1>1, EntryAssumption DEF Between, Types, Grow
<1>3. Types'
  <2>1. tab[0] \in Entries \cup {Nil}
    BY <1>2
  <2>2. Empty(2 * tab_size) \in [DOMAIN Empty(2 * tab_size) -> Entries \cup {Nil}]
    BY DEF Empty
  <2> QED
    BY <1>1, <1>2, <2>1, <2>2 DEF Types
<1>4. KeysApart'
  <2>1. \A x \in live : key[x] # k
    BY <1>2, FindIsLookup
  <2> QED
    BY <1>1, <2>1 DEF KeysApart
<1>5. Counts'
  BY <1>1 DEF Counts
<1>6. /\ \A b \in 0 .. tab_size - 1 : W(tab[b], next) = {e \in live : At(key, e, tab_size) = b}
      /\ \A e \in live : At(key, e, tab_size) \in 0 .. tab_size - 1
      /\ \A b \in 0 .. tab_size - 1 : tab[b] # Nil => prev[tab[b]] = Nil
      /\ \A x \in live : next[x] # Nil => prev[next[x]] = x
  BY <1>2 DEF Table, TableTypes, Chains, Links, Rooted
<1>7. Passed' = {}
  BY <1>1, <1>2, <1>6 DEF Passed
<1>8. Table(new', 2 * tab_size, Passed', key, next, prev)
  BY <1>1, <1>2, <1>7, EmptyTable
<1>9. Growing'
  <2>1. W(tab[0], next) = {e \in live : At(key, e, tab_size) = 0} /\ (tab[0] # Nil => prev[tab[0]] = Nil)
    BY <1>2, <1>6
  <2>2. W(tab[0], next) \subseteq Entries
    BY DEF W
  <2>3. \A j \in 0 + 1 .. tab_size - 1 : j \in 0 .. tab_size - 1
    BY <1>2
  <2> QED
    BY <1>1, <1>2, <1>6, <1>8, <2>1, <2>2, <2>3 DEF Growing
<1> QED
  BY <1>1, <1>3, <1>4, <1>5, <1>9 DEF Between

(* The walk from p loses p, which goes to the head of a new chain; the     *)
(* chains the loop has not reached do not have p.                          *)
LEMMA MoveStep ==
  ASSUME IInv, RehashMove
  PROVE  IInv'
<1> DEFINE j    == Slot(key[p], 2 * tab_size)
           Rest == live \ Passed
<1> USE DEF IInv
<1>1. /\ pc = "rehash" /\ p # Nil /\ p' = next[p]
      /\ next' = [next EXCEPT ![p] = new[j]] /\ new' = [new EXCEPT ![j] = p]
      /\ prev' = [x \in Entries |-> IF x = p THEN Nil ELSE IF x = new[j] THEN p ELSE prev[x]]
      /\ UNCHANGED <<tab, tab_size, nelem, live, key, value, owned, pc, i, arg>>
  BY DEF RehashMove
<1>2. /\ tab_size \in Nat \ {0} /\ 2 * tab_size \in Nat \ {0} /\ i \in 0 .. tab_size - 1
      /\ prev \in Succ /\ next \in Succ /\ Nil \notin Entries /\ p \in Entries
      /\ tab \in [0 .. tab_size - 1 -> Entries \cup {Nil}] /\ live \subseteq Entries
      /\ \A e \in live : key[e] \in Keys /\ At(key, e, tab_size) \in 0 .. tab_size - 1
  BY <1>1, EntryAssumption, SlotRange DEF Types, At, Slot
<1>3. /\ Table(new, 2 * tab_size, Passed, key, next, prev)
      /\ \A x \in W(p, next) : x \in live /\ At(key, x, tab_size) = i
      /\ \A b \in i + 1 .. tab_size - 1 :
           /\ W(tab[b], next) = {e \in live : At(key, e, tab_size) = b}
           /\ tab[b] # Nil => prev[tab[b]] = Nil
      /\ \A x \in Rest : next[x] # Nil => prev[next[x]] = x
      /\ prev[p] \notin W(p, next)
  BY <1>1 DEF Growing
<1>4. p \in W(p, next) /\ Closed(W(p, next), next) /\ next[p] \in Entries \cup {Nil}
  BY <1>2, WalkClosed DEF Succ
<1>5. /\ \A x : x \in Rest <=> x \in W(p, next) \/ (x \in live /\ At(key, x, tab_size) > i)
      /\ p \in live /\ p \in Rest /\ At(key, p, tab_size) = i
  BY <1>2, <1>3, <1>4 DEF Passed
<1>6. Table(new', 2 * tab_size, Passed \cup {p}, key, next', prev')
  <2>1. j \in 0 .. 2 * tab_size - 1
    BY <1>2, <1>5, SlotRange
  <2>2. PutAtHead(new, 2 * tab_size, Passed, key, next, prev, p, j, new', key, next', prev')
    BY <1>1, <1>2, <1>5, <2>1 DEF PutAtHead, At, Slot
  <2> QED
    BY <1>3, <2>2, PutKeepsTable
<1>7. /\ next' \in Succ /\ prev' \in Succ /\ Passed \cup {p} \subseteq live
      /\ new' \in [0 .. 2 * tab_size - 1 -> Entries \cup {Nil}]
  BY <1>5, <1>6 DEF Table, TableTypes, Passed
<1>8. Types'
  <2>1. DOMAIN new' = 0 .. 2 * tab_size - 1
    BY <1>7
  <2> QED
    BY <1>1, <1>4, <1>7, <2>1 DEF Types
<1>9. KeysApart' /\ Counts'
  BY <1>1 DEF KeysApart, Counts, Crowded
<1>10. W(p, next) = {p} \cup W(next[p], next) /\ p \notin W(next[p], next)
  <2>1. W(p, next) = {p} \cup W(next[p], next)
    BY <1>2, WalkStep
  <2>2. \A x \in W(p, next) : next[x] # p
    <3> SUFFICES ASSUME NEW x \in W(p, next), next[x] = p PROVE FALSE
      OBVIOUS
    <3>1. x \in Rest
      BY <1>5
    <3>2. prev[p] = x
      BY <1>1, <1>3, <3>1
    <3> QED
      BY <1>3, <3>2
  <2>3. p \notin W(next[p], next)
    BY <1>2, <2>2, WalkBeyond
  <2> QED
    BY <2>1, <2>3
<1>11. \A x \in Entries \ {p} : next'[x] = next[x]
  BY <1>1, <1>2 DEF Succ
<1>12. W(p', next') = W(next[p], next)
  <2>1. \A x \in W(next[p], next) : next'[x] = next[x]
    BY <1>2, <1>3, <1>10, <1>11
  <2>2. W(next[p], next') = W(next[p], next)
    BY <1>2, <1>4, <1>7, <2>1, WalkSame
  <2> QED
    BY <1>1, <2>2
<1>13. Passed' = Passed \cup {p}
  <2>1. Passed' = {e \in live : \/ At(key, e, tab_size) < i
                                \/ At(key, e, tab_size) = i /\ e \notin W(next[p], next)}
    BY <1>1, <1>12 DEF Passed
  <2> QED
    BY <1>2, <1>3, <1>5, <1>10, <2>1 DEF Passed
<1>14. \A x \in Rest : next[x] # Nil => next[x] \in Rest
  <2> SUFFICES ASSUME NEW x \in Rest, next[x] # Nil PROVE next[x] \in Rest
    OBVIOUS
  <2>1. CASE x \in W(p, next)
    BY <1>4, <1>5, <2>1 DEF Closed
  <2>2. CASE x \in live /\ At(key, x, tab_size) > i
    <3> DEFINE b == At(key, x, tab_size)
    <3>1. b \in i + 1 .. tab_size - 1 /\ b \in 0 .. tab_size - 1
      BY <1>2, <2>2
    <3>2. tab[b] \in Entries \cup {Nil} /\ x \in W(tab[b], next)
      BY <1>2, <1>3, <2>2, <3>1
    <3>3. next[x] \in W(tab[b], next)
      BY <1>2, <3>2, WalkClosed DEF Closed
    <3>4. next[x] \in live /\ At(key, next[x], tab_size) = b
      BY <1>3, <3>1, <3>3
    <3> QED
      BY <1>5, <2>2, <3>4
  <2> QED
    BY <1>5, <2>1, <2>2
<1>15. \A x \in Rest \ {p} : prev'[x] = prev[x]
  <2>1. new[j] # Nil => new[j] \in Passed
    <3>1. j \in 0 .. 2 * tab_size - 1
      BY <1>2, <1>5, SlotRange
    <3> QED
      BY <1>3, <3>1, TableFacts
  <2> QED
    BY <1>1, <1>2, <2>1
<1>16. ASSUME NEW b \in i + 1 .. tab_size - 1
       PROVE  /\ W(tab[b], next') = {e \in live : At(key, e, tab_size) = b}
              /\ tab[b] # Nil => prev'[tab[b]] = Nil
  <2>1. tab[b] \in Entries \cup {Nil} /\ W(tab[b], next) = {e \in live : At(key, e, tab_size) = b}
    BY <1>2, <1>3
  <2>2. \A x \in W(tab[b], next) : x \in Rest /\ x # p /\ next'[x] = next[x]
    BY <1>2, <1>5, <1>11, <2>1
  <2>3. W(tab[b], next') = W(tab[b], next)
    BY <1>2, <1>7, <2>1, <2>2, WalkSame
  <2>4. tab[b] # Nil => tab[b] \in W(tab[b], next)
    BY <1>2, <2>1, WalkClosed
  <2> QED
    BY <1>3, <1>15, <2>1, <2>2, <2>3, <2>4
<1>17. ASSUME NEW x \in live \ Passed', next'[x] # Nil PROVE prev'[next'[x]] = x
  <2>1. x \in Rest /\ x # p /\ next'[x] = next[x] /\ next[x] \in Rest /\ prev[next[x]] = x
    BY <1>2, <1>3, <1>11, <1>13, <1>14, <1>17
  <2>2. next[x] # p
    <3> SUFFICES ASSUME next[x] = p PROVE FALSE
      OBVIOUS
    <3>1. x \notin W(p, next)
      BY <1>3, <2>1
    <3>2. x \in live /\ At(key, x, tab_size) > i
      BY <1>5, <2>1, <3>1
    <3> DEFINE b == At(key, x, tab_size)
    <3>3. b \in i + 1 .. tab_size - 1 /\ b \in 0 .. tab_size - 1
      BY <1>2, <3>2
    <3>4. tab[b] \in Entries \cup {Nil} /\ x \in W(tab[b], next)
      BY <1>2, <1>3, <3>2, <3>3
    <3>5. p \in W(tab[b], next)
      BY <1>1, <1>2, <3>4, WalkClosed DEF Closed
    <3> QED
      BY <1>2, <1>3, <1>5, <3>3, <3>5
  <2> QED
    BY <1>15, <2>1, <2>2
<1>18. p' # Nil => prev'[p'] \notin W(p', next')
  <2> SUFFICES ASSUME p' # Nil PROVE prev'[p'] \notin W(p', next')
    OBVIOUS
  <2>1. p' = next[p] /\ p' \in Rest /\ prev[p'] = p /\ p' # p
    <3>1. p' = next[p] /\ p' \in Rest /\ prev[p'] = p
      BY <1>1, <1>3, <1>5, <1>14
    <3>2. p' \in W(next[p], next)
      BY <1>2, <1>4, <3>1, WalkClosed
    <3> QED
      BY <1>10, <3>1, <3>2
  <2>2. prev'[p'] = p
    BY <1>15, <2>1
  <2> QED
    BY <1>10, <1>12, <2>2
<1>19. \A x \in W(p', next') : x \in live /\ At(key, x, tab_size) = i
  BY <1>3, <1>10, <1>12
<1>20. Growing'
  <2>1. Table(new', 2 * tab_size', Passed', key', next', prev')
    BY <1>1, <1>6, <1>13
  <2>2. \A x \in W(p', next') : x \in live' /\ At(key', x, tab_size') = i'
    BY <1>1, <1>19
  <2>3. \A b \in i' + 1 .. tab_size' - 1 :
          /\ W(tab'[b], next') = {e \in live' : At(key', e, tab_size') = b}
          /\ tab'[b] # Nil => prev'[tab'[b]] = Nil
    BY <1>1, <1>16
  <2>4. \A x \in live' \ Passed' : next'[x] # Nil => prev'[next'[x]] = x
    BY <1>1, <1>17
  <2> QED
    BY <1>18, <2>1, <2>2, <2>3, <2>4 DEF Growing
<1> QED
  BY <1>1, <1>8, <1>9, <1>20 DEF Between

(* The loop goes to the next chain, nothing of which is passed.            *)
LEMMA ChainStep ==
  ASSUME IInv, RehashChain
  PROVE  IInv'
<1> USE DEF IInv
<1>1. /\ pc = "rehash" /\ p = Nil /\ i + 1 < tab_size /\ i' = i + 1 /\ p' = tab[i + 1]
      /\ UNCHANGED <<tab, tab_size, nelem, live, key, value, prev, next, owned, pc, new, arg>>
  BY DEF RehashChain, entry
<1>2. /\ tab_size \in Nat \ {0} /\ i \in 0 .. tab_size - 1
      /\ i + 1 \in 0 .. tab_size - 1 /\ i + 1 \in i + 1 .. tab_size - 1
      /\ next \in Succ /\ Nil \notin Entries /\ tab \in [0 .. tab_size - 1 -> Entries \cup {Nil}]
      /\ \A e \in live : At(key, e, tab_size) \in 0 .. tab_size - 1
  BY <1>1, EntryAssumption, SlotRange DEF Types, At, Slot
<1>3. /\ Table(new, 2 * tab_size, Passed, key, next, prev)
      /\ \A b \in i + 1 .. tab_size - 1 :
           /\ W(tab[b], next) = {e \in live : At(key, e, tab_size) = b}
           /\ tab[b] # Nil => prev[tab[b]] = Nil
      /\ \A x \in live \ Passed : next[x] # Nil => prev[next[x]] = x
  BY <1>1 DEF Growing
<1>4. Types' /\ KeysApart' /\ Counts'
  <2>1. tab[i + 1] \in Entries \cup {Nil}
    BY <1>2
  <2> QED
    BY <1>1, <1>2, <2>1 DEF Types, KeysApart, Counts, Crowded
<1>5. Passed' = Passed
  <2>1. W(p, next) = {}
    BY <1>1, <1>2, WalkClosed
  <2>2. W(tab[i + 1], next) = {e \in live : At(key, e, tab_size) = i + 1}
    BY <1>2, <1>3
  <2>3. Passed' = {e \in live : \/ At(key, e, tab_size) < i + 1
                                \/ At(key, e, tab_size) = i + 1 /\ e \notin W(tab[i + 1], next)}
    BY <1>1 DEF Passed
  <2> QED
    BY <1>2, <2>1, <2>2, <2>3 DEF Passed
<1>6. Growing'
  <2>1. Table(new', 2 * tab_size', Passed', key', next', prev')
    BY <1>1, <1>3, <1>5
  <2>2. \A x \in W(p', next') : x \in live' /\ At(key', x, tab_size') = i'
    BY <1>1, <1>2, <1>3
  <2>3. \A b \in i' + 1 .. tab_size' - 1 :
          /\ W(tab'[b], next') = {e \in live' : At(key', e, tab_size') = b}
          /\ tab'[b] # Nil => prev'[tab'[b]] = Nil
    BY <1>1, <1>2, <1>3
  <2>4. \A x \in live' \ Passed' : next'[x] # Nil => prev'[next'[x]] = x
    BY <1>1, <1>3, <1>5
  <2>5. p' # Nil => prev'[p'] \notin W(p', next')
    <3>1. W(p', next') \subseteq Entries
      BY DEF W
    <3> QED
      BY <1>1, <1>2, <1>3, <3>1
  <2> QED
    BY <2>1, <2>2, <2>3, <2>4, <2>5 DEF Growing
<1> QED
  BY <1>1, <1>4, <1>6 DEF Between

(* After the last chain the new table has every entry.                     *)
LEMMA EndStep ==
  ASSUME IInv, RehashEnd
  PROVE  IInv'
<1> USE DEF IInv
<1>1. /\ pc = "rehash" /\ p = Nil /\ i + 1 = tab_size /\ pc' = "insert"
      /\ tab' = new /\ tab_size' = 2 * tab_size /\ new' = Empty(InitSize) /\ i' = 0 /\ p' = Nil
      /\ UNCHANGED <<nelem, live, key, value, prev, next, owned, arg>>
  BY DEF RehashEnd, entry
<1>2. /\ tab_size \in Nat \ {0} /\ i \in 0 .. tab_size - 1 /\ next \in Succ
      /\ \A e \in live : At(key, e, tab_size) \in 0 .. tab_size - 1
  BY <1>1, SlotRange DEF Types, At, Slot
<1>3. Passed = live
  <2>1. W(p, next) = {}
    BY <1>1, <1>2, WalkClosed
  <2> QED
    BY <1>1, <1>2, <2>1 DEF Passed
<1>4. Table(new, 2 * tab_size, live, key, next, prev)
  BY <1>1, <1>3 DEF Growing
<1>5. Types'
  <2>1. new \in [0 .. 2 * tab_size - 1 -> Entries \cup {Nil}] /\ 2 * tab_size \in Nat \ {0}
    BY <1>4 DEF Table, TableTypes
  <2>2. Empty(InitSize) \in [DOMAIN Empty(InitSize) -> Entries \cup {Nil}]
    BY DEF Empty
  <2> QED
    BY <1>1, <2>1, <2>2 DEF Types
<1>6. KeysApart'
  BY <1>1 DEF KeysApart
<1>7. Counts'
  <2>1. nelem \in Nat /\ 10 * (nelem - 1) <= 13 * tab_size
    BY DEF Counts
  <2>2. 10 * nelem <= 13 * (2 * tab_size)
    BY <1>2, <2>1
  <2>3. 10 * (nelem - 1) <= 13 * (2 * tab_size) /\ ~(10 * nelem > 13 * (2 * tab_size))
    BY <1>2, <2>1, <2>2
  <2> QED
    BY <1>1, <2>3 DEF Counts, Crowded
<1> QED
  BY <1>1, <1>4, <1>5, <1>6, <1>7 DEF Between, Growing

LEMMA FailsStep ==
  ASSUME IInv, InsertFails
  PROVE  IInv'
<1> USE DEF IInv
<1>1. /\ pc = "insert" /\ pc' = "idle" /\ arg' = NoArg
      /\ UNCHANGED <<tab, tab_size, nelem, live, key, value, prev, next, owned, new, i, p>>
  BY DEF InsertFails, entry, local
<1>2. Types' /\ KeysApart' /\ Counts'
  BY <1>1 DEF Types, KeysApart, Counts, Crowded
<1> QED
  BY <1>1, <1>2 DEF Between, Growing

(* A name that is removed: its entry is unlinked and freed.                *)
LEMMA RemoveStep ==
  ASSUME IInv, NEW k \in Keys, Remove(k)
  PROVE  IInv'
<1> USE DEF IInv
<1>1. /\ pc = "idle" /\ nelem' = nelem - 1 /\ owned' = owned - 1
      /\ UNCHANGED <<tab_size, pc, new, i, p, arg>>
      /\ Table(tab, tab_size, live, key, next, prev)
  BY DEF Remove, local, Between
<1>2. PICK e \in Find(k) :
        /\ next' = [x \in Entries |-> IF x = e THEN Nil ELSE IF x = prev[e] THEN next[e] ELSE next[x]]
        /\ prev' = [x \in Entries |-> IF x = e THEN Nil ELSE IF x = next[e] THEN prev[e] ELSE prev[x]]
        /\ Forget({e})
        /\ tab' = IF prev[e] = Nil THEN [tab EXCEPT ![Slot(k, tab_size)] = next[e]] ELSE tab
  BY DEF Remove
<1>3. e \in live /\ key[e] = k /\ live \subseteq Entries
  BY <1>1, FindIsLookup DEF Types
<1>4. /\ live' = live \ {e}
      /\ key' = [x \in Entries |-> IF x \in {e} THEN Nil ELSE key[x]]
      /\ value' = [x \in Entries |-> IF x \in {e} THEN Nil ELSE value[x]]
  BY <1>2 DEF Forget
<1>5. Table(tab', tab_size, live', key', next', prev')
  <2> DEFINE j == Slot(k, tab_size)
  <2>1. \A x \in live \ {e} : key'[x] = key[x]
    BY <1>3, <1>4
  <2>2. TakenOut(tab, tab_size, live, key, next, prev, e, j, tab', key', next', prev')
    BY <1>2, <1>3, <2>1 DEF TakenOut, At, Slot
  <2> QED
    BY <1>1, <1>4, <2>2, RemoveKeepsTable
<1>6. Types'
  <2>1. /\ tab' \in [0 .. tab_size - 1 -> Entries \cup {Nil}] /\ next' \in Succ /\ prev' \in Succ
        /\ live' \subseteq Entries
    BY <1>5 DEF Table, TableTypes
  <2>2. /\ key' \in [Entries -> Keys \cup {Nil}] /\ value' \in [Entries -> Values \cup {Nil}]
        /\ \A x \in live' : key'[x] \in Keys
    BY <1>3, <1>4 DEF Types
  <2> QED
    BY <1>1, <2>1, <2>2 DEF Types
<1>7. KeysApart'
  BY <1>1, <1>3, <1>4 DEF KeysApart
<1>8. Counts'
  <2>1. Cardinality(live') = Cardinality(live) - 1 /\ Cardinality(live') \in Nat
    <3>1. IsFiniteSet(live)
      BY LiveFinite
    <3>2. IsFiniteSet(live') /\ Cardinality(live') = Cardinality(live) - 1
      BY <1>3, <1>4, <3>1, FS_RemoveElement
    <3> QED
      BY <3>2, FS_CardinalityType
  <2>2. nelem \in Nat /\ nelem = Cardinality(live) /\ owned = nelem /\ 10 * (nelem - 1) <= 13 * tab_size
    BY DEF Counts
  <2>3. 10 * (nelem' - 1) <= 13 * tab_size'
    <3>1. tab_size \in Nat
      BY DEF Types
    <3> QED
      BY <1>1, <2>2, <3>1
  <2>4. nelem' = Cardinality(live') /\ nelem' \in Nat /\ owned' = nelem'
    BY <1>1, <2>1, <2>2
  <2> QED
    BY <1>1, <2>3, <2>4 DEF Counts
<1> QED
  BY <1>1, <1>5, <1>6, <1>7, <1>8 DEF Between, Growing

LEMMA CleanStep ==
  ASSUME IInv, zc_hashtable_clean
  PROVE  IInv'
<1> USE DEF IInv
<1>1. /\ pc = "idle" /\ Table(tab, tab_size, live, key, next, prev)
      /\ tab' = Empty(tab_size) /\ nelem' = 0 /\ owned' = owned - Cardinality(InTable)
      /\ UNCHANGED <<tab_size, pc, new, i, p, arg>>
  BY DEF zc_hashtable_clean, local, Between
<1>2. InTable = live
  BY <1>1, CleanTakesAll
<1>3. /\ live' = {}
      /\ key' = [e \in Entries |-> IF e \in live THEN Nil ELSE key[e]]
      /\ value' = [e \in Entries |-> IF e \in live THEN Nil ELSE value[e]]
      /\ prev' = [e \in Entries |-> IF e \in live THEN Nil ELSE prev[e]]
      /\ next' = [e \in Entries |-> IF e \in live THEN Nil ELSE next[e]]
  BY <1>2 DEF zc_hashtable_clean, Forget
<1>4. /\ prev' \in Succ /\ next' \in Succ
      /\ key' \in [Entries -> Keys \cup {Nil}] /\ value' \in [Entries -> Values \cup {Nil}]
  BY <1>3 DEF Types, Succ
<1>5. tab_size \in Nat \ {0} /\ Empty(tab_size) \in [0 .. tab_size - 1 -> Entries \cup {Nil}]
  BY DEF Types, Empty
<1>6. Types' /\ KeysApart'
  BY <1>1, <1>3, <1>4, <1>5 DEF Types, KeysApart
<1>7. Counts'
  <2>1. owned' = 0
    <3>1. owned = Cardinality(live) /\ Cardinality(live) \in Nat
      BY DEF Counts
    <3> QED
      BY <1>1, <1>2, <3>1
  <2>2. Cardinality(live') = 0
    BY <1>3, FS_EmptySet
  <2>3. 10 * (0 - 1) <= 13 * tab_size
    BY <1>5
  <2> QED
    BY <1>1, <2>1, <2>2, <2>3 DEF Counts
<1>8. Table(tab', tab_size, live', key', next', prev')
  BY <1>1, <1>3, <1>4, <1>5, EmptyTable
<1> QED
  BY <1>1, <1>6, <1>7, <1>8 DEF Between, Growing

----------------------------------------------------------------------------
LEMMA NextIInv == IInv /\ [Next]_vars => IInv'
<1> SUFFICES ASSUME IInv, [Next]_vars PROVE IInv'
  OBVIOUS
<1>1. ASSUME NEW k \in Keys, NEW v \in Values, Replace(k, v) PROVE IInv'
  BY <1>1, ReplaceStep
<1>2. ASSUME NEW k \in Keys, NEW v \in Values, Insert(k, v) PROVE IInv'
  <2>1. pc = "idle" /\ Find(k) = {} /\ ~Crowded /\ owned' = owned + 1 /\ UNCHANGED <<pc, arg>>
    BY <1>2 DEF Insert
  <2>2. PICK e \in Entries : InsertAt(e, k, v)
    BY <1>2 DEF Insert
  <2>3. \A x \in live : key[x] # k
    BY <2>1, FindIsLookup DEF IInv, Between
  <2>4. pc # "rehash" /\ pc' = "idle" /\ arg' = NoArg
    BY <2>1 DEF IInv, Types
  <2> QED
    BY <2>1, <2>2, <2>3, <2>4, InsertStep
<1>3. ASSUME NEW k \in Keys, NEW v \in Values, Grow(k, v) PROVE IInv'
  BY <1>3, GrowStep
<1>4. CASE RehashMove
  BY <1>4, MoveStep
<1>5. CASE RehashChain
  BY <1>5, ChainStep
<1>6. CASE RehashEnd
  BY <1>6, EndStep
<1>7. CASE InsertGrown
  <2>1. pc = "insert" /\ pc' = "idle" /\ arg' = NoArg /\ owned' = owned + 1
    BY <1>7 DEF InsertGrown
  <2>2. PICK e \in Entries : InsertAt(e, arg.key, arg.value)
    BY <1>7 DEF InsertGrown
  <2>3. arg.key \in Keys /\ arg.value \in Values /\ \A x \in live : key[x] # arg.key
    BY <2>1 DEF IInv, Types, KeysApart
  <2>4. ~Crowded /\ pc # "rehash"
    BY <2>1 DEF IInv, Counts
  <2> QED
    BY <2>1, <2>2, <2>3, <2>4, InsertStep
<1>8. CASE InsertFails
  BY <1>8, FailsStep
<1>9. CASE zc_hashtable_clean
  BY <1>9, CleanStep
<1>10. ASSUME NEW k \in Keys, Remove(k) PROVE IInv'
  BY <1>10, RemoveStep
<1>11. CASE UNCHANGED vars
  <2>1. UNCHANGED <<tab, tab_size, nelem, live, key, value, prev, next, owned, pc, new, i, p, arg>>
    BY <1>11 DEF vars, entry, local
  <2> QED
    BY <2>1 DEF IInv, Types, KeysApart, Counts, Crowded, Between, Growing, Passed
<1> QED
  BY <1>1, <1>2, <1>3, <1>4, <1>5, <1>6, <1>7, <1>8, <1>9, <1>10, <1>11 DEF Next, zc_hashtable_put

LEMMA IInvHolds == Spec => []IInv
  BY InitIInv, NextIInv, PTL DEF Spec

(* Every variable stays within its type.                                   *)
THEOREM TableTypeCorrect == Spec => []TypeOK
<1>1. IInv => TypeOK
  <2> SUFFICES ASSUME IInv PROVE TypeOK
    OBVIOUS
  <2>1. i \in Nat
    BY DEF IInv, Types
  <2>2. nelem \in Nat /\ owned \in Nat
    BY DEF IInv, Counts
  <2> QED
    BY <2>1, <2>2 DEF IInv, Types, TypeOK, Succ
<1> QED
  BY <1>1, IInvHolds, PTL

(* zc_hashtable_get finds what was put, and one entry of a key, however    *)
(* often the table was doubled in between.                                 *)
THEOREM TableLookupFindsStored == Spec => []LookupFindsStored
<1>1. IInv => LookupFindsStored
  <2> SUFFICES ASSUME IInv, pc = "idle", NEW k \in Keys
               PROVE  Find(k) = {e \in live : key[e] = k} /\ Cardinality(Find(k)) <= 1
    BY DEF LookupFindsStored
  <2>1. Find(k) = {e \in live : key[e] = k}
    BY FindIsLookup DEF IInv, Between
  <2>2. CASE Find(k) = {}
    BY <2>1, <2>2, FS_EmptySet
  <2>3. CASE Find(k) # {}
    <3>1. PICK e : e \in Find(k)
      BY <2>3
    <3>2. Find(k) = {e}
      BY <2>1, <3>1 DEF IInv, KeysApart
    <3>3. Cardinality({e}) = 1
      BY FS_Singleton
    <3> QED
      BY <2>1, <3>2, <3>3
  <2> QED
    BY <2>2, <2>3
<1> QED
  BY <1>1, IInvHolds, PTL

(* The two links of an entry agree: what zc_hashtable_remove trusts.       *)
THEOREM TableLinksAgree == Spec => []LinksAgree
<1>1. IInv => LinksAgree
  <2> SUFFICES ASSUME IInv, pc = "idle", NEW e \in live
               PROVE  /\ IF prev[e] = Nil THEN tab[Slot(key[e], tab_size)] = e
                                          ELSE prev[e] \in live /\ next[prev[e]] = e
                      /\ next[e] # Nil => next[e] \in live /\ prev[next[e]] = e
    BY DEF LinksAgree
  <2>1. Table(tab, tab_size, live, key, next, prev)
    BY DEF IInv, Between
  <2>2. next[e] # Nil => next[e] \in live
    BY <2>1, TableFacts
  <2>3. Links(tab, tab_size, live, key, next, prev)
    BY <2>1 DEF Table
  <2> QED
    BY <2>2, <2>3 DEF Links, At, Slot
<1> QED
  BY <1>1, IInvHolds, PTL

(* nelem and the values the table owns count its entries, and a table is   *)
(* never more than one entry beyond crowded.                               *)
THEOREM TableCountsMatch == Spec => []CountsMatch
<1>1. IInv => CountsMatch
  BY DEF IInv, Counts, CountsMatch
<1> QED
  BY <1>1, IInvHolds, PTL

----------------------------------------------------------------------------
(* What the entries L make each name stand for; Stored is that of live.    *)
StoredOf(L, ky, vl) == [k \in Keys |-> IF \E e \in L : ky[e] = k
                                       THEN vl[CHOOSE e \in L : ky[e] = k] ELSE Nil]

LEMMA StoredFacts ==
  ASSUME NEW L, NEW ky, NEW vl, \A x, y \in L : ky[x] = ky[y] => x = y, NEW k \in Keys
  PROVE  /\ \A e \in L : ky[e] = k => StoredOf(L, ky, vl)[k] = vl[e]
         /\ (\A e \in L : ky[e] # k) => StoredOf(L, ky, vl)[k] = Nil
<1>1. ASSUME NEW e \in L, ky[e] = k PROVE StoredOf(L, ky, vl)[k] = vl[e]
  <2> DEFINE c == CHOOSE x \in L : ky[x] = k
  <2>1. c \in L /\ ky[c] = k
    BY <1>1
  <2>2. c = e
    BY <1>1, <2>1
  <2>3. StoredOf(L, ky, vl)[k] = vl[c]
    BY <1>1 DEF StoredOf
  <2> QED
    BY <2>2, <2>3
<1>2. ASSUME \A e \in L : ky[e] # k PROVE StoredOf(L, ky, vl)[k] = Nil
  BY <1>2 DEF StoredOf
<1> QED
  BY <1>1, <1>2

LEMMA StoredIs ==
  /\ Stored = StoredOf(live, key, value)
  /\ Stored' = StoredOf(live', key', value')
  BY DEF Stored, StoredOf

(* One name changes: the entries of the other names and their values stay. *)
OneChanged(L, ky, vl, L2, ky2, vl2, k, v) ==
  /\ \A x, y \in L : ky[x] = ky[y] => x = y
  /\ \A x, y \in L2 : ky2[x] = ky2[y] => x = y
  /\ \A x : x \in L /\ ky[x] # k <=> x \in L2 /\ ky2[x] # k
  /\ \A x \in L : ky[x] # k => ky2[x] = ky[x] /\ vl2[x] = vl[x]
  /\ \/ \E e \in L2 : ky2[e] = k /\ vl2[e] = v
     \/ v = Nil /\ \A e \in L2 : ky2[e] # k

ChangesAt(f, g, k, v) == g = [f EXCEPT ![k] = v]

LEMMA StoredSet ==
  ASSUME NEW L, NEW ky, NEW vl, NEW L2, NEW ky2, NEW vl2, NEW k \in Keys, NEW v,
         OneChanged(L, ky, vl, L2, ky2, vl2, k, v)
  PROVE  ChangesAt(StoredOf(L, ky, vl), StoredOf(L2, ky2, vl2), k, v)
<1> USE DEF OneChanged
<1>1. StoredOf(L2, ky2, vl2)[k] = v
  BY StoredFacts
<1>2. ASSUME NEW l \in Keys, l # k PROVE StoredOf(L2, ky2, vl2)[l] = StoredOf(L, ky, vl)[l]
  <2>1. CASE \E e \in L : ky[e] = l
    <3>1. PICK e \in L : ky[e] = l
      BY <2>1
    <3>2. e \in L2 /\ ky2[e] = l /\ vl2[e] = vl[e]
      BY <1>2, <3>1
    <3> QED
      BY <3>1, <3>2, StoredFacts
  <2>2. CASE \A e \in L : ky[e] # l
    <3>1. \A e \in L2 : ky2[e] # l
      BY <1>2, <2>2
    <3> QED
      BY <2>2, <3>1, StoredFacts
  <2> QED
    BY <2>1, <2>2
<1>3. /\ StoredOf(L2, ky2, vl2) = [l \in Keys |-> StoredOf(L2, ky2, vl2)[l]]
      /\ StoredOf(L, ky, vl) = [l \in Keys |-> StoredOf(L, ky, vl)[l]]
  BY DEF StoredOf
<1> QED
  BY <1>1, <1>2, <1>3 DEF ChangesAt

(* The names other than k, when an entry of k is put.                      *)
LEMMA InsertSets ==
  ASSUME IInv, IInv', NEW e \in Entries, NEW k \in Keys, NEW v \in Values, InsertAt(e, k, v),
         \A x \in live : key[x] # k
  PROVE  Stored' = [Stored EXCEPT ![k] = v]
<1>1. /\ \A x, y \in live : key[x] = key[y] => x = y
      /\ \A x, y \in live' : key'[x] = key'[y] => x = y
  BY DEF IInv, KeysApart
<1>2. /\ live' = live \cup {e} /\ e \notin live /\ live \subseteq Entries
      /\ key' = [key EXCEPT ![e] = k] /\ value' = [value EXCEPT ![e] = v]
      /\ key \in [Entries -> Keys \cup {Nil}] /\ value \in [Entries -> Values \cup {Nil}]
  BY DEF InsertAt, IInv, Types
<1>3. e \in live' /\ key'[e] = k /\ value'[e] = v
  BY <1>2
<1>4. /\ \A x : x \in live /\ key[x] # k <=> x \in live' /\ key'[x] # k
      /\ \A x \in live : key[x] # k => key'[x] = key[x] /\ value'[x] = value[x]
  BY <1>2
<1>5. ChangesAt(StoredOf(live, key, value), StoredOf(live', key', value'), k, v)
  <2>1. OneChanged(live, key, value, live', key', value', k, v)
    BY <1>1, <1>3, <1>4 DEF OneChanged
  <2> QED
    BY <2>1, StoredSet
<1> QED
  BY <1>5, StoredIs DEF ChangesAt

LEMMA ReplaceSets ==
  ASSUME IInv, NEW k \in Keys, NEW v \in Values, Replace(k, v)
  PROVE  Stored' = [Stored EXCEPT ![k] = v]
<1>1. /\ \A x, y \in live : key[x] = key[y] => x = y
      /\ value \in [Entries -> Values \cup {Nil}] /\ live \subseteq Entries
      /\ live' = live /\ key' = key /\ pc = "idle"
  BY DEF IInv, KeysApart, Types, Replace
<1>2. PICK e \in Find(k) : value' = [value EXCEPT ![e] = v]
  BY DEF Replace
<1>3. e \in live /\ key[e] = k
  BY <1>1, FindIsLookup DEF IInv, Between
<1>4. value'[e] = v /\ \A x \in live : key[x] # k => value'[x] = value[x]
  BY <1>1, <1>2, <1>3
<1>5. ChangesAt(StoredOf(live, key, value), StoredOf(live', key', value'), k, v)
  <2>1. OneChanged(live, key, value, live', key', value', k, v)
    BY <1>1, <1>3, <1>4 DEF OneChanged
  <2> QED
    BY <2>1, StoredSet
<1> QED
  BY <1>5, StoredIs DEF ChangesAt

LEMMA RemoveSets ==
  ASSUME IInv, IInv', NEW k \in Keys, Remove(k)
  PROVE  Stored' = [Stored EXCEPT ![k] = Nil]
<1>1. /\ \A x, y \in live : key[x] = key[y] => x = y
      /\ \A x, y \in live' : key'[x] = key'[y] => x = y
      /\ live \subseteq Entries /\ pc = "idle"
  BY DEF IInv, KeysApart, Types, Remove
<1>2. PICK e \in Find(k) : Forget({e})
  BY DEF Remove
<1>3. e \in live /\ key[e] = k
  BY <1>1, FindIsLookup DEF IInv, Between
<1>4. /\ live' = live \ {e}
      /\ key' = [x \in Entries |-> IF x \in {e} THEN Nil ELSE key[x]]
      /\ value' = [x \in Entries |-> IF x \in {e} THEN Nil ELSE value[x]]
  BY <1>2 DEF Forget
<1>5. /\ \A x \in live' : key'[x] = key[x] /\ value'[x] = value[x] /\ key[x] # k
      /\ \A x \in live : key[x] # k => x \in live'
  BY <1>1, <1>3, <1>4
<1>6. /\ \A x : x \in live /\ key[x] # k <=> x \in live' /\ key'[x] # k
      /\ \A x \in live : key[x] # k => key'[x] = key[x] /\ value'[x] = value[x]
      /\ \A x \in live' : key'[x] # k
  BY <1>4, <1>5
<1>7. ChangesAt(StoredOf(live, key, value), StoredOf(live', key', value'), k, Nil)
  <2>1. OneChanged(live, key, value, live', key', value', k, Nil)
    BY <1>1, <1>6 DEF OneChanged
  <2> QED
    BY <2>1, StoredSet
<1> QED
  BY <1>7, StoredIs DEF ChangesAt

LEMMA NoneStored == \A ky, vl : StoredOf({}, ky, vl) = [k \in Keys |-> Nil]
  BY DEF StoredOf

LEMMA MapStep ==
  ASSUME IInv, IInv', [Next]_vars
  PROVE  [Map!MapNext]_(Map!mapVars)
<1> USE DEF Map!MapNext, Map!NoCall, NoArg
<1>0. /\ pc = "idle" => arg = NoArg
      /\ pc # "idle" => arg # NoArg /\ arg.key \in Keys /\ arg.value \in Values
  BY EntryAssumption DEF IInv, Types
<1>1. ASSUME NEW k \in Keys, NEW v \in Values, Replace(k, v) PROVE Map!Put(k, v)
  <2>1. arg = NoArg /\ arg' = arg
    BY <1>0, <1>1 DEF Replace
  <2> QED
    BY <1>1, <2>1, ReplaceSets DEF Map!Put, Map!Set
<1>2. ASSUME NEW k \in Keys, NEW v \in Values, Insert(k, v) PROVE Map!Put(k, v)
  <2>1. pc = "idle" /\ arg = NoArg /\ arg' = arg /\ Find(k) = {}
    BY <1>0, <1>2 DEF Insert
  <2>2. PICK e \in Entries : InsertAt(e, k, v)
    BY <1>2 DEF Insert
  <2>3. \A x \in live : key[x] # k
    BY <2>1, FindIsLookup DEF IInv, Between
  <2> QED
    BY <2>1, <2>2, <2>3, InsertSets DEF Map!Put, Map!Set
<1>3. ASSUME NEW k \in Keys, NEW v \in Values, Grow(k, v) PROVE Map!Call(k, v)
  <2>1. arg = NoArg /\ arg' = [key |-> k, value |-> v] /\ UNCHANGED <<live, key, value>>
    BY <1>0, <1>3 DEF Grow, entry
  <2> QED
    BY <2>1, StoredIs DEF Map!Call
<1>4. CASE RehashMove \/ RehashChain \/ RehashEnd
  <2>1. UNCHANGED <<live, key, value, arg>>
    BY <1>4 DEF RehashMove, RehashChain, RehashEnd, entry
  <2> QED
    BY <2>1, StoredIs DEF Map!mapVars
<1>5. CASE InsertGrown
  <2>1. pc = "insert" /\ arg' = NoArg
    BY <1>5 DEF InsertGrown
  <2>2. PICK e \in Entries : InsertAt(e, arg.key, arg.value)
    BY <1>5 DEF InsertGrown
  <2>3. \A x \in live : key[x] # arg.key
    BY <2>1 DEF IInv, KeysApart
  <2>4. Stored' = [Stored EXCEPT ![arg.key] = arg.value]
    BY <1>0, <2>1, <2>2, <2>3, InsertSets
  <2>5. Map!Effect
    BY <1>0, <2>1, <2>4 DEF Map!Effect, Map!Set
  <2> QED
    BY <2>5
<1>6. CASE InsertFails
  <2>1. arg # NoArg /\ arg' = NoArg /\ UNCHANGED <<live, key, value>>
    BY <1>0, <1>6 DEF InsertFails, entry
  <2>2. Map!Fail
    BY <2>1, StoredIs DEF Map!Fail
  <2> QED
    BY <2>2
<1>7. CASE zc_hashtable_clean
  <2>1. pc = "idle" /\ arg' = arg /\ live' = live \ InTable
    BY <1>7 DEF zc_hashtable_clean, Forget
  <2>2. live' = {}
    BY <2>1, CleanTakesAll DEF IInv, Between
  <2>3. Stored' = [k \in Keys |-> Nil]
    BY <2>2, StoredIs, NoneStored
  <2>4. Map!Clean
    BY <1>0, <2>1, <2>3 DEF Map!Clean
  <2> QED
    BY <2>4
<1>8. ASSUME NEW k \in Keys, Remove(k) PROVE Map!Remove(k)
  <2>1. arg = NoArg /\ arg' = arg
    BY <1>0, <1>8 DEF Remove
  <2> QED
    BY <1>8, <2>1, RemoveSets DEF Map!Remove, Map!Set
<1>9. CASE UNCHANGED vars
  <2>1. UNCHANGED <<live, key, value, arg>>
    BY <1>9 DEF vars, entry
  <2> QED
    BY <2>1, StoredIs DEF Map!mapVars
<1> QED
  BY <1>1, <1>2, <1>3, <1>4, <1>5, <1>6, <1>7, <1>8, <1>9 DEF Next, zc_hashtable_put

(* The pointer table is the map of names that NameMap promises: a put that *)
(* grows it takes effect in one step, at its end, or not at all.           *)
THEOREM TableImplementsMap == Spec => ImplementsMap
<1>1. Init => Map!MapInit
  <2> SUFFICES ASSUME Init PROVE Map!MapInit
    OBVIOUS
  <2>1. Stored = [k \in Keys |-> Nil]
    BY StoredIs, NoneStored DEF Init
  <2> QED
    BY <2>1 DEF Init, Map!MapInit, Map!NoCall, NoArg
<1>2. IInv /\ IInv' /\ [Next]_vars => [Map!MapNext]_(Map!mapVars)
  BY MapStep
<1> QED
  BY <1>1, <1>2, IInvHolds, PTL DEF Spec, ImplementsMap, Map!MapSpec

----------------------------------------------------------------------------
(* zc_hashtable_foreach. An iteration of g from h on, where g enters each  *)
(* of its finitely many members from at most one other and h from none.    *)
Orbit(M, g, h) ==
  /\ IsFiniteSet(M) /\ Nil \notin M /\ h \in M \cup {Nil} /\ g \in [M -> M \cup {Nil}]
  /\ \A x, y \in M : g[x] = g[y] /\ g[x] # Nil => x = y
  /\ \A x \in M : g[x] = h => h = Nil
  /\ \A S \in SUBSET M : (h # Nil => h \in S) /\ Closed(S, g) => S = M

Iterates(at, N, g, h) ==
  /\ DOMAIN at = 0 .. N /\ at[0] = h
  /\ \A k \in 0 .. N - 1 : at[k + 1] = IF at[k] = Nil THEN Nil ELSE g[at[k]]

(* The recursive function of an iteration exists.                          *)
LEMMA IterationExists ==
  ASSUME NEW M, NEW g, NEW h, Orbit(M, g, h), NEW N \in Nat
  PROVE  \E at \in [0 .. N -> M \cup {Nil}] : Iterates(at, N, g, h)
<1> DEFINE T == {n \in Nat : \E at \in [0 .. n -> M \cup {Nil}] : Iterates(at, n, g, h)}
<1>1. 0 \in T
  <2> DEFINE at == [k \in 0 .. 0 |-> h]
  <2>1. at \in [0 .. 0 -> M \cup {Nil}] /\ Iterates(at, 0, g, h)
    BY DEF Iterates, Orbit
  <2> QED
    BY <2>1
<1>2. ASSUME NEW n \in Nat, n \in T PROVE n + 1 \in T
  <2>1. PICK at \in [0 .. n -> M \cup {Nil}] : Iterates(at, n, g, h)
    BY <1>2
  <2> DEFINE v == IF at[n] = Nil THEN Nil ELSE g[at[n]]
             at2 == [k \in 0 .. (n + 1) |-> IF k = n + 1 THEN v ELSE at[k]]
  <2>2. v \in M \cup {Nil}
    <3>1. at[n] \in M \cup {Nil}
      BY <2>1
    <3> QED
      BY <3>1 DEF Orbit
  <2>3. at2[n + 1] = v /\ \A k \in 0 .. n : at2[k] = at[k]
    OBVIOUS
  <2> HIDE DEF v
  <2>4. at2 \in [0 .. (n + 1) -> M \cup {Nil}]
    BY <2>1, <2>2
  <2>5. DOMAIN at2 = 0 .. (n + 1) /\ at2[0] = h
    BY <2>1 DEF Iterates
  <2> HIDE DEF at2
  <2>6. ASSUME NEW k \in 0 .. (n + 1) - 1
        PROVE  at2[k + 1] = IF at2[k] = Nil THEN Nil ELSE g[at2[k]]
    <3>1. CASE k = n
      BY <2>3, <3>1 DEF v
    <3>2. CASE k # n
      <4>1. k \in 0 .. n - 1 /\ k \in 0 .. n /\ k + 1 \in 0 .. n
        BY <3>2
      <4>2. at[k + 1] = IF at[k] = Nil THEN Nil ELSE g[at[k]]
        BY <2>1, <4>1 DEF Iterates
      <4>3. at2[k] = at[k] /\ at2[k + 1] = at[k + 1]
        BY <2>3, <4>1
      <4> QED
        BY <4>2, <4>3
    <3> QED
      BY <3>1, <3>2
  <2>7. Iterates(at2, n + 1, g, h)
    BY <2>5, <2>6 DEF Iterates
  <2> QED
    BY <2>4, <2>7
<1> HIDE DEF T
<1>3. N \in T
  BY <1>1, <1>2, NatSetInduction
<1> QED
  BY <1>3 DEF T

(* It meets every member once, and then stops.                             *)
LEMMA IterationVisits ==
  ASSUME NEW M, NEW g, NEW h, Orbit(M, g, h), NEW N \in Nat, Cardinality(M) <= N,
         NEW at, Iterates(at, N, g, h)
  PROVE  /\ \A e \in M : Cardinality({k \in 0 .. N : at[k] = e}) = 1
         /\ at[Cardinality(M)] = Nil
<1> DEFINE n == Cardinality(M)
<1>1. n \in Nat /\ n <= N
  BY FS_CardinalityType DEF Orbit
<1>2. ASSUME NEW k \in Nat, k + 1 \in 0 .. N
      PROVE  k \in 0 .. N /\ at[k + 1] = IF at[k] = Nil THEN Nil ELSE g[at[k]]
  <2>1. k \in 0 .. N - 1 /\ k \in 0 .. N
    BY <1>2
  <2> QED
    BY <2>1 DEF Iterates
<1>3. ASSUME NEW k \in 0 .. N PROVE at[k] \in M \cup {Nil}
  <2> DEFINE T == {m \in Nat : m \in 0 .. N => at[m] \in M \cup {Nil}}
  <2>1. 0 \in T
    BY DEF Iterates, Orbit
  <2>2. ASSUME NEW m \in Nat, m \in T PROVE m + 1 \in T
    <3> SUFFICES ASSUME m + 1 \in 0 .. N PROVE at[m + 1] \in M \cup {Nil}
      OBVIOUS
    <3>1. at[m] \in M \cup {Nil} /\ at[m + 1] = IF at[m] = Nil THEN Nil ELSE g[at[m]]
      BY <1>2, <2>2
    <3> QED
      BY <3>1 DEF Orbit
  <2> HIDE DEF T
  <2>3. k \in T
    BY <2>1, <2>2, NatSetInduction
  <2> QED
    BY <2>3 DEF T
<1>4. ASSUME NEW j \in 0 .. N, at[j] = Nil PROVE \A k \in j .. N : at[k] = Nil
  <2> DEFINE T == {m \in Nat : m \in j .. N => at[m] = Nil}
  <2>1. 0 \in T
    BY <1>4
  <2>2. ASSUME NEW m \in Nat, m \in T PROVE m + 1 \in T
    <3> SUFFICES ASSUME m + 1 \in j .. N PROVE at[m + 1] = Nil
      OBVIOUS
    <3>1. CASE m + 1 = j
      BY <1>4, <3>1
    <3>2. CASE m + 1 # j
      <4>1. m \in j .. N /\ m + 1 \in 0 .. N
        BY <3>2
      <4> QED
        BY <1>2, <2>2, <4>1
    <3> QED
      BY <3>1, <3>2
  <2> HIDE DEF T
  <2>3. ASSUME NEW k \in j .. N PROVE at[k] = Nil
    <3>1. k \in T
      BY <2>1, <2>2, NatSetInduction
    <3> QED
      BY <3>1 DEF T
  <2> QED
    BY <2>3
<1>5. ASSUME NEW a \in 0 .. N, NEW b \in 0 .. N, at[a] = at[b], at[a] # Nil PROVE a = b
  <2> DEFINE T == {m \in Nat : \A k \in 0 .. N :
                     m \in 0 .. N /\ at[m] = at[k] /\ at[m] # Nil => m = k}
  <2>0. ASSUME NEW k \in 0 .. N, at[k] = h, h # Nil PROVE k = 0
    <3> SUFFICES ASSUME k # 0 PROVE FALSE
      OBVIOUS
    <3>1. k - 1 \in Nat /\ (k - 1) + 1 = k
      OBVIOUS
    <3>2. k - 1 \in 0 .. N /\ at[k] = IF at[k - 1] = Nil THEN Nil ELSE g[at[k - 1]]
      BY <1>2, <3>1
    <3>3. at[k - 1] \in M /\ g[at[k - 1]] = h
      BY <1>3, <2>0, <3>2
    <3> QED
      BY <2>0, <3>3 DEF Orbit
  <2>1. 0 \in T
    BY <2>0 DEF Iterates
  <2>2. ASSUME NEW m \in Nat, m \in T PROVE m + 1 \in T
    <3> SUFFICES ASSUME NEW k \in 0 .. N, m + 1 \in 0 .. N, at[m + 1] = at[k], at[m + 1] # Nil
                 PROVE  m + 1 = k
      OBVIOUS
    <3>1. k # 0
      BY <2>0 DEF Iterates
    <3>2. k - 1 \in Nat /\ (k - 1) + 1 = k
      BY <3>1
    <3>3. k - 1 \in 0 .. N /\ at[k] = IF at[k - 1] = Nil THEN Nil ELSE g[at[k - 1]]
      BY <1>2, <3>2
    <3>4. m \in 0 .. N /\ at[m + 1] = IF at[m] = Nil THEN Nil ELSE g[at[m]]
      BY <1>2
    <3>5. at[m] # Nil /\ at[k - 1] # Nil /\ g[at[m]] = g[at[k - 1]] /\ g[at[m]] # Nil
      BY <3>3, <3>4
    <3>6. at[m] \in M /\ at[k - 1] \in M
      BY <1>3, <3>3, <3>4, <3>5
    <3>7. at[m] = at[k - 1]
      BY <3>5, <3>6 DEF Orbit
    <3>8. m = k - 1
      BY <2>2, <3>3, <3>4, <3>5, <3>7
    <3> QED
      BY <3>2, <3>8
  <2> HIDE DEF T
  <2>3. a \in T
    BY <2>1, <2>2, NatSetInduction
  <2> QED
    BY <1>5, <2>3 DEF T
<1>6. at[n] = Nil
  <2> SUFFICES ASSUME at[n] # Nil PROVE FALSE
    OBVIOUS
  <2>1. ASSUME NEW k \in 0 .. n PROVE k \in 0 .. N /\ at[k] # Nil /\ at[k] \in M
    <3>1. k \in 0 .. N /\ n \in k .. N
      BY <1>1
    <3>2. at[k] # Nil
      BY <1>4, <3>1
    <3> QED
      BY <1>3, <3>1, <3>2
  <2> DEFINE f == [k \in 0 .. n |-> at[k]]
  <2>2. f \in [0 .. n -> M] /\ \A k \in 0 .. n : f[k] = at[k]
    BY <2>1
  <2>3. IsFiniteSet(0 .. n) /\ Cardinality(0 .. n) = n + 1
    BY <1>1, FS_Interval
  <2> HIDE DEF f, n
  <2>4. Cardinality(M) < Cardinality(0 .. n) /\ IsFiniteSet(M)
    BY <1>1, <2>3 DEF n, Orbit
  <2>5. \E x, y \in 0 .. n : x # y /\ f[x] = f[y]
    <3> DEFINE A == 0 .. n
    <3>1. IsFiniteSet(A) /\ IsFiniteSet(M) /\ Cardinality(M) < Cardinality(A) /\ f \in [A -> M]
      BY <2>2, <2>3, <2>4
    <3> HIDE DEF A
    <3>2. \E x, y \in A : x # y /\ f[x] = f[y]
      BY <3>1, FS_PigeonHole
    <3> QED
      BY <3>2 DEF A
  <2> QED
    BY <1>5, <2>1, <2>2, <2>5
<1>7. ASSUME NEW e \in M PROVE \E k \in 0 .. N : at[k] = e
  <2> DEFINE V == {x \in M : \E k \in 0 .. N : at[k] = x}
  <2>1. h # Nil => h \in V
    <3>1. 0 \in 0 .. N /\ at[0] = h
      BY DEF Iterates
    <3> QED
      BY <3>1 DEF Orbit
  <2>2. ASSUME NEW x \in V, g[x] # Nil PROVE g[x] \in V
    <3>1. PICK k \in 0 .. N : at[k] = x
      OBVIOUS
    <3>2. x # Nil /\ g[x] \in M
      BY <2>2 DEF Orbit
    <3>3. k < n
      <4>1. n \in 0 .. N
        BY <1>1
      <4>2. ASSUME k >= n PROVE FALSE
        BY <1>1, <1>4, <1>6, <3>1, <3>2, <4>1, <4>2
      <4> QED
        BY <1>1, <4>2
    <3>4. k \in Nat /\ k + 1 \in 0 .. N
      BY <1>1, <3>3
    <3>5. at[k + 1] = g[x]
      BY <1>2, <3>1, <3>2, <3>4
    <3> QED
      BY <3>2, <3>4, <3>5
  <2>3. V \in SUBSET M /\ Closed(V, g)
    BY <2>2 DEF Closed
  <2> HIDE DEF V
  <2>4. V = M
    BY <2>1, <2>3 DEF Orbit
  <2> QED
    BY <2>4 DEF V
<1>8. ASSUME NEW e \in M PROVE Cardinality({k \in 0 .. N : at[k] = e}) = 1
  <2>1. PICK k \in 0 .. N : at[k] = e
    BY <1>7
  <2>2. e # Nil
    BY DEF Orbit
  <2>3. {j \in 0 .. N : at[j] = e} = {k}
    BY <1>5, <2>1, <2>2
  <2>4. Cardinality({k}) = 1
    BY FS_Singleton
  <2> QED
    BY <2>3, <2>4
<1> QED
  BY <1>6, <1>8

(* A chain ends, at one entry.                                             *)
LEMMA LastUnique ==
  ASSUME NEW nx \in Succ, NEW h \in Entries, NEW x \in W(h, nx), NEW y \in W(h, nx),
         nx[x] = Nil, nx[y] = Nil
  PROVE  x = y
<1> DEFINE S == {z \in W(h, nx) : x \in W(z, nx)}
<1>1. W(h, nx) \in SUBSET Entries /\ Closed(W(h, nx), nx) /\ h \in W(h, nx)
  BY EntryAssumption, WalkClosed
<1>2. ASSUME NEW z \in S, nx[z] # Nil PROVE nx[z] \in S
  <2>1. z \in Entries /\ nx[z] \in Entries /\ nx[z] \in W(h, nx)
    BY <1>1, <1>2 DEF Closed, Succ
  <2>2. x \in {z} \cup W(nx[z], nx) /\ z # x
    BY <1>2, <2>1, WalkStep
  <2> QED
    BY <2>1, <2>2
<1>3. S \in SUBSET Entries /\ h \in S /\ Closed(S, nx)
  BY <1>1, <1>2 DEF Closed
<1> HIDE DEF S
<1>4. y \in S
  BY <1>3, WalkLeast
<1>5. y \in Entries /\ x \in W(y, nx)
  BY <1>1, <1>4 DEF S
<1>6. W(y, nx) = {y} \cup W(Nil, nx) /\ W(Nil, nx) = {}
  BY <1>5, WalkStep, WalkClosed
<1> QED
  BY <1>5, <1>6

LEMMA LastExists ==
  ASSUME NEW nx \in Succ, NEW h \in Entries,
         \A x \in W(h, nx) : nx[x] # h,
         \A x, y \in W(h, nx) : nx[x] = nx[y] /\ nx[x] # Nil => x = y
  PROVE  \E x \in W(h, nx) : nx[x] = Nil
<1> SUFFICES ASSUME \A x \in W(h, nx) : nx[x] # Nil PROVE FALSE
  OBVIOUS
<1> DEFINE S == W(h, nx)
           f == [x \in S |-> nx[x]]
<1>1. S \in SUBSET Entries /\ Closed(S, nx) /\ h \in S
  BY EntryAssumption, WalkClosed
<1>2. IsFiniteSet(S) /\ IsFiniteSet(S \ {h})
      /\ Cardinality(S \ {h}) = Cardinality(S) - 1 /\ Cardinality(S) \in Nat
  BY <1>1, EntryAssumption, FS_Subset, FS_RemoveElement, FS_CardinalityType
<1>3. f \in [S -> S \ {h}] /\ \A x \in S : f[x] = nx[x]
  BY <1>1 DEF Closed
<1>4. \A x, y \in S : f[x] = f[y] => x = y
  BY <1>3
<1> HIDE DEF f, S
<1>5. Cardinality(S \ {h}) < Cardinality(S)
  BY <1>2
<1> DEFINE R == S \ {h}
<1>6. f \in [S -> R] /\ IsFiniteSet(R) /\ Cardinality(R) < Cardinality(S)
  BY <1>2, <1>3, <1>5
<1> HIDE DEF R
<1>7. \E x, y \in S : x # y /\ f[x] = f[y]
  BY <1>2, <1>6, FS_PigeonHole
<1> QED
  BY <1>4, <1>7

(* The head of the first chain from b on.                                  *)
LEMMA FirstFromFacts ==
  ASSUME IInv, pc = "idle", NEW b \in Nat
  PROVE  \/ /\ FirstFrom(b) = Nil
            /\ \A c \in 0 .. tab_size - 1 : c >= b => tab[c] = Nil
         \/ \E c \in 0 .. tab_size - 1 :
              /\ c >= b /\ FirstFrom(b) = tab[c] /\ tab[c] # Nil
              /\ tab[c] \in live /\ At(key, tab[c], tab_size) = c /\ prev[tab[c]] = Nil
              /\ \A d \in 0 .. tab_size - 1 : d >= b /\ tab[d] # Nil => c <= d
<1> DEFINE heads == {c \in DOMAIN tab : c >= b /\ tab[c] # Nil}
<1>1. DOMAIN tab = 0 .. tab_size - 1 /\ tab_size \in Nat \ {0}
  BY DEF IInv, Types
<1>2. Table(tab, tab_size, live, key, next, prev)
  BY DEF IInv, Between
<1>3. CASE heads = {}
  BY <1>1, <1>3 DEF FirstFrom
<1>4. CASE heads # {}
  <2> DEFINE c == CHOOSE c \in heads : \A d \in heads : c <= d
  <2>1. heads \in SUBSET Nat
    BY <1>1
  <2> HIDE DEF heads
  <2>2. \E x \in heads : \A d \in heads : x <= d
    BY <1>4, <2>1, LeastOfSet
  <2>3. c \in heads /\ \A d \in heads : c <= d
    BY <2>2
  <2>4. FirstFrom(b) = tab[c]
    BY <1>4 DEF FirstFrom, heads
  <2> HIDE DEF c
  <2>5. c \in 0 .. tab_size - 1 /\ c >= b /\ tab[c] # Nil
    BY <1>1, <2>3 DEF heads
  <2>6. tab[c] \in live /\ At(key, tab[c], tab_size) = c
    BY <1>2, <2>5, TableFacts
  <2>7. prev[tab[c]] = Nil
    BY <1>2, <2>5 DEF Table, Rooted
  <2>8. \A d \in 0 .. tab_size - 1 : d >= b /\ tab[d] # Nil => c <= d
    BY <1>1, <2>3 DEF heads
  <2> QED
    BY <2>4, <2>5, <2>6, <2>7, <2>8
<1> QED
  BY <1>3, <1>4

(* An entry and its chain.                                                 *)
LEMMA EntryFacts ==
  ASSUME IInv, pc = "idle", NEW e \in live
  PROVE  LET b == Slot(key[e], tab_size) IN
         /\ b = At(key, e, tab_size) /\ b \in 0 .. tab_size - 1 /\ b + 1 \in Nat
         /\ e \in Entries /\ e # Nil /\ next \in Succ /\ tab_size \in Nat \ {0}
         /\ tab[b] \in Entries /\ tab[b] # Nil
         /\ W(tab[b], next) = {x \in live : At(key, x, tab_size) = b}
         /\ e \in W(tab[b], next)
         /\ next[e] # Nil => next[e] \in live /\ prev[next[e]] = e
<1> DEFINE b == Slot(key[e], tab_size)
<1>1. Table(tab, tab_size, live, key, next, prev) /\ tab_size \in Nat \ {0}
      /\ e \in Entries /\ key[e] \in Keys /\ next \in Succ
      /\ tab \in [0 .. tab_size - 1 -> Entries \cup {Nil}]
  BY DEF IInv, Between, Types
<1>2. b = At(key, e, tab_size) /\ b \in 0 .. tab_size - 1
  BY <1>1, SlotRange DEF At, Slot
<1>3. e # Nil
  BY <1>1, EntryAssumption
<1> HIDE DEF b
<1>4. W(tab[b], next) = {x \in live : At(key, x, tab_size) = b}
  BY <1>1, <1>2 DEF Table, Chains
<1>5. e \in W(tab[b], next)
  BY <1>2, <1>4
<1>6. tab[b] # Nil
  BY <1>1, <1>5, WalkClosed
<1>7. next[e] # Nil => next[e] \in live /\ prev[next[e]] = e
  BY <1>1, TableFacts DEF Table, Links
<1> QED
  BY <1>1, <1>2, <1>3, <1>4, <1>5, <1>6, <1>7 DEF b

(* No two entries come before one, none before the first.                  *)
LEMMA ForeachApart ==
  ASSUME IInv, pc = "idle"
  PROVE  /\ \A x, y \in live : /\ zc_hashtable_next(x) = zc_hashtable_next(y)
                               /\ zc_hashtable_next(x) # Nil
                               => x = y
         /\ \A x \in live : zc_hashtable_next(x) = zc_hashtable_begin
                              => zc_hashtable_begin = Nil
         /\ \A x \in live : zc_hashtable_next(x) \in live \cup {Nil}
         /\ zc_hashtable_begin \in live \cup {Nil}
<1>0. 0 \in Nat
  OBVIOUS
<1>1. zc_hashtable_begin \in live \cup {Nil}
  BY <1>0, FirstFromFacts DEF zc_hashtable_begin
<1>2. ASSUME NEW x \in live PROVE zc_hashtable_next(x) \in live \cup {Nil}
  <2>1. Slot(key[x], tab_size) + 1 \in Nat
    BY EntryFacts
  <2>2. FirstFrom(Slot(key[x], tab_size) + 1) \in live \cup {Nil}
    BY <2>1, FirstFromFacts
  <2> QED
    BY <2>2, EntryFacts DEF zc_hashtable_next
<1>3. ASSUME NEW x \in live, next[x] # Nil, NEW b \in Nat, FirstFrom(b) = next[x] PROVE FALSE
  <2>1. prev[next[x]] = x /\ x # Nil
    BY <1>3, EntryFacts
  <2> QED
    BY <1>3, <2>1, FirstFromFacts
<1>4. ASSUME NEW x \in live, NEW b \in Nat, b <= Slot(key[x], tab_size),
             FirstFrom(b) = FirstFrom(Slot(key[x], tab_size) + 1)
      PROVE  FirstFrom(b) = Nil
  <2> SUFFICES ASSUME FirstFrom(b) # Nil PROVE FALSE
    OBVIOUS
  <2> DEFINE s == Slot(key[x], tab_size)
  <2>1. s \in 0 .. tab_size - 1 /\ tab[s] # Nil /\ s + 1 \in Nat /\ tab_size \in Nat
    BY EntryFacts
  <2> HIDE DEF s
  <2>2. PICK c \in 0 .. tab_size - 1 :
          /\ FirstFrom(b) = tab[c] /\ At(key, tab[c], tab_size) = c
          /\ \A d \in 0 .. tab_size - 1 : d >= b /\ tab[d] # Nil => c <= d
    BY FirstFromFacts
  <2>3. PICK c2 \in 0 .. tab_size - 1 :
          /\ c2 >= s + 1 /\ FirstFrom(s + 1) = tab[c2] /\ At(key, tab[c2], tab_size) = c2
    BY <1>4, <2>1, FirstFromFacts DEF s
  <2>4. c <= s
    BY <1>4, <2>1, <2>2 DEF s
  <2>5. c = c2
    BY <1>4, <2>2, <2>3 DEF s
  <2> QED
    BY <2>1, <2>3, <2>4, <2>5
<1>5. ASSUME NEW x \in live, zc_hashtable_next(x) = zc_hashtable_begin
      PROVE  zc_hashtable_begin = Nil
  <2>1. 0 <= Slot(key[x], tab_size)
    BY EntryFacts
  <2> QED
    BY <1>0, <1>3, <1>4, <1>5, <2>1 DEF zc_hashtable_begin, zc_hashtable_next
<1>6. ASSUME NEW x \in live, NEW y \in live, zc_hashtable_next(x) = zc_hashtable_next(y),
             zc_hashtable_next(x) # Nil
      PROVE  x = y
  <2>1. /\ Slot(key[x], tab_size) \in Nat /\ Slot(key[x], tab_size) + 1 \in Nat
        /\ Slot(key[y], tab_size) \in Nat /\ Slot(key[y], tab_size) + 1 \in Nat
    BY EntryFacts
  <2>2. CASE next[x] # Nil /\ next[y] # Nil
    BY <1>6, <2>2, EntryFacts DEF zc_hashtable_next
  <2>3. CASE next[x] # Nil /\ next[y] = Nil
    BY <1>3, <1>6, <2>1, <2>3 DEF zc_hashtable_next
  <2>4. CASE next[x] = Nil /\ next[y] # Nil
    BY <1>3, <1>6, <2>1, <2>4 DEF zc_hashtable_next
  <2>5. CASE next[x] = Nil /\ next[y] = Nil
    <3> DEFINE a == Slot(key[x], tab_size)
               b == Slot(key[y], tab_size)
    <3>1. FirstFrom(a + 1) = FirstFrom(b + 1) /\ FirstFrom(a + 1) # Nil
      BY <1>6, <2>5 DEF zc_hashtable_next
    <3>2. CASE a < b
      <4>1. a + 1 <= b /\ a + 1 \in Nat
        BY <2>1, <3>2
      <4> QED
        BY <1>4, <3>1, <4>1
    <3>3. CASE b < a
      <4>1. b + 1 <= a /\ b + 1 \in Nat
        BY <2>1, <3>3
      <4> QED
        BY <1>4, <3>1, <4>1
    <3>4. CASE a = b
      <4>1. /\ x \in W(tab[a], next) /\ y \in W(tab[b], next)
            /\ tab[a] \in Entries /\ next \in Succ
        BY EntryFacts
      <4> HIDE DEF a, b
      <4> QED
        BY <2>5, <3>4, <4>1, LastUnique
    <3> QED
      BY <2>1, <3>2, <3>3, <3>4
  <2> QED
    BY <2>2, <2>3, <2>4, <2>5
<1> QED
  BY <1>1, <1>2, <1>5, <1>6

(* Every entry comes after the first one.                                  *)
LEMMA ForeachReaches ==
  ASSUME IInv, pc = "idle", NEW S \in SUBSET live,
         zc_hashtable_begin # Nil => zc_hashtable_begin \in S,
         \A x \in S : zc_hashtable_next(x) # Nil => zc_hashtable_next(x) \in S
  PROVE  S = live
<1> SUFFICES ASSUME live \ S # {} PROVE FALSE
  OBVIOUS
<1> DEFINE T == {b \in 0 .. tab_size - 1 : \E x \in live \ S : At(key, x, tab_size) = b}
<1>1. tab_size \in Nat \ {0} /\ T \in SUBSET Nat /\ T # {}
  <2>1. PICK x \in live : x \notin S
    OBVIOUS
  <2>2. At(key, x, tab_size) \in 0 .. tab_size - 1 /\ tab_size \in Nat \ {0}
    BY EntryFacts
  <2> QED
    BY <2>1, <2>2
<1>2. PICK b \in T : \A c \in T : b <= c
  BY <1>1, LeastOfSet
<1>3. PICK x \in live \ S : At(key, x, tab_size) = b
  OBVIOUS
<1>4. b \in 0 .. tab_size - 1 /\ b \in Nat
  BY <1>1
<1>5. /\ tab[b] \in Entries /\ next \in Succ /\ tab[b] # Nil
      /\ W(tab[b], next) = {y \in live : At(key, y, tab_size) = b}
      /\ x \in W(tab[b], next)
  BY <1>3, EntryFacts
<1>6. tab[b] \notin S
  <2> SUFFICES ASSUME tab[b] \in S PROVE FALSE
    OBVIOUS
  <2>1. Closed(S, next)
    BY DEF Closed, zc_hashtable_next
  <2>2. S \in SUBSET Entries
    BY DEF IInv, Types
  <2>3. W(tab[b], next) \subseteq S
    BY <1>5, <2>1, <2>2, WalkLeast
  <2> QED
    BY <1>5, <2>3
<1>7. ASSUME NEW y \in live, At(key, y, tab_size) < b PROVE y \in S
  <2>1. At(key, y, tab_size) \in 0 .. tab_size - 1
    BY EntryFacts
  <2> QED
    BY <1>2, <1>4, <1>7, <2>1
<1> HIDE DEF T
(* The last non-empty chain before b leads to b's.                         *)
<1> DEFINE E == {c \in 0 .. b - 1 : tab[c] # Nil}
<1>8. ASSUME NEW c \in Nat, c <= b, \A d \in E : d < c
      PROVE  FirstFrom(c) = tab[b]
  <2>1. \A d \in 0 .. tab_size - 1 : d >= c /\ d < b => tab[d] = Nil
    BY <1>4, <1>8
  <2>2. PICK a \in 0 .. tab_size - 1 :
          /\ a >= c /\ FirstFrom(c) = tab[a] /\ tab[a] # Nil
          /\ \A d \in 0 .. tab_size - 1 : d >= c /\ tab[d] # Nil => a <= d
    BY <1>4, <1>5, <1>8, FirstFromFacts
  <2>3. a <= b /\ ~(a < b)
    BY <1>4, <1>5, <1>8, <2>1, <2>2
  <2>4. a = b
    BY <1>1, <1>4, <2>2, <2>3
  <2> QED
    BY <2>2, <2>4
<1>9. CASE E = {}
  <2>1. 0 \in Nat /\ 0 <= b
    BY <1>4
  <2>2. FirstFrom(0) = tab[b]
    BY <1>8, <1>9, <2>1
  <2> QED
    BY <1>5, <1>6, <2>2 DEF zc_hashtable_begin
<1>10. CASE E # {}
  <2> DEFINE B == {b - c : c \in E}
  <2>1. B \in SUBSET Nat /\ B # {}
    BY <1>4, <1>10
  <2>2. PICK m \in B : \A n \in B : m <= n
    BY <2>1, LeastOfSet
  <2>3. PICK c \in E : m = b - c
    OBVIOUS
  <2>4. c \in Nat /\ c < b /\ tab[c] # Nil /\ c \in 0 .. tab_size - 1
    BY <1>1, <1>4
  <2>5. \A d \in E : d <= c
    <3> SUFFICES ASSUME NEW d \in E PROVE d <= c
      OBVIOUS
    <3>1. b - d \in B /\ d \in Int
      OBVIOUS
    <3>2. b - c <= b - d
      BY <2>2, <2>3, <3>1
    <3> QED
      BY <1>4, <2>4, <3>1, <3>2
  <2>6. FirstFrom(c + 1) = tab[b]
    <3>1. c + 1 \in Nat /\ c + 1 <= b /\ \A d \in E : d < c + 1
      BY <1>4, <2>4, <2>5
    <3> QED
      BY <1>8, <3>1
  <2> HIDE DEF B, E
  <2>7. tab[c] \in live /\ At(key, tab[c], tab_size) = c /\ prev[tab[c]] = Nil
    BY <2>4, TableFacts DEF IInv, Between, Table, Rooted
  <2>8. tab[c] \in Entries /\ W(tab[c], next) = {y \in live : At(key, y, tab_size) = c}
    BY <2>7, EntryFacts
  <2>9. \A y \in W(tab[c], next) : next[y] # tab[c]
    <3>1. ASSUME NEW y \in live, next[y] = tab[c] PROVE FALSE
      BY <2>4, <2>7, <3>1, EntryFacts
    <3> QED
      BY <2>8, <3>1
  <2>10. \A y, z \in W(tab[c], next) : next[y] = next[z] /\ next[y] # Nil => y = z
    <3>1. ASSUME NEW y \in live, NEW z \in live, next[y] = next[z], next[y] # Nil PROVE y = z
      BY <3>1, EntryFacts
    <3> QED
      BY <2>8, <3>1
  <2>11. PICK y \in W(tab[c], next) : next[y] = Nil
    BY <1>5, <2>8, <2>9, <2>10, LastExists
  <2>12. y \in live /\ Slot(key[y], tab_size) = c
    BY <2>8, EntryFacts
  <2>13. y \in S /\ zc_hashtable_next(y) = tab[b]
    BY <1>7, <2>4, <2>6, <2>11, <2>12, EntryFacts DEF zc_hashtable_next
  <2> QED
    BY <1>5, <1>6, <2>13
<1> QED
  BY <1>9, <1>10

LEMMA ForeachOrbit ==
  ASSUME IInv, pc = "idle"
  PROVE  Orbit(live, [e \in live |-> zc_hashtable_next(e)], zc_hashtable_begin)
<1> DEFINE g == [e \in live |-> zc_hashtable_next(e)]
<1>1. IsFiniteSet(live) /\ Nil \notin live
  BY LiveFinite, EntryFacts DEF IInv
<1>2. /\ g \in [live -> live \cup {Nil}]
      /\ zc_hashtable_begin \in live \cup {Nil}
      /\ \A x, y \in live : g[x] = g[y] /\ g[x] # Nil => x = y
      /\ \A x \in live : g[x] = zc_hashtable_begin => zc_hashtable_begin = Nil
  BY ForeachApart
<1>3. ASSUME NEW S \in SUBSET live, zc_hashtable_begin # Nil => zc_hashtable_begin \in S,
             Closed(S, g)
      PROVE  S = live
  <2>1. \A x \in S : zc_hashtable_next(x) # Nil => zc_hashtable_next(x) \in S
    BY <1>3 DEF Closed
  <2> QED
    BY <1>3, <2>1, ForeachReaches
<1> HIDE DEF g
<1>4. Orbit(live, g, zc_hashtable_begin)
  BY <1>1, <1>2, <1>3 DEF Orbit
<1> QED
  BY <1>4 DEF g

(* zc_hashtable_foreach visits every entry once, and stops, in whatever    *)
(* table puts, removes and growths have left (fm_hashtable.h:57,           *)
(* fm_hashtable.c:269-304).                                                *)
THEOREM TableForeachVisitsAll == Spec => []ForeachVisitsAll
<1>1. ASSUME IInv, pc = "idle"
      PROVE  /\ \A e \in live : Cardinality({k \in DOMAIN Visited : Visited[k] = e}) = 1
             /\ Visited[Cardinality(live)] = Nil
  <2> DEFINE N == Cardinality(Entries)
             h == zc_hashtable_begin
             g == [e \in live |-> zc_hashtable_next(e)]
             Step(f) == [k \in 0 .. N |-> IF k = 0 THEN h
                           ELSE IF f[k - 1] = Nil THEN Nil ELSE zc_hashtable_next(f[k - 1])]
             at == CHOOSE f : f = [k \in 0 .. N |-> IF k = 0 THEN h
                           ELSE IF f[k - 1] = Nil THEN Nil ELSE zc_hashtable_next(f[k - 1])]
  <2>1. N \in Nat /\ Cardinality(live) <= N
    <3>1. IsFiniteSet(Entries) /\ live \in SUBSET Entries
      BY <1>1, EntryAssumption DEF IInv, Types
    <3> QED
      BY <3>1, FS_CardinalityType, FS_Subset
  <2>2. Orbit(live, g, h)
    BY <1>1, ForeachOrbit
  <2> HIDE DEF N, h
  <2>3. \E f : f = Step(f)
    <3>1. PICK f \in [0 .. N -> live \cup {Nil}] : Iterates(f, N, g, h)
      BY <2>1, <2>2, IterationExists
    <3>2. ASSUME NEW k \in 0 .. N PROVE f[k] = Step(f)[k]
      <4>1. CASE k = 0
        BY <3>1, <4>1 DEF Iterates
      <4>2. CASE k # 0
        <5>1. k - 1 \in 0 .. N - 1 /\ k - 1 \in 0 .. N /\ (k - 1) + 1 = k
          BY <2>1, <4>2
        <5>2. f[k] = IF f[k - 1] = Nil THEN Nil ELSE g[f[k - 1]]
          BY <3>1, <5>1 DEF Iterates
        <5>3. f[k - 1] \in live \cup {Nil}
          BY <3>1, <5>1
        <5> QED
          BY <4>2, <5>2, <5>3
      <4> QED
        BY <4>1, <4>2
    <3>3. f = Step(f)
      BY <3>1, <3>2
    <3> QED
      BY <3>3
  <2>4. at = Step(at)
    BY <2>3
  <2>5. Visited = at
    BY DEF Visited, N, h
  <2> HIDE DEF at
  <2>6. DOMAIN at = 0 .. N /\ at[0] = h
    BY <2>1, <2>4
  <2>7. ASSUME NEW k \in Nat, k + 1 \in 0 .. N
        PROVE  at[k + 1] = IF at[k] = Nil THEN Nil ELSE zc_hashtable_next(at[k])
    <3>1. k + 1 # 0 /\ (k + 1) - 1 = k
      OBVIOUS
    <3> QED
      BY <2>4, <2>7, <3>1
  <2>8. ASSUME NEW k \in 0 .. N PROVE at[k] \in live \cup {Nil}
    <3> DEFINE T == {m \in Nat : m \in 0 .. N => at[m] \in live \cup {Nil}}
    <3>1. 0 \in T
      BY <2>2, <2>6 DEF Orbit
    <3>2. ASSUME NEW m \in Nat, m \in T PROVE m + 1 \in T
      <4> SUFFICES ASSUME m + 1 \in 0 .. N PROVE at[m + 1] \in live \cup {Nil}
        OBVIOUS
      <4>1. at[m] \in live \cup {Nil} /\ at[m + 1] = IF at[m] = Nil THEN Nil
                                                     ELSE zc_hashtable_next(at[m])
        BY <2>1, <2>7, <3>2
      <4> QED
        BY <1>1, <4>1, ForeachApart
    <3> HIDE DEF T
    <3>3. k \in T
      BY <2>1, <3>1, <3>2, NatSetInduction
    <3> QED
      BY <3>3 DEF T
  <2>9. ASSUME NEW k \in 0 .. N - 1 PROVE at[k + 1] = IF at[k] = Nil THEN Nil ELSE g[at[k]]
    <3>1. k \in Nat /\ k \in 0 .. N /\ k + 1 \in 0 .. N
      BY <2>1
    <3> QED
      BY <2>7, <2>8, <3>1
  <2> HIDE DEF g
  <2>10. Iterates(at, N, g, h)
    BY <2>6, <2>9 DEF Iterates
  <2>11. /\ \A e \in live : Cardinality({k \in 0 .. N : at[k] = e}) = 1
         /\ at[Cardinality(live)] = Nil
    BY <2>1, <2>2, <2>10, IterationVisits
  <2> QED
    BY <2>5, <2>6, <2>11
<1>2. IInv => ForeachVisitsAll
  BY <1>1 DEF ForeachVisitsAll
<1> QED
  BY <1>2, IInvHolds, PTL
=============================================================================
