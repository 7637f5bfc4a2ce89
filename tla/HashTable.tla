----------------------------- MODULE HashTable -----------------------------
(***************************************************************************)
(* The chained hash table of src/common/fm_hashtable.c, in which a CCB     *)
(* keeps its named data, pointer by pointer. One thread uses it; a call    *)
(* is one step, except that a put which grows the table moves one entry    *)
(* per step, so that the half-built table can be looked at.                *)
(***************************************************************************)
EXTENDS Integers, FiniteSets

CONSTANTS
  Keys,       \* contents of key strings (equal contents are one key)
  Values,     \* what the names stand for
  Entries,    \* addresses fm_calloc may return for an entry
  Nil,        \* NULL
  Hash,       \* the hash of each key, before it is reduced
  InitSize    \* a_size of zc_hashtable_new

ASSUME HashAssumption  == Hash \in [Keys -> Nat] /\ InitSize \in Nat \ {0}
ASSUME EntryAssumption == Nil \notin Entries \cup Values \cup Keys /\ IsFiniteSet(Entries)

VARIABLES
  tab, tab_size, nelem,     \* the table
  live,                     \* the entries allocated
  key, value, prev, next,   \* their fields; hash_key is Hash[key]
  owned,                    \* values handed to the table less value_del calls
  pc,                       \* idle, or where a put that grows the table is
  new, i, p,                \* locals of zc_hashtable_rehash: tab, i, p
  arg                       \* the key and value being put

entry  == <<live, key, value, prev, next>>
local  == <<new, i, p>>
vars   == <<tab, tab_size, nelem, entry, owned, pc, local, arg>>

NoArg  == [key |-> Nil, value |-> Nil]
Empty(size) == [b \in 0 .. size - 1 |-> Nil]

Init ==
  /\ tab = Empty(InitSize) /\ tab_size = InitSize /\ nelem = 0
  /\ live = {}
  /\ key = [e \in Entries |-> Nil] /\ value = [e \in Entries |-> Nil]
  /\ prev = [e \in Entries |-> Nil] /\ next = [e \in Entries |-> Nil]
  /\ owned = 0
  /\ pc = "idle"
  /\ new = Empty(InitSize) /\ i = 0 /\ p = Nil
  /\ arg = NoArg

----------------------------------------------------------------------------
(* The entries a walk along next meets from h on: the least set that has h *)
(* and is closed under next.                                               *)
Walk(h) ==
  {e \in Entries : \A S \in SUBSET Entries :
     (h # Nil => h \in S) /\ (\A x \in S : next[x] # Nil => next[x] \in S) => e \in S}

Slot(k, size) == Hash[k] % size
Chain(k)      == Walk(tab[Slot(k, tab_size)])

(* The loop of zc_hashtable_get_entry, _get, _put and _remove.             *)
Find(k) == {e \in Chain(k) : key[e] = k}

(* nelem > tab_size * 1.3                                                  *)
Crowded == 10 * nelem > 13 * tab_size

(* Mutant: the old value is not deleted.                                   *)
ReplaceKeepsOld(k, v) ==
  /\ pc = "idle"
  /\ \E e \in Find(k) : value' = [value EXCEPT ![e] = v]
  /\ owned' = owned + 1
  /\ UNCHANGED <<tab, tab_size, nelem, live, key, prev, next, pc, local, arg>>

(* zc_hashtable_put of a key that is there: the old value is deleted.      *)
Replace(k, v) ==
  /\ pc = "idle"
  /\ \E e \in Find(k) : value' = [value EXCEPT ![e] = v]
  /\ owned' = owned + 1 - 1
  /\ UNCHANGED <<tab, tab_size, nelem, live, key, prev, next, pc, local, arg>>

(* A new entry goes to the head of its chain.                              *)
InsertAt(e, k, v) ==
  LET b == Slot(k, tab_size) IN
  /\ e \notin live
  /\ live' = live \cup {e}
  /\ key' = [key EXCEPT ![e] = k] /\ value' = [value EXCEPT ![e] = v]
  /\ next' = [next EXCEPT ![e] = tab[b]]
  /\ prev' = [x \in Entries |-> IF x = e THEN Nil ELSE IF x = tab[b] THEN e ELSE prev[x]]
  /\ tab' = [tab EXCEPT ![b] = e]
  /\ nelem' = nelem + 1
  /\ UNCHANGED <<tab_size, local>>

Insert(k, v) ==
  /\ pc = "idle" /\ Find(k) = {} /\ ~Crowded
  /\ \E e \in Entries : InsertAt(e, k, v)
  /\ owned' = owned + 1
  /\ UNCHANGED <<pc, arg>>

(* Or, in a crowded table, the table is doubled first.                     *)
Grow(k, v) ==
  /\ pc = "idle" /\ Find(k) = {} /\ Crowded
  /\ pc' = "rehash"
  /\ arg' = [key |-> k, value |-> v]
  /\ new' = Empty(2 * tab_size) /\ i' = 0 /\ p' = tab[0]
  /\ UNCHANGED <<tab, tab_size, nelem, entry, owned>>

(* Mutant: the prev link of the chain's old head is left alone.            *)
RehashMoveNoPrev ==
  LET j == Slot(key[p], 2 * tab_size) IN
  /\ pc = "rehash" /\ p # Nil
  /\ p' = next[p]
  /\ next' = [next EXCEPT ![p] = new[j]]
  /\ prev' = [prev EXCEPT ![p] = Nil]
  /\ new' = [new EXCEPT ![j] = p]
  /\ UNCHANGED <<tab, tab_size, nelem, live, key, value, owned, pc, i, arg>>

(* Mutant: the old remainder is used for the new table.                    *)
RehashMoveOldSlot ==
  LET j == Slot(key[p], tab_size) IN
  /\ pc = "rehash" /\ p # Nil
  /\ p' = next[p]
  /\ next' = [next EXCEPT ![p] = new[j]]
  /\ prev' = [x \in Entries |-> IF x = p THEN Nil ELSE IF x = new[j] THEN p ELSE prev[x]]
  /\ new' = [new EXCEPT ![j] = p]
  /\ UNCHANGED <<tab, tab_size, nelem, live, key, value, owned, pc, i, arg>>

RehashMove ==
  LET j == Slot(key[p], 2 * tab_size) IN
  /\ pc = "rehash" /\ p # Nil
  /\ p' = next[p]
  /\ next' = [next EXCEPT ![p] = new[j]]
  /\ prev' = [x \in Entries |-> IF x = p THEN Nil ELSE IF x = new[j] THEN p ELSE prev[x]]
  /\ new' = [new EXCEPT ![j] = p]
  /\ UNCHANGED <<tab, tab_size, nelem, live, key, value, owned, pc, i, arg>>

(* Mutant: the loop over the old table stays at its chain.                 *)
RehashChainAgain ==
  /\ pc = "rehash" /\ p = Nil /\ i + 1 < tab_size
  /\ p' = tab[i]
  /\ UNCHANGED <<tab, tab_size, nelem, entry, owned, pc, new, i, arg>>

RehashChain ==
  /\ pc = "rehash" /\ p = Nil /\ i + 1 < tab_size
  /\ i' = i + 1 /\ p' = tab[i + 1]
  /\ UNCHANGED <<tab, tab_size, nelem, entry, owned, pc, new, arg>>

(* Mutant: the table keeps its old size.                                   *)
RehashEndOldSize ==
  /\ pc = "rehash" /\ p = Nil /\ i + 1 = tab_size
  /\ tab' = new
  /\ new' = Empty(InitSize) /\ i' = 0 /\ p' = Nil
  /\ pc' = "insert"
  /\ UNCHANGED <<tab_size, nelem, entry, owned, arg>>

RehashEnd ==
  /\ pc = "rehash" /\ p = Nil /\ i + 1 = tab_size
  /\ tab' = new /\ tab_size' = 2 * tab_size
  /\ new' = Empty(InitSize) /\ i' = 0 /\ p' = Nil
  /\ pc' = "insert"
  /\ UNCHANGED <<nelem, entry, owned, arg>>

InsertGrown ==
  /\ pc = "insert"
  /\ \E e \in Entries : InsertAt(e, arg.key, arg.value)
  /\ owned' = owned + 1
  /\ pc' = "idle" /\ arg' = NoArg

(* No memory for the entry: the put fails, and the table stays grown. (A   *)
(* put that has no memory to grow, or fails without growing, does nothing.)*)
InsertFails ==
  /\ pc = "insert"
  /\ pc' = "idle" /\ arg' = NoArg
  /\ UNCHANGED <<tab, tab_size, nelem, entry, owned, local>>

----------------------------------------------------------------------------
(* fm_free. Nothing reads an entry that was freed before the next          *)
(* fm_calloc clears it; here it is cleared at once.                        *)
Forget(es) ==
  /\ live' = live \ es
  /\ key' = [e \in Entries |-> IF e \in es THEN Nil ELSE key[e]]
  /\ value' = [e \in Entries |-> IF e \in es THEN Nil ELSE value[e]]

(* zc_hashtable_remove.                                                    *)
Remove(k) ==
  /\ pc = "idle"
  /\ \E e \in Find(k) :
       /\ next' = [x \in Entries |-> IF x = e THEN Nil ELSE IF x = prev[e] THEN next[e] ELSE next[x]]
       /\ prev' = [x \in Entries |-> IF x = e THEN Nil ELSE IF x = next[e] THEN prev[e] ELSE prev[x]]
       /\ Forget({e})
       /\ tab' = IF prev[e] = Nil THEN [tab EXCEPT ![Slot(k, tab_size)] = next[e]] ELSE tab
  /\ nelem' = nelem - 1 /\ owned' = owned - 1
  /\ UNCHANGED <<tab_size, pc, local, arg>>

(* Mutant: only the head of each chain.                                    *)
Heads == {tab[b] : b \in DOMAIN tab} \ {Nil}

(* The entries zc_hashtable_clean frees; the table keeps its size.         *)
InTable == UNION {Walk(tab[b]) : b \in DOMAIN tab}

zc_hashtable_clean ==
  /\ pc = "idle"
  /\ Forget(InTable)
  /\ prev' = [e \in Entries |-> IF e \in InTable THEN Nil ELSE prev[e]]
  /\ next' = [e \in Entries |-> IF e \in InTable THEN Nil ELSE next[e]]
  /\ owned' = owned - Cardinality(InTable)
  /\ tab' = Empty(tab_size) /\ nelem' = 0
  /\ UNCHANGED <<tab_size, pc, local, arg>>

zc_hashtable_put == \/ \E k \in Keys, v \in Values : Replace(k, v) \/ Insert(k, v) \/ Grow(k, v)
                    \/ RehashMove \/ RehashChain \/ RehashEnd \/ InsertGrown \/ InsertFails

Next == zc_hashtable_put \/ zc_hashtable_clean \/ \E k \in Keys : Remove(k)

Spec == Init /\ [][Next]_vars

(* The loop of a put that grows the table goes on until it is done.        *)
FairSpec == Spec /\ WF_vars(RehashMove \/ RehashChain \/ RehashEnd \/ InsertGrown \/ InsertFails)

----------------------------------------------------------------------------
(* zc_hashtable_begin and zc_hashtable_next: the head of the first chain,  *)
(* then along a chain, then the head of the next one.                      *)
FirstFrom(b) ==
  LET heads == {c \in DOMAIN tab : c >= b /\ tab[c] # Nil} IN
  IF heads = {} THEN Nil ELSE tab[CHOOSE c \in heads : \A d \in heads : c <= d]
(* Mutant: the search for the next chain starts at the same one.           *)
NextSame(e) == IF next[e] # Nil THEN next[e] ELSE FirstFrom(Slot(key[e], tab_size))
zc_hashtable_begin   == FirstFrom(0)
zc_hashtable_next(e) == IF next[e] # Nil THEN next[e] ELSE FirstFrom(Slot(key[e], tab_size) + 1)

(* The k-th entry zc_hashtable_foreach visits.                             *)
Visited ==
  LET at[k \in 0 .. Cardinality(Entries)] ==
        IF k = 0 THEN zc_hashtable_begin
        ELSE IF at[k - 1] = Nil THEN Nil ELSE zc_hashtable_next(at[k - 1])
  IN  at

(* What the entries of the table make each name stand for.                 *)
Stored == [k \in Keys |-> IF \E e \in live : key[e] = k
                          THEN value[CHOOSE e \in live : key[e] = k] ELSE Nil]
Map == INSTANCE NameMap WITH map <- Stored, call <- arg, None <- Nil

(* Every variable stays within its type.                                   *)
TypeOK ==
  /\ tab_size \in Nat \ {0} /\ nelem \in Nat /\ owned \in Nat
  /\ tab \in [0 .. tab_size - 1 -> Entries \cup {Nil}]
  /\ live \subseteq Entries
  /\ key \in [Entries -> Keys \cup {Nil}] /\ value \in [Entries -> Values \cup {Nil}]
  /\ prev \in [Entries -> Entries \cup {Nil}] /\ next \in [Entries -> Entries \cup {Nil}]
  /\ pc \in {"idle", "rehash", "insert"}
  /\ new \in [DOMAIN new -> Entries \cup {Nil}] /\ i \in Nat /\ p \in Entries \cup {Nil}
  /\ arg \in {NoArg} \cup [key : Keys, value : Values]

(* Between calls, a look-up finds exactly the entries of the key, at most  *)
(* one: whatever was put, replaced, removed and moved, no entry is in the  *)
(* wrong chain or cut off from it (zc_hashtable_get).                      *)
LookupFindsStored ==
  pc = "idle" => \A k \in Keys : /\ Find(k) = {e \in live : key[e] = k}
                                 /\ Cardinality(Find(k)) <= 1

(* Between calls the two links of every entry agree with each other and    *)
(* with the heads of the chains: zc_hashtable_remove trusts them both.     *)
LinksAgree ==
  pc = "idle" => \A e \in live :
    /\ IF prev[e] = Nil THEN tab[Slot(key[e], tab_size)] = e
                        ELSE prev[e] \in live /\ next[prev[e]] = e
    /\ next[e] # Nil => next[e] \in live /\ prev[next[e]] = e

(* nelem counts the entries, and each owns one value: none is leaked when  *)
(* a name is set again, none deleted twice. A table is never more than one *)
(* entry beyond crowded.                                                   *)
CountsMatch ==
  /\ nelem = Cardinality(live) /\ owned = nelem
  /\ 10 * (nelem - 1) <= 13 * tab_size

(* zc_hashtable_foreach visits every entry once, and stops.                *)
ForeachVisitsAll ==
  pc = "idle" =>
    /\ \A e \in live : Cardinality({k \in DOMAIN Visited : Visited[k] = e}) = 1
    /\ Visited[Cardinality(live)] = Nil

(* The pointer table implements the map of names.                          *)
ImplementsMap == Map!MapSpec

(* A put that grows the table ends.                                        *)
GrowthEnds == pc = "rehash" ~> pc = "idle"
=============================================================================
