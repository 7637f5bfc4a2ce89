---------------------------- MODULE MCHashTable ----------------------------
(* Small instances of HashTable: keys that share a chain in a table of     *)
(* one, of two and of four.                                                *)
EXTENDS HashTable, TLC

CONSTANTS e1, e2, e3, e4, k1, k2, k3, k4, v1, v2

MCEntries == {e1, e2, e3, e4}
MCKeys    == {k1, k2, k3, k4}
MCValues  == {v1, v2}
MCHash    == k1 :> 0 @@ k2 :> 2 @@ k3 :> 6 @@ k4 :> 1
=============================================================================
