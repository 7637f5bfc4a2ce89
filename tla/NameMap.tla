------------------------------ MODULE NameMap ------------------------------
(***************************************************************************)
(* What the business environment of a CCB ("bre", src/tsm_ccb.h) promises  *)
(* the byte codes: names stand for values; a name is set, looked up and    *)
(* taken out, each in one step, and other names are left alone.            *)
(***************************************************************************)
CONSTANTS
  Keys,
  Values,
  None        \* the value of a name that is not set

VARIABLES
  map,        \* what each name stands for
  call        \* the name and value of a put that has not returned, or none

mapVars == <<map, call>>
NoCall  == [key |-> None, value |-> None]

MapInit == map = [k \in Keys |-> None] /\ call = NoCall

(* A put takes effect at once, or is called and takes effect later.        *)
Set(k, v)  == map' = [map EXCEPT ![k] = v]
Put(k, v)  == call = NoCall /\ Set(k, v) /\ UNCHANGED call
Call(k, v) == call = NoCall /\ call' = [key |-> k, value |-> v] /\ UNCHANGED map
Effect     == call # NoCall /\ Set(call.key, call.value) /\ call' = NoCall
(* Or it fails, and nothing is set.                                        *)
Fail       == call # NoCall /\ call' = NoCall /\ UNCHANGED map

Remove(k) == call = NoCall /\ Set(k, None) /\ UNCHANGED call
Clean     == call = NoCall /\ map' = [k \in Keys |-> None] /\ UNCHANGED call

MapNext ==
  \/ \E k \in Keys, v \in Values : Put(k, v) \/ Call(k, v)
  \/ \E k \in Keys : Remove(k)
  \/ Effect
  \/ Fail
  \/ Clean

MapSpec == MapInit /\ [][MapNext]_mapVars
=============================================================================
