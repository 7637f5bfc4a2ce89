----------------------------- MODULE CcbCreate -----------------------------
(***************************************************************************)
(* Who loads scripts and libraries: ccb_create_ccb (src/tsm_ccb.c), called *)
(* by the router for each create message, and the main function that is    *)
(* built (src/tsm_main.c:109-134), which loads one script and prints it.   *)
(* "role" says which of them the behaviour is about; TsmScript has a third *)
(* and the specification.                                                  *)
(***************************************************************************)
EXTENDS ScLoader, BcLoader

CONSTANTS
  Scripts,      \* what script files may hold
  Messages,     \* the TLVs of create messages
  WildPath,     \* a pointer to no string
  BC_SIZE,      \* BYTE_CODE_DEFAULT_SIZE
  MaxCreates    \* bound: create messages

(* A TLV of a create message; a script's file may be missing.              *)
Tlv == [tag : {"session", "script", "dll"}, val : Nat, file : Scripts, found : BOOLEAN]

ASSUME ScriptsAssumption  == Scripts \subseteq Seq(Line)
ASSUME MessagesAssumption == Messages \subseteq Seq(Tlv)
ASSUME WildAssumption     == WildPath \notin Paths
ASSUME BcSizeAssumption   == BC_SIZE \in Nat \ {0}
ASSUME CreatesAssumption  == MaxCreates \in Nat

VARIABLES
  role,         \* "main", "router", or "vm" (TsmScript)
  cs,           \* where main or ccb_create_ccb is
  printed,      \* main: the entries printed
  tlv,          \* ccb_create_ccb: the TLVs it has not come to
  dl,           \* its variable dl, which nothing sets
  ccb,          \* the CCB it makes
  ccb_list,     \* the CCBs made
  created       \* create messages so far

createVars == <<role, cs, printed, tlv, dl, ccb, ccb_list, created>>
loadVars   == <<scVars, bcVars>>

Slots == {"null", "wild", "reserve"} \cup Symbols

(* asked: the libraries of the message that were there when it came to     *)
(* them.                                                                   *)
Ccb   == [session : Nat, se : BOOLEAN, table : Seq(Slots), asked : SUBSET Paths]
NoCcb == [session |-> 0, se |-> FALSE, table |-> <<>>, asked |-> {}]

CreateInit ==
  /\ role \in {"main", "router", "vm"}
  /\ cs = "start" /\ printed = <<>> /\ tlv = <<>> /\ dl = WildPath
  /\ ccb = NoCcb /\ ccb_list = <<>> /\ created = 0

Dies == cs' = "dead" /\ UNCHANGED <<role, printed, tlv, dl, ccb, ccb_list, created, loadVars>>

(* Whoever loads a script waits for the loader.                            *)
LoadingScript == cs = "loading" /\ ScStep /\ UNCHANGED <<createVars, bcVars>>

----------------------------------------------------------------------------
(* main: the script is loaded, then its entries are printed in order.      *)
MainLoad ==
  /\ role = "main" /\ cs = "start"
  /\ ScNoFile \/ \E lines \in Scripts : ScOpen(lines)
  /\ cs' = "loading"
  /\ UNCHANGED <<role, printed, tlv, dl, ccb, ccb_list, created, bcVars>>

MainLoaded ==
  /\ role = "main" /\ cs = "loading" /\ sc = "done"
  /\ \/ se = NoScript /\ Dies
     \/ /\ se # NoScript
        /\ cs' = "print"
        /\ UNCHANGED <<role, printed, tlv, dl, ccb, ccb_list, created, loadVars>>

(* What se->ces[k - 1] may be: a pointer stored behind the array's end may *)
(* still be there. A null or wild one kills the process, and one of a      *)
(* parameter behind its array may.                                         *)
EntryAt(k) == IF k <= Len(ces) THEN {ces[k]} ELSE {k, Wild}

MainPrint ==
  /\ role = "main" /\ cs = "print" /\ Len(printed) < se.code_num
  /\ \E p \in EntryAt(Len(printed) + 1) :
       \/ (p \notin {Null, Wild} => entry[p].lost > 0) /\ Dies
       \/ /\ p \notin {Null, Wild}
          /\ printed' = Append(printed, entry[p])
          /\ UNCHANGED <<role, cs, tlv, dl, ccb, ccb_list, created, loadVars>>

Main == MainLoad \/ (role = "main" /\ LoadingScript) \/ MainLoaded \/ MainPrint

----------------------------------------------------------------------------
(* ccb_create_ccb. A message without a TAG_SESSION gives session 0, one    *)
(* without TAG_SCRIPT no script; of several the first counts.              *)
Tagged(tag) == {k \in DOMAIN tlv : tlv[k].tag = tag}
First(tag)  == {tlv[k] : k \in {k \in Tagged(tag) : \A m \in Tagged(tag) : k <= m}}

CcbBegin(msg) ==
  /\ role = "router" /\ cs = "start" /\ created < MaxCreates
  /\ created' = created + 1
  /\ tlv' = msg
  /\ dl' \in Paths \cup {WildPath}
  /\ ccb' = NoCcb
  /\ cs' \in {"session", "dead"}
  /\ UNCHANGED <<role, printed, ccb_list, loadVars>>

CcbSession ==
  /\ cs = "session"
  /\ \E i \in IF Tagged("session") = {} THEN {0} ELSE {t.val : t \in First("session")} :
       ccb' = [ccb EXCEPT !.session = i]
  /\ cs' = "script"
  /\ UNCHANGED <<role, printed, tlv, dl, ccb_list, created, loadVars>>

CcbScript ==
  /\ cs = "script"
  /\ \/ Tagged("script") = {} /\ cs' = "table" /\ UNCHANGED scVars
     \/ /\ cs' = "loading"
        /\ \E t \in First("script") : IF t.found THEN ScOpen(t.file) ELSE ScNoFile
  /\ UNCHANGED <<role, printed, tlv, dl, ccb, ccb_list, created, bcVars>>

CcbScriptLoaded ==
  /\ role = "router" /\ cs = "loading" /\ sc = "done"
  /\ ccb' = [ccb EXCEPT !.se = se # NoScript]
  /\ cs' = "table"
  /\ UNCHANGED <<role, printed, tlv, dl, ccb_list, created, loadVars>>

(* memset_int stores tsm_reserve BC_SIZE times, as an int, each a byte     *)
(* behind the last: BC_SIZE + 3 bytes of BC_SIZE pointers are written, and *)
(* no pointer is left whole.                                               *)
ccb_alloc_bc == [k \in 1..BC_SIZE |-> IF POINTER * (k - 1) < BC_SIZE + 3 THEN "wild" ELSE "null"]

(* Without memory for the structure there is no table; without memory for  *)
(* the table itself memset_int stores to null.                             *)
CcbTable ==
  /\ cs = "table"
  /\ \/ /\ ccb' \in {[ccb EXCEPT !.table = ccb_alloc_bc], ccb}
        /\ cs' = "dll"
        /\ UNCHANGED <<role, printed, tlv, dl, ccb_list, created, loadVars>>
     \/ Dies

(* For each TAG_DLL: the list of libraries is searched for the file name   *)
(* dl points to, and where it is not found it is loaded.                   *)
Match(s) == ~Lib[dl].inDir /\ Lib[s.path].file = Lib[dl].file
NextTlv  == tlv' = Tail(tlv) /\ cs' = "dll"

CcbSkip ==
  /\ cs = "dll" /\ tlv # <<>> /\ Head(tlv).tag # "dll"
  /\ NextTlv
  /\ UNCHANGED <<role, printed, dl, ccb, ccb_list, created, loadVars>>

CcbSearch ==
  /\ cs = "dll" /\ tlv # <<>> /\ Head(tlv).tag = "dll"
  /\ \/ dl = WildPath /\ Dies
     \/ /\ dl # WildPath
        /\ IF \E m \in DOMAIN bcs_list : Match(bcs_list[m])
           THEN cs' = "found" /\ UNCHANGED bcVars
           ELSE cs' = "dlload" /\ BcBegin(dl)
        /\ UNCHANGED <<role, printed, tlv, dl, ccb, ccb_list, created, scVars>>

LoadingLibrary == cs = "dlload" /\ BcStep /\ UNCHANGED <<createVars, scVars>>

CcbLoaded ==
  /\ cs = "dlload" /\ bc \in {"loaded", "failed"}
  /\ cs' = IF bc = "loaded" THEN "found" ELSE "missing"
  /\ bc' = "idle"
  /\ UNCHANGED <<role, printed, tlv, dl, ccb, ccb_list, created, scVars,
                 path, hfile, fa, bc_set, bcs_list, heap, loads>>

(* if(!temp_set): a library that is there is left out; one that is not is  *)
(* added, and ccb_add_bc dereferences the null pointer.                    *)
CcbLeaveOut ==
  /\ cs = "found"
  /\ ccb' = [ccb EXCEPT !.asked = @ \cup {dl}]
  /\ NextTlv
  /\ UNCHANGED <<role, printed, dl, ccb_list, created, loadVars>>

ccb_add_bc == cs = "missing" /\ Dies

(* The router reads the session and puts the CCB in its list. The script   *)
(* stays allocated with the CCB; the loader's variables are new ones in    *)
(* the next call.                                                          *)
CcbEnd ==
  /\ cs = "dll" /\ tlv = <<>>
  /\ ccb_list' = Append(ccb_list, ccb)
  /\ cs' = "start"
  /\ sc' = "idle" /\ file' = <<>> /\ rest' = <<>> /\ se' = NoScript /\ ces' = <<>>
  /\ entry' = <<>> /\ read' = <<>> /\ oom' = FALSE
  /\ UNCHANGED <<role, printed, tlv, dl, ccb, created, bcVars>>

Router ==
  \/ \E msg \in Messages : CcbBegin(msg)
  \/ CcbSession \/ CcbScript \/ (role = "router" /\ LoadingScript) \/ CcbScriptLoaded
  \/ CcbTable \/ CcbSkip \/ CcbSearch \/ LoadingLibrary \/ CcbLoaded
  \/ CcbLeaveOut \/ ccb_add_bc \/ CcbEnd

----------------------------------------------------------------------------
(* "it does not belong to any byte code class, it is implemented here"     *)
(* (tsm_ccb.c:9-11): but for the reserve, the byte codes of a table are    *)
(* those of the libraries, so a CCB that got a table has in it the         *)
(* functions of each library that its message asked for and that was there.*)
(* Violated: the test at tsm_ccb.c:98 is the wrong way round.              *)
LibrariesAreAdded ==
  \A n \in {n \in DOMAIN ccb_list : ccb_list[n].table # <<>>} :
    \A p \in ccb_list[n].asked : \E m \in DOMAIN bcs_list :
      /\ Lib[bcs_list[m].path].file = Lib[p].file
      /\ \A f \in DOMAIN bcs_list[m].bc : \E k \in DOMAIN ccb_list[n].table :
           ccb_list[n].table[k] = bcs_list[m].bc[f]
=============================================================================
