----------------------------- MODULE TsmScript -----------------------------
(***************************************************************************)
(* What becomes of scripts and libraries: the two loaders, those who call  *)
(* them (CcbCreate), and a VM thread that runs the data byte codes of a    *)
(* script that was loaded (BcData) on the table of its CCB.                *)
(*                                                                         *)
(* Nothing advances PC: a conditional jump sets it, to any address, since  *)
(* fmBytes2intBE starts from an uninitialised value, and the jump of       *)
(* another thread on the same CCB may come late. So entries run in any     *)
(* order. tsm_vm passes &ce->parameters where ce->parameters is asked for: *)
(* a byte code kills the process, or gets the parameters (TsmVm).          *)
(***************************************************************************)
EXTENDS CcbCreate, BcData

CONSTANTS
  DataSet, DataExtract, DataExtractRsp, DataConcat, DataReverse, DataIdle,
               \* the numbers of these byte codes
  DataScripts, \* scripts of data byte codes
  Responses,   \* fragments of responses
  MaxRuns      \* bound: entries run

DataCodes == {DataSet, DataExtract, DataExtractRsp, DataConcat, DataReverse, DataIdle}

(* Byte codes are numbered one by one.                                     *)
ASSUME DataAssumption        ==
  /\ DataCodes \subseteq Codes
  /\ DataSet \notin {DataExtract, DataExtractRsp, DataConcat, DataReverse, DataIdle}
ASSUME DataScriptsAssumption == DataScripts \subseteq Seq(Line)
ASSUME RunsAssumption        == MaxRuns \in Nat

VARIABLES
  bre,  \* the table of the CCB
  ran   \* the numbers of the entries that ran, in their order

vmVars == <<bre, ran>>
vars   == <<createVars, loadVars, vmVars>>

----------------------------------------------------------------------------
VmLoad ==
  /\ role = "vm" /\ cs = "start"
  /\ \E lines \in DataScripts : ScOpen(lines)
  /\ cs' = "loading"
  /\ UNCHANGED <<role, printed, tlv, dl, ccb, ccb_list, created, bcVars>>

VmLoaded ==
  /\ role = "vm" /\ cs = "loading" /\ sc = "done"
  /\ \/ se = NoScript /\ Dies
     \/ /\ se # NoScript
        /\ cs' = "run"
        /\ UNCHANGED <<role, printed, tlv, dl, ccb, ccb_list, created, loadVars>>

(* What one byte code may leave.                                           *)
Outcome(code, arg) ==
  CASE code = DataSet        -> data_set(bre, arg)
    [] code = DataExtract    -> data_extract(bre, arg)
    [] code = DataExtractRsp -> data_extract_rsp(bre, arg, Responses)
    [] code = DataConcat     -> data_concat(bre, arg)
    [] code = DataReverse    -> data_reverse(bre, arg)
    [] code = DataIdle       -> data_idle(bre, arg)

(* An entry of another byte code leaves the table alone (TsmVm has what it *)
(* does). parameters is NULL where size is 0. One behind the array's end   *)
(* may be any bytes by now. The process may always die: of a pointer that  *)
(* is null or wild, or of &ce->parameters.                                 *)
VmRun(k) ==
  /\ role = "vm" /\ cs = "run" /\ Len(ran) < MaxRuns
  /\ k <= se.code_num
  /\ \/ Dies /\ UNCHANGED vmVars
     \/ \E p \in EntryAt(k) \ {Null, Wild} :
          /\ LET e == entry[p] IN
               /\ e.code \in DataCodes /\ (e.size > 0 \/ e.code = DataIdle)
               /\ bre' \in IF e.lost = 0 THEN Outcome(e.code, e.array)
                                          ELSE {[bre EXCEPT !.status = "wild"]}
          /\ ran' = Append(ran, k)
          /\ cs' = IF bre'.status = "ok" THEN "run" ELSE "dead"
          /\ UNCHANGED <<role, printed, tlv, dl, ccb, ccb_list, created, loadVars>>

Vm ==
  \/ (VmLoad \/ (role = "vm" /\ LoadingScript) \/ VmLoaded) /\ UNCHANGED vmVars
  \/ \E k \in 1..se.code_num : VmRun(k)

Init == CreateInit /\ ScInit /\ BcInit /\ bre = EmptyTable /\ ran = <<>>

MainStep == Main /\ UNCHANGED vmVars
Next     == MainStep \/ (Router /\ UNCHANGED vmVars) \/ Vm

Spec     == Init /\ [][Next]_vars
FairSpec == Spec /\ WF_vars(MainStep)

----------------------------------------------------------------------------
TypeOK ==
  /\ ScTypeOK /\ BcTypeOK
  /\ role \in {"main", "router", "vm"}
  /\ cs \in {"start", "loading", "print", "session", "script", "table", "dll",
             "dlload", "found", "missing", "run", "dead"}
  /\ printed \in Seq(CodeEntry)
  /\ tlv \in Seq(Tlv)
  /\ dl \in Paths \cup {WildPath}
  /\ ccb \in Ccb /\ ccb_list \in Seq(Ccb)
  /\ created \in 0..MaxCreates
  /\ ran \in Seq(Nat \ {0})
  /\ bre.status \in {"ok", "wild", "dead"}

(* A script without lines of delimiters only, with no more lines than the  *)
(* first array has room for and no more parameters to a line than twice    *)
(* the default, is loaded and printed whole, line by line, unless memory   *)
(* runs out (tsm_main.c:109-134, tsm_scloader.c:57-68, 94-141).            *)
Printable(lines) ==
  LET codes == SelectSeq(lines, LAMBDA l : l.kind # "skip") IN
  /\ Len(codes) <= SC_ENTRY_NUM
  /\ \A k \in DOMAIN codes : codes[k].kind # "bare" /\ Len(codes[k].args) <= 2 * PARAM_NUM

Printed(lines) ==
  /\ Len(printed) = Len(lines)
  /\ \A k \in DOMAIN lines :
       /\ printed[k].addr = k - 1
       /\ printed[k].code = CodeOf(lines[k]) /\ printed[k].array = ArgsOf(lines[k])

ShortScriptIsPrinted ==
  (role = "main" /\ cs = "loading" /\ sc # "done" /\ Printable(read \o file))
    ~> (oom \/ (cs = "print" /\ Printed(read)))

(* data_set,data0:name0,... is the "assignment of data" to names           *)
(* (bc_data.c:43-46). It passes the structure of the name for its text     *)
(* (bc_data.c:58), which begins with the length: a value goes by the       *)
(* length of its name. So as long as the names that were set have lengths  *)
(* of their own, each has the value assigned to it last, and nothing is    *)
(* set but "" and these, in whatever order the entries ran and whatever    *)
(* extractions came in between; the byte codes that look names up by their *)
(* texts find none and kill the process before they put anything           *)
(* (bc_data.c:54-59, 138-154, 167-181, tsm_ccb.c:180-184).                 *)
NoKeyIsAName ==
  \A k, m \in DOMAIN entry : \A i \in DOMAIN entry[k].array, j \in DOMAIN entry[m].array :
    entry[k].array[i] # SizeKey(Len(entry[m].array[j]))

(* What the entries that ran set: <<n, i>> is the i-th pair of data and    *)
(* name of the n-th of them.                                               *)
Pairs(e)    == IF e.code # DataSet \/ Len(e.array) % 2 # 0 THEN 0 ELSE Len(e.array) \div 2
Sets        == UNION {{n} \X (1..Pairs(entry[ran[n]])) : n \in DOMAIN ran}
DataOf(s)   == entry[ran[s[1]]].array[2 * s[2] - 1]
NameOf(s)   == entry[ran[s[1]]].array[2 * s[2]]
Later(r, s) == r[1] > s[1] \/ (r[1] = s[1] /\ r[2] > s[2])

NamesDiffer ==
  \A r, s \in Sets : /\ StructKey(NameOf(s)) # <<>>
                     /\ StructKey(NameOf(r)) = StructKey(NameOf(s)) => NameOf(r) = NameOf(s)

AssignedValues ==
  bre.status = "ok" /\ NoKeyIsAName /\ NamesDiffer =>
    /\ DOMAIN bre.map \ {<<>>} = {StructKey(NameOf(s)) : s \in Sets}
    /\ \A s \in Sets :
         (\A r \in Sets : Later(r, s) => NameOf(r) # NameOf(s)) =>
           bre.map[StructKey(NameOf(s))] = hexstr_to_hex(DataOf(s))

(* The assignment of data to names (bc_data.c:43-46), which other byte     *)
(* codes find by these names (bc_data.c:91-94, bc_gp.c:443): a name that   *)
(* was set is in the table with the value assigned to it last. Violated: a *)
(* name takes the value of another one of its length.                      *)
AssignedByName ==
  bre.status = "ok" =>
    \A s \in Sets : (\A r \in Sets : Later(r, s) => NameOf(r) # NameOf(s)) =>
      /\ StructKey(NameOf(s)) \in DOMAIN bre.map
      /\ bre.map[StructKey(NameOf(s))] = hexstr_to_hex(DataOf(s))
=============================================================================
