------------------------------ MODULE ScLoader ------------------------------
(***************************************************************************)
(* The script loader (src/tsm_scloader.c): scloader_load turns the lines   *)
(* of a script file into code entries, each with its parameters, and keeps *)
(* pointers to them in an array that se_resize is to grow.                 *)
(*                                                                         *)
(* One action is one call of fgets, one parameter of a line, or the store  *)
(* of an entry. What the arrays hold is modelled pointer by pointer: an    *)
(* index of an entry, Null, or Wild (some bytes of a pointer). A store     *)
(* behind an array's end kills the process or is lost.                     *)
(***************************************************************************)
EXTENDS Integers, Sequences

CONSTANTS
  Codes,         \* numbers of byte codes
  Texts,         \* parameters, as sequences of bytes
  SC_ENTRY_NUM,  \* DEFAULT_SC_ENTRY_NUM: entries a new script has room for
  PARAM_NUM,     \* DEFAULT_PARAM_NUM: parameters a new entry has room for
  POINTER        \* bytes of a pointer

ASSUME CodesAssumption    == Codes \subseteq Nat /\ 0 \in Codes
(* strtok gives no empty string; a line has room for 1023 characters.      *)
ASSUME TextsAssumption    == \A p \in Texts : p \in Seq(1..255) \ {<<>>} /\ Len(p) < 1024
ASSUME ScEntryAssumption  == SC_ENTRY_NUM \in Nat \ {0}
ASSUME ParamAssumption    == PARAM_NUM \in Nat \ {0}
ASSUME PointerAssumption  == POINTER \in {4, 8}

(* What fgets returns: a line that is skipped ('#' or '\r' comes first),   *)
(* an empty one, a byte code, one with a comma and parameters behind it,   *)
(* or one with delimiters only.                                            *)
Line == [kind : {"skip", "empty", "code", "args", "bare"}, code : Codes, args : Seq(Texts)]

Null == 0
Wild == -1

(* size is 0 where parameters is NULL. array has the parameters up to the  *)
(* first one stored behind the array's end, lost is the number of those    *)
(* from that one on, and cnt both together.                                *)
CodeEntry == [addr : Nat, code : Codes, size : Nat, array : Seq(Texts), lost : Nat]
NoScript  == [size |-> 0, code_num |-> 0]

VARIABLES
  sc,       \* where scloader_load is
  file,     \* the lines not yet read
  rest,     \* the parameters of the line not yet taken by strtok
  se, ces,  \* the script: size and code_num; its array of pointers
  entry,    \* the code entries allocated so far
  read,     \* the lines they were made of
  oom       \* an allocation has failed

scVars == <<sc, file, rest, se, ces, entry, read, oom>>

ScInit ==
  /\ sc = "idle" /\ file = <<>> /\ rest = <<>>
  /\ se = NoScript /\ ces = <<>> /\ entry = <<>> /\ read = <<>>
  /\ oom = FALSE

ScDie == sc' = "dead" /\ UNCHANGED <<file, rest, se, ces, entry, read, oom>>

(* fopen and se_alloc. A file that cannot be opened gives no script; no    *)
(* memory for the script gives a null pointer that is used further down.   *)
ScNoFile ==
  /\ sc = "idle"
  /\ sc' = "done"
  /\ UNCHANGED <<file, rest, se, ces, entry, read, oom>>

ScOpen(lines) ==
  /\ sc = "idle"
  /\ \/ /\ se' = [size |-> SC_ENTRY_NUM, code_num |-> 0]
        /\ ces' = [k \in 1..SC_ENTRY_NUM |-> Null]
        /\ oom' = oom
     \/ oom' = TRUE /\ UNCHANGED <<se, ces>>
  /\ file' = lines
  /\ sc' = "read"
  /\ UNCHANGED <<rest, entry, read>>

(* One line. An empty one ends in '\n' only: sscanf finds no number, and   *)
(* it becomes an entry with byte code 0. atoi(strtok(line, ..)) of a line  *)
(* of delimiters dereferences NULL.                                        *)
CodeOf(line) == IF line.kind = "empty" THEN 0 ELSE line.code
ArgsOf(line) == IF line.kind = "args" THEN line.args ELSE <<>>

(* Mutant: addresses are counted from -1.                                  *)
NewEntryEarly(line) ==
  [addr |-> Len(entry) - 1, code |-> CodeOf(line),
   size |-> IF line.kind = "args" THEN PARAM_NUM ELSE 0, array |-> <<>>, lost |-> 0]

NewEntry(line) ==
  [addr |-> Len(entry), code |-> CodeOf(line),
   size |-> IF line.kind = "args" THEN PARAM_NUM ELSE 0, array |-> <<>>, lost |-> 0]

ScLine ==
  /\ sc = "read" /\ file # <<>>
  /\ LET line == Head(file) IN
     \/ line.kind = "bare" /\ ScDie
     \/ /\ line.kind = "skip"
        /\ file' = Tail(file)
        /\ UNCHANGED <<sc, rest, se, ces, entry, read, oom>>
     \/ /\ line.kind \in {"empty", "code", "args"}
        /\ file' = Tail(file)
        /\ entry' = Append(entry, NewEntry(line))
        /\ read' = Append(read, line)
        /\ IF line.kind = "args" THEN sc' = "param" /\ rest' = line.args
                                 ELSE sc' = "store" /\ rest' = <<>>
        /\ UNCHANGED <<se, ces, oom>>

(* No memory for an entry, its array or a parameter: nothing tests for it. *)
ScNoMemory ==
  /\ \/ sc = "read" /\ file # <<>> /\ Head(file).kind # "skip"
     \/ sc = "param" /\ rest # <<>>
  /\ sc' = "dead" /\ oom' = TRUE
  /\ UNCHANGED <<file, rest, se, ces, entry, read>>

ScEnd ==
  /\ sc = "read" /\ file = <<>>
  /\ sc' = "done"
  /\ UNCHANGED <<file, rest, se, ces, entry, read, oom>>

(* One parameter, stored at cnt. A full array is grown to twice the        *)
(* default size, by fmBytes_array_resize, which gives the old one back     *)
(* when that is no more than it has.                                       *)
LastEntry == Len(entry)
Cnt(e)  == Len(e.array) + e.lost
Full(e) == e.size - Cnt(e) < 1
fmBytes_array_resize(size, new) == IF new <= size THEN size ELSE new

StoredParam(e, size, p) ==
  IF e.lost = 0 /\ Len(e.array) < size THEN [e EXCEPT !.size = size, !.array = Append(@, p)]
  ELSE [e EXCEPT !.size = size, !.lost = @ + 1]

(* Mutant: the array stays as it was allocated.                            *)
ScParamFixed ==
  /\ sc = "param" /\ rest # <<>>
  /\ entry' = [entry EXCEPT ![LastEntry] = StoredParam(@, @.size, Head(rest))]
  /\ rest' = Tail(rest)
  /\ UNCHANGED <<sc, file, se, ces, read, oom>>

ScParam ==
  /\ sc = "param" /\ rest # <<>>
  /\ LET e     == entry[LastEntry]
         asked == fmBytes_array_resize(e.size, 2 * PARAM_NUM) IN
     \E size \in IF Full(e) THEN {asked, e.size} ELSE {e.size} :
       /\ oom' = (oom \/ (Full(e) /\ size # asked))
       /\ \/ /\ entry' = [entry EXCEPT ![LastEntry] = StoredParam(e, size, Head(rest))]
             /\ rest' = Tail(rest)
             /\ UNCHANGED sc
          \/ /\ Cnt(e) >= size
             /\ sc' = "dead"
             /\ UNCHANGED <<entry, rest>>
  /\ UNCHANGED <<file, se, ces, read>>

ScParamEnd ==
  /\ sc = "param" /\ rest = <<>>
  /\ sc' = "store"
  /\ UNCHANGED <<file, rest, se, ces, entry, read, oom>>

(* memcpy_int(new, old, n) stores n ints, each a byte behind the last one: *)
(* n + 3 bytes arrive, where n pointers were meant, and they may come from *)
(* behind the old array.                                                   *)
memcpy_int(new, old, n) ==
  [k \in DOMAIN new |->
     LET pointer == IF k \in DOMAIN old THEN old[k] ELSE Wild IN
     IF POINTER * k <= n + 3 THEN pointer
     ELSE IF POINTER * (k - 1) < n + 3 /\ pointer # Null THEN Wild
     ELSE new[k]]

(* se_resize does not change size: every entry behind the first array's    *)
(* end comes with a new array.                                             *)
se_resize == memcpy_int([k \in 1..2 * se.size |-> Null], ces, se.code_num)

Room == se.size - se.code_num >= 1

Stored(array) ==
  /\ se' = [se EXCEPT !.code_num = @ + 1]
  /\ IF se.code_num < Len(array)
     THEN ces' = [array EXCEPT ![se.code_num + 1] = LastEntry] /\ sc' = "read"
     ELSE ces' = array /\ sc' \in {"read", "dead"}

(* Mutant: a new array is filled with nothing of the old one.              *)
ScStoreEmptied ==
  /\ sc = "store" /\ se # NoScript
  /\ Stored(IF Room THEN ces ELSE [k \in 1..2 * se.size |-> Null])
  /\ UNCHANGED <<file, rest, entry, read, oom>>

ScStore ==
  /\ sc = "store" /\ se # NoScript
  /\ \/ Stored(IF Room THEN ces ELSE se_resize) /\ UNCHANGED oom
     \/ ~Room /\ Stored(ces) /\ oom' = TRUE
  /\ UNCHANGED <<file, rest, entry, read>>

ScStoreNowhere == sc = "store" /\ se = NoScript /\ ScDie

ScStep == ScLine \/ ScNoMemory \/ ScEnd \/ ScParam \/ ScParamEnd \/ ScStore \/ ScStoreNowhere

----------------------------------------------------------------------------
ScTypeOK ==
  /\ sc \in {"idle", "read", "param", "store", "done", "dead"}
  /\ file \in Seq(Line) /\ rest \in Seq(Texts) /\ read \in Seq(Line)
  /\ se \in [size : Nat, code_num : Nat]
  /\ ces \in Seq(Nat \cup {Wild})
  /\ entry \in Seq(CodeEntry)
  /\ oom \in BOOLEAN

(* A script that fits has its entries at their addresses, in the order of  *)
(* the lines; a longer one keeps what memcpy_int saves, the first few, and *)
(* the last one stored. An entry has the byte code of its line. It has its *)
(* parameters, all of them in the array, unless one was stored behind the  *)
(* array's end, which takes more than twice the default number, or a lack  *)
(* of memory (tsm_scloader.c:64, 110-139).                                 *)
Kept(k) == k <= SC_ENTRY_NUM /\ (se.code_num <= SC_ENTRY_NUM \/ POINTER * k <= SC_ENTRY_NUM + 3)
ScriptWhole ==
  /\ \A k \in 1..se.code_num :
       k <= Len(ces) /\ (Kept(k) \/ k = se.code_num) => ces[k] = k
  /\ \A k \in DOMAIN entry :
       /\ entry[k].addr = k - 1
       /\ entry[k].code = CodeOf(read[k])
       /\ Len(entry[k].array) <= entry[k].size
       /\ ~oom /\ Len(ArgsOf(read[k])) <= 2 * PARAM_NUM => entry[k].lost = 0
       /\ entry[k].lost = 0 /\ (sc \notin {"param", "dead"} \/ k < LastEntry)
            => entry[k].array = ArgsOf(read[k])
=============================================================================
