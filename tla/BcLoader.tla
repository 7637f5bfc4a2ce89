------------------------------ MODULE BcLoader ------------------------------
(***************************************************************************)
(* The byte-code loader (src/tsm_bcloader.c): bcloader_load reads the      *)
(* names of a library's functions from its header file, opens the library, *)
(* looks every name up and puts the set it made in the list of libraries.  *)
(*                                                                         *)
(* One action is one line of the header, one symbol, or a call that may    *)
(* fail; what each load allocates and gives back is kept in "heap".        *)
(***************************************************************************)
EXTENDS Integers, Sequences, FiniteSets

CONSTANTS
  Paths,       \* the paths a library may be asked for under
  Lib,         \* what there is at each path
  Symbols,     \* names of functions
  BYCODE_SIZE  \* DEF_BYCODE_SIZE: names the first array has room for

(* A line of a header, as the loader reads it: skipped ('\r' or another    *)
(* '#'), the one with BC_BASE, or taken for a function.                    *)
HLine == [kind : {"skip", "base", "func"}, base : Nat, name : Symbols]

(* file names the library without its directory, inDir tells whether the   *)
(* path has one, named whether the file is called lib<name>.so.            *)
Library == [file : Paths, inDir : BOOLEAN, named : BOOLEAN, header : Seq(HLine),
            hasHeader : BOOLEAN, opens : BOOLEAN, symbols : SUBSET Symbols]

ASSUME PathsAssumption  == Paths # {}
ASSUME LibAssumption    == Lib \in [Paths -> Library]
ASSUME BycodeAssumption == BYCODE_SIZE \in Nat \ {0}

(* An allocation: what it is for, in which load, and the number of a name. *)
Block(what, n) == [what |-> what, load |-> n, k |-> 0]
Name(n, k)     == [what |-> "name", load |-> n, k |-> k]
Kinds == {"fa", "array", "name", "file", "set", "set.name", "set.bc", "dl"}

Set   == [load : Nat, path : Paths, base : Nat, cnt : Nat, bc : Seq(Symbols)]
NoSet == [load |-> 0, path |-> CHOOSE p \in Paths : TRUE, base |-> 0, cnt |-> 0, bc |-> <<>>]
NoFa  == [size |-> 0, base |-> 0, array |-> <<>>]

VARIABLES
  bc,        \* where bcloader_load is
  path,      \* the path it was called with
  hfile,     \* the lines of the header not yet read
  fa,        \* func_array_t: size, base and the names
  bc_set,    \* the set being made, NoSet for NULL; bc holds what dlsym found
  bcs_list,  \* the libraries loaded
  heap,      \* blocks, files and libraries that are allocated
  loads      \* loads begun

bcVars == <<bc, path, hfile, fa, bc_set, bcs_list, heap, loads>>

BcInit ==
  /\ bc = "idle" /\ path = NoSet.path /\ hfile = <<>> /\ fa = NoFa /\ bc_set = NoSet
  /\ bcs_list = <<>> /\ heap = {} /\ loads = 0

BcDie == bc' = "dead" /\ UNCHANGED <<path, hfile, fa, bc_set, bcs_list, heap, loads>>

(* fm_free and dlclose; what is not allocated kills the process.           *)
Free(blocks, then) ==
  IF blocks \subseteq heap THEN heap' = heap \ blocks /\ bc' = then
                           ELSE bc' = "dead" /\ UNCHANGED heap

(* func_array_free gives the names and the structure back; the array only  *)
(* where it is NULL. byte_code_set_free does not give the name back.       *)
FuncArray == {Block("fa", loads)} \cup {Name(loads, k) : k \in DOMAIN fa.array}
SetBlocks == IF bc_set = NoSet THEN {} ELSE {Block("set", loads), Block("set.bc", loads)}

----------------------------------------------------------------------------
(* A file that is not called lib<name>.so is given up before anything is   *)
(* allocated; so is a load without memory for the array of names.          *)
BcBegin(p) ==
  /\ bc = "idle"
  /\ path' = p /\ hfile' = Lib[p].header /\ bc_set' = NoSet
  /\ \/ bc' = "failed" /\ fa' = NoFa /\ UNCHANGED <<heap, loads>>
     \/ /\ Lib[p].named
        /\ loads' = loads + 1
        /\ heap' = heap \cup {Block("fa", loads'), Block("array", loads')}
        /\ fa' = [size |-> BYCODE_SIZE, base |-> 0, array |-> <<>>]
        /\ bc' = "open"
  /\ UNCHANGED bcs_list

(* bcloader_get_funcs_name; the file is not closed.                        *)
BcOpen ==
  /\ bc = "open"
  /\ IF Lib[path].hasHeader
     THEN heap' = heap \cup {Block("file", loads)} /\ bc' = "line"
     ELSE Free(FuncArray, "failed")
  /\ UNCHANGED <<path, hfile, fa, bc_set, bcs_list, loads>>

(* Mutant: the name is stored without growing a full array.                *)
func_array_add_entry_fixed(name) ==
  IF Len(fa.array) >= fa.size THEN fa ELSE [fa EXCEPT !.array = Append(@, name)]

(* func_array_resize doubles the array and keeps the names.                *)
func_array_add_entry(name) ==
  [fa EXCEPT !.size = IF Len(fa.array) >= fa.size THEN 2 * @ ELSE @,
             !.array = Append(@, name)]

(* Without memory for a name or for a larger array it stores to null.      *)
BcLine ==
  /\ bc = "line" /\ hfile # <<>>
  /\ LET line == Head(hfile) IN
     \/ line.kind = "func" /\ BcDie
     \/ /\ \/ line.kind = "skip" /\ UNCHANGED <<fa, heap>>
           \/ line.kind = "base" /\ fa' = [fa EXCEPT !.base = line.base] /\ UNCHANGED heap
           \/ /\ line.kind = "func"
              /\ heap' = heap \cup {Name(loads, Len(fa.array) + 1)}
              /\ fa' = func_array_add_entry(line.name)
        /\ hfile' = Tail(hfile)
        /\ UNCHANGED <<bc, path, bc_set, bcs_list, loads>>

(* byte_code_set_alloc, whose result is not tested. Without memory for the *)
(* name it frees a null pointer and leaves the set allocated.              *)
BcAlloc ==
  /\ bc = "line" /\ hfile = <<>>
  /\ bc' = "dlopen"
  /\ \/ /\ bc_set' = [load |-> loads, path |-> path, base |-> fa.base, cnt |-> Len(fa.array),
                      bc |-> <<>>]
        /\ heap' = heap \cup {Block(w, loads) : w \in {"set", "set.name", "set.bc"}}
     \/ heap' \in {heap, heap \cup {Block("set", loads)}} /\ UNCHANGED bc_set
  /\ UNCHANGED <<path, hfile, fa, bcs_list, loads>>

BcDlopen ==
  /\ bc = "dlopen"
  /\ IF Lib[path].opens
     THEN heap' = heap \cup {Block("dl", loads)} /\ bc' = "dlsym"
     ELSE Free(FuncArray \cup SetBlocks, "failed")
  /\ UNCHANGED <<path, hfile, fa, bc_set, bcs_list, loads>>

(* Mutant: the library stays open where a name is not in it.               *)
BcDlsymLeaves ==
  /\ bc = "dlsym" /\ Len(bc_set.bc) < Len(fa.array)
  /\ LET name == fa.array[Len(bc_set.bc) + 1] IN
     IF name \notin Lib[path].symbols
     THEN Free(FuncArray \cup SetBlocks, "failed") /\ UNCHANGED bc_set
     ELSE IF bc_set = NoSet THEN bc' = "dead" /\ UNCHANGED <<bc_set, heap>>
     ELSE bc_set' = [bc_set EXCEPT !.bc = Append(@, name)] /\ UNCHANGED <<bc, heap>>
  /\ UNCHANGED <<path, hfile, fa, bcs_list, loads>>

BcDlsym ==
  /\ bc = "dlsym" /\ Len(bc_set.bc) < Len(fa.array)
  /\ LET name == fa.array[Len(bc_set.bc) + 1] IN
     IF name \notin Lib[path].symbols
     THEN Free(FuncArray \cup SetBlocks \cup {Block("dl", loads)}, "failed") /\ UNCHANGED bc_set
     ELSE IF bc_set = NoSet THEN bc' = "dead" /\ UNCHANGED <<bc_set, heap>>
     ELSE bc_set' = [bc_set EXCEPT !.bc = Append(@, name)] /\ UNCHANGED <<bc, heap>>
  /\ UNCHANGED <<path, hfile, fa, bcs_list, loads>>

(* The set is listed only when every name was found.                       *)
BcList ==
  /\ bc = "dlsym" /\ Len(bc_set.bc) = Len(fa.array)
  /\ IF bc_set = NoSet
     THEN bc' = "dead" /\ UNCHANGED <<bcs_list, heap>>
     ELSE bcs_list' = Append(bcs_list, bc_set) /\ Free(FuncArray, "loaded")
  /\ UNCHANGED <<path, hfile, fa, bc_set, loads>>

BcStep == BcOpen \/ BcLine \/ BcAlloc \/ BcDlopen \/ BcDlsym \/ BcList

----------------------------------------------------------------------------
BcTypeOK ==
  /\ bc \in {"idle", "open", "line", "dlopen", "dlsym", "loaded", "failed", "dead"}
  /\ path \in Paths /\ hfile \in Seq(HLine)
  /\ fa \in [size : Nat, base : Nat, array : Seq(Symbols)]
  /\ bc_set \in Set /\ bcs_list \in Seq(Set)
  /\ heap \subseteq [what : Kinds, load : Nat, k : Nat]
  /\ loads \in Nat

(* The lines of one kind among the first n of a header, the names they     *)
(* give, each at the place its line has among them, and the last base.     *)
Lines(header, n, kind) == {i \in 1..n : header[i].kind = kind}

NamesOf(names, header, n) ==
  /\ Len(names) = Cardinality(Lines(header, n, "func"))
  /\ \A i \in Lines(header, n, "func") :
       names[Cardinality(Lines(header, i, "func"))] = header[i].name

BaseOf(header, n) ==
  LET bases == Lines(header, n, "base") IN
  IF bases = {} THEN 0 ELSE header[CHOOSE i \in bases : \A j \in bases : j <= i].base

(* A library is listed whole, with every function its header names bound   *)
(* in the header's order and with the last BC_BASE of it, and what it      *)
(* points to is allocated; a library that is asked for by its file name is *)
(* listed once (tsm_bcloader.c:60-67, 258-272, tsm_ccb.c:88-97).           *)
ListedLibrariesAreWhole ==
  \A n \in DOMAIN bcs_list : LET s == bcs_list[n]
                                 header == Lib[s.path].header IN
    /\ NamesOf(s.bc, header, Len(header)) /\ s.cnt = Len(s.bc)
    /\ s.base = BaseOf(header, Len(header))
    /\ {Block(w, s.load) : w \in {"set", "set.name", "set.bc", "dl"}} \subseteq heap
    /\ ~Lib[s.path].inDir =>
         \A m \in 1..n - 1 : Lib[bcs_list[m].path].file # Lib[s.path].file
    /\ \A m \in DOMAIN bcs_list : bcs_list[m].load = s.load => m = n

(* A load that failed leaves nothing a later one could find: of what it    *)
(* allocated the array of names, the name of the set, a set that got no    *)
(* name and the open header stay behind; a load that succeeded keeps its   *)
(* set besides. And wherever a load may fail, what is given back then is   *)
(* allocated (tsm_bcloader.c:68-82, 105-111, 272-286).                     *)
Listed(n) == \E m \in DOMAIN bcs_list : bcs_list[m].load = n
Left(b) ==
  \/ b.what \in {"array", "set.name", "file"}
  \/ b.what \in {"set", "set.bc", "dl"} /\ Listed(b.load)
  \/ b.what = "set" /\ Block("set.name", b.load) \notin heap
LoadsLeaveOnly ==
  /\ bc \in {"idle", "loaded", "failed"} => \A b \in heap : Left(b)
  /\ bc \in {"open", "line", "dlopen", "dlsym"} => FuncArray \cup SetBlocks \subseteq heap
  /\ bc = "dlsym" => Block("dl", loads) \in heap
=============================================================================
