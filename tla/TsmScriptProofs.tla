-------------------------- MODULE TsmScriptProofs --------------------------
(***************************************************************************)
(* Proofs about the loaders and those who call them, for scripts and       *)
(* libraries of every kind and length, arrays of every size, and whatever  *)
(* allocation fails; and about what the data byte codes of a script that   *)
(* was loaded make of the table, however many ran.                         *)
(*                                                                         *)
(* The data byte codes' loops are recursive functions: what they are is    *)
(* proved by induction over the set of the lengths it holds for, from the  *)
(* well-foundedness of Nat.                                                *)
(***************************************************************************)
EXTENDS TsmScript, SequenceTheorems, FiniteSetTheorems, WellFoundedInduction, TLAPS

----------------------------------------------------------------------------
(* The script loader.                                                      *)

(* The two parts of ScriptWhole: the array, and what its pointers point to.*)
ArrayWhole ==
  \A k \in 1..se.code_num :
    k <= Len(ces) /\ (Kept(k) \/ k = se.code_num) => ces[k] = k

EntryWhole(k) ==
  /\ entry[k].addr = k - 1
  /\ entry[k].code = CodeOf(read[k])
  /\ Len(entry[k].array) <= entry[k].size
  /\ ~oom /\ Len(ArgsOf(read[k])) <= 2 * PARAM_NUM => entry[k].lost = 0
  /\ entry[k].lost = 0 /\ (sc \notin {"param", "dead"} \/ k < LastEntry)
       => entry[k].array = ArgsOf(read[k])

(* There is one entry for each line that was read, one more than pointers  *)
(* while the last one is not stored; the parameters stored, if none is     *)
(* lost, and those to come are those of the line; the array never is       *)
(* shorter than at first.                                                  *)
ScProgress ==
  /\ Len(read) = Len(entry)
  /\ sc = "idle" => entry = <<>> /\ se = NoScript
  /\ sc = "read" => Len(entry) = se.code_num
  /\ sc \in {"param", "store"} => Len(entry) = se.code_num + 1
  /\ se = NoScript \/ (se.size = SC_ENTRY_NUM /\ SC_ENTRY_NUM <= Len(ces))
  /\ sc = "param" /\ entry[LastEntry].lost = 0
       => entry[LastEntry].array \o rest = ArgsOf(read[LastEntry])

ScInv == ScTypeOK /\ ScProgress /\ ArrayWhole /\ \A k \in DOMAIN entry : EntryWhole(k)

LEMMA ScInvWhole == ScInv => ScriptWhole
  BY DEF ScInv, ScriptWhole, ArrayWhole, EntryWhole

LEMMA ScInitInv == (ScInit => ScInv) /\ (ScInit' => ScInv')
<1>1. <<>> \in Seq(Line) /\ <<>> \in Seq(Texts) /\ <<>> \in Seq(Nat \cup {Wild})
      /\ <<>> \in Seq(CodeEntry) /\ Len(<<>>) = 0 /\ DOMAIN <<>> = {}
  OBVIOUS
<1>2. NoScript \in [size : Nat, code_num : Nat] /\ NoScript.code_num = 0
  BY DEF NoScript
<1>3. ScInit => ScInv
  <2> SUFFICES ASSUME ScInit PROVE ScInv
    OBVIOUS
  <2>1. ScTypeOK
    BY <1>1, <1>2 DEF ScInit, ScTypeOK
  <2>2. ScProgress
    BY <1>1 DEF ScInit, ScProgress
  <2>3. ArrayWhole
    BY <1>2 DEF ScInit, ArrayWhole
  <2>4. DOMAIN entry = {}
    BY <1>1 DEF ScInit
  <2> QED
    BY <2>1, <2>2, <2>3, <2>4 DEF ScInv
<1>4. ScInit' => ScInv'
  <2> SUFFICES ASSUME ScInit' PROVE ScInv'
    OBVIOUS
  <2>1. ScTypeOK'
    BY <1>1, <1>2 DEF ScInit, ScTypeOK
  <2>2. ScProgress'
    BY <1>1 DEF ScInit, ScProgress
  <2>3. ArrayWhole'
    BY <1>2 DEF ScInit, ArrayWhole
  <2>4. DOMAIN entry' = {}
    BY <1>1 DEF ScInit
  <2> QED
    BY <2>1, <2>2, <2>3, <2>4 DEF ScInv
<1> QED
  BY <1>3, <1>4

LEMMA ScStutter == ScInv /\ UNCHANGED scVars => ScInv'
  BY DEF scVars, ScInv, ScTypeOK, ScProgress, ArrayWhole, EntryWhole, Kept, LastEntry

(* Appending one entry and one line.                                       *)
LEMMA AppendOne ==
  ASSUME NEW S, NEW s \in Seq(S), NEW x \in S
  PROVE  /\ Append(s, x) \in Seq(S) /\ Len(Append(s, x)) = Len(s) + 1
         /\ Append(s, x)[Len(s) + 1] = x
         /\ \A k \in 1..Len(s) : Append(s, x)[k] = s[k]
         /\ DOMAIN Append(s, x) = 1..Len(s) + 1
  OBVIOUS

LEMMA HeadFirst ==
  ASSUME NEW S, NEW s \in Seq(S), NEW r \in Seq(S), r # <<>>
  PROVE  Append(s, Head(r)) \o Tail(r) = s \o r
<1>1. Head(r) \in S /\ Tail(r) \in Seq(S) /\ Len(Tail(r)) = Len(r) - 1
      /\ \A i \in 1 .. Len(Tail(r)) : Tail(r)[i] = r[i + 1]
  BY HeadTailProperties
<1>2. Append(s, Head(r)) \in Seq(S) /\ Len(Append(s, Head(r))) = Len(s) + 1
  BY <1>1, AppendOne
<1>3. s \o r \in Seq(S) /\ Append(s, Head(r)) \o Tail(r) \in Seq(S)
  BY <1>1, <1>2, ConcatProperties
<1>4. Len(s \o r) = Len(Append(s, Head(r)) \o Tail(r))
  BY <1>1, <1>2, ConcatProperties, LenProperties
<1>5. ASSUME NEW i \in 1 .. Len(s \o r)
      PROVE  (s \o r)[i] = (Append(s, Head(r)) \o Tail(r))[i]
  <2>1. Len(s) \in Nat /\ Len(r) \in Nat \ {0}
    BY EmptySeq, LenProperties
  <2>2. (s \o r)[i] = IF i <= Len(s) THEN s[i] ELSE r[i - Len(s)]
    BY <1>5, ConcatProperties
  <2>3. (Append(s, Head(r)) \o Tail(r))[i]
          = IF i <= Len(s) + 1 THEN Append(s, Head(r))[i] ELSE Tail(r)[i - (Len(s) + 1)]
    BY <1>1, <1>2, <1>4, <1>5, <2>1, ConcatProperties
  <2>4. Head(r) = r[1]
    OBVIOUS
  <2>5. i \in 1 .. Len(s) + Len(r)
    BY <1>5, ConcatProperties
  <2>6. CASE i <= Len(s)
    BY <1>1, <2>1, <2>2, <2>3, <2>5, <2>6, AppendOne
  <2>7. CASE i = Len(s) + 1
    BY <1>1, <2>1, <2>2, <2>3, <2>4, <2>7, AppendOne
  <2>8. CASE i > Len(s) + 1
    <3>1. i - (Len(s) + 1) \in 1 .. Len(Tail(r)) /\ (i - (Len(s) + 1)) + 1 = i - Len(s)
      BY <1>1, <2>1, <2>5, <2>8
    <3> QED
      BY <1>1, <2>1, <2>2, <2>3, <2>5, <2>8, <3>1
  <2> QED
    BY <2>1, <2>5, <2>6, <2>7, <2>8
<1> QED
  BY <1>3, <1>4, <1>5, SeqEqual

(* What is known of the entry at work.                                     *)
LEMMA ScFacts ==
  ASSUME ScInv
  PROVE  /\ entry \in Seq(CodeEntry) /\ read \in Seq(Line) /\ file \in Seq(Line)
         /\ rest \in Seq(Texts) /\ ces \in Seq(Nat \cup {Wild})
         /\ se \in [size : Nat, code_num : Nat] /\ oom \in BOOLEAN
         /\ Len(entry) \in Nat /\ Len(ces) \in Nat /\ Len(read) = Len(entry)
         /\ DOMAIN entry = 1..Len(entry)
         /\ \A k \in 1..Len(entry) : entry[k] \in CodeEntry /\ read[k] \in Line
  BY LenProperties, ElementOfSeq DEF ScInv, ScTypeOK, ScProgress

(* What is kept by a step that leaves the entries and the array.           *)
LEMMA ScArraysKeep ==
  ASSUME ScInv, UNCHANGED <<se, ces, entry, read>>, oom' \in BOOLEAN, oom => oom'
  PROVE  /\ ArrayWhole'
         /\ \A k \in DOMAIN entry : (sc \notin {"param", "dead"} \/ sc' \in {"param", "dead"})
                                    => EntryWhole(k)'
  BY DEF ScInv, ArrayWhole, EntryWhole, Kept, LastEntry

LEMMA ScNoFileInv == ScInv /\ ScNoFile => ScInv'
<1> SUFFICES ASSUME ScInv, ScNoFile PROVE ScInv'
  OBVIOUS
<1>1. ArrayWhole' /\ \A k \in DOMAIN entry' : EntryWhole(k)'
  BY ScFacts, ScArraysKeep DEF ScNoFile
<1> QED
  BY <1>1 DEF ScNoFile, ScInv, ScTypeOK, ScProgress, LastEntry

(* A new script has room for SC_ENTRY_NUM entries and none in it.          *)
LEMMA ScOpenInv ==
  ASSUME NEW lines \in Seq(Line), ScInv, ScOpen(lines)
  PROVE  ScInv'
<1>1. entry = <<>> /\ read = <<>> /\ se = NoScript /\ sc' = "read" /\ entry' = <<>> /\ read' = <<>>
      /\ rest' = rest /\ file' = lines /\ oom' \in BOOLEAN
  <2>1. entry = <<>> /\ Len(read) = 0 /\ se = NoScript
    BY DEF ScOpen, ScInv, ScProgress
  <2> QED
    BY <2>1, EmptySeq, ScFacts DEF ScOpen
<1>2. se' \in [size : Nat, code_num : Nat] /\ se'.code_num = 0 /\ ces' \in Seq(Nat \cup {Wild})
      /\ (se' = NoScript \/ (se'.size = SC_ENTRY_NUM /\ SC_ENTRY_NUM <= Len(ces')))
  <2>1. CASE se' = [size |-> SC_ENTRY_NUM, code_num |-> 0]
             /\ ces' = [k \in 1..SC_ENTRY_NUM |-> Null]
    <3>1. ces' \in Seq(Nat \cup {Wild}) /\ Len(ces') = SC_ENTRY_NUM
      BY <2>1, ScEntryAssumption DEF Null
    <3> QED
      BY <2>1, <3>1, ScEntryAssumption
  <2>2. CASE UNCHANGED <<se, ces>>
    BY <1>1, <2>2, ScFacts DEF NoScript
  <2> QED
    BY <2>1, <2>2 DEF ScOpen
<1> QED
  BY <1>1, <1>2, ScFacts DEF ScInv, ScTypeOK, ScProgress, ArrayWhole

(* A line that is skipped changes nothing else; any other makes an entry   *)
(* with the address behind the last one's and without parameters as yet.   *)
LEMMA ScLineInv == ScInv /\ ScLine => ScInv'
<1> SUFFICES ASSUME ScInv, ScLine PROVE ScInv'
  OBVIOUS
<1> DEFINE line == Head(file)
<1>1. line \in Line /\ Tail(file) \in Seq(Line) /\ file # <<>> /\ sc = "read"
  BY ScFacts, HeadTailProperties DEF ScLine
<1>2. CASE line.kind = "bare" /\ ScDie
  <2>1. ArrayWhole' /\ \A k \in DOMAIN entry' : EntryWhole(k)'
    BY <1>2, ScFacts, ScArraysKeep DEF ScDie
  <2> QED
    BY <1>1, <1>2, <2>1 DEF ScDie, ScInv, ScTypeOK, ScProgress, LastEntry
<1>3. CASE line.kind = "skip" /\ file' = Tail(file)
           /\ UNCHANGED <<sc, rest, se, ces, entry, read, oom>>
  <2>1. ArrayWhole' /\ \A k \in DOMAIN entry' : EntryWhole(k)'
    BY <1>1, <1>3, ScFacts, ScArraysKeep
  <2> QED
    BY <1>1, <1>3, <2>1 DEF ScInv, ScTypeOK, ScProgress, LastEntry
<1>4. CASE /\ line.kind \in {"empty", "code", "args"}
           /\ file' = Tail(file)
           /\ entry' = Append(entry, NewEntry(line))
           /\ read' = Append(read, line)
           /\ IF line.kind = "args" THEN sc' = "param" /\ rest' = line.args
                                    ELSE sc' = "store" /\ rest' = <<>>
           /\ UNCHANGED <<se, ces, oom>>
  <2>1. /\ NewEntry(line) \in CodeEntry /\ NewEntry(line).addr = Len(entry)
        /\ NewEntry(line).code = CodeOf(line) /\ NewEntry(line).array = <<>>
        /\ NewEntry(line).size \in Nat /\ NewEntry(line).lost = 0
    <3>1. line.code \in Codes /\ 0 \in Codes /\ <<>> \in Seq(Texts) /\ Len(entry) \in Nat
      BY <1>1, CodesAssumption, ScFacts DEF Line
    <3> QED
      BY <3>1, ParamAssumption DEF NewEntry, CodeEntry, CodeOf
  <2>2. /\ entry' \in Seq(CodeEntry) /\ Len(entry') = Len(entry) + 1
        /\ entry'[Len(entry) + 1] = NewEntry(line)
        /\ \A k \in 1..Len(entry) : entry'[k] = entry[k]
        /\ DOMAIN entry' = 1..Len(entry) + 1
    BY <1>4, <2>1, ScFacts, AppendOne
  <2>3. /\ read' \in Seq(Line) /\ Len(read') = Len(entry) + 1
        /\ read'[Len(entry) + 1] = line
        /\ \A k \in 1..Len(entry) : read'[k] = read[k]
    BY <1>1, <1>4, ScFacts, AppendOne
  <2>4. sc' \in {"param", "store"} /\ rest' \in Seq(Texts) /\ line.args \in Seq(Texts)
        /\ (sc' = "param" => rest' = ArgsOf(line))
        /\ (sc' = "store" => ArgsOf(line) = <<>>)
    <3>1. line.args \in Seq(Texts) /\ <<>> \in Seq(Texts)
      BY <1>1 DEF Line
    <3> QED
      BY <1>4, <3>1 DEF ArgsOf
  <2>5. Len(entry) = se.code_num
    BY <1>1 DEF ScInv, ScProgress
  <2>6. ArrayWhole'
    BY <1>4 DEF ScInv, ArrayWhole, Kept
  <2>7. ASSUME NEW k \in 1..Len(entry) PROVE EntryWhole(k)'
    <3>1. EntryWhole(k) /\ entry'[k] = entry[k] /\ read'[k] = read[k]
      BY <2>2, <2>3, <2>7, ScFacts DEF ScInv
    <3> QED
      BY <1>1, <1>4, <3>1 DEF EntryWhole
  <2>8. ASSUME NEW k, k = Len(entry) + 1 PROVE EntryWhole(k)'
    <3>1. Len(<<>>) = 0 /\ ArgsOf(line) \in Seq(Texts) /\ Len(entry) \in Nat
      BY <2>4, ScFacts DEF ArgsOf
    <3>2. entry'[k] = NewEntry(line) /\ read'[k] = line /\ LastEntry' = k
      BY <2>2, <2>3, <2>8 DEF LastEntry
    <3>3. Len(entry) = k - 1 /\ ~(k < LastEntry')
      BY <2>8, <3>1, <3>2
    <3>4. sc' \notin {"param", "dead"} => ArgsOf(line) = <<>>
      BY <2>4
    <3>5. Len(entry'[k].array) <= entry'[k].size /\ entry'[k].lost = 0
      BY <2>1, <3>1, <3>2
    <3>6. entry'[k].addr = k - 1 /\ entry'[k].code = CodeOf(read'[k]) /\ entry'[k].array = <<>>
      BY <2>1, <3>2, <3>3
    <3> QED
      BY <3>2, <3>3, <3>4, <3>5, <3>6 DEF EntryWhole
  <2>9. sc' = "param" => entry'[LastEntry'].array \o rest' = ArgsOf(read'[LastEntry'])
    <3>1. sc' = "param" => <<>> \o rest' = rest'
      BY <2>4, ConcatEmptySeq
    <3> QED
      BY <2>1, <2>2, <2>3, <2>4, <3>1 DEF LastEntry
  <2>10. ScProgress'
    <3>1. Len(entry) \in Nat /\ se' = se /\ ces' = ces
      BY <1>4, ScFacts
    <3>2. Len(read') = Len(entry') /\ Len(entry') = se'.code_num + 1
      BY <2>2, <2>3, <2>5, <3>1
    <3>3. se' = NoScript \/ (se'.size = SC_ENTRY_NUM /\ SC_ENTRY_NUM <= Len(ces'))
      BY <3>1 DEF ScInv, ScProgress
    <3> QED
      BY <2>4, <2>9, <3>2, <3>3 DEF ScProgress
  <2>11. ScTypeOK'
    BY <1>1, <1>4, <2>2, <2>3, <2>4 DEF ScInv, ScTypeOK
  <2>12. ASSUME NEW k \in DOMAIN entry' PROVE EntryWhole(k)'
    <3>1. k \in 1..Len(entry) \/ k = Len(entry) + 1
      BY <2>2, <2>12, ScFacts
    <3> QED
      BY <2>7, <2>8, <3>1
  <2> QED
    BY <2>6, <2>10, <2>11, <2>12 DEF ScInv
<1> QED
  BY <1>2, <1>3, <1>4 DEF ScLine

(* Steps that leave entries and array alone.                               *)
LEMMA ScPlainInv ==
  ScInv /\ (ScNoMemory \/ ScEnd \/ ScStoreNowhere) => ScInv'
<1> SUFFICES ASSUME ScInv, ScNoMemory \/ ScEnd \/ ScStoreNowhere PROVE ScInv'
  OBVIOUS
<1>1. /\ UNCHANGED <<file, rest, se, ces, entry, read>> /\ oom' \in BOOLEAN /\ (oom => oom')
      /\ sc' \in {"dead", "done"} /\ (sc' = "done" => sc = "read")
  <2>1. CASE ScNoMemory
    BY <2>1 DEF ScNoMemory
  <2>2. CASE ScEnd \/ ScStoreNowhere
    BY <2>2, ScFacts DEF ScEnd, ScStoreNowhere, ScDie
  <2> QED
    BY <2>1, <2>2
<1>2. ArrayWhole' /\ \A k \in DOMAIN entry' : EntryWhole(k)'
  BY <1>1, ScFacts, ScArraysKeep
<1> QED
  BY <1>1, <1>2 DEF ScInv, ScTypeOK, ScProgress, LastEntry

(* When no parameter is left, those stored are those of the line.          *)
LEMMA ScParamEndInv == ScInv /\ ScParamEnd => ScInv'
<1> SUFFICES ASSUME ScInv, ScParamEnd PROVE ScInv'
  OBVIOUS
<1>1. /\ UNCHANGED <<file, rest, se, ces, entry, read, oom>>
      /\ sc = "param" /\ sc' = "store" /\ rest = <<>>
  BY DEF ScParamEnd
<1>2. Len(entry) = se.code_num + 1 /\ se.code_num \in Nat /\ LastEntry \in DOMAIN entry
      /\ entry[LastEntry].array \in Seq(Texts)
  <2>1. Len(entry) = se.code_num + 1 /\ se.code_num \in Nat
    BY <1>1, ScFacts DEF ScInv, ScProgress
  <2>2. LastEntry \in 1..Len(entry)
    BY <2>1, ScFacts DEF LastEntry
  <2>3. entry[LastEntry] \in CodeEntry
    BY <2>2, ScFacts
  <2> QED
    BY <2>1, <2>2, <2>3, ScFacts DEF CodeEntry
<1>3. entry[LastEntry].lost = 0 => entry[LastEntry].array = ArgsOf(read[LastEntry])
  BY <1>1, <1>2, ConcatEmptySeq DEF ScInv, ScProgress
<1>4. ArrayWhole'
  BY <1>1, ScFacts, ScArraysKeep
<1>5. ASSUME NEW k \in DOMAIN entry PROVE EntryWhole(k)'
  <2>1. EntryWhole(k) /\ k \in 1..LastEntry
    BY ScFacts DEF ScInv, LastEntry
  <2>2. k < LastEntry \/ k = LastEntry
    BY <2>1, ScFacts DEF LastEntry
  <2> QED
    BY <1>1, <1>3, <2>1, <2>2 DEF EntryWhole, LastEntry
<1> QED
  BY <1>1, <1>2, <1>4, <1>5 DEF ScInv, ScTypeOK, ScProgress, LastEntry

(* A parameter goes from "rest" to its entry, and an array that was full   *)
(* is at least as long as before and, with memory, twice the default.      *)
LEMMA StoredParamFacts ==
  ASSUME NEW e \in CodeEntry, NEW size \in Nat, NEW p \in Texts
  PROVE  LET new  == StoredParam(e, size, p)
             fits == e.lost = 0 /\ Len(e.array) < size IN
         /\ new \in CodeEntry /\ new.addr = e.addr /\ new.code = e.code /\ new.size = size
         /\ fits => new.lost = 0 /\ new.array = Append(e.array, p)
         /\ ~fits => new.lost = e.lost + 1 /\ new.array = e.array
<1>1. e.array \in Seq(Texts) /\ e.lost \in Nat
  BY DEF CodeEntry
<1>2. Append(e.array, p) \in Seq(Texts)
  BY <1>1, AppendOne
<1>3. CASE e.lost = 0 /\ Len(e.array) < size
  <2>1. StoredParam(e, size, p) = [e EXCEPT !.size = size, !.array = Append(e.array, p)]
    BY <1>3 DEF StoredParam
  <2> QED
    BY <1>2, <1>3, <2>1 DEF CodeEntry
<1>4. CASE ~(e.lost = 0 /\ Len(e.array) < size)
  <2>1. StoredParam(e, size, p) = [e EXCEPT !.size = size, !.lost = e.lost + 1]
    BY <1>4 DEF StoredParam
  <2> DEFINE new == [e EXCEPT !.size = size, !.lost = e.lost + 1]
  <2>2. e.lost + 1 \in Nat
    BY <1>1
  <2>3. new \in CodeEntry
    BY <2>2 DEF CodeEntry
  <2>4. /\ new.addr = e.addr /\ new.code = e.code /\ new.size = size
        /\ new.lost = e.lost + 1 /\ new.array = e.array
    BY DEF CodeEntry
  <2> QED
    BY <1>4, <2>1, <2>3, <2>4
<1> QED
  BY <1>3, <1>4

LEMMA ScParamInv == ScInv /\ ScParam => ScInv'
<1> SUFFICES ASSUME ScInv, ScParam PROVE ScInv'
  OBVIOUS
<1> DEFINE last == Len(entry)
           e    == entry[last]
<1>1. /\ sc = "param" /\ rest # <<>> /\ UNCHANGED <<file, se, ces, read>>
      /\ Head(rest) \in Texts /\ Tail(rest) \in Seq(Texts)
  BY ScFacts, HeadTailProperties DEF ScParam
<1>2. last = se.code_num + 1 /\ se.code_num \in Nat /\ last \in 1..Len(entry)
  BY <1>1, ScFacts DEF ScInv, ScProgress
<1>3. /\ e \in CodeEntry /\ e.size \in Nat /\ e.array \in Seq(Texts)
      /\ Len(e.array) \in Nat /\ e.lost \in Nat
  BY <1>2, ScFacts DEF CodeEntry
<1>4. e.lost = 0 => e.array \o rest = ArgsOf(read[last])
  BY <1>1 DEF ScInv, ScProgress, LastEntry
<1>5. EntryWhole(last)
  BY <1>2, ScFacts DEF ScInv
<1>6. PARAM_NUM \in Nat \ {0}
  BY ParamAssumption
<1> DEFINE asked == fmBytes_array_resize(e.size, 2 * PARAM_NUM)
<1>7. PICK size \in IF Full(e) THEN {asked, e.size} ELSE {e.size} :
        /\ oom' = (oom \/ (Full(e) /\ size # asked))
        /\ \/ /\ entry' = [entry EXCEPT ![last] = StoredParam(e, size, Head(rest))]
              /\ rest' = Tail(rest)
              /\ UNCHANGED sc
           \/ /\ Cnt(e) >= size
              /\ sc' = "dead"
              /\ UNCHANGED <<entry, rest>>
  BY DEF ScParam, LastEntry
<1>8. /\ size \in Nat /\ e.size <= size /\ oom' \in BOOLEAN /\ (oom => oom')
      /\ ~oom' /\ Full(e) => 2 * PARAM_NUM <= size
  <2>1. asked \in Nat /\ e.size <= asked /\ 2 * PARAM_NUM <= asked
    BY <1>3, <1>6 DEF fmBytes_array_resize
  <2>2. oom \in BOOLEAN /\ e.size \in Nat
    BY <1>3, ScFacts
  <2>3. /\ Full(e) => size \in {asked, e.size}
        /\ ~Full(e) => size = e.size
        /\ oom' = (oom \/ (Full(e) /\ size # asked))
    BY <1>7
  <2> HIDE DEF asked, e
  <2>4. size = asked \/ size = e.size
    BY <2>3
  <2>5. size \in Nat /\ e.size <= size
    BY <2>1, <2>2, <2>4
  <2>6. ~oom' /\ Full(e) => size = asked
    BY <2>2, <2>3
  <2>7. oom' \in BOOLEAN /\ (oom => oom')
    BY <2>2, <2>3
  <2> QED
    BY <2>1, <2>5, <2>6, <2>7
<1>9. ArrayWhole'
  BY <1>1 DEF ScInv, ArrayWhole, Kept
<1>10. CASE sc' = "dead" /\ UNCHANGED <<entry, rest>>
  <2>1. \A k \in DOMAIN entry' : EntryWhole(k)'
    BY <1>1, <1>8, <1>10, ScFacts, ScArraysKeep
  <2> QED
    BY <1>1, <1>8, <1>9, <1>10, <2>1 DEF ScInv, ScTypeOK, ScProgress, LastEntry
<1>11. CASE /\ entry' = [entry EXCEPT ![last] = StoredParam(e, size, Head(rest))]
            /\ rest' = Tail(rest)
            /\ UNCHANGED sc
  <2>1. Append(e.array, Head(rest)) \in Seq(Texts)
        /\ Len(Append(e.array, Head(rest))) = Len(e.array) + 1
    BY <1>1, <1>3, AppendOne
  <2> DEFINE new == StoredParam(e, size, Head(rest))
             fits == e.lost = 0 /\ Len(e.array) < size
  <2>2. /\ new \in CodeEntry /\ new.addr = e.addr /\ new.code = e.code /\ new.size = size
        /\ fits => new.lost = 0 /\ new.array = Append(e.array, Head(rest))
        /\ ~fits => new.lost = e.lost + 1 /\ new.array = e.array
    BY <1>1, <1>3, <1>8, StoredParamFacts
  <2>3. entry' = [entry EXCEPT ![last] = new]
    BY <1>11
  <2> HIDE DEF new
  <2>4. /\ entry' \in Seq(CodeEntry) /\ Len(entry') = Len(entry) /\ entry'[last] = new
        /\ \A k \in 1..Len(entry) : k # last => entry'[k] = entry[k]
        /\ DOMAIN entry' = 1..Len(entry)
    BY <1>2, <2>2, <2>3, ScFacts, ExceptSeq
  <2>5. new.lost = 0 => new.array \o rest' = ArgsOf(read[last])
    <3> SUFFICES ASSUME new.lost = 0 PROVE new.array \o rest' = ArgsOf(read[last])
      OBVIOUS
    <3>1. fits /\ e.lost = 0 /\ new.array = Append(e.array, Head(rest))
      BY <1>3, <2>2
    <3>2. Append(e.array, Head(rest)) \o Tail(rest) = e.array \o rest
      BY <1>1, <1>3, HeadFirst, ScFacts
    <3> QED
      BY <1>4, <1>11, <3>1, <3>2
  <2>6. Len(new.array) <= size
    BY <1>3, <1>5, <1>8, <2>1, <2>2 DEF EntryWhole
  <2>7. ~oom' /\ Len(ArgsOf(read[last])) <= 2 * PARAM_NUM => new.lost = 0
    <3> SUFFICES ASSUME ~oom', Len(ArgsOf(read[last])) <= 2 * PARAM_NUM, ~fits
                 PROVE  FALSE
      BY <2>2
    <3>1. e.lost = 0
      BY <1>5, <1>8 DEF EntryWhole
    <3>2. Len(e.array) >= size /\ 2 * PARAM_NUM <= size
      BY <1>3, <1>6, <1>8, <3>1 DEF Full, Cnt
    <3>3. Len(e.array \o rest) = Len(e.array) + Len(rest) /\ Len(rest) \in Nat \ {0}
      BY <1>1, <1>3, ScFacts, EmptySeq, LenProperties, ConcatProperties
    <3> QED
      BY <1>3, <1>4, <1>6, <1>8, <3>1, <3>2, <3>3
  <2>8. ASSUME NEW k \in 1..Len(entry), k # last PROVE EntryWhole(k)'
    <3>1. EntryWhole(k) /\ entry'[k] = entry[k] /\ read'[k] = read[k] /\ LastEntry' = LastEntry
      BY <1>1, <2>4, <2>8, ScFacts DEF ScInv, LastEntry
    <3> QED
      BY <1>8, <1>11, <3>1 DEF EntryWhole
  <2>9. ASSUME NEW k, k = last PROVE EntryWhole(k)'
    <3>1. entry'[k] = new /\ read'[k] = read[last] /\ LastEntry' = last
      BY <1>1, <2>4, <2>9 DEF LastEntry
    <3>2. e.addr = last - 1 /\ e.code = CodeOf(read[last])
      BY <1>5 DEF EntryWhole
    <3>3. ~(k < LastEntry') /\ sc' = "param"
      BY <1>1, <1>2, <1>11, <2>9, <3>1
    <3> QED
      BY <2>2, <2>6, <2>7, <2>9, <3>1, <3>2, <3>3 DEF EntryWhole
  <2>10. \A k \in DOMAIN entry' : EntryWhole(k)'
    BY <2>4, <2>8, <2>9
  <2>11. ScProgress'
    <3>1. sc' = "param" /\ Len(entry') = se'.code_num + 1 /\ Len(read') = Len(entry')
      BY <1>1, <1>2, <1>11, <2>4, ScFacts
    <3>2. entry'[LastEntry'].lost = 0
            => entry'[LastEntry'].array \o rest' = ArgsOf(read'[LastEntry'])
      BY <1>1, <2>4, <2>5 DEF LastEntry
    <3>3. se' = NoScript \/ (se'.size = SC_ENTRY_NUM /\ SC_ENTRY_NUM <= Len(ces'))
      BY <1>1 DEF ScInv, ScProgress
    <3> QED
      BY <3>1, <3>2, <3>3 DEF ScProgress
  <2>12. ScTypeOK'
    BY <1>1, <1>8, <1>11, <2>4 DEF ScInv, ScTypeOK
  <2> QED
    BY <1>9, <2>10, <2>11, <2>12 DEF ScInv
<1> QED
  BY <1>7, <1>10, <1>11

(* What a pointer of the array is after its store, and that an array that  *)
(* was copied keeps the pointers whose bytes were.                         *)
LEMMA StoredInv ==
  ASSUME ScInv, sc = "store", se # NoScript, NEW array \in Seq(Nat \cup {Wild}),
         SC_ENTRY_NUM <= Len(array),
         \A k \in 1..se.code_num : k <= Len(array) /\ k <= SC_ENTRY_NUM
            /\ (se.code_num < SC_ENTRY_NUM \/ POINTER * k <= SC_ENTRY_NUM + 3) => array[k] = k,
         Stored(array), oom' \in BOOLEAN, oom => oom', UNCHANGED <<file, rest, entry, read>>
  PROVE  ScInv'
<1>1. /\ se.code_num \in Nat /\ Len(entry) = se.code_num + 1 /\ se.size = SC_ENTRY_NUM
      /\ Len(array) \in Nat /\ SC_ENTRY_NUM \in Nat \ {0} /\ POINTER \in {4, 8}
      /\ LastEntry = se.code_num + 1
  BY ScFacts, ScEntryAssumption, PointerAssumption, LenProperties DEF ScInv, ScProgress, LastEntry
<1>2. /\ se' = [size |-> SC_ENTRY_NUM, code_num |-> se.code_num + 1]
      /\ sc' \in {"read", "dead"}
  BY <1>1, ScFacts DEF Stored
<1>3. /\ ces' \in Seq(Nat \cup {Wild}) /\ Len(ces') = Len(array)
      /\ se.code_num + 1 <= Len(array) => ces'[se.code_num + 1] = se.code_num + 1
      /\ \A k \in 1..Len(array) : k # se.code_num + 1 => ces'[k] = array[k]
  <2>1. CASE se.code_num < Len(array)
    <3>1. ces' = [array EXCEPT ![se.code_num + 1] = LastEntry]
      BY <2>1 DEF Stored
    <3>2. se.code_num + 1 \in 1..Len(array) /\ LastEntry \in Nat \cup {Wild}
      BY <1>1, <2>1
    <3> QED
      BY <1>1, <3>1, <3>2, ExceptSeq
  <2>2. CASE ~(se.code_num < Len(array))
    BY <1>1, <2>2 DEF Stored
  <2> QED
    BY <2>1, <2>2
<1>4. ArrayWhole'
  <2> SUFFICES ASSUME NEW k \in 1..se.code_num + 1, k <= Len(array),
                      Kept(k)' \/ k = se.code_num + 1
               PROVE  ces'[k] = k
    BY <1>2, <1>3 DEF ArrayWhole
  <2>1. CASE k = se.code_num + 1
    BY <1>3, <2>1
  <2>2. CASE k # se.code_num + 1
    <3>1. k \in 1..se.code_num /\ k <= SC_ENTRY_NUM
          /\ (se.code_num + 1 <= SC_ENTRY_NUM \/ POINTER * k <= SC_ENTRY_NUM + 3)
      BY <1>1, <1>2, <2>2 DEF Kept
    <3>2. array[k] = k
      BY <1>1, <3>1
    <3> QED
      BY <1>1, <1>3, <2>2, <3>2
  <2> QED
    BY <2>1, <2>2
<1>5. ASSUME NEW k \in DOMAIN entry' PROVE EntryWhole(k)'
  <2>1. EntryWhole(k) /\ LastEntry' = LastEntry
    BY <1>5 DEF ScInv, LastEntry
  <2>2. entry' = entry /\ read' = read
    OBVIOUS
  <2> QED
    BY <2>1, <2>2 DEF EntryWhole
<1>6. ScProgress'
  <2>1. se'.code_num = se.code_num + 1 /\ se'.size = SC_ENTRY_NUM /\ Len(entry') = se.code_num + 1
        /\ Len(read') = Len(entry') /\ SC_ENTRY_NUM <= Len(ces')
    BY <1>1, <1>2, <1>3, ScFacts
  <2> QED
    BY <1>2, <2>1 DEF ScProgress
<1>7. ScTypeOK'
  BY <1>1, <1>2, <1>3 DEF ScInv, ScTypeOK
<1> QED
  BY <1>4, <1>5, <1>6, <1>7 DEF ScInv

LEMMA ScStoreInv == ScInv /\ ScStore => ScInv'
<1> SUFFICES ASSUME ScInv, ScStore PROVE ScInv'
  OBVIOUS
<1>1. /\ sc = "store" /\ se # NoScript /\ UNCHANGED <<file, rest, entry, read>>
      /\ se.code_num \in Nat /\ se.size = SC_ENTRY_NUM /\ SC_ENTRY_NUM <= Len(ces)
      /\ Len(ces) \in Nat /\ SC_ENTRY_NUM \in Nat \ {0} /\ POINTER \in {4, 8}
      /\ ces \in Seq(Nat \cup {Wild}) /\ DOMAIN ces = 1..Len(ces)
  BY ScFacts, ScEntryAssumption, PointerAssumption, LenProperties DEF ScStore, ScInv, ScProgress
<1> DEFINE Keeps(array) ==
      \A k \in 1..se.code_num : k <= Len(array) /\ k <= SC_ENTRY_NUM
         /\ (se.code_num < SC_ENTRY_NUM \/ POINTER * k <= SC_ENTRY_NUM + 3) => array[k] = k
<1>2. Keeps(ces)
  BY <1>1 DEF ScInv, ArrayWhole, Kept
<1>3. ASSUME ~Room
      PROVE  se_resize \in Seq(Nat \cup {Wild}) /\ SC_ENTRY_NUM <= Len(se_resize) /\ Keeps(se_resize)
  <2> DEFINE new == [k \in 1..2 * SC_ENTRY_NUM |-> Null]
             pointer(k) == IF k \in DOMAIN ces THEN ces[k] ELSE Wild
  <2>1. SC_ENTRY_NUM <= se.code_num
    BY <1>1, <1>3 DEF Room
  <2>2. DOMAIN new = 1..2 * SC_ENTRY_NUM /\ \A k \in DOMAIN new : new[k] = Null
    OBVIOUS
  <2>3. se_resize = [k \in 1..2 * SC_ENTRY_NUM |->
                       IF POINTER * k <= se.code_num + 3 THEN pointer(k)
                       ELSE IF POINTER * (k - 1) < se.code_num + 3 /\ pointer(k) # Null THEN Wild
                       ELSE Null]
    BY <1>1, <2>2 DEF se_resize, memcpy_int
  <2>4. \A k \in 1..2 * SC_ENTRY_NUM : pointer(k) \in Nat \cup {Wild}
    BY <1>1, ElementOfSeq
  <2>5. \A k \in 1..2 * SC_ENTRY_NUM : se_resize[k] \in Nat \cup {Wild}
    BY <2>3, <2>4 DEF Null
  <2>6. se_resize \in Seq(Nat \cup {Wild}) /\ Len(se_resize) = 2 * SC_ENTRY_NUM
    <3>1. se_resize \in [1..2 * SC_ENTRY_NUM -> Nat \cup {Wild}] /\ 2 * SC_ENTRY_NUM \in Nat
      BY <1>1, <2>3, <2>5
    <3> QED
      BY <3>1
  <2>7. ASSUME NEW k \in 1..se.code_num, k <= SC_ENTRY_NUM, POINTER * k <= SC_ENTRY_NUM + 3
        PROVE  se_resize[k] = k
    <3>1. POINTER * k <= se.code_num + 3 /\ k \in 1..2 * SC_ENTRY_NUM /\ k \in DOMAIN ces
      BY <1>1, <2>1, <2>7
    <3>2. ces[k] = k
      BY <1>1, <1>2, <2>7, <3>1
    <3> QED
      BY <2>3, <3>1, <3>2
  <2> QED
    BY <1>1, <2>1, <2>6, <2>7
<1>4. CASE Room /\ Stored(ces) /\ UNCHANGED oom
  BY <1>1, <1>2, <1>4, ScFacts, StoredInv
<1>5. CASE ~Room /\ Stored(se_resize) /\ UNCHANGED oom
  BY <1>1, <1>3, <1>5, ScFacts, StoredInv
<1>6. CASE ~Room /\ Stored(ces) /\ oom' = TRUE
  BY <1>1, <1>2, <1>6, StoredInv
<1> QED
  BY <1>4, <1>5, <1>6 DEF ScStore

LEMMA ScStepInv == ScInv /\ ScStep => ScInv'
  BY ScLineInv, ScPlainInv, ScParamInv, ScParamEndInv, ScStoreInv DEF ScStep

----------------------------------------------------------------------------
(* Who calls the script loader: a script that is opened is one of lines,   *)
(* and nobody else touches what the loader made.                           *)
LEMMA TailTyped == ASSUME NEW S, NEW s \in Seq(S), s # <<>> PROVE Tail(s) \in Seq(S)
  BY HeadTailProperties

TlvInv ==
  /\ tlv \in Seq(Tlv)
  /\ cs \in {"dlload", "found", "missing"} => tlv # <<>>

LEMMA TlvInitInv == Init => TlvInv
  BY DEF Init, CreateInit, TlvInv

LEMMA TlvNextInv == TlvInv /\ [Next]_vars => TlvInv'
<1> SUFFICES ASSUME TlvInv, [Next]_vars PROVE TlvInv'
  OBVIOUS
<1>1. CASE UNCHANGED vars
  BY <1>1 DEF vars, createVars, TlvInv
<1>2. CASE MainStep
  BY <1>2 DEF TlvInv, MainStep, Main, MainLoad, LoadingScript, MainLoaded, MainPrint, Dies,
     createVars
<1>3. CASE Vm
  BY <1>3 DEF TlvInv, Vm, VmLoad, VmLoaded, VmRun, LoadingScript, Dies, createVars
<1>4. CASE \E msg \in Messages : CcbBegin(msg)
  BY <1>4, MessagesAssumption DEF TlvInv, CcbBegin
<1>5. CASE CcbSkip \/ CcbLeaveOut
  BY <1>5, TailTyped DEF TlvInv, CcbSkip, CcbLeaveOut, NextTlv
<1>6. CASE CcbSession \/ CcbScript \/ LoadingScript \/ CcbScriptLoaded \/ CcbTable
  BY <1>6 DEF TlvInv, CcbSession, CcbScript, LoadingScript, CcbScriptLoaded, CcbTable, Dies,
     createVars
<1>7. CASE CcbSearch \/ LoadingLibrary \/ CcbLoaded \/ ccb_add_bc \/ CcbEnd
  BY <1>7 DEF TlvInv, CcbSearch, LoadingLibrary, CcbLoaded, ccb_add_bc, CcbEnd, Dies, createVars
<1> QED
  BY <1>1, <1>2, <1>3, <1>4, <1>5, <1>6, <1>7 DEF Next, Router

LEMMA ScCalls ==
  ASSUME TlvInv, [Next]_vars
  PROVE  \/ ScStep \/ ScNoFile \/ (\E lines \in Seq(Line) : ScOpen(lines))
         \/ ScInit' \/ UNCHANGED scVars
<1>1. CASE UNCHANGED vars
  BY <1>1 DEF vars, loadVars
<1>2. CASE MainStep
  <2>1. CASE MainLoad
    BY <2>1, ScriptsAssumption DEF MainLoad
  <2>2. CASE LoadingScript
    BY <2>2 DEF LoadingScript
  <2>3. CASE MainLoaded \/ MainPrint
    BY <2>3 DEF MainLoaded, MainPrint, Dies, loadVars
  <2> QED
    BY <1>2, <2>1, <2>2, <2>3 DEF MainStep, Main
<1>3. CASE Vm
  <2>1. CASE VmLoad
    BY <2>1, DataScriptsAssumption DEF VmLoad
  <2>2. CASE LoadingScript
    BY <2>2 DEF LoadingScript
  <2>3. CASE VmLoaded \/ \E k \in 1..se.code_num : VmRun(k)
    BY <2>3 DEF VmLoaded, VmRun, Dies, loadVars
  <2> QED
    BY <1>3, <2>1, <2>2, <2>3 DEF Vm
<1>4. CASE CcbScript
  <2>1. ASSUME NEW t \in First("script") PROVE t.file \in Seq(Line)
    <3>1. t \in Tlv
      BY <2>1, LenProperties DEF TlvInv, First, Tagged
    <3> QED
      BY <3>1, ScriptsAssumption DEF Tlv
  <2> QED
    BY <1>4, <2>1 DEF CcbScript
<1>5. CASE LoadingScript
  BY <1>5 DEF LoadingScript
<1>6. CASE CcbEnd
  BY <1>6 DEF CcbEnd, ScInit
<1>7. CASE (\E msg \in Messages : CcbBegin(msg)) \/ CcbSession \/ CcbScriptLoaded \/ CcbTable
             \/ CcbSkip \/ CcbSearch \/ LoadingLibrary \/ CcbLoaded \/ CcbLeaveOut \/ ccb_add_bc
  BY <1>7 DEF CcbBegin, CcbSession, CcbScriptLoaded, CcbTable, CcbSkip, CcbSearch, LoadingLibrary,
     CcbLoaded, CcbLeaveOut, ccb_add_bc, Dies, loadVars
<1> QED
  BY <1>1, <1>2, <1>3, <1>4, <1>5, <1>6, <1>7 DEF Next, Router

(* Whatever a script file holds and whatever allocation fails, each entry  *)
(* is that of its line, at its address; of a script that fits every entry  *)
(* is in the array, of a longer one those memcpy_int copies and the last   *)
(* (tsm_scloader.c:57-68, 94-141).                                         *)
THEOREM ScriptsAreWhole == Spec => []ScriptWhole
<1>1. Init => ScInv /\ TlvInv
  BY ScInitInv, TlvInitInv DEF Init
<1>2. ScInv /\ TlvInv /\ [Next]_vars => ScInv' /\ TlvInv'
  BY ScCalls, TlvNextInv, ScStepInv, ScNoFileInv, ScOpenInv, ScInitInv, ScStutter
<1> QED
  BY <1>1, <1>2, ScInvWhole, PTL DEF Spec

----------------------------------------------------------------------------
(* Libraries: what a load leaves allocated, and what the table of a CCB     *)
(* holds.                                                                  *)
FuncArrays == [size : Nat, base : Nat, array : Seq(Symbols)]

(* What the loader has allocated.                                          *)
Active == bc \in {"open", "line", "dlopen", "dlsym"}

(* A block of the load at work: what giving up gives back, and what it     *)
(* leaves.                                                                 *)
AtWork(b) ==
  \/ b.what \in {"array", "file"}
  \/ b \in FuncArray \cup SetBlocks
  \/ b.what = "set.name" /\ bc_set # NoSet
  \/ b = Block("set", loads)
  \/ b = Block("dl", loads) /\ bc = "dlsym"

(* A load at work is not listed yet; those before left only what Left      *)
(* allows.                                                                 *)
BcInv == bc # "dead" =>
  /\ loads \in Nat /\ path \in Paths
  /\ fa \in FuncArrays /\ hfile \in Seq(HLine) /\ bcs_list \in Seq(Set) /\ bc_set \in Set
  /\ \A b \in heap : b.load \in 1..loads
  /\ \A m \in DOMAIN bcs_list : bcs_list[m].load \in 1..loads
  /\ \A b \in heap : b.load < loads \/ ~Active => Left(b)
  /\ Active =>
       /\ loads # 0 /\ ~Listed(loads)
       /\ bc \in {"open", "line"} => bc_set = NoSet
       /\ bc_set # NoSet => bc_set.load = loads /\ bc_set.path = path
       /\ \A b \in heap : b.load = loads => AtWork(b)
       /\ FuncArray \cup SetBlocks \subseteq heap
  /\ bc = "dlsym" => Block("dl", loads) \in heap
  /\ bc = "loaded" => \E m \in DOMAIN bcs_list : bcs_list[m].path = path

LEMMA BcInvLeaves == BcInv => LoadsLeaveOnly
  BY DEF BcInv, LoadsLeaveOnly, Active

LEMMA LeftKeeps ==
  ASSUME NEW b, Left(b), Listed(b.load) => Listed(b.load)',
         Block("set.name", b.load) \in heap' => Block("set.name", b.load) \in heap
  PROVE  Left(b)'
  BY DEF Left, Block

LEMMA ListedKeeps ==
  ASSUME NEW n, bcs_list \in Seq(Set),
         UNCHANGED bcs_list \/ \E s \in Set : bcs_list' = Append(bcs_list, s)
  PROVE  Listed(n) => Listed(n)'
<1>1. CASE UNCHANGED bcs_list
  BY <1>1 DEF Listed
<1>2. ASSUME NEW s \in Set, bcs_list' = Append(bcs_list, s)
      PROVE  Listed(n) => Listed(n)'
  <2>1. \A m \in DOMAIN bcs_list : m \in DOMAIN bcs_list' /\ bcs_list'[m] = bcs_list[m]
    BY <1>2
  <2> QED
    BY <2>1 DEF Listed
<1> QED
  BY <1>1, <1>2

LEMMA NoSetTyped == NoSet \in Set /\ NoSet.load = 0 /\ NoSet.path \in Paths
  BY PathsAssumption DEF NoSet, Set

LEMMA BcInitInv == BcInit => BcInv
<1> SUFFICES ASSUME BcInit PROVE BcInv
  OBVIOUS
<1>1. NoSet \in Set /\ <<>> \in Seq(HLine) /\ <<>> \in Seq(Set) /\ <<>> \in Seq(Symbols)
      /\ NoSet.path \in Paths /\ DOMAIN <<>> = {}
  BY NoSetTyped
<1> QED
  BY <1>1 DEF BcInit, BcInv, NoFa, Active, FuncArrays

(* From idle the next load has the next number, and every block is of one  *)
(* before.                                                                 *)
LEMMA BcBeginInv == ASSUME NEW p \in Paths, BcInv, BcBegin(p) PROVE BcInv'
<1>1. /\ bc = "idle" /\ ~Active /\ loads \in Nat /\ path' = p /\ bc_set' = NoSet
      /\ UNCHANGED bcs_list /\ bcs_list \in Seq(Set)
      /\ hfile' \in Seq(HLine) /\ <<>> \in Seq(Symbols) /\ NoSet \in Set
  <2>1. Lib[p].header \in Seq(HLine)
    BY LibAssumption DEF Library
  <2> QED
    BY <2>1, NoSetTyped DEF BcBegin, BcInv, Active
<1>2. \A b \in heap : Left(b) /\ b.load \in 1..loads
  BY <1>1 DEF BcInv
<1>3. CASE bc' = "failed" /\ fa' = NoFa /\ UNCHANGED <<heap, loads>>
  <2>1. \A b \in heap' : Left(b)'
    BY <1>1, <1>2, <1>3 DEF Left, Listed
  <2> QED
    BY <1>1, <1>2, <1>3, <2>1 DEF BcInv, Active, NoFa, FuncArrays
<1>4. CASE /\ loads' = loads + 1
           /\ heap' = heap \cup {Block("fa", loads'), Block("array", loads')}
           /\ fa' = [size |-> BYCODE_SIZE, base |-> 0, array |-> <<>>]
           /\ bc' = "open"
  <2>1. \A b \in heap : Left(b)'
    BY <1>1, <1>2, <1>4, LeftKeeps, ListedKeeps DEF Block
  <2>2. \A b \in heap' : b.load \in 1..loads'
    BY <1>1, <1>2, <1>4 DEF Block
  <2>3. ASSUME NEW b \in heap' PROVE b.load < loads' => Left(b)'
    BY <1>1, <1>4, <2>1 DEF Block
  <2>4. ~Listed(loads)' /\ \A m \in DOMAIN bcs_list' : bcs_list'[m].load \in 1..loads'
    BY <1>1, <1>4 DEF BcInv, Listed
  <2>5. FuncArray' = {Block("fa", loads')} /\ SetBlocks' = {}
    BY <1>1, <1>4 DEF FuncArray, SetBlocks
  <2>6. \A b \in heap' : b.load = loads' => AtWork(b)'
    BY <1>1, <1>2, <1>4, <2>5 DEF AtWork, Block
  <2>7. Active' /\ loads' \in Nat /\ loads' # 0 /\ fa' \in FuncArrays
        /\ FuncArray' \cup SetBlocks' \subseteq heap'
    BY <1>1, <1>4, <2>5, BycodeAssumption DEF Active, FuncArrays
  <2> QED
    BY <1>1, <1>4, <2>2, <2>3, <2>4, <2>6, <2>7, NoSetTyped DEF BcInv
<1> QED
  BY <1>3, <1>4 DEF BcBegin

(* What is known while a load is at work.                                  *)
LEMMA BcFacts ==
  ASSUME BcInv, Active
  PROVE  /\ bc # "dead" /\ loads \in Nat /\ loads # 0 /\ path \in Paths
         /\ fa \in FuncArrays /\ fa.array \in Seq(Symbols) /\ Len(fa.array) \in Nat
         /\ DOMAIN fa.array = 1..Len(fa.array)
         /\ hfile \in Seq(HLine) /\ bcs_list \in Seq(Set) /\ bc_set \in Set
         /\ \A b \in heap : b.load \in 1..loads /\ (b.load # loads => Left(b))
                            /\ (b.load = loads => AtWork(b))
         /\ \A m \in DOMAIN bcs_list : bcs_list[m].load \in 1..loads
         /\ ~Listed(loads)
         /\ bc \in {"open", "line"} => bc_set = NoSet
         /\ bc_set # NoSet => bc_set.load = loads /\ bc_set.path = path
         /\ FuncArray \cup SetBlocks \subseteq heap
         /\ bc = "dlsym" => Block("dl", loads) \in heap
<1>1. bc # "dead"
  BY DEF Active
<1>2. \A b \in heap : b.load \in 1..loads /\ (b.load # loads => b.load < loads)
  BY <1>1 DEF BcInv
<1> QED
  BY <1>1, <1>2, LenProperties DEF BcInv, FuncArrays

(* A step of a load at work that allocates blocks of this load and gives   *)
(* nothing back leaves the blocks of earlier ones as they were.            *)
LEMMA BcOthersKeep ==
  ASSUME BcInv, Active, UNCHANGED <<bcs_list, loads>>, heap \subseteq heap',
         \A b \in heap' \ heap : b.load = loads
  PROVE  /\ \A b \in heap' : b.load \in 1..loads'
         /\ \A b \in heap' : b.load < loads' => Left(b)'
         /\ \A m \in DOMAIN bcs_list' : bcs_list'[m].load \in 1..loads'
         /\ ~Listed(loads)'
<1>1. \A b \in heap' : b.load \in 1..loads
  BY BcFacts
<1>2. ASSUME NEW b \in heap', b.load < loads PROVE Left(b)'
  <2>1. b \in heap /\ b.load # loads /\ Left(b)
    BY <1>2, BcFacts
  <2>2. Block("set.name", b.load) \in heap' => Block("set.name", b.load) \in heap
    BY <2>1 DEF Block
  <2>3. Listed(b.load)' = Listed(b.load)
    BY DEF Listed
  <2> QED
    BY <2>1, <2>2, <2>3, LeftKeeps
<1> QED
  BY <1>1, <1>2, BcFacts DEF Listed

(* A load that gives up gives back what of its blocks Left does not allow. *)
LEMMA BcGiveUp ==
  ASSUME BcInv, Active, NEW blocks,
         blocks = FuncArray \cup SetBlocks \cup
                  (IF bc = "dlsym" THEN {Block("dl", loads)} ELSE {}),
         Free(blocks, "failed"), UNCHANGED <<path, hfile, fa, bc_set, bcs_list, loads>>
  PROVE  BcInv'
<1>1. blocks \subseteq heap
  BY BcFacts
<1>2. heap' = heap \ blocks /\ bc' = "failed"
  BY <1>1 DEF Free
<1>3. \A b \in heap' : b \in heap /\ b.load \in 1..loads
  BY <1>2, BcFacts
<1>4. ASSUME NEW b \in heap' PROVE Left(b)'
  <2>1. Listed(b.load)' = Listed(b.load)
    BY DEF Listed
  <2>2. CASE b.load # loads
    BY <1>2, <1>3, <2>1, <2>2, BcFacts, LeftKeeps
  <2>3. CASE b.load = loads
    <3>1. /\ AtWork(b) /\ b \notin FuncArray \cup SetBlocks
          /\ ~(b = Block("dl", loads) /\ bc = "dlsym")
      BY <1>2, <1>4, <2>3, BcFacts
    <3>2. CASE b.what \in {"array", "file", "set.name"}
      BY <3>2 DEF Left
    <3>3. CASE b = Block("set", loads)
      <4>1. bc_set = NoSet
        BY <3>1, <3>3 DEF SetBlocks
      <4>2. Block("set.name", loads) \notin heap
        <5> SUFFICES ASSUME Block("set.name", loads) \in heap PROVE FALSE
          OBVIOUS
        <5>1. AtWork(Block("set.name", loads))
          BY BcFacts DEF Block
        <5> QED
          BY <4>1, <5>1 DEF AtWork, Block, Name, FuncArray, SetBlocks
      <4> QED
        BY <1>2, <3>3, <4>2 DEF Left, Block
    <3> QED
      BY <3>1, <3>2, <3>3 DEF AtWork
  <2> QED
    BY <2>2, <2>3
<1> QED
  BY <1>2, <1>3, <1>4, BcFacts DEF BcInv, Active

LEMMA BcOpenInv == BcInv /\ BcOpen => BcInv'
<1> SUFFICES ASSUME BcInv, BcOpen PROVE BcInv'
  OBVIOUS
<1>1. bc = "open" /\ Active /\ UNCHANGED <<path, hfile, fa, bc_set, bcs_list, loads>>
  BY DEF BcOpen, Active
<1>2. bc_set = NoSet /\ SetBlocks = {}
  BY <1>1, BcFacts DEF SetBlocks
<1>3. CASE heap' = heap \cup {Block("file", loads)} /\ bc' = "line"
  <2>1. Active' /\ \A b \in heap' \ heap : b.load = loads
    BY <1>3 DEF Active, Block
  <2>2. \A b \in heap' : b.load = loads => AtWork(b)'
    <3>1. \A b \in heap : b.load = loads => AtWork(b)'
      BY <1>1, BcFacts DEF AtWork, FuncArray, SetBlocks
    <3> QED
      BY <1>3, <3>1 DEF AtWork, Block
  <2>3. (FuncArray \cup SetBlocks)' \subseteq heap'
    BY <1>1, <1>3, BcFacts DEF FuncArray, SetBlocks
  <2> QED
    BY <1>1, <1>2, <1>3, <2>1, <2>2, <2>3, BcFacts, BcOthersKeep DEF BcInv
<1>4. CASE Free(FuncArray, "failed")
  BY <1>1, <1>2, <1>4, BcGiveUp
<1> QED
  BY <1>3, <1>4 DEF BcOpen

LEMMA BcDieInv == BcInv /\ bc' = "dead" => BcInv'
  BY DEF BcInv, Active

(* The names of the array are 1 to its length.                             *)
LEMMA BcLineInv == BcInv /\ BcLine => BcInv'
<1> SUFFICES ASSUME BcInv, BcLine PROVE BcInv'
  OBVIOUS
<1> DEFINE line == Head(hfile)
<1>1. bc = "line" /\ Active /\ hfile # <<>> /\ bc_set = NoSet
  BY BcFacts DEF BcLine, Active
<1>2. line \in HLine /\ Tail(hfile) \in Seq(HLine)
  BY <1>1, BcFacts, HeadTailProperties
<1>3. CASE BcDie
  BY <1>3, BcDieInv DEF BcDie
<1>4. CASE /\ \/ line.kind = "skip" /\ UNCHANGED <<fa, heap>>
              \/ line.kind = "base" /\ fa' = [fa EXCEPT !.base = line.base] /\ UNCHANGED heap
              \/ /\ line.kind = "func"
                 /\ heap' = heap \cup {Name(loads, Len(fa.array) + 1)}
                 /\ fa' = func_array_add_entry(line.name)
           /\ hfile' = Tail(hfile)
           /\ UNCHANGED <<bc, path, bc_set, bcs_list, loads>>
  <2>1. Active'
    BY <1>1, <1>4 DEF Active
  <2>2. /\ fa' \in FuncArrays /\ heap \subseteq heap'
        /\ \A b \in heap' \ heap : b = Name(loads, Len(fa.array) + 1) /\ b \in FuncArray'
        /\ FuncArray \subseteq FuncArray' /\ FuncArray' \subseteq heap'
    <3>1. CASE fa' = fa /\ heap' = heap
      BY <1>1, <1>4, <3>1, BcFacts DEF FuncArray
    <3>2. CASE fa' = [fa EXCEPT !.base = line.base] /\ heap' = heap
      <4>1. fa'.array = fa.array /\ fa' \in FuncArrays
        BY <1>1, <1>2, <3>2, BcFacts DEF HLine, FuncArrays
      <4> QED
        BY <1>1, <1>4, <3>2, <4>1, BcFacts DEF FuncArray
    <3>3. CASE /\ heap' = heap \cup {Name(loads, Len(fa.array) + 1)}
               /\ fa' = func_array_add_entry(line.name)
      <4>1. /\ fa'.array = Append(fa.array, line.name) /\ line.name \in Symbols
            /\ fa.array \in Seq(Symbols) /\ fa' = [fa EXCEPT !.size = fa'.size, !.array = fa'.array]
            /\ fa'.size \in Nat
        BY <1>1, <1>2, <3>3, BcFacts DEF FuncArrays, func_array_add_entry, HLine
      <4>2. fa'.array \in Seq(Symbols) /\ DOMAIN fa'.array = 1..Len(fa.array) + 1
            /\ DOMAIN fa.array = 1..Len(fa.array) /\ Len(fa.array) \in Nat
        BY <1>1, <4>1, BcFacts
      <4>3. fa' \in FuncArrays
        BY <1>1, <4>1, <4>2, BcFacts DEF FuncArrays
      <4>4. FuncArray' = FuncArray \cup {Name(loads, Len(fa.array) + 1)}
        BY <1>4, <4>2 DEF FuncArray
      <4> QED
        BY <1>1, <3>3, <4>2, <4>3, <4>4, BcFacts
    <3> QED
      BY <1>4, <3>1, <3>2, <3>3
  <2>3. \A b \in heap' \ heap : b.load = loads
    BY <2>2 DEF Name
  <2>4. \A b \in heap' : b.load = loads => AtWork(b)'
    BY <1>1, <1>4, <2>2, BcFacts DEF AtWork, SetBlocks
  <2>5. SetBlocks' = {}
    BY <1>1, <1>4 DEF SetBlocks
  <2> QED
    BY <1>1, <1>2, <1>4, <2>1, <2>2, <2>3, <2>4, <2>5, BcFacts, BcOthersKeep DEF BcInv
<1> QED
  BY <1>3, <1>4 DEF BcLine

LEMMA BcAllocInv == BcInv /\ BcAlloc => BcInv'
<1> SUFFICES ASSUME BcInv, BcAlloc PROVE BcInv'
  OBVIOUS
<1>1. /\ bc = "line" /\ bc' = "dlopen" /\ Active /\ Active' /\ bc_set = NoSet
      /\ UNCHANGED <<path, hfile, fa, bcs_list, loads>>
  BY BcFacts DEF BcAlloc, Active
<1>2. heap \subseteq heap' /\ \A b \in heap' \ heap : b.load = loads
  BY DEF BcAlloc, Block
<1>3. \A b \in heap : b.load = loads => b.what \in {"array", "file"} \/ b \in FuncArray'
                                        \/ b = Block("set", loads)
  BY <1>1, BcFacts DEF AtWork, SetBlocks, FuncArray
<1>4. FuncArray' \subseteq heap'
  BY <1>1, <1>2, BcFacts DEF FuncArray
<1>5. CASE /\ bc_set' = [load |-> loads, path |-> path, base |-> fa.base, cnt |-> Len(fa.array),
                         bc |-> <<>>]
           /\ heap' = heap \cup {Block(w, loads) : w \in {"set", "set.name", "set.bc"}}
  <2>1. bc_set'.load = loads /\ bc_set'.path = path /\ bc_set' # NoSet
    BY <1>1, <1>5, BcFacts, NoSetTyped
  <2>2. SetBlocks' = {Block("set", loads), Block("set.bc", loads)}
    BY <1>1, <2>1 DEF SetBlocks
  <2>3. bc_set' \in Set
    BY <1>1, <1>5, BcFacts DEF Set, FuncArrays
  <2>4. ASSUME NEW b \in heap', b.load = loads PROVE AtWork(b)'
    <3>1. CASE b \in heap
      <4>1. b.what \in {"array", "file"} \/ b \in FuncArray' \/ b = Block("set", loads)
        BY <1>3, <2>4, <3>1
      <4> QED
        BY <1>1, <4>1 DEF AtWork
    <3>2. CASE b \in {Block(w, loads) : w \in {"set", "set.name", "set.bc"}}
      <4>1. b \in SetBlocks' \/ b.what = "set.name"
        BY <2>2, <3>2 DEF Block
      <4> QED
        BY <2>1, <4>1 DEF AtWork
    <3> QED
      BY <1>5, <3>1, <3>2
  <2>5. SetBlocks' \subseteq heap'
    BY <1>5, <2>2
  <2> QED
    BY <1>1, <1>2, <1>4, <2>1, <2>3, <2>4, <2>5, BcFacts, BcOthersKeep DEF BcInv
<1>6. CASE heap' \in {heap, heap \cup {Block("set", loads)}} /\ UNCHANGED bc_set
  <2>1. \A b \in heap' : b.load = loads => AtWork(b)'
    BY <1>1, <1>3, <1>6 DEF AtWork
  <2>2. SetBlocks' = {}
    BY <1>1, <1>6 DEF SetBlocks
  <2> QED
    BY <1>1, <1>2, <1>4, <1>6, <2>1, <2>2, BcFacts, BcOthersKeep DEF BcInv
<1> QED
  BY <1>5, <1>6 DEF BcAlloc

LEMMA BcDlopenInv == BcInv /\ BcDlopen => BcInv'
<1> SUFFICES ASSUME BcInv, BcDlopen PROVE BcInv'
  OBVIOUS
<1>1. bc = "dlopen" /\ Active /\ UNCHANGED <<path, hfile, fa, bc_set, bcs_list, loads>>
  BY DEF BcDlopen, Active
<1>2. CASE heap' = heap \cup {Block("dl", loads)} /\ bc' = "dlsym"
  <2>1. Active' /\ heap \subseteq heap' /\ \A b \in heap' \ heap : b.load = loads
    BY <1>2 DEF Active, Block
  <2>2. \A b \in heap' : b.load = loads => AtWork(b)'
    <3>1. \A b \in heap : b.load = loads => AtWork(b)'
      BY <1>1, BcFacts DEF AtWork, FuncArray, SetBlocks
    <3> QED
      BY <1>1, <1>2, <3>1 DEF AtWork
  <2>3. (FuncArray \cup SetBlocks)' \subseteq heap'
    BY <1>1, <1>2, BcFacts DEF FuncArray, SetBlocks
  <2> QED
    BY <1>1, <1>2, <2>1, <2>2, <2>3, BcFacts, BcOthersKeep DEF BcInv
<1>3. CASE Free(FuncArray \cup SetBlocks, "failed")
  BY <1>1, <1>3, BcGiveUp
<1> QED
  BY <1>2, <1>3 DEF BcDlopen

LEMMA BcDlsymInv == BcInv /\ BcDlsym => BcInv'
<1> SUFFICES ASSUME BcInv, BcDlsym PROVE BcInv'
  OBVIOUS
<1> DEFINE name == fa.array[Len(bc_set.bc) + 1]
<1>1. /\ bc = "dlsym" /\ Active /\ UNCHANGED <<path, hfile, fa, bcs_list, loads>>
      /\ Len(bc_set.bc) < Len(fa.array)
  BY DEF BcDlsym, Active
<1>2. CASE Free(FuncArray \cup SetBlocks \cup {Block("dl", loads)}, "failed") /\ UNCHANGED bc_set
  BY <1>1, <1>2, BcGiveUp
<1>3. CASE bc' = "dead"
  BY <1>3, BcDieInv
<1>4. CASE bc_set # NoSet /\ bc_set' = [bc_set EXCEPT !.bc = Append(@, name)]
           /\ UNCHANGED <<bc, heap>>
  <2>1. bc_set' \in Set /\ bc_set'.load = loads /\ bc_set'.path = path /\ bc_set' # NoSet
    <3>1. bc_set \in Set /\ bc_set.load = loads /\ bc_set.path = path /\ loads # 0
          /\ Len(bc_set.bc) + 1 \in DOMAIN fa.array
      BY <1>1, <1>4, BcFacts, LenProperties DEF Set
    <3>2. name \in Symbols
      BY <1>1, <3>1, BcFacts
    <3>3. Append(bc_set.bc, name) \in Seq(Symbols)
      BY <3>1, <3>2 DEF Set
    <3> QED
      BY <1>4, <3>1, <3>3, NoSetTyped DEF Set
  <2>2. FuncArray' = FuncArray /\ SetBlocks' = SetBlocks
    BY <1>1, <1>4, <2>1 DEF FuncArray, SetBlocks
  <2>3. \A b \in heap' : b.load = loads => AtWork(b)'
    BY <1>1, <1>4, <2>1, <2>2, BcFacts DEF AtWork
  <2>4. Active'
    BY <1>1, <1>4 DEF Active
  <2> QED
    BY <1>1, <1>4, <2>1, <2>2, <2>3, <2>4, BcFacts, BcOthersKeep DEF BcInv
<1> QED
  BY <1>1, <1>2, <1>3, <1>4 DEF BcDlsym

(* The set that is listed has the number of the load, which nothing else   *)
(* of the list has; its blocks are those of a listed library.              *)
LEMMA BcListInv == BcInv /\ BcList => BcInv'
<1> SUFFICES ASSUME BcInv, BcList PROVE BcInv'
  OBVIOUS
<1>1. bc = "dlsym" /\ Active /\ UNCHANGED <<path, hfile, fa, bc_set, loads>>
  BY DEF BcList, Active
<1>2. CASE bc' = "dead"
  BY <1>2, BcDieInv
<1>3. CASE bc_set # NoSet /\ bcs_list' = Append(bcs_list, bc_set) /\ Free(FuncArray, "loaded")
  <2>1. heap' = heap \ FuncArray /\ bc' = "loaded"
    BY <1>1, <1>3, BcFacts DEF Free
  <2>2. bcs_list \in Seq(Set) /\ bc_set \in Set /\ bc_set.load = loads /\ bc_set.path = path
    BY <1>1, <1>3, BcFacts
  <2>3. /\ bcs_list' \in Seq(Set) /\ DOMAIN bcs_list' = 1..Len(bcs_list) + 1
        /\ bcs_list'[Len(bcs_list) + 1] = bc_set /\ Len(bcs_list) \in Nat
        /\ \A m \in 1..Len(bcs_list) : bcs_list'[m] = bcs_list[m]
        /\ DOMAIN bcs_list = 1..Len(bcs_list)
    BY <1>3, <2>2
  <2>4. Listed(loads)'
    BY <1>1, <2>2, <2>3 DEF Listed
  <2>5. ASSUME NEW m \in DOMAIN bcs_list' PROVE bcs_list'[m].load \in 1..loads'
    <3>1. m \in 1..Len(bcs_list) \/ m = Len(bcs_list) + 1
      BY <2>3, <2>5
    <3> QED
      BY <1>1, <2>2, <2>3, <3>1, BcFacts
  <2>6. ASSUME NEW b \in heap' PROVE Left(b)' /\ b.load \in 1..loads'
    <3>1. b \in heap /\ b.load \in 1..loads /\ b \notin FuncArray
      BY <1>1, <2>1, <2>6, BcFacts
    <3>2. CASE b.load # loads
      <4>1. Left(b)
        BY <1>1, <3>1, <3>2, BcFacts
      <4>2. Block("set.name", b.load) \in heap' => Block("set.name", b.load) \in heap
        BY <2>1
      <4>3. Listed(b.load) => Listed(b.load)'
        BY <1>3, <2>2, ListedKeeps
      <4> QED
        BY <1>1, <3>1, <4>1, <4>2, <4>3, LeftKeeps
    <3>3. CASE b.load = loads
      <4>1. AtWork(b) /\ Listed(b.load)'
        BY <1>1, <2>4, <3>1, <3>3, BcFacts
      <4>2. b.what \in {"array", "file", "set.name", "set", "set.bc", "dl"}
        BY <1>3, <3>1, <4>1 DEF AtWork, Block, SetBlocks
      <4> QED
        BY <1>1, <3>1, <4>1, <4>2 DEF Left
    <3> QED
      BY <3>2, <3>3
  <2>7. \E m \in DOMAIN bcs_list' : bcs_list'[m].path = path'
    <3>1. Len(bcs_list) + 1 \in DOMAIN bcs_list'
      BY <2>3
    <3> QED
      BY <1>1, <2>2, <2>3, <3>1
  <2> QED
    BY <1>1, <2>1, <2>3, <2>5, <2>6, <2>7, BcFacts DEF BcInv, Active
<1> QED
  BY <1>1, <1>2, <1>3 DEF BcList

LEMMA BcStepInv == BcInv /\ BcStep => BcInv'
  BY BcOpenInv, BcLineInv, BcAllocInv, BcDlopenInv, BcDlsymInv, BcListInv DEF BcStep

----------------------------------------------------------------------------
(* Who calls the loader, and what the CCBs hold.                           *)

(* A library that is in the list as itself or as its file name.            *)
Here(p) == \E m \in DOMAIN bcs_list :
             bcs_list[m].path = p \/ Lib[bcs_list[m].path].file = Lib[p].file

CcbOk(c) == /\ \A p \in c.asked : Here(p)
            /\ \A k \in DOMAIN c.table : c.table[k] \in {"null", "wild"}

(* The loader works on the path that was searched for, and a library that  *)
(* was found or loaded is in the list before it is left out.               *)
LibInv ==
  /\ dl \in Paths \cup {WildPath}
  /\ cs = "dlload" => dl \in Paths /\ path = dl
  /\ cs = "found" => dl \in Paths /\ Here(dl)
  /\ ccb \in Ccb /\ ccb_list \in Seq(Ccb)
  /\ CcbOk(ccb)
  /\ \A n \in DOMAIN ccb_list : CcbOk(ccb_list[n])

(* What becomes of the libraries: no CCB has a function in its table, and  *)
(* all that its message asked for are in the list.                         *)
LibrariesAreLeftOut ==
  \A n \in DOMAIN ccb_list :
    /\ \A p \in ccb_list[n].asked : \E m \in DOMAIN bcs_list :
         bcs_list[m].path = p \/ Lib[bcs_list[m].path].file = Lib[p].file
    /\ \A k \in DOMAIN ccb_list[n].table : ccb_list[n].table[k] \in {"null", "wild"}

LEMMA LibInvLeft == LibInv => LibrariesAreLeftOut
  BY DEF LibInv, LibrariesAreLeftOut, CcbOk, Here

LEMMA NoCcbTyped == NoCcb \in Ccb /\ CcbOk(NoCcb)
  BY DEF NoCcb, Ccb, CcbOk

LEMMA LibInitInv == CreateInit => LibInv
  BY NoCcbTyped DEF CreateInit, LibInv

(* A library without a directory is loaded only where none of its file     *)
(* name is in the list.                                                    *)
NotListed(p) == ~Lib[p].inDir => \A m \in DOMAIN bcs_list :
                                   Lib[bcs_list[m].path].file # Lib[p].file

LEMMA BcCalls ==
  ASSUME LibInv, [Next]_vars
  PROVE  \/ BcStep \/ (\E p \in Paths : BcBegin(p) /\ NotListed(p)) \/ CcbLoaded
         \/ UNCHANGED bcVars
<1>1. CASE UNCHANGED vars
  BY <1>1 DEF vars, loadVars
<1>2. CASE MainStep
  BY <1>2 DEF MainStep, Main, MainLoad, LoadingScript, MainLoaded, MainPrint, Dies, loadVars
<1>3. CASE Vm
  BY <1>3 DEF Vm, VmLoad, VmLoaded, VmRun, LoadingScript, Dies, loadVars
<1>4. CASE CcbSearch
  BY <1>4 DEF CcbSearch, LibInv, NotListed, Match, Dies, loadVars
<1>5. CASE LoadingLibrary \/ CcbLoaded
  BY <1>5 DEF LoadingLibrary
<1>6. CASE (\E msg \in Messages : CcbBegin(msg)) \/ CcbSession \/ CcbScript \/ LoadingScript
             \/ CcbScriptLoaded \/ CcbTable \/ CcbSkip \/ CcbLeaveOut \/ ccb_add_bc \/ CcbEnd
  BY <1>6 DEF CcbBegin, CcbSession, CcbScript, LoadingScript, CcbScriptLoaded, CcbTable, CcbSkip,
     CcbLeaveOut, ccb_add_bc, CcbEnd, Dies, loadVars
<1> QED
  BY <1>1, <1>2, <1>3, <1>4, <1>5, <1>6 DEF Next, Router

LEMMA BcNextInv == ASSUME LibInv, BcInv, [Next]_vars PROVE BcInv'
<1>1. CASE CcbLoaded
  <2>1. ~Active /\ bc # "dead" /\ bc' = "idle"
        /\ UNCHANGED <<path, hfile, fa, bc_set, bcs_list, heap, loads>>
    BY <1>1 DEF CcbLoaded, Active
  <2> QED
    BY <2>1 DEF BcInv, Active, Left, Listed
<1>2. CASE UNCHANGED bcVars
  BY <1>2 DEF bcVars, BcInv, Active, Left, Listed, AtWork, FuncArray, SetBlocks
<1> QED
  BY <1>1, <1>2, BcCalls, BcStepInv, BcBeginInv

(* The list of libraries only grows.                                       *)
LEMMA HereKeeps ==
  ASSUME LibInv, BcInv, [Next]_vars
  PROVE  (\A p : Here(p) => Here(p)') /\ (\A c : CcbOk(c) => CcbOk(c)')
<1>1. \/ UNCHANGED bcs_list
      \/ bcs_list \in Seq(Set) /\ \E s \in Set : bcs_list' = Append(bcs_list, s)
  <2>1. CASE BcList
    <3>1. Active
      BY <2>1 DEF BcList, Active
    <3> QED
      BY <2>1, <3>1, BcFacts DEF BcList
  <2>2. CASE BcOpen \/ BcLine \/ BcAlloc \/ BcDlopen \/ BcDlsym
    BY <2>2 DEF BcOpen, BcLine, BcDie, BcAlloc, BcDlopen, BcDlsym
  <2>3. CASE (\E p \in Paths : BcBegin(p)) \/ CcbLoaded \/ UNCHANGED bcVars
    BY <2>3 DEF BcBegin, CcbLoaded, bcVars
  <2> QED
    BY <2>1, <2>2, <2>3, BcCalls DEF BcStep
<1>2. \A m \in DOMAIN bcs_list : m \in DOMAIN bcs_list' /\ bcs_list'[m] = bcs_list[m]
  <2>1. ASSUME NEW s \in Set, bcs_list \in Seq(Set), bcs_list' = Append(bcs_list, s)
        PROVE  \A m \in DOMAIN bcs_list : m \in DOMAIN bcs_list' /\ bcs_list'[m] = bcs_list[m]
    BY <2>1
  <2> QED
    BY <1>1, <2>1
<1>3. \A p : Here(p) => Here(p)'
  BY <1>2 DEF Here
<1> QED
  BY <1>3 DEF CcbOk

LEMMA LibNextInv == ASSUME LibInv, TlvInv, BcInv, [Next]_vars PROVE LibInv'
<1>1. CASE UNCHANGED vars
  BY <1>1, HereKeeps DEF vars, createVars, loadVars, bcVars, LibInv
<1>2. ASSUME UNCHANGED <<dl, ccb, ccb_list>>, cs' \notin {"dlload", "found"}
      PROVE  LibInv'
  BY <1>2, HereKeeps DEF LibInv
<1>3. CASE MainStep
  BY <1>1, <1>2, <1>3 DEF MainStep, Main, MainLoad, LoadingScript, MainLoaded, MainPrint, Dies,
     createVars
<1>4. CASE Vm
  BY <1>1, <1>2, <1>4 DEF Vm, VmLoad, VmLoaded, VmRun, LoadingScript, Dies, createVars
<1>5. CASE CcbScript \/ LoadingScript \/ CcbSkip \/ ccb_add_bc
  BY <1>2, <1>5 DEF CcbScript, LoadingScript, CcbSkip, NextTlv, ccb_add_bc, Dies, createVars
<1>6. CASE \E msg \in Messages : CcbBegin(msg)
  <2>1. ccb' = NoCcb /\ ccb_list' = ccb_list /\ dl' \in Paths \cup {WildPath}
        /\ cs' \notin {"dlload", "found"} /\ bcs_list' = bcs_list
    BY <1>6 DEF CcbBegin, loadVars, bcVars
  <2>2. CcbOk(ccb)'
    BY <2>1, NoCcbTyped DEF CcbOk, NoCcb
  <2> QED
    BY <2>1, <2>2, NoCcbTyped, HereKeeps DEF LibInv
<1>7. CASE CcbSession
  <2>1. PICK i \in IF Tagged("session") = {} THEN {0} ELSE {t.val : t \in First("session")} :
          ccb' = [ccb EXCEPT !.session = i]
    BY <1>7 DEF CcbSession
  <2>2. \A t \in First("session") : t \in Tlv
    BY LenProperties DEF TlvInv, First, Tagged
  <2>3. i \in Nat
    BY <2>1, <2>2 DEF Tlv
  <2>4. ccb' \in Ccb /\ ccb'.asked = ccb.asked /\ ccb'.table = ccb.table
    BY <2>1, <2>3 DEF LibInv, Ccb
  <2>5. CcbOk(ccb)'
    BY <2>4, HereKeeps DEF LibInv, CcbOk
  <2> QED
    BY <1>7, <2>4, <2>5, HereKeeps DEF CcbSession, LibInv
<1>8. CASE CcbScriptLoaded
  <2>1. ccb' \in Ccb /\ ccb'.asked = ccb.asked /\ ccb'.table = ccb.table
    BY <1>8 DEF CcbScriptLoaded, LibInv, Ccb
  <2>2. CcbOk(ccb)'
    BY <2>1, HereKeeps DEF LibInv, CcbOk
  <2> QED
    BY <1>8, <2>1, <2>2, HereKeeps DEF CcbScriptLoaded, LibInv
<1>9. CASE CcbTable
  <2>1. CASE Dies
    BY <1>2, <2>1 DEF Dies
  <2>2. CASE UNCHANGED <<ccb, dl, ccb_list>> /\ cs' = "dll"
    BY <1>2, <2>2
  <2>3. CASE ccb' = [ccb EXCEPT !.table = ccb_alloc_bc] /\ UNCHANGED <<dl, ccb_list>> /\ cs' = "dll"
    <3>1. \A k \in 1..BC_SIZE : ccb_alloc_bc[k] \in {"null", "wild"}
      BY DEF ccb_alloc_bc
    <3>2. ccb_alloc_bc \in Seq(Slots) /\ DOMAIN ccb_alloc_bc = 1..BC_SIZE
      <4>1. ccb_alloc_bc \in [1..BC_SIZE -> Slots] /\ BC_SIZE \in Nat
        BY <3>1, BcSizeAssumption DEF ccb_alloc_bc, Slots
      <4> QED
        BY <4>1
    <3>3. ccb' \in Ccb /\ ccb'.asked = ccb.asked /\ ccb'.table = ccb_alloc_bc
      BY <2>3, <3>2 DEF LibInv, Ccb
    <3>4. CcbOk(ccb)'
      BY <3>1, <3>2, <3>3, HereKeeps DEF LibInv, CcbOk
    <3> QED
      BY <2>3, <3>3, <3>4, HereKeeps DEF LibInv
  <2> QED
    BY <1>9, <2>1, <2>2, <2>3 DEF CcbTable
<1>10. CASE CcbSearch
  <2>1. CASE Dies
    BY <1>2, <2>1 DEF Dies
  <2>2. CASE /\ dl # WildPath
             /\ IF \E m \in DOMAIN bcs_list : Match(bcs_list[m])
                THEN cs' = "found" /\ UNCHANGED bcVars
                ELSE cs' = "dlload" /\ BcBegin(dl)
             /\ UNCHANGED <<dl, ccb, ccb_list>>
    <3>1. dl \in Paths
      BY <2>2 DEF LibInv
    <3>2. CASE cs' = "found" /\ \E m \in DOMAIN bcs_list : Match(bcs_list[m])
      <4>1. Here(dl)
        BY <3>2 DEF Here, Match
      <4> QED
        BY <2>2, <3>1, <3>2, <4>1, HereKeeps DEF LibInv
    <3>3. CASE cs' = "dlload" /\ BcBegin(dl)
      BY <2>2, <3>1, <3>3, HereKeeps DEF LibInv, BcBegin
    <3> QED
      BY <2>2, <3>2, <3>3
  <2> QED
    BY <1>10, <2>1, <2>2 DEF CcbSearch
<1>11. CASE LoadingLibrary
  <2>1. UNCHANGED <<cs, path, dl, ccb, ccb_list>>
    BY <1>11 DEF LoadingLibrary, createVars, BcStep, BcOpen, BcLine, BcDie, BcAlloc, BcDlopen,
       BcDlsym, BcList
  <2> QED
    BY <2>1, HereKeeps DEF LibInv
<1>12. CASE CcbLoaded
  <2>1. bc = "loaded" => Here(dl)
    BY <1>12 DEF CcbLoaded, BcInv, LibInv, Here
  <2> QED
    BY <1>12, <2>1, HereKeeps DEF CcbLoaded, LibInv
<1>13. CASE CcbLeaveOut
  <2>1. dl \in Paths /\ Here(dl) /\ ccb' = [ccb EXCEPT !.asked = @ \cup {dl}]
        /\ UNCHANGED <<dl, ccb_list>> /\ cs' = "dll"
    BY <1>13 DEF CcbLeaveOut, NextTlv, LibInv
  <2>2. ccb' \in Ccb /\ ccb'.asked = ccb.asked \cup {dl} /\ ccb'.table = ccb.table
    BY <2>1 DEF LibInv, Ccb
  <2>3. CcbOk(ccb)'
    BY <2>1, <2>2, HereKeeps DEF LibInv, CcbOk
  <2> QED
    BY <2>1, <2>2, <2>3, HereKeeps DEF LibInv
<1>14. CASE CcbEnd
  <2>1. ccb_list' = Append(ccb_list, ccb) /\ UNCHANGED <<dl, ccb>> /\ cs' = "start"
        /\ ccb \in Ccb /\ ccb_list \in Seq(Ccb) /\ CcbOk(ccb)
    BY <1>14 DEF CcbEnd, LibInv
  <2>2. /\ ccb_list' \in Seq(Ccb) /\ DOMAIN ccb_list' = DOMAIN ccb_list \cup {Len(ccb_list) + 1}
        /\ ccb_list'[Len(ccb_list) + 1] = ccb
        /\ \A n \in DOMAIN ccb_list : ccb_list'[n] = ccb_list[n]
    BY <2>1
  <2>3. \A n \in DOMAIN ccb_list' : CcbOk(ccb_list'[n])
    BY <2>1, <2>2 DEF LibInv
  <2> QED
    BY <2>1, <2>2, <2>3, HereKeeps DEF LibInv
<1> QED
  BY <1>1, <1>3, <1>4, <1>5, <1>6, <1>7, <1>8, <1>9, <1>10, <1>11, <1>12, <1>13, <1>14
     DEF Next, Router

LEMMA LibraryInvs == Spec => [](LibInv /\ TlvInv /\ BcInv)
<1>1. Init => LibInv /\ TlvInv /\ BcInv
  BY LibInitInv, TlvInitInv, BcInitInv DEF Init
<1>2. LibInv /\ TlvInv /\ BcInv /\ [Next]_vars => LibInv' /\ TlvInv' /\ BcInv'
  BY LibNextInv, TlvNextInv, BcNextInv
<1> QED
  BY <1>1, <1>2, PTL DEF Spec

(* Wherever a load fails it leaves the array of names, the name of a set,  *)
(* a set without a name and the open header, and nothing else; what is     *)
(* given back then is allocated (tsm_bcloader.c:68-82, 105-111, 272-286).  *)
THEOREM LoadsLeave == Spec => []LoadsLeaveOnly
  BY LibraryInvs, BcInvLeaves, PTL

(* However many create messages there were, each library that the message  *)
(* of a CCB asked for and that was there is in the list of libraries, and  *)
(* the CCB has none of its functions: its table has nothing but null and   *)
(* wild pointers. What refutes LibrariesAreAdded for one library happens   *)
(* for every one (tsm_ccb.c:41, 84-102).                                   *)
THEOREM LibrariesLeftOut == Spec => []LibrariesAreLeftOut
  BY LibraryInvs, LibInvLeft, PTL

----------------------------------------------------------------------------
(* The libraries in the list.                                              *)

(* What one more line of a header adds.                                    *)
LEMMA LinesGrow ==
  ASSUME NEW header, NEW n \in Nat, NEW kind
  PROVE  /\ Lines(header, n + 1, kind) = IF header[n + 1].kind = kind
                                         THEN Lines(header, n, kind) \cup {n + 1}
                                         ELSE Lines(header, n, kind)
         /\ IsFiniteSet(Lines(header, n, kind)) /\ Cardinality(Lines(header, n, kind)) \in Nat
         /\ header[n + 1].kind = kind =>
              Cardinality(Lines(header, n + 1, kind)) = Cardinality(Lines(header, n, kind)) + 1
<1>1. Lines(header, n + 1, kind) = IF header[n + 1].kind = kind
                                   THEN Lines(header, n, kind) \cup {n + 1}
                                   ELSE Lines(header, n, kind)
  BY DEF Lines
<1>2. IsFiniteSet(1..n) /\ Lines(header, n, kind) \subseteq 1..n
  BY FS_Interval DEF Lines
<1>3. IsFiniteSet(Lines(header, n, kind))
  BY <1>2, FS_Subset
<1>4. Cardinality(Lines(header, n, kind)) \in Nat
  BY <1>3, FS_CardinalityType
<1>5. n + 1 \notin Lines(header, n, kind)
  BY <1>2
<1>6. Cardinality(Lines(header, n, kind) \cup {n + 1}) = Cardinality(Lines(header, n, kind)) + 1
  BY <1>3, <1>5, FS_AddElement
<1> QED
  BY <1>1, <1>3, <1>4, <1>6

(* The place of a line of a kind among those of its kind.                  *)
LEMMA LinePlace ==
  ASSUME NEW header, NEW n \in Nat, NEW kind, NEW i \in Lines(header, n, kind)
  PROVE  Cardinality(Lines(header, i, kind)) \in 1..Cardinality(Lines(header, n, kind))
<1>1. /\ i \in 1..n /\ i \in Lines(header, i, kind)
      /\ Lines(header, i, kind) \subseteq Lines(header, n, kind)
  BY DEF Lines
<1>2. IsFiniteSet(Lines(header, n, kind))
  BY LinesGrow
<1>3. /\ IsFiniteSet(Lines(header, i, kind))
      /\ Cardinality(Lines(header, i, kind)) <= Cardinality(Lines(header, n, kind))
  BY <1>1, <1>2, FS_Subset
<1>4. Cardinality(Lines(header, i, kind)) # 0
  BY <1>1, <1>3, FS_EmptySet
<1> QED
  BY <1>2, <1>3, <1>4, FS_CardinalityType

LEMMA NamesGrow ==
  ASSUME NEW header, NEW n \in Nat, NEW names \in Seq(Symbols), NamesOf(names, header, n)
  PROVE  /\ header[n + 1].kind # "func" => NamesOf(names, header, n + 1)
         /\ header[n + 1].kind = "func" /\ header[n + 1].name \in Symbols =>
              NamesOf(Append(names, header[n + 1].name), header, n + 1)
<1>1. CASE header[n + 1].kind # "func"
  BY <1>1, LinesGrow DEF NamesOf
<1>2. CASE header[n + 1].kind = "func" /\ header[n + 1].name \in Symbols
  <2> DEFINE more == Append(names, header[n + 1].name)
             F(m) == Lines(header, m, "func")
  <2>1. /\ Len(names) = Cardinality(F(n)) /\ Cardinality(F(n)) \in Nat
        /\ F(n + 1) = F(n) \cup {n + 1} /\ Cardinality(F(n + 1)) = Cardinality(F(n)) + 1
    BY <1>2, LinesGrow DEF NamesOf
  <2>2. /\ Len(more) = Len(names) + 1 /\ more[Len(names) + 1] = header[n + 1].name
        /\ \A k \in 1..Len(names) : more[k] = names[k]
    BY <1>2, AppendOne
  <2>3. ASSUME NEW i \in F(n) PROVE more[Cardinality(F(i))] = header[i].name
    BY <2>1, <2>2, <2>3, LinePlace DEF NamesOf
  <2> HIDE DEF more
  <2>4. more[Cardinality(F(n + 1))] = header[n + 1].name
    BY <2>1, <2>2
  <2>5. NamesOf(more, header, n + 1)
    BY <2>1, <2>2, <2>3, <2>4 DEF NamesOf
  <2> QED
    BY <1>2, <2>5 DEF more
<1> QED
  BY <1>1, <1>2

LastBase(header, bases) ==
  IF bases = {} THEN 0 ELSE header[CHOOSE i \in bases : \A j \in bases : j <= i].base

LEMMA BaseGrow ==
  ASSUME NEW header, NEW n \in Nat
  PROVE  BaseOf(header, n + 1) = IF header[n + 1].kind = "base" THEN header[n + 1].base
                                                                ELSE BaseOf(header, n)
<1>1. CASE header[n + 1].kind # "base"
  <2>1. \A kind : header[n + 1].kind # kind => Lines(header, n + 1, kind) = Lines(header, n, kind)
    BY <1>1, LinesGrow
  <2>2. \A m : BaseOf(header, m) = LastBase(header, Lines(header, m, "base"))
    BY DEF BaseOf, LastBase
  <2> QED
    BY <1>1, <2>1, <2>2
<1>2. CASE header[n + 1].kind = "base"
  <2> DEFINE bases == Lines(header, n + 1, "base")
             last  == CHOOSE i \in bases : \A j \in bases : j <= i
  <2>1. bases \subseteq 1..n + 1 /\ n + 1 \in bases
    BY <1>2 DEF Lines
  <2>2. BaseOf(header, n + 1) = header[last].base
    BY <2>1 DEF BaseOf
  <2> HIDE DEF bases
  <2>3. \E i \in bases : \A j \in bases : j <= i
    BY <2>1
  <2>4. last \in bases /\ \A j \in bases : j <= last
    BY <2>3
  <2> HIDE DEF last
  <2>5. last = n + 1
    BY <2>1, <2>4
  <2> QED
    BY <1>2, <2>2, <2>5
<1> QED
  BY <1>1, <1>2

LEMMA NoLines ==
  ASSUME NEW header
  PROVE  NamesOf(<<>>, header, 0) /\ BaseOf(header, 0) = 0
<1>1. \A kind : Lines(header, 0, kind) = {}
  BY DEF Lines
<1> QED
  BY <1>1, FS_EmptySet DEF NamesOf, BaseOf

(* A load at work has the names and the base of the lines it has read; its *)
(* set is bound to the first of the names.                                 *)
LinesRead == Len(Lib[path].header) - Len(hfile)
Reading ==
  /\ LinesRead \in Nat
  /\ \A i \in 1..Len(hfile) : hfile[i] = Lib[path].header[LinesRead + i]
  /\ NamesOf(fa.array, Lib[path].header, LinesRead)
  /\ fa.base = BaseOf(Lib[path].header, LinesRead)
  /\ bc \in {"dlopen", "dlsym"} => hfile = <<>>

Binding ==
  bc_set # NoSet =>
    /\ bc_set.cnt = Len(fa.array) /\ bc_set.base = fa.base
    /\ Len(bc_set.bc) <= Len(fa.array)
    /\ \A k \in 1..Len(bc_set.bc) : bc_set.bc[k] = fa.array[k]
    /\ Block("set.name", loads) \in heap

AtWorkWhole == Active => Reading /\ Binding /\ NotListed(path)

WholeInv == AtWorkWhole /\ ListedLibrariesAreWhole

LEMMA WholeInitInv == BcInit => WholeInv
<1> SUFFICES ASSUME BcInit PROVE WholeInv
  OBVIOUS
<1>1. ~Active /\ DOMAIN bcs_list = {}
  BY DEF BcInit, Active
<1> QED
  BY <1>1 DEF WholeInv, AtWorkWhole, ListedLibrariesAreWhole

(* What is listed stays whole where only blocks of other loads go.         *)
LEMMA ListedStay ==
  ASSUME ListedLibrariesAreWhole, UNCHANGED bcs_list,
         \A b \in heap : Listed(b.load) => b \in heap'
  PROVE  ListedLibrariesAreWhole'
<1>1. \A n \in DOMAIN bcs_list : \A w : Block(w, bcs_list[n].load) \in heap =>
                                        Block(w, bcs_list[n].load) \in heap'
  BY DEF Listed, Block
<1>2. \A n \in DOMAIN bcs_list :
        {Block(w, bcs_list[n].load) : w \in {"set", "set.name", "set.bc", "dl"}} \subseteq heap =>
        {Block(w, bcs_list[n].load) : w \in {"set", "set.name", "set.bc", "dl"}} \subseteq heap'
  BY <1>1
<1> QED
  BY <1>2 DEF ListedLibrariesAreWhole

LEMMA FreeKeeps ==
  ASSUME BcInv, Active, NEW blocks, NEW then, Free(blocks, then),
         blocks \subseteq FuncArray \cup SetBlocks \cup {Block("dl", loads)}
  PROVE  \A b \in heap : Listed(b.load) => b \in heap'
<1>1. \A b \in blocks : b.load = loads
  BY DEF FuncArray, SetBlocks, Block, Name
<1>2. \A b \in heap : Listed(b.load) => b \notin blocks
  BY <1>1, BcFacts
<1>3. heap' = heap \/ heap' = heap \ blocks
  BY DEF Free
<1> QED
  BY <1>2, <1>3

LEMMA BcBeginWhole ==
  ASSUME NEW p \in Paths, BcInv, WholeInv, BcBegin(p), NotListed(p)
  PROVE  WholeInv'
<1>1. UNCHANGED bcs_list /\ heap \subseteq heap' /\ path' = p /\ hfile' = Lib[p].header
      /\ bc_set' = NoSet /\ fa'.array = <<>> /\ fa'.base = 0
  BY DEF BcBegin, NoFa
<1>2. ListedLibrariesAreWhole'
  BY <1>1, ListedStay DEF WholeInv
<1>3. Len(Lib[p].header) \in Nat
  BY LibAssumption, LenProperties DEF Library
<1>4. LinesRead' = 0
  BY <1>1, <1>3 DEF LinesRead
<1>5. bc' \notin {"dlopen", "dlsym"}
  BY DEF BcBegin
<1>6. Reading' /\ Binding' /\ NotListed(path)'
  BY <1>1, <1>3, <1>4, <1>5, NoLines DEF Reading, Binding, NotListed
<1> QED
  BY <1>2, <1>6 DEF WholeInv, AtWorkWhole

LEMMA BcOpenWhole == BcInv /\ WholeInv /\ BcOpen => WholeInv'
<1> SUFFICES ASSUME BcInv, WholeInv, BcOpen PROVE WholeInv'
  OBVIOUS
<1>1. Active /\ UNCHANGED <<path, hfile, fa, bc_set, bcs_list, loads>> /\ bc_set = NoSet
      /\ bc' \notin {"dlopen", "dlsym"}
  BY BcFacts DEF BcOpen, Active, Free
<1>2. \A b \in heap : Listed(b.load) => b \in heap'
  <2>1. CASE heap' = heap \cup {Block("file", loads)}
    BY <2>1
  <2>2. CASE Free(FuncArray, "failed")
    BY <1>1, <2>2, FreeKeeps
  <2> QED
    BY <2>1, <2>2 DEF BcOpen
<1>3. Reading' /\ Binding' /\ NotListed(path)'
  BY <1>1 DEF WholeInv, AtWorkWhole, Reading, LinesRead, Binding, NotListed
<1> QED
  BY <1>1, <1>2, <1>3, ListedStay DEF WholeInv, AtWorkWhole

LEMMA BcLineWhole == BcInv /\ WholeInv /\ BcLine => WholeInv'
<1> SUFFICES ASSUME BcInv, WholeInv, BcLine PROVE WholeInv'
  OBVIOUS
<1> DEFINE line   == Head(hfile)
           header == Lib[path].header
<1>1. bc = "line" /\ Active /\ hfile # <<>> /\ bc_set = NoSet /\ heap \subseteq heap'
      /\ UNCHANGED <<path, bc_set, bcs_list, loads>> /\ (bc' = "line" \/ ~Active')
  BY BcFacts DEF BcLine, BcDie, Active
<1>2. ListedLibrariesAreWhole'
  BY <1>1, ListedStay DEF WholeInv
<1>3. CASE BcDie
  BY <1>2, <1>3 DEF BcDie, WholeInv, AtWorkWhole, Active
<1>4. CASE /\ \/ line.kind = "skip" /\ UNCHANGED <<fa, heap>>
              \/ line.kind = "base" /\ fa' = [fa EXCEPT !.base = line.base] /\ UNCHANGED heap
              \/ /\ line.kind = "func"
                 /\ heap' = heap \cup {Name(loads, Len(fa.array) + 1)}
                 /\ fa' = func_array_add_entry(line.name)
           /\ hfile' = Tail(hfile)
           /\ UNCHANGED <<bc, path, bc_set, bcs_list, loads>>
  <2>1. /\ hfile \in Seq(HLine) /\ fa \in FuncArrays /\ fa.array \in Seq(Symbols)
        /\ Reading /\ NotListed(path) /\ header \in Seq(HLine)
    BY <1>1, BcFacts, LibAssumption DEF WholeInv, AtWorkWhole, Library
  <2>2. /\ line \in HLine /\ line = hfile[1] /\ Len(hfile) \in Nat \ {0}
        /\ Len(hfile') = Len(hfile) - 1
        /\ \A i \in 1..Len(hfile') : hfile'[i] = hfile[i + 1]
    BY <1>1, <1>4, <2>1, HeadTailProperties, EmptySeq, LenProperties
  <2>3. /\ LinesRead \in Nat /\ LinesRead' = LinesRead + 1 /\ line = header[LinesRead + 1]
        /\ Len(header) \in Nat
    BY <1>1, <2>1, <2>2, LenProperties DEF Reading, LinesRead
  <2>4. ASSUME NEW i \in 1..Len(hfile') PROVE hfile'[i] = header[LinesRead' + i]
    <3>1. i + 1 \in 1..Len(hfile) /\ hfile'[i] = hfile[i + 1]
      BY <2>2
    <3>2. hfile[i + 1] = header[LinesRead + (i + 1)]
      BY <2>1, <3>1 DEF Reading
    <3> QED
      BY <2>3, <3>1, <3>2
  <2>5. NamesOf(fa'.array, header, LinesRead + 1) /\ fa'.base = BaseOf(header, LinesRead + 1)
    <3>1. NamesOf(fa.array, header, LinesRead) /\ fa.base = BaseOf(header, LinesRead)
      BY <2>1 DEF Reading
    <3>2. BaseOf(header, LinesRead + 1) = IF line.kind = "base" THEN line.base ELSE fa.base
      BY <2>3, <3>1, BaseGrow
    <3>3. CASE line.kind = "skip" /\ fa' = fa
      <4>1. NamesOf(fa.array, header, LinesRead + 1)
        BY <2>1, <2>3, <3>1, <3>3, NamesGrow
      <4> QED
        BY <3>2, <3>3, <4>1
    <3>4. CASE line.kind = "base" /\ fa' = [fa EXCEPT !.base = line.base]
      <4>1. NamesOf(fa.array, header, LinesRead + 1)
        BY <2>1, <2>3, <3>1, <3>4, NamesGrow
      <4>2. fa'.array = fa.array /\ fa'.base = line.base
        BY <2>1, <3>4 DEF FuncArrays
      <4> QED
        BY <3>2, <3>4, <4>1, <4>2
    <3>5. CASE line.kind = "func" /\ fa' = func_array_add_entry(line.name)
      <4>1. fa'.array = Append(fa.array, line.name) /\ fa'.base = fa.base
            /\ line.name \in Symbols
        BY <2>1, <2>2, <3>5 DEF FuncArrays, func_array_add_entry, HLine
      <4>2. NamesOf(Append(fa.array, line.name), header, LinesRead + 1)
        BY <2>1, <2>3, <3>1, <3>5, <4>1, NamesGrow
      <4> QED
        BY <3>2, <3>5, <4>1, <4>2
    <3> QED
      BY <1>4, <3>3, <3>4, <3>5
  <2>6. Reading'
    BY <1>1, <1>4, <2>3, <2>4, <2>5 DEF Reading
  <2>7. Binding' /\ NotListed(path)'
    BY <1>1, <2>1 DEF Binding, NotListed
  <2> QED
    BY <1>2, <2>6, <2>7 DEF WholeInv, AtWorkWhole
<1> QED
  BY <1>3, <1>4 DEF BcLine

LEMMA BcAllocWhole == BcInv /\ WholeInv /\ BcAlloc => WholeInv'
<1> SUFFICES ASSUME BcInv, WholeInv, BcAlloc PROVE WholeInv'
  OBVIOUS
<1>1. /\ Active /\ UNCHANGED <<path, hfile, fa, bcs_list, loads>> /\ bc_set = NoSet
      /\ hfile = <<>> /\ heap \subseteq heap'
  BY BcFacts DEF BcAlloc, Active
<1>2. ListedLibrariesAreWhole'
  BY <1>1, ListedStay DEF WholeInv
<1>3. Reading' /\ NotListed(path)'
  BY <1>1 DEF WholeInv, AtWorkWhole, Reading, LinesRead, NotListed
<1>4. Binding'
  <2>1. CASE UNCHANGED bc_set
    BY <1>1, <2>1 DEF Binding
  <2>2. CASE /\ bc_set' = [load |-> loads, path |-> path, base |-> fa.base,
                           cnt |-> Len(fa.array), bc |-> <<>>]
             /\ heap' = heap \cup {Block(w, loads) : w \in {"set", "set.name", "set.bc"}}
    BY <1>1, <2>2, BcFacts DEF Binding
  <2> QED
    BY <2>1, <2>2 DEF BcAlloc
<1> QED
  BY <1>2, <1>3, <1>4 DEF WholeInv, AtWorkWhole

LEMMA BcDlopenWhole == BcInv /\ WholeInv /\ BcDlopen => WholeInv'
<1> SUFFICES ASSUME BcInv, WholeInv, BcDlopen PROVE WholeInv'
  OBVIOUS
<1>1. Active /\ bc = "dlopen" /\ UNCHANGED <<path, hfile, fa, bc_set, bcs_list, loads>>
  BY DEF BcDlopen, Active
<1>2. \A b \in heap : Listed(b.load) => b \in heap'
  <2>1. CASE heap' = heap \cup {Block("dl", loads)}
    BY <2>1
  <2>2. CASE Free(FuncArray \cup SetBlocks, "failed")
    BY <1>1, <2>2, FreeKeeps
  <2> QED
    BY <2>1, <2>2 DEF BcDlopen
<1>3. Active' => heap \subseteq heap'
  BY <1>1 DEF BcDlopen, Free, Active
<1>4. Active' => Reading' /\ Binding' /\ NotListed(path)'
  BY <1>1, <1>3 DEF WholeInv, AtWorkWhole, Reading, LinesRead, Binding, NotListed
<1> QED
  BY <1>1, <1>2, <1>4, ListedStay DEF WholeInv, AtWorkWhole

LEMMA BcDlsymWhole == BcInv /\ WholeInv /\ BcDlsym => WholeInv'
<1> SUFFICES ASSUME BcInv, WholeInv, BcDlsym PROVE WholeInv'
  OBVIOUS
<1> DEFINE name == fa.array[Len(bc_set.bc) + 1]
<1>1. /\ Active /\ bc = "dlsym" /\ UNCHANGED <<path, hfile, fa, bcs_list, loads>>
      /\ Len(bc_set.bc) < Len(fa.array)
  BY DEF BcDlsym, Active
<1>2. CASE Free(FuncArray \cup SetBlocks \cup {Block("dl", loads)}, "failed") /\ UNCHANGED bc_set
  <2>1. \A b \in heap : Listed(b.load) => b \in heap'
    BY <1>1, <1>2, FreeKeeps
  <2>2. ~Active'
    BY <1>2 DEF Free, Active
  <2> QED
    BY <1>1, <2>1, <2>2, ListedStay DEF WholeInv, AtWorkWhole
<1>3. CASE bc_set = NoSet /\ bc' = "dead" /\ UNCHANGED <<bc_set, heap>>
  BY <1>1, <1>3, ListedStay DEF WholeInv, AtWorkWhole, Active
<1>4. CASE bc_set # NoSet /\ bc_set' = [bc_set EXCEPT !.bc = Append(@, name)]
           /\ UNCHANGED <<bc, heap>>
  <2>1. ListedLibrariesAreWhole' /\ Reading' /\ NotListed(path)'
    BY <1>1, <1>4, ListedStay DEF WholeInv, AtWorkWhole, Reading, LinesRead, NotListed
  <2>2. bc_set \in Set /\ bc_set.bc \in Seq(Symbols) /\ name \in Symbols /\ Len(bc_set.bc) \in Nat
    <3>1. bc_set \in Set /\ bc_set.bc \in Seq(Symbols) /\ Len(bc_set.bc) \in Nat
      BY <1>1, BcFacts, LenProperties DEF Set
    <3>2. Len(bc_set.bc) + 1 \in DOMAIN fa.array /\ fa.array \in Seq(Symbols)
      BY <1>1, <3>1, BcFacts
    <3> QED
      BY <3>1, <3>2
  <2>3. /\ bc_set'.bc = Append(bc_set.bc, name) /\ bc_set'.cnt = bc_set.cnt
        /\ bc_set'.base = bc_set.base
    BY <1>4, <2>2 DEF Set
  <2>4. /\ Len(bc_set'.bc) = Len(bc_set.bc) + 1 /\ bc_set'.bc[Len(bc_set.bc) + 1] = name
        /\ \A k \in 1..Len(bc_set.bc) : bc_set'.bc[k] = bc_set.bc[k]
    BY <2>2, <2>3, AppendOne
  <2>5. Binding
    BY <1>1 DEF WholeInv, AtWorkWhole
  <2>6. \A k \in 1..Len(bc_set'.bc) : bc_set'.bc[k] = fa.array[k]
    BY <1>4, <2>2, <2>4, <2>5 DEF Binding
  <2>7. Binding'
    BY <1>1, <1>4, <2>2, <2>3, <2>4, <2>5, <2>6, BcFacts DEF Binding
  <2> QED
    BY <2>1, <2>7 DEF WholeInv, AtWorkWhole
<1> QED
  BY <1>1, <1>2, <1>3, <1>4 DEF BcDlsym

(* The set that is listed has all the names of its header.                 *)
LEMMA BcListWhole == BcInv /\ WholeInv /\ BcList => WholeInv'
<1> SUFFICES ASSUME BcInv, WholeInv, BcList PROVE WholeInv'
  OBVIOUS
<1>1. /\ bc = "dlsym" /\ Active /\ UNCHANGED <<path, hfile, fa, bc_set, loads>>
      /\ Len(bc_set.bc) = Len(fa.array)
  BY DEF BcList, Active
<1>2. CASE bc_set = NoSet /\ bc' = "dead" /\ UNCHANGED <<bcs_list, heap>>
  BY <1>1, <1>2, ListedStay DEF WholeInv, AtWorkWhole, Active
<1>3. CASE bc_set # NoSet /\ bcs_list' = Append(bcs_list, bc_set) /\ Free(FuncArray, "loaded")
  <2>1. ~Active'
    BY <1>3 DEF Free, Active
  <2>2. bcs_list \in Seq(Set) /\ bc_set \in Set /\ bc_set.load = loads /\ bc_set.path = path
        /\ ~Listed(loads) /\ FuncArray \cup SetBlocks \subseteq heap /\ Block("dl", loads) \in heap
    BY <1>1, <1>3, BcFacts
  <2>3. /\ DOMAIN bcs_list' = 1..Len(bcs_list) + 1 /\ Len(bcs_list) \in Nat
        /\ bcs_list'[Len(bcs_list) + 1] = bc_set
        /\ \A m \in 1..Len(bcs_list) : bcs_list'[m] = bcs_list[m]
        /\ DOMAIN bcs_list = 1..Len(bcs_list)
    BY <1>3, <2>2, AppendOne
  <2>4. \A b \in heap : Listed(b.load) => b \in heap'
    BY <1>1, <1>3, FreeKeeps
  <2>5. /\ Reading /\ Binding /\ NotListed(path) /\ hfile = <<>>
        /\ LinesRead = Len(Lib[path].header)
    <3>1. /\ Reading /\ Binding /\ NotListed(path) /\ hfile = <<>>
      BY <1>1 DEF WholeInv, AtWorkWhole, Reading
    <3>2. Len(Lib[path].header) \in Nat /\ Len(hfile) = 0
      BY <1>1, <3>1, LibAssumption, BcFacts, LenProperties DEF Library
    <3> QED
      BY <3>1, <3>2 DEF LinesRead
  <2>6. NamesOf(bc_set.bc, Lib[path].header, Len(Lib[path].header))
        /\ bc_set.cnt = Len(bc_set.bc)
        /\ bc_set.base = BaseOf(Lib[path].header, Len(Lib[path].header))
    <3>1. bc_set.bc = fa.array
      <4>1. bc_set.bc \in Seq(Symbols) /\ fa.array \in Seq(Symbols)
        BY <1>1, <2>2, BcFacts DEF Set
      <4>2. \A k \in 1..Len(bc_set.bc) : bc_set.bc[k] = fa.array[k]
        BY <1>3, <2>5 DEF Binding
      <4> QED
        BY <1>1, <4>1, <4>2, SeqEqual
    <3> QED
      BY <1>3, <2>5, <3>1 DEF Reading, Binding
  <2>7. {Block(w, loads) : w \in {"set", "set.name", "set.bc", "dl"}} \subseteq heap'
    <3>1. {Block(w, loads) : w \in {"set", "set.name", "set.bc", "dl"}} \subseteq heap
      BY <1>3, <2>2, <2>5 DEF Binding, SetBlocks
    <3>2. {Block(w, loads) : w \in {"set", "set.name", "set.bc", "dl"}} \cap FuncArray = {}
      BY DEF FuncArray, Block, Name
    <3> QED
      BY <1>3, <3>1, <3>2 DEF Free
  <2>8. ASSUME NEW n \in DOMAIN bcs_list'
        PROVE  LET s == bcs_list'[n]
                   header == Lib[s.path].header IN
                 /\ NamesOf(s.bc, header, Len(header)) /\ s.cnt = Len(s.bc)
                 /\ s.base = BaseOf(header, Len(header))
                 /\ {Block(w, s.load) : w \in {"set", "set.name", "set.bc", "dl"}} \subseteq heap'
                 /\ ~Lib[s.path].inDir =>
                      \A m \in 1..n - 1 : Lib[bcs_list'[m].path].file # Lib[s.path].file
                 /\ \A m \in DOMAIN bcs_list' : bcs_list'[m].load = s.load => m = n
    <3>1. CASE n = Len(bcs_list) + 1
      <4>1. \A m \in 1..Len(bcs_list) : bcs_list'[m].load # loads
        BY <2>2, <2>3 DEF Listed
      <4>2. ~Lib[path].inDir => \A m \in 1..n - 1 : Lib[bcs_list'[m].path].file # Lib[path].file
        BY <2>3, <2>5, <3>1 DEF NotListed
      <4> QED
        BY <2>2, <2>3, <2>6, <2>7, <3>1, <4>1, <4>2
    <3>2. CASE n \in 1..Len(bcs_list)
      <4>1. bcs_list'[n] = bcs_list[n] /\ \A m \in 1..n - 1 : bcs_list'[m] = bcs_list[m]
        BY <2>3, <3>2
      <4>2. bcs_list[n].load # loads
        BY <2>2, <2>3, <3>2 DEF Listed
      <4>3. \A m \in DOMAIN bcs_list' : bcs_list'[m].load = bcs_list[n].load => m = n
        BY <2>2, <2>3, <3>2, <4>2 DEF WholeInv, ListedLibrariesAreWhole
      <4>4. {Block(w, bcs_list[n].load) : w \in {"set", "set.name", "set.bc", "dl"}}
              \subseteq heap'
        BY <2>3, <2>4, <3>2 DEF WholeInv, ListedLibrariesAreWhole, Listed, Block
      <4> QED
        BY <2>3, <3>2, <4>1, <4>3, <4>4 DEF WholeInv, ListedLibrariesAreWhole
    <3> QED
      BY <2>3, <2>8, <3>1, <3>2
  <2> QED
    BY <2>1, <2>8 DEF WholeInv, AtWorkWhole, ListedLibrariesAreWhole
<1> QED
  BY <1>1, <1>2, <1>3 DEF BcList

LEMMA WholeNextInv == ASSUME LibInv, BcInv, WholeInv, [Next]_vars PROVE WholeInv'
<1>1. CASE CcbLoaded
  <2>1. ~Active /\ ~Active' /\ UNCHANGED <<bcs_list, heap>>
    BY <1>1 DEF CcbLoaded, Active
  <2> QED
    BY <2>1, ListedStay DEF WholeInv, AtWorkWhole
<1>2. CASE UNCHANGED bcVars
  BY <1>2, ListedStay DEF bcVars, WholeInv, AtWorkWhole, Active, Reading, LinesRead, Binding,
     NotListed
<1> QED
  BY <1>1, <1>2, BcCalls, BcBeginWhole, BcOpenWhole, BcLineWhole, BcAllocWhole, BcDlopenWhole,
     BcDlsymWhole, BcListWhole DEF BcStep

(* Whatever the headers name, wherever a load failed and however often the *)
(* same library was asked for, a library in the list has every name of its *)
(* header at its place, its base and its blocks, and no other load's       *)
(* (tsm_bcloader.c:60-67, 258-272, tsm_ccb.c:88-97).                       *)
THEOREM ListedAreWhole == Spec => []ListedLibrariesAreWhole
<1>1. Init => WholeInv
  BY WholeInitInv DEF Init
<1>2. LibInv /\ BcInv /\ WholeInv /\ [Next]_vars => WholeInv'
  BY WholeNextInv
<1>3. WholeInv => ListedLibrariesAreWhole
  BY DEF WholeInv
<1> QED
  BY <1>1, <1>2, <1>3, LibraryInvs, PTL DEF Spec

----------------------------------------------------------------------------
(* The script that runs.                                                   *)

(* A pointer of the array is null, wild, or that of the entry of its place.*)
PointersPoint ==
  /\ se.code_num <= Len(entry)
  /\ \A k \in DOMAIN ces : ces[k] \in {Null, Wild} \/ (ces[k] = k /\ k <= se.code_num)

LEMMA PointInitInv == (ScInit => PointersPoint) /\ (ScInit' => PointersPoint')
<1>1. Len(<<>>) = 0 /\ DOMAIN <<>> = {} /\ NoScript.code_num = 0
  BY DEF NoScript
<1> QED
  BY <1>1 DEF ScInit, PointersPoint

LEMMA PointOpenInv ==
  ASSUME NEW lines, ScInv, PointersPoint, ScOpen(lines)
  PROVE  PointersPoint'
<1>1. CASE UNCHANGED <<se, ces>>
  BY <1>1 DEF ScOpen, PointersPoint
<1>2. CASE /\ se' = [size |-> SC_ENTRY_NUM, code_num |-> 0]
           /\ ces' = [k \in 1..SC_ENTRY_NUM |-> Null]
  <2>1. se'.code_num = 0 /\ \A k \in DOMAIN ces' : ces'[k] = Null
    BY <1>2
  <2>2. entry' = entry /\ Len(entry) \in Nat
    BY ScFacts DEF ScOpen
  <2> QED
    BY <2>1, <2>2 DEF PointersPoint
<1> QED
  BY <1>1, <1>2 DEF ScOpen

LEMMA PointStoreInv == ScInv /\ PointersPoint /\ ScStore => PointersPoint'
<1> SUFFICES ASSUME ScInv, PointersPoint, ScStore PROVE PointersPoint'
  OBVIOUS
<1>1. /\ Len(entry) = se.code_num + 1 /\ se.code_num \in Nat /\ UNCHANGED entry
      /\ se.size \in Nat
  BY ScFacts DEF ScStore, ScInv, ScProgress
<1>2. ASSUME NEW array, array \in {ces, se_resize}
      PROVE  \A k \in DOMAIN array : array[k] \in {Null, Wild} \/ (array[k] = k /\ k <= se.code_num)
  BY <1>2 DEF PointersPoint, se_resize, memcpy_int
<1>3. ASSUME NEW array, array \in {ces, se_resize}, Stored(array) PROVE PointersPoint'
  <2>1. se'.code_num = se.code_num + 1
    BY <1>3, ScFacts DEF Stored
  <2>2. ASSUME NEW k \in DOMAIN ces'
        PROVE  ces'[k] \in {Null, Wild} \/ (ces'[k] = k /\ k <= se'.code_num)
    <3>1. k \in DOMAIN array /\ (ces'[k] = array[k] \/ (k = se.code_num + 1 /\ ces'[k] = LastEntry))
      <4>1. CASE ces' = array
        BY <2>2, <4>1
      <4>2. CASE ces' = [array EXCEPT ![se.code_num + 1] = LastEntry]
        BY <2>2, <4>2
      <4> QED
        BY <1>3, <4>1, <4>2 DEF Stored
    <3>2. CASE ces'[k] = array[k]
      <4>1. array[k] \in {Null, Wild} \/ (array[k] = k /\ k <= se.code_num)
        BY <1>2, <1>3, <3>1
      <4>2. k <= se.code_num => k <= se'.code_num
        <5>1. ces' \in Seq(Nat \cup {Wild})
          BY ScStepInv DEF ScStep, ScInv, ScTypeOK
        <5>2. k \in Nat
          BY <2>2, <5>1
        <5> QED
          BY <1>1, <2>1, <5>2
      <4> QED
        BY <3>2, <4>1, <4>2
    <3>3. CASE k = se.code_num + 1 /\ ces'[k] = LastEntry
      BY <1>1, <2>1, <3>3 DEF LastEntry
    <3> QED
      BY <3>1, <3>2, <3>3
  <2> QED
    BY <1>1, <2>1, <2>2 DEF PointersPoint
<1> QED
  BY <1>3 DEF ScStore

LEMMA PointNextInv == ASSUME TlvInv, ScInv, PointersPoint, [Next]_vars PROVE PointersPoint'
<1>1. Len(entry) \in Nat /\ se.code_num \in Nat /\ ScInv'
  BY ScFacts, ScCalls, ScStepInv, ScNoFileInv, ScOpenInv, ScInitInv, ScStutter
<1>2. CASE ScLine
  <2>1. Len(entry') = Len(entry) \/ Len(entry') = Len(entry) + 1
    <3>1. \A x : Len(Append(entry, x)) = Len(entry) + 1
      BY ScFacts
    <3> QED
      BY <1>2, <3>1 DEF ScLine, ScDie
  <2> QED
    BY <1>1, <1>2, <2>1 DEF ScLine, ScDie, PointersPoint
<1>3. CASE ScParam
  <2>1. UNCHANGED <<read, se, ces>> /\ Len(entry') = Len(entry)
    BY <1>1, <1>3 DEF ScParam, ScInv, ScProgress
  <2> QED
    BY <2>1 DEF PointersPoint
<1>4. CASE ScNoMemory \/ ScEnd \/ ScParamEnd \/ ScStoreNowhere \/ ScNoFile \/ UNCHANGED scVars
  BY <1>4 DEF ScNoMemory, ScEnd, ScParamEnd, ScStoreNowhere, ScDie, ScNoFile, scVars, PointersPoint
<1> QED
  BY <1>2, <1>3, <1>4, ScCalls, PointOpenInv, PointStoreInv, PointInitInv DEF ScStep

(* What main prints and a VM thread runs is the entry at the place asked   *)
(* for.                                                                    *)
LEMMA EntryAtPlace ==
  ASSUME ScInv, PointersPoint, NEW k \in 1..se.code_num, NEW p \in EntryAt(k) \ {Null, Wild}
  PROVE  p = k /\ k \in DOMAIN entry /\ entry[p] \in CodeEntry
<1>1. p = k
  BY ScFacts DEF PointersPoint, EntryAt
<1> QED
  BY <1>1, ScFacts DEF PointersPoint

(* The types of the loader of libraries, when the process is dead too.     *)
LEMMA BcTypeNext == ASSUME LibInv, BcTypeOK, [Next]_vars PROVE BcTypeOK'
<1>1. /\ path \in Paths /\ hfile \in Seq(HLine) /\ fa.array \in Seq(Symbols)
      /\ fa \in [size : Nat, base : Nat, array : Seq(Symbols)]
      /\ bc_set \in Set /\ bcs_list \in Seq(Set) /\ loads \in Nat
      /\ heap \subseteq [what : Kinds, load : Nat, k : Nat]
  BY DEF BcTypeOK
<1>2. \A w \in Kinds, n \in Nat : Block(w, n) \in [what : Kinds, load : Nat, k : Nat]
  BY DEF Block
<1>3. ASSUME NEW p \in Paths, BcBegin(p) PROVE BcTypeOK'
  <2>1. Lib[p].header \in Seq(HLine) /\ NoSet \in Set /\ <<>> \in Seq(Symbols)
    BY LibAssumption, NoSetTyped DEF Library
  <2>2. CASE bc' = "failed" /\ fa' = NoFa /\ UNCHANGED <<heap, loads>>
    BY <1>1, <1>3, <2>1, <2>2 DEF BcBegin, BcTypeOK, NoFa
  <2>3. CASE /\ loads' = loads + 1
             /\ heap' = heap \cup {Block("fa", loads'), Block("array", loads')}
             /\ fa' = [size |-> BYCODE_SIZE, base |-> 0, array |-> <<>>]
             /\ bc' = "open"
    <3>1. "fa" \in Kinds /\ "array" \in Kinds /\ loads' \in Nat
      BY <1>1, <2>3 DEF Kinds
    <3>2. heap' \subseteq [what : Kinds, load : Nat, k : Nat]
      BY <1>1, <1>2, <2>3, <3>1
    <3>3. fa' \in [size : Nat, base : Nat, array : Seq(Symbols)]
      BY <2>1, <2>3, BycodeAssumption
    <3> QED
      BY <1>1, <1>3, <2>1, <2>3, <3>1, <3>2, <3>3 DEF BcBegin, BcTypeOK
  <2> QED
    BY <1>3, <2>2, <2>3 DEF BcBegin
<1>4. ASSUME NEW blocks, NEW then, Free(blocks, then), then \in {"failed", "loaded"}
      PROVE  /\ bc' \in {"idle", "open", "line", "dlopen", "dlsym", "loaded", "failed", "dead"}
             /\ heap' \subseteq [what : Kinds, load : Nat, k : Nat]
  BY <1>1, <1>4 DEF Free
<1>5. CASE BcOpen
  <2>1. CASE heap' = heap \cup {Block("file", loads)} /\ bc' = "line"
    <3>1. "file" \in Kinds
      BY DEF Kinds
    <3>2. heap' \subseteq [what : Kinds, load : Nat, k : Nat]
      BY <1>1, <1>2, <2>1, <3>1
    <3> QED
      BY <1>1, <1>5, <2>1, <3>2 DEF BcOpen, BcTypeOK
  <2>2. CASE Free(FuncArray, "failed")
    BY <1>1, <1>4, <1>5, <2>2 DEF BcOpen, BcTypeOK
  <2> QED
    BY <1>5, <2>1, <2>2 DEF BcOpen
<1>6. CASE BcLine
  <2> DEFINE line == Head(hfile)
  <2>1. line \in HLine /\ Tail(hfile) \in Seq(HLine)
    BY <1>1, <1>6, HeadTailProperties DEF BcLine
  <2>2. CASE BcDie
    BY <2>2 DEF BcDie, BcTypeOK
  <2>3. CASE /\ hfile' = Tail(hfile)
             /\ UNCHANGED <<bc, path, bc_set, bcs_list, loads>>
             /\ \/ UNCHANGED <<fa, heap>>
                \/ fa' = [fa EXCEPT !.base = line.base] /\ UNCHANGED heap
    <3>1. fa' \in [size : Nat, base : Nat, array : Seq(Symbols)]
      BY <1>1, <2>1, <2>3 DEF HLine
    <3> QED
      BY <1>1, <2>1, <2>3, <3>1 DEF BcTypeOK
  <2>4. CASE /\ hfile' = Tail(hfile)
             /\ UNCHANGED <<bc, path, bc_set, bcs_list, loads>>
             /\ heap' = heap \cup {Name(loads, Len(fa.array) + 1)}
             /\ fa' = func_array_add_entry(line.name)
    <3>1. line.name \in Symbols /\ Len(fa.array) + 1 \in Nat
      BY <1>1, <2>1, LenProperties DEF HLine
    <3>2. Append(fa.array, line.name) \in Seq(Symbols)
      BY <1>1, <3>1
    <3>3. fa' \in [size : Nat, base : Nat, array : Seq(Symbols)]
      <4>1. /\ fa' = [fa EXCEPT !.size = fa'.size, !.array = fa'.array]
            /\ fa'.size \in Nat /\ fa'.array = Append(fa.array, line.name)
        BY <1>1, <2>4 DEF func_array_add_entry
      <4> QED
        BY <1>1, <3>2, <4>1
    <3>4. heap' \subseteq [what : Kinds, load : Nat, k : Nat]
      BY <1>1, <2>4, <3>1 DEF Name, Kinds
    <3> QED
      BY <2>1, <2>4, <3>3, <3>4 DEF BcTypeOK
  <2> QED
    BY <1>6, <2>2, <2>3, <2>4 DEF BcLine
<1>7. CASE BcAlloc
  <2>1. bc_set' \in Set
    <3>1. fa.base \in Nat /\ Len(fa.array) \in Nat /\ <<>> \in Seq(Symbols)
      BY <1>1, LenProperties
    <3>2. CASE bc_set' = [load |-> loads, path |-> path, base |-> fa.base,
                          cnt |-> Len(fa.array), bc |-> <<>>]
      BY <1>1, <3>1, <3>2 DEF Set
    <3> QED
      BY <1>1, <1>7, <3>2 DEF BcAlloc
  <2>2. heap' \subseteq [what : Kinds, load : Nat, k : Nat]
    <3>1. {"set", "set.name", "set.bc"} \subseteq Kinds
      BY DEF Kinds
    <3>2. heap' \subseteq heap \cup {Block(w, loads) : w \in {"set", "set.name", "set.bc"}}
      BY <1>7 DEF BcAlloc
    <3> QED
      BY <1>1, <1>2, <3>1, <3>2
  <2> QED
    BY <1>1, <1>7, <2>1, <2>2 DEF BcAlloc, BcTypeOK
<1>8. CASE BcDlopen
  <2>1. CASE heap' = heap \cup {Block("dl", loads)} /\ bc' = "dlsym"
    <3>1. "dl" \in Kinds
      BY DEF Kinds
    <3>2. heap' \subseteq [what : Kinds, load : Nat, k : Nat]
      BY <1>1, <1>2, <2>1, <3>1
    <3> QED
      BY <1>1, <1>8, <2>1, <3>2 DEF BcDlopen, BcTypeOK
  <2>2. CASE Free(FuncArray \cup SetBlocks, "failed")
    BY <1>1, <1>4, <1>8, <2>2 DEF BcDlopen, BcTypeOK
  <2> QED
    BY <1>8, <2>1, <2>2 DEF BcDlopen
<1>9. CASE BcDlsym
  <2> DEFINE name == fa.array[Len(bc_set.bc) + 1]
  <2>1. CASE /\ Free(FuncArray \cup SetBlocks \cup {Block("dl", loads)}, "failed")
             /\ UNCHANGED bc_set
    BY <1>1, <1>4, <1>9, <2>1 DEF BcDlsym, BcTypeOK
  <2>2. CASE bc' = "dead" /\ UNCHANGED <<bc_set, heap>>
    BY <1>1, <1>9, <2>2 DEF BcDlsym, BcTypeOK
  <2>3. CASE bc_set' = [bc_set EXCEPT !.bc = Append(@, name)] /\ UNCHANGED <<bc, heap>>
    <3>1. bc_set.bc \in Seq(Symbols) /\ Len(bc_set.bc) \in Nat
      BY <1>1, LenProperties DEF Set
    <3>2. Len(bc_set.bc) + 1 \in DOMAIN fa.array
      BY <1>1, <1>9, <3>1 DEF BcDlsym
    <3>3. Append(bc_set.bc, name) \in Seq(Symbols)
      BY <1>1, <3>1, <3>2
    <3>4. bc_set' \in Set
      BY <1>1, <2>3, <3>3 DEF Set
    <3> QED
      BY <1>1, <1>9, <2>3, <3>4 DEF BcDlsym, BcTypeOK
  <2> QED
    BY <1>9, <2>1, <2>2, <2>3 DEF BcDlsym
<1>10. CASE BcList
  <2>1. CASE bc' = "dead" /\ UNCHANGED <<bcs_list, heap>>
    BY <1>1, <1>10, <2>1 DEF BcList, BcTypeOK
  <2>2. CASE bcs_list' = Append(bcs_list, bc_set) /\ Free(FuncArray, "loaded")
    BY <1>1, <1>4, <1>10, <2>2 DEF BcList, BcTypeOK
  <2> QED
    BY <1>10, <2>1, <2>2 DEF BcList
<1>11. CASE CcbLoaded \/ UNCHANGED bcVars
  BY <1>11 DEF CcbLoaded, bcVars, BcTypeOK
<1> QED
  BY <1>3, <1>5, <1>6, <1>7, <1>8, <1>9, <1>10, <1>11, BcCalls DEF BcStep

LEMMA LeastOfSet ==
  ASSUME NEW T \in SUBSET Nat, T # {}
  PROVE  \E n \in T : \A m \in T : n <= m
<1> DEFINE R == {ss \in Nat \X Nat : ss[1] < ss[2]}
<1>1. OpToRel(<, Nat) = R
  BY DEF OpToRel
<1>2. IsWellFoundedOn(R, Nat)
  BY <1>1, NatLessThanWellFounded
<1>3. PICK n \in T : \A m \in T : ~ (<<m, n>> \in R)
  BY <1>2, WFMin
<1>4. ASSUME NEW m \in T, m < n PROVE <<m, n>> \in R
  <2> DEFINE mn == <<m, n>>
  <2>1. mn \in Nat \X Nat /\ mn[1] = m /\ mn[2] = n
    OBVIOUS
  <2>2. mn[1] < mn[2]
    BY <1>4, <2>1
  <2> HIDE DEF mn
  <2>3. mn \in R
    BY <2>1, <2>2
  <2> QED
    BY <2>3 DEF mn
<1> HIDE DEF R
<1>5. \A m \in T : ~(m < n)
  BY <1>3, <1>4
<1> QED
  BY <1>5

LEMMA NatSetInduction ==
  ASSUME NEW S, 0 \in S, \A n \in Nat : n \in S => n + 1 \in S
  PROVE  Nat \subseteq S
<1> SUFFICES ASSUME Nat \ S # {} PROVE FALSE
  OBVIOUS
<1>1. PICK n \in Nat \ S : \A m \in Nat \ S : n <= m
  BY LeastOfSet
<1>2. n # 0 /\ n - 1 \in Nat /\ n - 1 \notin Nat \ S
  BY <1>1
<1> QED
  BY <1>1, <1>2

(* A byte code leaves a table that is usable, was ruined, or kills.        *)
TableOk(t) ==
  /\ t = [map |-> t.map, lent |-> t.lent, status |-> t.status]
  /\ t.status \in {"ok", "wild", "dead"}

SetAfter(t, arg, N) ==
  LET after[n \in 0..N] ==
        IF n = 0 THEN t
        ELSE Put(after[n - 1], StructKey(arg[2 * n]), {hexstr_to_hex(arg[2 * n - 1])}, {}) IN
  after

ReverseAfter(t, arg, N) ==
  LET after[n \in 0..N] ==
        IF n = 0 THEN t ELSE Reversed(after[n - 1], arg[2 * n - 1], arg[2 * n]) IN
  after

(* The loops of data_set and data_reverse.                                 *)
LEMMA SetLoop ==
  ASSUME NEW t, NEW arg, NEW N \in Nat
  PROVE  LET f == SetAfter(t, arg, N) IN
         /\ f[0] = t
         /\ \A n \in 1..N : f[n] = Put(f[n - 1], StructKey(arg[2 * n]),
                                       {hexstr_to_hex(arg[2 * n - 1])}, {})
<1> DEFINE Op(u, n) == Put(u, StructKey(arg[2 * n]), {hexstr_to_hex(arg[2 * n - 1])}, {})
           Loop(f, m) == f = [n \in 0..m |-> IF n = 0 THEN t ELSE Op(f[n - 1], n)]
           S == {m \in Nat : \E f : Loop(f, m)}
<1>1. 0 \in S
  <2>1. Loop([n \in 0..0 |-> t], 0)
    OBVIOUS
  <2> QED
    BY <2>1
<1> HIDE DEF Op
<1>2. ASSUME NEW m \in Nat, m \in S PROVE m + 1 \in S
  <2>1. PICK f : Loop(f, m)
    BY <1>2
  <2> DEFINE g == [n \in 0..m + 1 |-> IF n = m + 1 THEN Op(f[m], m + 1) ELSE f[n]]
  <2>2. ASSUME NEW n \in 0..m + 1 PROVE g[n] = IF n = 0 THEN t ELSE Op(g[n - 1], n)
    <3>1. CASE n = m + 1
      BY <3>1
    <3>2. CASE n # m + 1
      <4>1. n \in 0..m
        BY <3>2
      <4>2. f[n] = IF n = 0 THEN t ELSE Op(f[n - 1], n)
        BY <2>1, <4>1
      <4> QED
        BY <3>2, <4>1, <4>2
    <3> QED
      BY <3>1, <3>2
  <2>3. Loop(g, m + 1)
    BY <2>2
  <2> HIDE DEF g, Loop
  <2> QED
    BY <2>3
<1>3. \E f : Loop(f, N)
  <2> HIDE DEF S
  <2>1. N \in S
    BY <1>1, <1>2, NatSetInduction
  <2> QED
    BY <2>1 DEF S
<1> DEFINE h == CHOOSE f : Loop(f, N)
<1>4. Loop(h, N)
  BY <1>3
<1>5. SetAfter(t, arg, N) = h
  BY DEF SetAfter, Op
<1> HIDE DEF h
<1>6. h[0] = t /\ \A n \in 1..N : h[n] = Op(h[n - 1], n)
  BY <1>4
<1> QED
  BY <1>5, <1>6 DEF Op

LEMMA ReverseLoop ==
  ASSUME NEW t, NEW arg, NEW N \in Nat
  PROVE  LET f == ReverseAfter(t, arg, N) IN
         /\ f[0] = t
         /\ \A n \in 1..N : f[n] = Reversed(f[n - 1], arg[2 * n - 1], arg[2 * n])
<1> DEFINE Op(u, n) == Reversed(u, arg[2 * n - 1], arg[2 * n])
           Loop(f, m) == f = [n \in 0..m |-> IF n = 0 THEN t ELSE Op(f[n - 1], n)]
           S == {m \in Nat : \E f : Loop(f, m)}
<1>1. 0 \in S
  <2>1. Loop([n \in 0..0 |-> t], 0)
    OBVIOUS
  <2> QED
    BY <2>1
<1> HIDE DEF Op
<1>2. ASSUME NEW m \in Nat, m \in S PROVE m + 1 \in S
  <2>1. PICK f : Loop(f, m)
    BY <1>2
  <2> DEFINE g == [n \in 0..m + 1 |-> IF n = m + 1 THEN Op(f[m], m + 1) ELSE f[n]]
  <2>2. ASSUME NEW n \in 0..m + 1 PROVE g[n] = IF n = 0 THEN t ELSE Op(g[n - 1], n)
    <3>1. CASE n = m + 1
      BY <3>1
    <3>2. CASE n # m + 1
      <4>1. n \in 0..m
        BY <3>2
      <4>2. f[n] = IF n = 0 THEN t ELSE Op(f[n - 1], n)
        BY <2>1, <4>1
      <4> QED
        BY <3>2, <4>1, <4>2
    <3> QED
      BY <3>1, <3>2
  <2>3. Loop(g, m + 1)
    BY <2>2
  <2> HIDE DEF g, Loop
  <2> QED
    BY <2>3
<1>3. \E f : Loop(f, N)
  <2> HIDE DEF S
  <2>1. N \in S
    BY <1>1, <1>2, NatSetInduction
  <2> QED
    BY <2>1 DEF S
<1> DEFINE h == CHOOSE f : Loop(f, N)
<1>4. Loop(h, N)
  BY <1>3
<1>5. ReverseAfter(t, arg, N) = h
  BY DEF ReverseAfter, Op
<1> HIDE DEF h
<1>6. h[0] = t /\ \A n \in 1..N : h[n] = Op(h[n - 1], n)
  BY <1>4
<1> QED
  BY <1>5, <1>6 DEF Op

(* Put: its status, its own key, and the others.                           *)
LEMMA PutFacts ==
  ASSUME NEW t, NEW key, NEW value, NEW owner
  PROVE  LET u == Put(t, key, value, owner) IN
         /\ TableOk(t) => TableOk(u)
         /\ t.status # "ok" => u = t
         /\ u.status = "ok" => t.status = "ok"
         /\ u.status = "ok" => \A k : k # key =>
              /\ k \in DOMAIN u.map <=> k \in DOMAIN t.map
              /\ k \in DOMAIN t.map => u.map[k] = t.map[k]
<1> DEFINE u    == Put(t, key, value, owner)
           keys == IF value = {} THEN DOMAIN t.map \ {key} ELSE DOMAIN t.map \cup {key}
<1>1. CASE t.status # "ok"
  BY <1>1 DEF Put
<1>2. CASE t.status = "ok"
  <2>1. u.status \in {"wild", "ok"}
    BY <1>2 DEF Put
  <2>4. TableOk(u)
    BY <1>2, <2>1 DEF Put, TableOk
  <2>2. u.map = [k \in keys |-> IF k = key THEN CHOOSE v \in value : TRUE ELSE t.map[k]]
    BY <1>2 DEF Put
  <2> HIDE DEF u
  <2>3. \A k : k # key => (k \in DOMAIN u.map <=> k \in DOMAIN t.map)
                          /\ (k \in DOMAIN t.map => u.map[k] = t.map[k])
    BY <2>2
  <2> QED
    BY <1>2, <2>1, <2>3, <2>4 DEF u
<1> QED
  BY <1>1, <1>2

LEMMA DyingFacts ==
  ASSUME NEW t, TableOk(t)
  PROVE  TableOk(Dying(t)) /\ Dying(t).status = "dead"
  BY DEF Dying, TableOk

LEMMA ReversedFacts ==
  ASSUME NEW t, NEW src, NEW des, TableOk(t)
  PROVE  LET u == Reversed(t, src, des) IN
         /\ TableOk(u)
         /\ t.status # "ok" => u.status # "ok"
         /\ src \notin DOMAIN t.map => u.status # "ok"
  BY DyingFacts, PutFacts DEF Reversed, TextKey

LEMMA SetLoopTables ==
  ASSUME NEW t, NEW arg, NEW N \in Nat, TableOk(t)
  PROVE  \A n \in 0..N : TableOk(SetAfter(t, arg, N)[n])
<1> DEFINE f == SetAfter(t, arg, N)
           S == {n \in Nat : n <= N => TableOk(f[n])}
<1>1. f[0] = t /\ \A n \in 1..N : f[n] = Put(f[n - 1], StructKey(arg[2 * n]),
                                            {hexstr_to_hex(arg[2 * n - 1])}, {})
  BY SetLoop
<1> HIDE DEF f
<1>2. 0 \in S
  BY <1>1
<1>3. ASSUME NEW n \in Nat, n \in S PROVE n + 1 \in S
  <2>1. n + 1 <= N => f[n + 1] = Put(f[n], StructKey(arg[2 * (n + 1)]),
                                     {hexstr_to_hex(arg[2 * (n + 1) - 1])}, {})
    <3>1. (n + 1) - 1 = n /\ (n + 1 <= N => n + 1 \in 1..N)
      OBVIOUS
    <3> QED
      BY <1>1, <3>1
  <2>2. n + 1 <= N => TableOk(f[n])
    BY <1>3
  <2> QED
    BY <2>1, <2>2, PutFacts
<1> HIDE DEF S
<1>4. Nat \subseteq S
  BY <1>2, <1>3, NatSetInduction
<1> QED
  BY <1>4 DEF S, f

LEMMA ReverseLoopTables ==
  ASSUME NEW t, NEW arg, NEW N \in Nat, TableOk(t)
  PROVE  /\ \A n \in 0..N : TableOk(ReverseAfter(t, arg, N)[n])
         /\ N # 0 /\ arg[1] \notin DOMAIN t.map => ReverseAfter(t, arg, N)[N].status # "ok"
<1> DEFINE f == ReverseAfter(t, arg, N)
           S == {n \in Nat : n <= N =>
                   /\ TableOk(f[n])
                   /\ n # 0 /\ arg[1] \notin DOMAIN t.map => f[n].status # "ok"}
<1>1. f[0] = t /\ \A n \in 1..N : f[n] = Reversed(f[n - 1], arg[2 * n - 1], arg[2 * n])
  BY ReverseLoop
<1> HIDE DEF f
<1>2. 0 \in S
  BY <1>1
<1>3. ASSUME NEW n \in Nat, n \in S PROVE n + 1 \in S
  <2> SUFFICES ASSUME n + 1 <= N
               PROVE  /\ TableOk(f[n + 1])
                      /\ arg[1] \notin DOMAIN t.map => f[n + 1].status # "ok"
    OBVIOUS
  <2>1. f[n + 1] = Reversed(f[n], arg[2 * (n + 1) - 1], arg[2 * (n + 1)])
    BY <1>1
  <2>2. TableOk(f[n]) /\ (n # 0 /\ arg[1] \notin DOMAIN t.map => f[n].status # "ok")
    BY <1>3
  <2>3. n = 0 => f[n] = t /\ arg[2 * (n + 1) - 1] = arg[1]
    BY <1>1
  <2> QED
    BY <2>1, <2>2, <2>3, ReversedFacts
<1> HIDE DEF S
<1>4. Nat \subseteq S
  BY <1>2, <1>3, NatSetInduction
<1> QED
  BY <1>4 DEF S, f

(* What a byte code other than data_set puts, it puts under "", unless it  *)
(* finds a parameter's text among the names.                               *)
OtherNames(t, u) ==
  \A k : k # <<>> => (k \in DOMAIN u.map <=> k \in DOMAIN t.map)
                     /\ (k \in DOMAIN t.map => u.map[k] = t.map[k])

LEMMA ExtractedFacts ==
  ASSUME NEW t, NEW arg, NEW sources, TableOk(t), NEW u \in Extracted(t, arg, sources)
  PROVE  TableOk(u) /\ (u.status = "ok" => OtherNames(t, u))
<1>1. u = t \/ u = Dying(t) \/ \E value : u = Put(t, <<>>, value, {})
  BY DEF Extracted
<1> QED
  BY <1>1, DyingFacts, PutFacts DEF OtherNames

LEMMA OutcomeFacts ==
  ASSUME NEW code \in DataCodes, NEW arg \in Seq(Texts), TableOk(bre), NEW u \in Outcome(code, arg)
  PROVE  /\ TableOk(u)
         /\ code # DataSet \/ Len(arg) % 2 # 0 =>
              /\ u.status = "ok" => \/ OtherNames(bre, u)
                                   \/ \E i \in DOMAIN arg : arg[i] \in DOMAIN bre.map
         /\ code = DataSet /\ Len(arg) % 2 = 0 /\ u.status = "ok" =>
              u = SetAfter(bre, arg, Len(arg) \div 2)[Len(arg) \div 2]
<1> DEFINE N == Len(arg) \div 2
<1>1. Len(arg) \in Nat /\ N \in Nat /\ DOMAIN arg = 1..Len(arg)
  BY LenProperties
<1>2. OtherNames(bre, bre)
  BY DEF OtherNames
<1>3. CASE code = DataSet
  <2>1. u \in data_set(bre, arg)
    BY <1>3, DataAssumption DEF Outcome
  <2>2. CASE Len(arg) % 2 # 0
    BY <1>2, <2>1, <2>2 DEF data_set
  <2>3. CASE Len(arg) % 2 = 0
    <3>1. u = SetAfter(bre, arg, N)[N] \/ u = Dying(bre)
      BY <2>1, <2>3 DEF data_set, SetAfter
    <3>2. TableOk(SetAfter(bre, arg, N)[N])
      BY <1>1, SetLoopTables
    <3> QED
      BY <1>3, <2>3, <3>1, <3>2, DyingFacts
  <2> QED
    BY <1>1, <2>2, <2>3
<1>4. CASE /\ code # DataSet
           /\ u \in data_extract(bre, arg) \/ u \in data_extract_rsp(bre, arg, Responses)
  BY <1>4, ExtractedFacts DEF data_extract, data_extract_rsp
<1>5. CASE code # DataSet /\ u \in data_concat(bre, arg)
  <2>1. CASE arg = <<>> \/ (\E i \in DOMAIN arg : TextKey(arg[i]) \notin DOMAIN bre.map)
    BY <1>5, <2>1, DyingFacts DEF data_concat
  <2>2. CASE arg # <<>> /\ (\A i \in DOMAIN arg : TextKey(arg[i]) \in DOMAIN bre.map)
    <3>1. \E key, value, owner : u = Put(bre, key, value, owner)
      BY <1>5, <2>2 DEF data_concat
    <3>2. 1 \in DOMAIN arg
      BY <1>1, <2>2, EmptySeq
    <3> QED
      BY <1>5, <2>2, <3>1, <3>2, PutFacts DEF TextKey
  <2> QED
    BY <2>1, <2>2
<1>6. CASE code # DataSet /\ u \in data_reverse(bre, arg)
  <2>1. CASE Len(arg) % 2 # 0
    BY <1>2, <1>6, <2>1 DEF data_reverse
  <2>2. CASE Len(arg) % 2 = 0
    <3>1. u = ReverseAfter(bre, arg, N)[N]
      BY <1>6, <2>2 DEF data_reverse, ReverseAfter
    <3>2. TableOk(u) /\ (N # 0 /\ arg[1] \notin DOMAIN bre.map => u.status # "ok")
      BY <1>1, <3>1, ReverseLoopTables
    <3>3. CASE N = 0
      BY <1>1, <1>2, <1>6, <3>1, <3>2, <3>3, ReverseLoop
    <3>4. CASE N # 0
      <4>1. 1 \in DOMAIN arg
        BY <1>1, <3>4
      <4> QED
        BY <1>6, <3>2, <3>4, <4>1
    <3> QED
      BY <3>3, <3>4
  <2> QED
    BY <1>1, <2>1, <2>2
<1>7. CASE code # DataSet /\ u \in data_idle(bre, arg)
  BY <1>2, <1>7 DEF data_idle
<1>8. code = DataSet \/ u \in data_extract(bre, arg)
      \/ u \in data_extract_rsp(bre, arg, Responses) \/ u \in data_concat(bre, arg)
      \/ u \in data_reverse(bre, arg) \/ u \in data_idle(bre, arg)
  BY DEF Outcome, DataCodes
<1> QED
  BY <1>3, <1>4, <1>5, <1>6, <1>7, <1>8

(* A VM thread at work.                                                    *)
VmInv ==
  /\ TableOk(bre) /\ ran \in Seq(Nat \ {0})
  /\ ran # <<>> \/ bre # EmptyTable => cs \in {"run", "dead"}
  /\ cs = "run" => bre.status = "ok"
  /\ \A n \in DOMAIN ran : ran[n] \in DOMAIN entry

LEMMA VmInitInv == Init => VmInv
<1>1. /\ <<>> \in Seq(Nat \ {0}) /\ DOMAIN <<>> = {}
      /\ TableOk(EmptyTable) /\ EmptyTable.status = "ok"
  BY DEF EmptyTable, TableOk
<1> QED
  BY <1>1 DEF Init, VmInv

(* Once entries run nothing else happens, and before nothing was put.      *)
LEMMA OnlyVmRuns ==
  ASSUME [Next]_vars
  PROVE  /\ UNCHANGED vmVars \/ (\E k \in 1..se.code_num : VmRun(k))
         /\ cs \in {"run", "dead"} => UNCHANGED vars \/ (\E k \in 1..se.code_num : VmRun(k))
<1>1. UNCHANGED vars => UNCHANGED vmVars
  BY DEF vars
<1>2. CASE MainStep
  BY <1>2 DEF MainStep, Main, MainLoad, LoadingScript, MainLoaded, MainPrint
<1>3. CASE Vm
  BY <1>3 DEF Vm, VmLoad, LoadingScript, VmLoaded
<1>4. CASE Router /\ UNCHANGED vmVars
  BY <1>4 DEF Router, CcbBegin, CcbSession, CcbScript, LoadingScript, CcbScriptLoaded, CcbTable,
     CcbSkip, CcbSearch, LoadingLibrary, CcbLoaded, CcbLeaveOut, ccb_add_bc, CcbEnd
<1> QED
  BY <1>1, <1>2, <1>3, <1>4 DEF Next

(* What an entry leaves, one with a parameter behind its array too.        *)
EntryOutcome(e) == IF e.lost = 0 THEN Outcome(e.code, e.array)
                                 ELSE {[bre EXCEPT !.status = "wild"]}

LEMMA EntryOutcomeFacts ==
  ASSUME NEW e, TableOk(bre), NEW u \in EntryOutcome(e), e.code \in DataCodes,
         e.array \in Seq(Texts)
  PROVE  TableOk(u) /\ (u.status = "ok" => u \in Outcome(e.code, e.array))
<1>1. CASE e.lost = 0
  BY <1>1, OutcomeFacts DEF EntryOutcome
<1>2. CASE e.lost # 0
  <2>1. u = [bre EXCEPT !.status = "wild"]
    BY <1>2 DEF EntryOutcome
  <2> QED
    BY <2>1 DEF TableOk
<1> QED
  BY <1>1, <1>2

LEMMA VmRunFacts ==
  ASSUME ScInv, PointersPoint, VmInv, NEW k \in 1..se.code_num, VmRun(k)
  PROVE  /\ cs = "run" /\ entry' = entry
         /\ \/ cs' = "dead" /\ UNCHANGED vmVars
            \/ /\ cs' = IF bre'.status = "ok" THEN "run" ELSE "dead"
               /\ ran' = Append(ran, k) /\ k \in DOMAIN entry
               /\ k \in Nat \ {0}
               /\ entry[k] \in CodeEntry /\ entry[k].code \in DataCodes
               /\ entry[k].array \in Seq(Texts)
               /\ bre' \in EntryOutcome(entry[k])
<1>1. se.code_num \in Nat
  BY ScFacts
<1>2. CASE Dies /\ UNCHANGED vmVars
  BY <1>2 DEF Dies, VmRun, loadVars, scVars
<1>3. ASSUME NEW p \in EntryAt(k) \ {Null, Wild},
             LET e == entry[p] IN
               /\ e.code \in DataCodes /\ (e.size > 0 \/ e.code = DataIdle)
               /\ bre' \in IF e.lost = 0 THEN Outcome(e.code, e.array)
                                          ELSE {[bre EXCEPT !.status = "wild"]},
             ran' = Append(ran, k), cs' = IF bre'.status = "ok" THEN "run" ELSE "dead",
             UNCHANGED <<role, printed, tlv, dl, ccb, ccb_list, created, loadVars>>
      PROVE  /\ ran' = Append(ran, k) /\ k \in DOMAIN entry
             /\ k \in Nat \ {0} /\ entry' = entry
             /\ entry[k] \in CodeEntry /\ entry[k].code \in DataCodes
             /\ entry[k].array \in Seq(Texts)
             /\ bre' \in EntryOutcome(entry[k])
  <2>1. p = k /\ k \in DOMAIN entry /\ entry[k] \in CodeEntry
    BY EntryAtPlace
  <2>2. entry[k].array \in Seq(Texts)
    BY <2>1 DEF CodeEntry
  <2>3. k \in Nat \ {0} /\ entry' = entry
    BY <1>1, <1>3 DEF loadVars, scVars
  <2> QED
    BY <1>3, <2>1, <2>2, <2>3 DEF EntryOutcome
<1> QED
  BY <1>2, <1>3 DEF VmRun

LEMMA VmNextInv ==
  ASSUME TlvInv, ScInv, PointersPoint, VmInv, [Next]_vars
  PROVE  VmInv'
<1>1. ASSUME NEW k \in 1..se.code_num, VmRun(k) PROVE VmInv'
  <2>1. CASE cs' = "dead" /\ UNCHANGED vmVars
    BY <1>1, <2>1, VmRunFacts DEF VmInv, vmVars
  <2>2. CASE ~(cs' = "dead" /\ UNCHANGED vmVars)
    <3>1. /\ cs' = IF bre'.status = "ok" THEN "run" ELSE "dead"
          /\ ran' = Append(ran, k) /\ k \in DOMAIN entry
          /\ k \in Nat \ {0} /\ entry' = entry /\ entry[k].code \in DataCodes
          /\ entry[k].array \in Seq(Texts)
          /\ bre' \in EntryOutcome(entry[k])
      BY <1>1, <2>2, VmRunFacts
    <3>2. TableOk(bre')
      BY <3>1, EntryOutcomeFacts DEF VmInv
    <3>3. /\ ran' \in Seq(Nat \ {0}) /\ DOMAIN ran' = DOMAIN ran \cup {Len(ran) + 1}
          /\ ran'[Len(ran) + 1] = k /\ \A n \in DOMAIN ran : ran'[n] = ran[n]
      BY <3>1 DEF VmInv
    <3> QED
      BY <3>1, <3>2, <3>3 DEF VmInv
  <2> QED
    BY <2>1, <2>2
<1>2. CASE UNCHANGED vmVars /\ cs \notin {"run", "dead"}
  <2>1. /\ ran' = <<>> /\ bre' = EmptyTable /\ DOMAIN ran' = {} /\ ran' \in Seq(Nat \ {0})
        /\ TableOk(bre') /\ bre'.status = "ok"
    BY <1>2 DEF VmInv, vmVars, EmptyTable
  <2> QED
    BY <2>1 DEF VmInv
<1>3. CASE UNCHANGED vars
  BY <1>3 DEF vars, vmVars, createVars, loadVars, scVars, VmInv
<1> QED
  BY <1>1, <1>2, <1>3, OnlyVmRuns

(* Where main, the router and a VM thread are, and what main printed.      *)
WhereInv ==
  /\ role \in {"main", "router", "vm"}
  /\ cs \in {"start", "loading", "print", "session", "script", "table", "dll",
             "dlload", "found", "missing", "run", "dead"}
  /\ printed \in Seq(CodeEntry)
  /\ created \in 0..MaxCreates

LEMMA WhereInitInv == Init => WhereInv
<1>1. <<>> \in Seq(CodeEntry) /\ 0 \in 0..MaxCreates
  BY CreatesAssumption
<1> QED
  BY <1>1 DEF Init, CreateInit, WhereInv

LEMMA WhereNextInv ==
  ASSUME ScInv, PointersPoint, VmInv, WhereInv, [Next]_vars
  PROVE  WhereInv'
<1>1. CASE UNCHANGED vars
  BY <1>1 DEF vars, createVars, WhereInv
<1>2. CASE MainStep
  <2>1. CASE MainPrint
    <3>1. CASE Dies
      BY <3>1 DEF Dies, WhereInv
    <3>2. CASE ~Dies
      <4>1. PICK p \in EntryAt(Len(printed) + 1) \ {Null, Wild} :
              /\ printed' = Append(printed, entry[p])
              /\ UNCHANGED <<role, cs, tlv, dl, ccb, ccb_list, created, loadVars>>
        BY <2>1, <3>2 DEF MainPrint
      <4>2. Len(printed) + 1 \in 1..se.code_num
        BY <2>1, ScFacts, LenProperties DEF MainPrint, WhereInv
      <4>3. entry[p] \in CodeEntry
        BY <4>2, EntryAtPlace
      <4>4. printed' \in Seq(CodeEntry)
        BY <4>1, <4>3 DEF WhereInv
      <4> QED
        BY <4>1, <4>4 DEF WhereInv
    <3> QED
      BY <3>1, <3>2
  <2>2. CASE MainLoad \/ (role = "main" /\ LoadingScript) \/ MainLoaded
    BY <2>2 DEF MainLoad, LoadingScript, MainLoaded, Dies, createVars, WhereInv
  <2> QED
    BY <1>2, <2>1, <2>2 DEF MainStep, Main
<1>3. CASE Vm
  <2>1. CASE \E k \in 1..se.code_num : VmRun(k)
    BY <2>1 DEF VmRun, Dies, WhereInv
  <2>2. CASE VmLoad \/ (role = "vm" /\ LoadingScript) \/ VmLoaded
    BY <2>2 DEF VmLoad, LoadingScript, VmLoaded, Dies, createVars, WhereInv
  <2> QED
    BY <1>3, <2>1, <2>2 DEF Vm
<1>4. CASE \E msg \in Messages : CcbBegin(msg)
  BY <1>4, CreatesAssumption DEF CcbBegin, WhereInv
<1>5. CASE CcbSession \/ CcbScript \/ (role = "router" /\ LoadingScript) \/ CcbScriptLoaded
             \/ CcbTable \/ CcbSkip \/ CcbSearch
  BY <1>5 DEF CcbSession, CcbScript, LoadingScript, CcbScriptLoaded, CcbTable, CcbSkip, NextTlv,
     CcbSearch, Dies, createVars, WhereInv
<1>6. CASE LoadingLibrary \/ CcbLoaded \/ CcbLeaveOut \/ ccb_add_bc \/ CcbEnd
  BY <1>6 DEF LoadingLibrary, CcbLoaded, CcbLeaveOut, NextTlv, ccb_add_bc, CcbEnd, Dies,
     createVars, WhereInv
<1> QED
  BY <1>1, <1>2, <1>3, <1>4, <1>5, <1>6 DEF Next, Router

LEMMA ScriptInvs ==
  Spec => [](LibInv /\ TlvInv /\ ScInv /\ PointersPoint /\ VmInv /\ WhereInv /\ BcTypeOK)
<1>1. Init => TlvInv /\ ScInv /\ PointersPoint /\ VmInv /\ WhereInv /\ BcTypeOK
  <2>1. Init => BcTypeOK
    <3>1. NoFa \in [size : Nat, base : Nat, array : Seq(Symbols)]
      <4>1. <<>> \in Seq(Symbols)
        OBVIOUS
      <4> QED
        BY <4>1 DEF NoFa
    <3>2. <<>> \in Seq(HLine) /\ <<>> \in Seq(Set)
      OBVIOUS
    <3> QED
      BY <3>1, <3>2, NoSetTyped DEF Init, BcInit, BcTypeOK
  <2> QED
    BY <2>1, ScInitInv, TlvInitInv, PointInitInv, VmInitInv, WhereInitInv DEF Init
<1>2. TlvInv /\ ScInv /\ [Next]_vars => ScInv'
  BY ScCalls, ScStepInv, ScNoFileInv, ScOpenInv, ScInitInv, ScStutter
<1>3. LibInv /\ TlvInv /\ ScInv /\ PointersPoint /\ VmInv /\ WhereInv /\ BcTypeOK /\ [Next]_vars
        => TlvInv' /\ ScInv' /\ PointersPoint' /\ VmInv' /\ WhereInv' /\ BcTypeOK'
  BY <1>2, TlvNextInv, PointNextInv, VmNextInv, WhereNextInv, BcTypeNext
<1> QED
  BY <1>1, <1>3, LibraryInvs, PTL DEF Spec

(* Every field has its type through every load, print and run, also where  *)
(* memory runs out, a pointer is wild or the process is dead: main prints  *)
(* and a VM thread runs entries only (tsm_scloader.c:94-141,               *)
(* tsm_main.c:109-134, tsm_vm.c:142-145).                                    *)
THEOREM ScriptTypes == Spec => []TypeOK
<1>1. LibInv /\ TlvInv /\ ScInv /\ PointersPoint /\ VmInv /\ WhereInv /\ BcTypeOK => TypeOK
  BY DEF LibInv, TlvInv, ScInv, VmInv, TableOk, WhereInv, TypeOK
<1> QED
  BY <1>1, ScriptInvs, PTL

----------------------------------------------------------------------------
(* What the names of the table are.                                        *)

(* The table has one value for each length of a name, the one set last.    *)
LengthOf(s) == Len(entry[ran[s[1]]].array[2 * s[2]])

NamesAreLengths ==
  bre.status = "ok" /\ NoKeyIsAName =>
    /\ DOMAIN bre.map \ {<<>>} = {SizeKey(LengthOf(s)) : s \in Sets} \ {<<>>}
    /\ \A s \in Sets : LET key == SizeKey(LengthOf(s)) IN
         key # <<>> /\ (\A r \in Sets : Later(r, s) => SizeKey(LengthOf(r)) # key)
           => bre.map[key] = hexstr_to_hex(DataOf(s))

(* What data_set has put, n pairs of data and name into its loop.          *)
SetRan(t, u, arg, n) ==
  /\ t.status = "ok"
  /\ DOMAIN u.map = DOMAIN t.map \cup {StructKey(arg[2 * i]) : i \in 1..n}
  /\ \A i \in 1..n :
       (\A j \in 1..n : j > i => StructKey(arg[2 * j]) # StructKey(arg[2 * i])) =>
         u.map[StructKey(arg[2 * i])] = hexstr_to_hex(arg[2 * i - 1])
  /\ \A k \in DOMAIN t.map :
       (\A i \in 1..n : StructKey(arg[2 * i]) # k) => u.map[k] = t.map[k]

LEMMA SetRanOnce ==
  ASSUME NEW t, NEW u, NEW w, NEW arg, NEW n \in Nat, SetRan(t, u, arg, n),
         DOMAIN w.map = DOMAIN u.map \cup {StructKey(arg[2 * (n + 1)])},
         w.map[StructKey(arg[2 * (n + 1)])] = hexstr_to_hex(arg[2 * (n + 1) - 1]),
         \A k \in DOMAIN u.map : k # StructKey(arg[2 * (n + 1)]) => w.map[k] = u.map[k]
  PROVE  SetRan(t, w, arg, n + 1)
<1> DEFINE K(i) == StructKey(arg[2 * i])
           D(i) == hexstr_to_hex(arg[2 * i - 1])
<1>1. /\ t.status = "ok" /\ DOMAIN u.map = DOMAIN t.map \cup {K(i) : i \in 1..n}
      /\ DOMAIN w.map = DOMAIN u.map \cup {K(n + 1)} /\ w.map[K(n + 1)] = D(n + 1)
      /\ \A k \in DOMAIN u.map : k # K(n + 1) => w.map[k] = u.map[k]
      /\ \A i \in 1..n : (\A j \in 1..n : j > i => K(j) # K(i)) => u.map[K(i)] = D(i)
      /\ \A k \in DOMAIN t.map : (\A i \in 1..n : K(i) # k) => u.map[k] = t.map[k]
  BY DEF SetRan
<1>2. 1..n + 1 = (1..n) \cup {n + 1} /\ \A i \in 1..n : n + 1 > i
  OBVIOUS
<1> HIDE DEF K, D
<1>3. DOMAIN w.map = DOMAIN t.map \cup {K(i) : i \in 1..n + 1}
  BY <1>1, <1>2
<1>4. ASSUME NEW i \in 1..n + 1, \A j \in 1..n + 1 : j > i => K(j) # K(i)
      PROVE  w.map[K(i)] = D(i)
  <2>1. CASE i = n + 1
    BY <1>1, <2>1
  <2>2. CASE i \in 1..n
    <3>1. K(i) \in DOMAIN u.map /\ K(n + 1) # K(i)
      BY <1>1, <1>2, <1>4, <2>2
    <3>2. u.map[K(i)] = D(i)
      BY <1>1, <1>2, <1>4, <2>2
    <3> QED
      BY <1>1, <3>1, <3>2
  <2> QED
    BY <1>2, <2>1, <2>2
<1>5. ASSUME NEW k \in DOMAIN t.map, \A i \in 1..n + 1 : K(i) # k PROVE w.map[k] = t.map[k]
  BY <1>1, <1>2, <1>5
<1> QED
  BY <1>1, <1>3, <1>4, <1>5 DEF SetRan, K, D

LEMMA SetAfterRan ==
  ASSUME NEW t, NEW arg, NEW N \in Nat
  PROVE  SetAfter(t, arg, N)[N].status = "ok" => SetRan(t, SetAfter(t, arg, N)[N], arg, N)
<1> DEFINE f == SetAfter(t, arg, N)
           S == {n \in Nat : n <= N /\ f[n].status = "ok" => SetRan(t, f[n], arg, n)}
<1>1. f[0] = t /\ \A n \in 1..N : f[n] = Put(f[n - 1], StructKey(arg[2 * n]),
                                            {hexstr_to_hex(arg[2 * n - 1])}, {})
  BY SetLoop
<1> HIDE DEF f
<1>2. 0 \in S
  BY <1>1 DEF SetRan
<1>3. ASSUME NEW n \in Nat, n \in S PROVE n + 1 \in S
  <2> SUFFICES ASSUME n + 1 <= N, f[n + 1].status = "ok" PROVE SetRan(t, f[n + 1], arg, n + 1)
    OBVIOUS
  <2>1. f[n + 1] = Put(f[n], StructKey(arg[2 * (n + 1)]),
                       {hexstr_to_hex(arg[2 * (n + 1) - 1])}, {})
    <3>1. (n + 1) - 1 = n /\ n + 1 \in 1..N
      OBVIOUS
    <3> QED
      BY <1>1, <3>1
  <2>2. f[n].status = "ok"
    BY <2>1, PutFacts
  <2>3. SetRan(t, f[n], arg, n)
    BY <1>3, <2>2
  <2>4. /\ DOMAIN f[n + 1].map = DOMAIN f[n].map \cup {StructKey(arg[2 * (n + 1)])}
        /\ f[n + 1].map[StructKey(arg[2 * (n + 1)])] = hexstr_to_hex(arg[2 * (n + 1) - 1])
    <3> DEFINE name == StructKey(arg[2 * (n + 1)])
               data == hexstr_to_hex(arg[2 * (n + 1) - 1])
               old == f[n]
               new == f[n + 1]
    <3>1. new = Put(old, name, {data}, {}) /\ old.status = "ok"
      BY <2>1, <2>2
    <3> HIDE DEF name, data, old, new
    <3>2. new.map = [x \in DOMAIN old.map \cup {name} |->
                       IF x = name THEN CHOOSE y \in {data} : TRUE ELSE old.map[x]]
      BY <3>1 DEF Put
    <3>3. (CHOOSE y \in {data} : TRUE) = data
      OBVIOUS
    <3>4. DOMAIN new.map = DOMAIN old.map \cup {name} /\ new.map[name] = data
      BY <3>2, <3>3
    <3> QED
      BY <3>4 DEF name, data, old, new
  <2>5. \A k \in DOMAIN f[n].map : k # StructKey(arg[2 * (n + 1)]) => f[n + 1].map[k] = f[n].map[k]
    BY <2>1, PutFacts
  <2> QED
    BY <2>3, <2>4, <2>5, SetRanOnce
<1> HIDE DEF S
<1>4. Nat \subseteq S
  BY <1>2, <1>3, NatSetInduction
<1> QED
  BY <1>4 DEF S, f

(* The pairs that were put.                                                *)
LEMMA SetsMembers ==
  /\ \A s : s \in Sets <=>
       \E n \in DOMAIN ran : \E i \in 1..Pairs(entry[ran[n]]) : s = <<n, i>>
  /\ \A s : s \in Sets' <=>
       \E n \in DOMAIN ran' : \E i \in 1..Pairs(entry'[ran'[n]]) : s = <<n, i>>
<1>1. \A s : s \in Sets <=>
        \E n \in DOMAIN ran : \E i \in 1..Pairs(entry[ran[n]]) : s = <<n, i>>
  BY DEF Sets
<1>2. \A s : s \in Sets' <=>
        \E n \in DOMAIN ran' : \E i \in 1..Pairs(entry'[ran'[n]]) : s = <<n, i>>
  <2>1. Sets' = UNION {{n} \X (1..Pairs(entry'[ran'[n]])) : n \in DOMAIN ran'}
    BY DEF Sets, Pairs
  <2> QED
    BY <2>1
<1> QED
  BY <1>1, <1>2

LEMMA PairsFacts ==
  ASSUME NEW e \in CodeEntry
  PROVE  /\ Pairs(e) \in Nat /\ Len(e.array) \in Nat /\ DOMAIN e.array = 1..Len(e.array)
         /\ \A i \in 1..Pairs(e) : 2 * i \in DOMAIN e.array /\ 2 * i - 1 \in DOMAIN e.array
         /\ Pairs(e) # 0 => /\ e.code = DataSet /\ Len(e.array) % 2 = 0
                            /\ Pairs(e) = Len(e.array) \div 2
         /\ e.code = DataSet /\ Len(e.array) % 2 = 0 => Pairs(e) = Len(e.array) \div 2
<1>1. Len(e.array) \in Nat /\ DOMAIN e.array = 1..Len(e.array)
  BY LenProperties DEF CodeEntry
<1>2. \A n \in Nat : n \div 2 \in Nat /\ \A i \in 1..n \div 2 : 2 * i \in 1..n /\ 2 * i - 1 \in 1..n
  OBVIOUS
<1>3. Pairs(e) = IF e.code # DataSet \/ Len(e.array) % 2 # 0 THEN 0 ELSE Len(e.array) \div 2
  BY DEF Pairs
<1>4. /\ Pairs(e) \in Nat
      /\ \A i \in 1..Pairs(e) : 2 * i \in DOMAIN e.array /\ 2 * i - 1 \in DOMAIN e.array
  <2>1. CASE Pairs(e) = 0
    BY <2>1
  <2>2. CASE Pairs(e) = Len(e.array) \div 2
    BY <1>1, <1>2, <2>2
  <2> QED
    BY <1>3, <2>1, <2>2
<1> QED
  BY <1>1, <1>3, <1>4

(* No parameter's text is a name of the table.                             *)
LEMMA TextsAreNoNames ==
  ASSUME ScInv, VmInv, NamesAreLengths, bre.status = "ok", NoKeyIsAName, NEW k \in DOMAIN entry,
         NEW i \in DOMAIN entry[k].array
  PROVE  entry[k].array[i] \notin DOMAIN bre.map
<1> SUFFICES ASSUME entry[k].array[i] \in DOMAIN bre.map PROVE FALSE
  OBVIOUS
<1>1. entry[k].array[i] # <<>>
  <2>1. entry[k] \in CodeEntry
    BY ScFacts
  <2>2. entry[k].array[i] \in Texts
    BY <2>1 DEF CodeEntry
  <2> QED
    BY <2>2, TextsAssumption
<1>2. PICK s \in Sets : entry[k].array[i] = SizeKey(LengthOf(s))
  BY <1>1 DEF NamesAreLengths
<1>3. PICK n \in DOMAIN ran : \E j \in 1..Pairs(entry[ran[n]]) : s = <<n, j>>
  BY SetsMembers
<1>4. PICK j \in 1..Pairs(entry[ran[n]]) : s = <<n, j>>
  BY <1>3
<1>5. ran[n] \in DOMAIN entry /\ 2 * j \in DOMAIN entry[ran[n]].array
  BY ScFacts, PairsFacts DEF VmInv
<1>6. SizeKey(LengthOf(s)) = SizeKey(Len(entry[ran[n]].array[2 * j]))
  BY <1>4 DEF LengthOf
<1> QED
  BY <1>2, <1>5, <1>6 DEF NoKeyIsAName

(* A byte code puts what its pairs say, and under "" what it likes.        *)
PairsPut(t, u, e) ==
  /\ \A x : x # <<>> => (x \in DOMAIN u.map <=>
       x \in DOMAIN t.map \/ \E i \in 1..Pairs(e) : StructKey(e.array[2 * i]) = x)
  /\ \A i \in 1..Pairs(e) :
       (\A j \in 1..Pairs(e) : j > i => StructKey(e.array[2 * j]) # StructKey(e.array[2 * i])) =>
         u.map[StructKey(e.array[2 * i])] = hexstr_to_hex(e.array[2 * i - 1])
  /\ \A x \in DOMAIN t.map :
       x # <<>> /\ (\A i \in 1..Pairs(e) : StructKey(e.array[2 * i]) # x) => u.map[x] = t.map[x]

LEMMA RunPutsPairs ==
  ASSUME ScInv, VmInv, NoKeyIsAName, NamesAreLengths, bre.status = "ok", NEW k \in DOMAIN entry,
         entry[k] \in CodeEntry, entry[k].code \in DataCodes, entry[k].array \in Seq(Texts),
         NEW u \in Outcome(entry[k].code, entry[k].array), u.status = "ok"
  PROVE  PairsPut(bre, u, entry[k])
<1> DEFINE e == entry[k]
           N == Len(e.array) \div 2
<1>1. TableOk(bre)
  BY DEF VmInv
<1>2. /\ Pairs(e) \in Nat
      /\ Pairs(e) # 0 => e.code = DataSet /\ Len(e.array) % 2 = 0
      /\ e.code = DataSet /\ Len(e.array) % 2 = 0 => Pairs(e) = N
  BY PairsFacts
<1>3. CASE e.code = DataSet /\ Len(e.array) % 2 = 0
  <2>1. u = SetAfter(bre, e.array, N)[N]
    BY <1>1, <1>3, OutcomeFacts
  <2>2. SetRan(bre, u, e.array, Pairs(e))
    BY <1>2, <1>3, <2>1, SetAfterRan
  <2> QED
    BY <2>2 DEF SetRan, PairsPut
<1>4. CASE ~(e.code = DataSet /\ Len(e.array) % 2 = 0)
  <2>1. OtherNames(bre, u)
    BY <1>1, <1>4, OutcomeFacts, TextsAreNoNames
  <2>2. 1..Pairs(e) = {}
    <3>1. Pairs(e) = 0
      BY <1>2, <1>4
    <3> QED
      BY <3>1
  <2> HIDE DEF e
  <2>3. PairsPut(bre, u, e)
    BY <2>1, <2>2 DEF OtherNames, PairsPut
  <2> QED
    BY <2>3 DEF e
<1> QED
  BY <1>3, <1>4

(* The pairs of the entry that ran last come after those of the others.    *)
LEMMA RunSets ==
  ASSUME ScInv, VmInv, NEW k \in DOMAIN entry, NEW new, new = Len(ran) + 1,
         ran' = Append(ran, k), entry' = entry
  PROVE  /\ Sets \subseteq Sets'
         /\ \A s \in Sets : \E n \in DOMAIN ran : n < new /\ s[1] = n
         /\ \A s \in Sets : LengthOf(s)' = LengthOf(s) /\ DataOf(s)' = DataOf(s)
         /\ \A s \in Sets' : s \in Sets \/ \E i \in 1..Pairs(entry[k]) : s = <<new, i>>
         /\ \A i \in 1..Pairs(entry[k]) :
              /\ <<new, i>> \in Sets'
              /\ LengthOf(<<new, i>>)' = Len(entry[k].array[2 * i])
              /\ DataOf(<<new, i>>)' = entry[k].array[2 * i - 1]
<1>1. /\ Len(ran) \in Nat /\ DOMAIN ran = 1..Len(ran) /\ DOMAIN ran' = (1..Len(ran)) \cup {new}
      /\ ran'[new] = k /\ \A n \in 1..Len(ran) : ran'[n] = ran[n] /\ n < new
  BY DEF VmInv
<1>2. ASSUME NEW s \in Sets
      PROVE  /\ s \in Sets' /\ \E n \in DOMAIN ran : n < new /\ s[1] = n
             /\ LengthOf(s)' = LengthOf(s) /\ DataOf(s)' = DataOf(s)
  <2>1. PICK n \in DOMAIN ran : \E i \in 1..Pairs(entry[ran[n]]) : s = <<n, i>>
    BY SetsMembers
  <2>2. PICK i \in 1..Pairs(entry[ran[n]]) : s = <<n, i>>
    BY <2>1
  <2>3. n \in DOMAIN ran' /\ ran'[n] = ran[n] /\ n < new /\ s[1] = n
    BY <1>1, <2>2
  <2>4. s \in Sets'
    BY <2>2, <2>3, SetsMembers
  <2> QED
    BY <2>3, <2>4 DEF LengthOf, DataOf
<1>3. ASSUME NEW s \in Sets' PROVE s \in Sets \/ \E i \in 1..Pairs(entry[k]) : s = <<new, i>>
  <2>1. PICK n \in DOMAIN ran' : \E i \in 1..Pairs(entry'[ran'[n]]) : s = <<n, i>>
    BY SetsMembers
  <2> QED
    BY <1>1, <2>1, SetsMembers
<1>4. ASSUME NEW i \in 1..Pairs(entry[k])
      PROVE  /\ <<new, i>> \in Sets'
             /\ LengthOf(<<new, i>>)' = Len(entry[k].array[2 * i])
             /\ DataOf(<<new, i>>)' = entry[k].array[2 * i - 1]
  <2>1. new \in DOMAIN ran' /\ entry'[ran'[new]] = entry[k]
    BY <1>1
  <2>2. <<new, i>> \in Sets'
    BY <2>1, SetsMembers
  <2>3. <<new, i>>[1] = new /\ <<new, i>>[2] = i
    OBVIOUS
  <2> QED
    BY <2>1, <2>2, <2>3 DEF LengthOf, DataOf
<1> QED
  BY <1>2, <1>3, <1>4

LEMMA NamesRunInv ==
  ASSUME ScInv, PointersPoint, VmInv, NamesAreLengths, NEW k \in 1..se.code_num, VmRun(k)
  PROVE  NamesAreLengths'
<1> SUFFICES ASSUME bre'.status = "ok", NoKeyIsAName'
             PROVE  /\ DOMAIN bre'.map \ {<<>>} = {SizeKey(LengthOf(s)') : s \in Sets'} \ {<<>>}
                    /\ \A s \in Sets' : LET key == SizeKey(LengthOf(s)') IN
                         key # <<>> /\ (\A r \in Sets' : Later(r, s) => SizeKey(LengthOf(r)') # key)
                           => bre'.map[key] = hexstr_to_hex(DataOf(s)')
  BY DEF NamesAreLengths
<1>1. cs = "run" /\ entry' = entry /\ bre.status = "ok"
  BY VmRunFacts DEF VmInv
<1>2. /\ NoKeyIsAName
      /\ DOMAIN bre.map \ {<<>>} = {SizeKey(LengthOf(s)) : s \in Sets} \ {<<>>}
      /\ \A s \in Sets : LET key == SizeKey(LengthOf(s)) IN
           key # <<>> /\ (\A r \in Sets : Later(r, s) => SizeKey(LengthOf(r)) # key) =>
             bre.map[key] = hexstr_to_hex(DataOf(s))
  BY <1>1 DEF NamesAreLengths, NoKeyIsAName
<1>3. CASE cs' = "dead" /\ UNCHANGED vmVars
  <2>1. ran' = ran /\ bre' = bre
    BY <1>3 DEF vmVars
  <2>2. Sets' = Sets /\ \A s : LengthOf(s)' = LengthOf(s) /\ DataOf(s)' = DataOf(s)
    BY <1>1, <2>1 DEF Sets, Pairs, LengthOf, DataOf
  <2> QED
    BY <1>2, <2>1, <2>2
<1>4. CASE ~(cs' = "dead" /\ UNCHANGED vmVars)
  <2> PICK new : new = Len(ran) + 1
    OBVIOUS
  <2> DEFINE Key(s) == SizeKey(LengthOf(s)')
             e == entry[k]
  <2>1. /\ ran' = Append(ran, k) /\ k \in DOMAIN entry
        /\ entry[k] \in CodeEntry /\ entry[k].code \in DataCodes
        /\ entry[k].array \in Seq(Texts)
        /\ bre' \in EntryOutcome(entry[k])
    BY <1>4, VmRunFacts
  <2>2. PairsPut(bre, bre', e)
    <3>1. bre' \in Outcome(entry[k].code, entry[k].array)
      BY <2>1, EntryOutcomeFacts DEF VmInv
    <3> QED
      BY <1>1, <1>2, <2>1, <3>1, RunPutsPairs
  <2>3. /\ Sets \subseteq Sets'
        /\ \A s \in Sets : \E n \in DOMAIN ran : n < new /\ s[1] = n
        /\ \A s \in Sets' : s \in Sets \/ \E i \in 1..Pairs(e) : s = <<new, i>>
        /\ \A s \in Sets : Key(s) = SizeKey(LengthOf(s)) /\ DataOf(s)' = DataOf(s)
        /\ \A i \in 1..Pairs(e) : /\ <<new, i>> \in Sets'
                                  /\ Key(<<new, i>>) = StructKey(e.array[2 * i])
                                  /\ DataOf(<<new, i>>)' = e.array[2 * i - 1]
    BY <1>1, <2>1, RunSets DEF StructKey
  <2> HIDE DEF e, Key
  <2>4. ASSUME NEW x, x # <<>>
        PROVE  x \in DOMAIN bre'.map <=> \E s \in Sets' : Key(s) = x
    <3>1. x \in DOMAIN bre.map <=> \E s \in Sets : Key(s) = x
      BY <1>2, <2>3, <2>4
    <3>2. (\E i \in 1..Pairs(e) : StructKey(e.array[2 * i]) = x)
            <=> \E i \in 1..Pairs(e) : Key(<<new, i>>) = x
      BY <2>3
    <3>3. x \in DOMAIN bre'.map <=> x \in DOMAIN bre.map
                                    \/ \E i \in 1..Pairs(e) : StructKey(e.array[2 * i]) = x
      BY <2>2, <2>4 DEF PairsPut
    <3> QED
      BY <2>3, <3>1, <3>2, <3>3
  <2>5. ASSUME NEW s \in Sets', Key(s) # <<>>,
               \A r \in Sets' : Later(r, s) => Key(r) # Key(s)
        PROVE  bre'.map[Key(s)] = hexstr_to_hex(DataOf(s)')
    <3>1. CASE s \in Sets
      <4>1. Key(s) = SizeKey(LengthOf(s)) /\ DataOf(s)' = DataOf(s)
        BY <2>3, <3>1
      <4>2. \A r \in Sets : Later(r, s) => SizeKey(LengthOf(r)) # Key(s)
        BY <2>3, <2>5
      <4>3. bre.map[Key(s)] = hexstr_to_hex(DataOf(s))
        BY <1>2, <2>5, <3>1, <4>1, <4>2
      <4>4. Key(s) \in DOMAIN bre.map
        BY <1>2, <2>5, <3>1, <4>1
      <4>5. \A i \in 1..Pairs(e) : StructKey(e.array[2 * i]) # Key(s)
        <5> SUFFICES ASSUME NEW i \in 1..Pairs(e) PROVE StructKey(e.array[2 * i]) # Key(s)
          OBVIOUS
        <5>1. PICK n \in DOMAIN ran : n < new /\ s[1] = n
          BY <2>3, <3>1
        <5>2. Later(<<new, i>>, s)
          <6>1. new > s[1]
            BY <2>1, <5>1 DEF VmInv
          <6> QED
            BY <6>1 DEF Later
        <5> QED
          BY <2>3, <2>5, <5>2
      <4> QED
        BY <2>2, <2>5, <4>1, <4>3, <4>4, <4>5 DEF PairsPut
    <3>2. ASSUME NEW i \in 1..Pairs(e), s = <<new, i>>
          PROVE  bre'.map[Key(s)] = hexstr_to_hex(DataOf(s)')
      <4>1. \A j \in 1..Pairs(e) : j > i => StructKey(e.array[2 * j]) # StructKey(e.array[2 * i])
        <5> SUFFICES ASSUME NEW j \in 1..Pairs(e), j > i
                     PROVE  StructKey(e.array[2 * j]) # StructKey(e.array[2 * i])
          OBVIOUS
        <5>1. Later(<<new, j>>, s)
          BY <3>2 DEF Later
        <5> QED
          BY <2>3, <2>5, <3>2, <5>1
      <4>2. bre'.map[StructKey(e.array[2 * i])] = hexstr_to_hex(e.array[2 * i - 1])
        BY <2>2, <4>1 DEF PairsPut
      <4> QED
        BY <2>3, <3>2, <4>2
    <3> QED
      BY <2>3, <3>1, <3>2
  <2> QED
    BY <2>4, <2>5 DEF Key
<1> QED
  BY <1>3, <1>4

LEMMA NamesNextInv ==
  ASSUME ScInv, PointersPoint, VmInv, NamesAreLengths, [Next]_vars
  PROVE  NamesAreLengths'
<1>1. CASE UNCHANGED vars
  <2>1. ran' = ran /\ bre' = bre /\ entry' = entry
    BY <1>1 DEF vars, vmVars, loadVars, scVars
  <2>2. Sets' = Sets /\ \A s : LengthOf(s)' = LengthOf(s) /\ DataOf(s)' = DataOf(s)
    BY <2>1 DEF Sets, Pairs, LengthOf, DataOf
  <2>3. NoKeyIsAName' = NoKeyIsAName
    BY <2>1 DEF NoKeyIsAName
  <2> QED
    BY <2>1, <2>2, <2>3 DEF NamesAreLengths
<1>2. CASE UNCHANGED vmVars /\ cs \notin {"run", "dead"}
  <2>1. ran' = <<>> /\ bre' = EmptyTable
    BY <1>2 DEF VmInv, vmVars
  <2>2. Sets' = {} /\ DOMAIN bre'.map = {}
    <3>1. DOMAIN <<>> = {}
      OBVIOUS
    <3> QED
      BY <2>1, <3>1, SetsMembers DEF EmptyTable
  <2> QED
    BY <2>2 DEF NamesAreLengths
<1> QED
  BY <1>1, <1>2, OnlyVmRuns, NamesRunInv

(* The same of the entries that ran, whatever the names: the last value of *)
(* a length of name is what is under that length.                          *)
LEMMA NamesGoByLength == Spec => []NamesAreLengths
<1>1. Init => NamesAreLengths
  <2>1. DOMAIN <<>> = {}
    OBVIOUS
  <2> SUFFICES ASSUME Init PROVE Sets = {} /\ DOMAIN bre.map = {}
    BY DEF NamesAreLengths
  <2> QED
    BY <2>1, SetsMembers DEF Init, EmptyTable
<1>2. LibInv /\ TlvInv /\ ScInv /\ PointersPoint /\ VmInv /\ WhereInv /\ BcTypeOK
        /\ NamesAreLengths /\ [Next]_vars => NamesAreLengths'
  BY NamesNextInv
<1> QED
  BY <1>1, <1>2, ScriptInvs, PTL DEF Spec

(* Where names differ in length, the value of a length is that of a name.  *)
LEMMA NamesAssigned == NamesAreLengths => AssignedValues
<1> SUFFICES ASSUME NamesAreLengths, bre.status = "ok", NoKeyIsAName, NamesDiffer
             PROVE  /\ DOMAIN bre.map \ {<<>>} = {StructKey(NameOf(s)) : s \in Sets}
                    /\ \A s \in Sets :
                         (\A r \in Sets : Later(r, s) => NameOf(r) # NameOf(s)) =>
                           bre.map[StructKey(NameOf(s))] = hexstr_to_hex(DataOf(s))
  BY DEF AssignedValues
<1> DEFINE K(s) == StructKey(NameOf(s))
<1>1. \A s : SizeKey(LengthOf(s)) = K(s)
  BY DEF LengthOf, NameOf, StructKey
<1>2. /\ DOMAIN bre.map \ {<<>>} = {SizeKey(LengthOf(s)) : s \in Sets} \ {<<>>}
      /\ \A s \in Sets :
           SizeKey(LengthOf(s)) # <<>>
           /\ (\A r \in Sets : Later(r, s) => SizeKey(LengthOf(r)) # SizeKey(LengthOf(s)))
             => bre.map[SizeKey(LengthOf(s))] = hexstr_to_hex(DataOf(s))
  BY DEF NamesAreLengths
<1>3. \A r, s \in Sets : K(s) # <<>> /\ (K(r) = K(s) => NameOf(r) = NameOf(s))
  BY DEF NamesDiffer
<1>4. {SizeKey(LengthOf(s)) : s \in Sets} = {K(s) : s \in Sets}
  BY <1>1
<1>5. DOMAIN bre.map \ {<<>>} = {K(s) : s \in Sets}
  <2>1. <<>> \notin {K(s) : s \in Sets}
    BY <1>3
  <2> HIDE DEF K
  <2> QED
    BY <1>2, <1>4, <2>1
<1>6. ASSUME NEW s \in Sets, \A r \in Sets : Later(r, s) => NameOf(r) # NameOf(s)
      PROVE  bre.map[K(s)] = hexstr_to_hex(DataOf(s))
  <2> HIDE DEF K
  <2> QED
    BY <1>1, <1>2, <1>3, <1>6
<1> QED
  BY <1>5, <1>6

(* However many entries run, in whatever order, however many pairs each    *)
(* has and whatever is extracted between: while the names that were set    *)
(* differ in length, so that those of one length are one name, and no      *)
(* parameter is the bytes of a length, each name has the value assigned to *)
(* it last (bc_data.c:37-61, tsm_ccb.c:180-184).                           *)
THEOREM ValuesAssigned == Spec => []AssignedValues
  BY NamesGoByLength, NamesAssigned, PTL
=============================================================================
