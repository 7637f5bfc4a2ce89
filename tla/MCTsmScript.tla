---------------------------- MODULE MCTsmScript ----------------------------
EXTENDS TsmScript

CONSTANTS A, B, C, D, E, F, f, g

(* Parameters: digits, names of one and two characters, one of 48, whose   *)
(* length is the code of "0", "0" itself, and two whose lengths take two   *)
(* bytes.                                                                  *)
x    == <<120>>
yy   == <<121, 121>>
zero == <<48>>
long == [i \in 1..48 |-> 65]
l256 == [i \in 1..256 |-> 65]
l261 == [i \in 1..261 |-> 65]
hex  == <<48, 49, 65, 66>>
odd  == <<49, 50, 51>>
d23  == <<50, 51>>
MCTexts == {x, yy, zero, long, l256, l261, hex, odd, d23}
MCCodes == {0, 1} \cup (64..69)

Skip      == [kind |-> "skip", code |-> 0, args |-> <<>>]
Empty     == [kind |-> "empty", code |-> 0, args |-> <<>>]
Bare      == [kind |-> "bare", code |-> 0, args |-> <<>>]
Code1     == [kind |-> "code", code |-> 1, args |-> <<>>]
With(c, args) == [kind |-> "args", code |-> c, args |-> args]
Params(n) == With(1, [i \in 1..n |-> IF i % 2 = 0 THEN x ELSE hex])

(* Short scripts of every kind of line and number of parameters, and       *)
(* scripts of up to three arrays of entries.                               *)
MCScripts ==
  {<<l, m>> : l \in {Skip, Empty, Bare, Code1, Params(0), Params(3)},
              m \in {Empty, Params(1), Params(4), Params(6)}}
  \cup {[i \in 1..n |-> IF i % 4 = 0 THEN Params(1) ELSE Code1] : n \in {0, 8, 9, 12, 17}}

(* One entry of each kind and more, run in any order.                      *)
MCDataScripts ==
  {<<With(64, <<hex, x, d23, yy>>), With(64, <<odd, x>>), With(64, <<hex>>),
     With(66, <<x, zero, hex, yy>>), With(65, <<x, x, x, x>>), With(68, <<x, yy>>),
     With(69, <<x, yy>>), Code1>>,
   <<With(64, <<hex, x>>), With(66, <<x>>), With(65, <<>>), With(69, <<x>>), With(67, <<>>),
     With(64, <<d23, yy>>), With(64, <<d23, x>>), Code1, Code1>>,
   <<With(64, <<hex, long>>), With(64, <<hex, x>>), With(68, <<zero, zero>>),
     With(69, <<zero, x>>), With(66, <<long, x, x, x>>), With(68, <<>>)>>,
   <<With(64, <<hex, l256, hex, l261>>), With(64, <<d23, l261, hex, yy>>),
     With(66, <<l256, x, x, x>>)>>,
   <<With(64, <<hex, x, d23, yy, hex, long>>), With(64, <<hex, x>>)>>}

MCResponses == {<<144, 0>>}

SessionTlv(i) == [tag |-> "session", val |-> i, file |-> <<>>, found |-> FALSE]
DllTlv        == [tag |-> "dll", val |-> 0, file |-> <<>>, found |-> FALSE]
ScriptTlv(s, found) == [tag |-> "script", val |-> 0, file |-> s, found |-> found]
MCMessages ==
  {<<DllTlv, SessionTlv(1)>>, <<DllTlv, DllTlv>>, <<ScriptTlv(<<>>, TRUE)>>,
   <<ScriptTlv(<<>>, FALSE), SessionTlv(2), SessionTlv(1)>>}

(* A, B: one library by its name and with a directory. C: not lib*.so. D:  *)
(* no header. E: not to be opened. F: a name is missing.                   *)
Line0    == [kind |-> "base", base |-> 32, name |-> f]
Func(n)  == [kind |-> "func", base |-> 0, name |-> n]
SkipLine == [kind |-> "skip", base |-> 0, name |-> f]
Whole(p) == [file |-> p, inDir |-> FALSE, named |-> TRUE, hasHeader |-> TRUE, opens |-> TRUE,
             header |-> <<SkipLine, Line0, Func(f), Func(g), Func(f), SkipLine, Func(g),
                          Func(g)>>, symbols |-> {f, g}]
MCPaths  == {A, B, C, D, E, F}
MCLib ==
  [p \in MCPaths |->
     CASE p = A -> Whole(A)
       [] p = B -> [Whole(A) EXCEPT !.inDir = TRUE]
       [] p = C -> [Whole(C) EXCEPT !.named = FALSE]
       [] p = D -> [Whole(D) EXCEPT !.hasHeader = FALSE]
       [] p = E -> [Whole(E) EXCEPT !.opens = FALSE]
       [] p = F -> [Whole(F) EXCEPT !.symbols = {f}]]
=============================================================================
