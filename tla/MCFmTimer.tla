----------------------------- MODULE MCFmTimer -----------------------------
(* Small instances of FmTimer.                                             *)
EXTENDS FmTimer, TLC

CONSTANTS c1, c2, k1, k2, n1, n2

MCClients1 == {c1}
MCClients2 == {c1, c2}
MCTicks    == {k1, k2}
MCNodes    == {n1, n2}
=============================================================================
