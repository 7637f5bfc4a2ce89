---------------------------- MODULE MCTsmRouter ----------------------------
(* Small instances of TsmRouter.                                           *)
EXTENDS TsmRouter, TLC

CONSTANTS f1, f2, a1, a2, v1

MCConns == {f1, f2}
MCNames == {a1, a2}
=============================================================================
