----------------------------- MODULE MCSkbQueue -----------------------------
(* Small instances of SkbQueue.                                            *)
EXTENDS SkbQueue, TLC

CONSTANTS t1, t2, t3, s1, s2, s3

MCThreads == {t1, t2, t3}
MCSkbs    == {s1, s2, s3}
=============================================================================
