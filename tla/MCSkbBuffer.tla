---------------------------- MODULE MCSkbBuffer ----------------------------
(* A small instance of SkbBuffer: packets of up to four bytes.             *)
EXTENDS SkbBuffer

CONSTANTS a, b

MCByte   == {a, b}
MCChunks == {<<>>, <<a>>, <<b>>, <<a, b>>}
MCSizes  == 0 .. 4
=============================================================================
