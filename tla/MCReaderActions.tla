-------------------------- MODULE MCReaderActions --------------------------
(* Small instances of ReaderActions for TLC. *)
EXTENDS ReaderActions, TLC

CONSTANTS A, B

Symmetric == Permutations(Tabs)
============================================================================
