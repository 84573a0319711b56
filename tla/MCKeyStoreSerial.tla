-------------------------- MODULE MCKeyStoreSerial --------------------------
(* Commands one after the other.                                             *)
EXTENDS KeyStoreSerial, KeyValues

Symmetry == Permutations(Proc)
=============================================================================
