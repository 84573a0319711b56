---------------------------- MODULE MCKeyStore ----------------------------
(* Two commands that run at the same time.                                   *)
EXTENDS KeyStore, KeyValues
=============================================================================
