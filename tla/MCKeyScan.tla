----------------------------- MODULE MCKeyScan -----------------------------
(* TLC instance of KeyScan with the values of user_key.c.                   *)
EXTENDS KeyScan
=============================================================================
