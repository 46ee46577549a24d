------------------------------ MODULE MCJournal ------------------------------
(***************************************************************************)
(* Journal with three sectors and two slots, so that a transaction of      *)
(* three writes overflows the journal.                                     *)
(***************************************************************************)
EXTENDS Journal, TLC

CONSTANTS a1, a2, a3, v1, v2

MCAddr == {a1, a2, a3}
MCVal == {v1, v2}
=============================================================================
