------------------------- MODULE MCTransactionFiles -------------------------
(***************************************************************************)
(* Instances of TransactionFiles for TLC.                                  *)
(***************************************************************************)
EXTENDS TransactionFiles
=============================================================================
