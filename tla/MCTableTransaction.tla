------------------------- MODULE MCTableTransaction -------------------------
(* One table, nested savepoints, every staging operation.                  *)
EXTENDS TableTransaction
=============================================================================
