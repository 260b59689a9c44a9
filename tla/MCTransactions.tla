--------------------------- MODULE MCTransactions ---------------------------
(* Small instances of Transactions: one db.transaction and one or two       *)
(* db.withTransaction over one connection, so that clients are reused.      *)
EXTENDS Transactions, TLC
=============================================================================
