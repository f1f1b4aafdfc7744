---------------------------- MODULE DbTransactions ----------------------------
(***************************************************************************)
(* Database transactions under REPEATABLE READ, as PostgreSQL runs them.   *)
(*                                                                         *)
(* A transaction reads the snapshot of the moment it begins and aborts when *)
(* a row it writes was written by a transaction that committed since        *)
(* (first updater wins).  "stale" holds, for every open transaction, the   *)
(* rows committed by others since its snapshot.  A transaction is modelled  *)
(* as two steps, its reads and its writes.                                 *)
(***************************************************************************)
CONSTANT Clients   \* handlers that open transactions

VARIABLES
  open,       \* clients inside a transaction
  stale       \* per client, the rows committed by others since its snapshot

BeginTx(c) ==
  /\ open' = open \cup {c}
  /\ UNCHANGED stale

\* The transaction of c ends, having committed writes to rows.
EndTx(c, rows) ==
  /\ open' = open \ {c}
  /\ stale' = [d \in Clients |-> IF d \in open \ {c} THEN stale[d] \cup rows ELSE {}]

\* Mutant of Conflict: READ COMMITTED, where a concurrent update is no error.
NoConflict(c, rows) == FALSE
\* "could not serialize access due to concurrent update"
Conflict(c, rows)   == stale[c] \cap rows # {}
===============================================================================
