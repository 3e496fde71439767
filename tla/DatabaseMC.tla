----------------------------- MODULE DatabaseMC -----------------------------
(* Instances of Database for TLC: no database yet, one of the first release *)
(* (no key check), and ones of later releases with a deleted destination.   *)
EXTENDS Database

CONSTANTS k1, k2

Left(db) == [db EXCEPT !.upgraded = UNION {AllRows(db, v) : v \in 2 .. db.version}]
First == Left([Empty EXCEPT !.version = 1, !.tables = TRUE, !.rows = 2, !.sealed.settings = k1])
Later(v) == Left([Empty EXCEPT !.version = v, !.tables = TRUE, !.rows = 2, !.ledger = 1, !.target = TRUE,
                               !.sealed = [q \in Places |-> k1]])
\* What is left of a database with one destination, deleted again.
Second == Left([Empty EXCEPT !.version = 2, !.tables = TRUE, !.sealed.removed = k1])
\* A young database with one row per table, told from the others by that.
Thirteenth == Left([Later(13) EXCEPT !.rows = 1])
NoneToThirteenth == {Empty, First, Second, Later(10), Thirteenth}
Symmetry == Permutations(Procs)

\* Backups are made of the young database, beside serve and rekey; everything
\* but backups happens to the others.
Run(ops) == \A p \in Procs : procs[p] = Idle \/ procs[p].op \in ops
OneAge ==
  IF files[1].rows = 1
  THEN Run({"serve", "rekey", "backup"}) /\ Live = 1 /\ committed <= 1
  ELSE Run(Commands \ {"backup"})
=============================================================================
