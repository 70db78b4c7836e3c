----------------------------- MODULE MCPagedSync -----------------------------
(***************************************************************************)
(* Tables of up to five rows for PagedSync, synced two rows at a time:     *)
(* a composite key, rows that tie, a unique column with a NULL, and a key  *)
(* too large for a float64; tables with rows from an earlier run; and the  *)
(* ways the insert output leaves rows alone or out: a foreign key that     *)
(* finds no row, updates without a primary key, without columns or under   *)
(* deferrable constraints, and SQL Server, which ignores nothing.          *)
(***************************************************************************)
EXTENDS PagedSync

FiveRows == 1..5

Most == {1, 2, 3, 5}
Few == {1, 2, 3}
Two == {1, 2}

(* A Postgres table, its key the primary key unless it is not unique.      *)
Sample(key, unique, onConflict, start, old) ==
    [key |-> key, unique |-> unique, primary |-> unique, driver |-> "postgres",
     deferrable |-> FALSE, updatable |-> TRUE, onConflict |-> onConflict,
     skipViolations |-> FALSE, orphans |-> {}, start |-> start, old |-> old]

Composite == <<<<1, 1>>, <<1, 2>>, <<1, 3>>, <<2, 1>>, <<2, 2>>>>
Ties == <<<<1, 1>>, <<1, 2>>, <<1, 2>>, <<1, 2>>, <<2, 2>>>>
Nullable == <<<<1, Null>>, <<1, 1>>, <<Null, 1>>, <<2, 1>>, <<2, Null>>>>
Large == <<<<1, 4>>, <<1, 5>>, <<1, 6>>, <<1, 7>>, <<1, 8>>>>

(* A job that asks for updates of the rows that are there already.         *)
Updating(start, old) == Sample(Composite, TRUE, "update", start, old)

UniqueOnly == [Updating(Few, {2}) EXCEPT !.primary = FALSE]
Upsert == [Updating(Few, {2}) EXCEPT !.deferrable = TRUE]
UpsertUniqueOnly == [Updating(Two, {}) EXCEPT !.deferrable = TRUE, !.primary = FALSE]
KeyOnly == [Updating(Few, {2}) EXCEPT !.updatable = FALSE]
UpsertKeyOnly == [KeyOnly EXCEPT !.deferrable = TRUE]

(* A row whose foreign key may find no row.                                *)
Skipping ==
    [Sample(Composite, TRUE, "error", Two, {}) EXCEPT
       !.skipViolations = TRUE, !.orphans = {2}]
UpsertSkipping == [Upsert EXCEPT !.skipViolations = TRUE, !.orphans = {2, 3}]
MySQLIgnoring ==
    [Sample(Composite, TRUE, "error", Two, {}) EXCEPT
       !.driver = "mysql", !.orphans = {2}]

SQLServer == [Sample(Composite, TRUE, "error", Two, {}) EXCEPT !.driver = "mssql"]

(* Keys that tell rows apart or not, with no row at the destination; then  *)
(* what the output does with a row in conflict or with a foreign key.      *)
SampleTables ==
    { Sample(Composite, TRUE, "error", Most, {}),
      Sample(Ties, FALSE, "error", Few, {}),
      Sample(Nullable, TRUE, "error", Few, {}),
      Sample(Large, TRUE, "error", Two, {}),
      Sample(Composite, TRUE, "error", Few, {2}),
      Sample(Composite, TRUE, "nothing", Few, {3}),
      Updating(Few, {1}),
      UniqueOnly, Upsert, UpsertUniqueOnly, KeyOnly, UpsertKeyOnly,
      Skipping, UpsertSkipping, MySQLIgnoring, SQLServer }

Truncated == { Sample(Composite, TRUE, "error", Most, {}) }
==============================================================================
