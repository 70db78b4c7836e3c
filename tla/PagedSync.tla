------------------------------ MODULE PagedSync ------------------------------
(***************************************************************************)
(* The rows of one table sync: the pages the SQL input reads, the batches  *)
(* the insert output writes, the attempts Temporal makes at each page, and *)
(* the continuation token that carries the position from page to page      *)
(* through the response of the activity and the workflow.  Other users     *)
(* change the source meanwhile; a page is one query.                       *)
(*                                                                         *)
(* Around the input is Benthos.  It connects the input until it succeeds,  *)
(* asks it again after an error, and retries a write that fails with an    *)
(* error that is not critical: such an error changes nothing, or rows were *)
(* written already and are written again (WriteBreaksOff).  Channels and   *)
(* goroutines of an attempt are the subject of SyncActivity, continuing as *)
(* new that of TableSync.                                                  *)
(***************************************************************************)
EXTENDS Integers, FiniteSets

CONSTANTS Rows,         \* the rows the source may ever hold
          Columns,      \* number of order by columns
          Null,         \* the SQL NULL
          Tables,       \* the tables to choose from
          Limit,        \* rows per page
          Exact,        \* largest integer a JSON number keeps apart (2^53)
          NullsFirst,   \* the database sorts NULL before all values
          MaxAttempts,  \* attempts the retry policy gives a page
          MaxChanges    \* bound: rows inserted or deleted at the source

Values == Nat \cup {Null}
Keys == [1..Columns -> Values]

(* A table: the values its rows have in the order by columns, whether they *)
(* are a unique key, and the primary one; the database it is copied to,    *)
(* which may have deferrable constraints and may let columns other than    *)
(* the key be updated; what the job asks for on a conflict and of rows     *)
(* that violate a foreign key; the rows whose foreign key may find no row; *)
(* the rows of the source when the sync begins and those left at the       *)
(* destination.  The key is the only unique constraint, and its columns    *)
(* are copied as they are.                                                 *)
Table == [key : [Rows -> Keys], unique : BOOLEAN, primary : BOOLEAN,
          driver : {"postgres", "mysql", "mssql"},
          deferrable : BOOLEAN, updatable : BOOLEAN,
          onConflict : {"error", "nothing", "update"},
          skipViolations : BOOLEAN, orphans : SUBSET Rows,
          start : SUBSET Rows, old : SUBSET Rows]

(* Constraints are asked for on Postgres only; SQL Server has no option.   *)
Possible(t) ==
    /\ t.primary => t.unique
    /\ t.deferrable => t.driver = "postgres"
    /\ t.driver = "mssql" => t.onConflict = "error"

ASSUME RowsAssumption == IsFiniteSet(Rows)
ASSUME TablesAssumption == \A t \in Tables : t \in Table /\ Possible(t)
ASSUME NullAssumption == Null \notin Nat
ASSUME SizesAssumption ==
    /\ Columns \in Nat \ {0}
    /\ Limit \in Nat \ {0}
    /\ Exact \in Nat
    /\ MaxAttempts \in Nat \ {0}
    /\ MaxChanges \in Nat
ASSUME NullsAssumption == NullsFirst \in BOOLEAN

VARIABLES table,      \* the table that is synced
          source,     \* rows of the source
          kept,       \* rows that were there from the start until now
          changes,    \* rows inserted or deleted so far
          dest        \* per row: "none" | "old" | "new"

VARIABLES pc,         \* "Running" | "Completed" | "Failed"
          token,      \* the position the activity is asked to start at
          tries,      \* number of the attempt
          losses,     \* what went wrong in attempts that succeeded
          retried,    \* some attempt was not the first at its page
          zombies,    \* some attempt was given up and may go on
          rewritten,  \* rows were written that the attempt writes again
          late        \* what such attempts may still write

(* The attempt.                                                            *)
VARIABLES input,      \* "Closed" | "Rows" | "NoRows" | "Ended"
          result,     \* rows of the query not read yet
          rowsRead,
          lastRead,   \* lastReadOrderValues
          inflight,   \* rows read and not written yet
          more,       \* continuationTokenToReturn
          flaws       \* "short": a read failed before the page was full;
                      \* a batch was dropped and reported, for a row in
                      \* "conflict" or one "rejected" for other reasons

sourceVars == <<table, source, kept, changes>>
syncVars == <<pc, token, tries, losses, retried, zombies, rewritten, late>>
attemptVars == <<input, result, rowsRead, lastRead, inflight, more, flaws>>
vars == <<sourceVars, dest, syncVars, attemptVars>>

NoToken == <<>>
------------------------------------------------------------------------------
(* The comparisons of SQL: with NULL neither is true.                      *)
Equal(v, w) == v # Null /\ w # Null /\ v = w
Greater(v, w) == v # Null /\ w # Null /\ v > w

(* Mutated: the row the last page ended with is read again.                *)
AfterOrAt(k, last) ==
    \/ k = last
    \/ \E i \in 1..Columns : /\ Greater(k[i], last[i])
                             /\ \A j \in 1..(i - 1) : Equal(k[j], last[j])

(* The WHERE clause of the paged query: a disjunct per column.             *)
After(k, last) ==
    \E i \in 1..Columns : /\ Greater(k[i], last[i])
                          /\ \A j \in 1..(i - 1) : Equal(k[j], last[j])

(* Its ORDER BY: NULLs sort together, at one end.                          *)
Less(v, w) == \/ v # Null /\ w # Null /\ v < w
              \/ NullsFirst /\ v = Null /\ w # Null
              \/ ~NullsFirst /\ v # Null /\ w = Null

Precedes(k, l) ==
    \E i \in 1..Columns : /\ Less(k[i], l[i])
                          /\ \A j \in 1..(i - 1) : k[j] = l[j]

(* A token is JSON, and decoded a number is a float64: beyond Exact (and   *)
(* up to twice that) an odd integer becomes the neighbour that is a        *)
(* multiple of four.                                                       *)
DecodedValue(v) ==
    IF v = Null \/ v <= Exact \/ v % 2 = 0 THEN v
    ELSE IF v % 4 = 1 THEN v - 1 ELSE v + 1

Decoded(k) == [i \in 1..Columns |-> DecodedValue(k[i])]

Matching == {r \in source : token = NoToken \/ After(table.key[r], token)}

(* What the query may return: the first rows in its order, as many as the  *)
(* limit allows; among rows that tie the database chooses.                 *)
Pages ==
    {S \in SUBSET Matching :
       /\ Cardinality(S) <= Limit
       /\ S # Matching => Cardinality(S) = Limit
       /\ \A r \in S, s \in Matching \ S :
             ~Precedes(table.key[s], table.key[r])}
------------------------------------------------------------------------------
Fresh(t) ==
    /\ tries' = t
    /\ input' = "Closed" /\ result' = {} /\ rowsRead' = 0
    /\ lastRead' = NoToken /\ inflight' = {} /\ more' = NoToken /\ flaws' = {}

Init ==
    /\ table \in Tables
    /\ source = table.start /\ kept = table.start /\ changes = 0
    /\ dest = [r \in Rows |-> IF r \in table.old THEN "old" ELSE "none"]
    /\ pc = "Running" /\ token = NoToken /\ tries = 1
    /\ losses = {} /\ retried = FALSE /\ zombies = FALSE
    /\ rewritten = FALSE /\ late = {}
    /\ input = "Closed" /\ result = {} /\ rowsRead = 0
    /\ lastRead = NoToken /\ inflight = {} /\ more = NoToken /\ flaws = {}

(* Another user of the source inserts or deletes a row.                    *)
ChangeSource ==
    /\ pc = "Running"
    /\ changes < MaxChanges
    /\ changes' = changes + 1
    /\ \E r \in Rows : IF r \in source
                         THEN source' = source \ {r} /\ kept' = kept \ {r}
                         ELSE source' = source \cup {r} /\ UNCHANGED kept
    /\ UNCHANGED <<table, dest, syncVars, attemptVars>>

(* Connect runs the query: the paged one when there is a token.            *)
Connect ==
    /\ pc = "Running"
    /\ input = "Closed"
    /\ input' = "Rows"
    /\ result' \in Pages
    /\ rowsRead' = 0
    /\ UNCHANGED <<sourceVars, dest, syncVars, lastRead, inflight, more, flaws>>

(* Read passes a row on and remembers its order by values.                 *)
ReadRow ==
    /\ pc = "Running"
    /\ input = "Rows"
    /\ \E r \in result :
          /\ \A s \in result : ~Precedes(table.key[s], table.key[r])
          /\ result' = result \ {r}
          /\ lastRead' = table.key[r]
          /\ inflight' = inflight \cup {r}
    /\ rowsRead' = rowsRead + 1
    /\ UNCHANGED <<sourceVars, dest, syncVars, input, more, flaws>>

(* The connection breaks, or a row cannot be mapped: Read returns the      *)
(* error and has let go of the rows.                                       *)
ReadFails ==
    /\ pc = "Running"
    /\ input = "Rows"
    /\ input' = "NoRows"
    /\ result' = {}
    /\ flaws' = IF rowsRead < Limit THEN flaws \cup {"short"} ELSE flaws
    /\ UNCHANGED <<sourceVars, dest, syncVars, rowsRead, lastRead, inflight,
                   more>>

(* Mutated: a page counts as full when it has a row more.                  *)
ReadEndsEarly ==
    /\ pc = "Running"
    /\ input = "NoRows" \/ (input = "Rows" /\ result = {})
    /\ input' = "Ended"
    /\ more' = IF rowsRead > Limit THEN lastRead ELSE more
    /\ UNCHANGED <<sourceVars, dest, syncVars, result, rowsRead, lastRead,
                   inflight, flaws>>

(* No more rows, or none since an error: the end of the input.  A full     *)
(* page calls hasMorePages.                                                *)
ReadEnds ==
    /\ pc = "Running"
    /\ input = "NoRows" \/ (input = "Rows" /\ result = {})
    /\ input' = "Ended"
    /\ more' = IF rowsRead >= Limit THEN lastRead ELSE more
    /\ UNCHANGED <<sourceVars, dest, syncVars, result, rowsRead, lastRead,
                   inflight, flaws>>
------------------------------------------------------------------------------
(* A job that asks for updates.  Postgres needs a primary key to find the  *)
(* row by and columns to update, else it ignores conflicts; a table with a *)
(* deferrable constraint is written row by row, an UPDATE after an INSERT  *)
(* that meets a row, or not at all when no column may be updated.          *)
UpdateMode ==
    IF table.driver = "mysql" THEN "update"
    ELSE IF table.deferrable THEN IF table.updatable THEN "upsert" ELSE "skip"
    ELSE IF table.primary /\ table.updatable THEN "update" ELSE "nothing"

(* What an INSERT does on a conflict: a retry ignores it, except on SQL    *)
(* Server, which cannot.                                                   *)
ModeWhen(isRetry) ==
    IF table.onConflict = "update" THEN UpdateMode
    ELSE IF /\ table.onConflict = "nothing" \/ isRetry
            /\ table.driver # "mssql"
      THEN "nothing" ELSE "error"

(* Mutated: every attempt counts as a retry.                               *)
ModeOfRetry(attempt) == ModeWhen(attempt >= 1)

Mode(attempt) == ModeWhen(attempt > 1)

Conflicts(r) ==
    /\ table.unique
    /\ \A i \in 1..Columns : table.key[r][i] # Null
    /\ dest[r] # "none"

(* An INSERT of row r meets an error for a conflict.  The UPDATE of an     *)
(* upsert has no WHERE clause without a primary key: it would give all     *)
(* rows the key of r.                                                      *)
Clashes(r, mode, before) ==
    /\ Conflicts(r)
    /\ \/ mode = "error"
       \/ /\ mode = "upsert" /\ ~table.primary
          /\ \E s \in Rows \ {r} : dest[s] # "none" \/ s \in before

(* Destination after INSERT of rows that go through.                       *)
Inserted(rows, mode) ==
    [r \in Rows |-> IF \/ r \notin rows
                       \/ mode = "skip"
                       \/ mode = "nothing" /\ Conflicts(r)
                      THEN dest[r] ELSE "new"]

(* Rows that may be left out without an error: their foreign key finds no  *)
(* row, and they are skipped one by one, or by the INSERT IGNORE of MySQL. *)
(* The UPDATE of an upsert that violates a foreign key is an error.        *)
MaySkip(mode) ==
    {r \in table.orphans :
       \/ table.skipViolations /\ ~(mode = "upsert" /\ Conflicts(r))
       \/ table.driver = "mysql" /\ mode = "nothing"}

RowByRow(batch, mode) ==
    \/ mode = "upsert"
    \/ table.skipViolations /\ batch \cap table.orphans # {}

(* The batch goes through.                                                 *)
Accepted(batch, mode) ==
    /\ \A r \in batch : ~Clashes(r, mode, {})
    /\ \E skipped \in SUBSET (batch \cap MaySkip(mode)) :
          dest' = Inserted(batch \ skipped, mode)
    /\ UNCHANGED flaws

(* A row of the batch meets a critical error: the batch counts as done and *)
(* the error goes to the activity.  Rows before it are written when they   *)
(* are written one by one.  A conflict is not critical on SQL Server.      *)
Rejected(batch, mode) ==
    \E bad \in batch :
       \E before \in SUBSET (IF RowByRow(batch, mode) THEN batch \ {bad} ELSE {}) :
          /\ mode # "skip"
          /\ \A r \in before : ~Clashes(r, mode, {})
          /\ dest' = Inserted(before, mode)
          /\ IF Clashes(bad, mode, before)
               THEN table.driver # "mssql" /\ flaws' = flaws \cup {"conflict"}
               ELSE flaws' = flaws \cup {"rejected"}

WriteBatch ==
    /\ pc = "Running"
    /\ \E batch \in (SUBSET inflight) \ {{}} :
          /\ inflight' = inflight \ batch
          /\ Accepted(batch, Mode(tries)) \/ Rejected(batch, Mode(tries))
    /\ UNCHANGED <<sourceVars, syncVars, input, result, rowsRead, lastRead, more>>

(* Rows are written, but not the batch: the answer is lost, or row by row  *)
(* one of them meets an error that is not critical.  Benthos, or the       *)
(* database client, writes the batch again.                                *)
WriteBreaksOff ==
    /\ pc = "Running"
    /\ \E rows \in (SUBSET inflight) \ {{}} :
          /\ \A r \in rows : ~Clashes(r, Mode(tries), {})
          /\ dest' = Inserted(rows, Mode(tries))
    /\ rewritten' = TRUE
    /\ UNCHANGED <<sourceVars, pc, token, tries, losses, retried, zombies, late,
                   attemptVars>>

(* An attempt that was given up writes a row, or fails to.                 *)
LateWrite ==
    /\ \E w \in late :
          /\ late' = late \ {w}
          /\ dest' = IF Clashes(w.row, w.mode, {}) THEN dest
                     ELSE Inserted({w.row}, w.mode)
    /\ UNCHANGED <<sourceVars, pc, token, tries, losses, retried, zombies,
                   rewritten, attemptVars>>
------------------------------------------------------------------------------
(* Mutated: the next page starts where this one did.                       *)
StayOnPage ==
    /\ pc = "Running"
    /\ input = "Ended"
    /\ inflight = {}
    /\ losses' = losses \cup flaws
    /\ IF more = NoToken
         THEN pc' = "Completed" /\ UNCHANGED <<tries, attemptVars>>
         ELSE Fresh(1) /\ UNCHANGED pc
    /\ UNCHANGED <<sourceVars, dest, token, retried, zombies, rewritten, late>>

(* The stream is done and its end is the first thing the activity hears.   *)
(* The workflow asks for the next page, or is through.                     *)
PageDone ==
    /\ pc = "Running"
    /\ input = "Ended"
    /\ inflight = {}
    /\ losses' = losses \cup flaws
    /\ IF more = NoToken
         THEN pc' = "Completed" /\ UNCHANGED <<token, tries, attemptVars>>
         ELSE token' = Decoded(more) /\ Fresh(1) /\ UNCHANGED pc
    /\ UNCHANGED <<sourceVars, dest, retried, zombies, rewritten, late>>

(* Rows an attempt would still write if it went on; one that has not       *)
(* connected yet would do that first.                                      *)
Unwritten == IF input = "Closed" THEN Pages ELSE {result \cup inflight}

(* The attempt fails, times out, or its worker is gone: it is made again,  *)
(* from the same token, or the sync has failed.  The old one may go on.    *)
AttemptFails ==
    /\ pc = "Running"
    /\ \/ UNCHANGED <<late, zombies>>
       \/ /\ \E S \in Unwritten :
                late' = late \cup [row : S, mode : {Mode(tries)}]
          /\ zombies' = TRUE
    /\ IF tries < MaxAttempts
         THEN Fresh(tries + 1) /\ retried' = TRUE /\ UNCHANGED pc
         ELSE pc' = "Failed" /\ UNCHANGED <<tries, retried, attemptVars>>
    /\ UNCHANGED <<sourceVars, dest, token, losses, rewritten>>

(* The sync is over; only zombies may still write.                         *)
Over ==
    /\ pc # "Running"
    /\ UNCHANGED vars

Attempt == \/ Connect \/ ReadRow \/ ReadFails \/ ReadEnds
           \/ WriteBatch \/ WriteBreaksOff

Next == ChangeSource \/ Attempt \/ LateWrite \/ PageDone \/ AttemptFails \/ Over

(* Temporal hears of the end of an attempt, or times it out.               *)
Fairness == WF_vars(PageDone \/ AttemptFails)

Spec == Init /\ [][Next]_vars /\ Fairness
------------------------------------------------------------------------------
Modes == {"error", "nothing", "update", "upsert", "skip"}

(* The variables keep their types, whatever the table is.                  *)
TypeOK ==
    /\ table \in Tables
    /\ source \subseteq Rows /\ kept \subseteq source /\ changes \in Nat
    /\ dest \in [Rows -> {"none", "old", "new"}]
    /\ pc \in {"Running", "Completed", "Failed"}
    /\ token \in Keys \cup {NoToken}
    /\ tries \in 1..MaxAttempts
    /\ losses \subseteq {"short", "conflict", "rejected"}
    /\ retried \in BOOLEAN /\ zombies \in BOOLEAN /\ rewritten \in BOOLEAN
    /\ late \subseteq [row : Rows, mode : Modes]
    /\ input \in {"Closed", "Rows", "NoRows", "Ended"}
    /\ result \subseteq Rows /\ rowsRead \in Nat
    /\ lastRead \in Keys \cup {NoToken}
    /\ inflight \subseteq Rows
    /\ more \in Keys \cup {NoToken}
    /\ flaws \subseteq {"short", "conflict", "rejected"}

(* What the paging needs of the order by columns: no two rows agree in     *)
(* them, none is NULL, and a token keeps them.                             *)
Distinguishing(t) ==
    /\ \A r, s \in Rows : r # s => t.key[r] # t.key[s]
    /\ \A r \in Rows, i \in 1..Columns :
          t.key[r][i] # Null /\ DecodedValue(t.key[r][i]) = t.key[r][i]

(* Rows the output leaves out on purpose: one that violates a foreign key  *)
(* where the job or the cycle of tables says to skip it, or where MySQL is *)
(* told to ignore conflicts; and on Postgres the rows of a table that has  *)
(* a deferrable constraint and no column to update.                        *)
LeftOut(r) ==
    \/ r \in table.orphans /\ table.skipViolations
    \/ /\ r \in table.orphans /\ table.driver = "mysql"
       /\ table.onConflict = "nothing" \/ (table.onConflict = "error" /\ retried)
    \/ /\ table.onConflict = "update" /\ table.driver = "postgres"
       /\ table.deferrable /\ ~table.updatable

(* A sync that succeeds has copied every row that was in the source all    *)
(* the while, across pages, retries, zombies, rows written twice and       *)
(* changes of the source, but for the rows the output leaves out, given    *)
(* columns that tell the rows apart and no error that was lost (a failed   *)
(* read taken for the end, a report overtaken by the end).                 *)
CopiesEveryRow ==
    pc = "Completed" /\ Distinguishing(table) /\ losses = {} =>
       \A r \in kept : dest[r] # "none" \/ LeftOut(r)

(* What may keep a row of an earlier run as it is at the destination.      *)
MayStayOld(r) ==
    \/ table.onConflict = "nothing"
    \/ table.onConflict = "error" /\ retried /\ table.driver # "mssql"
    \/ /\ table.onConflict = "update" /\ table.driver = "postgres"
       /\ ~table.updatable \/ (~table.primary /\ ~table.deferrable)
    \/ r \in table.orphans /\ table.skipViolations

(* A row that an earlier run left at the destination is replaced, or the   *)
(* conflict fails the sync, unless conflicts are ignored (the job says so, *)
(* an attempt was a retry, an update has no key to find the row by or no   *)
(* column to set) or the row violates a foreign key and is skipped         *)
(* (output_sql_insert.go, insert-query-builder.go).                        *)
OldRowsHaveCause ==
    pc = "Completed" /\ Distinguishing(table) /\ losses = {} =>
       \A r \in kept : dest[r] = "old" => MayStayOld(r)

(* An upsert that finds its own rows without a key to update them by.      *)
KeylessUpsert ==
    /\ table.onConflict = "update" /\ table.driver = "postgres"
    /\ table.deferrable /\ ~table.primary

(* The sync does not run into rows it has written itself: pages do not     *)
(* overlap, and a retry ignores conflicts.  A conflict comes from rows left *)
(* from before, from an attempt that goes on after it was given up, from   *)
(* rows written whose answer was lost, from a retry that found another     *)
(* page than the attempt before it wrote, because the source had changed,  *)
(* or from one that has no key to update rows by.                          *)
ConflictsHaveCause ==
    "conflict" \in (flaws \cup losses) /\ Distinguishing(table) =>
       \/ table.old # {}
       \/ zombies
       \/ rewritten
       \/ retried /\ (changes > 0 \/ KeylessUpsert)

(* The pages come to an end.                                               *)
Termination == <>(pc # "Running")

(* What the guide says of a full refresh (incremental-additions.md:36):    *)
(* all of the data is synced every time.  A failed read in the middle of a *)
(* page passes for the end of the table.                                   *)
FullRefresh == pc = "Completed" => \A r \in kept : dest[r] = "new"
==============================================================================
