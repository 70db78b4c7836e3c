-------------------------- MODULE PagedSync_proofs ---------------------------
(***************************************************************************)
(* Proofs about PagedSync for any rows, order by columns, page size,       *)
(* number of attempts and changes of the source.  The heart of it: what a  *)
(* page leaves out comes after every row of the page, and a row that comes *)
(* after the last one read is a row the paged query asks for.              *)
(***************************************************************************)
EXTENDS PagedSync, FiniteSetTheorems, WellFoundedInduction, TLAPS

(* A set of numbers has a least element.                                   *)
LEMMA LeastNatural ==
  ASSUME NEW T \in SUBSET Nat, T # {}
  PROVE  \E i \in T : \A j \in T : i <= j
<1> DEFINE R == {ss \in Nat \X Nat : ss[1] < ss[2]}
<1>1. R = OpToRel(<, Nat)
  BY DEF OpToRel
<1>2. IsWellFoundedOn(R, Nat)
  BY <1>1, NatLessThanWellFounded
<1>3. PICK i \in T : \A j \in T : <<j, i>> \notin R
  BY <1>2, WFMin
<1>4. ASSUME NEW j \in T PROVE i <= j
  <2>1. i \in Nat /\ j \in Nat /\ <<j, i>> \in Nat \X Nat
    OBVIOUS
  <2>2. ~(j < i)
    BY <1>3, <2>1
  <2> QED
    BY <2>1, <2>2
<1> QED
  BY <1>4

(* Keys that differ have a first column in which they do.                  *)
LEMMA FirstDifference ==
  ASSUME NEW k \in Keys, NEW l \in Keys, k # l
  PROVE  \E i \in 1..Columns : k[i] # l[i] /\ \A j \in 1..(i - 1) : k[j] = l[j]
<1> DEFINE T == {i \in 1..Columns : k[i] # l[i]}
<1>1. T # {}
  <2>1. k = [i \in 1..Columns |-> k[i]] /\ l = [i \in 1..Columns |-> l[i]]
    BY DEF Keys
  <2> QED
    BY <2>1
<1>2. T \in SUBSET Nat
  BY SizesAssumption
<1>3. PICK i \in T : \A j \in T : i <= j
  BY <1>1, <1>2, LeastNatural
<1>4. ASSUME NEW j \in 1..(i - 1) PROVE k[j] = l[j]
  <2>1. j \in 1..Columns /\ ~(i <= j)
    BY <1>2, SizesAssumption
  <2> QED
    BY <1>3, <2>1
<1> QED
  BY <1>4

(* What comes after a row in the order of the query is what the paged      *)
(* query asks for, given columns that distinguish the rows.                *)
LEMMA AfterIsNotBefore ==
  ASSUME NEW t \in Table, Distinguishing(t), NEW r \in Rows, NEW s \in Rows,
         r # s, ~Precedes(t.key[r], t.key[s])
  PROVE  After(t.key[r], t.key[s])
<1> DEFINE k == t.key[r]
           l == t.key[s]
<1>1. k \in Keys /\ l \in Keys /\ k # l
  BY DEF Table, Distinguishing
<1>2. PICK i \in 1..Columns : k[i] # l[i] /\ \A j \in 1..(i - 1) : k[j] = l[j]
  BY <1>1, FirstDifference
<1>3. \A j \in 1..Columns : k[j] \in Nat /\ l[j] \in Nat /\ k[j] # Null /\ l[j] # Null
  BY <1>1 DEF Distinguishing, Keys, Values
<1>4. ~Less(k[i], l[i])
  BY <1>2 DEF Precedes
<1>5. Greater(k[i], l[i])
  BY <1>2, <1>3, <1>4 DEF Less, Greater
<1>6. \A j \in 1..(i - 1) : Equal(k[j], l[j])
  BY <1>2, <1>3, SizesAssumption DEF Equal
<1> QED
  BY <1>5, <1>6 DEF After

(* The columns of a distinguishing key pass through a token unchanged.     *)
LEMMA DecodedSame ==
  ASSUME NEW t \in Table, Distinguishing(t), NEW r \in Rows
  PROVE  Decoded(t.key[r]) = t.key[r]
<1>1. t.key[r] \in Keys
  BY DEF Table
<1> QED
  BY <1>1 DEF Decoded, Distinguishing, Keys

(* A decoded token is a token.                                             *)
LEMMA DecodedTyped ==
  ASSUME NEW k \in Keys
  PROVE  Decoded(k) \in Keys
<1>1. ASSUME NEW v \in Values PROVE DecodedValue(v) \in Values
  <2>1. CASE v = Null \/ v <= Exact \/ v % 2 = 0
    BY <2>1 DEF DecodedValue
  <2>2. CASE v # Null /\ ~(v <= Exact) /\ v % 2 # 0
    <3>1. v \in Nat /\ v # 0
      BY <2>2, SizesAssumption DEF Values
    <3>2. v - 1 \in Nat /\ v + 1 \in Nat
      BY <3>1
    <3> QED
      BY <2>2, <3>2 DEF DecodedValue, Values
  <2> QED
    BY <2>1, <2>2
<1> QED
  BY <1>1 DEF Decoded, Keys
------------------------------------------------------------------------------
(* The page at hand: its rows are not more than the limit; it knows the    *)
(* key of the last row; it has let go of its rows when it ends; and its    *)
(* end says whether there is more.                                         *)
PageInv ==
    /\ rowsRead + Cardinality(result) <= Limit
    /\ lastRead # NoToken => \E s \in Rows : lastRead = table.key[s]
    /\ rowsRead > 0 => lastRead # NoToken
    /\ input = "Closed" => lastRead = NoToken /\ inflight = {} /\ rowsRead = 0
    /\ input \in {"NoRows", "Ended"} => result = {}
    /\ more = IF input = "Ended" /\ rowsRead >= Limit THEN lastRead ELSE NoToken

Sound == Distinguishing(table) /\ losses = {}

Asked(r) == token = NoToken \/ After(table.key[r], token)

(* Row r is left to the next page, which will be asked for.                *)
Left(r) ==
    /\ rowsRead + Cardinality(result) >= Limit
    /\ r \notin result
    /\ \A s \in result : ~Precedes(table.key[r], table.key[s])
    /\ lastRead # NoToken => /\ table.key[r] # lastRead
                             /\ ~Precedes(table.key[r], lastRead)

(* Row r is at the destination or left out on purpose, and a row from an   *)
(* earlier run stays only for a cause.                                     *)
There(r) ==
    /\ dest[r] # "none" \/ LeftOut(r)
    /\ dest[r] = "old" => MayStayOld(r)

(* Rows the pages before this one were asked for are at the destination.   *)
PagesBefore == Sound => \A r \in kept : There(r) \/ Asked(r)

(* Rows this page was asked for are there too, or on their way, or left to *)
(* the next, unless an error was lost.                                     *)
ThisPage ==
    Sound /\ flaws = {} /\ input # "Closed" =>
       \A r \in kept : Asked(r) =>
          There(r) \/ r \in inflight \/ r \in result \/ Left(r)

(* When the sync is over all rows are there.                               *)
AllThere == Sound /\ pc = "Completed" => \A r \in kept : There(r)

(* A second attempt is a retry.                                            *)
SecondIsRetry == tries > 1 => retried

IInv == TypeOK /\ PageInv /\ SecondIsRetry /\ PagesBefore /\ ThisPage /\ AllThere
------------------------------------------------------------------------------
(* The table is one of the kind described, and its rows are finite.        *)
LEMMA TableTyped == TypeOK => table \in Table /\ Possible(table)
BY TablesAssumption DEF TypeOK

(* What an INSERT does on a conflict is one of five things.                *)
LEMMA ModeTyped == TypeOK => Mode(tries) \in Modes
BY DEF Mode, ModeWhen, UpdateMode, Modes

(* A page is a set of rows the query matches.                              *)
LEMMA PagesTyped ==
  ASSUME TypeOK, NEW S \in Pages
  PROVE  S \subseteq source /\ S \subseteq Rows /\ Cardinality(S) <= Limit
BY DEF Pages, Matching, TypeOK

(* An INSERT leaves the types alone.                                       *)
LEMMA InsertedTyped ==
  ASSUME TypeOK, NEW batch, NEW mode
  PROVE  Inserted(batch, mode) \in [Rows -> {"none", "old", "new"}]
BY DEF Inserted, TypeOK

(* An INSERT leaves a row as it is or writes it anew.                      *)
LEMMA InsertedKeeps ==
  ASSUME TypeOK, NEW batch, NEW mode, NEW r \in Rows
  PROVE  Inserted(batch, mode)[r] \in {dest[r], "new"}
BY DEF Inserted, TypeOK

(* An INSERT that goes through leaves a row as it was where conflicts are  *)
(* ignored, and out only where nothing is written.                         *)
LEMMA InsertedWrites ==
  ASSUME TypeOK, NEW batch, NEW mode, NEW r \in Rows, r \in batch
  PROVE  \/ Inserted(batch, mode)[r] = "new"
         \/ Inserted(batch, mode)[r] # "none" /\ mode = "nothing"
         \/ mode = "skip"
BY DEF Inserted, Conflicts, TypeOK

(* A row that is there stays there.                                        *)
LEMMA ThereStays ==
  ASSUME NEW r, There(r), dest'[r] \in {dest[r], "new"}, table' = table,
         retried => retried'
  PROVE  There(r)'
BY DEF There, LeftOut, MayStayOld

(* A mode that leaves rows has the causes that are named.                  *)
LEMMA ModeHasCause ==
  ASSUME TypeOK, SecondIsRetry, NEW r \in Rows
  PROVE  /\ Mode(tries) = "nothing" => MayStayOld(r)
         /\ Mode(tries) = "skip" => LeftOut(r) /\ MayStayOld(r)
         /\ Mode(tries) = "nothing" /\ r \in table.orphans /\ table.driver = "mysql"
               => LeftOut(r)
<1>1. /\ table.onConflict \in {"error", "nothing", "update"}
      /\ table.driver \in {"postgres", "mysql", "mssql"}
      /\ table.driver = "mssql" => table.onConflict = "error"
  BY TableTyped DEF Table, Possible
<1>2. tries > 1 => retried
  BY DEF SecondIsRetry
<1>3. CASE table.onConflict = "update"
  BY <1>1, <1>3 DEF Mode, ModeWhen, UpdateMode, MayStayOld, LeftOut
<1>4. CASE table.onConflict # "update"
  BY <1>1, <1>2, <1>4 DEF Mode, ModeWhen, MayStayOld, LeftOut
<1> QED
  BY <1>3, <1>4

(* What is written of a batch is part of it.                               *)
LEMMA WrittenOfBatch ==
  ASSUME TypeOK, NEW batch, NEW mode, Accepted(batch, mode) \/ Rejected(batch, mode)
  PROVE  \E rows \in SUBSET batch : dest' = Inserted(rows, mode)
<1>1. CASE Accepted(batch, mode)
  <2>1. PICK skipped \in SUBSET (batch \cap MaySkip(mode)) :
           dest' = Inserted(batch \ skipped, mode)
    BY <1>1 DEF Accepted
  <2> QED
    BY <2>1
<1>2. CASE Rejected(batch, mode)
  <2>1. PICK bad \in batch :
           \E before \in SUBSET (IF RowByRow(batch, mode) THEN batch \ {bad}
                                 ELSE {}) :
              dest' = Inserted(before, mode)
    BY <1>2 DEF Rejected
  <2> QED
    BY <2>1
<1> QED
  BY <1>1, <1>2

(* In the beginning all of the table is asked for.                         *)
LEMMA InitIInv == Init => IInv
<1> SUFFICES ASSUME Init PROVE IInv
  OBVIOUS
<1>1. table \in Table
  BY TablesAssumption DEF Init
<1>2. TypeOK
  <2>1. dest \in [Rows -> {"none", "old", "new"}] /\ tries \in 1..MaxAttempts
    BY SizesAssumption DEF Init
  <2>2. source \subseteq Rows /\ kept \subseteq source
    BY <1>1 DEF Init, Table
  <2> QED
    BY <2>1, <2>2 DEF Init, TypeOK
<1>3. PageInv
  BY FS_EmptySet, SizesAssumption DEF Init, PageInv
<1>4. PagesBefore /\ ThisPage /\ AllThere /\ SecondIsRetry
  BY DEF Init, PagesBefore, ThisPage, AllThere, SecondIsRetry, Asked
<1> QED
  BY <1>2, <1>3, <1>4 DEF IInv

(* Every step keeps the types.                                             *)
LEMMA TypeOKStep ==
  ASSUME TypeOK, [Next]_vars
  PROVE  TypeOK'
<1> USE DEF sourceVars, syncVars, attemptVars
<1>1. CASE ChangeSource
  BY <1>1 DEF ChangeSource, TypeOK
<1>2. CASE Connect
  BY <1>2, PagesTyped DEF Connect, TypeOK
<1>3. CASE ReadRow
  <2>1. PICK r \in result : /\ result' = result \ {r}
                            /\ lastRead' = table.key[r]
                            /\ inflight' = inflight \cup {r}
    BY <1>3 DEF ReadRow
  <2>2. table.key[r] \in Keys
    BY <2>1, TableTyped DEF TypeOK, Table
  <2> QED
    BY <1>3, <2>1, <2>2 DEF ReadRow, TypeOK
<1>4. CASE ReadFails
  BY <1>4 DEF ReadFails, TypeOK
<1>5. CASE ReadEnds
  BY <1>5 DEF ReadEnds, TypeOK
<1>6. CASE WriteBatch
  <2>1. PICK batch \in (SUBSET inflight) \ {{}} :
           /\ inflight' = inflight \ batch
           /\ Accepted(batch, Mode(tries)) \/ Rejected(batch, Mode(tries))
    BY <1>6 DEF WriteBatch
  <2>2. dest' \in [Rows -> {"none", "old", "new"}]
    BY <2>1, WrittenOfBatch, InsertedTyped
  <2>3. flaws' \subseteq {"short", "conflict", "rejected"}
    BY <2>1 DEF Accepted, Rejected, TypeOK
  <2> QED
    BY <1>6, <2>1, <2>2, <2>3 DEF WriteBatch, TypeOK
<1>11. CASE WriteBreaksOff
  BY <1>11, InsertedTyped DEF WriteBreaksOff, TypeOK
<1>7. CASE LateWrite
  BY <1>7, InsertedTyped DEF LateWrite, TypeOK
<1>8. CASE PageDone
  <2>1. token' \in Keys \cup {NoToken}
    BY <1>8, DecodedTyped DEF PageDone, TypeOK
  <2>2. tries' \in 1..MaxAttempts
    BY <1>8, SizesAssumption DEF PageDone, Fresh, TypeOK
  <2>3. /\ losses' \subseteq {"short", "conflict", "rejected"}
        /\ pc' \in {"Running", "Completed"}
    BY <1>8 DEF PageDone, TypeOK
  <2>4. CASE more = NoToken
    BY <1>8, <2>1, <2>2, <2>3, <2>4 DEF PageDone, TypeOK
  <2>5. CASE more # NoToken
    BY <1>8, <2>1, <2>2, <2>3, <2>5 DEF PageDone, Fresh, TypeOK
  <2> QED
    BY <2>4, <2>5
<1>9. CASE AttemptFails
  <2>1. late' \subseteq [row : Rows, mode : Modes]
    BY <1>9, ModeTyped, PagesTyped DEF AttemptFails, Unwritten, TypeOK
  <2>2. tries' \in 1..MaxAttempts
    BY <1>9, SizesAssumption DEF AttemptFails, Fresh, TypeOK
  <2>3. zombies' \in BOOLEAN /\ UNCHANGED <<sourceVars, dest, token, losses>>
    BY <1>9 DEF AttemptFails, TypeOK
  <2>4. CASE tries < MaxAttempts
    BY <1>9, <2>1, <2>2, <2>3, <2>4 DEF AttemptFails, Fresh, TypeOK
  <2>5. CASE ~(tries < MaxAttempts)
    BY <1>9, <2>1, <2>2, <2>3, <2>5 DEF AttemptFails, TypeOK
  <2> QED
    BY <2>4, <2>5
<1>10. CASE Over \/ UNCHANGED vars
  BY <1>10 DEF Over, vars, TypeOK
<1> QED
  BY <1>1, <1>2, <1>3, <1>4, <1>5, <1>6, <1>7, <1>8, <1>9, <1>10, <1>11
     DEF Next, Attempt

(* Every step keeps count of the page.                                     *)
LEMMA PageStep ==
  ASSUME TypeOK, PageInv, [Next]_vars
  PROVE  PageInv'
<1> USE DEF sourceVars, syncVars, attemptVars
<1>1. Cardinality({}) = 0
  BY FS_EmptySet
<1>2. CASE ChangeSource \/ LateWrite
  BY <1>2 DEF ChangeSource, LateWrite, PageInv
<1>3. CASE Connect
  <2>1. result' \subseteq Rows /\ Cardinality(result') <= Limit
    BY <1>3, PagesTyped DEF Connect
  <2>2. Cardinality(result') \in Nat
    BY <2>1, RowsAssumption, FS_Subset, FS_CardinalityType
  <2> QED
    BY <1>3, <2>1, <2>2 DEF Connect, PageInv
<1>4. CASE ReadRow
  <2>1. PICK r \in result : /\ result' = result \ {r}
                            /\ lastRead' = table.key[r]
    BY <1>4 DEF ReadRow
  <2>2. r \in Rows /\ table.key[r] # NoToken
    <3>1. table.key[r] \in Keys
      BY <2>1, TableTyped DEF TypeOK, Table
    <3>2. DOMAIN table.key[r] # {}
      BY <3>1, SizesAssumption DEF Keys
    <3> QED
      BY <2>1, <3>2 DEF NoToken, TypeOK
  <2>3. IsFiniteSet(result)
    BY RowsAssumption, FS_Subset DEF TypeOK
  <2>4. /\ Cardinality(result) \in Nat
        /\ Cardinality(result') = Cardinality(result) - 1
    BY <2>1, <2>3, FS_RemoveElement, FS_CardinalityType
  <2>5. rowsRead' + Cardinality(result') <= Limit
    BY <1>4, <2>4, SizesAssumption DEF ReadRow, PageInv, TypeOK
  <2> QED
    BY <1>4, <2>1, <2>2, <2>5 DEF ReadRow, PageInv
<1>5. CASE ReadFails
  <2>1. Cardinality(result) \in Nat
    BY RowsAssumption, FS_Subset, FS_CardinalityType DEF TypeOK
  <2> QED
    BY <1>1, <1>5, <2>1, SizesAssumption DEF ReadFails, PageInv, TypeOK
<1>6. CASE ReadEnds
  BY <1>6 DEF ReadEnds, PageInv
<1>7. CASE WriteBatch
  BY <1>7 DEF WriteBatch, PageInv
<1>11. CASE WriteBreaksOff
  BY <1>11 DEF WriteBreaksOff, PageInv
<1>8. CASE PageDone
  BY <1>1, <1>8, SizesAssumption DEF PageDone, Fresh, PageInv
<1>9. CASE AttemptFails
  BY <1>1, <1>9, SizesAssumption DEF AttemptFails, Fresh, PageInv
<1>10. CASE Over \/ UNCHANGED vars
  BY <1>10 DEF Over, vars, PageInv
<1> QED
  BY <1>2, <1>3, <1>4, <1>5, <1>6, <1>7, <1>8, <1>9, <1>10, <1>11
     DEF Next, Attempt

(* A row of the source that a page leaves out comes after all of the page. *)
LEMMA PageLeavesRest ==
  ASSUME TypeOK, NEW S \in Pages, NEW r \in kept, Asked(r), r \notin S
  PROVE  /\ Cardinality(S) = Limit
         /\ \A s \in S : ~Precedes(table.key[r], table.key[s])
<1>1. r \in Matching \ S
  BY DEF Matching, Asked, TypeOK
<1> QED
  BY <1>1 DEF Pages

(* Connecting reads the first rows of those asked for.                     *)
LEMMA ConnectStep ==
  ASSUME TypeOK, PageInv, Connect
  PROVE  ThisPage'
<1> SUFFICES ASSUME NEW r \in kept, Asked(r), r \notin result'
             PROVE  Left(r)'
  BY DEF Connect, ThisPage, There, LeftOut, MayStayOld, Sound, Asked,
      sourceVars, syncVars
<1>1. /\ Cardinality(result') = Limit
      /\ \A s \in result' : ~Precedes(table.key[r], table.key[s])
  BY PageLeavesRest DEF Connect
<1> QED
  BY <1>1, SizesAssumption DEF Connect, Left, PageInv, sourceVars

(* Reading a row takes it from the page to those in flight; a row left to  *)
(* the next page does not come before it either.                           *)
LEMMA ReadRowStep ==
  ASSUME TypeOK, ThisPage, ReadRow
  PROVE  ThisPage'
<1>1. PICK s \in result : /\ result' = result \ {s}
                          /\ lastRead' = table.key[s]
                          /\ inflight' = inflight \cup {s}
                          /\ rowsRead' = rowsRead + 1
  BY DEF ReadRow
<1> SUFFICES ASSUME Sound, flaws = {}, NEW r \in kept, Asked(r),
                    ~There(r), r \notin inflight', r \notin result'
             PROVE  Left(r)'
  BY DEF ReadRow, ThisPage, There, LeftOut, MayStayOld, Sound, Asked,
      sourceVars, syncVars
<1>2. r # s /\ Left(r)
  BY <1>1 DEF ReadRow, ThisPage
<1>3. rowsRead' + Cardinality(result') = rowsRead + Cardinality(result)
  <2>1. IsFiniteSet(result)
    BY RowsAssumption, FS_Subset DEF TypeOK
  <2>2. Cardinality(result) \in Nat /\ Cardinality(result') = Cardinality(result) - 1
    BY <1>1, <2>1, FS_RemoveElement, FS_CardinalityType
  <2> QED
    BY <1>1, <2>2 DEF TypeOK
<1>4. table.key[r] # table.key[s] /\ ~Precedes(table.key[r], table.key[s])
  BY <1>1, <1>2 DEF Sound, Distinguishing, Left, TypeOK
<1> QED
  BY <1>1, <1>2, <1>3, <1>4 DEF Left, ReadRow, sourceVars

(* A failed read lets go of rows only when the page falls short.           *)
LEMMA ReadFailsStep ==
  ASSUME TypeOK, PageInv, ThisPage, ReadFails
  PROVE  ThisPage'
<1> SUFFICES ASSUME flaws' = {} PROVE ThisPage'
  BY DEF ThisPage
<1>1. rowsRead >= Limit /\ flaws = {}
  BY SizesAssumption DEF ReadFails, TypeOK
<1>2. IsFiniteSet(result) /\ Cardinality(result) \in Nat
  BY RowsAssumption, FS_Subset, FS_CardinalityType DEF TypeOK
<1>3. result = {} /\ Cardinality(result) = 0
  BY <1>1, <1>2, FS_EmptySet, SizesAssumption DEF PageInv, TypeOK
<1> QED
  BY <1>1, <1>3 DEF ReadFails, ThisPage, There, LeftOut, MayStayOld, Sound,
      Asked, Left, sourceVars, syncVars

(* Writing a batch takes rows from those in flight to the destination.     *)
LEMMA WriteBatchStep ==
  ASSUME TypeOK, PageInv, SecondIsRetry, ThisPage, WriteBatch
  PROVE  ThisPage'
<1> SUFFICES ASSUME flaws' = {}, NEW r \in kept, r \in Rows, ~There(r)', Sound,
                    Asked(r)
             PROVE  r \in inflight' \/ r \in result \/ Left(r)
  BY DEF WriteBatch, ThisPage, Sound, Asked, Left, TypeOK, sourceVars, syncVars
<1>1. PICK batch \in (SUBSET inflight) \ {{}} :
         /\ inflight' = inflight \ batch
         /\ Accepted(batch, Mode(tries)) \/ Rejected(batch, Mode(tries))
  BY DEF WriteBatch
<1>2. flaws = {} /\ Accepted(batch, Mode(tries))
  BY <1>1 DEF Accepted, Rejected
<1>3. PICK skipped \in SUBSET (batch \cap MaySkip(Mode(tries))) :
         dest' = Inserted(batch \ skipped, Mode(tries))
  BY <1>2 DEF Accepted
<1>4. ~There(r) /\ r \notin batch
  <2>1. ~There(r)
    BY <1>3, InsertedKeeps, ThereStays DEF WriteBatch, sourceVars, syncVars
  <2>2. /\ LeftOut(r)' = LeftOut(r) /\ MayStayOld(r)' = MayStayOld(r)
        /\ dest'[r] \in {"none", "old", "new"}
    BY <1>3, InsertedTyped DEF LeftOut, MayStayOld, WriteBatch, sourceVars, syncVars
  <2>3. ASSUME r \in skipped PROVE FALSE
    <3>1. /\ r \in table.orphans
          /\ table.skipViolations \/ (table.driver = "mysql" /\ Mode(tries) = "nothing")
      BY <2>3 DEF MaySkip
    <3>2. LeftOut(r) /\ MayStayOld(r)
      BY <3>1, ModeHasCause DEF LeftOut, MayStayOld
    <3> QED
      BY <2>2, <3>2 DEF There
  <2>4. ASSUME r \in batch \ skipped PROVE FALSE
    <3>1. \/ dest'[r] = "new"
          \/ dest'[r] # "none" /\ Mode(tries) = "nothing"
          \/ Mode(tries) = "skip"
      BY <1>3, <2>4, InsertedWrites
    <3> QED
      BY <2>2, <3>1, ModeHasCause DEF There
  <2> QED
    BY <2>1, <2>3, <2>4
<1>5. input # "Closed"
  <2>1. PICK s \in batch : TRUE
    BY <1>1
  <2>2. s \in inflight
    BY <1>1, <2>1
  <2> QED
    BY <2>2 DEF PageInv
<1>6. There(r) \/ r \in inflight \/ r \in result \/ Left(r)
  BY <1>2, <1>5 DEF ThisPage
<1> QED
  BY <1>1, <1>4, <1>6

(* When a page is done every row is there or asked for next, and when the  *)
(* last page is done every row is there.                                   *)
LEMMA PageDoneStep ==
  ASSUME IInv, PageDone
  PROVE  PagesBefore' /\ AllThere'
<1> SUFFICES ASSUME Sound', NEW r \in kept, r \in Rows, ~There(r)
             PROVE  Asked(r)' /\ pc' # "Completed"
  BY DEF PageDone, PagesBefore, AllThere, There, LeftOut, MayStayOld, Sound,
      IInv, TypeOK, sourceVars
<1>2. Sound /\ flaws = {} /\ table \in Table
  <2>1. losses' = {} /\ losses' = losses \cup flaws /\ table' = table
    BY DEF PageDone, Sound, sourceVars
  <2>2. losses = {} /\ flaws = {}
    BY <2>1
  <2>3. Distinguishing(table)
    BY <2>1 DEF Sound
  <2> QED
    BY <2>2, <2>3, TableTyped DEF Sound, IInv
<1>3. result = {} /\ Cardinality(result) = 0
  BY FS_EmptySet DEF PageDone, IInv, PageInv
<1>4. Left(r)
  <2>1. input # "Closed" /\ inflight = {}
    BY DEF PageDone
  <2>2. Asked(r)
    BY <1>2 DEF IInv, PagesBefore
  <2> QED
    BY <1>2, <1>3, <2>1, <2>2 DEF IInv, ThisPage
<1>5. rowsRead >= Limit /\ more = lastRead /\ lastRead # NoToken
  BY <1>3, <1>4, SizesAssumption DEF PageDone, Left, IInv, PageInv, TypeOK
<1>6. PICK s \in Rows : lastRead = table.key[s]
  BY <1>5 DEF IInv, PageInv
<1>7. After(table.key[r], table.key[s])
  <2>1. table.key[r] # table.key[s] /\ ~Precedes(table.key[r], table.key[s])
    BY <1>4, <1>5, <1>6 DEF Left
  <2>2. r # s /\ Distinguishing(table)
    BY <1>2, <2>1 DEF Sound
  <2> QED
    BY <1>2, <1>6, <2>1, <2>2, AfterIsNotBefore
<1>8. token' = table.key[s] /\ pc' = "Running"
  BY <1>2, <1>5, <1>6, DecodedSame DEF PageDone, Sound
<1> QED
  BY <1>7, <1>8 DEF Asked, PageDone, sourceVars

(* Every step keeps the invariant.                                         *)
LEMMA NextIInv == IInv /\ [Next]_vars => IInv'
<1> SUFFICES ASSUME IInv, [Next]_vars PROVE IInv'
  OBVIOUS
<1>1. TypeOK' /\ PageInv'
  BY TypeOKStep, PageStep DEF IInv
<1>a. kept \subseteq Rows
  BY DEF IInv, TypeOK
<1>b. SecondIsRetry'
  BY DEF IInv, SecondIsRetry, Next, Attempt, ChangeSource, Connect, ReadRow,
         ReadFails, ReadEnds, WriteBatch, WriteBreaksOff, LateWrite, PageDone,
         AttemptFails, Over, Fresh, vars, sourceVars, syncVars
<1> SUFFICES PagesBefore' /\ ThisPage' /\ AllThere'
  BY <1>1, <1>b DEF IInv
<1> USE DEF sourceVars, syncVars, attemptVars
<1>2. CASE ChangeSource
  <2>1. kept' \subseteq kept /\ UNCHANGED <<table, dest, syncVars, attemptVars>>
    BY <1>2 DEF ChangeSource
  <2> QED
    BY <2>1 DEF IInv, PagesBefore, ThisPage, AllThere, There, LeftOut,
        MayStayOld, Sound, Asked, Left
<1>3. CASE Attempt
  <2>1. CASE Connect \/ ReadRow \/ ReadFails \/ ReadEnds
    <3>1. PagesBefore' /\ AllThere'
      BY <2>1 DEF Connect, ReadRow, ReadFails, ReadEnds, IInv, PagesBefore,
          AllThere, There, LeftOut, MayStayOld, Sound, Asked
    <3>2. ThisPage'
      BY <2>1, ConnectStep, ReadRowStep, ReadFailsStep DEF IInv, ReadEnds,
          ThisPage, There, LeftOut, MayStayOld, Sound, Asked, Left
    <3> QED
      BY <3>1, <3>2
  <2>2. CASE WriteBatch
    <3>1. ThisPage'
      BY <2>2, WriteBatchStep DEF IInv
    <3>2. UNCHANGED <<sourceVars, syncVars>>
      BY <2>2 DEF WriteBatch
    <3>3. PICK rows : dest' = Inserted(rows, Mode(tries))
      BY <2>2, WrittenOfBatch DEF WriteBatch, IInv
    <3>4. \A r \in Rows : There(r) => There(r)'
      BY <3>2, <3>3, InsertedKeeps, ThereStays DEF IInv
    <3> QED
      BY <1>a, <3>1, <3>2, <3>4 DEF IInv, PagesBefore, AllThere, Sound, Asked
  <2>3. CASE WriteBreaksOff
    <3>1. UNCHANGED <<sourceVars, pc, token, losses, retried, attemptVars>>
      BY <2>3 DEF WriteBreaksOff
    <3>2. \A r \in Rows : There(r) => There(r)'
      BY <2>3, <3>1, InsertedKeeps, ThereStays DEF WriteBreaksOff, IInv
    <3> QED
      BY <1>a, <3>1, <3>2 DEF IInv, PagesBefore, ThisPage, AllThere, Sound, Asked,
                              Left
  <2> QED
    BY <1>3, <2>1, <2>2, <2>3 DEF Attempt
<1>4. CASE LateWrite
  <2>1. UNCHANGED <<sourceVars, pc, token, losses, retried, attemptVars>>
    BY <1>4 DEF LateWrite
  <2>2. \A r \in Rows : There(r) => There(r)'
    BY <1>4, <2>1, InsertedKeeps, ThereStays DEF LateWrite, IInv
  <2> QED
    BY <1>a, <2>1, <2>2 DEF IInv, PagesBefore, ThisPage, AllThere, Sound, Asked,
                            Left
<1>5. CASE PageDone
  <2>1. ThisPage'
    <3>1. CASE more = NoToken
      BY <1>5, <3>1 DEF PageDone, IInv, ThisPage, There, LeftOut, MayStayOld,
          Sound, Asked, Left
    <3>2. CASE more # NoToken
      BY <1>5, <3>2 DEF PageDone, Fresh, ThisPage
    <3> QED
      BY <3>1, <3>2
  <2> QED
    BY <1>5, <2>1, PageDoneStep
<1>6. CASE AttemptFails
  <2>1. UNCHANGED <<sourceVars, dest, token, losses>> /\ pc' # "Completed"
    BY <1>6 DEF AttemptFails
  <2>2. input' = "Closed" \/ UNCHANGED attemptVars
    BY <1>6 DEF AttemptFails, Fresh
  <2>3. retried => retried'
    BY <1>6 DEF AttemptFails
  <2> QED
    BY <2>1, <2>2, <2>3 DEF IInv, PagesBefore, ThisPage, AllThere, There,
        LeftOut, MayStayOld, Sound, Asked, Left
<1>7. CASE Over \/ UNCHANGED vars
  BY <1>7 DEF Over, vars, IInv, PagesBefore, ThisPage, AllThere, There, LeftOut,
      MayStayOld, Sound, Asked, Left
<1> QED
  BY <1>2, <1>3, <1>4, <1>5, <1>6, <1>7 DEF Next

(* The invariant holds throughout.                                         *)
THEOREM IInvHolds == Spec => []IInv
<1>1. Init => IInv
  BY InitIInv
<1>2. IInv /\ [Next]_vars => IInv'
  BY NextIInv
<1> QED
  BY <1>1, <1>2, PTL DEF Spec

(* The variables of the paged sync keep their types.                       *)
THEOREM TypeCorrect == Spec => []TypeOK
<1>1. IInv => TypeOK
  BY DEF IInv
<1> QED
  BY <1>1, IInvHolds, PTL

(* A sync that succeeds has copied every row that stayed (pooledInput,     *)
(* pooledInsertOutput, SyncTable, the loop of TableSync), whatever the     *)
(* table, the page size, the retries and the changes of the source, but    *)
(* for the rows the output leaves out on purpose.                          *)
THEOREM CopiesEveryRowHolds == Spec => []CopiesEveryRow
<1>1. IInv => CopiesEveryRow
  BY DEF IInv, AllThere, There, Sound, CopiesEveryRow
<1> QED
  BY <1>1, IInvHolds, PTL

(* A row an earlier run left stays at the destination only where conflicts *)
(* are ignored, by the job, a retry or an update that finds no key or no   *)
(* column, or where its violation is skipped (pooledInsertOutput and the   *)
(* insert builders).                                                       *)
THEOREM OldRowsHaveCauseHolds == Spec => []OldRowsHaveCause
<1>1. IInv => OldRowsHaveCause
  BY DEF IInv, AllThere, There, Sound, OldRowsHaveCause
<1> QED
  BY <1>1, IInvHolds, PTL
------------------------------------------------------------------------------
(* What excludes the causes ConflictsHaveCause names.                      *)
Undisturbed ==
    /\ Distinguishing(table) /\ table.old = {} /\ ~zombies /\ ~rewritten
    /\ retried => changes = 0 /\ ~KeylessUpsert

(* Row r is of the page, whatever the database chooses.                    *)
OfPage(r) == \A S \in Pages : r \in S

(* Row r does not come after the last one read.                            *)
Passed(r) == lastRead # NoToken /\ ~After(table.key[r], lastRead)

(* Rows on their way are asked for, in order, and of the page.             *)
OnTheWay ==
    /\ lastRead # NoToken => token = NoToken \/ After(lastRead, token)
    /\ \A r \in result :
          Asked(r) /\ (lastRead # NoToken => After(table.key[r], lastRead))
    /\ \A r \in inflight : Asked(r) /\ Passed(r)
    /\ changes = 0 => \A r \in result \cup inflight : OfPage(r)

(* All of the page is read, unless the read fails.                         *)
PageIsRead ==
    changes = 0 /\ input # "Closed" =>
       \E S \in Pages : \A r \in S :
          \/ r \in result \/ Passed(r)
          \/ rowsRead < Limit /\ input \in {"NoRows", "Ended"}

(* A row at the destination is of a page before this one, or of this one:  *)
(* written by this attempt or, the source being the same, by one before.   *)
OwnRows ==
    \A r \in Rows : dest[r] # "none" /\ Asked(r) =>
       /\ tries = 1 => r \notin result \cup inflight /\ Passed(r)
       /\ changes = 0 => OfPage(r)

NoConflict == late = {} /\ "conflict" \notin flaws \cup losses

OwnPages == NoConflict /\ OnTheWay /\ PageIsRead /\ OwnRows

CInv == Undisturbed => OwnPages

(* Nothing comes after itself.                                             *)
LEMMA AfterIrreflexive ==
  ASSUME NEW k \in Keys
  PROVE  ~After(k, k)
<1> SUFFICES ASSUME NEW i \in 1..Columns, Greater(k[i], k[i]) PROVE FALSE
  BY DEF After
<1>1. k[i] \in Nat
  BY DEF Keys, Values, Greater
<1> QED
  BY <1>1 DEF Greater

(* What comes after a key that comes after another comes after that.       *)
LEMMA AfterTransitive ==
  ASSUME NEW a \in Keys, NEW b \in Keys, NEW c \in Keys, After(a, b), After(b, c)
  PROVE  After(a, c)
<1>1. PICK i \in 1..Columns : /\ Greater(a[i], b[i])
                              /\ \A m \in 1..(i - 1) : Equal(a[m], b[m])
  BY DEF After
<1>2. PICK j \in 1..Columns : /\ Greater(b[j], c[j])
                              /\ \A m \in 1..(j - 1) : Equal(b[m], c[m])
  BY DEF After
<1>3. \A m \in 1..Columns : a[m] \in Values /\ b[m] \in Values /\ c[m] \in Values
  BY DEF Keys
<1>4. CASE i < j
  <2>1. i \in 1..(j - 1) /\ \A m \in 1..(i - 1) : m \in 1..(j - 1)
    BY <1>4, SizesAssumption
  <2>2. Greater(a[i], c[i]) /\ \A m \in 1..(i - 1) : Equal(a[m], c[m])
    BY <1>1, <1>2, <2>1 DEF Greater, Equal
  <2> QED
    BY <2>2 DEF After
<1>5. CASE j < i
  <2>1. j \in 1..(i - 1) /\ \A m \in 1..(j - 1) : m \in 1..(i - 1)
    BY <1>5, SizesAssumption
  <2>2. Greater(a[j], c[j]) /\ \A m \in 1..(j - 1) : Equal(a[m], c[m])
    BY <1>1, <1>2, <2>1 DEF Greater, Equal
  <2> QED
    BY <2>2 DEF After
<1>6. CASE i = j
  <2>1. a[i] \in Nat /\ b[i] \in Nat /\ c[i] \in Nat
    BY <1>1, <1>2, <1>3, <1>6 DEF Greater, Values
  <2>2. Greater(a[i], c[i]) /\ \A m \in 1..(i - 1) : Equal(a[m], c[m])
    BY <1>1, <1>2, <1>6, <2>1 DEF Greater, Equal
  <2> QED
    BY <2>2 DEF After
<1> QED
  BY <1>4, <1>5, <1>6, SizesAssumption

(* The keys of two rows do not come after one another.                     *)
LEMMA AfterAsymmetric ==
  ASSUME NEW k \in Keys, NEW l \in Keys, After(k, l), After(l, k)
  PROVE  FALSE
BY AfterTransitive, AfterIrreflexive

(* Of two pages the query may return neither has a row the other lacks.    *)
LEMMA PageWithin ==
  ASSUME TypeOK, Distinguishing(table), NEW S \in Pages, NEW T \in Pages
  PROVE  S \subseteq T
<1> SUFFICES ASSUME NEW r \in S, r \notin T PROVE FALSE
  OBVIOUS
<1>1. /\ S \subseteq Matching /\ T \subseteq Matching
      /\ Cardinality(S) <= Limit /\ Cardinality(T) = Limit
  BY DEF Pages
<1>2. IsFiniteSet(S) /\ IsFiniteSet(T)
  BY PagesTyped, RowsAssumption, FS_Subset
<1>3. PICK t \in T : t \notin S
  <2> SUFFICES ASSUME T \subseteq S PROVE FALSE
    OBVIOUS
  <2>1. T # S
    OBVIOUS
  <2>2. Cardinality(T) < Cardinality(S)
    BY <1>2, <2>1, FS_Subset, FS_CardinalityType
  <2>3. Cardinality(T) \in Nat /\ Cardinality(S) \in Nat
    BY <1>2, FS_CardinalityType
  <2> QED
    BY <1>1, <2>2, <2>3
<1>4. /\ ~Precedes(table.key[t], table.key[r])
      /\ ~Precedes(table.key[r], table.key[t])
  BY <1>1, <1>3 DEF Pages
<1>5. r # t /\ r \in Rows /\ t \in Rows /\ table \in Table
  BY <1>3, PagesTyped, TableTyped
<1>6. After(table.key[r], table.key[t]) /\ After(table.key[t], table.key[r])
  BY <1>4, <1>5, AfterIsNotBefore
<1> QED
  BY <1>5, <1>6, AfterAsymmetric DEF Table

(* The rows of a page are of the page, and asked for.                      *)
LEMMA OnePage ==
  ASSUME TypeOK, Distinguishing(table), NEW S \in Pages, NEW r \in S
  PROVE  OfPage(r) /\ Asked(r)
BY PageWithin DEF OfPage, Pages, Matching, Asked

(* The key of a row is a key.                                              *)
LEMMA RowKey ==
  ASSUME TypeOK, NEW r \in Rows
  PROVE  table.key[r] \in Keys /\ table.key[r] # NoToken
<1>1. table.key[r] \in Keys
  BY TableTyped DEF Table
<1>2. DOMAIN table.key[r] # {}
  BY <1>1, SizesAssumption DEF Keys
<1> QED
  BY <1>1, <1>2 DEF NoToken

(* Before the first page there is no row at the destination.               *)
LEMMA InitCInv == Init => CInv
BY DEF Init, CInv, Undisturbed, OwnPages, NoConflict, OnTheWay, PageIsRead, OwnRows

(* An undisturbed sync was undisturbed before the step.                    *)
LEMMA UndisturbedBefore ==
  ASSUME TypeOK, [Next]_vars, Undisturbed'
  PROVE  Undisturbed /\ table' = table
<1> USE DEF sourceVars, syncVars, Undisturbed, KeylessUpsert
<1>1. CASE ChangeSource
  BY <1>1 DEF ChangeSource, TypeOK
<1>2. CASE Attempt
  BY <1>2 DEF Attempt, Connect, ReadRow, ReadFails, ReadEnds, WriteBatch,
              WriteBreaksOff
<1>3. CASE LateWrite \/ PageDone
  BY <1>3 DEF LateWrite, PageDone
<1>4. CASE AttemptFails
  BY <1>4 DEF AttemptFails, TypeOK
<1>5. CASE Over \/ UNCHANGED vars
  BY <1>5 DEF Over, vars
<1> QED
  BY <1>1, <1>2, <1>3, <1>4, <1>5 DEF Next

(* Connecting reads the page.                                              *)
LEMMA ConnectOwn ==
  ASSUME IInv, Undisturbed, OwnPages, Connect
  PROVE  OwnPages'
<1> USE DEF sourceVars, syncVars
<1>1. /\ result' \in Pages /\ input' = "Rows"
      /\ lastRead = NoToken /\ inflight = {} /\ Pages' = Pages
      /\ UNCHANGED <<table, changes, dest, token, tries, late, losses, flaws,
                     lastRead, inflight>>
  BY DEF Connect, IInv, PageInv, Pages, Matching
<1>2. \A r \in result' : OfPage(r) /\ Asked(r)
  BY <1>1, OnePage DEF IInv, Undisturbed
<1>3. OnTheWay'
  BY <1>1, <1>2 DEF OnTheWay, Asked, OfPage
<1>4. PageIsRead'
  BY <1>1 DEF PageIsRead
<1>5. OwnRows'
  BY <1>1 DEF OwnPages, OwnRows, Asked, Passed, OfPage
<1> QED
  BY <1>1, <1>3, <1>4, <1>5 DEF OwnPages, NoConflict

(* Reading a row, the first of those left, passes it and none of the rest. *)
LEMMA ReadRowOwn ==
  ASSUME IInv, Undisturbed, OwnPages, ReadRow
  PROVE  OwnPages'
<1> USE DEF sourceVars, syncVars
<1>1. PICK s \in result : /\ \A q \in result : ~Precedes(table.key[q], table.key[s])
                          /\ result' = result \ {s}
                          /\ lastRead' = table.key[s]
                          /\ inflight' = inflight \cup {s}
  BY DEF ReadRow
<1>2. /\ Pages' = Pages /\ input = "Rows" /\ input' = "Rows"
      /\ UNCHANGED <<table, changes, dest, token, tries, late, losses, flaws>>
  BY DEF ReadRow, Pages, Matching
<1>3. /\ result \subseteq Rows /\ inflight \subseteq Rows /\ table \in Table
      /\ lastRead \in Keys \cup {NoToken} /\ Distinguishing(table)
  BY TableTyped DEF IInv, TypeOK, Undisturbed
<1>4. \A r \in Rows : table.key[r] \in Keys /\ table.key[r] # NoToken
  BY RowKey DEF IInv
<1>5. ASSUME NEW r \in Rows, Passed(r) PROVE Passed(r)'
  <2>1. After(table.key[s], lastRead) /\ lastRead \in Keys
    BY <1>3, <1>5 DEF OwnPages, OnTheWay, Passed
  <2>2. ~After(table.key[r], table.key[s])
    BY <1>3, <1>4, <1>5, <2>1, AfterTransitive DEF Passed
  <2> QED
    BY <1>1, <1>2, <1>3, <1>4, <2>2 DEF Passed
<1>6. Passed(s)'
  BY <1>1, <1>2, <1>3, <1>4, AfterIrreflexive DEF Passed
<1>7. \A q \in result' : After(table.key[q], lastRead')
  BY <1>1, <1>3, AfterIsNotBefore
<1>8. OnTheWay'
  <2>1. Asked(s)
    BY DEF OwnPages, OnTheWay
  <2>2. lastRead' # NoToken => token' = NoToken \/ After(lastRead', token')
    BY <1>1, <1>2, <2>1 DEF Asked
  <2>3. \A r \in result' : Asked(r)' /\ After(table'.key[r], lastRead')
    BY <1>1, <1>2, <1>7 DEF OwnPages, OnTheWay, Asked
  <2>4. \A r \in inflight' : Asked(r)' /\ Passed(r)'
    BY <1>1, <1>2, <1>3, <1>5, <1>6, <2>1 DEF OwnPages, OnTheWay, Asked
  <2>5. changes' = 0 => \A r \in result' \cup inflight' : OfPage(r)'
    BY <1>1, <1>2 DEF OwnPages, OnTheWay, OfPage
  <2> QED
    BY <2>2, <2>3, <2>4, <2>5 DEF OnTheWay
<1>9. PageIsRead'
  <2> SUFFICES ASSUME changes = 0
               PROVE  \E S \in Pages : \A r \in S : r \in result' \/ Passed(r)'
    BY <1>2 DEF PageIsRead
  <2>1. PICK S \in Pages : \A r \in S : r \in result \/ Passed(r)
    BY <1>2 DEF OwnPages, PageIsRead
  <2>2. S \subseteq Rows
    BY PagesTyped DEF IInv
  <2> QED
    BY <1>1, <1>5, <1>6, <2>1, <2>2
<1>10. OwnRows'
  <2> SUFFICES ASSUME NEW r \in Rows, dest[r] # "none", Asked(r)
               PROVE  /\ tries = 1 => r \notin result' \cup inflight' /\ Passed(r)'
                      /\ changes = 0 => OfPage(r)'
    BY <1>2 DEF OwnRows, Asked
  <2>1. /\ tries = 1 => r \notin result \cup inflight /\ Passed(r)
        /\ changes = 0 => OfPage(r)
    BY DEF OwnPages, OwnRows
  <2> QED
    BY <1>1, <1>2, <1>5, <2>1 DEF OfPage
<1> QED
  BY <1>2, <1>8, <1>9, <1>10 DEF OwnPages, NoConflict

(* A read that fails lets go of rows only when the page falls short.       *)
LEMMA ReadFailsOwn ==
  ASSUME IInv, Undisturbed, OwnPages, ReadFails
  PROVE  OwnPages'
<1> USE DEF sourceVars, syncVars
<1>1. /\ Pages' = Pages /\ input = "Rows" /\ input' = "NoRows" /\ result' = {}
      /\ flaws' \subseteq flaws \cup {"short"}
      /\ UNCHANGED <<table, changes, dest, token, tries, late, losses, lastRead,
                     inflight, rowsRead>>
  BY DEF ReadFails, Pages, Matching
<1>2. OnTheWay' /\ OwnRows' /\ NoConflict'
  BY <1>1 DEF OwnPages, OnTheWay, OwnRows, NoConflict, Asked, Passed, OfPage
<1>3. rowsRead < Limit \/ result = {}
  <2>1. IsFiniteSet(result) /\ Cardinality(result) \in Nat
    BY RowsAssumption, FS_Subset, FS_CardinalityType DEF IInv, TypeOK
  <2> QED
    BY <2>1, FS_EmptySet, SizesAssumption DEF IInv, PageInv, TypeOK
<1>4. PageIsRead'
  BY <1>1, <1>3 DEF OwnPages, PageIsRead, Passed
<1> QED
  BY <1>2, <1>4 DEF OwnPages

(* The end of the input changes nothing of the rows.                       *)
LEMMA ReadEndsOwn ==
  ASSUME IInv, Undisturbed, OwnPages, ReadEnds
  PROVE  OwnPages'
<1> USE DEF sourceVars, syncVars
<1>1. /\ Pages' = Pages /\ input \in {"Rows", "NoRows"} /\ input' = "Ended"
      /\ input = "Rows" => result = {}
      /\ UNCHANGED <<table, changes, dest, token, tries, late, losses, flaws,
                     lastRead, inflight, rowsRead, result>>
  BY DEF ReadEnds, Pages, Matching
<1>2. OnTheWay' /\ OwnRows' /\ NoConflict'
  BY <1>1 DEF OwnPages, OnTheWay, OwnRows, NoConflict, Asked, Passed, OfPage
<1>3. PageIsRead'
  BY <1>1 DEF OwnPages, PageIsRead, Passed
<1> QED
  BY <1>2, <1>3 DEF OwnPages

(* A batch runs into no row of an earlier page, nor, being a first         *)
(* attempt, of this one.                                                   *)
LEMMA WriteBatchOwn ==
  ASSUME IInv, Undisturbed, OwnPages, WriteBatch
  PROVE  OwnPages'
<1> USE DEF sourceVars, syncVars
<1>1. PICK batch \in (SUBSET inflight) \ {{}} :
         /\ inflight' = inflight \ batch
         /\ Accepted(batch, Mode(tries)) \/ Rejected(batch, Mode(tries))
  BY DEF WriteBatch
<1>2. /\ Pages' = Pages
      /\ UNCHANGED <<table, changes, token, tries, late, losses, input, result,
                     rowsRead, lastRead>>
  BY DEF WriteBatch, Pages, Matching
<1>3. batch \subseteq Rows /\ inflight \subseteq Rows /\ result \subseteq Rows
  BY DEF IInv, TypeOK
<1>4. ASSUME NEW r \in batch, NEW before, Clashes(r, Mode(tries), before)
      PROVE  table.driver = "mssql"
  <2>1. r \in Rows /\ dest[r] # "none" /\ r \in inflight /\ Asked(r)
    BY <1>3, <1>4 DEF Clashes, Conflicts, OwnPages, OnTheWay
  <2>2. tries # 1 /\ retried /\ tries > 1
    BY <2>1, SizesAssumption DEF OwnPages, OwnRows, IInv, SecondIsRetry, TypeOK
  <2>3. ~KeylessUpsert
    BY <2>2 DEF Undisturbed
  <2>4. Mode(tries) = "error" \/ (Mode(tries) = "upsert" /\ ~table.primary)
    BY <1>4 DEF Clashes
  <2>5. /\ table.driver \in {"postgres", "mysql", "mssql"}
        /\ table.driver = "mssql" => table.onConflict = "error"
    BY TableTyped DEF IInv, Table, Possible
  <2> QED
    BY <2>2, <2>3, <2>4, <2>5 DEF KeylessUpsert, Mode, ModeWhen, UpdateMode
<1>5. PICK rows \in SUBSET batch : dest' = Inserted(rows, Mode(tries))
  BY <1>1, WrittenOfBatch DEF IInv
<1>6. "conflict" \notin flaws'
  BY <1>1, <1>4 DEF Accepted, Rejected, OwnPages, NoConflict
<1>7. OnTheWay' /\ PageIsRead' /\ NoConflict'
  BY <1>1, <1>2, <1>6 DEF OwnPages, OnTheWay, PageIsRead, NoConflict, Asked, Passed,
                          OfPage
<1>8. OwnRows'
  <2> SUFFICES ASSUME NEW r \in Rows, dest'[r] # "none", Asked(r)
               PROVE  /\ tries = 1 => r \notin result \cup inflight' /\ Passed(r)
                      /\ changes = 0 => OfPage(r)
    BY <1>2 DEF OwnRows, Asked, Passed, OfPage
  <2>1. CASE r \in batch
    <3>1. Passed(r) /\ r \notin inflight' /\ (changes = 0 => OfPage(r))
      BY <1>1, <2>1 DEF OwnPages, OnTheWay
    <3>2. r \notin result
      BY <3>1 DEF OwnPages, OnTheWay, Passed
    <3> QED
      BY <3>1, <3>2
  <2>2. CASE r \notin batch
    <3>1. dest[r] # "none"
      BY <1>5, <2>2 DEF Inserted
    <3> QED
      BY <1>1, <3>1 DEF OwnPages, OwnRows
  <2> QED
    BY <2>1, <2>2
<1> QED
  BY <1>7, <1>8 DEF OwnPages

(* When a page is done none of the rows at the destination is asked for    *)
(* next.                                                                   *)
LEMMA PageDoneOwn ==
  ASSUME IInv, Undisturbed, OwnPages, PageDone
  PROVE  OwnPages'
<1> USE DEF sourceVars, syncVars, attemptVars
<1>1. /\ input = "Ended" /\ result = {} /\ NoConflict'
      /\ UNCHANGED <<table, source, changes, dest>>
  BY DEF PageDone, Fresh, IInv, PageInv, OwnPages, NoConflict
<1>2. CASE more = NoToken
  <2>1. UNCHANGED <<token, tries, attemptVars>> /\ Pages' = Pages
    BY <1>1, <1>2 DEF PageDone, Pages, Matching
  <2> QED
    BY <1>1, <2>1 DEF OwnPages, OnTheWay, PageIsRead, OwnRows, Asked, Passed, OfPage
<1>3. CASE more # NoToken
  <2>1. /\ token' = Decoded(more) /\ input' = "Closed" /\ result' = {}
        /\ inflight' = {} /\ lastRead' = NoToken
    BY <1>3 DEF PageDone, Fresh
  <2>2. more = lastRead /\ rowsRead >= Limit /\ lastRead # NoToken
    BY <1>3 DEF IInv, PageInv
  <2>3. PICK s \in Rows : lastRead = table.key[s]
    BY <2>2 DEF IInv, PageInv
  <2>4. token' = lastRead
    BY <2>1, <2>2, <2>3, TableTyped, DecodedSame DEF IInv, Undisturbed
  <2>5. ASSUME NEW r \in Rows, dest[r] # "none" PROVE ~After(table.key[r], lastRead)
    <3>1. CASE ~Asked(r)
      <4>1. token # NoToken /\ ~After(table.key[r], token) /\ After(lastRead, token)
        BY <2>2, <3>1 DEF Asked, OwnPages, OnTheWay
      <4>2. token \in Keys /\ lastRead \in Keys /\ table.key[r] \in Keys
        BY <2>3, <4>1, RowKey DEF IInv, TypeOK
      <4> QED
        BY <4>1, <4>2, AfterTransitive
    <3>2. CASE Asked(r) /\ tries = 1
      BY <2>5, <3>2 DEF OwnPages, OwnRows, Passed
    <3>3. CASE Asked(r) /\ tries # 1
      <4>1. changes = 0
        BY <3>3, SizesAssumption DEF IInv, SecondIsRetry, TypeOK, Undisturbed
      <4>2. PICK S \in Pages : \A q \in S :
               \/ q \in result \/ Passed(q)
               \/ rowsRead < Limit /\ input \in {"NoRows", "Ended"}
        BY <1>1, <4>1 DEF OwnPages, PageIsRead
      <4>3. r \in S
        BY <2>5, <3>3, <4>1 DEF OwnPages, OwnRows, OfPage
      <4> QED
        BY <1>1, <2>2, <4>2, <4>3, SizesAssumption DEF Passed, IInv, TypeOK
    <3> QED
      BY <3>1, <3>2, <3>3
  <2>6. OwnRows'
    BY <1>1, <2>2, <2>4, <2>5 DEF OwnRows, Asked
  <2> QED
    BY <1>1, <2>1, <2>6 DEF OwnPages, OnTheWay, PageIsRead
<1> QED
  BY <1>2, <1>3

(* A retry finds at the destination rows of the page it will read.         *)
LEMMA AttemptFailsOwn ==
  ASSUME IInv, Undisturbed, OwnPages, AttemptFails, Undisturbed'
  PROVE  OwnPages'
<1> USE DEF sourceVars, syncVars, attemptVars
<1>1. /\ Pages' = Pages /\ late' = late
      /\ UNCHANGED <<table, changes, dest, token, losses>>
  BY DEF AttemptFails, Undisturbed, Pages, Matching
<1>2. CASE tries < MaxAttempts
  <2>1. /\ input' = "Closed" /\ result' = {} /\ inflight' = {} /\ flaws' = {}
        /\ lastRead' = NoToken /\ tries' # 1
    BY <1>2, SizesAssumption DEF AttemptFails, Fresh, IInv, TypeOK
  <2>2. OwnRows'
    BY <1>1, <2>1 DEF OwnPages, OwnRows, Asked, OfPage
  <2> QED
    BY <1>1, <2>1, <2>2 DEF OwnPages, NoConflict, OnTheWay, PageIsRead
<1>3. CASE ~(tries < MaxAttempts)
  <2>1. UNCHANGED <<tries, attemptVars>>
    BY <1>3 DEF AttemptFails
  <2> QED
    BY <1>1, <2>1 DEF OwnPages, NoConflict, OnTheWay, PageIsRead, OwnRows, Asked,
                      Passed, OfPage
<1> QED
  BY <1>2, <1>3

(* Every step keeps the rows written within their pages.                   *)
LEMMA NextCInv == IInv /\ CInv /\ [Next]_vars => CInv'
<1> SUFFICES ASSUME IInv, CInv, [Next]_vars, Undisturbed' PROVE OwnPages'
  BY DEF CInv
<1>1. Undisturbed /\ OwnPages /\ table' = table
  BY UndisturbedBefore DEF IInv, CInv
<1> USE DEF sourceVars, syncVars, attemptVars
<1>2. CASE ChangeSource
  <2>1. /\ changes' # 0
        /\ UNCHANGED <<table, dest, token, tries, late, losses, attemptVars>>
    BY <1>2 DEF ChangeSource, IInv, TypeOK
  <2> QED
    BY <1>1, <2>1 DEF OwnPages, NoConflict, OnTheWay, PageIsRead, OwnRows, Asked,
                      Passed
<1>3. CASE Attempt
  <2>1. CASE WriteBreaksOff
    BY <2>1 DEF WriteBreaksOff, Undisturbed
  <2> QED
    BY <1>1, <1>3, <2>1, ConnectOwn, ReadRowOwn, ReadFailsOwn, ReadEndsOwn,
       WriteBatchOwn DEF Attempt
<1>4. CASE LateWrite
  BY <1>1, <1>4 DEF LateWrite, OwnPages, NoConflict
<1>5. CASE PageDone \/ AttemptFails
  BY <1>1, <1>5, PageDoneOwn, AttemptFailsOwn
<1>6. CASE Over \/ UNCHANGED vars
  <2>1. UNCHANGED vars
    BY <1>6 DEF Over
  <2> QED
    BY <1>1, <2>1 DEF vars, OwnPages, NoConflict, OnTheWay, PageIsRead, OwnRows,
                      Asked, Passed, OfPage, Pages, Matching
<1> QED
  BY <1>2, <1>3, <1>4, <1>5, <1>6 DEF Next

(* The sync runs into no row it has written itself: a conflict comes from  *)
(* rows left from before, an attempt that goes on after it was given up,   *)
(* a batch written again after its answer was lost, or a retry at a source *)
(* that has changed or without a key to update by (pooledInput's WHERE and *)
(* ORDER BY, pooledInsertOutput, the continuation token).                  *)
THEOREM ConflictsHaveCauseHolds == Spec => []ConflictsHaveCause
<1>1. Init => CInv
  BY InitCInv
<1>2. IInv /\ CInv /\ [Next]_vars => CInv'
  BY NextCInv
<1>3. IInv /\ CInv => ConflictsHaveCause
  <2> SUFFICES ASSUME CInv, Undisturbed PROVE "conflict" \notin flaws \cup losses
    BY DEF ConflictsHaveCause, Undisturbed, IInv, TypeOK
  <2> QED
    BY DEF CInv, OwnPages, NoConflict
<1> QED
  BY <1>1, <1>2, <1>3, IInvHolds, PTL DEF Spec
==============================================================================
