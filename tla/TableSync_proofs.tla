-------------------------- MODULE TableSync_proofs --------------------------
(***************************************************************************)
(* Proofs about TableSync, for any number of identity columns, pages,      *)
(* attempts, rows, requests and any size of block: no identity of a column *)
(* is ever given to two rows.                                              *)
(***************************************************************************)
EXTENDS TableSync, TLAPS

(* Every attempt's block is one it was granted, in its present call or an  *)
(* earlier one, and it chooses values from a block.                        *)
BlocksAreGranted ==
    \A a \in Attempts, t \in Tokens : block[a][t] # 0 =>
       \E g \in granted : /\ g.update.attempt = a
                          /\ g.update.token = t
                          /\ g.update.row <= row[a]
                          /\ g.start = block[a][t]

ChoosersHaveBlocks ==
    \A a \in Attempts : stage[a] = "Choosing" => block[a][call[a].token] # 0

(* Every identity comes from a block granted to the attempt that gave it   *)
(* out, at its call or before; the call is over.                           *)
FromGrantedBlock(i) ==
    \E g \in granted : /\ g.update.attempt = i.attempt
                       /\ g.update.token = i.token
                       /\ g.update.row <= i.row
                       /\ i.value \in Values(g.start)

IdentitiesAreGranted ==
    \A i \in issued : FromGrantedBlock(i) /\ i.row < row[i.attempt]

(* An identity of an attempt's present block is marked as used.            *)
UsedAreMarked ==
    \A i \in issued :
       /\ block[i.attempt][i.token] # 0
       /\ i.value \in Values(block[i.attempt][i.token])
       => i.value \in used[i.attempt][i.token]

IInv ==
    /\ TypeOK
    /\ BlocksApart
    /\ BlocksAreGranted
    /\ ChoosersHaveBlocks
    /\ IdentitiesAreGranted
    /\ UsedAreMarked
    /\ IdentitiesAreFresh
------------------------------------------------------------------------------
\* The invariant holds when the workflow starts.
LEMMA InitImpliesIInv == Init => IInv
  <1> SUFFICES ASSUME Init PROVE IInv
    OBVIOUS
  <1> USE DEF Init
  <1>1. TypeOK
    BY SizesAssumption DEF TypeOK, Attempts, Updates, Calls
  <1>2. BlocksApart /\ BlocksAreGranted /\ ChoosersHaveBlocks
    BY DEF BlocksApart, BlocksAreGranted, ChoosersHaveBlocks
  <1>3. IdentitiesAreGranted /\ UsedAreMarked /\ IdentitiesAreFresh
    BY DEF IdentitiesAreGranted, UsedAreMarked, IdentitiesAreFresh
  <1> QED BY <1>1, <1>2, <1>3 DEF IInv
------------------------------------------------------------------------------
\* The attempt in hand is one of the attempts.
LEMMA CurrentIsAnAttempt ==
    TypeOK /\ pc = "Activity" => Current \in Attempts
  BY SizesAssumption DEF TypeOK, Current, Attempts

\* An update asked for is an update.
LEMMA AskedUpdates ==
    ASSUME TypeOK, NEW a \in Attempts,
           NEW c \in [token : Tokens, input : Inputs, again : BOOLEAN],
           AskForBlock(a, c)
    PROVE  updates' \subseteq Updates
  <1> DEFINE u == [attempt |-> a, token |-> c.token, row |-> row[a],
                   again |-> c.again]
  <1>1. u \in Updates
    BY DEF TypeOK, Updates
  <1>2. updates' = updates \cup {u}
    BY DEF AskForBlock
  <1> QED BY <1>1, <1>2 DEF TypeOK

\* Every step keeps the state well formed.
LEMMA TypeStep == TypeOK /\ [Next]_vars => TypeOK'
  <1> SUFFICES ASSUME TypeOK, [Next]_vars PROVE TypeOK'
    OBVIOUS
  <1> USE SizesAssumption DEF workflowVars, cursorVars, attemptVars
  <1>1. CASE StartAttempt
    BY <1>1, CurrentIsAnAttempt DEF StartAttempt, TypeOK
  <1>2. CASE AttemptFails
    BY <1>2 DEF AttemptFails, TypeOK
  <1>3. CASE Complete
    BY <1>3 DEF Complete, TypeOK
  <1>4. CASE ContinueAsNew
    BY <1>4 DEF ContinueAsNew, TypeOK
  <1>5. ASSUME NEW u \in updates, AcceptUpdate(u) PROVE TypeOK'
    BY <1>5 DEF AcceptUpdate, TypeOK
  <1>6. ASSUME NEW u \in handlers, AllocateBlock(u) PROVE TypeOK'
    <2>1. StartValue(u.token) \in Nat \ {0} /\ u \in Updates
      BY <1>6 DEF TypeOK, Updates, StartValue
    <2>2. [update |-> u, start |-> StartValue(u.token)] \in
            [update : Updates, start : Nat \ {0}]
      BY <2>1
    <2>3. granted' \subseteq [update : Updates, start : Nat \ {0}]
      BY <1>6, <2>2 DEF AllocateBlock, TypeOK
    <2>4. cursors' \in [Tokens -> Nat]
      BY <1>6, <2>1 DEF AllocateBlock, TypeOK, Updates
    <2> QED BY <1>6, <2>3, <2>4 DEF AllocateBlock, TypeOK
  <1>7. ASSUME NEW a \in Attempts, NEW t \in Tokens, NEW v \in Inputs,
               GetIdentity(a, t, v)
        PROVE TypeOK'
    <2> DEFINE c == [token |-> t, input |-> v, again |-> FALSE]
    <2>1. c \in [token : Tokens, input : Inputs, again : BOOLEAN]
      OBVIOUS
    <2>2. CASE AskForBlock(a, c)
      <3>1. updates' \subseteq Updates
        BY <2>1, <2>2, AskedUpdates
      <3> HIDE DEF c
      <3> QED BY <1>7, <2>1, <2>2, <3>1
              DEF GetIdentity, AskForBlock, TypeOK, Calls
    <2>3. CASE /\ call' = [call EXCEPT ![a] = c]
               /\ stage' = [stage EXCEPT ![a] = "Choosing"]
               /\ UNCHANGED updates
      <3> HIDE DEF c
      <3> QED BY <1>7, <2>1, <2>3 DEF GetIdentity, TypeOK, Calls
    <2> QED BY <1>7, <2>2, <2>3 DEF GetIdentity
  <1>8. ASSUME NEW a \in Attempts, ReceiveBlock(a) PROVE TypeOK'
    BY <1>8 DEF ReceiveBlock, TypeOK
  <1>9. ASSUME NEW a \in Attempts, GiveUp(a) PROVE TypeOK'
    BY <1>9 DEF GiveUp, EndCall, TypeOK, Calls
  <1>10. ASSUME NEW a \in Attempts, FindValue(a) PROVE TypeOK'
    <2>1. PICK v \in Candidates(a, call[a].token, call[a].input) :
            /\ used' = [used EXCEPT ![a][call[a].token] = @ \cup {v}]
            /\ issued' = issued \cup
                 {[attempt |-> a, token |-> call[a].token, row |-> row[a],
                   input |-> call[a].input, value |-> v]}
      BY <1>10 DEF FindValue
    <2>2. call[a].token \in Tokens /\ call[a].input \in Inputs
      BY <1>10 DEF FindValue, TypeOK
    <2>3. v \in Nat
      BY <2>2 DEF Candidates, Values, TypeOK
    <2>4. issued' \subseteq [attempt : Attempts, token : Tokens, row : Nat,
                            input : Inputs, value : Nat]
      BY <2>1, <2>2, <2>3 DEF TypeOK
    <2>5. used' \in [Attempts -> [Tokens -> SUBSET Nat]]
      BY <2>1, <2>2, <2>3 DEF TypeOK
    <2> QED BY <1>10, <2>4, <2>5 DEF FindValue, EndCall, TypeOK, Calls
  <1>11. ASSUME NEW a \in Attempts, MissValue(a) PROVE TypeOK'
    <2> DEFINE c == [call[a] EXCEPT !.again = TRUE]
    <2>1. c \in [token : Tokens, input : Inputs, again : BOOLEAN]
      BY <1>11 DEF MissValue, TypeOK
    <2>2. CASE AskForBlock(a, c) /\ UNCHANGED row
      <3>1. updates' \subseteq Updates
        BY <2>1, <2>2, AskedUpdates
      <3> HIDE DEF c
      <3> QED BY <1>11, <2>1, <2>2, <3>1
              DEF MissValue, AskForBlock, TypeOK, Calls
    <2>3. CASE EndCall(a) /\ UNCHANGED updates
      BY <1>11, <2>3 DEF MissValue, EndCall, TypeOK, Calls
    <2> QED BY <1>11, <2>2, <2>3 DEF MissValue
  <1>12. ASSUME NEW a \in Attempts, AttemptCompletes(a) PROVE TypeOK'
    BY <1>12 DEF AttemptCompletes, TypeOK
  <1>13. CASE UNCHANGED vars
    BY <1>13 DEF vars, TypeOK, Update
  <1>14. CASE Cancel
    BY <1>14 DEF Cancel, TypeOK
  <1> QED
    BY <1>1, <1>2, <1>3, <1>4, <1>5, <1>6, <1>7, <1>8, <1>9, <1>10, <1>11,
       <1>12, <1>13, <1>14
    DEF Next, Workflow, Network, Attempt, Done
------------------------------------------------------------------------------
(* Steps that hand out no block and no identity.                           *)
LEMMA QuietStep ==
    ASSUME IInv, TypeOK',
           UNCHANGED <<cursors, granted, block, used, issued>>,
           \A a \in Attempts : row'[a] >= row[a],
           \A a \in Attempts : stage'[a] = "Choosing" =>
                               block[a][call'[a].token] # 0
    PROVE  IInv'
  <1>1. BlocksApart'
    BY DEF IInv, BlocksApart
  <1>2. BlocksAreGranted'
    <2> SUFFICES ASSUME NEW a \in Attempts, NEW t \in Tokens, block[a][t] # 0
                 PROVE  \E g \in granted : /\ g.update.attempt = a
                                           /\ g.update.token = t
                                           /\ g.update.row <= row'[a]
                                           /\ g.start = block[a][t]
      BY DEF BlocksAreGranted
    <2>1. PICK g \in granted : /\ g.update.attempt = a
                               /\ g.update.token = t
                               /\ g.update.row <= row[a]
                               /\ g.start = block[a][t]
      BY DEF IInv, BlocksAreGranted
    <2>2. g.update.row \in Nat /\ row[a] \in Nat /\ row'[a] \in Nat
      BY DEF IInv, TypeOK, Updates
    <2> QED BY <2>1, <2>2
  <1>3. ChoosersHaveBlocks'
    BY DEF ChoosersHaveBlocks
  <1>4. IdentitiesAreGranted'
    <2> SUFFICES ASSUME NEW i \in issued
                 PROVE  FromGrantedBlock(i)' /\ i.row < row'[i.attempt]
      BY DEF IdentitiesAreGranted
    <2>1. FromGrantedBlock(i) /\ i.row < row[i.attempt]
      BY DEF IInv, IdentitiesAreGranted
    <2>2. FromGrantedBlock(i)'
      BY <2>1 DEF FromGrantedBlock
    <2>3. i.attempt \in Attempts /\ i.row \in Nat
      BY DEF IInv, TypeOK
    <2>4. row[i.attempt] \in Nat /\ row'[i.attempt] \in Nat
      BY <2>3 DEF IInv, TypeOK
    <2> QED BY <2>1, <2>2, <2>3, <2>4
  <1>5. UsedAreMarked'
    BY DEF IInv, UsedAreMarked
  <1>6. IdentitiesAreFresh'
    BY DEF IInv, IdentitiesAreFresh
  <1> QED BY <1>1, <1>2, <1>3, <1>4, <1>5, <1>6 DEF IInv

(* The handler's block starts where the blocks handed out before end.      *)
LEMMA AllocateKeepsIInv ==
    ASSUME IInv, TypeOK', NEW u \in handlers, AllocateBlock(u)
    PROVE  IInv'
  <1> DEFINE n == [update |-> u, start |-> StartValue(u.token)]
  <1>1. /\ granted' = granted \cup {n}
        /\ cursors' = [cursors EXCEPT ![u.token] =
                          StartValue(u.token) + BlockSize]
        /\ UNCHANGED <<stage, home, row, call, block, used, issued>>
    BY DEF AllocateBlock, attemptVars
  <1>2. u \in Updates /\ u.token \in Tokens /\ BlockSize \in Nat \ {0}
    BY SizesAssumption DEF IInv, TypeOK, Updates
  <1>3. StartValue(u.token) \in Nat
    BY <1>2 DEF IInv, TypeOK, StartValue
  <1>4. BlocksApart'
    <2>1. ASSUME NEW g \in granted
          PROVE  /\ g.start + BlockSize <= cursors'[g.update.token]
                 /\ g.update.token = u.token => g.start + BlockSize <= n.start
      <3>1. g.start \in Nat \ {0} /\ g.update.token \in Tokens
        BY DEF IInv, TypeOK, Updates
      <3>2. g.start + BlockSize <= cursors[g.update.token]
            /\ cursors[g.update.token] \in Nat
        BY <3>1 DEF IInv, BlocksApart, TypeOK
      <3>3. CASE g.update.token = u.token
        <4>1. StartValue(u.token) = cursors[u.token]
          BY <3>1, <3>2, <3>3, <1>2 DEF StartValue
        <4> QED BY <1>1, <1>2, <1>3, <3>1, <3>2, <3>3, <4>1 DEF IInv, TypeOK
      <3>4. CASE g.update.token # u.token
        BY <1>1, <3>1, <3>2, <3>4 DEF IInv, TypeOK
      <3> QED BY <3>3, <3>4
    <2>2. n.start + BlockSize <= cursors'[n.update.token]
      BY <1>1, <1>2, <1>3 DEF IInv, TypeOK
    <2>3. \A g, h \in granted : g # h /\ g.update.token = h.update.token =>
             g.start + BlockSize <= h.start \/ h.start + BlockSize <= g.start
      BY DEF IInv, BlocksApart
    <2> QED BY <1>1, <2>1, <2>2, <2>3 DEF BlocksApart
  <1>5. BlocksAreGranted' /\ ChoosersHaveBlocks'
    BY <1>1 DEF IInv, BlocksAreGranted, ChoosersHaveBlocks
  <1>6. IdentitiesAreGranted'
    BY <1>1 DEF IInv, IdentitiesAreGranted, FromGrantedBlock
  <1>7. UsedAreMarked' /\ IdentitiesAreFresh'
    BY <1>1 DEF IInv, UsedAreMarked, IdentitiesAreFresh
  <1> QED BY <1>4, <1>5, <1>6, <1>7 DEF IInv

(* Two granted blocks of a column that share a value are the same.         *)
LEMMA SharedValueSameBlock ==
    ASSUME TypeOK, BlocksApart, NEW g \in granted, NEW h \in granted,
           g.update.token = h.update.token, NEW v,
           v \in Values(g.start), v \in Values(h.start)
    PROVE  g = h
  <1>1. g.start \in Nat /\ h.start \in Nat /\ BlockSize \in Nat \ {0}
    BY SizesAssumption DEF TypeOK
  <1>2. ~ (g.start + BlockSize <= h.start \/ h.start + BlockSize <= g.start)
    BY <1>1 DEF Values
  <1> QED BY <1>2 DEF BlocksApart

(* A block that arrives is none the attempt has taken identities from.     *)
LEMMA ReceiveKeepsIInv ==
    ASSUME IInv, TypeOK', NEW a \in Attempts, ReceiveBlock(a)
    PROVE  IInv'
  <1> DEFINE t == call[a].token
  <1>1. PICK g \in granted :
          /\ g.update = Update(a)
          /\ block' = [block EXCEPT ![a][t] = g.start]
    BY DEF ReceiveBlock
  <1>2. /\ used' = [used EXCEPT ![a][t] = {}]
        /\ stage' = [stage EXCEPT ![a] = "Choosing"]
        /\ UNCHANGED <<cursors, granted, row, call, issued>>
    BY DEF ReceiveBlock, cursorVars
  <1>3. t \in Tokens
    BY DEF IInv, TypeOK, ReceiveBlock
  <1>4. /\ g.update.attempt = a /\ g.update.token = t
        /\ g.update.row = row[a] /\ g.start # 0
    BY <1>1 DEF Update, IInv, TypeOK
  <1> HIDE DEF t
  <1>5. /\ block'[a][t] = g.start
        /\ \A b \in Attempts, s \in Tokens : b # a \/ s # t =>
              block'[b][s] = block[b][s] /\ used'[b][s] = used[b][s]
    BY <1>1, <1>2, <1>3 DEF IInv, TypeOK
  <1>6. BlocksApart'
    BY <1>2 DEF IInv, BlocksApart
  <1>7. BlocksAreGranted'
    <2>1. row[a] <= row[a]
      BY DEF IInv, TypeOK
    <2> QED BY <1>1, <1>2, <1>3, <1>4, <1>5, <2>1 DEF IInv, BlocksAreGranted
  <1>8. ChoosersHaveBlocks'
    <2>1. ASSUME NEW b \in Attempts, stage'[b] = "Choosing"
          PROVE  block'[b][call'[b].token] # 0
      <3>1. CASE b = a
        BY <1>2, <1>4, <1>5, <3>1 DEF t
      <3>2. CASE b # a
        <4>1. stage[b] = "Choosing" /\ call'[b] = call[b]
          BY <1>2, <2>1, <3>2 DEF IInv, TypeOK
        <4>2. call[b].token \in Tokens
          BY <4>1 DEF IInv, TypeOK
        <4> QED BY <1>5, <3>2, <4>1, <4>2 DEF IInv, ChoosersHaveBlocks
      <3> QED BY <3>1, <3>2
    <2> QED BY <2>1 DEF ChoosersHaveBlocks
  <1>9. IdentitiesAreGranted'
    BY <1>2 DEF IInv, IdentitiesAreGranted, FromGrantedBlock
  <1>10. UsedAreMarked'
    <2> SUFFICES ASSUME NEW i \in issued, block'[i.attempt][i.token] # 0,
                        i.value \in Values(block'[i.attempt][i.token])
                 PROVE  i.value \in used'[i.attempt][i.token]
      BY <1>2 DEF UsedAreMarked
    <2>1. i.attempt \in Attempts /\ i.token \in Tokens /\ i.row \in Nat
      BY DEF IInv, TypeOK
    <2>2. CASE i.attempt = a /\ i.token = t
      <3>1. PICK h \in granted : /\ h.update.attempt = a
                                 /\ h.update.token = t
                                 /\ h.update.row <= i.row
                                 /\ i.value \in Values(h.start)
        BY <2>2 DEF IInv, IdentitiesAreGranted, FromGrantedBlock
      <3>2. g = h
        BY <1>4, <1>5, <2>2, <3>1, SharedValueSameBlock DEF IInv
      <3>3. i.row < row[a] /\ row[a] \in Nat
        BY <2>2 DEF IInv, IdentitiesAreGranted, TypeOK
      <3> QED BY <1>4, <2>1, <3>1, <3>2, <3>3
    <2>3. CASE i.attempt # a \/ i.token # t
      BY <1>5, <2>1, <2>3 DEF IInv, UsedAreMarked
    <2> QED BY <2>2, <2>3
  <1>11. IdentitiesAreFresh'
    BY <1>2 DEF IInv, IdentitiesAreFresh
  <1> QED BY <1>6, <1>7, <1>8, <1>9, <1>10, <1>11 DEF IInv

(* A value chosen from the attempt's block was not used of it, so no       *)
(* attempt has given it out.                                               *)
LEMMA FindKeepsIInv ==
    ASSUME IInv, TypeOK', NEW a \in Attempts, FindValue(a)
    PROVE  IInv'
  <1> DEFINE t == call[a].token
  <1>1. PICK v \in Candidates(a, t, call[a].input) :
          /\ used' = [used EXCEPT ![a][t] = @ \cup {v}]
          /\ issued' = issued \cup
               {[attempt |-> a, token |-> t, row |-> row[a],
                 input |-> call[a].input, value |-> v]}
    BY DEF FindValue
  <1> DEFINE n == [attempt |-> a, token |-> t, row |-> row[a],
                   input |-> call[a].input, value |-> v]
  <1>2. /\ stage' = [stage EXCEPT ![a] = "Working"]
        /\ row' = [row EXCEPT ![a] = @ + 1]
        /\ call' = [call EXCEPT ![a] = NoCall]
        /\ UNCHANGED <<cursors, granted, block>>
    BY DEF FindValue, EndCall, cursorVars
  <1>3. t \in Tokens
    BY DEF IInv, TypeOK, FindValue
  <1>4. /\ v \in Values(block[a][t]) /\ v \notin used[a][t]
        /\ v # call[a].input /\ block[a][t] # 0
    BY DEF Candidates, IInv, ChoosersHaveBlocks, FindValue
  <1> HIDE DEF t
  <1>5. PICK g \in granted : /\ g.update.attempt = a
                             /\ g.update.token = t
                             /\ g.update.row <= row[a]
                             /\ g.start = block[a][t]
    BY <1>3, <1>4 DEF IInv, BlocksAreGranted
  <1>6. row[a] \in Nat /\ \A b \in Attempts : row[b] \in Nat /\ row'[b] >= row[b]
    BY <1>2 DEF IInv, TypeOK
  <1>7. BlocksApart'
    BY <1>2 DEF IInv, BlocksApart
  <1>8. BlocksAreGranted'
    <2> SUFFICES ASSUME NEW b \in Attempts, NEW s \in Tokens, block[b][s] # 0
                 PROVE  \E h \in granted : /\ h.update.attempt = b
                                           /\ h.update.token = s
                                           /\ h.update.row <= row'[b]
                                           /\ h.start = block[b][s]
      BY <1>2 DEF BlocksAreGranted
    <2>1. PICK h \in granted : /\ h.update.attempt = b
                               /\ h.update.token = s
                               /\ h.update.row <= row[b]
                               /\ h.start = block[b][s]
      BY DEF IInv, BlocksAreGranted
    <2>2. h.update.row \in Nat /\ row'[b] \in Nat
      BY DEF IInv, TypeOK, Updates
    <2> QED BY <1>6, <2>1, <2>2
  <1>9. ChoosersHaveBlocks'
    BY <1>2 DEF IInv, ChoosersHaveBlocks, TypeOK
  <1>10. IdentitiesAreGranted'
    <2>1. FromGrantedBlock(n)
      BY <1>4, <1>5 DEF FromGrantedBlock
    <2>2. n.row < row'[n.attempt]
      BY <1>2, <1>6 DEF IInv, TypeOK
    <2>3. ASSUME NEW i \in issued
          PROVE  FromGrantedBlock(i) /\ i.row < row'[i.attempt]
      <3>1. FromGrantedBlock(i) /\ i.row < row[i.attempt]
        BY DEF IInv, IdentitiesAreGranted
      <3>2. i.attempt \in Attempts /\ i.row \in Nat
        BY DEF IInv, TypeOK
      <3>3. row[i.attempt] \in Nat /\ row'[i.attempt] \in Nat
            /\ row'[i.attempt] >= row[i.attempt]
        BY <1>6, <3>2 DEF TypeOK
      <3> QED BY <3>1, <3>2, <3>3
    <2>4. \A i \in issued' : FromGrantedBlock(i) /\ i.row < row'[i.attempt]
      BY <1>1, <2>1, <2>2, <2>3
    <2> QED BY <1>2, <2>4 DEF IdentitiesAreGranted, FromGrantedBlock
  <1>11. UsedAreMarked'
    <2> SUFFICES ASSUME NEW i \in issued', block[i.attempt][i.token] # 0,
                        i.value \in Values(block[i.attempt][i.token])
                 PROVE  i.value \in used'[i.attempt][i.token]
      BY <1>2 DEF UsedAreMarked
    <2>1. CASE i = n
      BY <1>1, <1>3, <2>1 DEF IInv, TypeOK
    <2>2. CASE i \in issued
      <3>1. i.attempt \in Attempts /\ i.token \in Tokens
        BY <2>2 DEF IInv, TypeOK
      <3>2. i.value \in used[i.attempt][i.token]
        BY <2>2 DEF IInv, UsedAreMarked
      <3> QED BY <1>1, <1>3, <3>1, <3>2 DEF IInv, TypeOK
    <2> QED BY <1>1, <2>1, <2>2
  <1>12. IdentitiesAreFresh'
    <2>1. v # 0
      <3>1. g.start \in Nat \ {0} /\ BlockSize \in Nat \ {0}
        BY SizesAssumption DEF IInv, TypeOK
      <3> QED BY <1>4, <1>5, <3>1 DEF Values
    <2>2. ASSUME NEW i \in issued PROVE ~(i.token = t /\ i.value = v)
      <3> SUFFICES ASSUME i.token = t, i.value = v PROVE FALSE
        OBVIOUS
      <3>1. PICK h \in granted : /\ h.update.attempt = i.attempt
                                 /\ h.update.token = t
                                 /\ v \in Values(h.start)
        BY DEF IInv, IdentitiesAreGranted, FromGrantedBlock
      <3>2. h = g
        BY <1>4, <1>5, <3>1, SharedValueSameBlock DEF IInv
      <3>3. i.attempt = a
        BY <1>5, <3>1, <3>2
      <3>4. v \in used[a][t]
        BY <1>4, <3>3 DEF IInv, UsedAreMarked
      <3> QED BY <1>4, <3>4
    <2>3. \A i, j \in issued : i.token = j.token /\ i.value = j.value => i = j
      BY DEF IInv, IdentitiesAreFresh
    <2>4. \A i \in issued : i.value \notin {0, i.input}
      BY DEF IInv, IdentitiesAreFresh
    <2>5. n.value \notin {0, n.input}
      BY <1>4, <2>1
    <2>6. n.token = t /\ n.value = v
      OBVIOUS
    <2> HIDE DEF n
    <2>7. issued' = issued \cup {n}
      BY <1>1 DEF n
    <2> QED BY <2>2, <2>3, <2>4, <2>5, <2>6, <2>7 DEF IdentitiesAreFresh
  <1> QED BY <1>7, <1>8, <1>9, <1>10, <1>11, <1>12 DEF IInv

\* Every step keeps the invariant.
LEMMA StepKeepsIInv == IInv /\ [Next]_vars => IInv'
  <1> SUFFICES ASSUME IInv, [Next]_vars PROVE IInv'
    OBVIOUS
  <1>1. TypeOK'
    BY TypeStep DEF IInv
  <1>2. \A a \in Attempts : row[a] \in Nat /\ row[a] + 1 >= row[a]
                            /\ row[a] >= row[a]
    BY DEF IInv, TypeOK
  <1>3. \A a \in Attempts : stage[a] = "Choosing" => block[a][call[a].token] # 0
    BY DEF IInv, ChoosersHaveBlocks
  <1> USE DEF workflowVars, cursorVars, attemptVars
  <1>4. CASE \/ AttemptFails \/ Cancel \/ Complete \/ ContinueAsNew \/ UNCHANGED vars
            \/ \E u \in updates : AcceptUpdate(u)
    <2>1. UNCHANGED <<cursors, granted, block, used, issued, row, stage, call>>
      BY <1>4 DEF AttemptFails, Cancel, Complete, ContinueAsNew,
                  AcceptUpdate, vars
    <2> QED BY <1>1, <1>2, <1>3, <2>1, QuietStep
  <1>5. CASE StartAttempt
    <2>1. Current \in Attempts
      BY <1>5, CurrentIsAnAttempt DEF IInv, StartAttempt
    <2>2. \A a \in Attempts : stage'[a] = "Choosing" => stage[a] = "Choosing"
      BY <1>5, <2>1 DEF StartAttempt, IInv, TypeOK
    <2>3. UNCHANGED <<cursors, granted, block, used, issued, row, call>>
      BY <1>5 DEF StartAttempt
    <2> QED BY <1>1, <1>2, <1>3, <2>2, <2>3, QuietStep
  <1>6. ASSUME NEW u \in handlers, AllocateBlock(u) PROVE IInv'
    BY <1>1, <1>6, AllocateKeepsIInv
  <1>7. ASSUME NEW a \in Attempts, NEW t \in Tokens, NEW v \in Inputs,
               GetIdentity(a, t, v)
        PROVE  IInv'
    <2> DEFINE c == [token |-> t, input |-> v, again |-> FALSE]
    <2>1. /\ call' = [call EXCEPT ![a] = c]
          /\ UNCHANGED <<cursors, granted, block, used, issued, row>>
      BY <1>7 DEF GetIdentity, AskForBlock
    <2>2. \/ stage' = [stage EXCEPT ![a] = "Waiting"]
          \/ stage' = [stage EXCEPT ![a] = "Choosing"] /\ block[a][t] # 0
      BY <1>7 DEF GetIdentity, AskForBlock, NeedsBlock
    <2>3. \A b \in Attempts : stage'[b] = "Choosing" =>
                               block[b][call'[b].token] # 0
      BY <1>3, <2>1, <2>2 DEF IInv, TypeOK
    <2> QED BY <1>1, <1>2, <2>1, <2>3, QuietStep
  <1>8. ASSUME NEW a \in Attempts, ReceiveBlock(a) PROVE IInv'
    BY <1>1, <1>8, ReceiveKeepsIInv
  <1>9. ASSUME NEW a \in Attempts, EndCall(a),
               UNCHANGED <<cursors, granted, block, used, issued>>
        PROVE  IInv'
    <2>1. \A b \in Attempts : row'[b] >= row[b]
      BY <1>2, <1>9 DEF EndCall, IInv, TypeOK
    <2>2. \A b \in Attempts : stage'[b] = "Choosing" =>
                               block[b][call'[b].token] # 0
      BY <1>3, <1>9 DEF EndCall, IInv, TypeOK
    <2> QED BY <1>1, <1>9, <2>1, <2>2, QuietStep
  <1>10. ASSUME NEW a \in Attempts, GiveUp(a) PROVE IInv'
    BY <1>9, <1>10 DEF GiveUp
  <1>11. ASSUME NEW a \in Attempts, FindValue(a) PROVE IInv'
    BY <1>1, <1>11, FindKeepsIInv
  <1>12. ASSUME NEW a \in Attempts, MissValue(a) PROVE IInv'
    <2>1. CASE AskForBlock(a, [call[a] EXCEPT !.again = TRUE]) /\ UNCHANGED row
      <3>1. \A b \in Attempts : stage'[b] = "Choosing" =>
                                 block[b][call'[b].token] # 0
        BY <1>3, <2>1 DEF AskForBlock, IInv, TypeOK
      <3>2. UNCHANGED <<cursors, granted, block, used, issued, row>>
        BY <1>12, <2>1 DEF MissValue
      <3> QED BY <1>1, <1>2, <3>1, <3>2, QuietStep
    <2>2. CASE EndCall(a)
      BY <1>9, <1>12, <2>2 DEF MissValue
    <2> QED BY <1>12, <2>1, <2>2 DEF MissValue
  <1>13. ASSUME NEW a \in Attempts, AttemptCompletes(a) PROVE IInv'
    <2>1. \A b \in Attempts : stage'[b] = "Choosing" => stage[b] = "Choosing"
      BY <1>13 DEF AttemptCompletes, IInv, TypeOK
    <2>2. UNCHANGED <<cursors, granted, block, used, issued, row, call>>
      BY <1>13 DEF AttemptCompletes
    <2> QED BY <1>1, <1>2, <1>3, <2>1, <2>2, QuietStep
  <1> QED
    BY <1>4, <1>5, <1>6, <1>7, <1>8, <1>10, <1>11, <1>12, <1>13
    DEF Next, Workflow, Network, Attempt, Done

\* The inductive invariant holds of every reachable state, for every value of
\* the constants.
THEOREM IInvHolds == Spec => []IInv
  BY InitImpliesIInv, StepKeepsIInv, PTL DEF Spec
------------------------------------------------------------------------------
(* Every variable keeps its type.                                          *)
THEOREM TypeCorrect == Spec => []TypeOK
  BY IInvHolds, PTL DEF IInv

(* The allocator's promise: two rows never get the same identity of a      *)
(* column, whatever attempts, retries, restarts and runs there are, and no *)
(* row gets 0 or its own value back.                                       *)
THEOREM IdentitiesAreFreshHolds == Spec => []IdentitiesAreFresh
  BY IInvHolds, PTL DEF IInv

(* The blocks the update handler hands out never overlap and end before    *)
(* the cursor that the next run is given.                                  *)
THEOREM BlocksApartHolds == Spec => []BlocksApart
  BY IInvHolds, PTL DEF IInv

(* No step moves a cursor back, continuing as new included.                *)
THEOREM CursorsNeverMoveBackHolds == Spec => CursorsNeverMoveBack
  <1>1. ASSUME TypeOK, [Next]_vars, NEW t \in Tokens
        PROVE  cursors'[t] >= cursors[t]
    <2>1. cursors[t] \in Nat
      BY <1>1 DEF TypeOK
    <2>2. CASE UNCHANGED cursors
      BY <2>1, <2>2
    <2>3. ASSUME NEW u \in handlers, AllocateBlock(u)
          PROVE  cursors'[t] >= cursors[t]
      <3>1. u.token \in Tokens
        BY <1>1 DEF TypeOK, Updates
      <3>2. cursors[u.token] \in Nat
        BY <1>1, <3>1 DEF TypeOK
      <3> QED BY <1>1, <2>1, <2>3, <3>1, <3>2, SizesAssumption
              DEF AllocateBlock, StartValue, TypeOK
    <2> QED
      BY <1>1, <2>2, <2>3
      DEF Next, Workflow, Network, Attempt, Done, StartAttempt, AttemptFails,
          Cancel, Complete, ContinueAsNew, AcceptUpdate, GetIdentity, ReceiveBlock,
          GiveUp, FindValue, MissValue, AttemptCompletes, vars, cursorVars
  <1>2. TypeOK /\ [Next]_vars => [\A t \in Tokens : cursors'[t] >= cursors[t]]_vars
    BY <1>1
  <1> QED BY <1>2, TypeCorrect, PTL DEF Spec, CursorsNeverMoveBack
------------------------------------------------------------------------------
(* An attempt that has asked for a block has begun.                        *)
AskersHaveBegun == \A u \in updates \cup handlers : stage[u.attempt] # "Unused"

(* What a run has done of its share when it ends.                          *)
ShareDone == pc \in {"Draining", "Completed"} /\ page > Pages =>
                page = Pages + 1 /\ Pages <= run * MaxIterations

Progress == /\ AskersHaveBegun
            /\ DrainedBeforeClosing
            /\ ShareDone
            /\ PagesFollowEachOther

\* An attempt's steps leave the workflow, its handlers and its homes alone, and
\* it asks only once it has begun.
LEMMA AttemptStep ==
    ASSUME TypeOK, Progress, NEW a \in Attempts, stage[a] # "Unused",
           UNCHANGED <<workflowVars, handlers, home>>,
           \A b \in Attempts : stage'[b] = "Unused" => stage[b] = "Unused" /\ b # a,
           \A u \in updates' \ updates : u.attempt = a
    PROVE  Progress'
  <1>1. \A u \in updates \cup handlers : u.attempt \in Attempts
    BY DEF TypeOK, Updates
  <1>2. AskersHaveBegun'
    BY <1>1 DEF Progress, AskersHaveBegun
  <1> QED
    BY <1>2 DEF Progress, DrainedBeforeClosing, RunIsOpen, ShareDone,
                PagesFollowEachOther, workflowVars

\* Every step keeps count of the pages, and no run leaves a handler behind.
LEMMA StepKeepsProgress == TypeOK /\ Progress /\ [Next]_vars => Progress'
  <1> SUFFICES ASSUME TypeOK, Progress, [Next]_vars PROVE Progress'
    OBVIOUS
  <1> USE DEF workflowVars, cursorVars, attemptVars
  <1>1. \A u \in updates \cup handlers : u.attempt \in Attempts
    BY DEF TypeOK, Updates
  <1>2. /\ run \in Nat \ {0} /\ page \in Nat /\ iterations \in 1..MaxIterations
        /\ Pages \in Nat /\ MaxIterations \in Nat \ {0} /\ page <= Pages + 1
    BY SizesAssumption DEF TypeOK
  <1>3. (run - 1) * MaxIterations + MaxIterations = run * MaxIterations
    BY <1>2
  <1>4. ((run + 1) - 1) * MaxIterations = run * MaxIterations
    BY <1>2
  <1>5. CASE StartAttempt
    <2>1. Current \in Attempts
      BY <1>5, CurrentIsAnAttempt DEF StartAttempt
    <2>2. \A u \in updates \cup handlers : u.attempt # Current
      BY <1>5 DEF StartAttempt, Progress, AskersHaveBegun
    <2>3. \A u \in updates \cup handlers : /\ stage'[u.attempt] = stage[u.attempt]
                                          /\ home'[u.attempt] = home[u.attempt]
      BY <1>1, <1>5, <2>1, <2>2 DEF StartAttempt, TypeOK
    <2> QED
      BY <1>5, <2>3 DEF StartAttempt, Progress, AskersHaveBegun, RunIsOpen,
         DrainedBeforeClosing, ShareDone, PagesFollowEachOther
  <1>6. CASE AttemptFails \/ Cancel \/ UNCHANGED vars
    BY <1>6 DEF AttemptFails, Cancel, vars, Progress, AskersHaveBegun, RunIsOpen,
       DrainedBeforeClosing, ShareDone, PagesFollowEachOther
  <1>7. CASE Complete
    <2>1. pc = "Draining" /\ page > Pages /\ handlers = {} /\ pc' = "Completed"
      BY <1>7 DEF Complete
    <2>2. page = Pages + 1 /\ Pages <= run * MaxIterations
      BY <2>1 DEF Progress, ShareDone
    <2> QED
      BY <1>7, <2>1, <2>2 DEF Complete, Progress, AskersHaveBegun,
         DrainedBeforeClosing, ShareDone, PagesFollowEachOther
  <1>8. CASE ContinueAsNew
    <2>1. page = run * MaxIterations + 1
      BY <1>8 DEF ContinueAsNew, Progress, PagesFollowEachOther
    <2>2. page' = (run' - 1) * MaxIterations + iterations'
      BY <1>2, <1>4, <1>8, <2>1 DEF ContinueAsNew
    <2> QED
      BY <1>8, <2>2 DEF ContinueAsNew, Progress, AskersHaveBegun,
         DrainedBeforeClosing, ShareDone, PagesFollowEachOther
  <1>9. ASSUME NEW u \in updates, AcceptUpdate(u) PROVE Progress'
    BY <1>9 DEF AcceptUpdate, Progress, AskersHaveBegun, RunIsOpen,
       DrainedBeforeClosing, ShareDone, PagesFollowEachOther
  <1>10. ASSUME NEW u \in handlers, AllocateBlock(u) PROVE Progress'
    BY <1>10 DEF AllocateBlock, Progress, AskersHaveBegun, RunIsOpen,
       DrainedBeforeClosing, ShareDone, PagesFollowEachOther
  <1>11. ASSUME NEW a \in Attempts, NEW t \in Tokens, NEW v \in Inputs,
                GetIdentity(a, t, v)
         PROVE  Progress'
    <2>1. stage[a] # "Unused" /\ UNCHANGED <<workflowVars, handlers, home>>
      BY <1>11 DEF GetIdentity
    <2>2. \A b \in Attempts : stage'[b] = "Unused" => stage[b] = "Unused" /\ b # a
      BY <1>11 DEF GetIdentity, AskForBlock, TypeOK
    <2>3. \A u \in updates' \ updates : u.attempt = a
      BY <1>11 DEF GetIdentity, AskForBlock
    <2> QED BY <2>1, <2>2, <2>3, AttemptStep
  <1>12. ASSUME NEW a \in Attempts,
                ReceiveBlock(a) \/ GiveUp(a) \/ FindValue(a) \/ MissValue(a)
         PROVE  Progress'
    <2>1. stage[a] # "Unused" /\ UNCHANGED <<workflowVars, handlers, home>>
      BY <1>12 DEF ReceiveBlock, GiveUp, FindValue, MissValue
    <2>2. \A b \in Attempts : stage'[b] = "Unused" => stage[b] = "Unused" /\ b # a
      BY <1>12 DEF ReceiveBlock, GiveUp, FindValue, MissValue, EndCall, AskForBlock,
                   TypeOK
    <2>3. \A u \in updates' \ updates : u.attempt = a
      BY <1>12 DEF ReceiveBlock, GiveUp, FindValue, MissValue, EndCall, AskForBlock
    <2> QED BY <2>1, <2>2, <2>3, AttemptStep
  <1>13. ASSUME NEW a \in Attempts, AttemptCompletes(a) PROVE Progress'
    <2>1. /\ pc = "Activity" /\ stage[a] # "Unused" /\ page' = page + 1
          /\ UNCHANGED <<run, handlers, updates, home>>
      BY <1>13 DEF AttemptCompletes
    <2>2. AskersHaveBegun'
      BY <1>1, <1>13, <2>1 DEF AttemptCompletes, Progress, AskersHaveBegun, TypeOK
    <2>3. page = (run - 1) * MaxIterations + iterations
      BY <2>1 DEF Progress, PagesFollowEachOther
    <2>4. CASE page = Pages \/ iterations >= MaxIterations
      <3>1. pc' = "Draining"
        BY <1>13, <2>4 DEF AttemptCompletes
      <3>2. DrainedBeforeClosing'
        BY <2>1, <3>1 DEF Progress, DrainedBeforeClosing, RunIsOpen
      <3>3. (run - 1) * MaxIterations \in Int
        BY <1>2
      <3>4. page <= run * MaxIterations
        BY <1>2, <1>3, <2>3, <3>3
      <3>5. iterations >= MaxIterations => page = run * MaxIterations
        BY <1>2, <1>3, <2>3, <3>3
      <3>6. run * MaxIterations \in Int
        BY <1>2
      <3>7. ShareDone'
        BY <1>2, <2>1, <3>1, <3>4, <3>6 DEF ShareDone, TypeOK
      <3>8. PagesFollowEachOther'
        BY <1>2, <2>1, <2>4, <3>1, <3>5, <3>6 DEF PagesFollowEachOther
      <3> QED
        BY <2>2, <3>2, <3>7, <3>8 DEF Progress
    <2>5. CASE ~(page = Pages \/ iterations >= MaxIterations)
      <3>1. pc' = "Activity" /\ iterations' = iterations + 1
        BY <1>13, <2>1, <2>5 DEF AttemptCompletes
      <3>2. DrainedBeforeClosing'
        BY <2>1, <3>1 DEF Progress, DrainedBeforeClosing, RunIsOpen
      <3>3. (run - 1) * MaxIterations \in Int
        BY <1>2
      <3>4. page' = (run' - 1) * MaxIterations + iterations'
        BY <1>2, <2>1, <2>3, <3>1, <3>3
      <3> QED
        BY <2>2, <3>1, <3>2, <3>4 DEF Progress, ShareDone, PagesFollowEachOther
    <2> QED BY <2>4, <2>5
  <1> QED
    BY <1>5, <1>6, <1>7, <1>8, <1>9, <1>10, <1>11, <1>12, <1>13
    DEF Next, Workflow, Network, Attempt, Done

\* The pages are counted and the handlers drained in every reachable state.
LEMMA ProgressHolds == Spec => []Progress
  <1>1. Init => Progress
    BY SizesAssumption DEF Init, Progress, AskersHaveBegun, DrainedBeforeClosing,
       ShareDone, PagesFollowEachOther
  <1> QED BY <1>1, StepKeepsProgress, TypeCorrect, PTL DEF Spec

(* No run of the workflow is closed, or continued as new, with a block     *)
(* half handed out, unless the sync has failed (AllHandlersFinished).      *)
THEOREM DrainedBeforeClosingHolds == Spec => []DrainedBeforeClosing
  BY ProgressHolds, PTL DEF Progress

(* The pages of all the runs follow each other, MaxIterations to a run:    *)
(* none is synced twice and none is left out.                              *)
THEOREM PagesFollowEachOtherHolds == Spec => []PagesFollowEachOther
  BY ProgressHolds, PTL DEF Progress
==============================================================================
