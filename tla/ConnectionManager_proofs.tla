---------------------- MODULE ConnectionManager_proofs ----------------------
(***************************************************************************)
(* Proofs about ConnectionManager, for any sessions, groups, connections   *)
(* and configurations: a client is open exactly as long as the map has it, *)
(* and as long as a session holds it.                                      *)
(***************************************************************************)
EXTENDS ConnectionManager, TLAPS

(* Before a shutdown, a client that a session holds is one the session is  *)
(* bound to, and the map still has it.                                     *)
HeldClientsAreBound ==
    stopper = "Idle" =>
       \A s \in Sessions : \A k \in holds[s] :
          k # 0 /\ \E c \in bound[s] : cached[GroupOf[s]][c] = k

NobodyClosesYet == stopper = "Idle" => reaper # "Closing"

IInv ==
    /\ TypeOK
    /\ MapsMatchClients
    /\ NobodyClosesYet
    /\ HeldClientsAreBound
    /\ NoIdleClients

\* The invariant holds of a new manager.
LEMMA InitImpliesIInv == Init => IInv
  <1> SUFFICES ASSUME Init PROVE IInv
    OBVIOUS
  <1> USE DEF Init
  <1>1. TypeOK
    <2>1. cached \in [Groups -> [Connections -> 0..opened]]
      BY 0 \in 0..0
    <2>2. bound \in [Sessions -> SUBSET Connections]
          /\ holds \in [Sessions -> SUBSET (1..opened)]
      OBVIOUS
    <2> QED BY <2>1, <2>2 DEF TypeOK
  <1>2. MapsMatchClients
    BY DEF MapsMatchClients
  <1>3. NobodyClosesYet /\ HeldClientsAreBound /\ NoIdleClients
    BY DEF NobodyClosesYet, HeldClientsAreBound, NoIdleClients, Unused
  <1> QED BY <1>1, <1>2, <1>3 DEF IInv
------------------------------------------------------------------------------
(* Closing places of the map keeps its types, and keeps it in step with    *)
(* the open clients.                                                       *)
LEMMA CloseMatches ==
    ASSUME TypeOK, MapsMatchClients,
           NEW places \in SUBSET (Groups \X Connections), Close(places),
           UNCHANGED opened
    PROVE  /\ cached' \in [Groups -> [Connections -> 0..opened]]
           /\ open' \subseteq 1..opened
           /\ MapsMatchClients'
  <1>1. \A g \in Groups, c \in Connections :
           /\ cached[g][c] \in 0..opened
           /\ cached'[g][c] = IF <<g, c>> \in places THEN 0 ELSE cached[g][c]
    BY DEF Close, TypeOK
  <1>2. cached' \in [Groups -> [Connections -> 0..opened]]
    BY <1>1 DEF Close, TypeOK
  <1>3. open' \subseteq 1..opened
    BY DEF Close, TypeOK
  <1>4. \A g, h \in Groups, c, d \in Connections :
           cached'[g][c] = cached'[h][d] /\ cached'[g][c] # 0 => g = h /\ c = d
    <2> SUFFICES ASSUME NEW g \in Groups, NEW h \in Groups,
                        NEW c \in Connections, NEW d \in Connections,
                        cached'[g][c] = cached'[h][d], cached'[g][c] # 0
                 PROVE  g = h /\ c = d
      OBVIOUS
    <2>1. cached'[g][c] = cached[g][c]
      BY <1>1
    <2>2. cached'[h][d] = cached[h][d]
      BY <1>1
    <2>3. \A i, j \in Groups, a, b \in Connections :
             cached[i][a] = cached[j][b] /\ cached[i][a] # 0 => i = j /\ a = b
      BY DEF MapsMatchClients
    <2>4. cached[g][c] = cached[h][d] /\ cached[g][c] # 0
      BY <2>1, <2>2
    <2> QED BY ONLY <2>3, <2>4
  <1>5. ASSUME NEW k \in open'
        PROVE  \E g \in Groups, c \in Connections : k = cached'[g][c] /\ k # 0
    <2>1. PICK g \in Groups, c \in Connections : k = cached[g][c] /\ k # 0
      BY <1>5 DEF Close, MapsMatchClients
    <2>2. <<g, c>> \notin places
      BY <1>5, <2>1 DEF Close
    <2> QED BY <1>1, <2>1, <2>2
  <1>6. ASSUME NEW g \in Groups, NEW c \in Connections, cached'[g][c] # 0
        PROVE  cached'[g][c] \in open'
    <2>1. cached'[g][c] = cached[g][c] /\ <<g, c>> \notin places
      BY <1>1, <1>6
    <2>2. cached[g][c] \in open
      BY <1>6, <2>1 DEF MapsMatchClients
    <2>3. \A p \in places : cached[p[1]][p[2]] # cached[g][c]
      BY <1>6, <2>1 DEF MapsMatchClients
    <2> QED BY <2>1, <2>2, <2>3 DEF Close
  <1>7. open' = {cached'[g][c] : g \in Groups, c \in Connections} \ {0}
    BY <1>5, <1>6
  <1> QED BY <1>2, <1>3, <1>4, <1>7 DEF MapsMatchClients

(* A session that is given a client is bound to it.                        *)
LEMMA GetKeepsIInv ==
    ASSUME IInv, NEW s \in Sessions, NEW c \in Connections,
           GetConnection(s, c)
    PROVE  IInv'
  <1> DEFINE g == GroupOf[s]
  <1>1. g \in Groups
    BY GroupsAssumption
  <1>2. UNCHANGED <<mode, isReaping, reaper, stopper>>
        /\ bound' = [bound EXCEPT ![s] = @ \cup {c}]
    BY DEF GetConnection, Reuse, OpenClient, routines
  <1>3. bound' \in [Sessions -> SUBSET Connections]
        /\ \A x \in Sessions : bound[x] \subseteq bound'[x]
        /\ c \in bound'[s]
    BY <1>2 DEF IInv, TypeOK
  <1>4. NobodyClosesYet'
    BY <1>2 DEF IInv, NobodyClosesYet
  <1>5. \A h \in Groups : BoundIn(bound, h) \subseteq BoundIn(bound', h)
    BY <1>3 DEF BoundIn
  <1>6. c \in BoundIn(bound', g)
    BY <1>3 DEF BoundIn
  <1> HIDE DEF g
  <1>7. CASE Reuse(s, c)
    <2>1. /\ cached[g][c] # 0
          /\ holds' = [holds EXCEPT ![s] = @ \cup {cached[g][c]}]
          /\ UNCHANGED <<cached, opened, open>>
      BY <1>7 DEF Reuse, g
    <2>2. cached[g][c] \in 1..opened
      BY <1>1, <2>1 DEF IInv, TypeOK
    <2>3. TypeOK'
      BY <1>2, <1>3, <2>1, <2>2 DEF IInv, TypeOK
    <2>4. MapsMatchClients'
      BY <2>1 DEF IInv, MapsMatchClients
    <2>5. HeldClientsAreBound'
      BY <1>2, <1>3, <2>1 DEF IInv, TypeOK, HeldClientsAreBound, g
    <2>6. NoIdleClients'
      BY <1>2, <1>5, <2>1 DEF IInv, NoIdleClients, Unused
    <2> QED BY <1>4, <2>3, <2>4, <2>5, <2>6 DEF IInv
  <1>8. CASE OpenClient(s, c)
    <2> DEFINE k == opened + 1
    <2>1. /\ cached[g][c] = 0
          /\ opened' = k
          /\ open' = open \cup {k}
          /\ cached' = [cached EXCEPT ![g][c] = k]
          /\ holds' = [holds EXCEPT ![s] = @ \cup {k}]
      BY <1>8 DEF OpenClient, g
    <2>2. /\ opened \in Nat /\ k \in 1..opened' /\ k # 0
          /\ 0..opened \subseteq 0..opened' /\ 1..opened \subseteq 1..opened'
          /\ k \notin 0..opened
      BY <2>1 DEF IInv, TypeOK
    <2>3. \A h \in Groups, d \in Connections :
             /\ cached[h][d] \in 0..opened
             /\ cached'[h][d] = IF h = g /\ d = c THEN k ELSE cached[h][d]
      BY <1>1, <2>1 DEF IInv, TypeOK
    <2> HIDE DEF k
    <2>4. TypeOK'
      <3>1. cached' \in [Groups -> [Connections -> 0..opened']]
        <4>1. \A h \in Groups : cached[h] \in [Connections -> 0..opened']
          BY <2>2 DEF IInv, TypeOK
        <4>2. [cached[g] EXCEPT ![c] = k] \in [Connections -> 0..opened']
          BY <1>1, <2>2, <4>1
        <4>3. cached' = [cached EXCEPT ![g] = [cached[g] EXCEPT ![c] = k]]
          BY <2>1
        <4> QED BY <4>1, <4>2, <4>3 DEF IInv, TypeOK
      <3>2. holds' \in [Sessions -> SUBSET (1..opened')]
        BY <2>1, <2>2 DEF IInv, TypeOK
      <3>3. open' \subseteq 1..opened' /\ opened' \in Nat
        BY <2>1, <2>2 DEF IInv, TypeOK, k
      <3> QED BY <1>2, <1>3, <3>1, <3>2, <3>3 DEF IInv, TypeOK
    <2>5. MapsMatchClients'
      <3>1. \A h, i \in Groups, d, e \in Connections :
               cached'[h][d] = cached'[i][e] /\ cached'[h][d] # 0
                 => h = i /\ d = e
        BY <2>2, <2>3 DEF IInv, MapsMatchClients
      <3>2. \A n \in open' : \E h \in Groups, d \in Connections :
               n = cached'[h][d] /\ n # 0
        <4>1. k = cached'[g][c]
          BY <1>1, <2>3
        <4>2. ASSUME NEW n \in open
              PROVE  \E h \in Groups, d \in Connections : n = cached'[h][d] /\ n # 0
          <5>1. PICK h \in Groups, d \in Connections : n = cached[h][d] /\ n # 0
            BY DEF IInv, MapsMatchClients
          <5> QED BY <2>1, <2>3, <5>1
        <4> QED BY <1>1, <2>1, <2>2, <4>1, <4>2
      <3>3. \A h \in Groups, d \in Connections :
               cached'[h][d] # 0 => cached'[h][d] \in open'
        BY <2>1, <2>3 DEF IInv, MapsMatchClients
      <3>4. open' = {cached'[h][d] : h \in Groups, d \in Connections} \ {0}
        BY <3>2, <3>3
      <3> QED BY <3>1, <3>4 DEF MapsMatchClients
    <2>6. HeldClientsAreBound'
      <3> SUFFICES ASSUME stopper = "Idle", NEW x \in Sessions,
                          NEW n \in holds'[x]
                   PROVE  n # 0 /\ \E d \in bound'[x] : cached'[GroupOf[x]][d] = n
        BY <1>2 DEF HeldClientsAreBound
      <3>1. CASE n \in holds[x]
        <4>1. PICK d \in bound[x] : n # 0 /\ cached[GroupOf[x]][d] = n
          BY <3>1 DEF IInv, HeldClientsAreBound
        <4>2. GroupOf[x] \in Groups /\ d \in Connections
          BY GroupsAssumption DEF IInv, TypeOK
        <4> QED BY <1>3, <2>1, <2>3, <4>1, <4>2
      <3>2. CASE n \notin holds[x]
        <4>1. x = s /\ n = k
          BY <2>1, <3>2 DEF IInv, TypeOK
        <4> QED BY <1>1, <1>3, <2>2, <2>3, <4>1 DEF g
      <3> QED BY <3>1, <3>2
    <2>7. NoIdleClients'
      BY <1>2, <1>5, <1>6, <2>3 DEF IInv, NoIdleClients, Unused
    <2> QED BY <1>4, <2>4, <2>5, <2>6, <2>7 DEF IInv
  <1> QED BY <1>7, <1>8 DEF GetConnection

(* What another session of the group is bound to is not closed.            *)
LEMMA ReleaseKeepsIInv ==
    ASSUME IInv, NEW s \in Sessions, ReleaseSession(s)
    PROVE  IInv'
  <1> DEFINE g == GroupOf[s]
  <1> DEFINE places == {g} \X (bound[s] \ BoundIn(bound', g))
  <1>1. /\ g \in Groups
        /\ UNCHANGED <<mode, isReaping, reaper, stopper, opened>>
        /\ bound' = [bound EXCEPT ![s] = {}]
        /\ holds' = [holds EXCEPT ![s] = {}]
    BY GroupsAssumption DEF ReleaseSession, routines
  <1>2. /\ bound' \in [Sessions -> SUBSET Connections]
        /\ holds' \in [Sessions -> SUBSET (1..opened)]
    BY <1>1 DEF IInv, TypeOK
  <1>3. bound'[s] = {} /\ \A x \in Sessions \ {s} : bound'[x] = bound[x]
    BY <1>1 DEF IInv, TypeOK
  <1>4. NobodyClosesYet'
    BY <1>1 DEF IInv, NobodyClosesYet
  <1>5. CASE ~mode.closeOnRelease
    <2>1. UNCHANGED <<open, cached>>
      BY <1>5 DEF ReleaseSession
    <2>2. TypeOK' /\ MapsMatchClients' /\ NoIdleClients'
      BY <1>1, <1>2, <1>5, <2>1
      DEF IInv, TypeOK, MapsMatchClients, NoIdleClients
    <2>3. HeldClientsAreBound'
      BY <1>1, <1>3, <2>1 DEF IInv, TypeOK, HeldClientsAreBound
    <2> QED BY <1>4, <2>2, <2>3 DEF IInv
  <1>6. CASE mode.closeOnRelease
    <2>1. Close(places)
      BY <1>6 DEF ReleaseSession
    <2>2. places \in SUBSET (Groups \X Connections)
      BY <1>1 DEF IInv, TypeOK
    <2>3. \A h \in Groups, c \in Connections :
             cached'[h][c] = IF <<h, c>> \in places THEN 0 ELSE cached[h][c]
      BY <2>1 DEF Close
    <2>4. \A h \in Groups, c \in Connections : <<h, c>> \in places <=>
             h = g /\ c \in bound[s] /\ c \notin BoundIn(bound', g)
      OBVIOUS
    <2> HIDE DEF places, g
    <2>5. TypeOK' /\ MapsMatchClients'
      BY <1>1, <1>2, <2>1, <2>2, CloseMatches DEF IInv, TypeOK
    <2>6. HeldClientsAreBound'
      <3> SUFFICES ASSUME stopper = "Idle", NEW x \in Sessions,
                          NEW k \in holds'[x]
                   PROVE  k # 0 /\ \E c \in bound'[x] : cached'[GroupOf[x]][c] = k
        BY <1>1 DEF HeldClientsAreBound
      <3>1. x # s /\ k \in holds[x]
        BY <1>1 DEF IInv, TypeOK
      <3>2. PICK c \in bound[x] : k # 0 /\ cached[GroupOf[x]][c] = k
        BY <3>1 DEF IInv, HeldClientsAreBound
      <3>3. c \in bound'[x] /\ c \in Connections /\ GroupOf[x] \in Groups
        BY <1>3, <3>1, GroupsAssumption DEF IInv, TypeOK
      <3>4. c \in BoundIn(bound', GroupOf[x])
        BY <3>3 DEF BoundIn
      <3> QED BY <2>3, <2>4, <3>2, <3>3, <3>4
    <2>7. NoIdleClients'
      <3> SUFFICES ASSUME NEW h \in Groups, NEW c \in Connections,
                          cached'[h][c] # 0, c \notin BoundIn(bound', h)
                   PROVE  FALSE
        BY DEF NoIdleClients, Unused
      <3>1. cached[h][c] # 0 /\ <<h, c>> \notin places
        BY <2>3
      <3>2. c \in BoundIn(bound, h)
        BY <1>6, <3>1 DEF IInv, NoIdleClients, Unused
      <3>3. PICK x \in Sessions : GroupOf[x] = h /\ c \in bound[x]
        BY <3>2 DEF BoundIn
      <3>4. x = s
        BY <1>3, <3>3 DEF BoundIn
      <3> QED BY <2>4, <3>1, <3>3, <3>4 DEF g
    <2> QED BY <1>4, <2>5, <2>6, <2>7 DEF IInv
  <1> QED BY <1>5, <1>6

(* The reaper closes nothing that a session is bound to.                   *)
LEMMA CycleKeepsIInv == IInv /\ ReaperCycle => IInv'
  <1> SUFFICES ASSUME IInv, ReaperCycle PROVE IInv'
    OBVIOUS
  <1> DEFINE places == {p \in Groups \X Connections : Unused(p[1], p[2])}
  <1>1. Close(places) /\ UNCHANGED <<mode, routines, bound, opened, holds>>
    BY DEF ReaperCycle, CleanUnusedConnections
  <1>2. \A g \in Groups, c \in Connections :
           /\ cached'[g][c] = IF <<g, c>> \in places THEN 0 ELSE cached[g][c]
           /\ <<g, c>> \in places <=> Unused(g, c)
    BY <1>1 DEF Close
  <1>3. places \in SUBSET (Groups \X Connections)
    OBVIOUS
  <1> HIDE DEF places
  <1>4. TypeOK' /\ MapsMatchClients'
    BY <1>1, <1>3, CloseMatches DEF IInv, TypeOK, routines
  <1>5. NobodyClosesYet'
    BY <1>1 DEF IInv, NobodyClosesYet, routines
  <1>6. HeldClientsAreBound'
    <2> SUFFICES ASSUME stopper = "Idle", NEW s \in Sessions, NEW k \in holds[s]
                 PROVE  k # 0 /\ \E c \in bound[s] : cached'[GroupOf[s]][c] = k
      BY <1>1 DEF HeldClientsAreBound, routines
    <2>1. PICK c \in bound[s] : k # 0 /\ cached[GroupOf[s]][c] = k
      BY DEF IInv, HeldClientsAreBound
    <2>2. c \in Connections /\ GroupOf[s] \in Groups
      BY GroupsAssumption DEF IInv, TypeOK
    <2>3. c \in BoundIn(bound, GroupOf[s])
      BY DEF BoundIn
    <2> QED BY <1>2, <2>1, <2>2, <2>3 DEF Unused
  <1>7. NoIdleClients'
    BY <1>1, <1>2 DEF NoIdleClients, Unused
  <1> QED BY <1>4, <1>5, <1>6, <1>7 DEF IInv

(* A hard close empties both maps; it happens only after a Shutdown.       *)
LEMMA HardCloseKeepsIInv == IInv /\ (ReaperCloses \/ ShutdownCloses) => IInv'
  <1> SUFFICES ASSUME IInv, ReaperCloses \/ ShutdownCloses PROVE IInv'
    OBVIOUS
  <1>1. HardClose /\ UNCHANGED mode
    BY DEF ReaperCloses, ShutdownCloses
  <1>2. Close(Groups \X Connections) /\ UNCHANGED <<opened, holds>>
        /\ bound' = [s \in Sessions |-> {}]
    BY <1>1 DEF HardClose
  <1>3. \A g \in Groups, c \in Connections : cached'[g][c] = 0
    BY <1>2 DEF Close
  <1>4. /\ cached' \in [Groups -> [Connections -> 0..opened]]
        /\ open' \subseteq 1..opened
        /\ MapsMatchClients'
    BY <1>2, CloseMatches DEF IInv
  <1>5. stopper' # "Idle" /\ isReaping' \in BOOLEAN
        /\ reaper' \in {"Off", "Waiting", "Closing", "Stopped"}
        /\ stopper' \in {"Idle", "Called", "Sending", "Closing", "Done"}
    BY DEF ReaperCloses, ShutdownCloses, IInv, NobodyClosesYet, TypeOK
  <1>6. TypeOK'
    BY <1>1, <1>2, <1>4, <1>5 DEF IInv, TypeOK
  <1>7. NobodyClosesYet' /\ HeldClientsAreBound' /\ NoIdleClients'
    BY <1>3, <1>5 DEF NobodyClosesYet, HeldClientsAreBound, NoIdleClients, Unused
  <1> QED BY <1>4, <1>6, <1>7 DEF IInv

\* Every step keeps the invariant.
LEMMA StepKeepsIInv == IInv /\ [Next]_vars => IInv'
  <1> SUFFICES ASSUME IInv, [Next]_vars PROVE IInv'
    OBVIOUS
  <1>1. ASSUME NEW s \in Sessions, NEW c \in Connections, GetConnection(s, c)
        PROVE  IInv'
    BY <1>1, GetKeepsIInv
  <1>2. ASSUME NEW s \in Sessions, ReleaseSession(s) PROVE IInv'
    BY <1>2, ReleaseKeepsIInv
  <1>3. CASE ReaperCycle
    BY <1>3, CycleKeepsIInv
  <1>4. CASE ReaperCloses \/ ShutdownCloses
    BY <1>4, HardCloseKeepsIInv
  <1>5. CASE \/ ReaperStarts \/ ShutdownCalled \/ ShutdownReadsFlag
            \/ ShutdownSignal \/ ShutdownTimesOut \/ UNCHANGED vars
    <2>1. UNCHANGED <<mode, bound, cached, opened, open, holds>>
      BY <1>5 DEF ReaperStarts, ShutdownCalled, ShutdownReadsFlag,
              ShutdownSignal, ShutdownTimesOut, vars, maps, clients
    <2>2. /\ isReaping' \in BOOLEAN
          /\ reaper' \in {"Off", "Waiting", "Closing", "Stopped"}
          /\ stopper' \in {"Idle", "Called", "Sending", "Closing", "Done"}
          /\ stopper' = "Idle" => stopper = "Idle" /\ reaper' # "Closing"
      BY <1>5 DEF ReaperStarts, ShutdownCalled, ShutdownReadsFlag,
              ShutdownSignal, ShutdownTimesOut, vars, IInv, TypeOK,
              NobodyClosesYet
    <2>3. TypeOK'
      BY <2>1, <2>2 DEF IInv, TypeOK
    <2>4. MapsMatchClients' /\ NoIdleClients'
      BY <2>1 DEF IInv, MapsMatchClients, NoIdleClients, Unused
    <2>5. NobodyClosesYet' /\ HeldClientsAreBound'
      BY <2>1, <2>2 DEF IInv, NobodyClosesYet, HeldClientsAreBound
    <2> QED BY <2>3, <2>4, <2>5 DEF IInv
  <1> QED BY <1>1, <1>2, <1>3, <1>4, <1>5 DEF Next, Reaper, Stopper

\* The inductive invariant holds of every reachable state: any number of
\* sessions, groups, connections and clients.
THEOREM IInvHolds == Spec => []IInv
  BY InitImpliesIInv, StepKeepsIInv, PTL DEF Spec
------------------------------------------------------------------------------
(* Every variable keeps its type.                                          *)
THEOREM TypeCorrect == Spec => []TypeOK
  BY IInvHolds, PTL DEF IInv

(* The manager never closes a client some session still holds, short of a  *)
(* shutdown.                                                               *)
THEOREM HeldClientsAreOpenHolds == Spec => []HeldClientsAreOpen
  <1>1. IInv => HeldClientsAreOpen
    <2> SUFFICES ASSUME IInv, stopper = "Idle", NEW s \in Sessions,
                        NEW k \in holds[s]
                 PROVE  k \in open
      BY DEF HeldClientsAreOpen
    <2>1. PICK c \in bound[s] : k # 0 /\ cached[GroupOf[s]][c] = k
      BY DEF IInv, HeldClientsAreBound
    <2>2. c \in Connections /\ GroupOf[s] \in Groups
      BY GroupsAssumption DEF IInv, TypeOK
    <2> QED BY <2>1, <2>2 DEF IInv, MapsMatchClients
  <1> QED BY <1>1, IInvHolds, PTL

(* Every open client is in the map, once, and every client in the map is   *)
(* open: none leaks and none is closed twice.                              *)
THEOREM MapsMatchClientsHolds == Spec => []MapsMatchClients
  BY IInvHolds, PTL DEF IInv

(* With close on release the last session to let go of a client closes it. *)
THEOREM NoIdleClientsHolds == Spec => []NoIdleClients
  BY IInvHolds, PTL DEF IInv
==============================================================================
