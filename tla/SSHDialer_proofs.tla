--------------------------- MODULE SSHDialer_proofs ---------------------------
(***************************************************************************)
(* The dialer leaks no SSH connection, for any number of dials and         *)
(* clients.  The invariant says who has the mutex: only its holder changes *)
(* s.client, and a dial that probes or connects is its holder.             *)
(***************************************************************************)
EXTENDS SSHDialer, TLAPS

(* The mutex is a dial's exactly while it probes or connects, and a        *)
(* keepalive's exactly while it probes.                                    *)
HolderKnown ==
    /\ \A d \in Dials : clientmu = d <=> step[d] \in {"Probe", "Connect"}
    /\ \A c \in Clients : clientmu = c <=> keeper[c] = "Probe"

(* What the holder works on is s.client, and a dial connects only when     *)
(* there is none.                                                          *)
HolderCurrent ==
    /\ \A d \in Dials : step[d] = "Probe" => held[d] = client /\ client # None
    /\ \A d \in Dials : step[d] = "Connect" => client = None
    /\ \A c \in Clients : keeper[c] = "Probe" => client = c

IInv == TypeOK /\ HolderKnown /\ HolderCurrent /\ ClientIsOwned

-----------------------------------------------------------------------------
USE NoneAssumption, DistinctAssumption

(* The dialer starts without a client and with its mutex free.             *)
LEMMA InitHolds == Init => IInv
<1>. SUFFICES ASSUME Init PROVE IInv
  OBVIOUS
<1>. USE DEF Init
<1>1. TypeOK
  BY DEF TypeOK
<1>2. HolderKnown
  BY DEF HolderKnown
<1>3. HolderCurrent
  BY DEF HolderCurrent
<1>4. ClientIsOwned
  BY DEF ClientIsOwned
<1>. QED  BY <1>1, <1>2, <1>3, <1>4 DEF IInv

(* The steps of DialContext keep the invariant.                            *)
LEMMA DialKeepsIt == ASSUME IInv, NEW d \in Dials, DialStep(d) PROVE IInv'
<1>1. CASE BeginDial(d)
  BY <1>1 DEF BeginDial, At, clients, IInv, TypeOK, HolderKnown, HolderCurrent, ClientIsOwned
<1>2. CASE EnterGetClient(d)
  BY <1>2 DEF EnterGetClient, At, clients, IInv, TypeOK, HolderKnown, HolderCurrent, ClientIsOwned
<1>3. CASE ProbeAnswered(d)
  BY <1>3 DEF ProbeAnswered, At, clients, IInv, TypeOK, HolderKnown, HolderCurrent, ClientIsOwned
<1>4. CASE ProbeFails(d)
  BY <1>4 DEF ProbeFails, At, Drop, IInv, TypeOK, HolderKnown, HolderCurrent, ClientIsOwned
<1>5. CASE Connected(d)
  BY <1>5 DEF Connected, At, KeeperAt, Fresh, IInv, TypeOK, HolderKnown, HolderCurrent, ClientIsOwned
<1>6. CASE ConnectFails(d)
  BY <1>6 DEF ConnectFails, At, clients, IInv, TypeOK, HolderKnown, HolderCurrent, ClientIsOwned
<1>7. CASE Forward(d)
  BY <1>7 DEF Forward, At, clients, IInv, TypeOK, HolderKnown, HolderCurrent, ClientIsOwned
<1> QED BY <1>1, <1>2, <1>3, <1>4, <1>5, <1>6, <1>7 DEF DialStep

(* The steps of a keepalive goroutine keep it.                             *)
LEMMA KeeperKeepsIt == ASSUME IInv, NEW c \in Clients, KeeperStep(c) PROVE IInv'
<1>1. CASE Tick(c)
  BY <1>1 DEF Tick, KeeperAt, clients, calls, IInv, TypeOK, HolderKnown, HolderCurrent, ClientIsOwned
<1>2. CASE KeeperEnters(c)
  BY <1>2 DEF KeeperEnters, KeeperAt, clients, calls, IInv, TypeOK, HolderKnown, HolderCurrent, ClientIsOwned
<1>3. CASE KeeperAnswered(c)
  BY <1>3 DEF KeeperAnswered, KeeperAt, clients, calls, IInv, TypeOK, HolderKnown, HolderCurrent, ClientIsOwned
<1>4. CASE KeeperFails(c)
  BY <1>4 DEF KeeperFails, KeeperAt, Drop, calls, IInv, TypeOK, HolderKnown, HolderCurrent, ClientIsOwned
<1> QED BY <1>1, <1>2, <1>3, <1>4 DEF KeeperStep

(* Every step keeps the invariant.                                         *)
LEMMA NextKeepsIt == IInv /\ [Next]_vars => IInv'
<1> SUFFICES ASSUME IInv, [Next]_vars PROVE IInv'
  OBVIOUS
<1>1. CASE \E c \in Clients : LinkChanges(c)
  BY <1>1 DEF LinkChanges, clients, calls, IInv, TypeOK, HolderKnown, HolderCurrent, ClientIsOwned
<1>2. CASE CallClose
  BY <1>2 DEF CallClose, clients, calls, IInv, TypeOK, HolderKnown, HolderCurrent, ClientIsOwned
<1>3. CASE Close
  BY <1>3 DEF Close, Drop, calls, IInv, TypeOK, HolderKnown, HolderCurrent, ClientIsOwned
<1>4. CASE UNCHANGED vars
  BY <1>4 DEF vars, IInv, TypeOK, HolderKnown, HolderCurrent, ClientIsOwned
<1> QED BY <1>1, <1>2, <1>3, <1>4, DialKeepsIt, KeeperKeepsIt DEF Next

-----------------------------------------------------------------------------
(* The inductive invariant holds in every state of the dialer.             *)
THEOREM IInvHolds == Spec => []IInv
BY InitHolds, NextKeepsIt, PTL DEF Spec

(* Every variable keeps its type.                                          *)
THEOREM TypeCorrect == Spec => []TypeOK
BY IInvHolds, PTL DEF IInv

(* The only open client is s.client, and it has a keepalive running,       *)
(* whatever dials, late keepalives and Close do to it.                     *)
THEOREM ClientIsOwnedHolds == Spec => []ClientIsOwned
BY IInvHolds, PTL DEF IInv
==============================================================================
