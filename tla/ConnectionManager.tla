-------------------------- MODULE ConnectionManager --------------------------
(***************************************************************************)
(* The connection manager of the worker and of the backend: clients shared *)
(* by the sessions of a group, bound to the sessions that asked for them,  *)
(* and closed on release, by the reaper, or all at once by Shutdown.       *)
(*                                                                         *)
(* The manager's mutex makes each operation on its two maps one step; the  *)
(* reaper goroutine and a caller of Shutdown meet outside it.  An error    *)
(* from the provider leaves the maps alone, and a client whose close fails *)
(* is forgotten like any other.                                            *)
(***************************************************************************)
EXTENDS Integers, FiniteSets

CONSTANTS Sessions, Groups, Connections,
          GroupOf,        \* the group of a session
          Modes,          \* [closeOnRelease, reaper] of the managers in use
          MaxClients      \* bound: clients opened

ASSUME GroupsAssumption == GroupOf \in [Sessions -> Groups]
ASSUME ModesAssumption ==
    Modes \subseteq [closeOnRelease : BOOLEAN, reaper : BOOLEAN]
ASSUME MaxClientsAssumption == MaxClients \in Nat

VARIABLES mode,        \* this manager's configuration
          bound,       \* groupSessionMap: the connections of each session
          cached,      \* groupConnMap: the client of a connection, or 0
          isReaping,   \* the atomic flag
          reaper,      \* "Off" | "Waiting" | "Closing" | "Stopped"
          stopper,     \* the goroutine that calls Shutdown: "Idle" |
                       \* "Called" | "Sending" | "Closing" | "Done"
          opened,      \* number of clients opened so far
          open,        \* those not yet closed
          holds        \* clients a session was given and did not release

maps == <<bound, cached>>
routines == <<isReaping, reaper, stopper>>
clients == <<opened, open, holds>>
vars == <<mode, bound, cached, isReaping, reaper, stopper, opened, open, holds>>

(* The connections some session of a group is bound to, as                 *)
(* getUniqueConnectionIdsFromGroupSessions finds them.                     *)
BoundIn(b, g) == UNION {b[s] : s \in {x \in Sessions : GroupOf[x] = g}}

Init ==
    /\ mode \in Modes
    /\ bound = [s \in Sessions |-> {}]
    /\ cached = [g \in Groups |-> [c \in Connections |-> 0]]
    /\ isReaping = FALSE /\ reaper = "Off" /\ stopper = "Idle"
    /\ opened = 0 /\ open = {}
    /\ holds = [s \in Sessions |-> {}]
------------------------------------------------------------------------------
(* Mutated: a shared client is not bound to the session.                   *)
ReuseUnbound(s, c) ==
    LET k == cached[GroupOf[s]][c] IN
    /\ k # 0
    /\ holds' = [holds EXCEPT ![s] = @ \cup {k}]
    /\ UNCHANGED <<bound, cached, opened, open>>

(* A client of the group is shared, whatever session opened it.            *)
Reuse(s, c) ==
    LET k == cached[GroupOf[s]][c] IN
    /\ k # 0
    /\ bound' = [bound EXCEPT ![s] = @ \cup {c}]
    /\ holds' = [holds EXCEPT ![s] = @ \cup {k}]
    /\ UNCHANGED <<cached, opened, open>>

OpenClient(s, c) ==
    LET k == opened + 1 IN
    /\ cached[GroupOf[s]][c] = 0
    /\ opened < MaxClients
    /\ opened' = k
    /\ open' = open \cup {k}
    /\ cached' = [cached EXCEPT ![GroupOf[s]][c] = k]
    /\ bound' = [bound EXCEPT ![s] = @ \cup {c}]
    /\ holds' = [holds EXCEPT ![s] = @ \cup {k}]

GetConnection(s, c) ==
    /\ Reuse(s, c) \/ OpenClient(s, c)
    /\ UNCHANGED <<mode, routines>>

(* The clients of some places of the map are closed and forgotten.         *)
Close(places) ==
    /\ open' = open \ {cached[p[1]][p[2]] : p \in places}
    /\ cached' = [g \in Groups |-> [c \in Connections |->
                    IF <<g, c>> \in places THEN 0 ELSE cached[g][c]]]

(* Mutated: the bindings are looked at before they go.                     *)
ReleaseSessionKeeping(s) ==
    /\ bound[s] # {}
    /\ bound' = [bound EXCEPT ![s] = {}]
    /\ holds' = [holds EXCEPT ![s] = {}]
    /\ IF mode.closeOnRelease
         THEN Close({GroupOf[s]} \X (bound[s] \ BoundIn(bound, GroupOf[s])))
         ELSE UNCHANGED <<open, cached>>
    /\ UNCHANGED <<mode, routines, opened>>

(* The session's bindings go first: what the rest of the group is bound to *)
(* stays open.  A session that is bound to nothing is not found.           *)
ReleaseSession(s) ==
    /\ bound[s] # {}
    /\ bound' = [bound EXCEPT ![s] = {}]
    /\ holds' = [holds EXCEPT ![s] = {}]
    /\ IF mode.closeOnRelease
         THEN Close({GroupOf[s]} \X (bound[s] \ BoundIn(bound', GroupOf[s])))
         ELSE UNCHANGED <<open, cached>>
    /\ UNCHANGED <<mode, routines, opened>>

(* A cycle of the reaper: what no session of its group is bound to.        *)
Unused(g, c) == cached[g][c] # 0 /\ c \notin BoundIn(bound, g)

(* Mutated: only groups without bindings are cleaned.                      *)
CleanUnusedGroups ==
    /\ Close({g \in Groups : BoundIn(bound, g) = {}} \X Connections)
    /\ UNCHANGED <<bound, opened, holds>>

CleanUnusedConnections ==
    /\ Close({p \in Groups \X Connections : Unused(p[1], p[2])})
    /\ UNCHANGED <<bound, opened, holds>>

(* Mutated: the map of clients is not emptied.                             *)
HardCloseSessions ==
    /\ open' = open \ {cached[g][c] : g \in Groups, c \in Connections}
    /\ bound' = [s \in Sessions |-> {}]
    /\ UNCHANGED <<cached, opened, holds>>

(* Every client is closed and every session forgotten.                     *)
HardClose ==
    /\ Close(Groups \X Connections)
    /\ bound' = [s \in Sessions |-> {}]
    /\ UNCHANGED <<opened, holds>>
------------------------------------------------------------------------------
(* The reaper goroutine.                                                   *)
ReaperStarts ==
    /\ mode.reaper
    /\ reaper = "Off"
    /\ isReaping' = TRUE
    /\ reaper' = "Waiting"
    /\ UNCHANGED <<mode, maps, stopper, clients>>

ReaperCycle ==
    /\ reaper = "Waiting"
    /\ CleanUnusedConnections
    /\ UNCHANGED <<mode, routines>>

ReaperCloses ==
    /\ reaper = "Closing"
    /\ HardClose
    /\ isReaping' = FALSE
    /\ reaper' = "Stopped"
    /\ UNCHANGED <<mode, stopper>>

(* A goroutine calls Shutdown, reads the flag, and then hands the reaper   *)
(* the signal, closes by itself after waiting for 5 seconds, or closes by  *)
(* itself at once.                                                         *)
ShutdownCalled ==
    /\ mode.reaper
    /\ stopper = "Idle"
    /\ stopper' = "Called"
    /\ UNCHANGED <<mode, maps, isReaping, reaper, clients>>

(* Mutated: without a reaper nothing is closed.                            *)
ShutdownSignalsOnly ==
    /\ stopper = "Called"
    /\ stopper' = IF isReaping THEN "Sending" ELSE "Done"
    /\ UNCHANGED <<mode, maps, isReaping, reaper, clients>>

ShutdownReadsFlag ==
    /\ stopper = "Called"
    /\ stopper' = IF isReaping THEN "Sending" ELSE "Closing"
    /\ UNCHANGED <<mode, maps, isReaping, reaper, clients>>

ShutdownSignal ==
    /\ stopper = "Sending"
    /\ reaper = "Waiting"
    /\ stopper' = "Done"
    /\ reaper' = "Closing"
    /\ UNCHANGED <<mode, maps, isReaping, clients>>

ShutdownTimesOut ==
    /\ stopper = "Sending"
    /\ stopper' = "Closing"
    /\ UNCHANGED <<mode, maps, isReaping, reaper, clients>>

ShutdownCloses ==
    /\ stopper = "Closing"
    /\ HardClose
    /\ stopper' = "Done"
    /\ UNCHANGED <<mode, isReaping, reaper>>

Reaper == ReaperStarts \/ ReaperCycle \/ ReaperCloses
Stopper == \/ ShutdownReadsFlag
           \/ ShutdownSignal
           \/ ShutdownTimesOut
           \/ ShutdownCloses

Next ==
    \/ \E s \in Sessions, c \in Connections : GetConnection(s, c)
    \/ \E s \in Sessions : ReleaseSession(s)
    \/ Reaper
    \/ ShutdownCalled
    \/ Stopper

(* The reaper's timer fires, a goroutine that can run does, and the five   *)
(* seconds pass; nothing makes a session ask or release.                   *)
Fairness == WF_vars(Reaper) /\ WF_vars(Stopper)

Spec == Init /\ [][Next]_vars /\ Fairness
------------------------------------------------------------------------------
(* Every variable keeps its type, and clients are numbered as they open.   *)
TypeOK ==
    /\ mode \in Modes
    /\ bound \in [Sessions -> SUBSET Connections]
    /\ cached \in [Groups -> [Connections -> 0..opened]]
    /\ isReaping \in BOOLEAN
    /\ reaper \in {"Off", "Waiting", "Closing", "Stopped"}
    /\ stopper \in {"Idle", "Called", "Sending", "Closing", "Done"}
    /\ opened \in Nat
    /\ open \subseteq 1..opened
    /\ holds \in [Sessions -> SUBSET (1..opened)]

(* A client a session was given stays open until it releases the session,  *)
(* whatever other sessions, groups and the reaper do, short of a shutdown. *)
HeldClientsAreOpen ==
    stopper = "Idle" => \A s \in Sessions : holds[s] \subseteq open

(* The open clients are those of the map, each in one place: none is       *)
(* handed out or closed again once closed, and none is lost while open.    *)
MapsMatchClients ==
    /\ open = {cached[g][c] : g \in Groups, c \in Connections} \ {0}
    /\ \A g, h \in Groups, c, d \in Connections :
          cached[g][c] = cached[h][d] /\ cached[g][c] # 0 => g = h /\ c = d

(* With close on release no client outlives the sessions bound to it.      *)
NoIdleClients ==
    mode.closeOnRelease =>
       \A g \in Groups, c \in Connections : ~Unused(g, c)

(* A client no session is bound to is closed by the reaper, unless a       *)
(* session of the group comes back for it or the manager is shut down.     *)
IdleClientsAreReaped ==
    \A g \in Groups, c \in Connections :
       (mode.reaper /\ Unused(g, c))
         ~> (~Unused(g, c) \/ stopper # "Idle")

(* Whichever way Shutdown and the reaper meet, the clients open when it is *)
(* called are closed.                                                      *)
ShutdownClosesClients ==
    \A k \in 1..MaxClients :
       (stopper = "Called" /\ k \in open) ~> (k \notin open)
==============================================================================
