------------------------------ MODULE SSHDialer ------------------------------
(***************************************************************************)
(* The dialer that the SQL connectors reach a database with through an SSH *)
(* server: one client, opened at the first dial and shared by the dials,   *)
(* with a keepalive goroutine per client that was opened.                  *)
(*                                                                         *)
(* Every dial, every keepalive and Close take clientmu; a dial keeps it    *)
(* while it probes the client and while it opens another, a keepalive      *)
(* while it waits for the server.  What a dial does with the client it was *)
(* given, it does without the mutex.  The server may be gone or silent at  *)
(* any time.  A client that is closed and that nobody refers to any more   *)
(* stands for a new one again.                                             *)
(***************************************************************************)
EXTENDS FiniteSets

CONSTANTS Dials,     \* goroutines that call DialContext
          Clients,   \* bound: clients referred to at a time
          None

ASSUME NoneAssumption == None \notin Dials \cup Clients
ASSUME DistinctAssumption == Dials \cap Clients = {}

VARIABLES clientmu,  \* who has the mutex: a dial, the keepalive of a client,
                     \* or None
          client,    \* s.client
          open,      \* the clients not closed
          link,      \* of a client to the server: "up" | "mute" | "down",
                     \* which it is for a client that is closed
          step,      \* of a dial: "Idle" | "Lock" | "Probe" | "Connect" |
                     \* "Forward"
          held,      \* the client a dial probes or forwards through
          keeper,    \* the keepalive goroutine of a client: "None" |
                     \* "Waiting" | "Lock" | "Probe"
          closing    \* Close waits for the mutex

calls == <<step, held>>
clients == <<client, open>>
vars == <<clientmu, client, open, link, step, held, keeper, closing>>

Init ==
    /\ clientmu = None
    /\ client = None
    /\ open = {}
    /\ link = [c \in Clients |-> "down"]
    /\ step = [d \in Dials |-> "Idle"]
    /\ held = [d \in Dials |-> None]
    /\ keeper = [c \in Clients |-> "None"]
    /\ closing = FALSE

At(d, s) == step' = [step EXCEPT ![d] = s]
KeeperAt(c, s) == keeper' = [keeper EXCEPT ![c] = s]

(* s.client = nil and client.Close(), which ends every wait on the client. *)
Drop(c) ==
    /\ client' = None
    /\ open' = open \ {c}
    /\ link' = [link EXCEPT ![c] = "down"]

-----------------------------------------------------------------------------
(* DialContext and getClient                                               *)

BeginDial(d) ==
    /\ step[d] = "Idle"
    /\ At(d, "Lock")
    /\ UNCHANGED <<clientmu, clients, link, held, keeper, closing>>

(* getClient has the mutex: the client there is is probed first.           *)
EnterGetClient(d) ==
    /\ step[d] = "Lock"
    /\ clientmu = None
    /\ clientmu' = d
    /\ At(d, IF client # None THEN "Probe" ELSE "Connect")
    /\ held' = [held EXCEPT ![d] = client]
    /\ UNCHANGED <<clients, link, keeper, closing>>

(* SendRequest has no timeout: a silent server keeps the dial, and the     *)
(* mutex with it.                                                          *)
ProbeAnswered(d) ==
    /\ step[d] = "Probe"
    /\ link[held[d]] = "up"
    /\ clientmu' = None
    /\ At(d, "Forward")
    /\ UNCHANGED <<clients, link, held, keeper, closing>>

ProbeFails(d) ==
    /\ step[d] = "Probe"
    /\ link[held[d]] = "down"
    /\ Drop(held[d])
    /\ At(d, "Connect")
    /\ held' = [held EXCEPT ![d] = None]
    /\ UNCHANGED <<clientmu, keeper, closing>>

(* A client nobody refers to.                                              *)
Fresh == {c \in Clients : keeper[c] = "None" /\ \A d \in Dials : held[d] # c}

(* ssh.Dial, in one of its tries, and the keepalive that is started.       *)
Connected(d) ==
    /\ step[d] = "Connect"
    /\ \E c \in Fresh :
          /\ client' = c
          /\ open' = open \cup {c}
          /\ link' = [link EXCEPT ![c] = "up"]
          /\ KeeperAt(c, "Waiting")
          /\ held' = [held EXCEPT ![d] = c]
    /\ clientmu' = None
    /\ At(d, "Forward")
    /\ UNCHANGED closing

(* The tries are used up, or the dial's context is done.                   *)
ConnectFails(d) ==
    /\ step[d] = "Connect"
    /\ clientmu' = None
    /\ At(d, "Idle")
    /\ UNCHANGED <<clients, link, held, keeper, closing>>

(* client.Dial, which has no timeout either: it ends with the server's     *)
(* answer, or when the client is broken or closed under it.                *)
Forward(d) ==
    /\ step[d] = "Forward"
    /\ link[held[d]] # "mute"
    /\ At(d, "Idle")
    /\ held' = [held EXCEPT ![d] = None]
    /\ UNCHANGED <<clientmu, clients, link, keeper, closing>>

-----------------------------------------------------------------------------
(* The keepalive goroutine of a client                                     *)

Tick(c) ==
    /\ keeper[c] = "Waiting"
    /\ KeeperAt(c, "Lock")
    /\ UNCHANGED <<clientmu, clients, link, calls, closing>>

(* Mutated: the keepalive only looks whether there is a client.            *)
KeeperEntersForAny(c) ==
    /\ keeper[c] = "Lock"
    /\ clientmu = None
    /\ IF client = None
       THEN KeeperAt(c, "None") /\ UNCHANGED clientmu
       ELSE KeeperAt(c, "Probe") /\ clientmu' = c
    /\ UNCHANGED <<clients, link, calls, closing>>

KeeperEnters(c) ==
    /\ keeper[c] = "Lock"
    /\ clientmu = None
    /\ IF client # c
       THEN KeeperAt(c, "None") /\ UNCHANGED clientmu
       ELSE KeeperAt(c, "Probe") /\ clientmu' = c
    /\ UNCHANGED <<clients, link, calls, closing>>

KeeperAnswered(c) ==
    /\ keeper[c] = "Probe"
    /\ link[c] = "up"
    /\ clientmu' = None
    /\ KeeperAt(c, "Waiting")
    /\ UNCHANGED <<clients, link, calls, closing>>

(* Mutated: the keepalive has no timeout.                                  *)
KeeperFailsOnError(c) ==
    /\ keeper[c] = "Probe"
    /\ link[c] = "down"
    /\ Drop(c)
    /\ clientmu' = None
    /\ KeeperAt(c, "Waiting")
    /\ UNCHANGED <<calls, closing>>

(* An error, or no answer within KeepAliveTimeout.                         *)
KeeperFails(c) ==
    /\ keeper[c] = "Probe"
    /\ Drop(c)
    /\ clientmu' = None
    /\ KeeperAt(c, "Waiting")
    /\ UNCHANGED <<calls, closing>>

-----------------------------------------------------------------------------
(* Close                                                                   *)

CallClose ==
    /\ ~closing
    /\ closing' = TRUE
    /\ UNCHANGED <<clientmu, clients, link, calls, keeper>>

Close ==
    /\ closing
    /\ clientmu = None
    /\ Drop(client)
    /\ closing' = FALSE
    /\ UNCHANGED <<clientmu, calls, keeper>>

-----------------------------------------------------------------------------
(* The server and the network                                              *)

(* The connection of an open client breaks, is silent, or works again.     *)
LinkChanges(c) ==
    /\ link[c] # "down"
    /\ \E l \in {"up", "mute", "down"} \ {link[c]} :
          link' = [link EXCEPT ![c] = l]
    /\ UNCHANGED <<clientmu, clients, calls, keeper, closing>>

-----------------------------------------------------------------------------
DialStep(d) ==
    \/ BeginDial(d) \/ EnterGetClient(d) \/ ProbeAnswered(d) \/ ProbeFails(d)
    \/ Connected(d) \/ ConnectFails(d) \/ Forward(d)

KeeperStep(c) ==
    Tick(c) \/ KeeperEnters(c) \/ KeeperAnswered(c) \/ KeeperFails(c)

Next ==
    \/ \E d \in Dials : DialStep(d)
    \/ \E c \in Clients : KeeperStep(c) \/ LinkChanges(c)
    \/ CallClose \/ Close

(* A goroutine that waits for the mutex gets it in the end (a Go mutex is  *)
(* handed to one that has waited for long), a ticker ticks, a wait with a  *)
(* timeout ends, and a server that keeps coming back answers.  Nothing     *)
(* makes ssh.Dial end: its timeout is one of the TCP connection, not of    *)
(* the handshake.                                                          *)
Fairness ==
    /\ \A d \in Dials :
          /\ SF_vars(EnterGetClient(d))
          /\ SF_vars(ProbeAnswered(d) \/ ProbeFails(d))
          /\ SF_vars(Forward(d))
    /\ \A c \in Clients :
          /\ WF_vars(Tick(c))
          /\ SF_vars(KeeperEnters(c))
          /\ WF_vars(KeeperAnswered(c) \/ KeeperFails(c))
    /\ SF_vars(Close)

Spec == Init /\ [][Next]_vars /\ Fairness

-----------------------------------------------------------------------------
(* Properties                                                              *)

TypeOK ==
    /\ clientmu \in Dials \cup Clients \cup {None}
    /\ client \in Clients \cup {None}
    /\ open \subseteq Clients
    /\ link \in [Clients -> {"up", "mute", "down"}]
    /\ step \in [Dials -> {"Idle", "Lock", "Probe", "Connect", "Forward"}]
    /\ held \in [Dials -> Clients \cup {None}]
    /\ keeper \in [Clients -> {"None", "Waiting", "Lock", "Probe"}]
    /\ closing \in BOOLEAN

(* No connection to the SSH server is left open that the dialer has        *)
(* forgotten, and none it uses goes without a keepalive: whatever dials,   *)
(* late keepalives of earlier clients and Close do to s.client, the only   *)
(* open client is s.client, and its goroutine is running.                  *)
ClientIsOwned ==
    /\ open = {client} \ {None}
    /\ client # None => keeper[client] # "None"

(* A dial that has the mutex and waits for the server, with nothing to end *)
(* the wait.                                                               *)
Stuck ==
    \E d \in Dials :
        \/ step[d] = "Connect"
        \/ step[d] = "Probe" /\ link[held[d]] = "mute"

(* Unless some dial stays stuck, every dial and every Close ends, also a   *)
(* dial that forwards through a client whose server went silent: only the  *)
(* keepalive's timeout gets it out.  And the goroutine of a client that    *)
(* was dropped ends.                                                       *)
NothingWaitsForEver ==
    \/ <>[]Stuck
    \/ /\ \A d \in Dials : step[d] # "Idle" ~> step[d] = "Idle"
       /\ closing ~> ~closing
       /\ \A c \in Clients :
             keeper[c] # "None" /\ c \notin open ~> keeper[c] = "None"
==============================================================================
