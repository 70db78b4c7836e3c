------------------------------ MODULE TableSync ------------------------------
(***************************************************************************)
(* One table sync: the workflow that runs the SyncTable activity page by   *)
(* page and continues as new every MaxIterations pages, its update handler *)
(* that hands out blocks of identities, and the identity allocator of each *)
(* activity attempt, which asks that handler for blocks over the network.  *)
(*                                                                         *)
(* An attempt that Temporal gives up (an error, a missed heartbeat, a      *)
(* timeout) may go on running on its worker: nothing of it is undone, and  *)
(* its stream keeps transforming rows.  A worker that dies is an attempt   *)
(* that takes no further step: nothing makes an attempt take one.          *)
(***************************************************************************)
EXTENDS Integers, FiniteSets

CONSTANTS Tokens,         \* the identity columns of the table
          BlockSize,      \* identities per block (1000 in the activity)
          Pages,          \* pages of the table
          RowsPerPage,    \* identity calls an attempt makes at most
          MaxIterations,  \* pages per workflow run
          MaxAttempts,    \* attempts the retry policy gives an activity
          Inputs,         \* values the columns have at the source
          MaxGiveUps      \* bound: requests that attempts give up

ASSUME SizesAssumption ==
    /\ BlockSize \in Nat \ {0}
    /\ Pages \in Nat \ {0}
    /\ RowsPerPage \in Nat
    /\ MaxIterations \in Nat \ {0}
    /\ MaxAttempts \in Nat \ {0}
    /\ MaxGiveUps \in Nat

ASSUME InputsAssumption == Inputs \subseteq Nat

(* The attempts at an activity are named by its page and their number.     *)
Attempts == (1..Pages) \X (1..MaxAttempts)
NoCall == [token |-> "none", input |-> 0, again |-> FALSE]

VARIABLES pc,          \* "Activity" | "Draining" | "Completed" | "Failed"
          run,         \* how often the workflow has continued as new, plus 1
          page,        \* what the continuation token stands for
          tries,       \* number of the activity's current attempt
          iterations,  \* of this run's loop
          cursors,     \* the workflow's ColumnIdentityCursors
          handlers     \* update handlers that have started and not finished

workflowVars == <<pc, run, page, tries, iterations>>
cursorVars == <<cursors, handlers>>

VARIABLES updates,     \* update requests on their way to the workflow
          granted      \* answers of the handler: every block ever handed out

VARIABLES stage,       \* of an attempt: "Unused" | "Working" | "Waiting" |
                       \* "Choosing" | "Gone"
          home,        \* the run whose id the attempt's updates carry
          row,         \* identity calls the attempt has finished
          call,        \* the call it is in
          block,       \* per token, the first value of its block, or 0
          used,        \* per token, the values it has used of that block
          giveUps,     \* how often a request has been given up
          issued       \* every identity an attempt has given to a row

attemptVars == <<stage, home, row, call, block, used, giveUps, issued>>
vars == <<pc, run, page, tries, iterations, cursors, handlers, updates,
          granted, stage, home, row, call, block, used, giveUps, issued>>

Current == <<page, tries>>
Values(start) == start..(start + BlockSize - 1)

(* An update names its caller, the call it serves and whether it is the    *)
(* second block of that call; the run id it carries is the caller's.       *)
Update(a) == [attempt |-> a, token |-> call[a].token, row |-> row[a],
              again |-> call[a].again]

Init ==
    /\ pc = "Activity" /\ run = 1 /\ page = 1 /\ tries = 1 /\ iterations = 1
    /\ cursors = [t \in Tokens |-> 0]
    /\ handlers = {} /\ updates = {} /\ granted = {}
    /\ stage = [a \in Attempts |-> "Unused"]
    /\ home = [a \in Attempts |-> 0]
    /\ row = [a \in Attempts |-> 0]
    /\ call = [a \in Attempts |-> NoCall]
    /\ block = [a \in Attempts |-> [t \in Tokens |-> 0]]
    /\ used = [a \in Attempts |-> [t \in Tokens |-> {}]]
    /\ giveUps = 0 /\ issued = {}
------------------------------------------------------------------------------
(* A worker picks the activity up: a new allocator, with no block yet.     *)
StartAttempt ==
    /\ pc = "Activity"
    /\ stage[Current] = "Unused"
    /\ stage' = [stage EXCEPT ![Current] = "Working"]
    /\ home' = [home EXCEPT ![Current] = run]
    /\ UNCHANGED <<workflowVars, cursorVars, updates, granted, row, call,
                   block, used, giveUps, issued>>

AskForBlock(a, c) ==
    /\ call' = [call EXCEPT ![a] = c]
    /\ stage' = [stage EXCEPT ![a] = "Waiting"]
    /\ updates' = updates \cup
                    {[attempt |-> a, token |-> c.token, row |-> row[a],
                      again |-> c.again]}

(* GetIdentity for a row: a missing or a used-up block is replaced first.  *)
(* The lock of the allocator lets one row in at a time.                    *)
NeedsBlock(a, t) ==
    \/ block[a][t] = 0
    \/ Cardinality(used[a][t]) >= BlockSize

GetIdentity(a, t, v) ==
    LET c == [token |-> t, input |-> v, again |-> FALSE]
    IN  /\ stage[a] = "Working"
        /\ row[a] < RowsPerPage
        /\ \/ /\ NeedsBlock(a, t)
              /\ AskForBlock(a, c)
           \/ /\ ~NeedsBlock(a, t)
              /\ call' = [call EXCEPT ![a] = c]
              /\ stage' = [stage EXCEPT ![a] = "Choosing"]
              /\ UNCHANGED updates
        /\ UNCHANGED <<workflowVars, cursorVars, granted, home, row, block,
                       used, giveUps, issued>>

(* The call ends, with or without an identity.                             *)
EndCall(a) ==
    /\ stage' = [stage EXCEPT ![a] = "Working"]
    /\ row' = [row EXCEPT ![a] = @ + 1]
    /\ call' = [call EXCEPT ![a] = NoCall]

ReceiveBlock(a) ==
    /\ stage[a] = "Waiting"
    /\ \E g \in granted :
          /\ g.update = Update(a)
          /\ block' = [block EXCEPT ![a][call[a].token] = g.start]
    /\ used' = [used EXCEPT ![a][call[a].token] = {}]
    /\ stage' = [stage EXCEPT ![a] = "Choosing"]
    /\ UNCHANGED <<workflowVars, cursorVars, updates, granted, home, row,
                   call, giveUps, issued>>

(* The update cannot be sent or its answer does not arrive: the row fails, *)
(* whatever becomes of the request.                                        *)
GiveUp(a) ==
    /\ stage[a] = "Waiting"
    /\ giveUps < MaxGiveUps
    /\ giveUps' = giveUps + 1
    /\ EndCall(a)
    /\ UNCHANGED <<workflowVars, cursorVars, updates, granted, home, block,
                   used, issued>>

(* tryGetValue finds a value of the block that is unused and is not the    *)
(* input.                                                                  *)
Candidates(a, t, v) == (Values(block[a][t]) \ used[a][t]) \ {v}

FindValue(a) ==
    /\ stage[a] = "Choosing"
    /\ LET c == call[a] IN
       \E v \in Candidates(a, c.token, c.input) :
          /\ used' = [used EXCEPT ![a][c.token] = @ \cup {v}]
          /\ issued' = issued \cup
                         {[attempt |-> a, token |-> c.token, row |-> row[a],
                           input |-> c.input, value |-> v]}
    /\ EndCall(a)
    /\ UNCHANGED <<workflowVars, cursorVars, updates, granted, home, block,
                   giveUps>>

(* Its random probes all miss, which they may do even when a value is      *)
(* left.  The first time a new block is asked for, the second is an error. *)
MissValue(a) ==
    /\ stage[a] = "Choosing"
    /\ \/ /\ ~call[a].again
          /\ AskForBlock(a, [call[a] EXCEPT !.again = TRUE])
          /\ UNCHANGED row
       \/ /\ call[a].again
          /\ EndCall(a)
          /\ UNCHANGED updates
    /\ UNCHANGED <<workflowVars, cursorVars, granted, home, block, used,
                   giveUps, issued>>

------------------------------------------------------------------------------
(* The workflow's side of an update.  A request for a run that is over is  *)
(* refused; a lost one is one that is never accepted.                      *)
RunIsOpen(r) == r = run /\ pc \in {"Activity", "Draining"}

AcceptUpdate(u) ==
    /\ u \in updates
    /\ RunIsOpen(home[u.attempt])
    /\ updates' = updates \ {u}
    /\ handlers' = handlers \cup {u}
    /\ UNCHANGED <<workflowVars, cursors, granted, attemptVars>>

(* The handler holds the cursor mutex and does not wait: one step.  The    *)
(* first block of a cursor starts at 1.                                    *)
StartValue(t) == IF cursors[t] = 0 THEN 1 ELSE cursors[t]

(* Mutated: the cursor is left at the last value of the block.             *)
AllocateShort(u) ==
    /\ u \in handlers
    /\ RunIsOpen(home[u.attempt])
    /\ cursors' = [cursors EXCEPT ![u.token] =
                     StartValue(u.token) + BlockSize - 1]
    /\ granted' = granted \cup {[update |-> u, start |-> StartValue(u.token)]}
    /\ handlers' = handlers \ {u}
    /\ UNCHANGED <<workflowVars, updates, attemptVars>>

(* Mutated: the mutex is not given back after the first block.             *)
AllocateLocked(u) ==
    /\ u \in handlers
    /\ RunIsOpen(home[u.attempt])
    /\ granted = {}
    /\ cursors' = [cursors EXCEPT ![u.token] = StartValue(u.token) + BlockSize]
    /\ granted' = granted \cup {[update |-> u, start |-> StartValue(u.token)]}
    /\ handlers' = handlers \ {u}
    /\ UNCHANGED <<workflowVars, updates, attemptVars>>

AllocateBlock(u) ==
    /\ u \in handlers
    /\ RunIsOpen(home[u.attempt])
    /\ cursors' = [cursors EXCEPT ![u.token] = StartValue(u.token) + BlockSize]
    /\ granted' = granted \cup {[update |-> u, start |-> StartValue(u.token)]}
    /\ handlers' = handlers \ {u}
    /\ UNCHANGED <<workflowVars, updates, attemptVars>>
------------------------------------------------------------------------------
(* Mutated: one page more than MaxIterations.                              *)
AttemptCompletesLate(a) ==
    /\ pc = "Activity"
    /\ a = Current
    /\ stage[a] = "Working"
    /\ stage' = [stage EXCEPT ![a] = "Gone"]
    /\ page' = page + 1
    /\ IF page = Pages \/ iterations > MaxIterations
         THEN pc' = "Draining" /\ UNCHANGED <<tries, iterations>>
         ELSE tries' = 1 /\ iterations' = iterations + 1 /\ UNCHANGED pc
    /\ UNCHANGED <<run, cursorVars, updates, granted, home, row, call, block,
                   used, giveUps, issued>>

(* The activity ends well: no further page, the run's last iteration, or   *)
(* round the loop.  An attempt Temporal has given up is not heard.         *)
AttemptCompletes(a) ==
    /\ pc = "Activity"
    /\ a = Current
    /\ stage[a] = "Working"
    /\ stage' = [stage EXCEPT ![a] = "Gone"]
    /\ page' = page + 1
    /\ IF page = Pages \/ iterations >= MaxIterations
         THEN pc' = "Draining" /\ UNCHANGED <<tries, iterations>>
         ELSE tries' = 1 /\ iterations' = iterations + 1 /\ UNCHANGED pc
    /\ UNCHANGED <<run, cursorVars, updates, granted, home, row, call, block,
                   used, giveUps, issued>>

(* The activity fails or times out: another attempt, or the error is the   *)
(* workflow's.  The attempt itself need not notice.                        *)
AttemptFails ==
    /\ pc = "Activity"
    /\ stage[Current] # "Unused"
    /\ IF tries < MaxAttempts
         THEN tries' = tries + 1 /\ UNCHANGED pc
         ELSE pc' = "Failed" /\ UNCHANGED tries
    /\ UNCHANGED <<run, page, iterations, cursorVars, updates, granted,
                   attemptVars>>

(* The workflow is canceled: the activity it waits for, or its wait for    *)
(* the handlers, returns the cancellation.                                 *)
Cancel ==
    /\ pc \in {"Activity", "Draining"}
    /\ pc' = "Failed"
    /\ UNCHANGED <<run, page, tries, iterations, cursorVars, updates, granted,
                   attemptVars>>

(* Both ends of a run wait for AllHandlersFinished.                        *)
Complete ==
    /\ pc = "Draining"
    /\ page > Pages
    /\ handlers = {}
    /\ pc' = "Completed"
    /\ UNCHANGED <<run, page, tries, iterations, cursorVars, updates, granted,
                   attemptVars>>

(* Mutated: the next run is not given the cursors.                         *)
ContinueAsNewAfresh ==
    /\ pc = "Draining"
    /\ page <= Pages
    /\ handlers = {}
    /\ pc' = "Activity" /\ run' = run + 1 /\ tries' = 1 /\ iterations' = 1
    /\ cursors' = [t \in Tokens |-> 0]
    /\ UNCHANGED <<page, handlers, updates, granted, attemptVars>>

(* Mutated: the handlers are not waited for.                               *)
ContinueAsNewAtOnce ==
    /\ pc = "Draining"
    /\ page <= Pages
    /\ pc' = "Activity" /\ run' = run + 1 /\ tries' = 1 /\ iterations' = 1
    /\ UNCHANGED <<page, cursorVars, updates, granted, attemptVars>>

ContinueAsNew ==
    /\ pc = "Draining"
    /\ page <= Pages
    /\ handlers = {}
    /\ pc' = "Activity" /\ run' = run + 1 /\ tries' = 1 /\ iterations' = 1
    /\ UNCHANGED <<page, cursorVars, updates, granted, attemptVars>>

(* The workflow is closed; attempts it no longer waits for may go on.      *)
Done ==
    /\ pc \in {"Completed", "Failed"}
    /\ UNCHANGED vars

Attempt(a) ==
    \/ \E t \in Tokens, v \in Inputs : GetIdentity(a, t, v)
    \/ ReceiveBlock(a)
    \/ GiveUp(a)
    \/ FindValue(a)
    \/ MissValue(a)
    \/ AttemptCompletes(a)

Workflow ==
    \/ StartAttempt
    \/ AttemptFails
    \/ Complete
    \/ ContinueAsNew

Network ==
    \/ \E u \in updates : AcceptUpdate(u)
    \/ \E u \in handlers : AllocateBlock(u)

Next ==
    \/ Workflow
    \/ Cancel
    \/ Network
    \/ \E a \in Attempts : Attempt(a)
    \/ Done

(* Temporal keeps the workflow's tasks going and times a silent activity   *)
(* out, and runs the handlers that have started.                           *)
Fairness ==
    /\ WF_vars(Workflow)
    /\ WF_vars(\E u \in handlers : AllocateBlock(u))

Spec == Init /\ [][Next]_vars /\ Fairness
------------------------------------------------------------------------------
Updates == [attempt : Attempts, token : Tokens, row : Nat, again : BOOLEAN]
Calls == {NoCall} \cup [token : Tokens, input : Inputs, again : BOOLEAN]

(* Every variable keeps its type; an attempt that waits for a block or     *)
(* chooses a value is in a call.                                           *)
TypeOK ==
    /\ pc \in {"Activity", "Draining", "Completed", "Failed"}
    /\ run \in Nat \ {0} /\ page \in 1..(Pages + 1)
    /\ tries \in 1..MaxAttempts /\ iterations \in 1..MaxIterations
    /\ pc = "Activity" => page <= Pages
    /\ cursors \in [Tokens -> Nat]
    /\ handlers \subseteq Updates /\ updates \subseteq Updates
    /\ granted \subseteq [update : Updates, start : Nat \ {0}]
    /\ stage \in [Attempts ->
                    {"Unused", "Working", "Waiting", "Choosing", "Gone"}]
    /\ home \in [Attempts -> Nat]
    /\ row \in [Attempts -> Nat] /\ giveUps \in Nat
    /\ call \in [Attempts -> Calls]
    /\ \A a \in Attempts : stage[a] \in {"Waiting", "Choosing"} =>
          call[a] \in [token : Tokens, input : Inputs, again : BOOLEAN]
    /\ block \in [Attempts -> [Tokens -> Nat]]
    /\ used \in [Attempts -> [Tokens -> SUBSET Nat]]
    /\ issued \subseteq [attempt : Attempts, token : Tokens, row : Nat,
                         input : Inputs, value : Nat]

(* No identity of a column is given to two rows, be they rows of one page, *)
(* of two attempts at a page, of an attempt given up long ago, or of two   *)
(* runs of the workflow; and none is 0, or the value it stands for.        *)
IdentitiesAreFresh ==
    \A i \in issued :
       /\ i.value \notin {0, i.input}
       /\ \A j \in issued : i.token = j.token /\ i.value = j.value => i = j

(* The blocks of a column do not overlap, whether or not their answers     *)
(* arrived, and the cursor the next run gets lies past them all.           *)
BlocksApart ==
    \A g \in granted :
       /\ g.start + BlockSize <= cursors[g.update.token]
       /\ \A h \in granted \ {g} : g.update.token = h.update.token =>
             \/ g.start + BlockSize <= h.start
             \/ h.start + BlockSize <= g.start

(* The workflow never ends a run with a block half handed out: a handler   *)
(* that has started belongs to the open run, unless the sync failed.       *)
DrainedBeforeClosing ==
    \A u \in handlers : RunIsOpen(home[u.attempt]) \/ pc = "Failed"

(* A run continues as new exactly after MaxIterations pages, and the pages *)
(* of all runs follow each other: none is synced twice, none is left out.  *)
PagesFollowEachOther ==
    /\ pc = "Activity" =>
          page = (run - 1) * MaxIterations + iterations
    /\ pc = "Draining" /\ page <= Pages => page = run * MaxIterations + 1
    /\ pc = "Completed" => page = Pages + 1 /\ Pages <= run * MaxIterations

(* Continuing as new, and whatever else happens, keeps the cursors.        *)
CursorsNeverMoveBack ==
    [][\A t \in Tokens : cursors'[t] >= cursors[t]]_vars

(* The sync ends, though it waits for the handlers of its updates.         *)
Termination == <>(pc \in {"Completed", "Failed"})
==============================================================================
