---------------------------- MODULE FeedSockets ----------------------------
(***************************************************************************)
(* The WebSockets between the dashboards and the API: what the browser and *)
(* the server each know of a socket.  FeedHook acts on the browser's side, *)
(* FeedServer on the server's; LiveFeed puts the two together.             *)
(***************************************************************************)
EXTENDS Naturals, FiniteSets

CONSTANTS
    Clients,    \* mounted useWebSocket hooks
    Accounts,   \* trading accounts
    Sockets,    \* sockets that exist at the same time
    MaxFaults,  \* bound on faults and on what a user does to a dashboard
    Unsteady,   \* bound: the hooks and accounts that meet faults of their own
    Mounted,    \* the account each hook shows at first
    None

ASSUME NoneAssumption == None \notin Clients \union Accounts \union Sockets

ASSUME MountedAssumption == Mounted \in [Clients -> Accounts]

ASSUME SocketsAssumption == IsFiniteSet(Sockets)

VARIABLES
    sockets,    \* both ends of every socket
    faults      \* faults and user actions that are still to come

Statuses == {"connected", "degraded", "disconnected"}
Messages == [account : Accounts, status : Statuses]

SocketType ==
    [client  : Clients \union {None},
     account : Accounts \union {None},
     ready   : {"connecting", "open", "closed"},       \* readyState
     peer    : {"restoring", "serving", "gone"},       \* the endpoint's coroutine
     lost    : BOOLEAN,                                \* the connection is dead
     inbox   : Messages \union {None}]                 \* sent, not yet delivered

Closed == [client |-> None, account |-> None, ready |-> "closed",
           peer |-> "gone", lost |-> FALSE, inbox |-> None]

(* A socket both ends are done with may become another one. *)
Done(r) == IF r.ready = "closed" /\ r.peer = "gone" THEN Closed ELSE r

Alive(s) == sockets[s].ready # "closed"

Fault == faults > 0 /\ faults' = faults - 1
FaultOf(x) == x \in Unsteady /\ Fault

(* The network drops a connection; neither end is told. *)
Lose(s) ==
    /\ FaultOf(sockets[s].client)
    /\ ~sockets[s].lost
    /\ sockets' = [sockets EXCEPT ![s].lost = TRUE, ![s].inbox = None]
=============================================================================
