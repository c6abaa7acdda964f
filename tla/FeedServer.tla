----------------------------- MODULE FeedServer -----------------------------
(***************************************************************************)
(* The API's live feed: the /ws endpoint and its ConnectionManager, and    *)
(* the broadcaster, one task that once an interval reads every account     *)
(* with a subscriber and sends what it got, or what its snapshot cache     *)
(* makes of a read that failed, to the subscribers of that account.        *)
(* Handlers run on one event loop and interleave at every await.           *)
(***************************************************************************)
EXTENDS FeedSockets, Functions

CONSTANTS RecoverAfter    \* recovery_after_failures

ASSUME RecoverAssumption == RecoverAfter \in Nat

VARIABLES
    conns,      \* active_connections, a function on the accounts that have a key
    round,      \* where the broadcaster is
    failures,   \* _failure_counts, counted up to RecoverAfter
    fresh,      \* the last successful read is within the grace period
    cooled,     \* the cooldown since the last recovery has elapsed
    mt5         \* what a read of the account's runtime finds

serverVars == <<conns, round, failures, fresh, cooled, mt5>>

RuntimeStates == {"up", "stuck", "down", "unowned"}  \* stuck: a recovery helps

Idle == [pc |-> "sleep", todo |-> {}, account |-> None, message |-> None,
         size |-> 0, members |-> {}, popped |-> FALSE, seen |-> {}, failed |-> {}]

RoundType ==
    [pc      : {"sleep", "next", "read", "recover", "reread", "send"},
     todo    : SUBSET Accounts,               \* account_ids still to be served
     account : Accounts \union {None},
     message : Messages \union {None},
     size    : Nat,                           \* of the set when its iteration began
     members : SUBSET Sockets,                \* those of them that are still there
     popped  : BOOLEAN,                       \* the set is no longer the manager's
     seen    : SUBSET Sockets,
     failed  : SUBSET Sockets]

Of(a) == IF a \in DOMAIN conns THEN conns[a] ELSE {}

-----------------------------------------------------------------------------
(* The endpoint and the manager.                                           *)

(* connect(): the runtime was restored in a thread, accept() was awaited. *)
Accept(s) ==
    LET a == sockets[s].account
    IN  /\ sockets[s].peer = "restoring"
        /\ sockets' = [sockets EXCEPT ![s].peer = "serving"]
        /\ conns' = [b \in DOMAIN conns \union {a} |->
                        IF b = a THEN Of(a) \union {s} ELSE conns[b]]
        /\ UNCHANGED <<round, failures, fresh, cooled, mt5, faults>>

(* No user or account for this socket, or the client left before accept(). *)
Refuse(s) ==
    /\ sockets[s].peer = "restoring"
    /\ \/ (~Alive(s) \/ sockets[s].lost) /\ UNCHANGED faults
       \/ FaultOf(sockets[s].client)
    /\ sockets' = [sockets EXCEPT ![s] = Done([@ EXCEPT !.peer = "gone"])]
    /\ UNCHANGED serverVars

(* disconnect(): the socket leaves every set, empty sets lose their key.  A *)
(* set that is being iterated goes on without its key.                      *)
Unregistered(s) ==
    LET left == {a \in DOMAIN conns : conns[a] \ {s} # {}}
    IN  [a \in left |-> conns[a] \ {s}]

\* Mutant: disconnect() is called on WebSocketDisconnect only.
LeaveOnDisconnect(s) ==
    /\ sockets[s].peer = "serving"
    /\ ~Alive(s) \/ sockets[s].lost
    /\ sockets' = [sockets EXCEPT ![s] = Done([@ EXCEPT !.peer = "gone"])]
    /\ conns' = IF sockets[s].lost THEN conns ELSE Unregistered(s)
    /\ UNCHANGED <<round, failures, fresh, cooled, mt5, faults>>

Leave(s) ==
    /\ sockets[s].peer = "serving"
    /\ ~Alive(s) \/ sockets[s].lost
    /\ sockets' = [sockets EXCEPT ![s] = Done([@ EXCEPT !.peer = "gone"])]
    /\ conns' = Unregistered(s)
    /\ round' = [round EXCEPT
            !.popped  = @ \/ (round.pc = "send" /\ round.account \notin DOMAIN conns'),
            !.members = @ \ {s}, !.seen = @ \ {s}, !.failed = @ \ {s}]
    /\ UNCHANGED <<failures, fresh, cooled, mt5, faults>>

-----------------------------------------------------------------------------
(* The broadcaster and its snapshot cache.                                 *)

StartRound ==
    /\ round.pc = "sleep"
    /\ \E a \in DOMAIN conns : conns[a] # {}
    /\ round' = [Idle EXCEPT !.pc = "next", !.todo = DOMAIN conns]
    /\ UNCHANGED <<conns, failures, fresh, cooled, mt5, sockets, faults>>

EndRound ==
    /\ round.pc = "next" /\ round.todo = {}
    /\ round' = Idle
    /\ UNCHANGED <<conns, failures, fresh, cooled, mt5, sockets, faults>>

(* manager.broadcast is called with the update; its loop has not begun. *)
Announce(a, status) ==
    round' = [Idle EXCEPT !.pc = IF Of(a) = {} THEN "next" ELSE "send",
                          !.todo = round.todo \ {a}, !.account = a,
                          !.message = [account |-> a, status |-> status],
                          !.size = Cardinality(Of(a)), !.members = Of(a)]

Success(a) ==
    /\ failures' = [failures EXCEPT ![a] = 0]
    /\ fresh'    = [fresh EXCEPT ![a] = TRUE]
    /\ Announce(a, "connected")

Failure(a) == Announce(a, IF fresh[a] THEN "degraded" ELSE "disconnected")

CountFailure(a) ==
    failures' = [failures EXCEPT ![a] = IF @ < RecoverAfter THEN @ + 1 ELSE @]

(* The account's executor: it is read in a thread if this process owns its *)
(* runtime, else (or if there is none to be had) the cache answers.        *)
Serve(a) ==
    /\ round.pc = "next" /\ a \in round.todo
    /\ IF mt5[a] = "unowned"
       THEN CountFailure(a) /\ Failure(a)
       ELSE /\ round' = [round EXCEPT !.pc = "read", !.account = a]
            /\ UNCHANGED failures
    /\ UNCHANGED <<conns, fresh, cooled, mt5, sockets, faults>>

Read ==
    LET a == round.account
    IN  /\ round.pc = "read"
        /\ \/ mt5[a] = "up" /\ Success(a) /\ UNCHANGED cooled
           \/ /\ mt5[a] # "up"
              /\ CountFailure(a)
              /\ IF failures'[a] = RecoverAfter /\ cooled[a]
                 THEN /\ cooled' = [cooled EXCEPT ![a] = FALSE]
                      /\ round' = [round EXCEPT !.pc = "recover"]
                 ELSE Failure(a) /\ UNCHANGED cooled
              /\ UNCHANGED fresh
        /\ UNCHANGED <<conns, mt5, sockets, faults>>

(* recover_connection in a thread. *)
Recover ==
    LET a == round.account
    IN  /\ round.pc = "recover"
        /\ IF mt5[a] \in {"up", "stuck"}
           THEN /\ mt5' = [mt5 EXCEPT ![a] = "up"]
                /\ round' = [round EXCEPT !.pc = "reread"]
           ELSE Failure(a) /\ UNCHANGED mt5
        /\ UNCHANGED <<conns, failures, fresh, cooled, sockets, faults>>

Reread ==
    LET a == round.account
    IN  /\ round.pc = "reread"
        /\ IF mt5[a] = "up" THEN Success(a)
           ELSE Failure(a) /\ UNCHANGED <<failures, fresh>>
        /\ UNCHANGED <<conns, cooled, mt5, sockets, faults>>

(* One step of the loop over the account's live set.  A member that joined *)
(* in place of one that left may be met or missed.                         *)
Unchanged == ~round.popped /\ Cardinality(Of(round.account)) = round.size

SendTo(s) ==
    /\ round.pc = "send" /\ Unchanged
    /\ s \in Of(round.account) \ round.seen
    /\ \/ /\ Alive(s) /\ ~sockets[s].lost /\ sockets[s].inbox = None
          /\ sockets' = [sockets EXCEPT ![s].inbox = round.message]
          /\ round' = [round EXCEPT !.seen = @ \union {s}]
       \/ /\ ~Alive(s) \/ sockets[s].lost
          /\ \E f \in SUBSET {s} :
                round' = [round EXCEPT !.seen = @ \union {s}, !.failed = @ \union f]
          /\ UNCHANGED sockets
    /\ UNCHANGED <<conns, failures, fresh, cooled, mt5, faults>>

SendDone ==
    LET a == round.account
    IN  /\ round.pc = "send" /\ Unchanged
        /\ round.members \subseteq round.seen
        /\ conns' = [conns EXCEPT ![a] = @ \ round.failed]
        /\ round' = [Idle EXCEPT !.pc = "next", !.todo = round.todo]
        /\ UNCHANGED <<failures, fresh, cooled, mt5, sockets, faults>>

(* RuntimeError, "Set changed size during iteration": the round is given up. *)
SendAborted ==
    /\ round.pc = "send" /\ ~Unchanged
    /\ round' = Idle
    /\ UNCHANGED <<conns, failures, fresh, cooled, mt5, sockets, faults>>

-----------------------------------------------------------------------------
(* The environment.                                                        *)

(* Looked at only after a read that failed. *)
GraceElapses(a) ==
    /\ fresh[a] /\ mt5[a] # "up"
    /\ fresh' = [fresh EXCEPT ![a] = FALSE]
    /\ UNCHANGED <<conns, round, failures, cooled, mt5, sockets, faults>>

CooldownElapses(a) ==
    /\ ~cooled[a]
    /\ cooled' = [cooled EXCEPT ![a] = TRUE]
    /\ UNCHANGED <<conns, round, failures, fresh, mt5, sockets, faults>>

RuntimeChanges(a) ==
    /\ FaultOf(a)
    /\ \E st \in RuntimeStates \ {mt5[a]} : mt5' = [mt5 EXCEPT ![a] = st]
    /\ UNCHANGED <<conns, round, failures, fresh, cooled, sockets>>

ServerInit ==
    /\ conns    = [a \in {} |-> {}]
    /\ round    = Idle
    /\ failures = [a \in Accounts |-> 0]
    /\ fresh    = [a \in Accounts |-> FALSE]
    /\ cooled   = [a \in Accounts |-> TRUE]
    /\ mt5      = [a \in Accounts |-> "up"]

(* The API restarts: its sockets are closed, its memory is gone. *)
Restart ==
    /\ Fault
    /\ sockets' = [s \in Sockets |-> Done([sockets[s] EXCEPT !.peer = "gone"])]
    /\ conns' = [a \in {} |-> {}]
    /\ round' = Idle
    /\ failures' = [a \in Accounts |-> 0]
    /\ fresh'    = [a \in Accounts |-> FALSE]
    /\ cooled'   = [a \in Accounts |-> TRUE]
    /\ UNCHANGED mt5
=============================================================================
