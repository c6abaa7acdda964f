----------------------------- MODULE CopyEngine -----------------------------
(***************************************************************************)
(* The copy-trading core: trader profiles, copy subscriptions, the durable *)
(* outbox of trade events, the copy worker that drains it, and the broker  *)
(* runtime it sends live orders to.                                        *)
(*                                                                         *)
(* Everything a transaction writes becomes visible in one step, its        *)
(* commit.  The worker's transaction stays open while it waits for the     *)
(* broker, so API requests, heartbeats and the broker interleave with it.  *)
(***************************************************************************)
EXTENDS Integers, FiniteSets

CONSTANTS
    Traders,             \* trader profiles
    Accounts,            \* follower accounts
    Users,               \* dashboard users that operate follower accounts
    Subs,                \* pairs <<trader, account>> that may be subscribed
    FollowerOf,          \* the user who created each subscription
    Tickets,             \* tickets on the traders' own accounts
    ExternalIds,         \* identifiers the source runtimes give their events
    Workers,             \* API processes, each runs one copy worker
    MaxOpenTrades,       \* max_open_trades of every follower's risk policy
    SourceReusesTickets, \* may a source open the same ticket twice?
    NoTicket,            \* an event without source_ticket
    Paper,               \* the target of a ticket copied in paper mode
    MaxEvents,           \* bound: trade events accepted
    MaxAborts,           \* bound: rolled back worker transactions
    MaxRequests          \* bound: profile and subscription requests

ASSUME CopyAssumption ==
    /\ Subs \subseteq Traders \X Accounts
    /\ FollowerOf \in [Subs -> Users]
    /\ MaxOpenTrades \in Nat \ {0}
    /\ SourceReusesTickets \in BOOLEAN
    /\ NoTicket \notin Tickets
    /\ MaxEvents \in Nat
    /\ MaxAborts \in Nat
    /\ MaxRequests \in Nat

EventIds == 1..MaxEvents
Actions  == {"open", "modify", "close"}      \* "modify" stands for reduce too
Statuses == {"none", "active", "paused", "stopping", "stopped"}

\* A settled execution.  EXECUTED are "paper" and, in live mode, "filled" or,
\* without a target_ticket, "unticketed".
Outcomes == {"none", "blocked", "failed", "paper", "filled", "unticketed"}
Ticketed == {"paper", "filled"}
Executed == Ticketed \cup {"unticketed"}

\* The idempotency key of an order: the execution row of one attempt.
OrderKeys == EventIds \X Subs \X (0..MaxAborts)

ASSUME PaperAssumption == Paper \notin OrderKeys

TraderEvents == [trader   : Traders,
                 external : ExternalIds,
                 action   : Actions,
                 ticket   : Tickets \cup {NoTicket}]

VARIABLES
    copyable,   \* trader -> is_copyable
    status,     \* subscription -> status, "none" before its first request
    mode,       \* subscription -> "paper" or "live"
    request,    \* subscription -> request whose checks passed, not committed
    runtime,    \* account -> last heartbeat said healthy and trading_enabled
    log,        \* event id -> trade event; ids follow created_at
    logged,     \* number of trade events accepted
    outbox,     \* event id -> "absent", "pending" or "processed"
    execution,  \* event id -> subscription -> outcome
    mapping,    \* subscription -> ticket -> "none", "open" or "closed"
    target,     \* subscription -> ticket -> target_ticket of the mapping
    tx,         \* worker -> its open transaction
    sent,       \* order keys sent to the runtime manager
    applied,    \* order keys the broker carried out
    positions,  \* copied positions open at the broker, by their opening order
    aborts,     \* rolled back worker transactions so far
    requests,   \* profile and subscription requests so far
    activated   \* history: subscriptions that ever completed activate-live

apiVars    == <<copyable, status, mode, request, requests, activated>>
ledgerVars == <<log, logged, outbox, execution, mapping, target>>
brokerVars == <<sent, applied, positions>>
vars == <<apiVars, ledgerVars, brokerVars, runtime, tx, aborts>>

TraderOf(s)  == s[1]
AccountOf(s) == s[2]

\* process_pending_once before it claimed anything
Idle == [phase   |-> "idle",
         event   |-> 0,
         attempt |-> 0,
         seen    |-> [s \in Subs |-> "none"],
         live    |-> {},
         todo    |-> {},
         calling |-> {},
         found   |-> {},
         result  |-> [s \in Subs |-> "none"],
         stops   |-> {}]

Transactions == [phase   : {"idle", "running"},
                 event   : EventIds \cup {0},
                 attempt : 0..MaxAborts,
                 seen    : [Subs -> Statuses],
                 live    : SUBSET Subs,
                 todo    : SUBSET Subs,
                 calling : SUBSET Subs,
                 found   : SUBSET Subs,
                 result  : [Subs -> Outcomes],
                 stops   : SUBSET Subs]

TypeOK ==
    /\ copyable \in [Traders -> BOOLEAN]
    /\ status \in [Subs -> Statuses]
    /\ mode \in [Subs -> {"paper", "live"}]
    /\ request \in [Subs -> {"none", "create", "activate"}]
    /\ runtime \in [Accounts -> BOOLEAN]
    /\ logged \in 0..MaxEvents
    /\ log \in [1..logged -> TraderEvents]
    /\ outbox \in [EventIds -> {"absent", "pending", "processed"}]
    /\ execution \in [EventIds -> [Subs -> Outcomes]]
    /\ mapping \in [Subs -> [Tickets -> {"none", "open", "closed"}]]
    /\ target \in [Subs -> [Tickets -> OrderKeys \cup {Paper}]]
    /\ tx \in [Workers -> Transactions]
    /\ sent \subseteq OrderKeys
    /\ applied \subseteq OrderKeys
    /\ positions \subseteq OrderKeys
    /\ aborts \in 0..MaxAborts
    /\ requests \in 0..MaxRequests
    /\ activated \subseteq Subs

Init ==
    /\ copyable = [t \in Traders |-> FALSE]
    /\ status = [s \in Subs |-> "none"]
    /\ mode = [s \in Subs |-> "paper"]
    /\ request = [s \in Subs |-> "none"]
    /\ runtime = [a \in Accounts |-> FALSE]
    /\ logged = 0
    /\ log = [e \in 1..0 |-> e]
    /\ outbox = [e \in EventIds |-> "absent"]
    /\ execution = [e \in EventIds |-> [s \in Subs |-> "none"]]
    /\ mapping = [s \in Subs |-> [k \in Tickets |-> "none"]]
    /\ target = [s \in Subs |-> [k \in Tickets |-> Paper]]
    /\ tx = [w \in Workers |-> Idle]
    /\ sent = {}
    /\ applied = {}
    /\ positions = {}
    /\ aborts = 0
    /\ requests = 0
    /\ activated = {}

-----------------------------------------------------------------------------
(* Trader profiles and subscriptions (repositories/copy.py).               *)

CountRequest ==
    /\ requests < MaxRequests
    /\ requests' = requests + 1

Share(t) ==
    /\ CountRequest
    /\ ~copyable[t]
    /\ copyable' = [copyable EXCEPT ![t] = TRUE]
    /\ UNCHANGED <<status, mode, request, activated, runtime, ledgerVars, brokerVars, tx, aborts>>

\* Opting out puts every active or paused follower into the drain-only state.
Drained(t, s) == TraderOf(s) = t /\ status[s] \in {"active", "paused"}

Unshare(t) ==
    /\ CountRequest
    /\ copyable' = [copyable EXCEPT ![t] = FALSE]
    /\ status' = [s \in Subs |-> IF Drained(t, s) THEN "stopping" ELSE status[s]]
    /\ UNCHANGED <<mode, request, activated, runtime, ledgerVars, brokerVars, tx, aborts>>

\* A follower request reads the profile and the runtime, then writes the
\* subscription; other requests can commit in between.
BeginCreate(s) ==
    /\ CountRequest
    /\ request[s] = "none"
    /\ copyable[TraderOf(s)]
    /\ request' = [request EXCEPT ![s] = "create"]
    /\ UNCHANGED <<copyable, status, mode, activated, runtime, ledgerVars, brokerVars, tx, aborts>>

\* Mutant: the mode that was asked for is stored.
StoredModeAsAsked(asked) == asked

\* Asking for live mode stores paper: only activate-live makes it live.
StoredMode(asked) == IF asked = "live" THEN "paper" ELSE asked

CommitCreate(s) ==
    /\ request[s] = "create"
    /\ request' = [request EXCEPT ![s] = "none"]
    /\ \E asked \in {"paper", "live"} : mode' = [mode EXCEPT ![s] = StoredMode(asked)]
    /\ status' = [status EXCEPT ![s] = "active"]
    /\ UNCHANGED <<copyable, requests, activated, runtime, ledgerVars, brokerVars, tx, aborts>>

BeginActivate(s) ==
    /\ CountRequest
    /\ request[s] = "none"
    /\ status[s] # "none"
    /\ copyable[TraderOf(s)]
    /\ runtime[AccountOf(s)]
    /\ request' = [request EXCEPT ![s] = "activate"]
    /\ UNCHANGED <<copyable, status, mode, activated, runtime, ledgerVars, brokerVars, tx, aborts>>

CommitActivate(s) ==
    /\ request[s] = "activate"
    /\ request' = [request EXCEPT ![s] = "none"]
    /\ mode' = [mode EXCEPT ![s] = "live"]
    /\ status' = [status EXCEPT ![s] = "active"]
    /\ activated' = activated \cup {s}
    /\ UNCHANGED <<copyable, requests, runtime, ledgerVars, brokerVars, tx, aborts>>

PatchSubscription(s, value) ==
    /\ CountRequest
    /\ status[s] # "none"
    /\ status' = [status EXCEPT ![s] = value]
    /\ UNCHANGED <<copyable, mode, request, activated, runtime, ledgerVars, brokerVars, tx, aborts>>

\* Emergency stop: the caller's own active subscriptions of the account pause.
Paused(u, a, s) ==
    /\ AccountOf(s) = a
    /\ FollowerOf[s] = u
    /\ status[s] = "active"

EmergencyPause(u, a) ==
    /\ status' = [s \in Subs |-> IF Paused(u, a, s) THEN "paused" ELSE status[s]]
    /\ UNCHANGED <<copyable, mode, request, activated, runtime, ledgerVars, sent, applied,
                   tx, aborts>>

PositionsOf(a) == {p \in positions : AccountOf(p[2]) = a}

EmergencyStop(u, a) ==
    /\ CountRequest
    /\ EmergencyPause(u, a)
    /\ UNCHANGED positions

EmergencyClose(u, a) ==
    /\ CountRequest
    /\ EmergencyPause(u, a)
    /\ positions' = positions \ PositionsOf(a)

\* The runtime manager did not confirm in time: the pause is rolled back with
\* the request, whether or not the broker closed the positions.
EmergencyCloseFails(u, a) ==
    /\ CountRequest
    /\ positions' \in {positions, positions \ PositionsOf(a)}
    /\ UNCHANGED <<copyable, status, mode, request, activated, runtime, ledgerVars, sent, applied,
                   tx, aborts>>

Heartbeat(a) ==
    /\ \E ready \in BOOLEAN : runtime' = [runtime EXCEPT ![a] = ready]
    /\ UNCHANGED <<apiVars, ledgerVars, brokerVars, tx, aborts>>

-----------------------------------------------------------------------------
(* Event ingestion (routers/copy.py, create_trade_event).                  *)

\* Mutant: a redelivered event is stored again.
DeliveredUnchecked(t, x) == FALSE

\* (trader, external_id) names an event: a redelivery finds the stored one.
Delivered(t, x) == \E e \in 1..logged : log[e].trader = t /\ log[e].external = x

Opened(t, k) ==
    \E e \in 1..logged : log[e].trader = t /\ log[e].action = "open" /\ log[e].ticket = k

\* A source posts its events one after the other: the order in which they
\* are committed is the order of created_at.
IngestEvent(t, x, act, k) ==
    /\ logged < MaxEvents
    /\ act = "open" => copyable[t]
    /\ act = "open" /\ k # NoTicket /\ Opened(t, k) => SourceReusesTickets
    /\ ~Delivered(t, x)
    /\ logged' = logged + 1
    /\ log' = [e \in 1..(logged + 1) |->
                 IF e = logged + 1
                 THEN [trader |-> t, external |-> x, action |-> act, ticket |-> k]
                 ELSE log[e]]
    /\ outbox' = [outbox EXCEPT ![logged + 1] = "pending"]
    /\ UNCHANGED <<apiVars, execution, mapping, target, brokerVars, runtime, tx, aborts>>

-----------------------------------------------------------------------------
(* The worker (services/copy_worker.py): one transaction per outbox row.   *)

Running(w) == tx[w].phase = "running"
Action(w)  == log[tx[w].event].action
Ticket(w)  == log[tx[w].event].ticket
Key(w, s)  == <<tx[w].event, s, tx[w].attempt>>

\* Mutant: rows other workers hold are claimed again.
ClaimableWithoutLock == {e \in EventIds : outbox[e] = "pending"}

\* Mutant: a row whose transaction was rolled back is never claimed again.
ClaimableOnce == {e \in EventIds : outbox[e] = "pending" /\ aborts = 0}

\* FOR UPDATE SKIP LOCKED: a row another worker holds is passed over.
Claimable == {e \in EventIds :
                /\ outbox[e] = "pending"
                /\ \A w \in Workers : Running(w) => tx[w].event # e}

\* Mutant: the newest row is claimed.
NewestFirst(e) == \A f \in Claimable : f <= e

OldestFirst(e) == \A f \in Claimable : e <= f

Claim(w) ==
    /\ ~Running(w)
    /\ \E e \in Claimable :
        /\ OldestFirst(e)
        /\ tx' = [tx EXCEPT ![w] =
             [Idle EXCEPT
                !.phase   = "running",
                !.event   = e,
                !.attempt = aborts,
                !.seen    = status,
                !.live    = {s \in Subs : mode[s] = "live"},
                !.todo    = {s \in Subs : /\ TraderOf(s) = log[e].trader
                                          /\ status[s] \in {"active", "paused", "stopping"}}]]
    /\ UNCHANGED <<apiVars, ledgerVars, brokerVars, runtime, aborts>>

\* Mutant: a mapping is added for a failed order too.
AddsFailed(w, s) == /\ Action(w) = "open"
                    /\ Ticket(w) # NoTicket
                    /\ tx[w].result[s] \in Executed \cup {"failed"}

\* The mapping rows the open transaction added, and those it marked closed.
Adds(w, s)   == /\ Action(w) = "open"
                /\ Ticket(w) # NoTicket
                /\ tx[w].result[s] \in Ticketed
Closes(w, s) == Action(w) = "close" /\ tx[w].result[s] \in Executed

\* Mutant: the table has no unique constraint.
ConflictUnchecked(w) == FALSE

\* uq_copy_ticket_subscription_source: the next flush or the commit fails.
Conflict(w) == \E s \in Subs : Adds(w, s) /\ mapping[s][Ticket(w)] # "none"

Mapped(w, s) == Ticket(w) # NoTicket /\ mapping[s][Ticket(w)] # "none"

OpenTickets(a) ==
    {st \in Subs \X Tickets : AccountOf(st[1]) = a /\ mapping[st[1]][st[2]] = "open"}

Ignores(w, s) ==
    \/ execution[tx[w].event][s] # "none"
    \/ Action(w) = "open" /\ tx[w].seen[s] # "active"
    \/ Action(w) # "open" /\ tx[w].seen[s] = "stopped"

\* Mutant: each subscription is counted on its own.
LimitReachedPerSub(s) == Cardinality({k \in Tickets : mapping[s][k] = "open"}) >= MaxOpenTrades

LimitReached(s) == Cardinality(OpenTickets(AccountOf(s))) >= MaxOpenTrades

\* The close leaves the subscription without an open ticket.
Flat(w, s) == \A k \in Tickets : mapping[s][k] = "open" => k = Ticket(w)

\* Mutant: any event on the last ticket stops the subscription.
StoppedByAny(w, s) == tx[w].seen[s] = "stopping" /\ Flat(w, s)

Stopped(w, s) == Action(w) = "close" /\ tx[w].seen[s] = "stopping" /\ Flat(w, s)

Settled(w, s, outcome) ==
    [tx[w] EXCEPT !.todo      = @ \ {s},
                  !.calling   = {},
                  !.found     = {},
                  !.result[s] = outcome,
                  !.stops     = IF outcome \in Executed /\ Stopped(w, s)
                                THEN @ \cup {s} ELSE @]

Settle(w, s, outcome) == tx' = [tx EXCEPT ![w] = Settled(w, s, outcome)]

\* The next subscription of the loop, while no broker call is outstanding.
Turn(w, s) == Running(w) /\ tx[w].calling = {} /\ s \in tx[w].todo

Skip(w, s) ==
    /\ Turn(w, s)
    /\ Ignores(w, s)
    /\ tx' = [tx EXCEPT ![w].todo = @ \ {s}]
    /\ UNCHANGED <<apiVars, ledgerVars, brokerVars, runtime, aborts>>

\* Stop-loss, symbol, daily-loss and volume rules may block any open; the
\* ticket limit must, and so does the lack of a copied position.
Block(w, s) ==
    /\ Turn(w, s)
    /\ ~Ignores(w, s)
    /\ ~Conflict(w)
    /\ Action(w) = "open" \/ ~Mapped(w, s)
    /\ Settle(w, s, "blocked")
    /\ UNCHANGED <<apiVars, ledgerVars, brokerVars, runtime, aborts>>

Accepts(w, s) ==
    /\ Turn(w, s)
    /\ ~Ignores(w, s)
    /\ ~Conflict(w)
    /\ Action(w) = "open" => ~LimitReached(s)
    /\ Action(w) # "open" => Mapped(w, s)

CopyOnPaper(w, s) ==
    /\ Accepts(w, s)
    /\ s \notin tx[w].live
    /\ Settle(w, s, "paper")
    /\ UNCHANGED <<apiVars, ledgerVars, brokerVars, runtime, aborts>>

RefuseRuntime(w, s) ==
    /\ Accepts(w, s)
    /\ s \in tx[w].live
    /\ ~runtime[AccountOf(s)]
    /\ Settle(w, s, "failed")
    /\ UNCHANGED <<apiVars, ledgerVars, brokerVars, runtime, aborts>>

\* The mapping was looked up before the order is sent.
SendOrder(w, s) ==
    /\ Accepts(w, s)
    /\ s \in tx[w].live
    /\ runtime[AccountOf(s)]
    /\ sent' = sent \cup {Key(w, s)}
    /\ tx' = [tx EXCEPT ![w].calling = {s}, ![w].found = IF Mapped(w, s) THEN {s} ELSE {}]
    /\ UNCHANGED <<apiVars, ledgerVars, applied, positions, runtime, aborts>>

\* Mutant: a call without an answer counts as a success.
ConfirmedUnanswered(w, s) == Key(w, s) \in sent

Confirmed(w, s) == Key(w, s) \in applied

\* The target is the ticket of the answer, else the one of the mapping found
\* before, else nothing: then no mapping is added.
Answers(w, s) == IF s \in tx[w].found THEN {"filled"} ELSE {"filled", "unticketed"}

OrderFilled(w, s) ==
    /\ Running(w)
    /\ s \in tx[w].calling
    /\ Confirmed(w, s)
    /\ \E outcome \in Answers(w, s) : Settle(w, s, outcome)
    /\ UNCHANGED <<apiVars, ledgerVars, brokerVars, runtime, aborts>>

\* Rejection, connection error or the ten second timeout: never retried.
OrderFails(w, s) ==
    /\ Running(w)
    /\ s \in tx[w].calling
    /\ Settle(w, s, "failed")
    /\ UNCHANGED <<apiVars, ledgerVars, brokerVars, runtime, aborts>>

\* Mutant: one failed order ends the loop over the followers.
LoopDoneAtFailure(w) ==
    tx[w].todo = {} \/ \E s \in Subs : tx[w].result[s] \in {"failed", "blocked"}

LoopDone(w) == tx[w].todo = {}

RowAfterCommit == "processed"

Commit(w) ==
    /\ Running(w)
    /\ LoopDone(w)
    /\ ~Conflict(w)
    /\ execution' = [execution EXCEPT ![tx[w].event] =
         [s \in Subs |-> IF tx[w].result[s] # "none" THEN tx[w].result[s] ELSE @[s]]]
    /\ outbox' = [outbox EXCEPT ![tx[w].event] = RowAfterCommit]
    /\ mapping' = [s \in Subs |-> [k \in Tickets |->
         CASE k = Ticket(w) /\ Adds(w, s)   -> "open"
           [] k = Ticket(w) /\ Closes(w, s) -> "closed"
           [] OTHER                         -> mapping[s][k]]]
    /\ target' = [s \in Subs |-> [k \in Tickets |->
         IF k = Ticket(w) /\ Adds(w, s) /\ tx[w].result[s] = "filled"
         THEN Key(w, s) ELSE target[s][k]]]
    /\ status' = [s \in Subs |-> IF s \in tx[w].stops THEN "stopped" ELSE status[s]]
    /\ tx' = [tx EXCEPT ![w] = Idle]
    /\ UNCHANGED <<copyable, mode, request, requests, activated, log, logged, brokerVars, runtime, aborts>>

\* Mutant: every subscription is committed on its own.
AbortKeepsResults(w) ==
    /\ Running(w)
    /\ aborts < MaxAborts
    /\ aborts' = aborts + 1
    /\ execution' = [execution EXCEPT ![tx[w].event] = tx[w].result]
    /\ tx' = [tx EXCEPT ![w] = Idle]
    /\ UNCHANGED <<apiVars, log, logged, outbox, mapping, target, brokerVars, runtime>>

\* A crash, a lost connection, a shutdown: nothing the transaction wrote stays.
Abort(w) ==
    /\ Running(w)
    /\ aborts < MaxAborts
    /\ aborts' = aborts + 1
    /\ tx' = [tx EXCEPT ![w] = Idle]
    /\ UNCHANGED <<apiVars, ledgerVars, brokerVars, runtime>>

\* The unique constraint rejects a second mapping of one source ticket.  The
\* row is claimed again a second later; the attempt number saturates.
FlushFails(w) ==
    /\ Running(w)
    /\ tx[w].calling = {}
    /\ Conflict(w)
    /\ aborts' = IF aborts < MaxAborts THEN aborts + 1 ELSE aborts
    /\ tx' = [tx EXCEPT ![w] = Idle]
    /\ UNCHANGED <<apiVars, ledgerVars, brokerVars, runtime>>

-----------------------------------------------------------------------------
(* The isolated runtime and the broker behind it (external).               *)

EventOf(key)  == log[key[1]]
TargetOf(key) == target[key[2]][EventOf(key).ticket]

\* A request takes effect at any time after it was sent, or never; anything
\* but an open needs the broker position it names.
BrokerApplies(key) ==
    /\ key \in sent \ applied
    /\ EventOf(key).action # "open" => TargetOf(key) \in positions
    /\ applied' = applied \cup {key}
    /\ positions' = CASE EventOf(key).action = "open"  -> positions \cup {key}
                      [] EventOf(key).action = "close" -> positions \ {TargetOf(key)}
                      [] OTHER                         -> positions
    /\ UNCHANGED <<apiVars, ledgerVars, sent, runtime, tx, aborts>>

-----------------------------------------------------------------------------
ProfileStep == \E t \in Traders : Share(t) \/ Unshare(t)

SubscriptionStep ==
    \E s \in Subs :
        \/ BeginCreate(s) \/ CommitCreate(s)
        \/ BeginActivate(s) \/ CommitActivate(s)
        \/ \E value \in {"active", "paused", "stopping", "stopped"} :
              PatchSubscription(s, value)

AccountStep ==
    \E a \in Accounts :
        \/ Heartbeat(a)
        \/ \E u \in Users : EmergencyStop(u, a) \/ EmergencyClose(u, a)
                            \/ EmergencyCloseFails(u, a)

IngestStep ==
    \E t \in Traders, x \in ExternalIds, act \in Actions, k \in Tickets \cup {NoTicket} :
        IngestEvent(t, x, act, k)

\* The statements of process_pending_once after its claim.
SettleStep(w) ==
    \E s \in Subs :
        \/ Skip(w, s) \/ Block(w, s) \/ CopyOnPaper(w, s) \/ RefuseRuntime(w, s)
        \/ SendOrder(w, s) \/ OrderFilled(w, s) \/ OrderFails(w, s)

WorkerStep(w) == Claim(w) \/ SettleStep(w) \/ Commit(w) \/ FlushFails(w)

BrokerStep == \E key \in sent : BrokerApplies(key)

Next ==
    \/ ProfileStep
    \/ SubscriptionStep
    \/ AccountStep
    \/ IngestStep
    \/ \E w \in Workers : WorkerStep(w) \/ Abort(w)
    \/ BrokerStep

Spec == Init /\ [][Next]_vars

\* run_copy_worker loops for ever and every await in it has a timeout.
Fairness == \A w \in Workers : WF_vars(WorkerStep(w))

FairSpec == Spec /\ Fairness
-----------------------------------------------------------------------------
(* Safety.                                                                 *)

\* A rolled back transaction leaves no trace: the outcomes of an event appear
\* together, with the outbox row marked processed, or not at all.
NoPartialResults ==
    \A e \in EventIds : outbox[e] # "processed" => \A s \in Subs : execution[e][s] = "none"

\* EXECUTED in live mode is never a guess: the broker carried the order out.
\* An open whose position the answer named is tracked by its mapping.
ExecutedIsBacked ==
    \A e \in EventIds, s \in Subs :
        /\ execution[e][s] \in {"filled", "unticketed"} =>
              \E n \in 0..MaxAborts : <<e, s, n>> \in applied
        /\ execution[e][s] = "unticketed" => log[e].action = "open"
        /\ execution[e][s] = "filled" /\ log[e].action = "open" /\ log[e].ticket # NoTicket =>
              \E n \in 0..MaxAborts : target[s][log[e].ticket] = <<e, s, n>>

\* And a mapping follows a broker position only if an order of its own follower,
\* carried out and EXECUTED with a ticket, opened it.
TargetsAreExecuted ==
    \A s \in Subs, k \in Tickets :
        LET key == target[s][k]
        IN  key # Paper => key \in applied /\ key[2] = s /\ execution[key[1]][s] = "filled"

LedgerMatchesBroker == ExecutedIsBacked /\ TargetsAreExecuted

\* Every copied ticket goes back to an open that was executed for the same
\* follower, and every closed one to a close that was.
ExecutedFor(s, k, act) ==
    \E e \in EventIds :
        /\ outbox[e] = "processed"
        /\ log[e].action = act
        /\ log[e].ticket = k
        /\ execution[e][s] \in Executed

TicketsHaveEvents ==
    \A s \in Subs, k \in Tickets :
        /\ mapping[s][k] # "none" => ExecutedFor(s, k, "open")
        /\ mapping[s][k] = "closed" => ExecutedFor(s, k, "close")

\* Live copying fails closed: no order leaves for a subscription whose owner
\* never completed a live activation, whatever mode was asked for and however
\* requests and transactions interleave.
OrdersNeedActivation == \A key \in sent : key[2] \in activated

\* A trade the source announces repeatedly is ordered once per follower, and
\* once more at most for every worker transaction that was rolled back.
OrdersPerTrade ==
    \A s \in Subs, x \in ExternalIds :
        Cardinality({key \in sent : key[2] = s /\ EventOf(key).external = x}) <= 1 + aborts

\* One worker settles a trader's events in the order they were accepted, so a
\* close never overtakes the open it belongs to.
SettledInOrder ==
    \A e, f \in 1..logged :
        e < f /\ log[e].trader = log[f].trader /\ outbox[f] = "processed" =>
           outbox[e] = "processed"

\* One worker never lets an account hold more tracked tickets than its policy
\* allows, counting the mappings of all traders it follows (a position that no
\* mapping tracks is not counted).
TicketLimit == \A a \in Accounts : Cardinality(OpenTickets(a)) <= MaxOpenTrades

-----------------------------------------------------------------------------
(* What no step may do.                                                    *)

\* Outcomes are final, tickets only go from absent to open to closed, and a
\* mapping keeps the broker ticket it was created with.
LedgerIsWriteOnce ==
    [][/\ \A e \in EventIds, s \in Subs :
             execution[e][s] # "none" => execution'[e][s] = execution[e][s]
       /\ \A s \in Subs, k \in Tickets :
             mapping[s][k] # "none" =>
                /\ mapping'[s][k] \in {mapping[s][k], "closed"}
                /\ target'[s][k] = target[s][k]]_vars

\* An event is marked processed only once it has an outcome for every follower
\* that was active when it was claimed, however often the claim was retried.
NoFollowerMissed ==
    [][\A w \in Workers :
         Running(w) /\ outbox[tx[w].event] # "processed" /\ outbox'[tx[w].event] = "processed" =>
            \A s \in Subs :
               TraderOf(s) = log[tx[w].event].trader /\ tx[w].seen[s] = "active" =>
                  execution'[tx[w].event][s] # "none"]_vars

\* The worker ends a draining subscription only when its last ticket closes.
WorkerStopsDrained ==
    [][\A s \in Subs :
         outbox' # outbox /\ status[s] # "stopped" /\ status'[s] = "stopped" =>
            \A k \in Tickets : mapping'[s][k] # "open"]_vars

-----------------------------------------------------------------------------
(* Refinement.                                                             *)

Ledger == INSTANCE CopyLedger WITH outcome <- execution, book <- mapping

\* Seen from outside its transactions the engine is a ledger that settles one
\* event per step, for all followers at once, and books tickets accordingly.
RefinesLedger == Ledger!Spec

-----------------------------------------------------------------------------
(* Liveness.                                                               *)

\* Every accepted event is settled, if rollbacks are not forever.
EventsSettle == \A e \in EventIds : outbox[e] = "pending" ~> outbox[e] = "processed"

-----------------------------------------------------------------------------
(* A claim of the repository that the code does not keep.                  *)

\* models/copy.py, CopyTradeEvent: an "idempotent lifecycle event".
EventOnceAtBroker ==
    \A e \in EventIds, s \in Subs :
        Cardinality({n \in 0..MaxAborts : <<e, s, n>> \in applied}) <= 1
=============================================================================
