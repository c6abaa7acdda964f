# Trading signal copier: TLA+ models and proofs

The repository copies trades: *traders* share their MT5 accounts, *followers*
subscribe, an isolated runtime reports every trade of a shared account as an
event, and the API's copy worker repeats it on the followers' accounts, on
paper or live through the runtime of the follower. Around this core the API
assigns MT5 terminals to accounts, keeps connections to them, streams snapshots
to the dashboard and manages users and account memberships.

This directory holds TLA+ modules for that system, TLC configurations that
check them on small instances, and TLAPS proofs for all instances.
`PROJECT.json` maps every definition to the lines it models.

## 1. The system

| component | source (under `src/`) | state | operations |
|---|---|---|---|
| Copy worker | `api/src/services/copy_worker.py` | one open transaction per API process | claim an outbox row, settle the event for each subscription, send orders, commit or roll back |
| Copy repository | `api/src/repositories/copy.py` | tables: profiles, subscriptions, policies, events, outbox, executions, mappings, runtimes | share/unshare, subscribe, patch, activate live, ingest, heartbeat, emergency stop |
| Copy routes | `api/src/routers/copy.py` | none | checks, one transaction per request, emergency close through the runtime manager |
| Unit of work | `api/src/db/session.py`, `main.py` | session, worker task | commit at the end of the scope, roll back on any exception; one worker per API process |
| Runtime manager, broker | not in the repository (`RuntimeManagerClient` calls it) | orders by idempotency key, positions | orders, emergency close |
| Runtime pool | `api/src/runtime_pool.py` | JSON registry account -> MT5 endpoint | assign, look up, release, validate |
| Executor cache | `api/src/dependencies.py` | account -> executor | get or create, connect, restore, clear |
| MT5 executor | `api/src/trading/executor.py` | adapter, connected flag, credentials | connect, reconfigure, disconnect, reconnect around every call |
| Order desk | `api/src/trading/executor.py` (order methods), `routers/orders.py`, `routers/positions.py` | none of its own: the terminal's orders, positions and deals | place, modify, close, close in part, cancel, pair the history |
| WebSocket feed | `api/src/websocket/manager.py`, `broadcaster.py`, `main.py` | connections by account, snapshot cache, failure counters | accept, broadcast, degrade, recover |
| Dashboard hook | `dashboard/src/hooks/use-websocket.ts` | a socket, a generation, a timer, what is shown | connect, reconnect, wake, switch account |
| Access store | `api/src/access_store.py`, `account_store.py`, `routers/access.py`, `routers/accounts.py`, `security.py` | `access.json`, `accounts.json` | sign in, invite, update, remove, create and choose an account |
| Strategy SDK | `strategy-sdk/src/trading_strategy_sdk/` | immutable snapshots and outputs | validate a snapshot (`StrategyContext`), validate an output |
| Memberships | `api/src/repositories/accounts.py` | account -> members with roles | add, remove under a row lock; only tests call them |
| Other | config presets, legacy import, dashboard pages | | |

How they interact: a runtime posts events and heartbeats to the copy routes;
the repository stores the event and an outbox row in one transaction; the
worker polls the outbox, locks the oldest pending row (`FOR UPDATE SKIP
LOCKED`), and while its transaction is open calls the runtime manager once per
live follower; dashboard requests change profiles and subscriptions meanwhile.
The trading routes and the broadcaster reach an account's terminal through the
executor cache; a dashboard opens one WebSocket for the account it shows, and
every request acts as the member the access store finds for its identity. A
strategy runs behind the SDK's two validators on a platform that is not in the
repository.

What is hard: the worker's transaction spans calls to the outside world, so a
rollback undoes the ledger and not the orders; subscriptions are read once at
the claim and used minutes later; a timeout says nothing about the order; every
failure leads to a new claim of the same row; several API processes may run a
worker on one outbox; requests read a profile and write a subscription later.

What makes the core correct:

* an event is settled once and for all its followers together, or not at all;
* the ledger never says more than the broker did; every copied ticket goes back
  to an executed open, every closed one to an executed close (the reverse does
  not hold: an open whose answer names no ticket is executed and not tracked);
* nothing is ordered live for a follower who never activated live copying;
* a redelivered event is not ordered twice, apart from rollbacks;
* the tracked tickets of an account stay within its limit;
* a draining subscription stops with its last ticket and not before;
* accepted events are settled in the end.

What makes the other parts correct:

* terminals: no two accounts ever share one; no connection is leaked, or closed while
  `order_send` runs on it (it may be before the answer is read, and the order is then
  repeated); a request places a known number of orders and is answered;
* orders: a partial close never closes the position, and leaves at least the minimum
  volume when the limits of the symbol could be read; a modification keeps the side it was
  not asked to change, also when an answer is lost; the reported history is the true one;
* feed: no socket leaks on either end; once the effects of a render have run, the hook
  shows the account it was rendered with or nothing (the render of a switch still has
  the feed of the account before); once faults stop every dashboard shows its account as it is;
* access: an identity has one record; while there is an active owner, signing in makes
  an owner only in the place of one, whose record is found by e-mail; the disabled stay
  out, and accounts follow the member whose record moves;
* strategies: whatever a strategy answers, no position or order is ever without
  exactly one stop, and in a valid snapshot exits are never blocked by missing data.

## 2. Modules

**`CopyLedger`** is the abstract specification: what a reader of the tables may
rely on. Events are published once per `(trader, external_id)`; one step
settles an event with an outcome for every follower and books tickets exactly
as those outcomes say.

**`CopyEngine`** is the detailed specification. Its variables are the columns
the properties tell apart, one open transaction per worker, and the broker.

| variables | stand for |
|---|---|
| `copyable`, `status`, `mode` | `copy_trader_profiles.is_copyable`, `copy_subscriptions.status`, `.mode` |
| `request` | a follower request between its checks and its commit |
| `log`, `logged`, `outbox` | `copy_trade_events`, `copy_outbox_events.status` |
| `execution` | `copy_executions`: EXECUTED is `"paper"` or `"filled"` by mode |
| `mapping`, `target` | `copy_ticket_mappings.is_open`, `.target_ticket` |
| `runtime` | the last heartbeat said HEALTHY and trading enabled |
| `tx` | the worker's transaction: the row it holds, the followers, statuses and modes it read, what it staged, the order it waits for |
| `sent`, `applied`, `positions` | orders at the runtime manager, orders the broker carried out, copied positions |
| `activated`, `requests`, `aborts` | a history of live activations and two bounds |

Actions follow the code: `Share`/`Unshare` (`upsert_trader`, `patch_trader`),
`BeginCreate`/`CommitCreate`, `BeginActivate`/`CommitActivate`,
`PatchSubscription`, `EmergencyStop`/`EmergencyClose`/`EmergencyCloseFails`,
`Heartbeat`, `IngestEvent`, then the worker: `Claim`, one of `Skip`, `Block`,
`CopyOnPaper`, `RefuseRuntime`, `SendOrder` per follower, `OrderFilled` or
`OrderFails` for the answer, `Commit`, `Abort` (crash, cancellation, lost
database connection) and `FlushFails` (the unique constraint on mappings).
`BrokerApplies` is the environment: an order takes effect any time after it was
sent, or never, whether or not the worker still waits for it. What a
transaction wrote is visible to others only after `Commit`.

Idempotency keys are execution ids (`uuid4`), so an attempt after a rollback has
a new key: `<<event, subscription, attempt>>`.

Abstractions: `reduce` behaves as `modify`; the stop-loss, symbol, daily-loss
and volume rules are a nondeterministic `Block` of opens (the ticket limit is
exact); a policy always exists, because `create_subscription` creates it.
Emergency stop, patch and unshare read and write in one step. A source posts
its events one after the other, so commit order and `created_at` order of a
trader agree.

The answer of the runtime to a live open may name no ticket. The worker then takes the
ticket of the mapping it looked up before the order (`found`), and if there is none
the row is EXECUTED without a ticket (`"unticketed"`) and no mapping is added
(`copy_worker.py:408-417`). Such a position is at the broker and not in the ledger: later
events of its source ticket are blocked, no drain closes it, and the ticket limit, which
counts mappings, does not see it. `Ticketed` are the executed outcomes that are tracked.

**`CopyEngineInv`** states three inductive invariants: `IInv`, `DeliveryInv` and,
for one worker, `OneWorkerInv`. **`CopyEngineProofs`** proves the first and what follows,
**`CopyDeliveryProofs`** the other two; **`MCCopyEngine`** gives TLC its small instances.

**`RuntimePool`** models the isolated MT5 terminals: the persisted registry
(`registry`), the pool of the running deployment (`pool`), the endpoint every
process' cached executor is connected to (`executors`) and the threads inside
`connect_account_executor` (`task`). `Assign` is `assign_runtime_endpoint`,
atomic because it runs under a thread lock and a file lock; `Resolve`, `Obtain`
and `Reconfigure` are the three steps of `connect_account_executor`, between
which other threads, processes and assignments run; `Use` is every other caller
of `get_executor_for_account_id`; `Deploy` restarts the API with another value
of `MT5_RUNTIME_ENDPOINTS` and refuses to start on a colliding registry
(`validate_runtime_pool`). The registry found at the start is arbitrary.
**`RuntimePoolProofs`** proves its properties, **`MCRuntimePool`** is its
instance. All processes run with one pool at a time; the fallback to a single
local terminal, when no pool is configured, is not modelled, nor is
`release_runtime_endpoint`, which nothing calls.

**`TerminalSession`** models the executor of one account and the terminal
behind it, in one API process. `actor` says where the event loop and each worker
thread are. Order and connect requests call the executor synchronously from
`async` handlers, so they run on the event loop one after the other (`BeginOrder`,
`BeginConnect`); the broadcaster's snapshots and recoveries and the restore of an
account run in threads (`Snapshot`, `BeginRecover`, `BeginRestore`,
`RestoreChecks`). `lock` is `_connection_lock`: `Acquire`, then `TearDown`,
`Dial`, `LoginSucceeds`/`LoginFails`, `Swap` and `Drop` are `_reconnect`,
`reconfigure` and `_activate_adapter`. The order methods do not take it.
`execute_signal` is `EnsureConnected` to `Verify`, with the reconnects of
`with_reconnect` around it and around the methods it calls (`Raise`,
`Reconnecting`, `Resume`). An adapter's `_request_lock` is the guard `Quiet`:
its connection is not closed during a remote call. The lock ends with the call
(`OrderAnswered`, `mt5_adapter.py:601-606`): the answer is a reference to an object of the
remote side, and `retcode`, `order` and `price` are read through it afterwards
(`OrderDone`, `Verify`), so they can be read only while its connection is open
(`Readable`). A recovery, or a reconnect of the check after the order itself, may close that
connection in between; then the read raises and the whole method is repeated. `terminal` is the login of
the remote session, which every connection of the account shares. The terminal
executes the order in flight (`BrokerExecutes`) or does not, whatever the answer
becomes.

Abstractions: a snapshot, a ping and a failed dial are one step; the second
symbol name and the two reads of the check after the order are merged into
one method with a reconnect of its own each; an order takes effect while its
call is under way or not at all; times (ping interval, delay between attempts)
are left out, so a ping may happen at any call. **`TerminalSessionProofs`** holds
the proofs, **`MCTerminalSession`** is the instance.

**`TradeHistory`** holds the pure part of the executor's history:
`_pair_closed_deals` as a fold over the deals of a position, and the window that
`get_history_deals` reads. Prices are fractions, because the entry price is a
weighted average. The states of a position are a recursive function over time
(`States`), one deal per step (`Stepped`), so that what a report says can be proved.

**`OrderDesk`** models the order methods as the trading routes call them: one
request at a time (`job`), which reads the market or the position (`ReadMarket`,
`ReadPosition`, `ReadOrder`), sends one request (`Sent`, `Refused`, `AnswerLost`)
and may repair its stops afterwards (`Verify`). A lost answer runs the whole method
once more on what is there by then. `partial_close` reads the limits of the symbol; when that
read has no answer (`executor.py:1130`) it sends the exact share without rounding, minimum or a check
of the rest (`ReadShare`), and the request says so (`informed`). The broker refuses a share that is no
whole number of steps. After a market order the check of its stops, or the read of the answer's price,
may raise as well (`VerifyLost`). The broker is external: the market moves, orders
fill in parts, stops and targets are hit. Prices and volumes are small integers.
The rest of a partially filled order fills only while its position is open; fills
and rests are at least `VolumeMin`; a request whose stops are on the wrong side is
refused; answers are lost at `order_send` and in the check after it only (the other calls are reads,
which `TerminalSession` repeats). `partial_close` has no route, but is a public method.
**`OrderDeskProofs`** holds the proofs, **`MCOrderDesk`** is the instance.

**`FeedSockets`** declares the sockets, which both ends share: the state the browser sees
(`ready`), the peer the server sees, and the message under way. **`FeedHook`** is
`useWebSocket`: `Render` with other properties (`props`), the effects of that render, which run
later (`RunEffects`: cleanup, reset of the feed if `accountId` differs, connect), `Wake`,
`ReconnectTimer`, the token request and what its answer does in each generation (`TokenArrives`, `TokenLate`, `TokenRejected`)
and the socket's handlers (`OnOpen`, `OnMessage`, `OnClose`). **`FeedServer`** is
the endpoint with `ConnectionManager` (`Accept`, `Refuse`, `Leave`) and the
broadcaster: a round over the accounts with subscribers (`StartRound`, `Serve`),
the reads and the recovery in a thread (`Read`, `Recover`, `Reread`), the sends
awaited one by one over the live set (`SendTo`, `SendDone`, `SendAborted`) and
`RuntimeSnapshotCache` (`Success`, `Failure`, `GraceElapses`, `CooldownElapses`).
**`LiveFeed`** composes them with lost connections, restarts of the API and
runtimes that change. Between a render and its effects the hook returns the old feed
(`use-websocket.ts:367`), and the old socket, timer and attempt go on. Abstractions: the
effects of one render are one action (React runs them in one go), and there is no second render
before them; a new token of the same session is a `Reconnect`; one message is under way per socket; a snapshot is an account and whether it is
shown as connected; times are the two events "grace elapsed" and "cooldown elapsed". The
broadcaster's interval and the backoff are "later". **`LiveFeedProofs`** proves its safety
properties, **`MCLiveFeed`** is the instance.

**`AccessStore`** models `access.json` and `accounts.json`: `SignIn` is
`resolve_workos_member` (known id, link by e-mail, new member, with the bootstrap
e-mails and the migration of `users.json`), `AddMember`, `PatchMember` and
`DeleteMember` are the administrators' routes, `AddAccount`, `SetActive` and `PreferAnother` the
accounts'. A handler is `async` without an `await` and runs to its end; it writes
one file after the other in place, and a crash in between (`Save`) leaves the one being
written torn, which reads as empty. A sign-in by e-mail takes the record over whoever it is linked to: nothing
compares `workos_user_id` (`access_store.py:209-236`), so an owner whose stored e-mail is by now that of
another identity loses the record to it. `OwnersAreAppointed` says exactly what may happen: in place of
an owner, and never one more. **`AccessStoreProofs`** proves its properties,
**`MCAccessStore`** is the instance.

**`StrategyContract`** defines what the SDK's models accept on their own: orders, exits, plans,
OCO legs, intents and the requests inside them. **`StrategySession`** puts a strategy behind the two
validators: a bar closes (`CloseBar`), the snapshot is accepted (`ValidContext`) or refused
(`RefuseContext`), the strategy answers with any set of intents of `Outputs`, the output validator
accepts it or not (`Decide`, `Accepted`), and the platform carries the accepted intents out one
after another before the next bar (`Execute`, `Reject`), while orders fill and
stops are hit. The platform is not in the repository: it does what the docstrings
of the intents say, fills at the price that was validated, and starts with an empty book. Ages of bars are
capped; which bar of a symbol is the latest (by close, then by timeframe, `_latest_symbol_basis`)
is kept with the bars (`latest`, `BecomesLatest`), because capped ages cannot tell. `moved` holds the
symbols with a fill since their latest bar. **`StrategySessionProofs`** proves all its invariants,
**`MCStrategySession`** is the instance.

## 3. What TLC checks

Deadlock is checked in all runs but two: in `access_store` everyone can be
locked out (a torn file, everyone disabled), in `live_feed` a
feed without subscribers may be quiet.

| run | instance | states | shows |
|---|---|---|---|
| `copy_ledger` | 1 trader, 1 follower, 1 ticket, 2 events, 1 rollback, 4 requests, fair | 534 934 | live EXECUTED rows are backed by the broker, tracked ones by their mapping and mappings by executed opens (`LedgerMatchesBroker`), tickets by executed events (`TicketsHaveEvents`), orders by a live activation (`OrdersNeedActivation`); events are settled in order (`SettledInOrder`); the worker stops a draining subscription with its last ticket (`WorkerStopsDrained`); accepted events are settled (`EventsSettle`) |
| `copy_workers` | 2 workers, the source reuses tickets, 3 requests | 278 476 | the inductive invariant `IInv`; at most one order per trade and follower plus one per rollback (`OrdersPerTrade`); outcomes and mappings are written once (`LedgerIsWriteOnce`); the engine implements `CopyLedger` (`RefinesLedger`) |
| `copy_fanout` | 2 traders, 2 accounts, 3 subscriptions, 2 events, 1 rollback | 1 850 560 | an event is settled for all its followers or none (`NoPartialResults`, `NoFollowerMissed`); one worker keeps the mappings of an account within the ticket limit across traders (`TicketLimit`) |
| `runtime_pool` | 3 accounts, 3 endpoints, pools of 2 and 3, 2 processes with a thread each | 4 132 | `PInv`; no two accounts share a terminal (`NoSharedTerminal`); assignments move only off retired slots (`StableEndpoint`) |
| `terminal_session` | 1 login, 3 adapters, event loop and 2 threads, 2 attempts to connect, fair | 74 728 | no connection is closed while `order_send` runs on it (`NoCloseInFlight`) or leaked (`NoLeakedConnections`); a request places two orders at most (`AtMostTwoOrders`) and answers "success" only for a placed one (`SuccessIsPlaced`); every request is answered (`EveryCallReturns`) |
| `order_desk` | 1 ticket, 2 market prices, 2 levels, volumes up to 5 with a minimum of 2, 4 deals, 2 moves or faults | 685 771 | a target is kept beyond the price it is judged by (`TargetBeyondPrice`); a partial close never closes the position and, with the limits of the symbol, leaves the minimum (`PartialCloseLeavesRest`); a modification keeps the other side (`ProtectionKept`); reported trades are the true ones (`HistoryAgrees`) |
| `live_feed` | 2 dashboards, 2 accounts, 2 sockets, 2 faults, fair | 775 822 | one socket per hook (`OneSocketPerHook`); an enabled hook always has a way to a socket (`AlwaysAWayForward`); after the effects of a render the account rendered or nothing (`NeverThePreviousAccount`); whoever is subscribed is served, under its own account (`NoGhostSubscribers`); dashboards settle (`DashboardsSettle`) |
| `access_store` | 2 identities, 1 invitation, 2 e-mails, 2 accounts, 1 legacy user, 1 crash, 3 roles | 382 684 | `OneRecordPerIdentity`; an owner remains, invitations and torn files apart (`OwnerRemains`); signing in makes an owner only in the place of one (`OwnersAreAppointed`); the disabled stay out (`DisabledStaysOut`); accounts follow their member (`AccountsFollowTheirMember`) |
| `strategy_session` | 3 subscriptions (a symbol in two timeframes, a second symbol), 2 orders, 2 positions, 2 plans, 1 OCO group, outputs of up to two intents of every kind, hedging | 229 140 | `TypeOK`; every order and position has exactly one stop (`BoundedProtection`); what the output validator let through is accepted by the snapshot validator (`SnapshotAccepted`); pending intents stay valid while others are carried out (`PendingStaysValid`); exits are never blocked by missing data (`ExitsNeverBlocked`) |

*Why the bounds are enough.* Two events are an open and the event that follows
it, or a redelivery. One rollback is the shortest retry, and after
it everything that a second would find. Four requests are share, create,
activate and one more: unshare, patch, create again, emergency stop. Two
workers are enough to contend for a row. Two followers and two traders are
enough to tell "all", "one" and "some" apart. An executor's adapter, one being
connected and one that an order still uses make three adapters; a thread that
holds the connection lock and one that waits for it make two; two attempts are a
failed one and another. No property of `terminal_session` tells logins
apart; the finding run has two. Four deals are two fills and two exits of one
position; two moves are a price that moves and moves back, or a move and a lost
answer. The two levels lie below the market prices and between a sale's and a purchase's, and 5 is a
volume that can be halved into two legal parts and, at 80 %, cannot; without the limits of the symbol the half is
no whole number of steps and the 80 % are sent. In the feed
only one dashboard and one account cost faults (`Unsteady`), so that the other
shows what one account's trouble does to another's; sockets are reused; two
failures are the shortest count that is not the first. In the access
store two identities and two e-mails are enough for an e-mail to change hands;
one crash is the shortest, and every state after it is one the code may meet.
In the strategy session two intents of one output are the shortest
conflict, and two plans and two orders a group with its protection; the second, slower timeframe of the
traded symbol makes bars that are not its latest, and closes with another quote.

`requests`, `aborts`, `logged`, `faults`, `crashes`, `moves` and the deals are
unbounded in the program; the guards of the actions cap them with `MaxRequests`,
`MaxAborts`, `MaxEvents`, `MaxFaults`, `MaxCrashes`, `MaxMoves` and `MaxDeals`.
Symmetry sets are used where values are interchangeable and no liveness property is checked.

`TicketLimit`, `SettledInOrder` and `WorkerStopsDrained` hold for one worker, the deployment of one API
process; with two, two transactions may count the same tickets or overtake each
other, which `SKIP LOCKED` permits. `HistoryAgrees` speaks of positions whose entries lie on one side of
the start of the window; without that condition see the finding below.

### Where code and documents disagree

Each of these runs ends in a counterexample to a sentence of the repository.

| run | sentence | what happens |
|---|---|---|
| `finding_event_twice` | `models/copy.py:284`: "idempotent lifecycle event" | the idempotency key is the id of a row that a rollback discards; the retry has a new one |
| `finding_failed_reconfigure` | `trading/executor.py:262`: "The current connection is left untouched if the new login fails" | login shuts the shared remote session down before it tries the new credentials |
| `finding_history_window` | `trading/executor.py:33`: "maintains the volume-weighted entry price across multiple fills and partial closes" | a window that starts between two fills of a position reports the price and the time of the later fills |

Other disagreements met while modelling, which no run shows:

* `repositories/copy.py:288` says "opens stop immediately": a transaction, or a
  follower's request, that read the trader as sharing finishes after the opt-out
  (`copy_worker.py:457`).
* `repositories/copy.py:289` says that a drain lasts "until every copied ticket is
  flat": an order that timed out and was carried out, or a live position closed on paper,
  outlives it (`copy_worker.py:429`).
* `copy_worker.py:484` says "Continuously drain durable events": a second open of one
  source ticket breaks the unique constraint on every attempt, and the oldest row is claimed
  for ever (`copy_worker.py:417`).
* `strategy-sdk/README.md` says that missing or stale data leaves "protective exits
  eligible": a managed stop is judged by the latest visible bar (`context.py:322`), which may be
  older than the fill; if that bar is beyond the stop, the whole snapshot is refused and the strategy is
  not called at all. `SnapshotAccepted` is stated for symbols with a bar since their last fill, and
  `ExitsNeverBlocked` for valid snapshots.
* In the same way a stop that trails from the start is accepted with a distance that a later bid can
  reach, and every snapshot is refused while the bid is that low (`orders.py:295`): the hypothesis
  `TrailsBelowQuotes` of section 5.
* `trading/executor.py:643` says "Stop loss required for all positions": a stop on the
  wrong side is dropped and the order is sent without one (`executor.py:686`), and pending orders are
  judged by the current price instead of their entry.
* `use-websocket.ts:300` says that the feed is reset "so the previous account is never shown": the
  reset is an effect, and the render with the new account still returns the old feed
  (`use-websocket.ts:367`); the old socket may update it until the cleanup runs.
* `mt5_adapter.py:588-590` says that remote calls are serialized: reading a field of a returned object is a
  remote call too, and none of those takes the lock. A connection that is closed between an order and the read of its
  answer makes the order look lost, and it is placed again (`executor.py:732`).
* `tests/test_multi_account.py:320` expects the last active owner to be kept: inviting the
  owner's e-mail again with another role demotes that owner (`access_store.py:333`). `OwnerRemains`
  excepts invitations. An invitation is known by what it does, so a change of role alone that does the same is
  excepted too; the guard of the status (`access_store.py:377`) shows through combined updates. In other words an
  invitation may do what the update refuses.
* The docstring at `broadcaster.py:42` promises that an idle gap is not shown as a disconnect: one slow or missed read
  after the cache has been idle is.

Two more observations: a legacy user who is invited before the first sign-in is
never migrated, and a sign-up after a removal may get a legacy active account of another
member (`get_preferred_account` repairs it at the next read).

## 4. Fairness

`CopyEngine!FairSpec` assumes weak fairness of `WorkerStep` for every worker:
`run_copy_worker` loops until shutdown, sleeps a second after every exception,
and each call it awaits has a timeout (ten seconds for orders), so a worker
that can take a step takes one. Nothing is assumed of followers, traders,
runtimes or the broker; an order may stay unanswered (`OrderFails` is the
timeout). `Abort` is bounded by `MaxAborts`: `EventsSettle` says that events
are settled if rollbacks do not go on for ever. `FlushFails` is not bounded, and
with sources that reuse tickets it is what defeats the property.

`TerminalSession!FairSpec`: remote calls end, at the latest with RPyC's timeout
of 300 seconds, and attempts to connect are counted, so weak fairness of
`OrderStep(Loop)` and of every `LockStep` is what the code gives. The event loop
gets the connection lock by strong fairness: an `RLock` promises no order, but
threads take it once in a broadcast interval and release it in between, so the
loop, which waits blocked in `acquire`, meets it free again and again.

`LiveFeed!FairSpec` assumes weak fairness of what the browser and the event loop
run by themselves: the reconnect timer, the token promise, a socket's opening, messages and
close, the endpoint's tasks, the broadcaster, and the passing of the grace period and the
cooldown. Nothing is assumed of what costs a fault (lost connections, rejected tokens,
restarts, runtimes that change, renders with other properties, wakes), so `DashboardsSettle` is about what happens when they stop.
Rounds that are given up because a set changed under their iteration are part of the model; a client that
reconnected for ever could starve them, which `MaxFaults` excludes. A socket that stays in CONNECTING has no
timer in the hook; fairness of `OnOpen` and `OnClose` is the browser's own timeout.

## 5. Proofs

Eight modules prove theorems, each for every value of the constants.

**Copying.** `IInv` holds for any number of workers and any source.

| module (obligations) | theorem | states |
|---|---|---|
| `CopyEngineProofs` (733) | `InvariantHolds` | `Spec => []IInv` |
| | `TypeCorrect` | `Spec => []TypeOK` |
| | `ResultsAreAtomic` | `Spec => []NoPartialResults` |
| | `LedgerIsTrue` | `Spec => []LedgerMatchesBroker` |
| | `LiveFailsClosed` | `Spec => []OrdersNeedActivation` |
| `CopyDeliveryProofs` (866) | `EngineImplementsLedger` | `Spec => RefinesLedger` |
| | `LedgerRowsAreFinal` | `Spec => LedgerIsWriteOnce` |
| | `TicketsAreBacked` | `Spec => []TicketsHaveEvents` |
| | `FollowersAreServed` | `Spec => NoFollowerMissed` |
| | `OrdersAreCounted` | `Spec => []OrdersPerTrade` |
| | `EventsStayInOrder` | `OneWorker => (Spec => []SettledInOrder)` |
| | `AccountsStayWithinLimit` | `OneWorker => (Spec => []TicketLimit)` |
| | `DrainsEndFlat` | `OneWorker => (Spec => WorkerStopsDrained)` |

`NoPartialResults`, `LedgerMatchesBroker` and `OrdersNeedActivation` are not inductive. `NoPartialResults` needs that a worker
holds a *pending* row that nobody else holds (`LocksExclusive`), because the
commit writes outcomes and marks that row. `LedgerMatchesBroker` speaks of
committed rows, while the truth about an order is first known to an open
transaction: `StagedSound` says what a transaction may have staged, and
`FilledIsMapped` that an open EXECUTED with a ticket already has its mapping, so a later commit
cannot take over its target; an open without one has no mapping to lose. `OrdersNeedActivation` follows from
`LiveWasActivated`, which follows live mode from the row into the snapshot of
the transaction. `RowsFollowLog` and `OrdersSound` tie orders to accepted
events, whose log entries never change.

`DeliveryInv` adds what delivery needs: accepted events have distinct `(trader, external_id)`
(`EventsAreDistinct`), an attempt at an event costs a
rollback (`AttemptsCounted`), and the followers a transaction has dealt with are those
it has staged (`FollowersInHand`). The refinement maps initial states to initial states, `IngestEvent` to a
publication, `Commit` to a settlement and every other step to a stutter.
`OrdersPerTrade` is a cardinality: the attempts of a trade are injected into the
rollbacks.

`OneWorkerInv` is stated under `OneWorker` (a single worker): it
holds the oldest row that is not processed (`OldestInHand`), an open it has staged or
waits for fits the limit of the account (`StagedFits`), and a subscription it is
about to stop has closed its last ticket (`StopsAreFlat`); `TicketsFinite` lets the
finite-set theorems count. With two workers all three theorems are false, as section 3 says.

**Terminals.** `RuntimePoolProofs` (182) proves `PoolInvariant` (`PInv`), `TerminalsAreIsolated`
(`NoSharedTerminal`) and `EndpointsAreStable` (`StableEndpoint`) for any
accounts, endpoints, pools, processes and threads. `PInv` says that every cached
executor, and every endpoint on its way to one, is the persisted assignment of
its account in a pool without duplicates: an assignment inside the pool never
moves while the deployment runs, so what a thread resolved earlier is still
right when it reconfigures.

`TerminalSessionProofs` (1147) proves for any logins, adapters,
threads and number of attempts `ConnectionInvariant` (`SInv`), with
`OrdersKeepTheirConnection` (`NoCloseInFlight`) and `ConnectionsAreNotLeaked`
(`NoLeakedConnections`), and `OrderInvariant` (`OInv`), with `OrdersAreBounded`
(`AtMostTwoOrders`) and `SuccessNeedsAnOrder` (`SuccessIsPlaced`). `SInv` adds
that the lock has the holder the phases say, that an adapter in hand is being
connected, being dropped or in use by an order and its answer, and that whoever
dials has credentials: without them a thread could overwrite the only
reference to an open connection, or close the one `order_send` runs on. It does not say that an answer
can be read: `OInv` and `AtMostTwoOrders` hold although it may not. Steps outside
the lock are reduced to one lemma (`OutsideLock`), steps of its holder to another
(`InsideLock`). `OInv` bounds the orders placed by the place the request has
reached, in its first attempt and in the repeated one, across the reconnects
nested in both.

**Access.** `AccessStoreProofs` (601) proves `StoreInvariant` (`AInv`, the types
and `OneRecordPerIdentity`) and from it `IdentitiesKeepOneRecord`, `AnOwnerRemains` (`OwnerRemains`),
`TheDisabledStayOut` (`DisabledStaysOut`), `AccountsAreNotOrphaned`
(`AccountsFollowTheirMember`) and `NobodyAppointsThemselves` (`OwnersAreAppointed`). The
invariant is needed by the rekeying of a record at sign-in: the id it moves to must
be free, which holds only if no other record has the identity. `NobodyAppointsThemselves` follows what a
sign-in writes (`SignInWrites`): a known record with its rank, a new record that is no owner's while there is one, or
the record of another id with its rank and e-mail, which leaves that id.

**Feed.** `LiveFeedProofs` (1014) proves `FeedInvariant` (`FInv`), `SocketsAreNotLeaked`
(`OneSocketPerHook`), `HooksNeverStall` (`AlwaysAWayForward`), `AccountsAreNotMixed`
(`NeverThePreviousAccount`) and `SubscribersAreServed` (`NoGhostSubscribers`). `FInv`
adds to them what each end knows of a socket (`SocketsSound`), that what a hook shows and connects to is
what its effects last ran for, whatever it has been rendered with since (`FeedSound`), that
what is in flight to a live socket is about its account (`HookInv`) and that
the sets the broadcaster iterates hold sockets of the account it serves (`ServerInv`).

**Orders.** `OrderDeskProofs` (2267) proves for any tickets, prices, volumes and
percentages `DeskInvariant` (`DInv`), `PartialClosesArePartial`
(`PartialCloseLeavesRest`), `ProtectionIsKept` (`ProtectionKept`),
`TargetsAreBeyond` (`TargetBeyondPrice`), `HistoryInvariant` (`HInv`) and `HistoryIsTrue`
(`HistoryAgrees`). The executor reads a position, awaits, and
sends a request computed from what it read. `DInv` says why that is safe (`Fits`):
until the request is carried out the position may only have grown, by fills of at
least `VolumeMin`, with its protection unchanged, or be gone for good. The rest of a
partial close is then still at least the minimum, or, when it was computed without the limits of the symbol,
more than nothing, and the side a modification
leaves alone is still the one in force. `TargetsAreBeyond` is stated under
`NoStopAtTwice`: when the stop of a sale is exactly twice its price and every target is
breached, the 1:1 target is 0, which means none.

`HistoryIsTrue` relates the broker's positions to what is read off their deals, over any
history. `HInv` says that the deals of every position, folded up to now, give the volume, side,
opening time and average price the position has (`BooksAgree`), and that they did so
for the position every exit closed (`ExitsAgree`); it needs the numbering of the deals
(`DealsOK`) and that the rest of a filled order is on the side of its position
(`OneSide`), or a fill would turn the state around. A new deal is later than all others,
so the states before it are those of the shorter history: an induction over
times. The induction theorems of the library take an operator, so it is made
with the least time at which two histories differ, which its theorem about well-founded
orders gives. A report then agrees, because the window either holds all
deals of a position or `EntryMissing` fetches them.

**Strategies.** `StrategySessionProofs` (3422) proves for any spec, ids, intents and quotes:

| theorem | states |
|---|---|
| `SessionInvariant` | `Spec => []SessionInv` |
| `ProtectionIsBounded` | `Spec => []BoundedProtection` |
| `AcceptedStaysAcceptable` | `Spec => []PendingStaysValid` |
| `GoodSessionInvariant` | `Spec => [](SessionInv /\ GoodSession)` |
| `SessionTypes` | `Spec => []TypeOK` |
| `SnapshotsAccepted` | `TrailsBelowQuotes => (Spec => []SnapshotAccepted)` |
| `ExitsAreNeverBlocked` | `CanClose => (Spec => []ExitsNeverBlocked)` |
 An output is validated against one snapshot, but its intents are
carried out one after another against a book that has changed. The argument has two halves. Carrying an intent out
keeps a consistent book (`BookSound`: a plan names a target that is there, a target has at most one
plan, the legs of a group are orders that name the group) and gives every target exactly one stop; and it changes
nothing but what the intent reserves (`Frame(Reserved(i))`). The output validator lets no two intents reserve the
same target (`NoCollisions`), so every other accepted intent reads the same state as before and
stays acceptable (`StaysAcceptable`). Fills happen only when nothing is pending.

That the two validators agree (`SnapshotsAccepted`) is not inductive. `GoodSession` follows every rule of
`validate_snapshot` back to the intent that was accepted under it: an order satisfies the order rules
with the plan it has now (`OrderGood`), a position those rules of its plan that no quote can change
(`PositionGood`), and its stop is away from the last quote unless a fill came after it (`StopsAway`:
a bar closes the positions whose stop it hits before the next snapshot is made). A fill turns the first into
the second, because a plan is validated against the fill price of its order. Orders and groups name each other
(`GroupsLinked`), one subscription of every visible symbol has its latest bar (`LatestOK`; the quote of
an older timeframe never replaces it), and the types of the intents reach the book (`Shapes`).
Two theorems have a hypothesis, and each is needed. `TrailsBelowQuotes`: a stop that trails from the start
is checked against the bid of its acceptance (`orders.py:265`) and again against every later bid; when a bid falls
to the trailing distance the derived stop is no price, and the whole snapshot is refused.
`CanClose`: a spec that declares `BUY` without `SELL`, or no policy but BOC, may open a position with
an accepted intent and have every `ClosePositionIntent` for it refused (`output.py:564`). The instance
satisfies both (`HypothesesAssumption`); TLC refutes `ExitsNeverBlocked` in it without `SELL`, and `SnapshotAccepted`
with a trailing distance of 5 given to a position of a plain limit order.

*Assumptions*, which TLC evaluates: `CopyAssumption` (subscriptions are pairs of a trader and an
account, each made by one user; bounds are natural numbers), `PaperAssumption` (paper
tickets are not broker orders), `PoolAssumption` (a pool names an endpoint
once, as `configured_runtime_endpoints` enforces), `SessionAssumption` (the event
loop is not a thread, at least one attempt to connect), `AccessAssumption` (ids
of different kinds differ; legacy accounts belong to legacy users),
`NoneAssumption`, `MountedAssumption`, `SocketsAssumption`, `RecoverAssumption` and
`FaultsAssumption` (the feed's sets and bounds), `DeskAssumption` (prices and volumes are
natural numbers, the least volume is positive), `SpecAssumption`, `IntentsAssumption`, `TypesAssumption` and
`IdsAssumption` (the spec is valid; the intents are those the SDK's models can construct, with fields of the
types declared there; prices are integers; no id is `None`).

*Only model-checked:* the liveness properties `EventsSettle`, `EveryCallReturns` and
`DashboardsSettle`, which are out of TLAPS' reach. Every invariant and every action property that a passing
run checks is a theorem.

## 6. Not modelled

* Memberships (`repositories/accounts.py`): nothing in the API calls them, tests only.
* Account configuration, its encryption and the setup status; tokens, passwords and
  headers of `security.py`; configuration presets; the broker catalogue and the plain
  queries: requests without a state machine of their own.
* `execute_dual_signal`, `move_to_breakeven` and `calculate_default_sl`, which nothing calls;
  the wrappers of single MT5 calls and the Windows adapter.
* Deals whose entry is `INOUT` or `OUT_BY` (2 and 3), which `_pair_closed_deals` skips
  (`executor.py:72`) and only netting reversals and "close by" make; exits without a position id
  (`executor.py:1521`); a fetch of a position's history that comes back empty (`executor.py:1532`).
* Volumes, prices and the arithmetic of the copy worker's risk rules: any open may be blocked.
* Concurrent ingestion by one source (commit order and `created_at` order may then differ), and
  emergency stop, patch and unshare as a read and a write in two steps.
* The legacy migration of paper records runs once. The dashboard's pages send the requests the models enumerate.
* In the strategy SDK identifiers, canonical serialisation, strategy state and parameters. `ModifyManagedExit` skips
  the bracket check when no bar of its symbol is visible (`output.py:633`), and is modelled so. Trailing
  distances in the instance are 1.

## 7. Plan

1. `CopyEngine`: concurrent ingestion and the two-step requests of section 6.
2. `RiskRules` (`copy_worker.py` `_scaled_volume`, `_risk_decision`) as operators
   against a reference definition, with volume steps as integers.
3. Proofs: all safety properties of the runs are theorems; new ones follow the models of 1 and 2.
