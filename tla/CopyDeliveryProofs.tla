------------------------- MODULE CopyDeliveryProofs -------------------------
(***************************************************************************)
(* The engine implements CopyLedger, its rows are final, its tickets go    *)
(* back to events, no follower is left out and no trade is ordered more    *)
(* often than it was attempted: for every value of the constants.          *)
(***************************************************************************)
EXTENDS CopyEngineProofs, FiniteSetTheorems

-----------------------------------------------------------------------------
(* Which steps write the ledger.                                           *)

LEMMA LedgerSteps ==
  ASSUME TypeOK, [Next]_vars
  PROVE  UNCHANGED ledgerVars \/ IngestStep \/ \E w \in Workers : Commit(w)
  <1>1. CASE ProfileStep \/ SubscriptionStep \/ AccountStep
    BY <1>1, ApiFrame
  <1>2. ASSUME NEW w \in Workers, WorkerStep(w) \/ Abort(w)
        PROVE  UNCHANGED ledgerVars \/ Commit(w)
    <2>1. CASE SettleStep(w)
      BY <2>1, SettleCases DEF Skip, SendOrder
    <2>2. CASE Claim(w) \/ FlushFails(w) \/ Abort(w)
      BY <2>2 DEF Claim, FlushFails, Abort
    <2>3. QED BY <1>2, <2>1, <2>2 DEF WorkerStep
  <1>3. CASE BrokerStep
    BY <1>3 DEF BrokerStep, BrokerApplies
  <1>4. CASE UNCHANGED vars
    BY <1>4 DEF vars
  <1>5. QED
    BY <1>1, <1>2, <1>3, <1>4 DEF Next

\* What a commit writes into the book of tickets.
LEMMA CommitBook ==
  ASSUME IInv, NEW w \in Workers, Commit(w)
  PROVE  /\ log[tx[w].event] \in TraderEvents
         /\ tx[w].result \in [Subs -> Outcomes]
         /\ execution' = [execution EXCEPT ![tx[w].event] = tx[w].result]
         /\ mapping' = [s \in Subs |-> [k \in Tickets |->
               CASE k = Ticket(w) /\ Adds(w, s)   -> "open"
                 [] k = Ticket(w) /\ Closes(w, s) -> "closed"
                 [] OTHER                         -> mapping[s][k]]]
         /\ \A s \in Subs : Adds(w, s) => mapping[s][Ticket(w)] = "none"
         /\ \A s \in Subs : tx[w].result[s] \in Executed /\ Action(w) # "open" => Mapped(w, s)
         /\ \A s \in Subs : tx[w].result[s] # "none" => TraderOf(s) = log[tx[w].event].trader
  <1> USE DEF IInv
  <1>1. Running(w) /\ ~Conflict(w) /\ tx[w] \in Transactions
    BY DEF Commit, TypeOK
  <1>2. tx[w].event \in EventIds /\ outbox[tx[w].event] = "pending"
    BY <1>1 DEF LocksExclusive
  <1>3. log[tx[w].event] \in TraderEvents
    BY <1>2, CopyAssumption DEF RowsFollowLog, EventIds, TypeOK
  <1>4. tx[w].result \in [Subs -> Outcomes]
    BY <1>1 DEF Transactions
  <1>5. execution' = [execution EXCEPT ![tx[w].event] = tx[w].result]
    <2>1. execution' \in [EventIds -> [Subs -> Outcomes]]
      BY WorkerType DEF WorkerStep, TypeOK
    <2>2. \A s \in Subs : execution'[tx[w].event][s] = tx[w].result[s]
      BY CommitEffect
    <2>3. execution'[tx[w].event] = tx[w].result
      BY <1>2, <1>4, <2>1, <2>2
    <2>4. \A e \in EventIds \ {tx[w].event} : execution'[e] = execution[e]
      BY CommitEffect
    <2>5. QED
      BY <1>2, <2>1, <2>3, <2>4 DEF TypeOK
  <1>6. QED
    BY <1>1, <1>3, <1>4, <1>5 DEF Commit, Conflict, StagedSound

-----------------------------------------------------------------------------
(* Refinement: only ingestion and the commit are steps of the ledger.      *)

LEMMA InitRefines == Init => Ledger!Init
  BY DEF Init, Ledger!Init, EventIds, Ledger!EventIds

LEMMA IngestRefines ==
  ASSUME IInv, IngestStep
  PROVE  Ledger!Next
  <1>1. PICK t \in Traders, x \in ExternalIds, act \in Actions, k \in Tickets \cup {NoTicket} :
          IngestEvent(t, x, act, k)
    BY DEF IngestStep
  <1> DEFINE event == [trader |-> t, external |-> x, action |-> act, ticket |-> k]
  <1>2. event \in Ledger!Events
    BY DEF Ledger!Events, Actions
  <1>3. \A e \in 1..logged : <<log[e].trader, log[e].external>> # <<event.trader, event.external>>
    BY <1>1 DEF IngestEvent, Delivered
  <1>4. Ledger!Publish(event)
    BY <1>1, <1>3 DEF IngestEvent, Ledger!Publish
  <1>5. QED
    BY <1>2, <1>4 DEF Ledger!Next

\* A commit settles the event it holds, for all followers at once.
LEMMA CommitRefines ==
  ASSUME IInv, NEW w \in Workers, Commit(w)
  PROVE  Ledger!Next
  <1> DEFINE e == tx[w].event
             result == tx[w].result
  <1>1. /\ log[e] \in TraderEvents
        /\ result \in [Subs -> Outcomes]
        /\ execution' = [execution EXCEPT ![e] = result]
        /\ mapping' = [s \in Subs |-> [k \in Tickets |->
               CASE k = Ticket(w) /\ Adds(w, s)   -> "open"
                 [] k = Ticket(w) /\ Closes(w, s) -> "closed"
                 [] OTHER                         -> mapping[s][k]]]
        /\ \A s \in Subs : Adds(w, s) => mapping[s][Ticket(w)] = "none"
        /\ \A s \in Subs : result[s] \in Executed /\ Action(w) # "open" => Mapped(w, s)
        /\ \A s \in Subs : result[s] # "none" => TraderOf(s) = log[e].trader
    BY CommitBook
  <1>2. /\ e \in EventIds /\ outbox[e] = "pending"
        /\ outbox' = [outbox EXCEPT ![e] = "processed"]
        /\ UNCHANGED <<log, logged>>
    BY CommitEffect
  <1>3. \A s \in Subs : Ledger!Lawful(e, s, result[s])
    <2>1. \A s \in Subs : result[s] = "unticketed" => Action(w) = "open"
      BY DEF IInv, StagedSound, Commit
    <2>2. QED
      BY <1>1, <2>1 DEF Ledger!Lawful, Adds, Mapped, Action, Ticket, TraderOf,
           Ticketed, Ledger!Ticketed, Executed, Ledger!Executed
  <1>4. \A s \in Subs, k \in Tickets :
          (CASE k = Ticket(w) /\ Adds(w, s)   -> "open"
             [] k = Ticket(w) /\ Closes(w, s) -> "closed"
             [] OTHER                         -> mapping[s][k])
            = Ledger!Booked(e, s, k, result[s])
    <2> SUFFICES ASSUME NEW s \in Subs, NEW k \in Tickets
                 PROVE  (CASE k = Ticket(w) /\ Adds(w, s)   -> "open"
                           [] k = Ticket(w) /\ Closes(w, s) -> "closed"
                           [] OTHER                         -> mapping[s][k])
                          = Ledger!Booked(e, s, k, result[s])
      OBVIOUS
    <2>1. k # NoTicket
      BY CopyAssumption
    <2>2. result[s] = "unticketed" => Action(w) = "open"
      BY DEF IInv, StagedSound, Commit
    <2>3. QED
      BY <2>1, <2>2 DEF Ledger!Booked, Adds, Closes, Action, Ticket,
           Ticketed, Ledger!Ticketed, Executed
  <1>5. mapping' = [s \in Subs |-> [k \in Tickets |-> Ledger!Booked(e, s, k, result[s])]]
    BY <1>1, <1>4
  <1>6. Ledger!Settle(e)
    BY <1>1, <1>2, <1>3, <1>5 DEF Ledger!Settle, Outcomes, Ledger!Outcomes
  <1>7. QED
    BY <1>2, <1>6 DEF Ledger!Next, EventIds, Ledger!EventIds

\* The engine implements the abstract ledger: seen from outside its open
\* transactions, process_pending_once settles one event per step.
THEOREM EngineImplementsLedger == Spec => RefinesLedger
  <1>1. IInv /\ [Next]_vars => [Ledger!Next]_(Ledger!ledger)
    <2> SUFFICES ASSUME IInv, [Next]_vars PROVE [Ledger!Next]_(Ledger!ledger)
      OBVIOUS
    <2>1. CASE UNCHANGED ledgerVars
      BY <2>1 DEF ledgerVars, Ledger!ledger
    <2>2. QED
      BY <2>1, LedgerSteps, IngestRefines, CommitRefines DEF IInv
  <1>2. QED
    BY <1>1, InitRefines, InvariantHolds, PTL DEF Spec, RefinesLedger, Ledger!Spec

-----------------------------------------------------------------------------
(* Rows are final.                                                         *)

\* Outcomes are final, tickets go from absent to open to closed, and a mapping
\* keeps the broker ticket it was created with.
THEOREM LedgerRowsAreFinal == Spec => LedgerIsWriteOnce
  <1> DEFINE Kept ==
        /\ \A e \in EventIds, s \in Subs :
              execution[e][s] # "none" => execution'[e][s] = execution[e][s]
        /\ \A s \in Subs, k \in Tickets :
              mapping[s][k] # "none" =>
                 /\ mapping'[s][k] \in {mapping[s][k], "closed"}
                 /\ target'[s][k] = target[s][k]
  <1>1. IInv /\ [Next]_vars => Kept
    <2> SUFFICES ASSUME IInv, [Next]_vars PROVE Kept
      OBVIOUS
    <2>1. CASE UNCHANGED ledgerVars
      BY <2>1 DEF ledgerVars
    <2>2. CASE IngestStep
      BY <2>2 DEF IngestStep, IngestEvent
    <2>3. ASSUME NEW w \in Workers, Commit(w) PROVE Kept
      <3>1. \A e \in EventIds, s \in Subs :
              execution[e][s] # "none" => execution'[e][s] = execution[e][s]
        BY <2>3, CommitEffect DEF IInv, NoPartialResults
      <3>2. \A s \in Subs, k \in Tickets :
              mapping[s][k] # "none" =>
                 /\ mapping'[s][k] \in {mapping[s][k], "closed"}
                 /\ target'[s][k] = target[s][k]
        BY <2>3, CommitEffect, CommitBook
      <3>3. QED BY <3>1, <3>2
    <2>4. QED
      BY <2>1, <2>2, <2>3, LedgerSteps DEF IInv
  <1>2. IInv /\ [Next]_vars => [Kept]_vars
    BY <1>1
  <1>3. QED
    BY <1>2, InvariantHolds, PTL DEF Spec, LedgerIsWriteOnce
-----------------------------------------------------------------------------
(* Deliveries: events, attempts and followers.                             *)

LEMMA InitDelivery == Init => DeliveryInv
  BY DEF Init, DeliveryInv, EventsAreDistinct, AttemptsCounted, FollowersInHand,
         TicketsHaveEvents, Running, Idle

\* What a worker's step does to the transactions and the orders.
LEMMA WorkerMoves ==
  ASSUME IInv, AttemptsCounted, NEW w \in Workers, WorkerStep(w) \/ Abort(w)
  PROVE  /\ \A v \in Workers \ {w} : tx'[v] = tx[v]
         /\ UNCHANGED <<log, logged>>
         /\ aborts <= aborts'
         /\ tx'[w].attempt <= aborts'
         /\ \A key \in sent' \ sent : key[3] <= aborts /\ TraderOf(key[2]) = EventOf(key).trader
  <1> USE DEF IInv
  <1>1. tx \in [Workers -> Transactions] /\ aborts \in Nat /\ tx[w].attempt <= aborts
    BY DEF TypeOK, AttemptsCounted
  <1>2. CASE Claim(w)
    <2>1. /\ \A v \in Workers \ {w} : tx'[v] = tx[v]
          /\ tx'[w].attempt = aborts
      BY <1>1, <1>2 DEF Claim, Idle
    <2>2. UNCHANGED <<log, logged, sent, aborts>>
      BY <1>2 DEF Claim, ledgerVars, brokerVars
    <2>3. QED BY <1>1, <2>1, <2>2
  <1>3. CASE SettleStep(w)
    <2>1. PICK s \in Subs :
            \/ Skip(w, s)
            \/ SendOrder(w, s)
            \/ /\ Block(w, s) \/ CopyOnPaper(w, s) \/ RefuseRuntime(w, s)
                  \/ OrderFilled(w, s) \/ OrderFails(w, s)
               /\ \E outcome \in Outcomes \ {"none"} : Settle(w, s, outcome)
               /\ UNCHANGED <<apiVars, ledgerVars, brokerVars, runtime, aborts>>
      BY <1>3, SettleCases
    <2>2. CASE Skip(w, s)
      <3>1. /\ \A v \in Workers \ {w} : tx'[v] = tx[v]
            /\ tx'[w].attempt = tx[w].attempt
        BY <1>1, <2>2 DEF Skip, Transactions
      <3>2. UNCHANGED <<log, logged, sent, aborts>>
        BY <2>2 DEF Skip, ledgerVars, brokerVars
      <3>3. QED BY <1>1, <3>1, <3>2
    <2>3. CASE SendOrder(w, s)
      <3>1. /\ \A v \in Workers \ {w} : tx'[v] = tx[v]
            /\ tx'[w].attempt = tx[w].attempt
        BY <1>1, <2>3 DEF SendOrder, Transactions
      <3>2. UNCHANGED <<log, logged, aborts>> /\ sent' = sent \cup {Key(w, s)}
        BY <2>3 DEF SendOrder, ledgerVars
      <3>3. Running(w) /\ s \in tx[w].todo
        BY <2>3 DEF SendOrder, Accepts, Turn
      <3>4. TraderOf(s) = log[tx[w].event].trader
        BY <3>3 DEF StagedSound
      <3>5. /\ Key(w, s)[3] <= aborts
            /\ TraderOf(Key(w, s)[2]) = EventOf(Key(w, s)).trader
        BY <1>1, <3>4 DEF Key, EventOf
      <3>6. QED BY <1>1, <3>1, <3>2, <3>5
    <2>4. CASE /\ \E outcome \in Outcomes \ {"none"} : Settle(w, s, outcome)
               /\ UNCHANGED <<apiVars, ledgerVars, brokerVars, runtime, aborts>>
      <3>1. /\ \A v \in Workers \ {w} : tx'[v] = tx[v]
            /\ tx'[w].attempt = tx[w].attempt
        BY <2>4, SettleEffect
      <3>2. UNCHANGED <<log, logged, sent, aborts>>
        BY <2>4 DEF ledgerVars, brokerVars
      <3>3. QED BY <1>1, <3>1, <3>2
    <2>5. QED BY <2>1, <2>2, <2>3, <2>4
  <1>4. CASE Commit(w) \/ Abort(w) \/ FlushFails(w)
    <2>1. /\ \A v \in Workers \ {w} : tx'[v] = tx[v]
          /\ tx'[w] = Idle
      BY <1>1, <1>4 DEF Commit, Abort, FlushFails
    <2>2. UNCHANGED <<log, logged, sent>> /\ aborts' \in Nat /\ aborts <= aborts'
      BY <1>1, <1>4 DEF Commit, Abort, FlushFails, ledgerVars, brokerVars
    <2>3. tx'[w].attempt = 0
      BY <2>1 DEF Idle
    <2>4. QED BY <2>1, <2>2, <2>3
  <1>5. QED
    BY <1>2, <1>3, <1>4 DEF WorkerStep

\* Steps of everyone else: no transaction moves and no order leaves, and what
\* was accepted stays what it was.
LEMMA OthersMove ==
  ASSUME IInv,
         \/ ProfileStep \/ SubscriptionStep \/ AccountStep
         \/ IngestStep \/ BrokerStep \/ UNCHANGED vars
  PROVE  /\ UNCHANGED <<tx, sent, aborts, execution, mapping>>
         /\ \A e \in EventIds : outbox[e] # "absent" => outbox'[e] = outbox[e] /\ log'[e] = log[e]
  <1>1. CASE ProfileStep \/ SubscriptionStep \/ AccountStep
    BY <1>1, ApiFrame DEF IInv, ledgerVars
  <1>2. CASE IngestStep
    <2>1. PICK t \in Traders, x \in ExternalIds, act \in Actions, k \in Tickets \cup {NoTicket} :
            IngestEvent(t, x, act, k)
      BY <1>2 DEF IngestStep
    <2>2. UNCHANGED <<tx, sent, aborts, execution, mapping>>
      BY <2>1 DEF IngestEvent, brokerVars
    <2>3. \A e \in EventIds : outbox[e] # "absent" => outbox'[e] = outbox[e] /\ log'[e] = log[e]
      BY <2>1, CopyAssumption DEF IngestEvent, IInv, TypeOK, RowsFollowLog, EventIds
    <2>4. QED BY <2>2, <2>3
  <1>3. CASE BrokerStep
    BY <1>3 DEF BrokerStep, BrokerApplies, ledgerVars
  <1>4. CASE UNCHANGED vars
    BY <1>4 DEF vars, ledgerVars, brokerVars
  <1>5. QED
    BY <1>1, <1>2, <1>3, <1>4

LEMMA OtherSteps ==
  ASSUME [Next]_vars
  PROVE  \/ ProfileStep \/ SubscriptionStep \/ AccountStep \/ IngestStep \/ BrokerStep
         \/ UNCHANGED vars
         \/ \E w \in Workers : WorkerStep(w) \/ Abort(w)
  BY DEF Next

LEMMA DistinctInv ==
  ASSUME IInv, DeliveryInv, [Next]_vars
  PROVE  EventsAreDistinct'
  <1>1. CASE UNCHANGED <<log, logged>>
    BY <1>1 DEF DeliveryInv, EventsAreDistinct
  <1>2. CASE IngestStep
    <2>1. PICK t \in Traders, x \in ExternalIds, act \in Actions, k \in Tickets \cup {NoTicket} :
            IngestEvent(t, x, act, k)
      BY <1>2 DEF IngestStep
    <2>2. /\ logged \in Nat
          /\ logged' = logged + 1
          /\ \A e \in 1..logged : log'[e] = log[e]
          /\ log'[logged + 1].trader = t /\ log'[logged + 1].external = x
          /\ \A e \in 1..logged : ~(log[e].trader = t /\ log[e].external = x)
      BY <2>1, CopyAssumption DEF IngestEvent, Delivered, IInv, TypeOK
    <2>3. QED
      BY <2>2 DEF DeliveryInv, EventsAreDistinct
  <1>3. CASE \E w \in Workers : Commit(w)
    BY <1>1, <1>3, CommitEffect
  <1>4. CASE UNCHANGED ledgerVars
    BY <1>1, <1>4 DEF ledgerVars
  <1>5. QED
    BY <1>2, <1>3, <1>4, LedgerSteps DEF IInv

LEMMA AttemptsInv ==
  ASSUME IInv, DeliveryInv, [Next]_vars
  PROVE  AttemptsCounted'
  <1> USE DEF IInv, DeliveryInv
  <1>1. \A key \in sent : key[1] \in EventIds /\ outbox[key[1]] # "absent" /\ key[3] \in Nat
    BY CopyAssumption DEF OrdersSound, TypeOK, OrderKeys
  <1>2. CASE \/ ProfileStep \/ SubscriptionStep \/ AccountStep \/ IngestStep \/ BrokerStep
             \/ UNCHANGED vars
    BY <1>1, <1>2, OthersMove DEF AttemptsCounted, EventOf
  <1>3. ASSUME NEW w \in Workers, WorkerStep(w) \/ Abort(w) PROVE AttemptsCounted'
    <2>1. /\ \A v \in Workers \ {w} : tx'[v] = tx[v]
          /\ log' = log
          /\ aborts <= aborts'
          /\ tx'[w].attempt <= aborts'
          /\ \A key \in sent' \ sent : key[3] <= aborts /\ TraderOf(key[2]) = EventOf(key).trader
      BY <1>3, WorkerMoves
    <2>2. TypeOK /\ TypeOK'
      BY <1>3, WorkerType
    <2>3. /\ aborts \in Nat /\ aborts' \in Nat
          /\ \A v \in Workers : tx[v].attempt \in Nat
          /\ \A key \in sent' : key[3] \in Nat
      BY <2>2, CopyAssumption DEF TypeOK, Transactions, OrderKeys
    <2>4. \A v \in Workers : tx'[v].attempt <= aborts'
      BY <2>1, <2>3 DEF AttemptsCounted
    <2>5. \A key \in sent' : key[3] <= aborts' /\ TraderOf(key[2]) = EventOf(key)'.trader
      BY <2>1, <2>3 DEF AttemptsCounted, EventOf
    <2>6. QED BY <2>4, <2>5 DEF AttemptsCounted, EventOf
  <1>4. QED
    BY <1>2, <1>3, OtherSteps

\* An active follower leaves the loop with an outcome: Skip passes over others.
LEMMA FollowersInv ==
  ASSUME IInv, DeliveryInv, [Next]_vars
  PROVE  FollowersInHand'
  <1> USE DEF IInv, DeliveryInv
  <1> DEFINE InHand(v) == \A s \in Subs :
                TraderOf(s) = log[tx[v].event].trader /\ tx[v].seen[s] = "active" =>
                   s \in tx[v].todo \/ tx[v].result[s] # "none"
  <1>1. \A v \in Workers : Running(v) =>
           tx[v].event \in EventIds /\ outbox[tx[v].event] = "pending"
    BY DEF LocksExclusive
  <1>2. CASE \/ ProfileStep \/ SubscriptionStep \/ AccountStep \/ IngestStep \/ BrokerStep
             \/ UNCHANGED vars
    <2>1. /\ tx' = tx
          /\ \A e \in EventIds : outbox[e] # "absent" => log'[e] = log[e]
      BY <1>2, OthersMove
    <2>2. QED
      BY <1>1, <2>1 DEF FollowersInHand, Running
  <1>3. ASSUME NEW w \in Workers, WorkerStep(w) \/ Abort(w) PROVE FollowersInHand'
    <2>1. /\ \A v \in Workers \ {w} : tx'[v] = tx[v]
          /\ log' = log
      BY <1>3, WorkerMoves
    <2>2. tx[w] \in Transactions /\ tx \in [Workers -> Transactions]
      BY DEF TypeOK
    <2>3. Running(w)' => InHand(w)'
      <3>1. CASE Claim(w)
        <4>1. PICK e \in Claimable :
                tx'[w] = [Idle EXCEPT
                  !.phase   = "running",
                  !.event   = e,
                  !.attempt = aborts,
                  !.seen    = status,
                  !.live    = {s \in Subs : mode[s] = "live"},
                  !.todo    = {s \in Subs : /\ TraderOf(s) = log[e].trader
                                            /\ status[s] \in {"active", "paused", "stopping"}}]
          BY <2>2, <3>1 DEF Claim
        <4>2. /\ tx'[w].event = e /\ tx'[w].seen = status
              /\ tx'[w].todo = {s \in Subs : /\ TraderOf(s) = log[e].trader
                                             /\ status[s] \in {"active", "paused", "stopping"}}
          BY <4>1 DEF Idle
        <4>3. QED BY <2>1, <4>2
      <3>2. CASE SettleStep(w)
        <4>1. PICK s \in Subs :
                \/ Skip(w, s)
                \/ SendOrder(w, s)
                \/ /\ Block(w, s) \/ CopyOnPaper(w, s) \/ RefuseRuntime(w, s)
                      \/ OrderFilled(w, s) \/ OrderFails(w, s)
                   /\ \E outcome \in Outcomes \ {"none"} : Settle(w, s, outcome)
                   /\ UNCHANGED <<apiVars, ledgerVars, brokerVars, runtime, aborts>>
          BY <3>2, SettleCases
        <4>2. Running(w)
          BY <4>1 DEF Skip, Block, CopyOnPaper, RefuseRuntime, SendOrder, OrderFilled, OrderFails,
                      Accepts, Turn
        <4>3. InHand(w)
          BY <4>2 DEF FollowersInHand
        <4>4. CASE Skip(w, s)
          <5>1. /\ tx'[w].event = tx[w].event /\ tx'[w].seen = tx[w].seen
                /\ tx'[w].result = tx[w].result /\ tx'[w].todo = tx[w].todo \ {s}
            BY <2>2, <4>4 DEF Skip, Transactions
          <5>2. execution[tx[w].event][s] = "none"
            BY <1>1, <4>2 DEF NoPartialResults
          <5>3. tx[w].seen[s] # "active"
            BY <4>4, <5>2 DEF Skip, Ignores
          <5>4. QED BY <2>1, <4>3, <5>1, <5>3
        <4>5. CASE SendOrder(w, s)
          <5>1. /\ tx'[w].event = tx[w].event /\ tx'[w].seen = tx[w].seen
                /\ tx'[w].result = tx[w].result /\ tx'[w].todo = tx[w].todo
            BY <2>2, <4>5 DEF SendOrder, Transactions
          <5>2. QED BY <2>1, <4>3, <5>1
        <4>6. CASE \E outcome \in Outcomes \ {"none"} : Settle(w, s, outcome)
          <5>1. PICK outcome \in Outcomes \ {"none"} : Settle(w, s, outcome)
            BY <4>6
          <5>2. /\ tx'[w].event = tx[w].event /\ tx'[w].seen = tx[w].seen
                /\ tx'[w].todo = tx[w].todo \ {s}
                /\ tx'[w].result = [tx[w].result EXCEPT ![s] = outcome]
            BY <5>1, SettleEffect
          <5>3. \A r \in Subs : tx'[w].result[r] = IF r = s THEN outcome ELSE tx[w].result[r]
            BY <2>2, <5>2 DEF Transactions
          <5>4. QED BY <2>1, <4>3, <5>2, <5>3
        <4>7. QED BY <4>1, <4>4, <4>5, <4>6
      <3>3. CASE Commit(w) \/ Abort(w) \/ FlushFails(w)
        <4>1. tx'[w] = Idle
          BY <2>2, <3>3 DEF Commit, Abort, FlushFails
        <4>2. QED BY <4>1 DEF Running, Idle
      <3>4. QED
        BY <1>3, <3>1, <3>2, <3>3 DEF WorkerStep
    <2>4. \A v \in Workers \ {w} : Running(v)' => InHand(v)'
      BY <2>1 DEF FollowersInHand, Running
    <2>5. QED
      BY <2>3, <2>4 DEF FollowersInHand
  <1>4. QED
    BY <1>2, <1>3, OtherSteps

\* A commit that books a ticket, or closes one, leaves the event that did so.
LEMMA TicketsInv ==
  ASSUME IInv, DeliveryInv, [Next]_vars
  PROVE  TicketsHaveEvents'
  <1> USE DEF IInv, DeliveryInv
  <1>1. ASSUME \/ ProfileStep \/ SubscriptionStep \/ AccountStep \/ IngestStep \/ BrokerStep
               \/ UNCHANGED vars
        PROVE  TicketsHaveEvents'
    <2>1. /\ UNCHANGED <<execution, mapping>>
          /\ \A e \in EventIds : outbox[e] # "absent" => outbox'[e] = outbox[e] /\ log'[e] = log[e]
      BY <1>1, OthersMove
    <2>2. QED
      BY <2>1 DEF TicketsHaveEvents, ExecutedFor
  <1>2. ASSUME UNCHANGED ledgerVars PROVE TicketsHaveEvents'
    BY <1>2 DEF TicketsHaveEvents, ExecutedFor, ledgerVars
  <1>3. ASSUME NEW w \in Workers, Commit(w) PROVE TicketsHaveEvents'
    <2> DEFINE e == tx[w].event
    <2>1. /\ log[e] \in TraderEvents
          /\ execution' = [execution EXCEPT ![e] = tx[w].result]
          /\ mapping' = [s \in Subs |-> [k \in Tickets |->
                CASE k = Ticket(w) /\ Adds(w, s)   -> "open"
                  [] k = Ticket(w) /\ Closes(w, s) -> "closed"
                  [] OTHER                         -> mapping[s][k]]]
          /\ \A s \in Subs : tx[w].result[s] \in Executed /\ Action(w) # "open" => Mapped(w, s)
      BY <1>3, CommitBook
    <2>2. /\ e \in EventIds /\ outbox[e] = "pending"
          /\ outbox' = [outbox EXCEPT ![e] = "processed"]
          /\ log' = log
      BY <1>3, CommitEffect
    <2>3. outbox'[e] = "processed" /\ execution'[e] = tx[w].result
      BY <2>1, <2>2 DEF TypeOK
    <2>4. \A f \in EventIds : outbox[f] = "processed" =>
             outbox'[f] = "processed" /\ execution'[f] = execution[f]
      BY <2>1, <2>2 DEF TypeOK
    \* What was executed before still is.
    <2>5. \A s \in Subs, k \in Tickets, act \in Actions :
             ExecutedFor(s, k, act) => ExecutedFor(s, k, act)'
      BY <2>2, <2>4 DEF ExecutedFor
    <2>6. \A s \in Subs : tx[w].result[s] \in Executed =>
             \A k \in Tickets, act \in Actions :
                k = Ticket(w) /\ act = Action(w) => ExecutedFor(s, k, act)'
      BY <2>2, <2>3 DEF ExecutedFor, Ticket, Action
    <2>7. ASSUME NEW s \in Subs, NEW k \in Tickets
          PROVE  /\ mapping'[s][k] # "none" => ExecutedFor(s, k, "open")'
                 /\ mapping'[s][k] = "closed" => ExecutedFor(s, k, "close")'
      <3>1. CASE k = Ticket(w) /\ Adds(w, s)
        <4>1. mapping'[s][k] = "open"
          BY <2>1, <3>1 DEF Adds, Closes
        <4>2. ExecutedFor(s, k, "open")'
          BY <2>6, <3>1 DEF Adds, Actions, Executed
        <4>3. QED BY <4>1, <4>2
      <3>2. CASE k = Ticket(w) /\ Closes(w, s)
        <4>1. mapping[s][k] # "none"
          BY <2>1, <3>2 DEF Closes, Mapped
        <4>2. ExecutedFor(s, k, "open")'
          BY <2>5, <4>1 DEF TicketsHaveEvents, Actions
        <4>3. ExecutedFor(s, k, "close")'
          BY <2>6, <3>2 DEF Closes, Actions
        <4>4. QED BY <4>2, <4>3
      <3>3. CASE ~(k = Ticket(w) /\ Adds(w, s)) /\ ~(k = Ticket(w) /\ Closes(w, s))
        <4>1. mapping'[s][k] = mapping[s][k]
          BY <2>1, <3>3
        <4>2. QED BY <2>5, <4>1 DEF TicketsHaveEvents, Actions
      <3>4. QED BY <3>1, <3>2, <3>3
    <2>8. QED
      BY <2>7 DEF TicketsHaveEvents
  <1>4. QED
    BY <1>1, <1>2, <1>3, LedgerSteps

LEMMA DeliveryHolds == Spec => [](IInv /\ DeliveryInv)
  <1>1. Init => IInv /\ DeliveryInv
    BY InitInv, InitDelivery
  <1>2. IInv /\ DeliveryInv /\ [Next]_vars => (IInv /\ DeliveryInv)'
    BY NextInv, DistinctInv, AttemptsInv, FollowersInv, TicketsInv DEF DeliveryInv
  <1>3. QED
    BY <1>1, <1>2, PTL DEF Spec

\* Every copied ticket goes back to an open executed for the same follower, and
\* every closed one to a close: nothing else writes copy_ticket_mappings.
THEOREM TicketsAreBacked == Spec => []TicketsHaveEvents
  <1>1. DeliveryInv => TicketsHaveEvents
    BY DEF DeliveryInv
  <1>2. QED
    BY <1>1, DeliveryHolds, PTL

\* The row is marked processed only with an outcome for every follower that was
\* active at the claim, whatever happened to its subscription since.
THEOREM FollowersAreServed == Spec => NoFollowerMissed
  <1> DEFINE Served ==
        \A w \in Workers :
          Running(w) /\ outbox[tx[w].event] # "processed" /\ outbox'[tx[w].event] = "processed" =>
             \A s \in Subs :
                TraderOf(s) = log[tx[w].event].trader /\ tx[w].seen[s] = "active" =>
                   execution'[tx[w].event][s] # "none"
  <1>1. ASSUME IInv, DeliveryInv, [Next]_vars
        PROVE  Served
    <2> USE <1>1 DEF IInv, DeliveryInv
    <2>1. \A v \in Workers : Running(v) =>
             tx[v].event \in EventIds /\ outbox[tx[v].event] = "pending"
      BY DEF LocksExclusive
    <2>2. CASE UNCHANGED ledgerVars
      BY <2>2 DEF ledgerVars
    <2>3. CASE IngestStep
      BY <1>1, <2>1, <2>3, OthersMove
    <2>4. ASSUME NEW w \in Workers, Commit(w)
          PROVE  Served
      <3>1. /\ tx[w].event \in EventIds
            /\ outbox' = [outbox EXCEPT ![tx[w].event] = "processed"]
            /\ \A s \in Subs : execution'[tx[w].event][s] = tx[w].result[s]
        BY <2>4, CommitEffect
      <3>2. Running(w) /\ tx[w].todo = {}
        BY <2>4 DEF Commit, LoopDone
      <3>3. \A v \in Workers :
               Running(v) /\ outbox[tx[v].event] # "processed" /\ outbox'[tx[v].event] = "processed"
                  => v = w
        BY <2>1, <3>1, <3>2 DEF LocksExclusive, TypeOK
      <3>4. \A s \in Subs :
               TraderOf(s) = log[tx[w].event].trader /\ tx[w].seen[s] = "active" =>
                  tx[w].result[s] # "none"
        BY <3>2 DEF FollowersInHand
      <3>5. QED BY <3>1, <3>3, <3>4
    <2>5. QED
      BY <1>1, <2>2, <2>3, <2>4, LedgerSteps
  <1>2. IInv /\ DeliveryInv /\ [Next]_vars => [Served]_vars
    BY <1>1
  <1>3. QED
    BY <1>2, DeliveryHolds, PTL DEF Spec, NoFollowerMissed

\* The keys ordered for one follower and one trade are attempts of one event,
\* at most one per rollback and one more.
THEOREM OrdersAreCounted == Spec => []OrdersPerTrade
  <1>1. ASSUME IInv, DeliveryInv
        PROVE  OrdersPerTrade
    <2> USE <1>1 DEF IInv, DeliveryInv
    <2> SUFFICES ASSUME NEW s \in Subs, NEW x \in ExternalIds
                 PROVE  Cardinality({key \in sent : key[2] = s /\ EventOf(key).external = x})
                          <= 1 + aborts
      BY DEF OrdersPerTrade
    <2> DEFINE Keys == {key \in sent : key[2] = s /\ EventOf(key).external = x}
               attempts == 0..aborts
    <2>1. aborts \in Nat
      BY CopyAssumption DEF TypeOK
    <2>2. IsFiniteSet(attempts) /\ Cardinality(attempts) = 1 + aborts
      <3>1. 0 \in Int /\ aborts \in Int /\ 0 <= aborts
        BY <2>1
      <3>2. IsFiniteSet(0..aborts) /\ Cardinality(0..aborts) = aborts - 0 + 1
        BY <3>1, FS_Interval
      <3>3. QED BY <2>1, <3>2
    <2>3. CASE Keys = {}
      <3>1. Cardinality(Keys) = 0
        BY <2>3, FS_EmptySet
      <3>2. QED BY <2>1, <3>1
    <2>4. ASSUME NEW k0 \in Keys
          PROVE  Cardinality(Keys) <= 1 + aborts
      <3>1. \A key \in Keys : /\ key \in OrderKeys
                              /\ key[1] \in 1..logged
                              /\ key[3] \in attempts
                              /\ TraderOf(s) = log[key[1]].trader
                              /\ log[key[1]].external = x
        BY <2>1, CopyAssumption
        DEF OrdersSound, RowsFollowLog, TypeOK, OrderKeys, EventIds, AttemptsCounted, EventOf
      <3>2. \A key \in Keys : key[1] = k0[1]
        BY <2>4, <3>1 DEF EventsAreDistinct
      <3>3. \A key \in Keys : key = <<k0[1], s, key[3]>>
        BY <3>1, <3>2 DEF OrderKeys
      <3> DEFINE keyOf == [n \in attempts |-> <<k0[1], s, n>>]
                 image == {keyOf[n] : n \in attempts}
      <3>4. Keys \subseteq image
        BY <3>1, <3>3
      <3>5. IsFiniteSet(image) /\ Cardinality(image) <= Cardinality(attempts)
        <4>1. keyOf \in Surjection(attempts, image)
          BY DEF Surjection
        <4>2. QED BY <2>2, <4>1, FS_Surjection
      <3>6. IsFiniteSet(Keys) /\ Cardinality(Keys) <= Cardinality(image)
        BY <3>4, <3>5, FS_Subset
      <3>7. Cardinality(Keys) \in Nat /\ Cardinality(image) \in Nat
        BY <3>5, <3>6, FS_CardinalityType
      <3>8. QED
        BY <2>1, <2>2, <3>5, <3>6, <3>7
    <2>5. QED
      BY <2>3, <2>4
  <1>2. QED
    BY <1>1, DeliveryHolds, PTL


-----------------------------------------------------------------------------
(* What holds when one API process runs the worker, the deployment of      *)
(* main.py: events of a trader are settled in order, accounts stay within  *)
(* their ticket limit, draining subscriptions stop with their last ticket. *)

\* A step of the loop over the followers: it passes one over, sends its order,
\* or stages its outcome.
LEMMA SettleMoves ==
  ASSUME IInv, NEW w \in Workers, SettleStep(w)
  PROVE  /\ Running(w)
         /\ UNCHANGED ledgerVars
         /\ tx'[w].event = tx[w].event
         /\ \E s \in Subs :
              \/ /\ tx'[w].result = tx[w].result /\ tx'[w].stops = tx[w].stops
                 /\ tx'[w].calling = tx[w].calling /\ tx'[w].todo = tx[w].todo \ {s}
              \/ /\ Accepts(w, s)
                 /\ tx'[w].result = tx[w].result /\ tx'[w].stops = tx[w].stops
                 /\ tx'[w].calling = {s} /\ tx'[w].todo = tx[w].todo
              \/ \E outcome \in Outcomes :
                    /\ s \in tx[w].todo \cup tx[w].calling
                    /\ outcome \in Executed => s \in tx[w].calling \/ Accepts(w, s)
                    /\ \A r \in Subs : tx'[w].result[r] = IF r = s THEN outcome ELSE tx[w].result[r]
                    /\ tx'[w].calling = {} /\ tx'[w].todo = tx[w].todo \ {s}
                    /\ tx'[w].stops \in {tx[w].stops, tx[w].stops \cup {s}}
                    /\ s \in tx'[w].stops /\ s \notin tx[w].stops =>
                          outcome \in Executed /\ Stopped(w, s)
  <1> USE DEF IInv
  <1>1. tx \in [Workers -> Transactions] /\ tx[w] \in Transactions
    BY DEF TypeOK
  <1>2. PICK s \in Subs :
          \/ Skip(w, s) \/ Block(w, s) \/ CopyOnPaper(w, s) \/ RefuseRuntime(w, s)
          \/ SendOrder(w, s) \/ OrderFilled(w, s) \/ OrderFails(w, s)
    BY DEF SettleStep
  <1>3. Running(w) /\ UNCHANGED ledgerVars
    BY <1>2 DEF Skip, Block, CopyOnPaper, RefuseRuntime, SendOrder, OrderFilled, OrderFails,
                Accepts, Turn
  <1>4. CASE Skip(w, s)
    <2>1. /\ tx'[w].event = tx[w].event
          /\ tx'[w].result = tx[w].result /\ tx'[w].stops = tx[w].stops
          /\ tx'[w].calling = tx[w].calling /\ tx'[w].todo = tx[w].todo \ {s}
      BY <1>1, <1>4 DEF Skip, Transactions
    <2>2. QED BY <1>3, <2>1
  <1>5. CASE SendOrder(w, s)
    <2>1. /\ tx'[w].event = tx[w].event
          /\ tx'[w].result = tx[w].result /\ tx'[w].stops = tx[w].stops
          /\ tx'[w].calling = {s} /\ tx'[w].todo = tx[w].todo
      BY <1>1, <1>5 DEF SendOrder, Transactions
    <2>2. Accepts(w, s)
      BY <1>5 DEF SendOrder
    <2>3. QED BY <1>3, <2>1, <2>2
  <1>6. CASE \/ Block(w, s) \/ CopyOnPaper(w, s) \/ RefuseRuntime(w, s)
             \/ OrderFilled(w, s) \/ OrderFails(w, s)
    <2>1. PICK outcome \in Outcomes :
            /\ Settle(w, s, outcome)
            /\ s \in tx[w].todo \cup tx[w].calling
            /\ outcome \in Executed => s \in tx[w].calling \/ Accepts(w, s)
      BY <1>6 DEF Block, CopyOnPaper, RefuseRuntime, OrderFilled, OrderFails, Turn, Accepts,
                  Answers, Outcomes, Executed, Ticketed
    <2>2. /\ tx'[w].event = tx[w].event /\ tx'[w].calling = {}
          /\ tx'[w].todo = tx[w].todo \ {s}
          /\ tx'[w].result = [tx[w].result EXCEPT ![s] = outcome]
      BY <2>1, SettleEffect
    <2>3. \A r \in Subs : tx'[w].result[r] = IF r = s THEN outcome ELSE tx[w].result[r]
      BY <1>1, <2>2 DEF Transactions
    <2>4. tx'[w].stops = IF outcome \in Executed /\ Stopped(w, s)
                         THEN tx[w].stops \cup {s} ELSE tx[w].stops
      BY <1>1, <2>1 DEF Settle, Settled, Transactions
    <2>5. QED
      BY <1>3, <2>1, <2>2, <2>3, <2>4
  <1>7. QED
    BY <1>2, <1>4, <1>5, <1>6

\* A claim starts with nothing staged; every other end leaves an idle worker.
LEMMA ClaimMoves ==
  ASSUME IInv, NEW w \in Workers, Claim(w)
  PROVE  /\ ~Running(w)
         /\ UNCHANGED ledgerVars
         /\ \E e \in Claimable : OldestFirst(e) /\ tx'[w].event = e
         /\ tx'[w].calling = {} /\ tx'[w].stops = {}
         /\ \A s \in Subs : tx'[w].result[s] = "none"
  BY DEF Claim, IInv, TypeOK, Idle

LEMMA EndMoves ==
  ASSUME IInv, NEW w \in Workers, Commit(w) \/ Abort(w) \/ FlushFails(w)
  PROVE  ~Running(w)'
  <1>1. tx'[w] = Idle
    BY DEF Commit, Abort, FlushFails, IInv, TypeOK
  <1>2. QED BY <1>1 DEF Running, Idle

LEMMA InitOneWorker == Init => OneWorkerInv
  <1> SUFFICES ASSUME Init PROVE OneWorkerInv
    OBVIOUS
  <1>1. OldestInHand /\ SettledInOrder /\ StopsAreFlat /\ StagedFits
    BY DEF Init, OldestInHand, SettledInOrder, StopsAreFlat, StagedFits, Running, Idle
  <1>2. \A a \in Accounts : OpenTickets(a) = {}
    BY DEF Init, OpenTickets
  <1>3. TicketsFinite /\ TicketLimit
    <2>1. IsFiniteSet({}) /\ Cardinality({}) = 0
      BY FS_EmptySet
    <2>2. 0 <= MaxOpenTrades
      BY CopyAssumption
    <2>3. QED BY <1>2, <2>1, <2>2 DEF TicketsFinite, TicketLimit
  <1>4. QED BY <1>1, <1>3 DEF OneWorkerInv

-----------------------------------------------------------------------------
(* Order of events.                                                        *)

LEMMA OrderInv ==
  ASSUME OneWorker, IInv, OneWorkerInv, [Next]_vars
  PROVE  (OldestInHand /\ SettledInOrder)'
  <1> USE DEF IInv, OneWorkerInv
  <1>1. /\ logged \in 0..MaxEvents /\ MaxEvents \in Nat
        /\ outbox \in [EventIds -> {"absent", "pending", "processed"}]
        /\ \A e \in EventIds : outbox[e] # "absent" <=> e <= logged
        /\ \A v \in Workers : Running(v) =>
              tx[v].event \in EventIds /\ outbox[tx[v].event] = "pending"
    BY CopyAssumption DEF TypeOK, RowsFollowLog, LocksExclusive
  <1>3. CASE \/ ProfileStep \/ SubscriptionStep \/ AccountStep \/ IngestStep \/ BrokerStep
             \/ UNCHANGED vars
    <2>1. /\ tx' = tx
          /\ \A e \in EventIds : outbox[e] # "absent" => outbox'[e] = outbox[e] /\ log'[e] = log[e]
      BY <1>3, OthersMove
    <2>2. IInv'
      BY NextInv
    <2>3. logged' \in 0..MaxEvents /\ \A e \in EventIds : outbox'[e] # "absent" <=> e <= logged'
      BY <2>2 DEF TypeOK, RowsFollowLog
    <2>4. OldestInHand'
      BY <1>1, <2>1, <2>3 DEF OldestInHand, Running, EventIds
    \* A row that was absent is not processed by ingesting it.
    <2>5. \A e \in 1..logged' : outbox'[e] = "processed" => e \in 1..logged
      <3>1. CASE IngestStep
        BY <1>1, <2>3, <3>1 DEF IngestStep, IngestEvent, EventIds
      <3>2. CASE UNCHANGED ledgerVars
        BY <3>2 DEF ledgerVars
      <3>3. CASE \E w \in Workers : Commit(w)
        BY <2>1, <3>3 DEF Commit, Running, Idle, TypeOK
      <3>4. QED BY <3>1, <3>2, <3>3, LedgerSteps
    <2>6. SettledInOrder'
      BY <1>1, <2>1, <2>3, <2>5 DEF SettledInOrder, EventIds
    <2>7. QED BY <2>4, <2>6
  <1>4. ASSUME NEW w \in Workers, WorkerStep(w) \/ Abort(w)
        PROVE  (OldestInHand /\ SettledInOrder)'
    <2>1. CASE Claim(w)
      <3>1. /\ ~Running(w) /\ UNCHANGED <<log, logged, outbox>>
            /\ \E e \in Claimable : OldestFirst(e) /\ tx'[w].event = e
        BY <2>1, ClaimMoves DEF ledgerVars
      <3>2. Claimable = {e \in EventIds : outbox[e] = "pending"}
        BY <3>1 DEF OneWorker, Claimable
      <3>3. \A e \in 1..logged : e < tx'[w].event => outbox[e] = "processed"
        BY <1>1, <3>1, <3>2 DEF OldestFirst, EventIds
      <3>4. OldestInHand'
        BY <3>1, <3>3 DEF OneWorker, OldestInHand
      <3>5. QED BY <3>1, <3>4 DEF SettledInOrder
    <2>2. CASE SettleStep(w)
      <3>1. Running(w) /\ UNCHANGED <<log, logged, outbox>> /\ tx'[w].event = tx[w].event
        BY <2>2, SettleMoves DEF ledgerVars
      <3>2. OldestInHand'
        BY <3>1 DEF OneWorker, OldestInHand
      <3>3. QED BY <3>1, <3>2 DEF SettledInOrder
    <2>3. CASE Commit(w) \/ Abort(w) \/ FlushFails(w)
      <3>1. OldestInHand'
        BY <2>3, EndMoves DEF OneWorker, OldestInHand
      <3>2. CASE Commit(w)
        <4>1. /\ tx[w].event \in EventIds
              /\ outbox' = [outbox EXCEPT ![tx[w].event] = "processed"]
              /\ UNCHANGED <<log, logged>>
          BY <3>2, CommitEffect
        <4>2. Running(w)
          BY <3>2 DEF Commit
        <4>3. \A e \in 1..logged : e < tx[w].event => outbox[e] = "processed"
          BY <4>2 DEF OldestInHand
        <4>4. QED
          BY <1>1, <3>1, <4>1, <4>3 DEF SettledInOrder, EventIds
      <3>3. CASE Abort(w) \/ FlushFails(w)
        BY <3>1, <3>3 DEF Abort, FlushFails, ledgerVars, SettledInOrder
      <3>4. QED BY <2>3, <3>2, <3>3
    <2>4. QED
      BY <1>4, <2>1, <2>2, <2>3 DEF WorkerStep
  <1>5. QED
    BY <1>3, <1>4, OtherSteps
-----------------------------------------------------------------------------
(* Drains and limits.                                                      *)

\* Flat and LimitReached look at the mappings only.
LEMMA StagedInv ==
  ASSUME OneWorker, IInv, OneWorkerInv, [Next]_vars
  PROVE  (StopsAreFlat /\ StagedFits)'
  <1> USE DEF IInv, OneWorkerInv
  <1>1. \A v \in Workers : Running(v) =>
           tx[v].event \in EventIds /\ outbox[tx[v].event] = "pending"
    BY DEF LocksExclusive
  <1>2. CASE \/ ProfileStep \/ SubscriptionStep \/ AccountStep \/ IngestStep \/ BrokerStep
             \/ UNCHANGED vars
    <2>1. /\ tx' = tx /\ mapping' = mapping
          /\ \A e \in EventIds : outbox[e] # "absent" => log'[e] = log[e]
      BY <1>2, OthersMove
    <2>2. \A v \in Workers : Running(v)' => /\ Running(v)
                                            /\ Action(v)' = Action(v) /\ Ticket(v)' = Ticket(v)
      BY <1>1, <2>1 DEF Running, Action, Ticket
    <2>3. \A v \in Workers, s \in Subs : Running(v)' /\ Flat(v, s) => Flat(v, s)'
      BY <2>1, <2>2 DEF Flat
    <2>4. \A s \in Subs : LimitReached(s)' = LimitReached(s)
      BY <2>1 DEF LimitReached, OpenTickets
    <2>5. \A v \in Workers : tx[v].stops \subseteq Subs
      BY DEF TypeOK, Transactions
    <2>6. QED
      BY <2>1, <2>2, <2>3, <2>4, <2>5 DEF StopsAreFlat, StagedFits
  <1>3. ASSUME NEW w \in Workers, WorkerStep(w) \/ Abort(w)
        PROVE  (StopsAreFlat /\ StagedFits)'
    <2>1. CASE Claim(w)
      BY <2>1, ClaimMoves DEF OneWorker, StopsAreFlat, StagedFits, Executed, Ticketed
    <2>2. CASE SettleStep(w)
      <3>1. /\ Running(w) /\ UNCHANGED <<log, mapping>> /\ tx'[w].event = tx[w].event
        BY <2>2, SettleMoves DEF ledgerVars
      <3>2. /\ Action(w)' = Action(w) /\ Ticket(w)' = Ticket(w)
            /\ \A s \in Subs : Flat(w, s)' = Flat(w, s) /\ LimitReached(s)' = LimitReached(s)
        BY <3>1 DEF Action, Ticket, Flat, LimitReached, OpenTickets
      <3>3. /\ tx[w].stops \subseteq Subs
            /\ \A s \in tx[w].stops :
                  /\ Action(w) = "close" /\ tx[w].result[s] \in Executed /\ Flat(w, s)
                  /\ s \notin tx[w].todo \cup tx[w].calling
            /\ \A s \in Subs :
                  (s \in tx[w].calling \/ tx[w].result[s] \in Executed) /\ Action(w) = "open" =>
                     ~LimitReached(s)
        BY <3>1 DEF StopsAreFlat, StagedFits, TypeOK, Transactions
      <3>4. /\ \A s \in tx'[w].stops :
                  /\ Action(w) = "close" /\ tx'[w].result[s] \in Executed /\ Flat(w, s)
                  /\ s \notin tx'[w].todo \cup tx'[w].calling
            /\ \A s \in Subs :
                  (s \in tx'[w].calling \/ tx'[w].result[s] \in Executed) /\ Action(w) = "open" =>
                     ~LimitReached(s)
        <4>1. PICK s \in Subs :
              \/ /\ tx'[w].result = tx[w].result /\ tx'[w].stops = tx[w].stops
                 /\ tx'[w].calling = tx[w].calling /\ tx'[w].todo = tx[w].todo \ {s}
              \/ /\ Accepts(w, s)
                 /\ tx'[w].result = tx[w].result /\ tx'[w].stops = tx[w].stops
                 /\ tx'[w].calling = {s} /\ tx'[w].todo = tx[w].todo
              \/ \E outcome \in Outcomes :
                    /\ s \in tx[w].todo \cup tx[w].calling
                    /\ outcome \in Executed => s \in tx[w].calling \/ Accepts(w, s)
                    /\ \A r \in Subs : tx'[w].result[r] = IF r = s THEN outcome ELSE tx[w].result[r]
                    /\ tx'[w].calling = {} /\ tx'[w].todo = tx[w].todo \ {s}
                    /\ tx'[w].stops \in {tx[w].stops, tx[w].stops \cup {s}}
                    /\ s \in tx'[w].stops /\ s \notin tx[w].stops =>
                          outcome \in Executed /\ Stopped(w, s)
          BY <2>2, SettleMoves
        <4>2. Accepts(w, s) => s \in tx[w].todo /\ (Action(w) = "open" => ~LimitReached(s))
          BY DEF Accepts, Turn
        <4>3. Stopped(w, s) => Action(w) = "close" /\ Flat(w, s)
          BY DEF Stopped
        <4>4. QED
          BY <3>3, <4>1, <4>2, <4>3
      <3>5. tx'[w].stops \subseteq Subs
        BY <1>3, WorkerType DEF TypeOK, Transactions
      <3>6. QED
        BY <3>2, <3>4, <3>5 DEF OneWorker, StopsAreFlat, StagedFits
    <2>3. CASE Commit(w) \/ Abort(w) \/ FlushFails(w)
      BY <2>3, EndMoves DEF OneWorker, StopsAreFlat, StagedFits
    <2>4. QED
      BY <1>3, <2>1, <2>2, <2>3 DEF WorkerStep
  <1>4. QED
    BY <1>2, <1>3, OtherSteps

\* One event opens one ticket per account at most: the subscriptions of an
\* account differ in their trader.
LEMMA LimitInv ==
  ASSUME OneWorker, IInv, OneWorkerInv, [Next]_vars
  PROVE  (TicketsFinite /\ TicketLimit)'
  <1> USE DEF IInv, OneWorkerInv
  <1>1. CASE UNCHANGED mapping
    <2>1. \A a \in Accounts : OpenTickets(a)' = OpenTickets(a)
      BY <1>1 DEF OpenTickets
    <2>2. QED BY <2>1 DEF TicketsFinite, TicketLimit
  <1>2. ASSUME NEW w \in Workers, Commit(w)
        PROVE  (TicketsFinite /\ TicketLimit)'
    <2> SUFFICES ASSUME NEW a \in Accounts
                 PROVE  IsFiniteSet(OpenTickets(a)') /\ Cardinality(OpenTickets(a)') <= MaxOpenTrades
      BY DEF TicketsFinite, TicketLimit
    <2>1. /\ mapping' = [s \in Subs |-> [k \in Tickets |->
               CASE k = Ticket(w) /\ Adds(w, s)   -> "open"
                 [] k = Ticket(w) /\ Closes(w, s) -> "closed"
                 [] OTHER                         -> mapping[s][k]]]
          /\ \A s \in Subs : tx[w].result[s] # "none" => TraderOf(s) = log[tx[w].event].trader
      BY <1>2, CommitBook
    <2>2. Running(w)
      BY <1>2 DEF Commit
    <2>3. /\ IsFiniteSet(OpenTickets(a)) /\ Cardinality(OpenTickets(a)) <= MaxOpenTrades
          /\ Cardinality(OpenTickets(a)) \in Nat /\ MaxOpenTrades \in Nat
      BY FS_CardinalityType, CopyAssumption DEF TicketsFinite, TicketLimit
    \* Whatever is open now was open or was added by this commit.
    <2>4. \A s \in Subs, k \in Tickets :
            mapping'[s][k] = "open" =>
               mapping[s][k] = "open" \/ (k = Ticket(w) /\ Adds(w, s))
      BY <2>1 DEF Adds, Closes
    <2>5. CASE \A s \in Subs : AccountOf(s) = a => ~Adds(w, s)
      <3>1. OpenTickets(a)' \subseteq OpenTickets(a)
        BY <2>4, <2>5 DEF OpenTickets
      <3>2. /\ IsFiniteSet(OpenTickets(a)')
            /\ Cardinality(OpenTickets(a)') <= Cardinality(OpenTickets(a))
        BY <2>3, <3>1, FS_Subset
      <3>3. Cardinality(OpenTickets(a)') \in Nat
        BY <3>2, FS_CardinalityType
      <3>4. QED BY <2>3, <3>2, <3>3
    <2>6. ASSUME NEW s \in Subs, AccountOf(s) = a, Adds(w, s)
          PROVE  IsFiniteSet(OpenTickets(a)') /\ Cardinality(OpenTickets(a)') <= MaxOpenTrades
      <3> DEFINE more == OpenTickets(a) \cup {<<s, Ticket(w)>>}
      <3>1. ~LimitReached(s)
        BY <2>2, <2>6 DEF StagedFits, Adds, Executed
      <3>2. Cardinality(OpenTickets(a)) < MaxOpenTrades
        BY <2>3, <2>6, <3>1 DEF LimitReached
      <3>3. \A r \in Subs : AccountOf(r) = a /\ Adds(w, r) => r = s
        <4>1. \A r \in Subs : Adds(w, r) => TraderOf(r) = log[tx[w].event].trader
          BY <2>1 DEF Adds, Ticketed
        <4>2. \A r \in Subs : r = <<TraderOf(r), AccountOf(r)>>
          BY CopyAssumption DEF TraderOf, AccountOf
        <4>3. QED BY <2>6, <4>1, <4>2
      <3>4. OpenTickets(a)' \subseteq more
        BY <2>4, <3>3 DEF OpenTickets
      <3>5. IsFiniteSet(more) /\ Cardinality(more) <= Cardinality(OpenTickets(a)) + 1
        <4>1. IsFiniteSet(OpenTickets(a))
          BY <2>3
        <4>2. /\ IsFiniteSet(more)
              /\ Cardinality(more) = IF <<s, Ticket(w)>> \in OpenTickets(a)
                                     THEN Cardinality(OpenTickets(a))
                                     ELSE Cardinality(OpenTickets(a)) + 1
          BY <4>1, FS_AddElement
        <4>3. QED BY <2>3, <4>2
      <3>6. IsFiniteSet(OpenTickets(a)') /\ Cardinality(OpenTickets(a)') <= Cardinality(more)
        BY <3>4, <3>5, FS_Subset
      <3>7. Cardinality(OpenTickets(a)') \in Nat /\ Cardinality(more) \in Nat
        BY <3>5, <3>6, FS_CardinalityType
      <3>8. QED BY <2>3, <3>2, <3>5, <3>6, <3>7
    <2>7. QED BY <2>5, <2>6
  <1>3. QED
    BY <1>1, <1>2, LedgerSteps DEF IngestStep, IngestEvent, ledgerVars

-----------------------------------------------------------------------------
(* The theorems.                                                           *)

LEMMA OneWorkerHolds == OneWorker => (Spec => [](IInv /\ OneWorkerInv))
  <1> SUFFICES ASSUME OneWorker PROVE Spec => [](IInv /\ OneWorkerInv)
    OBVIOUS
  <1>1. Init => IInv /\ OneWorkerInv
    BY InitInv, InitOneWorker
  <1>2. IInv /\ OneWorkerInv /\ [Next]_vars => (IInv /\ OneWorkerInv)'
    BY NextInv, OrderInv, StagedInv, LimitInv DEF OneWorkerInv
  <1>3. QED
    BY <1>1, <1>2, PTL DEF Spec

\* One worker settles the events of a trader in the order they were accepted.
THEOREM EventsStayInOrder == OneWorker => (Spec => []SettledInOrder)
  <1>1. OneWorkerInv => SettledInOrder
    BY DEF OneWorkerInv
  <1>2. QED
    BY <1>1, OneWorkerHolds, PTL

\* One worker never tracks more open tickets of an account than max_open_trades,
\* although it counts committed mappings only.
THEOREM AccountsStayWithinLimit == OneWorker => (Spec => []TicketLimit)
  <1>1. OneWorkerInv => TicketLimit
    BY DEF OneWorkerInv
  <1>2. QED
    BY <1>1, OneWorkerHolds, PTL

\* The worker stops a draining subscription only when no ticket is left open.
THEOREM DrainsEndFlat == OneWorker => (Spec => WorkerStopsDrained)
  <1> SUFFICES ASSUME OneWorker PROVE Spec => WorkerStopsDrained
    OBVIOUS
  <1> DEFINE Drain ==
        \A s \in Subs :
           outbox' # outbox /\ status[s] # "stopped" /\ status'[s] = "stopped" =>
              \A k \in Tickets : mapping'[s][k] # "open"
  <1>1. ASSUME IInv, OneWorkerInv, [Next]_vars
        PROVE  Drain
    <2> USE <1>1 DEF IInv, OneWorkerInv
    <2>1. CASE UNCHANGED ledgerVars
      BY <2>1 DEF ledgerVars
    <2>2. CASE IngestStep
      BY <2>2 DEF IngestStep, IngestEvent, apiVars
    <2>3. ASSUME NEW w \in Workers, Commit(w)
          PROVE  Drain
      <3>1. mapping' = [s \in Subs |-> [k \in Tickets |->
               CASE k = Ticket(w) /\ Adds(w, s)   -> "open"
                 [] k = Ticket(w) /\ Closes(w, s) -> "closed"
                 [] OTHER                         -> mapping[s][k]]]
        BY <2>3, CommitBook
      <3>2. /\ Running(w)
            /\ status' = [s \in Subs |-> IF s \in tx[w].stops THEN "stopped" ELSE status[s]]
        BY <2>3 DEF Commit
      <3>3. ASSUME NEW s \in Subs, s \in tx[w].stops, NEW k \in Tickets
            PROVE  mapping'[s][k] # "open"
        <4>1. Action(w) = "close" /\ tx[w].result[s] \in Executed /\ Flat(w, s)
          BY <3>2, <3>3 DEF StopsAreFlat
        <4>2. ~Adds(w, s) /\ Closes(w, s)
          BY <4>1 DEF Adds, Closes
        <4>3. mapping[s][k] = "open" => k = Ticket(w)
          BY <4>1 DEF Flat
        <4>4. QED BY <3>1, <4>2, <4>3
      <3>4. QED BY <3>2, <3>3
    <2>4. QED
      BY <2>1, <2>2, <2>3, LedgerSteps
  <1>2. IInv /\ OneWorkerInv /\ [Next]_vars => [Drain]_vars
    BY <1>1
  <1>3. QED
    BY <1>2, OneWorkerHolds, PTL DEF Spec, WorkerStopsDrained

=============================================================================
