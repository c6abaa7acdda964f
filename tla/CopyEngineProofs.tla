-------------------------- MODULE CopyEngineProofs --------------------------
(* Theorems about CopyEngine, for every value of its constants.            *)
EXTENDS CopyEngineInv, TLAPS

-----------------------------------------------------------------------------
(* What a step of the worker does to its own transaction.                  *)

LEMMA IdleType == Idle \in Transactions
  BY CopyAssumption DEF Idle, Transactions, Statuses, Outcomes

\* Settling a follower touches the staged outcome of that follower only.
LEMMA SettleEffect ==
  ASSUME TypeOK, NEW w \in Workers, NEW s \in Subs, NEW outcome \in Outcomes,
         Settle(w, s, outcome)
  PROVE  /\ tx' \in [Workers -> Transactions]
         /\ \A v \in Workers \ {w} : tx'[v] = tx[v]
         /\ tx'[w].phase = tx[w].phase
         /\ tx'[w].event = tx[w].event
         /\ tx'[w].attempt = tx[w].attempt
         /\ tx'[w].seen = tx[w].seen
         /\ tx'[w].live = tx[w].live
         /\ tx'[w].todo = tx[w].todo \ {s}
         /\ tx'[w].calling = {}
         /\ tx'[w].result = [tx[w].result EXCEPT ![s] = outcome]
  <1> DEFINE row == Settled(w, s, outcome)
  <1>1. tx' = [tx EXCEPT ![w] = row]
    BY DEF Settle
  <1>2. tx[w] \in Transactions
    BY DEF TypeOK
  <1>3. row \in Transactions
    BY <1>2 DEF Settled, Transactions
  <1>4. tx' \in [Workers -> Transactions] /\ tx'[w] = row /\ \A v \in Workers \ {w} : tx'[v] = tx[v]
    BY <1>1, <1>3 DEF TypeOK
  <1>5. QED
    BY <1>2, <1>4 DEF Settled, Transactions

-----------------------------------------------------------------------------
(* Type correctness.                                                       *)

LEMMA InitType == Init => TypeOK
  BY CopyAssumption, IdleType
  DEF Init, TypeOK, EventIds, Statuses, Outcomes

LEMMA ProfileType == TypeOK /\ ProfileStep => TypeOK'
  <1> SUFFICES ASSUME TypeOK, NEW t \in Traders, Share(t) \/ Unshare(t) PROVE TypeOK'
    BY DEF ProfileStep
  <1> USE CopyAssumption DEF TypeOK, CountRequest, ledgerVars, brokerVars
  <1>1. CASE Share(t)
    BY <1>1 DEF Share
  <1>2. CASE Unshare(t)
    BY <1>2 DEF Unshare, Statuses
  <1>3. QED BY <1>1, <1>2

LEMMA SubscriptionType == TypeOK /\ SubscriptionStep => TypeOK'
  <1> SUFFICES ASSUME TypeOK, NEW s \in Subs,
                      \/ BeginCreate(s) \/ CommitCreate(s)
                      \/ BeginActivate(s) \/ CommitActivate(s)
                      \/ \E value \in {"active", "paused", "stopping", "stopped"} :
                            PatchSubscription(s, value)
               PROVE  TypeOK'
    BY DEF SubscriptionStep
  <1> USE CopyAssumption DEF TypeOK, CountRequest, ledgerVars, brokerVars, Statuses
  <1>1. CASE BeginCreate(s)
    BY <1>1 DEF BeginCreate
  <1>2. CASE CommitCreate(s)
    BY <1>2 DEF CommitCreate, StoredMode
  <1>3. CASE BeginActivate(s)
    BY <1>3 DEF BeginActivate
  <1>4. CASE CommitActivate(s)
    BY <1>4 DEF CommitActivate
  <1>5. CASE \E value \in {"active", "paused", "stopping", "stopped"} : PatchSubscription(s, value)
    BY <1>5 DEF PatchSubscription
  <1>6. QED BY <1>1, <1>2, <1>3, <1>4, <1>5

LEMMA AccountType == TypeOK /\ AccountStep => TypeOK'
  <1> SUFFICES ASSUME TypeOK, NEW a \in Accounts, NEW u \in Users,
                      \/ Heartbeat(a)
                      \/ EmergencyStop(u, a) \/ EmergencyClose(u, a)
                      \/ EmergencyCloseFails(u, a)
               PROVE  TypeOK'
    <2>1. \A a \in Accounts : Heartbeat(a) /\ TypeOK => TypeOK'
      BY DEF Heartbeat, TypeOK, apiVars, ledgerVars, brokerVars
    <2>2. QED BY <2>1 DEF AccountStep
  <1> USE CopyAssumption DEF TypeOK, CountRequest, ledgerVars, brokerVars, apiVars, Statuses,
                             EmergencyPause, PositionsOf
  <1>1. CASE Heartbeat(a)
    BY <1>1 DEF Heartbeat
  <1>2. CASE EmergencyStop(u, a)
    BY <1>2 DEF EmergencyStop
  <1>3. CASE EmergencyClose(u, a)
    BY <1>3 DEF EmergencyClose
  <1>4. CASE EmergencyCloseFails(u, a)
    BY <1>4 DEF EmergencyCloseFails
  <1>5. QED BY <1>1, <1>2, <1>3, <1>4

LEMMA IngestType == TypeOK /\ IngestStep => TypeOK'
  <1> SUFFICES ASSUME TypeOK, NEW t \in Traders, NEW x \in ExternalIds, NEW act \in Actions,
                      NEW k \in Tickets \cup {NoTicket}, IngestEvent(t, x, act, k)
               PROVE  TypeOK'
    BY DEF IngestStep
  <1> DEFINE event == [trader |-> t, external |-> x, action |-> act, ticket |-> k]
  <1>1. event \in TraderEvents
    BY DEF TraderEvents
  <1>2. logged' \in 0..MaxEvents /\ logged' = logged + 1
    BY CopyAssumption DEF IngestEvent, TypeOK
  <1>3. log' \in [1..logged' -> TraderEvents]
    BY <1>1, <1>2 DEF IngestEvent, TypeOK
  <1>4. outbox' \in [EventIds -> {"absent", "pending", "processed"}]
    BY DEF IngestEvent, TypeOK
  <1>5. QED
    BY <1>2, <1>3, <1>4 DEF IngestEvent, TypeOK, apiVars, brokerVars

\* The disjuncts of a worker's step over the followers, and their outcomes.
LEMMA SettleCases ==
  ASSUME NEW w \in Workers, SettleStep(w)
  PROVE  \E s \in Subs :
            \/ Skip(w, s)
            \/ SendOrder(w, s)
            \/ /\ Block(w, s) \/ CopyOnPaper(w, s) \/ RefuseRuntime(w, s)
                  \/ OrderFilled(w, s) \/ OrderFails(w, s)
               /\ \E outcome \in Outcomes \ {"none"} : Settle(w, s, outcome)
               /\ UNCHANGED <<apiVars, ledgerVars, brokerVars, runtime, aborts>>
  <1>1. \A s \in Subs : Answers(w, s) \subseteq Outcomes \ {"none"}
    BY DEF Answers, Outcomes
  <1>2. QED
    BY <1>1 DEF SettleStep, Block, CopyOnPaper, RefuseRuntime, OrderFilled, OrderFails, Outcomes

LEMMA WorkerType ==
  ASSUME TypeOK, LocksExclusive, NEW w \in Workers, WorkerStep(w) \/ Abort(w)
  PROVE  TypeOK'
  <1> tx[w] \in Transactions
    BY DEF TypeOK
  <1>1. CASE Claim(w)
    <2>1. PICK e \in EventIds :
            tx' = [tx EXCEPT ![w] =
              [Idle EXCEPT
                 !.phase   = "running",
                 !.event   = e,
                 !.attempt = aborts,
                 !.seen    = status,
                 !.live    = {s \in Subs : mode[s] = "live"},
                 !.todo    = {s \in Subs : /\ TraderOf(s) = log[e].trader
                                           /\ status[s] \in {"active", "paused", "stopping"}}]]
      BY <1>1 DEF Claim, Claimable
    <2>2. tx' \in [Workers -> Transactions]
      BY <2>1 DEF TypeOK, Idle, Transactions, Outcomes, Statuses
    <2>3. QED
      BY <1>1, <2>2 DEF Claim, TypeOK, apiVars, ledgerVars, brokerVars
  <1>2. CASE SettleStep(w)
    <2>1. PICK s \in Subs :
            \/ Skip(w, s)
            \/ SendOrder(w, s)
            \/ /\ \E outcome \in Outcomes \ {"none"} : Settle(w, s, outcome)
               /\ UNCHANGED <<apiVars, ledgerVars, brokerVars, runtime, aborts>>
      BY <1>2, SettleCases
    <2>2. CASE Skip(w, s)
      <3>1. [tx[w] EXCEPT !.todo = @ \ {s}] \in Transactions
        BY DEF Transactions
      <3>2. QED
        BY <2>2, <3>1 DEF Skip, TypeOK, apiVars, ledgerVars, brokerVars
    <2>3. CASE SendOrder(w, s)
      <3>0. PICK found \in SUBSET Subs :
              tx' = [tx EXCEPT ![w].calling = {s}, ![w].found = found]
        <4>1. tx' = [tx EXCEPT ![w].calling = {s}, ![w].found = IF Mapped(w, s) THEN {s} ELSE {}]
          BY <2>3 DEF SendOrder
        <4>2. QED BY <4>1
      <3>1. [tx[w] EXCEPT !.calling = {s}, !.found = found] \in Transactions
        BY DEF Transactions
      <3>2. Key(w, s) \in OrderKeys
        <4>1. tx[w].event \in EventIds
          BY <2>3 DEF SendOrder, Accepts, Turn, LocksExclusive
        <4>2. QED BY <4>1 DEF Key, OrderKeys, Transactions
      <3>3. tx' \in [Workers -> Transactions]
        <4>1. tx' = [tx EXCEPT ![w] = [tx[w] EXCEPT !.calling = {s}, !.found = found]]
          BY <3>0 DEF TypeOK
        <4>2. QED BY <3>1, <4>1 DEF TypeOK
      <3>4. UNCHANGED <<apiVars, ledgerVars, applied, positions, runtime, aborts>>
            /\ sent' = sent \cup {Key(w, s)}
        BY <2>3 DEF SendOrder
      <3>5. QED
        BY <3>2, <3>3, <3>4 DEF TypeOK, apiVars, ledgerVars
    <2>4. CASE /\ \E outcome \in Outcomes \ {"none"} : Settle(w, s, outcome)
               /\ UNCHANGED <<apiVars, ledgerVars, brokerVars, runtime, aborts>>
      <3>1. tx' \in [Workers -> Transactions]
        BY <2>4, SettleEffect
      <3>2. QED
        BY <2>4, <3>1 DEF TypeOK, apiVars, ledgerVars, brokerVars
    <2>5. QED BY <2>1, <2>2, <2>3, <2>4
  <1>3. CASE Commit(w)
    <2>1. tx[w].event \in EventIds /\ tx[w].attempt \in 0..MaxAborts
      BY <1>3 DEF Commit, LocksExclusive, Transactions
    <2>2. execution' \in [EventIds -> [Subs -> Outcomes]]
      BY <1>3, <2>1 DEF Commit, TypeOK, Transactions
    <2>3. target' \in [Subs -> [Tickets -> OrderKeys \cup {Paper}]]
      BY <1>3, <2>1 DEF Commit, TypeOK, Key, OrderKeys
    <2>4. mapping' \in [Subs -> [Tickets -> {"none", "open", "closed"}]]
      BY <1>3 DEF Commit, TypeOK
    <2>5. status' \in [Subs -> Statuses]
      BY <1>3 DEF Commit, TypeOK, Statuses
    <2>6. outbox' \in [EventIds -> {"absent", "pending", "processed"}]
      BY <1>3 DEF Commit, TypeOK, RowAfterCommit
    <2>7. tx' \in [Workers -> Transactions]
      BY <1>3, IdleType DEF Commit, TypeOK
    <2>8. QED
      BY <1>3, <2>2, <2>3, <2>4, <2>5, <2>6, <2>7 DEF Commit, TypeOK, brokerVars
  <1>4. CASE Abort(w) \/ FlushFails(w)
    <2>1. aborts' \in 0..MaxAborts
      BY <1>4, CopyAssumption DEF Abort, FlushFails, TypeOK
    <2>2. tx' \in [Workers -> Transactions]
      BY <1>4, IdleType DEF Abort, FlushFails, TypeOK
    <2>3. QED
      BY <1>4, <2>1, <2>2 DEF Abort, FlushFails, TypeOK, apiVars, ledgerVars, brokerVars
  <1>5. QED
    BY <1>1, <1>2, <1>3, <1>4 DEF WorkerStep

LEMMA BrokerType == TypeOK /\ BrokerStep => TypeOK'
  BY DEF BrokerStep, BrokerApplies, TypeOK, apiVars, ledgerVars

-----------------------------------------------------------------------------
(* The inductive invariant.                                                *)

LEMMA InitInv == Init => IInv
  <1> SUFFICES ASSUME Init PROVE IInv
    OBVIOUS
  <1>1. TypeOK
    BY InitType
  <1>2. RowsFollowLog /\ NoPartialResults /\ FilledIsMapped
    BY CopyAssumption DEF Init, RowsFollowLog, NoPartialResults, FilledIsMapped, EventIds
  <1>3. LocksExclusive /\ StagedSound /\ LiveWasActivated
    BY DEF Init, LocksExclusive, StagedSound, LiveWasActivated, Running, Idle
  <1>4. OrdersSound /\ OrdersNeedActivation /\ LedgerMatchesBroker
    BY DEF Init, OrdersSound, OrdersNeedActivation, LedgerMatchesBroker, ExecutedIsBacked,
           TargetsAreExecuted
  <1>5. QED
    BY <1>1, <1>2, <1>3, <1>4 DEF IInv

\* API requests and heartbeats change no ledger row, order or transaction, and
\* make a subscription live only by activating it.
LEMMA ApiFrame ==
  ASSUME TypeOK, ProfileStep \/ SubscriptionStep \/ AccountStep
  PROVE  /\ UNCHANGED <<ledgerVars, sent, applied, tx, aborts>>
         /\ activated \subseteq activated'
         /\ \A s \in Subs : mode'[s] = "live" => mode[s] = "live" \/ s \in activated'
  <1>1. CASE ProfileStep
    BY <1>1 DEF ProfileStep, Share, Unshare, brokerVars
  <1>2. CASE SubscriptionStep
    BY <1>2 DEF SubscriptionStep, BeginCreate, CommitCreate, BeginActivate, CommitActivate,
                PatchSubscription, brokerVars, StoredMode, TypeOK
  <1>3. CASE AccountStep
    BY <1>3 DEF AccountStep, Heartbeat, EmergencyStop, EmergencyClose, EmergencyCloseFails,
                EmergencyPause, brokerVars, apiVars
  <1>4. QED BY <1>1, <1>2, <1>3

LEMMA ApiInv ==
  ASSUME IInv, ProfileStep \/ SubscriptionStep \/ AccountStep
  PROVE  IInv'
  <1>1. TypeOK'
    BY ProfileType, SubscriptionType, AccountType DEF IInv
  <1>2. /\ UNCHANGED <<ledgerVars, sent, applied, tx, aborts>>
        /\ activated \subseteq activated'
        /\ \A s \in Subs : mode'[s] = "live" => mode[s] = "live" \/ s \in activated'
    BY ApiFrame DEF IInv
  <1>3. (RowsFollowLog /\ LocksExclusive /\ NoPartialResults)'
    BY <1>2 DEF IInv, RowsFollowLog, LocksExclusive, NoPartialResults, Running, ledgerVars
  <1>4. StagedSound'
    BY <1>2 DEF IInv, StagedSound, Running, Key, Action, Mapped, Ticket, ledgerVars
  <1>5. (LiveWasActivated /\ OrdersSound /\ OrdersNeedActivation)'
    BY <1>2 DEF IInv, LiveWasActivated, OrdersSound, OrdersNeedActivation, ledgerVars
  <1>6. (FilledIsMapped /\ LedgerMatchesBroker)'
    BY <1>2 DEF IInv, FilledIsMapped, LedgerMatchesBroker, ExecutedIsBacked, TargetsAreExecuted,
                ledgerVars
  <1>7. QED
    BY <1>1, <1>3, <1>4, <1>5, <1>6 DEF IInv

LEMMA IngestInv ==
  ASSUME IInv, IngestStep
  PROVE  IInv'
  <1>1. PICK t \in Traders, x \in ExternalIds, act \in Actions, k \in Tickets \cup {NoTicket} :
          IngestEvent(t, x, act, k)
    BY DEF IngestStep
  <1>2. TypeOK'
    BY IngestType DEF IInv
  <1>3. /\ logged \in Nat /\ logged' = logged + 1 /\ logged + 1 \in EventIds
        /\ outbox' = [outbox EXCEPT ![logged + 1] = "pending"]
        /\ \A e \in 1..logged : log'[e] = log[e]
        /\ UNCHANGED <<apiVars, execution, mapping, target, brokerVars, runtime, tx, aborts>>
    BY <1>1, CopyAssumption DEF IngestEvent, IInv, TypeOK, EventIds
  <1>4. RowsFollowLog'
    BY <1>2, <1>3 DEF IInv, RowsFollowLog, EventIds, TypeOK
  \* The new row is the only one that changes, and it was absent.
  <1>5. /\ outbox[logged + 1] = "absent"
        /\ \A e \in EventIds : outbox[e] # "absent" =>
              outbox'[e] = outbox[e] /\ log'[e] = log[e] /\ e \in 1..logged
    BY <1>3 DEF IInv, RowsFollowLog, EventIds, TypeOK
  <1>6. NoPartialResults'
    BY <1>3, <1>5 DEF IInv, NoPartialResults, TypeOK
  <1>7. LocksExclusive'
    BY <1>3, <1>5 DEF IInv, LocksExclusive, Running
  <1>8. StagedSound'
    BY <1>3, <1>5 DEF IInv, LocksExclusive, StagedSound, Running, Key, Action, Mapped, Ticket,
                      brokerVars
  <1>9. (LiveWasActivated /\ OrdersNeedActivation)'
    BY <1>3 DEF IInv, LiveWasActivated, OrdersNeedActivation, apiVars, brokerVars
  <1>10. OrdersSound'
    BY <1>3, <1>5 DEF IInv, OrdersSound, brokerVars, TypeOK, OrderKeys
  <1>11. (FilledIsMapped /\ LedgerMatchesBroker)'
    <2>1. \A e \in EventIds, s \in Subs : execution[e][s] # "none" => log'[e] = log[e]
      BY <1>5 DEF IInv, NoPartialResults
    <2>2. FilledIsMapped'
      BY <1>3, <2>1 DEF IInv, FilledIsMapped
    <2>3. UNCHANGED <<execution, target, applied>>
      BY <1>3 DEF brokerVars
    <2>4. ExecutedIsBacked
      BY DEF IInv, LedgerMatchesBroker
    <2>5. ExecutedIsBacked'
      <3>1. SUFFICES ASSUME NEW e \in EventIds, NEW s \in Subs,
                            execution[e][s] \in {"filled", "unticketed"}
            PROVE  /\ \E n \in 0..MaxAborts : <<e, s, n>> \in applied
                   /\ execution[e][s] = "unticketed" => log'[e].action = "open"
                   /\ execution[e][s] = "filled" /\ log'[e].action = "open" /\ log'[e].ticket # NoTicket =>
                         \E n \in 0..MaxAborts : target[s][log'[e].ticket] = <<e, s, n>>
        BY <2>3 DEF ExecutedIsBacked
      <3>2. log'[e] = log[e]
        BY <2>1, <3>1
      <3>3. QED BY <2>4, <3>1, <3>2 DEF ExecutedIsBacked
    <2>6. TargetsAreExecuted'
      BY <2>3 DEF IInv, LedgerMatchesBroker, TargetsAreExecuted
    <2>7. QED BY <2>2, <2>5, <2>6 DEF LedgerMatchesBroker
  <1>12. QED
    BY <1>2, <1>4, <1>6, <1>7, <1>8, <1>9, <1>10, <1>11 DEF IInv

LEMMA BrokerInv ==
  ASSUME IInv, BrokerStep
  PROVE  IInv'
  <1>1. PICK key \in sent : BrokerApplies(key)
    BY DEF BrokerStep
  <1>2. TypeOK'
    BY BrokerType DEF IInv
  <1>3. /\ UNCHANGED <<apiVars, ledgerVars, sent, runtime, tx, aborts>>
        /\ applied' = applied \cup {key}
    BY <1>1 DEF BrokerApplies
  <1>4. (RowsFollowLog /\ LocksExclusive /\ NoPartialResults /\ FilledIsMapped)'
    BY <1>3 DEF IInv, RowsFollowLog, LocksExclusive, NoPartialResults, FilledIsMapped, Running,
                ledgerVars
  <1>5. StagedSound'
    BY <1>3 DEF IInv, StagedSound, Running, Key, Action, Mapped, Ticket, ledgerVars
  <1>6. (LiveWasActivated /\ OrdersSound /\ OrdersNeedActivation)'
    BY <1>3 DEF IInv, LiveWasActivated, OrdersSound, OrdersNeedActivation, apiVars, ledgerVars
  <1>7. LedgerMatchesBroker'
    <2>1. ExecutedIsBacked /\ TargetsAreExecuted
      BY DEF IInv, LedgerMatchesBroker
    <2>2. ExecutedIsBacked'
      BY <1>3, <2>1 DEF ExecutedIsBacked, ledgerVars
    <2>3. TargetsAreExecuted'
      BY <1>3, <2>1 DEF TargetsAreExecuted, ledgerVars
    <2>4. QED BY <2>2, <2>3 DEF LedgerMatchesBroker
  <1>8. QED
    BY <1>2, <1>4, <1>5, <1>6, <1>7 DEF IInv

\* A step that only moves worker w's transaction, to a sound one of the same
\* row or to an idle one, keeps the invariant.
LEMMA TransactionInv ==
  ASSUME IInv, TypeOK', NEW w \in Workers,
         \A v \in Workers \ {w} : tx'[v] = tx[v],
         UNCHANGED <<apiVars, ledgerVars, applied>>,
         sent \subseteq sent',
         \A key \in sent' \ sent : key[2] \in activated /\ outbox[key[1]] # "absent",
         tx'[w].live \subseteq activated,
         tx'[w].phase = "running" =>
            /\ tx'[w].event \in EventIds
            /\ outbox[tx'[w].event] = "pending"
            /\ \A v \in Workers \ {w} : Running(v) => tx[v].event # tx'[w].event,
         Running(w)' =>
            \A s \in Subs :
               /\ s \in tx'[w].todo \cup tx'[w].calling => TraderOf(s) = log[tx'[w].event].trader
               /\ tx'[w].result[s] # "none" => TraderOf(s) = log[tx'[w].event].trader
               /\ tx'[w].result[s] \in {"filled", "unticketed"} => Key(w, s)' \in applied
               /\ tx'[w].result[s] = "unticketed" => Action(w)' = "open"
               /\ tx'[w].result[s] \in Executed /\ Action(w)' # "open" => Mapped(w, s)'
               /\ s \in tx'[w].calling /\ Action(w)' # "open" => Mapped(w, s)' /\ s \in tx'[w].found
  PROVE  IInv'
  <1>1. (RowsFollowLog /\ NoPartialResults /\ FilledIsMapped /\ LedgerMatchesBroker)'
    BY DEF IInv, RowsFollowLog, NoPartialResults, FilledIsMapped, LedgerMatchesBroker,
           ExecutedIsBacked, TargetsAreExecuted, ledgerVars
  <1>2. LocksExclusive'
    BY DEF IInv, LocksExclusive, Running, ledgerVars
  <1>3. StagedSound'
    <2>1. ASSUME NEW v \in Workers \ {w}, Running(v)', NEW s \in Subs
          PROVE  /\ s \in tx'[v].todo \cup tx'[v].calling => TraderOf(s) = log'[tx'[v].event].trader
                 /\ tx'[v].result[s] # "none" => TraderOf(s) = log'[tx'[v].event].trader
                 /\ tx'[v].result[s] \in {"filled", "unticketed"} => Key(v, s)' \in applied'
                 /\ tx'[v].result[s] = "unticketed" => Action(v)' = "open"
                 /\ tx'[v].result[s] \in Executed /\ Action(v)' # "open" => Mapped(v, s)'
                 /\ s \in tx'[v].calling /\ Action(v)' # "open" => Mapped(v, s)' /\ s \in tx'[v].found
      BY ZenonT(60), <2>1 DEF IInv, StagedSound, Running, Key, Action, Mapped, Ticket, ledgerVars
    <2>2. QED
      BY <2>1 DEF StagedSound, ledgerVars
  <1>4. (LiveWasActivated /\ OrdersSound /\ OrdersNeedActivation)'
    BY DEF IInv, LiveWasActivated, OrdersSound, OrdersNeedActivation, apiVars, ledgerVars
  <1>5. QED
    BY <1>1, <1>2, <1>3, <1>4 DEF IInv

\* A claimed row is pending and locked by nobody; the snapshot's live
\* subscriptions were activated.
LEMMA ClaimInv ==
  ASSUME IInv, NEW w \in Workers, Claim(w)
  PROVE  IInv'
  <1>1. TypeOK'
    BY WorkerType DEF IInv, WorkerStep
  <1>2. PICK e \in Claimable :
          /\ \A v \in Workers \ {w} : tx'[v] = tx[v]
          /\ tx'[w] = [Idle EXCEPT
                !.phase   = "running",
                !.event   = e,
                !.attempt = aborts,
                !.seen    = status,
                !.live    = {s \in Subs : mode[s] = "live"},
                !.todo    = {s \in Subs : /\ TraderOf(s) = log[e].trader
                                          /\ status[s] \in {"active", "paused", "stopping"}}]
    BY DEF Claim, IInv, TypeOK
  <1>3. /\ e \in EventIds
        /\ outbox[e] = "pending"
        /\ \A v \in Workers : Running(v) => tx[v].event # e
    BY DEF Claimable
  <1>4. /\ tx'[w].event = e
        /\ tx'[w].live \subseteq activated
        /\ tx'[w].calling = {}
        /\ \A s \in tx'[w].todo : TraderOf(s) = log[e].trader
        /\ \A s \in Subs : tx'[w].result[s] = "none"
    BY <1>2 DEF Idle, IInv, LiveWasActivated
  <1>5. UNCHANGED <<apiVars, ledgerVars, brokerVars>>
    BY DEF Claim
  <1>6. UNCHANGED <<log, sent, applied>>
    BY <1>5 DEF ledgerVars, brokerVars
  <1>7. QED
    BY <1>1, <1>2, <1>3, <1>4, <1>5, <1>6, TransactionInv DEF Executed, Ticketed

\* Dropping the transaction leaves nothing to hold.
LEMMA RollbackInv ==
  ASSUME IInv, NEW w \in Workers, Abort(w) \/ FlushFails(w)
  PROVE  IInv'
  <1>1. TypeOK'
    BY WorkerType DEF IInv, WorkerStep
  <1>2. /\ \A v \in Workers \ {w} : tx'[v] = tx[v]
        /\ tx'[w] = Idle
    BY DEF Abort, FlushFails, IInv, TypeOK
  <1>3. tx'[w].phase = "idle" /\ tx'[w].live \subseteq activated
    BY <1>2 DEF Idle
  <1>4. UNCHANGED <<apiVars, ledgerVars, brokerVars>>
    BY DEF Abort, FlushFails
  <1>5. UNCHANGED <<sent, applied>>
    BY <1>4 DEF brokerVars
  <1>6. QED
    BY <1>1, <1>2, <1>3, <1>4, <1>5, TransactionInv DEF Running

\* Staging an outcome: only the broker's confirmation may stage "filled", and
\* only on a ticket that exists may anything but an open be executed.
LEMMA SettleInv ==
  ASSUME IInv, NEW w \in Workers, SettleStep(w)
  PROVE  IInv'
  <1>1. TypeOK'
    BY WorkerType DEF IInv, WorkerStep
  <1>2. tx[w] \in Transactions /\ tx[w].live \subseteq activated
    BY DEF IInv, TypeOK, LiveWasActivated
  <1>3. PICK s \in Subs :
          \/ Skip(w, s) \/ Block(w, s) \/ CopyOnPaper(w, s) \/ RefuseRuntime(w, s)
          \/ SendOrder(w, s) \/ OrderFilled(w, s) \/ OrderFails(w, s)
    BY DEF SettleStep
  <1>4. Running(w)
    BY <1>3 DEF Skip, Block, CopyOnPaper, RefuseRuntime, SendOrder, OrderFilled, OrderFails,
                Accepts, Turn
  <1>5. /\ tx[w].event \in EventIds
        /\ outbox[tx[w].event] = "pending"
        /\ \A v \in Workers \ {w} : Running(v) => tx[v].event # tx[w].event
    BY <1>4 DEF IInv, LocksExclusive
  <1>6. \A r \in Subs :
          /\ r \in tx[w].todo \cup tx[w].calling => TraderOf(r) = log[tx[w].event].trader
          /\ tx[w].result[r] # "none" => TraderOf(r) = log[tx[w].event].trader
          /\ tx[w].result[r] \in {"filled", "unticketed"} => Key(w, r) \in applied
          /\ tx[w].result[r] = "unticketed" => Action(w) = "open"
          /\ tx[w].result[r] \in Executed /\ Action(w) # "open" => Mapped(w, r)
          /\ r \in tx[w].calling /\ Action(w) # "open" => Mapped(w, r) /\ r \in tx[w].found
    BY <1>4 DEF IInv, StagedSound
  <1>7. CASE Skip(w, s)
    <2>1. /\ \A v \in Workers \ {w} : tx'[v] = tx[v]
          /\ tx'[w] = [tx[w] EXCEPT !.todo = @ \ {s}]
      BY <1>7 DEF Skip, IInv, TypeOK
    <2>2. /\ tx'[w].event = tx[w].event /\ tx'[w].attempt = tx[w].attempt
          /\ tx'[w].live = tx[w].live /\ tx'[w].calling = tx[w].calling
          /\ tx'[w].result = tx[w].result /\ tx'[w].todo \subseteq tx[w].todo
          /\ tx'[w].found = tx[w].found
      BY <1>2, <2>1 DEF Transactions
    <2>3. UNCHANGED <<apiVars, ledgerVars, brokerVars>>
      BY <1>7 DEF Skip
    <2>4. UNCHANGED <<log, mapping, sent, applied>>
      BY <2>3 DEF ledgerVars, brokerVars
    <2>5. /\ Action(w)' = Action(w)
          /\ \A r \in Subs : Key(w, r)' = Key(w, r) /\ Mapped(w, r)' = Mapped(w, r)
      BY <2>2, <2>4 DEF Action, Key, Mapped, Ticket
    <2>6. QED
      BY ZenonT(60), <1>1, <1>2, <1>5, <1>6, <2>1, <2>2, <2>3, <2>4, <2>5, TransactionInv
  <1>8. CASE SendOrder(w, s)
    <2>1. /\ \A v \in Workers \ {w} : tx'[v] = tx[v]
          /\ tx'[w] = [tx[w] EXCEPT !.calling = {s}, !.found = IF Mapped(w, s) THEN {s} ELSE {}]
      BY <1>8 DEF SendOrder, IInv, TypeOK
    <2>2. /\ tx'[w].event = tx[w].event /\ tx'[w].attempt = tx[w].attempt
          /\ tx'[w].live = tx[w].live /\ tx'[w].calling = {s}
          /\ tx'[w].result = tx[w].result /\ tx'[w].todo = tx[w].todo
          /\ Mapped(w, s) => s \in tx'[w].found
      BY <1>2, <2>1 DEF Transactions
    <2>3. /\ s \in tx[w].todo /\ s \in tx[w].live
          /\ Action(w) # "open" => Mapped(w, s)
      BY <1>8 DEF SendOrder, Accepts, Turn
    <2>4. UNCHANGED <<apiVars, ledgerVars, applied>> /\ sent' = sent \cup {Key(w, s)}
      BY <1>8 DEF SendOrder
    <2>5. UNCHANGED <<log, mapping>>
      BY <2>4 DEF ledgerVars
    <2>6. /\ Action(w)' = Action(w)
          /\ \A r \in Subs : Key(w, r)' = Key(w, r) /\ Mapped(w, r)' = Mapped(w, r)
      BY <2>2, <2>5 DEF Action, Key, Mapped, Ticket
    <2>7. \A key \in sent' \ sent : key[2] \in activated /\ outbox[key[1]] # "absent"
      BY <1>2, <1>5, <2>3, <2>4 DEF Key
    <2>8. \A r \in Subs :
            /\ r \in tx'[w].todo \cup tx'[w].calling => TraderOf(r) = log[tx'[w].event].trader
            /\ tx'[w].result[r] # "none" => TraderOf(r) = log[tx'[w].event].trader
            /\ tx'[w].result[r] \in {"filled", "unticketed"} => Key(w, r)' \in applied
            /\ tx'[w].result[r] = "unticketed" => Action(w)' = "open"
            /\ tx'[w].result[r] \in Executed /\ Action(w)' # "open" => Mapped(w, r)'
            /\ r \in tx'[w].calling /\ Action(w)' # "open" => Mapped(w, r)' /\ r \in tx'[w].found
      BY <1>6, <2>2, <2>3, <2>6
    <2>9. /\ sent \subseteq sent'
          /\ UNCHANGED <<apiVars, ledgerVars, applied>>
          /\ tx'[w].live \subseteq activated
          /\ tx'[w].event \in EventIds
          /\ outbox[tx'[w].event] = "pending"
          /\ \A v \in Workers \ {w} : tx'[v] = tx[v]
          /\ \A v \in Workers \ {w} : Running(v) => tx[v].event # tx'[w].event
      BY <1>2, <1>5, <2>1, <2>2, <2>4
    <2>10. QED
      BY <1>1, <2>7, <2>8, <2>9, TransactionInv
  <1>9. CASE \/ Block(w, s) \/ CopyOnPaper(w, s) \/ RefuseRuntime(w, s)
             \/ OrderFilled(w, s) \/ OrderFails(w, s)
    <2>1. UNCHANGED <<apiVars, ledgerVars, brokerVars>>
      BY <1>9 DEF Block, CopyOnPaper, RefuseRuntime, OrderFilled, OrderFails
    <2>2. PICK outcome \in Outcomes :
            /\ Settle(w, s, outcome)
            /\ outcome \in {"filled", "unticketed"} => Key(w, s) \in applied
            /\ outcome = "unticketed" => Action(w) = "open"
            /\ outcome \in Executed /\ Action(w) # "open" => Mapped(w, s)
            /\ TraderOf(s) = log[tx[w].event].trader
      <3>1. CASE Block(w, s)
        BY <1>6, <3>1 DEF Block, Turn, Outcomes, Executed, Ticketed
      <3>2. CASE CopyOnPaper(w, s)
        BY <1>6, <3>2 DEF CopyOnPaper, Accepts, Turn, Outcomes, Executed, Ticketed
      <3>3. CASE RefuseRuntime(w, s)
        BY <1>6, <3>3 DEF RefuseRuntime, Accepts, Turn, Outcomes, Executed, Ticketed
      <3>4. CASE OrderFilled(w, s)
        <4>1. PICK outcome \in Answers(w, s) : Settle(w, s, outcome)
          BY <3>4 DEF OrderFilled
        <4>2. s \in tx[w].calling /\ Key(w, s) \in applied
          BY <3>4 DEF OrderFilled, Confirmed
        <4>3. outcome = "filled" \/ (outcome = "unticketed" /\ s \notin tx[w].found)
          BY <4>1 DEF Answers
        <4>4. outcome \in Outcomes
          BY <4>3 DEF Outcomes
        <4>5. QED BY <1>6, <4>1, <4>2, <4>3, <4>4
      <3>5. CASE OrderFails(w, s)
        BY <1>6, <3>5 DEF OrderFails, Outcomes, Executed, Ticketed
      <3>6. QED BY <1>9, <3>1, <3>2, <3>3, <3>4, <3>5
    <2>3. /\ \A v \in Workers \ {w} : tx'[v] = tx[v]
          /\ tx'[w].event = tx[w].event /\ tx'[w].attempt = tx[w].attempt
          /\ tx'[w].live = tx[w].live /\ tx'[w].calling = {}
          /\ tx'[w].todo = tx[w].todo \ {s}
          /\ tx'[w].result = [tx[w].result EXCEPT ![s] = outcome]
      BY <2>2, SettleEffect DEF IInv
    <2>4. UNCHANGED <<log, mapping, sent, applied>>
      BY <2>1 DEF ledgerVars, brokerVars
    <2>5. /\ Action(w)' = Action(w)
          /\ \A r \in Subs : Key(w, r)' = Key(w, r) /\ Mapped(w, r)' = Mapped(w, r)
      BY <2>3, <2>4 DEF Action, Key, Mapped, Ticket
    <2>6. \A r \in Subs : tx'[w].result[r] = IF r = s THEN outcome ELSE tx[w].result[r]
      BY <1>2, <2>3 DEF Transactions
    <2>7. \A r \in Subs :
            /\ r \in tx'[w].todo \cup tx'[w].calling => TraderOf(r) = log[tx'[w].event].trader
            /\ tx'[w].result[r] # "none" => TraderOf(r) = log[tx'[w].event].trader
            /\ tx'[w].result[r] \in {"filled", "unticketed"} => Key(w, r)' \in applied
            /\ tx'[w].result[r] = "unticketed" => Action(w)' = "open"
            /\ tx'[w].result[r] \in Executed /\ Action(w)' # "open" => Mapped(w, r)'
            /\ r \in tx'[w].calling /\ Action(w)' # "open" => Mapped(w, r)' /\ r \in tx'[w].found
      BY <1>6, <2>2, <2>3, <2>5, <2>6
    <2>8. QED
      BY <1>1, <1>2, <1>5, <2>1, <2>3, <2>4, <2>7, TransactionInv
  <1>10. QED
    BY <1>3, <1>7, <1>8, <1>9

\* What a commit writes, row by row.
LEMMA CommitEffect ==
  ASSUME IInv, NEW w \in Workers, Commit(w)
  PROVE  /\ tx[w].event \in EventIds /\ tx[w].attempt \in 0..MaxAborts
         /\ outbox[tx[w].event] = "pending"
         /\ outbox' = [outbox EXCEPT ![tx[w].event] = "processed"]
         /\ \A e \in EventIds \ {tx[w].event} : execution'[e] = execution[e]
         /\ \A s \in Subs : execution'[tx[w].event][s] = tx[w].result[s]
         /\ \A s \in Subs, k \in Tickets :
               /\ mapping[s][k] # "none" =>
                     mapping'[s][k] # "none" /\ target'[s][k] = target[s][k]
               /\ target'[s][k] # target[s][k] =>
                     target'[s][k] = Key(w, s) /\ tx[w].result[s] = "filled"
         /\ \A s \in Subs :
               tx[w].result[s] = "filled" /\ Action(w) = "open" /\ Ticket(w) # NoTicket =>
                  /\ mapping'[s][Ticket(w)] # "none"
                  /\ target'[s][Ticket(w)] = Key(w, s)
         /\ \A v \in Workers \ {w} : tx'[v] = tx[v]
         /\ tx'[w] = Idle
         /\ UNCHANGED <<mode, activated, log, logged, brokerVars>>
  <1> USE DEF IInv
  <1>1. Running(w) /\ ~Conflict(w)
    BY DEF Commit
  <1>2. /\ tx[w] \in Transactions
        /\ tx[w].event \in EventIds /\ tx[w].attempt \in 0..MaxAborts
        /\ outbox[tx[w].event] = "pending"
    BY <1>1 DEF LocksExclusive, TypeOK, Transactions
  <1>3. outbox' = [outbox EXCEPT ![tx[w].event] = "processed"]
    BY DEF Commit, RowAfterCommit
  <1>4. \A s \in Subs : execution[tx[w].event][s] = "none"
    BY <1>2 DEF NoPartialResults
  <1>5. \A e \in EventIds \ {tx[w].event} : execution'[e] = execution[e]
    BY DEF Commit, TypeOK
  <1>6. \A s \in Subs : execution'[tx[w].event][s] = tx[w].result[s]
    <2>1. execution'[tx[w].event] =
            [s \in Subs |-> IF tx[w].result[s] # "none" THEN tx[w].result[s]
                            ELSE execution[tx[w].event][s]]
      BY <1>2 DEF Commit, TypeOK
    <2>2. QED BY <1>4, <2>1
  <1>7. \A s \in Subs, k \in Tickets :
          /\ mapping[s][k] # "none" => mapping'[s][k] # "none" /\ target'[s][k] = target[s][k]
          /\ target'[s][k] # target[s][k] =>
                target'[s][k] = Key(w, s) /\ tx[w].result[s] = "filled"
    BY <1>1 DEF Commit, Conflict
  <1>8. log[tx[w].event] \in TraderEvents
    BY <1>2, CopyAssumption DEF RowsFollowLog, EventIds, TypeOK
  <1>9. ASSUME NEW s \in Subs, tx[w].result[s] = "filled", Action(w) = "open", Ticket(w) # NoTicket
        PROVE  mapping'[s][Ticket(w)] # "none" /\ target'[s][Ticket(w)] = Key(w, s)
    <2>1. Adds(w, s) /\ Ticket(w) \in Tickets
      BY <1>8, <1>9 DEF Adds, Ticketed, Ticket, TraderEvents
    <2>2. QED
      BY <1>9, <2>1 DEF Commit
  <1>10. /\ \A v \in Workers \ {w} : tx'[v] = tx[v]
         /\ tx'[w] = Idle
         /\ UNCHANGED <<mode, activated, log, logged, brokerVars>>
    BY DEF Commit, TypeOK
  <1>11. QED
    BY <1>2, <1>3, <1>5, <1>6, <1>7, <1>9, <1>10

\* An event with a filled order was accepted, so its ticket is a ticket.
LEMMA FilledTicket ==
  ASSUME IInv, NEW f \in EventIds, NEW s \in Subs,
         execution[f][s] = "filled", log[f].ticket # NoTicket
  PROVE  log[f].ticket \in Tickets
  <1>1. outbox[f] = "processed"
    BY DEF IInv, NoPartialResults
  <1>2. f \in 1..logged
    BY <1>1 DEF IInv, RowsFollowLog, TypeOK, EventIds
  <1>3. log[f] \in TraderEvents
    BY <1>2 DEF IInv, TypeOK
  <1>4. QED BY <1>3 DEF TraderEvents

LEMMA CommitInv ==
  ASSUME IInv, NEW w \in Workers, Commit(w)
  PROVE  IInv'
  <1> DEFINE e == tx[w].event
  <1>1. TypeOK'
    BY WorkerType DEF IInv, WorkerStep
  <1>2. /\ e \in EventIds /\ tx[w].attempt \in 0..MaxAborts
        /\ outbox[e] = "pending"
        /\ outbox' = [outbox EXCEPT ![e] = "processed"]
        /\ \A f \in EventIds \ {e} : execution'[f] = execution[f]
        /\ \A s \in Subs : execution'[e][s] = tx[w].result[s]
        /\ \A s \in Subs, k \in Tickets :
              /\ mapping[s][k] # "none" =>
                    mapping'[s][k] # "none" /\ target'[s][k] = target[s][k]
              /\ target'[s][k] # target[s][k] =>
                    target'[s][k] = Key(w, s) /\ tx[w].result[s] = "filled"
        /\ \A s \in Subs :
              tx[w].result[s] = "filled" /\ Action(w) = "open" /\ Ticket(w) # NoTicket =>
                 /\ mapping'[s][Ticket(w)] # "none"
                 /\ target'[s][Ticket(w)] = Key(w, s)
        /\ \A v \in Workers \ {w} : tx'[v] = tx[v]
        /\ tx'[w] = Idle
        /\ UNCHANGED <<mode, activated, log, logged, brokerVars>>
    BY CommitEffect
  <1>3. UNCHANGED <<sent, applied>>
    BY <1>2 DEF brokerVars
  <1>4. outbox'[e] = "processed" /\ \A f \in EventIds \ {e} : outbox'[f] = outbox[f]
    BY <1>2 DEF IInv, TypeOK
  <1>5. Running(w) /\ ~Running(w)'
    BY <1>2 DEF Commit, Running, Idle
  <1>6. \A v \in Workers \ {w} : Running(v) => tx[v].event # e
    BY <1>5 DEF IInv, LocksExclusive
  <1>7. \A s \in Subs :
          /\ tx[w].result[s] \in {"filled", "unticketed"} => Key(w, s) \in applied
          /\ tx[w].result[s] = "unticketed" => Action(w) = "open"
    BY <1>5 DEF IInv, StagedSound
  <1>8. (RowsFollowLog /\ NoPartialResults)'
    BY <1>2, <1>4 DEF IInv, RowsFollowLog, NoPartialResults
  <1>9. LocksExclusive'
    BY <1>2, <1>4, <1>5, <1>6 DEF IInv, LocksExclusive, Running
  <1>10. StagedSound'
    <2>1. ASSUME NEW v \in Workers \ {w}, Running(v)', NEW s \in Subs
          PROVE  /\ s \in tx'[v].todo \cup tx'[v].calling => TraderOf(s) = log'[tx'[v].event].trader
                 /\ tx'[v].result[s] # "none" => TraderOf(s) = log'[tx'[v].event].trader
                 /\ tx'[v].result[s] \in {"filled", "unticketed"} => Key(v, s)' \in applied'
                 /\ tx'[v].result[s] = "unticketed" => Action(v)' = "open"
                 /\ tx'[v].result[s] \in Executed /\ Action(v)' # "open" => Mapped(v, s)'
                 /\ s \in tx'[v].calling /\ Action(v)' # "open" => Mapped(v, s)' /\ s \in tx'[v].found
      <3>1. Running(v) /\ tx'[v] = tx[v] /\ log' = log
        BY <1>2, <2>1 DEF Running
      <3>2. log[tx[v].event].ticket \in Tickets \cup {NoTicket}
        BY <3>1, CopyAssumption
        DEF IInv, LocksExclusive, RowsFollowLog, TypeOK, EventIds, TraderEvents
      <3>3. Mapped(v, s) => Mapped(v, s)'
        BY <1>2, <3>1, <3>2 DEF Mapped, Ticket
      <3>4. Action(v)' = Action(v) /\ Key(v, s)' = Key(v, s)
        BY <3>1 DEF Action, Key
      <3>5. QED
        BY <1>3, <3>1, <3>3, <3>4 DEF IInv, StagedSound
    <2>2. QED
      BY <1>5, <2>1 DEF StagedSound
  <1>11. (LiveWasActivated /\ OrdersNeedActivation)'
    BY <1>2, <1>3 DEF IInv, LiveWasActivated, OrdersNeedActivation, Idle
  <1>12. OrdersSound'
    BY <1>3, <1>4 DEF IInv, OrdersSound, TypeOK, OrderKeys
  <1>13. FilledIsMapped'
    <2>1. ASSUME NEW f \in EventIds, NEW s \in Subs, execution'[f][s] = "filled",
                 log[f].action = "open", log[f].ticket # NoTicket
          PROVE  mapping'[s][log[f].ticket] # "none"
      <3>1. CASE f = e
        BY <1>2, <2>1, <3>1 DEF Action, Ticket
      <3>2. CASE f # e
        <4>1. execution[f][s] = "filled" /\ mapping[s][log[f].ticket] # "none"
          BY <1>2, <2>1, <3>2 DEF IInv, FilledIsMapped
        <4>2. log[f].ticket \in Tickets
          BY <2>1, <4>1, FilledTicket
        <4>3. QED BY <1>2, <4>1, <4>2
      <3>3. QED BY <3>1, <3>2
    <2>2. QED BY <1>2, <2>1 DEF FilledIsMapped
  <1>14. LedgerMatchesBroker'
    <2>0. ExecutedIsBacked /\ TargetsAreExecuted
      BY DEF IInv, LedgerMatchesBroker
    <2>1. ASSUME NEW f \in EventIds, NEW s \in Subs
          PROVE  /\ execution'[f][s] \in {"filled", "unticketed"} =>
                       \E n \in 0..MaxAborts : <<f, s, n>> \in applied
                 /\ execution'[f][s] = "unticketed" => log[f].action = "open"
      <3>1. CASE f = e
        BY <1>2, <1>7, <3>1 DEF Action, Key
      <3>2. CASE f # e
        BY <1>2, <2>0, <3>2 DEF ExecutedIsBacked
      <3>3. QED BY <3>1, <3>2
    <2>2. ASSUME NEW f \in EventIds, NEW s \in Subs, execution'[f][s] = "filled",
                 log[f].action = "open", log[f].ticket # NoTicket
          PROVE  \E n \in 0..MaxAborts : target'[s][log[f].ticket] = <<f, s, n>>
      <3>1. CASE f = e
        BY <1>2, <2>2, <3>1 DEF Action, Ticket, Key
      <3>2. CASE f # e
        <4>1. execution[f][s] = "filled"
          BY <1>2, <2>2, <3>2
        <4>2. mapping[s][log[f].ticket] # "none"
          BY <2>2, <4>1 DEF IInv, FilledIsMapped
        <4>3. log[f].ticket \in Tickets
          BY <2>2, <4>1, FilledTicket
        <4>4. target'[s][log[f].ticket] = target[s][log[f].ticket]
          BY <1>2, <4>2, <4>3
        <4>5. \E n \in 0..MaxAborts : target[s][log[f].ticket] = <<f, s, n>>
          BY <2>0, <2>2, <4>1 DEF ExecutedIsBacked
        <4>6. QED BY <4>4, <4>5
      <3>3. QED BY <3>1, <3>2
    <2>3. ExecutedIsBacked'
      <3>1. log' = log /\ applied' = applied
        BY <1>2, <1>3
      <3>2. QED BY <2>1, <2>2, <3>1 DEF ExecutedIsBacked
    <2>4. ASSUME NEW s \in Subs, NEW k \in Tickets, target'[s][k] # Paper
          PROVE  /\ target'[s][k] \in applied /\ target'[s][k][2] = s
                 /\ execution'[target'[s][k][1]][s] = "filled"
      <3>1. CASE target'[s][k] # target[s][k]
        <4>1. target'[s][k] = Key(w, s) /\ tx[w].result[s] = "filled"
          BY <1>2, <3>1
        <4>2. Key(w, s) \in applied
          BY <1>7, <4>1
        <4>3. Key(w, s)[1] = e /\ Key(w, s)[2] = s
          BY DEF Key
        <4>4. execution'[e][s] = "filled"
          BY <1>2, <4>1
        <4>5. QED BY <4>1, <4>2, <4>3, <4>4
      <3>2. CASE target'[s][k] = target[s][k]
        <4> DEFINE key == target[s][k]
        <4>1. key \in applied /\ key[2] = s /\ execution[key[1]][s] = "filled"
          BY <2>0, <2>4, <3>2 DEF TargetsAreExecuted
        <4>2. key[1] \in EventIds
          BY <2>4, <3>2 DEF IInv, TypeOK, OrderKeys
        <4>3. key[1] # e
          BY <1>2, <4>1 DEF IInv, NoPartialResults
        <4>4. execution'[key[1]] = execution[key[1]]
          BY <1>2, <4>2, <4>3
        <4>5. QED BY <3>2, <4>1, <4>4
      <3>3. QED BY <3>1, <3>2
    <2>5. TargetsAreExecuted'
      BY <1>3, <2>4 DEF TargetsAreExecuted
    <2>6. QED BY <2>3, <2>5 DEF LedgerMatchesBroker
  <1>15. QED
    BY <1>1, <1>8, <1>9, <1>10, <1>11, <1>12, <1>13, <1>14 DEF IInv

-----------------------------------------------------------------------------
(* The theorems.                                                           *)

LEMMA StutterInv == IInv /\ UNCHANGED vars => IInv'
  <1> SUFFICES ASSUME IInv, UNCHANGED vars PROVE IInv'
    OBVIOUS
  <1> USE DEF IInv, vars, apiVars, ledgerVars, brokerVars
  <1>1. (TypeOK /\ RowsFollowLog /\ LocksExclusive /\ NoPartialResults)'
    BY DEF TypeOK, RowsFollowLog, LocksExclusive, NoPartialResults, Running
  <1>2. StagedSound'
    BY DEF StagedSound, Running, Key, Action, Mapped, Ticket
  <1>3. (LiveWasActivated /\ OrdersSound /\ OrdersNeedActivation /\ FilledIsMapped
         /\ LedgerMatchesBroker)'
    BY DEF LiveWasActivated, OrdersSound, OrdersNeedActivation, FilledIsMapped,
           LedgerMatchesBroker, ExecutedIsBacked, TargetsAreExecuted
  <1>4. QED BY <1>1, <1>2, <1>3

LEMMA NextInv == IInv /\ [Next]_vars => IInv'
  <1> SUFFICES ASSUME IInv, [Next]_vars PROVE IInv'
    OBVIOUS
  <1>1. CASE ProfileStep \/ SubscriptionStep \/ AccountStep
    BY <1>1, ApiInv
  <1>2. CASE IngestStep
    BY <1>2, IngestInv
  <1>3. ASSUME NEW w \in Workers, WorkerStep(w) \/ Abort(w)
        PROVE  IInv'
    BY <1>3, ClaimInv, SettleInv, CommitInv, RollbackInv DEF WorkerStep
  <1>4. CASE BrokerStep
    BY <1>4, BrokerInv
  <1>5. CASE UNCHANGED vars
    BY <1>5, StutterInv
  <1>6. QED
    BY <1>1, <1>2, <1>3, <1>4, <1>5 DEF Next

\* The inductive invariant holds in every reachable state, also when answers of
\* the runtime name no position and their opens stay without a mapping.
THEOREM InvariantHolds == Spec => []IInv
  BY InitInv, NextInv, PTL DEF Spec

\* Every variable keeps its type, for any number of traders, followers,
\* tickets, workers and rollbacks.
THEOREM TypeCorrect == Spec => []TypeOK
  <1>1. IInv => TypeOK
    BY DEF IInv
  <1>2. QED
    BY <1>1, InvariantHolds, PTL

\* The outcomes of an event appear together with its processed outbox row.
THEOREM ResultsAreAtomic == Spec => []NoPartialResults
  <1>1. IInv => NoPartialResults
    BY DEF IInv
  <1>2. QED
    BY <1>1, InvariantHolds, PTL

\* An execution recorded as executed in live mode was carried out by the broker.
\* An open whose answer named its position is mapped to it, and a mapping names
\* a broker position only where such an answer exists.
THEOREM LedgerIsTrue == Spec => []LedgerMatchesBroker
  <1>1. IInv => LedgerMatchesBroker
    BY DEF IInv
  <1>2. QED
    BY <1>1, InvariantHolds, PTL

\* No order leaves for a subscription that was never activated for live mode.
THEOREM LiveFailsClosed == Spec => []OrdersNeedActivation
  <1>1. IInv => OrdersNeedActivation
    BY DEF IInv
  <1>2. QED
    BY <1>1, InvariantHolds, PTL
=============================================================================
