--------------------------- MODULE CopyEngineInv ---------------------------
(***************************************************************************)
(* The inductive invariant of CopyEngine: what holds between the rows of   *)
(* the ledger, the open transactions and the orders on their way.          *)
(***************************************************************************)
EXTENDS CopyEngine

\* Exactly the accepted events have an outbox row.
RowsFollowLog == \A e \in EventIds : outbox[e] # "absent" <=> e <= logged

\* An open transaction holds the lock of a pending row that nobody else holds.
LocksExclusive ==
    \A w \in Workers : Running(w) =>
        /\ tx[w].event \in EventIds
        /\ outbox[tx[w].event] = "pending"
        /\ \A v \in Workers : Running(v) /\ tx[v].event = tx[w].event => v = w

\* What a transaction staged for its followers: nothing outside the trader's
\* audience, nothing filled without the broker, no ticket it did not find.
StagedSound ==
    \A w \in Workers : Running(w) =>
        \A s \in Subs :
            /\ s \in tx[w].todo \cup tx[w].calling => TraderOf(s) = log[tx[w].event].trader
            /\ tx[w].result[s] # "none" => TraderOf(s) = log[tx[w].event].trader
            /\ tx[w].result[s] \in {"filled", "unticketed"} => Key(w, s) \in applied
            /\ tx[w].result[s] = "unticketed" => Action(w) = "open"
            /\ tx[w].result[s] \in Executed /\ Action(w) # "open" => Mapped(w, s)
            /\ s \in tx[w].calling /\ Action(w) # "open" => Mapped(w, s) /\ s \in tx[w].found

\* Live mode, in a row or in a transaction's snapshot, was activated once.
LiveWasActivated ==
    /\ \A s \in Subs : mode[s] = "live" => s \in activated
    /\ \A w \in Workers : tx[w].live \subseteq activated

\* Orders belong to accepted events and only sent ones are carried out.
OrdersSound ==
    /\ applied \subseteq sent
    /\ \A key \in sent : outbox[key[1]] # "absent"

\* A filled open with a source ticket has its mapping.
FilledIsMapped ==
    \A e \in EventIds, s \in Subs :
        execution[e][s] = "filled" /\ log[e].action = "open" /\ log[e].ticket # NoTicket =>
           mapping[s][log[e].ticket] # "none"

\* All of it: an invariant on its own, from which the safety properties follow.
IInv ==
    /\ TypeOK
    /\ RowsFollowLog
    /\ LocksExclusive
    /\ NoPartialResults
    /\ StagedSound
    /\ LiveWasActivated
    /\ OrdersSound
    /\ OrdersNeedActivation
    /\ FilledIsMapped
    /\ LedgerMatchesBroker

-----------------------------------------------------------------------------
(* What the promises about events and orders need besides IInv.            *)

\* A trader's identifier names one event.
EventsAreDistinct ==
    \A e, f \in 1..logged :
        log[e].trader = log[f].trader /\ log[e].external = log[f].external => e = f

\* No attempt is numbered beyond the rollbacks counted, and an order is for a
\* follower of the trader whose event it repeats.
AttemptsCounted ==
    /\ \A w \in Workers : tx[w].attempt <= aborts
    /\ \A key \in sent : key[3] <= aborts /\ TraderOf(key[2]) = EventOf(key).trader

\* Whoever was active at the claim still waits for its turn or has an outcome.
FollowersInHand ==
    \A w \in Workers : Running(w) =>
        \A s \in Subs :
            TraderOf(s) = log[tx[w].event].trader /\ tx[w].seen[s] = "active" =>
               s \in tx[w].todo \/ tx[w].result[s] # "none"

DeliveryInv ==
    /\ EventsAreDistinct
    /\ AttemptsCounted
    /\ FollowersInHand
    /\ TicketsHaveEvents

-----------------------------------------------------------------------------
(* What one worker on its own keeps.                                       *)

\* The deployment of one API process.
OneWorker == \A v, w \in Workers : v = w

\* The row it works on is the oldest that is not processed.
OldestInHand ==
    \A w \in Workers : Running(w) =>
        \A e \in 1..logged : e < tx[w].event => outbox[e] = "processed"

\* A ticket it has staged, or waits for, fits the limit of the account.
StagedFits ==
    \A w \in Workers, s \in Subs :
        Running(w) /\ (s \in tx[w].calling \/ tx[w].result[s] \in Executed)
                   /\ Action(w) = "open" =>
           ~LimitReached(s)

\* A subscription it is about to stop has closed its last ticket.
StopsAreFlat ==
    \A w \in Workers : Running(w) =>
        \A s \in tx[w].stops :
            /\ Action(w) = "close" /\ tx[w].result[s] \in Executed /\ Flat(w, s)
            /\ s \notin tx[w].todo \cup tx[w].calling

TicketsFinite == \A a \in Accounts : IsFiniteSet(OpenTickets(a))

OneWorkerInv ==
    /\ OldestInHand
    /\ SettledInOrder
    /\ StopsAreFlat
    /\ StagedFits
    /\ TicketsFinite
    /\ TicketLimit
=============================================================================
