----------------------------- MODULE CopyLedger -----------------------------
(***************************************************************************)
(* What the copy engine promises to a reader of its tables: trade events   *)
(* are published once, each is settled in one step with an outcome for     *)
(* every follower it concerns, and the book of copied tickets moves only   *)
(* as those outcomes say.                                                  *)
(***************************************************************************)
EXTENDS Integers

CONSTANTS Traders, Subs, Tickets, ExternalIds, NoTicket, MaxEvents

VARIABLES
    log,      \* event id -> published event
    logged,   \* number of events published
    outbox,   \* event id -> "absent", "pending" or "processed"
    outcome,  \* event id -> subscription -> outcome
    book      \* subscription -> source ticket -> "none", "open" or "closed"

ledger == <<log, logged, outbox, outcome, book>>

EventIds == 1..MaxEvents
Outcomes == {"none", "blocked", "failed", "paper", "filled", "unticketed"}
Ticketed == {"paper", "filled"}
Executed == Ticketed \cup {"unticketed"}

Init ==
    /\ logged = 0
    /\ log = [e \in 1..0 |-> e]
    /\ outbox = [e \in EventIds |-> "absent"]
    /\ outcome = [e \in EventIds |-> [s \in Subs |-> "none"]]
    /\ book = [s \in Subs |-> [k \in Tickets |-> "none"]]

\* A trader's event is published under an identifier it has not used before.
Publish(event) ==
    /\ logged < MaxEvents
    /\ \A e \in 1..logged : <<log[e].trader, log[e].external>> # <<event.trader, event.external>>
    /\ logged' = logged + 1
    /\ log' = [e \in 1..(logged + 1) |-> IF e = logged + 1 THEN event ELSE log[e]]
    /\ outbox' = [outbox EXCEPT ![logged + 1] = "pending"]
    /\ UNCHANGED <<outcome, book>>

\* An executed open books a ticket that was never booked for the follower, or
\* nothing when the answer named no ticket; anything else is executed only on
\* a ticket that was booked.
Lawful(e, s, result) ==
    LET k == log[e].ticket IN
    /\ result # "none" => s[1] = log[e].trader
    /\ result \in Executed =>
          IF log[e].action = "open"
          THEN k # NoTicket /\ result \in Ticketed => book[s][k] = "none"
          ELSE k # NoTicket /\ result \in Ticketed /\ book[s][k] # "none"

Booked(e, s, k, result) ==
    IF k # log[e].ticket \/ result \notin Ticketed THEN book[s][k]
    ELSE CASE log[e].action = "open"  -> "open"
           [] log[e].action = "close" -> "closed"
           [] OTHER                   -> book[s][k]

Settle(e) ==
    /\ outbox[e] = "pending"
    /\ outbox' = [outbox EXCEPT ![e] = "processed"]
    /\ \E result \in [Subs -> Outcomes] :
        /\ \A s \in Subs : Lawful(e, s, result[s])
        /\ outcome' = [outcome EXCEPT ![e] = result]
        /\ book' = [s \in Subs |-> [k \in Tickets |-> Booked(e, s, k, result[s])]]
    /\ UNCHANGED <<log, logged>>

Events == [trader   : Traders,
           external : ExternalIds,
           action   : {"open", "modify", "close"},
           ticket   : Tickets \cup {NoTicket}]

Next ==
    \/ \E event \in Events : Publish(event)
    \/ \E e \in EventIds : Settle(e)

Spec == Init /\ [][Next]_ledger
=============================================================================
