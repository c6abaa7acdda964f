------------------------------ MODULE OrderDesk ------------------------------
(***************************************************************************)
(* The order methods of an account's MT5 executor, as the trading routes   *)
(* call them: one request after the other, on the event loop, while the    *)
(* market moves and the broker fills orders and closes positions.  Each    *)
(* method reads the terminal, then sends one request; when the answer is   *)
(* lost, with_reconnect runs the whole method once more.                   *)
(*                                                                         *)
(* Levels and volumes are small integers (points and volume steps).  How   *)
(* the connection itself is kept is the subject of TerminalSession.        *)
(***************************************************************************)
EXTENDS TradeHistory

CONSTANTS
    Tickets,      \* tickets the broker gives to orders
    Bids,         \* prices the market moves between
    Levels,       \* entries, stops and targets asked for
    Spread,       \* ask - bid
    VolumeMin,    \* volume_min of the symbol
    VolumeMax,    \* volume_max of the symbol
    Volumes,      \* volumes asked for
    Percentages,  \* percentages asked of partial_close
    None,         \* no order, position or request
    MaxDeals,     \* bound: deals
    MaxMoves      \* bound: market moves and faults

ASSUME DeskAssumption ==
    /\ Bids \subseteq Nat \ {0} /\ Levels \subseteq Nat \ {0}
    /\ Spread \in Nat
    /\ VolumeMin \in Nat \ {0} /\ VolumeMax \in Nat /\ VolumeMin <= VolumeMax
    /\ Volumes \subseteq Nat /\ Percentages \subseteq Int
    /\ MaxDeals \in Nat /\ MaxMoves \in Nat

Position == [buy : BOOLEAN, volume : Nat, price : Int \X Int, since : Nat, sl : Int, tp : Int]

Order == [kind : {"limit", "stop"}, buy : BOOLEAN, price : Nat, volume : Nat, sl : Int, tp : Int]

ASSUME NoneAssumption == None \notin Position \union Order

VARIABLES
    bid,        \* the market (external)
    orders,     \* pending orders at the broker (external)
    positions,  \* open positions at the broker (external)
    deals,      \* deals in the terminal's history (external)
    job,        \* the request under way: arguments, phase, attempt, order request
    moves       \* market moves and faults so far

broker == <<orders, positions, deals>>
vars   == <<bid, orders, positions, deals, job, moves>>

(***************************************************************************)
(* execute_signal.  0 stands for a price that was not given.               *)
(***************************************************************************)
Kinds   == {"market", "limit", "stop"}
Ask     == bid + Spread
Dealing(buy) == IF buy THEN Ask ELSE bid      \* price it opens at
Closing(buy) == IF buy THEN bid ELSE Ask      \* and closes at

Beyond(buy, p, q) == IF buy THEN p > q ELSE p < q   \* p is in profit of q

\* Mutant: the fallback lies on the side of the stop.
StopAsTarget(s, price) == s.sl

(* All take profits are breached: 1:1 of the distance to the stop. *)
Fallback(s, price) ==
    LET distance == IF s.sl > price THEN s.sl - price ELSE price - s.sl
    IN  IF s.buy THEN price + distance ELSE price - distance

(* find_valid_tp: the first that is not breached. *)
FindValidTp(s, price) ==
    LET valid == {i \in DOMAIN s.tps : Beyond(s.buy, s.tps[i], price)}
    IN  CASE s.tps = <<>>   -> 0
          [] valid # {}     -> s.tps[Min(valid)]
          [] OTHER          -> Fallback(s, price)

(* validate_sl_tp: what is on the wrong side of the price is left out. *)
ValidTp(s, price) == LET tp == FindValidTp(s, price) IN IF Beyond(s.buy, tp, price) THEN tp ELSE 0
ValidSl(s, price) == IF Beyond(s.buy, price, s.sl) THEN s.sl ELSE 0

Clamp(v) == Max({VolumeMin, Min({v, VolumeMax})})

(* _build_order_request *)
OrderRequest(s) ==
    LET price == Dealing(s.buy)
    IN  [kind |-> s.kind, buy |-> s.buy, volume |-> Clamp(s.volume),
         price |-> IF s.kind = "market" THEN price ELSE s.entry,
         sl |-> ValidSl(s, price), tp |-> ValidTp(s, price)]

(***************************************************************************)
(* Requests: what the routes and the callers of the executor ask for.      *)
(***************************************************************************)
Signals ==
    LET Targets == {<<>>} \cup {<<p>> : p \in Levels}
    IN  [kind : {"market"}, entry : {0}, buy : BOOLEAN, volume : Volumes,
         sl : Levels \cup {0}, tps : Targets]
        \cup [kind : {"limit", "stop"}, entry : Levels, buy : BOOLEAN, volume : Volumes,
              sl : Levels \cup {0}, tps : Targets]

Asks ==
    [op : {"place"}, signal : Signals]
    \cup [op : {"modify"}, ticket : Tickets, sl : Levels \cup {0, None}, tp : Levels \cup {0, None}]
    \cup [op : {"close", "cancel"}, ticket : Tickets]
    \cup [op : {"reduce"}, ticket : Tickets, percentage : Percentages]

Submit(ask) ==
    /\ job = None
    /\ job' = [ask |-> ask, phase |-> "read", last |-> FALSE, request |-> None,
                ticket |-> None]
    /\ UNCHANGED <<bid, broker, moves>>

At(phase, op) == job # None /\ job.phase = phase /\ job.ask.op = op
Finish        == job' = None
Request(r)    == job' = [job EXCEPT !.phase = "send", !.request = r]
OnlyJob       == UNCHANGED <<bid, broker, moves>>

(* execute_signal refuses a signal without a stop. *)
ReadMarket ==
    /\ At("read", "place")
    /\ IF job.ask.signal.sl = 0 THEN Finish ELSE Request(OrderRequest(job.ask.signal))
    /\ OnlyJob

\* Mutant: a side that is not given is cleared.
Cleared(given, current) == IF given = None THEN 0 ELSE given

(* modify_position: a side that is not given stays as it was read. *)
Side(given, current) == IF given = None THEN current ELSE given

Modification(p, sl, tp) == [sl |-> Side(sl, p.sl), tp |-> Side(tp, p.tp)]

(* round(volume * percentage / 100): to the even one when halfway. *)
Share(volume, percentage) ==
    LET whole == (volume * percentage) \div 100
        rest  == (volume * percentage) % 100
    IN  IF rest > 50 \/ (rest = 50 /\ whole % 2 = 1) THEN whole + 1 ELSE whole

\* Mutant: what remains is not compared with the minimum.
SkippedOnlyWhole(current, volume) == volume >= current

(* partial_close does nothing when it would close the position or leave    *)
(* less than the minimum.                                                  *)
Skipped(current, volume) == volume >= current \/ current - volume < VolumeMin

PartialVolume(current, percentage) == Min({Max({Share(current, percentage), VolumeMin}), current})

(* Without the symbol's limits the share is sent as it is: 0 stands for    *)
(* one that is no whole number of steps, which the broker refuses.         *)
Exact(volume, percentage) ==
    IF (volume * percentage) % 100 = 0 THEN (volume * percentage) \div 100 ELSE 0

(* get_position, and what the method makes of it. *)
ReadPosition ==
    /\ \E op \in {"modify", "close"} : At("read", op)
    /\ LET ask == job.ask
           p   == positions[ask.ticket]
       IN  CASE p = None           -> Finish
             [] p # None /\ ask.op = "modify" -> Request(Modification(p, ask.sl, ask.tp))
             [] p # None /\ ask.op = "close"  -> Request([volume |-> p.volume])
    /\ OnlyJob

(* The same in partial_close.  symbol_info may have no answer: then the    *)
(* share is neither rounded nor compared with the minimum.                 *)
ReadShare ==
    /\ At("read", "reduce")
    /\ LET percentage == job.ask.percentage
           p          == positions[job.ask.ticket]
           volume     == PartialVolume(p.volume, percentage)
       IN  IF p = None \/ percentage <= 0 \/ percentage >= 100 THEN Finish
           ELSE \/ IF Skipped(p.volume, volume) THEN Finish
                   ELSE Request([volume |-> volume, informed |-> TRUE])
                \/ Request([volume |-> Exact(p.volume, percentage), informed |-> FALSE])
    /\ OnlyJob

(* get_pending_order *)
ReadOrder ==
    /\ At("read", "cancel")
    /\ IF orders[job.ask.ticket] = None THEN Finish ELSE Request([remove |-> TRUE])
    /\ OnlyJob

(***************************************************************************)
(* The broker (external): it carries out a request or refuses it, fills    *)
(* pending orders in one or several parts and closes positions whose stop  *)
(* or target the market reached.                                           *)
(***************************************************************************)
Used(t)    == orders[t] # None \/ positions[t] # None \/ OfPosition(deals, t) # {}
NextTicket == CHOOSE t \in Tickets : ~Used(t)
Now        == Cardinality(deals) + 1

Deal(t, entry, buy, volume, price) ==
    [position |-> t, entry |-> entry, buy |-> buy, volume |-> volume, price |-> price,
     time |-> Now,
     of |-> IF entry THEN None
            ELSE [buy |-> positions[t].buy, price |-> positions[t].price, since |-> positions[t].since]]

Enter(t, buy, volume, price, sl, tp) ==
    LET old == positions[t]
    IN  /\ Now <= MaxDeals
        /\ deals' = deals \cup {Deal(t, TRUE, buy, volume, price)}
        /\ positions' = [positions EXCEPT ![t] =
               IF old = None
               THEN [buy |-> buy, volume |-> volume, price |-> <<price, 1>>, since |-> Now,
                     sl |-> sl, tp |-> tp]
               ELSE LET total == old.volume + volume
                    IN  [old EXCEPT !.volume = total,
                                    !.price = <<old.volume * @[1] + volume * price * @[2],
                                                total * @[2]>>]]

Leave(t, volume) ==
    LET p == positions[t]
    IN  /\ Now <= MaxDeals
        /\ deals' = deals \cup {Deal(t, FALSE, ~p.buy, volume, Closing(p.buy))}
        /\ positions' = [positions EXCEPT ![t] =
               IF volume = p.volume THEN None ELSE [p EXCEPT !.volume = @ - volume]]

(* Stops on the wrong side of the price are refused; a level of 0 is none. *)
Protects(buy, price, sl, tp) ==
    /\ sl # 0 => Beyond(buy, price, sl)
    /\ tp # 0 => Beyond(buy, tp, price)

Triggered(o) ==
    IF o.kind = "limit" THEN ~Beyond(o.buy, Dealing(o.buy), o.price)
                        ELSE ~Beyond(o.buy, o.price, Dealing(o.buy))

(* An order is opened under the next ticket; some brokers fail to set its  *)
(* stop or target.                                                         *)
Open(r) ==
    /\ \E t \in Tickets : ~Used(t)
    /\ Protects(r.buy, IF r.kind = "market" THEN Dealing(r.buy) ELSE r.price, r.sl, r.tp)
    /\ \E sl \in {0, r.sl}, tp \in {0, r.tp} :
        IF r.kind = "market"
        THEN Enter(NextTicket, r.buy, r.volume, Dealing(r.buy), sl, tp) /\ UNCHANGED orders
        ELSE /\ ~Triggered(r)
             /\ orders' = [orders EXCEPT ![NextTicket] =
                    [kind |-> r.kind, buy |-> r.buy, price |-> r.price,
                     volume |-> r.volume, sl |-> sl, tp |-> tp]]
             /\ UNCHANGED <<positions, deals>>

Carry(ask, r) ==
    LET t == ask.ticket
        p == positions[t]
    IN  CASE ask.op = "modify" ->
               /\ p # None /\ Protects(p.buy, Closing(p.buy), r.sl, r.tp)
               /\ positions' = [positions EXCEPT ![t].sl = r.sl, ![t].tp = r.tp]
               /\ UNCHANGED <<orders, deals>>
          [] ask.op \in {"close", "reduce"} ->
               p # None /\ r.volume \in 1..p.volume /\ Leave(t, r.volume) /\ UNCHANGED orders
          [] ask.op = "cancel" ->
               /\ orders[t] # None
               /\ orders' = [orders EXCEPT ![t] = None]
               /\ UNCHANGED <<positions, deals>>

Effect == IF job.ask.op = "place" THEN Open(job.request) ELSE Carry(job.ask, job.request)

(***************************************************************************)
(* order_send                                                              *)
(***************************************************************************)
Sending == job # None /\ job.phase = "send"

(* TRADE_RETCODE_DONE.  A placed order is verified. *)
Sent ==
    /\ Sending
    /\ Effect
    /\ IF job.ask.op = "place" THEN job' = [job EXCEPT !.phase = "verify", !.ticket = NextTicket] ELSE Finish
    /\ UNCHANGED <<bid, moves>>

(* Another retcode, no answer, or no connection to send it on. *)
Refused == Sending /\ Finish /\ OnlyJob

(* with_reconnect runs the method once more; a second exception reaches    *)
(* the route.                                                              *)
Again ==
    /\ moves < MaxMoves /\ moves' = moves + 1
    /\ IF job.last THEN Finish
       ELSE job' = [job EXCEPT !.phase = "read", !.last = TRUE, !.request = None]
    /\ UNCHANGED bid

(* The call, or the reading of its result, raises: carried out or not.     *)
AnswerLost == Sending /\ (Effect \/ UNCHANGED broker) /\ Again

(* The end of execute_signal: a side of the new position that is not the   *)
(* requested one is sent again, with success or without; a pending order   *)
(* is no position and is not verified.                                     *)
Mismatched(wanted, actual) == IF wanted # 0 /\ wanted # actual THEN wanted ELSE None

Repair ==
    LET t == job.ticket
        p == positions[t]
        r == job.request
        sl == Mismatched(r.sl, p.sl)
        tp == Mismatched(r.tp, p.tp)
    IN  \/ UNCHANGED broker
        \/ /\ p # None /\ (sl # None \/ tp # None)
           /\ Carry([op |-> "modify", ticket |-> t], Modification(p, sl, tp))

Verify == At("verify", "place") /\ Repair /\ Finish /\ UNCHANGED <<bid, moves>>

(* A call of the verification raises, or the price of the result, which is *)
(* read last: the order is placed once more.                               *)
VerifyLost == At("verify", "place") /\ Repair /\ Again

(***************************************************************************)
(* The market and the broker's own doings (external).                      *)
(***************************************************************************)
Move ==
    /\ moves < MaxMoves /\ moves' = moves + 1
    /\ bid' \in {p \in Bids : p # bid}
    /\ UNCHANGED <<broker, job>>

Fill(t) ==
    LET o == orders[t]
    IN  /\ o # None /\ Triggered(o)
        /\ positions[t] # None \/ OfPosition(deals, t) = {}
        /\ \E v \in VolumeMin..o.volume :
            /\ v = o.volume \/ o.volume - v >= VolumeMin
            /\ Enter(t, o.buy, v, Dealing(o.buy), o.sl, o.tp)
            /\ orders' = [orders EXCEPT ![t] =
                   IF v = o.volume THEN None ELSE [o EXCEPT !.volume = @ - v]]
        /\ UNCHANGED <<bid, job, moves>>

Hit(t) ==
    LET p     == positions[t]
        price == Closing(p.buy)
    IN  /\ p # None
        /\ \/ p.sl # 0 /\ ~Beyond(p.buy, price, p.sl)
           \/ p.tp # 0 /\ ~Beyond(p.buy, p.tp, price)
        /\ Leave(t, p.volume)
        /\ UNCHANGED <<bid, orders, job, moves>>

Init ==
    /\ bid \in Bids
    /\ orders = [t \in Tickets |-> None]
    /\ positions = [t \in Tickets |-> None]
    /\ deals = {}
    /\ job = None
    /\ moves = 0

Asked == \E ask \in Asks : Submit(ask)
Method  ==
    \/ ReadMarket \/ ReadPosition \/ ReadShare \/ ReadOrder
    \/ Sent \/ Refused \/ AnswerLost \/ Verify \/ VerifyLost
Outside == Move \/ \E t \in Tickets : Fill(t) \/ Hit(t)

Next == Asked \/ Method \/ Outside

Spec == Init /\ [][Next]_vars

(***************************************************************************)
(* Properties                                                              *)
(***************************************************************************)
(* A partial close, repeated after a lost answer or not, never closes the  *)
(* position, and leaves at least the minimum volume when it could read the *)
(* symbol's limits (the safety guards of partial_close).                   *)
PartialCloseLeavesRest ==
    [][job # None /\ job.ask.op = "reduce" /\ job' # job =>
           \A t \in Tickets : positions[t] # None /\ positions'[t] # positions[t] =>
               /\ positions'[t] # None
               /\ job.request.informed => positions'[t].volume >= VolumeMin]_vars

Modifies == job # None /\ job.ask.op = "modify"

(* A position that has a stop, or a target, keeps one as long as it is     *)
(* open, unless a modification asks for 0: not when the other side is      *)
(* modified or repaired, nor when it is closed or filled in parts.         *)
ProtectionKept ==
    [][\A t \in Tickets : positions[t] # None /\ positions'[t] # None =>
           /\ positions[t].sl # 0 /\ positions'[t].sl = 0 => Modifies /\ job.ask.sl = 0
           /\ positions[t].tp # 0 /\ positions'[t].tp = 0 => Modifies /\ job.ask.tp = 0]_vars

(* What find_valid_tp chooses survives validate_sl_tp: an order that asks  *)
(* for a target and keeps its stop gets a target, on the profit side of    *)
(* the price it was judged against.                                        *)
TargetBeyondPrice ==
    job # None /\ job.phase = "send" /\ job.ask.op = "place" =>
        LET r == job.request
        IN  /\ job.ask.signal.tps # <<>> /\ r.sl # 0 => r.tp # 0
            /\ r.kind = "market" /\ r.tp # 0 => Beyond(r.buy, r.tp, r.price)

Truth(t) ==
    LET d == CHOOSE d \in deals : d.time = t.time
    IN  t.since = d.of.since /\ t.buy = d.of.buy /\ SamePrice(t.price, d.of.price)

Whole(p, from) == \A d, e \in OfPosition(deals, p) : d.entry /\ e.entry => (d.time >= from <=> e.time >= from)

(* Whatever the reporting window, every exit in it is reported, with the   *)
(* direction, opening time and average price of the position it closed.    *)
(* The entries of a position lie on one side of the window's start.        *)
HistoryAgrees ==
    \A from \in 1..Cardinality(deals) :
        LET history == HistoryDeals(deals, from)
        IN  /\ {t.time : t \in history} = {d.time : d \in {d \in deals : ~d.entry /\ d.time >= from}}
            /\ \A d \in deals : Whole(d.position, from) =>
                   \A t \in history : t.time = d.time => Truth(t)

(* The same without the condition on the entries: "maintains the volume-   *)
(* weighted entry price across multiple fills and partial closes"          *)
(* (_pair_closed_deals).                                                   *)
EveryWindowAgrees ==
    \A from \in 1..Cardinality(deals) : \A t \in HistoryDeals(deals, from) : Truth(t)
=============================================================================
