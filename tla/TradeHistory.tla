---------------------------- MODULE TradeHistory ----------------------------
(***************************************************************************)
(* The trade history the executor reports: MT5 keeps opening and closing   *)
(* fills as separate deals, get_history_deals pairs each exit of a         *)
(* reporting window with the entries of its position.                      *)
(*                                                                         *)
(* Deals are numbered in the order of their timestamps and tickets, the    *)
(* order _pair_closed_deals sorts them in.  A price is a fraction, since   *)
(* the entry price is an average.                                          *)
(*                                                                         *)
(* Left out: deals that reverse a position or close it by another one (the *)
(* code skips them), exits that name no position, and a position whose     *)
(* deals cannot be fetched: its exits are reported without their entries.  *)
(***************************************************************************)
EXTENDS Integers, Sequences, FiniteSets, FiniteSetsExt

SamePrice(p, q) == p[1] * q[2] = q[1] * p[2]

Flat == [volume |-> 0, price |-> <<0, 1>>, since |-> 0, buy |-> FALSE]

(* The entry price after one more fill, weighted by volume. *)
Weighted(state, deal) ==
    <<state.price[1] * state.volume + deal.price * deal.volume * state.price[2],
      state.price[2] * (state.volume + deal.volume)>>

Entered(state, deal) ==
    [volume |-> state.volume + deal.volume,
     price  |-> Weighted(state, deal),
     since  |-> IF state.since = 0 THEN deal.time ELSE state.since,
     buy    |-> deal.buy]

Exited(state, deal) ==
    LET left == Max({0, state.volume - deal.volume})
    IN  IF left = 0 THEN Flat ELSE [state EXCEPT !.volume = left]

(* One exit with the opening state of its position.  An exit whose entry   *)
(* is unknown has no price and the direction opposite to its own.          *)
Trade(state, deal) ==
    [time  |-> deal.time,
     since |-> IF state.since = 0 THEN deal.time ELSE state.since,
     buy   |-> IF state.since = 0 THEN ~deal.buy ELSE state.buy,
     price |-> IF state.volume = 0 THEN <<0, 1>> ELSE state.price]

Stepped(state, deal) == IF deal.entry THEN Entered(state, deal) ELSE Exited(state, deal)

OfPosition(deals, p) == {d \in deals : d.position = p}

(* _pair_closed_deals keeps one state for each position; this is the state  *)
(* at each time, "own" being the deals of the position.                    *)
States(own) ==
    LET state[n \in Nat] ==
            IF n = 0 THEN Flat
            ELSE LET now == {d \in own : d.time = n}
                 IN  IF now = {} THEN state[n - 1]
                     ELSE Stepped(state[n - 1], CHOOSE d \in now : TRUE)
    IN  state

StateBefore(deals, deal) == States(OfPosition(deals, deal.position))[deal.time - 1]

PairClosedDeals(deals) ==
    {Trade(StateBefore(deals, d), d) : d \in {d \in deals : ~d.entry}}

ExitsOf(deals, p)    == {d \in deals : d.position = p /\ ~d.entry}

\* Mutant: only the deals of the window.
NeverMissing(window, p) == FALSE

(* No entry of the position precedes its first exit in the window. *)
EntryMissing(window, p) ==
    /\ ExitsOf(window, p) # {}
    /\ \A d \in OfPosition(window, p) :
           d.entry => \E x \in ExitsOf(window, p) : x.time < d.time

(* get_history_deals: the deals of the window, completed by the whole      *)
(* history of the positions whose entry is missing.                        *)
HistoryDeals(deals, from) ==
    LET window   == {d \in deals : d.time >= from}
        fetched  == {d \in deals : EntryMissing(window, d.position)}
    IN  {t \in PairClosedDeals(window \cup fetched) : t.time >= from}
=============================================================================
