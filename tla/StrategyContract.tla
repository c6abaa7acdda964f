-------------------------- MODULE StrategyContract --------------------------
(***************************************************************************)
(* The rules of the strategy SDK: what a pending order, a managed exit plan *)
(* and an intent must satisfy on their own (orders.py, intents.py).  Prices *)
(* are integers, an absent field is None, and a managed exit plan is        *)
(*                                                                         *)
(*   [bracket  : None or [sl, tp],        trail : None or                   *)
(*    even     : None or [trigger, offset],  [distance, activation, step],  *)
(*    partials : a set of [trigger, percent]]                               *)
(*                                                                         *)
(* OcoLeg.bracket is the plan that has only that bracket.                   *)
(***************************************************************************)
EXTENDS Integers, FiniteSets, FiniteSetsExt

CONSTANT None    \* an optional field that is not set

MarketTypes    == {"BUY", "SELL"}
StopLimitTypes == {"BUY_STOP_LIMIT", "SELL_STOP_LIMIT"}
BocTypes       == {"BUY_LIMIT", "SELL_LIMIT"} \union StopLimitTypes
PendingTypes   == BocTypes \union {"BUY_STOP", "SELL_STOP"}
BuyTypes       == {"BUY", "BUY_LIMIT", "BUY_STOP", "BUY_STOP_LIMIT"}
OrderTypeEnum  == MarketTypes \union PendingTypes \union {"CLOSE_BY"}
FillingEnum    == {"FOK", "IOC", "RETURN", "BOC"}
ExpiringTimes  == {"SPECIFIED", "SPECIFIED_DAY"}
TimeEnum       == {"GTC", "DAY"} \union ExpiringTimes

IsBuy(type) == type \in BuyTypes

(* time SPECIFIED or SPECIFIED_DAY exactly when expires_at is set. *)
ExpirationOK(o) == (o.time \in ExpiringTimes) <=> o.expires

PendingFillingOK(type, filling) ==
    /\ filling \notin {"FOK", "IOC"}
    /\ filling = "BOC" => type \in BocTypes

(* A stop-limit order has its limit on the better side of its trigger. *)
StopLimitOK(o) ==
    IF o.type \in StopLimitTypes
    THEN /\ o.limit # None
         /\ IF IsBuy(o.type) THEN o.limit < o.entry ELSE o.limit > o.entry
    ELSE o.limit = None

(* The price a pending order is eventually filled at. *)
Basis(o) == IF o.type \in StopLimitTypes THEN o.limit ELSE o.entry

(* Stop loss on the losing side of the basis, take profit on the winning. *)
StopOK(buy, basis, sl) ==
    sl # None => IF buy THEN sl < basis ELSE sl > basis
ProfitOK(buy, basis, tp) ==
    tp # None => IF buy THEN tp > basis ELSE tp < basis
DirectionalOK(buy, basis, sl, tp) ==
    StopOK(buy, basis, sl) /\ ProfitOK(buy, basis, tp)

Bracket(x) == IF x = None THEN None ELSE x.bracket

(* The stop and the target that protect an entry: the bracket's when there *)
(* is one, the native ones otherwise.                                      *)
StopOf(o, x)   == IF Bracket(x) = None THEN o.sl ELSE x.bracket.sl
ProfitOf(o, x) == IF Bracket(x) = None THEN o.tp ELSE x.bracket.tp

(* Native stop and target never stand beside a managed bracket. *)
NotDuplicated(o, x) == Bracket(x) # None => o.sl = None /\ o.tp = None

(* One fully materialised pending order with the stop and target given. *)
PendingOK(o, sl, tp, requireStop) ==
    /\ o.type \in PendingTypes
    /\ StopLimitOK(o)
    /\ PendingFillingOK(o.type, o.filling)
    /\ ExpirationOK(o)
    /\ requireStop => sl # None
    /\ DirectionalOK(IsBuy(o.type), Basis(o), sl, tp)

(* A managed exit plan: at least one action, partials with different       *)
(* triggers that close at most the whole position, a trailing step within  *)
(* the trailing distance.                                                  *)
ExitOK(x) ==
    /\ x.bracket # None \/ x.trail # None \/ x.even # None \/ x.partials # {}
    /\ MapThenSumSet(LAMBDA part : part.percent, x.partials) <= 100
    /\ \A a, b \in x.partials : a.trigger = b.trigger => a = b
    /\ x.trail # None /\ x.trail.step # None => x.trail.step <= x.trail.distance

OptionalExitOK(x) == x # None => ExitOK(x)

(* Every trigger that waits for profit lies beyond the basis, and no       *)
(* managed action derives a stop that is not a price.  "trailing" is the   *)
(* price an immediate trailing stop starts from.                           *)
ExitDirectionOK(buy, basis, x, trailing) ==
    LET Beyond(t)    == IF buy THEN t > basis ELSE t < basis
        stop         == basis + x.even.offset
        reference    == IF x.trail.activation # None THEN x.trail.activation ELSE trailing
    IN  /\ x.even # None =>
              /\ stop > 0
              /\ IF buy THEN stop < x.even.trigger ELSE stop > x.even.trigger
              /\ Beyond(x.even.trigger)
        /\ x.trail # None =>
              /\ buy => reference - x.trail.distance > 0
              /\ x.trail.activation # None => Beyond(x.trail.activation)
        /\ \A part \in x.partials : Beyond(part.trigger)

-----------------------------------------------------------------------------
(* intents.py: what the fields of one intent must satisfy by themselves.   *)

WellFormedSignal(i) == DirectionalOK(i.buy, i.reference, i.sl, i.tp)

WellFormedPlace(i) ==
    /\ OptionalExitOK(i.exit)
    /\ i.type \in MarketTypes \union PendingTypes
    /\ NotDuplicated(i, i.exit)
    /\ StopOf(i, i.exit) # None
    /\ IF i.type \in MarketTypes
       THEN /\ i.entry = None /\ i.limit = None
            /\ i.time = "GTC" /\ ~i.expires
            /\ i.filling # "BOC"
       ELSE /\ i.entry # None
            /\ PendingOK(i, StopOf(i, i.exit), ProfitOf(i, i.exit), TRUE)

(* OcoLeg and OcoGroup: at least two pending legs, each with its own stop. *)
WellFormedGroup(legs) ==
    /\ Cardinality(DOMAIN legs) >= 2
    /\ \A l \in DOMAIN legs :
          LET leg == legs[l] IN
          /\ OptionalExitOK(leg.exit)
          /\ NotDuplicated(leg, leg.exit)
          /\ PendingOK(leg, StopOf(leg, leg.exit), ProfitOf(leg, leg.exit), TRUE)

(* "expires" is TRUE when the intent carries a new expires_at. *)
WellFormedModify(i) ==
    /\ \/ \E f \in {i.entry, i.limit, i.sl, i.tp, i.time} : f # None
       \/ i.expires \/ i.clearProfit \/ i.clearExpiration
    /\ ~(i.tp # None /\ i.clearProfit)
    /\ ~(i.expires /\ i.clearExpiration)
    /\ i.time # None =>
          /\ (i.time \in ExpiringTimes) <=> i.expires
          /\ ~(i.time \in ExpiringTimes /\ i.clearExpiration)

WellFormedProtect(i) ==
    /\ OptionalExitOK(i.exit)
    /\ i.sl # None \/ i.tp # None \/ i.exit # None \/ i.clearProfit
    /\ ~(i.tp # None /\ i.clearProfit)
    /\ Bracket(i.exit) # None => ~i.clearProfit
    /\ NotDuplicated(i, i.exit)

IntentKinds ==
    {"signal", "place_order", "place_oco", "modify_oco", "cancel_oco", "modify_order", "cancel_order",
     "protect_position", "close_position", "close_by", "modify_plan", "clear_plan"}

WellFormed(i) ==
    CASE i.kind = "signal"           -> WellFormedSignal(i)
      [] i.kind = "place_order"      -> WellFormedPlace(i)
      [] i.kind \in {"place_oco", "modify_oco"} -> WellFormedGroup(i.legs)
      [] i.kind = "modify_order"     -> WellFormedModify(i)
      [] i.kind = "protect_position" -> WellFormedProtect(i)
      [] i.kind = "close_by"         -> i.position # i.opposite
      [] i.kind = "modify_plan"      -> i.exit # None /\ ExitOK(i.exit)
      [] OTHER                       -> TRUE
=============================================================================
