-------------------------- MODULE StrategySession --------------------------
(***************************************************************************)
(* One strategy behind the SDK's boundary.  Bars close, the platform builds *)
(* a StrategyContext from what is visible (context.py), the strategy        *)
(* answers with an output, validate_strategy_output accepts it or not       *)
(* (output.py), and the platform carries the accepted intents out.  The SDK *)
(* contains the two validators; the platform is not in the repository and   *)
(* does here what the intents' docstrings say.                              *)
(***************************************************************************)
EXTENDS StrategyContract, Functions

CONSTANTS
    Feeds,         \* the subscriptions of the StrategySpec
    Traded,        \* the symbol of a subscription
    Period,        \* its timeframe
    Warmup,        \* the bars of history it needs before an entry
    Triggers,      \* the subscriptions whose bars call the strategy
    ExactClose,    \* EXACT_CLOSE, else LATEST_CLOSED
    OrderTypes, Fillings, Capabilities, Hedging,     \* as the spec declares
    Quotes,        \* per subscription, the pairs [bid, ask] a bar may close with
    Outputs,       \* what the strategy may answer, each a set of intents
    OrderIds, PositionIds, PlanIds, GroupIds

Intents == UNION Outputs
Symbols == {Traded[f] : f \in Feeds}

DomFillings == {"FOK", "IOC", "BOC"}

(* StrategySpec.validate_references_and_capabilities. *)
ValidSpec ==
    /\ DOMAIN Traded = Feeds /\ DOMAIN Period = Feeds /\ DOMAIN Warmup = Feeds
    /\ Triggers \subseteq Feeds /\ Triggers # {}
    /\ Cardinality(Symbols) > 1 => "MULTI_SYMBOL_DATA" \in Capabilities
    /\ Cardinality(Range(Period)) > 1 => "MULTI_TIMEFRAME_DATA" \in Capabilities
    /\ Fillings \subseteq FillingEnum /\ Fillings \subseteq Capabilities
    /\ Fillings \intersect DomFillings # {} => "DEPTH_OF_MARKET" \in Capabilities
    /\ OrderTypes \subseteq OrderTypeEnum
    /\ "CLOSE_BY" \in OrderTypes => Hedging

ASSUME SpecAssumption == ValidSpec

ASSUME IntentsAssumption == \A i \in Intents : i.kind \in IntentKinds /\ WellFormed(i)

(* The types of the SDK's fields: a price, or none where it is optional. *)
Prices == Int \union {None}

TypedOrder(i) ==
    /\ {i.entry, i.limit, i.sl, i.tp} \subseteq Prices
    /\ i.time \in TimeEnum /\ i.expires \in BOOLEAN

Typed(i) ==
    CASE i.kind = "place_order" -> TypedOrder(i)
      [] i.kind \in {"place_oco", "modify_oco"} ->
            \A l \in DOMAIN i.legs : TypedOrder(i.legs[l]) /\ i.legs[l].entry # None
      [] i.kind = "modify_order" ->
            /\ {i.entry, i.limit, i.sl, i.tp} \subseteq Prices
            /\ i.time \in TimeEnum \union {None}
            /\ {i.expires, i.clearProfit, i.clearExpiration} \subseteq BOOLEAN
      [] i.kind = "protect_position" -> {i.sl, i.tp} \subseteq Prices
      [] OTHER -> TRUE

ASSUME TypesAssumption ==
    /\ None \notin Int
    /\ \A f \in Feeds : /\ Period[f] \in Nat \ {0} /\ Warmup[f] \in Nat
                       /\ Quotes[f] \subseteq [bid : Int, ask : Int]
    /\ \A i \in Intents : Typed(i)

ASSUME IdsAssumption ==
    None \notin OrderIds \union PositionIds \union PlanIds \union GroupIds

VARIABLES
    event,      \* the subscription whose bar calls the strategy, or None
    history,    \* per subscription: the visible bars, the age and quotes of the last,
                \* and whether it is the latest bar of its symbol
    positions,  \* the visible positions, pending orders, OCO groups and
    orders,     \* managed exit plans, each a function on its visible ids
    groups,
    plans,
    pending,    \* accepted intents that are not carried out yet
    moved       \* symbols with a fill since their latest bar

book == <<positions, orders, groups, plans>>
vars == <<event, history, positions, orders, groups, plans, pending, moved>>

With(f, x, v)  == [y \in DOMAIN f \union {x} |-> IF y = x THEN v ELSE f[y]]
Without(f, S)  == Restrict(f, DOMAIN f \ S)

-----------------------------------------------------------------------------
(* The data a context shows.                                               *)

Visible(s) == {f \in Feeds : Traded[f] = s /\ history[f].bars > 0}

(* The latest bar of a symbol, by close and then by timeframe. *)
Latest(s) == history[CHOOSE f \in Visible(s) : history[f].latest]

EntryBasis(s, buy)   == IF buy THEN Latest(s).ask ELSE Latest(s).bid
ExitQuote(s, buy)    == IF buy THEN Latest(s).bid ELSE Latest(s).ask
ExitBasis(s, buy)    == IF Visible(s) = {} THEN None ELSE ExitQuote(s, buy)

(* The synchronized snapshot; EXACT_CLOSE admits only bars of this close. *)
Synchronized ==
    {f \in Feeds : history[f].bars > 0 /\ (ExactClose => history[f].age = 0)}

Missing == Feeds \ Synchronized
Stale   == IF ExactClose THEN {}
           ELSE {f \in Synchronized : history[f].age >= Period[f]}
Cold    == {f \in Feeds : history[f].bars < Warmup[f]}

EntriesAllowed == Missing \union Stale \union Cold = {}

PlanFor(kind, target) == {x \in DOMAIN plans : plans[x].kind = kind /\ plans[x].target = target}
ExitFor(kind, target) ==
    IF PlanFor(kind, target) = {} THEN None
    ELSE plans[CHOOSE x \in PlanFor(kind, target) : TRUE].exit

(* A bracket's stop must be on the losing side of where the position could *)
(* be closed now, its target on the winning side of where it was opened.   *)
BracketOK(buy, opened, quote, b) ==
    b # None => StopOK(buy, quote, b.sl) /\ ProfitOK(buy, opened, b.tp)

-----------------------------------------------------------------------------
(* StrategyContext.validate_snapshot: the rules that the platform's data     *)
(* must satisfy, or there is no context and the strategy is not called.     *)

OrderVisible(o) ==
    LET ord == orders[o] IN
    /\ PendingOK(ord, ord.sl, ord.tp, ord.plan = None)
    /\ ord.symbol \in Symbols
    /\ ord.group # None =>
          /\ ord.group \in DOMAIN groups
          /\ \E l \in DOMAIN groups[ord.group] : groups[ord.group][l].order = o
    /\ ord.plan # None =>
          /\ ord.plan \in DOMAIN plans
          /\ plans[ord.plan].kind = "order" /\ plans[ord.plan].target = o
          /\ ord.sl = None => plans[ord.plan].exit.bracket # None

GroupVisible(g) ==
    /\ Cardinality(DOMAIN groups[g]) >= 2
    /\ \A l \in DOMAIN groups[g] :
          LET leg == groups[g][l] IN
          /\ leg.order \in DOMAIN orders
          /\ orders[leg.order].group = g
          /\ orders[leg.order].plan = leg.plan
          /\ \A k \in DOMAIN groups[g] : groups[g][k].order = leg.order => k = l

PositionVisible(p) ==
    /\ positions[p].symbol \in Symbols
    /\ positions[p].sl = None => Bracket(ExitFor("position", p)) # None

OrderPlanVisible(x) ==
    LET o == orders[plans[x].target] exit == plans[x].exit IN
    /\ plans[x].target \in DOMAIN orders
    /\ o.plan = x
    /\ NotDuplicated(o, exit)
    /\ BracketOK(IsBuy(o.type), Basis(o), Basis(o), exit.bracket)
    /\ ExitDirectionOK(IsBuy(o.type), Basis(o), exit, Basis(o))

PositionPlanVisible(x) ==
    LET p     == positions[plans[x].target]
        exit  == plans[x].exit
        basis == ExitBasis(p.symbol, p.buy)
        quote == IF basis = None THEN p.price ELSE basis
    IN  /\ plans[x].target \in DOMAIN positions
        /\ NotDuplicated(p, exit)
        /\ p.sl = None => exit.bracket # None
        /\ BracketOK(p.buy, p.price, quote, exit.bracket)
        /\ ExitDirectionOK(p.buy, p.price, exit, quote)

PlanVisible(x) ==
    /\ PlanFor(plans[x].kind, plans[x].target) = {x}
    /\ IF plans[x].kind = "order" THEN OrderPlanVisible(x) ELSE PositionPlanVisible(x)

OnePerSymbol ==
    Hedging \/ \A p, q \in DOMAIN positions :
                  positions[p].symbol = positions[q].symbol => p = q

ValidContext ==
    /\ event \in Triggers /\ history[event].bars > 0
    /\ OnePerSymbol
    /\ \A o \in DOMAIN orders    : OrderVisible(o)
    /\ \A g \in DOMAIN groups    : GroupVisible(g)
    /\ \A x \in DOMAIN plans     : PlanVisible(x)
    /\ \A p \in DOMAIN positions : PositionVisible(p)

-----------------------------------------------------------------------------
(* validate_strategy_output, one operator per intent.                      *)

NeededBy(x) ==
    {c \in {"PLATFORM_BRACKETS", "PLATFORM_TRAILING_STOP", "PLATFORM_BREAK_EVEN",
            "PLATFORM_PARTIAL_EXITS"} :
        \/ c = "PLATFORM_BRACKETS"      /\ x.bracket # None
        \/ c = "PLATFORM_TRAILING_STOP" /\ x.trail # None
        \/ c = "PLATFORM_BREAK_EVEN"    /\ x.even # None
        \/ c = "PLATFORM_PARTIAL_EXITS" /\ x.partials # {}}

Granted(x) == x # None => NeededBy(x) \subseteq Capabilities

(* A declared filling policy with which an order of this type can be sent. *)
Executable(type) ==
    IF type \in MarketTypes THEN Fillings \ {"BOC"} # {}
    ELSE \E filling \in Fillings : PendingFillingOK(type, filling)

(* Limits at or below the market for a buy, stops at or above, and so on. *)
QuoteBoundaryOK(type, trigger, s) ==
    /\ Visible(s) # {}
    /\ IF type \in {"BUY_LIMIT", "SELL_STOP", "SELL_STOP_LIMIT"}
       THEN trigger <= EntryBasis(s, IsBuy(type))
       ELSE trigger >= EntryBasis(s, IsBuy(type))

(* A managed exit for a target of this side, entered at "basis", that can  *)
(* be closed at "quote" now; None when no bar shows that.                  *)
RelationsOK(x, buy, basis, quote) ==
    x # None =>
        /\ quote # None => BracketOK(buy, basis, quote, x.bracket)
        /\ ExitDirectionOK(buy, basis, x, IF quote = None THEN basis ELSE quote)

Declared(i) ==
    /\ i.symbol \in Symbols /\ i.type \in OrderTypes /\ i.filling \in Fillings
    /\ Granted(i.exit)

PlaceOK(i) ==
    LET buy   == IsBuy(i.type)
        basis == EntryBasis(i.symbol, buy)
        quote == ExitQuote(i.symbol, buy)
    IN  /\ Declared(i)
        /\ IF i.type \in MarketTypes
           THEN /\ Visible(i.symbol) # {}
                /\ StopOK(buy, quote, StopOf(i, i.exit))
                /\ ProfitOK(buy, basis, ProfitOf(i, i.exit))
                /\ RelationsOK(i.exit, buy, basis, quote)
           ELSE /\ QuoteBoundaryOK(i.type, i.entry, i.symbol)
                /\ RelationsOK(i.exit, buy, Basis(i), Basis(i))

GroupOK(legs) ==
    /\ "PLATFORM_OCO" \in Capabilities
    /\ \A l \in DOMAIN legs :
          LET leg == legs[l] IN
          /\ Declared(leg)
          /\ QuoteBoundaryOK(leg.type, leg.entry, leg.symbol)
          /\ RelationsOK(leg.exit, IsBuy(leg.type), Basis(leg), Basis(leg))

ModifyOcoOK(i) ==
    /\ i.group \in DOMAIN groups
    /\ DOMAIN i.legs = DOMAIN groups[i.group]
    /\ GroupOK(i.legs)

CancelOcoOK(i) == "PLATFORM_OCO" \in Capabilities /\ i.group \in DOMAIN groups

(* The order after the modification; a field that is None is kept. *)
Modified(o, i) ==
    LET Kept(new, old) == IF new = None THEN old ELSE new IN
    [o EXCEPT !.entry   = Kept(i.entry, @),
              !.limit   = Kept(i.limit, @),
              !.sl      = Kept(i.sl, @),
              !.tp      = IF i.clearProfit THEN None ELSE Kept(i.tp, @),
              !.time    = Kept(i.time, @),
              !.expires = ~i.clearExpiration /\ (@ \/ i.expires)]

\* Mutant: the order is validated, its managed plan is not.
ModifyUnmanagedOK(i) ==
    LET new == Modified(orders[i.order], i) IN
    /\ i.order \in DOMAIN orders
    /\ PendingOK(new, new.sl, new.tp, new.plan = None)
    /\ QuoteBoundaryOK(new.type, new.entry, new.symbol)

ModifyOK(i) ==
    LET old == orders[i.order]
        new == Modified(old, i)
    IN  /\ i.order \in DOMAIN orders
        /\ old.type \in OrderTypes /\ old.filling \in Fillings
        /\ PendingOK(new, new.sl, new.tp, new.plan = None)
        /\ QuoteBoundaryOK(new.type, new.entry, new.symbol)
        /\ new.plan # None =>
              /\ NotDuplicated(new, plans[new.plan].exit)
              /\ RelationsOK(plans[new.plan].exit, IsBuy(new.type), Basis(new), Basis(new))

ProtectOK(i) ==
    LET p        == positions[i.position]
        quote    == ExitBasis(p.symbol, p.buy)
        existing == ExitFor("position", i.position)
    IN  /\ i.position \in DOMAIN positions
        /\ Granted(i.exit)
        /\ i.exit = None \/ existing = None
        /\ NotDuplicated(p, i.exit)
        /\ NotDuplicated(i, existing) /\ (Bracket(existing) # None => ~i.clearProfit)
        /\ \/ p.sl # None \/ i.sl # None
           \/ Bracket(existing) # None \/ Bracket(i.exit) # None
        /\ quote # None => DirectionalOK(p.buy, quote, i.sl, i.tp)
        /\ RelationsOK(i.exit, p.buy, p.price, quote)

ClosingType(buy) == IF buy THEN "SELL" ELSE "BUY"

CloseOK(i) ==
    /\ i.position \in DOMAIN positions
    /\ ClosingType(positions[i.position].buy) \in OrderTypes
    /\ Executable(ClosingType(positions[i.position].buy))

CloseByOK(i) ==
    /\ Hedging /\ "CLOSE_BY" \in OrderTypes
    /\ {i.position, i.opposite} \subseteq DOMAIN positions
    /\ positions[i.position].symbol = positions[i.opposite].symbol
    /\ positions[i.position].buy # positions[i.opposite].buy

Target(x) == IF plans[x].kind = "order" THEN orders[plans[x].target]
             ELSE positions[plans[x].target]

ModifyPlanOK(i) ==
    LET target == Target(i.plan)
        order  == plans[i.plan].kind = "order"
        buy    == IF order THEN IsBuy(target.type) ELSE target.buy
        basis  == IF order THEN Basis(target) ELSE target.price
    IN  /\ i.plan \in DOMAIN plans
        /\ Granted(i.exit)
        /\ NotDuplicated(target, i.exit)
        /\ target.sl # None \/ i.exit.bracket # None
        /\ RelationsOK(i.exit, buy, basis,
                       IF order THEN basis ELSE ExitBasis(target.symbol, buy))

\* Mutant: the guard on the remaining stop is forgotten.
ClearPlanUnguarded(i) == i.plan \in DOMAIN plans

ClearPlanOK(i) == i.plan \in DOMAIN plans /\ Target(i.plan).sl # None

SignalOK(i) ==
    /\ i.symbol \in Symbols
    /\ \E type \in OrderTypes \ {"CLOSE_BY"} : IsBuy(type) = i.buy /\ Executable(type)

Acceptable(i) ==
    CASE i.kind = "signal"           -> SignalOK(i)
      [] i.kind = "place_order"      -> PlaceOK(i)
      [] i.kind = "place_oco"        -> GroupOK(i.legs)
      [] i.kind = "modify_oco"       -> ModifyOcoOK(i)
      [] i.kind = "cancel_oco"       -> CancelOcoOK(i)
      [] i.kind = "modify_order"     -> ModifyOK(i)
      [] i.kind = "cancel_order"     -> i.order \in DOMAIN orders
      [] i.kind = "protect_position" -> ProtectOK(i)
      [] i.kind = "close_position"   -> CloseOK(i)
      [] i.kind = "close_by"         -> CloseByOK(i)
      [] i.kind = "modify_plan"      -> ModifyPlanOK(i)
      [] i.kind = "clear_plan"       -> ClearPlanOK(i)

\* Mutant: a plan is reserved and what it protects is not.
ReservedPlanOnly(i) ==
    CASE i.kind \in {"modify_order", "cancel_order"} -> {<<"order", i.order>>}
      [] i.kind \in {"protect_position", "close_position"} -> {<<"position", i.position>>}
      [] i.kind \in {"modify_plan", "clear_plan"} -> {<<"plan", i.plan>>}
      [] OTHER -> {}

(* The lifecycle targets an intent changes; an output may change each once. *)
Reserved(i) ==
    CASE i.kind \in {"modify_order", "cancel_order"} -> {<<"order", i.order>>}
      [] i.kind \in {"protect_position", "close_position"} -> {<<"position", i.position>>}
      [] i.kind = "close_by" -> {<<"position", i.position>>, <<"position", i.opposite>>}
      [] i.kind \in {"modify_oco", "cancel_oco"} ->
            {<<"oco", i.group>>} \union
            {<<"order", groups[i.group][l].order>> : l \in DOMAIN groups[i.group]}
      [] i.kind \in {"modify_plan", "clear_plan"} ->
            {<<"plan", i.plan>>, <<plans[i.plan].kind, plans[i.plan].target>>}
      [] OTHER -> {}

NoCollisions(out) ==
    \A i, j \in out : i # j => Reserved(i) \intersect Reserved(j) = {}

IsEntry(i) == i.kind \in {"signal", "place_order", "place_oco"}

\* Mutant: the blockers hold for every intent.
GateEverything(out) == out # {} => EntriesAllowed

EntryGate(out) == (\E i \in out : IsEntry(i)) => EntriesAllowed

(* The capabilities and types of what is already visible. *)
BookDeclared ==
    /\ DOMAIN groups # {} => "PLATFORM_OCO" \in Capabilities
    /\ \A o \in DOMAIN orders : orders[o].type \in OrderTypes /\ orders[o].filling \in Fillings
    /\ \A x \in DOMAIN plans  : Granted(plans[x].exit)

Accepted(out) ==
    /\ EntryGate(out)
    /\ \A i \in out : Acceptable(i)
    /\ NoCollisions(out)
    /\ BookDeclared

-----------------------------------------------------------------------------
(* The platform's book.                                                    *)

PlanIdsFor(exit) == IF exit = None THEN {None} ELSE PlanIds \ DOMAIN plans

\* Mutant: every plan is filed under the position it was meant for.
AttachedToPosition(ps, x, kind, target, exit) ==
    IF exit = None THEN ps
    ELSE With(ps, x, [kind |-> "position", target |-> target, exit |-> exit])

Attached(ps, x, kind, target, exit) ==
    IF exit = None THEN ps ELSE With(ps, x, [kind |-> kind, target |-> target, exit |-> exit])

OrderFrom(i, x, g) ==
    [symbol |-> i.symbol, type |-> i.type, entry |-> i.entry, limit |-> i.limit,
     sl |-> i.sl, tp |-> i.tp, filling |-> i.filling, time |-> i.time,
     expires |-> i.expires, plan |-> x, group |-> g]

PositionAt(i, price) ==
    [symbol |-> i.symbol, buy |-> IsBuy(i.type), price |-> price, sl |-> i.sl, tp |-> i.tp]

MayOpen(s) == Hedging \/ \A p \in DOMAIN positions : positions[p].symbol # s

(* What is left of the book when the orders of S leave it: their plans go, *)
(* and a group that keeps fewer than two legs is dissolved.                *)
LegsLeft(g, S)  == {l \in DOMAIN groups[g] : groups[g][l].order \notin S}
GroupsLeft(S)   == {g \in DOMAIN groups : Cardinality(LegsLeft(g, S)) >= 2}
GroupsMinus(S)  == [g \in GroupsLeft(S) |-> Restrict(groups[g], LegsLeft(g, S))]
OrdersMinus(S)  == [o \in DOMAIN orders \ S |->
                      IF orders[o].group \in GroupsLeft(S) THEN orders[o]
                      ELSE [orders[o] EXCEPT !.group = None]]
PlansMinus(kind, S) ==
    Restrict(plans, {x \in DOMAIN plans : plans[x].kind # kind \/ plans[x].target \notin S})

GroupOrders(g) == {groups[g][l].order : l \in DOMAIN groups[g]}

DropOrders(S) ==
    /\ orders' = OrdersMinus(S)
    /\ groups' = GroupsMinus(S)
    /\ plans'  = PlansMinus("order", S)

DropPositions(S) ==
    /\ positions' = Without(positions, S)
    /\ plans'     = PlansMinus("position", S)

-----------------------------------------------------------------------------
(* Bars close, and the platform's protection acts on their quotes.         *)

StopNow(p)   == StopOf(positions[p], ExitFor("position", p))
ProfitNow(p) == ProfitOf(positions[p], ExitFor("position", p))

Hit(s, q) ==
    {p \in DOMAIN positions :
        /\ positions[p].symbol = s
        /\ LET buy == positions[p].buy quote == IF buy THEN q.bid ELSE q.ask IN
           ~ StopOK(buy, quote, StopNow(p)) \/ ~ DirectionalOK(buy, quote, None, ProfitNow(p))}

(* Ages beyond the timeframe and bars beyond the warmup make no difference. *)
Capped(n, bound) == IF n > bound THEN bound ELSE n
Needed(f)        == IF Warmup[f] = 0 THEN 1 ELSE Warmup[f]

(* No longer timeframe of the symbol closed t ago as well. *)
BecomesLatest(f, t) ==
    \A g \in Visible(Traded[f]) : history[g].age + t = 0 => Period[g] <= Period[f]

CloseBar(f, q) ==
    /\ event = None /\ pending = {}
    /\ \E t \in {0, 1} :    \* the time since the last bar of any subscription
          /\ history[f].age + t >= Period[f]
          /\ history' = [g \in Feeds |->
                IF g = f
                THEN [bars |-> Capped(history[f].bars + 1, Needed(f)), age |-> 0,
                      bid |-> q.bid, ask |-> q.ask, latest |-> BecomesLatest(f, t)]
                ELSE [history[g] EXCEPT
                      !.age = Capped(@ + t, Period[g]),
                      !.latest = @ /\ ~(Traded[g] = Traded[f] /\ BecomesLatest(f, t))]]
          /\ moved' = IF BecomesLatest(f, t) THEN moved \ {Traded[f]} ELSE moved
    /\ event' = IF f \in Triggers THEN f ELSE None
    /\ DropPositions(Hit(Traded[f], q))
    /\ UNCHANGED <<orders, groups, pending>>

(* A pending order is filled: its plan goes over to the position, and the   *)
(* other legs of its group are cancelled.                                  *)
FillOrder(o) ==
    LET ord      == orders[o]
        siblings == IF ord.group = None THEN {} ELSE GroupOrders(ord.group) \ {o}
        left     == PlansMinus("order", siblings)
    IN  /\ event = None /\ pending = {}
        /\ o \in DOMAIN orders
        /\ MayOpen(ord.symbol)
        /\ \E p \in PositionIds \ DOMAIN positions :
              /\ positions' = With(positions, p, PositionAt(ord, Basis(ord)))
              /\ plans' = [x \in DOMAIN left |->
                             IF left[x].kind = "order" /\ left[x].target = o
                             THEN [left[x] EXCEPT !.kind = "position", !.target = p]
                             ELSE left[x]]
        /\ orders' = OrdersMinus(siblings \union {o})
        /\ groups' = GroupsMinus(siblings \union {o})
        /\ moved' = moved \union {ord.symbol}
        /\ UNCHANGED <<event, history, pending>>

(* A visible context is passed to the strategy, and its output validated. *)
Decide ==
    /\ event # None /\ ValidContext
    /\ \E out \in Outputs : Accepted(out) /\ pending' = out
    /\ event' = None
    /\ UNCHANGED <<history, book, moved>>

(* The snapshot is refused: there is no context, and no output. *)
RefuseContext ==
    /\ event # None /\ ~ ValidContext
    /\ event' = None
    /\ UNCHANGED <<history, book, pending, moved>>

-----------------------------------------------------------------------------
(* The platform carries accepted intents out, one after the other.         *)

Done(i) == /\ pending' = pending \ {i}
           /\ UNCHANGED <<event, history, moved>>

OpenPosition(i) ==
    /\ i.type \in MarketTypes /\ MayOpen(i.symbol)
    /\ \E p \in PositionIds \ DOMAIN positions, x \in PlanIdsFor(i.exit) :
          /\ positions' = With(positions, p,
                               PositionAt(i, EntryBasis(i.symbol, IsBuy(i.type))))
          /\ plans' = Attached(plans, x, "position", p, i.exit)
    /\ UNCHANGED <<orders, groups>>

PlacePending(i) ==
    /\ i.type \notin MarketTypes
    /\ \E o \in OrderIds \ DOMAIN orders, x \in PlanIdsFor(i.exit) :
          /\ orders' = With(orders, o, OrderFrom(i, x, None))
          /\ plans'  = Attached(plans, x, "order", o, i.exit)
    /\ UNCHANGED <<positions, groups>>

(* The legs of group g become the orders ids[l] with the plans xs[l]. *)
SetGroup(g, legs, ids, xs, ps) ==
    LET leg(o) == CHOOSE l \in DOMAIN legs : ids[l] = o
        new    == Range(ids)
        used   == Range(xs) \ {None}
        by(x)  == CHOOSE l \in DOMAIN legs : xs[l] = x
    IN  /\ groups' = With(groups, g, [l \in DOMAIN legs |-> [order |-> ids[l], plan |-> xs[l]]])
        /\ orders' = [o \in DOMAIN orders \union new |->
                        IF o \in new THEN OrderFrom(legs[leg(o)], xs[leg(o)], g) ELSE orders[o]]
        /\ plans'  = [x \in DOMAIN ps \union used |->
                        IF x \in used
                        THEN [kind |-> "order", target |-> ids[by(x)], exit |-> legs[by(x)].exit]
                        ELSE ps[x]]
        /\ UNCHANGED positions

PlanChoices(legs, ps) ==
    {xs \in [DOMAIN legs -> (PlanIds \ DOMAIN ps) \union {None}] :
        /\ \A l \in DOMAIN legs : xs[l] = None <=> legs[l].exit = None
        /\ \A l, k \in DOMAIN legs : xs[l] = xs[k] /\ xs[l] # None => l = k}

PlaceGroup(i) ==
    \E g \in GroupIds \ DOMAIN groups,
       ids \in Injection(DOMAIN i.legs, OrderIds \ DOMAIN orders),
       xs \in PlanChoices(i.legs, plans) :
          SetGroup(g, i.legs, ids, xs, plans)

(* The definition of the group is replaced; its orders keep their ids. *)
ReplaceGroup(i) ==
    LET ids  == [l \in DOMAIN i.legs |-> groups[i.group][l].order]
        left == PlansMinus("order", GroupOrders(i.group))
    IN  \E xs \in PlanChoices(i.legs, left) : SetGroup(i.group, i.legs, ids, xs, left)

ModifyOrder(i) ==
    /\ orders' = [orders EXCEPT ![i.order] = Modified(@, i)]
    /\ UNCHANGED <<positions, groups, plans>>

Protect(i) ==
    /\ positions' = [positions EXCEPT
          ![i.position].sl = IF i.sl = None THEN @ ELSE i.sl,
          ![i.position].tp = IF i.clearProfit THEN None ELSE IF i.tp = None THEN @ ELSE i.tp]
    /\ \E x \in PlanIdsFor(i.exit) :
          plans' = Attached(plans, x, "position", i.position, i.exit)
    /\ UNCHANGED <<orders, groups>>

ClosePosition(i) ==
    /\ DropPositions(IF i.whole THEN {i.position} ELSE {})
    /\ UNCHANGED <<orders, groups>>

CloseBy(i) ==
    /\ DropPositions({i.position, i.opposite})
    /\ UNCHANGED <<orders, groups>>

ReplacePlan(i) ==
    /\ plans' = [plans EXCEPT ![i.plan].exit = i.exit]
    /\ UNCHANGED <<positions, orders, groups>>

(* The order or leg that named the plan names none any more. *)
ClearPlan(i) ==
    /\ plans' = Without(plans, {i.plan})
    /\ orders' = [o \in DOMAIN orders |->
                    [orders[o] EXCEPT !.plan = IF @ = i.plan THEN None ELSE @]]
    /\ groups' = [g \in DOMAIN groups |-> [l \in DOMAIN groups[g] |->
                    [groups[g][l] EXCEPT !.plan = IF @ = i.plan THEN None ELSE @]]]
    /\ UNCHANGED positions

Succeeds(i) ==
    \/ i.kind = "place_order"      /\ (OpenPosition(i) \/ PlacePending(i))
    \/ i.kind = "place_oco"        /\ PlaceGroup(i)
    \/ i.kind = "modify_oco"       /\ ReplaceGroup(i)
    \/ i.kind = "cancel_oco"       /\ DropOrders(GroupOrders(i.group)) /\ UNCHANGED positions
    \/ i.kind = "modify_order"     /\ ModifyOrder(i)
    \/ i.kind = "cancel_order"     /\ DropOrders({i.order}) /\ UNCHANGED positions
    \/ i.kind = "protect_position" /\ Protect(i)
    \/ i.kind = "close_position"   /\ ClosePosition(i)
    \/ i.kind = "close_by"         /\ CloseBy(i)
    \/ i.kind = "modify_plan"      /\ ReplacePlan(i)
    \/ i.kind = "clear_plan"       /\ ClearPlan(i)

Execute(i) == i \in pending /\ Succeeds(i) /\ Done(i)

(* The platform rejects an intent or fails at it, and nothing changes; a    *)
(* signal changes nothing in any case.                                     *)
Reject(i) == i \in pending /\ Done(i) /\ UNCHANGED book

-----------------------------------------------------------------------------
Init ==
    /\ event = None /\ pending = {} /\ moved = {}
    /\ history = [f \in Feeds |-> [bars |-> 0, age |-> Period[f], bid |-> 0, ask |-> 0,
                              latest |-> FALSE]]
    /\ positions = <<>> /\ orders = <<>> /\ groups = <<>> /\ plans = <<>>

Next ==
    \/ \E f \in Feeds : \E q \in Quotes[f] : CloseBar(f, q)
    \/ \E o \in OrderIds : FillOrder(o)
    \/ Decide
    \/ RefuseContext
    \/ \E i \in Intents : Execute(i) \/ Reject(i)

Spec == Init /\ [][Next]_vars

-----------------------------------------------------------------------------
(* What two of the theorems ask of a spec and a strategy.                  *)

ExitsOf(i) ==
    CASE i.kind \in {"place_order", "protect_position", "modify_plan"} -> {i.exit}
      [] i.kind \in {"place_oco", "modify_oco"} -> {i.legs[l].exit : l \in DOMAIN i.legs}
      [] OTHER -> {}

StrategyExits == UNION {ExitsOf(i) : i \in Intents}

(* A stop that trails from the start derives a price from every bid.  It is *)
(* checked against the bid of its acceptance, and against every later one.  *)
TrailsBelowQuotes ==
    \A x \in StrategyExits \ {None} :
        x.trail # None /\ x.trail.activation = None =>
            \A f \in Feeds : \A q \in Quotes[f] : q.bid - x.trail.distance > 0

(* The spec declares the market orders that close what it can hold, and a   *)
(* policy they can be filled with.                                         *)
CanClose ==
    /\ Fillings \ {"BOC"} # {}
    /\ \A type \in OrderTypes \ {"CLOSE_BY"} : ClosingType(IsBuy(type)) \in OrderTypes

-----------------------------------------------------------------------------
TypeOK ==
    /\ event \in Triggers \union {None}
    /\ history \in [Feeds -> [bars : Nat, age : Nat, bid : Int, ask : Int, latest : BOOLEAN]]
    /\ DOMAIN positions \subseteq PositionIds /\ DOMAIN orders \subseteq OrderIds
    /\ DOMAIN groups \subseteq GroupIds /\ DOMAIN plans \subseteq PlanIds
    /\ \A p \in DOMAIN positions :
          positions[p] \in [symbol : Symbols, buy : BOOLEAN, price : Int, sl : Prices, tp : Prices]
    /\ \A o \in DOMAIN orders :
          orders[o] \in [symbol : Symbols, type : PendingTypes, entry : Int, limit : Prices,
                         sl : Prices, tp : Prices, filling : FillingEnum, time : TimeEnum,
                         expires : BOOLEAN, plan : PlanIds \union {None},
                         group : GroupIds \union {None}]
    /\ \A g \in DOMAIN groups : \A l \in DOMAIN groups[g] :
          groups[g][l] \in [order : OrderIds, plan : PlanIds \union {None}]
    /\ \A x \in DOMAIN plans :
          /\ DOMAIN plans[x] = {"kind", "target", "exit"}
          /\ plans[x].kind \in {"order", "position"}
          /\ plans[x].target \in IF plans[x].kind = "order" THEN OrderIds ELSE PositionIds
    /\ pending \subseteq Intents
    /\ moved \subseteq Symbols

(* Every position and every pending order has a stop at all times, and from *)
(* exactly one source: natively, or by the bracket of its managed plan.     *)
(* No accepted intent, fill, cancellation or rejected intent opens a        *)
(* position without one, takes the only one away or adds a second.          *)
OneStop(t, exit) == (t.sl # None) # (Bracket(exit) # None)

BoundedProtection ==
    /\ \A p \in DOMAIN positions : OneStop(positions[p], ExitFor("position", p))
    /\ \A o \in DOMAIN orders : OneStop(orders[o], ExitFor("order", o))

(* The two validators agree: whatever intents the output validator let      *)
(* through and the platform carried out, the context validator accepts the  *)
(* next snapshot, provided every symbol with a position has had a bar since *)
(* its last fill.                                                           *)
SnapshotAccepted ==
    event # None /\ (\A p \in DOMAIN positions : positions[p].symbol \notin moved)
        => ValidContext

(* All intents of an accepted output were judged against the same snapshot, *)
(* but are carried out one after the other: none of them, carried out or    *)
(* refused, makes another one unacceptable, so their order does not matter. *)
PendingStaysValid == \A i \in pending : Acceptable(i)

(* Missing, stale or short data blocks entries only: as long as there is a  *)
(* context, each position can be closed and each order cancelled.           *)
ExitsNeverBlocked ==
    event # None /\ ValidContext =>
        /\ \A p \in DOMAIN positions :
              Accepted({[kind |-> "close_position", position |-> p, whole |-> TRUE]})
        /\ \A o \in DOMAIN orders : Accepted({[kind |-> "cancel_order", order |-> o]})
        /\ \A g \in DOMAIN groups : Accepted({[kind |-> "cancel_oco", group |-> g]})
=============================================================================
