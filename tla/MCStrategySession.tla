------------------------- MODULE MCStrategySession -------------------------
(* The instance of StrategySession: one traded symbol with bars of two      *)
(* timeframes, a second symbol whose bars the strategy also needs, and a    *)
(* menu of intents of every kind.                                          *)
EXTENDS StrategySession, TLC

CONSTANTS eu, slow, xau, o1, o2, p1, p2, m1, m2, g1

MCTraded == eu :> "EURUSD" @@ slow :> "EURUSD" @@ xau :> "XAUUSD"
MCPeriod == eu :> 1 @@ slow :> 2 @@ xau :> 1
MCWarmup == eu :> 1 @@ slow :> 0 @@ xau :> 0

MCOrderTypes   == {"BUY", "SELL", "BUY_STOP", "BUY_LIMIT", "SELL_STOP", "CLOSE_BY"}
MCFillings     == {"RETURN", "IOC"}
MCCapabilities == {"MULTI_SYMBOL_DATA", "MULTI_TIMEFRAME_DATA", "DEPTH_OF_MARKET", "RETURN", "IOC",
                   "PLATFORM_OCO", "PLATFORM_BRACKETS", "PLATFORM_TRAILING_STOP", "PLATFORM_PARTIAL_EXITS"}
MCQuotes == eu :> {[bid |-> 6, ask |-> 7]}
         @@ slow :> {[bid |-> 4, ask |-> 5]} @@ xau :> {[bid |-> 20, ask |-> 20]}

Exit(bracket, trail, partials) ==
    [bracket |-> bracket, trail |-> trail, even |-> None, partials |-> partials]
Bracketed(sl, tp) == Exit([sl |-> sl, tp |-> tp], None, {})
Trailing == Exit(None, [distance |-> 1, activation |-> None, step |-> None], {})

Entry(kind, type, entry, sl, exit) ==
    [kind |-> kind, symbol |-> "EURUSD", type |-> type, entry |-> entry, limit |-> None,
     sl |-> sl, tp |-> None, filling |-> "RETURN", time |-> "GTC", expires |-> FALSE, exit |-> exit]

MCLegs(tp) == "up" :> Entry("leg", "BUY_STOP", 7, None, Bracketed(5, tp))
           @@ "down" :> Entry("leg", "SELL_STOP", 3, 5, None)

Change(o, entry, sl) ==
    [kind |-> "modify_order", order |-> o, entry |-> entry, limit |-> None, sl |-> sl, tp |-> None,
     time |-> None, expires |-> FALSE, clearProfit |-> FALSE, clearExpiration |-> FALSE]

Protection(p, sl, exit) ==
    [kind |-> "protect_position", position |-> p, sl |-> sl, tp |-> None, exit |-> exit,
     clearProfit |-> FALSE]

MCIntents ==
    {Entry("place_order", "BUY", None, None, Bracketed(3, 8)),
     Entry("place_order", "SELL", None, 7, None),
     Entry("place_order", "BUY_STOP", 7, None, Bracketed(5, 9)),
     Entry("place_order", "BUY_LIMIT", 4, 3, Trailing),
     [kind |-> "place_oco", legs |-> MCLegs(9)],
     [kind |-> "signal", symbol |-> "EURUSD", buy |-> TRUE, reference |-> 5, sl |-> 3, tp |-> None]}
    \union {[kind |-> "modify_oco", group |-> g, legs |-> MCLegs(8)] : g \in GroupIds}
    \union {[kind |-> "cancel_oco", group |-> g] : g \in GroupIds}
    \union {Change(o, None, 3) : o \in OrderIds}
    \union {[kind |-> "cancel_order", order |-> o] : o \in OrderIds}
    \union {Protection(p, 3, None) : p \in PositionIds}
    \union {Protection(p, None, Trailing) : p \in PositionIds}
    \union {[kind |-> "close_position", position |-> p, whole |-> w] :
               p \in PositionIds, w \in BOOLEAN}
    \union {[kind |-> "close_by", position |-> pair[1], opposite |-> pair[2]] :
               pair \in {pq \in PositionIds \X PositionIds : pq[1] # pq[2]}}
    \union {[kind |-> "modify_plan", plan |-> x, exit |-> e] :
               x \in PlanIds, e \in {Trailing, Bracketed(3, 8)}}
    \union {[kind |-> "clear_plan", plan |-> x] : x \in PlanIds}

MCOutputs == {{}} \union {{i, j} : i \in MCIntents, j \in MCIntents}

(* The instance satisfies what the theorems ask of a spec. *)
ASSUME HypothesesAssumption == TrailsBelowQuotes /\ CanClose

IdSymmetry == Permutations(OrderIds) \union Permutations(PositionIds) \union Permutations(PlanIds)
=============================================================================
