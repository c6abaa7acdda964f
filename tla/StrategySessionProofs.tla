------------------------ MODULE StrategySessionProofs ------------------------
(***************************************************************************)
(* Every position and order keeps exactly one stop, and the intents of an  *)
(* accepted output do not get in each other's way: for every spec, every   *)
(* strategy and every quote.  The reason is the same: carrying an intent   *)
(* out changes only what the intent reserves.                              *)
(*                                                                         *)
(* A second invariant says that what is in the book still satisfies the    *)
(* rules it was accepted under.  From it, the context validator accepts the *)
(* next snapshot, exits are never blocked, and every field is typed.       *)
(***************************************************************************)
EXTENDS StrategySession, TLAPS

-----------------------------------------------------------------------------
(* The structure of the book.                                              *)

OrderFields    == {"symbol", "type", "entry", "limit", "sl", "tp", "filling", "time", "expires",
                   "plan", "group"}
PositionFields == {"symbol", "buy", "price", "sl", "tp"}

\* An order and its plan name each other.
OrdersSound ==
    \A o \in DOMAIN orders :
        /\ DOMAIN orders[o] = OrderFields
        /\ orders[o].plan # None =>
              /\ orders[o].plan \in DOMAIN plans
              /\ plans[orders[o].plan].kind = "order"
              /\ plans[orders[o].plan].target = o

PositionsSound == \A p \in DOMAIN positions : DOMAIN positions[p] = PositionFields

\* A target has at most one plan.
Unique(ps) ==
    \A x, y \in DOMAIN ps : ps[x].kind = ps[y].kind /\ ps[x].target = ps[y].target => x = y

PlansSound ==
    /\ Unique(plans)
    /\ DOMAIN plans \subseteq PlanIds
    /\ \A x \in DOMAIN plans :
          /\ DOMAIN plans[x] = {"kind", "target", "exit"}
          /\ plans[x].exit # None
          /\ \/ /\ plans[x].kind = "order"
                /\ plans[x].target \in DOMAIN orders
                /\ orders[plans[x].target].plan = x
             \/ /\ plans[x].kind = "position"
                /\ plans[x].target \in DOMAIN positions

\* The legs of a group are different orders.
GroupsSound ==
    \A g \in DOMAIN groups :
        /\ Cardinality(DOMAIN groups[g]) >= 2
        /\ \A l \in DOMAIN groups[g] : DOMAIN groups[g][l] = {"order", "plan"}
        /\ \A l, k \in DOMAIN groups[g] : groups[g][l].order = groups[g][k].order => l = k

BookSound == OrdersSound /\ PositionsSound /\ PlansSound /\ GroupsSound

-----------------------------------------------------------------------------
(* What a step leaves alone: everything but the targets R.  Only the group *)
(* an order names may change, when the group loses another leg.            *)

Owner(ps, x) == <<ps[x].kind, ps[x].target>>

OrdersStay(R) ==
    \A o \in DOMAIN orders : <<"order", o>> \notin R =>
        /\ o \in DOMAIN orders'
        /\ \A f \in OrderFields \ {"group"} : orders'[o][f] = orders[o][f]

PositionsStay(R) ==
    \A p \in DOMAIN positions : <<"position", p>> \notin R =>
        p \in DOMAIN positions' /\ positions'[p] = positions[p]

Exists(kind, t) ==
    \/ kind = "order" /\ t \in DOMAIN orders
    \/ kind = "position" /\ t \in DOMAIN positions

PlansStay(R) ==
    /\ \A x \in DOMAIN plans : Owner(plans, x) \notin R => x \in DOMAIN plans' /\ plans'[x] = plans[x]
    /\ \A x \in DOMAIN plans' :
          /\ Exists(plans'[x].kind, plans'[x].target)
          /\ Owner(plans', x) \notin R
          => x \in DOMAIN plans /\ plans'[x] = plans[x]

GroupsStay(R) ==
    \A g \in DOMAIN groups :
        /\ <<"oco", g>> \notin R
        /\ \A l \in DOMAIN groups[g] : <<"order", groups[g][l].order>> \notin R
        =>  /\ g \in DOMAIN groups'
            /\ DOMAIN groups'[g] = DOMAIN groups[g]
            /\ \A l \in DOMAIN groups[g] : groups'[g][l].order = groups[g][l].order

Frame(R) == OrdersStay(R) /\ PositionsStay(R) /\ PlansStay(R) /\ GroupsStay(R)

LEMMA FrameGrows ==
  ASSUME NEW R, NEW Q, R \subseteq Q, Frame(R)
  PROVE  Frame(Q)
  BY DEF Frame, OrdersStay, PositionsStay, PlansStay, GroupsStay

-----------------------------------------------------------------------------
(* The exit plan of a target.                                              *)

ExitIn(ps, kind, t) ==
    LET xs == {x \in DOMAIN ps : ps[x].kind = kind /\ ps[x].target = t}
    IN  IF xs = {} THEN None ELSE ps[CHOOSE x \in xs : TRUE].exit

LEMMA ExitForIn ==
  ASSUME NEW kind, NEW t
  PROVE  /\ ExitFor(kind, t) = ExitIn(plans, kind, t)
         /\ ExitFor(kind, t)' = ExitIn(plans', kind, t)
  BY DEF ExitFor, PlanFor, ExitIn

LEMMA ExitOfPlan ==
  ASSUME NEW ps, Unique(ps), NEW x \in DOMAIN ps, NEW kind, NEW t,
         ps[x].kind = kind, ps[x].target = t
  PROVE  ExitIn(ps, kind, t) = ps[x].exit
  BY DEF ExitIn, Unique

LEMMA NoExit ==
  ASSUME NEW ps, NEW kind, NEW t,
         \A x \in DOMAIN ps : ~(ps[x].kind = kind /\ ps[x].target = t)
  PROVE  ExitIn(ps, kind, t) = None
  BY DEF ExitIn

LEMMA ExitStays ==
  ASSUME NEW R, Frame(R), BookSound, Unique(plans)', NEW kind, NEW t,
         Exists(kind, t), <<kind, t>> \notin R
  PROVE  ExitIn(plans', kind, t) = ExitIn(plans, kind, t)
  <1>1. CASE \E x \in DOMAIN plans : plans[x].kind = kind /\ plans[x].target = t
    <2>1. PICK x \in DOMAIN plans : plans[x].kind = kind /\ plans[x].target = t
      BY <1>1
    <2>2. x \in DOMAIN plans' /\ plans'[x] = plans[x]
      BY <2>1 DEF Frame, PlansStay, Owner
    <2>3. Unique(plans) /\ Unique(plans')
      BY DEF BookSound, PlansSound, Unique
    <2>4. QED BY <2>1, <2>2, <2>3, ExitOfPlan
  <1>2. CASE \A x \in DOMAIN plans : ~(plans[x].kind = kind /\ plans[x].target = t)
    <2>1. \A x \in DOMAIN plans' : ~(plans'[x].kind = kind /\ plans'[x].target = t)
      BY <1>2 DEF Frame, PlansStay, Owner
    <2>2. QED BY <1>2, <2>1, NoExit
  <1>3. QED BY <1>1, <1>2

\* What a step leaves alone keeps its one stop.
LEMMA ProtectionStays ==
  ASSUME NEW R, Frame(R), BookSound, Unique(plans)', BoundedProtection,
         \A p \in DOMAIN positions' : p \notin DOMAIN positions \/ <<"position", p>> \in R =>
             OneStop(positions'[p], ExitIn(plans', "position", p)),
         \A o \in DOMAIN orders' : o \notin DOMAIN orders \/ <<"order", o>> \in R =>
             OneStop(orders'[o], ExitIn(plans', "order", o))
  PROVE  BoundedProtection'
  <1>1. ASSUME NEW p \in DOMAIN positions'
        PROVE  OneStop(positions'[p], ExitIn(plans', "position", p))
    <2>1. CASE p \in DOMAIN positions /\ <<"position", p>> \notin R
      <3>1. positions'[p] = positions[p]
        BY <2>1 DEF Frame, PositionsStay
      <3>2. ExitIn(plans', "position", p) = ExitIn(plans, "position", p)
        BY <2>1, ExitStays DEF Exists
      <3>3. QED BY <2>1, <3>1, <3>2, ExitForIn DEF BoundedProtection
    <2>2. QED BY <2>1
  <1>2. ASSUME NEW o \in DOMAIN orders'
        PROVE  OneStop(orders'[o], ExitIn(plans', "order", o))
    <2>1. CASE o \in DOMAIN orders /\ <<"order", o>> \notin R
      <3>1. orders'[o].sl = orders[o].sl
        BY <2>1 DEF Frame, OrdersStay, OrderFields
      <3>2. ExitIn(plans', "order", o) = ExitIn(plans, "order", o)
        BY <2>1, ExitStays DEF Exists
      <3>3. OneStop(orders[o], ExitIn(plans, "order", o))
        BY <2>1, ExitForIn DEF BoundedProtection
      <3>4. QED BY <3>1, <3>2, <3>3 DEF OneStop
    <2>2. QED BY <2>1
  <1>3. QED BY <1>1, <1>2, ExitForIn DEF BoundedProtection, OneStop

-----------------------------------------------------------------------------
(* Orders and positions leave the book.                                    *)

Named(kind, S) == {<<kind, t>> : t \in S}

\* A step that keeps the book sound and every stop, and changes only R.
Keeps(R) == Frame(R) /\ BookSound' /\ BoundedProtection'

LEMMA GroupsMinusIs ==
  ASSUME NEW S
  PROVE  /\ DOMAIN GroupsMinus(S) = GroupsLeft(S)
         /\ \A g \in GroupsLeft(S) :
               /\ g \in DOMAIN groups
               /\ Cardinality(LegsLeft(g, S)) >= 2
               /\ DOMAIN GroupsMinus(S)[g] = LegsLeft(g, S)
               /\ LegsLeft(g, S) \subseteq DOMAIN groups[g]
               /\ \A l \in LegsLeft(g, S) : GroupsMinus(S)[g][l] = groups[g][l]
  BY DEF GroupsMinus, GroupsLeft, LegsLeft, Restrict

LEMMA GroupsMinusKeeps ==
  ASSUME NEW S, GroupsSound, groups' = GroupsMinus(S)
  PROVE  GroupsSound' /\ GroupsStay(Named("order", S))
  <1>1. GroupsSound'
    BY GroupsMinusIs DEF GroupsSound
  <1>2. ASSUME NEW g \in DOMAIN groups,
               \A l \in DOMAIN groups[g] : <<"order", groups[g][l].order>> \notin Named("order", S)
        PROVE  g \in GroupsLeft(S) /\ LegsLeft(g, S) = DOMAIN groups[g]
    <2>1. LegsLeft(g, S) = DOMAIN groups[g]
      BY <1>2 DEF LegsLeft, Named
    <2>2. QED BY <2>1 DEF GroupsLeft, GroupsSound
  <1>3. GroupsStay(Named("order", S))
    BY <1>2, GroupsMinusIs DEF GroupsStay
  <1>4. QED BY <1>1, <1>3

LEMMA DropOrdersKeeps ==
  ASSUME NEW S, BookSound, BoundedProtection, DropOrders(S), UNCHANGED positions
  PROVE  Keeps(Named("order", S))
  <1> DEFINE R == Named("order", S)
  <1>1. plans' = PlansMinus("order", S) /\ orders' = OrdersMinus(S) /\ groups' = GroupsMinus(S)
    BY DEF DropOrders
  <1>2. \A t : <<"order", t>> \in R <=> t \in S
    BY DEF Named
  <1>3. \A t : <<"position", t>> \notin R
    BY DEF Named
  <1>4. /\ DOMAIN orders' = DOMAIN orders \ S
        /\ \A o \in DOMAIN orders \ S :
              /\ DOMAIN orders'[o] = OrderFields
              /\ \A f \in OrderFields \ {"group"} : orders'[o][f] = orders[o][f]
    <2>1. OrdersSound
      BY DEF BookSound
    <2>2. DOMAIN orders' = DOMAIN orders \ S
      BY <1>1 DEF OrdersMinus
    <2>3. \A o \in DOMAIN orders \ S :
              /\ DOMAIN orders'[o] = OrderFields
              /\ \A f \in OrderFields \ {"group"} : orders'[o][f] = orders[o][f]
      BY <1>1, <2>1 DEF OrdersMinus, OrdersSound, OrderFields
    <2>4. QED BY <2>2, <2>3
  <1>5. /\ DOMAIN plans' = {x \in DOMAIN plans : plans[x].kind # "order" \/ plans[x].target \notin S}
        /\ \A x \in DOMAIN plans' : plans'[x] = plans[x]
    BY <1>1 DEF PlansMinus, Restrict
  <1>6. GroupsSound' /\ GroupsStay(R)
    BY <1>1, GroupsMinusKeeps DEF BookSound
  <1>7. OrdersStay(R)
    BY <1>2, <1>4 DEF OrdersStay
  <1>8. PositionsStay(R)
    BY DEF PositionsStay
  <1>9. PlansStay(R)
    BY <1>2, <1>3, <1>5 DEF PlansStay, Owner, BookSound, PlansSound
  <1>10. PlansSound'
    <2>1. Unique(plans)' /\ DOMAIN plans' \subseteq PlanIds
      BY <1>5 DEF Unique, BookSound, PlansSound
    <2>2. ASSUME NEW x \in DOMAIN plans'
          PROVE  /\ DOMAIN plans'[x] = {"kind", "target", "exit"}
                 /\ plans'[x].exit # None
                 /\ \/ /\ plans'[x].kind = "order"
                       /\ plans'[x].target \in DOMAIN orders'
                       /\ orders'[plans'[x].target].plan = x
                    \/ /\ plans'[x].kind = "position"
                       /\ plans'[x].target \in DOMAIN positions'
      BY <1>4, <1>5 DEF BookSound, PlansSound, OrderFields
    <2>3. QED BY <2>1, <2>2 DEF PlansSound
  <1>11. OrdersSound'
    <2>1. ASSUME NEW o \in DOMAIN orders', orders'[o].plan # None
          PROVE  /\ orders'[o].plan \in DOMAIN plans'
                 /\ plans'[orders'[o].plan].kind = "order"
                 /\ plans'[orders'[o].plan].target = o
      BY <2>1, <1>4, <1>5 DEF BookSound, OrdersSound, OrderFields
    <2>2. QED BY <1>4, <2>1 DEF OrdersSound
  <1>12. Frame(R) /\ BookSound'
    BY <1>6, <1>7, <1>8, <1>9, <1>10, <1>11 DEF Frame, BookSound, PositionsSound
  <1>13. BoundedProtection'
    BY <1>2, <1>3, <1>4, <1>10, <1>12, ProtectionStays DEF PlansSound
  <1>14. QED BY <1>12, <1>13 DEF Keeps

LEMMA DropPositionsKeeps ==
  ASSUME NEW S, BookSound, BoundedProtection, DropPositions(S), UNCHANGED <<orders, groups>>
  PROVE  Keeps(Named("position", S))
  <1> DEFINE R == Named("position", S)
  <1>1. plans' = PlansMinus("position", S) /\ positions' = Without(positions, S)
    BY DEF DropPositions
  <1>2. \A t : <<"position", t>> \in R <=> t \in S
    BY DEF Named
  <1>3. \A t : <<"order", t>> \notin R
    BY DEF Named
  <1>4. /\ DOMAIN positions' = DOMAIN positions \ S
        /\ \A p \in DOMAIN positions \ S : positions'[p] = positions[p]
    BY <1>1 DEF Without, Restrict
  <1>5. /\ DOMAIN plans' = {x \in DOMAIN plans : plans[x].kind # "position" \/ plans[x].target \notin S}
        /\ \A x \in DOMAIN plans' : plans'[x] = plans[x]
    BY <1>1 DEF PlansMinus, Restrict
  <1>6. OrdersStay(R) /\ PositionsStay(R) /\ GroupsStay(R)
    BY <1>2, <1>4 DEF OrdersStay, PositionsStay, GroupsStay
  <1>7. PlansStay(R)
    BY <1>2, <1>3, <1>5 DEF PlansStay, Owner, BookSound, PlansSound
  <1>8. PlansSound'
    <2>1. Unique(plans)' /\ DOMAIN plans' \subseteq PlanIds
      BY <1>5 DEF Unique, BookSound, PlansSound
    <2>2. QED BY <2>1, <1>4, <1>5 DEF BookSound, PlansSound
  <1>9. OrdersSound'
    BY <1>5 DEF BookSound, OrdersSound
  <1>10. Frame(R) /\ BookSound'
    BY <1>4, <1>6, <1>7, <1>8, <1>9 DEF Frame, BookSound, PositionsSound, GroupsSound
  <1>11. BoundedProtection'
    BY <1>2, <1>3, <1>4, <1>8, <1>10, ProtectionStays DEF PlansSound
  <1>12. QED BY <1>10, <1>11 DEF Keeps

-----------------------------------------------------------------------------
(* Bars and fills.                                                         *)

LEMMA CloseBarKeeps ==
  ASSUME NEW f, NEW q, BookSound, BoundedProtection, CloseBar(f, q)
  PROVE  BookSound' /\ BoundedProtection' /\ pending = {} /\ pending' = {}
  <1>1. DropPositions(Hit(Traded[f], q)) /\ UNCHANGED <<orders, groups>>
    BY DEF CloseBar
  <1>2. QED BY <1>1, DropPositionsKeeps DEF CloseBar, Keeps

\* A plan goes over from a filled order o to its position p.
Moves(ps, qs, S, o, p) ==
    /\ DOMAIN qs = {x \in DOMAIN ps : ps[x].kind # "order" \/ ps[x].target \notin S}
    /\ \A x \in DOMAIN qs :
          IF ps[x].kind = "order" /\ ps[x].target = o
          THEN qs[x] = [ps[x] EXCEPT !.kind = "position", !.target = p]
          ELSE qs[x] = ps[x]

LEMMA MovedPlan ==
  ASSUME NEW plan, DOMAIN plan = {"kind", "target", "exit"}, NEW p
  PROVE  LET new == [plan EXCEPT !.kind = "position", !.target = p]
         IN  /\ DOMAIN new = {"kind", "target", "exit"}
             /\ new.kind = "position" /\ new.target = p /\ new.exit = plan.exit
  OBVIOUS

\* Order o leaves with its siblings, and is the position p afterwards.
Filled(o, S, p) ==
    /\ o \in DOMAIN orders /\ o \in S
    /\ DOMAIN orders' = DOMAIN orders \ S
    /\ p \in PositionIds \ DOMAIN positions
    /\ positions' = With(positions, p, PositionAt(orders[o], Basis(orders[o])))
    /\ ExitIn(plans', "position", p) = ExitIn(plans, "order", o)
    /\ orders' = OrdersMinus(S) /\ groups' = GroupsMinus(S)
    /\ Frame(Named("order", S))

LEMMA FillOrderKeeps ==
  ASSUME NEW o, BookSound, BoundedProtection, FillOrder(o)
  PROVE  /\ BookSound' /\ BoundedProtection' /\ pending = {} /\ pending' = {}
         /\ \E S, p : Filled(o, S, p)
  <1> DEFINE ord == orders[o]
             siblings == IF ord.group = None THEN {} ELSE GroupOrders(ord.group) \ {o}
             S == siblings \union {o}
             R == Named("order", S)
  <1>1. PICK p \in PositionIds \ DOMAIN positions :
          /\ positions' = With(positions, p, PositionAt(ord, Basis(ord)))
          /\ plans' = [x \in DOMAIN PlansMinus("order", siblings) |->
                         IF /\ PlansMinus("order", siblings)[x].kind = "order"
                            /\ PlansMinus("order", siblings)[x].target = o
                         THEN [PlansMinus("order", siblings)[x]
                                 EXCEPT !.kind = "position", !.target = p]
                         ELSE PlansMinus("order", siblings)[x]]
    BY DEF FillOrder
  <1>2. /\ o \in DOMAIN orders
        /\ orders' = OrdersMinus(S) /\ groups' = GroupsMinus(S)
        /\ pending = {} /\ pending' = {}
    BY DEF FillOrder
  <1>3. o \notin siblings /\ o \in S
    OBVIOUS
  <1> HIDE DEF siblings
  <1>4. Moves(plans, plans', siblings, o, p)
    BY <1>1 DEF Moves, PlansMinus, Restrict
  <1> HIDE DEF S
  <1>5. (\A t : <<"order", t>> \in R <=> t \in S) /\ (\A t : <<"position", t>> \notin R)
    BY DEF Named
  <1>6. /\ DOMAIN orders' = DOMAIN orders \ S
        /\ \A k \in DOMAIN orders \ S :
              /\ DOMAIN orders'[k] = OrderFields
              /\ \A f \in OrderFields \ {"group"} : orders'[k][f] = orders[k][f]
    <2>1. OrdersSound
      BY DEF BookSound
    <2>2. DOMAIN orders' = DOMAIN orders \ S
      BY <1>2 DEF OrdersMinus
    <2>3. QED BY <1>2, <2>1, <2>2 DEF OrdersMinus, OrdersSound, OrderFields
  <1>7. /\ DOMAIN positions' = DOMAIN positions \union {p}
        /\ \A t \in DOMAIN positions : positions'[t] = positions[t]
        /\ DOMAIN positions'[p] = PositionFields /\ positions'[p].sl = ord.sl
    BY <1>1 DEF With, PositionAt, PositionFields
  <1>8. \A t : t \in S <=> t \in siblings \/ t = o
    BY DEF S
  <1> HIDE DEF R
  <1>9. ASSUME NEW x \in DOMAIN plans'
        PROVE  /\ x \in DOMAIN plans
               /\ DOMAIN plans'[x] = {"kind", "target", "exit"}
               /\ plans'[x].exit = plans[x].exit
               /\ \/ /\ plans[x].kind = "order" /\ plans[x].target = o
                     /\ plans'[x].kind = "position" /\ plans'[x].target = p
                  \/ ~(plans[x].kind = "order" /\ plans[x].target = o) /\ plans'[x] = plans[x]
    <2>1. x \in DOMAIN plans /\ DOMAIN plans[x] = {"kind", "target", "exit"}
      BY <1>4 DEF Moves, BookSound, PlansSound
    <2>2. CASE plans[x].kind = "order" /\ plans[x].target = o
      <3>1. plans'[x] = [plans[x] EXCEPT !.kind = "position", !.target = p]
        BY <1>4, <2>2 DEF Moves
      <3>2. QED BY <2>1, <2>2, <3>1, MovedPlan
    <2>3. CASE ~(plans[x].kind = "order" /\ plans[x].target = o)
      <3>1. plans'[x] = plans[x]
        BY <1>4, <2>3 DEF Moves
      <3>2. QED BY <2>1, <2>3, <3>1
    <2>4. QED BY <2>2, <2>3
  <1>10. OrdersStay(R) /\ PositionsStay(R)
    BY <1>5, <1>6, <1>7 DEF OrdersStay, PositionsStay
  <1>11. PlansStay(R)
    <2>1. ASSUME NEW x \in DOMAIN plans, Owner(plans, x) \notin R
          PROVE  x \in DOMAIN plans' /\ plans'[x] = plans[x]
      <3>1. ~(plans[x].kind = "order" /\ plans[x].target \in S)
        BY <1>5, <2>1 DEF Owner
      <3>2. QED BY <3>1, <1>4, <1>8 DEF Moves
    <2>2. ASSUME NEW x \in DOMAIN plans', Exists(plans'[x].kind, plans'[x].target)
          PROVE  x \in DOMAIN plans /\ plans'[x] = plans[x]
      BY <1>9, <2>2 DEF Exists
    <2>3. QED BY <2>1, <2>2 DEF PlansStay
  <1>12. GroupsSound' /\ GroupsStay(R)
    BY <1>2, GroupsMinusKeeps DEF BookSound, R
  <1>13. OrdersSound'
    <2>1. ASSUME NEW k \in DOMAIN orders', orders'[k].plan # None
          PROVE  /\ orders'[k].plan \in DOMAIN plans'
                 /\ plans'[orders'[k].plan].kind = "order"
                 /\ plans'[orders'[k].plan].target = k
      <3>1. k \in DOMAIN orders /\ k \notin S /\ orders'[k].plan = orders[k].plan
        BY <1>6 DEF OrderFields
      <3>2. /\ orders[k].plan \in DOMAIN plans
            /\ plans[orders[k].plan].kind = "order"
            /\ plans[orders[k].plan].target = k
        BY <2>1, <3>1 DEF BookSound, OrdersSound
      <3>3. QED BY <3>1, <3>2, <1>4, <1>8 DEF Moves
    <2>2. QED BY <1>6, <2>1 DEF OrdersSound
  <1>14. PlansSound'
    <2>1. ASSUME NEW x \in DOMAIN plans', NEW y \in DOMAIN plans',
                 plans'[x].kind = plans'[y].kind, plans'[x].target = plans'[y].target
          PROVE  x = y
      BY <1>9, <2>1 DEF BookSound, PlansSound, Unique
    <2>2. ASSUME NEW x \in DOMAIN plans'
          PROVE  /\ x \in PlanIds
                 /\ DOMAIN plans'[x] = {"kind", "target", "exit"}
                 /\ plans'[x].exit # None
                 /\ \/ /\ plans'[x].kind = "order"
                       /\ plans'[x].target \in DOMAIN orders'
                       /\ orders'[plans'[x].target].plan = x
                    \/ /\ plans'[x].kind = "position"
                       /\ plans'[x].target \in DOMAIN positions'
      <3>1. CASE plans[x].kind = "order" /\ plans[x].target = o
        BY <3>1, <1>7, <1>9 DEF BookSound, PlansSound
      <3>2. CASE plans[x].kind = "order" /\ plans[x].target # o
        <4>1. plans[x].target \notin S /\ plans'[x] = plans[x]
          BY <3>2, <1>4, <1>8 DEF Moves
        <4>2. QED BY <3>2, <4>1, <1>6, <1>9 DEF BookSound, PlansSound, OrderFields
      <3>3. CASE plans[x].kind = "position"
        BY <3>3, <1>7, <1>9 DEF BookSound, PlansSound
      <3>4. QED BY <3>1, <3>2, <3>3, <1>9 DEF BookSound, PlansSound
    <2>3. QED BY <2>1, <2>2 DEF PlansSound, Unique
  <1>15. PositionsSound'
    BY <1>7 DEF BookSound, PositionsSound
  <1>16. Frame(R) /\ BookSound'
    BY <1>10, <1>11, <1>12, <1>13, <1>14, <1>15 DEF Frame, BookSound
  <1>20. ExitIn(plans', "position", p) = ExitIn(plans, "order", o)
    <2>2. Unique(plans) /\ Unique(plans')
      BY <1>14 DEF BookSound, PlansSound, Unique
    <2>3. CASE ord.plan # None
      <3>1. /\ ord.plan \in DOMAIN plans
            /\ plans[ord.plan].kind = "order" /\ plans[ord.plan].target = o
        BY <1>2, <2>3 DEF BookSound, OrdersSound
      <3>2. ord.plan \in DOMAIN plans'
        BY <3>1, <1>3, <1>4 DEF Moves
      <3>3. /\ plans'[ord.plan].kind = "position" /\ plans'[ord.plan].target = p
            /\ plans'[ord.plan].exit = plans[ord.plan].exit
        BY <3>1, <3>2, <1>9
      <3>4. QED BY <2>2, <3>1, <3>2, <3>3, ExitOfPlan
    <2>4. CASE ord.plan = None
      <3>1. \A x \in DOMAIN plans : ~(plans[x].kind = "order" /\ plans[x].target = o)
        BY <2>4, IdsAssumption DEF BookSound, PlansSound
      <3>2. \A x \in DOMAIN plans' : ~(plans'[x].kind = "position" /\ plans'[x].target = p)
        <4> SUFFICES ASSUME NEW x \in DOMAIN plans',
                            plans'[x].kind = "position", plans'[x].target = p
                     PROVE  FALSE
          OBVIOUS
        <4>1. x \in DOMAIN plans /\ plans'[x] = plans[x]
          BY <3>1, <1>9
        <4>2. plans[x].kind = "position" /\ plans[x].target = p
          BY <4>1
        <4>3. p \in DOMAIN positions
          BY <4>1, <4>2 DEF BookSound, PlansSound
        <4>4. QED BY <4>3, <1>1
      <3>3. ExitIn(plans', "position", p) = None /\ ExitIn(plans, "order", o) = None
        BY <3>1, <3>2, NoExit
      <3>4. QED BY <3>3
    <2>5. QED BY <2>3, <2>4
  <1>17. OneStop(positions'[p], ExitIn(plans', "position", p))
    <2>1. OneStop(ord, ExitIn(plans, "order", o))
      BY <1>2, ExitForIn DEF BoundedProtection
    <2>2. QED BY <2>1, <1>7, <1>20 DEF OneStop
  <1>18. BoundedProtection'
    BY <1>5, <1>6, <1>7, <1>14, <1>16, <1>17, ProtectionStays DEF PlansSound
  <1>21. Filled(o, S, p)
    BY <1>1, <1>2, <1>3, <1>6, <1>16, <1>20 DEF Filled, R
  <1>19. QED BY <1>2, <1>16, <1>18, <1>21

-----------------------------------------------------------------------------
(* Intents that close and cancel.                                          *)

LEMMA CloseKeeps ==
  ASSUME NEW i, i.kind = "close_position", BookSound, BoundedProtection, ClosePosition(i)
  PROVE  Keeps(Reserved(i))
  <1> DEFINE S == IF i.whole THEN {i.position} ELSE {}
  <1>1. Keeps(Named("position", S))
    BY DropPositionsKeeps DEF ClosePosition
  <1>2. Named("position", S) \subseteq Reserved(i)
    BY DEF Named, Reserved
  <1>3. QED BY <1>1, <1>2, FrameGrows DEF Keeps

LEMMA CloseByKeeps ==
  ASSUME NEW i, i.kind = "close_by", BookSound, BoundedProtection, CloseBy(i)
  PROVE  Keeps(Reserved(i))
  <1>1. Keeps(Named("position", {i.position, i.opposite}))
    BY DropPositionsKeeps DEF CloseBy
  <1>2. Named("position", {i.position, i.opposite}) \subseteq Reserved(i)
    BY DEF Named, Reserved
  <1>3. QED BY <1>1, <1>2, FrameGrows DEF Keeps

LEMMA CancelOrderKeeps ==
  ASSUME NEW i, i.kind = "cancel_order", BookSound, BoundedProtection,
         DropOrders({i.order}), UNCHANGED positions
  PROVE  Keeps(Reserved(i))
  <1>1. Keeps(Named("order", {i.order}))
    BY DropOrdersKeeps
  <1>2. Named("order", {i.order}) \subseteq Reserved(i)
    BY DEF Named, Reserved
  <1>3. QED BY <1>1, <1>2, FrameGrows DEF Keeps

LEMMA CancelOcoKeeps ==
  ASSUME NEW i, i.kind = "cancel_oco", BookSound, BoundedProtection,
         DropOrders(GroupOrders(i.group)), UNCHANGED positions
  PROVE  Keeps(Reserved(i))
  <1>1. Keeps(Named("order", GroupOrders(i.group)))
    BY DropOrdersKeeps
  <1>2. Named("order", GroupOrders(i.group)) \subseteq Reserved(i)
    BY DEF Named, Reserved, GroupOrders
  <1>3. QED BY <1>1, <1>2, FrameGrows DEF Keeps

-----------------------------------------------------------------------------
(* Intents that set the protection of one target.                          *)

\* A stop in exactly one place, as the contract demands of every entry.
LEMMA OneStopOf ==
  ASSUME NEW o, NEW x, NotDuplicated(o, x), StopOf(o, x) # None
  PROVE  OneStop(o, x)
  BY DEF NotDuplicated, StopOf, Bracket, OneStop

\* A target without a plan gets one, unless there is none to attach.
Attaches(x, kind, t, exit) ==
    /\ x \in PlanIdsFor(exit)
    /\ exit # None => \A y \in DOMAIN plans : ~(plans[y].kind = kind /\ plans[y].target = t)
    /\ plans' = Attached(plans, x, kind, t, exit)

AttachedOnce(x, kind, t, exit) ==
    /\ Unique(plans')
    /\ exit # None => x \in PlanIds /\ x \notin DOMAIN plans /\ ExitIn(plans', kind, t) = exit
    /\ \A y \in DOMAIN plans : y \in DOMAIN plans' /\ plans'[y] = plans[y]
    /\ \A y \in DOMAIN plans' :
          \/ y \in DOMAIN plans
          \/ exit # None /\ y = x /\ plans'[y] = [kind |-> kind, target |-> t, exit |-> exit]

LEMMA AttachKeepsUnique ==
  ASSUME NEW x, NEW kind, NEW t, NEW exit, BookSound, Attaches(x, kind, t, exit)
  PROVE  AttachedOnce(x, kind, t, exit)
  <1>1. CASE exit = None
    <2>1. plans' = plans
      BY <1>1 DEF Attaches, Attached
    <2>2. QED BY <1>1, <2>1 DEF AttachedOnce, BookSound, PlansSound, Unique
  <1>2. CASE exit # None
    <2>1. /\ DOMAIN plans' = DOMAIN plans \union {x}
          /\ plans'[x] = [kind |-> kind, target |-> t, exit |-> exit]
          /\ \A y \in DOMAIN plans : y # x => plans'[y] = plans[y]
      BY <1>2 DEF Attaches, Attached, With
    <2>2. x \in PlanIds /\ x \notin DOMAIN plans
      BY <1>2 DEF Attaches, PlanIdsFor
    <2>3. Unique(plans')
      BY <1>2, <2>1, <2>2 DEF Attaches, Unique, BookSound, PlansSound
    <2>4. ExitIn(plans', kind, t) = exit
      BY <2>1, <2>3, ExitOfPlan
    <2>5. QED BY <1>2, <2>1, <2>2, <2>3, <2>4 DEF AttachedOnce
  <1>3. QED BY <1>1, <1>2

LEMMA AttachedExit ==
  ASSUME NEW x, NEW kind, NEW t, NEW exit, BookSound, Attaches(x, kind, t, exit)
  PROVE  ExitIn(plans', kind, t) = IF exit = None THEN ExitIn(plans, kind, t) ELSE exit
  <1>1. CASE exit = None
    BY <1>1 DEF Attaches, Attached
  <1>2. CASE exit # None
    BY <1>2, AttachKeepsUnique DEF AttachedOnce
  <1>3. QED BY <1>1, <1>2

LEMMA SetPositionKeeps ==
  ASSUME NEW R, NEW p, NEW x, NEW exit, BookSound, BoundedProtection,
         p \notin DOMAIN positions \/ <<"position", p>> \in R,
         DOMAIN positions' = DOMAIN positions \union {p},
         \A t \in DOMAIN positions : t # p => positions'[t] = positions[t],
         DOMAIN positions'[p] = PositionFields,
         Attaches(x, "position", p, exit),
         UNCHANGED <<orders, groups>>,
         OneStop(positions'[p], ExitIn(plans', "position", p))
  PROVE  Keeps(R)
  <1>1. /\ Unique(plans')
        /\ exit # None => x \in PlanIds /\ x \notin DOMAIN plans
        /\ \A y \in DOMAIN plans : y \in DOMAIN plans' /\ plans'[y] = plans[y]
        /\ \A y \in DOMAIN plans' :
               \/ y \in DOMAIN plans
               \/ /\ exit # None /\ y = x
                  /\ plans'[y] = [kind |-> "position", target |-> p, exit |-> exit]
    <2>1. AttachedOnce(x, "position", p, exit)
      BY AttachKeepsUnique
    <2>2. QED BY <2>1 DEF AttachedOnce
  <1>2. OrdersStay(R) /\ GroupsStay(R)
    BY DEF OrdersStay, GroupsStay
  <1>3. PositionsStay(R)
    BY DEF PositionsStay
  <1>4. PlansStay(R)
    BY <1>1 DEF PlansStay, Owner, Exists
  <1>5. OrdersSound'
    BY <1>1 DEF BookSound, OrdersSound
  <1>6. PlansSound'
    <2>1. Unique(plans)' /\ DOMAIN plans' \subseteq PlanIds
      BY <1>1 DEF BookSound, PlansSound, Unique
    <2>2. QED BY <2>1, <1>1 DEF BookSound, PlansSound
  <1>7. Frame(R) /\ BookSound'
    BY <1>2, <1>3, <1>4, <1>5, <1>6 DEF Frame, BookSound, PositionsSound, GroupsSound
  <1>8. BoundedProtection'
    <2>1. Frame({<<"position", p>>})
      BY <1>1, <1>7 DEF Frame, OrdersStay, GroupsStay, PositionsStay, PlansStay, Owner, Exists
    <2>2. \A t \in DOMAIN positions' :
             t \notin DOMAIN positions \/ <<"position", t>> \in {<<"position", p>>} => t = p
      OBVIOUS
    <2>3. \A o \in DOMAIN orders' :
             ~(o \notin DOMAIN orders \/ <<"order", o>> \in {<<"position", p>>})
      OBVIOUS
    <2>4. Unique(plans)'
      BY <1>1 DEF Unique
    <2>5. QED BY <2>1, <2>2, <2>3, <2>4, ProtectionStays
  <1>9. QED BY <1>7, <1>8 DEF Keeps


LEMMA IntentsAreWellFormed ==
  ASSUME NEW i \in Intents
  PROVE  /\ i.kind \in IntentKinds
         /\ i.kind = "place_order" => WellFormedPlace(i)
         /\ i.kind \in {"place_oco", "modify_oco"} => WellFormedGroup(i.legs)
         /\ i.kind = "protect_position" => WellFormedProtect(i)
         /\ i.kind = "modify_plan" => i.exit # None
  BY IntentsAssumption DEF WellFormed

LEMMA AcceptableIntents ==
  ASSUME NEW i, Acceptable(i)
  PROVE  /\ i.kind = "modify_oco" => ModifyOcoOK(i)
         /\ i.kind = "modify_order" => ModifyOK(i)
         /\ i.kind = "protect_position" => ProtectOK(i)
         /\ i.kind = "close_by" => CloseByOK(i)
         /\ i.kind = "modify_plan" => ModifyPlanOK(i)
         /\ i.kind = "clear_plan" => ClearPlanOK(i)
  BY DEF Acceptable

LEMMA OpenPositionKeeps ==
  ASSUME NEW i \in Intents, i.kind = "place_order", BookSound, BoundedProtection, OpenPosition(i)
  PROVE  Keeps(Reserved(i))
  <1>1. PICK p \in PositionIds \ DOMAIN positions, x \in PlanIdsFor(i.exit) :
          /\ positions' = With(positions, p,
                               PositionAt(i, EntryBasis(i.symbol, IsBuy(i.type))))
          /\ plans' = Attached(plans, x, "position", p, i.exit)
    BY DEF OpenPosition
  <1>2. UNCHANGED <<orders, groups>>
    BY DEF OpenPosition
  <1>3. /\ DOMAIN positions' = DOMAIN positions \union {p}
        /\ \A t \in DOMAIN positions : t # p => positions'[t] = positions[t]
        /\ DOMAIN positions'[p] = PositionFields /\ positions'[p].sl = i.sl
    BY <1>1 DEF With, PositionAt, PositionFields
  <1>4. \A y \in DOMAIN plans : ~(plans[y].kind = "position" /\ plans[y].target = p)
    BY DEF BookSound, PlansSound
  <1>5. Attaches(x, "position", p, i.exit)
    BY <1>1, <1>4 DEF Attaches
  <1>9. OneStop(i, i.exit)
    BY IntentsAreWellFormed, OneStopOf DEF WellFormedPlace
  <1>6. ExitIn(plans', "position", p) = i.exit
    <2>1. CASE i.exit = None
      <3>1. plans' = plans
        BY <1>1, <2>1 DEF Attached
      <3>2. ExitIn(plans, "position", p) = None
        BY <1>4, NoExit
      <3>3. QED BY <2>1, <3>1, <3>2
    <2>2. CASE i.exit # None
      <3>1. AttachedOnce(x, "position", p, i.exit)
        BY <1>5, AttachKeepsUnique
      <3>2. QED BY <2>2, <3>1 DEF AttachedOnce
    <2>3. QED BY <2>1, <2>2
  <1>7. OneStop(positions'[p], ExitIn(plans', "position", p))
    BY <1>3, <1>6, <1>9 DEF OneStop
  <1>8. QED BY <1>1, <1>2, <1>3, <1>5, <1>7, SetPositionKeeps

LEMMA ProtectKeeps ==
  ASSUME NEW i \in Intents, i.kind = "protect_position", BookSound, BoundedProtection,
         ProtectOK(i), Protect(i)
  PROVE  Keeps(Reserved(i))
  <1> DEFINE p == i.position
             existing == ExitIn(plans, "position", p)
  <1>1. PICK x \in PlanIdsFor(i.exit) : plans' = Attached(plans, x, "position", p, i.exit)
    BY DEF Protect
  <1>2. /\ p \in DOMAIN positions /\ DOMAIN positions[p] = PositionFields
        /\ UNCHANGED <<orders, groups>>
    BY DEF Protect, ProtectOK, BookSound, PositionsSound
  <1>3. /\ DOMAIN positions' = DOMAIN positions \union {p}
        /\ \A t \in DOMAIN positions : t # p => positions'[t] = positions[t]
        /\ DOMAIN positions'[p] = PositionFields
        /\ positions'[p].sl = IF i.sl = None THEN positions[p].sl ELSE i.sl
    BY <1>2 DEF Protect, PositionFields
  <1>4. existing = ExitFor("position", p)
    BY ExitForIn
  <1>5. i.exit # None => \A y \in DOMAIN plans : ~(plans[y].kind = "position" /\ plans[y].target = p)
    <2> SUFFICES ASSUME i.exit # None, NEW y \in DOMAIN plans,
                        plans[y].kind = "position", plans[y].target = p
                 PROVE  FALSE
      OBVIOUS
    <2>1. existing = plans[y].exit
      BY ExitOfPlan DEF BookSound, PlansSound
    <2>2. existing # None
      BY <2>1 DEF BookSound, PlansSound
    <2>3. QED BY <2>2, <1>4 DEF ProtectOK
  <1>12. Attaches(x, "position", p, i.exit)
    BY <1>1, <1>5 DEF Attaches
  <1>6. ExitIn(plans', "position", p) = IF i.exit = None THEN existing ELSE i.exit
    <2>1. CASE i.exit = None
      BY <1>1, <2>1 DEF Attached
    <2>2. CASE i.exit # None
      <3>1. AttachedOnce(x, "position", p, i.exit)
        BY <1>12, AttachKeepsUnique
      <3>2. QED BY <2>2, <3>1 DEF AttachedOnce
    <2>3. QED BY <2>1, <2>2
  <1>7. OneStop(positions[p], existing)
    BY <1>2, <1>4 DEF BoundedProtection
  <1>8. /\ NotDuplicated(positions[p], i.exit) /\ NotDuplicated(i, existing)
        /\ NotDuplicated(i, i.exit)
        /\ i.exit = None \/ existing = None
    BY <1>4, IntentsAreWellFormed DEF ProtectOK, WellFormedProtect
  <1>9. OneStop(positions'[p], ExitIn(plans', "position", p))
    BY <1>3, <1>6, <1>7, <1>8 DEF OneStop, NotDuplicated, Bracket
  <1>10. <<"position", p>> \in Reserved(i)
    BY DEF Reserved
  <1>11. QED BY <1>2, <1>3, <1>9, <1>10, <1>12, SetPositionKeeps


LEMMA PlacePendingKeeps ==
  ASSUME NEW i \in Intents, i.kind = "place_order", BookSound, BoundedProtection, PlacePending(i)
  PROVE  Keeps(Reserved(i))
  <1>1. PICK o \in OrderIds \ DOMAIN orders, x \in PlanIdsFor(i.exit) :
          /\ orders' = With(orders, o, OrderFrom(i, x, None))
          /\ plans' = Attached(plans, x, "order", o, i.exit)
    BY DEF PlacePending
  <1>2. UNCHANGED <<positions, groups>>
    BY DEF PlacePending
  <1>3. /\ DOMAIN orders' = DOMAIN orders \union {o}
        /\ \A k \in DOMAIN orders : orders'[k] = orders[k]
        /\ DOMAIN orders'[o] = OrderFields /\ orders'[o].sl = i.sl /\ orders'[o].plan = x
    BY <1>1 DEF With, OrderFrom, OrderFields
  <1>4. \A y \in DOMAIN plans : ~(plans[y].kind = "order" /\ plans[y].target = o)
    BY DEF BookSound, PlansSound
  <1>5. /\ Unique(plans')
        /\ i.exit # None => x \in PlanIds /\ ExitIn(plans', "order", o) = i.exit
        /\ \A y \in DOMAIN plans : y \in DOMAIN plans' /\ plans'[y] = plans[y]
        /\ \A y \in DOMAIN plans' :
               \/ y \in DOMAIN plans
               \/ /\ i.exit # None /\ y = x
                  /\ plans'[y] = [kind |-> "order", target |-> o, exit |-> i.exit]
    <2>1. Attaches(x, "order", o, i.exit)
      BY <1>1, <1>4 DEF Attaches
    <2>2. AttachedOnce(x, "order", o, i.exit)
      BY <2>1, AttachKeepsUnique
    <2>3. QED BY <2>2 DEF AttachedOnce
  <1>6. IF i.exit = None THEN x = None /\ plans' = plans
        ELSE x \in DOMAIN plans' /\ plans'[x] = [kind |-> "order", target |-> o, exit |-> i.exit]
    BY <1>1 DEF PlanIdsFor, Attached, With
  <1>7. Frame({})
    BY <1>2, <1>3, <1>5
    DEF Frame, OrdersStay, PositionsStay, PlansStay, GroupsStay, Owner, Exists
  <1>8. PlansSound'
    <2>1. Unique(plans)' /\ DOMAIN plans' \subseteq PlanIds
      BY <1>5 DEF BookSound, PlansSound, Unique
    <2>2. QED BY <2>1, <1>2, <1>3, <1>5 DEF BookSound, PlansSound
  <1>9. OrdersSound'
    <2>1. ASSUME NEW k \in DOMAIN orders', orders'[k].plan # None
          PROVE  /\ orders'[k].plan \in DOMAIN plans'
                 /\ plans'[orders'[k].plan].kind = "order"
                 /\ plans'[orders'[k].plan].target = k
      <3>1. CASE k = o
        BY <2>1, <3>1, <1>3, <1>6
      <3>2. CASE k # o
        BY <2>1, <3>2, <1>3, <1>5 DEF BookSound, OrdersSound
      <3>3. QED BY <3>1, <3>2
    <2>2. QED BY <1>3, <2>1 DEF BookSound, OrdersSound
  <1>10. BookSound'
    BY <1>2, <1>8, <1>9 DEF BookSound, PositionsSound, GroupsSound
  <1>11. OneStop(orders'[o], ExitIn(plans', "order", o))
    <2>1. OneStop(i, i.exit)
      BY IntentsAreWellFormed, OneStopOf DEF WellFormedPlace
    <2>2. ExitIn(plans', "order", o) = i.exit
      BY <1>4, <1>5, <1>6, NoExit
    <2>3. QED BY <2>1, <2>2, <1>3 DEF OneStop
  <1>12. BoundedProtection'
    <2>1. \A p \in DOMAIN positions' : ~(p \notin DOMAIN positions \/ <<"position", p>> \in {})
      BY <1>2
    <2>2. \A k \in DOMAIN orders' : k \notin DOMAIN orders \/ <<"order", k>> \in {} => k = o
      BY <1>3
    <2>3. QED BY <1>7, <1>8, <1>11, <2>1, <2>2, ProtectionStays DEF PlansSound
  <1>13. QED BY <1>7, <1>10, <1>12, FrameGrows DEF Keeps

LEMMA ModifyOrderKeeps ==
  ASSUME NEW i, i.kind = "modify_order", BookSound, BoundedProtection, ModifyOK(i), ModifyOrder(i)
  PROVE  Keeps(Reserved(i))
  <1> DEFINE o   == i.order
             new == Modified(orders[o], i)
  <1>1. o \in DOMAIN orders /\ DOMAIN orders[o] = OrderFields
    BY DEF ModifyOK, BookSound, OrdersSound
  <1>2. /\ DOMAIN new = OrderFields
        /\ new.plan = orders[o].plan
        /\ new.sl = IF i.sl = None THEN orders[o].sl ELSE i.sl
    BY <1>1 DEF Modified, OrderFields
  <1> HIDE DEF new
  <1>3. /\ DOMAIN orders' = DOMAIN orders
        /\ orders'[o] = new
        /\ \A k \in DOMAIN orders : k # o => orders'[k] = orders[k]
        /\ UNCHANGED <<positions, groups, plans>>
    BY <1>1 DEF ModifyOrder, new
  <1>4. Frame({<<"order", o>>})
    BY <1>3 DEF Frame, OrdersStay, PositionsStay, PlansStay, GroupsStay, Owner, Exists
  <1>5. BookSound'
    BY <1>1, <1>2, <1>3
    DEF BookSound, OrdersSound, PositionsSound, PlansSound, GroupsSound, Unique
  <1>6. OneStop(new, ExitIn(plans, "order", o))
    <2>1. OneStop(orders[o], ExitIn(plans, "order", o))
      BY <1>1, ExitForIn DEF BoundedProtection
    <2>2. CASE orders[o].plan = None
      <3>1. ExitIn(plans, "order", o) = None
        BY <2>2, NoExit, IdsAssumption DEF BookSound, PlansSound
      <3>2. QED BY <2>1, <3>1, <1>2 DEF OneStop, Bracket
    <2>3. CASE orders[o].plan # None
      <3>1. ExitIn(plans, "order", o) = plans[orders[o].plan].exit
        BY <1>1, <2>3, ExitOfPlan DEF BookSound, OrdersSound, PlansSound
      <3>2. NotDuplicated(new, plans[orders[o].plan].exit)
        BY <1>2, <2>3 DEF ModifyOK, new
      <3>3. QED BY <2>1, <3>1, <3>2, <1>2 DEF OneStop, NotDuplicated
    <2>4. QED BY <2>2, <2>3
  <1>7. BoundedProtection'
    <2>1. \A p \in DOMAIN positions' :
             ~(p \notin DOMAIN positions \/ <<"position", p>> \in {<<"order", o>>})
      BY <1>3
    <2>2. \A k \in DOMAIN orders' : k \notin DOMAIN orders \/ <<"order", k>> \in {<<"order", o>>} => k = o
      BY <1>3
    <2>3. Unique(plans)'
      BY <1>5 DEF BookSound, PlansSound
    <2>4. OneStop(orders'[o], ExitIn(plans', "order", o))
      BY <1>3, <1>6
    <2>5. QED BY <1>4, <2>1, <2>2, <2>3, <2>4, ProtectionStays
  <1>8. <<"order", o>> \in Reserved(i)
    BY DEF Reserved
  <1>9. QED BY <1>4, <1>5, <1>7, <1>8, FrameGrows DEF Keeps


-----------------------------------------------------------------------------
(* Intents that set the legs of a group.                                   *)

\* The orders ids, new ones or reserved in R, lose their plans, which leaves ps.
GroupReady(g, legs, ids, xs, ps, R) ==
    /\ WellFormedGroup(legs)
    /\ DOMAIN ids = DOMAIN legs
    /\ \A l, k \in DOMAIN legs : ids[l] = ids[k] => l = k
    /\ \A l \in DOMAIN legs : ids[l] \notin DOMAIN orders \/ <<"order", ids[l]>> \in R
    /\ xs \in PlanChoices(legs, ps)
    /\ DOMAIN ps = {x \in DOMAIN plans : ~(plans[x].kind = "order" /\ plans[x].target \in Range(ids))}
    /\ \A x \in DOMAIN ps : ps[x] = plans[x]
    /\ g \in DOMAIN groups => <<"oco", g>> \in R

\* What SetGroup writes.
GroupWritten(g, legs, ids, xs, ps) ==
    /\ DOMAIN orders' = DOMAIN orders \union Range(ids)
    /\ \A o \in DOMAIN orders : o \notin Range(ids) => orders'[o] = orders[o]
    /\ \A l \in DOMAIN legs :
          /\ ids[l] \in Range(ids)
          /\ orders'[ids[l]] = OrderFrom(legs[l], xs[l], g)
          /\ DOMAIN orders'[ids[l]] = OrderFields
          /\ orders'[ids[l]].sl = legs[l].sl /\ orders'[ids[l]].plan = xs[l]
          /\ xs[l] = None <=> legs[l].exit = None
          /\ xs[l] # None =>
                /\ xs[l] \in PlanIds /\ xs[l] \notin DOMAIN ps /\ xs[l] \in DOMAIN plans'
                /\ plans'[xs[l]] = [kind |-> "order", target |-> ids[l], exit |-> legs[l].exit]
    /\ \A o \in Range(ids) : \E l \in DOMAIN legs : o = ids[l]
    /\ \A x \in DOMAIN ps : x \in DOMAIN plans' /\ plans'[x] = ps[x]
    /\ \A x \in DOMAIN plans' : x \in DOMAIN ps \/ \E l \in DOMAIN legs : xs[l] # None /\ x = xs[l]
    /\ groups' = With(groups, g, [l \in DOMAIN legs |-> [order |-> ids[l], plan |-> xs[l]]])
    /\ UNCHANGED positions

LEMMA SetGroupWrites ==
  ASSUME NEW g, NEW legs, NEW ids, NEW xs, NEW ps, NEW R,
         GroupReady(g, legs, ids, xs, ps, R), SetGroup(g, legs, ids, xs, ps)
  PROVE  GroupWritten(g, legs, ids, xs, ps)
  <1> DEFINE leg(o) == CHOOSE l \in DOMAIN legs : ids[l] = o
             by(x)  == CHOOSE l \in DOMAIN legs : xs[l] = x
             used   == Range(xs) \ {None}
  <1>1. /\ groups' = With(groups, g, [l \in DOMAIN legs |-> [order |-> ids[l], plan |-> xs[l]]])
        /\ orders' = [o \in DOMAIN orders \union Range(ids) |->
                        IF o \in Range(ids) THEN OrderFrom(legs[leg(o)], xs[leg(o)], g) ELSE orders[o]]
        /\ plans'  = [x \in DOMAIN ps \union used |->
                        IF x \in used
                        THEN [kind |-> "order", target |-> ids[by(x)], exit |-> legs[by(x)].exit]
                        ELSE ps[x]]
        /\ UNCHANGED positions
    BY DEF SetGroup
  <1>2. /\ DOMAIN ids = DOMAIN legs /\ DOMAIN xs = DOMAIN legs
        /\ \A l, k \in DOMAIN legs : ids[l] = ids[k] => l = k
        /\ \A l, k \in DOMAIN legs : xs[l] = xs[k] /\ xs[l] # None => l = k
        /\ \A l \in DOMAIN legs :
              /\ xs[l] = None <=> legs[l].exit = None
              /\ xs[l] # None => xs[l] \in PlanIds /\ xs[l] \notin DOMAIN ps
    BY DEF GroupReady, PlanChoices
  <1>3. /\ \A l \in DOMAIN legs : ids[l] \in Range(ids)
        /\ \A o \in Range(ids) : \E l \in DOMAIN legs : o = ids[l]
        /\ \A l \in DOMAIN legs : xs[l] # None => xs[l] \in used
        /\ \A x \in used : \E l \in DOMAIN legs : xs[l] # None /\ x = xs[l]
    BY <1>2 DEF Range
  <1>4. \A l \in DOMAIN legs : leg(ids[l]) = l
    BY <1>2
  <1>5. \A l \in DOMAIN legs : xs[l] # None => by(xs[l]) = l
    BY <1>2
  <1> HIDE DEF leg, by, used
  <1>6. ASSUME NEW l \in DOMAIN legs
        PROVE  orders'[ids[l]] = OrderFrom(legs[l], xs[l], g)
    BY <1>1, <1>3, <1>4
  <1>7. ASSUME NEW l \in DOMAIN legs, xs[l] # None
        PROVE  /\ xs[l] \in DOMAIN plans'
               /\ plans'[xs[l]] = [kind |-> "order", target |-> ids[l], exit |-> legs[l].exit]
    BY <1>1, <1>3, <1>5, <1>7
  <1>8. ASSUME NEW l \in DOMAIN legs
        PROVE  /\ DOMAIN orders'[ids[l]] = OrderFields
               /\ orders'[ids[l]].sl = legs[l].sl /\ orders'[ids[l]].plan = xs[l]
    <2>1. DOMAIN OrderFrom(legs[l], xs[l], g) = OrderFields
      BY DEF OrderFrom, OrderFields
    <2>2. OrderFrom(legs[l], xs[l], g).sl = legs[l].sl /\ OrderFrom(legs[l], xs[l], g).plan = xs[l]
      BY DEF OrderFrom
    <2>3. QED BY <1>6, <2>1, <2>2
  <1>9. \A x \in DOMAIN ps : x \notin used
    BY <1>2, <1>3
  <1>10. /\ \A x \in DOMAIN ps : x \in DOMAIN plans' /\ plans'[x] = ps[x]
         /\ \A x \in DOMAIN plans' :
               x \in DOMAIN ps \/ \E l \in DOMAIN legs : xs[l] # None /\ x = xs[l]
    BY <1>1, <1>3, <1>9
  <1>11. /\ DOMAIN orders' = DOMAIN orders \union Range(ids)
         /\ \A o \in DOMAIN orders : o \notin Range(ids) => orders'[o] = orders[o]
    BY <1>1
  <1>12. QED BY <1>1, <1>2, <1>3, <1>6, <1>7, <1>8, <1>10, <1>11 DEF GroupWritten

LEMMA SetGroupFrame ==
  ASSUME NEW g, NEW legs, NEW ids, NEW xs, NEW ps, NEW R, BookSound,
         GroupReady(g, legs, ids, xs, ps, R), GroupWritten(g, legs, ids, xs, ps)
  PROVE  Frame(R) /\ BookSound'
  <1>10. ASSUME NEW l \in DOMAIN legs
         PROVE  /\ ids[l] \in Range(ids) /\ ids[l] \in DOMAIN orders'
                /\ DOMAIN orders'[ids[l]] = OrderFields
                /\ orders'[ids[l]].plan = xs[l]
    BY DEF GroupWritten
  <1>11. ASSUME NEW l \in DOMAIN legs, xs[l] # None
         PROVE  /\ xs[l] \in PlanIds /\ xs[l] \notin DOMAIN ps /\ xs[l] \in DOMAIN plans'
                /\ DOMAIN plans'[xs[l]] = {"kind", "target", "exit"}
                /\ plans'[xs[l]].kind = "order" /\ plans'[xs[l]].target = ids[l]
                /\ plans'[xs[l]].exit # None
    <2>1. /\ xs[l] \in PlanIds /\ xs[l] \notin DOMAIN ps /\ xs[l] \in DOMAIN plans'
          /\ plans'[xs[l]] = [kind |-> "order", target |-> ids[l], exit |-> legs[l].exit]
          /\ legs[l].exit # None
      BY <1>11 DEF GroupWritten
    <2>2. QED BY <2>1
  <1>12. /\ DOMAIN orders' = DOMAIN orders \union Range(ids)
         /\ \A o \in DOMAIN orders : o \notin Range(ids) => orders'[o] = orders[o]
         /\ \A o \in Range(ids) : \E l \in DOMAIN legs : o = ids[l]
         /\ UNCHANGED positions
    BY DEF GroupWritten
  <1>13. /\ \A x \in DOMAIN ps : x \in DOMAIN plans' /\ plans'[x] = ps[x]
         /\ \A x \in DOMAIN plans' :
               x \in DOMAIN ps \/ \E l \in DOMAIN legs : xs[l] # None /\ x = xs[l]
    BY DEF GroupWritten
  <1>1. /\ \A l \in DOMAIN legs : ids[l] \notin DOMAIN orders \/ <<"order", ids[l]>> \in R
        /\ \A x \in DOMAIN plans :
              x \in DOMAIN ps \/ (plans[x].kind = "order" /\ plans[x].target \in Range(ids))
        /\ \A x \in DOMAIN ps :
              /\ x \in DOMAIN plans /\ ps[x] = plans[x]
              /\ ~(plans[x].kind = "order" /\ plans[x].target \in Range(ids))
        /\ g \in DOMAIN groups => <<"oco", g>> \in R
    BY DEF GroupReady
  <1>2. OrdersStay(R) /\ PositionsStay(R)
    <2>1. ASSUME NEW o \in DOMAIN orders, <<"order", o>> \notin R
          PROVE  o \in DOMAIN orders' /\ orders'[o] = orders[o]
      BY <1>1, <1>12, <2>1
    <2>2. QED BY <2>1, <1>12 DEF OrdersStay, PositionsStay
  <1>3. PlansStay(R)
    <2>1. ASSUME NEW x \in DOMAIN plans, Owner(plans, x) \notin R
          PROVE  x \in DOMAIN plans' /\ plans'[x] = plans[x]
      <3>1. x \in DOMAIN ps
        <4> SUFFICES ASSUME plans[x].kind = "order", plans[x].target \in Range(ids) PROVE FALSE
          BY <1>1
        <4>1. PICK l \in DOMAIN legs : plans[x].target = ids[l]
          BY <1>12
        <4>2. ids[l] \in DOMAIN orders
          BY <4>1 DEF BookSound, PlansSound
        <4>3. QED BY <2>1, <4>1, <4>2, <1>1 DEF Owner
      <3>2. QED BY <3>1, <1>1, <1>13
    <2>2. ASSUME NEW x \in DOMAIN plans', Exists(plans'[x].kind, plans'[x].target),
                 Owner(plans', x) \notin R
          PROVE  x \in DOMAIN plans /\ plans'[x] = plans[x]
      <3>1. CASE x \in DOMAIN ps
        BY <3>1, <1>1, <1>13
      <3>2. ASSUME NEW l \in DOMAIN legs, xs[l] # None, x = xs[l] PROVE FALSE
        <4>1. plans'[x].kind = "order" /\ plans'[x].target = ids[l]
          BY <3>2, <1>11
        <4>2. ids[l] \in DOMAIN orders
          BY <2>2, <4>1 DEF Exists
        <4>3. QED BY <2>2, <4>1, <4>2, <1>1 DEF Owner
      <3>3. QED BY <3>1, <3>2, <1>13
    <2>3. QED BY <2>1, <2>2 DEF PlansStay
  <1>4. /\ DOMAIN groups' = DOMAIN groups \union {g}
        /\ groups'[g] = [l \in DOMAIN legs |-> [order |-> ids[l], plan |-> xs[l]]]
        /\ \A h \in DOMAIN groups : h # g => groups'[h] = groups[h]
    BY DEF GroupWritten, With
  <1>5. GroupsStay(R)
    BY <1>1, <1>4 DEF GroupsStay
  <1>6. GroupsSound'
    <2>1. Cardinality(DOMAIN legs) >= 2 /\ \A l, k \in DOMAIN legs : ids[l] = ids[k] => l = k
      BY DEF GroupReady, WellFormedGroup
    <2>2. ASSUME NEW h \in DOMAIN groups'
          PROVE  /\ Cardinality(DOMAIN groups'[h]) >= 2
                 /\ \A l \in DOMAIN groups'[h] : DOMAIN groups'[h][l] = {"order", "plan"}
                 /\ \A l, k \in DOMAIN groups'[h] : groups'[h][l].order = groups'[h][k].order => l = k
      <3>1. CASE h = g
        <4>1. /\ DOMAIN groups'[h] = DOMAIN legs
              /\ \A l \in DOMAIN legs : groups'[h][l] = [order |-> ids[l], plan |-> xs[l]]
          BY <3>1, <1>4
        <4>2. \A l \in DOMAIN legs :
                 DOMAIN groups'[h][l] = {"order", "plan"} /\ groups'[h][l].order = ids[l]
          BY <4>1
        <4>3. QED BY <2>1, <4>1, <4>2
      <3>2. CASE h # g
        BY <3>2, <1>4 DEF BookSound, GroupsSound
      <3>3. QED BY <3>1, <3>2
    <2>3. QED BY <2>2 DEF GroupsSound
  <1>7. OrdersSound'
    <2>1. ASSUME NEW o \in DOMAIN orders'
          PROVE  /\ DOMAIN orders'[o] = OrderFields
                 /\ orders'[o].plan # None =>
                       /\ orders'[o].plan \in DOMAIN plans'
                       /\ plans'[orders'[o].plan].kind = "order"
                       /\ plans'[orders'[o].plan].target = o
      <3>1. CASE o \in Range(ids)
        <4>1. PICK l \in DOMAIN legs : o = ids[l]
          BY <3>1, <1>12
        <4>2. QED BY <4>1, <1>10, <1>11
      <3>2. CASE o \notin Range(ids)
        <4>1. o \in DOMAIN orders /\ orders'[o] = orders[o]
          BY <3>2, <1>12
        <4>2. ASSUME orders[o].plan # None
              PROVE  /\ orders[o].plan \in DOMAIN ps
                     /\ plans[orders[o].plan].kind = "order"
                     /\ plans[orders[o].plan].target = o
          BY <3>2, <4>1, <4>2, <1>1 DEF BookSound, OrdersSound
        <4>3. QED BY <4>1, <4>2, <1>1, <1>13 DEF BookSound, OrdersSound
      <3>3. QED BY <3>1, <3>2
    <2>2. QED BY <2>1 DEF OrdersSound
  <1>8. PlansSound'
    <2>1. ASSUME NEW x \in DOMAIN plans'
          PROVE  /\ x \in PlanIds
                 /\ DOMAIN plans'[x] = {"kind", "target", "exit"}
                 /\ plans'[x].exit # None
                 /\ \/ /\ plans'[x].kind = "order"
                       /\ plans'[x].target \in DOMAIN orders'
                       /\ orders'[plans'[x].target].plan = x
                    \/ /\ plans'[x].kind = "position"
                       /\ plans'[x].target \in DOMAIN positions'
      <3>1. CASE x \in DOMAIN ps
        <4>1. /\ x \in DOMAIN plans /\ plans'[x] = plans[x]
              /\ ~(plans[x].kind = "order" /\ plans[x].target \in Range(ids))
          BY <3>1, <1>1, <1>13
        <4>2. CASE plans[x].kind = "order"
          <5>1. plans[x].target \in DOMAIN orders /\ orders[plans[x].target].plan = x
            BY <4>1, <4>2 DEF BookSound, PlansSound
          <5>2. orders'[plans[x].target] = orders[plans[x].target]
            BY <4>1, <4>2, <5>1, <1>12
          <5>3. QED BY <4>1, <4>2, <5>1, <5>2, <1>12 DEF BookSound, PlansSound
        <4>3. CASE plans[x].kind # "order"
          BY <4>1, <4>3, <1>12 DEF BookSound, PlansSound
        <4>4. QED BY <4>2, <4>3
      <3>2. ASSUME NEW l \in DOMAIN legs, xs[l] # None, x = xs[l]
            PROVE  /\ x \in PlanIds
                   /\ DOMAIN plans'[x] = {"kind", "target", "exit"}
                   /\ plans'[x].exit # None
                   /\ plans'[x].kind = "order"
                   /\ plans'[x].target \in DOMAIN orders'
                   /\ orders'[plans'[x].target].plan = x
        BY <3>2, <1>10, <1>11
      <3>3. QED BY <3>1, <3>2, <1>13
    <2>2. ASSUME NEW x \in DOMAIN plans', NEW y \in DOMAIN plans',
                 plans'[x].kind = plans'[y].kind, plans'[x].target = plans'[y].target
          PROVE  x = y
      <3>1. CASE plans'[x].kind = "order"
        BY <2>1, <2>2, <3>1
      <3>2. CASE plans'[x].kind = "position"
        <4>1. x \in DOMAIN ps /\ y \in DOMAIN ps
          <5>1. ASSUME NEW l \in DOMAIN legs, xs[l] # None PROVE plans'[xs[l]].kind = "order"
            BY <1>11, <5>1
          <5>2. QED BY ZenonT(60), <2>2, <3>2, <5>1, <1>13
        <4>2. /\ x \in DOMAIN plans /\ plans'[x] = plans[x]
              /\ y \in DOMAIN plans /\ plans'[y] = plans[y]
          BY <4>1, <1>1, <1>13
        <4>3. QED BY <2>2, <4>2 DEF BookSound, PlansSound, Unique
      <3>3. QED BY <2>1, <3>1, <3>2
    <2>3. QED BY <2>1, <2>2 DEF PlansSound, Unique
  <1>9. QED BY <1>2, <1>3, <1>5, <1>6, <1>7, <1>8, <1>12 DEF Frame, BookSound, PositionsSound

LEMMA SetGroupKeeps ==
  ASSUME NEW g, NEW legs, NEW ids, NEW xs, NEW ps, NEW R, BookSound, BoundedProtection,
         GroupReady(g, legs, ids, xs, ps, R), SetGroup(g, legs, ids, xs, ps)
  PROVE  Keeps(R)
  <1> DEFINE Q == Named("order", Range(ids)) \union {<<"oco", g>>}
  <1>1. GroupWritten(g, legs, ids, xs, ps)
    BY SetGroupWrites
  <1>2. Frame(R) /\ BookSound'
    BY <1>1, SetGroupFrame
  <1>3. /\ \A o : <<"order", o>> \in Q <=> o \in Range(ids)
        /\ \A p : <<"position", p>> \notin Q
        /\ <<"oco", g>> \in Q
    BY DEF Named
  <1> HIDE DEF Q
  <1>4. GroupReady(g, legs, ids, xs, ps, Q)
    BY <1>1, <1>3 DEF GroupReady, GroupWritten
  <1>5. Frame(Q)
    BY <1>1, <1>4, SetGroupFrame
  <1>6. Unique(plans)' /\ Unique(plans')
    BY <1>2 DEF BookSound, PlansSound, Unique
  <1>7. ASSUME NEW o \in DOMAIN orders', o \notin DOMAIN orders \/ <<"order", o>> \in Q
        PROVE  OneStop(orders'[o], ExitIn(plans', "order", o))
    <2>1. PICK l \in DOMAIN legs : o = ids[l]
      BY <1>1, <1>3, <1>7 DEF GroupWritten
    <2>2. /\ orders'[o].sl = legs[l].sl
          /\ orders'[o].plan = xs[l]
          /\ xs[l] = None <=> legs[l].exit = None
          /\ xs[l] # None =>
                /\ xs[l] \in DOMAIN plans'
                /\ plans'[xs[l]] = [kind |-> "order", target |-> o, exit |-> legs[l].exit]
      BY <1>1, <2>1 DEF GroupWritten
    <2>3. OneStop(legs[l], legs[l].exit)
      <3>1. NotDuplicated(legs[l], legs[l].exit) /\ StopOf(legs[l], legs[l].exit) # None
        BY DEF GroupReady, WellFormedGroup, PendingOK
      <3>2. QED BY <3>1, OneStopOf
    <2>4. ExitIn(plans', "order", o) = legs[l].exit
      <3>1. CASE xs[l] = None
        <4>1. \A x \in DOMAIN plans' : ~(plans'[x].kind = "order" /\ plans'[x].target = o)
          BY <1>2, <2>2, <3>1, IdsAssumption DEF BookSound, PlansSound
        <4>2. QED BY <2>2, <3>1, <4>1, NoExit
      <3>2. CASE xs[l] # None
        BY <1>6, <2>2, <3>2, ExitOfPlan
      <3>3. QED BY <3>1, <3>2
    <2>5. QED BY <2>2, <2>3, <2>4 DEF OneStop
  <1>8. \A p \in DOMAIN positions' : ~(p \notin DOMAIN positions \/ <<"position", p>> \in Q)
    BY <1>1, <1>3 DEF GroupWritten
  <1>9. BoundedProtection'
    BY <1>5, <1>6, <1>7, <1>8, ProtectionStays
  <1>10. QED BY <1>2, <1>9 DEF Keeps


\* The orders ids are new, as the group is, or the ones the group had.
GroupIdsOf(g, ids) ==
    \/ g \in GroupIds \ DOMAIN groups /\ Range(ids) \subseteq OrderIds \ DOMAIN orders
    \/ g \in DOMAIN groups /\ Range(ids) = GroupOrders(g)

LEMMA PlaceGroupReady ==
  ASSUME NEW i \in Intents, i.kind = "place_oco", BookSound, PlaceGroup(i)
  PROVE  \E g, ids, xs, ps : /\ GroupIdsOf(g, ids)
                             /\ GroupReady(g, i.legs, ids, xs, ps, Reserved(i))
                             /\ SetGroup(g, i.legs, ids, xs, ps)
  <1>1. PICK g \in GroupIds \ DOMAIN groups,
             ids \in Injection(DOMAIN i.legs, OrderIds \ DOMAIN orders),
             xs \in PlanChoices(i.legs, plans) : SetGroup(g, i.legs, ids, xs, plans)
    BY DEF PlaceGroup
  <1>2. /\ ids \in [DOMAIN i.legs -> OrderIds \ DOMAIN orders]
        /\ \A l, k \in DOMAIN i.legs : ids[l] = ids[k] => l = k
    BY DEF Injection, IsInjective
  <1>3. \A o \in Range(ids) : o \in OrderIds /\ o \notin DOMAIN orders
    BY <1>2 DEF Range
  <1>4. \A x \in DOMAIN plans : ~(plans[x].kind = "order" /\ plans[x].target \in Range(ids))
    BY <1>3 DEF BookSound, PlansSound
  <1>5. WellFormedGroup(i.legs)
    BY IntentsAreWellFormed
  <1>6. GroupReady(g, i.legs, ids, xs, plans, Reserved(i))
    BY <1>1, <1>2, <1>4, <1>5 DEF GroupReady
  <1>7. GroupIdsOf(g, ids)
    BY <1>1, <1>3 DEF GroupIdsOf
  <1>8. QED BY <1>1, <1>6, <1>7

LEMMA ReplaceGroupReady ==
  ASSUME NEW i \in Intents, i.kind = "modify_oco", BookSound, ModifyOcoOK(i), ReplaceGroup(i)
  PROVE  \E g, ids, xs, ps : /\ GroupIdsOf(g, ids)
                             /\ GroupReady(g, i.legs, ids, xs, ps, Reserved(i))
                             /\ SetGroup(g, i.legs, ids, xs, ps)
  <1> DEFINE g    == i.group
             ids  == [l \in DOMAIN i.legs |-> groups[g][l].order]
             left == PlansMinus("order", GroupOrders(g))
  <1>1. PICK xs \in PlanChoices(i.legs, left) : SetGroup(g, i.legs, ids, xs, left)
    BY DEF ReplaceGroup
  <1>2. g \in DOMAIN groups /\ DOMAIN i.legs = DOMAIN groups[g]
    BY DEF ModifyOcoOK
  <1>3. /\ DOMAIN ids = DOMAIN i.legs
        /\ \A l, k \in DOMAIN i.legs : ids[l] = ids[k] => l = k
    BY <1>2 DEF BookSound, GroupsSound
  <1>4. Range(ids) = GroupOrders(g)
    BY <1>2 DEF Range, GroupOrders
  <1>5. /\ DOMAIN left = {x \in DOMAIN plans : ~(plans[x].kind = "order" /\ plans[x].target \in Range(ids))}
        /\ \A x \in DOMAIN left : left[x] = plans[x]
    BY <1>4 DEF PlansMinus, Restrict
  <1>6. /\ <<"oco", g>> \in Reserved(i)
        /\ \A l \in DOMAIN i.legs : <<"order", ids[l]>> \in Reserved(i)
    BY <1>2 DEF Reserved
  <1>7. WellFormedGroup(i.legs)
    BY IntentsAreWellFormed
  <1> HIDE DEF ids, left
  <1>8. GroupReady(g, i.legs, ids, xs, left, Reserved(i))
    BY <1>3, <1>5, <1>6, <1>7 DEF GroupReady
  <1>9. GroupIdsOf(g, ids)
    BY <1>2, <1>4 DEF GroupIdsOf
  <1>10. QED BY <1>1, <1>8, <1>9

LEMMA GroupKeeps ==
  ASSUME NEW i \in Intents, BookSound, BoundedProtection,
         \/ i.kind = "place_oco" /\ PlaceGroup(i)
         \/ i.kind = "modify_oco" /\ ModifyOcoOK(i) /\ ReplaceGroup(i)
  PROVE  Keeps(Reserved(i))
  <1>1. PICK g, ids, xs, ps : /\ GroupReady(g, i.legs, ids, xs, ps, Reserved(i))
                              /\ SetGroup(g, i.legs, ids, xs, ps)
    BY PlaceGroupReady, ReplaceGroupReady
  <1>2. QED BY <1>1, SetGroupKeeps

-----------------------------------------------------------------------------
(* Intents that replace or clear a plan.                                   *)

LEMMA ReplacePlanKeeps ==
  ASSUME NEW i \in Intents, i.kind = "modify_plan", BookSound, BoundedProtection,
         ModifyPlanOK(i), ReplacePlan(i)
  PROVE  Keeps(Reserved(i))
  <1> DEFINE x == i.plan
             R == {<<plans[x].kind, plans[x].target>>}
  <1>1. x \in DOMAIN plans /\ i.exit # None
    BY IntentsAreWellFormed DEF ModifyPlanOK
  <1>2. UNCHANGED <<positions, orders, groups>>
    BY DEF ReplacePlan
  <1>3. /\ DOMAIN plans' = DOMAIN plans
        /\ \A y \in DOMAIN plans : y # x => plans'[y] = plans[y]
        /\ DOMAIN plans'[x] = {"kind", "target", "exit"}
        /\ plans'[x].kind = plans[x].kind /\ plans'[x].target = plans[x].target
        /\ plans'[x].exit = i.exit
    <2>1. DOMAIN plans[x] = {"kind", "target", "exit"}
      BY <1>1 DEF BookSound, PlansSound
    <2>2. QED BY <1>1, <2>1 DEF ReplacePlan
  <1>4. Frame(R)
    BY <1>2, <1>3 DEF Frame, OrdersStay, PositionsStay, PlansStay, GroupsStay, Owner
  <1>5. BookSound'
    <2>1. Unique(plans)'
      BY <1>3 DEF BookSound, PlansSound, Unique
    <2>2. PlansSound'
      BY <2>1, <1>1, <1>2, <1>3 DEF BookSound, PlansSound
    <2>3. OrdersSound'
      BY <1>2, <1>3 DEF BookSound, OrdersSound
    <2>4. QED BY <2>2, <2>3, <1>2 DEF BookSound, PositionsSound, GroupsSound
  <1>6. OneStop(Target(x), i.exit)
    BY <1>1 DEF ModifyPlanOK, NotDuplicated, Bracket, OneStop
  <1>7. ExitIn(plans', plans[x].kind, plans[x].target) = i.exit
    <2>1. Unique(plans')
      BY <1>5 DEF BookSound, PlansSound, Unique
    <2>2. QED BY <1>1, <1>3, <2>1, ExitOfPlan
  <1>8. BoundedProtection'
    <2>1. ASSUME NEW p \in DOMAIN positions', p \notin DOMAIN positions \/ <<"position", p>> \in R
          PROVE  OneStop(positions'[p], ExitIn(plans', "position", p))
      <3>1. plans[x].kind = "position" /\ plans[x].target = p
        BY <2>1, <1>2
      <3>2. QED BY <3>1, <1>1, <1>2, <1>6, <1>7 DEF Target
    <2>2. ASSUME NEW o \in DOMAIN orders', o \notin DOMAIN orders \/ <<"order", o>> \in R
          PROVE  OneStop(orders'[o], ExitIn(plans', "order", o))
      <3>1. plans[x].kind = "order" /\ plans[x].target = o
        BY <2>2, <1>2
      <3>2. QED BY <3>1, <1>1, <1>2, <1>6, <1>7 DEF Target
    <2>3. Unique(plans)'
      BY <1>5 DEF BookSound, PlansSound
    <2>4. QED BY <1>4, <2>1, <2>2, <2>3, ProtectionStays
  <1>9. R \subseteq Reserved(i)
    BY DEF Reserved
  <1>10. QED BY <1>4, <1>5, <1>8, <1>9, FrameGrows DEF Keeps

LEMMA ClearPlanKeeps ==
  ASSUME NEW i \in Intents, i.kind = "clear_plan", BookSound, BoundedProtection,
         ClearPlanOK(i), ClearPlan(i)
  PROVE  Keeps(Reserved(i))
  <1> DEFINE x == i.plan
             R == {<<plans[x].kind, plans[x].target>>}
  <1>1. x \in DOMAIN plans /\ x # None /\ Target(x).sl # None /\ UNCHANGED positions
    BY IdsAssumption DEF ClearPlanOK, ClearPlan, BookSound, PlansSound
  <1>2. /\ DOMAIN plans' = DOMAIN plans \ {x}
        /\ \A y \in DOMAIN plans' : plans'[y] = plans[y]
    BY DEF ClearPlan, Without, Restrict
  <1>3. /\ DOMAIN orders' = DOMAIN orders
        /\ \A o \in DOMAIN orders :
              /\ DOMAIN orders'[o] = OrderFields
              /\ \A f \in OrderFields \ {"plan"} : orders'[o][f] = orders[o][f]
              /\ orders'[o].plan = IF orders[o].plan = x THEN None ELSE orders[o].plan
    BY DEF ClearPlan, BookSound, OrdersSound, OrderFields
  <1>4. /\ DOMAIN groups' = DOMAIN groups
        /\ \A g \in DOMAIN groups :
              /\ DOMAIN groups'[g] = DOMAIN groups[g]
              /\ \A l \in DOMAIN groups[g] :
                    /\ DOMAIN groups'[g][l] = {"order", "plan"}
                    /\ groups'[g][l].order = groups[g][l].order
    BY DEF ClearPlan, BookSound, GroupsSound
  <1>5. \A o \in DOMAIN orders : orders[o].plan = x => <<"order", o>> \in R
    BY <1>1 DEF BookSound, OrdersSound
  <1>6. Frame(R)
    <2>1. OrdersStay(R)
      BY <1>3, <1>5 DEF OrdersStay, OrderFields
    <2>2. PlansStay(R)
      BY <1>2 DEF PlansStay, Owner
    <2>3. QED BY <2>1, <2>2, <1>1, <1>4 DEF Frame, PositionsStay, GroupsStay
  <1>7. BookSound'
    <2>1. Unique(plans)'
      BY <1>2 DEF BookSound, PlansSound, Unique
    <2>2. PlansSound'
      BY <2>1, <1>1, <1>2, <1>3 DEF BookSound, PlansSound
    <2>3. OrdersSound'
      BY <1>1, <1>2, <1>3 DEF BookSound, OrdersSound
    <2>4. GroupsSound'
      BY <1>4 DEF BookSound, GroupsSound
    <2>5. QED BY <2>2, <2>3, <2>4, <1>1 DEF BookSound, PositionsSound
  <1>8. ExitIn(plans', plans[x].kind, plans[x].target) = None
    <2>1. \A y \in DOMAIN plans' : ~(plans'[y].kind = plans[x].kind /\ plans'[y].target = plans[x].target)
      BY <1>1, <1>2 DEF BookSound, PlansSound, Unique
    <2>2. QED BY <2>1, NoExit
  <1>9. BoundedProtection'
    <2>1. ASSUME NEW p \in DOMAIN positions', p \notin DOMAIN positions \/ <<"position", p>> \in R
          PROVE  OneStop(positions'[p], ExitIn(plans', "position", p))
      <3>1. plans[x].kind = "position" /\ plans[x].target = p
        BY <2>1, <1>1
      <3>2. positions'[p].sl # None
        BY <3>1, <1>1 DEF Target
      <3>3. QED BY <3>1, <3>2, <1>8 DEF OneStop, Bracket
    <2>2. ASSUME NEW o \in DOMAIN orders', o \notin DOMAIN orders \/ <<"order", o>> \in R
          PROVE  OneStop(orders'[o], ExitIn(plans', "order", o))
      <3>1. plans[x].kind = "order" /\ plans[x].target = o
        BY <2>2, <1>3
      <3>2. orders'[o].sl # None
        BY <3>1, <1>1, <1>3 DEF Target, OrderFields
      <3>3. QED BY <3>1, <3>2, <1>8 DEF OneStop, Bracket
    <2>3. Unique(plans)'
      BY <1>7 DEF BookSound, PlansSound
    <2>4. QED BY <1>6, <2>1, <2>2, <2>3, ProtectionStays
  <1>10. R \subseteq Reserved(i)
    BY DEF Reserved
  <1>11. QED BY <1>6, <1>7, <1>9, <1>10, FrameGrows DEF Keeps

-----------------------------------------------------------------------------
(* Every accepted intent, carried out, changes only what it reserves.      *)

LEMMA SucceedsKeeps ==
  ASSUME NEW i \in Intents, BookSound, BoundedProtection, Acceptable(i), Succeeds(i)
  PROVE  Keeps(Reserved(i))
  <1>1. CASE i.kind = "place_order" /\ (OpenPosition(i) \/ PlacePending(i))
    BY <1>1, OpenPositionKeeps, PlacePendingKeeps
  <1>2. CASE i.kind = "place_oco" /\ PlaceGroup(i)
    BY <1>2, GroupKeeps
  <1>3. CASE i.kind = "modify_oco" /\ ReplaceGroup(i)
    BY <1>3, AcceptableIntents, GroupKeeps
  <1>4. CASE i.kind = "cancel_oco" /\ DropOrders(GroupOrders(i.group)) /\ UNCHANGED positions
    BY <1>4, CancelOcoKeeps
  <1>5. CASE i.kind = "modify_order" /\ ModifyOrder(i)
    BY <1>5, AcceptableIntents, ModifyOrderKeeps
  <1>6. CASE i.kind = "cancel_order" /\ DropOrders({i.order}) /\ UNCHANGED positions
    BY <1>6, CancelOrderKeeps
  <1>7. CASE i.kind = "protect_position" /\ Protect(i)
    BY <1>7, AcceptableIntents, ProtectKeeps
  <1>8. CASE i.kind = "close_position" /\ ClosePosition(i)
    BY <1>8, CloseKeeps
  <1>9. CASE i.kind = "close_by" /\ CloseBy(i)
    BY <1>9, CloseByKeeps
  <1>10. CASE i.kind = "modify_plan" /\ ReplacePlan(i)
    BY <1>10, AcceptableIntents, ReplacePlanKeeps
  <1>11. CASE i.kind = "clear_plan" /\ ClearPlan(i)
    BY <1>11, AcceptableIntents, ClearPlanKeeps
  <1>12. QED
    BY <1>1, <1>2, <1>3, <1>4, <1>5, <1>6, <1>7, <1>8, <1>9, <1>10, <1>11 DEF Succeeds

-----------------------------------------------------------------------------
(* An intent stays acceptable while others are carried out that reserve    *)
(* nothing of what it reserves.                                            *)

LEMMA MarketStays ==
  ASSUME UNCHANGED history
  PROVE  \A s, buy : /\ Visible(s)' = Visible(s)
                     /\ EntryBasis(s, buy)' = EntryBasis(s, buy)
                     /\ ExitQuote(s, buy)' = ExitQuote(s, buy)
                     /\ ExitBasis(s, buy)' = ExitBasis(s, buy)
  <1>1. \A s : Visible(s)' = Visible(s)
    BY DEF Visible
  <1>2. \A s : Latest(s)' = Latest(s)
    BY DEF Visible, Latest
  <1>3. QED BY <1>1, <1>2 DEF EntryBasis, ExitQuote, ExitBasis

LEMMA PlaceStays ==
  ASSUME UNCHANGED history, NEW i, PlaceOK(i)
  PROVE  PlaceOK(i)'
  BY MarketStays DEF PlaceOK, QuoteBoundaryOK

LEMMA GroupStays ==
  ASSUME UNCHANGED history, NEW legs, GroupOK(legs)
  PROVE  GroupOK(legs)'
  BY MarketStays DEF GroupOK, QuoteBoundaryOK

LEMMA OcoStays ==
  ASSUME UNCHANGED history, NEW R, Frame(R), NEW i, i.kind \in {"modify_oco", "cancel_oco"},
         Reserved(i) \intersect R = {}, i.group \in DOMAIN groups
  PROVE  /\ i.group \in DOMAIN groups'
         /\ DOMAIN groups'[i.group] = DOMAIN groups[i.group]
         /\ Reserved(i)' = Reserved(i)
  <1>1. /\ <<"oco", i.group>> \in Reserved(i)
        /\ \A l \in DOMAIN groups[i.group] : <<"order", groups[i.group][l].order>> \in Reserved(i)
    BY DEF Reserved
  <1>2. /\ i.group \in DOMAIN groups'
        /\ DOMAIN groups'[i.group] = DOMAIN groups[i.group]
        /\ \A l \in DOMAIN groups[i.group] : groups'[i.group][l].order = groups[i.group][l].order
    BY <1>1 DEF Frame, GroupsStay
  <1>3. Reserved(i)' = Reserved(i)
    BY <1>2 DEF Reserved
  <1>4. QED BY <1>2, <1>3

\* The fields of an order that validation reads.
Alike(a, b) ==
    /\ a.symbol = b.symbol /\ a.type = b.type /\ a.entry = b.entry /\ a.limit = b.limit
    /\ a.sl = b.sl /\ a.tp = b.tp /\ a.filling = b.filling /\ a.time = b.time
    /\ a.expires = b.expires /\ a.plan = b.plan

LEMMA AlikeOrders ==
  ASSUME NEW R, Frame(R), NEW o \in DOMAIN orders, <<"order", o>> \notin R
  PROVE  o \in DOMAIN orders' /\ Alike(orders'[o], orders[o])
  BY DEF Frame, OrdersStay, Alike, OrderFields

LEMMA ModifiedAlike ==
  ASSUME NEW a, NEW b, Alike(a, b), DOMAIN a = OrderFields, DOMAIN b = OrderFields, NEW i
  PROVE  Alike(Modified(a, i), Modified(b, i))
  BY DEF Alike, Modified, OrderFields

LEMMA ModifyStays ==
  ASSUME UNCHANGED history, BookSound, BookSound', NEW R, Frame(R), NEW i, i.kind = "modify_order",
         Reserved(i) \intersect R = {}, ModifyOK(i)
  PROVE  ModifyOK(i)'
  <1> DEFINE o == i.order
             old == orders[o]
             new == Modified(old, i)
             old1 == orders'[o]
             new1 == Modified(old1, i)
  <1>1. o \in DOMAIN orders /\ <<"order", o>> \notin R
    BY DEF Reserved, ModifyOK
  <1>2. o \in DOMAIN orders' /\ Alike(old1, old)
    BY <1>1, AlikeOrders
  <1>3. Alike(new1, new)
    BY <1>1, <1>2, ModifiedAlike DEF BookSound, OrdersSound
  <1>4. old.type \in OrderTypes /\ old.filling \in Fillings
    BY DEF ModifyOK
  <1>5. new.plan = old.plan
    BY <1>1 DEF BookSound, OrdersSound, Modified, OrderFields
  <1> HIDE DEF new, new1
  <1>6. /\ PendingOK(new, new.sl, new.tp, new.plan = None)
        /\ QuoteBoundaryOK(new.type, new.entry, new.symbol)
        /\ new.plan # None =>
              /\ NotDuplicated(new, plans[new.plan].exit)
              /\ RelationsOK(plans[new.plan].exit, IsBuy(new.type), Basis(new), Basis(new))
    BY DEF ModifyOK, new
  <1>7. new.plan # None => plans'[new.plan] = plans[new.plan]
    BY <1>1, <1>5 DEF BookSound, OrdersSound, Frame, PlansStay, Owner
  <1>8. PendingOK(new1, new1.sl, new1.tp, new1.plan = None)
    BY <1>3, <1>6 DEF Alike, PendingOK, StopLimitOK, ExpirationOK, Basis
  <1>9. QuoteBoundaryOK(new1.type, new1.entry, new1.symbol)
    BY <1>3, <1>6 DEF Alike
  <1>12. \A type, trigger, s : QuoteBoundaryOK(type, trigger, s)' <=> QuoteBoundaryOK(type, trigger, s)
    BY MarketStays DEF QuoteBoundaryOK
  <1>10. new1.plan # None =>
              /\ NotDuplicated(new1, plans'[new1.plan].exit)
              /\ RelationsOK(plans'[new1.plan].exit, IsBuy(new1.type), Basis(new1), Basis(new1))
    BY <1>3, <1>6, <1>7 DEF Alike, NotDuplicated, Basis
  <1>11. QED BY <1>2, <1>4, <1>8, <1>9, <1>10, <1>12 DEF ModifyOK, Alike, new1


LEMMA PositionsAlike ==
  ASSUME NEW R, Frame(R), BookSound, BookSound', NEW p \in DOMAIN positions, <<"position", p>> \notin R
  PROVE  /\ p \in DOMAIN positions' /\ positions'[p] = positions[p]
         /\ ExitIn(plans', "position", p) = ExitIn(plans, "position", p)
  <1>1. Unique(plans)'
    BY DEF BookSound, PlansSound
  <1>2. ExitIn(plans', "position", p) = ExitIn(plans, "position", p)
    BY <1>1, ExitStays DEF Exists
  <1>3. QED BY <1>2 DEF Frame, PositionsStay

LEMMA ProtectStays ==
  ASSUME UNCHANGED history, BookSound, BookSound', NEW R, Frame(R), NEW i,
         i.kind = "protect_position", Reserved(i) \intersect R = {}, ProtectOK(i)
  PROVE  ProtectOK(i)'
  <1> DEFINE p == i.position
  <1>1. p \in DOMAIN positions /\ <<"position", p>> \notin R
    BY DEF Reserved, ProtectOK
  <1>2. /\ p \in DOMAIN positions' /\ positions'[p] = positions[p]
        /\ ExitFor("position", p)' = ExitFor("position", p)
    BY <1>1, PositionsAlike, ExitForIn
  <1>3. \A s, buy : ExitBasis(s, buy)' = ExitBasis(s, buy)
    BY MarketStays
  <1>4. QED BY <1>2, <1>3 DEF ProtectOK

LEMMA CloseStays ==
  ASSUME BookSound, BookSound', NEW R, Frame(R), NEW i, i.kind = "close_position",
         Reserved(i) \intersect R = {}, CloseOK(i)
  PROVE  CloseOK(i)'
  <1>1. i.position \in DOMAIN positions /\ <<"position", i.position>> \notin R
    BY DEF Reserved, CloseOK
  <1>2. QED BY <1>1, PositionsAlike DEF CloseOK

LEMMA CloseByStays ==
  ASSUME BookSound, BookSound', NEW R, Frame(R), NEW i, i.kind = "close_by",
         Reserved(i) \intersect R = {}, CloseByOK(i)
  PROVE  CloseByOK(i)'
  <1>1. /\ i.position \in DOMAIN positions /\ <<"position", i.position>> \notin R
        /\ i.opposite \in DOMAIN positions /\ <<"position", i.opposite>> \notin R
    BY DEF Reserved, CloseByOK
  <1>2. QED BY <1>1, PositionsAlike DEF CloseByOK

LEMMA PlansAlike ==
  ASSUME BookSound, NEW R, Frame(R), NEW i, i.kind \in {"modify_plan", "clear_plan"},
         Reserved(i) \intersect R = {}, i.plan \in DOMAIN plans
  PROVE  LET x == i.plan
             t == plans[x].target
         IN  /\ x \in DOMAIN plans' /\ plans'[x] = plans[x]
             /\ Reserved(i)' = Reserved(i)
             /\ \/ /\ plans[x].kind = "order" /\ t \in DOMAIN orders'
                   /\ Alike(orders'[t], orders[t])
                \/ /\ plans[x].kind = "position" /\ t \in DOMAIN positions'
                   /\ positions'[t] = positions[t]
  <1> DEFINE x == i.plan
             t == plans[x].target
  <1>1. <<plans[x].kind, t>> \notin R
    BY DEF Reserved
  <1>2. x \in DOMAIN plans' /\ plans'[x] = plans[x]
    BY <1>1 DEF Frame, PlansStay, Owner
  <1>3. Reserved(i)' = Reserved(i)
    BY <1>2 DEF Reserved
  <1>4. CASE plans[x].kind = "order"
    <2>1. t \in DOMAIN orders
      BY <1>4 DEF BookSound, PlansSound
    <2>2. QED BY <1>1, <1>2, <1>3, <1>4, <2>1, AlikeOrders
  <1>5. CASE plans[x].kind = "position"
    <2>1. t \in DOMAIN positions
      BY <1>5 DEF BookSound, PlansSound
    <2>2. QED BY <1>1, <1>2, <1>3, <1>5, <2>1 DEF Frame, PositionsStay
  <1>6. QED BY <1>4, <1>5 DEF BookSound, PlansSound

LEMMA ModifyPlanStays ==
  ASSUME UNCHANGED history, BookSound, NEW R, Frame(R), NEW i, i.kind = "modify_plan",
         Reserved(i) \intersect R = {}, ModifyPlanOK(i)
  PROVE  ModifyPlanOK(i)'
  <1>1. i.plan \in DOMAIN plans
    BY DEF ModifyPlanOK
  <1>2. \A s, buy : ExitBasis(s, buy)' = ExitBasis(s, buy)
    BY MarketStays
  <1>3. i.plan \in DOMAIN plans' /\ plans'[i.plan] = plans[i.plan]
    BY <1>1, PlansAlike
  <1>4. CASE plans[i.plan].kind = "order"
    <2>1. Alike(orders'[plans[i.plan].target], orders[plans[i.plan].target])
      BY <1>1, <1>4, PlansAlike
    <2>2. QED BY <1>3, <1>4, <2>1 DEF ModifyPlanOK, Target, NotDuplicated, Alike, Basis
  <1>5. CASE plans[i.plan].kind # "order"
    <2>1. positions'[plans[i.plan].target] = positions[plans[i.plan].target]
      BY <1>1, <1>5, PlansAlike
    <2>2. QED BY <1>2, <1>3, <1>5, <2>1 DEF ModifyPlanOK, Target
  <1>6. QED BY <1>4, <1>5

LEMMA ClearPlanStays ==
  ASSUME BookSound, NEW R, Frame(R), NEW i, i.kind = "clear_plan",
         Reserved(i) \intersect R = {}, ClearPlanOK(i)
  PROVE  ClearPlanOK(i)'
  <1>1. i.plan \in DOMAIN plans
    BY DEF ClearPlanOK
  <1>2. QED BY <1>1, PlansAlike DEF ClearPlanOK, Target, Alike

LEMMA StaysAcceptable ==
  ASSUME UNCHANGED history, BookSound, BookSound', NEW R, Frame(R), NEW i \in Intents,
         Reserved(i) \intersect R = {}, Acceptable(i)
  PROVE  Acceptable(i)' /\ Reserved(i)' = Reserved(i)
  <1>1. CASE i.kind = "signal"
    BY <1>1 DEF Acceptable, SignalOK, Reserved
  <1>2. CASE i.kind = "place_order"
    BY <1>2, PlaceStays DEF Acceptable, Reserved
  <1>3. CASE i.kind = "place_oco"
    BY <1>3, GroupStays DEF Acceptable, Reserved
  <1>4. CASE i.kind = "modify_oco"
    <2>1. ModifyOcoOK(i)
      BY <1>4, AcceptableIntents
    <2>2. /\ i.group \in DOMAIN groups' /\ DOMAIN groups'[i.group] = DOMAIN groups[i.group]
          /\ Reserved(i)' = Reserved(i)
      BY <1>4, <2>1, OcoStays DEF ModifyOcoOK
    <2>3. GroupOK(i.legs)'
      BY <2>1, GroupStays DEF ModifyOcoOK
    <2>4. QED BY <1>4, <2>1, <2>2, <2>3 DEF Acceptable, ModifyOcoOK
  <1>5. CASE i.kind = "cancel_oco"
    <2>1. CancelOcoOK(i)
      BY <1>5 DEF Acceptable
    <2>2. i.group \in DOMAIN groups' /\ Reserved(i)' = Reserved(i)
      BY <1>5, <2>1, OcoStays DEF CancelOcoOK
    <2>3. QED BY <1>5, <2>1, <2>2 DEF Acceptable, CancelOcoOK
  <1>6. CASE i.kind = "modify_order"
    BY <1>6, AcceptableIntents, ModifyStays DEF Acceptable, Reserved
  <1>7. CASE i.kind = "cancel_order"
    <2>1. i.order \in DOMAIN orders /\ <<"order", i.order>> \notin R
      BY <1>7 DEF Acceptable, Reserved
    <2>2. QED BY <1>7, <2>1, AlikeOrders DEF Acceptable, Reserved
  <1>8. CASE i.kind = "protect_position"
    BY <1>8, AcceptableIntents, ProtectStays DEF Acceptable, Reserved
  <1>9. CASE i.kind = "close_position"
    BY <1>9, CloseStays DEF Acceptable, Reserved
  <1>10. CASE i.kind = "close_by"
    BY <1>10, CloseByStays DEF Acceptable, Reserved
  <1>11. CASE i.kind = "modify_plan"
    <2>1. ModifyPlanOK(i) /\ i.plan \in DOMAIN plans
      BY <1>11, AcceptableIntents DEF ModifyPlanOK
    <2>2. ModifyPlanOK(i)' /\ Reserved(i)' = Reserved(i)
      BY <1>11, <2>1, ModifyPlanStays, PlansAlike
    <2>3. QED BY <1>11, <2>2 DEF Acceptable
  <1>12. CASE i.kind = "clear_plan"
    <2>1. ClearPlanOK(i) /\ i.plan \in DOMAIN plans
      BY <1>12, AcceptableIntents DEF ClearPlanOK
    <2>2. ClearPlanOK(i)' /\ Reserved(i)' = Reserved(i)
      BY <1>12, <2>1, ClearPlanStays, PlansAlike
    <2>3. QED BY <1>12, <2>2 DEF Acceptable
  <1>13. i.kind \in IntentKinds
    BY IntentsAreWellFormed
  <1>14. QED
    BY <1>1, <1>2, <1>3, <1>4, <1>5, <1>6, <1>7, <1>8, <1>9, <1>10, <1>11, <1>12, <1>13 DEF IntentKinds


-----------------------------------------------------------------------------
(* The inductive invariant, and what is proved of the session.             *)

SessionInv ==
    /\ BookSound
    /\ BoundedProtection
    /\ pending \subseteq Intents
    /\ PendingStaysValid
    /\ NoCollisions(pending)

LEMMA InitSession == Init => SessionInv
  BY DEF Init, SessionInv, BookSound, OrdersSound, PositionsSound, PlansSound, GroupsSound, Unique,
         BoundedProtection, PendingStaysValid, NoCollisions

LEMMA ExecuteKeeps ==
  ASSUME SessionInv, NEW i \in Intents, Execute(i)
  PROVE  SessionInv'
  <1>1. i \in pending /\ Succeeds(i) /\ pending' = pending \ {i} /\ UNCHANGED history
    BY DEF Execute, Done
  <1>2. Acceptable(i) /\ BookSound /\ BoundedProtection
    BY <1>1 DEF SessionInv, PendingStaysValid
  <1>3. Frame(Reserved(i)) /\ BookSound' /\ BoundedProtection'
    BY <1>1, <1>2, SucceedsKeeps DEF Keeps
  <1>4. ASSUME NEW j \in pending'
        PROVE  Acceptable(j)' /\ Reserved(j)' = Reserved(j)
    <2>1. j \in Intents /\ Acceptable(j) /\ j \in pending /\ j # i
      BY <1>1 DEF SessionInv, PendingStaysValid
    <2>2. Reserved(j) \intersect Reserved(i) = {}
      BY <1>1, <2>1 DEF SessionInv, NoCollisions
    <2>3. QED BY <1>1, <1>2, <1>3, <2>1, <2>2, StaysAcceptable
  <1>5. PendingStaysValid'
    BY <1>4 DEF PendingStaysValid
  <1>6. NoCollisions(pending)'
    BY <1>1, <1>4 DEF SessionInv, NoCollisions
  <1>7. QED BY <1>1, <1>3, <1>5, <1>6 DEF SessionInv

\* A step that leaves the market and the book alone.
LEMMA SameBook ==
  ASSUME UNCHANGED <<history, book>>, SessionInv
  PROVE  /\ BookSound' /\ BoundedProtection'
         /\ \A j \in Intents : Acceptable(j) => Acceptable(j)' /\ Reserved(j)' = Reserved(j)
  <1>1. UNCHANGED <<history, positions, orders, groups, plans>>
    BY DEF book
  <1>2. BookSound' /\ Frame({})
    BY <1>1 DEF SessionInv, BookSound, OrdersSound, PositionsSound, PlansSound, GroupsSound, Unique,
                Frame, OrdersStay, PositionsStay, PlansStay, GroupsStay
  <1>3. BoundedProtection'
    BY <1>1, ExitForIn DEF SessionInv, BoundedProtection
  <1>4. ASSUME NEW j \in Intents, Acceptable(j)
        PROVE  Acceptable(j)' /\ Reserved(j)' = Reserved(j)
    BY <1>1, <1>2, <1>4, StaysAcceptable DEF SessionInv
  <1>5. QED BY <1>2, <1>3, <1>4

LEMMA NextKeepsSession == SessionInv /\ [Next]_vars => SessionInv'
  <1> SUFFICES ASSUME SessionInv, [Next]_vars PROVE SessionInv'
    OBVIOUS
  <1>1. ASSUME BookSound', BoundedProtection', pending' = {}
        PROVE  SessionInv'
    BY <1>1 DEF SessionInv, PendingStaysValid, NoCollisions
  <1>2. ASSUME NEW f \in Feeds, NEW q \in Quotes[f], CloseBar(f, q)
        PROVE  SessionInv'
    BY <1>1, <1>2, CloseBarKeeps DEF SessionInv
  <1>3. ASSUME NEW o \in OrderIds, FillOrder(o)
        PROVE  SessionInv'
    BY <1>1, <1>3, FillOrderKeeps DEF SessionInv
  <1>4. CASE Decide
    <2>1. PICK out \in Outputs : Accepted(out) /\ pending' = out
      BY <1>4 DEF Decide
    <2>2. out \subseteq Intents
      BY DEF Intents
    <2>3. UNCHANGED <<history, book>>
      BY <1>4 DEF Decide
    <2>4. \A j \in out : Acceptable(j)' /\ Reserved(j)' = Reserved(j)
      BY <2>1, <2>2, <2>3, SameBook DEF Accepted
    <2>5. PendingStaysValid'
      BY <2>1, <2>4 DEF PendingStaysValid
    <2>6. NoCollisions(pending)'
      BY <2>1, <2>4 DEF Accepted, NoCollisions
    <2>7. QED BY <2>1, <2>2, <2>3, <2>5, <2>6, SameBook DEF SessionInv
  <1>5. ASSUME UNCHANGED <<history, book>>, pending' \subseteq pending
        PROVE  SessionInv'
    <2>1. \A j \in pending' : Acceptable(j)' /\ Reserved(j)' = Reserved(j)
      BY <1>5, SameBook DEF SessionInv, PendingStaysValid
    <2>2. PendingStaysValid'
      BY <2>1 DEF PendingStaysValid
    <2>3. NoCollisions(pending)'
      BY <1>5, <2>1 DEF SessionInv, NoCollisions
    <2>4. QED BY <1>5, <2>2, <2>3, SameBook DEF SessionInv
  <1>6. CASE RefuseContext
    BY <1>5, <1>6 DEF RefuseContext
  <1>7. ASSUME NEW i \in Intents, Execute(i) \/ Reject(i)
        PROVE  SessionInv'
    <2>1. CASE Execute(i)
      BY <2>1, ExecuteKeeps
    <2>2. CASE Reject(i)
      BY <1>5, <2>2 DEF Reject, Done
    <2>3. QED BY <1>7, <2>1, <2>2
  <1>8. CASE UNCHANGED vars
    <2>1. /\ history' = history /\ positions' = positions /\ orders' = orders
          /\ groups' = groups /\ plans' = plans /\ pending' = pending
      BY <1>8 DEF vars
    <2>2. UNCHANGED <<history, book>>
      BY <2>1 DEF book
    <2>3. pending' \subseteq pending
      BY <2>1
    <2>4. QED BY <1>5, <2>2, <2>3
  <1>9. QED BY <1>2, <1>3, <1>4, <1>6, <1>7, <1>8 DEF Next

(* The book stays consistent and the accepted intents stay acceptable and   *)
(* disjoint, whatever bars, fills, rejections and intents come             *)
(* (validate_strategy_output).                                             *)
THEOREM SessionInvariant == Spec => []SessionInv
<1>1. QED BY InitSession, NextKeepsSession, PTL DEF Spec

(* Every position and every pending order has exactly one stop at all times *)
(* (output.py, the protection rules of every intent).                      *)
THEOREM ProtectionIsBounded == Spec => []BoundedProtection
<1>1. SessionInv => BoundedProtection
  BY DEF SessionInv
<1>2. QED BY SessionInvariant, <1>1, PTL

(* What is accepted against one snapshot can be carried out in any order    *)
(* (output.py, the lifecycle targets of an output).                        *)
THEOREM AcceptedStaysAcceptable == Spec => []PendingStaysValid
<1>1. SessionInv => PendingStaysValid
  BY DEF SessionInv
<1>2. QED BY SessionInvariant, <1>1, PTL

-----------------------------------------------------------------------------
(* The second invariant: what is in the book was accepted once, and still  *)
(* is what the context validator demands.                                  *)

Sanctioned(exit) == exit # None => exit \in StrategyExits /\ Granted(exit)

OrderGood(ord, exit) ==
    /\ ord.symbol \in Symbols /\ ord.type \in OrderTypes /\ ord.filling \in Fillings
    /\ ord.entry \in Int /\ {ord.limit, ord.sl, ord.tp} \subseteq Prices
    /\ ord.time \in TimeEnum /\ ord.expires \in BOOLEAN
    /\ PendingOK(ord, ord.sl, ord.tp, ord.plan = None)
    /\ Sanctioned(exit)
    /\ NotDuplicated(ord, exit)
    /\ RelationsOK(exit, IsBuy(ord.type), Basis(ord), Basis(ord))

\* The relations of a position's plan that no quote can change.
PositionGood(pos, exit) ==
    /\ pos.symbol \in Symbols
    /\ \E type \in OrderTypes \ {"CLOSE_BY"} : pos.buy = IsBuy(type)
    /\ pos.price \in Int /\ {pos.sl, pos.tp} \subseteq Prices
    /\ Sanctioned(exit)
    /\ NotDuplicated(pos, exit)
    /\ Bracket(exit) # None => ProfitOK(pos.buy, pos.price, exit.bracket.tp)
    /\ exit # None => \E t : ExitDirectionOK(pos.buy, pos.price, exit, t)

BookGood ==
    /\ \A o \in DOMAIN orders :
          /\ OrderGood(orders[o], ExitIn(plans, "order", o))
          /\ Visible(orders[o].symbol) # {}
    /\ \A p \in DOMAIN positions :
          /\ PositionGood(positions[p], ExitIn(plans, "position", p))
          /\ Visible(positions[p].symbol) # {}

\* The stop of a bracket is not hit, unless a fill came after the quote.
StopAway(pos, exit, quote) == Bracket(exit) # None => StopOK(pos.buy, quote, exit.bracket.sl)

StopsAway ==
    \A p \in DOMAIN positions : positions[p].symbol \notin moved =>
        StopAway(positions[p], ExitIn(plans, "position", p),
                 ExitQuote(positions[p].symbol, positions[p].buy))

\* An order and its group name each other.
GroupsLinked ==
    /\ DOMAIN groups # {} => "PLATFORM_OCO" \in Capabilities
    /\ \A o \in DOMAIN orders : orders[o].group # None =>
          /\ orders[o].group \in DOMAIN groups
          /\ \E l \in DOMAIN groups[orders[o].group] : groups[orders[o].group][l].order = o
    /\ \A g \in DOMAIN groups : \A l \in DOMAIN groups[g] :
          /\ groups[g][l].order \in DOMAIN orders
          /\ orders[groups[g][l].order].group = g
          /\ orders[groups[g][l].order].plan = groups[g][l].plan

IdsOK ==
    DOMAIN positions \subseteq PositionIds /\ DOMAIN orders \subseteq OrderIds
    /\ DOMAIN groups \subseteq GroupIds

\* One subscription of a visible symbol has its latest bar.
LatestOK ==
    \A s : Visible(s) # {} =>
        \E f \in Visible(s) :
            /\ history[f].latest
            /\ \A g \in Visible(s) :
                  /\ history[g].latest => g = f
                  /\ history[g].age = 0 => history[f].age = 0 /\ Period[g] <= Period[f]

MarketOK ==
    /\ history \in [Feeds -> [bars : Nat, age : Nat, bid : Int, ask : Int, latest : BOOLEAN]]
    /\ \A f \in Feeds : history[f].bars > 0 =>
          \E q \in Quotes[f] : history[f].bid = q.bid /\ history[f].ask = q.ask
    /\ LatestOK
    /\ event \in Triggers \union {None}
    /\ event # None => history[event].bars > 0
    /\ moved \subseteq Symbols

-----------------------------------------------------------------------------
(* Bars.                                                                   *)

LEMMA LatestIs ==
  ASSUME NEW s, NEW f
  PROVE  /\ LatestOK /\ f \in Visible(s) /\ history[f].latest => Latest(s) = history[f]
         /\ LatestOK' /\ f \in Visible(s)' /\ history'[f].latest => Latest(s)' = history'[f]
  BY DEF LatestOK, Latest

LEMMA FeedTypes ==
  ASSUME NEW f \in Feeds
  PROVE  /\ Period[f] \in Nat /\ Period[f] >= 1 /\ Warmup[f] \in Nat
         /\ \A q \in Quotes[f] : q.bid \in Int /\ q.ask \in Int
  BY TypesAssumption

\* What a bar that closes t after the last one writes.
BarWritten(f, q, t, newest) ==
    /\ history'[f].age = 0 /\ history'[f].latest = newest
    /\ history'[f].bars \in Nat /\ history'[f].bars > 0
    /\ history'[f].bid = q.bid /\ history'[f].ask = q.ask
    /\ DOMAIN history'[f] = {"bars", "age", "bid", "ask", "latest"}
    /\ \A g \in Feeds : g # f =>
          /\ DOMAIN history'[g] = {"bars", "age", "bid", "ask", "latest"}
          /\ history'[g].bars = history[g].bars
          /\ history'[g].bid = history[g].bid /\ history'[g].ask = history[g].ask
          /\ history'[g].age \in Nat
          /\ history'[g].age = 0 <=> history[g].age + t = 0
          /\ history'[g].latest \in BOOLEAN
          /\ history'[g].latest <=> history[g].latest /\ ~(Traded[g] = Traded[f] /\ newest)
    /\ \A s : Visible(s)' = Visible(s) \union (IF s = Traded[f] THEN {f} ELSE {})

LEMMA CappedIs ==
  ASSUME NEW n \in Nat, NEW bound \in Nat, bound >= 1
  PROVE  Capped(n, bound) \in Nat /\ (Capped(n, bound) = 0 <=> n = 0)
  BY DEF Capped

LEMMA NeededIs ==
  ASSUME NEW f \in Feeds, NEW n \in Nat
  PROVE  Capped(n + 1, Needed(f)) \in Nat /\ Capped(n + 1, Needed(f)) > 0
  BY FeedTypes DEF Capped, Needed

LEMMA AgeGrows ==
  ASSUME NEW g \in Feeds, NEW n \in Nat, NEW t \in {0, 1}
  PROVE  Capped(n + t, Period[g]) \in Nat /\ (Capped(n + t, Period[g]) = 0 <=> n + t = 0)
  <1>1. n + t \in Nat
    OBVIOUS
  <1>2. QED BY <1>1, FeedTypes, CappedIs

LEMMA BarWrites ==
  ASSUME MarketOK, NEW f \in Feeds, NEW q, NEW t \in {0, 1}, NEW newest \in BOOLEAN,
         history' = [g \in Feeds |->
            IF g = f
            THEN [bars |-> Capped(history[f].bars + 1, Needed(f)), age |-> 0,
                  bid |-> q.bid, ask |-> q.ask, latest |-> newest]
            ELSE [history[g] EXCEPT
                  !.age = Capped(@ + t, Period[g]),
                  !.latest = @ /\ ~(Traded[g] = Traded[f] /\ newest)]]
  PROVE  BarWritten(f, q, t, newest)
  <1>1. \A g \in Feeds :
           /\ DOMAIN history[g] = {"bars", "age", "bid", "ask", "latest"}
           /\ history[g].bars \in Nat /\ history[g].age \in Nat /\ history[g].latest \in BOOLEAN
    BY DEF MarketOK
  <1>2. /\ history'[f] = [bars |-> Capped(history[f].bars + 1, Needed(f)), age |-> 0,
                          bid |-> q.bid, ask |-> q.ask, latest |-> newest]
        /\ Capped(history[f].bars + 1, Needed(f)) \in Nat
        /\ Capped(history[f].bars + 1, Needed(f)) > 0
    <2>1. history[f].bars \in Nat
      BY <1>1
    <2>2. QED BY <2>1, NeededIs
  <1>3. ASSUME NEW g \in Feeds, g # f
        PROVE  /\ DOMAIN history'[g] = {"bars", "age", "bid", "ask", "latest"}
               /\ history'[g].bars = history[g].bars
               /\ history'[g].bid = history[g].bid /\ history'[g].ask = history[g].ask
               /\ history'[g].age = Capped(history[g].age + t, Period[g])
               /\ history'[g].latest = (history[g].latest /\ ~(Traded[g] = Traded[f] /\ newest))
    BY <1>1, <1>3
  <1>4. ASSUME NEW g \in Feeds, g # f
        PROVE  /\ history'[g].age \in Nat
               /\ history'[g].age = 0 <=> history[g].age + t = 0
    <2>1. history[g].age \in Nat
      BY <1>1
    <2>2. QED BY <2>1, <1>3, <1>4, AgeGrows
  <1>5. /\ history'[f].age = 0 /\ history'[f].latest = newest
        /\ history'[f].bars \in Nat /\ history'[f].bars > 0
        /\ history'[f].bid = q.bid /\ history'[f].ask = q.ask
        /\ DOMAIN history'[f] = {"bars", "age", "bid", "ask", "latest"}
    BY <1>2
  <1>6. \A s : Visible(s)' = Visible(s) \union (IF s = Traded[f] THEN {f} ELSE {})
    BY <1>3, <1>5 DEF Visible
  <1>7. QED BY <1>1, <1>3, <1>4, <1>5, <1>6 DEF BarWritten

LEMMA LatestAfterBar ==
  ASSUME MarketOK, NEW f \in Feeds, NEW q, NEW t \in {0, 1},
         history[f].age + t >= Period[f], BarWritten(f, q, t, BecomesLatest(f, t))
  PROVE  /\ LatestOK'
         /\ \A s : \/ /\ s = Traded[f] /\ BecomesLatest(f, t)
                      /\ Latest(s)'.bid = q.bid /\ Latest(s)'.ask = q.ask
                   \/ /\ ~(s = Traded[f] /\ BecomesLatest(f, t))
                      /\ Visible(s) # {} =>
                            Latest(s)'.bid = Latest(s).bid /\ Latest(s)'.ask = Latest(s).ask
  <1> DEFINE newest == BecomesLatest(f, t)
  <1>1. /\ \A g \in Feeds : history[g].age \in Nat /\ history[g].latest \in BOOLEAN
        /\ LatestOK
    BY DEF MarketOK
  <1>2. \A s : /\ Visible(s) = {g \in Feeds : Traded[g] = s /\ history[g].bars > 0}
               /\ Visible(s)' = Visible(s) \union (IF s = Traded[f] THEN {f} ELSE {})
    BY DEF BarWritten, Visible
  <1>3. newest <=> \A g \in Visible(Traded[f]) : history[g].age + t = 0 => Period[g] <= Period[f]
    BY DEF BecomesLatest
  <1>4. /\ history'[f].age = 0 /\ history'[f].latest = newest
        /\ history'[f].bid = q.bid /\ history'[f].ask = q.ask
        /\ \A g \in Feeds : g # f =>
              /\ history'[g].bid = history[g].bid /\ history'[g].ask = history[g].ask
              /\ history'[g].age = 0 <=> history[g].age + t = 0
              /\ history'[g].latest <=> history[g].latest /\ ~(Traded[g] = Traded[f] /\ newest)
    BY DEF BarWritten
  <1>5. \A g \in Feeds : Period[g] \in Nat /\ Period[g] >= 1
    BY FeedTypes
  <1> HIDE DEF newest
  \* The subscription l has the latest bar of s after the step.
  <1> DEFINE Leads(s, l) ==
               /\ l \in Visible(s)' /\ history'[l].latest
               /\ \A g \in Visible(s)' :
                     /\ history'[g].latest => g = l
                     /\ history'[g].age = 0 => history'[l].age = 0 /\ Period[g] <= Period[l]
  <1>6. ASSUME NEW s, s = Traded[f], newest PROVE Leads(s, f)
    BY <1>2, <1>3, <1>4, <1>5, <1>6
  <1>7. ASSUME NEW s, ~(s = Traded[f] /\ newest), Visible(s)' # {}
        PROVE  /\ Visible(s) # {}
               /\ \E l \in Visible(s) : l # f /\ history[l].latest /\ Leads(s, l)
    <2>1. CASE s = Traded[f]
      <3>1. PICK g \in Visible(s) : history[g].age + t = 0 /\ ~(Period[g] <= Period[f])
        BY <1>3, <1>7, <2>1
      <3>2. t = 0 /\ history[g].age = 0 /\ g \in Feeds
        BY <1>1, <1>2, <3>1
      <3>3. PICK l \in Visible(s) :
               /\ history[l].latest
               /\ \A k \in Visible(s) :
                     /\ history[k].latest => k = l
                     /\ history[k].age = 0 => history[l].age = 0 /\ Period[k] <= Period[l]
        BY <3>1, <1>1 DEF LatestOK
      <3>4. history[l].age = 0 /\ Period[g] <= Period[l] /\ l \in Feeds
        BY <3>1, <3>2, <3>3, <1>2
      <3>5. l # f
        BY <3>2, <3>4, <1>5
      <3>6. history'[l].latest /\ history'[l].age = 0 /\ ~newest
        BY <1>4, <1>7, <2>1, <3>2, <3>3, <3>4, <3>5
      <3>7. Period[f] <= Period[l]
        BY <3>1, <3>2, <3>4, <1>5
      <3>8. Leads(s, l)
        <4>1. ASSUME NEW k \in Visible(s)'
              PROVE  /\ history'[k].latest => k = l
                     /\ history'[k].age = 0 => Period[k] <= Period[l]
          <5>1. CASE k = f
            BY <1>4, <5>1, <3>6, <3>7
          <5>2. CASE k # f
            <6>1. k \in Visible(s) /\ k \in Feeds
              BY <1>2, <4>1, <5>2, <2>1
            <6>2. history'[k].latest => history[k].latest
              BY <1>4, <5>2, <6>1
            <6>3. history'[k].age = 0 => history[k].age = 0
              BY <1>1, <1>4, <3>2, <5>2, <6>1
            <6>4. QED BY <3>3, <6>1, <6>2, <6>3
          <5>3. QED BY <5>1, <5>2
        <4>2. l \in Visible(s)'
          BY <1>2
        <4>3. QED BY <3>6, <4>1, <4>2
      <3>9. QED BY <3>3, <3>5, <3>8
    <2>2. CASE s # Traded[f]
      <3>1. Visible(s)' = Visible(s) /\ \A g \in Visible(s) : g \in Feeds /\ g # f /\ Traded[g] # Traded[f]
        BY <1>2, <2>2
      <3>2. PICK l \in Visible(s) :
               /\ history[l].latest
               /\ \A k \in Visible(s) :
                     /\ history[k].latest => k = l
                     /\ history[k].age = 0 => history[l].age = 0 /\ Period[k] <= Period[l]
        BY <3>1, <1>1, <1>7 DEF LatestOK
      <3>3. Leads(s, l)
        BY <1>1, <1>4, <3>1, <3>2
      <3>4. QED BY <3>1, <3>2, <3>3
    <2>3. QED BY <2>1, <2>2
  <1>8. LatestOK'
    BY <1>6, <1>7 DEF LatestOK
  <1>9. ASSUME NEW s, s = Traded[f], newest
        PROVE  Latest(s)'.bid = q.bid /\ Latest(s)'.ask = q.ask
    <2>1. Latest(s)' = history'[f]
      BY <1>6, <1>8, <1>9, LatestIs
    <2>2. QED BY <2>1, <1>4
  <1>10. ASSUME NEW s, ~(s = Traded[f] /\ newest), Visible(s) # {}
         PROVE  Latest(s)'.bid = Latest(s).bid /\ Latest(s)'.ask = Latest(s).ask
    <2>1. PICK l \in Visible(s) : l # f /\ history[l].latest /\ Leads(s, l)
      BY <1>2, <1>7, <1>10
    <2>2. Latest(s) = history[l] /\ Latest(s)' = history'[l]
      BY <1>1, <1>8, <2>1, LatestIs
    <2>3. QED BY <1>2, <1>4, <2>1, <2>2
  <1>11. QED BY <1>8, <1>9, <1>10 DEF newest

LEMMA BarMarket ==
  ASSUME MarketOK, NEW f \in Feeds, NEW q \in Quotes[f], CloseBar(f, q)
  PROVE  /\ MarketOK'
         /\ \A s : Visible(s) # {} => Visible(s)' # {}
         /\ \A s : s \notin moved' =>
               \/ s = Traded[f] /\ Latest(s)'.bid = q.bid /\ Latest(s)'.ask = q.ask
               \/ /\ s \notin moved
                  /\ Visible(s) # {} =>
                        Latest(s)'.bid = Latest(s).bid /\ Latest(s)'.ask = Latest(s).ask
  <1>1. PICK t \in {0, 1} :
          /\ history[f].age + t >= Period[f]
          /\ history' = [g \in Feeds |->
                IF g = f
                THEN [bars |-> Capped(history[f].bars + 1, Needed(f)), age |-> 0,
                      bid |-> q.bid, ask |-> q.ask, latest |-> BecomesLatest(f, t)]
                ELSE [history[g] EXCEPT
                      !.age = Capped(@ + t, Period[g]),
                      !.latest = @ /\ ~(Traded[g] = Traded[f] /\ BecomesLatest(f, t))]]
          /\ moved' = IF BecomesLatest(f, t) THEN moved \ {Traded[f]} ELSE moved
    BY DEF CloseBar
  <1>2. BecomesLatest(f, t) \in BOOLEAN
    BY DEF BecomesLatest
  <1>3. BarWritten(f, q, t, BecomesLatest(f, t))
    BY <1>1, <1>2, BarWrites
  <1>4. /\ LatestOK'
        /\ \A s : \/ /\ s = Traded[f] /\ BecomesLatest(f, t)
                     /\ Latest(s)'.bid = q.bid /\ Latest(s)'.ask = q.ask
                  \/ /\ ~(s = Traded[f] /\ BecomesLatest(f, t))
                     /\ Visible(s) # {} =>
                           Latest(s)'.bid = Latest(s).bid /\ Latest(s)'.ask = Latest(s).ask
    <2>1. history[f].age + t >= Period[f]
      BY <1>1
    <2>2. QED BY <2>1, <1>3, LatestAfterBar
  <1>5. \A s : Visible(s) # {} => Visible(s)' # {}
    BY <1>3 DEF BarWritten
  <1>6. \A g \in Feeds : /\ DOMAIN history[g] = {"bars", "age", "bid", "ask", "latest"}
                         /\ history[g].bars \in Nat /\ history[g].bid \in Int /\ history[g].ask \in Int
                         /\ history[g].bars > 0 =>
                               \E r \in Quotes[g] : history[g].bid = r.bid /\ history[g].ask = r.ask
    BY DEF MarketOK
  <1>7. ASSUME NEW g \in Feeds
        PROVE  /\ history'[g] \in [bars : Nat, age : Nat, bid : Int, ask : Int, latest : BOOLEAN]
               /\ history'[g].bars > 0 =>
                     \E r \in Quotes[g] : history'[g].bid = r.bid /\ history'[g].ask = r.ask
    <2>1. /\ DOMAIN history'[g] = {"bars", "age", "bid", "ask", "latest"}
          /\ history'[g].bars \in Nat /\ history'[g].age \in Nat
          /\ history'[g].bid \in Int /\ history'[g].ask \in Int /\ history'[g].latest \in BOOLEAN
      BY <1>2, <1>3, <1>6, FeedTypes DEF BarWritten
    <2>2. history'[g].bars > 0 =>
             \E r \in Quotes[g] : history'[g].bid = r.bid /\ history'[g].ask = r.ask
      BY <1>3, <1>6 DEF BarWritten
    <2>3. \E b, a, x, y, z :
             history'[g] = [bars |-> b, age |-> a, bid |-> x, ask |-> y, latest |-> z]
      <3>1. CASE g = f
        BY <1>1, <3>1
      <3>2. CASE g # f
        <4>1. history'[g] = [bars |-> history'[g].bars, age |-> history'[g].age,
                             bid |-> history'[g].bid, ask |-> history'[g].ask,
                             latest |-> history'[g].latest]
          BY <1>1, <3>2, <1>6
        <4>2. QED BY <4>1
      <3>3. QED BY <3>1, <3>2
    <2>4. QED BY <2>1, <2>2, <2>3
  <1>8. history' \in [Feeds -> [bars : Nat, age : Nat, bid : Int, ask : Int, latest : BOOLEAN]]
    BY <1>1, <1>7
  <1>9. event' \in Triggers \union {None} /\ (event' # None => history'[event'].bars > 0)
    BY <1>3 DEF CloseBar, BarWritten
  <1>10. MarketOK'
    BY <1>1, <1>4, <1>7, <1>8, <1>9 DEF MarketOK
  <1>11. ASSUME NEW s, s \notin moved'
         PROVE  \/ s = Traded[f] /\ Latest(s)'.bid = q.bid /\ Latest(s)'.ask = q.ask
                \/ /\ s \notin moved
                   /\ Visible(s) # {} =>
                         Latest(s)'.bid = Latest(s).bid /\ Latest(s)'.ask = Latest(s).ask
    BY <1>1, <1>4, <1>11
  <1>12. QED BY <1>5, <1>10, <1>11

LEMMA QuietMarket ==
  ASSUME MarketOK, UNCHANGED history, event' \in {event, None}, moved' \subseteq Symbols
  PROVE  MarketOK'
  <1>1. \A s : Visible(s)' = Visible(s)
    BY DEF Visible
  <1>2. LatestOK'
    BY <1>1 DEF MarketOK, LatestOK
  <1>3. QED BY <1>2 DEF MarketOK

\* The latest bar shows a quote that its subscription may close with.
LEMMA LatestQuote ==
  ASSUME MarketOK, NEW s, Visible(s) # {}
  PROVE  \E f \in Feeds : \E q \in Quotes[f] : Latest(s).bid = q.bid /\ Latest(s).ask = q.ask
  <1>1. PICK f \in Visible(s) : history[f].latest
    BY DEF MarketOK, LatestOK
  <1>2. Latest(s) = history[f]
    BY <1>1, LatestIs DEF MarketOK
  <1>3. f \in Feeds /\ history[f].bars > 0
    BY DEF Visible
  <1>4. QED BY <1>2, <1>3 DEF MarketOK

-----------------------------------------------------------------------------
(* What stays good: a target that a step leaves alone.                     *)

LEMMA OrderGoodAlike ==
  ASSUME NEW a, NEW b, NEW exit, Alike(a, b), OrderGood(b, exit)
  PROVE  OrderGood(a, exit)
  BY DEF Alike, OrderGood, PendingOK, StopLimitOK, ExpirationOK, Basis, NotDuplicated

\* Targets of R, and new ones, have to be looked at.
Touched(kind, book0, t, R) == t \notin DOMAIN book0 \/ <<kind, t>> \in R

LEMMA OrdersStayGood ==
  ASSUME NEW R, Frame(R), BookSound, Unique(plans)', BookGood,
         \A s : Visible(s) # {} => Visible(s)' # {},
         \A o \in DOMAIN orders' : Touched("order", orders, o, R) =>
             OrderGood(orders'[o], ExitIn(plans', "order", o)) /\ Visible(orders[o].symbol)' # {}
  PROVE  \A o \in DOMAIN orders' :
             OrderGood(orders'[o], ExitIn(plans', "order", o)) /\ Visible(orders[o].symbol)' # {}
  <1> SUFFICES ASSUME NEW o \in DOMAIN orders', ~Touched("order", orders, o, R)
               PROVE  OrderGood(orders'[o], ExitIn(plans', "order", o))
                      /\ Visible(orders[o].symbol)' # {}
    OBVIOUS
  <1>1. o \in DOMAIN orders /\ <<"order", o>> \notin R
    BY DEF Touched
  <1>2. Alike(orders'[o], orders[o])
    BY <1>1, AlikeOrders
  <1>3. ExitIn(plans', "order", o) = ExitIn(plans, "order", o)
    BY <1>1, ExitStays DEF Exists
  <1>4. OrderGood(orders[o], ExitIn(plans, "order", o)) /\ Visible(orders[o].symbol) # {}
    BY <1>1 DEF BookGood
  <1>5. orders'[o].symbol = orders[o].symbol
    BY <1>2 DEF Alike
  <1>6. QED BY <1>2, <1>3, <1>4, <1>5, OrderGoodAlike

LEMMA PositionsStayGood ==
  ASSUME NEW R, Frame(R), BookSound, Unique(plans)', BookGood,
         \A s : Visible(s) # {} => Visible(s)' # {},
         \A p \in DOMAIN positions' : Touched("position", positions, p, R) =>
             /\ PositionGood(positions'[p], ExitIn(plans', "position", p))
             /\ Visible(positions[p].symbol)' # {}
  PROVE  \A p \in DOMAIN positions' :
             /\ PositionGood(positions'[p], ExitIn(plans', "position", p))
             /\ Visible(positions[p].symbol)' # {}
  <1> SUFFICES ASSUME NEW p \in DOMAIN positions', ~Touched("position", positions, p, R)
               PROVE  /\ PositionGood(positions'[p], ExitIn(plans', "position", p))
                      /\ Visible(positions[p].symbol)' # {}
    OBVIOUS
  <1>1. p \in DOMAIN positions /\ <<"position", p>> \notin R
    BY DEF Touched
  <1>2. positions'[p] = positions[p]
    BY <1>1 DEF Frame, PositionsStay
  <1>3. ExitIn(plans', "position", p) = ExitIn(plans, "position", p)
    BY <1>1, ExitStays DEF Exists
  <1>4. /\ PositionGood(positions[p], ExitIn(plans, "position", p))
        /\ Visible(positions[p].symbol) # {}
    BY <1>1 DEF BookGood
  <1>5. QED BY <1>2, <1>3, <1>4

LEMMA BookStaysGood ==
  ASSUME NEW R, Frame(R), BookSound, Unique(plans)', BookGood,
         \A s : Visible(s) # {} => Visible(s)' # {},
         \A o \in DOMAIN orders' : Touched("order", orders, o, R) =>
             OrderGood(orders'[o], ExitIn(plans', "order", o)) /\ Visible(orders[o].symbol)' # {},
         \A p \in DOMAIN positions' : Touched("position", positions, p, R) =>
             /\ PositionGood(positions'[p], ExitIn(plans', "position", p))
             /\ Visible(positions[p].symbol)' # {}
  PROVE  BookGood'
  BY OrdersStayGood, PositionsStayGood DEF BookGood

\* A position that is safe at the quotes of now, if no fill came since.
SafeNow(pos, exit, since) ==
    /\ PositionGood(pos, exit)
    /\ Visible(pos.symbol) # {}
    /\ pos.symbol \notin since => StopAway(pos, exit, ExitQuote(pos.symbol, pos.buy))

LEMMA QuietStaysGood ==
  ASSUME NEW R, Frame(R), BookSound, Unique(plans)', BookGood, StopsAway,
         UNCHANGED history, moved \subseteq moved',
         \A o \in DOMAIN orders' : Touched("order", orders, o, R) =>
             OrderGood(orders'[o], ExitIn(plans', "order", o)) /\ Visible(orders'[o].symbol) # {},
         \A p \in DOMAIN positions' : Touched("position", positions, p, R) =>
             SafeNow(positions'[p], ExitIn(plans', "position", p), moved')
  PROVE  BookGood' /\ StopsAway'
  <1>1. \A s : Visible(s)' = Visible(s)
    BY MarketStays
  <1>2. \A s, buy : ExitQuote(s, buy)' = ExitQuote(s, buy)
    BY MarketStays
  <1>3. BookGood'
    BY <1>1, BookStaysGood DEF SafeNow
  <1>4. ASSUME NEW p \in DOMAIN positions', positions'[p].symbol \notin moved'
        PROVE  StopAway(positions'[p], ExitIn(plans', "position", p),
                        ExitQuote(positions'[p].symbol, positions'[p].buy))
    <2>1. CASE Touched("position", positions, p, R)
      BY <1>4, <2>1 DEF SafeNow
    <2>2. CASE p \in DOMAIN positions /\ <<"position", p>> \notin R
      <3>1. positions'[p] = positions[p]
        BY <2>2 DEF Frame, PositionsStay
      <3>2. ExitIn(plans', "position", p) = ExitIn(plans, "position", p)
        BY <2>2, ExitStays DEF Exists
      <3>3. QED BY <1>4, <2>2, <3>1, <3>2 DEF StopsAway
    <2>3. QED BY <2>1, <2>2 DEF Touched
  <1>5. StopsAway'
    BY <1>2, <1>4 DEF StopsAway
  <1>6. QED BY <1>3, <1>5

-----------------------------------------------------------------------------
(* Bars, closings and cancellations take targets away and add none.        *)

LEMMA DroppedPositions ==
  ASSUME NEW S, BookSound, BoundedProtection, DropPositions(S), UNCHANGED <<orders, groups>>
  PROVE  /\ Frame(Named("position", S)) /\ Unique(plans)' /\ BookSound'
         /\ DOMAIN positions' = DOMAIN positions \ S
         /\ \A p \in DOMAIN positions' :
               /\ positions'[p] = positions[p]
               /\ ~Touched("position", positions, p, Named("position", S))
         /\ \A o \in DOMAIN orders' : ~Touched("order", orders, o, Named("position", S))
  <1>1. Frame(Named("position", S)) /\ BookSound'
    BY DropPositionsKeeps DEF Keeps
  <1>2. /\ DOMAIN positions' = DOMAIN positions \ S
        /\ \A p \in DOMAIN positions \ S : positions'[p] = positions[p]
    BY DEF DropPositions, Without, Restrict
  <1>3. /\ \A p \in DOMAIN positions' : ~Touched("position", positions, p, Named("position", S))
        /\ \A o \in DOMAIN orders' : ~Touched("order", orders, o, Named("position", S))
    BY <1>2 DEF Touched, Named
  <1>4. QED BY <1>1, <1>2, <1>3 DEF BookSound, PlansSound

LEMMA DroppedOrders ==
  ASSUME NEW S, BookSound, BoundedProtection, DropOrders(S), UNCHANGED positions
  PROVE  /\ Frame(Named("order", S)) /\ Unique(plans)' /\ BookSound'
         /\ \A o \in DOMAIN orders' : ~Touched("order", orders, o, Named("order", S))
         /\ \A p \in DOMAIN positions' : ~Touched("position", positions, p, Named("order", S))
  <1>1. Frame(Named("order", S)) /\ BookSound'
    BY DropOrdersKeeps DEF Keeps
  <1>2. DOMAIN orders' = DOMAIN orders \ S
    BY DEF DropOrders, OrdersMinus
  <1>3. /\ \A o \in DOMAIN orders' : ~Touched("order", orders, o, Named("order", S))
        /\ \A p \in DOMAIN positions' : ~Touched("position", positions, p, Named("order", S))
    BY <1>2 DEF Touched, Named
  <1>4. QED BY <1>1, <1>3 DEF BookSound, PlansSound

LEMMA DropPositionsGood ==
  ASSUME NEW S, BookSound, BoundedProtection, BookGood, StopsAway,
         DropPositions(S), UNCHANGED <<orders, groups, history, moved>>
  PROVE  BookGood' /\ StopsAway'
  BY DroppedPositions, QuietStaysGood

LEMMA DropOrdersGood ==
  ASSUME NEW S, BookSound, BoundedProtection, BookGood, StopsAway,
         DropOrders(S), UNCHANGED <<positions, history, moved>>
  PROVE  BookGood' /\ StopsAway'
  BY DroppedOrders, QuietStaysGood

\* A position that survives a bar is not beyond its stop.
LEMMA NotHit ==
  ASSUME NEW p \in DOMAIN positions, NEW q, p \notin Hit(positions[p].symbol, q)
  PROVE  StopAway(positions[p], ExitIn(plans, "position", p),
                  IF positions[p].buy THEN q.bid ELSE q.ask)
  BY ExitForIn DEF Hit, StopNow, StopOf, StopAway

LEMMA CloseBarGood ==
  ASSUME BookSound, BoundedProtection, BookGood, StopsAway, MarketOK,
         NEW f \in Feeds, NEW q \in Quotes[f], CloseBar(f, q)
  PROVE  BookGood' /\ StopsAway'
  <1> DEFINE S == Hit(Traded[f], q)
  <1>1. DropPositions(S) /\ UNCHANGED <<orders, groups>>
    BY DEF CloseBar
  <1> HIDE DEF S
  <1>2. /\ Frame(Named("position", S)) /\ Unique(plans)'
        /\ DOMAIN positions' = DOMAIN positions \ S
        /\ \A p \in DOMAIN positions' :
               /\ positions'[p] = positions[p]
               /\ ~Touched("position", positions, p, Named("position", S))
        /\ \A o \in DOMAIN orders' : ~Touched("order", orders, o, Named("position", S))
    BY <1>1, DroppedPositions
  <1>3. /\ \A s : Visible(s) # {} => Visible(s)' # {}
        /\ \A s : s \notin moved' =>
               \/ s = Traded[f] /\ Latest(s)'.bid = q.bid /\ Latest(s)'.ask = q.ask
               \/ /\ s \notin moved
                  /\ Visible(s) # {} =>
                        Latest(s)'.bid = Latest(s).bid /\ Latest(s)'.ask = Latest(s).ask
    BY BarMarket
  <1>4. BookGood'
    BY <1>2, <1>3, BookStaysGood
  <1>5. ASSUME NEW p \in DOMAIN positions', positions[p].symbol \notin moved',
               NEW s, s = positions[p].symbol, NEW b, b = positions[p].buy
        PROVE  StopAway(positions[p], ExitIn(plans', "position", p), ExitQuote(s, b)')
    <2>1. p \in DOMAIN positions /\ <<"position", p>> \notin Named("position", S) /\ p \notin S
      BY <1>2 DEF Touched
    <2>2. ExitIn(plans', "position", p) = ExitIn(plans, "position", p)
      BY <1>2, <2>1, ExitStays DEF Exists
    <2>3. CASE s = Traded[f] /\ Latest(s)'.bid = q.bid /\ Latest(s)'.ask = q.ask
      <3>1. StopAway(positions[p], ExitIn(plans, "position", p),
                     IF positions[p].buy THEN q.bid ELSE q.ask)
        BY <1>5, <2>1, <2>3, NotHit DEF S
      <3>2. ExitQuote(s, b)' = IF b THEN q.bid ELSE q.ask
        BY <2>3 DEF ExitQuote
      <3>3. QED BY <1>5, <2>2, <3>1, <3>2
    <2>4. CASE /\ s \notin moved
               /\ Visible(s) # {} =>
                     Latest(s)'.bid = Latest(s).bid /\ Latest(s)'.ask = Latest(s).ask
      <3>1. Visible(s) # {}
        BY <1>5, <2>1 DEF BookGood
      <3>2. StopAway(positions[p], ExitIn(plans, "position", p), ExitQuote(s, positions[p].buy))
        BY <1>5, <2>1, <2>4 DEF StopsAway
      <3>3. ExitQuote(s, b)' = ExitQuote(s, b)
        BY <2>4, <3>1 DEF ExitQuote
      <3>4. QED BY <1>5, <2>2, <3>2, <3>3
    <2>5. QED BY <1>3, <1>5, <2>3, <2>4
  <1>6. StopsAway'
    BY <1>2, <1>5 DEF StopsAway
  <1>7. QED BY <1>4, <1>6

-----------------------------------------------------------------------------
(* What acceptance gives.                                                  *)

LEMMA RelationsGive ==
  ASSUME NEW x, NEW buy, NEW basis, NEW quote, RelationsOK(x, buy, basis, quote), quote # None
  PROVE  /\ Bracket(x) # None =>
               StopOK(buy, quote, x.bracket.sl) /\ ProfitOK(buy, basis, x.bracket.tp)
         /\ x # None => ExitDirectionOK(buy, basis, x, quote)
  BY DEF RelationsOK, BracketOK, Bracket

LEMMA QuotesAreInt ==
  ASSUME MarketOK, NEW s, Visible(s) # {}, NEW buy
  PROVE  /\ EntryBasis(s, buy) \in Int /\ EntryBasis(s, buy) # None
         /\ ExitQuote(s, buy) \in Int /\ ExitQuote(s, buy) # None
         /\ ExitBasis(s, buy) = ExitQuote(s, buy)
  <1>1. Latest(s).bid \in Int /\ Latest(s).ask \in Int
    BY LatestQuote, FeedTypes
  <1>2. QED BY <1>1, TypesAssumption DEF EntryBasis, ExitQuote, ExitBasis

LEMMA IntentsAreTyped ==
  ASSUME NEW i \in Intents
  PROVE  /\ i.kind = "place_order" => TypedOrder(i)
         /\ i.kind \in {"place_oco", "modify_oco"} =>
               \A l \in DOMAIN i.legs : TypedOrder(i.legs[l]) /\ i.legs[l].entry # None
         /\ i.kind = "modify_order" =>
               /\ {i.entry, i.limit, i.sl, i.tp} \subseteq Prices
               /\ i.time \in TimeEnum \union {None}
               /\ {i.expires, i.clearProfit, i.clearExpiration} \subseteq BOOLEAN
         /\ i.kind = "protect_position" => {i.sl, i.tp} \subseteq Prices
  <1>1. Typed(i)
    BY TypesAssumption
  <1>2. QED BY <1>1 DEF Typed

LEMMA ExitsAreSanctioned ==
  ASSUME NEW i \in Intents
  PROVE  /\ i.kind \in {"place_order", "protect_position", "modify_plan"} =>
               i.exit \in StrategyExits
         /\ i.kind \in {"place_oco", "modify_oco"} =>
               \A l \in DOMAIN i.legs : i.legs[l].exit \in StrategyExits
  <1>1. \A x \in ExitsOf(i) : x \in StrategyExits
    BY DEF StrategyExits
  <1>2. QED BY <1>1 DEF ExitsOf

LEMMA BasisIsInt ==
  ASSUME NEW o, o.entry \in Int, o.limit \in Prices, StopLimitOK(o)
  PROVE  Basis(o) \in Int /\ Basis(o) # None
  BY TypesAssumption DEF Basis, StopLimitOK, Prices

\* A well-formed and accepted pending entry becomes a good order.
LEMMA EntryGood ==
  ASSUME NEW i, TypedOrder(i), i.entry # None, Declared(i), NotDuplicated(i, i.exit),
         PendingOK(i, StopOf(i, i.exit), ProfitOf(i, i.exit), TRUE),
         RelationsOK(i.exit, IsBuy(i.type), Basis(i), Basis(i)),
         i.exit \in StrategyExits, NEW x, x = None <=> i.exit = None, NEW g
  PROVE  OrderGood(OrderFrom(i, x, g), i.exit)
  <1> DEFINE ord == OrderFrom(i, x, g)
  <1>1. /\ ord.symbol = i.symbol /\ ord.type = i.type /\ ord.entry = i.entry
        /\ ord.limit = i.limit /\ ord.sl = i.sl /\ ord.tp = i.tp /\ ord.filling = i.filling
        /\ ord.time = i.time /\ ord.expires = i.expires /\ ord.plan = x
    BY DEF OrderFrom
  <1> HIDE DEF ord
  <1>2. Basis(ord) = Basis(i)
    BY <1>1 DEF Basis
  <1>3. DirectionalOK(IsBuy(i.type), Basis(i), i.sl, i.tp) /\ (x = None => i.sl # None)
    BY DEF PendingOK, NotDuplicated, StopOf, ProfitOf, Bracket, DirectionalOK, StopOK, ProfitOK
  <1>4. PendingOK(ord, ord.sl, ord.tp, ord.plan = None)
    BY <1>1, <1>2, <1>3 DEF PendingOK, StopLimitOK, ExpirationOK
  <1>5. Sanctioned(i.exit) /\ NotDuplicated(ord, i.exit)
    BY <1>1 DEF Sanctioned, Declared, NotDuplicated
  <1>6. i.entry \in Int
    BY DEF TypedOrder, Prices
  <1>7. QED BY <1>1, <1>2, <1>4, <1>5, <1>6 DEF OrderGood, TypedOrder, Declared, ord

\* A good order becomes a good position when it is filled.
LEMMA FilledGood ==
  ASSUME NEW ord, NEW x, OrderGood(ord, x)
  PROVE  PositionGood(PositionAt(ord, Basis(ord)), x)
  <1> DEFINE pos == PositionAt(ord, Basis(ord))
  <1>1. /\ pos.symbol = ord.symbol /\ pos.buy = IsBuy(ord.type) /\ pos.price = Basis(ord)
        /\ pos.sl = ord.sl /\ pos.tp = ord.tp
    BY DEF PositionAt
  <1> HIDE DEF pos
  <1>2. Basis(ord) \in Int /\ Basis(ord) # None
    BY BasisIsInt DEF OrderGood, PendingOK
  <1>3. RelationsOK(x, IsBuy(ord.type), Basis(ord), Basis(ord))
    BY DEF OrderGood
  <1>4. /\ Bracket(x) # None => ProfitOK(IsBuy(ord.type), Basis(ord), x.bracket.tp)
        /\ x # None => ExitDirectionOK(IsBuy(ord.type), Basis(ord), x, Basis(ord))
    BY <1>2, <1>3, RelationsGive
  <1>5. ord.type \in OrderTypes \ {"CLOSE_BY"}
    BY DEF OrderGood, PendingOK, PendingTypes, BocTypes, StopLimitTypes
  <1>6. Sanctioned(x) /\ NotDuplicated(pos, x) /\ ord.symbol \in Symbols /\ {ord.sl, ord.tp} \subseteq Prices
    BY <1>1 DEF OrderGood, NotDuplicated
  <1>7. QED BY <1>1, <1>2, <1>4, <1>5, <1>6 DEF PositionGood, pos

\* A plan that is accepted for a position at the quotes of now.
LEMMA PlannedSafe ==
  ASSUME MarketOK, NEW pos, pos.symbol \in Symbols, Visible(pos.symbol) # {},
         \E type \in OrderTypes \ {"CLOSE_BY"} : pos.buy = IsBuy(type),
         pos.price \in Int, {pos.sl, pos.tp} \subseteq Prices,
         NEW x, Sanctioned(x), NotDuplicated(pos, x),
         RelationsOK(x, pos.buy, pos.price, ExitBasis(pos.symbol, pos.buy)), NEW since
  PROVE  SafeNow(pos, x, since)
  <1>1. /\ ExitBasis(pos.symbol, pos.buy) = ExitQuote(pos.symbol, pos.buy)
        /\ ExitBasis(pos.symbol, pos.buy) # None
    BY QuotesAreInt
  <1>2. /\ Bracket(x) # None =>
              /\ StopOK(pos.buy, ExitQuote(pos.symbol, pos.buy), x.bracket.sl)
              /\ ProfitOK(pos.buy, pos.price, x.bracket.tp)
        /\ x # None => ExitDirectionOK(pos.buy, pos.price, x, ExitQuote(pos.symbol, pos.buy))
    BY <1>1, RelationsGive
  <1>3. PositionGood(pos, x)
    BY <1>2 DEF PositionGood
  <1>4. QED BY <1>2, <1>3 DEF SafeNow, StopAway

-----------------------------------------------------------------------------
(* Fills and accepted intents leave good targets.                          *)

LEMMA FillOrderGood ==
  ASSUME BookSound, BoundedProtection, BookGood, StopsAway, NEW o, FillOrder(o)
  PROVE  BookGood' /\ StopsAway'
  <1>1. PICK S, p : Filled(o, S, p)
    BY FillOrderKeeps
  <1>2. /\ BookSound' /\ UNCHANGED history
        /\ moved' = moved \union {orders[o].symbol}
    BY FillOrderKeeps DEF FillOrder
  <1> DEFINE R == Named("order", S)
             pos == PositionAt(orders[o], Basis(orders[o]))
             x == ExitIn(plans, "order", o)
  <1>3. /\ Frame(R) /\ o \in DOMAIN orders /\ DOMAIN orders' = DOMAIN orders \ S
        /\ DOMAIN positions' = DOMAIN positions \union {p} /\ positions'[p] = pos
        /\ ExitIn(plans', "position", p) = x
    BY <1>1 DEF Filled, With
  <1>4. /\ OrderGood(orders[o], x) /\ Visible(orders[o].symbol) # {}
    BY <1>3 DEF BookGood
  <1>5. PositionGood(pos, x) /\ pos.symbol = orders[o].symbol
    BY <1>4, FilledGood DEF PositionAt
  <1>6. SafeNow(pos, x, moved')
    BY <1>2, <1>4, <1>5 DEF SafeNow
  <1>7. ASSUME NEW k \in DOMAIN positions', Touched("position", positions, k, R)
        PROVE  SafeNow(positions'[k], ExitIn(plans', "position", k), moved')
    <2>1. k = p
      BY <1>3, <1>7 DEF Touched, Named
    <2>2. QED BY <1>3, <1>6, <2>1
  <1>8. \A k \in DOMAIN orders' : ~Touched("order", orders, k, R)
    BY <1>3 DEF Touched, Named
  <1>9. Unique(plans)'
    BY <1>2 DEF BookSound, PlansSound
  <1> HIDE DEF R
  <1>10. moved \subseteq moved'
    BY <1>2
  <1>11. QED BY <1>2, <1>3, <1>7, <1>8, <1>9, <1>10, QuietStaysGood

\* A step of the platform that touches at most one position.
LEMMA OnePositionGood ==
  ASSUME BookSound, BookSound', BookGood, StopsAway, UNCHANGED <<history, moved>>,
         NEW p, Frame({<<"position", p>>}), DOMAIN orders' \subseteq DOMAIN orders,
         DOMAIN positions' \subseteq DOMAIN positions \union {p},
         p \in DOMAIN positions' => SafeNow(positions'[p], ExitIn(plans', "position", p), moved)
  PROVE  BookGood' /\ StopsAway'
  <1> DEFINE R == {<<"position", p>>}
  <1>1. ASSUME NEW k \in DOMAIN positions', Touched("position", positions, k, R)
        PROVE  SafeNow(positions'[k], ExitIn(plans', "position", k), moved')
    <2>1. k = p
      BY <1>1 DEF Touched
    <2>2. QED BY <1>1, <2>1
  <1>2. \A k \in DOMAIN orders' : ~Touched("order", orders, k, R)
    BY DEF Touched
  <1>3. Unique(plans)'
    BY DEF BookSound, PlansSound
  <1> HIDE DEF R
  <1>4. QED BY <1>1, <1>2, <1>3, QuietStaysGood DEF R

\* A step of the platform that touches the orders in ids.
LEMMA SomeOrdersGood ==
  ASSUME BookSound, BookSound', BookGood, StopsAway, UNCHANGED <<history, moved>>,
         NEW R, Frame(R), \A p \in DOMAIN positions' : ~Touched("position", positions, p, R),
         \A o \in DOMAIN orders' : Touched("order", orders, o, R) =>
             OrderGood(orders'[o], ExitIn(plans', "order", o)) /\ Visible(orders'[o].symbol) # {}
  PROVE  BookGood' /\ StopsAway'
  <1>1. Unique(plans)'
    BY DEF BookSound, PlansSound
  <1>2. QED BY <1>1, QuietStaysGood

LEMMA OpenPositionGood ==
  ASSUME BookSound, BookSound', BookGood, StopsAway, MarketOK, UNCHANGED <<history, moved>>,
         NEW i \in Intents, i.kind = "place_order", PlaceOK(i), OpenPosition(i),
         Frame(Reserved(i))
  PROVE  BookGood' /\ StopsAway'
  <1> DEFINE buy   == IsBuy(i.type)
             basis == EntryBasis(i.symbol, buy)
             pos   == PositionAt(i, basis)
  <1>1. PICK p \in PositionIds \ DOMAIN positions, x \in PlanIdsFor(i.exit) :
          /\ positions' = With(positions, p, pos)
          /\ plans' = Attached(plans, x, "position", p, i.exit)
    BY DEF OpenPosition
  <1>2. i.type \in MarketTypes /\ UNCHANGED orders
    BY DEF OpenPosition
  <1>3. /\ DOMAIN positions' = DOMAIN positions \union {p}
        /\ positions'[p] = pos
    BY <1>1 DEF With
  <1>4. \A y \in DOMAIN plans : ~(plans[y].kind = "position" /\ plans[y].target = p)
    BY DEF BookSound, PlansSound
  <1>5. ExitIn(plans', "position", p) = i.exit
    <2>1. Attaches(x, "position", p, i.exit)
      BY <1>1, <1>4 DEF Attaches
    <2>2. ExitIn(plans, "position", p) = None
      BY <1>4, NoExit
    <2>3. QED BY <2>1, <2>2, AttachedExit
  <1>6. /\ Declared(i) /\ Visible(i.symbol) # {}
        /\ RelationsOK(i.exit, buy, basis, ExitQuote(i.symbol, buy))
    BY <1>2 DEF PlaceOK
  <1>7. NotDuplicated(i, i.exit) /\ {i.sl, i.tp} \subseteq Prices /\ i.exit \in StrategyExits
    BY IntentsAreWellFormed, IntentsAreTyped, ExitsAreSanctioned DEF WellFormedPlace, TypedOrder
  <1>8. /\ pos.symbol = i.symbol /\ pos.buy = buy /\ pos.price = basis
        /\ pos.sl = i.sl /\ pos.tp = i.tp
    BY DEF PositionAt
  <1> HIDE DEF pos, basis
  <1>9. basis \in Int /\ ExitBasis(i.symbol, buy) = ExitQuote(i.symbol, buy)
    BY <1>6, QuotesAreInt DEF basis
  <1>10. i.type \in OrderTypes \ {"CLOSE_BY"} /\ i.symbol \in Symbols /\ Sanctioned(i.exit)
    BY <1>2, <1>6, <1>7 DEF Declared, MarketTypes, Sanctioned
  <1>11. NotDuplicated(pos, i.exit)
    BY <1>7, <1>8 DEF NotDuplicated
  <1>12. SafeNow(pos, i.exit, moved)
    BY <1>6, <1>7, <1>8, <1>9, <1>10, <1>11, PlannedSafe
  <1>13. Frame({<<"position", p>>})
    <2>1. Reserved(i) = {}
      BY DEF Reserved
    <2>2. QED BY <2>1, FrameGrows
  <1>14. QED BY <1>2, <1>3, <1>5, <1>12, <1>13, OnePositionGood

LEMMA ProtectGood ==
  ASSUME BookSound, BookSound', BookGood, StopsAway, MarketOK, UNCHANGED <<history, moved>>,
         NEW i \in Intents, i.kind = "protect_position", ProtectOK(i), Protect(i),
         Frame(Reserved(i))
  PROVE  BookGood' /\ StopsAway'
  <1> DEFINE p == i.position
             old == positions[p]
             existing == ExitIn(plans, "position", p)
  <1>1. PICK x \in PlanIdsFor(i.exit) : plans' = Attached(plans, x, "position", p, i.exit)
    BY DEF Protect
  <1>2. /\ p \in DOMAIN positions /\ DOMAIN old = PositionFields
        /\ UNCHANGED orders
    BY DEF Protect, ProtectOK, BookSound, PositionsSound
  <1>3. existing = ExitFor("position", p)
    BY ExitForIn
  <1>4. /\ Granted(i.exit)
        /\ i.exit = None \/ existing = None
        /\ NotDuplicated(old, i.exit)
        /\ NotDuplicated(i, existing)
        /\ RelationsOK(i.exit, old.buy, old.price, ExitBasis(old.symbol, old.buy))
    BY <1>3 DEF ProtectOK
  <1>5. /\ DOMAIN positions' = DOMAIN positions
        /\ positions'[p].symbol = old.symbol /\ positions'[p].buy = old.buy
        /\ positions'[p].price = old.price
        /\ positions'[p].sl = IF i.sl = None THEN old.sl ELSE i.sl
        /\ positions'[p].tp = IF i.clearProfit THEN None ELSE IF i.tp = None THEN old.tp ELSE i.tp
    BY <1>2 DEF Protect, PositionFields
  <1>6. NotDuplicated(i, i.exit) /\ {i.sl, i.tp} \subseteq Prices /\ i.exit \in StrategyExits
    BY IntentsAreWellFormed, IntentsAreTyped, ExitsAreSanctioned DEF WellFormedProtect
  <1>7. PositionGood(old, existing) /\ Visible(old.symbol) # {}
    BY <1>2 DEF BookGood
  <1>8. {positions'[p].sl, positions'[p].tp} \subseteq Prices
    BY <1>5, <1>6, <1>7 DEF PositionGood, Prices
  <1>9. ExitIn(plans', "position", p) = IF i.exit = None THEN existing ELSE i.exit
    <2>1. i.exit # None =>
             \A y \in DOMAIN plans : ~(plans[y].kind = "position" /\ plans[y].target = p)
      <3> SUFFICES ASSUME i.exit # None, NEW y \in DOMAIN plans,
                          plans[y].kind = "position", plans[y].target = p
                   PROVE  FALSE
        OBVIOUS
      <3>1. existing = plans[y].exit
        BY ExitOfPlan DEF BookSound, PlansSound
      <3>2. QED BY <1>4, <3>1 DEF BookSound, PlansSound
    <2>2. Attaches(x, "position", p, i.exit)
      BY <1>1, <2>1 DEF Attaches
    <2>3. QED BY <2>2, AttachedExit
  <1> HIDE DEF existing
  <1>10. SafeNow(positions'[p], ExitIn(plans', "position", p), moved)
    <2>1. CASE i.exit # None
      <3>1. NotDuplicated(positions'[p], i.exit) /\ Sanctioned(i.exit)
        BY <1>4, <1>5, <1>6 DEF NotDuplicated, Sanctioned
      <3>2. /\ old.symbol \in Symbols /\ old.price \in Int
            /\ \E type \in OrderTypes \ {"CLOSE_BY"} : old.buy = IsBuy(type)
        BY <1>7 DEF PositionGood
      <3>3. SafeNow(positions'[p], i.exit, moved)
        BY <1>4, <1>5, <1>7, <1>8, <3>1, <3>2, PlannedSafe
      <3>4. QED BY <2>1, <3>3, <1>9
    <2>2. CASE i.exit = None
      <3>1. NotDuplicated(positions'[p], existing)
        BY <1>4, <1>5, <1>7 DEF NotDuplicated, PositionGood
      <3>2. PositionGood(positions'[p], existing)
        BY <1>5, <1>7, <1>8, <3>1 DEF PositionGood
      <3>3. old.symbol \notin moved =>
               StopAway(positions'[p], existing, ExitQuote(old.symbol, old.buy))
        BY <1>2, <1>5 DEF StopsAway, StopAway, existing
      <3>4. QED BY <2>2, <1>5, <1>7, <1>9, <3>2, <3>3 DEF SafeNow
    <2>3. QED BY <2>1, <2>2
  <1>11. Reserved(i) = {<<"position", p>>}
    BY DEF Reserved
  <1>12. QED BY <1>2, <1>5, <1>10, <1>11, OnePositionGood

LEMMA PlacePendingGood ==
  ASSUME BookSound, BookSound', BookGood, StopsAway, UNCHANGED <<history, moved>>,
         NEW i \in Intents, i.kind = "place_order", PlaceOK(i), PlacePending(i),
         Frame(Reserved(i))
  PROVE  BookGood' /\ StopsAway'
  <1>1. PICK o \in OrderIds \ DOMAIN orders, x \in PlanIdsFor(i.exit) :
          /\ orders' = With(orders, o, OrderFrom(i, x, None))
          /\ plans' = Attached(plans, x, "order", o, i.exit)
    BY DEF PlacePending
  <1>2. i.type \notin MarketTypes /\ UNCHANGED positions
    BY DEF PlacePending
  <1>3. DOMAIN orders' = DOMAIN orders \union {o} /\ orders'[o] = OrderFrom(i, x, None)
    BY <1>1 DEF With
  <1>4. \A y \in DOMAIN plans : ~(plans[y].kind = "order" /\ plans[y].target = o)
    BY DEF BookSound, PlansSound
  <1>5. ExitIn(plans', "order", o) = i.exit
    <2>1. Attaches(x, "order", o, i.exit)
      BY <1>1, <1>4 DEF Attaches
    <2>2. ExitIn(plans, "order", o) = None
      BY <1>4, NoExit
    <2>3. QED BY <2>1, <2>2, AttachedExit
  <1>6. x = None <=> i.exit = None
    BY IdsAssumption DEF PlanIdsFor
  <1>7. /\ Declared(i) /\ Visible(i.symbol) # {}
        /\ RelationsOK(i.exit, IsBuy(i.type), Basis(i), Basis(i))
    BY <1>2 DEF PlaceOK, QuoteBoundaryOK
  <1>8. /\ NotDuplicated(i, i.exit) /\ TypedOrder(i) /\ i.exit \in StrategyExits
        /\ i.entry # None /\ PendingOK(i, StopOf(i, i.exit), ProfitOf(i, i.exit), TRUE)
    BY <1>2, IntentsAreWellFormed, IntentsAreTyped, ExitsAreSanctioned DEF WellFormedPlace
  <1>9. OrderGood(orders'[o], i.exit) /\ orders'[o].symbol = i.symbol
    <2>1. OrderGood(OrderFrom(i, x, None), i.exit)
      BY <1>6, <1>7, <1>8, EntryGood
    <2>2. OrderFrom(i, x, None).symbol = i.symbol
      BY DEF OrderFrom
    <2>3. QED BY <1>3, <2>1, <2>2
  <1>10. Reserved(i) = {}
    BY DEF Reserved
  <1>11. /\ \A p \in DOMAIN positions' : ~Touched("position", positions, p, Reserved(i))
         /\ \A k \in DOMAIN orders' : Touched("order", orders, k, Reserved(i)) => k = o
    BY <1>2, <1>3, <1>10 DEF Touched
  <1>12. QED BY <1>5, <1>7, <1>9, <1>11, SomeOrdersGood

LEMMA ModifyOrderGood ==
  ASSUME BookSound, BookSound', BookGood, StopsAway, UNCHANGED <<history, moved>>,
         NEW i \in Intents, i.kind = "modify_order", ModifyOK(i), ModifyOrder(i),
         Frame(Reserved(i))
  PROVE  BookGood' /\ StopsAway'
  <1> DEFINE o   == i.order
             old == orders[o]
             new == Modified(old, i)
             x   == ExitIn(plans, "order", o)
  <1>1. o \in DOMAIN orders /\ DOMAIN old = OrderFields
    BY DEF ModifyOK, BookSound, OrdersSound
  <1>2. OrderGood(old, x) /\ Visible(old.symbol) # {}
    BY <1>1 DEF BookGood
  <1>3. /\ new.symbol = old.symbol /\ new.type = old.type /\ new.filling = old.filling
        /\ new.plan = old.plan
        /\ new.entry = IF i.entry = None THEN old.entry ELSE i.entry
        /\ new.limit = IF i.limit = None THEN old.limit ELSE i.limit
        /\ new.sl = IF i.sl = None THEN old.sl ELSE i.sl
        /\ new.tp = IF i.clearProfit THEN None ELSE IF i.tp = None THEN old.tp ELSE i.tp
        /\ new.time = IF i.time = None THEN old.time ELSE i.time
    BY <1>1 DEF Modified, OrderFields
  <1>4. new.expires \in BOOLEAN
    <2>1. new.expires = (~i.clearExpiration /\ (old.expires \/ i.expires))
      BY <1>1 DEF Modified, OrderFields
    <2>2. QED BY <2>1
  <1>5. /\ PendingOK(new, new.sl, new.tp, new.plan = None)
        /\ new.plan # None =>
              /\ NotDuplicated(new, plans[new.plan].exit)
              /\ RelationsOK(plans[new.plan].exit, IsBuy(new.type), Basis(new), Basis(new))
    BY DEF ModifyOK
  <1> HIDE DEF new
  <1>6. /\ {i.entry, i.limit, i.sl, i.tp} \subseteq Prices
        /\ i.time \in TimeEnum \union {None}
    BY IntentsAreTyped
  <1>7. /\ new.entry \in Int /\ {new.limit, new.sl, new.tp} \subseteq Prices
        /\ new.time \in TimeEnum
    BY <1>2, <1>3, <1>6 DEF OrderGood, Prices
  <1>8. NotDuplicated(new, x) /\ RelationsOK(x, IsBuy(new.type), Basis(new), Basis(new))
    <2>1. CASE old.plan = None
      <3>1. x = None
        BY <1>1, <2>1, NoExit, IdsAssumption DEF BookSound, PlansSound
      <3>2. QED BY <3>1 DEF NotDuplicated, RelationsOK, Bracket
    <2>2. CASE old.plan # None
      <3>1. x = plans[old.plan].exit
        BY <1>1, <2>2, ExitOfPlan DEF BookSound, OrdersSound, PlansSound
      <3>2. QED BY <1>3, <1>5, <2>2, <3>1
    <2>3. QED BY <2>1, <2>2
  <1>9. OrderGood(new, x)
    BY <1>2, <1>3, <1>4, <1>5, <1>7, <1>8 DEF OrderGood
  <1>10. /\ DOMAIN orders' = DOMAIN orders /\ orders'[o] = new
         /\ UNCHANGED <<positions, plans>>
    BY <1>1 DEF ModifyOrder, new
  <1>11. Reserved(i) = {<<"order", o>>}
    BY DEF Reserved
  <1>12. /\ \A p \in DOMAIN positions' : ~Touched("position", positions, p, Reserved(i))
         /\ \A k \in DOMAIN orders' : Touched("order", orders, k, Reserved(i)) => k = o
    BY <1>10, <1>11 DEF Touched
  <1>13. ExitIn(plans', "order", o) = x
    BY <1>10
  <1>14. Visible(orders'[o].symbol) # {}
    BY <1>2, <1>3, <1>10
  <1> HIDE DEF x
  <1>15. QED BY <1>9, <1>10, <1>12, <1>13, <1>14, SomeOrdersGood

\* The legs of a group become good orders.
LEMMA SetGroupGood ==
  ASSUME BookSound, BookSound', BookGood, StopsAway, UNCHANGED <<history, moved>>,
         NEW i \in Intents, i.kind \in {"place_oco", "modify_oco"}, GroupOK(i.legs),
         NEW g, NEW ids, NEW xs, NEW ps,
         GroupReady(g, i.legs, ids, xs, ps, Reserved(i)), SetGroup(g, i.legs, ids, xs, ps)
  PROVE  BookGood' /\ StopsAway'
  <1> DEFINE legs == i.legs
             Q == Named("order", Range(ids)) \union {<<"oco", g>>}
  <1>1. GroupWritten(g, legs, ids, xs, ps)
    BY SetGroupWrites
  <1>2. /\ \A o : <<"order", o>> \in Q <=> o \in Range(ids)
        /\ \A p : <<"position", p>> \notin Q
        /\ <<"oco", g>> \in Q
    BY DEF Named
  <1> HIDE DEF Q
  <1>3. GroupReady(g, legs, ids, xs, ps, Q)
    BY <1>1, <1>2 DEF GroupReady, GroupWritten
  <1>4. Frame(Q)
    BY <1>1, <1>3, SetGroupFrame
  <1>5. ASSUME NEW o \in DOMAIN orders', Touched("order", orders, o, Q)
        PROVE  OrderGood(orders'[o], ExitIn(plans', "order", o)) /\ Visible(orders'[o].symbol) # {}
    <2>1. PICK l \in DOMAIN legs : o = ids[l]
      BY <1>1, <1>2, <1>5 DEF GroupWritten, Touched
    <2> DEFINE leg == legs[l]
    <2>2. /\ orders'[o] = OrderFrom(leg, xs[l], g)
          /\ orders'[o].plan = xs[l]
          /\ xs[l] = None <=> leg.exit = None
          /\ xs[l] # None =>
                /\ xs[l] \in DOMAIN plans'
                /\ plans'[xs[l]] = [kind |-> "order", target |-> o, exit |-> leg.exit]
      BY <1>1, <2>1 DEF GroupWritten
    <2>3. /\ TypedOrder(leg) /\ leg.entry # None /\ NotDuplicated(leg, leg.exit)
          /\ PendingOK(leg, StopOf(leg, leg.exit), ProfitOf(leg, leg.exit), TRUE)
          /\ leg.exit \in StrategyExits
      BY IntentsAreWellFormed, IntentsAreTyped, ExitsAreSanctioned DEF WellFormedGroup
    <2>4. /\ Declared(leg) /\ Visible(leg.symbol) # {}
          /\ RelationsOK(leg.exit, IsBuy(leg.type), Basis(leg), Basis(leg))
      BY DEF GroupOK, QuoteBoundaryOK
    <2>5. ExitIn(plans', "order", o) = leg.exit
      <3>1. CASE xs[l] = None
        <4>1. \A x \in DOMAIN plans' : ~(plans'[x].kind = "order" /\ plans'[x].target = o)
          BY <2>2, <3>1, IdsAssumption DEF BookSound, PlansSound
        <4>2. QED BY <2>2, <3>1, <4>1, NoExit
      <3>2. CASE xs[l] # None
        <4>1. Unique(plans')
          BY DEF BookSound, PlansSound, Unique
        <4>2. QED BY <2>2, <3>2, <4>1, ExitOfPlan
      <3>3. QED BY <3>1, <3>2
    <2> HIDE DEF leg
    <2>6. OrderGood(OrderFrom(leg, xs[l], g), leg.exit)
      BY <2>2, <2>3, <2>4, EntryGood
    <2>7. OrderFrom(leg, xs[l], g).symbol = leg.symbol
      BY DEF OrderFrom
    <2>8. QED BY <2>2, <2>4, <2>5, <2>6, <2>7
  <1>6. \A p \in DOMAIN positions' : ~Touched("position", positions, p, Q)
    BY <1>1, <1>2 DEF GroupWritten, Touched
  <1>7. QED BY <1>4, <1>5, <1>6, SomeOrdersGood

LEMMA GroupGood ==
  ASSUME BookSound, BookSound', BookGood, StopsAway, UNCHANGED <<history, moved>>,
         NEW i \in Intents,
         \/ i.kind = "place_oco" /\ PlaceGroup(i) /\ GroupOK(i.legs)
         \/ i.kind = "modify_oco" /\ ModifyOcoOK(i) /\ ReplaceGroup(i)
  PROVE  BookGood' /\ StopsAway'
  <1>1. PICK g, ids, xs, ps : /\ GroupReady(g, i.legs, ids, xs, ps, Reserved(i))
                              /\ SetGroup(g, i.legs, ids, xs, ps)
    BY PlaceGroupReady, ReplaceGroupReady
  <1>2. i.kind \in {"place_oco", "modify_oco"} /\ GroupOK(i.legs)
    BY DEF ModifyOcoOK
  <1>3. QED BY <1>1, <1>2, SetGroupGood

\* An order or a position whose plan was replaced or cleared.
LEMMA OwnerGood ==
  ASSUME BookSound, BookSound', BookGood, StopsAway, UNCHANGED <<history, moved>>,
         NEW x \in DOMAIN plans, NEW kind, NEW t, kind = plans[x].kind, t = plans[x].target,
         Frame({<<kind, t>>}),
         DOMAIN orders' = DOMAIN orders, DOMAIN positions' = DOMAIN positions,
         kind = "order" =>
             /\ OrderGood(orders'[t], ExitIn(plans', kind, t))
             /\ Visible(orders'[t].symbol) # {},
         kind = "position" => SafeNow(positions'[t], ExitIn(plans', kind, t), moved)
  PROVE  BookGood' /\ StopsAway'
  <1> DEFINE R == {<<kind, t>>}
  <1>1. ASSUME NEW p \in DOMAIN positions', Touched("position", positions, p, R)
        PROVE  SafeNow(positions'[p], ExitIn(plans', "position", p), moved')
    <2>1. kind = "position" /\ t = p
      BY <1>1 DEF Touched
    <2>2. QED BY <2>1
  <1>2. ASSUME NEW o \in DOMAIN orders', Touched("order", orders, o, R)
        PROVE  OrderGood(orders'[o], ExitIn(plans', "order", o)) /\ Visible(orders'[o].symbol) # {}
    <2>1. kind = "order" /\ t = o
      BY <1>2 DEF Touched
    <2>2. QED BY <2>1
  <1>3. Unique(plans)'
    BY DEF BookSound, PlansSound
  <1> HIDE DEF R
  <1>4. QED BY <1>1, <1>2, <1>3, QuietStaysGood DEF R

LEMMA ReplacePlanGood ==
  ASSUME BookSound, BookSound', BookGood, StopsAway, MarketOK, UNCHANGED <<history, moved>>,
         NEW i \in Intents, i.kind = "modify_plan", ModifyPlanOK(i), ReplacePlan(i)
  PROVE  BookGood' /\ StopsAway'
  <1>1. PICK x, kind, t : x = i.plan /\ kind = plans[x].kind /\ t = plans[x].target
    OBVIOUS
  <1>2. /\ x \in DOMAIN plans /\ UNCHANGED <<positions, orders, groups>>
        /\ DOMAIN plans[x] = {"kind", "target", "exit"}
        /\ \/ kind = "order" /\ t \in DOMAIN orders
           \/ kind = "position" /\ t \in DOMAIN positions
    BY <1>1 DEF ModifyPlanOK, ReplacePlan, BookSound, PlansSound
  <1>3. /\ DOMAIN plans' = DOMAIN plans
        /\ \A y \in DOMAIN plans : y # x => plans'[y] = plans[y]
        /\ plans'[x].kind = kind /\ plans'[x].target = t
        /\ plans'[x].exit = i.exit
    BY <1>1, <1>2 DEF ReplacePlan
  <1>4. Frame({<<kind, t>>})
    BY <1>1, <1>2, <1>3
    DEF Frame, OrdersStay, PositionsStay, PlansStay, GroupsStay, Owner
  <1>5. ExitIn(plans', kind, t) = i.exit
    <2>1. Unique(plans')
      BY DEF BookSound, PlansSound, Unique
    <2>2. QED BY <1>2, <1>3, <2>1, ExitOfPlan
  <1>6. Granted(i.exit) /\ Sanctioned(i.exit) /\ NotDuplicated(Target(x), i.exit)
    BY <1>1, ExitsAreSanctioned DEF ModifyPlanOK, Sanctioned
  <1>7. ASSUME kind = "order"
        PROVE  OrderGood(orders'[t], i.exit) /\ Visible(orders'[t].symbol) # {}
    <2>1. t \in DOMAIN orders /\ orders'[t] = orders[t] /\ Target(x) = orders[t]
      BY <1>1, <1>2, <1>7 DEF Target
    <2>2. /\ OrderGood(orders[t], ExitIn(plans, "order", t))
          /\ Visible(orders[t].symbol) # {}
      BY <2>1 DEF BookGood
    <2>3. RelationsOK(i.exit, IsBuy(orders[t].type), Basis(orders[t]), Basis(orders[t]))
      BY <1>1, <1>7, <2>1 DEF ModifyPlanOK
    <2>4. QED BY <1>6, <2>1, <2>2, <2>3 DEF OrderGood
  <1>8. ASSUME kind = "position"
        PROVE  SafeNow(positions'[t], i.exit, moved)
    <2>1. t \in DOMAIN positions /\ positions'[t] = positions[t] /\ Target(x) = positions[t]
      BY <1>1, <1>2, <1>8 DEF Target
    <2>2. /\ PositionGood(positions[t], ExitIn(plans, "position", t))
          /\ Visible(positions[t].symbol) # {}
      BY <2>1 DEF BookGood
    <2>3. RelationsOK(i.exit, positions[t].buy, positions[t].price,
                      ExitBasis(positions[t].symbol, positions[t].buy))
      BY <1>1, <1>8, <2>1 DEF ModifyPlanOK
    <2>4. /\ positions[t].symbol \in Symbols
          /\ \E type \in OrderTypes \ {"CLOSE_BY"} : positions[t].buy = IsBuy(type)
          /\ positions[t].price \in Int /\ {positions[t].sl, positions[t].tp} \subseteq Prices
      BY <2>2 DEF PositionGood
    <2>5. SafeNow(positions[t], i.exit, moved)
      BY <1>6, <2>1, <2>2, <2>3, <2>4, PlannedSafe
    <2>6. QED BY <2>1, <2>5
  <1>9. DOMAIN orders' = DOMAIN orders /\ DOMAIN positions' = DOMAIN positions
    BY <1>2
  <1>10. QED BY <1>1, <1>2, <1>4, <1>5, <1>7, <1>8, <1>9, OwnerGood

LEMMA ClearPlanGood ==
  ASSUME BookSound, BookSound', BookGood, StopsAway, UNCHANGED <<history, moved>>,
         NEW i \in Intents, i.kind = "clear_plan", ClearPlanOK(i), ClearPlan(i),
         Frame(Reserved(i))
  PROVE  BookGood' /\ StopsAway'
  <1>1. PICK x, kind, t : x = i.plan /\ kind = plans[x].kind /\ t = plans[x].target
    OBVIOUS
  <1>2. /\ x \in DOMAIN plans /\ x # None /\ Target(x).sl # None /\ UNCHANGED positions
        /\ \/ kind = "order" /\ t \in DOMAIN orders /\ orders[t].plan = x
           \/ kind = "position" /\ t \in DOMAIN positions
    BY <1>1, IdsAssumption DEF ClearPlanOK, ClearPlan, BookSound, PlansSound
  <1>3. /\ DOMAIN plans' = DOMAIN plans \ {x}
        /\ \A y \in DOMAIN plans' : plans'[y] = plans[y]
    BY <1>1 DEF ClearPlan, Without, Restrict
  <1>4. /\ DOMAIN orders' = DOMAIN orders
        /\ \A o \in DOMAIN orders :
              /\ DOMAIN orders'[o] = OrderFields
              /\ \A f \in OrderFields \ {"plan"} : orders'[o][f] = orders[o][f]
              /\ orders'[o].plan = IF orders[o].plan = x THEN None ELSE orders[o].plan
    BY <1>1 DEF ClearPlan, BookSound, OrdersSound, OrderFields
  <1>5. ExitIn(plans', kind, t) = None
    <2>1. \A y \in DOMAIN plans' : ~(plans'[y].kind = kind /\ plans'[y].target = t)
      BY <1>1, <1>2, <1>3 DEF BookSound, PlansSound, Unique
    <2>2. QED BY <2>1, NoExit
  <1>6. Frame({<<kind, t>>})
    <2>1. \A o \in DOMAIN orders : orders[o].plan = x => kind = "order" /\ t = o
      BY <1>1, <1>2 DEF BookSound, OrdersSound
    <2>2. OrdersStay({<<kind, t>>}) /\ PositionsStay({<<kind, t>>})
      BY <1>2, <1>4, <2>1 DEF OrdersStay, PositionsStay, OrderFields
    <2>3. PlansStay({<<kind, t>>})
      BY <1>1, <1>3 DEF PlansStay, Owner
    <2>4. GroupsStay({<<kind, t>>})
      BY DEF ClearPlan, GroupsStay, BookSound, GroupsSound
    <2>5. QED BY <2>2, <2>3, <2>4 DEF Frame
  <1>7. ASSUME kind = "order"
        PROVE  OrderGood(orders'[t], None) /\ Visible(orders'[t].symbol) # {}
    <2>1. t \in DOMAIN orders /\ orders[t].plan = x /\ orders[t].sl # None
      BY <1>1, <1>2, <1>7 DEF Target
    <2>2. /\ OrderGood(orders[t], ExitIn(plans, "order", t))
          /\ Visible(orders[t].symbol) # {}
      BY <2>1 DEF BookGood
    <2> DEFINE new == orders'[t]
               old == orders[t]
    <2>3. /\ new.symbol = old.symbol /\ new.type = old.type /\ new.entry = old.entry
          /\ new.limit = old.limit /\ new.sl = old.sl /\ new.tp = old.tp
          /\ new.filling = old.filling /\ new.time = old.time /\ new.expires = old.expires
      BY <1>4, <2>1 DEF OrderFields
    <2> HIDE DEF new, old
    <2>4. PendingOK(new, new.sl, new.tp, new.plan = None)
      BY <2>1, <2>2, <2>3 DEF OrderGood, PendingOK, StopLimitOK, ExpirationOK, Basis, old
    <2>5. OrderGood(new, None)
      BY <2>2, <2>3, <2>4 DEF OrderGood, Sanctioned, NotDuplicated, RelationsOK, Bracket, old
    <2>6. QED BY <2>2, <2>3, <2>5 DEF new, old
  <1>8. ASSUME kind = "position"
        PROVE  SafeNow(positions'[t], None, moved)
    <2>1. t \in DOMAIN positions /\ positions'[t] = positions[t]
      BY <1>2, <1>8
    <2>2. /\ PositionGood(positions[t], ExitIn(plans, "position", t))
          /\ Visible(positions[t].symbol) # {}
      BY <2>1 DEF BookGood
    <2>3. QED BY <2>1, <2>2 DEF SafeNow, PositionGood, StopAway, Bracket, Sanctioned, NotDuplicated
  <1>9. QED BY <1>1, <1>2, <1>4, <1>5, <1>6, <1>7, <1>8, OwnerGood

LEMMA SucceedsGood ==
  ASSUME BookSound, BoundedProtection, BookGood, StopsAway, MarketOK, UNCHANGED <<history, moved>>,
         NEW i \in Intents, Acceptable(i), Succeeds(i)
  PROVE  BookGood' /\ StopsAway'
  <1>1. Frame(Reserved(i)) /\ BookSound'
    BY SucceedsKeeps DEF Keeps
  <1>2. /\ i.kind = "place_order" => PlaceOK(i)
        /\ i.kind = "place_oco" => GroupOK(i.legs)
    BY DEF Acceptable
  <1>3. CASE i.kind = "place_order" /\ (OpenPosition(i) \/ PlacePending(i))
    BY <1>1, <1>2, <1>3, OpenPositionGood, PlacePendingGood
  <1>4. CASE i.kind = "place_oco" /\ PlaceGroup(i)
    BY <1>1, <1>2, <1>4, GroupGood
  <1>5. CASE i.kind = "modify_oco" /\ ReplaceGroup(i)
    BY <1>1, <1>5, AcceptableIntents, GroupGood
  <1>6. CASE i.kind = "modify_order" /\ ModifyOrder(i)
    BY <1>1, <1>6, AcceptableIntents, ModifyOrderGood
  <1>7. CASE i.kind = "protect_position" /\ Protect(i)
    BY <1>1, <1>7, AcceptableIntents, ProtectGood
  <1>8. CASE i.kind = "modify_plan" /\ ReplacePlan(i)
    BY <1>1, <1>8, AcceptableIntents, ReplacePlanGood
  <1>9. CASE i.kind = "clear_plan" /\ ClearPlan(i)
    BY <1>1, <1>9, AcceptableIntents, ClearPlanGood
  <1>10. ASSUME NEW S, DropOrders(S), UNCHANGED positions PROVE BookGood' /\ StopsAway'
    BY <1>10, DropOrdersGood
  <1>11. ASSUME NEW S, DropPositions(S), UNCHANGED <<orders, groups>> PROVE BookGood' /\ StopsAway'
    BY <1>11, DropPositionsGood
  <1>12. CASE i.kind \in {"cancel_oco", "cancel_order", "close_position", "close_by"}
    <2>1. \/ \E S : DropOrders(S) /\ UNCHANGED positions
          \/ \E S : DropPositions(S) /\ UNCHANGED <<orders, groups>>
      BY <1>12 DEF Succeeds, ClosePosition, CloseBy
    <2>2. QED BY <2>1, <1>10, <1>11
  <1>13. QED
    BY <1>3, <1>4, <1>5, <1>6, <1>7, <1>8, <1>9, <1>12 DEF Succeeds

-----------------------------------------------------------------------------
(* The links between orders and groups, the ids, and one position per      *)
(* symbol where the account does not hedge.                                *)

Structure == GroupsLinked /\ IdsOK /\ OnePerSymbol

LEMMA LinkedMinus ==
  ASSUME NEW S, BookSound, GroupsLinked, orders' = OrdersMinus(S), groups' = GroupsMinus(S)
  PROVE  /\ GroupsLinked'
         /\ DOMAIN groups' \subseteq DOMAIN groups /\ DOMAIN orders' \subseteq DOMAIN orders
  <1>1. /\ DOMAIN orders' = DOMAIN orders \ S
        /\ \A o \in DOMAIN orders \ S :
              /\ orders'[o].plan = orders[o].plan
              /\ orders'[o].group = IF orders[o].group \in GroupsLeft(S) THEN orders[o].group ELSE None
    <2>1. \A o \in DOMAIN orders : DOMAIN orders[o] = OrderFields
      BY DEF BookSound, OrdersSound
    <2>2. QED BY <2>1 DEF OrdersMinus, OrderFields
  <1>2. /\ DOMAIN groups' = GroupsLeft(S) /\ GroupsLeft(S) \subseteq DOMAIN groups
        /\ \A g \in GroupsLeft(S) :
              /\ DOMAIN groups'[g] = LegsLeft(g, S) /\ LegsLeft(g, S) \subseteq DOMAIN groups[g]
              /\ \A l \in LegsLeft(g, S) : groups'[g][l] = groups[g][l]
    BY GroupsMinusIs
  <1>3. \A g, l : l \in LegsLeft(g, S) <=> l \in DOMAIN groups[g] /\ groups[g][l].order \notin S
    BY DEF LegsLeft
  <1>4. ASSUME NEW o \in DOMAIN orders', orders'[o].group # None
        PROVE  /\ orders'[o].group \in DOMAIN groups'
               /\ \E l \in DOMAIN groups'[orders'[o].group] : groups'[orders'[o].group][l].order = o
    <2>1. /\ o \in DOMAIN orders /\ o \notin S /\ orders[o].group \in GroupsLeft(S)
          /\ orders'[o].group = orders[o].group /\ orders[o].group # None
      BY <1>1, <1>4
    <2>2. PICK l \in DOMAIN groups[orders[o].group] : groups[orders[o].group][l].order = o
      BY <2>1 DEF GroupsLinked
    <2>3. l \in LegsLeft(orders[o].group, S)
      BY <1>3, <2>1, <2>2
    <2>4. QED BY <1>2, <2>1, <2>2, <2>3
  <1>5. ASSUME NEW g \in DOMAIN groups', NEW l \in DOMAIN groups'[g]
        PROVE  /\ groups'[g][l].order \in DOMAIN orders'
               /\ orders'[groups'[g][l].order].group = g
               /\ orders'[groups'[g][l].order].plan = groups'[g][l].plan
    <2>1. /\ g \in GroupsLeft(S) /\ g \in DOMAIN groups /\ l \in DOMAIN groups[g]
          /\ groups'[g][l] = groups[g][l] /\ groups[g][l].order \notin S
      BY <1>2, <1>3, <1>5
    <2>2. /\ groups[g][l].order \in DOMAIN orders
          /\ orders[groups[g][l].order].group = g
          /\ orders[groups[g][l].order].plan = groups[g][l].plan
      BY <2>1 DEF GroupsLinked
    <2>3. QED BY <1>1, <2>1, <2>2
  <1>6. DOMAIN groups' # {} => "PLATFORM_OCO" \in Capabilities
    BY <1>2 DEF GroupsLinked
  <1>7. QED BY <1>1, <1>2, <1>4, <1>5, <1>6 DEF GroupsLinked

LEMMA SetGroupLinked ==
  ASSUME BookSound, Structure, NEW i \in Intents, GroupOK(i.legs),
         NEW g, NEW ids, NEW xs, NEW ps, NEW R, GroupIdsOf(g, ids),
         GroupReady(g, i.legs, ids, xs, ps, R), SetGroup(g, i.legs, ids, xs, ps)
  PROVE  Structure'
  <1> DEFINE legs == i.legs
  <1>1. GroupWritten(g, legs, ids, xs, ps)
    BY SetGroupWrites
  <1>2. /\ DOMAIN orders' = DOMAIN orders \union Range(ids)
        /\ \A o \in DOMAIN orders : o \notin Range(ids) => orders'[o] = orders[o]
        /\ \A o \in Range(ids) : \E l \in DOMAIN legs : o = ids[l]
        /\ UNCHANGED positions
    BY <1>1 DEF GroupWritten
  <1>3. ASSUME NEW l \in DOMAIN legs
        PROVE  /\ ids[l] \in Range(ids)
               /\ orders'[ids[l]].group = g /\ orders'[ids[l]].plan = xs[l]
    <2>1. ids[l] \in Range(ids) /\ orders'[ids[l]] = OrderFrom(legs[l], xs[l], g)
      BY <1>1 DEF GroupWritten
    <2>2. QED BY <2>1 DEF OrderFrom
  <1>4. /\ DOMAIN groups' = DOMAIN groups \union {g}
        /\ DOMAIN groups'[g] = DOMAIN legs
        /\ \A l \in DOMAIN legs : groups'[g][l].order = ids[l] /\ groups'[g][l].plan = xs[l]
        /\ \A h \in DOMAIN groups : h # g => groups'[h] = groups[h]
    <2>1. groups' = With(groups, g, [l \in DOMAIN legs |-> [order |-> ids[l], plan |-> xs[l]]])
      BY <1>1 DEF GroupWritten
    <2>2. QED BY <2>1 DEF With
  <1>5. /\ \A o \in DOMAIN orders : orders[o].group # None =>
              /\ orders[o].group \in DOMAIN groups
              /\ \E l \in DOMAIN groups[orders[o].group] : groups[orders[o].group][l].order = o
        /\ \A h \in DOMAIN groups : \A l \in DOMAIN groups[h] :
              /\ groups[h][l].order \in DOMAIN orders
              /\ orders[groups[h][l].order].group = h
              /\ orders[groups[h][l].order].plan = groups[h][l].plan
    BY DEF Structure, GroupsLinked
  \* An order that belongs to another group is not written.
  <1>6. ASSUME NEW h \in DOMAIN groups, h # g, NEW l \in DOMAIN groups[h]
        PROVE  groups[h][l].order \notin Range(ids)
    BY <1>5, <1>6 DEF GroupIdsOf, GroupOrders
  <1>7. ASSUME NEW o \in DOMAIN orders', orders'[o].group # None
        PROVE  /\ orders'[o].group \in DOMAIN groups'
               /\ \E l \in DOMAIN groups'[orders'[o].group] : groups'[orders'[o].group][l].order = o
    <2>1. CASE o \in Range(ids)
      <3>1. PICK l \in DOMAIN legs : o = ids[l]
        BY <1>2, <2>1
      <3>2. QED BY <1>3, <1>4, <3>1
    <2>2. CASE o \notin Range(ids)
      <3>1. o \in DOMAIN orders /\ orders'[o] = orders[o]
        BY <1>2, <1>7, <2>2
      <3>2. PICK l \in DOMAIN groups[orders[o].group] : groups[orders[o].group][l].order = o
        BY <1>5, <1>7, <3>1
      <3>3. orders[o].group \in DOMAIN groups
        BY <1>5, <1>7, <3>1
      <3>4. orders[o].group # g
        BY <2>2, <3>1, <3>2, <3>3 DEF GroupIdsOf, GroupOrders
      <3>5. QED BY <1>4, <3>1, <3>2, <3>3, <3>4
    <2>3. QED BY <2>1, <2>2
  <1>8. ASSUME NEW h \in DOMAIN groups', NEW l \in DOMAIN groups'[h]
        PROVE  /\ groups'[h][l].order \in DOMAIN orders'
               /\ orders'[groups'[h][l].order].group = h
               /\ orders'[groups'[h][l].order].plan = groups'[h][l].plan
    <2>1. CASE h = g
      BY <1>2, <1>3, <1>4, <1>8, <2>1
    <2>2. CASE h # g
      <3>1. h \in DOMAIN groups /\ groups'[h] = groups[h] /\ l \in DOMAIN groups[h]
        BY <1>4, <1>8, <2>2
      <3>2. groups[h][l].order \notin Range(ids)
        BY <1>6, <2>2, <3>1
      <3>3. QED BY <1>2, <1>5, <3>1, <3>2
    <2>3. QED BY <2>1, <2>2
  <1>9. "PLATFORM_OCO" \in Capabilities
    BY DEF GroupOK
  <1>10. GroupsLinked'
    BY <1>7, <1>8, <1>9 DEF GroupsLinked
  <1>11. IdsOK'
    <2>1. \A o \in Range(ids) : o \in OrderIds
      BY <1>5 DEF GroupIdsOf, GroupOrders, Structure, IdsOK
    <2>2. g \in GroupIds
      BY DEF GroupIdsOf, Structure, IdsOK
    <2>3. QED BY <1>2, <1>4, <2>1, <2>2 DEF Structure, IdsOK
  <1>12. QED BY <1>2, <1>10, <1>11 DEF Structure, OnePerSymbol

\* Positions leave, or keep their symbols.
LEMMA PositionsKeepStructure ==
  ASSUME Structure, UNCHANGED <<orders, groups>>, DOMAIN positions' \subseteq DOMAIN positions,
         \A p \in DOMAIN positions' : positions'[p].symbol = positions[p].symbol
  PROVE  Structure'
  BY DEF Structure, GroupsLinked, IdsOK, OnePerSymbol

LEMMA DropOrdersStructure ==
  ASSUME BookSound, Structure, NEW S, DropOrders(S), UNCHANGED positions
  PROVE  Structure'
  <1>1. /\ GroupsLinked'
        /\ DOMAIN groups' \subseteq DOMAIN groups /\ DOMAIN orders' \subseteq DOMAIN orders
    BY LinkedMinus DEF DropOrders, Structure
  <1>2. QED BY <1>1 DEF Structure, IdsOK, OnePerSymbol

LEMMA DropPositionsStructure ==
  ASSUME Structure, NEW S, DropPositions(S), UNCHANGED <<orders, groups>>
  PROVE  Structure'
  <1>1. /\ DOMAIN positions' = DOMAIN positions \ S
        /\ \A p \in DOMAIN positions \ S : positions'[p] = positions[p]
    BY DEF DropPositions, Without, Restrict
  <1>2. QED BY <1>1, PositionsKeepStructure

LEMMA NewPosition ==
  ASSUME Structure, NEW p \in PositionIds \ DOMAIN positions, NEW pos,
         positions' = With(positions, p, pos), MayOpen(pos.symbol)
  PROVE  OnePerSymbol' /\ DOMAIN positions' \subseteq PositionIds
  <1>1. /\ DOMAIN positions' = DOMAIN positions \union {p}
        /\ positions'[p] = pos
        /\ \A k \in DOMAIN positions : k # p => positions'[k] = positions[k]
    BY DEF With
  <1>2. QED BY <1>1 DEF Structure, IdsOK, OnePerSymbol, MayOpen

LEMMA FillOrderStructure ==
  ASSUME BookSound, BoundedProtection, Structure, NEW o, FillOrder(o)
  PROVE  Structure'
  <1>1. PICK S, p : Filled(o, S, p)
    BY FillOrderKeeps
  <1>2. orders' = OrdersMinus(S) /\ groups' = GroupsMinus(S)
    BY <1>1 DEF Filled
  <1>3. /\ p \in PositionIds \ DOMAIN positions
        /\ positions' = With(positions, p, PositionAt(orders[o], Basis(orders[o])))
    BY <1>1 DEF Filled
  <1>4. /\ GroupsLinked'
        /\ DOMAIN groups' \subseteq DOMAIN groups /\ DOMAIN orders' \subseteq DOMAIN orders
    BY <1>2, LinkedMinus DEF Structure
  <1>5. OnePerSymbol' /\ DOMAIN positions' \subseteq PositionIds
    <2>1. PositionAt(orders[o], Basis(orders[o])).symbol = orders[o].symbol
      BY DEF PositionAt
    <2>2. MayOpen(orders[o].symbol)
      BY DEF FillOrder
    <2>3. QED BY <1>3, <2>1, <2>2, NewPosition
  <1>6. QED BY <1>4, <1>5 DEF Structure, IdsOK

LEMMA SucceedsStructure ==
  ASSUME BookSound, Structure, NEW i \in Intents, Acceptable(i), Succeeds(i)
  PROVE  Structure'
  <1>1. CASE i.kind = "place_order" /\ OpenPosition(i)
    <2> DEFINE pos == PositionAt(i, EntryBasis(i.symbol, IsBuy(i.type)))
    <2>1. PICK p \in PositionIds \ DOMAIN positions : positions' = With(positions, p, pos)
      BY <1>1 DEF OpenPosition
    <2>2. MayOpen(pos.symbol) /\ UNCHANGED <<orders, groups>>
      BY <1>1 DEF OpenPosition, PositionAt
    <2> HIDE DEF pos
    <2>3. OnePerSymbol' /\ DOMAIN positions' \subseteq PositionIds
      BY <2>1, <2>2, NewPosition
    <2>4. QED BY <2>2, <2>3 DEF Structure, GroupsLinked, IdsOK
  <1>2. CASE i.kind = "place_order" /\ PlacePending(i)
    <2>1. PICK o \in OrderIds \ DOMAIN orders, x \in PlanIdsFor(i.exit) :
             orders' = With(orders, o, OrderFrom(i, x, None))
      BY <1>2 DEF PlacePending
    <2>2. /\ DOMAIN orders' = DOMAIN orders \union {o} /\ orders'[o].group = None
          /\ \A k \in DOMAIN orders : orders'[k] = orders[k]
      BY <2>1 DEF With, OrderFrom
    <2>3. UNCHANGED <<positions, groups>>
      BY <1>2 DEF PlacePending
    <2>4. GroupsLinked'
      BY <2>2, <2>3 DEF Structure, GroupsLinked
    <2>5. QED BY <2>2, <2>3, <2>4 DEF Structure, IdsOK, OnePerSymbol
  <1>3. CASE \/ i.kind = "place_oco" /\ PlaceGroup(i)
             \/ i.kind = "modify_oco" /\ ReplaceGroup(i)
    <2>1. /\ i.kind = "modify_oco" => ModifyOcoOK(i)
          /\ GroupOK(i.legs)
      BY <1>3, AcceptableIntents DEF ModifyOcoOK, Acceptable
    <2>2. PICK g, ids, xs, ps : /\ GroupIdsOf(g, ids)
                                /\ GroupReady(g, i.legs, ids, xs, ps, Reserved(i))
                                /\ SetGroup(g, i.legs, ids, xs, ps)
      BY <1>3, <2>1, PlaceGroupReady, ReplaceGroupReady
    <2>3. QED BY <2>1, <2>2, SetGroupLinked
  <1>4. CASE i.kind = "modify_order" /\ ModifyOrder(i)
    <2>1. i.order \in DOMAIN orders /\ DOMAIN orders[i.order] = OrderFields
      BY <1>4, AcceptableIntents DEF ModifyOK, BookSound, OrdersSound
    <2>2. /\ Modified(orders[i.order], i).plan = orders[i.order].plan
          /\ Modified(orders[i.order], i).group = orders[i.order].group
      BY <2>1 DEF Modified, OrderFields
    <2>3. /\ DOMAIN orders' = DOMAIN orders
          /\ \A k \in DOMAIN orders :
                orders'[k].plan = orders[k].plan /\ orders'[k].group = orders[k].group
          /\ UNCHANGED <<positions, groups>>
      BY <1>4, <2>1, <2>2 DEF ModifyOrder
    <2>4. GroupsLinked'
      BY <2>3 DEF Structure, GroupsLinked
    <2>5. QED BY <2>3, <2>4 DEF Structure, IdsOK, OnePerSymbol
  <1>5. CASE i.kind = "protect_position" /\ Protect(i)
    <2>1. i.position \in DOMAIN positions /\ DOMAIN positions[i.position] = PositionFields
      BY <1>5, AcceptableIntents DEF ProtectOK, BookSound, PositionsSound
    <2>2. /\ DOMAIN positions' = DOMAIN positions
          /\ \A p \in DOMAIN positions : positions'[p].symbol = positions[p].symbol
      BY <1>5, <2>1 DEF Protect, PositionFields
    <2>3. UNCHANGED <<orders, groups>>
      BY <1>5 DEF Protect
    <2>4. QED BY <2>2, <2>3, PositionsKeepStructure
  <1>6. CASE i.kind = "modify_plan" /\ ReplacePlan(i)
    BY <1>6, PositionsKeepStructure DEF ReplacePlan
  <1>7. CASE i.kind = "clear_plan" /\ ClearPlan(i)
    <2>1. /\ DOMAIN orders' = DOMAIN orders
          /\ \A o \in DOMAIN orders :
                /\ orders'[o].group = orders[o].group
                /\ orders'[o].plan = IF orders[o].plan = i.plan THEN None ELSE orders[o].plan
      <3>1. \A o \in DOMAIN orders : DOMAIN orders[o] = OrderFields
        BY DEF BookSound, OrdersSound
      <3>2. QED BY <1>7, <3>1 DEF ClearPlan, OrderFields
    <2>2. /\ DOMAIN groups' = DOMAIN groups
          /\ \A g \in DOMAIN groups :
                /\ DOMAIN groups'[g] = DOMAIN groups[g]
                /\ \A l \in DOMAIN groups[g] :
                      /\ groups'[g][l].order = groups[g][l].order
                      /\ groups'[g][l].plan =
                            IF groups[g][l].plan = i.plan THEN None ELSE groups[g][l].plan
      <3>1. \A g \in DOMAIN groups : \A l \in DOMAIN groups[g] :
               DOMAIN groups[g][l] = {"order", "plan"}
        BY DEF BookSound, GroupsSound
      <3>2. QED BY <1>7, <3>1 DEF ClearPlan
    <2>3. UNCHANGED positions
      BY <1>7 DEF ClearPlan
    <2>4. GroupsLinked'
      BY <2>1, <2>2 DEF Structure, GroupsLinked
    <2>5. QED BY <2>1, <2>2, <2>3, <2>4 DEF Structure, IdsOK, OnePerSymbol
  <1>8. CASE i.kind \in {"cancel_oco", "cancel_order", "close_position", "close_by"}
    <2>1. \/ \E S : DropOrders(S) /\ UNCHANGED positions
          \/ \E S : DropPositions(S) /\ UNCHANGED <<orders, groups>>
      BY <1>8 DEF Succeeds, ClosePosition, CloseBy
    <2>2. QED BY <2>1, DropOrdersStructure, DropPositionsStructure
  <1>9. QED
    BY <1>1, <1>2, <1>3, <1>4, <1>5, <1>6, <1>7, <1>8 DEF Succeeds

-----------------------------------------------------------------------------
(* Positions, orders and legs are records, for the type invariant.         *)

IsRecord(r) == r = [f \in DOMAIN r |-> r[f]]

Shapes ==
    /\ \A p \in DOMAIN positions : IsRecord(positions[p])
    /\ \A o \in DOMAIN orders : IsRecord(orders[o])
    /\ \A g \in DOMAIN groups : \A l \in DOMAIN groups[g] : IsRecord(groups[g][l])

LEMMA RecordsAre ==
  /\ \A i, price : IsRecord(PositionAt(i, price))
  /\ \A i, x, g : IsRecord(OrderFrom(i, x, g))
  /\ \A o, i : IsRecord(Modified(o, i))
  /\ \A r, v : IsRecord([r EXCEPT !.group = v])
  /\ \A r, v : IsRecord([r EXCEPT !.plan = v])
  /\ \A x, y : IsRecord([order |-> x, plan |-> y])
  <1>1. \A i, price : IsRecord(PositionAt(i, price))
    BY DEF IsRecord, PositionAt
  <1>2. \A i, x, g : IsRecord(OrderFrom(i, x, g))
    BY DEF IsRecord, OrderFrom
  <1>3. ASSUME NEW o, NEW i PROVE IsRecord(Modified(o, i))
    <2>1. PICK r : r = Modified(o, i)
      OBVIOUS
    <2>2. DOMAIN r = DOMAIN o /\ r = [f \in DOMAIN o |-> r[f]]
      BY <2>1 DEF Modified
    <2>3. QED BY <2>1, <2>2 DEF IsRecord
  <1>4. \A r, v : IsRecord([r EXCEPT !.group = v])
    BY DEF IsRecord
  <1>5. \A r, v : IsRecord([r EXCEPT !.plan = v])
    BY DEF IsRecord
  <1>6. \A x, y : IsRecord([order |-> x, plan |-> y])
    BY DEF IsRecord
  <1>7. QED BY <1>1, <1>2, <1>3, <1>4, <1>5, <1>6

LEMMA ShapesMinus ==
  ASSUME NEW S, Shapes
  PROVE  /\ \A o \in DOMAIN OrdersMinus(S) : IsRecord(OrdersMinus(S)[o])
         /\ \A g \in DOMAIN GroupsMinus(S) : \A l \in DOMAIN GroupsMinus(S)[g] :
               IsRecord(GroupsMinus(S)[g][l])
  <1>1. \A o \in DOMAIN OrdersMinus(S) : IsRecord(OrdersMinus(S)[o])
    <2>1. ASSUME NEW o \in DOMAIN OrdersMinus(S) PROVE IsRecord(OrdersMinus(S)[o])
      <3>1. /\ o \in DOMAIN orders
            /\ OrdersMinus(S)[o] \in {orders[o], [orders[o] EXCEPT !.group = None]}
        BY DEF OrdersMinus
      <3>2. IsRecord([orders[o] EXCEPT !.group = None])
        BY RecordsAre
      <3>3. QED BY <3>1, <3>2 DEF Shapes
    <2>2. QED BY <2>1
  <1>2. QED BY <1>1, GroupsMinusIs DEF Shapes

LEMMA DropOrdersShapes ==
  ASSUME NEW S, Shapes, DropOrders(S), UNCHANGED positions
  PROVE  Shapes'
  <1>1. orders' = OrdersMinus(S) /\ groups' = GroupsMinus(S)
    BY DEF DropOrders
  <1>2. QED BY <1>1, ShapesMinus DEF Shapes

LEMMA DropPositionsShapes ==
  ASSUME NEW S, Shapes, DropPositions(S), UNCHANGED <<orders, groups>>
  PROVE  Shapes'
  <1>1. /\ DOMAIN positions' = DOMAIN positions \ S
        /\ \A p \in DOMAIN positions \ S : positions'[p] = positions[p]
    BY DEF DropPositions, Without, Restrict
  <1>2. QED BY <1>1 DEF Shapes

LEMMA WithShapes ==
  ASSUME NEW f, NEW x, NEW v, \A y \in DOMAIN f : IsRecord(f[y]), IsRecord(v)
  PROVE  \A y \in DOMAIN With(f, x, v) : IsRecord(With(f, x, v)[y])
  BY DEF With

LEMMA FillOrderShapes ==
  ASSUME Shapes, BookSound, BoundedProtection, NEW o, FillOrder(o)
  PROVE  Shapes'
  <1>1. PICK S, p : Filled(o, S, p)
    BY FillOrderKeeps
  <1>2. /\ orders' = OrdersMinus(S) /\ groups' = GroupsMinus(S)
        /\ positions' = With(positions, p, PositionAt(orders[o], Basis(orders[o])))
    BY <1>1 DEF Filled
  <1>3. \A k \in DOMAIN positions' : IsRecord(positions'[k])
    BY <1>2, RecordsAre, WithShapes DEF Shapes
  <1>4. QED BY <1>2, <1>3, ShapesMinus DEF Shapes

LEMMA SucceedsShapes ==
  ASSUME Shapes, BookSound, NEW i \in Intents, Acceptable(i), Succeeds(i)
  PROVE  Shapes'
  <1>1. CASE i.kind = "place_order" /\ OpenPosition(i)
    <2>1. PICK p : positions' = With(positions, p, PositionAt(i, EntryBasis(i.symbol, IsBuy(i.type))))
      BY <1>1 DEF OpenPosition
    <2>2. \A k \in DOMAIN positions' : IsRecord(positions'[k])
      BY <2>1, RecordsAre, WithShapes DEF Shapes
    <2>3. UNCHANGED <<orders, groups>>
      BY <1>1 DEF OpenPosition
    <2>4. QED BY <2>2, <2>3 DEF Shapes
  <1>2. CASE i.kind = "place_order" /\ PlacePending(i)
    <2>1. PICK o, x : orders' = With(orders, o, OrderFrom(i, x, None))
      BY <1>2 DEF PlacePending
    <2>2. \A k \in DOMAIN orders' : IsRecord(orders'[k])
      BY <2>1, RecordsAre, WithShapes DEF Shapes
    <2>3. UNCHANGED <<positions, groups>>
      BY <1>2 DEF PlacePending
    <2>4. QED BY <2>2, <2>3 DEF Shapes
  <1>3. CASE \/ i.kind = "place_oco" /\ PlaceGroup(i)
             \/ i.kind = "modify_oco" /\ ReplaceGroup(i)
    <2>1. i.kind = "modify_oco" => ModifyOcoOK(i)
      BY AcceptableIntents
    <2>2. PICK g, ids, xs, ps : /\ GroupReady(g, i.legs, ids, xs, ps, Reserved(i))
                                /\ SetGroup(g, i.legs, ids, xs, ps)
      BY <1>3, <2>1, PlaceGroupReady, ReplaceGroupReady
    <2>3. GroupWritten(g, i.legs, ids, xs, ps)
      BY <2>2, SetGroupWrites
    <2>4. ASSUME NEW o \in DOMAIN orders' PROVE IsRecord(orders'[o])
      <3>1. CASE o \in Range(ids)
        <4>1. PICK l \in DOMAIN ids : o = ids[l]
          BY <3>1 DEF Range
        <4>2. DOMAIN ids = DOMAIN i.legs
          BY <2>2 DEF GroupReady
        <4>3. orders'[o] = OrderFrom(i.legs[l], xs[l], g)
          BY <2>3, <4>1, <4>2 DEF GroupWritten
        <4>4. QED BY <4>3, RecordsAre
      <3>2. CASE o \notin Range(ids)
        BY <2>3, <2>4, <3>2 DEF GroupWritten, Shapes
      <3>3. QED BY <3>1, <3>2
    <2> DEFINE legs == [l \in DOMAIN i.legs |-> [order |-> ids[l], plan |-> xs[l]]]
    <2>5. groups' = With(groups, g, legs) /\ UNCHANGED positions
      BY <2>3 DEF GroupWritten
    <2>6. \A l \in DOMAIN legs : IsRecord(legs[l])
      BY RecordsAre
    <2> HIDE DEF legs
    <2>7. \A h \in DOMAIN groups' : \A l \in DOMAIN groups'[h] : IsRecord(groups'[h][l])
      BY <2>5, <2>6 DEF With, Shapes
    <2>8. QED BY <2>4, <2>5, <2>7 DEF Shapes
  <1>4. CASE i.kind = "modify_order" /\ ModifyOrder(i)
    <2>1. i.order \in DOMAIN orders
      BY <1>4, AcceptableIntents DEF ModifyOK
    <2>2. /\ DOMAIN orders' = DOMAIN orders
          /\ orders'[i.order] = Modified(orders[i.order], i)
          /\ \A k \in DOMAIN orders : k # i.order => orders'[k] = orders[k]
          /\ UNCHANGED <<positions, groups>>
      BY <1>4, <2>1 DEF ModifyOrder
    <2>3. QED BY <2>2, RecordsAre DEF Shapes
  <1>5. CASE i.kind = "protect_position" /\ Protect(i)
    <2>1. i.position \in DOMAIN positions /\ DOMAIN positions[i.position] = PositionFields
      BY <1>5, AcceptableIntents DEF ProtectOK, BookSound, PositionsSound
    <2>2. /\ DOMAIN positions' = DOMAIN positions
          /\ \A p \in DOMAIN positions : p # i.position => positions'[p] = positions[p]
          /\ IsRecord(positions'[i.position])
      BY <1>5, <2>1 DEF Protect, PositionFields, IsRecord
    <2>3. UNCHANGED <<orders, groups>>
      BY <1>5 DEF Protect
    <2>4. QED BY <2>2, <2>3 DEF Shapes
  <1>6. CASE i.kind = "modify_plan" /\ ReplacePlan(i)
    BY <1>6 DEF ReplacePlan, Shapes
  <1>7. CASE i.kind = "clear_plan" /\ ClearPlan(i)
    <2>1. \A o \in DOMAIN orders' : IsRecord(orders'[o])
      <3>1. /\ DOMAIN orders' = DOMAIN orders
            /\ \A o \in DOMAIN orders : orders'[o] =
                  [orders[o] EXCEPT !.plan = IF orders[o].plan = i.plan THEN None ELSE orders[o].plan]
        BY <1>7 DEF ClearPlan
      <3>2. QED BY <3>1, RecordsAre
    <2>2. \A g \in DOMAIN groups' : \A l \in DOMAIN groups'[g] : IsRecord(groups'[g][l])
      <3>1. /\ DOMAIN groups' = DOMAIN groups
            /\ \A g \in DOMAIN groups :
                  /\ DOMAIN groups'[g] = DOMAIN groups[g]
                  /\ \A l \in DOMAIN groups[g] : groups'[g][l] =
                        [groups[g][l] EXCEPT !.plan =
                            IF groups[g][l].plan = i.plan THEN None ELSE groups[g][l].plan]
        BY <1>7 DEF ClearPlan
      <3>2. ASSUME NEW g \in DOMAIN groups, NEW l \in DOMAIN groups[g]
            PROVE  IsRecord(groups'[g][l])
        <4>1. PICK v : v = IF groups[g][l].plan = i.plan THEN None ELSE groups[g][l].plan
          OBVIOUS
        <4>2. groups'[g][l] = [groups[g][l] EXCEPT !.plan = v]
          BY <3>1, <3>2, <4>1
        <4>3. IsRecord([groups[g][l] EXCEPT !.plan = v])
          BY RecordsAre
        <4>4. QED BY <4>2, <4>3
      <3>3. QED BY <3>1, <3>2
    <2>3. UNCHANGED positions
      BY <1>7 DEF ClearPlan
    <2>4. QED BY <2>1, <2>2, <2>3 DEF Shapes
  <1>8. CASE i.kind \in {"cancel_oco", "cancel_order", "close_position", "close_by"}
    <2>1. \/ \E S : DropOrders(S) /\ UNCHANGED positions
          \/ \E S : DropPositions(S) /\ UNCHANGED <<orders, groups>>
      BY <1>8 DEF Succeeds, ClosePosition, CloseBy
    <2>2. QED BY <2>1, DropOrdersShapes, DropPositionsShapes
  <1>9. QED
    BY <1>1, <1>2, <1>3, <1>4, <1>5, <1>6, <1>7, <1>8 DEF Succeeds

-----------------------------------------------------------------------------
(* The second invariant is inductive, given the first.                     *)

GoodSession == BookGood /\ StopsAway /\ Structure /\ MarketOK /\ Shapes

LEMMA InitGood == Init => GoodSession
  <1> SUFFICES ASSUME Init PROVE GoodSession
    OBVIOUS
  <1>1. DOMAIN positions = {} /\ DOMAIN orders = {} /\ DOMAIN groups = {}
    BY DEF Init
  <1>2. BookGood /\ StopsAway /\ Shapes
    BY <1>1 DEF BookGood, StopsAway, Shapes
  <1>3. Structure
    BY <1>1 DEF Structure, GroupsLinked, IdsOK, OnePerSymbol
  <1>4. \A s : Visible(s) = {}
    BY DEF Init, Visible
  <1>5. history \in [Feeds -> [bars : Nat, age : Nat, bid : Int, ask : Int, latest : BOOLEAN]]
    BY FeedTypes DEF Init
  <1>6. MarketOK
    BY <1>4, <1>5 DEF Init, MarketOK, LatestOK
  <1>7. QED BY <1>2, <1>3, <1>6 DEF GoodSession

LEMMA CloseBarSession ==
  ASSUME SessionInv, GoodSession, NEW f \in Feeds, NEW q \in Quotes[f], CloseBar(f, q)
  PROVE  GoodSession'
  <1>1. BookSound /\ BoundedProtection
    BY DEF SessionInv
  <1>2. BookGood /\ StopsAway /\ Structure /\ MarketOK /\ Shapes
    BY DEF GoodSession
  <1>3. PICK S : DropPositions(S) /\ UNCHANGED <<orders, groups>>
    BY DEF CloseBar
  <1>4. BookGood' /\ StopsAway'
    BY <1>1, <1>2, CloseBarGood
  <1>5. MarketOK'
    BY <1>2, BarMarket
  <1>6. Structure' /\ Shapes'
    BY <1>2, <1>3, DropPositionsStructure, DropPositionsShapes
  <1>7. QED BY <1>4, <1>5, <1>6 DEF GoodSession

LEMMA FillOrderSession ==
  ASSUME SessionInv, GoodSession, NEW o, FillOrder(o)
  PROVE  GoodSession'
  <1>1. BookSound /\ BoundedProtection
    BY DEF SessionInv
  <1>2. BookGood /\ StopsAway /\ Structure /\ MarketOK /\ Shapes
    BY DEF GoodSession
  <1>3. /\ o \in DOMAIN orders /\ moved' = moved \union {orders[o].symbol}
        /\ UNCHANGED history /\ event' = event
    BY DEF FillOrder
  <1>4. orders[o].symbol \in Symbols
    BY <1>2, <1>3 DEF BookGood, OrderGood
  <1>5. MarketOK'
    <2>1. moved' \subseteq Symbols
      BY <1>2, <1>3, <1>4 DEF MarketOK
    <2>2. QED BY <1>2, <1>3, <2>1, QuietMarket
  <1>6. BookGood' /\ StopsAway'
    BY <1>1, <1>2, FillOrderGood
  <1>7. Structure' /\ Shapes'
    BY <1>1, <1>2, FillOrderStructure, FillOrderShapes
  <1>8. QED BY <1>5, <1>6, <1>7 DEF GoodSession

LEMMA ExecuteSession ==
  ASSUME SessionInv, GoodSession, NEW i \in Intents, Execute(i)
  PROVE  GoodSession'
  <1>1. BookSound /\ BoundedProtection /\ PendingStaysValid
    BY DEF SessionInv
  <1>2. BookGood /\ StopsAway /\ Structure /\ MarketOK /\ Shapes
    BY DEF GoodSession
  <1>3. i \in pending /\ Succeeds(i) /\ UNCHANGED <<event, history, moved>>
    BY DEF Execute, Done
  <1>4. Acceptable(i)
    BY <1>1, <1>3 DEF PendingStaysValid
  <1>5. MarketOK'
    <2>1. moved' \subseteq Symbols
      BY <1>2, <1>3 DEF MarketOK
    <2>2. QED BY <1>2, <1>3, <2>1, QuietMarket
  <1>6. BookGood' /\ StopsAway'
    BY <1>1, <1>2, <1>3, <1>4, SucceedsGood
  <1>7. Structure' /\ Shapes'
    BY <1>1, <1>2, <1>3, <1>4, SucceedsStructure, SucceedsShapes
  <1>8. QED BY <1>5, <1>6, <1>7 DEF GoodSession

\* A step that leaves the market and the book alone.
LEMMA SameBookGood ==
  ASSUME UNCHANGED <<history, book, moved>>, event' \in {event, None}, SessionInv, GoodSession
  PROVE  GoodSession'
  <1>1. UNCHANGED <<history, positions, orders, groups, plans, moved>>
    BY DEF book
  <1>2. BookSound /\ BookGood /\ StopsAway /\ Structure /\ MarketOK /\ Shapes
    BY DEF SessionInv, GoodSession
  <1>3. BookSound' /\ Frame({})
    BY <1>1, <1>2 DEF BookSound, OrdersSound, PositionsSound, PlansSound, GroupsSound, Unique,
                      Frame, OrdersStay, PositionsStay, PlansStay, GroupsStay
  <1>4. Unique(plans)'
    BY <1>3 DEF BookSound, PlansSound
  <1>5. /\ \A o \in DOMAIN orders' : ~Touched("order", orders, o, {})
        /\ \A p \in DOMAIN positions' : ~Touched("position", positions, p, {})
    BY <1>1 DEF Touched
  <1>6. BookGood' /\ StopsAway'
    BY <1>1, <1>2, <1>3, <1>4, <1>5, QuietStaysGood
  <1>7. Structure'
    BY <1>1, <1>2 DEF Structure, GroupsLinked, IdsOK, OnePerSymbol
  <1>8. MarketOK'
    <2>1. moved' \subseteq Symbols
      BY <1>1, <1>2 DEF MarketOK
    <2>2. QED BY <1>1, <1>2, <2>1, QuietMarket
  <1>9. Shapes'
    BY <1>1, <1>2 DEF Shapes
  <1>10. QED BY <1>6, <1>7, <1>8, <1>9 DEF GoodSession

LEMMA NextKeepsGood == SessionInv /\ GoodSession /\ [Next]_vars => GoodSession'
  <1> SUFFICES ASSUME SessionInv, GoodSession, [Next]_vars PROVE GoodSession'
    OBVIOUS
  <1>1. ASSUME NEW f \in Feeds, NEW q \in Quotes[f], CloseBar(f, q)
        PROVE  GoodSession'
    BY <1>1, CloseBarSession
  <1>2. ASSUME NEW o \in OrderIds, FillOrder(o)
        PROVE  GoodSession'
    BY <1>2, FillOrderSession
  <1>3. CASE Decide
    BY <1>3, SameBookGood DEF Decide
  <1>4. CASE RefuseContext
    BY <1>4, SameBookGood DEF RefuseContext
  <1>5. ASSUME NEW i \in Intents, Execute(i)
        PROVE  GoodSession'
    BY <1>5, ExecuteSession
  <1>6. ASSUME NEW i \in Intents, Reject(i)
        PROVE  GoodSession'
    BY <1>6, SameBookGood DEF Reject, Done
  <1>7. CASE UNCHANGED vars
    <2>1. /\ history' = history /\ positions' = positions /\ orders' = orders
          /\ groups' = groups /\ plans' = plans /\ moved' = moved /\ event' = event
      BY <1>7 DEF vars
    <2>2. UNCHANGED <<history, book, moved>>
      BY <2>1 DEF book
    <2>3. QED BY <2>1, <2>2, SameBookGood
  <1>8. QED BY <1>1, <1>2, <1>3, <1>4, <1>5, <1>6, <1>7 DEF Next

(* Both invariants hold of every session: the book is consistent, and what  *)
(* is in it still satisfies the rules it was accepted under                 *)
(* (StrategyContext.validate_snapshot, validate_strategy_output).           *)
THEOREM GoodSessionInvariant == Spec => [](SessionInv /\ GoodSession)
<1>1. Init => SessionInv /\ GoodSession
  BY InitSession, InitGood
<1>2. SessionInv /\ GoodSession /\ [Next]_vars => (SessionInv /\ GoodSession)'
  BY NextKeepsSession, NextKeepsGood
<1>3. QED BY <1>1, <1>2, PTL DEF Spec

-----------------------------------------------------------------------------
(* What the invariants say of a snapshot.                                  *)

\* A quote moves only the stop of a buy that trails from the start.
LEMMA DirectionMoves ==
  ASSUME NEW buy, NEW basis, NEW x, NEW t, NEW quote, ExitDirectionOK(buy, basis, x, t),
         buy /\ x.trail # None /\ x.trail.activation = None => quote - x.trail.distance > 0
  PROVE  ExitDirectionOK(buy, basis, x, quote)
  BY DEF ExitDirectionOK

LEMMA OrdersVisible ==
  ASSUME SessionInv, GoodSession, NEW o \in DOMAIN orders
  PROVE  OrderVisible(o)
  <1>1. OrderGood(orders[o], ExitIn(plans, "order", o))
    BY DEF GoodSession, BookGood
  <1>2. GroupsLinked /\ BookSound /\ OneStop(orders[o], ExitIn(plans, "order", o))
    BY ExitForIn DEF SessionInv, GoodSession, Structure, BoundedProtection
  <1>3. ASSUME NEW x, x = orders[o].plan, x # None
        PROVE  /\ x \in DOMAIN plans /\ plans[x].kind = "order" /\ plans[x].target = o
               /\ orders[o].sl = None => plans[x].exit.bracket # None
    <2>1. x \in DOMAIN plans /\ plans[x].kind = "order" /\ plans[x].target = o
      BY <1>2, <1>3 DEF BookSound, OrdersSound
    <2>2. ExitIn(plans, "order", o) = plans[x].exit /\ plans[x].exit # None
      BY <1>2, <2>1, ExitOfPlan DEF BookSound, PlansSound
    <2>3. QED BY <1>2, <2>1, <2>2 DEF OneStop, Bracket
  <1>4. orders[o].group # None =>
           /\ orders[o].group \in DOMAIN groups
           /\ \E l \in DOMAIN groups[orders[o].group] : groups[orders[o].group][l].order = o
    BY <1>2 DEF GroupsLinked
  <1>5. QED BY <1>1, <1>3, <1>4 DEF OrderGood, OrderVisible

LEMMA GroupsVisible ==
  ASSUME SessionInv, GoodSession, NEW g \in DOMAIN groups
  PROVE  GroupVisible(g)
  <1>1. GroupsLinked /\ GroupsSound
    BY DEF SessionInv, BookSound, GoodSession, Structure
  <1>2. QED BY <1>1 DEF GroupsLinked, GroupsSound, GroupVisible

LEMMA PositionsVisible ==
  ASSUME SessionInv, GoodSession, NEW p \in DOMAIN positions
  PROVE  PositionVisible(p)
  <1>1. positions[p].symbol \in Symbols
    BY DEF GoodSession, BookGood, PositionGood
  <1>2. OneStop(positions[p], ExitFor("position", p))
    BY DEF SessionInv, BoundedProtection
  <1>3. QED BY <1>1, <1>2 DEF PositionVisible, OneStop

LEMMA OrderPlansVisible ==
  ASSUME SessionInv, GoodSession, NEW x \in DOMAIN plans, plans[x].kind = "order"
  PROVE  OrderPlanVisible(x)
  <1>1. PICK o : o = plans[x].target
    OBVIOUS
  <1>2. PICK exit : exit = plans[x].exit
    OBVIOUS
  <1>3. o \in DOMAIN orders /\ orders[o].plan = x /\ exit # None /\ Unique(plans)
    BY <1>1, <1>2 DEF SessionInv, BookSound, PlansSound
  <1>4. ExitIn(plans, "order", o) = exit
    BY <1>1, <1>2, <1>3, ExitOfPlan
  <1>5. OrderGood(orders[o], exit)
    BY <1>3, <1>4 DEF GoodSession, BookGood
  <1>6. Basis(orders[o]) # None
    BY <1>5, BasisIsInt DEF OrderGood, PendingOK
  <1>7. /\ NotDuplicated(orders[o], exit)
        /\ BracketOK(IsBuy(orders[o].type), Basis(orders[o]), Basis(orders[o]), exit.bracket)
        /\ ExitDirectionOK(IsBuy(orders[o].type), Basis(orders[o]), exit, Basis(orders[o]))
    BY <1>3, <1>5, <1>6 DEF OrderGood, RelationsOK
  <1>8. QED BY <1>1, <1>2, <1>3, <1>7 DEF OrderPlanVisible

LEMMA PositionPlansVisible ==
  ASSUME SessionInv, GoodSession, TrailsBelowQuotes,
         NEW x \in DOMAIN plans, plans[x].kind = "position",
         positions[plans[x].target].symbol \notin moved
  PROVE  PositionPlanVisible(x)
  <1>1. PICK p, exit : p = plans[x].target /\ exit = plans[x].exit
    OBVIOUS
  <1>2. p \in DOMAIN positions /\ exit # None /\ Unique(plans)
    BY <1>1 DEF SessionInv, BookSound, PlansSound
  <1>3. ExitIn(plans, "position", p) = exit
    BY <1>1, <1>2, ExitOfPlan
  <1>4. PICK pos : pos = positions[p]
    OBVIOUS
  <1>5. /\ PositionGood(pos, exit) /\ Visible(pos.symbol) # {}
        /\ StopAway(pos, exit, ExitQuote(pos.symbol, pos.buy))
        /\ OneStop(pos, exit)
    BY <1>1, <1>2, <1>3, <1>4, ExitForIn
    DEF SessionInv, BoundedProtection, GoodSession, BookGood, StopsAway
  <1>6. PICK quote : quote = ExitQuote(pos.symbol, pos.buy)
    OBVIOUS
  <1>7. ExitBasis(pos.symbol, pos.buy) = quote /\ quote # None
    BY <1>5, <1>6, QuotesAreInt DEF GoodSession
  <1>8. NotDuplicated(pos, exit) /\ (pos.sl = None => exit.bracket # None)
    BY <1>2, <1>5 DEF PositionGood, OneStop, Bracket
  <1>9. BracketOK(pos.buy, pos.price, quote, exit.bracket)
    BY <1>2, <1>5, <1>6 DEF PositionGood, StopAway, Bracket, BracketOK
  <1>10. ExitDirectionOK(pos.buy, pos.price, exit, quote)
    <2>1. PICK t : ExitDirectionOK(pos.buy, pos.price, exit, t)
      BY <1>2, <1>5 DEF PositionGood
    <2>2. PICK f \in Feeds : \E q \in Quotes[f] : Latest(pos.symbol).bid = q.bid
      BY <1>5, LatestQuote DEF GoodSession
    <2>3. exit \in StrategyExits \ {None}
      BY <1>2, <1>5 DEF PositionGood, Sanctioned
    <2>4. pos.buy => quote = Latest(pos.symbol).bid
      BY <1>6 DEF ExitQuote
    <2>5. pos.buy /\ exit.trail # None /\ exit.trail.activation = None =>
             quote - exit.trail.distance > 0
      BY <2>2, <2>3, <2>4 DEF TrailsBelowQuotes
    <2>6. QED BY <2>1, <2>5, DirectionMoves
  <1>11. QED BY <1>1, <1>2, <1>4, <1>7, <1>8, <1>9, <1>10 DEF PositionPlanVisible

LEMMA InvariantsGiveSnapshot ==
  ASSUME TrailsBelowQuotes, SessionInv, GoodSession
  PROVE  SnapshotAccepted
  <1> SUFFICES ASSUME event # None, \A p \in DOMAIN positions : positions[p].symbol \notin moved
               PROVE  ValidContext
    BY DEF SnapshotAccepted
  <1>1. event \in Triggers /\ history[event].bars > 0
    BY DEF GoodSession, MarketOK
  <1>2. OnePerSymbol
    BY DEF GoodSession, Structure
  <1>3. ASSUME NEW x \in DOMAIN plans PROVE PlanVisible(x)
    <2>1. PlanFor(plans[x].kind, plans[x].target) = {x}
      BY DEF PlanFor, SessionInv, BookSound, PlansSound, Unique
    <2>2. CASE plans[x].kind = "order"
      BY <2>1, <2>2, OrderPlansVisible DEF PlanVisible
    <2>3. CASE plans[x].kind # "order"
      <3>1. plans[x].kind = "position" /\ plans[x].target \in DOMAIN positions
        BY <2>3 DEF SessionInv, BookSound, PlansSound
      <3>2. PositionPlanVisible(x)
        BY <3>1, PositionPlansVisible
      <3>3. QED BY <2>1, <2>3, <3>2 DEF PlanVisible
    <2>4. QED BY <2>2, <2>3
  <1>4. QED BY <1>1, <1>2, <1>3, OrdersVisible, GroupsVisible, PositionsVisible DEF ValidContext

(* Whatever accepted intents, fills, rejections and bars made of the book,  *)
(* the context validator accepts the next snapshot once every symbol with a *)
(* position has had a bar since its last fill                              *)
(* (StrategyContext.validate_snapshot after validate_strategy_output).  The *)
(* hypothesis is needed: a stop that trails further than a later bid is     *)
(* accepted, and then refused with the whole snapshot.                     *)
THEOREM SnapshotsAccepted == TrailsBelowQuotes => (Spec => []SnapshotAccepted)
<1> SUFFICES ASSUME TrailsBelowQuotes PROVE Spec => []SnapshotAccepted
  OBVIOUS
<1>1. SessionInv /\ GoodSession => SnapshotAccepted
  BY InvariantsGiveSnapshot
<1>2. QED BY GoodSessionInvariant, <1>1, PTL

-----------------------------------------------------------------------------
(* Exits.                                                                  *)

LEMMA VisibleIsDeclared ==
  ASSUME SessionInv, GoodSession
  PROVE  BookDeclared
  <1>1. DOMAIN groups # {} => "PLATFORM_OCO" \in Capabilities
    BY DEF GoodSession, Structure, GroupsLinked
  <1>2. \A o \in DOMAIN orders : orders[o].type \in OrderTypes /\ orders[o].filling \in Fillings
    BY DEF GoodSession, BookGood, OrderGood
  <1>3. ASSUME NEW x \in DOMAIN plans PROVE Granted(plans[x].exit)
    <2>1. PICK kind, t : kind = plans[x].kind /\ t = plans[x].target
      OBVIOUS
    <2>2. /\ Unique(plans) /\ plans[x].exit # None
          /\ \/ kind = "order" /\ t \in DOMAIN orders
             \/ kind = "position" /\ t \in DOMAIN positions
      BY <2>1 DEF SessionInv, BookSound, PlansSound
    <2>3. ExitIn(plans, kind, t) = plans[x].exit
      BY <2>1, <2>2, ExitOfPlan
    <2>4. Sanctioned(plans[x].exit)
      BY <2>2, <2>3 DEF GoodSession, BookGood, OrderGood, PositionGood
    <2>5. QED BY <2>2, <2>4 DEF Sanctioned
  <1>4. QED BY <1>1, <1>2, <1>3 DEF BookDeclared

\* An output of one intent that is no entry is accepted with the intent.
LEMMA ExitAlone ==
  ASSUME SessionInv, GoodSession, NEW i, ~IsEntry(i), Acceptable(i)
  PROVE  Accepted({i})
  BY VisibleIsDeclared DEF Accepted, EntryGate, NoCollisions

LEMMA ClosingIsAcceptable ==
  ASSUME CanClose, SessionInv, GoodSession, NEW p \in DOMAIN positions,
         NEW i, i = [kind |-> "close_position", position |-> p, whole |-> TRUE]
  PROVE  Accepted({i})
  <1>1. PICK type \in OrderTypes \ {"CLOSE_BY"} : positions[p].buy = IsBuy(type)
    BY DEF GoodSession, BookGood, PositionGood
  <1>2. ClosingType(positions[p].buy) \in OrderTypes /\ Executable(ClosingType(positions[p].buy))
    BY <1>1 DEF CanClose, ClosingType, Executable, MarketTypes
  <1>3. i.kind = "close_position" /\ i.position = p
    OBVIOUS
  <1>4. CloseOK(i)
    BY <1>2, <1>3 DEF CloseOK
  <1>5. Acceptable(i) /\ ~IsEntry(i)
    BY <1>3, <1>4 DEF Acceptable, IsEntry
  <1>6. QED BY <1>5, ExitAlone

LEMMA CancellingIsAcceptable ==
  ASSUME SessionInv, GoodSession
  PROVE  /\ \A o \in DOMAIN orders : Accepted({[kind |-> "cancel_order", order |-> o]})
         /\ \A g \in DOMAIN groups : Accepted({[kind |-> "cancel_oco", group |-> g]})
  <1>1. ASSUME NEW o \in DOMAIN orders, NEW i, i = [kind |-> "cancel_order", order |-> o]
        PROVE  Accepted({i})
    <2>1. i.kind = "cancel_order" /\ i.order \in DOMAIN orders
      BY <1>1
    <2>2. Acceptable(i) /\ ~IsEntry(i)
      BY <2>1 DEF Acceptable, IsEntry
    <2>3. QED BY <2>2, ExitAlone
  <1>2. ASSUME NEW g \in DOMAIN groups, NEW i, i = [kind |-> "cancel_oco", group |-> g]
        PROVE  Accepted({i})
    <2>1. i.kind = "cancel_oco" /\ i.group \in DOMAIN groups
      BY <1>2
    <2>2. "PLATFORM_OCO" \in Capabilities
      BY VisibleIsDeclared, <1>2 DEF BookDeclared
    <2>3. Acceptable(i) /\ ~IsEntry(i)
      BY <2>1, <2>2 DEF Acceptable, CancelOcoOK, IsEntry
    <2>4. QED BY <2>3, ExitAlone
  <1>3. QED BY <1>1, <1>2

LEMMA InvariantsGiveExits ==
  ASSUME CanClose, SessionInv, GoodSession
  PROVE  ExitsNeverBlocked
  <1>1. \A p \in DOMAIN positions :
           Accepted({[kind |-> "close_position", position |-> p, whole |-> TRUE]})
    BY ClosingIsAcceptable
  <1>2. QED BY <1>1, CancellingIsAcceptable DEF ExitsNeverBlocked

(* Whatever data is missing, stale or short, each visible position can be  *)
(* closed and each order and group cancelled: the blockers of the context   *)
(* are for entries (validate_strategy_output).  The hypothesis is needed: a  *)
(* spec that declares only BUY may open a position that it cannot close.    *)
THEOREM ExitsAreNeverBlocked == CanClose => (Spec => []ExitsNeverBlocked)
<1> SUFFICES ASSUME CanClose PROVE Spec => []ExitsNeverBlocked
  OBVIOUS
<1>1. SessionInv /\ GoodSession => ExitsNeverBlocked
  BY InvariantsGiveExits
<1>2. QED BY GoodSessionInvariant, <1>1, PTL

-----------------------------------------------------------------------------
(* Types.                                                                  *)

LEMMA PositionTyped ==
  ASSUME NEW r, IsRecord(r), DOMAIN r = PositionFields, r.symbol \in Symbols, r.buy \in BOOLEAN,
         r.price \in Int, r.sl \in Prices, r.tp \in Prices
  PROVE  r \in [symbol : Symbols, buy : BOOLEAN, price : Int, sl : Prices, tp : Prices]
  BY DEF IsRecord, PositionFields

LEMMA OrderTyped ==
  ASSUME NEW r, IsRecord(r), DOMAIN r = OrderFields, r.symbol \in Symbols,
         r.type \in PendingTypes, r.entry \in Int, {r.limit, r.sl, r.tp} \subseteq Prices,
         r.filling \in FillingEnum, r.time \in TimeEnum, r.expires \in BOOLEAN,
         r.plan \in PlanIds \union {None}, r.group \in GroupIds \union {None}
  PROVE  r \in [symbol : Symbols, type : PendingTypes, entry : Int, limit : Prices,
                sl : Prices, tp : Prices, filling : FillingEnum, time : TimeEnum,
                expires : BOOLEAN, plan : PlanIds \union {None}, group : GroupIds \union {None}]
  BY DEF IsRecord, OrderFields

LEMMA LegTyped ==
  ASSUME NEW r, IsRecord(r), DOMAIN r = {"order", "plan"}, r.order \in OrderIds,
         r.plan \in PlanIds \union {None}
  PROVE  r \in [order : OrderIds, plan : PlanIds \union {None}]
  BY DEF IsRecord

LEMMA SidesAreBoolean ==
  ASSUME NEW b, NEW type, b = IsBuy(type)
  PROVE  b \in BOOLEAN
  BY DEF IsBuy

LEMMA OrderPlanIds ==
  ASSUME SessionInv, NEW o \in DOMAIN orders
  PROVE  orders[o].plan \in PlanIds \union {None}
  BY DEF SessionInv, BookSound, OrdersSound, PlansSound

LEMMA InvariantsGiveTypes ==
  ASSUME SessionInv, GoodSession
  PROVE  TypeOK
  <1>1. BookSound /\ BookGood /\ Structure /\ MarketOK /\ Shapes /\ pending \subseteq Intents
    BY DEF SessionInv, GoodSession
  <1>2. ASSUME NEW p \in DOMAIN positions
        PROVE  positions[p] \in [symbol : Symbols, buy : BOOLEAN, price : Int, sl : Prices, tp : Prices]
    <2>1. PositionGood(positions[p], ExitIn(plans, "position", p))
      BY <1>1 DEF BookGood
    <2>2. positions[p].buy \in BOOLEAN
      BY <2>1, SidesAreBoolean DEF PositionGood
    <2>3. IsRecord(positions[p]) /\ DOMAIN positions[p] = PositionFields
      BY <1>1 DEF Shapes, BookSound, PositionsSound
    <2>4. QED BY <2>1, <2>2, <2>3, PositionTyped DEF PositionGood
  <1>3. ASSUME NEW o \in DOMAIN orders
        PROVE  orders[o] \in [symbol : Symbols, type : PendingTypes, entry : Int, limit : Prices,
                         sl : Prices, tp : Prices, filling : FillingEnum, time : TimeEnum,
                         expires : BOOLEAN, plan : PlanIds \union {None},
                         group : GroupIds \union {None}]
    <2>1. OrderGood(orders[o], ExitIn(plans, "order", o))
      BY <1>1 DEF BookGood
    <2>2. orders[o].group \in GroupIds \union {None}
      BY <1>1 DEF Structure, GroupsLinked, IdsOK
    <2>3. IsRecord(orders[o]) /\ DOMAIN orders[o] = OrderFields
      BY <1>1 DEF Shapes, BookSound, OrdersSound
    <2>4. orders[o].filling \in FillingEnum
      BY <2>1, SpecAssumption DEF OrderGood, ValidSpec
    <2>5. orders[o].type \in PendingTypes
      BY <2>1 DEF OrderGood, PendingOK
    <2>6. QED BY <2>1, <2>2, <2>3, <2>4, <2>5, OrderPlanIds, OrderTyped DEF OrderGood
  <1>4. ASSUME NEW g \in DOMAIN groups, NEW l \in DOMAIN groups[g]
        PROVE  groups[g][l] \in [order : OrderIds, plan : PlanIds \union {None}]
    <2>1. IsRecord(groups[g][l]) /\ DOMAIN groups[g][l] = {"order", "plan"}
      BY <1>1 DEF Shapes, BookSound, GroupsSound
    <2>2. /\ groups[g][l].order \in DOMAIN orders
          /\ orders[groups[g][l].order].plan = groups[g][l].plan
      BY <1>1 DEF Structure, GroupsLinked
    <2>3. groups[g][l].order \in OrderIds /\ groups[g][l].plan \in PlanIds \union {None}
      BY <1>1, <2>2, OrderPlanIds DEF Structure, IdsOK
    <2>4. QED BY <2>1, <2>3, LegTyped
  <1>5. ASSUME NEW x \in DOMAIN plans
        PROVE  /\ DOMAIN plans[x] = {"kind", "target", "exit"}
               /\ plans[x].kind \in {"order", "position"}
               /\ plans[x].target \in IF plans[x].kind = "order" THEN OrderIds ELSE PositionIds
    BY <1>1 DEF BookSound, PlansSound, Structure, IdsOK
  <1>6. DOMAIN plans \subseteq PlanIds
    BY <1>1 DEF BookSound, PlansSound
  <1>7. QED BY <1>1, <1>2, <1>3, <1>4, <1>5, <1>6 DEF TypeOK, MarketOK, Structure, IdsOK

(* Every field of the book, of the bars and of what is pending has the type *)
(* the SDK's classes give it (context.py).                                 *)
THEOREM SessionTypes == Spec => []TypeOK
<1>1. SessionInv /\ GoodSession => TypeOK
  BY InvariantsGiveTypes
<1>2. QED BY GoodSessionInvariant, <1>1, PTL
=============================================================================
