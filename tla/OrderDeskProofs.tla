--------------------------- MODULE OrderDeskProofs ---------------------------
(***************************************************************************)
(* What a request read is still true of the position when it is sent: the  *)
(* market, fills and stops change volumes upwards or end the position, and *)
(* leave its protection alone.  And the history the executor pairs from   *)
(* the broker's deals is the history the positions had.                    *)
(***************************************************************************)
EXTENDS OrderDesk, FiniteSetTheorems, WellFoundedInduction, TLAPS

USE DeskAssumption, NoneAssumption DEF DeskAssumption, NoneAssumption

-----------------------------------------------------------------------------
(* The inductive invariant.                                                *)

Placing   == [kind : Kinds, buy : BOOLEAN, volume : Nat, price : Nat, sl : Int, tp : Int]
Modifying == [sl : Int, tp : Int]
Sharing   == [volume : Nat, informed : BOOLEAN]
Requests  == {None} \union Placing \union Modifying \union [volume : Nat] \union Sharing \union [remove : {TRUE}]

Jobs == [ask : Asks, phase : {"read", "send", "verify"}, last : BOOLEAN, request : Requests,
         ticket : Tickets \union {None}]

\* No position is empty.
BrokerOK ==
    /\ bid \in Bids
    /\ IsFiniteSet(deals)
    /\ orders \in [Tickets -> Order \union {None}]
    /\ positions \in [Tickets -> Position \union {None}]
    /\ \A t \in Tickets : positions[t] # None => positions[t].volume > 0

\* A position that is gone does not come back.
Gone(t) == positions[t] = None /\ OfPosition(deals, t) # {}

\* The request fits the position it was made for.
Fits ==
    LET ask == job.ask
        r   == job.request
    IN  CASE ask.op = "place"  -> r \in Placing /\ r.volume >= VolumeMin
          [] ask.op = "modify" ->
                /\ r \in Modifying
                /\ \/ Gone(ask.ticket)
                   \/ /\ positions[ask.ticket] # None
                      /\ r.sl = Side(ask.sl, positions[ask.ticket].sl)
                      /\ r.tp = Side(ask.tp, positions[ask.ticket].tp)
          [] ask.op = "close"  ->
                /\ r \in [volume : Nat]
                /\ \/ Gone(ask.ticket)
                   \/ /\ positions[ask.ticket] # None
                      /\ r.volume <= positions[ask.ticket].volume
          [] ask.op = "reduce" ->
                /\ r \in Sharing
                /\ \/ Gone(ask.ticket)
                   \/ /\ positions[ask.ticket] # None
                      /\ r.volume < positions[ask.ticket].volume
                      /\ r.informed => positions[ask.ticket].volume - r.volume >= VolumeMin
          [] ask.op = "cancel" -> r \in [remove : {TRUE}]

JobOK ==
    job # None =>
        /\ job \in Jobs
        /\ job.phase = "send" => Fits
        /\ job.phase = "verify" => job.ask.op = "place" /\ job.request \in Placing /\ job.ticket \in Tickets

DInv == BrokerOK /\ JobOK

\* A stop at exactly twice the price of a sale: its 1:1 target is 0, no target.
NoStopAtTwice == \A b \in Bids : 2 * b \notin Levels

-----------------------------------------------------------------------------
(* Arithmetic.                                                             *)

LEMMA Naturals ==
    /\ \A b \in Bids : b \in Nat /\ b > 0
    /\ \A l \in Levels : l \in Nat /\ l > 0
OBVIOUS

LEMMA MinOfTwo ==
    ASSUME NEW a \in Int, NEW b \in Int
    PROVE  Min({a, b}) \in {a, b} /\ Min({a, b}) <= a /\ Min({a, b}) <= b
<1>1. \E x \in {a, b} : \A y \in {a, b} : x =< y
  OBVIOUS
<1>2. QED BY <1>1 DEF Min

LEMMA MaxOfTwo ==
    ASSUME NEW a \in Int, NEW b \in Int
    PROVE  Max({a, b}) \in {a, b} /\ Max({a, b}) >= a /\ Max({a, b}) >= b
<1>1. \E x \in {a, b} : \A y \in {a, b} : x >= y
  OBVIOUS
<1>2. QED BY <1>1 DEF Max

LEMMA ClampFits ==
    ASSUME NEW v \in Nat
    PROVE  Clamp(v) \in Nat /\ Clamp(v) >= VolumeMin
<1> DEFINE m == Min({v, VolumeMax})
<1>1. v \in Int /\ VolumeMax \in Int /\ VolumeMin \in Int
  OBVIOUS
<1>2. m \in {v, VolumeMax}
  BY <1>1, MinOfTwo, Zenon
<1>3. m \in Nat /\ m \in Int
  BY <1>2
<1> HIDE DEF m
<1>4. Max({VolumeMin, m}) \in {VolumeMin, m} /\ Max({VolumeMin, m}) >= VolumeMin
  BY <1>1, <1>3, MaxOfTwo, Zenon
<1>5. Clamp(v) = Max({VolumeMin, m})
  BY DEF Clamp, m
<1>6. QED BY <1>3, <1>4, <1>5

LEMMA PartialIsNat ==
    ASSUME NEW current \in Nat, NEW percentage \in Int
    PROVE  PartialVolume(current, percentage) \in Nat
<1>1. Share(current, percentage) \in Int
  BY DEF Share
<1> DEFINE share == Share(current, percentage)
           m     == Max({share, VolumeMin})
<1>2. VolumeMin \in Int /\ current \in Int /\ share \in Int
  BY <1>1
<1> HIDE DEF share
<1>3. m \in {share, VolumeMin} /\ m >= VolumeMin
  BY <1>2, MaxOfTwo, Zenon
<1>4. m \in Nat /\ m \in Int
  BY <1>2, <1>3
<1> HIDE DEF m
<1>5. Min({m, current}) \in {m, current}
  BY <1>2, <1>4, MinOfTwo, Zenon
<1>6. PartialVolume(current, percentage) = Min({m, current})
  BY DEF PartialVolume, m, share
<1>7. QED BY <1>4, <1>5, <1>6

\* A share of less than the whole is less than the whole.
LEMMA ExactIsLess ==
    ASSUME NEW volume \in Nat, volume > 0, NEW percentage \in 1..99
    PROVE  Exact(volume, percentage) \in Nat /\ Exact(volume, percentage) < volume
<1> DEFINE q == (volume * percentage) \div 100
<1>1. volume * percentage \in Nat /\ volume * percentage < 100 * volume
  OBVIOUS
<1>2. q \in Nat /\ 100 * q <= volume * percentage
  BY <1>1
<1> HIDE DEF q
<1>3. q < volume
  BY <1>1, <1>2
<1>4. Exact(volume, percentage) = q \/ Exact(volume, percentage) = 0
  BY DEF Exact, q
<1>5. QED BY <1>2, <1>3, <1>4

\* A signal with a stop beyond the price gets a target beyond it.
LEMMA TargetFound ==
    ASSUME NEW s \in Signals, NEW price \in Nat \ {0}
    PROVE  /\ FindValidTp(s, price) \in Int
           /\ s.tps # <<>> /\ Beyond(s.buy, price, s.sl) => Beyond(s.buy, FindValidTp(s, price), price)
<1> DEFINE valid == {i \in DOMAIN s.tps : Beyond(s.buy, s.tps[i], price)}
<1>1. s.buy \in BOOLEAN /\ s.sl \in Nat
  <2>1. s.buy \in BOOLEAN /\ s.sl \in Levels \union {0}
    BY DEF Signals
  <2>2. \A l \in Levels \union {0} : l \in Nat
    BY Naturals
  <2>3. QED BY <2>1, <2>2
<1>2. CASE s.tps = <<>>
  BY <1>2 DEF FindValidTp
<1>3. CASE s.tps # <<>>
  <2>1. PICK p \in Levels : s.tps = <<p>>
    BY <1>3 DEF Signals
  <2>2. DOMAIN s.tps = {1} /\ s.tps[1] = p
    BY <2>1
  <2>3. CASE Beyond(s.buy, p, price)
    <3>1. valid = {1}
      BY <2>2, <2>3
    <3>2. Min({1}) = 1
      BY DEF Min
    <3>3. FindValidTp(s, price) = p
      BY <1>3, <2>2, <3>1, <3>2 DEF FindValidTp
    <3>4. QED BY <2>3, <3>3
  <2>4. CASE ~Beyond(s.buy, p, price)
    <3>1. valid = {}
      BY <2>2, <2>4
    <3>2. FindValidTp(s, price) = Fallback(s, price)
      BY <1>3, <3>1 DEF FindValidTp
    <3>3. QED BY <1>1, <3>2 DEF Fallback, Beyond
  <2>5. QED BY <2>3, <2>4
<1>4. QED BY <1>2, <1>3

-----------------------------------------------------------------------------
(* What the broker's steps do to positions.                                *)

Kept(t) ==
    \/ Gone(t)'
    \/ /\ positions'[t] # None
       /\ positions'[t].sl = positions[t].sl /\ positions'[t].tp = positions[t].tp
       /\ \/ positions'[t].volume = positions[t].volume
          \/ positions'[t].volume >= positions[t].volume + VolumeMin

Followed == \A t \in Tickets : IF Gone(t) THEN Gone(t)' ELSE positions[t] # None => Kept(t)

PositionsOK ==
    /\ IsFiniteSet(deals)
    /\ positions \in [Tickets -> Position \union {None}]
    /\ \A t \in Tickets : positions[t] # None => positions[t].volume > 0

LEMMA DealsGrow ==
    ASSUME IsFiniteSet(deals), NEW d, deals' = deals \union {d}
    PROVE  /\ IsFiniteSet(deals')
           /\ \A t : OfPosition(deals, t) # {} => OfPosition(deals', t) # {}
           /\ OfPosition(deals', d.position) # {}
<1>1. IsFiniteSet(deals')
  BY FS_AddElement
<1>2. QED BY <1>1 DEF OfPosition

LEMMA NowIsNat ==
    ASSUME BrokerOK
    PROVE  Now \in Nat
BY FS_CardinalityType DEF BrokerOK, Now

\* A position is new, or grows by a fill.
LEMMA EnterKeeps ==
    ASSUME BrokerOK, NEW t \in Tickets, NEW buy \in BOOLEAN, NEW volume \in Nat,
           volume >= VolumeMin, NEW price \in Nat, NEW sl \in Int, NEW tp \in Int,
           Enter(t, buy, volume, price, sl, tp),
           positions[t] # None \/ OfPosition(deals, t) = {}
    PROVE  PositionsOK' /\ Followed
<1> DEFINE d == Deal(t, TRUE, buy, volume, price)
<1>1. deals' = deals \union {d} /\ IsFiniteSet(deals)
  BY DEF Enter, BrokerOK
<1> HIDE DEF d
<1>2. IsFiniteSet(deals') /\ \A u : OfPosition(deals, u) # {} => OfPosition(deals', u) # {}
  BY <1>1, DealsGrow
<1>3. positions \in [Tickets -> Position \union {None}]
  BY DEF BrokerOK
<1>4. \A u \in Tickets \ {t} : positions'[u] = positions[u]
  BY <1>3 DEF Enter
<1>5. CASE positions[t] = None
  <2> DEFINE new == [buy |-> buy, volume |-> volume, price |-> <<price, 1>>, since |-> Now,
                     sl |-> sl, tp |-> tp]
  <2>1. positions' = [positions EXCEPT ![t] = new]
    BY <1>5 DEF Enter
  <2>2. new \in Position /\ new.volume > 0
    BY NowIsNat DEF Position
  <2> HIDE DEF new
  <2>3. PositionsOK'
    BY <1>2, <1>3, <2>1, <2>2 DEF PositionsOK, BrokerOK
  <2>4. Followed
    BY <1>2, <1>4, <1>5 DEF Followed, Kept, Gone
  <2>5. QED BY <2>3, <2>4
<1>6. CASE positions[t] # None
  <2> DEFINE old   == positions[t]
             total == old.volume + volume
             num   == old.volume * old.price[1] + volume * price * old.price[2]
             den   == total * old.price[2]
             new   == [old EXCEPT !.volume = total, !.price = <<num, den>>]
  <2>1. positions' = [positions EXCEPT ![t] = new]
    BY <1>3, <1>6 DEF Enter
  <2>2. old \in Position /\ old.volume > 0
    BY <1>3, <1>6 DEF BrokerOK
  <2>3. total \in Nat /\ total >= old.volume + VolumeMin /\ total > 0
    BY <2>2 DEF Position
  <2>4. num \in Int /\ den \in Int
    <3>1. old.volume \in Int /\ old.price[1] \in Int /\ old.price[2] \in Int
      BY <2>2 DEF Position
    <3> HIDE DEF old, total
    <3>2. old.volume * old.price[1] \in Int /\ volume * price \in Int
      BY <3>1
    <3>3. volume * price * old.price[2] \in Int
      BY <3>1, <3>2
    <3>4. QED BY <2>3, <3>1, <3>2, <3>3
  <2> HIDE DEF total, num, den
  <2>5. /\ new \in Position /\ new.volume = total
        /\ new.sl = old.sl /\ new.tp = old.tp
    BY <2>2, <2>3, <2>4 DEF Position
  <2>6. new # None
    BY <2>5
  <2> HIDE DEF new
  <2>7. PositionsOK'
    BY <1>2, <1>3, <2>1, <2>3, <2>5 DEF PositionsOK, BrokerOK
  <2>8. positions'[t] = new
    BY <1>3, <2>1
  <2>9. Kept(t)
    BY <2>3, <2>5, <2>6, <2>8 DEF Kept
  <2>10. \A u \in Tickets \ {t} : positions[u] # None => Kept(u)
    BY <1>4 DEF Kept
  <2>11. \A u \in Tickets : Gone(u) => Gone(u)'
    BY <1>2, <1>4, <1>6 DEF Gone
  <2>12. QED BY <2>7, <2>9, <2>10, <2>11 DEF Followed
<1>7. QED BY <1>5, <1>6

\* A position is closed, or something is left of it.
LEMMA LeaveKeeps ==
    ASSUME BrokerOK, NEW t \in Tickets, positions[t] # None, NEW volume \in Nat, Leave(t, volume),
           volume <= positions[t].volume
    PROVE  /\ PositionsOK'
           /\ \A u \in Tickets \ {t} : positions'[u] = positions[u]
           /\ \A u \in Tickets : Gone(u) => Gone(u)'
           /\ IF volume = positions[t].volume THEN Gone(t)'
              ELSE /\ positions'[t] # None /\ positions'[t].volume = positions[t].volume - volume
                   /\ positions'[t].sl = positions[t].sl /\ positions'[t].tp = positions[t].tp
<1> DEFINE p == positions[t]
           d == Deal(t, FALSE, ~p.buy, volume, Closing(p.buy))
           rest == [p EXCEPT !.volume = p.volume - volume]
<1>1. deals' = deals \union {d} /\ IsFiniteSet(deals) /\ d.position = t
  BY DEF Leave, BrokerOK, Deal
<1>2. positions \in [Tickets -> Position \union {None}] /\ p \in Position
  BY DEF BrokerOK
<1>3. positions' = [positions EXCEPT ![t] = IF volume = p.volume THEN None ELSE rest]
  BY <1>2 DEF Leave
<1> HIDE DEF d
<1>4. /\ IsFiniteSet(deals')
      /\ \A u : OfPosition(deals, u) # {} => OfPosition(deals', u) # {}
      /\ OfPosition(deals', t) # {}
  BY <1>1, DealsGrow
<1>5. \A u \in Tickets \ {t} : positions'[u] = positions[u]
  BY <1>2, <1>3
<1>6. \A u \in Tickets : Gone(u) => Gone(u)'
  BY <1>4, <1>5 DEF Gone
<1>7. CASE volume = p.volume
  <2>1. positions'[t] = None
    BY <1>2, <1>3, <1>7
  <2>2. PositionsOK'
    BY <1>2, <1>3, <1>4, <1>7 DEF PositionsOK, BrokerOK
  <2>3. QED BY <1>4, <1>5, <1>6, <1>7, <2>1, <2>2 DEF Gone
<1>8. CASE volume # p.volume
  <2>1. p.volume - volume \in Nat /\ p.volume - volume > 0
    BY <1>2, <1>8 DEF Position
  <2>2. /\ rest \in Position /\ rest.volume = p.volume - volume
        /\ rest.sl = p.sl /\ rest.tp = p.tp
    BY <1>2, <2>1 DEF Position
  <2>3. rest # None
    BY <2>2
  <2> HIDE DEF rest
  <2>4. positions' = [positions EXCEPT ![t] = rest]
    BY <1>3, <1>8
  <2>5. PositionsOK'
    BY <1>2, <1>4, <2>1, <2>2, <2>4 DEF PositionsOK, BrokerOK
  <2>6. positions'[t] = rest
    BY <1>2, <2>4
  <2>7. QED BY <1>5, <1>6, <1>8, <2>2, <2>3, <2>5, <2>6
<1>9. QED BY <1>7, <1>8

\* A position has the stop and the target of a modification.
LEMMA ModifyKeeps ==
    ASSUME BrokerOK, NEW t \in Tickets, positions[t] # None, NEW r \in Modifying,
           positions' = [positions EXCEPT ![t].sl = r.sl, ![t].tp = r.tp],
           UNCHANGED deals
    PROVE  /\ PositionsOK'
           /\ \A u \in Tickets \ {t} : positions'[u] = positions[u]
           /\ positions'[t] # None /\ positions'[t].sl = r.sl /\ positions'[t].tp = r.tp
           /\ positions'[t].volume = positions[t].volume
<1> DEFINE p   == positions[t]
           new == [p EXCEPT !.sl = r.sl, !.tp = r.tp]
<1>1. positions \in [Tickets -> Position \union {None}] /\ p \in Position /\ p.volume > 0
  BY DEF BrokerOK
<1>2. positions' = [positions EXCEPT ![t] = new]
  BY <1>1
<1>3. new \in Position /\ new.sl = r.sl /\ new.tp = r.tp /\ new.volume = p.volume
  BY <1>1 DEF Position, Modifying
<1>4. new # None
  BY <1>3
<1> HIDE DEF new
<1>5. positions'[t] = new /\ \A u \in Tickets \ {t} : positions'[u] = positions[u]
  BY <1>1, <1>2
<1>6. PositionsOK'
  BY <1>1, <1>2, <1>3, <1>5 DEF PositionsOK, BrokerOK
<1>7. QED BY <1>3, <1>4, <1>5, <1>6

LEMMA PricesAreNat ==
    ASSUME BrokerOK, NEW buy \in BOOLEAN
    PROVE  Dealing(buy) \in Nat \ {0}
<1>1. bid \in Nat /\ bid > 0
  BY Naturals DEF BrokerOK
<1>2. QED BY <1>1 DEF Dealing, Ask

\* A stop or a target of an order may be lost on the way.
LEMMA OpenKeeps ==
    ASSUME BrokerOK, NEW r \in Placing, r.volume >= VolumeMin, Open(r), UNCHANGED bid
    PROVE  /\ BrokerOK' /\ Followed /\ NextTicket \in Tickets
           /\ \A t \in Tickets : positions[t] # None => positions'[t] = positions[t]
<1> DEFINE n == NextTicket
<1>1. n \in Tickets /\ ~Used(n)
  BY DEF Open, NextTicket
<1>2. positions[n] = None /\ OfPosition(deals, n) = {}
  BY <1>1 DEF Used
<1>3. PICK sl \in {0, r.sl}, tp \in {0, r.tp} :
        IF r.kind = "market"
        THEN Enter(n, r.buy, r.volume, Dealing(r.buy), sl, tp) /\ UNCHANGED orders
        ELSE /\ orders' = [orders EXCEPT ![n] =
                    [kind |-> r.kind, buy |-> r.buy, price |-> r.price,
                     volume |-> r.volume, sl |-> sl, tp |-> tp]]
             /\ UNCHANGED <<positions, deals>>
  BY DEF Open
<1> HIDE DEF n
<1>4. /\ r.buy \in BOOLEAN /\ r.volume \in Nat /\ r.price \in Nat /\ r.kind \in Kinds
      /\ sl \in Int /\ tp \in Int
  BY DEF Placing
<1>5. orders \in [Tickets -> Order \union {None}]
      /\ positions \in [Tickets -> Position \union {None}]
  BY DEF BrokerOK
<1>6. CASE r.kind = "market"
  <2>1. Enter(n, r.buy, r.volume, Dealing(r.buy), sl, tp) /\ UNCHANGED orders
    BY <1>3, <1>6
  <2>2. Dealing(r.buy) \in Nat
    BY <1>4, PricesAreNat
  <2>3. PositionsOK' /\ Followed
    BY <1>1, <1>2, <1>4, <2>1, <2>2, EnterKeeps
  <2>4. \A t \in Tickets \ {n} : positions'[t] = positions[t]
    BY <1>5, <2>1 DEF Enter
  <2>5. QED BY <1>1, <1>2, <2>1, <2>3, <2>4 DEF BrokerOK, PositionsOK, n
<1>7. CASE r.kind # "market"
  <2> DEFINE o == [kind |-> r.kind, buy |-> r.buy, price |-> r.price,
                   volume |-> r.volume, sl |-> sl, tp |-> tp]
  <2>1. o \in Order
    BY <1>4, <1>7 DEF Order, Kinds
  <2>2. orders' = [orders EXCEPT ![n] = o] /\ UNCHANGED <<positions, deals>>
    BY <1>3, <1>7
  <2> HIDE DEF o
  <2>3. BrokerOK'
    BY <1>1, <1>5, <2>1, <2>2 DEF BrokerOK
  <2>4. Followed
    BY <2>2 DEF Followed, Kept, Gone
  <2>5. QED BY <1>1, <2>2, <2>3, <2>4 DEF n
<1>8. QED BY <1>6, <1>7

\* Whatever changes behind a request under way, the request still fits.
LEMMA RequestStillFits ==
    ASSUME DInv, BrokerOK', Followed, UNCHANGED job
    PROVE  JobOK'
<1>0. JobOK /\ BrokerOK
  BY DEF DInv
<1>2. ASSUME job # None PROVE JobOK'
  <2>1. job \in Jobs
    BY <1>0, <1>2 DEF JobOK
  <2>2. CASE job.phase # "send"
    BY <1>0, <2>2 DEF JobOK
  <2>3. CASE job.phase = "send"
    <3>1. Fits
      BY <1>0, <1>2, <2>3 DEF JobOK
    <3>2. Fits'
      <4> DEFINE ask == job.ask
      <4>1. ask \in Asks
        BY <2>1 DEF Jobs
      <4>2. CASE ask.op = "place"
        BY <3>1, <4>2 DEF Fits
      <4>3. CASE ask.op = "modify"
        <5>1. ask.ticket \in Tickets
          BY <4>1, <4>3 DEF Asks
        <5>2. QED BY <3>1, <4>3, <5>1 DEF Fits, Followed, Kept, Gone
      <4>4. CASE ask.op = "close"
        <5>1. ask.ticket \in Tickets
          BY <4>1, <4>4 DEF Asks
        <5> DEFINE p == positions[ask.ticket]
                   v == job.request.volume
        <5>2. v \in Nat /\ job.request \in [volume : Nat]
          BY <3>1, <4>4 DEF Fits
        <5>3. CASE Gone(ask.ticket)
          <6>1. Gone(ask.ticket)'
            BY <5>1, <5>3 DEF Followed
          <6>2. QED BY <4>4, <5>2, <6>1 DEF Fits
        <5>4. CASE ~Gone(ask.ticket)
          <6>1. p # None /\ p.volume \in Nat
            BY <1>0, <3>1, <4>4, <5>1, <5>4 DEF Fits, BrokerOK, Position
          <6>2. Kept(ask.ticket)
            BY <5>1, <5>4, <6>1 DEF Followed
          <6>3. positions'[ask.ticket] # None => positions'[ask.ticket].volume \in Nat
            BY <5>1 DEF BrokerOK, Position
          <6>4. QED BY <3>1, <4>4, <5>2, <5>4, <6>1, <6>2, <6>3 DEF Fits, Kept
        <5>5. QED BY <5>3, <5>4
      <4>5. CASE ask.op = "reduce"
        <5>1. ask.ticket \in Tickets
          BY <4>1, <4>5 DEF Asks
        <5> DEFINE p == positions[ask.ticket]
                   v == job.request.volume
        <5>2. v \in Nat /\ job.request \in Sharing
          BY <3>1, <4>5 DEF Fits, Sharing
        <5>3. CASE Gone(ask.ticket)
          <6>1. Gone(ask.ticket)'
            BY <5>1, <5>3 DEF Followed
          <6>2. QED BY <4>5, <5>2, <6>1 DEF Fits
        <5>4. CASE ~Gone(ask.ticket)
          <6>1. p # None /\ p.volume \in Nat
            BY <1>0, <3>1, <4>5, <5>1, <5>4 DEF Fits, BrokerOK, Position
          <6>2. Kept(ask.ticket)
            BY <5>1, <5>4, <6>1 DEF Followed
          <6>3. positions'[ask.ticket] # None => positions'[ask.ticket].volume \in Nat
            BY <5>1 DEF BrokerOK, Position
          <6>4. QED BY <3>1, <4>5, <5>2, <5>4, <6>1, <6>2, <6>3 DEF Fits, Kept
        <5>5. QED BY <5>3, <5>4
      <4>6. CASE ask.op = "cancel"
        BY <3>1, <4>6 DEF Fits
      <4>7. QED BY <4>1, <4>2, <4>3, <4>4, <4>5, <4>6 DEF Asks
    <3>3. QED BY <1>2, <2>1, <2>3, <3>2 DEF JobOK
  <2>4. QED BY <2>2, <2>3
<1>3. QED BY <1>2 DEF JobOK

-----------------------------------------------------------------------------
(* The methods.                                                            *)

LEMMA RequestsAreSound ==
    ASSUME NEW s \in Signals, BrokerOK
    PROVE  OrderRequest(s) \in Placing /\ OrderRequest(s).volume >= VolumeMin
<1> DEFINE price == Dealing(s.buy)
<1>1. /\ s.buy \in BOOLEAN /\ s.volume \in Volumes /\ s.kind \in Kinds
      /\ s.sl \in Levels \union {0}
      /\ s.kind # "market" => s.entry \in Levels
  BY DEF Signals, Kinds
<1>2. s.volume \in Nat
  BY <1>1
<1>3. Clamp(s.volume) \in Nat /\ Clamp(s.volume) >= VolumeMin
  BY <1>2, ClampFits
<1>4. price \in Nat \ {0}
  BY <1>1, PricesAreNat
<1> HIDE DEF price
<1>5. \A l \in Levels \union {0} : l \in Nat
  BY Naturals
<1>6. ValidSl(s, price) \in Int
  <2>1. ValidSl(s, price) \in {s.sl, 0}
    BY DEF ValidSl
  <2>2. s.sl \in Nat
    BY <1>1, <1>5, Zenon
  <2>3. QED BY <2>1, <2>2
<1>7. ValidTp(s, price) \in Int
  BY <1>4, TargetFound DEF ValidTp
<1> DEFINE at == IF s.kind = "market" THEN price ELSE s.entry
<1>8. at \in Nat
  BY <1>1, <1>4, <1>5
<1>9. OrderRequest(s) = [kind |-> s.kind, buy |-> s.buy, volume |-> Clamp(s.volume), price |-> at,
                         sl |-> ValidSl(s, price), tp |-> ValidTp(s, price)]
  BY DEF OrderRequest, price
<1> HIDE DEF at
<1>10. QED BY <1>1, <1>3, <1>6, <1>7, <1>8, <1>9 DEF Placing

LEMMA ReadMarketKeeps == DInv /\ ReadMarket => DInv'
<1> SUFFICES ASSUME DInv, ReadMarket PROVE DInv'
  OBVIOUS
<1>1. BrokerOK' /\ job # None /\ job \in Jobs /\ job.ask.op = "place"
  BY DEF DInv, ReadMarket, At, OnlyJob, broker, BrokerOK, JobOK
<1>2. CASE job' = None
  BY <1>1, <1>2 DEF DInv, JobOK
<1>3. CASE Request(OrderRequest(job.ask.signal))
  <2> DEFINE r == OrderRequest(job.ask.signal)
  <2>1. job.ask.signal \in Signals
    BY <1>1 DEF Jobs, Asks
  <2>2. r \in Placing /\ r.volume >= VolumeMin
    BY <2>1, RequestsAreSound DEF DInv
  <2>3. job' = [job EXCEPT !.phase = "send", !.request = r]
    BY <1>3 DEF Request
  <2> HIDE DEF r
  <2>4. job' \in Jobs /\ job'.phase = "send" /\ job'.ask = job.ask /\ job'.request = r
    BY <1>1, <2>2, <2>3 DEF Jobs, Requests
  <2>5. Fits'
    BY <1>1, <2>2, <2>4 DEF Fits
  <2>6. QED BY <1>1, <2>4, <2>5 DEF DInv, JobOK
<1>4. QED BY <1>2, <1>3 DEF ReadMarket, Finish

\* A request that was just made from a position fits it.
LEMMA ReadPositionKeeps == DInv /\ ReadPosition => DInv'
<1> SUFFICES ASSUME DInv, ReadPosition PROVE DInv'
  OBVIOUS
<1> DEFINE ask == job.ask
           p   == positions[ask.ticket]
<1>1. /\ BrokerOK /\ BrokerOK' /\ job # None /\ job \in Jobs
      /\ ask.op \in {"modify", "close"}
  BY DEF DInv, ReadPosition, At, OnlyJob, broker, BrokerOK, JobOK
<1>2. UNCHANGED <<positions, deals>>
  BY DEF ReadPosition, OnlyJob, broker
<1>3. ask \in Asks /\ ask.ticket \in Tickets
  BY <1>1 DEF Jobs, Asks
<1>4. CASE job' = None
  BY <1>1, <1>4 DEF DInv, JobOK
<1>5. ASSUME NEW r \in Modifying \union [volume : Nat], p # None, Request(r),
             ask.op = "modify" => r = Modification(p, ask.sl, ask.tp) /\ r \in Modifying,
             ask.op = "close"  => r = [volume |-> p.volume] /\ p.volume \in Nat
      PROVE  DInv'
  <2>1. job' \in Jobs /\ job'.phase = "send" /\ job'.ask = ask /\ job'.request = r
    BY <1>1, <1>5 DEF Request, Jobs, Requests
  <2>2. Fits'
    <3>1. CASE ask.op = "modify"
      BY <1>2, <1>5, <2>1, <3>1 DEF Fits, Modification
    <3>2. CASE ask.op = "close"
      BY <1>2, <1>5, <2>1, <3>2 DEF Fits
    <3>3. QED BY <1>1, <3>1, <3>2
  <2>3. QED BY <1>1, <2>1, <2>2 DEF DInv, JobOK
<1>6. ASSUME p # None PROVE p \in Position /\ p.volume \in Nat /\ p.sl \in Int /\ p.tp \in Int
  BY <1>1, <1>3, <1>6 DEF BrokerOK, Position
<1>7. CASE p # None /\ ask.op = "modify"
  <2> DEFINE r == Modification(p, ask.sl, ask.tp)
  <2>1. /\ ask.sl = None \/ ask.sl \in Levels \union {0}
        /\ ask.tp = None \/ ask.tp \in Levels \union {0}
    BY <1>3, <1>7 DEF Asks
  <2>2. \A l \in Levels \union {0} : l \in Int
    BY Naturals
  <2>3. Side(ask.sl, p.sl) \in Int /\ Side(ask.tp, p.tp) \in Int
    BY <1>6, <1>7, <2>1, <2>2 DEF Side
  <2>4. r \in Modifying
    BY <2>3 DEF Modification, Modifying
  <2>5. Request(r)
    BY <1>7 DEF ReadPosition
  <2>6. QED BY <1>5, <1>7, <2>4, <2>5
<1>8. CASE p # None /\ ask.op = "close"
  <2>1. Request([volume |-> p.volume])
    BY <1>8 DEF ReadPosition
  <2>2. [volume |-> p.volume] \in [volume : Nat]
    BY <1>6, <1>8
  <2>3. QED BY <1>5, <1>6, <1>8, <2>1, <2>2
<1>9. CASE p = None
  BY <1>4, <1>9 DEF ReadPosition, Finish
<1>10. QED BY <1>1, <1>7, <1>8, <1>9

\* A share of a position leaves something of it: the minimum, when that is known.
LEMMA ReadShareKeeps == DInv /\ ReadShare => DInv'
<1> SUFFICES ASSUME DInv, ReadShare PROVE DInv'
  OBVIOUS
<1> DEFINE ask == job.ask
           p   == positions[ask.ticket]
           v   == PartialVolume(p.volume, ask.percentage)
           x   == Exact(p.volume, ask.percentage)
<1>1. BrokerOK /\ BrokerOK' /\ job # None /\ job \in Jobs /\ ask.op = "reduce"
  BY DEF DInv, ReadShare, At, OnlyJob, broker, BrokerOK, JobOK
<1>2. UNCHANGED <<positions, deals>>
  BY DEF ReadShare, OnlyJob, broker
<1>3. ask \in Asks /\ ask.ticket \in Tickets /\ ask.percentage \in Int
  BY <1>1 DEF Jobs, Asks
<1>4. CASE job' = None
  BY <1>1, <1>4 DEF DInv, JobOK
<1>5. ASSUME NEW r \in Sharing, p # None, Request(r), r.volume < p.volume,
             r.informed => p.volume - r.volume >= VolumeMin
      PROVE  DInv'
  <2>1. job' \in Jobs /\ job'.phase = "send" /\ job'.ask = ask /\ job'.request = r
    BY <1>1, <1>5 DEF Request, Jobs, Requests
  <2>2. Fits'
    BY <1>1, <1>2, <1>5, <2>1 DEF Fits
  <2>3. QED BY <1>1, <2>1, <2>2 DEF DInv, JobOK
<1>6. ASSUME p # None PROVE p.volume \in Nat /\ p.volume > 0
  BY <1>1, <1>3, <1>6 DEF BrokerOK, Position
<1>7. \/ job' = None
      \/ /\ p # None /\ ask.percentage \in 1..99
         /\ \/ Request([volume |-> v, informed |-> TRUE]) /\ ~Skipped(p.volume, v)
            \/ Request([volume |-> x, informed |-> FALSE])
  BY <1>3 DEF ReadShare, Finish
<1>8. CASE p # None /\ Request([volume |-> v, informed |-> TRUE]) /\ ~Skipped(p.volume, v)
  <2>1. v \in Nat
    BY <1>3, <1>6, <1>8, PartialIsNat
  <2> HIDE DEF v
  <2>2. v < p.volume /\ p.volume - v >= VolumeMin
    BY <1>6, <1>8, <2>1 DEF Skipped
  <2>3. PICK r \in Sharing : r = [volume |-> v, informed |-> TRUE]
    BY <2>1 DEF Sharing
  <2>4. r.volume = v
    BY <2>3
  <2>5. QED BY <1>5, <1>8, <2>2, <2>3, <2>4
<1>9. CASE p # None /\ ask.percentage \in 1..99 /\ Request([volume |-> x, informed |-> FALSE])
  <2>1. x \in Nat /\ x < p.volume
    BY <1>6, <1>9, ExactIsLess
  <2> HIDE DEF x
  <2>2. PICK r \in Sharing : r = [volume |-> x, informed |-> FALSE]
    BY <2>1 DEF Sharing
  <2>3. r.volume = x /\ ~r.informed
    BY <2>2
  <2>4. QED BY <1>5, <1>9, <2>1, <2>2, <2>3
<1>10. QED BY <1>4, <1>7, <1>8, <1>9

\* What order_send does, answered or not: the protection of a position changes
\* by a modification only, and a partial close leaves something of it.
EffectSound ==
    /\ BrokerOK'
    /\ job.ask.op = "place" => NextTicket \in Tickets
    /\ \A t \in Tickets : positions[t] # None /\ positions'[t] # None =>
          IF Modifies /\ t = job.ask.ticket
          THEN /\ positions'[t].sl = Side(job.ask.sl, positions[t].sl)
               /\ positions'[t].tp = Side(job.ask.tp, positions[t].tp)
          ELSE positions'[t].sl = positions[t].sl /\ positions'[t].tp = positions[t].tp
    /\ job.ask.op = "reduce" =>
          \A t \in Tickets : positions[t] # None /\ positions'[t] # positions[t] =>
              /\ positions'[t] # None
              /\ job.request.informed => positions'[t].volume >= VolumeMin

LEMMA EffectIsSound ==
    ASSUME DInv, Sending, Effect, UNCHANGED bid
    PROVE  EffectSound
<1> DEFINE ask == job.ask
           r   == job.request
           t   == ask.ticket
<1>1. BrokerOK /\ job # None /\ job \in Jobs /\ Fits /\ ask \in Asks
  BY DEF DInv, Sending, JobOK, Jobs
<1>2. CASE ask.op = "place"
  <2>1. r \in Placing /\ r.volume >= VolumeMin /\ Open(r)
    BY <1>1, <1>2 DEF Fits, Effect
  <2>2. /\ BrokerOK' /\ NextTicket \in Tickets
        /\ \A u \in Tickets : positions[u] # None => positions'[u] = positions[u]
    BY <1>1, <2>1, OpenKeeps
  <2>3. QED BY <1>2, <2>2 DEF EffectSound, Modifies
<1>3. CASE ask.op = "modify"
  <2>1. /\ t \in Tickets /\ positions[t] # None /\ UNCHANGED <<orders, deals>>
        /\ positions' = [positions EXCEPT ![t].sl = r.sl, ![t].tp = r.tp]
    BY <1>1, <1>3 DEF Asks, Effect, Carry
  <2>2. /\ r \in Modifying
        /\ r.sl = Side(ask.sl, positions[t].sl) /\ r.tp = Side(ask.tp, positions[t].tp)
    BY <1>1, <1>3, <2>1 DEF Fits, Gone
  <2>3. /\ PositionsOK'
        /\ \A u \in Tickets \ {t} : positions'[u] = positions[u]
        /\ positions'[t].sl = r.sl /\ positions'[t].tp = r.tp
    BY <1>1, <2>1, <2>2, ModifyKeeps, ZenonT(60)
  <2>4. BrokerOK'
    BY <1>1, <2>1, <2>3 DEF BrokerOK, PositionsOK
  <2>5. QED BY <1>1, <1>3, <2>2, <2>3, <2>4 DEF EffectSound, Modifies
<1>4. CASE ask.op \in {"close", "reduce"}
  <2>0. PICK k \in Tickets : k = t
    BY <1>1, <1>4 DEF Asks
  <2>1. k \in Tickets /\ positions[k] # None /\ Leave(k, r.volume) /\ UNCHANGED orders
    BY <1>1, <1>4, <2>0 DEF Effect, Carry
  <2>2. /\ r \in [volume : Nat] \union Sharing /\ r.volume <= positions[k].volume
        /\ ask.op = "reduce" => /\ r.volume < positions[k].volume
                                /\ r.informed => positions[k].volume - r.volume >= VolumeMin
    <3>1. CASE ask.op = "close"
      BY <1>1, <2>0, <2>1, <3>1 DEF Fits, Gone
    <3>2. CASE ask.op = "reduce"
      <4>1. /\ r \in Sharing /\ r.volume < positions[k].volume
            /\ r.informed => positions[k].volume - r.volume >= VolumeMin
        BY <1>1, <2>0, <2>1, <3>2 DEF Fits, Gone
      <4>2. r.volume \in Nat /\ positions[k].volume \in Nat
        BY <1>1, <2>1, <4>1 DEF BrokerOK, Position, Sharing
      <4>3. QED BY <4>1, <4>2
    <3>3. QED BY <1>4, <3>1, <3>2
  <2>3. r.volume \in Nat /\ positions[k].volume \in Nat
    BY <1>1, <2>1, <2>2 DEF BrokerOK, Position, Sharing
  <2>4. /\ PositionsOK'
        /\ \A u \in Tickets \ {k} : positions'[u] = positions[u]
        /\ IF r.volume = positions[k].volume THEN Gone(k)'
           ELSE /\ positions'[k] # None /\ positions'[k].volume = positions[k].volume - r.volume
                /\ positions'[k].sl = positions[k].sl /\ positions'[k].tp = positions[k].tp
    <3>1. r.volume \in Nat /\ Leave(k, r.volume) /\ positions[k] # None
      BY <2>1, <2>3
    <3>2. r.volume <= positions[k].volume
      BY <2>2
    <3>3. QED BY <1>1, <3>1, <3>2, LeaveKeeps, Zenon
  <2>5. BrokerOK'
    BY <1>1, <2>1, <2>4 DEF BrokerOK, PositionsOK
  <2>6. \A u \in Tickets : positions[u] # None /\ positions'[u] # None =>
            positions'[u].sl = positions[u].sl /\ positions'[u].tp = positions[u].tp
    BY <2>4 DEF Gone
  <2>7. ask.op = "reduce" =>
          positions'[k] # None /\ (r.informed => positions'[k].volume >= VolumeMin)
    BY <2>2, <2>3, <2>4
  <2>8. QED BY <1>4, <2>4, <2>5, <2>6, <2>7 DEF EffectSound, Modifies
<1>5. CASE ask.op = "cancel"
  <2>1. /\ t \in Tickets /\ UNCHANGED <<positions, deals>>
        /\ orders' = [orders EXCEPT ![t] = None]
    BY <1>1, <1>5 DEF Asks, Effect, Carry
  <2>2. BrokerOK'
    BY <1>1, <2>1 DEF BrokerOK
  <2>3. QED BY <1>5, <2>1, <2>2 DEF EffectSound, Modifies
<1>6. QED BY <1>1, <1>2, <1>3, <1>4, <1>5 DEF Asks

LEMMA SentKeeps == DInv /\ Sent => DInv' /\ EffectSound
<1> SUFFICES ASSUME DInv, Sent PROVE DInv' /\ EffectSound
  OBVIOUS
<1>1. EffectSound
  BY EffectIsSound DEF Sent
<1>2. job # None /\ job \in Jobs /\ Fits
  BY DEF DInv, Sent, Sending, JobOK
<1>3. CASE job.ask.op = "place"
  <2>1. job' = [job EXCEPT !.phase = "verify", !.ticket = NextTicket]
    BY <1>3 DEF Sent
  <2>2. job.request \in Placing /\ NextTicket \in Tickets
    BY <1>1, <1>2, <1>3 DEF Fits, EffectSound
  <2>3. /\ job' \in Jobs /\ job'.phase = "verify" /\ job'.ask = job.ask
        /\ job'.request = job.request /\ job'.ticket = NextTicket
    BY <1>2, <2>1, <2>2 DEF Jobs
  <2> DEFINE n == NextTicket
  <2>4. n \in Tickets /\ job'.ticket = n
    BY <2>2, <2>3
  <2>5. job'.ticket \in Tickets
    BY <2>4
  <2>6. JobOK'
    BY <1>3, <2>2, <2>3, <2>5 DEF JobOK
  <2>7. QED BY <1>1, <2>6 DEF DInv, EffectSound
<1>4. CASE job.ask.op # "place"
  <2>1. job' = None
    BY <1>4 DEF Sent, Finish
  <2>2. QED BY <1>1, <2>1 DEF DInv, EffectSound, JobOK
<1>5. QED BY <1>3, <1>4

\* A method that is run once more starts from nothing.
LEMMA AgainKeeps ==
    ASSUME job # None, job \in Jobs, Again
    PROVE  JobOK'
<1>1. CASE job' = None
  BY <1>1 DEF JobOK
<1>2. CASE job' = [job EXCEPT !.phase = "read", !.last = TRUE, !.request = None]
  <2>1. job' \in Jobs /\ job'.phase = "read"
    BY <1>2 DEF Jobs, Requests
  <2>2. QED BY <2>1 DEF JobOK
<1>3. QED BY <1>1, <1>2 DEF Again, Finish

LEMMA AnswerLostKeeps == DInv /\ AnswerLost => DInv' /\ (UNCHANGED broker \/ EffectSound)
<1> SUFFICES ASSUME DInv, AnswerLost PROVE DInv' /\ (UNCHANGED broker \/ EffectSound)
  OBVIOUS
<1>1. UNCHANGED broker \/ EffectSound
  BY EffectIsSound DEF AnswerLost, Again
<1>2. BrokerOK'
  BY <1>1 DEF DInv, BrokerOK, broker, EffectSound, AnswerLost, Again
<1>3. job # None /\ job \in Jobs
  BY DEF DInv, AnswerLost, Sending, JobOK
<1>4. QED BY <1>1, <1>2, <1>3, AgainKeeps DEF AnswerLost, DInv

\* The repair of a new position's protection keeps what it has.
ProtectionRepaired ==
    \A t \in Tickets : positions[t] # None /\ positions'[t] # None =>
        /\ positions'[t].sl = positions[t].sl \/ positions'[t].sl # 0
        /\ positions'[t].tp = positions[t].tp \/ positions'[t].tp # 0

LEMMA RepairKeeps ==
    ASSUME DInv, At("verify", "place"), Repair, UNCHANGED bid
    PROVE  BrokerOK' /\ ProtectionRepaired
<1>1. BrokerOK /\ job # None /\ job \in Jobs /\ job.request \in Placing /\ job.ticket \in Tickets
  BY DEF DInv, At, JobOK
<1>3. CASE UNCHANGED broker
  BY <1>1, <1>3 DEF BrokerOK, broker, ProtectionRepaired
<1>4. CASE ~UNCHANGED broker
  <2> DEFINE t   == job.ticket
             p   == positions[t]
             sl  == Mismatched(job.request.sl, p.sl)
             tp  == Mismatched(job.request.tp, p.tp)
             r   == Modification(p, sl, tp)
  <2>1. p # None /\ Carry([op |-> "modify", ticket |-> t], r)
    BY <1>4 DEF Repair
  <2>2. p \in Position
    BY <1>1, <2>1 DEF BrokerOK
  <2>3. /\ r.sl = Side(sl, p.sl) /\ r.tp = Side(tp, p.tp)
        /\ r = [sl |-> r.sl, tp |-> r.tp]
    BY DEF Modification
  <2>4. job.request.sl \in Int /\ job.request.tp \in Int /\ p.sl \in Int /\ p.tp \in Int
    BY <1>1, <2>2 DEF Placing, Position
  <2>5. /\ r.sl \in Int /\ (r.sl = p.sl \/ r.sl # 0)
        /\ r.tp \in Int /\ (r.tp = p.tp \/ r.tp # 0)
    BY <2>3, <2>4 DEF Side, Mismatched
  <2> HIDE DEF r
  <2>6. r \in Modifying
    BY <2>3, <2>5 DEF Modifying
  <2>7. /\ positions' = [positions EXCEPT ![t].sl = r.sl, ![t].tp = r.tp]
        /\ UNCHANGED <<orders, deals>>
    BY <2>1 DEF Carry
  <2>8. /\ PositionsOK'
        /\ \A u \in Tickets \ {t} : positions'[u] = positions[u]
        /\ positions'[t].sl = r.sl /\ positions'[t].tp = r.tp
    BY <1>1, <2>1, <2>6, <2>7, ModifyKeeps
  <2>9. BrokerOK'
    BY <1>1, <2>7, <2>8 DEF BrokerOK, PositionsOK
  <2>10. ProtectionRepaired
    BY <2>5, <2>8 DEF ProtectionRepaired
  <2>11. QED BY <2>9, <2>10
<1>5. QED BY <1>3, <1>4

LEMMA VerifyKeeps == DInv /\ (Verify \/ VerifyLost) => DInv' /\ ProtectionRepaired
<1> SUFFICES ASSUME DInv, Verify \/ VerifyLost PROVE DInv' /\ ProtectionRepaired
  OBVIOUS
<1>1. At("verify", "place") /\ Repair /\ UNCHANGED bid
  BY DEF Verify, VerifyLost, Again
<1>2. BrokerOK' /\ ProtectionRepaired
  BY <1>1, RepairKeeps
<1>3. job # None /\ job \in Jobs
  BY <1>1 DEF DInv, At, JobOK
<1>4. CASE Verify
  BY <1>2, <1>4 DEF Verify, Finish, DInv, JobOK
<1>5. CASE VerifyLost
  BY <1>2, <1>3, <1>5, AgainKeeps DEF VerifyLost, DInv
<1>6. QED BY <1>4, <1>5

-----------------------------------------------------------------------------
(* The market and the broker.                                              *)

LEMMA FillKeeps ==
    ASSUME DInv, NEW t \in Tickets, Fill(t)
    PROVE  BrokerOK' /\ Followed
<1> DEFINE o == orders[t]
<1>1. BrokerOK /\ o # None /\ o \in Order
  BY DEF DInv, Fill, BrokerOK
<1>2. /\ o.buy \in BOOLEAN /\ o.volume \in Nat /\ o.sl \in Int /\ o.tp \in Int
      /\ VolumeMin \in Nat
  BY <1>1 DEF Order
<1>3. PICK v \in VolumeMin..o.volume :
        /\ Enter(t, o.buy, v, Dealing(o.buy), o.sl, o.tp)
        /\ orders' = [orders EXCEPT ![t] =
               IF v = o.volume THEN None ELSE [o EXCEPT !.volume = o.volume - v]]
  BY <1>1 DEF Fill, BrokerOK
<1>4. v \in Nat /\ v >= VolumeMin /\ o.volume - v \in Nat
  BY <1>2, <1>3
<1>5. Dealing(o.buy) \in Nat
  BY <1>1, <1>2, PricesAreNat
<1>6. PositionsOK' /\ Followed
  BY <1>1, <1>2, <1>3, <1>4, <1>5, EnterKeeps DEF Fill
<1>7. orders' \in [Tickets -> Order \union {None}]
  <2>1. [o EXCEPT !.volume = o.volume - v] \in Order
    BY <1>1, <1>4 DEF Order
  <2>2. QED BY <1>1, <1>3, <2>1 DEF BrokerOK
<1>8. QED BY <1>1, <1>6, <1>7 DEF Fill, BrokerOK, PositionsOK

LEMMA HitKeeps ==
    ASSUME DInv, NEW t \in Tickets, Hit(t)
    PROVE  BrokerOK' /\ Followed
<1>1. BrokerOK /\ positions[t] # None /\ positions[t] \in Position
  BY DEF DInv, Hit, BrokerOK
<1>2. PICK v \in Nat : v = positions[t].volume
  BY <1>1 DEF Position
<1>3. Leave(t, v)
  BY <1>2 DEF Hit, Leave
<1>4. /\ PositionsOK' /\ Gone(t)'
      /\ \A u \in Tickets \ {t} : positions'[u] = positions[u]
      /\ \A u \in Tickets : Gone(u) => Gone(u)'
  BY <1>1, <1>2, <1>3, LeaveKeeps
<1>5. Followed
  BY <1>4 DEF Followed, Kept, Gone
<1>6. QED BY <1>1, <1>4, <1>5 DEF Hit, BrokerOK, PositionsOK

LEMMA NothingMoves == UNCHANGED broker => Followed
BY DEF broker, Followed, Kept, Gone

LEMMA InitDInv == Init => DInv
BY FS_EmptySet DEF Init, DInv, BrokerOK, JobOK

LEMMA NextKeepsDInv == DInv /\ [Next]_vars => DInv'
<1> SUFFICES ASSUME DInv, [Next]_vars PROVE DInv'
  OBVIOUS
<1>1. CASE UNCHANGED vars
  <2>1. BrokerOK' /\ UNCHANGED job /\ UNCHANGED broker
    BY <1>1 DEF vars, broker, DInv, BrokerOK
  <2>2. QED BY <2>1, NothingMoves, RequestStillFits DEF DInv
<1>2. CASE \E ask \in Asks : Submit(ask)
  <2>1. PICK ask \in Asks : Submit(ask)
    BY <1>2
  <2>2. BrokerOK'
    BY <2>1 DEF Submit, broker, DInv, BrokerOK
  <2>3. job' \in Jobs /\ job'.phase = "read"
    BY <2>1 DEF Submit, Jobs, Requests
  <2>4. QED BY <2>2, <2>3 DEF DInv, JobOK
<1>3. CASE ReadMarket
  BY <1>3, ReadMarketKeeps
<1>4. CASE ReadPosition
  BY <1>4, ReadPositionKeeps
<1>5. CASE ReadOrder
  <2>1. BrokerOK' /\ job # None /\ job \in Jobs /\ job.ask.op = "cancel"
    BY <1>5 DEF ReadOrder, At, OnlyJob, broker, DInv, BrokerOK, JobOK
  <2>2. CASE job' = None
    BY <2>1, <2>2 DEF DInv, JobOK
  <2>3. CASE Request([remove |-> TRUE])
    <3>1. /\ job' \in Jobs /\ job'.phase = "send" /\ job'.ask = job.ask
          /\ job'.request = [remove |-> TRUE]
      BY <2>1, <2>3 DEF Request, Jobs, Requests
    <3>2. [remove |-> TRUE] \in [remove : {TRUE}]
      OBVIOUS
    <3>3. Fits'
      BY <2>1, <3>1, <3>2 DEF Fits
    <3>4. QED BY <2>1, <3>1, <3>3 DEF DInv, JobOK
  <2>4. QED BY <1>5, <2>2, <2>3 DEF ReadOrder, Finish
<1>6. CASE Sent
  BY <1>6, SentKeeps
<1>7. CASE Refused
  BY <1>7 DEF Refused, Finish, OnlyJob, broker, DInv, BrokerOK, JobOK
<1>8. CASE AnswerLost
  BY <1>8, AnswerLostKeeps
<1>9. CASE Verify \/ VerifyLost
  BY <1>9, VerifyKeeps
<1>13. CASE ReadShare
  BY <1>13, ReadShareKeeps
<1>10. CASE Move
  <2>1. BrokerOK' /\ UNCHANGED job /\ UNCHANGED broker
    BY <1>10 DEF Move, broker, DInv, BrokerOK
  <2>2. QED BY <2>1, NothingMoves, RequestStillFits DEF DInv
<1>11. CASE \E t \in Tickets : Fill(t) \/ Hit(t)
  <2>1. PICK t \in Tickets : Fill(t) \/ Hit(t)
    BY <1>11
  <2>2. BrokerOK' /\ Followed
    BY <2>1, FillKeeps, HitKeeps
  <2>3. UNCHANGED job
    BY <2>1 DEF Fill, Hit
  <2>4. QED BY <2>2, <2>3, RequestStillFits DEF DInv
<1>12. QED BY <1>1, <1>2, <1>3, <1>4, <1>5, <1>6, <1>7, <1>8, <1>9, <1>10, <1>11, <1>13
           DEF Next, Asked, Method, Outside

\* Steps of a request that is not sent leave the broker alone.
LEMMA StepsOfAJob ==
    ASSUME DInv, [Next]_vars, job # None
    PROVE  \/ EffectSound \/ UNCHANGED broker
           \/ Followed /\ UNCHANGED job
           \/ ProtectionRepaired /\ job.ask.op = "place"
<1>1. CASE UNCHANGED vars
  BY <1>1 DEF vars, broker
<1>2. CASE \E ask \in Asks : Submit(ask)
  BY <1>2 DEF Submit
<1>3. CASE ReadMarket \/ ReadPosition \/ ReadShare \/ ReadOrder \/ Refused \/ Move
  BY <1>3 DEF ReadMarket, ReadPosition, ReadShare, ReadOrder, Refused, Move, OnlyJob
<1>4. CASE Sent
  BY <1>4, SentKeeps
<1>5. CASE AnswerLost
  BY <1>5, AnswerLostKeeps
<1>6. CASE Verify \/ VerifyLost
  BY <1>6, VerifyKeeps DEF Verify, VerifyLost, At
<1>7. CASE \E t \in Tickets : Fill(t) \/ Hit(t)
  <2>1. PICK t \in Tickets : Fill(t) \/ Hit(t)
    BY <1>7
  <2>2. Followed
    BY <2>1, FillKeeps, HitKeeps
  <2>3. UNCHANGED job
    BY <2>1 DEF Fill, Hit
  <2>4. QED BY <2>2, <2>3
<1>8. QED BY <1>1, <1>2, <1>3, <1>4, <1>5, <1>6, <1>7 DEF Next, Asked, Method, Outside

\* Without a request only the broker moves.
LEMMA StepsOfTheBroker ==
    ASSUME DInv, [Next]_vars, job = None
    PROVE  Followed
<1>1. CASE UNCHANGED vars
  BY <1>1, NothingMoves DEF vars, broker
<1>2. CASE \E ask \in Asks : Submit(ask)
  BY <1>2, NothingMoves DEF Submit
<1>3. CASE Method
  BY <1>3 DEF Method, ReadMarket, ReadPosition, ReadShare, ReadOrder, Sent, Refused, AnswerLost, Verify,
              VerifyLost, At, Sending
<1>4. CASE Move
  BY <1>4, NothingMoves DEF Move
<1>5. CASE \E t \in Tickets : Fill(t) \/ Hit(t)
  BY <1>5, FillKeeps, HitKeeps
<1>6. QED BY <1>1, <1>2, <1>3, <1>4, <1>5 DEF Next, Asked, Outside

LEMMA StepLeavesRest ==
    DInv /\ [Next]_vars =>
        (job # None /\ job.ask.op = "reduce" /\ job' # job =>
            \A t \in Tickets : positions[t] # None /\ positions'[t] # positions[t] =>
                /\ positions'[t] # None
                /\ job.request.informed => positions'[t].volume >= VolumeMin)
<1> SUFFICES ASSUME DInv, [Next]_vars, job # None, job.ask.op = "reduce", job' # job
             PROVE  \A t \in Tickets : positions[t] # None /\ positions'[t] # positions[t] =>
                        /\ positions'[t] # None
                        /\ job.request.informed => positions'[t].volume >= VolumeMin
  OBVIOUS
<1>1. EffectSound \/ UNCHANGED broker
  BY StepsOfAJob
<1>2. QED BY <1>1 DEF EffectSound, broker

LEMMA StepKeepsProtection ==
    DInv /\ [Next]_vars =>
        \A t \in Tickets : positions[t] # None /\ positions'[t] # None =>
            /\ positions[t].sl # 0 /\ positions'[t].sl = 0 => Modifies /\ job.ask.sl = 0
            /\ positions[t].tp # 0 /\ positions'[t].tp = 0 => Modifies /\ job.ask.tp = 0
<1> SUFFICES ASSUME DInv, [Next]_vars, NEW t \in Tickets, positions[t] # None, positions'[t] # None
             PROVE  /\ positions[t].sl # 0 /\ positions'[t].sl = 0 => Modifies /\ job.ask.sl = 0
                    /\ positions[t].tp # 0 /\ positions'[t].tp = 0 => Modifies /\ job.ask.tp = 0
  OBVIOUS
<1>1. CASE Followed
  BY <1>1 DEF Followed, Kept, Gone
<1>2. CASE UNCHANGED broker
  BY <1>2 DEF broker
<1>3. CASE EffectSound
  BY <1>3 DEF EffectSound, Side
<1>4. CASE ProtectionRepaired
  BY <1>4 DEF ProtectionRepaired
<1>5. QED BY <1>1, <1>2, <1>3, <1>4, StepsOfAJob, StepsOfTheBroker

\* The request made of a signal has its target on the right side.
LEMMA RequestHasTarget ==
    ASSUME NoStopAtTwice, BrokerOK, NEW s \in Signals
    PROVE  LET r == OrderRequest(s)
           IN  /\ s.tps # <<>> /\ r.sl # 0 => r.tp # 0
               /\ r.kind = "market" /\ r.tp # 0 => Beyond(r.buy, r.tp, r.price)
<1> DEFINE price == Dealing(s.buy)
           tp    == FindValidTp(s, price)
           r     == OrderRequest(s)
<1>1. /\ s.buy \in BOOLEAN /\ s.sl \in Levels \union {0}
      /\ s.tps = <<>> \/ \E p \in Levels : s.tps = <<p>>
  BY DEF Signals
<1>2. price \in Nat \ {0}
  BY <1>1, PricesAreNat
<1>3. /\ tp \in Int
      /\ s.tps # <<>> /\ Beyond(s.buy, price, s.sl) => Beyond(s.buy, tp, price)
  BY <1>2, TargetFound
<1>4. /\ r.kind = s.kind /\ r.buy = s.buy
      /\ r.sl = IF Beyond(s.buy, price, s.sl) THEN s.sl ELSE 0
      /\ r.tp = IF Beyond(s.buy, tp, price) THEN tp ELSE 0
      /\ s.kind = "market" => r.price = price
  BY DEF OrderRequest, ValidSl, ValidTp
<1>5. ASSUME s.tps # <<>>, r.sl # 0 PROVE r.tp # 0
  <2>1. r.tp = tp /\ Beyond(s.buy, tp, price)
    BY <1>3, <1>4, <1>5
  <2>2. CASE s.buy
    <3>1. tp > price
      BY <2>1, <2>2 DEF Beyond
    <3> HIDE DEF tp, price
    <3>2. tp # 0
      BY <1>2, <1>3, <3>1
    <3>3. QED BY <2>1, <3>2
  <2>3. CASE ~s.buy
    <3>1. PICK p \in Levels : s.tps = <<p>>
      BY <1>1, <1>5
    <3>2. tp = p \/ tp = Fallback(s, price)
      <4>1. DOMAIN s.tps = {1} /\ s.tps[1] = p
        BY <3>1
      <4> DEFINE valid == {i \in DOMAIN s.tps : Beyond(s.buy, s.tps[i], price)}
      <4>2. valid = {} \/ valid = {1}
        BY <4>1
      <4>3. Min({1}) = 1
        BY DEF Min
      <4>4. QED BY <1>5, <4>1, <4>2, <4>3 DEF FindValidTp
    <3>3. p # 0
      BY Naturals
    <3>4. Fallback(s, price) # 0
      <4>1. s.sl \in Levels /\ s.sl \in Nat /\ s.sl > price
        BY <1>1, <1>2, <1>4, <1>5, <2>3, Naturals DEF Beyond
      <4>2. price = bid /\ bid \in Bids
        BY <2>3 DEF Dealing, BrokerOK
      <4>3. s.sl # 2 * price
        BY <4>1, <4>2 DEF NoStopAtTwice
      <4>4. QED BY <1>2, <2>3, <4>1, <4>3 DEF Fallback
    <3>5. QED BY <2>1, <3>2, <3>3, <3>4
  <2>4. QED BY <2>2, <2>3
<1>6. ASSUME r.kind = "market", r.tp # 0 PROVE Beyond(r.buy, r.tp, r.price)
  BY <1>4, <1>6
<1>7. QED BY <1>5, <1>6

LEMMA NextKeepsTarget ==
    ASSUME NoStopAtTwice, DInv, TargetBeyondPrice, [Next]_vars
    PROVE  TargetBeyondPrice'
<1>1. CASE UNCHANGED job
  BY <1>1 DEF TargetBeyondPrice
<1>2. CASE job' = None
  BY <1>2 DEF TargetBeyondPrice
<1>3. CASE job' # None /\ job'.phase # "send"
  BY <1>3 DEF TargetBeyondPrice
<1>4. CASE job' # None /\ job'.phase = "send" /\ job' # job
  <2>1. CASE ReadMarket
    <3>1. BrokerOK /\ job # None /\ job \in Jobs /\ job.ask.op = "place"
      BY <2>1 DEF DInv, JobOK, ReadMarket, At
    <3>2. job.ask.signal \in Signals
      BY <3>1 DEF Jobs, Asks
    <3>3. job'.ask = job.ask /\ job'.request = OrderRequest(job.ask.signal)
      BY <1>4, <2>1, <3>1 DEF ReadMarket, Request, Finish, Jobs
    <3>4. QED BY <3>1, <3>2, <3>3, RequestHasTarget DEF TargetBeyondPrice
  <2>2. CASE ReadPosition \/ ReadShare \/ ReadOrder
    <3>1. job # None /\ job \in Jobs /\ job.ask.op # "place"
      BY <2>2 DEF DInv, JobOK, ReadPosition, ReadShare, ReadOrder, At
    <3>2. job'.ask = job.ask
      <4>1. job' = None \/ \E r : job' = [job EXCEPT !.phase = "send", !.request = r]
        BY <2>2, <3>1 DEF ReadPosition, ReadShare, ReadOrder, Request, Finish, At, Jobs, Asks
      <4>2. QED BY <1>4, <3>1, <4>1 DEF Jobs
    <3>3. QED BY <3>1, <3>2 DEF TargetBeyondPrice
  <2>3. CASE Sent \/ Refused \/ AnswerLost \/ Verify \/ VerifyLost
    <3>1. job # None /\ job \in Jobs
      BY <2>3 DEF DInv, JobOK, Sent, Refused, AnswerLost, Verify, VerifyLost, Sending, At
    <3>2. job' = None \/ job'.phase # "send"
      BY <2>3, <3>1 DEF Sent, Refused, AnswerLost, Verify, VerifyLost, Again, Finish, Jobs
    <3>3. QED BY <1>4, <3>2
  <2>4. CASE \E ask \in Asks : Submit(ask)
    BY <1>4, <2>4 DEF Submit
  <2>5. CASE Outside \/ UNCHANGED vars
    BY <1>4, <2>5 DEF Outside, Move, Fill, Hit, vars
  <2>6. QED BY <2>1, <2>2, <2>3, <2>4, <2>5 DEF Next, Asked, Method
<1>5. QED BY <1>1, <1>2, <1>3, <1>4

-----------------------------------------------------------------------------
(* The state of one position in the history, as a recursive function.      *)

\* Induction over the natural numbers, for a set instead of a predicate.
LEMMA Induction ==
    ASSUME NEW T, 0 \in T, \A n \in Nat : n \in T => n + 1 \in T
    PROVE  \A n \in Nat : n \in T
<1> DEFINE Less == {ss \in Nat \X Nat : ss[1] < ss[2]}
           Bad  == Nat \ T
<1> SUFFICES ASSUME Bad # {} PROVE FALSE
  OBVIOUS
<1>1. IsWellFoundedOn(Less, Nat)
  BY NatLessThanWellFounded DEF OpToRel
<1>2. Bad \subseteq Nat
  OBVIOUS
<1> HIDE DEF Bad, Less
<1>3. PICK n \in Bad : \A m \in Bad : ~ <<m, n>> \in Less
  BY <1>1, <1>2, WFMin
<1> USE DEF Bad
<1>4. n \in Nat \ {0} /\ n - 1 \in Nat
  OBVIOUS
<1>5. <<n - 1, n>> \in Less
  <2>1. <<n - 1, n>> \in Nat \X Nat /\ n - 1 < n
    BY <1>4
  <2>2. QED BY <2>1 DEF Less
<1>6. n - 1 \in T
  BY <1>3, <1>4, <1>5
<1>7. n - 1 + 1 \in T
  BY <1>4, <1>6
<1>8. QED BY <1>4, <1>7

\* One step of the recursion.
Step(own, n, s) ==
    LET now == {d \in own : d.time = n}
    IN  IF now = {} THEN s ELSE Stepped(s, CHOOSE d \in now : TRUE)

\* A finite part of it.
Part(own, g, k) ==
    /\ DOMAIN g = 0..k
    /\ g[0] = Flat
    /\ \A i \in 1..k : g[i] = Step(own, i, g[i - 1])

LEMMA PartsExist ==
    ASSUME NEW own
    PROVE  \A k \in Nat : \E g : Part(own, g, k)
<1> DEFINE T == {k \in Nat : \E g : Part(own, g, k)}
<1>1. 0 \in T
  <2>1. Part(own, [i \in 0..0 |-> Flat], 0)
    BY DEF Part
  <2>2. QED BY <2>1
<1>2. ASSUME NEW k \in Nat, k \in T PROVE k + 1 \in T
  <2>1. PICK g : Part(own, g, k)
    BY <1>2
  <2> DEFINE h == [i \in 0..(k + 1) |-> IF i \in 0..k THEN g[i] ELSE Step(own, i, g[i - 1])]
  <2>2. DOMAIN h = 0..(k + 1) /\ h[0] = Flat
    BY <2>1 DEF Part
  <2>3. ASSUME NEW i \in 1..(k + 1) PROVE h[i] = Step(own, i, h[i - 1])
    <3>1. i - 1 \in 0..k /\ h[i - 1] = g[i - 1]
      OBVIOUS
    <3>2. CASE i \in 0..k
      BY <2>1, <3>1, <3>2 DEF Part
    <3>3. CASE i \notin 0..k
      BY <3>1, <3>3
    <3>4. QED BY <3>2, <3>3
  <2> HIDE DEF h
  <2>4. Part(own, h, k + 1)
    BY <2>2, <2>3 DEF Part
  <2>5. QED BY <2>4
<1> HIDE DEF T
<1>3. \A k \in Nat : k \in T
  BY <1>1, <1>2, Induction
<1>4. QED BY <1>3 DEF T

LEMMA PartsAgree ==
    ASSUME NEW own, NEW k \in Nat, NEW g, Part(own, g, k), NEW j \in Nat, NEW h, Part(own, h, j)
    PROVE  \A i \in Nat : i <= k /\ i <= j => g[i] = h[i]
<1> DEFINE T == {i \in Nat : i <= k /\ i <= j => g[i] = h[i]}
<1>1. 0 \in T
  BY DEF Part
<1>2. ASSUME NEW i \in Nat, i \in T PROVE i + 1 \in T
  <2>1. SUFFICES ASSUME i + 1 <= k, i + 1 <= j PROVE g[i + 1] = h[i + 1]
    OBVIOUS
  <2>2. g[i] = h[i] /\ i + 1 \in 1..k /\ i + 1 \in 1..j /\ i + 1 - 1 = i
    BY <1>2, <2>1
  <2>3. QED BY <2>2 DEF Part
<1> HIDE DEF T
<1>3. \A i \in Nat : i \in T
  BY <1>1, <1>2, Induction
<1>4. QED BY <1>3 DEF T

\* The recursive function satisfies its equation.
LEMMA StatesIs ==
    ASSUME NEW own
    PROVE  /\ States(own)[0] = Flat
           /\ \A n \in Nat : States(own)[n + 1] = Step(own, n + 1, States(own)[n])
<1> DEFINE part(n) == CHOOSE g : Part(own, g, n)
           F == [n \in Nat |-> part(n)[n]]
<1>1. \A n \in Nat : Part(own, part(n), n)
  BY PartsExist
<1>2. \A n, m \in Nat : m <= n => part(n)[m] = F[m]
  <2> SUFFICES ASSUME NEW n \in Nat, NEW m \in Nat, m <= n PROVE part(n)[m] = part(m)[m]
    OBVIOUS
  <2>1. Part(own, part(n), n) /\ Part(own, part(m), m)
    BY <1>1
  <2> HIDE DEF part
  <2>2. QED BY <2>1, PartsAgree
<1>3. F[0] = Flat
  BY <1>1 DEF Part
<1>4. ASSUME NEW n \in Nat \ {0} PROVE F[n] = Step(own, n, F[n - 1])
  <2>1. n - 1 \in Nat /\ n - 1 <= n /\ n \in 1..n
    OBVIOUS
  <2>2. part(n)[n - 1] = F[n - 1]
    BY <1>2, <2>1
  <2>3. part(n)[n] = Step(own, n, part(n)[n - 1])
    BY <1>1, <2>1 DEF Part
  <2>4. QED BY <2>2, <2>3
<1> HIDE DEF F, part
<1>5. F = [n \in Nat |-> IF n = 0 THEN Flat ELSE Step(own, n, F[n - 1])]
  <2>1. F = [n \in Nat |-> F[n]]
    BY DEF F
  <2>2. QED BY <1>3, <1>4, <2>1
<1> DEFINE S == CHOOSE f : f = [n \in Nat |-> IF n = 0 THEN Flat ELSE Step(own, n, f[n - 1])]
<1>6. S = [n \in Nat |-> IF n = 0 THEN Flat ELSE Step(own, n, S[n - 1])]
  BY <1>5
<1>7. States(own) = S
  BY DEF States, Step
<1> HIDE DEF S
<1>8. QED
  <2>1. S[0] = Flat
    BY <1>6
  <2>2. ASSUME NEW n \in Nat PROVE S[n + 1] = Step(own, n + 1, S[n])
    <3>1. n + 1 \in Nat /\ n + 1 # 0 /\ n + 1 - 1 = n
      OBVIOUS
    <3>2. S[n + 1] = Step(own, n + 1, S[n + 1 - 1])
      BY <1>6, <3>1
    <3>3. QED BY <3>1, <3>2
  <2>3. QED BY <1>7, <2>1, <2>2

LEMMA StepDepends ==
    ASSUME NEW a, NEW b, NEW n, NEW s, {d \in a : d.time = n} = {d \in b : d.time = n}
    PROVE  Step(a, n, s) = Step(b, n, s)
<1> DEFINE x == {d \in a : d.time = n}
           y == {d \in b : d.time = n}
           f(now) == IF now = {} THEN s ELSE Stepped(s, CHOOSE d \in now : TRUE)
<1>1. Step(a, n, s) = f(x) /\ Step(b, n, s) = f(y)
  BY DEF Step
<1>2. x = y
  OBVIOUS
<1> HIDE DEF x, y, f
<1>3. QED BY <1>1, <1>2

\* The states before a deal do not depend on it.
LEMMA StatesBefore ==
    ASSUME NEW own, NEW d, d.time \in Nat
    PROVE  \A n \in Nat : n < d.time => States(own \union {d})[n] = States(own)[n]
<1> DEFINE all == own \union {d}
           T   == {n \in Nat : n < d.time => States(all)[n] = States(own)[n]}
<1>1. 0 \in T
  <2>1. States(all)[0] = Flat /\ States(own)[0] = Flat
    BY StatesIs
  <2>2. QED BY <2>1
<1>2. ASSUME NEW n \in Nat, n \in T PROVE n + 1 \in T
  <2> SUFFICES ASSUME n + 1 < d.time PROVE States(all)[n + 1] = States(own)[n + 1]
    OBVIOUS
  <2>1. States(all)[n] = States(own)[n]
    BY <1>2
  <2>2. {e \in all : e.time = n + 1} = {e \in own : e.time = n + 1}
    OBVIOUS
  <2>3. Step(all, n + 1, States(own)[n]) = Step(own, n + 1, States(own)[n])
    BY <2>2, StepDepends
  <2>4. /\ States(all)[n + 1] = Step(all, n + 1, States(all)[n])
        /\ States(own)[n + 1] = Step(own, n + 1, States(own)[n])
    BY StatesIs
  <2>5. QED BY <2>1, <2>3, <2>4
<1> HIDE DEF T
<1>3. \A n \in Nat : n \in T
  BY <1>1, <1>2, Induction
<1>4. QED BY <1>3 DEF T

\* A new deal is the last step.
LEMMA StatesAfter ==
    ASSUME NEW own, NEW d, NEW n \in Nat, d.time = n + 1, \A e \in own : e.time # n + 1
    PROVE  States(own \union {d})[n + 1] = Stepped(States(own)[n], d)
<1> DEFINE all == own \union {d}
<1>1. States(all)[n + 1] = Step(all, n + 1, States(all)[n])
  BY StatesIs
<1>2. States(all)[n] = States(own)[n]
  BY StatesBefore
<1>3. {e \in all : e.time = n + 1} = {d}
  OBVIOUS
<1>4. (CHOOSE e \in {d} : TRUE) = d /\ {d} # {}
  OBVIOUS
<1>5. Step(all, n + 1, States(own)[n]) = Stepped(States(own)[n], d)
  BY <1>3, <1>4 DEF Step
<1>6. QED BY <1>1, <1>2, <1>5

\* Without a deal nothing changes.
LEMMA StatesStay ==
    ASSUME NEW own, NEW n \in Nat, \A e \in own : e.time # n + 1
    PROVE  States(own)[n + 1] = States(own)[n]
<1>1. {e \in own : e.time = n + 1} = {}
  OBVIOUS
<1>2. QED BY <1>1, StatesIs DEF Step

-----------------------------------------------------------------------------
(* The arithmetic of the average price.                                    *)

LEMMA SameAverage ==
    ASSUME NEW a \in Int, NEW b \in Int, NEW c \in Int, NEW d \in Int, a * d = c * b,
           NEW v \in Int, NEW w \in Int, NEW q \in Int, NEW total \in Int
    PROVE  (a * v + q * w * b) * (total * d) = (v * c + w * q * d) * (b * total)
<1>1. /\ a * v \in Int /\ q * w \in Int /\ q * w * b \in Int /\ total * d \in Int
      /\ v * c \in Int /\ w * q \in Int /\ w * q * d \in Int /\ b * total \in Int
  OBVIOUS
<1>2. (a * v) * (total * d) = (v * total) * (a * d)
  OBVIOUS
<1>3. (v * c) * (b * total) = (v * total) * (c * b)
  OBVIOUS
<1>4. (q * w * b) * (total * d) = (w * q * d) * (b * total)
  OBVIOUS
<1>5. (a * v + q * w * b) * (total * d) = (a * v) * (total * d) + (q * w * b) * (total * d)
  OBVIOUS
<1>6. (v * c + w * q * d) * (b * total) = (v * c) * (b * total) + (w * q * d) * (b * total)
  OBVIOUS
<1>7. (a * v) * (total * d) = (v * c) * (b * total)
  BY <1>2, <1>3
<1>8. QED BY <1>4, <1>5, <1>6, <1>7

PositionState == [volume : Nat, price : Int \X Int, since : Nat, buy : BOOLEAN]

DealFields(d) ==
    /\ d.position \in Tickets /\ d.entry \in BOOLEAN /\ d.buy \in BOOLEAN
    /\ d.volume \in Nat /\ d.price \in Int

LEMMA ExitedIs ==
    ASSUME NEW s \in PositionState, NEW d, d.volume \in Nat
    PROVE  /\ Exited(s, d) \in PositionState
           /\ d.volume = s.volume => Exited(s, d) = Flat
           /\ d.volume < s.volume => Exited(s, d) = [s EXCEPT !.volume = s.volume - d.volume]
<1> DEFINE rest == s.volume - d.volume
           left == Max({0, rest})
<1>1. s.volume \in Nat /\ rest \in Int
  BY DEF PositionState
<1>2. rest = 0 <=> d.volume = s.volume
  BY <1>1
<1>3. rest > 0 <=> d.volume < s.volume
  BY <1>1
<1>4. Exited(s, d) = IF left = 0 THEN Flat ELSE [s EXCEPT !.volume = left]
  BY DEF Exited
<1>5. Flat \in PositionState
  BY DEF Flat, PositionState
<1> HIDE DEF rest
<1>6. left \in {0, rest} /\ left >= 0 /\ left >= rest
  <2>1. 0 \in Int /\ rest \in Int
    BY <1>1
  <2>2. QED BY <2>1, MaxOfTwo, Zenon
<1> HIDE DEF left
<1>7. left \in Nat /\ (rest > 0 => left = rest) /\ (rest = 0 => left = 0)
  BY <1>1, <1>6
<1>8. [s EXCEPT !.volume = left] \in PositionState
  BY <1>7 DEF PositionState
<1>9. d.volume < s.volume => Exited(s, d) = [s EXCEPT !.volume = s.volume - d.volume]
  BY <1>1, <1>3, <1>4, <1>7 DEF rest
<1>10. QED BY <1>2, <1>4, <1>5, <1>7, <1>8, <1>9

LEMMA EnteredIs ==
    ASSUME NEW s \in PositionState, NEW d, DealFields(d), d.time \in Nat
    PROVE  Entered(s, d) \in PositionState
<1>1. /\ s.volume \in Nat /\ s.price[1] \in Int /\ s.price[2] \in Int /\ s.since \in Nat
      /\ d.volume \in Nat /\ d.price \in Int /\ d.buy \in BOOLEAN
  BY DEF PositionState, DealFields
<1>2. s.price[1] * s.volume \in Int /\ d.price * d.volume \in Int
  BY <1>1
<1>3. d.price * d.volume * s.price[2] \in Int /\ s.volume + d.volume \in Nat
  BY <1>1, <1>2
<1>4. s.price[2] * (s.volume + d.volume) \in Int
  BY <1>1, <1>3
<1>5. Weighted(s, d) \in Int \X Int
  BY <1>2, <1>3, <1>4 DEF Weighted
<1>6. (IF s.since = 0 THEN d.time ELSE s.since) \in Nat
  BY <1>1
<1>7. QED BY <1>1, <1>3, <1>5, <1>6 DEF Entered, PositionState

LEMMA StatesTyped ==
    ASSUME NEW own, \A d \in own : DealFields(d) /\ d.time \in Nat
    PROVE  \A n \in Nat : States(own)[n] \in PositionState
<1> DEFINE T == {n \in Nat : States(own)[n] \in PositionState}
<1>1. 0 \in T
  <2>1. Flat \in PositionState
    BY DEF Flat, PositionState
  <2>2. QED BY <2>1, StatesIs
<1>2. ASSUME NEW n \in Nat, n \in T PROVE n + 1 \in T
  <2> DEFINE s   == States(own)[n]
             now == {d \in own : d.time = n + 1}
  <2>1. s \in PositionState /\ States(own)[n + 1] = Step(own, n + 1, s)
    BY <1>2, StatesIs
  <2> HIDE DEF s
  <2>2. CASE now = {}
    <3>1. Step(own, n + 1, s) = s
      BY <2>2 DEF Step
    <3>2. QED BY <2>1, <3>1
  <2>3. CASE now # {}
    <3> DEFINE d == CHOOSE d \in now : TRUE
    <3>1. d \in own
      BY <2>3
    <3>2. Step(own, n + 1, s) = Stepped(s, d)
      BY <2>3 DEF Step
    <3> HIDE DEF d
    <3>3. DealFields(d) /\ d.time \in Nat
      BY <3>1
    <3>4. Stepped(s, d) \in PositionState
      BY <2>1, <3>3, ExitedIs, EnteredIs DEF Stepped, DealFields
    <3>5. QED BY <2>1, <3>2, <3>4
  <2>4. QED BY <2>2, <2>3
<1> HIDE DEF T
<1>3. \A n \in Nat : n \in T
  BY <1>1, <1>2, Induction
<1>4. QED BY <1>3 DEF T

-----------------------------------------------------------------------------
(* The invariant of the history: the states that are read off the deals of *)
(* a position are those the position had.                                  *)

DealsOK ==
    /\ \A d \in deals : DealFields(d) /\ d.time \in 1..Cardinality(deals)
    /\ \A d, e \in deals : d.time = e.time => d = e

StateNow(t) == States(OfPosition(deals, t))[Cardinality(deals)]

Shows(s, p) ==
    /\ s.since > 0 /\ s.volume > 0
    /\ p.since = s.since /\ p.buy = s.buy /\ SamePrice(s.price, p.price)

EntryBefore(t, n) == \E e \in deals : e.position = t /\ e.entry /\ e.time < n

BooksAgree ==
    \A t \in Tickets :
        IF positions[t] = None THEN StateNow(t) = Flat
        ELSE /\ Shows(StateNow(t), positions[t])
             /\ StateNow(t).volume = positions[t].volume
             /\ EntryBefore(t, Now)

ExitsAgree ==
    \A d \in deals : ~d.entry =>
        Shows(StateBefore(deals, d), d.of) /\ EntryBefore(d.position, d.time)

\* What is left of a filled order is on the side of its position.
OneSide ==
    \A t \in Tickets : orders[t] # None /\ positions[t] # None => orders[t].buy = positions[t].buy

HInv == DealsOK /\ BooksAgree /\ ExitsAgree /\ OneSide

LEMMA OneMoreDeal ==
    ASSUME BrokerOK, DealsOK, NEW d, DealFields(d), d.time = Now, deals' = deals \union {d}
    PROVE  /\ Cardinality(deals) \in Nat /\ Now = Cardinality(deals) + 1
           /\ Cardinality(deals') = Now /\ DealsOK'
           /\ \A t \in Tickets, n \in 0..Cardinality(deals) :
                 States(OfPosition(deals', t))[n] = States(OfPosition(deals, t))[n]
           /\ \A t \in Tickets : t # d.position => StateNow(t)' = StateNow(t)
           /\ StateNow(d.position)' = Stepped(StateNow(d.position), d)
           /\ \A e \in deals : ~d.entry \/ e.time < d.time
           /\ \A t, n : EntryBefore(t, n) => EntryBefore(t, n)'
<1> DEFINE c == Cardinality(deals)
<1>1. IsFiniteSet(deals) /\ c \in Nat /\ Now = c + 1
  BY FS_CardinalityType DEF BrokerOK, Now
<1>2. \A e \in deals : e.time \in 1..c /\ DealFields(e)
  BY DEF DealsOK
<1> HIDE DEF c
<1>3. \A e \in deals : e.time \in Nat /\ e.time < d.time /\ e.time # d.time
  BY <1>1, <1>2
<1>4. d \notin deals
  BY <1>3
<1>5. Cardinality(deals') = c + 1
  BY <1>1, <1>4, FS_AddElement DEF c
<1>6. DealsOK'
  <2>1. \A e \in deals' : DealFields(e) /\ e.time \in 1..Cardinality(deals')
    BY <1>1, <1>2, <1>5
  <2>2. \A e, f \in deals : e.time = f.time => e = f
    BY DEF DealsOK
  <2>3. \A e, f \in deals' : e.time = f.time => e = f
    BY <1>3, <2>2
  <2>4. QED BY <2>1, <2>3 DEF DealsOK
<1>7. /\ OfPosition(deals', d.position) = OfPosition(deals, d.position) \union {d}
      /\ \A t : t # d.position => OfPosition(deals', t) = OfPosition(deals, t)
  BY DEF OfPosition
<1>8. \A t \in Tickets, n \in 0..c : States(OfPosition(deals', t))[n] = States(OfPosition(deals, t))[n]
  <2> SUFFICES ASSUME NEW t \in Tickets, NEW n \in 0..c, t = d.position
               PROVE  States(OfPosition(deals', t))[n] = States(OfPosition(deals, t))[n]
    BY <1>7
  <2>1. n \in Nat /\ d.time \in Nat /\ n < d.time
    BY <1>1
  <2>2. States(OfPosition(deals, t) \union {d})[n] = States(OfPosition(deals, t))[n]
    BY <2>1, StatesBefore
  <2>3. QED BY <1>7, <2>2
<1>9. ASSUME NEW t \in Tickets, t # d.position PROVE StateNow(t)' = StateNow(t)
  <2> DEFINE own == OfPosition(deals, t)
  <2>1. \A e \in own : e.time # c + 1
    BY <1>1, <1>3 DEF OfPosition
  <2> HIDE DEF own
  <2>2. States(own)[c + 1] = States(own)[c]
    BY <1>1, <2>1, StatesStay
  <2>3. QED BY <1>5, <1>7, <1>9, <2>2 DEF StateNow, own, c
<1>10. StateNow(d.position)' = Stepped(StateNow(d.position), d)
  <2> DEFINE own == OfPosition(deals, d.position)
  <2>1. \A e \in own : e.time # c + 1
    BY <1>1, <1>3 DEF OfPosition
  <2>2. OfPosition(deals', d.position) = own \union {d}
    BY <1>7
  <2> HIDE DEF own
  <2>3. States(own \union {d})[c + 1] = Stepped(States(own)[c], d)
    BY <1>1, <2>1, StatesAfter
  <2>4. QED BY <1>5, <2>2, <2>3 DEF StateNow, own, c
<1>11. \A t, n : EntryBefore(t, n) => EntryBefore(t, n)'
  BY DEF EntryBefore
<1>12. QED BY <1>1, <1>3, <1>5, <1>6, <1>8, <1>9, <1>10, <1>11 DEF c

-----------------------------------------------------------------------------
(* Each deal keeps the history and the positions in agreement.              *)

\* The sides of the history that a deal leaves alone.
LEMMA OldExitsAgree ==
    ASSUME BrokerOK, DealsOK, ExitsAgree, NEW d, DealFields(d), d.time = Now, deals' = deals \union {d}
    PROVE  \A e \in deals : ~e.entry =>
              Shows(StateBefore(deals', e), e.of) /\ EntryBefore(e.position, e.time)'
<1> SUFFICES ASSUME NEW e \in deals, ~e.entry
             PROVE  Shows(StateBefore(deals', e), e.of) /\ EntryBefore(e.position, e.time)'
  OBVIOUS
<1>1. e.position \in Tickets /\ e.time \in 1..Cardinality(deals) /\ Cardinality(deals) \in Nat
  BY OneMoreDeal DEF DealsOK, DealFields
<1>2. e.time - 1 \in 0..Cardinality(deals)
  BY <1>1
<1>3. StateBefore(deals', e) = StateBefore(deals, e)
  BY <1>1, <1>2, OneMoreDeal DEF StateBefore
<1>4. EntryBefore(e.position, e.time)'
  BY OneMoreDeal DEF ExitsAgree
<1>5. QED BY <1>3, <1>4 DEF ExitsAgree

\* A fill enters the history as it changes the position.
LEMMA EnterAgrees ==
    ASSUME BrokerOK, DealsOK, BooksAgree, ExitsAgree,
           NEW t \in Tickets, NEW buy \in BOOLEAN, NEW volume \in Nat, volume >= VolumeMin,
           NEW price \in Nat, NEW sl \in Int, NEW tp \in Int, Enter(t, buy, volume, price, sl, tp),
           positions[t] # None => positions[t].buy = buy
    PROVE  DealsOK' /\ BooksAgree' /\ ExitsAgree'
<1> DEFINE d   == Deal(t, TRUE, buy, volume, price)
           s   == StateNow(t)
           old == positions[t]
<1>1. /\ deals' = deals \union {d} /\ DealFields(d) /\ d.time = Now /\ d.position = t
      /\ d.entry /\ d.buy = buy /\ d.volume = volume /\ d.price = price
  BY DEF Enter, Deal, DealFields
<1>2. positions \in [Tickets -> Position \union {None}]
  BY DEF BrokerOK
<1> HIDE DEF d
<1>3. /\ Cardinality(deals) \in Nat /\ Now = Cardinality(deals) + 1 /\ DealsOK' /\ Cardinality(deals') = Now
      /\ \A u \in Tickets : u # t => StateNow(u)' = StateNow(u)
      /\ StateNow(t)' = Stepped(s, d)
      /\ \A u, n : EntryBefore(u, n) => EntryBefore(u, n)'
      /\ \A e \in deals : ~d.entry \/ e.time < d.time
  BY <1>1, OneMoreDeal
<1>4. ExitsAgree'
  <2>1. \A e \in deals : ~e.entry =>
           Shows(StateBefore(deals', e), e.of) /\ EntryBefore(e.position, e.time)'
    BY <1>1, OldExitsAgree
  <2>2. \A e \in deals' : ~e.entry => e \in deals
    BY <1>1
  <2>3. QED BY <2>1, <2>2 DEF ExitsAgree
<1>5. Now' = Now + 1 /\ Now \in Nat /\ Now > 0
  BY <1>3 DEF Now
<1>6. s \in PositionState
  <2> DEFINE own == OfPosition(deals, t)
  <2>1. \A e \in own : DealFields(e) /\ e.time \in Nat
    BY <1>3 DEF OfPosition, DealsOK
  <2> HIDE DEF own
  <2>2. \A n \in Nat : States(own)[n] \in PositionState
    BY <2>1, StatesTyped
  <2>3. QED BY <1>3, <2>2 DEF StateNow, own
<1>7. EntryBefore(t, Now)'
  <2>1. d \in deals' /\ d.time < Now'
    BY <1>1, <1>5
  <2>2. QED BY <1>1, <2>1 DEF EntryBefore
<1>8. StateNow(t)' = Entered(s, d)
  BY <1>1, <1>3 DEF Stepped
<1>9. positions'[t] # None /\ Shows(StateNow(t)', positions'[t])
      /\ StateNow(t)'.volume = positions'[t].volume
  <2> DEFINE e == Entered(s, d)
  <2>0. VolumeMin \in Nat /\ VolumeMin > 0 /\ volume > 0
    OBVIOUS
  <2>1. CASE old = None
    <3>1. s = Flat
      BY <2>1 DEF BooksAgree
    <3>2. /\ e.volume = volume /\ e.since = Now /\ e.buy = buy
          /\ e.price = <<0 * 0 + price * volume * 1, 1 * (0 + volume)>>
      BY <1>1, <3>1 DEF Entered, Weighted, Flat
    <3>3. positions'[t] = [buy |-> buy, volume |-> volume, price |-> <<price, 1>>, since |-> Now,
                           sl |-> sl, tp |-> tp]
      BY <1>2, <2>1 DEF Enter
    <3>4. positions'[t] # None
      <4>1. positions'[t] \in Position
        BY <1>5, <3>3 DEF Position
      <4>2. QED BY <4>1
    <3>5. 0 * 0 + price * volume * 1 = price * volume /\ 1 * (0 + volume) = volume
      OBVIOUS
    <3>6. SamePrice(e.price, positions'[t].price)
      <4>1. e.price[1] = price * volume /\ e.price[2] = volume
        BY <3>2, <3>5
      <4>2. positions'[t].price[1] = price /\ positions'[t].price[2] = 1
        BY <3>3
      <4>3. (price * volume) * 1 = price * volume
        OBVIOUS
      <4>4. QED BY <4>1, <4>2, <4>3 DEF SamePrice
    <3>7. QED BY <1>5, <1>8, <2>0, <3>2, <3>3, <3>4, <3>6 DEF Shows
  <2>2. CASE old # None
    <3> DEFINE total == old.volume + volume
               num   == old.volume * old.price[1] + volume * price * old.price[2]
               den   == total * old.price[2]
               new   == [old EXCEPT !.volume = total, !.price = <<num, den>>]
    <3>1. old \in Position /\ Shows(s, old) /\ s.volume = old.volume /\ old.buy = buy
      BY <1>2, <2>2 DEF BooksAgree
    <3>2. /\ old.volume \in Nat /\ old.price[1] \in Int /\ old.price[2] \in Int
          /\ s.price[1] \in Int /\ s.price[2] \in Int /\ s.since \in Nat
      BY <1>6, <3>1 DEF Position, PositionState
    <3>3. positions'[t] = new
      BY <1>2, <2>2 DEF Enter
    <3>4. /\ e.volume = total /\ e.since = s.since /\ e.buy = buy
          /\ e.price = <<s.price[1] * old.volume + price * volume * s.price[2], s.price[2] * total>>
      BY <1>1, <3>1, <3>2 DEF Entered, Weighted, Shows
    <3>5. total \in Int /\ total > 0 /\ total \in Nat
      BY <2>0, <3>2
    <3>6. /\ new.volume = total /\ new.since = old.since /\ new.buy = old.buy
          /\ new.price = <<num, den>>
      BY <3>1 DEF Position
    <3>7. new # None
      <4>1. num \in Int /\ den \in Int
        <5>1. /\ old.volume * old.price[1] \in Int /\ volume * price \in Int
          BY <3>2
        <5>2. volume * price * old.price[2] \in Int
          BY <3>2, <5>1
        <5>3. QED BY <3>2, <3>5, <5>1, <5>2
      <4> HIDE DEF num, den, total
      <4>2. new \in Position
        BY <3>1, <3>5, <4>1 DEF Position
      <4>3. QED BY <4>2
    <3>8. SamePrice(e.price, new.price)
      <4>1. s.price[1] * old.price[2] = old.price[1] * s.price[2]
        BY <3>1 DEF Shows, SamePrice
      <4> DEFINE a == s.price[1]
                 b == s.price[2]
                 c == old.price[1]
                 f == old.price[2]
                 v == old.volume
      <4>2. a \in Int /\ b \in Int /\ c \in Int /\ f \in Int /\ v \in Int /\ volume \in Int /\ price \in Int
        BY <3>2
      <4>3. a * f = c * b
        BY <4>1
      <4>4. e.price = <<a * v + price * volume * b, b * total>> /\ new.price = <<v * c + volume * price * f, total * f>>
        BY <3>4, <3>6
      <4> HIDE DEF a, b, c, f, v, total, e, new
      <4>5. total \in Int
        BY <3>5
      <4>6. (a * v + price * volume * b) * (total * f) = (v * c + volume * price * f) * (b * total)
        BY ONLY <4>2, <4>3, <4>5, SameAverage
      <4>7. QED BY <4>4, <4>6 DEF SamePrice
    <3>9. QED
      <4> HIDE DEF new, e
      <4>1. Shows(e, new)
        BY <3>1, <3>4, <3>5, <3>6, <3>8 DEF Shows
      <4>2. QED BY <1>8, <3>3, <3>4, <3>6, <3>7, <4>1 DEF e
  <2>3. QED BY <2>1, <2>2
<1>10. BooksAgree'
  <2>1. ASSUME NEW u \in Tickets, u # t
        PROVE  IF positions'[u] = None THEN StateNow(u)' = Flat
               ELSE /\ Shows(StateNow(u)', positions'[u])
                    /\ StateNow(u)'.volume = positions'[u].volume
                    /\ EntryBefore(u, Now)'
    <3>1. positions'[u] = positions[u] /\ StateNow(u)' = StateNow(u)
      BY <1>2, <1>3, <2>1 DEF Enter
    <3>2. EntryBefore(u, Now) => EntryBefore(u, Now)'
      <4>1. \A e \in deals' : e.time < Now => e.time < Now'
        <5>1. \A e \in deals' : e.time \in Nat
          BY <1>3, <1>5 DEF DealsOK
        <5>2. QED BY <1>5, <5>1
      <4>2. QED BY <1>1, <4>1 DEF EntryBefore
    <3>3. QED BY <3>1, <3>2 DEF BooksAgree
  <2>2. QED BY <1>7, <1>9, <2>1 DEF BooksAgree
<1>11. QED BY <1>3, <1>4, <1>10

\* An exit is reported with the position it closes.
LEMMA LeaveAgrees ==
    ASSUME BrokerOK, DealsOK, BooksAgree, ExitsAgree,
           NEW t \in Tickets, positions[t] # None, NEW volume \in Nat,
           volume <= positions[t].volume, Leave(t, volume)
    PROVE  DealsOK' /\ BooksAgree' /\ ExitsAgree'
<1> DEFINE p == positions[t]
           s == StateNow(t)
<1>0. PICK d : d = Deal(t, FALSE, ~p.buy, volume, Closing(p.buy))
  OBVIOUS
<1>1. p \in Position /\ positions \in [Tickets -> Position \union {None}]
  BY DEF BrokerOK
<1>2. /\ deals' = deals \union {d} /\ d.time = Now /\ d.position = t /\ ~d.entry /\ d.volume = volume
      /\ d.of = [buy |-> p.buy, price |-> p.price, since |-> p.since]
  BY <1>0 DEF Leave, Deal
<1>3. DealFields(d)
  <2>1. Closing(p.buy) \in Int
    BY Naturals DEF BrokerOK, Closing, Ask
  <2>2. QED BY <1>0, <1>1, <2>1 DEF Deal, DealFields, Position
<1>4. /\ Cardinality(deals) \in Nat /\ Now = Cardinality(deals) + 1 /\ DealsOK' /\ Cardinality(deals') = Now
      /\ \A u \in Tickets, n \in 0..Cardinality(deals) :
            States(OfPosition(deals', u))[n] = States(OfPosition(deals, u))[n]
      /\ \A u \in Tickets : u # t => StateNow(u)' = StateNow(u)
      /\ StateNow(t)' = Stepped(s, d)
      /\ \A u, n : EntryBefore(u, n) => EntryBefore(u, n)'
  BY <1>2, <1>3, OneMoreDeal
<1>5. Shows(s, p) /\ s.volume = p.volume /\ EntryBefore(t, Now)
  BY DEF BooksAgree
<1>6. s \in PositionState
  <2> DEFINE own == OfPosition(deals, t)
  <2>1. \A e \in own : DealFields(e) /\ e.time \in Nat
    BY <1>4 DEF OfPosition, DealsOK
  <2> HIDE DEF own
  <2>2. \A n \in Nat : States(own)[n] \in PositionState
    BY <2>1, StatesTyped
  <2>3. QED BY <1>4, <2>2 DEF StateNow, own
<1>7. Now' = Now + 1 /\ Now \in Nat
  BY <1>4 DEF Now
<1>8. \A u : EntryBefore(u, Now) => EntryBefore(u, Now)'
  <2>1. \A e \in deals' : e.time < Now => e.time < Now'
    <3>1. \A e \in deals' : e.time \in Nat
      BY <1>4, <1>7 DEF DealsOK
    <3>2. QED BY <1>7, <3>1
  <2>2. QED BY <1>2, <2>1 DEF EntryBefore
<1>9. ExitsAgree'
  <2>1. \A e \in deals : ~e.entry =>
           Shows(StateBefore(deals', e), e.of) /\ EntryBefore(e.position, e.time)'
    BY <1>2, <1>3, OldExitsAgree
  <2>2. StateBefore(deals', d) = s
    <3>1. Now - 1 = Cardinality(deals) /\ Cardinality(deals) \in 0..Cardinality(deals)
      BY <1>4
    <3>2. States(OfPosition(deals', t))[Cardinality(deals)] = s
      BY <1>4, <3>1 DEF StateNow
    <3>3. StateBefore(deals', d) = States(OfPosition(deals', t))[Cardinality(deals)]
      BY <1>2, <3>1 DEF StateBefore
    <3>4. QED BY <3>2, <3>3
  <2>3. Shows(s, d.of)
    BY <1>2, <1>5 DEF Shows
  <2>4. EntryBefore(d.position, d.time)'
    <3>1. \E e \in deals : e.position = t /\ e.entry /\ e.time < Now
      BY <1>5 DEF EntryBefore
    <3>2. QED BY <1>2, <3>1 DEF EntryBefore
  <2>5. QED BY <1>2, <2>1, <2>2, <2>3, <2>4 DEF ExitsAgree
<1>10. BooksAgree'
  <2>1. ASSUME NEW u \in Tickets, u # t
        PROVE  IF positions'[u] = None THEN StateNow(u)' = Flat
               ELSE /\ Shows(StateNow(u)', positions'[u])
                    /\ StateNow(u)'.volume = positions'[u].volume
                    /\ EntryBefore(u, Now)'
    <3>1. positions'[u] = positions[u] /\ StateNow(u)' = StateNow(u)
      BY <1>1, <1>4, <2>1 DEF Leave
    <3>2. QED BY <1>8, <3>1 DEF BooksAgree
  <2>2. StateNow(t)' = Exited(s, d)
    BY <1>2, <1>4 DEF Stepped
  <2>3. CASE volume = p.volume
    <3>1. positions'[t] = None
      BY <1>1, <2>3 DEF Leave
    <3>2. StateNow(t)' = Flat
      BY <1>2, <1>5, <1>6, <2>2, <2>3, ExitedIs
    <3>3. QED BY <2>1, <3>1, <3>2 DEF BooksAgree
  <2>4. CASE volume # p.volume
    <3> DEFINE new == [p EXCEPT !.volume = p.volume - volume]
    <3>1. positions'[t] = new
      BY <1>1, <2>4 DEF Leave
    <3>2. volume < s.volume /\ p.volume \in Nat /\ p.volume - volume \in Nat
      BY <1>1, <1>5, <2>4 DEF Position
    <3>3. StateNow(t)' = [s EXCEPT !.volume = s.volume - volume]
      BY <1>2, <1>6, <2>2, <3>2, ExitedIs
    <3>4. /\ StateNow(t)'.volume = p.volume - volume /\ StateNow(t)'.since = s.since
          /\ StateNow(t)'.buy = s.buy /\ StateNow(t)'.price = s.price
      BY <1>5, <1>6, <3>3 DEF PositionState
    <3>5. /\ new \in Position /\ new.volume = p.volume - volume /\ new.since = p.since /\ new.buy = p.buy
          /\ new.price = p.price
      BY <1>1, <3>2 DEF Position
    <3>6. p.volume - volume > 0
      BY <1>1, <2>4, <3>2 
    <3>7. Shows(StateNow(t)', new) /\ new # None
      <4> HIDE DEF new
      <4>1. new # None
        BY <3>5
      <4>2. Shows(StateNow(t)', new)
        BY <1>5, <3>4, <3>5, <3>6 DEF Shows
      <4>3. QED BY <4>1, <4>2
    <3> HIDE DEF new
    <3>8. EntryBefore(t, Now)'
      BY <1>5, <1>8
    <3>9. QED BY <2>1, <3>1, <3>4, <3>5, <3>7, <3>8 DEF BooksAgree
  <2>5. QED BY <2>3, <2>4
<1>11. QED BY <1>4, <1>9, <1>10

\* Without a deal the history stays, and so do the positions but for their protection.
SameBooks ==
    /\ deals' = deals
    /\ \A t \in Tickets :
          /\ positions'[t] = None <=> positions[t] = None
          /\ positions[t] # None => /\ positions'[t].buy = positions[t].buy
                                    /\ positions'[t].volume = positions[t].volume
                                    /\ positions'[t].price = positions[t].price
                                    /\ positions'[t].since = positions[t].since

LEMMA QuietAgrees ==
    ASSUME DealsOK, BooksAgree, ExitsAgree, SameBooks
    PROVE  DealsOK' /\ BooksAgree' /\ ExitsAgree'
<1>1. deals' = deals
  BY DEF SameBooks
<1>2. DealsOK'
  BY <1>1 DEF DealsOK
<1>3. ExitsAgree'
  BY <1>1 DEF ExitsAgree, EntryBefore
<1>4. \A t \in Tickets : StateNow(t)' = StateNow(t) /\ EntryBefore(t, Now)' = EntryBefore(t, Now)
  BY <1>1 DEF StateNow, EntryBefore, Now
<1>5. BooksAgree'
  <2> SUFFICES ASSUME NEW t \in Tickets
               PROVE  IF positions'[t] = None THEN StateNow(t)' = Flat
                      ELSE /\ Shows(StateNow(t)', positions'[t])
                           /\ StateNow(t)'.volume = positions'[t].volume
                           /\ EntryBefore(t, Now)'
    BY DEF BooksAgree
  <2>1. positions'[t] = None <=> positions[t] = None
    BY DEF SameBooks
  <2>2. CASE positions[t] = None
    BY <1>4, <2>1, <2>2 DEF BooksAgree
  <2>3. CASE positions[t] # None
    <3>1. Shows(StateNow(t), positions[t]) /\ StateNow(t).volume = positions[t].volume /\ EntryBefore(t, Now)
      BY <2>3 DEF BooksAgree
    <3>2. Shows(StateNow(t), positions'[t])
      BY <2>3, <3>1 DEF SameBooks, Shows
    <3>3. QED BY <1>4, <2>1, <2>3, <3>1, <3>2 DEF SameBooks
  <2>4. QED BY <2>2, <2>3
<1>6. QED BY <1>2, <1>3, <1>5

-----------------------------------------------------------------------------
(* Every step of the desk does.                                             *)

LEMMA OpenAgrees ==
    ASSUME BrokerOK, HInv, NEW r \in Placing, r.volume >= VolumeMin, Open(r)
    PROVE  HInv'
<1> DEFINE n == NextTicket
<1>1. n \in Tickets /\ ~Used(n)
  BY DEF Open, NextTicket
<1>2. positions[n] = None /\ orders[n] = None
  BY <1>1 DEF Used
<1>3. PICK sl \in {0, r.sl}, tp \in {0, r.tp} :
        IF r.kind = "market"
        THEN Enter(n, r.buy, r.volume, Dealing(r.buy), sl, tp) /\ UNCHANGED orders
        ELSE /\ orders' = [orders EXCEPT ![n] =
                    [kind |-> r.kind, buy |-> r.buy, price |-> r.price,
                     volume |-> r.volume, sl |-> sl, tp |-> tp]]
             /\ UNCHANGED <<positions, deals>>
  BY DEF Open
<1>3a. PICK m \in Tickets : m = n
  BY <1>1
<1> HIDE DEF n
<1>4. /\ r.buy \in BOOLEAN /\ r.volume \in Nat /\ sl \in Int /\ tp \in Int
  BY DEF Placing
<1>5. /\ orders \in [Tickets -> Order \union {None}]
      /\ positions \in [Tickets -> Position \union {None}]
      /\ DealsOK /\ BooksAgree /\ ExitsAgree /\ OneSide
  BY DEF BrokerOK, HInv
<1>6. CASE r.kind = "market"
  <2>1. Enter(m, r.buy, r.volume, Dealing(r.buy), sl, tp) /\ UNCHANGED orders
    BY <1>3, <1>3a, <1>6
  <2>2. Dealing(r.buy) \in Nat
    BY <1>4, PricesAreNat
  <2>3. DealsOK' /\ BooksAgree' /\ ExitsAgree'
    BY <1>2, <1>3a, <1>4, <1>5, <2>1, <2>2, EnterAgrees
  <2>4. \A t \in Tickets \ {m} : positions'[t] = positions[t]
    BY <1>5, <2>1 DEF Enter
  <2>5. OneSide'
    BY <1>2, <1>3a, <1>5, <2>1, <2>4 DEF OneSide
  <2>6. QED BY <2>3, <2>5 DEF HInv
<1>7. CASE r.kind # "market"
  <2>1. UNCHANGED <<positions, deals>> /\ \A t \in Tickets \ {m} : orders'[t] = orders[t]
    BY <1>3, <1>3a, <1>5, <1>7
  <2>2. DealsOK' /\ BooksAgree' /\ ExitsAgree'
    BY <1>5, <2>1, QuietAgrees DEF SameBooks
  <2>3. OneSide'
    BY <1>2, <1>3a, <1>5, <2>1 DEF OneSide
  <2>4. QED BY <2>2, <2>3 DEF HInv
<1>8. QED BY <1>6, <1>7

LEMMA LeavePositionAgrees ==
    ASSUME BrokerOK, HInv, UNCHANGED orders, NEW t \in Tickets, positions[t] # None,
           NEW volume \in Nat, volume <= positions[t].volume, Leave(t, volume)
    PROVE  HInv'
<1>1. positions \in [Tickets -> Position \union {None}] /\ DealsOK /\ BooksAgree /\ ExitsAgree /\ OneSide
  BY DEF BrokerOK, HInv
<1>2. DealsOK' /\ BooksAgree' /\ ExitsAgree'
  BY <1>1, LeaveAgrees
<1>3. \A u \in Tickets : positions'[u] # None =>
          positions[u] # None /\ positions'[u].buy = positions[u].buy
  <2> SUFFICES ASSUME NEW u \in Tickets, positions'[u] # None
               PROVE  positions[u] # None /\ positions'[u].buy = positions[u].buy
    OBVIOUS
  <2>1. CASE u # t
    BY <1>1, <2>1 DEF Leave
  <2>2. CASE u = t
    <3>1. positions[t] \in Position
      BY <1>1
    <3>2. positions'[t] = [positions[t] EXCEPT !.volume = positions[t].volume - volume]
      BY <1>1, <2>2 DEF Leave
    <3>3. QED BY <2>2, <3>1, <3>2 DEF Position
  <2>3. QED BY <2>1, <2>2
<1>4. OneSide'
  BY <1>1, <1>3 DEF OneSide
<1>5. QED BY <1>2, <1>4 DEF HInv

\* A changed stop or target is not part of the history.
LEMMA ModifyAgrees ==
    ASSUME BrokerOK, HInv, UNCHANGED <<orders, deals>>, NEW t \in Tickets, positions[t] # None,
           NEW sl, NEW tp, positions' = [positions EXCEPT ![t].sl = sl, ![t].tp = tp],
           sl \in Int, tp \in Int
    PROVE  HInv'
<1>1. positions \in [Tickets -> Position \union {None}] /\ DealsOK /\ BooksAgree /\ ExitsAgree /\ OneSide
  BY DEF BrokerOK, HInv
<1>2. positions[t] \in Position
  BY <1>1
<1> DEFINE new == [positions[t] EXCEPT !.sl = sl, !.tp = tp]
<1>3. positions'[t] = new /\ \A u \in Tickets \ {t} : positions'[u] = positions[u]
  BY <1>1
<1>4. /\ new \in Position /\ new.buy = positions[t].buy /\ new.volume = positions[t].volume
      /\ new.price = positions[t].price /\ new.since = positions[t].since
  BY <1>2 DEF Position
<1> HIDE DEF new
<1>5. SameBooks
  BY <1>3, <1>4 DEF SameBooks
<1>6. DealsOK' /\ BooksAgree' /\ ExitsAgree'
  BY <1>1, <1>5, QuietAgrees
<1>7. OneSide'
  BY <1>1, <1>3, <1>4 DEF OneSide
<1>8. QED BY <1>6, <1>7 DEF HInv

LEMMA EffectAgrees ==
    ASSUME DInv, HInv, Sending, Effect
    PROVE  HInv'
<1> DEFINE ask == job.ask
           r   == job.request
           t   == ask.ticket
<1>1. BrokerOK /\ job # None /\ job \in Jobs /\ Fits /\ ask \in Asks
  BY DEF DInv, Sending, JobOK, Jobs
<1>2. CASE ask.op = "place"
  <2>1. r \in Placing /\ r.volume >= VolumeMin /\ Open(r)
    BY <1>1, <1>2 DEF Fits, Effect
  <2>2. QED BY <1>1, <2>1, OpenAgrees
<1>3. CASE ask.op = "modify"
  <2>1. /\ t \in Tickets /\ positions[t] # None /\ UNCHANGED <<orders, deals>>
        /\ positions' = [positions EXCEPT ![t].sl = r.sl, ![t].tp = r.tp]
    BY <1>1, <1>3 DEF Asks, Effect, Carry
  <2>2. r.sl \in Int /\ r.tp \in Int
    BY <1>1, <1>3 DEF Fits, Modifying
  <2> HIDE DEF r, t
  <2>3. PICK k \in Tickets : k = t
    BY <2>1
  <2>4. PICK sl \in Int, tp \in Int : sl = r.sl /\ tp = r.tp
    BY <2>2
  <2>5. QED BY <1>1, <2>1, <2>3, <2>4, ModifyAgrees
<1>4. CASE ask.op \in {"close", "reduce"}
  <2>0. PICK k \in Tickets : k = t
    BY <1>1, <1>4 DEF Asks
  <2>1. /\ positions[k] # None /\ Leave(k, r.volume) /\ UNCHANGED orders
        /\ r.volume \in 1..positions[k].volume
    BY <1>1, <1>4, <2>0 DEF Effect, Carry
  <2>2. r \in [volume : Nat] \union Sharing
    BY <1>1, <1>4 DEF Fits
  <2>3. r.volume \in Nat
    BY <2>2 DEF Sharing
  <2>4. positions[k].volume \in Nat /\ r.volume <= positions[k].volume
    BY <1>1, <2>1, <2>3 DEF BrokerOK, Position
  <2>5. QED BY <1>1, <2>1, <2>3, <2>4, LeavePositionAgrees
<1>5. CASE ask.op = "cancel"
  <2>1. /\ t \in Tickets /\ UNCHANGED <<positions, deals>> /\ orders' = [orders EXCEPT ![t] = None]
    BY <1>1, <1>5 DEF Asks, Effect, Carry
  <2>2. DealsOK' /\ BooksAgree' /\ ExitsAgree'
    BY <2>1, QuietAgrees DEF SameBooks, HInv
  <2>3. \A u \in Tickets : orders'[u] # None => orders'[u] = orders[u]
    BY <1>1, <2>1 DEF BrokerOK
  <2>4. OneSide'
    BY <2>1, <2>3 DEF OneSide, HInv
  <2>5. QED BY <2>2, <2>4 DEF HInv
<1>6. QED BY <1>1, <1>2, <1>3, <1>4, <1>5 DEF Asks

LEMMA RepairAgrees ==
    ASSUME DInv, HInv, At("verify", "place"), Repair, ~UNCHANGED broker
    PROVE  HInv'
<1>1. BrokerOK /\ job.request \in Placing /\ job.ticket \in Tickets
  BY DEF DInv, At, JobOK
<1> DEFINE t   == job.ticket
           p   == positions[t]
           sl  == Mismatched(job.request.sl, p.sl)
           tp  == Mismatched(job.request.tp, p.tp)
           r   == Modification(p, sl, tp)
<1>2. p # None /\ Carry([op |-> "modify", ticket |-> t], r)
  BY DEF Repair
<1>3. p \in Position
  BY <1>1, <1>2 DEF BrokerOK
<1>4. r.sl = Side(sl, p.sl) /\ r.tp = Side(tp, p.tp)
  BY DEF Modification
<1>5. job.request.sl \in Int /\ job.request.tp \in Int /\ p.sl \in Int /\ p.tp \in Int
  BY <1>1, <1>3 DEF Placing, Position
<1>6. r.sl \in Int /\ r.tp \in Int
  BY <1>4, <1>5 DEF Side, Mismatched
<1> HIDE DEF r
<1>7. positions' = [positions EXCEPT ![t].sl = r.sl, ![t].tp = r.tp] /\ UNCHANGED <<orders, deals>>
  BY <1>2 DEF Carry
<1>8. PICK a \in Int, b \in Int : a = r.sl /\ b = r.tp
  BY <1>6
<1>9. PICK k \in Tickets : k = t
  BY <1>1
<1>10. QED BY <1>1, <1>2, <1>7, <1>8, <1>9, ModifyAgrees

LEMMA FillAgrees ==
    ASSUME DInv, HInv, NEW t \in Tickets, Fill(t)
    PROVE  HInv'
<1> DEFINE o == orders[t]
<1>1. BrokerOK /\ o # None /\ o \in Order
  BY DEF DInv, Fill, BrokerOK
<1>2. o.buy \in BOOLEAN /\ o.volume \in Nat /\ o.sl \in Int /\ o.tp \in Int /\ VolumeMin \in Nat
  BY <1>1 DEF Order
<1>3. PICK v \in VolumeMin..o.volume :
        /\ Enter(t, o.buy, v, Dealing(o.buy), o.sl, o.tp)
        /\ orders' = [orders EXCEPT ![t] =
               IF v = o.volume THEN None ELSE [o EXCEPT !.volume = o.volume - v]]
  BY <1>1 DEF Fill, BrokerOK
<1>4. v \in Nat /\ v >= VolumeMin /\ Dealing(o.buy) \in Nat
  BY <1>1, <1>2, <1>3, PricesAreNat
<1>5. DealsOK /\ BooksAgree /\ ExitsAgree /\ OneSide
  BY DEF HInv
<1>6. positions[t] # None => positions[t].buy = o.buy
  BY <1>1, <1>5 DEF OneSide
<1>7. DealsOK' /\ BooksAgree' /\ ExitsAgree'
  <2> HIDE DEF o
  <2>1. PICK buy \in BOOLEAN, price \in Nat, sl \in Int, tp \in Int :
          buy = o.buy /\ price = Dealing(o.buy) /\ sl = o.sl /\ tp = o.tp
    BY <1>2, <1>4
  <2>2. Enter(t, buy, v, price, sl, tp) /\ (positions[t] # None => positions[t].buy = buy)
    BY <1>3, <1>6, <2>1
  <2>3. QED BY <1>1, <1>4, <1>5, <2>2, EnterAgrees
<1>8. OneSide'
  <2>1. \A u \in Tickets \ {t} : orders'[u] = orders[u] /\ positions'[u] = positions[u]
    BY <1>1, <1>3 DEF BrokerOK, Enter
  <2>2. orders'[t] # None => orders'[t].buy = o.buy
    BY <1>1, <1>3 DEF BrokerOK, Order
  <2>3. positions'[t].buy = o.buy
    <3>1. positions \in [Tickets -> Position \union {None}]
      BY <1>1 DEF BrokerOK
    <3>2. positions[t] # None => positions[t] \in Position
      BY <3>1
    <3>3. QED BY <1>3, <1>6, <3>1, <3>2 DEF Enter, Position
  <2>4. QED BY <1>5, <2>1, <2>2, <2>3 DEF OneSide
<1>9. QED BY <1>7, <1>8 DEF HInv

LEMMA HitAgrees ==
    ASSUME DInv, HInv, NEW t \in Tickets, Hit(t)
    PROVE  HInv'
<1>1. BrokerOK /\ positions[t] # None /\ positions[t] \in Position /\ UNCHANGED orders
  BY DEF DInv, Hit, BrokerOK
<1>2. PICK v \in Nat : v = positions[t].volume
  BY <1>1 DEF Position
<1>3. Leave(t, v) /\ v <= positions[t].volume
  BY <1>2 DEF Hit, Leave
<1>4. QED BY <1>1, <1>2, <1>3, LeavePositionAgrees

LEMMA InitHInv == Init => HInv
<1> SUFFICES ASSUME Init PROVE HInv
  OBVIOUS
<1>1. \A t \in Tickets : positions[t] = None /\ OfPosition(deals, t) = {}
  BY DEF Init, OfPosition
<1>2. Cardinality(deals) = 0
  BY FS_EmptySet DEF Init
<1>3. BooksAgree
  BY <1>1, <1>2, StatesIs DEF BooksAgree, StateNow
<1>4. DealsOK /\ ExitsAgree /\ OneSide
  BY <1>1, <1>2 DEF Init, DealsOK, ExitsAgree, OneSide
<1>5. QED BY <1>3, <1>4 DEF HInv

LEMMA QuietStep == ASSUME HInv, UNCHANGED broker PROVE HInv'
<1>1. DealsOK' /\ BooksAgree' /\ ExitsAgree'
  BY QuietAgrees DEF HInv, broker, SameBooks
<1>2. QED BY <1>1 DEF HInv, OneSide, broker

LEMMA NextKeepsHInv == DInv /\ HInv /\ [Next]_vars => HInv'
<1> SUFFICES ASSUME DInv, HInv, [Next]_vars PROVE HInv'
  OBVIOUS
<1>1. CASE UNCHANGED broker
  BY <1>1, QuietStep
<1>2. CASE ~UNCHANGED broker
  <2>1. /\ ~(UNCHANGED vars) /\ ~Asked /\ ~ReadMarket /\ ~ReadPosition /\ ~ReadShare /\ ~ReadOrder
        /\ ~Refused /\ ~Move
    BY <1>2 DEF vars, broker, Asked, Submit, ReadMarket, ReadPosition, ReadShare, ReadOrder, Refused,
                OnlyJob, Move
  <2>2. CASE Sent
    BY <2>2, EffectAgrees DEF Sent
  <2>3. CASE AnswerLost
    BY <1>2, <2>3, EffectAgrees DEF AnswerLost
  <2>4. CASE Verify \/ VerifyLost
    BY <1>2, <2>4, RepairAgrees DEF Verify, VerifyLost
  <2>5. CASE \E t \in Tickets : Fill(t) \/ Hit(t)
    BY <2>5, FillAgrees, HitAgrees
  <2>6. QED BY <2>1, <2>2, <2>3, <2>4, <2>5 DEF Next, Method, Outside
<1>3. QED BY <1>1, <1>2

-----------------------------------------------------------------------------
(* The window and what completes it.                                        *)

\* The deals get_history_deals pairs, the window completed.
Gathered(from) ==
    LET window == {d \in deals : d.time >= from}
    IN  window \union {d \in deals : EntryMissing(window, d.position)}

\* They hold the whole position of an exit in the window.
LEMMA PositionGathered ==
    ASSUME HInv, NEW from \in Nat, NEW d \in deals, ~d.entry, d.time >= from, Whole(d.position, from)
    PROVE  OfPosition(Gathered(from), d.position) = OfPosition(deals, d.position)
<1> DEFINE window == {e \in deals : e.time >= from}
           p      == d.position
<1>1. SUFFICES ASSUME NEW e \in deals, e.position = p PROVE e \in Gathered(from)
  <2>1. Gathered(from) \subseteq deals
    BY DEF Gathered
  <2>2. QED BY <1>1, <2>1 DEF OfPosition
<1>2. CASE EntryMissing(window, p)
  BY <1>1, <1>2 DEF Gathered
<1>3. CASE ~EntryMissing(window, p)
  <2>1. d \in ExitsOf(window, p)
    BY DEF ExitsOf
  <2>2. PICK g \in OfPosition(window, p) : g.entry
    BY <1>3, <2>1 DEF EntryMissing
  <2>3. g \in OfPosition(deals, p) /\ g.time >= from
    BY <2>2 DEF OfPosition
  <2>4. \A h \in OfPosition(deals, p) : h.entry => h.time >= from
    BY <2>2, <2>3 DEF Whole
  <2>5. e.time >= from
    <3>1. CASE e.entry
      BY <1>1, <2>4, <3>1 DEF OfPosition
    <3>2. CASE ~e.entry
      <4>1. PICK h \in deals : h.position = p /\ h.entry /\ h.time < e.time
        BY <1>1, <3>2 DEF HInv, ExitsAgree, EntryBefore
      <4>2. h.time >= from
        BY <2>4, <4>1 DEF OfPosition
      <4>3. h.time \in Nat /\ e.time \in Nat
        BY DEF HInv, DealsOK
      <4>4. QED BY <4>1, <4>2, <4>3
    <3>3. QED BY <3>1, <3>2
  <2>6. QED BY <1>1, <2>5 DEF Gathered
<1>4. QED BY <1>2, <1>3

LEMMA HistoryFollows == HInv => HistoryAgrees
<1> SUFFICES ASSUME HInv, NEW from \in 1..Cardinality(deals)
             PROVE  LET history == HistoryDeals(deals, from)
                    IN  /\ {t.time : t \in history} = {d.time : d \in {d \in deals : ~d.entry /\ d.time >= from}}
                        /\ \A d \in deals : Whole(d.position, from) =>
                               \A t \in history : t.time = d.time => Truth(t)
  BY DEF HistoryAgrees
<1> DEFINE all     == Gathered(from)
           history == HistoryDeals(deals, from)
           exits   == {d \in deals : ~d.entry /\ d.time >= from}
           report(d) == Trade(StateBefore(all, d), d)
<1>1. history = {t \in PairClosedDeals(all) : t.time >= from}
  BY DEF HistoryDeals, Gathered
<1>2. all \subseteq deals /\ \A d \in deals : d.time >= from => d \in all
  BY DEF Gathered
<1>3. \A d : report(d).time = d.time
  BY DEF Trade
<1> HIDE DEF all, report
<1>4. \A t : t \in history <=> \E d \in exits : t = report(d)
  <2>1. \A t : t \in PairClosedDeals(all) <=> \E d \in all : ~d.entry /\ t = report(d)
    BY DEF PairClosedDeals, report
  <2> HIDE DEF history
  <2>2. QED BY <1>1, <1>2, <1>3, <2>1
<1> HIDE DEF history
<1>5. {t.time : t \in history} = {d.time : d \in exits}
  BY <1>3, <1>4
<1>6. ASSUME NEW d \in deals, Whole(d.position, from), NEW t \in history, t.time = d.time
      PROVE  Truth(t)
  <2>1. PICK x \in exits : t = report(x)
    BY <1>4
  <2>2. \A e \in deals : e.time = t.time => e = d
    BY <1>6 DEF HInv, DealsOK
  <2>3. x = d
    BY <1>3, <2>1, <2>2
  <2>4. ~d.entry /\ d.time >= from /\ t = report(d)
    BY <2>1, <2>3
  <2>5. (CHOOSE e \in deals : e.time = t.time) = d
    BY <1>6, <2>2
  <2> DEFINE s == StateBefore(deals, d)
  <2>6. Shows(s, d.of)
    BY <2>4 DEF HInv, ExitsAgree
  <2>7. StateBefore(all, d) = s
    <3>1. from \in Nat
      OBVIOUS
    <3>2. OfPosition(all, d.position) = OfPosition(deals, d.position)
      BY <1>6, <2>4, <3>1, PositionGathered DEF all
    <3>3. QED BY <3>2 DEF StateBefore
  <2> HIDE DEF s
  <2>8. t = Trade(s, d)
    BY <2>4, <2>7 DEF report
  <2>9. t.since = s.since /\ t.buy = s.buy /\ t.price = s.price
    <3>1. s.since # 0 /\ s.volume # 0
      BY <2>6 DEF Shows
    <3>2. QED BY <2>8, <3>1 DEF Trade
  <2>10. QED BY <2>5, <2>6, <2>9 DEF Truth, Shows
<1>7. QED BY <1>5, <1>6 DEF history

-----------------------------------------------------------------------------
(* What is under way at the executor fits what is at the broker, at any    *)
(* time, under all market moves, fills and lost answers.                   *)
THEOREM DeskInvariant == Spec => []DInv
<1>1. QED BY InitDInv, NextKeepsDInv, PTL DEF Spec

(* A partial close never closes the position, also when it is repeated      *)
(* after a lost answer, and leaves at least the minimum volume when it read *)
(* the symbol's limits (partial_close).                                     *)
THEOREM PartialClosesArePartial == Spec => PartialCloseLeavesRest
<1>1. QED BY DeskInvariant, StepLeavesRest, PTL DEF Spec, PartialCloseLeavesRest

(* A stop or a target disappears only by a modification that asks for 0     *)
(* (modify_position, execute_signal).                                       *)
THEOREM ProtectionIsKept == Spec => ProtectionKept
<1>1. QED BY DeskInvariant, StepKeepsProtection, PTL DEF Spec, ProtectionKept

(* An order with a stop and targets is sent with a target, on the profit    *)
(* side (find_valid_tp), unless the stop of a sale is exactly twice its     *)
(* price: its 1:1 target would be 0.                                        *)
THEOREM TargetsAreBeyond == NoStopAtTwice => (Spec => []TargetBeyondPrice)
<1> SUFFICES ASSUME NoStopAtTwice PROVE Spec => []TargetBeyondPrice
  OBVIOUS
<1>1. Init => TargetBeyondPrice
  BY DEF Init, TargetBeyondPrice
<1>2. DInv /\ TargetBeyondPrice /\ [Next]_vars => TargetBeyondPrice'
  BY NextKeepsTarget
<1>3. QED BY <1>1, <1>2, DeskInvariant, PTL DEF Spec

(* The deals of each position, put together in the order of their times,    *)
(* always give the volume, side, opening time and average price that the    *)
(* position has, and every exit met those it closed (_pair_closed_deals).   *)
THEOREM HistoryInvariant == Spec => []HInv
<1>1. HInv /\ DInv /\ [Next]_vars => HInv'
  BY NextKeepsHInv
<1>2. QED BY <1>1, InitHInv, DeskInvariant, PTL DEF Spec

(* Every exit in any reporting window is reported, with the direction,      *)
(* opening time and average price of its position, when the position's      *)
(* entries lie on one side of the window's start (get_history_deals).       *)
THEOREM HistoryIsTrue == Spec => []HistoryAgrees
BY HistoryInvariant, HistoryFollows, PTL
=============================================================================
