------------------------------ MODULE Planning ------------------------------
(***************************************************************************)
(* The previews of B01: shared transports (the loop of Carpool), shared    *)
(* warehouses, procurement and demand forecasts.  Each request computes    *)
(* from the rows it reads and leaves an AlgorithmRun; it changes nothing   *)
(* that another preview reads, so one request per behaviour is enough.     *)
(*                                                                         *)
(* Prices are counted in ten-thousandths, as the column holds them, and    *)
(* amounts, scores and forecasts in hundredths, as the code rounds them.   *)
(***************************************************************************)
EXTENDS Carpool

CONSTANTS
    Warehouses,   \* rows: id, zone, place, capacity, used
    TierTables,   \* sets of price tiers with the scores of their suppliers
    Quantities,   \* required quantities of a procurement
    Histories,    \* sequences of DemandHistory quantities, oldest first
    PlanRows,     \* sets of planned quantities after the day of the forecast
    Season,       \* months of a season (12)
    NoMax         \* a tier without an upper limit

WarehouseMaxKm == 30
Today == 2

VARIABLE runs     \* the rows of algorithm_runs

allVars == <<vars, runs>>

(* A table of numbers.                                                     *)
ASSUME WarehousesAssumption ==
    \A w \in Warehouses : w.place \in Int /\ w.capacity \in Int /\ w.used \in Int

(* A request asks for more than nothing; prices and scores are not         *)
(* negative, and a table has finitely many rows.                           *)
ASSUME ProcurementAssumption ==
    /\ Quantities \subseteq Nat \ {0}
    /\ \A tiers \in TierTables :
        /\ IsFiniteSet(tiers)
        /\ \A t \in tiers :
            /\ t.price \in Nat /\ t.delivery \in Nat /\ t.quality \in Nat
            /\ t.from \in Int /\ t.until \in Int

(* Demand and plans are not negative.                                      *)
ASSUME DemandAssumption ==
    /\ Histories \subseteq Seq(Nat)
    /\ \A rows \in PlanRows : rows \subseteq Nat
    /\ Season \in Nat \ {0}

RoundDiv(a, b) == (2 * a + b) \div (2 * b)
Larger(a, b) == IF a > b THEN a ELSE b

----------------------------------------------------------------------------
(* run_warehouse_pool: DRAFT orders of one scenario and zone want a place  *)
(* together; n times the distance to their mean origin avoids a fraction.  *)

Pool(o) == Only(Drafts, {p \in ToSet(Drafts) : p.scenario = o.scenario /\ p.zone = o.zone})

Pools == {Pool(o) : o \in ToSet(Drafts)}

Far(pool, w) == LET gap == Len(pool) * w.place - Sum([i \in DOMAIN pool |-> pool[i].origin])
                IN  Larger(gap, -gap)

Free(w) == w.capacity - w.used

(* Mutant: the capacity is taken for the free room.                        *)
EligibleEmpty(pool, w) == /\ Far(pool, w) <= Len(pool) * WarehouseMaxKm
                          /\ Within90(Volume(pool), w.capacity)

Eligible(pool, w) == /\ Far(pool, w) <= Len(pool) * WarehouseMaxKm
                     /\ Within90(Volume(pool), Free(w))

Ranked(pool, v, w) ==
    \/ Eligible(pool, v) /\ ~Eligible(pool, w)
    \/ (Eligible(pool, v) <=> Eligible(pool, w)) /\ Far(pool, v) < Far(pool, w)

(* The warehouses of the zone that may head the list: which of several     *)
(* equal ones does is up to the order of the rows.                         *)
Heads(pool) ==
    LET zone == {w \in Warehouses : w.zone = Head(pool).zone}
    IN  {w \in zone : \A v \in zone : ~Ranked(pool, v, w)}

Placed(pool) == \E w \in Heads(pool) : Eligible(pool, w)

WarehouseAnswer ==
    LET item(pool) == [orders |-> pool, heads |-> Heads(pool)]
    IN  [candidates |-> {item(pool) : pool \in {p \in Pools : Placed(p)}},
         unmatched |-> {item(pool) : pool \in {p \in Pools : ~Placed(p)}}]

----------------------------------------------------------------------------
(* run_procurement.                                                        *)

Offers(tiers, q) ==
    {t \in tiers : /\ t.from <= Today /\ Today <= t.until
                   /\ t.min <= q /\ q <= t.capacity
                   /\ t.max = NoMax \/ q <= t.max}

(* Mutant: the dearest offer gets the full marks for its price.            *)
ScoreReversed(t, offers) ==
    LET high == CHOOSE p \in {o.price : o \in offers} : \A o \in offers : o.price <= p
        low == CHOOSE p \in {o.price : o \in offers} : \A o \in offers : p <= o.price
        others == 20 * (t.delivery + t.quality)
    IN  IF high = low THEN 6000 + others
        ELSE RoundDiv(6000 * (t.price - low), high - low) + others

Score(t, offers) ==
    LET high == CHOOSE p \in {o.price : o \in offers} : \A o \in offers : o.price <= p
        low == CHOOSE p \in {o.price : o \in offers} : \A o \in offers : p <= o.price
        others == 20 * (t.delivery + t.quality)
    IN  IF high = low THEN 6000 + others
        ELSE RoundDiv(6000 * (high - t.price), high - low) + others

(* The total_amount, to the cent.                                          *)
Amount(t, q) == RoundDiv(t.price * q, 100)

(* The offers that may come first: which of several equal ones does is up  *)
(* to the order the database returns them in.                              *)
Firsts(tiers, q) ==
    LET offers == Offers(tiers, q) IN
    {t \in offers : \A o \in offers \ {t} :
        \/ Score(o, offers) < Score(t, offers)
        \/ Score(o, offers) = Score(t, offers) /\ Amount(t, q) <= Amount(o, q)}

----------------------------------------------------------------------------
(* forecast_demand.                                                        *)

Recent(h) == SubSeq(h, Len(h) - Season + 1, Len(h))
Previous(h) == SubSeq(h, Len(h) - 2 * Season + 1, Len(h) - Season)

Enough(h) == Len(h) >= 2 * Season

(* (0.65 last + 0.35 mean + trend) * last / mean, with the sums of the     *)
(* seasons in place of their means.                                        *)
Seasonal(h) ==
    LET sum == Sum(Recent(h))
        trend == sum - Sum(Previous(h))
        last == Last(h)
    IN  IF sum = 0 THEN 0
        ELSE Larger(0, (last * (65 * last * Season * Season + 35 * sum * Season
                                + 100 * trend)) \div (Season * sum))

(* The weights of the last three months, oldest first.                     *)
Weights(k) == SubSeq(<<5, 3, 2>>, 4 - k, 3)

(* Mutant: the divisor is that of three months whatever there is.          *)
WeightedMeanOfThree(h) ==
    LET k == IF Len(h) < 3 THEN Len(h) ELSE 3
    IN  (100 * Sum([i \in 1..k |-> Weights(k)[i] * h[Len(h) - k + i]])) \div 10

WeightedMean(h) ==
    LET k == IF Len(h) < 3 THEN Len(h) ELSE 3
    IN  (100 * Sum([i \in 1..k |-> Weights(k)[i] * h[Len(h) - k + i]]))
            \div Sum(Weights(k))

(* The mean absolute error of the method over the history: of the value a  *)
(* season ago, or of the mean of up to three values before.                *)
Residual(h, i) ==
    LET gap == IF Enough(h) THEN 6 * (h[i] - h[i - Season])
               ELSE LET c == IF i <= 3 THEN i - 1 ELSE 3
                    IN  6 * h[i] - (6 \div c) * Sum(SubSeq(h, i - c, i - 1))
    IN  Larger(gap, -gap)

MeanError(h) ==
    LET first == IF Enough(h) THEN Season + 1 ELSE 2
    IN  IF Len(h) < first THEN 0
        ELSE (100 * Sum([i \in 1..(Len(h) - first + 1) |-> Residual(h, first + i - 1)]))
                \div (6 * (Len(h) - first + 1))

(* plan is 0 where there is no production plan.                            *)
Blended(value, plan) == IF plan = 0 THEN value ELSE (7 * value + 300 * plan) \div 10

Forecast(h, plan) ==
    IF h = <<>> THEN [value |-> 0, lower |-> 0, upper |-> 0]
    ELSE LET value == Blended(IF Enough(h) THEN Seasonal(h) ELSE WeightedMean(h), plan)
             margin == Larger((164 * MeanError(h)) \div 100, (8 * value) \div 100)
         IN  [value |-> value, lower |-> Larger(0, value - margin), upper |-> value + margin]

----------------------------------------------------------------------------
(* The handlers.                                                           *)

Fresh == runs = {} /\ candidates = <<>> /\ unmatched = <<>>

CarpoolTurn == runs = {} /\ Next /\ UNCHANGED runs

CarpoolPreview ==
    /\ runs = {}
    /\ remaining = <<>>
    /\ runs' = {[type |-> "CARPOOL", candidates |-> candidates, unmatched |-> unmatched]}
    /\ UNCHANGED vars

WarehousePreview ==
    /\ Fresh
    /\ runs' = {[type |-> "WAREHOUSE", answer |-> WarehouseAnswer]}
    /\ UNCHANGED vars

(* Bound: what reads no order is asked where the database holds none.      *)
Procurement ==
    /\ Fresh /\ book = <<>>
    /\ \E tiers \in TierTables, q \in Quantities :
        \/ /\ Firsts(tiers, q) = {}
           /\ runs' = {[type |-> "PROCUREMENT", tiers |-> tiers, quantity |-> q, first |-> {}]}
        \/ \E t \in Firsts(tiers, q) :
            runs' = {[type |-> "PROCUREMENT", tiers |-> tiers, quantity |-> q, first |-> {t}]}
    /\ UNCHANGED vars

(* With several plans after the day the database returns any one of them;  *)
(* the same bound.                                                         *)
DemandForecast ==
    /\ Fresh /\ book = <<>>
    /\ \E h \in Histories, rows \in PlanRows :
        \E plan \in IF rows = {} THEN {0} ELSE rows :
            runs' = {[type |-> "DEMAND_FORECAST", history |-> h, plan |-> plan,
                      answer |-> Forecast(h, plan)]}
    /\ UNCHANGED vars

PlanningInit == Init /\ runs = {}

PlanningNext == CarpoolTurn \/ CarpoolPreview \/ WarehousePreview
                \/ Procurement \/ DemandForecast

PlanningSpec == PlanningInit /\ [][PlanningNext]_allVars

----------------------------------------------------------------------------
(* What the previews promise.                                              *)

(* A shared warehouse is offered to a pool exactly if one of its zone is   *)
(* near enough and has the free room, the first offered is the nearest of  *)
(* those, and every DRAFT order is in exactly one pool.                    *)
WarehouseOffered ==
    \A r \in {x \in runs : x.type = "WAREHOUSE"} :
        LET items == r.answer.candidates \cup r.answer.unmatched
            good(i) == {w \in Warehouses :
                /\ \A o \in ToSet(i.orders) : o.zone = w.zone
                /\ Far(i.orders, w) <= Len(i.orders) * WarehouseMaxKm
                /\ 10 * Volume(i.orders) <= 9 * (w.capacity - w.used)}
        IN  /\ \A o \in ToSet(Drafts) :
                Cardinality({i \in items : o \in ToSet(i.orders)}) = 1
            /\ \A i \in items : i \in r.answer.candidates <=> good(i) # {}
            /\ \A i \in r.answer.candidates : \A h \in i.heads :
                /\ h \in good(i)
                /\ \A w \in good(i) : Far(i.orders, h) <= Far(i.orders, w)

(* A supplier is recommended if one can deliver the quantity today, and no *)
(* other that can asks a smaller amount, to the cent, and is at least as   *)
(* good in everything else.                                                *)
RecommendationUndominated ==
    \A r \in {x \in runs : x.type = "PROCUREMENT"} :
        LET able == {t \in r.tiers :
                /\ Today \in t.from..t.until
                /\ t.min <= r.quantity /\ r.quantity <= t.capacity
                /\ t.max # NoMax => r.quantity <= t.max}
        IN  /\ r.first = {} <=> able = {}
            /\ \A f \in r.first : f \in able /\ ~ \E t \in able :
                    /\ Amount(t, r.quantity) < Amount(f, r.quantity)
                    /\ t.delivery >= f.delivery /\ t.quality >= f.quality

(* A forecast lies between its bounds, neither below nothing; a constant   *)
(* demand is forecast as it is, whatever the length of its history; and a  *)
(* short history is never left behind by its forecast.                     *)
ForecastSound ==
    \A r \in {x \in runs : x.type = "DEMAND_FORECAST"} :
        LET a == r.answer
            h == r.history
            sample == {h[i] : i \in {j \in DOMAIN h : j > Len(h) - 3}}
        IN  /\ 0 <= a.lower /\ a.lower <= a.value /\ a.value <= a.upper
            /\ \A c \in ToSet(h) : ToSet(h) = {c} =>
                    a.value = IF r.plan = 0 THEN 100 * c ELSE 70 * c + 30 * r.plan
            /\ h # <<>> /\ Len(h) < 2 * Season /\ r.plan = 0 =>
                    /\ \E x \in sample : 100 * x <= a.value
                    /\ \E x \in sample : a.value <= 100 * x
=============================================================================
