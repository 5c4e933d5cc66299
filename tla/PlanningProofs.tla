---------------------------- MODULE PlanningProofs ----------------------------
(***************************************************************************)
(* What the previews of Planning answer, for any orders, vehicles,         *)
(* warehouses, price tiers and histories: the warehouse that is offered is *)
(* the nearest that has the room, no offer is better in everything than    *)
(* the one recommended, and a forecast lies between its bounds.            *)
(***************************************************************************)
EXTENDS Planning, CarpoolProofs

----------------------------------------------------------------------------
(* Numbers.                                                                *)

(* A function on a finite set has a greatest value: of the sets of those   *)
(* with a greater one than some element, the smallest is empty.            *)
LEMMA Greatest ==
    ASSUME NEW S, IsFiniteSet(S), S # {}, NEW f \in [S -> Int]
    PROVE  \E m \in S : \A x \in S : f[x] <= f[m]
  <1> DEFINE Above(m) == {x \in S : f[x] > f[m]}
             All == {Above(m) : m \in S}
  <1>1. \A m \in S : Above(m) \in All
    OBVIOUS
  <1>2. All \subseteq SUBSET S /\ All # {}
    <2>1. All \subseteq SUBSET S
      OBVIOUS
    <2>2. PICK m \in S : TRUE
      OBVIOUS
    <2>3. Above(m) \in All
      BY <1>1
    <2> QED
      BY <2>1, <2>3, Zenon
  <1>3. \A U \in All : \E m \in S : U = Above(m)
    OBVIOUS
  <1> HIDE DEF All
  <1>4. PICK U \in All : \A V \in All : <<V, U>> \notin StrictSubsetOrdering(S)
    <2>1. IsWellFoundedOn(StrictSubsetOrdering(S), SUBSET S)
      BY FS_FiniteSubsetsOfFinite, FS_StrictSubsetOrderingWellFounded
    <2> QED
      BY <1>2, <2>1, WFMin
  <1>5. PICK m \in S : U = Above(m)
    BY <1>3
  <1>6. ASSUME NEW x \in S, f[x] > f[m] PROVE FALSE
    <2>1. Above(x) \subseteq Above(m) /\ x \in Above(m) /\ x \notin Above(x)
      BY <1>6
    <2>2. <<Above(x), U>> \in StrictSubsetOrdering(S)
      BY <1>5, <2>1 DEF StrictSubsetOrdering
    <2> QED
      BY <1>1, <1>4, <2>2
  <1> QED
    BY <1>5, <1>6

(* Products keep the order.                                                *)
LEMMA ProductGrows ==
    ASSUME NEW a \in Int, NEW b \in Int, a < b, NEW q \in Nat \ {0}
    PROVE  a * q < b * q
  OBVIOUS

(* Rounded quotients keep the order.                                       *)
LEMMA QuotientGrows ==
    ASSUME NEW a \in Int, NEW b \in Int, a <= b, NEW d \in Nat \ {0}
    PROVE  /\ a \div d \in Int /\ a \div d <= b \div d
  <1>1. /\ a \div d \in Int /\ b \div d \in Int
        /\ a = d * (a \div d) + (a % d) /\ a % d \in 0..(d - 1)
        /\ b = d * (b \div d) + (b % d) /\ b % d \in 0..(d - 1)
    OBVIOUS
  <1>2. ASSUME NEW x \in Int, NEW y \in Int, x > y PROVE d * x >= d * y + d
    <2>1. d * (x - y) >= d
      BY <1>2
    <2> QED
      BY <2>1
  <1> QED
    BY <1>1, <1>2

(* The same, when they are rounded half up.                                *)
LEMMA RoundDivGrows ==
    ASSUME NEW a \in Int, NEW b \in Int, a <= b, NEW d \in Nat \ {0}
    PROVE  RoundDiv(a, d) \in Int /\ RoundDiv(a, d) <= RoundDiv(b, d)
  <1>1. 2 * a + d \in Int /\ 2 * b + d \in Int /\ 2 * a + d <= 2 * b + d /\ 2 * d \in Nat \ {0}
    OBVIOUS
  <1> QED
    BY <1>1, QuotientGrows DEF RoundDiv

----------------------------------------------------------------------------
(* run_procurement.                                                        *)

Prices(offers) == {o.price : o \in offers}
High(offers) == CHOOSE p \in Prices(offers) : \A o \in offers : o.price <= p
Low(offers) == CHOOSE p \in Prices(offers) : \A o \in offers : p <= o.price
Others(t) == 20 * (t.delivery + t.quality)

(* Offers that compete: some, finitely many, of natural numbers.           *)
Competing(offers) ==
    /\ IsFiniteSet(offers) /\ offers # {}
    /\ \A o \in offers : o.price \in Nat /\ o.delivery \in Nat /\ o.quality \in Nat

(* There is a highest and a lowest price.                                  *)
LEMMA HighLow ==
    ASSUME NEW offers, Competing(offers)
    PROVE  /\ High(offers) \in Nat /\ Low(offers) \in Nat
           /\ \A o \in offers : Low(offers) <= o.price /\ o.price <= High(offers)
  <1> DEFINE f == [o \in offers |-> o.price]
  <1>1. /\ Prices(offers) \subseteq Nat /\ Prices(offers) # {}
        /\ \A o \in offers : o.price \in Prices(offers)
    BY DEF Competing, Prices
  <1>2. f \in [offers -> Int] /\ \A o \in offers : f[o] = o.price
    BY DEF Competing
  <1> HIDE DEF f
  <1>3. PICK m \in offers : \A o \in offers : f[o] <= f[m]
    BY <1>2, Greatest DEF Competing
  <1>4. High(offers) \in Prices(offers) /\ \A o \in offers : o.price <= High(offers)
    BY <1>1, <1>2, <1>3 DEF High
  <1>5. PICK k \in Prices(offers) : \A j \in Prices(offers) : k <= j
    BY <1>1, Least
  <1>6. Low(offers) \in Prices(offers) /\ \A o \in offers : Low(offers) <= o.price
    BY <1>1, <1>5 DEF Low
  <1> QED
    BY <1>1, <1>4, <1>6

(* The score in terms of them.                                             *)
LEMMA ScoreValue ==
    ASSUME NEW offers, NEW t
    PROVE  Score(t, offers) =
                IF High(offers) = Low(offers) THEN 6000 + Others(t)
                ELSE RoundDiv(6000 * (High(offers) - t.price), High(offers) - Low(offers))
                        + Others(t)
  BY DEF Score, High, Low, Others, Prices

(* An offer that is cheaper and as good in everything else scores no less. *)
LEMMA BetterScores ==
    ASSUME NEW offers, Competing(offers), NEW f \in offers, NEW t \in offers,
           t.price <= f.price, t.delivery >= f.delivery, t.quality >= f.quality
    PROVE  /\ Score(f, offers) \in Int /\ Score(t, offers) \in Int
           /\ Score(f, offers) <= Score(t, offers)
  <1> DEFINE h == High(offers)
             l == Low(offers)
  <1>1. /\ h \in Nat /\ l \in Nat /\ l <= h
        /\ t.price \in Nat /\ f.price \in Nat
    <2>1. h \in Nat /\ l \in Nat /\ l <= t.price /\ t.price <= h
      BY HighLow
    <2>2. t.price \in Nat /\ f.price \in Nat
      BY DEF Competing
    <2> QED
      BY <2>1, <2>2
  <1>2. Others(f) \in Int /\ Others(t) \in Int /\ Others(f) <= Others(t)
    BY DEF Competing, Others
  <1> HIDE DEF h, l
  <1>3. CASE h = l
    BY <1>2, <1>3, ScoreValue DEF h, l
  <1>4. CASE h # l
    <2>1. /\ 6000 * (h - f.price) \in Int /\ 6000 * (h - t.price) \in Int /\ h - l \in Nat \ {0}
          /\ 6000 * (h - f.price) <= 6000 * (h - t.price)
      BY <1>1, <1>4
    <2> DEFINE x == RoundDiv(6000 * (h - f.price), h - l)
               y == RoundDiv(6000 * (h - t.price), h - l)
    <2>2. x \in Int /\ y \in Int /\ x <= y
      BY <2>1, RoundDivGrows
    <2>3. Score(f, offers) = x + Others(f) /\ Score(t, offers) = y + Others(t)
      BY <1>4, ScoreValue DEF h, l
    <2> HIDE DEF x, y
    <2> QED
      BY <1>2, <2>2, <2>3
  <1> QED
    BY <1>3, <1>4

(* A price that is no higher makes no larger amount.                       *)
LEMMA AmountGrows ==
    ASSUME NEW t, NEW f, t.price \in Nat, f.price \in Nat, t.price <= f.price,
           NEW q \in Nat \ {0}
    PROVE  Amount(t, q) \in Int /\ Amount(t, q) <= Amount(f, q)
  <1>1. \A a, b \in Nat : a <= b => a * q \in Int /\ b * q \in Int /\ a * q <= b * q
    BY ProductGrows
  <1>2. /\ t.price * q \in Int /\ f.price * q \in Int
        /\ t.price * q <= f.price * q
    BY <1>1
  <1> QED
    BY <1>2, RoundDivGrows DEF Amount

(* An amount rounds something that is not negative.                        *)
LEMMA AmountNat ==
    ASSUME NEW t, t.price \in Nat, NEW q \in Nat \ {0}
    PROVE  Amount(t, q) \in Nat
  <1>1. \A a \in Nat : a * q \in Nat
    OBVIOUS
  <1>2. \A n \in Nat : (2 * n + 100) \div 200 \in Nat
    OBVIOUS
  <1> QED
    BY <1>1, <1>2 DEF Amount, RoundDiv

(* The offers of a procurement are numbers in finite tables.               *)
LEMMA OffersCompete ==
    ASSUME NEW tiers \in TierTables, NEW q \in Quantities, Offers(tiers, q) # {}
    PROVE  Competing(Offers(tiers, q))
  <1>1. Offers(tiers, q) \subseteq tiers
    BY DEF Offers
  <1>2. IsFiniteSet(Offers(tiers, q))
    BY <1>1, ProcurementAssumption, FS_Subset
  <1> QED
    BY <1>1, <1>2, ProcurementAssumption DEF Competing

(* If there is an offer, one of them comes first: of those with the best   *)
(* score the one with the lowest total.                                    *)
LEMMA SomeFirst ==
    ASSUME NEW tiers \in TierTables, NEW q \in Quantities, Offers(tiers, q) # {}
    PROVE  Firsts(tiers, q) # {}
  <1> DEFINE offers == Offers(tiers, q)
             f == [o \in offers |-> Score(o, offers)]
  <1>1. Competing(offers)
    BY OffersCompete
  <1> HIDE DEF offers
  <1>2. \A o \in offers : Score(o, offers) \in Int /\ o.price \in Nat
    <2>1. ASSUME NEW o \in offers PROVE Score(o, offers) \in Int /\ o.price \in Nat
      <3>1. o.price \in Nat /\ o.delivery \in Nat /\ o.quality \in Nat
        BY <1>1 DEF Competing
      <3> QED
        BY <1>1, <3>1, BetterScores
    <2> QED
      BY <2>1
  <1>3. f \in [offers -> Int] /\ \A o \in offers : f[o] = Score(o, offers)
    BY <1>2
  <1> HIDE DEF f
  <1>4. PICK m \in offers : \A o \in offers : f[o] <= f[m]
    BY <1>1, <1>3, Greatest DEF Competing
  <1> DEFINE Top == {o \in offers : Score(o, offers) = Score(m, offers)}
             Z == {Amount(o, q) : o \in Top}
  <1>5. q \in Nat \ {0}
    BY ProcurementAssumption
  <1>6. \A o \in Top : Amount(o, q) \in Nat
    BY <1>2, <1>5, AmountNat
  <1>7. Z \subseteq Nat /\ Amount(m, q) \in Z
    BY <1>6
  <1>8. \A o \in Top : Amount(o, q) \in Z
    OBVIOUS
  <1>9. \A z \in Z : \E o \in Top : z = Amount(o, q)
    OBVIOUS
  <1> HIDE DEF Z
  <1>10. PICK k \in Z : \A j \in Z : k <= j
    BY <1>7, Least
  <1>11. PICK t \in Top : k = Amount(t, q)
    BY <1>9
  <1>12. ASSUME NEW o \in offers \ {t}
         PROVE  \/ Score(o, offers) < Score(t, offers)
                \/ (Score(o, offers) = Score(t, offers) /\ Amount(t, q) <= Amount(o, q))
    <2>1. CASE o \in Top
      BY <1>8, <1>10, <1>11, <2>1
    <2>2. CASE o \notin Top
      <3>1. /\ Score(o, offers) \in Int /\ Score(t, offers) \in Int
            /\ Score(o, offers) <= Score(t, offers) /\ Score(o, offers) # Score(t, offers)
        BY <1>2, <1>3, <1>4, <2>2
      <3> QED
        BY <3>1
    <2> QED
      BY <2>1, <2>2
  <1>13. t \in Firsts(tiers, q)
    BY <1>12 DEF Firsts, offers
  <1> QED
    BY <1>13

(* No other offer asks less than the first and is as good otherwise.       *)
LEMMA FirstUndominated ==
    ASSUME NEW tiers \in TierTables, NEW q \in Quantities,
           NEW f \in Firsts(tiers, q), NEW t \in Offers(tiers, q),
           Amount(t, q) < Amount(f, q), t.delivery >= f.delivery, t.quality >= f.quality
    PROVE  FALSE
  <1> DEFINE offers == Offers(tiers, q)
  <1>1. /\ Competing(offers) /\ f \in offers /\ t \in offers \ {f}
        /\ t.price \in Nat /\ f.price \in Nat /\ q \in Nat \ {0}
        /\ Amount(t, q) \in Nat /\ Amount(f, q) \in Nat
    <2>1. f \in offers
      BY DEF Firsts
    <2>2. Competing(offers)
      BY OffersCompete
    <2>3. t.price \in Nat /\ f.price \in Nat /\ q \in Nat \ {0}
      BY <2>1, <2>2, ProcurementAssumption DEF Competing
    <2>4. Amount(t, q) \in Nat /\ Amount(f, q) \in Nat
      BY <2>3, AmountNat
    <2>5. t # f
      BY <2>4
    <2> QED
      BY <2>1, <2>2, <2>3, <2>4, <2>5
  <1>2. \/ Score(t, offers) < Score(f, offers)
        \/ (Score(t, offers) = Score(f, offers) /\ Amount(f, q) <= Amount(t, q))
    BY <1>1 DEF Firsts
  <1> HIDE DEF offers
  <1>3. t.price <= f.price
    <2>1. CASE f.price <= t.price
      <3>1. Amount(f, q) <= Amount(t, q)
        BY <1>1, <2>1, AmountGrows
      <3> QED
        BY <1>1, <3>1
    <2> QED
      BY <1>1, <2>1
  <1>4. /\ Score(f, offers) \in Int /\ Score(t, offers) \in Int
        /\ Score(f, offers) <= Score(t, offers)
    BY <1>1, <1>3, BetterScores
  <1> QED
    BY <1>1, <1>2, <1>4

(* What a run of run_procurement promises.                                 *)
Undominated(tiers, q, first) ==
    LET able == {t \in tiers :
            /\ Today \in t.from..t.until
            /\ t.min <= q /\ q <= t.capacity
            /\ t.max # NoMax => q <= t.max}
    IN  /\ first = {} <=> able = {}
        /\ \A f \in first : f \in able /\ ~ \E t \in able :
                /\ Amount(t, q) < Amount(f, q)
                /\ t.delivery >= f.delivery /\ t.quality >= f.quality

(* The run it leaves keeps that promise.                                   *)
LEMMA ProcurementUndominated ==
    ASSUME NEW tiers \in TierTables, NEW q \in Quantities, NEW first,
           \/ Firsts(tiers, q) = {} /\ first = {}
           \/ \E t \in Firsts(tiers, q) : first = {t}
    PROVE  Undominated(tiers, q, first)
  <1> DEFINE able == {t \in tiers :
                /\ Today \in t.from..t.until
                /\ t.min <= q /\ q <= t.capacity
                /\ t.max # NoMax => q <= t.max}
  <1>1. able = Offers(tiers, q)
    <2>1. \A t \in tiers : Today \in t.from..t.until <=> t.from <= Today /\ Today <= t.until
      BY ProcurementAssumption DEF Today
    <2> QED
      BY <2>1 DEF Offers
  <1> HIDE DEF able
  <1>2. first = {} <=> able = {}
    <2>1. Firsts(tiers, q) \subseteq Offers(tiers, q)
      BY DEF Firsts
    <2> QED
      BY <1>1, <2>1, SomeFirst
  <1>3. \A f \in first : f \in able /\ f \in Firsts(tiers, q)
    BY <1>1 DEF Firsts
  <1> QED
    BY <1>1, <1>2, <1>3, FirstUndominated DEF Undominated, able

----------------------------------------------------------------------------
(* run_warehouse_pool.                                                     *)

(* The sum of integers.                                                    *)
LEMMA SumInt == ASSUME NEW q \in Seq(Int) PROVE Sum(q) \in Int
  <1>1. PICK f : SumTrace(f, q)
    BY SumLoop
  <1>2. Len(q) \in Nat
    BY LenProperties
  <1> QED
    BY <1>1, <1>2 DEF SumTrace

(* A pool holds the DRAFT orders of one scenario and zone.                 *)
LEMMA PoolOrders ==
    ASSUME book \in Books, NEW o \in ToSet(Drafts)
    PROVE  /\ Pool(o) \in Seq(Rows) /\ Pool(o) # <<>>
           /\ ToSet(Pool(o)) = {p \in ToSet(Drafts) : p.scenario = o.scenario /\ p.zone = o.zone}
           /\ Head(Pool(o)) \in ToSet(Pool(o))
  <1> DEFINE S == {p \in ToSet(Drafts) : p.scenario = o.scenario /\ p.zone = o.zone}
             r == Pool(o)
  <1>1. Drafts \in Seq(Rows)
    BY DraftsOrdered
  <1>2. r = Only(Drafts, S)
    BY DEF Pool
  <1>3. o \in S /\ S \subseteq ToSet(Drafts)
    OBVIOUS
  <1> HIDE DEF S, r
  <1>4. r \in Seq(Rows) /\ ToSet(r) = S
    <2>1. Only(Drafts, S) \in Seq(Rows)
      BY <1>1, OnlyPicks
    <2>2. ToSet(Only(Drafts, S)) = ToSet(Drafts) \cap S
      BY <1>1, OnlySet
    <2> QED
      BY <1>2, <1>3, <2>1, <2>2
  <1>5. r # <<>>
    BY <1>3, <1>4, EmptySeq DEF ToSet
  <1>6. Head(r) \in ToSet(r)
    <2>1. Head(r) = r[1] /\ 1 \in 1..Len(r) /\ DOMAIN r = 1..Len(r)
      BY <1>4, <1>5, EmptySeq, HeadTailProperties, LenProperties
    <2> QED
      BY <2>1 DEF ToSet
  <1> QED
    BY <1>4, <1>5, <1>6 DEF S, r

(* The distance of a pool is a natural number.                             *)
LEMMA FarNat ==
    ASSUME NEW pool \in Seq(Rows), NEW w \in Warehouses
    PROVE  Far(pool, w) \in Nat
  <1> DEFINE q == [i \in DOMAIN pool |-> pool[i].origin]
  <1>1. \A i \in DOMAIN pool : pool[i] \in Rows
    BY LenProperties
  <1>2. q \in [DOMAIN pool -> Int]
    BY <1>1, RowsAssumption
  <1>3. Far(pool, w) = Larger(Len(pool) * w.place - Sum(q), -(Len(pool) * w.place - Sum(q)))
    BY DEF Far
  <1> HIDE DEF q
  <1>4. Sum(q) \in Int
    BY <1>2, Numbers, SumInt
  <1>5. Len(pool) * w.place \in Int
    <2>1. Len(pool) \in Int /\ w.place \in Int
      BY WarehousesAssumption, LenProperties
    <2> QED
      BY <2>1
  <1>6. Len(pool) * w.place - Sum(q) \in Int
    BY <1>4, <1>5
  <1>7. \A x \in Int : Larger(x, -x) \in Nat
    BY DEF Larger
  <1> QED
    BY <1>3, <1>6, <1>7

(* The warehouses a pool could use.                                        *)
Good(pool) == {w \in Warehouses :
    /\ \A o \in ToSet(pool) : o.zone = w.zone
    /\ Far(pool, w) <= Len(pool) * WarehouseMaxKm
    /\ 10 * Volume(pool) <= 9 * (w.capacity - w.used)}

(* They are the eligible ones of its zone.                                 *)
LEMMA GoodEligible ==
    ASSUME book \in Books, NEW o \in ToSet(Drafts)
    PROVE  Good(Pool(o)) =
                {w \in Warehouses : w.zone = Head(Pool(o)).zone /\ Eligible(Pool(o), w)}
  <1> DEFINE r == Pool(o)
  <1>1. Head(r) \in ToSet(r) /\ \A p \in ToSet(r) : p.zone = o.zone
    BY PoolOrders
  <1> HIDE DEF r
  <1>2. \A w \in Warehouses : (\A p \in ToSet(r) : p.zone = w.zone) <=> w.zone = Head(r).zone
    BY <1>1
  <1> QED
    BY <1>2 DEF Good, Eligible, Within90, Free, r

(* If a pool could use a warehouse, those that head its list are the       *)
(* nearest of them; if not, none of them is eligible.                      *)
LEMMA HeadsNearest ==
    ASSUME book \in Books, NEW o \in ToSet(Drafts)
    PROVE  LET pool == Pool(o) IN
           /\ Placed(pool) <=> Good(pool) # {}
           /\ Placed(pool) => \A h \in Heads(pool) :
                h \in Good(pool) /\ \A w \in Good(pool) : Far(pool, h) <= Far(pool, w)
  <1> DEFINE pool == Pool(o)
             zone == {w \in Warehouses : w.zone = Head(pool).zone}
             good == Good(pool)
  <1>1. good = {w \in zone : Eligible(pool, w)}
    BY GoodEligible
  <1>2. Heads(pool) = {w \in zone : \A v \in zone : ~Ranked(pool, v, w)}
    BY DEF Heads
  <1>3. \A w \in zone : Far(pool, w) \in Nat
    BY PoolOrders, FarNat
  <1> HIDE DEF pool, zone, good
  <1>4. Placed(pool) => good # {}
    BY <1>1, <1>2 DEF Placed
  <1>5. ASSUME good # {} PROVE Placed(pool)
    <2> DEFINE Z == {Far(pool, w) : w \in good}
    <2>1. Z \subseteq Nat /\ Z # {}
      BY <1>1, <1>3, <1>5
    <2>2. \A w \in good : Far(pool, w) \in Z
      OBVIOUS
    <2>3. \A z \in Z : \E w \in good : z = Far(pool, w)
      OBVIOUS
    <2> HIDE DEF Z
    <2>4. PICK k \in Z : \A j \in Z : k <= j
      BY <2>1, Least
    <2>5. PICK h \in good : k = Far(pool, h)
      BY <2>3
    <2>6. ASSUME NEW v \in zone PROVE ~Ranked(pool, v, h)
      <3>1. h \in zone /\ Eligible(pool, h)
        BY <1>1, <2>5
      <3>2. Eligible(pool, v) => Far(pool, h) <= Far(pool, v)
        BY <1>1, <2>2, <2>4, <2>5
      <3> QED
        BY <1>3, <3>1, <3>2 DEF Ranked
    <2> QED
      BY <1>1, <1>2, <2>5, <2>6 DEF Placed
  <1>6. ASSUME Placed(pool), NEW h \in Heads(pool)
        PROVE  h \in good /\ \A w \in good : Far(pool, h) <= Far(pool, w)
    <2>1. PICK w \in Heads(pool) : Eligible(pool, w)
      BY <1>6 DEF Placed
    <2>2. h \in zone /\ Eligible(pool, h)
      BY <1>2, <2>1 DEF Ranked
    <2>3. ASSUME NEW v \in good PROVE Far(pool, h) <= Far(pool, v)
      <3>1. v \in zone /\ Eligible(pool, v) /\ ~Ranked(pool, v, h)
        BY <1>1, <1>2, <1>6
      <3> QED
        BY <1>3, <2>2, <3>1 DEF Ranked
    <2> QED
      BY <1>1, <2>2, <2>3
  <1> QED
    BY <1>4, <1>5, <1>6 DEF pool, good

(* What a run of run_warehouse_pool promises.                              *)
Offered(answer) ==
    LET items == answer.candidates \cup answer.unmatched
        good(i) == Good(i.orders)
    IN  /\ \A o \in ToSet(Drafts) :
            Cardinality({i \in items : o \in ToSet(i.orders)}) = 1
        /\ \A i \in items : i \in answer.candidates <=> good(i) # {}
        /\ \A i \in answer.candidates : \A h \in i.heads :
            /\ h \in good(i)
            /\ \A w \in good(i) : Far(i.orders, h) <= Far(i.orders, w)

Item(pool) == [orders |-> pool, heads |-> Heads(pool)]

(* An order is in its own pool, and in no other.                           *)
LEMMA OwnPool ==
    ASSUME book \in Books, NEW o \in ToSet(Drafts), NEW pool \in Pools
    PROVE  o \in ToSet(pool) <=> pool = Pool(o)
  <1>1. PICK p \in ToSet(Drafts) : pool = Pool(p)
    BY DEF Pools
  <1>2. ToSet(pool) = {x \in ToSet(Drafts) : x.scenario = p.scenario /\ x.zone = p.zone}
    BY <1>1, PoolOrders
  <1>3. ASSUME o \in ToSet(pool) PROVE pool = Pool(o)
    BY <1>1, <1>2, <1>3 DEF Pool
  <1>4. o \in ToSet(Pool(o))
    BY PoolOrders
  <1> QED
    BY <1>3, <1>4

(* The answer keeps that promise.                                          *)
LEMMA AnswerOffered ==
    ASSUME book \in Books
    PROVE  Offered(WarehouseAnswer)
  <1> DEFINE C == {Item(pool) : pool \in {p \in Pools : Placed(p)}}
             U == {Item(pool) : pool \in {p \in Pools : ~Placed(p)}}
  <1>1. WarehouseAnswer.candidates = C /\ WarehouseAnswer.unmatched = U
    BY DEF WarehouseAnswer, Item
  <1>2. ASSUME NEW i \in C \cup U
        PROVE  i.orders \in Pools /\ i = Item(i.orders) /\ i.heads = Heads(i.orders)
    BY DEF Item
  <1>3. \A pool \in Pools : Item(pool) \in C \cup U
    OBVIOUS
  <1>4. \A i \in C \cup U : i \in C <=> Placed(i.orders)
    BY DEF Item
  <1>5. \A pool \in Pools : \E o \in ToSet(Drafts) : pool = Pool(o)
    BY DEF Pools
  <1> HIDE DEF C, U
  <1>6. ASSUME NEW o \in ToSet(Drafts)
        PROVE  Cardinality({i \in C \cup U : o \in ToSet(i.orders)}) = 1
    <2>1. Pool(o) \in Pools
      BY DEF Pools
    <2>2. Item(Pool(o)) \in C \cup U /\ Item(Pool(o)).orders = Pool(o)
      BY <1>3, <2>1 DEF Item
    <2>3. \A i \in C \cup U : o \in ToSet(i.orders) <=> i = Item(Pool(o))
      BY <1>2, <2>1, <2>2, OwnPool
    <2>4. {i \in C \cup U : o \in ToSet(i.orders)} = {Item(Pool(o))}
      BY <2>2, <2>3
    <2> QED
      BY <2>4, FS_Singleton
  <1>7. ASSUME NEW i \in C \cup U
        PROVE  i \in C <=> Good(i.orders) # {}
    <2>1. PICK o \in ToSet(Drafts) : i.orders = Pool(o)
      BY <1>2, <1>5
    <2> QED
      BY <1>4, <2>1, HeadsNearest
  <1>8. ASSUME NEW i \in C, NEW h \in i.heads
        PROVE  /\ h \in Good(i.orders)
               /\ \A w \in Good(i.orders) : Far(i.orders, h) <= Far(i.orders, w)
    <2>1. PICK o \in ToSet(Drafts) : i.orders = Pool(o)
      BY <1>2, <1>5
    <2>2. Placed(i.orders) /\ h \in Heads(i.orders)
      BY <1>2, <1>4
    <2> QED
      BY <2>1, <2>2, HeadsNearest
  <1> QED
    BY <1>1, <1>6, <1>7, <1>8 DEF Offered

----------------------------------------------------------------------------
(* forecast_demand.                                                        *)

(* Quotients of natural numbers.                                           *)
LEMMA QuotientNat == ASSUME NEW a \in Nat, NEW d \in Nat \ {0} PROVE a \div d \in Nat
  OBVIOUS

(* An exact quotient.                                                      *)
LEMMA QuotientExact ==
    ASSUME NEW a \in Int, NEW d \in Nat \ {0} PROVE (a * d) \div d = a
  <1> DEFINE x == (a * d) \div d
             r == (a * d) % d
  <1>1. x \in Int /\ r \in 0..(d - 1) /\ a * d = d * x + r
    OBVIOUS
  <1> HIDE DEF x, r
  <1>2. d * (a - x) = r
    BY <1>1
  <1>3. CASE a - x >= 1
    <2>1. d * (a - x) >= d
      BY <1>1, <1>3
    <2> QED
      BY <1>1, <1>2, <2>1
  <1>4. CASE a - x <= -1
    <2>1. d * (a - x) <= -d
      BY <1>1, <1>4
    <2> QED
      BY <1>1, <1>2, <2>1
  <1> QED
    BY <1>1, <1>3, <1>4 DEF x

(* Products of integers.                                                   *)
LEMMA ProductInt == ASSUME NEW a \in Int, NEW b \in Int PROVE a * b \in Int
  OBVIOUS

(* The same, of natural numbers.                                           *)
LEMMA ProductNat == ASSUME NEW a \in Nat, NEW b \in Nat PROVE a * b \in Nat
  OBVIOUS

(* Of positive ones.                                                       *)
LEMMA ProductPositive ==
    ASSUME NEW a \in Nat \ {0}, NEW b \in Nat \ {0} PROVE a * b \in Nat \ {0}
  OBVIOUS

(* The sum of one, two and three numbers.                                  *)
LEMMA SumFew ==
    ASSUME NEW q \in Seq(Int)
    PROVE  /\ Len(q) = 1 => Sum(q) = q[1]
           /\ Len(q) = 2 => Sum(q) = q[1] + q[2]
           /\ Len(q) = 3 => Sum(q) = q[1] + q[2] + q[3]
  <1>1. PICK f : SumTrace(f, q)
    BY SumLoop
  <1>2. \A k \in 1..Len(q) : q[k] \in Int
    BY LenProperties
  <1>3. f[0] = 0 /\ \A k \in 1..Len(q) : f[k] = f[k - 1] + q[k]
    BY <1>1 DEF SumTrace
  <1>4. Sum(q) = f[Len(q)]
    BY <1>1 DEF SumTrace
  <1>5. Len(q) >= 1 => f[1] = q[1]
    <2>1. ASSUME Len(q) \in Nat, Len(q) >= 1 PROVE f[1] = q[1]
      <3>1. 1 \in 1..Len(q) /\ 1 - 1 = 0
        BY <2>1
      <3>2. f[1] = f[0] + q[1] /\ q[1] \in Int
        BY <1>2, <1>3, <3>1
      <3> QED
        BY <1>3, <3>2
    <2> QED
      BY <2>1, LenProperties
  <1>6. Len(q) >= 2 => f[2] = q[1] + q[2]
    <2>1. ASSUME Len(q) \in Nat, Len(q) >= 2 PROVE f[2] = q[1] + q[2]
      <3>1. 2 \in 1..Len(q) /\ 2 - 1 = 1
        BY <2>1
      <3>2. f[2] = f[1] + q[2]
        BY <1>3, <3>1
      <3> QED
        BY <1>5, <2>1, <3>2
    <2> QED
      BY <2>1, LenProperties
  <1>7. Len(q) >= 3 => f[3] = q[1] + q[2] + q[3]
    <2>1. ASSUME Len(q) \in Nat, Len(q) >= 3 PROVE f[3] = q[1] + q[2] + q[3]
      <3>1. 3 \in 1..Len(q) /\ 3 - 1 = 2
        BY <2>1
      <3>2. f[3] = f[2] + q[3]
        BY <1>3, <3>1
      <3> QED
        BY <1>6, <2>1, <3>2
    <2> QED
      BY <2>1, LenProperties
  <1>8. Len(q) = 1 => Sum(q) = q[1]
    BY <1>4, <1>5
  <1>9. Len(q) = 2 => Sum(q) = q[1] + q[2]
    BY <1>4, <1>6
  <1>10. Len(q) = 3 => Sum(q) = q[1] + q[2] + q[3]
    BY <1>4, <1>7
  <1> QED
    BY <1>8, <1>9, <1>10
(* One more of the same.                                                   *)
LEMMA OnceMore == ASSUME NEW k \in Int, NEW c \in Int PROVE (k - 1) * c + c = k * c
  OBVIOUS

(* The sum of equal numbers.                                               *)
LEMMA SumSame ==
    ASSUME NEW q \in Seq(Nat), NEW c \in Nat, \A i \in 1..Len(q) : q[i] = c
    PROVE  Sum(q) = Len(q) * c
  <1>1. PICK n \in Nat : n = Len(q)
    BY LenProperties
  <1>2. PICK f : SumTrace(f, q)
    BY SeqMonotonic, Nat \subseteq Int, SumLoop
  <1>3. /\ f[0] = 0 /\ Sum(q) = f[n]
        /\ \A k \in 1..n : f[k] = f[k - 1] + c
    BY <1>1, <1>2 DEF SumTrace
  <1> DEFINE Right == {k \in 0..n : f[k] = k * c}
  <1>4. 0 \in Right
    BY <1>3
  <1>5. ASSUME NEW k \in 1..n, k - 1 \in Right
        PROVE  k \in Right
    <2>1. f[k] = (k - 1) * c + c
      BY <1>3, <1>5
    <2> QED
      BY <2>1, OnceMore
  <1>6. \A k \in 0..n : k \in Right
    <2> HIDE DEF Right
    <2> QED
      BY <1>4, <1>5, Climb
  <1> QED
    BY <1>1, <1>3, <1>6

(* A part of a history is one.                                             *)
LEMMA Part ==
    ASSUME NEW h \in Seq(Nat), NEW m \in 1..(Len(h) + 1), NEW n \in (m - 1)..Len(h)
    PROVE  /\ SubSeq(h, m, n) \in Seq(Nat) /\ Len(SubSeq(h, m, n)) = n - m + 1
           /\ \A i \in 1..(n - m + 1) : SubSeq(h, m, n)[i] = h[m + i - 1]
  <1>1. Len(h) \in Nat /\ \A i \in 1..Len(h) : h[i] \in Nat
    BY LenProperties
  <1>2. \A i \in m..n : h[i] \in Nat
    BY <1>1
  <1>3. m \in Int /\ n \in Int
    BY <1>1
  <1> QED
    BY <1>1, <1>2, <1>3, SubSeqProperties

(* The last season of a history that has two, and the season before.       *)
LEMMA Seasons ==
    ASSUME NEW h \in Seq(Nat), Enough(h)
    PROVE  /\ Recent(h) \in Seq(Nat) /\ Len(Recent(h)) = Season
           /\ Previous(h) \in Seq(Nat) /\ Len(Previous(h)) = Season
           /\ \A i \in 1..Season : Recent(h)[i] \in ToSet(h) /\ Previous(h)[i] \in ToSet(h)
           /\ Last(h) \in ToSet(h) /\ Last(h) \in Nat
  <1>1. PICK n \in Nat : n = Len(h)
    BY LenProperties
  <1>2. PICK s \in Nat \ {0} : s = Season
    BY DemandAssumption
  <1>3. n >= 2 * s
    BY <1>1, <1>2 DEF Enough
  <1>4. \A i \in 1..n : h[i] \in ToSet(h) /\ h[i] \in Nat
    BY <1>1, LenProperties DEF ToSet
  <1>5. /\ n - s + 1 \in 1..(n + 1) /\ n \in (n - s)..n
        /\ n - 2 * s + 1 \in 1..(n + 1) /\ n - s \in (n - 2 * s)..n
    BY <1>1, <1>2, <1>3
  <1>6. /\ SubSeq(h, n - s + 1, n) \in Seq(Nat) /\ Len(SubSeq(h, n - s + 1, n)) = s
        /\ \A i \in 1..s : SubSeq(h, n - s + 1, n)[i] = h[n - s + i]
    <2>1. (n - s + 1) - 1 = n - s /\ n - (n - s + 1) + 1 = s
          /\ \A i \in 1..s : (n - s + 1) + i - 1 = n - s + i
      BY <1>1, <1>2
    <2> DEFINE m == n - s + 1
    <2>2. m \in 1..(Len(h) + 1) /\ n \in (m - 1)..Len(h)
      BY <1>1, <1>5, <2>1
    <2> HIDE DEF m
    <2>3. /\ SubSeq(h, m, n) \in Seq(Nat) /\ Len(SubSeq(h, m, n)) = n - m + 1
          /\ \A i \in 1..(n - m + 1) : SubSeq(h, m, n)[i] = h[m + i - 1]
      BY <2>2, Part
    <2> QED
      BY <2>1, <2>3 DEF m
  <1>7. /\ SubSeq(h, n - 2 * s + 1, n - s) \in Seq(Nat)
        /\ Len(SubSeq(h, n - 2 * s + 1, n - s)) = s
        /\ \A i \in 1..s : SubSeq(h, n - 2 * s + 1, n - s)[i] = h[n - 2 * s + i]
    <2>1. (n - 2 * s + 1) - 1 = n - 2 * s /\ (n - s) - (n - 2 * s + 1) + 1 = s
          /\ \A i \in 1..s : (n - 2 * s + 1) + i - 1 = n - 2 * s + i
      BY <1>1, <1>2
    <2> DEFINE m == n - 2 * s + 1
               e == n - s
    <2>2. m \in 1..(Len(h) + 1) /\ e \in (m - 1)..Len(h)
      BY <1>1, <1>5, <2>1
    <2>3. e - m + 1 = s /\ \A i \in 1..s : m + i - 1 = n - 2 * s + i
      BY <2>1
    <2> HIDE DEF m, e
    <2>4. /\ SubSeq(h, m, e) \in Seq(Nat) /\ Len(SubSeq(h, m, e)) = e - m + 1
          /\ \A i \in 1..(e - m + 1) : SubSeq(h, m, e)[i] = h[m + i - 1]
      BY <2>2, Part
    <2> QED
      BY <2>3, <2>4 DEF m, e
  <1>8. \A i \in 1..s : n - s + i \in 1..n /\ n - 2 * s + i \in 1..n
    BY <1>1, <1>2, <1>3
  <1>9. Last(h) = h[n] /\ n \in 1..n
    BY <1>1, <1>2, <1>3 DEF Last
  <1> QED
    BY <1>1, <1>2, <1>4, <1>6, <1>7, <1>8, <1>9 DEF Recent, Previous

(* The forecast of a season is a natural number.                           *)
LEMMA SeasonalNat ==
    ASSUME NEW h \in Seq(Nat), Enough(h)
    PROVE  Seasonal(h) \in Nat
  <1> DEFINE sum == Sum(Recent(h))
             prev == Sum(Previous(h))
             last == Last(h)
  <1>1. sum \in Nat /\ prev \in Nat /\ last \in Nat
    BY Seasons, SumNat
  <1>2. PICK s \in Nat \ {0} : s = Season
    BY DemandAssumption
  <1> DEFINE a == last * (65 * last * s * s + 35 * sum * s + 100 * (sum - prev))
  <1>3. Seasonal(h) = IF sum = 0 THEN 0 ELSE Larger(0, a \div (s * sum))
    BY <1>2 DEF Seasonal
  <1> HIDE DEF sum, prev, last
  <1>4. a \in Int
    <2>1. 65 * last * s * s \in Int
      BY <1>1, <1>2, ProductInt
    <2>2. 35 * sum * s \in Int
      BY <1>1, <1>2, ProductInt
    <2>3. 65 * last * s * s + 35 * sum * s + 100 * (sum - prev) \in Int
      BY <1>1, <2>1, <2>2
    <2> QED
      BY <1>1, <2>3, ProductInt
  <1> HIDE DEF a
  <1>5. CASE sum = 0
    BY <1>3, <1>5
  <1>6. CASE sum # 0
    <2>1. s * sum \in Nat \ {0}
      BY <1>1, <1>2, <1>6, ProductPositive
    <2>2. a \div (s * sum) \in Int
      BY <1>4, <2>1, QuotientGrows
    <2> QED
      BY <1>3, <1>6, <2>2 DEF Larger
  <1> QED
    BY <1>5, <1>6

(* A constant demand of a season is forecast as it is.                     *)
LEMMA SeasonalSame ==
    ASSUME NEW h \in Seq(Nat), Enough(h), NEW c \in Nat, ToSet(h) = {c}
    PROVE  Seasonal(h) = 100 * c
  <1> DEFINE sum == Sum(Recent(h))
             prev == Sum(Previous(h))
             last == Last(h)
  <1>1. PICK s \in Nat \ {0} : s = Season
    BY DemandAssumption
  <1>2. sum = s * c /\ prev = s * c /\ last = c
    <2>1. /\ Recent(h) \in Seq(Nat) /\ Len(Recent(h)) = s
          /\ \A i \in 1..Len(Recent(h)) : Recent(h)[i] = c
          /\ Previous(h) \in Seq(Nat) /\ Len(Previous(h)) = s
          /\ \A i \in 1..Len(Previous(h)) : Previous(h)[i] = c
          /\ Last(h) = c
      BY <1>1, Seasons
    <2>2. Sum(Recent(h)) = Len(Recent(h)) * c
      BY <2>1, SumSame
    <2>3. Sum(Previous(h)) = Len(Previous(h)) * c
      BY <2>1, SumSame
    <2> QED
      BY <2>1, <2>2, <2>3
  <1> DEFINE a == last * (65 * last * s * s + 35 * sum * s + 100 * (sum - prev))
  <1>3. Seasonal(h) = IF sum = 0 THEN 0 ELSE Larger(0, a \div (s * sum))
    BY <1>1 DEF Seasonal
  <1> HIDE DEF sum, prev, last
  <1>4. CASE c = 0
    BY <1>1, <1>2, <1>3, <1>4
  <1>5. CASE c # 0
    <2>1. sum \in Nat \ {0} /\ s * sum \in Nat \ {0}
      BY <1>1, <1>2, <1>5, ProductPositive
    <2>2. a = (100 * c) * (s * sum)
      <3>1. s * c \in Int
        BY <1>1
      <3>2. sum - prev = 0
        BY <1>2, <3>1
      <3>3. a = c * (65 * c * s * s + 35 * (s * c) * s + 100 * 0)
        BY <1>2, <3>2
      <3>4. c * (65 * c * s * s + 35 * (s * c) * s + 100 * 0) = (100 * c) * (s * (s * c))
        BY <1>1
      <3> QED
        BY <1>2, <3>3, <3>4
    <2>3. a \div (s * sum) = 100 * c
      BY <2>1, <2>2, QuotientExact
    <2> QED
      BY <1>3, <2>1, <2>3 DEF Larger
  <1> QED
    BY <1>4, <1>5

(* The weights of one, two and three months.                               *)
LEMMA WeightsFew ==
    /\ Weights(1) \in Seq(Nat) /\ Len(Weights(1)) = 1 /\ Weights(1)[1] = 2
    /\ Weights(2) \in Seq(Nat) /\ Len(Weights(2)) = 2 /\ Weights(2)[1] = 3 /\ Weights(2)[2] = 2
    /\ Weights(3) \in Seq(Nat) /\ Len(Weights(3)) = 3
    /\ Weights(3)[1] = 5 /\ Weights(3)[2] = 3 /\ Weights(3)[3] = 2
  <1> DEFINE w == <<5, 3, 2>>
  <1>1. w \in Seq(Nat) /\ Len(w) = 3 /\ w[1] = 5 /\ w[2] = 3 /\ w[3] = 2
    OBVIOUS
  <1>2. \A k \in 1..3 : Weights(k) = SubSeq(w, 4 - k, 3)
    BY DEF Weights
  <1> HIDE DEF w
  <1>3. ASSUME NEW k \in 1..3
        PROVE  /\ Weights(k) \in Seq(Nat) /\ Len(Weights(k)) = k
               /\ \A i \in 1..k : Weights(k)[i] = w[3 - k + i]
    <2> DEFINE m == 4 - k
    <2>1. /\ m \in 1..(Len(w) + 1) /\ 3 \in (m - 1)..Len(w) /\ 3 - m + 1 = k
          /\ \A i \in 1..k : m + i - 1 = 3 - k + i
      BY <1>1
    <2> HIDE DEF m
    <2>2. /\ SubSeq(w, m, 3) \in Seq(Nat) /\ Len(SubSeq(w, m, 3)) = 3 - m + 1
          /\ \A i \in 1..(3 - m + 1) : SubSeq(w, m, 3)[i] = w[m + i - 1]
      BY <1>1, <2>1, Part
    <2> QED
      BY <1>2, <2>1, <2>2 DEF m
  <1>4. Weights(1)[1] = w[3]
    <2>1. 1 \in 1..3 /\ 1 \in 1..1 /\ 3 - 1 + 1 = 3
      OBVIOUS
    <2> QED
      BY <1>3, <2>1
  <1>5. Weights(2)[1] = w[2] /\ Weights(2)[2] = w[3]
    <2>1. 2 \in 1..3 /\ 1 \in 1..2 /\ 2 \in 1..2 /\ 3 - 2 + 1 = 2 /\ 3 - 2 + 2 = 3
      OBVIOUS
    <2> QED
      BY <1>3, <2>1
  <1>6. Weights(3)[1] = w[1] /\ Weights(3)[2] = w[2] /\ Weights(3)[3] = w[3]
    <2>1. 3 \in 1..3 /\ 1 \in 1..3 /\ 2 \in 1..3 /\ 3 - 3 + 1 = 1 /\ 3 - 3 + 2 = 2 /\ 3 - 3 + 3 = 3
      OBVIOUS
    <2> QED
      BY <1>3, <2>1
  <1> QED
    BY <1>1, <1>3, <1>4, <1>5, <1>6

(* Their sums.                                                             *)
LEMMA WeightsSum == Sum(Weights(1)) = 2 /\ Sum(Weights(2)) = 5 /\ Sum(Weights(3)) = 10
  <1>1. \A q : q \in Seq(Nat) => q \in Seq(Int)
    BY SeqMonotonic, Nat \subseteq Int
  <1>2. Sum(Weights(1)) = Weights(1)[1]
    BY <1>1, WeightsFew, SumFew
  <1>3. Sum(Weights(2)) = Weights(2)[1] + Weights(2)[2]
    BY <1>1, WeightsFew, SumFew
  <1>4. Sum(Weights(3)) = Weights(3)[1] + Weights(3)[2] + Weights(3)[3]
    BY <1>1, WeightsFew, SumFew
  <1>5. Weights(1)[1] = 2
    BY WeightsFew
  <1>6. Weights(2)[1] = 3 /\ Weights(2)[2] = 2
    BY WeightsFew
  <1>7. Weights(3)[1] = 5 /\ Weights(3)[2] = 3 /\ Weights(3)[3] = 2
    BY WeightsFew
  <1>8. Sum(Weights(1)) = 2
    BY <1>2, <1>5
  <1>9. Sum(Weights(2)) = 5
    BY <1>3, <1>6
  <1>10. Sum(Weights(3)) = 10
    BY <1>4, <1>7
  <1> QED
    BY <1>8, <1>9, <1>10

(* Their weighted means.                                                   *)
LEMMA MeansOf ==
    ASSUME NEW a \in Nat, NEW b \in Nat, NEW c \in Nat
    PROVE  /\ (100 * (2 * a)) \div 2 = 100 * a
           /\ (100 * (3 * a + 2 * b)) \div 5 = 60 * a + 40 * b
           /\ (100 * (5 * a + 3 * b + 2 * c)) \div 10 = 50 * a + 30 * b + 20 * c
  OBVIOUS

(* The weighted months of a history.                                       *)
Weighted(h, k) == [i \in 1..k |-> Weights(k)[i] * h[Len(h) - k + i]]

(* They are integers.                                                      *)
LEMMA WeightedMonths ==
    ASSUME NEW h \in Seq(Nat), NEW k \in 1..3, k <= Len(h)
    PROVE  /\ Weighted(h, k) \in Seq(Int) /\ Len(Weighted(h, k)) = k
           /\ \A i \in 1..k : /\ Weighted(h, k)[i] = Weights(k)[i] * h[Len(h) - k + i]
                              /\ h[Len(h) - k + i] \in Nat
  <1> DEFINE q == Weighted(h, k)
  <1>1. PICK n \in Nat : n = Len(h)
    BY LenProperties
  <1>2. \A i \in 1..k : n - k + i \in 1..n
    BY <1>1
  <1>3. \A i \in 1..k : h[n - k + i] \in Nat
    BY <1>1, <1>2, ElementOfSeq
  <1>4. \A i \in 1..k : Weights(k)[i] \in Nat
    <2>1. k = 1 \/ k = 2 \/ k = 3
      OBVIOUS
    <2>2. Weights(k) \in Seq(Nat) /\ Len(Weights(k)) = k
      BY <2>1, WeightsFew
    <2> QED
      BY <2>2, ElementOfSeq
  <1>5. \A i \in 1..k : q[i] = Weights(k)[i] * h[n - k + i]
    BY <1>1 DEF Weighted
  <1>6. q = [i \in 1..k |-> q[i]]
    BY DEF Weighted
  <1> HIDE DEF q
  <1>7. \A i \in 1..k : q[i] \in Int
    <2> SUFFICES ASSUME NEW i \in 1..k PROVE q[i] \in Int
      OBVIOUS
    <2>1. Weights(k)[i] \in Int /\ h[n - k + i] \in Int
      BY <1>3, <1>4
    <2>2. Weights(k)[i] * h[n - k + i] \in Int
      BY <2>1, ProductInt
    <2> QED
      BY <1>5, <2>2
  <1>8. q \in [1..k -> Int]
    BY <1>6, <1>7
  <1>9. q \in Seq(Int) /\ Len(q) = k
    BY <1>8, SeqOfFunction
  <1> QED
    BY <1>1, <1>3, <1>5, <1>9 DEF q

(* The mean of one month.                                                  *)
LEMMA MeanOfOne ==
    ASSUME NEW h \in Seq(Nat), NEW n \in Nat, n = Len(h), n >= 1, n < 2
    PROVE  h[n] \in Nat /\ WeightedMean(h) = 100 * h[n]
  <1> DEFINE q == Weighted(h, 1)
  <1>1. 1 \in 1..3 /\ 1 \in 1..1 /\ n - 1 + 1 = n
    OBVIOUS
  <1>2. /\ q \in Seq(Int) /\ Len(q) = 1
        /\ \A i \in 1..1 : q[i] = Weights(1)[i] * h[n - 1 + i] /\ h[n - 1 + i] \in Nat
    BY <1>1, WeightedMonths
  <1>3. q[1] = Weights(1)[1] * h[n] /\ h[n] \in Nat
    BY <1>1, <1>2
  <1>4. WeightedMean(h) = (100 * Sum(q)) \div Sum(Weights(1))
    <2>1. (IF Len(h) < 3 THEN Len(h) ELSE 3) = 1
      OBVIOUS
    <2> QED
      BY <2>1 DEF WeightedMean, Weighted
  <1>5. Weights(1)[1] = 2
    BY WeightsFew
  <1> HIDE DEF q
  <1>6. Sum(q) = q[1]
    BY <1>2, SumFew
  <1>7. WeightedMean(h) = (100 * (2 * h[n])) \div 2
    BY <1>3, <1>4, <1>5, <1>6, WeightsSum
  <1>8. PICK a \in Nat : a = h[n]
    BY <1>3
  <1>9. (100 * (2 * a)) \div 2 = 100 * a
    BY MeansOf
  <1> QED
    BY <1>3, <1>7, <1>8, <1>9

(* The mean of two.                                                        *)
LEMMA MeanOfTwo ==
    ASSUME NEW h \in Seq(Nat), NEW n \in Nat, n = Len(h), n >= 2, n < 3
    PROVE  /\ h[n - 1] \in Nat /\ h[n] \in Nat
           /\ WeightedMean(h) = 60 * h[n - 1] + 40 * h[n]
  <1> DEFINE q == Weighted(h, 2)
  <1>1. 2 \in 1..3 /\ 1 \in 1..2 /\ 2 \in 1..2 /\ n - 2 + 1 = n - 1 /\ n - 2 + 2 = n
    OBVIOUS
  <1>2. /\ q \in Seq(Int) /\ Len(q) = 2
        /\ \A i \in 1..2 : q[i] = Weights(2)[i] * h[n - 2 + i] /\ h[n - 2 + i] \in Nat
    BY <1>1, WeightedMonths
  <1>3. /\ q[1] = Weights(2)[1] * h[n - 1] /\ q[2] = Weights(2)[2] * h[n]
        /\ h[n - 1] \in Nat /\ h[n] \in Nat
    BY <1>1, <1>2
  <1>4. WeightedMean(h) = (100 * Sum(q)) \div Sum(Weights(2))
    <2>1. (IF Len(h) < 3 THEN Len(h) ELSE 3) = 2
      OBVIOUS
    <2> QED
      BY <2>1 DEF WeightedMean, Weighted
  <1>5. Weights(2)[1] = 3 /\ Weights(2)[2] = 2
    BY WeightsFew
  <1> HIDE DEF q
  <1>6. Sum(q) = q[1] + q[2]
    BY <1>2, SumFew
  <1>7. WeightedMean(h) = (100 * (3 * h[n - 1] + 2 * h[n])) \div 5
    BY <1>3, <1>4, <1>5, <1>6, WeightsSum
  <1>8. PICK a \in Nat, b \in Nat : a = h[n - 1] /\ b = h[n]
    BY <1>3
  <1>9. (100 * (3 * a + 2 * b)) \div 5 = 60 * a + 40 * b
    BY MeansOf
  <1> QED
    BY <1>3, <1>7, <1>8, <1>9

(* The mean of three.                                                      *)
LEMMA MeanOfThree ==
    ASSUME NEW h \in Seq(Nat), NEW n \in Nat, n = Len(h), n >= 3
    PROVE  /\ h[n - 2] \in Nat /\ h[n - 1] \in Nat /\ h[n] \in Nat
           /\ WeightedMean(h) = 50 * h[n - 2] + 30 * h[n - 1] + 20 * h[n]
  <1> DEFINE q == Weighted(h, 3)
  <1>1. /\ 3 \in 1..3 /\ 1 \in 1..3 /\ 2 \in 1..3
        /\ n - 3 + 1 = n - 2 /\ n - 3 + 2 = n - 1 /\ n - 3 + 3 = n
    OBVIOUS
  <1>2. /\ q \in Seq(Int) /\ Len(q) = 3
        /\ \A i \in 1..3 : q[i] = Weights(3)[i] * h[n - 3 + i] /\ h[n - 3 + i] \in Nat
    BY <1>1, WeightedMonths
  <1>3. /\ q[1] = Weights(3)[1] * h[n - 2] /\ q[2] = Weights(3)[2] * h[n - 1]
        /\ q[3] = Weights(3)[3] * h[n]
        /\ h[n - 2] \in Nat /\ h[n - 1] \in Nat /\ h[n] \in Nat
    BY <1>1, <1>2
  <1>4. WeightedMean(h) = (100 * Sum(q)) \div Sum(Weights(3))
    <2>1. (IF Len(h) < 3 THEN Len(h) ELSE 3) = 3
      OBVIOUS
    <2> QED
      BY <2>1 DEF WeightedMean, Weighted
  <1>5. Weights(3)[1] = 5 /\ Weights(3)[2] = 3 /\ Weights(3)[3] = 2
    BY WeightsFew
  <1> HIDE DEF q
  <1>6. Sum(q) = q[1] + q[2] + q[3]
    BY <1>2, SumFew
  <1>7. WeightedMean(h) = (100 * (5 * h[n - 2] + 3 * h[n - 1] + 2 * h[n])) \div 10
    BY <1>3, <1>4, <1>5, <1>6, WeightsSum
  <1>8. PICK a \in Nat, b \in Nat, c \in Nat : a = h[n - 2] /\ b = h[n - 1] /\ c = h[n]
    BY <1>3
  <1>9. (100 * (5 * a + 3 * b + 2 * c)) \div 10 = 50 * a + 30 * b + 20 * c
    BY MeansOf
  <1> QED
    BY <1>3, <1>7, <1>8, <1>9

(* The error at one point of a history is a natural number.                *)
LEMMA ResidualNat ==
    ASSUME NEW h \in Seq(Nat), NEW n \in Nat, n = Len(h),
           NEW i \in (IF Enough(h) THEN Season + 1 ELSE 2)..n
    PROVE  Residual(h, i) \in Nat
  <1>1. \A x \in Int : Larger(x, -x) \in Nat
    BY DEF Larger
  <1>2. PICK s \in Nat \ {0} : s = Season
    BY DemandAssumption
  <1>3. \A k \in 1..n : h[k] \in Nat
    BY ElementOfSeq
  <1>4. CASE Enough(h)
    <2>1. i \in 1..n /\ i - s \in 1..n
      BY <1>2, <1>4
    <2>2. 6 * (h[i] - h[i - s]) \in Int
      BY <1>3, <2>1
    <2>3. Residual(h, i) = Larger(6 * (h[i] - h[i - s]), -(6 * (h[i] - h[i - s])))
      BY <1>2, <1>4 DEF Residual
    <2> QED
      BY <1>1, <2>2, <2>3
  <1>5. CASE ~Enough(h)
    <2> DEFINE c == IF i <= 3 THEN i - 1 ELSE 3
               m == i - c
               e == i - 1
               x == 6 * h[i] - (6 \div c) * Sum(SubSeq(h, m, e))
    <2>1. c \in Nat \ {0} /\ i \in 1..n /\ m \in 1..(n + 1) /\ e \in (m - 1)..n
      BY <1>5
    <2>2. Residual(h, i) = Larger(x, -x)
      BY <1>5 DEF Residual
    <2>3. 6 \div c \in Int
      BY <2>1, QuotientNat
    <2> HIDE DEF c, m, e
    <2>4. Sum(SubSeq(h, m, e)) \in Int
      <3>1. m \in 1..(Len(h) + 1) /\ e \in (m - 1)..Len(h)
        BY <2>1
      <3> DEFINE t == SubSeq(h, m, e)
      <3>2. t \in Seq(Nat)
        BY <3>1, Part
      <3> HIDE DEF t
      <3>3. Sum(t) \in Nat
        BY <3>2, SumNat
      <3> QED
        BY <3>3 DEF t
    <2>5. (6 \div c) * Sum(SubSeq(h, m, e)) \in Int
      BY <2>3, <2>4, ProductInt
    <2>6. x \in Int
      BY <1>3, <2>1, <2>5
    <2> HIDE DEF x
    <2> QED
      BY <1>1, <2>2, <2>6
  <1> QED
    BY <1>4, <1>5

(* So is their mean.                                                       *)
LEMMA MeanErrorNat ==
    ASSUME NEW h \in Seq(Nat)
    PROVE  MeanError(h) \in Nat
  <1>1. PICK n \in Nat : n = Len(h)
    BY LenProperties
  <1> DEFINE first == IF Enough(h) THEN Season + 1 ELSE 2
  <1>2. first \in Nat
    BY DemandAssumption
  <1> DEFINE q == [i \in 1..(n - first + 1) |-> Residual(h, first + i - 1)]
  <1>3. MeanError(h) = IF n < first THEN 0 ELSE (100 * Sum(q)) \div (6 * (n - first + 1))
    BY <1>1 DEF MeanError
  <1>4. CASE n < first
    BY <1>3, <1>4
  <1>5. CASE ~(n < first)
    <2>1. \A i \in first..n : Residual(h, i) \in Nat
      BY <1>1, ResidualNat
    <2> HIDE DEF first
    <2>2. n - first + 1 \in Nat \ {0} /\ \A i \in 1..(n - first + 1) : first + i - 1 \in first..n
      BY <1>1, <1>2, <1>5
    <2>3. q \in [1..(n - first + 1) -> Nat]
      BY <2>1, <2>2
    <2> HIDE DEF q
    <2>4. Sum(q) \in Nat
      BY <2>2, <2>3, SeqOfFunction, SumNat
    <2>5. 100 * Sum(q) \in Nat /\ 6 * (n - first + 1) \in Nat \ {0}
      BY <2>2, <2>4
    <2> QED
      BY <1>3, <1>5, <2>5, QuotientNat
  <1> QED
    BY <1>4, <1>5

(* A mean is not beyond all of the numbers.                                *)
Between(w, S) == /\ w \in Nat
                 /\ \E x \in S : 100 * x <= w
                 /\ \E x \in S : w <= 100 * x

(* It is not, for one.                                                     *)
LEMMA OneBetween == ASSUME NEW a \in Nat, NEW S, a \in S PROVE Between(100 * a, S)
  BY DEF Between

(* For two.                                                                *)
LEMMA TwoBetween ==
    ASSUME NEW a \in Nat, NEW b \in Nat, NEW S, a \in S, b \in S
    PROVE  Between(60 * a + 40 * b, S)
  <1>1. 100 * a <= 60 * a + 40 * b \/ 100 * b <= 60 * a + 40 * b
    OBVIOUS
  <1>2. 60 * a + 40 * b <= 100 * a \/ 60 * a + 40 * b <= 100 * b
    OBVIOUS
  <1> QED
    BY <1>1, <1>2 DEF Between

(* For three.                                                              *)
LEMMA ThreeBetween ==
    ASSUME NEW a \in Nat, NEW b \in Nat, NEW c \in Nat, NEW S, a \in S, b \in S, c \in S
    PROVE  Between(50 * a + 30 * b + 20 * c, S)
  <1> DEFINE w == 50 * a + 30 * b + 20 * c
  <1>1. 100 * a <= w \/ 100 * b <= w \/ 100 * c <= w
    OBVIOUS
  <1>2. w <= 100 * a \/ w <= 100 * b \/ w <= 100 * c
    OBVIOUS
  <1>3. w \in Nat
    OBVIOUS
  <1> HIDE DEF w
  <1>4. Between(w, S)
    BY <1>1, <1>2, <1>3 DEF Between
  <1> QED
    BY <1>4 DEF w

(* The mean of up to three months is a natural number, lies between the    *)
(* months, and is that of each if they are equal.                          *)
LEMMA WeightedMeanSound ==
    ASSUME NEW h \in Seq(Nat), h # <<>>
    PROVE  /\ Between(WeightedMean(h), {h[i] : i \in {j \in DOMAIN h : j > Len(h) - 3}})
           /\ \A c \in Nat : ToSet(h) = {c} => WeightedMean(h) = 100 * c
  <1> DEFINE w == WeightedMean(h)
             sample == {h[i] : i \in {j \in DOMAIN h : j > Len(h) - 3}}
  <1>1. PICK n \in Nat : n = Len(h)
    BY LenProperties
  <1>2. n # 0 /\ DOMAIN h = 1..n
    BY <1>1, EmptySeq, LenProperties
  <1>3. \A i \in 1..n : i > n - 3 => h[i] \in sample
    BY <1>1, <1>2
  <1>4. \A c \in Nat : ToSet(h) = {c} => \A i \in 1..n : h[i] = c
    BY <1>2 DEF ToSet
  <1> HIDE DEF sample
  <1>5. CASE n < 2
    <2>1. n >= 1 /\ n \in 1..n /\ n > n - 3
      BY <1>2, <1>5
    <2>2. h[n] \in Nat /\ w = 100 * h[n]
      BY <1>1, <1>5, <2>1, MeanOfOne
    <2>3. PICK a \in Nat : a = h[n]
      BY <2>2
    <2>4. a \in sample
      BY <1>3, <2>1, <2>3
    <2> HIDE DEF w
    <2>5. Between(w, sample)
      BY <2>2, <2>3, <2>4, OneBetween
    <2>6. \A c \in Nat : ToSet(h) = {c} => w = 100 * c
      BY <1>4, <2>1, <2>2
    <2> QED
      BY <2>5, <2>6 DEF w, sample
  <1>6. CASE n >= 2 /\ n < 3
    <2>1. n \in 1..n /\ n > n - 3 /\ n - 1 \in 1..n /\ n - 1 > n - 3
      BY <1>6
    <2>2. h[n - 1] \in Nat /\ h[n] \in Nat /\ w = 60 * h[n - 1] + 40 * h[n]
      BY <1>1, <1>6, MeanOfTwo
    <2>3. PICK a \in Nat, b \in Nat : a = h[n - 1] /\ b = h[n]
      BY <2>2
    <2> HIDE DEF w
    <2>4. a \in sample /\ b \in sample /\ w = 60 * a + 40 * b
      BY <1>3, <2>1, <2>2, <2>3
    <2>5. Between(w, sample)
      BY <2>4, TwoBetween
    <2>6. ASSUME NEW c \in Nat, ToSet(h) = {c} PROVE w = 100 * c
      <3>1. a = c /\ b = c
        BY <1>4, <2>1, <2>3, <2>6
      <3> QED
        BY <2>4, <3>1
    <2> QED
      BY <2>5, <2>6 DEF w, sample
  <1>7. CASE n >= 3
    <2>1. /\ n \in 1..n /\ n > n - 3 /\ n - 1 \in 1..n /\ n - 1 > n - 3
          /\ n - 2 \in 1..n /\ n - 2 > n - 3
      BY <1>7
    <2>2. /\ h[n - 2] \in Nat /\ h[n - 1] \in Nat /\ h[n] \in Nat
          /\ w = 50 * h[n - 2] + 30 * h[n - 1] + 20 * h[n]
      BY <1>1, <1>7, MeanOfThree
    <2>3. PICK a \in Nat, b \in Nat, d \in Nat : a = h[n - 2] /\ b = h[n - 1] /\ d = h[n]
      BY <2>2
    <2> HIDE DEF w
    <2>4. a \in sample /\ b \in sample /\ d \in sample /\ w = 50 * a + 30 * b + 20 * d
      BY <1>3, <2>1, <2>2, <2>3
    <2>5. Between(w, sample)
      BY <2>4, ThreeBetween
    <2>6. ASSUME NEW c \in Nat, ToSet(h) = {c} PROVE w = 100 * c
      <3>1. a = c /\ b = c /\ d = c
        BY <1>4, <2>1, <2>3, <2>6
      <3> QED
        BY <2>4, <3>1
    <2> QED
      BY <2>5, <2>6 DEF w, sample
  <1>8. n < 2 \/ (n >= 2 /\ n < 3) \/ n >= 3
    OBVIOUS
  <1> QED
    BY <1>5, <1>6, <1>7, <1>8, Zenon

(* The forecast before a production plan is blended in.                    *)
Unblended(h) == IF Enough(h) THEN Seasonal(h) ELSE WeightedMean(h)

(* It is a natural number, and that of a constant demand.                  *)
LEMMA UnblendedSound ==
    ASSUME NEW h \in Seq(Nat), h # <<>>
    PROVE  /\ Unblended(h) \in Nat
           /\ \A c \in Nat : ToSet(h) = {c} => Unblended(h) = 100 * c
  <1>1. CASE Enough(h)
    BY <1>1, SeasonalNat, SeasonalSame DEF Unblended
  <1>2. CASE ~Enough(h)
    BY <1>2, WeightedMeanSound DEF Unblended, Between
  <1> QED
    BY <1>1, <1>2

(* A plan blended into a value.                                            *)
LEMMA BlendedSound ==
    ASSUME NEW value \in Nat, NEW plan \in Nat
    PROVE  /\ Blended(value, plan) \in Nat
           /\ plan = 0 => Blended(value, plan) = value
  <1>1. (7 * value + 300 * plan) \div 10 \in Nat
    OBVIOUS
  <1> QED
    BY <1>1 DEF Blended

(* A plan blended into a constant demand.                                  *)
LEMMA BlendedSame ==
    ASSUME NEW c \in Nat, NEW plan \in Nat
    PROVE  Blended(100 * c, plan) = IF plan = 0 THEN 100 * c ELSE 70 * c + 30 * plan
  <1>1. (7 * (100 * c) + 300 * plan) \div 10 = 70 * c + 30 * plan
    OBVIOUS
  <1> QED
    BY <1>1 DEF Blended

(* What a run of forecast_demand promises.                                 *)
SoundForecast(h, plan, a) ==
    LET sample == {h[i] : i \in {j \in DOMAIN h : j > Len(h) - 3}}
    IN  /\ 0 <= a.lower /\ a.lower <= a.value /\ a.value <= a.upper
        /\ \A c \in ToSet(h) : ToSet(h) = {c} =>
                a.value = IF plan = 0 THEN 100 * c ELSE 70 * c + 30 * plan
        /\ h # <<>> /\ Len(h) < 2 * Season /\ plan = 0 =>
                /\ \E x \in sample : 100 * x <= a.value
                /\ \E x \in sample : a.value <= 100 * x

(* The forecast keeps that promise.                                        *)
LEMMA ForecastIsSound ==
    ASSUME NEW h \in Seq(Nat), NEW plan \in Nat
    PROVE  SoundForecast(h, plan, Forecast(h, plan))
  <1> DEFINE a == Forecast(h, plan)
             value == Blended(Unblended(h), plan)
             margin == Larger((164 * MeanError(h)) \div 100, (8 * value) \div 100)
             sample == {h[i] : i \in {j \in DOMAIN h : j > Len(h) - 3}}
  <1>1. ToSet(h) \subseteq Nat /\ (h = <<>> => ToSet(h) = {})
    BY LenProperties, EmptySeq DEF ToSet
  <1>2. CASE h = <<>>
    <2>1. a.lower = 0 /\ a.value = 0 /\ a.upper = 0
      BY <1>2 DEF Forecast
    <2> HIDE DEF a
    <2>2. SoundForecast(h, plan, a)
      BY <1>1, <1>2, <2>1 DEF SoundForecast
    <2> QED
      BY <2>2 DEF a
  <1>3. CASE h # <<>>
    <2>1. /\ a.value = value /\ a.upper = value + margin
          /\ a.lower = Larger(0, value - margin)
      BY <1>3 DEF Forecast, Unblended
    <2>2. Unblended(h) \in Nat /\ \A c \in Nat : ToSet(h) = {c} => Unblended(h) = 100 * c
      BY <1>3, UnblendedSound
    <2>3. value \in Nat
      BY <2>2, BlendedSound
    <2>4. \A c \in ToSet(h) : ToSet(h) = {c} =>
                value = IF plan = 0 THEN 100 * c ELSE 70 * c + 30 * plan
      <3> SUFFICES ASSUME NEW c \in ToSet(h), ToSet(h) = {c}
                   PROVE  value = IF plan = 0 THEN 100 * c ELSE 70 * c + 30 * plan
        OBVIOUS
      <3>1. c \in Nat /\ Unblended(h) \in Nat /\ Unblended(h) = 100 * c
        BY <1>1, <2>2
      <3>2. Blended(100 * c, plan) = IF plan = 0 THEN 100 * c ELSE 70 * c + 30 * plan
        BY <3>1, BlendedSame
      <3> QED
        BY <3>1, <3>2
    <2>5. plan = 0 => value = Unblended(h)
      BY <2>2, BlendedSound
    <2>6. Len(h) < 2 * Season => Unblended(h) = WeightedMean(h)
      <3>1. Len(h) \in Nat /\ Season \in Nat
        BY DemandAssumption, LenProperties
      <3> QED
        BY <3>1 DEF Unblended, Enough
    <2>7. /\ \E x \in sample : 100 * x <= WeightedMean(h)
          /\ \E x \in sample : WeightedMean(h) <= 100 * x
      BY <1>3, WeightedMeanSound DEF Between
    <2>8. margin \in Nat
      <3>1. (164 * MeanError(h)) \div 100 \in Nat
        BY MeanErrorNat
      <3> HIDE DEF value
      <3>2. (8 * value) \div 100 \in Nat
        BY <2>3
      <3> QED
        BY <3>1, <3>2 DEF Larger
    <2> HIDE DEF a, value, margin
    <2>9. 0 <= a.lower /\ a.lower <= a.value /\ a.value <= a.upper
      BY <2>1, <2>3, <2>8 DEF Larger
    <2>10. h # <<>> /\ Len(h) < 2 * Season /\ plan = 0 =>
                /\ \E x \in sample : 100 * x <= a.value
                /\ \E x \in sample : a.value <= 100 * x
      BY <2>1, <2>5, <2>6, <2>7
    <2>11. \A c \in ToSet(h) : ToSet(h) = {c} =>
                a.value = IF plan = 0 THEN 100 * c ELSE 70 * c + 30 * plan
      BY <2>1, <2>4
    <2>12. SoundForecast(h, plan, a)
      BY <2>9, <2>10, <2>11 DEF SoundForecast
    <2> QED
      BY <2>12 DEF a
  <1> QED
    BY <1>2, <1>3

----------------------------------------------------------------------------
(* The theorems.                                                           *)

(* What an AlgorithmRun says is right for the rows it was computed from.   *)
RunsRight ==
    \A r \in runs :
        /\ r.type = "WAREHOUSE" => r.answer = WarehouseAnswer
        /\ r.type = "PROCUREMENT" => Undominated(r.tiers, r.quantity, r.first)
        /\ r.type = "DEMAND_FORECAST" => SoundForecast(r.history, r.plan, r.answer)

PlanningInv == Inv /\ RunsRight

(* The loop runs inside a preview: nothing else moves its variables.       *)
LEMMA PlanningStep == [PlanningNext]_allVars => [Next]_vars
  BY DEF PlanningNext, CarpoolTurn, CarpoolPreview, WarehousePreview, Procurement,
         DemandForecast, allVars

(* The orders a request has selected are its own until the end.            *)
LEMMA AnswerKept == ASSUME book' = book PROVE WarehouseAnswer' = WarehouseAnswer
  BY DraftsKept DEF WarehouseAnswer, Pools, Pool, Heads, Placed, Ranked, Eligible, Far

(* A step that leaves the runs alone, or leaves one that is right.         *)
LEMMA OneRun ==
    ASSUME NEW r, runs' = {r}, book' = book,
           r.type = "WAREHOUSE" => r.answer = WarehouseAnswer,
           r.type = "PROCUREMENT" => Undominated(r.tiers, r.quantity, r.first),
           r.type = "DEMAND_FORECAST" => SoundForecast(r.history, r.plan, r.answer)
    PROVE  RunsRight'
  <1>1. WarehouseAnswer' = WarehouseAnswer
    BY AnswerKept
  <1> QED
    BY <1>1 DEF RunsRight

(* Every step preserves it.                                                *)
LEMMA StepRight ==
    ASSUME RunsRight, [PlanningNext]_allVars
    PROVE  RunsRight'
  <1>1. CASE CarpoolTurn
    <2>1. runs' = {}
      BY <1>1 DEF CarpoolTurn
    <2> QED
      BY <2>1 DEF RunsRight
  <1>2. CASE CarpoolPreview
    <2> DEFINE r == [type |-> "CARPOOL", candidates |-> candidates, unmatched |-> unmatched]
    <2>1. runs' = {r} /\ book' = book
      BY <1>2 DEF CarpoolPreview, vars
    <2>2. r.type = "CARPOOL"
      OBVIOUS
    <2> HIDE DEF r
    <2> QED
      BY <2>1, <2>2, OneRun
  <1>3. CASE WarehousePreview
    <2> DEFINE r == [type |-> "WAREHOUSE", answer |-> WarehouseAnswer]
    <2>1. runs' = {r} /\ book' = book
      BY <1>3 DEF WarehousePreview, vars
    <2>2. r.type = "WAREHOUSE" /\ r.answer = WarehouseAnswer
      OBVIOUS
    <2> HIDE DEF r
    <2> QED
      BY <2>1, <2>2, OneRun
  <1>4. CASE Procurement
    <2>1. book' = book
      BY <1>4 DEF Procurement, vars
    <2>2. PICK tiers \in TierTables, q \in Quantities :
            \/ /\ Firsts(tiers, q) = {}
               /\ runs' = {[type |-> "PROCUREMENT", tiers |-> tiers, quantity |-> q, first |-> {}]}
            \/ \E t \in Firsts(tiers, q) :
                runs' = {[type |-> "PROCUREMENT", tiers |-> tiers, quantity |-> q, first |-> {t}]}
      BY <1>4 DEF Procurement
    <2>3. PICK first :
            /\ runs' = {[type |-> "PROCUREMENT", tiers |-> tiers, quantity |-> q, first |-> first]}
            /\ \/ Firsts(tiers, q) = {} /\ first = {}
               \/ \E t \in Firsts(tiers, q) : first = {t}
      BY <2>2
    <2> DEFINE r == [type |-> "PROCUREMENT", tiers |-> tiers, quantity |-> q, first |-> first]
    <2>4. runs' = {r}
      BY <2>3
    <2>5. r.type = "PROCUREMENT" /\ r.tiers = tiers /\ r.quantity = q /\ r.first = first
      OBVIOUS
    <2>6. Undominated(tiers, q, first)
      BY <2>3, ProcurementUndominated
    <2> HIDE DEF r
    <2> QED
      BY <2>1, <2>4, <2>5, <2>6, OneRun
  <1>5. CASE DemandForecast
    <2>1. book' = book
      BY <1>5 DEF DemandForecast, vars
    <2>2. PICK h \in Histories, rows \in PlanRows :
            \E plan \in IF rows = {} THEN {0} ELSE rows :
                runs' = {[type |-> "DEMAND_FORECAST", history |-> h, plan |-> plan,
                          answer |-> Forecast(h, plan)]}
      BY <1>5 DEF DemandForecast
    <2>3. PICK plan \in IF rows = {} THEN {0} ELSE rows :
                runs' = {[type |-> "DEMAND_FORECAST", history |-> h, plan |-> plan,
                          answer |-> Forecast(h, plan)]}
      BY <2>2
    <2>4. h \in Seq(Nat) /\ plan \in Nat
      BY DemandAssumption
    <2> DEFINE r == [type |-> "DEMAND_FORECAST", history |-> h, plan |-> plan,
                     answer |-> Forecast(h, plan)]
    <2>5. runs' = {r}
      BY <2>3
    <2>6. /\ r.type = "DEMAND_FORECAST" /\ r.history = h /\ r.plan = plan
          /\ r.answer = Forecast(h, plan)
      OBVIOUS
    <2>7. SoundForecast(h, plan, Forecast(h, plan))
      BY <2>4, ForecastIsSound
    <2> HIDE DEF r
    <2> QED
      BY <2>1, <2>5, <2>6, <2>7, OneRun
  <1>6. CASE UNCHANGED allVars
    <2>1. runs' = runs /\ book' = book
      BY <1>6 DEF allVars, vars
    <2>2. WarehouseAnswer' = WarehouseAnswer
      BY <2>1, AnswerKept
    <2> QED
      BY <2>1, <2>2 DEF RunsRight
  <1> QED
    BY <1>1, <1>2, <1>3, <1>4, <1>5, <1>6 DEF PlanningNext

(* The invariant of the loop holds inside the previews, and what they      *)
(* record is right.                                                        *)
THEOREM PlanningInvariant == PlanningSpec => []PlanningInv
  <1>1. PlanningInit => Init /\ RunsRight
    BY DEF PlanningInit, RunsRight
  <1>2. PlanningSpec => Spec
    BY <1>1, PlanningStep, PTL DEF PlanningSpec, Spec
  <1>3. RunsRight /\ [PlanningNext]_allVars => RunsRight'
    BY StepRight
  <1>4. PlanningSpec => []RunsRight
    BY <1>1, <1>3, PTL DEF PlanningSpec
  <1> QED
    BY <1>2, <1>4, CarpoolInvariant, PTL DEF PlanningInv

(* What the loop promises, it promises in a preview.                       *)
THEOREM PreviewedCarpool ==
    PlanningSpec => [](EachOrderOnce /\ CandidatesFit /\ StopsDeliverAll) /\ GivenUpRightly
  <1>1. PlanningInit => Init
    BY DEF PlanningInit
  <1>2. PlanningSpec => Spec
    BY <1>1, PlanningStep, PTL DEF PlanningSpec, Spec
  <1> QED
    BY <1>2, CarpoolEachOrderOnce, CarpoolCandidatesFit, CarpoolStopsDeliverAll,
       CarpoolGivenUpRightly, PTL

(* The warehouse that is offered is the nearest of the zone that has the   *)
(* room; none is offered only if there is none; each order is in one pool. *)
THEOREM PlanningWarehouseOffered == PlanningSpec => []WarehouseOffered
  <1>1. ASSUME PlanningInv PROVE WarehouseOffered
    <2>1. book \in Books
      BY <1>1 DEF PlanningInv, Inv, Queued
    <2>2. \A r \in runs : r.type = "WAREHOUSE" => Offered(r.answer)
      BY <1>1, <2>1, AnswerOffered DEF PlanningInv, RunsRight
    <2> QED
      BY <2>2 DEF WarehouseOffered, Offered, Good
  <1> QED
    BY <1>1, PlanningInvariant, PTL

(* No offer that could have been recommended is cheaper than the one that  *)
(* is and as good in everything else, and one is recommended if there is.  *)
THEOREM PlanningUndominated == PlanningSpec => []RecommendationUndominated
  <1>1. PlanningInv => RecommendationUndominated
    BY DEF PlanningInv, RunsRight, RecommendationUndominated, Undominated
  <1> QED
    BY <1>1, PlanningInvariant, PTL

(* A forecast lies between its bounds, is that of a constant demand, and   *)
(* does not leave a short history behind.                                  *)
THEOREM PlanningForecastSound == PlanningSpec => []ForecastSound
  <1>1. PlanningInv => ForecastSound
    BY DEF PlanningInv, RunsRight, ForecastSound, SoundForecast
  <1> QED
    BY <1>1, PlanningInvariant, PTL

=============================================================================
