------------------------------ MODULE Carpool ------------------------------
(***************************************************************************)
(* run_carpool, the greedy loop that groups DRAFT orders into shared       *)
(* transports.  One turn of the loop is one step: the earliest remaining   *)
(* order is the anchor, the orders compatible with it form a group, every  *)
(* suitable vehicle is filled from the group in order of departure, and    *)
(* the fullest one becomes a candidate; if none takes two orders, the      *)
(* anchor is given up.                                                     *)
(*                                                                         *)
(* Places are points on a line, in kilometres (the great-circle distance   *)
(* of the code is symmetric and not transitive within a radius, and so is  *)
(* this one); the store of an order is where it goes.  Weights, volumes    *)
(* and quantities are whole numbers, the 90 % rule is exact.               *)
(***************************************************************************)
EXTENDS Integers, SequencesExt

CONSTANTS
    Books,      \* the sequences of orders the database may hold, by departure
    Fleet       \* the sequence of rows of vehicles

(* The orders there may be.                                                *)
Rows == UNION {ToSet(b) : b \in Books}

(* Orders have a key of their own, and are sorted before the loop.         *)
ASSUME BooksAssumption ==
    \A b \in Books :
        /\ b \in Seq(Rows)
        /\ \A i, j \in DOMAIN b : b[i].id = b[j].id => i = j
        /\ \A i, j \in DOMAIN b : i <= j => b[i].departure <= b[j].departure

(* The schema of an order wants positive amounts.                          *)
ASSUME RowsAssumption ==
    \A o \in Rows :
        /\ o.weight \in Nat /\ o.volume \in Nat /\ o.quantity \in Nat
        /\ o.origin \in Int /\ o.store \in Int /\ o.departure \in Int

(* Capacities are never negative.                                          *)
ASSUME FleetAssumption ==
    /\ Fleet \in Seq(ToSet(Fleet))
    /\ \A v \in ToSet(Fleet) : v.weight \in Nat /\ v.volume \in Nat

OriginMaxKm == 20
DestinationMaxKm == 25
DepartureWindow == 60

VARIABLES
    book,       \* the orders the request has selected
    remaining,  \* those still to be matched, by departure
    candidates, \* the groups found
    unmatched   \* the orders given up, with the reason

vars == <<book, remaining, candidates, unmatched>>

Near(x, y, radius) == x - y \in -radius..radius

Compatible(a, o) ==
    /\ Near(a.origin, o.origin, OriginMaxKm)
    /\ Near(a.store, o.store, DestinationMaxKm)
    /\ Near(a.departure, o.departure, DepartureWindow)
    /\ a.zone = o.zone

(* The elements of s that lie in S, in the order of s.                     *)
Only(s, S) ==
    LET only[k \in 0..Len(s)] ==
            IF k = 0 THEN <<>>
            ELSE IF s[k] \in S THEN Append(only[k - 1], s[k]) ELSE only[k - 1]
    IN  only[Len(s)]

Drafts == Only(book, {o \in ToSet(book) : o.status = "DRAFT"})

Init ==
    /\ book \in Books
    /\ remaining = Drafts
    /\ candidates = <<>>
    /\ unmatched = <<>>

----------------------------------------------------------------------------
(* Filling a vehicle.                                                      *)

Within90(used, capacity) == 10 * used <= 9 * capacity

(* The sum of a sequence of numbers.                                       *)
Sum(q) ==
    LET sum[k \in 0..Len(q)] == IF k = 0 THEN 0 ELSE sum[k - 1] + q[k]
    IN  sum[Len(q)]

Weight(s) == Sum([i \in DOMAIN s |-> s[i].weight])
Volume(s) == Sum([i \in DOMAIN s |-> s[i].volume])

Fits(s, v) == Within90(Weight(s), v.weight) /\ Within90(Volume(s), v.volume)

(* Mutant: an order is loaded if it fits the vehicle by itself.            *)
SelectedEach(group, v) == Only(group, {o \in ToSet(group) : Fits(<<o>>, v)})

(* First fit, in order of departure.                                       *)
Selected(group, v) ==
    LET loaded[k \in 0..Len(group)] ==
            IF k = 0 THEN <<>>
            ELSE LET s == loaded[k - 1] IN
                 IF Fits(Append(s, group[k]), v) THEN Append(s, group[k]) ELSE s
    IN  loaded[Len(group)]

Suitable(zone) == {i \in DOMAIN Fleet : /\ Fleet[i].enabled /\ Fleet[i].driver
                                        /\ Fleet[i].zone = zone}

(* The vehicles are tried from the smallest, and a later one only wins if  *)
(* it takes more orders.                                                   *)
Smaller(i, j) ==
    \/ Fleet[i].weight < Fleet[j].weight
    \/ Fleet[i].weight = Fleet[j].weight /\ Fleet[i].volume < Fleet[j].volume
    \/ /\ Fleet[i].weight = Fleet[j].weight /\ Fleet[i].volume = Fleet[j].volume
       /\ i < j

Group(anchor) == Only(remaining, {o \in ToSet(remaining) : Compatible(anchor, o)})

Takes(anchor) ==
    [i \in Suitable(anchor.zone) |-> Len(Selected(Group(anchor), Fleet[i]))]

(* Mutant: two orders are not enough.                                      *)
UsefulForThree(takes) == {i \in DOMAIN takes : takes[i] >= 3}

Useful(takes) == {i \in DOMAIN takes : takes[i] >= 2}

Best(takes) ==
    CHOOSE i \in Useful(takes) : \A j \in Useful(takes) \ {i} :
        \/ takes[j] < takes[i]
        \/ takes[j] = takes[i] /\ Smaller(i, j)

(* The stops of a candidate: per store and product, what is delivered.  A  *)
(* line carries the unit of the first of its orders.                       *)
At(s, store, product) ==
    Only(s, {o \in ToSet(s) : o.store = store /\ o.product = product})

(* Mutant: a line is found by its product and the first order counts.      *)
LineOfFirst(s) == [orders |-> {o.id : o \in ToSet(s)}, product |-> Head(s).product,
                   quantity |-> Head(s).quantity, unit |-> Head(s).unit]

Line(s) == [orders |-> {o.id : o \in ToSet(s)}, product |-> Head(s).product,
            quantity |-> Sum([i \in DOMAIN s |-> s[i].quantity]),
            unit |-> Head(s).unit]

DeliveryLines(s) ==
    [store \in {o.store : o \in ToSet(s)} |->
        {Line(At(s, store, product)) :
            product \in {o.product : o \in {p \in ToSet(s) : p.store = store}}}]

Candidate(anchor, i) ==
    LET s == Selected(Group(anchor), Fleet[i])
    IN  [orders |-> s, vehicle |-> i, zone |-> anchor.zone,
         origin |-> anchor.origin, destination |-> anchor.store,
         departure |-> Head(s).departure, stops |-> DeliveryLines(s),
         weight |-> Weight(s), volume |-> Volume(s)]

----------------------------------------------------------------------------
(* One turn of the loop.                                                   *)

(* Mutant: the anchor leaves the loop and the rest of the group stays.     *)
WithoutFirst(s, gone) == Only(s, ToSet(s) \ {Head(gone)})

Without(s, gone) == Only(s, ToSet(s) \ ToSet(gone))

Match ==
    /\ remaining # <<>>
    /\ LET anchor == Head(remaining)
           takes == Takes(anchor)
       IN
       /\ Useful(takes) # {}
       /\ LET c == Candidate(anchor, Best(takes)) IN
          /\ candidates' = Append(candidates, c)
          /\ remaining' = Without(remaining, c.orders)
    /\ UNCHANGED <<book, unmatched>>

Reason(anchor) ==
    CASE Suitable(anchor.zone) = {} -> "no vehicle"
      [] Suitable(anchor.zone) # {} /\ Len(Group(anchor)) = 1 /\ Len(remaining) > 1
            -> "incompatible"
      [] OTHER -> "no room for two"

GiveUp ==
    /\ remaining # <<>>
    /\ LET anchor == Head(remaining) IN
       /\ Useful(Takes(anchor)) = {}
       /\ unmatched' = Append(unmatched, [order |-> anchor, reason |-> Reason(anchor)])
    /\ remaining' = Tail(remaining)
    /\ UNCHANGED <<book, candidates>>

Next == Match \/ GiveUp

Spec == Init /\ [][Next]_vars

----------------------------------------------------------------------------
(* What a preview promises.                                                *)

(* Every DRAFT order is in one candidate, or given up, or still to be      *)
(* matched, and in one place only, though the loop removes a group that    *)
(* need not contain the anchor it was built around.  A candidate having    *)
(* two orders, every turn takes some away, and the loop ends.              *)
EachOrderOnce ==
    LET placed == FlattenSeq([i \in DOMAIN candidates |-> candidates[i].orders])
                    \o [i \in DOMAIN unmatched |-> unmatched[i].order] \o remaining
    IN  Len(placed) = Len(Drafts) /\ ToSet(placed) = ToSet(Drafts)

(* What a candidate says of itself (origin, destination, departure and     *)
(* zone satisfy the rules) is true as seen from one DRAFT order, in whose  *)
(* window the others leave; if it does not travel with them, it is because *)
(* it exceeds the vehicle by itself, and then two of the candidate may be  *)
(* twice as far from one another as the rules allow.                       *)
Explained(c) ==
    \E a \in ToSet(Drafts) :
        /\ \A o \in ToSet(c.orders) :
            /\ o.zone = a.zone
            /\ Near(a.origin, o.origin, OriginMaxKm)
            /\ Near(a.store, o.store, DestinationMaxKm)
            /\ o.departure \in a.departure..(a.departure + DepartureWindow)
        /\ a \in ToSet(c.orders) \/ ~Fits(<<a>>, Fleet[c.vehicle])

(* A candidate is explained, and shares a vehicle that exists for its      *)
(* zone, has a driver, and carries all its orders together within 90 % of  *)
(* both capacities.                                                        *)
CandidatesFit ==
    \A c \in ToSet(candidates) :
        LET v == Fleet[c.vehicle] IN
        /\ Len(c.orders) >= 2
        /\ v.enabled /\ v.driver
        /\ \A o \in ToSet(c.orders) : o.zone = v.zone
        /\ 10 * Weight(c.orders) <= 9 * v.weight
        /\ 10 * Volume(c.orders) <= 9 * v.volume
        /\ Explained(c)

(* The stops of a candidate deliver every order, at its store, in one      *)
(* line, and the lines expect as much as was ordered.                      *)
StopsDeliverAll ==
    \A c \in ToSet(candidates) :
        /\ \A o \in ToSet(c.orders) :
            \E l \in c.stops[o.store] : o.id \in l.orders /\ l.product = o.product
        /\ \A store \in DOMAIN c.stops :
            \A l \in c.stops[store] :
                l.quantity = Sum([i \in DOMAIN c.orders |->
                    IF c.orders[i].id \in l.orders THEN c.orders[i].quantity ELSE 0])

(* An order is only given up if no vehicle could have carried it together  *)
(* with one remaining order that suits it: the greedy filling misses no    *)
(* pair of the anchor.                                                     *)
GivenUpRightly ==
    [][unmatched' # unmatched =>
        LET anchor == Head(remaining) IN
        \A o \in ToSet(Tail(remaining)), v \in ToSet(Fleet) :
            ~ /\ Compatible(anchor, o)
              /\ v.enabled /\ v.driver /\ v.zone = anchor.zone
              /\ Fits(<<anchor, o>>, v)]_vars
=============================================================================
