----------------------------- MODULE MCPlanning -----------------------------
(***************************************************************************)
(* An instance of Planning for TLC.                                        *)
(***************************************************************************)
EXTENDS Planning

(* Four orders to two destinations, in one another's window or not, light, *)
(* heavy, or too heavy for any vehicle; the last two in either zone.  The  *)
(* first three may fill 18 of 20 kg, the last two 9 of 10 kg, and either   *)
(* 9 of 10 m3: 90 % of a vehicle, and of the free room of a warehouse.     *)
Order(i, origin, weight, zone, status) ==
    [id |-> i, status |-> status, scenario |-> "S", departure |-> <<0, 20, 50, 90>>[i],
     origin |-> origin, store |-> <<0, 25, 0, 0>>[i], product |-> <<"p", "p", "p", "q">>[i],
     unit |-> "kg", zone |-> zone, weight |-> weight, volume |-> <<2, 3, 4, 5>>[i],
     quantity |-> i]

OrderBooks ==
    {<<Order(1, 20, w1, "chilled", "DRAFT"), Order(2, o2, w2, "chilled", "DRAFT"),
       Order(3, o3, w3, z, "DRAFT"), Order(4, o4, 7, z, s)>> :
        w1 \in {2, 25}, w2 \in {2, 8}, w3 \in {2, 8, 25},
        o2 \in {0, 20, 41}, o3 \in {20, 40}, o4 \in {20, 40},
        z \in {"chilled", "frozen"}, s \in {"DRAFT", "CONFIRMED"}}
    \cup {<<>>}

Vehicle(zone, weight, volume, driver, enabled) ==
    [zone |-> zone, weight |-> weight, volume |-> volume, driver |-> driver,
     enabled |-> enabled]

Vehicles == <<Vehicle("chilled", 20, 10, TRUE, TRUE), Vehicle("chilled", 12, 20, TRUE, TRUE),
              Vehicle("chilled", 40, 40, FALSE, TRUE), Vehicle("frozen", 10, 10, TRUE, TRUE),
              Vehicle("frozen", 40, 40, TRUE, FALSE)>>

Warehouse(i, zone, place, capacity, used) ==
    [id |-> i, zone |-> zone, place |-> place, capacity |-> capacity, used |-> used]

SomeWarehouses == {Warehouse(1, "chilled", 20, 10, 6), Warehouse(2, "chilled", 50, 10, 0),
                   Warehouse(3, "chilled", 10, 20, 13), Warehouse(4, "frozen", 61, 10, 0),
                   Warehouse(5, "chilled", 25, 20, 20)}

Tier(price, delivery, quality, min, max, until) ==
    [price |-> price, delivery |-> delivery, quality |-> quality, min |-> min,
     max |-> max, capacity |-> 20, from |-> 1, until |-> until]

(* The second price differs from the first by less than a cent in total,   *)
(* the third by more; beside a dear offer the three score alike.           *)
SomeTiers ==
    {Tier(price, 90, quality, min, max, until) : price \in {10000, 10001, 10011},
        quality \in {60, 90}, min \in {1, 10}, max \in {9, NoMax}, until \in {1, 3}}

Dear == Tier(150000, 90, 60, 1, NoMax, 3)

TierSets == {{s, t} \cup more : s, t \in SomeTiers, more \in {{}, {Dear}}}

ShortHistories == BoundedSeq({0, 2, 6}, 5)
=============================================================================
