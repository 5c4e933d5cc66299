-------------------------- MODULE MCTaskFulfilment --------------------------
(***************************************************************************)
(* Instances of TaskFulfilment for TLC.                                    *)
(***************************************************************************)
EXTENDS TaskFulfilment, TLC

CONSTANTS s1, s2, p1, t1

(* Routes over one or two stores.  A stop takes MaxLoad of every product   *)
(* (of p1 alone if it is one of t1), so that full, partial and rejected    *)
(* receipts are all possible; the stores hold one unit of p1 at first and  *)
(* have no row for the others.                                             *)
TwoStops == [t \in Tasks |-> <<s1, s2>>]
OneLong  == [t \in Tasks |-> IF t = t1 THEN <<s1, s2>> ELSE <<s1>>]
Loads    == [t \in Tasks |-> [s \in Stores |-> [p \in Products |->
                IF t = t1 /\ p # p1 THEN 0 ELSE MaxLoad]]]
OpeningStock == [s \in Stores |-> [p \in Products |-> IF p = p1 THEN 1 ELSE NoRow]]

(* Keys are interchangeable, and those of the signatures never meet those  *)
(* of the actions (other scopes, other suffixes): of either kind a request *)
(* takes a key in use or the smallest unused one.                          *)
Open == {th \in Threads : pc[th] # "idle"}
SignKeys == {c.key : c \in receipts}
            \cup {req[th].key : th \in {u \in Open : req[u].kind = "SIGN"}}
ActionKeys == {e.key : e \in {f \in events : f.tag = "action"}}
              \cup {req[th].key : th \in {u \in Open : req[u].kind # "SIGN"}}

KeysInOrder ==
    \A used \in {SignKeys, ActionKeys} : \A k \in used : k = 1 \/ k - 1 \in used

(* Where the quantities do not matter, every receipt is a full one; where  *)
(* they do, since two tasks meet at a store, only signatures matter.       *)
FullReceipts == \A th \in Open : req[th].verdict \in {"NONE", "FULL"}
OnlySignatures == \A th \in Open : req[th].kind = "SIGN" /\ req[th].key <= 2
Relevant == IF \E t \in Tasks \ {t1} : status[t] # "CANCELLED"
            THEN OnlySignatures ELSE FullReceipts

(* Threads are interchangeable, and so are tasks with the same route.      *)
Symmetry == Permutations(Threads) \cup Permutations(Tasks \ {t1})

----------------------------------------------------------------------------
(* Later starting points: the states that one request of each of the first *)
(* n[t] kinds for every task t, served one after the other with the keys 1 *)
(* to n[t], lead to from Init; a task with n[t] = Cancelled has been       *)
(* cancelled at once.  After the fifth, the task's only stop is DELIVERED. *)
Walk == <<"CONFIRMED", "PUBLISHED", "DRIVER_ACCEPTED", "PICKED_UP",
          "IN_TRANSIT", "DELIVERED">>
Kinds == <<"PUBLISH", "ACCEPT", "PICKUP", "START_TRANSIT", "DELIVER">>
Cancelled == 99

Walked(t, n) ==
    IF n = Cancelled
    THEN {[task |-> t, key |-> 1, tag |-> "action", from |-> "CONFIRMED",
           to |-> "CANCELLED", version |-> 2]}
    ELSE {[task |-> t, key |-> i, tag |-> "action", from |-> Walk[i],
           to |-> Walk[i + 1], version |-> i + 1] : i \in 1..n}

Remembered(t, n) ==
    {[kind |-> Kinds[i], task |-> t, store |-> NoStore, verdict |-> "NONE",
      lines |-> Nothing, key |-> i, version |-> i] : i \in 2..(IF n = Cancelled THEN 0 ELSE n)}

After(n) ==
    /\ status = [t \in Tasks |-> IF n[t] = Cancelled THEN "CANCELLED" ELSE Walk[n[t] + 1]]
    /\ version = [t \in Tasks |-> IF n[t] = Cancelled THEN 2 ELSE n[t] + 1]
    /\ qr = [t \in Tasks |-> IF n[t] = Cancelled THEN "none" ELSE "live"]
    /\ stop = [t \in Tasks |-> [s \in Stores |->
                    IF n[t] = 5 THEN "DELIVERED" ELSE "PLANNED"]]
    /\ receipts = {}
    /\ balance = Opening
    /\ events = UNION {Walked(t, n[t]) : t \in Tasks}
    /\ idem = UNION {Remembered(t, n[t]) : t \in Tasks}
    /\ pc = [th \in Threads |-> "idle"]
    /\ req = [th \in Threads |-> NoRequest]
    /\ seen = [th \in Threads |-> EmptySnapshot]

(* The long task alone on its way, or the short ones about to be signed.   *)
LongAccepted == [t \in Tasks |-> IF t = t1 THEN 2 ELSE Cancelled]
ShortDelivered == [t \in Tasks |-> IF t = t1 THEN Cancelled ELSE 5]

SpecRaces == (After(LongAccepted) \/ After(ShortDelivered)) /\ [][Next]_vars
SpecInTransit == After([t \in Tasks |-> 4]) /\ [][Next]_vars

(* The keys of the publication and the acceptance are spent.               *)
FreshKeys == \A th \in Open : req[th].kind = "SIGN" \/ req[th].key > 2
=============================================================================
