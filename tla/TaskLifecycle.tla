--------------------------- MODULE TaskLifecycle ---------------------------
(***************************************************************************)
(* The life of a transport task, whoever works on it: what transition_task,*)
(* sign_receipt and the worker make of it when each request is one step.   *)
(* A task walks from CONFIRMED to COMPLETED, is DELIVERED once every stop  *)
(* was scanned, COMPLETED once every stop was signed, and may be CANCELLED *)
(* until the cargo is picked up (contracts/miniapp/STATUS_MAPPING.md says  *)
(* the same).  There are no requests, versions, keys or transactions here: *)
(* this is the abstract specification TaskFulfilment is checked against.   *)
(***************************************************************************)
EXTENDS Naturals

CONSTANTS
    Tasks,      \* transport tasks
    Stops       \* Stops[t] is the set of stores task t delivers to

VARIABLES
    status,     \* status[t], the formal status of the task
    stop        \* stop[t][s], the status of the stop at store s

vars == <<status, stop>>

----------------------------------------------------------------------------

Init ==
    /\ status = [t \in Tasks |-> "CONFIRMED"]
    /\ stop = [t \in Tasks |-> [s \in Stops[t] |-> "PLANNED"]]

Advance(t, from, to) ==
    /\ status[t] = from
    /\ status' = [status EXCEPT ![t] = to]
    /\ UNCHANGED stop

Publish(t) == Advance(t, "CONFIRMED", "PUBLISHED")
Accept(t)  == Advance(t, "PUBLISHED", "DRIVER_ACCEPTED")
Pickup(t)  == Advance(t, "DRIVER_ACCEPTED", "PICKED_UP")
Depart(t)  == Advance(t, "PICKED_UP", "IN_TRANSIT")

Cancel(t)  ==
    \E from \in {"CONFIRMED", "PUBLISHED", "DRIVER_ACCEPTED"} :
        Advance(t, from, "CANCELLED")

Deliver(t, s) ==
    /\ status[t] = "IN_TRANSIT"
    /\ stop[t][s] = "PLANNED"
    /\ stop' = [stop EXCEPT ![t][s] = "DELIVERED"]
    /\ status' = [status EXCEPT ![t] =
                    IF \E u \in Stops[t] : stop'[t][u] = "PLANNED"
                    THEN "IN_TRANSIT" ELSE "DELIVERED"]

Sign(t, s) ==
    /\ status[t] \in {"DELIVERED", "STORE_SIGNED"}
    /\ stop[t][s] = "DELIVERED"
    /\ stop' = [stop EXCEPT ![t][s] = "SIGNED"]
    /\ status' = [status EXCEPT ![t] =
                    IF \E u \in Stops[t] : stop'[t][u] # "SIGNED"
                    THEN "STORE_SIGNED" ELSE "COMPLETED"]

Next ==
    \E t \in Tasks :
        \/ Publish(t) \/ Accept(t) \/ Pickup(t) \/ Depart(t) \/ Cancel(t)
        \/ \E s \in Stops[t] : Deliver(t, s) \/ Sign(t, s)

Spec == Init /\ [][Next]_vars

=============================================================================
