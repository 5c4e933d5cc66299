------------------------------- MODULE Mailbox -------------------------------
(***************************************************************************)
(* What a user may expect of the requests the phone queues: what was       *)
(* queued is delivered at most once, and only what was delivered is ever   *)
(* forgotten by the phone.                                                 *)
(***************************************************************************)
CONSTANT Letters

VARIABLES queued, delivered, forgotten

vars == <<queued, delivered, forgotten>>

Init == queued = {} /\ delivered = {} /\ forgotten = {}

Queue(x) ==
    /\ x \notin queued \cup forgotten
    /\ queued' = queued \cup {x}
    /\ UNCHANGED <<delivered, forgotten>>

Deliver(x) ==
    /\ x \in queued \ delivered
    /\ delivered' = delivered \cup {x}
    /\ UNCHANGED <<queued, forgotten>>

(* A run of the queue ends: the answered letters are dropped, and those    *)
(* another run has dropped meanwhile may come back.                        *)
Tidy ==
    /\ \E drop \in SUBSET (queued \cap delivered), back \in SUBSET forgotten :
        /\ queued' = (queued \ drop) \cup back
        /\ forgotten' = (forgotten \ back) \cup drop
    /\ UNCHANGED delivered

Next == (\E x \in Letters : Queue(x) \/ Deliver(x)) \/ Tidy

Spec == Init /\ [][Next]_vars
=============================================================================
