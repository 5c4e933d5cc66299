--------------------------- MODULE TaskFulfilment ---------------------------
(***************************************************************************)
(* B02, the fulfilment service: the requests that move a transport task    *)
(* from CONFIRMED to COMPLETED, at the granularity of the statements they  *)
(* send to PostgreSQL (READ COMMITTED, no row locks, SQLAlchemy session    *)
(* with autoflush off).                                                    *)
(*                                                                         *)
(* A thread serves one request in one transaction.  It loads the           *)
(* idempotency record and the task row (Open...), reads the stops and the  *)
(* balances (Read...), and commits.  What it has read is kept in seen, as  *)
(* the identity map of its session keeps it: nothing is read twice, and    *)
(* the new column values are computed from it.  The writes become visible  *)
(* to the others at Commit.  An UPDATE names only the columns whose value  *)
(* differs from the loaded one, and a uniqueness violation rolls the whole *)
(* transaction back (the client gets a 500).  A request the code rejects,  *)
(* or answers from the idempotency table, changes nothing and is no step.  *)
(***************************************************************************)
EXTENDS Integers, Sequences, FiniteSetsExt

CONSTANTS
    Tasks, Stores, Products,
    Keys,       \* Idempotency-Key header values
    Threads,    \* threads of the pool with a transaction of their own
    Route,      \* Route[t]: the stores of t's stops, by sequence_no
    Load,       \* Load[t][s][p]: expected_quantity of the delivery line
    Opening,    \* Opening[s][p]: the seeded balance row, or NoRow
    NoRow, NoStore, NoRequest,
    MaxLoad,    \* bound on the quantities of a delivery line
    MaxVersion  \* bound on object_version of a task

ASSUME RouteAssumption ==
    /\ Route \in [Tasks -> Seq(Stores)]
    /\ Load \in [Tasks -> [Stores -> [Products -> 0..MaxLoad]]]
    /\ Opening \in [Stores -> [Products -> Nat \cup {NoRow}]]
    /\ NoRow \notin Nat
    /\ NoStore \notin Stores
    /\ MaxLoad \in Nat /\ MaxVersion \in Nat

Stops == [t \in Tasks |-> {Route[t][i] : i \in DOMAIN Route[t]}]

TaskStatus == {"CONFIRMED", "PUBLISHED", "DRIVER_ACCEPTED", "PICKED_UP",
               "IN_TRANSIT", "DELIVERED", "STORE_SIGNED", "COMPLETED",
               "CANCELLED"}
StopStatus == {"PLANNED", "DELIVERED", "SIGNED"}

----------------------------------------------------------------------------
(* The state: the rows of the b02 schema, and the open transactions.       *)

VARIABLES
    status,     \* status[t]    transport_tasks.status
    version,    \* version[t]   transport_tasks.object_version
    qr,         \* qr[t]        the QR token hash and its expiry
    stop,       \* stop[t][s]   task_stops.status
    receipts,   \* the rows of receipts, with their inventory movements
    balance,    \* balance[s][p] inventory_balances.quantity, or NoRow
    events,     \* the rows of task_events
    idem,       \* the requests that have an idempotency record
    pc,         \* pc[th]       how far the thread's transaction is
    req,        \* req[th]      the request it serves
    seen        \* seen[th]     the column values its session has loaded

rows == <<status, version, qr, stop, receipts, balance, events, idem>>
vars == <<rows, pc, req, seen>>

Verdict == {"FULL", "PARTIAL", "REJECTED"}
Nothing == [p \in Products |-> 0]

(* A request: the path, the Idempotency-Key and the body.  version is the  *)
(* body's object_version, store the stop of a DELIVER (NoStore when the    *)
(* body names none) or the signing store, lines the received quantities.   *)
ActionRequest == [kind : {"PUBLISH", "CANCEL", "ACCEPT", "PICKUP",
                          "START_TRANSIT", "DELIVER"},
                  task : Tasks, store : Stores \cup {NoStore},
                  verdict : {"NONE"}, lines : {Nothing}, key : Keys, version : Nat]
SignRequest == [kind : {"SIGN"}, task : Tasks, store : Stores, verdict : Verdict,
                lines : [Products -> Nat], key : Keys, version : Nat]
Request == ActionRequest \cup SignRequest

(* What a session has loaded: the task's status and version, the stop it   *)
(* is about to write and that stop's status, whether the stops it read     *)
(* leave the task unfinished (another one is PLANNED, for a DELIVER; not   *)
(* SIGNED, for a signature), and the store's balances.                     *)
Snapshot == [status : TaskStatus, version : Nat,
             target : Stores \cup {NoStore}, stop : StopStatus,
             unfinished : BOOLEAN, stock : [Products -> Nat \cup {NoRow}]]

TaskRow(t) == [status |-> status[t], version |-> version[t],
               target |-> NoStore, stop |-> "PLANNED",
               unfinished |-> FALSE, stock |-> [p \in Products |-> NoRow]]

(* The snapshot after a SELECT of stop s, or of the balances and stops.    *)
WithStop(sn, s, stopStatus, unfinished) ==
    [status |-> sn.status, version |-> sn.version, target |-> s,
     stop |-> stopStatus, unfinished |-> unfinished, stock |-> sn.stock]
WithStock(sn, stock, unfinished) ==
    [status |-> sn.status, version |-> sn.version, target |-> sn.target,
     stop |-> sn.stop, unfinished |-> unfinished, stock |-> stock]

EmptySnapshot == [status |-> "CONFIRMED", version |-> 0,
                  target |-> NoStore, stop |-> "PLANNED",
                  unfinished |-> FALSE, stock |-> [p \in Products |-> NoRow]]

Receipt == [task : Tasks, store : Stores, verdict : Verdict,
            lines : [Products -> Nat], key : Keys]

(* A task event: tag tells the suffix of the key (none, :state, :complete); *)
(* version is the object_version of the transaction's status_changed row.   *)
TaskEvent == [task : Tasks, key : Keys, tag : {"action", "state", "complete"},
              from : TaskStatus, to : TaskStatus, version : Nat]

TypeOK ==
    /\ status \in [Tasks -> TaskStatus]
    /\ version \in [Tasks -> Nat]
    /\ qr \in [Tasks -> {"none", "live", "expired"}]
    /\ stop \in [Tasks -> [Stores -> StopStatus]]
    /\ receipts \subseteq Receipt
    /\ balance \in [Stores -> [Products -> Nat \cup {NoRow}]]
    /\ events \subseteq TaskEvent
    /\ idem \subseteq Request
    /\ pc \in [Threads -> {"idle", "loaded", "located", "ready"}]
    /\ req \in [Threads -> Request \cup {NoRequest}]
    /\ \A th \in Threads : /\ pc[th] # "idle" => req[th] \in Request
                           /\ pc[th] = "located" => req[th] \in SignRequest
    /\ seen \in [Threads -> Snapshot]

Init ==
    /\ status = [t \in Tasks |-> "CONFIRMED"]
    /\ version = [t \in Tasks |-> 1]
    /\ qr = [t \in Tasks |-> "none"]
    /\ stop = [t \in Tasks |-> [s \in Stores |-> "PLANNED"]]
    /\ receipts = {}
    /\ balance = Opening
    /\ events = {}
    /\ idem = {}
    /\ pc = [th \in Threads |-> "idle"]
    /\ req = [th \in Threads |-> NoRequest]
    /\ seen = [th \in Threads |-> EmptySnapshot]

----------------------------------------------------------------------------
(* Opening a transaction.                                                  *)

(* The two requests look up the same row of idempotency_records: the scope *)
(* is the task for an action, the task and the store for a signature.      *)
SameScope(a, b) ==
    /\ a.task = b.task
    /\ (a.kind = "SIGN") = (b.kind = "SIGN")
    /\ a.kind = "SIGN" => a.store = b.store

(* load_idempotent finds nothing; otherwise the recorded answer (or an     *)
(* IDEMPOTENCY_CONFLICT, for another body) goes back and nothing changes.  *)
NoRecord(r) == \A i \in idem : i.key = r.key => ~SameScope(i, r)

(* Idle thread th takes r, whose object_version matches the loaded row.    *)
Begin(th, r, step) ==
    /\ r.version = version[r.task]
    /\ r.version < MaxVersion
    /\ pc' = [pc EXCEPT ![th] = step]
    /\ req' = [req EXCEPT ![th] = r]
    /\ seen' = [seen EXCEPT ![th] = TaskRow(r.task)]
    /\ UNCHANGED rows

ACTION_TRANSITIONS == {<<"PUBLISHED", "ACCEPT">>, <<"DRIVER_ACCEPTED", "PICKUP">>,
                       <<"PICKED_UP", "START_TRANSIT">>}

TaskRequest(kind, t, s, k) ==
    [kind |-> kind, task |-> t, store |-> s, verdict |-> "NONE",
     lines |-> Nothing, key |-> k, version |-> version[t]]

(* transition_task, for every action but DELIVER: one read, then writes.   *)
OpenTransition(th, t, action, k) ==
    LET r == TaskRequest(action, t, NoStore, k) IN
    /\ pc[th] = "idle"
    /\ <<status[t], action>> \in ACTION_TRANSITIONS
    /\ action = "PICKUP" => qr[t] = "live"
    /\ NoRecord(r)
    /\ Begin(th, r, "ready")

(* transition_task, DELIVER, up to the SELECT of the stops.                *)
OpenDeliver(th, t, s, k) ==
    LET r == TaskRequest("DELIVER", t, s, k) IN
    /\ pc[th] = "idle"
    /\ status[t] \in {"IN_TRANSIT", "DELIVERED"}
    /\ s \in Stops[t] \cup {NoStore}
    /\ NoRecord(r)
    /\ Begin(th, r, "loaded")

(* s is the stop a DELIVER writes: the one its body names, whatever its    *)
(* status is, or else the first PLANNED one in the order of the route.     *)
IsTarget(r, s) ==
    IF r.store # NoStore THEN s = r.store
    ELSE \E i \in DOMAIN Route[r.task] :
            /\ s = Route[r.task][i]
            /\ stop[r.task][s] = "PLANNED"
            /\ \A j \in 1..(i - 1) : stop[r.task][Route[r.task][j]] # "PLANNED"

ReadStops(th) ==
    LET r == req[th]  t == req[th].task IN
    /\ pc[th] = "loaded" /\ r.kind = "DELIVER"
    /\ qr[t] = "live"
    /\ \E s \in Stops[t] :
        /\ IsTarget(r, s)
        /\ seen' = [seen EXCEPT ![th] = WithStop(@, s, stop[t][s],
                        \E u \in Stops[t] \ {s} : stop[t][u] = "PLANNED")]
    /\ pc' = [pc EXCEPT ![th] = "ready"]
    /\ UNCHANGED <<rows, req>>

(* The checks of sign_receipt on the lines of the body.                    *)
LinesMatch(verdict, lines, load) ==
    /\ \A p \in Products : lines[p] <= load[p]
    /\ verdict = "FULL" => lines = load
    /\ verdict = "PARTIAL" => lines # load
    /\ verdict = "REJECTED" => lines = Nothing

(* sign_receipt up to the SELECT of the store's stop.                      *)
OpenSign(th, t, s, verdict, lines, k) ==
    LET r == [kind |-> "SIGN", task |-> t, store |-> s, verdict |-> verdict,
              lines |-> lines, key |-> k, version |-> version[t]] IN
    /\ pc[th] = "idle"
    /\ status[t] \in {"DELIVERED", "STORE_SIGNED"}
    /\ qr[t] = "live"
    /\ s \in Stops[t]
    /\ LinesMatch(verdict, lines, Load[t][s])
    /\ NoRecord(r)
    /\ Begin(th, r, "loaded")

ReadStop(th) ==
    LET r == req[th] IN
    /\ pc[th] = "loaded" /\ r.kind = "SIGN"
    /\ stop[r.task][r.store] = "DELIVERED"
    /\ seen' = [seen EXCEPT ![th] = WithStop(@, r.store, "DELIVERED", TRUE)]
    /\ pc' = [pc EXCEPT ![th] = "located"]
    /\ UNCHANGED <<rows, req>>

(* Mutant: the count takes the stops not yet delivered.                    *)
ReadStockPlanned(th) ==
    LET r == req[th] IN
    /\ pc[th] = "located"
    /\ seen' = [seen EXCEPT ![th] = WithStock(@, balance[r.store],
                    \E u \in Stops[r.task] \ {r.store} : stop[r.task][u] = "PLANNED")]
    /\ pc' = [pc EXCEPT ![th] = "ready"]
    /\ UNCHANGED <<rows, req>>

(* The balances of the lines, then the count of the stops not yet SIGNED,  *)
(* in which the transaction's own stop already counts as SIGNED.           *)
ReadStock(th) ==
    LET r == req[th] IN
    /\ pc[th] = "located"
    /\ seen' = [seen EXCEPT ![th] = WithStock(@, balance[r.store],
                    \E u \in Stops[r.task] \ {r.store} : stop[r.task][u] # "SIGNED")]
    /\ pc' = [pc EXCEPT ![th] = "ready"]
    /\ UNCHANGED <<rows, req>>

(* The worker serves one outbox event at a time, and checks no version and *)
(* no idempotency record.  A plan is published once; requests to cancel it *)
(* may come several times, when they overlap.                              *)
WorkerIdle == \A th \in Threads : pc[th] # "idle" => req[th].kind \notin {"PUBLISH", "CANCEL"}

OpenPublish(th, t, k) ==
    /\ pc[th] = "idle" /\ WorkerIdle
    /\ status[t] = "CONFIRMED"
    /\ Begin(th, TaskRequest("PUBLISH", t, NoStore, k), "ready")

OpenCancel(th, t, k) ==
    /\ pc[th] = "idle" /\ WorkerIdle
    /\ status[t] \in {"CONFIRMED", "PUBLISHED", "DRIVER_ACCEPTED"}
    /\ Begin(th, TaskRequest("CANCEL", t, NoStore, k), "ready")

----------------------------------------------------------------------------
(* Committing it.                                                          *)

Simple == [PUBLISH |-> "PUBLISHED", CANCEL |-> "CANCELLED",
           ACCEPT |-> "DRIVER_ACCEPTED", PICKUP |-> "PICKED_UP",
           START_TRANSIT |-> "IN_TRANSIT"]

(* Mutant: the first DELIVER makes the whole task DELIVERED.               *)
NewStatusDelivered(r, sn) ==
    CASE r.kind = "DELIVER" -> "DELIVERED"
      [] r.kind = "SIGN"    -> IF sn.unfinished THEN "STORE_SIGNED" ELSE "COMPLETED"
      [] OTHER              -> Simple[r.kind]

(* The status the transaction gives the task, from what it has read.       *)
NewStatus(r, sn) ==
    CASE r.kind = "DELIVER" -> IF sn.unfinished THEN "IN_TRANSIT" ELSE "DELIVERED"
      [] r.kind = "SIGN"    -> IF sn.unfinished THEN "STORE_SIGNED" ELSE "COMPLETED"
      [] OTHER              -> Simple[r.kind]

(* Mutant: a delivery counts as signed.                                    *)
NewStopSigned(r) == "SIGNED"

NewStop(r) == IF r.kind = "SIGN" THEN "SIGNED" ELSE "DELIVERED"

(* A column an UPDATE names only when its new value is not the loaded one. *)
Written(current, loaded, new) == IF new = loaded THEN current ELSE new

(* Every transaction makes a new version of the task it has loaded.        *)
NextVersion(r, sn) == sn.version + 1

(* The task_events rows; the outbox rows carry the same version.           *)
EventRow(r, sn, tag, from, to) ==
    [task |-> r.task, key |-> r.key, tag |-> tag,
     from |-> from, to |-> to, version |-> NextVersion(r, sn)]

(* Mutant: a signature is recorded only when it is the last one.           *)
NewEventsOfLast(r, sn) ==
    IF r.kind # "SIGN" THEN {EventRow(r, sn, "action", sn.status, NewStatus(r, sn))}
    ELSE IF sn.unfinished THEN {}
    ELSE {EventRow(r, sn, "state", sn.status, "STORE_SIGNED"),
          EventRow(r, sn, "complete", "STORE_SIGNED", "COMPLETED")}

NewEvents(r, sn) ==
    IF r.kind # "SIGN" THEN {EventRow(r, sn, "action", sn.status, NewStatus(r, sn))}
    ELSE {EventRow(r, sn, "state", sn.status, "STORE_SIGNED")}
         \cup (IF sn.unfinished THEN {}
               ELSE {EventRow(r, sn, "complete", "STORE_SIGNED", "COMPLETED")})

NewReceipts(r) ==
    IF r.kind # "SIGN" THEN {}
    ELSE {[task |-> r.task, store |-> r.store, verdict |-> r.verdict,
           lines |-> r.lines, key |-> r.key]}

(* The unique constraints of task_events, idempotency_records, receipts,   *)
(* inventory_movements (store, key:product) and inventory_balances.        *)
NoDuplicate(r, sn) ==
    /\ \A e \in events, f \in NewEvents(r, sn) :
            e.task = f.task /\ e.key = f.key => e.tag # f.tag
    /\ r.kind \notin {"PUBLISH", "CANCEL"} => NoRecord(r)
    /\ \A c \in receipts, d \in NewReceipts(r) :
            /\ c.task = d.task => c.store # d.store /\ c.key # d.key
            /\ c.store = d.store /\ c.key = d.key =>
                    \A p \in Products : c.lines[p] = 0 \/ d.lines[p] = 0
    /\ r.kind = "SIGN" =>
            \A p \in Products :
                r.lines[p] > 0 /\ sn.stock[p] = NoRow => balance[r.store][p] = NoRow

(* Mutant: the expected quantity is booked in place of the received one.   *)
NewStockExpected(r, sn) ==
    [p \in Products |->
        Load[r.task][r.store][p] + (IF sn.stock[p] = NoRow THEN 0 ELSE sn.stock[p])]

(* The new value of a balance: computed by the program from the value it   *)
(* read, and written as such.                                              *)
NewStock(r, sn) ==
    [p \in Products |->
        IF r.lines[p] = 0 THEN balance[r.store][p]
        ELSE r.lines[p] + (IF sn.stock[p] = NoRow THEN 0 ELSE sn.stock[p])]

End(th) ==
    /\ pc' = [pc EXCEPT ![th] = "idle"]
    /\ req' = [req EXCEPT ![th] = NoRequest]
    /\ seen' = [seen EXCEPT ![th] = EmptySnapshot]

Commit(th) ==
    LET r == req[th]  t == req[th].task  sn == seen[th] IN
    /\ pc[th] = "ready"
    /\ NoDuplicate(r, sn)
    /\ status' = [status EXCEPT ![t] = Written(@, sn.status, NewStatus(r, sn))]
    /\ version' = [version EXCEPT ![t] = NextVersion(r, sn)]
    /\ qr' = IF r.kind = "PUBLISH" THEN [qr EXCEPT ![t] = "live"] ELSE qr
    /\ stop' = IF sn.target = NoStore THEN stop
               ELSE [stop EXCEPT ![t][sn.target] = Written(@, sn.stop, NewStop(r))]
    /\ balance' = IF r.kind = "SIGN"
                  THEN [balance EXCEPT ![r.store] = NewStock(r, sn)] ELSE balance
    /\ receipts' = receipts \cup NewReceipts(r)
    /\ events' = events \cup NewEvents(r, sn)
    /\ idem' = IF r.kind \in {"PUBLISH", "CANCEL"} THEN idem ELSE idem \cup {r}
    /\ End(th)

(* A uniqueness violation, a late check that fails (stop not DELIVERED, no *)
(* PLANNED stop left, QR expired), a deadlock victim, a lost connection or *)
(* a killed process: the transaction is rolled back.                       *)
Rollback(th) ==
    /\ pc[th] # "idle"
    /\ End(th)
    /\ UNCHANGED rows

(* Two days have passed since the publication.                             *)
ExpireQr(t) ==
    /\ qr[t] = "live"
    /\ qr' = [qr EXCEPT ![t] = "expired"]
    /\ UNCHANGED <<status, version, stop, receipts, balance, events, idem, pc, req, seen>>

Next ==
    \/ \E th \in Threads, t \in Tasks, k \in Keys :
        \/ OpenPublish(th, t, k) \/ OpenCancel(th, t, k)
        \/ \E a \in {"ACCEPT", "PICKUP", "START_TRANSIT"} : OpenTransition(th, t, a, k)
        \/ \E s \in Stores \cup {NoStore} : OpenDeliver(th, t, s, k)
        \/ \E s \in Stores, v \in Verdict :
            \E lines \in [Products -> 0..MaxLoad] : OpenSign(th, t, s, v, lines, k)
    \/ \E th \in Threads :
        ReadStops(th) \/ ReadStop(th) \/ ReadStock(th) \/ Commit(th) \/ Rollback(th)
    \/ \E t \in Tasks : ExpireQr(t)

Spec == Init /\ [][Next]_vars

----------------------------------------------------------------------------
(* Properties that hold whatever the interleaving.                         *)

Signed(t, s) == \E c \in receipts : c.task = t /\ c.store = s

(* STATUS_MAPPING.md: COMPLETED says that every stop was signed.  Whatever *)
(* requests overlap, no task shows COMPLETED, and none has an              *)
(* AUTO_COMPLETE event, before each store of its route has its receipt.    *)
CompletedFullySigned ==
    \A t \in Tasks :
        \/ status[t] = "COMPLETED"
        \/ \E e \in events : e.task = t /\ e.tag = "complete"
        => \A s \in Stops[t] : Signed(t, s)

(* AUTO_COMPLETE is recorded at most once per task: two signatures cannot  *)
(* both find that they were the last one.                                  *)
CompletedOnce ==
    \A e, f \in events :
        e.task = f.task /\ e.tag = "complete" /\ f.tag = "complete" => e = f

Arrived == {"DELIVERED", "STORE_SIGNED", "COMPLETED"}

(* STATUS_MAPPING.md: DELIVERED says that every stop was scanned.  A task  *)
(* that shows DELIVERED or a later status has no stop left PLANNED, even   *)
(* when the DELIVER that set it had read older stops.                      *)
ArrivedEverywhere ==
    \A t \in Tasks :
        status[t] \in Arrived
            => \A s \in Stops[t] : stop[t][s] # "PLANNED"

(* A store has signed only what has arrived: a SIGNED stop has its receipt *)
(* and a stop with a receipt was delivered.                                *)
ReceiptAfterDelivery ==
    \A t \in Tasks : \A s \in Stops[t] :
        /\ stop[t][s] = "SIGNED" => Signed(t, s)
        /\ Signed(t, s) => stop[t][s] # "PLANNED"

(* The contract keeps status changes as immutable history.  It has no gap: *)
(* the status an event starts from is one that another event reached, even *)
(* when the transaction that recorded it had read an old row.              *)
NoGapInHistory ==
    \A e \in events :
        e.from = "CONFIRMED" \/ \E f \in events \ {e} : f.task = e.task /\ f.to = e.from

(* What a transaction has read fits the request and how far it is,         *)
Shape(th) ==
    LET r == req[th]  sn == seen[th] IN
    /\ pc[th] = "loaded" => r.kind \in {"DELIVER", "SIGN"} /\ sn.target = NoStore
    /\ pc[th] = "located" => r.kind = "SIGN"
    /\ pc[th] # "loaded" /\ r.kind \in {"DELIVER", "SIGN"} => sn.target # NoStore
    /\ sn.target # NoStore => /\ r.kind \in {"DELIVER", "SIGN"}
                              /\ sn.target \in Stops[r.task]
    /\ r.kind = "SIGN" => /\ r.store \in Stops[r.task]
                          /\ sn.status \in {"DELIVERED", "STORE_SIGNED"}
                          /\ sn.target \in {NoStore, r.store}
                          /\ sn.target # NoStore => sn.stop = "DELIVERED"

(* and what it has concluded from it: the task had arrived, the stop to    *)
(* write was scanned, the other stops were scanned or signed.              *)
Conclusion(th) ==
    LET r == req[th]  sn == seen[th]  t == req[th].task IN
    /\ sn.status \in Arrived => \A s \in Stops[t] : stop[t][s] # "PLANNED"
    /\ sn.target # NoStore /\ sn.stop # "PLANNED" => stop[t][sn.target] # "PLANNED"
    /\ pc[th] = "ready" /\ ~sn.unfinished =>
        /\ r.kind = "DELIVER" =>
                \A u \in Stops[t] \ {sn.target} : stop[t][u] # "PLANNED"
        /\ r.kind = "SIGN" => \A u \in Stops[t] \ {r.store} : Signed(t, u)

(* The conclusions an open transaction has drawn from the stops and the    *)
(* receipts it read are still true when it commits, however old they are.  *)
(* This is what the properties above rest on.                              *)
ReadsStillHold ==
    \A th \in Threads : pc[th] # "idle" => Shape(th) /\ Conclusion(th)

Quantity(q) == IF q = NoRow THEN 0 ELSE q
Received(s, p) == MapThenSumSet(LAMBDA c : c.lines[p], {c \in receipts : c.store = s})

(* Overlapping signatures may lose stock, but never invent it: a balance   *)
(* never exceeds the opening stock plus the movements booked at the store. *)
StockNeverInvented ==
    \A s \in Stores, p \in Products :
        Quantity(balance[s][p]) <= Quantity(Opening[s][p]) + Received(s, p)

----------------------------------------------------------------------------
(* Properties of requests served one after the other (one thread);         *)
(* overlapping requests break the first three.                             *)

(* ACCEPTANCE.md: a receipt adds its quantities to the stock exactly once: *)
(* the balances are the opening stock plus the movements.                  *)
LedgerBalanced ==
    \A s \in Stores, p \in Products :
        Quantity(balance[s][p]) = Quantity(Opening[s][p]) + Received(s, p)

(* STATUS_MAPPING.md: once every stop is signed the task is COMPLETED.     *)
AllSignedCompletes ==
    \A t \in Tasks :
        (\A s \in Stops[t] : stop[t][s] = "SIGNED") => status[t] = "COMPLETED"

(* The service implements the documented life of a task.                   *)
Lifecycle == INSTANCE TaskLifecycle WITH
    Stops <- Stops,
    status <- status,
    stop <- [t \in Tasks |-> [s \in Stops[t] |-> stop[t][s]]]

LifecycleSpec == Lifecycle!Spec
=============================================================================
