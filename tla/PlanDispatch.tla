---------------------------- MODULE PlanDispatch ----------------------------
(***************************************************************************)
(* B01, the planning service, and the worker that carries its requests to  *)
(* the fulfilment service through the outbox.                              *)
(*                                                                         *)
(* An administrator confirms the candidate of a carpool run, which makes a *)
(* plan of it, and asks for the plan to be published or cancelled.  Each   *)
(* handler loads its rows, and writes its decision and an outbox event in  *)
(* one commit.  The worker polls the outbox and handles the events one by  *)
(* one, in one transaction each: it creates the execution task of a plan,  *)
(* publishes it, cancels it.  Drivers and stores move the task meanwhile,  *)
(* in transactions of their own that load the row first and write it at    *)
(* their commit (TaskFulfilment has the details), and answer through the   *)
(* same outbox.  No row is locked and no UPDATE looks at a version: a      *)
(* request's object_version is compared with the row just loaded, which a  *)
(* client that has read it passes, and versions are left out.              *)
(*                                                                         *)
(* Events no handler of the worker reacts to are left out, and the order   *)
(* of the events is the order of the commits.                              *)
(***************************************************************************)
EXTENDS Integers, Sequences, FiniteSets

CONSTANTS
    Orders, Runs, NoRun,
    Candidate,    \* Candidate[r]: the orders of the candidate of run r
    Admins,       \* threads of B01's pool with a transaction of their own
    Drivers,      \* threads of B02's pool with one
    MaxAttempts,  \* attempts after which an event is DEAD (5 in the code)
    Limit,        \* events in one poll of the worker (100 in the code)
    MaxPlans,     \* bound on the plans that are made
    MaxEvents,    \* bound on the outbox
    MaxFaults     \* bound on the failures and crashes of the worker

ASSUME DispatchAssumption ==
    /\ Candidate \in [Runs -> SUBSET Orders]
    /\ NoRun \notin Runs
    /\ MaxAttempts \in Nat \ {0} /\ Limit \in Nat \ {0}
    /\ MaxPlans \in Nat /\ MaxEvents \in Nat /\ MaxFaults \in Nat

Plans == 1..MaxPlans

PlanStatus == {"NONE", "CONFIRMED", "READY", "PUBLISH_REQUESTED", "PUBLISHED",
               "CANCELLATION_REQUESTED", "CANCELLED", "CANCELLATION_REJECTED"}
TaskStatus == {"NONE", "CONFIRMED", "PUBLISHED", "DRIVER_ACCEPTED", "PICKED_UP",
               "COMPLETED", "CANCELLED"}
Topic == {"confirmed", "publish_requested", "cancellation_requested",
          "driver_accepted", "completed"}

NoPlan == 0

VARIABLES
    order,      \* order[o]    transport_orders.status
    confirmed,  \* the runs whose confirmed flag is set
    planRun,    \* planRun[p]  transport_plans.algorithm_run_id
    plan,       \* plan[p]     its status, "NONE" before it is made
    token,      \* token[p]    it shows a published_qr_token
    task,       \* task[p]     the status of its execution task, or "NONE"
    outbox,     \* outbox_events, by sequence
    pc,         \* pc[a]       the kind of the request thread a works on
    subject,    \* subject[a]  the run or the plan of that request
    work,       \* work[d]     the plan whose task d moves, and the status it loaded
    batch,      \* the events the worker has polled and not taken yet
    current,    \* the event it has locked in its transaction, or 0
    loaded,     \* the rows that transaction has loaded
    faults,     \* failures and crashes so far
    (* history: no action reads it *)
    found,      \* found[a]    the plans there were when a checked its run
    older,      \* older[p]    the plans there were when p's run was checked
    overtaken   \* plans cancelled while a driver's transaction was under way

rows == <<order, confirmed, planRun, plan, token, task>>
adminVars == <<pc, subject, found>>
workerVars == <<batch, current, loaded, faults>>
history == <<older, overtaken>>
vars == <<rows, outbox, adminVars, work, workerVars, history>>

(* The columns of a plan and of its task, as a session has loaded them.    *)
Row == [plan : PlanStatus, token : BOOLEAN, task : TaskStatus]

RowOf(p) == [plan |-> plan[p], token |-> token[p], task |-> task[p]]
NoRow == [plan |-> "NONE", token |-> FALSE, task |-> "NONE"]

Work == [plan : Plans \cup {NoPlan}, task : TaskStatus]
NoWork == [plan |-> NoPlan, task |-> "NONE"]

Event == [topic : Topic, plan : Plans,
          status : {"PENDING", "PUBLISHED", "DEAD"}, attempts : Nat]

Enqueued(topic, p) == [topic |-> topic, plan |-> p, status |-> "PENDING", attempts |-> 0]

TypeOK ==
    /\ order \in [Orders -> {"DRAFT", "CONFIRMED", "CANCELLED", "COMPLETED"}]
    /\ confirmed \subseteq Runs
    /\ planRun \in [Plans -> Runs \cup {NoRun}]
    /\ plan \in [Plans -> PlanStatus]
    /\ token \in [Plans -> BOOLEAN]
    /\ task \in [Plans -> TaskStatus]
    /\ outbox \in Seq(Event)
    /\ pc \in [Admins -> {"idle", "confirm", "publish", "cancel"}]
    /\ subject \in [Admins -> Runs \cup Plans \cup {NoRun}]
    /\ \A a \in Admins : /\ pc[a] = "confirm" => subject[a] \in Runs
                         /\ pc[a] \in {"publish", "cancel"} => subject[a] \in Plans
    /\ work \in [Drivers -> Work]
    /\ batch \subseteq DOMAIN outbox
    /\ current \in {0} \cup DOMAIN outbox
    /\ loaded \in Row
    /\ faults \in Nat
    /\ found \in [Admins -> SUBSET Plans]
    /\ older \in [Plans -> SUBSET Plans]
    /\ overtaken \subseteq Plans

Init ==
    /\ order = [o \in Orders |-> "DRAFT"]
    /\ confirmed = {}
    /\ planRun = [p \in Plans |-> NoRun]
    /\ plan = [p \in Plans |-> "NONE"]
    /\ token = [p \in Plans |-> FALSE]
    /\ task = [p \in Plans |-> "NONE"]
    /\ outbox = <<>>
    /\ pc = [a \in Admins |-> "idle"]
    /\ subject = [a \in Admins |-> NoRun]
    /\ work = [d \in Drivers |-> NoWork]
    /\ batch = {}
    /\ current = 0
    /\ loaded = NoRow
    /\ faults = 0
    /\ found = [a \in Admins |-> {}]
    /\ older = [p \in Plans |-> {}]
    /\ overtaken = {}

----------------------------------------------------------------------------
(* The handlers of B01: loading and checking, then one commit.  A request  *)
(* that carries an old version, or that the idempotency table answers,     *)
(* changes nothing and is no step.                                         *)

Made == {p \in Plans : planRun[p] # NoRun}

Open(a, kind, about) ==
    /\ pc[a] = "idle"
    /\ pc' = [pc EXCEPT ![a] = kind]
    /\ subject' = [subject EXCEPT ![a] = about]
    /\ found' = [found EXCEPT ![a] = IF kind = "confirm" THEN Made ELSE {}]
    /\ UNCHANGED <<rows, outbox, work, workerVars, history>>

Close(a) ==
    /\ pc' = [pc EXCEPT ![a] = "idle"]
    /\ subject' = [subject EXCEPT ![a] = NoRun]
    /\ found' = [found EXCEPT ![a] = {}]

(* Mutant: the run is checked, its orders are not.                         *)
OpenConfirmUnchecked(a, r) ==
    /\ r \notin confirmed
    /\ Open(a, "confirm", r)

(* confirm_carpool: an order that is not DRAFT has been planned already.   *)
OpenConfirm(a, r) ==
    /\ r \notin confirmed
    /\ \A o \in Candidate[r] : order[o] = "DRAFT"
    /\ Open(a, "confirm", r)

OpenPublish(a, p) ==
    /\ plan[p] = "READY" /\ task[p] # "NONE"
    /\ Open(a, "publish", p)

OpenCancel(a, p) ==
    /\ plan[p] \in {"CONFIRMED", "READY", "PUBLISHED"}
    /\ Open(a, "cancel", p)

Enqueue(topic, p) ==
    /\ Len(outbox) < MaxEvents
    /\ outbox' = Append(outbox, Enqueued(topic, p))

(* The candidate becomes the next plan, whatever its orders are by now.    *)
CommitConfirm(a, p) ==
    LET r == subject[a] IN
    /\ pc[a] = "confirm"
    /\ \A q \in Plans : q \in Made <=> q < p
    /\ planRun' = [planRun EXCEPT ![p] = r]
    /\ plan' = [plan EXCEPT ![p] = "CONFIRMED"]
    /\ order' = [o \in Orders |-> IF o \in Candidate[r] THEN "CONFIRMED" ELSE order[o]]
    /\ confirmed' = confirmed \cup {r}
    /\ Enqueue("confirmed", p)
    /\ older' = [older EXCEPT ![p] = found[a]]
    /\ Close(a)
    /\ UNCHANGED <<token, task, work, workerVars, overtaken>>

(* The request is recorded in the plan's status, for the worker to answer. *)
CommitRequest(a, kind, requested, topic) ==
    LET p == subject[a] IN
    /\ pc[a] = kind
    /\ plan' = [plan EXCEPT ![p] = requested]
    /\ Enqueue(topic, p)
    /\ Close(a)
    /\ UNCHANGED <<order, confirmed, planRun, token, task, work, workerVars, history>>

CommitPublish(a) == CommitRequest(a, "publish", "PUBLISH_REQUESTED", "publish_requested")

(* Mutant: the plan is CANCELLED before the worker has looked at its task. *)
CommitCancelAtOnce(a) == CommitRequest(a, "cancel", "CANCELLED", "cancellation_requested")

CommitCancel(a) == CommitRequest(a, "cancel", "CANCELLATION_REQUESTED", "cancellation_requested")

(* A uniqueness violation (idempotency record, plan_no) or a failure.      *)
Rollback(a) ==
    /\ pc[a] # "idle"
    /\ Close(a)
    /\ UNCHANGED <<rows, outbox, work, workerVars, history>>

----------------------------------------------------------------------------
(* The other side: a driver accepts, picks up and carries, the stores      *)
(* sign.  The task is loaded and checked first; the commit writes the new  *)
(* status over whatever the row has become since.                          *)

Load(d, p) ==
    /\ work[d] = NoWork
    /\ task[p] \in {"PUBLISHED", "DRIVER_ACCEPTED", "PICKED_UP"}
    /\ work' = [work EXCEPT ![d] = [plan |-> p, task |-> task[p]]]
    /\ UNCHANGED <<rows, outbox, adminVars, workerVars, history>>

Move(d, from, to) ==
    /\ work[d].plan # NoPlan /\ work[d].task = from
    /\ task' = [task EXCEPT ![work[d].plan] = to]
    /\ work' = [work EXCEPT ![d] = NoWork]
    /\ UNCHANGED <<order, confirmed, planRun, plan, token, adminVars, workerVars, history>>

Accept(d) == Move(d, "PUBLISHED", "DRIVER_ACCEPTED") /\ Enqueue("driver_accepted", work[d].plan)
Pickup(d) == Move(d, "DRIVER_ACCEPTED", "PICKED_UP") /\ UNCHANGED outbox

(* PICKED_UP stands for every status from there to STORE_SIGNED: transit,  *)
(* deliveries and the signatures before the last one.                      *)
Carry(d) == Move(d, "PICKED_UP", "PICKED_UP") /\ UNCHANGED outbox
Sign(d)  == Move(d, "PICKED_UP", "COMPLETED") /\ Enqueue("completed", work[d].plan)

(* A failure, a uniqueness violation, or a step that leaves the status.    *)
GiveUp(d) ==
    /\ work[d] # NoWork
    /\ work' = [work EXCEPT ![d] = NoWork]
    /\ UNCHANGED <<rows, outbox, adminVars, workerVars, history>>

(* scheduler.py clears the QR token of a plan whose two days are over.     *)
ExpireToken(p) ==
    /\ token[p]
    /\ token' = [token EXCEPT ![p] = FALSE]
    /\ UNCHANGED <<order, confirmed, planRun, plan, task, outbox, adminVars, work, workerVars, history>>

----------------------------------------------------------------------------
(* The worker.                                                             *)

(* The first pending events, at most Limit of them.                        *)
Pending == {i \in DOMAIN outbox : outbox[i].status = "PENDING"}

Poll ==
    /\ batch = {} /\ current = 0 /\ Pending # {}
    /\ batch' = {i \in Pending : Cardinality({j \in Pending : j < i}) < Limit}
    /\ UNCHANGED <<rows, outbox, adminVars, work, current, loaded, faults, history>>

(* The next event is locked; its plan and task are loaded.                 *)
Take ==
    /\ current = 0
    /\ \E i \in batch :
        /\ \A j \in batch : i <= j
        /\ current' = i
        /\ loaded' = RowOf(outbox[i].plan)
        /\ batch' = batch \ {i}
    /\ UNCHANGED <<rows, outbox, adminVars, work, faults, history>>

Cancellable == {"CONFIRMED", "PUBLISHED", "DRIVER_ACCEPTED"}

(* What the transaction turns a row into.                                  *)
Updated(status, shown, taskStatus) == [plan |-> status, token |-> shown, task |-> taskStatus]

CreateTask(row) ==
    IF row.task # "NONE" THEN row ELSE Updated("READY", row.token, "CONFIRMED")

PublishTask(row) ==
    IF row.plan = "PUBLISHED" THEN row ELSE Updated("PUBLISHED", TRUE, "PUBLISHED")

(* Mutants: a cargo that is on board is forgotten, or no answer is given,  *)
(* or an answer of another vocabulary.                                     *)
CancelTaskOnBoard(row) ==
    IF row.plan = "CANCELLED" THEN row
    ELSE IF row.task \in Cancellable THEN Updated("CANCELLED", FALSE, "CANCELLED")
    ELSE Updated("CANCELLED", FALSE, row.task)

CancelTaskSilent(row) ==
    IF row.plan = "CANCELLED" THEN row
    ELSE IF row.task = "NONE" THEN Updated("CANCELLED", FALSE, "NONE")
    ELSE IF row.task \in Cancellable THEN Updated("CANCELLED", FALSE, "CANCELLED")
    ELSE row

CancelTaskRejected(row) ==
    IF row.plan = "CANCELLED" THEN row
    ELSE IF row.task \in Cancellable THEN Updated("CANCELLED", FALSE, "CANCELLED")
    ELSE Updated("REJECTED", row.token, row.task)

CancelTask(row) ==
    IF row.plan = "CANCELLED" THEN row
    ELSE IF row.task = "NONE" THEN Updated("CANCELLED", FALSE, "NONE")
    ELSE IF row.task \in Cancellable THEN Updated("CANCELLED", FALSE, "CANCELLED")
    ELSE Updated("CANCELLATION_REJECTED", row.token, row.task)

Handled(topic, row) ==
    CASE topic = "confirmed"              -> CreateTask(row)
      [] topic = "publish_requested"      -> PublishTask(row)
      [] topic = "cancellation_requested" -> CancelTask(row)
      [] topic = "driver_accepted"        -> Updated(row.plan, FALSE, row.task)
      [] topic = "completed"              -> row

(* Mutant: that the task exists is all that is asked of it.                *)
RaisesWithoutTask(topic, row) ==
    topic = "publish_requested" /\ row.plan # "PUBLISHED" /\ row.task = "NONE"

(* _publish_execution_task raises when the task is not ready.              *)
Raises(topic, row) ==
    topic = "publish_requested" /\ row.plan # "PUBLISHED" /\ row.task # "CONFIRMED"

(* Mutant: the orders are cancelled only when a driver was involved.       *)
NewOrdersPublished(topic, p, row) ==
    IF topic = "cancellation_requested" /\ row.plan # "CANCELLED"
        /\ row.task \in Cancellable \ {"CONFIRMED"}
    THEN [o \in Orders |-> IF o \in Candidate[planRun[p]] THEN "CANCELLED" ELSE order[o]]
    ELSE order

(* The orders a cancellation takes with it.  The event of a signature has  *)
(* no status in its payload, so that no event completes the orders.        *)
NewOrders(topic, p, row) ==
    IF topic = "cancellation_requested" /\ row.plan # "CANCELLED" /\ row.task \in Cancellable
    THEN [o \in Orders |-> IF o \in Candidate[planRun[p]] THEN "CANCELLED" ELSE order[o]]
    ELSE order

(* A column an UPDATE names only when its new value is not the loaded one. *)
Written(f, p, old, new) == IF old = new THEN f ELSE [f EXCEPT ![p] = new]

(* The end of the transaction.  The attempts of a settled event, which     *)
(* nobody reads again, are forgotten.                                      *)
Done(status, attempts) ==
    /\ outbox' = [outbox EXCEPT ![current] = [topic |-> @.topic, plan |-> @.plan,
                                              status |-> status, attempts |-> attempts]]
    /\ current' = 0
    /\ loaded' = NoRow
    /\ UNCHANGED batch

Handle ==
    LET e == outbox[current]  new == Handled(e.topic, loaded) IN
    /\ current # 0
    /\ ~Raises(e.topic, loaded)
    /\ plan' = Written(plan, e.plan, loaded.plan, new.plan)
    /\ token' = Written(token, e.plan, loaded.token, new.token)
    /\ task' = Written(task, e.plan, loaded.task, new.task)
    /\ order' = NewOrders(e.topic, e.plan, loaded)
    /\ Done("PUBLISHED", 0)
    /\ overtaken' = IF new.task = "CANCELLED" /\ \E d \in Drivers : work[d].plan = e.plan
                    THEN overtaken \cup {e.plan} ELSE overtaken
    /\ UNCHANGED <<confirmed, planRun, adminVars, work, faults, older>>

(* Mutant: the rollback takes the counter back with it.                    *)
CountAttemptLost ==
    /\ current # 0
    /\ Done("PENDING", outbox[current].attempts)
    /\ UNCHANGED <<rows, adminVars, work, history>>

(* The attempt is counted; the last one makes a dead letter of the event.  *)
CountAttempt ==
    LET attempts == outbox[current].attempts + 1 IN
    /\ current # 0
    /\ IF attempts >= MaxAttempts THEN Done("DEAD", 0) ELSE Done("PENDING", attempts)
    /\ UNCHANGED <<rows, adminVars, work, history>>

Reject ==
    /\ current # 0 /\ Raises(outbox[current].topic, loaded)
    /\ CountAttempt
    /\ UNCHANGED faults

(* A database error in the transaction of the event.                       *)
Fail ==
    /\ faults < MaxFaults
    /\ faults' = faults + 1
    /\ CountAttempt

(* The process dies and systemd starts it again: what it polled is lost.   *)
Crash ==
    /\ faults < MaxFaults /\ (batch # {} \/ current # 0)
    /\ faults' = faults + 1
    /\ batch' = {} /\ current' = 0 /\ loaded' = NoRow
    /\ UNCHANGED <<rows, outbox, adminVars, work, history>>

Worker == Poll \/ Take \/ Handle \/ Reject

Next ==
    \/ \E a \in Admins :
        \/ \E r \in Runs : OpenConfirm(a, r)
        \/ \E p \in Plans : OpenPublish(a, p) \/ OpenCancel(a, p) \/ CommitConfirm(a, p)
        \/ CommitPublish(a) \/ CommitCancel(a) \/ Rollback(a)
    \/ \E d \in Drivers :
        \/ \E p \in Plans : Load(d, p)
        \/ Accept(d) \/ Pickup(d) \/ Carry(d) \/ Sign(d) \/ GiveUp(d)
    \/ \E p \in Plans : ExpireToken(p)
    \/ Worker \/ Fail \/ Crash

Spec == Init /\ [][Next]_vars

(* The worker polls for ever, and systemd restarts it when it fails.        *)
FairSpec == Spec /\ WF_vars(Worker)

----------------------------------------------------------------------------
(* Properties.                                                             *)

(* The two services agree on what a plan became, however administrators,   *)
(* worker and drivers interleave: the plan of a task that nobody published *)
(* or that was cancelled does not show PUBLISHED, and a CANCELLED plan     *)
(* shows no QR code and leaves no task behind that somebody could still    *)
(* work on, unless a driver's transaction on it was under way while the    *)
(* worker cancelled it.                                                    *)
TaskFollowsPlan ==
    \A p \in Plans :
        /\ plan[p] = "PUBLISHED"
            => task[p] \in {"PUBLISHED", "DRIVER_ACCEPTED", "PICKED_UP", "COMPLETED"}
        /\ plan[p] = "CANCELLED"
            => ~token[p] /\ (task[p] \in {"NONE", "CANCELLED"} \/ p \in overtaken)

Rank == [NONE |-> 0, CONFIRMED |-> 1, PUBLISHED |-> 2, DRIVER_ACCEPTED |-> 3,
         PICKED_UP |-> 4, COMPLETED |-> 5, CANCELLED |-> 6]

(* What the worker's transaction has loaded and not locked still tells it  *)
(* what it needs to create and to publish: nobody else takes a task out of *)
(* NONE or CONFIRMED, and nobody else makes a plan PUBLISHED or CANCELLED  *)
(* or has it show a QR code.                                               *)
LoadedStillHolds ==
    current # 0 =>
        LET p == outbox[current].plan IN
        /\ loaded.task \in {"NONE", "CONFIRMED"} => task[p] = loaded.task
        /\ plan[p] \in {"PUBLISHED", "CANCELLED"} => loaded.plan = plan[p]
        /\ token[p] => loaded.token

(* The step that ends a transaction which read another status of the task  *)
(* than the one it now writes over.                                        *)
CommitsOldRead(p) ==
    \/ \E d \in Drivers : work'[d] # work[d] /\ work[d].plan = p /\ work[d].task # task[p]
    \/ /\ current # 0 /\ current' = 0
       /\ outbox[current].plan = p /\ loaded.task # task[p]

(* However often a plan is published, its creation retried or its request  *)
(* repeated, its task never goes back to a status it has left and is never *)
(* cancelled with the cargo on board, except by the one commit that writes *)
(* over a status it has not read.                                          *)
TaskNeverGoesBack ==
    [][\A p \in Plans :
        \/ /\ Rank[task[p]] <= Rank[task'[p]]
           /\ task'[p] = "CANCELLED" => task[p] \in Cancellable \cup {"CANCELLED"}
        \/ CommitsOldRead(p)]_vars

(* The worker gives an answer to every event: whatever fails, an event is  *)
(* handled or, after MaxAttempts attempts, a dead letter, and an event     *)
(* that cannot be handled never blocks the ones behind it.                 *)
EventsSettle ==
    \A i \in 1..MaxEvents :
        (i \in DOMAIN outbox /\ outbox[i].status = "PENDING")
            ~> (i \in DOMAIN outbox /\ outbox[i].status # "PENDING")

(* A cancellation that was accepted (202) gets its answer, in whatever     *)
(* order the events come, as long as none fails MaxAttempts times.         *)
CancelAnswered ==
    \A p \in Plans :
        plan[p] = "CANCELLATION_REQUESTED"
            ~> plan[p] \in {"CANCELLED", "CANCELLATION_REJECTED"}

Share(p, q) == Candidate[planRun[p]] \cap Candidate[planRun[q]] # {}

(* b01/main.py: a run is confirmed once and only DRAFT orders are planned. *)
(* Nothing but the reads says so; still two plans share an order only if   *)
(* their confirmations overlapped, each having checked the orders before   *)
(* the other's commit, whatever was cancelled, retried or failed between.  *)
OrderInOnePlan ==
    \A p, q \in Made : p # q /\ Share(p, q) => p \notin older[q] /\ q \notin older[p]

(* The orders of a cancelled task are cancelled with it and stay so, but   *)
(* for one that a plan made beside this one has taken.                     *)
OrdersFollowCancel ==
    \A p \in Plans :
        plan[p] = "CANCELLED" /\ task[p] = "CANCELLED"
            => \A o \in Candidate[planRun[p]] :
                \/ order[o] = "CANCELLED"
                \/ \E q \in Made \ {p} : o \in Candidate[planRun[q]] /\ p \notin older[q]

----------------------------------------------------------------------------
(* What the documents say and the code does not do.                        *)

(* CCRC_MIGRATION_GUIDE.md: the outcome of a delivery goes back from B02   *)
(* to B01 through the outbox and the worker.  Once the event of the last   *)
(* signature is handled, the orders of the plan are COMPLETED.             *)
OrdersComplete ==
    \A i \in DOMAIN outbox :
        outbox[i].topic = "completed" /\ outbox[i].status = "PUBLISHED"
            => \A o \in Candidate[planRun[outbox[i].plan]] : order[o] = "COMPLETED"

(* test_cancellation.py: a plan whose cancellation was carried out ends in *)
(* CANCELLED; the worker does not make it READY for publication again.     *)
CancelledNotRevived ==
    [][\A p \in Plans : plan[p] = "CANCELLED" => plan'[p] # "READY"]_vars
=============================================================================
