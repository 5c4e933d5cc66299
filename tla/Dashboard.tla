------------------------------ MODULE Dashboard ------------------------------
(***************************************************************************)
(* The dashboard projection: one row, rebuilt from the business tables and *)
(* overwritten as a whole.  The worker rebuilds it in the transaction of   *)
(* every event it handles; the scheduler's daily job does, and, outside    *)
(* production, so does every request that reads it (the refreshers).       *)
(*                                                                         *)
(* A builder reads table after table, each in a statement of its own that  *)
(* sees what is committed by then, and what its own session has flushed or *)
(* changed: the session does not flush by itself, so that the worker reads *)
(* a task it has just made (flushed for its id) without its stops.         *)
(*                                                                         *)
(* A plan has one order and at most one task, which share its name.  A     *)
(* report is authorised for the dashboard or not; sums, names and places   *)
(* are left out: they are functions of the rows that were read.            *)
(***************************************************************************)
EXTENDS Integers, Sequences, FiniteSets

CONSTANTS
    Plans,
    Reports, Authorised,
    Alerts,
    Agendas,        \* bound: what may happen in one behaviour, sets of plans, reports, alerts
    Refreshers,     \* builders besides the worker
    MaxAttempts,    \* 5 in the code
    MaxEvents,      \* bound on the outbox
    MaxFaults       \* bound on failures and crashes

ASSUME DashboardAssumption ==
    /\ Authorised \subseteq Reports
    /\ "worker" \notin Refreshers
    /\ MaxAttempts \in Nat \ {0} /\ MaxEvents \in Nat /\ MaxFaults \in Nat

Builders == Refreshers \cup {"worker"}

VARIABLES
    agenda,     \* the plans, reports and alerts of this behaviour
    order,      \* transport_orders.status
    task,       \* transport_tasks.status, "NONE" where there is none
    stops,      \* the tasks that have their stops
    reports,    \* the daily reports
    alert,      \* alerts.status, "NONE" before it is opened
    outbox,     \* [topic, about, status, attempts]
    projection, \* the snapshots of the one row: none, or one
    step,       \* step[b]   what builder b does next
    batch,      \* the events the worker has still to take of those it has polled
    event,      \* the event the worker has locked, or 0
    read,       \* read[b]   what b has read so far
    loaded,     \* loaded[b] the row of the projection as b has found it
    writer,     \* history: who wrote the snapshot last
    faults

tables == <<agenda, order, task, stops, reports, alert>>
vars == <<tables, outbox, projection, batch, step, event, read, loaded, writer, faults>>

OrderStatus == {"DRAFT", "CONFIRMED", "CANCELLED"}
TaskStatus == {"NONE", "CONFIRMED", "CANCELLED"}
AlertStatus == {"NONE", "OPEN", "RESOLVED"}
Topic == {"plan.confirmed", "cancellation", "task.confirmed", "task.cancelled",
          "report", "alert"}

Event == [topic : Topic, about : Plans \cup Reports \cup Alerts,
          status : {"PENDING", "PUBLISHED", "DEAD"}, attempts : 0..MaxAttempts]

Rows == [reports : SUBSET Authorised, task : [Plans -> TaskStatus], stops : SUBSET Plans,
         alert : [Alerts -> AlertStatus], order : [Plans -> OrderStatus]]

TypeOK ==
    /\ order \in [Plans -> OrderStatus] /\ task \in [Plans -> TaskStatus]
    /\ stops \subseteq Plans /\ reports \subseteq Reports
    /\ alert \in [Alerts -> AlertStatus]
    /\ outbox \in Seq(Event)
    /\ Cardinality(projection) <= 1
    /\ batch \subseteq DOMAIN outbox /\ event \in DOMAIN outbox \cup {0}
    /\ step \in [Builders -> {"idle", "reports", "tasks", "stops", "alerts", "orders",
                             "row", "commit"}]
    /\ read \in [Builders -> Rows]
    /\ \A b \in Builders : Cardinality(loaded[b]) <= 1
    /\ writer \in Builders \cup {"nobody"}
    /\ faults \in 0..MaxFaults

Nothing == [reports |-> {}, task |-> [p \in Plans |-> "NONE"], stops |-> {},
            alert |-> [a \in Alerts |-> "NONE"], order |-> [p \in Plans |-> "DRAFT"]]

Init ==
    /\ agenda \in Agendas
    /\ order = [p \in Plans |-> "DRAFT"]
    /\ task = [p \in Plans |-> "NONE"]
    /\ stops = {} /\ reports = {}
    /\ alert = [a \in Alerts |-> "NONE"]
    /\ outbox = <<>>
    /\ projection = {}
    /\ step = [b \in Builders |-> "idle"]
    /\ batch = {} /\ event = 0
    /\ read = [b \in Builders |-> Nothing]
    /\ loaded = [b \in Builders |-> {}]
    /\ writer = "nobody"
    /\ faults = 0

----------------------------------------------------------------------------
(* The transactions of the two services: a change and its event.           *)

Pending(topic, about) == [topic |-> topic, about |-> about, status |-> "PENDING", attempts |-> 0]

Announce(topic, about) ==
    /\ Len(outbox) < MaxEvents
    /\ outbox' = Append(outbox, Pending(topic, about))
    /\ UNCHANGED <<projection, batch, step, event, read, loaded, writer, faults>>

Confirm(p) ==
    /\ p \in agenda /\ order[p] = "DRAFT"
    /\ order' = [order EXCEPT ![p] = "CONFIRMED"]
    /\ Announce("plan.confirmed", p)
    /\ UNCHANGED <<agenda, task, stops, reports, alert>>

Asked(topic, p) == \E i \in DOMAIN outbox : outbox[i].topic = topic /\ outbox[i].about = p

RequestCancel(p) ==
    /\ Asked("plan.confirmed", p) /\ ~Asked("cancellation", p)
    /\ Announce("cancellation", p)
    /\ UNCHANGED tables

Report(r) ==
    /\ r \in agenda \ reports
    /\ reports' = reports \cup {r}
    /\ Announce("report", r)
    /\ UNCHANGED <<agenda, order, task, stops, alert>>

MoveAlert(a) ==
    /\ a \in agenda /\ alert[a] # "RESOLVED"
    /\ alert' = [alert EXCEPT ![a] = IF @ = "NONE" THEN "OPEN" ELSE "RESOLVED"]
    /\ Announce("alert", a)
    /\ UNCHANGED <<agenda, order, task, stops, reports>>

----------------------------------------------------------------------------
(* The builders.                                                           *)

(* The worker polls, then takes the events it has found one by one; one    *)
(* that fails waits for the next poll, behind the others.                  *)
Poll ==
    /\ batch = {} /\ event = 0
    /\ batch' = {i \in DOMAIN outbox : outbox[i].status = "PENDING"}
    /\ batch' # {}
    /\ UNCHANGED <<tables, outbox, projection, step, event, read, loaded, writer, faults>>

(* It locks the event and handles it: what it does to a plan stays in its  *)
(* session, save the new task, until the commit.                           *)
Take ==
    /\ event = 0
    /\ \E i \in batch :
        /\ \A j \in batch : i <= j
        /\ event' = i
        /\ batch' = batch \ {i}
    /\ step' = [step EXCEPT !["worker"] = "reports"]
    /\ UNCHANGED <<tables, outbox, projection, read, loaded, writer, faults>>

StartJob(b) ==
    /\ b \in Refreshers /\ step[b] = "idle"
    /\ step' = [step EXCEPT ![b] = "reports"]
    /\ UNCHANGED <<tables, outbox, projection, batch, event, read, loaded, writer, faults>>

Handles(b, topic, p) ==
    b = "worker" /\ event # 0 /\ outbox[event].topic = topic /\ outbox[event].about = p

Creates(b, p) == Handles(b, "plan.confirmed", p) /\ task[p] = "NONE"
Cancels(b, p) == Handles(b, "cancellation", p) /\ task[p] = "CONFIRMED"

(* Tasks and orders as the session of b shows them.                        *)
TaskSeen(b) == [p \in Plans |-> IF Creates(b, p) THEN "CONFIRMED"
                                ELSE IF Cancels(b, p) THEN "CANCELLED" ELSE task[p]]
OrderSeen(b) == [p \in Plans |-> IF Cancels(b, p) THEN "CANCELLED" ELSE order[p]]

Read(b, this, next, new) ==
    /\ step[b] = this
    /\ step' = [step EXCEPT ![b] = next]
    /\ read' = [read EXCEPT ![b] = new]
    /\ UNCHANGED <<tables, outbox, projection, batch, event, loaded, writer, faults>>

ReadReports(b) ==
    Read(b, "reports", "tasks", [read[b] EXCEPT !.reports = reports \cap Authorised])

(* Mutant: the stops are read before the tasks.                            *)
ReadTasksStopsFirst(b) ==
    \/ /\ "stops early" \notin DOMAIN read[b]
       /\ Read(b, "tasks", "tasks", [x \in DOMAIN read[b] \cup {"stops early"} |->
                                        IF x = "stops early" THEN stops ELSE read[b][x]])
    \/ /\ "stops early" \in DOMAIN read[b]
       /\ Read(b, "tasks", "alerts", [x \in DOMAIN Nothing |->
                CASE x = "stops" -> read[b]["stops early"] [] x = "task" -> TaskSeen(b)
                  [] OTHER -> read[b][x]])

(* Mutant: the builder does not see the task its own session has made.     *)
ReadTasksCommitted(b) == Read(b, "tasks", "stops", [read[b] EXCEPT !.task = task])

ReadTasks(b) == Read(b, "tasks", "stops", [read[b] EXCEPT !.task = TaskSeen(b)])
ReadStops(b) == Read(b, "stops", "alerts", [read[b] EXCEPT !.stops = stops])
ReadAlerts(b) == Read(b, "alerts", "orders", [read[b] EXCEPT !.alert = alert])
ReadOrders(b) == Read(b, "orders", "row", [read[b] EXCEPT !.order = OrderSeen(b)])

(* Mutant: the row is never looked up.                                     *)
FindRowNever(b) ==
    /\ step[b] = "row"
    /\ step' = [step EXCEPT ![b] = "commit"]
    /\ UNCHANGED <<tables, outbox, projection, batch, event, read, loaded, writer, faults>>

FindRow(b) ==
    /\ step[b] = "row"
    /\ step' = [step EXCEPT ![b] = "commit"]
    /\ loaded' = [loaded EXCEPT ![b] = projection]
    /\ UNCHANGED <<tables, outbox, projection, batch, event, read, writer, faults>>

(* What is shown of what was read: an order counts as a preorder while it  *)
(* is CONFIRMED, or if there is a task for it.                             *)
Routes(rows) == [p \in {q \in Plans : rows.task[q] # "NONE"} |->
                    [status |-> rows.task[p], complete |-> p \in rows.stops]]

Preorders(rows) == {p \in Plans : rows.order[p] = "CONFIRMED" \/ rows.task[p] # "NONE"}

Snapshot(rows) ==
    [reports |-> rows.reports, routes |-> Routes(rows), preorders |-> Preorders(rows),
     active |-> {p \in Plans : rows.task[p] \notin {"NONE", "CANCELLED"}},
     alerts |-> {a \in Alerts : rows.alert[a] # "NONE"},
     open |-> {a \in Alerts : rows.alert[a] = "OPEN"}]

Stop(b) ==
    /\ step' = [step EXCEPT ![b] = "idle"]
    /\ read' = [read EXCEPT ![b] = Nothing]
    /\ loaded' = [loaded EXCEPT ![b] = {}]
    /\ event' = IF b = "worker" THEN 0 ELSE event

(* The row is inserted, or updated whatever its version is by now; but the *)
(* UPDATE leaves the snapshot out if it is the one that was loaded.  A     *)
(* second insertion violates the primary key.                              *)
Write(b) ==
    LET new == Snapshot(read[b]) IN
    /\ step[b] = "commit"
    /\ loaded[b] # {} \/ projection = {}
    /\ IF loaded[b] = {new} THEN UNCHANGED <<projection, writer>>
       ELSE projection' = {new} /\ writer' = b

Refresh(b) ==
    /\ b \in Refreshers
    /\ Write(b)
    /\ Stop(b)
    /\ UNCHANGED <<tables, outbox, batch, faults>>

Settled(e, status) == [topic |-> e.topic, about |-> e.about, status |-> status,
                       attempts |-> e.attempts + 1]

(* The events a handler adds.                                              *)
Follows(e) ==
    IF Creates("worker", e.about) THEN <<Pending("task.confirmed", e.about)>>
    ELSE IF Cancels("worker", e.about) THEN <<Pending("task.cancelled", e.about)>>
    ELSE <<>>

Handle ==
    LET e == outbox[event] IN
    /\ Write("worker")
    /\ task' = TaskSeen("worker")
    /\ order' = OrderSeen("worker")
    /\ stops' = stops \cup {p \in Plans : Creates("worker", p)}
    /\ outbox' = [outbox EXCEPT ![event] = Settled(e, "PUBLISHED")] \o Follows(e)
    /\ Stop("worker")
    /\ UNCHANGED <<agenda, reports, alert, batch, faults>>

(* Mutant: an event is tried for ever.                                     *)
CountAttemptForever ==
    /\ outbox' = [outbox EXCEPT ![event] = Settled(outbox[event], "PENDING")]
    /\ Stop("worker")
    /\ UNCHANGED <<tables, batch, projection, writer>>

CountAttempt ==
    LET e == outbox[event] IN
    /\ outbox' = [outbox EXCEPT ![event] =
            Settled(e, IF e.attempts + 1 >= MaxAttempts THEN "DEAD" ELSE "PENDING")]
    /\ Stop("worker")
    /\ UNCHANGED <<tables, batch, projection, writer>>

GiveUp(b) == Stop(b) /\ UNCHANGED <<tables, outbox, projection, batch, writer>>

(* Both have found no row and one has inserted it: the worker counts an    *)
(* attempt of its event, the scheduler's job fails with all it has done.   *)
Collide(b) ==
    /\ step[b] = "commit" /\ loaded[b] = {} /\ projection # {}
    /\ IF b = "worker" THEN CountAttempt ELSE GiveUp(b)
    /\ UNCHANGED faults

(* A statement fails, or the process dies.                                 *)
Fail(b) ==
    /\ step[b] # "idle" /\ faults < MaxFaults
    /\ faults' = faults + 1
    /\ IF b = "worker" THEN CountAttempt \/ GiveUp(b) ELSE GiveUp(b)

Build(b) ==
    \/ ReadReports(b) \/ ReadTasks(b) \/ ReadStops(b) \/ ReadAlerts(b) \/ ReadOrders(b)
    \/ FindRow(b) \/ Collide(b)

Next ==
    \/ \E p \in Plans : Confirm(p) \/ RequestCancel(p)
    \/ \E r \in Reports : Report(r)
    \/ \E a \in Alerts : MoveAlert(a)
    \/ Poll \/ Take \/ Handle
    \/ \E b \in Builders : StartJob(b) \/ Build(b) \/ Refresh(b) \/ Fail(b)

Spec == Init /\ [][Next]_vars

(* The worker polls for ever; the timer starts the job every day.          *)
FairSpec ==
    /\ Spec
    /\ WF_vars(Poll \/ Take \/ Build("worker") \/ Handle)
    /\ \A b \in Refreshers : WF_vars(StartJob(b) \/ Build(b) \/ Refresh(b))

----------------------------------------------------------------------------
(* What a reader of the projection may rely on.                            *)

Told(s, e) ==
    CASE e.topic = "plan.confirmed" -> e.about \in s.preorders /\ e.about \in DOMAIN s.routes
      [] e.topic = "task.confirmed" -> e.about \in DOMAIN s.routes /\ s.routes[e.about].complete
      [] e.topic = "task.cancelled" -> e.about \in DOMAIN s.routes
                                       /\ s.routes[e.about].status = "CANCELLED"
      [] e.topic = "report" -> e.about \in s.reports <=> e.about \in Authorised
      [] e.topic = "alert" -> e.about \in s.alerts
      [] OTHER -> TRUE

(* What the worker leaves shows all that it has handled, although it read  *)
(* while others committed and may not have flushed what it did itself.     *)
(* What a refresher leaves need not: it overwrites without a look at the   *)
(* version, with what it may have read before, and a worker that found the *)
(* snapshot it would write does not write it again.                        *)
HandledIsShown ==
    writer = "worker" =>
        \A i \in DOMAIN outbox, s \in projection :
            outbox[i].status = "PUBLISHED" => Told(s, outbox[i])

(* A route without its stops is shown by the worker that has just made the *)
(* task, and only until the event of the task is handled or dead.          *)
NakedRoutePending ==
    \A s \in projection : \A p \in DOMAIN s.routes :
        ~s.routes[p].complete =>
            \E i \in DOMAIN outbox : /\ outbox[i].topic = "task.confirmed"
                                     /\ outbox[i].about = p
                                     /\ outbox[i].status # "PUBLISHED"

Committed == [reports |-> reports \cap Authorised, task |-> task, stops |-> stops,
              alert |-> alert, order |-> order]

(* Once nothing changes any more the projection shows what there is, for   *)
(* good: no stale builder has the last word.                               *)
Converges == <>[](projection = {Snapshot(Committed)})
=============================================================================
