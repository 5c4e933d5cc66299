--------------------------- MODULE DashboardProofs ---------------------------
(***************************************************************************)
(* Safety of Dashboard for any plans, reports, alerts, refreshers and      *)
(* bounds, whatever the interleaving of the builders.                      *)
(***************************************************************************)
EXTENDS Dashboard, FiniteSetTheorems, TLAPS

----------------------------------------------------------------------------
(* The inductive invariant.                                                *)

AfterAlerts  == {"orders", "row", "commit"}
AfterStops   == {"alerts"} \cup AfterAlerts
AfterTasks   == {"stops"} \cup AfterStops
AfterReports == {"tasks"} \cup AfterTasks

(* What an event announces has happened: a report is made, an alert opened,*)
(* a task made or cancelled.                                               *)
Happened(e) ==
    /\ e.topic \in {"plan.confirmed", "cancellation"} => e.about \in Plans
    /\ e.topic = "plan.confirmed" /\ e.status = "PUBLISHED" => task[e.about] # "NONE"
    /\ e.topic = "task.confirmed" => e.about \in Plans /\ task[e.about] # "NONE"
    /\ e.topic = "task.cancelled" => e.about \in Plans /\ task[e.about] = "CANCELLED"
    /\ e.topic = "report" => e.about \in reports
    /\ e.topic = "alert" => e.about \in Alerts /\ alert[e.about] # "NONE"

AllHappened == \A i \in DOMAIN outbox : Happened(outbox[i])

(* The worker's poll: what it has still to handle is pending and can be    *)
(* tried once more, and it builds exactly while it handles an event.       *)
QueueInv ==
    /\ \A i \in DOMAIN outbox : outbox[i].status = "PENDING" => outbox[i].attempts < MaxAttempts
    /\ \A i \in batch : outbox[i].status = "PENDING" /\ i # event
    /\ event # 0 => outbox[event].status = "PENDING"
    /\ event # 0 <=> step["worker"] # "idle"

(* A task is committed with its stops.                                     *)
StopsInv == \A p \in Plans : task[p] # "NONE" => p \in stops

(* The events the snapshot the worker builds will answer for.              *)
Answered == {i \in DOMAIN outbox : outbox[i].status = "PUBLISHED" \/ i = event}

Complete(s) == \A p \in DOMAIN s.routes : s.routes[p].complete

(* The worker has read the tasks and stops as they still are, and reports  *)
(* and alerts late enough; if the row is not the one it has found, then a  *)
(* refresher wrote it in the meantime.                                     *)
WorkerInv ==
    LET rows == read["worker"]  at == step["worker"] IN
    /\ at \in AfterReports =>
        \A i \in Answered : outbox[i].topic = "report" =>
            (outbox[i].about \in rows.reports <=> outbox[i].about \in Authorised)
    /\ at \in AfterTasks => rows.task = TaskSeen("worker")
    /\ at \in AfterStops => rows.stops = stops
    /\ at \in AfterAlerts =>
        \A i \in Answered : outbox[i].topic = "alert" => rows.alert[outbox[i].about] # "NONE"
    /\ at = "commit" /\ loaded["worker"] # {} /\ projection # loaded["worker"] =>
        writer # "worker" /\ \A s \in projection : Complete(s)

(* A refresher reads the stops of every task it has read.                  *)
RefresherInv ==
    \A b \in Refreshers : \A p \in Plans :
        /\ step[b] \in AfterTasks /\ read[b].task[p] # "NONE" => p \in stops
        /\ step[b] \in AfterStops /\ read[b].task[p] # "NONE" => p \in read[b].stops

Inv ==
    /\ TypeOK /\ loaded = [b \in Builders |-> loaded[b]]
    /\ AllHappened /\ QueueInv /\ StopsInv /\ WorkerInv /\ RefresherInv
    /\ HandledIsShown /\ NakedRoutePending

----------------------------------------------------------------------------
(* Types and frames.                                                       *)

(* A builder that notes what it reads keeps the rest.                      *)
LEMMA RowsWith ==
    ASSUME NEW rows \in Rows
    PROVE  /\ \A x \in SUBSET Authorised :
                LET new == [rows EXCEPT !.reports = x]
                IN  /\ new \in Rows /\ new.reports = x /\ new.task = rows.task
                    /\ new.stops = rows.stops /\ new.alert = rows.alert
           /\ \A x \in [Plans -> TaskStatus] :
                LET new == [rows EXCEPT !.task = x]
                IN  /\ new \in Rows /\ new.reports = rows.reports /\ new.task = x
                    /\ new.stops = rows.stops /\ new.alert = rows.alert
           /\ \A x \in SUBSET Plans :
                LET new == [rows EXCEPT !.stops = x]
                IN  /\ new \in Rows /\ new.reports = rows.reports /\ new.task = rows.task
                    /\ new.stops = x /\ new.alert = rows.alert
           /\ \A x \in [Alerts -> AlertStatus] :
                LET new == [rows EXCEPT !.alert = x]
                IN  /\ new \in Rows /\ new.reports = rows.reports /\ new.task = rows.task
                    /\ new.stops = rows.stops /\ new.alert = x
           /\ \A x \in [Plans -> OrderStatus] :
                LET new == [rows EXCEPT !.order = x]
                IN  /\ new \in Rows /\ new.reports = rows.reports /\ new.task = rows.task
                    /\ new.stops = rows.stops /\ new.alert = rows.alert
  BY DEF Rows

(* The empty notes are well typed.                                         *)
LEMMA NothingType == Nothing \in Rows
  BY DEF Nothing, Rows, TaskStatus, AlertStatus, OrderStatus

(* There are at most as many rows as the primary key allows.               *)
LEMMA OneRow == Cardinality({}) <= 1 /\ \A x : Cardinality({x}) <= 1
  BY FS_EmptySet, FS_Singleton

(* What the session of a builder shows has the types of the tables.        *)
LEMMA SeenType ==
    ASSUME TypeOK, NEW b
    PROVE  TaskSeen(b) \in [Plans -> TaskStatus] /\ OrderSeen(b) \in [Plans -> OrderStatus]
  <1>1. task \in [Plans -> TaskStatus] /\ order \in [Plans -> OrderStatus]
    BY DEF TypeOK
  <1>2. TaskSeen(b) \in [Plans -> TaskStatus]
    BY <1>1 DEF TaskSeen, TaskStatus
  <1>3. OrderSeen(b) \in [Plans -> OrderStatus]
    BY <1>1 DEF OrderSeen, OrderStatus
  <1> QED
    BY <1>2, <1>3

(* The outbox with one more event.                                         *)
LEMMA Appended ==
    ASSUME outbox \in Seq(Event), NEW e \in Event, outbox' = Append(outbox, e)
    PROVE  /\ outbox' \in Seq(Event)
           /\ DOMAIN outbox \subseteq DOMAIN outbox'
           /\ 0 \notin DOMAIN outbox
           /\ \A i \in DOMAIN outbox' : outbox'[i] = IF i \in DOMAIN outbox THEN outbox[i] ELSE e
  OBVIOUS

(* A new event is pending.                                                 *)
LEMMA PendingType ==
    ASSUME NEW topic \in Topic, NEW about \in Plans \cup Reports \cup Alerts
    PROVE  LET e == Pending(topic, about)
           IN  /\ e \in Event /\ e.topic = topic /\ e.about = about
               /\ e.status = "PENDING" /\ e.attempts < MaxAttempts
  BY DashboardAssumption DEF Pending, Event

(* What the worker's session shows depends on the tasks and its event.     *)
LEMMA TaskSeenStays ==
    ASSUME UNCHANGED <<task, event>>, event # 0 => outbox'[event] = outbox[event]
    PROVE  TaskSeen("worker")' = TaskSeen("worker")
  BY DEF TaskSeen, Creates, Cancels, Handles

----------------------------------------------------------------------------
(* The services change a row and announce it.                              *)

(* A service that announces a change keeps the invariant, whatever the     *)
(* topic is.                                                               *)
LEMMA AnnounceStep ==
    ASSUME Inv, NEW topic \in Topic, NEW about \in Plans \cup Reports \cup Alerts,
           Announce(topic, about), UNCHANGED <<task, stops>>,
           order' \in [Plans -> OrderStatus], alert' \in [Alerts -> AlertStatus],
           reports \subseteq reports', reports' \subseteq Reports,
           \A a \in Alerts : alert[a] # "NONE" => alert'[a] # "NONE",
           Happened(Pending(topic, about))'
    PROVE  Inv'
  <1> DEFINE e == Pending(topic, about)
  <1>1. e \in Event /\ e.status = "PENDING" /\ e.attempts < MaxAttempts
    BY PendingType
  <1>2. UNCHANGED <<projection, batch, step, event, read, loaded, writer, faults>>
    BY DEF Announce
  <1> HIDE DEF e
  <1>3. TypeOK /\ outbox' = Append(outbox, e)
    BY DEF Inv, Announce, e
  <1>4. /\ outbox' \in Seq(Event) /\ DOMAIN outbox \subseteq DOMAIN outbox'
        /\ 0 \notin DOMAIN outbox
        /\ \A i \in DOMAIN outbox' : outbox'[i] = IF i \in DOMAIN outbox THEN outbox[i] ELSE e
    BY <1>1, <1>3, Appended DEF TypeOK
  <1>5. TypeOK'
    BY <1>2, <1>3, <1>4 DEF TypeOK
  <1>6. AllHappened'
    <2>1. \A x : Happened(x) => Happened(x)'
      BY DEF Happened
    <2>2. Happened(e)'
      BY DEF e
    <2>3. \A x : (\E i \in DOMAIN outbox' : x = outbox'[i]) => Happened(x)'
      BY <1>4, <2>1, <2>2 DEF Inv, AllHappened
    <2> QED
      BY <2>3 DEF AllHappened
  <1>7. QueueInv' /\ StopsInv'
    BY <1>1, <1>2, <1>3, <1>4 DEF Inv, QueueInv, StopsInv, TypeOK
  <1>8. Answered' = Answered
    BY <1>1, <1>2, <1>3, <1>4 DEF Answered, TypeOK
  <1>9. WorkerInv'
    <2>1. TaskSeen("worker")' = TaskSeen("worker")
      BY <1>2, <1>3, <1>4, TaskSeenStays DEF TypeOK
    <2>2. \A i \in Answered : outbox'[i] = outbox[i]
      BY <1>4 DEF Answered
    <2> QED
      BY <1>2, <1>8, <2>1, <2>2 DEF Inv, WorkerInv
  <1>10. RefresherInv'
    BY <1>2 DEF Inv, RefresherInv
  <1>11. HandledIsShown'
    <2>1. \A i \in DOMAIN outbox' : outbox'[i].status = "PUBLISHED" =>
                i \in DOMAIN outbox /\ outbox'[i] = outbox[i]
      BY <1>1, <1>4
    <2> QED
      BY <1>2, <2>1 DEF Inv, HandledIsShown
  <1>12. NakedRoutePending'
    <2>1. \A i \in DOMAIN outbox : i \in DOMAIN outbox' /\ outbox'[i] = outbox[i]
      BY <1>4
    <2>2. NakedRoutePending /\ projection' = projection
      BY <1>2 DEF Inv
    <2> QED
      BY <2>1, <2>2 DEF NakedRoutePending
  <1> QED
    BY <1>2, <1>5, <1>6, <1>7, <1>9, <1>10, <1>11, <1>12 DEF Inv

(* So for each of their transactions.                                      *)
LEMMA ServicesStep ==
    ASSUME Inv,
           \/ \E p \in Plans : Confirm(p) \/ RequestCancel(p)
           \/ \E r \in Reports : Report(r)
           \/ \E a \in Alerts : MoveAlert(a)
    PROVE  Inv'
  <1>1. TypeOK
    BY DEF Inv
  <1>2. ASSUME NEW p \in Plans, Confirm(p)
        PROVE  Inv'
    <2>1. order' \in [Plans -> OrderStatus] /\ UNCHANGED <<task, stops, reports, alert>>
      BY <1>1, <1>2 DEF Confirm, TypeOK, OrderStatus
    <2>2. Happened(Pending("plan.confirmed", p))'
      BY DEF Happened, Pending
    <2> QED
      BY <1>1, <1>2, <2>1, <2>2, AnnounceStep DEF Confirm, Topic, TypeOK
  <1>3. ASSUME NEW p \in Plans, RequestCancel(p)
        PROVE  Inv'
    <2>1. UNCHANGED <<order, task, stops, reports, alert>>
      BY <1>3 DEF RequestCancel, tables
    <2>2. Happened(Pending("cancellation", p))'
      BY DEF Happened, Pending
    <2> QED
      BY <1>1, <1>3, <2>1, <2>2, AnnounceStep DEF RequestCancel, Topic, TypeOK
  <1>4. ASSUME NEW r \in Reports, Report(r)
        PROVE  Inv'
    <2>1. reports' = reports \cup {r} /\ UNCHANGED <<order, task, stops, alert>>
      BY <1>4 DEF Report
    <2>2. Happened(Pending("report", r))'
      BY <2>1 DEF Happened, Pending
    <2> QED
      BY <1>1, <1>4, <2>1, <2>2, AnnounceStep DEF Report, Topic, TypeOK
  <1>5. ASSUME NEW a \in Alerts, MoveAlert(a)
        PROVE  Inv'
    <2>1. UNCHANGED <<order, task, stops, reports>>
      BY <1>5 DEF MoveAlert
    <2>2. /\ alert' \in [Alerts -> AlertStatus]
          /\ alert'[a] # "NONE" /\ \A x \in Alerts : x # a => alert'[x] = alert[x]
      BY <1>1, <1>5 DEF MoveAlert, TypeOK, AlertStatus
    <2>3. Happened(Pending("alert", a))'
      BY <2>2 DEF Happened, Pending
    <2> QED
      BY <1>1, <1>5, <2>1, <2>2, <2>3, AnnounceStep DEF MoveAlert, Topic, TypeOK
  <1> QED
    BY <1>2, <1>3, <1>4, <1>5

----------------------------------------------------------------------------
(* The builders.                                                           *)

Steps == {"idle", "reports", "tasks", "stops", "alerts", "orders", "row", "commit"}

(* While nothing is written the events, tables and snapshot keep their     *)
(* relation: only the builders' notes are to be looked at.                 *)
LEMMA QuietStep ==
    ASSUME Inv, UNCHANGED <<tables, outbox, projection, writer>>,
           TypeOK', loaded' = [b \in Builders |-> loaded'[b]],
           QueueInv', WorkerInv', RefresherInv'
    PROVE  Inv'
  BY DEF Inv, tables, AllHappened, Happened, StopsInv, HandledIsShown, NakedRoutePending

(* The worker finds what is pending, and takes the first of it.            *)
LEMMA PollStep ==
    ASSUME Inv, Poll \/ Take
    PROVE  Inv'
  <1>1. TypeOK /\ QueueInv /\ loaded = [b \in Builders |-> loaded[b]]
    BY DEF Inv
  <1>2. "worker" \in Builders /\ 0 \notin DOMAIN outbox
    BY <1>1 DEF Builders, TypeOK
  <1>3. CASE Poll
    <2>1. UNCHANGED <<tables, outbox, projection, step, event, read, loaded, writer, faults>>
      BY <1>3 DEF Poll
    <2>2. event = 0 /\ batch' = {i \in DOMAIN outbox : outbox[i].status = "PENDING"}
      BY <1>3 DEF Poll
    <2>3. TypeOK'
      BY <1>1, <2>1, <2>2 DEF TypeOK, tables
    <2>4. QueueInv'
      BY <1>1, <1>2, <2>1, <2>2 DEF QueueInv
    <2>5. WorkerInv' /\ RefresherInv'
      <3>1. TaskSeen("worker")' = TaskSeen("worker")
        BY <2>1, TaskSeenStays DEF tables
      <3> QED
        BY <2>1, <3>1 DEF Inv, WorkerInv, RefresherInv, Answered, tables
    <2> QED
      BY <1>1, <2>1, <2>3, <2>4, <2>5, QuietStep
  <1>4. CASE Take
    <2>1. UNCHANGED <<tables, outbox, projection, read, loaded, writer, faults>>
      BY <1>4 DEF Take
    <2>2. PICK i \in batch : event' = i /\ batch' = batch \ {i}
      BY <1>4 DEF Take
    <2>3. step' = [step EXCEPT !["worker"] = "reports"]
      BY <1>4 DEF Take
    <2>4. i \in DOMAIN outbox /\ i # 0
      BY <1>1, <1>2 DEF TypeOK
    <2>5. TypeOK'
      BY <1>1, <2>1, <2>2, <2>3, <2>4 DEF TypeOK, tables
    <2>6. step'["worker"] = "reports" /\ \A b \in Refreshers : step'[b] = step[b]
      BY <1>1, <1>2, <2>3, DashboardAssumption DEF TypeOK, Builders
    <2>7. QueueInv'
      BY <1>1, <2>1, <2>2, <2>4, <2>6 DEF QueueInv
    <2>8. WorkerInv'
      BY <2>6 DEF WorkerInv, AfterReports, AfterTasks, AfterStops, AfterAlerts
    <2>9. RefresherInv'
      BY <2>1, <2>6 DEF Inv, RefresherInv, tables
    <2> QED
      BY <1>1, <2>1, <2>5, <2>7, <2>8, <2>9, QuietStep
  <1> QED
    BY <1>3, <1>4

(* A job is started.                                                       *)
LEMMA JobStep ==
    ASSUME Inv, NEW b \in Builders, StartJob(b)
    PROVE  Inv'
  <1>1. TypeOK /\ QueueInv /\ loaded = [x \in Builders |-> loaded[x]]
    BY DEF Inv
  <1>2. b \in Refreshers /\ step' = [step EXCEPT ![b] = "reports"]
    BY DEF StartJob
  <1>3. UNCHANGED <<tables, outbox, projection, batch, event, read, loaded, writer, faults>>
    BY DEF StartJob
  <1>4. /\ step' \in [Builders -> Steps] /\ step'[b] = "reports"
        /\ \A x \in Builders : x # b => step'[x] = step[x]
    BY <1>1, <1>2 DEF TypeOK, Steps
  <1>5. TypeOK'
    BY <1>1, <1>3, <1>4 DEF TypeOK, tables, Steps
  <1>6. step'["worker"] = step["worker"]
    BY <1>2, <1>4, DashboardAssumption DEF Builders
  <1>7. QueueInv'
    BY <1>1, <1>3, <1>6 DEF QueueInv
  <1>8. WorkerInv'
    <2>1. TaskSeen("worker")' = TaskSeen("worker")
      BY <1>3, TaskSeenStays DEF tables
    <2> QED
      BY <1>3, <1>6, <2>1 DEF Inv, WorkerInv, Answered, tables
  <1>9. RefresherInv'
    BY <1>2, <1>3, <1>4
    DEF Inv, RefresherInv, tables, Builders, AfterTasks, AfterStops, AfterAlerts
  <1> QED
    BY <1>1, <1>3, <1>5, <1>7, <1>8, <1>9, QuietStep

(* A statement of a builder changes its own notes only.                    *)
LEMMA ReadStep ==
    ASSUME Inv, NEW b \in Builders, NEW this \in Steps \ {"idle"}, NEW next \in Steps \ {"idle"},
           NEW new \in Rows, Read(b, this, next, new),
           b = "worker" => WorkerInv',
           \A p \in Plans :
                b \in Refreshers =>
                    /\ next \in AfterTasks /\ new.task[p] # "NONE" => p \in stops
                    /\ next \in AfterStops /\ new.task[p] # "NONE" => p \in new.stops
    PROVE  Inv'
  <1>1. TypeOK /\ QueueInv /\ loaded = [x \in Builders |-> loaded[x]]
    BY DEF Inv
  <1>2. UNCHANGED <<tables, outbox, projection, batch, event, loaded, writer, faults>>
    BY DEF Read
  <1>3. /\ step' \in [Builders -> Steps] /\ step[b] = this /\ step'[b] = next
        /\ \A x \in Builders : x # b => step'[x] = step[x]
    BY <1>1 DEF Read, TypeOK, Steps
  <1>4. /\ read' \in [Builders -> Rows] /\ read'[b] = new
        /\ \A x \in Builders : x # b => read'[x] = read[x]
    BY <1>1 DEF Read, TypeOK
  <1>5. TypeOK'
    BY <1>1, <1>2, <1>3, <1>4 DEF TypeOK, tables, Steps
  <1>6. QueueInv'
    <2>1. step'["worker"] # "idle" <=> step["worker"] # "idle"
      BY <1>3 DEF Builders
    <2> QED
      BY <1>1, <1>2, <2>1 DEF QueueInv
  <1>7. WorkerInv'
    <2>1. CASE b = "worker"
      BY <2>1
    <2>2. CASE b # "worker"
      <3>1. step'["worker"] = step["worker"] /\ read'["worker"] = read["worker"]
        BY <1>3, <1>4, <2>2 DEF Builders
      <3>2. TaskSeen("worker")' = TaskSeen("worker")
        BY <1>2, TaskSeenStays DEF tables
      <3> QED
        BY <1>2, <3>1, <3>2 DEF Inv, WorkerInv, Answered, tables
    <2> QED
      BY <2>1, <2>2
  <1>8. RefresherInv'
    BY <1>2, <1>3, <1>4 DEF Inv, RefresherInv, tables, Builders
  <1> QED
    BY <1>1, <1>2, <1>5, <1>6, <1>7, <1>8, QuietStep

(* What the worker notes is right, as long as it handles the event.        *)
LEMMA WorkerReads ==
    ASSUME Inv, NEW this \in Steps \ {"idle"}, NEW next \in Steps, NEW new \in Rows,
           Read("worker", this, next, new),
           next \in AfterReports =>
                \A i \in Answered : outbox[i].topic = "report" =>
                    (outbox[i].about \in new.reports <=> outbox[i].about \in Authorised),
           next \in AfterTasks => new.task = TaskSeen("worker"),
           next \in AfterStops => new.stops = stops,
           next \in AfterAlerts =>
                \A i \in Answered : outbox[i].topic = "alert" => new.alert[outbox[i].about] # "NONE",
           next # "commit"
    PROVE  WorkerInv'
  <1>1. UNCHANGED <<tables, outbox, projection, batch, event, loaded, writer, faults>>
    BY DEF Read
  <1>2. step'["worker"] = next /\ read'["worker"] = new
    BY DEF Read, Inv, TypeOK, Builders
  <1>3. TaskSeen("worker")' = TaskSeen("worker")
    BY <1>1, TaskSeenStays DEF tables
  <1> QED
    BY <1>1, <1>2, <1>3 DEF WorkerInv, Answered, tables

(* Only the worker changes tasks in its session.                           *)
LEMMA RefreshersSee ==
    ASSUME Inv, NEW b \in Refreshers
    PROVE  TaskSeen(b) = task
  BY DashboardAssumption DEF TaskSeen, Creates, Cancels, Handles, Inv, TypeOK

(* The statements of a builder, one after the other.                       *)
LEMMA ReadsStep ==
    ASSUME Inv, NEW b \in Builders,
           \/ ReadReports(b) \/ ReadTasks(b) \/ ReadStops(b) \/ ReadAlerts(b) \/ ReadOrders(b)
    PROVE  Inv'
  <1>1. TypeOK /\ StopsInv /\ WorkerInv /\ RefresherInv /\ AllHappened
    BY DEF Inv
  <1>2. /\ b \in Refreshers <=> b # "worker"
        /\ read[b] \in Rows
    BY <1>1, DashboardAssumption DEF Builders, TypeOK
  <1>3. CASE ReadReports(b)
    <2> DEFINE new == [read[b] EXCEPT !.reports = reports \cap Authorised]
    <2>1. new \in Rows /\ new.reports = reports \cap Authorised
      BY <1>2, RowsWith
    <2>2. Read(b, "reports", "tasks", new)
      BY <1>3 DEF ReadReports
    <2> HIDE DEF new
    <2>3. \A i \in Answered : outbox[i].topic = "report" =>
                (outbox[i].about \in new.reports <=> outbox[i].about \in Authorised)
      BY <1>1, <2>1 DEF AllHappened, Happened, Answered
    <2>4. b = "worker" => WorkerInv'
      BY <2>1, <2>2, <2>3, WorkerReads DEF Steps, AfterTasks, AfterStops, AfterAlerts
    <2> QED
      BY <2>1, <2>2, <2>4, ReadStep DEF Steps, AfterTasks, AfterStops, AfterAlerts
  <1>4. CASE ReadTasks(b)
    <2> DEFINE new == [read[b] EXCEPT !.task = TaskSeen(b)]
    <2>1. new \in Rows /\ new.reports = read[b].reports /\ new.task = TaskSeen(b)
      BY <1>1, <1>2, RowsWith, SeenType
    <2>2. Read(b, "tasks", "stops", new)
      BY <1>4 DEF ReadTasks
    <2> HIDE DEF new
    <2>3. b = "worker" => WorkerInv'
      <3>1. step[b] = "tasks"
        BY <2>2 DEF Read
      <3> QED
        BY <1>1, <2>1, <2>2, <3>1, WorkerReads
        DEF Steps, WorkerInv, AfterReports, AfterTasks, AfterStops, AfterAlerts
    <2>4. \A p \in Plans : b \in Refreshers /\ new.task[p] # "NONE" => p \in stops
      BY <1>1, <2>1, RefreshersSee DEF StopsInv
    <2> QED
      BY <2>1, <2>2, <2>3, <2>4, ReadStep DEF Steps, AfterStops, AfterAlerts
  <1>5. CASE ReadStops(b)
    <2> DEFINE new == [read[b] EXCEPT !.stops = stops]
    <2>1. /\ new \in Rows /\ new.reports = read[b].reports /\ new.task = read[b].task
          /\ new.stops = stops
      <3>1. stops \in SUBSET Plans
        BY <1>1 DEF TypeOK
      <3> HIDE DEF Rows
      <3> QED
        BY <1>2, <3>1, RowsWith
    <2>2. Read(b, "stops", "alerts", new)
      BY <1>5 DEF ReadStops
    <2> HIDE DEF new
    <2>3. step[b] = "stops"
      BY <2>2 DEF Read
    <2>4. b = "worker" => WorkerInv'
      BY <1>1, <2>1, <2>2, <2>3, WorkerReads
      DEF Steps, WorkerInv, AfterReports, AfterTasks, AfterStops, AfterAlerts
    <2>5. \A p \in Plans : b \in Refreshers /\ new.task[p] # "NONE" => p \in stops
      BY <1>1, <2>1, <2>3 DEF RefresherInv, AfterTasks
    <2> QED
      BY <2>1, <2>2, <2>4, <2>5, ReadStep DEF Steps
  <1>6. CASE ReadAlerts(b)
    <2> DEFINE new == [read[b] EXCEPT !.alert = alert]
    <2>1. /\ new \in Rows /\ new.reports = read[b].reports /\ new.task = read[b].task
          /\ new.stops = read[b].stops /\ new.alert = alert
      BY <1>1, <1>2, RowsWith DEF TypeOK
    <2>2. Read(b, "alerts", "orders", new)
      BY <1>6 DEF ReadAlerts
    <2> HIDE DEF new
    <2>3. step[b] = "alerts"
      BY <2>2 DEF Read
    <2>4. \A i \in Answered : outbox[i].topic = "alert" => new.alert[outbox[i].about] # "NONE"
      BY <1>1, <2>1 DEF AllHappened, Happened, Answered
    <2>5. b = "worker" => WorkerInv'
      BY <1>1, <2>1, <2>2, <2>3, <2>4, WorkerReads
      DEF Steps, WorkerInv, AfterReports, AfterTasks, AfterStops, AfterAlerts
    <2>6. \A p \in Plans : b \in Refreshers /\ new.task[p] # "NONE" =>
                p \in stops /\ p \in new.stops
      BY <1>1, <2>1, <2>3 DEF RefresherInv, AfterTasks, AfterStops
    <2> QED
      BY <2>1, <2>2, <2>5, <2>6, ReadStep DEF Steps
  <1>7. CASE ReadOrders(b)
    <2> DEFINE new == [read[b] EXCEPT !.order = OrderSeen(b)]
    <2>1. /\ new \in Rows /\ new.reports = read[b].reports /\ new.task = read[b].task
          /\ new.stops = read[b].stops /\ new.alert = read[b].alert
      BY <1>1, <1>2, RowsWith, SeenType
    <2>2. Read(b, "orders", "row", new)
      BY <1>7 DEF ReadOrders
    <2> HIDE DEF new
    <2>3. step[b] = "orders"
      BY <2>2 DEF Read
    <2>4. b = "worker" => WorkerInv'
      BY <1>1, <2>1, <2>2, <2>3, WorkerReads
      DEF Steps, WorkerInv, AfterReports, AfterTasks, AfterStops, AfterAlerts
    <2>5. \A p \in Plans : b \in Refreshers /\ new.task[p] # "NONE" =>
                p \in stops /\ p \in new.stops
      BY <1>1, <2>1, <2>3 DEF RefresherInv, AfterTasks, AfterStops, AfterAlerts
    <2> QED
      BY <2>1, <2>2, <2>4, <2>5, ReadStep DEF Steps
  <1> QED
    BY <1>3, <1>4, <1>5, <1>6, <1>7

(* A builder that looks the row up finds it as it is.                      *)
LEMMA FindStep ==
    ASSUME Inv, NEW b \in Builders, FindRow(b)
    PROVE  Inv'
  <1>1. TypeOK /\ QueueInv /\ loaded = [x \in Builders |-> loaded[x]]
    BY DEF Inv
  <1>2. UNCHANGED <<tables, outbox, projection, batch, event, read, writer, faults>>
    BY DEF FindRow
  <1>3. /\ step' \in [Builders -> Steps] /\ step[b] = "row" /\ step'[b] = "commit"
        /\ \A x \in Builders : x # b => step'[x] = step[x]
    BY <1>1 DEF FindRow, TypeOK, Steps
  <1>4. /\ loaded' = [x \in Builders |-> loaded'[x]] /\ loaded'[b] = projection
        /\ \A x \in Builders : x # b => loaded'[x] = loaded[x]
    BY <1>1 DEF FindRow
  <1>5. TypeOK'
    BY <1>1, <1>2, <1>3, <1>4 DEF TypeOK, tables, Steps
  <1>6. QueueInv'
    <2>1. step'["worker"] # "idle" <=> step["worker"] # "idle"
      BY <1>3 DEF Builders
    <2> QED
      BY <1>1, <1>2, <2>1 DEF QueueInv
  <1>7. WorkerInv'
    <2>1. TaskSeen("worker")' = TaskSeen("worker")
      BY <1>2, TaskSeenStays DEF tables
    <2>2. CASE b = "worker"
      BY <1>2, <1>3, <1>4, <2>1, <2>2
      DEF Inv, WorkerInv, Answered, tables, AfterReports, AfterTasks, AfterStops, AfterAlerts
    <2>3. CASE b # "worker"
      <3>1. step'["worker"] = step["worker"] /\ loaded'["worker"] = loaded["worker"]
        BY <1>3, <1>4, <2>3 DEF Builders
      <3> QED
        BY <1>2, <2>1, <3>1 DEF Inv, WorkerInv, Answered, tables
    <2> QED
      BY <2>2, <2>3
  <1>8. RefresherInv'
    BY <1>2, <1>3
    DEF Inv, RefresherInv, tables, Builders, AfterTasks, AfterStops, AfterAlerts
  <1> QED
    BY <1>1, <1>2, <1>4, <1>5, <1>6, <1>7, <1>8, QuietStep

----------------------------------------------------------------------------
(* The end of a builder's transaction.                                     *)

(* A builder that ends has nothing in hand; the others go on.              *)
LEMMA Stopped ==
    ASSUME Inv, NEW b \in Builders, Stop(b)
    PROVE  /\ step' \in [Builders -> Steps] /\ step'[b] = "idle"
           /\ read' \in [Builders -> Rows]
           /\ loaded' = [x \in Builders |-> loaded'[x]]
           /\ \A x \in Builders : Cardinality(loaded'[x]) <= 1
           /\ \A x \in Builders : x # b =>
                step'[x] = step[x] /\ read'[x] = read[x] /\ loaded'[x] = loaded[x]
           /\ event' = IF b = "worker" THEN 0 ELSE event
  <1>1. TypeOK /\ loaded = [x \in Builders |-> loaded[x]]
    BY DEF Inv
  <1>2. step' \in [Builders -> Steps] /\ step'[b] = "idle"
    BY <1>1 DEF Stop, TypeOK, Steps
  <1>3. read' \in [Builders -> Rows]
    BY <1>1, NothingType DEF Stop, TypeOK
  <1>4. loaded' = [x \in Builders |-> IF x = b THEN {} ELSE loaded[x]]
    BY <1>1 DEF Stop
  <1>5. \A x \in Builders : Cardinality(loaded'[x]) <= 1
    BY <1>1, <1>4, OneRow DEF TypeOK
  <1>6. \A x \in Builders : x # b =>
            step'[x] = step[x] /\ read'[x] = read[x] /\ loaded'[x] = loaded[x]
    BY <1>1, <1>4 DEF Stop, TypeOK
  <1>7. event' = IF b = "worker" THEN 0 ELSE event
    BY DEF Stop
  <1> QED
    BY <1>2, <1>3, <1>4, <1>5, <1>6, <1>7

(* The notes of the others stay right when stops only come.                *)
LEMMA StoppedRefreshers ==
    ASSUME Inv, NEW b \in Builders, Stop(b), stops \subseteq stops'
    PROVE  RefresherInv'
  BY Stopped DEF Inv, RefresherInv, Builders, AfterTasks, AfterStops, AfterAlerts

(* The worker works on an event that waits to be handled.                  *)
LEMMA InHand ==
    ASSUME Inv, step["worker"] # "idle"
    PROVE  /\ event \in DOMAIN outbox /\ event # 0 /\ outbox[event] \in Event
           /\ outbox[event].status = "PENDING" /\ outbox[event].attempts < MaxAttempts
  BY DEF Inv, TypeOK, QueueInv

(* A builder gives up: the worker's event waits for the next poll.         *)
LEMMA GiveUpStep ==
    ASSUME Inv, NEW b \in Builders, GiveUp(b), faults' \in 0..MaxFaults
    PROVE  Inv'
  <1>1. TypeOK /\ QueueInv
    BY DEF Inv
  <1>2. Stop(b) /\ UNCHANGED <<tables, outbox, projection, batch, writer>>
    BY DEF GiveUp
  <1>3. event' \in DOMAIN outbox \cup {0}
    BY <1>1, <1>2, Stopped DEF TypeOK
  <1>4. TypeOK'
    BY <1>1, <1>2, <1>3, Stopped DEF TypeOK, tables, Steps
  <1>5. QueueInv'
    <2>1. CASE b = "worker"
      <3>1. 0 \notin DOMAIN outbox
        BY <1>1 DEF TypeOK
      <3>2. event' = 0 /\ step'["worker"] = "idle"
        BY <1>2, <2>1, Stopped
      <3> QED
        BY <1>1, <1>2, <3>1, <3>2 DEF QueueInv, TypeOK
    <2>2. CASE b # "worker"
      <3>1. event' = event /\ step'["worker"] = step["worker"]
        BY <1>2, <2>2, Stopped DEF Builders
      <3> QED
        BY <1>1, <1>2, <3>1 DEF QueueInv
    <2> QED
      BY <2>1, <2>2
  <1>6. WorkerInv'
    <2>1. CASE b = "worker"
      <3>1. step'["worker"] = "idle"
        BY <1>2, <2>1, Stopped
      <3> QED
        BY <3>1 DEF WorkerInv, AfterReports, AfterTasks, AfterStops, AfterAlerts
    <2>2. CASE b # "worker"
      <3>1. /\ step'["worker"] = step["worker"] /\ read'["worker"] = read["worker"]
            /\ loaded'["worker"] = loaded["worker"] /\ event' = event
        BY <1>2, <2>2, Stopped DEF Builders
      <3>2. TaskSeen("worker")' = TaskSeen("worker")
        BY <1>2, <3>1, TaskSeenStays DEF tables
      <3> QED
        BY <1>2, <3>1, <3>2 DEF Inv, WorkerInv, Answered, tables
    <2> QED
      BY <2>1, <2>2
  <1>7. RefresherInv'
    BY <1>2, StoppedRefreshers DEF tables
  <1> QED
    BY <1>2, <1>4, <1>5, <1>6, <1>7, QuietStep, Stopped

(* The worker settles its event: PUBLISHED, or another attempt counted.    *)
LEMMA SettledEvent ==
    ASSUME NEW e \in Event, e.attempts < MaxAttempts, NEW status \in {"PENDING", "PUBLISHED", "DEAD"}
    PROVE  LET new == Settled(e, status)
           IN  /\ new \in Event /\ new.topic = e.topic /\ new.about = e.about
               /\ new.status = status /\ new.attempts = e.attempts + 1
  BY DashboardAssumption DEF Settled, Event

(* An attempt is counted: the event waits, or is dead after the last one.  *)
LEMMA CountStep ==
    ASSUME Inv, CountAttempt, step["worker"] # "idle", faults' \in 0..MaxFaults
    PROVE  Inv'
  <1> DEFINE status == IF outbox[event].attempts + 1 >= MaxAttempts THEN "DEAD" ELSE "PENDING"
             new == Settled(outbox[event], status)
  <1>1. TypeOK /\ QueueInv /\ AllHappened /\ StopsInv /\ HandledIsShown /\ NakedRoutePending
    BY DEF Inv
  <1>2. Stop("worker") /\ UNCHANGED <<tables, batch, projection, writer>>
    BY DEF CountAttempt
  <1>3. outbox' = [outbox EXCEPT ![event] = new]
    BY DEF CountAttempt
  <1>4. /\ event \in DOMAIN outbox /\ event # 0 /\ outbox[event] \in Event
        /\ outbox[event].status = "PENDING" /\ outbox[event].attempts < MaxAttempts
    BY InHand
  <1>5. /\ new \in Event /\ new.topic = outbox[event].topic /\ new.about = outbox[event].about
        /\ new.status \in {"PENDING", "DEAD"}
        /\ new.status = "PENDING" => new.attempts < MaxAttempts
    <2>1. status \in {"PENDING", "DEAD"}
      OBVIOUS
    <2>2. status = "PENDING" => outbox[event].attempts + 1 < MaxAttempts
      BY <1>4, DashboardAssumption DEF Event
    <2> HIDE DEF status
    <2> QED
      BY <1>4, <2>1, <2>2, SettledEvent
  <1> HIDE DEF new, status
  <1>6. /\ outbox' \in Seq(Event) /\ DOMAIN outbox' = DOMAIN outbox /\ 0 \notin DOMAIN outbox
        /\ \A i \in DOMAIN outbox : outbox'[i] = IF i = event THEN new ELSE outbox[i]
    BY <1>1, <1>3, <1>4, <1>5 DEF TypeOK
  <1>7. /\ step' \in [Builders -> Steps] /\ step'["worker"] = "idle" /\ event' = 0
        /\ read' \in [Builders -> Rows] /\ loaded' = [x \in Builders |-> loaded'[x]]
        /\ \A x \in Builders : Cardinality(loaded'[x]) <= 1
    BY <1>2, Stopped DEF Builders
  <1>8. TypeOK'
    BY <1>1, <1>2, <1>6, <1>7 DEF TypeOK, tables, Steps
  <1>9. AllHappened'
    <2>1. \A x : Happened(x) => Happened(x)'
      BY <1>2 DEF Happened, tables
    <2>2. Happened(new)
      BY <1>1, <1>4, <1>5 DEF AllHappened, Happened
    <2>3. \A x : (\E i \in DOMAIN outbox' : x = outbox'[i]) => Happened(x)'
      BY <1>1, <1>6, <2>1, <2>2 DEF AllHappened
    <2> QED
      BY <2>3 DEF AllHappened
  <1>10. QueueInv'
    BY <1>1, <1>2, <1>5, <1>6, <1>7 DEF QueueInv, TypeOK
  <1>11. StopsInv'
    BY <1>1, <1>2 DEF StopsInv, tables
  <1>12. WorkerInv'
    BY <1>7 DEF WorkerInv, AfterReports, AfterTasks, AfterStops, AfterAlerts
  <1>13. RefresherInv'
    BY <1>2, StoppedRefreshers DEF Builders, tables
  <1>14. HandledIsShown'
    <2>1. \A i \in DOMAIN outbox' : outbox'[i].status = "PUBLISHED" =>
                i \in DOMAIN outbox /\ outbox'[i] = outbox[i]
      BY <1>5, <1>6
    <2> QED
      BY <1>1, <1>2, <2>1 DEF HandledIsShown
  <1>15. NakedRoutePending'
    <2>1. \A i \in DOMAIN outbox :
                /\ i \in DOMAIN outbox' /\ outbox'[i].topic = outbox[i].topic
                /\ outbox'[i].about = outbox[i].about
                /\ outbox[i].status # "PUBLISHED" => outbox'[i].status # "PUBLISHED"
      BY <1>4, <1>5, <1>6
    <2> QED
      BY <1>1, <1>2, <2>1 DEF NakedRoutePending
  <1> QED
    BY <1>7, <1>8, <1>9, <1>10, <1>11, <1>12, <1>13, <1>14, <1>15 DEF Inv

(* What a snapshot shows of the notes.                                     *)
LEMMA Shown ==
    ASSUME NEW rows
    PROVE  LET s == Snapshot(rows)
           IN  /\ DOMAIN s.routes = {p \in Plans : rows.task[p] # "NONE"}
               /\ \A p \in DOMAIN s.routes :
                    /\ s.routes[p].status = rows.task[p]
                    /\ s.routes[p].complete <=> p \in rows.stops
               /\ \A p \in Plans : rows.task[p] # "NONE" => p \in s.preorders
               /\ s.reports = rows.reports
               /\ \A a \in Alerts : rows.alert[a] # "NONE" => a \in s.alerts
  BY DEF Snapshot, Routes, Preorders

(* A refresher writes complete routes, and is not the worker.              *)
LEMMA RefreshStep ==
    ASSUME Inv, NEW b \in Builders, Refresh(b)
    PROVE  Inv'
  <1> DEFINE new == Snapshot(read[b])
  <1>1. /\ TypeOK /\ QueueInv /\ AllHappened /\ StopsInv /\ WorkerInv /\ RefresherInv
        /\ HandledIsShown /\ NakedRoutePending
    BY DEF Inv
  <1>2. b \in Refreshers /\ b # "worker" /\ step[b] = "commit"
    BY DashboardAssumption DEF Refresh, Write
  <1>3. Stop(b) /\ UNCHANGED <<tables, outbox, batch, faults>>
    BY DEF Refresh
  <1>4. \/ UNCHANGED <<projection, writer>>
        \/ projection' = {new} /\ writer' = b
    BY DEF Refresh, Write
  <1>5. Complete(new)
    <2>1. \A p \in Plans : read[b].task[p] # "NONE" => p \in read[b].stops
      BY <1>1, <1>2 DEF RefresherInv, AfterStops, AfterAlerts
    <2> QED
      BY <2>1, Shown DEF Complete
  <1> HIDE DEF new
  <1>6. /\ step' \in [Builders -> Steps] /\ read' \in [Builders -> Rows]
        /\ loaded' = [x \in Builders |-> loaded'[x]]
        /\ \A x \in Builders : Cardinality(loaded'[x]) <= 1
        /\ event' = event
        /\ step'["worker"] = step["worker"] /\ read'["worker"] = read["worker"]
        /\ loaded'["worker"] = loaded["worker"]
    BY <1>2, <1>3, Stopped DEF Builders
  <1>7. TypeOK'
    <2>1. Cardinality(projection') <= 1 /\ writer' \in Builders \cup {"nobody"}
      BY <1>1, <1>4, OneRow DEF TypeOK
    <2> QED
      BY <1>1, <1>3, <1>6, <2>1 DEF TypeOK, tables, Steps
  <1>8. AllHappened' /\ StopsInv'
    BY <1>1, <1>3 DEF AllHappened, Happened, StopsInv, tables
  <1>9. QueueInv'
    BY <1>1, <1>3, <1>6 DEF QueueInv
  <1>10. WorkerInv'
    <2>1. TaskSeen("worker")' = TaskSeen("worker")
      BY <1>3, <1>6, TaskSeenStays DEF tables
    <2>2. step["worker"] = "commit" /\ loaded["worker"] # {} /\ projection' # loaded["worker"] =>
                writer' # "worker" /\ \A s \in projection' : Complete(s)
      BY <1>1, <1>2, <1>4, <1>5 DEF WorkerInv
    <2>3. (\A s \in projection : Complete(s))' <=> \A s \in projection' : Complete(s)
      BY DEF Complete
    <2> QED
      BY <1>1, <1>3, <1>6, <2>1, <2>2, <2>3 DEF WorkerInv, Answered, tables
  <1>11. RefresherInv'
    BY <1>3, StoppedRefreshers DEF tables
  <1>12. HandledIsShown'
    BY <1>1, <1>2, <1>3, <1>4 DEF HandledIsShown
  <1>13. NakedRoutePending'
    BY <1>1, <1>3, <1>4, <1>5 DEF NakedRoutePending, Complete
  <1> QED
    BY <1>6, <1>7, <1>8, <1>9, <1>10, <1>11, <1>12, <1>13 DEF Inv

(* A sequence with at most one more element.                               *)
LEMMA OneMore ==
    ASSUME NEW S, NEW s \in Seq(S), NEW t \in Seq(S)
    PROVE  LET u == s \o t
           IN  /\ u \in Seq(S) /\ DOMAIN u = 1..(Len(s) + Len(t))
               /\ \A i \in DOMAIN s : u[i] = s[i]
               /\ \A i \in DOMAIN u \ DOMAIN s :
                    i - Len(s) \in DOMAIN t /\ u[i] = t[i - Len(s)]
               /\ \A k \in DOMAIN t : Len(s) + k \in DOMAIN u /\ u[Len(s) + k] = t[k]
  <1> DEFINE u == s \o t
  <1>1. u \in Seq(S) /\ Len(u) = Len(s) + Len(t)
    OBVIOUS
  <1>2. Len(s) \in Nat /\ Len(t) \in Nat /\ DOMAIN s = 1..Len(s) /\ DOMAIN t = 1..Len(t)
    OBVIOUS
  <1>3. DOMAIN u = 1..(Len(s) + Len(t))
    BY <1>1
  <1>4. \A i \in 1..(Len(s) + Len(t)) : u[i] = IF i <= Len(s) THEN s[i] ELSE t[i - Len(s)]
    OBVIOUS
  <1> HIDE DEF u
  <1>5. \A i \in DOMAIN s : u[i] = s[i]
    BY <1>2, <1>4
  <1>6. \A i \in DOMAIN u \ DOMAIN s : i - Len(s) \in DOMAIN t /\ u[i] = t[i - Len(s)]
    BY <1>2, <1>3, <1>4
  <1>7. \A k \in DOMAIN t : Len(s) + k \in DOMAIN u /\ u[Len(s) + k] = t[k]
    <2>1. \A k \in 1..Len(t) : /\ Len(s) + k \in 1..(Len(s) + Len(t))
                              /\ ~(Len(s) + k <= Len(s)) /\ (Len(s) + k) - Len(s) = k
      BY <1>2
    <2> QED
      BY <1>2, <1>3, <1>4, <2>1
  <1> QED
    BY <1>1, <1>3, <1>5, <1>6, <1>7 DEF u

(* The worker handles its event: the tables change as its session has      *)
(* shown them, and the events it adds are pending.                         *)
LEMMA Handled ==
    ASSUME Inv, Handle
    PROVE  LET e == outbox[event] IN
           /\ task' = TaskSeen("worker") /\ order' = OrderSeen("worker")
           /\ stops' = stops \cup {p \in Plans : Creates("worker", p)}
           /\ outbox' \in Seq(Event) /\ DOMAIN outbox \subseteq DOMAIN outbox'
           /\ 0 \notin DOMAIN outbox'
           /\ \A i \in DOMAIN outbox : i # event => outbox'[i] = outbox[i]
           /\ outbox'[event] \in Event
           /\ outbox'[event].topic = e.topic /\ outbox'[event].about = e.about
           /\ outbox'[event].status = "PUBLISHED"
           /\ \A i \in DOMAIN outbox' \ DOMAIN outbox :
                /\ outbox'[i].status = "PENDING" /\ outbox'[i].attempts < MaxAttempts
                /\ outbox'[i].about = e.about /\ e.about \in Plans
                /\ \/ outbox'[i].topic = "task.confirmed" /\ Creates("worker", e.about)
                   \/ outbox'[i].topic = "task.cancelled" /\ Cancels("worker", e.about)
           /\ \A p \in Plans : Creates("worker", p) =>
                \E i \in DOMAIN outbox' : /\ outbox'[i].topic = "task.confirmed"
                                          /\ outbox'[i].about = p
                                          /\ outbox'[i].status = "PENDING"
  <1> DEFINE e == outbox[event]
             settled == Settled(e, "PUBLISHED")
             follows == Follows(e)
  <1>1. TypeOK /\ AllHappened /\ step["worker"] = "commit"
    BY DEF Inv, Handle, Write
  <1>2. /\ event \in DOMAIN outbox /\ event # 0 /\ e \in Event
        /\ e.status = "PENDING" /\ e.attempts < MaxAttempts
    BY <1>1, InHand
  <1>3. /\ settled \in Event /\ settled.topic = e.topic /\ settled.about = e.about
        /\ settled.status = "PUBLISHED"
    BY <1>2, SettledEvent
  <1>4. outbox' = [outbox EXCEPT ![event] = settled] \o follows
    BY DEF Handle
  <1>5. Creates("worker", e.about) \/ Cancels("worker", e.about) => e.about \in Plans
    BY <1>1, <1>2 DEF Creates, Cancels, Handles, AllHappened, Happened
  <1>6. \A topic \in Topic : e.about \in Plans =>
            /\ Pending(topic, e.about) \in Event /\ Pending(topic, e.about).topic = topic
            /\ Pending(topic, e.about).about = e.about
            /\ Pending(topic, e.about).status = "PENDING"
            /\ Pending(topic, e.about).attempts < MaxAttempts
    BY PendingType
  <1>7. /\ follows \in Seq(Event) /\ Len(follows) <= 1
        /\ \A k \in DOMAIN follows :
            /\ follows[k].status = "PENDING" /\ follows[k].attempts < MaxAttempts
            /\ follows[k].about = e.about /\ e.about \in Plans
            /\ \/ follows[k].topic = "task.confirmed" /\ Creates("worker", e.about)
               \/ follows[k].topic = "task.cancelled" /\ Cancels("worker", e.about)
        /\ Creates("worker", e.about) =>
            /\ Len(follows) = 1 /\ follows[1].topic = "task.confirmed"
            /\ follows[1].about = e.about /\ follows[1].status = "PENDING"
    <2>1. CASE Creates("worker", e.about)
      <3>1. follows = <<Pending("task.confirmed", e.about)>>
        BY <2>1 DEF Follows
      <3>2. e.about \in Plans /\ "task.confirmed" \in Topic
        BY <1>5, <2>1 DEF Topic
      <3> HIDE DEF follows
      <3> QED
        BY <1>6, <2>1, <3>1, <3>2
    <2>2. CASE ~Creates("worker", e.about) /\ Cancels("worker", e.about)
      <3>1. follows = <<Pending("task.cancelled", e.about)>>
        BY <2>2 DEF Follows
      <3>2. e.about \in Plans /\ "task.cancelled" \in Topic
        BY <1>5, <2>2 DEF Topic
      <3> HIDE DEF follows
      <3> QED
        BY <1>6, <2>2, <3>1, <3>2
    <2>3. CASE ~Creates("worker", e.about) /\ ~Cancels("worker", e.about)
      <3>1. follows = <<>>
        BY <2>3 DEF Follows
      <3> HIDE DEF follows
      <3> QED
        BY <2>3, <3>1
    <2> QED
      BY <2>1, <2>2, <2>3
  <1> HIDE DEF settled, follows, e
  <1> DEFINE changed == [outbox EXCEPT ![event] = settled]
  <1>8. /\ changed \in Seq(Event) /\ Len(changed) = Len(outbox)
        /\ \A i \in DOMAIN outbox : changed[i] = IF i = event THEN settled ELSE outbox[i]
    BY <1>1, <1>2, <1>3 DEF TypeOK
  <1>9. outbox' = changed \o follows /\ outbox \in Seq(Event)
    BY <1>1, <1>4 DEF TypeOK
  <1> HIDE DEF changed
  <1>10. /\ outbox' \in Seq(Event) /\ DOMAIN outbox' = 1..(Len(outbox) + Len(follows))
         /\ DOMAIN outbox = 1..Len(outbox) /\ Len(outbox) \in Nat
         /\ \A i \in DOMAIN outbox : outbox'[i] = IF i = event THEN settled ELSE outbox[i]
         /\ \A i \in DOMAIN outbox' \ DOMAIN outbox :
                i - Len(outbox) \in DOMAIN follows /\ outbox'[i] = follows[i - Len(outbox)]
         /\ \A k \in DOMAIN follows :
                Len(outbox) + k \in DOMAIN outbox' /\ outbox'[Len(outbox) + k] = follows[k]
    <2>1. DOMAIN outbox = 1..Len(outbox) /\ DOMAIN changed = DOMAIN outbox /\ Len(outbox) \in Nat
      BY <1>8, <1>9
    <2>2. follows \in Seq(Event)
      BY <1>7
    <2>3. changed \in Seq(Event)
      BY <1>8
    <2>4. /\ outbox' \in Seq(Event) /\ DOMAIN outbox' = 1..(Len(changed) + Len(follows))
          /\ \A i \in DOMAIN changed : outbox'[i] = changed[i]
          /\ \A i \in DOMAIN outbox' \ DOMAIN changed :
                i - Len(changed) \in DOMAIN follows /\ outbox'[i] = follows[i - Len(changed)]
          /\ \A k \in DOMAIN follows :
                Len(changed) + k \in DOMAIN outbox' /\ outbox'[Len(changed) + k] = follows[k]
      <3>1. outbox' = changed \o follows
        BY <1>9
      <3> QED
        BY <2>2, <2>3, <3>1, OneMore
    <2> QED
      BY <1>8, <2>1, <2>4
  <1>11. \A p \in Plans : Creates("worker", p) =>
            \E i \in DOMAIN outbox' : /\ outbox'[i].topic = "task.confirmed"
                                      /\ outbox'[i].about = p
                                      /\ outbox'[i].status = "PENDING"
    <2>1. ASSUME NEW p \in Plans, Creates("worker", p)
          PROVE  p = e.about
      BY <2>1 DEF Creates, Handles, e
    <2>2. Creates("worker", e.about) => 1 \in DOMAIN follows
      BY <1>7
    <2> QED
      BY <1>7, <1>10, <2>1, <2>2
  <1>12. /\ task' = TaskSeen("worker") /\ order' = OrderSeen("worker")
         /\ stops' = stops \cup {p \in Plans : Creates("worker", p)}
    BY DEF Handle
  <1>13. \A i \in DOMAIN outbox' \ DOMAIN outbox :
                /\ outbox'[i].status = "PENDING" /\ outbox'[i].attempts < MaxAttempts
                /\ outbox'[i].about = e.about /\ e.about \in Plans
                /\ \/ outbox'[i].topic = "task.confirmed" /\ Creates("worker", e.about)
                   \/ outbox'[i].topic = "task.cancelled" /\ Cancels("worker", e.about)
    BY <1>7, <1>10
  <1>14. DOMAIN outbox \subseteq DOMAIN outbox' /\ 0 \notin DOMAIN outbox'
    BY <1>7, <1>10
  <1> QED
    BY <1>2, <1>3, <1>10, <1>11, <1>12, <1>13, <1>14 DEF e

(* What has happened to a task stays so while the worker handles an event. *)
LEMMA HandleHappens ==
    ASSUME Inv, Handle
    PROVE  AllHappened' /\ \A p \in Plans : task'[p] # "NONE" =>
                p \in stops' /\ (task[p] # "NONE" \/ Creates("worker", p))
  <1>1. TypeOK /\ AllHappened /\ StopsInv /\ event \in DOMAIN outbox
    BY InHand DEF Inv, Handle, Write
  <1>2. UNCHANGED <<reports, alert>>
    BY DEF Handle
  <1>3. task' = TaskSeen("worker") /\ stops' = stops \cup {p \in Plans : Creates("worker", p)}
    BY Handled
  <1>4. \A p \in Plans :
            /\ task[p] # "NONE" => task'[p] # "NONE"
            /\ task[p] = "CANCELLED" => task'[p] = "CANCELLED"
            /\ Creates("worker", p) => task'[p] = "CONFIRMED"
            /\ Cancels("worker", p) => task'[p] = "CANCELLED"
            /\ task'[p] # "NONE" => task[p] # "NONE" \/ Creates("worker", p)
    BY <1>1, <1>3 DEF TaskSeen, Creates, Cancels, TypeOK
  <1>5. \A x : Happened(x) => Happened(x)'
    <2>1. \A x : Happened(x) =>
            /\ x.topic = "plan.confirmed" /\ x.status = "PUBLISHED" => x.about \in Plans
            /\ x.topic \in {"task.confirmed", "task.cancelled"} => x.about \in Plans
      BY DEF Happened
    <2> QED
      BY <1>2, <1>4, <2>1 DEF Happened
  <1>6. Happened(outbox[event])
    BY <1>1 DEF AllHappened
  <1>7. \A x : /\ x.topic = outbox[event].topic /\ x.about = outbox[event].about
               /\ x.status = "PUBLISHED"
               => Happened(x)'
    <2>1. outbox[event].topic = "plan.confirmed" =>
            outbox[event].about \in Plans /\ task'[outbox[event].about] # "NONE"
      <3>1. outbox[event].topic = "plan.confirmed" =>
                /\ outbox[event].about \in Plans
                /\ task[outbox[event].about] # "NONE" \/ Creates("worker", outbox[event].about)
        BY <1>1, <1>6, Handled DEF Happened, Creates, Handles, TypeOK
      <3> QED
        BY <1>4, <3>1
    <2> QED
      BY <1>2, <1>4, <1>6, <2>1 DEF Happened
  <1>8. \A x : /\ x.status = "PENDING" /\ x.about \in Plans
               /\ \/ x.topic = "task.confirmed" /\ Creates("worker", x.about)
                  \/ x.topic = "task.cancelled" /\ Cancels("worker", x.about)
               => Happened(x)'
    BY <1>4 DEF Happened
  <1>9. \A x : (\E i \in DOMAIN outbox' : x = outbox'[i]) => Happened(x)'
    <2>1. ASSUME NEW i \in DOMAIN outbox, i # event
          PROVE  Happened(outbox[i]) /\ outbox'[i] = outbox[i]
      BY <1>1, <2>1, Handled DEF AllHappened
    <2>2. /\ outbox'[event].topic = outbox[event].topic
          /\ outbox'[event].about = outbox[event].about /\ outbox'[event].status = "PUBLISHED"
      BY Handled
    <2>3. \A i \in DOMAIN outbox' \ DOMAIN outbox :
            /\ outbox'[i].status = "PENDING" /\ outbox'[i].about \in Plans
            /\ \/ outbox'[i].topic = "task.confirmed" /\ Creates("worker", outbox'[i].about)
               \/ outbox'[i].topic = "task.cancelled" /\ Cancels("worker", outbox'[i].about)
      BY Handled
    <2> QED
      BY <1>5, <1>7, <1>8, <2>1, <2>2, <2>3
  <1>10. \A p \in Plans : task'[p] # "NONE" =>
                p \in stops' /\ (task[p] # "NONE" \/ Creates("worker", p))
    BY <1>1, <1>3, <1>4 DEF StopsInv
  <1> QED
    BY <1>9, <1>10 DEF AllHappened

(* The snapshot the worker has built answers for what it has handled by    *)
(* now, this event included.                                               *)
LEMMA HandleTells ==
    ASSUME Inv, Handle
    PROVE  LET new == Snapshot(read["worker"])
           IN  /\ \A i \in DOMAIN outbox' : outbox'[i].status = "PUBLISHED" => Told(new, outbox'[i])
               /\ \A p \in DOMAIN new.routes : new.routes[p].complete \/ Creates("worker", p)
               /\ \A p \in DOMAIN new.routes : p \in Plans
  <1> DEFINE rows == read["worker"]
             new == Snapshot(rows)
  <1>1. /\ TypeOK /\ AllHappened /\ StopsInv /\ WorkerInv
        /\ step["worker"] = "commit" /\ event \in DOMAIN outbox
    BY InHand DEF Inv, Handle, Write
  <1>2. task' = TaskSeen("worker")
    BY Handled
  <1>3. /\ rows.task = task' /\ rows.stops = stops
        /\ \A i \in Answered :
            /\ outbox[i].topic = "report" =>
                    (outbox[i].about \in rows.reports <=> outbox[i].about \in Authorised)
            /\ outbox[i].topic = "alert" => rows.alert[outbox[i].about] # "NONE"
    BY <1>1, <1>2 DEF WorkerInv, AfterReports, AfterTasks, AfterStops, AfterAlerts
  <1> HIDE DEF rows
  <1>4. /\ DOMAIN new.routes = {p \in Plans : rows.task[p] # "NONE"}
        /\ \A p \in DOMAIN new.routes :
            /\ new.routes[p].status = rows.task[p]
            /\ new.routes[p].complete <=> p \in rows.stops
        /\ \A p \in Plans : rows.task[p] # "NONE" => p \in new.preorders
        /\ new.reports = rows.reports
        /\ \A a \in Alerts : rows.alert[a] # "NONE" => a \in new.alerts
    BY Shown
  <1> HIDE DEF new
  <1>5. AllHappened' /\ \A p \in Plans : task'[p] # "NONE" => task[p] # "NONE" \/ Creates("worker", p)
    BY HandleHappens
  <1>6. ASSUME NEW i \in DOMAIN outbox', outbox'[i].status = "PUBLISHED"
        PROVE  Told(new, outbox'[i])
    <2> DEFINE x == outbox'[i]
    <2>1. i \in DOMAIN outbox /\ i \in Answered
      BY <1>6, Handled DEF Answered
    <2>2. outbox[i].topic = x.topic /\ outbox[i].about = x.about
      BY <2>1, Handled
    <2>3. Happened(outbox[i])
      BY <1>1, <2>1 DEF AllHappened
    <2>4. x.topic = "plan.confirmed" => x.about \in Plans /\ task'[x.about] # "NONE"
      <3>1. AllHappened'
        BY <1>5
      <3>2. x.topic = "plan.confirmed" /\ x.status = "PUBLISHED" => task'[x.about] # "NONE"
        BY <3>1 DEF AllHappened, Happened
      <3> QED
        BY <1>6, <2>2, <2>3, <3>2 DEF Happened
    <2>5. x.topic = "task.confirmed" =>
            x.about \in Plans /\ task'[x.about] # "NONE" /\ x.about \in stops
      BY <1>1, <1>2, <2>2, <2>3 DEF Happened, StopsInv, TaskSeen, TypeOK
    <2>6. x.topic = "task.cancelled" => x.about \in Plans /\ task'[x.about] = "CANCELLED"
      BY <1>1, <1>2, <2>2, <2>3 DEF Happened, TaskSeen, TypeOK, Creates
    <2>7. x.topic = "alert" => x.about \in Alerts /\ rows.alert[x.about] # "NONE"
      BY <1>3, <2>1, <2>2, <2>3 DEF Happened
    <2>8. x.topic = "report" => (x.about \in rows.reports <=> x.about \in Authorised)
      BY <1>3, <2>1, <2>2
    <2> HIDE DEF x
    <2>9. x.topic = "plan.confirmed" => x.about \in new.preorders /\ x.about \in DOMAIN new.routes
      BY <1>3, <1>4, <2>4
    <2>10. x.topic = "task.confirmed" =>
            x.about \in DOMAIN new.routes /\ new.routes[x.about].complete
      BY <1>3, <1>4, <2>5
    <2>11. x.topic = "task.cancelled" =>
            x.about \in DOMAIN new.routes /\ new.routes[x.about].status = "CANCELLED"
      BY <1>3, <1>4, <2>6
    <2>12. x.topic = "alert" => x.about \in new.alerts
      BY <1>4, <2>7
    <2>13. x.topic = "report" => (x.about \in new.reports <=> x.about \in Authorised)
      BY <1>4, <2>8
    <2>14. Told(new, x)
      BY <2>9, <2>10, <2>11, <2>12, <2>13 DEF Told
    <2> QED
      BY <2>14 DEF x
  <1>7. \A p \in DOMAIN new.routes : new.routes[p].complete \/ Creates("worker", p)
    BY <1>1, <1>3, <1>4, <1>5 DEF StopsInv
  <1> QED
    BY <1>4, <1>6, <1>7 DEF new, rows

(* The worker's commit.                                                    *)
LEMMA HandleStep ==
    ASSUME Inv, Handle
    PROVE  Inv'
  <1> DEFINE new == Snapshot(read["worker"])
  <1>1. /\ TypeOK /\ QueueInv /\ StopsInv /\ WorkerInv /\ RefresherInv
        /\ HandledIsShown /\ NakedRoutePending
        /\ step["worker"] = "commit" /\ "worker" \in Builders
    BY DEF Inv, Handle, Write, Builders
  <1>2. Stop("worker") /\ UNCHANGED <<agenda, reports, alert, batch, faults>>
    BY DEF Handle
  <1>3. /\ event \in DOMAIN outbox /\ event # 0 /\ outbox[event].status = "PENDING"
    BY <1>1, InHand
  <1>4. /\ step' \in [Builders -> Steps] /\ step'["worker"] = "idle" /\ event' = 0
        /\ read' \in [Builders -> Rows] /\ loaded' = [x \in Builders |-> loaded'[x]]
        /\ \A x \in Builders : Cardinality(loaded'[x]) <= 1
    BY <1>1, <1>2, Stopped
  <1>5. /\ loaded["worker"] # {} \/ projection = {}
        /\ \/ loaded["worker"] = {new} /\ UNCHANGED <<projection, writer>>
           \/ projection' = {new} /\ writer' = "worker"
    BY DEF Handle, Write
  <1>6. /\ \A i \in DOMAIN outbox' : outbox'[i].status = "PUBLISHED" => Told(new, outbox'[i])
        /\ \A p \in DOMAIN new.routes : new.routes[p].complete \/ Creates("worker", p)
        /\ \A p \in DOMAIN new.routes : p \in Plans
    BY HandleTells
  <1> HIDE DEF new
  <1>7. stops \subseteq stops' /\ stops' \subseteq Plans
    BY <1>1, Handled DEF TypeOK
  <1>8. TypeOK'
    <2>1. Cardinality(projection') <= 1 /\ writer' \in Builders \cup {"nobody"}
      BY <1>1, <1>5, OneRow DEF TypeOK
    <2>2. task' \in [Plans -> TaskStatus] /\ order' \in [Plans -> OrderStatus]
      BY <1>1, Handled, SeenType
    <2>3. outbox' \in Seq(Event) /\ DOMAIN outbox \subseteq DOMAIN outbox'
      BY Handled
    <2>4. batch' \subseteq DOMAIN outbox' /\ event' \in DOMAIN outbox' \cup {0}
      BY <1>1, <1>2, <1>4, <2>3 DEF TypeOK
    <2> QED
      BY <1>1, <1>2, <1>4, <1>7, <2>1, <2>2, <2>3, <2>4 DEF TypeOK, Steps
  <1>9. AllHappened' /\ StopsInv'
    BY HandleHappens DEF StopsInv
  <1>10. QueueInv'
    <2>1. \A i \in DOMAIN outbox' : outbox'[i].status = "PENDING" => outbox'[i].attempts < MaxAttempts
      BY <1>1, Handled DEF QueueInv
    <2>2. \A i \in batch : outbox'[i].status = "PENDING" /\ i # 0
      <3>1. \A i \in batch : i \in DOMAIN outbox /\ i # event /\ outbox[i].status = "PENDING"
        BY <1>1 DEF QueueInv, TypeOK
      <3> QED
        BY <3>1, Handled
    <2> QED
      BY <1>2, <1>4, <2>1, <2>2 DEF QueueInv
  <1>11. WorkerInv'
    BY <1>4 DEF WorkerInv, AfterReports, AfterTasks, AfterStops, AfterAlerts
  <1>12. RefresherInv'
    BY <1>1, <1>2, <1>7, StoppedRefreshers
  <1>13. writer' = "worker" => projection' = {new}
    BY <1>1, <1>5 DEF WorkerInv
  <1>14. HandledIsShown'
    BY <1>6, <1>13 DEF HandledIsShown
  <1>15. NakedRoutePending'
    <2>1. \A p \in Plans : Creates("worker", p) =>
                \E i \in DOMAIN outbox' : /\ outbox'[i].topic = "task.confirmed"
                                          /\ outbox'[i].about = p
                                          /\ outbox'[i].status = "PENDING"
      BY Handled
    <2>2. CASE projection' = {new}
      BY <1>6, <2>1, <2>2 DEF NakedRoutePending
    <2>3. CASE projection' # {new}
      <3>1. projection' = projection /\ \A s \in projection : Complete(s)
        BY <1>1, <1>5, <2>3 DEF WorkerInv
      <3> QED
        BY <3>1 DEF NakedRoutePending, Complete
    <2> QED
      BY <2>2, <2>3
  <1> QED
    BY <1>4, <1>8, <1>9, <1>10, <1>11, <1>12, <1>14, <1>15 DEF Inv

----------------------------------------------------------------------------
(* All together.                                                           *)

(* The invariant holds at the beginning.                                   *)
LEMMA InvInit == Init => Inv
  <1> SUFFICES ASSUME Init
               PROVE  Inv
    OBVIOUS
  <1>1. /\ order = [p \in Plans |-> "DRAFT"] /\ task = [p \in Plans |-> "NONE"]
        /\ stops = {} /\ reports = {} /\ alert = [a \in Alerts |-> "NONE"]
        /\ outbox = <<>> /\ projection = {} /\ step = [b \in Builders |-> "idle"]
        /\ batch = {} /\ event = 0 /\ read = [b \in Builders |-> Nothing]
        /\ loaded = [b \in Builders |-> {}] /\ writer = "nobody" /\ faults = 0
    BY DEF Init
  <1>2. DOMAIN outbox = {} /\ outbox \in Seq(Event)
    BY <1>1
  <1>3. \A b \in Builders : Cardinality(loaded[b]) <= 1
    BY <1>1, OneRow
  <1>4. TypeOK
    BY <1>1, <1>2, <1>3, OneRow, NothingType, DashboardAssumption
    DEF TypeOK, OrderStatus, TaskStatus, AlertStatus
  <1>5. step["worker"] = "idle" /\ \A b \in Refreshers : step[b] = "idle"
    BY <1>1 DEF Builders
  <1>6. QueueInv /\ StopsInv /\ AllHappened
    BY <1>1, <1>2, <1>5 DEF QueueInv, StopsInv, AllHappened
  <1>7. WorkerInv /\ RefresherInv
    BY <1>5 DEF WorkerInv, RefresherInv, AfterReports, AfterTasks, AfterStops, AfterAlerts
  <1>8. HandledIsShown /\ NakedRoutePending
    BY <1>1 DEF HandledIsShown, NakedRoutePending
  <1> QED
    BY <1>1, <1>4, <1>6, <1>7, <1>8 DEF Inv

(* A failure is a count of an attempt, or the end of a builder.            *)
LEMMA FailStep ==
    ASSUME Inv, NEW b \in Builders, Collide(b) \/ Fail(b)
    PROVE  Inv'
  <1>1. step[b] # "idle"
    BY DEF Collide, Fail
  <1>2. faults' \in 0..MaxFaults
    BY DashboardAssumption DEF Inv, TypeOK, Collide, Fail
  <1>3. GiveUp(b) \/ (b = "worker" /\ CountAttempt)
    BY DEF Collide, Fail
  <1> QED
    BY <1>1, <1>2, <1>3, GiveUpStep, CountStep

(* Every step keeps the invariant.                                         *)
LEMMA InvNext == Inv /\ [Next]_vars => Inv'
  <1> SUFFICES ASSUME Inv, [Next]_vars
               PROVE  Inv'
    OBVIOUS
  <1>1. CASE \/ \E p \in Plans : Confirm(p) \/ RequestCancel(p)
             \/ \E r \in Reports : Report(r)
             \/ \E a \in Alerts : MoveAlert(a)
    BY <1>1, ServicesStep
  <1>2. CASE Poll \/ Take
    BY <1>2, PollStep
  <1>3. CASE Handle
    BY <1>3, HandleStep
  <1>4. ASSUME NEW b \in Builders, StartJob(b) \/ Build(b) \/ Refresh(b) \/ Fail(b)
        PROVE  Inv'
    <2>1. CASE StartJob(b)
      BY <2>1, JobStep
    <2>2. CASE ReadReports(b) \/ ReadTasks(b) \/ ReadStops(b) \/ ReadAlerts(b) \/ ReadOrders(b)
      BY <2>2, ReadsStep
    <2>3. CASE FindRow(b)
      BY <2>3, FindStep
    <2>4. CASE Collide(b) \/ Fail(b)
      BY <2>4, FailStep
    <2>5. CASE Refresh(b)
      BY <2>5, RefreshStep
    <2> QED
      BY <1>4, <2>1, <2>2, <2>3, <2>4, <2>5 DEF Build
  <1>5. CASE UNCHANGED vars
    <2>1. UNCHANGED <<tables, outbox, projection, batch, step, event, read, loaded, writer, faults>>
      BY <1>5 DEF vars
    <2>2. TaskSeen("worker")' = TaskSeen("worker")
      BY <2>1, TaskSeenStays DEF tables
    <2>3. TypeOK' /\ QueueInv' /\ RefresherInv'
      BY <2>1 DEF Inv, TypeOK, QueueInv, RefresherInv, tables
    <2>4. WorkerInv'
      BY <2>1, <2>2 DEF Inv, WorkerInv, Answered, tables
    <2> QED
      BY <2>1, <2>3, <2>4, QuietStep DEF Inv
  <1> QED
    BY <1>1, <1>2, <1>3, <1>4, <1>5 DEF Next

(* The invariant holds of every state.                                     *)
LEMMA InvHolds == Spec => []Inv
  BY InvInit, InvNext, PTL DEF Spec

(* The tables, the outbox, the snapshot and the builders' notes stay well  *)
(* typed: an event is dead after MaxAttempts attempts, and never tried     *)
(* again, and the projection has one row.                                  *)
THEOREM Typed == Spec => []TypeOK
  <1>1. Inv => TypeOK
    BY DEF Inv
  <1> QED
    BY <1>1, InvHolds, PTL

(* What the worker leaves shows every event it has handled, whatever the   *)
(* services and the refreshers do while it reads, and whatever fails.      *)
THEOREM WorkerShowsHandled == Spec => []HandledIsShown
  <1>1. Inv => HandledIsShown
    BY DEF Inv
  <1> QED
    BY <1>1, InvHolds, PTL

(* A route is shown without its stops only while the event of its task is  *)
(* still to be handled, or dead.                                           *)
THEOREM NakedRoutesAreNew == Spec => []NakedRoutePending
  <1>1. Inv => NakedRoutePending
    BY DEF Inv
  <1> QED
    BY <1>1, InvHolds, PTL

=============================================================================
