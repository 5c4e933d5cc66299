# Black Soil Loop server: TLA+ models, model checks and proofs

The server is two FastAPI services over one PostgreSQL database, a worker and a
nightly job:

- **B01** (`app/b01/main.py`) is the planning side: administrators see orders,
  compute candidates for shared transports, confirm one as a plan, publish or
  cancel it.
- **B02** (`app/b02/main.py`, `app/domain/services.py`) is the fulfilment side:
  drivers accept, pick up, start and deliver a transport task; stores sign.
- **The worker** (`app/worker.py`) carries requests from B01 to the execution
  tasks of B02, and news back, through the table `outbox_events`.
- **The scheduler** (`app/scheduler.py`) clears expired sessions and QR tokens and
  computes forecasts.

Handlers are synchronous functions that run in a pool of threads, one
transaction each, at PostgreSQL's default isolation (READ COMMITTED), with
SQLAlchemy sessions that have autoflush off and keep what they loaded
(`app/shared/database.py`). Only the worker locks a row, the outbox event it is
working on. Nearly everything that is hard about this system follows from that:
a handler checks what it has *read*, and commits what it has *computed*, while
others commit in between.

## 1. Inventory

| Part | State | Operations | Talks to |
|---|---|---|---|
| Task fulfilment | `transport_tasks`, `task_stops`, `receipts`, `inventory_balances`, `inventory_movements`, `task_events` | ACCEPT, PICKUP, START_TRANSIT, DELIVER, sign; the worker's publish and cancel | outbox, idempotency records |
| Plan dispatch | `transport_orders`, `algorithm_runs.confirmed`, `transport_plans` | confirm a candidate, request publication, request cancellation | outbox |
| Outbox worker | `outbox_events`, `dead_letters` | poll, handle one event per transaction, count attempts, give up | plans, tasks, orders, projection |
| Event feeds | the cursor of a connection, the cursor a client has stored | page, push, reconnect | outbox |
| Sessions | `users.session_version`, `user_sessions` | sign in, refresh, log out, idle timeout, sweep | every request |
| Idempotency | `idempotency_records` | load before, save with the effect | every write of B02, publish and cancel of B01 |
| Telemetry, locations, exceptions, alerts | `telemetry_points`, `alerts`, ... | ingest, open an alert, acknowledge it | outbox, feeds |
| Store operations | `stockout_requests`, `store_daily_reports` | submit once per key or per day | outbox, projection |
| Attachments | files and `attachments` | upload, download | disk |
| Algorithms | none | carpool, warehouse pool, procurement, forecast | previews of B01, scheduler |
| Dashboard projection | `dashboard_projections` | rebuild the snapshot | worker, scheduler |
| Rate limiter | buckets in memory | allow or refuse | every request |
| Client examples | the queue in the mini program's storage, the tokens | enqueue, flush after going online, refresh | B02 |
| Assistant, HTTP plumbing, deployment | none of the above | | |

What must hold, part by part:

- *Task fulfilment*: a task is DELIVERED when every stop was scanned, COMPLETED
  when every stop was signed; a store signs what has arrived, once; the balance
  is the opening stock plus the receipts; the history of events has no gap; a
  write with an old version is refused; a retry returns the original answer.
- *Plan dispatch and worker*: an order travels in one plan, plan and task agree, and a
  task never goes back, except where two transactions overlap in a way the property
  names; every accepted request is answered; every event is handled or a dead letter.
- *Event feeds*: nothing is skipped, given twice, or given before it is committed.
- *Sessions*: a sign-in ends the sessions the user had before it.
- *Submissions*: one key makes one row and one event; a store has one report a day;
  every anomaly has an alert, which is never opened again; an attachment has its file.
- *Offline queue*: what was queued is delivered once, and not forgotten before.
- *Algorithms*: every order in one candidate; a candidate fits its vehicle; a
  recommendation is not dominated; a forecast lies where it should.
- *Dashboard*: what the worker has handled is shown, and in the end all there is.

The behaviours that are hard to test are listed, each at its line, under
`hazards` in `PROJECT.json`.

## 2. Modules

| Module | What it is |
|---|---|
| `TaskLifecycle` | The life of a task when every request is one step: the abstract specification. |
| `TaskFulfilment` | The same life as statement-level transactions of threads; implements `TaskLifecycle` when requests do not overlap. |
| `PlanDispatch` | B01's plan handlers, the outbox and the worker, with the task abstracted to the statuses the worker looks at. |
| `EventStream` | Writers of the outbox, the WebSocket feed and a client that reconnects. |
| `Sessions` | `issue_tokens` and everything that revokes a session. |
| `Submissions` | The requests of B02 that record something once, uploads, alerts, and a server that fails. |
| `Mailbox` | What a user may expect of queued requests: an abstract specification. |
| `OfflineQueue` | The mini program's queue over `Submissions`, and callers that send directly; implements `Mailbox`. |
| `Carpool` | The greedy loop that groups orders, one turn a step. |
| `Planning` | The previews of B01 over `Carpool`: warehouses, procurement, forecasts. |
| `Dashboard` | The builders of the projection: worker and scheduler. |
| `MC...` | Instances for TLC: routes, loads, candidates, audiences, symmetry, later initial states. |
| `TaskFulfilmentProofs` | Theorems about `TaskFulfilment`, in three parts: its safety; its books; that it implements `TaskLifecycle`. |
| `PlanDispatchProofs`, `EventStreamProofs`, `SessionsProofs`, `OfflineQueueProofs`, `DashboardProofs` | The theorems about the module of that name; `OfflineQueueProofs` has those about `Submissions`, too. |
| `CarpoolProofs`, `PlanningProofs` | The theorems about the loop of `run_carpool`; those about the previews, which use them. |

### TaskFulfilment

A thread takes a request (`Open...`, which is the load of the task row, the
idempotency lookup and the checks on the row), reads the rows it needs (`Read...`)
and commits. `seen[th]` holds what its session has loaded. `Commit` computes the
new columns from `seen` only (`NewStatus`, `NewStop`, `NewStock`, `NextVersion`,
`NewEvents`), writes a column only if it differs from the loaded value (`Written`:
SQLAlchemy's UPDATE names no other), and is possible only if no unique constraint
is violated (`NoDuplicate`); otherwise the thread ends in `Rollback`. The worker's
publish and cancel are requests of the same shape, at most one at a time, without
version and idempotency checks.

Abstractions: a stop is its store; a QR token is live or expired (a two-day
lifetime passes at any moment); the reads of the balances and of the number of
unsigned stops, two SELECTs in a row, are one step: no property relates the one to
the other. Row locks, which only make one of two conflicting statements wait, are
left out. Audit rows, payloads and roles are left out, and so are rejected
requests: they change nothing.

### PlanDispatch

`OpenConfirm`/`OpenPublish`/`OpenCancel` load and check, `CommitConfirm`/
`CommitRequest` write the plan, the orders and an outbox event. The worker polls up
to `Limit` events (`Poll`), takes them in order (`Take`: the event is locked, plan
and task are loaded), and either commits the handler's effect (`Handle`) or, when
the handler raises or the database fails, counts the attempt (`Reject`, `Fail`).
`Crash` loses the batch and the open transaction; systemd starts the process
again. `CreateTask`, `PublishTask`, `CancelTask` are the three handlers as
functions from the loaded row to the new one; an UPDATE names a column only if it differs
from the loaded value (`Written`).

A driver's or store's request is a transaction of its own, too: `Load` is the load of the
task, `Accept`, `Pickup`, `Carry` and `Sign` are commits that test the *loaded* status and
write over whatever the row has become. `PICKED_UP` stands for every status from there to
STORE_SIGNED, because the worker tells no more apart; the rest of these requests is
`TaskFulfilment`. The outbox is in commit order here; that sequence numbers may disagree
with it is the subject of `EventStream`.

Three history variables record who overlapped whom, and no action reads them: `older[p]`, the
plans that were there when the confirmation of `p` was checked (`found` until it commits), and
`overtaken`, the plans whose task the worker cancelled while a driver's transaction on it was
under way. The properties use them to say exactly how far a promise goes: a CANCELLED plan
has a task to work on only if it was overtaken; two plans share an order only if each was
checked before the other's commit; a task goes back only in a commit over a status that its
transaction has not read (`CommitsOldRead`).

Versions are left out: a body's `object_version` is compared with the row just loaded, which
a client that has read that row passes, and no UPDATE repeats the comparison. So are the
idempotency keys, and the attempts of an event that is settled.

### EventStream

A writer takes sequence numbers when it inserts and shows the rows when it commits.
`Push` is one turn of `mobile_events`: the first `Limit` rows behind the cursor, those
visible to the user are sent, then the cursor. The client (modelled after
`contracts/miniapp/examples/websocket.example.js`) stores the cursor of each message
and reconnects with it; a broken connection loses what is on its way. The event
stream of B01 is the case of a client that sees everything.

### Sessions

`Load` is the user loaded by password, WeChat or refresh token, `RevokeAll` the UPDATE
of the open sessions that are visible at that moment, `Grant` the commit of the new
version and session. `Accepted` is the test of `get_current_user`. Logout, idle
timeout and the scheduler's sweep are single steps. `known` and `since` are history: how many
sessions there were when a transaction loaded its user. `SingleDevice` is stated with them,
because overlapping sign-ins are both accepted: a session is accepted beside a newer one only
if the newer one's transaction had loaded the user before the older one was granted.

### Submissions

One caller has one request under way. `Accepted` is the arrival and the lookup of the
key (`load_idempotent`), `SeeReport`/`SeeAlerts` the statement that looks for a report of
the day or for OPEN alerts, `CreateStockout`, ..., `IngestTelemetry` the commits of the
handlers: row, event and idempotency record together, possible only if no unique
constraint is violated (`Free`), otherwise `Collide`. `LoadAlert`/`UpdateAlert` are the
two halves of an administrator's change, and `announced` the alert events of the outbox, each
with the version and the status it tells. An upload goes to disk first (`OpenFile`,
`WriteFile`), the row comes last (`Attach`). Answers get lost, callers stop waiting
(`Timeout`: the thread works on), statements fail, the server dies (`Crash`: the
files stay, the transactions do not).

A request is its kind, its key and as much of its body as the code looks at: the day of
a report, the set of anomalies of a batch, the content of an upload. One store and one
task stand for all, since a key belongs to a user and an endpoint.

### OfflineQueue

`Enqueue`, `StartFlush`, `NotDue`, `Send`, `Answered` and `EndFlush` are the statements of
`enqueue` and `flush` in `offline-outbox.example.js` between two awaits. A flush is a
caller of `Submissions`; two may run, as `onNetworkStatusChange` starts one without a
look at the other; each works on its copy and overwrites the stored queue at its end.
`Kill` leaves the storage alone and takes the rest.

`MailKept` maps the state to `Mailbox`: a letter is *queued* while it is in the storage,
*delivered* when the server has a row for it, *forgotten* when it has left the storage.
The mapping leaves out the letters enqueued while a flush is on (`lot` is "late"): the
code overwrites those at `EndFlush`, see "Also noticed".

### Carpool and Planning

`Match` and `GiveUp` are a turn of the loop of `run_carpool` that does or does not find a
candidate. `CarpoolTurn`, `CarpoolPreview`, `WarehousePreview`, `Procurement` and
`DemandForecast` are the requests; each leaves an `AlgorithmRun`, and a preview changes
nothing another one reads. `Eligible`, `Heads`, `Score`, `Firsts`, `Forecast` are the pure
functions; where the database returns rows in any order, the model takes any. Of the sorted
list of warehouses the model keeps which may head it (`Heads`), as of the suppliers: the
code decides and recommends by the first alone. A filter over the queue is `Only`, a sum
`Sum`, both a loop over a sequence as in the code. Places
lie on a line, in kilometres: like the great-circle distance it is a metric in
which nearness is not transitive, which is what the rules depend on. Money and
forecasts are in hundredths, unit prices in ten-thousandths. The total of an offer is rounded
to the cent as in the code (`Amount`), so that offers less than a cent apart are equal;
forecasts are rounded down where the code rounds to the nearest hundredth. sMAPE, which nothing reads, is left out.

### Dashboard

`ReadReports`, `ReadTasks`, `ReadStops`, `ReadAlerts`, `ReadOrders`, `FindRow` are the
statements of `build_dashboard` and `refresh_dashboard_projection` in their order, each
seeing what is committed by then and what its own session has changed or flushed
(`TaskSeen`, `OrderSeen`). `Handle` is the worker's commit of an event with the snapshot,
`Refresh` the scheduler's. The UPDATE names the snapshot only if it differs from the
loaded one (`Write`), and a second first insertion violates the primary key
(`Collide`). `Confirm`, `RequestCancel`, `Report` and `MoveAlert` are what B01 and B02
commit meanwhile. A plan has one order and one task; totals, charts and coordinates,
functions of the rows read, are left out.

## 3. Runs

Every run has deadlock checking off: a system in which all tasks are completed and
all bounds are used up may stop.

### What holds

| Run | Shows | Instance |
|---|---|---|
| `FulfilmentSerial` | `TaskFulfilment` implements `TaskLifecycle` when requests do not overlap; the books balance | 1 task, 2 stops, 1 thread, quantities to 2, room for the whole life and one more request |
| `FulfilmentRaces` | DELIVERED and COMPLETED never claimed too early, one completion, receipts only after delivery, old reads stay true, no gap in the history, stock never invented | 2 threads; an accepted task with 2 stops, or 2 delivered tasks at one store with 2 products |
| `DispatchRaces` | plan and task agree and no task goes back but for commits from old reads; loaded rows stay good; only overlapping confirmations share an order; orders follow the cancellation; every event settles, every cancellation is answered | 2 runs that share an order, 2 administrators and a driver with a transaction each, worker with a failure or crash, fairness |
| `StreamOneWriter` | nothing is skipped, given twice or given too early, and everything arrives | 1 writer at a time, 2 clients, a lost connection, fairness |
| `SessionsOverlap` | two accepted sessions of a user only from overlapping transactions | 2 users, 2 transactions, 3 sessions |
| `PlanningPreviews` | every order placed once, candidates fit and deliver all, none given up wrongly; warehouses, suppliers and forecasts are what they promise | every order book of 4 orders over the listed weights and places, 5 vehicles, 4 warehouses, pairs and triples of price tiers, histories to 5 months |
| `QueueAndServer` | one key one row; every anomaly alerted, every alert standing as announced; two OPEN alerts only from batches served at once; attachments whole; the phone keeps its mail, and locations arrive | 6 agendas of 1 to 3 requests, 2 flushes, 2 threads, a lost answer, kill, failure or crash, fairness |
| `DashboardRaces` | what the worker leaves shows what it has handled, a route without stops is about to be corrected, and the projection converges | a plan's whole way, or 2 reports, or a report and an alert; worker and scheduler; a failure, fairness |

The type invariants of `TaskFulfilment`, `EventStream` and `Sessions` are theorems
(section 4) and not repeated in the runs.

### What the code does not do

Each of these runs checks one sentence of the documents or tests of the repository
and ends in a counterexample; the details are under `findings` in `PROJECT.json`.

| Run | Sentence | What happens |
|---|---|---|
| `FulfilmentNeverCompletes` | all signed means COMPLETED | the last two signatures overlap and the task stays STORE_SIGNED |
| `DispatchOrdersOpen` | results go back to B01 | the event of a signature lacks the field the worker reads; no order is ever COMPLETED (no race needed) |
| `DispatchRevived` | CANCELLED stays CANCELLED | a creation retried after the cancellation makes the plan READY |
| `StreamSkips` | no event lost over a reconnection | a late commit behind the cursor |

`LedgerBalanced` is about requests that do not overlap and fails with two threads: the later of
two additions to a balance overwrites the earlier, and two requests with one `object_version`
are both accepted. To see it, change that line of the configuration. `FulfilmentRaces` has what
is left of it then, `StockNeverInvented`.

### Also noticed

Behaviours of the code that no run states as a violation, either because no document
promises the contrary or because a property says exactly how far the promise goes:

- A driver's ACCEPT or PICKUP that was loaded before the worker cancelled the task and is
  committed after it writes over CANCELLED: the plan and its orders stay CANCELLED, the task
  is live. And the worker may cancel a task whose cargo was picked up since it looked.
- Two confirmations of one run, or of runs that share an order, are both accepted if each is
  checked before the other commits (a `plan_no` with the same second and run is refused).
- Two overlapping cancellations of a plan leave two events; the second changes nothing.
- A plan cancelled before its task was made leaves its orders CONFIRMED (`worker.py:103`);
  `OrdersFollowCancel` is about the plans that had a task.
- Overlapping sign-ins or refreshes of a user are both accepted: both grant the same version.
- A letter enqueued while a flush awaits an answer is overwritten by the end of that
  flush (`offline-outbox.example.js:43`); `MailKept` excludes it by name.
- The queue marks an item as blocked and never looks at the mark: it is sent again.
- Telemetry batches served at the same time may open two alerts of a type; `OpenTogether`
  says that only they may.
- Two administrators who change an alert from one version announce that version twice,
  and a RESOLVED alert may become ACKNOWLEDGED; it never becomes OPEN.
- The second of two daily reports sent at once ends in a 500 and not in the conflict
  that a later one gets; a retry then gets the conflict.
- A crash between the file of an upload and its row leaves the file for good;
  `AttachmentsWhole` bounds how many.
- The anchor of a candidate may be left out of it; two of its orders may then be twice as
  far from one another as the rules allow (`Explained`).
- A merged line of a stop carries the unit of its first order.
- With fewer than two seasons the forecast gives the oldest of three months the largest weight.
- The scheduler may overwrite the projection with an older one; if the queue is empty it
  stays until the next job (`HandledIsShown` is about the worker's snapshots).
- The order of a cancelled task is still counted as a preorder.

### Bounds

- `Threads`, `Admins`, `Drivers`, `Writers`: two transactions are enough for every conflict between
  a read and a commit; the theorems of section 4 hold for any number.
- `MaxVersion`, `Keys`: the longest life of a task with two stops takes nine versions
  and six action keys; a constraint (`KeysInOrder`) says that fresh keys are taken in
  order, since they are interchangeable. `FullReceipts` leaves out partial and
  rejected receipts where quantities do not matter; `FulfilmentSerial` and
  the short tasks of `FulfilmentRaces` have them. `OnlySignatures` leaves out repeated scans where
  only the stock matters.
- `After(n)` in `MCTaskFulfilment` starts a run from the state that the first *n* requests
  lead to, so that the overlapping part is explored in depth: the cancellation still
  overlaps the pickup, and the publication and acceptance are in `FulfilmentSerial`.
  `FreshKeys` keeps the keys of these requests spent.
- `MaxPlans`, `MaxEvents`, `MaxFaults`, `MaxAttempts`, `Limit`: a plan has five events
  of interest, of which four fit in `DispatchRaces`; one fault, with two attempts
  allowed and not five, reaches both the retry and the dead letter; a page of two
  makes batches end between events.
- `MaxSeq`, `MaxDrops`: two pages and a lost connection.
  A driver's transaction overlaps the worker's and the administrators' two; two drivers on one
  task are in `FulfilmentRaces`.
- `MaxSessions`: three sessions, two of one user by overlapping transactions and one after or
  before them.
- `Agendas` of `QueueAndServer` puts together the requests that can meet: a location beside a
  report from the queue; two reports of a day, from the queue and directly; two batches with
  the same anomaly, a batch with two; two uploads; two bodies under one key. Requests of different
  agendas share no row. `MaxFaults`: one lost answer, kill, failure or crash, at any
  moment. An alert is opened, acknowledged and resolved, or changed by two at once, and then has
  no change left.
- `Agendas` of `DashboardRaces`: what a builder reads of plans, reports and alerts is read in
  statements of their own and only meets in the one row. `MaxEvents` lets a plan go its whole
  way (confirmed, task confirmed, cancellation, task cancelled). `MaxAttempts` of two reaches
  retry and dead letter.
- `PlanningPreviews`: the weights, volumes and places are chosen so that every rule is met
  exactly, missed by one, and not at all: 20 and 21 km, 90 % of a vehicle's weight and of its
  volume, a nearest warehouse that is full, one whose free room is
  just enough, one at 30 km. Prices
  are equal, less than a cent of the total apart, just a cent apart with equal scores, and far apart
  (the third price takes the weight off the difference of the other two). `Season` is two months, so that histories of up to five are
  shorter than, just as long as and longer than two seasons.

### Fairness

`DispatchRaces` assumes weak fairness of the worker as a whole: `main` polls every two seconds for ever and systemd
restarts it (`Restart=on-failure`). Nothing is assumed of administrators, drivers and stores.
`StreamOneWriter` assumes weak fairness of each feed: the loop of `mobile_events` does
not end and the client's `onClose` reconnects for ever; the connections lost are
bounded, as no feed works over one that always breaks.
`QueueAndServer` assumes that a thread of the server ends what it has begun, that each flush
goes on while the program runs and is started again when the network returns, and (strong
fairness) that a letter which is at the head of a flush again and again is sent some time: the
next attempt is at most five minutes away, so it does not stay not due for ever. Nothing is
assumed of users and administrators.
`DashboardRaces` assumes weak fairness of the worker, as above, and of the scheduler's job,
which a timer starts every day (`deploy/systemd`).

## 4. Proofs

The theorems hold for every value of the constants that satisfies the named
assumptions (`RouteAssumption`, `DispatchAssumption`, `StreamAssumption`,
`SessionAssumption`, `SubmissionsAssumption`, `QueueAssumption`, `DashboardAssumption`), which
only say what kind of value each constant is, and those of the algorithms:

| Assumption | What it says | Why |
|---|---|---|
| `BooksAssumption` | orders have different ids and come in order of departure | `id` is the primary key (`models.py:176`); `sorted` by `departure_at` is the first thing the loop does (`algorithms.py:71`) |
| `RowsAssumption` | weights, volumes, quantities are not negative | the schema wants more than 0 (`schemas.py:65-68`) |
| `FleetAssumption` | nor are capacities | vehicles come from the seed only (`seed.py:141-142`) |
| `WarehousesAssumption` | places and capacities are numbers, of either sign | a full warehouse may have less than nothing left |
| `ProcurementAssumption` | more than nothing is asked for; prices and scores are not negative; a table is finite | `b01/main.py:542`; tiers and suppliers come from the seed only (`seed.py:176-198`) |
| `DemandAssumption` | demand and plans are not negative; a season has a month | both come from the seed only (`seed.py:246-263`) |

A theorem that needs more says so in its
statement: `Threads = {w}` (or `Writers`) where it is about requests that do not overlap: the
two about the books and the documented life of `TaskFulfilment`, and the one about skipped
events. Those of `PlanDispatch` and `Sessions` hold however requests overlap.

- **TaskFulfilmentProofs.** `TypeCorrect`; then `CompletionIsSafe`, `ArrivalIsSafe`,
  `ReceiptsAreSound`, `ReadsAreStable` from one inductive invariant. None of the first
  three is inductive: a commit writes from reads that may be old, so the invariant
  must say which conclusions an open transaction draws and that they are still true
  (`ReadsStillHold`). They are, because the facts concluded ("this stop was scanned",
  "that store has its receipt") are never taken back: stops and receipts only
  advance. That is the argument why overlapping requests, which can lose stock
  and versions, cannot complete a task too early. `CompletionIsUnique` follows from
  the uniqueness of receipts: of two transactions that found themselves last, each
  would need the other's receipt before its own. `HistoryIsComplete`: the status an open
  transaction has read was reached by an event, even if it is no longer the status of the
  task, since events are never removed; the one that commits last starts from it.
  Its books: `StockIsCovered`, for any number of overlapping signatures: what a
  signature has read of a balance is covered by the opening stock and the receipts of
  its store (`ReadCovered`), and it adds to that read exactly what its own new receipt adds
  to the sum. The receipts of a store only grow, so a balance written from an old read is
  covered all the more. `SerialBooksBalance`, for one thread: what it has read is still the
  balance, so the inequality becomes an equation. The sum over receipts is a fold over a set;
  lemmas at the head of that part prove that a fold over a finite set exists and that a
  new member adds its own share, by well-founded induction on the subset ordering (a
  smallest set for which it fails cannot exist), since the library's induction rule
  takes an operator as a parameter.
  Its refinement: `SerialImplementsLifecycle`: with one thread the statements of
  `TaskFulfilment` implement the abstract life. The commit is the abstract step and
  every other statement a stutter; for the commit to be allowed there, what the
  transaction has read must be what is there (`Current`), and status and stops must fit
  one another (`RowsFit`), which is what the code's conditions take for granted.
- **PlanDispatchProofs.** `TypeCorrect`, `PlansAgree`, `LoadedRowsHold` and
  `TasksOnlyAdvance` from one invariant. Its core is that only the worker takes a task
  out of NONE or CONFIRMED or makes a plan PUBLISHED or CANCELLED, so that what its transaction
  has loaded without a lock can be overtaken by drivers and administrators only
  in ways its handlers allow; and that a task some driver works on was
  published and never goes back behind that (`WorkedOn`). A driver may write over CANCELLED:
  then its transaction was under way at the cancellation, since nobody works on the task of a
  plan that was cancelled undisturbed (`LeftAlone`). `NoOrderTwice` and `CancelledWithTheirTask` come
  from a second invariant (`OrdersInv`): an order that a plan was made of never becomes DRAFT
  again (`PlannedNotDraft`), so that a confirmation that is open shares none with the plans
  there were at its check (`CheckedApart`). So a later plan takes an order of an earlier one
  only if it was checked before that one was made.
- **EventStreamProofs.** `TypeCorrect`; `DeliveryIsSound`: events on the wire and events
  given are on different sides of the stored cursor; `OneWriterSkipsNothing`, under the
  assumption that `Writers` is a singleton: the rows committed later have higher
  numbers than those committed before, and the proof needs that the first page behind
  the cursor is a prefix.
- **SessionsProofs.** `TypeCorrect` for any number of transactions;
  `OldSessionsRefused`, for any number, too: the sessions a transaction past its UPDATE will
  revoke include every live one of its user that was there when it loaded the user
  (`RevokesOlder`), so that of two live sessions the later one had begun before the earlier
  one's grant (`Overlapped`).
- **OfflineQueueProofs.** `KeysCountOnce`, from `ServerInv`: a thread at work has a request of
  the right kind, and what was made once is recorded, the records agreeing on no key. The
  lookup of a key proves nothing by itself, since it is a statement away from the
  insertion; the constraint at the commit does. `MailIsKept`, the refinement of `Mailbox`,
  from `PhoneInv`: a letter that was queued and is not delivered is in the storage *and* in
  the copy of every flush that is on (what it has kept or has still ahead), because a flush only
  drops what was answered with a success, an answer belongs to the letter at the head, and a
  success means that there is a row. Two flushes may therefore overwrite one another:
  whichever is last stores every letter that is still needed, and may bring back one that
  is not, which the key makes harmless.
  `AnomaliesAreAlerted` and `TwoOpenMet`, from `AlertsInv`: two batches at work have met
  (the later one arrived while the earlier was there); a batch that has looked will open an
  alert of each type for which there is none, and an OPEN alert of a type it is about to
  open is of a batch it has met, since otherwise it would have seen it; an administrator at
  work holds a version that was announced and a status that is not OPEN, so that whatever
  order two of them commit in, no alert is opened again and each stands as one of its events tells
  (`AnnouncedInv`).
  `AttachmentsAreWhole`, from `FilesInv`: a thread that uploads has a file of its own, whole
  once it is written and without a row until it commits; only a fault or a crash parts
  a file from its thread, and takes at most one file of each thread, so that the files left
  over are no more than faults times threads. `TypesKept` follows from all of these.
- **DashboardProofs.** `Typed`, `WorkerShowsHandled` and `NakedRoutesAreNew` from one invariant.
  What an event announces has happened (`Happened`). While it builds, the worker's reads of tasks
  and stops are what there is, as only the worker makes and cancels tasks (`WorkerInv`), and those of
  reports and alerts are late enough for every event it will answer for. The one row may
  be overwritten by a refresher between the worker's look at it and its commit: the worker then
  either writes, or it left the row alone because it had found what it would have
  written, and the row is the refresher's. A refresher reads the stops after the tasks, and
  a task is committed with its stops, so that no refresher shows a route without them
  (`RefresherInv`).
- **CarpoolProofs.** The four promises of the carpool loop, for any orders and any fleet, from
  `Inv == Queued /\ Recorded /\ EachOrderOnce /\ CandidatesFit`. `EachOrderOnce` is not
  inductive by itself: a turn removes the group that it records, but only if the group has no
  order twice and consists of orders of the queue, which must have none twice either (`Queued`).
  Nor is the rest: an order is explained by an anchor that left before it only if the queue is
  sorted by departure. Since a group need not contain its anchor, the proof counts: the lengths
  of the three lists add up to that of the DRAFT orders, and their elements are the same set.
  `CarpoolStopsDeliverAll` follows from `Recorded` (the stops are those of the orders taken,
  and ids differ) and from `SumOnly`: the sum over what a filter keeps is the sum over all, with
  nothing for what it drops. `CarpoolGivenUpRightly` is an action property: the vehicles are filled
  first fit with the anchor at the head (`AnchorGroup`), so if the anchor and one more
  order fit, the anchor is taken, and then either another order or that one (`SelectedPair`).
  The functions of this module are recursive on `0..n`. Neither their existence nor an induction
  over them is to be had from a rule with an operator as a parameter, so `LoopRuns` proves that a
  loop has a trace, by the smallest initial segment of `1..n` that has none, and `Climb` that
  what a turn preserves holds along it.
- **PlanningProofs.** `PreviewedCarpool` takes these over: nothing but the loop moves its
  variables. `PlanningInv` adds that every run recorded is right for the rows it was computed
  from (`RunsRight`). `PlanningWarehouseOffered`: the head of the list is the nearest eligible
  warehouse, or not eligible at all, and then none is; the pools of two orders are the same or
  disjoint. `PlanningUndominated`: prices become marks by a quotient rounded half up, which keeps
  the order (`RoundDivGrows`) but may make different prices equal; then the amounts
  decide, which are rounded to the cent (`AmountGrows`), and the offer with the smaller one is
  the cheaper. A first offer exists because a finite
  table has a greatest score (`Greatest`). `PlanningForecastSound`: the margin is not negative and
  the lower bound is cut at 0; a constant demand makes every quotient exact, in both
  methods and for one, two, three and more months; the weights of a short history are
  positive and divided by their sum, so that the mean lies between the least and the greatest.

Only model-checked: the liveness properties (`EventsSettle`, `CancelAnswered`, `EventsArrive`,
`LocationsArrive`, `Converges`), since the
proof system does not handle fairness together with ENABLED. Every invariant and every action
property that a passing run checks is a theorem.

## 5. Plan

Done: every module of section 2, and the safety of all of them as theorems. What is left, in
this order:

1. `DispatchWorkers`: two workers and the row lock. Deployed is one; the hazard (an
   attempt counted without a look at the status) is listed.
2. `EventStream` with `Sessions` for the token of a connection, and the refresh of
   `request-client.example.js`, whose answer may be lost.
3. `System`: `PlanDispatch` over `TaskFulfilment` with `TaskLifecycle` as the interface.

## 6. Not modelled

- *Assistant*: calls of an outside language model; it keeps no state.
- *Rate limiter*: a window of times in memory; one event loop and a lock make every call one
  step, and what is allowed is what its one comparison says.
- *HTTP plumbing, configuration, schemas*: validation, formatting and settings. Roles and
  scopes are checked on loaded rows before everything else and change nothing.
- *Seed and migrations*: run once, before the services; the models use the columns and
  unique constraints they lead to.
- *Deployment scripts*: of these only the restart of a service is used.
- *The creation of orders, products, vehicles and users* by administrators: single
  insertions; orders, candidates, fleets and users are given in the initial state.
- *Exports, lists and detail requests*: they read.
