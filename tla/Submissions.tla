----------------------------- MODULE Submissions -----------------------------
(***************************************************************************)
(* The requests of B02 that record something once: stockouts, daily        *)
(* reports, locations, exceptions and telemetry, which an idempotency key  *)
(* makes repeatable, and uploads, which have none; and the life of the     *)
(* alerts that telemetry opens.                                            *)
(*                                                                         *)
(* A caller (a run of the phone's queue, a device, a browser) has one      *)
(* request under way.  A thread of the server works on it, in a            *)
(* transaction of its own: statements that look, then one commit.  Answers *)
(* get lost, callers stop waiting while the thread works on, the server    *)
(* dies.  One store and one task stand for all: a scope has its own keys.  *)
(***************************************************************************)
EXTENDS Integers, Sequences, FiniteSets

CONSTANTS
    Requests,   \* [kind, key, body]
    Callers, Nobody,
    Threads,
    NoRequest,
    MaxFaults   \* bound on lost answers, failures and crashes

(* The body is the day of a report, the set of anomalies of a telemetry    *)
(* batch and the content of an upload; of the others it only matters that  *)
(* it is the same in a retry.                                              *)
Plain == {"STOCKOUT", "LOCATION", "EXCEPTION"}
Kinds == Plain \cup {"REPORT", "TELEMETRY", "UPLOAD"}
Anomalies == {"TEMPERATURE", "HUMIDITY"}

ASSUME SubmissionsAssumption ==
    /\ \A r \in Requests : /\ r.kind \in Kinds
                           /\ r.kind = "TELEMETRY" => r.body \subseteq Anomalies
    /\ IsFiniteSet(Threads) /\ Nobody \notin Callers
    /\ NoRequest \notin Requests
    /\ MaxFaults \in Nat

VARIABLES
    made,      \* made[r]    rows that r has inserted
    records,   \* idempotency_records: the requests that have one
    events,    \* events[r]  outbox events about those rows
    alerts,    \* the alerts, in order of their opening: by (history) is the
               \* batch that opened them
    announced, \* outbox events about alerts: what each says of which alert
    disk,      \* files of the upload directory: [of, n, whole]
    attached,  \* the files with an attachment row
    pc, req,   \* what thread th works on,
    from,      \* for which caller,
    seen,      \* and what its session has loaded, as a sequence
    answer,    \* what caller c has got for its request
    met,       \* history: the pairs of telemetry batches served at once
    faults

rows == <<made, records, events, alerts, announced, attached>>
threadVars == <<pc, req, from, seen>>
serverVars == <<rows, disk, threadVars, answer, met, faults>>

AlertStatus == {"OPEN", "ACKNOWLEDGED", "RESOLVED"}
File == [of : Requests, n : Nat, whole : BOOLEAN]
AlertChange == [kind : {"ALERT"}, key : Nat, body : {"ACKNOWLEDGE", "RESOLVE"}]

ServerTypeOK ==
    /\ made \in [Requests -> Nat] /\ events \in [Requests -> Nat]
    /\ records \subseteq Requests
    /\ alerts \in Seq([type : Anomalies, status : AlertStatus, version : Nat, by : Requests])
    /\ announced \subseteq [alert : Nat, version : Nat, status : AlertStatus]
    /\ disk \subseteq File /\ attached \subseteq File
    /\ pc \in [Threads -> {"idle", "checked", "looked", "alert", "writing", "written"}]
    /\ req \in [Threads -> Requests \cup AlertChange \cup {NoRequest}]
    /\ from \in [Threads -> Callers \cup {Nobody}]
    /\ answer \in [Callers -> {"none", "waiting", "ok", "refused", "error"}]
    /\ met \subseteq SUBSET Requests
    /\ faults \in 0..MaxFaults

ServerInit ==
    /\ made = [r \in Requests |-> 0]
    /\ records = {}
    /\ events = [r \in Requests |-> 0]
    /\ alerts = <<>> /\ announced = {}
    /\ disk = {} /\ attached = {}
    /\ pc = [th \in Threads |-> "idle"]
    /\ req = [th \in Threads |-> NoRequest]
    /\ from = [th \in Threads |-> Nobody]
    /\ seen = [th \in Threads |-> <<>>]
    /\ answer = [c \in Callers |-> "none"]
    /\ met = {}
    /\ faults = 0

----------------------------------------------------------------------------

Work(th, c, r, step, looked) ==
    /\ pc[th] = "idle"
    /\ pc' = [pc EXCEPT ![th] = step]
    /\ req' = [req EXCEPT ![th] = r]
    /\ from' = [from EXCEPT ![th] = c]
    /\ seen' = [seen EXCEPT ![th] = looked]

Finish(th) ==
    /\ pc' = [pc EXCEPT ![th] = "idle"]
    /\ req' = [req EXCEPT ![th] = NoRequest]
    /\ from' = [from EXCEPT ![th] = Nobody]
    /\ seen' = [seen EXCEPT ![th] = <<>>]

(* A caller that has stopped waiting does not hear the answer.             *)
Answer(th, what) ==
    /\ answer' = IF from[th] = Nobody THEN answer ELSE [answer EXCEPT ![from[th]] = what]
    /\ Finish(th)

Fault == faults < MaxFaults /\ faults' = faults + 1

----------------------------------------------------------------------------
(* A request arrives; load_idempotent decides whether it is done already.  *)

SameKey(r) == {q \in records : q.kind = r.kind /\ q.key = r.key}

Meets(r) ==
    IF r.kind = "TELEMETRY"
    THEN met \cup {{r, req[th]} : th \in {u \in Threads : /\ pc[u] # "idle"
                                                          /\ req[u].kind = "TELEMETRY"}}
    ELSE met

Replayed(c, r) ==
    /\ answer[c] = "none" /\ r.kind # "UPLOAD"
    /\ SameKey(r) # {}
    /\ answer' = [answer EXCEPT ![c] = IF r \in records THEN "ok" ELSE "refused"]
    /\ UNCHANGED <<rows, disk, threadVars, met, faults>>

Accepted(c, r) ==
    /\ answer[c] = "none" /\ r.kind # "UPLOAD"
    /\ SameKey(r) = {}
    /\ \E th \in Threads :
        Work(th, c, r, IF r.kind \in Plain THEN "looked" ELSE "checked", <<>>)
    /\ answer' = [answer EXCEPT ![c] = "waiting"]
    /\ met' = Meets(r)
    /\ UNCHANGED <<rows, disk, faults>>

(* create_daily_report looks for a report of the day, a statement later.   *)
SeeReport(th) ==
    /\ pc[th] = "checked" /\ req[th].kind = "REPORT"
    /\ IF \E q \in Requests : /\ q.kind = "REPORT" /\ q.body = req[th].body
                              /\ made[q] > 0
       THEN Answer(th, "refused")
       ELSE pc' = [pc EXCEPT ![th] = "looked"] /\ UNCHANGED <<req, from, seen, answer>>
    /\ UNCHANGED <<rows, disk, met, faults>>

Open(type) == \E i \in DOMAIN alerts : alerts[i].type = type /\ alerts[i].status = "OPEN"

(* The code goes through the anomalies of a batch in alphabetical order.   *)
InOrder(types) ==
    IF types = {} THEN <<>>
    ELSE IF types = Anomalies THEN <<"HUMIDITY", "TEMPERATURE">>
    ELSE <<CHOOSE type \in types : TRUE>>

(* Mutant: the first anomaly of a batch is enough.                         *)
MissingFirst(anomalies) ==
    {type \in anomalies : ~Open(type) /\ type = Head(InOrder(anomalies))}

Missing(anomalies) == {type \in anomalies : ~Open(type)}

(* ingest_telemetry looks for an OPEN alert of each type it has found.     *)
SeeAlerts(th) ==
    /\ pc[th] = "checked" /\ req[th].kind = "TELEMETRY"
    /\ pc' = [pc EXCEPT ![th] = "looked"]
    /\ seen' = [seen EXCEPT ![th] = InOrder(Missing(req[th].body))]
    /\ UNCHANGED <<rows, disk, req, from, answer, met, faults>>

----------------------------------------------------------------------------
(* The commits.  The row, its event and the idempotency record go in       *)
(* together; the database refuses all of them if one violates a key.       *)

(* Mutant: a store and day are no key of the reports.                      *)
FreeOnAnyDay(r) == SameKey(r) = {}

Free(r) ==
    /\ SameKey(r) = {}
    /\ ~ \E q \in Requests : /\ q.kind = "REPORT" /\ r.kind = "REPORT"
                             /\ q.body = r.body /\ made[q] > 0

Insert(th, kind) ==
    LET r == req[th] IN
    /\ pc[th] = "looked" /\ r.kind = kind
    /\ Free(r)
    /\ made' = [made EXCEPT ![r] = @ + 1]
    /\ events' = [events EXCEPT ![r] = @ + 1]
    /\ records' = records \cup {r}
    /\ Answer(th, "ok")
    /\ UNCHANGED <<alerts, announced, disk, attached, met, faults>>

CreateStockout(th) == Insert(th, "STOCKOUT")
CreateDailyReport(th) == Insert(th, "REPORT")
CreateLocationPoint(th) == Insert(th, "LOCATION")
CreateTaskException(th) == Insert(th, "EXCEPTION")

Announcement(alert, version, status) ==
    [alert |-> alert, version |-> version, status |-> status]

(* A batch without anomalies announces nothing.                            *)
IngestTelemetry(th) ==
    LET r == req[th] IN
    /\ pc[th] = "looked" /\ r.kind = "TELEMETRY"
    /\ Free(r)
    /\ made' = [made EXCEPT ![r] = @ + 1]
    /\ records' = records \cup {r}
    /\ alerts' = alerts \o [i \in DOMAIN seen[th] |->
            [type |-> seen[th][i], status |-> "OPEN", version |-> 1, by |-> r]]
    /\ announced' = announced \cup {Announcement(Len(alerts) + i, 1, "OPEN") : i \in DOMAIN seen[th]}
    /\ Answer(th, "ok")
    /\ UNCHANGED <<events, disk, attached, met, faults>>

(* The second of two commits of a key, or of a store's day, fails: 500.    *)
Collide(th) ==
    /\ pc[th] = "looked"
    /\ ~Free(req[th])
    /\ Answer(th, "error")
    /\ UNCHANGED <<rows, disk, met, faults>>

----------------------------------------------------------------------------
(* update_alert: the version is compared with the loaded row, and the      *)
(* UPDATE names the row only.                                              *)

Target(status, action) ==
    CASE action = "ACKNOWLEDGE" /\ status = "OPEN" -> "ACKNOWLEDGED"
      [] action = "RESOLVE" /\ status \in {"OPEN", "ACKNOWLEDGED"} -> "RESOLVED"
      [] OTHER -> "NONE"

(* Mutant: an action that does not suit the status is not refused.         *)
LoadAlertAny(th, i, action) ==
    /\ Work(th, Nobody, [kind |-> "ALERT", key |-> i, body |-> action], "alert",
            <<Target(alerts[i].status, action), alerts[i].version>>)
    /\ UNCHANGED <<rows, disk, answer, met, faults>>

LoadAlert(th, i, action) ==
    /\ Target(alerts[i].status, action) # "NONE"
    /\ Work(th, Nobody, [kind |-> "ALERT", key |-> i, body |-> action], "alert",
            <<Target(alerts[i].status, action), alerts[i].version>>)
    /\ UNCHANGED <<rows, disk, answer, met, faults>>

Update(th, version, status) ==
    LET alert == req[th].key IN
    /\ pc[th] = "alert"
    /\ alerts' = [alerts EXCEPT ![alert] =
            [type |-> @.type, by |-> @.by, version |-> version, status |-> status]]
    /\ announced' = announced \cup {Announcement(alert, seen[th][2] + 1, status)}
    /\ Finish(th)
    /\ UNCHANGED <<made, records, events, disk, attached, answer, met, faults>>

(* Mutant: an alert that was worked on is opened again.                    *)
UpdateAlertReopens(th) ==
    Update(th, seen[th][2] + 1,
           IF alerts[req[th].key].status = "OPEN" THEN seen[th][1] ELSE "OPEN")

(* Mutant: the UPDATE counts the row's version on, whatever was loaded.    *)
UpdateAlertCountsOn(th) == Update(th, alerts[req[th].key].version + 1, seen[th][1])

UpdateAlert(th) == Update(th, seen[th][2] + 1, seen[th][1])

----------------------------------------------------------------------------
(* upload_attachment: the file first, under a fresh name, then the row.    *)

FileOf(th) == CHOOSE f \in disk : f.n = seen[th][1]

OpenFile(c, r) ==
    /\ answer[c] = "none" /\ r.kind = "UPLOAD"
    /\ \E th \in Threads, n \in 1..(Cardinality(disk) + 1) :
        /\ \A f \in disk : f.n # n
        /\ \A m \in 1..(n - 1) : \E f \in disk : f.n = m
        /\ disk' = disk \cup {[of |-> r, n |-> n, whole |-> FALSE]}
        /\ Work(th, c, r, "writing", <<n>>)
    /\ answer' = [answer EXCEPT ![c] = "waiting"]
    /\ UNCHANGED <<rows, met, faults>>

WriteFile(th) ==
    /\ pc[th] = "writing" /\ req[th].body = "image"
    /\ disk' = (disk \ {FileOf(th)})
               \cup {[of |-> req[th], n |-> FileOf(th).n, whole |-> TRUE]}
    /\ pc' = [pc EXCEPT ![th] = "written"]
    /\ UNCHANGED <<rows, req, from, seen, answer, met, faults>>

(* Not an image, too large, empty, or an error while writing: unlink.      *)
DiscardFile(th, what) ==
    /\ pc[th] = "writing"
    /\ disk' = disk \ {FileOf(th)}
    /\ Answer(th, what)
    /\ UNCHANGED <<rows, met>>

RejectFile(th) ==
    /\ pc[th] = "writing" /\ req[th].body # "image"
    /\ DiscardFile(th, "refused") /\ UNCHANGED faults

BreakFile(th) == Fault /\ DiscardFile(th, "error")

(* Mutant: the row is committed before the file.                           *)
AttachEarly(th) ==
    /\ pc[th] \in {"writing", "written"}
    /\ attached' = attached \cup {FileOf(th)}
    /\ made' = [made EXCEPT ![req[th]] = @ + 1]
    /\ Answer(th, "ok")
    /\ UNCHANGED <<records, events, alerts, announced, disk, met, faults>>

Attach(th) ==
    /\ pc[th] = "written"
    /\ attached' = attached \cup {FileOf(th)}
    /\ made' = [made EXCEPT ![req[th]] = @ + 1]
    /\ Answer(th, "ok")
    /\ UNCHANGED <<records, events, alerts, announced, disk, met, faults>>

----------------------------------------------------------------------------
(* Failures.                                                               *)

(* A statement or a commit fails: the transaction is rolled back.          *)
Fail(th) ==
    /\ pc[th] \in {"checked", "looked", "alert", "written"}
    /\ Fault
    /\ Answer(th, "error")
    /\ UNCHANGED <<rows, disk, met>>

(* The request does not reach the server, or the caller stops waiting      *)
(* while the server works on.                                              *)
Lose(c) ==
    /\ answer[c] = "none"
    /\ Fault
    /\ answer' = [answer EXCEPT ![c] = "error"]
    /\ UNCHANGED <<rows, disk, threadVars, met>>

Timeout(th) ==
    /\ from[th] # Nobody
    /\ Fault
    /\ answer' = [answer EXCEPT ![from[th]] = "error"]
    /\ from' = [from EXCEPT ![th] = Nobody]
    /\ UNCHANGED <<rows, disk, pc, req, seen, met>>

(* The server dies and starts again.                                       *)
Crash ==
    /\ \E th \in Threads : pc[th] # "idle"
    /\ Fault
    /\ answer' = [c \in Callers |-> IF answer[c] = "waiting" THEN "error" ELSE answer[c]]
    /\ pc' = [th \in Threads |-> "idle"]
    /\ req' = [th \in Threads |-> NoRequest]
    /\ from' = [th \in Threads |-> Nobody]
    /\ seen' = [th \in Threads |-> <<>>]
    /\ UNCHANGED <<rows, disk, met>>

Receive(c, r) == Replayed(c, r) \/ Accepted(c, r) \/ OpenFile(c, r)

Serve(th) ==
    \/ SeeReport(th) \/ SeeAlerts(th)
    \/ CreateStockout(th) \/ CreateDailyReport(th)
    \/ CreateLocationPoint(th) \/ CreateTaskException(th)
    \/ IngestTelemetry(th) \/ Collide(th)
    \/ UpdateAlert(th)
    \/ WriteFile(th) \/ RejectFile(th) \/ Attach(th)

Break(th) == Fail(th) \/ BreakFile(th) \/ Timeout(th)

----------------------------------------------------------------------------
(* What the server guarantees, however requests overlap, repeat or fail.   *)

(* ACCEPTANCE.md: one key makes one row, with one event, whether it is     *)
(* retried after a lost answer, sent twice at once, or used for two        *)
(* bodies; nothing is announced that was rolled back.  And a store has one *)
(* report a day, whoever sends it and in whichever order the check and the *)
(* commits of two managers interleave.                                     *)
OncePerKey ==
    \A r \in {q \in Requests : q.kind # "UPLOAD"} :
        /\ made[r] <= 1
        /\ r.kind # "TELEMETRY" => events[r] = made[r]
        /\ \A q \in Requests \ {r} :
            /\ q.kind = r.kind
            /\ q.key = r.key \/ (r.kind = "REPORT" /\ q.body = r.body)
            => made[q] + made[r] <= 1

(* Every recorded anomaly has an alert of its type.  And each alert stands *)
(* as an event has announced it, and no version before was left out,       *)
(* though two administrators who have loaded one version may announce the  *)
(* next one twice, and the later of them write over what the other did.    *)
AnomaliesAlerted ==
    /\ \A r \in {q \in Requests : q.kind = "TELEMETRY" /\ made[q] > 0} :
        \A type \in r.body : \E i \in DOMAIN alerts : alerts[i].type = type
    /\ \A i \in DOMAIN alerts :
        /\ Announcement(i, alerts[i].version, alerts[i].status) \in announced
        /\ \A v \in 1..alerts[i].version : \E a \in announced : a.alert = i /\ a.version = v

(* Two alerts of a type are OPEN together only if the batches that opened  *)
(* them were served at the same time: each saw no alert.  Neither a lost   *)
(* update of two administrators nor a retry opens one again.               *)
OpenTogether ==
    \A i, j \in DOMAIN alerts :
        /\ i # j /\ alerts[i].type = alerts[j].type
        /\ alerts[i].status = "OPEN" /\ alerts[j].status = "OPEN"
        => {alerts[i].by, alerts[j].by} \in met

(* An attachment has its whole file, whenever the server dies; and a file  *)
(* that nobody works on and that has no row is what a fault left, at most  *)
(* one for each upload it broke off: nothing else leaves one, and nothing  *)
(* removes them.                                                           *)
AttachmentsWhole ==
    /\ \A f \in attached : f \in disk /\ f.whole
    /\ Cardinality({f \in disk \ attached :
            ~ \E th \in Threads : pc[th] \in {"writing", "written"} /\ f.n = seen[th][1]})
                <= faults * Cardinality(Threads)
=============================================================================
