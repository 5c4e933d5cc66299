------------------------- MODULE OfflineQueueProofs -------------------------
(***************************************************************************)
(* Proofs about OfflineQueue and the server under it: a key, and a store's *)
(* day, make one row, whatever overlaps, repeats or fails; and the phone   *)
(* and the server together implement Mailbox, which says that the phone    *)
(* forgets no letter that was not delivered, though two runs of the queue  *)
(* work on copies of it and the server may finish what nobody awaits.      *)
(***************************************************************************)
EXTENDS OfflineQueue, FiniteSetTheorems, TLAPS

----------------------------------------------------------------------------
(* The server.                                                             *)

(* What is needed of the types.                                            *)
ServerShape ==
    /\ made \in [Requests -> Nat] /\ events \in [Requests -> Nat]
    /\ records \subseteq Requests
    /\ pc \in [Threads -> {"idle", "checked", "looked", "alert", "writing", "written"}]
    /\ req = [th \in Threads |-> req[th]]
    /\ from \in [Threads -> Callers \cup {Nobody}]
    /\ answer \in [Callers -> {"none", "waiting", "ok", "refused", "error"}]

(* A thread that is at work has a request of the kind its step is for.     *)
Busy ==
    \A th \in Threads :
        /\ pc[th] \in {"checked", "looked"} =>
                req[th] \in Requests /\ req[th].kind # "UPLOAD"
        /\ pc[th] \in {"writing", "written"} =>
                req[th] \in Requests /\ req[th].kind = "UPLOAD"

(* What was made once is recorded, and the records agree on no key.        *)
Recorded ==
    /\ \A r \in records : r.kind # "UPLOAD"
    /\ \A r \in Requests : r.kind # "UPLOAD" => made[r] = IF r \in records THEN 1 ELSE 0
    /\ \A r \in Requests : r.kind \notin {"UPLOAD", "TELEMETRY"} => events[r] = made[r]
    /\ \A q, r \in records : /\ q.kind = r.kind
                             /\ q.key = r.key \/ (r.kind = "REPORT" /\ q.body = r.body)
                             => q = r

ServerInv == ServerShape /\ Busy /\ Recorded

(* The answer of a thread ends its work.                                   *)
LEMMA AnswerServer ==
    ASSUME ServerShape, Busy, NEW th \in Threads,
           NEW what \in {"ok", "refused", "error"}, Answer(th, what)
    PROVE  /\ pc' \in [Threads -> {"idle", "checked", "looked", "alert", "writing", "written"}]
           /\ req' = [u \in Threads |-> req'[u]]
           /\ from' \in [Threads -> Callers \cup {Nobody}]
           /\ answer' \in [Callers -> {"none", "waiting", "ok", "refused", "error"}]
           /\ Busy'
<1> USE DEF ServerShape, Answer, Finish
<1>1. pc' \in [Threads -> {"idle", "checked", "looked", "alert", "writing", "written"}]
    OBVIOUS
<1>2. req' = [u \in Threads |-> req'[u]]
    OBVIOUS
<1>3. from' \in [Threads -> Callers \cup {Nobody}]
    OBVIOUS
<1>4. answer' \in [Callers -> {"none", "waiting", "ok", "refused", "error"}]
    OBVIOUS
<1>5. Busy'
    BY DEF Busy
<1> QED BY <1>1, <1>2, <1>3, <1>4, <1>5

(* So does a step that ends it without one, or takes it on.                *)
LEMMA FinishServer ==
    ASSUME ServerShape, Busy, NEW th \in Threads, Finish(th)
    PROVE  /\ pc' \in [Threads -> {"idle", "checked", "looked", "alert", "writing", "written"}]
           /\ req' = [u \in Threads |-> req'[u]]
           /\ from' \in [Threads -> Callers \cup {Nobody}]
           /\ Busy'
BY DEF ServerShape, Finish, Busy

(* And so does a thread that takes a request or an alert on.               *)
LEMMA WorkServer ==
    ASSUME ServerShape, Busy, NEW th \in Threads, NEW c \in Callers \cup {Nobody}, NEW r,
           NEW step \in {"checked", "looked", "alert", "writing"}, NEW looked,
           step \in {"checked", "looked"} => r \in Requests /\ r.kind # "UPLOAD",
           step = "writing" => r \in Requests /\ r.kind = "UPLOAD",
           Work(th, c, r, step, looked)
    PROVE  /\ pc' \in [Threads -> {"idle", "checked", "looked", "alert", "writing", "written"}]
           /\ req' = [u \in Threads |-> req'[u]]
           /\ from' \in [Threads -> Callers \cup {Nobody}]
           /\ Busy'
<1> USE DEF ServerShape, Work
<1>1. pc' \in [Threads -> {"idle", "checked", "looked", "alert", "writing", "written"}]
    OBVIOUS
<1>2. req' = [u \in Threads |-> req'[u]]
    OBVIOUS
<1>3. from' \in [Threads -> Callers \cup {Nobody}]
    OBVIOUS
<1>4. Busy'
    BY DEF Busy
<1> QED BY <1>1, <1>2, <1>3, <1>4

(* The commit of a request whose key is free.                              *)
LEMMA InsertServer ==
    ASSUME ServerInv, NEW th \in Threads, pc[th] = "looked", Free(req[th]),
           made' = [made EXCEPT ![req[th]] = @ + 1],
           \/ events' = [events EXCEPT ![req[th]] = @ + 1]
           \/ UNCHANGED events /\ req[th].kind = "TELEMETRY",
           records' = records \cup {req[th]},
           Answer(th, "ok")
    PROVE  ServerInv'
<1> DEFINE r == req[th]
<1>1. r \in Requests /\ r.kind # "UPLOAD"
    BY DEF ServerInv, Busy
<1>2. /\ pc' \in [Threads -> {"idle", "checked", "looked", "alert", "writing", "written"}]
      /\ req' = [u \in Threads |-> req'[u]]
      /\ from' \in [Threads -> Callers \cup {Nobody}]
      /\ answer' \in [Callers -> {"none", "waiting", "ok", "refused", "error"}]
      /\ Busy'
    BY AnswerServer DEF ServerInv
<1>3. /\ made' \in [Requests -> Nat] /\ events' \in [Requests -> Nat]
      /\ records' \subseteq Requests
    BY <1>1 DEF ServerInv, ServerShape
<1>4. ServerShape'
    BY <1>2, <1>3 DEF ServerShape
<1>5. \A q \in records : ~(q.kind = r.kind /\ q.key = r.key)
    BY DEF Free, SameKey
<1>6. \A q \in records : ~(q.kind = "REPORT" /\ r.kind = "REPORT" /\ q.body = r.body)
  <2> SUFFICES ASSUME NEW q \in records, q.kind = "REPORT", r.kind = "REPORT", q.body = r.body
               PROVE  FALSE
      OBVIOUS
  <2>1. q \in Requests /\ made[q] = 1
      BY DEF ServerInv, ServerShape, Recorded
  <2> QED BY <2>1 DEF Free
<1>7. r \notin records
    BY <1>5
<1>8. made[r] = 0
    BY <1>1, <1>7 DEF ServerInv, Recorded
<1>9. Recorded'
  <2>1. \A q \in records' : q.kind # "UPLOAD"
      BY <1>1 DEF ServerInv, Recorded
  <2>2. \A q \in Requests : q.kind # "UPLOAD" => made'[q] = IF q \in records' THEN 1 ELSE 0
      BY <1>1, <1>7, <1>8 DEF ServerInv, ServerShape, Recorded
  <2>3. \A q \in Requests : q.kind \notin {"UPLOAD", "TELEMETRY"} => events'[q] = made'[q]
      BY <1>1 DEF ServerInv, ServerShape, Recorded
  <2>4. \A p, q \in records' : /\ p.kind = q.kind
                               /\ p.key = q.key \/ (q.kind = "REPORT" /\ p.body = q.body)
                               => p = q
      BY <1>5, <1>6 DEF ServerInv, Recorded
  <2> QED BY <2>1, <2>2, <2>3, <2>4 DEF Recorded
<1> QED BY <1>2, <1>4, <1>9 DEF ServerInv

(* A row of an upload has no key and touches no record.                    *)
LEMMA AttachServer ==
    ASSUME ServerInv, NEW th \in Threads, Attach(th)
    PROVE  ServerInv'
<1>1. req[th] \in Requests /\ req[th].kind = "UPLOAD"
    BY DEF ServerInv, Busy, Attach
<1>2. /\ pc' \in [Threads -> {"idle", "checked", "looked", "alert", "writing", "written"}]
      /\ req' = [u \in Threads |-> req'[u]]
      /\ from' \in [Threads -> Callers \cup {Nobody}]
      /\ answer' \in [Callers -> {"none", "waiting", "ok", "refused", "error"}]
      /\ Busy'
    BY AnswerServer DEF ServerInv, Attach
<1>3. made' \in [Requests -> Nat] /\ UNCHANGED <<events, records>>
    BY <1>1 DEF ServerInv, ServerShape, Attach
<1>4. ServerShape'
    BY <1>2, <1>3 DEF ServerInv, ServerShape
<1>5. Recorded'
    BY <1>1, <1>3 DEF ServerInv, ServerShape, Recorded, Attach
<1> QED BY <1>2, <1>4, <1>5 DEF ServerInv

(* Whatever leaves the rows alone.                                         *)
LEMMA RowsServer ==
    ASSUME Recorded, UNCHANGED <<made, records, events>>
    PROVE  Recorded'
BY DEF Recorded

(* The work of a thread.                                                   *)
LEMMA ServeServer ==
    ASSUME ServerInv, NEW th \in Threads, Serve(th)
    PROVE  ServerInv'
<1> USE DEF ServerInv
<1>1. CASE SeeReport(th)
  <2>1. UNCHANGED <<made, records, events>>
      BY <1>1 DEF SeeReport, rows
  <2>2. CASE Answer(th, "refused")
      BY <1>1, <2>1, <2>2, AnswerServer, RowsServer DEF ServerShape
  <2>3. CASE pc' = [pc EXCEPT ![th] = "looked"] /\ UNCHANGED <<req, from, seen, answer>>
    <3>1. ServerShape'
        BY <2>1, <2>3 DEF ServerShape
    <3>2. Busy'
        BY <1>1, <2>3 DEF ServerShape, Busy, SeeReport
    <3> QED BY <2>1, <3>1, <3>2, RowsServer
  <2> QED BY <1>1, <2>2, <2>3 DEF SeeReport
<1>2. CASE SeeAlerts(th)
  <2>1. UNCHANGED <<made, records, events>>
      BY <1>2 DEF SeeAlerts, rows
  <2>2. ServerShape'
      BY <1>2, <2>1 DEF ServerShape, SeeAlerts
  <2>3. Busy'
      BY <1>2 DEF ServerShape, Busy, SeeAlerts
  <2> QED BY <2>1, <2>2, <2>3, RowsServer
<1>3. ASSUME NEW kind, Insert(th, kind)
      PROVE  ServerInv'
    BY <1>3, InsertServer DEF Insert
<1>4. CASE IngestTelemetry(th)
    BY <1>4, InsertServer DEF IngestTelemetry
<1>5. CASE Collide(th)
  <2>1. UNCHANGED <<made, records, events>> /\ Answer(th, "error")
      BY <1>5 DEF Collide, rows
  <2> QED BY <2>1, AnswerServer, RowsServer DEF ServerShape
<1>6. CASE UpdateAlert(th)
  <2>1. UNCHANGED <<made, records, events, answer>> /\ Finish(th)
      BY <1>6 DEF UpdateAlert, Update
  <2> QED BY <2>1, FinishServer, RowsServer DEF ServerShape
<1>7. CASE WriteFile(th)
  <2>1. UNCHANGED <<made, records, events>>
      BY <1>7 DEF WriteFile, rows
  <2>2. ServerShape'
      BY <1>7, <2>1 DEF ServerShape, WriteFile
  <2>3. Busy'
      BY <1>7 DEF ServerShape, Busy, WriteFile
  <2> QED BY <2>1, <2>2, <2>3, RowsServer
<1>8. CASE RejectFile(th)
  <2>1. UNCHANGED <<made, records, events>> /\ Answer(th, "refused")
      BY <1>8 DEF RejectFile, DiscardFile, rows
  <2> QED BY <2>1, AnswerServer, RowsServer DEF ServerShape
<1>9. CASE Attach(th)
    BY <1>9, AttachServer
<1> QED
    BY <1>1, <1>2, <1>3, <1>4, <1>5, <1>6, <1>7, <1>8, <1>9
    DEF Serve, CreateStockout, CreateDailyReport, CreateLocationPoint, CreateTaskException

(* The faults of a thread.                                                 *)
LEMMA BreakServer ==
    ASSUME ServerInv, NEW th \in Threads, Break(th)
    PROVE  ServerInv'
<1> USE DEF ServerInv
<1>1. CASE Fail(th) \/ BreakFile(th)
  <2>1. UNCHANGED <<made, records, events>> /\ Answer(th, "error")
      BY <1>1 DEF Fail, BreakFile, DiscardFile, rows
  <2> QED BY <2>1, AnswerServer, RowsServer DEF ServerShape
<1>2. CASE Timeout(th)
  <2>1. UNCHANGED <<made, records, events, pc, req>>
      BY <1>2 DEF Timeout, rows
  <2>2. from' \in [Threads -> Callers \cup {Nobody}]
      BY <1>2 DEF Timeout, ServerShape
  <2>3. answer' \in [Callers -> {"none", "waiting", "ok", "refused", "error"}]
      BY <1>2 DEF Timeout, ServerShape
  <2>4. Busy'
      BY <2>1 DEF Busy
  <2> QED BY <2>1, <2>2, <2>3, <2>4, RowsServer DEF ServerShape
<1> QED BY <1>1, <1>2 DEF Break

(* A request arrives, or does not.                                         *)
LEMMA ReceiveServer ==
    ASSUME SubmissionsAssumption, ServerInv, NEW c \in Callers, NEW r \in Requests,
           Receive(c, r) \/ Lose(c)
    PROVE  ServerInv'
<1> USE DEF ServerInv
<1>1. CASE Replayed(c, r) \/ Lose(c)
  <2>1. UNCHANGED <<made, records, events, pc, req, from>>
      BY <1>1 DEF Replayed, Lose, rows, threadVars
  <2>2. answer' \in [Callers -> {"none", "waiting", "ok", "refused", "error"}]
      BY <1>1 DEF Replayed, Lose, ServerShape
  <2>3. Busy'
      BY <2>1 DEF Busy
  <2> QED BY <2>1, <2>2, <2>3, RowsServer DEF ServerShape
<1>2. CASE Accepted(c, r)
  <2>1. PICK th \in Threads :
            Work(th, c, r, IF r.kind \in Plain THEN "looked" ELSE "checked", <<>>)
      BY <1>2 DEF Accepted
  <2>2. UNCHANGED <<made, records, events>> /\ r.kind # "UPLOAD"
      BY <1>2 DEF Accepted, rows
  <2>3. answer' \in [Callers -> {"none", "waiting", "ok", "refused", "error"}]
      BY <1>2 DEF Accepted, ServerShape
  <2>4. CASE r.kind \in Plain
      BY <2>1, <2>2, <2>3, <2>4, WorkServer, RowsServer DEF ServerShape
  <2>5. CASE r.kind \notin Plain
      BY <2>1, <2>2, <2>3, <2>5, WorkServer, RowsServer DEF ServerShape
  <2> QED BY <2>4, <2>5
<1>3. CASE OpenFile(c, r)
  <2>1. PICK th \in Threads, n \in 1..(Cardinality(disk) + 1) :
            Work(th, c, r, "writing", <<n>>)
      BY <1>3 DEF OpenFile
  <2>2. UNCHANGED <<made, records, events>> /\ r.kind = "UPLOAD"
      BY <1>3 DEF OpenFile, rows
  <2>3. answer' \in [Callers -> {"none", "waiting", "ok", "refused", "error"}]
      BY <1>3 DEF OpenFile, ServerShape
  <2> QED BY <2>1, <2>2, <2>3, WorkServer, RowsServer DEF ServerShape
<1> QED BY <1>1, <1>2, <1>3 DEF Receive

----------------------------------------------------------------------------
(* The clients.                                                            *)

Items(s) == {s[i] : i \in DOMAIN s}

(* An item of a sequence has a place in it.                                *)
LEMMA ItemsByPlace ==
    ASSUME NEW S, NEW s \in Seq(S)
    PROVE  Items(s) = {s[i] : i \in 1..Len(s)}
BY DEF Items

(* The items of a sequence are its head and those of its tail.             *)
LEMMA HeadAndTail ==
    ASSUME NEW S, NEW s \in Seq(S), s # <<>>
    PROVE  /\ Head(s) \in S /\ Tail(s) \in Seq(S)
           /\ Items(s) = {Head(s)} \cup Items(Tail(s))
<1>1. /\ Head(s) \in S /\ Tail(s) \in Seq(S) /\ Len(s) \in Nat \ {0}
      /\ Len(Tail(s)) = Len(s) - 1
    OBVIOUS
<1>2. \A i \in 1..(Len(s) - 1) : Tail(s)[i] = s[i + 1]
    OBVIOUS
<1>3. Items(s) = {s[i] : i \in 1..Len(s)}
    BY ItemsByPlace
<1>4. Items(Tail(s)) = {Tail(s)[i] : i \in 1..(Len(s) - 1)}
  <2> DEFINE t == Tail(s)
  <2>1. t \in Seq(S) /\ Len(t) = Len(s) - 1
      BY <1>1
  <2> HIDE DEF t
  <2>2. Items(t) = {t[i] : i \in 1..Len(t)}
      BY <2>1, ItemsByPlace
  <2> QED BY <2>1, <2>2 DEF t
<1>5. Head(s) = s[1]
    OBVIOUS
<1>6. ASSUME NEW x \in Items(s)
      PROVE  x \in {Head(s)} \cup Items(Tail(s))
  <2>1. PICK i \in 1..Len(s) : x = s[i]
      BY <1>3
  <2>2. CASE i = 1
      BY <1>5, <2>1, <2>2
  <2>3. CASE i # 1
    <3>1. i - 1 \in 1..(Len(s) - 1) /\ (i - 1) + 1 = i
        BY <1>1, <2>1, <2>3
    <3>2. Tail(s)[i - 1] = x
        BY <1>2, <2>1, <3>1
    <3> QED BY <1>4, <3>1, <3>2
  <2> QED BY <2>2, <2>3
<1>7. ASSUME NEW x \in {Head(s)} \cup Items(Tail(s))
      PROVE  x \in Items(s)
  <2>1. CASE x = Head(s)
      BY <1>1, <1>3, <1>5, <2>1
  <2>2. CASE x \in Items(Tail(s))
    <3>1. PICK i \in 1..(Len(s) - 1) : x = Tail(s)[i]
        BY <1>4, <2>2
    <3>2. i + 1 \in 1..Len(s) /\ x = s[i + 1]
        BY <1>1, <1>2, <3>1
    <3> QED BY <1>3, <3>2
  <2> QED BY <1>7, <2>1, <2>2
<1> QED BY <1>1, <1>6, <1>7

(* What is appended is one more item.                                      *)
LEMMA ItemsOfAppend ==
    ASSUME NEW S, NEW s \in Seq(S), NEW e \in S
    PROVE  /\ Append(s, e) \in Seq(S)
           /\ Items(Append(s, e)) = Items(s) \cup {e}
<1>1. /\ Append(s, e) \in Seq(S) /\ Len(s) \in Nat /\ Len(Append(s, e)) = Len(s) + 1
      /\ \A i \in 1..Len(s) : Append(s, e)[i] = s[i]
      /\ Append(s, e)[Len(s) + 1] = e
    OBVIOUS
<1>2. Items(s) = {s[i] : i \in 1..Len(s)}
    BY ItemsByPlace
<1>3. Items(Append(s, e)) = {Append(s, e)[i] : i \in 1..(Len(s) + 1)}
  <2> DEFINE t == Append(s, e)
  <2>1. t \in Seq(S) /\ Len(t) = Len(s) + 1
      BY <1>1
  <2> HIDE DEF t
  <2>2. Items(t) = {t[i] : i \in 1..Len(t)}
      BY <2>1, ItemsByPlace
  <2> QED BY <2>1, <2>2 DEF t
<1>4. 1..(Len(s) + 1) = 1..Len(s) \cup {Len(s) + 1}
    BY <1>1
<1> QED BY <1>1, <1>2, <1>3, <1>4

(* The empty sequence has none.                                            *)
LEMMA ItemsOfNone == Items(<<>>) = {}
BY DEF Items

PhoneShape ==
    /\ todo \subseteq Requests
    /\ stored \in Seq(Letters)
    /\ run \in [Flushes -> {"off", "on", "sent"}]
    /\ ahead \in [Flushes -> Seq(Letters)]
    /\ kept \in [Flushes -> Seq(Letters)]
    /\ lot \in [Letters -> {"new", "queued", "late"}]
    /\ \A f \in Flushes : run[f] = "sent" => ahead[f] # <<>>

(* Only what was enqueued is stored, copied or under way.                  *)
Enqueued ==
    /\ \A x \in todo \cap Letters : lot[x] = "new"
    /\ \A x \in Items(stored) : lot[x] # "new"
    /\ \A f \in Flushes : \A x \in Items(ahead[f]) \cup Items(kept[f]) : lot[x] # "new"
    /\ \A th \in Threads : req[th] \in Letters => lot[req[th]] # "new"

(* A letter that was not delivered is stored, and in every run's copy.     *)
Safe ==
    \A x \in Letters :
        lot[x] = "queued" /\ made[x] = 0 =>
            /\ x \in Items(stored)
            /\ \A f \in Flushes : run[f] # "off" => x \in Items(kept[f]) \cup Items(ahead[f])

(* An answer is that to the letter a run has sent.                         *)
Awaited ==
    \A f \in Flushes :
        /\ run[f] = "sent" /\ answer[f] = "ok" => made[Head(ahead[f])] # 0
        /\ \A th \in Threads : from[th] = f =>
                /\ run[f] = "sent" /\ answer[f] = "waiting"
                /\ req[th] = Head(ahead[f])
        /\ \A th, u \in Threads : from[th] = f /\ from[u] = f => th = u

PhoneInv == PhoneShape /\ Enqueued /\ Safe /\ Awaited

Inv == ServerInv /\ PhoneInv

(* The invariant holds before anything is sent.                            *)
LEMMA InitInv == QueueAssumption /\ SubmissionsAssumption /\ Init => Inv
<1> SUFFICES ASSUME QueueAssumption, SubmissionsAssumption, Init
             PROVE  Inv
    OBVIOUS
<1>1. ServerInv
    BY DEF Init, ServerInit, ServerInv, ServerShape, Busy, Recorded
<1>2. PhoneShape
    BY DEF Init, PhoneShape, QueueAssumption
<1>3. Enqueued
    BY ItemsOfNone DEF Init, ServerInit, Enqueued, SubmissionsAssumption, Letters
<1>4. Safe
    BY DEF Init, Safe
<1>5. Awaited
    BY DEF Init, ServerInit, Awaited, QueueAssumption, SubmissionsAssumption
<1> QED BY <1>1, <1>2, <1>3, <1>4, <1>5 DEF Inv, PhoneInv

----------------------------------------------------------------------------
(* What the server does to the phone.                                      *)

(* The four ways in which a thread goes on.                                *)
LEMMA ThreadSteps ==
    ASSUME ServerInv, NEW th \in Threads, Serve(th) \/ Fail(th) \/ BreakFile(th)
    PROVE  \/ UNCHANGED <<made, req, from, answer>>
           \/ UNCHANGED <<made, answer>> /\ Finish(th)
           \/ UNCHANGED made /\ (Answer(th, "refused") \/ Answer(th, "error"))
           \/ /\ req[th] \in Requests
              /\ made' = [made EXCEPT ![req[th]] = @ + 1]
              /\ Answer(th, "ok")
<1> USE DEF rows
<1>1. CASE SeeReport(th) \/ SeeAlerts(th) \/ WriteFile(th)
    BY <1>1 DEF SeeReport, SeeAlerts, WriteFile
<1>2. ASSUME NEW kind, Insert(th, kind)
      PROVE  /\ req[th] \in Requests
             /\ made' = [made EXCEPT ![req[th]] = @ + 1]
             /\ Answer(th, "ok")
    BY <1>2 DEF Insert, ServerInv, Busy
<1>3. CASE IngestTelemetry(th) \/ Attach(th)
    BY <1>3 DEF IngestTelemetry, Attach, ServerInv, Busy
<1>4. CASE Collide(th) \/ RejectFile(th) \/ Fail(th) \/ BreakFile(th)
    BY <1>4 DEF Collide, RejectFile, Fail, BreakFile, DiscardFile
<1>5. CASE UpdateAlert(th)
    BY <1>5 DEF UpdateAlert, Update
<1> QED
    BY <1>1, <1>2, <1>3, <1>4, <1>5
    DEF Serve, CreateStockout, CreateDailyReport, CreateLocationPoint, CreateTaskException

(* A thread that has finished works for nobody, and on no letter.          *)
LEMMA FinishPhone ==
    ASSUME SubmissionsAssumption, QueueAssumption, ServerShape, PhoneInv,
           NEW th \in Threads, Finish(th), UNCHANGED <<made, answer, phoneVars>>
    PROVE  PhoneInv'
<1> USE DEF PhoneInv, phoneVars
<1>1. PhoneShape' /\ Safe'
    BY DEF PhoneShape, Safe
<1>2. \A u \in Threads : \/ req'[u] = req[u] /\ from'[u] = from[u]
                         \/ u = th /\ req'[u] = NoRequest /\ from'[u] = Nobody
    BY DEF Finish, ServerShape
<1>3. Enqueued'
    BY <1>2 DEF Enqueued, SubmissionsAssumption, Letters
<1>4. Awaited'
    BY <1>2 DEF Awaited, QueueAssumption, SubmissionsAssumption
<1> QED BY <1>1, <1>3, <1>4

(* An answer goes to the run that awaits it, if it is still there.         *)
LEMMA AnswerPhone ==
    ASSUME SubmissionsAssumption, QueueAssumption, ServerShape, PhoneInv,
           NEW th \in Threads, NEW what \in {"ok", "refused", "error"},
           Answer(th, what), UNCHANGED phoneVars,
           \/ UNCHANGED made /\ what # "ok"
           \/ /\ req[th] \in Requests
              /\ made' = [made EXCEPT ![req[th]] = @ + 1]
    PROVE  PhoneInv'
<1> USE DEF PhoneInv, phoneVars
<1>1. PhoneShape'
    BY DEF PhoneShape
<1>2. \A x \in Requests : made'[x] = 0 => made[x] = 0
    BY DEF ServerShape
<1>3. Safe'
    BY <1>2 DEF Safe, Letters
<1>4. \A u \in Threads : \/ u # th /\ req'[u] = req[u] /\ from'[u] = from[u]
                         \/ u = th /\ req'[u] = NoRequest /\ from'[u] = Nobody
    BY DEF Answer, Finish, ServerShape
<1>5. Enqueued'
    BY <1>4 DEF Enqueued, SubmissionsAssumption, Letters
<1>6. \A f \in Flushes : answer'[f] = IF from[th] = f THEN what ELSE answer[f]
    BY DEF Answer, ServerShape, QueueAssumption, SubmissionsAssumption
<1>7. Awaited'
  <2> SUFFICES ASSUME NEW f \in Flushes
               PROVE  /\ run[f] = "sent" /\ answer'[f] = "ok" => made'[Head(ahead[f])] # 0
                      /\ \A u \in Threads : from'[u] = f =>
                            /\ run[f] = "sent" /\ answer'[f] = "waiting"
                            /\ req'[u] = Head(ahead[f])
                      /\ \A u, v \in Threads : from'[u] = f /\ from'[v] = f => u = v
      BY DEF Awaited
  <2>1. f \in Callers /\ f # Nobody
      BY DEF QueueAssumption, SubmissionsAssumption
  <2>2. ASSUME run[f] = "sent", answer'[f] = "ok"
        PROVE  made'[Head(ahead[f])] # 0
    <3>1. Head(ahead[f]) \in Requests
        BY <2>2, HeadAndTail DEF PhoneShape, Letters
    <3>2. CASE from[th] = f
      <4>1. what = "ok" /\ req[th] = Head(ahead[f])
          BY <1>6, <2>2, <3>2 DEF Awaited
      <4> QED BY <3>1, <4>1 DEF ServerShape
    <3>3. CASE from[th] # f
      <4>1. made[Head(ahead[f])] # 0
          BY <1>6, <2>2, <3>3 DEF Awaited
      <4> QED BY <1>2, <3>1, <4>1
    <3> QED BY <3>2, <3>3
  <2>3. ASSUME NEW u \in Threads, from'[u] = f
        PROVE  /\ run[f] = "sent" /\ answer'[f] = "waiting"
               /\ req'[u] = Head(ahead[f])
    <3>1. u # th /\ from[u] = f /\ req'[u] = req[u]
        BY <1>4, <2>1, <2>3
    <3>2. from[th] # f
        BY <3>1 DEF Awaited
    <3> QED BY <1>6, <3>1, <3>2 DEF Awaited
  <2>4. \A u, v \in Threads : from'[u] = f /\ from'[v] = f => u = v
      BY <1>4, <2>1 DEF Awaited
  <2> QED BY <2>2, <2>3, <2>4
<1> QED BY <1>1, <1>3, <1>5, <1>7

(* So the phone's invariant survives whatever the server does by itself.   *)
LEMMA ServerPhone ==
    ASSUME SubmissionsAssumption, QueueAssumption, Inv, NEW th \in Threads,
           Serve(th) \/ Break(th), UNCHANGED phoneVars
    PROVE  PhoneInv'
<1> USE DEF Inv, ServerInv
<1>1. CASE Serve(th) \/ Fail(th) \/ BreakFile(th)
  <2>1. CASE UNCHANGED <<made, req, from, answer>>
      BY <2>1 DEF PhoneInv, PhoneShape, Enqueued, Safe, Awaited, phoneVars
  <2>2. CASE UNCHANGED <<made, answer>> /\ Finish(th)
      BY <2>2, FinishPhone
  <2>3. CASE UNCHANGED made /\ (Answer(th, "refused") \/ Answer(th, "error"))
      BY <2>3, AnswerPhone
  <2>4. CASE /\ req[th] \in Requests
             /\ made' = [made EXCEPT ![req[th]] = @ + 1]
             /\ Answer(th, "ok")
      BY <2>4, AnswerPhone
  <2> QED BY <1>1, <2>1, <2>2, <2>3, <2>4, ThreadSteps
<1>2. CASE Timeout(th)
  <2> USE DEF PhoneInv, phoneVars
  <2>1. UNCHANGED <<made, req>>
      BY <1>2 DEF Timeout, rows
  <2>2. PhoneShape' /\ Enqueued' /\ Safe'
      BY <2>1 DEF PhoneShape, Enqueued, Safe
  <2>3. /\ \A u \in Threads : from'[u] = IF u = th THEN Nobody ELSE from[u]
        /\ \A f \in Flushes : answer'[f] = IF f = from[th] THEN "error" ELSE answer[f]
      BY <1>2 DEF Timeout, ServerShape, QueueAssumption
  <2>4. Awaited'
      BY <2>1, <2>3 DEF Awaited, QueueAssumption, SubmissionsAssumption
  <2> QED BY <2>2, <2>4
<1> QED BY <1>1, <1>2 DEF Break

(* A crash frees all threads; the waiting runs hear an error.              *)
LEMMA CrashPhone ==
    ASSUME SubmissionsAssumption, QueueAssumption, Inv, Crash, UNCHANGED phoneVars
    PROVE  Inv'
<1> USE DEF Inv, ServerInv, PhoneInv
<1>1. UNCHANGED <<made, records, events, phoneVars>>
    BY DEF Crash, rows
<1>2. /\ pc' \in [Threads -> {"idle", "checked", "looked", "alert", "writing", "written"}]
      /\ req' = [u \in Threads |-> req'[u]]
      /\ from' \in [Threads -> Callers \cup {Nobody}]
      /\ Busy'
    BY DEF Crash, Busy
<1>3. /\ answer' \in [Callers -> {"none", "waiting", "ok", "refused", "error"}]
      /\ \A f \in Flushes : answer'[f] = "ok" => answer[f] = "ok"
    BY DEF Crash, ServerShape, QueueAssumption
<1>4. ServerShape' /\ Recorded'
    BY <1>1, <1>2, <1>3, RowsServer DEF ServerShape
<1>5. PhoneShape' /\ Safe'
    BY <1>1 DEF PhoneShape, Safe, phoneVars
<1>6. Enqueued'
    BY <1>1 DEF Enqueued, Crash, SubmissionsAssumption, Letters, phoneVars
<1>7. Awaited'
    BY <1>1, <1>3 DEF Awaited, Crash, SubmissionsAssumption, QueueAssumption, phoneVars
<1> QED BY <1>2, <1>4, <1>5, <1>6, <1>7

(* The work on an alert is no letter and comes from no run.                *)
LEMMA LoadAlertPhone ==
    ASSUME SubmissionsAssumption, QueueAssumption, Inv,
           NEW th \in Threads, NEW i \in DOMAIN alerts,
           NEW a \in {"ACKNOWLEDGE", "RESOLVE"}, LoadAlert(th, i, a), UNCHANGED phoneVars
    PROVE  Inv'
<1> DEFINE change == [kind |-> "ALERT", key |-> i, body |-> a]
           looked == <<Target(alerts[i].status, a), alerts[i].version>>
<1> USE DEF Inv, ServerInv, PhoneInv
<1>1. /\ UNCHANGED <<made, records, events, answer, phoneVars>>
      /\ Work(th, Nobody, change, "alert", looked)
    BY DEF LoadAlert, rows
<1>2. change \notin Requests
    BY DEF SubmissionsAssumption, Kinds, Plain
<1> HIDE DEF change, looked
<1>3. /\ pc' \in [Threads -> {"idle", "checked", "looked", "alert", "writing", "written"}]
      /\ req' = [u \in Threads |-> req'[u]]
      /\ from' \in [Threads -> Callers \cup {Nobody}]
      /\ Busy'
    BY <1>1, WorkServer
<1>4. ServerShape' /\ Recorded'
    BY <1>1, <1>3, RowsServer DEF ServerShape
<1>5. PhoneShape' /\ Safe'
    BY <1>1 DEF PhoneShape, Safe, phoneVars
<1>6. \A u \in Threads : \/ req'[u] = req[u] /\ from'[u] = from[u]
                         \/ req'[u] = change /\ from'[u] = Nobody
    BY <1>1 DEF Work, ServerShape
<1>7. Enqueued'
    BY <1>1, <1>2, <1>6 DEF Enqueued, Letters, phoneVars
<1>8. Awaited'
    BY <1>1, <1>6 DEF Awaited, SubmissionsAssumption, QueueAssumption, phoneVars
<1> QED BY <1>3, <1>4, <1>5, <1>7, <1>8

----------------------------------------------------------------------------
(* What the phone does.                                                    *)

(* A thread takes a request, or none does.                                 *)
LEMMA ReceiveSteps ==
    ASSUME SubmissionsAssumption, ServerInv, NEW c \in Callers, NEW r \in Requests,
           Receive(c, r) \/ Lose(c)
    PROVE  /\ answer[c] = "none" /\ UNCHANGED made
           /\ \/ /\ UNCHANGED <<req, from>>
                 /\ \E what \in {"ok", "refused", "error"} :
                        /\ answer' = [answer EXCEPT ![c] = what]
                        /\ what = "ok" => made[r] # 0
              \/ /\ \E th \in Threads : /\ req' = [req EXCEPT ![th] = r]
                                        /\ from' = [from EXCEPT ![th] = c]
                 /\ answer' = [answer EXCEPT ![c] = "waiting"]
<1> USE DEF rows, threadVars
<1>1. CASE Replayed(c, r)
  <2> DEFINE what == IF r \in records THEN "ok" ELSE "refused"
  <2>1. /\ answer[c] = "none" /\ UNCHANGED <<made, req, from>>
        /\ answer' = [answer EXCEPT ![c] = what]
      BY <1>1 DEF Replayed
  <2>2. r \in records => made[r] = 1
      BY <1>1 DEF Replayed, ServerInv, Recorded
  <2>3. what \in {"ok", "refused"} /\ (what = "ok" => made[r] # 0)
      BY <2>2
  <2> HIDE DEF what
  <2> QED BY <2>1, <2>3
<1>2. CASE Lose(c)
    BY <1>2 DEF Lose
<1>3. CASE Accepted(c, r)
    BY <1>3 DEF Accepted, Work
<1>4. CASE OpenFile(c, r)
    BY <1>4 DEF OpenFile, Work
<1> QED BY <1>1, <1>2, <1>3, <1>4 DEF Receive

(* A run sends the head of its copy, a letter that was enqueued.           *)
LEMMA SendPhone ==
    ASSUME SubmissionsAssumption, QueueAssumption, Inv, NEW f \in Flushes, Send(f)
    PROVE  Inv'
<1> DEFINE r == Head(ahead[f])
<1> USE DEF Inv, PhoneInv
<1>1. /\ f \in Callers /\ f # Nobody
      /\ run[f] = "on" /\ ahead[f] # <<>> /\ ahead[f] \in Seq(Letters)
      /\ run' = [run EXCEPT ![f] = "sent"]
      /\ UNCHANGED <<todo, stored, ahead, kept, lot>>
      /\ Receive(f, r) \/ Lose(f)
    BY DEF Send, PhoneShape, QueueAssumption, SubmissionsAssumption
<1>2. r \in Letters /\ r \in Requests /\ lot[r] # "new"
    BY <1>1, HeadAndTail DEF Letters, Enqueued
<1> HIDE DEF r
<1>3. ServerInv'
    BY <1>1, <1>2, ReceiveServer
<1>4. answer[f] = "none" /\ UNCHANGED made
    BY <1>1, <1>2, ReceiveSteps
<1>5. PhoneShape' /\ Safe'
    BY <1>1, <1>4 DEF PhoneShape, Safe
<1>6. \A th \in Threads : from[th] # f
    BY <1>4 DEF Awaited
<1>7. CASE /\ UNCHANGED <<req, from>>
           /\ \E what \in {"ok", "refused", "error"} :
                  /\ answer' = [answer EXCEPT ![f] = what]
                  /\ what = "ok" => made[r] # 0
  <2>1. PICK what \in {"ok", "refused", "error"} :
            answer' = [answer EXCEPT ![f] = what] /\ (what = "ok" => made[r] # 0)
      BY <1>7
  <2>2. Enqueued'
      BY <1>1, <1>7 DEF Enqueued
  <2>3. \A g \in Flushes : g # f => run'[g] = run[g] /\ answer'[g] = answer[g]
      BY <1>1, <2>1 DEF PhoneShape, ServerInv, ServerShape, QueueAssumption
  <2>4. answer'[f] = "ok" => made'[Head(ahead'[f])] # 0
      BY <1>1, <1>4, <2>1 DEF ServerInv, ServerShape, r
  <2>5. Awaited'
      BY <1>1, <1>4, <1>6, <1>7, <2>3, <2>4 DEF Awaited
  <2> QED BY <1>3, <1>5, <2>2, <2>5
<1>8. CASE /\ \E th \in Threads : /\ req' = [req EXCEPT ![th] = r]
                                  /\ from' = [from EXCEPT ![th] = f]
           /\ answer' = [answer EXCEPT ![f] = "waiting"]
  <2>1. PICK th \in Threads : /\ req' = [req EXCEPT ![th] = r]
                              /\ from' = [from EXCEPT ![th] = f]
      BY <1>8
  <2>2. \A u \in Threads : \/ u # th /\ req'[u] = req[u] /\ from'[u] = from[u]
                           \/ u = th /\ req'[u] = r /\ from'[u] = f
      BY <2>1 DEF ServerInv, ServerShape
  <2>3. Enqueued'
      BY <1>1, <1>2, <2>2 DEF Enqueued
  <2>4. \A g \in Flushes : g # f => run'[g] = run[g] /\ answer'[g] = answer[g]
      BY <1>1, <1>8 DEF PhoneShape, ServerInv, ServerShape, QueueAssumption
  <2>5. run'[f] = "sent" /\ answer'[f] = "waiting" /\ Head(ahead'[f]) = r
      BY <1>1, <1>8 DEF PhoneShape, ServerInv, ServerShape, r
  <2>6. Awaited'
      BY <1>1, <1>4, <1>6, <2>2, <2>4, <2>5 DEF Awaited
  <2> QED BY <1>3, <1>5, <2>3, <2>6
<1> QED BY <1>1, <1>2, <1>7, <1>8, ReceiveSteps

(* A caller that sends without the queue sends none of its letters.        *)
LEMMA DirectPhone ==
    ASSUME SubmissionsAssumption, QueueAssumption, Inv, NEW r \in Requests,
           SendDirectly(r)
    PROVE  Inv'
<1> USE DEF Inv, PhoneInv
<1>1. /\ r \in Callers /\ r \notin Letters /\ r \notin Flushes /\ r # Nobody
      /\ Receive(r, r) \/ Lose(r)
      /\ UNCHANGED phoneVars
    BY DEF SendDirectly, Letters, QueueAssumption, SubmissionsAssumption
<1>2. ServerInv'
    BY <1>1, ReceiveServer
<1>3. /\ UNCHANGED made
      /\ \E what : answer' = [answer EXCEPT ![r] = what]
      /\ \/ UNCHANGED <<req, from>>
         \/ \E th \in Threads : /\ req' = [req EXCEPT ![th] = r]
                                /\ from' = [from EXCEPT ![th] = r]
  <2>1. ServerInv
      OBVIOUS
  <2> HIDE DEF Inv
  <2> QED BY <1>1, <2>1, ReceiveSteps
<1>4. PhoneShape' /\ Safe'
    BY <1>1, <1>3 DEF PhoneShape, Safe, phoneVars
<1>5. \A f \in Flushes : answer'[f] = answer[f]
    BY <1>1, <1>3 DEF ServerInv, ServerShape, QueueAssumption
<1>6. \A u \in Threads : \/ req'[u] = req[u] /\ from'[u] = from[u]
                         \/ req'[u] = r /\ from'[u] = r
    BY <1>3 DEF ServerInv, ServerShape
<1>7. Enqueued'
    BY <1>1, <1>6 DEF Enqueued, phoneVars
<1>8. Awaited'
    BY <1>1, <1>3, <1>6, <1>5 DEF Awaited, phoneVars
<1> QED BY <1>2, <1>4, <1>7, <1>8

(* The answer to such a caller is awaited by no run.                       *)
LEMMA AnsweredDirectPhone ==
    ASSUME SubmissionsAssumption, QueueAssumption, Inv, NEW r \in Requests,
           AnsweredDirectly(r)
    PROVE  Inv'
<1> USE DEF Inv, PhoneInv
<1>1. /\ r \notin Flushes
      /\ UNCHANGED <<made, records, events, pc, req, from, stored, run, ahead, kept, lot>>
      /\ todo' \subseteq todo
    BY DEF AnsweredDirectly, QueueAssumption, rows, threadVars
<1>2. /\ answer' \in [Callers -> {"none", "waiting", "ok", "refused", "error"}]
      /\ \A f \in Flushes : answer'[f] = answer[f]
    BY <1>1 DEF AnsweredDirectly, ServerInv, ServerShape, QueueAssumption
<1>3. ServerInv'
    BY <1>1, <1>2, RowsServer DEF ServerInv, ServerShape, Busy
<1>4. PhoneShape' /\ Safe'
    BY <1>1 DEF PhoneShape, Safe
<1>5. Enqueued'
    BY <1>1 DEF Enqueued
<1>6. Awaited'
    BY <1>1, <1>2 DEF Awaited
<1> QED BY <1>3, <1>4, <1>5, <1>6

(* A new letter is stored; it is late if a run has copied the store.       *)
LEMMA EnqueuePhone ==
    ASSUME SubmissionsAssumption, QueueAssumption, Inv, NEW r \in Requests, Enqueue(r)
    PROVE  Inv'
<1> USE DEF Inv, PhoneInv
<1>1. /\ r \in todo /\ r \in Letters /\ lot[r] = "new"
      /\ todo' = todo \ {r}
      /\ stored' \in Seq(Letters) /\ Items(stored') = Items(stored) \cup {r}
      /\ \A x \in Letters : lot'[x] = IF x # r THEN lot[x]
                                      ELSE IF \A f \in Flushes : run[f] = "off"
                                           THEN "queued" ELSE "late"
      /\ UNCHANGED <<serverVars, run, ahead, kept>>
    BY ItemsOfAppend DEF Enqueue, Enqueued, PhoneShape
<1>2. ServerInv'
    BY <1>1, RowsServer
    DEF ServerInv, ServerShape, Busy, serverVars, rows, threadVars
<1>3. PhoneShape'
    BY <1>1 DEF PhoneShape, Enqueue
<1>4. \A x \in Letters : lot[x] # "new" => lot'[x] = lot[x]
    BY <1>1
<1>5. Items(stored) \subseteq Letters /\ \A f \in Flushes :
            Items(ahead[f]) \subseteq Letters /\ Items(kept[f]) \subseteq Letters
    BY DEF PhoneShape, Items
<1>6. Enqueued'
    BY <1>1, <1>4, <1>5 DEF Enqueued, serverVars, threadVars
<1>7. Safe'
    BY <1>1 DEF Safe, serverVars, rows
<1>8. Awaited'
    BY <1>1 DEF Awaited, serverVars, rows, threadVars
<1> QED BY <1>2, <1>3, <1>6, <1>7, <1>8

(* A run copies the store, passes letters over, and stores what it kept.   *)
LEMMA FlushPhone ==
    ASSUME SubmissionsAssumption, QueueAssumption, Inv, NEW f \in Flushes,
           StartFlush(f) \/ NotDue(f) \/ EndFlush(f)
    PROVE  Inv'
<1> USE DEF Inv, PhoneInv
<1>1. UNCHANGED <<serverVars, todo, lot>> /\ run[f] # "sent"
    BY DEF StartFlush, NotDue, EndFlush
<1>2. ServerInv'
    BY <1>1, RowsServer
    DEF ServerInv, ServerShape, Busy, serverVars, rows, threadVars
<1>3. /\ \A g \in Flushes : g # f => /\ run'[g] = run[g] /\ ahead'[g] = ahead[g]
                                     /\ kept'[g] = kept[g]
      /\ run'[f] \in {"off", "on"}
    BY DEF StartFlush, NotDue, EndFlush, Keep, Advance, PhoneShape
<1>4. Awaited'
    BY <1>1, <1>3 DEF Awaited, serverVars, rows, threadVars
<1>5. CASE StartFlush(f)
  <2>1. PhoneShape'
      BY <1>5 DEF StartFlush, PhoneShape
  <2>2. ahead'[f] = stored /\ kept' = kept /\ stored' = stored
      BY <1>5 DEF StartFlush, PhoneShape
  <2>3. Enqueued' /\ Safe'
      BY <1>1, <1>3, <2>2 DEF Enqueued, Safe, serverVars, rows, threadVars
  <2> QED BY <1>2, <1>4, <2>1, <2>3
<1>6. CASE NotDue(f)
  <2>1. /\ ahead[f] \in Seq(Letters) /\ ahead[f] # <<>> /\ kept[f] \in Seq(Letters)
        /\ ahead'[f] = Tail(ahead[f]) /\ kept'[f] = Append(kept[f], Head(ahead[f]))
        /\ UNCHANGED <<run, stored>> /\ run[f] = "on"
      BY <1>6 DEF NotDue, Keep, Advance, PhoneShape
  <2>2. /\ ahead'[f] \in Seq(Letters) /\ kept'[f] \in Seq(Letters)
        /\ Items(ahead'[f]) \cup Items(kept'[f]) = Items(ahead[f]) \cup Items(kept[f])
      BY <2>1, HeadAndTail, ItemsOfAppend
  <2>3. PhoneShape'
      BY <1>1, <1>6, <2>1, <2>2 DEF NotDue, Keep, Advance, PhoneShape
  <2>4. Enqueued' /\ Safe'
      BY <1>1, <1>3, <2>1, <2>2 DEF Enqueued, Safe, serverVars, rows, threadVars
  <2> QED BY <1>2, <1>4, <2>3, <2>4
<1>7. CASE EndFlush(f)
  <2>1. /\ run[f] = "on" /\ run'[f] = "off" /\ stored' = kept[f] /\ UNCHANGED ahead
        /\ kept'[f] = <<>> /\ Items(kept'[f]) = {} /\ Items(ahead[f]) = {}
      BY <1>7, ItemsOfNone DEF EndFlush, PhoneShape
  <2>2. PhoneShape'
      BY <1>1, <1>7 DEF EndFlush, PhoneShape
  <2>3. Enqueued' /\ Safe'
      BY <1>1, <1>3, <2>1 DEF Enqueued, Safe, serverVars, rows, threadVars
  <2> QED BY <1>2, <1>4, <2>2, <2>3
<1> QED BY <1>5, <1>6, <1>7

(* Only a success drops a letter.                                          *)
LEMMA AnsweredPhone ==
    ASSUME SubmissionsAssumption, QueueAssumption, Inv, NEW f \in Flushes, Answered(f)
    PROVE  Inv'
<1> DEFINE r == Head(ahead[f])
<1> USE DEF Inv, PhoneInv
<1>1. /\ f \in Callers /\ run[f] = "sent" /\ answer[f] \notin {"none", "waiting"}
      /\ run' = [run EXCEPT ![f] = "on"]
      /\ answer' = [answer EXCEPT ![f] = "none"]
      /\ ahead' = [ahead EXCEPT ![f] = Tail(ahead[f])]
      /\ kept' = IF answer[f] = "ok" THEN kept ELSE [kept EXCEPT ![f] = Append(kept[f], r)]
      /\ UNCHANGED <<made, records, events, pc, req, from, todo, stored, lot>>
    BY DEF Answered, Keep, Advance, QueueAssumption, rows, threadVars
<1>2. /\ ahead[f] \in Seq(Letters) /\ ahead[f] # <<>> /\ kept[f] \in Seq(Letters)
      /\ r \in Letters /\ Tail(ahead[f]) \in Seq(Letters)
      /\ Items(ahead[f]) = {r} \cup Items(Tail(ahead[f]))
    BY <1>1, HeadAndTail DEF PhoneShape
<1>3. /\ Append(kept[f], r) \in Seq(Letters)
      /\ Items(Append(kept[f], r)) = Items(kept[f]) \cup {r}
    BY <1>2, ItemsOfAppend
<1>4. answer[f] = "ok" => made[r] # 0
    BY <1>1 DEF Awaited
<1> HIDE DEF r
<1>5. /\ \A g \in Flushes : g # f => /\ run'[g] = run[g] /\ ahead'[g] = ahead[g]
                                     /\ kept'[g] = kept[g] /\ answer'[g] = answer[g]
      /\ run'[f] = "on" /\ ahead'[f] = Tail(ahead[f])
      /\ kept'[f] = IF answer[f] = "ok" THEN kept[f] ELSE Append(kept[f], r)
    BY <1>1 DEF PhoneShape, ServerInv, ServerShape, QueueAssumption
<1>6. ServerInv'
  <2>1. answer' \in [Callers -> {"none", "waiting", "ok", "refused", "error"}]
      BY <1>1 DEF ServerInv, ServerShape
  <2>2. ServerShape' /\ Busy' /\ Recorded'
      BY <1>1, <2>1, RowsServer DEF ServerInv, ServerShape, Busy
  <2> QED BY <2>2 DEF ServerInv
<1>7. PhoneShape'
  <2>1. ahead' \in [Flushes -> Seq(Letters)] /\ kept' \in [Flushes -> Seq(Letters)]
      BY <1>1, <1>2, <1>3 DEF PhoneShape
  <2> QED BY <1>1, <1>5, <2>1 DEF PhoneShape
<1>8. Enqueued'
    BY <1>1, <1>2, <1>3, <1>5 DEF Enqueued
<1>9. Safe'
    BY <1>1, <1>2, <1>3, <1>4, <1>5 DEF Safe
<1>10. \A th \in Threads : from[th] # f
    BY <1>1 DEF Awaited
<1>11. Awaited'
    BY <1>1, <1>5, <1>10 DEF Awaited
<1> QED BY <1>6, <1>7, <1>8, <1>9, <1>11

(* The program is killed: the store keeps what the runs have copied.       *)
LEMMA KillPhone ==
    ASSUME SubmissionsAssumption, QueueAssumption, Inv, Kill
    PROVE  Inv'
<1> USE DEF Inv, PhoneInv
<1>1. /\ UNCHANGED <<made, records, events, pc, req, todo, stored, lot>>
      /\ run' = [f \in Flushes |-> "off"]
      /\ ahead' = [f \in Flushes |-> <<>>] /\ kept' = [f \in Flushes |-> <<>>]
    BY DEF Kill, rows
<1>2. /\ answer' \in [Callers -> {"none", "waiting", "ok", "refused", "error"}]
      /\ from' \in [Threads -> Callers \cup {Nobody}]
      /\ \A th \in Threads : from'[th] \notin Flushes
    BY DEF Kill, ServerInv, ServerShape, QueueAssumption, SubmissionsAssumption
<1>3. ServerInv'
    BY <1>1, <1>2, RowsServer DEF ServerInv, ServerShape, Busy
<1>4. PhoneShape'
    BY <1>1 DEF PhoneShape
<1>5. Enqueued' /\ Safe'
    BY <1>1, ItemsOfNone DEF Enqueued, Safe
<1>6. Awaited'
    BY <1>1, <1>2 DEF Awaited
<1> QED BY <1>3, <1>4, <1>5, <1>6

(* Every step of the clients and the server keeps the invariant.           *)
LEMMA StepInv ==
    ASSUME SubmissionsAssumption, QueueAssumption, Inv, [Next]_vars
    PROVE  Inv'
<1>1. ASSUME NEW r \in Requests, Enqueue(r) \/ SendDirectly(r) \/ AnsweredDirectly(r)
      PROVE  Inv'
    BY <1>1, EnqueuePhone, DirectPhone, AnsweredDirectPhone
<1>2. ASSUME NEW f \in Flushes, Phone(f)
      PROVE  Inv'
    BY <1>2, FlushPhone, SendPhone, AnsweredPhone DEF Phone
<1>3. CASE Kill
    BY <1>3, KillPhone
<1>4. CASE Crash /\ UNCHANGED phoneVars
    BY <1>4, CrashPhone
<1>5. ASSUME NEW th \in Threads, Serve(th) \/ Break(th), UNCHANGED phoneVars
      PROVE  Inv'
    BY <1>5, ServerPhone, ServeServer, BreakServer DEF Inv
<1>6. ASSUME NEW th \in Threads, NEW i \in DOMAIN alerts,
             NEW a \in {"ACKNOWLEDGE", "RESOLVE"}, LoadAlert(th, i, a), UNCHANGED phoneVars
      PROVE  Inv'
    BY <1>6, LoadAlertPhone
<1>7. CASE UNCHANGED vars
  <2> USE DEF vars, serverVars, phoneVars, rows, threadVars
  <2>1. ServerInv'
      BY <1>7 DEF Inv, ServerInv, ServerShape, Busy, Recorded
  <2>2. PhoneInv'
      BY <1>7 DEF Inv, PhoneInv, PhoneShape, Enqueued, Safe, Awaited
  <2> QED BY <2>1, <2>2 DEF Inv
<1> QED BY <1>1, <1>2, <1>3, <1>4, <1>5, <1>6, <1>7 DEF Next

(* So it holds in every reachable state.                                   *)
LEMMA Invariance == Spec => []Inv
<1> USE SubmissionsAssumption, QueueAssumption
<1>1. Init => Inv
    BY InitInv
<1>2. Inv /\ [Next]_vars => Inv'
    BY StepInv
<1> QED BY <1>1, <1>2, PTL DEF Spec

(* ACCEPTANCE.md: one key makes one row with one event, and a store has    *)
(* one report a day, whatever overlaps, is repeated, fails or crashes.     *)
THEOREM KeysCountOnce == Spec => []OncePerKey
<1>1. Inv => OncePerKey
  <2> SUFFICES ASSUME Recorded, ServerShape, NEW r \in Requests, r.kind # "UPLOAD"
               PROVE  /\ made[r] <= 1
                      /\ r.kind # "TELEMETRY" => events[r] = made[r]
                      /\ \A q \in Requests \ {r} :
                            /\ q.kind = r.kind
                            /\ q.key = r.key \/ (r.kind = "REPORT" /\ q.body = r.body)
                            => made[q] + made[r] <= 1
      BY DEF Inv, ServerInv, OncePerKey
  <2>1. made[r] <= 1 /\ (r.kind # "TELEMETRY" => events[r] = made[r])
      BY DEF Recorded
  <2>2. ASSUME NEW q \in Requests \ {r}, q.kind = r.kind,
               q.key = r.key \/ (r.kind = "REPORT" /\ q.body = r.body)
        PROVE  made[q] + made[r] <= 1
    <3>1. ~(q \in records /\ r \in records)
        BY <2>2 DEF Recorded
    <3>2. made[q] \in {0, 1} /\ made[r] \in {0, 1} /\ (made[q] = 0 \/ made[r] = 0)
        BY <2>2, <3>1 DEF Recorded
    <3> QED BY <3>2
  <2> QED BY <2>1, <2>2
<1> QED BY <1>1, Invariance, PTL

----------------------------------------------------------------------------
(* The mailbox of the phone and the server.                                *)

Queued    == {x \in Letters : lot[x] = "late" \/ x \in InStore}
Delivered == {x \in Letters : made[x] > 0}
Forgotten == {x \in Letters : lot[x] = "queued" /\ x \notin InStore}

(* The mailbox is empty at first.                                          *)
LEMMA InitMail == QueueAssumption /\ Init => Mail!Init
BY DEF Init, ServerInit, Mail!Init, InStore, Letters

(* What neither stores nor makes anything is not seen by the mailbox.      *)
LEMMA StutterMail ==
    ASSUME UNCHANGED <<made, stored, lot>>
    PROVE  UNCHANGED Mail!vars
BY DEF Mail!vars, InStore

(* A row is made of a letter that is in the mailbox, or of no letter.      *)
LEMMA DeliverMail ==
    ASSUME Inv, NEW th \in Threads, NEW x \in Requests, req[th] = x,
           made' = [made EXCEPT ![x] = @ + 1], UNCHANGED <<stored, lot>>
    PROVE  [Mail!Next]_Mail!vars
<1> USE DEF Inv, PhoneInv
<1>1. \A y \in Requests : made[y] \in Nat /\ made'[y] = IF y = x THEN made[y] + 1 ELSE made[y]
    BY DEF ServerInv, ServerShape
<1>2. InStore' = InStore /\ InStore = Items(stored)
    BY DEF InStore, Items
<1>3. Queued' = Queued /\ Forgotten' = Forgotten
    BY <1>2 DEF Queued, Forgotten
<1>4. CASE x \notin Letters \/ made[x] > 0
  <2>1. Delivered' = Delivered
      BY <1>1, <1>4 DEF Delivered, Letters
  <2> QED BY <1>3, <2>1 DEF Mail!vars, Queued, Delivered, Forgotten
<1>5. CASE x \in Letters /\ ~(made[x] > 0)
  <2>1. made[x] = 0 /\ lot[x] \in {"queued", "late"}
      BY <1>1, <1>5 DEF Enqueued, PhoneShape
  <2>2. x \in Queued \ Delivered
      BY <1>2, <1>5, <2>1 DEF Safe, Queued, Delivered
  <2>3. Delivered' = Delivered \cup {x}
      BY <1>1, <1>5, <2>1 DEF Delivered, Letters
  <2>4. Mail!Deliver(x)
      BY <1>3, <2>2, <2>3 DEF Mail!Deliver, Queued, Delivered, Forgotten
  <2> QED BY <1>5, <2>4 DEF Mail!Next
<1> QED BY <1>4, <1>5

(* Enqueue puts the letter into the mailbox.                               *)
LEMMA QueueMail ==
    ASSUME Inv, NEW r \in Requests, Enqueue(r)
    PROVE  Mail!Next
<1> USE DEF Inv, PhoneInv
<1>1. /\ r \in todo /\ r \in Letters /\ lot[r] = "new"
      /\ \A x \in Letters : lot'[x] = IF x # r THEN lot[x]
                                      ELSE IF \A f \in Flushes : run[f] = "off"
                                           THEN "queued" ELSE "late"
      /\ UNCHANGED made
    BY DEF Enqueue, Enqueued, PhoneShape, serverVars, rows
<1>2. InStore = Items(stored) /\ InStore' = Items(stored')
    BY DEF InStore, Items
<1>3. InStore' = InStore \cup {r} /\ r \notin InStore
    BY <1>1, <1>2, ItemsOfAppend DEF Enqueue, PhoneShape, Enqueued
<1>4. r \notin Queued \cup Forgotten
    BY <1>1, <1>3 DEF Queued, Forgotten
<1>5. Queued' = Queued \cup {r} /\ Forgotten' = Forgotten /\ Delivered' = Delivered
    BY <1>1, <1>3 DEF Queued, Forgotten, Delivered
<1>6. Mail!Queue(r)
    BY <1>4, <1>5 DEF Mail!Queue, Queued, Forgotten, Delivered
<1> QED BY <1>1, <1>6 DEF Mail!Next

(* A run drops only what was delivered; what another has dropped and this  *)
(* one has kept comes back.                                                *)
LEMMA TidyMail ==
    ASSUME Inv, NEW f \in Flushes, EndFlush(f)
    PROVE  Mail!Next
<1> DEFINE drop == Queued \ Queued'
           back == Queued' \ Queued
<1> USE DEF Inv, PhoneInv
<1>1. /\ run[f] = "on" /\ ahead[f] = <<>> /\ stored' = kept[f]
      /\ UNCHANGED <<made, lot>>
    BY DEF EndFlush, serverVars, rows
<1>2. InStore = Items(stored) /\ InStore' = Items(kept[f]) /\ Items(ahead[f]) = {}
    BY <1>1, ItemsOfNone DEF InStore, Items
<1>3. Delivered' = Delivered
    BY <1>1 DEF Delivered
<1>4. \A x \in Letters : x \in InStore \cup InStore' => lot[x] \in {"queued", "late"}
    BY <1>2 DEF Enqueued, PhoneShape
<1>5. drop \subseteq Queued \cap Delivered
  <2> SUFFICES ASSUME NEW x \in drop
               PROVE  x \in Delivered
      OBVIOUS
  <2>1. x \in Letters /\ x \in InStore /\ x \notin InStore' /\ lot[x] = "queued"
      BY <1>1, <1>4 DEF Queued
  <2>2. made[x] # 0
      BY <1>1, <1>2, <2>1 DEF Safe
  <2>3. made[x] \in Nat
      BY <2>1 DEF ServerInv, ServerShape, Letters
  <2> QED BY <2>1, <2>2, <2>3 DEF Delivered
<1>6. back \subseteq Forgotten
    BY <1>1, <1>4 DEF Queued, Forgotten
<1>7. Queued' = (Queued \ drop) \cup back
    OBVIOUS
<1>8. Forgotten' = (Forgotten \ back) \cup drop
    BY <1>1, <1>4 DEF Queued, Forgotten
<1> HIDE DEF drop, back
<1>9. Mail!Tidy
    BY <1>3, <1>5, <1>6, <1>7, <1>8 DEF Mail!Tidy, Queued, Forgotten, Delivered
<1> QED BY <1>9 DEF Mail!Next

(* Every step is one of the mailbox, or is not seen by it.                 *)
LEMMA StepMail ==
    ASSUME SubmissionsAssumption, QueueAssumption, Inv, [Next]_vars
    PROVE  [Mail!Next]_Mail!vars
<1> USE DEF phoneVars, rows, threadVars
<1>1. ASSUME NEW r \in Requests, Enqueue(r)
      PROVE  Mail!Next
    BY <1>1, QueueMail
<1>2. ASSUME NEW r \in Requests, SendDirectly(r) \/ AnsweredDirectly(r)
      PROVE  UNCHANGED <<made, stored, lot>>
  <2>1. CASE SendDirectly(r)
      BY <2>1, ReceiveSteps DEF SendDirectly, Inv
  <2>2. CASE AnsweredDirectly(r)
      BY <2>2 DEF AnsweredDirectly
  <2> QED BY <1>2, <2>1, <2>2
<1>3. ASSUME NEW f \in Flushes, StartFlush(f) \/ NotDue(f) \/ Send(f) \/ Answered(f)
      PROVE  UNCHANGED <<made, stored, lot>>
  <2>1. CASE StartFlush(f) \/ NotDue(f) \/ Answered(f)
      BY <2>1 DEF StartFlush, NotDue, Answered, serverVars
  <2>2. CASE Send(f)
    <3>1. f \in Callers /\ Head(ahead[f]) \in Requests
        BY <2>2, HeadAndTail DEF Send, Inv, PhoneInv, PhoneShape, QueueAssumption, Letters
    <3> QED BY <2>2, <3>1, ReceiveSteps DEF Send, Inv
  <2> QED BY <1>3, <2>1, <2>2
<1>4. ASSUME NEW f \in Flushes, EndFlush(f)
      PROVE  Mail!Next
    BY <1>4, TidyMail
<1>5. CASE Kill \/ (Crash /\ UNCHANGED phoneVars) \/ UNCHANGED vars
  <2>1. UNCHANGED <<made, stored, lot>>
      BY <1>5 DEF Kill, Crash, vars, serverVars
  <2> QED BY <2>1, StutterMail
<1>6. ASSUME NEW th \in Threads, Serve(th) \/ Break(th), UNCHANGED phoneVars
      PROVE  [Mail!Next]_Mail!vars
  <2>1. CASE UNCHANGED made
      BY <1>6, <2>1, StutterMail
  <2>2. CASE req[th] \in Requests /\ made' = [made EXCEPT ![req[th]] = @ + 1]
      BY <1>6, <2>2, DeliverMail
  <2>3. CASE Timeout(th)
      BY <1>6, <2>3, StutterMail DEF Timeout
  <2> QED BY <1>6, <2>1, <2>2, <2>3, ThreadSteps DEF Inv, Break
<1>7. ASSUME NEW th \in Threads, NEW i \in DOMAIN alerts,
             NEW a \in {"ACKNOWLEDGE", "RESOLVE"}, LoadAlert(th, i, a), UNCHANGED phoneVars
      PROVE  UNCHANGED <<made, stored, lot>>
    BY <1>7 DEF LoadAlert
<1> QED BY <1>1, <1>2, <1>3, <1>4, <1>5, <1>6, <1>7, StutterMail DEF Next, Phone

(* The phone and the server implement Mailbox: for whatever requests, runs *)
(* and threads, a letter enqueued while no run is on is not forgotten      *)
(* before it is delivered.                                                 *)
THEOREM MailIsKept == Spec => MailKept
<1> USE SubmissionsAssumption, QueueAssumption
<1>1. Init => Mail!Init
    BY InitMail
<1>2. Inv /\ [Next]_vars => [Mail!Next]_Mail!vars
    BY StepMail
<1> QED BY <1>1, <1>2, Invariance, PTL DEF Spec, MailKept, Mail!Spec

----------------------------------------------------------------------------
(* The alerts and the files.                                               *)

AlertRow == [type : Anomalies, status : AlertStatus, version : Nat, by : Requests]

Ingesting(th) == pc[th] \in {"checked", "looked"} /\ req[th].kind = "TELEMETRY"
Alerting(th)  == pc[th] = "alert" \/ Ingesting(th)
Uploading(th) == pc[th] \in {"writing", "written"}

(* The rest of the types.                                                  *)
WorkShape ==
    /\ req \in [Threads -> Requests \cup AlertChange \cup {NoRequest}]
    /\ seen = [th \in Threads |-> seen[th]]
    /\ \A th \in Threads : pc[th] = "alert" => req[th] \in AlertChange
    /\ met \subseteq SUBSET Requests
    /\ faults \in 0..MaxFaults

(* The first versions of an alert are announced.                           *)
Told(news, i, version) == \A v \in 1..version : \E a \in news : a.alert = i /\ a.version = v

(* Every version of an alert was announced, and the last as it stands; an  *)
(* administrator at work has loaded such a version and will not open it.   *)
AnnouncedInv ==
    /\ alerts \in Seq(AlertRow)
    /\ announced \subseteq [alert : Nat, version : Nat, status : AlertStatus]
    /\ \A i \in DOMAIN alerts :
        /\ Announcement(i, alerts[i].version, alerts[i].status) \in announced
        /\ Told(announced, i, alerts[i].version)
    /\ \A th \in Threads : pc[th] = "alert" =>
        /\ req[th].key \in DOMAIN alerts
        /\ seen[th][1] \in AlertStatus \ {"OPEN"}
        /\ seen[th][2] \in Nat /\ Told(announced, req[th].key, seen[th][2])

AlertOf(type) == \E i \in DOMAIN alerts : alerts[i].type = type

(* A batch that has looked will open an alert of each of its types, if     *)
(* there is none; an OPEN alert of a type it will open is then of a batch  *)
(* served at the same time.                                                *)
Looked(th) ==
    /\ seen[th] \in Seq(Anomalies)
    /\ \A k, l \in DOMAIN seen[th] : seen[th][k] = seen[th][l] => k = l
    /\ \A type \in req[th].body : type \in Items(seen[th]) \/ AlertOf(type)
    /\ \A k \in DOMAIN seen[th], i \in DOMAIN alerts :
        alerts[i].type = seen[th][k] /\ alerts[i].status = "OPEN"
            => {alerts[i].by, req[th]} \in met

BatchInv ==
    /\ \A r \in Requests : r.kind = "TELEMETRY" /\ made[r] > 0 =>
            \A type \in r.body : AlertOf(type)
    /\ \A th, u \in Threads : th # u /\ Ingesting(th) /\ Ingesting(u) => {req[th], req[u]} \in met
    /\ \A th \in Threads : Ingesting(th) /\ pc[th] = "looked" => Looked(th)

AlertsInv == AnnouncedInv /\ BatchInv /\ OpenTogether

(* A thread that uploads has a file of its own, without a row as yet; the  *)
(* others without a row are left by faults.                                *)
Left == {f \in disk \ attached :
            ~ \E th \in Threads : pc[th] \in {"writing", "written"} /\ f.n = seen[th][1]}

FilesShape ==
    /\ disk \subseteq File /\ IsFiniteSet(disk)
    /\ \A f, g \in disk : f.n = g.n => f = g
    /\ \A f \in attached : f \in disk /\ f.whole

OwnFile(th) == \E f \in disk \ attached : f.n = seen[th][1] /\ (pc[th] = "written" => f.whole)

FilesInv ==
    /\ FilesShape
    /\ \A th \in Threads : Uploading(th) => OwnFile(th)
    /\ \A th, u \in Threads :
            Uploading(th) /\ Uploading(u) /\ seen[th][1] = seen[u][1] => th = u
    /\ Cardinality(Left) <= faults * Cardinality(Threads)

Detail == WorkShape /\ AlertsInv /\ FilesInv

Same(th) == pc'[th] = pc[th] /\ req'[th] = req[th] /\ seen'[th] = seen[th]

(* With more announcements, no version becomes unannounced.                *)
LEMMA ToldMore ==
    ASSUME NEW old, NEW more, old \subseteq more, NEW i, NEW version, Told(old, i, version)
    PROVE  Told(more, i, version)
BY DEF Told

(* The next version is announced.                                          *)
LEMMA ToldNext ==
    ASSUME NEW old, NEW more, old \subseteq more, NEW i, NEW version \in Nat,
           Told(old, i, version), NEW a \in more, a.alert = i, a.version = version + 1
    PROVE  Told(more, i, version + 1)
<1>1. \A v \in 1..(version + 1) : v \in 1..version \/ v = version + 1
    OBVIOUS
<1> QED BY <1>1 DEF Told

(* What neither opens nor changes an alert.                                *)
LEMMA AlertsQuiet ==
    ASSUME AlertsInv, UNCHANGED <<alerts, announced>>, met \subseteq met',
           \A r \in Requests : r.kind = "TELEMETRY" /\ made'[r] > 0 => made[r] > 0,
           \A th \in Threads : Same(th) \/ ~Alerting(th)'
    PROVE  AlertsInv'
<1> USE DEF AlertsInv
<1>1. AnnouncedInv'
    BY DEF AnnouncedInv, Same, Alerting
<1>2. BatchInv'
  <2>1. \A th \in Threads : Ingesting(th)' => Ingesting(th) /\ Same(th)
      BY DEF Same, Alerting, Ingesting
  <2>2. \A type : AlertOf(type)' <=> AlertOf(type)
      BY DEF AlertOf
  <2>3. \A r \in Requests : r.kind = "TELEMETRY" /\ made'[r] > 0 =>
            \A type \in r.body : AlertOf(type)'
      BY <2>2 DEF BatchInv
  <2>4. \A th, u \in Threads :
            th # u /\ Ingesting(th)' /\ Ingesting(u)' => {req'[th], req'[u]} \in met'
      BY <2>1 DEF BatchInv, Same
  <2>5. \A th \in Threads : Looked(th) /\ Same(th) => Looked(th)'
      BY <2>2 DEF Looked, Same
  <2>6. \A th \in Threads : Ingesting(th)' /\ pc'[th] = "looked" => Looked(th)'
      BY <2>1, <2>5 DEF BatchInv, Same
  <2> QED BY <2>3, <2>4, <2>6 DEF BatchInv
<1>3. OpenTogether'
    BY DEF OpenTogether
<1> QED BY <1>1, <1>2, <1>3

(* A product grows with its factor.                                        *)
LEMMA Times == \A a, b, c \in Nat : a <= b => a * c <= b * c
OBVIOUS

(* What leaves the files alone.                                            *)
LEMMA FilesQuiet ==
    ASSUME SubmissionsAssumption, FilesInv, UNCHANGED <<disk, attached>>,
           faults \in Nat, faults' \in Nat, faults <= faults',
           \A th \in Threads : Same(th) \/ (~Uploading(th) /\ ~Uploading(th)')
    PROVE  FilesInv'
<1> USE DEF FilesInv
<1>1. FilesShape'
    BY DEF FilesShape
<1>2. /\ \A th \in Threads : Uploading(th)' => OwnFile(th)'
      /\ \A th, u \in Threads :
            Uploading(th)' /\ Uploading(u)' /\ seen'[th][1] = seen'[u][1] => th = u
    BY DEF Same, Uploading, OwnFile
<1>3. Left' = Left
    BY DEF Left, Same, Uploading
<1>4. IsFiniteSet(Left)
    BY FS_Subset DEF FilesShape, Left
<1>5. Cardinality(Left) \in Nat /\ Cardinality(Threads) \in Nat
    BY <1>4, FS_CardinalityType DEF SubmissionsAssumption
<1>6. /\ faults * Cardinality(Threads) \in Nat /\ faults' * Cardinality(Threads) \in Nat
      /\ faults * Cardinality(Threads) <= faults' * Cardinality(Threads)
    BY <1>5, Times
<1>7. Cardinality(Left') <= faults' * Cardinality(Threads)
    BY <1>3, <1>5, <1>6
<1> QED BY <1>1, <1>2, <1>7

(* The other threads go on.                                                *)
LEMMA OneThread ==
    ASSUME Inv, WorkShape, NEW th \in Threads,
           \/ Finish(th)
           \/ \E c \in Callers \cup {Nobody}, r \in Requests \cup AlertChange : \E step, looked :
                /\ Work(th, c, r, step, looked)
                /\ step = "alert" => r \in AlertChange
    PROVE  /\ \A u \in Threads : u # th => Same(u)
           /\ req' \in [Threads -> Requests \cup AlertChange \cup {NoRequest}]
           /\ seen' = [u \in Threads |-> seen'[u]]
           /\ \A u \in Threads : pc'[u] = "alert" => req'[u] \in AlertChange
<1> USE DEF Inv, ServerInv, ServerShape, WorkShape, Same
<1>1. CASE Finish(th)
    BY <1>1 DEF Finish
<1>2. ASSUME NEW c \in Callers \cup {Nobody}, NEW r \in Requests \cup AlertChange,
             NEW step, NEW looked, Work(th, c, r, step, looked),
             step = "alert" => r \in AlertChange
      PROVE  /\ \A u \in Threads : u # th => Same(u)
             /\ req' \in [Threads -> Requests \cup AlertChange \cup {NoRequest}]
             /\ seen' = [u \in Threads |-> seen'[u]]
             /\ \A u \in Threads : pc'[u] = "alert" => req'[u] \in AlertChange
    BY <1>2 DEF Work
<1> QED BY <1>1, <1>2

(* A step of a thread that has no file in hand, and no alert afterwards.   *)
LEMMA QuietDetail ==
    ASSUME SubmissionsAssumption, Detail, UNCHANGED <<alerts, announced, disk, attached>>,
           met \subseteq met', faults <= faults', WorkShape',
           \A r \in Requests : r.kind = "TELEMETRY" /\ made'[r] > 0 => made[r] > 0,
           \A th \in Threads :
                \/ Same(th)
                \/ (~Uploading(th) /\ ~Uploading(th)' /\ ~Alerting(th)')
    PROVE  Detail'
<1>1. faults \in Nat /\ faults' \in Nat
    BY DEF Detail, WorkShape, SubmissionsAssumption
<1>2. AlertsInv'
    BY AlertsQuiet DEF Detail
<1>3. FilesInv'
    BY <1>1, FilesQuiet DEF Detail
<1> QED BY <1>2, <1>3 DEF Detail

(* The end of the work on a report, a stockout, a location, an exception   *)
(* or an upload that was written, and of work that fails.                  *)
LEMMA PlainDetail ==
    ASSUME SubmissionsAssumption, Inv, Detail, NEW th \in Threads,
           \/ SeeReport(th) \/ Collide(th)
           \/ Fail(th) /\ pc[th] # "written"
           \/ \E kind \in {"STOCKOUT", "REPORT", "LOCATION", "EXCEPTION"} : Insert(th, kind)
    PROVE  Detail'
<1> USE DEF rows, Detail
<1>1. UNCHANGED <<alerts, announced, disk, attached, met>>
    BY DEF SeeReport, Collide, Fail, Insert
<1>2. faults' \in 0..MaxFaults /\ faults <= faults'
    BY DEF SeeReport, Collide, Fail, Insert, Fault, WorkShape, SubmissionsAssumption
<1>3. \A r \in Requests : r.kind = "TELEMETRY" /\ made'[r] > 0 => made[r] > 0
  <2>1. CASE UNCHANGED made
      BY <2>1
  <2>2. ASSUME NEW kind \in {"STOCKOUT", "REPORT", "LOCATION", "EXCEPTION"}, Insert(th, kind)
        PROVE  \A r \in Requests : r.kind = "TELEMETRY" => made'[r] = made[r]
      BY <2>2 DEF Insert, Inv, ServerInv, ServerShape
  <2> QED BY <2>1, <2>2 DEF SeeReport, Collide, Fail
<1>4. pc[th] \notin {"writing", "written"}
    BY DEF SeeReport, Collide, Fail, Insert
<1>5. CASE Finish(th)
  <2>1. /\ \A u \in Threads : u # th => Same(u)
        /\ WorkShape'
      BY <1>1, <1>2, <1>5, OneThread DEF WorkShape
  <2>2. pc'[th] = "idle"
      BY <1>5 DEF Finish, Inv, ServerInv, ServerShape
  <2>3. \A u \in Threads : Same(u) \/ (~Uploading(u) /\ ~Uploading(u)' /\ ~Alerting(u)')
      BY <1>4, <2>1, <2>2 DEF Uploading, Alerting, Ingesting
  <2> QED BY <1>1, <1>2, <1>3, <2>1, <2>3, QuietDetail
<1>6. CASE SeeReport(th) /\ ~Finish(th)
  <2>1. pc' = [pc EXCEPT ![th] = "looked"] /\ UNCHANGED <<req, seen>>
      BY <1>6 DEF SeeReport, Answer
  <2>2. pc'[th] = "looked" /\ req[th].kind = "REPORT"
      BY <1>6, <2>1 DEF SeeReport, Inv, ServerInv, ServerShape
  <2>3. \A u \in Threads : u # th => Same(u)
      BY <2>1 DEF Same, Inv, ServerInv, ServerShape
  <2>4. WorkShape'
      BY <1>1, <1>2, <2>1, <2>2, <2>3 DEF WorkShape, Same
  <2>5. \A u \in Threads : Same(u) \/ (~Uploading(u) /\ ~Uploading(u)' /\ ~Alerting(u)')
      BY <1>4, <2>1, <2>2, <2>3 DEF Uploading, Alerting, Ingesting
  <2> QED BY <1>1, <1>2, <1>3, <2>4, <2>5, QuietDetail
<1> QED BY <1>5, <1>6 DEF Collide, Fail, Insert, Answer

(* A request arrives.                                                      *)
LEMMA AcceptDetail ==
    ASSUME SubmissionsAssumption, Inv, Detail, NEW c \in Callers, NEW r \in Requests,
           Accepted(c, r)
    PROVE  Detail'
<1> DEFINE step == IF r.kind \in Plain THEN "looked" ELSE "checked"
<1> USE DEF rows, Detail
<1>1. PICK th \in Threads : Work(th, c, r, step, <<>>)
    BY DEF Accepted
<1>2. /\ UNCHANGED <<alerts, announced, disk, attached, made, faults>>
      /\ met' = Meets(r) /\ r.kind # "UPLOAD"
    BY DEF Accepted
<1>3. step \in {"looked", "checked"} /\ (r.kind = "TELEMETRY" => step = "checked")
    BY DEF Plain
<1> HIDE DEF step
<1>4. /\ pc[th] = "idle" /\ pc'[th] = step /\ req'[th] = r
      /\ \A u \in Threads : u # th => Same(u)
      /\ req' \in [Threads -> Requests \cup AlertChange \cup {NoRequest}]
      /\ seen' = [u \in Threads |-> seen'[u]]
      /\ \A u \in Threads : pc'[u] = "alert" => req'[u] \in AlertChange
  <2>1. \E cc \in Callers \cup {Nobody}, rr \in Requests \cup AlertChange : \E st, looked :
            Work(th, cc, rr, st, looked) /\ (st = "alert" => rr \in AlertChange)
      BY <1>1, <1>3
  <2> QED BY <1>1, <2>1, OneThread DEF Work, Inv, ServerInv, ServerShape
<1>5. met \subseteq met' /\ met' \subseteq SUBSET Requests
  <2>1. \A u \in Threads : pc[u] # "idle" /\ req[u].kind = "TELEMETRY" => req[u] \in Requests
      BY DEF WorkShape, Inv, ServerInv, ServerShape, Busy, AlertChange
  <2> QED BY <1>2, <2>1 DEF Meets, WorkShape
<1>6. WorkShape'
    BY <1>2, <1>4, <1>5 DEF WorkShape
<1>7. \A u \in Threads : Same(u) \/ (~Uploading(u) /\ ~Uploading(u)')
    BY <1>3, <1>4 DEF Uploading
<1>8. CASE r.kind # "TELEMETRY"
  <2>1. \A u \in Threads : Same(u) \/ (~Uploading(u) /\ ~Uploading(u)' /\ ~Alerting(u)')
      BY <1>3, <1>4, <1>7, <1>8 DEF Alerting, Ingesting
  <2>2. faults <= faults'
      BY <1>2 DEF WorkShape, SubmissionsAssumption
  <2> QED BY <1>2, <1>5, <1>6, <2>1, <2>2, QuietDetail
<1>9. CASE r.kind = "TELEMETRY"
  <2>1. FilesInv'
    <3>1. faults \in Nat /\ faults' \in Nat /\ faults <= faults'
        BY <1>2 DEF WorkShape, SubmissionsAssumption
    <3> QED BY <1>2, <1>7, <3>1, FilesQuiet
  <2>2. AnnouncedInv' /\ OpenTogether'
    <3>1. \A u \in Threads : pc'[u] = "alert" => Same(u)
        BY <1>3, <1>4
    <3> QED BY <1>2, <1>5, <3>1 DEF AlertsInv, AnnouncedInv, OpenTogether, Same
  <2>3. BatchInv'
    <3>1. \A type : AlertOf(type)' <=> AlertOf(type)
        BY <1>2 DEF AlertOf
    <3>2. \A q \in Requests : q.kind = "TELEMETRY" /\ made'[q] > 0 =>
            \A type \in q.body : AlertOf(type)'
        BY <1>2, <3>1 DEF AlertsInv, BatchInv
    <3>3. \A u \in Threads : u # th /\ Ingesting(u)' => {r, req[u]} \in met'
        BY <1>2, <1>4, <1>9 DEF Ingesting, Same, Meets
    <3>4. \A u \in Threads : u # th /\ Ingesting(u)' => Ingesting(u) /\ req'[u] = req[u]
        BY <1>4 DEF Ingesting, Same
    <3>5. \A u, v \in Threads : u # v /\ Ingesting(u)' /\ Ingesting(v)' =>
            {req'[u], req'[v]} \in met'
      <4>1. \A u, v \in Threads : u # v /\ u # th /\ v # th /\ Ingesting(u)' /\ Ingesting(v)' =>
                {req'[u], req'[v]} \in met'
          BY <1>5, <3>4 DEF AlertsInv, BatchInv
      <4>2. \A x, y : {x, y} = {y, x}
          OBVIOUS
      <4>3. \A u \in Threads : u # th /\ Ingesting(u)' =>
                {req'[th], req'[u]} \in met' /\ {req'[u], req'[th]} \in met'
          BY <1>4, <3>3, <3>4, <4>2
      <4> QED BY <4>1, <4>3
    <3>6. \A u \in Threads : Looked(u) /\ Same(u) => Looked(u)'
        BY <1>2, <1>5, <3>1 DEF Looked, Same
    <3>7. \A u \in Threads : Ingesting(u)' /\ pc'[u] = "looked" => Looked(u)'
        BY <1>3, <1>4, <1>9, <3>4, <3>6 DEF AlertsInv, BatchInv, Same
    <3> QED BY <3>2, <3>5, <3>7 DEF BatchInv
  <2> QED BY <1>6, <2>1, <2>2, <2>3 DEF AlertsInv
<1> QED BY <1>8, <1>9

(* The types that are missing, in order, are each of them once.            *)
LEMMA OrderedTypes ==
    ASSUME NEW types \in SUBSET Anomalies
    PROVE  /\ InOrder(types) \in Seq(Anomalies) /\ Items(InOrder(types)) = types
           /\ \A k, l \in DOMAIN InOrder(types) :
                InOrder(types)[k] = InOrder(types)[l] => k = l
<1>1. CASE types = {}
    BY <1>1 DEF InOrder, Items
<1>2. CASE types = Anomalies
  <2>1. InOrder(types) = <<"HUMIDITY", "TEMPERATURE">>
      BY <1>2 DEF InOrder, Anomalies
  <2>2. /\ InOrder(types) \in Seq(Anomalies) /\ DOMAIN InOrder(types) = {1, 2}
        /\ InOrder(types)[1] = "HUMIDITY" /\ InOrder(types)[2] = "TEMPERATURE"
      BY <2>1 DEF Anomalies
  <2>3. Items(InOrder(types)) = {InOrder(types)[1], InOrder(types)[2]}
      BY <2>2 DEF Items
  <2> QED BY <1>2, <2>2, <2>3 DEF Anomalies
<1>3. CASE types # {} /\ types # Anomalies
  <2>1. PICK type \in Anomalies : types = {type}
      BY <1>3 DEF Anomalies
  <2>2. InOrder(types) = <<type>>
      BY <1>3, <2>1 DEF InOrder
  <2>3. /\ InOrder(types) \in Seq(Anomalies) /\ DOMAIN InOrder(types) = {1}
        /\ InOrder(types)[1] = type
    <3>1. \A S : \A x \in S : <<x>> \in Seq(S) /\ Len(<<x>>) = 1 /\ <<x>>[1] = x
        OBVIOUS
    <3>2. <<type>> \in Seq(Anomalies) /\ Len(<<type>>) = 1 /\ <<type>>[1] = type
        BY <2>1, <3>1
    <3> HIDE DEF Anomalies
    <3> QED BY <2>2, <3>2
  <2>4. Items(InOrder(types)) = {InOrder(types)[1]}
      BY <2>3 DEF Items
  <2> QED BY <2>1, <2>3, <2>4
<1> QED BY <1>1, <1>2, <1>3

(* A batch looks for alerts.                                               *)
LEMMA SeeAlertsDetail ==
    ASSUME SubmissionsAssumption, Inv, Detail, NEW th \in Threads, SeeAlerts(th)
    PROVE  Detail'
<1> DEFINE types == Missing(req[th].body)
<1> USE DEF rows, Detail
<1>1. /\ UNCHANGED <<alerts, announced, disk, attached, made, met, faults, req>>
      /\ pc[th] = "checked" /\ req[th].kind = "TELEMETRY"
      /\ pc' = [pc EXCEPT ![th] = "looked"]
      /\ seen' = [seen EXCEPT ![th] = InOrder(types)]
    BY DEF SeeAlerts
<1>2. req[th] \in Requests /\ types \in SUBSET Anomalies
    BY <1>1 DEF Inv, ServerInv, Busy, Missing, SubmissionsAssumption
<1>3. /\ InOrder(types) \in Seq(Anomalies) /\ Items(InOrder(types)) = types
      /\ \A k, l \in DOMAIN InOrder(types) : InOrder(types)[k] = InOrder(types)[l] => k = l
    BY <1>2, OrderedTypes
<1>4. \A type \in types : \A i \in DOMAIN alerts :
            ~(alerts[i].type = type /\ alerts[i].status = "OPEN")
    BY DEF Missing, Open
<1>5. \A type \in req[th].body : type \in types \/ AlertOf(type)
    BY <1>1, <1>2 DEF Missing, Open, AlertOf, SubmissionsAssumption
<1> HIDE DEF types
<1>6. /\ pc'[th] = "looked" /\ seen'[th] = InOrder(types)
      /\ \A u \in Threads : u # th => Same(u)
    BY <1>1 DEF Same, WorkShape, Inv, ServerInv, ServerShape
<1>7. WorkShape'
    BY <1>1, <1>6 DEF WorkShape, Same
<1>8. FilesInv'
  <2>1. faults \in Nat /\ faults' \in Nat /\ faults <= faults'
      BY <1>1 DEF WorkShape, SubmissionsAssumption
  <2>2. \A u \in Threads : Same(u) \/ (~Uploading(u) /\ ~Uploading(u)')
      BY <1>1, <1>6 DEF Uploading
  <2> QED BY <1>1, <2>1, <2>2, FilesQuiet
<1>9. AnnouncedInv' /\ OpenTogether'
  <2>1. \A u \in Threads : pc'[u] = "alert" => Same(u)
      BY <1>6
  <2> QED BY <1>1, <2>1 DEF AlertsInv, AnnouncedInv, OpenTogether, Same
<1>10. BatchInv'
  <2>1. \A type : AlertOf(type)' <=> AlertOf(type)
      BY <1>1 DEF AlertOf
  <2>2. \A u \in Threads : Ingesting(u)' => Ingesting(u) /\ req'[u] = req[u]
      BY <1>1, <1>6 DEF Ingesting, Same
  <2>3. Looked(th)'
    <3>1. \A k \in DOMAIN seen'[th] : seen'[th][k] \in types
        BY <1>3, <1>6 DEF Items
    <3>2. \A k \in DOMAIN seen'[th], i \in DOMAIN alerts' :
            alerts'[i].type = seen'[th][k] /\ alerts'[i].status = "OPEN"
                => {alerts'[i].by, req'[th]} \in met'
        BY <1>1, <1>4, <3>1
    <3>3. \A type \in req'[th].body : type \in Items(seen'[th]) \/ AlertOf(type)'
        BY <1>1, <1>3, <1>5, <1>6, <2>1
    <3> QED BY <1>3, <1>6, <3>2, <3>3 DEF Looked, Items
  <2>4. \A u \in Threads : Looked(u) /\ Same(u) => Looked(u)'
      BY <1>1, <2>1 DEF Looked, Same
  <2>5. \A u \in Threads : Ingesting(u)' /\ pc'[u] = "looked" => Looked(u)'
      BY <1>6, <2>2, <2>3, <2>4 DEF AlertsInv, BatchInv, Same
  <2>6. \A q \in Requests : q.kind = "TELEMETRY" /\ made'[q] > 0 =>
            \A type \in q.body : AlertOf(type)'
      BY <1>1, <2>1 DEF AlertsInv, BatchInv
  <2>7. \A u, v \in Threads : u # v /\ Ingesting(u)' /\ Ingesting(v)' =>
            {req'[u], req'[v]} \in met'
      BY <1>1, <2>2 DEF AlertsInv, BatchInv
  <2> QED BY <2>5, <2>6, <2>7 DEF BatchInv
<1> QED BY <1>7, <1>8, <1>9, <1>10 DEF AlertsInv

(* One sequence after the other.                                           *)
LEMMA Joined ==
    ASSUME NEW S, NEW s \in Seq(S), NEW t \in Seq(S)
    PROVE  LET u == s \o t
           IN  /\ u \in Seq(S) /\ DOMAIN s \subseteq DOMAIN u
               /\ \A i \in DOMAIN s : u[i] = s[i]
               /\ \A i \in DOMAIN u \ DOMAIN s :
                    i - Len(s) \in DOMAIN t /\ u[i] = t[i - Len(s)]
               /\ \A k \in DOMAIN t : Len(s) + k \in DOMAIN u /\ u[Len(s) + k] = t[k]
<1> DEFINE u == s \o t
<1>1. u \in Seq(S) /\ Len(u) = Len(s) + Len(t)
    OBVIOUS
<1>2. Len(s) \in Nat /\ Len(t) \in Nat /\ DOMAIN s = 1..Len(s) /\ DOMAIN t = 1..Len(t)
    OBVIOUS
<1>3. DOMAIN u = 1..(Len(s) + Len(t))
    BY <1>1
<1>4. \A i \in 1..(Len(s) + Len(t)) : u[i] = IF i <= Len(s) THEN s[i] ELSE t[i - Len(s)]
    OBVIOUS
<1> HIDE DEF u
<1>5. \A i \in DOMAIN s : u[i] = s[i]
    BY <1>2, <1>4
<1>6. \A i \in DOMAIN u \ DOMAIN s : i - Len(s) \in DOMAIN t /\ u[i] = t[i - Len(s)]
    BY <1>2, <1>3, <1>4
<1>7. \A k \in DOMAIN t : Len(s) + k \in DOMAIN u /\ u[Len(s) + k] = t[k]
  <2>1. \A k \in 1..Len(t) : /\ Len(s) + k \in 1..(Len(s) + Len(t))
                            /\ ~(Len(s) + k <= Len(s)) /\ (Len(s) + k) - Len(s) = k
      BY <1>2
  <2> QED BY <1>2, <1>3, <1>4, <2>1
<1>8. DOMAIN s \subseteq DOMAIN u
    BY <1>2, <1>3
<1> QED BY <1>1, <1>5, <1>6, <1>7, <1>8 DEF u

(* A batch opens its alerts.                                               *)
LEMMA IngestDetail ==
    ASSUME SubmissionsAssumption, Inv, Detail, NEW th \in Threads, IngestTelemetry(th)
    PROVE  Detail'
<1> DEFINE r == req[th]
           more == [k \in DOMAIN seen[th] |->
                        [type |-> seen[th][k], status |-> "OPEN", version |-> 1, by |-> r]]
           news == {Announcement(Len(alerts) + k, 1, "OPEN") : k \in DOMAIN seen[th]}
<1> USE DEF rows, Detail
<1>1. /\ UNCHANGED <<disk, attached, met, faults>> /\ Finish(th)
      /\ pc[th] = "looked" /\ r.kind = "TELEMETRY"
      /\ made' = [made EXCEPT ![r] = @ + 1] /\ alerts' = alerts \o more
      /\ announced' = announced \cup news
    BY DEF IngestTelemetry, Answer
<1>2. r \in Requests /\ Ingesting(th) /\ Looked(th)
    BY <1>1 DEF Inv, ServerInv, Busy, Ingesting, AlertsInv, BatchInv
<1>3. /\ more \in Seq(AlertRow) /\ DOMAIN more = DOMAIN seen[th]
      /\ \A k \in DOMAIN more :
            /\ more[k].type = seen[th][k] /\ more[k].status = "OPEN" /\ more[k].by = r
            /\ more[k].version = 1
  <2>1. seen[th] \in Seq(Anomalies)
      BY <1>2 DEF Looked
  <2>2. \A k \in DOMAIN seen[th] :
            [type |-> seen[th][k], status |-> "OPEN", version |-> 1, by |-> r] \in AlertRow
      BY <1>2, <2>1 DEF AlertRow, AlertStatus
  <2>3. Len(seen[th]) \in Nat /\ DOMAIN seen[th] = 1..Len(seen[th])
      BY <2>1
  <2>4. more \in [1..Len(seen[th]) -> AlertRow]
      BY <2>2, <2>3
  <2>5. more \in Seq(AlertRow)
    <3> HIDE DEF more
    <3> QED BY <2>3, <2>4
  <2> QED BY <2>5
<1> HIDE DEF more
<1>4. /\ alerts' \in Seq(AlertRow) /\ DOMAIN alerts \subseteq DOMAIN alerts'
      /\ \A i \in DOMAIN alerts : alerts'[i] = alerts[i]
      /\ \A i \in DOMAIN alerts' \ DOMAIN alerts :
            i - Len(alerts) \in DOMAIN more /\ alerts'[i] = more[i - Len(alerts)]
      /\ \A k \in DOMAIN more :
            Len(alerts) + k \in DOMAIN alerts' /\ alerts'[Len(alerts) + k] = more[k]
  <2>1. alerts \in Seq(AlertRow)
      BY DEF AlertsInv, AnnouncedInv
  <2> QED BY <1>1, <1>3, <2>1, Joined
<1>5. /\ \A u \in Threads : u # th => Same(u)
      /\ WorkShape'
    BY <1>1, OneThread DEF WorkShape
<1>6. pc'[th] = "idle"
    BY <1>1 DEF Finish, Inv, ServerInv, ServerShape
<1>7. FilesInv'
  <2>1. faults \in Nat /\ faults' \in Nat /\ faults <= faults'
      BY <1>1 DEF WorkShape, SubmissionsAssumption
  <2>2. \A u \in Threads : Same(u) \/ (~Uploading(u) /\ ~Uploading(u)')
      BY <1>1, <1>5, <1>6 DEF Uploading
  <2> QED BY <1>1, <2>1, <2>2, FilesQuiet
<1>8. AnnouncedInv'
  <2>1. Len(alerts) \in Nat /\ \A k \in DOMAIN seen[th] : k \in Nat
      BY <1>2 DEF Looked, AlertsInv, AnnouncedInv
  <2>2. /\ announced' \subseteq [alert : Nat, version : Nat, status : AlertStatus]
        /\ announced \subseteq announced'
      BY <1>1, <2>1 DEF AlertsInv, AnnouncedInv, Announcement, AlertStatus
  <2>3. ASSUME NEW i \in DOMAIN alerts' \ DOMAIN alerts
        PROVE  /\ Announcement(i, 1, "OPEN") \in announced'
               /\ alerts'[i].version = 1 /\ alerts'[i].status = "OPEN"
    <3>1. i - Len(alerts) \in DOMAIN seen[th] /\ alerts'[i] = more[i - Len(alerts)]
        BY <1>3, <1>4
    <3>2. i \in Nat /\ Len(alerts) + (i - Len(alerts)) = i
        BY <1>4, <2>1
    <3>3. Announcement(i, 1, "OPEN") \in news
        BY <3>1, <3>2
    <3> HIDE DEF news
    <3> QED BY <1>1, <1>3, <3>1, <3>3
  <2> HIDE DEF news
  <2>4. ASSUME NEW i \in DOMAIN alerts'
        PROVE  /\ Announcement(i, alerts'[i].version, alerts'[i].status) \in announced'
               /\ Told(announced', i, alerts'[i].version)
    <3>1. CASE i \in DOMAIN alerts
      <4>1. alerts'[i] = alerts[i] /\ Told(announced, i, alerts[i].version)
          BY <1>4, <3>1 DEF AlertsInv, AnnouncedInv
      <4>2. Told(announced', i, alerts[i].version)
          BY <2>2, <4>1, ToldMore
      <4> QED BY <2>2, <3>1, <4>1, <4>2 DEF AlertsInv, AnnouncedInv
    <3>2. CASE i \notin DOMAIN alerts
      <4>1. \A v \in 1..1 : v = 1
          OBVIOUS
      <4>2. Announcement(i, 1, "OPEN").alert = i /\ Announcement(i, 1, "OPEN").version = 1
          BY DEF Announcement
      <4>3. Told(announced', i, 1)
          BY <2>3, <3>2, <4>1, <4>2 DEF Told
      <4> QED BY <2>3, <3>2, <4>3
    <3> QED BY <3>1, <3>2
  <2>5. \A u \in Threads : pc'[u] = "alert" => Same(u) /\ pc[u] = "alert"
      BY <1>5, <1>6 DEF Same
  <2>6. ASSUME NEW u \in Threads, pc'[u] = "alert"
        PROVE  /\ req'[u].key \in DOMAIN alerts'
               /\ seen'[u][1] \in AlertStatus \ {"OPEN"}
               /\ seen'[u][2] \in Nat /\ Told(announced, req[u].key, seen[u][2])
               /\ req'[u].key = req[u].key /\ seen'[u][2] = seen[u][2]
      BY <1>4, <2>5, <2>6 DEF AlertsInv, AnnouncedInv, Same
  <2>7. \A u \in Threads : pc'[u] = "alert" => Told(announced', req[u].key, seen[u][2])
      BY <2>2, <2>6, ToldMore
  <2> QED BY <1>4, <2>2, <2>4, <2>6, <2>7 DEF AnnouncedInv
<1>9. \A i \in DOMAIN alerts' \ DOMAIN alerts :
            \E k \in DOMAIN seen[th] :
                /\ alerts'[i].type = seen[th][k] /\ alerts'[i].by = r /\ k = i - Len(alerts)
    BY <1>3, <1>4
<1>10. OpenTogether'
  <2> SUFFICES ASSUME NEW i \in DOMAIN alerts', NEW j \in DOMAIN alerts',
                      i # j, alerts'[i].type = alerts'[j].type,
                      alerts'[i].status = "OPEN", alerts'[j].status = "OPEN"
               PROVE  {alerts'[i].by, alerts'[j].by} \in met
      BY <1>1 DEF OpenTogether
  <2>1. CASE i \in DOMAIN alerts /\ j \in DOMAIN alerts
      BY <1>4, <2>1 DEF AlertsInv, OpenTogether
  <2>2. CASE i \notin DOMAIN alerts /\ j \in DOMAIN alerts
    <3>1. {alerts'[j].by, r} \in met /\ alerts'[i].by = r
        BY <1>2, <1>4, <1>9, <2>2 DEF Looked
    <3>2. {alerts'[i].by, alerts'[j].by} = {alerts'[j].by, r}
        BY <3>1
    <3> QED BY <3>1, <3>2
  <2>3. CASE i \in DOMAIN alerts /\ j \notin DOMAIN alerts
    <3>1. PICK k \in DOMAIN seen[th] : alerts'[j].type = seen[th][k] /\ alerts'[j].by = r
        BY <1>9, <2>3
    <3>2. alerts[i].type = seen[th][k] /\ alerts[i].status = "OPEN" /\ alerts'[i].by = alerts[i].by
        BY <1>4, <2>3, <3>1
    <3> QED BY <1>2, <2>3, <3>1, <3>2 DEF Looked
  <2>4. CASE i \notin DOMAIN alerts /\ j \notin DOMAIN alerts
    <3>1. i - Len(alerts) = j - Len(alerts)
        BY <1>2, <1>9, <2>4 DEF Looked
    <3>2. Len(alerts) \in Nat /\ i \in Nat /\ j \in Nat
        BY <1>4 DEF AlertsInv, AnnouncedInv
    <3> QED BY <3>1, <3>2
  <2> QED BY <2>1, <2>2, <2>3, <2>4
<1>11. BatchInv'
  <2>1. \A type : AlertOf(type) => AlertOf(type)'
      BY <1>4 DEF AlertOf
  <2>2. \A type \in Items(seen[th]) : AlertOf(type)'
    <3> SUFFICES ASSUME NEW x \in Items(seen[th])
                 PROVE  AlertOf(x)'
        OBVIOUS
    <3>1. PICK k \in DOMAIN seen[th] : x = seen[th][k]
        BY DEF Items
    <3>2. /\ Len(alerts) + k \in DOMAIN alerts'
          /\ alerts'[Len(alerts) + k].type = x
        BY <1>3, <1>4, <3>1
    <3> QED BY <3>2 DEF AlertOf
  <2>3. \A q \in Requests : q.kind = "TELEMETRY" /\ made'[q] > 0 =>
            \A type \in q.body : AlertOf(type)'
    <3>1. \A q \in Requests : q # r => made'[q] = made[q]
        BY <1>1, <1>2 DEF Inv, ServerInv, ServerShape
    <3>2. \A type \in r.body : AlertOf(type)'
        BY <1>2, <2>1, <2>2 DEF Looked
    <3> QED BY <2>1, <3>1, <3>2 DEF AlertsInv, BatchInv
  <2>4. \A u \in Threads : Ingesting(u)' => u # th /\ Ingesting(u) /\ Same(u)
      BY <1>5, <1>6 DEF Ingesting, Same
  <2>5. \A u, v \in Threads : u # v /\ Ingesting(u)' /\ Ingesting(v)' =>
            {req'[u], req'[v]} \in met'
      BY <1>1, <2>4 DEF AlertsInv, BatchInv, Same
  <2>6. ASSUME NEW u \in Threads, Ingesting(u)', pc'[u] = "looked"
        PROVE  Looked(u)'
    <3>1. u # th /\ Ingesting(u) /\ Same(u) /\ Looked(u) /\ {r, req[u]} \in met
        BY <1>2, <2>4, <2>6 DEF AlertsInv, BatchInv, Same
    <3>2. \A k \in DOMAIN seen'[u], i \in DOMAIN alerts' :
            alerts'[i].type = seen'[u][k] /\ alerts'[i].status = "OPEN"
                => {alerts'[i].by, req'[u]} \in met'
      <4>1. \A i \in DOMAIN alerts' \ DOMAIN alerts : {alerts'[i].by, req'[u]} \in met'
          BY <1>1, <1>9, <3>1 DEF Same
      <4>2. \A k \in DOMAIN seen'[u], i \in DOMAIN alerts :
                alerts'[i].type = seen'[u][k] /\ alerts'[i].status = "OPEN"
                    => {alerts'[i].by, req'[u]} \in met'
        <5>1. \A k \in DOMAIN seen[u], i \in DOMAIN alerts :
                alerts[i].type = seen[u][k] /\ alerts[i].status = "OPEN"
                    => {alerts[i].by, req[u]} \in met
            BY <3>1 DEF Looked
        <5>2. seen'[u] = seen[u] /\ req'[u] = req[u] /\ met' = met
            BY <1>1, <3>1 DEF Same
        <5> QED BY <1>4, <5>1, <5>2
      <4> QED BY <4>1, <4>2
    <3> QED BY <2>1, <3>1, <3>2 DEF Looked, Same
  <2> QED BY <2>3, <2>5, <2>6 DEF BatchInv
<1> QED BY <1>5, <1>7, <1>8, <1>10, <1>11 DEF AlertsInv

(* An administrator moves an alert, whoever else has moved it meanwhile.   *)
LEMMA UpdateAlertDetail ==
    ASSUME SubmissionsAssumption, Inv, Detail, NEW th \in Threads, UpdateAlert(th)
    PROVE  Detail'
<1> DEFINE a == req[th].key
           version == seen[th][2] + 1
           news == Announcement(a, version, seen[th][1])
           row == [type |-> alerts[a].type, by |-> alerts[a].by,
                   version |-> version, status |-> seen[th][1]]
<1> USE DEF Detail
<1>1. /\ UNCHANGED <<made, disk, attached, met, faults>> /\ Finish(th)
      /\ pc[th] = "alert" /\ alerts' = [alerts EXCEPT ![a] = row]
      /\ announced' = announced \cup {news}
    BY DEF UpdateAlert, Update
<1>2. /\ alerts \in Seq(AlertRow) /\ a \in DOMAIN alerts /\ alerts[a] \in AlertRow
      /\ seen[th][1] \in AlertStatus \ {"OPEN"}
      /\ seen[th][2] \in Nat /\ Told(announced, a, seen[th][2])
    BY <1>1 DEF AlertsInv, AnnouncedInv
<1>3. /\ row \in AlertRow /\ row.type = alerts[a].type /\ row.status # "OPEN"
      /\ row.by = alerts[a].by /\ row.version = version /\ version \in Nat
      /\ news = Announcement(a, row.version, row.status)
      /\ news.alert = a /\ news.version = version
      /\ news \in [alert : Nat, version : Nat, status : AlertStatus]
  <2>1. alerts[a].type \in Anomalies /\ alerts[a].by \in Requests /\ version \in Nat
      BY <1>2 DEF AlertRow
  <2>2. row \in AlertRow
      BY <1>2, <2>1 DEF AlertRow
  <2>3. a \in Nat
      BY <1>2
  <2> QED BY <1>2, <2>1, <2>2, <2>3 DEF Announcement
<1>4. Told(announced', a, version)
  <2>1. announced \subseteq announced' /\ news \in announced'
      BY <1>1
  <2> HIDE DEF news, a
  <2> QED BY <1>2, <1>3, <2>1, ToldNext
<1> HIDE DEF row, a, version, news
<1>5. /\ alerts' \in Seq(AlertRow) /\ DOMAIN alerts' = DOMAIN alerts
      /\ \A i \in DOMAIN alerts : alerts'[i] = IF i = a THEN row ELSE alerts[i]
    BY <1>1, <1>2, <1>3
<1>12. \A i \in DOMAIN alerts :
        /\ alerts'[i].type = alerts[i].type /\ alerts'[i].by = alerts[i].by
        /\ alerts'[i].status = "OPEN" => alerts[i].status = "OPEN"
    BY <1>3, <1>5
<1>6. /\ \A u \in Threads : u # th => Same(u)
      /\ WorkShape'
    BY <1>1, OneThread DEF WorkShape
<1>7. pc'[th] = "idle"
    BY <1>1 DEF Finish, Inv, ServerInv, ServerShape
<1>8. FilesInv'
  <2>1. faults \in Nat /\ faults' \in Nat /\ faults <= faults'
      BY <1>1 DEF WorkShape, SubmissionsAssumption
  <2>2. \A u \in Threads : Same(u) \/ (~Uploading(u) /\ ~Uploading(u)')
      BY <1>1, <1>6, <1>7 DEF Uploading
  <2> QED BY <1>1, <2>1, <2>2, FilesQuiet
<1>9. AnnouncedInv'
  <2>1. /\ announced \subseteq announced' /\ news \in announced'
        /\ announced' \subseteq [alert : Nat, version : Nat, status : AlertStatus]
      BY <1>1, <1>3 DEF AlertsInv, AnnouncedInv
  <2>2. ASSUME NEW i \in DOMAIN alerts
        PROVE  /\ Announcement(i, alerts'[i].version, alerts'[i].status) \in announced'
               /\ Told(announced', i, alerts'[i].version)
    <3>1. CASE i = a
        BY <1>3, <1>4, <1>5, <2>1, <3>1
    <3>2. CASE i # a
      <4>1. /\ alerts'[i] = alerts[i] /\ Told(announced, i, alerts[i].version)
            /\ Announcement(i, alerts[i].version, alerts[i].status) \in announced
          BY <1>5, <3>2 DEF AlertsInv, AnnouncedInv
      <4> QED BY <2>1, <4>1, ToldMore
    <3> QED BY <3>1, <3>2
  <2>3. ASSUME NEW u \in Threads, pc'[u] = "alert"
        PROVE  /\ req'[u].key \in DOMAIN alerts
               /\ seen'[u][1] \in AlertStatus \ {"OPEN"}
               /\ seen'[u][2] \in Nat /\ Told(announced', req'[u].key, seen'[u][2])
    <3>1. Same(u) /\ pc[u] = "alert"
        BY <1>6, <1>7, <2>3 DEF Same
    <3>2. /\ req[u].key \in DOMAIN alerts
          /\ seen[u][1] \in AlertStatus \ {"OPEN"}
          /\ seen[u][2] \in Nat /\ Told(announced, req[u].key, seen[u][2])
        BY <3>1 DEF AlertsInv, AnnouncedInv
    <3> QED BY <2>1, <3>1, <3>2, ToldMore DEF Same
  <2> QED BY <1>5, <2>1, <2>2, <2>3 DEF AnnouncedInv
<1>10. OpenTogether'
    BY <1>1, <1>5, <1>12 DEF AlertsInv, OpenTogether
<1>11. BatchInv'
  <2>1. \A type : AlertOf(type)' <=> AlertOf(type)
      BY <1>5, <1>12 DEF AlertOf
  <2>2. \A u \in Threads : Ingesting(u)' => Ingesting(u) /\ Same(u)
      BY <1>6, <1>7 DEF Ingesting, Same
  <2>3. \A q \in Requests : q.kind = "TELEMETRY" /\ made'[q] > 0 =>
            \A type \in q.body : AlertOf(type)'
      BY <1>1, <2>1 DEF AlertsInv, BatchInv
  <2>4. \A u, v \in Threads : u # v /\ Ingesting(u)' /\ Ingesting(v)' =>
            {req'[u], req'[v]} \in met'
      BY <1>1, <2>2 DEF AlertsInv, BatchInv, Same
  <2>5. ASSUME NEW u \in Threads, Ingesting(u)', pc'[u] = "looked"
        PROVE  Looked(u)'
    <3>1. Same(u) /\ Looked(u)
        BY <2>2, <2>5 DEF AlertsInv, BatchInv, Same
    <3>2. seen'[u] = seen[u] /\ req'[u] = req[u] /\ met' = met
        BY <1>1, <3>1 DEF Same
    <3>3. \A k \in DOMAIN seen[u], i \in DOMAIN alerts' :
            alerts'[i].type = seen[u][k] /\ alerts'[i].status = "OPEN"
                => {alerts'[i].by, req[u]} \in met
        BY <1>5, <1>12, <3>1 DEF Looked
    <3> QED BY <2>1, <3>1, <3>2, <3>3 DEF Looked
  <2> QED BY <2>3, <2>4, <2>5 DEF BatchInv
<1> QED BY <1>6, <1>8, <1>9, <1>10, <1>11 DEF AlertsInv

(* An administrator loads an alert.                                        *)
LEMMA LoadAlertDetail ==
    ASSUME SubmissionsAssumption, Inv, Detail, NEW th \in Threads, NEW i \in DOMAIN alerts,
           NEW action \in {"ACKNOWLEDGE", "RESOLVE"}, LoadAlert(th, i, action)
    PROVE  Detail'
<1> DEFINE change == [kind |-> "ALERT", key |-> i, body |-> action]
           target == Target(alerts[i].status, action)
           looked == <<target, alerts[i].version>>
<1> USE DEF rows, Detail
<1>1. /\ UNCHANGED <<alerts, announced, disk, attached, made, met, faults>>
      /\ Work(th, Nobody, change, "alert", looked) /\ target # "NONE"
    BY DEF LoadAlert
<1>2. alerts \in Seq(AlertRow) /\ alerts[i] \in AlertRow /\ Told(announced, i, alerts[i].version)
    BY DEF AlertsInv, AnnouncedInv
<1>3. /\ change \in AlertChange /\ change.key = i /\ change.kind # "TELEMETRY"
      /\ target \in AlertStatus \ {"OPEN"}
      /\ looked[1] = target /\ looked[2] = alerts[i].version /\ alerts[i].version \in Nat
    BY <1>1, <1>2 DEF AlertChange, AlertRow, Target, AlertStatus
<1> HIDE DEF change, target, looked
<1>4. /\ pc[th] = "idle" /\ pc'[th] = "alert" /\ req'[th] = change /\ seen'[th] = looked
      /\ \A u \in Threads : u # th => Same(u)
      /\ req' \in [Threads -> Requests \cup AlertChange \cup {NoRequest}]
      /\ seen' = [u \in Threads |-> seen'[u]]
      /\ \A u \in Threads : pc'[u] = "alert" => req'[u] \in AlertChange
  <2>1. \E cc \in Callers \cup {Nobody}, rr \in Requests \cup AlertChange : \E st, lk :
            Work(th, cc, rr, st, lk) /\ (st = "alert" => rr \in AlertChange)
      BY <1>1, <1>3
  <2> QED BY <1>1, <2>1, OneThread DEF Work, WorkShape, Inv, ServerInv, ServerShape
<1>5. WorkShape'
    BY <1>1, <1>4 DEF WorkShape
<1>6. FilesInv'
  <2>1. faults \in Nat /\ faults' \in Nat /\ faults <= faults'
      BY <1>1 DEF WorkShape, SubmissionsAssumption
  <2>2. \A u \in Threads : Same(u) \/ (~Uploading(u) /\ ~Uploading(u)')
      BY <1>4 DEF Uploading
  <2> QED BY <1>1, <2>1, <2>2, FilesQuiet
<1>7. AnnouncedInv'
  <2>1. ASSUME NEW u \in Threads, pc'[u] = "alert"
        PROVE  /\ req'[u].key \in DOMAIN alerts
               /\ seen'[u][1] \in AlertStatus \ {"OPEN"}
               /\ seen'[u][2] \in Nat /\ Told(announced, req'[u].key, seen'[u][2])
    <3>1. CASE u = th
        BY <1>2, <1>3, <1>4, <3>1
    <3>2. CASE u # th
        BY <1>4, <2>1, <3>2 DEF AlertsInv, AnnouncedInv, Same
    <3> QED BY <3>1, <3>2
  <2> QED BY <1>1, <2>1 DEF AlertsInv, AnnouncedInv
<1>8. OpenTogether'
    BY <1>1 DEF AlertsInv, OpenTogether
<1>9. BatchInv'
  <2>1. \A type : AlertOf(type)' <=> AlertOf(type)
      BY <1>1 DEF AlertOf
  <2>2. \A u \in Threads : Ingesting(u)' => Ingesting(u) /\ Same(u)
      BY <1>3, <1>4 DEF Ingesting, Same
  <2>3. \A u \in Threads : Looked(u) /\ Same(u) => Looked(u)'
      BY <1>1, <2>1 DEF Looked, Same
  <2>4. \A q \in Requests : q.kind = "TELEMETRY" /\ made'[q] > 0 =>
            \A type \in q.body : AlertOf(type)'
      BY <1>1, <2>1 DEF AlertsInv, BatchInv
  <2>5. \A u, v \in Threads : u # v /\ Ingesting(u)' /\ Ingesting(v)' =>
            {req'[u], req'[v]} \in met'
      BY <1>1, <2>2 DEF AlertsInv, BatchInv, Same
  <2>6. \A u \in Threads : Ingesting(u)' /\ pc'[u] = "looked" => Looked(u)'
      BY <2>2, <2>3 DEF AlertsInv, BatchInv, Same
  <2> QED BY <2>4, <2>5, <2>6 DEF BatchInv
<1> QED BY <1>5, <1>6, <1>7, <1>8, <1>9 DEF AlertsInv

(* The file of a thread.                                                   *)
LEMMA FileOfThread ==
    ASSUME FilesInv, NEW th \in Threads, Uploading(th)
    PROVE  /\ FileOf(th) \in disk /\ FileOf(th) \notin attached /\ FileOf(th) \in File
           /\ FileOf(th).n = seen[th][1]
           /\ pc[th] = "written" => FileOf(th).whole
           /\ \A f \in disk : f.n = seen[th][1] => f = FileOf(th)
<1> DEFINE own == FileOf(th)
<1>1. PICK f \in disk : /\ f \notin attached /\ f.n = seen[th][1]
                        /\ pc[th] = "written" => f.whole
    BY DEF FilesInv, OwnFile
<1>2. own \in disk /\ own.n = seen[th][1]
    BY <1>1 DEF FileOf
<1> HIDE DEF own
<1>3. \A g \in disk : g.n = seen[th][1] => g = own
    BY <1>2 DEF FilesInv, FilesShape
<1>4. own = f
    BY <1>1, <1>3
<1>5. own \in File
    BY <1>2 DEF FilesInv, FilesShape
<1> QED BY <1>1, <1>2, <1>3, <1>4, <1>5 DEF own

(* The files that nobody works on are no more than before.                 *)
LEMMA NoMoreLeft ==
    ASSUME SubmissionsAssumption, FilesInv, faults \in Nat, faults' \in Nat, faults <= faults',
           Left' \subseteq Left
    PROVE  Cardinality(Left') <= faults' * Cardinality(Threads)
<1>1. IsFiniteSet(Left)
    BY FS_Subset DEF FilesInv, FilesShape, Left
<1>2. /\ Cardinality(Left) \in Nat /\ Cardinality(Left') \in Nat /\ Cardinality(Threads) \in Nat
      /\ Cardinality(Left') <= Cardinality(Left)
    BY <1>1, FS_CardinalityType, FS_Subset DEF SubmissionsAssumption
<1>3. /\ faults * Cardinality(Threads) \in Nat /\ faults' * Cardinality(Threads) \in Nat
      /\ faults * Cardinality(Threads) <= faults' * Cardinality(Threads)
    BY <1>2, Times
<1> QED BY <1>2, <1>3 DEF FilesInv

(* A fault leaves a file of each thread at most.                           *)
LEMMA LeftByFault ==
    ASSUME SubmissionsAssumption, FilesInv, UNCHANGED <<disk, attached>>,
           faults \in Nat, faults' = faults + 1
    PROVE  Cardinality(Left') <= faults' * Cardinality(Threads)
<1> DEFINE owned == {FileOf(th) : th \in Threads}
           n == Cardinality(Threads)
<1>1. IsFiniteSet(Threads) /\ IsFiniteSet(Left) /\ n \in Nat
    BY FS_Subset, FS_CardinalityType DEF FilesInv, FilesShape, Left, SubmissionsAssumption
<1>2. IsFiniteSet(owned) /\ Cardinality(owned) <= n
  <2> DEFINE file == [th \in Threads |-> FileOf(th)]
  <2>1. file \in Surjection(Threads, owned)
      BY DEF Surjection
  <2> HIDE DEF file, owned
  <2> QED BY <1>1, <2>1, FS_Surjection
<1>3. Left' \subseteq Left \cup owned
  <2> SUFFICES ASSUME NEW f \in Left', f \notin Left
               PROVE  f \in owned
      OBVIOUS
  <2>1. f \in disk \ attached
      BY DEF Left
  <2>2. PICK th \in Threads : Uploading(th) /\ f.n = seen[th][1]
      BY <2>1 DEF Left, Uploading
  <2> QED BY <2>1, <2>2, FileOfThread
<1> HIDE DEF owned
<1>4. /\ IsFiniteSet(Left \cup owned)
      /\ Cardinality(Left \cup owned) <= Cardinality(Left) + Cardinality(owned)
  <2>1. Cardinality(Left \cap owned) \in Nat
      BY <1>1, FS_Intersection, FS_CardinalityType
  <2>2. Cardinality(Left) \in Nat /\ Cardinality(owned) \in Nat
      BY <1>1, <1>2, FS_CardinalityType
  <2>3. /\ IsFiniteSet(Left \cup owned)
        /\ Cardinality(Left \cup owned)
            = Cardinality(Left) + Cardinality(owned) - Cardinality(Left \cap owned)
      BY <1>1, <1>2, FS_Union
  <2> QED BY <2>1, <2>2, <2>3
<1>5. Cardinality(Left') <= Cardinality(Left \cup owned)
    BY <1>3, <1>4, FS_Subset
<1>6. /\ Cardinality(Left') \in Nat /\ Cardinality(Left) \in Nat
      /\ Cardinality(Left \cup owned) \in Nat /\ Cardinality(owned) \in Nat
    BY <1>1, <1>2, <1>3, <1>4, FS_Subset, FS_CardinalityType
<1>7. Cardinality(Left) <= faults * n /\ faults * n \in Nat /\ (faults + 1) * n = faults * n + n
    BY <1>1 DEF FilesInv
<1> HIDE DEF n
<1>8. Cardinality(Left') <= (faults + 1) * n
    BY <1>1, <1>2, <1>4, <1>5, <1>6, <1>7
<1> QED BY <1>8 DEF n

(* An upload opens a file of a name that no other has.                     *)
LEMMA OpenFileDetail ==
    ASSUME SubmissionsAssumption, Inv, Detail, NEW c \in Callers, NEW r \in Requests,
           OpenFile(c, r)
    PROVE  Detail'
<1> USE DEF rows, Detail
<1>1. PICK th \in Threads, n \in 1..(Cardinality(disk) + 1) :
        /\ \A f \in disk : f.n # n
        /\ disk' = disk \cup {[of |-> r, n |-> n, whole |-> FALSE]}
        /\ Work(th, c, r, "writing", <<n>>)
    BY DEF OpenFile
<1> DEFINE file == [of |-> r, n |-> n, whole |-> FALSE]
<1>2. UNCHANGED <<alerts, announced, attached, made, met, faults>>
    BY DEF OpenFile
<1>3. IsFiniteSet(disk) /\ Cardinality(disk) \in Nat /\ n \in Nat
    BY FS_CardinalityType DEF FilesInv, FilesShape
<1>4. file \in File /\ file.n = n /\ file \notin disk
    BY <1>1, <1>3 DEF File
<1>5. /\ pc[th] = "idle" /\ pc'[th] = "writing" /\ seen'[th] = <<n>>
      /\ \A u \in Threads : u # th => Same(u)
      /\ req' \in [Threads -> Requests \cup AlertChange \cup {NoRequest}]
      /\ seen' = [u \in Threads |-> seen'[u]]
      /\ \A u \in Threads : pc'[u] = "alert" => req'[u] \in AlertChange
  <2>1. \E cc \in Callers \cup {Nobody}, rr \in Requests \cup AlertChange : \E st, looked :
            Work(th, cc, rr, st, looked) /\ (st = "alert" => rr \in AlertChange)
      BY <1>1
  <2> QED BY <1>1, <2>1, OneThread DEF Work, Inv, ServerInv, ServerShape, WorkShape
<1> HIDE DEF file
<1>6. WorkShape'
    BY <1>2, <1>5 DEF WorkShape
<1>7. AlertsInv'
  <2>1. \A u \in Threads : Same(u) \/ ~Alerting(u)'
      BY <1>5 DEF Alerting, Ingesting
  <2> QED BY <1>2, <2>1, AlertsQuiet
<1>8. FilesShape'
  <2>1. disk' = disk \cup {file}
      BY <1>1 DEF file
  <2>2. IsFiniteSet(disk')
      BY <1>3, <2>1, FS_AddElement
  <2> QED BY <1>1, <1>2, <1>4, <2>1, <2>2 DEF FilesInv, FilesShape
<1>9. disk' = disk \cup {file} /\ file \notin attached
    BY <1>1, <1>4 DEF file, FilesInv, FilesShape
<1>10. \A u \in Threads : Uploading(u)' => OwnFile(u)'
  <2>1. \A u \in Threads : u # th /\ Uploading(u)' => OwnFile(u) /\ Same(u)
      BY <1>5 DEF FilesInv, Uploading, Same
  <2>2. \A u \in Threads : OwnFile(u) /\ Same(u) => OwnFile(u)'
      BY <1>2, <1>9 DEF OwnFile, Same
  <2>3. OwnFile(th)'
      BY <1>2, <1>4, <1>5, <1>9 DEF OwnFile
  <2> QED BY <2>1, <2>2, <2>3
<1>11. \A u, v \in Threads :
            Uploading(u)' /\ Uploading(v)' /\ seen'[u][1] = seen'[v][1] => u = v
  <2>1. \A u \in Threads : u # th /\ Uploading(u)' => Uploading(u) /\ seen'[u] = seen[u]
      BY <1>5 DEF Uploading, Same
  <2>2. \A u \in Threads : u # th /\ Uploading(u)' => seen'[u][1] # n
      BY <1>1, <2>1 DEF FilesInv, OwnFile
  <2>3. seen'[th][1] = n
      BY <1>5
  <2> QED BY <2>1, <2>2, <2>3 DEF FilesInv
<1>12. Left' \subseteq Left
  <2> SUFFICES ASSUME NEW f \in Left'
               PROVE  f \in Left
      OBVIOUS
  <2>1. f \in disk' \ attached
      BY <1>2 DEF Left
  <2>2. f # file
      BY <1>4, <1>5 DEF Left
  <2>3. ASSUME NEW u \in Threads, pc[u] \in {"writing", "written"}, f.n = seen[u][1]
        PROVE  FALSE
      BY <1>5, <2>3 DEF Left, Same
  <2> QED BY <1>9, <2>1, <2>2, <2>3 DEF Left
<1>13. Cardinality(Left') <= faults' * Cardinality(Threads)
  <2>1. faults \in Nat /\ faults' \in Nat /\ faults <= faults'
      BY <1>2 DEF WorkShape, SubmissionsAssumption
  <2> QED BY <1>12, <2>1, NoMoreLeft
<1> QED BY <1>6, <1>7, <1>8, <1>10, <1>11, <1>13 DEF FilesInv

(* The upload is written, or it is not and its file is removed.            *)
LEMMA WriteFileDetail ==
    ASSUME SubmissionsAssumption, Inv, Detail, NEW th \in Threads, WriteFile(th)
    PROVE  Detail'
<1> DEFINE old == FileOf(th)
           new == [of |-> req[th], n |-> old.n, whole |-> TRUE]
<1> USE DEF rows, Detail
<1>1. /\ pc[th] = "writing" /\ disk' = (disk \ {old}) \cup {new}
      /\ pc' = [pc EXCEPT ![th] = "written"]
      /\ UNCHANGED <<alerts, announced, attached, made, met, faults, req, seen>>
    BY DEF WriteFile
<1>2. /\ old \in disk /\ old \notin attached /\ old \in File /\ old.n = seen[th][1]
      /\ \A f \in disk : f.n = old.n => f = old
    BY <1>1, FileOfThread DEF Uploading
<1>3. new \in File /\ new.n = old.n /\ new.whole = TRUE
    BY <1>1, <1>2 DEF File, Inv, ServerInv, Busy
<1>4. new \notin attached
  <2>1. new \in attached => new = old
      BY <1>2, <1>3 DEF FilesInv, FilesShape
  <2> QED BY <1>2, <2>1
<1> HIDE DEF old, new
<1>5. pc'[th] = "written" /\ \A u \in Threads : u # th => Same(u)
    BY <1>1 DEF Same, Inv, ServerInv, ServerShape
<1>6. WorkShape'
    BY <1>1, <1>5 DEF WorkShape, Same
<1>7. AlertsInv'
  <2>1. \A u \in Threads : Same(u) \/ ~Alerting(u)'
      BY <1>5 DEF Alerting, Ingesting
  <2> QED BY <1>1, <2>1, AlertsQuiet
<1>8. FilesShape'
  <2>1. IsFiniteSet(disk')
    <3>1. IsFiniteSet(disk \ {old})
        BY FS_Subset DEF FilesInv, FilesShape
    <3> QED BY <1>1, <3>1, FS_AddElement
  <2>2. disk' \subseteq File
      BY <1>1, <1>3 DEF FilesInv, FilesShape
  <2>3. \A f, g \in disk' : f.n = g.n => f = g
      BY <1>1, <1>2, <1>3 DEF FilesInv, FilesShape
  <2>4. \A f \in attached : f \in disk' /\ f.whole
      BY <1>1, <1>2 DEF FilesInv, FilesShape
  <2> QED BY <1>1, <2>1, <2>2, <2>3, <2>4 DEF FilesShape
<1>9. \A u \in Threads : Uploading(u)' => OwnFile(u)'
  <2>1. OwnFile(th)'
      BY <1>1, <1>2, <1>3, <1>4, <1>5 DEF OwnFile
  <2>2. ASSUME NEW u \in Threads, u # th, Uploading(u)'
        PROVE  OwnFile(u)'
    <3>1. Uploading(u) /\ Same(u)
        BY <1>5, <2>2 DEF Uploading, Same
    <3>2. PICK f \in disk \ attached : f.n = seen[u][1] /\ (pc[u] = "written" => f.whole)
        BY <3>1 DEF FilesInv, OwnFile
    <3>3. seen[u][1] # seen[th][1]
        BY <1>1, <2>2, <3>1 DEF FilesInv, Uploading
    <3>4. f \in disk' \ attached
        BY <1>1, <1>2, <3>2, <3>3
    <3> QED BY <1>1, <3>1, <3>2, <3>4 DEF OwnFile, Same
  <2> QED BY <2>1, <2>2
<1>10. \A u, v \in Threads :
            Uploading(u)' /\ Uploading(v)' /\ seen'[u][1] = seen'[v][1] => u = v
  <2>1. \A u \in Threads : Uploading(u)' => Uploading(u)
      BY <1>1, <1>5 DEF Uploading, Same
  <2> QED BY <1>1, <2>1 DEF FilesInv
<1>11. Left' \subseteq Left
  <2> SUFFICES ASSUME NEW f \in Left'
               PROVE  f \in Left
      OBVIOUS
  <2>1. f \in disk' \ attached
      BY <1>1 DEF Left
  <2>2. f # new
      BY <1>1, <1>2, <1>3, <1>5 DEF Left
  <2>3. ASSUME NEW u \in Threads, pc[u] \in {"writing", "written"}, f.n = seen[u][1]
        PROVE  FALSE
      BY <1>1, <1>5, <2>3 DEF Left, Same
  <2> QED BY <1>1, <2>1, <2>2, <2>3 DEF Left
<1>12. Cardinality(Left') <= faults' * Cardinality(Threads)
  <2>1. faults \in Nat /\ faults' \in Nat /\ faults <= faults'
      BY <1>1 DEF WorkShape, SubmissionsAssumption
  <2> QED BY <1>11, <2>1, NoMoreLeft
<1> QED BY <1>6, <1>7, <1>8, <1>9, <1>10, <1>12 DEF FilesInv

(* A thread ends an upload: its file is removed, or has a row.             *)
LEMMA EndUploadDetail ==
    ASSUME SubmissionsAssumption, Inv, Detail, NEW th \in Threads, Uploading(th), Finish(th),
           \/ disk' = disk \ {FileOf(th)} /\ UNCHANGED attached
           \/ UNCHANGED disk /\ attached' = attached \cup {FileOf(th)} /\ pc[th] = "written",
           UNCHANGED <<alerts, announced, met>>, faults' \in 0..MaxFaults, faults <= faults',
           \A r \in Requests : r.kind = "TELEMETRY" /\ made'[r] > 0 => made[r] > 0
    PROVE  Detail'
<1> DEFINE own == FileOf(th)
<1> USE DEF Detail
<1>1. /\ own \in disk /\ own \notin attached /\ own.n = seen[th][1]
      /\ pc[th] = "written" => own.whole
      /\ disk' \subseteq disk
      /\ disk' \ attached' = (disk \ attached) \ {own}
    BY FileOfThread
<1>2. \A f \in attached' : f \in disk' /\ f.whole
    BY <1>1 DEF FilesInv, FilesShape
<1> HIDE DEF own
<1>3. pc'[th] = "idle" /\ \A u \in Threads : u # th => Same(u)
    BY OneThread DEF Finish, Inv, ServerInv, ServerShape
<1>4. WorkShape'
    BY OneThread DEF WorkShape
<1>5. AlertsInv'
  <2>1. \A u \in Threads : Same(u) \/ ~Alerting(u)'
      BY <1>3 DEF Alerting, Ingesting
  <2> QED BY <2>1, AlertsQuiet
<1>6. FilesShape'
  <2>1. IsFiniteSet(disk')
      BY <1>1, FS_Subset DEF FilesInv, FilesShape
  <2> QED BY <1>1, <1>2, <2>1 DEF FilesInv, FilesShape
<1>7. \A u \in Threads : Uploading(u)' => Uploading(u) /\ Same(u) /\ u # th
    BY <1>3 DEF Uploading, Same
<1>8. ASSUME NEW u \in Threads, Uploading(u)'
      PROVE  OwnFile(u)'
  <2>1. PICK f \in disk \ attached : f.n = seen[u][1] /\ (pc[u] = "written" => f.whole)
      BY <1>7, <1>8 DEF FilesInv, OwnFile
  <2>2. f # own
      BY <1>1, <1>7, <1>8, <2>1 DEF FilesInv
  <2>3. f \in disk' \ attached'
      BY <1>1, <2>1, <2>2
  <2> QED BY <1>7, <1>8, <2>1, <2>3 DEF OwnFile, Same
<1>9. \A u, v \in Threads :
            Uploading(u)' /\ Uploading(v)' /\ seen'[u][1] = seen'[v][1] => u = v
    BY <1>7 DEF FilesInv, Same
<1>10. Left' \subseteq Left
  <2> SUFFICES ASSUME NEW f \in Left'
               PROVE  f \in Left
      OBVIOUS
  <2>1. f \in disk' \ attached'
      BY DEF Left
  <2>2. f \in disk \ attached /\ f # own
      BY <1>1, <2>1
  <2>3. f.n # seen[th][1]
      BY <1>1, <2>2 DEF FilesInv, FilesShape
  <2>4. ASSUME NEW u \in Threads, pc[u] \in {"writing", "written"}, f.n = seen[u][1]
        PROVE  FALSE
      BY <1>3, <2>3, <2>4 DEF Left, Same
  <2> QED BY <2>2, <2>4 DEF Left
<1>11. Cardinality(Left') <= faults' * Cardinality(Threads)
  <2>1. faults \in Nat /\ faults' \in Nat
      BY DEF WorkShape, SubmissionsAssumption
  <2> QED BY <1>10, <2>1, NoMoreLeft
<1> QED BY <1>4, <1>5, <1>6, <1>8, <1>9, <1>11 DEF FilesInv

(* Its row is committed, or its file is removed.                           *)
LEMMA UploadDetail ==
    ASSUME SubmissionsAssumption, Inv, Detail, NEW th \in Threads,
           Attach(th) \/ RejectFile(th) \/ BreakFile(th)
    PROVE  Detail'
<1> USE DEF rows
<1>1. Uploading(th) /\ Finish(th) /\ UNCHANGED <<alerts, announced, met>>
    BY DEF Attach, RejectFile, BreakFile, DiscardFile, Answer, Uploading
<1>2. faults' \in 0..MaxFaults /\ faults <= faults'
    BY DEF Attach, RejectFile, BreakFile, Fault, Detail, WorkShape, SubmissionsAssumption
<1>3. \/ disk' = disk \ {FileOf(th)} /\ UNCHANGED attached
      \/ UNCHANGED disk /\ attached' = attached \cup {FileOf(th)} /\ pc[th] = "written"
    BY DEF Attach, RejectFile, BreakFile, DiscardFile
<1>4. \A r \in Requests : r.kind = "TELEMETRY" /\ made'[r] > 0 => made[r] > 0
  <2>1. req[th] \in Requests /\ req[th].kind = "UPLOAD" /\ made \in [Requests -> Nat]
      BY <1>1 DEF Inv, ServerInv, ServerShape, Busy, Uploading
  <2> QED BY <2>1 DEF Attach, RejectFile, BreakFile, DiscardFile
<1> QED BY <1>1, <1>2, <1>3, <1>4, EndUploadDetail

(* A fault between the file and its row, or a crash, leaves the file.      *)
LEMMA FaultDetail ==
    ASSUME SubmissionsAssumption, Inv, Detail, Crash \/ \E th \in Threads : Fail(th)
    PROVE  Detail'
<1> USE DEF rows, Detail
<1>1. UNCHANGED <<alerts, announced, disk, attached, made, met>>
    BY DEF Crash, Fail
<1>2. faults \in Nat /\ faults' = faults + 1 /\ faults' \in 0..MaxFaults
    BY DEF Crash, Fail, Fault, WorkShape, SubmissionsAssumption
<1>3. /\ WorkShape'
      /\ \A u \in Threads : Same(u) \/ pc'[u] = "idle"
  <2>1. CASE Crash
      BY <1>1, <1>2, <2>1 DEF Crash, WorkShape
  <2>2. ASSUME NEW th \in Threads, Fail(th)
        PROVE  /\ WorkShape'
               /\ \A u \in Threads : Same(u) \/ pc'[u] = "idle"
    <3>1. Finish(th)
        BY <2>2 DEF Fail, Answer
    <3>2. pc'[th] = "idle"
        BY <3>1 DEF Finish, Inv, ServerInv, ServerShape
    <3> QED BY <1>1, <1>2, <3>1, <3>2, OneThread DEF WorkShape
  <2> QED BY <2>1, <2>2
<1>4. AlertsInv'
  <2>1. \A u \in Threads : Same(u) \/ ~Alerting(u)'
      BY <1>3 DEF Alerting, Ingesting
  <2> QED BY <1>1, <2>1, AlertsQuiet
<1>5. \A u \in Threads : Uploading(u)' => Uploading(u) /\ Same(u)
    BY <1>3 DEF Uploading, Same
<1>6. /\ FilesShape'
      /\ \A u \in Threads : Uploading(u)' => OwnFile(u)'
      /\ \A u, v \in Threads :
            Uploading(u)' /\ Uploading(v)' /\ seen'[u][1] = seen'[v][1] => u = v
    BY <1>1, <1>5 DEF FilesInv, FilesShape, OwnFile, Same
<1>7. Cardinality(Left') <= faults' * Cardinality(Threads)
    BY <1>1, <1>2, LeftByFault
<1> QED BY <1>3, <1>4, <1>6, <1>7 DEF FilesInv

(* What happens between the callers and the network.                       *)
LEMMA CallerDetail ==
    ASSUME SubmissionsAssumption, Detail, UNCHANGED <<rows, disk, pc, req, seen, met>>,
           UNCHANGED faults \/ Fault
    PROVE  Detail'
<1>1. faults' \in 0..MaxFaults /\ faults <= faults'
    BY DEF Fault, Detail, WorkShape, SubmissionsAssumption
<1>2. WorkShape'
    BY <1>1 DEF Detail, WorkShape
<1>3. \A th \in Threads : Same(th)
    BY DEF Same
<1> QED BY <1>1, <1>2, <1>3, QuietDetail DEF rows

(* A replayed request touches nothing, and a lost one does not arrive.     *)
LEMMA ReplayedDetail ==
    ASSUME SubmissionsAssumption, Detail, NEW c \in Callers, NEW r \in Requests,
           Replayed(c, r) \/ Lose(c)
    PROVE  Detail'
BY CallerDetail DEF Replayed, Lose, threadVars

(* A request arrives, whoever sends it.                                    *)
LEMMA ReceiveDetail ==
    ASSUME SubmissionsAssumption, Inv, Detail, NEW c \in Callers, NEW r \in Requests,
           Receive(c, r) \/ Lose(c)
    PROVE  Detail'
BY ReplayedDetail, AcceptDetail, OpenFileDetail DEF Receive

(* A thread goes on, or fails.                                             *)
LEMMA ServeDetail ==
    ASSUME SubmissionsAssumption, Inv, Detail, NEW th \in Threads, Serve(th) \/ Break(th)
    PROVE  Detail'
<1>1. CASE \/ SeeReport(th) \/ Collide(th)
           \/ CreateStockout(th) \/ CreateDailyReport(th)
           \/ CreateLocationPoint(th) \/ CreateTaskException(th)
    BY <1>1, PlainDetail
       DEF CreateStockout, CreateDailyReport, CreateLocationPoint, CreateTaskException
<1>2. CASE SeeAlerts(th) \/ IngestTelemetry(th) \/ UpdateAlert(th)
    BY <1>2, SeeAlertsDetail, IngestDetail, UpdateAlertDetail
<1>3. CASE WriteFile(th) \/ RejectFile(th) \/ Attach(th) \/ BreakFile(th)
    BY <1>3, WriteFileDetail, UploadDetail
<1>4. CASE Fail(th)
    BY <1>4, FaultDetail
<1>5. CASE Timeout(th)
    BY <1>5, CallerDetail DEF Timeout
<1> QED BY <1>1, <1>2, <1>3, <1>4, <1>5 DEF Serve, Break

(* What the clients do by themselves is not seen by the server.            *)
LEMMA ClientDetail ==
    ASSUME SubmissionsAssumption, Detail,
           \/ Kill \/ UNCHANGED vars
           \/ \E r \in Requests : Enqueue(r) \/ AnsweredDirectly(r)
           \/ \E f \in Flushes : StartFlush(f) \/ NotDue(f) \/ Answered(f) \/ EndFlush(f)
    PROVE  Detail'
<1>1. UNCHANGED <<rows, disk, pc, req, seen, met>> /\ (UNCHANGED faults \/ Fault)
    BY DEF Kill, Enqueue, AnsweredDirectly, StartFlush, NotDue, Answered, EndFlush,
           vars, serverVars, threadVars
<1> QED BY <1>1, CallerDetail

(* There are no alerts and no files at first.                              *)
LEMMA InitDetail ==
    ASSUME SubmissionsAssumption, Init
    PROVE  Detail
<1> USE DEF Init, ServerInit
<1>1. WorkShape
    BY DEF WorkShape, SubmissionsAssumption
<1>2. AlertsInv
  <2>1. alerts = <<>> /\ DOMAIN alerts = {} /\ announced = {}
      OBVIOUS
  <2>2. AnnouncedInv /\ OpenTogether
      BY <2>1 DEF AnnouncedInv, OpenTogether
  <2>3. BatchInv
      BY DEF BatchInv, Ingesting
  <2> QED BY <2>2, <2>3 DEF AlertsInv
<1>3. FilesInv
  <2>1. FilesShape
      BY FS_EmptySet DEF FilesShape
  <2>2. Left = {} /\ Cardinality(Left) = 0
      BY FS_EmptySet DEF Left
  <2>3. Cardinality(Left) <= faults * Cardinality(Threads)
      BY <2>2, FS_CardinalityType DEF SubmissionsAssumption
  <2> QED BY <2>1, <2>3 DEF FilesInv, Uploading
<1> QED BY <1>1, <1>2, <1>3 DEF Detail

(* Every step keeps what is known of the alerts and the files.             *)
LEMMA StepDetail ==
    ASSUME SubmissionsAssumption, QueueAssumption, Inv, Detail, [Next]_vars
    PROVE  Detail'
<1>1. ASSUME NEW r \in Requests, Enqueue(r) \/ SendDirectly(r) \/ AnsweredDirectly(r)
      PROVE  Detail'
  <2>1. CASE SendDirectly(r)
    <3>1. r \in Callers
        BY <2>1 DEF SendDirectly
    <3> QED BY <2>1, <3>1, ReceiveDetail DEF SendDirectly
  <2> QED BY <1>1, <2>1, ClientDetail
<1>2. ASSUME NEW f \in Flushes, Phone(f)
      PROVE  Detail'
  <2>1. CASE Send(f)
    <3>1. f \in Callers /\ ahead[f] \in Seq(Letters) /\ ahead[f] # <<>>
        BY <2>1 DEF Send, QueueAssumption, Inv, PhoneInv, PhoneShape
    <3>2. Head(ahead[f]) \in Requests
        BY <3>1 DEF Letters
    <3> QED BY <2>1, <3>1, <3>2, ReceiveDetail DEF Send
  <2> QED BY <1>2, <2>1, ClientDetail DEF Phone
<1>3. CASE Kill \/ UNCHANGED vars
    BY <1>3, ClientDetail
<1>4. CASE Crash
    BY <1>4, FaultDetail
<1>5. ASSUME NEW th \in Threads, Serve(th) \/ Break(th)
      PROVE  Detail'
    BY <1>5, ServeDetail
<1>6. ASSUME NEW th \in Threads, NEW i \in DOMAIN alerts,
             NEW a \in {"ACKNOWLEDGE", "RESOLVE"}, LoadAlert(th, i, a)
      PROVE  Detail'
    BY <1>6, LoadAlertDetail
<1> QED BY <1>1, <1>2, <1>3, <1>4, <1>5, <1>6 DEF Next

(* The two invariants together hold in every reachable state.              *)
LEMMA DetailInvariance == Spec => [](Inv /\ Detail)
<1> USE SubmissionsAssumption, QueueAssumption
<1>1. Init => Inv /\ Detail
    BY InitInv, InitDetail
<1>2. Inv /\ Detail /\ [Next]_vars => (Inv /\ Detail)'
    BY StepInv, StepDetail
<1> QED BY <1>1, <1>2, PTL DEF Spec

(* Every variable of the clients and the server keeps its type, for any    *)
(* number of callers and threads: a thread works on a request or on an     *)
(* alert, and the alerts and files are those of requests.                  *)
THEOREM TypesKept == Spec => []TypeOK
<1>1. ASSUME Inv, Detail
      PROVE  TypeOK
  <2>1. ServerTypeOK
      BY <1>1 DEF Inv, ServerInv, ServerShape, Detail, WorkShape, AlertsInv, AnnouncedInv, AlertRow,
                  FilesInv, FilesShape, ServerTypeOK
  <2> QED BY <1>1, <2>1 DEF Inv, PhoneInv, PhoneShape, TypeOK
<1> QED BY <1>1, DetailInvariance, PTL

(* ingest_telemetry and update_alert: every anomaly that was recorded has  *)
(* an alert, and every alert stands as announced, with no version left     *)
(* out, whatever batches and administrators overlap.                       *)
THEOREM AnomaliesAreAlerted == Spec => []AnomaliesAlerted
<1>1. ASSUME Inv, Detail
      PROVE  AnomaliesAlerted
    BY <1>1 DEF Detail, AlertsInv, BatchInv, AnnouncedInv, Told, AlertOf, AnomaliesAlerted
<1> QED BY <1>1, DetailInvariance, PTL

(* ingest_telemetry: two alerts of a type are OPEN together only if their  *)
(* batches looked for one at the same time; no administrator opens one.    *)
THEOREM TwoOpenMet == Spec => []OpenTogether
<1>1. ASSUME Detail
      PROVE  OpenTogether
    BY <1>1 DEF Detail, AlertsInv
<1> QED BY <1>1, DetailInvariance, PTL

(* upload_attachment: a row has its whole file, and the files without a    *)
(* row are those under way and as many as faults can have left.            *)
THEOREM AttachmentsAreWhole == Spec => []AttachmentsWhole
<1>1. ASSUME Detail
      PROVE  AttachmentsWhole
    BY <1>1 DEF Detail, FilesInv, FilesShape, Left, AttachmentsWhole
<1> QED BY <1>1, DetailInvariance, PTL

=============================================================================
