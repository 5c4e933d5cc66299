------------------------- MODULE PlanDispatchProofs -------------------------
(***************************************************************************)
(* Safety of PlanDispatch for any orders, runs, administrators, drivers    *)
(* and bounds.                                                             *)
(***************************************************************************)
EXTENDS PlanDispatch, TLAPS

(* Writing a column of one plan keeps the type of the column.              *)
LEMMA WrittenType ==
    ASSUME NEW S, NEW f \in [Plans -> S], NEW p \in Plans, NEW old, NEW new \in S
    PROVE  /\ Written(f, p, old, new) \in [Plans -> S]
           /\ \A q \in Plans : q # p => Written(f, p, old, new)[q] = f[q]
           /\ Written(f, p, old, new)[p] = IF old = new THEN f[p] ELSE new
  BY DEF Written

(* A row handled by the worker is still a row.                             *)
LEMMA HandledType ==
    ASSUME NEW row \in Row, NEW topic \in Topic
    PROVE  Handled(topic, row) \in Row
  <1>1. \A st \in PlanStatus, sh \in BOOLEAN, t \in TaskStatus :
            Updated(st, sh, t) \in Row
    BY DEF Row, Updated
  <1>2. row.plan \in PlanStatus /\ row.token \in BOOLEAN /\ row.task \in TaskStatus
    BY DEF Row
  <1>3. CreateTask(row) \in Row
    BY <1>1, <1>2 DEF CreateTask, PlanStatus, TaskStatus
  <1>4. PublishTask(row) \in Row
    BY <1>1, <1>2 DEF PublishTask, PlanStatus, TaskStatus
  <1>5. CancelTask(row) \in Row
    BY <1>1, <1>2 DEF CancelTask, PlanStatus, TaskStatus
  <1>6. Updated(row.plan, FALSE, row.task) \in Row
    BY <1>1, <1>2
  <1> QED
    BY <1>3, <1>4, <1>5, <1>6 DEF Handled, Topic

(* A row taken from well-typed columns is a row.                           *)
LEMMA RowOfType ==
    ASSUME TypeOK, NEW p \in Plans
    PROVE  RowOf(p) \in Row
  BY DEF TypeOK, RowOf, Row

(* So is the empty one.                                                    *)
LEMMA NoRowType == NoRow \in Row
  BY DEF NoRow, Row, PlanStatus, TaskStatus

(* No work is work.                                                        *)
LEMMA NoWorkType == NoWork \in Work
  BY DEF NoWork, Work, TaskStatus

(* What a driver works on is a plan.                                       *)
LEMMA WorkType ==
    ASSUME TypeOK, NEW d \in Drivers
    PROVE  /\ work[d] \in Work /\ work[d].task \in TaskStatus
           /\ work[d].plan \in Plans \cup {NoPlan}
           /\ NoPlan \notin Plans /\ (work[d].plan = NoPlan \/ work[d].plan \in Plans)
  <1>1. work[d] \in Work
    BY DEF TypeOK
  <1>2. NoPlan \notin Plans
    BY DispatchAssumption DEF NoPlan, Plans
  <1> QED
    BY <1>1, <1>2 DEF Work

(* Appending an event to the outbox keeps its type and its indices.        *)
LEMMA EnqueueType ==
    ASSUME TypeOK, NEW p \in Plans, NEW topic \in Topic, Enqueue(topic, p)
    PROVE  /\ outbox' \in Seq(Event)
           /\ DOMAIN outbox \subseteq DOMAIN outbox'
           /\ \A i \in DOMAIN outbox : outbox'[i] = outbox[i]
  <1>1. Enqueued(topic, p) \in Event
    BY DEF Enqueued, Event
  <1>2. outbox \in Seq(Event) /\ outbox' = Append(outbox, Enqueued(topic, p))
    BY DEF TypeOK, Enqueue
  <1> QED
    BY <1>1, <1>2

(* Ending the worker's transaction keeps the indices of the outbox.        *)
LEMMA DoneType ==
    ASSUME TypeOK, current # 0, NEW st \in {"PENDING", "PUBLISHED", "DEAD"},
           NEW n \in Nat, Done(st, n)
    PROVE  /\ outbox' \in Seq(Event)
           /\ DOMAIN outbox' = DOMAIN outbox
           /\ \A i \in DOMAIN outbox : outbox'[i].plan = outbox[i].plan
           /\ current' = 0 /\ loaded' \in Row /\ batch' = batch
  <1>1. current \in DOMAIN outbox /\ outbox \in Seq(Event)
    BY DEF TypeOK
  <1>2. outbox[current] \in Event
    BY <1>1
  <1> DEFINE e == [topic |-> outbox[current].topic, plan |-> outbox[current].plan,
                   status |-> st, attempts |-> n]
  <1>3. e \in Event /\ e.plan = outbox[current].plan
    BY <1>2 DEF Event
  <1>4. outbox' = [outbox EXCEPT ![current] = e]
    BY DEF Done
  <1>5. outbox' \in Seq(Event) /\ DOMAIN outbox' = DOMAIN outbox
    BY <1>1, <1>3, <1>4
  <1>6. \A i \in DOMAIN outbox : outbox'[i].plan = outbox[i].plan
    BY <1>1, <1>3, <1>4
  <1> QED
    BY <1>5, <1>6, NoRowType DEF Done

----------------------------------------------------------------------------
(* Type correctness, one lemma for each group of actions.                  *)

(* Opening a request changes only the administrator's variables.           *)
LEMMA OpenType ==
    ASSUME TypeOK, NEW a \in Admins, NEW kind \in {"confirm", "publish", "cancel"},
           NEW about,
           kind = "confirm" => about \in Runs, kind # "confirm" => about \in Plans,
           Open(a, kind, about)
    PROVE  TypeOK'
  BY DEF TypeOK, Open, Made, rows, workerVars, history

(* Closing it resets them.                                                 *)
LEMMA CloseType ==
    ASSUME TypeOK, NEW a \in Admins, Close(a)
    PROVE  /\ pc' \in [Admins -> {"idle", "confirm", "publish", "cancel"}]
           /\ subject' \in [Admins -> Runs \cup Plans \cup {NoRun}]
           /\ \A b \in Admins : /\ pc'[b] = "confirm" => subject'[b] \in Runs
                                /\ pc'[b] \in {"publish", "cancel"} => subject'[b] \in Plans
           /\ found' \in [Admins -> SUBSET Plans]
  BY DEF TypeOK, Close

(* The indices the worker holds stay indices of a longer outbox.           *)
LEMMA WorkerStays ==
    ASSUME TypeOK, UNCHANGED workerVars, DOMAIN outbox \subseteq DOMAIN outbox'
    PROVE  /\ batch' \subseteq DOMAIN outbox'
           /\ current' \in {0} \cup DOMAIN outbox'
           /\ loaded' \in Row /\ faults' \in Nat
  BY DEF TypeOK, workerVars

(* A confirmation keeps the types.                                         *)
LEMMA CommitConfirmType ==
    ASSUME TypeOK, NEW a \in Admins, NEW p \in Plans, CommitConfirm(a, p)
    PROVE  TypeOK'
  <1>1. subject[a] \in Runs
    BY DEF TypeOK, CommitConfirm
  <1>2. /\ outbox' \in Seq(Event)
        /\ DOMAIN outbox \subseteq DOMAIN outbox'
    BY EnqueueType DEF CommitConfirm, Topic
  <1>3. /\ batch' \subseteq DOMAIN outbox'
        /\ current' \in {0} \cup DOMAIN outbox'
        /\ loaded' \in Row /\ faults' \in Nat
    BY <1>2, WorkerStays DEF CommitConfirm
  <1>4. Close(a)
    BY DEF CommitConfirm
  <1>5. /\ order' \in [Orders -> {"DRAFT", "CONFIRMED", "CANCELLED", "COMPLETED"}]
        /\ confirmed' \subseteq Runs
        /\ planRun' \in [Plans -> Runs \cup {NoRun}]
        /\ plan' \in [Plans -> PlanStatus]
        /\ token' \in [Plans -> BOOLEAN]
        /\ task' \in [Plans -> TaskStatus]
        /\ work' \in [Drivers -> Work]
        /\ older' \in [Plans -> SUBSET Plans]
        /\ overtaken' \subseteq Plans
    BY <1>1 DEF TypeOK, CommitConfirm, PlanStatus
  <1> QED
    BY <1>2, <1>3, <1>4, <1>5, CloseType DEF TypeOK

(* A request for publication or cancellation does.                         *)
LEMMA CommitRequestType ==
    ASSUME TypeOK, NEW a \in Admins, NEW kind \in {"publish", "cancel"},
           NEW requested \in PlanStatus, NEW topic \in Topic,
           CommitRequest(a, kind, requested, topic)
    PROVE  TypeOK'
  <1>1. subject[a] \in Plans
    BY DEF TypeOK, CommitRequest
  <1>2. /\ outbox' \in Seq(Event)
        /\ DOMAIN outbox \subseteq DOMAIN outbox'
    BY <1>1, EnqueueType DEF CommitRequest
  <1>3. /\ batch' \subseteq DOMAIN outbox'
        /\ current' \in {0} \cup DOMAIN outbox'
        /\ loaded' \in Row /\ faults' \in Nat
    BY <1>2, WorkerStays DEF CommitRequest
  <1>4. Close(a)
    BY DEF CommitRequest
  <1>5. plan' \in [Plans -> PlanStatus]
    BY <1>1 DEF TypeOK, CommitRequest
  <1>6. UNCHANGED <<order, confirmed, planRun, token, task, work, older, overtaken>>
    BY DEF CommitRequest, history
  <1> QED
    BY <1>2, <1>3, <1>4, <1>5, <1>6, CloseType DEF TypeOK

(* A step of a driver or a store does.                                     *)
LEMMA MoveType ==
    ASSUME TypeOK, NEW d \in Drivers, NEW from, NEW to \in TaskStatus, Move(d, from, to),
           outbox' \in Seq(Event), DOMAIN outbox \subseteq DOMAIN outbox'
    PROVE  TypeOK'
  <1>0. work[d].plan \in Plans
    BY WorkType DEF Move
  <1>1. /\ batch' \subseteq DOMAIN outbox'
        /\ current' \in {0} \cup DOMAIN outbox'
        /\ loaded' \in Row /\ faults' \in Nat
    BY WorkerStays DEF Move
  <1>2. /\ task' \in [Plans -> TaskStatus]
        /\ work' \in [Drivers -> Work]
    BY <1>0, NoWorkType DEF TypeOK, Move
  <1>3. UNCHANGED <<order, confirmed, planRun, plan, token, pc, subject, found, older, overtaken>>
    BY DEF Move, adminVars, history
  <1> QED
    BY <1>1, <1>2, <1>3 DEF TypeOK

(* The worker's handling of an event does.                                 *)
LEMMA HandleType ==
    ASSUME TypeOK, Handle
    PROVE  TypeOK'
  <1> DEFINE e == outbox[current]
             new == Handled(e.topic, loaded)
  <1>1. current \in DOMAIN outbox /\ e \in Event
    BY DEF TypeOK, Handle
  <1>2. e.plan \in Plans /\ e.topic \in Topic
    BY <1>1 DEF Event
  <1>3. loaded \in Row /\ new \in Row
    BY <1>2, HandledType DEF TypeOK
  <1>4. new.plan \in PlanStatus /\ new.token \in BOOLEAN /\ new.task \in TaskStatus
    BY <1>3 DEF Row
  <1>5. plan' \in [Plans -> PlanStatus]
    BY <1>2, <1>4, WrittenType DEF TypeOK, Handle
  <1>6. overtaken' \subseteq Plans /\ older' \in [Plans -> SUBSET Plans]
    BY <1>2 DEF TypeOK, Handle
  <1>7. token' \in [Plans -> BOOLEAN]
    BY <1>2, <1>4, WrittenType DEF TypeOK, Handle
  <1>8. task' \in [Plans -> TaskStatus]
    BY <1>2, <1>4, WrittenType DEF TypeOK, Handle
  <1>9. order' \in [Orders -> {"DRAFT", "CONFIRMED", "CANCELLED", "COMPLETED"}]
    BY DEF TypeOK, Handle, NewOrders
  <1>10. /\ outbox' \in Seq(Event) /\ DOMAIN outbox' = DOMAIN outbox
         /\ current' = 0 /\ loaded' \in Row /\ batch' = batch
    BY DoneType DEF Handle
  <1>11. UNCHANGED <<confirmed, planRun, pc, subject, found, work, faults>>
    BY DEF Handle, adminVars
  <1> QED
    BY <1>5, <1>6, <1>7, <1>8, <1>9, <1>10, <1>11 DEF TypeOK

(* Counting an attempt touches the event alone.                            *)
LEMMA CountAttemptType ==
    ASSUME TypeOK, CountAttempt, faults' \in Nat
    PROVE  TypeOK'
  <1>0. current # 0 /\ current \in DOMAIN outbox
    BY DEF TypeOK, CountAttempt
  <1>1. outbox[current] \in Event
    BY <1>0 DEF TypeOK
  <1> DEFINE n == outbox[current].attempts + 1
  <1>2. n \in Nat /\ (Done("DEAD", 0) \/ Done("PENDING", n))
    BY <1>1 DEF CountAttempt, Event
  <1>3. /\ outbox' \in Seq(Event) /\ DOMAIN outbox' = DOMAIN outbox
        /\ current' = 0 /\ loaded' \in Row /\ batch' = batch
    BY <1>0, <1>2, DoneType
  <1>4. UNCHANGED <<rows, pc, subject, found, work, older, overtaken>>
    BY DEF CountAttempt, adminVars, history
  <1> QED
    BY <1>3, <1>4 DEF TypeOK, rows

(* Every step keeps the types.                                             *)
LEMMA TypeStep ==
    ASSUME TypeOK, [Next]_vars
    PROVE  TypeOK'
  <1>1. CASE UNCHANGED vars
    BY <1>1 DEF TypeOK, vars, rows, adminVars, workerVars, history
  <1>2. ASSUME NEW a \in Admins, NEW r \in Runs, OpenConfirm(a, r)
        PROVE  TypeOK'
    BY <1>2, OpenType DEF OpenConfirm
  <1>3. ASSUME NEW a \in Admins, NEW p \in Plans, OpenPublish(a, p)
        PROVE  TypeOK'
    BY <1>3, OpenType DEF OpenPublish
  <1>4. ASSUME NEW a \in Admins, NEW p \in Plans, OpenCancel(a, p)
        PROVE  TypeOK'
    BY <1>4, OpenType DEF OpenCancel
  <1>5. ASSUME NEW a \in Admins, NEW p \in Plans, CommitConfirm(a, p)
        PROVE  TypeOK'
    BY <1>5, CommitConfirmType
  <1>6. ASSUME NEW a \in Admins, CommitPublish(a)
        PROVE  TypeOK'
    BY <1>6, CommitRequestType DEF CommitPublish, PlanStatus, Topic
  <1>7. ASSUME NEW a \in Admins, CommitCancel(a)
        PROVE  TypeOK'
    BY <1>7, CommitRequestType DEF CommitCancel, PlanStatus, Topic
  <1>8. ASSUME NEW a \in Admins, Rollback(a)
        PROVE  TypeOK'
    BY <1>8, CloseType DEF Rollback, TypeOK, rows, workerVars, history
  <1>9. ASSUME NEW d \in Drivers, Accept(d) \/ Sign(d)
        PROVE  TypeOK'
    <2>1. work[d].plan \in Plans
      BY <1>9, WorkType DEF Accept, Sign, Move
    <2> QED
      BY <1>9, <2>1, MoveType, EnqueueType DEF Accept, Sign, TaskStatus, Topic
  <1>10. ASSUME NEW d \in Drivers, Pickup(d) \/ Carry(d)
         PROVE  TypeOK'
    BY <1>10, MoveType DEF Pickup, Carry, TaskStatus, TypeOK
  <1>11. ASSUME NEW d \in Drivers, NEW p \in Plans, Load(d, p)
         PROVE  TypeOK'
    <2>1. work' \in [Drivers -> Work]
      BY <1>11 DEF Load, TypeOK, Work
    <2> QED
      BY <1>11, <2>1 DEF Load, TypeOK, rows, adminVars, workerVars, history
  <1>19. ASSUME NEW d \in Drivers, GiveUp(d)
         PROVE  TypeOK'
    <2>1. work' \in [Drivers -> Work]
      BY <1>19, NoWorkType DEF GiveUp, TypeOK
    <2> QED
      BY <1>19, <2>1 DEF GiveUp, TypeOK, rows, adminVars, workerVars, history
  <1>12. CASE Poll
    BY <1>12 DEF Poll, Pending, TypeOK, rows, adminVars, history
  <1>13. CASE Take
    <2>1. PICK i \in batch : current' = i /\ loaded' = RowOf(outbox[i].plan) /\ batch' = batch \ {i}
      BY <1>13 DEF Take
    <2>2. i \in DOMAIN outbox /\ outbox[i] \in Event
      BY <2>1 DEF TypeOK
    <2>4. outbox[i].plan \in Plans
      BY <2>2 DEF Event
    <2>3. loaded' \in Row
      BY <2>1, <2>4, RowOfType
    <2> QED
      BY <1>13, <2>1, <2>2, <2>3 DEF Take, TypeOK, rows, adminVars, history
  <1>14. CASE Handle
    BY <1>14, HandleType
  <1>15. CASE Reject
    BY <1>15, CountAttemptType DEF Reject, TypeOK
  <1>16. CASE Fail
    BY <1>16, CountAttemptType DEF Fail, TypeOK
  <1>17. CASE Crash
    BY <1>17, NoRowType DEF Crash, TypeOK, rows, adminVars, history
  <1>18. ASSUME NEW p \in Plans, ExpireToken(p)
         PROVE  TypeOK'
    BY <1>18 DEF ExpireToken, TypeOK, adminVars, workerVars, history
  <1> QED
    BY <1>1, <1>2, <1>3, <1>4, <1>5, <1>6, <1>7, <1>8, <1>9, <1>10, <1>11, <1>12,
       <1>13, <1>14, <1>15, <1>16, <1>17, <1>18, <1>19 DEF Next, Worker

(* The initial state is well typed.                                        *)
LEMMA TypeInit == Init => TypeOK
  BY NoRowType, NoWorkType DEF Init, TypeOK, PlanStatus, TaskStatus

(* The variables always have their types: every status B01, B02 and the    *)
(* worker write is one of the vocabulary, whatever interleaves.            *)
THEOREM TypeCorrect == Spec => []TypeOK
  <1>1. TypeOK /\ [Next]_vars => TypeOK'
    BY TypeStep
  <1> QED
    BY TypeInit, <1>1, PTL DEF Spec

----------------------------------------------------------------------------
(* Plans and tasks agree.                                                  *)

(* A driver works on a task that was published: its status never goes back *)
(* to CONFIRMED, whoever writes over it.                                   *)
WorkedOn ==
    \A d \in Drivers :
        work[d].plan # NoPlan => task[work[d].plan] \notin {"NONE", "CONFIRMED"}

(* Nobody works on the task of a plan that was cancelled undisturbed.      *)
LeftAlone ==
    \A p \in Plans :
        plan[p] = "CANCELLED" /\ p \notin overtaken => \A d \in Drivers : work[d].plan # p

(* The invariant: what the worker has loaded is still true of the columns  *)
(* it is about to decide on, which makes its step preserve the agreement.  *)
Inv == TypeOK /\ TaskFollowsPlan /\ LoadedStillHolds /\ WorkedOn /\ LeftAlone

Agreement == TaskFollowsPlan /\ LoadedStillHolds /\ WorkedOn /\ LeftAlone

(* The event in hand is about a plan, and stays so.                        *)
LEMMA CurrentPlan ==
    ASSUME TypeOK, current # 0,
           \A i \in DOMAIN outbox : outbox'[i].plan = outbox[i].plan
    PROVE  outbox'[current].plan = outbox[current].plan /\ outbox[current].plan \in Plans
  <1>1. current \in DOMAIN outbox /\ outbox[current] \in Event
    BY DEF TypeOK
  <1> QED
    BY <1>1 DEF Event

(* A step that leaves the tasks, the drivers and the worker alone, and     *)
(* gives a plan at most a status that is neither PUBLISHED nor CANCELLED.  *)
LEMMA HandlerStep ==
    ASSUME Inv, UNCHANGED <<task, token, work, current, loaded, overtaken>>,
           \A i \in DOMAIN outbox : outbox'[i].plan = outbox[i].plan,
           \A p \in Plans : plan'[p] = plan[p] \/ plan'[p] \notin {"PUBLISHED", "CANCELLED"}
    PROVE  Agreement'
  <1>1. TaskFollowsPlan'
    BY DEF Inv, TaskFollowsPlan
  <1>2. LoadedStillHolds'
    BY CurrentPlan DEF Inv, LoadedStillHolds
  <1>3. WorkedOn' /\ LeftAlone'
    BY DEF Inv, WorkedOn, LeftAlone
  <1> QED
    BY <1>1, <1>2, <1>3 DEF Agreement

(* A driver loads a task that is neither new nor cancelled.                *)
LEMMA LoadStep ==
    ASSUME Inv, NEW d \in Drivers, NEW p \in Plans, Load(d, p)
    PROVE  Agreement'
  <1>1. UNCHANGED <<plan, task, token, outbox, current, loaded, overtaken>>
    BY DEF Load, rows, workerVars, history
  <1>2. TaskFollowsPlan' /\ LoadedStillHolds'
    BY <1>1 DEF Inv, TaskFollowsPlan, LoadedStillHolds
  <1>3. /\ \A c \in Drivers : work'[c] = work[c] \/ work'[c].plan = p
        /\ task[p] \in {"PUBLISHED", "DRIVER_ACCEPTED", "PICKED_UP"}
    BY DEF Load, Inv, TypeOK
  <1>4. WorkedOn'
    BY <1>1, <1>3 DEF Inv, WorkedOn
  <1>5. plan[p] = "CANCELLED" => p \in overtaken
    BY <1>3 DEF Inv, TaskFollowsPlan
  <1>6. LeftAlone'
    BY <1>1, <1>3, <1>5 DEF Inv, LeftAlone
  <1> QED
    BY <1>2, <1>4, <1>6 DEF Agreement

(* A driver's or a store's commit gives a task a status that is neither    *)
(* new nor cancelled, on a plan that is cancelled only if overtaken.       *)
LEMMA MoveStep ==
    ASSUME Inv, NEW d \in Drivers, NEW from,
           NEW to \in {"DRIVER_ACCEPTED", "PICKED_UP", "COMPLETED"}, Move(d, from, to),
           \A i \in DOMAIN outbox : outbox'[i].plan = outbox[i].plan
    PROVE  Agreement'
  <1>1. PICK p \in Plans : p = work[d].plan
    BY WorkType DEF Move, Inv
  <1>2. /\ UNCHANGED <<plan, token, current, loaded, overtaken>>
        /\ task'[p] = to /\ \A q \in Plans \ {p} : task'[q] = task[q]
        /\ \A c \in Drivers : work'[c] = work[c] \/ work'[c].plan = NoPlan
    BY <1>1 DEF Move, Inv, TypeOK, NoWork, workerVars, history
  <1>3. /\ task[p] \notin {"NONE", "CONFIRMED"}
        /\ plan[p] = "CANCELLED" => p \in overtaken
    BY <1>1, WorkType DEF Inv, WorkedOn, LeftAlone
  <1>4. TaskFollowsPlan'
    BY <1>2, <1>3 DEF Inv, TaskFollowsPlan
  <1>5. LoadedStillHolds'
    BY <1>2, <1>3, CurrentPlan DEF Inv, LoadedStillHolds
  <1>6. WorkedOn'
    <2> SUFFICES ASSUME NEW c \in Drivers, work'[c].plan # NoPlan
                 PROVE  task'[work'[c].plan] \notin {"NONE", "CONFIRMED"}
      BY DEF WorkedOn
    <2>1. work'[c] = work[c] /\ work[c].plan \in Plans
      BY <1>2, WorkType DEF Inv
    <2> QED
      BY <1>2, <2>1 DEF Inv, WorkedOn
  <1>7. LeftAlone'
    BY <1>2, WorkType DEF Inv, LeftAlone
  <1> QED
    BY <1>4, <1>5, <1>6, <1>7 DEF Agreement

(* One that gives up leaves everything as it was.                          *)
LEMMA GiveUpStep ==
    ASSUME Inv, NEW d \in Drivers, GiveUp(d)
    PROVE  Agreement'
  <1>1. UNCHANGED <<plan, task, token, outbox, current, loaded, overtaken>>
    BY DEF GiveUp, rows, workerVars, history
  <1>2. TaskFollowsPlan' /\ LoadedStillHolds'
    BY <1>1 DEF Inv, TaskFollowsPlan, LoadedStillHolds
  <1>3. \A c \in Drivers : work'[c] = work[c] \/ work'[c].plan = NoPlan
    BY DEF GiveUp, Inv, TypeOK, NoWork
  <1>4. WorkedOn' /\ LeftAlone'
    BY <1>1, <1>3, WorkType DEF Inv, WorkedOn, LeftAlone
  <1> QED
    BY <1>2, <1>4 DEF Agreement

(* What the worker makes of a task and its plan, by the topic of the event.*)
LEMMA HandleEffect ==
    ASSUME Inv, Handle, NEW p, p = outbox[current].plan
    PROVE  /\ p \in Plans
           /\ \A q \in Plans \ {p} : plan'[q] = plan[q] /\ task'[q] = task[q] /\ token'[q] = token[q]
           /\ \/ task'[p] = task[p]
              \/ task[p] = "NONE" /\ task'[p] = "CONFIRMED"
              \/ task[p] = "CONFIRMED" /\ task'[p] = "PUBLISHED"
              \/ /\ task'[p] = "CANCELLED" /\ loaded.task \in Cancellable
                 /\ (\E d \in Drivers : work[d].plan = p) => p \in overtaken'
           /\ plan'[p] = "PUBLISHED" =>
                task'[p] \in {"PUBLISHED", "DRIVER_ACCEPTED", "PICKED_UP", "COMPLETED"}
           /\ plan'[p] = "CANCELLED" =>
                /\ ~token'[p]
                /\ \/ plan[p] = "CANCELLED" /\ task'[p] = task[p]
                   \/ task'[p] = "NONE" /\ task[p] = "NONE"
                   \/ task'[p] = "CANCELLED"
                        /\ ((\E d \in Drivers : work[d].plan = p) => p \in overtaken')
  <1> DEFINE topic == outbox[current].topic
             new == Handled(topic, loaded)
             late == \E d \in Drivers : work[d].plan = p
  <1>1. current # 0 /\ current \in DOMAIN outbox /\ outbox[current] \in Event
    BY DEF Handle, Inv, TypeOK
  <1>2. p \in Plans /\ topic \in Topic
    BY <1>1 DEF Event
  <1>3. loaded \in Row /\ new \in Row
    BY <1>2, HandledType DEF Inv, TypeOK
  <1>4. /\ new.plan \in PlanStatus /\ new.task \in TaskStatus /\ new.token \in BOOLEAN
        /\ loaded.plan \in PlanStatus /\ loaded.task \in TaskStatus /\ loaded.token \in BOOLEAN
    BY <1>3 DEF Row
  <1>5. /\ plan' = Written(plan, p, loaded.plan, new.plan)
        /\ task' = Written(task, p, loaded.task, new.task)
        /\ token' = Written(token, p, loaded.token, new.token)
        /\ ~Raises(topic, loaded)
        /\ new.task = "CANCELLED" /\ late => p \in overtaken'
    BY DEF Handle
  <1>6. /\ plan'[p] = IF loaded.plan = new.plan THEN plan[p] ELSE new.plan
        /\ task'[p] = IF loaded.task = new.task THEN task[p] ELSE new.task
        /\ token'[p] = IF loaded.token = new.token THEN token[p] ELSE new.token
        /\ \A q \in Plans \ {p} : plan'[q] = plan[q] /\ task'[q] = task[q] /\ token'[q] = token[q]
    <2>1. /\ plan \in [Plans -> PlanStatus] /\ task \in [Plans -> TaskStatus]
          /\ token \in [Plans -> BOOLEAN]
      BY DEF Inv, TypeOK
    <2>2. /\ plan'[p] = IF loaded.plan = new.plan THEN plan[p] ELSE new.plan
          /\ \A q \in Plans \ {p} : plan'[q] = plan[q]
      BY <1>2, <1>5, <2>1 DEF Written
    <2>3. /\ task'[p] = IF loaded.task = new.task THEN task[p] ELSE new.task
          /\ \A q \in Plans \ {p} : task'[q] = task[q]
      BY <1>2, <1>5, <2>1 DEF Written
    <2>4. /\ token'[p] = IF loaded.token = new.token THEN token[p] ELSE new.token
          /\ \A q \in Plans \ {p} : token'[q] = token[q]
      BY <1>2, <1>5, <2>1 DEF Written
    <2> QED
      BY <2>2, <2>3, <2>4
  <1>7. /\ loaded.task \in {"NONE", "CONFIRMED"} => task[p] = loaded.task
        /\ plan[p] \in {"PUBLISHED", "CANCELLED"} => loaded.plan = plan[p]
        /\ token[p] => loaded.token
        /\ plan[p] = "PUBLISHED"
            => task[p] \in {"PUBLISHED", "DRIVER_ACCEPTED", "PICKED_UP", "COMPLETED"}
        /\ plan[p] = "CANCELLED" => ~token[p]
    BY <1>1, <1>2 DEF Inv, LoadedStillHolds, TaskFollowsPlan
  <1>8. CASE topic = "confirmed"
    <2>1. \/ loaded.task # "NONE" /\ new = loaded
          \/ loaded.task = "NONE" /\ new.plan = "READY" /\ new.task = "CONFIRMED"
      BY <1>8 DEF Handled, CreateTask, Updated
    <2> QED
      BY <1>2, <1>6, <1>7, <2>1
  <1>9. CASE topic = "publish_requested"
    <2>1. \/ loaded.plan = "PUBLISHED" /\ new = loaded
          \/ /\ loaded.task = "CONFIRMED"
             /\ new.plan = "PUBLISHED" /\ new.task = "PUBLISHED"
      BY <1>5, <1>9 DEF Handled, PublishTask, Updated, Raises
    <2> QED
      BY <1>2, <1>6, <1>7, <2>1
  <1>10. CASE topic = "cancellation_requested"
    <2>1. \/ new = loaded
          \/ /\ loaded.task = "NONE" /\ new.plan = "CANCELLED" /\ new.task = "NONE"
             /\ new.token = FALSE /\ loaded.plan # "CANCELLED"
          \/ /\ loaded.task \in Cancellable /\ loaded.plan # "CANCELLED"
             /\ new.plan = "CANCELLED" /\ new.task = "CANCELLED" /\ new.token = FALSE
          \/ new.plan = "CANCELLATION_REJECTED" /\ new.task = loaded.task /\ new.token = loaded.token
      BY <1>10 DEF Handled, CancelTask, Updated
    <2>2. CASE new = loaded
      BY <1>2, <1>6, <1>7, <2>2
    <2>3. CASE /\ loaded.task = "NONE" /\ new.plan = "CANCELLED" /\ new.task = "NONE"
               /\ new.token = FALSE /\ loaded.plan # "CANCELLED"
      BY <1>2, <1>4, <1>6, <1>7, <2>3
    <2>4. CASE /\ loaded.task \in Cancellable /\ loaded.plan # "CANCELLED"
               /\ new.plan = "CANCELLED" /\ new.task = "CANCELLED" /\ new.token = FALSE
      <3>1. task'[p] = "CANCELLED" /\ plan'[p] = "CANCELLED" /\ ~token'[p]
        BY <1>4, <1>6, <1>7, <2>4 DEF Cancellable
      <3> QED
        BY <1>2, <1>5, <1>6, <2>4, <3>1
    <2>5. CASE new.plan = "CANCELLATION_REJECTED" /\ new.task = loaded.task /\ new.token = loaded.token
      BY <1>2, <1>6, <1>7, <2>5
    <2> QED
      BY <2>1, <2>2, <2>3, <2>4, <2>5
  <1>11. CASE topic = "driver_accepted"
    <2>1. new.plan = loaded.plan /\ new.task = loaded.task /\ new.token = FALSE
      BY <1>11 DEF Handled, Updated
    <2> QED
      BY <1>2, <1>4, <1>6, <1>7, <2>1
  <1>12. CASE topic = "completed"
    <2>1. new = loaded
      BY <1>12 DEF Handled
    <2> QED
      BY <1>2, <1>6, <1>7, <2>1
  <1> QED
    BY <1>2, <1>8, <1>9, <1>10, <1>11, <1>12 DEF Topic

(* So handling an event preserves the agreement.                           *)
LEMMA HandleStep ==
    ASSUME Inv, Handle
    PROVE  Agreement'
  <1>1. PICK p : p = outbox[current].plan
    OBVIOUS
  <1>2. UNCHANGED work /\ overtaken \subseteq overtaken' /\ current' = 0
    BY DEF Handle, Done
  <1>3. TaskFollowsPlan'
    BY <1>1, <1>2, HandleEffect DEF Inv, TaskFollowsPlan
  <1>4. LoadedStillHolds'
    BY <1>2 DEF LoadedStillHolds
  <1>5. ASSUME NEW d \in Drivers, work[d].plan # NoPlan
        PROVE  task'[work[d].plan] \notin {"NONE", "CONFIRMED"}
    <2>1. work[d].plan \in Plans /\ task[work[d].plan] \notin {"NONE", "CONFIRMED"}
      BY <1>5, WorkType DEF Inv, WorkedOn
    <2> QED
      BY <1>1, <2>1, HandleEffect
  <1>6. WorkedOn'
    BY <1>2, <1>5 DEF WorkedOn
  <1>7. LeftAlone'
    <2> SUFFICES ASSUME NEW q \in Plans, plan'[q] = "CANCELLED", q \notin overtaken',
                        NEW d \in Drivers, work[d].plan = q
                 PROVE  FALSE
      BY <1>2 DEF LeftAlone
    <2>1. q # NoPlan /\ task[q] \notin {"NONE", "CONFIRMED"}
      BY WorkType DEF Inv, WorkedOn
    <2>2. plan[q] # "CANCELLED"
      BY <1>2 DEF Inv, LeftAlone
    <2> QED
      BY <1>1, <2>1, <2>2, HandleEffect
  <1> QED
    BY <1>3, <1>4, <1>6, <1>7 DEF Agreement

(* Every step preserves the agreement and the conclusions.                 *)
LEMMA InvStep ==
    ASSUME Inv, [Next]_vars
    PROVE  Inv'
  <1>0. TypeOK'
    BY TypeStep DEF Inv
  <1>1. ASSUME Agreement'
        PROVE  Inv'
    BY <1>0, <1>1 DEF Inv, Agreement
  <1>2. ASSUME UNCHANGED <<plan, task, token, work, outbox, current, loaded, overtaken>>
        PROVE  Inv'
    <2>1. TaskFollowsPlan' /\ LoadedStillHolds'
      BY <1>2 DEF Inv, TaskFollowsPlan, LoadedStillHolds
    <2>2. WorkedOn' /\ LeftAlone'
      BY <1>2 DEF Inv, WorkedOn, LeftAlone
    <2> QED
      BY <1>1, <2>1, <2>2 DEF Agreement
  <1>3. CASE UNCHANGED vars
    BY <1>2, <1>3 DEF vars, rows, workerVars, history
  <1>4. ASSUME NEW a \in Admins, \/ \E r \in Runs : OpenConfirm(a, r)
                                 \/ \E p \in Plans : OpenPublish(a, p) \/ OpenCancel(a, p)
                                 \/ Rollback(a)
        PROVE  Inv'
    BY <1>2, <1>4 DEF OpenConfirm, OpenPublish, OpenCancel, Open, Rollback, rows,
       workerVars, history
  <1>6. ASSUME NEW p \in Plans, NEW topic \in Topic, Enqueue(topic, p)
        PROVE  \A i \in DOMAIN outbox : outbox'[i].plan = outbox[i].plan
    BY <1>6, EnqueueType DEF Inv
  <1>7. ASSUME NEW a \in Admins, NEW p \in Plans, CommitConfirm(a, p)
        PROVE  Inv'
    <2>1. \A q \in Plans : plan'[q] = plan[q] \/ plan'[q] = "CONFIRMED"
      BY <1>7 DEF CommitConfirm, Inv, TypeOK
    <2>2. \A i \in DOMAIN outbox : outbox'[i].plan = outbox[i].plan
      BY <1>6, <1>7 DEF CommitConfirm, Topic
    <2>3. UNCHANGED <<task, token, work, current, loaded, overtaken>>
      BY <1>7 DEF CommitConfirm, workerVars
    <2> QED
      BY <1>1, <2>1, <2>2, <2>3, HandlerStep
  <1>8. ASSUME NEW a \in Admins, NEW kind, NEW topic \in Topic,
               NEW requested \in {"PUBLISH_REQUESTED", "CANCELLATION_REQUESTED"},
               CommitRequest(a, kind, requested, topic), kind \in {"publish", "cancel"}
        PROVE  Inv'
    <2>0. subject[a] \in Plans
      BY <1>8 DEF CommitRequest, Inv, TypeOK
    <2>1. \A q \in Plans : plan'[q] = plan[q] \/ plan'[q] = requested
      BY <1>8, <2>0 DEF CommitRequest, Inv, TypeOK
    <2>2. \A i \in DOMAIN outbox : outbox'[i].plan = outbox[i].plan
      BY <1>6, <1>8, <2>0 DEF CommitRequest
    <2>3. UNCHANGED <<task, token, work, current, loaded, overtaken>>
      BY <1>8 DEF CommitRequest, workerVars, history
    <2> QED
      BY <1>1, <2>1, <2>2, <2>3, HandlerStep
  <1>9. ASSUME NEW a \in Admins, CommitPublish(a) \/ CommitCancel(a)
        PROVE  Inv'
    BY <1>8, <1>9 DEF CommitPublish, CommitCancel, Topic
  <1>10. ASSUME NEW d \in Drivers, Accept(d) \/ Pickup(d) \/ Carry(d) \/ Sign(d)
         PROVE  Inv'
    <2>1. CASE Accept(d) \/ Sign(d)
      <3>1. work[d].plan \in Plans
        BY <2>1, WorkType DEF Accept, Sign, Move, Inv
      <3> QED
        BY <1>1, <1>6, <2>1, <3>1, MoveStep DEF Accept, Sign, Topic
    <2>2. CASE Pickup(d) \/ Carry(d)
      BY <1>1, <2>2, MoveStep DEF Pickup, Carry
    <2> QED
      BY <1>10, <2>1, <2>2
  <1>11. ASSUME NEW d \in Drivers, NEW p \in Plans, Load(d, p)
         PROVE  Inv'
    BY <1>1, <1>11, LoadStep
  <1>12. ASSUME NEW d \in Drivers, GiveUp(d)
         PROVE  Inv'
    BY <1>1, <1>12, GiveUpStep
  <1>13. CASE Poll
    BY <1>2, <1>13 DEF Poll, rows, history
  <1>14. ASSUME UNCHANGED <<plan, task, token, work, overtaken>>, LoadedStillHolds'
         PROVE  Inv'
    <2>1. TaskFollowsPlan' /\ WorkedOn' /\ LeftAlone'
      BY <1>14 DEF Inv, TaskFollowsPlan, WorkedOn, LeftAlone
    <2> QED
      BY <1>1, <1>14, <2>1 DEF Agreement
  <1>15. CASE Take
    <2>1. PICK i \in batch : current' = i /\ loaded' = RowOf(outbox[i].plan)
      BY <1>15 DEF Take
    <2>2. UNCHANGED <<plan, task, token, work, outbox, overtaken>>
      BY <1>15 DEF Take, rows, history
    <2>3. LoadedStillHolds'
      BY <2>1, <2>2 DEF LoadedStillHolds, RowOf
    <2> QED
      BY <1>14, <2>2, <2>3
  <1>16. CASE Handle
    BY <1>1, <1>16, HandleStep
  <1>17. CASE Reject \/ Fail \/ Crash
    <2>1. UNCHANGED <<plan, task, token, work, overtaken>> /\ current' = 0
      BY <1>17 DEF Reject, Fail, Crash, CountAttempt, Done, rows, history
    <2>2. LoadedStillHolds'
      BY <2>1 DEF LoadedStillHolds
    <2> QED
      BY <1>14, <2>1, <2>2
  <1>18. ASSUME NEW p \in Plans, ExpireToken(p)
         PROVE  Inv'
    <2>1. UNCHANGED <<plan, task, work, outbox, current, loaded, overtaken>>
      BY <1>18 DEF ExpireToken, workerVars, history
    <2>2. \A q \in Plans : token'[q] => token[q]
      BY <1>18 DEF ExpireToken, Inv, TypeOK
    <2>3. TaskFollowsPlan' /\ WorkedOn' /\ LeftAlone'
      BY <2>1, <2>2 DEF Inv, TaskFollowsPlan, WorkedOn, LeftAlone
    <2>4. ASSUME current # 0
          PROVE  outbox[current].plan \in Plans
      BY <2>1, <2>4, CurrentPlan DEF Inv
    <2>5. LoadedStillHolds'
      BY <2>1, <2>2, <2>4 DEF Inv, LoadedStillHolds
    <2> QED
      BY <1>1, <2>3, <2>5 DEF Agreement
  <1> QED
    BY <1>3, <1>4, <1>7, <1>9, <1>10, <1>11, <1>12, <1>13, <1>15, <1>16, <1>17, <1>18
       DEF Next, Worker

(* No driver has work at the start.                                        *)
LEMMA InvInit == Init => Inv
  BY TypeInit DEF Inv, Init, TaskFollowsPlan, LoadedStillHolds, WorkedOn, LeftAlone, NoWork

(* The invariant holds throughout.                                         *)
LEMMA InvHolds == Spec => []Inv
  <1>1. Inv /\ [Next]_vars => Inv'
    BY InvStep
  <1> QED
    BY <1>1, InvInit, PTL DEF Spec

(* The plan B01 shows and the task B02 works on agree, however the         *)
(* requests of the administrators, the worker's transactions, its failures *)
(* and crashes, and the transactions of the drivers interleave, but for a  *)
(* cancellation that overtook a driver's transaction.                      *)
THEOREM PlansAgree == Spec => []TaskFollowsPlan
  <1>1. Inv => TaskFollowsPlan
    BY DEF Inv
  <1> QED
    BY <1>1, InvHolds, PTL

(* What the worker has loaded remains good enough to create and publish.   *)
THEOREM LoadedRowsHold == Spec => []LoadedStillHolds
  <1>1. Inv => LoadedStillHolds
    BY DEF Inv
  <1> QED
    BY <1>1, InvHolds, PTL

(* No retry, second publication or late creation takes a task back: only a *)
(* commit over a status that was not read does.                            *)
THEOREM TasksOnlyAdvance == Spec => TaskNeverGoesBack
  <1> DEFINE Forward(p) ==
                 \/ /\ Rank[task[p]] <= Rank[task'[p]]
                    /\ task'[p] = "CANCELLED" => task[p] \in Cancellable \cup {"CANCELLED"}
                 \/ CommitsOldRead(p)
             AllForward == \A p \in Plans : Forward(p)
  <1>0. ASSUME Inv, NEW p \in Plans, task'[p] = task[p]
        PROVE  Forward(p)
    BY <1>0 DEF Inv, TypeOK, TaskStatus, Rank, Cancellable
  <1>1. ASSUME Inv, UNCHANGED task
        PROVE  AllForward
    BY <1>0, <1>1
  <1>2. ASSUME Inv, NEW d \in Drivers, Accept(d) \/ Pickup(d) \/ Carry(d) \/ Sign(d)
        PROVE  AllForward
    <2>1. PICK p \in Plans : p = work[d].plan
      BY <1>2, WorkType DEF Inv, Accept, Pickup, Carry, Sign, Move
    <2>2. /\ \A q \in Plans \ {p} : task'[q] = task[q]
          /\ work'[d] # work[d]
      BY <1>2, <2>1 DEF Inv, TypeOK, Accept, Pickup, Carry, Sign, Move, NoWork
    <2>3. CASE work[d].task # task[p]
      BY <1>0, <1>2, <2>1, <2>2, <2>3 DEF CommitsOldRead
    <2>4. CASE work[d].task = task[p]
      <3>1. \/ task[p] = "PUBLISHED" /\ task'[p] = "DRIVER_ACCEPTED"
            \/ task[p] = "DRIVER_ACCEPTED" /\ task'[p] = "PICKED_UP"
            \/ task[p] = "PICKED_UP" /\ task'[p] \in {"PICKED_UP", "COMPLETED"}
        BY <1>2, <2>1, <2>4 DEF Inv, TypeOK, Accept, Pickup, Carry, Sign, Move
      <3>2. Forward(p)
        BY <3>1 DEF Rank
      <3> QED
        BY <1>0, <1>2, <2>2, <3>2
    <2> QED
      BY <2>3, <2>4
  <1>3. ASSUME Inv, Handle
        PROVE  AllForward
    <2>0. PICK p : p = outbox[current].plan
      OBVIOUS
    <2>1. /\ p \in Plans
          /\ \A q \in Plans \ {p} : task'[q] = task[q]
          /\ \/ task'[p] = task[p]
             \/ task[p] = "NONE" /\ task'[p] = "CONFIRMED"
             \/ task[p] = "CONFIRMED" /\ task'[p] = "PUBLISHED"
             \/ task'[p] = "CANCELLED" /\ loaded.task \in Cancellable
      BY <1>3, <2>0, HandleEffect
    <2>2. CASE loaded.task # task[p]
      <3>1. current # 0 /\ current' = 0
        BY <1>3 DEF Handle, Done
      <3> QED
        BY <1>0, <1>3, <2>0, <2>1, <2>2, <3>1 DEF CommitsOldRead
    <2>3. CASE loaded.task = task[p]
      <3>1. Forward(p)
        BY <1>0, <1>3, <2>1, <2>3 DEF Rank, Cancellable
      <3> QED
        BY <1>0, <1>3, <2>1, <3>1
    <2> QED
      BY <2>2, <2>3
  <1>4. ASSUME Inv, [Next]_vars
        PROVE  [AllForward]_vars
    <2>1. \/ UNCHANGED task \/ Handle
          \/ \E d \in Drivers : Accept(d) \/ Pickup(d) \/ Carry(d) \/ Sign(d)
      BY <1>4 DEF Next, Worker, vars, rows, OpenConfirm, OpenPublish, OpenCancel, Open,
         CommitConfirm, CommitPublish, CommitCancel, CommitRequest, Rollback,
         Load, GiveUp, Poll, Take, Reject, Fail, CountAttempt, Crash, ExpireToken
    <2> QED
      BY <1>1, <1>2, <1>3, <1>4, <2>1
  <1> QED
    BY <1>4, InvHolds, PTL DEF Spec, TaskNeverGoesBack

----------------------------------------------------------------------------
(* The orders.  An order that a plan was made of never becomes DRAFT       *)
(* again, so that a confirmation that has passed its checks shares none    *)
(* with the plans there were then: a later plan takes an order of an       *)
(* earlier one only when it was checked before that one was made.          *)

(* Only a plan that was made has a status, a task, events and requests.    *)
OnlyMade ==
    /\ \A p \in Plans : plan[p] # "NONE" \/ task[p] # "NONE" => p \in Made
    /\ \A i \in DOMAIN outbox : outbox[i].plan \in Made
    /\ \A a \in Admins : pc[a] \in {"publish", "cancel"} => subject[a] \in Made

PlannedNotDraft ==
    \A p \in Made : \A o \in Candidate[planRun[p]] : order[o] # "DRAFT"

CheckedApart ==
    \A a \in Admins :
        pc[a] = "confirm" =>
            \A p \in found[a] :
                p \in Made /\ Candidate[planRun[p]] \cap Candidate[subject[a]] = {}

OlderMade == \A p \in Plans : older[p] \subseteq Made

OrdersInv ==
    /\ Inv /\ OnlyMade
    /\ PlannedNotDraft /\ CheckedApart /\ OlderMade
    /\ OrderInOnePlan /\ OrdersFollowCancel

(* A step that writes no order, makes no plan and cancels none.            *)
NoneCancelled ==
    \A p \in Plans :
        /\ plan'[p] # plan[p] => p \in Made /\ plan'[p] # "CANCELLED"
        /\ task'[p] # task[p] => p \in Made /\ task'[p] # "CANCELLED"

EventsOfMade ==
    \A i \in DOMAIN outbox' :
        \/ i \in DOMAIN outbox /\ outbox'[i].plan = outbox[i].plan
        \/ outbox'[i].plan \in Made

AdminsChecked ==
    \A a \in Admins :
        \/ pc'[a] = "idle"
        \/ pc'[a] = pc[a] /\ subject'[a] = subject[a] /\ found'[a] = found[a]
        \/ /\ pc'[a] = "confirm" /\ found'[a] = Made
           /\ \A o \in Candidate[subject'[a]] : order[o] = "DRAFT"
        \/ pc'[a] \in {"publish", "cancel"} /\ subject'[a] \in Made

(* A step that moves no order and no run of a plan keeps what is known of  *)
(* the orders.                                                             *)
LEMMA QuietStep ==
    ASSUME OrdersInv, Inv', UNCHANGED <<order, planRun, older>>,
           NoneCancelled, EventsOfMade, AdminsChecked
    PROVE  OrdersInv'
  <1>0. Made' = Made
    BY DEF Made
  <1>1. OnlyMade'
    BY <1>0 DEF OrdersInv, OnlyMade, NoneCancelled, EventsOfMade, AdminsChecked
  <1>2. PlannedNotDraft' /\ OlderMade' /\ OrderInOnePlan'
    BY <1>0 DEF OrdersInv, PlannedNotDraft, OlderMade, OrderInOnePlan, Share
  <1>3. CheckedApart'
    <2> SUFFICES ASSUME NEW a \in Admins, pc'[a] = "confirm", NEW p \in found'[a]
                 PROVE  p \in Made /\ Candidate[planRun[p]] \cap Candidate[subject'[a]] = {}
      BY <1>0 DEF CheckedApart
    <2>1. CASE pc'[a] = pc[a] /\ subject'[a] = subject[a] /\ found'[a] = found[a]
      BY <2>1 DEF OrdersInv, CheckedApart
    <2>2. CASE found'[a] = Made /\ \A o \in Candidate[subject'[a]] : order[o] = "DRAFT"
      BY <2>2 DEF OrdersInv, PlannedNotDraft
    <2> QED
      BY <2>1, <2>2 DEF AdminsChecked
  <1>4. OrdersFollowCancel'
    <2> SUFFICES ASSUME NEW p \in Plans, plan'[p] = "CANCELLED", task'[p] = "CANCELLED",
                        NEW o \in Candidate[planRun[p]]
                 PROVE  \/ order[o] = "CANCELLED"
                        \/ \E q \in Made \ {p} : o \in Candidate[planRun[q]] /\ p \notin older[q]
      BY <1>0 DEF OrdersFollowCancel
    <2> QED
      BY DEF OrdersInv, OrdersFollowCancel, NoneCancelled
  <1> QED
    BY <1>1, <1>2, <1>3, <1>4 DEF OrdersInv

(* A confirmation makes one plan, of orders no plan had when it was        *)
(* checked.                                                                *)
LEMMA ConfirmOrders ==
    ASSUME OrdersInv, Inv', NEW a \in Admins, NEW p \in Plans, CommitConfirm(a, p)
    PROVE  OrdersInv'
  <1>1. PICK r \in Runs : r = subject[a]
    BY DEF CommitConfirm, OrdersInv, Inv, TypeOK
  <1>2. /\ pc[a] = "confirm" /\ p \notin Made
        /\ planRun' = [planRun EXCEPT ![p] = r]
        /\ plan' = [plan EXCEPT ![p] = "CONFIRMED"]
        /\ order' = [o \in Orders |-> IF o \in Candidate[r] THEN "CONFIRMED" ELSE order[o]]
        /\ older' = [older EXCEPT ![p] = found[a]]
        /\ task' = task /\ Enqueue("confirmed", p) /\ Close(a)
    <2>1. ~(p < p)
      BY DispatchAssumption DEF Plans
    <2> QED
      BY <1>1, <2>1 DEF CommitConfirm
  <1>3. /\ TypeOK /\ Candidate[r] \subseteq Orders /\ r # NoRun
        /\ \A q \in Made : q \in Plans /\ Candidate[planRun[q]] \subseteq Orders
    BY DispatchAssumption DEF OrdersInv, Inv, TypeOK, Made
  <1>4. /\ planRun'[p] = r /\ plan'[p] = "CONFIRMED" /\ older'[p] = found[a]
        /\ \A q \in Plans \ {p} : planRun'[q] = planRun[q] /\ plan'[q] = plan[q] /\ older'[q] = older[q]
    BY <1>2, <1>3 DEF TypeOK
  <1>5. /\ Made' = Made \cup {p}
        /\ \A q \in Made : q # p /\ planRun'[q] = planRun[q] /\ older'[q] = older[q]
    BY <1>2, <1>3, <1>4 DEF Made
  <1>6. \A o \in Orders : order'[o] = IF o \in Candidate[r] THEN "CONFIRMED" ELSE order[o]
    BY <1>2
  <1>7. \A q \in found[a] : q \in Made /\ Candidate[planRun[q]] \cap Candidate[r] = {}
    BY <1>1, <1>2 DEF OrdersInv, CheckedApart
  <1>8. \A q \in Plans : older[q] \subseteq Made
    BY DEF OrdersInv, OlderMade
  <1>9. OnlyMade'
    <2>1. \A q \in Plans : plan'[q] # "NONE" \/ task'[q] # "NONE" => q \in Made'
      BY <1>2, <1>4, <1>5 DEF OrdersInv, OnlyMade
    <2>2. \A i \in DOMAIN outbox' : outbox'[i].plan \in Made'
      <3>1. outbox \in Seq(Event) /\ outbox' = Append(outbox, Enqueued("confirmed", p))
        BY <1>2, <1>3 DEF TypeOK, Enqueue
      <3>2. \A i \in DOMAIN outbox' : outbox'[i] = IF i \in DOMAIN outbox THEN outbox[i]
                                                  ELSE Enqueued("confirmed", p)
        BY <3>1
      <3>3. Enqueued("confirmed", p).plan = p
        BY DEF Enqueued
      <3> QED
        BY <1>5, <3>2, <3>3 DEF OrdersInv, OnlyMade
    <2>3. ASSUME NEW b \in Admins, pc'[b] \in {"publish", "cancel"}
          PROVE  subject'[b] \in Made'
      <3>1. pc'[b] = pc[b] /\ subject'[b] = subject[b]
        BY <1>2, <1>3, <2>3 DEF Close, TypeOK
      <3> QED
        BY <1>5, <2>3, <3>1 DEF OrdersInv, OnlyMade
    <2> QED
      BY <2>1, <2>2, <2>3 DEF OnlyMade
  <1>10. PlannedNotDraft'
    <2>1. \A q \in Made : \A o \in Candidate[planRun'[q]] : order'[o] # "DRAFT"
      BY <1>3, <1>5, <1>6 DEF OrdersInv, PlannedNotDraft
    <2>2. \A o \in Candidate[planRun'[p]] : order'[o] # "DRAFT"
      BY <1>3, <1>4, <1>6
    <2> QED
      BY <1>5, <2>1, <2>2 DEF PlannedNotDraft
  <1>11. CheckedApart'
    <2> SUFFICES ASSUME NEW b \in Admins, pc'[b] = "confirm", NEW q \in found'[b]
                 PROVE  q \in Made' /\ Candidate[planRun'[q]] \cap Candidate[subject'[b]] = {}
      BY DEF CheckedApart
    <2>1. pc[b] = "confirm" /\ subject'[b] = subject[b] /\ found'[b] = found[b]
      BY <1>2, <1>3 DEF Close, TypeOK
    <2>2. q \in Made /\ Candidate[planRun[q]] \cap Candidate[subject[b]] = {}
      BY <2>1 DEF OrdersInv, CheckedApart
    <2> QED
      BY <1>5, <2>1, <2>2
  <1>12. OlderMade'
    BY <1>4, <1>5, <1>7, <1>8 DEF OlderMade
  <1>13. OrderInOnePlan'
    <2>1. \A q \in Made : q # p /\ p \notin older'[q]
      BY <1>2, <1>3, <1>5, <1>8
    <2>2. \A q \in Made : q \in older'[p] => Candidate[planRun'[q]] \cap Candidate[planRun'[p]] = {}
      BY <1>4, <1>5, <1>7
    <2>3. ASSUME NEW q \in Made, NEW t \in Made, q # t, Share(q, t)'
          PROVE  q \notin older'[t] /\ t \notin older'[q]
      BY <1>5, <2>3 DEF OrdersInv, OrderInOnePlan, Share
    <2>4. ASSUME NEW q \in Made, Share(q, p)' \/ Share(p, q)'
          PROVE  q \notin older'[p] /\ p \notin older'[q]
      BY <2>1, <2>2, <2>4 DEF Share
    <2> QED
      BY <1>5, <2>3, <2>4 DEF OrderInOnePlan
  <1>14. OrdersFollowCancel'
    <2> SUFFICES ASSUME NEW q \in Plans, plan'[q] = "CANCELLED", task'[q] = "CANCELLED",
                        NEW o \in Candidate[planRun'[q]]
                 PROVE  \/ order'[o] = "CANCELLED"
                        \/ \E t \in Made' \ {q} : o \in Candidate[planRun'[t]] /\ q \notin older'[t]
      BY DEF OrdersFollowCancel
    <2>1. q # p /\ plan[q] = "CANCELLED" /\ task[q] = "CANCELLED" /\ planRun'[q] = planRun[q]
      BY <1>2, <1>4
    <2>2. q \in Made /\ o \in Orders
      BY <1>3, <2>1 DEF OrdersInv, OnlyMade
    <2>3. CASE o \in Candidate[r]
      <3>1. q \notin found[a]
        BY <1>7, <2>1, <2>3
      <3> QED
        BY <1>4, <1>5, <2>1, <2>3, <3>1
    <2>4. CASE o \notin Candidate[r] /\ order[o] = "CANCELLED"
      BY <1>6, <2>2, <2>4
    <2>5. CASE \E t \in Made \ {q} : o \in Candidate[planRun[t]] /\ q \notin older[t]
      BY <1>5, <2>5
    <2> QED
      BY <2>1, <2>3, <2>4, <2>5 DEF OrdersInv, OrdersFollowCancel
  <1> QED
    BY <1>9, <1>10, <1>11, <1>12, <1>13, <1>14 DEF OrdersInv

(* The worker's transaction that leaves a plan and its task cancelled has  *)
(* found them so, or cancels the orders.                                   *)
LEMMA HandleCancels ==
    ASSUME Inv, Handle, NEW p, p = outbox[current].plan,
           plan'[p] = "CANCELLED", task'[p] = "CANCELLED"
    PROVE  \/ plan[p] = "CANCELLED" /\ task[p] = "CANCELLED"
           \/ order' = [o \in Orders |-> IF o \in Candidate[planRun[p]] THEN "CANCELLED"
                                         ELSE order[o]]
  <1> DEFINE e == outbox[current]
             new == Handled(e.topic, loaded)
  <1>1. current # 0 /\ p \in Plans /\ e.topic \in Topic
    <2>1. current # 0 /\ outbox[current] \in Event
      BY DEF Handle, Inv, TypeOK
    <2> QED
      BY <2>1 DEF Event
  <1>2. /\ plan'[p] = IF loaded.plan = new.plan THEN plan[p] ELSE new.plan
        /\ task'[p] = IF loaded.task = new.task THEN task[p] ELSE new.task
        /\ order' = NewOrders(e.topic, p, loaded)
        /\ ~Raises(e.topic, loaded)
    BY <1>1 DEF Handle, Written, Inv, TypeOK
  <1>3. /\ loaded.task \in {"NONE", "CONFIRMED"} => task[p] = loaded.task
        /\ plan[p] \in {"PUBLISHED", "CANCELLED"} => loaded.plan = plan[p]
    BY <1>1 DEF Inv, LoadedStillHolds
  <1>4. CASE e.topic = "confirmed"
    <2>1. \/ new = loaded
          \/ new.task = "CONFIRMED" /\ loaded.task = "NONE"
      BY <1>4 DEF Handled, CreateTask, Updated
    <2> QED
      BY <1>2, <1>3, <2>1
  <1>5. CASE e.topic = "publish_requested"
    <2>1. \/ new = loaded
          \/ new.plan = "PUBLISHED" /\ new.task = "PUBLISHED" /\ loaded.task = "CONFIRMED"
      BY <1>2, <1>5 DEF Handled, PublishTask, Updated, Raises
    <2> QED
      BY <1>2, <1>3, <2>1
  <1>6. CASE e.topic = "cancellation_requested"
    <2>1. \/ new = loaded
          \/ loaded.task = "NONE" /\ new.task = "NONE"
          \/ loaded.plan # "CANCELLED" /\ loaded.task \in Cancellable
          \/ new.plan = "CANCELLATION_REJECTED" /\ new.task = loaded.task /\ loaded.plan # "CANCELLED"
      BY <1>6 DEF Handled, CancelTask, Updated
    <2> QED
      BY <1>2, <1>3, <1>6, <2>1 DEF NewOrders
  <1>7. CASE e.topic \in {"driver_accepted", "completed"}
    <2>1. new.plan = loaded.plan /\ new.task = loaded.task
      BY <1>7 DEF Handled, Updated
    <2> QED
      BY <1>2, <2>1
  <1> QED
    BY <1>1, <1>4, <1>5, <1>6, <1>7 DEF Topic

(* Counting an attempt leaves the plans of the events.                     *)
LEMMA AttemptsStay ==
    ASSUME TypeOK, CountAttempt
    PROVE  DOMAIN outbox' = DOMAIN outbox /\ \A i \in DOMAIN outbox : outbox'[i].plan = outbox[i].plan
  <1>1. current # 0 /\ outbox[current] \in Event
    BY DEF CountAttempt, TypeOK
  <1>2. outbox[current].attempts + 1 \in Nat
    BY <1>1 DEF Event
  <1> QED
    BY <1>1, <1>2, DoneType DEF CountAttempt

(* The worker's transaction keeps the orders in step.                      *)
LEMMA HandleOrders ==
    ASSUME OrdersInv, Inv', Handle
    PROVE  OrdersInv'
  <1>1. PICK p \in Plans : p = outbox[current].plan
    BY HandleEffect DEF OrdersInv
  <1>2. /\ current \in DOMAIN outbox /\ p \in Made /\ TypeOK
        /\ UNCHANGED <<planRun, older, pc, subject, found>>
    BY <1>1 DEF Handle, adminVars, OrdersInv, OnlyMade, Inv, TypeOK
  <1>3. \A q \in Plans \ {p} : plan'[q] = plan[q] /\ task'[q] = task[q]
    BY <1>1, HandleEffect DEF OrdersInv
  <1>0. Made' = Made
    BY <1>2 DEF Made
  <1> DEFINE gone == Candidate[planRun[p]]
  <1>4. /\ gone \subseteq Orders
        /\ \A q \in Made : Candidate[planRun[q]] \subseteq Orders
    BY <1>2, DispatchAssumption DEF Inv, TypeOK, Made
  <1>5. \A o \in Orders : \/ order'[o] = order[o]
                          \/ o \in gone /\ order'[o] = "CANCELLED"
    <2>1. order' = NewOrders(outbox[current].topic, p, loaded)
      BY <1>1 DEF Handle
    <2> QED
      BY <2>1 DEF NewOrders
  <1>6. OnlyMade'
    <2>1. DOMAIN outbox' = DOMAIN outbox /\ \A i \in DOMAIN outbox : outbox'[i].plan = outbox[i].plan
      BY <1>2, DoneType DEF Handle
    <2> QED
      BY <1>0, <1>2, <1>3, <2>1 DEF OrdersInv, OnlyMade
  <1>7. PlannedNotDraft'
    BY <1>0, <1>2, <1>4, <1>5 DEF OrdersInv, PlannedNotDraft
  <1>8. CheckedApart'
    BY <1>0, <1>2 DEF OrdersInv, CheckedApart
  <1>9. OlderMade' /\ OrderInOnePlan'
    BY <1>0, <1>2 DEF OrdersInv, OlderMade, OrderInOnePlan, Share
  <1>10. OrdersFollowCancel'
    <2> SUFFICES ASSUME NEW q \in Plans, plan'[q] = "CANCELLED", task'[q] = "CANCELLED",
                        NEW o \in Candidate[planRun[q]]
                 PROVE  \/ order'[o] = "CANCELLED"
                        \/ \E t \in Made \ {q} : o \in Candidate[planRun[t]] /\ q \notin older[t]
      BY <1>0, <1>2 DEF OrdersFollowCancel
    <2>1. CASE plan[q] = "CANCELLED" /\ task[q] = "CANCELLED"
      <3>1. q \in Made /\ o \in Orders
        BY <1>4, <2>1 DEF OrdersInv, OnlyMade
      <3> QED
        BY <1>5, <2>1, <3>1 DEF OrdersInv, OrdersFollowCancel
    <2>2. CASE ~(plan[q] = "CANCELLED" /\ task[q] = "CANCELLED")
      <3>1. q = p
        BY <1>3, <2>2
      <3>2. order' = [x \in Orders |-> IF x \in gone THEN "CANCELLED" ELSE order[x]]
        BY <1>1, <2>2, <3>1, HandleCancels DEF OrdersInv
      <3> QED
        BY <1>4, <3>1, <3>2
    <2> QED
      BY <2>1, <2>2
  <1> QED
    BY <1>6, <1>7, <1>8, <1>9, <1>10 DEF OrdersInv

(* Every step keeps them in step.                                          *)
LEMMA OrdersStep ==
    ASSUME OrdersInv, [Next]_vars
    PROVE  OrdersInv'
  <1>0. Inv' /\ TypeOK
    BY InvStep DEF OrdersInv, Inv
  <1>1. ASSUME UNCHANGED <<plan, task>>
        PROVE  NoneCancelled
    BY <1>1 DEF NoneCancelled
  <1>2. ASSUME UNCHANGED outbox
        PROVE  EventsOfMade
    BY <1>2 DEF EventsOfMade
  <1>3. ASSUME UNCHANGED <<pc, subject, found>>
        PROVE  AdminsChecked
    BY <1>3 DEF AdminsChecked
  <1>4. ASSUME NEW a \in Admins, Close(a)
        PROVE  AdminsChecked
    BY <1>0, <1>4 DEF AdminsChecked, Close, TypeOK
  <1>5. ASSUME NEW p \in Plans, NEW topic \in Topic, Enqueue(topic, p), p \in Made
        PROVE  EventsOfMade
    <2>1. outbox \in Seq(Event) /\ outbox' = Append(outbox, Enqueued(topic, p))
      BY <1>0, <1>5 DEF TypeOK, Enqueue
    <2>2. Enqueued(topic, p).plan = p
      BY DEF Enqueued
    <2>3. \A i \in DOMAIN outbox' : outbox'[i] = IF i \in DOMAIN outbox THEN outbox[i]
                                                ELSE Enqueued(topic, p)
      BY <2>1
    <2> QED
      BY <1>5, <2>2, <2>3 DEF EventsOfMade
  <1>6. ASSUME UNCHANGED <<order, planRun, older, plan, task, outbox, pc, subject, found>>
        PROVE  OrdersInv'
    BY <1>0, <1>1, <1>2, <1>3, <1>6, QuietStep
  <1>7. ASSUME NEW a \in Admins, NEW r \in Runs, OpenConfirm(a, r)
        PROVE  OrdersInv'
    <2>1. UNCHANGED <<order, planRun, older, plan, task, outbox>>
      BY <1>7 DEF OpenConfirm, Open, rows, history
    <2>2. AdminsChecked
      BY <1>0, <1>7 DEF OpenConfirm, Open, TypeOK, AdminsChecked
    <2> QED
      BY <1>0, <1>1, <1>2, <2>1, <2>2, QuietStep
  <1>8. ASSUME NEW a \in Admins, NEW p \in Plans, OpenPublish(a, p) \/ OpenCancel(a, p)
        PROVE  OrdersInv'
    <2>1. UNCHANGED <<order, planRun, older, plan, task, outbox>> /\ plan[p] # "NONE"
      BY <1>8 DEF OpenPublish, OpenCancel, Open, rows, history
    <2>2. p \in Made
      BY <2>1 DEF OrdersInv, OnlyMade
    <2>3. AdminsChecked
      BY <1>0, <1>8, <2>2 DEF OpenPublish, OpenCancel, Open, TypeOK, AdminsChecked
    <2> QED
      BY <1>0, <1>1, <1>2, <2>1, <2>3, QuietStep
  <1>9. ASSUME NEW a \in Admins, Rollback(a)
        PROVE  OrdersInv'
    <2>1. UNCHANGED <<order, planRun, older, plan, task, outbox>> /\ Close(a)
      BY <1>9 DEF Rollback, rows, history
    <2> QED
      BY <1>0, <1>1, <1>2, <1>4, <2>1, QuietStep
  <1>10. ASSUME NEW a \in Admins, NEW p \in Plans, CommitConfirm(a, p)
        PROVE  OrdersInv'
    BY <1>0, <1>10, ConfirmOrders
  <1>11. ASSUME NEW a \in Admins, NEW kind \in {"publish", "cancel"}, NEW topic \in Topic,
               NEW requested \in {"PUBLISH_REQUESTED", "CANCELLATION_REQUESTED"},
               CommitRequest(a, kind, requested, topic)
        PROVE  OrdersInv'
    <2>1. /\ subject[a] \in Made /\ subject[a] \in Plans /\ UNCHANGED <<order, planRun, older, task>>
          /\ Enqueue(topic, subject[a]) /\ Close(a)
      BY <1>0, <1>11 DEF CommitRequest, OrdersInv, OnlyMade, TypeOK, history
    <2>2. plan' = [plan EXCEPT ![subject[a]] = requested] /\ requested # "CANCELLED"
      BY <1>11 DEF CommitRequest
    <2>3. NoneCancelled
      BY <1>0, <2>1, <2>2 DEF NoneCancelled, TypeOK
    <2>4. EventsOfMade
      BY <1>5, <2>1
    <2> QED
      BY <1>0, <1>4, <2>1, <2>3, <2>4, QuietStep
  <1>12. ASSUME NEW a \in Admins, CommitPublish(a) \/ CommitCancel(a)
        PROVE  OrdersInv'
    BY <1>11, <1>12 DEF CommitPublish, CommitCancel, Topic
  <1>13. ASSUME NEW d \in Drivers, Accept(d) \/ Pickup(d) \/ Carry(d) \/ Sign(d)
         PROVE  OrdersInv'
    <2>1. PICK from \in {"PUBLISHED", "DRIVER_ACCEPTED", "PICKED_UP"},
               to \in {"DRIVER_ACCEPTED", "PICKED_UP", "COMPLETED"} : Move(d, from, to)
      BY <1>13 DEF Accept, Pickup, Carry, Sign
    <2>2. UNCHANGED <<order, planRun, older, plan, pc, subject, found>>
      BY <2>1 DEF Move, adminVars, history
    <2>3. work[d].plan \in Made /\ work[d].plan \in Plans
      BY <2>1, WorkType DEF OrdersInv, OnlyMade, Inv, WorkedOn, Move
    <2>4. NoneCancelled
      BY <1>0, <2>1, <2>2, <2>3 DEF NoneCancelled, Move, TypeOK
    <2>5. EventsOfMade
      BY <1>2, <1>5, <1>13, <2>3 DEF Accept, Pickup, Carry, Sign, Topic
    <2> QED
      BY <1>0, <1>3, <2>2, <2>4, <2>5, QuietStep
  <1>14. ASSUME NEW p \in Plans, ExpireToken(p)
         PROVE  OrdersInv'
    BY <1>6, <1>14 DEF ExpireToken, adminVars, history
  <1>15. ASSUME NEW d \in Drivers, GiveUp(d) \/ \E p \in Plans : Load(d, p)
         PROVE  OrdersInv'
    BY <1>6, <1>15 DEF GiveUp, Load, rows, adminVars, history
  <1>16. CASE Poll \/ Take \/ Crash
    BY <1>6, <1>16 DEF Poll, Take, Crash, rows, adminVars, history
  <1>17. CASE Handle
    BY <1>0, <1>17, HandleOrders
  <1>18. CASE Reject \/ Fail
    <2>1. UNCHANGED <<order, planRun, older, plan, task, pc, subject, found>> /\ CountAttempt
      BY <1>18 DEF Reject, Fail, CountAttempt, rows, adminVars, history
    <2>2. EventsOfMade
      BY <1>0, <2>1, AttemptsStay DEF EventsOfMade
    <2> QED
      BY <1>0, <1>1, <1>3, <2>1, <2>2, QuietStep
  <1>19. CASE UNCHANGED vars
    BY <1>6, <1>19 DEF vars, rows, adminVars, history
  <1> QED
    BY <1>7, <1>8, <1>9, <1>10, <1>12, <1>13, <1>14, <1>15, <1>16, <1>17, <1>18, <1>19
       DEF Next, Worker

(* So the invariant holds throughout.                                      *)
LEMMA OrdersInvHolds == Spec => []OrdersInv
  <1>1. Init => OrdersInv
    <2> SUFFICES ASSUME Init PROVE OrdersInv
      OBVIOUS
    <2>1. Inv
      BY InvInit
    <2>2. /\ Made = {} /\ \A p \in Plans : plan[p] = "NONE" /\ task[p] = "NONE" /\ older[p] = {}
          /\ DOMAIN outbox = {} /\ \A a \in Admins : pc[a] = "idle"
      BY DEF Init, Made
    <2> QED
      BY <2>1, <2>2 DEF OrdersInv, OnlyMade, PlannedNotDraft, CheckedApart, OlderMade,
         OrderInOnePlan, OrdersFollowCancel
  <1>2. OrdersInv /\ [Next]_vars => OrdersInv'
    BY OrdersStep
  <1> QED
    BY <1>1, <1>2, PTL DEF Spec

(* Two plans share an order only if neither confirmation was checked after *)
(* the other's commit, however publications, cancellations, retries and    *)
(* crashes interleave with them.                                           *)
THEOREM NoOrderTwice == Spec => []OrderInOnePlan
  <1>1. OrdersInv => OrderInOnePlan
    BY DEF OrdersInv
  <1> QED
    BY <1>1, OrdersInvHolds, PTL

(* No plan but one made beside it takes back an order that was cancelled   *)
(* with its task.                                                          *)
THEOREM CancelledWithTheirTask == Spec => []OrdersFollowCancel
  <1>1. OrdersInv => OrdersFollowCancel
    BY DEF OrdersInv
  <1> QED
    BY <1>1, OrdersInvHolds, PTL
=============================================================================
