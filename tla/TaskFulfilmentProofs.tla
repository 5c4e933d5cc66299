------------------------ MODULE TaskFulfilmentProofs ------------------------
(***************************************************************************)
(* TaskFulfilment for any tasks, routes, loads, threads, keys and bounds,  *)
(* in three parts.                                                         *)
(*                                                                         *)
(* Safety, whatever the interleaving of the transactions.                  *)
(*                                                                         *)
(* The stock ledger: the balances against the sum of the receipts.         *)
(* Received is a fold over a set, so the part begins with what a sum over  *)
(* a finite set is, by induction on the subset ordering: a set of bad      *)
(* subsets would have a smallest member, and no subset is a smallest bad   *)
(* one.  Then comes what a commit books, and that the balances follow.     *)
(*                                                                         *)
(* The refinement: TaskFulfilment implements TaskLifecycle when its        *)
(* requests are served one after the other.  Each commit is one step of    *)
(* the documented life of a task, or changes neither its status nor its    *)
(* stops (a stop that is scanned again); all other steps are invisible.    *)
(***************************************************************************)
EXTENDS TaskFulfilment, FiniteSetTheorems, TLAPS

----------------------------------------------------------------------------
(* The snapshots.                                                          *)

(* A snapshot taken from a well-typed task row is well typed.              *)
LEMMA TaskRowType ==
    ASSUME TypeOK, NEW t \in Tasks
    PROVE  TaskRow(t) \in Snapshot
  BY DEF TypeOK, TaskRow, Snapshot, StopStatus

(* The same for the empty snapshot.                                        *)
LEMMA EmptySnapshotType == EmptySnapshot \in Snapshot
  BY DEF EmptySnapshot, Snapshot, StopStatus, TaskStatus

(* Taking a well-formed request preserves the types.                       *)
LEMMA BeginType ==
    ASSUME TypeOK, NEW th \in Threads, NEW r \in Request,
           NEW step \in {"loaded", "ready"}, Begin(th, r, step)
    PROVE  TypeOK'
  <1>1. r.task \in Tasks
    BY DEF Request, ActionRequest, SignRequest
  <1>2. TaskRow(r.task) \in Snapshot
    BY <1>1, TaskRowType
  <1>3. seen' \in [Threads -> Snapshot]
    BY <1>2 DEF TypeOK, Begin
  <1>4. pc' \in [Threads -> {"idle", "loaded", "located", "ready"}]
    BY DEF TypeOK, Begin
  <1>5. req' \in [Threads -> Request \cup {NoRequest}]
    BY DEF TypeOK, Begin
  <1>6. \A u \in Threads : /\ pc'[u] # "idle" => req'[u] \in Request
                           /\ pc'[u] = "located" => req'[u] \in SignRequest
    BY DEF TypeOK, Begin
  <1> QED
    BY <1>3, <1>4, <1>5, <1>6 DEF TypeOK, Begin, rows

(* Ending a transaction keeps the types of the threads' variables.         *)
LEMMA EndType ==
    ASSUME TypeOK, NEW th \in Threads, End(th)
    PROVE  /\ pc' \in [Threads -> {"idle", "loaded", "located", "ready"}]
           /\ req' \in [Threads -> Request \cup {NoRequest}]
           /\ \A u \in Threads : /\ pc'[u] # "idle" => req'[u] \in Request
                                 /\ pc'[u] = "located" => req'[u] \in SignRequest
           /\ seen' \in [Threads -> Snapshot]
  BY EmptySnapshotType DEF TypeOK, End

----------------------------------------------------------------------------
(* Type correctness.                                                       *)

(* What Commit writes is well typed.                                       *)
LEMMA CommitType ==
    ASSUME TypeOK, NEW th \in Threads, Commit(th)
    PROVE  TypeOK'
  <1> DEFINE r == req[th]
             t == req[th].task
             sn == seen[th]
  <1>1. r \in Request /\ t \in Tasks /\ sn \in Snapshot /\ pc[th] = "ready"
    BY DEF TypeOK, Commit, Request, ActionRequest, SignRequest
  <1>2. NewStatus(r, sn) \in TaskStatus
    BY <1>1 DEF NewStatus, Simple, Request, ActionRequest, SignRequest, TaskStatus
  <1>3. status' \in [Tasks -> TaskStatus]
    BY <1>1, <1>2 DEF TypeOK, Commit, Written
  <1>4. version' \in [Tasks -> Nat]
    BY <1>1 DEF TypeOK, Commit, Snapshot, NextVersion
  <1>5. qr' \in [Tasks -> {"none", "live", "expired"}]
    BY <1>1 DEF TypeOK, Commit
  <1>6. stop' \in [Tasks -> [Stores -> StopStatus]]
    BY <1>1 DEF TypeOK, Commit, Snapshot, Written, NewStop, StopStatus
  <1>7. receipts' \subseteq Receipt
    BY <1>1 DEF TypeOK, Commit, NewReceipts, Request, ActionRequest, SignRequest, Receipt
  <1>8. balance' \in [Stores -> [Products -> Nat \cup {NoRow}]]
    <2>1. CASE r.kind # "SIGN"
      BY <2>1 DEF TypeOK, Commit
    <2>2. CASE r.kind = "SIGN"
      <3>1. r \in SignRequest
        BY <1>1, <2>2 DEF Request, ActionRequest
      <3>2. NewStock(r, sn) \in [Products -> Nat \cup {NoRow}]
        BY <1>1, <3>1 DEF NewStock, TypeOK, Snapshot, SignRequest
      <3> QED
        BY <2>2, <3>1, <3>2 DEF TypeOK, Commit, SignRequest
    <2> QED
      BY <2>1, <2>2
  <1>9. events' \subseteq TaskEvent
    <2>1. /\ r.key \in Keys
          /\ sn.status \in TaskStatus
          /\ sn.version + 1 \in Nat
      BY <1>1 DEF Snapshot, Request, ActionRequest, SignRequest
    <2>2. ASSUME NEW tag \in {"action", "state", "complete"},
                 NEW from \in TaskStatus, NEW to \in TaskStatus
          PROVE  EventRow(r, sn, tag, from, to) \in TaskEvent
      BY <1>1, <2>1 DEF EventRow, NextVersion, TaskEvent
    <2>3. "STORE_SIGNED" \in TaskStatus /\ "COMPLETED" \in TaskStatus
      BY DEF TaskStatus
    <2>4. NewEvents(r, sn) \subseteq TaskEvent
      BY <1>2, <2>1, <2>2, <2>3 DEF NewEvents
    <2> QED
      BY <2>4 DEF TypeOK, Commit
  <1>10. idem' \subseteq Request
    BY <1>1 DEF TypeOK, Commit
  <1> QED
    BY <1>3, <1>4, <1>5, <1>6, <1>7, <1>8, <1>9, <1>10, EndType DEF Commit, TypeOK

(* The requests the Open actions build are well formed.                    *)
LEMMA TaskRequestType ==
    ASSUME TypeOK, NEW t \in Tasks, NEW s \in Stores \cup {NoStore}, NEW k \in Keys,
           NEW kind \in {"PUBLISH", "CANCEL", "ACCEPT", "PICKUP", "START_TRANSIT", "DELIVER"}
    PROVE  TaskRequest(kind, t, s, k) \in Request /\ TaskRequest(kind, t, s, k).kind = kind
  BY DEF TypeOK, TaskRequest, Request, ActionRequest

(* Every step preserves the types.                                         *)
LEMMA TypeStep ==
    ASSUME TypeOK, [Next]_vars
    PROVE  TypeOK'
  <1>1. ASSUME NEW th \in Threads, NEW t \in Tasks, NEW k \in Keys, OpenPublish(th, t, k)
        PROVE  TypeOK'
    BY <1>1, TaskRequestType, BeginType DEF OpenPublish
  <1>2. ASSUME NEW th \in Threads, NEW t \in Tasks, NEW k \in Keys, OpenCancel(th, t, k)
        PROVE  TypeOK'
    BY <1>2, TaskRequestType, BeginType DEF OpenCancel
  <1>3. ASSUME NEW th \in Threads, NEW t \in Tasks, NEW k \in Keys,
               NEW a \in {"ACCEPT", "PICKUP", "START_TRANSIT"}, OpenTransition(th, t, a, k)
        PROVE  TypeOK'
    BY <1>3, TaskRequestType, BeginType DEF OpenTransition
  <1>4. ASSUME NEW th \in Threads, NEW t \in Tasks, NEW k \in Keys,
               NEW s \in Stores \cup {NoStore}, OpenDeliver(th, t, s, k)
        PROVE  TypeOK'
    BY <1>4, TaskRequestType, BeginType DEF OpenDeliver
  <1>5. ASSUME NEW th \in Threads, NEW t \in Tasks, NEW k \in Keys,
               NEW s \in Stores, NEW v \in Verdict, NEW lines \in [Products -> 0..MaxLoad],
               OpenSign(th, t, s, v, lines, k)
        PROVE  TypeOK'
    <2> DEFINE r == [kind |-> "SIGN", task |-> t, store |-> s, verdict |-> v,
                     lines |-> lines, key |-> k, version |-> version[t]]
    <2>1. lines \in [Products -> Nat]
      BY RouteAssumption
    <2>2. r \in Request
      BY <2>1 DEF TypeOK, Request, SignRequest
    <2>3. Begin(th, r, "loaded")
      BY <1>5 DEF OpenSign
    <2> QED
      BY <2>2, <2>3, BeginType
  <1>6. ASSUME NEW th \in Threads, ReadStops(th)
        PROVE  TypeOK'
    <2>1. req[th].task \in Tasks
      BY <1>6 DEF TypeOK, ReadStops, Request, ActionRequest, SignRequest
    <2>2. \A s \in Stops[req[th].task] : s \in Stores
      BY <2>1, RouteAssumption DEF Stops
    <2>3. seen' \in [Threads -> Snapshot]
      BY <1>6, <2>1, <2>2 DEF TypeOK, ReadStops, Snapshot, WithStop
    <2> QED
      BY <1>6, <2>3 DEF TypeOK, ReadStops, rows
  <1>7. ASSUME NEW th \in Threads, ReadStop(th)
        PROVE  TypeOK'
    <2>1. req[th].store \in Stores
      BY <1>7 DEF TypeOK, ReadStop, Request, ActionRequest, SignRequest
    <2>2. seen' \in [Threads -> Snapshot]
      BY <1>7, <2>1 DEF TypeOK, ReadStop, Snapshot, StopStatus, WithStop
    <2>3. req[th] \in SignRequest
      BY <1>7 DEF TypeOK, ReadStop, Request, ActionRequest
    <2> QED
      BY <1>7, <2>2, <2>3 DEF TypeOK, ReadStop, rows
  <1>8. ASSUME NEW th \in Threads, ReadStock(th)
        PROVE  TypeOK'
    <2>1. req[th].store \in Stores
      BY <1>8 DEF TypeOK, ReadStock, SignRequest
    <2>2. seen' \in [Threads -> Snapshot]
      BY <1>8, <2>1 DEF TypeOK, ReadStock, Snapshot, WithStock
    <2> QED
      BY <1>8, <2>2 DEF TypeOK, ReadStock, rows
  <1>9. ASSUME NEW th \in Threads, Commit(th)
        PROVE  TypeOK'
    BY <1>9, CommitType
  <1>10. ASSUME NEW th \in Threads, Rollback(th)
         PROVE  TypeOK'
    BY <1>10, EndType DEF Rollback, rows, TypeOK
  <1>11. ASSUME NEW t \in Tasks, ExpireQr(t)
         PROVE  TypeOK'
    BY <1>11 DEF ExpireQr, TypeOK
  <1>12. CASE UNCHANGED vars
    BY <1>12 DEF vars, rows, TypeOK
  <1> QED
    BY <1>1, <1>2, <1>3, <1>4, <1>5, <1>6, <1>7, <1>8, <1>9, <1>10, <1>11, <1>12 DEF Next

(* The types are correct in every reachable state.                         *)
THEOREM TypeCorrect == Spec => []TypeOK
  <1>1. Init => TypeOK
    BY RouteAssumption, EmptySnapshotType
       DEF Init, TypeOK, TaskStatus, StopStatus
  <1>2. TypeOK /\ [Next]_vars => TypeOK'
    BY TypeStep
  <1> QED
    BY <1>1, <1>2, PTL DEF Spec

----------------------------------------------------------------------------
(* The inductive invariant.  ArrivedEverywhere and CompletedFullySigned    *)
(* are about rows; what keeps them is that a transaction decides from      *)
(* stops and receipts it read earlier, and that what it concluded from     *)
(* them cannot become false meanwhile (ReadsStillHold).                    *)

Inv ==
    /\ TypeOK
    /\ ReadsStillHold
    /\ CompletedFullySigned
    /\ ArrivedEverywhere
    /\ ReceiptAfterDelivery

(* Delivery and signature are for good: no step deletes a receipt, none    *)
(* takes a stop back to PLANNED.                                           *)
OnlyForward ==
    /\ receipts \subseteq receipts'
    /\ \A t \in Tasks : \A s \in Stops[t] :
            stop[t][s] # "PLANNED" => stop'[t][s] # "PLANNED"

(* A stop of a task is a store.                                            *)
LEMMA StopsType == \A t \in Tasks : Stops[t] \subseteq Stores
  BY RouteAssumption DEF Stops

(* A well-formed request names a task.                                     *)
LEMMA RequestTask ==
    ASSUME NEW r \in Request
    PROVE  r.task \in Tasks
  BY DEF Request, ActionRequest, SignRequest

(* The properties of the rows read only status, stop, receipts, events.    *)
LEMMA RowsUnchanged ==
    ASSUME CompletedFullySigned, ArrivedEverywhere, ReceiptAfterDelivery,
           UNCHANGED <<status, stop, receipts, events>>
    PROVE  (CompletedFullySigned /\ ArrivedEverywhere /\ ReceiptAfterDelivery)'
  BY DEF CompletedFullySigned, ArrivedEverywhere, ReceiptAfterDelivery, Signed

(* A forward step keeps true what the transactions it leaves alone have    *)
(* concluded.                                                              *)
LEMMA OthersReadsHold ==
    ASSUME TypeOK, ReadsStillHold, OnlyForward,
           NEW u \in Threads, pc'[u] # "idle",
           pc'[u] = pc[u], req'[u] = req[u], seen'[u] = seen[u]
    PROVE  Shape(u)' /\ Conclusion(u)'
  <1>1. req[u].task \in Tasks
    BY RequestTask DEF TypeOK
  <1>2. Shape(u) /\ Conclusion(u)
    BY DEF ReadsStillHold
  <1>3. Shape(u)'
    BY <1>2 DEF Shape
  <1>4. \A v : Signed(req[u].task, v) => Signed(req[u].task, v)'
    BY DEF Signed, OnlyForward
  <1>5. seen[u].target # NoStore => seen[u].target \in Stops[req[u].task]
    BY <1>2 DEF Shape
  <1>6. Conclusion(u)'
    BY <1>1, <1>2, <1>4, <1>5 DEF Conclusion, OnlyForward
  <1> QED
    BY <1>3, <1>6

(* A new transaction has read a task row only.                             *)
LEMMA BeginInv ==
    ASSUME Inv, NEW th \in Threads, NEW r \in Request,
           NEW step \in {"loaded", "ready"}, Begin(th, r, step),
           (step = "loaded") = (r.kind \in {"DELIVER", "SIGN"}),
           r.kind = "SIGN" => /\ r.store \in Stops[r.task]
                              /\ status[r.task] \in {"DELIVERED", "STORE_SIGNED"}
    PROVE  Inv'
  <1>1. TypeOK'
    BY BeginType DEF Inv
  <1>2. UNCHANGED <<status, stop, receipts, events>>
    BY DEF Begin, rows
  <1>3. r.task \in Tasks
    BY RequestTask
  <1>4. ASSUME NEW u \in Threads, pc'[u] # "idle"
        PROVE  Shape(u)' /\ Conclusion(u)'
    <2>1. CASE u = th
      <3>1. pc'[u] = step /\ req'[u] = r /\ seen'[u] = TaskRow(r.task)
        BY <2>1 DEF Begin, Inv, TypeOK
      <3>2. Shape(u)'
        BY <3>1 DEF Shape, TaskRow
      <3>3. status[r.task] \in Arrived => \A s \in Stops[r.task] : stop'[r.task][s] # "PLANNED"
        BY <1>2, <1>3 DEF Inv, ArrivedEverywhere
      <3>4. Conclusion(u)'
        BY <3>1, <3>3 DEF Conclusion, TaskRow
      <3> QED
        BY <3>2, <3>4
    <2>2. CASE u # th
      <3>1. pc'[u] = pc[u] /\ req'[u] = req[u] /\ seen'[u] = seen[u]
        BY <2>2 DEF Begin, Inv, TypeOK
      <3>2. OnlyForward
        BY <1>2 DEF OnlyForward
      <3> QED
        BY <1>4, <3>1, <3>2, OthersReadsHold DEF Inv
    <2> QED
      BY <2>1, <2>2
  <1> QED
    BY <1>1, <1>2, <1>4, RowsUnchanged DEF Inv, ReadsStillHold
(* A SELECT changes only what its own transaction has read.                *)
LEMMA ReadInv ==
    ASSUME Inv, TypeOK', NEW th \in Threads, UNCHANGED <<rows, req>>,
           \A u \in Threads \ {th} : pc'[u] = pc[u] /\ seen'[u] = seen[u],
           Shape(th)' /\ Conclusion(th)'
    PROVE  Inv'
  <1>1. UNCHANGED <<status, stop, receipts, events>> /\ OnlyForward
    BY DEF rows, OnlyForward
  <1>2. ASSUME NEW u \in Threads, pc'[u] # "idle"
        PROVE  Shape(u)' /\ Conclusion(u)'
    BY <1>1, <1>2, OthersReadsHold DEF Inv
  <1> QED
    BY <1>1, <1>2, RowsUnchanged DEF Inv, ReadsStillHold

(* DELIVER reads its stops.                                                *)
LEMMA ReadStopsInv ==
    ASSUME Inv, TypeOK', NEW th \in Threads, ReadStops(th)
    PROVE  Inv'
  <1> DEFINE t == req[th].task
  <1>1. PICK s \in Stops[t] :
            seen' = [seen EXCEPT ![th] = WithStop(@, s, stop[t][s],
                        \E u \in Stops[t] \ {s} : stop[t][u] = "PLANNED")]
    BY DEF ReadStops
  <1>2. /\ seen'[th] = WithStop(seen[th], s, stop[t][s],
                            \E u \in Stops[t] \ {s} : stop[t][u] = "PLANNED")
        /\ pc'[th] = "ready" /\ req' = req /\ stop' = stop /\ req[th].kind = "DELIVER"
        /\ t \in Tasks /\ s \in Stores
    BY <1>1, RequestTask, StopsType DEF ReadStops, Inv, TypeOK, rows
  <1>3. s # NoStore
    BY <1>2, RouteAssumption
  <1>4. Shape(th)'
    BY <1>2, <1>3 DEF Shape, WithStop
  <1>5. Shape(th) /\ Conclusion(th)
    BY DEF Inv, ReadsStillHold, ReadStops
  <1>6. Conclusion(th)'
    BY <1>2, <1>3, <1>5 DEF Conclusion, WithStop
  <1>7. \A u \in Threads \ {th} : pc'[u] = pc[u] /\ seen'[u] = seen[u]
    BY <1>1 DEF ReadStops, Inv, TypeOK
  <1> QED
    BY <1>4, <1>6, <1>7, ReadInv DEF ReadStops

(* A signature reads its stop.                                             *)
LEMMA ReadStopInv ==
    ASSUME Inv, TypeOK', NEW th \in Threads, ReadStop(th)
    PROVE  Inv'
  <1> DEFINE r == req[th]
  <1>1. /\ seen'[th] = WithStop(seen[th], r.store, "DELIVERED", TRUE)
        /\ pc'[th] = "located" /\ req' = req /\ stop' = stop /\ r.kind = "SIGN"
        /\ stop[r.task][r.store] = "DELIVERED"
    BY DEF ReadStop, Inv, TypeOK, rows
  <1>2. Shape(th) /\ Conclusion(th)
    BY DEF Inv, ReadsStillHold, ReadStop
  <1>3. r.store # NoStore /\ r.store \in Stops[r.task]
    BY <1>1, <1>2, RouteAssumption, RequestTask, StopsType
       DEF Shape, Inv, TypeOK, ReadStop
  <1>4. Shape(th)'
    BY <1>1, <1>2, <1>3 DEF Shape, WithStop
  <1>5. Conclusion(th)'
    BY <1>1, <1>2 DEF Conclusion, WithStop
  <1>6. \A u \in Threads \ {th} : pc'[u] = pc[u] /\ seen'[u] = seen[u]
    BY DEF ReadStop, Inv, TypeOK
  <1> QED
    BY <1>4, <1>5, <1>6, ReadInv DEF ReadStop

(* A signature reads the balances and counts the unsigned stops: a stop it *)
(* finds SIGNED has a receipt.                                             *)
LEMMA ReadStockInv ==
    ASSUME Inv, TypeOK', NEW th \in Threads, ReadStock(th)
    PROVE  Inv'
  <1> DEFINE r == req[th]
  <1>1. /\ seen'[th] = WithStock(seen[th], balance[r.store],
                \E u \in Stops[r.task] \ {r.store} : stop[r.task][u] # "SIGNED")
        /\ pc'[th] = "ready" /\ req' = req /\ stop' = stop /\ receipts' = receipts
        /\ r.task \in Tasks
    BY RequestTask DEF ReadStock, Inv, TypeOK, rows
  <1>2. Shape(th) /\ Conclusion(th) /\ r.kind = "SIGN" /\ seen[th].target # NoStore
    BY DEF Inv, ReadsStillHold, ReadStock, Shape
  <1>3. Shape(th)'
    BY <1>1, <1>2 DEF Shape, WithStock
  <1>4. \A u \in Stops[r.task] : stop[r.task][u] = "SIGNED" => Signed(r.task, u)
    BY <1>1 DEF Inv, ReceiptAfterDelivery
  <1>5. \A u : Signed(r.task, u)' <=> Signed(r.task, u)
    BY <1>1 DEF Signed
  <1>6. Conclusion(th)'
    BY <1>1, <1>2, <1>4, <1>5 DEF Conclusion, WithStock
  <1>7. \A u \in Threads \ {th} : pc'[u] = pc[u] /\ seen'[u] = seen[u]
    BY DEF ReadStock, Inv, TypeOK
  <1> QED
    BY <1>3, <1>6, <1>7, ReadInv DEF ReadStock

(* Ending a transaction without a commit.                                  *)
LEMMA RollbackInv ==
    ASSUME Inv, TypeOK', NEW th \in Threads, Rollback(th)
    PROVE  Inv'
  <1>1. UNCHANGED <<status, stop, receipts, events>> /\ OnlyForward
    BY DEF Rollback, rows, OnlyForward
  <1>2. ASSUME NEW u \in Threads, pc'[u] # "idle"
        PROVE  Shape(u)' /\ Conclusion(u)'
    <2>1. pc'[u] = pc[u] /\ req'[u] = req[u] /\ seen'[u] = seen[u]
      BY <1>2 DEF Rollback, End, Inv, TypeOK
    <2> QED
      BY <1>1, <1>2, <2>1, OthersReadsHold DEF Inv
  <1> QED
    BY <1>1, <1>2, RowsUnchanged DEF Inv, ReadsStillHold
(* The commit of a transaction, of whatever request.                       *)
LEMMA CommitInv ==
    ASSUME Inv, TypeOK', NEW th \in Threads, Commit(th)
    PROVE  Inv'
  <1> DEFINE r == req[th]
             t == req[th].task
             sn == seen[th]
             SignedNext(x, s) == \E c \in receipts' : c.task = x /\ c.store = s
  <1>1. /\ r \in Request /\ t \in Tasks /\ sn \in Snapshot
        /\ pc[th] = "ready" /\ Shape(th) /\ Conclusion(th)
    BY RequestTask DEF Inv, TypeOK, Commit, ReadsStillHold
  <1>2. \A x \in Tasks \ {t} : status'[x] = status[x] /\ stop'[x] = stop[x]
    BY <1>1 DEF Commit, Inv, TypeOK
  <1>3. status'[t] = Written(status[t], sn.status, NewStatus(r, sn))
    BY <1>1 DEF Commit, Inv, TypeOK
  <1>4. \A s \in Stores : stop'[t][s] =
            IF s = sn.target THEN Written(stop[t][s], sn.stop, NewStop(r)) ELSE stop[t][s]
    BY <1>1, RouteAssumption DEF Commit, Inv, TypeOK
  <1>5. /\ receipts' = receipts \cup NewReceipts(r)
        /\ events' = events \cup NewEvents(r, sn)
    BY DEF Commit
  <1>6. \A x, s : Signed(x, s) => SignedNext(x, s)
    BY <1>5 DEF Signed
  <1>7. r.kind = "SIGN" => SignedNext(t, r.store)
    <2> DEFINE d == [task |-> r.task, store |-> r.store, verdict |-> r.verdict,
                     lines |-> r.lines, key |-> r.key]
    <2>1. r.kind = "SIGN" => d \in receipts'
      BY <1>5 DEF NewReceipts
    <2>2. d.task = t /\ d.store = r.store
      OBVIOUS
    <2> QED
      BY <2>1, <2>2 DEF Signed
  <1>8. \A x, s : SignedNext(x, s) => Signed(x, s) \/ (r.kind = "SIGN" /\ x = t /\ s = r.store)
    BY <1>5 DEF Signed, NewReceipts
  <1>9. \A s \in Stores : stop[t][s] # "PLANNED" => stop'[t][s] # "PLANNED"
    BY <1>4 DEF Written, NewStop
  <1>10. OnlyForward
    BY <1>1, <1>2, <1>5, <1>9, StopsType DEF OnlyForward
  <1>11. sn.target # NoStore => stop'[t][sn.target] # "PLANNED"
    <2> SUFFICES ASSUME sn.target # NoStore PROVE stop'[t][sn.target] # "PLANNED"
      OBVIOUS
    <2>1. sn.target \in Stores
      BY <1>1, StopsType DEF Shape
    <2>2. CASE sn.stop = "PLANNED"
      BY <1>4, <2>1, <2>2 DEF Written, NewStop
    <2>3. CASE sn.stop # "PLANNED"
      BY <1>1, <1>9, <2>1, <2>3 DEF Conclusion
    <2> QED
      BY <2>2, <2>3
  <1>12. ReadsStillHold'
    <2> SUFFICES ASSUME NEW u \in Threads, pc'[u] # "idle"
                 PROVE  Shape(u)' /\ Conclusion(u)'
      BY DEF ReadsStillHold
    <2>1. pc'[u] = pc[u] /\ req'[u] = req[u] /\ seen'[u] = seen[u]
      BY DEF Commit, End, Inv, TypeOK
    <2> QED
      BY <1>10, <2>1, OthersReadsHold DEF Inv
  <1>13. ArrivedEverywhere'
    <2> SUFFICES ASSUME NEW x \in Tasks, status'[x] \in Arrived, NEW s \in Stops[x]
                 PROVE  stop'[x][s] # "PLANNED"
      BY DEF ArrivedEverywhere
    <2>1. CASE status[x] \in Arrived
      BY <2>1, <1>10 DEF Inv, ArrivedEverywhere, OnlyForward
    <2>2. CASE status[x] \notin Arrived
      <3>1. x = t /\ NewStatus(r, sn) \in Arrived /\ NewStatus(r, sn) # sn.status
        BY <1>2, <1>3, <2>2 DEF Written
      <3>2. r.kind \in {"DELIVER", "SIGN"}
        BY <1>1, <3>1 DEF NewStatus, Simple, Arrived, Request, ActionRequest, SignRequest
      <3>3. CASE r.kind = "SIGN"
        <4>1. sn.status \in Arrived
          BY <1>1, <3>3 DEF Shape, Arrived
        <4> QED
          BY <1>1, <1>10, <3>1, <4>1 DEF Conclusion, OnlyForward
      <3>4. CASE r.kind = "DELIVER"
        <4>1. ~sn.unfinished
          BY <3>1, <3>4 DEF NewStatus, Arrived
        <4>2. CASE s = sn.target
          BY <1>1, <1>11, <3>1, <3>4, <4>2 DEF Shape
        <4>3. CASE s # sn.target
          BY <1>1, <1>10, <3>1, <3>4, <4>1, <4>3 DEF Conclusion, OnlyForward
        <4> QED
          BY <4>2, <4>3
      <3> QED
        BY <3>2, <3>3, <3>4
    <2> QED
      BY <2>1, <2>2
  <1>14. (r.kind = "SIGN" /\ ~sn.unfinished) => \A s \in Stops[t] : SignedNext(t, s)
    <2> SUFFICES ASSUME r.kind = "SIGN", ~sn.unfinished, NEW s \in Stops[t]
                 PROVE  SignedNext(t, s)
      OBVIOUS
    <2>1. \A u \in Stops[t] \ {r.store} : Signed(t, u)
      BY <1>1 DEF Conclusion
    <2> QED
      BY <1>6, <1>7, <2>1
  <1>15. CompletedFullySigned'
    <2> SUFFICES ASSUME NEW x \in Tasks,
                        \/ status'[x] = "COMPLETED"
                        \/ \E e \in events' : e.task = x /\ e.tag = "complete",
                        NEW s \in Stops[x]
                 PROVE  SignedNext(x, s)
      BY DEF CompletedFullySigned, Signed
    <2>1. CASE \/ status[x] = "COMPLETED"
               \/ \E e \in events : e.task = x /\ e.tag = "complete"
      BY <1>6, <2>1 DEF Inv, CompletedFullySigned
    <2>2. CASE /\ status[x] # "COMPLETED"
               /\ status'[x] = "COMPLETED"
      <3>1. x = t /\ NewStatus(r, sn) = "COMPLETED"
        BY <1>2, <1>3, <2>2 DEF Written
      <3>2. r.kind = "SIGN"
        BY <1>1, <3>1 DEF NewStatus, Simple, Request, ActionRequest, SignRequest
      <3>3. ~sn.unfinished
        BY <3>1, <3>2 DEF NewStatus
      <3> QED
        BY <1>14, <3>1, <3>2, <3>3
    <2>3. CASE \E e \in NewEvents(r, sn) : e.task = x /\ e.tag = "complete"
      <3>1. \A tag, from, to :
                /\ EventRow(r, sn, tag, from, to).task = t
                /\ EventRow(r, sn, tag, from, to).tag = tag
        BY DEF EventRow, NextVersion
      <3>2. PICK e \in NewEvents(r, sn) : e.task = x /\ e.tag = "complete"
        BY <2>3
      <3>3. /\ e # EventRow(r, sn, "action", sn.status, NewStatus(r, sn))
            /\ e # EventRow(r, sn, "state", sn.status, "STORE_SIGNED")
        BY <3>1, <3>2
      <3>4. r.kind = "SIGN"
        BY <3>2, <3>3 DEF NewEvents
      <3>5. ~sn.unfinished
        BY <3>2, <3>3, <3>4 DEF NewEvents
      <3>6. x = t
        BY <3>1, <3>2, <3>4 DEF NewEvents
      <3> QED
        BY <1>14, <3>4, <3>5, <3>6
    <2> QED
      BY <1>5, <2>1, <2>2, <2>3
  <1>16. ReceiptAfterDelivery'
    <2> SUFFICES ASSUME NEW x \in Tasks, NEW s \in Stops[x]
                 PROVE  /\ stop'[x][s] = "SIGNED" => SignedNext(x, s)
                        /\ SignedNext(x, s) => stop'[x][s] # "PLANNED"
      BY DEF ReceiptAfterDelivery, Signed
    <2>1. /\ stop[x][s] = "SIGNED" => Signed(x, s)
          /\ Signed(x, s) => stop[x][s] # "PLANNED"
      BY DEF Inv, ReceiptAfterDelivery
    <2>2. stop'[x][s] = "SIGNED" => SignedNext(x, s)
      <3>1. CASE stop[x][s] = "SIGNED"
        BY <1>6, <2>1, <3>1
      <3>2. CASE stop[x][s] # "SIGNED" /\ stop'[x][s] = "SIGNED"
        <4>1. x = t /\ s = sn.target /\ NewStop(r) = "SIGNED"
          BY <1>1, <1>2, <1>4, <3>2, StopsType DEF Written
        <4>2. r.kind = "SIGN"
          BY <4>1 DEF NewStop
        <4>3. s = r.store
          BY <1>1, <4>1, <4>2, StopsType, RouteAssumption DEF Shape
        <4> QED
          BY <1>7, <4>1, <4>2, <4>3
      <3> QED
        BY <3>1, <3>2
    <2>3. SignedNext(x, s) => stop'[x][s] # "PLANNED"
      <3>1. CASE Signed(x, s)
        BY <1>10, <2>1, <3>1 DEF OnlyForward
      <3>2. CASE r.kind = "SIGN" /\ x = t /\ s = r.store
        <4>1. s = sn.target
          BY <1>1, <3>2 DEF Shape
        <4> QED
          BY <1>11, <3>2, <4>1, StopsType, RouteAssumption
      <3> QED
        BY <1>8, <3>1, <3>2
    <2> QED
      BY <2>2, <2>3
  <1> QED
    BY <1>12, <1>13, <1>15, <1>16 DEF Inv
(* The invariant holds initially and every step preserves it.              *)
LEMMA InvInit == Init => Inv
  <1> SUFFICES ASSUME Init PROVE Inv
    OBVIOUS
  <1>1. TypeOK
    BY RouteAssumption, EmptySnapshotType DEF Init, TypeOK, TaskStatus, StopStatus
  <1>2. ReadsStillHold
    BY DEF Init, ReadsStillHold
  <1>3. CompletedFullySigned /\ ArrivedEverywhere
    BY DEF Init, CompletedFullySigned, ArrivedEverywhere, Arrived
  <1>4. ReceiptAfterDelivery
    BY StopsType DEF Init, ReceiptAfterDelivery, Signed
  <1> QED
    BY <1>1, <1>2, <1>3, <1>4 DEF Inv

(* Every statement of every transaction keeps the invariant.               *)
LEMMA InvStep ==
    ASSUME Inv, [Next]_vars
    PROVE  Inv'
  <1>0. TypeOK'
    BY TypeStep DEF Inv
  <1>1. ASSUME NEW th \in Threads, NEW t \in Tasks, NEW k \in Keys, OpenPublish(th, t, k)
        PROVE  Inv'
    BY <1>1, TaskRequestType, BeginInv DEF Inv, OpenPublish
  <1>2. ASSUME NEW th \in Threads, NEW t \in Tasks, NEW k \in Keys, OpenCancel(th, t, k)
        PROVE  Inv'
    BY <1>2, TaskRequestType, BeginInv DEF Inv, OpenCancel
  <1>3. ASSUME NEW th \in Threads, NEW t \in Tasks, NEW k \in Keys,
               NEW a \in {"ACCEPT", "PICKUP", "START_TRANSIT"}, OpenTransition(th, t, a, k)
        PROVE  Inv'
    BY <1>3, TaskRequestType, BeginInv DEF Inv, OpenTransition
  <1>4. ASSUME NEW th \in Threads, NEW t \in Tasks, NEW k \in Keys,
               NEW s \in Stores \cup {NoStore}, OpenDeliver(th, t, s, k)
        PROVE  Inv'
    BY <1>4, TaskRequestType, BeginInv DEF Inv, OpenDeliver
  <1>5. ASSUME NEW th \in Threads, NEW t \in Tasks, NEW k \in Keys,
               NEW s \in Stores, NEW v \in Verdict, NEW lines \in [Products -> 0..MaxLoad],
               OpenSign(th, t, s, v, lines, k)
        PROVE  Inv'
    <2> DEFINE r == [kind |-> "SIGN", task |-> t, store |-> s, verdict |-> v,
                     lines |-> lines, key |-> k, version |-> version[t]]
    <2>1. lines \in [Products -> Nat]
      BY RouteAssumption
    <2>2. r \in Request /\ r.kind = "SIGN" /\ r.task = t /\ r.store = s
      BY <2>1 DEF Inv, TypeOK, Request, SignRequest
    <2>3. /\ Begin(th, r, "loaded")
          /\ s \in Stops[t] /\ status[t] \in {"DELIVERED", "STORE_SIGNED"}
      BY <1>5 DEF OpenSign
    <2> QED
      BY <2>2, <2>3, BeginInv
  <1>6. ASSUME NEW th \in Threads,
               ReadStops(th) \/ ReadStop(th) \/ ReadStock(th) \/ Commit(th) \/ Rollback(th)
        PROVE  Inv'
    BY <1>0, <1>6, ReadStopsInv, ReadStopInv, ReadStockInv, CommitInv, RollbackInv
  <1>7. ASSUME UNCHANGED <<status, stop, receipts, events, pc, req, seen>>
        PROVE  Inv'
    <2>1. OnlyForward
      BY <1>7 DEF OnlyForward
    <2>2. ReadsStillHold'
      BY <1>7, <2>1, OthersReadsHold DEF Inv, ReadsStillHold
    <2> QED
      BY <1>0, <1>7, <2>2, RowsUnchanged DEF Inv
  <1>8. ASSUME NEW t \in Tasks, ExpireQr(t)
        PROVE  Inv'
    BY <1>7, <1>8 DEF ExpireQr
  <1>9. CASE UNCHANGED vars
    BY <1>7, <1>9 DEF vars, rows
  <1> QED
    BY <1>1, <1>2, <1>3, <1>4, <1>5, <1>6, <1>8, <1>9 DEF Next

(* So it holds in every reachable state.                                   *)
LEMMA InvHolds == Spec => []Inv
  <1> QED
    BY InvInit, InvStep, PTL DEF Spec

(* Whatever requests overlap, COMPLETED and AUTO_COMPLETE mean that every  *)
(* store of the route has its receipt.                                     *)
THEOREM CompletionIsSafe == Spec => []CompletedFullySigned
  <1>1. Inv => CompletedFullySigned
    BY DEF Inv
  <1> QED
    BY <1>1, InvHolds, PTL

(* DELIVERED, STORE_SIGNED and COMPLETED mean that every stop was scanned. *)
THEOREM ArrivalIsSafe == Spec => []ArrivedEverywhere
  <1>1. Inv => ArrivedEverywhere
    BY DEF Inv
  <1> QED
    BY <1>1, InvHolds, PTL

(* A SIGNED stop has a receipt, and a receipt is of a delivered stop.      *)
THEOREM ReceiptsAreSound == Spec => []ReceiptAfterDelivery
  <1>1. Inv => ReceiptAfterDelivery
    BY DEF Inv
  <1> QED
    BY <1>1, InvHolds, PTL

(* No transaction commits on a conclusion that has become false.           *)
THEOREM ReadsAreStable == Spec => []ReadsStillHold
  <1>1. Inv => ReadsStillHold
    BY DEF Inv
  <1> QED
    BY <1>1, InvHolds, PTL
----------------------------------------------------------------------------
(* A complete row a commit adds is of a signature of the last stop, so the *)
(* task had no such row: the receipt would be a second one of its stop.    *)
LEMMA CompleteRowIsFirst ==
    ASSUME Inv, NEW th \in Threads, Commit(th),
           NEW e \in NewEvents(req[th], seen[th]), e.tag = "complete"
    PROVE  /\ e = EventRow(req[th], seen[th], "complete", "STORE_SIGNED", "COMPLETED")
           /\ \A f \in events : f.task = e.task => f.tag # "complete"
  <1> DEFINE r == req[th]
             sn == seen[th]
             d == [task |-> r.task, store |-> r.store, verdict |-> r.verdict,
                   lines |-> r.lines, key |-> r.key]
  <1>1. \A tag, from, to :
            /\ EventRow(r, sn, tag, from, to).task = r.task
            /\ EventRow(r, sn, tag, from, to).tag = tag
    BY DEF EventRow, NextVersion
  <1>2. /\ e # EventRow(r, sn, "action", sn.status, NewStatus(r, sn))
        /\ e # EventRow(r, sn, "state", sn.status, "STORE_SIGNED")
    BY <1>1
  <1>3. r.kind = "SIGN"
    BY <1>2 DEF NewEvents
  <1>4. e = EventRow(r, sn, "complete", "STORE_SIGNED", "COMPLETED")
    BY <1>2, <1>3 DEF NewEvents
  <1>5. d \in NewReceipts(r) /\ d.task = r.task /\ d.store = r.store
    BY <1>3 DEF NewReceipts
  <1>6. ~Signed(r.task, r.store)
    BY <1>5 DEF Commit, NoDuplicate, Signed
  <1>7. r.task \in Tasks /\ r.store \in Stops[r.task]
    BY <1>3, RequestTask DEF Inv, TypeOK, ReadsStillHold, Shape, Commit
  <1>8. \A f \in events : f.task = r.task => f.tag # "complete"
    BY <1>6, <1>7 DEF Inv, CompletedFullySigned
  <1> QED
    BY <1>1, <1>4, <1>8

(* AUTO_COMPLETE is recorded at most once per task.                        *)
THEOREM CompletionIsUnique == Spec => []CompletedOnce
  <1>1. Init => CompletedOnce
    BY DEF Init, CompletedOnce
  <1>2. Inv /\ CompletedOnce /\ [Next]_vars => CompletedOnce'
    <2> SUFFICES ASSUME Inv, CompletedOnce, [Next]_vars
                 PROVE  CompletedOnce'
      OBVIOUS
    <2>1. CASE UNCHANGED events
      BY <2>1 DEF CompletedOnce
    <2>2. ASSUME NEW th \in Threads, Commit(th)
          PROVE  CompletedOnce'
      <3> SUFFICES ASSUME NEW e \in events', NEW f \in events', e.task = f.task,
                          e.tag = "complete", f.tag = "complete"
                   PROVE  e = f
        BY DEF CompletedOnce
      <3>1. events' = events \cup NewEvents(req[th], seen[th])
        BY <2>2 DEF Commit
      <3>2. CASE e \in events /\ f \in events
        BY <3>2 DEF CompletedOnce
      <3>3. CASE e \in NewEvents(req[th], seen[th])
        BY <2>2, <3>1, <3>3, CompleteRowIsFirst
      <3>4. CASE f \in NewEvents(req[th], seen[th])
        BY <2>2, <3>1, <3>4, CompleteRowIsFirst
      <3> QED
        BY <3>1, <3>2, <3>3, <3>4
    <2>3. ASSUME NEW th \in Threads, NEW t \in Tasks, NEW k \in Keys,
                 \/ OpenPublish(th, t, k) \/ OpenCancel(th, t, k)
                 \/ \E a \in {"ACCEPT", "PICKUP", "START_TRANSIT"} : OpenTransition(th, t, a, k)
                 \/ \E s \in Stores \cup {NoStore} : OpenDeliver(th, t, s, k)
                 \/ \E s \in Stores, v \in Verdict :
                        \E lines \in [Products -> 0..MaxLoad] : OpenSign(th, t, s, v, lines, k)
          PROVE  UNCHANGED events
      BY <2>3 DEF OpenPublish, OpenCancel, OpenTransition, OpenDeliver, OpenSign, Begin, rows
    <2>4. ASSUME NEW th \in Threads,
                 ReadStops(th) \/ ReadStop(th) \/ ReadStock(th) \/ Rollback(th)
          PROVE  UNCHANGED events
      BY <2>4 DEF ReadStops, ReadStop, ReadStock, Rollback, rows
    <2>5. ASSUME NEW t \in Tasks, ExpireQr(t)
          PROVE  UNCHANGED events
      BY <2>5 DEF ExpireQr
    <2>6. CASE UNCHANGED vars
      BY <2>1, <2>6 DEF vars, rows
    <2> QED
      BY <2>1, <2>2, <2>3, <2>4, <2>5, <2>6 DEF Next
  <1> QED
    BY <1>1, <1>2, InvHolds, PTL DEF Spec
----------------------------------------------------------------------------
(* The steps, as the later proofs see them: a transaction opens for a      *)
(* request that suits the status of its task, reads, commits, or ends; or  *)
(* at most a QR token expires.                                             *)

(* A request of this kind is accepted for a task in status st.             *)
Suits(kind, st) ==
    CASE kind = "PUBLISH"       -> st = "CONFIRMED"
      [] kind = "CANCEL"        -> st \in {"CONFIRMED", "PUBLISHED", "DRIVER_ACCEPTED"}
      [] kind = "ACCEPT"        -> st = "PUBLISHED"
      [] kind = "PICKUP"        -> st = "DRIVER_ACCEPTED"
      [] kind = "START_TRANSIT" -> st = "PICKED_UP"
      [] kind = "DELIVER"       -> st \in {"IN_TRANSIT", "DELIVERED"}
      [] kind = "SIGN"          -> st \in {"DELIVERED", "STORE_SIGNED"}

(* The transaction of request r opens on thread th.                        *)
Opened(th, r) ==
    /\ pc[th] = "idle"
    /\ Suits(r.kind, status[r.task])
    /\ Begin(th, r, IF r.kind \in {"DELIVER", "SIGN"} THEN "loaded" ELSE "ready")

(* Every step is one of these.                                             *)
LEMMA StepCases ==
    ASSUME TypeOK, [Next]_vars
    PROVE  \/ \E th \in Threads, r \in Request : Opened(th, r)
           \/ \E th \in Threads :
                ReadStops(th) \/ ReadStop(th) \/ ReadStock(th) \/ Commit(th) \/ Rollback(th)
           \/ UNCHANGED <<status, version, stop, receipts, balance, events, pc, req, seen>>
  <1>1. ASSUME NEW th \in Threads, NEW t \in Tasks, NEW k \in Keys,
               OpenPublish(th, t, k) \/ OpenCancel(th, t, k)
        PROVE  \E r \in Request : Opened(th, r)
    <2>1. CASE OpenPublish(th, t, k)
      <3> DEFINE r == TaskRequest("PUBLISH", t, NoStore, k)
      <3>1. r \in Request /\ r.kind = "PUBLISH" /\ r.task = t
        BY TaskRequestType DEF TaskRequest
      <3> QED
        BY <2>1, <3>1 DEF OpenPublish, Opened, Suits
    <2>2. CASE OpenCancel(th, t, k)
      <3> DEFINE r == TaskRequest("CANCEL", t, NoStore, k)
      <3>1. r \in Request /\ r.kind = "CANCEL" /\ r.task = t
        BY TaskRequestType DEF TaskRequest
      <3> QED
        BY <2>2, <3>1 DEF OpenCancel, Opened, Suits
    <2> QED
      BY <1>1, <2>1, <2>2
  <1>2. ASSUME NEW th \in Threads, NEW t \in Tasks, NEW k \in Keys,
               NEW a \in {"ACCEPT", "PICKUP", "START_TRANSIT"}, OpenTransition(th, t, a, k)
        PROVE  \E r \in Request : Opened(th, r)
    <2> DEFINE r == TaskRequest(a, t, NoStore, k)
    <2>1. r \in Request /\ r.kind = a /\ r.task = t
      BY TaskRequestType DEF TaskRequest
    <2>2. Suits(a, status[t])
      BY <1>2 DEF OpenTransition, ACTION_TRANSITIONS, Suits
    <2> QED
      BY <1>2, <2>1, <2>2 DEF OpenTransition, Opened
  <1>3. ASSUME NEW th \in Threads, NEW t \in Tasks, NEW k \in Keys,
               NEW s \in Stores \cup {NoStore}, OpenDeliver(th, t, s, k)
        PROVE  \E r \in Request : Opened(th, r)
    <2> DEFINE r == TaskRequest("DELIVER", t, s, k)
    <2>1. r \in Request /\ r.kind = "DELIVER" /\ r.task = t
      BY TaskRequestType DEF TaskRequest
    <2> QED
      BY <1>3, <2>1 DEF OpenDeliver, Opened, Suits
  <1>4. ASSUME NEW th \in Threads, NEW t \in Tasks, NEW k \in Keys,
               NEW s \in Stores, NEW v \in Verdict, NEW lines \in [Products -> 0..MaxLoad],
               OpenSign(th, t, s, v, lines, k)
        PROVE  \E r \in Request : Opened(th, r)
    <2> DEFINE r == [kind |-> "SIGN", task |-> t, store |-> s, verdict |-> v,
                     lines |-> lines, key |-> k, version |-> version[t]]
    <2>1. lines \in [Products -> Nat]
      BY RouteAssumption
    <2>2. r \in Request /\ r.kind = "SIGN" /\ r.task = t
      BY <2>1 DEF TypeOK, Request, SignRequest
    <2> QED
      BY <1>4, <2>2 DEF OpenSign, Opened, Suits
  <1>5. ASSUME NEW t \in Tasks, ExpireQr(t)
        PROVE  UNCHANGED <<status, version, stop, receipts, balance, events, pc, req, seen>>
    BY <1>5 DEF ExpireQr
  <1>6. CASE UNCHANGED vars
    BY <1>6 DEF vars, rows
  <1> QED
    BY <1>1, <1>2, <1>3, <1>4, <1>5, <1>6 DEF Next

----------------------------------------------------------------------------
(* The history.  It has no gap because every status a task has, and every  *)
(* status a transaction has read of it, however old, was reached by an     *)
(* event; and because the keys make the rows of a commit new ones.         *)

Reached(t, st) == st = "CONFIRMED" \/ \E e \in events : e.task = t /\ e.to = st

HistoryInv ==
    /\ TypeOK
    /\ \A t \in Tasks : Reached(t, status[t])
    /\ \A th \in Threads : pc[th] # "idle" => Reached(req[th].task, seen[th].status)
    /\ NoGapInHistory

(* The rows a commit adds: what they start from and where they lead.       *)
LEMMA CommitEvents ==
    ASSUME NEW th \in Threads, Commit(th)
    PROVE  LET r == req[th]
               sn == seen[th]
           IN  /\ \A e \in NewEvents(r, sn) :
                    /\ e \notin events /\ e.task = r.task
                    /\ \/ e.from = sn.status
                       \/ \E f \in NewEvents(r, sn) : f # e /\ f.to = e.from
               /\ \E e \in NewEvents(r, sn) : e.to = NewStatus(r, sn)
  <1> DEFINE r == req[th]
             sn == seen[th]
             action == EventRow(r, sn, "action", sn.status, NewStatus(r, sn))
             state == EventRow(r, sn, "state", sn.status, "STORE_SIGNED")
             complete == EventRow(r, sn, "complete", "STORE_SIGNED", "COMPLETED")
  <1>1. \A tag, from, to :
            LET e == EventRow(r, sn, tag, from, to)
            IN  e.task = r.task /\ e.key = r.key /\ e.tag = tag /\ e.from = from /\ e.to = to
    BY DEF EventRow
  <1>2. \A e \in NewEvents(r, sn) : e.task = r.task /\ e.key = r.key
    BY <1>1 DEF NewEvents
  <1>3. \A e \in NewEvents(r, sn) : e \notin events
    BY <1>2 DEF Commit, NoDuplicate
  <1>4. CASE r.kind # "SIGN"
    <2>1. NewEvents(r, sn) = {action}
      BY <1>4 DEF NewEvents
    <2> QED
      BY <1>1, <1>2, <1>3, <2>1
  <1>5. CASE r.kind = "SIGN" /\ sn.unfinished
    <2>1. NewEvents(r, sn) = {state} /\ NewStatus(r, sn) = "STORE_SIGNED"
      BY <1>5 DEF NewEvents, NewStatus
    <2> QED
      BY <1>1, <1>2, <1>3, <2>1
  <1>6. CASE r.kind = "SIGN" /\ ~sn.unfinished
    <2>1. NewEvents(r, sn) = {state, complete} /\ NewStatus(r, sn) = "COMPLETED"
      BY <1>6 DEF NewEvents, NewStatus
    <2>2. state # complete /\ state.to = complete.from
      BY <1>1
    <2> QED
      BY <1>1, <1>2, <1>3, <2>1, <2>2
  <1> QED
    BY <1>4, <1>5, <1>6

(* Every step keeps the history whole.                                     *)
LEMMA HistoryStep ==
    ASSUME HistoryInv, [Next]_vars
    PROVE  HistoryInv'
  <1>1. TypeOK'
    BY TypeStep DEF HistoryInv
  <1>2. ASSUME UNCHANGED events
        PROVE  /\ NoGapInHistory'
               /\ \A t, st : Reached(t, st) => Reached(t, st)'
    BY <1>2 DEF HistoryInv, NoGapInHistory, Reached
  <1>3. ASSUME NEW th \in Threads, NEW r \in Request, Opened(th, r)
        PROVE  HistoryInv'
    <2>1. UNCHANGED <<status, events>> /\ r.task \in Tasks
      BY <1>3, RequestTask DEF Opened, Begin, rows
    <2>2. ASSUME NEW u \in Threads, pc'[u] # "idle"
          PROVE  Reached(req[u].task, seen[u].status)'
      <3>1. CASE u = th
        <4>1. req'[u] = r /\ seen'[u].status = status[r.task]
          BY <1>3, <3>1 DEF HistoryInv, TypeOK, Opened, Begin, TaskRow
        <4>2. Reached(r.task, status[r.task])
          BY <2>1 DEF HistoryInv
        <4>3. Reached(r.task, status[r.task])'
          BY <2>1, <4>2 DEF Reached
        <4> QED
          BY <2>1, <4>1, <4>3 DEF Reached
      <3>2. CASE u # th
        <4>1. pc'[u] = pc[u] /\ req'[u] = req[u] /\ seen'[u] = seen[u]
          BY <1>3, <3>2 DEF HistoryInv, TypeOK, Opened, Begin
        <4>2. Reached(req[u].task, seen[u].status)
          BY <2>2, <4>1 DEF HistoryInv
        <4> QED
          BY <2>1, <4>1, <4>2 DEF Reached
      <3> QED
        BY <3>1, <3>2
    <2> QED
      BY <1>1, <1>2, <2>1, <2>2 DEF HistoryInv
  <1>4. ASSUME NEW th \in Threads, ReadStops(th) \/ ReadStop(th) \/ ReadStock(th)
        PROVE  HistoryInv'
    <2>1. UNCHANGED <<status, events, req>>
      BY <1>4 DEF ReadStops, ReadStop, ReadStock, rows
    <2>2. pc[th] # "idle" /\ \A u \in Threads : pc'[u] # "idle" => pc[u] # "idle"
      BY <1>4 DEF HistoryInv, TypeOK, ReadStops, ReadStop, ReadStock
    <2>3. \A u \in Threads : seen'[u].status = seen[u].status
      BY <1>4 DEF HistoryInv, TypeOK, ReadStops, ReadStop, ReadStock, WithStop, WithStock
    <2> QED
      BY <1>1, <1>2, <2>1, <2>2, <2>3 DEF HistoryInv
  <1>5. ASSUME NEW th \in Threads, Rollback(th)
        PROVE  HistoryInv'
    <2>1. UNCHANGED <<status, events>>
      BY <1>5 DEF Rollback, rows
    <2>2. \A u \in Threads : pc'[u] # "idle" =>
                pc'[u] = pc[u] /\ req'[u] = req[u] /\ seen'[u] = seen[u]
      BY <1>5 DEF Rollback, End, HistoryInv, TypeOK
    <2> QED
      BY <1>1, <1>2, <2>1, <2>2 DEF HistoryInv
  <1>6. ASSUME NEW th \in Threads, Commit(th)
        PROVE  HistoryInv'
    <2> DEFINE r == req[th]
               t == req[th].task
               sn == seen[th]
    <2>1. r \in Request /\ t \in Tasks /\ Reached(t, sn.status)
      BY <1>6, RequestTask DEF HistoryInv, TypeOK, Commit
    <2>2. /\ events' = events \cup NewEvents(r, sn)
          /\ status' = [status EXCEPT ![t] = Written(@, sn.status, NewStatus(r, sn))]
      BY <1>6 DEF Commit
    <2>3. \A x, st : Reached(x, st) => Reached(x, st)'
      BY <2>2 DEF Reached
    <2>4. \E f \in events' : f.task = t /\ f.to = NewStatus(r, sn)
      BY <1>6, <2>2, CommitEvents
    <2>5. ASSUME NEW x \in Tasks
          PROVE  Reached(x, status[x])'
      <3>1. CASE x = t /\ status'[x] = NewStatus(r, sn)
        BY <2>4, <3>1 DEF Reached
      <3>2. CASE status'[x] = status[x]
        BY <2>3, <3>2 DEF HistoryInv, Reached
      <3>3. \/ status'[x] = status[x]
            \/ x = t /\ status'[x] = NewStatus(r, sn)
        <4>1. status \in [Tasks -> TaskStatus]
          BY DEF HistoryInv, TypeOK
        <4>2. x # t => status'[x] = status[x]
          BY <2>2, <4>1
        <4>3. status'[t] = Written(status[t], sn.status, NewStatus(r, sn))
          BY <2>1, <2>2, <4>1
        <4> QED
          BY <4>2, <4>3 DEF Written
      <3> QED
        BY <3>1, <3>2, <3>3
    <2>6. \A u \in Threads : pc'[u] # "idle" => Reached(req[u].task, seen[u].status)'
      <3>1. \A u \in Threads : pc'[u] # "idle" =>
                pc'[u] = pc[u] /\ req'[u] = req[u] /\ seen'[u] = seen[u]
        BY <1>6 DEF Commit, End, HistoryInv, TypeOK
      <3> QED
        BY <2>3, <3>1 DEF HistoryInv
    <2>7. NoGapInHistory'
      <3> SUFFICES ASSUME NEW e \in events', e.from # "CONFIRMED"
                   PROVE  \E f \in events' \ {e} : f.task = e.task /\ f.to = e.from
        BY DEF NoGapInHistory
      <3>1. CASE e \in events
        BY <2>2, <3>1 DEF HistoryInv, NoGapInHistory
      <3>2. CASE e \in NewEvents(r, sn)
        <4>1. /\ e \notin events /\ e.task = t
              /\ \/ e.from = sn.status
                 \/ \E f \in NewEvents(r, sn) : f # e /\ f.to = e.from /\ f.task = t
          BY <1>6, <3>2, CommitEvents
        <4>2. CASE e.from = sn.status
          BY <2>1, <2>2, <4>1, <4>2 DEF Reached
        <4> QED
          BY <2>2, <4>1, <4>2
      <3> QED
        BY <2>2, <3>1, <3>2
    <2> QED
      BY <1>1, <2>5, <2>6, <2>7 DEF HistoryInv
  <1>7. CASE UNCHANGED <<status, version, stop, receipts, balance, events, pc, req, seen>>
    BY <1>1, <1>2, <1>7 DEF HistoryInv
  <1>8. TypeOK
    BY DEF HistoryInv
  <1> QED
    BY <1>3, <1>4, <1>5, <1>6, <1>7, <1>8, StepCases

(* The history of a task has no gap, whatever requests overlap: a status   *)
(* an event starts from is one that another event reached.                 *)
THEOREM HistoryIsComplete == Spec => []NoGapInHistory
  <1>1. Init => HistoryInv
    <2>1. Init => TypeOK
      BY RouteAssumption, EmptySnapshotType DEF Init, TypeOK, TaskStatus, StopStatus
    <2> QED
      BY <2>1 DEF Init, HistoryInv, NoGapInHistory, Reached
  <1>2. HistoryInv /\ [Next]_vars => HistoryInv'
    BY HistoryStep
  <1>3. HistoryInv => NoGapInHistory
    BY DEF HistoryInv
  <1> QED
    BY <1>1, <1>2, <1>3, PTL DEF Spec

----------------------------------------------------------------------------
(* The ledger: sums over finite sets.                                      *)

(* A set of subsets of a finite set has a smallest member.                 *)
LEMMA Smallest ==
    ASSUME NEW S, IsFiniteSet(S), NEW Z, Z \subseteq SUBSET S, Z # {}
    PROVE  \E U \in Z : \A V \in Z : V \subseteq U => V = U
  <1>1. IsWellFoundedOn(StrictSubsetOrdering(S), SUBSET S)
    BY FS_FiniteSubsetsOfFinite, FS_StrictSubsetOrderingWellFounded
  <1>2. \E U \in Z : \A V \in Z : <<V, U>> \notin StrictSubsetOrdering(S)
    BY <1>1, WFMin
  <1> QED
    BY <1>2 DEF StrictSubsetOrdering

(* The sum takes the members of a set out in some order.                   *)
First(s) == CHOOSE c \in s : TRUE
Rest(s) == s \ {First(s)}

(* g is the function the sum over S is computed with.                      *)
IsSum(S, p, g) ==
    g = [s \in SUBSET S |-> IF s = {} THEN 0 ELSE First(s).lines[p] + g[Rest(s)]]

TotalOf(S, p) == (CHOOSE g : IsSum(S, p, g))[S]

(* What is taken out first is a member.                                    *)
LEMMA FirstIn == \A s : s # {} => First(s) \in s
  BY DEF First

(* The recurrence of the sum.                                              *)
LEMMA IsSumAt ==
    ASSUME NEW S, NEW p, NEW g, IsSum(S, p, g), NEW s \in SUBSET S
    PROVE  g[s] = IF s = {} THEN 0 ELSE First(s).lines[p] + g[Rest(s)]
  BY DEF IsSum

(* Two such functions agree where both are defined.                        *)
LEMMA SumsAgree ==
    ASSUME NEW S, NEW R, IsFiniteSet(S), NEW p, NEW g, NEW h,
           IsSum(S, p, g), IsSum(R, p, h)
    PROVE  \A s \in SUBSET S : s \subseteq R => g[s] = h[s]
  <1> DEFINE Bad == {s \in SUBSET S : s \subseteq R /\ g[s] # h[s]}
  <1> SUFFICES ASSUME Bad # {} PROVE FALSE
    OBVIOUS
  <1>1. Bad \subseteq SUBSET S
    OBVIOUS
  <1> HIDE DEF Bad
  <1>2. PICK U \in Bad : \A V \in Bad : V \subseteq U => V = U
    BY <1>1, Smallest
  <1>3. U \subseteq S /\ U \subseteq R /\ g[U] # h[U]
    BY <1>2 DEF Bad
  <1>4. U # {}
    BY <1>3, IsSumAt
  <1>5. Rest(U) \subseteq U /\ Rest(U) # U
    BY <1>4, FirstIn DEF Rest
  <1>6. g[Rest(U)] = h[Rest(U)]
    BY <1>2, <1>3, <1>5 DEF Bad
  <1> QED
    BY <1>3, <1>4, <1>6, IsSumAt

(* The recurrence has a solution over every finite set.                    *)
LEMMA SumExists ==
    ASSUME NEW S, IsFiniteSet(S), NEW p
    PROVE  \E g : IsSum(S, p, g)
  <1> DEFINE Bad == {U \in SUBSET S : ~ \E g : IsSum(U, p, g)}
  <1> SUFFICES ASSUME Bad # {} PROVE FALSE
    OBVIOUS
  <1>0. Bad \subseteq SUBSET S
    OBVIOUS
  <1>1. \A V \in SUBSET S : V \notin Bad => \E g : IsSum(V, p, g)
    OBVIOUS
  <1>2. \A U \in Bad : ~ \E g : IsSum(U, p, g)
    OBVIOUS
  <1> HIDE DEF Bad
  <1>3. PICK U \in Bad : \A V \in Bad : V \subseteq U => V = U
    BY <1>0, Smallest
  <1> DEFINE G(V) == CHOOSE g : IsSum(V, p, g)
  <1>4. \A V \in SUBSET U : V # U => IsSum(V, p, G(V))
    BY <1>0, <1>1, <1>3
  <1> HIDE DEF G
  <1> DEFINE h == [s \in SUBSET U |-> IF s = {} THEN 0
                                      ELSE First(s).lines[p] + G(Rest(s))[Rest(s)]]
  <1>5. ASSUME NEW s \in SUBSET U, s # {}
        PROVE  Rest(s) \in SUBSET U /\ Rest(s) # U
    BY <1>5, FirstIn DEF Rest
  <1>6. ASSUME NEW s \in SUBSET U, s # U
        PROVE  h[s] = G(s)[s]
    <2>1. IsSum(s, p, G(s))
      BY <1>4, <1>6
    <2>2. CASE s = {}
      BY <2>1, <2>2, IsSumAt
    <2>3. CASE s # {}
      <3>1. IsSum(Rest(s), p, G(Rest(s))) /\ IsFiniteSet(Rest(s)) /\ Rest(s) \subseteq s
        BY <1>0, <1>4, <1>5, <2>3, FS_Subset DEF Rest
      <3>2. G(s)[Rest(s)] = G(Rest(s))[Rest(s)]
        BY <2>1, <3>1, SumsAgree
      <3>3. G(s)[s] = First(s).lines[p] + G(s)[Rest(s)]
        BY <2>1, <2>3, IsSumAt
      <3> QED
        BY <2>3, <3>2, <3>3
    <2> QED
      BY <2>2, <2>3
  <1>7. \A s \in SUBSET U : h[s] = IF s = {} THEN 0 ELSE First(s).lines[p] + h[Rest(s)]
    BY <1>5, <1>6
  <1>8. IsSum(U, p, h)
    <2>1. h = [s \in SUBSET U |-> h[s]]
      OBVIOUS
    <2> HIDE DEF h
    <2> QED
      BY <1>7, <2>1 DEF IsSum
  <1> HIDE DEF h
  <1> QED
    BY <1>2, <1>3, <1>8

(* So the total follows the recurrence,                                    *)
LEMMA TotalRest ==
    ASSUME NEW S, IsFiniteSet(S), NEW p, S # {}
    PROVE  TotalOf(S, p) = First(S).lines[p] + TotalOf(Rest(S), p)
  <1> DEFINE G(V) == CHOOSE g : IsSum(V, p, g)
  <1>1. IsFiniteSet(Rest(S)) /\ Rest(S) \subseteq S
    BY FS_Subset DEF Rest
  <1>2. IsSum(S, p, G(S)) /\ IsSum(Rest(S), p, G(Rest(S)))
    BY <1>1, SumExists
  <1>3. TotalOf(S, p) = G(S)[S] /\ TotalOf(Rest(S), p) = G(Rest(S))[Rest(S)]
    BY DEF TotalOf
  <1> HIDE DEF G
  <1>4. G(S)[Rest(S)] = G(Rest(S))[Rest(S)]
    BY <1>1, <1>2, SumsAgree
  <1>5. G(S)[S] = First(S).lines[p] + G(S)[Rest(S)]
    BY <1>2, IsSumAt
  <1> QED
    BY <1>3, <1>4, <1>5

(* is zero for the empty set,                                              *)
LEMMA TotalNone == \A p : TotalOf({}, p) = 0
  <1> SUFFICES ASSUME NEW p PROVE TotalOf({}, p) = 0
    OBVIOUS
  <1>1. IsFiniteSet({})
    BY FS_EmptySet
  <1>2. IsSum({}, p, CHOOSE g : IsSum({}, p, g))
    BY <1>1, SumExists
  <1> QED
    BY <1>2, IsSumAt DEF TotalOf

(* and a natural number when the quantities are.                           *)
LEMMA TotalType ==
    ASSUME NEW S, IsFiniteSet(S), NEW p, \A c \in S : c.lines[p] \in Nat
    PROVE  TotalOf(S, p) \in Nat
  <1> DEFINE Bad == {U \in SUBSET S : TotalOf(U, p) \notin Nat}
  <1> SUFFICES ASSUME Bad # {} PROVE FALSE
    OBVIOUS
  <1>1. Bad \subseteq SUBSET S
    OBVIOUS
  <1>2. \A U \in SUBSET S : U \in Bad <=> TotalOf(U, p) \notin Nat
    OBVIOUS
  <1> HIDE DEF Bad
  <1>3. PICK U \in Bad : \A V \in Bad : V \subseteq U => V = U
    BY <1>1, Smallest
  <1>4. U # {} /\ U \subseteq S
    BY <1>1, <1>2, <1>3, TotalNone
  <1>5. Rest(U) \subseteq U /\ Rest(U) # U /\ First(U) \in S /\ IsFiniteSet(U)
    BY <1>4, FirstIn, FS_Subset DEF Rest
  <1>6. TotalOf(Rest(U), p) \in Nat
    BY <1>2, <1>3, <1>4, <1>5
  <1>7. First(U).lines[p] \in Nat
    BY <1>5
  <1>8. TotalOf(U, p) = First(U).lines[p] + TotalOf(Rest(U), p)
    BY <1>4, <1>5, TotalRest
  <1> QED
    BY <1>1, <1>2, <1>3, <1>6, <1>7, <1>8

(* Any element may be taken out first.                                     *)
LEMMA TotalWithout ==
    ASSUME NEW S, IsFiniteSet(S), NEW p, \A c \in S : c.lines[p] \in Nat, NEW x \in S
    PROVE  TotalOf(S, p) = x.lines[p] + TotalOf(S \ {x}, p)
  <1> DEFINE Bad == {U \in SUBSET S : \E y \in U :
                        TotalOf(U, p) # y.lines[p] + TotalOf(U \ {y}, p)}
  <1> SUFFICES ASSUME Bad # {} PROVE FALSE
    OBVIOUS
  <1>1. Bad \subseteq SUBSET S
    OBVIOUS
  <1>2. \A U \in SUBSET S : U \in Bad <=> \E y \in U :
                        TotalOf(U, p) # y.lines[p] + TotalOf(U \ {y}, p)
    OBVIOUS
  <1> HIDE DEF Bad
  <1>3. PICK U \in Bad : \A V \in Bad : V \subseteq U => V = U
    BY <1>1, Smallest
  <1>4. PICK y \in U : TotalOf(U, p) # y.lines[p] + TotalOf(U \ {y}, p)
    BY <1>1, <1>2, <1>3
  <1> DEFINE f == First(U)
  <1>5. f \in U /\ U \subseteq S /\ IsFiniteSet(U) /\ Rest(U) = U \ {f}
    BY <1>1, <1>3, <1>4, FirstIn, FS_Subset DEF Rest
  <1>6. TotalOf(U, p) = f.lines[p] + TotalOf(U \ {f}, p)
    BY <1>5, TotalRest
  <1> HIDE DEF f
  <1>7. f # y
    BY <1>4, <1>6
  <1>8. TotalOf(U \ {f}, p) = y.lines[p] + TotalOf((U \ {f}) \ {y}, p)
    <2>1. U \ {f} \in SUBSET S /\ U \ {f} \notin Bad /\ y \in U \ {f}
      BY <1>3, <1>4, <1>5, <1>7
    <2> QED
      BY <1>2, <2>1
  <1>9. TotalOf(U \ {y}, p) = f.lines[p] + TotalOf((U \ {y}) \ {f}, p)
    <2>1. U \ {y} \in SUBSET S /\ U \ {y} \notin Bad /\ f \in U \ {y}
      BY <1>3, <1>4, <1>5, <1>7
    <2> QED
      BY <1>2, <2>1
  <1>10. (U \ {f}) \ {y} = (U \ {y}) \ {f}
    OBVIOUS
  <1>11. f.lines[p] \in Nat /\ y.lines[p] \in Nat
    BY <1>4, <1>5
  <1>12. TotalOf((U \ {f}) \ {y}, p) \in Nat
    <2>1. (U \ {f}) \ {y} \subseteq S /\ IsFiniteSet((U \ {f}) \ {y})
      BY <1>5, FS_Subset
    <2> QED
      BY <2>1, TotalType
  <1>13. TotalOf(U \ {y}, p) = f.lines[p] + TotalOf((U \ {f}) \ {y}, p)
    BY <1>9, <1>10
  <1> QED
    BY <1>4, <1>6, <1>8, <1>11, <1>12, <1>13

(* What a store has received is such a sum.                                *)
LEMMA ReceivedTotal ==
    ASSUME NEW s, NEW p
    PROVE  /\ Received(s, p) = TotalOf({c \in receipts : c.store = s}, p)
           /\ Received(s, p)' = TotalOf({c \in receipts' : c.store = s}, p)
  BY DEF Received, MapThenSumSet, MapThenFoldSet, TotalOf, IsSum, First, Rest

----------------------------------------------------------------------------
(* What a commit books.                                                    *)

(* What a store has received is a number.                                  *)
LEMMA ReceivedType ==
    ASSUME TypeOK, IsFiniteSet(receipts)
    PROVE  \A s \in Stores, p \in Products : Received(s, p) \in Nat
  <1> SUFFICES ASSUME NEW s \in Stores, NEW p \in Products
               PROVE  Received(s, p) \in Nat
    OBVIOUS
  <1> DEFINE S == {c \in receipts : c.store = s}
  <1>1. IsFiniteSet(S) /\ \A c \in S : c.lines[p] \in Nat
    <2>1. S \subseteq receipts
      OBVIOUS
    <2>2. \A c \in receipts : c.lines[p] \in Nat
      BY DEF TypeOK, Receipt
    <2> QED
      BY <2>1, <2>2, FS_Subset
  <1>2. Received(s, p) = TotalOf(S, p)
    BY ReceivedTotal
  <1> HIDE DEF S
  <1> QED
    BY <1>1, <1>2, TotalType

(* A new receipt adds its lines to what its store has received.            *)
LEMMA ReceivedMore ==
    ASSUME TypeOK, IsFiniteSet(receipts), NEW d \in Receipt, d \notin receipts,
           receipts' = receipts \cup {d}, NEW s \in Stores, NEW p \in Products
    PROVE  Received(s, p)' = (IF d.store = s THEN d.lines[p] ELSE 0) + Received(s, p)
  <1> DEFINE S == {c \in receipts : c.store = s}
             T == {c \in receipts' : c.store = s}
  <1>1. IsFiniteSet(T) /\ \A c \in T : c.lines[p] \in Nat
    <2>1. IsFiniteSet(receipts') /\ T \subseteq receipts'
      BY FS_AddElement
    <2>2. \A c \in receipts' : c.lines[p] \in Nat
      BY DEF TypeOK, Receipt
    <2> QED
      BY <2>1, <2>2, FS_Subset
  <1>2. Received(s, p) = TotalOf(S, p) /\ Received(s, p)' = TotalOf(T, p)
    BY ReceivedTotal
  <1>3. d.store = s => d \in T /\ T \ {d} = S
    OBVIOUS
  <1>4. d.store # s => T = S
    OBVIOUS
  <1>5. Received(s, p) \in Nat
    BY ReceivedType
  <1> HIDE DEF S, T
  <1>6. CASE d.store = s
    <2>1. TotalOf(T, p) = d.lines[p] + TotalOf(T \ {d}, p)
      BY <1>1, <1>3, <1>6, TotalWithout
    <2> QED
      BY <1>2, <1>3, <1>6, <2>1
  <1>7. CASE d.store # s
    BY <1>2, <1>4, <1>5, <1>7
  <1> QED
    BY <1>6, <1>7

(* A signature books one new receipt, of its own store and lines; another  *)
(* request none.                                                           *)
LEMMA CommitBooks ==
    ASSUME TypeOK, IsFiniteSet(receipts), NEW th \in Threads, Commit(th)
    PROVE  /\ IsFiniteSet(receipts')
           /\ req[th] \in Request
           /\ req[th].kind # "SIGN" => UNCHANGED <<receipts, balance>>
           /\ req[th].kind = "SIGN" =>
                /\ req[th].store \in Stores /\ req[th].lines \in [Products -> Nat]
                /\ \A s \in Stores, p \in Products :
                        /\ Received(s, p)' = (IF req[th].store = s THEN req[th].lines[p] ELSE 0)
                                               + Received(s, p)
                        /\ balance'[s][p] = IF req[th].store = s
                                            THEN NewStock(req[th], seen[th])[p]
                                            ELSE balance[s][p]
  <1> DEFINE r == req[th]
             sn == seen[th]
  <1>1. r \in Request
    BY DEF TypeOK, Commit
  <1>2. CASE r.kind # "SIGN"
    <2>1. receipts' = receipts /\ balance' = balance
      BY <1>2 DEF Commit, NewReceipts
    <2> QED
      BY <1>1, <1>2, <2>1
  <1>3. CASE r.kind = "SIGN"
    <2> DEFINE d == [task |-> r.task, store |-> r.store, verdict |-> r.verdict,
                     lines |-> r.lines, key |-> r.key]
    <2>1. r \in SignRequest
      BY <1>1, <1>3 DEF Request, ActionRequest
    <2>2. d \in Receipt /\ d.store = r.store /\ d.lines = r.lines
      BY <2>1 DEF SignRequest, Receipt
    <2>3. NewReceipts(r) = {d}
      BY <1>3 DEF NewReceipts
    <2>4. d \notin receipts
      BY <2>3 DEF Commit, NoDuplicate
    <2>5. receipts' = receipts \cup {d}
      BY <2>3 DEF Commit
    <2>6. r.store \in Stores /\ r.lines \in [Products -> Nat]
      BY <2>1 DEF SignRequest
    <2> HIDE DEF d
    <2>7. IsFiniteSet(receipts')
      BY <2>5, FS_AddElement
    <2>8. \A s \in Stores, p \in Products :
            Received(s, p)' = (IF r.store = s THEN r.lines[p] ELSE 0) + Received(s, p)
      BY <2>2, <2>4, <2>5, ReceivedMore
    <2>9. \A s \in Stores : balance'[s] = IF r.store = s THEN NewStock(r, sn) ELSE balance[s]
      BY <1>3, <2>6 DEF Commit, TypeOK
    <2> QED
      BY <1>1, <1>3, <2>6, <2>7, <2>8, <2>9
  <1> QED
    BY <1>2, <1>3

----------------------------------------------------------------------------
(* Stock is never invented, by any number of threads: a signature books on *)
(* top of a balance it read, and what its store had received since then    *)
(* only grew.                                                              *)

(* The open signature has read a balance the bookings of its store cover.  *)
ReadCovered(th) ==
    \A s \in Stores, p \in Products :
        pc[th] = "ready" /\ req[th].kind = "SIGN" /\ req[th].store = s =>
            Quantity(seen[th].stock[p]) <= Quantity(Opening[s][p]) + Received(s, p)

LedgerInv ==
    /\ TypeOK
    /\ IsFiniteSet(receipts)
    /\ StockNeverInvented
    /\ \A th \in Threads : ReadCovered(th)

(* A balance that is missing counts as zero.                               *)
LEMMA QuantityType == \A q \in Nat \cup {NoRow} : Quantity(q) \in Nat /\ (q \in Nat => Quantity(q) = q)
  BY RouteAssumption DEF Quantity

(* The opening balances are as RouteAssumption types them.                 *)
LEMMA OpeningType == \A s \in Stores, p \in Products : Quantity(Opening[s][p]) \in Nat
  BY RouteAssumption, QuantityType

(* What the code computes is a number: it adds the line to what it read.   *)
LEMMA NewStockIs ==
    ASSUME TypeOK, NEW r \in Request, NEW sn \in Snapshot, r.store \in Stores,
           r.lines \in [Products -> Nat], NEW p \in Products
    PROVE  Quantity(NewStock(r, sn)[p]) =
                IF r.lines[p] = 0 THEN Quantity(balance[r.store][p])
                ELSE r.lines[p] + Quantity(sn.stock[p])
  <1>1. sn.stock[p] \in Nat \cup {NoRow} /\ r.lines[p] \in Nat
    BY DEF Snapshot
  <1>2. NewStock(r, sn)[p] = IF r.lines[p] = 0 THEN balance[r.store][p]
                             ELSE r.lines[p] + Quantity(sn.stock[p])
    <2>1. NewStock(r, sn)[p] = IF r.lines[p] = 0 THEN balance[r.store][p]
                  ELSE r.lines[p] + (IF sn.stock[p] = NoRow THEN 0 ELSE sn.stock[p])
      BY DEF NewStock
    <2>2. Quantity(sn.stock[p]) = IF sn.stock[p] = NoRow THEN 0 ELSE sn.stock[p]
      BY DEF Quantity
    <2> HIDE DEF NewStock
    <2> QED
      BY <1>1, <2>1, <2>2
  <1>3. Quantity(sn.stock[p]) \in Nat
    BY <1>1 DEF Quantity
  <1>4. \A q \in Nat : Quantity(q) = q
    BY QuantityType
  <1> QED
    BY <1>1, <1>2, <1>3, <1>4

(* What the other steps leave alone.                                       *)
LEMMA NothingBooked ==
    ASSUME UNCHANGED receipts
    PROVE  \A s, p : Received(s, p)' = Received(s, p)
  BY ReceivedTotal

(* A transaction that opens or ends is not about to book what it has read; *)
(* one that reads the balances has read the rows as they are.              *)
LEMMA ReadsOnly ==
    ASSUME TypeOK, NEW th \in Threads,
           \/ \E r \in Request : Opened(th, r)
           \/ ReadStops(th) \/ ReadStop(th) \/ ReadStock(th) \/ Rollback(th)
    PROVE  /\ UNCHANGED <<receipts, balance>>
           /\ \A u \in Threads : pc'[u] = "ready" /\ req'[u].kind = "SIGN" =>
                \/ pc[u] = "ready" /\ req'[u] = req[u] /\ seen'[u] = seen[u]
                \/ /\ req[u].kind = "SIGN" /\ req[u].store \in Stores
                   /\ req'[u] = req[u] /\ seen'[u].stock = balance[req[u].store]
  <1>1. ASSUME NEW r \in Request, Opened(th, r)
        PROVE  /\ UNCHANGED <<receipts, balance>>
               /\ \A u \in Threads : pc'[u] = "ready" /\ req'[u].kind = "SIGN" =>
                    pc[u] = "ready" /\ req'[u] = req[u] /\ seen'[u] = seen[u]
    <2>1. UNCHANGED <<receipts, balance>>
      BY <1>1 DEF Opened, Begin, rows
    <2>2. \A u \in Threads \ {th} : pc'[u] = pc[u] /\ req'[u] = req[u] /\ seen'[u] = seen[u]
      BY <1>1 DEF Opened, Begin, TypeOK
    <2>3. req'[th] = r /\ (r.kind = "SIGN" => pc'[th] # "ready")
      BY <1>1 DEF Opened, Begin, TypeOK
    <2> QED
      BY <2>1, <2>2, <2>3
  <1>2. CASE ReadStops(th)
    <2>1. UNCHANGED <<receipts, balance, req>> /\ req[th].kind # "SIGN"
      BY <1>2 DEF ReadStops, rows
    <2>2. \A u \in Threads \ {th} : pc'[u] = pc[u] /\ seen'[u] = seen[u]
      BY <1>2 DEF ReadStops, TypeOK
    <2> QED
      BY <2>1, <2>2
  <1>3. CASE ReadStop(th)
    <2>1. UNCHANGED <<receipts, balance, req>> /\ pc'[th] = "located"
      BY <1>3 DEF ReadStop, rows, TypeOK
    <2>2. \A u \in Threads \ {th} : pc'[u] = pc[u] /\ seen'[u] = seen[u]
      BY <1>3 DEF ReadStop, TypeOK
    <2> QED
      BY <2>1, <2>2
  <1>4. CASE ReadStock(th)
    <2>1. UNCHANGED <<receipts, balance, req>>
      BY <1>4 DEF ReadStock, rows
    <2>2. \A u \in Threads \ {th} : pc'[u] = pc[u] /\ seen'[u] = seen[u]
      BY <1>4 DEF ReadStock, TypeOK
    <2>3. req[th].kind = "SIGN" /\ req[th].store \in Stores
      BY <1>4 DEF ReadStock, TypeOK, SignRequest
    <2>4. seen'[th].stock = balance[req[th].store]
      BY <1>4 DEF ReadStock, WithStock, TypeOK
    <2> QED
      BY <2>1, <2>2, <2>3, <2>4
  <1>5. CASE Rollback(th)
    <2>1. UNCHANGED <<receipts, balance>> /\ pc'[th] = "idle"
      BY <1>5 DEF Rollback, End, rows, TypeOK
    <2>2. \A u \in Threads \ {th} : pc'[u] = pc[u] /\ req'[u] = req[u] /\ seen'[u] = seen[u]
      BY <1>5 DEF Rollback, End, TypeOK
    <2> QED
      BY <2>1, <2>2
  <1> QED
    BY <1>1, <1>2, <1>3, <1>4, <1>5

(* A commit ends its transaction and leaves the others' reads alone.       *)
LEMMA CommitEnds ==
    ASSUME TypeOK, NEW th \in Threads, Commit(th)
    PROVE  /\ pc[th] = "ready" /\ pc'[th] = "idle" /\ seen[th] \in Snapshot
           /\ \A u \in Threads : u # th =>
                pc'[u] = pc[u] /\ req'[u] = req[u] /\ seen'[u] = seen[u]
  BY DEF Commit, End, TypeOK

(* Every step keeps the ledger covered.                                    *)
LEMMA LedgerStep ==
    ASSUME LedgerInv, [Next]_vars
    PROVE  LedgerInv'
  <1>1. TypeOK /\ TypeOK' /\ IsFiniteSet(receipts)
    BY TypeStep DEF LedgerInv
  <1>2. ASSUME NEW th \in Threads,
               \/ \E r \in Request : Opened(th, r)
               \/ ReadStops(th) \/ ReadStop(th) \/ ReadStock(th) \/ Rollback(th)
        PROVE  LedgerInv'
    <2>1. UNCHANGED <<receipts, balance>>
      BY <1>1, <1>2, ReadsOnly
    <2>2. \A s, p : Received(s, p)' = Received(s, p)
      BY <2>1, NothingBooked
    <2>3. StockNeverInvented'
      BY <2>1, <2>2 DEF LedgerInv, StockNeverInvented
    <2>4. ASSUME NEW u \in Threads
          PROVE  ReadCovered(u)'
      <3> SUFFICES ASSUME NEW s \in Stores, NEW p \in Products,
                          pc'[u] = "ready", req'[u].kind = "SIGN", req'[u].store = s
                   PROVE  Quantity(seen'[u].stock[p])
                            <= Quantity(Opening[s][p]) + Received(s, p)'
        BY DEF ReadCovered
      <3>1. \/ pc[u] = "ready" /\ req'[u] = req[u] /\ seen'[u] = seen[u]
            \/ /\ req[u].kind = "SIGN" /\ req[u].store \in Stores
               /\ req'[u] = req[u] /\ seen'[u].stock = balance[req[u].store]
        BY <1>1, <1>2, ReadsOnly
      <3>2. req'[u] = req[u]
        BY <3>1
      <3>3. CASE pc[u] = "ready" /\ seen'[u] = seen[u]
        BY <2>2, <3>2, <3>3 DEF LedgerInv, ReadCovered
      <3>4. CASE seen'[u].stock = balance[s]
        BY <2>2, <3>4 DEF LedgerInv, StockNeverInvented
      <3> QED
        BY <3>1, <3>2, <3>3, <3>4
    <2> QED
      BY <1>1, <2>1, <2>3, <2>4 DEF LedgerInv
  <1>3. ASSUME NEW th \in Threads, Commit(th)
        PROVE  LedgerInv'
    <2>0. PICK r \in Request : r = req[th]
      BY <1>1, <1>3, CommitBooks
    <2>1. /\ IsFiniteSet(receipts')
          /\ r.kind # "SIGN" => UNCHANGED <<receipts, balance>>
          /\ r.kind = "SIGN" =>
                /\ r.store \in Stores /\ r.lines \in [Products -> Nat]
                /\ \A s \in Stores, p \in Products :
                    /\ Received(s, p)' = (IF r.store = s THEN r.lines[p] ELSE 0)
                                            + Received(s, p)
                    /\ balance'[s][p] = IF r.store = s THEN NewStock(r, seen[th])[p]
                                        ELSE balance[s][p]
      BY <1>1, <1>3, <2>0, CommitBooks
    <2>2. /\ pc[th] = "ready" /\ pc'[th] = "idle" /\ seen[th] \in Snapshot
          /\ \A u \in Threads : u # th =>
                pc'[u] = pc[u] /\ req'[u] = req[u] /\ seen'[u] = seen[u]
      BY <1>1, <1>3, CommitEnds
    <2>3. \A s \in Stores, p \in Products :
            /\ Received(s, p) \in Nat /\ Quantity(Opening[s][p]) \in Nat
            /\ Quantity(balance[s][p]) \in Nat
      BY <1>1, ReceivedType, OpeningType, QuantityType DEF TypeOK
    <2>4. ASSUME NEW s \in Stores, NEW p \in Products
          PROVE  Received(s, p)' \in Nat /\ Received(s, p)' >= Received(s, p)
      <3>1. CASE r.kind = "SIGN"
        BY <2>1, <2>3, <3>1
      <3>2. CASE r.kind # "SIGN"
        BY <2>1, <2>3, <3>2, NothingBooked
      <3> QED
        BY <3>1, <3>2
    <2>5. ASSUME NEW s \in Stores, NEW p \in Products
          PROVE  Quantity(balance'[s][p]) <= Quantity(Opening[s][p]) + Received(s, p)'
      <3>1. Quantity(balance[s][p]) <= Quantity(Opening[s][p]) + Received(s, p)
        BY DEF LedgerInv, StockNeverInvented
      <3>2. CASE balance'[s][p] = balance[s][p]
        BY <2>3, <2>4, <3>1, <3>2
      <3>3. CASE r.kind = "SIGN" /\ r.store = s
        <4>1. /\ r.lines[p] \in Nat /\ Received(s, p)' = r.lines[p] + Received(s, p)
              /\ balance'[s][p] = NewStock(r, seen[th])[p]
          BY <2>1, <3>3
        <4>2. Quantity(seen[th].stock[p]) <= Quantity(Opening[s][p]) + Received(s, p)
          BY <2>0, <2>2, <3>3 DEF LedgerInv, ReadCovered
        <4>3. Quantity(NewStock(r, seen[th])[p]) =
                IF r.lines[p] = 0 THEN Quantity(balance[s][p])
                ELSE r.lines[p] + Quantity(seen[th].stock[p])
          BY <1>1, <2>1, <2>2, <3>3, NewStockIs
        <4>4. Quantity(seen[th].stock[p]) \in Nat
          BY <2>2, QuantityType DEF Snapshot
        <4> QED
          BY <2>3, <3>1, <4>1, <4>2, <4>3, <4>4
      <3> QED
        BY <2>1, <3>2, <3>3
    <2>6. ASSUME NEW u \in Threads
          PROVE  ReadCovered(u)'
      <3> SUFFICES ASSUME NEW s \in Stores, NEW p \in Products,
                          pc'[u] = "ready", req'[u].kind = "SIGN", req'[u].store = s
                   PROVE  Quantity(seen'[u].stock[p])
                            <= Quantity(Opening[s][p]) + Received(s, p)'
        BY DEF ReadCovered
      <3>1. u # th /\ pc[u] = "ready" /\ req'[u] = req[u] /\ seen'[u] = seen[u]
        BY <2>2
      <3>2. Quantity(seen[u].stock[p]) <= Quantity(Opening[s][p]) + Received(s, p)
        BY <3>1 DEF LedgerInv, ReadCovered
      <3>3. Quantity(seen[u].stock[p]) \in Nat
        <4>1. seen[u].stock[p] \in Nat \cup {NoRow}
          BY <1>1 DEF TypeOK, Snapshot
        <4> QED
          BY <4>1 DEF Quantity
      <3> QED
        BY <2>3, <2>4, <3>1, <3>2, <3>3
    <2> QED
      BY <1>1, <2>1, <2>5, <2>6 DEF LedgerInv, StockNeverInvented
  <1>4. CASE UNCHANGED <<status, version, stop, receipts, balance, events, pc, req, seen>>
    <2>1. \A s, p : Received(s, p)' = Received(s, p)
      BY <1>4, NothingBooked
    <2>2. ASSUME NEW u \in Threads
          PROVE  ReadCovered(u)'
      BY <1>4, <2>1 DEF LedgerInv, ReadCovered
    <2> QED
      BY <1>1, <1>4, <2>1, <2>2 DEF LedgerInv, StockNeverInvented
  <1> QED
    BY <1>1, <1>2, <1>3, <1>4, StepCases

(* Nothing was received before the first request.                          *)
LEMMA LedgerInit ==
    ASSUME Init
    PROVE  /\ TypeOK /\ IsFiniteSet(receipts)
           /\ \A s \in Stores, p \in Products :
                /\ Received(s, p) = 0 /\ balance[s][p] = Opening[s][p]
                /\ Quantity(Opening[s][p]) \in Nat
  <1>1. TypeOK
    BY RouteAssumption, EmptySnapshotType DEF Init, TypeOK, TaskStatus, StopStatus
  <1>2. receipts = {} /\ balance = Opening
    BY DEF Init
  <1>3. \A s, p : Received(s, p) = TotalOf({}, p)
    <2>1. \A s : {c \in receipts : c.store = s} = {}
      BY <1>2
    <2> QED
      BY <2>1, ReceivedTotal
  <1> QED
    BY <1>1, <1>2, <1>3, TotalNone, OpeningType, FS_EmptySet

(* Overlapping signatures may lose stock but never invent it.              *)
THEOREM StockIsCovered == Spec => []StockNeverInvented
  <1>1. Init => LedgerInv
    <2>1. Init => StockNeverInvented
      BY LedgerInit DEF StockNeverInvented
    <2>2. Init => \A th \in Threads : ReadCovered(th)
      BY DEF Init, ReadCovered
    <2> QED
      BY <2>1, <2>2, LedgerInit DEF LedgerInv
  <1>2. LedgerInv /\ [Next]_vars => LedgerInv'
    BY LedgerStep
  <1>3. LedgerInv => StockNeverInvented
    BY DEF LedgerInv
  <1> QED
    BY <1>1, <1>2, <1>3, PTL DEF Spec

----------------------------------------------------------------------------
(* The books balance when one thread serves the requests one after the     *)
(* other: what a signature has read is then still the balance.             *)

(* The open signature has read the balances as they still are.             *)
ReadFresh(th) ==
    \A s \in Stores :
        pc[th] = "ready" /\ req[th].kind = "SIGN" /\ req[th].store = s
            => seen[th].stock = balance[s]

BooksInv ==
    /\ TypeOK
    /\ IsFiniteSet(receipts)
    /\ LedgerBalanced
    /\ \A th \in Threads : ReadFresh(th)

(* A step of the only thread keeps the books balanced.                     *)
LEMMA BooksStep ==
    ASSUME NEW w, Threads = {w}, BooksInv, [Next]_vars
    PROVE  BooksInv'
  <1>1. TypeOK /\ TypeOK' /\ IsFiniteSet(receipts)
    BY TypeStep DEF BooksInv
  <1>2. ASSUME NEW th \in Threads,
               \/ \E r \in Request : Opened(th, r)
               \/ ReadStops(th) \/ ReadStop(th) \/ ReadStock(th) \/ Rollback(th)
        PROVE  BooksInv'
    <2>1. UNCHANGED <<receipts, balance>>
      BY <1>1, <1>2, ReadsOnly
    <2>2. \A s, p : Received(s, p)' = Received(s, p)
      BY <2>1, NothingBooked
    <2>3. LedgerBalanced'
      BY <2>1, <2>2 DEF BooksInv, LedgerBalanced
    <2>4. ASSUME NEW u \in Threads
          PROVE  ReadFresh(u)'
      <3> SUFFICES ASSUME NEW s \in Stores,
                          pc'[u] = "ready", req'[u].kind = "SIGN", req'[u].store = s
                   PROVE  seen'[u].stock = balance'[s]
        BY DEF ReadFresh
      <3>1. \/ pc[u] = "ready" /\ req'[u] = req[u] /\ seen'[u] = seen[u]
            \/ req'[u] = req[u] /\ seen'[u].stock = balance[req[u].store]
        BY <1>1, <1>2, ReadsOnly
      <3> QED
        BY <2>1, <3>1 DEF BooksInv, ReadFresh
    <2> QED
      BY <1>1, <2>1, <2>3, <2>4 DEF BooksInv
  <1>3. ASSUME NEW th \in Threads, Commit(th)
        PROVE  BooksInv'
    <2>0. PICK r \in Request : r = req[th]
      BY <1>1, <1>3, CommitBooks
    <2>1. /\ IsFiniteSet(receipts')
          /\ r.kind # "SIGN" => UNCHANGED <<receipts, balance>>
          /\ r.kind = "SIGN" =>
                /\ r.store \in Stores /\ r.lines \in [Products -> Nat]
                /\ \A s \in Stores, p \in Products :
                    /\ Received(s, p)' = (IF r.store = s THEN r.lines[p] ELSE 0)
                                            + Received(s, p)
                    /\ balance'[s][p] = IF r.store = s THEN NewStock(r, seen[th])[p]
                                        ELSE balance[s][p]
      BY <1>1, <1>3, <2>0, CommitBooks
    <2>2. pc[th] = "ready" /\ pc'[th] = "idle" /\ seen[th] \in Snapshot
      BY <1>1, <1>3, CommitEnds
    <2>3. ASSUME NEW s \in Stores, NEW p \in Products
          PROVE  /\ Received(s, p) \in Nat /\ Quantity(Opening[s][p]) \in Nat
                 /\ Quantity(balance[s][p]) = Quantity(Opening[s][p]) + Received(s, p)
      BY <1>1, ReceivedType, OpeningType DEF BooksInv, LedgerBalanced
    <2>4. ASSUME NEW s \in Stores, NEW p \in Products
          PROVE  Quantity(balance'[s][p]) = Quantity(Opening[s][p]) + Received(s, p)'
      <3>1. CASE r.kind # "SIGN"
        BY <2>1, <2>3, <3>1, NothingBooked
      <3>2. CASE r.kind = "SIGN" /\ r.store # s
        BY <2>1, <2>3, <3>2
      <3>3. CASE r.kind = "SIGN" /\ r.store = s
        <4>1. /\ r.lines[p] \in Nat /\ Received(s, p)' = r.lines[p] + Received(s, p)
              /\ balance'[s][p] = NewStock(r, seen[th])[p]
          BY <2>1, <3>3
        <4>2. seen[th].stock = balance[s]
          BY <2>0, <2>2, <3>3 DEF BooksInv, ReadFresh
        <4>3. Quantity(NewStock(r, seen[th])[p]) =
                IF r.lines[p] = 0 THEN Quantity(balance[s][p])
                ELSE r.lines[p] + Quantity(seen[th].stock[p])
          BY <1>1, <2>1, <2>2, <3>3, NewStockIs
        <4> QED
          BY <2>3, <4>1, <4>2, <4>3
      <3> QED
        BY <3>1, <3>2, <3>3
    <2>5. \A u \in Threads : u = th
      OBVIOUS
    <2>6. \A u \in Threads : ReadFresh(u)'
      BY <2>2, <2>5 DEF ReadFresh
    <2> QED
      BY <1>1, <2>1, <2>4, <2>6 DEF BooksInv, LedgerBalanced
  <1>4. CASE UNCHANGED <<status, version, stop, receipts, balance, events, pc, req, seen>>
    <2>1. \A s, p : Received(s, p)' = Received(s, p)
      BY <1>4, NothingBooked
    <2> QED
      BY <1>1, <1>4, <2>1 DEF BooksInv, LedgerBalanced, ReadFresh
  <1> QED
    BY <1>1, <1>2, <1>3, <1>4, StepCases

(* Requests served one after the other add each receipt to the stock       *)
(* exactly once: the balances are the opening stock plus the movements.    *)
THEOREM SerialBooksBalance ==
    ASSUME NEW w, Threads = {w}
    PROVE  Spec => []LedgerBalanced
  <1>1. Init => BooksInv
    <2>1. Init => LedgerBalanced
      BY LedgerInit DEF LedgerBalanced
    <2>2. Init => \A th \in Threads : ReadFresh(th)
      BY DEF Init, ReadFresh
    <2> QED
      BY <2>1, <2>2, LedgerInit DEF BooksInv
  <1>2. BooksInv /\ [Next]_vars => BooksInv'
    BY BooksStep
  <1>3. BooksInv => LedgerBalanced
    BY DEF BooksInv
  <1> QED
    BY <1>1, <1>2, <1>3, PTL DEF Spec

----------------------------------------------------------------------------
(* The refinement: its inductive invariant.                                *)

(* The status of a task and those of its stops fit together.               *)
RowsFit(t) ==
    /\ status[t] \in {"CONFIRMED", "PUBLISHED", "DRIVER_ACCEPTED", "PICKED_UP"}
        => \A s \in Stops[t] : stop[t][s] = "PLANNED"
    /\ status[t] = "IN_TRANSIT" =>
        /\ \A s \in Stops[t] : stop[t][s] # "SIGNED"
        /\ Stops[t] # {} => \E s \in Stops[t] : stop[t][s] = "PLANNED"
    /\ status[t] = "DELIVERED" => \A s \in Stops[t] : stop[t][s] = "DELIVERED"

(* What the open transaction has read is still so.                         *)
Current(th) ==
    LET r == req[th]  sn == seen[th]  t == req[th].task IN
    /\ sn.status = status[t] /\ Suits(r.kind, status[t])
    /\ sn.target # NoStore => sn.stop = stop[t][sn.target]
    /\ pc[th] = "ready" /\ r.kind = "DELIVER" =>
        (sn.unfinished <=> \E u \in Stops[t] \ {sn.target} : stop[t][u] = "PLANNED")
    /\ pc[th] = "ready" /\ r.kind = "SIGN" =>
        (sn.unfinished <=> \E u \in Stops[t] \ {r.store} : stop[t][u] # "SIGNED")

SerialInv ==
    /\ Inv
    /\ \A t \in Tasks : RowsFit(t)
    /\ \A th \in Threads : pc[th] # "idle" => Current(th)

----------------------------------------------------------------------------
(* The steps that write no task and no stop.                               *)

(* A transaction that opens has read the task as it is.                    *)
LEMMA OpenedCurrent ==
    ASSUME TypeOK, NEW th \in Threads, NEW r \in Request, Opened(th, r)
    PROVE  Current(th)'
  <1>1. /\ req'[th] = r /\ seen'[th] = TaskRow(r.task)
        /\ pc'[th] = IF r.kind \in {"DELIVER", "SIGN"} THEN "loaded" ELSE "ready"
        /\ UNCHANGED <<status, stop>> /\ Suits(r.kind, status[r.task])
    BY DEF Opened, Begin, TypeOK, rows
  <1>2. TaskRow(r.task).status = status[r.task] /\ TaskRow(r.task).target = NoStore
    BY DEF TaskRow
  <1>3. ~(pc'[th] = "ready" /\ r.kind \in {"DELIVER", "SIGN"})
    BY <1>1
  <1> QED
    BY <1>1, <1>2, <1>3 DEF Current

(* A transaction that reads has read the stops as they are.                *)
LEMMA ReadCurrent ==
    ASSUME TypeOK, NEW th \in Threads, Current(th),
           ReadStops(th) \/ ReadStop(th) \/ ReadStock(th)
    PROVE  Current(th)' /\ UNCHANGED <<status, stop>>
  <1>1. CASE ReadStops(th)
    <2> DEFINE t == req[th].task
    <2>1. PICK s \in Stops[t] :
            seen' = [seen EXCEPT ![th] = WithStop(@, s, stop[t][s],
                        \E u \in Stops[t] \ {s} : stop[t][u] = "PLANNED")]
      BY <1>1 DEF ReadStops
    <2>2. /\ req[th].kind = "DELIVER" /\ UNCHANGED <<req, status, stop>>
      BY <1>1 DEF ReadStops, rows
    <2>3. /\ seen'[th].status = seen[th].status /\ seen'[th].target = s
          /\ seen'[th].stop = stop[t][s]
          /\ seen'[th].unfinished = (\E u \in Stops[t] \ {s} : stop[t][u] = "PLANNED")
      BY <2>1 DEF WithStop, TypeOK
    <2> QED
      BY <2>2, <2>3 DEF Current
  <1>2. CASE ReadStop(th)
    <2>1. /\ req[th].kind = "SIGN" /\ UNCHANGED <<req, status, stop>>
          /\ stop[req[th].task][req[th].store] = "DELIVERED" /\ pc'[th] = "located"
      BY <1>2 DEF ReadStop, rows, TypeOK
    <2>2. /\ seen'[th].status = seen[th].status /\ seen'[th].target = req[th].store
          /\ seen'[th].stop = "DELIVERED"
      BY <1>2 DEF ReadStop, WithStop, TypeOK
    <2> QED
      BY <2>1, <2>2 DEF Current
  <1>3. CASE ReadStock(th)
    <2> DEFINE t == req[th].task
    <2>1. /\ req[th].kind = "SIGN" /\ UNCHANGED <<req, status, stop>>
      BY <1>3 DEF ReadStock, rows, TypeOK, SignRequest
    <2>2. /\ seen'[th].status = seen[th].status /\ seen'[th].target = seen[th].target
          /\ seen'[th].stop = seen[th].stop
          /\ seen'[th].unfinished = (\E u \in Stops[t] \ {req[th].store} : stop[t][u] # "SIGNED")
      BY <1>3 DEF ReadStock, WithStock, TypeOK
    <2> QED
      BY <2>1, <2>2 DEF Current
  <1> QED
    BY <1>1, <1>2, <1>3

----------------------------------------------------------------------------
(* The commit.                                                             *)

(* The commit of r, which has read sn, writes task t and its stop s.       *)
Effect(r, sn, t, s) ==
    /\ Suits(r.kind, status[t])
    /\ status' = [status EXCEPT ![t] = NewStatus(r, sn)]
    /\ r.kind \notin {"DELIVER", "SIGN"} => UNCHANGED stop
    /\ r.kind \in {"DELIVER", "SIGN"} =>
        s \in Stops[t] /\ stop' = [stop EXCEPT ![t][s] = NewStop(r)]
    /\ r.kind = "SIGN" => s = r.store /\ stop[t][s] = "DELIVERED"
    /\ r.kind = "DELIVER" =>
        (sn.unfinished <=> \E u \in Stops[t] \ {s} : stop[t][u] = "PLANNED")
    /\ r.kind = "SIGN" =>
        (sn.unfinished <=> \E u \in Stops[t] \ {s} : stop[t][u] # "SIGNED")

(* What a commit writes, when what it has read is current.                 *)
LEMMA CommitEffect ==
    ASSUME SerialInv, NEW th \in Threads, Commit(th)
    PROVE  \E r \in Request, t \in Tasks, s \in Stores \cup {NoStore} :
                Effect(r, seen[th], t, s)
  <1> DEFINE r == req[th]
             t == req[th].task
             s == seen[th].target
             sn == seen[th]
  <1> SUFFICES r \in Request /\ t \in Tasks /\ s \in Stores \cup {NoStore} /\ Effect(r, sn, t, s)
    OBVIOUS
  <1>1. /\ TypeOK /\ pc[th] = "ready" /\ r \in Request
        /\ Current(th) /\ Shape(th)
    BY DEF SerialInv, Inv, ReadsStillHold, TypeOK, Commit
  <1>2. t \in Tasks /\ s \in Stores \cup {NoStore}
    BY <1>1, RequestTask DEF TypeOK, Snapshot
  <1>3. sn.status = status[t] /\ Suits(r.kind, status[t])
    BY <1>1 DEF Current
  <1>4. status' = [status EXCEPT ![t] = NewStatus(r, sn)]
    <2>1. status' = [status EXCEPT ![t] = Written(status[t], sn.status, NewStatus(r, sn))]
      BY DEF Commit
    <2>2. Written(status[t], sn.status, NewStatus(r, sn)) = NewStatus(r, sn)
      BY <1>3 DEF Written
    <2> QED
      BY <2>1, <2>2
  <1>5. /\ r.kind \in {"DELIVER", "SIGN"} => s # NoStore
        /\ s # NoStore => r.kind \in {"DELIVER", "SIGN"} /\ s \in Stops[t]
        /\ r.kind = "SIGN" => s = r.store /\ sn.stop = "DELIVERED"
    BY <1>1 DEF Shape
  <1>6. CASE r.kind \notin {"DELIVER", "SIGN"}
    <2>1. UNCHANGED stop
      BY <1>5, <1>6 DEF Commit
    <2> QED
      BY <1>1, <1>2, <1>3, <1>4, <1>6, <2>1 DEF Effect
  <1>7. CASE r.kind \in {"DELIVER", "SIGN"}
    <2>1. s \in Stops[t] /\ sn.stop = stop[t][s]
      BY <1>1, <1>5, <1>7 DEF Current
    <2>2. stop' = [stop EXCEPT ![t][s] = Written(stop[t][s], sn.stop, NewStop(r))]
      BY <1>5, <1>7 DEF Commit
    <2>3. Written(stop[t][s], sn.stop, NewStop(r)) = NewStop(r)
      BY <2>1 DEF Written
    <2>4. stop' = [stop EXCEPT ![t][s] = NewStop(r)]
      BY <2>2, <2>3
    <2>5. r.kind = "DELIVER" =>
            (sn.unfinished <=> \E u \in Stops[t] \ {s} : stop[t][u] = "PLANNED")
      BY <1>1 DEF Current
    <2>6. r.kind = "SIGN" =>
            (sn.unfinished <=> \E u \in Stops[t] \ {s} : stop[t][u] # "SIGNED")
      BY <1>1, <1>5 DEF Current
    <2> QED
      BY <1>1, <1>2, <1>3, <1>4, <1>5, <1>7, <2>1, <2>4, <2>5, <2>6 DEF Effect
  <1> QED
    BY <1>6, <1>7

(* The stops as the abstract specification sees them.                      *)
Shown == [t \in Tasks |-> [s \in Stops[t] |-> stop[t][s]]]

(* Writing a stop writes it there as well.                                 *)
LEMMA ShownWritten ==
    ASSUME TypeOK, NEW t \in Tasks, NEW s \in Stops[t], NEW new,
           stop' = [stop EXCEPT ![t][s] = new]
    PROVE  /\ Shown' = [Shown EXCEPT ![t][s] = new]
           /\ \A u \in Stops[t] : Shown'[t][u] = IF u = s THEN new ELSE stop[t][u]
           /\ Shown[t][s] = stop[t][s]
  <1>1. /\ \A x \in Tasks, u \in Stores :
                stop'[x][u] = IF x = t /\ u = s THEN new ELSE stop[x][u]
        /\ \A x \in Tasks : Stops[x] \subseteq Stores
    BY StopsType DEF TypeOK
  <1>2. ASSUME NEW x \in Tasks
        PROVE  [u \in Stops[x] |-> stop'[x][u]] =
               IF x = t THEN [[u \in Stops[t] |-> stop[t][u]] EXCEPT ![s] = new]
               ELSE [u \in Stops[x] |-> stop[x][u]]
    <2>1. \A u \in Stops[x] : stop'[x][u] = IF x = t /\ u = s THEN new ELSE stop[x][u]
      BY <1>1
    <2> QED
      BY <2>1
  <1>3. Shown' = [Shown EXCEPT ![t][s] = new]
    BY <1>2 DEF Shown
  <1> QED
    BY <1>1, <1>3 DEF Shown

(* A commit is a step of the life of its task, or none.                    *)
LEMMA CommitMaps ==
    ASSUME SerialInv, NEW th \in Threads, Commit(th)
    PROVE  Lifecycle!Next \/ UNCHANGED Lifecycle!vars
  <1>1. PICK r \in Request, t \in Tasks, s \in Stores \cup {NoStore} :
            Effect(r, seen[th], t, s)
    BY CommitEffect
  <1> DEFINE sn == seen[th]
             new == NewStatus(r, sn)
  <1>4. /\ Suits(r.kind, status[t])
        /\ status' = [status EXCEPT ![t] = new]
        /\ r.kind \notin {"DELIVER", "SIGN"} => UNCHANGED stop
        /\ r.kind \in {"DELIVER", "SIGN"} =>
                s \in Stops[t] /\ stop' = [stop EXCEPT ![t][s] = NewStop(r)]
        /\ r.kind = "SIGN" => s = r.store /\ stop[t][s] = "DELIVERED"
        /\ r.kind = "DELIVER" =>
                (sn.unfinished <=> \E u \in Stops[t] \ {s} : stop[t][u] = "PLANNED")
        /\ r.kind = "SIGN" =>
                (sn.unfinished <=> \E u \in Stops[t] \ {s} : stop[t][u] # "SIGNED")
    BY <1>1 DEF Effect
  <1>5. TypeOK /\ RowsFit(t)
    BY DEF SerialInv, Inv
  <1>6. CASE r.kind = "PUBLISH"
    <2>1. new = "PUBLISHED" /\ status[t] = "CONFIRMED"
      BY <1>4, <1>6 DEF NewStatus, Simple, Suits
    <2>2. Lifecycle!Publish(t)
      BY <1>4, <1>6, <2>1 DEF Lifecycle!Publish, Lifecycle!Advance
    <2> QED
      BY <2>2 DEF Lifecycle!Next
  <1>7. CASE r.kind = "CANCEL"
    <2>1. new = "CANCELLED" /\ status[t] \in {"CONFIRMED", "PUBLISHED", "DRIVER_ACCEPTED"}
      BY <1>4, <1>7 DEF NewStatus, Simple, Suits
    <2>2. Lifecycle!Cancel(t)
      BY <1>4, <1>7, <2>1 DEF Lifecycle!Cancel, Lifecycle!Advance
    <2> QED
      BY <2>2 DEF Lifecycle!Next
  <1>8. CASE r.kind = "ACCEPT"
    <2>1. new = "DRIVER_ACCEPTED" /\ status[t] = "PUBLISHED"
      BY <1>4, <1>8 DEF NewStatus, Simple, Suits
    <2>2. Lifecycle!Accept(t)
      BY <1>4, <1>8, <2>1 DEF Lifecycle!Accept, Lifecycle!Advance
    <2> QED
      BY <2>2 DEF Lifecycle!Next
  <1>9. CASE r.kind = "PICKUP"
    <2>1. new = "PICKED_UP" /\ status[t] = "DRIVER_ACCEPTED"
      BY <1>4, <1>9 DEF NewStatus, Simple, Suits
    <2>2. Lifecycle!Pickup(t)
      BY <1>4, <1>9, <2>1 DEF Lifecycle!Pickup, Lifecycle!Advance
    <2> QED
      BY <2>2 DEF Lifecycle!Next
  <1>10. CASE r.kind = "START_TRANSIT"
    <2>1. new = "IN_TRANSIT" /\ status[t] = "PICKED_UP"
      BY <1>4, <1>10 DEF NewStatus, Simple, Suits
    <2>2. Lifecycle!Depart(t)
      BY <1>4, <1>10, <2>1 DEF Lifecycle!Depart, Lifecycle!Advance
    <2> QED
      BY <2>2 DEF Lifecycle!Next
  <1>11. CASE r.kind = "DELIVER"
    <2>1. /\ s \in Stops[t] /\ stop' = [stop EXCEPT ![t][s] = "DELIVERED"]
          /\ status[t] \in {"IN_TRANSIT", "DELIVERED"}
          /\ new = IF \E u \in Stops[t] \ {s} : stop[t][u] = "PLANNED"
                   THEN "IN_TRANSIT" ELSE "DELIVERED"
      BY <1>4, <1>11 DEF NewStop, NewStatus, Suits
    <2>2. /\ Shown' = [Shown EXCEPT ![t][s] = "DELIVERED"]
          /\ \A u \in Stops[t] : Shown'[t][u] = IF u = s THEN "DELIVERED" ELSE stop[t][u]
          /\ Shown[t][s] = stop[t][s]
      BY <1>5, <2>1, ShownWritten
    <2>3. CASE status[t] = "IN_TRANSIT" /\ stop[t][s] = "PLANNED"
      <3>1. (\E u \in Stops[t] : Shown'[t][u] = "PLANNED")
                <=> \E u \in Stops[t] \ {s} : stop[t][u] = "PLANNED"
        BY <2>1, <2>2
      <3>2. status' = [status EXCEPT ![t] =
                IF \E u \in Stops[t] : Shown'[t][u] = "PLANNED" THEN "IN_TRANSIT" ELSE "DELIVERED"]
        BY <1>4, <2>1, <3>1
      <3>3. Lifecycle!Deliver(t, s)
        BY <2>2, <2>3, <3>2 DEF Lifecycle!Deliver, Shown
      <3> QED
        BY <2>1, <3>3 DEF Lifecycle!Next
    <2>4. CASE ~(status[t] = "IN_TRANSIT" /\ stop[t][s] = "PLANNED")
      <3>1. stop[t][s] = "DELIVERED" /\ new = status[t]
        <4>1. stop[t][s] \in StopStatus
          BY <1>5, <2>1, StopsType DEF TypeOK
        <4>2. CASE status[t] = "DELIVERED"
          BY <1>5, <2>1, <4>2 DEF RowsFit
        <4>3. CASE status[t] = "IN_TRANSIT"
          BY <1>5, <2>1, <2>4, <4>1, <4>3 DEF RowsFit, StopStatus
        <4> QED
          BY <2>1, <4>2, <4>3
      <3>2. status' = status
        BY <1>4, <1>5, <3>1 DEF TypeOK
      <3>3. stop' = stop
        BY <1>5, <2>1, <3>1 DEF TypeOK
      <3> QED
        BY <3>2, <3>3 DEF Lifecycle!vars
    <2> QED
      BY <2>3, <2>4
  <1>12. CASE r.kind = "SIGN"
    <2>1. /\ s \in Stops[t] /\ stop' = [stop EXCEPT ![t][s] = "SIGNED"]
          /\ status[t] \in {"DELIVERED", "STORE_SIGNED"} /\ stop[t][s] = "DELIVERED"
          /\ new = IF \E u \in Stops[t] \ {s} : stop[t][u] # "SIGNED"
                   THEN "STORE_SIGNED" ELSE "COMPLETED"
      BY <1>4, <1>12 DEF NewStop, NewStatus, Suits
    <2>2. /\ Shown' = [Shown EXCEPT ![t][s] = "SIGNED"]
          /\ \A u \in Stops[t] : Shown'[t][u] = IF u = s THEN "SIGNED" ELSE stop[t][u]
          /\ Shown[t][s] = stop[t][s]
      BY <1>5, <2>1, ShownWritten
    <2>3. (\E u \in Stops[t] : Shown'[t][u] # "SIGNED")
                <=> \E u \in Stops[t] \ {s} : stop[t][u] # "SIGNED"
      BY <2>1, <2>2
    <2>4. status' = [status EXCEPT ![t] =
            IF \E u \in Stops[t] : Shown'[t][u] # "SIGNED" THEN "STORE_SIGNED" ELSE "COMPLETED"]
      BY <1>4, <2>1, <2>3
    <2>5. Lifecycle!Sign(t, s)
      BY <2>1, <2>2, <2>4 DEF Lifecycle!Sign, Shown
    <2> QED
      BY <2>1, <2>5 DEF Lifecycle!Next
  <1> QED
    BY <1>6, <1>7, <1>8, <1>9, <1>10, <1>11, <1>12
       DEF Request, ActionRequest, SignRequest

(* A commit leaves the rows fitting together.                              *)
LEMMA CommitFits ==
    ASSUME SerialInv, NEW th \in Threads, Commit(th), NEW x \in Tasks
    PROVE  RowsFit(x)'
  <1>1. PICK r \in Request, t \in Tasks, s \in Stores \cup {NoStore} :
            Effect(r, seen[th], t, s)
    BY CommitEffect
  <1> DEFINE sn == seen[th]
             new == NewStatus(r, sn)
  <1>4. /\ Suits(r.kind, status[t])
        /\ status' = [status EXCEPT ![t] = new]
        /\ r.kind \notin {"DELIVER", "SIGN"} => UNCHANGED stop
        /\ r.kind \in {"DELIVER", "SIGN"} =>
                s \in Stops[t] /\ stop' = [stop EXCEPT ![t][s] = NewStop(r)]
        /\ r.kind = "SIGN" => s = r.store /\ stop[t][s] = "DELIVERED"
        /\ r.kind = "DELIVER" =>
                (sn.unfinished <=> \E u \in Stops[t] \ {s} : stop[t][u] = "PLANNED")
        /\ r.kind = "SIGN" =>
                (sn.unfinished <=> \E u \in Stops[t] \ {s} : stop[t][u] # "SIGNED")
    BY <1>1 DEF Effect
  <1>5. /\ TypeOK /\ RowsFit(x) /\ RowsFit(t)
    BY DEF SerialInv, Inv
  <1>6. CASE x # t
    <2>1. status'[x] = status[x] /\ stop'[x] = stop[x]
      BY <1>4, <1>5, <1>6 DEF TypeOK, Request, ActionRequest, SignRequest
    <2> QED
      BY <1>5, <2>1 DEF RowsFit
  <1>7. CASE x = t /\ r.kind \notin {"DELIVER", "SIGN"}
    <2>1. status'[t] = new /\ UNCHANGED stop
      BY <1>4, <1>5, <1>7 DEF TypeOK
    <2>2. /\ status[t] \in {"CONFIRMED", "PUBLISHED", "DRIVER_ACCEPTED", "PICKED_UP"}
          /\ new \in {"PUBLISHED", "DRIVER_ACCEPTED", "PICKED_UP", "IN_TRANSIT", "CANCELLED"}
      <3>1. r.kind \in {"PUBLISH", "CANCEL", "ACCEPT", "PICKUP", "START_TRANSIT"}
        BY <1>7 DEF Request, ActionRequest, SignRequest
      <3>2. new = Simple[r.kind]
        BY <3>1 DEF NewStatus
      <3>3. new \in {"PUBLISHED", "DRIVER_ACCEPTED", "PICKED_UP", "IN_TRANSIT", "CANCELLED"}
        BY <3>1, <3>2 DEF Simple
      <3>4. status[t] \in {"CONFIRMED", "PUBLISHED", "DRIVER_ACCEPTED", "PICKED_UP"}
        BY <1>4, <3>1 DEF Suits
      <3> QED
        BY <3>3, <3>4
    <2>3. \A u \in Stops[t] : stop[t][u] = "PLANNED"
      BY <1>5, <2>2 DEF RowsFit
    <2> QED
      BY <1>7, <2>1, <2>2, <2>3 DEF RowsFit
  <1>8. CASE x = t /\ r.kind = "DELIVER"
    <2>1. /\ s \in Stops[t] /\ stop' = [stop EXCEPT ![t][s] = "DELIVERED"]
          /\ status[t] \in {"IN_TRANSIT", "DELIVERED"}
          /\ new = IF \E u \in Stops[t] \ {s} : stop[t][u] = "PLANNED"
                   THEN "IN_TRANSIT" ELSE "DELIVERED"
      BY <1>4, <1>8 DEF NewStop, NewStatus, Suits
    <2>2. status'[t] = new
      BY <1>4, <1>5 DEF TypeOK
    <2>3. \A u \in Stops[t] : stop'[t][u] = IF u = s THEN "DELIVERED" ELSE stop[t][u]
      BY <1>5, <2>1, StopsType DEF TypeOK
    <2>4. \A u \in Stops[t] : stop[t][u] # "SIGNED" /\ stop[t][u] \in StopStatus
      BY <1>5, <2>1, StopsType DEF RowsFit, TypeOK
    <2> QED
      BY <1>8, <2>1, <2>2, <2>3, <2>4 DEF RowsFit, StopStatus
  <1>9. CASE x = t /\ r.kind = "SIGN"
    <2>1. status'[t] = new /\ new \in {"STORE_SIGNED", "COMPLETED"}
      BY <1>4, <1>5, <1>9 DEF TypeOK, NewStatus
    <2> QED
      BY <1>9, <2>1 DEF RowsFit
  <1> QED
    BY <1>6, <1>7, <1>8, <1>9

(* Every step keeps the invariant, and maps to a step or to a stutter.     *)
LEMMA SerialStep ==
    ASSUME NEW w, Threads = {w}, SerialInv, [Next]_vars
    PROVE  SerialInv' /\ (Lifecycle!Next \/ UNCHANGED Lifecycle!vars)
  <1>1. Inv' /\ TypeOK
    BY InvStep DEF SerialInv, Inv
  <1>2. ASSUME NEW th \in Threads, NEW r \in Request, Opened(th, r)
        PROVE  SerialInv' /\ UNCHANGED Lifecycle!vars
    <2>1. UNCHANGED <<status, stop>>
      BY <1>2 DEF Opened, Begin, rows
    <2>2. \A u \in Threads : Current(u)'
      BY <1>1, <1>2, OpenedCurrent
    <2> QED
      BY <1>1, <2>1, <2>2 DEF SerialInv, RowsFit, Lifecycle!vars
  <1>3. ASSUME NEW th \in Threads, ReadStops(th) \/ ReadStop(th) \/ ReadStock(th)
        PROVE  SerialInv' /\ UNCHANGED Lifecycle!vars
    <2>1. Current(th)
      BY <1>3 DEF SerialInv, ReadStops, ReadStop, ReadStock
    <2>2. Current(th)' /\ UNCHANGED <<status, stop>>
      BY <1>1, <1>3, <2>1, ReadCurrent
    <2>3. \A u \in Threads : u = th
      OBVIOUS
    <2> QED
      BY <1>1, <2>2, <2>3 DEF SerialInv, RowsFit, Lifecycle!vars
  <1>4. ASSUME NEW th \in Threads, Rollback(th)
        PROVE  SerialInv' /\ UNCHANGED Lifecycle!vars
    <2>1. UNCHANGED <<status, stop>> /\ pc'[th] = "idle"
      BY <1>1, <1>4 DEF Rollback, End, rows, TypeOK
    <2>2. \A u \in Threads : pc'[u] = "idle"
      BY <2>1
    <2> QED
      BY <1>1, <2>1, <2>2 DEF SerialInv, RowsFit, Lifecycle!vars
  <1>5. ASSUME NEW th \in Threads, Commit(th)
        PROVE  SerialInv' /\ (Lifecycle!Next \/ UNCHANGED Lifecycle!vars)
    <2>1. \A x \in Tasks : RowsFit(x)'
      BY <1>5, CommitFits
    <2>2. \A u \in Threads : pc'[u] = "idle"
      BY <1>1, <1>5 DEF Commit, End, TypeOK
    <2> QED
      BY <1>1, <1>5, <2>1, <2>2, CommitMaps DEF SerialInv
  <1>6. CASE UNCHANGED <<status, version, stop, receipts, balance, events, pc, req, seen>>
    BY <1>1, <1>6 DEF SerialInv, RowsFit, Current, Lifecycle!vars
  <1> QED
    BY <1>1, <1>2, <1>3, <1>4, <1>5, <1>6, StepCases DEF SerialInv

(* Served one after the other, the requests of B02 lead a task through the *)
(* documented life, and through nothing else.                              *)
THEOREM SerialImplementsLifecycle ==
    ASSUME NEW w, Threads = {w}
    PROVE  Spec => LifecycleSpec
  <1>1. Init => SerialInv
    <2> SUFFICES ASSUME Init PROVE SerialInv
      OBVIOUS
    <2>1. \A t \in Tasks : status[t] = "CONFIRMED" /\ \A s \in Stops[t] : stop[t][s] = "PLANNED"
      BY StopsType DEF Init
    <2>2. \A th \in Threads : pc[th] = "idle"
      BY DEF Init
    <2> QED
      BY <2>1, <2>2, InvInit DEF SerialInv, RowsFit
  <1>2. Init => Lifecycle!Init
    <2> SUFFICES ASSUME Init PROVE Lifecycle!Init
      OBVIOUS
    <2>1. \A t \in Tasks : \A s \in Stops[t] : stop[t][s] = "PLANNED"
      BY StopsType DEF Init
    <2>2. status = [t \in Tasks |-> "CONFIRMED"]
      BY DEF Init
    <2> QED
      BY <2>1, <2>2 DEF Lifecycle!Init
  <1>3. SerialInv /\ [Next]_vars => SerialInv' /\ [Lifecycle!Next]_(Lifecycle!vars)
    BY SerialStep
  <1> QED
    BY <1>1, <1>2, <1>3, PTL DEF Spec, LifecycleSpec, Lifecycle!Spec

=============================================================================
