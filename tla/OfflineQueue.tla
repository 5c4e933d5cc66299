---------------------------- MODULE OfflineQueue ----------------------------
(***************************************************************************)
(* The clients of B02: the phone's offline queue of                        *)
(* offline-outbox.example.js, over the server of Submissions, and callers  *)
(* that send directly.                                                     *)
(*                                                                         *)
(* flush copies the stored queue, awaits the answer of one request after   *)
(* the other, and stores what remains.  It starts whenever the network     *)
(* comes back, so that two may run at once, and the page may enqueue while *)
(* one awaits an answer.  A blocked item is marked and never looked at:    *)
(* it is sent again like any other, and the mark is left out.  The times   *)
(* of the next attempts are: an item is due or it is not.                  *)
(***************************************************************************)
EXTENDS Submissions

CONSTANTS
    Flushes,    \* the runs of flush, callers of the server; the other
                \* callers are the requests that are sent without the queue
    Agendas     \* what the users do: sets of requests

VARIABLES
    todo,       \* the requests the users have still to make
    stored,     \* the stored queue
    run,        \* run[f]   "off", "on", or "sent" with an answer awaited
    ahead,      \* ahead[f] the rest of its copy
    kept,       \* kept[f]  what remains of what it has passed
    lot         \* history: a letter is "new", "queued", or "late", when it was
                \* enqueued while a run was on

phoneVars == <<todo, stored, run, ahead, kept, lot>>
vars == <<serverVars, phoneVars>>

Letters == Requests \ Callers

ASSUME QueueAssumption ==
    /\ Flushes \subseteq Callers \ Requests
    /\ Agendas \subseteq SUBSET Requests

TypeOK ==
    /\ ServerTypeOK
    /\ todo \subseteq Requests
    /\ stored \in Seq(Letters)
    /\ run \in [Flushes -> {"off", "on", "sent"}]
    /\ ahead \in [Flushes -> Seq(Letters)]
    /\ kept \in [Flushes -> Seq(Letters)]
    /\ lot \in [Letters -> {"new", "queued", "late"}]

Init ==
    /\ ServerInit
    /\ todo \in Agendas
    /\ stored = <<>>
    /\ run = [f \in Flushes |-> "off"]
    /\ ahead = [f \in Flushes |-> <<>>]
    /\ kept = [f \in Flushes |-> <<>>]
    /\ lot = [x \in Letters |-> "new"]

(* A key is drawn for the request, and goes with it ever after.            *)
Enqueue(r) ==
    /\ r \in todo \cap Letters
    /\ todo' = todo \ {r}
    /\ stored' = Append(stored, r)
    /\ lot' = [lot EXCEPT ![r] = IF \A f \in Flushes : run[f] = "off" THEN "queued" ELSE "late"]
    /\ UNCHANGED <<serverVars, run, ahead, kept>>

StartFlush(f) ==
    /\ run[f] = "off" /\ stored # <<>>
    /\ run' = [run EXCEPT ![f] = "on"]
    /\ ahead' = [ahead EXCEPT ![f] = stored]
    /\ UNCHANGED <<serverVars, todo, stored, kept, lot>>

Keep(f) == kept' = [kept EXCEPT ![f] = Append(@, Head(ahead[f]))]
Advance(f) == ahead' = [ahead EXCEPT ![f] = Tail(@)]

NotDue(f) ==
    /\ run[f] = "on" /\ ahead[f] # <<>>
    /\ Keep(f) /\ Advance(f)
    /\ UNCHANGED <<serverVars, todo, stored, run, lot>>

Send(f) ==
    /\ run[f] = "on" /\ ahead[f] # <<>>
    /\ run' = [run EXCEPT ![f] = "sent"]
    /\ Receive(f, Head(ahead[f])) \/ Lose(f)
    /\ UNCHANGED <<todo, stored, ahead, kept, lot>>

(* Mutant: a request that was sent is done.                                *)
AnsweredWhatever(f) ==
    /\ run[f] = "sent" /\ answer[f] \notin {"none", "waiting"}
    /\ run' = [run EXCEPT ![f] = "on"]
    /\ answer' = [answer EXCEPT ![f] = "none"]
    /\ Advance(f)
    /\ UNCHANGED <<rows, disk, threadVars, met, faults, todo, stored, kept, lot>>

(* Only a success drops the item: a lost answer, a 409 and a 500 keep it.  *)
Answered(f) ==
    /\ run[f] = "sent" /\ answer[f] \notin {"none", "waiting"}
    /\ run' = [run EXCEPT ![f] = "on"]
    /\ answer' = [answer EXCEPT ![f] = "none"]
    /\ Advance(f)
    /\ IF answer[f] = "ok" THEN UNCHANGED kept ELSE Keep(f)
    /\ UNCHANGED <<rows, disk, threadVars, met, faults, todo, stored, lot>>

EndFlush(f) ==
    /\ run[f] = "on" /\ ahead[f] = <<>>
    /\ run' = [run EXCEPT ![f] = "off"]
    /\ stored' = kept[f]
    /\ kept' = [kept EXCEPT ![f] = <<>>]
    /\ UNCHANGED <<serverVars, todo, ahead, lot>>

(* The phone kills the program: only the storage is left.                  *)
Kill ==
    /\ \E f \in Flushes : run[f] # "off"
    /\ Fault
    /\ run' = [f \in Flushes |-> "off"]
    /\ ahead' = [f \in Flushes |-> <<>>]
    /\ kept' = [f \in Flushes |-> <<>>]
    /\ answer' = [c \in Callers |-> IF c \in Flushes THEN "none" ELSE answer[c]]
    /\ from' = [th \in Threads |-> IF from[th] \in Flushes THEN Nobody ELSE from[th]]
    /\ UNCHANGED <<rows, disk, pc, req, seen, met, todo, stored, lot>>

(* The others send directly, and again while they have had no success; a   *)
(* refused request is given up.                                            *)
SendDirectly(r) ==
    /\ r \in todo \cap Callers
    /\ Receive(r, r) \/ Lose(r)
    /\ UNCHANGED phoneVars

AnsweredDirectly(r) ==
    /\ r \in todo \cap Callers
    /\ answer[r] \in {"ok", "refused", "error"}
    /\ answer' = [answer EXCEPT ![r] = "none"]
    /\ todo' = IF answer[r] = "error" THEN todo ELSE todo \ {r}
    /\ UNCHANGED <<rows, disk, threadVars, met, faults, stored, run, ahead, kept, lot>>

Phone(f) == StartFlush(f) \/ NotDue(f) \/ Send(f) \/ Answered(f) \/ EndFlush(f)

Next ==
    \/ \E r \in Requests : Enqueue(r) \/ SendDirectly(r) \/ AnsweredDirectly(r)
    \/ \E f \in Flushes : Phone(f)
    \/ Kill
    \/ (Crash /\ UNCHANGED phoneVars)
    \/ \E th \in Threads : (Serve(th) \/ Break(th)) /\ UNCHANGED phoneVars
    \/ \E th \in Threads, i \in DOMAIN alerts, a \in {"ACKNOWLEDGE", "RESOLVE"} :
        LoadAlert(th, i, a) /\ UNCHANGED phoneVars

Spec == Init /\ [][Next]_vars

(* The network comes back again and again, and an item does not stay not   *)
(* due for ever (five minutes at most): whatever a run passes over again   *)
(* and again is sent some time.  The server works on what it has taken.    *)
FairSpec ==
    /\ Spec
    /\ \A f \in Flushes :
        /\ WF_vars(Phone(f))
        /\ \A x \in Letters : SF_vars(ahead[f] # <<>> /\ x = Head(ahead[f]) /\ Send(f))
    /\ \A th \in Threads : WF_vars(Serve(th) /\ UNCHANGED phoneVars)

----------------------------------------------------------------------------

InStore == {stored[i] : i \in DOMAIN stored}

(* The phone and the server together keep the promise of Mailbox for all   *)
(* that is enqueued while no flush is on: EndFlush overwrites the rest.    *)
Mail == INSTANCE Mailbox WITH
            queued <- {x \in Letters : lot[x] = "late" \/ x \in InStore},
            delivered <- {x \in Letters : made[x] > 0},
            forgotten <- {x \in Letters : lot[x] = "queued" /\ x \notin InStore}

MailKept == Mail!Spec

(* ACCEPTANCE.md: a location waits in the outbox while the network is gone *)
(* and is uploaded when it is back, whatever is lost, fails or is killed   *)
(* meanwhile, and whatever two runs of the queue store over one another.   *)
LocationsArrive ==
    \A x \in Letters :
        (x.kind = "LOCATION" /\ x \in InStore /\ lot[x] = "queued") ~> made[x] = 1
=============================================================================
