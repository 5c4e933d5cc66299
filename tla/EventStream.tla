---------------------------- MODULE EventStream ----------------------------
(***************************************************************************)
(* The event feeds: the WebSocket of B02 and the event stream of B01.      *)
(*                                                                         *)
(* Every change of the system adds rows to the outbox, in its own          *)
(* transaction.  A row takes its sequence number when it is inserted and   *)
(* is seen by others when the transaction commits.  For each connection    *)
(* the server keeps a cursor, reads the rows behind it every few seconds,  *)
(* sends the client those it may see, and then the cursor.  The client     *)
(* stores the cursor of every message it gets and reconnects with it.      *)
(* The feed of B01 is the case where every event is visible and no cursor  *)
(* is sent apart from the events.                                          *)
(***************************************************************************)
EXTENDS Integers, FiniteSets

CONSTANTS
    Writers,    \* transactions that may be open at the same time
    Clients,
    Visible,    \* Visible[c]: the events client c may see
    Limit,      \* rows in one read (100 in the code)
    MaxSeq,     \* bound on the sequence
    MaxDrops    \* bound on the connections a client loses

Seqs == 1..MaxSeq

ASSUME StreamAssumption ==
    /\ Visible \in [Clients -> SUBSET Seqs]
    /\ Limit \in Nat \ {0} /\ MaxSeq \in Nat /\ MaxDrops \in Nat

VARIABLES
    next,       \* the next number of the sequence
    open,       \* open[w]    the rows the transaction of w has inserted
    committed,  \* the rows everybody sees
    online,     \* the clients with a connection
    cursor,     \* cursor[c]  the server's cursor of the connection
    wire,       \* wire[c]    the events on their way to the client, in order
    beat,       \* beat[c]    the cursor message behind them, or 0
    saved,      \* saved[c]   the cursor the client has stored
    got,        \* got[c]     the events the client was given
    drops       \* drops[c]   the connections it has lost

serverVars == <<cursor, wire, beat>>
clientVars == <<saved, got>>
vars == <<next, open, committed, online, serverVars, clientVars, drops>>

TypeOK ==
    /\ next \in 1..(MaxSeq + 1)
    /\ open \in [Writers -> SUBSET Seqs]
    /\ committed \subseteq Seqs
    /\ online \subseteq Clients
    /\ cursor \in [Clients -> 0..MaxSeq]
    /\ wire \in [Clients -> SUBSET Seqs]
    /\ beat \in [Clients -> 0..MaxSeq]
    /\ saved \in [Clients -> 0..MaxSeq]
    /\ got \in [Clients -> SUBSET Seqs]
    /\ drops \in [Clients -> Nat]

Init ==
    /\ next = 1
    /\ open = [w \in Writers |-> {}]
    /\ committed = {}
    /\ online = {}
    /\ cursor = [c \in Clients |-> 0]
    /\ wire = [c \in Clients |-> {}]
    /\ beat = [c \in Clients |-> 0]
    /\ saved = [c \in Clients |-> 0]
    /\ got = [c \in Clients |-> {}]
    /\ drops = [c \in Clients |-> 0]

----------------------------------------------------------------------------
(* The transactions (add_outbox, then commit or rollback).                 *)

Insert(w) ==
    /\ next <= MaxSeq
    /\ open' = [open EXCEPT ![w] = @ \cup {next}]
    /\ next' = next + 1
    /\ UNCHANGED <<committed, online, serverVars, clientVars, drops>>

Commit(w) ==
    /\ open[w] # {}
    /\ committed' = committed \cup open[w]
    /\ open' = [open EXCEPT ![w] = {}]
    /\ UNCHANGED <<next, online, serverVars, clientVars, drops>>

(* The numbers of a transaction rolled back are never used again.          *)
Rollback(w) ==
    /\ open[w] # {}
    /\ open' = [open EXCEPT ![w] = {}]
    /\ UNCHANGED <<next, committed, online, serverVars, clientVars, drops>>

----------------------------------------------------------------------------
(* A connection.                                                           *)

(* The server starts from the cursor the client sends.                     *)
Connect(c) ==
    /\ c \notin online
    /\ online' = online \cup {c}
    /\ cursor' = [cursor EXCEPT ![c] = saved[c]]
    /\ UNCHANGED <<next, open, committed, wire, beat, clientVars, drops>>

Behind(c) == {e \in committed : e > cursor[c]}

(* Mutant: the events at the cursor are read once more.                    *)
PageFrom(c) == {e \in committed : e >= cursor[c] /\ Cardinality({f \in Behind(c) : f < e}) < Limit}

(* The first Limit rows behind the cursor.                                 *)
Page(c) == {e \in Behind(c) : Cardinality({f \in Behind(c) : f < e}) < Limit}

(* One read of the server; the messages of the previous one are sent.      *)
Push(c) ==
    /\ c \in online /\ wire[c] = {} /\ beat[c] = 0
    /\ \E last \in Page(c) :
        /\ \A e \in Page(c) : e <= last
        /\ wire' = [wire EXCEPT ![c] = Page(c) \cap Visible[c]]
        /\ cursor' = [cursor EXCEPT ![c] = last]
        /\ beat' = [beat EXCEPT ![c] = last]
    /\ UNCHANGED <<next, open, committed, online, clientVars, drops>>

(* Mutant: the client stores a cursor when a whole page has arrived.       *)
ReceiveUnsaved(c) ==
    /\ c \in online
    /\ \E e \in wire[c] :
        /\ \A f \in wire[c] : e <= f
        /\ wire' = [wire EXCEPT ![c] = @ \ {e}]
        /\ got' = [got EXCEPT ![c] = @ \cup {e}]
    /\ UNCHANGED <<next, open, committed, online, cursor, beat, saved, drops>>

(* The client gets the first event on its way and stores its cursor.       *)
Receive(c) ==
    /\ c \in online
    /\ \E e \in wire[c] :
        /\ \A f \in wire[c] : e <= f
        /\ wire' = [wire EXCEPT ![c] = @ \ {e}]
        /\ got' = [got EXCEPT ![c] = @ \cup {e}]
        /\ saved' = [saved EXCEPT ![c] = e]
    /\ UNCHANGED <<next, open, committed, online, cursor, beat, drops>>

(* Mutant: the cursor message overtakes the events.                        *)
ReceiveBeatEarly(c) ==
    /\ c \in online /\ beat[c] # 0
    /\ saved' = [saved EXCEPT ![c] = beat[c]]
    /\ beat' = [beat EXCEPT ![c] = 0]
    /\ UNCHANGED <<next, open, committed, online, cursor, wire, got, drops>>

(* Then the cursor that follows the events.                                *)
ReceiveBeat(c) ==
    /\ c \in online /\ wire[c] = {} /\ beat[c] # 0
    /\ saved' = [saved EXCEPT ![c] = beat[c]]
    /\ beat' = [beat EXCEPT ![c] = 0]
    /\ UNCHANGED <<next, open, committed, online, cursor, wire, got, drops>>

(* The connection breaks: what is on its way is lost.                      *)
Drop(c) ==
    /\ c \in online /\ drops[c] < MaxDrops
    /\ drops' = [drops EXCEPT ![c] = @ + 1]
    /\ online' = online \ {c}
    /\ wire' = [wire EXCEPT ![c] = {}]
    /\ beat' = [beat EXCEPT ![c] = 0]
    /\ UNCHANGED <<next, open, committed, cursor, clientVars>>

Feed(c) == Connect(c) \/ Push(c) \/ Receive(c) \/ ReceiveBeat(c)

Next ==
    \/ \E w \in Writers : Insert(w) \/ Commit(w) \/ Rollback(w)
    \/ \E c \in Clients : Feed(c) \/ Drop(c)

Spec == Init /\ [][Next]_vars

(* The client reconnects for ever and the server's loop never ends.        *)
FairSpec == Spec /\ \A c \in Clients : WF_vars(Feed(c))

----------------------------------------------------------------------------
(* Properties.                                                             *)

(* A client is given each event once, only events it may see, and only     *)
(* after they were committed, however often it reconnects.                 *)
OnceAndOnlyCommitted ==
    \A c \in Clients :
        /\ wire[c] \cap got[c] = {}
        /\ got[c] \cup wire[c] \subseteq committed \cap Visible[c]

(* ACCEPTANCE.md: reconnecting with the cursor loses no event: no event    *)
(* the client may see and was not given lies behind its stored cursor.     *)
NothingSkipped ==
    \A c \in Clients : \A e \in committed \cap Visible[c] :
        e <= saved[c] => e \in got[c]

(* Every event reaches the clients that may see it.                        *)
EventsArrive ==
    \A c \in Clients : \A e \in Seqs :
        e \in committed \cap Visible[c] ~> e \in got[c]
=============================================================================
