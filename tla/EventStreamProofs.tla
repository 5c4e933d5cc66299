------------------------- MODULE EventStreamProofs -------------------------
(***************************************************************************)
(* What the event feeds guarantee for any clients, page size and bounds:   *)
(* with any number of transactions, and with a single one at a time.       *)
(***************************************************************************)
EXTENDS EventStream, FiniteSetTheorems, TLAPS

(* Every step keeps the types.                                             *)
LEMMA TypeStep ==
    ASSUME TypeOK, [Next]_vars
    PROVE  TypeOK'
  <1> USE DEF TypeOK, Seqs
  <1>1. CASE UNCHANGED vars
    BY <1>1 DEF vars, serverVars, clientVars
  <1>2. ASSUME NEW w \in Writers, Insert(w) \/ Commit(w) \/ Rollback(w)
        PROVE  TypeOK'
    <2>1. open[w] \subseteq 1..MaxSeq
      OBVIOUS
    <2>2. CASE Insert(w)
      <3>1. next \in 1..MaxSeq /\ next' = next + 1
        BY <2>2, StreamAssumption DEF Insert
      <3>2. open' \in [Writers -> SUBSET (1..MaxSeq)]
        BY <2>1, <2>2, <3>1 DEF Insert
      <3>3. next' \in 1..(MaxSeq + 1)
        BY <3>1, StreamAssumption
      <3> QED
        BY <2>2, <3>2, <3>3 DEF Insert, serverVars, clientVars
    <2>3. CASE Commit(w)
      BY <2>1, <2>3 DEF Commit, serverVars, clientVars
    <2>4. CASE Rollback(w)
      BY <2>1, <2>4 DEF Rollback, serverVars, clientVars
    <2> QED
      BY <1>2, <2>2, <2>3, <2>4
  <1>3. ASSUME NEW c \in Clients, Connect(c) \/ Drop(c)
        PROVE  TypeOK'
    <2>1. CASE Connect(c)
      BY <1>3, <2>1 DEF Connect, serverVars, clientVars
    <2>2. CASE Drop(c)
      <3>1. 0 \in 0..MaxSeq
        BY StreamAssumption
      <3>2. /\ wire' \in [Clients -> SUBSET (1..MaxSeq)]
            /\ beat' \in [Clients -> 0..MaxSeq]
            /\ drops' \in [Clients -> Nat]
            /\ online' \subseteq Clients
        BY <2>2, <3>1 DEF Drop
      <3> QED
        BY <2>2, <3>2 DEF Drop, clientVars
    <2> QED
      BY <1>3, <2>1, <2>2
  <1>4. ASSUME NEW c \in Clients, Push(c)
        PROVE  TypeOK'
    <2>1. PICK last \in Page(c) :
            /\ wire' = [wire EXCEPT ![c] = Page(c) \cap Visible[c]]
            /\ cursor' = [cursor EXCEPT ![c] = last]
            /\ beat' = [beat EXCEPT ![c] = last]
      BY <1>4 DEF Push
    <2>2. Page(c) \subseteq 1..MaxSeq
      BY DEF Page, Behind
    <2>3. last \in 0..MaxSeq
      BY <2>2, StreamAssumption
    <2> QED
      BY <1>4, <2>1, <2>2, <2>3 DEF Push, clientVars
  <1>5. ASSUME NEW c \in Clients, Receive(c)
        PROVE  TypeOK'
    BY <1>5, StreamAssumption DEF Receive
  <1>6. ASSUME NEW c \in Clients, ReceiveBeat(c)
        PROVE  TypeOK'
    <2>1. 0 \in 0..MaxSeq
      BY StreamAssumption
    <2> QED
      BY <1>6, <2>1 DEF ReceiveBeat
  <1> QED
    BY <1>1, <1>2, <1>3, <1>4, <1>5, <1>6 DEF Next, Feed

(* The initial state is well typed.                                        *)
LEMMA TypeInit == Init => TypeOK
  BY StreamAssumption DEF Init, TypeOK, Seqs

(* The variables always have their types; no cursor passes the sequence.   *)
THEOREM TypeCorrect == Spec => []TypeOK
  <1>1. TypeOK /\ [Next]_vars => TypeOK'
    BY TypeStep
  <1> QED
    BY TypeInit, <1>1, PTL DEF Spec

----------------------------------------------------------------------------
(* Each event once, and only what was committed.                           *)

(* What a client was given lies behind its cursor, what is on its way is   *)
(* ahead of it and not ahead of the server's.                              *)
InOrder(c) ==
    /\ \A e \in got[c] : e <= saved[c]
    /\ \A e \in wire[c] : saved[c] < e /\ e <= cursor[c]
    /\ c \in online => saved[c] <= cursor[c]
    /\ c \notin online => wire[c] = {} /\ beat[c] = 0
    /\ beat[c] # 0 => beat[c] = cursor[c]
    /\ got[c] \cup wire[c] \subseteq committed \cap Visible[c]

Order == TypeOK /\ \A c \in Clients : InOrder(c)

(* Every step preserves it.                                                *)
LEMMA OrderStep ==
    ASSUME Order, [Next]_vars
    PROVE  Order'
  <1>0. TypeOK'
    BY TypeStep DEF Order
  <1> USE DEF Order, TypeOK, Seqs
  <1> SUFFICES ASSUME NEW d \in Clients
               PROVE  InOrder(d)'
    BY <1>0
  <1>1. CASE UNCHANGED vars
    BY <1>1 DEF vars, serverVars, clientVars, InOrder
  <1>2. ASSUME NEW w \in Writers, Insert(w) \/ Commit(w) \/ Rollback(w)
        PROVE  InOrder(d)'
    BY <1>2 DEF Insert, Commit, Rollback, serverVars, clientVars, InOrder
  <1>3. ASSUME NEW c \in Clients, Connect(c) \/ Drop(c)
        PROVE  InOrder(d)'
    BY <1>3 DEF Connect, Drop, serverVars, clientVars, InOrder
  <1>4. ASSUME NEW c \in Clients, Push(c)
        PROVE  InOrder(d)'
    <2>1. PICK last \in Page(c) :
            /\ \A e \in Page(c) : e <= last
            /\ wire' = [wire EXCEPT ![c] = Page(c) \cap Visible[c]]
            /\ cursor' = [cursor EXCEPT ![c] = last]
            /\ beat' = [beat EXCEPT ![c] = last]
            /\ c \in online
            /\ UNCHANGED <<committed, online, saved, got>>
      BY <1>4 DEF Push, clientVars
    <2>2. \A e \in Page(c) : e \in committed /\ e > cursor[c]
      BY DEF Page, Behind
    <2>3. CASE d # c
      BY <2>1, <2>3 DEF InOrder
    <2>4. CASE d = c
      <3>1. /\ saved[c] \in 0..MaxSeq /\ cursor[c] \in 0..MaxSeq
            /\ Page(c) \subseteq 1..MaxSeq /\ saved[c] <= cursor[c]
        BY <2>1, <2>2 DEF InOrder
      <3>2. /\ cursor'[c] = last /\ beat'[c] = last
            /\ wire'[c] = Page(c) \cap Visible[c]
        BY <2>1
      <3> QED
        BY <2>1, <2>2, <2>4, <3>1, <3>2, StreamAssumption DEF InOrder
    <2> QED
      BY <2>3, <2>4
  <1>5. ASSUME NEW c \in Clients, Receive(c)
        PROVE  InOrder(d)'
    <2>1. PICK e \in wire[c] :
            /\ \A f \in wire[c] : e <= f
            /\ wire' = [wire EXCEPT ![c] = wire[c] \ {e}]
            /\ got' = [got EXCEPT ![c] = got[c] \cup {e}]
            /\ saved' = [saved EXCEPT ![c] = e]
            /\ c \in online
            /\ UNCHANGED <<committed, online, cursor, beat>>
      BY <1>5 DEF Receive
    <2>2. CASE d # c
      BY <2>1, <2>2 DEF InOrder
    <2>3. CASE d = c
      <3>1. /\ wire'[c] = wire[c] \ {e} /\ got'[c] = got[c] \cup {e} /\ saved'[c] = e
            /\ wire[c] \subseteq 1..MaxSeq /\ got[c] \subseteq 1..MaxSeq
            /\ saved[c] \in 0..MaxSeq /\ cursor[c] \in 0..MaxSeq
        BY <2>1
      <3>2. InOrder(c)
        OBVIOUS
      <3>3. \A f \in got[c] \cup {e} : f <= e
        BY <2>1, <3>1, <3>2, StreamAssumption DEF InOrder
      <3>4. \A f \in wire[c] \ {e} : e < f /\ f <= cursor[c]
        BY <2>1, <3>1, <3>2, StreamAssumption DEF InOrder
      <3>5. (got[c] \cup {e}) \cup (wire[c] \ {e}) \subseteq committed \cap Visible[c]
        BY <2>1, <3>2 DEF InOrder
      <3>6. e <= cursor[c]
        BY <2>1, <3>2 DEF InOrder
      <3> QED
        BY <2>1, <2>3, <3>1, <3>2, <3>3, <3>4, <3>5, <3>6 DEF InOrder
    <2> QED
      BY <2>2, <2>3
  <1>6. ASSUME NEW c \in Clients, ReceiveBeat(c)
        PROVE  InOrder(d)'
    BY <1>6 DEF ReceiveBeat, InOrder
  <1> QED
    BY <1>1, <1>2, <1>3, <1>4, <1>5, <1>6 DEF Next, Feed

(* It holds throughout.                                                    *)
LEMMA OrderHolds == Spec => []Order
  <1>1. Init => Order
    BY TypeInit DEF Init, Order, InOrder
  <1>2. Order /\ [Next]_vars => Order'
    BY OrderStep
  <1> QED
    BY <1>1, <1>2, PTL DEF Spec

(* However many transactions overlap and however often a client reconnects *)
(* it is given no event twice, none it may not see, and none that was      *)
(* rolled back.                                                            *)
THEOREM DeliveryIsSound == Spec => []OnceAndOnlyCommitted
  <1>1. Order => OnceAndOnlyCommitted
    BY DEF Order, TypeOK, Seqs, InOrder, OnceAndOnlyCommitted
  <1> QED
    BY <1>1, OrderHolds, PTL

----------------------------------------------------------------------------
(* Nothing is skipped while transactions do not overlap.                   *)

(* The rows of the open transaction are newer than every committed row and *)
(* than every cursor: numbers become visible in their order.               *)
Newest(w) ==
    /\ \A e \in committed \cup open[w] : e < next
    /\ \A e \in committed, f \in open[w] : e < f
    /\ \A c \in Clients :
        /\ saved[c] < next
        /\ \A f \in open[w] : saved[c] < f
        /\ c \in online => cursor[c] < next /\ \A f \in open[w] : cursor[c] < f

(* Behind the client's cursor everything was given; between it and the     *)
(* server's everything is on its way.                                      *)
Complete(c) ==
    /\ \A e \in committed \cap Visible[c] : e <= saved[c] => e \in got[c]
    /\ c \in online =>
        \A e \in committed \cap Visible[c] : saved[c] < e /\ e <= cursor[c] => e \in wire[c]

(* A page is a prefix of what is behind the cursor.                        *)
LEMMA PageIsPrefix ==
    ASSUME TypeOK, NEW c \in Clients, NEW last \in Page(c),
           NEW e \in committed, e > cursor[c], e <= last
    PROVE  e \in Page(c)
  <1> DEFINE A == {f \in Behind(c) : f < e}
             B == {f \in Behind(c) : f < last}
  <1>1. Behind(c) \subseteq 1..MaxSeq /\ e \in 1..MaxSeq /\ last \in 1..MaxSeq
    BY DEF TypeOK, Seqs, Page, Behind
  <1>2. A \subseteq B /\ B \subseteq 1..MaxSeq
    BY <1>1
  <1>3. IsFiniteSet(B)
    <2>1. 1 \in Int /\ MaxSeq \in Int
      BY StreamAssumption
    <2>2. IsFiniteSet(1..MaxSeq)
      BY <2>1, FS_Interval
    <2> HIDE DEF B
    <2> QED
      BY <1>2, <2>2, FS_Subset
  <1>4. Cardinality(A) <= Cardinality(B) /\ IsFiniteSet(A)
    BY <1>2, <1>3, FS_Subset
  <1>5. Cardinality(A) \in Nat /\ Cardinality(B) \in Nat
    BY <1>3, <1>4, FS_CardinalityType
  <1>6. Cardinality(B) < Limit
    BY DEF Page
  <1>7. Cardinality(A) < Limit
    BY <1>4, <1>5, <1>6, StreamAssumption
  <1>8. e \in Behind(c)
    BY DEF Behind
  <1> QED
    BY <1>7, <1>8 DEF Page

(* One transaction at a time: ACCEPTANCE.md's promise holds; a client that *)
(* reconnects with its cursor misses nothing, wherever it was cut off.     *)
THEOREM OneWriterSkipsNothing ==
    ASSUME NEW w, Writers = {w}
    PROVE  Spec => []NothingSkipped
  <1> DEFINE Inv == Order /\ Newest(w) /\ \A c \in Clients : Complete(c)
  <1> USE DEF Order, TypeOK, Seqs
  <1>1. Init => Inv
    BY TypeInit DEF Init, InOrder, Newest, Complete
  <1>2. ASSUME Inv, [Next]_vars
        PROVE  Inv'
    <2>0. Order'
      BY <1>2, OrderStep
    <2>1. /\ w \in Writers /\ open[w] \subseteq 1..MaxSeq
          /\ committed \subseteq 1..MaxSeq /\ next \in 1..(MaxSeq + 1)
          /\ \A c \in Clients : /\ saved[c] \in 0..MaxSeq /\ cursor[c] \in 0..MaxSeq
                                /\ InOrder(c) /\ Complete(c)
          /\ Newest(w)
      BY <1>2
    <2> HIDE DEF Order, TypeOK
    <2>2. CASE UNCHANGED vars
      BY <2>0, <2>1, <2>2 DEF vars, serverVars, clientVars, Newest, Complete
    <2>3. CASE Insert(w)
      <3>1. /\ open'[w] = open[w] \cup {next} /\ next' = next + 1
            /\ UNCHANGED <<committed, online, cursor, wire, saved, got>>
        BY <1>2, <2>1, <2>3 DEF Insert, serverVars, clientVars, Order, TypeOK
      <3>2. Newest(w)'
        BY <2>1, <3>1, StreamAssumption DEF Newest
      <3>3. \A c \in Clients : Complete(c)'
        BY <2>1, <3>1 DEF Complete
      <3> QED
        BY <2>0, <3>2, <3>3
    <2>4. CASE Commit(w)
      <3>1. /\ open'[w] = {} /\ committed' = committed \cup open[w]
            /\ UNCHANGED <<next, online, cursor, wire, saved, got>>
        BY <1>2, <2>1, <2>4 DEF Commit, serverVars, clientVars, Order, TypeOK
      <3>2. Newest(w)'
        BY <2>1, <3>1 DEF Newest
      <3>3. \A c \in Clients : Complete(c)'
        BY <2>1, <3>1, StreamAssumption DEF Complete, Newest
      <3> QED
        BY <2>0, <3>2, <3>3
    <2>5. CASE Rollback(w)
      <3>1. /\ open'[w] = {}
            /\ UNCHANGED <<next, committed, online, cursor, wire, saved, got>>
        BY <1>2, <2>1, <2>5 DEF Rollback, serverVars, clientVars, Order, TypeOK
      <3>2. Newest(w)'
        BY <2>1, <3>1 DEF Newest
      <3>3. \A c \in Clients : Complete(c)'
        BY <2>1, <3>1 DEF Complete
      <3> QED
        BY <2>0, <3>2, <3>3
    <2>6. ASSUME NEW c \in Clients, Connect(c)
          PROVE  Inv'
      <3>1. /\ online' = online \cup {c} /\ cursor'[c] = saved[c]
            /\ \A d \in Clients \ {c} : cursor'[d] = cursor[d]
            /\ UNCHANGED <<next, open, committed, wire, saved, got>>
        BY <1>2, <2>6 DEF Connect, clientVars, Order, TypeOK
      <3>2. Newest(w)'
        BY <2>1, <3>1 DEF Newest
      <3>3. ASSUME NEW d \in Clients
            PROVE  Complete(d)'
        BY <2>1, <3>1, StreamAssumption DEF Complete
      <3> QED
        BY <2>0, <3>2, <3>3
    <2>7. ASSUME NEW c \in Clients, Push(c)
          PROVE  Inv'
      <3>1. PICK last \in Page(c) :
              /\ \A e \in Page(c) : e <= last
              /\ wire' = [wire EXCEPT ![c] = Page(c) \cap Visible[c]]
              /\ cursor' = [cursor EXCEPT ![c] = last]
              /\ wire[c] = {}
              /\ UNCHANGED <<next, open, committed, online, saved, got>>
        BY <2>7 DEF Push, clientVars
      <3>2. last \in committed /\ last > cursor[c]
        BY DEF Page, Behind
      <3>3. /\ wire'[c] = Page(c) \cap Visible[c] /\ cursor'[c] = last
            /\ \A d \in Clients \ {c} : cursor'[d] = cursor[d] /\ wire'[d] = wire[d]
        BY <1>2, <3>1 DEF Order, TypeOK
      <3>4. Newest(w)'
        BY <2>1, <3>1, <3>2, <3>3 DEF Newest
      <3>5. ASSUME NEW d \in Clients \ {c}
            PROVE  Complete(d)'
        BY <2>1, <3>1, <3>3 DEF Complete
      <3>6. ASSUME NEW e \in committed \cap Visible[c], saved[c] < e, e <= last, c \in online
            PROVE  e \in Page(c)
        <4>1. e > cursor[c]
          <5>1. ~(e <= cursor[c])
            BY <2>1, <3>1, <3>6 DEF Complete
          <5> QED
            BY <2>1, <5>1, StreamAssumption
        <4>2. TypeOK
          BY <1>2 DEF Order
        <4> QED
          BY <3>6, <4>1, <4>2, PageIsPrefix
      <3>7. Complete(c)'
        BY <2>1, <3>1, <3>3, <3>6 DEF Complete
      <3> QED
        BY <2>0, <3>4, <3>5, <3>7
    <2>8. ASSUME NEW c \in Clients, Receive(c)
          PROVE  Inv'
      <3>1. PICK e \in wire[c] :
              /\ \A f \in wire[c] : e <= f
              /\ wire' = [wire EXCEPT ![c] = wire[c] \ {e}]
              /\ got' = [got EXCEPT ![c] = got[c] \cup {e}]
              /\ saved' = [saved EXCEPT ![c] = e]
              /\ c \in online
              /\ UNCHANGED <<next, open, committed, online, cursor>>
        BY <2>8 DEF Receive
      <3>2. /\ wire'[c] = wire[c] \ {e} /\ got'[c] = got[c] \cup {e} /\ saved'[c] = e
            /\ \A d \in Clients \ {c} :
                    wire'[d] = wire[d] /\ got'[d] = got[d] /\ saved'[d] = saved[d]
            /\ e \in 1..MaxSeq
        BY <1>2, <3>1 DEF Order, TypeOK, Seqs
      <3>3. e \in committed /\ saved[c] < e
        BY <2>1, <3>1 DEF InOrder
      <3>4. Newest(w)'
        BY <2>1, <3>1, <3>2, <3>3 DEF Newest
      <3>5. ASSUME NEW d \in Clients \ {c}
            PROVE  Complete(d)'
        BY <2>1, <3>1, <3>2 DEF Complete
      <3>6. e <= cursor[c]
        BY <2>1, <3>1 DEF InOrder
      <3>7. ASSUME NEW f \in committed \cap Visible[c], f <= e
            PROVE  f \in got[c] \cup {e}
        <4>1. f \in 1..MaxSeq
          BY <2>1
        <4>2. CASE f <= saved[c]
          BY <2>1, <4>2 DEF Complete
        <4>3. CASE saved[c] < f
          BY <2>1, <3>1, <3>2, <3>6, <3>7, <4>1, <4>3, StreamAssumption DEF Complete
        <4> QED
          BY <2>1, <4>1, <4>2, <4>3, StreamAssumption
      <3>8. ASSUME NEW f \in committed \cap Visible[c], e < f, f <= cursor[c]
            PROVE  f \in wire[c] \ {e}
        BY <2>1, <3>1, <3>2, <3>3, <3>8, StreamAssumption DEF Complete
      <3>9. Complete(c)'
        BY <3>1, <3>2, <3>7, <3>8 DEF Complete
      <3> QED
        BY <2>0, <3>4, <3>5, <3>9
    <2>9. ASSUME NEW c \in Clients, ReceiveBeat(c)
          PROVE  Inv'
      <3>1. /\ saved' = [saved EXCEPT ![c] = beat[c]]
            /\ c \in online /\ wire[c] = {} /\ beat[c] = cursor[c]
            /\ UNCHANGED <<next, open, committed, online, cursor, wire, got>>
        BY <2>1, <2>9 DEF ReceiveBeat, InOrder
      <3>2. /\ saved'[c] = cursor[c]
            /\ \A d \in Clients \ {c} : saved'[d] = saved[d]
        BY <1>2, <3>1 DEF Order, TypeOK
      <3>3. Newest(w)'
        BY <2>1, <3>1, <3>2 DEF Newest
      <3>4. ASSUME NEW d \in Clients \ {c}
            PROVE  Complete(d)'
        BY <2>1, <3>1, <3>2 DEF Complete
      <3>5. Complete(c)'
        BY <2>1, <3>1, <3>2, StreamAssumption DEF Complete
      <3> QED
        BY <2>0, <3>3, <3>4, <3>5
    <2>10. ASSUME NEW c \in Clients, Drop(c)
           PROVE  Inv'
      <3>1. /\ online' = online \ {c}
            /\ \A d \in Clients \ {c} : wire'[d] = wire[d]
            /\ UNCHANGED <<next, open, committed, cursor, saved, got>>
        BY <1>2, <2>10 DEF Drop, clientVars, Order, TypeOK
      <3>2. Newest(w)'
        BY <2>1, <3>1 DEF Newest
      <3>3. ASSUME NEW d \in Clients
            PROVE  Complete(d)'
        BY <2>1, <3>1 DEF Complete
      <3> QED
        BY <2>0, <3>2, <3>3
    <2> QED
      BY <1>2, <2>2, <2>3, <2>4, <2>5, <2>6, <2>7, <2>8, <2>9, <2>10 DEF Next, Feed
  <1>3. Inv => NothingSkipped
    BY DEF Complete, NothingSkipped
  <1> QED
    BY <1>1, <1>2, <1>3, PTL DEF Spec
=============================================================================
