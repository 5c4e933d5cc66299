---------------------------- MODULE CarpoolProofs ----------------------------
(***************************************************************************)
(* The loop of run_carpool is correct for any orders and any fleet: each   *)
(* DRAFT order is accounted for once, a candidate fits its vehicle and is  *)
(* explained by one order, its stops deliver what was ordered, and no pair *)
(* of a given up order is missed.                                          *)
(*                                                                         *)
(* The loops of the model are recursive functions on 0..n.  Their values   *)
(* from turn to turn are a trace (LoopRuns), and what a turn preserves     *)
(* holds along it (Climb).                                                 *)
(***************************************************************************)
EXTENDS Carpool, FiniteSetTheorems, SequenceTheorems, TLAPS

----------------------------------------------------------------------------
(* Numbers and loops.                                                      *)

(* What holds at 0, and at each number up to n if it holds at the one      *)
(* before, holds at all of them: the initial segments of 1..n are ordered  *)
(* by inclusion, and the smallest that fails does not.                     *)
LEMMA Climb ==
    ASSUME NEW n \in Nat, NEW Z, 0 \in Z, \A k \in 1..n : k - 1 \in Z => k \in Z
    PROVE  \A k \in 0..n : k \in Z
  <1> DEFINE Bad == {1..k : k \in {m \in 0..n : m \notin Z}}
  <1> SUFFICES ASSUME Bad # {} PROVE FALSE
    OBVIOUS
  <1>1. Bad \subseteq SUBSET (1..n)
    OBVIOUS
  <1>2. \A k \in 0..n : k \notin Z => 1..k \in Bad
    OBVIOUS
  <1>3. \A U \in Bad : \E k \in 0..n : k \notin Z /\ U = 1..k
    OBVIOUS
  <1> HIDE DEF Bad
  <1>4. PICK U \in Bad : \A V \in Bad : <<V, U>> \notin StrictSubsetOrdering(1..n)
    <2>1. IsFiniteSet(1..n)
      BY FS_Interval
    <2>2. IsWellFoundedOn(StrictSubsetOrdering(1..n), SUBSET (1..n))
      BY <2>1, FS_FiniteSubsetsOfFinite, FS_StrictSubsetOrderingWellFounded
    <2> QED
      BY <1>1, <2>2, WFMin
  <1>5. PICK k \in 0..n : k \notin Z /\ U = 1..k
    BY <1>3
  <1>6. k \in 1..n /\ k - 1 \in 0..n /\ k - 1 \notin Z
    BY <1>5
  <1>7. 1..(k - 1) \subseteq 1..k /\ 1..(k - 1) # 1..k /\ 1..k \subseteq 1..n
    BY <1>6
  <1>8. <<1..(k - 1), U>> \in StrictSubsetOrdering(1..n)
    BY <1>5, <1>7 DEF StrictSubsetOrdering
  <1> QED
    BY <1>2, <1>4, <1>6, <1>8

(* A set of natural numbers has a least member.                            *)
LEMMA Least ==
    ASSUME NEW Z, Z \subseteq Nat, Z # {}
    PROVE  \E k \in Z : \A j \in Z : k <= j
  <1> SUFFICES ASSUME \A k \in Z : \E j \in Z : j < k PROVE FALSE
    OBVIOUS
  <1>1. PICK m \in Z : TRUE
    OBVIOUS
  <1> DEFINE Below == {k \in 0..m : \A j \in Z : k <= j}
  <1>2. 0 \in Below
    BY <1>1
  <1>3. \A k \in 1..m : k - 1 \in Below => k \in Below
    <2> SUFFICES ASSUME NEW k \in 1..m, k - 1 \in Below PROVE k \in Below
      OBVIOUS
    <2>1. k - 1 \notin Z
      OBVIOUS
    <2> QED
      BY <2>1
  <1> HIDE DEF Below
  <1>4. m \in Below
    <2>1. m \in Nat /\ m \in 0..m
      BY <1>1
    <2> QED
      BY <1>2, <1>3, <2>1, Climb
  <1> QED
    BY <1>1, <1>4 DEF Below

(* The turns of a loop, and the values of its variable from turn to turn.  *)
Turns(step, n, D) == \A k \in 1..n : \A x \in D : step[k][x] \in D
Trace(f, a, step, n) == f[0] = a /\ \A k \in 1..n : f[k] = step[k][f[k - 1]]

(* One more turn prolongs a trace.                                         *)
LEMMA TraceGrows ==
    ASSUME NEW m \in Nat, m > 0, NEW D, NEW a, NEW step, NEW f \in [0..(m - 1) -> D],
           Trace(f, a, step, m - 1), NEW x \in D, x = step[m][f[m - 1]]
    PROVE  \E h \in [0..m -> D] : Trace(h, a, step, m)
  <1> DEFINE h == [k \in 0..m |-> IF k = m THEN x ELSE f[k]]
  <1>1. h \in [0..m -> D] /\ h[m] = x /\ \A k \in 0..(m - 1) : h[k] = f[k]
    OBVIOUS
  <1> HIDE DEF h
  <1>2. h[0] = a
    BY <1>1 DEF Trace
  <1>3. ASSUME NEW k \in 1..m, k # m
        PROVE  h[k] = step[k][h[k - 1]]
    <2>1. k \in 1..(m - 1) /\ k \in 0..(m - 1) /\ k - 1 \in 0..(m - 1)
      BY <1>3
    <2>2. h[k] = f[k] /\ h[k - 1] = f[k - 1]
      BY <1>1, <2>1
    <2>3. f[k] = step[k][f[k - 1]]
      BY <2>1 DEF Trace
    <2> QED
      BY <2>2, <2>3
  <1>4. h[m] = step[m][h[m - 1]]
    <2>1. m - 1 \in 0..(m - 1)
      OBVIOUS
    <2>2. h[m - 1] = f[m - 1]
      BY <1>1, <2>1
    <2> QED
      BY <1>1, <2>2
  <1> QED
    BY <1>1, <1>2, <1>3, <1>4 DEF Trace

(* Every loop has a trace.                                                 *)
LEMMA LoopRuns ==
    ASSUME NEW n \in Nat, NEW D, NEW a \in D, NEW step, Turns(step, n, D)
    PROVE  \E f \in [0..n -> D] : Trace(f, a, step, n)
  <1> DEFINE Reached == {m \in 0..n : \E f \in [0..m -> D] : Trace(f, a, step, m)}
  <1>1. 0 \in Reached
    <2> DEFINE g == [k \in 0..0 |-> a]
    <2>1. g \in [0..0 -> D] /\ g[0] = a
      OBVIOUS
    <2> HIDE DEF g
    <2>2. Trace(g, a, step, 0)
      BY <2>1 DEF Trace
    <2> QED
      BY <2>1, <2>2
  <1>2. ASSUME NEW m \in 1..n, m - 1 \in Reached
        PROVE  m \in Reached
    <2>1. PICK f \in [0..(m - 1) -> D] : Trace(f, a, step, m - 1)
      BY <1>2
    <2>2. m \in Nat /\ m > 0 /\ f[m - 1] \in D
      BY m - 1 \in 0..(m - 1)
    <2>3. step[m][f[m - 1]] \in D
      BY <2>2 DEF Turns
    <2>4. \E h \in [0..m -> D] : Trace(h, a, step, m)
      BY <2>1, <2>2, <2>3, TraceGrows
    <2> QED
      BY <2>4
  <1> HIDE DEF Reached
  <1>3. n \in Reached
    BY <1>1, <1>2, Climb
  <1> QED
    BY <1>3 DEF Reached

----------------------------------------------------------------------------
(* A sequence along another one.                                           *)

(* r consists of elements of the first k of s, in their order; e says      *)
(* which.                                                                  *)
Along(e, r, s, k) ==
    /\ e \in [1..Len(r) -> 1..k]
    /\ \A i \in 1..Len(r) : r[i] = s[e[i]]
    /\ \A i, j \in 1..Len(r) : i < j => e[i] < e[j]

With(e, r, k) == [i \in 1..(Len(r) + 1) |-> IF i <= Len(r) THEN e[i] ELSE k]

(* One more element may be passed over.                                    *)
LEMMA AlongPast ==
    ASSUME NEW e, NEW r, NEW s, NEW k \in Nat, k > 0, Along(e, r, s, k - 1)
    PROVE  Along(e, r, s, k)
  BY DEF Along

(* One more element may be taken.                                          *)
LEMMA AlongTaken ==
    ASSUME NEW T, NEW s \in Seq(T), NEW r \in Seq(T), NEW k \in 1..Len(s), NEW e,
           Along(e, r, s, k - 1)
    PROVE  Along(With(e, r, k), Append(r, s[k]), s, k)
  <1>1. s[k] \in T
    BY ElementOfSeq
  <1>2. /\ Len(Append(r, s[k])) = Len(r) + 1 /\ Len(r) \in Nat
        /\ \A i \in 1..Len(r) : Append(r, s[k])[i] = r[i]
        /\ Append(r, s[k])[Len(r) + 1] = s[k]
    BY <1>1, AppendProperties, LenProperties
  <1>3. \A i \in 1..(Len(r) + 1) : With(e, r, k)[i] = IF i <= Len(r) THEN e[i] ELSE k
    BY DEF With
  <1>4. \A i \in 1..Len(r) : e[i] \in 1..(k - 1)
    BY DEF Along
  <1>5. With(e, r, k) \in [1..(Len(r) + 1) -> 1..k]
    BY <1>2, <1>4 DEF With
  <1>6. \A i \in 1..(Len(r) + 1) : Append(r, s[k])[i] = s[With(e, r, k)[i]]
    BY <1>2, <1>3 DEF Along
  <1>7. \A i, j \in 1..(Len(r) + 1) : i < j => With(e, r, k)[i] < With(e, r, k)[j]
    BY <1>2, <1>3, <1>4 DEF Along
  <1> QED
    BY <1>2, <1>5, <1>6, <1>7 DEF Along

(* A sequence without repetition has none along it.                        *)
LEMMA AlongInjective ==
    ASSUME NEW s, IsInjective(s), NEW r, NEW e, DOMAIN s = 1..Len(s), DOMAIN r = 1..Len(r),
           Len(r) \in Nat, Along(e, r, s, Len(s)), Len(s) \in Nat
    PROVE  IsInjective(r) /\ ToSet(r) \subseteq ToSet(s)
  <1>1. \A i \in 1..Len(r) : e[i] \in 1..Len(s) /\ r[i] = s[e[i]]
    BY DEF Along
  <1>2. ASSUME NEW i \in 1..Len(r), NEW j \in 1..Len(r), r[i] = r[j] PROVE i = j
    <2>1. e[i] = e[j]
      BY <1>1, <1>2 DEF IsInjective
    <2> QED
      BY <1>1, <2>1 DEF Along
  <1> QED
    BY <1>1, <1>2 DEF IsInjective, ToSet

----------------------------------------------------------------------------
(* Only.                                                                   *)

OnlyTurn(s, S, k, r) == IF s[k] \in S THEN Append(r, s[k]) ELSE r
IsOnly(f, s, S) ==
    f = [k \in 0..Len(s) |-> IF k = 0 THEN <<>> ELSE OnlyTurn(s, S, k, f[k - 1])]

OnlyTrace(f, T, s, S) ==
    /\ f \in [0..Len(s) -> Seq(T)]
    /\ f[0] = <<>>
    /\ \A k \in 1..Len(s) : f[k] = OnlyTurn(s, S, k, f[k - 1])
    /\ Only(s, S) = f[Len(s)]

(* The loop that Only runs.                                                *)
LEMMA OnlyLoop ==
    ASSUME NEW T, NEW s \in Seq(T), NEW S
    PROVE  \E f : OnlyTrace(f, T, s, S)
  <1> DEFINE n == Len(s)
             step == [k \in 1..n |-> [r \in Seq(T) |-> OnlyTurn(s, S, k, r)]]
             g == CHOOSE f : IsOnly(f, s, S)
  <1>1. n \in Nat /\ <<>> \in Seq(T)
    BY LenProperties, EmptySeq
  <1>2. ASSUME NEW k \in 1..n, NEW r \in Seq(T)
        PROVE  OnlyTurn(s, S, k, r) \in Seq(T)
    BY ElementOfSeq, AppendProperties DEF OnlyTurn
  <1>3. \A k \in 1..n, r \in Seq(T) : step[k][r] = OnlyTurn(s, S, k, r)
    OBVIOUS
  <1>4. Only(s, S) = g[n]
    BY DEF Only, IsOnly, OnlyTurn
  <1> HIDE DEF step, g, n
  <1>5. Turns(step, n, Seq(T))
    BY <1>2, <1>3 DEF Turns
  <1>6. PICK f \in [0..n -> Seq(T)] : Trace(f, <<>>, step, n)
    BY <1>1, <1>5, LoopRuns
  <1>7. ASSUME NEW k \in 1..n
        PROVE  f[k] = OnlyTurn(s, S, k, f[k - 1])
    <2>1. f[k - 1] \in Seq(T)
      BY <1>1
    <2> QED
      BY <1>3, <1>6, <2>1 DEF Trace
  <1>8. IsOnly(f, s, S)
    <2>1. ASSUME NEW k \in 0..n
          PROVE  f[k] = IF k = 0 THEN <<>> ELSE OnlyTurn(s, S, k, f[k - 1])
      <3>1. CASE k = 0
        BY <1>6, <3>1 DEF Trace
      <3>2. CASE k # 0
        BY <1>1, <1>7, <3>2, k \in 1..n
      <3> QED
        BY <3>1, <3>2
    <2>2. f = [k \in 0..n |-> f[k]]
      OBVIOUS
    <2> QED
      BY <2>1, <2>2 DEF IsOnly, n
  <1>9. IsOnly(g, s, S)
    BY <1>8 DEF g
  <1>10. g[0] = <<>> /\ \A k \in 1..n : g[k] = OnlyTurn(s, S, k, g[k - 1])
    <2>1. \A k \in 0..n : g[k] = IF k = 0 THEN <<>> ELSE OnlyTurn(s, S, k, g[k - 1])
      BY <1>9 DEF IsOnly, n
    <2>2. \A k \in 1..n : k \in 0..n /\ k # 0
      BY <1>1
    <2>3. 0 \in 0..n
      BY <1>1
    <2> QED
      BY <2>1, <2>2, <2>3
  <1> DEFINE Typed == {k \in 0..n : g[k] \in Seq(T)}
  <1>11. 0 \in Typed
    <2>1. g[0] = <<>>
      BY <1>10
    <2>2. g[0] \in Seq(T)
      BY <1>1, <2>1, Zenon
    <2> QED
      BY <1>1, <2>2
  <1>12. ASSUME NEW k \in 1..n, k - 1 \in Typed
         PROVE  k \in Typed
    BY <1>1, <1>2, <1>10, <1>12
  <1>13. \A k \in 0..n : k \in Typed
    <2> HIDE DEF Typed
    <2> QED
      BY <1>1, <1>11, <1>12, Climb
  <1>14. g \in [0..n -> Seq(T)]
    <2>1. g = [k \in 0..n |-> g[k]]
      BY <1>9 DEF IsOnly, n
    <2> QED
      BY <1>13, <2>1
  <1> QED
    BY <1>4, <1>10, <1>14 DEF n, OnlyTrace

(* r holds the first k elements of s that lie in S.                        *)
Picks(e, r, s, S, k) ==
    /\ Along(e, r, s, k)
    /\ \A j \in 1..k : s[j] \in S <=> \E i \in 1..Len(r) : e[i] = j

(* One turn of the loop.                                                   *)
LEMMA TurnPicks ==
    ASSUME NEW T, NEW s \in Seq(T), NEW S, NEW k \in 1..Len(s), NEW r \in Seq(T), NEW e,
           Picks(e, r, s, S, k - 1)
    PROVE  \E d : Picks(d, OnlyTurn(s, S, k, r), s, S, k)
  <1>1. Along(e, r, s, k - 1) /\ k \in Nat /\ k > 0 /\ Len(r) \in Nat
    BY LenProperties DEF Picks
  <1>2. \A i \in 1..Len(r) : e[i] \in 1..(k - 1)
    BY <1>1 DEF Along
  <1>3. \A j \in 1..(k - 1) : s[j] \in S <=> \E i \in 1..Len(r) : e[i] = j
    BY DEF Picks
  <1>4. CASE s[k] \notin S
    <2>1. OnlyTurn(s, S, k, r) = r
      BY <1>4 DEF OnlyTurn
    <2>2. \A j \in 1..k : s[j] \in S <=> \E i \in 1..Len(r) : e[i] = j
      <3> TAKE j \in 1..k
      <3>1. CASE j = k
        BY <1>1, <1>2, <1>4, <3>1
      <3>2. CASE j # k
        BY <1>1, <1>3, <3>2, j \in 1..(k - 1)
      <3> QED
        BY <3>1, <3>2
    <2> QED
      BY <1>1, <2>1, <2>2, AlongPast DEF Picks
  <1>5. CASE s[k] \in S
    <2> DEFINE d == With(e, r, k)
    <2>1. OnlyTurn(s, S, k, r) = Append(r, s[k])
      BY <1>5 DEF OnlyTurn
    <2>2. Len(Append(r, s[k])) = Len(r) + 1
      BY <1>5, AppendProperties, ElementOfSeq
    <2>3. \A i \in 1..(Len(r) + 1) : d[i] = IF i <= Len(r) THEN e[i] ELSE k
      BY DEF With
    <2> HIDE DEF d
    <2>4. \A j \in 1..k : s[j] \in S <=> \E i \in 1..(Len(r) + 1) : d[i] = j
      <3> TAKE j \in 1..k
      <3>1. CASE j = k
        <4>1. d[Len(r) + 1] = k /\ Len(r) + 1 \in 1..(Len(r) + 1)
          BY <1>1, <2>3
        <4> QED
          BY <1>5, <3>1, <4>1
      <3>2. CASE j # k
        <4>1. \A i \in 1..Len(r) : i \in 1..(Len(r) + 1) /\ d[i] = e[i]
          BY <1>1, <2>3
        <4>2. \A i \in 1..(Len(r) + 1) : d[i] = j => i \in 1..Len(r)
          BY <1>1, <2>3, <3>2
        <4>3. s[j] \in S <=> \E i \in 1..Len(r) : e[i] = j
          BY <1>1, <1>3, <3>2, j \in 1..(k - 1)
        <4> QED
          BY <4>1, <4>2, <4>3
      <3> QED
        BY <3>1, <3>2
    <2>5. Along(d, Append(r, s[k]), s, k)
      BY <1>1, AlongTaken DEF d
    <2> QED
      BY <2>1, <2>2, <2>4, <2>5 DEF Picks
  <1> QED
    BY <1>4, <1>5

(* What Only returns.                                                      *)
LEMMA OnlyPicks ==
    ASSUME NEW T, NEW s \in Seq(T), NEW S
    PROVE  Only(s, S) \in Seq(T) /\ \E e : Picks(e, Only(s, S), s, S, Len(s))
  <1>1. PICK n \in Nat : n = Len(s)
    BY LenProperties
  <1>2. PICK f : OnlyTrace(f, T, s, S)
    BY OnlyLoop
  <1>3. /\ f \in [0..n -> Seq(T)] /\ f[0] = <<>> /\ Only(s, S) = f[n]
        /\ \A k \in 1..n : f[k] = OnlyTurn(s, S, k, f[k - 1])
    BY <1>1, <1>2 DEF OnlyTrace
  <1> DEFINE Right == {k \in 0..n : \E e : Picks(e, f[k], s, S, k)}
  <1>4. 0 \in Right
    <2>1. Len(f[0]) = 0
      BY <1>3, EmptySeq
    <2>2. 0 \in 0..n /\ 1..0 = {}
      OBVIOUS
    <2>3. Picks([i \in 1..0 |-> 0], f[0], s, S, 0)
      BY <2>1, <2>2 DEF Picks, Along
    <2> QED
      BY <2>2, <2>3
  <1>5. ASSUME NEW k \in 1..n, k - 1 \in Right
        PROVE  k \in Right
    <2>1. PICK e : Picks(e, f[k - 1], s, S, k - 1)
      BY <1>5
    <2>2. f[k - 1] \in Seq(T) /\ k \in 0..n
      BY <1>3
    <2> QED
      BY <1>1, <1>3, <2>1, <2>2, TurnPicks
  <1>6. \A k \in 0..n : k \in Right
    <2> HIDE DEF Right
    <2> QED
      BY <1>4, <1>5, Climb
  <1> QED
    BY <1>1, <1>3, <1>6

(* Only keeps the elements that lie in S, and no others.                   *)
LEMMA OnlySet ==
    ASSUME NEW T, NEW s \in Seq(T), NEW S
    PROVE  ToSet(Only(s, S)) = ToSet(s) \cap S
  <1>1. PICK r \in Seq(T) : r = Only(s, S)
    BY OnlyPicks
  <1>2. PICK e : Picks(e, r, s, S, Len(s))
    BY <1>1, OnlyPicks
  <1>3. DOMAIN r = 1..Len(r) /\ DOMAIN s = 1..Len(s)
    BY LenProperties
  <1>4. \A i \in 1..Len(r) : e[i] \in 1..Len(s) /\ r[i] = s[e[i]]
    BY <1>2 DEF Picks, Along
  <1>5. \A j \in 1..Len(s) : s[j] \in S <=> \E i \in 1..Len(r) : e[i] = j
    BY <1>2 DEF Picks
  <1>6. \A i \in 1..Len(r) : r[i] \in ToSet(s) \cap S
    BY <1>3, <1>4, <1>5 DEF ToSet
  <1>7. \A j \in 1..Len(s) : s[j] \in S => s[j] \in ToSet(r)
    BY <1>3, <1>4, <1>5 DEF ToSet
  <1>8. ToSet(r) = {r[i] : i \in 1..Len(r)} /\ ToSet(s) = {s[j] : j \in 1..Len(s)}
    BY <1>3 DEF ToSet
  <1> QED
    BY <1>1, <1>6, <1>7, <1>8

Sorted(s) == \A i, j \in DOMAIN s : i <= j => s[i].departure <= s[j].departure

(* Only repeats nothing and keeps the order.                               *)
LEMMA OnlyOrder ==
    ASSUME NEW T, NEW s \in Seq(T), NEW S, IsInjective(s), Sorted(s)
    PROVE  IsInjective(Only(s, S)) /\ Sorted(Only(s, S))
  <1>1. PICK r \in Seq(T) : r = Only(s, S)
    BY OnlyPicks
  <1>2. PICK e : Picks(e, r, s, S, Len(s))
    BY <1>1, OnlyPicks
  <1>3. /\ DOMAIN r = 1..Len(r) /\ DOMAIN s = 1..Len(s)
        /\ Len(r) \in Nat /\ Len(s) \in Nat
    BY LenProperties
  <1>4. Along(e, r, s, Len(s))
    BY <1>2 DEF Picks
  <1>5. IsInjective(r)
    BY <1>3, <1>4, AlongInjective
  <1>6. \A i \in 1..Len(r) : e[i] \in 1..Len(s) /\ r[i] = s[e[i]]
    BY <1>4 DEF Along
  <1>7. ASSUME NEW i \in 1..Len(r), NEW j \in 1..Len(r), i <= j
        PROVE  r[i].departure <= r[j].departure
    <2>1. e[i] <= e[j]
      BY <1>3, <1>4, <1>6, <1>7 DEF Along
    <2>2. s[e[i]].departure <= s[e[j]].departure
      BY <1>3, <1>6, <2>1 DEF Sorted
    <2> QED
      BY <1>6, <2>2
  <1>8. Sorted(r)
    BY <1>3, <1>7 DEF Sorted
  <1> QED
    BY <1>1, <1>5, <1>8

(* A first element that lies in S comes first.                             *)
LEMMA OnlyFirst ==
    ASSUME NEW T, NEW s \in Seq(T), NEW S, s # <<>>, s[1] \in S
    PROVE  Only(s, S) # <<>> /\ Only(s, S)[1] = s[1]
  <1>1. PICK r \in Seq(T) : r = Only(s, S)
    BY OnlyPicks
  <1>2. PICK e : Picks(e, r, s, S, Len(s))
    BY <1>1, OnlyPicks
  <1>3. Len(r) \in Nat /\ 1 \in 1..Len(s)
    BY EmptySeq, LenProperties
  <1>4. PICK i \in 1..Len(r) : e[i] = 1
    BY <1>2, <1>3 DEF Picks
  <1>5. e[1] \in 1..Len(s) /\ r[1] = s[e[1]] /\ (1 < i => e[1] < e[i])
    BY <1>2, <1>3 DEF Picks, Along
  <1>6. r[1] = s[1] /\ r # <<>>
    BY <1>3, <1>4, <1>5, EmptySeq
  <1> QED
    BY <1>1, <1>6

----------------------------------------------------------------------------
(* Sums.                                                                   *)

(* A function on 1..n is a sequence of length n.                           *)
LEMMA SeqOfFunction ==
    ASSUME NEW T, NEW n \in Nat, NEW f \in [1..n -> T]
    PROVE  f \in Seq(T) /\ Len(f) = n
  <1>1. f \in Seq(T)
    BY SeqDef
  <1>2. 1..Len(f) = 1..n /\ Len(f) \in Nat
    BY <1>1, LenProperties
  <1> QED
    BY <1>1, <1>2

IsSum(f, q) == f = [k \in 0..Len(q) |-> IF k = 0 THEN 0 ELSE f[k - 1] + q[k]]

SumTrace(f, q) ==
    /\ f \in [0..Len(q) -> Int]
    /\ f[0] = 0
    /\ \A k \in 1..Len(q) : f[k] = f[k - 1] + q[k]
    /\ Sum(q) = f[Len(q)]

(* The loop that Sum runs.                                                 *)
LEMMA SumLoop ==
    ASSUME NEW q \in Seq(Int)
    PROVE  \E f : SumTrace(f, q)
  <1> DEFINE n == Len(q)
             step == [k \in 1..n |-> [x \in Int |-> x + q[k]]]
             g == CHOOSE f : IsSum(f, q)
  <1>1. n \in Nat /\ \A k \in 1..n : q[k] \in Int
    BY LenProperties
  <1>2. \A k \in 1..n, x \in Int : step[k][x] = x + q[k]
    OBVIOUS
  <1>3. Sum(q) = g[n]
    BY DEF Sum, IsSum
  <1> HIDE DEF step, g, n
  <1>4. Turns(step, n, Int)
    <2>1. \A k \in 1..n, x \in Int : x + q[k] \in Int
      BY <1>1
    <2> QED
      BY <1>2, <2>1, Zenon DEF Turns
  <1>5. PICK f \in [0..n -> Int] : Trace(f, 0, step, n)
    <2>1. n \in Nat /\ 0 \in Int
      BY <1>1
    <2> QED
      BY <1>4, <2>1, LoopRuns, Zenon
  <1>6. ASSUME NEW k \in 1..n
        PROVE  f[k] = f[k - 1] + q[k]
    <2>1. f[k - 1] \in Int
      BY <1>1
    <2> QED
      BY <1>2, <1>5, <2>1 DEF Trace
  <1>7. IsSum(f, q)
    <2>1. ASSUME NEW k \in 0..n
          PROVE  f[k] = IF k = 0 THEN 0 ELSE f[k - 1] + q[k]
      <3>1. CASE k = 0
        BY <1>5, <3>1 DEF Trace
      <3>2. CASE k # 0
        BY <1>1, <1>6, <3>2, k \in 1..n
      <3> QED
        BY <3>1, <3>2
    <2>2. f = [k \in 0..n |-> f[k]]
      OBVIOUS
    <2> QED
      BY <2>1, <2>2 DEF IsSum, n
  <1>8. IsSum(g, q)
    BY <1>7 DEF g
  <1>9. g[0] = 0 /\ \A k \in 1..n : g[k] = g[k - 1] + q[k]
    <2>1. \A k \in 0..n : g[k] = IF k = 0 THEN 0 ELSE g[k - 1] + q[k]
      BY <1>8 DEF IsSum, n
    <2>2. \A k \in 1..n : k \in 0..n /\ k # 0
      BY <1>1
    <2>3. 0 \in 0..n
      BY <1>1
    <2> QED
      BY <2>1, <2>2, <2>3
  <1> DEFINE Typed == {k \in 0..n : g[k] \in Int}
  <1>10. 0 \in Typed
    BY <1>1, <1>9
  <1>11. ASSUME NEW k \in 1..n, k - 1 \in Typed
         PROVE  k \in Typed
    <2>1. g[k - 1] \in Int /\ q[k] \in Int /\ k \in 0..n
      BY <1>1, <1>11
    <2>2. g[k] = g[k - 1] + q[k]
      BY <1>9
    <2> QED
      BY <2>1, <2>2
  <1>12. \A k \in 0..n : k \in Typed
    <2> HIDE DEF Typed
    <2> QED
      BY <1>1, <1>10, <1>11, Climb
  <1>13. g \in [0..n -> Int]
    <2>1. g = [k \in 0..n |-> g[k]]
      BY <1>8 DEF IsSum, n
    <2> QED
      BY <1>12, <2>1
  <1> QED
    BY <1>3, <1>9, <1>13 DEF n, SumTrace

(* The sum of nothing.                                                     *)
LEMMA SumEmpty ==
    ASSUME NEW q \in Seq(Int), Len(q) = 0
    PROVE  Sum(q) = 0
  <1>1. PICK f : SumTrace(f, q)
    BY SumLoop
  <1> QED
    BY <1>1 DEF SumTrace

(* The sum of one number more.                                             *)
LEMMA SumNext ==
    ASSUME NEW q \in Seq(Int), NEW p \in Seq(Int), Len(p) = Len(q) + 1,
           \A i \in 1..Len(q) : p[i] = q[i]
    PROVE  Sum(p) = Sum(q) + p[Len(p)] /\ Sum(q) \in Int
  <1>1. PICK n \in Nat : n = Len(q)
    BY LenProperties
  <1>2. PICK f : SumTrace(f, q)
    BY SumLoop
  <1>3. PICK g : SumTrace(g, p)
    BY SumLoop
  <1> DEFINE Same == {k \in 0..n : f[k] = g[k]}
  <1>4. 0 \in Same
    BY <1>2, <1>3 DEF SumTrace
  <1>5. ASSUME NEW k \in 1..n, k - 1 \in Same
        PROVE  k \in Same
    BY <1>1, <1>2, <1>3, <1>5 DEF SumTrace
  <1>6. \A k \in 0..n : k \in Same
    <2> HIDE DEF Same
    <2> QED
      BY <1>4, <1>5, Climb
  <1>7. f[n] = g[n] /\ Sum(q) = f[n] /\ f[n] \in Int
    BY <1>1, <1>2, <1>6 DEF SumTrace
  <1>8. g[n + 1] = g[n] + p[n + 1] /\ Sum(p) = g[n + 1]
    BY <1>1, <1>3 DEF SumTrace
  <1> QED
    BY <1>1, <1>7, <1>8

(* The sum of natural numbers.                                             *)
LEMMA SumNat ==
    ASSUME NEW q \in Seq(Nat)
    PROVE  Sum(q) \in Nat
  <1>1. PICK n \in Nat : n = Len(q)
    BY LenProperties
  <1>2. q \in Seq(Int) /\ \A k \in 1..n : q[k] \in Nat
    BY <1>1, SeqMonotonic, LenProperties
  <1>3. PICK f : SumTrace(f, q)
    BY <1>2, SumLoop
  <1> DEFINE Typed == {k \in 0..n : f[k] \in Nat}
  <1>4. 0 \in Typed
    BY <1>3 DEF SumTrace
  <1>5. ASSUME NEW k \in 1..n, k - 1 \in Typed
        PROVE  k \in Typed
    BY <1>1, <1>2, <1>3, <1>5 DEF SumTrace
  <1>6. \A k \in 0..n : k \in Typed
    <2> HIDE DEF Typed
    <2> QED
      BY <1>4, <1>5, Climb
  <1> QED
    BY <1>1, <1>3, <1>6 DEF SumTrace

(* A number for each element makes a sequence of numbers.                  *)
LEMMA Numbers ==
    ASSUME NEW T, NEW s \in Seq(T), NEW D, NEW q \in [DOMAIN s -> D]
    PROVE  q \in Seq(D) /\ Len(q) = Len(s)
  BY SeqOfFunction, LenProperties

(* The sum over one element more.                                          *)
LEMMA SumAppend ==
    ASSUME NEW T, NEW s \in Seq(T), NEW o \in T, NEW q \in [DOMAIN s -> Int],
           NEW p \in [DOMAIN Append(s, o) -> Int], \A i \in DOMAIN s : p[i] = q[i]
    PROVE  Sum(p) = Sum(q) + p[Len(s) + 1] /\ Sum(q) \in Int
  <1>1. Append(s, o) \in Seq(T) /\ Len(Append(s, o)) = Len(s) + 1
    BY AppendProperties
  <1>2. q \in Seq(Int) /\ Len(q) = Len(s)
    BY Numbers
  <1>3. p \in Seq(Int) /\ Len(p) = Len(s) + 1
    BY <1>1, Numbers
  <1>4. DOMAIN s = 1..Len(s)
    BY LenProperties
  <1> QED
    BY <1>2, <1>3, <1>4, SumNext

(* What is loaded weighs something or nothing.                             *)
LEMMA WeightNat ==
    ASSUME NEW s \in Seq(Rows)
    PROVE  Weight(s) \in Nat /\ Volume(s) \in Nat
  <1>1. \A i \in DOMAIN s : s[i] \in Rows
    BY LenProperties
  <1>2. \A i \in DOMAIN s : s[i].weight \in Nat /\ s[i].volume \in Nat
    BY <1>1, RowsAssumption
  <1>3. /\ [i \in DOMAIN s |-> s[i].weight] \in [DOMAIN s -> Nat]
        /\ [i \in DOMAIN s |-> s[i].volume] \in [DOMAIN s -> Nat]
    BY <1>2
  <1>4. /\ [i \in DOMAIN s |-> s[i].weight] \in Seq(Nat)
        /\ [i \in DOMAIN s |-> s[i].volume] \in Seq(Nat)
    BY <1>3, Numbers
  <1> QED
    BY <1>4, SumNat DEF Weight, Volume

(* An order adds its weight and volume.                                    *)
LEMMA WeightAppend ==
    ASSUME NEW s \in Seq(Rows), NEW o \in Rows
    PROVE  /\ Weight(Append(s, o)) = Weight(s) + o.weight
           /\ Volume(Append(s, o)) = Volume(s) + o.volume
  <1> DEFINE r == Append(s, o)
  <1>1. /\ r \in Seq(Rows) /\ Len(r) = Len(s) + 1 /\ r[Len(s) + 1] = o
        /\ \A i \in 1..Len(s) : r[i] = s[i]
    BY AppendProperties
  <1>2. DOMAIN s = 1..Len(s) /\ DOMAIN r = 1..(Len(s) + 1) /\ Len(s) \in Nat
    BY <1>1, LenProperties
  <1>3. /\ \A i \in DOMAIN s : s[i].weight \in Int /\ s[i].volume \in Int
        /\ \A i \in DOMAIN r : r[i].weight \in Int /\ r[i].volume \in Int
    <2>1. \A i \in DOMAIN s : s[i] \in Rows
      BY LenProperties
    <2>2. \A i \in DOMAIN r : r[i] \in Rows
      BY <1>1, LenProperties
    <2> QED
      BY <2>1, <2>2, RowsAssumption
  <1> DEFINE w == [i \in DOMAIN s |-> s[i].weight]
             x == [i \in DOMAIN r |-> r[i].weight]
             v == [i \in DOMAIN s |-> s[i].volume]
             y == [i \in DOMAIN r |-> r[i].volume]
  <1>4. /\ w \in [DOMAIN s -> Int] /\ v \in [DOMAIN s -> Int]
        /\ x \in [DOMAIN r -> Int] /\ y \in [DOMAIN r -> Int]
    BY <1>3
  <1>5. \A i \in DOMAIN s : x[i] = w[i] /\ y[i] = v[i]
    BY <1>1, <1>2
  <1>6. x[Len(s) + 1] = o.weight /\ y[Len(s) + 1] = o.volume
    BY <1>1, <1>2
  <1>7. Weight(s) = Sum(w) /\ Weight(r) = Sum(x) /\ Volume(s) = Sum(v) /\ Volume(r) = Sum(y)
    BY DEF Weight, Volume
  <1> HIDE DEF w, x, v, y
  <1>8. Sum(x) = Sum(w) + o.weight
    BY <1>4, <1>5, <1>6, SumAppend
  <1>9. Sum(y) = Sum(v) + o.volume
    BY <1>4, <1>5, <1>6, SumAppend
  <1> QED
    BY <1>7, <1>8, <1>9

(* The sum over nothing.                                                   *)
LEMMA WeightEmpty == Weight(<<>>) = 0 /\ Volume(<<>>) = 0
  <1>1. DOMAIN <<>> = {}
    OBVIOUS
  <1>2. \A q : q \in [{} -> Int] => q \in Seq(Int) /\ Len(q) = 0
    BY SeqOfFunction, 1..0 = {}
  <1> QED
    BY <1>1, <1>2, SumEmpty DEF Weight, Volume

----------------------------------------------------------------------------
(* Filling a vehicle.                                                      *)

LoadTurn(g, v, k, r) == IF Fits(Append(r, g[k]), v) THEN Append(r, g[k]) ELSE r
IsLoaded(f, g, v) ==
    f = [k \in 0..Len(g) |-> IF k = 0 THEN <<>> ELSE LoadTurn(g, v, k, f[k - 1])]

LoadTrace(f, g, v) ==
    /\ f \in [0..Len(g) -> Seq(Rows)]
    /\ f[0] = <<>>
    /\ \A k \in 1..Len(g) : f[k] = LoadTurn(g, v, k, f[k - 1])
    /\ Selected(g, v) = f[Len(g)]

(* The loop that fills a vehicle.                                          *)
LEMMA LoadLoop ==
    ASSUME NEW g \in Seq(Rows), NEW v
    PROVE  \E f : LoadTrace(f, g, v)
  <1> DEFINE n == Len(g)
             step == [k \in 1..n |-> [r \in Seq(Rows) |-> LoadTurn(g, v, k, r)]]
             h == CHOOSE f : IsLoaded(f, g, v)
  <1>1. n \in Nat /\ <<>> \in Seq(Rows)
    BY LenProperties, EmptySeq
  <1>2. ASSUME NEW k \in 1..n, NEW r \in Seq(Rows)
        PROVE  LoadTurn(g, v, k, r) \in Seq(Rows)
    BY ElementOfSeq, AppendProperties DEF LoadTurn
  <1>3. \A k \in 1..n, r \in Seq(Rows) : step[k][r] = LoadTurn(g, v, k, r)
    OBVIOUS
  <1>4. Selected(g, v) = h[n]
    BY DEF Selected, IsLoaded, LoadTurn
  <1> HIDE DEF step, h, n
  <1>5. Turns(step, n, Seq(Rows))
    BY <1>2, <1>3 DEF Turns
  <1>6. PICK f \in [0..n -> Seq(Rows)] : Trace(f, <<>>, step, n)
    BY <1>1, <1>5, LoopRuns
  <1>7. ASSUME NEW k \in 1..n
        PROVE  f[k] = LoadTurn(g, v, k, f[k - 1])
    <2>1. f[k - 1] \in Seq(Rows)
      BY <1>1
    <2> QED
      BY <1>3, <1>6, <2>1 DEF Trace
  <1>8. IsLoaded(f, g, v)
    <2>1. ASSUME NEW k \in 0..n
          PROVE  f[k] = IF k = 0 THEN <<>> ELSE LoadTurn(g, v, k, f[k - 1])
      <3>1. CASE k = 0
        BY <1>6, <3>1 DEF Trace
      <3>2. CASE k # 0
        BY <1>1, <1>7, <3>2, k \in 1..n
      <3> QED
        BY <3>1, <3>2
    <2>2. f = [k \in 0..n |-> f[k]]
      OBVIOUS
    <2> QED
      BY <2>1, <2>2 DEF IsLoaded, n
  <1>9. IsLoaded(h, g, v)
    BY <1>8 DEF h
  <1>10. h[0] = <<>> /\ \A k \in 1..n : h[k] = LoadTurn(g, v, k, h[k - 1])
    <2>1. \A k \in 0..n : h[k] = IF k = 0 THEN <<>> ELSE LoadTurn(g, v, k, h[k - 1])
      BY <1>9 DEF IsLoaded, n
    <2>2. \A k \in 1..n : k \in 0..n /\ k # 0
      BY <1>1
    <2>3. 0 \in 0..n
      BY <1>1
    <2> QED
      BY <2>1, <2>2, <2>3
  <1> DEFINE Typed == {k \in 0..n : h[k] \in Seq(Rows)}
  <1>11. 0 \in Typed
    <2>1. h[0] = <<>>
      BY <1>10
    <2>2. h[0] \in Seq(Rows)
      BY <1>1, <2>1, Zenon
    <2> QED
      BY <1>1, <2>2
  <1>12. ASSUME NEW k \in 1..n, k - 1 \in Typed
         PROVE  k \in Typed
    BY <1>1, <1>2, <1>10, <1>12
  <1>13. \A k \in 0..n : k \in Typed
    <2> HIDE DEF Typed
    <2> QED
      BY <1>1, <1>11, <1>12, Climb
  <1>14. h \in [0..n -> Seq(Rows)]
    <2>1. h = [k \in 0..n |-> h[k]]
      BY <1>9 DEF IsLoaded, n
    <2> QED
      BY <1>13, <2>1
  <1> QED
    BY <1>4, <1>10, <1>14 DEF n, LoadTrace

(* What has been loaded after k orders of the group.                       *)
Loads(r, g, v, k) ==
    Fits(r, v) /\ Len(r) <= k /\ \E e : Along(e, r, g, k)

(* One turn of the loop.                                                   *)
LEMMA TurnLoads ==
    ASSUME NEW g \in Seq(Rows), NEW v, NEW k \in 1..Len(g), NEW r \in Seq(Rows),
           Loads(r, g, v, k - 1)
    PROVE  Loads(LoadTurn(g, v, k, r), g, v, k) /\ Len(r) <= Len(LoadTurn(g, v, k, r))
  <1>1. PICK e : Along(e, r, g, k - 1)
    BY DEF Loads
  <1>2. k \in Nat /\ k > 0 /\ Len(r) \in Nat /\ Len(r) <= k - 1 /\ Fits(r, v)
    BY LenProperties DEF Loads
  <1>3. CASE Fits(Append(r, g[k]), v)
    <2>1. LoadTurn(g, v, k, r) = Append(r, g[k])
      BY <1>3 DEF LoadTurn
    <2>2. Len(Append(r, g[k])) = Len(r) + 1
      BY AppendProperties, ElementOfSeq
    <2>3. Along(With(e, r, k), Append(r, g[k]), g, k)
      BY <1>1, AlongTaken
    <2> QED
      BY <1>2, <1>3, <2>1, <2>2, <2>3 DEF Loads
  <1>4. CASE ~Fits(Append(r, g[k]), v)
    <2>1. LoadTurn(g, v, k, r) = r
      BY <1>4 DEF LoadTurn
    <2>2. Along(e, r, g, k)
      BY <1>1, <1>2, AlongPast
    <2> QED
      BY <1>2, <2>1, <2>2 DEF Loads
  <1> QED
    BY <1>3, <1>4

(* Nothing fits every vehicle.                                             *)
LEMMA NothingFits ==
    ASSUME NEW v \in ToSet(Fleet)
    PROVE  Fits(<<>>, v)
  BY WeightEmpty, FleetAssumption DEF Fits, Within90

(* Each turn has loaded something that fits.                               *)
LEMMA TraceLoads ==
    ASSUME NEW g \in Seq(Rows), NEW v \in ToSet(Fleet), NEW f, LoadTrace(f, g, v)
    PROVE  \A k \in 0..Len(g) : Loads(f[k], g, v, k)
  <1>1. PICK n \in Nat : n = Len(g)
    BY LenProperties
  <1>2. /\ f \in [0..n -> Seq(Rows)] /\ f[0] = <<>>
        /\ \A k \in 1..n : f[k] = LoadTurn(g, v, k, f[k - 1])
    BY <1>1 DEF LoadTrace
  <1> DEFINE Right == {k \in 0..n : Loads(f[k], g, v, k)}
  <1>3. 0 \in Right
    <2>1. Len(f[0]) = 0 /\ Fits(f[0], v)
      BY <1>2, EmptySeq, NothingFits
    <2>2. Along([i \in 1..0 |-> 0], f[0], g, 0)
      BY <2>1 DEF Along
    <2> QED
      BY <2>1, <2>2 DEF Loads
  <1>4. ASSUME NEW k \in 1..n, k - 1 \in Right
        PROVE  k \in Right
    <2>1. f[k - 1] \in Seq(Rows) /\ Loads(f[k - 1], g, v, k - 1) /\ k \in 0..n
      BY <1>2, <1>4
    <2> QED
      BY <1>1, <1>2, <2>1, TurnLoads
  <1>5. \A k \in 0..n : k \in Right
    <2> HIDE DEF Right
    <2> QED
      BY <1>3, <1>4, Climb
  <1> QED
    BY <1>1, <1>5

(* A vehicle is filled from the group, and not beyond 90 %.                *)
LEMMA SelectedFits ==
    ASSUME NEW g \in Seq(Rows), NEW v \in ToSet(Fleet)
    PROVE  /\ Selected(g, v) \in Seq(Rows) /\ Fits(Selected(g, v), v)
           /\ Len(Selected(g, v)) <= Len(g)
           /\ \E e : Along(e, Selected(g, v), g, Len(g))
  <1>1. PICK f : LoadTrace(f, g, v)
    BY LoadLoop
  <1>2. Len(g) \in Nat /\ Len(g) \in 0..Len(g)
    BY LenProperties
  <1>3. Loads(f[Len(g)], g, v, Len(g)) /\ f[Len(g)] \in Seq(Rows)
    BY <1>1, <1>2, TraceLoads DEF LoadTrace
  <1>4. Selected(g, v) = f[Len(g)]
    BY <1>1 DEF LoadTrace
  <1> QED
    BY <1>3, <1>4 DEF Loads

(* A turn takes nothing out again.                                         *)
LEMMA TurnKeepsFirst ==
    ASSUME NEW g \in Seq(Rows), NEW v, NEW k \in 1..Len(g), NEW r \in Seq(Rows), r # <<>>
    PROVE  LoadTurn(g, v, k, r) # <<>> /\ LoadTurn(g, v, k, r)[1] = r[1]
  <1>1. g[k] \in Rows /\ 1 \in 1..Len(r)
    BY ElementOfSeq, EmptySeq, LenProperties
  <1> QED
    BY <1>1, AppendProperties DEF LoadTurn

(* The first order of the group is loaded first, if it fits by itself.     *)
LEMMA TraceFirst ==
    ASSUME NEW g \in Seq(Rows), NEW v \in ToSet(Fleet), NEW f, LoadTrace(f, g, v),
           g # <<>>, Fits(<<g[1]>>, v)
    PROVE  \A k \in 1..Len(g) : f[k] # <<>> /\ f[k][1] = g[1]
  <1>1. PICK n \in Nat : n = Len(g)
    BY LenProperties
  <1>2. /\ f \in [0..n -> Seq(Rows)] /\ f[0] = <<>>
        /\ \A k \in 1..n : f[k] = LoadTurn(g, v, k, f[k - 1])
    BY <1>1 DEF LoadTrace
  <1> DEFINE Right == {k \in 0..n : k > 0 => f[k] # <<>> /\ f[k][1] = g[1]}
  <1>3. 0 \in Right
    OBVIOUS
  <1>4. ASSUME NEW k \in 1..n, k - 1 \in Right
        PROVE  k \in Right
    <2>1. CASE k = 1
      <3>1. g[1] \in Rows
        BY <1>1, ElementOfSeq
      <3>2. Append(<<>>, g[1]) = <<g[1]>>
        OBVIOUS
      <3>3. f[1] = LoadTurn(g, v, 1, <<>>)
        BY <1>2, <2>1
      <3>4. f[1] = <<g[1]>>
        BY <3>2, <3>3 DEF LoadTurn
      <3> QED
        BY <2>1, <3>4
    <2>2. CASE k # 1
      <3>1. f[k - 1] \in Seq(Rows) /\ f[k - 1] # <<>> /\ f[k - 1][1] = g[1]
        BY <1>2, <1>4, <2>2
      <3> QED
        BY <1>1, <1>2, <3>1, TurnKeepsFirst
    <2> QED
      BY <2>1, <2>2
  <1>5. \A k \in 0..n : k \in Right
    <2> HIDE DEF Right
    <2> QED
      BY <1>3, <1>4, Climb
  <1> QED
    BY <1>1, <1>5

(* The same for what the loop leaves in the end.                           *)
LEMMA SelectedFirst ==
    ASSUME NEW g \in Seq(Rows), NEW v \in ToSet(Fleet), g # <<>>, Fits(<<g[1]>>, v)
    PROVE  Selected(g, v) # <<>> /\ Selected(g, v)[1] = g[1]
  <1>1. PICK f : LoadTrace(f, g, v)
    BY LoadLoop
  <1>2. Len(g) \in 1..Len(g)
    BY EmptySeq
  <1>3. \A k \in 1..Len(g) : f[k] # <<>> /\ f[k][1] = g[1]
    BY <1>1, TraceFirst
  <1>4. Selected(g, v) = f[Len(g)]
    BY <1>1 DEF LoadTrace
  <1> QED
    BY <1>2, <1>3, <1>4

(* Sequences of one and of two.                                            *)
LEMMA OneAndTwo ==
    ASSUME NEW T, NEW a \in T, NEW b \in T
    PROVE  /\ <<a>> \in Seq(T) /\ Len(<<a>>) = 1 /\ <<a>>[1] = a
           /\ Append(<<a>>, b) = <<a, b>>
  <1>1. <<a>> \in Seq(T) /\ Len(<<a>>) = 1 /\ <<a>>[1] = a
    OBVIOUS
  <1>2. <<a, b>> \in Seq(T) /\ Len(<<a, b>>) = 2 /\ <<a, b>>[1] = a /\ <<a, b>>[2] = b
    OBVIOUS
  <1>3. Append(<<a>>, b) \in Seq(T) /\ Len(Append(<<a>>, b)) = 2
        /\ Append(<<a>>, b)[1] = a /\ Append(<<a>>, b)[2] = b
    BY <1>1, AppendProperties
  <1>4. \A i \in 1..Len(Append(<<a>>, b)) : Append(<<a>>, b)[i] = <<a, b>>[i]
    BY <1>2, <1>3
  <1> QED
    BY <1>1, <1>2, <1>3, <1>4, SeqEqual

(* What exceeds nothing together exceeds nothing alone.                    *)
LEMMA FirstFits ==
    ASSUME NEW a \in Rows, NEW b \in Rows, NEW v \in ToSet(Fleet), Fits(<<a, b>>, v)
    PROVE  Fits(<<a>>, v)
  <1>1. <<a>> \in Seq(Rows) /\ Append(<<a>>, b) = <<a, b>>
    BY OneAndTwo
  <1>2. /\ Weight(<<a, b>>) = Weight(<<a>>) + b.weight
        /\ Volume(<<a, b>>) = Volume(<<a>>) + b.volume
    BY <1>1, WeightAppend
  <1>3. Weight(<<a>>) \in Nat /\ Volume(<<a>>) \in Nat
    BY <1>1, WeightNat
  <1>4. b.weight \in Nat /\ b.volume \in Nat /\ v.weight \in Nat /\ v.volume \in Nat
    BY RowsAssumption, FleetAssumption
  <1> QED
    BY <1>2, <1>3, <1>4 DEF Fits, Within90

(* If the first order fits together with another one of the group, two     *)
(* orders are loaded.                                                      *)
LEMMA SelectedPair ==
    ASSUME NEW g \in Seq(Rows), NEW v \in ToSet(Fleet), NEW j \in 2..Len(g),
           Fits(<<g[1], g[j]>>, v)
    PROVE  Len(Selected(g, v)) >= 2
  <1>1. PICK n \in Nat : n = Len(g)
    BY LenProperties
  <1>2. PICK f : LoadTrace(f, g, v)
    BY LoadLoop
  <1>3. /\ f \in [0..n -> Seq(Rows)] /\ Selected(g, v) = f[n]
        /\ \A k \in 1..n : f[k] = LoadTurn(g, v, k, f[k - 1])
    BY <1>1, <1>2 DEF LoadTrace
  <1>4. g # <<>> /\ g[1] \in Rows /\ g[j] \in Rows
    BY EmptySeq, LenProperties
  <1>5. Fits(<<g[1]>>, v)
    BY <1>4, FirstFits
  <1>6. f[j - 1] \in Seq(Rows) /\ f[j - 1] # <<>> /\ f[j - 1][1] = g[1]
    <2>1. \A k \in 1..Len(g) : f[k] # <<>> /\ f[k][1] = g[1]
      BY <1>2, <1>4, <1>5, TraceFirst
    <2>2. j - 1 \in 1..Len(g) /\ j - 1 \in 0..n
      BY <1>1
    <2> QED
      BY <1>3, <2>1, <2>2
  <1>7. Len(f[j]) >= 2
    <2>1. f[j] = LoadTurn(g, v, j, f[j - 1]) /\ Len(f[j - 1]) \in Nat \ {0}
      BY <1>1, <1>3, <1>6, EmptySeq
    <2>2. CASE Len(f[j - 1]) >= 2
      <3>1. Len(Append(f[j - 1], g[j])) = Len(f[j - 1]) + 1
        BY <1>4, <1>6, AppendProperties
      <3> QED
        BY <2>1, <2>2, <3>1 DEF LoadTurn
    <2>3. CASE Len(f[j - 1]) = 1
      <3>1. /\ <<g[1]>> \in Seq(Rows) /\ Len(<<g[1]>>) = 1 /\ <<g[1]>>[1] = g[1]
            /\ Append(<<g[1]>>, g[j]) = <<g[1], g[j]>>
        BY <1>4, OneAndTwo
      <3>2. f[j - 1] = <<g[1]>>
        BY <1>6, <2>3, <3>1, SeqEqual
      <3>3. Len(Append(<<g[1]>>, g[j])) = 2
        BY <1>4, <3>1, AppendProperties
      <3>4. f[j] = Append(<<g[1]>>, g[j])
        BY <2>1, <3>1, <3>2 DEF LoadTurn
      <3> QED
        BY <3>3, <3>4
    <2>4. Len(f[j - 1]) >= 2 \/ Len(f[j - 1]) = 1
      <3>1. \A m \in Nat \ {0} : m >= 2 \/ m = 1
        OBVIOUS
      <3> QED
        BY <2>1, <3>1
    <2> QED
      BY <2>2, <2>3, <2>4
  <1> DEFINE Two == {k \in 0..n : k >= j => Len(f[k]) >= 2}
  <1>8. 0 \in Two
    OBVIOUS
  <1>9. ASSUME NEW k \in 1..n, k - 1 \in Two
        PROVE  k \in Two
    <2>1. CASE k <= j
      BY <1>7, <2>1
    <2>2. CASE k > j
      <3>1. k - 1 \in 0..n /\ f[k - 1] \in Seq(Rows) /\ Len(f[k - 1]) >= 2
        BY <1>3, <1>9, <2>2
      <3>2. Loads(f[k - 1], g, v, k - 1)
        BY <1>1, <1>2, <3>1, TraceLoads
      <3>3. Len(f[k - 1]) <= Len(f[k]) /\ Loads(f[k], g, v, k)
        BY <1>1, <1>3, <3>1, <3>2, TurnLoads
      <3>4. Len(f[k]) \in Nat /\ Len(f[k - 1]) \in Nat
        BY <1>3, <3>1, LenProperties
      <3> QED
        BY <3>1, <3>3, <3>4
    <2> QED
      BY <2>1, <2>2
  <1>10. \A k \in 0..n : k \in Two
    <2> HIDE DEF Two
    <2> QED
      BY <1>8, <1>9, Climb
  <1> QED
    BY <1>1, <1>3, <1>10

----------------------------------------------------------------------------
(* Sequences of sequences.                                                 *)

IsFlat(f, ss) ==
    f = [i \in 1..Len(ss) |-> IF i = 1 THEN ss[i] ELSE f[i - 1] \o ss[i]]

FlatTrace(f, T, ss) ==
    /\ f \in [0..Len(ss) -> Seq(T)]
    /\ f[0] = <<>>
    /\ \A k \in 1..Len(ss) : f[k] = f[k - 1] \o ss[k]
    /\ FlattenSeq(ss) = f[Len(ss)]

(* The loop that FlattenSeq runs.                                          *)
LEMMA FlatLoop ==
    ASSUME NEW T, NEW ss \in Seq(Seq(T))
    PROVE  \E f : FlatTrace(f, T, ss)
  <1> DEFINE n == Len(ss)
             step == [k \in 1..n |-> [r \in Seq(T) |-> r \o ss[k]]]
             g == CHOOSE f : IsFlat(f, ss)
             h == [k \in 0..n |-> IF k = 0 THEN <<>> ELSE g[k]]
  <1>1. n \in Nat /\ <<>> \in Seq(T) /\ \A k \in 1..n : ss[k] \in Seq(T)
    BY LenProperties, EmptySeq, ElementOfSeq
  <1>2. \A k \in 1..n, r \in Seq(T) : step[k][r] = r \o ss[k] /\ r \o ss[k] \in Seq(T)
    BY <1>1, ConcatProperties
  <1>3. \A k \in 1..n : h[k] = g[k]
    OBVIOUS
  <1>4. h[0] = <<>> /\ h = [k \in 0..n |-> h[k]]
    BY <1>1
  <1>5. FlattenSeq(ss) = IF n = 0 THEN ss ELSE g[n]
    BY DEF FlattenSeq, IsFlat
  <1> HIDE DEF step, g, n, h
  <1>6. Turns(step, n, Seq(T))
    BY <1>2 DEF Turns
  <1>7. PICK f \in [0..n -> Seq(T)] : Trace(f, <<>>, step, n)
    BY <1>1, <1>6, LoopRuns
  <1>8. f[0] = <<>> /\ \A k \in 1..n : f[k] = f[k - 1] \o ss[k]
    <2>1. \A k \in 1..n : f[k - 1] \in Seq(T)
      BY <1>1
    <2> QED
      BY <1>2, <1>7, <2>1 DEF Trace
  <1> DEFINE d == [k \in 1..n |-> f[k]]
  <1>9. IsFlat(d, ss)
    <2>1. \A k \in 1..n : d[k] = f[k]
      OBVIOUS
    <2>2. d = [k \in 1..n |-> d[k]]
      OBVIOUS
    <2> HIDE DEF d
    <2>3. ASSUME NEW k \in 1..n
          PROVE  d[k] = IF k = 1 THEN ss[k] ELSE d[k - 1] \o ss[k]
      <3>1. CASE k = 1
        <4>1. k - 1 = 0
          BY <3>1
        <4>2. f[k] = <<>> \o ss[k]
          BY <1>8, <4>1
        <4>3. <<>> \o ss[k] = ss[k]
          BY <1>1, ConcatEmptySeq
        <4> QED
          BY <2>1, <3>1, <4>2, <4>3
      <3>2. CASE k # 1
        <4>1. k - 1 \in 1..n
          BY <1>1, <3>2
        <4> QED
          BY <1>8, <2>1, <3>2, <4>1
      <3> QED
        BY <3>1, <3>2
    <2> QED
      BY <2>2, <2>3 DEF IsFlat, n
  <1>10. IsFlat(g, ss)
    BY <1>9 DEF g
  <1>11. \A k \in 1..n : g[k] = IF k = 1 THEN ss[k] ELSE g[k - 1] \o ss[k]
    BY <1>10 DEF IsFlat, n
  <1>12. ASSUME NEW k \in 1..n
         PROVE  h[k] = h[k - 1] \o ss[k]
    <2>1. CASE k = 1
      <3>1. k - 1 = 0
        BY <2>1
      <3>2. h[k] = ss[k] /\ h[k - 1] = <<>>
        BY <1>3, <1>4, <1>11, <2>1, <3>1
      <3>3. <<>> \o ss[k] = ss[k]
        BY <1>1, ConcatEmptySeq
      <3> QED
        BY <3>2, <3>3
    <2>2. CASE k # 1
      <3>1. k - 1 \in 1..n
        BY <1>1, <2>2
      <3> QED
        BY <1>3, <1>11, <2>2, <3>1
    <2> QED
      BY <2>1, <2>2
  <1> DEFINE Typed == {k \in 0..n : h[k] \in Seq(T)}
  <1>13. 0 \in Typed
    <2>1. h[0] \in Seq(T)
      BY <1>1, <1>4, Zenon
    <2> QED
      BY <1>1, <2>1
  <1>14. ASSUME NEW k \in 1..n, k - 1 \in Typed
         PROVE  k \in Typed
    <2>1. h[k - 1] \in Seq(T) /\ ss[k] \in Seq(T) /\ k \in 0..n
      BY <1>1, <1>14
    <2>2. h[k] = h[k - 1] \o ss[k]
      BY <1>12
    <2>3. h[k - 1] \o ss[k] \in Seq(T)
      BY <2>1, ConcatProperties
    <2> QED
      BY <2>1, <2>2, <2>3
  <1>15. \A k \in 0..n : k \in Typed
    <2> HIDE DEF Typed
    <2> QED
      BY <1>1, <1>13, <1>14, Climb
  <1>16. h \in [0..n -> Seq(T)]
    BY <1>4, <1>15
  <1>17. FlattenSeq(ss) = h[n]
    <2>1. CASE n = 0
      BY <1>4, <1>5, <2>1, EmptySeq DEF n
    <2>2. CASE n # 0
      BY <1>1, <1>3, <1>5, <2>2, n \in 1..n
    <2> QED
      BY <2>1, <2>2
  <1> QED
    BY <1>4, <1>12, <1>16, <1>17 DEF n, FlatTrace

(* One sequence more is added at the end.                                  *)
LEMMA FlatNext ==
    ASSUME NEW T, NEW ss \in Seq(Seq(T)), NEW tt \in Seq(Seq(T)), Len(tt) = Len(ss) + 1,
           \A i \in 1..Len(ss) : tt[i] = ss[i]
    PROVE  FlattenSeq(ss) \in Seq(T) /\ FlattenSeq(tt) = FlattenSeq(ss) \o tt[Len(tt)]
  <1>1. PICK n \in Nat : n = Len(ss)
    BY LenProperties
  <1>2. PICK f : FlatTrace(f, T, ss)
    BY FlatLoop
  <1>3. PICK g : FlatTrace(g, T, tt)
    BY FlatLoop
  <1>4. /\ f \in [0..n -> Seq(T)] /\ f[0] = <<>> /\ FlattenSeq(ss) = f[n]
        /\ \A k \in 1..n : f[k] = f[k - 1] \o ss[k]
    BY <1>1, <1>2 DEF FlatTrace
  <1>5. /\ g \in [0..(n + 1) -> Seq(T)] /\ g[0] = <<>> /\ FlattenSeq(tt) = g[n + 1]
        /\ \A k \in 1..(n + 1) : g[k] = g[k - 1] \o tt[k]
    BY <1>1, <1>3 DEF FlatTrace
  <1> DEFINE Same == {k \in 0..n : f[k] = g[k]}
  <1>6. 0 \in Same
    BY <1>4, <1>5
  <1>7. ASSUME NEW k \in 1..n, k - 1 \in Same
        PROVE  k \in Same
    <2>1. f[k - 1] = g[k - 1] /\ ss[k] = tt[k] /\ k \in 0..n /\ k \in 1..(n + 1)
      BY <1>1, <1>7
    <2>2. f[k] = f[k - 1] \o ss[k] /\ g[k] = g[k - 1] \o tt[k]
      BY <1>4, <1>5, <2>1
    <2> QED
      BY <2>1, <2>2
  <1>8. \A k \in 0..n : k \in Same
    <2> HIDE DEF Same
    <2> QED
      BY <1>6, <1>7, Climb
  <1>9. f[n] = g[n] /\ f[n] \in Seq(T)
    BY <1>4, <1>8
  <1>10. g[n + 1] = g[n] \o tt[n + 1]
    <2>1. n + 1 \in 1..(n + 1) /\ (n + 1) - 1 = n
      OBVIOUS
    <2> QED
      BY <1>5, <2>1
  <1> QED
    BY <1>1, <1>4, <1>5, <1>9, <1>10

(* The elements of a sequence that has got one more.                       *)
LEMMA AppendSet ==
    ASSUME NEW s, s \in Seq(ToSet(s)), NEW x
    PROVE  /\ ToSet(Append(s, x)) = ToSet(s) \cup {x}
           /\ Append(s, x) \in Seq(ToSet(Append(s, x)))
  <1> DEFINE T == ToSet(s) \cup {x}
             r == Append(s, x)
  <1>1. s \in Seq(T)
    BY SeqMonotonic
  <1>2. /\ r \in Seq(T) /\ Len(r) = Len(s) + 1 /\ r[Len(s) + 1] = x
        /\ \A i \in 1..Len(s) : r[i] = s[i]
    BY <1>1, AppendProperties
  <1>3. DOMAIN r = 1..(Len(s) + 1) /\ DOMAIN s = 1..Len(s) /\ Len(s) \in Nat
    BY <1>1, <1>2, LenProperties
  <1>4. ToSet(r) = T
    <2> HIDE DEF r
    <2>1. \A i \in 1..(Len(s) + 1) : i = Len(s) + 1 \/ i \in 1..Len(s)
      BY <1>3
    <2>2. \A i \in DOMAIN r : r[i] \in T
      BY <1>2, <1>3, <2>1 DEF ToSet
    <2>3. x \in ToSet(r)
      BY <1>2, <1>3 DEF ToSet
    <2>4. \A i \in DOMAIN s : s[i] \in ToSet(r)
      BY <1>2, <1>3 DEF ToSet
    <2> QED
      BY <2>2, <2>3, <2>4 DEF ToSet
  <1> QED
    BY <1>2, <1>4

(* The elements of two sequences in one.                                   *)
LEMMA ConcatSet ==
    ASSUME NEW T, NEW s \in Seq(T), NEW t \in Seq(T)
    PROVE  /\ s \o t \in Seq(T) /\ Len(s \o t) = Len(s) + Len(t)
           /\ ToSet(s \o t) = ToSet(s) \cup ToSet(t)
  <1> DEFINE r == s \o t
  <1>1. /\ r \in Seq(T) /\ Len(r) = Len(s) + Len(t)
        /\ \A i \in 1..(Len(s) + Len(t)) :
                r[i] = IF i <= Len(s) THEN s[i] ELSE t[i - Len(s)]
    BY ConcatProperties
  <1> HIDE DEF r
  <1>2. /\ DOMAIN r = 1..(Len(s) + Len(t)) /\ DOMAIN s = 1..Len(s) /\ DOMAIN t = 1..Len(t)
        /\ Len(s) \in Nat /\ Len(t) \in Nat
    BY <1>1, LenProperties
  <1>3. \A i \in 1..(Len(s) + Len(t)) : i \in 1..Len(s) \/ i - Len(s) \in 1..Len(t)
    BY <1>2
  <1>4. \A i \in DOMAIN r : r[i] \in ToSet(s) \cup ToSet(t)
    BY <1>1, <1>2, <1>3 DEF ToSet
  <1>5. \A i \in DOMAIN s : i \in DOMAIN r /\ r[i] = s[i]
    BY <1>1, <1>2
  <1>6. ASSUME NEW i \in DOMAIN t
        PROVE  i + Len(s) \in DOMAIN r /\ r[i + Len(s)] = t[i]
    BY <1>1, <1>2
  <1>7. ToSet(r) = ToSet(s) \cup ToSet(t)
    BY <1>4, <1>5, <1>6 DEF ToSet
  <1> QED
    BY <1>1, <1>7 DEF r

(* A sequence without repetition is as long as the set of its elements is  *)
(* large.                                                                  *)
LEMMA LenInjective ==
    ASSUME NEW T, NEW s \in Seq(T), IsInjective(s)
    PROVE  IsFiniteSet(ToSet(s)) /\ Cardinality(ToSet(s)) = Len(s)
  <1>1. DOMAIN s = 1..Len(s) /\ Len(s) \in Nat /\ s \in [1..Len(s) -> T]
    BY LenProperties
  <1>2. s \in Bijection(1..Len(s), ToSet(s))
    BY <1>1 DEF Bijection, Injection, Surjection, IsInjective, ToSet
  <1>3. IsFiniteSet(1..Len(s)) /\ Cardinality(1..Len(s)) = Len(s)
    BY <1>1, FS_Interval
  <1> QED
    BY <1>2, <1>3, FS_Bijection DEF ExistsBijection

----------------------------------------------------------------------------
(* The orders of the request.                                              *)

(* The DRAFT orders are rows of the database, each of them once, with      *)
(* their own ids, in order of departure.                                   *)
LEMMA DraftsOrdered ==
    ASSUME book \in Books
    PROVE  /\ Drafts \in Seq(Rows) /\ IsInjective(Drafts) /\ Sorted(Drafts)
           /\ \A o, p \in ToSet(Drafts) : o.id = p.id => o = p
  <1>1. /\ book \in Seq(Rows)
        /\ \A i, j \in DOMAIN book : book[i].id = book[j].id => i = j
        /\ Sorted(book)
    BY BooksAssumption DEF Sorted
  <1>2. IsInjective(book)
    BY <1>1 DEF IsInjective
  <1>3. Drafts \in Seq(Rows) /\ IsInjective(Drafts) /\ Sorted(Drafts)
    BY <1>1, <1>2, OnlyPicks, OnlyOrder DEF Drafts
  <1>4. ToSet(Drafts) \subseteq ToSet(book)
    BY <1>1, OnlySet DEF Drafts
  <1>5. \A o, p \in ToSet(book) : o.id = p.id => o = p
    BY <1>1 DEF ToSet
  <1> QED
    BY <1>3, <1>4, <1>5

(* What is left when a group has gone.                                     *)
LEMMA WithoutGroup ==
    ASSUME NEW T, NEW s \in Seq(T), IsInjective(s), Sorted(s),
           NEW gone \in Seq(T), IsInjective(gone), ToSet(gone) \subseteq ToSet(s)
    PROVE  LET r == Without(s, gone)
           IN  /\ r \in Seq(T) /\ IsInjective(r) /\ Sorted(r)
               /\ ToSet(r) = ToSet(s) \ ToSet(gone)
               /\ Len(r) = Len(s) - Len(gone)
  <1> DEFINE r == Without(s, gone)
  <1>1. r \in Seq(T) /\ IsInjective(r) /\ Sorted(r)
    BY OnlyPicks, OnlyOrder DEF Without
  <1>2. ToSet(r) = ToSet(s) \cap (ToSet(s) \ ToSet(gone))
    BY OnlySet DEF Without
  <1> HIDE DEF r
  <1>3. ToSet(r) = ToSet(s) \ ToSet(gone)
    BY <1>2
  <1>4. /\ IsFiniteSet(ToSet(s)) /\ Cardinality(ToSet(s)) = Len(s)
        /\ Cardinality(ToSet(gone)) = Len(gone) /\ Cardinality(ToSet(r)) = Len(r)
    BY <1>1, LenInjective
  <1>5. ToSet(s) \cap ToSet(gone) = ToSet(gone)
    OBVIOUS
  <1>6. Cardinality(ToSet(r)) = Cardinality(ToSet(s)) - Cardinality(ToSet(gone))
    <2>1. IsFiniteSet(ToSet(s)) /\ IsFiniteSet(ToSet(gone))
      BY <1>4, LenInjective
    <2>2. Cardinality(ToSet(s) \ ToSet(gone))
            = Cardinality(ToSet(s)) - Cardinality(ToSet(s) \cap ToSet(gone))
      BY <2>1, FS_Difference
    <2> QED
      BY <1>3, <1>5, <2>2
  <1>7. Len(r) = Len(s) - Len(gone)
    BY <1>4, <1>6
  <1> QED
    BY <1>1, <1>3, <1>7 DEF r

(* The rest of the queue when its head has gone.                           *)
LEMMA TailRest ==
    ASSUME NEW T, NEW s \in Seq(T), s # <<>>, IsInjective(s), Sorted(s)
    PROVE  /\ Tail(s) \in Seq(T) /\ IsInjective(Tail(s)) /\ Sorted(Tail(s))
           /\ Len(Tail(s)) = Len(s) - 1 /\ ToSet(s) = {Head(s)} \cup ToSet(Tail(s))
           /\ Head(s) = s[1] /\ \A o \in ToSet(s) : Head(s).departure <= o.departure
  <1> DEFINE t == Tail(s)
  <1>1. /\ t \in Seq(T) /\ Len(t) = Len(s) - 1 /\ Head(s) = s[1]
        /\ \A i \in 1..Len(t) : t[i] = s[i + 1]
    BY HeadTailProperties
  <1> HIDE DEF t
  <1>2. /\ DOMAIN t = 1..Len(t) /\ DOMAIN s = 1..Len(s) /\ Len(t) \in Nat
        /\ Len(s) = Len(t) + 1
    BY <1>1, LenProperties
  <1>3. \A i \in DOMAIN t : i + 1 \in DOMAIN s
    BY <1>2
  <1>4. IsInjective(t)
    BY <1>1, <1>2, <1>3 DEF IsInjective
  <1>5. Sorted(t)
    BY <1>1, <1>2, <1>3 DEF Sorted
  <1>6. ToSet(s) = {s[1]} \cup ToSet(t)
    <2>1. \A i \in DOMAIN s : i = 1 \/ (i - 1 \in DOMAIN t /\ t[i - 1] = s[i])
      BY <1>1, <1>2
    <2>2. \A i \in DOMAIN t : t[i] \in ToSet(s)
      BY <1>1, <1>2, <1>3 DEF ToSet
    <2>3. s[1] \in ToSet(s)
      BY <1>2 DEF ToSet
    <2> QED
      BY <2>1, <2>2, <2>3 DEF ToSet
  <1>7. \A o \in ToSet(s) : s[1].departure <= o.departure
    BY <1>2 DEF ToSet, Sorted
  <1> QED
    BY <1>1, <1>4, <1>5, <1>6, <1>7 DEF t

(* Of the vehicles that take two orders or more, one is the best: of those *)
(* that take the most, of the lightest, of the smallest, the first.        *)
LEMMA BestUseful ==
    ASSUME NEW takes, DOMAIN takes \subseteq DOMAIN Fleet, NEW m \in Nat,
           \A i \in DOMAIN takes : takes[i] \in 0..m, Useful(takes) # {}
    PROVE  Best(takes) \in Useful(takes)
  <1> DEFINE U == Useful(takes)
  <1>1. \A i \in U : /\ i \in Nat /\ takes[i] \in 0..m
                     /\ Fleet[i].weight \in Nat /\ Fleet[i].volume \in Nat
    <2>1. DOMAIN Fleet = 1..Len(Fleet) /\ Len(Fleet) \in Nat
      BY FleetAssumption, LenProperties
    <2>2. \A i \in DOMAIN Fleet : Fleet[i] \in ToSet(Fleet) /\ i \in Nat
      BY <2>1 DEF ToSet
    <2> QED
      BY <2>2, FleetAssumption DEF Useful
  <1> HIDE DEF U
  <1>2. PICK i1 \in U : \A j \in U : takes[j] <= takes[i1]
    <2> DEFINE Z == {m - takes[i] : i \in U}
    <2>1. Z \subseteq Nat /\ Z # {}
      BY <1>1 DEF U
    <2>2. \A i \in U : m - takes[i] \in Z
      OBVIOUS
    <2>3. \A k \in Z : \E i \in U : k = m - takes[i]
      OBVIOUS
    <2> HIDE DEF Z
    <2>4. PICK k \in Z : \A j \in Z : k <= j
      BY <2>1, Least
    <2>5. PICK i \in U : k = m - takes[i]
      BY <2>3
    <2>6. \A j \in U : m - takes[i] <= m - takes[j]
      BY <2>2, <2>4, <2>5
    <2> QED
      BY <1>1, <2>5, <2>6
  <1> DEFINE A == {i \in U : takes[i] = takes[i1]}
  <1>3. PICK i2 \in A : \A j \in A : Fleet[i2].weight <= Fleet[j].weight
    <2> DEFINE Z == {Fleet[i].weight : i \in A}
    <2>1. Z \subseteq Nat
      BY <1>1
    <2>2. Z # {}
      BY <1>2
    <2>3. \A i \in A : Fleet[i].weight \in Z
      OBVIOUS
    <2>4. \A k \in Z : \E i \in A : k = Fleet[i].weight
      OBVIOUS
    <2> HIDE DEF Z
    <2>5. PICK k \in Z : \A j \in Z : k <= j
      BY <2>1, <2>2, Least
    <2> QED
      BY <2>3, <2>4, <2>5
  <1> DEFINE B == {i \in A : Fleet[i].weight = Fleet[i2].weight}
  <1>4. PICK i3 \in B : \A j \in B : Fleet[i3].volume <= Fleet[j].volume
    <2> DEFINE Z == {Fleet[i].volume : i \in B}
    <2>1. Z \subseteq Nat
      BY <1>1
    <2>2. Z # {}
      BY <1>3
    <2>3. \A i \in B : Fleet[i].volume \in Z
      OBVIOUS
    <2>4. \A k \in Z : \E i \in B : k = Fleet[i].volume
      OBVIOUS
    <2> HIDE DEF Z
    <2>5. PICK k \in Z : \A j \in Z : k <= j
      BY <2>1, <2>2, Least
    <2> QED
      BY <2>3, <2>4, <2>5
  <1> DEFINE C == {i \in B : Fleet[i].volume = Fleet[i3].volume}
  <1>5. PICK i4 \in C : \A j \in C : i4 <= j
    <2>1. C \subseteq Nat
      BY <1>1
    <2>2. C # {}
      BY <1>4
    <2> HIDE DEF C
    <2> QED
      BY <2>1, <2>2, Least
  <1>6. ASSUME NEW j \in U, j # i4
        PROVE  takes[j] < takes[i4] \/ (takes[j] = takes[i4] /\ Smaller(i4, j))
    <2>1. takes[i4] = takes[i1] /\ i4 \in U
      BY <1>5
    <2>2. CASE takes[j] # takes[i1]
      BY <1>1, <1>2, <2>1, <2>2
    <2>3. CASE j \in A /\ j \notin B
      BY <1>1, <1>3, <1>5, <2>1, <2>3 DEF Smaller
    <2>4. CASE j \in B /\ j \notin C
      BY <1>1, <1>4, <1>5, <2>1, <2>4 DEF Smaller
    <2>5. CASE j \in C
      BY <1>1, <1>5, <1>6, <2>1, <2>5 DEF Smaller
    <2> QED
      BY <2>2, <2>3, <2>4, <2>5
  <1>7. i4 \in U
    BY <1>5
  <1> QED
    BY <1>6, <1>7 DEF Best, U

----------------------------------------------------------------------------
(* The inductive invariant.                                                *)

(* The queue holds DRAFT orders, each once, in order of departure.         *)
Queued ==
    /\ book \in Books
    /\ remaining \in Seq(Rows) /\ IsInjective(remaining) /\ Sorted(remaining)
    /\ ToSet(remaining) \subseteq ToSet(Drafts)

(* What the loop has recorded are sequences; a candidate takes each of its *)
(* orders once, and its stops are those of its orders.                     *)
Recorded ==
    /\ candidates \in Seq(ToSet(candidates))
    /\ \A c \in ToSet(candidates) :
        /\ c.orders \in Seq(Rows) /\ IsInjective(c.orders)
        /\ ToSet(c.orders) \subseteq ToSet(Drafts)
        /\ c.stops = DeliveryLines(c.orders)
    /\ unmatched \in Seq(ToSet(unmatched))
    /\ \A u \in ToSet(unmatched) : u.order \in Rows

Inv == Queued /\ Recorded /\ EachOrderOnce /\ CandidatesFit

----------------------------------------------------------------------------
(* One turn of the loop.                                                   *)

(* An order suits itself.                                                  *)
LEMMA SelfCompatible == ASSUME NEW o \in Rows PROVE Compatible(o, o)
  <1>1. o.origin - o.origin = 0 /\ o.store - o.store = 0 /\ o.departure - o.departure = 0
    BY RowsAssumption
  <1> QED
    BY <1>1 DEF Compatible, Near, OriginMaxKm, DestinationMaxKm, DepartureWindow

(* The anchor's group begins with the anchor.                              *)
LEMMA AnchorGroup ==
    ASSUME Queued, remaining # <<>>
    PROVE  LET a == Head(remaining)  g == Group(a) IN
           /\ a \in Rows /\ a \in ToSet(Drafts) /\ a = remaining[1]
           /\ g \in Seq(Rows) /\ IsInjective(g) /\ Sorted(g) /\ g # <<>> /\ g[1] = a
           /\ ToSet(g) = {o \in ToSet(remaining) : Compatible(a, o)}
  <1> DEFINE a == Head(remaining)
             S == {o \in ToSet(remaining) : Compatible(a, o)}
  <1>1. /\ remaining \in Seq(Rows) /\ IsInjective(remaining) /\ Sorted(remaining)
        /\ ToSet(remaining) \subseteq ToSet(Drafts)
    BY DEF Queued
  <1>2. a = remaining[1] /\ ToSet(remaining) = {a} \cup ToSet(Tail(remaining))
    BY <1>1, TailRest
  <1>3. a \in Rows /\ a \in ToSet(Drafts) /\ a \in ToSet(remaining)
    <2>1. 1 \in 1..Len(remaining)
      BY <1>1, EmptySeq, LenProperties
    <2>2. a \in Rows
      BY <1>1, <1>2, <2>1, ElementOfSeq
    <2> QED
      BY <1>1, <1>2, <2>2
  <1>4. Compatible(a, a)
    BY <1>3, SelfCompatible
  <1>5. a \in S
    BY <1>3, <1>4
  <1>6. Group(a) = Only(remaining, S)
    BY DEF Group
  <1> HIDE DEF a, S
  <1>7. Group(a) \in Seq(Rows) /\ IsInjective(Group(a)) /\ Sorted(Group(a))
    BY <1>1, <1>6, OnlyPicks, OnlyOrder
  <1>8. Group(a) # <<>> /\ Group(a)[1] = a
    BY <1>1, <1>2, <1>5, <1>6, OnlyFirst
  <1>9. ToSet(Group(a)) = ToSet(remaining) \cap S
    BY <1>1, <1>6, OnlySet
  <1> QED
    BY <1>2, <1>3, <1>7, <1>8, <1>9 DEF a, S

(* What a suitable vehicle takes.                                          *)
LEMMA VehicleTakes ==
    ASSUME Queued, remaining # <<>>, NEW i \in Suitable(Head(remaining).zone)
    PROVE  LET a == Head(remaining)  g == Group(a)  s == Selected(g, Fleet[i]) IN
           /\ i \in DOMAIN Fleet /\ Fleet[i] \in ToSet(Fleet)
           /\ Fleet[i].enabled /\ Fleet[i].driver /\ Fleet[i].zone = a.zone
           /\ s \in Seq(Rows) /\ IsInjective(s) /\ ToSet(s) \subseteq ToSet(g)
           /\ Len(s) \in 0..Len(g) /\ Fits(s, Fleet[i])
           /\ a \in ToSet(s) \/ ~Fits(<<a>>, Fleet[i])
  <1> DEFINE a == Head(remaining)
             g == Group(a)
             v == Fleet[i]
             s == Selected(g, v)
  <1>1. g \in Seq(Rows) /\ IsInjective(g) /\ g # <<>> /\ g[1] = a
    BY AnchorGroup
  <1>2. i \in DOMAIN Fleet /\ v.enabled /\ v.driver /\ v.zone = a.zone
    BY DEF Suitable
  <1>3. v \in ToSet(Fleet)
    BY <1>2 DEF ToSet
  <1> HIDE DEF a, g, v
  <1>4. s \in Seq(Rows) /\ Fits(s, v) /\ Len(s) <= Len(g) /\ \E e : Along(e, s, g, Len(g))
    BY <1>1, <1>3, SelectedFits
  <1>5. Fits(<<a>>, v) => s # <<>> /\ s[1] = a
    BY <1>1, <1>3, SelectedFirst
  <1> HIDE DEF s
  <1>6. /\ DOMAIN s = 1..Len(s) /\ DOMAIN g = 1..Len(g) /\ Len(s) \in Nat /\ Len(g) \in Nat
    BY <1>1, <1>4, LenProperties
  <1>7. IsInjective(s) /\ ToSet(s) \subseteq ToSet(g)
    BY <1>1, <1>4, <1>6, AlongInjective
  <1>8. Fits(<<a>>, v) => a \in ToSet(s)
    <2>1. s # <<>> => 1 \in DOMAIN s
      BY <1>4, <1>6, EmptySeq
    <2> QED
      BY <1>5, <2>1 DEF ToSet
  <1>9. Len(s) \in 0..Len(g)
    BY <1>4, <1>6
  <1> QED
    BY <1>2, <1>3, <1>4, <1>7, <1>8, <1>9 DEF a, g, v, s

(* The vehicle that is chosen takes two orders or more.                    *)
LEMMA BestTakes ==
    ASSUME Queued, remaining # <<>>, Useful(Takes(Head(remaining))) # {}
    PROVE  LET a == Head(remaining)  i == Best(Takes(a)) IN
           i \in Suitable(a.zone) /\ Len(Selected(Group(a), Fleet[i])) >= 2
  <1> DEFINE a == Head(remaining)
             takes == Takes(a)
             m == Len(Group(a))
  <1>1. DOMAIN takes = Suitable(a.zone)
    BY DEF Takes
  <1>2. \A i \in Suitable(a.zone) : takes[i] = Len(Selected(Group(a), Fleet[i]))
    BY DEF Takes
  <1>3. \A i \in Suitable(a.zone) : i \in DOMAIN Fleet /\ takes[i] \in 0..m
    BY <1>2, VehicleTakes
  <1>4. m \in Nat
    BY AnchorGroup, LenProperties
  <1> HIDE DEF takes, m
  <1>5. Best(takes) \in Useful(takes)
    BY <1>1, <1>3, <1>4, BestUseful DEF takes
  <1>6. Best(takes) \in DOMAIN takes /\ takes[Best(takes)] >= 2
    BY <1>5 DEF Useful
  <1> QED
    BY <1>1, <1>2, <1>6 DEF takes

(* What a turn that finds a group does with it.                            *)
Joined(c) ==
    /\ candidates' = Append(candidates, c) /\ remaining' = Without(remaining, c.orders)
    /\ book' = book /\ unmatched' = unmatched
    /\ c.orders \in Seq(Rows) /\ IsInjective(c.orders)
    /\ ToSet(c.orders) \subseteq ToSet(remaining) /\ c.stops = DeliveryLines(c.orders)
    /\ Len(c.orders) >= 2 /\ Fits(c.orders, Fleet[c.vehicle])
    /\ Fleet[c.vehicle].enabled /\ Fleet[c.vehicle].driver
    /\ \A o \in ToSet(c.orders) : o.zone = Fleet[c.vehicle].zone
    /\ Explained(c)

(* The orders of a vehicle are explained by the anchor.                    *)
LEMMA AnchorExplains ==
    ASSUME Queued, remaining # <<>>, NEW i \in Suitable(Head(remaining).zone), NEW c,
           c.orders = Selected(Group(Head(remaining)), Fleet[i]), c.vehicle = i
    PROVE  Explained(c) /\ \A o \in ToSet(c.orders) : o.zone = Fleet[i].zone
  <1> DEFINE a == Head(remaining)
             g == Group(a)
  <1>1. /\ a \in Rows /\ a \in ToSet(Drafts)
        /\ ToSet(g) = {o \in ToSet(remaining) : Compatible(a, o)}
    BY AnchorGroup
  <1>2. /\ ToSet(c.orders) \subseteq ToSet(g) /\ Fleet[i].zone = a.zone
        /\ a \in ToSet(c.orders) \/ ~Fits(<<a>>, Fleet[c.vehicle])
    BY VehicleTakes
  <1>3. \A o \in ToSet(remaining) : o \in Rows /\ a.departure <= o.departure
    <2>1. remaining \in Seq(Rows) /\ IsInjective(remaining) /\ Sorted(remaining)
      BY DEF Queued
    <2>2. \A o \in ToSet(remaining) : o \in Rows
      BY <2>1, ElementOfSeq DEF ToSet
    <2> QED
      BY <2>1, <2>2, TailRest
  <1> HIDE DEF a, g
  <1>4. ASSUME NEW o \in ToSet(c.orders)
        PROVE  /\ o.zone = a.zone
               /\ Near(a.origin, o.origin, OriginMaxKm)
               /\ Near(a.store, o.store, DestinationMaxKm)
               /\ o.departure \in a.departure..(a.departure + DepartureWindow)
    <2>1. o \in Rows /\ a.departure <= o.departure /\ Compatible(a, o)
      BY <1>1, <1>2, <1>3
    <2>2. a.departure \in Int /\ o.departure \in Int
      BY <1>1, <2>1, RowsAssumption
    <2>3. Near(a.departure, o.departure, DepartureWindow)
      BY <2>1 DEF Compatible
    <2>4. o.departure \in a.departure..(a.departure + DepartureWindow)
      <3>1. ASSUME NEW x \in Int, NEW y \in Int, x <= y, Near(x, y, DepartureWindow)
            PROVE  y \in x..(x + DepartureWindow)
        BY <3>1 DEF Near, DepartureWindow
      <3> QED
        BY <2>1, <2>2, <2>3, <3>1
    <2> QED
      BY <2>1, <2>4 DEF Compatible
  <1>5. Explained(c)
    BY <1>1, <1>2, <1>4 DEF Explained
  <1> QED
    BY <1>2, <1>4, <1>5

(* A turn that finds a group does that with a candidate.                   *)
LEMMA MatchJoins ==
    ASSUME Queued, Match
    PROVE  \E c : Joined(c)
  <1> DEFINE a == Head(remaining)
             i == Best(Takes(a))
             s == Selected(Group(a), Fleet[i])
             c == Candidate(a, i)
  <1>1. /\ remaining # <<>> /\ Useful(Takes(a)) # {}
        /\ candidates' = Append(candidates, c) /\ remaining' = Without(remaining, c.orders)
        /\ book' = book /\ unmatched' = unmatched
    BY DEF Match
  <1>2. c.orders = s /\ c.vehicle = i /\ c.stops = DeliveryLines(s)
    BY DEF Candidate
  <1>3. i \in Suitable(a.zone) /\ Len(s) >= 2
    BY <1>1, BestTakes
  <1>4. /\ Fleet[i].enabled /\ Fleet[i].driver /\ Fleet[i].zone = a.zone
        /\ s \in Seq(Rows) /\ IsInjective(s) /\ ToSet(s) \subseteq ToSet(Group(a))
        /\ Fits(s, Fleet[i])
    BY <1>1, <1>3, VehicleTakes
  <1>5. ToSet(Group(a)) \subseteq ToSet(remaining)
    BY <1>1, AnchorGroup
  <1> HIDE DEF a, i, c, s
  <1>6. Explained(c) /\ \A o \in ToSet(c.orders) : o.zone = Fleet[i].zone
    BY <1>1, <1>2, <1>3, AnchorExplains DEF a, s
  <1>7. Joined(c)
    BY <1>1, <1>2, <1>3, <1>4, <1>5, <1>6 DEF Joined
  <1> QED
    BY <1>7

(* The DRAFT orders are those of the book.                                 *)
LEMMA DraftsKept == ASSUME book' = book PROVE Drafts' = Drafts
  BY DEF Drafts

(* The queue after a turn.                                                 *)
LEMMA TurnQueued ==
    ASSUME Queued, Match \/ GiveUp
    PROVE  Queued'
  <1>1. /\ remaining \in Seq(Rows) /\ IsInjective(remaining) /\ Sorted(remaining)
        /\ ToSet(remaining) \subseteq ToSet(Drafts) /\ book \in Books
    BY DEF Queued
  <1>2. CASE Match
    <2>1. PICK c : Joined(c)
      BY <1>2, MatchJoins
    <2>2. /\ remaining' \in Seq(Rows) /\ IsInjective(remaining') /\ Sorted(remaining')
          /\ ToSet(remaining') = ToSet(remaining) \ ToSet(c.orders)
      BY <1>1, <2>1, WithoutGroup DEF Joined
    <2>3. book' = book /\ Drafts' = Drafts
      BY <2>1, DraftsKept DEF Joined
    <2> QED
      BY <1>1, <2>2, <2>3 DEF Queued
  <1>3. CASE GiveUp
    <2>1. remaining # <<>> /\ remaining' = Tail(remaining) /\ book' = book
      BY <1>3 DEF GiveUp
    <2>2. /\ remaining' \in Seq(Rows) /\ IsInjective(remaining') /\ Sorted(remaining')
          /\ ToSet(remaining') \subseteq ToSet(remaining)
      BY <1>1, <2>1, TailRest
    <2>3. Drafts' = Drafts
      BY <2>1, DraftsKept
    <2> QED
      BY <1>1, <2>1, <2>2, <2>3 DEF Queued
  <1> QED
    BY <1>2, <1>3

----------------------------------------------------------------------------
(* Where the orders are.                                                   *)

FlatOf(cs) == FlattenSeq([i \in DOMAIN cs |-> cs[i].orders])
OrdersOf(us) == [i \in DOMAIN us |-> us[i].order]

(* The orders of the candidates, when one is added.                        *)
LEMMA FlatAppend ==
    ASSUME NEW cs, cs \in Seq(ToSet(cs)), \A c \in ToSet(cs) : c.orders \in Seq(Rows),
           NEW c, c.orders \in Seq(Rows)
    PROVE  FlatOf(cs) \in Seq(Rows) /\ FlatOf(Append(cs, c)) = FlatOf(cs) \o c.orders
  <1> DEFINE ds == Append(cs, c)
             ss == [i \in DOMAIN cs |-> cs[i].orders]
             tt == [i \in DOMAIN ds |-> ds[i].orders]
  <1>1. /\ ToSet(ds) = ToSet(cs) \cup {c} /\ ds \in Seq(ToSet(ds))
        /\ Len(ds) = Len(cs) + 1 /\ ds[Len(cs) + 1] = c
        /\ \A i \in 1..Len(cs) : ds[i] = cs[i]
    <2>1. ToSet(ds) = ToSet(cs) \cup {c} /\ ds \in Seq(ToSet(ds))
      BY AppendSet
    <2>2. cs \in Seq(ToSet(ds)) /\ c \in ToSet(ds)
      BY <2>1, SeqMonotonic
    <2> HIDE DEF ds
    <2>3. Len(ds) = Len(cs) + 1 /\ ds[Len(cs) + 1] = c /\ \A i \in 1..Len(cs) : ds[i] = cs[i]
      BY <2>2, AppendProperties DEF ds
    <2> QED
      BY <2>1, <2>3
  <1>2. \A d \in ToSet(ds) : d.orders \in Seq(Rows)
    BY <1>1
  <1>3. FlatOf(cs) = FlattenSeq(ss) /\ FlatOf(ds) = FlattenSeq(tt)
    BY DEF FlatOf
  <1> HIDE DEF ds
  <1>4. /\ ss \in [DOMAIN cs -> Seq(Rows)] /\ tt \in [DOMAIN ds -> Seq(Rows)]
        /\ DOMAIN cs = 1..Len(cs) /\ DOMAIN ds = 1..Len(ds) /\ Len(cs) \in Nat
    BY <1>1, <1>2, LenProperties DEF ToSet
  <1>5. \A i \in 1..Len(cs) : tt[i] = ss[i]
    BY <1>1, <1>4
  <1>6. tt[Len(cs) + 1] = c.orders
    BY <1>1, <1>4
  <1> HIDE DEF ss, tt
  <1>7. ss \in Seq(Seq(Rows)) /\ Len(ss) = Len(cs) /\ tt \in Seq(Seq(Rows)) /\ Len(tt) = Len(ds)
    BY <1>1, <1>4, Numbers
  <1>8. FlattenSeq(ss) \in Seq(Rows) /\ FlattenSeq(tt) = FlattenSeq(ss) \o tt[Len(tt)]
    BY <1>1, <1>5, <1>7, FlatNext
  <1> QED
    BY <1>1, <1>3, <1>6, <1>7, <1>8 DEF ds

(* The orders that have been given up are those of the list.               *)
LEMMA OrdersListed ==
    ASSUME NEW us, us \in Seq(ToSet(us)), \A u \in ToSet(us) : u.order \in Rows
    PROVE  /\ OrdersOf(us) \in Seq(Rows) /\ Len(OrdersOf(us)) = Len(us)
           /\ ToSet(OrdersOf(us)) = {u.order : u \in ToSet(us)}
  <1> DEFINE q == [i \in DOMAIN us |-> us[i].order]
  <1>1. q \in [DOMAIN us -> Rows] /\ DOMAIN q = DOMAIN us
    BY DEF ToSet
  <1>2. ToSet(q) = {u.order : u \in ToSet(us)}
    BY DEF ToSet
  <1> HIDE DEF q
  <1>3. q \in Seq(Rows) /\ Len(q) = Len(us)
    BY <1>1, Numbers
  <1> QED
    BY <1>2, <1>3 DEF OrdersOf, q

(* The length and the elements of what is in three places.                 *)
LEMMA ThreePlaces ==
    ASSUME NEW f \in Seq(Rows), NEW u \in Seq(Rows), NEW r \in Seq(Rows)
    PROVE  /\ Len(f \o u \o r) = Len(f) + Len(u) + Len(r)
           /\ ToSet(f \o u \o r) = ToSet(f) \cup ToSet(u) \cup ToSet(r)
  <1> DEFINE b == f \o u
  <1>1. b \in Seq(Rows) /\ Len(b) = Len(f) + Len(u) /\ ToSet(b) = ToSet(f) \cup ToSet(u)
    BY ConcatSet
  <1> HIDE DEF b
  <1>2. Len(b \o r) = Len(b) + Len(r) /\ ToSet(b \o r) = ToSet(b) \cup ToSet(r)
    <2>1. b \in Seq(Rows)
      BY <1>1
    <2> QED
      BY <2>1, ConcatSet
  <1> QED
    BY <1>1, <1>2 DEF b

(* One more order is given up.                                             *)
LEMMA GivenUpNext ==
    ASSUME NEW us, us \in Seq(ToSet(us)), \A u \in ToSet(us) : u.order \in Rows,
           NEW u, u.order \in Rows
    PROVE  /\ Append(us, u) \in Seq(ToSet(Append(us, u)))
           /\ \A w \in ToSet(Append(us, u)) : w.order \in Rows
           /\ Len(OrdersOf(Append(us, u))) = Len(OrdersOf(us)) + 1
           /\ ToSet(OrdersOf(Append(us, u))) = ToSet(OrdersOf(us)) \cup {u.order}
  <1> DEFINE ws == Append(us, u)
  <1>1. ToSet(ws) = ToSet(us) \cup {u} /\ ws \in Seq(ToSet(ws))
    BY AppendSet
  <1>2. us \in Seq(ToSet(ws)) /\ u \in ToSet(ws)
    BY <1>1, SeqMonotonic
  <1>3. Len(ws) = Len(us) + 1
    BY <1>2, AppendProperties
  <1> HIDE DEF ws
  <1>4. \A w \in ToSet(ws) : w.order \in Rows
    BY <1>1
  <1>5. Len(OrdersOf(ws)) = Len(ws) /\ Len(OrdersOf(us)) = Len(us)
    BY <1>1, <1>4, OrdersListed
  <1>6. /\ ToSet(OrdersOf(ws)) = {w.order : w \in ToSet(ws)}
        /\ ToSet(OrdersOf(us)) = {w.order : w \in ToSet(us)}
    BY <1>1, <1>4, OrdersListed
  <1>7. {w.order : w \in ToSet(ws)} = {w.order : w \in ToSet(us)} \cup {u.order}
    BY <1>1
  <1> QED
    BY <1>1, <1>3, <1>4, <1>5, <1>6, <1>7 DEF ws

(* An order leaves the loop in the list of those given up.                 *)
LEMMA GiveUpLists ==
    ASSUME Queued, GiveUp
    PROVE  /\ remaining # <<>> /\ remaining' = Tail(remaining)
           /\ book' = book /\ candidates' = candidates /\ Head(remaining) \in Rows
           /\ \E u : u.order = Head(remaining) /\ unmatched' = Append(unmatched, u)
  <1>1. /\ remaining # <<>> /\ remaining' = Tail(remaining)
        /\ book' = book /\ candidates' = candidates
        /\ unmatched' = Append(unmatched, [order |-> Head(remaining),
                                           reason |-> Reason(Head(remaining))])
    BY DEF GiveUp
  <1>2. Head(remaining) \in Rows
    BY <1>1, AnchorGroup
  <1> QED
    BY <1>1, <1>2

(* The records after a turn.                                               *)
LEMMA TurnRecorded ==
    ASSUME Queued, Recorded, Match \/ GiveUp
    PROVE  Recorded'
  <1>1. /\ candidates \in Seq(ToSet(candidates)) /\ unmatched \in Seq(ToSet(unmatched))
        /\ \A u \in ToSet(unmatched) : u.order \in Rows
    BY DEF Recorded
  <1>2. CASE Match
    <2>1. PICK c : Joined(c)
      BY <1>2, MatchJoins
    <2>2. /\ c.orders \in Seq(Rows) /\ IsInjective(c.orders)
          /\ ToSet(c.orders) \subseteq ToSet(Drafts) /\ c.stops = DeliveryLines(c.orders)
      BY <2>1 DEF Joined, Queued
    <2>3. candidates' = Append(candidates, c) /\ unmatched' = unmatched
      BY <2>1 DEF Joined
    <2>4. /\ candidates' \in Seq(ToSet(candidates'))
          /\ ToSet(candidates') = ToSet(candidates) \cup {c}
      BY <1>1, <2>3, AppendSet
    <2>5. Drafts' = Drafts
      BY <2>1, DraftsKept DEF Joined
    <2>6. \A d \in ToSet(candidates') :
            /\ d.orders \in Seq(Rows) /\ IsInjective(d.orders)
            /\ ToSet(d.orders) \subseteq ToSet(Drafts) /\ d.stops = DeliveryLines(d.orders)
      BY <2>2, <2>4 DEF Recorded
    <2> QED
      BY <1>1, <2>3, <2>4, <2>5, <2>6 DEF Recorded
  <1>3. CASE GiveUp
    <2>1. PICK u : u.order = Head(remaining) /\ unmatched' = Append(unmatched, u)
      BY <1>3, GiveUpLists
    <2>2. /\ book' = book /\ candidates' = candidates /\ u.order \in Rows
      BY <1>3, <2>1, GiveUpLists
    <2>3. /\ unmatched' \in Seq(ToSet(unmatched')) /\ \A w \in ToSet(unmatched') : w.order \in Rows
      BY <1>1, <2>1, <2>2, GivenUpNext
    <2>4. Drafts' = Drafts
      BY <2>2, DraftsKept
    <2> QED
      BY <2>2, <2>3, <2>4 DEF Recorded
  <1> QED
    BY <1>2, <1>3

(* The three places of an order.                                           *)
Accounted(cs, us, rs) ==
    /\ Len(FlatOf(cs)) + Len(OrdersOf(us)) + Len(rs) = Len(Drafts)
    /\ ToSet(FlatOf(cs)) \cup ToSet(OrdersOf(us)) \cup ToSet(rs) = ToSet(Drafts)

(* The three lists in a row.                                               *)
InARow(cs, us, rs) ==
    LET placed == FlatOf(cs) \o OrdersOf(us) \o rs
    IN  Len(placed) = Len(Drafts) /\ ToSet(placed) = ToSet(Drafts)

(* Their length and their elements add up.                                 *)
LEMMA RowAccounted ==
    ASSUME NEW cs, cs \in Seq(ToSet(cs)), \A c \in ToSet(cs) : c.orders \in Seq(Rows),
           NEW us, us \in Seq(ToSet(us)), \A w \in ToSet(us) : w.order \in Rows,
           NEW rs \in Seq(Rows)
    PROVE  InARow(cs, us, rs) <=> Accounted(cs, us, rs)
  <1> DEFINE f == FlatOf(cs)
             u == OrdersOf(us)
  <1>1. f \in Seq(Rows)
    <2> DEFINE none == [orders |-> <<>>]
    <2>1. none.orders \in Seq(Rows)
      OBVIOUS
    <2> QED
      BY <2>1, FlatAppend
  <1>2. u \in Seq(Rows)
    BY OrdersListed
  <1>3. InARow(cs, us, rs) <=> /\ Len(f \o u \o rs) = Len(Drafts)
                               /\ ToSet(f \o u \o rs) = ToSet(Drafts)
    BY DEF InARow
  <1> HIDE DEF f, u
  <1>4. /\ Len(f \o u \o rs) = Len(f) + Len(u) + Len(rs)
        /\ ToSet(f \o u \o rs) = ToSet(f) \cup ToSet(u) \cup ToSet(rs)
    BY <1>1, <1>2, ThreePlaces
  <1> QED
    BY <1>3, <1>4 DEF Accounted, f, u

(* Each order is in one place exactly if the lengths and the elements of   *)
(* the three lists say so.                                                 *)
LEMMA OnceAccounted ==
    ASSUME Queued, Recorded
    PROVE  EachOrderOnce <=> Accounted(candidates, unmatched, remaining)
  <1>1. EachOrderOnce <=> InARow(candidates, unmatched, remaining)
    BY DEF EachOrderOnce, InARow, FlatOf, OrdersOf
  <1> QED
    BY <1>1, RowAccounted DEF Queued, Recorded

(* The same, after a turn.                                                 *)
LEMMA OnceAfter ==
    ASSUME Queued', Recorded', Drafts' = Drafts,
           Accounted(candidates', unmatched', remaining')
    PROVE  EachOrderOnce'
  <1>1. InARow(candidates', unmatched', remaining') => EachOrderOnce'
    BY DEF EachOrderOnce, InARow, FlatOf, OrdersOf
  <1>2. /\ candidates' \in Seq(ToSet(candidates'))
        /\ \A c \in ToSet(candidates') : c.orders \in Seq(Rows)
        /\ unmatched' \in Seq(ToSet(unmatched'))
        /\ \A u \in ToSet(unmatched') : u.order \in Rows
        /\ remaining' \in Seq(Rows)
    BY DEF Queued, Recorded
  <1> QED
    BY <1>1, <1>2, RowAccounted

(* A turn moves orders from the queue to a candidate, or to the list.      *)
LEMMA TurnAccounted ==
    ASSUME Queued, Recorded, Accounted(candidates, unmatched, remaining), Match \/ GiveUp
    PROVE  Accounted(candidates', unmatched', remaining')
  <1>1. /\ candidates \in Seq(ToSet(candidates)) /\ unmatched \in Seq(ToSet(unmatched))
        /\ \A u \in ToSet(unmatched) : u.order \in Rows
        /\ \A c \in ToSet(candidates) : c.orders \in Seq(Rows)
    BY DEF Recorded
  <1>2. /\ remaining \in Seq(Rows) /\ IsInjective(remaining) /\ Sorted(remaining)
    BY DEF Queued
  <1>3. Len(remaining) \in Nat /\ Len(OrdersOf(unmatched)) \in Nat
    BY <1>1, <1>2, OrdersListed, LenProperties
  <1>4. CASE Match
    <2>1. PICK c : Joined(c)
      BY <1>4, MatchJoins
    <2>2. /\ c.orders \in Seq(Rows) /\ IsInjective(c.orders)
          /\ ToSet(c.orders) \subseteq ToSet(remaining)
      BY <2>1 DEF Joined
    <2>3. /\ candidates' = Append(candidates, c) /\ unmatched' = unmatched
          /\ remaining' = Without(remaining, c.orders)
      BY <2>1 DEF Joined
    <2>4. /\ ToSet(remaining') = ToSet(remaining) \ ToSet(c.orders)
          /\ Len(remaining') = Len(remaining) - Len(c.orders)
      <3>1. /\ ToSet(Without(remaining, c.orders)) = ToSet(remaining) \ ToSet(c.orders)
            /\ Len(Without(remaining, c.orders)) = Len(remaining) - Len(c.orders)
        <4> DEFINE gone == c.orders
        <4>1. gone \in Seq(Rows) /\ IsInjective(gone) /\ ToSet(gone) \subseteq ToSet(remaining)
          BY <2>2
        <4> HIDE DEF gone
        <4>2. /\ ToSet(Without(remaining, gone)) = ToSet(remaining) \ ToSet(gone)
              /\ Len(Without(remaining, gone)) = Len(remaining) - Len(gone)
          BY <1>2, <4>1, WithoutGroup
        <4> QED
          BY <4>2 DEF gone
      <3> QED
        BY <2>3, <3>1
    <2>5. FlatOf(candidates) \in Seq(Rows) /\ FlatOf(candidates') = FlatOf(candidates) \o c.orders
      BY <1>1, <2>2, <2>3, FlatAppend
    <2>6. /\ Len(FlatOf(candidates')) = Len(FlatOf(candidates)) + Len(c.orders)
          /\ ToSet(FlatOf(candidates')) = ToSet(FlatOf(candidates)) \cup ToSet(c.orders)
      BY <2>2, <2>5, ConcatSet
    <2>7. Len(c.orders) \in Nat /\ Len(FlatOf(candidates)) \in Nat
      BY <2>2, <2>5, LenProperties
    <2>8. Len(FlatOf(candidates')) + Len(OrdersOf(unmatched')) + Len(remaining') = Len(Drafts)
      <3>1. Len(FlatOf(candidates)) + Len(OrdersOf(unmatched)) + Len(remaining) = Len(Drafts)
        BY DEF Accounted
      <3>2. Len(OrdersOf(unmatched')) = Len(OrdersOf(unmatched))
        BY <2>3
      <3>3. /\ Len(FlatOf(candidates')) = Len(FlatOf(candidates)) + Len(c.orders)
            /\ Len(remaining') = Len(remaining) - Len(c.orders)
        BY <2>4, <2>6
      <3> QED
        BY <1>3, <2>7, <3>1, <3>2, <3>3
    <2>9. ToSet(FlatOf(candidates')) \cup ToSet(OrdersOf(unmatched')) \cup ToSet(remaining')
            = ToSet(Drafts)
      BY <2>2, <2>3, <2>4, <2>6 DEF Accounted
    <2> QED
      BY <2>8, <2>9 DEF Accounted
  <1>5. CASE GiveUp
    <2>1. PICK u : u.order = Head(remaining) /\ unmatched' = Append(unmatched, u)
      BY <1>5, GiveUpLists
    <2>2. /\ remaining # <<>> /\ remaining' = Tail(remaining)
          /\ candidates' = candidates /\ u.order \in Rows
      BY <1>5, <2>1, GiveUpLists
    <2>3. /\ Len(remaining') = Len(remaining) - 1
          /\ ToSet(remaining) = {u.order} \cup ToSet(remaining')
      BY <1>2, <2>1, <2>2, TailRest
    <2>4. /\ Len(OrdersOf(unmatched')) = Len(OrdersOf(unmatched)) + 1
          /\ ToSet(OrdersOf(unmatched')) = ToSet(OrdersOf(unmatched)) \cup {u.order}
      BY <1>1, <2>1, <2>2, GivenUpNext
    <2>5. Len(FlatOf(candidates)) \in Nat
      <3> DEFINE none == [orders |-> <<>>]
      <3>1. none.orders \in Seq(Rows)
        OBVIOUS
      <3>2. FlatOf(candidates) \in Seq(Rows)
        BY <1>1, <3>1, FlatAppend
      <3> QED
        BY <3>2, LenProperties
    <2> QED
      BY <1>3, <2>2, <2>3, <2>4, <2>5 DEF Accounted
  <1> QED
    BY <1>4, <1>5

(* A candidate stays explained.                                            *)
LEMMA ExplainedKept ==
    ASSUME Drafts' = Drafts, NEW c, Explained(c)
    PROVE  Explained(c)'
  BY DEF Explained

(* The candidates after a turn.                                            *)
LEMMA TurnFits ==
    ASSUME Queued, Recorded, CandidatesFit, Match \/ GiveUp
    PROVE  CandidatesFit'
  <1>1. CASE Match
    <2>1. PICK c : Joined(c)
      BY <1>1, MatchJoins
    <2>2. candidates' = Append(candidates, c) /\ Drafts' = Drafts
      BY <2>1, DraftsKept DEF Joined
    <2>3. ToSet(candidates') = ToSet(candidates) \cup {c}
      BY <2>2, AppendSet DEF Recorded
    <2>4. ASSUME NEW d \in ToSet(candidates')
          PROVE  LET v == Fleet[d.vehicle] IN
                 /\ Len(d.orders) >= 2
                 /\ v.enabled /\ v.driver
                 /\ \A o \in ToSet(d.orders) : o.zone = v.zone
                 /\ 10 * Weight(d.orders) <= 9 * v.weight
                 /\ 10 * Volume(d.orders) <= 9 * v.volume
                 /\ Explained(d)
      <3>1. CASE d \in ToSet(candidates)
        BY <3>1 DEF CandidatesFit
      <3>2. CASE d = c
        BY <2>1, <3>2 DEF Joined, Fits, Within90
      <3> QED
        BY <2>3, <3>1, <3>2
    <2>5. \A d \in ToSet(candidates') : Explained(d)'
      BY <2>2, <2>4, ExplainedKept
    <2> QED
      BY <2>4, <2>5 DEF CandidatesFit
  <1>2. CASE GiveUp
    <2>1. candidates' = candidates /\ Drafts' = Drafts
      BY <1>2, GiveUpLists, DraftsKept
    <2>2. \A d \in ToSet(candidates) : Explained(d)'
      BY <2>1, ExplainedKept DEF CandidatesFit
    <2> QED
      BY <2>1, <2>2 DEF CandidatesFit
  <1> QED
    BY <1>1, <1>2

(* The head of a queue without repetition is not in the rest.              *)
LEMMA HeadOnce ==
    ASSUME NEW T, NEW s \in Seq(T), s # <<>>, IsInjective(s)
    PROVE  Head(s) \notin ToSet(Tail(s))
  <1>1. /\ Tail(s) \in Seq(T) /\ Len(Tail(s)) = Len(s) - 1 /\ Head(s) = s[1]
        /\ \A i \in 1..Len(Tail(s)) : Tail(s)[i] = s[i + 1]
    BY HeadTailProperties
  <1>2. /\ DOMAIN Tail(s) = 1..Len(Tail(s)) /\ DOMAIN s = 1..Len(s) /\ Len(s) \in Nat
    BY <1>1, LenProperties
  <1>3. ASSUME NEW i \in DOMAIN Tail(s) PROVE Tail(s)[i] # s[1]
    <2>1. Tail(s)[i] = s[i + 1] /\ 1 \in DOMAIN s /\ i + 1 \in DOMAIN s /\ i + 1 # 1
      BY <1>1, <1>2
    <2> QED
      BY <2>1 DEF IsInjective
  <1> QED
    BY <1>1, <1>3 DEF ToSet

(* An anchor is given up if no vehicle takes it and one order more.        *)
LEMMA NoPairMissed ==
    ASSUME Queued, GiveUp, NEW o \in ToSet(Tail(remaining)), NEW v \in ToSet(Fleet),
           Compatible(Head(remaining), o), v.enabled, v.driver,
           v.zone = Head(remaining).zone, Fits(<<Head(remaining), o>>, v)
    PROVE  FALSE
  <1> DEFINE a == Head(remaining)
             g == Group(a)
  <1>1. remaining # <<>> /\ Useful(Takes(a)) = {}
    BY DEF GiveUp
  <1>2. /\ g \in Seq(Rows) /\ g # <<>> /\ g[1] = a
        /\ ToSet(g) = {p \in ToSet(remaining) : Compatible(a, p)}
    BY <1>1, AnchorGroup
  <1>3. o \in ToSet(remaining) /\ o # a
    <2>1. remaining \in Seq(Rows) /\ IsInjective(remaining) /\ Sorted(remaining)
      BY DEF Queued
    <2> QED
      BY <1>1, <2>1, HeadOnce, TailRest
  <1>4. PICK i \in DOMAIN Fleet : Fleet[i] = v
    BY DEF ToSet
  <1>5. i \in Suitable(a.zone)
    BY <1>4 DEF Suitable
  <1>6. Takes(a)[i] = Len(Selected(g, v)) /\ DOMAIN Takes(a) = Suitable(a.zone)
    BY <1>4, <1>5 DEF Takes
  <1>7. o \in ToSet(g) /\ Fits(<<a, o>>, v)
    BY <1>2, <1>3
  <1> HIDE DEF a, g
  <1>8. PICK j \in 1..Len(g) : g[j] = o
    BY <1>2, <1>7, LenProperties DEF ToSet
  <1>9. j \in 2..Len(g)
    BY <1>2, <1>3, <1>8, LenProperties
  <1>10. Len(Selected(g, v)) >= 2
    BY <1>2, <1>7, <1>8, <1>9, SelectedPair
  <1> QED
    BY <1>1, <1>5, <1>6, <1>10 DEF Useful

(* The request begins with every DRAFT order in the queue.                 *)
LEMMA InitInv == Init => Inv
  <1> SUFFICES ASSUME Init PROVE Inv
    OBVIOUS
  <1>1. book \in Books /\ remaining = Drafts /\ candidates = <<>> /\ unmatched = <<>>
    BY DEF Init
  <1>2. Queued
    BY <1>1, DraftsOrdered DEF Queued
  <1>3. ToSet(<<>>) = {}
    BY EmptySeq DEF ToSet
  <1>4. Recorded
    BY <1>1, <1>3 DEF Recorded
  <1>5. CandidatesFit
    BY <1>1, <1>3 DEF CandidatesFit
  <1>6. FlatOf(<<>>) = <<>> /\ OrdersOf(<<>>) = <<>>
    BY DEF FlatOf, OrdersOf, FlattenSeq
  <1>7. Accounted(candidates, unmatched, remaining)
    <2>1. Len(<<>>) = 0 /\ Len(Drafts) \in Nat
      BY <1>1, DraftsOrdered, LenProperties
    <2> QED
      BY <1>1, <1>3, <1>6, <2>1 DEF Accounted
  <1> QED
    BY <1>2, <1>4, <1>5, <1>7, OnceAccounted DEF Inv

(* A turn preserves it.                                                    *)
LEMMA TurnInv == Inv /\ Next => Inv'
  <1> SUFFICES ASSUME Inv, Match \/ GiveUp PROVE Inv'
    BY DEF Next
  <1>1. Queued /\ Recorded /\ CandidatesFit /\ EachOrderOnce
    BY DEF Inv
  <1>2. Queued' /\ Recorded' /\ CandidatesFit'
    BY <1>1, TurnQueued, TurnRecorded, TurnFits
  <1>3. Accounted(candidates', unmatched', remaining')
    BY <1>1, OnceAccounted, TurnAccounted
  <1>4. book' = book
    BY DEF Match, GiveUp
  <1>5. EachOrderOnce'
    <2>1. Drafts' = Drafts
      BY <1>4, DraftsKept
    <2> QED
      BY <1>2, <1>3, <2>1, OnceAfter
  <1> QED
    BY <1>2, <1>5 DEF Inv

----------------------------------------------------------------------------
(* The stops.                                                              *)

Quantity(s) == Sum([i \in DOMAIN s |-> s[i].quantity])
Share(s, S) == [i \in DOMAIN s |-> IF s[i] \in S THEN s[i].quantity ELSE 0]

(* An order adds its quantity.                                             *)
LEMMA QuantityAppend ==
    ASSUME NEW s \in Seq(Rows), NEW o \in Rows
    PROVE  Quantity(Append(s, o)) = Quantity(s) + o.quantity
  <1> DEFINE r == Append(s, o)
  <1>1. /\ r \in Seq(Rows) /\ Len(r) = Len(s) + 1 /\ r[Len(s) + 1] = o
        /\ \A i \in 1..Len(s) : r[i] = s[i]
    BY AppendProperties
  <1>2. DOMAIN s = 1..Len(s) /\ DOMAIN r = 1..(Len(s) + 1) /\ Len(s) \in Nat
    BY <1>1, LenProperties
  <1>3. /\ \A i \in DOMAIN s : s[i].quantity \in Int
        /\ \A i \in DOMAIN r : r[i].quantity \in Int
    <2>1. \A i \in DOMAIN s : s[i] \in Rows
      BY LenProperties
    <2>2. \A i \in DOMAIN r : r[i] \in Rows
      BY <1>1, LenProperties
    <2> QED
      BY <2>1, <2>2, RowsAssumption
  <1> DEFINE w == [i \in DOMAIN s |-> s[i].quantity]
             x == [i \in DOMAIN r |-> r[i].quantity]
  <1>4. w \in [DOMAIN s -> Int] /\ x \in [DOMAIN r -> Int]
    BY <1>3
  <1>5. \A i \in DOMAIN s : x[i] = w[i]
    BY <1>1, <1>2
  <1>6. x[Len(s) + 1] = o.quantity
    BY <1>1, <1>2
  <1>7. Quantity(s) = Sum(w) /\ Quantity(r) = Sum(x)
    BY DEF Quantity
  <1> HIDE DEF w, x
  <1>8. Sum(x) = Sum(w) + o.quantity
    BY <1>4, <1>5, <1>6, SumAppend
  <1> QED
    BY <1>7, <1>8

(* The sum over what Only keeps is the sum over the elements in S.         *)
LEMMA SumOnly ==
    ASSUME NEW s \in Seq(Rows), NEW S
    PROVE  Quantity(Only(s, S)) = Sum(Share(s, S))
  <1> DEFINE q == Share(s, S)
  <1>1. PICK n \in Nat : n = Len(s)
    BY LenProperties
  <1>2. DOMAIN s = 1..n /\ \A k \in 1..n : s[k] \in Rows /\ s[k].quantity \in Int
    BY <1>1, LenProperties, RowsAssumption
  <1>3. q \in [DOMAIN s -> Int] /\ \A k \in 1..n : q[k] = IF s[k] \in S THEN s[k].quantity ELSE 0
    BY <1>2 DEF Share
  <1> HIDE DEF q
  <1>4. q \in Seq(Int) /\ Len(q) = n
    BY <1>1, <1>3, Numbers
  <1>5. PICK f : OnlyTrace(f, Rows, s, S)
    BY OnlyLoop
  <1>6. PICK h : SumTrace(h, q)
    BY <1>4, SumLoop
  <1>7. /\ f \in [0..n -> Seq(Rows)] /\ f[0] = <<>> /\ Only(s, S) = f[n]
        /\ \A k \in 1..n : f[k] = OnlyTurn(s, S, k, f[k - 1])
    BY <1>1, <1>5 DEF OnlyTrace
  <1>8. /\ h \in [0..n -> Int] /\ h[0] = 0 /\ Sum(q) = h[n]
        /\ \A k \in 1..n : h[k] = h[k - 1] + q[k]
    BY <1>4, <1>6 DEF SumTrace
  <1> DEFINE Same == {k \in 0..n : Quantity(f[k]) = h[k]}
  <1>9. 0 \in Same
    <2>1. DOMAIN f[0] = {}
      BY <1>7
    <2>2. \A x : x \in [{} -> Int] => x \in Seq(Int) /\ Len(x) = 0
      BY SeqOfFunction, 1..0 = {}
    <2>3. Quantity(f[0]) = 0
      BY <2>1, <2>2, SumEmpty DEF Quantity
    <2> QED
      BY <1>8, <2>3
  <1>10. ASSUME NEW k \in 1..n, k - 1 \in Same
         PROVE  k \in Same
    <2>1. /\ Quantity(f[k - 1]) = h[k - 1] /\ f[k - 1] \in Seq(Rows) /\ h[k - 1] \in Int
          /\ k \in 0..n
      BY <1>7, <1>8, <1>10
    <2>2. CASE s[k] \in S
      <3>1. f[k] = Append(f[k - 1], s[k]) /\ h[k] = h[k - 1] + s[k].quantity
        BY <1>3, <1>7, <1>8, <2>2 DEF OnlyTurn
      <3>2. Quantity(f[k]) = Quantity(f[k - 1]) + s[k].quantity
        BY <1>2, <2>1, <3>1, QuantityAppend
      <3> QED
        BY <2>1, <3>1, <3>2
    <2>3. CASE s[k] \notin S
      <3>1. f[k] = f[k - 1] /\ h[k] = h[k - 1]
        <4>1. q[k] = 0 /\ h[k] = h[k - 1] + q[k]
          BY <1>3, <1>8, <2>3
        <4>2. f[k] = f[k - 1]
          BY <1>7, <2>3 DEF OnlyTurn
        <4> QED
          BY <2>1, <4>1, <4>2
      <3> QED
        BY <2>1, <3>1
    <2> QED
      BY <2>2, <2>3
  <1>11. \A k \in 0..n : k \in Same
    <2> HIDE DEF Same
    <2> QED
      BY <1>9, <1>10, Climb
  <1> QED
    BY <1>7, <1>8, <1>11 DEF q

(* What goes to a store of a product is what was ordered there.            *)
LEMMA LineAt ==
    ASSUME NEW s \in Seq(Rows), NEW o \in ToSet(s)
    PROVE  LET l == Line(At(s, o.store, o.product))
               S == {p \in ToSet(s) : p.store = o.store /\ p.product = o.product}
           IN  /\ o.id \in l.orders /\ l.product = o.product
               /\ l.orders = {p.id : p \in S} /\ l.quantity = Sum(Share(s, S))
  <1> DEFINE S == {p \in ToSet(s) : p.store = o.store /\ p.product = o.product}
             r == At(s, o.store, o.product)
  <1>1. r = Only(s, S)
    BY DEF At
  <1>2. o \in S /\ S \subseteq ToSet(s) /\ \A p \in S : p.product = o.product
    OBVIOUS
  <1> HIDE DEF S
  <1>3. r \in Seq(Rows) /\ ToSet(r) = S
    <2>1. Only(s, S) \in Seq(Rows)
      BY OnlyPicks
    <2>2. ToSet(Only(s, S)) = ToSet(s) \cap S
      BY OnlySet
    <2> QED
      BY <1>1, <1>2, <2>1, <2>2
  <1>4. Quantity(r) = Sum(Share(s, S))
    BY <1>1, SumOnly
  <1> HIDE DEF r
  <1>5. r # <<>>
    BY <1>2, <1>3, EmptySeq DEF ToSet
  <1>6. Head(r) \in ToSet(r)
    <2>1. Head(r) = r[1] /\ 1 \in 1..Len(r) /\ DOMAIN r = 1..Len(r)
      BY <1>3, <1>5, EmptySeq, HeadTailProperties, LenProperties
    <2> QED
      BY <2>1 DEF ToSet
  <1>7. /\ Line(r).orders = {p.id : p \in ToSet(r)} /\ Line(r).product = Head(r).product
        /\ Line(r).quantity = Quantity(r)
    BY DEF Line, Quantity
  <1> QED
    BY <1>2, <1>3, <1>4, <1>6, <1>7 DEF S, r

(* The stops of some orders with different ids deliver them all.           *)
LEMMA LinesDeliver ==
    ASSUME NEW s \in Seq(Rows), \A o, p \in ToSet(s) : o.id = p.id => o = p
    PROVE  /\ \A o \in ToSet(s) :
                \E l \in DeliveryLines(s)[o.store] : o.id \in l.orders /\ l.product = o.product
           /\ \A store \in DOMAIN DeliveryLines(s) :
                \A l \in DeliveryLines(s)[store] :
                    l.quantity = Sum([i \in DOMAIN s |->
                        IF s[i].id \in l.orders THEN s[i].quantity ELSE 0])
  <1> DEFINE D == DeliveryLines(s)
             Stores == {o.store : o \in ToSet(s)}
             LinesOf(store) == {Line(At(s, store, product)) :
                product \in {o.product : o \in {p \in ToSet(s) : p.store = store}}}
  <1>1. DOMAIN D = Stores /\ \A store \in Stores : D[store] = LinesOf(store)
    BY DEF DeliveryLines
  <1>2. ASSUME NEW o \in ToSet(s)
        PROVE  \E l \in D[o.store] : o.id \in l.orders /\ l.product = o.product
    <2>1. D[o.store] = LinesOf(o.store)
      BY <1>1
    <2>2. Line(At(s, o.store, o.product)) \in LinesOf(o.store)
      OBVIOUS
    <2> QED
      BY <2>1, <2>2, LineAt
  <1>3. ASSUME NEW store \in DOMAIN D, NEW l \in D[store]
        PROVE  l.quantity = Sum([i \in DOMAIN s |->
                    IF s[i].id \in l.orders THEN s[i].quantity ELSE 0])
    <2>1. l \in LinesOf(store)
      BY <1>1, <1>3
    <2>2. PICK o \in ToSet(s) : o.store = store /\ l = Line(At(s, store, o.product))
      BY <2>1
    <2> DEFINE S == {p \in ToSet(s) : p.store = o.store /\ p.product = o.product}
    <2>3. l.orders = {p.id : p \in S} /\ l.quantity = Sum(Share(s, S))
      BY <2>2, LineAt
    <2>4. S \subseteq ToSet(s)
      OBVIOUS
    <2> HIDE DEF S
    <2>5. \A i \in DOMAIN s : s[i].id \in l.orders <=> s[i] \in S
      BY <2>3, <2>4 DEF ToSet
    <2>6. Share(s, S) = [i \in DOMAIN s |-> IF s[i].id \in l.orders THEN s[i].quantity ELSE 0]
      BY <2>5 DEF Share
    <2> QED
      BY <2>3, <2>6
  <1> QED
    BY <1>2, <1>3

(* The stops of every candidate do.                                        *)
LEMMA InvDelivers == Inv => StopsDeliverAll
  <1> SUFFICES ASSUME Inv, NEW c \in ToSet(candidates)
               PROVE  /\ \A o \in ToSet(c.orders) :
                            \E l \in c.stops[o.store] : o.id \in l.orders /\ l.product = o.product
                      /\ \A store \in DOMAIN c.stops :
                            \A l \in c.stops[store] :
                                l.quantity = Sum([i \in DOMAIN c.orders |->
                                    IF c.orders[i].id \in l.orders
                                    THEN c.orders[i].quantity ELSE 0])
    BY DEF StopsDeliverAll
  <1> DEFINE s == c.orders
  <1>1. s \in Seq(Rows) /\ ToSet(s) \subseteq ToSet(Drafts) /\ c.stops = DeliveryLines(s)
    BY DEF Inv, Recorded
  <1>2. \A o, p \in ToSet(s) : o.id = p.id => o = p
    BY <1>1, DraftsOrdered DEF Inv, Queued
  <1> HIDE DEF s
  <1>3. /\ \A o \in ToSet(s) :
              \E l \in DeliveryLines(s)[o.store] : o.id \in l.orders /\ l.product = o.product
        /\ \A store \in DOMAIN DeliveryLines(s) :
              \A l \in DeliveryLines(s)[store] :
                  l.quantity = Sum([i \in DOMAIN s |->
                      IF s[i].id \in l.orders THEN s[i].quantity ELSE 0])
    BY <1>1, <1>2, LinesDeliver
  <1> QED
    BY <1>1, <1>3 DEF s

----------------------------------------------------------------------------
(* The theorems.                                                           *)

(* The invariant holds after every turn.                                   *)
THEOREM CarpoolInvariant == Spec => []Inv
  <1>1. Inv /\ UNCHANGED vars => Inv'
    <2> SUFFICES ASSUME Inv, UNCHANGED vars PROVE Inv'
      OBVIOUS
    <2>1. book' = book /\ remaining' = remaining /\ candidates' = candidates
          /\ unmatched' = unmatched
      BY DEF vars
    <2>2. Drafts' = Drafts
      BY <2>1, DraftsKept
    <2>3. Queued' /\ Recorded'
      BY <2>1, <2>2 DEF Inv, Queued, Recorded
    <2>4. CandidatesFit'
      BY <2>1, <2>2 DEF Inv, CandidatesFit, Explained
    <2>5. EachOrderOnce'
      BY <2>1, <2>2 DEF Inv, EachOrderOnce
    <2> QED
      BY <2>3, <2>4, <2>5 DEF Inv
  <1>2. Inv /\ [Next]_vars => Inv'
    BY <1>1, TurnInv
  <1> QED
    BY InitInv, <1>2, PTL DEF Spec

(* Every DRAFT order is in one candidate, given up, or still in the queue. *)
THEOREM CarpoolEachOrderOnce == Spec => []EachOrderOnce
  <1>1. Inv => EachOrderOnce
    BY DEF Inv
  <1> QED
    BY CarpoolInvariant, <1>1, PTL

(* A candidate fits its vehicle, and one DRAFT order explains it.          *)
THEOREM CarpoolCandidatesFit == Spec => []CandidatesFit
  <1>1. Inv => CandidatesFit
    BY DEF Inv
  <1> QED
    BY CarpoolInvariant, <1>1, PTL

(* The stops of a candidate deliver what was ordered, where it was.        *)
THEOREM CarpoolStopsDeliverAll == Spec => []StopsDeliverAll
  BY CarpoolInvariant, InvDelivers, PTL

(* The greedy filling misses no pair of the anchor.                        *)
THEOREM CarpoolGivenUpRightly == Spec => GivenUpRightly
  <1>1. Inv /\ [Next]_vars =>
            [unmatched' # unmatched =>
                LET anchor == Head(remaining) IN
                \A o \in ToSet(Tail(remaining)), v \in ToSet(Fleet) :
                    ~ /\ Compatible(anchor, o)
                      /\ v.enabled /\ v.driver /\ v.zone = anchor.zone
                      /\ Fits(<<anchor, o>>, v)]_vars
    <2>1. Match => unmatched' = unmatched
      BY DEF Match
    <2>2. UNCHANGED vars => unmatched' = unmatched
      BY DEF vars
    <2>3. Inv => Queued
      BY DEF Inv
    <2> QED
      BY <2>1, <2>2, <2>3, NoPairMissed DEF Next
  <1> QED
    BY CarpoolInvariant, <1>1, PTL DEF Spec, GivenUpRightly

=============================================================================
