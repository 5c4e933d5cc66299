--------------------------- MODULE SessionsProofs ---------------------------
(***************************************************************************)
(* Proofs about Sessions, for any number of transactions of issue_tokens,  *)
(* overlapping as they like: type correctness, and that a sign-in or a     *)
(* refresh ends every session its user had when it began, so that only     *)
(* transactions that overlapped leave two accepted sessions.               *)
(***************************************************************************)
EXTENDS Sessions, TLAPS

(* A new transaction is well typed.                                        *)
LEMMA LoadType ==
    ASSUME TypeOK, NEW th \in Threads, NEW u \in Users, NEW given \in SUBSET Ids,
           Load(th, u, given)
    PROVE  TypeOK'
<1> USE DEF TypeOK
<1>1. /\ pc' \in [Threads -> {"idle", "loaded", "revoking"}]
      /\ who' \in [Threads -> Users \cup {NoUser}]
      /\ base' \in [Threads -> Nat]
      /\ victims' \in [Threads -> SUBSET Ids]
      /\ known' \in [Threads -> 0..made']
    BY DEF Load
<1>2. \A i \in Threads : pc'[i] # "idle" => who'[i] \in Users
    BY DEF Load
<1> QED BY <1>1, <1>2 DEF Load

(* So is what a transaction leaves when it ends.                           *)
LEMMA EndType ==
    ASSUME TypeOK, NEW th \in Threads, End(th)
    PROVE  /\ pc' \in [Threads -> {"idle", "loaded", "revoking"}]
           /\ who' \in [Threads -> Users \cup {NoUser}]
           /\ base' \in [Threads -> Nat]
           /\ victims' \in [Threads -> SUBSET Ids]
           /\ known' \in [Threads -> 0..made]
           /\ \A i \in Threads : pc'[i] # "idle" => who'[i] \in Users
BY DEF TypeOK, End

(* Granting writes a new session in a free place.                          *)
LEMMA GrantType ==
    ASSUME SessionAssumption, TypeOK, NEW th \in Threads, Grant(th)
    PROVE  TypeOK'
<1>1. /\ pc' \in [Threads -> {"idle", "loaded", "revoking"}]
      /\ who' \in [Threads -> Users \cup {NoUser}]
      /\ base' \in [Threads -> Nat]
      /\ victims' \in [Threads -> SUBSET Ids]
      /\ known' \in [Threads -> 0..made]
      /\ \A i \in Threads : pc'[i] # "idle" => who'[i] \in Users
    BY EndType DEF Grant
<1> USE DEF TypeOK, Grant, SessionAssumption, Ids
<1>2. who[th] \in Users /\ made + 1 \in Ids /\ base[th] \in Nat
    OBVIOUS
<1>3. made' \in 0..MaxSessions
    OBVIOUS
<1>4. owner' \in [Ids -> Users \cup {NoUser}]
    BY <1>2
<1>5. \A s \in Ids : owner'[s] # NoUser <=> s <= made'
    BY <1>2
<1>6. granted' \in [Ids -> Nat] /\ latest' \in [Users -> Nat]
    BY <1>2
<1>7. revoked' \subseteq Ids /\ idle' \subseteq Ids /\ expired' \subseteq Ids
    OBVIOUS
<1>8. since' \in [Ids -> Nat] /\ 0..made \subseteq 0..made'
    BY <1>2
<1>9. known' \in [Threads -> 0..made']
    BY <1>1, <1>8
<1> QED BY <1>1, <1>3, <1>4, <1>5, <1>6, <1>7, <1>8, <1>9

(* At first nobody is signed in and nothing is open.                       *)
LEMMA InitType == SessionAssumption /\ Init => TypeOK
BY DEF SessionAssumption, Init, TypeOK, Ids

(* Every step keeps the types.                                             *)
LEMMA NextType ==
    ASSUME SessionAssumption, TypeOK, [Next]_vars
    PROVE  TypeOK'
<1>1. ASSUME NEW th \in Threads, NEW u \in Users, SignIn(th, u)
      PROVE  TypeOK'
    BY <1>1, LoadType DEF SignIn
<1>2. ASSUME NEW th \in Threads, NEW s \in Ids, Refresh(th, s)
      PROVE  TypeOK'
    <2>1. owner[s] \in Users
        BY <1>2 DEF Refresh, Accepted, Live, TypeOK
    <2> QED BY <1>2, <2>1, LoadType DEF Refresh
<1>3. ASSUME NEW th \in Threads, RevokeAll(th)
      PROVE  TypeOK'
    BY <1>3 DEF RevokeAll, TypeOK
<1>4. ASSUME NEW th \in Threads, Grant(th)
      PROVE  TypeOK'
    BY <1>4, GrantType
<1>5. ASSUME NEW th \in Threads, Abort(th)
      PROVE  TypeOK'
    BY <1>5, EndType DEF Abort, TypeOK
<1>6. ASSUME NEW s \in Ids, Logout(s) \/ Timeout(s) \/ Idle(s) \/ Expire(s)
      PROVE  TypeOK'
    BY <1>6 DEF Logout, Timeout, Idle, Expire, Revoke, TypeOK, threadVars
<1>7. CASE Sweep
    BY <1>7 DEF Sweep, Revoke, TypeOK, threadVars
<1>8. CASE UNCHANGED vars
    BY <1>8 DEF vars, threadVars, TypeOK
<1> QED BY <1>1, <1>2, <1>3, <1>4, <1>5, <1>6, <1>7, <1>8 DEF Next

(* The rows and the transactions of sign-in are always well typed.         *)
THEOREM TypeCorrect == Spec => []TypeOK
BY InitType, NextType, SessionAssumption, PTL DEF Spec

----------------------------------------------------------------------------
(* What a transaction ends.                                                *)

(* Of two live sessions of a user the later one's transaction had begun    *)
(* before the earlier one was there,                                       *)
Overlapped ==
    \A s, t \in Ids :
        s < t /\ Live(s) /\ Live(t) /\ owner[s] = owner[t] => s > since[t]

(* since a transaction past its UPDATE revokes every live session of its   *)
(* user that was there when it began.                                      *)
RevokesOlder ==
    \A th \in Threads : pc[th] = "revoking" =>
        \A s \in Ids : s <= known[th] /\ Live(s) /\ owner[s] = who[th] => s \in victims[th]

OldRevoked == Overlapped /\ RevokesOlder

(* A step that makes no session live and opens no later stage keeps it.    *)
LEMMA FewerLive ==
    ASSUME OldRevoked, owner' = owner, since' = since, revoked \subseteq revoked',
           \A th \in Threads : pc'[th] = "revoking" =>
                /\ pc[th] = "revoking" /\ who'[th] = who[th]
                /\ victims'[th] = victims[th] /\ known'[th] = known[th]
    PROVE  OldRevoked'
BY DEF OldRevoked, Overlapped, RevokesOlder, Live

(* A grant ends what its transaction has found, and nobody else has found  *)
(* the new session.                                                        *)
LEMMA GrantRevokes ==
    ASSUME SessionAssumption, TypeOK, OldRevoked, NEW th \in Threads, Grant(th)
    PROVE  OldRevoked'
<1> DEFINE n == made + 1
<1>1. n \in Ids /\ owner[n] = NoUser /\ who[th] \in Users /\ pc[th] = "revoking"
    BY DEF Grant, TypeOK, Ids, SessionAssumption
<1>2. owner'[n] = who[th] /\ since'[n] = known[th]
    BY <1>1 DEF Grant, TypeOK
<1>3. \A s \in Ids : s # n => owner'[s] = owner[s] /\ since'[s] = since[s]
    BY DEF Grant, TypeOK
<1>4. \A s \in Ids : Live(s)' /\ s # n => Live(s)
    BY <1>3 DEF Grant, Live
<1>5. \A s \in Ids : Live(s)' => s <= n
    BY GrantType DEF Live, Grant, TypeOK, Ids, SessionAssumption
<1>6. ASSUME NEW s \in Ids, NEW t \in Ids, s < t, Live(s)', Live(t)',
             owner'[s] = owner'[t]
      PROVE  s > since'[t]
    <2>1. s # n
        BY <1>5, <1>6, <1>1 DEF Ids, TypeOK
    <2>2. CASE t # n
        BY <2>1, <2>2, <1>3, <1>4, <1>6 DEF OldRevoked, Overlapped
    <2>3. CASE t = n
        <3>1. s \notin victims[th]
            BY <1>6 DEF Live, Grant
        <3>2. ~ (s <= known[th])
            BY <3>1, <2>1, <2>3, <1>1, <1>2, <1>3, <1>4, <1>6
            DEF OldRevoked, RevokesOlder
        <3>3. known[th] \in Nat /\ s \in Nat
            BY DEF TypeOK, Ids
        <3> QED BY <3>2, <3>3, <2>3, <1>2
    <2> QED BY <2>2, <2>3
<1>7. ASSUME NEW i \in Threads, pc'[i] = "revoking",
             NEW s \in Ids, s <= known'[i], Live(s)', owner'[s] = who'[i]
      PROVE  s \in victims'[i]
    <2>1. i # th
        BY <1>7 DEF Grant, End, TypeOK
    <2>2. /\ pc'[i] = pc[i] /\ who'[i] = who[i]
          /\ victims'[i] = victims[i] /\ known'[i] = known[i]
        BY <2>1 DEF Grant, End, TypeOK
    <2>3. known[i] \in 0..made /\ made \in Nat
        BY DEF TypeOK
    <2>4. s # n
        BY <1>7, <2>2, <2>3
    <2> QED BY <1>3, <1>4, <1>7, <2>2, <2>4 DEF OldRevoked, RevokesOlder
<1>8. Overlapped'
    BY <1>6 DEF Overlapped
<1>9. RevokesOlder'
    BY <1>7 DEF RevokesOlder
<1> QED BY <1>8, <1>9 DEF OldRevoked

(* The same for every step.                                                *)
LEMMA NextOldRevoked ==
    ASSUME SessionAssumption, TypeOK, OldRevoked, [Next]_vars
    PROVE  OldRevoked'
<1>1. ASSUME NEW th \in Threads, NEW u \in Users, NEW given \in SUBSET Ids,
             Load(th, u, given)
      PROVE  OldRevoked'
    BY <1>1, FewerLive DEF Load, TypeOK
<1>2. ASSUME NEW th \in Threads, RevokeAll(th)
      PROVE  OldRevoked'
    BY <1>2 DEF RevokeAll, OldRevoked, Overlapped, RevokesOlder, Live, TypeOK
<1>3. ASSUME NEW th \in Threads, Grant(th)
      PROVE  OldRevoked'
    BY <1>3, GrantRevokes
<1>4. ASSUME NEW th \in Threads, Abort(th)
      PROVE  OldRevoked'
    BY <1>4, FewerLive DEF Abort, End, TypeOK
<1>5. ASSUME NEW s \in Ids, Logout(s) \/ Timeout(s) \/ Idle(s) \/ Expire(s)
      PROVE  OldRevoked'
    BY <1>5, FewerLive DEF Logout, Timeout, Idle, Expire, Revoke, threadVars
<1>6. CASE Sweep
    BY <1>6, FewerLive DEF Sweep, Revoke, threadVars
<1>7. CASE UNCHANGED vars
    BY <1>7, FewerLive DEF vars, threadVars
<1>8. ASSUME NEW th \in Threads, NEW s \in Ids, Refresh(th, s)
      PROVE  OldRevoked'
    <2>1. owner[s] \in Users
        BY <1>8 DEF Refresh, Accepted, Live, TypeOK
    <2> QED BY <1>1, <1>8, <2>1 DEF Refresh
<1>9. ASSUME NEW th \in Threads, NEW u \in Users, SignIn(th, u)
      PROVE  OldRevoked'
    BY <1>1, <1>9 DEF SignIn
<1> QED BY <1>2, <1>3, <1>4, <1>5, <1>6, <1>7, <1>8, <1>9 DEF Next

(* A sign-in or a refresh ends every session its user had when it began,   *)
(* however many of them overlap: of two accepted sessions of a user, the   *)
(* later one's transaction began before the earlier one's had committed.   *)
THEOREM OldSessionsRefused == Spec => []SingleDevice
<1>1. Init => OldRevoked
    BY DEF Init, OldRevoked, Overlapped, RevokesOlder, Live
<1>2. TypeOK /\ OldRevoked /\ [Next]_vars => OldRevoked'
    BY NextOldRevoked, SessionAssumption
<1>3. OldRevoked => SingleDevice
    BY DEF OldRevoked, Overlapped, SingleDevice, Accepted
<1> QED BY TypeCorrect, <1>1, <1>2, <1>3, PTL DEF Spec
=============================================================================
