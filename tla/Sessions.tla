------------------------------ MODULE Sessions ------------------------------
(***************************************************************************)
(* Sign-in, shared by B01 and B02.  A user has one session at a time: to   *)
(* sign in, or to rotate the refresh token, revokes the sessions the user  *)
(* has and grants a new one, with the next session_version of the user.    *)
(* A token names its session and that version, and is refused when the     *)
(* session is revoked or the user's version has moved on.                  *)
(*                                                                         *)
(* issue_tokens runs in one transaction: it has loaded the user, revokes   *)
(* with an UPDATE, which sees what is committed by then, and commits the   *)
(* new version together with the new session.  The other requests read     *)
(* and write one row and are single steps.  Row locks, which may make one  *)
(* of two overlapping UPDATEs wait, are left out: they allow no more.      *)
(***************************************************************************)
EXTENDS Integers

CONSTANTS
    Users, NoUser,
    Threads,     \* transactions of issue_tokens that may be open together
    MaxSessions  \* bound on the sessions that are granted

ASSUME SessionAssumption == NoUser \notin Users /\ MaxSessions \in Nat

Ids == 1..MaxSessions

VARIABLES
    latest,     \* latest[u]   users.session_version
    made,       \* the sessions granted so far
    owner,      \* owner[s]    user_sessions.user_id
    granted,    \* granted[s]  user_sessions.session_version
    revoked,    \* the sessions with a revoked_at
    idle,       \* those without activity for longer than the idle limit
    expired,    \* those past expires_at
    pc,         \* pc[th]      how far the transaction is
    who,        \* who[th]     its user, as loaded:
    base,       \* base[th]    the session_version it has read
    victims,    \* victims[th] the sessions it revokes
    (* history: no action reads it *)
    known,      \* known[th]   the sessions granted when it loaded its user
    since       \* since[s]    those granted when the transaction of s did

threadVars == <<pc, who, base, victims, known>>
vars == <<latest, made, owner, granted, revoked, idle, expired, threadVars, since>>

TypeOK ==
    /\ latest \in [Users -> Nat]
    /\ made \in 0..MaxSessions
    /\ owner \in [Ids -> Users \cup {NoUser}]
    /\ \A s \in Ids : owner[s] # NoUser <=> s <= made
    /\ granted \in [Ids -> Nat]
    /\ revoked \subseteq Ids
    /\ idle \subseteq Ids
    /\ expired \subseteq Ids
    /\ pc \in [Threads -> {"idle", "loaded", "revoking"}]
    /\ who \in [Threads -> Users \cup {NoUser}]
    /\ \A th \in Threads : pc[th] # "idle" => who[th] \in Users
    /\ base \in [Threads -> Nat]
    /\ victims \in [Threads -> SUBSET Ids]
    /\ known \in [Threads -> 0..made]
    /\ since \in [Ids -> Nat]

Init ==
    /\ latest = [u \in Users |-> 1]
    /\ made = 0
    /\ owner = [s \in Ids |-> NoUser]
    /\ granted = [s \in Ids |-> 0]
    /\ revoked = {}
    /\ idle = {}
    /\ expired = {}
    /\ pc = [th \in Threads |-> "idle"]
    /\ who = [th \in Threads |-> NoUser]
    /\ base = [th \in Threads |-> 0]
    /\ victims = [th \in Threads |-> {}]
    /\ known = [th \in Threads |-> 0]
    /\ since = [s \in Ids |-> 0]

(* The session is one the server still knows as open,                      *)
Live(s) == owner[s] # NoUser /\ s \notin revoked

(* and its tokens are not refused: get_current_user finds it not revoked,  *)
(* and of the user's version.                                              *)
Accepted(s) == Live(s) /\ granted[s] = latest[owner[s]]

----------------------------------------------------------------------------
(* issue_tokens.                                                           *)

(* The user is loaded, with the version it has at that moment.             *)
Load(th, u, given) ==
    /\ pc[th] = "idle" /\ made < MaxSessions
    /\ pc' = [pc EXCEPT ![th] = "loaded"]
    /\ who' = [who EXCEPT ![th] = u]
    /\ base' = [base EXCEPT ![th] = latest[u]]
    /\ victims' = [victims EXCEPT ![th] = given]
    /\ known' = [known EXCEPT ![th] = made]
    /\ UNCHANGED <<latest, made, owner, granted, revoked, idle, expired, since>>

(* By password or through WeChat.                                          *)
SignIn(th, u) == Load(th, u, {})

(* rotate_refresh_token: the session of the token is itself revoked.       *)
Refresh(th, s) ==
    /\ Accepted(s) /\ s \notin expired /\ s \notin idle
    /\ Load(th, owner[s], {s})

(* The UPDATE of the user's open sessions.                                 *)
RevokeAll(th) ==
    /\ pc[th] = "loaded"
    /\ victims' = [victims EXCEPT ![th] = @ \cup {s \in Ids : Live(s) /\ owner[s] = who[th]}]
    /\ pc' = [pc EXCEPT ![th] = "revoking"]
    /\ UNCHANGED <<latest, made, owner, granted, revoked, idle, expired, who, base, known, since>>

End(th) ==
    /\ pc' = [pc EXCEPT ![th] = "idle"]
    /\ who' = [who EXCEPT ![th] = NoUser]
    /\ base' = [base EXCEPT ![th] = 0]
    /\ victims' = [victims EXCEPT ![th] = {}]
    /\ known' = [known EXCEPT ![th] = 0]

(* Mutant: the new session is committed apart from the revocation and the  *)
(* new version, which are lost.                                            *)
GrantAlone(th) ==
    /\ pc[th] = "revoking" /\ made < MaxSessions
    /\ made' = made + 1
    /\ owner' = [owner EXCEPT ![made + 1] = who[th]]
    /\ granted' = [granted EXCEPT ![made + 1] = base[th]]
    /\ since' = [since EXCEPT ![made + 1] = known[th]]
    /\ End(th)
    /\ UNCHANGED <<latest, revoked, idle, expired>>

(* The user's new version, the new session and the revocations.            *)
Grant(th) ==
    /\ pc[th] = "revoking" /\ made < MaxSessions
    /\ made' = made + 1
    /\ owner' = [owner EXCEPT ![made + 1] = who[th]]
    /\ granted' = [granted EXCEPT ![made + 1] = base[th] + 1]
    /\ latest' = [latest EXCEPT ![who[th]] = base[th] + 1]
    /\ revoked' = revoked \cup victims[th]
    /\ since' = [since EXCEPT ![made + 1] = known[th]]
    /\ End(th)
    /\ UNCHANGED <<idle, expired>>

Abort(th) ==
    /\ pc[th] # "idle"
    /\ End(th)
    /\ UNCHANGED <<latest, made, owner, granted, revoked, idle, expired, since>>

----------------------------------------------------------------------------
(* The other requests, the scheduler and time.                             *)

Revoke(sessions) ==
    /\ revoked' = revoked \cup sessions
    /\ UNCHANGED <<latest, made, owner, granted, idle, expired, threadVars, since>>

(* logout_user.                                                            *)
Logout(s) == Accepted(s) /\ s \notin idle /\ Revoke({s})

(* get_current_user or rotate_refresh_token finds the session idle.        *)
Timeout(s) == Accepted(s) /\ s \in idle /\ Revoke({s})

(* run_scheduled_jobs.                                                     *)
Sweep == Revoke({s \in expired : Live(s)})

Idle(s) ==
    /\ Live(s)
    /\ idle' = idle \cup {s}
    /\ UNCHANGED <<latest, made, owner, granted, revoked, expired, threadVars, since>>

Expire(s) ==
    /\ Live(s)
    /\ expired' = expired \cup {s}
    /\ UNCHANGED <<latest, made, owner, granted, revoked, idle, threadVars, since>>

Next ==
    \/ \E th \in Threads :
        \/ \E u \in Users : SignIn(th, u)
        \/ \E s \in Ids : Refresh(th, s)
        \/ RevokeAll(th) \/ Grant(th) \/ Abort(th)
    \/ \E s \in Ids : Logout(s) \/ Timeout(s) \/ Idle(s) \/ Expire(s)
    \/ Sweep

Spec == Init /\ [][Next]_vars

----------------------------------------------------------------------------
(* Properties.                                                             *)

(* ACCEPTANCE.md: after a new sign-in the old token is refused.  Two       *)
(* sessions of a user are both accepted only if the transactions that      *)
(* granted them overlapped, the later one having loaded the user before    *)
(* the earlier one's commit; a sign-in or a refresh that begins when a     *)
(* session is there ends it, whatever overlaps, fails or expires.          *)
SingleDevice ==
    \A s, t \in Ids :
        s < t /\ Accepted(s) /\ Accepted(t) /\ owner[s] = owner[t] => s > since[t]
=============================================================================
