--------------------------- MODULE AccountAccess ----------------------------
(***************************************************************************)
(* One user account, its login sessions and its API tokens: login and       *)
(* lockout (services/auth_service.py, api/v1/auth.py), the admission of a   *)
(* request (api/deps.py), create and disable (api/v1/users.py), API tokens  *)
(* (api/v1/admin.py) and the nightly prune (tasks/billing.py).              *)
(*                                                                         *)
(* A login reads the account, checks the password for a while and writes    *)
(* only then, the columns it changed and nothing else, so that logins,      *)
(* failures and a disable overlap.  An UPDATE of the account waits for its  *)
(* row; disable is flushed before it lists the sessions, so a login commits *)
(* before the list is read or after the disable.  What an administrator may *)
(* do, the rate limiter, roles and scopes are left out.                     *)
(*                                                                         *)
(* Time is counted down: `left` is what remains of a session or token, and  *)
(* locked what remains of a lock.                                           *)
(***************************************************************************)
EXTENDS Integers

CONSTANTS
    Requests,    \* requests served at a time, reused
    Sessions,    \* login sessions that may come to exist
    Tokens,      \* API tokens that may come to exist
    Threshold,   \* LOCKOUT_THRESHOLD
    LockTime,    \* LOCKOUT_MINUTES
    Lifetime,    \* access_token_ttl_minutes, or expires_days of a token
    Anonymous    \* no credential presented

ASSUME LimitsAssumption == Threshold \in Nat \ {0} /\ LockTime \in Nat /\ Lifetime \in Nat

VARIABLES
    user,     \* the committed users row
    cred,     \* cred[c]: the committed row of session or token c
    req,      \* req[r]: what request r does and what it has read
    misses    \* failed logins committed so far, counted up to Threshold

accountVars == <<user, cred, req, misses>>

Creds == Sessions \cup Tokens
NoLock == -1
Over == -1      \* past its expiry
Endless == -2   \* expires_at is null
NoUser == [status |-> "absent", failed |-> 0, locked |-> NoLock]
NoCred == [state |-> "absent", left |-> Over]
Fresh == [state |-> "open", left |-> Lifetime]
Idle == [step |-> "idle", read |-> NoUser, cred |-> Anonymous]

OpenCreds == {c \in Creds : cred[c].state = "open"}
Valid == {c \in OpenCreds : cred[c].left # Over}
Admitted == {r \in Requests : req[r].step = "admitted"}

AccountInit ==
    /\ user = NoUser
    /\ cred = [c \in Creds |-> NoCred]
    /\ req = [r \in Requests |-> Idle]
    /\ misses = 0

End(r) == req' = [req EXCEPT ![r] = Idle]

\* A session that is revoked is never looked at again.
RevokedCred == [state |-> "revoked", left |-> Over]

\* Ids are uuids: any unused one will do.
Unused(S) == {c \in S : cred[c].state = "absent"}
NextOf(S) == CHOOSE c \in Unused(S) : TRUE
----------------------------------------------------------------------------
\* POST /users.
CreateUser ==
    /\ user.status = "absent"
    /\ user' = [user EXCEPT !.status = "active"]
    /\ UNCHANGED <<cred, req, misses>>

\* POST /users/{id}/disable: the sessions in the table are revoked with it, the
\* API tokens of the user are not.  No route enables a user again.
Disable ==
    /\ user.status = "active"
    /\ user' = [user EXCEPT !.status = "disabled"]
    /\ cred' = [c \in Creds |-> IF c \in Sessions \cap OpenCreds THEN RevokedCred ELSE cred[c]]
    /\ UNCHANGED <<req, misses>>

----------------------------------------------------------------------------
\* The account is read; a login to one that is missing, disabled or locked is
\* refused at once.
BeginLogin(r) ==
    /\ req[r].step = "idle"
    /\ user.status = "active"
    /\ user.locked <= 0
    /\ req' = [req EXCEPT ![r] = [step |-> "login", read |-> user, cred |-> Anonymous]]
    /\ UNCHANGED <<user, cred, misses>>

\* The UPDATE of a login names the columns that differ from what it read.
Write(r, failed, locked) ==
    user' = [user EXCEPT
        !.failed = IF failed = req[r].read.failed THEN @ ELSE failed,
        !.locked = IF locked = req[r].read.locked THEN @ ELSE locked]

\* Fault: the login puts the whole row back as it read it.
LoginRestores(r) ==
    /\ req[r].step = "login"
    /\ Unused(Sessions) # {}
    /\ cred' = [cred EXCEPT ![NextOf(Sessions)] = Fresh]
    /\ user' = [status |-> req[r].read.status, failed |-> 0, locked |-> NoLock]
    /\ End(r)
    /\ UNCHANGED misses

\* The password matches: the count and an expired lock are cleared, and the
\* session is added, in one commit.
LoginSucceeds(r) ==
    /\ req[r].step = "login"
    /\ Unused(Sessions) # {}
    /\ cred' = [cred EXCEPT ![NextOf(Sessions)] = Fresh]
    /\ Write(r, 0, NoLock)
    /\ End(r)
    /\ UNCHANGED misses

\* Fault: the account is locked one failure early.
LockEarly(failed) == failed + 2 >= Threshold

\* The failure after `failed` others locks the account.
Locks(failed) == failed + 1 >= Threshold

\* The password does not match; two failures that overlap may count as one.
LoginFails(r) ==
    /\ req[r].step = "login"
    /\ LET failed == req[r].read.failed IN
         IF Locks(failed) THEN Write(r, 0, LockTime)
         ELSE Write(r, failed + 1, req[r].read.locked)
    /\ misses' = IF misses < Threshold THEN misses + 1 ELSE misses
    /\ End(r)
    /\ UNCHANGED cred

----------------------------------------------------------------------------
\* A request presents a session or a token that is not revoked and not expired.
Present(r) ==
    /\ req[r].step = "idle"
    /\ \E c \in Valid : req' = [req EXCEPT ![r] = [Idle EXCEPT !.step = "found", !.cred = c]]
    /\ UNCHANGED <<user, cred, misses>>

\* Fault: the status of the user is not looked at.
AdmitAny(r) ==
    /\ req[r].step = "found"
    /\ req' = [req EXCEPT ![r].step = "admitted"]
    /\ UNCHANGED <<user, cred, misses>>

\* load_principal, a second statement: the account as it is now must be active.
Admit(r) ==
    /\ req[r].step = "found"
    /\ user.status = "active"
    /\ req' = [req EXCEPT ![r].step = "admitted"]
    /\ UNCHANGED <<user, cred, misses>>

\* 401.
Refuse(r) ==
    /\ req[r].step = "found"
    /\ user.status # "active"
    /\ End(r)
    /\ UNCHANGED <<user, cred, misses>>

\* The request is served, or it is lost.
FinishRequest(r) ==
    /\ req[r].step \in {"login", "found", "admitted"}
    /\ End(r)
    /\ UNCHANGED <<user, cred, misses>>

\* POST /logout: the session the request came with is revoked.
Logout(r) ==
    /\ req[r].step = "admitted"
    /\ req[r].cred \in Sessions
    /\ cred' = [cred EXCEPT ![req[r].cred] = RevokedCred]
    /\ End(r)
    /\ UNCHANGED <<user, misses>>

\* POST /admin/tokens: a token may have no end.
CreateToken(r) ==
    /\ req[r].step = "admitted"
    /\ Unused(Tokens) # {}
    /\ \E left \in {Lifetime, Endless} :
         cred' = [cred EXCEPT ![NextOf(Tokens)] = [Fresh EXCEPT !.left = left]]
    /\ End(r)
    /\ UNCHANGED <<user, misses>>

\* POST /admin/tokens/{id}/rotate: a new token takes over the expiry of the old
\* one, which is revoked (again, if it was revoked).
RotateToken(r) ==
    /\ req[r].step = "admitted"
    /\ Unused(Tokens) # {}
    /\ \E old \in Tokens \ Unused(Tokens) :
         cred' = [cred EXCEPT ![old].state = "revoked",
                              ![NextOf(Tokens)] = [Fresh EXCEPT !.left = cred[old].left]]
    /\ End(r)
    /\ UNCHANGED <<user, misses>>

----------------------------------------------------------------------------
\* Fault: the prune compares with < where the admission compares with >.
PruneValid ==
    /\ \E s \in Sessions : cred[s].state = "open" /\ cred[s].left = 0
    /\ cred' = [c \in Creds |-> IF c \in Sessions /\ cred[c].left = 0 THEN RevokedCred ELSE cred[c]]
    /\ UNCHANGED <<user, req, misses>>

\* The nightly prune, one UPDATE: open sessions past their expiry are revoked.
Prune ==
    /\ (OpenCreds \ Valid) \cap Sessions # {}
    /\ cred' = [c \in Creds |-> IF c \in (OpenCreds \ Valid) \cap Sessions THEN RevokedCred ELSE cred[c]]
    /\ UNCHANGED <<user, req, misses>>

Less(left) == IF left > 0 THEN left - 1 ELSE left

\* Time passes: a lock runs down to 0, which no longer locks, a credential to Over.
Tick ==
    /\ user' = [user EXCEPT !.locked = Less(@)]
    /\ cred' = [c \in Creds |-> IF cred[c].left = 0 THEN [cred[c] EXCEPT !.left = Over]
                                ELSE [cred[c] EXCEPT !.left = Less(@)]]
    /\ UNCHANGED <<req, misses>>

Serve(r) ==
    \/ BeginLogin(r) \/ LoginSucceeds(r) \/ LoginFails(r)
    \/ Present(r) \/ Admit(r) \/ Refuse(r) \/ FinishRequest(r)
    \/ Logout(r) \/ CreateToken(r) \/ RotateToken(r)

AccountNext ==
    \/ CreateUser \/ Disable \/ Prune \/ Tick
    \/ \E r \in Requests : Serve(r)

\* Time passes, beat and a worker of the pricing queue run the prune, and a
\* request under way ends.
AccountFairness ==
    /\ WF_accountVars(Tick) /\ WF_accountVars(Prune)
    /\ \A r \in Requests : WF_accountVars(FinishRequest(r))

AccountSpec == AccountInit /\ [][AccountNext]_accountVars /\ AccountFairness
----------------------------------------------------------------------------
\* A lock is earned: an account is locked only after LOCKOUT_THRESHOLD failed
\* logins, however they overlap each other, a success or the end of a lock.
LockIsEarned == user.locked # NoLock => misses = Threshold

\* Disabling is for good: a login that read the account before it was disabled
\* and writes its counters afterwards does not bring it back.
DisabledForGood == [][user.status = "disabled" => user'.status = "disabled"]_accountVars

\* A disabled user is out: the requests and logins under way end, and from then on
\* none is admitted, though a late login may have left an open session and the
\* API tokens of the user were never revoked.
DisabledIsOut ==
    (user.status = "disabled") ~> [](Admitted = {} /\ \A r \in Requests : req[r].step # "login")

\* Every session is closed in the end, also one that a login committed after the
\* disable had revoked the others.
SessionsEnd == \A s \in Sessions : (s \in OpenCreds) ~> (s \notin OpenCreds)
=============================================================================
