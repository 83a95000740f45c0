------------------------------ MODULE Accounts ------------------------------
(***************************************************************************)
(* Accounts, their tokens and the school they belong to: service/auth with *)
(* pkg/tokenstate and the JWT middleware, and the lifecycle of a school in *)
(* service/school with its daily jobs, for one user of one school.         *)
(*                                                                         *)
(* Every handler reads, decides, and writes later, in PostgreSQL and then  *)
(* in Redis: a thread's record says how far it is.  Tokens come in pairs   *)
(* numbered in the order of issue; a pair stands for its access token (the *)
(* jti) and its refresh token.  Tokens never expire here.                  *)
(*                                                                         *)
(* Time runs in half seconds, because token_valid_after has a fraction and *)
(* the iat of a token has none.  The end of a licence is on the same axis. *)
(***************************************************************************)
EXTENDS Integers, Sequences, FiniteSets

CONSTANTS
    Crews,        \* the threads (handlers and jobs) at work, with bounds on the pairs
                  \* issued and on administrators' changes: [threads, pairs, changes]
    MaxFail,      \* LoginFailMaxCount of the security policy
    Grace,        \* the buffering period, seven days in the code
    Never,        \* no time, no session, no cached value
    MaxNow        \* bound: time

VARIABLES
    now,        \* the clock
    user,       \* the row of users: status, deleted, first login, token_valid_after
    locking,    \* login_fail and account_locked in Redis, locked_until in the row
    validAfter, \* the cached token_valid_after
    session,    \* session:{user} in Redis: the pair it holds
    pairs,      \* the pairs issued: iat and the operation that asked
    black,      \* pairs whose access token is blacklisted
    temp,       \* a temporary token for the first password change is out
    school,     \* the row of schools
    shown,      \* school:status:{id} in Redis
    thr,        \* what each thread is doing
    left,       \* what is left of the bounds
    kicked      \* history: the seconds whose pairs may be valid outside the session

userVars == <<user, locking, validAfter, session, pairs, black, temp>>
schoolVars == <<school, shown>>
vars == <<now, userVars, schoolVars, thr, left, kicked>>

Second(t) == t \div 2
Idle == [at |-> "idle", pair |-> 0, by |-> "none", seen |-> "none"]
Threads == UNION {c.threads : c \in Crews}
Free(t) == t \in DOMAIN thr /\ thr[t] = Idle
Goes(t, r) == thr' = [thr EXCEPT ![t] = r]
Ends(t) == Goes(t, Idle)
At(t, step) == t \in DOMAIN thr /\ thr[t].at = step

-----------------------------------------------------------------------------
(* What the middleware and the login checks look at.                       *)

Expired == school.end <= now

\* CheckLoginAllowed: the row, not the cache.
SchoolAdmits == school.status = "buffering" \/ (school.status = "active" /\ ~Expired)

\* ResolveTokenValidAfter: whole seconds from the cache, the fraction from the row.
ValidAfter ==
    IF validAfter # Never THEN validAfter
    ELSE IF user.deleted THEN Never ELSE user.validAfter

\* What the cache holds after that question: whole seconds again.
Loaded ==
    IF validAfter = Never /\ ~user.deleted /\ user.validAfter # Never
    THEN 2 * Second(user.validAfter) ELSE validAfter

NotBefore(i) == IF ValidAfter = Never THEN TRUE ELSE 2 * pairs[i].iat >= ValidAfter

\* CheckSchoolAccess: lets through what it finds no entry for.
TenantAdmits ==
    IF shown = Never THEN TRUE
    ELSE shown.status = "buffering" \/ (shown.status = "active" /\ shown.end > now)

\* A request with the access token of pair i reaches its handler.
Accepted(i) == i \notin black /\ NotBefore(i) /\ TenantAdmits

-----------------------------------------------------------------------------
Init ==
    /\ now = 3
    /\ user = [status |-> "active", deleted |-> FALSE, first |-> FALSE, validAfter |-> Never]
    /\ locking = [fails |-> 0, locked |-> FALSE, until |-> "none"]
    /\ validAfter = Never /\ session = Never
    /\ pairs = <<>> /\ black = {} /\ temp = FALSE
    /\ \E e \in {now, MaxNow + 1} :
         school = [status |-> "active", end |-> e, frozenAt |-> Never]
    /\ shown = [status |-> "active", end |-> school.end]
    /\ \E crew \in Crews :
         /\ thr = [t \in crew.threads |-> Idle]
         /\ left = [pairs |-> crew.pairs, changes |-> crew.changes]
    /\ kicked = {}

-----------------------------------------------------------------------------
(* Logging in.                                                             *)

Unlocked(l) == [l EXCEPT !.fails = 0, !.locked = FALSE, !.until = "none"]

\* Login up to the password: the lock in Redis is read, then the row.  A lock
\* that is over is cleared here.
LoginWrong(t) ==
    /\ Free(t) /\ ~locking.locked /\ ~user.deleted
    /\ locking' = IF locking.until = "past" THEN Unlocked(locking) ELSE locking
    /\ Goes(t, [Idle EXCEPT !.at = "wrong"])
    /\ UNCHANGED <<now, user, validAfter, session, pairs, black, temp, schoolVars, left, kicked>>

\* handleLoginFail: the count, and the lock when it has reached the maximum.
CountFailure_over(t) ==     \* mutant: the lock comes one failure late
    /\ At(t, "wrong")
    /\ locking' = [locking EXCEPT !.fails = @ + 1]
    /\ IF locking.fails + 1 > MaxFail
       THEN Goes(t, [Idle EXCEPT !.at = "lock"])
       ELSE Ends(t)
    /\ UNCHANGED <<now, user, validAfter, session, pairs, black, temp, schoolVars, left, kicked>>

CountFailure(t) ==
    /\ At(t, "wrong")
    /\ locking' = [locking EXCEPT !.fails = @ + 1]
    /\ IF locking.fails + 1 >= MaxFail
       THEN Goes(t, [Idle EXCEPT !.at = "lock"])
       ELSE Ends(t)
    /\ UNCHANGED <<now, user, validAfter, session, pairs, black, temp, schoolVars, left, kicked>>

LockAccount(t) ==
    /\ At(t, "lock")
    /\ locking' = [locking EXCEPT !.locked = TRUE, !.until = "future"]
    /\ Ends(t)
    /\ UNCHANGED <<now, user, validAfter, session, pairs, black, temp, schoolVars, left, kicked>>

\* Login with the right password, up to the last check.
LoginRight(t) ==
    /\ Free(t) /\ ~locking.locked /\ ~user.deleted
    /\ user.status = "active" /\ locking.until # "future" /\ SchoolAdmits
    /\ locking' = IF locking.until = "past" THEN Unlocked(locking) ELSE locking
    /\ Goes(t, [Idle EXCEPT !.at = "passed", !.by = "login",
                            !.seen = IF user.first THEN "first" ELSE "none"])
    /\ UNCHANGED <<now, user, validAfter, session, pairs, black, temp, schoolVars, left, kicked>>

\* completeSSOLogin: no password and no lock.
LoginSSO(t) ==
    /\ Free(t) /\ ~user.deleted /\ user.status = "active" /\ SchoolAdmits
    /\ Goes(t, [Idle EXCEPT !.at = "passed", !.by = "sso",
                            !.seen = IF user.first THEN "first" ELSE "none"])
    /\ UNCHANGED <<now, userVars, schoolVars, left, kicked>>

\* The failures are forgotten; a password login clears them and the lock of the row.
ForgetFailures(t) ==
    locking' = IF thr[t].by = "login" THEN [locking EXCEPT !.fails = 0, !.until = "none"]
               ELSE locking

\* The first login only hands out the temporary token.
GrantTemp(t) ==
    /\ At(t, "passed") /\ thr[t].seen = "first"
    /\ ForgetFailures(t)
    /\ temp' = TRUE /\ Ends(t)
    /\ UNCHANGED <<now, user, validAfter, session, pairs, black, schoolVars, left, kicked>>

\* UpdateTokenValidAfter and SetTokenValidAfter: the row keeps the fraction.
RaiseValidAfter ==
    /\ user' = IF user.deleted THEN user ELSE [user EXCEPT !.validAfter = now]
    /\ validAfter' = 2 * Second(now)

\* generateTokenPair, and the first half of storeSession: the pair found in the
\* session is blacklisted.
IssuePair_keeps(t, by) ==   \* mutant: the pair found in the session stays valid
    /\ left.pairs > 0 /\ left' = [left EXCEPT !.pairs = @ - 1]
    /\ pairs' = Append(pairs, [iat |-> Second(now), by |-> by])
    /\ black' = black
    /\ Goes(t, [Idle EXCEPT !.at = "store", !.pair = Len(pairs) + 1])

IssuePair(t, by) ==
    /\ left.pairs > 0 /\ left' = [left EXCEPT !.pairs = @ - 1]
    /\ pairs' = Append(pairs, [iat |-> Second(now), by |-> by])
    /\ black' = IF session = Never THEN black ELSE black \union {session}
    /\ Goes(t, [Idle EXCEPT !.at = "store", !.pair = Len(pairs) + 1])

IssueLogin(t) ==
    /\ At(t, "passed") /\ thr[t].seen = "none"
    /\ ForgetFailures(t) /\ RaiseValidAfter /\ IssuePair(t, thr[t].by)
    /\ UNCHANGED <<now, session, temp, schoolVars, kicked>>

StoreSession(t) ==
    /\ At(t, "store")
    /\ session' = thr[t].pair /\ Ends(t)
    /\ UNCHANGED <<now, user, locking, validAfter, pairs, black, temp, schoolVars, left, kicked>>

\* ForceChangePassword asks for the temporary token and the first login, and
\* neither for the status of the account nor for the school.
ForceChangePassword(t) ==
    /\ Free(t) /\ temp /\ user.first /\ ~user.deleted
    /\ user' = [user EXCEPT !.first = FALSE, !.validAfter = now]
    /\ validAfter' = 2 * Second(now)
    /\ IssuePair(t, "force") /\ temp' = FALSE
    /\ UNCHANGED <<now, locking, session, schoolVars, kicked>>

\* RefreshToken up to the new pair: the token must be the one in the session.
RefreshCheck(t) ==
    /\ Free(t) /\ session # Never /\ NotBefore(session)
    /\ ~user.deleted /\ user.status = "active" /\ SchoolAdmits
    /\ validAfter' = Loaded /\ Goes(t, [Idle EXCEPT !.at = "refresh"])
    /\ UNCHANGED <<now, user, locking, session, pairs, black, temp, schoolVars, left, kicked>>

IssueRefresh(t) ==
    /\ At(t, "refresh") /\ IssuePair(t, "refresh")
    /\ UNCHANGED <<now, user, locking, validAfter, session, temp, schoolVars, kicked>>

\* Logout with the access token of pair i: it drops the session, whichever pair that holds.
Logout(t, i) ==
    /\ Free(t) /\ Accepted(i)
    /\ RaiseValidAfter
    /\ black' = black \union {i} /\ session' = Never /\ Ends(t)
    /\ kicked' = IF session \in {i, Never} THEN kicked ELSE kicked \union {pairs[session].iat}
    /\ UNCHANGED <<now, locking, pairs, temp, schoolVars, left>>

\* A request that misses the cached time loads it back.
UseToken(i) ==
    /\ i \notin black /\ validAfter' = Loaded /\ validAfter' # validAfter
    /\ UNCHANGED <<now, user, locking, session, pairs, black, temp, schoolVars, thr, left, kicked>>

-----------------------------------------------------------------------------
(* Administrators, on the account.                                         *)

Spend == left.changes > 0 /\ left' = [left EXCEPT !.changes = @ - 1]

\* UpdateStatus, Delete, ResetPassword: the row first, the kick after it.
ChangeUser_quiet(t, u) ==    \* mutant: a user who is disabled or archived is not kicked
    /\ Free(t) /\ ~user.deleted /\ Spend
    /\ user' = u
    /\ IF ~u.deleted /\ u.first = user.first THEN Ends(t) ELSE Goes(t, [Idle EXCEPT !.at = "kick"])
    /\ UNCHANGED <<now, locking, validAfter, session, pairs, black, temp, schoolVars, kicked>>

ChangeUser(t, u) ==
    /\ Free(t) /\ ~user.deleted /\ Spend
    /\ user' = u
    /\ IF u.status = "active" /\ ~u.deleted /\ u.first = user.first
       THEN Ends(t)
       ELSE Goes(t, [Idle EXCEPT !.at = "kick"])
    /\ UNCHANGED <<now, locking, validAfter, session, pairs, black, temp, schoolVars, kicked>>

UpdateStatus(t, s) == ChangeUser(t, [user EXCEPT !.status = s])
Delete(t) == ChangeUser(t, [user EXCEPT !.deleted = TRUE])
ResetPassword(t) == ~user.first /\ ChangeUser(t, [user EXCEPT !.first = TRUE])

\* kickUser, that is invalidateUserSession.
Kick(t) ==
    /\ At(t, "kick")
    /\ black' = IF session = Never THEN black ELSE black \union {session}
    /\ RaiseValidAfter /\ session' = Never /\ Ends(t)
    /\ UNCHANGED <<now, locking, pairs, temp, schoolVars, left, kicked>>

UnlockUser(t) ==
    /\ Free(t) /\ ~user.deleted /\ Spend
    /\ locking' = Unlocked(locking) /\ Ends(t)
    /\ UNCHANGED <<now, user, validAfter, session, pairs, black, temp, schoolVars, kicked>>

-----------------------------------------------------------------------------
(* The school.                                                             *)

Gone == school.status = "cancelled"

\* What each operation demands of the row it loads.
Due(op) ==
    \/ op = "freeze" /\ school.status \in {"active", "buffering"}
    \/ op = "unfreeze" /\ school.status = "frozen"
    \/ op = "cancel" /\ ~Gone
    \/ op = "restore" /\ Gone
    \/ op = "licence" /\ ~Gone
    \/ op = "expire" /\ school.status = "active" /\ Expired
    \/ op = "lapse" /\ school.status = "buffering" /\ school.end + Grace <= now

Operations == {"freeze", "unfreeze", "cancel", "restore", "licence", "expire", "lapse"}

\* The handler loads the school, or the job lists it, and decides.
Decide(t, op) ==
    /\ Free(t) /\ Due(op) /\ Spend
    /\ Goes(t, [Idle EXCEPT !.at = op, !.seen = school.status])
    /\ UNCHANGED <<now, userVars, schoolVars, kicked>>

\* refreshSchoolStatusCache and deleteSchoolStatusCache.
ShowSchool(s, e) == shown' = [status |-> s, end |-> e]
HideSchool == shown' = Never

\* UpdateFields: a cancelled school is soft deleted, no row matches.
Becomes(s) == school' = IF Gone THEN school ELSE s

\* Freeze, and the job that freezes after the buffering period.
FreezeSchool(t) ==
    /\ At(t, "freeze") \/ At(t, "lapse")
    /\ Becomes([school EXCEPT !.status = "frozen", !.frozenAt = now])
    /\ HideSchool /\ Goes(t, [Idle EXCEPT !.at = "kickSchool"])
    /\ UNCHANGED <<now, userVars, left, kicked>>

\* KickSchoolUsers sees the users that are not deleted, and blacklists nothing.
KickSchoolUsers(t) ==
    /\ At(t, "kickSchool") /\ Ends(t)
    /\ IF user.deleted THEN UNCHANGED <<user, validAfter, session, kicked>>
       ELSE RaiseValidAfter /\ session' = Never /\ kicked' = kicked \union {Second(now)}
    /\ UNCHANGED <<now, locking, pairs, black, temp, schoolVars, left>>

Unfreeze(t) ==
    /\ At(t, "unfreeze")
    /\ Becomes([school EXCEPT !.status = "active", !.frozenAt = Never])
    /\ ShowSchool("active", school.end) /\ Ends(t)
    /\ UNCHANGED <<now, userVars, left, kicked>>

\* The transaction of Cancel takes the users with it.
Cancel(t) ==
    /\ At(t, "cancel")
    /\ Becomes([school EXCEPT !.status = "cancelled"])
    /\ user' = [user EXCEPT !.deleted = TRUE]
    /\ HideSchool /\ Goes(t, [Idle EXCEPT !.at = "kickSchool"])
    /\ UNCHANGED <<now, locking, validAfter, session, pairs, black, temp, left, kicked>>

\* Restore brings back every user of the school, whoever deleted it.
Restore(t) ==
    /\ At(t, "restore")
    /\ school' = [school EXCEPT !.status = "active"]
    /\ user' = [user EXCEPT !.deleted = FALSE]
    /\ ShowSchool("active", school.end) /\ Ends(t)
    /\ UNCHANGED <<now, locking, validAfter, session, pairs, black, temp, left, kicked>>

\* SetLicense leaves the status alone and shows the one it loaded.
SetLicense(t, e) ==
    /\ At(t, "licence")
    /\ Becomes([school EXCEPT !.end = e])
    /\ ShowSchool(thr[t].seen, e) /\ Ends(t)
    /\ UNCHANGED <<now, userVars, left, kicked>>

\* RunExpireToBuffering.
ExpireToBuffering(t) ==
    /\ At(t, "expire")
    /\ Becomes([school EXCEPT !.status = "buffering"])
    /\ ShowSchool("buffering", school.end) /\ Ends(t)
    /\ UNCHANGED <<now, userVars, left, kicked>>

-----------------------------------------------------------------------------
(* Time, and the keys that go with it.                                     *)

Tick ==
    /\ now < MaxNow /\ now' = now + 1
    /\ UNCHANGED <<userVars, schoolVars, thr, left, kicked>>

\* login_fail lives as long as the lock, from the first failure on.
FailuresExpire ==
    /\ locking.fails > 0 /\ locking' = [locking EXCEPT !.fails = 0]
    /\ UNCHANGED <<now, user, validAfter, session, pairs, black, temp, schoolVars, thr, left, kicked>>

LockPeriodEnds ==
    /\ locking.locked
    /\ locking' = [locking EXCEPT !.locked = FALSE,
                                  !.until = IF @ = "future" THEN "past" ELSE @]
    /\ UNCHANGED <<now, user, validAfter, session, pairs, black, temp, schoolVars, thr, left, kicked>>

ValidAfterEvicted ==
    /\ validAfter # Never /\ validAfter' = Never
    /\ UNCHANGED <<now, user, locking, session, pairs, black, temp, schoolVars, thr, left, kicked>>

ShownExpires ==
    /\ shown # Never /\ HideSchool
    /\ UNCHANGED <<now, userVars, school, thr, left, kicked>>

\* A temporary token lives five minutes.
TempExpires ==
    /\ temp /\ temp' = FALSE
    /\ UNCHANGED <<now, user, locking, validAfter, session, pairs, black, schoolVars, thr, left, kicked>>

Next ==
    \/ \E t \in Threads :
         \/ LoginWrong(t) \/ CountFailure(t) \/ LockAccount(t)
         \/ LoginRight(t) \/ LoginSSO(t) \/ GrantTemp(t) \/ IssueLogin(t) \/ StoreSession(t)
         \/ ForceChangePassword(t) \/ RefreshCheck(t) \/ IssueRefresh(t)
         \/ \E i \in DOMAIN pairs : Logout(t, i)
         \/ \E s \in {"active", "disabled", "archived"} : UpdateStatus(t, s)
         \/ Delete(t) \/ ResetPassword(t) \/ Kick(t) \/ UnlockUser(t)
         \/ \E op \in Operations : Decide(t, op)
         \/ FreezeSchool(t) \/ KickSchoolUsers(t) \/ Unfreeze(t) \/ Cancel(t) \/ Restore(t)
         \/ \E e \in {now, MaxNow + 1} : SetLicense(t, e)
         \/ ExpireToBuffering(t)
    \/ \E i \in DOMAIN pairs : UseToken(i)
    \/ Tick \/ FailuresExpire \/ LockPeriodEnds \/ ValidAfterEvicted \/ ShownExpires \/ TempExpires

Spec == Init /\ [][Next]_vars

-----------------------------------------------------------------------------
Times == 0 .. MaxNow + 1
Statuses == {"active", "buffering", "frozen", "cancelled"}

\* Every variable is in its domain.
TypeOK ==
    /\ now \in Times
    /\ user \in [status : {"active", "disabled", "archived"}, deleted : BOOLEAN,
                 first : BOOLEAN, validAfter : Times \union {Never}]
    /\ locking.fails \in Nat /\ locking.locked \in BOOLEAN
    /\ locking.until \in {"none", "future", "past"}
    /\ validAfter \in Times \union {Never}
    /\ session \in DOMAIN pairs \union {Never}
    /\ black \subseteq DOMAIN pairs
    /\ school \in [status : Statuses, end : Times, frozenAt : Times \union {Never}]
    /\ shown \in [status : Statuses, end : Times] \union {Never}

Settled == Cardinality(DOMAIN thr) = 1 /\ \A t \in DOMAIN thr : Free(t)
Alive == school.status \in {"active", "buffering"} /\ TenantAdmits

\* Single device (AC-04 of module 01): the token of the stored session is accepted
\* and no other is, whatever logins, refreshes, logouts and kicks came before, one
\* after the other.  Said while the school lives and the cache knows the time
\* tokens must be newer than; without it the fraction in the row counts.
\* The kick of a whole school blacklists nothing: pairs of its second stay, and a logout
\* with one of them drops a session without blacklisting the pair in it.
OnlyTheSession ==
    Settled /\ Alive /\ validAfter # Never =>
        /\ session # Never => Accepted(session)
        /\ \A i \in DOMAIN pairs : Accepted(i) => i = session \/ pairs[i].iat \in kicked

\* BR-20A: a user who is disabled, archived or deleted, and the users of a frozen
\* school, have no token that is accepted.  A cancelled school is not covered (its
\* users are deleted before the kick looks for them), nor a pair handed out by
\* ForceChangePassword, nor one issued in a second of kicked.  Once the row
\* is deleted only the cache still knows the time tokens must be newer than.
OutStaysOut ==
    Settled /\ school.status # "cancelled" /\ (user.deleted => validAfter # Never)
            /\ (user.deleted \/ user.status # "active" \/ school.status = "frozen")
        => \A i \in DOMAIN pairs : Accepted(i) =>
               \/ pairs[i].by = "force"
               \/ pairs[i].iat \in kicked

\* The number of wrong passwords compared before the lock stops them exceeds the
\* maximum by the logins in flight and no more.
FailuresBounded == locking.fails <= MaxFail + Cardinality(DOMAIN thr) - 1
=============================================================================
