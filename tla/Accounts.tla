------------------------------ MODULE Accounts ------------------------------
(***************************************************************************)
(* User accounts and sessions (app/users.py, app/security.py,              *)
(* app/dependencies.py, app/routes/auth.py and app/routes/users.py):       *)
(* signing in, the check that opens every other request, and the requests  *)
(* that change accounts and second factors.                                *)
(*                                                                         *)
(* A step is one SQL statement with its commit.  Handlers share a          *)
(* connection whose lock covers one call, so a handler that reads, decides *)
(* and writes can be overtaken between any two.                            *)
(*                                                                         *)
(* User names and user ids are the same thing here (username is UNIQUE).   *)
(* Passwords and one-time codes are right or wrong, backup codes are       *)
(* numbered as they are issued; changes of passwords and the activity log  *)
(* are left out.  All sign-ins come from one address.                      *)
(***************************************************************************)
EXTENDS Naturals, FiniteSets

CONSTANTS
    Users,        \* user names
    Roles,        \* ROLES
    Sessions,     \* the session ids that may be drawn
    Requests,     \* request-handler threads
    None,
    MaxAttempts,  \* settings.login_max_attempts
    CodeCount,    \* BACKUP_CODE_COUNT
    MaxSecrets,   \* bound: second-factor secrets drawn
    MaxRequests,  \* bound: requests made
    MaxLapses     \* bound: sessions, cookies and failures that expire, and restarts,
                  \* all together

ADMIN == "admin"

ASSUME AccountsAssumption ==
    /\ None \notin Users \cup Sessions \cup Roles
    /\ IsFiniteSet(Requests)
    /\ ADMIN \in Roles
    /\ MaxAttempts \in Nat \ {0}
    /\ MaxSecrets \in Nat \ {0}
    /\ CodeCount \in Nat
    /\ {MaxRequests, MaxLapses} \subseteq Nat

VARIABLES
    user,        \* the users table; secret 0 stands for NULL
    session,     \* the sessions table
    attempts,    \* the address's login_attempts inside the window
    pending,     \* users who hold a pending-2FA cookie
    device,      \* the secret in each user's authenticator, or 0
    drawn,       \* secrets drawn so far
    issued,      \* backup codes issued so far
    process,     \* "up" or "down"
    pc,          \* where each request is
    req,         \* what it is about
    made,        \* requests made, against MaxRequests
    lapses,      \* against MaxLapses
    raced,       \* history: accounts changed since the guard of a request looked
    overlapped,  \* history: an administrator was removed by a request so raced
    rights,      \* history: what each request's user was at some moment of it
    disturbed,   \* history: users whose second factor was reopened while it was on,
                 \* or reset while it was being turned on
    spent,       \* history: the backup codes each user has signed in with
    collided     \* history: users whose codes were written from a stale reading of them

tables == <<user, session, attempts>>
people == <<pending, device, drawn, issued>>
threads == <<pc, req, made>>
used == <<spent, collided>>
history == <<raced, overlapped, rights, disturbed, used>>
vars == <<tables, people, process, threads, lapses, history>>

-----------------------------------------------------------------------------

Account == [role : Roles, disabled : BOOLEAN, secret : 0..MaxSecrets, totp : BOOLEAN,
            codes : SUBSET Nat]

ASSUME NoAccountAssumption == None \notin Account

SessionRow == [state : {"unused"}, user : {None}] \cup
              [state : {"live", "expired", "gone"}, user : Users]

NewAccount(role) ==
    [role |-> role, disabled |-> FALSE, secret |-> 0, totp |-> FALSE, codes |-> {}]

\* UPDATE users SET <column> = ? WHERE id = ?
WithRole(row, role) == [row EXCEPT !.role = role]
WithDisabled(row, disabled) == [row EXCEPT !.disabled = disabled]
WithSecret(row, secret) == [row EXCEPT !.secret = secret]
WithTotp(row, totp) == [row EXCEPT !.totp = totp]
WithCodes(row, codes) == [row EXCEPT !.codes = codes]

\* An active admin, as the queries of _guard_not_last_admin have it.
ActiveAdmin(row) == row # None /\ row.role = ADMIN /\ ~row.disabled

\* Faulty variant: the account itself counts as well.
AllAdmins(u) == {v \in Users : ActiveAdmin(user[v])}

\* SELECT COUNT(*) ... WHERE role = 'admin' AND disabled = 0 AND id != ?
OtherAdmins(u) == {v \in Users \ {u} : ActiveAdmin(user[v])}

\* Faulty variant: one attempt too many.
LimitedLate == attempts > MaxAttempts

\* is_rate_limited.
Limited == attempts >= MaxAttempts

\* What get_session_user and admin_required look for in a user's row.
Rights(row) ==
    {right \in {"enabled", "admin"} :
        /\ row # None
        /\ right = "enabled" => ~row.disabled
        /\ right = "admin" => row.role = ADMIN}

Guarded == {"set_role", "disable"}
AdminOps == Guarded \cup {"create", "enable", "disable_totp"}
OwnOps == {"look", "setup", "confirm", "turn_off", "logout"}
SignIns == {"login", "code"}

NoRequest == [op |-> "none", actor |-> None, session |-> None, target |-> None, role |-> None,
              seen |-> {}]

\* A request's operation and what it is for, and the backup codes a sign-in has read.
RequestRecord == [op : AdminOps \cup OwnOps \cup SignIns \cup {"none"},
                  actor : Users \cup {None}, session : Sessions \cup {None},
                  target : Users \cup {None}, role : Roles \cup {None}, seen : SUBSET Nat]

\* The first statement of an operation's own, after the sign-in and role checks.
FirstStep(op) ==
    CASE op = "create" -> "lookup"
      [] op \in Guarded -> "target"
      [] op \in {"enable", "disable_totp", "turn_off"} -> "write"
      [] op = "setup" -> "setup"
      [] op = "confirm" -> "verify"
      [] op = "logout" -> "destroy"
      [] op = "look" -> "idle"

Pcs == {"idle", "account", "destroy", "touch", "role", "lookup", "insert", "target",
        "count", "write", "setup", "verify", "turnOn",
        "authenticate", "code", "spend", "fail", "clearAsk", "clearSign", "sign"}

\* Past the guard's first look, and before the write.
Deciding(r) == pc[r] \in {"count", "write"} /\ req[r].op \in Guarded

\* The accounts are none, or some with an administrator, all with a second factor or
\* none, and one of them may be signed in, as a process before left them.
Init ==
    /\ drawn = 1
    /\ issued = CodeCount
    /\ \E enrolled \in {0, drawn} :
        user \in [Users -> {None} \cup
            [role : Roles, disabled : {FALSE}, secret : {enrolled}, totp : {enrolled # 0},
             codes : {IF enrolled # 0 THEN 1..issued ELSE {}}]]
    /\ (\A u \in Users : user[u] = None) \/ (\E u \in Users : ActiveAdmin(user[u]))
    /\ session \in [Sessions -> [state : {"unused"}, user : {None}] \cup
                                [state : {"live"}, user : {u \in Users : user[u] # None}]]
    /\ \A s, t \in Sessions : s # t => "unused" \in {session[s].state, session[t].state}
    /\ attempts = 0
    /\ pending = {}
    /\ device = [u \in Users |-> IF user[u] = None THEN 0 ELSE user[u].secret]
    /\ process = "down"
    /\ pc = [r \in Requests |-> "idle"]
    /\ req = [r \in Requests |-> NoRequest]
    /\ made = 0
    /\ lapses = 0
    /\ raced = [r \in Requests |-> FALSE]
    /\ overlapped = FALSE
    /\ rights = [r \in Requests |-> {}]
    /\ disturbed = {}
    /\ spent = [u \in Users |-> {}]
    /\ collided = {}

-----------------------------------------------------------------------------
(* Steps that several handlers share *)

Goto(r, label) ==
    /\ pc' = [pc EXCEPT ![r] = label]
    /\ UNCHANGED <<req, made, raced, rights>>

\* The handler is done.
End(r) ==
    /\ pc' = [pc EXCEPT ![r] = "idle"]
    /\ req' = [req EXCEPT ![r] = NoRequest]
    /\ raced' = [raced EXCEPT ![r] = FALSE]
    /\ rights' = [rights EXCEPT ![r] = {}]
    /\ UNCHANGED made

Proceed(r, label) == IF label = "idle" THEN End(r) ELSE Goto(r, label)

Arrive(r, op, label) ==
    /\ process = "up"
    /\ pc[r] = "idle"
    /\ made < MaxRequests
    /\ made' = made + 1
    /\ pc' = [pc EXCEPT ![r] = label]
    /\ req' = [req EXCEPT ![r] = op]

\* A statement that changes the role or the state of an account, or adds one: the last of
\* its handler.  Other requests may notice or not; the history variables do.
Change(r, u, row) ==
    /\ user' = [user EXCEPT ![u] = row]
    /\ pc' = [pc EXCEPT ![r] = "idle"]
    /\ req' = [req EXCEPT ![r] = NoRequest]
    /\ raced' = [q \in Requests |-> q # r /\ (raced[q] \/ Deciding(q))]
    /\ overlapped' = (overlapped \/ (raced[r] /\ ~ActiveAdmin(row)))
    /\ rights' = [q \in Requests |->
                    IF q = r THEN {}
                    ELSE IF req[q].actor = u /\ req[q].session # None
                         THEN rights[q] \cup Rights(row) ELSE rights[q]]
    /\ UNCHANGED <<session, attempts, people, process, made, lapses, disturbed, used>>

-----------------------------------------------------------------------------
(* The check that opens a request: current_user, then admin_required *)

\* get_session_user's SELECT on sessions.
ReadSession(r) ==
    \E s \in Sessions, op \in AdminOps \cup OwnOps, role \in Roles \cup {None} :
        LET actor == session[s].user IN
        \E target \in IF op \in AdminOps THEN Users ELSE {actor} :
            /\ session[s].state \in {"live", "expired"}
            /\ (role # None) <=> (op \in {"create", "set_role"})
            /\ op \in AdminOps \ {"create"} => user[target] # None
            /\ Arrive(r, [op |-> op, actor |-> actor, session |-> s,
                          target |-> target, role |-> role, seen |-> {}],
                      IF session[s].state = "live" THEN "account" ELSE "destroy")
            /\ rights' = [rights EXCEPT ![r] = Rights(user[actor])]
            /\ UNCHANGED <<tables, people, process, lapses, raced, overlapped, disturbed, used>>

\* Faulty variant: it is enough that the account exists.
MayContinueAnyway(row) == row # None

\* The account exists and is not disabled.
MayContinue(row) == row # None /\ ~row.disabled

\* Its SELECT on users.
ReadAccount(r) ==
    /\ pc[r] = "account"
    /\ Goto(r, IF MayContinue(user[req[r].actor]) THEN "touch" ELSE "destroy")
    /\ UNCHANGED <<tables, people, process, lapses, overlapped, disturbed, used>>

\* destroy_session, by either of the two or by logout.
Destroy(r) ==
    /\ pc[r] = "destroy"
    /\ session' = [session EXCEPT ![req[r].session].state = "gone"]
    /\ End(r)
    /\ UNCHANGED <<user, attempts, people, process, lapses, overlapped, disturbed, used>>

\* Faulty variant: a row that is gone is written again.
TouchedAgain(state) == IF state = "unused" THEN state ELSE "live"

\* What touch_session's UPDATE makes of a row that is there, or is not.
Touched(state) == IF state = "expired" THEN "live" ELSE state

Touch(r) ==
    /\ pc[r] = "touch"
    /\ session' = [session EXCEPT ![req[r].session].state = Touched(@)]
    /\ Proceed(r, IF req[r].op \in AdminOps THEN "role" ELSE FirstStep(req[r].op))
    /\ UNCHANGED <<user, attempts, people, process, lapses, overlapped, disturbed, used>>

\* admin_required's get_user.
ReadRole(r) ==
    /\ pc[r] = "role"
    /\ Proceed(r, IF user[req[r].actor] # None /\ user[req[r].actor].role = ADMIN
                  THEN FirstStep(req[r].op) ELSE "idle")
    /\ UNCHANGED <<tables, people, process, lapses, overlapped, disturbed, used>>

-----------------------------------------------------------------------------
(* What administrators do: app/routes/users.py *)

\* create_user looks for the name ...
Lookup(r) ==
    /\ pc[r] = "lookup"
    /\ Proceed(r, IF user[req[r].target] = None THEN "insert" ELSE "idle")
    /\ UNCHANGED <<tables, people, process, lapses, overlapped, disturbed, used>>

\* ... and inserts; the table refuses a name that has come in between.
Insert(r) ==
    LET u == req[r].target IN
    /\ pc[r] = "insert"
    /\ IF user[u] = None
       THEN Change(r, u, NewAccount(req[r].role))
       ELSE End(r) /\ UNCHANGED <<tables, people, process, lapses, overlapped, disturbed, used>>

\* _guard_not_last_admin reads the account: the rest of it is for active administrators
\* who are to be one no longer.
ReadTarget(r) ==
    LET removes == ActiveAdmin(user[req[r].target]) /\ req[r].role # ADMIN IN
    /\ pc[r] = "target"
    /\ Goto(r, IF removes THEN "count" ELSE "write")
    /\ UNCHANGED <<tables, people, process, lapses, overlapped, disturbed, used>>

CountOthers(r) ==
    /\ pc[r] = "count"
    /\ Proceed(r, IF OtherAdmins(req[r].target) = {} THEN "idle" ELSE "write")
    /\ UNCHANGED <<tables, people, process, lapses, overlapped, disturbed, used>>

\* The UPDATE of set_role or set_disabled.
WriteAccount(r) ==
    LET u == req[r].target
        op == req[r].op
    IN  /\ pc[r] = "write"
        /\ op \in {"set_role", "disable", "enable"}
        /\ Change(r, u, IF op = "set_role" THEN WithRole(user[u], req[r].role)
                        ELSE WithDisabled(user[u], op = "disable"))

-----------------------------------------------------------------------------
(* The second factor *)

\* The pages of whoever is between confirm_totp_enrollment's check and its write.
TurningOn(u) == \E q \in Requests : pc[q] = "turnOn" /\ req[q].target = u

\* disable_totp, for oneself or by an administrator.
DisableTotp(r) ==
    LET u == req[r].target IN
    /\ pc[r] = "write"
    /\ req[r].op \in {"disable_totp", "turn_off"}
    /\ user' = [user EXCEPT ![u] = WithCodes(WithSecret(WithTotp(@, FALSE), 0), {})]
    /\ disturbed' = IF TurningOn(u) THEN disturbed \cup {u} ELSE disturbed \ {u}
    /\ End(r)
    /\ UNCHANGED <<session, attempts, people, process, lapses, overlapped, used>>

\* begin_totp_enrollment: a new secret in place of any other, and a page with its code,
\* which the user scans or leaves.
Setup(r) ==
    LET u == req[r].target IN
    /\ pc[r] = "setup"
    /\ drawn < MaxSecrets
    /\ drawn' = drawn + 1
    /\ user' = [user EXCEPT ![u] = WithSecret(@, drawn + 1)]
    /\ \E scanned \in {device[u], drawn + 1} : device' = [device EXCEPT ![u] = scanned]
    /\ disturbed' = IF user[u].totp \/ TurningOn(u) THEN disturbed \cup {u} ELSE disturbed
    /\ End(r)
    /\ UNCHANGED <<session, attempts, pending, issued, process, lapses, overlapped, used>>

\* verify_code, of the code the user's authenticator shows.
Verifies(u) == user[u].secret # 0 /\ device[u] = user[u].secret

\* confirm_totp_enrollment reads the secret and checks the code; a wrong one leads to a
\* new secret.
Confirm(r) ==
    LET u == req[r].target IN
    /\ pc[r] = "verify"
    /\ \/ /\ Verifies(u)
          /\ disturbed' = disturbed \ {u}
          /\ Goto(r, "turnOn")
       \/ Goto(r, "setup") /\ UNCHANGED disturbed
    /\ UNCHANGED <<tables, people, process, lapses, overlapped, used>>

\* UPDATE users SET totp_enabled = 1, with backup codes never issued before.
TurnOn(r) ==
    LET fresh == issued + 1 .. issued + CodeCount IN
    /\ pc[r] = "turnOn"
    /\ user' = [user EXCEPT ![req[r].target] = WithCodes(WithTotp(@, TRUE), fresh)]
    /\ issued' = issued + CodeCount
    /\ End(r)
    /\ UNCHANGED <<session, attempts, pending, device, drawn, process, lapses, overlapped,
                   disturbed, used>>

-----------------------------------------------------------------------------
(* Signing in: app/routes/auth.py *)

\* login_submit, and login_2fa_submit with the cookie of the first step: is_rate_limited.
Submit(r) ==
    /\ \E u \in Users, op \in SignIns :
        /\ op = "code" => u \in pending
        /\ ~Limited
        /\ Arrive(r, [NoRequest EXCEPT !.op = op, !.actor = u],
                  IF op = "login" THEN "authenticate" ELSE "code")
    /\ UNCHANGED <<tables, people, process, lapses, history>>

\* authenticate, with a right or a wrong password.
Authenticate(r) ==
    LET row == user[req[r].actor] IN
    /\ pc[r] = "authenticate"
    /\ \/ Goto(r, "fail")
       \/ /\ row # None /\ ~row.disabled
          /\ Goto(r, IF row.totp THEN "clearAsk" ELSE "clearSign")
    /\ UNCHANGED <<tables, people, process, lapses, overlapped, disturbed, used>>

\* get_user, and verify_totp_or_backup_code on the row it has read: a code of the
\* authenticator, or a backup code.
CheckCode(r) ==
    LET row == user[req[r].actor] IN
    /\ pc[r] = "code"
    /\ \/ (row = None \/ ~row.totp) /\ End(r)
       \/ /\ row # None /\ row.totp
          /\ \/ Goto(r, "fail")
             \/ Verifies(req[r].actor) /\ Goto(r, "clearSign")
       \/ /\ row # None /\ row.totp /\ row.secret # 0 /\ row.codes # {}
          /\ pc' = [pc EXCEPT ![r] = "spend"]
          /\ req' = [req EXCEPT ![r].seen = row.codes]
          /\ UNCHANGED <<made, raced, rights>>
    /\ UNCHANGED <<tables, people, process, lapses, overlapped, disturbed, used>>

\* Faulty variant: a code stays good.
AllOf(codes, code) == codes

\* The list without the code that was used.
Remaining(codes, code) == codes \ {code}

\* ... and the UPDATE that spends it, with what remains of the codes read then.
SpendCode(r) ==
    LET u == req[r].actor IN
    /\ pc[r] = "spend"
    /\ \E code \in req[r].seen :
        /\ user' = [user EXCEPT ![u] = WithCodes(@, Remaining(req[r].seen, code))]
        /\ spent' = [spent EXCEPT ![u] = @ \cup {code}]
    /\ collided' = IF user[u].codes # req[r].seen THEN collided \cup {u} ELSE collided
    /\ Goto(r, "clearSign")
    /\ UNCHANGED <<session, attempts, people, process, lapses, overlapped, disturbed>>

\* record_login_failure.
Fail(r) ==
    /\ pc[r] = "fail"
    /\ attempts' = attempts + 1
    /\ End(r)
    /\ UNCHANGED <<user, session, people, process, lapses, overlapped, disturbed, used>>

\* clear_login_failures; then a session, or the cookie for the second step.
ClearFailures(r) ==
    /\ pc[r] \in {"clearAsk", "clearSign"}
    /\ attempts' = 0
    /\ IF pc[r] = "clearAsk"
       THEN pending' = pending \cup {req[r].actor} /\ End(r)
       ELSE Goto(r, "sign") /\ UNCHANGED pending
    /\ UNCHANGED <<user, session, device, drawn, issued, process, lapses, overlapped, disturbed, used>>

\* The user in the row of a new session.
Owner(u) == u

\* create_session; the second step also takes its cookie back.
SignIn(r) ==
    /\ pc[r] = "sign"
    /\ \E s \in Sessions :
        /\ session[s].state = "unused"
        /\ session' = [session EXCEPT ![s] = [state |-> "live", user |-> Owner(req[r].actor)]]
    /\ pending' = IF req[r].op = "code" THEN pending \ {req[r].actor} ELSE pending
    /\ End(r)
    /\ UNCHANGED <<user, attempts, device, drawn, issued, process, lapses, overlapped, disturbed, used>>

-----------------------------------------------------------------------------
(* Time, and the process *)

Expire(s) ==
    /\ session[s].state = "live"
    /\ lapses < MaxLapses
    /\ lapses' = lapses + 1
    /\ session' = [session EXCEPT ![s].state = "expired"]
    /\ UNCHANGED <<user, attempts, people, process, threads, history>>

\* The oldest failure leaves the window.
Age ==
    /\ attempts > 0
    /\ lapses < MaxLapses
    /\ lapses' = lapses + 1
    /\ attempts' = attempts - 1
    /\ UNCHANGED <<user, session, people, process, threads, history>>

\* A pending cookie is good for PENDING_2FA_MINUTES.
PendingExpires(u) ==
    /\ u \in pending
    /\ lapses < MaxLapses
    /\ lapses' = lapses + 1
    /\ pending' = pending \ {u}
    /\ UNCHANGED <<tables, device, drawn, issued, process, threads, history>>

Stop ==
    /\ process = "up"
    /\ lapses < MaxLapses
    /\ process' = "down"
    /\ lapses' = lapses + 1
    /\ pc' = [r \in Requests |-> "idle"]
    /\ req' = [r \in Requests |-> NoRequest]
    /\ raced' = [r \in Requests |-> FALSE]
    /\ rights' = [r \in Requests |-> {}]
    /\ UNCHANGED <<tables, people, made, overlapped, disturbed, used>>

\* purge_expired_sessions.
Purged(state) == IF state = "expired" THEN "gone" ELSE state

\* The lifespan: bootstrap_admin, which acts on an empty table only, and
\* purge_expired_sessions.
Boot ==
    /\ process = "down"
    /\ process' = "up"
    /\ IF \E u \in Users : user[u] # None THEN UNCHANGED user
       ELSE \E u \in Users : user' = [user EXCEPT ![u] = NewAccount(ADMIN)]
    /\ session' = [s \in Sessions |->
                     [session[s] EXCEPT !.state = Purged(@)]]
    /\ UNCHANGED <<attempts, people, threads, lapses, history>>

-----------------------------------------------------------------------------

RequestStep(r) ==
    \/ ReadSession(r) \/ ReadAccount(r) \/ Destroy(r) \/ Touch(r) \/ ReadRole(r)
    \/ Lookup(r) \/ Insert(r) \/ ReadTarget(r) \/ CountOthers(r) \/ WriteAccount(r)
    \/ DisableTotp(r) \/ Setup(r) \/ Confirm(r) \/ TurnOn(r)
    \/ Submit(r) \/ Authenticate(r) \/ CheckCode(r) \/ SpendCode(r)
    \/ Fail(r) \/ ClearFailures(r) \/ SignIn(r)

Next ==
    \/ \E r \in Requests : RequestStep(r)
    \/ \E s \in Sessions : Expire(s)
    \/ \E u \in Users : PendingExpires(u)
    \/ Age \/ Stop \/ Boot

Spec == Init /\ [][Next]_vars

-----------------------------------------------------------------------------
(* Properties *)

TablesTyped ==
    /\ user \in [Users -> Account \cup {None}]
    /\ session \in [Sessions -> SessionRow]
    /\ attempts \in Nat
    /\ pending \subseteq Users
    /\ device \in [Users -> 0..MaxSecrets]
    /\ drawn \in 0..MaxSecrets
    /\ issued \in Nat
    /\ process \in {"up", "down"}
    /\ lapses \in Nat
    /\ overlapped \in BOOLEAN
    /\ disturbed \subseteq Users
    /\ spent \in [Users -> SUBSET Nat]
    /\ collided \subseteq Users

ThreadsTyped ==
    /\ pc \in [Requests -> Pcs]
    /\ req \in [Requests -> RequestRecord]
    /\ made \in Nat
    /\ raced \in [Requests -> BOOLEAN]
    /\ rights \in [Requests -> SUBSET {"enabled", "admin"}]

\* Every variable keeps its type.
TypeOK == TablesTyped /\ ThreadsTyped

\* "Refuse to leave the app with zero usable admins" (app/users.py:303-307): as long as no
\* other change of accounts came between a removal's check and its write, there is an
\* administrator whose account is enabled, whatever is created, promoted, demoted,
\* disabled, crashed and restarted.
AdminRemains ==
    process = "up" => overlapped \/ \E u \in Users : ActiveAdmin(user[u])

\* Past the checks of a request.
Acting(r) == pc[r] \in {"lookup", "insert", "target", "count", "write", "setup", "verify", "turnOn"}

\* "disabling or deleting a user take effect immediately" (app/security.py:119-121): what a
\* request changes, it changes for a user who was enabled, and an administrator where it
\* takes one, at some moment since the request began, however late it writes.
ActsWithinRights ==
    \A r \in Requests : Acting(r) =>
        /\ "enabled" \in rights[r]
        /\ req[r].op \in AdminOps => "admin" \in rights[r]

\* A session that was signed out, found expired or found to be of a disabled user stays
\* dead, also when another request with it has read it before and touches it after
\* (app/security.py:144-156).
SessionsStayDead ==
    [][\A s \in Sessions : session[s].state = "gone" => session'[s].state = "gone"]_vars

\* A second factor that is on is one that the user's authenticator has, unless its setup
\* was opened again while it was on, or it was reset between the check that turned it on
\* and the write (app/users.py:208-263).
AuthenticatorWorks ==
    \A u \in Users \ disturbed :
        user[u] # None /\ user[u].totp => device[u] = user[u].secret

\* "A backup code is consumed on use ... so it cannot be replayed" (app/users.py:270-275):
\* no code that was signed in with is good still, or again, unless the user's codes were
\* written by two overlapping requests, the second from what it had read before the first.
BackupCodesWorkOnce ==
    \A u \in Users \ collided : user[u] # None => user[u].codes \cap spent[u] = {}

\* Both halves of the second factor: what is on can be passed, and what is spent cannot.
SecondFactorWorks == AuthenticatorWorks /\ BackupCodesWorkOnce

\* The limit is checked before the password and the failure recorded after it, so requests
\* under way can each add one, and no more (app/security.py:201-205).
LockoutHolds ==
    attempts + Cardinality({r \in Requests : req[r].op \in SignIns})
        < MaxAttempts + Cardinality(Requests)

=============================================================================
