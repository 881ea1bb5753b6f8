---------------------------- MODULE AccountsProofs ----------------------------
(***************************************************************************)
(* Theorems about Accounts, for any number of users, sessions, requests    *)
(* and restarts, and any limit on failures.                                *)
(*                                                                         *)
(* Shape says where requests can be and is kept by every step (ShapeNext). *)
(* Over it stand four invariants, each kept by a request's step by a lemma *)
(* of its own: AdminInv, RightsInv, FactorInv and LockoutInv.              *)
(***************************************************************************)
EXTENDS Accounts, FiniteSetTheorems, TLAPS

SigningIn == {"authenticate", "code", "spend", "fail", "clearAsk", "clearSign", "sign"}

\* An idle request is about nothing; any other knows whom it is for, and one with a
\* session has one that was drawn, and a target that exists if it is to be changed.
HasSubject(r) ==
    /\ pc[r] = "idle" => req[r] = NoRequest
    /\ pc[r] \in SigningIn => req[r].op \in SignIns
    /\ pc[r] \notin SigningIn \cup {"idle"} => req[r].op \in AdminOps \cup OwnOps
    /\ req[r].op \in SignIns => req[r].actor \in Users /\ req[r].session = None
    /\ req[r].op \in AdminOps \cup OwnOps =>
          /\ req[r].actor \in Users /\ req[r].target \in Users
          /\ req[r].session \in Sessions
          /\ session[req[r].session].state # "unused"
          /\ (req[r].role # None) <=> (req[r].op \in {"create", "set_role"})
          /\ req[r].op \in OwnOps => req[r].target = req[r].actor
          /\ req[r].op \in AdminOps \ {"create"} => user[req[r].target] # None

\* Where a request is, it is for an operation that goes there; past the look at the
\* account there is one.
FitsPlace(r) ==
    /\ pc[r] \in {"lookup", "insert"} => req[r].op = "create"
    /\ pc[r] \in {"target", "count"} => req[r].op \in Guarded
    /\ pc[r] = "write" => req[r].op \in Guarded \cup {"enable", "disable_totp", "turn_off"}
    /\ pc[r] = "setup" => req[r].op \in {"setup", "confirm"}
    /\ pc[r] \in {"verify", "turnOn"} => req[r].op = "confirm"
    /\ pc[r] = "role" => req[r].op \in AdminOps
    /\ pc[r] \in {"touch", "role", "spend"} \/ Acting(r) => user[req[r].actor] # None

Fits(r) == HasSubject(r) /\ FitsPlace(r)

\* A process that is down runs nothing, and one that is up has bootstrapped.
ProcessFits ==
    /\ process = "down" => \A r \in Requests : pc[r] = "idle"
    /\ process = "up" => \E u \in Users : user[u] # None

\* Removing is what the guard is for; when nothing has changed since it looked, someone
\* else is an administrator, or the account is none to begin with.
SafeToWrite(r) ==
    pc[r] = "write" /\ req[r].op \in Guarded /\ ~raced[r] =>
        \/ OtherAdmins(req[r].target) # {}
        \/ ~ActiveAdmin(user[req[r].target])
        \/ req[r].role = ADMIN

AdminInv ==
    \/ overlapped
    \/ /\ (\E u \in Users : user[u] # None) => \E u \in Users : ActiveAdmin(user[u])
       /\ \A r \in Requests : SafeToWrite(r)

\* Types, places, and the process.
Shape == TypeOK /\ ProcessFits /\ \A r \in Requests : Fits(r)

-----------------------------------------------------------------------------

USE AccountsAssumption, NoAccountAssumption
USE DEF NewAccount, Pcs, Guarded, AdminOps, OwnOps, SignIns,
        ADMIN, SigningIn, Acting, tables, people, threads, used, history

\* Records: what an idle request holds, and what a statement makes of a row.
LEMMA IdleRecord == NoRequest \in RequestRecord
BY DEF RequestRecord, NoRequest

\* A new account is one.
LEMMA NewRow == ASSUME NEW role \in Roles PROVE NewAccount(role) \in Account
BY DEF Account

\* Writing a column of an account leaves an account.
LEMMA RowWrites ==
    ASSUME NEW row \in Account
    PROVE  /\ \A role \in Roles : WithRole(row, role) \in Account
           /\ \A b \in BOOLEAN : WithDisabled(row, b) \in Account
           /\ WithTotp(row, TRUE) \in Account /\ WithTotp(row, FALSE) \in Account
           /\ \A n \in 0..MaxSecrets : WithSecret(row, n) \in Account
           /\ \A codes \in SUBSET Nat : WithCodes(row, codes) \in Account
BY DEF Account, WithRole, WithDisabled, WithTotp, WithSecret, WithCodes

\* What decides who is an administrator is in none of a second factor's columns.
LEMMA FactorWrites ==
    ASSUME NEW row \in Account
    PROVE  /\ ActiveAdmin(WithTotp(row, TRUE)) <=> ActiveAdmin(row)
           /\ ActiveAdmin(WithTotp(row, FALSE)) <=> ActiveAdmin(row)
           /\ \A n \in 0..MaxSecrets : ActiveAdmin(WithSecret(row, n)) <=> ActiveAdmin(row)
           /\ \A codes \in SUBSET Nat : ActiveAdmin(WithCodes(row, codes)) <=> ActiveAdmin(row)
<1>1. /\ row # None /\ WithTotp(row, TRUE) # None /\ WithTotp(row, FALSE) # None
      /\ \A n \in 0..MaxSecrets : WithSecret(row, n) # None
      /\ \A codes \in SUBSET Nat : WithCodes(row, codes) # None
  BY RowWrites
<1>2. QED
  BY <1>1 DEF Account, ActiveAdmin, WithTotp, WithSecret, WithCodes

\* The rows that turning a second factor on, turning it off and spending a code write.
TurnedOn(row) == WithCodes(WithTotp(row, TRUE), issued + 1 .. issued + CodeCount)
TurnedOff(row) == WithCodes(WithSecret(WithTotp(row, FALSE), 0), {})

\* They are accounts of the same administrators.
LEMMA FactorRows ==
    ASSUME NEW row \in Account, issued \in Nat
    PROVE  /\ TurnedOn(row) \in Account /\ TurnedOff(row) \in Account
           /\ ActiveAdmin(TurnedOn(row)) <=> ActiveAdmin(row)
           /\ ActiveAdmin(TurnedOff(row)) <=> ActiveAdmin(row)
<1>1. WithTotp(row, TRUE) \in Account /\ (ActiveAdmin(WithTotp(row, TRUE)) <=> ActiveAdmin(row))
  BY RowWrites, FactorWrites
<1>2. issued + 1 .. issued + CodeCount \in SUBSET Nat
  OBVIOUS
<1>3. TurnedOn(row) \in Account /\ (ActiveAdmin(TurnedOn(row)) <=> ActiveAdmin(row))
  BY <1>1, <1>2, RowWrites, FactorWrites DEF TurnedOn
<1> DEFINE off == WithTotp(row, FALSE)
           bare == WithSecret(off, 0)
<1>4. off \in Account /\ (ActiveAdmin(off) <=> ActiveAdmin(row))
  BY RowWrites, FactorWrites
<1> HIDE DEF off
<1>5. bare \in Account /\ (ActiveAdmin(bare) <=> ActiveAdmin(off))
  <2>1. 0 \in 0..MaxSecrets
    OBVIOUS
  <2>2. QED
    BY <1>4, <2>1, RowWrites, FactorWrites
<1>6. TurnedOff(row) = WithCodes(bare, {})
  BY DEF TurnedOff, off
<1> HIDE DEF bare
<1>7. TurnedOff(row) \in Account /\ (ActiveAdmin(TurnedOff(row)) <=> ActiveAdmin(bare))
  BY <1>5, <1>6, RowWrites, FactorWrites
<1>8. QED
  BY <1>3, <1>4, <1>5, <1>7

\* A session that was drawn has a state of its life, and keeps its type through it.
LEMMA SessionWrites ==
    ASSUME NEW row \in SessionRow, row.state # "unused"
    PROVE  /\ \A state \in {"live", "expired", "gone"} : [row EXCEPT !.state = state] \in SessionRow
           /\ row.state \in {"live", "expired", "gone"}
BY DEF SessionRow

\* The initial states satisfy the invariant.
LEMMA AccountsInit == Init => Shape /\ AdminInv
<1> SUFFICES ASSUME Init PROVE Shape /\ AdminInv
  OBVIOUS
<1>1. TypeOK
  <2>1. user \in [Users -> Account \cup {None}]
    <3>1. PICK enrolled \in {0, drawn} : user \in [Users -> {None} \cup
            [role : Roles, disabled : {FALSE}, secret : {enrolled}, totp : {enrolled # 0},
             codes : {IF enrolled # 0 THEN 1..issued ELSE {}}]]
      BY DEF Init
    <3>2. enrolled \in 0..MaxSecrets /\ issued \in Nat
      BY DEF Init
    <3>3. [role : Roles, disabled : {FALSE}, secret : {enrolled}, totp : {enrolled # 0},
           codes : {IF enrolled # 0 THEN 1..issued ELSE {}}]
            \subseteq Account
      <4>1. (IF enrolled # 0 THEN 1..issued ELSE {}) \in SUBSET Nat
        BY <3>2
      <4>2. QED
        BY <3>2, <4>1 DEF Account
    <3>4. QED
      BY <3>1, <3>3
  <2>2. session \in [Sessions -> SessionRow]
    BY DEF Init, SessionRow
  <2>3. device \in [Users -> 0..MaxSecrets]
    <3>1. \A u \in Users : user[u] # None => user[u].secret \in 0..MaxSecrets
      BY <2>1 DEF Account
    <3>2. device = [u \in Users |-> IF user[u] = None THEN 0 ELSE user[u].secret]
      BY DEF Init
    <3>3. QED
      BY <3>1, <3>2
  <2>4. TablesTyped
    <3>1. /\ attempts = 0 /\ pending = {} /\ drawn = 1 /\ process = "down"
          /\ lapses = 0 /\ overlapped = FALSE /\ disturbed = {}
          /\ issued = CodeCount /\ spent = [u \in Users |-> {}] /\ collided = {}
      BY DEF Init
    <3>2. drawn \in 0..MaxSecrets
      BY <3>1
    <3>3. attempts \in Nat /\ lapses \in Nat
      BY <3>1
    <3>4. overlapped \in BOOLEAN
      BY <3>1
    <3>5. pending \subseteq Users /\ disturbed \subseteq Users /\ process \in {"up", "down"}
      BY <3>1
    <3>6. issued \in Nat /\ spent \in [Users -> SUBSET Nat] /\ collided \subseteq Users
      BY <3>1
    <3>7. QED
      BY <2>1, <2>2, <2>3, <3>2, <3>3, <3>4, <3>5, <3>6 DEF TablesTyped
  <2>5. ThreadsTyped
    BY IdleRecord DEF Init, ThreadsTyped
  <2>6. QED
    BY <2>4, <2>5 DEF TypeOK
<1>2. \A r \in Requests : pc[r] = "idle" /\ req[r] = NoRequest
  BY DEF Init
<1>3. Shape
  BY <1>1, <1>2 DEF Init, Shape, Fits, HasSubject, FitsPlace, ProcessFits, NoRequest
<1>4. AdminInv
  BY <1>2 DEF Init, AdminInv, SafeToWrite
<1>5. QED
  BY <1>3, <1>4

\* Ending a request, or going on in it, keeps the types of the threads.
LEMMA ThreadMoves ==
    ASSUME ThreadsTyped, NEW r \in Requests, NEW label \in Pcs,
           End(r) \/ Goto(r, label) \/ Proceed(r, label)
    PROVE  ThreadsTyped'
<1>1. CASE End(r)
  BY <1>1, IdleRecord DEF ThreadsTyped, End
<1>2. CASE Goto(r, label)
  BY <1>2 DEF ThreadsTyped, Goto
<1>3. QED
  BY <1>1, <1>2 DEF Proceed

\* A step of one request leaves the others where they are.
LEMMA OthersStay ==
    ASSUME TypeOK, NEW r \in Requests, RequestStep(r), NEW q \in Requests, q # r
    PROVE  pc'[q] = pc[q] /\ req'[q] = req[q]
<1> USE DEF TypeOK, ThreadsTyped, Goto, End, Proceed, Arrive, Change
<1>1. CASE ReadSession(r)
  BY <1>1 DEF ReadSession
<1>2. CASE ReadAccount(r)
  BY <1>2 DEF ReadAccount
<1>3. CASE Destroy(r)
  BY <1>3 DEF Destroy
<1>4. CASE Touch(r)
  BY <1>4 DEF Touch, FirstStep
<1>5. CASE ReadRole(r)
  BY <1>5 DEF ReadRole
<1>6. CASE Lookup(r)
  BY <1>6 DEF Lookup
<1>7. CASE Insert(r)
  BY <1>7 DEF Insert
<1>8. CASE ReadTarget(r)
  BY <1>8 DEF ReadTarget
<1>9. CASE CountOthers(r)
  BY <1>9 DEF CountOthers
<1>10. CASE WriteAccount(r)
  BY <1>10 DEF WriteAccount
<1>11. CASE DisableTotp(r)
  BY <1>11 DEF DisableTotp
<1>12. CASE Setup(r)
  BY <1>12 DEF Setup
<1>13. CASE Confirm(r)
  BY <1>13 DEF Confirm
<1>14. CASE TurnOn(r)
  BY <1>14 DEF TurnOn
<1>15. CASE Submit(r)
  BY <1>15 DEF Submit
<1>16. CASE Authenticate(r)
  BY <1>16 DEF Authenticate
<1>17. CASE CheckCode(r)
  BY <1>17 DEF CheckCode
<1>18. CASE Fail(r)
  BY <1>18 DEF Fail
<1>19. CASE ClearFailures(r)
  BY <1>19 DEF ClearFailures
<1>20. CASE SignIn(r)
  BY <1>20 DEF SignIn
<1>21. CASE SpendCode(r)
  BY <1>21 DEF SpendCode
<1>q. QED
  BY <1>1, <1>2, <1>3, <1>4, <1>5, <1>6, <1>7, <1>8, <1>9, <1>10, <1>11, <1>12, <1>13, <1>14, <1>15, <1>16, <1>17, <1>18, <1>19, <1>20, <1>21 DEF RequestStep

\* What a step does to the tables: no account and no session is taken back.
Grows ==
    /\ \A u \in Users : user[u] # None => user'[u] # None
    /\ \A s \in Sessions : session[s].state # "unused" => session'[s].state # "unused"

\* A row of users, written or added.
LEMMA UserWrite ==
    ASSUME user \in [Users -> Account \cup {None}], NEW u \in Users, NEW row \in Account,
           user' = [user EXCEPT ![u] = row]
    PROVE  /\ user' \in [Users -> Account \cup {None}]
           /\ \A v \in Users : user[v] # None => user'[v] # None
OBVIOUS

\* A row of sessions that is there, written.
LEMMA SessionWrite ==
    ASSUME session \in [Sessions -> SessionRow], NEW s \in Sessions,
           session[s].state # "unused", NEW state \in {"live", "expired", "gone"},
           session' = [session EXCEPT ![s].state = state]
    PROVE  /\ session' \in [Sessions -> SessionRow]
           /\ \A t \in Sessions : session[t].state # "unused" => session'[t].state # "unused"
<1> DEFINE row == [session[s] EXCEPT !.state = state]
<1>1. row \in SessionRow /\ row.state # "unused"
  BY DEF SessionRow
<1>2. session' = [session EXCEPT ![s] = row]
  OBVIOUS
<1> HIDE DEF row
<1>3. QED
  BY <1>1, <1>2

\* A request's step keeps the tables' types and takes nothing back.
LEMMA TablesGrow ==
    ASSUME Shape, NEW r \in Requests, RequestStep(r)
    PROVE  TablesTyped' /\ Grows
<1> USE DEF Shape, Fits, TypeOK
<1>1. CASE ReadSession(r)
  BY <1>1 DEF ReadSession, TablesTyped, Grows, End, Goto, Proceed, Arrive
<1>2. CASE ReadAccount(r)
  BY <1>2 DEF ReadAccount, TablesTyped, Grows, End, Goto, Proceed, Arrive
<1>3. CASE Destroy(r)
  <2>1. req[r].session \in Sessions /\ session[req[r].session].state # "unused"
    BY <1>3 DEF Destroy, HasSubject
  <2>2. /\ session' \in [Sessions -> SessionRow]
        /\ \A t \in Sessions : session[t].state # "unused" => session'[t].state # "unused"
    BY <1>3, <2>1, SessionWrite DEF Destroy, TablesTyped
  <2>3. QED
    BY <1>3, <2>2 DEF Destroy, End, TablesTyped, Grows
<1>4. CASE Touch(r)
  <2> DEFINE s == req[r].session
  <2>1. s \in Sessions /\ session[s].state # "unused"
    BY <1>4 DEF Touch, HasSubject
  <2>2. session[s] \in SessionRow
    BY <2>1 DEF TablesTyped
  <2>3. Touched(session[s].state) \in {"live", "expired", "gone"}
    BY <2>1, <2>2, SessionWrites DEF Touched
  <2>4. session' = [session EXCEPT ![s].state = Touched(session[s].state)]
    BY <1>4 DEF Touch
  <2> HIDE DEF s
  <2>5. /\ session' \in [Sessions -> SessionRow]
        /\ \A t \in Sessions : session[t].state # "unused" => session'[t].state # "unused"
    BY <2>1, <2>3, <2>4, SessionWrite DEF TablesTyped
  <2>6. QED
    BY <1>4, <2>5 DEF Touch, TablesTyped, Grows
<1>5. CASE ReadRole(r)
  BY <1>5 DEF ReadRole, TablesTyped, Grows, End, Goto, Proceed, Arrive
<1>6. CASE Lookup(r)
  BY <1>6 DEF Lookup, TablesTyped, Grows, End, Goto, Proceed, Arrive
<1>7. CASE Insert(r)
  <2>1. req[r].target \in Users /\ req[r].role \in Roles
    BY <1>7, None \notin Roles DEF Insert, HasSubject, FitsPlace, ThreadsTyped, RequestRecord
  <2>2. CASE user[req[r].target] = None
    <3>1. user' = [user EXCEPT ![req[r].target] = NewAccount(req[r].role)]
      BY <1>7, <2>2 DEF Insert, Change
    <3>2. NewAccount(req[r].role) \in Account
      BY <2>1, NewRow
    <3>3. /\ user' \in [Users -> Account \cup {None}]
          /\ \A v \in Users : user[v] # None => user'[v] # None
      BY <2>1, <3>1, <3>2, UserWrite DEF TablesTyped
    <3>4. overlapped' \in BOOLEAN
      BY <1>7, <2>2 DEF Insert, Change, TablesTyped
    <3>5. QED
      BY <1>7, <2>2, <3>3, <3>4 DEF Insert, Change, TablesTyped, Grows
  <2>3. CASE user[req[r].target] # None
    BY <1>7, <2>3 DEF Insert, TablesTyped, Grows
  <2>4. QED
    BY <2>2, <2>3
<1>8. CASE ReadTarget(r)
  BY <1>8 DEF ReadTarget, TablesTyped, Grows, End, Goto, Proceed, Arrive
<1>9. CASE CountOthers(r)
  BY <1>9 DEF CountOthers, TablesTyped, Grows, End, Goto, Proceed, Arrive
<1>10. CASE WriteAccount(r)
  <2> DEFINE u == req[r].target
             row == IF req[r].op = "set_role" THEN WithRole(user[u], req[r].role)
                    ELSE WithDisabled(user[u], req[r].op = "disable")
  <2>1. u \in Users /\ user[u] # None /\ (req[r].op = "set_role" => req[r].role \in Roles)
    BY <1>10 DEF WriteAccount, HasSubject, ThreadsTyped, RequestRecord
  <2>2. user[u] \in Account
    BY <2>1 DEF TablesTyped
  <2>3. row \in Account
    BY <2>1, <2>2, RowWrites
  <2>4. user' = [user EXCEPT ![u] = row]
    BY <1>10 DEF WriteAccount, Change
  <2>5. overlapped' \in BOOLEAN
    BY <1>10 DEF WriteAccount, Change, TablesTyped
  <2>6. UNCHANGED <<session, attempts, people, process, lapses, disturbed, used>>
    BY <1>10 DEF WriteAccount, Change
  <2> HIDE DEF u, row
  <2>7. /\ user' \in [Users -> Account \cup {None}]
        /\ \A v \in Users : user[v] # None => user'[v] # None
    BY <2>1, <2>3, <2>4, UserWrite DEF TablesTyped
  <2>8. QED
    BY <2>5, <2>6, <2>7 DEF TablesTyped, Grows
<1>11. CASE DisableTotp(r)
  <2> DEFINE u == req[r].target
             row == TurnedOff(user[u])
  <2>1. u \in Users /\ user[u] # None
    BY <1>11 DEF DisableTotp, HasSubject, FitsPlace
  <2>2. user[u] \in Account
    BY <2>1 DEF TablesTyped
  <2>3. row \in Account
    BY <2>2, FactorRows DEF TablesTyped
  <2>4. user' = [user EXCEPT ![u] = row]
    BY <1>11 DEF DisableTotp, TurnedOff
  <2>5. disturbed' \subseteq Users
    BY <1>11, <2>1 DEF DisableTotp, TablesTyped
  <2>6. UNCHANGED <<session, attempts, people, process, lapses, overlapped, used>>
    BY <1>11 DEF DisableTotp
  <2> HIDE DEF u, row
  <2>7. /\ user' \in [Users -> Account \cup {None}]
        /\ \A v \in Users : user[v] # None => user'[v] # None
    BY <2>1, <2>3, <2>4, UserWrite DEF TablesTyped
  <2>8. QED
    BY <2>5, <2>6, <2>7 DEF TablesTyped, Grows
<1>12. CASE Setup(r)
  <2> DEFINE u == req[r].target
             row == WithSecret(user[u], drawn + 1)
  <2>1. u \in Users /\ user[u] # None
    BY <1>12 DEF Setup, HasSubject, FitsPlace
  <2>2. user[u] \in Account
    BY <2>1 DEF TablesTyped
  <2>3. row \in Account
    <3>1. drawn + 1 \in 0..MaxSecrets
      BY <1>12 DEF Setup, TablesTyped
    <3>2. QED
      BY <2>2, <3>1, RowWrites
  <2>4. user' = [user EXCEPT ![u] = row]
    BY <1>12 DEF Setup
  <2>5. /\ disturbed' \subseteq Users
        /\ drawn' \in 0..MaxSecrets
        /\ device' \in [Users -> 0..MaxSecrets]
    BY <1>12, <2>1 DEF Setup, TablesTyped
  <2>6. UNCHANGED <<session, attempts, pending, issued, process, lapses, overlapped, used>>
    BY <1>12 DEF Setup
  <2> HIDE DEF u, row
  <2>7. /\ user' \in [Users -> Account \cup {None}]
        /\ \A v \in Users : user[v] # None => user'[v] # None
    BY <2>1, <2>3, <2>4, UserWrite DEF TablesTyped
  <2>8. QED
    BY <2>5, <2>6, <2>7 DEF TablesTyped, Grows
<1>13. CASE Confirm(r)
  BY <1>13 DEF Confirm, TablesTyped, Grows, End, Goto, Proceed, Arrive
<1>14. CASE TurnOn(r)
  <2> DEFINE u == req[r].target
             row == TurnedOn(user[u])
  <2>1. u \in Users /\ user[u] # None
    BY <1>14 DEF TurnOn, HasSubject, FitsPlace
  <2>2. user[u] \in Account
    BY <2>1 DEF TablesTyped
  <2>3. row \in Account
    BY <2>2, FactorRows DEF TablesTyped
  <2>4. user' = [user EXCEPT ![u] = row]
    BY <1>14 DEF TurnOn, TurnedOn
  <2>5. disturbed' \subseteq Users /\ issued' \in Nat
    BY <1>14, <2>1 DEF TurnOn, TablesTyped
  <2>6. UNCHANGED <<session, attempts, pending, device, drawn, process, lapses, overlapped, used>>
    BY <1>14 DEF TurnOn
  <2> HIDE DEF u, row
  <2>7. /\ user' \in [Users -> Account \cup {None}]
        /\ \A v \in Users : user[v] # None => user'[v] # None
    BY <2>1, <2>3, <2>4, UserWrite DEF TablesTyped
  <2>8. QED
    BY <2>5, <2>6, <2>7 DEF TablesTyped, Grows
<1>15. CASE Submit(r)
  BY <1>15 DEF Submit, TablesTyped, Grows, End, Goto, Proceed, Arrive
<1>16. CASE Authenticate(r)
  BY <1>16 DEF Authenticate, TablesTyped, Grows, End, Goto, Proceed, Arrive
<1>17. CASE CheckCode(r)
  BY <1>17 DEF CheckCode, TablesTyped, Grows, End, Goto, Proceed, Arrive
<1>18. CASE Fail(r)
  BY <1>18 DEF Fail, TablesTyped, Grows, End, Goto, Proceed, Arrive
<1>19. CASE ClearFailures(r)
  <2>1. req[r].actor \in Users
    BY <1>19 DEF ClearFailures, HasSubject
  <2>2. attempts' \in Nat /\ pending' \subseteq Users
    BY <1>19, <2>1 DEF ClearFailures, TablesTyped
  <2>3. QED
    BY <1>19, <2>2 DEF ClearFailures, TablesTyped, Grows
<1>20. CASE SignIn(r)
  <2>1. req[r].actor \in Users
    BY <1>20 DEF SignIn, HasSubject
  <2>2. pending' \subseteq Users
    BY <1>20 DEF SignIn, TablesTyped
  <2> DEFINE row == [state |-> "live", user |-> req[r].actor]
  <2>3. row \in SessionRow /\ row.state # "unused"
    BY <2>1 DEF SessionRow
  <2>4. PICK s \in Sessions : session' = [session EXCEPT ![s] = row]
    BY <1>20 DEF SignIn, Owner
  <2> HIDE DEF row
  <2>5. /\ session' \in [Sessions -> SessionRow]
        /\ \A t \in Sessions : session[t].state # "unused" => session'[t].state # "unused"
    BY <2>3, <2>4 DEF TablesTyped
  <2>6. QED
    BY <1>20, <2>2, <2>5 DEF SignIn, TablesTyped, Grows
<1>21. CASE SpendCode(r)
  <2> DEFINE u == req[r].actor
  <2>1. u \in Users /\ user[u] # None /\ req[r].seen \in SUBSET Nat
    BY <1>21 DEF SpendCode, HasSubject, FitsPlace, ThreadsTyped, RequestRecord
  <2>2. user[u] \in Account
    BY <2>1 DEF TablesTyped
  <2>3. PICK code \in req[r].seen :
          /\ user' = [user EXCEPT ![u] = WithCodes(user[u], Remaining(req[r].seen, code))]
          /\ spent' = [spent EXCEPT ![u] = spent[u] \cup {code}]
    BY <1>21 DEF SpendCode
  <2> DEFINE row == WithCodes(user[u], Remaining(req[r].seen, code))
  <2>4. row \in Account
    <3>1. Remaining(req[r].seen, code) \in SUBSET Nat
      BY <2>1 DEF Remaining
    <3>2. QED
      BY <2>2, <3>1, RowWrites
  <2>5. spent' \in [Users -> SUBSET Nat]
    BY <2>1, <2>3 DEF TablesTyped
  <2>6. collided' \subseteq Users
    BY <1>21, <2>1 DEF SpendCode, TablesTyped
  <2>7. UNCHANGED <<session, attempts, people, process, lapses, overlapped, disturbed>>
    BY <1>21 DEF SpendCode
  <2> HIDE DEF u, row
  <2>8. /\ user' \in [Users -> Account \cup {None}]
        /\ \A v \in Users : user[v] # None => user'[v] # None
    BY <2>1, <2>3, <2>4, UserWrite DEF TablesTyped, row
  <2>9. QED
    BY <2>5, <2>6, <2>7, <2>8 DEF TablesTyped, Grows
<1>q. QED
  BY <1>1, <1>2, <1>3, <1>4, <1>5, <1>6, <1>7, <1>8, <1>9, <1>10, <1>11, <1>12, <1>13, <1>14, <1>15, <1>16, <1>17, <1>18, <1>19, <1>20, <1>21 DEF RequestStep

\* Rights are rights.
LEMMA RightsTyped == \A row : Rights(row) \in SUBSET {"enabled", "admin"}
BY DEF Rights

\* A change of an account keeps the types of the threads.
LEMMA ChangeMoves ==
    ASSUME ThreadsTyped, NEW r \in Requests, NEW u, NEW row, Change(r, u, row)
    PROVE  ThreadsTyped'
<1>1. pc' \in [Requests -> Pcs] /\ req' \in [Requests -> RequestRecord] /\ made' \in Nat
  BY IdleRecord DEF Change, ThreadsTyped
<1>2. raced' \in [Requests -> BOOLEAN]
  BY DEF Change, Deciding, ThreadsTyped
<1>3. rights' \in [Requests -> SUBSET {"enabled", "admin"}]
  BY RightsTyped DEF Change, ThreadsTyped
<1>4. QED
  BY <1>1, <1>2, <1>3 DEF ThreadsTyped

\* An operation's first step is a place of the program.
LEMMA FirstPlace ==
    ASSUME NEW op \in AdminOps \cup OwnOps
    PROVE  /\ FirstStep(op) \in Pcs
           /\ op # "look" => FirstStep(op) # "idle"
BY DEF FirstStep

\* A request opens, with this session and for this.
Opening(r, s, op, role, target, label) ==
    /\ session[s].user \in Users /\ session[s].state # "unused"
    /\ (role # None) <=> (op \in {"create", "set_role"})
    /\ op \in OwnOps => target = session[s].user
    /\ op \in AdminOps \ {"create"} => user[target] # None
    /\ Arrive(r, [op |-> op, actor |-> session[s].user, session |-> s,
                  target |-> target, role |-> role, seen |-> {}], label)
    /\ rights' = [rights EXCEPT ![r] = Rights(user[session[s].user])]
    /\ raced' = raced

\* A request that opens is about something that exists.
LEMMA Opens ==
    ASSUME Shape, NEW r \in Requests, ReadSession(r)
    PROVE  \E s \in Sessions, op \in AdminOps \cup OwnOps, role \in Roles \cup {None},
              target \in Users, label \in {"account", "destroy"} :
                Opening(r, s, op, role, target, label)
<1>1. PICK s \in Sessions, op \in AdminOps \cup OwnOps, role \in Roles \cup {None} :
        \E target \in IF op \in AdminOps THEN Users ELSE {session[s].user} :
          /\ session[s].state \in {"live", "expired"}
          /\ (role # None) <=> (op \in {"create", "set_role"})
          /\ op \in AdminOps \ {"create"} => user[target] # None
          /\ Arrive(r, [op |-> op, actor |-> session[s].user, session |-> s,
                        target |-> target, role |-> role, seen |-> {}],
                    IF session[s].state = "live" THEN "account" ELSE "destroy")
          /\ rights' = [rights EXCEPT ![r] = Rights(user[session[s].user])]
          /\ UNCHANGED <<tables, people, process, lapses, raced, overlapped, disturbed>>
  BY ZenonT(60) DEF ReadSession
<1>2. session[s].user \in Users
  BY <1>1 DEF Shape, TypeOK, TablesTyped, SessionRow
<1>3. PICK target \in Users, label \in {"account", "destroy"} :
        /\ op \in OwnOps => target = session[s].user
        /\ op \in AdminOps \ {"create"} => user[target] # None
        /\ Arrive(r, [op |-> op, actor |-> session[s].user, session |-> s,
                      target |-> target, role |-> role, seen |-> {}], label)
  BY <1>1, <1>2
<1>4. Opening(r, s, op, role, target, label)
  BY <1>1, <1>2, <1>3 DEF Opening
<1>5. QED
  BY <1>4

\* A request's step keeps the types of the threads.
LEMMA TypesStay ==
    ASSUME Shape, NEW r \in Requests, RequestStep(r)
    PROVE  ThreadsTyped'
<1> USE DEF Shape, TypeOK
<1>1. CASE ReadSession(r)
  <2>1. PICK s \in Sessions, op \in AdminOps \cup OwnOps, role \in Roles \cup {None},
             target \in Users, label \in {"account", "destroy"} :
          Opening(r, s, op, role, target, label)
    BY <1>1, Opens
  <2>2. [op |-> op, actor |-> session[s].user, session |-> s, target |-> target, role |-> role, seen |-> {}]
          \in RequestRecord
    BY <2>1 DEF Opening, RequestRecord
  <2>3. QED
    BY <2>1, <2>2, RightsTyped DEF Opening, Arrive, ThreadsTyped
<1>2. CASE ReadAccount(r)
  BY <1>2, ThreadMoves DEF ReadAccount
<1>3. CASE Destroy(r)
  BY <1>3, ThreadMoves DEF Destroy
<1>4. CASE Touch(r)
  <2>1. req[r].op \in AdminOps \cup OwnOps
    BY <1>4, ThreadMoves DEF Touch, Fits, HasSubject
  <2>2. QED
    BY <1>4, <2>1, FirstPlace, ThreadMoves DEF Touch
<1>5. CASE ReadRole(r)
  <2>1. req[r].op \in AdminOps \cup OwnOps
    BY <1>5, ThreadMoves DEF ReadRole, Fits, HasSubject
  <2>2. QED
    BY <1>5, <2>1, FirstPlace, ThreadMoves DEF ReadRole
<1>6. CASE Lookup(r)
  BY <1>6, ThreadMoves DEF Lookup
<1>7. CASE Insert(r)
  <2>1. CASE user[req[r].target] = None
    <3>1. Change(r, req[r].target, NewAccount(req[r].role))
      BY <1>7, <2>1 DEF Insert
    <3>2. QED
      BY <3>1, ChangeMoves
  <2>2. CASE user[req[r].target] # None
    BY <1>7, <2>2, ThreadMoves DEF Insert
  <2>3. QED
    BY <2>1, <2>2
<1>8. CASE ReadTarget(r)
  BY <1>8, ThreadMoves DEF ReadTarget
<1>9. CASE CountOthers(r)
  BY <1>9, ThreadMoves DEF CountOthers
<1>10. CASE WriteAccount(r)
  <2>1. \E row : Change(r, req[r].target, row)
    BY <1>10, Zenon DEF WriteAccount
  <2>2. QED
    BY <2>1, ChangeMoves
<1>11. CASE DisableTotp(r)
  BY <1>11, ThreadMoves DEF DisableTotp
<1>12. CASE Setup(r)
  BY <1>12, ThreadMoves DEF Setup
<1>13. CASE Confirm(r)
  BY <1>13, ThreadMoves DEF Confirm
<1>14. CASE TurnOn(r)
  BY <1>14, ThreadMoves DEF TurnOn
<1>15. CASE Submit(r)
  <2>1. PICK u \in Users, op \in SignIns, label \in {"authenticate", "code"} :
          Arrive(r, [NoRequest EXCEPT !.op = op, !.actor = u], label)
    BY <1>15, ThreadMoves DEF Submit
  <2>2. [NoRequest EXCEPT !.op = op, !.actor = u] \in RequestRecord
    BY DEF NoRequest, RequestRecord
  <2>3. raced' = raced /\ rights' = rights
    BY <1>15, ThreadMoves DEF Submit
  <2>4. QED
    BY <2>1, <2>2, <2>3 DEF Arrive, ThreadsTyped
<1>16. CASE Authenticate(r)
  BY <1>16, ThreadMoves DEF Authenticate
<1>17. CASE CheckCode(r)
  <2> DEFINE read == [req EXCEPT ![r].seen = user[req[r].actor].codes]
  <2>1. CASE pc' = [pc EXCEPT ![r] = "spend"] /\ req' = read /\ UNCHANGED <<made, raced, rights>>
             /\ user[req[r].actor] # None
    <3>1. user[req[r].actor].codes \in SUBSET Nat
      BY <1>17, <2>1 DEF CheckCode, Fits, HasSubject, TablesTyped, Account
    <3>2. read \in [Requests -> RequestRecord]
      BY <3>1 DEF ThreadsTyped, RequestRecord
    <3>3. QED
      BY <2>1, <3>2 DEF ThreadsTyped
  <2>2. CASE End(r) \/ Goto(r, "fail") \/ Goto(r, "clearSign")
    BY <2>2, ThreadMoves
  <2>3. QED
    BY <1>17, <2>1, <2>2 DEF CheckCode
<1>18. CASE Fail(r)
  BY <1>18, ThreadMoves DEF Fail
<1>19. CASE ClearFailures(r)
  BY <1>19, ThreadMoves DEF ClearFailures
<1>20. CASE SignIn(r)
  BY <1>20, ThreadMoves DEF SignIn
<1>21. CASE SpendCode(r)
  BY <1>21, ThreadMoves DEF SpendCode
<1>q. QED
  BY <1>1, <1>2, <1>3, <1>4, <1>5, <1>6, <1>7, <1>8, <1>9, <1>10, <1>11, <1>12, <1>13, <1>14, <1>15, <1>16, <1>17, <1>18, <1>19, <1>20, <1>21 DEF RequestStep

\* The request that steps fits its new place.
LEMMA StillFits ==
    ASSUME Shape, NEW r \in Requests, RequestStep(r), Grows
    PROVE  Fits(r)'
<1> USE DEF Shape, TypeOK, TablesTyped, ThreadsTyped, Fits, HasSubject, FitsPlace,
            Grows, Goto, Proceed, Arrive
<1>0. pc'[r] = "idle" /\ req'[r] = NoRequest => Fits(r)'
  BY DEF NoRequest
<1>e. End(r) => Fits(r)'
  BY <1>0 DEF End
<1>1. CASE ReadSession(r)
  <2>1. PICK s \in Sessions, op \in AdminOps \cup OwnOps, role \in Roles \cup {None},
             target \in Users, label \in {"account", "destroy"} :
          Opening(r, s, op, role, target, label)
    BY <1>1, Opens
  <2> DEFINE record == [op |-> op, actor |-> session[s].user, session |-> s,
                        target |-> target, role |-> role, seen |-> {}]
  <2>2. pc'[r] = label /\ req'[r] = record
    BY <2>1 DEF Opening
  <2>3. QED
    BY <2>1, <2>2 DEF Opening
<1>2. CASE ReadAccount(r)
  BY <1>2 DEF ReadAccount, MayContinue
<1>3. CASE Destroy(r)
  BY <1>3, <1>e DEF Destroy
<1>4. CASE Touch(r)
  BY <1>4, <1>e DEF Touch, Touched, FirstStep
<1>5. CASE ReadRole(r)
  BY <1>5, <1>e DEF ReadRole, FirstStep
<1>6. CASE Lookup(r)
  BY <1>6, <1>e DEF Lookup
<1>7. CASE Insert(r)
  BY <1>7, <1>0, <1>e DEF Insert, Change
<1>8. CASE ReadTarget(r)
  BY <1>8, <1>e DEF ReadTarget
<1>9. CASE CountOthers(r)
  BY <1>9, <1>e DEF CountOthers
<1>10. CASE WriteAccount(r)
  BY <1>10, <1>0 DEF WriteAccount, Change
<1>11. CASE DisableTotp(r)
  BY <1>11, <1>e DEF DisableTotp
<1>12. CASE Setup(r)
  BY <1>12, <1>e DEF Setup
<1>13. CASE Confirm(r)
  BY <1>13 DEF Confirm
<1>14. CASE TurnOn(r)
  BY <1>14, <1>e DEF TurnOn
<1>15. CASE Submit(r)
  BY <1>15 DEF Submit, NoRequest
<1>16. CASE Authenticate(r)
  BY <1>16, <1>e DEF Authenticate
<1>17. CASE CheckCode(r)
  <2>1. CASE End(r) \/ Goto(r, "fail") \/ Goto(r, "clearSign")
    <3>1. CASE End(r)
      BY <1>e, <3>1
    <3>2. CASE Goto(r, "fail") \/ Goto(r, "clearSign")
      BY <1>17, <3>2 DEF CheckCode
    <3>3. QED
      BY <2>1, <3>1, <3>2
  <2>2. CASE /\ pc' = [pc EXCEPT ![r] = "spend"]
             /\ req' = [req EXCEPT ![r].seen = user[req[r].actor].codes]
             /\ user[req[r].actor] # None
    <3>1. pc[r] = "code" /\ session' = session /\ user' = user
      BY <1>17 DEF CheckCode
    <3>2. req[r] \in RequestRecord
      OBVIOUS
    <3>3. /\ req'[r].op = req[r].op /\ req'[r].actor = req[r].actor
          /\ req'[r].session = req[r].session
      BY <2>2, <3>2 DEF RequestRecord
    <3>4. pc'[r] = "spend" /\ req[r].op \in SignIns /\ req[r].actor \in Users
          /\ req[r].session = None
      BY <2>2, <3>1
    <3>5. QED
      BY <2>2, <3>1, <3>3, <3>4
  <2>3. QED
    BY <1>17, <2>1, <2>2, Zenon DEF CheckCode
<1>18. CASE Fail(r)
  BY <1>18, <1>e DEF Fail
<1>19. CASE ClearFailures(r)
  BY <1>19, <1>e DEF ClearFailures
<1>20. CASE SignIn(r)
  BY <1>20, <1>e DEF SignIn, Owner
<1>21. CASE SpendCode(r)
  BY <1>21 DEF SpendCode
<1>q. QED
  BY <1>1, <1>2, <1>3, <1>4, <1>5, <1>6, <1>7, <1>8, <1>9, <1>10, <1>11, <1>12, <1>13, <1>14, <1>15, <1>16, <1>17, <1>18, <1>19, <1>20, <1>21 DEF RequestStep

\* So do the others, for which the tables only grow.
LEMMA OtherFits ==
    ASSUME Shape, NEW r \in Requests, Fits(r), Grows,
           pc'[r] = pc[r], req'[r] = req[r]
    PROVE  Fits(r)'
BY DEF Fits, HasSubject, FitsPlace, Grows

\* Requests run in a process that is up.
LEMMA Running ==
    ASSUME Shape, NEW r \in Requests, RequestStep(r)
    PROVE  process = "up" /\ process' = "up"
<1> USE DEF Shape, TypeOK, TablesTyped, ProcessFits, Goto, Arrive, Change
<1>1. CASE ReadSession(r)
  <2>1. PICK s \in Sessions, op \in AdminOps \cup OwnOps, role \in Roles \cup {None},
             target \in Users, label \in {"account", "destroy"} :
          Opening(r, s, op, role, target, label)
    BY <1>1, Opens
  <2>2. process' = process
    BY <1>1 DEF ReadSession
  <2>3. QED
    BY <2>1, <2>2 DEF Opening, Arrive
<1>2. CASE ReadAccount(r)
  BY <1>2 DEF ReadAccount
<1>3. CASE Destroy(r)
  BY <1>3 DEF Destroy
<1>4. CASE Touch(r)
  BY <1>4 DEF Touch
<1>5. CASE ReadRole(r)
  BY <1>5 DEF ReadRole
<1>6. CASE Lookup(r)
  BY <1>6 DEF Lookup
<1>7. CASE Insert(r)
  BY <1>7 DEF Insert
<1>8. CASE ReadTarget(r)
  BY <1>8 DEF ReadTarget
<1>9. CASE CountOthers(r)
  BY <1>9 DEF CountOthers
<1>10. CASE WriteAccount(r)
  BY <1>10 DEF WriteAccount
<1>11. CASE DisableTotp(r)
  BY <1>11 DEF DisableTotp
<1>12. CASE Setup(r)
  BY <1>12 DEF Setup
<1>13. CASE Confirm(r)
  BY <1>13 DEF Confirm
<1>14. CASE TurnOn(r)
  BY <1>14 DEF TurnOn
<1>15. CASE Submit(r)
  BY <1>15 DEF Submit
<1>16. CASE Authenticate(r)
  BY <1>16 DEF Authenticate
<1>17. CASE CheckCode(r)
  BY <1>17 DEF CheckCode
<1>18. CASE Fail(r)
  BY <1>18 DEF Fail
<1>19. CASE ClearFailures(r)
  BY <1>19 DEF ClearFailures
<1>20. CASE SignIn(r)
  BY <1>20 DEF SignIn
<1>21. CASE SpendCode(r)
  BY <1>21 DEF SpendCode
<1>q. QED
  BY <1>1, <1>2, <1>3, <1>4, <1>5, <1>6, <1>7, <1>8, <1>9, <1>10, <1>11, <1>12, <1>13, <1>14, <1>15, <1>16, <1>17, <1>18, <1>19, <1>20, <1>21 DEF RequestStep

\* No step harms the shape of the state.
LEMMA ShapeNext == Shape /\ [Next]_vars => Shape'
<1> SUFFICES ASSUME Shape, [Next]_vars PROVE Shape'
  OBVIOUS
<1>1. ASSUME NEW r \in Requests, RequestStep(r) PROVE Shape'
  <2>1. TablesTyped' /\ Grows /\ ThreadsTyped'
    BY <1>1, TablesGrow, TypesStay
  <2>2. Fits(r)'
    BY <1>1, <2>1, StillFits
  <2>3. ASSUME NEW q \in Requests, q # r PROVE Fits(q)'
    <3>1. pc'[q] = pc[q] /\ req'[q] = req[q]
      BY <1>1, <2>3, OthersStay DEF Shape
    <3>2. QED
      BY <2>1, <3>1, OtherFits DEF Shape
  <2>4. \E u \in Users : user'[u] # None
    BY <1>1, <2>1, Running DEF Shape, ProcessFits, Grows
  <2>5. ProcessFits'
    BY <1>1, <2>4, Running DEF ProcessFits
  <2>6. QED
    BY <2>1, <2>2, <2>3, <2>5 DEF Shape, TypeOK
<1>2. ASSUME NEW s \in Sessions, Expire(s) PROVE Shape'
  <2>1. /\ session' \in [Sessions -> SessionRow]
        /\ \A t \in Sessions : session[t].state # "unused" => session'[t].state # "unused"
    BY <1>2, SessionWrite DEF Expire, Shape, TypeOK, TablesTyped
  <2>2. Grows /\ UNCHANGED <<user, attempts, people, process, threads, history>> /\ lapses' \in Nat
    BY <1>2, <2>1 DEF Expire, Grows, Shape, TypeOK, TablesTyped
  <2>3. TypeOK'
    BY <2>1, <2>2 DEF Shape, TypeOK, TablesTyped, ThreadsTyped
  <2>4. \A r \in Requests : Fits(r)'
    BY <2>2, OtherFits DEF Shape
  <2>5. QED
    BY <2>2, <2>3, <2>4 DEF Shape, ProcessFits
<1>3. ASSUME NEW u \in Users, PendingExpires(u) PROVE Shape'
  BY <1>3 DEF PendingExpires, Shape, TypeOK, TablesTyped, ThreadsTyped, ProcessFits, Fits, HasSubject, FitsPlace
<1>4. CASE Age
  BY <1>4 DEF Age, Shape, TypeOK, TablesTyped, ThreadsTyped, ProcessFits, Fits, HasSubject, FitsPlace
<1>5. CASE Stop
  <2>1. TablesTyped'
    BY <1>5 DEF Stop, Shape, TypeOK, TablesTyped
  <2>2. ThreadsTyped'
    BY <1>5, IdleRecord DEF Stop, Shape, TypeOK, ThreadsTyped
  <2>3. \A r \in Requests : pc'[r] = "idle" /\ req'[r] = NoRequest
    BY <1>5 DEF Stop
  <2>4. \A r \in Requests : Fits(r)'
    BY <2>3 DEF Fits, HasSubject, FitsPlace, NoRequest
  <2>5. ProcessFits'
    BY <1>5, <2>3 DEF Stop, ProcessFits
  <2>6. QED
    BY <2>1, <2>2, <2>4, <2>5 DEF Shape, TypeOK
<1>6. CASE Boot
  <2>1. user' \in [Users -> Account \cup {None}] /\ \A u \in Users : user[u] # None => user'[u] # None
    <3>1. CASE \E u \in Users : user[u] # None
      BY <1>6, <3>1 DEF Boot, Purged, Shape, TypeOK, TablesTyped
    <3>2. CASE ~ \E u \in Users : user[u] # None
      <4>1. PICK u \in Users : user' = [user EXCEPT ![u] = NewAccount(ADMIN)]
        BY <1>6, <3>2 DEF Boot, Purged
      <4>2. NewAccount(ADMIN) \in Account
        BY NewRow
      <4>3. QED
        BY <4>1, <4>2, UserWrite DEF Shape, TypeOK, TablesTyped
    <3>3. QED
      BY <3>1, <3>2
  <2>2. /\ session' \in [Sessions -> SessionRow]
        /\ \A t \in Sessions : session[t].state # "unused" => session'[t].state # "unused"
    BY <1>6 DEF Boot, Purged, Shape, TypeOK, TablesTyped, SessionRow
  <2>3. /\ UNCHANGED <<attempts, people, threads, lapses, history>>
        /\ process = "down" /\ process' = "up"
    BY <1>6 DEF Boot, Purged
  <2>4. TypeOK'
    BY <2>1, <2>2, <2>3 DEF Shape, TypeOK, TablesTyped, ThreadsTyped
  <2>5. \A r \in Requests : Fits(r)'
    BY <2>1, <2>2, <2>3, OtherFits DEF Shape, Grows
  <2>6. \E u \in Users : user'[u] # None
    <3>1. NewAccount(ADMIN) # None
      BY NewRow
    <3>2. QED
      BY <1>6, <3>1 DEF Boot, Purged, Shape, TypeOK, TablesTyped
  <2>7. QED
    BY <2>3, <2>4, <2>5, <2>6 DEF Shape, ProcessFits
<1>7. CASE UNCHANGED vars
  BY <1>7 DEF vars, Shape, TypeOK, TablesTyped, ThreadsTyped, ProcessFits, Fits, HasSubject, FitsPlace
<1>8. QED
  BY <1>1, <1>2, <1>3, <1>4, <1>5, <1>6, <1>7 DEF Next

\* What spending a code writes.
Spends(r, row) ==
    LET u == req[r].actor IN
    /\ u \in Users /\ user[u] # None
    /\ user' = [user EXCEPT ![u] = row]
    /\ \E code \in req[r].seen :
        /\ row = WithCodes(user[u], req[r].seen \ {code})
        /\ spent' = [spent EXCEPT ![u] = spent[u] \cup {code}]
    /\ req[r].seen \in SUBSET Nat
    /\ ActiveAdmin(row) <=> ActiveAdmin(user[u])

\* It is an account of the same administrator.
LEMMA SpendWrites ==
    ASSUME Shape, NEW r \in Requests, SpendCode(r)
    PROVE  \E row \in Account : Spends(r, row)
<1> DEFINE u == req[r].actor
<1>1. u \in Users /\ user[u] # None /\ req[r].seen \in SUBSET Nat
  BY DEF SpendCode, Shape, TypeOK, Fits, HasSubject, FitsPlace, ThreadsTyped, RequestRecord
<1>2. user[u] \in Account
  BY <1>1 DEF Shape, TypeOK, TablesTyped
<1>3. PICK code \in req[r].seen :
        /\ user' = [user EXCEPT ![u] = WithCodes(user[u], req[r].seen \ {code})]
        /\ spent' = [spent EXCEPT ![u] = spent[u] \cup {code}]
  BY DEF SpendCode, Remaining
<1> DEFINE row == WithCodes(user[u], req[r].seen \ {code})
<1>4. req[r].seen \ {code} \in SUBSET Nat
  BY <1>1
<1>5. row \in Account /\ (ActiveAdmin(row) <=> ActiveAdmin(user[u]))
  BY <1>2, <1>4, RowWrites, FactorWrites
<1> HIDE DEF row
<1>6. Spends(r, row)
  BY <1>1, <1>3, <1>5 DEF Spends, row
<1>7. QED
  BY <1>5, <1>6

-----------------------------------------------------------------------------
(* There is an administrator *)

\* The same accounts exist and the same are administrators.
SameAdmins ==
    \A u \in Users : /\ user'[u] # None <=> user[u] # None
                     /\ ActiveAdmin(user'[u]) <=> ActiveAdmin(user[u])

\* An active administrator who is enabled, or is made an administrator, stays one.
LEMMA RoleWrites ==
    ASSUME NEW row \in Account, ActiveAdmin(row)
    PROVE  ActiveAdmin(WithRole(row, ADMIN)) /\ ActiveAdmin(WithDisabled(row, FALSE))
<1>1. WithRole(row, ADMIN) # None /\ WithDisabled(row, FALSE) # None
  BY RowWrites
<1>2. QED
  BY <1>1 DEF Account, ActiveAdmin, WithRole, WithDisabled

\* A request that changes no account of an administrator ...
LEMMA AdminKept ==
    ASSUME Shape, AdminInv, NEW r \in Requests, RequestStep(r), SameAdmins,
           overlapped' = overlapped, \A q \in Requests : q # r => raced'[q] = raced[q],
           SafeToWrite(r) => SafeToWrite(r)'
    PROVE  AdminInv'
<1>1. SUFFICES ASSUME ~overlapped PROVE AdminInv'
  BY DEF AdminInv
<1>2. (\E u \in Users : user'[u] # None) => \E u \in Users : ActiveAdmin(user'[u])
  BY <1>1 DEF AdminInv, SameAdmins
<1>3. ASSUME NEW q \in Requests PROVE SafeToWrite(q)'
  <2>1. SafeToWrite(q)
    BY <1>1 DEF AdminInv
  <2>2. CASE q = r
    BY <2>1, <2>2
  <2>3. CASE q # r
    <3>1. pc'[q] = pc[q] /\ req'[q] = req[q] /\ raced'[q] = raced[q]
      BY <2>3, OthersStay DEF Shape
    <3>2. pc[q] = "write" => req[q].target \in Users
      BY DEF Shape, Fits, HasSubject
    <3>3. QED
      BY <2>1, <3>1, <3>2 DEF SafeToWrite, SameAdmins, OtherAdmins
  <2>4. QED
    BY <2>2, <2>3
<1>4. QED
  BY <1>2, <1>3 DEF AdminInv

\* ... and one that does.
LEMMA AdminChanges ==
    ASSUME Shape, AdminInv, NEW r \in Requests, RequestStep(r),
           NEW u \in Users, NEW row \in Account, Change(r, u, row),
           \/ raced[r] \/ ActiveAdmin(row) \/ ~ActiveAdmin(user[u])
           \/ (overlapped \/ OtherAdmins(u) # {})
    PROVE  AdminInv'
<1>1. SUFFICES ASSUME ~overlapped' PROVE AdminInv'
  BY DEF AdminInv
<1>2. ~overlapped /\ (raced[r] => ActiveAdmin(row))
  BY <1>1 DEF Change
<1>3. user'[u] = row /\ \A v \in Users : v # u => user'[v] = user[v]
  BY DEF Change, Shape, TypeOK, TablesTyped
<1>4. \E v \in Users : ActiveAdmin(user[v])
  BY <1>2, Running DEF AdminInv, Shape, ProcessFits
<1>5. \E v \in Users : ActiveAdmin(user'[v])
  <2>1. CASE ActiveAdmin(row)
    BY <1>3, <2>1
  <2>2. CASE ~ActiveAdmin(row) /\ ~ActiveAdmin(user[u])
    BY <1>3, <1>4, <2>2
  <2>3. CASE ~ActiveAdmin(row) /\ OtherAdmins(u) # {}
    BY <1>3, <2>3 DEF OtherAdmins
  <2>4. QED
    BY <1>2, <2>1, <2>2, <2>3
<1>6. ASSUME NEW q \in Requests PROVE SafeToWrite(q)'
  <2>1. CASE q = r
    BY <2>1 DEF Change, SafeToWrite, Shape, TypeOK, ThreadsTyped
  <2>2. CASE q # r
    <3>1. pc'[q] = pc[q] /\ req'[q] = req[q]
      BY <2>2, OthersStay DEF Shape
    <3>2. raced'[q] <=> raced[q] \/ Deciding(q)
      BY <2>2 DEF Change
    <3>3. QED
      BY <3>1, <3>2 DEF SafeToWrite, Deciding
  <2>3. QED
    BY <2>1, <2>2
<1>7. QED
  BY <1>5, <1>6 DEF AdminInv

\* With the guard of _guard_not_last_admin, every request keeps AdminInv.
LEMMA AdminNext ==
    ASSUME Shape, AdminInv, NEW r \in Requests, RequestStep(r)
    PROVE  AdminInv'
<1> USE DEF Shape, TypeOK, ThreadsTyped, Fits
<1>1. CASE ReadSession(r)
  <2>1. PICK s \in Sessions, op \in AdminOps \cup OwnOps, role \in Roles \cup {None},
             target \in Users, label \in {"account", "destroy"} :
          Opening(r, s, op, role, target, label)
    BY <1>1, Opens
  <2>2. pc'[r] # "write"
    BY <2>1 DEF Opening, Arrive
  <2>3. user' = user /\ overlapped' = overlapped /\ raced' = raced
    BY <1>1 DEF ReadSession
  <2>4. QED
    BY <2>2, <2>3, AdminKept DEF SameAdmins, SafeToWrite
<1>2. CASE ReadAccount(r)
  BY <1>2, AdminKept DEF ReadAccount, SameAdmins, SafeToWrite, Goto, End, Proceed
<1>3. CASE Destroy(r)
  BY <1>3, AdminKept DEF Destroy, SameAdmins, SafeToWrite, Goto, End, Proceed
<1>4. CASE Touch(r)
  BY <1>4, AdminKept DEF Touch, HasSubject, FirstStep, SameAdmins, SafeToWrite, Goto, End, Proceed
<1>5. CASE ReadRole(r)
  BY <1>5, AdminKept DEF ReadRole, FitsPlace, FirstStep, SameAdmins, SafeToWrite, Goto, End, Proceed
<1>6. CASE Lookup(r)
  BY <1>6, AdminKept DEF Lookup, FitsPlace, SameAdmins, SafeToWrite, Goto, End, Proceed
<1>7. CASE Insert(r)
  <2> DEFINE u == req[r].target
             row == NewAccount(req[r].role)
  <2>1. CASE user[u] = None
    <3>1. u \in Users /\ row \in Account
      BY <1>7, NewRow DEF Insert, HasSubject, FitsPlace, RequestRecord
    <3>2. Change(r, u, row)
      BY <1>7, <2>1 DEF Insert
    <3>3. ~ActiveAdmin(user[u])
      BY <2>1 DEF ActiveAdmin
    <3>4. QED
      BY <1>7, <3>1, <3>2, <3>3, AdminChanges
  <2>2. CASE user[u] # None
    BY <1>7, <2>2, AdminKept DEF Insert, End, SameAdmins, SafeToWrite
  <2>3. QED
    BY <2>1, <2>2
<1>8. CASE ReadTarget(r)
  <2>1. CASE ActiveAdmin(user[req[r].target]) /\ req[r].role # ADMIN
    BY <1>8, <2>1, AdminKept DEF ReadTarget, Goto, SameAdmins, SafeToWrite
  <2>2. CASE ~ActiveAdmin(user[req[r].target]) \/ req[r].role = ADMIN
    BY <1>8, <2>2, AdminKept DEF ReadTarget, Goto, SameAdmins, SafeToWrite
  <2>3. QED
    BY <2>1, <2>2
<1>9. CASE CountOthers(r)
  BY <1>9, AdminKept DEF CountOthers, OtherAdmins, SameAdmins, SafeToWrite, Goto, End, Proceed
<1>10. CASE WriteAccount(r)
  <2> DEFINE u == req[r].target
             row == IF req[r].op = "set_role" THEN WithRole(user[u], req[r].role)
                    ELSE WithDisabled(user[u], req[r].op = "disable")
  <2>1. u \in Users /\ user[u] # None /\ (req[r].op = "set_role" => req[r].role \in Roles)
    BY <1>10 DEF WriteAccount, HasSubject, RequestRecord
  <2>2. user[u] \in Account
    BY <2>1 DEF TablesTyped
  <2>3. row \in Account
    BY <2>1, <2>2, RowWrites
  <2>4. Change(r, u, row)
    BY <1>10 DEF WriteAccount
  <2>5. \/ raced[r] \/ ActiveAdmin(row) \/ ~ActiveAdmin(user[u])
        \/ (overlapped \/ OtherAdmins(u) # {})
    <3>1. CASE req[r].op = "enable"
      BY <2>2, <3>1, RoleWrites
    <3>2. CASE req[r].op \in Guarded
      <4>1. overlapped \/ SafeToWrite(r)
        BY DEF AdminInv
      <4>2. CASE req[r].role = ADMIN
        <5>1. req[r].op = "set_role"
          BY <1>10, <3>2, <4>2 DEF WriteAccount, HasSubject
        <5>2. QED
          BY <2>2, <4>2, <5>1, RoleWrites
      <4>3. QED
        BY <1>10, <3>2, <4>1, <4>2 DEF WriteAccount, SafeToWrite
    <3>3. QED
      BY <1>10, <3>1, <3>2 DEF WriteAccount
  <2> HIDE DEF u, row
  <2>6. QED
    BY <2>1, <2>3, <2>4, <2>5, AdminChanges
<1>11. CASE DisableTotp(r)
  <2>1. req[r].target \in Users /\ user[req[r].target] # None
    BY <1>11 DEF DisableTotp, HasSubject, FitsPlace
  <2> DEFINE u == req[r].target
             row == TurnedOff(user[u])
  <2>2. user[u] \in Account
    BY <2>1 DEF TablesTyped
  <2>3. row \in Account /\ (ActiveAdmin(row) <=> ActiveAdmin(user[u]))
    BY <2>2, FactorRows DEF TablesTyped
  <2>4. user' = [user EXCEPT ![u] = row] /\ overlapped' = overlapped
    BY <1>11 DEF DisableTotp, TurnedOff
  <2>5. pc'[r] = "idle" /\ \A q \in Requests : q # r => raced'[q] = raced[q]
    BY <1>11 DEF DisableTotp, End
  <2>6. SameAdmins
    <3> HIDE DEF u, row
    <3>1. row # None
      BY <2>3
    <3>2. \A v \in Users : v # u => user'[v] = user[v]
      BY <2>4 DEF TablesTyped
    <3>3. user'[u] = row
      BY <2>1, <2>4 DEF TablesTyped, u
    <3>4. QED
      BY <2>1, <2>3, <3>1, <3>2, <3>3 DEF SameAdmins, u
  <2>7. QED
    BY <2>4, <2>5, <2>6, AdminKept DEF SafeToWrite
<1>12. CASE Setup(r)
  <2>1. req[r].target \in Users /\ user[req[r].target] # None
    BY <1>12 DEF Setup, HasSubject, FitsPlace
  <2> DEFINE u == req[r].target
             row == WithSecret(user[u], drawn + 1)
  <2>2. user[u] \in Account
    BY <2>1 DEF TablesTyped
  <2>3. row \in Account /\ (ActiveAdmin(row) <=> ActiveAdmin(user[u]))
    <3>1. drawn + 1 \in 0..MaxSecrets
      BY <1>12 DEF Setup, TablesTyped
    <3>2. QED
      BY <2>2, <3>1, RowWrites, FactorWrites
  <2>4. user' = [user EXCEPT ![u] = row] /\ overlapped' = overlapped
    BY <1>12 DEF Setup
  <2>5. pc'[r] = "idle" /\ \A q \in Requests : q # r => raced'[q] = raced[q]
    BY <1>12 DEF Setup, End
  <2>6. SameAdmins
    <3> HIDE DEF u, row
    <3>1. row # None
      BY <2>3
    <3>2. \A v \in Users : v # u => user'[v] = user[v]
      BY <2>4 DEF TablesTyped
    <3>3. user'[u] = row
      BY <2>1, <2>4 DEF TablesTyped, u
    <3>4. QED
      BY <2>1, <2>3, <3>1, <3>2, <3>3 DEF SameAdmins, u
  <2>7. QED
    BY <2>4, <2>5, <2>6, AdminKept DEF SafeToWrite
<1>13. CASE Confirm(r)
  BY <1>13, AdminKept DEF Confirm, SameAdmins, SafeToWrite, Goto, End, Proceed
<1>14. CASE TurnOn(r)
  <2>1. req[r].target \in Users /\ user[req[r].target] # None
    BY <1>14 DEF TurnOn, HasSubject, FitsPlace
  <2> DEFINE u == req[r].target
             row == TurnedOn(user[u])
  <2>2. user[u] \in Account
    BY <2>1 DEF TablesTyped
  <2>3. row \in Account /\ (ActiveAdmin(row) <=> ActiveAdmin(user[u]))
    BY <2>2, FactorRows DEF TablesTyped
  <2>4. user' = [user EXCEPT ![u] = row] /\ overlapped' = overlapped
    BY <1>14 DEF TurnOn, TurnedOn
  <2>5. pc'[r] = "idle" /\ \A q \in Requests : q # r => raced'[q] = raced[q]
    BY <1>14 DEF TurnOn, End
  <2>6. SameAdmins
    <3> HIDE DEF u, row
    <3>1. row # None
      BY <2>3
    <3>2. \A v \in Users : v # u => user'[v] = user[v]
      BY <2>4 DEF TablesTyped
    <3>3. user'[u] = row
      BY <2>1, <2>4 DEF TablesTyped, u
    <3>4. QED
      BY <2>1, <2>3, <3>1, <3>2, <3>3 DEF SameAdmins, u
  <2>7. QED
    BY <2>4, <2>5, <2>6, AdminKept DEF SafeToWrite
<1>15. CASE Submit(r)
  BY <1>15, AdminKept DEF Submit, Arrive, SameAdmins, SafeToWrite, Goto, End, Proceed
<1>16. CASE Authenticate(r)
  BY <1>16, AdminKept DEF Authenticate, SameAdmins, SafeToWrite, Goto, End, Proceed
<1>17. CASE CheckCode(r)
  BY <1>17, AdminKept DEF CheckCode, SameAdmins, SafeToWrite, Goto, End, Proceed
<1>18. CASE Fail(r)
  BY <1>18, AdminKept DEF Fail, SameAdmins, SafeToWrite, Goto, End, Proceed
<1>19. CASE ClearFailures(r)
  BY <1>19, AdminKept DEF ClearFailures, SameAdmins, SafeToWrite, Goto, End, Proceed
<1>20. CASE SignIn(r)
  BY <1>20, AdminKept DEF SignIn, SameAdmins, SafeToWrite, Goto, End, Proceed
<1>21. CASE SpendCode(r)
  <2>1. PICK row \in Account : Spends(r, row)
    BY <1>21, SpendWrites
  <2> DEFINE u == req[r].actor
  <2>2. SameAdmins
    <3> HIDE DEF u
    <3>1. row # None /\ user[u] # None /\ u \in Users /\ (ActiveAdmin(row) <=> ActiveAdmin(user[u]))
      BY <2>1 DEF Spends, u
    <3>2. \A v \in Users : v # u => user'[v] = user[v]
      BY <2>1 DEF Spends, TablesTyped, u
    <3>3. user'[u] = row
      BY <2>1, <3>1 DEF Spends, TablesTyped, u
    <3>4. QED
      BY <3>1, <3>2, <3>3 DEF SameAdmins
  <2>3. QED
    BY <1>21, <2>2, AdminKept DEF SpendCode, SafeToWrite, Goto
<1>q. QED
  BY <1>1, <1>2, <1>3, <1>4, <1>5, <1>6, <1>7, <1>8, <1>9, <1>10, <1>11, <1>12, <1>13, <1>14, <1>15, <1>16, <1>17, <1>18, <1>19, <1>20, <1>21 DEF RequestStep

-----------------------------------------------------------------------------
(* Requests act within rights *)

\* A request has seen whatever its user is at the moment, and what it needs.
RightsFor(r) ==
    /\ req[r].session # None => Rights(user[req[r].actor]) \subseteq rights[r]
    /\ pc[r] \in {"touch", "role"} => "enabled" \in rights[r]
    /\ Acting(r) => /\ "enabled" \in rights[r]
                    /\ req[r].op \in AdminOps => "admin" \in rights[r]

RightsInv == \A r \in Requests : RightsFor(r)

\* A write that leaves one row its rights leaves everyone theirs.
LEMMA OneRow ==
    ASSUME NEW u \in Users, NEW row, user \in [Users -> Account \cup {None}],
           user' = [user EXCEPT ![u] = row],
           Rights(row) = Rights(user[u])
    PROVE  \A v \in Users : Rights(user'[v]) \subseteq Rights(user[v])
<1>1. user'[u] = row /\ \A v \in Users : v # u => user'[v] = user[v]
  OBVIOUS
<1>2. QED
  BY ONLY <1>1, Rights(row) = Rights(user[u])

\* A second factor's columns do not decide what a user may do.
LEMMA FactorRights ==
    ASSUME NEW row \in Account
    PROVE  /\ Rights(WithTotp(row, TRUE)) = Rights(row)
           /\ Rights(WithTotp(row, FALSE)) = Rights(row)
           /\ \A n \in 0..MaxSecrets : Rights(WithSecret(row, n)) = Rights(row)
           /\ \A codes \in SUBSET Nat : Rights(WithCodes(row, codes)) = Rights(row)
<1>1. /\ row # None /\ WithTotp(row, TRUE) # None /\ WithTotp(row, FALSE) # None
      /\ \A n \in 0..MaxSecrets : WithSecret(row, n) # None
      /\ \A codes \in SUBSET Nat : WithCodes(row, codes) # None
  BY RowWrites
<1>2. QED
  BY <1>1 DEF Account, Rights, WithTotp, WithSecret, WithCodes

\* A step that gives nobody rights keeps what the others have seen.
LEMMA RightsKept ==
    ASSUME Shape, RightsInv, NEW r \in Requests, RequestStep(r),
           \A u \in Users : Rights(user'[u]) \subseteq Rights(user[u]),
           \A q \in Requests : q # r => rights'[q] = rights[q], RightsFor(r)'
    PROVE  RightsInv'
<1>1. ASSUME NEW q \in Requests, q # r PROVE RightsFor(q)'
  <2>1. pc'[q] = pc[q] /\ req'[q] = req[q] /\ rights'[q] = rights[q] /\ RightsFor(q)
    BY <1>1, OthersStay DEF Shape, RightsInv
  <2>2. req[q].session # None => req[q].actor \in Users
    BY DEF Shape, TypeOK, ThreadsTyped, Fits, HasSubject, NoRequest
  <2>3. QED
    BY <2>1, <2>2 DEF RightsFor
<1>2. QED
  BY <1>1 DEF RightsInv

\* A change that may give rights lets everyone it concerns see them.
LEMMA RightsGrow ==
    ASSUME Shape, RightsInv, NEW r \in Requests, RequestStep(r), NEW u, NEW row, Change(r, u, row)
    PROVE  RightsInv'
<1>1. \A v \in Users : v # u => user'[v] = user[v]
  BY DEF Change, Shape, TypeOK, TablesTyped
<1>2. u \in Users => user'[u] = row
  BY DEF Change, Shape, TypeOK, TablesTyped
<1>3. RightsFor(r)'
  BY DEF Change, RightsFor, NoRequest, Shape, TypeOK, ThreadsTyped
<1>4. ASSUME NEW q \in Requests, q # r PROVE RightsFor(q)'
  <2>1. pc'[q] = pc[q] /\ req'[q] = req[q] /\ RightsFor(q)
    BY <1>4, OthersStay DEF Shape, RightsInv
  <2>2. req[q].session # None => req[q].actor \in Users
    BY DEF Shape, TypeOK, ThreadsTyped, Fits, HasSubject, NoRequest
  <2>3. /\ rights[q] \subseteq rights'[q]
        /\ req[q].actor = u /\ req[q].session # None => Rights(row) \subseteq rights'[q]
    BY <1>4 DEF Change
  <2>4. QED
    BY <1>1, <1>2, <2>1, <2>2, <2>3 DEF RightsFor
<1>5. QED
  BY <1>3, <1>4 DEF RightsInv

\* Every request keeps RightsInv: the checks of current_user and admin_required.
LEMMA RightsNext ==
    ASSUME Shape, RightsInv, NEW r \in Requests, RequestStep(r)
    PROVE  RightsInv'
<1> USE DEF Shape, TypeOK, ThreadsTyped, Fits
<1>0. RightsFor(r)
  BY DEF RightsInv
<1>1. CASE ReadSession(r)
  <2>1. PICK s \in Sessions, op \in AdminOps \cup OwnOps, role \in Roles \cup {None},
             target \in Users, label \in {"account", "destroy"} :
          Opening(r, s, op, role, target, label)
    BY <1>1, Opens
  <2>2. /\ pc'[r] = label /\ req'[r].actor = session[s].user
        /\ rights'[r] = Rights(user[session[s].user])
        /\ \A q \in Requests : q # r => rights'[q] = rights[q]
    BY <2>1 DEF Opening, Arrive
  <2>3. user' = user
    BY <1>1 DEF ReadSession
  <2>4. RightsFor(r)'
    BY <2>2, <2>3 DEF RightsFor
  <2>5. QED
    BY <2>2, <2>3, <2>4, RightsKept
<1>2. CASE ReadAccount(r)
  <2>1. req[r].session # None /\ Rights(user[req[r].actor]) \subseteq rights[r]
    BY <1>0, <1>2 DEF ReadAccount, HasSubject, RightsFor
  <2>2. MayContinue(user[req[r].actor]) => "enabled" \in rights[r]
    BY <2>1 DEF MayContinue, Rights
  <2>3. user' = user /\ req' = req /\ rights' = rights
        /\ pc'[r] \in {"touch", "destroy"} /\ (pc'[r] = "touch" => MayContinue(user[req[r].actor]))
    BY <1>2 DEF ReadAccount, Goto
  <2>4. RightsFor(r)'
    BY <2>1, <2>2, <2>3 DEF RightsFor
  <2>5. QED
    BY <2>3, <2>4, RightsKept
<1>3. CASE Destroy(r)
  BY <1>0, <1>3, RightsKept DEF Destroy, RightsFor, NoRequest, Goto, End, Proceed
<1>4. CASE Touch(r)
  BY <1>0, <1>4, RightsKept DEF Touch, HasSubject, FirstStep, RightsFor, NoRequest, Goto, End, Proceed
<1>5. CASE ReadRole(r)
  <2>1. /\ req[r].session # None /\ Rights(user[req[r].actor]) \subseteq rights[r]
        /\ "enabled" \in rights[r] /\ req[r].op \in AdminOps
    BY <1>0, <1>5 DEF ReadRole, HasSubject, FitsPlace, RightsFor
  <2>2. CASE user[req[r].actor] # None /\ user[req[r].actor].role = ADMIN
    <3>1. "admin" \in rights[r]
      BY <2>1, <2>2 DEF Rights
    <3>2. Goto(r, FirstStep(req[r].op))
      BY <1>5, <2>1, <2>2, FirstPlace DEF ReadRole, Proceed
    <3>3. QED
      BY <1>5, <2>1, <3>1, <3>2, RightsKept DEF ReadRole, Goto, RightsFor
  <2>3. CASE ~(user[req[r].actor] # None /\ user[req[r].actor].role = ADMIN)
    BY <1>5, <2>3, RightsKept DEF ReadRole, Proceed, End, RightsFor, NoRequest
  <2>4. QED
    BY <2>2, <2>3
<1>6. CASE Lookup(r)
  BY <1>0, <1>6, RightsKept DEF Lookup, RightsFor, NoRequest, Goto, End, Proceed
<1>7. CASE Insert(r)
  <2>1. CASE user[req[r].target] = None
    <3>1. Change(r, req[r].target, NewAccount(req[r].role))
      BY <1>7, <2>1 DEF Insert
    <3>2. QED
      BY <3>1, RightsGrow
  <2>2. CASE user[req[r].target] # None
    BY <1>7, <2>2, RightsKept DEF Insert, End, RightsFor, NoRequest
  <2>3. QED
    BY <2>1, <2>2
<1>8. CASE ReadTarget(r)
  BY <1>0, <1>8, RightsKept DEF ReadTarget, RightsFor, NoRequest, Goto, End, Proceed
<1>9. CASE CountOthers(r)
  BY <1>0, <1>9, RightsKept DEF CountOthers, RightsFor, NoRequest, Goto, End, Proceed
<1>10. CASE WriteAccount(r)
  <2>1. \E row : Change(r, req[r].target, row)
    BY <1>10, Zenon DEF WriteAccount
  <2>2. QED
    BY <2>1, RightsGrow
<1>11. CASE DisableTotp(r)
  <2>1. req[r].target \in Users /\ user[req[r].target] # None
    BY <1>11 DEF DisableTotp, HasSubject, FitsPlace
  <2> DEFINE u == req[r].target
             row == TurnedOff(user[u])
  <2>2. user[u] \in Account
    BY <2>1 DEF TablesTyped
  <2>3. Rights(row) = Rights(user[u])
    <3>1. WithTotp(user[u], FALSE) \in Account /\ Rights(WithTotp(user[u], FALSE)) = Rights(user[u])
      BY <2>2, RowWrites, FactorRights
    <3> DEFINE bare == WithSecret(WithTotp(user[u], FALSE), 0)
    <3>2. bare \in Account /\ Rights(bare) = Rights(user[u])
      <4>1. 0 \in 0..MaxSecrets
        OBVIOUS
      <4>2. QED
        BY <3>1, <4>1, RowWrites, FactorRights
    <3>3. row = WithCodes(bare, {})
      BY DEF TurnedOff
    <3> HIDE DEF bare, row
    <3>4. QED
      BY <3>2, <3>3, FactorRights
  <2>4. user' = [user EXCEPT ![u] = row]
    BY <1>11 DEF DisableTotp, TurnedOff
  <2>5. /\ pc'[r] = "idle" /\ req'[r] = NoRequest
        /\ \A q \in Requests : q # r => rights'[q] = rights[q]
    BY <1>11 DEF DisableTotp, End
  <2> HIDE DEF row
  <2>6. \A v \in Users : Rights(user'[v]) \subseteq Rights(user[v])
    BY <2>1, <2>3, <2>4, OneRow DEF TablesTyped
  <2>7. QED
    BY <2>5, <2>6, RightsKept DEF RightsFor, NoRequest
<1>12. CASE Setup(r)
  <2>1. req[r].target \in Users /\ user[req[r].target] # None
    BY <1>12 DEF Setup, HasSubject, FitsPlace
  <2> DEFINE u == req[r].target
             row == WithSecret(user[u], drawn + 1)
  <2>2. user[u] \in Account
    BY <2>1 DEF TablesTyped
  <2>3. Rights(row) = Rights(user[u])
    <3>1. drawn + 1 \in 0..MaxSecrets
      BY <1>12 DEF Setup, TablesTyped
    <3>2. QED
      BY <2>2, <3>1, FactorRights
  <2>4. user' = [user EXCEPT ![u] = row]
    BY <1>12 DEF Setup
  <2>5. /\ pc'[r] = "idle" /\ req'[r] = NoRequest
        /\ \A q \in Requests : q # r => rights'[q] = rights[q]
    BY <1>12 DEF Setup, End
  <2> HIDE DEF row
  <2>6. \A v \in Users : Rights(user'[v]) \subseteq Rights(user[v])
    BY <2>1, <2>3, <2>4, OneRow DEF TablesTyped
  <2>7. QED
    BY <2>5, <2>6, RightsKept DEF RightsFor, NoRequest
<1>13. CASE Confirm(r)
  BY <1>0, <1>13, RightsKept DEF Confirm, RightsFor, NoRequest, Goto, End, Proceed
<1>14. CASE TurnOn(r)
  <2>1. req[r].target \in Users /\ user[req[r].target] # None
    BY <1>14 DEF TurnOn, HasSubject, FitsPlace
  <2> DEFINE u == req[r].target
             row == TurnedOn(user[u])
  <2>2. user[u] \in Account
    BY <2>1 DEF TablesTyped
  <2>3. Rights(row) = Rights(user[u])
    <3>1. WithTotp(user[u], TRUE) \in Account /\ Rights(WithTotp(user[u], TRUE)) = Rights(user[u])
      BY <2>2, RowWrites, FactorRights
    <3>2. issued + 1 .. issued + CodeCount \in SUBSET Nat
      BY DEF TablesTyped
    <3>3. QED
      BY <3>1, <3>2, FactorRights DEF TurnedOn
  <2>4. user' = [user EXCEPT ![u] = row]
    BY <1>14 DEF TurnOn, TurnedOn
  <2>5. /\ pc'[r] = "idle" /\ req'[r] = NoRequest
        /\ \A q \in Requests : q # r => rights'[q] = rights[q]
    BY <1>14 DEF TurnOn, End
  <2> HIDE DEF row
  <2>6. \A v \in Users : Rights(user'[v]) \subseteq Rights(user[v])
    BY <2>1, <2>3, <2>4, OneRow DEF TablesTyped
  <2>7. QED
    BY <2>5, <2>6, RightsKept DEF RightsFor, NoRequest
<1>15. CASE Submit(r)
  <2>1. user' = user /\ rights' = rights
    BY <1>15 DEF Submit
  <2>2. req'[r].session = None /\ pc'[r] \in {"authenticate", "code"}
    BY <1>15 DEF Submit, Arrive, NoRequest
  <2>3. RightsFor(r)'
    BY <2>2 DEF RightsFor
  <2>4. QED
    BY <2>1, <2>3, RightsKept
<1>16. CASE Authenticate(r)
  BY <1>0, <1>16, RightsKept DEF Authenticate, RightsFor, NoRequest, Goto, End, Proceed
<1>17. CASE CheckCode(r)
  <2>1. user' = user /\ rights'[r] \in {rights[r], {}} /\ pc'[r] \in {"idle", "fail", "clearSign", "spend"}
        /\ \A q \in Requests : q # r => rights'[q] = rights[q]
    BY <1>17 DEF CheckCode, Goto, End
  <2>2. req'[r].session = None
    BY <1>17 DEF CheckCode, Goto, End, NoRequest, HasSubject, RequestRecord
  <2>3. RightsFor(r)'
    BY <2>1, <2>2 DEF RightsFor
  <2>4. QED
    BY <2>1, <2>3, RightsKept
<1>18. CASE Fail(r)
  BY <1>0, <1>18, RightsKept DEF Fail, RightsFor, NoRequest, Goto, End, Proceed
<1>19. CASE ClearFailures(r)
  BY <1>0, <1>19, RightsKept DEF ClearFailures, RightsFor, NoRequest, Goto, End, Proceed
<1>20. CASE SignIn(r)
  BY <1>0, <1>20, RightsKept DEF SignIn, RightsFor, NoRequest, Goto, End, Proceed
<1>21. CASE SpendCode(r)
  <2>1. PICK row \in Account : Spends(r, row)
    BY <1>21, SpendWrites
  <2> DEFINE u == req[r].actor
  <2>2. Rights(row) = Rights(user[u])
    <3>1. user[u] \in Account
      BY <2>1 DEF Spends, TablesTyped
    <3>2. PICK code \in req[r].seen : row = WithCodes(user[u], req[r].seen \ {code})
      BY <2>1 DEF Spends
    <3>3. req[r].seen \ {code} \in SUBSET Nat
      BY <2>1 DEF Spends
    <3> HIDE DEF u
    <3>4. QED
      BY <3>1, <3>2, <3>3, FactorRights
  <2>3. \A v \in Users : Rights(user'[v]) \subseteq Rights(user[v])
    BY <2>1, <2>2 DEF Spends, TablesTyped
  <2>4. RightsFor(r)'
    BY <1>21 DEF SpendCode, Goto, HasSubject, RightsFor
  <2>5. QED
    BY <1>21, <2>3, <2>4, RightsKept DEF SpendCode, Goto
<1>q. QED
  BY <1>1, <1>2, <1>3, <1>4, <1>5, <1>6, <1>7, <1>8, <1>9, <1>10, <1>11, <1>12, <1>13, <1>14, <1>15, <1>16, <1>17, <1>18, <1>19, <1>20, <1>21 DEF RequestStep

-----------------------------------------------------------------------------
(* A second factor that is on works *)

\* A second factor that is on and undisturbed is in the authenticator.
WorksFor(u) == u \notin disturbed /\ user[u] # None /\ user[u].totp => device[u] = user[u].secret

\* A factor about to be switched on still works, unless it was disturbed.
TurnsOnFor(r) ==
    pc[r] = "turnOn" /\ req[r].target \notin disturbed => Verifies(req[r].target)

FactorInv ==
    /\ \A u \in Users : WorksFor(u)
    /\ \A r \in Requests : TurnsOnFor(r)

\* The two columns of a second factor are written one at a time.
LEMMA FactorFields ==
    ASSUME NEW row \in Account
    PROVE  /\ \A b : WithTotp(row, b).secret = row.secret
           /\ \A n : WithSecret(row, n).totp = row.totp
           /\ \A codes : /\ WithCodes(row, codes).secret = row.secret
                         /\ WithCodes(row, codes).totp = row.totp
BY DEF Account, WithTotp, WithSecret, WithCodes

\* A change of role or state leaves the second factor alone.
LEMMA RoleFields ==
    ASSUME NEW row \in Account, NEW x
    PROVE  /\ WithRole(row, x).secret = row.secret /\ WithRole(row, x).totp = row.totp
           /\ WithDisabled(row, x).secret = row.secret /\ WithDisabled(row, x).totp = row.totp
BY DEF Account, WithRole, WithDisabled

\* A step that touches no second factor and is not about to keeps FactorInv.
LEMMA FactorKept ==
    ASSUME Shape, FactorInv, NEW r \in Requests, RequestStep(r), pc'[r] # "turnOn",
           user' = user, device' = device, disturbed' = disturbed
    PROVE  FactorInv'
<1>1. \A u \in Users : WorksFor(u)'
  BY DEF FactorInv, WorksFor
<1>2. ASSUME NEW q \in Requests PROVE TurnsOnFor(q)'
  <2>1. q # r => pc'[q] = pc[q] /\ req'[q] = req[q]
    BY OthersStay DEF Shape
  <2>2. QED
    BY <2>1 DEF FactorInv, TurnsOnFor, Verifies
<1>3. QED
  BY <1>1, <1>2 DEF FactorInv

\* So does one that changes or adds an account.
LEMMA FactorChanges ==
    ASSUME Shape, FactorInv, NEW r \in Requests, RequestStep(r), NEW u, NEW row, Change(r, u, row),
           \/ user[u] = None /\ row.totp = FALSE
           \/ user[u] # None /\ row.totp = user[u].totp /\ row.secret = user[u].secret
    PROVE  FactorInv'
<1>1. /\ \A v \in Users : v # u => user'[v] = user[v]
      /\ u \in Users => user'[u] = row
      /\ device' = device /\ disturbed' = disturbed
  BY DEF Change, Shape, TypeOK, TablesTyped
<1>2. ASSUME NEW v \in Users PROVE WorksFor(v)'
  BY <1>1 DEF FactorInv, WorksFor
<1>3. ASSUME NEW q \in Requests PROVE TurnsOnFor(q)'
  <2>1. CASE q = r
    BY <2>1 DEF Change, TurnsOnFor, Shape, TypeOK, ThreadsTyped
  <2>2. CASE q # r
    <3>1. pc'[q] = pc[q] /\ req'[q] = req[q]
      BY <2>2, OthersStay DEF Shape
    <3>2. pc[q] = "turnOn" => req[q].target \in Users /\ user[req[q].target] # None
      BY DEF Shape, Fits, HasSubject, FitsPlace
    <3>3. pc[q] = "turnOn" /\ req[q].target \notin disturbed => Verifies(req[q].target)
      BY DEF FactorInv, TurnsOnFor
    <3>4. pc[q] = "turnOn" => user'[req[q].target].secret = user[req[q].target].secret
      BY <1>1, <3>2
    <3>5. QED
      BY <1>1, <3>1, <3>3, <3>4 DEF TurnsOnFor, Verifies
  <2>3. QED
    BY <2>1, <2>2
<1>4. QED
  BY <1>2, <1>3 DEF FactorInv

\* Every request keeps FactorInv.
LEMMA FactorNext ==
    ASSUME Shape, FactorInv, NEW r \in Requests, RequestStep(r)
    PROVE  FactorInv'
<1> USE DEF Shape, TypeOK, ThreadsTyped, Fits
<1>1. CASE ReadSession(r)
  <2>1. PICK s \in Sessions, op \in AdminOps \cup OwnOps, role \in Roles \cup {None},
             target \in Users, label \in {"account", "destroy"} :
          Opening(r, s, op, role, target, label)
    BY <1>1, Opens
  <2>2. pc'[r] # "turnOn"
    BY <2>1 DEF Opening, Arrive
  <2>3. user' = user /\ device' = device /\ disturbed' = disturbed
    BY <1>1 DEF ReadSession
  <2>4. QED
    BY <2>2, <2>3, FactorKept
<1>2. CASE ReadAccount(r)
  BY <1>2, FactorKept DEF ReadAccount, Goto, End, Proceed
<1>3. CASE Destroy(r)
  BY <1>3, FactorKept DEF Destroy, Goto, End, Proceed
<1>4. CASE Touch(r)
  BY <1>4, FactorKept DEF Touch, HasSubject, FirstStep, Goto, End, Proceed
<1>5. CASE ReadRole(r)
  BY <1>5, FactorKept DEF ReadRole, HasSubject, FirstStep, Goto, End, Proceed
<1>6. CASE Lookup(r)
  BY <1>6, FactorKept DEF Lookup, Goto, End, Proceed
<1>7. CASE Insert(r)
  <2> DEFINE u == req[r].target
  <2>1. CASE user[u] = None
    <3>1. Change(r, u, NewAccount(req[r].role))
      BY <1>7, <2>1 DEF Insert
    <3>2. QED
      BY <2>1, <3>1, FactorChanges
  <2>2. CASE user[u] # None
    BY <1>7, <2>2, FactorKept DEF Insert, End
  <2>3. QED
    BY <2>1, <2>2
<1>8. CASE ReadTarget(r)
  BY <1>8, FactorKept DEF ReadTarget, Goto, End, Proceed
<1>9. CASE CountOthers(r)
  BY <1>9, FactorKept DEF CountOthers, Goto, End, Proceed
<1>10. CASE WriteAccount(r)
  <2> DEFINE u == req[r].target
  <2>1. u \in Users /\ user[u] # None
    BY <1>10 DEF WriteAccount, HasSubject, FitsPlace
  <2>2. user[u] \in Account
    BY <2>1 DEF TablesTyped
  <2> DEFINE row == IF req[r].op = "set_role" THEN WithRole(user[u], req[r].role)
                    ELSE WithDisabled(user[u], req[r].op = "disable")
  <2>3. row.totp = user[u].totp /\ row.secret = user[u].secret
    BY <2>2, RoleFields
  <2>4. Change(r, u, row)
    BY <1>10 DEF WriteAccount
  <2> HIDE DEF row
  <2>5. QED
    BY <2>1, <2>3, <2>4, FactorChanges
<1>11. CASE DisableTotp(r)
  <2> DEFINE u == req[r].target
  <2>1. u \in Users /\ user[u] # None
    BY <1>11 DEF DisableTotp, HasSubject, FitsPlace
  <2>2. user[u] \in Account
    BY <2>1 DEF TablesTyped
  <2> DEFINE row == TurnedOff(user[u])
  <2>3. row.totp = FALSE
    BY <2>2 DEF TurnedOff, WithCodes, WithSecret, WithTotp, Account
  <2>4. user' = [user EXCEPT ![u] = row] /\ device' = device
    BY <1>11 DEF DisableTotp, TurnedOff
  <2> HIDE DEF row
  <2>5. user'[u] = row /\ \A v \in Users : v # u => user'[v] = user[v]
    BY <2>1, <2>4 DEF TablesTyped
  <2>6. disturbed' = IF TurningOn(u) THEN disturbed \cup {u} ELSE disturbed \ {u}
    BY <1>11 DEF DisableTotp
  <2>7. pc'[r] = "idle"
    BY <1>11 DEF DisableTotp, End
  <2>8. ASSUME NEW v \in Users, WorksFor(v) PROVE WorksFor(v)'
    BY <2>3, <2>4, <2>5, <2>6, <2>8 DEF WorksFor
  <2>9. ASSUME NEW q \in Requests PROVE TurnsOnFor(q)'
    <3>1. TurnsOnFor(q)
      BY DEF FactorInv
    <3>2. CASE q = r
      BY <2>7, <3>2 DEF TurnsOnFor
    <3>3. CASE q # r
      <4>1. pc'[q] = pc[q] /\ req'[q] = req[q]
        BY <3>3, OthersStay
      <4>2. pc[q] = "turnOn" => req[q].target \in Users
        BY DEF HasSubject
      <4>3. pc[q] = "turnOn" /\ req[q].target = u => u \in disturbed'
        BY <2>6 DEF TurningOn
      <4>4. pc[q] = "turnOn" /\ req[q].target # u => (req[q].target \in disturbed' <=> req[q].target \in disturbed)
        BY <2>6
      <4>5. QED
        BY <2>4, <2>5, <3>1, <4>1, <4>2, <4>3, <4>4 DEF TurnsOnFor, Verifies
    <3>4. QED
      BY <3>2, <3>3
  <2>10. QED
    BY <2>8, <2>9 DEF FactorInv
<1>12. CASE Setup(r)
  <2> DEFINE u == req[r].target
  <2>1. u \in Users /\ user[u] # None
    BY <1>12 DEF Setup, HasSubject, FitsPlace
  <2>2. user[u] \in Account
    BY <2>1 DEF TablesTyped
  <2> DEFINE row == WithSecret(user[u], drawn + 1)
  <2>3. row.totp = user[u].totp
    BY <2>2, FactorFields
  <2>4. user' = [user EXCEPT ![u] = row]
    BY <1>12 DEF Setup
  <2> HIDE DEF row
  <2>5. user'[u] = row /\ \A v \in Users : v # u => user'[v] = user[v]
    BY <2>1, <2>4 DEF TablesTyped
  <2>6. \A v \in Users : v # u => device'[v] = device[v]
    BY <1>12 DEF Setup, TablesTyped
  <2>7. disturbed' = IF user[u].totp \/ TurningOn(u) THEN disturbed \cup {u} ELSE disturbed
    BY <1>12 DEF Setup
  <2>8. pc'[r] = "idle"
    BY <1>12 DEF Setup, End
  <2>9. ASSUME NEW v \in Users, WorksFor(v) PROVE WorksFor(v)'
    BY <2>3, <2>5, <2>6, <2>7, <2>9 DEF WorksFor
  <2>10. ASSUME NEW q \in Requests PROVE TurnsOnFor(q)'
    <3>1. TurnsOnFor(q)
      BY DEF FactorInv
    <3>2. CASE q = r
      BY <2>8, <3>2 DEF TurnsOnFor
    <3>3. CASE q # r
      <4>1. pc'[q] = pc[q] /\ req'[q] = req[q]
        BY <3>3, OthersStay
      <4>2. pc[q] = "turnOn" => req[q].target \in Users
        BY DEF HasSubject
      <4>3. pc[q] = "turnOn" /\ req[q].target = u => u \in disturbed'
        BY <2>7 DEF TurningOn
      <4>4. QED
        BY <2>5, <2>6, <2>7, <3>1, <4>1, <4>2, <4>3 DEF TurnsOnFor, Verifies
    <3>4. QED
      BY <3>2, <3>3
  <2>11. QED
    BY <2>9, <2>10 DEF FactorInv
<1>13. CASE Confirm(r)
  <2> DEFINE u == req[r].target
  <2>1. u \in Users
    BY <1>13 DEF Confirm, HasSubject, FitsPlace
  <2>2. user' = user /\ device' = device /\ req' = req
    BY <1>13 DEF Confirm, Goto
  <2>3. CASE Verifies(u) /\ disturbed' = disturbed \ {u} /\ Goto(r, "turnOn")
    <3>1. ASSUME NEW v \in Users, WorksFor(v) PROVE WorksFor(v)'
      BY <2>2, <2>3, <3>1 DEF WorksFor, Verifies
    <3>2. ASSUME NEW q \in Requests PROVE TurnsOnFor(q)'
      <4>1. TurnsOnFor(q) /\ (q # r => pc'[q] = pc[q])
        BY <2>3 DEF Goto, FactorInv
      <4>2. QED
        BY <2>2, <2>3, <4>1 DEF TurnsOnFor, Verifies
    <3>3. QED
      BY <3>1, <3>2 DEF FactorInv
  <2>4. CASE Goto(r, "setup") /\ UNCHANGED disturbed
    BY <2>2, <2>4, FactorKept DEF Goto
  <2>5. QED
    BY <1>13, <2>3, <2>4 DEF Confirm
<1>14. CASE TurnOn(r)
  <2> DEFINE u == req[r].target
  <2>1. u \in Users /\ user[u] # None
    BY <1>14 DEF TurnOn, HasSubject, FitsPlace
  <2>2. user[u] \in Account
    BY <2>1 DEF TablesTyped
  <2> DEFINE row == TurnedOn(user[u])
  <2>3. row.secret = user[u].secret
    BY <2>2 DEF TurnedOn, WithCodes, WithTotp, Account
  <2>4. user' = [user EXCEPT ![u] = row] /\ device' = device /\ disturbed' = disturbed
    BY <1>14 DEF TurnOn, TurnedOn
  <2> HIDE DEF row
  <2>5. user'[u] = row /\ \A v \in Users : v # u => user'[v] = user[v]
    BY <2>1, <2>4 DEF TablesTyped
  <2>6. u \notin disturbed => device[u] = user[u].secret
    BY <1>14 DEF TurnOn, FactorInv, TurnsOnFor, Verifies
  <2>7. pc'[r] = "idle"
    BY <1>14 DEF TurnOn, End
  <2>8. ASSUME NEW v \in Users, WorksFor(v) PROVE WorksFor(v)'
    BY <2>3, <2>4, <2>5, <2>6, <2>8 DEF WorksFor
  <2>9. ASSUME NEW q \in Requests PROVE TurnsOnFor(q)'
    <3>1. TurnsOnFor(q)
      BY DEF FactorInv
    <3>2. q # r => pc'[q] = pc[q] /\ req'[q] = req[q]
      BY OthersStay
    <3>3. pc[q] = "turnOn" => req[q].target \in Users
      BY DEF HasSubject
    <3>4. QED
      BY <2>3, <2>4, <2>5, <2>7, <3>1, <3>2, <3>3 DEF TurnsOnFor, Verifies
  <2>10. QED
    BY <2>8, <2>9 DEF FactorInv
<1>15. CASE Submit(r)
  BY <1>15, FactorKept DEF Submit, Arrive, Goto, End, Proceed
<1>16. CASE Authenticate(r)
  BY <1>16, FactorKept DEF Authenticate, Goto, End, Proceed
<1>17. CASE CheckCode(r)
  BY <1>17, FactorKept DEF CheckCode, Goto, End, Proceed
<1>18. CASE Fail(r)
  BY <1>18, FactorKept DEF Fail, Goto, End, Proceed
<1>19. CASE ClearFailures(r)
  BY <1>19, FactorKept DEF ClearFailures, Goto, End, Proceed
<1>20. CASE SignIn(r)
  BY <1>20, FactorKept DEF SignIn, Goto, End, Proceed
<1>21. CASE SpendCode(r)
  <2>1. PICK row \in Account : Spends(r, row)
    BY <1>21, SpendWrites
  <2> DEFINE u == req[r].actor
  <2>2. /\ u \in Users /\ user[u] # None /\ user'[u] = row
        /\ \A v \in Users : v # u => user'[v] = user[v]
    BY <2>1 DEF Spends, TablesTyped
  <2>3. row.secret = user[u].secret /\ row.totp = user[u].totp
    BY <2>1, <2>2, FactorFields DEF Spends, TablesTyped
  <2>4. device' = device /\ disturbed' = disturbed /\ req' = req /\ pc'[r] # "turnOn"
        /\ \A q \in Requests : q # r => pc'[q] = pc[q]
    BY <1>21 DEF SpendCode, Goto
  <2>5. ASSUME NEW v \in Users PROVE WorksFor(v)'
    BY <2>2, <2>3, <2>4 DEF FactorInv, WorksFor
  <2>6. ASSUME NEW q \in Requests PROVE TurnsOnFor(q)'
    <3>1. TurnsOnFor(q) /\ (pc[q] = "turnOn" => req[q].target \in Users)
      BY DEF FactorInv, HasSubject
    <3>2. QED
      BY <2>2, <2>3, <2>4, <3>1 DEF TurnsOnFor, Verifies
  <2>7. QED
    BY <2>5, <2>6 DEF FactorInv
<1>q. QED
  BY <1>1, <1>2, <1>3, <1>4, <1>5, <1>6, <1>7, <1>8, <1>9, <1>10, <1>11, <1>12, <1>13, <1>14, <1>15, <1>16, <1>17, <1>18, <1>19, <1>20, <1>21 DEF RequestStep

\* Sign-ins under way.
Flight == {r \in Requests : req[r].op \in SignIns}

LockoutInv == attempts + Cardinality(Flight) < MaxAttempts + Cardinality(Requests)

\* There are no more sign-ins under way than requests.
LEMMA FlightIsSmall ==
    /\ IsFiniteSet(Flight) /\ Cardinality(Flight) \in Nat
    /\ Cardinality(Flight)' \in Nat /\ Cardinality(Flight)' <= Cardinality(Requests)
    /\ Cardinality(Requests) \in Nat /\ MaxAttempts \in Nat /\ MaxAttempts > 0
<1>1. Flight \subseteq Requests /\ Flight' \subseteq Requests
  BY DEF Flight
<1>2. /\ IsFiniteSet(Flight) /\ IsFiniteSet(Flight')
      /\ Cardinality(Flight') <= Cardinality(Requests)
  BY <1>1, FS_Subset
<1>3. /\ Cardinality(Flight) \in Nat /\ Cardinality(Flight') \in Nat
      /\ Cardinality(Requests) \in Nat
  BY <1>2, FS_CardinalityType
<1>4. QED
  BY <1>2, <1>3

\* A step that adds neither a failure nor a sign-in keeps the bound.
LEMMA LockoutKept ==
    ASSUME attempts \in Nat, LockoutInv, attempts' \in Nat, attempts' <= attempts,
           \A q \in Requests : req'[q].op \in SignIns => req[q].op \in SignIns
    PROVE  LockoutInv'
<1>1. Flight' \subseteq Flight
  BY DEF Flight
<1>2. Cardinality(Flight') <= Cardinality(Flight)
  BY <1>1, FlightIsSmall, FS_Subset
<1>3. QED
  BY <1>2, FlightIsSmall DEF LockoutInv

\* Every request keeps LockoutInv: is_rate_limited before, record_login_failure after.
LEMMA LockoutNext ==
    ASSUME Shape, LockoutInv, NEW r \in Requests, RequestStep(r)
    PROVE  LockoutInv'
<1> USE DEF Shape, TypeOK, ThreadsTyped, TablesTyped, Fits
<1>1. CASE ReadSession(r)
  <2>1. PICK s \in Sessions, op \in AdminOps \cup OwnOps, role \in Roles \cup {None},
             target \in Users, label \in {"account", "destroy"} :
          Opening(r, s, op, role, target, label)
    BY <1>1, Opens
  <2>2. \A q \in Requests : req'[q].op \in SignIns => req[q].op \in SignIns
    BY <2>1 DEF Opening, Arrive
  <2>3. attempts' = attempts
    BY <1>1 DEF ReadSession
  <2>4. QED
    BY <2>2, <2>3, LockoutKept
<1>2. CASE ReadAccount(r)
  BY <1>2, LockoutKept DEF ReadAccount, NoRequest, Goto, End, Proceed, Change
<1>3. CASE Destroy(r)
  BY <1>3, LockoutKept DEF Destroy, NoRequest, Goto, End, Proceed, Change
<1>4. CASE Touch(r)
  BY <1>4, LockoutKept DEF Touch, NoRequest, Goto, End, Proceed, Change
<1>5. CASE ReadRole(r)
  BY <1>5, LockoutKept DEF ReadRole, NoRequest, Goto, End, Proceed, Change
<1>6. CASE Lookup(r)
  BY <1>6, LockoutKept DEF Lookup, NoRequest, Goto, End, Proceed, Change
<1>7. CASE Insert(r)
  BY <1>7, LockoutKept DEF Insert, NoRequest, Goto, End, Proceed, Change
<1>8. CASE ReadTarget(r)
  BY <1>8, LockoutKept DEF ReadTarget, NoRequest, Goto, End, Proceed, Change
<1>9. CASE CountOthers(r)
  BY <1>9, LockoutKept DEF CountOthers, NoRequest, Goto, End, Proceed, Change
<1>10. CASE WriteAccount(r)
  BY <1>10, LockoutKept DEF WriteAccount, NoRequest, Goto, End, Proceed, Change
<1>11. CASE DisableTotp(r)
  BY <1>11, LockoutKept DEF DisableTotp, NoRequest, Goto, End, Proceed, Change
<1>12. CASE Setup(r)
  BY <1>12, LockoutKept DEF Setup, NoRequest, Goto, End, Proceed, Change
<1>13. CASE Confirm(r)
  BY <1>13, LockoutKept DEF Confirm, NoRequest, Goto, End, Proceed, Change
<1>14. CASE TurnOn(r)
  BY <1>14, LockoutKept DEF TurnOn, NoRequest, Goto, End, Proceed, Change
<1>15. CASE Submit(r)
  <2>1. attempts' = attempts /\ attempts < MaxAttempts
    BY <1>15 DEF Submit, Limited, TablesTyped
  <2>2. QED
    BY <2>1, FlightIsSmall DEF LockoutInv, TablesTyped
<1>16. CASE Authenticate(r)
  BY <1>16, LockoutKept DEF Authenticate, NoRequest, Goto, End, Proceed, Change
<1>17. CASE CheckCode(r)
  <2>1. attempts' = attempts
    BY <1>17 DEF CheckCode
  <2>2. \A q \in Requests : req'[q].op \in {req[q].op, "none"}
    BY <1>17 DEF CheckCode, Goto, End, NoRequest, RequestRecord
  <2>3. QED
    BY <2>1, <2>2, LockoutKept
<1>18. CASE Fail(r)
  <2>1. r \in Flight /\ attempts' = attempts + 1
    BY <1>18 DEF Fail, HasSubject, Flight
  <2>2. Flight' = Flight \ {r}
    BY <1>18 DEF Fail, End, Flight, NoRequest
  <2>3. Cardinality(Flight \ {r}) = Cardinality(Flight) - 1
    BY <2>1, FlightIsSmall, FS_RemoveElement
  <2>4. QED
    BY <2>1, <2>2, <2>3, FlightIsSmall DEF LockoutInv, TablesTyped
<1>19. CASE ClearFailures(r)
  <2>1. attempts' = 0
    BY <1>19 DEF ClearFailures
  <2>2. QED
    BY <2>1, FlightIsSmall DEF LockoutInv
<1>20. CASE SignIn(r)
  BY <1>20, LockoutKept DEF SignIn, NoRequest, Goto, End, Proceed, Change
<1>21. CASE SpendCode(r)
  BY <1>21, LockoutKept DEF SpendCode, NoRequest, Goto, End, Proceed, Change
<1>q. QED
  BY <1>1, <1>2, <1>3, <1>4, <1>5, <1>6, <1>7, <1>8, <1>9, <1>10, <1>11, <1>12, <1>13, <1>14, <1>15, <1>16, <1>17, <1>18, <1>19, <1>20, <1>21 DEF RequestStep

-----------------------------------------------------------------------------
(* A backup code works once *)

\* The part of the invariant that types, and the bootstrap and the guard, need.
AdminIInv == Shape /\ AdminInv

\* No code is known that was not issued: what is issued next is new to everyone.
KnownCodes ==
    /\ \A u \in Users : user[u] # None => \A c \in user[u].codes : c <= issued
    /\ \A u \in Users : \A c \in spent[u] : c <= issued
    /\ \A r \in Requests : \A c \in req[r].seen : c <= issued

CodesInv == BackupCodesWorkOnce /\ KnownCodes

\* The accounts that are there at first hold the codes issued first, and none is spent.
LEMMA CodesInit == Init => CodesInv
<1> SUFFICES ASSUME Init PROVE CodesInv
  OBVIOUS
<1>1. \A u \in Users : spent[u] = {}
  BY DEF Init
<1>2. \A r \in Requests : req[r].seen = {}
  BY DEF Init, NoRequest
<1>3. \A u \in Users : user[u] # None => \A c \in user[u].codes : c <= issued
  <2>1. PICK enrolled \in {0, drawn} : user \in [Users -> {None} \cup
            [role : Roles, disabled : {FALSE}, secret : {enrolled}, totp : {enrolled # 0},
             codes : {IF enrolled # 0 THEN 1..issued ELSE {}}]]
    BY DEF Init
  <2>2. ASSUME NEW u \in Users, user[u] # None PROVE \A c \in user[u].codes : c <= issued
    <3>1. user[u].codes \in {1..issued, {}} /\ issued \in Nat
      BY <2>1, <2>2 DEF Init
    <3>2. QED
      BY <3>1
  <2>3. QED
    BY <2>2
<1>4. QED
  BY <1>1, <1>2, <1>3 DEF CodesInv, BackupCodesWorkOnce, KnownCodes

\* A step that adds codes to nobody keeps CodesInv.
LEMMA CodesKept ==
    ASSUME CodesInv, issued' = issued, spent' = spent, collided' = collided,
           \A u \in Users : user'[u] # None =>
              user'[u].codes = {} \/ (user[u] # None /\ user'[u].codes = user[u].codes),
           \A r \in Requests : req'[r].seen = {} \/ req'[r].seen = req[r].seen
    PROVE  CodesInv'
BY DEF CodesInv, BackupCodesWorkOnce, KnownCodes

\* A change of role or state leaves the codes alone.
LEMMA RoleCodes ==
    ASSUME NEW row \in Account, NEW x
    PROVE  /\ WithRole(row, x).codes = row.codes /\ WithDisabled(row, x).codes = row.codes
           /\ WithSecret(row, x).codes = row.codes
           /\ \A codes : WithCodes(row, codes).codes = codes
BY DEF Account, WithRole, WithDisabled, WithSecret, WithCodes

\* Every request keeps CodesInv: a code is spent from the list it was read in, unless that
\* was stale, and what is issued is new.
LEMMA CodesStep ==
    ASSUME Shape, CodesInv, NEW r \in Requests, RequestStep(r)
    PROVE  CodesInv'
<1> USE DEF Shape, TypeOK, ThreadsTyped, TablesTyped, Fits
<1>1. ASSUME NEW u \in Users, NEW row \in Account, user' = [user EXCEPT ![u] = row],
             row.codes = {} \/ (user[u] # None /\ row.codes = user[u].codes),
             UNCHANGED <<issued, spent, collided>>,
             \A q \in Requests : req'[q].seen = {} \/ req'[q].seen = req[q].seen
      PROVE  CodesInv'
  <2>1. user'[u] = row /\ \A v \in Users : v # u => user'[v] = user[v]
    BY <1>1
  <2>2. QED
    BY <1>1, <2>1, CodesKept
<1>2. CASE ReadSession(r)
  <2>1. PICK s \in Sessions, op \in AdminOps \cup OwnOps, role \in Roles \cup {None},
             target \in Users, label \in {"account", "destroy"} :
          Opening(r, s, op, role, target, label)
    BY <1>2, Opens
  <2>2. \A q \in Requests : req'[q].seen = {} \/ req'[q].seen = req[q].seen
    BY <2>1 DEF Opening, Arrive
  <2>3. UNCHANGED <<user, issued, spent, collided>>
    BY <1>2 DEF ReadSession
  <2>4. QED
    BY <2>2, <2>3, CodesKept
<1>3. CASE ReadAccount(r) \/ Destroy(r) \/ Touch(r) \/ ReadRole(r) \/ Lookup(r) \/ ReadTarget(r)
           \/ CountOthers(r) \/ Confirm(r) \/ Authenticate(r) \/ Fail(r) \/ ClearFailures(r)
           \/ SignIn(r) \/ Submit(r)
  <2>1. UNCHANGED <<user, issued, spent, collided>>
    BY <1>3 DEF ReadAccount, Destroy, Touch, ReadRole, Lookup, ReadTarget, CountOthers, Confirm,
                Authenticate, Fail, ClearFailures, SignIn, Submit
  <2>2. CASE Submit(r)
    <3>1. \A q \in Requests : req'[q].seen = {} \/ req'[q].seen = req[q].seen
      BY <2>2 DEF Submit, Arrive, NoRequest
    <3>2. QED
      BY <2>1, <3>1, CodesKept
  <2>3. CASE ~Submit(r)
    <3>1. req' = req \/ req' = [req EXCEPT ![r] = NoRequest]
      BY <1>3, <2>3 DEF ReadAccount, Destroy, Touch, ReadRole, Lookup, ReadTarget, CountOthers,
                        Confirm, Authenticate, Fail, ClearFailures, SignIn, Goto, End, Proceed
    <3>2. \A q \in Requests : req'[q].seen = {} \/ req'[q].seen = req[q].seen
      BY <3>1 DEF NoRequest
    <3>3. QED
      BY <2>1, <3>2, CodesKept
  <2>4. QED
    BY <2>2, <2>3
<1>4. CASE Insert(r)
  <2> DEFINE u == req[r].target
             row == NewAccount(req[r].role)
  <2>1. u \in Users /\ row \in Account /\ row.codes = {}
    BY <1>4, NewRow DEF Insert, HasSubject, FitsPlace, RequestRecord
  <2>2. CASE user[u] = None
    <3>1. /\ user' = [user EXCEPT ![u] = row] /\ UNCHANGED <<issued, spent, collided>>
          /\ \A q \in Requests : req'[q].seen = {} \/ req'[q].seen = req[q].seen
      BY <1>4, <2>2 DEF Insert, Change, NoRequest
    <3> HIDE DEF u, row
    <3>2. QED
      BY <1>1, <2>1, <3>1
  <2>3. CASE user[u] # None
    BY <1>4, <2>3, CodesKept DEF Insert, End, NoRequest
  <2>4. QED
    BY <2>2, <2>3
<1>5. CASE WriteAccount(r)
  <2> DEFINE u == req[r].target
             row == IF req[r].op = "set_role" THEN WithRole(user[u], req[r].role)
                    ELSE WithDisabled(user[u], req[r].op = "disable")
  <2>1. u \in Users /\ user[u] # None /\ (req[r].op = "set_role" => req[r].role \in Roles)
    BY <1>5 DEF WriteAccount, HasSubject, RequestRecord
  <2>2. user[u] \in Account
    BY <2>1
  <2>3. row \in Account /\ row.codes = user[u].codes
    BY <2>1, <2>2, RowWrites, RoleCodes
  <2>4. /\ user' = [user EXCEPT ![u] = row] /\ UNCHANGED <<issued, spent, collided>>
        /\ \A q \in Requests : req'[q].seen = {} \/ req'[q].seen = req[q].seen
    BY <1>5 DEF WriteAccount, Change, NoRequest
  <2> HIDE DEF u, row
  <2>5. QED
    BY <1>1, <2>1, <2>3, <2>4
<1>6. CASE DisableTotp(r)
  <2> DEFINE u == req[r].target
             row == TurnedOff(user[u])
  <2>1. u \in Users /\ user[u] \in Account
    BY <1>6 DEF DisableTotp, HasSubject, FitsPlace
  <2>2. row \in Account /\ row.codes = {}
    <3>1. row \in Account
      BY <2>1, FactorRows
    <3>2. row.codes = {}
      BY <2>1 DEF TurnedOff, WithCodes, WithSecret, WithTotp, Account
    <3>3. QED
      BY <3>1, <3>2
  <2>3. /\ user' = [user EXCEPT ![u] = row] /\ UNCHANGED <<issued, spent, collided>>
        /\ \A q \in Requests : req'[q].seen = {} \/ req'[q].seen = req[q].seen
    BY <1>6 DEF DisableTotp, TurnedOff, End, NoRequest
  <2> HIDE DEF u, row
  <2>4. QED
    BY <1>1, <2>1, <2>2, <2>3
<1>7. CASE Setup(r)
  <2> DEFINE u == req[r].target
             row == WithSecret(user[u], drawn + 1)
  <2>1. u \in Users /\ user[u] # None /\ user[u] \in Account
    BY <1>7 DEF Setup, HasSubject, FitsPlace
  <2>2. row \in Account /\ row.codes = user[u].codes
    <3>1. drawn + 1 \in 0..MaxSecrets
      BY <1>7 DEF Setup
    <3>2. QED
      BY <2>1, <3>1, RowWrites, RoleCodes
  <2>3. /\ user' = [user EXCEPT ![u] = row] /\ UNCHANGED <<issued, spent, collided>>
        /\ \A q \in Requests : req'[q].seen = {} \/ req'[q].seen = req[q].seen
    BY <1>7 DEF Setup, End, NoRequest
  <2> HIDE DEF u, row
  <2>4. QED
    BY <1>1, <2>1, <2>2, <2>3
<1>8. CASE TurnOn(r)
  <2> DEFINE u == req[r].target
  <2>1. u \in Users /\ user[u] # None /\ user[u] \in Account
    <3>1. pc[r] = "turnOn"
      BY <1>8 DEF TurnOn
    <3>2. u \in Users /\ user[u] # None
      BY <3>1 DEF HasSubject, FitsPlace
    <3>3. QED
      BY <3>2
  <2>2. /\ user' = [user EXCEPT ![u] = TurnedOn(user[u])] /\ issued' = issued + CodeCount
        /\ spent' = spent /\ collided' = collided
        /\ \A q \in Requests : req'[q].seen = {} \/ req'[q].seen = req[q].seen
    BY <1>8 DEF TurnOn, TurnedOn, End, NoRequest
  <2>3. TurnedOn(user[u]).codes = issued + 1 .. issued + CodeCount
    BY <2>1 DEF TurnedOn, WithCodes, WithTotp, Account
  <2> HIDE DEF u
  <2>4. /\ user'[u].codes = issued + 1 .. issued + CodeCount
        /\ \A v \in Users : v # u => user'[v] = user[v]
    BY <2>1, <2>2, <2>3
  <2>5. /\ \A v \in Users : spent[v] \subseteq Nat /\ (user[v] # None => user[v].codes \subseteq Nat)
        /\ \A q \in Requests : req[q].seen \subseteq Nat
    BY DEF Account, RequestRecord
  <2>6. KnownCodes'
    <3>1. issued \in Nat /\ CodeCount \in Nat
      BY AccountsAssumption DEF TypeOK, TablesTyped
    <3>2. \A c \in Nat : c <= issued => c <= issued'
      BY <2>2, <3>1
    <3>3. \A c \in issued + 1 .. issued + CodeCount : c <= issued'
      BY <2>2, <3>1
    <3>4. \A v \in Users : user'[v] # None => \A c \in user'[v].codes : c <= issued'
      <4>1. ASSUME NEW v \in Users, v # u, user'[v] # None
            PROVE  \A c \in user'[v].codes : c <= issued'
        <5>1. user'[v] = user[v] /\ user[v] # None
          BY <2>4, <4>1
        <5>2. \A c \in user[v].codes : c \in Nat /\ c <= issued
          BY <2>5, <5>1 DEF CodesInv, KnownCodes
        <5>3. QED
          BY ONLY <3>2, <5>1, <5>2
      <4>2. \A c \in user'[u].codes : c <= issued'
        BY ONLY <2>4, <3>3
      <4>3. QED
        BY <4>1, <4>2
    <3>5. \A v \in Users : \A c \in spent[v] : c <= issued'
      <4>1. \A v \in Users : \A c \in spent[v] : c \in Nat /\ c <= issued
        BY <2>5 DEF CodesInv, KnownCodes
      <4>2. QED
        BY ONLY <3>2, <4>1
    <3>6. \A q \in Requests : \A c \in req'[q].seen : c <= issued'
      <4>1. \A q \in Requests : \A c \in req[q].seen : c \in Nat /\ c <= issued
        BY <2>5 DEF CodesInv, KnownCodes
      <4>2. QED
        BY ONLY <2>2, <3>2, <4>1
    <3>7. QED
      BY ONLY <2>2, <3>4, <3>5, <3>6 DEF KnownCodes
  <2>7. BackupCodesWorkOnce'
    <3>1. \A c \in issued + 1 .. issued + CodeCount : c \notin spent[u]
      BY <2>1, <2>5 DEF CodesInv, KnownCodes
    <3>2. QED
      BY <2>1, <2>2, <2>4, <3>1 DEF CodesInv, BackupCodesWorkOnce
  <2>8. QED
    BY <2>6, <2>7 DEF CodesInv
<1>9. CASE CheckCode(r)
  <2>1. UNCHANGED <<user, issued, spent, collided>>
    BY <1>9 DEF CheckCode
  <2>2. req[r].actor \in Users
    BY <1>9 DEF CheckCode, HasSubject
  <2>3. \A q \in Requests : \/ req'[q].seen = {} \/ req'[q].seen = req[q].seen
                           \/ /\ user[req[r].actor] # None
                              /\ req'[q].seen = user[req[r].actor].codes
    BY <1>9 DEF CheckCode, Goto, End, NoRequest, RequestRecord
  <2>4. QED
    BY <2>1, <2>2, <2>3 DEF CodesInv, BackupCodesWorkOnce, KnownCodes
<1>10. CASE SpendCode(r)
  <2>1. PICK row \in Account : Spends(r, row)
    BY <1>10, SpendWrites
  <2> DEFINE u == req[r].actor
  <2>2. u \in Users /\ user[u] # None /\ user[u] \in Account
    BY <2>1 DEF Spends
  <2>3. PICK code \in req[r].seen :
          row = WithCodes(user[u], req[r].seen \ {code}) /\ spent' = [spent EXCEPT ![u] = spent[u] \cup {code}]
    BY <2>1 DEF Spends
  <2>4. row.codes = req[r].seen \ {code}
    <3> DEFINE left == req[r].seen \ {code}
    <3>1. row = WithCodes(user[u], left)
      BY <2>3
    <3> HIDE DEF u, left
    <3>2. row.codes = left
      BY ONLY <2>2, <3>1, RoleCodes
    <3>3. QED
      BY <3>2 DEF left
  <2>5. user' = [user EXCEPT ![u] = row]
    BY <2>1 DEF Spends
  <2>6. collided' = IF user[u].codes # req[r].seen THEN collided \cup {u} ELSE collided
    BY <1>10 DEF SpendCode
  <2>7. issued' = issued /\ req' = req
    BY <1>10 DEF SpendCode, Goto
  <2> HIDE DEF u
  <2>8. /\ user'[u] = row /\ \A v \in Users : v # u => user'[v] = user[v]
        /\ spent'[u] = spent[u] \cup {code} /\ \A v \in Users : v # u => spent'[v] = spent[v]
    BY <2>2, <2>3, <2>5
  <2>9. KnownCodes'
    BY <2>2, <2>4, <2>7, <2>8 DEF CodesInv, KnownCodes
  <2>10. BackupCodesWorkOnce'
    BY <2>2, <2>4, <2>6, <2>8 DEF CodesInv, BackupCodesWorkOnce
  <2>11. QED
    BY <2>9, <2>10 DEF CodesInv
<1>11. QED
  BY <1>2, <1>3, <1>4, <1>5, <1>6, <1>7, <1>8, <1>9, <1>10 DEF RequestStep

\* So does every other step.
LEMMA CodesNext == AdminIInv /\ CodesInv /\ [Next]_vars => CodesInv'
<1> SUFFICES ASSUME AdminIInv, CodesInv, [Next]_vars PROVE CodesInv'
  OBVIOUS
<1>1. Shape
  BY DEF AdminIInv
<1>2. ASSUME NEW r \in Requests, RequestStep(r) PROVE CodesInv'
  BY <1>1, <1>2, CodesStep
<1>3. CASE (\E s \in Sessions : Expire(s)) \/ (\E u \in Users : PendingExpires(u)) \/ Age
           \/ UNCHANGED vars
  BY <1>3, CodesKept DEF Expire, PendingExpires, Age, vars
<1>4. CASE Stop
  BY <1>4, CodesKept DEF Stop, NoRequest
<1>5. CASE Boot
  <2>1. UNCHANGED <<issued, spent, collided, req>>
    BY <1>5 DEF Boot
  <2>2. CASE \E u \in Users : user[u] # None
    BY <1>5, <2>1, <2>2, CodesKept DEF Boot
  <2>3. CASE ~ \E u \in Users : user[u] # None
    <3>1. PICK u \in Users : user' = [user EXCEPT ![u] = NewAccount(ADMIN)]
      BY <1>5, <2>3 DEF Boot
    <3>2. \A v \in Users : user'[v] = None \/ user'[v].codes = {}
      BY <1>1, <2>3, <3>1 DEF Shape, TypeOK, TablesTyped
    <3>3. QED
      BY <2>1, <3>2, CodesKept
  <2>4. QED
    BY <2>2, <2>3
<1>6. QED
  BY <1>2, <1>3, <1>4, <1>5 DEF Next

-----------------------------------------------------------------------------
(* The theorems *)

\* What leaves accounts and requests alone keeps AdminInv.
LEMMA AdminRests ==
    ASSUME AdminInv, user' = user, overlapped' = overlapped, raced' = raced, req' = req, pc' = pc
    PROVE  AdminInv'
<1>1. \A u : OtherAdmins(u)' = OtherAdmins(u)
  BY DEF OtherAdmins
<1>2. \A r \in Requests : SafeToWrite(r) => SafeToWrite(r)'
  BY <1>1 DEF SafeToWrite
<1>3. (\E u \in Users : ActiveAdmin(user[u])) => \E u \in Users : ActiveAdmin(user'[u])
  OBVIOUS
<1>4. QED
  BY <1>2, <1>3 DEF AdminInv

\* So does what leaves no request running and an administrator in place.
LEMMA AdminIdle ==
    ASSUME \A r \in Requests : pc'[r] = "idle",
           overlapped' \/ ((\E u \in Users : user'[u] # None) => \E u \in Users : ActiveAdmin(user'[u]))
    PROVE  AdminInv'
<1>1. \A r \in Requests : SafeToWrite(r)'
  BY DEF SafeToWrite
<1>2. QED
  BY <1>1 DEF AdminInv

\* No step harms Shape and AdminInv.
LEMMA AdminIInvNext == AdminIInv /\ [Next]_vars => AdminIInv'
<1> SUFFICES ASSUME AdminIInv, [Next]_vars PROVE AdminIInv'
  OBVIOUS
<1>1. Shape /\ AdminInv /\ Shape'
  BY ShapeNext DEF AdminIInv
<1> SUFFICES AdminInv'
  BY <1>1 DEF AdminIInv
<1>2. ASSUME NEW r \in Requests, RequestStep(r) PROVE AdminInv'
  BY <1>1, <1>2, AdminNext
<1>3. ASSUME NEW s \in Sessions, Expire(s) PROVE AdminInv'
  BY <1>1, <1>3, AdminRests DEF Expire
<1>4. ASSUME NEW u \in Users, PendingExpires(u) PROVE AdminInv'
  BY <1>1, <1>4, AdminRests DEF PendingExpires
<1>5. CASE Age
  BY <1>1, <1>5, AdminRests DEF Age
<1>6. CASE Stop
  <2>1. \A r \in Requests : pc'[r] = "idle"
    BY <1>6 DEF Stop
  <2>2. user' = user /\ overlapped' = overlapped
    BY <1>6 DEF Stop
  <2>3. QED
    BY <1>1, <2>1, <2>2, AdminIdle DEF AdminInv
<1>7. CASE Boot
  <2>1. \A r \in Requests : pc'[r] = "idle"
    BY <1>1, <1>7 DEF Boot, Purged, Shape, ProcessFits
  <2>2. CASE \E u \in Users : user[u] # None
    <3>1. user' = user /\ overlapped' = overlapped
      BY <1>7, <2>2 DEF Boot, Purged
    <3>2. QED
      BY <1>1, <2>1, <3>1, AdminIdle DEF AdminInv
  <2>3. CASE ~ \E u \in Users : user[u] # None
    <3>1. PICK u \in Users : user' = [user EXCEPT ![u] = NewAccount(ADMIN)]
      BY <1>7, <2>3 DEF Boot, Purged
    <3>2. NewAccount(ADMIN) # None
      BY NewRow
    <3>3. ActiveAdmin(NewAccount(ADMIN))
      BY <3>2 DEF ActiveAdmin
    <3> HIDE DEF NewAccount
    <3>4. user'[u] = NewAccount(ADMIN)
      BY <1>1, <3>1 DEF Shape, TypeOK, TablesTyped
    <3>5. \E v \in Users : ActiveAdmin(user'[v])
      BY <3>3, <3>4
    <3>6. QED
      BY <2>1, <3>5, AdminIdle
  <2>4. QED
    BY <2>2, <2>3
<1>8. CASE UNCHANGED vars
  BY <1>1, <1>8, AdminRests DEF vars
<1>9. QED
  BY <1>1, <1>2, <1>3, <1>4, <1>5, <1>6, <1>7, <1>8 DEF Next

\* Types, places and administrators, together, hold in every reachable state: what the
\* guard of _guard_not_last_admin saw still holds at its write unless the state was raced.
THEOREM AdminIInvHolds == Spec => []AdminIInv
<1>1. Init => AdminIInv
  BY AccountsInit DEF AdminIInv
<1>2. AdminIInv /\ [Next]_vars => AdminIInv'
  BY AdminIInvNext
<1>3. QED
  BY <1>1, <1>2, PTL DEF Spec

\* The tables and the requests of app/users.py and app/security.py keep their types.
THEOREM AccountsTyped == Spec => []TypeOK
<1>1. AdminIInv => TypeOK
  BY DEF AdminIInv, Shape
<1>2. QED
  BY <1>1, AdminIInvHolds, PTL

\* "Refuse to leave the app with zero usable admins" (app/users.py:303-307), for any
\* number of users and requests: it takes a change between a check and its write.
THEOREM AdminAlwaysRemains == Spec => []AdminRemains
<1>1. AdminIInv => AdminRemains
  BY DEF AdminIInv, AdminRemains, AdminInv, Shape, ProcessFits
<1>2. QED
  BY <1>1, AdminIInvHolds, PTL

\* "disabling or deleting a user take effect immediately" (app/security.py:119-121): no
\* request changes anything for a user who was not, at some moment of it, enabled, and an
\* administrator where it takes one.
THEOREM AlwaysActsWithinRights == Spec => []ActsWithinRights
<1>1. Init => RightsInv
  BY DEF Init, RightsInv, RightsFor, NoRequest
<1>2. AdminIInv /\ RightsInv /\ [Next]_vars => RightsInv'
  <2> SUFFICES ASSUME AdminIInv, RightsInv, [Next]_vars PROVE RightsInv'
    OBVIOUS
  <2>1. Shape
    BY DEF AdminIInv
  <2>2. ASSUME NEW r \in Requests, RequestStep(r) PROVE RightsInv'
    BY <2>1, <2>2, RightsNext
  <2>3. ASSUME user' = user, pc' = pc, req' = req, rights' = rights PROVE RightsInv'
    BY <2>3 DEF RightsInv, RightsFor
  <2>4. ASSUME NEW s \in Sessions, Expire(s) PROVE RightsInv'
    BY <2>3, <2>4 DEF Expire
  <2>5. ASSUME NEW u \in Users, PendingExpires(u) PROVE RightsInv'
    BY <2>3, <2>5 DEF PendingExpires
  <2>6. CASE Age
    BY <2>3, <2>6 DEF Age
  <2>7. CASE Stop
    BY <2>7 DEF Stop, RightsInv, RightsFor, NoRequest
  <2>8. CASE Boot
    <3>1. \A r \in Requests : pc'[r] = "idle" /\ req'[r] = NoRequest
      BY <2>1, <2>8 DEF Boot, Purged, Shape, ProcessFits, Fits, HasSubject
    <3>2. QED
      BY <3>1 DEF RightsInv, RightsFor, NoRequest
  <2>9. CASE UNCHANGED vars
    BY <2>3, <2>9 DEF vars
  <2>10. QED
    BY <2>2, <2>4, <2>5, <2>6, <2>7, <2>8, <2>9 DEF Next
<1>3. RightsInv => ActsWithinRights
  BY DEF RightsInv, RightsFor, ActsWithinRights
<1>4. QED
  BY <1>1, <1>2, <1>3, AdminIInvHolds, PTL DEF Spec

\* A second factor that is on is in the user's authenticator unless its setup was reopened
\* while it was on, or it was reset while it was being turned on (app/users.py:208-263);
\* and no backup code that was signed in with is good again, unless the codes were written
\* from a stale reading (app/users.py:266-296).
THEOREM SecondFactorAlwaysWorks == Spec => []SecondFactorWorks
<1>1. Init => FactorInv
  BY DEF Init, FactorInv, WorksFor, TurnsOnFor
<1>2. AdminIInv /\ FactorInv /\ [Next]_vars => FactorInv'
  <2> SUFFICES ASSUME AdminIInv, FactorInv, [Next]_vars PROVE FactorInv'
    OBVIOUS
  <2>1. Shape
    BY DEF AdminIInv
  <2>2. ASSUME NEW r \in Requests, RequestStep(r) PROVE FactorInv'
    BY <2>1, <2>2, FactorNext
  <2>3. ASSUME user' = user, device' = device, disturbed' = disturbed,
               \A r \in Requests : pc'[r] # "idle" => pc'[r] = pc[r] /\ req'[r] = req[r]
        PROVE  FactorInv'
    <3>1. \A u \in Users : WorksFor(u)'
      BY <2>3 DEF FactorInv, WorksFor
    <3>2. \A r \in Requests : TurnsOnFor(r)'
      BY <2>3 DEF FactorInv, TurnsOnFor, Verifies
    <3>3. QED
      BY <3>1, <3>2 DEF FactorInv
  <2>4. ASSUME NEW s \in Sessions, Expire(s) PROVE FactorInv'
    BY <2>3, <2>4 DEF Expire
  <2>5. ASSUME NEW u \in Users, PendingExpires(u) PROVE FactorInv'
    BY <2>3, <2>5 DEF PendingExpires
  <2>6. CASE Age
    BY <2>3, <2>6 DEF Age
  <2>7. CASE Stop
    BY <2>3, <2>7 DEF Stop
  <2>8. CASE Boot
    <3>1. \A r \in Requests : pc'[r] = "idle"
      BY <2>1, <2>8 DEF Boot, Purged, Shape, ProcessFits
    <3>2. device' = device /\ disturbed' = disturbed
      BY <2>8 DEF Boot, Purged
    <3>3. CASE \E u \in Users : user[u] # None
      BY <2>3, <2>8, <3>1, <3>2, <3>3 DEF Boot, Purged
    <3>4. CASE ~ \E u \in Users : user[u] # None
      <4>1. PICK u \in Users : user' = [user EXCEPT ![u] = NewAccount(ADMIN)]
        BY <2>8, <3>4 DEF Boot, Purged
      <4>2. \A v \in Users : user'[v] = None \/ user'[v].totp = FALSE
        BY <2>1, <3>4, <4>1 DEF Shape, TypeOK, TablesTyped
      <4>3. QED
        BY <3>1, <4>2 DEF FactorInv, WorksFor, TurnsOnFor
    <3>5. QED
      BY <3>3, <3>4
  <2>9. CASE UNCHANGED vars
    BY <2>3, <2>9 DEF vars
  <2>10. QED
    BY <2>2, <2>4, <2>5, <2>6, <2>7, <2>8, <2>9 DEF Next
<1>3. Init => CodesInv
  BY CodesInit
<1>4. AdminIInv /\ CodesInv /\ [Next]_vars => CodesInv'
  BY CodesNext
<1>5. FactorInv /\ CodesInv => SecondFactorWorks
  BY DEF FactorInv, WorksFor, CodesInv, SecondFactorWorks, AuthenticatorWorks
<1>6. QED
  BY <1>1, <1>2, <1>3, <1>4, <1>5, AdminIInvHolds, PTL DEF Spec

\* However many sign-ins run at once, the failures of an address stay below the limit plus
\* one for each request that can be under way (app/security.py:201-205).
THEOREM LockoutAlwaysHolds == Spec => []LockoutHolds
<1>1. Init => LockoutInv
  <2> SUFFICES ASSUME Init PROVE LockoutInv
    OBVIOUS
  <2>1. Flight = {} /\ attempts = 0
    BY DEF Init, Flight, NoRequest
  <2>2. QED
    BY <2>1, FlightIsSmall, FS_EmptySet DEF LockoutInv
<1>2. AdminIInv /\ LockoutInv /\ [Next]_vars => LockoutInv'
  <2> SUFFICES ASSUME AdminIInv, LockoutInv, [Next]_vars PROVE LockoutInv'
    OBVIOUS
  <2>1. Shape /\ attempts \in Nat
    BY DEF AdminIInv, Shape, TypeOK, TablesTyped
  <2>2. ASSUME NEW r \in Requests, RequestStep(r) PROVE LockoutInv'
    BY <2>1, <2>2, LockoutNext
  <2>3. CASE Age
    BY <2>1, <2>3, LockoutKept DEF Age
  <2>4. CASE Stop
    BY <2>1, <2>4, LockoutKept DEF Stop, NoRequest
  <2>5. ASSUME attempts' = attempts, req' = req PROVE LockoutInv'
    BY <2>1, <2>5, LockoutKept
  <2>6. ASSUME NEW s \in Sessions, Expire(s) PROVE LockoutInv'
    BY <2>5, <2>6 DEF Expire
  <2>7. ASSUME NEW u \in Users, PendingExpires(u) PROVE LockoutInv'
    BY <2>5, <2>7 DEF PendingExpires
  <2>8. CASE Boot
    BY <2>5, <2>8 DEF Boot, Purged
  <2>9. CASE UNCHANGED vars
    BY <2>5, <2>9 DEF vars
  <2>10. QED
    BY <2>2, <2>3, <2>4, <2>6, <2>7, <2>8, <2>9 DEF Next
<1>3. LockoutInv => LockoutHolds
  BY DEF LockoutInv, Flight, LockoutHolds
<1>4. QED
  BY <1>1, <1>2, <1>3, AdminIInvHolds, PTL DEF Spec

\* No step brings a dead session back (app/security.py:144-156), whichever request read
\* it before.
THEOREM DeadSessionsStayDead == Spec => SessionsStayDead
<1>1. AdminIInv /\ [Next]_vars =>
        [\A s \in Sessions : session[s].state = "gone" => session'[s].state = "gone"]_vars
  <2> SUFFICES ASSUME AdminIInv, [Next]_vars, NEW s \in Sessions, session[s].state = "gone"
               PROVE  session'[s].state = "gone"
    OBVIOUS
  <2> USE DEF AdminIInv, Shape, TypeOK, TablesTyped
  <2>1. session[s] \in SessionRow
    OBVIOUS
  <2>2. ASSUME NEW r \in Requests, RequestStep(r) PROVE session'[s].state = "gone"
    <3>1. CASE UNCHANGED session
      BY <3>1
    <3>2. CASE Destroy(r)
      BY <3>2, <2>1 DEF Destroy, SessionRow
    <3>3. CASE Touch(r)
      BY <3>3, <2>1 DEF Touch, Touched, SessionRow
    <3>4. CASE SignIn(r)
      BY <3>4 DEF SignIn
    <3>5. QED
      BY <2>2, <3>1, <3>2, <3>3, <3>4 DEF RequestStep, ReadSession, ReadAccount, ReadRole, Lookup,
         Insert, ReadTarget, CountOthers, WriteAccount, DisableTotp, Setup, Confirm, TurnOn,
         Submit, Authenticate, CheckCode, SpendCode, Fail, ClearFailures, Change
  <2>3. ASSUME NEW t \in Sessions, Expire(t) PROVE session'[s].state = "gone"
    BY <2>1, <2>3 DEF Expire, SessionRow
  <2>4. CASE Boot
    BY <2>1, <2>4 DEF Boot, Purged, SessionRow
  <2>5. CASE (\E u \in Users : PendingExpires(u)) \/ Age \/ Stop \/ UNCHANGED vars
    BY <2>5 DEF PendingExpires, Age, Stop, vars
  <2>6. QED
    BY <2>2, <2>3, <2>4, <2>5 DEF Next
<1>2. QED
  BY <1>1, AdminIInvHolds, PTL DEF Spec, SessionsStayDead

=============================================================================
