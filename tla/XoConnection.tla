---------------------------- MODULE XoConnection ----------------------------
(***************************************************************************)
(* The stored Xen Orchestra connection (app/xo_connection.py) and the      *)
(* handlers of the settings page that save, test and forget it             *)
(* (app/routes/settings.py).                                               *)
(*                                                                         *)
(* A test reads the row, asks Xen Orchestra for up to half a minute at a   *)
(* time, and then writes its result to whatever row is there.  Handlers    *)
(* run in threads, so a save or a delete may come in between.              *)
(***************************************************************************)

CONSTANTS
    Credentials,  \* what a save stores: address, token, account type, TLS flag
    Testers,      \* requests to /settings/test that may run at once
    NoRow         \* no connection is configured, or no result, or no test

ASSUME NoRowAssumption == NoRow \notin Credentials

VARIABLES
    connection,  \* the row of xo_connection
    readable,    \* whether the secret key in force is the one the token was encrypted with
    tests        \* the test each tester has under way

xoVars == <<connection, readable, tests>>

\* A stored result: the credentials asked, and (history) whether a save came while they were.
Result == [of : Credentials, late : BOOLEAN]
Row == [credentials : Credentials, result : Result \cup {NoRow}]

\* A test under way: the client it built, and (history) whether a save has come since.
Test == [client : Credentials, overtaken : BOOLEAN]

XoTypeOK ==
    /\ connection \in Row \cup {NoRow}
    /\ readable \in BOOLEAN
    /\ tests \in [Testers -> Test \cup {NoRow}]

XoInit ==
    /\ connection = NoRow
    /\ readable = TRUE
    /\ tests = [t \in Testers |-> NoRow]

\* A save that kept the columns of the last test.
RowSavedKeepingResult(c) ==
    [credentials |-> c,
     result |-> IF connection = NoRow THEN NoRow ELSE connection.result]

\* save_connection: one INSERT OR REPLACE, which clears the result with the rest.
RowSaved(c) == [credentials |-> c, result |-> NoRow]

Save(c) ==
    /\ connection' = RowSaved(c)
    /\ readable' = TRUE
    /\ tests' = [t \in Testers |->
                    IF tests[t] = NoRow THEN NoRow ELSE [tests[t] EXCEPT !.overtaken = TRUE]]

Delete ==
    /\ connection # NoRow
    /\ connection' = NoRow
    /\ UNCHANGED <<readable, tests>>

\* build_client: refused without a row (LookupError) and when the token cannot be
\* decrypted (DecryptionError); neither refusal stores anything.
BuildClient(t) ==
    /\ tests[t] = NoRow
    /\ connection # NoRow /\ readable
    /\ tests' = [tests EXCEPT ![t] = [client |-> connection.credentials, overtaken |-> FALSE]]
    /\ UNCHANGED <<connection, readable>>

\* record_test_result: an UPDATE of the row there is now, which a missing row makes a no-op.
\* Whatever test_connection found, or the XoError it raised, is recorded.
RecordTestResult(t) ==
    /\ tests[t] # NoRow
    /\ connection' =
        IF connection = NoRow
        THEN NoRow
        ELSE [connection EXCEPT !.result =
                [of |-> tests[t].client, late |-> tests[t].overtaken]]
    /\ tests' = [tests EXCEPT ![t] = NoRow]
    /\ UNCHANGED readable

\* A process that stops takes its tests with it; the next may have another secret key.
XoStop ==
    /\ tests' = [t \in Testers |-> NoRow]
    /\ readable' \in BOOLEAN
    /\ UNCHANGED connection

XoNext ==
    \/ \E c \in Credentials : Save(c)
    \/ Delete
    \/ \E t \in Testers : BuildClient(t)
    \/ \E t \in Testers : RecordTestResult(t)

-----------------------------------------------------------------------------
(* Properties *)

\* A test result on the settings page is about the connection shown with it, unless a save
\* came between the moment its test read the row and the moment it wrote its result.
\* Results of earlier credentials do not outlive the save that replaced them.
\* (save_connection clears the result columns; record_test_result writes by id alone.)
ResultsAreCurrent ==
    connection # NoRow /\ connection.result # NoRow =>
        \/ connection.result.of = connection.credentials
        \/ connection.result.late

=============================================================================
