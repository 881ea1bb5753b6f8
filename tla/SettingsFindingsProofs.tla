---------------------- MODULE SettingsFindingsProofs ----------------------
(***************************************************************************)
(* What is proved of the two models of a single page.  Of Settings: a      *)
(* shown test result is about the shown connection unless its test was     *)
(* overtaken, a reported certificate pair stays what is stored, and nginx  *)
(* serves what is stored when nothing is under way.  Of Findings: a report *)
(* names every failure it has to and no other, an unread source is never   *)
(* shown as a clean one, and findings of two reports are set beside each   *)
(* other in pairs.                                                         *)
(***************************************************************************)
EXTENDS Settings, Findings, FiniteSetTheorems, SequenceTheorems, WellFoundedInduction, TLAPS

\* A test that no save has overtaken has asked with the credentials of the row, if there is one.
TestsAreFresh ==
    \A t \in Testers :
        tests[t] # NoRow /\ ~tests[t].overtaken /\ connection # NoRow =>
            connection.credentials = tests[t].client

\* An upload under way holds a pair, and the files are as far as it has come.
UploadInStep ==
    upload # NoUpload =>
        /\ container = "serving"
        /\ upload.at \in {"written", "replacing", "replaced"}
        /\ upload.cert \in Pairs /\ upload.key = upload.cert
        /\ upload.at \in {"replacing", "replaced"} => cert = upload.cert /\ reported = Missing
        /\ upload.at = "replaced" => key = upload.key

\* A start that generates a pair has found no reported one.
GeneratesForNobody ==
    container \in {"generating", "writing"} => reported = Missing

SettingsInv == SettingsTypeOK /\ ResultsAreCurrent /\ TestsAreFresh
            /\ ReportedPairStays /\ UploadInStep /\ GeneratesForNobody

XoInv == XoTypeOK /\ ResultsAreCurrent /\ TestsAreFresh
TlsInv == TlsTypeOK /\ ReportedPairStays /\ UploadInStep /\ GeneratesForNobody

-----------------------------------------------------------------------------
(* The connection *)

\* A stored row is never NoRow.
LEMMA NoRowIsNoRecord ==
    ASSUME XoInv
    PROVE  /\ connection # NoRow => connection \in Row
           /\ \A t \in Testers : tests[t] # NoRow => tests[t] \in Test
<1>1. QED BY DEF XoInv, XoTypeOK

\* Saving a connection keeps what is known of results and tests (settings_save).
LEMMA SaveKeeps ==
    ASSUME XoInv, NEW c \in Credentials, Save(c)
    PROVE  XoInv'
<1> USE DEF XoInv, Save
<1>1. connection' = [credentials |-> c, result |-> NoRow]
  BY DEF RowSaved
<1>2. connection' \in Row
  BY <1>1 DEF Row
<1>3. ASSUME NEW t \in Testers
      PROVE  tests'[t] = NoRow \/ (tests'[t] \in Test /\ tests'[t].overtaken)
  BY <1>3 DEF XoTypeOK, Test
<1>4. XoTypeOK'
  <2>1. tests' \in [Testers -> Test \cup {NoRow}]
    BY <1>3
  <2>2. QED BY <1>2, <2>1 DEF XoTypeOK
<1>5. ResultsAreCurrent'
  BY <1>1 DEF ResultsAreCurrent
<1>6. TestsAreFresh'
  BY <1>3 DEF TestsAreFresh
<1>7. QED BY <1>4, <1>5, <1>6

\* Forgetting the connection keeps it (settings_delete).
LEMMA DeleteKeeps ==
    ASSUME XoInv, Delete
    PROVE  XoInv'
<1>1. QED BY DEF XoInv, XoTypeOK, ResultsAreCurrent, TestsAreFresh, Delete

\* A test that begins reads the row there is (build_client).
LEMMA BuildClientKeeps ==
    ASSUME XoInv, NEW t \in Testers, BuildClient(t)
    PROVE  XoInv'
<1> USE DEF XoInv, BuildClient
<1>1. connection \in Row
  BY DEF XoTypeOK
<1>2. [client |-> connection.credentials, overtaken |-> FALSE] \in Test
  BY <1>1 DEF Row, Test
<1>3. XoTypeOK'
  BY <1>2 DEF XoTypeOK
<1>4. ResultsAreCurrent'
  BY DEF ResultsAreCurrent
<1>5. TestsAreFresh'
  <2> SUFFICES ASSUME NEW u \in Testers, tests'[u] # NoRow, ~tests'[u].overtaken,
                      connection' # NoRow
               PROVE  connection'.credentials = tests'[u].client
    BY DEF TestsAreFresh
  <2>1. CASE u = t
    BY <2>1 DEF XoTypeOK
  <2>2. CASE u # t
    BY <2>2 DEF XoTypeOK, TestsAreFresh
  <2>3. QED BY <2>1, <2>2
<1>6. QED BY <1>3, <1>4, <1>5

\* A result is written to the row there is, and says whether a save has come since its test
\* began (record_test_result).
LEMMA RecordKeeps ==
    ASSUME XoInv, NEW t \in Testers, RecordTestResult(t)
    PROVE  XoInv'
<1> DEFINE result == [of |-> tests[t].client, late |-> tests[t].overtaken]
<1> USE DEF XoInv, RecordTestResult
<1>1. tests[t] \in Test
  BY DEF XoTypeOK
<1>2. result \in Result /\ result.of = tests[t].client /\ result.late = tests[t].overtaken
  BY <1>1 DEF Test, Result
<1>3. tests' \in [Testers -> Test \cup {NoRow}]
  BY DEF XoTypeOK
<1>4. \A u \in Testers : tests'[u] = NoRow \/ tests'[u] = tests[u]
  BY DEF XoTypeOK
<1>5. CASE connection = NoRow
  <2>1. connection' = NoRow
    BY <1>5
  <2>2. QED BY <2>1, <1>3 DEF XoTypeOK, ResultsAreCurrent, TestsAreFresh
<1>6. CASE connection # NoRow
  <2>1. connection \in Row
    BY <1>6 DEF XoTypeOK
  <2>2. connection' = [connection EXCEPT !.result = result]
    BY <1>6
  <2>3. connection' \in Row /\ connection'.credentials = connection.credentials
            /\ connection'.result = result
    BY <2>1, <2>2, <1>2 DEF Row
  <2>4. XoTypeOK'
    BY <2>3, <1>3 DEF XoTypeOK
  <2>5. ResultsAreCurrent'
    BY <2>3, <1>2, <1>1, <1>6 DEF ResultsAreCurrent, TestsAreFresh, Test
  <2>6. TestsAreFresh'
    BY <2>3, <1>4, <1>6 DEF TestsAreFresh
  <2>7. QED BY <2>4, <2>5, <2>6
<1>7. QED BY <1>5, <1>6

\* A stop ends the tests and keeps the row.
LEMMA XoStopKeeps ==
    ASSUME XoInv, XoStop
    PROVE  XoInv'
<1>1. QED BY DEF XoInv, XoTypeOK, ResultsAreCurrent, TestsAreFresh, XoStop

\* A request about the connection keeps it.
LEMMA XoNextKeeps ==
    ASSUME XoInv, XoNext
    PROVE  XoInv'
<1>1. QED BY SaveKeeps, DeleteKeeps, BuildClientKeeps, RecordKeeps DEF XoNext

-----------------------------------------------------------------------------
(* The certificate *)

\* The start of the container keeps a reported pair: it generates only where a file is
\* missing (entrypoint.sh).
LEMMA StartsKeep ==
    ASSUME TlsInv, Start \/ GenerateKey \/ GenerateCertificate \/ StartNginx
    PROVE  TlsInv'
<1> USE TlsAssumption DEF TlsInv, TlsTypeOK, Files, Loadable, UploadInStep, fileVars, nginxVars
<1>1. CASE Start
  <2>1. TlsTypeOK' /\ ReportedPairStays' /\ UploadInStep'
    BY <1>1 DEF Start, ReportedPairStays
  <2>2. GeneratesForNobody'
    BY <1>1 DEF Start, MustGenerate, ReportedPairStays, GeneratesForNobody
  <2>3. QED BY <2>1, <2>2
<1>2. CASE GenerateKey
  BY <1>2 DEF GenerateKey, ReportedPairStays, GeneratesForNobody
<1>3. CASE GenerateCertificate
  BY <1>3 DEF GenerateCertificate, ReportedPairStays, GeneratesForNobody
<1>4. CASE StartNginx
  BY <1>4 DEF StartNginx, ReportedPairStays, GeneratesForNobody
<1>5. QED BY <1>1, <1>2, <1>3, <1>4

\* An upload that is accepted holds a pair (validate_certificate_pair).
LEMMA UploadKeeps ==
    ASSUME TlsInv, NEW c \in Pairs \cup {Broken}, NEW k \in Pairs \cup {Broken}, Upload(c, k)
    PROVE  TlsInv'
<1> USE TlsAssumption
        DEF TlsInv, TlsTypeOK, Files, Loadable, Upload, Validates, fileVars, nginxVars
<1>1. upload' = [at |-> "written", cert |-> c, key |-> k] /\ c \in Pairs /\ k = c
  OBVIOUS
<1>2. TlsTypeOK'
  BY <1>1
<1>3. ReportedPairStays' /\ GeneratesForNobody'
  BY DEF ReportedPairStays, GeneratesForNobody
<1>4. UploadInStep'
  BY <1>1 DEF UploadInStep
<1>5. QED BY <1>2, <1>3, <1>4

\* Replacing the certificate ends what was reported (os.replace in install_certificate).
LEMMA ReplaceCertificateKeeps ==
    ASSUME TlsInv, ReplaceCertificate
    PROVE  TlsInv'
<1> USE TlsAssumption
        DEF TlsInv, TlsTypeOK, Files, Loadable, ReplaceCertificate, fileVars, nginxVars
<1>1. upload # NoUpload
  BY DEF NoUpload
<1>2. upload' = [upload EXCEPT !.at = "replacing"] /\ upload'.at = "replacing"
        /\ upload'.cert = upload.cert /\ upload'.key = upload.key
  OBVIOUS
<1>3. TlsTypeOK'
  BY <1>1, <1>2 DEF UploadInStep
<1>4. ReportedPairStays' /\ GeneratesForNobody'
  BY DEF ReportedPairStays, GeneratesForNobody
<1>5. UploadInStep'
  BY <1>1, <1>2 DEF UploadInStep
<1>6. QED BY <1>3, <1>4, <1>5

\* Replacing the key completes the pair.
LEMMA ReplaceKeyKeeps ==
    ASSUME TlsInv, ReplaceKey
    PROVE  TlsInv'
<1> USE TlsAssumption
        DEF TlsInv, TlsTypeOK, Files, Loadable, ReplaceKey, fileVars, nginxVars
<1>1. upload # NoUpload
  BY DEF NoUpload
<1>2. upload' = [upload EXCEPT !.at = "replaced"] /\ upload'.at = "replaced"
        /\ upload'.cert = upload.cert /\ upload'.key = upload.key
  OBVIOUS
<1>3. TlsTypeOK'
  BY <1>1, <1>2 DEF UploadInStep
<1>4. ReportedPairStays' /\ GeneratesForNobody'
  BY <1>1 DEF ReportedPairStays, GeneratesForNobody, UploadInStep
<1>5. UploadInStep'
  BY <1>1, <1>2 DEF UploadInStep
<1>6. QED BY <1>3, <1>4, <1>5

\* What is reported is what has been stored (reload_nginx and the redirect).
LEMMA ReloadNginxKeeps ==
    ASSUME TlsInv, ReloadNginx
    PROVE  TlsInv'
<1> USE TlsAssumption
        DEF TlsInv, TlsTypeOK, Files, Loadable, ReloadNginx, Signalled, fileVars, nginxVars
<1>1. upload # NoUpload
  BY DEF NoUpload
<1>2. /\ upload.cert \in Pairs /\ upload.key = upload.cert
      /\ cert = upload.cert /\ key = upload.key /\ container = "serving"
  BY <1>1 DEF UploadInStep
<1>3. TlsTypeOK'
  BY <1>2 DEF NoUpload
<1>4. ReportedPairStays' /\ GeneratesForNobody' /\ UploadInStep'
  BY <1>2 DEF ReportedPairStays, GeneratesForNobody, UploadInStep
<1>5. QED BY <1>3, <1>4

\* nginx only reads the files.
LEMMA ReloadsKeep ==
    ASSUME TlsInv, BeginReload \/ EndReload
    PROVE  TlsInv'
<1> USE TlsAssumption
        DEF TlsInv, TlsTypeOK, Files, Loadable, ReportedPairStays, GeneratesForNobody, UploadInStep,
            fileVars
<1>1. CASE BeginReload
  <2>1. hup' \in BOOLEAN /\ reading' = cert /\ torn' = torn
    BY <1>1 DEF BeginReload
  <2>2. UNCHANGED <<container, cert, key, upload, served, uploads, stops, reported>>
    BY <1>1 DEF BeginReload
  <2>3. TlsTypeOK'
    BY <2>1, <2>2
  <2>4. QED BY <2>1, <2>2, <2>3
<1>2. CASE EndReload
  <2>1. TlsTypeOK'
    BY <1>2 DEF EndReload
  <2>2. QED BY <1>2, <2>1 DEF EndReload
<1>3. QED BY <1>1, <1>2

\* A stop keeps the files as they are.
LEMMA TlsStopKeeps ==
    ASSUME TlsInv, TlsStop
    PROVE  TlsInv'
<1> USE TlsAssumption DEF TlsInv, TlsTypeOK, Files, Loadable, TlsStop, NoUpload, fileVars
<1>1. upload' = [at |-> "none", cert |-> Missing, key |-> Missing] /\ stops' = stops + 1
  OBVIOUS
<1>2. torn' \in BOOLEAN
  BY DEF TlsTypeOK
<1>3. stops' \in 0 .. MaxStops
  BY <1>1
<1>4. hup' \in BOOLEAN
  OBVIOUS
<1>5. UNCHANGED <<cert, key, uploads, reported>>
  OBVIOUS
<1>6. container' = "down" /\ reading' = Missing /\ served' = Missing
  OBVIOUS
<1>7. TlsTypeOK'
  BY <1>1, <1>2, <1>3, <1>4, <1>5, <1>6
<1>8. ReportedPairStays' /\ GeneratesForNobody' /\ UploadInStep'
  BY DEF ReportedPairStays, GeneratesForNobody, UploadInStep
<1>9. QED BY <1>8, <1>7

\* Every step of the entrypoint, of an upload and of nginx keeps it.
LEMMA TlsNextKeeps ==
    ASSUME TlsInv, TlsNext
    PROVE  TlsInv'
<1>1. QED BY StartsKeep, UploadKeeps, ReplaceCertificateKeeps, ReplaceKeyKeeps,
             ReloadNginxKeeps, ReloadsKeep DEF TlsNext

-----------------------------------------------------------------------------
(* The page *)

\* SettingsInv holds at first and in every step, of either part or of both at once.
THEOREM SettingsInvariance == SettingsSpec => []SettingsInv
<1>1. SettingsInit => SettingsInv
  <2> SUFFICES ASSUME SettingsInit PROVE SettingsInv
    OBVIOUS
  <2> USE NoRowAssumption, TlsAssumption DEF SettingsInit, SettingsInv
  <2>1. XoInv
    <3>1. connection = NoRow /\ readable = TRUE /\ tests = [t \in Testers |-> NoRow]
      BY DEF XoInit
    <3>2. XoTypeOK
      BY <3>1 DEF XoTypeOK
    <3>3. ResultsAreCurrent /\ TestsAreFresh
      BY <3>1 DEF ResultsAreCurrent, TestsAreFresh
    <3>4. QED BY <3>2, <3>3 DEF XoInv
  <2>2. TlsInv
    <3>1. uploads \in 0 .. MaxUploads /\ stops \in 0 .. MaxStops
      BY DEF TlsInit
    <3>2. hup \in BOOLEAN /\ torn \in BOOLEAN
      BY DEF TlsInit
    <3>3. upload \in [at : {"none", "written", "replacing", "replaced"}, cert : Files, key : Files]
      BY DEF TlsInit, NoUpload, Files
    <3>4. TlsTypeOK
      BY <3>1, <3>2, <3>3 DEF TlsInit, TlsTypeOK, Files, Loadable
    <3>5. ReportedPairStays /\ UploadInStep /\ GeneratesForNobody
      BY DEF TlsInit, ReportedPairStays, UploadInStep, GeneratesForNobody
    <3>6. QED BY <3>4, <3>5 DEF TlsInv
  <2>3. QED BY <2>1, <2>2 DEF XoInv, TlsInv, SettingsTypeOK
<1>2. SettingsInv /\ [SettingsNext]_settingsVars => SettingsInv'
  <2> SUFFICES ASSUME SettingsInv, [SettingsNext]_settingsVars PROVE SettingsInv'
    OBVIOUS
  <2>1. XoInv /\ TlsInv
    BY DEF SettingsInv, XoInv, TlsInv, SettingsTypeOK
  <2>2. ASSUME UNCHANGED xoVars PROVE XoInv'
    BY <2>1, <2>2 DEF xoVars, XoInv, XoTypeOK, ResultsAreCurrent, TestsAreFresh
  <2>3. ASSUME UNCHANGED tlsVars PROVE TlsInv'
    BY <2>1, <2>3 DEF tlsVars, fileVars, nginxVars, TlsInv, TlsTypeOK, ReportedPairStays, UploadInStep,
                      GeneratesForNobody
  <2>4. CASE HandleXo
    BY <2>1, <2>3, <2>4, XoNextKeeps DEF HandleXo, SettingsInv, XoInv, TlsInv, SettingsTypeOK
  <2>5. CASE HandleTls
    BY <2>1, <2>2, <2>5, TlsNextKeeps DEF HandleTls, SettingsInv, XoInv, TlsInv, SettingsTypeOK
  <2>6. CASE Stop
    BY <2>1, <2>6, XoStopKeeps, TlsStopKeeps DEF Stop, SettingsInv, XoInv, TlsInv, SettingsTypeOK
  <2>7. CASE UNCHANGED settingsVars
    BY <2>2, <2>3, <2>7 DEF settingsVars, SettingsInv, XoInv, TlsInv, SettingsTypeOK
  <2>8. QED BY <2>4, <2>5, <2>6, <2>7 DEF SettingsNext
<1>3. QED BY <1>1, <1>2, PTL DEF SettingsSpec

\* The types of the settings page.
THEOREM SettingsTypeCorrect == SettingsSpec => []SettingsTypeOK
<1>1. SettingsInv => SettingsTypeOK BY DEF SettingsInv
<1>2. QED BY <1>1, SettingsInvariance, PTL

\* A shown result is about the shown connection, or its test was overtaken by a save, for any
\* number of credentials and of tests at once.
THEOREM ResultsStayCurrent == SettingsSpec => []ResultsAreCurrent
<1>1. SettingsInv => ResultsAreCurrent BY DEF SettingsInv
<1>2. QED BY <1>1, SettingsInvariance, PTL

\* A reported pair stays stored until another upload replaces it, for any number of uploads
\* and stops.
THEOREM ReportedPairsStay == SettingsSpec => []ReportedPairStays
<1>1. SettingsInv => ReportedPairStays BY DEF SettingsInv
<1>2. QED BY <1>1, SettingsInvariance, PTL

-----------------------------------------------------------------------------
(* What nginx serves *)

\* Certificate and key are of one pair, but while they are written and after a stop in between.
FilesInStep ==
    /\ cert = Missing <=> key = Missing
    /\ container = "generating" => cert = Missing
    /\ container = "writing" => cert = Broken /\ key = OwnPair
    /\ container = "serving" => /\ cert \in Loadable /\ key \in Loadable
                                /\ upload.at # "replacing" => key = cert
    /\ container \in {"down", "starting"} /\ ~torn => key = cert /\ cert # Broken
    /\ container = "starting" => cert # Missing

\* Between uploads nginx serves what is stored, or has been told to, or is reading it.
ServedInStep ==
    /\ reading # Missing => container = "serving"
    /\ container = "serving" /\ upload = NoUpload /\ ~hup =>
          IF reading = Missing THEN served = cert ELSE reading = cert

LEMMA EntrypointServes ==
    ASSUME TlsInv, FilesInStep, ServedInStep,
           Start \/ GenerateKey \/ GenerateCertificate \/ StartNginx
    PROVE  FilesInStep' /\ ServedInStep'
<1> USE TlsAssumption DEF TlsInv, TlsTypeOK, FilesInStep, ServedInStep, Files, Loadable, fileVars,
                          nginxVars
<1>1. CASE Start
  BY <1>1 DEF Start, MustGenerate
<1>2. CASE GenerateKey
  BY <1>2 DEF GenerateKey
<1>3. CASE GenerateCertificate
  BY <1>3 DEF GenerateCertificate
<1>4. CASE StartNginx
  BY <1>4 DEF StartNginx
<1>5. QED BY <1>1, <1>2, <1>3, <1>4

LEMMA UploadServes ==
    ASSUME TlsInv, FilesInStep, ServedInStep,
           \/ \E c, k \in Pairs \cup {Broken} : Upload(c, k)
           \/ ReplaceCertificate \/ ReplaceKey \/ ReloadNginx
    PROVE  FilesInStep' /\ ServedInStep'
<1> USE TlsAssumption DEF TlsInv, TlsTypeOK, FilesInStep, ServedInStep, Files, Loadable, NoUpload,
                          UploadInStep, fileVars, nginxVars
<1>1. CASE \E c, k \in Pairs \cup {Broken} : Upload(c, k)
  <2>1. upload'.at = "written" /\ UNCHANGED <<container, cert, key, hup, reading, served, torn>>
    BY <1>1 DEF Upload
  <2>2. upload.at = "none"
    BY <1>1 DEF Upload
  <2>3. QED BY <2>1, <2>2
<1>2. CASE ReplaceCertificate
  <2>1. /\ upload'.at = "replacing" /\ cert' = upload.cert /\ upload.cert \in Pairs
        /\ container = "serving" /\ UNCHANGED <<container, key, hup, reading, served, torn>>
    BY <1>2 DEF ReplaceCertificate
  <2>2. QED BY <2>1
<1>3. CASE ReplaceKey
  <2>1. /\ upload'.at = "replaced" /\ key' = cert /\ cert \in Pairs
        /\ container = "serving" /\ UNCHANGED <<container, cert, hup, reading, served, torn>>
    BY <1>3 DEF ReplaceKey
  <2>2. QED BY <2>1
<1>4. CASE ReloadNginx
  <2>1. /\ upload.at = "replaced" /\ hup' = TRUE /\ container = "serving" /\ key = cert
        /\ UNCHANGED <<container, cert, key, reading, served, torn>>
    BY <1>4 DEF ReloadNginx, Signalled
  <2>2. QED BY <2>1
<1>5. QED BY <1>1, <1>2, <1>3, <1>4

LEMMA ReloadServes ==
    ASSUME TlsInv, FilesInStep, ServedInStep, BeginReload \/ EndReload
    PROVE  FilesInStep' /\ ServedInStep'
<1> USE TlsAssumption DEF TlsInv, TlsTypeOK, FilesInStep, ServedInStep, Files, Loadable, NoUpload,
                          fileVars
<1>1. CASE BeginReload
  BY <1>1 DEF BeginReload
<1>2. CASE EndReload
  BY <1>2 DEF EndReload
<1>3. QED BY <1>1, <1>2

LEMMA StopServes ==
    ASSUME TlsInv, FilesInStep, ServedInStep, TlsStop
    PROVE  FilesInStep' /\ ServedInStep'
<1>1. /\ container' = "down" /\ reading' = Missing /\ UNCHANGED <<cert, key>>
      /\ torn' = (torn \/ (cert # key /\ (upload.at = "replacing" \/ container = "writing")))
  BY DEF TlsStop, fileVars
<1>2. ServedInStep'
  BY <1>1 DEF ServedInStep
<1>3. ~torn' => key = cert /\ cert # Broken
  <2>1. container \in {"generating", "writing", "starting", "serving"}
    BY DEF TlsStop, TlsInv, TlsTypeOK
  <2>2. QED BY <1>1, <2>1, TlsAssumption DEF FilesInStep, Loadable
<1>4. QED BY <1>1, <1>2, <1>3 DEF FilesInStep

THEOREM ServedInvariance == SettingsSpec => [](FilesInStep /\ ServedInStep)
<1>1. SettingsInit => FilesInStep /\ ServedInStep
  BY TlsAssumption DEF SettingsInit, TlsInit, FilesInStep, ServedInStep, NoUpload
<1>2. SettingsInv /\ FilesInStep /\ ServedInStep /\ [SettingsNext]_settingsVars
        => FilesInStep' /\ ServedInStep'
  <2> SUFFICES ASSUME SettingsInv, FilesInStep, ServedInStep, [SettingsNext]_settingsVars
               PROVE  FilesInStep' /\ ServedInStep'
    OBVIOUS
  <2>1. TlsInv
    BY DEF SettingsInv, TlsInv, SettingsTypeOK
  <2>2. CASE UNCHANGED tlsVars
    BY <2>2 DEF tlsVars, fileVars, nginxVars, FilesInStep, ServedInStep
  <2>3. CASE TlsNext
    BY <2>1, <2>3, EntrypointServes, UploadServes, ReloadServes DEF TlsNext
  <2>4. CASE TlsStop
    BY <2>1, <2>4, StopServes
  <2>5. QED BY <2>2, <2>3, <2>4 DEF SettingsNext, HandleXo, HandleTls, Stop, settingsVars
<1>3. QED BY <1>1, <1>2, SettingsInvariance, PTL DEF SettingsSpec

\* nginx comes up with every start, unless a stop left a certificate without its key: whenever
\* the entrypoint is done, what is stored is a pair it can load.  (entrypoint.sh.)
THEOREM StartsUnlessTorn ==
    SettingsSpec => [](container = "starting" /\ ~torn => cert \in Loadable /\ key = cert)
<1>1. SettingsInv /\ FilesInStep => (container = "starting" /\ ~torn => cert \in Loadable /\ key = cert)
  BY DEF SettingsInv, SettingsTypeOK, TlsTypeOK, FilesInStep, Files
<1>2. QED BY <1>1, SettingsInvariance, ServedInvariance, PTL

\* When no upload is under way, no signal is pending and no reload is reading, nginx serves the
\* pair that is stored, whatever its reloads read halves of before: the safety half of
\* ServesWhatIsStored.  (install_certificate and reload_nginx, in that order.)
THEOREM NothingStaleAtRest ==
    SettingsSpec =>
        [](container = "serving" /\ upload = NoUpload /\ ~hup /\ reading = Missing
              => served = cert /\ key = cert)
<1>1. FilesInStep /\ ServedInStep =>
        (container = "serving" /\ upload = NoUpload /\ ~hup /\ reading = Missing
            => served = cert /\ key = cert)
  BY DEF FilesInStep, ServedInStep, NoUpload
<1>2. QED BY <1>1, ServedInvariance, PTL

-----------------------------------------------------------------------------
(* Induction *)

\* Induction up to n, over the set of the numbers that have a property.
LEMMA UpTo ==
    ASSUME NEW n \in Nat, NEW T, 0 \in T, \A m \in 0..(n - 1) : m \in T => m + 1 \in T
    PROVE  0..n \subseteq T
<1> DEFINE U == (0..n) \ T
           Before == OpToRel(<, Nat)
<1> SUFFICES ASSUME U # {} PROVE FALSE
  OBVIOUS
<1>1. U \subseteq Nat
  OBVIOUS
<1>2. IsWellFoundedOn(Before, Nat)
  BY NatLessThanWellFounded, Zenon
<1>3. \A m, k \in Nat : m < k => <<m, k>> \in Before
  BY DEF OpToRel
<1> HIDE DEF Before
<1>4. PICK m \in U : \A k \in U : ~(<<k, m>> \in Before)
  <2> HIDE DEF U
  <2>1. QED BY ONLY <1>1, <1>2, U # {}, WFMin, Zenon
<1>5. m \in Nat /\ m # 0 /\ m - 1 \in Nat /\ m - 1 \in 0..(n - 1)
  OBVIOUS
<1>6. m - 1 \notin U
  <2>1. m - 1 < m
    BY <1>5
  <2>2. <<m - 1, m>> \in Before
    BY <1>3, <1>5, <2>1
  <2> HIDE DEF U
  <2>3. QED BY ONLY <1>4, <2>2
<1>7. m - 1 \in T /\ (m - 1) + 1 = m
  BY <1>5, <1>6
<1>8. m \in T
  BY <1>5, <1>7
<1>9. QED BY <1>8

\* Each value of f but its first is a step from the one before.
StepsFrom(f, base, step, n) == f[0] = base /\ \A k \in 1..n : f[k] = step[<<k, f[k - 1]>>]

\* Such a function exists, whatever the step.
LEMMA Stepwise ==
    ASSUME NEW n \in Nat, NEW S, NEW base \in S, NEW step \in [(1..n) \X S -> S]
    PROVE  \E f \in [0..n -> S] : StepsFrom(f, base, step, n)
<1> DEFINE Starts(f, m) == f \in [0..m -> S] /\ StepsFrom(f, base, step, m)
           T == {m \in 0..n : \E f : Starts(f, m)}
<1>1. 0 \in T
  <2> DEFINE g == [k \in 0..0 |-> base]
  <2>1. g \in [0..0 -> S] /\ g[0] = base /\ 1..0 = {}
    OBVIOUS
  <2>2. Starts(g, 0)
    BY <2>1 DEF StepsFrom
  <2> HIDE DEF Starts
  <2>3. QED BY <2>2
<1>2. ASSUME NEW m \in 0..(n - 1), m \in T PROVE m + 1 \in T
  <2>1. PICK f : Starts(f, m)
    BY <1>2
  <2> DEFINE e == step[<<m + 1, f[m]>>]
             g == [k \in 0..(m + 1) |-> IF k = m + 1 THEN e ELSE f[k]]
  <2>2. e \in S
    BY <2>1
  <2>3. /\ g[m + 1] = e /\ \A k \in 0..m : g[k] = f[k]
        /\ g \in [0..(m + 1) -> S]
    <3> HIDE DEF e
    <3>1. QED BY <2>1, <2>2
  <2>4. ASSUME NEW k \in 1..(m + 1) PROVE g[k] = step[<<k, g[k - 1]>>]
    <3> HIDE DEF g
    <3>1. k - 1 \in 0..m /\ g[k - 1] = f[k - 1]
      BY <2>3
    <3>2. CASE k = m + 1
      BY <2>3, <3>1, <3>2
    <3>3. CASE k # m + 1
      <4>1. k \in 1..m /\ k \in 0..m /\ g[k] = f[k]
        BY <2>3, <3>3
      <4>2. QED BY <2>1, <3>1, <4>1 DEF StepsFrom
    <3>4. QED BY <3>2, <3>3
  <2>5. Starts(g, m + 1)
    <3> HIDE DEF g
    <3>1. g[0] = base
      BY <2>1, <2>3 DEF StepsFrom
    <3>2. QED BY <2>3, <2>4, <3>1 DEF StepsFrom
  <2>6. m + 1 \in 0..n
    OBVIOUS
  <2> HIDE DEF Starts
  <2>7. QED BY <2>5, <2>6
<1>3. n \in T
  <2> HIDE DEF T
  <2>1. 0..n \subseteq T
    BY <1>1, <1>2, UpTo
  <2>2. QED BY <2>1
<1>4. QED BY <1>3

-----------------------------------------------------------------------------
(* The rows of a report *)

\* A log has records.
LEMMA LogRecords ==
    ASSUME TypeOK
    PROVE  /\ Len(log) \in Nat /\ DOMAIN log = 1..Len(log)
           /\ \A i \in 1..Len(log) :
                /\ log[i].source \in Events \cup Runs /\ log[i].name \in Names
                /\ log[i].failed \in BOOLEAN
                /\ log[i].start \in Nat /\ log[i].end \in Nat /\ log[i].start <= log[i].end
<1> DEFINE R == [source : Events \cup Runs, name : Names, failed : BOOLEAN, start : Nat, end : Nat]
<1>1. log \in Seq(R)
  BY DEF TypeOK
<1>2. Len(log) \in Nat /\ DOMAIN log = 1..Len(log) /\ \A i \in 1..Len(log) : log[i] \in R
  <2> HIDE DEF R
  <2>1. QED BY <1>1, LenProperties
<1>3. QED BY <1>2 DEF TypeOK, Possible

\* What a grouping may have come to.
Rows == UNION {[D -> [at : Nat, count : Nat]] : D \in SUBSET Names}

\* Counting a record changes the row of its name.
LEMMA CountedRow ==
    ASSUME NEW g \in Rows, NEW r, r.name \in Names, r.end \in Nat
    PROVE  /\ Counted(g, r) \in Rows
           /\ DOMAIN Counted(g, r) = DOMAIN g \cup {r.name}
           /\ \A x \in DOMAIN g : x # r.name => Counted(g, r)[x] = g[x]
           /\ r.name \in DOMAIN g =>
                /\ Counted(g, r)[r.name].count = g[r.name].count + 1
                /\ Counted(g, r)[r.name].at =
                        IF g[r.name].at >= r.end THEN g[r.name].at ELSE r.end
           /\ r.name \notin DOMAIN g =>
                Counted(g, r)[r.name].count = 1 /\ Counted(g, r)[r.name].at = r.end
<1> DEFINE x == r.name
<1>1. PICK D \in SUBSET Names : g \in [D -> [at : Nat, count : Nat]]
  BY DEF Rows
<1>2. PICK v \in [at : Nat, count : Nat] :
        /\ Counted(g, r) = With(g, x, v)
        /\ x \notin D => v.at = r.end /\ v.count = 1
        /\ x \in D => /\ v.at = IF g[x].at >= r.end THEN g[x].at ELSE r.end
                     /\ v.count = g[x].count + 1
  <2>1. CASE x \notin D
    BY <1>1, <2>1 DEF Counted
  <2>2. CASE x \in D
    <3>1. g[x].at \in Nat /\ g[x].count \in Nat
      BY <1>1, <2>2
    <3>2. QED BY <1>1, <2>2, <3>1 DEF Counted
  <2>3. QED BY <2>1, <2>2
<1>3. With(g, x, v) \in [D \cup {x} -> [at : Nat, count : Nat]] /\ D \cup {x} \in SUBSET Names
  BY <1>1, <1>2 DEF With
<1>4. With(g, x, v) \in Rows
  BY ONLY <1>3 DEF Rows
<1>5. /\ DOMAIN With(g, x, v) = D \cup {x} /\ With(g, x, v)[x] = v
      /\ \A y \in D : y # x => With(g, x, v)[y] = g[y]
  BY <1>1 DEF With
<1>6. QED BY <1>1, <1>2, <1>4, <1>5

\* The rows g are what the records of due come to.
RowsAre(g, due) ==
    /\ g \in Rows
    /\ DOMAIN g = {log[i].name : i \in due}
    /\ \A x \in DOMAIN g :
        /\ g[x].count = Cardinality({i \in due : log[i].name = x})
        /\ \E i \in due : log[i].name = x /\ log[i].end = g[x].at
        /\ \A i \in due : log[i].name = x => log[i].end <= g[x].at

LEMMA NoRows == RowsAre(<<>>, {})
<1>1. DOMAIN <<>> = {} /\ <<>> \in [{} -> [at : Nat, count : Nat]]
  OBVIOUS
<1>2. QED BY <1>1 DEF RowsAre, Rows

\* A record adds what Counted counts.
LEMMA RowsAdd ==
    ASSUME TypeOK, NEW due \in SUBSET (1..Len(log)), NEW i \in 1..Len(log), i \notin due,
           NEW g, RowsAre(g, due)
    PROVE  RowsAre(Counted(g, log[i]), due \cup {i})
<1> DEFINE h == Counted(g, log[i])
           more == due \cup {i}
           x == log[i].name
           Own(d, n) == {k \in d : log[k].name = n}
<1>1. /\ Len(log) \in Nat /\ x \in Names /\ log[i].end \in Nat
      /\ \A k \in 1..Len(log) : log[k].end \in Nat
  BY LogRecords
<1>2. g \in Rows
  BY DEF RowsAre
<1>3. /\ h \in Rows /\ DOMAIN h = DOMAIN g \cup {x}
      /\ \A y \in DOMAIN g : y # x => h[y] = g[y]
      /\ x \in DOMAIN g => /\ h[x].count = g[x].count + 1
                           /\ h[x].at = IF g[x].at >= log[i].end THEN g[x].at ELSE log[i].end
      /\ x \notin DOMAIN g => h[x].count = 1 /\ h[x].at = log[i].end
  BY <1>1, <1>2, CountedRow
<1>4. /\ DOMAIN g = {log[k].name : k \in due}
      /\ \A y \in DOMAIN g :
            /\ g[y].count = Cardinality(Own(due, y))
            /\ \E k \in due : log[k].name = y /\ log[k].end = g[y].at
            /\ \A k \in due : log[k].name = y => log[k].end <= g[y].at
  BY DEF RowsAre
<1> HIDE DEF h
<1>5. DOMAIN h = {log[k].name : k \in more}
  BY <1>3, <1>4
<1>6. ASSUME NEW y \in DOMAIN h, y # x
      PROVE  /\ h[y].count = Cardinality(Own(more, y))
             /\ \E k \in more : log[k].name = y /\ log[k].end = h[y].at
             /\ \A k \in more : log[k].name = y => log[k].end <= h[y].at
  <2>1. y \in DOMAIN g /\ h[y] = g[y]
    BY <1>3, <1>6
  <2>2. Own(more, y) = Own(due, y)
    BY <1>6
  <2>3. QED BY <1>4, <1>6, <2>1, <2>2
<1>7. /\ IsFiniteSet(Own(due, x)) /\ Own(more, x) = Own(due, x) \cup {i}
      /\ i \notin Own(due, x)
  <2>1. Own(due, x) \in SUBSET (1..Len(log))
    OBVIOUS
  <2> HIDE DEF Own
  <2>2. IsFiniteSet(1..Len(log))
    BY ONLY <1>1, FS_Interval
  <2>3. IsFiniteSet(Own(due, x))
    BY ONLY <2>1, <2>2, FS_Subset
  <2>4. QED BY <2>3 DEF Own
<1>8. Cardinality(Own(more, x)) = Cardinality(Own(due, x)) + 1
  <2> HIDE DEF Own
  <2>1. QED BY ONLY <1>7, FS_AddElement
<1>9. /\ h[x].count = Cardinality(Own(more, x))
      /\ \E k \in more : log[k].name = x /\ log[k].end = h[x].at
      /\ \A k \in more : log[k].name = x => log[k].end <= h[x].at
  <2>1. CASE x \in DOMAIN g
    <3>1. h[x].count = g[x].count + 1 /\ g[x].count = Cardinality(Own(due, x))
      BY <1>3, <1>4, <2>1
    <3>2. h[x].count = Cardinality(Own(more, x))
      BY ONLY <1>8, <3>1
    <3>3. PICK k \in due : log[k].name = x /\ log[k].end = g[x].at
      BY <1>4, <2>1
    <3>4. g[x].at \in Nat /\ h[x].at = IF g[x].at >= log[i].end THEN g[x].at ELSE log[i].end
      BY <1>1, <1>3, <2>1, <3>3
    <3>5. \E j \in more : log[j].name = x /\ log[j].end = h[x].at
      BY <3>3, <3>4
    <3>6. \A j \in due : log[j].name = x => log[j].end <= g[x].at
      BY <1>4, <2>1
    <3>7. \A j \in more : log[j].name = x => log[j].end <= h[x].at
      BY <1>1, <3>4, <3>6
    <3>8. QED BY <3>2, <3>5, <3>7
  <2>2. CASE x \notin DOMAIN g
    <3>1. Own(due, x) = {}
      BY <1>4, <2>2
    <3>2. Cardinality(Own(due, x)) = 0
      BY <3>1, FS_EmptySet
    <3>3. h[x].count = 1 /\ h[x].at = log[i].end
      BY <1>3, <2>2
    <3>4. h[x].count = Cardinality(Own(more, x))
      BY ONLY <1>8, <3>2, <3>3
    <3>5. \A k \in more : log[k].name = x => k = i
      BY <3>1
    <3>6. QED BY <1>1, <3>3, <3>4, <3>5
  <2>3. QED BY <2>1, <2>2
<1>10. \A y \in DOMAIN h :
            /\ h[y].count = Cardinality(Own(more, y))
            /\ \E k \in more : log[k].name = y /\ log[k].end = h[y].at
            /\ \A k \in more : log[k].name = y => log[k].end <= h[y].at
  BY <1>6, <1>9
<1>11. QED BY <1>3, <1>5, <1>10 DEF RowsAre, h

\* What a function gives for a finite set is finite.
LEMMA FiniteImage ==
    ASSUME NEW S, IsFiniteSet(S), NEW f
    PROVE  IsFiniteSet({f[x] : x \in S})
<1> DEFINE U == {f[x] : x \in S}
           h == [x \in S |-> f[x]]
<1>1. h \in Surjection(S, U)
  BY DEF Surjection
<1> HIDE DEF h
<1>2. IsFiniteSet(U)
  BY ONLY <1>1, IsFiniteSet(S), FS_Surjection
<1>3. QED BY <1>2

\* Rows are findings, and finitely many.
LEMMA RowsType ==
    ASSUME TypeOK, NEW due \in SUBSET (1..Len(log)), NEW g, RowsAre(g, due)
    PROVE  LET found == {[name |-> n, at |-> g[n].at, count |-> g[n].count] : n \in DOMAIN g}
           IN found \in SUBSET Finding /\ IsFiniteSet(found)
<1> DEFINE found == {[name |-> n, at |-> g[n].at, count |-> g[n].count] : n \in DOMAIN g}
           row == [n \in DOMAIN g |-> [name |-> n, at |-> g[n].at, count |-> g[n].count]]
           name == [i \in 1..Len(log) |-> log[i].name]
<1>1. PICK D \in SUBSET Names : g \in [D -> [at : Nat, count : Nat]]
  BY DEF RowsAre, Rows
<1>2. found \in SUBSET Finding
  BY <1>1, FindingsAssumption DEF Finding
<1>3. IsFiniteSet(due)
  <2>1. Len(log) \in Nat
    BY LogRecords
  <2>2. IsFiniteSet(1..Len(log))
    BY ONLY <2>1, FS_Interval
  <2>3. QED BY ONLY <2>2, due \in SUBSET (1..Len(log)), FS_Subset
<1>4. IsFiniteSet(DOMAIN g)
  <2>1. DOMAIN g = {name[i] : i \in due}
    BY DEF RowsAre
  <2> HIDE DEF name
  <2>2. IsFiniteSet({name[i] : i \in due})
    BY ONLY <1>3, FiniteImage
  <2>3. QED BY ONLY <2>1, <2>2
<1>5. found = {row[n] : n \in DOMAIN g}
  OBVIOUS
<1>6. IsFiniteSet(found)
  <2> HIDE DEF row, found
  <2>1. QED BY <1>4, <1>5, FiniteImage
<1>7. QED BY <1>2, <1>6

\* Rows that are what some records come to are their summary.
LEMMA RowsSummary ==
    ASSUME TypeOK, NEW due \in SUBSET (1..Len(log)), NEW g, RowsAre(g, due)
    PROVE  {[name |-> n, at |-> g[n].at, count |-> g[n].count] : n \in DOMAIN g} = Summary(due)
<1> DEFINE Own(n) == {i \in due : log[i].name = n}
<1>1. \A k \in 1..Len(log) : log[k].end \in Nat
  BY LogRecords
<1>2. ASSUME NEW n \in DOMAIN g PROVE g[n].at = Max({log[k].end : k \in Own(n)})
  <2>1. PICK i \in Own(n) : log[i].end = g[n].at
    BY DEF RowsAre
  <2>2. \A k \in Own(n) : log[k].end <= g[n].at
    BY DEF RowsAre
  <2>3. g[n].at \in {log[k].end : k \in Own(n)}
    BY <2>1
  <2>4. \A t \in {log[k].end : k \in Own(n)} : (\A k \in Own(n) : log[k].end <= t) => t = g[n].at
    BY <1>1, <2>1, <2>2
  <2> HIDE DEF Own
  <2>5. QED BY <2>2, <2>3, <2>4 DEF Max
<1>3. \A n \in DOMAIN g : g[n].count = Cardinality(Own(n))
  BY DEF RowsAre
<1>4. DOMAIN g = {log[i].name : i \in due}
  BY DEF RowsAre
<1>5. Summary(due) = {[name |-> n, at |-> Max({log[i].end : i \in Own(n)}), count |-> Cardinality(Own(n))]
                        : n \in DOMAIN g}
  BY <1>4 DEF Summary
<1> HIDE DEF Own
<1>6. QED BY ONLY <1>2, <1>3, <1>5

\* The places of a log in either order.
Place(newestFirst) ==
    [n \in DOMAIN log |-> IF newestFirst THEN Len(log) + 1 - n ELSE n]

\* The places of the first n.
SeenAt(newestFirst, n) == {Place(newestFirst)[k] : k \in 1..n}

\* One place is seen after the other, and all of them in the end.
LEMMA SeenGrows ==
    ASSUME TypeOK, NEW f \in BOOLEAN, NEW n \in 1..Len(log)
    PROVE  /\ Place(f)[n] \in 1..Len(log) /\ Place(f)[n] \notin SeenAt(f, n - 1)
           /\ SeenAt(f, n) = SeenAt(f, n - 1) \cup {Place(f)[n]}
<1>1. Len(log) \in Nat /\ DOMAIN log = 1..Len(log)
  BY LogRecords
<1>2. \A k \in 1..Len(log) : Place(f)[k] = IF f THEN Len(log) + 1 - k ELSE k
  BY <1>1 DEF Place
<1>3. n \in Nat /\ 1..n \subseteq 1..Len(log)
      /\ (\A k \in 1..n : k \in 1..(n - 1) \/ k = n) /\ n \notin 1..(n - 1)
      /\ 1..(n - 1) \subseteq 1..n /\ n \in 1..n
  BY <1>1
<1>4. \A j, k \in 1..Len(log) : Place(f)[j] = Place(f)[k] => j = k
  BY <1>1, <1>2
<1>5. Place(f)[n] \in 1..Len(log)
  BY <1>1, <1>2
<1>6. Place(f)[n] \notin SeenAt(f, n - 1)
  BY <1>3, <1>4 DEF SeenAt
<1>7. SeenAt(f, n) = SeenAt(f, n - 1) \cup {Place(f)[n]}
  BY ONLY <1>3 DEF SeenAt
<1>8. QED BY <1>5, <1>6, <1>7

LEMMA SeenAll ==
    ASSUME TypeOK, NEW f \in BOOLEAN
    PROVE  SeenAt(f, 0) = {} /\ SeenAt(f, Len(log)) = 1..Len(log)
<1>1. Len(log) \in Nat /\ DOMAIN log = 1..Len(log)
  BY LogRecords
<1>2. \A k \in 1..Len(log) : Place(f)[k] = IF f THEN Len(log) + 1 - k ELSE k
  BY <1>1 DEF Place
<1>3. ASSUME NEW i \in 1..Len(log) PROVE \E k \in 1..Len(log) : Place(f)[k] = i
  <2>1. (IF f THEN Len(log) + 1 - i ELSE i) \in 1..Len(log)
        /\ Place(f)[IF f THEN Len(log) + 1 - i ELSE i] = i
    BY <1>1, <1>2
  <2>2. QED BY <2>1
<1>4. \A k \in 1..Len(log) : Place(f)[k] \in 1..Len(log)
  BY <1>1, <1>2
<1>5. 1..0 = {}
  OBVIOUS
<1>6. QED BY ONLY <1>3, <1>4, <1>5 DEF SeenAt

\* A grouping is the summary of the records it keeps, in either order.
LEMMA GroupedIsSummary ==
    ASSUME TypeOK, NEW fetched \in SUBSET (1..Len(log)), NEW range, NEW f \in BOOLEAN
    PROVE  /\ Grouped(fetched, range, f)
                = Summary({i \in fetched : Reportable(log[i]) /\ Inside(log[i], range)})
           /\ Grouped(fetched, range, f) \in SUBSET Finding
           /\ IsFiniteSet(Grouped(fetched, range, f))
<1> DEFINE kept == {i \in fetched : Reportable(log[i]) /\ Inside(log[i], range)}
           place == [k \in DOMAIN log |-> IF f THEN Len(log) + 1 - k ELSE k]
           n == Len(log)
           step == [p \in (1..n) \X Rows |->
                      IF place[p[1]] \in kept THEN Counted(p[2], log[place[p[1]]]) ELSE p[2]]
           groups[k \in 0..Len(log)] ==
              IF k = 0 THEN <<>>
              ELSE IF place[k] \in kept THEN Counted(groups[k - 1], log[place[k]])
              ELSE groups[k - 1]
           T == {m \in 0..n : RowsAre(groups[m], kept \cap SeenAt(f, m))}
<1>1. /\ n \in Nat /\ DOMAIN log = 1..n /\ kept \in SUBSET (1..n)
      /\ \A i \in 1..n : log[i].name \in Names /\ log[i].end \in Nat
  BY LogRecords
<1>2. step \in [(1..n) \X Rows -> Rows] /\ <<>> \in Rows
  <2>1. <<>> \in Rows
    BY NoRows DEF RowsAre
  <2>2. \A i \in kept, g \in Rows : Counted(g, log[i]) \in Rows
    BY <1>1, CountedRow
  <2> HIDE DEF kept, place, n
  <2>3. QED BY ONLY <2>1, <2>2
<1> HIDE DEF kept
<1>3. PICK h \in [0..n -> Rows] : StepsFrom(h, <<>>, step, n)
  <2> HIDE DEF step, n
  <2>1. \E h \in [0..n -> Rows] : StepsFrom(h, <<>>, step, n)
    BY ONLY <1>1, <1>2, Stepwise, Zenon
  <2>2. QED BY <2>1
<1>4. h = [k \in 0..n |-> IF k = 0 THEN <<>> ELSE
             IF place[k] \in kept THEN Counted(h[k - 1], log[place[k]]) ELSE h[k - 1]]
  <2>1. \A k \in 1..n, s \in Rows : step[<<k, s>>] =
            IF place[k] \in kept THEN Counted(s, log[place[k]]) ELSE s
    <3> HIDE DEF place, n
    <3>1. QED BY ONLY TRUE DEF step
  <2> HIDE DEF step, n, place
  <2>2. \A k \in 0..n : k # 0 => k \in 1..n /\ h[k - 1] \in Rows
    BY ONLY <1>1, h \in [0..n -> Rows]
  <2>3. \A k \in 0..n : h[k] = IF k = 0 THEN <<>> ELSE
            IF place[k] \in kept THEN Counted(h[k - 1], log[place[k]]) ELSE h[k - 1]
    <3>1. h[0] = <<>> /\ \A k \in 1..n : h[k] = step[<<k, h[k - 1]>>]
      BY <1>3, Zenon DEF StepsFrom
    <3>2. QED BY ONLY <2>1, <2>2, <3>1
  <2>4. QED BY ONLY <2>3, h \in [0..n -> Rows]
<1>5. groups = [k \in 0..n |-> IF k = 0 THEN <<>> ELSE
             IF place[k] \in kept THEN Counted(groups[k - 1], log[place[k]]) ELSE groups[k - 1]]
  BY ONLY <1>4, Zenon
<1>6. Grouped(fetched, range, f)
        = {[name |-> x, at |-> groups[n][x].at, count |-> groups[n][x].count] : x \in DOMAIN groups[n]}
  BY DEF Grouped, kept
<1>7. \A k \in 1..n : place[k] = Place(f)[k]
  BY DEF Place
<1> HIDE DEF groups, n, place
<1>8. /\ groups[0] = <<>>
      /\ \A k \in 1..n : groups[k] = IF place[k] \in kept
                                     THEN Counted(groups[k - 1], log[place[k]]) ELSE groups[k - 1]
  <2>1. 0 \in 0..n /\ \A k \in 1..n : k \in 0..n /\ k # 0
    BY ONLY <1>1
  <2>2. \A k \in 0..n : groups[k] = IF k = 0 THEN <<>> ELSE
             IF place[k] \in kept THEN Counted(groups[k - 1], log[place[k]]) ELSE groups[k - 1]
    BY ONLY <1>5, Zenon
  <2>3. QED BY ONLY <2>1, <2>2
<1>9. 0 \in T
  <2>1. kept \cap SeenAt(f, 0) = {}
    BY SeenAll
  <2>2. RowsAre(groups[0], kept \cap SeenAt(f, 0))
    BY <1>8, <2>1, NoRows
  <2>3. QED BY <1>1, <2>2
<1>10. ASSUME NEW m \in 0..(n - 1), m \in T PROVE m + 1 \in T
  <2> DEFINE i == place[m + 1]
  <2>1. m + 1 \in 1..n /\ m + 1 \in 0..n /\ (m + 1) - 1 = m
    BY <1>1
  <2>2. groups[m + 1] = IF i \in kept THEN Counted(groups[m], log[i]) ELSE groups[m]
    BY ONLY <1>8, <2>1
  <2>3. i \in 1..n /\ i \notin SeenAt(f, m) /\ SeenAt(f, m + 1) = SeenAt(f, m) \cup {i}
    BY <1>7, <2>1, SeenGrows DEF n
  <2>4. RowsAre(groups[m], kept \cap SeenAt(f, m))
    BY <1>10
  <2> HIDE DEF i
  <2>5. CASE i \in kept
    <3>1. /\ kept \cap SeenAt(f, m + 1) = (kept \cap SeenAt(f, m)) \cup {i}
          /\ i \notin kept \cap SeenAt(f, m) /\ kept \cap SeenAt(f, m) \in SUBSET (1..n)
      BY <1>1, <2>3, <2>5
    <3>2. RowsAre(Counted(groups[m], log[i]), (kept \cap SeenAt(f, m)) \cup {i})
      BY <2>3, <2>4, <3>1, RowsAdd DEF n
    <3>3. QED BY <2>1, <2>2, <2>5, <3>1, <3>2
  <2>6. CASE i \notin kept
    <3>1. kept \cap SeenAt(f, m + 1) = kept \cap SeenAt(f, m)
      BY <2>3, <2>6
    <3>2. QED BY <2>1, <2>2, <2>4, <2>6, <3>1
  <2>7. QED BY <2>5, <2>6
<1>11. RowsAre(groups[n], kept)
  <2>1. n \in T
    <3> HIDE DEF T
    <3>1. 0..n \subseteq T
      BY ONLY <1>1, <1>9, <1>10, UpTo
    <3>2. QED BY ONLY <1>1, <3>1
  <2>2. kept \cap SeenAt(f, n) = kept
    BY <1>1, SeenAll DEF n
  <2>3. QED BY <2>1, <2>2
<1>12. kept \in SUBSET (1..Len(log))
  BY <1>1 DEF n
<1>13. Grouped(fetched, range, f) = Summary(kept)
  BY <1>6, <1>11, <1>12, RowsSummary
<1>14. Grouped(fetched, range, f) \in SUBSET Finding /\ IsFiniteSet(Grouped(fetched, range, f))
  BY <1>6, <1>11, <1>12, RowsType
<1>15. QED BY <1>13, <1>14 DEF kept

\* Of some places of a row of numbers, one has a largest.
LEMMA LargestIsThere ==
    ASSUME NEW n \in Nat, NEW v, \A k \in 1..n : v[k] \in Int, NEW S \in SUBSET (1..n), S # {}
    PROVE  \E j \in S : \A k \in S : v[k] <= v[j]
<1> DEFINE Upper(m) == S \cap (1..m)
           T == {m \in 0..n : Upper(m) # {} => \E j \in Upper(m) : \A k \in Upper(m) : v[k] <= v[j]}
<1>1. 0 \in T
  OBVIOUS
<1>2. ASSUME NEW m \in 0..(n - 1), m \in T PROVE m + 1 \in T
  <2>1. /\ m + 1 \in 0..n /\ m + 1 \in 1..n
        /\ Upper(m + 1) = Upper(m) \cup (S \cap {m + 1})
    OBVIOUS
  <2>2. \A k \in S : v[k] \in Int
    OBVIOUS
  <2>3. CASE m + 1 \notin S
    <3>1. Upper(m + 1) = Upper(m)
      BY <2>1, <2>3
    <3>2. QED BY <1>2, <2>1, <3>1
  <2>4. CASE m + 1 \in S /\ Upper(m) = {}
    <3>1. Upper(m + 1) = {m + 1}
      BY <2>1, <2>4
    <3>2. v[m + 1] <= v[m + 1]
      BY <2>2, <2>4
    <3>3. QED BY <2>1, <3>1, <3>2
  <2>5. CASE m + 1 \in S /\ Upper(m) # {}
    <3>1. PICK j \in Upper(m) : \A k \in Upper(m) : v[k] <= v[j]
      BY <1>2, <2>5
    <3>2. Upper(m + 1) = Upper(m) \cup {m + 1} /\ j \in S /\ \A k \in Upper(m) : k \in S
      BY <2>1, <2>5
    <3> HIDE DEF Upper
    <3>3. CASE v[m + 1] <= v[j]
      BY <2>1, <3>1, <3>2, <3>3
    <3>4. CASE ~(v[m + 1] <= v[j])
      <4>1. \A k \in Upper(m + 1) : v[k] <= v[m + 1]
        BY <2>2, <2>5, <3>1, <3>2, <3>4
      <4>2. QED BY <2>1, <3>2, <4>1
    <3>5. QED BY <3>3, <3>4
  <2>6. QED BY <2>3, <2>4, <2>5
<1>3. n \in T
  <2> HIDE DEF T
  <2>1. 0..n \subseteq T
    BY ONLY <1>1, <1>2, n \in Nat, UpTo
  <2>2. QED BY <2>1
<1>4. Upper(n) = S
  OBVIOUS
<1>5. QED BY <1>3, <1>4

-----------------------------------------------------------------------------
(* What a source has to say *)

\* An administrator's read of a source with records is the summary of those due.
LEMMA DueIsFound ==
    ASSUME TypeOK, access = "admin", NEW source \in Events \cup Runs, NEW range \in DateRange,
           NEW moment, NEW f \in BOOLEAN
    PROVE  EventSource(source, range, moment, f).findings = Summary(Due(source, Len(log), range))
<1> DEFINE fetched == Fetched(source, range.start)
           kept == {i \in fetched : Reportable(log[i]) /\ Inside(log[i], range)}
<1>1. /\ Len(log) \in Nat /\ DOMAIN log = 1..Len(log)
      /\ \A i \in 1..Len(log) :
            log[i].start \in Nat /\ log[i].end \in Nat /\ log[i].start <= log[i].end
  BY LogRecords
<1>2. fetched = {i \in 1..Len(log) : log[i].source = source /\ log[i].start > range.start}
  BY <1>1 DEF Fetched
<1>3. range.start \in Int
  BY DEF DateRange
<1>4. kept = Due(source, Len(log), range)
  <2> HIDE DEF fetched
  <2>1. \A i \in 1..Len(log) : log[i].start > range.start => log[i].end >= range.start
    BY <1>1, <1>3
  <2>2. QED BY <1>2, <2>1 DEF Due, Inside
<1>5. Grouped(fetched, range, f) = Summary(kept)
  <2>1. fetched \in SUBSET (1..Len(log))
    BY <1>2
  <2> HIDE DEF fetched
  <2>2. QED BY <2>1, GroupedIsSummary
<1>6. EventSource(source, range, moment, f).findings = Grouped(fetched, range, f)
  BY DEF EventSource, ReadsAsCollection, Read
<1>7. QED BY <1>4, <1>5, <1>6

\* It names every backup job whose last run is too long ago.
LEMMA OverdueIsFound ==
    ASSUME TypeOK, access = "admin", NEW range \in DateRange, NEW moment \in Nat, NEW f \in BOOLEAN
    PROVE  {s.name : s \in EventSource("backups", range, moment, f).stale}
             = Overdue(Len(log), range, moment)
<1> DEFINE fetched == Fetched("backups", range.start)
           runs == {i \in 1..Len(log) : log[i].source = "backups"}
           Same(n) == {k \in fetched : log[k].name = n}
           latest == {j \in fetched : /\ log[j].start < moment - Stale
                                      /\ \A k \in fetched : log[k].name = log[j].name
                                            => log[k].start <= log[j].start}
<1>1. /\ Len(log) \in Nat /\ DOMAIN log = 1..Len(log)
      /\ \A i \in 1..Len(log) : log[i].start \in Nat
  BY LogRecords
<1>2. fetched = {j \in runs : log[j].start > range.start} /\ fetched \subseteq 1..Len(log)
  BY <1>1 DEF Fetched
<1>3. range.start \in Int /\ moment - Stale \in Int
  BY FindingsAssumption DEF DateRange
<1>4. {s.name : s \in EventSource("backups", range, moment, f).stale} = {log[j].name : j \in latest}
  <2>1. EventSource("backups", range, moment, f).stale = StaleBackups(fetched, moment)
    BY DEF EventSource, ReadsAsCollection, Read
  <2>2. StaleBackups(fetched, moment)
          = {[name |-> log[i].name, at |-> log[i].start, count |-> 1] : i \in latest}
    BY DEF StaleBackups
  <2> HIDE DEF latest
  <2> DEFINE stale == EventSource("backups", range, moment, f).stale
             row == [i \in latest |-> [name |-> log[i].name, at |-> log[i].start, count |-> 1]]
  <2>3. stale = {row[i] : i \in latest} /\ \A i \in latest : row[i].name = log[i].name
    BY <2>1, <2>2
  <2> HIDE DEF row, stale
  <2>4. {s.name : s \in stale} = {log[j].name : j \in latest}
    BY ONLY <2>3
  <2>5. QED BY <2>4 DEF stale
<1> HIDE DEF fetched
<1>5. ASSUME NEW j \in latest PROVE log[j].name \in Overdue(Len(log), range, moment)
  <2>1. j \in runs /\ log[j].start > range.start /\ log[j].start < moment - Stale
    BY <1>2, <1>5
  <2>2. ASSUME NEW i \in runs, log[i].name = log[j].name PROVE log[i].start < moment - Stale
    <3>1. log[i].start <= log[j].start
      <4>1. CASE i \in fetched
        BY <1>5, <2>2, <4>1
      <4>2. CASE i \notin fetched
        BY <1>1, <1>2, <1>3, <2>1, <2>2, <4>2
      <4>3. QED BY <4>1, <4>2
    <3>2. QED BY <1>1, <1>3, <2>1, <2>2, <3>1
  <2> HIDE DEF latest
  <2>3. QED BY <2>1, <2>2 DEF Overdue
<1>6. ASSUME NEW n \in Overdue(Len(log), range, moment) PROVE \E j \in latest : log[j].name = n
  <2>1. Same(n) # {} /\ \A i \in Same(n) : log[i].start < moment - Stale
    BY <1>2, <1>6 DEF Overdue
  <2>2. PICK j \in Same(n) : \A k \in Same(n) : log[k].start <= log[j].start
    <3> DEFINE v == [k \in 1..Len(log) |-> log[k].start]
    <3>1. Same(n) \in SUBSET (1..Len(log)) /\ \A k \in 1..Len(log) : v[k] \in Int
      BY <1>1, <1>2
    <3>2. \A k \in Same(n) : v[k] = log[k].start
      BY <3>1
    <3> HIDE DEF v, Same
    <3>3. \E j \in Same(n) : \A k \in Same(n) : v[k] <= v[j]
      BY ONLY <1>1, <2>1, <3>1, LargestIsThere
    <3>4. QED BY ONLY <3>2, <3>3
  <2>3. j \in latest /\ log[j].name = n
    BY <2>1, <2>2
  <2>4. QED BY <2>3
<1>7. Overdue(Len(log), range, moment) = {log[j].name : j \in latest}
  <2> HIDE DEF latest
  <2>1. QED BY <1>5, <1>6
<1>8. QED BY <1>4, <1>7

\* What is kept of a source.
Answer == [read : BOOLEAN, findings : SUBSET Finding, stale : SUBSET Finding,
           checked : SUBSET Pools]

Entry == [result : Answer, access : Accesses, upto : Nat,
          refusing : SUBSET Pools, missing : SUBSET Pools]

Finite(answer) == IsFiniteSet(answer.findings) /\ IsFiniteSet(answer.stale)

\* What is found on patches is about pools, and finite.
LEMMA PatchesType ==
    ASSUME TypeOK, NEW pools \in SUBSET Pools
    PROVE  PatchSource(pools) \in Answer /\ Finite(PatchSource(pools))
<1> DEFINE checked == {p \in pools : ReadsPatches(p)}
           behind == checked \cap missing
           row == [p \in behind |-> [name |-> p, at |-> None, count |-> 1]]
           found == {[name |-> p, at |-> None, count |-> 1] : p \in behind}
<1>1. checked \in SUBSET Pools /\ found \in SUBSET Finding
  BY FindingsAssumption DEF Finding
<1>2. IsFiniteSet(found)
  <2>1. found = {row[p] : p \in behind}
    OBVIOUS
  <2>2. IsFiniteSet(behind)
    BY FindingsAssumption, FS_Subset
  <2> HIDE DEF row, found, behind
  <2>3. QED BY ONLY <2>1, <2>2, FiniteImage
<1>3. PatchSource(pools) \in {Unread, Read(found, {}, checked)}
  BY DEF PatchSource
<1>4. IsFiniteSet({})
  BY FS_EmptySet
<1> HIDE DEF found, checked
<1>5. /\ Unread \in Answer /\ Finite(Unread)
      /\ Read(found, {}, checked) \in Answer /\ Finite(Read(found, {}, checked))
  BY ONLY <1>1, <1>2, <1>4 DEF Unread, Read, Answer, Finite
<1>6. QED BY <1>3, <1>5

\* So is what the dashboard shows.
LEMMA DashboardType ==
    ASSUME TypeOK
    PROVE  DashboardSource \in Answer /\ Finite(DashboardSource)
<1> DEFINE row == [t \in totals |-> [name |-> t, at |-> None, count |-> 1]]
<1>1. DashboardFindings \in SUBSET Finding
  BY FindingsAssumption DEF TypeOK, DashboardFindings, Finding
<1>2. IsFiniteSet(DashboardFindings)
  <2>1. DashboardFindings = {row[t] : t \in totals}
    BY DEF DashboardFindings
  <2>2. IsFiniteSet(totals)
    BY FindingsAssumption, FS_Subset DEF TypeOK
  <2> HIDE DEF row
  <2>3. QED BY ONLY <2>1, <2>2, FiniteImage
<1>3. IsFiniteSet({})
  BY FS_EmptySet
<1>4. DashboardSource \in {Unread, Read(DashboardFindings, {}, {})}
  BY DEF DashboardSource
<1>5. /\ Unread \in Answer /\ Finite(Unread)
      /\ Read(DashboardFindings, {}, {}) \in Answer /\ Finite(Read(DashboardFindings, {}, {}))
  BY ONLY <1>1, <1>2, <1>3 DEF Unread, Read, Answer, Finite
<1>6. QED BY <1>4, <1>5

\* So is what the other sources hold.
LEMMA EventsType ==
    ASSUME TypeOK, NEW source, NEW range, NEW moment, NEW f \in BOOLEAN
    PROVE  EventSource(source, range, moment, f) \in Answer
           /\ Finite(EventSource(source, range, moment, f))
<1> DEFINE fetched == Fetched(source, range.start)
           found == Grouped(fetched, range, f)
           latest == {j \in fetched : /\ log[j].start < moment - Stale
                                      /\ \A k \in fetched : log[k].name = log[j].name
                                            => log[k].start <= log[j].start}
           row == [i \in latest |-> [name |-> log[i].name, at |-> log[i].start, count |-> 1]]
           stale == IF source = "backups" THEN StaleBackups(fetched, moment) ELSE {}
<1>1. /\ Len(log) \in Nat /\ DOMAIN log = 1..Len(log)
      /\ \A i \in 1..Len(log) : log[i].name \in Names /\ log[i].start \in Nat
  BY LogRecords
<1>2. fetched \in SUBSET (1..Len(log)) /\ latest \in SUBSET (1..Len(log))
  BY <1>1 DEF Fetched
<1>3. found \in SUBSET Finding /\ IsFiniteSet(found)
  <2> HIDE DEF fetched
  <2>1. QED BY <1>2, GroupedIsSummary
<1>4. StaleBackups(fetched, moment) = {row[i] : i \in latest}
  BY DEF StaleBackups
<1>5. \A i \in latest : row[i] \in Finding
  <2> HIDE DEF latest
  <2>1. QED BY <1>1, <1>2, FindingsAssumption DEF Finding
<1>6. IsFiniteSet(latest) /\ IsFiniteSet({})
  <2> HIDE DEF latest, fetched
  <2>1. IsFiniteSet(1..Len(log))
    BY <1>1, FS_Interval
  <2>2. QED BY ONLY <1>2, <2>1, FS_Subset, FS_EmptySet
<1> HIDE DEF row, latest, fetched
<1>7. IsFiniteSet({row[i] : i \in latest})
  BY ONLY <1>6, FiniteImage
<1>8. stale \in SUBSET Finding /\ IsFiniteSet(stale)
  BY ONLY <1>4, <1>5, <1>6, <1>7
<1>9. EventSource(source, range, moment, f) \in {Unread, Read(found, stale, {})}
  BY DEF EventSource, fetched
<1> HIDE DEF found, stale
<1>10. /\ Unread \in Answer /\ Finite(Unread)
       /\ Read(found, stale, {}) \in Answer /\ Finite(Read(found, stale, {}))
  BY ONLY <1>3, <1>6, <1>8 DEF Unread, Read, Answer, Finite
<1>11. QED BY <1>9, <1>10

-----------------------------------------------------------------------------
(* A findings run *)

\* What has been read of source k holds what Xen Orchestra had when it was asked, and says so
\* when it had nothing to say.
EntrySound(run, k) ==
    LET entry == run.sources[k]
        answer == entry.result
    IN /\ entry.upto \in 0 .. Len(log)
       /\ Finite(answer)
       /\ answer.read => entry.access \in {"admin", "restricted"}
       /\ Sources[k] = "dashboard" /\ answer.read => entry.access = "admin"
       /\ Sources[k] = "patches" /\ answer.read /\ answer.findings = {} =>
            /\ run.pools # {}
            /\ entry.access = "admin"
            /\ run.pools \cap (entry.refusing \cup entry.missing) = {}
       /\ Sources[k] \in Events \cup Runs /\ entry.access = "admin" =>
            answer.findings = Summary(Due(Sources[k], entry.upto, run.range))
       /\ Sources[k] = "backups" /\ entry.access = "admin" =>
            {s.name : s \in answer.stale} = Overdue(entry.upto, run.range, run.moment)

RunSound(run) ==
    Len(run.sources) <= Len(Sources) /\ \A k \in 1 .. Len(run.sources) : EntrySound(run, k)

Answered(inv) == inv.answers \subseteq {"admin", "restricted"}

IInv ==
    /\ TypeOK
    /\ Reading => RunSound(job)
    /\ job # None /\ job.kind = "refresh" => Answered(job.found)
    /\ inventory # None => Answered(inventory)
    /\ report # None => RunSound(report) /\ Len(report.sources) = Len(Sources)

-----------------------------------------------------------------------------
(* The log grows *)

LogGrows == log' = log \/ \E r : log' = Append(log, r)

\* What is there stays.
LEMMA RecordsStay ==
    ASSUME TypeOK, LogGrows
    PROVE  Len(log') \in Nat /\ Len(log) <= Len(log') /\ \A i \in 1..Len(log) : log'[i] = log[i]
<1>1. Len(log) \in Nat /\ DOMAIN log = 1..Len(log)
  BY LogRecords
<1>2. ASSUME NEW r, log' = Append(log, r)
      PROVE  Len(log') = Len(log) + 1 /\ \A i \in 1..Len(log) : log'[i] = log[i]
  <2>1. log \in Seq({log[i] : i \in 1..Len(log)} \cup {r})
    BY <1>1 DEF TypeOK
  <2>2. QED BY <1>2, <2>1, AppendProperties
<1>3. QED BY <1>1, <1>2 DEF LogGrows

\* What was due stays what was due, and so does its summary.
LEMMA DueStays ==
    ASSUME TypeOK, LogGrows, NEW upto \in 0..Len(log), NEW source, NEW range, NEW moment
    PROVE  /\ Summary(Due(source, upto, range))' = Summary(Due(source, upto, range))
           /\ Overdue(upto, range, moment)' = Overdue(upto, range, moment)
<1>1. \A i \in 1..upto : log'[i] = log[i]
  BY RecordsStay, LogRecords
<1>2. Due(source, upto, range)' = Due(source, upto, range)
  BY <1>1 DEF Due, Reportable, RuledMessage, FailedTask, FailedRun
<1>3. Overdue(upto, range, moment)' = Overdue(upto, range, moment)
  BY <1>1 DEF Overdue
<1>4. ASSUME NEW due \in SUBSET (1..upto) PROVE Summary(due)' = Summary(due)
  <2> DEFINE Own(n) == {i \in due : log[i].name = n}
             Ends(n) == {log[i].end : i \in Own(n)}
  <2>1. \A n : Own(n)' = Own(n)
    BY <1>1
  <2>2. \A n : Ends(n)' = Ends(n)
    BY <1>1
  <2>3. {log[i].name : i \in due}' = {log[i].name : i \in due}
    BY <1>1
  <2>4. Summary(due) = {[name |-> n, at |-> Max(Ends(n)), count |-> Cardinality(Own(n))]
                          : n \in {log[i].name : i \in due}}
    BY DEF Summary
  <2>5. Summary(due)' = {[name |-> n, at |-> Max(Ends(n)'), count |-> Cardinality(Own(n)')]
                          : n \in {log[i].name : i \in due}'}
    BY DEF Summary
  <2> HIDE DEF Own, Ends
  <2>6. QED BY ONLY <2>1, <2>2, <2>3, <2>4, <2>5
<1>5. Due(source, upto, range) \in SUBSET (1..upto)
  BY DEF Due
<1>6. Summary(Due(source, upto, range))' = Summary(Due(source, upto, range))
  <2>1. PICK due : due = Due(source, upto, range)
    OBVIOUS
  <2>2. Due(source, upto, range)' = due /\ due \in SUBSET (1..upto)
    BY <1>2, <1>5, <2>1
  <2>3. Summary(Due(source, upto, range))' = Summary(due)'
    BY <2>2 DEF Summary
  <2>4. QED BY <1>4, <2>1, <2>2, <2>3
<1>7. QED BY <1>3, <1>6

\* What is sound of a run stays sound.
LEMMA SoundStays ==
    ASSUME TypeOK, LogGrows
    PROVE  \A run : RunSound(run) => RunSound(run)'
<1> SUFFICES ASSUME NEW run, RunSound(run), NEW k \in 1..Len(run.sources)
             PROVE  EntrySound(run, k)'
  BY DEF RunSound
<1>1. EntrySound(run, k)
  BY DEF RunSound
<1>2. run.sources[k].upto \in 0..Len(log)
  BY <1>1 DEF EntrySound
<1>3. run.sources[k].upto \in 0..Len(log')
  BY <1>2, LogRecords, RecordsStay
<1>4. /\ Summary(Due(Sources[k], run.sources[k].upto, run.range))'
            = Summary(Due(Sources[k], run.sources[k].upto, run.range))
      /\ Overdue(run.sources[k].upto, run.range, run.moment)'
            = Overdue(run.sources[k].upto, run.range, run.moment)
  BY <1>2, DueStays
<1>5. QED BY <1>1, <1>3, <1>4 DEF EntrySound

-----------------------------------------------------------------------------
(* Reading a source *)

LEMMA SourcesAre ==
    /\ Len(Sources) = 7 /\ DOMAIN Sources = 1..7
    /\ Sources[4] = "patches" /\ Sources[5] = "backups" /\ Sources[7] = "dashboard"
    /\ \A k \in 1..7 :
        /\ Sources[k] = "patches" <=> k = 4
        /\ Sources[k] = "dashboard" <=> k = 7
        /\ Sources[k] \in Events \cup Runs <=> k \notin {4, 7}
    /\ \A source \in Events \cup Runs : \E k \in 1..7 : Sources[k] = source
<1>1. /\ Len(Sources) = 7 /\ DOMAIN Sources = 1..7
      /\ Sources[1] = "messages" /\ Sources[2] = "alarms" /\ Sources[3] = "tasks"
      /\ Sources[4] = "patches" /\ Sources[5] = "backups" /\ Sources[6] = "restores"
      /\ Sources[7] = "dashboard"
  BY DEF Sources
<1>2. \A k \in 1..7 : k \in {1, 2, 3, 4, 5, 6, 7}
  OBVIOUS
<1> HIDE DEF Sources
<1>3. \A k \in 1..7 :
        /\ Sources[k] = "patches" <=> k = 4
        /\ Sources[k] = "dashboard" <=> k = 7
        /\ Sources[k] \in Events \cup Runs <=> k \notin {4, 7}
  BY <1>1, <1>2 DEF Events, Runs
<1>4. \A source \in Events \cup Runs : \E k \in 1..7 : Sources[k] = source
  BY <1>1 DEF Events, Runs
<1>5. QED BY <1>1, <1>3, <1>4

\* Patches are shown as read, and as complete, only where every pool reported.
LEMMA PatchesSaid ==
    ASSUME NEW pools, PatchSource(pools).read
    PROVE  /\ access = "admin"
           /\ PatchSource(pools).findings = {} =>
                pools # {} /\ pools \cap (refusing \cup missing) = {}
<1> DEFINE checked == {p \in pools : ReadsPatches(p)}
           behind == checked \cap missing
           found == {[name |-> p, at |-> None, count |-> 1] : p \in behind}
<1>1. Unread.read = FALSE
  BY DEF Unread
<1>2. pools # {} /\ (pools = checked \/ behind # {}) /\ PatchSource(pools) = Read(found, {}, checked)
  BY <1>1 DEF PatchSource
<1>3. checked # {}
  BY <1>2
<1>4. access = "admin"
  BY <1>3 DEF ReadsPatches
<1>5. ASSUME PatchSource(pools).findings = {} PROVE behind = {}
  <2>1. found = {}
    <3> HIDE DEF found
    <3>1. QED BY ONLY <1>2, <1>5 DEF Read
  <2>2. QED BY ONLY <2>1
<1>6. behind = {} => pools \cap (refusing \cup missing) = {}
  BY <1>2 DEF ReadsPatches
<1>7. QED BY <1>2, <1>4, <1>5, <1>6

\* What is read of a source is sound.
LEMMA AnswerIsSound ==
    ASSUME TypeOK, job \in Run, NEW n \in 1..7, NEW f \in BOOLEAN
    PROVE  LET answer == SourceResult(Sources[n], f)
               source == Sources[n]
           IN /\ answer \in Answer /\ Finite(answer)
              /\ answer.read => access \in {"admin", "restricted"}
              /\ source = "dashboard" /\ answer.read => access = "admin"
              /\ source = "patches" /\ answer.read /\ answer.findings = {} =>
                    /\ job.pools # {} /\ access = "admin"
                    /\ job.pools \cap (refusing \cup missing) = {}
              /\ source \in Events \cup Runs /\ access = "admin" =>
                    answer.findings = Summary(Due(source, Len(log), job.range))
              /\ source = "backups" /\ access = "admin" =>
                    {s.name : s \in answer.stale} = Overdue(Len(log), job.range, job.moment)
<1>1. job.pools \in SUBSET Pools /\ job.range \in DateRange /\ job.moment \in Nat
  BY DEF Run
<1>2. Unread.read = FALSE
  BY DEF Unread
<1>3. CASE n = 4
  <2>1. Sources[n] = "patches"
    BY <1>3, SourcesAre
  <2>2. SourceResult(Sources[n], f) = PatchSource(job.pools)
    BY <2>1 DEF SourceResult
  <2>3. Sources[n] \notin Events \cup Runs
    BY <1>3, SourcesAre
  <2>4. QED BY <1>1, <2>1, <2>2, <2>3, PatchesType, PatchesSaid
<1>4. CASE n = 7
  <2>1. Sources[n] = "dashboard"
    BY <1>4, SourcesAre
  <2>2. SourceResult(Sources[n], f) = DashboardSource
    BY <2>1 DEF SourceResult
  <2>3. Sources[n] \notin Events \cup Runs
    BY <1>4, SourcesAre
  <2>4. DashboardSource.read => access = "admin"
    BY <1>2 DEF DashboardSource, ReadsDashboard
  <2>5. QED BY <2>1, <2>2, <2>3, <2>4, DashboardType
<1>5. CASE n \notin {4, 7}
  <2> DEFINE answer == EventSource(Sources[n], job.range, job.moment, f)
  <2>1. Sources[n] \in Events \cup Runs /\ Sources[n] # "patches" /\ Sources[n] # "dashboard"
    BY <1>5, SourcesAre
  <2>2. SourceResult(Sources[n], f) = answer
    BY <2>1 DEF SourceResult
  <2>3. answer.read => access \in {"admin", "restricted"}
    BY <1>2 DEF EventSource, ReadsAsCollection
  <2>4. answer \in Answer /\ Finite(answer)
    BY EventsType
  <2>5. access = "admin" => answer.findings = Summary(Due(Sources[n], Len(log), job.range))
    BY <1>1, <2>1, DueIsFound
  <2>6. Sources[n] = "backups" /\ access = "admin" =>
            {s.name : s \in answer.stale} = Overdue(Len(log), job.range, job.moment)
    BY <1>1, OverdueIsFound
  <2> HIDE DEF answer
  <2>7. QED BY <2>1, <2>2, <2>3, <2>4, <2>5, <2>6
<1>6. QED BY <1>3, <1>4, <1>5

\* A source that has been read is added as it is.
LEMMA ReadKeeps ==
    ASSUME IInv, ReadSource
    PROVE  IInv'
<1>1. job \in Run /\ RunSound(job) /\ job # None /\ job.kind = "findings" /\ TypeOK
  BY DEF IInv, TypeOK, ReadSource, Reading, Run, Refresh
<1>2. /\ job.sources \in Seq(Entry) /\ job.pools \in SUBSET Pools /\ job.range \in DateRange
      /\ job.moment \in Nat
  BY <1>1 DEF Run, Entry, Answer
<1>3. PICK n \in 1..7 :
        /\ n = Len(job.sources) + 1 /\ Len(job.sources) \in Nat
        /\ \A k \in 1..n : k \in 1..Len(job.sources) \/ k = n
  <2>1. Len(job.sources) \in Nat /\ Len(job.sources) < 7
    BY <1>2, LenProperties, SourcesAre DEF ReadSource
  <2>2. QED BY <2>1
<1>4. PICK f \in BOOLEAN :
        job' = [job EXCEPT !.sources = Append(@,
                 [result |-> SourceResult(Sources[n], f), access |-> access, upto |-> Len(log),
                  refusing |-> refusing, missing |-> missing])]
  BY <1>3 DEF ReadSource
<1> DEFINE answer == SourceResult(Sources[n], f)
           entry == [result |-> answer, access |-> access, upto |-> Len(log),
                     refusing |-> refusing, missing |-> missing]
<1>5. /\ answer \in Answer /\ Finite(answer)
      /\ answer.read => access \in {"admin", "restricted"}
      /\ Sources[n] = "dashboard" /\ answer.read => access = "admin"
      /\ Sources[n] = "patches" /\ answer.read /\ answer.findings = {} =>
            /\ job.pools # {} /\ access = "admin"
            /\ job.pools \cap (refusing \cup missing) = {}
      /\ Sources[n] \in Events \cup Runs /\ access = "admin" =>
            answer.findings = Summary(Due(Sources[n], Len(log), job.range))
      /\ Sources[n] = "backups" /\ access = "admin" =>
            {s.name : s \in answer.stale} = Overdue(Len(log), job.range, job.moment)
  <2>1. QED BY <1>1, <1>3, AnswerIsSound
<1> HIDE DEF answer
<1>6. entry \in Entry
  BY <1>1, <1>5, LogRecords DEF Entry, TypeOK
<1>7. /\ job' = [job EXCEPT !.sources = Append(job.sources, entry)]
      /\ UNCHANGED <<now, log, missing, refusing, totals, access, changes, inventory, report>>
  BY <1>4 DEF ReadSource, xoState, results, answer
<1>8. /\ entry.result = answer /\ entry.access = access /\ entry.upto = Len(log)
      /\ entry.refusing = refusing /\ entry.missing = missing
  OBVIOUS
<1> HIDE DEF entry
<1>9. /\ job'.sources = Append(job.sources, entry) /\ job'.kind = "findings"
      /\ job'.pools = job.pools /\ job'.range = job.range /\ job'.moment = job.moment
      /\ job' \in Run
  <2>1. Append(job.sources, entry) \in Seq(Entry)
    BY <1>2, <1>6, AppendProperties
  <2>2. Run = [kind : {"findings"}, range : DateRange, moment : Nat, pools : SUBSET Pools,
               sources : Seq(Entry)]
    BY DEF Run, Entry, Answer
  <2>3. QED BY <1>1, <1>7, <2>1, <2>2
<1>10. /\ Len(job'.sources) = n /\ job'.sources[n] = entry
       /\ \A k \in 1..Len(job.sources) : job'.sources[k] = job.sources[k]
  BY <1>2, <1>3, <1>6, <1>9, AppendProperties
<1>11. TypeOK'
  BY <1>1, <1>7, <1>9 DEF TypeOK
<1>12. \A source, upto, range, moment :
        /\ Summary(Due(source, upto, range))' = Summary(Due(source, upto, range))
        /\ Overdue(upto, range, moment)' = Overdue(upto, range, moment)
  BY <1>7 DEF Summary, Due, Overdue, Reportable, RuledMessage, FailedTask, FailedRun
<1>13. ASSUME NEW k \in 1..Len(job.sources) PROVE EntrySound(job, k)'
  <2>1. EntrySound(job, k)
    BY <1>1 DEF RunSound
  <2>2. job'.sources[k] = job.sources[k]
    BY <1>10
  <2>3. QED BY <1>7, <1>9, <1>12, <2>1, <2>2 DEF EntrySound
<1>14. EntrySound(job, n)'
  <2>1. entry.upto \in 0..Len(log)
    BY <1>1, <1>8, LogRecords
  <2>2. QED BY <1>5, <1>7, <1>8, <1>9, <1>10, <1>12, <2>1 DEF EntrySound
<1>15. RunSound(job)'
  <2>1. \A k \in 1..n : EntrySound(job, k)'
    BY <1>3, <1>13, <1>14
  <2>2. n <= Len(Sources)
    BY SourcesAre
  <2>3. QED BY <1>10, <2>1, <2>2 DEF RunSound
<1>16. LogGrows
  BY <1>7 DEF LogGrows
<1>17. report # None => RunSound(report)' /\ Len(report.sources) = Len(Sources)
  BY <1>1, <1>7, <1>16, SoundStays DEF IInv
<1>18. QED BY <1>7, <1>9, <1>11, <1>15, <1>17 DEF IInv, Answered

-----------------------------------------------------------------------------
(* The other steps *)

LEMMA RecordType ==
    ASSUME NEW times \in SUBSET Nat, NEW end \in Nat, NEW r \in Records(times, end)
    PROVE  r \in [source : Events \cup Runs, name : Names, failed : BOOLEAN,
                  start : Nat, end : Nat]
<1>1. CASE r \in [source : Events, name : Names, failed : {TRUE}, start : {end}, end : {end}]
  BY <1>1
<1>2. CASE r \in [source : Runs, name : Names, failed : BOOLEAN, start : times, end : {end}]
  BY <1>2
<1>3. QED BY <1>1, <1>2 DEF Records

\* What only Xen Orchestra does takes nothing from a run or a report.
LEMMA OutsideKeeps ==
    ASSUME IInv, Happens \/ Changes \/ UNCHANGED vars
    PROVE  IInv'
<1>1. UNCHANGED <<inventory, report, job, missing, refusing, totals>>
  BY DEF Happens, Changes, vars, xoState, results
<1>2. LogGrows
  <2>1. CASE Happens
    BY <2>1 DEF Happens, LogGrows
  <2>2. CASE Changes \/ UNCHANGED vars
    <3>1. log' = log
      BY <2>2 DEF Changes, vars, xoState
    <3>2. QED BY <3>1 DEF LogGrows
  <2>3. QED BY <2>1, <2>2
<1>3. TypeOK'
  <2>1. CASE Happens
    <3>1. PICK r \in Records(Times \cup {now}, now) : Possible(r) /\ log' = Append(log, r)
      BY <2>1 DEF Happens
    <3>2. r \in [source : Events \cup Runs, name : Names, failed : BOOLEAN, start : Nat, end : Nat]
      <4>1. Times \cup {now} \in SUBSET Nat /\ now \in Nat
        <5>1. TypeOK
          BY DEF IInv
        <5>2. now \in Nat
          BY ONLY <5>1 DEF TypeOK
        <5>3. QED BY ONLY <5>2, FindingsAssumption
      <4>2. QED BY <3>1, <4>1, RecordType
    <3>3. /\ log' \in Seq([source : Events \cup Runs, name : Names, failed : BOOLEAN,
                           start : Nat, end : Nat])
          /\ Len(log') = Len(log) + 1 /\ log'[Len(log) + 1] = r
          /\ \A i \in 1..Len(log) : log'[i] = log[i]
      BY <3>1, <3>2, AppendProperties DEF IInv, TypeOK
    <3>4. \A i \in DOMAIN log' : Possible(log'[i])
      <4>1. Len(log) \in Nat /\ DOMAIN log = 1..Len(log) /\ DOMAIN log' = 1..(Len(log) + 1)
        BY <3>3, LogRecords, LenProperties DEF IInv
      <4>2. \A i \in DOMAIN log' : i \in DOMAIN log \/ i = Len(log) + 1
        BY <4>1
      <4>3. QED BY <3>1, <3>3, <4>1, <4>2 DEF IInv, TypeOK
    <3>5. QED BY <1>1, <2>1, <3>3, <3>4 DEF IInv, TypeOK, Happens
  <2>2. CASE Changes
    BY <1>1, <2>2 DEF IInv, TypeOK, Changes
  <2>3. CASE UNCHANGED vars
    BY <2>3 DEF IInv, TypeOK, vars, xoState, results
  <2>4. QED BY <2>1, <2>2, <2>3
<1>4. Reading => RunSound(job)'
  BY <1>1, <1>2, SoundStays DEF IInv
<1>5. report # None => RunSound(report)'
  BY <1>1, <1>2, SoundStays DEF IInv
<1>6. QED BY <1>1, <1>3, <1>4, <1>5 DEF IInv, Reading, Answered

\* A job that starts has read nothing yet.
LEMMA StartsFindings ==
    ASSUME IInv, StartFindings
    PROVE  IInv'
<1>1. PICK range \in Ranges :
        job' = [kind |-> "findings", range |-> range, moment |-> now,
                pools |-> IF inventory = None THEN {} ELSE inventory.pools, sources |-> <<>>]
  BY DEF StartFindings
<1>2. UNCHANGED <<now, log, missing, refusing, totals, access, changes, inventory, report>>
  BY DEF StartFindings, xoState, results
<1>3. range \in DateRange
  <2>1. Dates \subseteq Nat /\ now - Window \in Int /\ now - Stale \in Int
    BY FindingsAssumption DEF IInv, TypeOK
  <2>2. /\ range.start \in {now - Window, now - Stale} \cup Dates \cup {0}
        /\ range = [start |-> range.start, end |-> range.end]
        /\ range.end \in Dates \cup {None}
    BY DEF Ranges
  <2>3. range.start \in Int
    BY <2>1, <2>2
  <2>4. QED BY <2>1, <2>2, <2>3 DEF DateRange
<1>4. job' \in Run
  <2>1. (IF inventory = None THEN {} ELSE inventory.pools) \in SUBSET Pools
    BY DEF IInv, TypeOK, Inventory
  <2>2. <<>> \in Seq(Entry)
    BY EmptySeq
  <2>3. Run = [kind : {"findings"}, range : DateRange, moment : Nat, pools : SUBSET Pools,
               sources : Seq(Entry)]
    BY DEF Run, Entry, Answer
  <2>4. QED BY <1>1, <1>3, <2>1, <2>2, <2>3 DEF IInv, TypeOK
<1>5. TypeOK'
  BY <1>2, <1>4 DEF IInv, TypeOK
<1>6. RunSound(job)'
  <2>1. job'.sources = <<>> /\ Len(<<>>) = 0
    BY <1>1
  <2>2. QED BY <2>1, SourcesAre DEF RunSound
<1>7. LogGrows
  BY <1>2 DEF LogGrows
<1>8. report # None => RunSound(report)'
  BY <1>2, <1>7, SoundStays DEF IInv
<1>9. job'.kind = "findings"
  BY <1>1
<1>10. QED BY <1>2, <1>5, <1>6, <1>8, <1>9 DEF IInv, Reading, Answered

\* A report is a run that has read every source.
LEMMA StoresReport ==
    ASSUME IInv, StoreReport
    PROVE  IInv'
<1>1. /\ report' = job /\ job' = None /\ Len(job.sources) = Len(Sources)
      /\ UNCHANGED <<now, log, missing, refusing, totals, access, changes, inventory>>
  BY DEF StoreReport, xoState
<1>2. job \in Run /\ RunSound(job) /\ job # None
  BY DEF IInv, TypeOK, StoreReport, Reading, Run, Refresh
<1>3. TypeOK'
  BY <1>1, <1>2 DEF IInv, TypeOK
<1>4. LogGrows
  BY <1>1 DEF LogGrows
<1>5. RunSound(report)'
  BY <1>1, <1>2, <1>4, SoundStays DEF IInv
<1>6. QED BY <1>1, <1>3, <1>5 DEF IInv, Reading, Answered

\* A refresh that is not answered stores nothing.
LEMMA RefreshKeeps ==
    ASSUME IInv, StartRefresh \/ StoreInventory \/ EndWithoutResult
    PROVE  IInv'
<1>1. UNCHANGED <<now, log, missing, refusing, totals, access, changes, report>>
  BY DEF StartRefresh, StoreInventory, EndWithoutResult, xoState, results
<1>2. LogGrows
  BY <1>1 DEF LogGrows
<1>3. report # None => RunSound(report)'
  BY <1>1, <1>2, SoundStays DEF IInv
<1>4. access \in Accesses
  BY DEF IInv, TypeOK
<1>5. CASE StartRefresh
  <2>1. /\ job' = [kind |-> "refresh", found |-> [pools |-> Visible(Pools), answers |-> {access}]]
        /\ inventory' = inventory /\ access \in {"admin", "restricted"}
    BY <1>5 DEF StartRefresh, ReadsAsCollection, results
  <2>2. job' \in Refresh /\ job'.kind = "refresh" /\ job'.found.answers = {access}
    BY <1>4, <2>1 DEF Refresh, Inventory, Visible
  <2>3. TypeOK'
    BY <1>1, <2>1, <2>2 DEF IInv, TypeOK
  <2>4. QED BY <1>1, <1>3, <2>1, <2>2, <2>3 DEF IInv, Reading, Answered
<1>6. CASE StoreInventory
  <2>1. /\ job # None /\ job.kind = "refresh" /\ access \in {"admin", "restricted"} /\ job' = None
        /\ inventory' = [job.found EXCEPT !.answers = @ \cup {access}]
    BY <1>6 DEF StoreInventory, ReadsAsCollection
  <2>2. job.found \in Inventory /\ Answered(job.found)
    BY <2>1 DEF IInv, TypeOK, Refresh, Run
  <2>3. inventory' \in Inventory /\ inventory'.answers = job.found.answers \cup {access}
    BY <1>4, <2>1, <2>2 DEF Inventory
  <2>4. TypeOK'
    BY <1>1, <2>1, <2>3 DEF IInv, TypeOK
  <2>5. QED BY <1>1, <1>3, <2>1, <2>2, <2>3, <2>4 DEF IInv, Reading, Answered
<1>7. CASE EndWithoutResult
  <2>1. job' = None /\ inventory' = inventory
    BY <1>7 DEF EndWithoutResult, results
  <2>2. TypeOK'
    BY <1>1, <2>1 DEF IInv, TypeOK
  <2>3. QED BY <1>1, <1>3, <2>1, <2>2 DEF IInv, Reading, Answered
<1>8. QED BY <1>5, <1>6, <1>7

\* IInv holds at first and in every step.
THEOREM FindingsInvariance == Spec => []IInv
<1>1. Init => IInv
  <2> SUFFICES ASSUME Init PROVE IInv
    OBVIOUS
  <2>1. log \in Seq([source : Events \cup Runs, name : Names, failed : BOOLEAN,
                     start : Nat, end : Nat])
        /\ \A i \in DOMAIN log : Possible(log[i])
    <3> DEFINE R == [source : Events \cup Runs, name : Names, failed : BOOLEAN,
                     start : Nat, end : Nat]
    <3>1. CASE log = <<>>
      BY <3>1
    <3>2. CASE log # <<>>
      <4>1. PICK t \in Times : \E r \in Records(Times, t) : Possible(r) /\ log = <<r>>
        BY <3>2 DEF Init
      <4>2. PICK r \in Records(Times, t) : Possible(r) /\ log = <<r>>
        BY <4>1
      <4>3. r \in R
        <5>1. Times \in SUBSET Nat /\ t \in Nat
          BY FindingsAssumption
        <5>2. QED BY <4>2, <5>1, RecordType
      <4>4. <<r>> \in Seq(R) /\ DOMAIN <<r>> = {1} /\ <<r>>[1] = r
        <5> HIDE DEF R
        <5>1. QED BY <4>3
      <4>5. QED BY <4>2, <4>4
    <3>3. QED BY <3>1, <3>2
  <2>2. inventory # None => inventory \in Inventory /\ Answered(inventory)
    BY DEF Init, Inventory, Answered, Accesses
  <2>3. TypeOK
    BY <2>1, <2>2, FindingsAssumption DEF Init, TypeOK
  <2>4. QED BY <2>2, <2>3 DEF Init, IInv, Reading
<1>2. IInv /\ [Next]_vars => IInv'
  <2> SUFFICES ASSUME IInv, [Next]_vars PROVE IInv'
    OBVIOUS
  <2>1. QED BY OutsideKeeps, StartsFindings, ReadKeeps, StoresReport, RefreshKeeps DEF Next
<1>3. QED BY <1>1, <1>2, PTL DEF Spec

\* The types of a findings run.
THEOREM FindingsTypeCorrect == Spec => []TypeOK
<1>1. IInv => TypeOK BY DEF IInv
<1>2. QED BY <1>1, FindingsInvariance, PTL

\* The place of a source in a report.
LEMMA SourcePlace ==
    ASSUME NEW source \in Events \cup Runs \cup {"patches", "dashboard"}
    PROVE  Source(source) \in 1..7 /\ Sources[Source(source)] = source
<1>1. \E k \in DOMAIN Sources : Sources[k] = source
  <2>1. 4 \in 1..7 /\ 7 \in 1..7
    OBVIOUS
  <2>2. QED BY <2>1, SourcesAre
<1>2. QED BY <1>1, SourcesAre DEF Source

\* A source shown as read was answered, patches are called complete only where every pool of
\* the inventory reported none, and no refresh that was not answered is stored, for any number
\* of pools and names, whatever happens between two reads.
THEOREM UnreadIsAlwaysSaid == Spec => []UnreadIsSaid
<1>1. IInv => UnreadIsSaid
  <2> SUFFICES ASSUME IInv PROVE UnreadIsSaid
    OBVIOUS
  <2>1. inventory # None => inventory.answers \subseteq {"admin", "restricted"}
    BY DEF IInv, Answered
  <2> SUFFICES ASSUME report # None PROVE UnreadIsSaid
    BY <2>1 DEF UnreadIsSaid
  <2>2. /\ report.sources \in Seq(Entry) /\ Len(report.sources) = 7
        /\ \A k \in 1..7 : EntrySound(report, k)
    <3>1. report \in Run /\ RunSound(report) /\ Len(report.sources) = Len(Sources)
      BY DEF IInv, TypeOK
    <3>2. Run = [kind : {"findings"}, range : DateRange, moment : Nat, pools : SUBSET Pools,
                 sources : Seq(Entry)]
      BY DEF Run, Entry, Answer
    <3>3. QED BY <3>1, <3>2, SourcesAre DEF RunSound
  <2>3. \A i \in DOMAIN report.sources :
            report.sources[i].result.read => report.sources[i].access \in {"admin", "restricted"}
    <3>1. DOMAIN report.sources = 1..7
      BY <2>2, LenProperties
    <3>2. QED BY <2>2, <3>1 DEF EntrySound
  <2>4. report.sources[Source("dashboard")].result.read
            => report.sources[Source("dashboard")].access = "admin"
    BY <2>2, SourcePlace DEF EntrySound
  <2>5. LET entry == report.sources[Source("patches")]
        IN entry.result.read /\ entry.result.findings = {} =>
              /\ report.pools # {}
              /\ entry.access = "admin"
              /\ report.pools \cap (entry.refusing \cup entry.missing) = {}
    BY <2>2, SourcePlace DEF EntrySound
  <2>6. QED BY <2>1, <2>3, <2>4, <2>5 DEF UnreadIsSaid
<1>2. QED BY <1>1, FindingsInvariance, PTL

\* A report names every failure that was due and no other, with how many there were and when
\* the last was, and every backup job whose last run is too long ago, for any log, range and
\* order, whatever happens between two reads.
THEOREM FailuresAreReported == Spec => []FailuresReported
<1>1. IInv => FailuresReported
  <2> SUFFICES ASSUME IInv, report # None PROVE FailuresReported
    BY DEF FailuresReported
  <2>1. \A k \in 1..7 : EntrySound(report, k)
    BY SourcesAre DEF IInv, RunSound
  <2>2. ASSUME NEW source \in Events \cup Runs, report.sources[Source(source)].access = "admin"
        PROVE  report.sources[Source(source)].result.findings
                 = Summary(Due(source, report.sources[Source(source)].upto, report.range))
    BY <2>1, <2>2, SourcePlace DEF EntrySound
  <2>3. ASSUME report.sources[Source("backups")].access = "admin"
        PROVE  {f.name : f \in report.sources[Source("backups")].result.stale}
                 = Overdue(report.sources[Source("backups")].upto, report.range, report.moment)
    BY <2>1, <2>3, SourcePlace DEF EntrySound, Runs
  <2>4. QED BY <2>2, <2>3 DEF FailuresReported
<1>2. QED BY <1>1, FindingsInvariance, PTL

-----------------------------------------------------------------------------
(* The page *)

\* What a page may have set beside each other: API findings and log findings, by their places.
Pairings(api, logs) == UNION {[D -> DOMAIN logs] : D \in SUBSET DOMAIN api}

\* The log findings that an API finding may be set beside.
FreeFor(confirmed, i, api, logs, created, scanned) ==
    {j \in Unmatched(confirmed, logs) : Echo(api[i], logs[j], created, scanned)}

\* The first m API findings have been gone through.
PairedUpTo(confirmed, m, api, logs, created, scanned) ==
    /\ confirmed \in Pairings(api, logs) /\ DOMAIN confirmed \subseteq 1..m
    /\ \A i \in DOMAIN confirmed : Echo(api[i], logs[confirmed[i]], created, scanned)
    /\ \A i, k \in DOMAIN confirmed : confirmed[i] = confirmed[k] => i = k
    /\ \A i \in (1..m) \ DOMAIN confirmed, j \in DOMAIN logs :
            Echo(api[i], logs[j], created, scanned) => \E k \in DOMAIN confirmed : confirmed[k] = j

\* Of some places, one is the first.
LEMMA FirstIsThere ==
    ASSUME NEW m \in Nat, NEW S \in SUBSET (1..m), S # {}
    PROVE  (CHOOSE j \in S : \A k \in S : j <= k) \in S
<1> DEFINE v == [k \in 1..m |-> 0 - k]
<1>1. \A k \in 1..m : v[k] = 0 - k /\ v[k] \in Int
  OBVIOUS
<1> HIDE DEF v
<1>2. \E j \in S : \A k \in S : v[k] <= v[j]
  BY <1>1, LargestIsThere
<1>3. \E j \in S : \A k \in S : j <= k
  BY <1>1, <1>2
<1>4. QED BY <1>3

\* A finding is set beside the first that is free for it.
LEMMA PairedNext ==
    ASSUME NEW n \in Nat, NEW api, DOMAIN api = 1..n, NEW size \in Nat, NEW logs,
           DOMAIN logs = 1..size, NEW created, NEW scanned, NEW m \in 1..n, NEW c,
           PairedUpTo(c, m - 1, api, logs, created, scanned)
    PROVE  LET free == FreeFor(c, m, api, logs, created, scanned)
           IN PairedUpTo(IF free = {} THEN c ELSE With(c, m, CHOOSE j \in free : \A k \in free : j <= k),
                         m, api, logs, created, scanned)
<1> DEFINE free == FreeFor(c, m, api, logs, created, scanned)
           first == CHOOSE j \in free : \A k \in free : j <= k
           E(i, j) == Echo(api[i], logs[j], created, scanned)
           d == With(c, m, first)
<1>1. PICK D \in SUBSET (1..n) : c \in [D -> 1..size]
  BY DEF PairedUpTo, Pairings
<1>2. /\ D = DOMAIN c /\ D \subseteq 1..(m - 1)
      /\ \A i \in D : E(i, c[i])
      /\ \A i, k \in D : c[i] = c[k] => i = k
      /\ \A i \in (1..(m - 1)) \ D, j \in 1..size : E(i, j) => \E k \in D : c[k] = j
  BY <1>1 DEF PairedUpTo
<1>3. \A i \in 1..m : i \in 1..(m - 1) \/ i = m
  OBVIOUS
<1>4. free = {j \in 1..size : E(m, j) /\ \A k \in D : c[k] # j}
  BY <1>1 DEF FreeFor, Unmatched
<1> HIDE DEF E
<1>5. CASE free = {}
  <2>1. \A i \in (1..m) \ D, j \in 1..size : E(i, j) => \E k \in D : c[k] = j
    BY <1>2, <1>3, <1>4, <1>5
  <2>2. D \subseteq 1..m
    BY <1>2
  <2>3. PairedUpTo(c, m, api, logs, created, scanned)
    BY <1>1, <1>2, <2>1, <2>2 DEF PairedUpTo, Pairings, E
  <2>4. QED BY <1>5, <2>3
<1>6. CASE free # {}
  <2>1. first \in free /\ first \in 1..size /\ E(m, first) /\ \A k \in D : c[k] # first
    <3>1. free \in SUBSET (1..size)
      BY <1>4
    <3> HIDE DEF free
    <3>2. first \in free
      BY ONLY <1>6, <3>1, size \in Nat, FirstIsThere
    <3> HIDE DEF first
    <3>3. QED BY ONLY <1>4, <3>2
  <2> HIDE DEF first, free
  <2>2. m \notin D /\ D \cup {m} \in SUBSET (1..n) /\ D \cup {m} \subseteq 1..m
    BY <1>2
  <2>3. /\ d \in [D \cup {m} -> 1..size] /\ DOMAIN d = D \cup {m} /\ d[m] = first
        /\ \A i \in D : d[i] = c[i]
    BY <1>1, <2>1, <2>2 DEF With
  <2> HIDE DEF d
  <2>4. d \in Pairings(api, logs)
    BY <2>2, <2>3 DEF Pairings
  <2>5. \A i \in D \cup {m} : E(i, d[i])
    BY <1>2, <2>1, <2>3
  <2>6. \A i, k \in D \cup {m} : d[i] = d[k] => i = k
    BY <1>2, <2>1, <2>3
  <2>7. \A i \in (1..m) \ (D \cup {m}), j \in 1..size : E(i, j) => \E k \in D \cup {m} : d[k] = j
    BY <1>2, <1>3, <2>3
  <2>8. PairedUpTo(d, m, api, logs, created, scanned)
    BY <2>2, <2>3, <2>4, <2>5, <2>6, <2>7 DEF PairedUpTo, E
  <2>9. QED BY <1>6, <2>8 DEF d, first, free
<1>7. QED BY <1>5, <1>6

\* The page goes through all of them.
LEMMA CorrelatePairs ==
    ASSUME NEW n \in Nat, NEW api, DOMAIN api = 1..n, Len(api) = n, NEW size \in Nat, NEW logs,
           DOMAIN logs = 1..size, NEW created, NEW scanned
    PROVE  PairedUpTo(Correlate(api, logs, created, scanned), n, api, logs, created, scanned)
<1> DEFINE C == Pairings(api, logs)
           Free(c, i) == FreeFor(c, i, api, logs, created, scanned)
           Taken(c, i) == IF Free(c, i) = {} THEN c
                          ELSE With(c, i, CHOOSE j \in Free(c, i) : \A k \in Free(c, i) : j <= k)
           step == [p \in (1..n) \X C |-> Taken(p[2], p[1])]
           Paired(c, m) == PairedUpTo(c, m, api, logs, created, scanned)
           confirmed[k \in 0..Len(api)] ==
              IF k = 0 THEN <<>>
              ELSE LET before == confirmed[k - 1]
                       free == {j \in Unmatched(before, logs) : Echo(api[k], logs[j], created, scanned)}
                   IN IF free = {} THEN before
                      ELSE With(before, k, CHOOSE j \in free : \A i \in free : j <= i)
           T == {m \in 0..n : Paired(confirmed[m], m)}
<1>1. <<>> \in C /\ Paired(<<>>, 0)
  <2>1. DOMAIN <<>> = {} /\ <<>> \in [{} -> DOMAIN logs] /\ 1..0 = {}
    OBVIOUS
  <2>2. QED BY <2>1 DEF PairedUpTo, Pairings
<1>2. step \in [(1..n) \X C -> C]
  <2>1. ASSUME NEW c \in C, NEW i \in 1..n PROVE Taken(c, i) \in C
    <3>1. PICK D \in SUBSET (1..n) : c \in [D -> 1..size]
      BY DEF Pairings
    <3>2. CASE Free(c, i) = {}
      BY <3>2
    <3>3. CASE Free(c, i) # {}
      <4> DEFINE first == CHOOSE j \in Free(c, i) : \A k \in Free(c, i) : j <= k
      <4>1. Free(c, i) \in SUBSET (1..size)
        BY DEF FreeFor, Unmatched
      <4>2. first \in 1..size
        <5> HIDE DEF Free
        <5>1. QED BY <3>3, <4>1, FirstIsThere
      <4> HIDE DEF first
      <4>3. With(c, i, first) \in [D \cup {i} -> 1..size] /\ D \cup {i} \in SUBSET (1..n)
        BY <3>1, <4>2 DEF With
      <4>4. With(c, i, first) \in C
        BY <4>3 DEF Pairings
      <4>5. Taken(c, i) = With(c, i, first)
        BY <3>3 DEF first
      <4>6. QED BY <4>4, <4>5
    <3>4. QED BY <3>2, <3>3
  <2> HIDE DEF C, Taken
  <2>2. QED BY <2>1
<1>3. PICK h \in [0..n -> C] : StepsFrom(h, <<>>, step, n)
  <2> HIDE DEF step, C
  <2>1. \E h \in [0..n -> C] : StepsFrom(h, <<>>, step, n)
    BY ONLY <1>1, <1>2, n \in Nat, Stepwise, Zenon
  <2>2. QED BY <2>1
<1>4. h = [k \in 0..n |-> IF k = 0 THEN <<>> ELSE Taken(h[k - 1], k)]
  <2>1. \A k \in 1..n, s \in C : step[<<k, s>>] = Taken(s, k)
    <3> HIDE DEF C, Taken
    <3>1. QED BY DEF step
  <2> HIDE DEF step, C, Taken
  <2>2. \A k \in 0..n : k # 0 => k \in 1..n /\ h[k - 1] \in C
    <3>1. \A k \in 0..n : k # 0 => k \in 1..n /\ k - 1 \in 0..n
      BY ONLY n \in Nat
    <3>2. QED BY ONLY <3>1, h \in [0..n -> C]
  <2>3. \A k \in 0..n : h[k] = IF k = 0 THEN <<>> ELSE Taken(h[k - 1], k)
    <3>1. h[0] = <<>> /\ \A k \in 1..n : h[k] = step[<<k, h[k - 1]>>]
      BY <1>3, Zenon DEF StepsFrom
    <3>2. QED BY ONLY <2>1, <2>2, <3>1
  <2>4. QED BY ONLY <2>3, h \in [0..n -> C]
<1>5. confirmed = [k \in 0..n |-> IF k = 0 THEN <<>> ELSE Taken(confirmed[k - 1], k)]
  BY ONLY <1>4, Len(api) = n, ZenonT(60) DEF FreeFor
<1>6. Correlate(api, logs, created, scanned) = confirmed[n]
  BY DEF Correlate
<1> HIDE DEF confirmed, Taken
<1>7. /\ confirmed[0] = <<>>
      /\ \A k \in 1..n : confirmed[k] = Taken(confirmed[k - 1], k)
  <2>1. 0 \in 0..n /\ \A k \in 1..n : k \in 0..n /\ k # 0
    OBVIOUS
  <2>2. \A k \in 0..n : confirmed[k] = IF k = 0 THEN <<>> ELSE Taken(confirmed[k - 1], k)
    BY ONLY <1>5, Zenon
  <2>3. QED BY ONLY <2>1, <2>2
<1>8. 0 \in T
  BY <1>1, <1>7
<1>9. ASSUME NEW m \in 0..(n - 1), m \in T PROVE m + 1 \in T
  <2>1. m + 1 \in 1..n /\ m + 1 \in 0..n /\ (m + 1) - 1 = m /\ Paired(confirmed[m], m)
    <3>1. m + 1 \in 1..n /\ m + 1 \in 0..n /\ (m + 1) - 1 = m
      BY ONLY n \in Nat, m \in 0..(n - 1)
    <3>2. QED BY <1>9, <3>1
  <2> HIDE DEF Paired
  <2>2. confirmed[m + 1] = Taken(confirmed[m], m + 1)
    BY ONLY <1>7, <2>1
  <2>3. Paired(Taken(confirmed[m], m + 1), m + 1)
    <3> DEFINE before == confirmed[m]
               next == m + 1
    <3>1. PairedUpTo(before, next - 1, api, logs, created, scanned) /\ next \in 1..n
      BY <2>1 DEF Paired
    <3> HIDE DEF before, next
    <3>2. PairedUpTo(Taken(before, next), next, api, logs, created, scanned)
      BY ONLY <3>1, PairedNext, n \in Nat, DOMAIN api = 1..n, size \in Nat,
              DOMAIN logs = 1..size DEF Taken
    <3>3. QED BY <3>2 DEF Paired, before, next
  <2>4. QED BY <2>1, <2>2, <2>3
<1>10. n \in T
  <2> HIDE DEF T
  <2>1. 0..n \subseteq T
    BY ONLY <1>8, <1>9, n \in Nat, UpTo
  <2>2. QED BY <2>1
<1>11. QED BY <1>6, <1>10

\* What a report found is finitely much.
LEMMA ListedFindings ==
    ASSUME NEW S, IsFiniteSet(S), NEW api \in SetToSeqs(S)
    PROVE  Cardinality(S) \in Nat /\ DOMAIN api = 1..Cardinality(S) /\ Len(api) = Cardinality(S)
<1>1. Cardinality(S) \in Nat
  BY FS_CardinalityType
<1>2. api \in [1..Cardinality(S) -> S]
  BY DEF SetToSeqs
<1>3. api \in Seq(S)
  BY <1>1, <1>2
<1>4. QED BY <1>1, <1>2, <1>3, LenProperties

LEMMA FoundIsFinite ==
    ASSUME IInv, report # None
    PROVE  IsFiniteSet(UNION {
             {[source |-> Sources[i], name |-> f.name, at |-> f.at]
                : f \in report.sources[i].result.findings \cup report.sources[i].result.stale}
             : i \in DOMAIN report.sources})
<1> DEFINE Found(i) == report.sources[i].result.findings \cup report.sources[i].result.stale
           Listed(i) == {[source |-> Sources[i], name |-> f.name, at |-> f.at] : f \in Found(i)}
           listed == [i \in 1..7 |-> Listed(i)]
<1>1. DOMAIN report.sources = 1..7 /\ \A k \in 1..7 : EntrySound(report, k)
  <2>1. report \in Run /\ RunSound(report) /\ Len(report.sources) = 7
    BY SourcesAre DEF IInv, TypeOK
  <2>2. report.sources \in Seq(Entry)
    BY <2>1 DEF Run, Entry, Answer
  <2>3. QED BY <2>1, <2>2, LenProperties DEF RunSound
<1>2. ASSUME NEW i \in 1..7 PROVE IsFiniteSet(listed[i])
  <2> DEFINE row == [f \in Found(i) |-> [source |-> Sources[i], name |-> f.name, at |-> f.at]]
  <2>1. IsFiniteSet(Found(i))
    BY <1>1, FS_Union DEF EntrySound, Finite
  <2>2. listed[i] = {row[f] : f \in Found(i)}
    OBVIOUS
  <2> HIDE DEF row, Found, listed
  <2>3. IsFiniteSet({row[f] : f \in Found(i)})
    BY ONLY <2>1, FiniteImage
  <2>4. QED BY ONLY <2>2, <2>3
<1>3. IsFiniteSet({listed[i] : i \in 1..7})
  <2>1. IsFiniteSet(1..7)
    BY ONLY 1 \in Int, 7 \in Int, FS_Interval
  <2> HIDE DEF listed
  <2>2. QED BY ONLY <2>1, FiniteImage
<1>4. IsFiniteSet(UNION {listed[i] : i \in 1..7})
  <2> HIDE DEF listed
  <2>1. \A t \in {listed[i] : i \in 1..7} : IsFiniteSet(t)
    BY <1>2
  <2>2. QED BY ONLY <1>3, <2>1, FS_UNION
<1>5. \A i \in 1..7 : listed[i] = Listed(i)
  OBVIOUS
<1>6. UNION {listed[i] : i \in 1..7} = UNION {Listed(i) : i \in DOMAIN report.sources}
  <2> HIDE DEF listed, Listed
  <2>1. QED BY ONLY <1>1, <1>5
<1>7. QED BY <1>4, <1>6

\* The test of the page is the one of the property.
LEMMA EchoesAreIncidents ==
    ASSUME NEW finding, NEW family, NEW created, NEW scanned
    PROVE  Echo(finding, family, created, scanned) <=> SameIncident(finding, family, created, scanned)
<1>1. CASE finding.at = None
  BY <1>1 DEF Echo, SameIncident
<1>2. CASE finding.at # None
  BY <1>2 DEF Echo, SameIncident
<1>3. QED BY <1>1, <1>2

\* Two findings that confirm each other are of one incident, none confirms two, and no two of
\* one incident are both left unconfirmed, states by the hour of their report, for any report,
\* any order in which it is listed, any log report and any hour in which that was made.
THEOREM EchoesArePaired == Spec => []EchoesPair
<1>1. IInv => EchoesPair
  <2> SUFFICES ASSUME IInv, report # None,
                      NEW api \in Listings(report), NEW logs \in LogFindings, NEW scanned \in Times
               PROVE  LET confirmed == Correlate(api, logs, report.moment, scanned)
                          Same(i, j) == SameIncident(api[i], logs[j], report.moment, scanned)
                      IN /\ \A i \in DOMAIN confirmed : Same(i, confirmed[i])
                         /\ \A i, k \in DOMAIN confirmed : confirmed[i] = confirmed[k] => i = k
                         /\ \A i \in DOMAIN api \ DOMAIN confirmed :
                               \A j \in DOMAIN logs :
                                  Same(i, j) => \E k \in DOMAIN confirmed : confirmed[k] = j
    BY DEF EchoesPair
  <2>1. PICK n \in Nat : DOMAIN api = 1..n /\ Len(api) = n
    BY FoundIsFinite, ListedFindings DEF Listings
  <2>2. PICK size \in Nat : DOMAIN logs = 1..size
    <3> DEFINE families == {Family[x] : x \in DOMAIN Family} \ {None}
    <3> HIDE DEF families
    <3>1. logs \in UNION {[1..k -> families] : k \in 0..2}
      BY DEF LogFindings, families
    <3>2. PICK k \in 0..2 : logs \in [1..k -> families]
      BY ONLY <3>1
    <3>3. QED BY ONLY <3>2
  <2>3. PairedUpTo(Correlate(api, logs, report.moment, scanned), n, api, logs, report.moment, scanned)
    BY <2>1, <2>2, CorrelatePairs
  <2>4. \A i, j : Echo(api[i], logs[j], report.moment, scanned)
                    <=> SameIncident(api[i], logs[j], report.moment, scanned)
    BY EchoesAreIncidents
  <2>5. QED BY <2>1, <2>3, <2>4 DEF PairedUpTo
<1>2. QED BY <1>1, FindingsInvariance, PTL

=============================================================================
