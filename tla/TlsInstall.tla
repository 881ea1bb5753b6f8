----------------------------- MODULE TlsInstall -----------------------------
(***************************************************************************)
(* The certificate of the built-in HTTPS: the container's entrypoint that  *)
(* generates one and starts nginx (docker/entrypoint.sh), the upload that  *)
(* replaces it (app/tls.py, settings_tls_upload), and nginx reading it.    *)
(*                                                                         *)
(* Certificate and key are two files.  The upload replaces one and then    *)
(* the other, nginx reads one and then the other, and a stop may fall      *)
(* anywhere.  The application is only reachable through nginx, so where    *)
(* nginx does not start nobody can upload a better pair.                   *)
(*                                                                         *)
(* Key pairs are told apart by name: a certificate and a key match when    *)
(* they carry the same.  The self-signed pairs share one name, because a   *)
(* start that generates leaves no file of an earlier pair beside its own.  *)
(* nginx is modelled from how entrypoint.sh and app/tls.py use it.         *)
(***************************************************************************)
EXTENDS Naturals

CONSTANTS
    Pairs,       \* key pairs operators have
    OwnPair,     \* the self-signed pair the entrypoint generates
    Missing,     \* no such file, or nothing read or loaded
    Broken,      \* a file that cannot be parsed, or a certificate that has expired
    MaxUploads,  \* bound: how many uploads are accepted
    MaxStops     \* bound: how often the container is stopped or dies

ASSUME TlsAssumption ==
    /\ OwnPair \notin Pairs
    /\ {Missing, Broken} \cap (Pairs \cup {OwnPair}) = {} /\ Missing # Broken
    /\ MaxUploads \in Nat /\ MaxStops \in Nat

VARIABLES
    container,  \* "down", "generating", "writing", "starting" or "serving"
    cert, key,  \* what the files cert.pem and key.pem hold
    upload,     \* the upload in install_certificate
    hup,        \* a SIGHUP is pending for nginx
    reading,    \* the certificate a reload of nginx has read, before it reads the key
    served,     \* the pair nginx has loaded
    uploads, stops,
    reported,   \* history: the pair last reported as saved, until another upload replaces it
    torn        \* history: a stop left a certificate without its key

fileVars == <<cert, key>>
nginxVars == <<hup, reading, served>>
tlsVars == <<container, fileVars, upload, nginxVars, uploads, stops, reported, torn>>

Loadable == Pairs \cup {OwnPair}
Files == Loadable \cup {Missing, Broken}
NoUpload == [at |-> "none", cert |-> Missing, key |-> Missing]

TlsTypeOK ==
    /\ container \in {"down", "generating", "writing", "starting", "serving"}
    /\ cert \in Files /\ key \in Files
    /\ upload \in [at : {"none", "written", "replacing", "replaced"}, cert : Files, key : Files]
    /\ hup \in BOOLEAN
    /\ reading \in Files /\ served \in Loadable \cup {Missing}
    /\ uploads \in 0 .. MaxUploads /\ stops \in 0 .. MaxStops
    /\ reported \in Loadable \cup {Missing}
    /\ torn \in BOOLEAN

TlsInit ==
    /\ container = "down"
    /\ cert = Missing /\ key = Missing
    /\ upload = NoUpload
    /\ hup = FALSE /\ reading = Missing /\ served = Missing
    /\ uploads = 0 /\ stops = 0
    /\ reported = Missing /\ torn = FALSE

-----------------------------------------------------------------------------
(* entrypoint.sh *)

\* An entrypoint that generates a pair at every start.
GenerateAlways == TRUE

\* Either file missing: only then a pair is generated.
MustGenerate == cert = Missing \/ key = Missing

Start ==
    /\ container = "down"
    /\ container' = IF MustGenerate THEN "generating" ELSE "starting"
    /\ UNCHANGED <<fileVars, upload, nginxVars, uploads, stops, reported, torn>>

\* openssl writes the key, then creates the certificate's file, then writes it.
GenerateKey ==
    /\ container = "generating"
    /\ key' = OwnPair /\ cert' = Broken
    /\ container' = "writing"
    /\ UNCHANGED <<upload, nginxVars, uploads, stops, reported, torn>>

GenerateCertificate ==
    /\ container = "writing"
    /\ cert' = OwnPair
    /\ container' = "starting"
    /\ UNCHANGED <<key, upload, nginxVars, uploads, stops, reported, torn>>

\* nginx loads the pair, or exits and takes the container down with it (wait -n).
StartNginx ==
    /\ container = "starting"
    /\ IF cert \in Loadable /\ key = cert
       THEN container' = "serving" /\ served' = cert
       ELSE container' = "down" /\ UNCHANGED served
    /\ UNCHANGED <<fileVars, upload, hup, reading, uploads, stops, reported, torn>>

-----------------------------------------------------------------------------
(* settings_tls_upload: one at a time, because install_certificate runs on the event loop *)

\* A validation that looks at each file alone.
ValidatesEach(c, k) == c # Broken /\ k # Broken

\* validate_certificate_pair
Validates(c, k) == c # Broken /\ k # Broken /\ c = k

\* install_certificate has written both temporary files; failing to do so changes nothing.
Upload(c, k) ==
    /\ container = "serving" /\ upload = NoUpload /\ uploads < MaxUploads
    /\ Validates(c, k)
    /\ upload' = [at |-> "written", cert |-> c, key |-> k]
    /\ uploads' = uploads + 1
    /\ UNCHANGED <<container, fileVars, nginxVars, stops, reported, torn>>

ReplaceCertificate ==
    /\ upload.at = "written"
    /\ cert' = upload.cert
    /\ upload' = [upload EXCEPT !.at = "replacing"]
    /\ reported' = Missing
    /\ UNCHANGED <<container, key, nginxVars, uploads, stops, torn>>

ReplaceKey ==
    /\ upload.at = "replacing"
    /\ key' = upload.key
    /\ upload' = [upload EXCEPT !.at = "replaced"]
    /\ UNCHANGED <<container, cert, nginxVars, uploads, stops, reported, torn>>

\* A signal sent only when none of nginx's reloads is under way.
SignalledWhenIdle == hup \/ reading = Missing

\* reload_nginx: whether a SIGHUP is pending when it returns.
Signalled == TRUE

ReloadNginx ==
    /\ upload.at = "replaced"
    /\ hup' = Signalled
    /\ upload' = NoUpload
    /\ reported' = upload.cert
    /\ UNCHANGED <<container, fileVars, reading, served, uploads, stops, torn>>

-----------------------------------------------------------------------------
(* nginx *)

\* The reload takes every signal sent so far and reads the certificate.
BeginReload ==
    /\ container = "serving" /\ hup /\ reading = Missing
    /\ hup' = FALSE
    /\ reading' = cert
    /\ UNCHANGED <<container, fileVars, upload, served, uploads, stops, reported, torn>>

\* It reads the key; a pair that does not match leaves the old configuration in force.
EndReload ==
    /\ reading # Missing
    /\ served' = IF reading \in Loadable /\ key = reading THEN reading ELSE served
    /\ reading' = Missing
    /\ UNCHANGED <<container, fileVars, upload, hup, uploads, stops, reported, torn>>

-----------------------------------------------------------------------------

\* The container is stopped, or one of its processes dies.
TlsStop ==
    /\ container # "down" /\ stops < MaxStops
    /\ container' = "down"
    /\ upload' = NoUpload
    /\ hup' = FALSE /\ reading' = Missing /\ served' = Missing
    /\ stops' = stops + 1
    /\ torn' = (torn \/ (cert # key /\ (upload.at = "replacing" \/ container = "writing")))
    /\ UNCHANGED <<fileVars, uploads, reported>>

TlsNext ==
    \/ Start \/ GenerateKey \/ GenerateCertificate \/ StartNginx
    \/ \E c, k \in Pairs \cup {Broken} : Upload(c, k)
    \/ ReplaceCertificate \/ ReplaceKey \/ ReloadNginx
    \/ BeginReload \/ EndReload

\* Docker restarts the container (unless-stopped), the entrypoint runs to its end, a handler
\* that began runs on, and nginx handles its signals.
TlsFairness ==
    /\ WF_tlsVars(Start \/ GenerateKey \/ GenerateCertificate \/ StartNginx)
    /\ WF_tlsVars(ReplaceCertificate \/ ReplaceKey \/ ReloadNginx)
    /\ WF_tlsVars(BeginReload) /\ WF_tlsVars(EndReload)

-----------------------------------------------------------------------------
(* Properties *)

\* Once uploads and stops are over nginx serves the pair that is stored, also when one of
\* its reloads read half of a later upload - unless a stop left a certificate without its
\* key, from which the container does not come back.
\* (install_certificate signals after the second os.replace; entrypoint.sh; the stop
\* between the two is the exception.)
ServesWhatIsStored ==
    <>[](torn \/ (container = "serving" /\ cert = key /\ served = cert))

\* A pair that was reported as saved is what is stored, whole, through every stop and
\* start, until another upload begins to replace it.
\* (entrypoint.sh generates only when a file is missing; an upload never leaves one out.)
ReportedPairStays ==
    reported # Missing => cert = reported /\ key = reported

=============================================================================
