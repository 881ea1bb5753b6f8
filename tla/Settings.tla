------------------------------ MODULE Settings ------------------------------
(***************************************************************************)
(* The settings page: the Xen Orchestra connection and the certificate of  *)
(* the container that serves the page.  Requests reach the application     *)
(* through nginx, and a container that stops takes the tests under way     *)
(* and the upload with it.                                                 *)
(***************************************************************************)
EXTENDS XoConnection, TlsInstall

settingsVars == <<xoVars, tlsVars>>

SettingsTypeOK == XoTypeOK /\ TlsTypeOK

SettingsInit == XoInit /\ TlsInit

HandleXo == container = "serving" /\ XoNext /\ UNCHANGED tlsVars

HandleTls == TlsNext /\ UNCHANGED xoVars

Stop == TlsStop /\ XoStop

SettingsNext == HandleXo \/ HandleTls \/ Stop

SettingsSpec == SettingsInit /\ [][SettingsNext]_settingsVars /\ TlsFairness

=============================================================================
