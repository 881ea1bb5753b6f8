---------------------------- MODULE MCCollection ----------------------------
(* Instances of Collection for TLC: a host with the log files that matter. *)
EXTENDS Collection

L(at, format, hit) == [at |-> at, format |-> format, hit |-> hit]

File(kind, category, rotated, mtime, lines) ==
    [kind |-> kind, category |-> category, rotated |-> rotated, mtime |-> mtime, lines |-> lines]

\* Days have two ticks and years eight; it is tick 11, of day 5 and year 1.
MCLogs == {
    File("directory", "storage", FALSE, 11, <<>>),
    File("text", "storage", FALSE, 11, <<L(9, "iso", TRUE), L(11, "iso", FALSE)>>),
    File("text", "storage", TRUE, 8, <<L(5, "iso", TRUE), L(7, "iso", TRUE)>>),
    File("binary", "storage", TRUE, 5, <<L(4, "iso", TRUE)>>),
    File("text", "kernel", FALSE, 11, <<L(6, "syslog", FALSE), L(10, "other", TRUE)>>)}

MCTrail == <<L(10, "iso", TRUE), L(11, "iso", FALSE)>>

Form(preset, from, to) == [preset |-> preset, from |-> from, to |-> to]

MCForms == {
    Form(None, None, None), Form("recent", None, None), Form("since_reboot", 4, None),
    Form("custom", 3, 3), Form("custom", None, 4)}

=============================================================================
