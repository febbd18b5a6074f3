---------------------------- MODULE FindProperties ----------------------------
(* What the search for the binary must do while Claude Code is upgraded.   *)
EXTENDS FindBinary

Raised == pc \in {"not_found", "not_native"}
BySearch == pc = "found" /\ (env = Unset \/ result # env)

\* The search does not fail while Claude Code is installed, however often the
\* installer switches the link or takes it away for a moment, unless a version
\* is removed meanwhile: what the links miss, the list of versions has, and the
\* other way round (launch.py:77-88).
FailsOnlyIfRemoved == Raised => removed

\* If the link was there all the time, the search returns no older version
\* than was current when it began, whatever comes first by name; only when the
\* version it had resolved the link to was removed may it settle for the local
\* installation (launch.py:77-88).
FoundIsCurrent ==
    BySearch /\ ~gap =>
        \/ \E v \in led : v <= result
        \/ removed /\ result = LocalPath

\* If the link was there all the time, a path the search returns is not a link:
\* reading it twice, for the key and for the build, reads one version
\* (launch.py:39-46, 85-88).
FoundIsNoLink == BySearch /\ ~gap => result # LinkPath

\* The link a launcher returns leads to a file as long as the installer takes
\* nothing away, except after a fatal error when the variable names that very
\* link, which then leads to itself; the next launch does not take it for the
\* binary then (launch.py:73-74, 185, 212).
ReturnedLinkLeads ==
    pc = "returned" /\ ~gap /\ ~removed =>
        IsFile(CachePath) \/ (cache = CachePath /\ env = CachePath)

\* Every search that has begun ends, with a path or with an exception, whatever
\* the installer does meanwhile (launch.py:69-104).
SearchEnds == pc = "env" ~> pc \in {"found", "not_found", "not_native"}
=============================================================================
