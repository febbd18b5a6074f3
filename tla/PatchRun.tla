------------------------------- MODULE PatchRun -------------------------------
(***************************************************************************)
(* What one run of cc-patcher promises whoever starts it (the docstring of *)
(* cc_patcher/cli.py): the output path is not touched before the whole     *)
(* plan has been accepted and applied in memory, it is written once, and   *)
(* the exit status says whether it was, and whether every patch matched.   *)
(***************************************************************************)
EXTENDS Integers

NoExit == -1          \* no exit status yet

VARIABLES
    asked,        \* "patch", "inform" or "misuse": what the command line asks
    verdict,      \* "open", then whether "all" or only "some" patches matched
    out,          \* the output path: "untouched", "torn" or "written"
    exit

promised == <<asked, verdict, out, exit>>

Running == exit = NoExit

Init ==
    /\ asked \in {"patch", "inform", "misuse"}
    /\ verdict = "open"
    /\ out = "untouched"
    /\ exit = NoExit

\* --list-patches, --list-providers, --emit-cache-key.
Answer ==
    /\ Running /\ asked = "inform"
    /\ exit' = 0
    /\ UNCHANGED <<asked, verdict, out>>

Refuse ==
    /\ Running /\ asked = "misuse"
    /\ exit' = 2
    /\ UNCHANGED <<asked, verdict, out>>

\* A fatal error leaves the output as it is.
Fail ==
    /\ Running
    /\ exit' = 1
    /\ UNCHANGED <<asked, verdict, out>>

\* The plan has been validated and applied in memory.
Decide ==
    /\ Running /\ asked = "patch"
    /\ verdict = "open"
    /\ verdict' \in {"all", "some"}
    /\ UNCHANGED <<asked, out, exit>>

BeginOutput ==
    /\ Running
    /\ verdict # "open" /\ out = "untouched"
    /\ out' = "torn"
    /\ UNCHANGED <<asked, verdict, exit>>

CompleteOutput ==
    /\ Running
    /\ out = "torn"
    /\ out' = "written"
    /\ UNCHANGED <<asked, verdict, exit>>

Succeed ==
    /\ Running
    /\ out = "written"
    /\ exit' = IF verdict = "all" THEN 0 ELSE 2
    /\ UNCHANGED <<asked, verdict, out>>

Next ==
    \/ Answer \/ Refuse \/ Fail
    \/ Decide \/ BeginOutput \/ CompleteOutput \/ Succeed

Spec == Init /\ [][Next]_promised
=============================================================================
