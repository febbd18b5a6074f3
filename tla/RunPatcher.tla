------------------------------ MODULE RunPatcher ------------------------------
(***************************************************************************)
(* One run of the cc-patcher command (cc_patcher/cli.py): importing the    *)
(* registry, the command line, run_patcher, and the exit status.  The plan *)
(* run_patcher assembles is validated and applied by the steps of          *)
(* EditApplier, whose variables this module shares.                        *)
(*                                                                         *)
(* Providers are other packages: Discover(patch, b, c) is the list of      *)
(* edits a patch's discover() returns for the image b and its context c.   *)
(* A patch is a record with [key, counted, lo, hi, raises]; raises says    *)
(* that discover() raises.                                                 *)
(***************************************************************************)
EXTENDS EditApplier, Registry

CONSTANTS
    Patches,          \* the patches that providers register
    Discover(_, _, _),   \* the edits a patch finds in an image
    Environments,     \* entry points that may be installed, as lists
    Commands          \* the command lines to consider

AllCommands == {"patch", "no_output", "no_source", "list", "emit_cache_key"}

ASSUME CommandsAssumption == Commands \subseteq AllCommands

EntryPoint == [name : Int, loads : BOOLEAN, patches : Seq(Patches)]

ASSUME EnvironmentsAssumption == Environments \subseteq Seq(EntryPoint)

ASSUME PatchesAssumption ==
    \A p \in Patches : /\ p.counted \in BOOLEAN /\ p.raises \in BOOLEAN
                       /\ p.lo \in Nat /\ p.hi \in Nat \cup {UNBOUNDED}
                       /\ p.key \in Seq(Int)

ASSUME DiscoverAssumption ==
    \A p \in Patches, b \in Images :
        Parses(b) => Discover(p, b, Parse(b)) \in Seq(Edit)

\* A patch gives as old what it found in the image.
ASSUME OldTextAssumption ==
    \A p \in Patches, b \in Images :
        Parses(b) => LET found == Discover(p, b, Parse(b))
                     IN \A n \in 1..Len(found) : Matches(b, found[n])

\* The file at the output path: as the run found it, being written, written.
Untouched == [status |-> "untouched", cells |-> <<>>]
Torn == [status |-> "torn", cells |-> <<>>]
Written(cells) == [status |-> "written", cells |-> cells]

VARIABLES
    eps,        \* the installed entry points, in the order they are listed
    command,    \* what the command line asks for
    disk,       \* "bad" if reading the source or writing the output may fail
    stage,      \* where the run is; "apply" while EditApplier's pc moves
    k,          \* index of the loop stage is in
    PATCHES,
    results,    \* PatchResult by patch: [emitted, applied]
    dst,        \* the file at the output path
    exit        \* the exit status, NoExit while the run lasts

input == <<image, eps, command, disk>>
applier == <<ctx, sorted, pc, i, buf>>
run_vars == <<input, applier, edits, stage, k, PATCHES, results, dst, exit>>

NoExit == -1

Exit(code) == exit' = code /\ stage' = "exited"

\* An exception nobody catches, or SystemExit with a message.
Fatal == Exit(1)

\* The state before the import; validate and apply have not begun.
RunInit ==
    /\ image \in Images
    /\ eps \in Environments
    /\ command \in Commands
    /\ disk \in {"good", "bad"}
    /\ stage = "import"
    /\ k = 1
    /\ PATCHES = <<>>
    /\ results = <<>>
    /\ edits = <<>>
    /\ ctx = <<>>
    /\ sorted = <<>>
    /\ pc = "sort"
    /\ i = 1
    /\ buf = image
    /\ dst = Untouched
    /\ exit = NoExit

-----------------------------------------------------------------------------
(* Importing cc_patcher.patches, for any command.                          *)

\* One iteration of discover_patches.
LoadProvider ==
    /\ stage = "import"
    /\ k <= Len(eps)
    /\ LET ep == DiscoverEntryPoints(eps)[k]
       IN IF ep.loads
          THEN /\ PATCHES' = PATCHES \o ep.patches
               /\ k' = k + 1
               /\ UNCHANGED <<stage, exit>>
          ELSE Fatal /\ UNCHANGED <<PATCHES, k>>
    /\ UNCHANGED <<input, applier, edits, results, dst>>

ImportDone ==
    /\ stage = "import"
    /\ k > Len(eps)
    /\ stage' = "main"
    /\ UNCHANGED <<input, applier, edits, k, PATCHES, results, dst, exit>>

\* The commands that only print.
Inform ==
    /\ stage = "main"
    /\ command \in {"list", "emit_cache_key"}
    /\ Exit(0)
    /\ UNCHANGED <<input, applier, edits, k, PATCHES, results, dst>>

\* parser.error: a path is missing, or the source is no file.
Misuse ==
    /\ stage = "main"
    /\ command \in {"no_output", "no_source"}
    /\ Exit(2)
    /\ UNCHANGED <<input, applier, edits, k, PATCHES, results, dst>>

-----------------------------------------------------------------------------
(* run_patcher                                                             *)

\* An OSError at src.read_bytes, at dst.write_bytes before or after it has
\* truncated the output, or at copymode.
IOFails ==
    /\ disk = "bad"
    /\ stage \in {"read", "write", "copymode"} \/ (stage = "apply" /\ pc = "done")
    /\ Fatal
    /\ UNCHANGED <<input, applier, edits, k, PATCHES, results, dst>>

BeginRun ==
    /\ stage = "main"
    /\ command = "patch"
    /\ stage' = "read"
    /\ UNCHANGED <<input, applier, edits, k, PATCHES, results, dst, exit>>

\* src.read_bytes and context.parse.
ReadSource ==
    /\ stage = "read"
    /\ IF Parses(image)
       THEN ctx' = Parse(image) /\ stage' = "discover" /\ exit' = exit
       ELSE ctx' = ctx /\ Fatal
    /\ k' = 1
    /\ UNCHANGED <<input, edits, sorted, pc, i, buf, PATCHES, results, dst>>

Record(emitted, applied) ==
    /\ results' = Append(results, [emitted |-> emitted, applied |-> applied])
    /\ k' = k + 1

DiscoverRaises ==
    /\ stage = "discover"
    /\ k <= Len(PATCHES)
    /\ PATCHES[k].raises
    /\ Fatal
    /\ UNCHANGED <<input, applier, edits, k, PATCHES, results, dst>>

\* if not edits, which comes before any look at expect_count.
DiscoverNothing(found) ==
    /\ Len(found) = 0
    /\ Record(0, 0)
    /\ edits' = edits

\* Mutant: the edits are in the plan before they are counted.
DiscoverUnexpectedKept(found) ==
    /\ Len(found) > 0
    /\ Unexpected(PATCHES[k], Len(found))
    /\ Record(Len(found), 0)
    /\ edits' = edits \o found

DiscoverUnexpected(found) ==
    /\ Len(found) > 0
    /\ Unexpected(PATCHES[k], Len(found))
    /\ Record(Len(found), 0)
    /\ edits' = edits

\* plan.edits.extend
DiscoverEdits(found) ==
    /\ Len(found) > 0
    /\ ~Unexpected(PATCHES[k], Len(found))
    /\ Record(Len(found), Len(found))
    /\ edits' = edits \o found

\* One iteration of the loop over PATCHES.
DiscoverPatch ==
    /\ stage = "discover"
    /\ k <= Len(PATCHES)
    /\ ~PATCHES[k].raises
    /\ \E found \in {Discover(PATCHES[k], image, ctx)} :
          DiscoverNothing(found) \/ DiscoverUnexpected(found) \/ DiscoverEdits(found)
    /\ UNCHANGED <<input, applier, stage, PATCHES, dst, exit>>

DiscoverDone ==
    /\ stage = "discover"
    /\ k > Len(PATCHES)
    /\ stage' = "apply"
    /\ UNCHANGED <<input, applier, edits, k, PATCHES, results, dst, exit>>

\* plan.validate and applier.apply, step by step.
ValidateAndApply ==
    /\ stage = "apply"
    /\ pc \notin Outcomes
    /\ Next
    /\ UNCHANGED <<eps, command, disk, stage, k, PATCHES, results, dst, exit>>

\* Mutant: the patches are asked once more, without a limit, instead of
\* giving up on a plan that cannot be used.
PlanFailsRetrying ==
    /\ stage = "apply"
    /\ pc \in Outcomes \ {"done"}
    /\ stage' = "discover"
    /\ k' = 1
    /\ edits' = <<>>
    /\ results' = <<>>
    /\ sorted' = <<>>
    /\ pc' = "sort"
    /\ i' = 1
    /\ buf' = image
    /\ UNCHANGED <<input, ctx, PATCHES, dst, exit>>

\* SystemExit for a rejected plan; a RuntimeError or a MachOFormatError passes
\* through.
PlanFails ==
    /\ stage = "apply"
    /\ pc \in Outcomes \ {"done"}
    /\ Fatal
    /\ UNCHANGED <<input, applier, edits, k, PATCHES, results, dst>>

\* Mutant: the output is opened before the plan has been validated.
OpenOutputEarly ==
    /\ stage = "apply"
    /\ dst.status = "untouched" \/ pc = "done"
    /\ stage' = IF pc = "done" THEN "write" ELSE stage
    /\ dst' = Torn
    /\ UNCHANGED <<input, applier, edits, k, PATCHES, results, exit>>

\* dst.write_bytes truncates the output and writes it in place.
OpenOutput ==
    /\ stage = "apply"
    /\ pc = "done"
    /\ stage' = "write"
    /\ dst' = Torn
    /\ UNCHANGED <<input, applier, edits, k, PATCHES, results, exit>>

FinishOutput ==
    /\ stage = "write"
    /\ stage' = "copymode"
    /\ dst' = Written(buf)
    /\ UNCHANGED <<input, applier, edits, k, PATCHES, results, exit>>

\* Mutant: a patch that emitted edits counts as applied.
MissedIfSilent == {n \in DOMAIN results : ~(results[n].emitted > 0)}

\* PatchRunSummary.missed: the patches of which no edit was applied.
MissedResults == {n \in DOMAIN results : ~(results[n].applied > 0)}

\* Mutant: the exit status is the number of patches that missed.
FinishCounting ==
    /\ stage = "copymode"
    /\ Exit(Cardinality(MissedResults))
    /\ UNCHANGED <<input, applier, edits, k, PATCHES, results, dst>>

\* copymode, or _codesign, which never fails a run; the summary, exit_code.
Finish ==
    /\ stage = "copymode"
    /\ Exit(IF MissedResults # {} THEN 2 ELSE 0)
    /\ UNCHANGED <<input, applier, edits, k, PATCHES, results, dst>>

Exited == stage = "exited" /\ UNCHANGED run_vars

-----------------------------------------------------------------------------

\* Every step but reading the source and those of EditApplier: they move
\* stage or k.
Orchestrate ==
    \/ LoadProvider \/ ImportDone \/ Inform \/ Misuse \/ BeginRun
    \/ DiscoverRaises \/ DiscoverPatch \/ DiscoverDone
    \/ PlanFails \/ OpenOutput \/ FinishOutput \/ Finish

RunNext == Orchestrate \/ ReadSource \/ ValidateAndApply \/ IOFails \/ Exited

RunSpec == RunInit /\ [][RunNext]_run_vars

\* The command is sequential code: unless it is killed, it goes on.  A source
\* that is being read is read in the end: ReadSource can be taken all along,
\* so this is its weak fairness without the parsing that ENABLED would ask for.
FairRunSpec ==
    /\ RunSpec
    /\ WF_<<stage, k>>(Orchestrate)
    /\ WF_<<pc, i>>(ValidateAndApply)
    /\ []<>(stage # "read")
=============================================================================
