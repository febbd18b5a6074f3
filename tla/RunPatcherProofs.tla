--------------------------- MODULE RunPatcherProofs ---------------------------
(***************************************************************************)
(* For every image, every set of providers and whatever their patches      *)
(* find: a run keeps the contract of PatchRun, its exit status says what   *)
(* became of the patches, each of them is applied whole or not at all, a   *)
(* run that gives up has one of the reasons given, and one that succeeds   *)
(* leaves the texts of the input with the edits of the patches that        *)
(* matched.                                                                *)
(*                                                                         *)
(* The argument: the loop over the registry files every patch it has done  *)
(* under applied, missed or unexpected, and puts its edits into the plan   *)
(* only when it files it under applied, so the plan's edits and the        *)
(* emissions of the applied patches match one to one; validate orders them *)
(* and the splices use each once.  From the moment the plan is complete,   *)
(* what PatchedImageProofs says of the applier holds in the run.           *)
(***************************************************************************)
EXTENDS PatchedRun, PatchedImageProofs, RegistryProofs

\* Where a run is decides what has happened to the output, and whether the
\* plan has been applied.
ControlInv ==
    /\ stage # "exited" => exit = NoExit
    /\ stage \in {"read", "discover", "apply", "write", "copymode"} =>
           command = "patch"
    /\ stage \in {"import", "main", "read", "discover"} => pc = "sort"
    /\ stage \in {"import", "main", "read", "discover", "apply"} => dst = Untouched
    /\ stage = "write" => dst = Torn /\ pc = "done"
    /\ stage = "copymode" => dst = Written(buf) /\ pc = "done"

LEMMA ControlInit == RunInit => ControlInv
BY DEF RunInit, ControlInv

LEMMA ControlStep == ControlInv /\ [RunNext]_run_vars => ControlInv'
<1> SUFFICES ASSUME ControlInv, [RunNext]_run_vars PROVE ControlInv'
  OBVIOUS
<1> USE DEF ControlInv, Exit, Fatal, input, applier, NoExit
<1>1. CASE LoadProvider
  BY <1>1 DEF LoadProvider
<1>2. CASE ImportDone
  BY <1>2 DEF ImportDone
<1>3. CASE Inform
  BY <1>3 DEF Inform
<1>4. CASE Misuse
  BY <1>4 DEF Misuse
<1>5. CASE BeginRun
  BY <1>5 DEF BeginRun
<1>6. CASE ReadSource
  BY <1>6 DEF ReadSource
<1>7. CASE DiscoverRaises
  BY <1>7 DEF DiscoverRaises
<1>8. CASE DiscoverPatch
  BY <1>8 DEF DiscoverPatch
<1>9. CASE DiscoverDone
  BY <1>9 DEF DiscoverDone
<1>10. CASE ValidateAndApply
  BY <1>10 DEF ValidateAndApply
<1>11. CASE PlanFails
  BY <1>11 DEF PlanFails
<1>12. CASE OpenOutput
  BY <1>12 DEF OpenOutput
<1>13. CASE FinishOutput
  BY <1>13 DEF FinishOutput
<1>14. CASE Finish
  BY <1>14 DEF Finish
<1>15. CASE IOFails
  BY <1>15 DEF IOFails
<1>16. CASE Exited \/ UNCHANGED run_vars
  BY <1>16 DEF Exited, run_vars
<1> QED
  BY <1>1, <1>2, <1>3, <1>4, <1>5, <1>6, <1>7, <1>8, <1>9, <1>10, <1>11, <1>12,
     <1>13, <1>14, <1>15, <1>16 DEF RunNext, Orchestrate

LEMMA ControlAlways == RunSpec => []ControlInv
BY ControlInit, ControlStep, PTL DEF RunSpec

-----------------------------------------------------------------------------

\* Every step of a run is a step of the contract, or changes nothing in it.
LEMMA ContractStep ==
    ControlInv /\ [RunNext]_run_vars => [Contract!Next]_(Contract!promised)
<1> SUFFICES ASSUME ControlInv, [RunNext]_run_vars
             PROVE  Contract!Next \/ UNCHANGED Contract!promised
  OBVIOUS
<1> USE DEF ControlInv, Exit, Fatal, input, applier, NoExit, Contract!NoExit,
            Contract!promised, Contract!Running
<1> DEFINE Same == Asked' = Asked /\ Verdict' = Verdict
<1>0. /\ command' = command /\ pc' = pc /\ results' = results => Same
      /\ command' = command /\ pc' # "done" /\ pc # "done" => Same
  BY DEF Asked, Verdict, MissedResults
<1> HIDE DEF Same
<1>A. Same => Asked' = Asked /\ Verdict' = Verdict
  BY DEF Same
<1>F. ASSUME exit = NoExit, exit' = 1, dst' = dst, Same
      PROVE  Contract!Next
  BY <1>F, <1>A DEF Contract!Next, Contract!Fail
<1>S. ASSUME exit' = exit, dst' = dst, Same
      PROVE  UNCHANGED Contract!promised
  BY <1>S, <1>A
<1>1. CASE LoadProvider
  BY <1>1, <1>0, <1>F, <1>S DEF LoadProvider
<1>2. CASE ImportDone
  BY <1>2, <1>0, <1>S DEF ImportDone
<1>3. CASE Inform
  <2>1. Asked = "inform" /\ Same /\ exit = NoExit /\ exit' = 0 /\ dst' = dst
    BY <1>3, <1>0 DEF Inform, Asked
  <2> QED
    BY <1>A, <2>1 DEF Contract!Next, Contract!Answer
<1>4. CASE Misuse
  <2>1. Asked = "misuse" /\ Same /\ exit = NoExit /\ exit' = 2 /\ dst' = dst
    BY <1>4, <1>0 DEF Misuse, Asked
  <2> QED
    BY <1>A, <2>1 DEF Contract!Next, Contract!Refuse
<1>5. CASE BeginRun
  BY <1>5, <1>0, <1>S DEF BeginRun
<1>6. CASE ReadSource
  BY <1>6, <1>0, <1>F, <1>S DEF ReadSource
<1>7. CASE DiscoverRaises
  BY <1>7, <1>0, <1>F DEF DiscoverRaises
<1>8. CASE DiscoverPatch
  BY <1>8, <1>0, <1>S DEF DiscoverPatch
<1>9. CASE DiscoverDone
  BY <1>9, <1>0, <1>S DEF DiscoverDone
<1>10. CASE ValidateAndApply
  <2>1. /\ stage = "apply" /\ exit' = exit /\ exit = NoExit /\ dst' = dst
        /\ command' = command /\ command = "patch" /\ pc # "done"
    BY <1>10 DEF ValidateAndApply, Outcomes
  <2>2. CASE pc' # "done"
    BY <1>0, <1>S, <2>1, <2>2
  <2>3. CASE pc' = "done"
    <3>1. Asked = "patch" /\ Asked' = Asked
      BY <2>1 DEF Asked
    <3>2. Verdict = "open" /\ Verdict' \in {"all", "some"}
      BY <2>1, <2>3 DEF Verdict
    <3> QED
      BY <2>1, <3>1, <3>2 DEF Contract!Next, Contract!Decide
  <2> QED
    BY <2>2, <2>3
<1>11. CASE PlanFails
  BY <1>11, <1>0, <1>F DEF PlanFails
<1>12. CASE OpenOutput
  <2>1. /\ Same /\ exit' = exit /\ exit = NoExit
        /\ pc = "done" /\ dst = Untouched /\ dst' = Torn
    BY <1>12, <1>0 DEF OpenOutput
  <2>2. Verdict # "open"
    BY <2>1 DEF Verdict
  <2>3. dst.status = "untouched" /\ dst'.status = "torn"
    BY <2>1 DEF Untouched, Torn
  <2> QED
    BY <1>A, <2>1, <2>2, <2>3 DEF Contract!Next, Contract!BeginOutput
<1>13. CASE FinishOutput
  <2>1. /\ Same /\ exit' = exit /\ exit = NoExit
        /\ dst = Torn /\ dst' = Written(buf)
    BY <1>13, <1>0 DEF FinishOutput
  <2>2. dst.status = "torn" /\ dst'.status = "written"
    BY <2>1 DEF Torn, Written
  <2> QED
    BY <1>A, <2>1, <2>2 DEF Contract!Next, Contract!CompleteOutput
<1>14. CASE Finish
  <2>1. /\ Same /\ exit = NoExit /\ pc = "done"
        /\ exit' = (IF MissedResults # {} THEN 2 ELSE 0)
        /\ dst' = dst /\ dst = Written(buf)
    BY <1>14, <1>0 DEF Finish
  <2>2. dst.status = "written"
    BY <2>1 DEF Written
  <2>3. Verdict = IF MissedResults = {} THEN "all" ELSE "some"
    BY <2>1 DEF Verdict
  <2> QED
    BY <1>A, <2>1, <2>2, <2>3 DEF Contract!Next, Contract!Succeed
<1>15. CASE IOFails
  BY <1>15, <1>0, <1>F DEF IOFails
<1>16. CASE Exited \/ UNCHANGED run_vars
  BY <1>16, <1>0, <1>S DEF Exited, run_vars
<1> QED
  BY <1>1, <1>2, <1>3, <1>4, <1>5, <1>6, <1>7, <1>8, <1>9, <1>10, <1>11, <1>12,
     <1>13, <1>14, <1>15, <1>16 DEF RunNext, Orchestrate

\* A run does what PatchRun promises, whatever is installed, whatever the
\* patches find and whatever the disk does: nothing touches the output before
\* the whole plan has been validated and applied in memory, and the exit status
\* says what became of it (cli.py:115-178).
THEOREM RunKeepsContract == RunSpec => KeepsContract
<1>1. RunInit => Contract!Init
  BY DEF RunInit, Contract!Init, Asked, Verdict, Untouched, NoExit, Contract!NoExit
<1>2. ControlInv /\ [RunNext]_run_vars => [Contract!Next]_(Contract!promised)
  BY ContractStep
<1> QED
  BY <1>1, <1>2, ControlAlways, PTL DEF RunSpec, KeepsContract, Contract!Spec

-----------------------------------------------------------------------------
(* Types.                                                                  *)

Parsed == {"discover", "apply", "write", "copymode"}

TypeInv ==
    /\ image \in Images /\ eps \in Environments /\ PATCHES \in Seq(Patches)
    /\ stage \in Parsed => Parses(image) /\ ctx = Parse(image)
    /\ edits \in Seq(Edit)
    /\ RunTypeOK

\* validate and apply leave the image, its context and the plan alone.
LEMMA ApplierLeaves ==
    ASSUME [Next]_vars
    PROVE  image' = image /\ ctx' = ctx /\ edits' = edits
BY DEF Next, vars, Sort, CheckNeighbours, CheckRegions, SpliceSameLength,
       SameLengthDone, SpliceGrowable, RewriteStringPointers, InvalidateBytecode,
       RewriteBunFraming, RewriteElfHeaders, RewriteMachOHeaders, Finished

\* What the loop over the entry points loads is installed.
LEMMA EntryPointsAre ==
    ASSUME eps \in Environments
    PROVE  /\ Len(eps) \in Nat
           /\ \A n \in 1..Len(eps) : eps[n] \in EntryPoint
           /\ \A n \in 1..Len(eps) : \E j \in 1..Len(eps) :
                  DiscoverEntryPoints(eps)[n] = eps[j]
           /\ \A j \in 1..Len(eps) : \E n \in 1..Len(eps) :
                  DiscoverEntryPoints(eps)[n] = eps[j]
<1>1. eps \in Seq(EntryPoint)
  BY EnvironmentsAssumption
<1>2. Len(eps) \in Nat /\ \A n \in 1..Len(eps) : eps[n] \in EntryPoint
  BY <1>1, LenProperties, ElementOfSeq
<1>3. \A n \in 1..Len(eps) : eps[n].name \in Int
  BY <1>2 DEF EntryPoint
<1>4. \A n \in 1..Len(eps) : \E j \in 1..Len(eps) :
          DiscoverEntryPoints(eps)[n] = eps[j]
  BY <1>2, <1>3, EntryPointsSorted
<1>5. ASSUME NEW j \in 1..Len(eps)
      PROVE  \E n \in 1..Len(eps) : DiscoverEntryPoints(eps)[n] = eps[j]
  <2>1. NamePlace(eps, j) \in 1..Len(eps)
    BY <1>2, <1>3, PlaceIsPlace
  <2>2. DiscoverEntryPoints(eps)[NamePlace(eps, j)] = eps[j]
    BY <1>2, <1>3, EntryPointsSorted
  <2> QED
    BY <2>1, <2>2
<1> QED
  BY <1>2, <1>4, <1>5

\* What a patch finds is a list of edits.
LEMMA FoundIsEdits ==
    ASSUME TypeInv, stage = "discover", k <= Len(PATCHES)
    PROVE  /\ PATCHES[k] \in Patches /\ k \in 1..Len(PATCHES) /\ Len(PATCHES) \in Nat
           /\ Discover(PATCHES[k], image, ctx) \in Seq(Edit)
           /\ Len(Discover(PATCHES[k], image, ctx)) \in Nat
<1>1. Len(PATCHES) \in Nat /\ k \in 1..Len(PATCHES)
  BY LenProperties DEF TypeInv, RunTypeOK
<1>2. PATCHES[k] \in Patches
  BY <1>1, ElementOfSeq DEF TypeInv
<1>3. Discover(PATCHES[k], image, ctx) \in Seq(Edit)
  BY <1>2, DiscoverAssumption DEF TypeInv, Parsed
<1> QED
  BY <1>1, <1>2, <1>3, LenProperties

LEMMA TypeInit == RunInit => TypeInv
<1> SUFFICES ASSUME RunInit PROVE TypeInv
  OBVIOUS
<1>1. <<>> \in Seq(Patches) /\ <<>> \in Seq(Edit) /\ <<>> \in Seq(PatchResult)
  BY EmptySeq
<1> QED
  BY <1>1, CommandsAssumption
  DEF RunInit, TypeInv, RunTypeOK, Parsed, Stages, Untouched, NoExit

LEMMA TypeStep == TypeInv /\ [RunNext]_run_vars => TypeInv'
<1> SUFFICES ASSUME TypeInv, [RunNext]_run_vars PROVE TypeInv'
  OBVIOUS
<1> USE DEF TypeInv, RunTypeOK, Parsed, Stages, Exit, Fatal, input, applier, NoExit
<1>1. CASE LoadProvider
  <2> DEFINE ep == DiscoverEntryPoints(eps)[k]
  <2>0. k \in 1..Len(eps)
    BY <1>1, EntryPointsAre DEF LoadProvider
  <2>1. ep \in EntryPoint
    <3>1. PICK j \in 1..Len(eps) : ep = eps[j]
      BY <2>0, EntryPointsAre
    <3> HIDE DEF ep
    <3> QED
      BY <3>1, EntryPointsAre
  <2>2. PATCHES \o ep.patches \in Seq(Patches)
    <3>1. ep.patches \in Seq(Patches)
      BY <2>1 DEF EntryPoint
    <3> HIDE DEF ep
    <3> QED
      BY <3>1, ConcatProperties
  <2>3. /\ PATCHES' \in {PATCHES, PATCHES \o ep.patches}
        /\ k' \in {k, k + 1} /\ stage' \in {"import", "exited"} /\ exit' \in {exit, 1}
        /\ UNCHANGED <<image, eps, command, disk, edits, results, dst>>
    BY <1>1 DEF LoadProvider
  <2>4. PATCHES' \in Seq(Patches)
    BY <2>2, <2>3
  <2>5. k' \in Nat \ {0} /\ stage' \notin Parsed /\ stage' \in Stages
        /\ exit' \in {NoExit, 0, 1, 2}
    BY <2>3
  <2> HIDE DEF ep
  <2> QED
    BY <2>3, <2>4, <2>5
<1>2. CASE ImportDone
  BY <1>2 DEF ImportDone
<1>3. CASE Inform
  BY <1>3 DEF Inform
<1>4. CASE Misuse
  BY <1>4 DEF Misuse
<1>5. CASE BeginRun
  BY <1>5 DEF BeginRun
<1>6. CASE ReadSource
  BY <1>6 DEF ReadSource
<1>7. CASE DiscoverRaises
  BY <1>7 DEF DiscoverRaises
<1>8. CASE DiscoverPatch
  <2> DEFINE found == Discover(PATCHES[k], image, ctx)
  <2>1. found \in Seq(Edit) /\ Len(found) \in Nat
    BY <1>8, FoundIsEdits DEF DiscoverPatch
  <2>2. DiscoverNothing(found) \/ DiscoverUnexpected(found) \/ DiscoverEdits(found)
    BY <1>8 DEF DiscoverPatch
  <2>3. edits' \in {edits, edits \o found}
    BY <2>2 DEF DiscoverNothing, DiscoverUnexpected, DiscoverEdits
  <2>4. \E r \in PatchResult : results' = Append(results, r)
    BY <2>1, <2>2
    DEF DiscoverNothing, DiscoverUnexpected, DiscoverEdits, Record, PatchResult
  <2>5. k' = k + 1
    BY <2>2 DEF DiscoverNothing, DiscoverUnexpected, DiscoverEdits, Record
  <2> HIDE DEF found
  <2>6. edits' \in Seq(Edit)
    <3>1. edits \in Seq(Edit)
      OBVIOUS
    <3>2. edits \o found \in Seq(Edit)
      BY <2>1, <3>1, ConcatProperties
    <3> QED
      BY <2>3, <3>1, <3>2
  <2>7. results' \in Seq(PatchResult)
    BY <2>4, AppendProperties
  <2> QED
    BY <1>8, <2>5, <2>6, <2>7 DEF DiscoverPatch
<1>9. CASE DiscoverDone
  BY <1>9 DEF DiscoverDone
<1>10. CASE ValidateAndApply
  <2>1. image' = image /\ ctx' = ctx /\ edits' = edits
    BY <1>10, ApplierLeaves DEF ValidateAndApply
  <2> QED
    BY <1>10, <2>1 DEF ValidateAndApply
<1>11. CASE PlanFails
  BY <1>11 DEF PlanFails
<1>12. CASE OpenOutput
  BY <1>12 DEF OpenOutput, Torn
<1>13. CASE FinishOutput
  BY <1>13 DEF FinishOutput, Written
<1>14. CASE Finish
  BY <1>14 DEF Finish
<1>15. CASE IOFails
  BY <1>15 DEF IOFails
<1>16. CASE Exited \/ UNCHANGED run_vars
  BY <1>16 DEF Exited, run_vars
<1> QED
  BY <1>1, <1>2, <1>3, <1>4, <1>5, <1>6, <1>7, <1>8, <1>9, <1>10, <1>11, <1>12,
     <1>13, <1>14, <1>15, <1>16 DEF RunNext, Orchestrate

LEMMA TypeAlways == RunSpec => []TypeInv
BY TypeInit, TypeStep, PTL DEF RunSpec

\* Every variable of a run keeps its type.
THEOREM RunTypes == RunSpec => []RunTypeOK
<1>1. TypeInv => RunTypeOK
  BY DEF TypeInv
<1> QED
  BY <1>1, TypeAlways, PTL

-----------------------------------------------------------------------------
(* The registry and its key.                                               *)

\* What discover_patches has loaded so far.
RegistryInv ==
    /\ stage = "import" => k - 1 \in 0..Len(eps) /\ PATCHES = PatchesOf(eps, k - 1)
    /\ stage = "main" => PATCHES = PatchesOf(eps, Len(eps))

\* Every list of the provider that is loaded next holds patches.
LEMMA LoadedArePatches ==
    ASSUME eps \in Environments, NEW n \in 1..Len(eps)
    PROVE  DiscoverEntryPoints(eps)[n].patches \in Seq(Patches)
<1> DEFINE ep == DiscoverEntryPoints(eps)[n]
<1>1. PICK j \in 1..Len(eps) : ep = eps[j]
  BY EntryPointsAre
<1> HIDE DEF ep
<1>2. ep \in EntryPoint
  BY <1>1, EntryPointsAre
<1> QED
  BY <1>2 DEF EntryPoint, ep

LEMMA RegistryInit == RunInit /\ TypeInv => RegistryInv
<1> SUFFICES ASSUME RunInit, TypeInv PROVE RegistryInv
  OBVIOUS
<1>1. Len(eps) \in Nat
  BY EntryPointsAre DEF TypeInv
<1>2. stage = "import" /\ k = 1 /\ PATCHES = <<>>
  BY DEF RunInit
<1>3. k - 1 = 0
  BY <1>2
<1> QED
  BY <1>1, <1>2, <1>3, PatchesOfNone DEF RegistryInv

LEMMA RegistryStep == TypeInv /\ RegistryInv /\ [RunNext]_run_vars => RegistryInv'
<1> SUFFICES ASSUME TypeInv, RegistryInv, [RunNext]_run_vars PROVE RegistryInv'
  OBVIOUS
<1>0. eps \in Environments /\ k \in Nat /\ Len(eps) \in Nat
  BY EntryPointsAre DEF TypeInv, RunTypeOK
<1>1. CASE LoadProvider
  <2>1. /\ stage = "import" /\ k \in 1..Len(eps) /\ eps' = eps
        /\ PATCHES = PatchesOf(eps, k - 1)
    BY <1>0, <1>1 DEF LoadProvider, RegistryInv, input
  <2>2. CASE DiscoverEntryPoints(eps)[k].loads
    <3>1. PICK n \in Nat : k = n + 1
      BY <2>1, Predecessor
    <3>2. \A m \in 1 .. n + 1 : DiscoverEntryPoints(eps)[m].patches \in Seq(Patches)
      BY <1>0, <2>1, <3>1, LoadedArePatches
    <3>3. PatchesOf(eps, n + 1) =
              Then(PatchesOf(eps, n), DiscoverEntryPoints(eps)[n + 1].patches)
      BY <3>2, PatchesOfNext
    <3>4. k - 1 = n /\ k' - 1 = n + 1 /\ n + 1 \in 0..Len(eps)
      BY <1>0, <1>1, <2>1, <2>2, <3>1 DEF LoadProvider
    <3>5. PATCHES' = PATCHES \o DiscoverEntryPoints(eps)[k].patches
      BY <1>1, <2>2 DEF LoadProvider
    <3>6. PATCHES' = PatchesOf(eps, k' - 1)
      BY <2>1, <3>1, <3>3, <3>4, <3>5 DEF Then
    <3>7. stage' = "import"
      BY <1>1, <2>1, <2>2 DEF LoadProvider
    <3> QED
      BY <2>1, <3>4, <3>6, <3>7 DEF RegistryInv
  <2>3. CASE ~DiscoverEntryPoints(eps)[k].loads
    BY <1>1, <2>3 DEF LoadProvider, Fatal, Exit, RegistryInv
  <2> QED
    BY <2>2, <2>3
<1>2. CASE ImportDone
  <2>1. k - 1 = Len(eps)
    BY <1>0, <1>2 DEF ImportDone, RegistryInv
  <2> QED
    BY <1>2, <2>1 DEF ImportDone, RegistryInv, input
<1>3. CASE Inform \/ Misuse \/ BeginRun \/ DiscoverRaises \/ DiscoverDone \/ PlanFails
           \/ OpenOutput \/ FinishOutput \/ Finish \/ IOFails \/ ReadSource
  <2>1. stage' \notin {"import", "main"}
    BY <1>3 DEF Inform, Misuse, BeginRun, DiscoverRaises, DiscoverDone, PlanFails,
                OpenOutput, FinishOutput, Finish, IOFails, ReadSource, Fatal, Exit
  <2> QED
    BY <2>1 DEF RegistryInv
<1>4. CASE DiscoverPatch \/ ValidateAndApply
  BY <1>4 DEF DiscoverPatch, ValidateAndApply, RegistryInv
<1>5. CASE Exited \/ UNCHANGED run_vars
  BY <1>5 DEF Exited, run_vars, input, RegistryInv
<1> QED
  BY <1>1, <1>2, <1>3, <1>4, <1>5 DEF RunNext, Orchestrate

LEMMA StableIfLoaded == TypeInv /\ RegistryInv => RegistryIsStable
<1> SUFFICES ASSUME TypeInv, RegistryInv, stage = "main", DistinctNames(eps),
                    NEW other \in Environments,
                    SameProviders(eps, other), Len(eps) = Len(other)
             PROVE  PatchesOf(other, Len(other)) = PATCHES
  BY DEF RegistryIsStable
<1>1. /\ Len(eps) \in Nat
      /\ \A j \in 1..Len(eps) : eps[j].name \in Int
  BY EntryPointsAre DEF TypeInv, EntryPoint
<1>2. \A j, m \in 1..Len(eps) : eps[j].name = eps[m].name => j = m
  BY DEF DistinctNames
<1>3. {eps[j] : j \in 1..Len(eps)} = {other[j] : j \in 1..Len(eps)}
  BY DEF SameProviders
<1>4. DiscoverEntryPoints(other) = DiscoverEntryPoints(eps)
  BY <1>1, <1>2, <1>3, InstallationOrderIrrelevant
<1> QED
  BY <1>4 DEF RegistryInv, PatchesOf

\* The registry does not depend on the order in which the packages were
\* installed, whatever the providers register (patches.py:11-15, 46-50).
THEOREM RegistryAlwaysStable == RunSpec => []RegistryIsStable
<1>1. RunSpec => [](TypeInv /\ RegistryInv)
  BY TypeInit, TypeStep, RegistryInit, RegistryStep, PTL DEF RunSpec
<1> QED
  BY <1>1, StableIfLoaded, PTL

\* The list a set of entry points comes to holds patches.
LEMMA RegistryHoldsPatches ==
    ASSUME NEW other \in Environments
    PROVE  PatchesOf(other, Len(other)) \in Seq(Patches)
<1>1. Len(other) \in Nat /\ \A n \in 1..Len(other) : other[n] \in EntryPoint
  <2>1. other \in Seq(EntryPoint)
    BY EnvironmentsAssumption
  <2> QED
    BY <2>1, LenProperties, ElementOfSeq
<1>2. ASSUME NEW n \in 1..Len(other)
      PROVE  DiscoverEntryPoints(other)[n].patches \in Seq(Patches)
  <2> DEFINE ep == DiscoverEntryPoints(other)[n]
  <2>1. PICK j \in 1..Len(other) : ep = other[j]
    BY <1>1, EntryPointsSorted DEF EntryPoint
  <2> HIDE DEF ep
  <2>2. ep \in EntryPoint
    BY <1>1, <2>1
  <2> QED
    BY <2>2 DEF EntryPoint, ep
<1> DEFINE w == [m \in 1..Len(other) |-> DiscoverEntryPoints(other)[m].patches]
<1>3. w \in [1..Len(other) -> Seq(Patches)]
  BY <1>2
<1>4. PatchesOf(other, Len(other)) = FlattenSeq(w)
  BY DEF PatchesOf
<1> HIDE DEF w
<1>5. FlattenSeq(w) \in Seq(Patches)
  BY <1>1, <1>3, FlattenType
<1> QED
  BY <1>4, <1>5

\* Patches have keys; one without a line end is a line.
LEMMA PatchesHaveKeys ==
    ASSUME NEW p \in Seq(Patches), \A n \in 1..Len(p) : OneLine(p[n].key)
    PROVE  Len(p) \in Nat /\ \A n \in 1..Len(p) : OneLineKey(p[n])
<1>1. Len(p) \in Nat /\ \A n \in 1..Len(p) : p[n] \in Patches
  BY LenProperties, ElementOfSeq
<1>2. \A n \in 1..Len(p) : p[n].key \in Seq(Int)
  BY <1>1, PatchesAssumption
<1> QED
  BY <1>1, <1>2 DEF OneLine, OneLineKey

\* Two registries that differ in number, order or keys of their patches are
\* hashed differently, whatever the keys are, as long as none has a line end
\* in it (launch.py:8-11, cli.py:215-221).
THEOREM KeysAlwaysTellRegistries == RunSpec => []KeysTellRegistries
<1>1. TypeInv => KeysTellRegistries
  <2> SUFFICES ASSUME TypeInv, \A n \in 1..Len(PATCHES) : OneLine(PATCHES[n].key),
                      NEW other \in Environments
               PROVE  LET there == PatchesOf(other, Len(other))
                      IN /\ \A n \in 1..Len(there) : OneLine(there[n].key)
                         /\ KeyText(there) = KeyText(PATCHES)
                         => Keys(there) = Keys(PATCHES)
    BY DEF KeysTellRegistries
  <2> DEFINE there == PatchesOf(other, Len(other))
  <2>1. there \in Seq(Patches) /\ PATCHES \in Seq(Patches)
    BY RegistryHoldsPatches DEF TypeInv
  <2> HIDE DEF there
  <2>2. SUFFICES ASSUME \A n \in 1..Len(there) : OneLine(there[n].key),
                        KeyText(there) = KeyText(PATCHES)
                 PROVE  Keys(there) = Keys(PATCHES)
    BY DEF there
  <2>3. Len(there) \in Nat /\ \A n \in 1..Len(there) : OneLineKey(there[n])
    BY <2>1, <2>2, PatchesHaveKeys
  <2>4. Len(PATCHES) \in Nat /\ \A n \in 1..Len(PATCHES) : OneLineKey(PATCHES[n])
    BY <2>1, PatchesHaveKeys
  <2>5. /\ Len(there) = Len(PATCHES)
        /\ \A n \in 1..Len(there) : there[n].key = PATCHES[n].key
    BY <2>2, <2>3, <2>4, KeyTextTellsKeys
  <2> QED
    BY <2>5 DEF Keys
<1> QED
  BY <1>1, TypeAlways, PTL

-----------------------------------------------------------------------------
(* What the loops over the entry points and over PATCHES have established. *)

\* The first n patches have their results, and applied tells what matched.
Counted(n) ==
    /\ Len(results) = n
    /\ \A m \in 1..n : /\ ~PATCHES[m].raises
                       /\ results[m].applied > 0 <=> Matched(PATCHES[m])

LoopInv ==
    /\ stage = "import" =>
           \A n \in 1..Len(eps) : n < k => DiscoverEntryPoints(eps)[n].loads
    /\ stage \notin {"import", "exited"} => ~BrokenProvider
    /\ stage \in {"import", "main", "read"} => results = <<>> /\ edits = <<>>
    /\ stage = "discover" => k <= Len(PATCHES) + 1 /\ Counted(k - 1)
    /\ stage \in {"apply", "write", "copymode"} => Counted(Len(PATCHES))

\* The two tests of run_patcher are the complement of what ExpectCount allows.
LEMMA UnexpectedIsNotExpected ==
    ASSUME NEW p \in Patches, NEW n \in Nat
    PROVE  Unexpected(p, n) <=> ~Expects(p, n)
BY PatchesAssumption DEF Unexpected, Expects, UNBOUNDED

\* What one turn of the loop over PATCHES records.
LEMMA DiscoverRecords ==
    ASSUME TypeInv, DiscoverPatch
    PROVE  LET found == Discover(PATCHES[k], image, ctx)
           IN /\ k' = k + 1
              /\ UNCHANGED <<input, applier, stage, PATCHES, dst, exit>>
              /\ ~PATCHES[k].raises /\ stage = "discover" /\ k <= Len(PATCHES)
              /\ \E r \in PatchResult : /\ results' = Append(results, r)
                                        /\ r.applied > 0 <=> Matched(PATCHES[k])
              /\ Matched(PATCHES[k]) => edits' = edits \o found
              /\ ~Matched(PATCHES[k]) => edits' = edits
<1> DEFINE found == Discover(PATCHES[k], image, ctx)
<1>1. PATCHES[k] \in Patches /\ Len(found) \in Nat
  BY FoundIsEdits DEF DiscoverPatch
<1>2. Matched(PATCHES[k]) <=> Len(found) > 0 /\ ~Unexpected(PATCHES[k], Len(found))
  BY <1>1, UnexpectedIsNotExpected DEF Matched
<1>3. DiscoverNothing(found) \/ DiscoverUnexpected(found) \/ DiscoverEdits(found)
  BY DEF DiscoverPatch
<1>4. /\ ~PATCHES[k].raises /\ stage = "discover" /\ k <= Len(PATCHES)
      /\ UNCHANGED <<input, applier, stage, PATCHES, dst, exit>>
  BY DEF DiscoverPatch
<1> HIDE DEF found
<1>5. CASE DiscoverNothing(found)
  <2>1. results' = Append(results, [emitted |-> 0, applied |-> 0])
    BY <1>5 DEF DiscoverNothing, Record
  <2>2. [emitted |-> 0, applied |-> 0] \in PatchResult /\ ~Matched(PATCHES[k])
    BY <1>2, <1>5 DEF DiscoverNothing, PatchResult
  <2> QED
    BY <1>4, <1>5, <2>1, <2>2 DEF DiscoverNothing, Record, found
<1>6. CASE DiscoverUnexpected(found)
  <2>1. results' = Append(results, [emitted |-> Len(found), applied |-> 0])
    BY <1>6 DEF DiscoverUnexpected, Record
  <2>2. /\ [emitted |-> Len(found), applied |-> 0] \in PatchResult
        /\ ~Matched(PATCHES[k])
    BY <1>1, <1>2, <1>6 DEF DiscoverUnexpected, PatchResult
  <2> QED
    BY <1>4, <1>6, <2>1, <2>2 DEF DiscoverUnexpected, Record, found
<1>7. CASE DiscoverEdits(found)
  <2>1. results' = Append(results, [emitted |-> Len(found), applied |-> Len(found)])
    BY <1>7 DEF DiscoverEdits, Record
  <2>2. /\ [emitted |-> Len(found), applied |-> Len(found)] \in PatchResult
        /\ Len(found) > 0 /\ Matched(PATCHES[k])
    BY <1>1, <1>2, <1>7 DEF DiscoverEdits, PatchResult
  <2> QED
    BY <1>4, <1>7, <2>1, <2>2 DEF DiscoverEdits, Record, found
<1> QED
  BY <1>3, <1>5, <1>6, <1>7

\* What a step leaves as it was stays counted.
LEMMA CountedKept ==
    ASSUME NEW n, Counted(n), UNCHANGED <<results, PATCHES, image, ctx>>
    PROVE  Counted(n)'
BY DEF Counted, Matched, Expects

LEMMA LoopInit == RunInit => LoopInv
<1> SUFFICES ASSUME RunInit PROVE LoopInv
  OBVIOUS
<1>1. stage = "import" /\ k = 1 /\ results = <<>> /\ edits = <<>>
  BY DEF RunInit
<1> QED
  BY <1>1 DEF LoopInv

LEMMA LoopStep == TypeInv /\ LoopInv /\ [RunNext]_run_vars => LoopInv'
<1> SUFFICES ASSUME TypeInv, LoopInv, [RunNext]_run_vars PROVE LoopInv'
  OBVIOUS
<1> USE DEF Exit, Fatal, input, applier
<1>0. /\ Len(PATCHES) \in Nat /\ k \in Nat \ {0} /\ eps \in Environments
      /\ results \in Seq(PatchResult)
  BY LenProperties DEF TypeInv, RunTypeOK
<1>B. UNCHANGED eps => BrokenProvider' = BrokenProvider
  BY DEF BrokenProvider
<1>E. stage' = "exited" => LoopInv'
  BY DEF LoopInv
<1>1. CASE LoadProvider
  <2>1. CASE DiscoverEntryPoints(eps)[k].loads
    <3>1. /\ stage = "import" /\ stage' = "import" /\ k' = k + 1
          /\ eps' = eps /\ results' = results /\ edits' = edits
      BY <1>1, <2>1 DEF LoadProvider
    <3>2. \A n \in 1..Len(eps) : n < k + 1 => DiscoverEntryPoints(eps)[n].loads
      BY <1>0, <2>1, <3>1 DEF LoopInv
    <3> QED
      BY <3>1, <3>2 DEF LoopInv
  <2>2. CASE ~DiscoverEntryPoints(eps)[k].loads
    BY <1>1, <1>E, <2>2 DEF LoadProvider
  <2> QED
    BY <2>1, <2>2
<1>2. CASE ImportDone
  <2>1. /\ stage = "import" /\ stage' = "main" /\ k > Len(eps)
        /\ eps' = eps /\ results' = results /\ edits' = edits
    BY <1>2 DEF ImportDone
  <2>2. \A n \in 1..Len(eps) : DiscoverEntryPoints(eps)[n].loads
    <3> TAKE n \in 1..Len(eps)
    <3>1. Len(eps) \in Nat
      BY <1>0, EntryPointsAre
    <3>2. n < k
      BY <1>0, <2>1, <3>1
    <3> QED
      BY <2>1, <3>2 DEF LoopInv
  <2>3. \A j \in 1..Len(eps) : eps[j].loads
    <3> TAKE j \in 1..Len(eps)
    <3>1. PICK n \in 1..Len(eps) : DiscoverEntryPoints(eps)[n] = eps[j]
      BY <1>0, EntryPointsAre
    <3> QED
      BY <2>2, <3>1
  <2> QED
    BY <1>B, <2>1, <2>3 DEF LoopInv, BrokenProvider
<1>3. CASE Inform
  BY <1>3, <1>E DEF Inform
<1>4. CASE Misuse
  BY <1>4, <1>E DEF Misuse
<1>5. CASE BeginRun
  <2>1. /\ stage = "main" /\ stage' = "read"
        /\ eps' = eps /\ results' = results /\ edits' = edits
    BY <1>5 DEF BeginRun
  <2> QED
    BY <1>B, <2>1 DEF LoopInv
<1>6. CASE ReadSource
  <2>1. CASE ~Parses(image)
    BY <1>6, <1>E, <2>1 DEF ReadSource
  <2>2. CASE Parses(image)
    <3>1. /\ stage = "read" /\ stage' = "discover" /\ k' = 1 /\ results' = results
          /\ eps' = eps /\ PATCHES' = PATCHES
      BY <1>6, <2>2 DEF ReadSource
    <3>2. Len(results') = 0
      BY <3>1 DEF LoopInv
    <3> QED
      BY <1>0, <1>B, <3>1, <3>2 DEF LoopInv, Counted
  <2> QED
    BY <2>1, <2>2
<1>7. CASE DiscoverRaises
  BY <1>7, <1>E DEF DiscoverRaises
<1>8. CASE DiscoverPatch
  <2>1. /\ k' = k + 1 /\ k <= Len(PATCHES) /\ ~PATCHES[k].raises
        /\ stage = "discover" /\ stage' = stage
        /\ UNCHANGED <<image, ctx, PATCHES, eps>>
    BY <1>8, DiscoverRecords
  <2>2. PICK r \in PatchResult : /\ results' = Append(results, r)
                                 /\ r.applied > 0 <=> Matched(PATCHES[k])
    BY <1>8, DiscoverRecords
  <2>3. Counted(k - 1)
    BY <2>1 DEF LoopInv
  <2> PICK n \in Nat \ {0} : n = k
    BY <1>0
  <2>4. /\ Len(results') = n
        /\ \A m \in 1 .. n - 1 : results'[m] = results[m]
        /\ results'[n] = r
    <3>1. /\ Len(Append(results, r)) = Len(results) + 1
          /\ \A m \in 1..Len(results) : Append(results, r)[m] = results[m]
          /\ Append(results, r)[Len(results) + 1] = r
      BY <1>0, AppendProperties
    <3>2. Len(results) = n - 1
      BY <2>3 DEF Counted
    <3>3. Len(results) + 1 = n
      BY <3>2
    <3>4. results' = Append(results, r)
      BY <2>2
    <3>5. Len(results') = n
      BY <3>1, <3>3, <3>4
    <3>6. results'[n] = r
      BY <3>1, <3>3, <3>4
    <3>7. \A m \in 1 .. n - 1 : results'[m] = results[m]
      BY <3>1, <3>2, <3>4
    <3> QED
      BY <3>5, <3>6, <3>7
  <2>5. \A m \in 1..n : /\ ~PATCHES[m].raises
                        /\ results'[m].applied > 0 <=> Matched(PATCHES[m])
    <3> TAKE m \in 1..n
    <3>1. CASE m = n
      <4>1. results'[m] = r /\ PATCHES[m] = PATCHES[k]
        BY <2>4, <3>1
      <4> QED
        BY <2>1, <2>2, <4>1
    <3>2. CASE m # n
      <4>1. m \in 1 .. n - 1 /\ results'[m] = results[m]
        BY <2>4, <3>2
      <4> QED
        BY <2>3, <4>1 DEF Counted
    <3> QED
      BY <3>1, <3>2
  <2>6. \A m \in 1..n : Matched(PATCHES[m])' <=> Matched(PATCHES[m])
    BY <2>1 DEF Matched, Expects
  <2>7. Counted(n)'
    BY <2>1, <2>4, <2>5, <2>6 DEF Counted
  <2>8. k' - 1 = n /\ k' <= Len(PATCHES') + 1
    BY <1>0, <2>1
  <2> QED
    BY <1>B, <2>1, <2>7, <2>8 DEF LoopInv
<1>9. CASE DiscoverDone
  <2>1. /\ stage = "discover" /\ stage' = "apply" /\ k > Len(PATCHES)
        /\ UNCHANGED <<image, ctx, eps, PATCHES, results>>
    BY <1>9 DEF DiscoverDone
  <2>2. k - 1 = Len(PATCHES) /\ Counted(k - 1)
    BY <1>0, <2>1 DEF LoopInv
  <2>3. Counted(Len(PATCHES))'
    BY <2>1, <2>2, CountedKept
  <2> QED
    BY <1>B, <2>1, <2>3 DEF LoopInv
<1>10. CASE ValidateAndApply
  <2>1. /\ stage = "apply" /\ stage' = "apply"
        /\ UNCHANGED <<image, ctx, eps, PATCHES, results>>
    BY <1>10, ApplierLeaves DEF ValidateAndApply
  <2>2. Counted(Len(PATCHES))'
    BY <2>1, CountedKept DEF LoopInv
  <2> QED
    BY <1>B, <2>1, <2>2 DEF LoopInv
<1>11. CASE PlanFails
  BY <1>11, <1>E DEF PlanFails
<1>12. CASE OpenOutput \/ FinishOutput
  <2>1. /\ stage \in {"apply", "write"} /\ stage' \in {"write", "copymode"}
        /\ UNCHANGED <<image, ctx, eps, PATCHES, results>>
    BY <1>12 DEF OpenOutput, FinishOutput
  <2>2. Counted(Len(PATCHES))'
    BY <2>1, CountedKept DEF LoopInv
  <2> QED
    BY <1>B, <2>1, <2>2 DEF LoopInv
<1>13. CASE Finish
  BY <1>13, <1>E DEF Finish
<1>14. CASE IOFails
  BY <1>14, <1>E DEF IOFails
<1>15. CASE Exited \/ UNCHANGED run_vars
  <2>1. UNCHANGED <<image, ctx, eps, PATCHES, results, edits, stage, k>>
    BY <1>15 DEF Exited, run_vars
  <2>2. \A n \in {k - 1, Len(PATCHES)} : Counted(n) => Counted(n)'
    BY <2>1, CountedKept
  <2> QED
    BY <1>B, <2>1, <2>2 DEF LoopInv
<1> QED
  BY <1>1, <1>2, <1>3, <1>4, <1>5, <1>6, <1>7, <1>8, <1>9, <1>10, <1>11, <1>12,
     <1>13, <1>14, <1>15 DEF RunNext, Orchestrate

LEMMA LoopAlways == RunSpec => []LoopInv
BY TypeAlways, LoopInit, LoopStep, PTL DEF RunSpec

LEMMA ExitStep ==
    TypeInv /\ ControlInv /\ LoopInv /\ ExitCodes /\ [RunNext]_run_vars => ExitCodes'
<1> SUFFICES ASSUME TypeInv, ControlInv, LoopInv, ExitCodes, [RunNext]_run_vars,
                    stage' = "exited", command' = "patch"
             PROVE  ExitCodes'
  BY DEF ExitCodes, Ended
<1> USE DEF Exit, Fatal, input, applier
<1>F. ASSUME exit' = 1, dst' = dst, disk' = disk,
             dst = Untouched \/ disk = "bad"
      PROVE  ExitCodes'
  BY <1>F DEF ExitCodes, Untouched
<1>1. CASE LoadProvider
  BY <1>1, <1>F DEF LoadProvider, ControlInv
<1>2. CASE ReadSource
  BY <1>2, <1>F DEF ReadSource, ControlInv
<1>3. CASE DiscoverRaises
  BY <1>3, <1>F DEF DiscoverRaises, ControlInv
<1>4. CASE PlanFails
  BY <1>4, <1>F DEF PlanFails, ControlInv
<1>5. CASE IOFails
  BY <1>5, <1>F DEF IOFails
<1>6. CASE Finish
  <2>1. /\ exit' = (IF MissedResults # {} THEN 2 ELSE 0)
        /\ dst = Written(buf) /\ Counted(Len(PATCHES)) /\ results \in Seq(PatchResult)
        /\ UNCHANGED <<image, ctx, buf, PATCHES, dst>>
    BY <1>6 DEF Finish, ControlInv, LoopInv, TypeInv, RunTypeOK
  <2>2. DOMAIN results = 1..Len(PATCHES)
    BY <2>1, LenProperties DEF Counted
  <2>3. MissedResults = {n \in 1..Len(PATCHES) : ~Matched(PATCHES[n])}
    BY <2>1, <2>2 DEF MissedResults, Counted
  <2>4. \A n \in 1..Len(PATCHES) : Matched(PATCHES[n])' <=> Matched(PATCHES[n])
    BY <2>1 DEF Matched, Expects
  <2>5. dst' = Written(buf')
    BY <2>1 DEF Written
  <2>6. CASE MissedResults = {}
    <3>1. exit' = 0 /\ \A n \in 1..Len(PATCHES) : Matched(PATCHES[n])'
      BY <2>1, <2>3, <2>4, <2>6
    <3> QED
      BY <2>1, <2>5, <3>1 DEF ExitCodes
  <2>7. CASE MissedResults # {}
    <3>1. exit' = 2 /\ \E n \in 1..Len(PATCHES) : ~Matched(PATCHES[n])'
      BY <2>1, <2>3, <2>4, <2>7
    <3> QED
      BY <2>1, <2>5, <3>1 DEF ExitCodes
  <2> QED
    BY <2>6, <2>7
<1>7. CASE Exited \/ UNCHANGED run_vars
  <2>1. UNCHANGED <<image, ctx, buf, PATCHES, dst, exit, command, disk, stage>>
    BY <1>7 DEF Exited, run_vars
  <2>2. \A n \in 1..Len(PATCHES) : Matched(PATCHES[n])' <=> Matched(PATCHES[n])
    BY <2>1 DEF Matched, Expects
  <2> QED
    BY <2>1, <2>2 DEF ExitCodes, Ended, Written
<1>8. CASE Inform \/ Misuse
  BY <1>8 DEF Inform, Misuse
<1>9. CASE \/ ImportDone \/ BeginRun \/ DiscoverPatch \/ DiscoverDone
           \/ ValidateAndApply \/ OpenOutput \/ FinishOutput
  BY <1>9 DEF ImportDone, BeginRun, DiscoverPatch, DiscoverDone, ValidateAndApply,
              OpenOutput, FinishOutput
<1> QED
  BY <1>1, <1>2, <1>3, <1>4, <1>5, <1>6, <1>7, <1>8, <1>9 DEF RunNext, Orchestrate

\* The exit status tells the truth about the output and about the patches, for
\* every image, every set of providers and whatever fails (cli.py:7-10, 168-178).
THEOREM ExitCodesTrue == RunSpec => []ExitCodes
<1>1. RunInit => ExitCodes
  BY DEF RunInit, ExitCodes, Ended
<1> QED
  BY <1>1, ExitStep, TypeAlways, ControlAlways, LoopAlways, PTL DEF RunSpec

-----------------------------------------------------------------------------
(* The plan: a one-to-one correspondence between the edits it holds and    *)
(* the edits that patches that matched ask for.                            *)

AskedUpTo(n) == {x \in Emissions : x[1] <= n}

Collected(n) ==
    \E f : /\ f \in [1..Len(edits) -> AskedUpTo(n)]
           /\ \A a, b \in 1..Len(edits) : f[a] = f[b] => a = b
           /\ \A x \in AskedUpTo(n) : \E m \in 1..Len(edits) : f[m] = x
           /\ \A m \in 1..Len(edits) : edits[m] = Emitted(f[m])

PlanInv ==
    /\ stage = "discover" => Collected(k - 1)
    /\ stage \in {"apply", "write", "copymode"} => Collected(Len(PATCHES))

LEMMA EmissionsAre ==
    /\ \A n \in 1..Len(PATCHES) : Matched(PATCHES[n]) =>
          \A j \in 1..Len(Discover(PATCHES[n], image, ctx)) : <<n, j>> \in Emissions
    /\ \A x \in Emissions :
          /\ x[1] \in 1..Len(PATCHES) /\ Matched(PATCHES[x[1]])
          /\ x[2] \in 1..Len(Discover(PATCHES[x[1]], image, ctx))
          /\ x = <<x[1], x[2]>>
BY DEF Emissions

LEMMA CollectedKept ==
    ASSUME NEW n, Collected(n), UNCHANGED <<edits, PATCHES, image, ctx>>
    PROVE  Collected(n)'
<1>1. Emissions' = Emissions
  BY DEF Emissions, Matched, Expects
<1>2. AskedUpTo(n)' = AskedUpTo(n)
  BY <1>1 DEF AskedUpTo
<1>3. \A x : Emitted(x)' = Emitted(x)
  BY DEF Emitted
<1> QED
  BY <1>2, <1>3 DEF Collected

LEMMA NothingAsked ==
    ASSUME edits = <<>>
    PROVE  Collected(0)
<1>1. AskedUpTo(0) = {}
  BY EmissionsAre DEF AskedUpTo
<1>2. Len(edits) = 0 /\ 1..Len(edits) = {}
  OBVIOUS
<1> DEFINE f == [m \in {} |-> 0]
<1>3. f \in [1..Len(edits) -> AskedUpTo(0)]
  BY <1>1, <1>2
<1> QED
  BY <1>1, <1>2, <1>3 DEF Collected

\* A patch that does not match adds nothing.
LEMMA NoneCollected ==
    ASSUME NEW n \in 1..Len(PATCHES), Len(PATCHES) \in Nat, ~Matched(PATCHES[n]),
           Collected(n - 1)
    PROVE  Collected(n)
<1>1. AskedUpTo(n) = AskedUpTo(n - 1)
  BY EmissionsAre DEF AskedUpTo
<1> QED
  BY <1>1 DEF Collected

\* A patch that matches adds its edits, all of them and in its order.
LEMMA SomeCollected ==
    ASSUME NEW n \in 1..Len(PATCHES), Len(PATCHES) \in Nat, Matched(PATCHES[n]),
           Collected(n - 1), edits \in Seq(Edit),
           NEW found \in Seq(Edit), found = Discover(PATCHES[n], image, ctx),
           edits' = edits \o found, UNCHANGED <<PATCHES, image, ctx>>
    PROVE  Collected(n)'
<1>1. PICK f : /\ f \in [1..Len(edits) -> AskedUpTo(n - 1)]
               /\ \A a, b \in 1..Len(edits) : f[a] = f[b] => a = b
               /\ \A x \in AskedUpTo(n - 1) : \E m \in 1..Len(edits) : f[m] = x
               /\ \A m \in 1..Len(edits) : edits[m] = Emitted(f[m])
  BY DEF Collected
<1>2. Len(edits) \in Nat /\ Len(found) \in Nat
  BY LenProperties
<1>L. PICK L \in Nat : L = Len(edits)
  BY <1>2
<1>N. PICK F \in Nat : F = Len(found)
  BY <1>2
<1>g. PICK g : g = [m \in 1 .. L + F |-> IF m <= L THEN f[m] ELSE <<n, m - L>>]
  OBVIOUS
<1>3. /\ Len(edits') = L + F
      /\ \A m \in 1 .. L + F : edits'[m] = IF m <= L THEN edits[m] ELSE found[m - L]
  BY <1>L, <1>N, ConcatProperties
<1>4. \A x : x \in AskedUpTo(n) <=>
          \/ x \in AskedUpTo(n - 1)
          \/ \E j \in 1..F : x = <<n, j>>
  <2>1. ASSUME NEW x \in AskedUpTo(n), x \notin AskedUpTo(n - 1)
        PROVE  \E j \in 1..F : x = <<n, j>>
    <3>1. x \in Emissions /\ x[1] <= n /\ ~(x[1] <= n - 1)
      BY <2>1 DEF AskedUpTo
    <3>2. x[1] = n
      BY <3>1, EmissionsAre
    <3> QED
      BY <1>N, <3>1, <3>2, EmissionsAre
  <2>2. ASSUME NEW x \in AskedUpTo(n - 1)
        PROVE  x \in AskedUpTo(n)
    <3>1. x \in Emissions /\ x[1] <= n - 1 /\ x[1] \in 1..Len(PATCHES)
      BY <2>2, EmissionsAre DEF AskedUpTo
    <3> QED
      BY <3>1 DEF AskedUpTo
  <2>3. ASSUME NEW j \in 1..F
        PROVE  <<n, j>> \in AskedUpTo(n)
    <3>1. <<n, j>> \in Emissions
      BY <1>N, EmissionsAre
    <3> QED
      BY <3>1 DEF AskedUpTo
  <2> QED
    BY <2>1, <2>2, <2>3
<1>5. /\ \A m \in 1..L : g[m] = f[m] /\ f[m] \in AskedUpTo(n - 1)
      /\ \A m \in L + 1 .. L + F : g[m] = <<n, m - L>> /\ m - L \in 1..F
      /\ \A m \in 1 .. L + F : m \in 1..L \/ m \in L + 1 .. L + F
  <2>1. ASSUME NEW m \in 1..L
        PROVE  g[m] = f[m] /\ f[m] \in AskedUpTo(n - 1)
    <3>1. m \in 1 .. L + F /\ m <= L
      OBVIOUS
    <3> QED
      BY <1>1, <1>L, <1>g, <3>1
  <2>2. ASSUME NEW m \in L + 1 .. L + F
        PROVE  g[m] = <<n, m - L>> /\ m - L \in 1..F
    <3>1. m \in 1 .. L + F /\ ~(m <= L)
      OBVIOUS
    <3> QED
      BY <1>g, <3>1
  <2>3. ASSUME NEW m \in 1 .. L + F
        PROVE  m \in 1..L \/ m \in L + 1 .. L + F
    OBVIOUS
  <2> QED
    BY <2>1, <2>2, <2>3
<1>6. g \in [1 .. L + F -> AskedUpTo(n)]
  <2>1. \A m \in 1 .. L + F : g[m] \in AskedUpTo(n)
    BY <1>4, <1>5
  <2> QED
    BY <1>g, <2>1
<1>7. ASSUME NEW a \in 1 .. L + F, NEW b \in 1 .. L + F, g[a] = g[b]
      PROVE  a = b
  <2>1. \A m \in 1..L, l \in L + 1 .. L + F : g[m] # g[l]
    <3> TAKE m \in 1..L, l \in L + 1 .. L + F
    <3>1. f[m][1] <= n - 1 /\ f[m][1] \in 1..Len(PATCHES) /\ g[m] = f[m]
      BY <1>5, EmissionsAre DEF AskedUpTo
    <3>2. g[l] = <<n, l - L>> /\ g[l][1] = n
      BY <1>5
    <3> QED
      BY <3>1, <3>2
  <2>2. CASE a \in 1..L /\ b \in 1..L
    BY <1>1, <1>L, <1>5, <1>7, <2>2
  <2>3. CASE a \in L + 1 .. L + F /\ b \in L + 1 .. L + F
    <3>1. <<n, a - L>> = <<n, b - L>>
      BY <1>5, <1>7, <2>3
    <3>2. a - L = b - L
      BY <3>1
    <3> QED
      BY <1>2, <2>3, <3>2
  <2> QED
    BY <1>5, <1>7, <2>1, <2>2, <2>3
<1>8. ASSUME NEW x \in AskedUpTo(n)
      PROVE  \E m \in 1 .. L + F : g[m] = x
  <2>1. CASE x \in AskedUpTo(n - 1)
    <3>1. PICK m \in 1..L : f[m] = x
      BY <1>1, <1>L, <2>1
    <3>2. m \in 1 .. L + F
      OBVIOUS
    <3> QED
      BY <1>5, <3>1, <3>2
  <2>2. CASE \E j \in 1..F : x = <<n, j>>
    <3>1. PICK j \in 1..F : x = <<n, j>>
      BY <2>2
    <3>2. L + j \in L + 1 .. L + F /\ L + j \in 1 .. L + F /\ (L + j) - L = j
      BY <1>2
    <3>3. g[L + j] = <<n, j>>
      BY <1>5, <3>2
    <3> QED
      BY <3>1, <3>2, <3>3
  <2> QED
    BY <1>4, <2>1, <2>2
<1>9. ASSUME NEW m \in 1 .. L + F
      PROVE  edits'[m] = Emitted(g[m])
  <2>1. CASE m \in 1..L
    BY <1>1, <1>L, <1>3, <1>5, <2>1
  <2>2. CASE m \in L + 1 .. L + F
    <3>1. edits'[m] = found[m - L] /\ g[m] = <<n, m - L>>
      BY <1>2, <1>3, <1>5, <2>2
    <3>2. /\ g[m][1] = n /\ g[m][2] = m - L
          /\ found[m - L] = Discover(PATCHES[n], image, ctx)[m - L]
      BY <3>1
    <3> QED
      BY <3>1, <3>2 DEF Emitted
  <2> QED
    BY <1>5, <2>1, <2>2
<1>10. AskedUpTo(n)' = AskedUpTo(n)
  <2>1. Emissions' = Emissions
    BY DEF Emissions, Matched, Expects
  <2> QED
    BY <2>1 DEF AskedUpTo
<1>11. \A x : Emitted(x)' = Emitted(x)
  BY DEF Emitted
<1>12. /\ g \in [1..Len(edits') -> AskedUpTo(n)']
       /\ \A a, b \in 1..Len(edits') : g[a] = g[b] => a = b
       /\ \A x \in AskedUpTo(n)' : \E m \in 1..Len(edits') : g[m] = x
       /\ \A m \in 1..Len(edits') : edits'[m] = Emitted(g[m])'
  BY <1>3, <1>6, <1>7, <1>8, <1>9, <1>10, <1>11
<1>13. \E h : /\ h \in [1..Len(edits') -> AskedUpTo(n)']
              /\ \A a, b \in 1..Len(edits') : h[a] = h[b] => a = b
              /\ \A x \in AskedUpTo(n)' : \E m \in 1..Len(edits') : h[m] = x
              /\ \A m \in 1..Len(edits') : edits'[m] = Emitted(h[m])'
  BY <1>12, Zenon
<1> QED
  BY <1>13, Zenon DEF Collected

LEMMA PlanInit == RunInit => PlanInv
BY DEF RunInit, PlanInv

LEMMA PlanStep ==
    TypeInv /\ LoopInv /\ PlanInv /\ [RunNext]_run_vars => PlanInv'
<1> SUFFICES ASSUME TypeInv, LoopInv, PlanInv, [RunNext]_run_vars PROVE PlanInv'
  OBVIOUS
<1> USE DEF Exit, Fatal, input, applier
<1>0. Len(PATCHES) \in Nat /\ k \in Nat \ {0}
  BY LenProperties DEF TypeInv, RunTypeOK
<1>1. CASE ReadSource
  <2>1. CASE ~Parses(image)
    BY <1>1, <2>1 DEF ReadSource, PlanInv
  <2>2. CASE Parses(image)
    <3>1. stage' = "discover" /\ k' = 1 /\ edits' = <<>>
      BY <1>1, <2>2 DEF ReadSource, LoopInv
    <3>2. (edits = <<>>)' => Collected(0)'
      BY NothingAsked, PTL
    <3> QED
      BY <3>1, <3>2 DEF PlanInv
  <2> QED
    BY <2>1, <2>2
<1>2. CASE DiscoverPatch
  <2> DEFINE found == Discover(PATCHES[k], image, ctx)
  <2>1. /\ k' = k + 1 /\ stage = "discover" /\ stage' = "discover"
        /\ k \in 1..Len(PATCHES) /\ found \in Seq(Edit) /\ edits \in Seq(Edit)
        /\ UNCHANGED <<PATCHES, image, ctx>>
        /\ Matched(PATCHES[k]) => edits' = edits \o found
        /\ ~Matched(PATCHES[k]) => edits' = edits
    BY <1>2, FoundIsEdits, DiscoverRecords DEF DiscoverPatch, TypeInv
  <2> PICK n \in 1..Len(PATCHES) : n = k
    BY <2>1
  <2>2. Collected(n - 1)
    BY <2>1 DEF PlanInv
  <2>3. Collected(n)'
    <3>1. CASE Matched(PATCHES[n])
      BY <1>0, <2>1, <2>2, <3>1, SomeCollected
    <3>2. CASE ~Matched(PATCHES[n])
      <4>1. Collected(n)
        BY <1>0, <2>2, <3>2, NoneCollected
      <4>2. UNCHANGED <<edits, PATCHES, image, ctx>>
        BY <2>1, <3>2
      <4> QED
        BY <4>1, <4>2, CollectedKept
    <3> QED
      BY <3>1, <3>2
  <2>4. k' - 1 = n
    BY <1>0, <2>1
  <2> QED
    BY <2>1, <2>3, <2>4 DEF PlanInv
<1>3. CASE DiscoverDone
  <2>1. /\ stage = "discover" /\ stage' = "apply" /\ k - 1 = Len(PATCHES)
        /\ UNCHANGED <<edits, image, ctx, PATCHES>>
    BY <1>0, <1>3 DEF DiscoverDone, LoopInv
  <2>2. Collected(Len(PATCHES))
    BY <2>1 DEF PlanInv
  <2>3. Collected(Len(PATCHES))'
    BY <2>1, <2>2, CollectedKept
  <2> QED
    BY <2>1, <2>3 DEF PlanInv
<1>4. CASE ValidateAndApply \/ OpenOutput \/ FinishOutput
  <2>1. /\ stage \in {"apply", "write"} /\ stage' \in {"apply", "write", "copymode"}
        /\ UNCHANGED <<edits, image, ctx, PATCHES>>
    BY <1>4, ApplierLeaves DEF ValidateAndApply, OpenOutput, FinishOutput
  <2>2. Collected(Len(PATCHES))'
    BY <2>1, CollectedKept DEF PlanInv
  <2> QED
    BY <2>1, <2>2 DEF PlanInv
<1>5. CASE Exited \/ UNCHANGED run_vars
  <2>1. UNCHANGED <<image, ctx, PATCHES, edits, stage, k>>
    BY <1>5 DEF Exited, run_vars
  <2>2. \A n \in {k - 1, Len(PATCHES)} : Collected(n) => Collected(n)'
    BY <2>1, CollectedKept
  <2> QED
    BY <2>1, <2>2 DEF PlanInv
<1>6. CASE \/ LoadProvider \/ ImportDone \/ Inform \/ Misuse \/ BeginRun
           \/ DiscoverRaises \/ PlanFails \/ Finish \/ IOFails
  <2>1. stage' \in {"import", "main", "read", "exited"}
    BY <1>6 DEF LoadProvider, ImportDone, Inform, Misuse, BeginRun, DiscoverRaises,
                PlanFails, Finish, IOFails
  <2> QED
    BY <2>1 DEF PlanInv
<1> QED
  BY <1>1, <1>2, <1>3, <1>4, <1>5, <1>6 DEF RunNext, Orchestrate

LEMMA PlanAlways == RunSpec => []PlanInv
BY TypeAlways, LoopAlways, PlanInit, PlanStep, PTL DEF RunSpec

\* A patch takes part with all its edits or with none, whatever the providers
\* register and their patches find (cli.py:124-158).
THEOREM PatchesAllOrNothing == RunSpec => []AllOrNothing
<1>1. ASSUME TypeInv, PlanInv, stage = "apply"
      PROVE  {edits[n] : n \in 1..Len(edits)} = {Emitted(x) : x \in Emissions}
  <2>1. Collected(Len(PATCHES)) /\ Len(PATCHES) \in Nat
    BY <1>1, LenProperties DEF PlanInv, TypeInv
  <2>2. AskedUpTo(Len(PATCHES)) = Emissions
    BY <2>1, EmissionsAre DEF AskedUpTo
  <2>3. PICK f : /\ f \in [1..Len(edits) -> Emissions]
                 /\ \A x \in Emissions : \E m \in 1..Len(edits) : f[m] = x
                 /\ \A m \in 1..Len(edits) : edits[m] = Emitted(f[m])
    BY <2>1, <2>2 DEF Collected
  <2> QED
    BY <2>3
<1>2. TypeInv /\ PlanInv => AllOrNothing
  BY <1>1 DEF AllOrNothing
<1> QED
  BY <1>2, TypeAlways, PlanAlways, PTL

-----------------------------------------------------------------------------
(* Why a plan is rejected.                                                 *)

Clash ==
    \/ \E a, b \in 1..N :
          /\ a # b
          /\ edits[a].offset = edits[b].offset \/ ~Disjoint(edits[a], edits[b])
    \/ \E a \in 1..N : ~RegionAccepted(ctx, edits[a])

VerdictInv ==
    /\ pc = "rejected" => Clash
    /\ Accepted => \A a \in 1..N : RegionAccepted(ctx, edits[a])
    /\ pc = "refused" => ~ctx.is_elf

\* Neighbours that conflict are two different edits that do.
LEMMA NeighboursClash ==
    ASSUME OrderInv, pc = "overlaps", i < N, Conflict(sorted[i], sorted[i + 1])
    PROVE  Clash
<1>1. PICK p \in SortedOrders(edits) : sorted = [n \in 1..N |-> edits[p[n]]]
  BY DEF OrderInv
<1>2. /\ N \in Nat /\ p \in [1..N -> 1..N] /\ edits \in Seq(Edit)
      /\ \A n \in 1..N : sorted[n] = edits[p[n]] /\ sorted[n] \in Edit
  BY <1>1, SortedFacts DEF OrderInv
<1>3. i \in 1..N /\ i + 1 \in 1..N /\ i < i + 1
  BY <1>2 DEF OrderInv
<1>4. PICK a \in 1..N : a = p[i]
  BY <1>2, <1>3
<1>5. PICK b \in 1..N : b = p[i + 1]
  BY <1>2, <1>3
<1>6. \/ edits[a].offset < edits[b].offset
      \/ edits[a].offset = edits[b].offset /\ a < b
  BY <1>2, <1>3, <1>4, <1>5 DEF SortedOrders, N
<1>7. /\ sorted[i] = edits[a] /\ sorted[i + 1] = edits[b]
      /\ edits[a] \in Edit /\ edits[b] \in Edit
  BY <1>2, <1>3, <1>4, <1>5
<1>8. /\ edits[a].offset \in Nat /\ edits[b].offset \in Nat
      /\ EndOf(edits[b]) \in Nat /\ edits[b].offset <= EndOf(edits[b])
  BY <1>7, EditTypes
<1>9. a # b
  BY <1>6, <1>8
<1>10. edits[a].offset = edits[b].offset \/ EndOf(edits[a]) > edits[b].offset
  BY <1>7 DEF Conflict
<1>11. edits[a].offset = edits[b].offset \/ ~Disjoint(edits[a], edits[b])
  <2>1. CASE edits[a].offset < edits[b].offset /\ EndOf(edits[a]) > edits[b].offset
    <3>1. EndOf(edits[a]) \in Nat
      BY <1>7, EditTypes
    <3>2. ~(EndOf(edits[a]) <= edits[b].offset)
      BY <1>8, <2>1, <3>1
    <3>3. ~(EndOf(edits[b]) <= edits[a].offset)
      BY <1>8, <2>1
    <3> QED
      BY <3>2, <3>3 DEF Disjoint
  <2> QED
    BY <1>6, <1>10, <2>1
<1> QED
  BY <1>9, <1>11 DEF Clash

\* What has been accepted does not clash.
LEMMA AcceptedNoClash ==
    ASSUME OrderInv, VerdictInv, Accepted
    PROVE  ~Clash
BY NoOverlap, NoSameOffset DEF VerdictInv, Clash

LEMMA VerdictStep == OrderInv /\ VerdictInv /\ [Next]_vars => VerdictInv'
<1> SUFFICES ASSUME OrderInv, VerdictInv, [Next]_vars PROVE VerdictInv'
  OBVIOUS
<1>0. edits' = edits /\ ctx' = ctx /\ N' = N /\ Clash' = Clash
  BY ApplierLeaves DEF N, Clash
<1>K. ASSUME Accepted, pc' # "refused" \/ ~ctx.is_elf, pc' # "rejected"
      PROVE  VerdictInv'
  BY <1>0, <1>K DEF VerdictInv, Accepted
<1>1. CASE Sort
  BY <1>1 DEF Sort, VerdictInv, Accepted
<1>2. CASE CheckNeighbours
  <2>1. CASE Conflict(sorted[i], sorted[i + 1])
    <3>1. Clash /\ pc' = "rejected"
      BY <1>2, <2>1, NeighboursClash DEF CheckNeighbours
    <3> QED
      BY <1>0, <3>1 DEF VerdictInv, Accepted
  <2>2. CASE ~Conflict(sorted[i], sorted[i + 1])
    BY <1>2, <2>2 DEF CheckNeighbours, VerdictInv, Accepted
  <2> QED
    BY <2>1, <2>2
<1>3. CASE CheckRegions
  <2>1. CASE \A a \in 1..N : RegionAccepted(ctx, edits[a])
    <3>1. pc' = "same_length"
      BY <1>3, <2>1 DEF CheckRegions
    <3> QED
      BY <1>0, <2>1, <3>1 DEF VerdictInv, Accepted
  <2>2. CASE ~\A a \in 1..N : RegionAccepted(ctx, edits[a])
    <3>1. pc' = "rejected" /\ Clash
      BY <1>3, <2>2 DEF CheckRegions, Clash
    <3> QED
      BY <1>0, <3>1 DEF VerdictInv, Accepted
  <2> QED
    BY <2>1, <2>2
<1>4. CASE SpliceSameLength \/ SpliceGrowable
  <2>1. Accepted /\ pc' \in {pc, "mismatch"} /\ pc # "refused" /\ pc # "rejected"
    BY <1>4 DEF SpliceSameLength, SpliceGrowable, VerifyAndSplice, Accepted
  <2> QED
    BY <1>K, <2>1
<1>5. CASE SameLengthDone
  BY <1>5, <1>K DEF SameLengthDone, Accepted
<1>6. CASE Rewrites
  <2>1. pc' = "refused" => ~ctx.is_elf
    BY <1>6 DEF Rewrites, RewriteStringPointers, InvalidateBytecode,
                RewriteBunFraming, RewriteElfHeaders, RewriteMachOHeaders
  <2> QED
    BY <1>6, <1>K, <2>1, RewritesEnd
<1>7. CASE Finished \/ UNCHANGED vars
  <2>1. pc' = pc
    BY <1>7 DEF Finished, vars
  <2> QED
    BY <1>0, <2>1 DEF VerdictInv, Accepted
<1> QED
  BY <1>1, <1>2, <1>3, <1>4, <1>5, <1>6, <1>7 DEF Next, Rewrites

-----------------------------------------------------------------------------
(* A run begins to validate with an untouched copy of the image, so what   *)
(* EditApplierProofs says of validate and apply holds of it.               *)

ApplyInv ==
    /\ OrderInv /\ SpliceInv /\ VerdictInv
    /\ stage \in {"import", "main", "read", "discover"} => buf = image

LEMMA BeforeSort ==
    ASSUME pc = "sort", image \in Seq(Int), edits \in Seq(Edit), i \in Int, buf = image
    PROVE  OrderInv /\ SpliceInv /\ VerdictInv
BY DEF OrderInv, SpliceInv, VerdictInv, Accepted

LEMMA ApplyInit == RunInit => ApplyInv
<1> SUFFICES ASSUME RunInit PROVE ApplyInv
  OBVIOUS
<1>1. /\ pc = "sort" /\ image \in Seq(Int) /\ edits \in Seq(Edit) /\ i \in Int
      /\ buf = image
  BY ImagesAssumption, EmptySeq DEF RunInit
<1> QED
  BY <1>1, BeforeSort DEF ApplyInv

LEMMA ApplyStep ==
    TypeInv /\ ControlInv /\ ApplyInv /\ [RunNext]_run_vars => ApplyInv'
<1> SUFFICES ASSUME TypeInv, ControlInv, ApplyInv, [RunNext]_run_vars PROVE ApplyInv'
  OBVIOUS
<1> USE DEF Exit, Fatal, input, applier
<1>V. ASSUME [Next]_vars,
             stage' \in {"import", "main", "read", "discover"} =>
                 stage \in {"import", "main", "read", "discover"} /\ UNCHANGED vars
      PROVE  ApplyInv'
  <2>1. OrderInv' /\ SpliceInv' /\ VerdictInv'
    BY <1>V, OrderStep, SpliceStep, VerdictStep DEF ApplyInv
  <2> QED
    BY <1>V, <2>1 DEF ApplyInv, vars
<1>1. CASE ReadSource \/ DiscoverPatch
  <2>1. /\ stage \in {"read", "discover"}
        /\ image' = image /\ pc' = pc /\ i' = i /\ buf' = buf
    BY <1>1 DEF ReadSource, DiscoverPatch
  <2>2. pc = "sort" /\ buf = image /\ i \in Int /\ image \in Seq(Int)
    BY <2>1 DEF ControlInv, ApplyInv, OrderInv
  <2>3. edits' \in Seq(Edit)
    BY TypeStep DEF TypeInv
  <2>4. (pc = "sort" /\ image \in Seq(Int) /\ edits \in Seq(Edit) /\ i \in Int
          /\ buf = image)' => (OrderInv /\ SpliceInv /\ VerdictInv)'
    BY BeforeSort, PTL
  <2> QED
    BY <2>1, <2>2, <2>3, <2>4 DEF ApplyInv
<1>2. CASE ValidateAndApply
  BY <1>2, <1>V DEF ValidateAndApply
<1>3. CASE \/ LoadProvider \/ ImportDone \/ Inform \/ Misuse \/ BeginRun
           \/ DiscoverRaises \/ DiscoverDone \/ PlanFails \/ OpenOutput
           \/ FinishOutput \/ Finish \/ IOFails \/ Exited \/ UNCHANGED run_vars
  <2>1. UNCHANGED vars
    BY <1>3 DEF LoadProvider, ImportDone, Inform, Misuse, BeginRun, DiscoverRaises,
                DiscoverDone, PlanFails, OpenOutput, FinishOutput, Finish, IOFails,
                Exited, run_vars, vars
  <2>2. stage' \in {"import", "main", "read", "discover"} =>
            stage \in {"import", "main", "read", "discover"}
    BY <1>3 DEF LoadProvider, ImportDone, Inform, Misuse, BeginRun, DiscoverRaises,
                DiscoverDone, PlanFails, OpenOutput, FinishOutput, Finish, IOFails,
                Exited, run_vars
  <2> QED
    BY <2>1, <2>2, <1>V
<1> QED
  BY <1>1, <1>2, <1>3 DEF RunNext, Orchestrate

LEMMA ApplyAlways == RunSpec => []ApplyInv
BY TypeAlways, ControlAlways, ApplyInit, ApplyStep, PTL DEF RunSpec

-----------------------------------------------------------------------------

\* The edits of the plan clash exactly when those that were asked for do.
LEMMA ClashIsUnacceptable ==
    ASSUME Collected(Len(PATCHES)), Len(PATCHES) \in Nat
    PROVE  Clash <=> Unacceptable
<1>1. AskedUpTo(Len(PATCHES)) = Emissions
  BY EmissionsAre DEF AskedUpTo
<1>2. PICK f : /\ f \in [1..N -> Emissions]
               /\ \A a, b \in 1..N : f[a] = f[b] => a = b
               /\ \A x \in Emissions : \E m \in 1..N : f[m] = x
               /\ \A m \in 1..N : edits[m] = Emitted(f[m])
  BY <1>1 DEF Collected, N
<1>3. ASSUME Clash PROVE Unacceptable
  <2>1. CASE \E a, b \in 1..N :
                 /\ a # b
                 /\ edits[a].offset = edits[b].offset \/ ~Disjoint(edits[a], edits[b])
    <3>1. PICK a, b \in 1..N :
              /\ a # b
              /\ edits[a].offset = edits[b].offset \/ ~Disjoint(edits[a], edits[b])
      BY <2>1
    <3>2. /\ f[a] \in Emissions /\ f[b] \in Emissions /\ f[a] # f[b]
          /\ edits[a] = Emitted(f[a]) /\ edits[b] = Emitted(f[b])
      BY <1>2, <3>1
    <3> QED
      BY <3>1, <3>2 DEF Unacceptable
  <2>2. CASE \E a \in 1..N : ~RegionAccepted(ctx, edits[a])
    BY <1>2, <2>2 DEF Unacceptable
  <2> QED
    BY <1>3, <2>1, <2>2 DEF Clash
<1>4. ASSUME Unacceptable PROVE Clash
  <2>1. CASE \E x, y \in Emissions :
                 /\ x # y
                 /\ \/ Emitted(x).offset = Emitted(y).offset
                    \/ ~Disjoint(Emitted(x), Emitted(y))
    <3>1. PICK x, y \in Emissions :
              /\ x # y
              /\ \/ Emitted(x).offset = Emitted(y).offset
                 \/ ~Disjoint(Emitted(x), Emitted(y))
      BY <2>1
    <3>2. PICK a \in 1..N : f[a] = x
      BY <1>2
    <3>3. PICK b \in 1..N : f[b] = y
      BY <1>2
    <3>4. a # b /\ edits[a] = Emitted(x) /\ edits[b] = Emitted(y)
      BY <1>2, <3>1, <3>2, <3>3
    <3> QED
      BY <3>1, <3>4 DEF Clash
  <2>2. CASE \E x \in Emissions : ~RegionAccepted(ctx, Emitted(x))
    <3>1. PICK x \in Emissions : ~RegionAccepted(ctx, Emitted(x))
      BY <2>2
    <3>2. PICK a \in 1..N : f[a] = x
      BY <1>2
    <3>3. edits[a] = Emitted(x)
      BY <1>2, <3>2
    <3> QED
      BY <3>1, <3>3 DEF Clash
  <2> QED
    BY <1>4, <2>1, <2>2 DEF Unacceptable
<1> QED
  BY <1>3, <1>4

\* The edits of the plan hold as old what the image holds.
LEMMA PlanMatchesImage ==
    ASSUME TypeInv, stage = "apply", Collected(Len(PATCHES))
    PROVE  \A m \in 1..N : Matches(image, edits[m])
<1> TAKE m \in 1..N
<1>1. Len(PATCHES) \in Nat /\ PATCHES \in Seq(Patches) /\ image \in Images
  BY LenProperties DEF TypeInv
<1>2. PICK x \in Emissions : edits[m] = Emitted(x)
  BY DEF Collected, AskedUpTo, N
<1>3. /\ x[1] \in 1..Len(PATCHES)
      /\ x[2] \in 1..Len(Discover(PATCHES[x[1]], image, ctx))
  BY EmissionsAre
<1>4. PATCHES[x[1]] \in Patches
  BY <1>1, <1>3, ElementOfSeq
<1>5. Parses(image) /\ ctx = Parse(image)
  BY DEF TypeInv, Parsed
<1>6. Matches(image, Discover(PATCHES[x[1]], image, ctx)[x[2]])
  BY <1>1, <1>3, <1>4, <1>5, OldTextAssumption
<1> QED
  BY <1>2, <1>6 DEF Emitted

\* Before validate is done with it, an ELF image is no reason to fail.
LEMMA NotElfIsMachO ==
    ASSUME TypeInv, stage = "apply", ~ctx.is_elf
    PROVE  MachO
<1>1. Parses(image) /\ ctx = Parse(image)
  BY DEF TypeInv, Parsed
<1>2. Cell(image, 0) # ELF_MAGIC
  BY <1>1 DEF Parse
<1> QED
  BY <1>1, <1>2 DEF Parses, MachO

\* A run that fails for a reason in its inputs.
LEMMA FailedWithReason ==
    ASSUME exit' = 1, (Hopeless \/ (command = "patch" /\ MachO))'
    PROVE  FatalHasReason'
BY DEF FatalHasReason

LEMMA HopelessKept ==
    ASSUME UNCHANGED <<eps, command, image, ctx, PATCHES>>
    PROVE  Hopeless' = Hopeless /\ MachO' = MachO
<1>1. Emissions' = Emissions /\ (\A x : Emitted(x)' = Emitted(x))
  BY DEF Emissions, Emitted, Matched, Expects
<1>2. Unacceptable' = Unacceptable
  BY <1>1 DEF Unacceptable
<1> QED
  BY <1>2 DEF Hopeless, BrokenProvider, MachO

\* A run that comes to its regular end had nothing against it.
LEMMA FinishedNotHopeless ==
    ASSUME TypeInv, ControlInv, LoopInv, PlanInv, ApplyInv, stage = "copymode"
    PROVE  ~Hopeless
<1>1. ~BrokenProvider /\ Counted(Len(PATCHES)) /\ Collected(Len(PATCHES))
  BY DEF LoopInv, PlanInv
<1>2. Parses(image) /\ Len(PATCHES) \in Nat
  BY LenProperties DEF TypeInv, Parsed
<1>3. Accepted
  BY DEF ControlInv, Accepted
<1>4. ~Unacceptable
  BY <1>1, <1>2, <1>3, AcceptedNoClash, ClashIsUnacceptable DEF ApplyInv
<1> QED
  BY <1>1, <1>2, <1>4 DEF Hopeless, Counted

LEMMA FatalStep ==
    /\ TypeInv /\ ControlInv /\ LoopInv /\ PlanInv /\ ApplyInv /\ FatalHasReason
    /\ [RunNext]_run_vars
    => FatalHasReason'
<1> SUFFICES ASSUME TypeInv, ControlInv, LoopInv, PlanInv, ApplyInv, FatalHasReason,
                    [RunNext]_run_vars, stage' = "exited", disk' = "good"
             PROVE  FatalHasReason'
  BY DEF FatalHasReason, Ended
<1> USE DEF Exit, Fatal, input, applier
<1>1. CASE LoadProvider
  <2>1. /\ ~DiscoverEntryPoints(eps)[k].loads /\ k <= Len(eps) /\ exit' = 1
        /\ eps' = eps /\ k \in Nat \ {0} /\ eps \in Environments
    BY <1>1 DEF LoadProvider, TypeInv, RunTypeOK
  <2>2. k \in 1..Len(eps)
    BY <2>1, EntryPointsAre
  <2>3. PICK j \in 1..Len(eps) : DiscoverEntryPoints(eps)[k] = eps[j]
    BY <2>1, <2>2, EntryPointsAre
  <2>4. BrokenProvider'
    BY <2>1, <2>3 DEF BrokenProvider
  <2> QED
    BY <2>1, <2>4, FailedWithReason DEF Hopeless
<1>2. CASE Inform \/ Misuse
  <2>1. /\ exit' # 1 /\ command' # "patch" /\ eps' = eps /\ stage = "main"
    BY <1>2 DEF Inform, Misuse
  <2>2. ~BrokenProvider'
    BY <2>1 DEF LoopInv, BrokenProvider
  <2> QED
    BY <2>1, <2>2 DEF FatalHasReason, Hopeless
<1>3. CASE ReadSource
  <2>1. /\ ~Parses(image) /\ exit' = 1 /\ stage = "read"
        /\ image' = image /\ command' = command
    BY <1>3 DEF ReadSource
  <2>2. Hopeless'
    BY <2>1 DEF Hopeless, ControlInv
  <2> QED
    BY <2>1, <2>2, FailedWithReason
<1>4. CASE DiscoverRaises
  <2>1. /\ exit' = 1 /\ stage = "discover" /\ k \in Nat \ {0} /\ k <= Len(PATCHES)
        /\ PATCHES[k].raises /\ PATCHES' = PATCHES /\ command' = command
        /\ Len(PATCHES) \in Nat
    BY <1>4, LenProperties DEF DiscoverRaises, TypeInv, RunTypeOK
  <2>2. Hopeless'
    BY <2>1 DEF Hopeless, ControlInv
  <2> QED
    BY <2>1, <2>2, FailedWithReason
<1>5. CASE PlanFails
  <2>1. /\ stage = "apply" /\ pc \in {"rejected", "mismatch", "refused"}
        /\ exit' = 1 /\ UNCHANGED <<eps, command, image, ctx, PATCHES>>
    BY <1>5 DEF PlanFails, Outcomes
  <2>2. /\ Collected(Len(PATCHES)) /\ Len(PATCHES) \in Nat /\ command = "patch"
    BY <2>1, LenProperties DEF PlanInv, TypeInv, ControlInv
  <2>3. pc # "mismatch"
    BY <2>1, <2>2, PlanMatchesImage DEF ApplyInv, SpliceInv
  <2>4. CASE pc = "rejected"
    <3>1. Hopeless
      BY <2>2, <2>4, ClashIsUnacceptable DEF ApplyInv, VerdictInv, Hopeless
    <3>2. Hopeless'
      BY <2>1, <3>1, HopelessKept
    <3> QED
      BY <2>1, <3>2, FailedWithReason
  <2>5. CASE pc = "refused"
    <3>1. MachO
      BY <2>1, <2>5, NotElfIsMachO DEF ApplyInv, VerdictInv
    <3>2. MachO' /\ command' = "patch"
      BY <2>1, <2>2, <3>1, HopelessKept
    <3> QED
      BY <2>1, <3>2, FailedWithReason
  <2> QED
    BY <2>1, <2>3, <2>4, <2>5
<1>6. CASE Finish
  <2>1. /\ stage = "copymode" /\ exit' # 1
        /\ UNCHANGED <<eps, command, image, ctx, PATCHES>>
    BY <1>6 DEF Finish
  <2>2. ~Hopeless'
    BY <2>1, FinishedNotHopeless, HopelessKept
  <2> QED
    BY <2>1, <2>2 DEF FatalHasReason
<1>7. CASE IOFails
  BY <1>7 DEF IOFails
<1>8. CASE Exited \/ UNCHANGED run_vars
  <2>1. /\ UNCHANGED <<eps, command, image, ctx, PATCHES>>
        /\ exit' = exit /\ disk' = disk /\ stage' = stage
    BY <1>8 DEF Exited, run_vars
  <2>2. Hopeless' = Hopeless /\ MachO' = MachO
    BY <2>1, HopelessKept
  <2> QED
    BY <2>1, <2>2 DEF FatalHasReason, Ended
<1>9. CASE \/ ImportDone \/ BeginRun \/ DiscoverPatch \/ DiscoverDone
           \/ ValidateAndApply \/ OpenOutput \/ FinishOutput
  BY <1>9 DEF ImportDone, BeginRun, DiscoverPatch, DiscoverDone, ValidateAndApply,
              OpenOutput, FinishOutput
<1> QED
  BY <1>1, <1>2, <1>3, <1>4, <1>5, <1>6, <1>7, <1>8, <1>9 DEF RunNext, Orchestrate

\* With a disk that works, a run is fatal exactly when its inputs are at fault,
\* for every image and all providers whose patches say truly what they replace:
\* the plan of a run is rejected if and only if the edits of the patches that
\* matched conflict, and an accepted plan never fails in its splices
\* (cli.py:115-166).
THEOREM FatalRunsHaveReason == RunSpec => []FatalHasReason
<1>1. RunInit => FatalHasReason
  BY DEF RunInit, FatalHasReason, Ended
<1> QED
  BY <1>1, FatalStep, TypeAlways, ControlAlways, LoopAlways, PlanAlways, ApplyAlways,
     PTL DEF RunSpec

-----------------------------------------------------------------------------
(* A run whose patches find what lies in the texts begins to validate an   *)
(* image and a plan as PatchedImageProofs wants them.                      *)

AppliesPlan == stage \in {"apply", "write", "copymode"}
Succeeded == Ended /\ command = "patch" /\ exit \in {0, 2}

OutputInv ==
    /\ AppliesPlan => AppliedInv
    /\ Succeeded => /\ AppliedInv /\ Patched /\ dst = Written(buf)
                    /\ PlanEdits = {Emitted(x) : x \in Emissions}

\* Every edit of the plan was found by a patch.
LEMMA EditWasFound ==
    ASSUME TypeInv, Collected(Len(PATCHES)), NEW m \in 1..N
    PROVE  \E p \in Patches : \E n \in 1..Len(Discover(p, image, ctx)) :
              edits[m] = Discover(p, image, ctx)[n]
<1>1. Len(PATCHES) \in Nat /\ PATCHES \in Seq(Patches)
  BY LenProperties DEF TypeInv
<1>2. PICK x \in Emissions : edits[m] = Emitted(x)
  BY DEF Collected, AskedUpTo, N
<1>3. /\ x[1] \in 1..Len(PATCHES)
      /\ x[2] \in 1..Len(Discover(PATCHES[x[1]], image, ctx))
  BY EmissionsAre
<1>4. PATCHES[x[1]] \in Patches
  BY <1>1, <1>3, ElementOfSeq
<1> QED
  BY <1>2, <1>3, <1>4 DEF Emitted

\* The plan holds what the matched patches ask for, and nothing else.
LEMMA PlanIsEmitted ==
    ASSUME TypeInv, Collected(Len(PATCHES))
    PROVE  PlanEdits = {Emitted(x) : x \in Emissions}
<1>1. Len(PATCHES) \in Nat
  BY LenProperties DEF TypeInv
<1>2. AskedUpTo(Len(PATCHES)) = Emissions
  BY <1>1, EmissionsAre DEF AskedUpTo
<1>3. PICK f : /\ f \in [1..Len(edits) -> Emissions]
               /\ \A x \in Emissions : \E m \in 1..Len(edits) : f[m] = x
               /\ \A m \in 1..Len(edits) : edits[m] = Emitted(f[m])
  BY <1>2 DEF Collected
<1> QED
  BY <1>3 DEF PlanEdits, N

\* The loop over PATCHES is done and validate has not begun.
LEMMA PlanIsDescribed ==
    ASSUME FoundAsDescribed, TypeInv, OrderInv, stage \in Parsed, pc = "sort", buf = image,
           Collected(Len(PATCHES))
    PROVE  AppliedInv
<1>1. Parses(image) /\ ctx = Parse(image) /\ image \in Images
  BY DEF TypeInv
<1>2. \A m \in 1..N : RegionAccepted(ctx, edits[m]) => Anchored(ctx, edits[m])
  <2> TAKE m \in 1..N
  <2>1. PICK p \in Patches : \E n \in 1..Len(Discover(p, image, ctx)) :
            edits[m] = Discover(p, image, ctx)[n]
    BY EditWasFound
  <2>2. PICK n \in 1..Len(Discover(p, image, ctx)) : edits[m] = Discover(p, image, ctx)[n]
    BY <2>1
  <2> QED
    BY <1>1, <2>2 DEF FoundAsDescribed, FoundIn
<1>3. ContextInv
  BY <1>1, <1>2 DEF ContextInv, FoundAsDescribed, FoundIn
<1>4. PlaceInv /\ PhaseInv
  BY DEF PlaceInv, PhaseInv
<1> QED
  BY <1>3, <1>4 DEF AppliedInv

\* What patches ask for depends on the image and on the registry.
LEMMA EmissionsKept ==
    ASSUME UNCHANGED <<edits, image, ctx, PATCHES>>
    PROVE  UNCHANGED <<PlanEdits, Emissions>> /\ \A x : Emitted(x)' = Emitted(x)
<1>1. \A n : Matched(PATCHES[n])' = Matched(PATCHES[n])
  BY DEF Matched, Expects
<1>2. Emissions' = Emissions
  BY <1>1 DEF Emissions
<1> QED
  BY <1>2 DEF PlanEdits, N, Emitted

LEMMA AppliedStep ==
    ASSUME AppliedInv, [Next]_vars
    PROVE  AppliedInv'
BY OrderStep, PlaceStep, ContextStep, PhaseStep DEF AppliedInv

LEMMA OutputInit == RunInit => OutputInv
BY DEF RunInit, OutputInv, AppliesPlan, Succeeded, Ended

LEMMA OutputStep ==
    FoundAsDescribed =>
        (/\ TypeInv /\ ControlInv /\ LoopInv /\ PlanInv /\ ApplyInv /\ OutputInv
         /\ [RunNext]_run_vars
         => OutputInv')
<1> SUFFICES ASSUME FoundAsDescribed, TypeInv, ControlInv, LoopInv, PlanInv, ApplyInv,
                    OutputInv, [RunNext]_run_vars
             PROVE  OutputInv'
  OBVIOUS
<1> USE DEF Exit, Fatal, input, applier
<1>1. CASE DiscoverDone
  <2>1. /\ stage = "discover" /\ stage' = "apply" /\ k > Len(PATCHES)
        /\ UNCHANGED vars
    BY <1>1 DEF DiscoverDone, vars
  <2>2. pc = "sort" /\ buf = image /\ OrderInv /\ stage \in Parsed
    BY <2>1 DEF ControlInv, ApplyInv, Parsed
  <2>3. Collected(Len(PATCHES))
    <3>1. Len(PATCHES) \in Nat /\ k \in Nat \ {0} /\ k <= Len(PATCHES) + 1
      BY <2>1, LenProperties DEF TypeInv, RunTypeOK, LoopInv
    <3>2. k - 1 = Len(PATCHES)
      BY <2>1, <3>1
    <3> QED
      BY <2>1, <3>2 DEF PlanInv
  <2>4. AppliedInv
    BY <2>2, <2>3, PlanIsDescribed
  <2>5. AppliedInv'
    BY <2>1, <2>4, AppliedStep
  <2> QED
    BY <2>1, <2>5 DEF OutputInv, AppliesPlan, Succeeded, Ended
<1>2. CASE ValidateAndApply \/ OpenOutput \/ FinishOutput
  <2>1. /\ AppliesPlan /\ stage' # "exited" /\ [Next]_vars
    BY <1>2 DEF ValidateAndApply, OpenOutput, FinishOutput, AppliesPlan, vars
  <2>2. AppliedInv'
    BY <2>1, AppliedStep DEF OutputInv
  <2> QED
    BY <2>1, <2>2 DEF OutputInv, Succeeded, Ended
<1>3. CASE Finish
  <2>1. /\ AppliesPlan /\ stage = "copymode" /\ stage' = "exited"
        /\ UNCHANGED <<vars, dst, PATCHES, command>>
    BY <1>3 DEF Finish, AppliesPlan, vars
  <2>2. AppliedInv'
    BY <2>1, AppliedStep DEF OutputInv
  <2>3. PlanEdits = {Emitted(x) : x \in Emissions}
    BY <2>1, PlanIsEmitted DEF PlanInv
  <2>4. UNCHANGED <<PlanEdits, Emissions>> /\ \A x : Emitted(x)' = Emitted(x)
    BY <2>1, EmissionsKept DEF vars
  <2>5. PlanEdits' = {Emitted(x)' : x \in Emissions'}
    BY <2>3, <2>4
  <2>6. Patched' /\ dst' = Written(buf)'
    BY <2>1 DEF ControlInv, Patched, Written, vars
  <2> QED
    BY <2>1, <2>2, <2>5, <2>6 DEF OutputInv, AppliesPlan
<1>4. CASE Exited \/ UNCHANGED run_vars
  <2>1. UNCHANGED <<vars, dst, PATCHES, command, stage, exit>>
    BY <1>4 DEF Exited, run_vars, vars
  <2>2. UNCHANGED <<AppliesPlan, Succeeded>>
    BY <2>1 DEF AppliesPlan, Succeeded, Ended
  <2>3. AppliedInv => AppliedInv'
    BY <2>1, AppliedStep
  <2>4. UNCHANGED <<PlanEdits, Emissions>> /\ \A x : Emitted(x)' = Emitted(x)
    BY <2>1, EmissionsKept DEF vars
  <2>5. PlanEdits = {Emitted(x) : x \in Emissions}
           => PlanEdits' = {Emitted(x)' : x \in Emissions'}
    BY <2>4
  <2>6. Patched /\ dst = Written(buf) => Patched' /\ dst' = Written(buf)'
    BY <2>1 DEF Patched, Written, vars
  <2> QED
    BY <2>2, <2>3, <2>5, <2>6 DEF OutputInv
<1>5. CASE \/ LoadProvider \/ ImportDone \/ Inform \/ Misuse \/ BeginRun \/ ReadSource
           \/ DiscoverRaises \/ DiscoverPatch \/ PlanFails \/ IOFails
  <2>1. ~AppliesPlan' /\ ~Succeeded'
    <3>1. CASE LoadProvider
      BY <3>1 DEF LoadProvider, AppliesPlan, Succeeded, Ended
    <3>2. CASE ImportDone \/ BeginRun \/ DiscoverPatch
      BY <3>2 DEF ImportDone, BeginRun, DiscoverPatch, AppliesPlan, Succeeded, Ended
    <3>3. CASE Inform \/ Misuse
      BY <3>3 DEF Inform, Misuse, AppliesPlan, Succeeded, Ended
    <3>4. CASE ReadSource \/ DiscoverRaises \/ PlanFails \/ IOFails
      BY <3>4 DEF ReadSource, DiscoverRaises, PlanFails, IOFails, AppliesPlan, Succeeded, Ended
    <3> QED
      BY <1>5, <3>1, <3>2, <3>3, <3>4
  <2> QED
    BY <2>1 DEF OutputInv
<1> QED
  BY <1>1, <1>2, <1>3, <1>4, <1>5 DEF RunNext, Orchestrate

\* A file a run has written with success is the image applied to the plan.
LEMMA OutputReadBack ==
    OutputInv => OutputHasMatchedPatches
<1> SUFFICES ASSUME OutputInv, Succeeded PROVE OutputHasMatchedPatches
  BY DEF OutputHasMatchedPatches, Succeeded
<1>1. /\ AppliedInv /\ Patched /\ dst.cells = buf
      /\ PlanEdits = {Emitted(x) : x \in Emissions}
  BY DEF OutputInv, Written
<1>2. Parses(buf)
  BY <1>1, PatchedIsReadBack DEF ReadBack
<1>3. \A r \in SourceRefs \cup {ArgvRef} : Text(buf, Parse(buf), r) = Rewritten(r)
  <2> TAKE r \in SourceRefs \cup {ArgvRef}
  <2>1. r \in ModuleRefs(ctx.bun) \cup {ArgvRef} /\ r.field # "bytecode"
    BY DEF SourceRefs, ArgvRef
  <2> QED
    BY <1>1, <2>1, TextsRewritten
<1> QED
  BY <1>1, <1>2, <1>3 DEF OutputHasMatchedPatches

\* The file a run of run_patcher leaves behind with status 0 or 2 holds the
\* edits of the patches that matched and no others, and Bun reads every text of
\* it as the input's text with just those made (cli.py:124-168), for every
\* image as bun and a linker lay it out, every set of providers whose patches
\* find text in its regions, and whatever the disk does.
THEOREM OutputsArePatched ==
    ASSUME FoundAsDescribed
    PROVE  RunSpec => []OutputHasMatchedPatches
<1>1. /\ TypeInv /\ ControlInv /\ LoopInv /\ PlanInv /\ ApplyInv /\ OutputInv
      /\ [RunNext]_run_vars
      => OutputInv'
  BY OutputStep
<1>2. RunSpec => []OutputInv
  BY <1>1, OutputInit, TypeAlways, ControlAlways, LoopAlways, PlanAlways, ApplyAlways,
     PTL DEF RunSpec
<1> QED
  BY <1>2, OutputReadBack, PTL
=============================================================================
