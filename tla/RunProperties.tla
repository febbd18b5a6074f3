---------------------------- MODULE RunProperties ----------------------------
(***************************************************************************)
(* What a run of cc-patcher must do, stated from its inputs: the image,    *)
(* the installed providers and what their patches find in the image.       *)
(***************************************************************************)
EXTENDS RunPatcher

Stages == {"import", "main", "read", "discover", "apply", "write", "copymode",
           "exited"}

PatchResult == [emitted : Nat, applied : Nat]

RunTypeOK ==
    /\ command \in AllCommands
    /\ disk \in {"good", "bad"}
    /\ stage \in Stages
    /\ k \in Nat \ {0}
    /\ results \in Seq(PatchResult)
    /\ dst.status \in {"untouched", "torn", "written"}
    /\ exit \in {NoExit, 0, 1, 2}

-----------------------------------------------------------------------------

\* ExpectCount: exactly that many, lo to hi inclusive, at least lo, or any.
Expects(patch, n) ==
    \/ ~patch.counted
    \/ patch.hi = UNBOUNDED /\ n >= patch.lo
    \/ n \in patch.lo .. patch.hi

\* A patch that takes part: it found something, in a number it expects.
Matched(patch) ==
    LET n == Len(Discover(patch, image, ctx)) IN n > 0 /\ Expects(patch, n)

\* <<n, j>>: the j-th edit of the n-th patch is asked for.
Emissions ==
    UNION {{<<n, j>> : j \in 1..Len(Discover(PATCHES[n], image, ctx))} :
              n \in {m \in 1..Len(PATCHES) : Matched(PATCHES[m])}}

Emitted(x) == Discover(PATCHES[x[1]], image, ctx)[x[2]]

\* Two patches want the same cells, or one wants cells it must not have.
Unacceptable ==
    \/ \E x, y \in Emissions :
          /\ x # y
          /\ \/ Emitted(x).offset = Emitted(y).offset
             \/ ~Disjoint(Emitted(x), Emitted(y))
    \/ \E x \in Emissions : ~RegionAccepted(ctx, Emitted(x))

\* What makes a run hopeless, whatever the disk does.
BrokenProvider == \E n \in 1..Len(eps) : ~eps[n].loads
Hopeless ==
    \/ BrokenProvider
    \/ /\ command = "patch"
       /\ \/ ~Parses(image)
          \/ \E n \in 1..Len(PATCHES) : PATCHES[n].raises
          \/ Unacceptable

MachO == Cell(image, 0) = MACHO_MAGIC_64

Ended == stage = "exited"

-----------------------------------------------------------------------------

\* The exit status of a patch run tells the truth about its output: 0 says
\* that every installed patch matched and the output is complete, 2 that it is
\* complete without the patches that missed, and only copying the mode can
\* fail (1) once the output is complete (cli.py:7-10, 168-178).
ExitCodes ==
    Ended /\ command = "patch" =>
        /\ exit = 0 => /\ dst = Written(buf)
                       /\ \A n \in 1..Len(PATCHES) : Matched(PATCHES[n])
        /\ exit = 2 => /\ dst = Written(buf)
                       /\ \E n \in 1..Len(PATCHES) : ~Matched(PATCHES[n])
        /\ exit = 1 /\ dst.status # "untouched" => disk = "bad"

\* With a disk that works a run is fatal exactly when a provider cannot be
\* imported, the image cannot be parsed, a patch raises, or the edits of the
\* patches that matched conflict or reach where none may; in particular the
\* splices of an accepted plan never fail, as long as patches say truly what
\* they replace.  A Mach-O image may be refused besides, for its padding; of
\* such images the property does not say when (cli.py:115-166).
FatalHasReason ==
    Ended /\ disk = "good" =>
        /\ Hopeless => exit = 1
        /\ exit = 1 => Hopeless \/ (command = "patch" /\ MachO)

\* A patch takes part with all its edits or with none: whatever the plan
\* holds, some patch that matched asked for, and whatever such a patch asked
\* for the plan holds (cli.py:124-158).
AllOrNothing ==
    stage = "apply" =>
        {edits[n] : n \in 1..Len(edits)} = {Emitted(x) : x \in Emissions}

-----------------------------------------------------------------------------
(* The registry and its key.                                               *)

DistinctNames(list) ==
    \A n, m \in 1..Len(list) : list[n].name = list[m].name => n = m

Loads(list) == \A n \in 1..Len(list) : list[n].loads

SameProviders(list1, list2) ==
    {list1[n] : n \in 1..Len(list1)} = {list2[n] : n \in 1..Len(list2)}

Keys(patches) == [n \in 1..Len(patches) |-> patches[n].key]

OneLine(key) == \A n \in 1..Len(key) : key[n] # NEWLINE

\* In which order the packages were installed makes no difference to the
\* registry, as long as no two entry points have one name
\* (patches.py:11-15, 46-50).
RegistryIsStable ==
    stage = "main" /\ command = "emit_cache_key" /\ DistinctNames(eps) =>
        \A other \in Environments :
            SameProviders(eps, other) /\ Len(eps) = Len(other) =>
                PatchesOf(other, Len(other)) = PATCHES

\* What is hashed tells any two registries apart whose patches differ in
\* number, order or keys, as long as no key has a line end in it
\* (launch.py:8-11, cli.py:215-221).
KeysTellRegistries ==
    /\ stage = "main" /\ command = "emit_cache_key"
    /\ \A n \in 1..Len(PATCHES) : OneLine(PATCHES[n].key)
    => \A other \in Environments :
          LET there == PatchesOf(other, Len(other))
          IN /\ Loads(other)
             /\ \A n \in 1..Len(there) : OneLine(there[n].key)
             /\ KeyText(there) = KeyText(PATCHES)
             => Keys(there) = Keys(PATCHES)

-----------------------------------------------------------------------------

\* What the command line asks for, and which patches have been applied in
\* memory, as PatchRun sees it.
Asked ==
    CASE command = "patch" -> "patch"
      [] command \in {"list", "emit_cache_key"} -> "inform"
      [] OTHER -> "misuse"

Verdict ==
    IF pc # "done" THEN "open" ELSE IF MissedResults = {} THEN "all" ELSE "some"

Contract == INSTANCE PatchRun WITH
    asked <- Asked, verdict <- Verdict, out <- dst.status

\* A run does what PatchRun promises: nothing touches the output path before
\* the whole plan has been validated and applied in memory (cli.py:160-168).
KeepsContract == Contract!Spec

\* Whatever is installed and whatever the disk does, the command comes to an
\* end, as long as every discover() returns or raises (cli.py:115-178).
RunExits == <>Ended
=============================================================================
