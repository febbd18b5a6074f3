------------------------------- MODULE Registry -------------------------------
(***************************************************************************)
(* The patch registry (cc_patcher/patches.py) and the text its cache key   *)
(* is the hash of (cc_patcher/cli.py, cc_patcher/launch.py).               *)
(*                                                                         *)
(* An entry point is [name, loads, patches]: names are numbers in their    *)
(* alphabetical order, loads is FALSE when importing the provider raises.  *)
(* A patch is a record with at least [key, counted, lo, hi]: key is what   *)
(* its cache_key() returns, a sequence of characters; counted says that    *)
(* expect_count is not None, and lo, hi are its bounds.                    *)
(***************************************************************************)
EXTENDS Integers, FiniteSets, SequencesExt

NEWLINE == 10
UNBOUNDED == -1            \* the None of (lo, None)

-----------------------------------------------------------------------------

\* Place of the j-th entry point in the list sorted() returns, which is stable.
NamePlace(eps, j) ==
    Cardinality({m \in 1..Len(eps) :
                    \/ eps[m].name < eps[j].name
                    \/ eps[m].name = eps[j].name /\ m <= j})

\* Mutant: the order in which the distributions happen to be installed.
InstallationOrder(eps) == eps

\* discover_entry_points
DiscoverEntryPoints(eps) ==
    [n \in 1..Len(eps) |-> eps[CHOOSE j \in 1..Len(eps) : NamePlace(eps, j) = n]]

\* PATCHES after the first n entry points have been loaded.
PatchesOf(eps, n) ==
    FlattenSeq([m \in 1..n |-> DiscoverEntryPoints(eps)[m].patches])

\* Mutant: the keys run into one another.
KeyLineUnended(patch) == patch.key

\* What one patch adds to the hash.
KeyLine(patch) == Append(patch.key, NEWLINE)

\* The text cmd_emit_cache_key hashes, and registry_cache_key behind the
\* engine's key.
KeyText(patches) == FlattenSeq([m \in 1..Len(patches) |-> KeyLine(patches[m])])

-----------------------------------------------------------------------------
(* expect_count                                                            *)

\* Mutant: hi is taken for the first number that is too many.
UnexpectedAtBound(patch, n) ==
    /\ patch.counted
    /\ n < patch.lo \/ (patch.hi # UNBOUNDED /\ n >= patch.hi)

\* The number of edits a patch emitted is one it does not expect.
Unexpected(patch, n) ==
    /\ patch.counted
    /\ n < patch.lo \/ (patch.hi # UNBOUNDED /\ n > patch.hi)
=============================================================================
