-------------------------- MODULE LaunchProperties --------------------------
(***************************************************************************)
(* What the cache of patched binaries guarantees, and what the             *)
(* documentation says it guarantees.                                       *)
(***************************************************************************)
EXTENDS LaunchCache

Labels == Stopped \cup {"hash_source", "hash_engine", "lookup", "read", "open",
    "write", "copymode", "fatal", "missed", "drop", "list", "prune", "relink",
    "drop_link", "make_link", "return"}

TypeOK ==
    /\ source \in Sources /\ engine \in Engines /\ registry \in Registries
    /\ outcome \in [Builds -> Results]
    /\ cache \in [Builds -> Files \cup {NoFile}]
    /\ link \in Builds \cup SourcePaths \cup {NoLink}
    /\ pc \in [Launchers -> Labels]
    /\ loaded \in [Launchers -> [engine : Engines, registry : Registries]]
    /\ key \in [Launchers -> Builds]
    /\ src \in [Launchers -> SourcePaths]
    /\ versioned \in [Launchers -> Builds \cup SourcePaths]
    /\ built \in [Launchers -> Builds]
    /\ fd \in [Launchers -> {"none", "open", "orphan"}]
    /\ todo \in [Launchers -> SUBSET Builds]
    /\ runs \in [Launchers -> Nat]
    /\ changes \in Nat
    /\ alone \in [Launchers -> BOOLEAN]
    /\ abandoned \in SUBSET Builds

-----------------------------------------------------------------------------

\* Whatever overlaps, fails or is killed: a cached file that is truncated or
\* not yet executable either is in the hands of a live launcher, which will
\* complete or unlink it, or was left by one that was killed while it had it
\* (cli.py:168-169, launch.py:174-185).
UnfinishedHasWriter ==
    \A k \in Builds :
        Exists(k) /\ ~Complete(k) =>
            \/ k \in abandoned
            \/ \E p \in Launchers : key[p] = k /\ pc[p] \in {"write", "copymode", "fatal"}

\* As long as cc_patcher itself is not upgraded under a running launcher, nor
\* the binary overwritten in place, a complete file is the build its name
\* stands for, whoever wrote it and whatever else is installed meanwhile
\* (launch.py:139-147, cli.py:116).
FilesMatchKeys ==
    \A k \in Builds : Exists(k) => cache[k].data \in {Torn, k}

\* With nobody running and nobody killed, one build is cached at most: of two
\* launchers that leave different builds behind, the one that created its file
\* later has seen and unlinked the other's (launch.py:205-208).
AtMostOneCached ==
    (\A p \in Launchers : pc[p] \in {"idle", "done", "error"}) =>
        \A j, k \in Builds : Exists(j) /\ Exists(k) => j = k

\* A launcher that runs alone hands out a link to a binary that can be executed
\* and is the right one, whatever overlapping runs left in the directory before
\* it: the build of what is installed now if all patches match, the unpatched
\* binary if patching is fatal (launch.py:171-219).
SoloRunsRightBinary ==
    \A p \in Launchers :
        LET now == <<source, engine, registry>>
        IN pc[p] = "return" /\ alone[p] =>
            /\ link = versioned[p]
            /\ link \in Builds => Complete(link) \/ link \in abandoned
            /\ outcome[now] = "all" => link = now
            /\ outcome[now] = "fatal" => link = SourcePath(source)

\* No launcher that runs alone raises from the relinking, not even on the
\* dangling link an earlier pruning left (launch.py:210-212).
SoloNeverRaises == \A p \in Launchers : pc[p] = "error" => ~alone[p]

\* Every run that is not killed comes to an end.
RunsEnd == \A p \in Launchers : Active(p) ~> ~Active(p)

-----------------------------------------------------------------------------
(* What the documentation says.                                            *)

\* "Return the path to a cached, patched Claude Code binary, patching and
\* caching it first" (launch.py:151-153): the path that is returned leads to
\* the source or to a complete file.
ReturnsUsable ==
    \A p \in Launchers :
        pc[p] = "return" => link \in SourcePaths \/ (link \in Builds /\ Complete(link))

\* "a partial match (exit 2) falls back to the previous cached patched binary
\* when one exists, otherwise proceeds with the partially-patched result"
\* (launch.py:16-18): never the unpatched binary.
PartialNeverUnpatched ==
    \A p \in Launchers :
        pc[p] = "return" /\ outcome[key[p]] = "partial" => versioned[p] \notin SourcePaths
=============================================================================
