----------------------------- MODULE LaunchCache -----------------------------
(***************************************************************************)
(* The cache of patched binaries (cc_patcher/launch.py) under launchers    *)
(* that start, overlap, fail and are killed at any point: one action per   *)
(* file-system operation of resolve_patched_binary and of the writing end  *)
(* of run_patcher (cc_patcher/cli.py).                                     *)
(*                                                                         *)
(* Nothing locks the cache directory, so an action is one system call (or  *)
(* one that no other launcher can tell from one).  What a run makes of its *)
(* input is a function of the bytes it read and of the code it loaded:     *)
(* "all" patches matched, "partial" (some missed) or "fatal".              *)
(***************************************************************************)
EXTENDS Integers, FiniteSets

CONSTANTS
    Launchers,      \* the processes that may run cc-patcher launch or resolve
    Sources,        \* contents the real binary may have
    Engines,        \* versions of cc_patcher's own code
    Registries,     \* sets of installed providers
    EmptyRegistry,  \* the one with no provider in it, if it is considered
    Src,            \* where the real binary is installed
    Versioned,      \* whether each version has a path of its own under Src
    NoLink,         \* the symlink does not exist
    Torn,           \* the text of a file that is not a whole build
    NoFile,         \* there is no file of that key
    Outcomes,       \* the functions [Builds -> Results] to consider
    Crashes,        \* whether a launcher may be killed
    Faults,         \* whether a system call of run_patcher may fail
    QuietChanges,   \* whether installations change only while none runs
    MaxChanges,     \* bound on the changes of source and installation
    MaxRuns         \* bound on the runs of each launcher

\* A build is what was patched, by which code; a cache key names one.
Builds == Sources \X Engines \X Registries
Results == {"all", "partial", "fatal"}

ASSUME ConstantsAssumption ==
    /\ Outcomes \subseteq [Builds -> Results]
    /\ Versioned \in BOOLEAN
    /\ Crashes \in BOOLEAN /\ Faults \in BOOLEAN /\ QuietChanges \in BOOLEAN
    /\ MaxChanges \in Nat /\ MaxRuns \in Nat

Files == [data : Builds \cup {Torn}, exec : BOOLEAN]

\* find_claude_binary resolves links: an installation that keeps its versions
\* side by side (~/.local/share/claude/versions) gives another path for each,
\* one that is overwritten in place always the same.
SourcePath(s) == IF Versioned THEN <<Src, s>> ELSE Src
SourcePaths == {SourcePath(s) : s \in Sources}

ASSUME PathsAssumption ==
    /\ SourcePaths \cap (Builds \cup {NoLink}) = {}
    /\ NoLink \notin Builds /\ Torn \notin Builds
    /\ NoFile \notin Files

VARIABLES
    source,      \* the version of the real binary installed now
    engine,      \* the cc_patcher source on disk now
    registry,    \* the providers installed now
    outcome,     \* what run_patcher makes of each build
    cache,       \* the files claude-patched-<key>: [data, exec] or NoFile
    link,        \* where the symlink claude-patched points
    pc,
    loaded,      \* the code each launcher imported: [engine, registry]
    src,         \* the path of the real binary it has found
    key,         \* its cache key
    versioned,   \* the variable of that name: a key or a source path
    built,       \* the bytes run_patcher is writing
    fd,          \* its open file: "none", "open", or "orphan" once unlinked
    todo,        \* old files the pruning loop has still to unlink
    runs,        \* runs started by each launcher, bounded by MaxRuns
    changes,     \* changes so far, bounded by MaxChanges
    alone,       \* history: no other launcher was active during this run
    abandoned    \* history: keys whose file a killed launcher left unfinished

env == <<source, engine, registry, outcome, changes>>
local == <<loaded, src, key, versioned, built, fd, todo, runs, alone>>
vars == <<env, cache, link, pc, local, abandoned>>

-----------------------------------------------------------------------------

Stopped == {"idle", "done", "error", "killed"}
Active(p) == pc[p] \notin Stopped
Exists(k) == cache[k] # NoFile
Complete(k) == Exists(k) /\ cache[k].data # Torn /\ cache[k].exec

Goto(p, l) == pc' = [pc EXCEPT ![p] = l]

\* Path.unlink(missing_ok=True): the file goes, and whoever has it open goes
\* on writing to an inode no path leads to.
Unlink(k) ==
    /\ cache' = [cache EXCEPT ![k] = NoFile]
    /\ abandoned' = abandoned \ {k}
OrphansOf(k) ==
    [q \in Launchers |-> IF fd[q] = "open" /\ key[q] = k THEN "orphan" ELSE fd[q]]

Init ==
    /\ source \in Sources /\ engine \in Engines /\ registry \in Registries
    /\ outcome \in Outcomes
    /\ cache = [k \in Builds |-> NoFile]
    /\ link = NoLink
    /\ pc = [p \in Launchers |-> "idle"]
    /\ loaded = [p \in Launchers |-> [engine |-> engine, registry |-> registry]]
    /\ key = [p \in Launchers |-> <<source, engine, registry>>]
    /\ src = [p \in Launchers |-> SourcePath(source)]
    /\ versioned = [p \in Launchers |-> SourcePath(source)]
    /\ built = [p \in Launchers |-> <<source, engine, registry>>]
    /\ fd = [p \in Launchers |-> "none"]
    /\ todo = [p \in Launchers |-> {}]
    /\ runs = [p \in Launchers |-> 0]
    /\ changes = 0
    /\ alone = [p \in Launchers |-> TRUE]
    /\ abandoned = {}

-----------------------------------------------------------------------------
(* The world around the launchers.                                         *)

MayChange ==
    /\ changes < MaxChanges
    /\ QuietChanges => \A p \in Launchers : ~Active(p)
    /\ changes' = changes + 1
    /\ UNCHANGED <<outcome, cache, link, pc, local, abandoned>>

UpgradeSource ==
    /\ \E s \in Sources \ {source} : source' = s
    /\ MayChange
    /\ UNCHANGED <<engine, registry>>

UpgradeEngine ==
    /\ \E e \in Engines \ {engine} : engine' = e
    /\ MayChange
    /\ UNCHANGED <<source, registry>>

ChangeProviders ==
    /\ \E r \in Registries \ {registry} : registry' = r
    /\ MayChange
    /\ UNCHANGED <<source, engine>>

\* SIGKILL, Ctrl-C (KeyboardInterrupt is no Exception, launch.py:174), power.
Crash(p) ==
    /\ Crashes
    /\ Active(p)
    /\ Goto(p, "killed")
    /\ fd' = [fd EXCEPT ![p] = "none"]
    /\ abandoned' = IF pc[p] \in {"write", "copymode", "fatal"} /\ Exists(key[p])
                    THEN abandoned \cup {key[p]} ELSE abandoned
    /\ UNCHANGED <<env, cache, link, loaded, src, key, versioned, built, todo, runs, alone>>

-----------------------------------------------------------------------------
(* resolve_patched_binary up to the cache lookup.                          *)

\* cmd_launch and cmd_resolve: importing cc_patcher fixes the engine and
\* PATCHES for the life of the process.  resolve refuses an empty registry,
\* launch only warns.
Start(p) ==
    /\ ~Active(p)
    /\ runs[p] < MaxRuns
    /\ runs' = [runs EXCEPT ![p] = @ + 1]
    /\ loaded' = [loaded EXCEPT ![p] = [engine |-> engine, registry |-> registry]]
    /\ \/ Goto(p, "hash_source")
       \/ registry = EmptyRegistry /\ Goto(p, "done")
    /\ alone' = [q \in Launchers |->
                    IF q = p THEN \A o \in Launchers \ {p} : ~Active(o)
                    ELSE alone[q] /\ ~Active(q)]
    /\ UNCHANGED <<env, cache, link, src, key, versioned, built, fd, todo, abandoned>>

\* What is read from a source path: old versions are kept side by side.
Contents(path) == IF Versioned THEN path[2] ELSE source

\* find_claude_binary, then binary_cache_key: it hashes the binary, then
\* registry_cache_key the package's source files as they are on disk now and
\* the providers loaded at import.
HashSource(p) ==
    /\ pc[p] = "hash_source"
    /\ src' = [src EXCEPT ![p] = SourcePath(source)]
    /\ key' = [key EXCEPT ![p] = <<source, key[p][2], key[p][3]>>]
    /\ Goto(p, "hash_engine")
    /\ UNCHANGED <<env, cache, link, loaded, versioned, built, fd, todo, runs,
                   alone, abandoned>>

\* Mutant: the key tells the providers installed now, not those imported.
HashProvidersNow(p) ==
    /\ pc[p] = "hash_engine"
    /\ key' = [key EXCEPT ![p] = <<key[p][1], engine, registry>>]
    /\ versioned' = [versioned EXCEPT ![p] = key'[p]]
    /\ Goto(p, "lookup")
    /\ UNCHANGED <<env, cache, link, loaded, src, built, fd, todo, runs, alone,
                   abandoned>>

\* Mutant: an engine upgrade does not change the key.
HashWithoutEngine(p) ==
    /\ pc[p] = "hash_engine"
    /\ key' = [key EXCEPT ![p] = <<key[p][1], CHOOSE e \in Engines : TRUE,
                                  loaded[p].registry>>]
    /\ versioned' = [versioned EXCEPT ![p] = key'[p]]
    /\ Goto(p, "lookup")
    /\ UNCHANGED <<env, cache, link, loaded, src, built, fd, todo, runs, alone,
                   abandoned>>

HashEngine(p) ==
    /\ pc[p] = "hash_engine"
    /\ key' = [key EXCEPT ![p] = <<key[p][1], engine, loaded[p].registry>>]
    /\ versioned' = [versioned EXCEPT ![p] = key'[p]]
    /\ Goto(p, "lookup")
    /\ UNCHANGED <<env, cache, link, loaded, src, built, fd, todo, runs, alone,
                   abandoned>>

\* Mutant: any linked binary counts as a hit.
LookupLink(p) ==
    /\ pc[p] = "lookup"
    /\ Goto(p, IF link # NoLink THEN "relink" ELSE "read")
    /\ UNCHANGED <<env, cache, link, local, abandoned>>

\* if not versioned.is_file()
Lookup(p) ==
    /\ pc[p] = "lookup"
    /\ Goto(p, IF Exists(key[p]) THEN "relink" ELSE "read")
    /\ UNCHANGED <<env, cache, link, local, abandoned>>

-----------------------------------------------------------------------------
(* run_patcher.                                                            *)

\* src.read_bytes, parse, discover, validate and apply: all in memory.
ReadAndPatch(p) ==
    /\ pc[p] = "read"
    /\ LET b == <<Contents(src[p]), loaded[p].engine, loaded[p].registry>>
       IN /\ built' = [built EXCEPT ![p] = b]
          /\ Goto(p, IF outcome[b] = "fatal" THEN "fatal" ELSE "open")
    /\ UNCHANGED <<env, cache, link, loaded, src, key, versioned, fd, todo, runs,
                   alone, abandoned>>

\* dst.write_bytes opens with O_CREAT | O_TRUNC: a new file is not executable,
\* one that has appeared since the lookup is emptied and keeps its mode.
OpenTruncate(p) ==
    /\ pc[p] = "open"
    /\ cache' = [cache EXCEPT ![key[p]] =
                    [data |-> Torn, exec |-> Exists(key[p]) /\ cache[key[p]].exec]]
    /\ fd' = [fd EXCEPT ![p] = "open"]
    /\ Goto(p, "write")
    /\ abandoned' = abandoned \ {key[p]}
    /\ UNCHANGED <<env, link, loaded, src, key, versioned, built, todo, runs, alone>>

\* Part of this launcher's bytes over a whole build another one wrote.
WritePart(p) ==
    /\ pc[p] = "write"
    /\ fd[p] = "open"
    /\ cache[key[p]].data \notin {Torn, built[p]}
    /\ cache' = [cache EXCEPT ![key[p]].data = Torn]
    /\ UNCHANGED <<env, link, pc, local, abandoned>>

FinishWrite(p) ==
    /\ pc[p] = "write"
    /\ cache' = IF fd[p] = "open" THEN [cache EXCEPT ![key[p]].data = built[p]]
                ELSE cache
    /\ fd' = [fd EXCEPT ![p] = "none"]
    /\ Goto(p, "copymode")
    /\ UNCHANGED <<env, link, loaded, src, key, versioned, built, todo, runs, alone,
                   abandoned>>

\* shutil.copymode goes by path, and raises when the path is gone.
CopyMode(p) ==
    /\ pc[p] = "copymode"
    /\ IF Exists(key[p])
       THEN /\ cache' = [cache EXCEPT ![key[p]].exec = TRUE]
            /\ Goto(p, IF outcome[built[p]] = "partial" THEN "missed" ELSE "list")
       ELSE cache' = cache /\ Goto(p, "fatal")
    /\ UNCHANGED <<env, link, local, abandoned>>

\* An OSError in run_patcher: an unreadable source, a full disk, a file that is
\* being executed (ETXTBSY).
IOError(p) ==
    /\ Faults
    /\ pc[p] \in {"read", "open", "write", "copymode"}
    /\ fd' = [fd EXCEPT ![p] = "none"]
    /\ Goto(p, "fatal")
    /\ UNCHANGED <<env, cache, link, loaded, src, key, versioned, built, todo, runs,
                   alone, abandoned>>

-----------------------------------------------------------------------------
(* resolve_patched_binary after run_patcher.                               *)

\* Mutant: the half-written file stays.
FallBackKeepingFile(p) ==
    /\ pc[p] = "fatal"
    /\ versioned' = [versioned EXCEPT ![p] = src[p]]
    /\ Goto(p, "relink")
    /\ UNCHANGED <<env, cache, link, loaded, src, key, built, fd, todo, runs, alone,
                   abandoned>>

\* Mutant: what failed is cleared away and tried once more, without a limit.
FallBackRetrying(p) ==
    /\ pc[p] = "fatal"
    /\ Unlink(key[p])
    /\ fd' = OrphansOf(key[p])
    /\ Goto(p, "read")
    /\ UNCHANGED <<env, link, loaded, src, key, versioned, built, todo, runs, alone>>

\* The except branch: whatever file bears the key is unlinked.
FallBackToSource(p) ==
    /\ pc[p] = "fatal"
    /\ Unlink(key[p])
    /\ fd' = OrphansOf(key[p])
    /\ versioned' = [versioned EXCEPT ![p] = src[p]]
    /\ Goto(p, "relink")
    /\ UNCHANGED <<env, link, loaded, src, key, built, todo, runs, alone>>

\* Mutant: prev is used without a look at what is there.
PrevUnchecked == TRUE

\* summary.missed: prev is what the link leads to, when that is a file.  The
\* code compares resolved paths; here every path is a resolved one.
PrevExists == link \in SourcePaths \/ (link \in Builds /\ Exists(link))

LookForPrevious(p) ==
    /\ pc[p] = "missed"
    /\ IF PrevExists /\ link # versioned[p]
       THEN versioned' = [versioned EXCEPT ![p] = link] /\ Goto(p, "drop")
       ELSE versioned' = versioned /\ Goto(p, "list")
    /\ UNCHANGED <<env, cache, link, loaded, src, key, built, fd, todo, runs, alone,
                   abandoned>>

\* versioned.unlink of the partial build, then versioned = prev; the pruning
\* loop is skipped when that is the source (but not an older version of it).
DropPartial(p) ==
    /\ pc[p] = "drop"
    /\ Unlink(key[p])
    /\ fd' = OrphansOf(key[p])
    /\ Goto(p, IF versioned[p] = src[p] THEN "relink" ELSE "list")
    /\ UNCHANGED <<env, link, loaded, src, key, versioned, built, todo, runs, alone>>

\* Mutant: the file the link leads to is spared.
ListOldButLinked(p) ==
    /\ pc[p] = "list"
    /\ todo' = [todo EXCEPT ![p] = {k \in Builds : Exists(k)} \ {versioned[p], link}]
    /\ Goto(p, "prune")
    /\ UNCHANGED <<env, cache, link, loaded, src, key, versioned, built, fd, runs, alone,
                   abandoned>>

\* cdir.glob("claude-patched-*")
ListOld(p) ==
    /\ pc[p] = "list"
    /\ todo' = [todo EXCEPT ![p] = {k \in Builds : Exists(k)} \ {versioned[p]}]
    /\ Goto(p, "prune")
    /\ UNCHANGED <<env, cache, link, loaded, src, key, versioned, built, fd, runs, alone,
                   abandoned>>

PruneOne(p) ==
    /\ pc[p] = "prune"
    /\ \E k \in todo[p] :
          /\ Unlink(k)
          /\ fd' = OrphansOf(k)
          /\ todo' = [todo EXCEPT ![p] = @ \ {k}]
    /\ UNCHANGED <<env, link, pc, loaded, src, key, versioned, built, runs, alone>>

PruneDone(p) ==
    /\ pc[p] = "prune"
    /\ todo[p] = {}
    /\ Goto(p, "relink")
    /\ UNCHANGED <<env, cache, link, local, abandoned>>

\* Mutant: exists alone, which is false of a dangling link.
CheckLinkExists(p) ==
    /\ pc[p] = "relink"
    /\ Goto(p, IF PrevExists THEN "drop_link" ELSE "make_link")
    /\ UNCHANGED <<env, cache, link, local, abandoned>>

\* is_symlink or exists: true of a dangling link as well.
CheckLink(p) ==
    /\ pc[p] = "relink"
    /\ Goto(p, IF link = NoLink THEN "make_link" ELSE "drop_link")
    /\ UNCHANGED <<env, cache, link, local, abandoned>>

\* link.unlink without missing_ok
DropLink(p) ==
    /\ pc[p] = "drop_link"
    /\ link' = NoLink
    /\ Goto(p, IF link = NoLink THEN "error" ELSE "make_link")
    /\ UNCHANGED <<env, cache, local, abandoned>>

\* link.symlink_to raises FileExistsError on a link made in between.
MakeLink(p) ==
    /\ pc[p] = "make_link"
    /\ IF link = NoLink THEN link' = versioned[p] /\ Goto(p, "return")
       ELSE link' = link /\ Goto(p, "error")
    /\ UNCHANGED <<env, cache, local, abandoned>>

\* The link's path is handed to os.execv, or printed for the caller's exec.
Return(p) ==
    /\ pc[p] = "return"
    /\ Goto(p, "done")
    /\ UNCHANGED <<env, cache, link, local, abandoned>>

-----------------------------------------------------------------------------

Step(p) ==
    \/ HashSource(p) \/ HashEngine(p) \/ Lookup(p)
    \/ ReadAndPatch(p) \/ OpenTruncate(p) \/ FinishWrite(p) \/ CopyMode(p)
    \/ FallBackToSource(p) \/ LookForPrevious(p) \/ DropPartial(p)
    \/ ListOld(p) \/ PruneOne(p) \/ PruneDone(p)
    \/ CheckLink(p) \/ DropLink(p) \/ MakeLink(p) \/ Return(p)

Next ==
    \/ UpgradeSource \/ UpgradeEngine \/ ChangeProviders
    \/ \E p \in Launchers :
          Start(p) \/ Step(p) \/ WritePart(p) \/ IOError(p) \/ Crash(p)

Spec == Init /\ [][Next]_vars

\* A launcher that is not killed keeps running: its program is straight-line
\* code over system calls that return.
FairSpec == Spec /\ \A p \in Launchers : WF_vars(Step(p))
=============================================================================
