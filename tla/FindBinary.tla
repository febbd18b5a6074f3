------------------------------ MODULE FindBinary ------------------------------
(***************************************************************************)
(* find_claude_binary (cc_patcher/launch.py) while Claude Code's own       *)
(* installer works in the same directories, and what a launcher then does  *)
(* to the cache's link.  Nothing is locked: every look at the file system  *)
(* is an action of its own.                                                *)
(*                                                                         *)
(* The installer is an external program.  It keeps each version in a file  *)
(* of its own, which it never changes, and a link to the current one.      *)
(***************************************************************************)
EXTENDS Integers, Sequences, FiniteSets

CONSTANTS
    Versions,       \* versions of Claude Code, numbered by age
    NameRank,       \* the place of a version's file name in name order
    Environment,    \* values CLAUDE_CLI_PATH may have
    SearchPaths,    \* what directories of $PATH hold as "claude", in order
    MaxSearches     \* bound: searches in a behaviour

ASSUME VersionsAssumption == Versions \subseteq Nat \ {0} /\ Versions # {}
ASSUME NameRankAssumption ==
    /\ NameRank \in [Versions -> Nat]
    /\ \A v, w \in Versions : NameRank[v] = NameRank[w] => v = w
ASSUME MaxSearchesAssumption == MaxSearches \in Nat

\* Paths are numbers: a version stands for its own file, the others follow.
None == 0
LinkPath == -1           \* ~/.local/bin/claude
LocalPath == -2          \* ~/.claude/local/claude
ScriptPath == -3         \* the npm wrapper cli.js, somewhere on $PATH
CachePath == -4          \* claude-patched, the link a launcher returns
BuildPath == -5          \* claude-patched-<key>
GonePath == -6           \* a path where there is nothing
Unset == -7

ASSUME PathsAssumption ==
    /\ Environment \subseteq Versions \cup {LocalPath, CachePath, GonePath, Unset}
    /\ SearchPaths \subseteq Seq({LinkPath, ScriptPath})

VARIABLES
    \* the file system
    versions,       \* the versions that are installed
    link,           \* the version LinkPath leads to, or None
    local,          \* what is at LocalPath: "binary", "script" or "nothing"
    search_path,    \* what $PATH offers
    cache,          \* the path the cache's link leads to, or None
    \* the search
    env,            \* CLAUDE_CLI_PATH
    pc,
    candidates,     \* the candidates not yet done with
    resolved,       \* what the candidate at hand was resolved to
    result,
    searches,       \* searches begun so far
    \* history since the search began, used in properties only
    led,            \* versions LinkPath led to
    gap,            \* LinkPath was missing
    removed         \* a version was removed

installed == <<versions, link>>
settings == <<local, search_path, env>>
search == <<pc, candidates, resolved, result, searches>>
history == <<led, gap, removed>>
vars == <<installed, settings, cache, search, history>>

Oldest(S) == CHOOSE v \in S : \A w \in S : v <= w
Newest(S) == CHOOSE v \in S : \A w \in S : w <= v

-----------------------------------------------------------------------------
(* What stat and open make of a path; a link to itself leads nowhere.      *)

Exists(path) ==
    \/ path \in versions
    \/ path = LinkPath /\ link \in versions
    \/ path = LocalPath /\ local # "nothing"
    \/ path \in {ScriptPath, BuildPath}

\* Path.is_file, which follows links.
IsFile(path) == Exists(path) \/ (path = CachePath /\ Exists(cache))

\* _looks_like_native_binary
LooksNative(path) ==
    /\ IsFile(path)
    /\ path # ScriptPath
    /\ path = LocalPath => local = "binary"

\* Path.resolve, which leaves a path that is not there as it is.
Resolve(path) == IF path = LinkPath /\ link # None THEN link ELSE path

-----------------------------------------------------------------------------
(* The installer.                                                          *)

LinkTo(v) ==
    /\ link' = v
    /\ led' = led \cup {v}

AddVersion ==
    /\ \E v \in Versions : /\ \A w \in versions : w < v
                           /\ versions' = versions \cup {v}
    /\ UNCHANGED <<link, settings, cache, search, history>>

\* The link is replaced by renaming a new one over it.
SwitchLink ==
    /\ link # None
    /\ link # Newest(versions)
    /\ LinkTo(Newest(versions))
    /\ UNCHANGED <<versions, settings, cache, search, gap, removed>>

\* The link is unlinked, and made again in a second step.
DropLink ==
    /\ link # None
    /\ link # Newest(versions)
    /\ link' = None
    /\ gap' = TRUE
    /\ UNCHANGED <<versions, settings, cache, search, led, removed>>

RestoreLink ==
    /\ link = None
    /\ LinkTo(Newest(versions))
    /\ UNCHANGED <<versions, settings, cache, search, gap, removed>>

\* Old versions go in the order of their age, never the one linked.
RemoveOldest ==
    LET v == Oldest(versions)
    IN /\ link # None
       /\ v < link
       /\ versions' = versions \ {v}
       /\ removed' = TRUE
       /\ UNCHANGED <<link, settings, cache, search, led, gap>>

Installer == AddVersion \/ SwitchLink \/ DropLink \/ RestoreLink \/ RemoveOldest

-----------------------------------------------------------------------------
(* find_claude_binary                                                      *)

Init ==
    /\ versions = {Oldest(Versions)}
    /\ link = Oldest(Versions)
    /\ local \in {"nothing", "binary", "script"}
    /\ search_path \in SearchPaths
    /\ env \in Environment
    /\ cache = None
    /\ pc = "idle"
    /\ candidates = <<>>
    /\ resolved = None
    /\ result = None
    /\ searches = 0
    /\ led = {}
    /\ gap = FALSE
    /\ removed = FALSE

Begin ==
    /\ pc \in {"idle", "returned", "not_found", "not_native"}
    /\ searches < MaxSearches
    /\ searches' = searches + 1
    /\ pc' = "env"
    /\ candidates' = <<>>
    /\ resolved' = None
    /\ result' = None
    /\ led' = {link} \ {None}
    /\ gap' = (link = None)
    /\ removed' = FALSE
    /\ UNCHANGED <<installed, settings, cache>>

Goto(place) == pc' = place /\ UNCHANGED <<installed, settings, cache, searches, history>>

\* Mutant: the variable is believed without a look.
CheckEnvBelieved ==
    /\ pc = "env"
    /\ IF env # Unset
       THEN result' = env /\ Goto("found")
       ELSE result' = result /\ Goto("list")
    /\ UNCHANGED <<candidates, resolved>>

\* The path is returned as the variable has it, links and all.
CheckEnv ==
    /\ pc = "env"
    /\ IF env # Unset /\ IsFile(env)
       THEN result' = env /\ Goto("found")
       ELSE result' = result /\ Goto("list")
    /\ UNCHANGED <<candidates, resolved>>

\* The installed versions in the order of their names, as sorted() has them.
ByName ==
    {list \in [1..Cardinality(versions) -> versions] :
        \A m, n \in DOMAIN list : m < n => NameRank[list[m]] < NameRank[list[n]]}

\* Mutant: the versions come before the links.
VersionsFirst(list) == list \o <<LinkPath, LocalPath>>

\* Mutant: the installed versions are not looked at.
LinksOnly(list) == <<LinkPath, LocalPath>>

LinksFirst(list) == <<LinkPath, LocalPath>> \o list

\* versions_dir.iterdir(), before any candidate has been looked at.
ListVersions ==
    /\ pc = "list"
    /\ \E list \in ByName : candidates' = LinksFirst(list)
    /\ Goto("exists")
    /\ UNCHANGED <<resolved, result>>

\* Mutant: a candidate that has gone has the versions listed afresh.
CandidateMissingRelisting ==
    /\ pc = "exists"
    /\ candidates # <<>>
    /\ ~Exists(Head(candidates))
    /\ Goto("list")
    /\ UNCHANGED <<candidates, resolved, result>>

CandidateMissing ==
    /\ pc = "exists"
    /\ candidates # <<>>
    /\ ~Exists(Head(candidates))
    /\ candidates' = Tail(candidates)
    /\ Goto("exists")
    /\ UNCHANGED <<resolved, result>>

CandidateExists ==
    /\ pc = "exists"
    /\ candidates # <<>>
    /\ Exists(Head(candidates))
    /\ Goto("resolve")
    /\ UNCHANGED <<candidates, resolved, result>>

\* Mutant: the candidate is taken as it is.
TakenAsIs == Head(candidates)

Target == Resolve(Head(candidates))

ResolveCandidate ==
    /\ pc = "resolve"
    /\ resolved' = Target
    /\ Goto("examine")
    /\ UNCHANGED <<candidates, result>>

ExamineCandidate ==
    /\ pc = "examine"
    /\ IF LooksNative(resolved)
       THEN result' = resolved /\ candidates' = candidates /\ Goto("found")
       ELSE result' = result /\ candidates' = Tail(candidates) /\ Goto("exists")
    /\ UNCHANGED resolved

\* shutil.which: the first directory of $PATH with a file of that name.
Which ==
    /\ pc = "exists"
    /\ candidates = <<>>
    /\ LET hits == {n \in 1..Len(search_path) : Exists(search_path[n])}
       IN IF hits = {} THEN candidates' = candidates /\ Goto("not_found")
          ELSE candidates' = <<search_path[Oldest(hits)]>> /\ Goto("which_exists")
    /\ UNCHANGED <<resolved, result>>

WhichExists ==
    /\ pc = "which_exists"
    /\ IF Exists(Head(candidates)) THEN Goto("which_resolve") ELSE Goto("not_found")
    /\ UNCHANGED <<candidates, resolved, result>>

WhichResolve ==
    /\ pc = "which_resolve"
    /\ resolved' = Target
    /\ Goto("which_file")
    /\ UNCHANGED <<candidates, result>>

WhichFile ==
    /\ pc = "which_file"
    /\ IF IsFile(resolved) THEN Goto("which_examine") ELSE Goto("not_found")
    /\ UNCHANGED <<candidates, resolved, result>>

WhichExamine ==
    /\ pc = "which_examine"
    /\ IF LooksNative(resolved)
       THEN result' = resolved /\ Goto("found")
       ELSE result' = result /\ Goto("not_native")
    /\ UNCHANGED <<candidates, resolved>>

\* The end of resolve_patched_binary: the link leads to a build, or to the
\* source itself after a fatal error.  Which build, and whether it is still
\* there, is LaunchCache's matter.
Relink ==
    /\ pc = "found"
    /\ cache' \in {BuildPath, result}
    /\ pc' = "returned"
    /\ UNCHANGED <<installed, settings, candidates, resolved, result, searches,
                   history>>

Search ==
    \/ CheckEnv \/ ListVersions
    \/ CandidateMissing \/ CandidateExists \/ ResolveCandidate \/ ExamineCandidate
    \/ Which \/ WhichExists \/ WhichResolve \/ WhichFile \/ WhichExamine
    \/ Relink

Next == Begin \/ Search \/ Installer

Spec == Init /\ [][Next]_vars

\* A search is sequential code and goes on.  Nobody has to begin one, and the
\* installer need not do anything.
FairSpec == Spec /\ WF_<<pc, candidates>>(Search)
=============================================================================
