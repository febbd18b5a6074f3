--------------------------- MODULE FindBinaryProofs ---------------------------
(***************************************************************************)
(* For any number of versions, whatever their names, and whatever the      *)
(* installer does meanwhile: what the search for the binary finds.         *)
(*                                                                         *)
(* The argument: the versions that are there always include the newest of  *)
(* all, and the link leads to one of them.  So as long as nothing is       *)
(* removed the last candidate of the list is there when its turn comes,    *)
(* and as long as the link is not taken away the first candidate is; if it *)
(* is gone when it is looked at, it was the oldest, and whatever is left   *)
(* is newer.                                                               *)
(***************************************************************************)
EXTENDS FindProperties, FiniteSetTheorems, SequenceTheorems,
        WellFoundedInduction, TLAPS

LEMMA OldestIs ==
    ASSUME NEW S, S \subseteq Nat, S # {}
    PROVE  Oldest(S) \in S /\ \A w \in S : Oldest(S) <= w
<1> DEFINE less == {p \in Nat \X Nat : p[1] < p[2]}
<1>1. IsWellFoundedOn(less, Nat)
  BY NatLessThanWellFounded DEF OpToRel
<1> HIDE DEF less
<1>2. PICK x \in S : \A y \in S : <<y, x>> \notin less
  BY <1>1, WFMin
<1>3. \A y \in S : x <= y
  <2> SUFFICES ASSUME NEW y \in S, y < x
               PROVE  FALSE
    OBVIOUS
  <2>1. <<y, x>> \in Nat \X Nat
    OBVIOUS
  <2>2. <<y, x>>[1] < <<y, x>>[2]
    OBVIOUS
  <2>3. <<y, x>> \in less
    BY <2>1, <2>2 DEF less
  <2> QED
    BY <1>2, <2>3
<1> QED
  BY <1>3 DEF Oldest

HasNewest(S) == \E m \in S : \A w \in S : w <= m

LEMMA NewestIs ==
    ASSUME NEW S, HasNewest(S)
    PROVE  Newest(S) \in S /\ \A w \in S : w <= Newest(S)
BY DEF HasNewest, Newest

-----------------------------------------------------------------------------
(* The file system.                                                        *)

FileInv ==
    /\ versions \subseteq Versions /\ IsFiniteSet(versions) /\ HasNewest(versions)
    /\ link \in versions \cup {None}
    /\ local \in {"nothing", "binary", "script"}
    /\ search_path \in Seq({LinkPath, ScriptPath})
    /\ env \in Versions \cup {LocalPath, CachePath, GonePath, Unset}

LEMMA FileInit == Init => FileInv
<1> SUFFICES ASSUME Init PROVE FileInv
  OBVIOUS
<1>1. Oldest(Versions) \in Versions
  BY VersionsAssumption, OldestIs
<1>2. Oldest(Versions) \in Nat
  BY <1>1, VersionsAssumption
<1>3. versions = {Oldest(Versions)} /\ link = Oldest(Versions)
  BY DEF Init
<1>4. IsFiniteSet(versions)
  BY <1>3, FS_Singleton
<1>5. HasNewest(versions)
  BY <1>2, <1>3 DEF HasNewest
<1> QED
  BY <1>1, <1>3, <1>4, <1>5, PathsAssumption DEF Init, FileInv

\* The three things the installer does to the set of versions.
LEMMA Added ==
    ASSUME FileInv, NEW v \in Versions, \A w \in versions : w < v
    PROVE  /\ versions \cup {v} \subseteq Versions
           /\ IsFiniteSet(versions \cup {v}) /\ HasNewest(versions \cup {v})
<1>1. v \in Nat /\ \A w \in versions : w \in Nat
  BY VersionsAssumption DEF FileInv
<1>2. HasNewest(versions \cup {v})
  BY <1>1 DEF HasNewest
<1> QED
  BY <1>2, FS_AddElement DEF FileInv

LEMMA Dropped ==
    ASSUME FileInv, NEW v, v < link, link # None
    PROVE  /\ versions \ {v} \subseteq Versions /\ link \in versions \ {v}
           /\ IsFiniteSet(versions \ {v}) /\ HasNewest(versions \ {v})
<1>1. link \in versions /\ link \in Nat
  BY VersionsAssumption DEF FileInv
<1>2. link # v
  BY <1>1
<1>3. HasNewest(versions \ {v})
  <2>1. PICK m \in versions : \A w \in versions : w <= m
    BY DEF FileInv, HasNewest
  <2>2. CASE m # v
    BY <2>1, <2>2 DEF HasNewest
  <2>3. CASE m = v
    <3>1. link <= m /\ m < link /\ m \in Nat
      BY <1>1, <2>1, <2>3, VersionsAssumption DEF FileInv
    <3> QED
      BY <1>1, <3>1
  <2> QED
    BY <2>2, <2>3
<1> QED
  BY <1>1, <1>2, <1>3, FS_RemoveElement DEF FileInv

\* The steps of a search leave the files alone.
LEMMA OthersLeaveFiles ==
    ASSUME Begin \/ Search \/ UNCHANGED vars
    PROVE  UNCHANGED <<versions, link, local, search_path, env>>
BY DEF Begin, Search, CheckEnv, ListVersions, CandidateMissing, CandidateExists,
       ResolveCandidate, ExamineCandidate, Which, WhichExists, WhichResolve,
       WhichFile, WhichExamine, Relink, Goto, installed, settings, vars

LEMMA FileStep == FileInv /\ [Next]_vars => FileInv'
<1> SUFFICES ASSUME FileInv, [Next]_vars PROVE FileInv'
  OBVIOUS
<1> USE DEF settings
<1>N. Newest(versions) \in versions
  BY NewestIs DEF FileInv
<1>1. CASE Begin \/ Search \/ UNCHANGED vars
  BY <1>1, OthersLeaveFiles DEF FileInv
<1>2. CASE AddVersion
  <2>1. PICK v \in Versions : /\ \A w \in versions : w < v
                              /\ versions' = versions \cup {v}
    BY <1>2 DEF AddVersion
  <2>2. UNCHANGED <<link, local, search_path, env>>
    BY <1>2 DEF AddVersion
  <2> QED
    BY <2>1, <2>2, Added DEF FileInv
<1>3. CASE SwitchLink
  BY <1>3, <1>N DEF SwitchLink, LinkTo, FileInv
<1>4. CASE DropLink
  BY <1>4 DEF DropLink, FileInv
<1>5. CASE RestoreLink
  BY <1>5, <1>N DEF RestoreLink, LinkTo, FileInv
<1>6. CASE RemoveOldest
  <2>1. /\ link # None /\ Oldest(versions) < link
        /\ versions' = versions \ {Oldest(versions)}
        /\ UNCHANGED <<link, local, search_path, env>>
    BY <1>6 DEF RemoveOldest
  <2> QED
    BY <2>1, Dropped DEF FileInv
<1> QED
  BY <1>1, <1>2, <1>3, <1>4, <1>5, <1>6 DEF Next, Installer

-----------------------------------------------------------------------------
(* What the link has led to since the search began.                        *)

\* It is older than whatever is there.
Outlived(v) == \A w \in versions : v <= w

LedInv ==
    /\ led \subseteq Versions
    /\ \A v \in led : v \in versions \/ (removed /\ Outlived(v))
    /\ pc # "idle" => IF link = None THEN gap ELSE link \in led

\* Whatever comes is newer still, and what goes leaves newer ones.
LEMMA OutlivedStays ==
    ASSUME FileInv, Next \/ UNCHANGED vars, NEW v \in Nat, Outlived(v)
    PROVE  Outlived(v)'
<1>1. /\ versions \subseteq Nat /\ versions # {}
      /\ \A w \in versions : v <= w
  BY VersionsAssumption DEF FileInv, HasNewest, Outlived
<1>2. CASE AddVersion
  <2>1. PICK x \in Versions : /\ \A w \in versions : w < x
                              /\ versions' = versions \cup {x}
    BY <1>2 DEF AddVersion
  <2>2. PICK y \in versions : v <= y /\ y < x
    BY <1>1, <2>1
  <2>3. v <= x
    BY <1>1, <2>1, <2>2, VersionsAssumption
  <2>4. \A w \in versions' : v <= w
    BY <1>1, <2>1, <2>3
  <2> QED
    BY <2>4 DEF Outlived
<1>3. CASE ~AddVersion
  <2>1. versions' \subseteq versions
    BY <1>3, OthersLeaveFiles
    DEF Next, Installer, SwitchLink, DropLink, RestoreLink, RemoveOldest
  <2>2. \A w \in versions' : v <= w
    BY <1>1, <2>1
  <2> QED
    BY <2>2 DEF Outlived
<1> QED
  BY <1>2, <1>3

LEMMA LedInit == Init => LedInv
BY DEF Init, LedInv

LEMMA LedStep == FileInv /\ LedInv /\ [Next]_vars => LedInv'
<1> SUFFICES ASSUME FileInv, LedInv, [Next]_vars PROVE LedInv'
  OBVIOUS
<1> USE DEF settings, search, history, None
<1>0. /\ versions \subseteq Nat \ {0} /\ versions # {} /\ led \subseteq Nat
      /\ Newest(versions) \in versions
  BY VersionsAssumption, NewestIs DEF FileInv, LedInv, HasNewest
<1>1. CASE Begin
  BY <1>1 DEF Begin, installed, FileInv, LedInv
<1>2. CASE Search
  <2>1. UNCHANGED <<versions, link, led, gap, removed>> /\ pc # "idle"
    BY <1>2 DEF Search, CheckEnv, ListVersions, CandidateMissing, CandidateExists,
       ResolveCandidate, ExamineCandidate, Which, WhichExists, WhichResolve,
       WhichFile, WhichExamine, Relink, Goto, installed
  <2> QED
    BY <2>1 DEF LedInv, Outlived
<1>3. CASE AddVersion
  <2>1. PICK x \in Versions : /\ \A w \in versions : w < x
                              /\ versions' = versions \cup {x}
    BY <1>3 DEF AddVersion
  <2>2. UNCHANGED <<link, pc, led, gap, removed>> /\ x \in Nat
    BY <1>3, <2>1, VersionsAssumption DEF AddVersion
  <2>3. \A v \in led : Outlived(v) => Outlived(v)'
    BY <1>0, <1>3, OutlivedStays DEF Next, Installer
  <2> QED
    BY <2>1, <2>2, <2>3 DEF LedInv
<1>4. CASE SwitchLink \/ RestoreLink
  <2>1. /\ versions' = versions /\ link' = Newest(versions)
        /\ led' = led \cup {Newest(versions)} /\ pc' = pc /\ removed' = removed
    BY <1>4 DEF SwitchLink, RestoreLink, LinkTo
  <2>2. Newest(versions) \in Versions /\ Newest(versions) # None
    BY <1>0 DEF FileInv
  <2> QED
    BY <1>0, <2>1, <2>2 DEF LedInv, Outlived
<1>5. CASE DropLink
  BY <1>5 DEF DropLink, LedInv, Outlived
<1>6. CASE RemoveOldest
  <2>1. /\ versions' = versions \ {Oldest(versions)} /\ removed' = TRUE
        /\ UNCHANGED <<link, pc, led, gap>>
    BY <1>6 DEF RemoveOldest
  <2>2. \A w \in versions : Oldest(versions) <= w
    BY <1>0, OldestIs
  <2>3. \A v \in led : v \in versions' \/ Outlived(v)'
    <3> SUFFICES ASSUME NEW v \in led, v \notin versions'
                 PROVE  \A w \in versions' : v <= w
      BY DEF Outlived
    <3>1. CASE v \in versions
      BY <2>1, <2>2, <3>1
    <3>2. CASE v \notin versions
      BY <2>1, <3>2 DEF LedInv, Outlived
    <3> QED
      BY <3>1, <3>2
  <2> QED
    BY <2>1, <2>3 DEF LedInv
<1>7. CASE UNCHANGED vars
  BY <1>7 DEF vars, installed, LedInv, Outlived
<1> QED
  BY <1>1, <1>2, <1>3, <1>4, <1>5, <1>6, <1>7 DEF Next, Installer
-----------------------------------------------------------------------------
(* The candidates.                                                         *)

Paths == Versions \cup {LinkPath, LocalPath, ScriptPath}

Trying == pc \in {"exists", "resolve", "examine"}
AtPath == pc \in {"which_exists", "which_resolve", "which_file", "which_examine"}
Resolved == pc \in {"examine", "which_file", "which_examine"}

\* What the search has in hand.
HandInv ==
    /\ pc \in {"idle", "env", "list", "exists", "resolve", "examine",
               "which_exists", "which_resolve", "which_file", "which_examine",
               "found", "not_found", "not_native", "returned"}
    /\ candidates \in Seq(Paths)
    /\ pc \in {"resolve", "examine"} \/ AtPath => candidates # <<>>
    /\ AtPath => Head(candidates) \in {LinkPath, ScriptPath}
    /\ Resolved => \/ resolved = Head(candidates)
                   \/ Head(candidates) = LinkPath /\ resolved \in led
    /\ Resolved /\ resolved = LinkPath => gap

\* While nothing is removed, the last candidate is a version that is there.
LastInv ==
    ~removed =>
        /\ Trying => candidates # <<>> /\ candidates[Len(candidates)] \in versions
        /\ ~AtPath /\ ~Raised

\* What the link led to was removed and only newer versions are left.
Replaced == removed /\ \E v \in led : Outlived(v)

CurrentInv ==
    ~gap =>
        /\ Trying => Replaced \/ (candidates # <<>> /\ Head(candidates) = LinkPath)
        /\ AtPath => Replaced
        /\ FoundIsCurrent

\* The path found is there.
ThereInv ==
    /\ pc = "found" /\ result = LinkPath => gap
    /\ ~gap /\ ~removed =>
        /\ pc = "found" => Exists(result) \/ (result = CachePath /\ env = CachePath)
        /\ pc = "returned" => Exists(cache) \/ (cache = CachePath /\ env = CachePath)

SearchInv == HandInv /\ LastInv /\ CurrentInv /\ ThereInv

LEMMA SearchInit == Init => SearchInv
BY DEF Init, SearchInv, HandInv, LastInv, CurrentInv, ThereInv, Trying, AtPath,
       Resolved, Raised, FoundIsCurrent, BySearch

\* Sequences as the loop over the candidates takes them.
LEMMA OneLess ==
    ASSUME NEW S, NEW s \in Seq(S), s # <<>>
    PROVE  /\ Len(s) \in Nat \ {0} /\ Head(s) = s[1] /\ Head(s) \in S
           /\ Tail(s) \in Seq(S) /\ Len(Tail(s)) = Len(s) - 1
           /\ s[Len(s)] \in S
           /\ Tail(s) = <<>> => Head(s) = s[Len(s)]
           /\ Tail(s) # <<>> => Tail(s)[Len(Tail(s))] = s[Len(s)]
<1>1. Len(s) \in Nat \ {0} /\ Head(s) = s[1] /\ Head(s) \in S /\ s[Len(s)] \in S
  OBVIOUS
<1>2. Tail(s) \in Seq(S) /\ Len(Tail(s)) = Len(s) - 1
  OBVIOUS
<1>3. Tail(s) = <<>> => Len(s) = 1
  BY <1>1, <1>2
<1>4. \A n \in 1..Len(s) - 1 : Tail(s)[n] = s[n + 1]
  OBVIOUS
<1>5. Tail(s) # <<>> => Len(s) # 1
  BY <1>1, <1>2
<1> QED
  BY <1>1, <1>2, <1>3, <1>4, <1>5

\* What the installer and time leave of a search.
LEMMA InstallerKeeps ==
    ASSUME FileInv, LedInv, Installer \/ UNCHANGED vars
    PROVE  /\ UNCHANGED <<local, search_path, env, cache>>
           /\ UNCHANGED <<pc, candidates, resolved, result, searches>>
           /\ led \subseteq led' /\ (gap => gap') /\ (removed => removed')
           /\ versions \subseteq versions' \/ removed'
           /\ Replaced => Replaced'
<1>1. /\ UNCHANGED <<local, search_path, env, cache>>
      /\ UNCHANGED <<pc, candidates, resolved, result, searches>>
      /\ led \subseteq led' /\ (gap => gap') /\ (removed => removed')
      /\ versions \subseteq versions' \/ removed'
  BY DEF Installer, AddVersion, SwitchLink, DropLink, RestoreLink, RemoveOldest,
         LinkTo, vars, installed, settings, search, history
<1>2. Replaced => Replaced'
  <2> SUFFICES ASSUME NEW v \in led, removed, Outlived(v)
               PROVE  v \in led' /\ Outlived(v)' /\ removed'
    BY DEF Replaced
  <2>1. v \in Nat
    BY VersionsAssumption DEF LedInv
  <2> QED
    BY <1>1, <2>1, OutlivedStays DEF Next
<1> QED
  BY <1>1, <1>2

LEMMA InstallerStep ==
    ASSUME FileInv, LedInv, SearchInv, Installer \/ UNCHANGED vars
    PROVE  SearchInv'
<1> USE InstallerKeeps DEF SearchInv
<1>1. HandInv'
  BY DEF HandInv, AtPath, Resolved
<1>2. LastInv'
  BY DEF LastInv, Trying, AtPath, Raised
<1>3. CurrentInv'
  BY DEF CurrentInv, Trying, AtPath, FoundIsCurrent, BySearch
<1>4. ThereInv'
  <2>1. FileInv' /\ LedInv'
    BY FileStep, LedStep DEF Next
  <2>3. pc' = "found" /\ result' = LinkPath => gap'
    BY DEF ThereInv
  <2> SUFFICES ASSUME ~gap', ~removed'
               PROVE  /\ pc = "found" => Exists(result)'
                                         \/ (result = CachePath /\ env = CachePath)
                      /\ pc = "returned" => Exists(cache)'
                                            \/ (cache = CachePath /\ env = CachePath)
    BY <2>3 DEF ThereInv
  <2>4. ~gap /\ ~removed /\ versions \subseteq versions' /\ local' = local
    OBVIOUS
  <2>5. pc # "idle" => link' \in versions'
    BY <2>1 DEF FileInv, LedInv
  <2>6. pc = "found" /\ Exists(result) => Exists(result)'
    BY <2>4, <2>5 DEF Exists
  <2>7. pc = "returned" /\ Exists(cache) => Exists(cache)'
    BY <2>4, <2>5 DEF Exists
  <2> QED
    BY <2>4, <2>6, <2>7 DEF ThereInv
<1> QED
  BY <1>1, <1>2, <1>3, <1>4

\* A step of the search changes nothing but the search, and the cache's link.
LEMMA SearchKeeps ==
    ASSUME Search
    PROVE  /\ UNCHANGED <<versions, link, local, search_path, env>>
           /\ UNCHANGED <<led, gap, removed>>
BY DEF Search, CheckEnv, ListVersions, CandidateMissing, CandidateExists,
       ResolveCandidate, ExamineCandidate, Which, WhichExists, WhichResolve,
       WhichFile, WhichExamine, Relink, Goto, installed, settings, history

\* What a candidate is resolved to.
LEMMA TargetIs ==
    ASSUME FileInv, LedInv, pc # "idle", candidates # <<>>
    PROVE  /\ \/ Target = Head(candidates)
              \/ Head(candidates) = LinkPath /\ Target \in led
           /\ Target = LinkPath => gap
<1>1. /\ link \in Versions \cup {None}
      /\ (link = None => gap) /\ (link # None => link \in led)
  BY DEF FileInv, LedInv
<1>2. LinkPath \notin Versions
  BY VersionsAssumption DEF LinkPath
<1> QED
  BY <1>1, <1>2 DEF Target, Resolve

\* What a look at the first bytes says.
LEMMA NativeIs ==
    ASSUME FileInv, LedInv, HandInv, Resolved
    PROVE  /\ LooksNative(resolved) => Exists(resolved) /\ resolved # ScriptPath
           /\ resolved \in versions => LooksNative(resolved) /\ IsFile(resolved)
           /\ resolved \in Versions =>
                (LooksNative(resolved) <=> resolved \in versions)
           /\ resolved \in Paths
<1> USE VersionsAssumption
    DEF LinkPath, LocalPath, ScriptPath, CachePath, BuildPath, Paths
<1>1. resolved \in Paths
  <2>1. candidates # <<>>
    BY DEF HandInv, Resolved, AtPath
  <2>2. Head(candidates) \in Paths
    BY <2>1, OneLess DEF HandInv
  <2>3. led \subseteq Versions
    BY DEF LedInv
  <2> QED
    BY <2>2, <2>3 DEF HandInv
<1>2. resolved # CachePath
  BY <1>1
<1>3. versions \subseteq Versions
  BY DEF FileInv
<1>4. resolved \in Versions =>
        resolved \notin {LinkPath, LocalPath, ScriptPath, BuildPath}
  OBVIOUS
<1> QED
  BY <1>1, <1>2, <1>3, <1>4 DEF LooksNative, IsFile, Exists

LEMMA HandStep ==
    ASSUME FileInv, LedInv, HandInv, Search
    PROVE  HandInv'
<1> USE SearchKeeps DEF Goto, AtPath, Resolved
<1>1. ASSUME candidates # <<>>
      PROVE  Tail(candidates) \in Seq(Paths)
  BY <1>1, OneLess DEF HandInv
<1>2. CASE ListVersions
  <2>1. PICK list \in ByName : candidates' = LinksFirst(list)
    BY <1>2 DEF ListVersions
  <2>2. list \in Seq(Paths)
    <3>1. Cardinality(versions) \in Nat
      BY FS_CardinalityType DEF FileInv
    <3>2. list \in [1..Cardinality(versions) -> versions]
      BY <2>1 DEF ByName
    <3>3. list \in [1..Cardinality(versions) -> Paths]
      BY <3>2 DEF FileInv, Paths
    <3> QED
      BY <3>1, <3>3
  <2>3. LinksFirst(list) \in Seq(Paths)
    BY <2>2 DEF LinksFirst, Paths
  <2> QED
    BY <1>2, <2>1, <2>3 DEF ListVersions, HandInv
<1>3. CASE CheckEnv \/ CandidateMissing \/ CandidateExists
  BY <1>1, <1>3 DEF CheckEnv, CandidateMissing, CandidateExists, HandInv
<1>4. CASE ResolveCandidate \/ WhichResolve
  <2>1. pc # "idle" /\ candidates # <<>>
    BY <1>4 DEF ResolveCandidate, WhichResolve, HandInv
  <2> QED
    BY <1>4, <2>1, TargetIs DEF ResolveCandidate, WhichResolve, HandInv
<1>5. CASE ExamineCandidate
  BY <1>1, <1>5 DEF ExamineCandidate, HandInv
<1>6. CASE Which
  <2>1. CASE pc' = "not_found"
    BY <1>6, <2>1 DEF Which, HandInv
  <2>2. CASE pc' = "which_exists"
    <3> DEFINE hits == {n \in 1..Len(search_path) : Exists(search_path[n])}
    <3>1. hits # {} /\ candidates' = <<search_path[Oldest(hits)]>>
      BY <1>6, <2>2 DEF Which
    <3>2. Oldest(hits) \in hits
      BY <3>1, OldestIs
    <3>3. search_path[Oldest(hits)] \in {LinkPath, ScriptPath}
      BY <3>2 DEF FileInv
    <3> HIDE DEF hits
    <3>4. PICK path : path = search_path[Oldest(hits)]
      OBVIOUS
    <3>5. candidates' = <<path>> /\ path \in {LinkPath, ScriptPath}
      BY <3>1, <3>3, <3>4
    <3>6. candidates' \in Seq(Paths) /\ Head(candidates') \in {LinkPath, ScriptPath}
      BY <3>5 DEF Paths
    <3> QED
      BY <2>2, <3>5, <3>6 DEF HandInv
  <2> QED
    BY <1>6, <2>1, <2>2 DEF Which
<1>7. CASE WhichExists \/ WhichFile \/ WhichExamine \/ Relink
  BY <1>7 DEF WhichExists, WhichFile, WhichExamine, Relink, HandInv
<1> QED
  BY <1>2, <1>3, <1>4, <1>5, <1>6, <1>7 DEF Search

LEMMA LastStep ==
    ASSUME FileInv, LedInv, HandInv, LastInv, Search
    PROVE  LastInv'
<1> SUFFICES ASSUME ~removed
             PROVE  /\ Trying' => /\ candidates' # <<>>
                                  /\ candidates'[Len(candidates')] \in versions'
                    /\ ~AtPath' /\ ~Raised'
  BY SearchKeeps DEF LastInv
<1>0. versions' = versions
  BY SearchKeeps
<1> USE DEF Goto, Trying, AtPath, Raised, LastInv
<1>1. CASE ListVersions
  <2>1. PICK list \in ByName : candidates' = LinksFirst(list)
    BY <1>1 DEF ListVersions
  <2> DEFINE n == Cardinality(versions)
  <2>2. n \in Nat \ {0}
    BY FS_CardinalityType, FS_EmptySet DEF FileInv, HasNewest
  <2> HIDE DEF n
  <2>3. list \in [1..n -> versions]
    BY <2>1 DEF ByName, n
  <2>4. /\ list \in Seq(versions) /\ Len(list) = n /\ list[n] \in versions
    BY <2>2, <2>3
  <2>5. /\ Len(LinksFirst(list)) = n + 2
        /\ LinksFirst(list)[n + 2] = list[n]
    BY <2>2, <2>4 DEF LinksFirst
  <2>6. LinksFirst(list) # <<>>
    BY <2>2, <2>5
  <2> QED
    BY <1>0, <1>1, <2>1, <2>4, <2>5, <2>6 DEF ListVersions
<1>2. CASE CandidateMissing
  <2>1. /\ candidates # <<>> /\ candidates' = Tail(candidates)
        /\ pc = "exists" /\ pc' = "exists" /\ ~Exists(Head(candidates))
        /\ candidates[Len(candidates)] \in versions
    BY <1>2 DEF CandidateMissing
  <2>2. Tail(candidates) # <<>>
    BY <2>1, OneLess DEF HandInv, Exists
  <2>3. Tail(candidates)[Len(Tail(candidates))] \in versions
    BY <2>1, <2>2, OneLess DEF HandInv
  <2> QED
    BY <1>0, <2>1, <2>2, <2>3
<1>3. CASE ExamineCandidate /\ LooksNative(resolved)
  BY <1>3 DEF ExamineCandidate
<1>4. CASE ExamineCandidate /\ ~LooksNative(resolved)
  <2>1. /\ candidates # <<>> /\ candidates' = Tail(candidates)
        /\ pc = "examine" /\ pc' = "exists"
        /\ candidates[Len(candidates)] \in versions
    BY <1>4 DEF ExamineCandidate
  <2>2. resolved \notin versions
    BY <1>4, <2>1, NativeIs DEF Resolved
  <2>3. Head(candidates) \notin versions
    BY <2>1, <2>2, VersionsAssumption DEF HandInv, Resolved, FileInv, LinkPath
  <2>4. Tail(candidates) # <<>>
    BY <2>1, <2>3, OneLess DEF HandInv
  <2>5. Tail(candidates)[Len(Tail(candidates))] \in versions
    BY <2>1, <2>4, OneLess DEF HandInv
  <2> QED
    BY <1>0, <2>1, <2>4, <2>5
<1>5. CASE CheckEnv \/ CandidateExists \/ ResolveCandidate \/ Which \/ Relink
  BY <1>0, <1>5 DEF CheckEnv, CandidateExists, ResolveCandidate, Which, Relink
<1>6. CASE WhichExists \/ WhichResolve \/ WhichFile \/ WhichExamine
  BY <1>6 DEF WhichExists, WhichResolve, WhichFile, WhichExamine
<1> QED
  BY <1>1, <1>2, <1>3, <1>4, <1>5, <1>6 DEF Search

\* What is resolved is what the link led to, or stands behind what it led to.
LEMMA FoundOne ==
    ASSUME FileInv, LedInv, HandInv, Resolved, ~gap, LooksNative(resolved),
           Replaced \/ Head(candidates) = LinkPath
    PROVE  \/ \E v \in led : v <= resolved
           \/ removed /\ resolved = LocalPath
<1>1. resolved \in Versions => resolved \in versions /\ resolved \in Nat
  BY NativeIs, VersionsAssumption
<1>2. resolved \in Versions \cup {LocalPath} /\ resolved # LinkPath
  BY NativeIs DEF Paths, HandInv
<1>3. CASE resolved \in led
  BY <1>1, <1>3 DEF LedInv
<1>4. CASE Replaced
  <2>1. PICK v \in led : Outlived(v) /\ removed
    BY <1>4 DEF Replaced
  <2> QED
    BY <1>1, <1>2, <2>1 DEF Outlived
<1> QED
  BY <1>2, <1>3, <1>4 DEF HandInv

LEMMA CurrentStep ==
    ASSUME FileInv, LedInv, HandInv, CurrentInv, Search
    PROVE  CurrentInv'
<1>0. UNCHANGED <<versions, link, env, led, gap, removed>>
  BY SearchKeeps
<1>R. Replaced' <=> Replaced
  BY <1>0 DEF Replaced, Outlived
<1> SUFFICES ASSUME ~gap
             PROVE  /\ Trying' => \/ Replaced
                                  \/ /\ candidates' # <<>>
                                     /\ Head(candidates') = LinkPath
                    /\ AtPath' => Replaced
                    /\ FoundIsCurrent'
  BY <1>0, <1>R DEF CurrentInv
<1>L. (link \in versions /\ link \in led) \/ pc = "idle"
  BY DEF FileInv, LedInv
<1> USE DEF Goto, Trying, AtPath, FoundIsCurrent, BySearch, CurrentInv
<1>1. CASE CheckEnv
  BY <1>0, <1>1 DEF CheckEnv
<1>2. CASE ListVersions
  <2>1. PICK list \in ByName : candidates' = LinksFirst(list)
    BY <1>2 DEF ListVersions
  <2>2. list \in Seq(versions)
    BY <2>1, FS_CardinalityType DEF ByName, FileInv
  <2>3. LinksFirst(list) # <<>> /\ Head(LinksFirst(list)) = LinkPath
    BY <2>2 DEF LinksFirst
  <2> QED
    BY <1>2, <2>1, <2>3 DEF ListVersions
<1>3. CASE CandidateMissing
  <2>1. pc = "exists" /\ pc' = "exists" /\ ~Exists(Head(candidates))
    BY <1>3 DEF CandidateMissing
  <2>2. Head(candidates) # LinkPath
    BY <1>L, <2>1 DEF Exists
  <2> QED
    BY <2>1, <2>2
<1>4. CASE ExamineCandidate /\ LooksNative(resolved)
  <2>1. pc = "examine" /\ pc' = "found" /\ result' = resolved
    BY <1>4 DEF ExamineCandidate
  <2>2. \/ \E v \in led : v <= resolved
        \/ removed /\ resolved = LocalPath
    BY <1>4, <2>1, FoundOne DEF Resolved
  <2> QED
    BY <1>0, <2>1, <2>2
<1>5. CASE ExamineCandidate /\ ~LooksNative(resolved)
  <2>1. pc = "examine" /\ pc' = "exists"
    BY <1>5 DEF ExamineCandidate
  <2>2. resolved \in led => Replaced
    BY <1>5, <2>1, NativeIs DEF Resolved, LedInv, Replaced
  <2>3. resolved # LinkPath
    BY <2>1 DEF HandInv, Resolved
  <2>4. Head(candidates) = LinkPath => resolved \in led
    BY <2>1, <2>3 DEF HandInv, Resolved
  <2> QED
    BY <2>1, <2>2, <2>4
<1>6. CASE CandidateExists \/ ResolveCandidate
  BY <1>6 DEF CandidateExists, ResolveCandidate
<1>7. CASE Which
  BY <1>7 DEF Which
<1>8. CASE WhichExists \/ WhichResolve \/ WhichFile
  BY <1>8 DEF WhichExists, WhichResolve, WhichFile
<1>9. CASE WhichExamine
  <2>1. pc = "which_examine" /\ pc' \in {"found", "not_native"}
    BY <1>9 DEF WhichExamine
  <2>2. ASSUME pc' = "found"
        PROVE  \/ \E v \in led : v <= resolved
               \/ removed /\ resolved = LocalPath
    <3>1. LooksNative(resolved)
      BY <1>9, <2>1, <2>2 DEF WhichExamine
    <3> QED
      BY <2>1, <3>1, FoundOne DEF Resolved
  <2>3. pc' = "found" => result' = resolved
    BY <1>9 DEF WhichExamine
  <2> QED
    BY <1>0, <2>1, <2>2, <2>3
<1>10. CASE Relink
  BY <1>10 DEF Relink
<1> QED
  BY <1>1, <1>2, <1>3, <1>4, <1>5, <1>6, <1>7, <1>8, <1>9, <1>10 DEF Search

LEMMA ThereStep ==
    ASSUME FileInv, LedInv, HandInv, ThereInv, Search
    PROVE  ThereInv'
<1>0. UNCHANGED <<versions, link, local, env, led, gap, removed>>
  BY SearchKeeps
<1> USE DEF Goto, ThereInv
<1>1. CASE CheckEnv
  <2>1. env # LinkPath
    BY VersionsAssumption
    DEF FileInv, LinkPath, LocalPath, CachePath, GonePath, Unset
  <2> QED
    BY <1>0, <1>1, <2>1 DEF CheckEnv, IsFile, Exists
<1>2. CASE ExamineCandidate \/ WhichExamine
  <2>1. Resolved /\ pc' # "returned"
    BY <1>2 DEF ExamineCandidate, WhichExamine, Resolved
  <2>2. pc' = "found" => result' = resolved /\ Exists(resolved)
    BY <1>2, <2>1, NativeIs DEF ExamineCandidate, WhichExamine
  <2>3. pc' = "found" => Exists(result)'
    BY <1>0, <2>2 DEF Exists
  <2> QED
    BY <1>0, <2>1, <2>2, <2>3 DEF HandInv
<1>3. CASE Relink
  BY <1>0, <1>3 DEF Relink, Exists
<1>4. CASE ListVersions \/ CandidateMissing \/ CandidateExists \/ ResolveCandidate
  BY <1>4 DEF ListVersions, CandidateMissing, CandidateExists, ResolveCandidate
<1>5. CASE Which \/ WhichExists \/ WhichResolve \/ WhichFile
  BY <1>5 DEF Which, WhichExists, WhichResolve, WhichFile
<1> QED
  BY <1>1, <1>2, <1>3, <1>4, <1>5 DEF Search

Inv == FileInv /\ LedInv /\ SearchInv

LEMMA Invariance == Spec => []Inv
<1>1. Init => Inv
  BY FileInit, LedInit, SearchInit DEF Inv
<1>2. Inv /\ [Next]_vars => Inv'
  <2> SUFFICES ASSUME Inv, [Next]_vars
               PROVE  SearchInv'
    BY FileStep, LedStep DEF Inv
  <2>1. CASE Begin
    <3>1. pc' = "env" /\ candidates' = <<>>
      BY <2>1 DEF Begin
    <3> QED
      BY <3>1 DEF SearchInv, HandInv, LastInv, CurrentInv, ThereInv, Trying,
                  AtPath, Resolved, Raised, FoundIsCurrent, BySearch
  <2>2. CASE Search
    BY <2>2, HandStep, LastStep, CurrentStep, ThereStep DEF Inv, SearchInv
  <2>3. CASE Installer \/ UNCHANGED vars
    BY <2>3, InstallerStep DEF Inv
  <2> QED
    BY <2>1, <2>2, <2>3 DEF Next
<1> QED
  BY <1>1, <1>2, PTL DEF Spec

-----------------------------------------------------------------------------
\* However often the installer switches the link or takes it away, the search
\* does not fail unless a version is removed meanwhile (launch.py:77-104).
THEOREM SearchFails == Spec => []FailsOnlyIfRemoved
<1>1. Inv => FailsOnlyIfRemoved
  BY DEF Inv, SearchInv, LastInv, FailsOnlyIfRemoved
<1> QED
  BY <1>1, Invariance, PTL

\* If the link was there all the time, what is found is no older than what the
\* link led to when the search began, however file names are ordered
\* (launch.py:77-88).
THEOREM FindsCurrent == Spec => []FoundIsCurrent
<1>1. Inv => FoundIsCurrent
  BY DEF Inv, SearchInv, CurrentInv, FoundIsCurrent
<1> QED
  BY <1>1, Invariance, PTL

\* If the link was there all the time, what is found is not the link
\* (launch.py:39-46, 85-88).
THEOREM FindsNoLink == Spec => []FoundIsNoLink
<1>1. Inv => FoundIsNoLink
  BY DEF Inv, SearchInv, ThereInv, FoundIsNoLink, BySearch
<1> QED
  BY <1>1, Invariance, PTL

\* The cache's link leads to a file as long as nothing is taken away, unless
\* the variable names the link itself (launch.py:73-74, 185, 212).
THEOREM LinkLeads == Spec => []ReturnedLinkLeads
<1>1. Inv => ReturnedLinkLeads
  BY DEF Inv, SearchInv, ThereInv, ReturnedLinkLeads, IsFile
<1> QED
  BY <1>1, Invariance, PTL
=============================================================================
