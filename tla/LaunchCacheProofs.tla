-------------------------- MODULE LaunchCacheProofs --------------------------
(***************************************************************************)
(* For any number of launchers, contents and installations: the cache is   *)
(* well typed, every unfinished file in it has an owner, and without kills *)
(* one build is left at most.  However launchers overlap, fail and are     *)
(* killed, a cached file is the build its name stands for, if what a       *)
(* launcher hashes is what it reads and runs.  A launcher that meets no    *)
(* other does not raise from the relinking, and hands out the right        *)
(* binary.                                                                 *)
(***************************************************************************)
EXTENDS LaunchProperties, TLAPS

\* A launcher has a file open only while it writes to it, and the name it
\* opened still leads to that file: unlinking the name turns fd to "orphan".
OpenInv == \A p \in Launchers : fd[p] = "open" => pc[p] = "write" /\ Exists(key[p])

\* Launchers that will complete the text, or the mode, of the file of key k,
\* or will unlink it.
CompletesData(p, k) ==
    key[p] = k /\ (pc[p] = "fatal" \/ (pc[p] = "write" /\ fd[p] = "open"))
CompletesMode(p, k) ==
    key[p] = k /\ (pc[p] \in {"fatal", "copymode"} \/ (pc[p] = "write" /\ fd[p] = "open"))

\* Text and mode are completed by different steps, perhaps of different
\* launchers, and a launcher that lost its file to an unlink completes
\* neither: UnfinishedHasWriter alone is not inductive.
OwnerInv ==
    \A k \in Builds : Exists(k) =>
        /\ cache[k].data = Torn =>
              k \in abandoned \/ \E p \in Launchers : CompletesData(p, k)
        /\ ~cache[k].exec =>
              k \in abandoned \/ \E p \in Launchers : CompletesMode(p, k)

-----------------------------------------------------------------------------
(* Types.                                                                  *)

LEMMA TypeInit == Init => TypeOK
<1> SUFFICES ASSUME Init PROVE TypeOK
  OBVIOUS
<1>1. <<source, engine, registry>> \in Builds
  BY DEF Init, Builds
<1>2. outcome \in [Builds -> Results]
  BY ConstantsAssumption DEF Init
<1>3. SourcePath(source) \in SourcePaths
  BY DEF Init, SourcePaths
<1> QED
  BY <1>1, <1>2, <1>3 DEF Init, TypeOK, Labels, Stopped

LEMMA BuildTypes ==
    /\ \A k \in Builds : k[1] \in Sources /\ k[2] \in Engines /\ k[3] \in Registries
    /\ \A s \in Sources, e \in Engines, r \in Registries : <<s, e, r>> \in Builds
BY DEF Builds

\* Whatever path a launcher has found, it reads a version of the binary there.
LEMMA ContentsType ==
    ASSUME TypeOK, NEW p \in Launchers
    PROVE  Contents(src[p]) \in Sources
<1>1. PICK s \in Sources : src[p] = SourcePath(s)
  BY DEF TypeOK, SourcePaths
<1>2. CASE Versioned
  BY <1>1, <1>2 DEF Contents, SourcePath
<1>3. CASE ~Versioned
  BY <1>3 DEF TypeOK, Contents
<1> QED
  BY <1>2, <1>3, ConstantsAssumption

\* The label a launcher goes to keeps pc well typed.
LEMMA GotoType ==
    ASSUME TypeOK, NEW p \in Launchers, NEW l \in Labels, Goto(p, l)
    PROVE  pc' \in [Launchers -> Labels]
BY DEF TypeOK, Goto

LEMMA UnlinkType ==
    ASSUME TypeOK, NEW k \in Builds, Unlink(k)
    PROVE  cache' \in [Builds -> Files \cup {NoFile}] /\ abandoned' \in SUBSET Builds
BY DEF TypeOK, Unlink

LEMMA OrphansType ==
    ASSUME TypeOK, NEW k \in Builds
    PROVE  OrphansOf(k) \in [Launchers -> {"none", "open", "orphan"}]
BY DEF TypeOK, OrphansOf

\* Writing to a file that is open rewrites its text and keeps its mode.
LEMMA DataType ==
    ASSUME TypeOK, OpenInv, NEW p \in Launchers, fd[p] = "open",
           NEW d \in Builds \cup {Torn}
    PROVE  [cache EXCEPT ![key[p]].data = d] \in [Builds -> Files \cup {NoFile}]
<1>1. key[p] \in Builds /\ cache[key[p]] \in Files
  BY DEF TypeOK, OpenInv, Exists
<1>2. [cache[key[p]] EXCEPT !.data = d] \in Files
  BY <1>1 DEF Files
<1> QED
  BY <1>1, <1>2 DEF TypeOK

LEMMA TypeStep == TypeOK /\ OpenInv /\ [Next]_vars => TypeOK'
<1> SUFFICES ASSUME TypeOK, OpenInv, [Next]_vars PROVE TypeOK'
  OBVIOUS
<1>1. CASE UpgradeSource \/ UpgradeEngine \/ ChangeProviders
  <2>1. /\ source' \in Sources /\ engine' \in Engines /\ registry' \in Registries
        /\ MayChange
    BY <1>1 DEF TypeOK, UpgradeSource, UpgradeEngine, ChangeProviders
  <2>2. changes' \in Nat
    BY <2>1 DEF TypeOK, MayChange
  <2>3. UNCHANGED <<outcome, cache, link, pc, abandoned>>
        /\ UNCHANGED <<loaded, src, key, versioned, built, fd, todo, runs, alone>>
    BY <2>1 DEF MayChange, local
  <2> QED
    BY <2>1, <2>2, <2>3 DEF TypeOK
<1>2. ASSUME NEW p \in Launchers, Start(p) PROVE TypeOK'
  <2>1. runs' \in [Launchers -> Nat]
    BY <1>2 DEF TypeOK, Start
  <2>2. loaded' \in [Launchers -> [engine : Engines, registry : Registries]]
    BY <1>2 DEF TypeOK, Start
  <2>3. pc' \in [Launchers -> Labels]
    BY <1>2, GotoType DEF Start, Labels, Stopped
  <2>4. alone' \in [Launchers -> BOOLEAN]
    BY <1>2 DEF TypeOK, Start
  <2>5. UNCHANGED <<source, engine, registry, outcome, changes>>
        /\ UNCHANGED <<cache, link, src, key, versioned, built, fd, todo, abandoned>>
    BY <1>2 DEF Start, env
  <2> QED
    BY <2>1, <2>2, <2>3, <2>4, <2>5 DEF TypeOK
<1>3. ASSUME NEW p \in Launchers, Crash(p) PROVE TypeOK'
  <2>1. pc' \in [Launchers -> Labels]
    BY <1>3, GotoType DEF Crash, Labels, Stopped
  <2>2. fd' \in [Launchers -> {"none", "open", "orphan"}]
    BY <1>3 DEF TypeOK, Crash
  <2>3. abandoned' \in SUBSET Builds
    BY <1>3 DEF TypeOK, Crash
  <2>4. UNCHANGED <<source, engine, registry, outcome, changes>>
        /\ UNCHANGED <<cache, link, loaded, src, key, versioned, built, todo,
                       runs, alone>>
    BY <1>3 DEF Crash, env
  <2> QED
    BY <2>1, <2>2, <2>3, <2>4 DEF TypeOK
<1>4. ASSUME NEW p \in Launchers, HashSource(p) PROVE TypeOK'
  <2>1. key' \in [Launchers -> Builds]
    BY <1>4, BuildTypes DEF TypeOK, HashSource
  <2>4. src' \in [Launchers -> SourcePaths]
    BY <1>4 DEF TypeOK, HashSource, SourcePaths
  <2>2. pc' \in [Launchers -> Labels]
    BY <1>4, GotoType DEF HashSource, Labels
  <2>3. UNCHANGED <<source, engine, registry, outcome, changes>>
        /\ UNCHANGED <<cache, link, loaded, versioned, built, fd, todo, runs,
                       alone, abandoned>>
    BY <1>4 DEF HashSource, env
  <2> QED
    BY <2>1, <2>2, <2>3, <2>4 DEF TypeOK
<1>5. ASSUME NEW p \in Launchers, HashEngine(p) PROVE TypeOK'
  <2>1. key' \in [Launchers -> Builds]
    BY <1>5, BuildTypes DEF TypeOK, HashEngine
  <2>2. versioned' \in [Launchers -> Builds \cup SourcePaths]
    BY <1>5, BuildTypes DEF TypeOK, HashEngine
  <2>3. pc' \in [Launchers -> Labels]
    BY <1>5, GotoType DEF HashEngine, Labels
  <2>4. UNCHANGED <<source, engine, registry, outcome, changes>>
        /\ UNCHANGED <<cache, link, loaded, src, built, fd, todo, runs, alone,
                       abandoned>>
    BY <1>5 DEF HashEngine, env
  <2> QED
    BY <2>1, <2>2, <2>3, <2>4 DEF TypeOK
<1>6. ASSUME NEW p \in Launchers, Lookup(p) PROVE TypeOK'
  <2>1. pc' \in [Launchers -> Labels]
    BY <1>6, GotoType DEF Lookup, Labels
  <2>2. UNCHANGED <<source, engine, registry, outcome, changes>>
        /\ UNCHANGED <<cache, link, loaded, src, key, versioned, built, fd, todo,
                       runs, alone, abandoned>>
    BY <1>6 DEF Lookup, env, local
  <2> QED
    BY <2>1, <2>2 DEF TypeOK
<1>7. ASSUME NEW p \in Launchers, ReadAndPatch(p) PROVE TypeOK'
  <2>1. built' \in [Launchers -> Builds]
    BY <1>7, BuildTypes, ContentsType DEF TypeOK, ReadAndPatch
  <2>2. pc' \in [Launchers -> Labels]
    BY <1>7, GotoType DEF ReadAndPatch, Labels
  <2>3. UNCHANGED <<source, engine, registry, outcome, changes>>
        /\ UNCHANGED <<cache, link, loaded, src, key, versioned, fd, todo, runs,
                       alone, abandoned>>
    BY <1>7 DEF ReadAndPatch, env
  <2> QED
    BY <2>1, <2>2, <2>3 DEF TypeOK
<1>8. ASSUME NEW p \in Launchers, OpenTruncate(p) PROVE TypeOK'
  <2>1. cache' \in [Builds -> Files \cup {NoFile}]
    <3>1. cache' = [cache EXCEPT ![key[p]] =
                      [data |-> Torn, exec |-> Exists(key[p]) /\ cache[key[p]].exec]]
      BY <1>8 DEF OpenTruncate
    <3>2. Exists(key[p]) => cache[key[p]] \in Files
      BY DEF TypeOK, Exists
    <3>3. (Exists(key[p]) /\ cache[key[p]].exec) \in BOOLEAN
      BY <3>2 DEF Files, Exists
    <3> QED
      BY <3>1, <3>3 DEF TypeOK, Files
  <2>2. fd' \in [Launchers -> {"none", "open", "orphan"}]
    BY <1>8 DEF TypeOK, OpenTruncate
  <2>3. pc' \in [Launchers -> Labels]
    BY <1>8, GotoType DEF OpenTruncate, Labels
  <2>4. abandoned' \in SUBSET Builds
    BY <1>8 DEF TypeOK, OpenTruncate
  <2>5. UNCHANGED <<source, engine, registry, outcome, changes>>
        /\ UNCHANGED <<link, loaded, src, key, versioned, built, todo, runs, alone>>
    BY <1>8 DEF OpenTruncate, env
  <2> QED
    BY <2>1, <2>2, <2>3, <2>4, <2>5 DEF TypeOK
<1>9. ASSUME NEW p \in Launchers, WritePart(p) PROVE TypeOK'
  <2>1. cache' \in [Builds -> Files \cup {NoFile}]
    <3>1. cache' = [cache EXCEPT ![key[p]].data = Torn] /\ fd[p] = "open"
      BY <1>9 DEF WritePart
    <3> QED
      BY <3>1, DataType
  <2>2. UNCHANGED <<source, engine, registry, outcome, changes>>
        /\ UNCHANGED <<link, pc, loaded, src, key, versioned, built, fd, todo,
                       runs, alone, abandoned>>
    BY <1>9 DEF WritePart, env, local
  <2> QED
    BY <2>1, <2>2 DEF TypeOK
<1>10. ASSUME NEW p \in Launchers, FinishWrite(p) PROVE TypeOK'
  <2>1. cache' \in [Builds -> Files \cup {NoFile}]
    <3>1. CASE fd[p] = "open"
      <4>1. cache' = [cache EXCEPT ![key[p]].data = built[p]] /\ built[p] \in Builds
        BY <1>10, <3>1 DEF FinishWrite, TypeOK
      <4> QED
        BY <3>1, <4>1, DataType
    <3>2. CASE fd[p] # "open"
      BY <1>10, <3>2 DEF FinishWrite, TypeOK
    <3> QED
      BY <3>1, <3>2
  <2>2. fd' \in [Launchers -> {"none", "open", "orphan"}]
    BY <1>10 DEF TypeOK, FinishWrite
  <2>3. pc' \in [Launchers -> Labels]
    BY <1>10, GotoType DEF FinishWrite, Labels
  <2>4. UNCHANGED <<source, engine, registry, outcome, changes>>
        /\ UNCHANGED <<link, loaded, src, key, versioned, built, todo, runs,
                       alone, abandoned>>
    BY <1>10 DEF FinishWrite, env
  <2> QED
    BY <2>1, <2>2, <2>3, <2>4 DEF TypeOK
<1>11. ASSUME NEW p \in Launchers, CopyMode(p) PROVE TypeOK'
  <2>1. cache' \in [Builds -> Files \cup {NoFile}]
    <3>1. CASE Exists(key[p])
      <4>1. cache' = [cache EXCEPT ![key[p]].exec = TRUE] /\ cache[key[p]] \in Files
        BY <1>11, <3>1 DEF CopyMode, TypeOK, Exists
      <4>2. [cache[key[p]] EXCEPT !.exec = TRUE] \in Files
        BY <4>1 DEF Files
      <4> QED
        BY <4>1, <4>2 DEF TypeOK
    <3>2. CASE ~Exists(key[p])
      BY <1>11, <3>2 DEF CopyMode, TypeOK
    <3> QED
      BY <3>1, <3>2
  <2>2. pc' \in [Launchers -> Labels]
    BY <1>11, GotoType DEF CopyMode, Labels
  <2>3. UNCHANGED <<source, engine, registry, outcome, changes>>
        /\ UNCHANGED <<link, loaded, src, key, versioned, built, fd, todo, runs,
                       alone, abandoned>>
    BY <1>11 DEF CopyMode, env, local
  <2> QED
    BY <2>1, <2>2, <2>3 DEF TypeOK
<1>12. ASSUME NEW p \in Launchers, IOError(p) PROVE TypeOK'
  <2>1. fd' \in [Launchers -> {"none", "open", "orphan"}]
    BY <1>12 DEF TypeOK, IOError
  <2>2. pc' \in [Launchers -> Labels]
    BY <1>12, GotoType DEF IOError, Labels
  <2>3. UNCHANGED <<source, engine, registry, outcome, changes>>
        /\ UNCHANGED <<cache, link, loaded, src, key, versioned, built, todo,
                       runs, alone, abandoned>>
    BY <1>12 DEF IOError, env
  <2> QED
    BY <2>1, <2>2, <2>3 DEF TypeOK
<1>13. ASSUME NEW p \in Launchers, FallBackToSource(p) PROVE TypeOK'
  <2>1. key[p] \in Builds /\ Unlink(key[p]) /\ fd' = OrphansOf(key[p])
    BY <1>13 DEF FallBackToSource, TypeOK
  <2>2. cache' \in [Builds -> Files \cup {NoFile}] /\ abandoned' \in SUBSET Builds
    BY <2>1, UnlinkType
  <2>3. fd' \in [Launchers -> {"none", "open", "orphan"}]
    BY <2>1, OrphansType
  <2>4. versioned' \in [Launchers -> Builds \cup SourcePaths]
    BY <1>13 DEF TypeOK, FallBackToSource
  <2>5. pc' \in [Launchers -> Labels]
    BY <1>13, GotoType DEF FallBackToSource, Labels
  <2>6. UNCHANGED <<source, engine, registry, outcome, changes>>
        /\ UNCHANGED <<link, loaded, src, key, built, todo, runs, alone>>
    BY <1>13 DEF FallBackToSource, env
  <2> QED
    BY <2>2, <2>3, <2>4, <2>5, <2>6 DEF TypeOK
<1>14. ASSUME NEW p \in Launchers, LookForPrevious(p) PROVE TypeOK'
  <2>1. versioned' \in [Launchers -> Builds \cup SourcePaths]
    BY <1>14 DEF TypeOK, LookForPrevious, PrevExists
  <2>2. pc' \in [Launchers -> Labels]
    BY <1>14, GotoType DEF LookForPrevious, Labels
  <2>3. UNCHANGED <<source, engine, registry, outcome, changes>>
        /\ UNCHANGED <<cache, link, loaded, src, key, built, fd, todo, runs,
                       alone, abandoned>>
    BY <1>14 DEF LookForPrevious, env
  <2> QED
    BY <2>1, <2>2, <2>3 DEF TypeOK
<1>15. ASSUME NEW p \in Launchers, DropPartial(p) PROVE TypeOK'
  <2>1. key[p] \in Builds /\ Unlink(key[p]) /\ fd' = OrphansOf(key[p])
    BY <1>15 DEF DropPartial, TypeOK
  <2>2. cache' \in [Builds -> Files \cup {NoFile}] /\ abandoned' \in SUBSET Builds
    BY <2>1, UnlinkType
  <2>3. fd' \in [Launchers -> {"none", "open", "orphan"}]
    BY <2>1, OrphansType
  <2>4. pc' \in [Launchers -> Labels]
    BY <1>15, GotoType DEF DropPartial, Labels
  <2>5. UNCHANGED <<source, engine, registry, outcome, changes>>
        /\ UNCHANGED <<link, loaded, src, key, versioned, built, todo, runs, alone>>
    BY <1>15 DEF DropPartial, env
  <2> QED
    BY <2>2, <2>3, <2>4, <2>5 DEF TypeOK
<1>16. ASSUME NEW p \in Launchers, ListOld(p) PROVE TypeOK'
  <2>1. todo' \in [Launchers -> SUBSET Builds]
    BY <1>16 DEF TypeOK, ListOld
  <2>2. pc' \in [Launchers -> Labels]
    BY <1>16, GotoType DEF ListOld, Labels
  <2>3. UNCHANGED <<source, engine, registry, outcome, changes>>
        /\ UNCHANGED <<cache, link, loaded, src, key, versioned, built, fd, runs,
                       alone, abandoned>>
    BY <1>16 DEF ListOld, env
  <2> QED
    BY <2>1, <2>2, <2>3 DEF TypeOK
<1>17. ASSUME NEW p \in Launchers, PruneOne(p) PROVE TypeOK'
  <2>1. PICK k \in Builds : /\ Unlink(k) /\ fd' = OrphansOf(k)
                            /\ todo' = [todo EXCEPT ![p] = @ \ {k}]
    BY <1>17 DEF PruneOne, TypeOK
  <2>2. cache' \in [Builds -> Files \cup {NoFile}] /\ abandoned' \in SUBSET Builds
    BY <2>1, UnlinkType
  <2>3. fd' \in [Launchers -> {"none", "open", "orphan"}]
    BY <2>1, OrphansType
  <2>4. todo' \in [Launchers -> SUBSET Builds]
    BY <2>1 DEF TypeOK
  <2>5. UNCHANGED <<source, engine, registry, outcome, changes>>
        /\ UNCHANGED <<link, pc, loaded, src, key, versioned, built, runs, alone>>
    BY <1>17 DEF PruneOne, env
  <2> QED
    BY <2>2, <2>3, <2>4, <2>5 DEF TypeOK
<1>18. ASSUME NEW p \in Launchers, PruneDone(p) PROVE TypeOK'
  <2>1. pc' \in [Launchers -> Labels]
    BY <1>18, GotoType DEF PruneDone, Labels
  <2>2. UNCHANGED <<source, engine, registry, outcome, changes>>
        /\ UNCHANGED <<cache, link, loaded, src, key, versioned, built, fd, todo,
                       runs, alone, abandoned>>
    BY <1>18 DEF PruneDone, env, local
  <2> QED
    BY <2>1, <2>2 DEF TypeOK
<1>19. ASSUME NEW p \in Launchers, CheckLink(p) PROVE TypeOK'
  <2>1. pc' \in [Launchers -> Labels]
    BY <1>19, GotoType DEF CheckLink, Labels
  <2>2. UNCHANGED <<source, engine, registry, outcome, changes>>
        /\ UNCHANGED <<cache, link, loaded, src, key, versioned, built, fd, todo,
                       runs, alone, abandoned>>
    BY <1>19 DEF CheckLink, env, local
  <2> QED
    BY <2>1, <2>2 DEF TypeOK
<1>20. ASSUME NEW p \in Launchers, DropLink(p) PROVE TypeOK'
  <2>1. link' \in Builds \cup SourcePaths \cup {NoLink}
    BY <1>20 DEF TypeOK, DropLink
  <2>2. pc' \in [Launchers -> Labels]
    BY <1>20, GotoType DEF DropLink, Labels, Stopped
  <2>3. UNCHANGED <<source, engine, registry, outcome, changes>>
        /\ UNCHANGED <<cache, loaded, src, key, versioned, built, fd, todo, runs,
                       alone, abandoned>>
    BY <1>20 DEF DropLink, env, local
  <2> QED
    BY <2>1, <2>2, <2>3 DEF TypeOK
<1>21. ASSUME NEW p \in Launchers, MakeLink(p) PROVE TypeOK'
  <2>1. link' \in Builds \cup SourcePaths \cup {NoLink}
    BY <1>21 DEF TypeOK, MakeLink
  <2>2. pc' \in [Launchers -> Labels]
    BY <1>21, GotoType DEF MakeLink, Labels, Stopped
  <2>3. UNCHANGED <<source, engine, registry, outcome, changes>>
        /\ UNCHANGED <<cache, loaded, src, key, versioned, built, fd, todo, runs,
                       alone, abandoned>>
    BY <1>21 DEF MakeLink, env, local
  <2> QED
    BY <2>1, <2>2, <2>3 DEF TypeOK
<1>22. ASSUME NEW p \in Launchers, Return(p) PROVE TypeOK'
  <2>1. pc' \in [Launchers -> Labels]
    BY <1>22, GotoType DEF Return, Labels, Stopped
  <2>2. UNCHANGED <<source, engine, registry, outcome, changes>>
        /\ UNCHANGED <<cache, link, loaded, src, key, versioned, built, fd, todo,
                       runs, alone, abandoned>>
    BY <1>22 DEF Return, env, local
  <2> QED
    BY <2>1, <2>2 DEF TypeOK
<1>23. CASE UNCHANGED vars
  <2>1. UNCHANGED <<source, engine, registry, outcome, changes>>
        /\ UNCHANGED <<cache, link, pc, loaded, src, key, versioned, built, fd,
                       todo, runs, alone, abandoned>>
    BY <1>23 DEF vars, env, local
  <2> QED
    BY <2>1 DEF TypeOK
<1> QED
  BY <1>1, <1>2, <1>3, <1>4, <1>5, <1>6, <1>7, <1>8, <1>9, <1>10, <1>11,
     <1>12, <1>13, <1>14, <1>15, <1>16, <1>17, <1>18, <1>19, <1>20, <1>21,
     <1>22, <1>23 DEF Next, Step

-----------------------------------------------------------------------------
(* Open files and owners of unfinished ones.                               *)

FilesInv == OpenInv /\ OwnerInv

LEMMA FilesInit == Init => FilesInv
BY DEF Init, FilesInv, OpenInv, OwnerInv, Exists

\* A step of a launcher that has no file in hand.
LEMMA FilesLeftAlone ==
    ASSUME TypeOK, FilesInv, NEW p \in Launchers, NEW l, Goto(p, l),
           pc[p] \notin {"write", "copymode", "fatal"},
           cache' = cache, fd' = fd, abandoned' = abandoned,
           \A q \in Launchers : q # p => key'[q] = key[q]
    PROVE  FilesInv'
<1>1. \A q \in Launchers : q # p => pc'[q] = pc[q]
  BY DEF TypeOK, Goto
<1>2. OpenInv'
  BY <1>1 DEF FilesInv, OpenInv, Exists
<1>3. ASSUME NEW k \in Builds, Exists(k)', k \notin abandoned
      PROVE  /\ cache'[k].data = Torn => \E q \in Launchers : CompletesData(q, k)'
             /\ ~cache'[k].exec => \E q \in Launchers : CompletesMode(q, k)'
  <2>1. /\ cache[k].data = Torn => \E q \in Launchers : CompletesData(q, k)
        /\ ~cache[k].exec => \E q \in Launchers : CompletesMode(q, k)
    BY <1>3 DEF FilesInv, OwnerInv, Exists
  <2>2. \A q \in Launchers : CompletesData(q, k) => CompletesData(q, k)'
    BY <1>1 DEF CompletesData
  <2>3. \A q \in Launchers : CompletesMode(q, k) => CompletesMode(q, k)'
    BY <1>1 DEF CompletesMode
  <2> QED
    BY <2>1, <2>2, <2>3
<1>4. OwnerInv'
  BY <1>3 DEF OwnerInv
<1> QED
  BY <1>2, <1>4 DEF FilesInv

\* Unlinking a file: its launchers own nothing any more, the others are left
\* alone.  The launcher that unlinks may go on, if this was the file it had.
LEMMA FilesUnlinked ==
    ASSUME TypeOK, FilesInv, NEW p \in Launchers, NEW k \in Builds,
           Unlink(k), fd' = OrphansOf(k), key' = key,
           \A q \in Launchers : q # p => pc'[q] = pc[q],
           pc[p] # "write", pc'[p] = pc[p] \/ key[p] = k \/ pc[p] = "drop"
    PROVE  FilesInv'
<1>1. \A q \in Launchers : fd'[q] = "open" <=> fd[q] = "open" /\ key[q] # k
  BY DEF OrphansOf
<1>2. \A j \in Builds : /\ Exists(j)' => j # k
                        /\ j # k => cache'[j] = cache[j]
                        /\ j # k => (j \in abandoned <=> j \in abandoned')
  BY DEF TypeOK, Unlink, Exists
<1>3. \A q \in Launchers : key[q] \in Builds
  BY DEF TypeOK
<1>4. OpenInv'
  BY <1>1, <1>2, <1>3 DEF FilesInv, OpenInv, Exists
<1>5. ASSUME NEW j \in Builds, Exists(j)', j \notin abandoned'
      PROVE  /\ cache'[j].data = Torn => \E q \in Launchers : CompletesData(q, j)'
             /\ ~cache'[j].exec => \E q \in Launchers : CompletesMode(q, j)'
  <2>1. j # k /\ Exists(j) /\ j \notin abandoned /\ cache'[j] = cache[j]
    BY <1>2, <1>5 DEF Exists
  <2>2. /\ cache[j].data = Torn => \E q \in Launchers : CompletesData(q, j)
        /\ ~cache[j].exec => \E q \in Launchers : CompletesMode(q, j)
    BY <2>1 DEF FilesInv, OwnerInv
  <2>3. \A q \in Launchers : CompletesData(q, j) => CompletesData(q, j)'
    BY <1>1, <2>1 DEF CompletesData
  <2>4. \A q \in Launchers : CompletesMode(q, j) => CompletesMode(q, j)'
    BY <1>1, <2>1 DEF CompletesMode
  <2> QED
    BY <2>1, <2>2, <2>3, <2>4
<1>6. OwnerInv'
  BY <1>5 DEF OwnerInv
<1> QED
  BY <1>4, <1>6 DEF FilesInv

\* A launcher is killed: what it had in hand is abandoned.
LEMMA FilesAfterCrash ==
    ASSUME TypeOK, FilesInv, NEW p \in Launchers, Crash(p)
    PROVE  FilesInv'
<1>1. /\ cache' = cache /\ key' = key /\ abandoned \subseteq abandoned'
      /\ pc[p] \in {"write", "copymode", "fatal"} /\ Exists(key[p])
            => key[p] \in abandoned'
      /\ fd'[p] = "none"
      /\ \A q \in Launchers : q # p => pc'[q] = pc[q] /\ fd'[q] = fd[q]
  BY DEF Crash, TypeOK, Goto
<1>2. OpenInv'
  BY <1>1 DEF FilesInv, OpenInv, Exists
<1>3. ASSUME NEW k \in Builds, Exists(k)', k \notin abandoned'
      PROVE  /\ cache'[k].data = Torn => \E q \in Launchers : CompletesData(q, k)'
             /\ ~cache'[k].exec => \E q \in Launchers : CompletesMode(q, k)'
  <2>1. Exists(k) /\ k \notin abandoned
    BY <1>1, <1>3 DEF Exists
  <2>2. /\ cache[k].data = Torn => \E q \in Launchers : CompletesData(q, k)
        /\ ~cache[k].exec => \E q \in Launchers : CompletesMode(q, k)
    BY <2>1 DEF FilesInv, OwnerInv
  <2>3. \A q \in Launchers : CompletesData(q, k) => CompletesData(q, k)'
    BY <1>1, <1>3, <2>1 DEF CompletesData
  <2>4. \A q \in Launchers : CompletesMode(q, k) => CompletesMode(q, k)'
    BY <1>1, <1>3, <2>1 DEF CompletesMode
  <2> QED
    BY <1>1, <2>2, <2>3, <2>4
<1>4. OwnerInv'
  BY <1>3 DEF OwnerInv
<1> QED
  BY <1>2, <1>4 DEF FilesInv

\* The part of OwnerInv about one file.
Finishing(k) ==
    /\ cache[k].data = Torn =>
          k \in abandoned \/ \E q \in Launchers : CompletesData(q, k)
    /\ ~cache[k].exec =>
          k \in abandoned \/ \E q \in Launchers : CompletesMode(q, k)

\* A launcher works on its own file: the rest of the cache is left alone.
LEMMA FilesWorkedOn ==
    ASSUME TypeOK, FilesInv, NEW p \in Launchers, key' = key,
           \A q \in Launchers : q # p => pc'[q] = pc[q] /\ fd'[q] = fd[q],
           \A k \in Builds : k # key[p] =>
               cache'[k] = cache[k] /\ (k \in abandoned <=> k \in abandoned'),
           Exists(key[p]) => cache'[key[p]] # NoFile,
           fd'[p] = "open" => pc'[p] = "write" /\ cache'[key[p]] # NoFile,
           cache'[key[p]] # NoFile => Finishing(key[p])'
    PROVE  FilesInv'
<1>1. \A q \in Launchers : key[q] \in Builds
  BY DEF TypeOK
<1>2. ASSUME NEW q \in Launchers, fd'[q] = "open"
      PROVE  pc'[q] = "write" /\ cache'[key[q]] # NoFile
  <2>1. CASE q = p
    BY <1>2, <2>1
  <2>2. CASE q # p
    <3>1. pc[q] = "write" /\ Exists(key[q]) /\ pc'[q] = pc[q]
      BY <1>2, <2>2 DEF FilesInv, OpenInv
    <3>2. cache'[key[q]] # NoFile
      BY <1>1, <3>1 DEF Exists
    <3> QED
      BY <3>1, <3>2
  <2> QED
    BY <2>1, <2>2
<1>3. OpenInv'
  BY <1>2 DEF OpenInv, Exists
<1>4. ASSUME NEW k \in Builds, cache'[k] # NoFile PROVE Finishing(k)'
  <2>1. CASE k = key[p]
    <3>1. Finishing(key[p])'
      BY <1>4, <2>1
    <3> QED
      BY <2>1, <3>1 DEF Finishing, CompletesData, CompletesMode
  <2>2. CASE k # key[p]
    <3>1. /\ cache'[k] = cache[k] /\ (k \in abandoned <=> k \in abandoned')
          /\ Finishing(k)
      BY <1>4, <2>2 DEF FilesInv, OwnerInv, Exists, Finishing
    <3>2. \A q \in Launchers : CompletesData(q, k) => CompletesData(q, k)'
      BY <2>2 DEF CompletesData
    <3>3. \A q \in Launchers : CompletesMode(q, k) => CompletesMode(q, k)'
      BY <2>2 DEF CompletesMode
    <3> QED
      BY <3>1, <3>2, <3>3 DEF Finishing
  <2> QED
    BY <2>1, <2>2
<1>5. OwnerInv'
  BY <1>4 DEF OwnerInv, Exists, Finishing
<1> QED
  BY <1>3, <1>5 DEF FilesInv

LEMMA FilesOpened ==
    ASSUME TypeOK, FilesInv, NEW p \in Launchers, OpenTruncate(p)
    PROVE  FilesInv'
<1> DEFINE file == [data |-> Torn, exec |-> Exists(key[p]) /\ cache[key[p]].exec]
<1>1. /\ key' = key /\ cache' = [cache EXCEPT ![key[p]] = file]
      /\ fd' = [fd EXCEPT ![p] = "open"] /\ Goto(p, "write")
      /\ abandoned' = abandoned \ {key[p]}
  BY DEF OpenTruncate
<1>2. key[p] \in Builds
  BY DEF TypeOK
<1>3. pc'[p] = "write" /\ fd'[p] = "open"
      /\ \A q \in Launchers : q # p => pc'[q] = pc[q] /\ fd'[q] = fd[q]
  BY <1>1 DEF TypeOK, Goto
<1>4. cache'[key[p]] # NoFile
  <2>1. cache[key[p]] # NoFile => cache[key[p]] \in Files
    BY <1>2 DEF TypeOK
  <2>2. (Exists(key[p]) /\ cache[key[p]].exec) \in BOOLEAN
    BY <2>1 DEF Files, Exists
  <2>3. file \in Files
    BY <2>2 DEF Files
  <2>4. cache'[key[p]] = file
    BY <1>1, <1>2 DEF TypeOK
  <2> QED
    BY <2>3, <2>4, PathsAssumption
<1>5. \A k \in Builds : k # key[p] =>
          cache'[k] = cache[k] /\ (k \in abandoned <=> k \in abandoned')
  BY <1>1 DEF TypeOK
<1>6. CompletesData(p, key[p])' /\ CompletesMode(p, key[p])'
  BY <1>1, <1>3 DEF CompletesData, CompletesMode
<1>7. Finishing(key[p])'
  BY <1>6 DEF Finishing
<1> QED
  BY <1>1, <1>3, <1>4, <1>5, <1>7, FilesWorkedOn

LEMMA FilesTorn ==
    ASSUME TypeOK, FilesInv, NEW p \in Launchers, WritePart(p)
    PROVE  FilesInv'
<1>1. /\ key' = key /\ pc' = pc /\ fd' = fd /\ abandoned' = abandoned
      /\ pc[p] = "write" /\ fd[p] = "open"
      /\ cache' = [cache EXCEPT ![key[p]].data = Torn]
  BY DEF WritePart, local
<1>2. key[p] \in Builds /\ cache[key[p]] \in Files
  BY <1>1 DEF TypeOK, FilesInv, OpenInv, Exists
<1>3. cache'[key[p]] # NoFile
  <2>1. cache'[key[p]] = [cache[key[p]] EXCEPT !.data = Torn]
    BY <1>1, <1>2 DEF TypeOK
  <2>2. cache'[key[p]] \in Files
    BY <1>2, <2>1 DEF Files
  <2> QED
    BY <2>2, PathsAssumption
<1>4. \A k \in Builds : k # key[p] => cache'[k] = cache[k]
  BY <1>1 DEF TypeOK
<1>5. CompletesData(p, key[p])' /\ CompletesMode(p, key[p])'
  BY <1>1 DEF CompletesData, CompletesMode
<1>6. Finishing(key[p])'
  BY <1>5 DEF Finishing
<1> QED
  BY <1>1, <1>3, <1>4, <1>6, FilesWorkedOn

LEMMA FilesFinished ==
    ASSUME TypeOK, FilesInv, NEW p \in Launchers, FinishWrite(p)
    PROVE  FilesInv'
<1>1. /\ key' = key /\ abandoned' = abandoned /\ pc[p] = "write"
      /\ Goto(p, "copymode") /\ fd' = [fd EXCEPT ![p] = "none"]
  BY DEF FinishWrite
<1>2. key[p] \in Builds /\ built[p] \in Builds
  BY DEF TypeOK
<1>3. pc'[p] = "copymode" /\ fd'[p] = "none"
      /\ \A q \in Launchers : q # p => pc'[q] = pc[q] /\ fd'[q] = fd[q]
  BY <1>1 DEF TypeOK, Goto
<1>4. CompletesMode(p, key[p])'
  BY <1>1, <1>3 DEF CompletesMode
<1>5. CASE fd[p] = "open"
  <2>1. cache' = [cache EXCEPT ![key[p]].data = built[p]]
    BY <1>5 DEF FinishWrite
  <2>2. cache[key[p]] \in Files
    BY <1>2, <1>5 DEF TypeOK, FilesInv, OpenInv, Exists
  <2>3. cache'[key[p]] = [cache[key[p]] EXCEPT !.data = built[p]]
    BY <1>2, <2>1 DEF TypeOK
  <2>4. cache'[key[p]] \in Files /\ cache'[key[p]].data = built[p]
    BY <1>2, <2>2, <2>3 DEF Files
  <2>5. cache'[key[p]] # NoFile /\ cache'[key[p]].data # Torn
    BY <1>2, <2>4, PathsAssumption
  <2>6. \A k \in Builds : k # key[p] => cache'[k] = cache[k]
    BY <2>1 DEF TypeOK
  <2>7. Finishing(key[p])'
    BY <1>1, <1>4, <2>5 DEF Finishing
  <2> QED
    BY <1>1, <1>3, <2>5, <2>6, <2>7, FilesWorkedOn
<1>6. CASE fd[p] # "open"
  <2>1. cache' = cache
    BY <1>6 DEF FinishWrite
  <2>2. ASSUME cache'[key[p]] # NoFile PROVE Finishing(key[p])'
    <3>1. Finishing(key[p])
      BY <1>2, <2>1, <2>2 DEF FilesInv, OwnerInv, Finishing, Exists
    <3>2. \A q \in Launchers : CompletesData(q, key[p]) => CompletesData(q, key[p])'
      BY <1>1, <1>3, <1>6 DEF CompletesData
    <3> QED
      BY <1>1, <1>4, <2>1, <3>1, <3>2 DEF Finishing
  <2> QED
    BY <1>1, <1>3, <2>1, <2>2, FilesWorkedOn DEF Exists
<1> QED
  BY <1>5, <1>6

LEMMA FilesModeCopied ==
    ASSUME TypeOK, FilesInv, NEW p \in Launchers, CopyMode(p)
    PROVE  FilesInv'
<1>1. /\ key' = key /\ fd' = fd /\ abandoned' = abandoned /\ pc[p] = "copymode"
      /\ pc' = [pc EXCEPT ![p] = pc'[p]]
  BY DEF CopyMode, local, Goto, TypeOK
<1>2. key[p] \in Builds /\ fd[p] # "open"
  BY <1>1 DEF TypeOK, FilesInv, OpenInv
<1>3. \A q \in Launchers : q # p => pc'[q] = pc[q]
  BY <1>1 DEF TypeOK
<1>4. CASE Exists(key[p])
  <2>1. cache' = [cache EXCEPT ![key[p]].exec = TRUE] /\ cache[key[p]] \in Files
    BY <1>2, <1>4 DEF CopyMode, TypeOK, Exists
  <2>2. cache'[key[p]] = [cache[key[p]] EXCEPT !.exec = TRUE]
    BY <1>2, <2>1 DEF TypeOK
  <2>3. /\ cache'[key[p]] \in Files /\ cache'[key[p]].exec
        /\ cache'[key[p]].data = cache[key[p]].data
    BY <2>1, <2>2 DEF Files
  <2>4. cache'[key[p]] # NoFile
    BY <2>3, PathsAssumption
  <2>5. \A k \in Builds : k # key[p] => cache'[k] = cache[k]
    BY <2>1 DEF TypeOK
  <2>6. Finishing(key[p])
    BY <1>2, <1>4 DEF FilesInv, OwnerInv, Finishing
  <2>7. \A q \in Launchers : CompletesData(q, key[p]) => CompletesData(q, key[p])'
    BY <1>1, <1>3 DEF CompletesData
  <2>8. Finishing(key[p])'
    BY <1>1, <2>3, <2>6, <2>7 DEF Finishing
  <2> QED
    BY <1>1, <1>2, <1>3, <2>4, <2>5, <2>8, FilesWorkedOn
<1>5. CASE ~Exists(key[p])
  <2>1. cache' = cache
    BY <1>5 DEF CopyMode
  <2> QED
    BY <1>1, <1>2, <1>3, <1>5, <2>1, FilesWorkedOn DEF Exists
<1> QED
  BY <1>4, <1>5

LEMMA FilesAfterError ==
    ASSUME TypeOK, FilesInv, NEW p \in Launchers, IOError(p)
    PROVE  FilesInv'
<1>1. /\ key' = key /\ cache' = cache /\ abandoned' = abandoned
      /\ Goto(p, "fatal") /\ fd' = [fd EXCEPT ![p] = "none"]
  BY DEF IOError
<1>2. pc'[p] = "fatal" /\ fd'[p] = "none"
      /\ \A q \in Launchers : q # p => pc'[q] = pc[q] /\ fd'[q] = fd[q]
  BY <1>1 DEF TypeOK, Goto
<1>3. CompletesData(p, key[p])' /\ CompletesMode(p, key[p])'
  BY <1>1, <1>2 DEF CompletesData, CompletesMode
<1>4. Finishing(key[p])'
  BY <1>3 DEF Finishing
<1> QED
  BY <1>1, <1>2, <1>4, FilesWorkedOn DEF Exists

LEMMA FilesStep == TypeOK /\ FilesInv /\ [Next]_vars => FilesInv'
<1> SUFFICES ASSUME TypeOK, FilesInv, [Next]_vars PROVE FilesInv'
  OBVIOUS
<1>1. CASE UpgradeSource \/ UpgradeEngine \/ ChangeProviders \/ UNCHANGED vars
  <2>1. UNCHANGED <<cache, pc, key, fd, abandoned>>
    BY <1>1 DEF UpgradeSource, UpgradeEngine, ChangeProviders, MayChange, vars, local
  <2> QED
    BY <2>1 DEF FilesInv, OpenInv, OwnerInv, CompletesData, CompletesMode, Exists
<1>2. ASSUME NEW p \in Launchers,
             \/ Start(p) \/ HashSource(p) \/ HashEngine(p) \/ Lookup(p)
             \/ ReadAndPatch(p) \/ LookForPrevious(p) \/ ListOld(p) \/ PruneDone(p)
             \/ CheckLink(p) \/ DropLink(p) \/ MakeLink(p) \/ Return(p)
      PROVE  FilesInv'
  <2>1. pc[p] \notin {"write", "copymode", "fatal"}
    <3>1. CASE Start(p)
      BY <3>1 DEF Start, Active, Stopped
    <3>2. CASE \/ HashSource(p) \/ HashEngine(p) \/ Lookup(p) \/ ReadAndPatch(p)
               \/ LookForPrevious(p) \/ ListOld(p)
      BY <3>2 DEF HashSource, HashEngine, Lookup, ReadAndPatch, LookForPrevious, ListOld
    <3>3. CASE PruneDone(p) \/ CheckLink(p) \/ DropLink(p) \/ MakeLink(p) \/ Return(p)
      BY <3>3 DEF PruneDone, CheckLink, DropLink, MakeLink, Return
    <3> QED
      BY <1>2, <3>1, <3>2, <3>3
  <2>4. PICK l : Goto(p, l)
    <3>1. CASE Start(p) \/ LookForPrevious(p) \/ MakeLink(p)
      BY <3>1 DEF Start, LookForPrevious, MakeLink
    <3>2. CASE Lookup(p) \/ ReadAndPatch(p) \/ CheckLink(p) \/ DropLink(p)
      BY <3>2 DEF Lookup, ReadAndPatch, CheckLink, DropLink
    <3>3. CASE HashSource(p) \/ HashEngine(p) \/ ListOld(p) \/ PruneDone(p) \/ Return(p)
      BY <3>3 DEF HashSource, HashEngine, ListOld, PruneDone, Return
    <3> QED
      BY <1>2, <3>1, <3>2, <3>3
  <2>2. cache' = cache /\ fd' = fd /\ abandoned' = abandoned
    BY <1>2 DEF Start, HashSource, HashEngine, Lookup, ReadAndPatch,
                LookForPrevious, ListOld, PruneDone, CheckLink, DropLink,
                MakeLink, Return, local
  <2>3. \A q \in Launchers : q # p => key'[q] = key[q]
    BY <1>2 DEF Start, HashSource, HashEngine, Lookup, ReadAndPatch,
                LookForPrevious, ListOld, PruneDone, CheckLink, DropLink,
                MakeLink, Return, local, TypeOK
  <2> QED
    BY <2>1, <2>2, <2>3, <2>4, FilesLeftAlone
<1>3. ASSUME NEW p \in Launchers, FallBackToSource(p) \/ DropPartial(p)
      PROVE  FilesInv'
  <2>1. /\ Unlink(key[p]) /\ fd' = OrphansOf(key[p]) /\ key' = key
        /\ pc[p] # "write" /\ key[p] \in Builds
    BY <1>3 DEF FallBackToSource, DropPartial, TypeOK
  <2>2. \A q \in Launchers : q # p => pc'[q] = pc[q]
    BY <1>3 DEF FallBackToSource, DropPartial, Goto, TypeOK
  <2> QED
    BY <2>1, <2>2, FilesUnlinked
<1>4. ASSUME NEW p \in Launchers, PruneOne(p) PROVE FilesInv'
  <2>1. PICK k \in Builds : Unlink(k) /\ fd' = OrphansOf(k)
    BY <1>4 DEF PruneOne, TypeOK
  <2>2. key' = key /\ pc' = pc /\ pc[p] # "write"
    BY <1>4 DEF PruneOne
  <2> QED
    BY <1>4, <2>1, <2>2, FilesUnlinked
<1> QED
  BY <1>1, <1>2, <1>3, <1>4, FilesAfterCrash, FilesOpened, FilesTorn, FilesFinished,
     FilesModeCopied, FilesAfterError DEF Next, Step

-----------------------------------------------------------------------------
(* Which of two cached builds goes.                                        *)

\* A launcher that has not listed the directory yet unlinks the file it writes
\* or the other one, and one that prunes has one of the two on its list.
WillRemove(p, j, k) ==
    \/ pc[p] \in {"write", "copymode", "missed", "drop", "fatal"} /\ key[p] \in {j, k}
    \/ pc[p] = "list"
    \/ pc[p] = "prune" /\ todo[p] \cap {j, k} # {}

\* AtMostOneCached speaks of the end only: as long as two builds are cached,
\* some launcher is on its way to unlink one of them.
ExtraInv ==
    \A j, k \in Builds :
        Exists(j) /\ Exists(k) /\ j # k => \E p \in Launchers : WillRemove(p, j, k)

LEMMA ExtraInit == Init => ExtraInv
BY DEF Init, ExtraInv, Exists

\* A step of one launcher that creates no file and keeps its obligation.
LEMMA ExtraKept ==
    ASSUME ExtraInv, NEW p \in Launchers,
           \A q \in Launchers \ {p} :
               pc'[q] = pc[q] /\ key'[q] = key[q] /\ todo'[q] = todo[q],
           \A k \in Builds : Exists(k)' => Exists(k),
           \A j, k \in Builds :
               Exists(j)' /\ Exists(k)' /\ j # k /\ WillRemove(p, j, k)
                   => WillRemove(p, j, k)'
    PROVE  ExtraInv'
<1> SUFFICES ASSUME NEW j \in Builds, NEW k \in Builds, Exists(j)', Exists(k)', j # k
             PROVE  \E q \in Launchers : WillRemove(q, j, k)'
  BY DEF ExtraInv
<1>1. PICK q \in Launchers : WillRemove(q, j, k)
  BY DEF ExtraInv
<1>2. CASE q = p
  BY <1>1, <1>2
<1>3. CASE q # p
  BY <1>1, <1>3 DEF WillRemove
<1> QED
  BY <1>2, <1>3

LEMMA ExtraStep == ~Crashes /\ TypeOK /\ FilesInv /\ ExtraInv /\ [Next]_vars => ExtraInv'
<1> SUFFICES ASSUME ~Crashes, TypeOK, FilesInv, ExtraInv, [Next]_vars PROVE ExtraInv'
  OBVIOUS
<1>1. CASE UpgradeSource \/ UpgradeEngine \/ ChangeProviders \/ UNCHANGED vars
  <2>1. UNCHANGED <<cache, pc, key, todo>>
    BY <1>1 DEF UpgradeSource, UpgradeEngine, ChangeProviders, MayChange, vars, local
  <2> QED
    BY <2>1 DEF ExtraInv, Exists, WillRemove
<1>2. ASSUME NEW p \in Launchers,
             \/ Start(p) \/ HashSource(p) \/ HashEngine(p) \/ Lookup(p)
             \/ ReadAndPatch(p) \/ PruneDone(p)
             \/ CheckLink(p) \/ DropLink(p) \/ MakeLink(p) \/ Return(p)
      PROVE  ExtraInv'
  <2>1. UNCHANGED <<cache, todo>> /\ \E l \in Labels : Goto(p, l)
    <3>1. CASE \/ Start(p) \/ HashSource(p) \/ HashEngine(p) \/ Lookup(p)
               \/ ReadAndPatch(p)
      BY <3>1 DEF Start, HashSource, HashEngine, Lookup, ReadAndPatch, local, Labels,
                  Stopped
    <3>2. CASE \/ PruneDone(p) \/ CheckLink(p) \/ DropLink(p) \/ MakeLink(p)
               \/ Return(p)
      BY <3>2 DEF PruneDone, CheckLink, DropLink, MakeLink, Return, local, Labels,
                  Stopped
    <3> QED
      BY <1>2, <3>1, <3>2
  <2>2. \A q \in Launchers \ {p} : key'[q] = key[q]
    BY <1>2 DEF Start, HashSource, HashEngine, Lookup, ReadAndPatch, PruneDone,
                CheckLink, DropLink, MakeLink, Return, local, TypeOK
  <2>3. \A j, k \in Builds : ~WillRemove(p, j, k)
    <3>1. pc[p] \notin {"write", "copymode", "missed", "drop", "fatal", "list"}
      BY <1>2 DEF Start, HashSource, HashEngine, Lookup, ReadAndPatch, PruneDone,
                  CheckLink, DropLink, MakeLink, Return, Active, Stopped
    <3>2. pc[p] = "prune" => todo[p] = {}
      BY <1>2 DEF Start, HashSource, HashEngine, Lookup, ReadAndPatch, PruneDone,
                  CheckLink, DropLink, MakeLink, Return, Active, Stopped
    <3> QED
      BY <3>1, <3>2 DEF WillRemove
  <2> QED
    BY <2>1, <2>2, <2>3, ExtraKept DEF Goto, TypeOK, Exists
<1>3. ASSUME NEW p \in Launchers, OpenTruncate(p) PROVE ExtraInv'
  <2>1. /\ pc[p] = "open" /\ Goto(p, "write") /\ UNCHANGED <<key, todo>>
        /\ cache' = [cache EXCEPT ![key[p]] =
                        [data |-> Torn, exec |-> Exists(key[p]) /\ cache[key[p]].exec]]
    BY <1>3 DEF OpenTruncate
  <2> SUFFICES ASSUME NEW j \in Builds, NEW k \in Builds, Exists(j)', Exists(k)', j # k
               PROVE  \E q \in Launchers : WillRemove(q, j, k)'
    BY DEF ExtraInv
  <2>2. CASE key[p] \in {j, k}
    BY <2>1, <2>2 DEF WillRemove, Goto, TypeOK
  <2>3. CASE key[p] \notin {j, k}
    <3>1. Exists(j) /\ Exists(k)
      BY <2>1, <2>3 DEF Exists, TypeOK
    <3>2. PICK q \in Launchers : WillRemove(q, j, k)
      BY <3>1 DEF ExtraInv
    <3>3. q # p
      BY <2>1, <3>2 DEF WillRemove
    <3> QED
      BY <2>1, <3>2, <3>3 DEF WillRemove, Goto, TypeOK
  <2> QED
    BY <2>2, <2>3
<1>4. ASSUME NEW p \in Launchers,
             \/ WritePart(p) \/ FinishWrite(p) \/ CopyMode(p) \/ IOError(p)
             \/ LookForPrevious(p)
      PROVE  ExtraInv'
  <2>1. /\ UNCHANGED <<key, todo>>
        /\ \/ pc' = pc /\ pc[p] = "write"
           \/ /\ pc[p] # "list" /\ pc[p] # "prune"
              /\ \E l \in {"copymode", "missed", "drop", "fatal", "list"} : Goto(p, l)
    BY <1>4 DEF WritePart, FinishWrite, CopyMode, IOError, LookForPrevious, local
  <2>2. \A k \in Builds : Exists(k)' => Exists(k)
    <3>1. cache' = cache \/ (Exists(key[p]) /\ \E f : cache' = [cache EXCEPT ![key[p]] = f])
      <4>1. CASE WritePart(p) \/ FinishWrite(p)
        BY <4>1 DEF WritePart, FinishWrite, FilesInv, OpenInv
      <4>2. CASE CopyMode(p) \/ IOError(p) \/ LookForPrevious(p)
        BY <4>2 DEF CopyMode, IOError, LookForPrevious
      <4> QED
        BY <1>4, <4>1, <4>2
    <3> QED
      BY <3>1 DEF Exists, TypeOK
  <2>3. \A j, k \in Builds : WillRemove(p, j, k) => WillRemove(p, j, k)'
    BY <2>1 DEF WillRemove, Goto, TypeOK
  <2>4. \A q \in Launchers \ {p} : pc'[q] = pc[q]
    BY <2>1 DEF Goto, TypeOK
  <2> QED
    BY <2>1, <2>2, <2>3, <2>4, ExtraKept
<1>5. ASSUME NEW p \in Launchers, FallBackToSource(p) \/ DropPartial(p) PROVE ExtraInv'
  <2>1. /\ UNCHANGED <<key, todo>> /\ pc[p] \in {"fatal", "drop"}
        /\ Goto(p, "relink") \/ Goto(p, "list")
        /\ cache' = [cache EXCEPT ![key[p]] = NoFile]
    BY <1>5 DEF FallBackToSource, DropPartial, Unlink
  <2>2. \A k \in Builds : Exists(k)' => Exists(k) /\ k # key[p]
    BY <2>1 DEF Exists, TypeOK
  <2>3. \A j, k \in Builds : Exists(j)' /\ Exists(k)' => ~WillRemove(p, j, k)
    BY <2>1, <2>2 DEF WillRemove
  <2> QED
    BY <2>1, <2>2, <2>3, ExtraKept DEF Goto, TypeOK
<1>6. ASSUME NEW p \in Launchers, ListOld(p) PROVE ExtraInv'
  <2>1. /\ UNCHANGED <<cache, key>> /\ Goto(p, "prune")
        /\ todo' = [todo EXCEPT ![p] = {k \in Builds : Exists(k)} \ {versioned[p]}]
    BY <1>6 DEF ListOld
  <2>2. \A j, k \in Builds : Exists(j)' /\ Exists(k)' /\ j # k => WillRemove(p, j, k)'
    BY <2>1 DEF WillRemove, Exists, Goto, TypeOK
  <2> QED
    BY <2>1, <2>2, ExtraKept DEF Goto, Exists, TypeOK
<1>7. ASSUME NEW p \in Launchers, PruneOne(p) PROVE ExtraInv'
  <2>1. PICK k \in todo[p] : Unlink(k) /\ todo' = [todo EXCEPT ![p] = @ \ {k}]
    BY <1>7 DEF PruneOne
  <2>2. pc[p] = "prune" /\ UNCHANGED <<pc, key>> /\ k \in Builds
    BY <1>7, <2>1 DEF PruneOne, TypeOK
  <2>3. \A j \in Builds : Exists(j)' => Exists(j) /\ j # k
    BY <2>1, <2>2 DEF Unlink, Exists, TypeOK
  <2>4. todo'[p] = todo[p] \ {k} /\ \A q \in Launchers \ {p} : todo'[q] = todo[q]
    BY <2>1 DEF TypeOK
  <2>5. \A i, j \in Builds : Exists(i)' /\ Exists(j)' /\ WillRemove(p, i, j)
            => WillRemove(p, i, j)'
    BY <2>2, <2>3, <2>4 DEF WillRemove
  <2> QED
    BY <2>2, <2>3, <2>4, <2>5, ExtraKept
<1>8. ASSUME NEW p \in Launchers, Crash(p) PROVE FALSE
  BY <1>8 DEF Crash
<1> QED
  BY <1>1, <1>2, <1>3, <1>4, <1>5, <1>6, <1>7, <1>8 DEF Next, Step

-----------------------------------------------------------------------------
(* The theorems.                                                           *)

LEMMA CacheInductive == Spec => [](TypeOK /\ FilesInv)
<1>1. Init => TypeOK /\ FilesInv
  BY TypeInit, FilesInit
<1>2. TypeOK /\ FilesInv /\ [Next]_vars => (TypeOK /\ FilesInv)'
  BY TypeStep, FilesStep DEF FilesInv
<1> QED
  BY <1>1, <1>2, PTL DEF Spec

\* Every launcher stays within its program and every cached file is a build or
\* an unfinished one, for any number of launchers (launch.py:150-219).
THEOREM CacheWellTyped == Spec => []TypeOK
BY CacheInductive, PTL

\* For any number of launchers, whatever is upgraded, fails or is killed: an
\* unfinished file has a live launcher that will complete or unlink it, or was
\* left by one that was killed (cli.py:168-169, launch.py:174-185).
THEOREM UnfinishedFilesHaveWriters == Spec => []UnfinishedHasWriter
<1>1. TypeOK /\ FilesInv => UnfinishedHasWriter
  BY DEF FilesInv, OwnerInv, UnfinishedHasWriter, CompletesData, CompletesMode,
         Complete, TypeOK, Files, Exists
<1> QED
  BY <1>1, CacheInductive, PTL

\* However launchers overlap and fail, and whatever is installed meanwhile: when
\* all have ended, and none was killed, one build is left at most
\* (launch.py:205-208).
THEOREM OneBuildIsLeft == ASSUME ~Crashes PROVE Spec => []AtMostOneCached
<1>1. Init => ExtraInv
  BY ExtraInit
<1>2. TypeOK /\ FilesInv /\ ExtraInv /\ [Next]_vars => ExtraInv'
  BY ExtraStep
<1>3. ExtraInv => AtMostOneCached
  BY DEF ExtraInv, AtMostOneCached, WillRemove
<1> QED
  BY <1>1, <1>2, <1>3, CacheInductive, PTL DEF Spec

-----------------------------------------------------------------------------
(* What a launcher hashes is what it builds, and its key names it.         *)

\* Nothing is installed while a launcher runs, or what is installed is a new
\* version of the binary beside the old ones, or other providers.
Steady == QuietChanges \/ (Versioned /\ \A e, f \in Engines : e = f)

\* The build a launcher makes if it reads now.
WillBuild(p) == <<Contents(src[p]), loaded[p].engine, loaded[p].registry>>

\* What the key of a launcher says of the build it is about to make.
KeyAhead(p) ==
    /\ pc[p] \in {"hash_source", "hash_engine"} => loaded[p].engine = engine
    /\ pc[p] = "hash_engine" => key[p][1] = Contents(src[p])
    /\ pc[p] \in {"lookup", "read"} => key[p] = WillBuild(p)
    /\ pc[p] \in {"open", "write"} => key[p] = built[p]

KeyInv == \A p \in Launchers : KeyAhead(p)

\* Labels KeyAhead says nothing about.
Beyond == Labels \ {"hash_source", "hash_engine", "lookup", "read", "open", "write"}

-----------------------------------------------------------------------------

LEMMA KeyInit == Init => KeyInv /\ FilesMatchKeys
BY DEF Init, KeyInv, KeyAhead, FilesMatchKeys, Exists

\* A step that changes the state of no launcher but p.
LEMMA OthersKeepKeys ==
    ASSUME KeyInv, NEW p \in Launchers, UNCHANGED <<source, engine>>,
           \A q \in Launchers \ {p} :
               /\ pc'[q] = pc[q] /\ loaded'[q] = loaded[q] /\ src'[q] = src[q]
               /\ key'[q] = key[q] /\ built'[q] = built[q],
           KeyAhead(p)'
    PROVE  KeyInv'
<1>1. ASSUME NEW q \in Launchers \ {p} PROVE KeyAhead(q)'
  <2>1. Contents(src[q])' = Contents(src[q])
    BY DEF Contents
  <2> QED
    BY <2>1 DEF KeyInv, KeyAhead, WillBuild
<1> QED
  BY <1>1 DEF KeyInv

\* The world changes: nobody is running, or nobody can tell.
LEMMA ChangeKeepsKeys ==
    ASSUME Steady, TypeOK, TypeOK', KeyInv,
           UpgradeSource \/ UpgradeEngine \/ ChangeProviders
    PROVE  KeyInv'
<1>1. /\ MayChange
      /\ UNCHANGED <<pc, loaded, src, key, built>>
  BY DEF UpgradeSource, UpgradeEngine, ChangeProviders, MayChange, local
<1>2. CASE QuietChanges
  <2>1. \A p \in Launchers : pc'[p] \in Stopped
    BY <1>1, <1>2 DEF MayChange, Active
  <2> QED
    BY <2>1 DEF KeyInv, KeyAhead, Stopped
<1>3. CASE Versioned /\ \A e, f \in Engines : e = f
  <2>1. engine' = engine
    BY <1>3 DEF TypeOK
  <2>2. \A p \in Launchers : Contents(src[p])' = Contents(src[p])
    BY <1>1, <1>3 DEF Contents
  <2> QED
    BY <1>1, <2>1, <2>2 DEF KeyInv, KeyAhead, WillBuild
<1> QED
  BY <1>2, <1>3 DEF Steady

LEMMA KeyStep == Steady /\ TypeOK /\ TypeOK' /\ KeyInv /\ [Next]_vars => KeyInv'
<1> SUFFICES ASSUME Steady, TypeOK, TypeOK', KeyInv, [Next]_vars PROVE KeyInv'
  OBVIOUS
<1>1. CASE UpgradeSource \/ UpgradeEngine \/ ChangeProviders
  BY <1>1, ChangeKeepsKeys
<1>2. CASE UNCHANGED vars
  <2>1. UNCHANGED <<source, engine, pc, loaded, src, key, built>>
    BY <1>2 DEF vars, env, local
  <2> QED
    BY <2>1 DEF KeyInv, KeyAhead, WillBuild, Contents
<1>3. ASSUME NEW p \in Launchers, Start(p) PROVE KeyInv'
  <2>1. /\ UNCHANGED <<source, engine, src, key, built>>
        /\ loaded' = [loaded EXCEPT ![p] = [engine |-> engine, registry |-> registry]]
        /\ Goto(p, "hash_source") \/ Goto(p, "done")
    BY <1>3 DEF Start, env
  <2>2. KeyAhead(p)'
    BY <2>1 DEF KeyAhead, TypeOK, Goto
  <2>3. \A q \in Launchers \ {p} : pc'[q] = pc[q] /\ loaded'[q] = loaded[q]
    BY <2>1 DEF TypeOK, Goto
  <2> QED
    BY <2>1, <2>2, <2>3, OthersKeepKeys
<1>4. ASSUME NEW p \in Launchers, HashSource(p) PROVE KeyInv'
  <2>1. /\ UNCHANGED <<source, engine, loaded, built>>
        /\ src' = [src EXCEPT ![p] = SourcePath(source)]
        /\ key' = [key EXCEPT ![p] = <<source, key[p][2], key[p][3]>>]
        /\ Goto(p, "hash_engine") /\ pc[p] = "hash_source"
    BY <1>4 DEF HashSource, env
  <2>2. Contents(src[p])' = source
    <3>1. src'[p] = SourcePath(source)
      BY <2>1 DEF TypeOK
    <3>2. CASE Versioned
      BY <3>1, <3>2 DEF Contents, SourcePath
    <3>3. CASE ~Versioned
      BY <2>1, <3>3 DEF Contents
    <3> QED
      BY <3>2, <3>3
  <2>3. KeyAhead(p)'
    BY <2>1, <2>2 DEF KeyAhead, KeyInv, TypeOK, Goto
  <2>4. \A q \in Launchers \ {p} : pc'[q] = pc[q] /\ src'[q] = src[q] /\ key'[q] = key[q]
    BY <2>1 DEF TypeOK, Goto
  <2> QED
    BY <2>1, <2>3, <2>4, OthersKeepKeys
<1>5. ASSUME NEW p \in Launchers, HashEngine(p) PROVE KeyInv'
  <2>1. /\ UNCHANGED <<source, engine, loaded, src, built>>
        /\ key' = [key EXCEPT ![p] = <<key[p][1], engine, loaded[p].registry>>]
        /\ Goto(p, "lookup") /\ pc[p] = "hash_engine"
    BY <1>5 DEF HashEngine, env
  <2>2. Contents(src[p])' = Contents(src[p])
    BY <2>1 DEF Contents
  <2>3. KeyAhead(p)'
    BY <2>1, <2>2 DEF KeyAhead, KeyInv, WillBuild, TypeOK, Goto
  <2>4. \A q \in Launchers \ {p} : pc'[q] = pc[q] /\ key'[q] = key[q]
    BY <2>1 DEF TypeOK, Goto
  <2> QED
    BY <2>1, <2>3, <2>4, OthersKeepKeys
<1>6. ASSUME NEW p \in Launchers, ReadAndPatch(p) PROVE KeyInv'
  <2>1. /\ UNCHANGED <<source, engine, loaded, src, key>>
        /\ built' = [built EXCEPT ![p] = WillBuild(p)]
        /\ Goto(p, "fatal") \/ Goto(p, "open")
        /\ pc[p] = "read"
    BY <1>6 DEF ReadAndPatch, env, WillBuild
  <2>2. KeyAhead(p)'
    BY <2>1 DEF KeyAhead, KeyInv, TypeOK, Goto
  <2>3. \A q \in Launchers \ {p} : pc'[q] = pc[q] /\ built'[q] = built[q]
    BY <2>1 DEF TypeOK, Goto
  <2> QED
    BY <2>1, <2>2, <2>3, OthersKeepKeys
<1>7. ASSUME NEW p \in Launchers, Lookup(p) \/ OpenTruncate(p) \/ WritePart(p)
      PROVE  KeyInv'
  <2>1. UNCHANGED <<source, engine, loaded, src, key, built>>
    BY <1>7 DEF Lookup, OpenTruncate, WritePart, env, local
  <2>2. /\ \/ pc[p] = "lookup" /\ (Goto(p, "relink") \/ Goto(p, "read"))
           \/ pc[p] = "open" /\ Goto(p, "write")
           \/ pc' = pc
    BY <1>7 DEF Lookup, OpenTruncate, WritePart
  <2>3. Contents(src[p])' = Contents(src[p])
    BY <2>1 DEF Contents
  <2>4. KeyAhead(p)'
    BY <2>1, <2>2, <2>3 DEF KeyAhead, KeyInv, WillBuild, TypeOK, Goto
  <2>5. \A q \in Launchers \ {p} : pc'[q] = pc[q]
    BY <2>2 DEF TypeOK, Goto
  <2> QED
    BY <2>1, <2>4, <2>5, OthersKeepKeys
<1>8. ASSUME NEW p \in Launchers,
             \/ Crash(p) \/ FinishWrite(p) \/ CopyMode(p) \/ IOError(p)
             \/ FallBackToSource(p) \/ LookForPrevious(p) \/ DropPartial(p)
             \/ ListOld(p) \/ PruneOne(p) \/ PruneDone(p)
             \/ CheckLink(p) \/ DropLink(p) \/ MakeLink(p) \/ Return(p)
      PROVE  KeyInv'
  <2>1. UNCHANGED <<source, engine, loaded, src, key, built>>
    BY <1>8 DEF Crash, FinishWrite, CopyMode, IOError, FallBackToSource,
                LookForPrevious, DropPartial, ListOld, PruneOne, PruneDone,
                CheckLink, DropLink, MakeLink, Return, env, local
  <2>2. \/ \E l \in Beyond : Goto(p, l)
        \/ pc[p] = "prune" /\ pc' = pc
    <3>1. CASE Crash(p) \/ FinishWrite(p) \/ CopyMode(p) \/ IOError(p)
      BY <3>1 DEF Crash, FinishWrite, CopyMode, IOError, Beyond, Labels, Stopped
    <3>2. CASE FallBackToSource(p) \/ LookForPrevious(p) \/ DropPartial(p)
      BY <3>2 DEF FallBackToSource, LookForPrevious, DropPartial, Beyond, Labels
    <3>3. CASE ListOld(p) \/ PruneOne(p) \/ PruneDone(p)
      BY <3>3 DEF ListOld, PruneOne, PruneDone, Beyond, Labels
    <3>4. CASE CheckLink(p) \/ DropLink(p) \/ MakeLink(p) \/ Return(p)
      BY <3>4 DEF CheckLink, DropLink, MakeLink, Return, Beyond, Labels, Stopped
    <3> QED
      BY <1>8, <3>1, <3>2, <3>3, <3>4
  <2>3. KeyAhead(p)'
    BY <2>2 DEF KeyAhead, TypeOK, Goto, Beyond
  <2>4. \A q \in Launchers \ {p} : pc'[q] = pc[q]
    BY <2>2 DEF TypeOK, Goto
  <2> QED
    BY <2>1, <2>3, <2>4, OthersKeepKeys
<1> QED
  BY <1>1, <1>2, <1>3, <1>4, <1>5, <1>6, <1>7, <1>8 DEF Next, Step

-----------------------------------------------------------------------------

\* Texts are only written under the writer's key, and only its own build is.
LEMMA MatchStep ==
    TypeOK /\ FilesInv /\ KeyInv /\ FilesMatchKeys /\ [Next]_vars => FilesMatchKeys'
<1> SUFFICES ASSUME TypeOK, FilesInv, KeyInv, FilesMatchKeys, [Next]_vars,
                    NEW k \in Builds, cache'[k] # NoFile
             PROVE  cache'[k].data \in {Torn, k}
  BY DEF FilesMatchKeys, Exists
<1>1. cache[k] # NoFile => cache[k] \in Files /\ cache[k].data \in {Torn, k}
  BY DEF TypeOK, FilesMatchKeys, Exists
<1>2. ASSUME NEW p \in Launchers, OpenTruncate(p) PROVE cache'[k].data \in {Torn, k}
  <2>1. cache' = [cache EXCEPT ![key[p]] =
                    [data |-> Torn, exec |-> Exists(key[p]) /\ cache[key[p]].exec]]
    BY <1>2 DEF OpenTruncate
  <2> QED
    BY <1>1, <2>1 DEF TypeOK
<1>3. ASSUME NEW p \in Launchers, WritePart(p) PROVE cache'[k].data \in {Torn, k}
  <2>1. cache' = [cache EXCEPT ![key[p]].data = Torn] /\ fd[p] = "open"
    BY <1>3 DEF WritePart
  <2>2. key[p] \in Builds /\ cache[key[p]] \in Files
    BY <2>1 DEF TypeOK, FilesInv, OpenInv, Exists
  <2>3. k = key[p] => cache'[k].data = Torn
    BY <2>1, <2>2 DEF TypeOK, Files
  <2>4. k # key[p] => cache'[k] = cache[k]
    BY <2>1 DEF TypeOK
  <2> QED
    BY <1>1, <2>3, <2>4
<1>4. ASSUME NEW p \in Launchers, FinishWrite(p) PROVE cache'[k].data \in {Torn, k}
  <2>1. CASE fd[p] = "open"
    <3>1. cache' = [cache EXCEPT ![key[p]].data = built[p]] /\ pc[p] = "write"
      BY <1>4, <2>1 DEF FinishWrite
    <3>2. key[p] = built[p]
      BY <3>1 DEF KeyInv, KeyAhead
    <3>3. key[p] \in Builds /\ cache[key[p]] \in Files
      BY <2>1 DEF TypeOK, FilesInv, OpenInv, Exists
    <3>4. k = key[p] => cache'[k].data = built[p]
      BY <3>1, <3>3 DEF TypeOK, Files
    <3>5. k # key[p] => cache'[k] = cache[k]
      BY <3>1 DEF TypeOK
    <3> QED
      BY <1>1, <3>2, <3>4, <3>5
  <2>2. CASE fd[p] # "open"
    BY <1>1, <1>4, <2>2 DEF FinishWrite
  <2> QED
    BY <2>1, <2>2
<1>5. ASSUME NEW p \in Launchers, CopyMode(p) PROVE cache'[k].data \in {Torn, k}
  <2>1. CASE Exists(key[p])
    <3>1. cache' = [cache EXCEPT ![key[p]].exec = TRUE]
      BY <1>5, <2>1 DEF CopyMode
    <3>2. key[p] \in Builds /\ cache[key[p]] \in Files
      BY <2>1 DEF TypeOK, Exists
    <3>3. k = key[p] => cache'[k].data = cache[k].data
      BY <3>1, <3>2 DEF TypeOK, Files
    <3>4. k # key[p] => cache'[k] = cache[k]
      BY <3>1 DEF TypeOK
    <3> QED
      BY <1>1, <2>1, <3>3, <3>4 DEF Exists
  <2>2. CASE ~Exists(key[p])
    BY <1>1, <1>5, <2>2 DEF CopyMode
  <2> QED
    BY <2>1, <2>2
<1>6. ASSUME NEW p \in Launchers, FallBackToSource(p) \/ DropPartial(p) \/ PruneOne(p)
      PROVE  cache'[k].data \in {Torn, k}
  <2>1. PICK j \in Builds : cache' = [cache EXCEPT ![j] = NoFile]
    BY <1>6 DEF FallBackToSource, DropPartial, PruneOne, Unlink, TypeOK
  <2> QED
    BY <1>1, <2>1 DEF TypeOK
<1>7. CASE cache' = cache
  BY <1>1, <1>7
<1>8. ASSUME NEW p \in Launchers,
             \/ Start(p) \/ HashSource(p) \/ HashEngine(p) \/ Lookup(p)
             \/ ReadAndPatch(p) \/ LookForPrevious(p) \/ ListOld(p) \/ PruneDone(p)
             \/ CheckLink(p) \/ DropLink(p) \/ MakeLink(p) \/ Return(p)
             \/ IOError(p) \/ Crash(p)
      PROVE  cache' = cache
  BY <1>8 DEF Start, HashSource, HashEngine, Lookup, ReadAndPatch, LookForPrevious,
              ListOld, PruneDone, CheckLink, DropLink, MakeLink, Return, IOError, Crash
<1>9. UpgradeSource \/ UpgradeEngine \/ ChangeProviders \/ UNCHANGED vars => cache' = cache
  BY DEF UpgradeSource, UpgradeEngine, ChangeProviders, MayChange, vars
<1> QED
  BY <1>2, <1>3, <1>4, <1>5, <1>6, <1>7, <1>8, <1>9 DEF Next, Step

\* For any number of launchers that overlap, fail and are killed: a complete
\* cached file is the build its name stands for, if nothing is installed under
\* a running launcher, or if it is, but versions of the binary lie side by side
\* and cc_patcher's own code stays (launch.py:139-147, 164-172, cli.py:116, 168).
THEOREM CachedFilesMatchKeys == ASSUME Steady PROVE Spec => []FilesMatchKeys
<1>1. Init => KeyInv /\ FilesMatchKeys
  BY KeyInit
<1>2. TypeOK /\ FilesInv /\ TypeOK' /\ KeyInv /\ FilesMatchKeys /\ [Next]_vars
        => (KeyInv /\ FilesMatchKeys)'
  BY KeyStep, MatchStep
<1>3. Spec => [](TypeOK /\ FilesInv)
  BY CacheInductive
<1> QED
  BY <1>1, <1>2, <1>3, PTL DEF Spec

-----------------------------------------------------------------------------
(* A launcher that is alone.                                               *)

\* What a launcher that has been alone so far knows of the link, having looked
\* at it or unlinked it itself.
LinkKnown(p) ==
    /\ pc[p] = "drop_link" => link # NoLink
    /\ pc[p] = "make_link" => link = NoLink
    /\ pc[p] # "error"

SoloInv ==
    \A p \in Launchers : alone[p] =>
        /\ LinkKnown(p)
        /\ Active(p) => \A q \in Launchers \ {p} : ~Active(q)

-----------------------------------------------------------------------------

LEMMA SoloInit == Init => SoloInv
BY DEF Init, SoloInv, LinkKnown, Active, Stopped

\* A step of a running launcher concerns no other that is alone: that one
\* would be stopped.
LEMMA SoloKept ==
    ASSUME SoloInv, NEW p \in Launchers, Active(p), alone' = alone,
           \A q \in Launchers \ {p} : pc'[q] = pc[q],
           alone[p] => LinkKnown(p)'
    PROVE  SoloInv'
<1> SUFFICES ASSUME NEW q \in Launchers, alone[q]
             PROVE  /\ LinkKnown(q)'
                    /\ Active(q)' => \A o \in Launchers \ {q} : ~Active(o)'
  BY DEF SoloInv
<1>1. CASE q = p
  BY <1>1 DEF SoloInv, Active
<1>2. CASE q # p
  <2>1. ~Active(q) /\ pc'[q] = pc[q]
    BY <1>2 DEF SoloInv
  <2>2. pc[q] \notin {"drop_link", "make_link", "error"}
    BY <2>1 DEF SoloInv, LinkKnown, Active, Stopped
  <2> QED
    BY <2>1, <2>2 DEF LinkKnown, Active
<1> QED
  BY <1>1, <1>2

LEMMA SoloStep == TypeOK /\ SoloInv /\ [Next]_vars => SoloInv'
<1> SUFFICES ASSUME TypeOK, SoloInv, [Next]_vars PROVE SoloInv'
  OBVIOUS
<1>1. CASE UpgradeSource \/ UpgradeEngine \/ ChangeProviders \/ UNCHANGED vars
  <2>1. UNCHANGED <<pc, link, alone>>
    BY <1>1 DEF UpgradeSource, UpgradeEngine, ChangeProviders, MayChange, vars, local
  <2> QED
    BY <2>1 DEF SoloInv, LinkKnown, Active
<1>2. ASSUME NEW p \in Launchers, Start(p) PROVE SoloInv'
  <2>1. /\ alone' = [q \in Launchers |->
                        IF q = p THEN \A o \in Launchers \ {p} : ~Active(o)
                        ELSE alone[q] /\ ~Active(q)]
        /\ link' = link
        /\ Goto(p, "hash_source") \/ Goto(p, "done")
    BY <1>2 DEF Start
  <2>2. pc'[p] \in {"hash_source", "done"}
        /\ \A q \in Launchers \ {p} : pc'[q] = pc[q]
    BY <2>1 DEF TypeOK, Goto
  <2>3. ASSUME NEW q \in Launchers \ {p}, alone'[q]
        PROVE  LinkKnown(q)' /\ ~Active(q)'
    <3>1. alone[q] /\ ~Active(q)
      BY <2>1, <2>3
    <3> QED
      BY <2>1, <2>2, <3>1 DEF SoloInv, LinkKnown, Active
  <2>4. alone'[p] => /\ LinkKnown(p)'
                     /\ \A q \in Launchers \ {p} : ~Active(q)'
    BY <2>1, <2>2 DEF LinkKnown, Active
  <2> QED
    BY <2>3, <2>4 DEF SoloInv
<1>3. ASSUME NEW p \in Launchers, CheckLink(p) \/ DropLink(p) \/ MakeLink(p)
      PROVE  SoloInv'
  <2>1. Active(p) /\ alone' = alone
    BY <1>3 DEF CheckLink, DropLink, MakeLink, Active, Stopped, local
  <2>2. \A q \in Launchers \ {p} : pc'[q] = pc[q]
    BY <1>3 DEF CheckLink, DropLink, MakeLink, TypeOK, Goto
  <2>3. ASSUME alone[p], CheckLink(p) PROVE LinkKnown(p)'
    BY <2>3 DEF CheckLink, LinkKnown, TypeOK, Goto
  <2>4. ASSUME alone[p], DropLink(p) PROVE LinkKnown(p)'
    BY <2>4 DEF DropLink, SoloInv, LinkKnown, TypeOK, Goto
  <2>5. ASSUME alone[p], MakeLink(p) PROVE LinkKnown(p)'
    BY <2>5 DEF MakeLink, SoloInv, LinkKnown, TypeOK, Goto
  <2> QED
    BY <1>3, <2>1, <2>2, <2>3, <2>4, <2>5, SoloKept
<1>4. ASSUME NEW p \in Launchers,
             \/ Crash(p) \/ HashSource(p) \/ HashEngine(p) \/ Lookup(p)
             \/ ReadAndPatch(p) \/ OpenTruncate(p) \/ WritePart(p) \/ FinishWrite(p)
             \/ CopyMode(p) \/ IOError(p) \/ FallBackToSource(p)
             \/ LookForPrevious(p) \/ DropPartial(p) \/ ListOld(p) \/ PruneOne(p)
             \/ PruneDone(p) \/ Return(p)
      PROVE  SoloInv'
  <2>1. Active(p)
    BY <1>4 DEF Crash, HashSource, HashEngine, Lookup, ReadAndPatch, OpenTruncate,
                WritePart, FinishWrite, CopyMode, IOError, FallBackToSource,
                LookForPrevious, DropPartial, ListOld, PruneOne, PruneDone, Return,
                Active, Stopped
  <2>2. UNCHANGED <<link, alone>>
    BY <1>4 DEF Crash, HashSource, HashEngine, Lookup, ReadAndPatch, OpenTruncate,
                WritePart, FinishWrite, CopyMode, IOError, FallBackToSource,
                LookForPrevious, DropPartial, ListOld, PruneOne, PruneDone, Return,
                local
  <2>3. \/ pc' = pc /\ pc[p] \in {"write", "prune"}
        \/ \E l \in Labels \ {"drop_link", "make_link", "error"} : Goto(p, l)
    <3>1. CASE \/ Crash(p) \/ HashSource(p) \/ HashEngine(p) \/ Lookup(p)
               \/ ReadAndPatch(p) \/ OpenTruncate(p)
      BY <3>1 DEF Crash, HashSource, HashEngine, Lookup, ReadAndPatch, OpenTruncate,
                  Labels, Stopped
    <3>2. CASE WritePart(p) \/ FinishWrite(p) \/ CopyMode(p) \/ IOError(p)
      BY <3>2 DEF WritePart, FinishWrite, CopyMode, IOError, Labels, Stopped
    <3>3. CASE FallBackToSource(p) \/ LookForPrevious(p) \/ DropPartial(p)
      BY <3>3 DEF FallBackToSource, LookForPrevious, DropPartial, Labels, Stopped
    <3>4. CASE ListOld(p) \/ PruneOne(p) \/ PruneDone(p) \/ Return(p)
      BY <3>4 DEF ListOld, PruneOne, PruneDone, Return, Labels, Stopped
    <3> QED
      BY <1>4, <3>1, <3>2, <3>3, <3>4
  <2>4. LinkKnown(p)' /\ \A q \in Launchers \ {p} : pc'[q] = pc[q]
    BY <2>3 DEF LinkKnown, TypeOK, Goto
  <2> QED
    BY <2>1, <2>2, <2>4, SoloKept
<1> QED
  BY <1>1, <1>2, <1>3, <1>4 DEF Next, Step

\* A launcher that runs alone relinks without raising, whatever overlapping,
\* failing or killed launchers have made of the link before (launch.py:210-212).
THEOREM AloneNeverRaises == Spec => []SoloNeverRaises
<1>1. SoloInv => SoloNeverRaises
  BY DEF SoloInv, LinkKnown, SoloNeverRaises
<1>2. TypeOK /\ SoloInv /\ [Next]_vars => SoloInv'
  BY SoloStep
<1> QED
  BY <1>1, <1>2, SoloInit, CacheWellTyped, PTL DEF Spec
-----------------------------------------------------------------------------
(* The binary a launcher hands out that is alone.                          *)

\* What is installed now.
Now == <<source, engine, registry>>

\* No launcher writes a build whose patching is fatal.
NoFatalInv ==
    /\ \A p \in Launchers : pc[p] = "open" => outcome[built[p]] # "fatal"
    /\ \A k \in Builds : Exists(k) => outcome[k] # "fatal"

Hashed == {"lookup", "read", "open", "write", "copymode", "fatal", "missed", "drop"}
Chosen == {"drop", "list", "prune", "relink", "drop_link", "make_link", "return"}

RightChoice(v) ==
    /\ v \in Builds => Exists(v)
    /\ outcome[Now] = "all" => v = Now
    /\ outcome[Now] = "fatal" => v = SourcePath(source)

\* What the program of a launcher that has been alone so far has achieved.
Knows(p) ==
    /\ loaded[p] = [engine |-> engine, registry |-> registry]
    /\ pc[p] # "hash_source" => src[p] = SourcePath(source)
    /\ pc[p] = "hash_engine" => key[p][1] = source
    /\ pc[p] \in Hashed => key[p] = Now
    /\ pc[p] \in Hashed \ {"drop"} => versioned[p] = Now
    /\ pc[p] \in {"open", "write", "copymode"} => built[p] = Now /\ outcome[Now] # "fatal"
    /\ pc[p] = "write" => fd[p] = "open"
    /\ pc[p] \in {"copymode", "missed"} => Exists(Now)
    /\ pc[p] = "fatal" => outcome[Now] = "fatal"
    /\ pc[p] \in {"missed", "drop"} => outcome[Now] = "partial"
    /\ pc[p] = "drop" => versioned[p] # Now
    /\ pc[p] \in Chosen => RightChoice(versioned[p])
    /\ pc[p] = "prune" => versioned[p] \notin todo[p]
    /\ pc[p] = "return" => link = versioned[p]

RightInv == \A p \in Launchers : alone[p] /\ Active(p) => Knows(p)

LEMMA NoFatalInit == Init => NoFatalInv
BY DEF Init, NoFatalInv, Exists

LEMMA RightInit == Init => RightInv
BY DEF Init, RightInv, Active, Stopped

\* Files are created only under the key of the build that will be written.
LEMMA NoFatalStep ==
    TypeOK /\ FilesInv /\ KeyInv /\ NoFatalInv /\ [Next]_vars => NoFatalInv'
<1> SUFFICES ASSUME TypeOK, FilesInv, KeyInv, NoFatalInv, [Next]_vars PROVE NoFatalInv'
  OBVIOUS
<1>1. outcome' = outcome
  BY DEF Next, Step, vars, env, UpgradeSource, UpgradeEngine, ChangeProviders, MayChange,
         Start, HashSource, HashEngine, Lookup, ReadAndPatch, OpenTruncate, WritePart,
         FinishWrite, CopyMode, IOError, FallBackToSource, LookForPrevious, DropPartial,
         ListOld, PruneOne, PruneDone, CheckLink, DropLink, MakeLink, Return, Crash
<1>2. ASSUME NEW p \in Launchers, pc'[p] = "open" PROVE outcome[built'[p]] # "fatal"
  <2>1. CASE pc[p] = "open" /\ built'[p] = built[p]
    BY <2>1 DEF NoFatalInv
  <2>2. CASE ReadAndPatch(p)
    BY <1>2, <2>2 DEF ReadAndPatch, Goto, TypeOK
  <2>3. \/ ReadAndPatch(p)
        \/ pc[p] = "open" /\ built'[p] = built[p]
    <3>1. ASSUME NEW q \in Launchers, ReadAndPatch(q), q # p
          PROVE  pc[p] = "open" /\ built'[p] = built[p]
      BY <1>2, <3>1 DEF ReadAndPatch, Goto, TypeOK
    <3>2. CASE built' = built /\ pc' = pc
      BY <1>2, <3>2
    <3>3. ASSUME NEW q \in Launchers, NEW l, l # "open", Goto(q, l), built' = built
          PROVE  pc[p] = "open" /\ built'[p] = built[p]
      BY <1>2, <3>3 DEF Goto, TypeOK
    <3>4. UpgradeSource \/ UpgradeEngine \/ ChangeProviders \/ UNCHANGED vars
            => built' = built /\ pc' = pc
      BY DEF UpgradeSource, UpgradeEngine, ChangeProviders, MayChange, vars, local
    <3>5. ASSUME NEW q \in Launchers, Start(q) \/ HashSource(q) \/ HashEngine(q) \/ Lookup(q)
          PROVE  built' = built /\ \E l : l # "open" /\ Goto(q, l)
      BY <3>5 DEF Start, HashSource, HashEngine, Lookup, local
    <3>6. ASSUME NEW q \in Launchers,
                 \/ OpenTruncate(q) \/ FinishWrite(q) \/ CopyMode(q) \/ IOError(q)
                 \/ FallBackToSource(q) \/ LookForPrevious(q) \/ DropPartial(q)
          PROVE  built' = built /\ \E l : l # "open" /\ Goto(q, l)
      BY <3>6 DEF OpenTruncate, FinishWrite, CopyMode, IOError, FallBackToSource,
                  LookForPrevious, DropPartial, local
    <3>7. ASSUME NEW q \in Launchers,
                 \/ ListOld(q) \/ PruneDone(q) \/ CheckLink(q) \/ DropLink(q)
                 \/ MakeLink(q) \/ Return(q) \/ Crash(q)
          PROVE  built' = built /\ \E l : l # "open" /\ Goto(q, l)
      BY <3>7 DEF ListOld, PruneDone, CheckLink, DropLink, MakeLink, Return, Crash, local
    <3>8. ASSUME NEW q \in Launchers, WritePart(q) \/ PruneOne(q)
          PROVE  built' = built /\ pc' = pc
      BY <3>8 DEF WritePart, PruneOne, local
    <3> QED
      BY <3>1, <3>2, <3>3, <3>4, <3>5, <3>6, <3>7, <3>8 DEF Next, Step
  <2> QED
    BY <2>1, <2>2, <2>3
<1>3. ASSUME NEW k \in Builds, Exists(k)' PROVE outcome[k] # "fatal"
  <2>1. CASE Exists(k)
    BY <2>1 DEF NoFatalInv
  <2>2. ASSUME NEW p \in Launchers, OpenTruncate(p) PROVE Exists(k) \/ k = built[p]
    <3>1. pc[p] = "open" /\ \E f : cache' = [cache EXCEPT ![key[p]] = f]
      BY <2>2 DEF OpenTruncate
    <3> QED
      BY <1>3, <3>1 DEF KeyInv, KeyAhead, Exists, TypeOK
  <2>3. ASSUME NEW p \in Launchers,
               WritePart(p) \/ FinishWrite(p) \/ CopyMode(p)
        PROVE  Exists(k)
    <3>1. cache' = cache \/ (Exists(key[p]) /\ \E f : cache' = [cache EXCEPT ![key[p]] = f])
      BY <2>3 DEF WritePart, FinishWrite, CopyMode, FilesInv, OpenInv
    <3> QED
      BY <1>3, <3>1 DEF Exists, TypeOK
  <2>4. ASSUME NEW p \in Launchers, FallBackToSource(p) \/ DropPartial(p) \/ PruneOne(p)
        PROVE  Exists(k)
    <3>1. \E j \in Builds : cache' = [cache EXCEPT ![j] = NoFile]
      BY <2>4 DEF FallBackToSource, DropPartial, PruneOne, Unlink, TypeOK
    <3> QED
      BY <1>3, <3>1 DEF Exists, TypeOK
  <2>5. ASSUME NEW p \in Launchers,
               \/ Start(p) \/ HashSource(p) \/ HashEngine(p) \/ Lookup(p)
               \/ ReadAndPatch(p) \/ LookForPrevious(p) \/ ListOld(p) \/ PruneDone(p)
               \/ CheckLink(p) \/ DropLink(p) \/ MakeLink(p) \/ Return(p)
               \/ IOError(p) \/ Crash(p)
        PROVE  cache' = cache
    BY <2>5 DEF Start, HashSource, HashEngine, Lookup, ReadAndPatch, LookForPrevious,
                ListOld, PruneDone, CheckLink, DropLink, MakeLink, Return, IOError, Crash
  <2>6. UpgradeSource \/ UpgradeEngine \/ ChangeProviders \/ UNCHANGED vars => cache' = cache
    BY DEF UpgradeSource, UpgradeEngine, ChangeProviders, MayChange, vars
  <2>7. ASSUME NEW p \in Launchers, OpenTruncate(p), k = built[p] PROVE outcome[k] # "fatal"
    BY <2>7 DEF OpenTruncate, NoFatalInv
  <2> QED
    BY <1>3, <2>1, <2>2, <2>3, <2>4, <2>5, <2>6, <2>7 DEF Next, Step, Exists
<1> QED
  BY <1>1, <1>2, <1>3 DEF NoFatalInv, Exists

\* A step of a running launcher: one that is alone and running is that one.
LEMMA RightKept ==
    ASSUME SoloInv, RightInv, NEW p \in Launchers, Active(p), alone' = alone,
           \A q \in Launchers \ {p} : pc'[q] = pc[q],
           alone[p] /\ Knows(p) /\ Active(p)' => Knows(p)'
    PROVE  RightInv'
<1> SUFFICES ASSUME NEW q \in Launchers, alone[q], Active(q)' PROVE Knows(q)'
  BY DEF RightInv
<1>1. CASE q = p
  BY <1>1 DEF RightInv
<1>2. CASE q # p
  BY <1>2 DEF SoloInv, Active
<1> QED
  BY <1>1, <1>2

LEMMA RightHashed ==
    ASSUME TypeOK, FilesInv, SoloInv, NoFatalInv, RightInv, NEW p \in Launchers,
           HashSource(p) \/ HashEngine(p) \/ Lookup(p) \/ ReadAndPatch(p)
    PROVE  RightInv'
<1>1. Active(p) /\ UNCHANGED <<source, engine, registry, outcome, cache, loaded, alone>>
  BY DEF HashSource, HashEngine, Lookup, ReadAndPatch, env, local, Active, Stopped
<1>2. \A q \in Launchers \ {p} : pc'[q] = pc[q]
  BY DEF HashSource, HashEngine, Lookup, ReadAndPatch, Goto, TypeOK
<1>3. /\ <<source, engine, registry>> \in Builds
      /\ key[p] \in Builds /\ key[p] = <<key[p][1], key[p][2], key[p][3]>>
  BY DEF TypeOK, Builds
<1>4. ASSUME Knows(p), HashSource(p) PROVE Knows(p)'
  <2>1. /\ src'[p] = SourcePath(source) /\ key'[p][1] = source
        /\ pc'[p] = "hash_engine"
    BY <1>4 DEF HashSource, Goto, TypeOK
  <2> QED
    BY <1>1, <1>4, <2>1 DEF Knows, Hashed, Chosen
<1>5. ASSUME Knows(p), HashEngine(p) PROVE Knows(p)'
  <2>1. /\ src' = src /\ pc'[p] = "lookup" /\ pc[p] = "hash_engine"
        /\ key'[p] = <<key[p][1], engine, loaded[p].registry>>
        /\ versioned'[p] = key'[p]
    BY <1>5 DEF HashEngine, Goto, TypeOK
  <2>2. key'[p] = Now
    BY <1>5, <2>1 DEF Knows, Now
  <2> QED
    BY <1>1, <1>5, <2>1, <2>2 DEF Knows, Hashed, Chosen, Now
<1>6. ASSUME Knows(p), Lookup(p) PROVE Knows(p)'
  <2>1. /\ UNCHANGED <<src, key, versioned>>
        /\ pc[p] = "lookup" /\ key[p] = Now /\ versioned[p] = Now
        /\ pc'[p] = IF Exists(key[p]) THEN "relink" ELSE "read"
    BY <1>6 DEF Lookup, Goto, TypeOK, local, Knows, Hashed
  <2>2. Exists(key[p]) => RightChoice(versioned[p])
    BY <1>3, <2>1 DEF RightChoice, NoFatalInv, Now
  <2> QED
    BY <1>1, <1>6, <2>1, <2>2 DEF Knows, Hashed, Chosen, Now, RightChoice, Exists
<1>7. ASSUME Knows(p), ReadAndPatch(p) PROVE Knows(p)'
  <2>1. /\ UNCHANGED <<src, key, versioned>> /\ pc[p] = "read"
        /\ built'[p] = <<Contents(src[p]), loaded[p].engine, loaded[p].registry>>
        /\ pc'[p] = IF outcome[built'[p]] = "fatal" THEN "fatal" ELSE "open"
    BY <1>7 DEF ReadAndPatch, Goto, TypeOK
  <2>2. Contents(src[p]) = source
    BY <1>7, <2>1 DEF Knows, Contents, SourcePath
  <2>3. built'[p] = Now
    BY <1>7, <2>1, <2>2 DEF Knows, Now
  <2> QED
    BY <1>1, <1>7, <2>1, <2>3 DEF Knows, Hashed, Chosen, Now
<1> QED
  BY <1>1, <1>2, <1>4, <1>5, <1>6, <1>7, RightKept

LEMMA RightWritten ==
    ASSUME ~Faults, TypeOK, FilesInv, SoloInv, RightInv, NEW p \in Launchers,
           \/ OpenTruncate(p) \/ WritePart(p) \/ FinishWrite(p) \/ CopyMode(p)
           \/ IOError(p)
    PROVE  RightInv'
<1>1. Active(p) /\ UNCHANGED <<source, engine, registry, outcome, link, loaded, alone,
                               src, key, versioned, built, todo>>
  BY DEF OpenTruncate, WritePart, FinishWrite, CopyMode, IOError, env, local, Active, Stopped
<1>2. \A q \in Launchers \ {p} : pc'[q] = pc[q]
  BY DEF OpenTruncate, WritePart, FinishWrite, CopyMode, IOError, Goto, TypeOK, local
<1>3. key[p] \in Builds
  BY DEF TypeOK
<1>4. ASSUME Knows(p), OpenTruncate(p) PROVE Knows(p)'
  <2>1. pc[p] = "open" /\ pc'[p] = "write" /\ fd'[p] = "open"
    BY <1>4 DEF OpenTruncate, Goto, TypeOK
  <2> QED
    BY <1>1, <1>4, <2>1 DEF Knows, Hashed, Chosen, Now
<1>5. ASSUME Knows(p), WritePart(p) PROVE Knows(p)'
  <2>1. pc[p] = "write" /\ UNCHANGED <<pc, fd>>
    BY <1>5 DEF WritePart, local
  <2> QED
    BY <1>1, <1>5, <2>1 DEF Knows, Hashed, Chosen, Now
<1>6. ASSUME Knows(p), FinishWrite(p) PROVE Knows(p)'
  <2>1. pc[p] = "write" /\ pc'[p] = "copymode"
    BY <1>6 DEF FinishWrite, Goto, TypeOK
  <2>2. fd[p] = "open" /\ key[p] = Now
    BY <1>6, <2>1 DEF Knows, Hashed
  <2>3. cache[key[p]] \in Files /\ built[p] \in Builds
    BY <2>2 DEF FilesInv, OpenInv, Exists, TypeOK
  <2>4. cache'[key[p]] \in Files
    <3>1. cache'[key[p]] = [cache[key[p]] EXCEPT !.data = built[p]]
      BY <1>3, <1>6, <2>2 DEF FinishWrite, TypeOK
    <3> QED
      BY <2>3, <3>1 DEF Files
  <2>5. Exists(Now)'
    BY <1>1, <2>2, <2>4, PathsAssumption DEF Exists, Now
  <2> QED
    BY <1>1, <1>6, <2>1, <2>5 DEF Knows, Hashed, Chosen, Now
<1>7. ASSUME Knows(p), CopyMode(p) PROVE Knows(p)'
  <2>1. /\ pc[p] = "copymode" /\ key[p] = Now /\ versioned[p] = Now /\ built[p] = Now
        /\ outcome[Now] # "fatal" /\ Exists(key[p])
    BY <1>7 DEF CopyMode, Knows, Hashed
  <2>2. pc'[p] = IF outcome[Now] = "partial" THEN "missed" ELSE "list"
    BY <1>7, <2>1 DEF CopyMode, Goto, TypeOK
  <2>3. cache'[key[p]] = [cache[key[p]] EXCEPT !.exec = TRUE] /\ cache[key[p]] \in Files
    BY <1>3, <1>7, <2>1 DEF CopyMode, TypeOK, Exists
  <2>4. Exists(Now)'
    BY <1>1, <2>1, <2>3, PathsAssumption DEF Exists, Now, Files
  <2>5. RightChoice(versioned[p])'
    BY <1>1, <2>1, <2>4 DEF RightChoice, Now
  <2> QED
    BY <1>1, <1>7, <2>1, <2>2, <2>4, <2>5 DEF Knows, Hashed, Chosen, Now
<1>8. ASSUME IOError(p) PROVE FALSE
  BY <1>8 DEF IOError
<1> QED
  BY <1>1, <1>2, <1>4, <1>5, <1>6, <1>7, <1>8, RightKept

LEMMA RightDecided ==
    ASSUME TypeOK, SoloInv, RightInv, NEW p \in Launchers,
           FallBackToSource(p) \/ LookForPrevious(p) \/ DropPartial(p)
    PROVE  RightInv'
<1>1. Active(p) /\ UNCHANGED <<source, engine, registry, outcome, link, loaded, alone,
                               src, key>>
  BY DEF FallBackToSource, LookForPrevious, DropPartial, env, local, Active, Stopped
<1>2. \A q \in Launchers \ {p} : pc'[q] = pc[q]
  BY DEF FallBackToSource, LookForPrevious, DropPartial, Goto, TypeOK
<1>3. ASSUME Knows(p), FallBackToSource(p) PROVE Knows(p)'
  <2>1. /\ pc[p] = "fatal" /\ pc'[p] = "relink" /\ versioned'[p] = src[p]
        /\ outcome[Now] = "fatal" /\ src[p] = SourcePath(source)
    BY <1>3 DEF FallBackToSource, Goto, TypeOK, Knows
  <2>2. src[p] \notin Builds
    BY PathsAssumption DEF TypeOK
  <2>3. RightChoice(versioned[p])'
    BY <1>1, <2>1, <2>2 DEF RightChoice, Now
  <2> QED
    BY <1>1, <1>3, <2>1, <2>3 DEF Knows, Hashed, Chosen, Now
<1>4. ASSUME Knows(p), LookForPrevious(p) PROVE Knows(p)'
  <2>1. /\ pc[p] = "missed" /\ outcome[Now] = "partial" /\ Exists(Now)
        /\ versioned[p] = Now /\ key[p] = Now /\ cache' = cache
    BY <1>4 DEF LookForPrevious, Knows, Hashed
  <2>2. CASE PrevExists /\ link # versioned[p]
    <3>1. versioned'[p] = link /\ pc'[p] = "drop"
      BY <1>4, <2>2 DEF LookForPrevious, Goto, TypeOK
    <3>2. link \in Builds => Exists(link)
      BY <2>2, PathsAssumption DEF PrevExists
    <3>3. RightChoice(versioned[p])'
      BY <1>1, <2>1, <3>1, <3>2 DEF RightChoice, Now, Exists
    <3> QED
      BY <1>1, <1>4, <2>1, <2>2, <3>1, <3>3 DEF Knows, Hashed, Chosen, Now
  <2>3. CASE ~(PrevExists /\ link # versioned[p])
    <3>1. versioned' = versioned /\ pc'[p] = "list"
      BY <1>4, <2>3 DEF LookForPrevious, Goto, TypeOK
    <3>2. RightChoice(versioned[p])'
      BY <1>1, <2>1, <3>1 DEF RightChoice, Now, Exists
    <3> QED
      BY <1>1, <1>4, <2>1, <3>1, <3>2 DEF Knows, Hashed, Chosen, Now
  <2> QED
    BY <2>2, <2>3
<1>5. ASSUME Knows(p), DropPartial(p) PROVE Knows(p)'
  <2>1. /\ pc[p] = "drop" /\ key[p] = Now /\ versioned[p] # Now
        /\ RightChoice(versioned[p]) /\ versioned' = versioned
        /\ pc'[p] \in {"relink", "list"}
        /\ cache' = [cache EXCEPT ![key[p]] = NoFile]
    BY <1>5 DEF DropPartial, Unlink, Goto, TypeOK, Knows, Hashed, Chosen
  <2>2. RightChoice(versioned[p])'
    BY <1>1, <2>1 DEF RightChoice, Now, Exists, TypeOK
  <2> QED
    BY <1>1, <1>5, <2>1, <2>2 DEF Knows, Hashed, Chosen, Now
<1> QED
  BY <1>1, <1>2, <1>3, <1>4, <1>5, RightKept

\* Pruning spares what was chosen, and relinking makes the link lead there.
LEMMA RightChosen ==
    ASSUME TypeOK, SoloInv, RightInv, NEW p \in Launchers,
           \/ ListOld(p) \/ PruneOne(p) \/ PruneDone(p)
           \/ CheckLink(p) \/ DropLink(p) \/ MakeLink(p) \/ Return(p)
    PROVE  RightInv'
<1>1. /\ Active(p)
      /\ UNCHANGED <<source, engine, registry, outcome, loaded, alone, src, key, versioned>>
  BY DEF ListOld, PruneOne, PruneDone, CheckLink, DropLink, MakeLink, Return, env, local,
         Active, Stopped
<1>2. \A q \in Launchers \ {p} : pc'[q] = pc[q]
  BY DEF ListOld, PruneOne, PruneDone, CheckLink, DropLink, MakeLink, Return, Goto, TypeOK
<1>3. pc[p] \in Chosen \ {"drop"} /\ (Knows(p) => RightChoice(versioned[p]))
  BY DEF ListOld, PruneOne, PruneDone, CheckLink, DropLink, MakeLink, Return, Knows, Chosen
<1>4. ASSUME RightChoice(versioned[p]), cache' = cache PROVE RightChoice(versioned[p])'
  BY <1>1, <1>4 DEF RightChoice, Now, Exists
<1>5. ASSUME Knows(p), RightChoice(versioned[p])', pc'[p] \in Chosen \ {"drop"},
             pc'[p] = "prune" => versioned[p] \notin todo'[p],
             pc'[p] = "return" => link' = versioned[p]
      PROVE  Knows(p)'
  BY <1>1, <1>3, <1>5 DEF Knows, Hashed, Chosen
<1>6. ASSUME Knows(p), ListOld(p) PROVE Knows(p)'
  <2>1. pc'[p] = "prune" /\ versioned[p] \notin todo'[p] /\ cache' = cache
    BY <1>6 DEF ListOld, Goto, TypeOK
  <2> QED
    BY <1>3, <1>4, <1>5, <1>6, <2>1 DEF Chosen
<1>7. ASSUME Knows(p), PruneOne(p) PROVE Knows(p)'
  <2>1. pc[p] = "prune" /\ pc' = pc /\ versioned[p] \notin todo[p]
    BY <1>7 DEF PruneOne, Knows
  <2>2. PICK k \in todo[p] : /\ cache' = [cache EXCEPT ![k] = NoFile]
                             /\ todo' = [todo EXCEPT ![p] = @ \ {k}]
    BY <1>7 DEF PruneOne, Unlink
  <2>3. versioned[p] # k /\ versioned[p] \notin todo'[p]
    BY <2>1, <2>2 DEF TypeOK
  <2>4. RightChoice(versioned[p])'
    BY <1>1, <1>3, <1>7, <2>2, <2>3 DEF RightChoice, Now, Exists, TypeOK
  <2> QED
    BY <1>5, <1>7, <2>1, <2>3, <2>4 DEF Chosen
<1>8. ASSUME Knows(p), PruneDone(p) \/ CheckLink(p) \/ DropLink(p) \/ MakeLink(p),
             pc'[p] # "error"
      PROVE  Knows(p)'
  <2>1. /\ cache' = cache
        /\ pc'[p] \in {"relink", "make_link", "drop_link", "return"}
        /\ pc'[p] = "return" => link' = versioned[p]
    BY <1>8 DEF PruneDone, CheckLink, DropLink, MakeLink, Goto, TypeOK
  <2> QED
    BY <1>3, <1>4, <1>5, <1>8, <2>1 DEF Chosen
<1>9. ASSUME Return(p) PROVE ~Active(p)'
  BY <1>9 DEF Return, Goto, TypeOK, Active, Stopped
<1>10. pc'[p] = "error" => ~Active(p)'
  BY DEF Active, Stopped
<1> QED
  BY <1>1, <1>2, <1>6, <1>7, <1>8, <1>9, <1>10, RightKept

LEMMA RightStarted ==
    ASSUME TypeOK, SoloInv, RightInv, NEW p \in Launchers, Start(p) \/ Crash(p)
    PROVE  RightInv'
<1>1. UNCHANGED <<source, engine, registry, outcome, cache, link, src, key, versioned,
                  built, todo>>
  BY DEF Start, Crash, env
<1>2. ASSUME Start(p) PROVE RightInv'
  <2> SUFFICES ASSUME NEW q \in Launchers, alone'[q], Active(q)' PROVE Knows(q)'
    BY DEF RightInv
  <2>1. /\ alone' = [o \in Launchers |->
                        IF o = p THEN \A r \in Launchers \ {p} : ~Active(r)
                        ELSE alone[o] /\ ~Active(o)]
        /\ pc' = [pc EXCEPT ![p] = "hash_source"] \/ pc' = [pc EXCEPT ![p] = "done"]
        /\ loaded' = [loaded EXCEPT ![p] = [engine |-> engine, registry |-> registry]]
    BY <1>2 DEF Start, Goto
  <2>2. q = p
    BY <2>1 DEF Active, TypeOK
  <2>3. pc'[q] = "hash_source" /\ loaded'[q] = [engine |-> engine, registry |-> registry]
    BY <2>1, <2>2 DEF Active, Stopped, TypeOK
  <2> QED
    BY <1>1, <2>3 DEF Knows, Hashed, Chosen
<1>3. ASSUME Crash(p) PROVE RightInv'
  <2>1. /\ Active(p) /\ alone' = alone /\ ~Active(p)'
        /\ \A q \in Launchers \ {p} : pc'[q] = pc[q]
    BY <1>3 DEF Crash, Goto, TypeOK, Active, Stopped
  <2> QED
    BY <2>1, RightKept
<1> QED
  BY <1>2, <1>3

LEMMA RightStep ==
    ASSUME QuietChanges, ~Faults
    PROVE  TypeOK /\ FilesInv /\ SoloInv /\ NoFatalInv /\ RightInv /\ [Next]_vars
             => RightInv'
<1> SUFFICES ASSUME TypeOK, FilesInv, SoloInv, NoFatalInv, RightInv, [Next]_vars
             PROVE  RightInv'
  OBVIOUS
<1>1. CASE UpgradeSource \/ UpgradeEngine \/ ChangeProviders
  BY <1>1 DEF UpgradeSource, UpgradeEngine, ChangeProviders, MayChange, RightInv, Active
<1>2. CASE UNCHANGED vars
  BY <1>2 DEF vars, env, local, RightInv, Knows, RightChoice, Now, Exists, Active
<1> QED
  BY <1>1, <1>2, RightStarted, RightHashed, RightWritten, RightDecided, RightChosen
     DEF Next, Step

\* A launcher that meets no other hands out the right binary, whatever other
\* launchers, overlapping, killed or of another installation, have left in the
\* cache before it.  What is installed changes between runs only, and no
\* system call fails: one that does makes it hand out the source
\* (launch.py:171-219).
THEOREM AloneRunsRightBinary ==
    ASSUME QuietChanges, ~Faults
    PROVE  Spec => []SoloRunsRightBinary
<1>1. UnfinishedHasWriter /\ SoloInv /\ RightInv => SoloRunsRightBinary
  <2> SUFFICES ASSUME UnfinishedHasWriter, SoloInv, RightInv,
                      NEW p \in Launchers, pc[p] = "return", alone[p]
               PROVE  /\ link = versioned[p]
                      /\ link \in Builds => Complete(link) \/ link \in abandoned
                      /\ outcome[Now] = "all" => link = Now
                      /\ outcome[Now] = "fatal" => link = SourcePath(source)
    BY DEF SoloRunsRightBinary, Now
  <2>1. Active(p) /\ link = versioned[p] /\ RightChoice(link)
    BY DEF RightInv, Knows, Chosen, Active, Stopped
  <2>2. \A q \in Launchers : pc[q] \notin {"write", "copymode", "fatal"}
    BY <2>1 DEF SoloInv, Active, Stopped
  <2> QED
    BY <2>1, <2>2 DEF RightChoice, UnfinishedHasWriter
<1>2. Steady
  BY DEF Steady
<1>3. Init => KeyInv /\ SoloInv /\ NoFatalInv /\ RightInv
  BY KeyInit, SoloInit, NoFatalInit, RightInit
<1>4. TypeOK /\ FilesInv /\ TypeOK' /\ KeyInv /\ SoloInv /\ NoFatalInv /\ RightInv /\ [Next]_vars
        => (KeyInv /\ SoloInv /\ NoFatalInv /\ RightInv)'
  BY <1>2, KeyStep, SoloStep, NoFatalStep, RightStep
<1>5. Spec => [](TypeOK /\ FilesInv)
  BY CacheInductive
<1>6. Spec => []UnfinishedHasWriter
  BY UnfinishedFilesHaveWriters
<1> QED
  BY <1>1, <1>3, <1>4, <1>5, <1>6, PTL DEF Spec
=============================================================================
