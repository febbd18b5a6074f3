----------------------------- MODULE MCFindBinary -----------------------------
(* Instances of the search for the binary.                                 *)
EXTENDS FindProperties

\* As 1.0.9, 1.0.10 and 1.0.11, whose names sort 1.0.10, 1.0.11, 1.0.9.
ThreeVersions == 1..3
RankOfName == <<3, 1, 2>>

AllEnvironments == ThreeVersions \cup {LocalPath, CachePath, GonePath, Unset}

AllSearchPaths ==
    {<<>>, <<LinkPath>>, <<ScriptPath>>, <<LinkPath, ScriptPath>>,
     <<ScriptPath, LinkPath>>}
=============================================================================
