------------------------------ MODULE MCLaunch ------------------------------
(* Instances of the launch cache.                                          *)
EXTENDS LaunchProperties, TLC

CONSTANTS p1, p2, s1, s2, e1, e2, r0, r1

Symmetric == Permutations(Launchers) \cup Permutations(Sources)

\* A run with no provider misses no patch.
NoneMissed(b, result) ==
    IF b[3] = EmptyRegistry /\ result = "partial" THEN "all" ELSE result

\* One verdict for all builds of a source.
BySource ==
    {[b \in Builds |-> NoneMissed(b, v[b[1]])] : v \in [Sources -> Results]}
=============================================================================
