------------------------------ MODULE PatchedRun ------------------------------
(* The output of a whole run, read the way Bun would.                      *)
EXTENDS RunProperties, PatchedImage

\* Every text of the file a run leaves behind with status 0 or 2 is the text of
\* the input with the edits of exactly the patches that matched, in whatever
\* order the providers were loaded; nothing of a miscounted patch is in it
\* (cli.py:124-168).
OutputHasMatchedPatches ==
    Ended /\ command = "patch" /\ exit \in {0, 2} =>
        /\ PlanEdits = {Emitted(x) : x \in Emissions}
        /\ Parses(dst.cells)
        /\ LET out == Parse(dst.cells)
           IN \A r \in SourceRefs \cup {ArgvRef} :
                Text(dst.cells, out, r) = Rewritten(r)

\* What the property is about: images as bun and a linker lay them out, and
\* patches that find text in the regions of one.  What validate refuses
\* anyway may lie anywhere.
FoundIn(b) ==
    Parses(b) =>
        /\ WellPlaced(b)
        /\ \A p \in Patches :
              LET found == Discover(p, b, Parse(b))
              IN \A n \in 1..Len(found) :
                    RegionAccepted(Parse(b), found[n]) => Anchored(Parse(b), found[n])

FoundAsDescribed == \A b \in Images : FoundIn(b)
=============================================================================
