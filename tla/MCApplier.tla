------------------------------ MODULE MCApplier ------------------------------
(***************************************************************************)
(* Instances of the applier: which images and which plans each run takes.  *)
(***************************************************************************)
EXTENDS SampleImages

AllImages == {ElfTableLast, ElfTableFirst, MachOTight, MachORoomy, MachODirty}
ElfTableLastOnly == {ElfTableLast}
ElfArgvFirstOnly == {ElfArgvFirst}

AnchoredEach(b, tag) == AnchoredEdits(b, TextRefs(b), {1, 2}, {0, 1, 2, 4}, tag)

\* Edits that validate or the splice must refuse: no region, another region,
\* a region that is escaped, the wrong old text.
Refused(b) ==
    LET e == EditAt(b, ModuleRef(0, "contents"), 1, 1, FreshText(3, 2), NoRef)
    IN {e,
        [e EXCEPT !.region = ModuleRef(1, "contents")],
        [e EXCEPT !.region = ModuleRef(0, "sourcemap")],
        [e EXCEPT !.region = ModuleRef(7, "contents")],
        [e EXCEPT !.region = ModuleRef(0, "contents"), !.new = <<41, 130>>],
        [e EXCEPT !.region = ModuleRef(0, "contents"), !.old = <<99>>]}

\* Plans of two providers, in either order of emission.
PairPlans(b) ==
    {<<>>} \cup {<<e>> : e \in AnchoredEach(b, 1) \cup Refused(b)}
           \cup {<<e, f>> : e \in AnchoredEach(b, 1), f \in AnchoredEach(b, 2)}
           \cup {<<e, f>> : e \in AnchoredEach(b, 1), f \in Refused(b)}

\* Plans of three edits in the two source texts.
Sources == {ModuleRef(0, "contents"), ModuleRef(1, "contents")}
TriplePlans(b) ==
    {<<e, f, g>> : e \in AnchoredEdits(b, Sources, {1, 2}, {1, 3}, 1),
                   f \in AnchoredEdits(b, Sources, {1, 2}, {1, 3}, 2),
                   g \in AnchoredEdits(b, Sources, {1, 2}, {0, 2}, 3)}

\* What the documentation describes: pairs on every image, triples on one.
AnchoredPlans(b) ==
    PairPlans(b) \cup IF b = ElfTableLast THEN TriplePlans(b) ELSE {}

\* They are what the theorems on patched images assume.
ASSUME AllAreDescribed == Images = AllImages => Described

-----------------------------------------------------------------------------
(* Plans the code accepts and AnchoredPlans leaves out.                    *)

Single(edits_of_b) == {<<e>> : e \in edits_of_b}

\* Growing compile_exec_argv where it lies in front of the modules table.
ArgvPlans(b) == Single(AnchoredEdits(b, {ArgvRef}, {1}, {2, 3}, 1))

\* Pure insertions: nothing is replaced.
InsertionPlans(b) ==
    Single({EditAt(b, r, n, 0, FreshText(1, w), r) :
                r \in Sources, n \in 0..2, w \in {1, 2}})

\* Same-length edits that begin between two source texts or in the bytecode of
\* the first module, and run on into the second module's source.
StraddlePlans(b) ==
    Single({EditAt(b, ModuleRef(0, "contents"), n, 2, FreshText(1, 2), NoRef) :
                n \in 2..4})
=============================================================================
