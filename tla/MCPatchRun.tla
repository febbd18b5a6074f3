------------------------------ MODULE MCPatchRun ------------------------------
(***************************************************************************)
(* Instances of a patch run: one image of each container, one that is no   *)
(* binary, and providers whose anchors occur never, once, several times,   *)
(* overlapping, across a region's end and in the framing.                  *)
(***************************************************************************)
EXTENDS PatchedRun, SampleImages, Discovery

\* Values from 81 on occur nowhere but in the texts.
RunModules == <<Chunk(ModuleRef(0, "name"), <<80>>),
                Chunk(ModuleRef(0, "contents"), <<81, 81, 81, 82>>),
                Gap(<<89>>),
                Chunk(ModuleRef(0, "bytecode"), <<90>>),
                Chunk(ModuleRef(1, "contents"), <<83, 82>>),
                Chunk(ModuleRef(1, "bytecode"), <<91>>)>>
RunArgv == <<Chunk(ArgvRef, <<85, 86>>)>>
RunPayload == PayloadOf(RunModules, RunArgv, Encodings)

RunElf == ElfImage(RunPayload, TRUE)
RunMachO == MachOImage(RunPayload, Fill(PAGE + ToPageEnd(RunPayload), 9))
NoBinary == <<35, 33>>

\* The Mach-O image with one cell changed: a table longer than sizeofcmds, a
\* segment with more sections than fit, a symbol table without its fields, a
\* command nobody knows.
SoundImages == {RunElf, RunMachO}
BunCommand == MACH_HEADER_SIZE + SEGMENT_COMMAND_SIZE
Symtab == BunCommand + 3 * SEGMENT_COMMAND_SIZE + 3 * SECTION_SIZE
BrokenImages ==
    {[RunMachO EXCEPT ![4] = @ - 1],
     [RunMachO EXCEPT ![BunCommand + 8] = @ + 1],
     [RunMachO EXCEPT ![Symtab + 2] = 3],
     [RunMachO EXCEPT ![Symtab + 8] = 705]}

RunImages == SoundImages \cup BrokenImages \cup {NoBinary}

\* An image whose load commands contradict one another or are not all known is
\* refused, and nothing is written (macho.py:214-281).
BrokenImagesRefused ==
    Ended /\ command = "patch" /\ dst # Untouched => image \in SoundImages

NoPlans(b) == {}

-----------------------------------------------------------------------------

Patch(key, anchor, new, counted, lo, hi) ==
    [key |-> key, anchor |-> anchor, new |-> new,
     counted |-> counted, lo |-> lo, hi |-> hi, raises |-> FALSE]

Uncounted(key, anchor, new) == Patch(key, anchor, new, FALSE, 0, 0)
Exactly(n, key, anchor, new) == Patch(key, anchor, new, TRUE, n, n)

Once == <<83>>
Twice == <<82>>
Thrice == <<81>>
Overlapping == <<81, 81>>
Escaping == <<82, 89>>
InArgv == <<85>>
Absent == <<84>>

\* Every expectation around the three occurrences of one anchor.
Counted ==
    {Uncounted(<<1>>, Thrice, <<101>>)}
    \cup {Patch(<<1>>, Thrice, <<101>>, TRUE, lo, hi) :
             lo \in {0, 2, 3, 4}, hi \in {UNBOUNDED, 2, 3, 4}}

AnyThrice == Uncounted(<<1>>, Thrice, <<101>>)
NotTwice == Exactly(2, <<1>>, Thrice, <<101>>)
GrowOnce == Exactly(1, <<2>>, Once, <<102, 103>>)
CutTwice == Exactly(2, <<2>>, Twice, <<>>)
Silent == Exactly(0, <<3>>, Absent, <<110>>)

Others ==
    {GrowOnce, CutTwice, Silent,
     Exactly(2, <<1, 2>>, Once, <<104>>),
     Uncounted(<<3>>, Twice, <<105>>),
     Uncounted(<<3>>, Overlapping, <<106, 107>>),
     Exactly(1, <<3>>, Escaping, <<108>>),
     Uncounted(<<3>>, InArgv, <<109>>),
     Patch(<<1, NEWLINE, 2>>, Once, <<111>>, TRUE, 1, UNBOUNDED),
     [Uncounted(<<3>>, Absent, <<112>>) EXCEPT !.raises = TRUE]}

RunPatches ==
    Counted \cup Others \cup {AnyThrice, NotTwice, GrowOnce, CutTwice, Silent}

\* The images and patches of these runs are as the theorem about outputs
\* takes them to be (no other image is parsed, see BrokenImagesRefused).
ASSUME PatchesAreDescribed == \A b \in SoundImages : Parses(b) /\ FoundIn(b)

EP(name, patches) == [name |-> name, loads |-> TRUE, patches |-> patches]
Broken(name) == [name |-> name, loads |-> FALSE, patches |-> <<>>]

\* Registries of one package, of two in either order of names and of
\* installation, of two that chose the same name, and with a broken package.
RunEnvironments ==
    {<<>>, <<Broken(1)>>}
    \cup {<<EP(1, <<p>>)>> : p \in Counted \cup Others}
    \cup {<<EP(1, <<p, q>>)>> : p \in Counted, q \in {GrowOnce, CutTwice, Silent}}
    \cup {<<EP(m, <<p>>), EP(3 - m, <<q>>)>> :
             p, q \in {AnyThrice, NotTwice, CutTwice} \cup Others, m \in {1, 2}}
    \cup {<<EP(1, <<p>>), EP(1, <<q>>)>> : p, q \in {AnyThrice, GrowOnce, CutTwice}}
    \cup {<<EP(2, <<p>>), EP(1, <<q, r>>)>> :
             p \in {AnyThrice, NotTwice}, q, r \in {GrowOnce, CutTwice, Silent}}
    \cup {<<EP(m, <<GrowOnce>>), Broken(n)>> : m, n \in {1, 2}}
=============================================================================
