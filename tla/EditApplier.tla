---------------------------- MODULE EditApplier ----------------------------
(***************************************************************************)
(* Validating an edit plan and applying it to the image:                   *)
(* EditPlan.validate (cc_patcher/edits.py) followed by EditApplier.apply   *)
(* (cc_patcher/context.py), one action per loop iteration of the two       *)
(* validation and splicing loops and one per rewriting step after them.    *)
(* apply validates once more what run_patcher has validated: the same plan *)
(* against the same context, so the same answer, and here that is one      *)
(* validation.                                                             *)
(*                                                                         *)
(* ctx is the DiscoveryContext: it is parsed from the image before the     *)
(* first splice and never changes, so every offset in it, and in the       *)
(* edits, is an offset of the original image.                              *)
(***************************************************************************)
EXTENDS Edits, ElfLayout, MachOLayout

CONSTANTS
    Images,      \* the input binaries, each a sequence of cells
    Plans(_)     \* the edit plans the providers may assemble for an image

VARIABLES
    image,       \* the input binary (never modified: run_patcher's source)
    ctx,         \* DiscoveryContext of the image
    edits,       \* EditPlan.edits, in registry order
    sorted,      \* sorted_edits of validate, and the order of the growables
    pc,
    i,           \* index of the loop pc is in
    buf          \* the bytearray being spliced

vars == <<image, ctx, edits, sorted, pc, i, buf>>

-----------------------------------------------------------------------------
(* context.parse: sniff the container, find the payload, index it.         *)

Layout(b) == IF Cell(b, 0) = ELF_MAGIC THEN ElfParse(b) ELSE MachOParse(b)

BunSection(b) ==
    IF Cell(b, 0) = ELF_MAGIC THEN ElfBunSection(ElfParse(b))
    ELSE MachOBunSection(MachOParse(b))

Parses(b) ==
    /\ \/ Cell(b, 0) = ELF_MAGIC /\ ElfReadable(b) /\ ElfBunIndexes(ElfParse(b)) # {}
       \/ Cell(b, 0) = MACHO_MAGIC_64 /\ MachOParses(b)
    /\ Located(b, BunSection(b))

Parse(b) ==
    LET bun == Locate(b, BunSection(b))
    IN [is_elf |-> Cell(b, 0) = ELF_MAGIC, layout |-> Layout(b),
        bun |-> bun, sp |-> SpIndex(bun)]

ASSUME ImagesAssumption == Images \subseteq Seq(Int)
ASSUME PlansAssumption == \A b \in Images : Plans(b) \subseteq Seq(Edit)

-----------------------------------------------------------------------------

N == Len(edits)

\* The orders sorted() may leave a list in: stable, ascending by offset.
SortedOrders(list) ==
    {p \in [1..Len(list) -> 1..Len(list)] :
        /\ \A k \in 1..Len(list) : \E j \in 1..Len(list) : p[j] = k
        /\ \A j, k \in 1..Len(list) : j < k =>
              \/ list[p[j]].offset < list[p[k]].offset
              \/ list[p[j]].offset = list[p[k]].offset /\ p[j] < p[k]}

GrowableEdits == {e \in {edits[k] : k \in 1..N} : Growable(e)}

TotalDelta == MapThenSumSet(Delta, GrowableEdits)

\* Mutant: text that starts right behind a growable does not move.
ShiftPastGap(at) == MapThenSumSet(Delta, {e \in GrowableEdits : EndOf(e) < at})

\* _shift_past: how far the growables before the file offset at move it.
ShiftPast(at) == MapThenSumSet(Delta, {e \in GrowableEdits : EndOf(e) <= at})

\* Mutant: only growables count as touching a module.
TouchedByGrowables ==
    {r.index : r \in {ref \in {ContainingStringPointer(ctx, e.offset) :
                                    e \in GrowableEdits} : ref.kind = "module"}}

\* touched_modules of apply
TouchedModules ==
    {r.index : r \in {ref \in {ContainingStringPointer(ctx, edits[k].offset) :
                                    k \in 1..N} : ref.kind = "module"}}

\* Mutant: as many bytes are replaced as there are new ones.
SpliceOverNew(b, e) ==
    SubSeq(b, 1, e.offset) \o e.new \o SubSeq(b, e.offset + Len(e.new) + 1, Len(b))

\* buf[offset:offset + len(old)] = new
Splice(b, e) == SubSeq(b, 1, e.offset) \o e.new \o SubSeq(b, EndOf(e) + 1, Len(b))

Matches(b, e) ==
    /\ EndOf(e) <= Len(b)
    /\ \A k \in 1..Len(e.old) : b[e.offset + k] = e.old[k]

\* run_patcher up to validate: an image parse refuses never gets this far.
Init ==
    /\ image \in {b \in Images : Parses(b)}
    /\ ctx = Parse(image)
    /\ edits \in Plans(image)
    /\ sorted = <<>>
    /\ pc = "sort"
    /\ i = 1
    /\ buf = image

-----------------------------------------------------------------------------
(* EditPlan.validate                                                       *)

Sort ==
    /\ pc = "sort"
    /\ \E p \in SortedOrders(edits) : sorted' = [k \in 1..N |-> edits[p[k]]]
    /\ pc' = "overlaps"
    /\ i' = 1
    /\ UNCHANGED <<image, ctx, edits, buf>>

CheckNeighbours ==
    /\ pc = "overlaps"
    /\ i < N
    /\ IF Conflict(sorted[i], sorted[i + 1])
       THEN pc' = "rejected" /\ i' = i
       ELSE pc' = pc /\ i' = i + 1
    /\ UNCHANGED <<image, ctx, edits, sorted, buf>>

CheckRegions ==
    /\ pc = "overlaps"
    /\ i >= N
    /\ pc' = IF \A k \in 1..N : RegionAccepted(ctx, edits[k])
             THEN "same_length" ELSE "rejected"
    /\ i' = 1
    /\ UNCHANGED <<image, ctx, edits, sorted, buf>>

-----------------------------------------------------------------------------
(* EditApplier.apply                                                       *)

\* _verify_and_splice; on a mismatch the RuntimeError ends the run.
VerifyAndSplice(e, next) ==
    IF Matches(buf, e)
    THEN buf' = Splice(buf, e) /\ i' = next /\ pc' = pc
    ELSE buf' = buf /\ i' = i /\ pc' = "mismatch"

\* Mutant: skipping a growable skips the edit behind it too.
SpliceSameLengthSkipping ==
    /\ pc = "same_length"
    /\ i <= N
    /\ IF Growable(edits[i])
       THEN i' = i + 2 /\ UNCHANGED <<pc, buf>>
       ELSE VerifyAndSplice(edits[i], i + 1)
    /\ UNCHANGED <<image, ctx, edits, sorted>>

SpliceSameLength ==
    /\ pc = "same_length"
    /\ i <= N
    /\ IF Growable(edits[i])
       THEN i' = i + 1 /\ UNCHANGED <<pc, buf>>
       ELSE VerifyAndSplice(edits[i], i + 1)
    /\ UNCHANGED <<image, ctx, edits, sorted>>

SameLengthDone ==
    /\ pc = "same_length"
    /\ i > N
    /\ pc' = IF GrowableEdits = {} THEN "bytecode" ELSE "growable"
    /\ i' = N
    /\ UNCHANGED <<image, ctx, edits, sorted, buf>>

\* Mutant: growables are spliced by ascending file offset.
AscendingTurn == sorted[N + 1 - i]

\* Descending file offset, so the offsets still to come stay valid.
GrowableTurn == sorted[i]

SpliceGrowable ==
    /\ pc = "growable"
    /\ i >= 1
    /\ IF Growable(GrowableTurn)
       THEN VerifyAndSplice(GrowableTurn, i - 1)
       ELSE i' = i - 1 /\ UNCHANGED <<pc, buf>>
    /\ UNCHANGED <<image, ctx, edits, sorted>>

\* _rewrite_string_pointers, from the offsets and lengths ctx holds.
StringPointerWrites ==
    LET start == ctx.bun.payload_start
        slot(r) == LET base == ctx.bun.modules[r.index].base
                   IN base + ShiftPast(base) + 2 * FieldIndex(r.field)
        moved(sp) == IF sp.length = 0 THEN sp.offset
                     ELSE sp.offset + ShiftPast(sp.offset + start)
        grown(r) == ctx.sp[r].length
                    + MapThenSumSet(Delta, {e \in GrowableEdits : e.region = r})
    IN {<<slot(r), moved(ctx.sp[r])>> : r \in ModuleRefs(ctx.bun)}
       \cup {<<slot(r) + 1, grown(r)>> : r \in ModuleRefs(ctx.bun)}

RewriteStringPointers ==
    /\ pc = "growable"
    /\ i < 1
    /\ buf' = PackInto(buf, StringPointerWrites)
    /\ pc' = "bytecode"
    /\ UNCHANGED <<image, ctx, edits, sorted, i>>

\* _invalidate_bytecode: zero the bytecode StringPointer of touched modules.
BytecodeWrites ==
    LET slot(m) == LET base == ctx.bun.modules[m].base
                   IN base + ShiftPast(base) + 2 * FieldIndex("bytecode")
    IN UNION {{<<slot(m), 0>>, <<slot(m) + 1, 0>>} : m \in TouchedModules}

InvalidateBytecode ==
    /\ pc = "bytecode"
    /\ buf' = PackInto(buf, BytecodeWrites)
    /\ pc' = IF GrowableEdits = {} THEN "done" ELSE "framing"
    /\ UNCHANGED <<image, ctx, edits, sorted, i>>

\* Mutant: the argv pointer keeps its offset.
ArgvOffsetKept == ctx.bun.compile_exec_argv_ptr.offset

\* new_argv_off
ArgvOffset ==
    LET argv == ctx.bun.compile_exec_argv_ptr
    IN argv.offset + IF argv.length > 0
                     THEN ShiftPast(argv.offset + ctx.bun.payload_start) ELSE 0

\* _rewrite_bun_framing: the payload_len prefix and the Offsets struct.
FramingWrites ==
    LET bun == ctx.bun
        start == bun.payload_start
        at == bun.offsets_struct_offset + ShiftPast(bun.offsets_struct_offset)
        mods == bun.modules_ptr
    IN {<<bun.bun_offset, bun.payload_len + TotalDelta>>,
        <<at, bun.byte_count + TotalDelta>>,
        <<at + 1, mods.offset + ShiftPast(mods.offset + start)>>,
        <<at + 2, mods.length>>,
        <<at + 3, bun.entry_point_id>>,
        <<at + 4, ArgvOffset>>,
        <<at + 5, bun.compile_exec_argv_ptr.length>>,
        <<at + 6, bun.flags>>}

RewriteBunFraming ==
    /\ pc = "framing"
    /\ buf' = PackInto(buf, FramingWrites)
    /\ pc' = "container"
    /\ UNCHANGED <<image, ctx, edits, sorted, i>>

RewriteElfHeaders ==
    /\ pc = "container"
    /\ ctx.is_elf
    /\ buf' = PackInto(buf, ElfHeaderWrites(ctx.layout, ctx.bun, TotalDelta))
    /\ pc' = "done"
    /\ UNCHANGED <<image, ctx, edits, sorted, i>>

RewriteMachOHeaders ==
    /\ pc = "container"
    /\ ~ctx.is_elf
    /\ IF PaddingAccepted(buf, ctx.layout, ctx.bun, TotalDelta)
       THEN /\ buf' = PackInto(Repad(buf, ctx.layout, ctx.bun, TotalDelta),
                               MachOHeaderWrites(ctx.layout, ctx.bun, TotalDelta))
            /\ pc' = "done"
       ELSE buf' = buf /\ pc' = "refused"
    /\ UNCHANGED <<image, ctx, edits, sorted, i>>

Outcomes == {"done", "rejected", "mismatch", "refused"}

Finished == pc \in Outcomes /\ UNCHANGED vars

Next ==
    \/ Sort
    \/ CheckNeighbours
    \/ CheckRegions
    \/ SpliceSameLength
    \/ SameLengthDone
    \/ SpliceGrowable
    \/ RewriteStringPointers
    \/ InvalidateBytecode
    \/ RewriteBunFraming
    \/ RewriteElfHeaders
    \/ RewriteMachOHeaders
    \/ Finished

Spec == Init /\ [][Next]_vars
-----------------------------------------------------------------------------

TypeOK ==
    /\ image \in Seq(Int)
    /\ ctx = Parse(image)
    /\ edits \in Seq(Edit)
    /\ sorted \in Seq(Edit)
    /\ pc \in Outcomes \cup {"sort", "overlaps", "same_length", "growable",
                             "bytecode", "framing", "container"}
    /\ i \in 0 .. N + 1
    /\ buf \in Seq(Int)

Disjoint(e, f) == EndOf(e) <= f.offset \/ EndOf(f) <= e.offset

\* Comparing only neighbours in offset order is enough: once a plan is
\* accepted, no two of its edits overlap, however many there are and whatever
\* order the providers emitted them in (edits.py:69-82).
AcceptedDisjoint ==
    pc \notin {"sort", "overlaps", "rejected"} =>
        \A j, k \in 1..N : j # k => Disjoint(edits[j], edits[k])

\* If every edit's old text is what the input image holds at its offset, then
\* no splice of an accepted plan ever finds other bytes there: the splices
\* made before it never move or rewrite a range that is still to be replaced
\* (context.py:175-184, 196-202).
SplicesMatch ==
    (\A k \in 1..N : Matches(image, edits[k])) => pc # "mismatch"

\* The edits are in the image, and the rewriting has not begun.
AllSpliced ==
    \/ pc = "growable" /\ i < 1
    \/ pc = "bytecode" /\ GrowableEdits = {}

\* How far the other growables move the text of an edit.
MovedBy(e) ==
    MapThenSumSet(Delta, {f \in GrowableEdits \ {e} : EndOf(f) <= e.offset})

\* Splicing the growables from the last to the first leaves every byte no edit
\* replaces where _shift_past looks for it from then on, and the new text of
\* every edit, growable or not, where its old text began, moved by what lies in
\* front of it (context.py:175-184, 225-233).
SplicedInPlace ==
    AllSpliced =>
        /\ Len(buf) = Len(image) + TotalDelta
        /\ \A o \in 0 .. Len(image) - 1 :
              (\A k \in 1..N : o < edits[k].offset \/ EndOf(edits[k]) <= o)
                  => Cell(buf, o + ShiftPast(o)) = Cell(image, o)
        /\ \A k \in 1..N :
              LET e == edits[k]
              IN \A n \in 1..Len(e.new) : buf[e.offset + MovedBy(e) + n] = e.new[n]
=============================================================================
