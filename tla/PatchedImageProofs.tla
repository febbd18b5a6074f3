------------------------- MODULE PatchedImageProofs -------------------------
(***************************************************************************)
(* For every image bun and a linker lay out, and every plan the            *)
(* documentation describes: what the patched image holds.  The proof       *)
(* describes the output cell by cell, and then reads it as Bun would.      *)
(***************************************************************************)
EXTENDS PatchedImage, EditApplierProofs

-----------------------------------------------------------------------------
(* The __bun section of a Mach-O image.                                    *)

\* The __bun section is the k-th of command n.
IsBunSect(b, n, k) ==
    LET mo == MachOParse(b)
        x == CommandOffsets(b)[n]
        y == x + SEGMENT_COMMAND_SIZE + k * SECTION_SIZE
    IN /\ n \in SegmentCommands(b) /\ k \in 0 .. Cell(b, x + 7) - 1
       /\ SegmentByName(mo, BUN_SEGNAME) = SegmentAt(b, x)
       /\ Cell(b, x + 2) = BUN_SEGNAME /\ Cell(b, y) = BUN_SECTNAME
       /\ BunSect(mo) = SegmentAt(b, x).sections[k]
       /\ BunSect(mo).header = y
       /\ BunSect(mo).size = Cell(b, y + 2) /\ BunSect(mo).offset = Cell(b, y + 3)

LEMMA BunSectIs ==
    ASSUME NEW b \in Seq(Int), MachOParses(b), OneBun(MachOParse(b))
    PROVE  \E n \in SegmentCommands(b), k \in Int : IsBunSect(b, n, k)
<1> DEFINE mo == MachOParse(b)
           at == CommandOffsets(b)
<1>1. PICK g \in mo.segments :
          g.segname = BUN_SEGNAME
          /\ \E k \in DOMAIN g.sections : g.sections[k].sectname = BUN_SECTNAME
  BY MachOHasCommands DEF HasBun
<1>2. SegmentByName(mo, BUN_SEGNAME) = g
  <2> HIDE DEF mo
  <2>1. \A h \in mo.segments : h.segname = BUN_SEGNAME => h = g
    BY <1>1 DEF OneBun, mo
  <2> QED
    BY <1>1, <2>1 DEF SegmentByName
<1>3. PICK n \in SegmentCommands(b) : g = SegmentAt(b, at[n])
  BY SegmentsAre
<1>4. PICK k \in DOMAIN g.sections : g.sections[k].sectname = BUN_SECTNAME
  BY <1>1
<1>5. BunSect(mo) = g.sections[k]
  <2>1. \A l \in DOMAIN g.sections : g.sections[l].sectname = BUN_SECTNAME => l = k
    BY <1>4 DEF OneBun
  <2>2. k = CHOOSE l \in DOMAIN g.sections : g.sections[l].sectname = BUN_SECTNAME
    BY <1>4, <2>1
  <2> QED
    BY <1>2, <2>2 DEF BunSect
<1> DEFINE x == at[n]
           y == x + SEGMENT_COMMAND_SIZE + k * SECTION_SIZE
<1> HIDE DEF mo, at
<1>6. k \in 0 .. Cell(b, x + 7) - 1 /\ g.segname = Cell(b, x + 2)
  BY <1>3 DEF SegmentAt
<1>7. g.sections[k] = [sectname |-> Cell(b, y), addr |-> Cell(b, y + 1),
                       size |-> Cell(b, y + 2), offset |-> Cell(b, y + 3), header |-> y]
  BY <1>3, <1>6 DEF SegmentAt
<1>8. /\ SegmentByName(mo, BUN_SEGNAME) = SegmentAt(b, x)
      /\ Cell(b, x + 2) = BUN_SEGNAME /\ Cell(b, y) = BUN_SECTNAME
      /\ BunSect(mo) = SegmentAt(b, x).sections[k]
      /\ BunSect(mo).header = y
      /\ BunSect(mo).size = Cell(b, y + 2) /\ BunSect(mo).offset = Cell(b, y + 3)
  <2> HIDE DEF x, y
  <2> QED
    BY <1>1, <1>2, <1>3, <1>4, <1>5, <1>6, <1>7 DEF x
<1>9. IsBunSect(b, n, k)
  BY <1>6, <1>8 DEF IsBunSect, mo, at
<1> QED
  BY <1>6, <1>9

-----------------------------------------------------------------------------
(* The context of an image that is laid out as described.                  *)

LEMMA RefIs ==
    ASSUME NEW bun, NEW r \in ModuleRefs(bun)
    PROVE  /\ r.kind = "module" /\ r.index \in DOMAIN bun.modules /\ r.field \in FieldNames
           /\ r = ModuleRef(r.index, r.field)
<1>1. PICK m \in DOMAIN bun.modules, f \in FieldNames : r = ModuleRef(m, f)
  BY DEF ModuleRefs
<1> QED
  BY <1>1 DEF ModuleRef

LEMMA SpIs ==
    ASSUME NEW bun
    PROVE  /\ DOMAIN SpIndex(bun) = ModuleRefs(bun) \cup {ModulesRef, ArgvRef}
           /\ SpIndex(bun)[ModulesRef] = bun.modules_ptr
           /\ SpIndex(bun)[ArgvRef] = bun.compile_exec_argv_ptr
           /\ \A r \in ModuleRefs(bun) :
                 SpIndex(bun)[r] = bun.modules[r.index].fields[r.field]
           /\ \A m \in DOMAIN bun.modules, f \in FieldNames :
                 ModuleRef(m, f) \in ModuleRefs(bun)
<1>1. DOMAIN SpIndex(bun) = ModuleRefs(bun) \cup {ModulesRef, ArgvRef}
  BY DEF SpIndex
<1>2. ModulesRef # ArgvRef /\ \A r \in ModuleRefs(bun) : r # ModulesRef /\ r # ArgvRef
  BY RefIs DEF ModulesRef, ArgvRef
<1>3. \A r \in ModuleRefs(bun) \cup {ModulesRef, ArgvRef} :
         SpIndex(bun)[r] =
            CASE r = ModulesRef -> bun.modules_ptr
              [] r = ArgvRef -> bun.compile_exec_argv_ptr
              [] OTHER -> bun.modules[r.index].fields[r.field]
  BY DEF SpIndex
<1>4. SpIndex(bun)[ModulesRef] = bun.modules_ptr
  BY <1>2, <1>3
<1>5. SpIndex(bun)[ArgvRef] = bun.compile_exec_argv_ptr
  BY <1>2, <1>3
<1>6. \A r \in ModuleRefs(bun) : SpIndex(bun)[r] = bun.modules[r.index].fields[r.field]
  BY <1>2, <1>3
<1> QED
  BY <1>1, <1>4, <1>5, <1>6 DEF ModuleRefs

\* c is the context of a described image b.
InContext(b, c) == b \in Seq(Int) /\ Parses(b) /\ WellPlaced(b) /\ c = Parse(b)

LEMMA ContextIs ==
    ASSUME NEW b, NEW c, InContext(b, c)
    PROVE  /\ ReadFrom(b, c.bun) /\ WellFramed(c) /\ c.sp = SpIndex(c.bun)
           /\ c.bun.bun_offset = BunSection(b).offset
           /\ c.bun.bun_size = BunSection(b).size
           /\ c.is_elf => /\ Cell(b, 0) = ELF_MAGIC /\ c.layout = ElfParse(b)
                          /\ ElfReadable(b) /\ ElfBunIndexes(ElfParse(b)) # {}
                          /\ BunSection(b) = ElfBunSection(ElfParse(b))
                          /\ ElfWellPlaced(b, c)
           /\ ~c.is_elf => /\ Cell(b, 0) = MACHO_MAGIC_64 /\ c.layout = MachOParse(b)
                           /\ MachOParses(b) /\ OneBun(MachOParse(b))
                           /\ BunSection(b) = MachOBunSection(MachOParse(b))
                           /\ MachOWellPlaced(b, c)
<1>1. /\ c.is_elf = (Cell(b, 0) = ELF_MAGIC) /\ c.layout = Layout(b)
      /\ c.bun = Locate(b, BunSection(b)) /\ c.sp = SpIndex(c.bun)
  BY DEF InContext, Parse
<1>2. b \in Seq(Int) /\ Parses(b) /\ WellPlaced(b) /\ c = Parse(b)
  BY DEF InContext
<1>3. WellFramed(c) /\ IF c.is_elf THEN ElfWellPlaced(b, c) ELSE MachOWellPlaced(b, c)
  BY <1>2 DEF WellPlaced
<1>4. c.is_elf => /\ Cell(b, 0) = ELF_MAGIC /\ c.layout = ElfParse(b)
                  /\ ElfReadable(b) /\ ElfBunIndexes(ElfParse(b)) # {}
                  /\ BunSection(b) = ElfBunSection(ElfParse(b))
                  /\ ElfWellPlaced(b, c)
  <2> HAVE c.is_elf
  <2>1. Cell(b, 0) = ELF_MAGIC
    BY <1>1
  <2>2. c.layout = ElfParse(b) /\ BunSection(b) = ElfBunSection(ElfParse(b))
    BY <1>1, <2>1 DEF Layout, BunSection
  <2>3. ELF_MAGIC # MACHO_MAGIC_64
    BY DEF ELF_MAGIC, MACHO_MAGIC_64
  <2>4. ElfReadable(b) /\ ElfBunIndexes(ElfParse(b)) # {}
    BY <1>2, <2>1, <2>3 DEF Parses
  <2> QED
    BY <1>3, <2>1, <2>2, <2>4
<1>5. ~c.is_elf => /\ Cell(b, 0) = MACHO_MAGIC_64 /\ c.layout = MachOParse(b)
                   /\ MachOParses(b) /\ OneBun(MachOParse(b))
                   /\ BunSection(b) = MachOBunSection(MachOParse(b))
                   /\ MachOWellPlaced(b, c)
  BY <1>1, <1>2, <1>3 DEF Layout, BunSection, Parses, MachOWellPlaced
<1>6. BunSection(b).offset \in Int /\ BunSection(b).size \in Int
  <2>1. CASE c.is_elf
    BY <1>2, <1>4, <2>1, ElfBunIs
  <2>2. CASE ~c.is_elf
    <3>1. PICK n \in SegmentCommands(b), k \in Int : IsBunSect(b, n, k)
      BY <1>2, <1>5, <2>2, BunSectIs
    <3> DEFINE x == CommandOffsets(b)[n]
               y == x + SEGMENT_COMMAND_SIZE + k * SECTION_SIZE
    <3>2. SegmentIn(b, x) /\ k \in 0 .. Cell(b, x + 7) - 1
      BY <1>2, <1>5, <2>2, <3>1, SegmentsAre DEF IsBunSect
    <3>3. Cell(b, y + 2) \in Int /\ Cell(b, y + 3) \in Int
      BY <3>2 DEF SegmentIn
    <3>4. /\ BunSect(MachOParse(b)).size = Cell(b, y + 2)
          /\ BunSect(MachOParse(b)).offset = Cell(b, y + 3)
      BY <3>1 DEF IsBunSect
    <3> QED
      BY <1>5, <2>2, <3>3, <3>4 DEF MachOBunSection
  <2> QED
    BY <2>1, <2>2
<1>7. Located(b, BunSection(b))
  BY <1>2 DEF Parses
<1>8. /\ ReadFrom(b, c.bun) /\ c.bun.bun_offset = BunSection(b).offset
      /\ c.bun.bun_size = BunSection(b).size
  BY <1>1, <1>2, <1>6, <1>7, LocateReads
<1> QED
  BY <1>1, <1>3, <1>4, <1>5, <1>8

\* The edits lie in the payload, in front of the modules table, and each in
\* one region.
PlanIn(c, S) ==
    /\ EditSet(S) /\ Apart(S)
    /\ \A e \in S :
          /\ Len(e.old) > 0
          /\ c.bun.payload_start <= e.offset /\ EndOf(e) <= TableAt(c)
          /\ \E r \in Regions(c) :
                RegionAt(c, r) <= e.offset /\ EndOf(e) <= RegionEnd(c, r)

\* Where the parts of the payload of an image of L cells are, and that they
\* stay behind its start when they move by t.
Frame(L, t, off, size, start, table, len, at) ==
    /\ L \in Nat /\ t \in Int /\ off \in Nat /\ size \in Nat /\ start = off + 1
    /\ table \in Nat /\ len \in Nat /\ at \in Nat
    /\ start <= table /\ table + len <= at
    /\ at + 8 = off + size /\ off + size <= L
    /\ start <= table + t

Bounds(b, c, t) ==
    Frame(Len(b), t, c.bun.bun_offset, c.bun.bun_size, c.bun.payload_start,
          TableAt(c), c.bun.modules_ptr.length, c.bun.offsets_struct_offset)

LEMMA RegionTypes ==
    ASSUME NEW b, NEW c, InContext(b, c), NEW r \in ModuleRefs(c.bun) \cup {ArgvRef}
    PROVE  /\ c.sp[r].offset \in Int /\ c.sp[r].length \in Nat
           /\ RegionAt(c, r) \in Int /\ RegionEnd(c, r) \in Int
<1>1. b \in Seq(Int)
  BY DEF InContext
<1>2. ReadFrom(b, c.bun) /\ WellFramed(c) /\ c.sp = SpIndex(c.bun)
  BY ContextIs
<1>3. c.sp[r].offset \in Int /\ c.sp[r].length \in Int
  <2>1. CASE r = ArgvRef
    <3>1. c.sp[r] = c.bun.compile_exec_argv_ptr
      BY <1>2, <2>1, SpIs
    <3> QED
      BY <1>2, <3>1 DEF ReadFrom
  <2>2. CASE r \in ModuleRefs(c.bun)
    <3>1. r.index \in DOMAIN c.bun.modules /\ r.field \in FieldNames
      BY <2>2, RefIs
    <3>2. c.sp[r] = c.bun.modules[r.index].fields[r.field]
      BY <1>2, <2>2, SpIs
    <3> QED
      BY <1>1, <1>2, <3>1, <3>2, ModuleReads
  <2> QED
    BY <2>1, <2>2
<1>4. c.sp[r].length >= 0
  <2>1. r \in DOMAIN c.sp
    BY <1>2, SpIs
  <2> QED
    BY <1>2, <2>1 DEF WellFramed
<1>5. c.bun.payload_start \in Int
  <2>1. c.bun.bun_offset \in Nat /\ c.bun.payload_start = c.bun.bun_offset + 1
    BY <1>2 DEF ReadFrom
  <2> QED
    BY <2>1
<1> QED
  BY <1>3, <1>4, <1>5 DEF RegionAt, RegionEnd

LEMMA BoundsAre ==
    ASSUME NEW b, NEW c, InContext(b, c), NEW S, PlanIn(c, S)
    PROVE  /\ Bounds(b, c, DeltaSum(S)) /\ Bounds(b, c, 0)
           /\ \A o \in Int : TableAt(c) <= o => Past(S, o) = DeltaSum(S)
           /\ \A o \in Int : o <= c.bun.payload_start => Past(S, o) = 0
<1> DEFINE start == c.bun.payload_start
           table == TableAt(c)
           t == DeltaSum(S)
           len == c.bun.modules_ptr.length
           at == c.bun.offsets_struct_offset
<1>1. ReadFrom(b, c.bun) /\ WellFramed(c) /\ b \in Seq(Int)
  BY ContextIs DEF InContext
<1>2. Len(b) \in Nat
  BY <1>1, LenProperties
<1>3. c.bun.bun_offset \in Nat /\ c.bun.bun_size \in Int /\ start = c.bun.bun_offset + 1
  BY <1>1 DEF ReadFrom
<1>4. at \in Nat /\ at + 8 <= Len(b) /\ at = c.bun.bun_offset + c.bun.bun_size - 8
  BY <1>1 DEF ReadFrom
<1>5. table = start + c.bun.modules_ptr.offset /\ c.bun.modules_ptr.offset \in Int
      /\ len \in Int
  BY <1>1 DEF ReadFrom, TableAt
<1>6. 0 <= c.bun.modules_ptr.offset /\ 0 <= len /\ table + len <= at
  BY <1>1 DEF WellFramed
<1>7. EditSet(S) /\ Apart(S) /\ \A e \in S :
         /\ e \in Edit /\ Len(e.old) > 0 /\ start <= e.offset /\ EndOf(e) <= table
         /\ e.offset \in Nat /\ EndOf(e) \in Nat /\ EndOf(e) = e.offset + Len(e.old)
         /\ Len(e.old) \in Nat
  BY EditTypes DEF PlanIn, EditSet
<1>8. t \in Int
  BY <1>7, EditSum
<1> HIDE DEF start, table, t, len, at
<1>9. start \in Nat /\ table \in Nat /\ start <= table
  BY <1>3, <1>5, <1>6
<1>10. start <= table + t
  <2>1. \A e, f \in S : e # f => Disjoint(e, f)
    BY <1>7 DEF Apart
  <2>2. start \in Int /\ table \in Int
    BY <1>9
  <2>3. \A e \in S : start <= e.offset /\ EndOf(e) <= table
    BY <1>7
  <2> QED
    BY <1>7, <1>9, <2>1, <2>2, <2>3, EditsFit DEF t
<1>11. Bounds(b, c, t) /\ Bounds(b, c, 0)
  <2>1. c.bun.bun_size \in Nat /\ at + 8 = c.bun.bun_offset + c.bun.bun_size
        /\ c.bun.bun_offset + c.bun.bun_size <= Len(b) /\ len \in Nat
        /\ start <= table + 0
    <3> DEFINE o == c.bun.bun_offset
               z == c.bun.bun_size
               L == Len(b)
    <3>1. /\ o \in Nat /\ z \in Int /\ at \in Nat /\ len \in Int /\ table \in Nat /\ L \in Nat
          /\ start \in Nat
      BY <1>2, <1>3, <1>4, <1>5, <1>9
    <3>2. start = o + 1 /\ at = o + z - 8 /\ at + 8 <= L
      BY <1>3, <1>4
    <3> HIDE DEF o, z, L
    <3>3. at + 8 = o + z /\ o + z <= L /\ len \in Nat /\ start <= table + 0
      BY <1>6, <1>9, <3>1, <3>2
    <3>4. z \in Nat
      BY <1>6, <1>9, <3>1, <3>2, <3>3
    <3> QED
      BY <3>3, <3>4 DEF o, z, L
  <2>2. /\ Len(b) \in Nat /\ t \in Int /\ c.bun.bun_offset \in Nat
        /\ start = c.bun.bun_offset + 1 /\ start <= table /\ table \in Nat /\ at \in Nat
        /\ table + len <= at /\ start <= table + t
    BY <1>2, <1>3, <1>4, <1>6, <1>8, <1>9, <1>10
  <2> QED
    BY <2>1, <2>2 DEF Bounds, Frame, start, table, len, at
<1>12. ASSUME NEW o \in Int, table <= o PROVE Past(S, o) = t
  <2>1. {f \in S : EndOf(f) <= o} = S
    BY <1>7, <1>9, <1>12
  <2> QED
    BY <2>1 DEF Past, t
<1>13. ASSUME NEW o \in Int, o <= start PROVE Past(S, o) = 0
  <2>1. {f \in S : EndOf(f) <= o} = {}
    BY <1>7, <1>9, <1>13
  <2> QED
    BY <2>1, SumNone DEF Past
<1> QED
  BY <1>11, <1>12, <1>13 DEF t, table, start

-----------------------------------------------------------------------------
(* The context and the plan of a run.                                      *)

ContextInv ==
    /\ image \in Images /\ Parses(image) /\ ctx = Parse(image)
    /\ WellPlaced(image)
    /\ \A k \in 1..N : RegionAccepted(ctx, edits[k]) => Anchored(ctx, edits[k])
    /\ pc \notin {"sort", "overlaps", "rejected"} =>
          \A k \in 1..N : RegionAccepted(ctx, edits[k])

LEMMA ContextInit ==
    ASSUME Described, Init
    PROVE  ContextInv
<1>1. Parses(image) /\ ctx = Parse(image) /\ image \in Images /\ pc = "sort"
  BY DEF Init
<1>2. /\ WellPlaced(image)
      /\ \A n \in 1..Len(edits) : Anchored(ctx, edits[n])
  BY <1>1 DEF Init, Described
<1> QED
  BY <1>1, <1>2 DEF ContextInv, N

LEMMA ContextStep == ContextInv /\ [Next]_vars => ContextInv'
<1> SUFFICES ASSUME ContextInv, [Next]_vars PROVE ContextInv'
  OBVIOUS
<1>1. image' = image /\ ctx' = ctx /\ edits' = edits
  BY DEF Next, vars, Finished, Sort, CheckNeighbours, CheckRegions,
         SpliceSameLength, SameLengthDone, SpliceGrowable,
         RewriteStringPointers, InvalidateBytecode, RewriteBunFraming,
         RewriteElfHeaders, RewriteMachOHeaders
<1>2. N' = N
  BY <1>1 DEF N
<1>3. CASE CheckRegions
  <2>1. pc' # "rejected" => \A k \in 1..N : RegionAccepted(ctx, edits[k])
    BY <1>3 DEF CheckRegions
  <2> QED
    BY <1>1, <1>2, <2>1 DEF ContextInv
<1>4. CASE ~CheckRegions
  <2>1. pc' \in {"sort", "overlaps", "rejected"}
          \/ pc \notin {"sort", "overlaps", "rejected"}
    BY <1>4 DEF Next, vars, Finished, Sort, CheckNeighbours,
           SpliceSameLength, SameLengthDone, SpliceGrowable,
           RewriteStringPointers, InvalidateBytecode, RewriteBunFraming,
           RewriteElfHeaders, RewriteMachOHeaders, Outcomes
  <2> QED
    BY <1>1, <1>2, <2>1 DEF ContextInv
<1> QED
  BY <1>3, <1>4

LEMMA PlanIsIn ==
    ASSUME OrderInv, ContextInv, Accepted
    PROVE  InContext(image, ctx) /\ PlanIn(ctx, InPlan)
<1>1. image \in Seq(Int) /\ Parses(image) /\ ctx = Parse(image)
  BY DEF OrderInv, ContextInv
<1>2. /\ WellPlaced(image)
      /\ \A n \in 1..N : Anchored(ctx, edits[n])
  BY DEF ContextInv, Accepted
<1>3. InContext(image, ctx)
  BY <1>1, <1>2 DEF InContext
<1>4. EditSet(InPlan) /\ Apart(InPlan)
  BY InPlanFacts
<1>5. ASSUME NEW e \in InPlan
      PROVE  /\ Len(e.old) > 0
             /\ ctx.bun.payload_start <= e.offset /\ EndOf(e) <= TableAt(ctx)
             /\ \E r \in Regions(ctx) :
                   RegionAt(ctx, r) <= e.offset /\ EndOf(e) <= RegionEnd(ctx, r)
  <2>1. Anchored(ctx, e) /\ RegionAccepted(ctx, e)
    <3>1. PICK k \in 1..N : e = edits[k]
      BY DEF InPlan
    <3> QED
      BY <1>2, <3>1 DEF ContextInv, Accepted, N
  <2>2. e.offset \in Nat /\ EndOf(e) \in Nat /\ e.offset <= EndOf(e)
    <3>1. e \in Edit
      BY <1>4 DEF EditSet
    <3> QED
      BY <3>1, EditTypes
  <2>3. PICK r \in Regions(ctx) :
            RegionAt(ctx, r) <= e.offset /\ EndOf(e) <= RegionEnd(ctx, r)
    BY <2>1 DEF Anchored, Within
  <2>4. RegionAt(ctx, r) \in Int /\ RegionEnd(ctx, r) \in Int
    <3>1. r \in ModuleRefs(ctx.bun) \cup {ArgvRef}
      BY DEF Regions
    <3> QED
      BY <1>3, <3>1, RegionTypes
  <2>5. ReadFrom(image, ctx.bun) /\ WellFramed(ctx)
    BY <1>3, ContextIs
  <2>6. /\ ctx.bun.payload_start <= RegionAt(ctx, r)
        /\ \/ RegionEnd(ctx, r) <= TableAt(ctx)
           \/ TableAt(ctx) + ctx.bun.modules_ptr.length <= RegionAt(ctx, r)
    BY <2>5 DEF WellFramed
  <2>7. /\ ctx.bun.payload_start \in Int /\ TableAt(ctx) \in Int
        /\ ctx.bun.modules_ptr.length \in Nat
    <3>1. /\ ctx.bun.bun_offset \in Nat /\ ctx.bun.payload_start = ctx.bun.bun_offset + 1
          /\ ctx.bun.modules_ptr.offset \in Int /\ ctx.bun.modules_ptr.length \in Int
      BY <2>5 DEF ReadFrom
    <3>2. 0 <= ctx.bun.modules_ptr.length
      BY <2>5 DEF WellFramed
    <3> QED
      BY <3>1, <3>2 DEF TableAt
  <2>8. e.offset < TableAt(ctx)
    <3>1. ~(e.offset >= TableAt(ctx))
      BY <2>1 DEF RegionAccepted, IsFramingOffset, TableAt
    <3> QED
      BY <2>2, <2>7, <3>1
  <2>9. ctx.bun.payload_start <= e.offset /\ EndOf(e) <= TableAt(ctx)
    <3> DEFINE start == ctx.bun.payload_start
               table == TableAt(ctx)
               len == ctx.bun.modules_ptr.length
               ra == RegionAt(ctx, r)
               re == RegionEnd(ctx, r)
               o == e.offset
               z == EndOf(e)
    <3>1. /\ start \in Int /\ table \in Int /\ len \in Nat /\ ra \in Int /\ re \in Int
          /\ o \in Nat /\ z \in Nat /\ o < table /\ ra <= o /\ z <= re
          /\ start <= ra /\ (re <= table \/ table + len <= ra)
      BY <2>2, <2>3, <2>4, <2>6, <2>7, <2>8
    <3> HIDE DEF start, table, len, ra, re, o, z
    <3>2. start <= o /\ z <= table
      BY <3>1
    <3> QED
      BY <3>2 DEF start, o, z, table
  <2> QED
    BY <2>1, <2>3, <2>9 DEF Anchored, Within
<1> QED
  BY <1>3, <1>4, <1>5 DEF PlanIn

-----------------------------------------------------------------------------
(* The places apply writes in the payload, by their offsets in the input.  *)

\* Where the StringPointer r is.
SlotAt(c, r) == c.bun.modules[r.index].base + 2 * FieldIndex(r.field)

LEMMA SlotIs ==
    ASSUME NEW b, NEW c, InContext(b, c), NEW r \in ModuleRefs(c.bun)
    PROVE  /\ r.index \in Nat /\ FieldIndex(r.field) \in 0..5
           /\ SlotAt(c, r) = TableAt(c) + 13 * r.index + 2 * FieldIndex(r.field)
           /\ SlotAt(c, r) \in Nat /\ TableAt(c) <= SlotAt(c, r)
           /\ SlotAt(c, r) + 2 <= TableAt(c) + c.bun.modules_ptr.length
           /\ c.bun.modules[r.index].base \in Nat
           /\ TableAt(c) <= c.bun.modules[r.index].base
           /\ c.sp[r].offset = Cell(b, SlotAt(c, r))
           /\ c.sp[r].length = Cell(b, SlotAt(c, r) + 1)
<1> DEFINE m == r.index
           n == FieldIndex(r.field)
           base == c.bun.modules[m].base
           table == TableAt(c)
           len == c.bun.modules_ptr.length
<1>1. b \in Seq(Int) /\ ReadFrom(b, c.bun) /\ c.sp = SpIndex(c.bun)
  BY ContextIs DEF InContext
<1>2. m \in DOMAIN c.bun.modules /\ r.field \in FieldNames
  BY RefIs
<1>3. n \in 0..5
  BY <1>2, FieldIndexIs
<1>4. m \in Nat /\ base = table + m * MODULE_RECORD_SIZE /\ base \in Nat
      /\ base + 13 <= table + len
  BY <1>1, <1>2, ModuleReads DEF TableAt
<1>5. table \in Int /\ len \in Int
  <2>1. /\ c.bun.bun_offset \in Nat /\ c.bun.payload_start = c.bun.bun_offset + 1
        /\ c.bun.modules_ptr.offset \in Int /\ len \in Int
    BY <1>1 DEF ReadFrom
  <2> QED
    BY <2>1 DEF TableAt
<1>6. /\ c.sp[r].offset = Cell(b, base + 2 * n) /\ c.sp[r].length = Cell(b, base + 2 * n + 1)
  <2>1. c.sp[r] = c.bun.modules[m].fields[r.field]
    BY <1>1, SpIs
  <2>2. ASSUME NEW k \in DOMAIN c.bun.modules, NEW f \in FieldNames
        PROVE  /\ c.bun.modules[k].fields[f].offset
                      = Cell(b, c.bun.modules[k].base + 2 * FieldIndex(f))
               /\ c.bun.modules[k].fields[f].length
                      = Cell(b, c.bun.modules[k].base + 2 * FieldIndex(f) + 1)
    BY <1>1, ModuleReads
  <2> QED
    BY <1>2, <2>1, <2>2
<1>7. SlotAt(c, r) = base + 2 * n
  BY DEF SlotAt
<1> HIDE DEF m, n, base, table, len
<1>8. base = table + 13 * m
  BY <1>4 DEF MODULE_RECORD_SIZE
<1>9. /\ SlotAt(c, r) = table + 13 * m + 2 * n /\ SlotAt(c, r) \in Nat
      /\ table <= SlotAt(c, r) /\ SlotAt(c, r) + 2 <= table + len /\ table <= base
  BY <1>3, <1>4, <1>5, <1>7, <1>8
<1> QED
  BY <1>3, <1>4, <1>6, <1>7, <1>9 DEF m, n, base, table, len

\* No two pointers share a cell.
LEMMA SlotsDiffer ==
    ASSUME NEW b, NEW c, InContext(b, c),
           NEW r \in ModuleRefs(c.bun), NEW q \in ModuleRefs(c.bun)
    PROVE  /\ SlotAt(c, r) = SlotAt(c, q) => r = q
           /\ SlotAt(c, r) # SlotAt(c, q) + 1
<1> DEFINE m == r.index
           n == FieldIndex(r.field)
           k == q.index
           l == FieldIndex(q.field)
           table == TableAt(c)
<1>1. /\ m \in Nat /\ n \in 0..5 /\ k \in Nat /\ l \in 0..5
      /\ SlotAt(c, r) = table + 13 * m + 2 * n /\ SlotAt(c, q) = table + 13 * k + 2 * l
  BY SlotIs
<1>2. table \in Int
  <2>1. ReadFrom(b, c.bun)
    BY ContextIs
  <2>2. /\ c.bun.bun_offset \in Nat /\ c.bun.payload_start = c.bun.bun_offset + 1
        /\ c.bun.modules_ptr.offset \in Int
    BY <2>1 DEF ReadFrom
  <2> QED
    BY <2>2 DEF TableAt
<1> HIDE DEF m, n, k, l, table
<1>3. ASSUME SlotAt(c, r) = SlotAt(c, q) PROVE m = k /\ n = l
  <2>1. 13 * m + 2 * n = 13 * k + 2 * l
    BY <1>1, <1>2, <1>3
  <2>2. CASE m < k
    <3>1. 13 * m + 13 <= 13 * k
      BY <1>1, <2>2
    <3> QED
      BY <1>1, <2>1, <3>1
  <2>3. CASE k < m
    <3>1. 13 * k + 13 <= 13 * m
      BY <1>1, <2>3
    <3> QED
      BY <1>1, <2>1, <3>1
  <2>4. CASE m = k
    BY <1>1, <2>1, <2>4
  <2> QED
    BY <1>1, <2>2, <2>3, <2>4
<1>4. ASSUME SlotAt(c, r) = SlotAt(c, q) + 1 PROVE FALSE
  <2>1. 13 * m + 2 * n = 13 * k + 2 * l + 1
    BY <1>1, <1>2, <1>4
  <2>2. CASE m < k
    <3>1. 13 * m + 13 <= 13 * k
      BY <1>1, <2>2
    <3> QED
      BY <1>1, <2>1, <3>1
  <2>3. CASE k < m
    <3>1. 13 * k + 13 <= 13 * m
      BY <1>1, <2>3
    <3> QED
      BY <1>1, <2>1, <3>1
  <2>4. CASE m = k
    BY <1>1, <2>1, <2>4
  <2> QED
    BY <1>1, <2>2, <2>3, <2>4
<1>5. ASSUME SlotAt(c, r) = SlotAt(c, q) PROVE r = q
  <2>1. r.index = q.index /\ FieldIndex(r.field) = FieldIndex(q.field)
    BY <1>3, <1>5 DEF m, n, k, l
  <2>2. r.field = q.field
    BY <2>1, RefIs, FieldsDiffer
  <2> QED
    BY <2>1, <2>2, RefIs
<1> QED
  BY <1>4, <1>5

\* The encoding of a module is in no pointer.
LEMMA EncodingApart ==
    ASSUME NEW b, NEW c, InContext(b, c), NEW m \in DOMAIN c.bun.modules,
           NEW r \in ModuleRefs(c.bun)
    PROVE  /\ c.bun.modules[m].base + 12 # SlotAt(c, r)
           /\ c.bun.modules[m].base + 12 # SlotAt(c, r) + 1
<1> DEFINE k == r.index
           l == FieldIndex(r.field)
           base == c.bun.modules[m].base
           table == TableAt(c)
<1>1. k \in Nat /\ l \in 0..5 /\ SlotAt(c, r) = table + 13 * k + 2 * l
  BY SlotIs
<1>2. m \in Nat /\ base = table + 13 * m /\ table \in Int
  <2>1. b \in Seq(Int) /\ ReadFrom(b, c.bun)
    BY ContextIs DEF InContext
  <2>2. /\ c.bun.bun_offset \in Nat /\ c.bun.payload_start = c.bun.bun_offset + 1
        /\ c.bun.modules_ptr.offset \in Int
    BY <2>1 DEF ReadFrom
  <2>3. m \in Nat /\ base = table + m * MODULE_RECORD_SIZE
    BY <2>1, ModuleReads DEF TableAt
  <2>4. table \in Int
    BY <2>2 DEF TableAt
  <2> HIDE DEF base, table
  <2> QED
    BY <2>3, <2>4 DEF MODULE_RECORD_SIZE
<1> HIDE DEF k, l, base, table
<1>3. 13 * m + 12 # 13 * k + 2 * l /\ 13 * m + 12 # 13 * k + 2 * l + 1
  <2>1. CASE m < k
    <3>1. 13 * m + 13 <= 13 * k
      BY <1>1, <1>2, <2>1
    <3> QED
      BY <1>1, <1>2, <3>1
  <2>2. CASE k <= m
    <3>1. 13 * k <= 13 * m
      BY <1>1, <1>2, <2>2
    <3> QED
      BY <1>1, <1>2, <3>1
  <2> QED
    BY <1>1, <1>2, <2>1, <2>2
<1> QED
  BY <1>1, <1>2, <1>3 DEF base

-----------------------------------------------------------------------------
(* What a spliced buffer holds while apply rewrites its payload.           *)

InFraming(c, o) ==
    c.bun.offsets_struct_offset <= o /\ o <= c.bun.offsets_struct_offset + 6

InPointers(c, o) == \E r \in ModuleRefs(c.bun) : o = SlotAt(c, r) \/ o = SlotAt(c, r) + 1

\* The texts are those of the spliced buffer.
TextsAre(b, im, c, S) ==
    \E s \in Seq(Int) :
        /\ SettledIn(s, S, im)
        /\ \A x \in c.bun.payload_start .. TableAt(c) + DeltaSum(S) - 1 :
              Cell(b, x) = Cell(s, x)

\* What is in front of .bun is as it was, and what is in and behind the modules
\* table has moved, except for pointers and framing.
Kept(b, im, c, S) ==
    /\ b \in Seq(Int) /\ Len(b) = Len(im) + DeltaSum(S)
    /\ \A o \in 0 .. c.bun.bun_offset - 1 : Cell(b, o) = Cell(im, o)
    /\ \A o \in TableAt(c) .. Len(im) - 1 :
          ~InFraming(c, o) /\ ~InPointers(c, o) => Cell(b, o + DeltaSum(S)) = Cell(im, o)
    /\ TextsAre(b, im, c, S)

\* Where a StringPointer must point, and how long its text has become.
NewOffset(c, S, sp) ==
    IF sp.length = 0 THEN sp.offset
    ELSE sp.offset + Past(S, sp.offset + c.bun.payload_start)
NewLength(c, S, r) ==
    c.sp[r].length + DeltaSum({e \in S : Growable(e) /\ e.region = r})

\* The pointers of the modules; those to the bytecode of modules in M are empty.
PointersAre(b, c, S, M) ==
    \A r \in ModuleRefs(c.bun) :
        LET at == SlotAt(c, r) + DeltaSum(S)
        IN IF r.field = "bytecode" /\ r.index \in M
           THEN Cell(b, at) = 0 /\ Cell(b, at + 1) = 0
           ELSE /\ Cell(b, at) = NewOffset(c, S, c.sp[r])
                /\ Cell(b, at + 1) = NewLength(c, S, r)

\* The k-th cell of the Offsets struct.
FramingAt(c, S, k) == c.bun.offsets_struct_offset + DeltaSum(S) + k

FramingIs(b, c, S) ==
    /\ Cell(b, c.bun.bun_offset) = c.bun.payload_len + DeltaSum(S)
    /\ Cell(b, FramingAt(c, S, 0)) = c.bun.byte_count + DeltaSum(S)
    /\ Cell(b, FramingAt(c, S, 1)) = c.bun.modules_ptr.offset + DeltaSum(S)
    /\ Cell(b, FramingAt(c, S, 2)) = c.bun.modules_ptr.length
    /\ Cell(b, FramingAt(c, S, 3)) = c.bun.entry_point_id
    /\ Cell(b, FramingAt(c, S, 4)) = NewOffset(c, S, c.bun.compile_exec_argv_ptr)
    /\ Cell(b, FramingAt(c, S, 5)) = c.bun.compile_exec_argv_ptr.length
    /\ Cell(b, FramingAt(c, S, 6)) = c.bun.flags

LEMMA NewPointerTypes ==
    ASSUME NEW c, NEW S, EditSet(S)
    PROVE  /\ \A sp : sp.offset \in Int => NewOffset(c, S, sp) \in Int
           /\ \A r : c.sp[r].length \in Int => NewLength(c, S, r) \in Int
<1>1. \A sp : sp.offset \in Int => NewOffset(c, S, sp) \in Int
  <2> TAKE sp
  <2>1. Past(S, sp.offset + c.bun.payload_start) \in Int
    BY PastType
  <2> QED
    BY <2>1 DEF NewOffset
<1>2. \A r : c.sp[r].length \in Int => NewLength(c, S, r) \in Int
  <2> TAKE r
  <2> DEFINE T == {e \in S : Growable(e) /\ e.region = r}
  <2>1. EditSet(T)
    <3>1. T \subseteq S
      OBVIOUS
    <3> HIDE DEF T
    <3> QED
      BY <3>1, EditSetPart
  <2>2. DeltaSum(T) \in Int
    BY <2>1, EditSum
  <2> QED
    BY <2>2 DEF NewLength
<1> QED
  BY <1>1, <1>2

LEMMA KeptSpliced ==
    ASSUME NEW im, NEW c, InContext(im, c), NEW S, PlanIn(c, S),
           NEW s \in Seq(Int), SettledIn(s, S, im)
    PROVE  /\ Kept(s, im, c, S)
           /\ Cell(s, c.bun.bun_offset) = Cell(im, c.bun.bun_offset)
           /\ \A o \in TableAt(c) .. Len(im) - 1 : Cell(s, o + DeltaSum(S)) = Cell(im, o)
<1> DEFINE L == Len(im)
           t == DeltaSum(S)
           off == c.bun.bun_offset
           size == c.bun.bun_size
           start == c.bun.payload_start
           table == TableAt(c)
           len == c.bun.modules_ptr.length
           at == c.bun.offsets_struct_offset
<1>1. Frame(L, t, off, size, start, table, len, at)
  BY BoundsAre DEF Bounds
<1>2. /\ \A o \in Int : table <= o => Past(S, o) = t
      /\ \A o \in Int : o <= start => Past(S, o) = 0
  BY BoundsAre
<1>3. \A f \in S : /\ start <= f.offset /\ EndOf(f) <= table
                   /\ f.offset \in Nat /\ EndOf(f) \in Nat
  BY EditTypes DEF PlanIn, EditSet
<1>4. \A o \in 0 .. L - 1 :
          (\A f \in S : o < f.offset \/ EndOf(f) <= o) =>
              s[o + Past(S, o) + 1] = im[o + 1]
  BY DEF SettledIn
<1> HIDE DEF L, t, off, size, start, table, len, at
<1>5. ASSUME NEW o \in 0 .. off PROVE Cell(s, o) = Cell(im, o)
  <2>1. o \in Int /\ o < start /\ o <= start /\ o \in 0 .. L - 1
    BY <1>1 DEF Frame
  <2>2. Past(S, o) = 0
    BY <1>2, <2>1
  <2>3. \A f \in S : o < f.offset \/ EndOf(f) <= o
    BY <1>1, <1>3, <2>1 DEF Frame
  <2>4. s[o + Past(S, o) + 1] = im[o + 1]
    BY <1>4, <2>1, <2>3
  <2>5. o + Past(S, o) + 1 = o + 1
    BY <2>1, <2>2
  <2> QED
    BY <2>4, <2>5 DEF Cell
<1>6. ASSUME NEW o \in table .. L - 1 PROVE Cell(s, o + t) = Cell(im, o)
  <2>1. o \in Int /\ table <= o /\ o \in 0 .. L - 1
    BY <1>1 DEF Frame
  <2>2. Past(S, o) = t
    BY <1>2, <2>1
  <2>3. \A f \in S : o < f.offset \/ EndOf(f) <= o
    BY <1>1, <1>3, <2>1 DEF Frame
  <2>4. s[o + Past(S, o) + 1] = im[o + 1]
    BY <1>4, <2>1, <2>3
  <2> QED
    BY <2>2, <2>4 DEF Cell
<1>7. Len(s) = L + t
  BY DEF SettledIn, L, t
<1>8. TextsAre(s, im, c, S)
  BY DEF TextsAre
<1>9. off \in 0 .. off /\ 0 .. off - 1 \subseteq 0 .. off
  BY <1>1 DEF Frame
<1> QED
  BY <1>5, <1>6, <1>7, <1>8, <1>9 DEF Kept, L, t, off, table

\* Where apply writes in the payload.
PayloadWrites(writes, c, t) ==
    \A w \in writes :
        \/ w[1] = c.bun.bun_offset
        \/ \E o \in Int : w[1] = o + t /\ (InFraming(c, o) \/ InPointers(c, o))

LEMMA PayloadWritesKeep ==
    ASSUME NEW im, NEW c, InContext(im, c), NEW S, PlanIn(c, S),
           NEW b, Kept(b, im, c, S),
           NEW writes, IntWrites(writes), PayloadWrites(writes, c, DeltaSum(S))
    PROVE  Kept(PackInto(b, writes), im, c, S)
<1> DEFINE p == PackInto(b, writes)
           L == Len(im)
           t == DeltaSum(S)
           off == c.bun.bun_offset
           size == c.bun.bun_size
           start == c.bun.payload_start
           table == TableAt(c)
           len == c.bun.modules_ptr.length
           at == c.bun.offsets_struct_offset
<1>1. Frame(L, t, off, size, start, table, len, at)
  BY BoundsAre DEF Bounds
<1>2. b \in Seq(Int) /\ Len(b) = L + t
  BY DEF Kept
<1>3. /\ p \in Seq(Int) /\ Len(p) = L + t
      /\ \A o \in 0 .. L + t - 1 : (\A w \in writes : w[1] # o) => Cell(p, o) = Cell(b, o)
  <2>1. b \in Seq(Int) /\ IntWrites(writes)
    BY <1>2
  <2>2. /\ p \in Seq(Int) /\ Len(p) = Len(b)
        /\ \A o \in 0 .. Len(b) - 1 :
              (\A w \in writes : w[1] # o) => Cell(p, o) = Cell(b, o)
    <3> HIDE DEF t, L, off, size, start, table, len, at
    <3> QED
      BY <2>1, PackCells
  <2> HIDE DEF p, L, t
  <2>3. Len(b) - 1 = L + t - 1
    BY <1>1, <1>2 DEF Frame
  <2> QED
    BY <1>2, <2>2, <2>3
<1>4. ASSUME NEW w \in writes
      PROVE  \/ w[1] = off
             \/ \E o \in Int : w[1] = o + t /\ (InFraming(c, o) \/ InPointers(c, o))
  BY DEF PayloadWrites
<1>5. ASSUME NEW o \in Int, InFraming(c, o) PROVE at <= o
  BY <1>5 DEF InFraming
<1> HIDE DEF p, L, t, off, size, start, table, len, at
<1>6. ASSUME NEW o \in Int, InFraming(c, o) \/ InPointers(c, o) PROVE table <= o
  <2>1. InFraming(c, o) => table <= o
    BY <1>1, <1>5 DEF Frame
  <2>2. ASSUME NEW r \in ModuleRefs(c.bun), o = SlotAt(c, r) \/ o = SlotAt(c, r) + 1
        PROVE  table <= o
    <3>1. SlotAt(c, r) \in Nat /\ table <= SlotAt(c, r)
      BY SlotIs DEF table
    <3> QED
      BY <1>1, <2>2, <3>1 DEF Frame
  <2> QED
    BY <1>6, <2>1, <2>2 DEF InPointers
<1>7. ASSUME NEW x \in Int, x # off, x < table + t, NEW w \in writes PROVE w[1] # x
  <2> SUFFICES ASSUME w[1] = x PROVE FALSE
    OBVIOUS
  <2>1. PICK o \in Int : w[1] = o + t /\ (InFraming(c, o) \/ InPointers(c, o))
    BY <1>4, <1>7
  <2>2. table <= o
    BY <1>6, <2>1
  <2> QED
    BY <1>1, <1>7, <2>1, <2>2 DEF Frame
<1>8. ASSUME NEW o \in 0 .. off - 1 PROVE Cell(p, o) = Cell(im, o)
  <2>1. o \in 0 .. L + t - 1 /\ o \in Int /\ o # off /\ o < table + t
    BY <1>1 DEF Frame
  <2>2. Cell(b, o) = Cell(im, o)
    BY DEF Kept, off
  <2> QED
    BY <1>2, <1>3, <1>7, <2>1, <2>2
<1>9. ASSUME NEW o \in table .. L - 1, ~InFraming(c, o), ~InPointers(c, o)
      PROVE  Cell(p, o + t) = Cell(im, o)
  <2>1. o \in Int /\ t \in Int /\ o + t \in 0 .. L + t - 1 /\ o + t # off
    BY <1>1 DEF Frame
  <2>2. \A w \in writes : w[1] # o + t
    <3> SUFFICES ASSUME NEW w \in writes, w[1] = o + t PROVE FALSE
      OBVIOUS
    <3>1. PICK a \in Int : w[1] = a + t /\ (InFraming(c, a) \/ InPointers(c, a))
      BY <1>4, <2>1
    <3>2. a = o
      BY <2>1, <3>1
    <3> QED
      BY <1>9, <3>1, <3>2
  <2>3. Cell(b, o + t) = Cell(im, o)
    BY <1>9 DEF Kept, t, table, L
  <2> QED
    BY <1>2, <1>3, <2>1, <2>2, <2>3
<1>10. TextsAre(p, im, c, S)
  <2>1. PICK s \in Seq(Int) :
            /\ SettledIn(s, S, im)
            /\ \A x \in start .. table + t - 1 : Cell(b, x) = Cell(s, x)
    BY DEF Kept, TextsAre, t, start, table
  <2>2. ASSUME NEW x \in start .. table + t - 1
        PROVE  Cell(p, x) = Cell(b, x)
    <3>1. x \in 0 .. L + t - 1 /\ x \in Int /\ x # off /\ x < table + t
      BY <1>1 DEF Frame
    <3> QED
      BY <1>2, <1>3, <1>7, <3>1
  <2> QED
    BY <2>1, <2>2 DEF TextsAre, t, start, table
<1> QED
  BY <1>2, <1>3, <1>8, <1>9, <1>10 DEF Kept, p, t, L, off, table

LEMMA PayloadCells ==
    ASSUME NEW im, NEW c, InContext(im, c), NEW S, PlanIn(c, S),
           NEW b, Kept(b, im, c, S), NEW writes, IntWrites(writes),
           NEW x, x = c.bun.bun_offset
                  \/ \E o \in TableAt(c) .. Len(im) - 1 : x = o + DeltaSum(S)
    PROVE  /\ (\A w \in writes : w[1] # x) => Cell(PackInto(b, writes), x) = Cell(b, x)
           /\ \A w \in writes :
                 w[1] = x /\ (\A v \in writes : v[1] = x => v[2] = w[2])
                    => Cell(PackInto(b, writes), x) = w[2]
<1> DEFINE L == Len(im)
           t == DeltaSum(S)
           off == c.bun.bun_offset
           size == c.bun.bun_size
           start == c.bun.payload_start
           table == TableAt(c)
           len == c.bun.modules_ptr.length
           at == c.bun.offsets_struct_offset
<1>1. Frame(L, t, off, size, start, table, len, at)
  BY BoundsAre DEF Bounds
<1>2. b \in Seq(Int) /\ Len(b) = L + t
  BY DEF Kept
<1>3. x = off \/ \E o \in table .. L - 1 : x = o + t
  OBVIOUS
<1> HIDE DEF L, t, off, size, start, table, len, at
<1>4. x \in 0 .. L + t - 1
  BY <1>1, <1>3 DEF Frame
<1>5. x \in 0 .. Len(b) - 1
  BY <1>1, <1>2, <1>4 DEF Frame
<1>6. b \in Seq(Int)
  BY <1>2
<1>7. (\A w \in writes : w[1] # x) => Cell(PackInto(b, writes), x) = Cell(b, x)
  BY <1>5, <1>6, PackCells
<1>8. ASSUME NEW w \in writes, w[1] = x, \A v \in writes : v[1] = x => v[2] = w[2]
      PROVE  Cell(PackInto(b, writes), x) = w[2]
  BY <1>5, <1>6, <1>8, PackCells
<1> QED
  BY <1>7, <1>8

\* The pointers lie in front of the Offsets struct, and all of them behind the
\* texts.
LEMMA SlotRange ==
    ASSUME NEW im, NEW c, InContext(im, c), NEW S, PlanIn(c, S),
           NEW r \in ModuleRefs(c.bun)
    PROVE  /\ \E o \in TableAt(c) .. Len(im) - 1 : SlotAt(c, r) + DeltaSum(S) = o + DeltaSum(S)
           /\ \E o \in TableAt(c) .. Len(im) - 1 :
                 SlotAt(c, r) + DeltaSum(S) + 1 = o + DeltaSum(S)
           /\ SlotAt(c, r) \in Nat /\ SlotAt(c, r) + 2 <= c.bun.offsets_struct_offset
           /\ c.bun.bun_offset < SlotAt(c, r) + DeltaSum(S)
<1> DEFINE L == Len(im)
           t == DeltaSum(S)
           off == c.bun.bun_offset
           size == c.bun.bun_size
           start == c.bun.payload_start
           table == TableAt(c)
           len == c.bun.modules_ptr.length
           at == c.bun.offsets_struct_offset
           x == SlotAt(c, r)
<1>1. Frame(L, t, off, size, start, table, len, at)
  BY BoundsAre DEF Bounds
<1>2. x \in Nat /\ table <= x /\ x + 2 <= table + len
  BY SlotIs
<1> HIDE DEF L, t, off, size, start, table, len, at, x
<1>3. /\ x \in table .. L - 1 /\ x + 1 \in table .. L - 1 /\ x + t + 1 = (x + 1) + t
      /\ x + 2 <= at /\ off < x + t
  BY <1>1, <1>2 DEF Frame
<1> QED
  BY <1>2, <1>3 DEF L, t, off, table, at, x

\* It lies in what has moved, and in no pointer.
FramingFree(im, c, S, k) ==
    /\ \E o \in TableAt(c) .. Len(im) - 1 : FramingAt(c, S, k) = o + DeltaSum(S)
    /\ \E o \in Int : FramingAt(c, S, k) = o + DeltaSum(S) /\ InFraming(c, o)
    /\ c.bun.bun_offset < FramingAt(c, S, k)
    /\ \A r \in ModuleRefs(c.bun) :
          /\ SlotAt(c, r) + DeltaSum(S) # FramingAt(c, S, k)
          /\ SlotAt(c, r) + DeltaSum(S) + 1 # FramingAt(c, S, k)

LEMMA FramingRange ==
    ASSUME NEW im, NEW c, InContext(im, c), NEW S, PlanIn(c, S)
    PROVE  \A k \in 0..6 : FramingFree(im, c, S, k)
<1> TAKE k \in 0..6
<1> DEFINE L == Len(im)
           t == DeltaSum(S)
           off == c.bun.bun_offset
           size == c.bun.bun_size
           start == c.bun.payload_start
           table == TableAt(c)
           len == c.bun.modules_ptr.length
           at == c.bun.offsets_struct_offset
<1>1. Frame(L, t, off, size, start, table, len, at)
  BY BoundsAre DEF Bounds
<1>2. \A r \in ModuleRefs(c.bun) : SlotAt(c, r) \in Nat /\ SlotAt(c, r) + 2 <= at
  BY SlotRange
<1>3. \A o : at <= o /\ o <= at + 6 => InFraming(c, o)
  BY DEF InFraming
<1> HIDE DEF L, t, off, size, start, table, len, at
<1>4. /\ at + k \in table .. L - 1 /\ at + t + k = (at + k) + t /\ off < at + t + k
      /\ at + t \in Int /\ at <= at + k /\ at + k <= at + 6 /\ at + k \in Int
  BY <1>1 DEF Frame
<1>5. \A r \in ModuleRefs(c.bun) :
         SlotAt(c, r) + t # at + t + k /\ SlotAt(c, r) + t + 1 # at + t + k
  BY <1>1, <1>2 DEF Frame
<1> QED
  BY <1>3, <1>4, <1>5 DEF L, t, off, table, at, FramingAt, FramingFree

PointerWrites(c, S) ==
    {<<SlotAt(c, r) + DeltaSum(S), NewOffset(c, S, c.sp[r])>> : r \in ModuleRefs(c.bun)}
    \cup {<<SlotAt(c, r) + DeltaSum(S) + 1, NewLength(c, S, r)>> : r \in ModuleRefs(c.bun)}

LEMMA PointersWritten ==
    ASSUME NEW im, NEW c, InContext(im, c), NEW S, PlanIn(c, S), NEW b, Kept(b, im, c, S)
    PROVE  /\ Kept(PackInto(b, PointerWrites(c, S)), im, c, S)
           /\ PointersAre(PackInto(b, PointerWrites(c, S)), c, S, {})
<1> DEFINE W == PointerWrites(c, S)
           t == DeltaSum(S)
           at(r) == SlotAt(c, r) + t
<1>1. t \in Int /\ \A r \in ModuleRefs(c.bun) : SlotAt(c, r) \in Nat
  BY BoundsAre, SlotIs DEF Bounds, Frame
<1>2. \A r \in ModuleRefs(c.bun) : NewOffset(c, S, c.sp[r]) \in Int /\ NewLength(c, S, r) \in Int
  BY RegionTypes, NewPointerTypes DEF PlanIn
<1>3. IntWrites(W)
  BY <1>2 DEF PointerWrites, IntWrites
<1>4. PayloadWrites(W, c, t)
  <2> SUFFICES ASSUME NEW w \in W
               PROVE  \E o \in Int : w[1] = o + t /\ InPointers(c, o)
    BY DEF PayloadWrites
  <2>1. PICK r \in ModuleRefs(c.bun) : w[1] = at(r) \/ w[1] = at(r) + 1
    BY DEF PointerWrites
  <2>2. CASE w[1] = at(r)
    <3>1. SlotAt(c, r) \in Int /\ InPointers(c, SlotAt(c, r))
      BY <1>1 DEF InPointers
    <3> QED
      BY <2>2, <3>1
  <2>3. CASE w[1] = at(r) + 1
    <3> DEFINE o == SlotAt(c, r) + 1
    <3>1. o \in Int /\ InPointers(c, o) /\ w[1] = o + t
      BY <1>1, <2>3 DEF InPointers
    <3> HIDE DEF o
    <3> QED
      BY <3>1
  <2> QED
    BY <2>1, <2>2, <2>3
<1>5. Kept(PackInto(b, W), im, c, S)
  <2> HIDE DEF W
  <2> QED
    BY <1>3, <1>4, PayloadWritesKeep
<1>6. ASSUME NEW r \in ModuleRefs(c.bun)
      PROVE  /\ Cell(PackInto(b, W), at(r)) = NewOffset(c, S, c.sp[r])
             /\ Cell(PackInto(b, W), at(r) + 1) = NewLength(c, S, r)
  <2>1. ASSUME NEW q \in ModuleRefs(c.bun)
        PROVE  /\ at(q) = at(r) => q = r
               /\ at(q) + 1 = at(r) + 1 => q = r
               /\ at(q) + 1 # at(r) /\ at(q) # at(r) + 1
    <3> DEFINE x == SlotAt(c, r)
               y == SlotAt(c, q)
    <3>1. x \in Nat /\ y \in Nat /\ (y = x => q = r) /\ y # x + 1 /\ x # y + 1
      BY <1>1, SlotsDiffer
    <3> HIDE DEF x, y, t
    <3>2. (y + t = x + t => y = x) /\ (y + t + 1 = x + t + 1 => y = x)
          /\ y + t + 1 # x + t /\ y + t # x + t + 1
      BY <1>1, <3>1
    <3> QED
      BY <3>1, <3>2 DEF x, y
  <2>2. ASSUME NEW v \in W
        PROVE  /\ v[1] = at(r) => v[2] = NewOffset(c, S, c.sp[r])
               /\ v[1] = at(r) + 1 => v[2] = NewLength(c, S, r)
    <3>1. PICK q \in ModuleRefs(c.bun) :
              \/ v[1] = at(q) /\ v[2] = NewOffset(c, S, c.sp[q])
              \/ v[1] = at(q) + 1 /\ v[2] = NewLength(c, S, q)
      BY DEF PointerWrites
    <3> HIDE DEF at
    <3> QED
      BY <2>1, <3>1
  <2>3. /\ <<at(r), NewOffset(c, S, c.sp[r])>> \in W
        /\ <<at(r) + 1, NewLength(c, S, r)>> \in W
    BY DEF PointerWrites
  <2>4. /\ \E o \in TableAt(c) .. Len(im) - 1 : at(r) = o + t
        /\ \E o \in TableAt(c) .. Len(im) - 1 : at(r) + 1 = o + t
    BY SlotRange
  <2> HIDE DEF W, at, t
  <2>5. Cell(PackInto(b, W), at(r)) = NewOffset(c, S, c.sp[r])
    BY <1>3, <2>2, <2>3, <2>4, PayloadCells DEF t
  <2>6. Cell(PackInto(b, W), at(r) + 1) = NewLength(c, S, r)
    BY <1>3, <2>2, <2>3, <2>4, PayloadCells DEF t
  <2> QED
    BY <2>5, <2>6
<1> QED
  BY <1>5, <1>6 DEF PointersAre

BytecodeSlots(c, t, M) ==
    UNION {{<<SlotAt(c, ModuleRef(m, "bytecode")) + t, 0>>,
            <<SlotAt(c, ModuleRef(m, "bytecode")) + t + 1, 0>>} : m \in M}

LEMMA BytecodeWritten ==
    ASSUME NEW im, NEW c, InContext(im, c), NEW S, PlanIn(c, S), NEW b, Kept(b, im, c, S),
           PointersAre(b, c, S, {}), NEW M, M \subseteq DOMAIN c.bun.modules
    PROVE  /\ Kept(PackInto(b, BytecodeSlots(c, DeltaSum(S), M)), im, c, S)
           /\ PointersAre(PackInto(b, BytecodeSlots(c, DeltaSum(S), M)), c, S, M)
           /\ FramingIs(b, c, S) =>
                 FramingIs(PackInto(b, BytecodeSlots(c, DeltaSum(S), M)), c, S)
<1> DEFINE t == DeltaSum(S)
           W == BytecodeSlots(c, t, M)
           at(r) == SlotAt(c, r) + t
           ref(m) == ModuleRef(m, "bytecode")
<1>1. t \in Int
  BY BoundsAre DEF Bounds, Frame
<1>2. \A m \in M : /\ ref(m) \in ModuleRefs(c.bun) /\ ref(m).field = "bytecode"
                   /\ ref(m).index = m
  BY BytecodeIsField DEF ModuleRefs, ModuleRef
<1>3. ASSUME NEW w \in W
      PROVE  \E m \in M : (w[1] = at(ref(m)) \/ w[1] = at(ref(m)) + 1) /\ w[2] = 0
  BY DEF BytecodeSlots
<1>4. \A m \in M : <<at(ref(m)), 0>> \in W /\ <<at(ref(m)) + 1, 0>> \in W
  BY DEF BytecodeSlots
<1> HIDE DEF W, ref
<1>5. IntWrites(W)
  BY <1>3 DEF IntWrites
<1>6. PayloadWrites(W, c, t)
  <2> SUFFICES ASSUME NEW w \in W
               PROVE  \E o \in Int : w[1] = o + t /\ InPointers(c, o)
    BY DEF PayloadWrites
  <2>1. PICK m \in M : w[1] = at(ref(m)) \/ w[1] = at(ref(m)) + 1
    BY <1>3
  <2> DEFINE x == SlotAt(c, ref(m))
  <2>2. x \in Nat /\ InPointers(c, x) /\ InPointers(c, x + 1)
    BY <1>2, SlotIs DEF InPointers
  <2>3. w[1] = x + t \/ w[1] = x + t + 1
    BY <2>1
  <2> HIDE DEF x, t
  <2>4. x + t + 1 = (x + 1) + t /\ x \in Int /\ x + 1 \in Int
    BY <1>1, <2>2
  <2> QED
    BY <2>2, <2>3, <2>4
<1>7. Kept(PackInto(b, W), im, c, S)
  BY <1>5, <1>6, PayloadWritesKeep
<1>8. ASSUME NEW r \in ModuleRefs(c.bun), r.field = "bytecode", r.index \in M
      PROVE  Cell(PackInto(b, W), at(r)) = 0 /\ Cell(PackInto(b, W), at(r) + 1) = 0
  <2>1. r = ref(r.index)
    BY <1>8, RefIs DEF ref
  <2>2. <<at(r), 0>> \in W /\ <<at(r) + 1, 0>> \in W /\ \A v \in W : v[2] = 0
    BY <1>3, <1>4, <1>8, <2>1
  <2>3. /\ \E o \in TableAt(c) .. Len(im) - 1 : at(r) = o + t
        /\ \E o \in TableAt(c) .. Len(im) - 1 : at(r) + 1 = o + t
    BY SlotRange
  <2> HIDE DEF at, t
  <2> QED
    BY <1>5, <2>2, <2>3, PayloadCells DEF t
<1>9. ASSUME NEW r \in ModuleRefs(c.bun), ~(r.field = "bytecode" /\ r.index \in M)
      PROVE  /\ Cell(PackInto(b, W), at(r)) = Cell(b, at(r))
             /\ Cell(PackInto(b, W), at(r) + 1) = Cell(b, at(r) + 1)
  <2>1. ASSUME NEW w \in W PROVE w[1] # at(r) /\ w[1] # at(r) + 1
    <3>1. PICK m \in M : w[1] = at(ref(m)) \/ w[1] = at(ref(m)) + 1
      BY <1>3
    <3>2. ref(m) \in ModuleRefs(c.bun) /\ ref(m) # r
      BY <1>2, <1>9
    <3> DEFINE x == SlotAt(c, r)
               y == SlotAt(c, ref(m))
    <3>3. x \in Nat /\ y \in Nat /\ x # y /\ x # y + 1 /\ y # x + 1
      BY <3>2, SlotIs, SlotsDiffer
    <3> HIDE DEF x, y, t
    <3>4. y + t # x + t /\ y + t + 1 # x + t /\ y + t # x + t + 1 /\ y + t + 1 # x + t + 1
      BY <1>1, <3>3
    <3> QED
      BY <3>1, <3>4 DEF x, y
  <2>3. /\ \E o \in TableAt(c) .. Len(im) - 1 : at(r) = o + t
        /\ \E o \in TableAt(c) .. Len(im) - 1 : at(r) + 1 = o + t
    BY SlotRange
  <2> HIDE DEF at, t
  <2> QED
    BY <1>5, <2>1, <2>3, PayloadCells DEF t
<1>10. PointersAre(PackInto(b, W), c, S, M)
  <2>1. \A r \in ModuleRefs(c.bun) : /\ Cell(b, at(r)) = NewOffset(c, S, c.sp[r])
                                     /\ Cell(b, at(r) + 1) = NewLength(c, S, r)
    BY DEF PointersAre
  <2> SUFFICES ASSUME NEW r \in ModuleRefs(c.bun)
               PROVE  IF r.field = "bytecode" /\ r.index \in M
                      THEN Cell(PackInto(b, W), at(r)) = 0 /\ Cell(PackInto(b, W), at(r) + 1) = 0
                      ELSE /\ Cell(PackInto(b, W), at(r)) = NewOffset(c, S, c.sp[r])
                           /\ Cell(PackInto(b, W), at(r) + 1) = NewLength(c, S, r)
    BY DEF PointersAre
  <2> HIDE DEF at
  <2> QED
    BY <1>8, <1>9, <2>1
<1>11. ASSUME FramingIs(b, c, S) PROVE FramingIs(PackInto(b, W), c, S)
  <2> DEFINE A(k) == FramingAt(c, S, k)
  <2>1. ASSUME NEW k \in 0..6 PROVE Cell(PackInto(b, W), A(k)) = Cell(b, A(k))
    <3>0. FramingFree(im, c, S, k)
      BY FramingRange
    <3>1. \A r \in ModuleRefs(c.bun) : at(r) # A(k) /\ at(r) + 1 # A(k)
      BY <3>0 DEF FramingFree
    <3>2. \E o \in TableAt(c) .. Len(im) - 1 : A(k) = o + t
      BY <3>0 DEF FramingFree
    <3>3. \A w \in W : w[1] # A(k)
      BY <1>2, <1>3, <3>1
    <3> HIDE DEF t
    <3> QED
      BY <1>5, <3>2, <3>3, PayloadCells DEF t
  <2>2. Cell(PackInto(b, W), c.bun.bun_offset) = Cell(b, c.bun.bun_offset)
    <3>1. ASSUME NEW w \in W PROVE w[1] # c.bun.bun_offset
      <4>1. PICK m \in M : w[1] = at(ref(m)) \/ w[1] = at(ref(m)) + 1
        BY <1>3
      <4> DEFINE off == c.bun.bun_offset
                 x == SlotAt(c, ref(m))
      <4>2. off < x + t /\ x \in Nat /\ off \in Nat
        BY <1>2, SlotRange, BoundsAre DEF Bounds, Frame
      <4>3. w[1] = x + t \/ w[1] = x + t + 1
        BY <4>1
      <4> HIDE DEF off, x, t
      <4>4. w[1] # off
        BY <1>1, <4>2, <4>3
      <4> QED
        BY <4>4 DEF off
    <3> QED
      BY <1>5, <3>1, PayloadCells
  <2> QED
    BY <1>11, <2>1, <2>2 DEF FramingIs
<1> QED
  BY <1>7, <1>10, <1>11 DEF W

\* What the cell k of the Offsets struct must hold.
FramingCell(c, S, k) ==
    CASE k = 0 -> c.bun.byte_count + DeltaSum(S)
      [] k = 1 -> c.bun.modules_ptr.offset + DeltaSum(S)
      [] k = 2 -> c.bun.modules_ptr.length
      [] k = 3 -> c.bun.entry_point_id
      [] k = 4 -> NewOffset(c, S, c.bun.compile_exec_argv_ptr)
      [] k = 5 -> c.bun.compile_exec_argv_ptr.length
      [] k = 6 -> c.bun.flags

LEMMA FramingIsCells ==
    ASSUME NEW b, NEW c, NEW S
    PROVE  FramingIs(b, c, S) <=>
              /\ Cell(b, c.bun.bun_offset) = c.bun.payload_len + DeltaSum(S)
              /\ \A k \in 0..6 : Cell(b, FramingAt(c, S, k)) = FramingCell(c, S, k)
<1>1. /\ FramingCell(c, S, 0) = c.bun.byte_count + DeltaSum(S)
      /\ FramingCell(c, S, 1) = c.bun.modules_ptr.offset + DeltaSum(S)
      /\ FramingCell(c, S, 2) = c.bun.modules_ptr.length
      /\ FramingCell(c, S, 3) = c.bun.entry_point_id
      /\ FramingCell(c, S, 4) = NewOffset(c, S, c.bun.compile_exec_argv_ptr)
      /\ FramingCell(c, S, 5) = c.bun.compile_exec_argv_ptr.length
      /\ FramingCell(c, S, 6) = c.bun.flags
  BY DEF FramingCell
<1>2. \A k \in 0..6 : k = 0 \/ k = 1 \/ k = 2 \/ k = 3 \/ k = 4 \/ k = 5 \/ k = 6
  OBVIOUS
<1>3. 0 \in 0..6 /\ 1 \in 0..6 /\ 2 \in 0..6 /\ 3 \in 0..6 /\ 4 \in 0..6 /\ 5 \in 0..6
      /\ 6 \in 0..6
  OBVIOUS
<1>4. ASSUME FramingIs(b, c, S), NEW k \in 0..6
      PROVE  Cell(b, FramingAt(c, S, k)) = FramingCell(c, S, k)
  BY <1>1, <1>2, <1>4 DEF FramingIs
<1>5. ASSUME \A k \in 0..6 : Cell(b, FramingAt(c, S, k)) = FramingCell(c, S, k),
             Cell(b, c.bun.bun_offset) = c.bun.payload_len + DeltaSum(S)
      PROVE  FramingIs(b, c, S)
  BY <1>1, <1>3, <1>5 DEF FramingIs
<1> QED
  BY <1>4, <1>5 DEF FramingIs

FramingSet(c, S) ==
    {<<c.bun.bun_offset, c.bun.payload_len + DeltaSum(S)>>}
    \cup {<<FramingAt(c, S, k), FramingCell(c, S, k)>> : k \in 0..6}

LEMMA FramingWritten ==
    ASSUME NEW im, NEW c, InContext(im, c), NEW S, PlanIn(c, S), NEW b, Kept(b, im, c, S),
           NEW M, PointersAre(b, c, S, M)
    PROVE  /\ Kept(PackInto(b, FramingSet(c, S)), im, c, S)
           /\ PointersAre(PackInto(b, FramingSet(c, S)), c, S, M)
           /\ FramingIs(PackInto(b, FramingSet(c, S)), c, S)
<1> DEFINE t == DeltaSum(S)
           W == FramingSet(c, S)
           off == c.bun.bun_offset
<1>1. t \in Int /\ off \in Nat /\ c.bun.offsets_struct_offset \in Nat
  BY BoundsAre DEF Bounds, Frame
<1>2. \A k \in 0..6 : FramingFree(im, c, S, k)
  BY FramingRange
<1>3. c.bun.payload_len + t \in Int /\ \A k \in 0..6 : FramingCell(c, S, k) \in Int
  <2>0. ReadFrom(im, c.bun) /\ EditSet(S)
    BY ContextIs DEF PlanIn
  <2>1. /\ c.bun.payload_len = c.bun.bun_size - 1 /\ c.bun.bun_size \in Int
        /\ c.bun.byte_count = c.bun.offsets_struct_offset - c.bun.payload_start
        /\ c.bun.payload_start = off + 1
        /\ c.bun.modules_ptr.offset \in Int /\ c.bun.modules_ptr.length \in Int
        /\ c.bun.entry_point_id \in Int /\ c.bun.flags \in Int
        /\ c.bun.compile_exec_argv_ptr.offset \in Int
        /\ c.bun.compile_exec_argv_ptr.length \in Int
    BY <2>0 DEF ReadFrom
  <2>2. NewOffset(c, S, c.bun.compile_exec_argv_ptr) \in Int
    BY <2>0, <2>1, NewPointerTypes
  <2>3. c.bun.payload_len \in Int /\ c.bun.byte_count \in Int
    BY <1>1, <2>1
  <2>4. c.bun.payload_len + t \in Int /\ c.bun.byte_count + t \in Int
        /\ c.bun.modules_ptr.offset + t \in Int
    BY <1>1, <2>1, <2>3
  <2>5. \A k \in 0..6 : k = 0 \/ k = 1 \/ k = 2 \/ k = 3 \/ k = 4 \/ k = 5 \/ k = 6
    OBVIOUS
  <2> QED
    BY <2>1, <2>2, <2>4, <2>5 DEF FramingCell
<1>4. ASSUME NEW w \in W
      PROVE  \/ w[1] = off /\ w[2] = c.bun.payload_len + t
             \/ \E k \in 0..6 : w[1] = FramingAt(c, S, k) /\ w[2] = FramingCell(c, S, k)
  BY DEF FramingSet
<1>5. /\ <<off, c.bun.payload_len + t>> \in W
      /\ \A k \in 0..6 : <<FramingAt(c, S, k), FramingCell(c, S, k)>> \in W
  BY DEF FramingSet
<1> HIDE DEF W
<1>6. IntWrites(W)
  BY <1>3, <1>4 DEF IntWrites
<1>7. PayloadWrites(W, c, t)
  <2> SUFFICES ASSUME NEW w \in W, w[1] # off
               PROVE  \E o \in Int : w[1] = o + t /\ InFraming(c, o)
    BY DEF PayloadWrites
  <2>1. PICK k \in 0..6 : w[1] = FramingAt(c, S, k)
    BY <1>4
  <2> QED
    BY <1>2, <2>1 DEF FramingFree
<1>8. Kept(PackInto(b, W), im, c, S)
  BY <1>6, <1>7, PayloadWritesKeep
<1>9. ASSUME NEW r \in ModuleRefs(c.bun)
      PROVE  /\ Cell(PackInto(b, W), SlotAt(c, r) + t) = Cell(b, SlotAt(c, r) + t)
             /\ Cell(PackInto(b, W), SlotAt(c, r) + t + 1) = Cell(b, SlotAt(c, r) + t + 1)
  <2> DEFINE x == SlotAt(c, r) + t
  <2>1. ASSUME NEW w \in W PROVE w[1] # x /\ w[1] # x + 1
    <3>1. off < x /\ x \in Int
      BY <1>1, SlotRange
    <3>2. off # x /\ off # x + 1
      BY <1>1, <3>1
    <3>3. \A k \in 0..6 : FramingAt(c, S, k) # x /\ FramingAt(c, S, k) # x + 1
      BY <1>2 DEF FramingFree
    <3> QED
      BY <1>4, <3>2, <3>3
  <2>2. /\ \E o \in TableAt(c) .. Len(im) - 1 : x = o + t
        /\ \E o \in TableAt(c) .. Len(im) - 1 : x + 1 = o + t
    BY SlotRange
  <2> HIDE DEF x, t
  <2> QED
    BY <1>6, <2>1, <2>2, PayloadCells DEF x, t
<1>10. PointersAre(PackInto(b, W), c, S, M)
  BY <1>9 DEF PointersAre
<1>11. ASSUME NEW k \in 0..6
       PROVE  Cell(PackInto(b, W), FramingAt(c, S, k)) = FramingCell(c, S, k)
  <2> DEFINE x == FramingAt(c, S, k)
             v == FramingCell(c, S, k)
  <2>1. ASSUME NEW w \in W, w[1] = x PROVE w[2] = v
    <3>1. off # x
      <4>1. off < x
        BY <1>2 DEF FramingFree
      <4>2. x \in Int
        BY <1>1 DEF FramingAt
      <4> QED
        BY <1>1, <4>1, <4>2
    <3>2. PICK j \in 0..6 : w[1] = FramingAt(c, S, j) /\ w[2] = FramingCell(c, S, j)
      BY <1>4, <2>1, <3>1
    <3>3. j = k
      BY <1>1, <2>1, <3>2 DEF FramingAt
    <3> QED
      BY <3>2, <3>3
  <2>2. \E o \in TableAt(c) .. Len(im) - 1 : x = o + t
    BY <1>2 DEF FramingFree
  <2>3. <<x, v>> \in W
    BY <1>5
  <2> HIDE DEF x, v, t
  <2>4. Cell(PackInto(b, W), x) = v
    BY <1>6, <2>1, <2>2, <2>3, PayloadCells DEF t
  <2> QED
    BY <2>4 DEF x, v
<1>12. Cell(PackInto(b, W), off) = c.bun.payload_len + t
  <2>1. ASSUME NEW w \in W, w[1] = off PROVE w[2] = c.bun.payload_len + t
    <3>1. \A k \in 0..6 : FramingAt(c, S, k) # off
      <4> TAKE k \in 0..6
      <4>1. off < FramingAt(c, S, k)
        BY <1>2 DEF FramingFree
      <4>2. FramingAt(c, S, k) \in Int
        BY <1>1 DEF FramingAt
      <4> QED
        BY <1>1, <4>1, <4>2
    <3> QED
      BY <1>4, <2>1, <3>1
  <2> QED
    BY <1>5, <1>6, <2>1, PayloadCells
<1>13. FramingIs(PackInto(b, W), c, S)
  BY <1>11, <1>12, FramingIsCells
<1> QED
  BY <1>8, <1>10, <1>13 DEF W

\* Where no edit changes a length, nothing has to be rewritten.
LEMMA NothingMoves ==
    ASSUME NEW im, NEW c, InContext(im, c), NEW S, PlanIn(c, S),
           NEW s \in Seq(Int), SettledIn(s, S, im), \A e \in S : ~Growable(e)
    PROVE  PointersAre(s, c, S, {}) /\ FramingIs(s, c, S) /\ DeltaSum(S) = 0
<1> DEFINE at == c.bun.offsets_struct_offset
<1>0. EditSet(S) /\ ReadFrom(im, c.bun) /\ c.sp = SpIndex(c.bun)
  BY ContextIs DEF PlanIn
<1>1. \A T : T \subseteq S => DeltaSum(T) = 0
  <2> TAKE T
  <2> HAVE T \subseteq S
  <2>1. EditSet(T) /\ EditSet({}) /\ \A e \in T : ~Growable(e)
    BY <1>0, EditSetPart
  <2>2. DeltaSum(T) = DeltaSum({})
    BY <2>1, SumGrowables
  <2> QED
    BY <2>2, SumNone
<1>2. DeltaSum(S) = 0
  BY <1>1
<1>3. \A o : Past(S, o) = 0
  <2> TAKE o
  <2> DEFINE T == {f \in S : EndOf(f) <= o}
  <2>1. T \subseteq S
    OBVIOUS
  <2> HIDE DEF T
  <2> QED
    BY <1>1, <2>1 DEF Past, T
<1>4. ASSUME NEW r, c.sp[r].length \in Int PROVE NewLength(c, S, r) = c.sp[r].length
  <2> DEFINE T == {e \in S : Growable(e) /\ e.region = r}
  <2>1. T \subseteq S
    OBVIOUS
  <2> HIDE DEF T
  <2>2. DeltaSum(T) = 0
    BY <1>1, <2>1
  <2> QED
    BY <1>4, <2>2 DEF NewLength, T
<1>5. \A sp : sp.offset \in Int => NewOffset(c, S, sp) = sp.offset
  BY <1>3 DEF NewOffset
<1>6. \A o \in TableAt(c) .. Len(im) - 1 : Cell(s, o + 0) = Cell(im, o)
  BY <1>2, KeptSpliced
<1>7. ASSUME NEW r \in ModuleRefs(c.bun)
      PROVE  /\ Cell(s, SlotAt(c, r) + 0) = NewOffset(c, S, c.sp[r])
             /\ Cell(s, SlotAt(c, r) + 0 + 1) = NewLength(c, S, r)
  <2> DEFINE x == SlotAt(c, r)
             table == TableAt(c)
  <2>1. /\ x \in Nat /\ c.sp[r].offset = Cell(im, x) /\ c.sp[r].length = Cell(im, x + 1)
    BY SlotIs
  <2>2. /\ \E o \in table .. Len(im) - 1 : x + 0 = o + 0
        /\ \E o \in table .. Len(im) - 1 : x + 0 + 1 = o + 0
    BY <1>2, SlotRange
  <2>3. table \in Int
    BY BoundsAre DEF Bounds, Frame
  <2>4. c.sp[r].offset \in Int /\ c.sp[r].length \in Int
    BY RegionTypes
  <2> HIDE DEF x, table
  <2>5. x \in table .. Len(im) - 1 /\ x + 1 \in table .. Len(im) - 1
        /\ x + 0 = x /\ x + 0 + 1 = x + 1
    BY <2>1, <2>2, <2>3
  <2>6. Cell(s, x) = Cell(im, x) /\ Cell(s, x + 1) = Cell(im, x + 1)
    BY <1>6, <2>1, <2>5 DEF table
  <2> QED
    BY <1>4, <1>5, <2>1, <2>4, <2>5, <2>6 DEF x
<1>8. PointersAre(s, c, S, {})
  BY <1>2, <1>7 DEF PointersAre
<1>9. ASSUME NEW k \in 0..6
      PROVE  Cell(s, FramingAt(c, S, k)) = FramingCell(c, S, k)
  <2> DEFINE x == FramingAt(c, S, k)
  <2>1. x = at + k /\ at \in Int
    BY <1>2, BoundsAre DEF Bounds, Frame, FramingAt
  <2>2. PICK o \in TableAt(c) .. Len(im) - 1 : x = o + 0
    <3>1. FramingFree(im, c, S, k)
      BY FramingRange
    <3> HIDE DEF x
    <3> QED
      BY <1>2, <3>1 DEF FramingFree, x
  <2>3. Cell(s, x) = Cell(im, at + k)
    <3>1. TableAt(c) \in Int
      BY BoundsAre DEF Bounds, Frame
    <3> HIDE DEF x
    <3>2. o = x /\ o + 0 = x
      BY <2>2, <3>1
    <3> QED
      BY <1>6, <2>1, <3>2
  <2>4. /\ c.bun.byte_count = Cell(im, at) /\ c.bun.modules_ptr = StringPtrAt(im, at + 1)
        /\ c.bun.entry_point_id = Cell(im, at + 3)
        /\ c.bun.compile_exec_argv_ptr = StringPtrAt(im, at + 4)
        /\ c.bun.flags = Cell(im, at + 6)
        /\ c.bun.compile_exec_argv_ptr.offset \in Int
        /\ c.bun.modules_ptr.offset \in Int
    BY <1>0 DEF ReadFrom
  <2>5. at + 0 = at /\ (at + 1) + 1 = at + 2 /\ (at + 4) + 1 = at + 5
    BY <2>1
  <2>6. /\ c.bun.modules_ptr.offset = Cell(im, at + 1)
        /\ c.bun.modules_ptr.length = Cell(im, at + 2)
        /\ c.bun.compile_exec_argv_ptr.offset = Cell(im, at + 4)
        /\ c.bun.compile_exec_argv_ptr.length = Cell(im, at + 5)
    BY <2>4, <2>5 DEF StringPtrAt
  <2>7. /\ NewOffset(c, S, c.bun.compile_exec_argv_ptr) = Cell(im, at + 4)
        /\ c.bun.byte_count + 0 = Cell(im, at + 0)
        /\ c.bun.modules_ptr.offset + 0 = Cell(im, at + 1)
    <3>1. c.bun.byte_count \in Int
      <4>1. /\ c.bun.byte_count = at - c.bun.payload_start
            /\ c.bun.payload_start = c.bun.bun_offset + 1 /\ c.bun.bun_offset \in Nat
        BY <1>0 DEF ReadFrom
      <4> QED
        BY <2>1, <4>1
    <3> HIDE DEF at
    <3> QED
      BY <1>5, <2>4, <2>5, <2>6, <3>1
  <2>8. k = 0 \/ k = 1 \/ k = 2 \/ k = 3 \/ k = 4 \/ k = 5 \/ k = 6
    OBVIOUS
  <2>9. Cell(im, at + k) = FramingCell(c, S, k)
    <3> HIDE DEF at
    <3> QED
      BY <1>2, <2>4, <2>6, <2>7, <2>8 DEF FramingCell
  <2> QED
    BY <2>3, <2>9
<1>10. Cell(s, c.bun.bun_offset) = c.bun.payload_len + DeltaSum(S)
  <2>1. Cell(s, c.bun.bun_offset) = Cell(im, c.bun.bun_offset)
    BY KeptSpliced
  <2>2. /\ c.bun.payload_len = Cell(im, c.bun.bun_offset)
        /\ c.bun.payload_len = c.bun.bun_size - 1 /\ c.bun.bun_size \in Int
    BY <1>0 DEF ReadFrom
  <2>3. c.bun.payload_len + 0 = c.bun.payload_len
    BY <2>2
  <2> QED
    BY <1>2, <2>1, <2>2, <2>3
<1> QED
  BY <1>2, <1>8, <1>9, <1>10, FramingIsCells

-----------------------------------------------------------------------------
(* The steps of apply write what is described above.                       *)

\* Regions have no cell in common, so the one a cell lies in is the one
\* containing_string_pointer finds.
LEMMA CoveredBy ==
    ASSUME NEW im, NEW c, InContext(im, c), NEW r \in Regions(c), NEW o \in Int,
           RegionAt(c, r) <= o, o < RegionEnd(c, r)
    PROVE  ContainingStringPointer(c, o) = r
<1> DEFINE start == c.bun.payload_start
           rel == o - start
           hits == {q \in ModuleRefs(c.bun) : Covers(c.sp[q], rel)}
<1>1. WellFramed(c) /\ start \in Int
  <2>1. WellFramed(c) /\ ReadFrom(im, c.bun)
    BY ContextIs
  <2>2. c.bun.bun_offset \in Nat /\ c.bun.payload_start = c.bun.bun_offset + 1
    BY <2>1 DEF ReadFrom
  <2> QED
    BY <2>1, <2>2
<1>2. \A q \in ModuleRefs(c.bun) \cup {ArgvRef} :
         /\ c.sp[q].offset \in Int /\ c.sp[q].length \in Nat
         /\ RegionAt(c, q) = start + c.sp[q].offset
         /\ RegionEnd(c, q) = start + c.sp[q].offset + c.sp[q].length
  BY RegionTypes DEF RegionAt, RegionEnd
<1>3. r \in ModuleRefs(c.bun) \cup {ArgvRef} /\ c.sp[r].length > 0
  BY DEF Regions
<1> HIDE DEF start
<1>4. ASSUME NEW q \in ModuleRefs(c.bun) \cup {ArgvRef}
      PROVE  Covers(c.sp[q], rel) <=>
                 c.sp[q].length > 0 /\ RegionAt(c, q) <= o /\ o < RegionEnd(c, q)
  <2> DEFINE x == c.sp[q].offset
             l == c.sp[q].length
  <2>1. x \in Int /\ l \in Nat /\ RegionAt(c, q) = start + x /\ RegionEnd(c, q) = start + x + l
    BY <1>2
  <2>2. Covers(c.sp[q], rel) <=> l > 0 /\ x <= rel /\ rel < x + l
    BY DEF Covers
  <2> HIDE DEF x, l
  <2>3. (x <= rel <=> start + x <= o) /\ (rel < x + l <=> o < start + x + l)
    BY <1>1, <2>1
  <2> QED
    BY <2>1, <2>2, <2>3 DEF l
<1>5. Covers(c.sp[r], rel)
  BY <1>3, <1>4
<1>6. ASSUME NEW q \in ModuleRefs(c.bun) \cup {ArgvRef}, Covers(c.sp[q], rel)
      PROVE  q = r
  <2> SUFFICES ASSUME q # r PROVE FALSE
    OBVIOUS
  <2>1. q \in Regions(c) /\ RegionAt(c, q) <= o /\ o < RegionEnd(c, q)
    BY <1>4, <1>6 DEF Regions
  <2>2. RegionEnd(c, q) <= RegionAt(c, r) \/ RegionEnd(c, r) <= RegionAt(c, q)
    BY <1>1, <2>1 DEF WellFramed
  <2>3. /\ RegionAt(c, q) \in Int /\ RegionEnd(c, q) \in Int
        /\ RegionAt(c, r) \in Int /\ RegionEnd(c, r) \in Int
    BY <1>3, RegionTypes
  <2> QED
    BY <2>1, <2>2, <2>3
<1> HIDE DEF rel
<1>7. CASE r \in ModuleRefs(c.bun)
  <2>1. hits = {r}
    BY <1>5, <1>6, <1>7
  <2>2. Precedes(r, r)
    BY <1>7, RefIs, FieldIndexIs DEF Precedes
  <2>3. hits # {} /\ (CHOOSE q \in hits : \A s \in hits : Precedes(q, s)) = r
    <3> HIDE DEF hits
    <3> QED
      BY <2>1, <2>2
  <2> QED
    BY <2>3 DEF ContainingStringPointer, rel, start
<1>8. CASE r \notin ModuleRefs(c.bun)
  <2>1. r = ArgvRef
    BY <1>3, <1>8
  <2>2. hits = {}
    BY <1>6, <1>8
  <2> QED
    BY <1>5, <2>1, <2>2 DEF ContainingStringPointer, rel, start
<1> QED
  BY <1>7, <1>8

\* The region of an edit.
LEMMA EditRegion ==
    ASSUME NEW im, NEW c, InContext(im, c), NEW S, PlanIn(c, S), NEW e \in S,
           NEW r \in Regions(c), RegionAt(c, r) <= e.offset, EndOf(e) <= RegionEnd(c, r)
    PROVE  ContainingStringPointer(c, e.offset) = r
<1>1. e \in Edit /\ Len(e.old) > 0
  BY DEF PlanIn, EditSet
<1>2. e.offset \in Nat /\ Len(e.old) \in Nat /\ EndOf(e) = e.offset + Len(e.old)
  BY <1>1, EditTypes
<1>3. RegionEnd(c, r) \in Int
  BY RegionTypes DEF Regions
<1>4. e.offset < RegionEnd(c, r)
  BY <1>1, <1>2, <1>3
<1>5. e.offset \in Int
  BY <1>2
<1> QED
  BY <1>4, <1>5, CoveredBy

LEMMA TouchedAreModules ==
    ASSUME NEW im, InContext(im, ctx), PlanIn(ctx, InPlan)
    PROVE  /\ TouchedModules \subseteq DOMAIN ctx.bun.modules
           /\ \A e \in InPlan, r \in Regions(ctx) :
                 /\ RegionAt(ctx, r) <= e.offset /\ EndOf(e) <= RegionEnd(ctx, r)
                 /\ r.kind = "module"
                 => r.index \in TouchedModules
<1>1. ASSUME NEW k \in 1..N, ContainingStringPointer(ctx, edits[k].offset).kind = "module"
      PROVE  ContainingStringPointer(ctx, edits[k].offset).index \in DOMAIN ctx.bun.modules
  <2> DEFINE e == edits[k]
  <2>1. e \in InPlan
    BY DEF InPlan
  <2> HIDE DEF e
  <2>2. PICK r \in Regions(ctx) :
            RegionAt(ctx, r) <= e.offset /\ EndOf(e) <= RegionEnd(ctx, r)
    BY <2>1 DEF PlanIn
  <2>3. ContainingStringPointer(ctx, e.offset) = r
    BY <2>1, <2>2, EditRegion
  <2>4. r \in ModuleRefs(ctx.bun)
    <3>1. r.kind = "module" /\ r \in ModuleRefs(ctx.bun) \cup {ArgvRef}
      BY <1>1, <2>3 DEF e, Regions
    <3> QED
      BY <3>1 DEF ArgvRef
  <2> QED
    BY <2>3, <2>4, RefIs DEF e
<1>2. TouchedModules \subseteq DOMAIN ctx.bun.modules
  BY <1>1 DEF TouchedModules
<1>3. ASSUME NEW e \in InPlan, NEW r \in Regions(ctx),
             RegionAt(ctx, r) <= e.offset, EndOf(e) <= RegionEnd(ctx, r), r.kind = "module"
      PROVE  r.index \in TouchedModules
  <2>1. PICK k \in 1..N : e = edits[k]
    BY DEF InPlan
  <2>2. ContainingStringPointer(ctx, edits[k].offset) = r
    BY <1>3, <2>1, EditRegion
  <2> QED
    BY <1>3, <2>2 DEF TouchedModules
<1> QED
  BY <1>2, <1>3

\* How far _shift_past moves the parts of the payload behind the texts.
LEMMA ShiftIs ==
    ASSUME OrderInv, ContextInv, Accepted
    PROVE  /\ TotalDelta = DeltaSum(InPlan)
           /\ \A o \in Int : TableAt(ctx) <= o => ShiftPast(o) = DeltaSum(InPlan)
           /\ \A sp : (IF sp.length = 0 THEN sp.offset
                       ELSE sp.offset + ShiftPast(sp.offset + ctx.bun.payload_start))
                      = NewOffset(ctx, InPlan, sp)
<1>1. InContext(image, ctx) /\ PlanIn(ctx, InPlan)
  BY PlanIsIn
<1>2. /\ TotalDelta = DeltaSum(InPlan)
      /\ \A o : ShiftPast(o) = Past(InPlan, o)
  BY PlanShifts
<1>3. \A o \in Int : TableAt(ctx) <= o => Past(InPlan, o) = DeltaSum(InPlan)
  BY <1>1, BoundsAre
<1> QED
  BY <1>2, <1>3 DEF NewOffset

LEMMA StringPointerWritesAre ==
    ASSUME OrderInv, ContextInv, Accepted
    PROVE  StringPointerWrites = PointerWrites(ctx, InPlan)
<1> DEFINE t == DeltaSum(InPlan)
           base(r) == ctx.bun.modules[r.index].base
           slot(r) == base(r) + ShiftPast(base(r)) + 2 * FieldIndex(r.field)
           grown(r) == ctx.sp[r].length
                       + MapThenSumSet(Delta, {e \in GrowableEdits : e.region = r})
           moved(sp) == IF sp.length = 0 THEN sp.offset
                        ELSE sp.offset + ShiftPast(sp.offset + ctx.bun.payload_start)
<1>1. InContext(image, ctx) /\ PlanIn(ctx, InPlan)
  BY PlanIsIn
<1>2. t \in Int
  BY <1>1, EditSum DEF PlanIn
<1>3. ASSUME NEW r \in ModuleRefs(ctx.bun)
      PROVE  slot(r) = SlotAt(ctx, r) + t
  <2>1. /\ base(r) \in Nat /\ TableAt(ctx) <= base(r) /\ FieldIndex(r.field) \in 0..5
        /\ SlotAt(ctx, r) = base(r) + 2 * FieldIndex(r.field)
    BY <1>1, SlotIs DEF SlotAt
  <2>2. ShiftPast(base(r)) = t
    BY <2>1, ShiftIs
  <2> HIDE DEF t, base
  <2> QED
    BY <1>2, <2>1, <2>2
<1>4. \A sp : moved(sp) = NewOffset(ctx, InPlan, sp)
  BY ShiftIs
<1>5. ASSUME NEW r PROVE grown(r) = NewLength(ctx, InPlan, r)
  <2>1. {e \in GrowableEdits : e.region = r} = {e \in InPlan : Growable(e) /\ e.region = r}
    BY GrowablesInPlan
  <2> QED
    BY <2>1 DEF NewLength, DeltaSum
<1>6. StringPointerWrites =
        {<<slot(r), moved(ctx.sp[r])>> : r \in ModuleRefs(ctx.bun)}
        \cup {<<slot(r) + 1, grown(r)>> : r \in ModuleRefs(ctx.bun)}
  BY DEF StringPointerWrites
<1> HIDE DEF slot, grown, moved, t
<1>7. {<<slot(r), moved(ctx.sp[r])>> : r \in ModuleRefs(ctx.bun)} =
        {<<SlotAt(ctx, r) + t, NewOffset(ctx, InPlan, ctx.sp[r])>> : r \in ModuleRefs(ctx.bun)}
  BY <1>3, <1>4
<1>8. {<<slot(r) + 1, grown(r)>> : r \in ModuleRefs(ctx.bun)} =
        {<<SlotAt(ctx, r) + t + 1, NewLength(ctx, InPlan, r)>> : r \in ModuleRefs(ctx.bun)}
  BY <1>3, <1>5
<1> QED
  BY <1>6, <1>7, <1>8 DEF PointerWrites, t

LEMMA BytecodeWritesAre ==
    ASSUME OrderInv, ContextInv, Accepted
    PROVE  BytecodeWrites = BytecodeSlots(ctx, DeltaSum(InPlan), TouchedModules)
<1> DEFINE t == DeltaSum(InPlan)
           base(m) == ctx.bun.modules[m].base
           slot(m) == base(m) + ShiftPast(base(m)) + 2 * FieldIndex("bytecode")
           at(m) == SlotAt(ctx, ModuleRef(m, "bytecode"))
<1>1. InContext(image, ctx) /\ PlanIn(ctx, InPlan)
  BY PlanIsIn
<1>2. t \in Int
  BY <1>1, EditSum DEF PlanIn
<1>3. ASSUME NEW m \in TouchedModules
      PROVE  slot(m) = at(m) + t
  <2>1. m \in DOMAIN ctx.bun.modules
    BY <1>1, TouchedAreModules
  <2>2. ModuleRef(m, "bytecode") \in ModuleRefs(ctx.bun)
    BY <2>1, BytecodeIsField, SpIs
  <2>3. /\ base(m) \in Nat /\ TableAt(ctx) <= base(m) /\ FieldIndex("bytecode") \in 0..5
        /\ at(m) = base(m) + 2 * FieldIndex("bytecode")
    BY <1>1, <2>2, SlotIs DEF SlotAt, ModuleRef
  <2>4. ShiftPast(base(m)) = t
    BY <2>3, ShiftIs
  <2> HIDE DEF t, base, at
  <2> QED
    BY <1>2, <2>3, <2>4
<1>4. BytecodeWrites = UNION {{<<slot(m), 0>>, <<slot(m) + 1, 0>>} : m \in TouchedModules}
  BY DEF BytecodeWrites
<1>5. BytecodeSlots(ctx, t, TouchedModules) =
        UNION {{<<at(m) + t, 0>>, <<at(m) + t + 1, 0>>} : m \in TouchedModules}
  BY DEF BytecodeSlots
<1> HIDE DEF slot, at, t
<1>6. \A m \in TouchedModules :
        {<<slot(m), 0>>, <<slot(m) + 1, 0>>} = {<<at(m) + t, 0>>, <<at(m) + t + 1, 0>>}
  BY <1>3
<1>7. {{<<slot(m), 0>>, <<slot(m) + 1, 0>>} : m \in TouchedModules} =
        {{<<at(m) + t, 0>>, <<at(m) + t + 1, 0>>} : m \in TouchedModules}
  BY <1>6
<1> QED
  BY <1>4, <1>5, <1>7 DEF t

LEMMA FramingWritesAre ==
    ASSUME OrderInv, ContextInv, Accepted
    PROVE  FramingWrites = FramingSet(ctx, InPlan)
<1> DEFINE t == DeltaSum(InPlan)
           bun == ctx.bun
           struct == bun.offsets_struct_offset
           mods == bun.modules_ptr
           x == struct + ShiftPast(struct)
<1>1. InContext(image, ctx) /\ PlanIn(ctx, InPlan)
  BY PlanIsIn
<1>2. t \in Int /\ struct \in Nat /\ TableAt(ctx) <= struct /\ TableAt(ctx) \in Nat
  <2>1. Bounds(image, ctx, t)
    BY <1>1, BoundsAre
  <2> DEFINE L == Len(image)
             off == bun.bun_offset
             size == bun.bun_size
             start == bun.payload_start
             table == TableAt(ctx)
             len == mods.length
  <2>2. Frame(L, t, off, size, start, table, len, struct)
    BY <2>1 DEF Bounds
  <2> HIDE DEF L, off, size, start, table, len, struct, t
  <2>3. t \in Int /\ struct \in Nat /\ table <= struct /\ table \in Nat
    BY <2>2 DEF Frame
  <2> QED
    BY <2>3 DEF table
<1>3. ShiftPast(struct) = t
  BY <1>2, ShiftIs
<1>4. TableAt(ctx) = mods.offset + bun.payload_start
  <2>1. ReadFrom(image, bun)
    BY <1>1, ContextIs
  <2>2. bun.bun_offset \in Nat /\ bun.payload_start = bun.bun_offset + 1 /\ mods.offset \in Int
    BY <2>1 DEF ReadFrom
  <2>3. TableAt(ctx) = bun.payload_start + mods.offset
    BY DEF TableAt
  <2> QED
    BY <2>2, <2>3
<1>5. ShiftPast(mods.offset + bun.payload_start) = t
  BY <1>2, <1>4, ShiftIs
<1>6. ArgvOffset = NewOffset(ctx, InPlan, bun.compile_exec_argv_ptr)
  <2> DEFINE argv == bun.compile_exec_argv_ptr
  <2>1. argv.offset \in Int /\ argv.length \in Nat
    <3>1. ctx.sp[ArgvRef] = argv
      <4>1. ctx.sp = SpIndex(ctx.bun)
        BY <1>1, ContextIs
      <4>2. SpIndex(ctx.bun)[ArgvRef] = ctx.bun.compile_exec_argv_ptr
        BY SpIs
      <4> QED
        BY <4>1, <4>2
    <3>2. ctx.sp[ArgvRef].offset \in Int /\ ctx.sp[ArgvRef].length \in Nat
      BY <1>1, RegionTypes
    <3> QED
      BY <3>1, <3>2
  <2>2. ArgvOffset = argv.offset + IF argv.length > 0
                                   THEN ShiftPast(argv.offset + bun.payload_start) ELSE 0
    BY DEF ArgvOffset
  <2>3. NewOffset(ctx, InPlan, argv) =
           IF argv.length = 0 THEN argv.offset
           ELSE argv.offset + ShiftPast(argv.offset + bun.payload_start)
    BY ShiftIs
  <2> HIDE DEF argv
  <2> QED
    BY <2>1, <2>2, <2>3 DEF argv
<1>7. FramingWrites =
        {<<bun.bun_offset, bun.payload_len + t>>, <<x, bun.byte_count + t>>,
         <<x + 1, mods.offset + t>>, <<x + 2, mods.length>>, <<x + 3, bun.entry_point_id>>,
         <<x + 4, NewOffset(ctx, InPlan, bun.compile_exec_argv_ptr)>>,
         <<x + 5, bun.compile_exec_argv_ptr.length>>, <<x + 6, bun.flags>>}
  BY <1>5, <1>6, ShiftIs DEF FramingWrites
<1>8. /\ FramingAt(ctx, InPlan, 0) = x
      /\ \A k \in 1..6 : FramingAt(ctx, InPlan, k) = x + k
  <2>1. x = struct + t
    BY <1>3
  <2>2. \A k : FramingAt(ctx, InPlan, k) = struct + t + k
    BY DEF FramingAt
  <2> HIDE DEF x, t, struct
  <2> QED
    BY <1>2, <2>1, <2>2
<1>9. {<<FramingAt(ctx, InPlan, k), FramingCell(ctx, InPlan, k)>> : k \in 0..6} =
        {<<x, bun.byte_count + t>>,
         <<x + 1, mods.offset + t>>, <<x + 2, mods.length>>, <<x + 3, bun.entry_point_id>>,
         <<x + 4, NewOffset(ctx, InPlan, bun.compile_exec_argv_ptr)>>,
         <<x + 5, bun.compile_exec_argv_ptr.length>>, <<x + 6, bun.flags>>}
  <2> DEFINE pair(k) == <<FramingAt(ctx, InPlan, k), FramingCell(ctx, InPlan, k)>>
  <2>1. 0..6 = {0, 1, 2, 3, 4, 5, 6}
    OBVIOUS
  <2>2. /\ pair(0) = <<x, bun.byte_count + t>>
        /\ pair(1) = <<x + 1, mods.offset + t>>
        /\ pair(2) = <<x + 2, mods.length>>
        /\ pair(3) = <<x + 3, bun.entry_point_id>>
        /\ pair(4) = <<x + 4, NewOffset(ctx, InPlan, bun.compile_exec_argv_ptr)>>
        /\ pair(5) = <<x + 5, bun.compile_exec_argv_ptr.length>>
        /\ pair(6) = <<x + 6, bun.flags>>
    <3> HIDE DEF x
    <3> QED
      BY <1>8 DEF FramingCell
  <2>3. {pair(k) : k \in 0..6} = {pair(0), pair(1), pair(2), pair(3), pair(4), pair(5), pair(6)}
    <3> HIDE DEF pair
    <3> QED
      BY <2>1
  <2> QED
    BY <2>2, <2>3
<1> HIDE DEF x
<1> QED
  BY <1>7, <1>9 DEF FramingSet

-----------------------------------------------------------------------------
(* What apply has written at each stage.                                   *)

\* The pointers and framing of the payload are rewritten.
PayloadDone(b, im, c, S, M) ==
    Kept(b, im, c, S) /\ PointersAre(b, c, S, M) /\ FramingIs(b, c, S)

\* The container's headers are rewritten, where there is anything to rewrite.
ContainerDone(b, p, c, S) ==
    \/ b = p /\ \A e \in S : ~Growable(e)
    \/ /\ c.is_elf
       /\ b = PackInto(p, ElfHeaderWrites(c.layout, c.bun, DeltaSum(S)))
    \/ /\ ~c.is_elf
       /\ PaddingAccepted(p, c.layout, c.bun, DeltaSum(S))
       /\ b = PackInto(Repad(p, c.layout, c.bun, DeltaSum(S)),
                       MachOHeaderWrites(c.layout, c.bun, DeltaSum(S)))

PhaseInv ==
    /\ pc = "bytecode" =>
          /\ Kept(buf, image, ctx, InPlan) /\ PointersAre(buf, ctx, InPlan, {})
          /\ GrowableEdits = {} => FramingIs(buf, ctx, InPlan)
    /\ pc = "framing" =>
          /\ Kept(buf, image, ctx, InPlan) /\ PointersAre(buf, ctx, InPlan, TouchedModules)
    /\ pc = "container" => PayloadDone(buf, image, ctx, InPlan, TouchedModules)
    /\ pc = "done" => \E p : /\ PayloadDone(p, image, ctx, InPlan, TouchedModules)
                             /\ ContainerDone(buf, p, ctx, InPlan)

LEMMA PhaseInit == Init => PhaseInv
  BY DEF Init, PhaseInv

LEMMA PlanKept ==
    ASSUME edits' = edits, ctx' = ctx
    PROVE  /\ InPlan' = InPlan /\ GrowableEdits' = GrowableEdits
           /\ TouchedModules' = TouchedModules
<1>1. N' = N
  BY DEF N
<1> QED
  BY <1>1 DEF InPlan, GrowableEdits, TouchedModules

LEMMA PhaseStep ==
    OrderInv /\ PlaceInv /\ ContextInv /\ PhaseInv /\ [Next]_vars => PhaseInv'
<1> SUFFICES ASSUME OrderInv, PlaceInv, ContextInv, PhaseInv, [Next]_vars
             PROVE  PhaseInv'
  OBVIOUS
<1> USE DEF PhaseInv
<1>1. CASE pc' \in {"sort", "overlaps", "same_length", "growable", "rejected",
                    "mismatch", "refused"}
  BY <1>1
<1>2. CASE SameLengthDone /\ GrowableEdits = {}
  <2>1. /\ pc = "same_length" /\ i > N /\ pc' = "bytecode" /\ buf' = buf
        /\ image' = image /\ ctx' = ctx /\ edits' = edits
    BY <1>2 DEF SameLengthDone
  <2>2. Accepted /\ buf \in Seq(Int)
    BY <2>1 DEF Accepted, OrderInv, SplicePhase
  <2>3. SettledIn(buf, InPlan, image)
    BY <1>2, <2>1, <2>2, FirstLoopDone DEF PlaceInv, Settled
  <2>4. InContext(image, ctx) /\ PlanIn(ctx, InPlan)
    BY <2>2, PlanIsIn
  <2>5. \A e \in InPlan : ~Growable(e)
    BY <1>2, GrowablesInPlan
  <2>6. /\ Kept(buf, image, ctx, InPlan) /\ PointersAre(buf, ctx, InPlan, {})
        /\ FramingIs(buf, ctx, InPlan)
    BY <2>2, <2>3, <2>4, <2>5, KeptSpliced, NothingMoves
  <2> QED
    BY <2>1, <2>6, PlanKept
<1>3. CASE RewriteStringPointers
  <2>1. /\ pc = "growable" /\ i < 1 /\ pc' = "bytecode"
        /\ buf' = PackInto(buf, StringPointerWrites)
        /\ image' = image /\ ctx' = ctx /\ edits' = edits
    BY <1>3 DEF RewriteStringPointers
  <2>2. Accepted /\ buf \in Seq(Int)
    BY <2>1 DEF Accepted, OrderInv, SplicePhase
  <2>3. SettledIn(buf, InPlan, image) /\ GrowableEdits # {}
    BY <2>1, <2>2, SecondLoopDone DEF PlaceInv, Settled
  <2>4. InContext(image, ctx) /\ PlanIn(ctx, InPlan)
    BY <2>2, PlanIsIn
  <2>5. Kept(buf, image, ctx, InPlan)
    BY <2>2, <2>3, <2>4, KeptSpliced
  <2>6. buf' = PackInto(buf, PointerWrites(ctx, InPlan))
    BY <2>1, <2>2, StringPointerWritesAre
  <2>7. Kept(buf', image, ctx, InPlan) /\ PointersAre(buf', ctx, InPlan, {})
    BY <2>4, <2>5, <2>6, PointersWritten
  <2> QED
    BY <2>1, <2>3, <2>7, PlanKept
<1>4. CASE InvalidateBytecode
  <2>1. /\ pc = "bytecode" /\ pc' = (IF GrowableEdits = {} THEN "done" ELSE "framing")
        /\ buf' = PackInto(buf, BytecodeWrites)
        /\ image' = image /\ ctx' = ctx /\ edits' = edits
    BY <1>4 DEF InvalidateBytecode
  <2>2. Accepted
    BY <2>1 DEF Accepted
  <2>3. InContext(image, ctx) /\ PlanIn(ctx, InPlan)
    BY <2>2, PlanIsIn
  <2>4. /\ Kept(buf, image, ctx, InPlan) /\ PointersAre(buf, ctx, InPlan, {})
        /\ GrowableEdits = {} => FramingIs(buf, ctx, InPlan)
    BY <2>1
  <2>5. buf' = PackInto(buf, BytecodeSlots(ctx, DeltaSum(InPlan), TouchedModules))
    BY <2>1, <2>2, BytecodeWritesAre
  <2>6. TouchedModules \subseteq DOMAIN ctx.bun.modules
    BY <2>3, TouchedAreModules
  <2>7. /\ Kept(buf', image, ctx, InPlan)
        /\ PointersAre(buf', ctx, InPlan, TouchedModules)
        /\ GrowableEdits = {} => FramingIs(buf', ctx, InPlan)
    BY <2>3, <2>4, <2>5, <2>6, BytecodeWritten
  <2>8. CASE GrowableEdits = {}
    <3>1. \A e \in InPlan : ~Growable(e)
      BY <2>8, GrowablesInPlan
    <3>2. /\ PayloadDone(buf', image, ctx, InPlan, TouchedModules)
          /\ ContainerDone(buf', buf', ctx, InPlan)
      BY <2>7, <2>8, <3>1 DEF PayloadDone, ContainerDone
    <3> QED
      BY <2>1, <2>8, <3>2, PlanKept
  <2>9. CASE GrowableEdits # {}
    BY <2>1, <2>7, <2>9, PlanKept
  <2> QED
    BY <2>8, <2>9
<1>5. CASE RewriteBunFraming
  <2>1. /\ pc = "framing" /\ pc' = "container" /\ buf' = PackInto(buf, FramingWrites)
        /\ image' = image /\ ctx' = ctx /\ edits' = edits
    BY <1>5 DEF RewriteBunFraming
  <2>2. Accepted
    BY <2>1 DEF Accepted
  <2>3. InContext(image, ctx) /\ PlanIn(ctx, InPlan)
    BY <2>2, PlanIsIn
  <2>4. Kept(buf, image, ctx, InPlan) /\ PointersAre(buf, ctx, InPlan, TouchedModules)
    BY <2>1
  <2>5. buf' = PackInto(buf, FramingSet(ctx, InPlan))
    BY <2>1, <2>2, FramingWritesAre
  <2>6. PayloadDone(buf', image, ctx, InPlan, TouchedModules)
    BY <2>3, <2>4, <2>5, FramingWritten DEF PayloadDone
  <2> QED
    BY <2>1, <2>6, PlanKept
<1>6. CASE RewriteElfHeaders
  <2>1. /\ pc = "container" /\ ctx.is_elf /\ pc' = "done"
        /\ buf' = PackInto(buf, ElfHeaderWrites(ctx.layout, ctx.bun, TotalDelta))
        /\ image' = image /\ ctx' = ctx /\ edits' = edits
    BY <1>6 DEF RewriteElfHeaders
  <2>2. Accepted
    BY <2>1 DEF Accepted
  <2>3. TotalDelta = DeltaSum(InPlan)
    BY <2>2, PlanShifts
  <2>4. PayloadDone(buf, image, ctx, InPlan, TouchedModules)
    BY <2>1
  <2>5. ContainerDone(buf', buf, ctx, InPlan)
    BY <2>1, <2>3 DEF ContainerDone
  <2> QED
    BY <2>1, <2>4, <2>5, PlanKept
<1>7. CASE RewriteMachOHeaders /\ pc' = "done"
  <2>1. /\ pc = "container" /\ ~ctx.is_elf
        /\ PaddingAccepted(buf, ctx.layout, ctx.bun, TotalDelta)
        /\ buf' = PackInto(Repad(buf, ctx.layout, ctx.bun, TotalDelta),
                           MachOHeaderWrites(ctx.layout, ctx.bun, TotalDelta))
        /\ image' = image /\ ctx' = ctx /\ edits' = edits
    BY <1>7 DEF RewriteMachOHeaders
  <2>2. Accepted
    BY <2>1 DEF Accepted
  <2>3. TotalDelta = DeltaSum(InPlan)
    BY <2>2, PlanShifts
  <2>4. PayloadDone(buf, image, ctx, InPlan, TouchedModules)
    BY <2>1
  <2>5. ContainerDone(buf', buf, ctx, InPlan)
    BY <2>1, <2>3 DEF ContainerDone
  <2> QED
    BY <1>7, <2>4, <2>5, <2>1, PlanKept
<1>8. CASE UNCHANGED vars
  <2>1. pc' = pc /\ buf' = buf /\ image' = image /\ ctx' = ctx /\ edits' = edits
    BY <1>8 DEF vars
  <2> QED
    BY <2>1, PlanKept
<1>9. CASE ~UNCHANGED vars /\ ~Rewrites
  <2>1. \/ pc' \in {"sort", "overlaps", "same_length", "growable", "rejected", "mismatch"}
        \/ SameLengthDone /\ GrowableEdits = {}
    BY <1>9 DEF Next, Rewrites, Sort, CheckNeighbours, CheckRegions, SpliceSameLength,
                SameLengthDone, SpliceGrowable, VerifyAndSplice, Finished
  <2> QED
    BY <1>1, <1>2, <2>1
<1>10. CASE Rewrites
  <2>1. RewriteMachOHeaders => pc' \in {"done", "refused"}
    BY DEF RewriteMachOHeaders
  <2> QED
    BY <1>1, <1>3, <1>4, <1>5, <1>6, <1>7, <1>10, <2>1 DEF Rewrites
<1> QED
  BY <1>8, <1>9, <1>10

-----------------------------------------------------------------------------
(* The headers of a rewritten ELF image.                                   *)

\* What is outside .bun is where it was, or has moved with what is behind it.
LEMMA KeptOutside ==
    ASSUME NEW im, NEW c, InContext(im, c), NEW S, PlanIn(c, S), NEW b, Kept(b, im, c, S)
    PROVE  /\ b \in Seq(Int) /\ Len(b) = Len(im) + DeltaSum(S)
           /\ \A o \in 0 .. c.bun.bun_offset - 1 : Cell(b, o) = Cell(im, o)
           /\ \A o \in c.bun.bun_offset + c.bun.bun_size .. Len(im) - 1 :
                 Cell(b, o + DeltaSum(S)) = Cell(im, o)
<1> DEFINE L == Len(im)
           t == DeltaSum(S)
           off == c.bun.bun_offset
           size == c.bun.bun_size
           start == c.bun.payload_start
           table == TableAt(c)
           len == c.bun.modules_ptr.length
           at == c.bun.offsets_struct_offset
<1>1. Frame(L, t, off, size, start, table, len, at)
  BY BoundsAre DEF Bounds
<1>2. ASSUME NEW o \in off + size .. L - 1
      PROVE  Cell(b, o + t) = Cell(im, o)
  <2>1. ~InPointers(c, o)
    <3>1. ASSUME NEW r \in ModuleRefs(c.bun)
          PROVE  o # SlotAt(c, r) /\ o # SlotAt(c, r) + 1
      <4> DEFINE x == SlotAt(c, r)
      <4>1. x \in Nat /\ x + 2 <= at
        BY SlotRange
      <4> HIDE DEF x, L, t, off, size, start, table, len, at
      <4>2. o # x /\ o # x + 1
        BY <1>1, <4>1 DEF Frame
      <4> QED
        BY <4>2 DEF x
    <3> QED
      BY <3>1 DEF InPointers
  <2>2. ~InFraming(c, o) /\ o \in table .. L - 1
    <3>1. InFraming(c, o) <=> at <= o /\ o <= at + 6
      BY DEF InFraming
    <3> HIDE DEF L, t, off, size, start, table, len, at
    <3>2. ~(at <= o /\ o <= at + 6) /\ o \in table .. L - 1
      BY <1>1 DEF Frame
    <3> QED
      BY <3>1, <3>2
  <2> QED
    BY <2>1, <2>2 DEF Kept
<1> QED
  BY <1>2 DEF Kept

\* Where the tables of an image of L cells are, ph and sh with pn and sn entries,
\* when the section table moves by shift.
ElfFrame(L, t, off, size, ph, pn, sh, sn, shift) ==
    /\ L \in Nat /\ t \in Int /\ off \in Nat /\ size \in Nat
    /\ off + size <= L /\ 9 <= size + t
    /\ ph \in Nat /\ pn \in Nat /\ sh \in Nat /\ sn \in Nat
    /\ 5 <= ph /\ ph + pn * 3 <= off /\ 5 <= sh /\ sh + sn * 3 <= L
    /\ \/ shift = t /\ off < sh /\ off + size <= sh
       \/ shift = 0 /\ sh <= off /\ sh + sn * 3 <= off
    /\ ph + pn * 3 <= sh \/ sh + sn * 3 <= ph

LEMMA ElfFrameIs ==
    ASSUME NEW im, NEW c, InContext(im, c), c.is_elf, NEW S, PlanIn(c, S)
    PROVE  ElfFrame(Len(im), DeltaSum(S), c.bun.bun_offset, c.bun.bun_size,
                    Cell(im, 1), Cell(im, 2), c.layout.e_shoff, Cell(im, 4),
                    ShdrTableShift(c.layout, c.bun, DeltaSum(S)))
<1> DEFINE L == Len(im)
           t == DeltaSum(S)
           off == c.bun.bun_offset
           size == c.bun.bun_size
           start == c.bun.payload_start
           table == TableAt(c)
           len == c.bun.modules_ptr.length
           at == c.bun.offsets_struct_offset
           ph == Cell(im, 1)
           pn == Cell(im, 2)
           sh == c.layout.e_shoff
           sn == Cell(im, 4)
           shift == ShdrTableShift(c.layout, c.bun, t)
<1>1. Frame(L, t, off, size, start, table, len, at)
  BY BoundsAre DEF Bounds
<1>2. c.layout = ElfParse(im) /\ ElfReadable(im) /\ ElfWellPlaced(im, c) /\ im \in Seq(Int)
  BY ContextIs DEF InContext
<1>3. sh = Cell(im, 3)
  BY <1>2, ElfReads
<1>4. ph \in Int /\ pn \in Int /\ sh \in Int /\ sn \in Int
  BY <1>2, <1>3, ElfReads
<1>5. ph >= 0 /\ sh >= 0 /\ sh + sn * 3 <= L
  BY <1>2, <1>3 DEF ElfReadable, Readable, SHDR_SIZE
<1>6. /\ pn >= 0 /\ sn >= 0 /\ 5 <= ph /\ ph + pn * 3 <= off /\ 5 <= sh
      /\ IF Behind(c.bun, sh) THEN off + size <= sh ELSE sh + sn * 3 <= off
      /\ ph + pn * 3 <= sh \/ sh + sn * 3 <= ph
  BY <1>2 DEF ElfWellPlaced, EHDR_SIZE, PHDR_SIZE, SHDR_SIZE
<1>7. shift = IF Behind(c.bun, sh) THEN t ELSE 0
  BY DEF ShdrTableShift
<1>8. Behind(c.bun, sh) <=> sh > off
  BY DEF Behind
<1> HIDE DEF L, t, off, size, start, table, len, at, ph, pn, sh, sn, shift
<1>9. L \in Nat /\ t \in Int /\ off \in Nat /\ size \in Nat /\ off + size <= L
      /\ 9 <= size + t
  BY <1>1 DEF Frame
<1>10. \/ shift = t /\ off < sh /\ off + size <= sh
       \/ shift = 0 /\ sh <= off /\ sh + sn * 3 <= off
  BY <1>4, <1>6, <1>7, <1>8, <1>9
<1>11. ElfFrame(L, t, off, size, ph, pn, sh, sn, shift)
  BY <1>4, <1>5, <1>6, <1>9, <1>10 DEF ElfFrame
<1> QED
  BY <1>11 DEF L, t, off, size, ph, pn, sh, sn, shift

\* Where the header of section n is in the output.
SectionSlot(c, t, n) == c.layout.sections[n].header + ShdrTableShift(c.layout, c.bun, t)

\* Three cells at x in an input of L cells that are found at y in the output:
\* outside .bun, and behind the file header.
Outside(L, t, off, size, x, y) ==
    /\ x \in Nat /\ y \in Nat /\ 5 <= x /\ 5 <= y
    /\ \/ y = x /\ x + 3 <= off
       \/ y = x + t /\ off + size <= x /\ x + 3 <= L

HeaderApart(x, y) == x + 3 <= y \/ y + 3 <= x

LEMMA ElfSlots ==
    ASSUME NEW im, NEW c, InContext(im, c), c.is_elf, NEW S, PlanIn(c, S)
    PROVE  /\ \A n \in DOMAIN c.layout.sections :
                 Outside(Len(im), DeltaSum(S), c.bun.bun_offset, c.bun.bun_size,
                         c.layout.sections[n].header, SectionSlot(c, DeltaSum(S), n))
           /\ \A n \in DOMAIN c.layout.segments :
                 Outside(Len(im), DeltaSum(S), c.bun.bun_offset, c.bun.bun_size,
                         c.layout.segments[n].header, c.layout.segments[n].header)
           /\ \A n, m \in DOMAIN c.layout.sections :
                 n # m => HeaderApart(SectionSlot(c, DeltaSum(S), n),
                                      SectionSlot(c, DeltaSum(S), m))
           /\ \A n, m \in DOMAIN c.layout.segments :
                 n # m => HeaderApart(c.layout.segments[n].header,
                                      c.layout.segments[m].header)
           /\ \A n \in DOMAIN c.layout.sections, m \in DOMAIN c.layout.segments :
                 HeaderApart(SectionSlot(c, DeltaSum(S), n), c.layout.segments[m].header)
<1> DEFINE L == Len(im)
           t == DeltaSum(S)
           off == c.bun.bun_offset
           size == c.bun.bun_size
           ph == Cell(im, 1)
           pn == Cell(im, 2)
           sh == c.layout.e_shoff
           sn == Cell(im, 4)
           shift == ShdrTableShift(c.layout, c.bun, t)
           sec(n) == c.layout.sections[n].header
           slot(n) == SectionSlot(c, t, n)
           seg(n) == c.layout.segments[n].header
           secs == DOMAIN c.layout.sections
           segs == DOMAIN c.layout.segments
<1>1. ElfFrame(L, t, off, size, ph, pn, sh, sn, shift)
  BY ElfFrameIs
<1>2. c.layout = ElfParse(im) /\ ElfReadable(im) /\ im \in Seq(Int)
  BY ContextIs DEF InContext
<1>3. secs = 0 .. sn - 1 /\ segs = 0 .. pn - 1 /\ sh = Cell(im, 3)
  BY <1>2, ElfReads
<1>4. \A n \in secs : sec(n) = sh + n * 3
  BY <1>2, <1>3, ElfReads DEF SHDR_SIZE
<1>5. \A n \in segs : seg(n) = ph + n * 3
  BY <1>2, ElfReads DEF PHDR_SIZE
<1>6. \A n \in secs : slot(n) = sec(n) + shift
  BY DEF SectionSlot
<1> HIDE DEF L, t, off, size, ph, pn, sh, sn, shift, sec, seg, slot, secs, segs
<1>7. ASSUME NEW n \in secs PROVE Outside(L, t, off, size, sec(n), slot(n))
  <2>1. n \in 0 .. sn - 1 /\ sec(n) = sh + n * 3 /\ slot(n) = sh + n * 3 + shift
    BY <1>3, <1>4, <1>6
  <2> DEFINE x == sec(n)
             y == slot(n)
  <2> HIDE DEF x, y
  <2>2. x = sh + n * 3 /\ y = x + shift
    BY <2>1 DEF x, y
  <2>3. Outside(L, t, off, size, x, y)
    <3>1. n \in Nat /\ n * 3 + 3 <= sn * 3
      BY <1>1, <2>1 DEF ElfFrame
    <3> DEFINE k == n * 3
               z == sn * 3
    <3>2. k \in Nat /\ z \in Nat /\ k + 3 <= z /\ x = sh + k /\ y = x + shift
          /\ sh + z <= L
          /\ \/ shift = t /\ off < sh /\ off + size <= sh
             \/ shift = 0 /\ sh <= off /\ sh + z <= off
      BY <1>1, <2>2, <3>1 DEF ElfFrame
    <3>3. /\ L \in Nat /\ t \in Int /\ off \in Nat /\ size \in Nat /\ 9 <= size + t
          /\ sh \in Nat /\ 5 <= sh
      BY <1>1 DEF ElfFrame
    <3> HIDE DEF k, z
    <3> QED
      BY <3>2, <3>3 DEF Outside
  <2> QED
    BY <2>3 DEF x, y
<1>8. ASSUME NEW n \in segs PROVE Outside(L, t, off, size, seg(n), seg(n))
  <2>1. n \in 0 .. pn - 1 /\ seg(n) = ph + n * 3
    BY <1>3, <1>5
  <2>2. n \in Nat /\ n * 3 + 3 <= pn * 3
    BY <1>1, <2>1 DEF ElfFrame
  <2>3. ph \in Nat /\ 5 <= ph /\ ph + pn * 3 <= off /\ off \in Nat /\ pn \in Nat
    BY <1>1 DEF ElfFrame
  <2> DEFINE x == seg(n)
  <2> HIDE DEF x
  <2>4. x = ph + n * 3
    BY <2>1 DEF x
  <2>5. x \in Nat /\ 5 <= x /\ x + 3 <= off
    BY <2>2, <2>3, <2>4
  <2> QED
    BY <2>5 DEF Outside, x
<1>9. ASSUME NEW n \in secs, NEW m \in secs, n # m PROVE HeaderApart(slot(n), slot(m))
  <2> DEFINE x == slot(n)
             y == slot(m)
  <2>1. /\ n \in 0 .. sn - 1 /\ x = sh + n * 3 + shift
        /\ m \in 0 .. sn - 1 /\ y = sh + m * 3 + shift
    BY <1>3, <1>4, <1>6
  <2>2. shift \in Int /\ sh \in Int
    BY <1>1 DEF ElfFrame
  <2> HIDE DEF x, y
  <2>3. HeaderApart(x, y)
    BY <1>9, <2>1, <2>2 DEF HeaderApart
  <2> QED
    BY <2>3 DEF x, y
<1>10. ASSUME NEW n \in segs, NEW m \in segs, n # m PROVE HeaderApart(seg(n), seg(m))
  <2> DEFINE x == seg(n)
             y == seg(m)
  <2>1. n \in 0 .. pn - 1 /\ x = ph + n * 3 /\ m \in 0 .. pn - 1 /\ y = ph + m * 3
    BY <1>3, <1>5
  <2>2. ph \in Int
    BY <1>1 DEF ElfFrame
  <2> HIDE DEF x, y
  <2>3. HeaderApart(x, y)
    BY <1>10, <2>1, <2>2 DEF HeaderApart
  <2> QED
    BY <2>3 DEF x, y
<1>11. ASSUME NEW n \in secs, NEW m \in segs PROVE HeaderApart(slot(n), seg(m))
  <2> DEFINE x == slot(n)
             y == seg(m)
  <2>1. n \in 0 .. sn - 1 /\ x = sh + n * 3 + shift /\ m \in 0 .. pn - 1 /\ y = ph + m * 3
    BY <1>3, <1>4, <1>5, <1>6
  <2>2. y + 3 <= ph + pn * 3
    BY <1>1, <2>1 DEF ElfFrame
  <2>3. sh + shift <= x /\ x + 3 <= sh + sn * 3 + shift
    BY <1>1, <2>1 DEF ElfFrame
  <2> DEFINE u == pn * 3
             v == sn * 3
             k == n * 3
             j == m * 3
  <2>4. u \in Nat /\ v \in Nat /\ k \in Nat /\ j \in Nat
    BY <1>1, <2>1 DEF ElfFrame
  <2>5. /\ ph + u <= off
        /\ \/ shift = t /\ off < sh /\ off + size <= sh
           \/ shift = 0 /\ sh <= off /\ sh + v <= off
        /\ ph + u <= sh \/ sh + v <= ph
        /\ y + 3 <= ph + u /\ sh + shift <= x /\ x + 3 <= sh + v + shift
        /\ x = sh + k + shift /\ y = ph + j
    BY <1>1, <2>1, <2>2, <2>3 DEF ElfFrame
  <2>6. /\ t \in Int /\ off \in Nat /\ size \in Nat /\ 9 <= size + t
        /\ ph \in Nat /\ sh \in Nat
    BY <1>1 DEF ElfFrame
  <2> HIDE DEF x, y, u, v, k, j
  <2>7. x + 3 <= y \/ y + 3 <= x
    BY <2>4, <2>5, <2>6
  <2> QED
    BY <2>7 DEF x, y, HeaderApart
<1> QED
  BY <1>7, <1>8, <1>9, <1>10, <1>11 DEF L, t, off, size, sec, seg, slot, secs, segs

BunIndex(c) == Min(ElfBunIndexes(c.layout))

\* The segment holds the start of .bun.
HoldsBun(c, g) ==
    g.p_offset <= c.bun.bun_offset /\ c.bun.bun_offset < g.p_offset + g.p_filesz

OnSection(w, c, t, n) ==
    LET s == c.layout.sections[n]
    IN \/ w = <<SectionSlot(c, t, n) + 1, s.sh_offset + t>> /\ Behind(c.bun, s.sh_offset)
       \/ w = <<SectionSlot(c, t, n) + 2, c.bun.bun_size + t>> /\ n = BunIndex(c)

OnSegment(w, c, t, n) ==
    LET g == c.layout.segments[n]
    IN \/ w = <<g.header, g.p_offset + t>> /\ Behind(c.bun, g.p_offset)
       \/ w = <<g.header + 1, g.p_filesz + t>> /\ HoldsBun(c, g)
       \/ w = <<g.header + 2, g.p_memsz + t>> /\ HoldsBun(c, g)

OnFileHeader(w, c, t) ==
    w = <<EHDR_SHOFF_OFFSET, c.layout.e_shoff + t>> /\ Behind(c.bun, c.layout.e_shoff)

LEMMA ElfWritesAre ==
    ASSUME NEW c, NEW t, BunIndex(c) \in DOMAIN c.layout.sections
    PROVE  \A w : w \in ElfHeaderWrites(c.layout, c.bun, t) <=>
              \/ \E n \in DOMAIN c.layout.sections : OnSection(w, c, t, n)
              \/ \E n \in DOMAIN c.layout.segments : OnSegment(w, c, t, n)
              \/ OnFileHeader(w, c, t)
<1> DEFINE elf == c.layout
           bun == c.bun
           shift == ShdrTableShift(elf, bun, t)
           secs == {elf.sections[n] : n \in DOMAIN elf.sections}
           segs == {elf.segments[n] : n \in DOMAIN elf.segments}
           holding == {g \in segs : HoldsBun(c, g)}
           A == {<<elf.sections[BunIndex(c)].header + shift + 2, bun.bun_size + t>>}
           B == {<<s.header + shift + 1, s.sh_offset + t>> :
                    s \in {q \in secs : Behind(bun, q.sh_offset)}}
           C == {<<g.header + 1, g.p_filesz + t>> : g \in holding}
           D == {<<g.header + 2, g.p_memsz + t>> : g \in holding}
           E == {<<g.header, g.p_offset + t>> : g \in {h \in segs : Behind(bun, h.p_offset)}}
           F == IF Behind(bun, elf.e_shoff) THEN {<<EHDR_SHOFF_OFFSET, elf.e_shoff + t>>}
                ELSE {}
<1>1. ElfHeaderWrites(elf, bun, t) = A \cup B \cup C \cup D \cup E \cup F
  BY DEF ElfHeaderWrites, HoldsBun, BunIndex
<1>2. \A w : w \in A <=> w = <<SectionSlot(c, t, BunIndex(c)) + 2, bun.bun_size + t>>
  BY DEF SectionSlot
<1>3. \A w : w \in B <=> \E n \in DOMAIN elf.sections :
                 /\ w = <<SectionSlot(c, t, n) + 1, elf.sections[n].sh_offset + t>>
                 /\ Behind(bun, elf.sections[n].sh_offset)
  BY DEF SectionSlot
<1>4. \A w : w \in C <=> \E n \in DOMAIN elf.segments :
                 /\ w = <<elf.segments[n].header + 1, elf.segments[n].p_filesz + t>>
                 /\ HoldsBun(c, elf.segments[n])
  OBVIOUS
<1>5. \A w : w \in D <=> \E n \in DOMAIN elf.segments :
                 /\ w = <<elf.segments[n].header + 2, elf.segments[n].p_memsz + t>>
                 /\ HoldsBun(c, elf.segments[n])
  OBVIOUS
<1>6. \A w : w \in E <=> \E n \in DOMAIN elf.segments :
                 /\ w = <<elf.segments[n].header, elf.segments[n].p_offset + t>>
                 /\ Behind(bun, elf.segments[n].p_offset)
  OBVIOUS
<1>7. \A w : w \in F <=> OnFileHeader(w, c, t)
  BY DEF OnFileHeader
<1> HIDE DEF A, B, C, D, E, F
<1>8. \A w : w \in A \cup B <=> \E n \in DOMAIN elf.sections : OnSection(w, c, t, n)
  BY <1>2, <1>3 DEF OnSection
<1>9. \A w : w \in C \cup D \cup E <=> \E n \in DOMAIN elf.segments : OnSegment(w, c, t, n)
  BY <1>4, <1>5, <1>6 DEF OnSegment
<1> QED
  BY <1>1, <1>7, <1>8, <1>9

\* What the rewritten tables say.
SectionIs(b, c, t, n) ==
    LET s == c.layout.sections[n]
        x == SectionSlot(c, t, n)
    IN /\ Cell(b, x) = s.name
       /\ Cell(b, x + 1) = IF Behind(c.bun, s.sh_offset) THEN s.sh_offset + t
                           ELSE s.sh_offset
       /\ Cell(b, x + 2) = IF n = BunIndex(c) THEN c.bun.bun_size + t ELSE s.sh_size

SegmentIs(b, c, t, n) ==
    LET g == c.layout.segments[n]
        x == g.header
    IN /\ Cell(b, x) = IF Behind(c.bun, g.p_offset) THEN g.p_offset + t ELSE g.p_offset
       /\ Cell(b, x + 1) = IF HoldsBun(c, g) THEN g.p_filesz + t ELSE g.p_filesz
       /\ Cell(b, x + 2) = IF HoldsBun(c, g) THEN g.p_memsz + t ELSE g.p_memsz

FileHeaderIs(b, im, c, t) ==
    /\ Cell(b, 0) = Cell(im, 0) /\ Cell(b, 1) = Cell(im, 1) /\ Cell(b, 2) = Cell(im, 2)
    /\ Cell(b, 3) = c.layout.e_shoff + ShdrTableShift(c.layout, c.bun, t)
    /\ Cell(b, 4) = Cell(im, 4)

\* A write to one of the cells from x on.
WritesAt(w, x) == w[1] = x \/ w[1] = x + 1 \/ w[1] = x + 2

\* The entry of a table only has the writes meant for it.
LEMMA ElfWritesApart ==
    ASSUME NEW im, NEW c, InContext(im, c), c.is_elf, NEW S, PlanIn(c, S), NEW w,
           \/ \E n \in DOMAIN c.layout.sections : OnSection(w, c, DeltaSum(S), n)
           \/ \E n \in DOMAIN c.layout.segments : OnSegment(w, c, DeltaSum(S), n)
           \/ OnFileHeader(w, c, DeltaSum(S))
    PROVE  /\ \A n \in DOMAIN c.layout.sections :
                 WritesAt(w, SectionSlot(c, DeltaSum(S), n)) => OnSection(w, c, DeltaSum(S), n)
           /\ \A n \in DOMAIN c.layout.segments :
                 WritesAt(w, c.layout.segments[n].header) => OnSegment(w, c, DeltaSum(S), n)
           /\ w[1] \in 0..4 => OnFileHeader(w, c, DeltaSum(S))
           /\ w[1] \in Int
           /\ w[1] < c.bun.bun_offset \/ c.bun.bun_offset + c.bun.bun_size + DeltaSum(S) <= w[1]
<1> DEFINE L == Len(im)
           t == DeltaSum(S)
           off == c.bun.bun_offset
           size == c.bun.bun_size
           slot(n) == SectionSlot(c, t, n)
           seg(n) == c.layout.segments[n].header
           secs == DOMAIN c.layout.sections
           segs == DOMAIN c.layout.segments
           Range3(x) == x \in Nat /\ 5 <= x /\ (x + 3 <= off \/ off + size + t <= x)
<1>0. t \in Int /\ off \in Nat /\ size \in Nat /\ L \in Nat /\ 5 <= off
  <2> DEFINE ph == Cell(im, 1)
             pn == Cell(im, 2)
             sh == c.layout.e_shoff
             sn == Cell(im, 4)
             shift == ShdrTableShift(c.layout, c.bun, t)
  <2>1. ElfFrame(L, t, off, size, ph, pn, sh, sn, shift)
    BY ElfFrameIs
  <2> HIDE DEF L, t, off, size, ph, pn, sh, sn, shift
  <2> QED
    BY <2>1 DEF ElfFrame
<1>1. ASSUME NEW x, NEW y, Outside(L, t, off, size, x, y) PROVE Range3(y)
  <2> HIDE DEF L, t, off, size
  <2> QED
    BY <1>0, <1>1 DEF Outside
<1>2. \A n \in secs : Range3(slot(n))
  <2>1. \A n \in secs : Outside(L, t, off, size, c.layout.sections[n].header, slot(n))
    BY ElfSlots
  <2> QED
    BY <1>1, <2>1
<1>3. \A n \in segs : Range3(seg(n))
  <2>1. \A n \in segs : Outside(L, t, off, size, seg(n), seg(n))
    BY ElfSlots
  <2> QED
    BY <1>1, <2>1
<1>4. /\ \A n, m \in secs : n # m => HeaderApart(slot(n), slot(m))
      /\ \A n, m \in segs : n # m => HeaderApart(seg(n), seg(m))
      /\ \A n \in secs, m \in segs : HeaderApart(slot(n), seg(m))
  BY ElfSlots
<1>5. \A n : OnSection(w, c, t, n) => w[1] = slot(n) + 1 \/ w[1] = slot(n) + 2
  BY DEF OnSection
<1>6. \A n : OnSegment(w, c, t, n) => WritesAt(w, seg(n))
  BY DEF OnSegment, WritesAt
<1>7. OnFileHeader(w, c, t) => w[1] = 3
  BY DEF OnFileHeader, EHDR_SHOFF_OFFSET
<1> HIDE DEF L, t, off, size, slot, seg, secs, segs
<1>8. CASE \E n \in secs : OnSection(w, c, t, n)
  <2>1. PICK n \in secs : OnSection(w, c, t, n)
    BY <1>8
  <2> DEFINE x == slot(n)
  <2>2. Range3(x) /\ (w[1] = x + 1 \/ w[1] = x + 2)
    BY <1>2, <1>5, <2>1
  <2>3. ASSUME NEW m \in secs, WritesAt(w, slot(m)) PROVE m = n
    <3> SUFFICES ASSUME n # m PROVE FALSE
      OBVIOUS
    <3> DEFINE y == slot(m)
    <3>1. HeaderApart(x, y) /\ Range3(y)
      BY <1>2, <1>4
    <3>2. WritesAt(w, y)
      BY <2>3
    <3> HIDE DEF x, y
    <3> QED
      BY <2>2, <3>1, <3>2 DEF HeaderApart, WritesAt
  <2>4. ASSUME NEW m \in segs PROVE ~WritesAt(w, seg(m))
    <3> DEFINE y == seg(m)
    <3>1. HeaderApart(x, y) /\ Range3(y)
      BY <1>3, <1>4
    <3> HIDE DEF x, y
    <3>2. ~WritesAt(w, y)
      BY <2>2, <3>1 DEF HeaderApart, WritesAt
    <3> QED
      BY <3>2 DEF y
  <2> HIDE DEF x
  <2>5. w[1] \in Int /\ ~(w[1] \in 0..4) /\ (w[1] < off \/ off + size + t <= w[1])
    BY <1>0, <2>2
  <2> QED
    BY <2>1, <2>3, <2>4, <2>5 DEF L, t, off, size, slot, seg, secs, segs
<1>9. CASE \E n \in segs : OnSegment(w, c, t, n)
  <2>1. PICK n \in segs : OnSegment(w, c, t, n)
    BY <1>9
  <2> DEFINE x == seg(n)
  <2>2. Range3(x) /\ WritesAt(w, x)
    BY <1>3, <1>6, <2>1
  <2>3. ASSUME NEW m \in segs, WritesAt(w, seg(m)) PROVE m = n
    <3> SUFFICES ASSUME n # m PROVE FALSE
      OBVIOUS
    <3> DEFINE y == seg(m)
    <3>1. HeaderApart(x, y) /\ Range3(y)
      BY <1>3, <1>4
    <3>2. WritesAt(w, y)
      BY <2>3
    <3> HIDE DEF x, y
    <3> QED
      BY <2>2, <3>1, <3>2 DEF HeaderApart, WritesAt
  <2>4. ASSUME NEW m \in secs PROVE ~WritesAt(w, slot(m))
    <3> DEFINE y == slot(m)
    <3>1. HeaderApart(y, x) /\ Range3(y)
      BY <1>2, <1>4
    <3> HIDE DEF x, y
    <3>2. ~WritesAt(w, y)
      BY <2>2, <3>1 DEF HeaderApart, WritesAt
    <3> QED
      BY <3>2 DEF y
  <2> HIDE DEF x
  <2>5. w[1] \in Int /\ ~(w[1] \in 0..4) /\ (w[1] < off \/ off + size + t <= w[1])
    BY <1>0, <2>2 DEF WritesAt
  <2> QED
    BY <2>1, <2>3, <2>4, <2>5 DEF L, t, off, size, slot, seg, secs, segs
<1>10. CASE OnFileHeader(w, c, t)
  <2>1. w[1] = 3
    BY <1>7, <1>10
  <2>2. \A x : Range3(x) => ~WritesAt(w, x)
    BY <2>1 DEF WritesAt
  <2>3. (\A m \in secs : ~WritesAt(w, slot(m))) /\ (\A m \in segs : ~WritesAt(w, seg(m)))
    BY <1>2, <1>3, <2>2
  <2>4. w[1] \in Int /\ (w[1] < off \/ off + size + t <= w[1])
    BY <1>0, <2>1
  <2> QED
    BY <1>10, <2>3, <2>4 DEF L, t, off, size, slot, seg, secs, segs
<1> QED
  BY <1>8, <1>9, <1>10 DEF t, secs, segs

\* A cell nothing is written to, and one only one value is written to.
LEMMA PackedCell ==
    ASSUME NEW p \in Seq(Int), NEW writes, IntWrites(writes), NEW x \in 0 .. Len(p) - 1
    PROVE  /\ (\A w \in writes : w[1] # x) => Cell(PackInto(p, writes), x) = Cell(p, x)
           /\ \A v : <<x, v>> \in writes /\ (\A w \in writes : w[1] = x => w[2] = v)
                        => Cell(PackInto(p, writes), x) = v
<1>1. ASSUME NEW v, <<x, v>> \in writes, \A w \in writes : w[1] = x => w[2] = v
      PROVE  Cell(PackInto(p, writes), x) = v
  <2> DEFINE z == <<x, v>>
  <2>1. z \in writes /\ z[1] = x /\ z[2] = v
    BY <1>1
  <2>2. z[1] \in 0 .. Len(p) - 1 /\ \A w \in writes : w[1] = z[1] => w[2] = z[2]
    BY <1>1, <2>1
  <2> HIDE DEF z
  <2>3. Cell(PackInto(p, writes), z[1]) = z[2]
    BY <2>1, <2>2, PackCells
  <2> QED
    BY <2>1, <2>3
<1>2. (\A w \in writes : w[1] # x) => Cell(PackInto(p, writes), x) = Cell(p, x)
  BY PackCells
<1> QED
  BY <1>1, <1>2

\* Three cells of the input, found in the spliced image.
SameThree(p, y, im, x) ==
    /\ Cell(p, y) = Cell(im, x)
    /\ Cell(p, y + 1) = Cell(im, x + 1)
    /\ Cell(p, y + 2) = Cell(im, x + 2)

LEMMA OutsideMoved ==
    ASSUME NEW im, NEW c, InContext(im, c), NEW S, PlanIn(c, S), NEW p, Kept(p, im, c, S),
           NEW x, NEW y,
           Outside(Len(im), DeltaSum(S), c.bun.bun_offset, c.bun.bun_size, x, y)
    PROVE  /\ y \in 0 .. Len(p) - 1 /\ y + 1 \in 0 .. Len(p) - 1 /\ y + 2 \in 0 .. Len(p) - 1
           /\ SameThree(p, y, im, x)
<1> DEFINE L == Len(im)
           t == DeltaSum(S)
           off == c.bun.bun_offset
           size == c.bun.bun_size
           start == c.bun.payload_start
           table == TableAt(c)
           len == c.bun.modules_ptr.length
           at == c.bun.offsets_struct_offset
           z == Len(p)
<1>1. Frame(L, t, off, size, start, table, len, at)
  BY BoundsAre DEF Bounds
<1>2. /\ z = L + t
      /\ \A o \in 0 .. off - 1 : Cell(p, o) = Cell(im, o)
      /\ \A o \in off + size .. L - 1 : Cell(p, o + t) = Cell(im, o)
  BY KeptOutside
<1>3. Outside(L, t, off, size, x, y)
  OBVIOUS
<1> HIDE DEF L, t, off, size, start, table, len, at, z
<1>4. /\ L \in Nat /\ t \in Int /\ off \in Nat /\ size \in Nat /\ off + size <= L
      /\ 9 <= size + t
  BY <1>1 DEF Frame
<1>5. y \in 0 .. z - 1 /\ y + 1 \in 0 .. z - 1 /\ y + 2 \in 0 .. z - 1
  BY <1>2, <1>3, <1>4 DEF Outside
<1>6. CASE y = x /\ x + 3 <= off
  <2>1. x \in 0 .. off - 1 /\ x + 1 \in 0 .. off - 1 /\ x + 2 \in 0 .. off - 1
    BY <1>3, <1>4, <1>6 DEF Outside
  <2> QED
    BY <1>2, <1>5, <1>6, <2>1 DEF z, SameThree
<1>7. CASE y = x + t /\ off + size <= x /\ x + 3 <= L
  <2>1. /\ x \in off + size .. L - 1 /\ x + 1 \in off + size .. L - 1
        /\ x + 2 \in off + size .. L - 1
        /\ x + 1 + t = y + 1 /\ x + 2 + t = y + 2
    BY <1>3, <1>4, <1>7 DEF Outside
  <2>2. /\ Cell(p, x + t) = Cell(im, x) /\ Cell(p, x + 1 + t) = Cell(im, x + 1)
        /\ Cell(p, x + 2 + t) = Cell(im, x + 2)
    BY <1>2, <2>1
  <2> QED
    BY <1>5, <1>7, <2>1, <2>2 DEF z, SameThree
<1> QED
  BY <1>3, <1>6, <1>7 DEF Outside

LEMMA ElfWritten ==
    ASSUME NEW im, NEW c, InContext(im, c), c.is_elf, NEW S, PlanIn(c, S),
           NEW p, Kept(p, im, c, S),
           NEW b, b = PackInto(p, ElfHeaderWrites(c.layout, c.bun, DeltaSum(S)))
    PROVE  /\ b \in Seq(Int) /\ Len(b) = Len(p)
           /\ \A x \in c.bun.bun_offset .. c.bun.bun_offset + c.bun.bun_size + DeltaSum(S) - 1 :
                 Cell(b, x) = Cell(p, x)
           /\ \A n \in DOMAIN c.layout.sections : SectionIs(b, c, DeltaSum(S), n)
           /\ \A n \in DOMAIN c.layout.segments : SegmentIs(b, c, DeltaSum(S), n)
           /\ FileHeaderIs(b, im, c, DeltaSum(S))
<1> DEFINE L == Len(im)
           t == DeltaSum(S)
           off == c.bun.bun_offset
           size == c.bun.bun_size
           W == ElfHeaderWrites(c.layout, c.bun, t)
           secs == DOMAIN c.layout.sections
           segs == DOMAIN c.layout.segments
           z == Len(p)
<1>1. c.layout = ElfParse(im) /\ ElfReadable(im) /\ im \in Seq(Int)
      /\ ElfBunIndexes(ElfParse(im)) # {}
  BY ContextIs DEF InContext
<1>2. BunIndex(c) \in secs
  BY <1>1, ElfBunIs DEF BunIndex
<1>3. \A w : w \in W <=> \/ \E n \in secs : OnSection(w, c, t, n)
                         \/ \E n \in segs : OnSegment(w, c, t, n)
                         \/ OnFileHeader(w, c, t)
  BY <1>2, ElfWritesAre
<1>4. /\ \A n \in secs : c.layout.sections[n].sh_offset \in Int
      /\ \A n \in segs : /\ c.layout.segments[n].p_offset \in Int
                         /\ c.layout.segments[n].p_filesz \in Int
                         /\ c.layout.segments[n].p_memsz \in Int
      /\ c.layout.e_shoff \in Int
  BY <1>1, ElfReads
<1>5. t \in Int /\ off \in Nat /\ size \in Nat /\ L \in Nat /\ 5 <= off /\ off + size <= L
      /\ c.layout.e_shoff \in Nat
  <2> DEFINE ph == Cell(im, 1)
             pn == Cell(im, 2)
             sh == c.layout.e_shoff
             sn == Cell(im, 4)
             shift == ShdrTableShift(c.layout, c.bun, t)
  <2>1. ElfFrame(L, t, off, size, ph, pn, sh, sn, shift)
    BY ElfFrameIs
  <2> HIDE DEF L, t, off, size, ph, pn, sh, sn, shift
  <2>2. t \in Int /\ off \in Nat /\ size \in Nat /\ L \in Nat /\ 5 <= off /\ off + size <= L
        /\ sh \in Nat
    BY <2>1 DEF ElfFrame
  <2> QED
    BY <2>2 DEF sh
<1>6. IntWrites(W)
  <2> SUFFICES ASSUME NEW w \in W PROVE w[2] \in Int
    BY DEF IntWrites
  <2>1. CASE \E n \in secs : OnSection(w, c, t, n)
    BY <1>4, <1>5, <2>1 DEF OnSection
  <2>2. CASE \E n \in segs : OnSegment(w, c, t, n)
    BY <1>4, <1>5, <2>2 DEF OnSegment
  <2>3. CASE OnFileHeader(w, c, t)
    BY <1>4, <1>5, <2>3 DEF OnFileHeader
  <2> QED
    BY <1>3, <2>1, <2>2, <2>3
<1>7. p \in Seq(Int) /\ z = L + t
  BY KeptOutside
<1>8. b \in Seq(Int) /\ Len(b) = z
  BY <1>6, <1>7, PackCells
<1>20. ASSUME NEW x \in 0 .. z - 1
       PROVE  /\ (\A w \in W : w[1] # x) => Cell(b, x) = Cell(p, x)
              /\ \A v : <<x, v>> \in W /\ (\A w \in W : w[1] = x => w[2] = v)
                           => Cell(b, x) = v
  <2> HIDE DEF W
  <2>1. b = PackInto(p, W)
    BY DEF W
  <2> QED
    BY <1>6, <1>7, <2>1, PackedCell
<1>9. /\ \A w \in W, n \in secs :
            WritesAt(w, SectionSlot(c, t, n)) => OnSection(w, c, t, n)
      /\ \A w \in W, n \in segs :
            WritesAt(w, c.layout.segments[n].header) => OnSegment(w, c, t, n)
      /\ \A w \in W : w[1] \in 0..4 => OnFileHeader(w, c, t)
      /\ \A w \in W : w[1] \in Int /\ (w[1] < off \/ off + size + t <= w[1])
  BY <1>3, ElfWritesApart
<1>10. ASSUME NEW x \in off .. off + size + t - 1
       PROVE  Cell(b, x) = Cell(p, x)
  <2> HIDE DEF L, t, off, size, W, z
  <2>1. x \in 0 .. z - 1
    BY <1>5, <1>7
  <2>2. \A w \in W : w[1] # x
    BY <1>5, <1>9
  <2> QED
    BY <1>20, <2>1, <2>2
<1>11. ASSUME NEW n \in secs PROVE SectionIs(b, c, t, n)
  <2> DEFINE s == c.layout.sections[n]
             x == SectionSlot(c, t, n)
  <2>1. Outside(L, t, off, size, s.header, x)
    BY ElfSlots
  <2>2. /\ x \in 0 .. z - 1 /\ x + 1 \in 0 .. z - 1 /\ x + 2 \in 0 .. z - 1
        /\ SameThree(p, x, im, s.header)
    BY <2>1, OutsideMoved
  <2>3. /\ s.name = Cell(im, s.header) /\ s.sh_offset = Cell(im, s.header + 1)
        /\ s.sh_size = Cell(im, s.header + 2)
    BY <1>1, ElfReads
  <2>4. Cell(p, x) = s.name /\ Cell(p, x + 1) = s.sh_offset /\ Cell(p, x + 2) = s.sh_size
    BY <2>2, <2>3 DEF SameThree
  <2>5. \A w \in W : WritesAt(w, x) =>
           \/ w = <<x + 1, s.sh_offset + t>> /\ Behind(c.bun, s.sh_offset)
           \/ w = <<x + 2, c.bun.bun_size + t>> /\ n = BunIndex(c)
    BY <1>9 DEF OnSection
  <2>6. /\ Behind(c.bun, s.sh_offset) => <<x + 1, s.sh_offset + t>> \in W
        /\ n = BunIndex(c) => <<x + 2, c.bun.bun_size + t>> \in W
    BY <1>3 DEF OnSection
  <2> HIDE DEF W, x, s, z, t, L, off, size
  <2>7. x \in Int
    BY <2>2
  <2>8. Cell(b, x) = s.name
    <3>1. \A w \in W : w[1] # x
      BY <2>5, <2>7 DEF WritesAt
    <3> QED
      BY <1>20, <2>2, <2>4, <3>1
  <2>9. Cell(b, x + 1) = IF Behind(c.bun, s.sh_offset) THEN s.sh_offset + t ELSE s.sh_offset
    <3>1. \A w \in W : w[1] = x + 1 =>
             Behind(c.bun, s.sh_offset) /\ w[2] = s.sh_offset + t
      BY <2>5, <2>7 DEF WritesAt
    <3>2. CASE Behind(c.bun, s.sh_offset)
      BY <1>20, <2>2, <2>6, <3>1, <3>2
    <3>3. CASE ~Behind(c.bun, s.sh_offset)
      <4>1. \A w \in W : w[1] # x + 1
        BY <3>1, <3>3
      <4>2. Cell(b, x + 1) = Cell(p, x + 1)
        BY <1>20, <2>2, <4>1
      <4> QED
        BY <2>4, <3>3, <4>2
    <3> QED
      BY <3>2, <3>3
  <2>10. Cell(b, x + 2) = IF n = BunIndex(c) THEN c.bun.bun_size + t ELSE s.sh_size
    <3>1. \A w \in W : w[1] = x + 2 => n = BunIndex(c) /\ w[2] = c.bun.bun_size + t
      BY <2>5, <2>7 DEF WritesAt
    <3>2. CASE n = BunIndex(c)
      BY <1>20, <2>2, <2>6, <3>1, <3>2
    <3>3. CASE n # BunIndex(c)
      <4>1. \A w \in W : w[1] # x + 2
        BY <3>1, <3>3
      <4>2. Cell(b, x + 2) = Cell(p, x + 2)
        BY <1>20, <2>2, <4>1
      <4> QED
        BY <2>4, <3>3, <4>2
    <3> QED
      BY <3>2, <3>3
  <2> QED
    BY <2>8, <2>9, <2>10 DEF SectionIs, x, s
<1>12. ASSUME NEW n \in segs PROVE SegmentIs(b, c, t, n)
  <2> DEFINE g == c.layout.segments[n]
             x == g.header
  <2>1. Outside(L, t, off, size, x, x)
    BY ElfSlots
  <2>2. /\ x \in 0 .. z - 1 /\ x + 1 \in 0 .. z - 1 /\ x + 2 \in 0 .. z - 1
        /\ SameThree(p, x, im, x)
    BY <2>1, OutsideMoved
  <2>3. g.p_offset = Cell(im, x) /\ g.p_filesz = Cell(im, x + 1) /\ g.p_memsz = Cell(im, x + 2)
    BY <1>1, ElfReads
  <2>4. Cell(p, x) = g.p_offset /\ Cell(p, x + 1) = g.p_filesz /\ Cell(p, x + 2) = g.p_memsz
    BY <2>2, <2>3 DEF SameThree
  <2>5. \A w \in W : WritesAt(w, x) =>
           \/ w = <<x, g.p_offset + t>> /\ Behind(c.bun, g.p_offset)
           \/ w = <<x + 1, g.p_filesz + t>> /\ HoldsBun(c, g)
           \/ w = <<x + 2, g.p_memsz + t>> /\ HoldsBun(c, g)
    BY <1>9 DEF OnSegment
  <2>6. /\ Behind(c.bun, g.p_offset) => <<x, g.p_offset + t>> \in W
        /\ HoldsBun(c, g) => <<x + 1, g.p_filesz + t>> \in W /\ <<x + 2, g.p_memsz + t>> \in W
    BY <1>3 DEF OnSegment
  <2> HIDE DEF W, x, g, z, t, L, off, size
  <2>7. x \in Int
    BY <2>2
  <2>8. Cell(b, x) = IF Behind(c.bun, g.p_offset) THEN g.p_offset + t ELSE g.p_offset
    <3>1. \A w \in W : w[1] = x => Behind(c.bun, g.p_offset) /\ w[2] = g.p_offset + t
      BY <2>5, <2>7 DEF WritesAt
    <3>2. CASE Behind(c.bun, g.p_offset)
      BY <1>20, <2>2, <2>6, <3>1, <3>2
    <3>3. CASE ~Behind(c.bun, g.p_offset)
      <4>1. \A w \in W : w[1] # x
        BY <3>1, <3>3
      <4>2. Cell(b, x) = Cell(p, x)
        BY <1>20, <2>2, <4>1
      <4> QED
        BY <2>4, <3>3, <4>2
    <3> QED
      BY <3>2, <3>3
  <2>9. Cell(b, x + 1) = IF HoldsBun(c, g) THEN g.p_filesz + t ELSE g.p_filesz
    <3>1. \A w \in W : w[1] = x + 1 => HoldsBun(c, g) /\ w[2] = g.p_filesz + t
      BY <2>5, <2>7 DEF WritesAt
    <3>2. CASE HoldsBun(c, g)
      BY <1>20, <2>2, <2>6, <3>1, <3>2
    <3>3. CASE ~HoldsBun(c, g)
      <4>1. \A w \in W : w[1] # x + 1
        BY <3>1, <3>3
      <4>2. Cell(b, x + 1) = Cell(p, x + 1)
        BY <1>20, <2>2, <4>1
      <4> QED
        BY <2>4, <3>3, <4>2
    <3> QED
      BY <3>2, <3>3
  <2>10. Cell(b, x + 2) = IF HoldsBun(c, g) THEN g.p_memsz + t ELSE g.p_memsz
    <3>1. \A w \in W : w[1] = x + 2 => HoldsBun(c, g) /\ w[2] = g.p_memsz + t
      BY <2>5, <2>7 DEF WritesAt
    <3>2. CASE HoldsBun(c, g)
      BY <1>20, <2>2, <2>6, <3>1, <3>2
    <3>3. CASE ~HoldsBun(c, g)
      <4>1. \A w \in W : w[1] # x + 2
        BY <3>1, <3>3
      <4>2. Cell(b, x + 2) = Cell(p, x + 2)
        BY <1>20, <2>2, <4>1
      <4> QED
        BY <2>4, <3>3, <4>2
    <3> QED
      BY <3>2, <3>3
  <2> QED
    BY <2>8, <2>9, <2>10 DEF SegmentIs, x, g
<1>13. FileHeaderIs(b, im, c, t)
  <2>1. \A o \in 0..4 : o \in 0 .. z - 1 /\ Cell(p, o) = Cell(im, o)
    <3>1. \A o \in 0 .. off - 1 : Cell(p, o) = Cell(im, o)
      BY KeptOutside
    <3> DEFINE start == c.bun.payload_start
               table == TableAt(c)
               len == c.bun.modules_ptr.length
               at == c.bun.offsets_struct_offset
    <3>2. Frame(L, t, off, size, start, table, len, at)
      BY BoundsAre DEF Bounds
    <3> HIDE DEF L, t, off, size, start, table, len, at, W, z
    <3>3. 5 <= z
      BY <1>5, <1>7, <3>2 DEF Frame
    <3>4. \A o \in 0..4 : o \in 0 .. off - 1 /\ o \in 0 .. z - 1
      BY <1>5, <1>7, <3>3
    <3> QED
      BY <3>1, <3>4
  <2>2. \A w \in W : w[1] \in 0..4 =>
           w = <<3, c.layout.e_shoff + t>> /\ Behind(c.bun, c.layout.e_shoff)
    BY <1>9 DEF OnFileHeader, EHDR_SHOFF_OFFSET
  <2>3. Behind(c.bun, c.layout.e_shoff) => <<3, c.layout.e_shoff + t>> \in W
    BY <1>3 DEF OnFileHeader, EHDR_SHOFF_OFFSET
  <2>4. Cell(im, 3) = c.layout.e_shoff
    BY <1>1, ElfReads
  <2> HIDE DEF W, z, t, L, off, size
  <2>5. ASSUME NEW o \in 0..4, o # 3 PROVE Cell(b, o) = Cell(im, o)
    <3>1. \A w \in W : w[1] # o
      BY <2>2, <2>5
    <3> QED
      BY <1>20, <2>1, <3>1
  <2>6. Cell(b, 3) = c.layout.e_shoff + ShdrTableShift(c.layout, c.bun, t)
    <3>1. \A w \in W : w[1] = 3 =>
             Behind(c.bun, c.layout.e_shoff) /\ w[2] = c.layout.e_shoff + t
      BY <2>2
    <3>2. CASE Behind(c.bun, c.layout.e_shoff)
      <4>1. Cell(b, 3) = c.layout.e_shoff + t
        BY <1>20, <2>1, <2>3, <3>1, <3>2
      <4> QED
        BY <3>2, <4>1 DEF ShdrTableShift
    <3>3. CASE ~Behind(c.bun, c.layout.e_shoff)
      <4>1. \A w \in W : w[1] # 3
        BY <3>1, <3>3
      <4>2. Cell(b, 3) = c.layout.e_shoff
        BY <1>20, <2>1, <2>4, <4>1
      <4> QED
        BY <1>5, <3>3, <4>2 DEF ShdrTableShift
    <3> QED
      BY <3>2, <3>3
  <2> QED
    BY <2>5, <2>6 DEF FileHeaderIs
<1> QED
  BY <1>8, <1>10, <1>11, <1>12, <1>13

\* The payload in b is that of p.
SamePayload(b, p, c, t) ==
    /\ c.bun.bun_offset + c.bun.bun_size + t <= Len(b)
    /\ \A x \in c.bun.bun_offset .. c.bun.bun_offset + c.bun.bun_size + t - 1 :
          Cell(b, x) = Cell(p, x)

\* Nothing but the tables of p is rewritten.
ElfOut(b, p, im, c, t) ==
    /\ b \in Seq(Int) /\ Len(b) = Len(p) /\ SamePayload(b, p, c, t)
    /\ \A n \in DOMAIN c.layout.sections : SectionIs(b, c, t, n)
    /\ \A n \in DOMAIN c.layout.segments : SegmentIs(b, c, t, n)
    /\ FileHeaderIs(b, im, c, t)

LEMMA PayloadFits ==
    ASSUME NEW im, NEW c, InContext(im, c), NEW S, PlanIn(c, S), NEW p, Kept(p, im, c, S)
    PROVE  c.bun.bun_offset + c.bun.bun_size + DeltaSum(S) <= Len(p)
<1> DEFINE L == Len(im)
           t == DeltaSum(S)
           off == c.bun.bun_offset
           size == c.bun.bun_size
           start == c.bun.payload_start
           table == TableAt(c)
           len == c.bun.modules_ptr.length
           at == c.bun.offsets_struct_offset
           z == Len(p)
<1>1. Frame(L, t, off, size, start, table, len, at)
  BY BoundsAre DEF Bounds
<1>2. z = L + t
  BY KeptOutside
<1> HIDE DEF L, t, off, size, start, table, len, at, z
<1>3. off + size + t <= z
  BY <1>1, <1>2 DEF Frame
<1> QED
  BY <1>3 DEF t, off, size, z

LEMMA ElfUntouched ==
    ASSUME NEW im, NEW c, InContext(im, c), c.is_elf, NEW S, PlanIn(c, S),
           NEW p, Kept(p, im, c, S), DeltaSum(S) = 0
    PROVE  ElfOut(p, p, im, c, DeltaSum(S))
<1> DEFINE L == Len(im)
           t == DeltaSum(S)
           off == c.bun.bun_offset
           size == c.bun.bun_size
           secs == DOMAIN c.layout.sections
           segs == DOMAIN c.layout.segments
<1>1. /\ c.layout = ElfParse(im) /\ ElfReadable(im) /\ im \in Seq(Int)
      /\ ElfBunIndexes(ElfParse(im)) # {}
      /\ BunSection(im) = ElfBunSection(ElfParse(im))
      /\ c.bun.bun_size = BunSection(im).size
  BY ContextIs DEF InContext
<1>2. p \in Seq(Int) /\ SamePayload(p, p, c, t)
  BY KeptOutside, PayloadFits DEF SamePayload
<1>3. ASSUME NEW n \in secs PROVE SectionIs(p, c, t, n)
  <2> DEFINE s == c.layout.sections[n]
             x == SectionSlot(c, t, n)
  <2>1. Outside(L, t, off, size, s.header, x)
    BY ElfSlots
  <2>2. SameThree(p, x, im, s.header)
    BY <2>1, OutsideMoved
  <2>3. /\ s.name = Cell(im, s.header) /\ s.sh_offset = Cell(im, s.header + 1)
        /\ s.sh_size = Cell(im, s.header + 2)
    BY <1>1, ElfReads
  <2>4. Cell(p, x) = s.name /\ Cell(p, x + 1) = s.sh_offset /\ Cell(p, x + 2) = s.sh_size
    BY <2>2, <2>3 DEF SameThree
  <2>5. s.sh_offset \in Int /\ s.sh_size \in Int
    BY <1>1, ElfReads
  <2>6. n = BunIndex(c) => s.sh_size = c.bun.bun_size
    BY <1>1, ElfBunIs DEF BunIndex
  <2>7. s.sh_offset + t = s.sh_offset /\ s.sh_size + t = s.sh_size
    <3> HIDE DEF s
    <3> QED
      BY <2>5
  <2> HIDE DEF x, t
  <2> QED
    BY <2>4, <2>6, <2>7 DEF SectionIs, x
<1>4. ASSUME NEW n \in segs PROVE SegmentIs(p, c, t, n)
  <2> DEFINE g == c.layout.segments[n]
             x == g.header
  <2>1. Outside(L, t, off, size, x, x)
    BY ElfSlots
  <2>2. SameThree(p, x, im, x)
    BY <2>1, OutsideMoved
  <2>3. g.p_offset = Cell(im, x) /\ g.p_filesz = Cell(im, x + 1) /\ g.p_memsz = Cell(im, x + 2)
    BY <1>1, ElfReads
  <2>4. Cell(p, x) = g.p_offset /\ Cell(p, x + 1) = g.p_filesz /\ Cell(p, x + 2) = g.p_memsz
    BY <2>2, <2>3 DEF SameThree
  <2>5. g.p_offset \in Int /\ g.p_filesz \in Int /\ g.p_memsz \in Int
    BY <1>1, ElfReads
  <2>6. g.p_offset + t = g.p_offset /\ g.p_filesz + t = g.p_filesz /\ g.p_memsz + t = g.p_memsz
    <3> HIDE DEF g
    <3> QED
      BY <2>5
  <2> HIDE DEF t
  <2> QED
    BY <2>4, <2>6 DEF SegmentIs
<1>5. FileHeaderIs(p, im, c, t)
  <2>1. 5 <= off /\ off \in Nat
    <3> DEFINE ph == Cell(im, 1)
               pn == Cell(im, 2)
               sh == c.layout.e_shoff
               sn == Cell(im, 4)
               shift == ShdrTableShift(c.layout, c.bun, t)
    <3>1. ElfFrame(L, t, off, size, ph, pn, sh, sn, shift)
      BY ElfFrameIs
    <3> HIDE DEF L, t, off, size, ph, pn, sh, sn, shift
    <3> QED
      BY <3>1 DEF ElfFrame
  <2>2. \A o \in 0 .. off - 1 : Cell(p, o) = Cell(im, o)
    BY KeptOutside
  <2>3. \A o \in 0..4 : Cell(p, o) = Cell(im, o)
    <3> HIDE DEF off
    <3> QED
      BY <2>1, <2>2
  <2>4. Cell(im, 3) = c.layout.e_shoff /\ Cell(im, 3) \in Int
    BY <1>1, ElfReads
  <2>5. ShdrTableShift(c.layout, c.bun, t) = 0
    BY DEF ShdrTableShift
  <2> HIDE DEF t
  <2> QED
    BY <2>3, <2>4, <2>5 DEF FileHeaderIs
<1> QED
  BY <1>2, <1>3, <1>4, <1>5 DEF ElfOut

LEMMA ElfOutIs ==
    ASSUME NEW im, NEW c, InContext(im, c), c.is_elf, NEW S, PlanIn(c, S),
           NEW p, Kept(p, im, c, S), NEW b, ContainerDone(b, p, c, S)
    PROVE  ElfOut(b, p, im, c, DeltaSum(S))
<1>1. CASE b = p /\ \A e \in S : ~Growable(e)
  <2>1. DeltaSum(S) = 0
    <3>1. EditSet(S) /\ {} \subseteq S /\ \A e \in S \ {} : ~Growable(e)
      BY <1>1 DEF PlanIn
    <3>2. DeltaSum(S) = DeltaSum({})
      BY <3>1, SumGrowables
    <3> QED
      BY <3>2, SumNone
  <2> QED
    BY <1>1, <2>1, ElfUntouched
<1>2. CASE b = PackInto(p, ElfHeaderWrites(c.layout, c.bun, DeltaSum(S)))
  BY <1>2, ElfWritten, PayloadFits DEF ElfOut, SamePayload
<1> QED
  BY <1>1, <1>2 DEF ContainerDone

-----------------------------------------------------------------------------
(* Reading a rewritten ELF image.                                          *)

\* The tables of an image with the layout new, where the input's had c.layout.
TablesAre(new, c, t) ==
    /\ DOMAIN new.sections = DOMAIN c.layout.sections
    /\ DOMAIN new.segments = DOMAIN c.layout.segments
    /\ \A n \in DOMAIN c.layout.sections :
          LET was == c.layout.sections[n]
              is == new.sections[n]
          IN /\ is.name = was.name
             /\ is.sh_offset = IF Behind(c.bun, was.sh_offset) THEN was.sh_offset + t
                               ELSE was.sh_offset
             /\ is.sh_size = IF n = BunIndex(c) THEN c.bun.bun_size + t ELSE was.sh_size
    /\ \A n \in DOMAIN c.layout.segments :
          LET was == c.layout.segments[n]
              is == new.segments[n]
          IN /\ is.p_offset = IF Behind(c.bun, was.p_offset) THEN was.p_offset + t
                              ELSE was.p_offset
             /\ is.p_filesz = IF HoldsBun(c, was) THEN was.p_filesz + t ELSE was.p_filesz
             /\ is.p_memsz = IF HoldsBun(c, was) THEN was.p_memsz + t ELSE was.p_memsz

LEMMA ElfReparsed ==
    ASSUME NEW im, NEW c, InContext(im, c), c.is_elf, NEW S, PlanIn(c, S),
           NEW p, Kept(p, im, c, S), NEW b, ElfOut(b, p, im, c, DeltaSum(S))
    PROVE  /\ Cell(b, 0) = ELF_MAGIC /\ ElfReadable(b)
           /\ TablesAre(ElfParse(b), c, DeltaSum(S))
<1> DEFINE L == Len(im)
           t == DeltaSum(S)
           off == c.bun.bun_offset
           size == c.bun.bun_size
           ph == Cell(im, 1)
           pn == Cell(im, 2)
           sh == c.layout.e_shoff
           sn == Cell(im, 4)
           shift == ShdrTableShift(c.layout, c.bun, t)
           secs == DOMAIN c.layout.sections
           segs == DOMAIN c.layout.segments
           new == ElfParse(b)
           z == Len(b)
<1>1. ElfFrame(L, t, off, size, ph, pn, sh, sn, shift)
  BY ElfFrameIs
<1>2. /\ c.layout = ElfParse(im) /\ ElfReadable(im) /\ im \in Seq(Int)
      /\ Cell(im, 0) = ELF_MAGIC
  BY ContextIs DEF InContext
<1>3. b \in Seq(Int) /\ z = L + t
  BY KeptOutside DEF ElfOut
<1>4. FileHeaderIs(b, im, c, t)
  BY DEF ElfOut
<1>5. /\ Cell(b, 0) = ELF_MAGIC /\ Cell(b, 1) = ph /\ Cell(b, 2) = pn
      /\ Cell(b, 3) = sh + shift /\ Cell(b, 4) = sn
  BY <1>2, <1>4 DEF FileHeaderIs
<1>6. ElfReadable(b)
  <2>1. 5 <= z /\ ph >= 0 /\ ph + pn * 3 <= z /\ sh + shift >= 0
        /\ sh + shift + sn * 3 <= z
    <3> HIDE DEF L, t, off, size, ph, pn, sh, sn, shift, z
    <3> DEFINE u == pn * 3
               v == sn * 3
    <3>1. /\ L \in Nat /\ t \in Int /\ off \in Nat /\ size \in Nat
          /\ off + size <= L /\ 9 <= size + t
          /\ ph \in Nat /\ sh \in Nat /\ u \in Nat /\ v \in Nat
      BY <1>1 DEF ElfFrame
    <3>2. /\ 5 <= ph /\ ph + u <= off /\ 5 <= sh /\ sh + v <= L
          /\ \/ shift = t /\ off < sh /\ off + size <= sh
             \/ shift = 0 /\ sh <= off /\ sh + v <= off
      BY <1>1 DEF ElfFrame
    <3> HIDE DEF u, v
    <3>3. 5 <= z /\ ph >= 0 /\ ph + u <= z /\ sh + shift >= 0 /\ sh + shift + v <= z
      BY <1>3, <3>1, <3>2
    <3> QED
      BY <3>3 DEF u, v
  <2> HIDE DEF ph, pn, sh, sn, shift
  <2>2. Readable(b, 0, EHDR_SIZE)
    BY <2>1, <1>3 DEF Readable, EHDR_SIZE
  <2>3. Readable(b, ph, pn * PHDR_SIZE)
    BY <2>1 DEF Readable, PHDR_SIZE
  <2>4. Readable(b, sh + shift, sn * SHDR_SIZE)
    BY <2>1 DEF Readable, SHDR_SIZE
  <2> QED
    BY <1>5, <2>2, <2>3, <2>4 DEF ElfReadable
<1>7. /\ secs = 0 .. sn - 1 /\ segs = 0 .. pn - 1
      /\ DOMAIN new.sections = 0 .. sn - 1 /\ DOMAIN new.segments = 0 .. pn - 1
  BY <1>2, <1>3, <1>5, <1>6, ElfReads
<1>8. ASSUME NEW n \in secs
      PROVE  LET was == c.layout.sections[n]
                 is == new.sections[n]
             IN /\ is.name = was.name
                /\ is.sh_offset = IF Behind(c.bun, was.sh_offset) THEN was.sh_offset + t
                                  ELSE was.sh_offset
                /\ is.sh_size = IF n = BunIndex(c) THEN c.bun.bun_size + t ELSE was.sh_size
  <2> DEFINE was == c.layout.sections[n]
             is == new.sections[n]
             x == SectionSlot(c, t, n)
  <2>1. n \in DOMAIN new.sections
    BY <1>7
  <2>2. was.header = sh + n * 3 /\ n \in Int
    <3>1. was.header = Cell(im, 3) + n * 3 /\ n \in Int
      BY <1>2, ElfReads DEF SHDR_SIZE
    <3>2. sh = Cell(im, 3)
      BY <1>2, ElfReads
    <3> QED
      BY <3>1, <3>2
  <2>3. is.header = sh + shift + n * 3
    BY <1>3, <1>5, <1>6, <2>1, ElfReads DEF SHDR_SIZE
  <2>4. x = was.header + shift
    BY DEF SectionSlot
  <2>5. sh \in Int /\ shift \in Int
    <3> HIDE DEF L, t, off, size, ph, pn, sh, sn, shift
    <3> QED
      BY <1>1 DEF ElfFrame
  <2>6. is.header = x
    <3> HIDE DEF is, was, x, sh, shift
    <3> QED
      BY <2>2, <2>3, <2>4, <2>5
  <2>7. /\ is.name = Cell(b, is.header) /\ is.sh_offset = Cell(b, is.header + 1)
        /\ is.sh_size = Cell(b, is.header + 2)
    BY <1>3, <1>6, <2>1, ElfReads
  <2>8. is.name = Cell(b, x) /\ is.sh_offset = Cell(b, x + 1) /\ is.sh_size = Cell(b, x + 2)
    <3> HIDE DEF is, x
    <3> QED
      BY <2>6, <2>7
  <2>9. SectionIs(b, c, t, n)
    BY DEF ElfOut
  <2> QED
    BY <2>8, <2>9 DEF SectionIs
<1>9. ASSUME NEW n \in segs
      PROVE  LET was == c.layout.segments[n]
                 is == new.segments[n]
             IN /\ is.p_offset = IF Behind(c.bun, was.p_offset) THEN was.p_offset + t
                                 ELSE was.p_offset
                /\ is.p_filesz = IF HoldsBun(c, was) THEN was.p_filesz + t ELSE was.p_filesz
                /\ is.p_memsz = IF HoldsBun(c, was) THEN was.p_memsz + t ELSE was.p_memsz
  <2> DEFINE was == c.layout.segments[n]
             is == new.segments[n]
             x == was.header
  <2>1. n \in DOMAIN new.segments
    BY <1>7
  <2>2. was.header = ph + n * 3
    BY <1>2, ElfReads DEF PHDR_SIZE
  <2>3. is.header = ph + n * 3
    BY <1>3, <1>5, <1>6, <2>1, ElfReads DEF PHDR_SIZE
  <2>4. is.header = x
    BY <2>2, <2>3
  <2>5. /\ is.p_offset = Cell(b, is.header) /\ is.p_filesz = Cell(b, is.header + 1)
        /\ is.p_memsz = Cell(b, is.header + 2)
    BY <1>3, <1>6, <2>1, ElfReads
  <2>6. is.p_offset = Cell(b, x) /\ is.p_filesz = Cell(b, x + 1) /\ is.p_memsz = Cell(b, x + 2)
    <3> HIDE DEF is, x
    <3> QED
      BY <2>4, <2>5
  <2>7. SegmentIs(b, c, t, n)
    BY DEF ElfOut
  <2> QED
    BY <2>6, <2>7 DEF SegmentIs
<1>10. TablesAre(new, c, t)
  <2>1. DOMAIN new.sections = secs /\ DOMAIN new.segments = segs
    BY <1>7
  <2> HIDE DEF new, t
  <2> QED
    BY <1>8, <1>9, <2>1 DEF TablesAre
<1> QED
  BY <1>5, <1>6, <1>10

\* .bun is found again, grown.
BunIs(b, c, t) ==
    /\ BunSection(b).offset = c.bun.bun_offset
    /\ BunSection(b).size = c.bun.bun_size + t

LEMMA ElfBunFound ==
    ASSUME NEW im, NEW c, InContext(im, c), c.is_elf, NEW S, PlanIn(c, S),
           NEW b, Cell(b, 0) = ELF_MAGIC, TablesAre(ElfParse(b), c, DeltaSum(S))
    PROVE  /\ ElfBunIndexes(ElfParse(b)) # {} /\ BunIs(b, c, DeltaSum(S))
           /\ BunIndex(c) \in DOMAIN c.layout.sections
           /\ c.layout.sections[BunIndex(c)].sh_offset = c.bun.bun_offset
           /\ c.layout.sections[BunIndex(c)].sh_size = c.bun.bun_size
<1> DEFINE t == DeltaSum(S)
           new == ElfParse(b)
           old == c.layout
           n == BunIndex(c)
<1>1. /\ old = ElfParse(im) /\ ElfReadable(im) /\ im \in Seq(Int)
      /\ ElfBunIndexes(ElfParse(im)) # {}
      /\ BunSection(im) = ElfBunSection(ElfParse(im))
      /\ c.bun.bun_offset = BunSection(im).offset /\ c.bun.bun_size = BunSection(im).size
  BY ContextIs DEF InContext
<1>2. /\ n \in DOMAIN old.sections
      /\ old.sections[n].sh_offset = c.bun.bun_offset /\ old.sections[n].sh_size = c.bun.bun_size
  BY <1>1, ElfBunIs DEF BunIndex
<1>3. /\ DOMAIN new.sections = DOMAIN old.sections
      /\ \A m \in DOMAIN old.sections : new.sections[m].name = old.sections[m].name
  BY DEF TablesAre
<1>4. ElfBunIndexes(new) = ElfBunIndexes(old)
  <2> HIDE DEF new, old
  <2> QED
    BY <1>3 DEF ElfBunIndexes
<1>5. /\ ElfBunSection(new).offset = new.sections[n].sh_offset
      /\ ElfBunSection(new).size = new.sections[n].sh_size
  BY <1>4 DEF ElfBunSection, BunIndex
<1>6. new.sections[n].sh_size = c.bun.bun_size + t
  BY <1>2 DEF TablesAre
<1>7. new.sections[n].sh_offset = c.bun.bun_offset
  <2>1. c.bun.bun_offset \in Nat
    BY ContextIs DEF ReadFrom
  <2>2. ~Behind(c.bun, old.sections[n].sh_offset)
    BY <1>2, <2>1 DEF Behind
  <2> QED
    BY <1>2, <2>2 DEF TablesAre
<1>8. BunSection(b) = ElfBunSection(new)
  BY DEF BunSection
<1> QED
  BY <1>1, <1>2, <1>4, <1>5, <1>6, <1>7, <1>8 DEF BunIs

-----------------------------------------------------------------------------
(* Reading the payload of a rewritten image.                               *)

\* What a StringPointer of the output says.
NewPointer(c, S, M, r) ==
    IF r.field = "bytecode" /\ r.index \in M THEN NoPtr
    ELSE [offset |-> NewOffset(c, S, c.sp[r]), length |-> NewLength(c, S, r)]

Rebuilt(bun, c, S, M) ==
    /\ bun.bun_offset = c.bun.bun_offset /\ bun.payload_start = c.bun.payload_start
    /\ bun.modules_ptr = [offset |-> c.bun.modules_ptr.offset + DeltaSum(S),
                          length |-> c.bun.modules_ptr.length]
    /\ bun.compile_exec_argv_ptr =
          [offset |-> NewOffset(c, S, c.bun.compile_exec_argv_ptr),
           length |-> c.bun.compile_exec_argv_ptr.length]
    /\ bun.entry_point_id = c.bun.entry_point_id /\ bun.flags = c.bun.flags
    /\ DOMAIN bun.modules = DOMAIN c.bun.modules
    /\ \A m \in DOMAIN c.bun.modules :
          /\ bun.modules[m].encoding = c.bun.modules[m].encoding
          /\ \A f \in FieldNames :
                bun.modules[m].fields[f] = NewPointer(c, S, M, ModuleRef(m, f))

LEMMA FramingReread ==
    ASSUME NEW im, NEW c, InContext(im, c), NEW S, PlanIn(c, S), NEW M,
           NEW p, PayloadDone(p, im, c, S, M), NEW b, SamePayload(b, p, c, DeltaSum(S))
    PROVE  /\ FramingIs(b, c, S)
           /\ Cell(b, c.bun.offsets_struct_offset + DeltaSum(S) + 7) = TRAILER
<1> DEFINE L == Len(im)
           t == DeltaSum(S)
           off == c.bun.bun_offset
           size == c.bun.bun_size
           start == c.bun.payload_start
           table == TableAt(c)
           len == c.bun.modules_ptr.length
           at == c.bun.offsets_struct_offset
<1>1. Frame(L, t, off, size, start, table, len, at)
  BY BoundsAre DEF Bounds
<1>2. \A x \in off .. off + size + t - 1 : Cell(b, x) = Cell(p, x)
  BY DEF SamePayload
<1>3. \A k \in 0..6 : FramingAt(c, S, k) = at + t + k
  BY DEF FramingAt
<1>4. FramingIs(p, c, S)
  BY DEF PayloadDone
<1>5. Cell(b, off) = Cell(p, off)
  <2> HIDE DEF L, t, off, size, start, table, len, at
  <2>1. off \in off .. off + size + t - 1
    BY <1>1 DEF Frame
  <2> QED
    BY <1>2, <2>1
<1>6. \A k \in 0..7 : Cell(b, at + t + k) = Cell(p, at + t + k)
  <2> HIDE DEF L, t, off, size, start, table, len, at
  <2>1. \A k \in 0..7 : at + t + k \in off .. off + size + t - 1
    BY <1>1 DEF Frame
  <2> QED
    BY <1>2, <2>1
<1>7. \A k \in 0..6 : Cell(b, FramingAt(c, S, k)) = Cell(p, FramingAt(c, S, k))
  <2> HIDE DEF t, at
  <2>1. \A k \in 0..6 : Cell(b, at + t + k) = Cell(p, at + t + k)
    BY <1>6
  <2> QED
    BY <1>3, <2>1
<1>8. FramingIs(b, c, S)
  BY <1>4, <1>5, <1>7, FramingIsCells
<1>9. Cell(p, at + t + 7) = TRAILER
  <2>1. Kept(p, im, c, S)
    BY DEF PayloadDone
  <2>2. ~InPointers(c, at + 7)
    <3>1. ASSUME NEW r \in ModuleRefs(c.bun)
          PROVE  at + 7 # SlotAt(c, r) /\ at + 7 # SlotAt(c, r) + 1
      <4> DEFINE x == SlotAt(c, r)
      <4>1. x \in Nat /\ x + 2 <= at
        BY SlotRange
      <4> HIDE DEF x, L, t, off, size, start, table, len, at
      <4>2. at + 7 # x /\ at + 7 # x + 1
        BY <1>1, <4>1 DEF Frame
      <4> QED
        BY <4>2 DEF x, at
    <3> QED
      BY <3>1 DEF InPointers
  <2>3. InFraming(c, at + 7) => at + 7 <= at + 6
    BY DEF InFraming
  <2>4. Cell(im, at + 7) = TRAILER
    BY ContextIs DEF ReadFrom
  <2>5. \A o \in table .. L - 1 :
           ~InFraming(c, o) /\ ~InPointers(c, o) => Cell(p, o + t) = Cell(im, o)
    BY <2>1 DEF Kept
  <2> HIDE DEF L, t, off, size, start, table, len, at
  <2>6. ~(at + 7 <= at + 6) /\ at + 7 \in table .. L - 1 /\ at + 7 + t = at + t + 7
    BY <1>1 DEF Frame
  <2>7. Cell(p, at + 7 + t) = Cell(im, at + 7)
    BY <2>2, <2>3, <2>5, <2>6
  <2> QED
    BY <2>4, <2>6, <2>7
<1>10. Cell(b, at + t + 7) = TRAILER
  <2> HIDE DEF t, at
  <2>1. Cell(b, at + t + 7) = Cell(p, at + t + 7)
    BY <1>6
  <2> QED
    BY <1>9, <2>1
<1> QED
  BY <1>8, <1>10

LEMMA ModulesReread ==
    ASSUME NEW im, NEW c, InContext(im, c), NEW S, PlanIn(c, S), NEW M,
           NEW p, PayloadDone(p, im, c, S, M), NEW b, SamePayload(b, p, c, DeltaSum(S)),
           NEW m \in DOMAIN c.bun.modules, NEW x, x = c.bun.modules[m].base + DeltaSum(S)
    PROVE  /\ ModuleRecordAt(b, x).encoding = c.bun.modules[m].encoding
           /\ \A f \in FieldNames :
                 ModuleRecordAt(b, x).fields[f] = NewPointer(c, S, M, ModuleRef(m, f))
<1> DEFINE L == Len(im)
           t == DeltaSum(S)
           off == c.bun.bun_offset
           size == c.bun.bun_size
           start == c.bun.payload_start
           table == TableAt(c)
           len == c.bun.modules_ptr.length
           at == c.bun.offsets_struct_offset
           base == c.bun.modules[m].base
<1>1. Frame(L, t, off, size, start, table, len, at)
  BY BoundsAre DEF Bounds
<1>2. \A y \in off .. off + size + t - 1 : Cell(b, y) = Cell(p, y)
  BY DEF SamePayload
<1>3. Kept(p, im, c, S) /\ PointersAre(p, c, S, M)
  BY DEF PayloadDone
<1>4. /\ base \in Nat /\ base + 13 <= table + len /\ table <= base
      /\ c.bun.modules[m].encoding = Cell(im, base + 12)
  <2>1. ReadFrom(im, c.bun) /\ im \in Seq(Int)
    BY ContextIs DEF InContext
  <2>2. /\ base \in Nat /\ base + 13 <= c.bun.payload_start + c.bun.modules_ptr.offset + len
        /\ c.bun.modules[m].encoding = Cell(im, base + 12)
    BY <2>1, ModuleReads
  <2>3. table = c.bun.payload_start + c.bun.modules_ptr.offset
    BY DEF TableAt
  <2>4. ModuleRef(m, "bytecode") \in ModuleRefs(c.bun) /\ ModuleRef(m, "bytecode").index = m
    BY BytecodeIsField, SpIs DEF ModuleRef
  <2>5. table <= base
    BY <2>4, SlotIs
  <2> QED
    BY <2>2, <2>3, <2>5
<1>5. x = base + t
  OBVIOUS
<1>6. Cell(b, x + 12) = Cell(im, base + 12)
  <2>1. ~InPointers(c, base + 12)
    BY EncodingApart DEF InPointers
  <2>2. InFraming(c, base + 12) <=> at <= base + 12 /\ base + 12 <= at + 6
    BY DEF InFraming
  <2>3. \A o \in table .. L - 1 :
           ~InFraming(c, o) /\ ~InPointers(c, o) => Cell(p, o + t) = Cell(im, o)
    BY <1>3 DEF Kept
  <2> HIDE DEF L, t, off, size, start, table, len, at, base
  <2>4. /\ ~(at <= base + 12) /\ base + 12 \in table .. L - 1
        /\ base + 12 + t = x + 12 /\ x + 12 \in off .. off + size + t - 1
    BY <1>1, <1>4, <1>5 DEF Frame
  <2>5. Cell(p, base + 12 + t) = Cell(im, base + 12)
    BY <2>1, <2>2, <2>3, <2>4
  <2>6. Cell(b, x + 12) = Cell(p, x + 12)
    BY <1>2, <2>4
  <2> QED
    BY <2>4, <2>5, <2>6
<1>7. ASSUME NEW f \in FieldNames
      PROVE  StringPtrAt(b, x + 2 * FieldIndex(f)) = NewPointer(c, S, M, ModuleRef(m, f))
  <2> DEFINE r == ModuleRef(m, f)
             slot == SlotAt(c, r)
             y == x + 2 * FieldIndex(f)
  <2>1. r \in ModuleRefs(c.bun) /\ r.index = m /\ r.field = f
    BY SpIs DEF ModuleRef
  <2>2. FieldIndex(f) \in 0..5 /\ slot = base + 2 * FieldIndex(f)
    BY <2>1, FieldIndexIs DEF SlotAt
  <2>3. slot \in Nat /\ slot + 2 <= at /\ off < slot + t
    BY <2>1, SlotRange
  <2>4. /\ slot + t = y /\ slot + t + 1 = y + 1
        /\ y \in off .. off + size + t - 1 /\ y + 1 \in off .. off + size + t - 1
    <3> HIDE DEF L, t, off, size, start, table, len, at, base, slot, r
    <3>1. slot + t = y /\ y \in Int
      BY <1>1, <1>4, <1>5, <2>2 DEF Frame
    <3> HIDE DEF y
    <3> QED
      BY <1>1, <2>3, <3>1 DEF Frame
  <2>5. Cell(b, y) = Cell(p, slot + t) /\ Cell(b, y + 1) = Cell(p, slot + t + 1)
    <3> HIDE DEF L, t, off, size, start, table, len, at, base, slot, y
    <3> QED
      BY <1>2, <2>4
  <2>6. IF f = "bytecode" /\ m \in M
        THEN Cell(p, slot + t) = 0 /\ Cell(p, slot + t + 1) = 0
        ELSE /\ Cell(p, slot + t) = NewOffset(c, S, c.sp[r])
             /\ Cell(p, slot + t + 1) = NewLength(c, S, r)
    BY <1>3, <2>1 DEF PointersAre
  <2>7. StringPtrAt(b, y) = [offset |-> Cell(b, y), length |-> Cell(b, y + 1)]
    BY DEF StringPtrAt
  <2> HIDE DEF y, slot, t, r
  <2> QED
    BY <2>1, <2>5, <2>6, <2>7 DEF NewPointer, NoPtr, r, y
<1>8. /\ ModuleRecordAt(b, x).encoding = Cell(b, x + 12)
      /\ \A f \in FieldNames :
            ModuleRecordAt(b, x).fields[f] = StringPtrAt(b, x + 2 * FieldIndex(f))
  BY DEF ModuleRecordAt
<1> QED
  BY <1>4, <1>6, <1>7, <1>8

LEMMA BunReparsed ==
    ASSUME NEW im, NEW c, InContext(im, c), NEW S, PlanIn(c, S), NEW M,
           NEW p, PayloadDone(p, im, c, S, M), NEW b, b \in Seq(Int),
           SamePayload(b, p, c, DeltaSum(S)), BunIs(b, c, DeltaSum(S))
    PROVE  Located(b, BunSection(b)) /\ Rebuilt(Locate(b, BunSection(b)), c, S, M)
<1> DEFINE L == Len(im)
           t == DeltaSum(S)
           off == c.bun.bun_offset
           size == c.bun.bun_size
           start == c.bun.payload_start
           table == TableAt(c)
           len == c.bun.modules_ptr.length
           at == c.bun.offsets_struct_offset
           mods == c.bun.modules_ptr.offset
           sect == BunSection(b)
           z == Len(b)
           x == at + t
           bun == Locate(b, sect)
<1>1. Frame(L, t, off, size, start, table, len, at)
  BY BoundsAre DEF Bounds
<1>2. sect.offset = off /\ sect.size = size + t
  BY DEF BunIs
<1>3. /\ Cell(b, off) = c.bun.payload_len + t
      /\ Cell(b, x) = c.bun.byte_count + t
      /\ Cell(b, x + 1) = mods + t
      /\ Cell(b, x + 2) = len
      /\ Cell(b, x + 3) = c.bun.entry_point_id
      /\ Cell(b, x + 4) = NewOffset(c, S, c.bun.compile_exec_argv_ptr)
      /\ Cell(b, x + 5) = c.bun.compile_exec_argv_ptr.length
      /\ Cell(b, x + 6) = c.bun.flags
      /\ Cell(b, x + 7) = TRAILER
  <2>1. FramingIs(b, c, S) /\ Cell(b, x + 7) = TRAILER
    BY FramingReread
  <2>2. FramingAt(c, S, 0) = x
    <3>1. FramingAt(c, S, 0) = x + 0
      BY DEF FramingAt
    <3> HIDE DEF L, t, off, size, start, table, len, at, x
    <3>2. x \in Int
      BY <1>1 DEF Frame, x
    <3> QED
      BY <3>1, <3>2
  <2>3. /\ FramingAt(c, S, 1) = x + 1 /\ FramingAt(c, S, 2) = x + 2
        /\ FramingAt(c, S, 3) = x + 3 /\ FramingAt(c, S, 4) = x + 4
        /\ FramingAt(c, S, 5) = x + 5 /\ FramingAt(c, S, 6) = x + 6
    BY DEF FramingAt
  <2> HIDE DEF x
  <2> QED
    BY <2>1, <2>2, <2>3 DEF FramingIs
<1>4. /\ c.bun.payload_len = size - 1 /\ c.bun.byte_count = at - start
      /\ WholeRecords(len) /\ table = start + mods /\ mods \in Int
      /\ c.bun.modules = [m \in 0 .. (len \div MODULE_RECORD_SIZE) - 1 |->
              ModuleRecordAt(im, start + mods + m * MODULE_RECORD_SIZE)]
  <2>1. ReadFrom(im, c.bun)
    BY ContextIs
  <2> QED
    BY <2>1 DEF ReadFrom, TableAt
<1>5. OffsetsStructAt(b, sect) = x
  <2>1. OffsetsStructAt(b, sect) = off + 1 + (c.bun.payload_len + t) - 1 - 7
    BY <1>2, <1>3 DEF OffsetsStructAt, PREFIX_SIZE, TRAILER_SIZE, OFFSETS_STRUCT_SIZE
  <2> DEFINE n == c.bun.payload_len
  <2> HIDE DEF L, t, off, size, start, table, len, at, n
  <2>2. off + 1 + (n + t) - 1 - 7 = x
    BY <1>1, <1>4 DEF Frame, n
  <2> QED
    BY <2>1, <2>2 DEF n
<1>6. Located(b, sect)
  <2>1. off >= 0 /\ off + 1 <= z /\ x >= 0 /\ x + 8 <= z
    <3>1. off + size + t <= z
      BY DEF SamePayload
    <3>2. z \in Nat
      BY LenProperties
    <3> HIDE DEF L, t, off, size, start, table, len, at, z
    <3> QED
      BY <1>1, <3>1, <3>2 DEF Frame
  <2>2. Readable(b, sect.offset, PREFIX_SIZE)
    BY <1>2, <2>1 DEF Readable, PREFIX_SIZE
  <2>3. Cell(b, sect.offset) = sect.size - PREFIX_SIZE
    <3> DEFINE n == c.bun.payload_len
    <3>1. n + t = (size + t) - 1
      <4> HIDE DEF L, t, off, size, start, table, len, at, n
      <4> QED
        BY <1>1, <1>4 DEF Frame, n
    <3>2. Cell(b, off) = (size + t) - 1
      BY <1>3, <3>1
    <3> HIDE DEF off, size, t, sect
    <3>3. Cell(b, sect.offset) = Cell(b, off)
      BY <1>2
    <3>4. sect.size - PREFIX_SIZE = (size + t) - 1
      BY <1>2 DEF PREFIX_SIZE
    <3> QED
      BY <3>2, <3>3, <3>4
  <2>4. Readable(b, x, OFFSETS_STRUCT_SIZE + TRAILER_SIZE)
    <3> HIDE DEF x, z
    <3> QED
      BY <2>1 DEF Readable, OFFSETS_STRUCT_SIZE, TRAILER_SIZE, z
  <2>5. Cell(b, x) = x - (sect.offset + PREFIX_SIZE)
    <3> DEFINE n == c.bun.byte_count
    <3>1. n + t = x - (off + 1)
      <4> HIDE DEF L, t, off, size, start, table, len, at, n
      <4> QED
        BY <1>1, <1>4 DEF Frame, n
    <3> QED
      BY <1>2, <1>3, <3>1 DEF PREFIX_SIZE
  <2>6. Cell(b, x + 2) % MODULE_RECORD_SIZE = 0
    BY <1>3, <1>4 DEF WholeRecords
  <2>7. Readable(b, sect.offset + PREFIX_SIZE + Cell(b, x + 1), Cell(b, x + 2))
    <3>1. off + 1 + (mods + t) >= 0 /\ off + 1 + (mods + t) + len <= z
      <4>1. off + size + t <= z
        BY DEF SamePayload
      <4>2. z \in Nat
        BY LenProperties
      <4> HIDE DEF L, t, off, size, start, table, len, at, z, mods
      <4>3. off + 1 + (mods + t) = table + t
        BY <1>1, <1>4 DEF Frame
      <4>4. table + t >= 0 /\ table + t + len <= z
        BY <1>1, <4>1, <4>2 DEF Frame
      <4> QED
        BY <4>3, <4>4
    <3>2. Readable(b, off + 1 + (mods + t), len)
      <4> HIDE DEF off, mods, t, len, z
      <4> QED
        BY <3>1 DEF Readable, z
    <3> QED
      BY <1>2, <1>3, <3>2 DEF PREFIX_SIZE
  <2>8. Cell(b, x + OFFSETS_STRUCT_SIZE) = TRAILER
    BY <1>3 DEF OFFSETS_STRUCT_SIZE
  <2> HIDE DEF x, sect
  <2> QED
    BY <1>5, <2>2, <2>3, <2>4, <2>5, <2>6, <2>7, <2>8 DEF Located, sect
<1>7. /\ bun.bun_offset = off /\ bun.payload_start = off + 1
      /\ bun.modules_ptr = [offset |-> mods + t, length |-> len]
      /\ bun.compile_exec_argv_ptr =
            [offset |-> NewOffset(c, S, c.bun.compile_exec_argv_ptr),
             length |-> c.bun.compile_exec_argv_ptr.length]
      /\ bun.entry_point_id = c.bun.entry_point_id /\ bun.flags = c.bun.flags
      /\ bun.modules = [m \in 0 .. (len \div MODULE_RECORD_SIZE) - 1 |->
              ModuleRecordAt(b, off + 1 + (mods + t) + m * MODULE_RECORD_SIZE)]
  <2>1. StringPtrAt(b, x + 1) = [offset |-> mods + t, length |-> len]
    <3>1. x + 1 + 1 = x + 2
      <4> HIDE DEF L, t, off, size, start, table, len, at
      <4> QED
        BY <1>1 DEF Frame
    <3> HIDE DEF x, t, mods, len
    <3> QED
      BY <1>3, <3>1 DEF StringPtrAt
  <2>2. StringPtrAt(b, x + 4) =
            [offset |-> NewOffset(c, S, c.bun.compile_exec_argv_ptr),
             length |-> c.bun.compile_exec_argv_ptr.length]
    <3>1. x + 4 + 1 = x + 5
      <4> HIDE DEF L, t, off, size, start, table, len, at
      <4> QED
        BY <1>1 DEF Frame
    <3> HIDE DEF x, t, mods, len
    <3> QED
      BY <1>3, <3>1 DEF StringPtrAt
  <2> HIDE DEF x, t, mods, len, off, sect
  <2> QED
    BY <1>2, <1>3, <1>5, <2>1, <2>2 DEF Locate, PREFIX_SIZE, bun
<1>8. DOMAIN bun.modules = DOMAIN c.bun.modules
  <2> HIDE DEF bun, len, mods, t, off, start
  <2> QED
    BY <1>4, <1>7
<1>9. ASSUME NEW m \in DOMAIN c.bun.modules
      PROVE  /\ bun.modules[m].encoding = c.bun.modules[m].encoding
             /\ \A f \in FieldNames :
                   bun.modules[m].fields[f] = NewPointer(c, S, M, ModuleRef(m, f))
  <2> DEFINE y == off + 1 + (mods + t) + m * MODULE_RECORD_SIZE
             base == c.bun.modules[m].base
  <2>1. m \in 0 .. (len \div MODULE_RECORD_SIZE) - 1
    <3> HIDE DEF len, mods, start
    <3> QED
      BY <1>4
  <2>2. bun.modules[m] = ModuleRecordAt(b, y)
    <3> HIDE DEF bun, len, mods, t, off
    <3> QED
      BY <1>7, <2>1
  <2>3. base = start + mods + m * MODULE_RECORD_SIZE /\ m \in Nat
    BY ContextIs, ModuleReads DEF InContext
  <2>4. y = base + t
    <3> HIDE DEF L, t, off, size, start, table, len, at, mods, base
    <3> QED
      BY <1>1, <1>4, <2>3 DEF Frame, MODULE_RECORD_SIZE
  <2> HIDE DEF y, bun
  <2> QED
    BY <2>2, <2>4, ModulesReread
<1>10. off + 1 = start
  <2> HIDE DEF L, t, off, size, start, table, len, at
  <2> QED
    BY <1>1 DEF Frame
<1> QED
  BY <1>6, <1>7, <1>8, <1>9, <1>10 DEF Rebuilt

-----------------------------------------------------------------------------
(* The load commands of a rewritten Mach-O image.                          *)

\* The Mach-O image im with the context c has its __bun section at command n,
\* section k.
MachOBun(im, c, n, k) ==
    /\ c.layout = MachOParse(im) /\ MachOParses(im) /\ im \in Seq(Int) /\ CommandsIn(im)
    /\ c.layout.page_size = Cell(im, 1) /\ Cell(im, 1) \in Int /\ c.layout.page_size > 0
    /\ n \in SegmentCommands(im) /\ k \in Int /\ IsBunSect(im, n, k)
    /\ SegmentIn(im, CommandOffsets(im)[n])
    /\ CommandOffsets(im)[Cell(im, 2)] <= c.bun.bun_offset
    /\ c.bun.bun_offset = BunSect(c.layout).offset /\ c.bun.bun_size = BunSect(c.layout).size

LEMMA MachOBunIs ==
    ASSUME NEW im, NEW c, InContext(im, c), ~c.is_elf
    PROVE  \E n, k : MachOBun(im, c, n, k)
<1>1. /\ c.layout = MachOParse(im) /\ MachOParses(im) /\ im \in Seq(Int)
      /\ OneBun(MachOParse(im)) /\ MachOWellPlaced(im, c)
      /\ BunSection(im) = MachOBunSection(MachOParse(im))
      /\ c.bun.bun_offset = BunSection(im).offset /\ c.bun.bun_size = BunSection(im).size
  BY ContextIs DEF InContext
<1>2. CommandsIn(im) /\ Cell(im, 1) \in Int
  BY <1>1, MachOHasCommands
<1>3. PICK n \in SegmentCommands(im), k \in Int : IsBunSect(im, n, k)
  BY <1>1, BunSectIs
<1>4. SegmentIn(im, CommandOffsets(im)[n])
  BY <1>1, SegmentsAre
<1>5. c.layout.page_size > 0 /\ CommandOffsets(im)[Cell(im, 2)] <= c.bun.bun_offset
  BY <1>1 DEF MachOWellPlaced
<1>6. c.layout.page_size = Cell(im, 1)
  BY <1>1 DEF MachOParse
<1>7. c.bun.bun_offset = BunSect(c.layout).offset /\ c.bun.bun_size = BunSect(c.layout).size
  BY <1>1 DEF MachOBunSection
<1>8. MachOBun(im, c, n, k)
  BY <1>1, <1>2, <1>3, <1>4, <1>5, <1>6, <1>7 DEF MachOBun
<1> QED
  BY <1>8

LEMMA RoundUpType ==
    ASSUME NEW a \in Int, NEW m \in Int, m > 0
    PROVE  RoundUp(a, m) \in Int
<1> DEFINE q == (a + m - 1) \div m
<1>1. q \in Int
  OBVIOUS
<1> HIDE DEF q
<1>2. q * m \in Int
  BY <1>1
<1> QED
  BY <1>2 DEF RoundUp, q

LEMMA GrowTypes ==
    ASSUME NEW im, NEW c, NEW n, NEW k, MachOBun(im, c, n, k), NEW t \in Int,
           c.bun.bun_offset \in Nat, c.bun.bun_size \in Int
    PROVE  /\ SegmentByName(c.layout, BUN_SEGNAME) = SegmentAt(im, CommandOffsets(im)[n])
           /\ SegmentByName(c.layout, BUN_SEGNAME).filesize \in Int
           /\ SegmentByName(c.layout, BUN_SEGNAME).vmsize \in Int
           /\ Pad(c.layout, c.bun) \in Int /\ Grow(c.layout, c.bun, t) \in Int
<1> DEFINE mo == c.layout
           x == CommandOffsets(im)[n]
           seg == SegmentByName(mo, BUN_SEGNAME)
           pad == Pad(mo, c.bun)
<1>1. mo = MachOParse(im) /\ IsBunSect(im, n, k) /\ SegmentIn(im, x)
      /\ mo.page_size \in Int /\ mo.page_size > 0
  BY DEF MachOBun
<1>2. seg = SegmentAt(im, x)
  BY <1>1 DEF IsBunSect
<1>3. seg.fileoff = Cell(im, x + 5) /\ seg.filesize = Cell(im, x + 6)
      /\ seg.vmsize = Cell(im, x + 4)
  BY <1>2 DEF SegmentAt
<1>4. Cell(im, x + 5) \in Int /\ Cell(im, x + 6) \in Int /\ Cell(im, x + 4) \in Int
  BY <1>1 DEF SegmentIn
<1>5. pad \in Int
  <2>1. pad = (seg.fileoff + seg.filesize) - (c.bun.bun_offset + c.bun.bun_size)
    BY DEF Pad, FileEnd, PayloadRegionEnd
  <2> HIDE DEF pad, seg, x
  <2> QED
    BY <1>3, <1>4, <2>1
<1>6. Grow(mo, c.bun, t) \in Int
  <2>1. Grow(mo, c.bun, t) = IF t <= pad THEN 0 ELSE RoundUp(t - pad, mo.page_size)
    BY DEF Grow
  <2> DEFINE d == t - pad
  <2>2. d \in Int
    <3> HIDE DEF pad
    <3> QED
      BY <1>5
  <2> HIDE DEF pad, d, mo
  <2>3. RoundUp(d, mo.page_size) \in Int
    BY <1>1, <2>2, RoundUpType
  <2> QED
    BY <2>1, <2>3 DEF d
<1> QED
  BY <1>2, <1>3, <1>4, <1>5, <1>6

LEMMA Zeros ==
    ASSUME NEW n \in Int
    PROVE  [k \in 1..n |-> 0] \in Seq(Int)
<1>1. CASE n \in Nat
  BY <1>1
<1>2. CASE n \notin Nat
  <2>1. 1..n = 1..0
    BY <1>2
  <2>2. [k \in 1..0 |-> 0] \in Seq(Int)
    OBVIOUS
  <2> QED
    BY <2>1, <2>2
<1> QED
  BY <1>1, <1>2

\* The padding behind the payload changes, and nothing in front of it.
LEMMA RepadCells ==
    ASSUME NEW im, NEW c, InContext(im, c), ~c.is_elf, NEW S, PlanIn(c, S),
           NEW p, Kept(p, im, c, S), PaddingAccepted(p, c.layout, c.bun, DeltaSum(S)),
           NEW b, b = Repad(p, c.layout, c.bun, DeltaSum(S))
    PROVE  b \in Seq(Int) /\ SamePayload(b, p, c, DeltaSum(S))
           /\ \A x \in 0 .. c.bun.bun_offset - 1 : Cell(b, x) = Cell(p, x)
<1> DEFINE L == Len(im)
           t == DeltaSum(S)
           off == c.bun.bun_offset
           size == c.bun.bun_size
           start == c.bun.payload_start
           table == TableAt(c)
           len == c.bun.modules_ptr.length
           at == c.bun.offsets_struct_offset
           z == Len(p)
           pad == Pad(c.layout, c.bun)
           grow == Grow(c.layout, c.bun, t)
           from == PayloadRegionEnd(c.bun) + t
           new_pad == pad + grow - t
           zeros == [k \in 1 .. new_pad |-> 0]
           head == SubSeq(p, 1, from)
           tail == SubSeq(p, from + pad + 1, z)
<1>1. Frame(L, t, off, size, start, table, len, at)
  BY BoundsAre DEF Bounds
<1>2. p \in Seq(Int) /\ off + size + t <= z /\ z \in Nat
  BY KeptOutside, PayloadFits, LenProperties
<1>3. pad \in Int /\ grow \in Int
  <2>1. PICK n, k : MachOBun(im, c, n, k)
    BY MachOBunIs
  <2>2. off \in Nat /\ size \in Int /\ t \in Int
    <3> HIDE DEF L, t, off, size, start, table, len, at
    <3> QED
      BY <1>1 DEF Frame
  <2> QED
    BY <2>1, <2>2, GrowTypes
<1>4. from = (off + size) + t
  BY DEF PayloadRegionEnd
<1>5. pad >= 0 /\ from + pad <= z
  BY DEF PaddingAccepted, Readable
<1>6. b = (head \o zeros) \o tail
  BY DEF Repad
<1>7. from \in Nat /\ from <= z /\ off <= from /\ from + pad \in Nat /\ new_pad \in Int
  <2> HIDE DEF L, t, off, size, start, table, len, at, z, pad, grow, from
  <2> QED
    BY <1>1, <1>2, <1>3, <1>4, <1>5 DEF Frame
<1> HIDE DEF from, pad, new_pad, off, size, t
<1>8. head \in Seq(Int) /\ Len(head) = from /\ \A x \in 1..from : head[x] = p[x]
  BY <1>2, <1>7, PrefixOf
<1>9. zeros \in Seq(Int)
  BY <1>7, Zeros
<1>10. tail \in Seq(Int)
  BY <1>2, <1>5, <1>7, SuffixOf
<1> HIDE DEF head, zeros, tail, z
<1>11. /\ b \in Seq(Int) /\ Len(b) = Len(head) + Len(zeros) + Len(tail)
       /\ \A x \in 1..Len(head) : b[x] = head[x]
  <2> DEFINE all == (head \o zeros) \o tail
  <2>1. head \in Seq(Int) /\ zeros \in Seq(Int) /\ tail \in Seq(Int)
    BY <1>8, <1>9, <1>10
  <2>2. /\ all \in Seq(Int) /\ Len(all) = Len(head) + Len(zeros) + Len(tail)
        /\ \A x \in 1..Len(head) : all[x] = head[x]
    BY <2>1, ThreeParts
  <2>3. b = all
    BY <1>6
  <2> HIDE DEF all
  <2> QED
    BY <2>2, <2>3
<1>12. from <= Len(b)
  <2>1. Len(zeros) \in Nat /\ Len(tail) \in Nat
    BY <1>9, <1>10, LenProperties
  <2> QED
    BY <1>7, <1>8, <1>11, <2>1
<1>13. \A x \in 0 .. from - 1 : Cell(b, x) = Cell(p, x)
  <2> SUFFICES ASSUME NEW x \in 0 .. from - 1 PROVE b[x + 1] = p[x + 1]
    BY DEF Cell
  <2>1. x + 1 \in 1..from
    BY <1>7
  <2> QED
    BY <1>8, <1>11, <2>1
<1>14. off + size + t = from
  <2> HIDE DEF L, start, table, len, at
  <2> QED
    BY <1>1, <1>4 DEF Frame
<1>15. SamePayload(b, p, c, t)
  <2>1. \A x \in off .. off + size + t - 1 : x \in 0 .. from - 1
    <3> HIDE DEF L, start, table, len, at
    <3> QED
      BY <1>1, <1>7, <1>14 DEF Frame
  <2>2. off + size + t <= Len(b)
    BY <1>12, <1>14
  <2> QED
    BY <1>13, <2>1, <2>2 DEF SamePayload, off, size
<1>16. \A x \in 0 .. off - 1 : Cell(b, x) = Cell(p, x)
  <2>1. \A x \in 0 .. off - 1 : x \in 0 .. from - 1
    <3> HIDE DEF L, start, table, len, at
    <3> QED
      BY <1>1, <1>7 DEF Frame
  <2> QED
    BY <1>13, <2>1
<1> QED
  BY <1>11, <1>15, <1>16 DEF off, t

SectionCell(x, k) == x + SEGMENT_COMMAND_SIZE + k * SECTION_SIZE

\* A cell of command n that apply may overwrite.
TargetIn(im, n, o) ==
    LET x == CommandOffsets(im)[n]
    IN \/ n \in SegmentCommands(im) /\ o \in {x + 3, x + 4, x + 5, x + 6}
       \/ /\ n \in SegmentCommands(im)
          /\ \E k \in 0 .. Cell(im, x + 7) - 1, j \in 1..3 : o = SectionCell(x, k) + j
       \/ /\ n \notin SegmentCommands(im)
          /\ \E j \in 2..3 : o = x + j /\ j < Cell(im, x + 1)

\* The cells that tell where the commands and sections are, and which they are.
MachOKept(b, im) ==
    /\ \A o \in 0..3 : Cell(b, o) = Cell(im, o)
    /\ \A n \in 0 .. Cell(im, 2) - 1 :
          LET x == CommandOffsets(im)[n]
          IN /\ Cell(b, x) = Cell(im, x)
             /\ Cell(b, x + 1) = Cell(im, x + 1)
             /\ n \in SegmentCommands(im) =>
                   /\ Cell(b, x + 2) = Cell(im, x + 2)
                   /\ Cell(b, x + 7) = Cell(im, x + 7)
                   /\ \A k \in 0 .. Cell(im, x + 7) - 1 :
                         Cell(b, SectionCell(x, k)) = Cell(im, SectionCell(x, k))

\* One of those cells.
KeptCell(im, o) ==
    \/ o \in 0..3
    \/ \E n \in 0 .. Cell(im, 2) - 1 :
          LET x == CommandOffsets(im)[n]
          IN \/ o = x \/ o = x + 1
             \/ /\ n \in SegmentCommands(im)
                /\ \/ o = x + 2 \/ o = x + 7
                   \/ \E k \in 0 .. Cell(im, x + 7) - 1 : o = SectionCell(x, k)

\* Command n ends where the next begins, and commands do not overlap.
CommandRange(im, n, x, end) ==
    /\ x = CommandOffsets(im)[n] /\ end = CommandOffsets(im)[n + 1]
    /\ x \in Nat /\ 4 <= x /\ Cell(im, x + 1) \in Nat /\ 2 <= Cell(im, x + 1)
    /\ end = x + Cell(im, x + 1)
    /\ end <= CommandOffsets(im)[Cell(im, 2)] /\ CommandOffsets(im)[Cell(im, 2)] \in Nat

LEMMA CommandRanges ==
    ASSUME NEW im, CommandsIn(im), NEW n \in 0 .. Cell(im, 2) - 1
    PROVE  /\ CommandRange(im, n, CommandOffsets(im)[n], CommandOffsets(im)[n + 1])
           /\ \A m \in 0 .. Cell(im, 2) - 1 : m # n =>
                 \/ CommandOffsets(im)[m + 1] <= CommandOffsets(im)[n]
                 \/ CommandOffsets(im)[n + 1] <= CommandOffsets(im)[m]
<1> DEFINE at == CommandOffsets(im)
           z == Cell(im, 2)
<1>1. /\ z \in Nat
      /\ \A m \in 0 .. z : at[m] \in Nat /\ 4 <= at[m]
      /\ \A m \in 0 .. z - 1 : /\ Cell(im, at[m] + 1) \in Nat /\ 2 <= Cell(im, at[m] + 1)
                               /\ at[m + 1] = at[m] + Cell(im, at[m] + 1)
      /\ \A m \in 0 .. z - 1, l \in 0 .. z : m < l => at[m + 1] <= at[l]
  BY DEF CommandsIn
<1> HIDE DEF at, z
<1>2. n \in 0 .. z - 1 /\ n \in 0 .. z /\ z \in 0 .. z /\ n < z
  BY <1>1 DEF z
<1>3. /\ at[n] \in Nat /\ 4 <= at[n] /\ at[z] \in Nat
      /\ Cell(im, at[n] + 1) \in Nat /\ 2 <= Cell(im, at[n] + 1)
      /\ at[n + 1] = at[n] + Cell(im, at[n] + 1) /\ at[n + 1] <= at[z]
  BY <1>1, <1>2
<1>4. ASSUME NEW m \in 0 .. z - 1, m # n
      PROVE  at[m + 1] <= at[n] \/ at[n + 1] <= at[m]
  <2>1. m \in 0 .. z /\ (m < n \/ n < m)
    BY <1>1, <1>2, <1>4
  <2> QED
    BY <1>1, <1>2, <2>1
<1>5. CommandRange(im, n, at[n], at[n + 1])
  BY <1>3 DEF CommandRange, at, z
<1> QED
  BY <1>4, <1>5 DEF at, z

\* A section of a segment command lies in the command.
LEMMA SectionInCommand ==
    ASSUME NEW im, NEW x, SegmentIn(im, x), NEW k \in 0 .. Cell(im, x + 7) - 1
    PROVE  /\ SectionCell(x, k) \in Nat /\ x + 8 <= SectionCell(x, k)
           /\ SectionCell(x, k) + 4 <= x + Cell(im, x + 1)
           /\ k \in Nat /\ SectionCell(x, k) = x + 8 + k * 4
<1>1. SectionCell(x, k) \in Nat /\ x + 8 <= SectionCell(x, k)
      /\ SectionCell(x, k) + 4 <= x + Cell(im, x + 1)
  BY DEF SegmentIn, SectionCell
<1>2. SectionCell(x, k) = x + 8 + k * 4
  BY DEF SectionCell, SEGMENT_COMMAND_SIZE, SECTION_SIZE
<1>3. Cell(im, x + 7) \in Int
  BY DEF SegmentIn
<1>4. k \in Nat
  BY <1>3
<1> QED
  BY <1>1, <1>2, <1>4

\* An overwritten cell lies in its command, behind the two cells each has.
LEMMA TargetRange ==
    ASSUME NEW im, CommandsIn(im), NEW n \in 0 .. Cell(im, 2) - 1,
           n \in SegmentCommands(im) => SegmentIn(im, CommandOffsets(im)[n]),
           NEW o, TargetIn(im, n, o)
    PROVE  /\ o \in Nat /\ CommandOffsets(im)[n] + 2 <= o
           /\ o < CommandOffsets(im)[n + 1]
<1> DEFINE x == CommandOffsets(im)[n]
           end == CommandOffsets(im)[n + 1]
           size == Cell(im, x + 1)
<1>1. /\ x \in Nat /\ 4 <= x /\ size \in Nat /\ 2 <= size /\ end = x + size
  <2>1. CommandRange(im, n, x, end)
    BY CommandRanges
  <2> QED
    BY <2>1 DEF CommandRange
<1>2. n \in SegmentCommands(im) => SegmentIn(im, x) /\ 8 <= size
  BY DEF SegmentIn
<1>3. CASE n \in SegmentCommands(im) /\ o \in {x + 3, x + 4, x + 5, x + 6}
  <2> HIDE DEF x, end, size
  <2>1. o \in Nat /\ x + 2 <= o /\ o < end
    BY <1>1, <1>2, <1>3
  <2> QED
    BY <2>1 DEF x, end
<1>4. CASE /\ n \in SegmentCommands(im)
           /\ \E k \in 0 .. Cell(im, x + 7) - 1, j \in 1..3 : o = SectionCell(x, k) + j
  <2>1. PICK k \in 0 .. Cell(im, x + 7) - 1, j \in 1..3 : o = SectionCell(x, k) + j
    BY <1>4
  <2> DEFINE y == SectionCell(x, k)
  <2>2. y \in Nat /\ x + 8 <= y /\ y + 4 <= x + size
    BY <1>2, <1>4, SectionInCommand
  <2>3. o = y + j
    BY <2>1
  <2> HIDE DEF x, end, size, y
  <2>4. o \in Nat /\ x + 2 <= o /\ o < end
    BY <1>1, <2>2, <2>3
  <2> QED
    BY <2>4 DEF x, end
<1>5. CASE /\ n \notin SegmentCommands(im)
           /\ \E j \in 2..3 : o = x + j /\ j < size
  <2> HIDE DEF x, end, size
  <2>1. o \in Nat /\ x + 2 <= o /\ o < end
    BY <1>1, <1>5
  <2> QED
    BY <2>1 DEF x, end
<1> QED
  BY <1>3, <1>4, <1>5 DEF TargetIn

LEMMA TargetsKeep ==
    ASSUME NEW im, CommandsIn(im), NEW n \in 0 .. Cell(im, 2) - 1,
           \A m \in SegmentCommands(im) : SegmentIn(im, CommandOffsets(im)[m]),
           NEW o, TargetIn(im, n, o)
    PROVE  ~KeptCell(im, o)
<1> DEFINE x == CommandOffsets(im)[n]
           end == CommandOffsets(im)[n + 1]
<1>1. o \in Nat /\ x + 2 <= o /\ o < end /\ x \in Nat /\ 4 <= x
  <2>1. CommandRange(im, n, x, end)
    BY CommandRanges
  <2>2. x \in Nat /\ 4 <= x
    BY <2>1 DEF CommandRange
  <2> QED
    BY <2>2, TargetRange
<1>2. o \notin 0..3
  BY <1>1
<1>3. ASSUME NEW m \in 0 .. Cell(im, 2) - 1,
             NEW u, o = u,
             LET y == CommandOffsets(im)[m]
             IN \/ u = y \/ u = y + 1
                \/ /\ m \in SegmentCommands(im)
                   /\ \/ u = y + 2 \/ u = y + 7
                      \/ \E k \in 0 .. Cell(im, y + 7) - 1 : u = SectionCell(y, k)
      PROVE  FALSE
  <2> DEFINE y == CommandOffsets(im)[m]
             last == CommandOffsets(im)[m + 1]
             size == Cell(im, y + 1)
  <2>1. y \in Nat /\ size \in Nat /\ 2 <= size /\ last = y + size
    <3>1. CommandRange(im, m, y, last)
      BY CommandRanges
    <3> QED
      BY <3>1 DEF CommandRange
  <2>2. m \in SegmentCommands(im) => SegmentIn(im, y) /\ 8 <= size
    BY DEF SegmentIn
  <2>3. \A k \in 0 .. Cell(im, y + 7) - 1 : m \in SegmentCommands(im) =>
           /\ SectionCell(y, k) \in Nat /\ y + 8 <= SectionCell(y, k)
           /\ SectionCell(y, k) + 4 <= y + size
           /\ k \in Nat /\ SectionCell(y, k) = y + 8 + k * 4
    BY <2>2, SectionInCommand
  <2>4. y <= o /\ o < last
    <3> HIDE DEF x, end, y, last, size
    <3>1. CASE o = y \/ o = y + 1
      BY <2>1, <3>1
    <3>2. CASE m \in SegmentCommands(im) /\ (o = y + 2 \/ o = y + 7)
      BY <2>1, <2>2, <3>2
    <3>3. CASE m \in SegmentCommands(im)
               /\ \E k \in 0 .. Cell(im, y + 7) - 1 : o = SectionCell(y, k)
      <4>1. PICK k \in 0 .. Cell(im, y + 7) - 1 : o = SectionCell(y, k)
        BY <3>3
      <4>2. o \in Nat /\ y + 8 <= o /\ o + 4 <= y + size
        BY <2>3, <3>3, <4>1
      <4> QED
        BY <2>1, <4>2
    <3> QED
      BY <1>3, <3>1, <3>2, <3>3 DEF y
  <2>5. m = n
    <3> SUFFICES ASSUME m # n PROVE FALSE
      OBVIOUS
    <3>1. last <= x \/ end <= y
      BY CommandRanges
    <3>2. last \in Nat /\ end \in Nat
      <4>1. CommandRange(im, n, x, end) /\ CommandRange(im, m, y, last)
        BY CommandRanges
      <4>2. end = x + Cell(im, x + 1) /\ Cell(im, x + 1) \in Nat
        BY <4>1 DEF CommandRange
      <4> HIDE DEF x, end, y, last, size
      <4> QED
        BY <1>1, <2>1, <4>2
    <3> HIDE DEF x, end, y, last, size
    <3> QED
      BY <1>1, <2>1, <2>4, <3>1, <3>2
  <2>6. y = x
    BY <2>5
  <2>7. o # y /\ o # y + 1
    <3> HIDE DEF x, y, end, last
    <3> QED
      BY <1>1, <2>6
  <2>8. /\ m \in SegmentCommands(im)
        /\ \/ o = y + 2 \/ o = y + 7
           \/ \E k \in 0 .. Cell(im, y + 7) - 1 : o = SectionCell(y, k)
    BY <1>3, <2>7
  <2>9. \/ o \in {y + 3, y + 4, y + 5, y + 6}
        \/ \E k \in 0 .. Cell(im, y + 7) - 1, j \in 1..3 : o = SectionCell(y, k) + j
    BY <2>5, <2>8 DEF TargetIn
  <2>10. CASE o \in {y + 3, y + 4, y + 5, y + 6}
    <3> HIDE DEF y, size, x, end, last
    <3> QED
      BY <2>1, <2>3, <2>8, <2>10
  <2>11. CASE \E k \in 0 .. Cell(im, y + 7) - 1, j \in 1..3 : o = SectionCell(y, k) + j
    <3> HIDE DEF y, size, x, end, last
    <3>1. PICK k \in 0 .. Cell(im, y + 7) - 1, j \in 1..3 : o = SectionCell(y, k) + j
      BY <2>11
    <3>2. k \in Nat /\ o = y + 8 + k * 4 + j
      BY <2>1, <2>3, <2>8, <3>1
    <3>3. o # y + 2 /\ o # y + 7
      BY <2>1, <3>2
    <3>4. PICK l \in 0 .. Cell(im, y + 7) - 1 : o = SectionCell(y, l)
      BY <2>8, <3>3
    <3>5. l \in Nat /\ o = y + 8 + l * 4
      BY <2>3, <2>8, <3>4
    <3> QED
      BY <2>1, <3>2, <3>5
  <2> QED
    BY <2>9, <2>10, <2>11
<1> QED
  BY <1>2, <1>3 DEF KeptCell

LEMMA LaterSegment ==
    ASSUME NEW im, NEW c, NEW n, NEW k, MachOBun(im, c, n, k),
           NEW g \in c.layout.segments, g # SegmentByName(c.layout, BUN_SEGNAME)
    PROVE  \E m \in SegmentCommands(im) :
              /\ m # n /\ m \in 0 .. Cell(im, 2) - 1
              /\ SegmentIn(im, CommandOffsets(im)[m])
              /\ g = SegmentAt(im, CommandOffsets(im)[m])
<1>1. /\ c.layout = MachOParse(im) /\ MachOParses(im) /\ im \in Seq(Int)
      /\ SegmentByName(MachOParse(im), BUN_SEGNAME) = SegmentAt(im, CommandOffsets(im)[n])
  BY DEF MachOBun, IsBunSect
<1>2. PICK m \in SegmentCommands(im) : g = SegmentAt(im, CommandOffsets(im)[m])
  BY <1>1, SegmentsAre
<1>3. SegmentIn(im, CommandOffsets(im)[m])
  BY <1>1, SegmentsAre
<1>4. m # n
  BY <1>1, <1>2
<1>5. m \in 0 .. Cell(im, 2) - 1
  BY DEF SegmentCommands
<1> QED
  BY <1>2, <1>3, <1>4, <1>5

\* A file offset in a load command that is no segment.
LEMMA FieldIs ==
    ASSUME NEW im, NEW c, NEW n, NEW k, MachOBun(im, c, n, k),
           NEW f \in c.layout.file_offset_fields
    PROVE  \E m \in 0 .. Cell(im, 2) - 1, j \in 2..3 :
              /\ m \notin SegmentCommands(im)
              /\ j \in FileOffsetFields(Cell(im, CommandOffsets(im)[m]))
              /\ f.at = CommandOffsets(im)[m] + j /\ f.value = Cell(im, f.at)
              /\ j < Cell(im, CommandOffsets(im)[m] + 1) /\ f.value \in Int
<1> DEFINE at == CommandOffsets(im)
<1>1. c.layout = MachOParse(im) /\ CommandsIn(im) /\ im \in Seq(Int)
  BY DEF MachOBun
<1>2. PICK m \in 0 .. Cell(im, 2) - 1 : \E rel \in FileOffsetFields(Cell(im, at[m])) :
          f = [at |-> at[m] + rel, value |-> Cell(im, at[m] + rel)]
  BY <1>1 DEF MachOParse
<1>3. PICK rel \in FileOffsetFields(Cell(im, at[m])) :
          f = [at |-> at[m] + rel, value |-> Cell(im, at[m] + rel)]
  BY <1>2
<1>4. rel \in 2..3
  BY DEF FileOffsetFields
<1>5. m \notin SegmentCommands(im)
  <2> SUFFICES ASSUME Cell(im, at[m]) = LC_SEGMENT_64 PROVE FALSE
    BY DEF SegmentCommands
  <2>1. FileOffsetFields(LC_SEGMENT_64) = {}
    BY DEF FileOffsetFields, LC_SEGMENT_64, LC_SYMTAB, LC_CODE_SIGNATURE
  <2> QED
    BY <2>1
<1>6. CommandAccepted(im, at[m])
  BY <1>1 DEF CommandsIn
<1>7. rel < Cell(im, at[m] + 1) /\ Readable(im, at[m] + rel, 1)
  BY <1>6 DEF CommandAccepted
<1>8. at[m] \in Nat
  <2>1. CommandRange(im, m, at[m], at[m + 1])
    BY <1>1, CommandRanges
  <2> QED
    BY <2>1 DEF CommandRange
<1>9. Cell(im, at[m] + rel) \in Int
  <2> DEFINE o == at[m] + rel
  <2>1. o \in Nat /\ o + 1 <= Len(im)
    <3>1. o \in Nat
      <4> HIDE DEF at
      <4> QED
        BY <1>4, <1>8
    <3> QED
      BY <1>7, <3>1 DEF Readable
  <2> HIDE DEF o
  <2>2. o \in 0 .. Len(im) - 1
    BY <1>1, <2>1, LenProperties
  <2>3. Cell(im, o) \in Int
    BY <1>1, <2>2, CellInt
  <2> QED
    BY <2>3 DEF o
<1>10. f.at = at[m] + rel /\ f.value = Cell(im, f.at) /\ f.value \in Int
  BY <1>3, <1>9
<1> QED
  BY <1>4, <1>5, <1>7, <1>10

\* Where _rewrite_macho_headers writes.
MachOTarget(im, c, t, n, k, w) ==
    \/ w = <<SectionCell(CommandOffsets(im)[n], k) + 2, c.bun.bun_size + t>>
    \/ \E m \in 0 .. Cell(im, 2) - 1 :
          /\ TargetIn(im, m, w[1])
          /\ m = n => w[1] = CommandOffsets(im)[n] + 4 \/ w[1] = CommandOffsets(im)[n] + 6

LEMMA MachOTargets ==
    ASSUME NEW im, NEW c, NEW n, NEW k, MachOBun(im, c, n, k), NEW t \in Int,
           c.bun.bun_offset \in Nat, c.bun.bun_size \in Int,
           NEW w \in MachOHeaderWrites(c.layout, c.bun, t)
    PROVE  w[2] \in Int /\ MachOTarget(im, c, t, n, k, w)
<1> DEFINE at == CommandOffsets(im)
           mo == c.layout
           bun == c.bun
           seg == SegmentByName(mo, BUN_SEGNAME)
           grow == Grow(mo, bun, t)
           later == {g \in mo.segments \ {seg} : g.fileoff >= FileEnd(seg)}
           sects == UNION {{g.sections[l] : l \in DOMAIN g.sections} : g \in later}
           fields == {f \in mo.file_offset_fields :
                            f.value # 0 /\ f.value >= FileEnd(seg)}
           A == {<<BunSect(mo).header + 2, bun.bun_size + t>>}
           B == {<<seg.header + 6, seg.filesize + grow>>, <<seg.header + 4, seg.vmsize + grow>>}
           C == {<<g.header + 5, g.fileoff + grow>> : g \in later}
           D == {<<g.header + 3, g.vmaddr + grow>> : g \in later}
           E == {<<s.header + 1, s.addr + grow>> : s \in sects}
           F == {<<s.header + 3, s.offset + grow>> : s \in {q \in sects : q.offset # 0}}
           G == {<<f.at, f.value + grow>> : f \in fields}
<1>1. /\ mo = MachOParse(im) /\ IsBunSect(im, n, k) /\ SegmentIn(im, at[n])
      /\ n \in SegmentCommands(im)
  BY DEF MachOBun
<1>2. seg = SegmentAt(im, at[n]) /\ seg.filesize \in Int /\ seg.vmsize \in Int /\ grow \in Int
  BY GrowTypes
<1>3. w \in A \cup B \cup C \cup D \cup E \cup F \cup G
  BY DEF MachOHeaderWrites
<1>4. n \in 0 .. Cell(im, 2) - 1
  BY <1>1 DEF SegmentCommands
<1>5. CASE w \in A
  <2>1. BunSect(mo).header = SectionCell(at[n], k)
    BY <1>1 DEF IsBunSect, SectionCell
  <2> QED
    BY <1>5, <2>1 DEF MachOTarget
<1>6. CASE w \in B
  <2>1. seg.header = at[n]
    BY <1>2 DEF SegmentAt
  <2>2. /\ w[1] = at[n] + 4 \/ w[1] = at[n] + 6
        /\ w[2] \in Int
    <3> HIDE DEF seg, grow, at
    <3> QED
      BY <1>2, <1>6, <2>1
  <2>3. TargetIn(im, n, w[1])
    BY <1>1, <2>2 DEF TargetIn
  <2> QED
    BY <1>4, <2>2, <2>3 DEF MachOTarget
<1>7. ASSUME NEW g \in later
      PROVE  \E m \in SegmentCommands(im) :
                /\ m # n /\ m \in 0 .. Cell(im, 2) - 1
                /\ SegmentIn(im, at[m]) /\ g = SegmentAt(im, at[m])
  <2>1. g \in c.layout.segments /\ g # SegmentByName(c.layout, BUN_SEGNAME)
    OBVIOUS
  <2> QED
    BY <2>1, LaterSegment
<1>8. CASE w \in C \cup D
  <2>1. PICK g \in later : \/ w = <<g.header + 5, g.fileoff + grow>>
                           \/ w = <<g.header + 3, g.vmaddr + grow>>
    BY <1>8
  <2>2. PICK m \in SegmentCommands(im) :
            /\ m # n /\ m \in 0 .. Cell(im, 2) - 1
            /\ SegmentIn(im, at[m]) /\ g = SegmentAt(im, at[m])
    BY <1>7
  <2>3. /\ g.header = at[m] /\ g.fileoff = Cell(im, at[m] + 5)
        /\ g.vmaddr = Cell(im, at[m] + 3)
    BY <2>2 DEF SegmentAt
  <2>4. Cell(im, at[m] + 5) \in Int /\ Cell(im, at[m] + 3) \in Int
    BY <2>2 DEF SegmentIn
  <2>5. (w[1] = at[m] + 5 \/ w[1] = at[m] + 3) /\ w[2] \in Int
    <3> HIDE DEF at, later, grow
    <3> QED
      BY <1>2, <2>1, <2>3, <2>4
  <2>6. TargetIn(im, m, w[1])
    BY <2>5 DEF TargetIn
  <2> QED
    BY <2>2, <2>5, <2>6 DEF MachOTarget
<1>9. CASE w \in E \cup F
  <2>1. PICK s \in sects : \/ w = <<s.header + 1, s.addr + grow>>
                           \/ w = <<s.header + 3, s.offset + grow>>
    BY <1>9
  <2>0. PICK g \in later : \E l \in DOMAIN g.sections : s = g.sections[l]
    <3>1. PICK Q \in {{g.sections[l] : l \in DOMAIN g.sections} : g \in later} : s \in Q
      OBVIOUS
    <3> QED
      BY <3>1
  <2>2. PICK l \in DOMAIN g.sections : s = g.sections[l]
    BY <2>0
  <2>3. PICK m \in SegmentCommands(im) :
            /\ m # n /\ m \in 0 .. Cell(im, 2) - 1
            /\ SegmentIn(im, at[m]) /\ g = SegmentAt(im, at[m])
    BY <1>7
  <2> DEFINE y == SectionCell(at[m], l)
  <2>4. /\ l \in 0 .. Cell(im, at[m] + 7) - 1
        /\ s.header = y /\ s.addr = Cell(im, y + 1) /\ s.offset = Cell(im, y + 3)
    BY <2>2, <2>3 DEF SegmentAt, SectionCell
  <2>5. Cell(im, y + 1) \in Int /\ Cell(im, y + 3) \in Int
    BY <2>3, <2>4 DEF SegmentIn, SectionCell
  <2>6. (w[1] = y + 1 \/ w[1] = y + 3) /\ w[2] \in Int
    <3> HIDE DEF y, sects, grow
    <3> QED
      BY <1>2, <2>1, <2>4, <2>5
  <2>7. TargetIn(im, m, w[1])
    <3> HIDE DEF sects
    <3> QED
      BY <2>3, <2>4, <2>6 DEF TargetIn
  <2> QED
    BY <2>3, <2>6, <2>7 DEF MachOTarget
<1>10. CASE w \in G
  <2>1. PICK f \in fields : w = <<f.at, f.value + grow>>
    BY <1>10
  <2>2. f \in c.layout.file_offset_fields
    OBVIOUS
  <2>3. PICK m \in 0 .. Cell(im, 2) - 1, j \in 2..3 :
            /\ m \notin SegmentCommands(im)
            /\ f.at = at[m] + j /\ f.value = Cell(im, f.at)
            /\ j < Cell(im, at[m] + 1) /\ f.value \in Int
    BY <2>2, FieldIs
  <2>4. w[1] = at[m] + j /\ w[2] \in Int
    <3> HIDE DEF at, fields, grow
    <3> QED
      BY <1>2, <2>1, <2>3
  <2>5. TargetIn(im, m, w[1]) /\ m # n
    BY <1>1, <2>3, <2>4 DEF TargetIn
  <2> QED
    BY <2>4, <2>5 DEF MachOTarget
<1>11. CASE w \in A /\ w[2] \in Int
  BY <1>5, <1>11
<1>12. w \in A => w[2] \in Int
  OBVIOUS
<1> QED
  BY <1>3, <1>5, <1>6, <1>8, <1>9, <1>10, <1>12

\* A cell that is kept lies in front of .bun.
LEMMA KeptInFront ==
    ASSUME NEW im, NEW c, NEW n, NEW k, MachOBun(im, c, n, k), c.bun.bun_offset \in Nat,
           NEW o, KeptCell(im, o)
    PROVE  o \in 0 .. c.bun.bun_offset - 1
<1> DEFINE off == c.bun.bun_offset
           last == CommandOffsets(im)[Cell(im, 2)]
<1>1. CommandsIn(im) /\ last <= off /\ MachOParses(im) /\ im \in Seq(Int)
      /\ n \in SegmentCommands(im)
  BY DEF MachOBun
<1>2. \A m \in 0 .. Cell(im, 2) - 1 :
          CommandRange(im, m, CommandOffsets(im)[m], CommandOffsets(im)[m + 1])
  BY <1>1, CommandRanges
<1>3. ASSUME NEW m \in 0 .. Cell(im, 2) - 1
      PROVE  LET x == CommandOffsets(im)[m]
             IN x \in Nat /\ x + Cell(im, x + 1) <= last /\ Cell(im, x + 1) \in Nat
                /\ 2 <= Cell(im, x + 1) /\ last \in Nat /\ 4 <= x
  <2> DEFINE x == CommandOffsets(im)[m]
             end == CommandOffsets(im)[m + 1]
  <2>1. CommandRange(im, m, x, end)
    BY <1>2
  <2>2. /\ x \in Nat /\ 4 <= x /\ Cell(im, x + 1) \in Nat /\ 2 <= Cell(im, x + 1)
        /\ end = x + Cell(im, x + 1) /\ end <= last /\ last \in Nat
    BY <2>1 DEF CommandRange
  <2> QED
    BY <2>2
<1>4. CASE o \in 0..3
  <2>1. n \in 0 .. Cell(im, 2) - 1
    BY <1>1 DEF SegmentCommands
  <2> DEFINE x == CommandOffsets(im)[n]
  <2>2. x \in Nat /\ x + Cell(im, x + 1) <= last /\ Cell(im, x + 1) \in Nat
        /\ last \in Nat /\ 4 <= x
    BY <1>3, <2>1
  <2> HIDE DEF x, last, off
  <2>3. o \in 0 .. off - 1
    BY <1>1, <1>4, <2>2 DEF off
  <2> QED
    BY <2>3 DEF off
<1>5. ASSUME NEW m \in 0 .. Cell(im, 2) - 1,
             LET x == CommandOffsets(im)[m]
             IN \/ o = x \/ o = x + 1
                \/ /\ m \in SegmentCommands(im)
                   /\ \/ o = x + 2 \/ o = x + 7
                      \/ \E l \in 0 .. Cell(im, x + 7) - 1 : o = SectionCell(x, l)
      PROVE  o \in 0 .. off - 1
  <2> DEFINE x == CommandOffsets(im)[m]
             size == Cell(im, x + 1)
  <2>1. /\ x \in Nat /\ x + size <= last /\ size \in Nat /\ 2 <= size
        /\ last \in Nat /\ 4 <= x
    BY <1>3
  <2>2. m \in SegmentCommands(im) => SegmentIn(im, x) /\ 8 <= size
    BY <1>1, SegmentsAre DEF SegmentIn
  <2>3. \A l \in 0 .. Cell(im, x + 7) - 1 : m \in SegmentCommands(im) =>
           SectionCell(x, l) \in Nat /\ SectionCell(x, l) + 4 <= x + size
    BY <2>2, SectionInCommand
  <2>4. CASE o = x \/ o = x + 1
    <3> HIDE DEF x, size, last, off
    <3>1. o \in 0 .. off - 1
      BY <1>1, <2>1, <2>4 DEF off
    <3> QED
      BY <3>1
  <2>5. CASE m \in SegmentCommands(im) /\ (o = x + 2 \/ o = x + 7)
    <3> HIDE DEF x, size, last, off
    <3> QED
      BY <1>1, <2>1, <2>2, <2>5 DEF off
  <2>6. CASE /\ m \in SegmentCommands(im)
             /\ \E l \in 0 .. Cell(im, x + 7) - 1 : o = SectionCell(x, l)
    <3>1. o \in Nat /\ o + 4 <= x + size
      BY <2>3, <2>6
    <3> HIDE DEF x, size, last, off
    <3> QED
      BY <1>1, <2>1, <3>1 DEF off
  <2> QED
    BY <1>5, <2>4, <2>5, <2>6
<1> QED
  BY <1>4, <1>5 DEF KeptCell

\* What apply leaves of a Mach-O image: the payload of p, the cells that are
\* kept, and the size of __bun.
MachOOut(b, p, im, c, n, k, t) ==
    LET y == SectionCell(CommandOffsets(im)[n], k)
    IN /\ b \in Seq(Int) /\ SamePayload(b, p, c, t)
       /\ \A o : KeptCell(im, o) => Cell(b, o) = Cell(im, o)
       /\ Cell(b, y + 2) = c.bun.bun_size + t /\ Cell(b, y + 3) = c.bun.bun_offset

\* The __bun section lies in its command, and the command in front of .bun.
LEMMA BunSectRange ==
    ASSUME NEW im, NEW c, NEW n, NEW k, MachOBun(im, c, n, k), c.bun.bun_offset \in Nat
    PROVE  LET x == CommandOffsets(im)[n]
               end == CommandOffsets(im)[n + 1]
               y == SectionCell(x, k)
           IN /\ x \in Nat /\ y \in Nat /\ x + 8 <= y /\ y + 4 <= end /\ end \in Nat
              /\ end <= c.bun.bun_offset
              /\ n \in 0 .. Cell(im, 2) - 1 /\ k \in 0 .. Cell(im, x + 7) - 1
<1> DEFINE x == CommandOffsets(im)[n]
           end == CommandOffsets(im)[n + 1]
           y == SectionCell(x, k)
           off == c.bun.bun_offset
           last == CommandOffsets(im)[Cell(im, 2)]
<1>1. CommandsIn(im) /\ last <= off /\ n \in SegmentCommands(im) /\ SegmentIn(im, x)
      /\ IsBunSect(im, n, k)
  BY DEF MachOBun
<1>2. n \in 0 .. Cell(im, 2) - 1 /\ k \in 0 .. Cell(im, x + 7) - 1
  BY <1>1 DEF SegmentCommands, IsBunSect
<1>3. CommandRange(im, n, x, end)
  BY <1>1, <1>2, CommandRanges
<1>4. x \in Nat /\ Cell(im, x + 1) \in Nat /\ end = x + Cell(im, x + 1) /\ end <= last
      /\ last \in Nat
  BY <1>3 DEF CommandRange
<1>5. y \in Nat /\ x + 8 <= y /\ y + 4 <= x + Cell(im, x + 1)
  BY <1>1, <1>2, SectionInCommand
<1>6. y + 4 <= end /\ end \in Nat /\ end <= off
  <2> HIDE DEF x, end, y, off, last
  <2> QED
    BY <1>1, <1>4, <1>5 DEF off
<1> QED
  BY <1>2, <1>4, <1>5, <1>6

\* What apply writes to the load commands.
MachOWrite(im, c, n, k, w) ==
    /\ w[1] \in 0 .. c.bun.bun_offset - 1 /\ w[2] \in Int /\ ~KeptCell(im, w[1])
    /\ w[1] # SectionCell(CommandOffsets(im)[n], k) + 3

LEMMA MachOWritesAre ==
    ASSUME NEW im, NEW c, NEW n, NEW k, MachOBun(im, c, n, k), NEW t \in Int,
           c.bun.bun_offset \in Nat, c.bun.bun_size \in Int,
           NEW w \in MachOHeaderWrites(c.layout, c.bun, t)
    PROVE  /\ MachOWrite(im, c, n, k, w)
           /\ w[1] = SectionCell(CommandOffsets(im)[n], k) + 2 => w[2] = c.bun.bun_size + t
<1> DEFINE x == CommandOffsets(im)[n]
           end == CommandOffsets(im)[n + 1]
           y == SectionCell(x, k)
           off == c.bun.bun_offset
<1>1. /\ x \in Nat /\ y \in Nat /\ x + 8 <= y /\ y + 4 <= end /\ end \in Nat /\ end <= off
      /\ n \in 0 .. Cell(im, 2) - 1 /\ k \in 0 .. Cell(im, x + 7) - 1
  BY BunSectRange
<1>2. w[2] \in Int /\ MachOTarget(im, c, t, n, k, w)
  BY MachOTargets
<1>3. /\ CommandsIn(im) /\ n \in SegmentCommands(im)
      /\ MachOParses(im) /\ im \in Seq(Int)
  BY DEF MachOBun
<1>4. \A m \in SegmentCommands(im) : SegmentIn(im, CommandOffsets(im)[m])
  BY <1>3, SegmentsAre
<1>5. CASE w = <<y + 2, c.bun.bun_size + t>>
  <2>1. w[1] = y + 2 /\ w[2] = c.bun.bun_size + t
    BY <1>5
  <2>2. TargetIn(im, n, w[1])
    BY <1>1, <1>3, <2>1 DEF TargetIn
  <2>3. ~KeptCell(im, w[1])
    BY <1>1, <1>3, <1>4, <2>2, TargetsKeep
  <2>4. w[1] \in 0 .. off - 1 /\ w[1] # y + 3
    <3> HIDE DEF x, end, y, off
    <3> QED
      BY <1>1, <2>1 DEF off
  <2> QED
    BY <1>2, <2>1, <2>3, <2>4 DEF MachOWrite
<1>6. ASSUME NEW m \in 0 .. Cell(im, 2) - 1, TargetIn(im, m, w[1]),
             m = n => w[1] = x + 4 \/ w[1] = x + 6
      PROVE  MachOWrite(im, c, n, k, w) /\ w[1] # y + 2
  <2>1. ~KeptCell(im, w[1])
    BY <1>3, <1>4, <1>6, TargetsKeep
  <2> DEFINE z == CommandOffsets(im)[m]
             zend == CommandOffsets(im)[m + 1]
             last == CommandOffsets(im)[Cell(im, 2)]
             o == w[1]
  <2>2. o \in Nat /\ z + 2 <= o /\ o < zend
    BY <1>3, <1>4, <1>6, TargetRange
  <2>3. CommandRange(im, m, z, zend)
    BY <1>3, CommandRanges
  <2>4. /\ z \in Nat /\ Cell(im, z + 1) \in Nat /\ zend = z + Cell(im, z + 1)
        /\ zend <= last /\ last \in Nat
    BY <2>3 DEF CommandRange
  <2>5. last <= off
    BY DEF MachOBun
  <2>6. m # n => zend <= x \/ end <= z
    BY <1>1, <1>3, <1>6, CommandRanges
  <2>7. o \in 0 .. off - 1 /\ o # y + 3 /\ o # y + 2
    <3> HIDE DEF x, end, y, off, z, zend, last, o
    <3>1. o \in 0 .. off - 1
      BY <1>1, <2>2, <2>4, <2>5 DEF off
    <3>2. CASE m = n
      <4>1. o = x + 4 \/ o = x + 6
        BY <1>6, <3>2 DEF o
      <4> QED
        BY <1>1, <3>1, <4>1
    <3>3. CASE m # n
      BY <1>1, <2>2, <2>4, <2>6, <3>1, <3>3
    <3> QED
      BY <3>1, <3>2, <3>3
  <2> QED
    BY <1>2, <2>1, <2>7 DEF MachOWrite
<1> QED
  BY <1>2, <1>5, <1>6 DEF MachOTarget

LEMMA MachOWritten ==
    ASSUME NEW im, NEW c, InContext(im, c), ~c.is_elf, NEW S, PlanIn(c, S),
           NEW n, NEW k, MachOBun(im, c, n, k), NEW p, Kept(p, im, c, S),
           PaddingAccepted(p, c.layout, c.bun, DeltaSum(S)), NEW b,
           b = PackInto(Repad(p, c.layout, c.bun, DeltaSum(S)),
                        MachOHeaderWrites(c.layout, c.bun, DeltaSum(S)))
    PROVE  MachOOut(b, p, im, c, n, k, DeltaSum(S))
<1> DEFINE L == Len(im)
           t == DeltaSum(S)
           off == c.bun.bun_offset
           size == c.bun.bun_size
           start == c.bun.payload_start
           table == TableAt(c)
           len == c.bun.modules_ptr.length
           at == c.bun.offsets_struct_offset
           W == MachOHeaderWrites(c.layout, c.bun, t)
           q == Repad(p, c.layout, c.bun, t)
           x == CommandOffsets(im)[n]
           end == CommandOffsets(im)[n + 1]
           y == SectionCell(x, k)
<1>1. Frame(L, t, off, size, start, table, len, at)
  BY BoundsAre DEF Bounds
<1>2. off \in Nat /\ size \in Nat /\ t \in Int /\ 9 <= size + t
  <2> HIDE DEF L, t, off, size, start, table, len, at
  <2> QED
    BY <1>1 DEF Frame
<1>3. /\ q \in Seq(Int) /\ SamePayload(q, p, c, t)
      /\ \A o \in 0 .. off - 1 : Cell(q, o) = Cell(p, o)
  BY RepadCells
<1>4. \A w \in W : /\ MachOWrite(im, c, n, k, w)
                   /\ w[1] = y + 2 => w[2] = size + t
  BY <1>2, MachOWritesAre
<1>5. IntWrites(W)
  BY <1>4 DEF IntWrites, MachOWrite
<1>6. /\ b \in Seq(Int) /\ Len(b) = Len(q)
  BY <1>3, <1>5, PackCells
<1>7. /\ x \in Nat /\ y \in Nat /\ x + 8 <= y /\ y + 4 <= end /\ end \in Nat /\ end <= off
  BY <1>2, BunSectRange
<1>8. <<y + 2, size + t>> \in W
  <2>1. BunSect(c.layout).header = y
    BY DEF MachOBun, IsBunSect, SectionCell
  <2> QED
    BY <2>1 DEF MachOHeaderWrites
<1>9. \A w \in W : /\ w[1] \in 0 .. off - 1 /\ ~KeptCell(im, w[1]) /\ w[1] # y + 3
  BY <1>4 DEF MachOWrite
<1>10. off + size + t <= Len(q) /\ \A o \in off .. off + size + t - 1 : Cell(q, o) = Cell(p, o)
  BY <1>3 DEF SamePayload
<1>11. Len(q) \in Nat
  BY <1>3, LenProperties
<1>12. \A o \in 0 .. off - 1 : Cell(p, o) = Cell(im, o)
  BY KeptOutside
<1>13. \A o : KeptCell(im, o) => o \in 0 .. off - 1
  BY <1>2, KeptInFront
<1>14. \A o \in 0 .. Len(q) - 1 :
          /\ (\A w \in W : w[1] # o) => Cell(b, o) = Cell(q, o)
          /\ \A v : <<o, v>> \in W /\ (\A w \in W : w[1] = o => w[2] = v) => Cell(b, o) = v
  BY <1>3, <1>5, PackedCell
<1>15. Cell(im, y + 3) = off
  BY DEF MachOBun, IsBunSect, SectionCell
<1> HIDE DEF W, q, x, end, y, off, size, t, L, start, table, len, at
<1>16. \A o \in 0 .. off - 1 : o \in 0 .. Len(q) - 1
  BY <1>2, <1>10, <1>11
<1>17. ASSUME NEW o \in off .. off + size + t - 1 PROVE Cell(b, o) = Cell(p, o)
  <2>1. o \in 0 .. Len(q) - 1
    BY <1>2, <1>10, <1>11
  <2>2. o \notin 0 .. off - 1
    BY <1>2
  <2>3. \A w \in W : w[1] # o
    BY <1>9, <2>2
  <2> QED
    BY <1>10, <1>14, <2>1, <2>3
<1>18. SamePayload(b, p, c, t)
  BY <1>6, <1>10, <1>17 DEF SamePayload, off, size
<1>19. ASSUME NEW o, KeptCell(im, o) PROVE Cell(b, o) = Cell(im, o)
  <2>1. o \in 0 .. off - 1 /\ o \in 0 .. Len(q) - 1
    BY <1>13, <1>16, <1>19
  <2>2. \A w \in W : w[1] # o
    BY <1>9, <1>19
  <2> QED
    BY <1>3, <1>12, <1>14, <2>1, <2>2
<1>20. Cell(b, y + 2) = size + t
  <2>1. y + 2 \in 0 .. off - 1
    BY <1>2, <1>7
  <2> QED
    BY <1>4, <1>8, <1>14, <1>16, <2>1
<1>21. Cell(b, y + 3) = off
  <2>1. y + 3 \in 0 .. off - 1
    BY <1>2, <1>7
  <2>2. \A w \in W : w[1] # y + 3
    BY <1>9
  <2> QED
    BY <1>3, <1>12, <1>14, <1>15, <1>16, <2>1, <2>2
<1> QED
  BY <1>6, <1>18, <1>19, <1>20, <1>21 DEF MachOOut, x, y, off, size, t

LEMMA MachOUntouched ==
    ASSUME NEW im, NEW c, InContext(im, c), ~c.is_elf, NEW S, PlanIn(c, S),
           NEW n, NEW k, MachOBun(im, c, n, k), NEW p, Kept(p, im, c, S), DeltaSum(S) = 0
    PROVE  MachOOut(p, p, im, c, n, k, DeltaSum(S))
<1> DEFINE L == Len(im)
           t == DeltaSum(S)
           off == c.bun.bun_offset
           size == c.bun.bun_size
           start == c.bun.payload_start
           table == TableAt(c)
           len == c.bun.modules_ptr.length
           at == c.bun.offsets_struct_offset
           x == CommandOffsets(im)[n]
           end == CommandOffsets(im)[n + 1]
           y == SectionCell(x, k)
<1>1. Frame(L, t, off, size, start, table, len, at)
  BY BoundsAre DEF Bounds
<1>2. off \in Nat /\ size \in Nat
  <2> HIDE DEF L, t, off, size, start, table, len, at
  <2> QED
    BY <1>1 DEF Frame
<1>3. /\ x \in Nat /\ y \in Nat /\ x + 8 <= y /\ y + 4 <= end /\ end \in Nat /\ end <= off
  BY <1>2, BunSectRange
<1>4. p \in Seq(Int) /\ \A o \in 0 .. off - 1 : Cell(p, o) = Cell(im, o)
  BY KeptOutside
<1>5. SamePayload(p, p, c, t)
  BY PayloadFits DEF SamePayload
<1>6. \A o : KeptCell(im, o) => o \in 0 .. off - 1
  BY <1>2, KeptInFront
<1>7. Cell(im, y + 3) = off /\ Cell(im, y + 2) = size
  BY DEF MachOBun, IsBunSect, SectionCell
<1> HIDE DEF x, end, y, off, size
<1>8. y + 2 \in 0 .. off - 1 /\ y + 3 \in 0 .. off - 1
  BY <1>2, <1>3
<1>9. Cell(p, y + 2) = size /\ Cell(p, y + 3) = off
  BY <1>4, <1>7, <1>8
<1>10. size + t = size
  BY <1>2
<1> HIDE DEF t
<1> QED
  BY <1>4, <1>5, <1>6, <1>9, <1>10 DEF MachOOut, x, y, off, size, t

LEMMA MachOOutIs ==
    ASSUME NEW im, NEW c, InContext(im, c), ~c.is_elf, NEW S, PlanIn(c, S),
           NEW n, NEW k, MachOBun(im, c, n, k), NEW p, Kept(p, im, c, S),
           NEW b, ContainerDone(b, p, c, S)
    PROVE  MachOOut(b, p, im, c, n, k, DeltaSum(S))
<1>1. CASE b = p /\ \A e \in S : ~Growable(e)
  <2>1. DeltaSum(S) = 0
    <3>1. EditSet(S) /\ {} \subseteq S /\ \A e \in S \ {} : ~Growable(e)
      BY <1>1 DEF PlanIn
    <3>2. DeltaSum(S) = DeltaSum({})
      BY <3>1, SumGrowables
    <3> QED
      BY <3>2, SumNone
  <2> QED
    BY <1>1, <2>1, MachOUntouched
<1>2. CASE b # p \/ \E e \in S : Growable(e)
  BY <1>2, MachOWritten DEF ContainerDone
<1> QED
  BY <1>1, <1>2

-----------------------------------------------------------------------------
(* Reading a rewritten Mach-O image.                                       *)

LEMMA SameOffsets ==
    ASSUME NEW im, CommandsIn(im), NEW b, \A o : KeptCell(im, o) => Cell(b, o) = Cell(im, o)
    PROVE  /\ Cell(b, 2) = Cell(im, 2) /\ Cell(b, 3) = Cell(im, 3) /\ Cell(b, 0) = Cell(im, 0)
           /\ \A m \in 0 .. Cell(im, 2) : CommandOffsets(b)[m] = CommandOffsets(im)[m]
           /\ SegmentCommands(b) = SegmentCommands(im)
<1> DEFINE at == CommandOffsets(im)
           new == CommandOffsets(b)
           z == Cell(im, 2)
           G == {m \in 0 .. z : new[m] = at[m]}
<1>1. Cell(b, 2) = Cell(im, 2) /\ Cell(b, 3) = Cell(im, 3) /\ Cell(b, 0) = Cell(im, 0)
  BY DEF KeptCell
<1>2. /\ z \in Nat /\ at[0] = 4
      /\ \A m \in 0 .. z - 1 : at[m + 1] = at[m] + Cell(im, at[m] + 1)
  BY DEF CommandsIn
<1>3. /\ new[0] = 4
      /\ \A m \in 0 .. z - 1 : new[m + 1] = new[m] + Cell(b, new[m] + 1)
  BY <1>1, <1>2, OffsetsAre DEF MACH_HEADER_SIZE
<1>4. \A m \in 0 .. z - 1 : /\ Cell(b, at[m] + 1) = Cell(im, at[m] + 1)
                            /\ Cell(b, at[m]) = Cell(im, at[m])
  BY DEF KeptCell
<1> HIDE DEF at, new, z
<1>5. 0 \in G
  BY <1>2, <1>3
<1>6. ASSUME NEW m \in 0 .. z - 1, m \in G PROVE m + 1 \in G
  <2>1. m + 1 \in 0 .. z
    BY <1>2
  <2> QED
    BY <1>2, <1>3, <1>4, <1>6, <2>1
<1>7. \A m \in 0 .. z : new[m] = at[m]
  <2> HIDE DEF G
  <2>1. 0 .. z \subseteq G
    BY <1>2, <1>5, <1>6, UpToInduction
  <2> QED
    BY <2>1 DEF G
<1>8. \A m \in 0 .. z - 1 : m \in 0 .. z
  BY <1>2
<1>9. SegmentCommands(b) = SegmentCommands(im)
  BY <1>1, <1>4, <1>7, <1>8 DEF SegmentCommands, at, new, z
<1> QED
  BY <1>1, <1>7, <1>9 DEF at, new, z

\* What is kept of one command.
LEMMA SameCommand ==
    ASSUME NEW im, NEW b, \A o : KeptCell(im, o) => Cell(b, o) = Cell(im, o),
           NEW m \in 0 .. Cell(im, 2) - 1
    PROVE  LET x == CommandOffsets(im)[m]
           IN /\ Cell(b, x) = Cell(im, x) /\ Cell(b, x + 1) = Cell(im, x + 1)
              /\ m \in SegmentCommands(im) =>
                    /\ Cell(b, x + 2) = Cell(im, x + 2) /\ Cell(b, x + 7) = Cell(im, x + 7)
                    /\ \A l \in 0 .. Cell(im, x + 7) - 1 :
                          Cell(b, SectionCell(x, l)) = Cell(im, SectionCell(x, l))
BY DEF KeptCell

LEMMA SameAccepted ==
    ASSUME NEW im, CommandsIn(im), NEW b, \A o : KeptCell(im, o) => Cell(b, o) = Cell(im, o),
           \A m \in SegmentCommands(im) : SegmentIn(im, CommandOffsets(im)[m]),
           CommandOffsets(im)[Cell(im, 2)] <= Len(b), Len(b) \in Nat
    PROVE  MachOAccepted(b)
<1> DEFINE at == CommandOffsets(im)
           last == at[Cell(im, 2)]
           z == Len(b)
<1>1. /\ Cell(b, 2) = Cell(im, 2) /\ Cell(b, 3) = Cell(im, 3)
      /\ \A m \in 0 .. Cell(im, 2) : CommandOffsets(b)[m] = CommandOffsets(im)[m]
      /\ SegmentCommands(b) = SegmentCommands(im)
  BY SameOffsets
<1>2. Cell(im, 2) \in Nat /\ last \in Nat /\ 4 <= last
  BY DEF CommandsIn
<1>3. Readable(b, 0, MACH_HEADER_SIZE)
  <2> HIDE DEF last, z
  <2>1. 4 <= z
    BY <1>2 DEF last, z
  <2> QED
    BY <2>1 DEF Readable, MACH_HEADER_SIZE, z
<1>4. ASSUME NEW m \in 0 .. Cell(im, 2) - 1 PROVE CommandAccepted(b, at[m])
  <2> DEFINE x == at[m]
             end == at[m + 1]
             size == Cell(im, x + 1)
  <2>1. CommandAccepted(im, x)
    BY DEF CommandsIn
  <2>2. CommandRange(im, m, x, end)
    BY CommandRanges
  <2>3. /\ x \in Nat /\ 4 <= x /\ size \in Nat /\ 2 <= size /\ end = x + size
        /\ end <= last
    BY <2>2 DEF CommandRange
  <2>4. Cell(b, x) = Cell(im, x) /\ Cell(b, x + 1) = size
    BY SameCommand
  <2>5. x + size <= z
    <3> HIDE DEF x, end, size, last, z
    <3> QED
      BY <1>2, <2>3 DEF last, z
  <2>6. ASSUME NEW d \in Int, d <= size PROVE Readable(b, x, d)
    <3>1. x + d <= z
      <4> HIDE DEF x, size, z
      <4> QED
        BY <2>3, <2>5, <2>6 DEF z
    <3> QED
      BY <2>3, <3>1 DEF Readable
  <2>7. Cell(im, x) = LC_SEGMENT_64 => SectionsFit(b, x)
    <3> HAVE Cell(im, x) = LC_SEGMENT_64
    <3>1. m \in SegmentCommands(im)
      BY DEF SegmentCommands
    <3>2. Cell(b, x + 7) = Cell(im, x + 7)
      BY <3>1, SameCommand
    <3>3. SectionsFit(im, x)
      BY <2>1 DEF CommandAccepted
    <3> DEFINE d == SEGMENT_COMMAND_SIZE + Cell(im, x + 7) * SECTION_SIZE
    <3>4. size >= SEGMENT_COMMAND_SIZE /\ d <= size
      BY <3>3 DEF SectionsFit
    <3>5. d \in Int
      <4>1. SegmentIn(im, x)
        BY <3>1
      <4>2. Cell(im, x + 7) \in Int
        BY <4>1 DEF SegmentIn
      <4> QED
        BY <4>2 DEF SEGMENT_COMMAND_SIZE, SECTION_SIZE
    <3>6. Readable(b, x, SEGMENT_COMMAND_SIZE) /\ Readable(b, x, d)
      BY <2>6, <3>4, <3>5 DEF SEGMENT_COMMAND_SIZE
    <3> QED
      BY <2>4, <3>2, <3>4, <3>6 DEF SectionsFit
  <2>8. \A rel \in FileOffsetFields(Cell(im, x)) : rel < size /\ Readable(b, x + rel, 1)
    <3> SUFFICES ASSUME NEW rel \in FileOffsetFields(Cell(im, x))
                 PROVE  rel < size /\ Readable(b, x + rel, 1)
      OBVIOUS
    <3>1. rel < size
      BY <2>1 DEF CommandAccepted
    <3>2. rel \in 2..3
      BY DEF FileOffsetFields
    <3>3. x + rel + 1 <= z /\ 0 <= x + rel
      <4> HIDE DEF x, size, z
      <4> QED
        BY <2>3, <2>5, <3>1, <3>2 DEF z
    <3> QED
      BY <3>1, <3>3 DEF Readable
  <2>9. Readable(b, x, COMMAND_SIZE)
    BY <2>3, <2>6 DEF COMMAND_SIZE
  <2> HIDE DEF x, size
  <2> QED
    BY <1>1, <2>1, <2>4, <2>7, <2>8, <2>9 DEF CommandAccepted, x, size
<1>5. \A m \in 0 .. Cell(im, 2) - 1 : m \in 0 .. Cell(im, 2)
  BY <1>2
<1> QED
  BY <1>1, <1>3, <1>4, <1>5 DEF MachOAccepted

LEMMA SegmentOf ==
    ASSUME NEW b, MachOAccepted(b)
    PROVE  MachOParse(b).segments =
               {SegmentAt(b, CommandOffsets(b)[m]) : m \in SegmentCommands(b)}
BY DEF MachOParse, SegmentCommands

LEMMA MachOReparsed ==
    ASSUME NEW im, NEW c, InContext(im, c), ~c.is_elf, NEW S, PlanIn(c, S),
           NEW n, NEW k, MachOBun(im, c, n, k), NEW p, NEW b,
           MachOOut(b, p, im, c, n, k, DeltaSum(S))
    PROVE  /\ Cell(b, 0) = MACHO_MAGIC_64 /\ MachOParses(b) /\ BunIs(b, c, DeltaSum(S))
<1> DEFINE L == Len(im)
           t == DeltaSum(S)
           off == c.bun.bun_offset
           size == c.bun.bun_size
           start == c.bun.payload_start
           table == TableAt(c)
           len == c.bun.modules_ptr.length
           atEnd == c.bun.offsets_struct_offset
           at == CommandOffsets(im)
           last == at[Cell(im, 2)]
           x == at[n]
           y == SectionCell(x, k)
           new == MachOParse(b)
           old == MachOParse(im)
           z == Len(b)
<1>1. Frame(L, t, off, size, start, table, len, atEnd)
  BY BoundsAre DEF Bounds
<1>2. off \in Nat /\ size \in Nat /\ t \in Int /\ 9 <= size + t
  <2> HIDE DEF L, t, off, size, start, table, len, atEnd
  <2> QED
    BY <1>1 DEF Frame
<1>3. /\ b \in Seq(Int) /\ SamePayload(b, p, c, t)
      /\ \A o : KeptCell(im, o) => Cell(b, o) = Cell(im, o)
      /\ Cell(b, y + 2) = size + t /\ Cell(b, y + 3) = off
  BY DEF MachOOut
<1>4. /\ CommandsIn(im) /\ last <= off /\ MachOParses(im) /\ im \in Seq(Int)
      /\ n \in SegmentCommands(im) /\ IsBunSect(im, n, k)
  BY DEF MachOBun
<1>5. \A m \in SegmentCommands(im) : SegmentIn(im, at[m])
  BY <1>4, SegmentsAre
<1>6. z \in Nat /\ off + size + t <= z
  BY <1>3, LenProperties DEF SamePayload
<1>7. last <= z
  <2>1. last \in Nat
    BY <1>4 DEF CommandsIn
  <2> HIDE DEF last, off, size, t, z
  <2> QED
    BY <1>2, <1>4, <1>6, <2>1 DEF last, off
<1>8. MachOAccepted(b)
  BY <1>3, <1>4, <1>5, <1>6, <1>7, SameAccepted
<1>9. /\ Cell(b, 2) = Cell(im, 2) /\ Cell(b, 0) = Cell(im, 0)
      /\ \A m \in 0 .. Cell(im, 2) : CommandOffsets(b)[m] = at[m]
      /\ SegmentCommands(b) = SegmentCommands(im)
  BY <1>3, <1>4, SameOffsets
<1>10. Cell(b, 0) = MACHO_MAGIC_64 /\ OneBun(old)
  BY <1>9, ContextIs
<1>11. \A m \in SegmentCommands(im) : m \in 0 .. Cell(im, 2) - 1 /\ m \in 0 .. Cell(im, 2)
  <2>1. Cell(im, 2) \in Nat
    BY <1>4 DEF CommandsIn
  <2> QED
    BY <2>1 DEF SegmentCommands
<1>12. new.segments = {SegmentAt(b, at[m]) : m \in SegmentCommands(im)}
  BY <1>8, <1>9, <1>11, SegmentOf
<1>13. old.segments = {SegmentAt(im, at[m]) : m \in SegmentCommands(im)}
  BY <1>4, SegmentOf DEF MachOParses
<1>14. ASSUME NEW m \in SegmentCommands(im)
       PROVE  LET g == SegmentAt(b, at[m])
                  h == SegmentAt(im, at[m])
              IN /\ g.segname = h.segname /\ DOMAIN g.sections = DOMAIN h.sections
                 /\ h.header = at[m]
                 /\ \A l \in DOMAIN h.sections :
                       g.sections[l].sectname = h.sections[l].sectname
  <2> DEFINE u == at[m]
  <2>1. /\ Cell(b, u + 2) = Cell(im, u + 2) /\ Cell(b, u + 7) = Cell(im, u + 7)
        /\ \A l \in 0 .. Cell(im, u + 7) - 1 :
              Cell(b, SectionCell(u, l)) = Cell(im, SectionCell(u, l))
    BY <1>3, <1>11, SameCommand
  <2> HIDE DEF u
  <2> QED
    BY <2>1 DEF SegmentAt, SectionCell, u
<1>15. /\ SegmentAt(im, x).segname = BUN_SEGNAME
       /\ k \in DOMAIN SegmentAt(im, x).sections
       /\ SegmentAt(im, x).sections[k].sectname = BUN_SECTNAME
  BY <1>4 DEF IsBunSect, SegmentAt
<1> DEFINE g == SegmentAt(b, x)
<1>16. /\ g \in new.segments /\ g.segname = BUN_SEGNAME
       /\ k \in DOMAIN g.sections /\ g.sections[k].sectname = BUN_SECTNAME
  BY <1>4, <1>12, <1>14, <1>15
<1>17. MachOParses(b)
  BY <1>8, <1>16 DEF MachOParses, HasBun
<1>18. ASSUME NEW h \in new.segments, h.segname = BUN_SEGNAME PROVE h = g
  <2>1. PICK m \in SegmentCommands(im) : h = SegmentAt(b, at[m])
    BY <1>12
  <2>2. SegmentAt(im, at[m]).segname = BUN_SEGNAME
    BY <1>14, <1>18, <2>1
  <2>3. SegmentAt(im, at[m]) \in old.segments /\ SegmentAt(im, x) \in old.segments
    BY <1>4, <1>13
  <2>4. SegmentAt(im, at[m]) = SegmentAt(im, x)
    BY <1>10, <1>15, <2>2, <2>3 DEF OneBun
  <2>5. at[m] = x
    BY <1>4, <1>14, <2>4
  <2> QED
    BY <2>1, <2>5
<1>19. SegmentByName(new, BUN_SEGNAME) = g
  <2> HIDE DEF new, g
  <2> QED
    BY <1>16, <1>18 DEF SegmentByName
<1>20. ASSUME NEW l \in DOMAIN g.sections, g.sections[l].sectname = BUN_SECTNAME PROVE l = k
  <2>1. l \in DOMAIN SegmentAt(im, x).sections
        /\ SegmentAt(im, x).sections[l].sectname = BUN_SECTNAME
    BY <1>4, <1>14, <1>20
  <2>2. SegmentAt(im, x) \in old.segments
    BY <1>4, <1>13
  <2> QED
    BY <1>10, <1>15, <2>1, <2>2 DEF OneBun
<1>21. BunSect(new) = g.sections[k]
  <2> HIDE DEF new, g
  <2>1. k = CHOOSE l \in DOMAIN g.sections : g.sections[l].sectname = BUN_SECTNAME
    BY <1>16, <1>20
  <2> QED
    BY <1>19, <2>1 DEF BunSect
<1>22. k \in 0 .. Cell(b, x + 7) - 1
  BY <1>16 DEF SegmentAt
<1>23. g.sections[k].offset = Cell(b, y + 3) /\ g.sections[k].size = Cell(b, y + 2)
  BY <1>22 DEF SegmentAt, SectionCell
<1>24. BunSection(b) = MachOBunSection(new)
  <2>1. ELF_MAGIC # MACHO_MAGIC_64
    BY DEF ELF_MAGIC, MACHO_MAGIC_64
  <2> QED
    BY <1>10, <2>1 DEF BunSection
<1>25. BunIs(b, c, t)
  <2>1. /\ MachOBunSection(new).offset = BunSect(new).offset
        /\ MachOBunSection(new).size = BunSect(new).size
    BY DEF MachOBunSection
  <2> HIDE DEF new, g, y
  <2> QED
    BY <1>3, <1>21, <1>23, <1>24, <2>1 DEF BunIs
<1> QED
  BY <1>10, <1>17, <1>25

-----------------------------------------------------------------------------
(* What is read back from the patched image.                               *)

\* The output is parsed again, with the payload apply has made.
ReadBack(b, im, c, S, M) ==
    /\ Parses(b) /\ Parse(b).is_elf = c.is_elf
    /\ Parse(b).bun = Locate(b, BunSection(b)) /\ Parse(b).sp = SpIndex(Parse(b).bun)
    /\ Rebuilt(Parse(b).bun, c, S, M)
    /\ \E p : PayloadDone(p, im, c, S, M) /\ b \in Seq(Int) /\ SamePayload(b, p, c, DeltaSum(S))

LEMMA DoneIsReadBack ==
    ASSUME NEW im, NEW c, InContext(im, c), NEW S, PlanIn(c, S), NEW M,
           NEW p, PayloadDone(p, im, c, S, M), NEW b, ContainerDone(b, p, c, S)
    PROVE  ReadBack(b, im, c, S, M)
<1> DEFINE t == DeltaSum(S)
<1>1. Kept(p, im, c, S)
  BY DEF PayloadDone
<1>2. CASE c.is_elf
  <2>1. ElfOut(b, p, im, c, t)
    BY <1>1, <1>2, ElfOutIs
  <2>2. Cell(b, 0) = ELF_MAGIC /\ ElfReadable(b) /\ TablesAre(ElfParse(b), c, t)
    BY <1>1, <1>2, <2>1, ElfReparsed
  <2>3. ElfBunIndexes(ElfParse(b)) # {} /\ BunIs(b, c, t)
    BY <1>2, <2>2, ElfBunFound
  <2>4. b \in Seq(Int) /\ SamePayload(b, p, c, t)
    BY <2>1 DEF ElfOut
  <2>5. Located(b, BunSection(b)) /\ Rebuilt(Locate(b, BunSection(b)), c, S, M)
    BY <2>3, <2>4, BunReparsed
  <2>6. Parses(b)
    BY <2>2, <2>3, <2>5 DEF Parses
  <2>7. Parse(b).is_elf = c.is_elf
    BY <1>2, <2>2, ContextIs DEF Parse, InContext
  <2>8. Parse(b).bun = Locate(b, BunSection(b)) /\ Parse(b).sp = SpIndex(Parse(b).bun)
    BY DEF Parse
  <2>9. Rebuilt(Parse(b).bun, c, S, M)
    BY <2>5, <2>8
  <2> QED
    BY <2>4, <2>6, <2>7, <2>8, <2>9 DEF ReadBack
<1>3. CASE ~c.is_elf
  <2>1. PICK n, k : MachOBun(im, c, n, k)
    BY <1>3, MachOBunIs
  <2>2. MachOOut(b, p, im, c, n, k, t)
    BY <1>1, <1>3, <2>1, MachOOutIs
  <2>3. Cell(b, 0) = MACHO_MAGIC_64 /\ MachOParses(b) /\ BunIs(b, c, t)
    BY <1>3, <2>1, <2>2, MachOReparsed
  <2>4. b \in Seq(Int) /\ SamePayload(b, p, c, t)
    BY <2>2 DEF MachOOut
  <2>5. Located(b, BunSection(b)) /\ Rebuilt(Locate(b, BunSection(b)), c, S, M)
    BY <2>3, <2>4, BunReparsed
  <2>6. Parses(b)
    BY <2>3, <2>5 DEF Parses
  <2>7. Parse(b).is_elf = c.is_elf
    <3>1. ELF_MAGIC # MACHO_MAGIC_64
      BY DEF ELF_MAGIC, MACHO_MAGIC_64
    <3>2. c.is_elf = (Cell(im, 0) = ELF_MAGIC)
      BY DEF InContext, Parse
    <3>3. Parse(b).is_elf = (Cell(b, 0) = ELF_MAGIC)
      BY DEF Parse
    <3> QED
      BY <1>3, <2>3, <3>1, <3>2, <3>3
  <2>8. Parse(b).bun = Locate(b, BunSection(b)) /\ Parse(b).sp = SpIndex(Parse(b).bun)
    BY DEF Parse
  <2>9. Rebuilt(Parse(b).bun, c, S, M)
    BY <2>5, <2>8
  <2> QED
    BY <2>4, <2>6, <2>7, <2>8, <2>9 DEF ReadBack
<1> QED
  BY <1>2, <1>3

\* The pointers of the output.
LEMMA PointersRead ==
    ASSUME NEW im, NEW c, InContext(im, c), NEW S, NEW M, NEW b, ReadBack(b, im, c, S, M)
    PROVE  /\ \A r \in ModuleRefs(c.bun) : Parse(b).sp[r] = NewPointer(c, S, M, r)
           /\ Parse(b).sp[ArgvRef] = Parse(b).bun.compile_exec_argv_ptr
           /\ c.sp[ArgvRef] = c.bun.compile_exec_argv_ptr
<1> DEFINE new == Parse(b).bun
<1>1. Rebuilt(new, c, S, M) /\ Parse(b).sp = SpIndex(new) /\ c.sp = SpIndex(c.bun)
  BY ContextIs DEF ReadBack
<1> HIDE DEF new
<1>2. /\ DOMAIN new.modules = DOMAIN c.bun.modules
      /\ \A m \in DOMAIN c.bun.modules : \A f \in FieldNames :
            new.modules[m].fields[f] = NewPointer(c, S, M, ModuleRef(m, f))
  BY <1>1 DEF Rebuilt
<1>3. ModuleRefs(new) = ModuleRefs(c.bun)
  BY <1>2 DEF ModuleRefs
<1>4. /\ \A r \in ModuleRefs(new) : SpIndex(new)[r] = new.modules[r.index].fields[r.field]
      /\ SpIndex(new)[ArgvRef] = new.compile_exec_argv_ptr
      /\ SpIndex(c.bun)[ArgvRef] = c.bun.compile_exec_argv_ptr
  BY SpIs
<1>5. ASSUME NEW r \in ModuleRefs(c.bun)
      PROVE  SpIndex(new)[r] = NewPointer(c, S, M, r)
  <2>1. r.index \in DOMAIN c.bun.modules /\ r.field \in FieldNames
        /\ r = ModuleRef(r.index, r.field)
    BY DEF ModuleRefs, ModuleRef
  <2> QED
    BY <1>2, <1>3, <1>4, <2>1
<1> QED
  BY <1>1, <1>4, <1>5 DEF new

-----------------------------------------------------------------------------
(* The texts of a spliced image, cell by cell.                             *)

\* An edit set as a plan has it: side by side, and replacing something.
PlanSet(S) == EditSet(S) /\ Apart(S) /\ \A e \in S : Len(e.old) > 0

\* What one cell of im becomes under the edits in S.
After(S, im, o) ==
    LET over == {e \in S : e.offset <= o /\ o < EndOf(e)}
    IN IF over = {} THEN <<Cell(im, o)>>
       ELSE LET e == CHOOSE f \in over : TRUE
            IN IF ~Growable(e) THEN <<e.new[o - e.offset + 1]>>
               ELSE IF o = e.offset THEN e.new ELSE <<>>

\* The cell o lies inside a growable edit, behind its first cell.
Inside(e, o) == Growable(e) /\ e.offset < o /\ o < EndOf(e)

\* Where what the cell o becomes begins.
Pos(S, o) ==
    IF \E e \in S : Inside(e, o)
    THEN LET e == CHOOSE f \in S : Inside(f, o)
         IN e.offset + Past(S, e.offset) + Len(e.new)
    ELSE o + Past(S, o)

\* The numbers of one edit.
LEMMA PlanEdit ==
    ASSUME NEW S, PlanSet(S), NEW e \in S
    PROVE  /\ e \in Edit /\ e.offset \in Nat /\ Len(e.old) \in Nat /\ Len(e.new) \in Nat
           /\ EndOf(e) \in Nat /\ EndOf(e) = e.offset + Len(e.old) /\ e.offset < EndOf(e)
           /\ Delta(e) = Len(e.new) - Len(e.old) /\ e.new \in Seq(Int)
<1>1. e \in Edit /\ Len(e.old) > 0
  BY DEF PlanSet, EditSet
<1>2. e.offset \in Nat /\ e.old \in Seq(Int) /\ e.new \in Seq(Int)
  BY <1>1 DEF Edit
<1>3. Len(e.old) \in Nat /\ Len(e.new) \in Nat
  BY <1>2, LenProperties
<1> QED
  BY <1>1, <1>2, <1>3 DEF EndOf, Delta

\* Only one edit covers a cell.
LEMMA CoveredByOne ==
    ASSUME NEW S, PlanSet(S), NEW o \in Int, NEW e \in S, NEW f \in S,
           e.offset <= o, o < EndOf(e), f.offset <= o, o < EndOf(f)
    PROVE  e = f
<1>1. e.offset \in Nat /\ EndOf(e) \in Nat /\ f.offset \in Nat /\ EndOf(f) \in Nat
  BY PlanEdit
<1>2. e # f => Disjoint(e, f)
  BY DEF PlanSet, Apart
<1> QED
  BY <1>1, <1>2 DEF Disjoint

LEMMA PastSame ==
    ASSUME NEW S, PlanSet(S), NEW o \in Int, NEW q \in Int, o <= q,
           \A f \in S : ~(o < EndOf(f) /\ EndOf(f) <= q)
    PROVE  Past(S, q) = Past(S, o)
<1>1. \A f \in S : EndOf(f) \in Nat
  BY PlanEdit
<1>2. {f \in S : EndOf(f) <= q} = {f \in S : EndOf(f) <= o}
  BY <1>1
<1> QED
  BY <1>2 DEF Past

LEMMA PastEnd ==
    ASSUME NEW S, PlanSet(S), NEW e \in S
    PROVE  /\ Past(S, EndOf(e)) = Past(S, e.offset) + Delta(e)
           /\ Past(S \ {e}, e.offset) = Past(S, e.offset)
           /\ Past(S, e.offset) \in Int
<1> DEFINE T == {f \in S : EndOf(f) <= e.offset}
<1>1. \A f \in S : f.offset \in Nat /\ EndOf(f) \in Nat /\ f.offset < EndOf(f)
  BY PlanEdit
<1>2. \A f \in S : f # e => Disjoint(f, e)
  BY DEF PlanSet, Apart
<1>3. {f \in S : EndOf(f) <= EndOf(e)} = T \cup {e}
  BY <1>1, <1>2 DEF Disjoint
<1>4. e \notin T /\ {f \in S \ {e} : EndOf(f) <= e.offset} = T
  BY <1>1
<1>5. EditSet(T) /\ e \in Edit
  BY EditSetPart, PlanEdit DEF PlanSet
<1>6. DeltaSum(T \cup {e}) = DeltaSum(T) + Delta(e)
  BY <1>4, <1>5, SumOneMore
<1>7. DeltaSum(T) \in Int
  BY <1>5, EditSum
<1> HIDE DEF T
<1> QED
  BY <1>3, <1>4, <1>6, <1>7 DEF Past, T

LEMMA PosIs ==
    ASSUME NEW S, PlanSet(S), NEW o \in Int
    PROVE  /\ (\A e \in S : ~Inside(e, o)) => Pos(S, o) = o + Past(S, o)
           /\ \A e \in S : Inside(e, o) =>
                 Pos(S, o) = e.offset + Past(S, e.offset) + Len(e.new)
           /\ Pos(S, o) \in Int
<1>1. ASSUME NEW e \in S, NEW f \in S, Inside(e, o), Inside(f, o) PROVE e = f
  <2>1. e.offset \in Nat /\ EndOf(e) \in Nat /\ f.offset \in Nat /\ EndOf(f) \in Nat
    BY PlanEdit
  <2>2. e.offset <= o /\ o < EndOf(e) /\ f.offset <= o /\ o < EndOf(f)
    BY <1>1, <2>1 DEF Inside
  <2> QED
    BY <2>2, CoveredByOne
<1>2. (\A e \in S : ~Inside(e, o)) => Pos(S, o) = o + Past(S, o)
  BY DEF Pos
<1>3. ASSUME NEW e \in S, Inside(e, o)
      PROVE  Pos(S, o) = e.offset + Past(S, e.offset) + Len(e.new)
  <2>1. e = CHOOSE f \in S : Inside(f, o)
    BY <1>1, <1>3
  <2> QED
    BY <1>3, <2>1 DEF Pos
<1>4. Past(S, o) \in Int
  BY PastType DEF PlanSet
<1>5. \A e \in S : e.offset + Past(S, e.offset) + Len(e.new) \in Int
  <2> TAKE e \in S
  <2>1. e.offset \in Nat /\ Len(e.new) \in Nat
    BY PlanEdit
  <2>2. Past(S, e.offset) \in Int
    BY PastEnd
  <2> QED
    BY <2>1, <2>2
<1>6. Pos(S, o) \in Int
  BY <1>2, <1>3, <1>4, <1>5
<1> QED
  BY <1>2, <1>3, <1>6

\* s holds what the cell o of im becomes, in front of what the next one becomes.
SplicedAt(s, S, im, o) ==
    /\ After(S, im, o) \in Seq(Int)
    /\ Pos(S, o + 1) = Pos(S, o) + Len(After(S, im, o))
    /\ \A j \in 1..Len(After(S, im, o)) : s[Pos(S, o) + j] = After(S, im, o)[j]

LEMMA SplicedPlain ==
    ASSUME NEW im \in Seq(Int), NEW s, NEW S, PlanSet(S), SettledIn(s, S, im),
           NEW o \in 0 .. Len(im) - 1, \A e \in S : ~(e.offset <= o /\ o < EndOf(e))
    PROVE  SplicedAt(s, S, im, o)
<1>0. o \in Nat /\ Cell(im, o) \in Int
  BY CellInt, LenProperties
<1>1. \A e \in S : e.offset \in Nat /\ EndOf(e) \in Nat /\ e.offset < EndOf(e)
  BY PlanEdit
<1>2. After(S, im, o) = <<Cell(im, o)>>
  BY DEF After
<1>3. \A e \in S : ~Inside(e, o) /\ ~Inside(e, o + 1)
  BY <1>0, <1>1 DEF Inside
<1>4. Pos(S, o) = o + Past(S, o) /\ Pos(S, o + 1) = o + 1 + Past(S, o + 1)
  BY <1>0, <1>3, PosIs
<1>5. Past(S, o + 1) = Past(S, o)
  <2>1. \A f \in S : ~(o < EndOf(f) /\ EndOf(f) <= o + 1)
    BY <1>0, <1>1
  <2> QED
    BY <1>0, <2>1, PastSame
<1>6. s[o + Past(S, o) + 1] = Cell(im, o)
  <2>1. \A f \in S : o < f.offset \/ EndOf(f) <= o
    BY <1>0, <1>1
  <2> QED
    BY <2>1 DEF SettledIn, Cell
<1>7. Past(S, o) \in Int
  BY PastType DEF PlanSet
<1> DEFINE a == After(S, im, o)
<1>8. a \in Seq(Int) /\ Len(a) = 1 /\ a[1] = Cell(im, o)
  BY <1>0, <1>2
<1> HIDE DEF a
<1>9. Pos(S, o + 1) = Pos(S, o) + 1
  BY <1>0, <1>4, <1>5, <1>7
<1>10. \A j \in 1..Len(a) : s[Pos(S, o) + j] = a[j]
  BY <1>4, <1>6, <1>8
<1> QED
  BY <1>8, <1>9, <1>10 DEF SplicedAt, a

LEMMA SplicedEdit ==
    ASSUME NEW im \in Seq(Int), NEW s, NEW S, PlanSet(S), SettledIn(s, S, im),
           NEW o \in 0 .. Len(im) - 1, NEW e \in S, e.offset <= o, o < EndOf(e)
    PROVE  SplicedAt(s, S, im, o)
<1> DEFINE x == e.offset
           end == EndOf(e)
           p == Past(S, x)
           n == Len(e.new)
           a == After(S, im, o)
<1>0. o \in Nat
  BY LenProperties
<1>1. /\ x \in Nat /\ end \in Nat /\ n \in Nat /\ x < end /\ x <= o /\ o < end
      /\ Delta(e) = n - (end - x) /\ e.new \in Seq(Int)
  <2>1. /\ e.offset \in Nat /\ Len(e.old) \in Nat /\ Len(e.new) \in Nat
        /\ EndOf(e) = e.offset + Len(e.old) /\ e.offset < EndOf(e)
        /\ Delta(e) = Len(e.new) - Len(e.old) /\ e.new \in Seq(Int)
    BY PlanEdit
  <2>2. x <= o /\ o < end
    OBVIOUS
  <2> DEFINE m == Len(e.old)
             d == Delta(e)
  <2>3. x \in Nat /\ m \in Nat /\ n \in Nat /\ end = x + m /\ d = n - m
    BY <2>1
  <2> HIDE DEF x, end, n, m, d
  <2>4. d = n - (end - x) /\ end \in Nat
    BY <2>3
  <2> QED
    BY <2>1, <2>2, <2>3, <2>4 DEF x, end, n, d
<1>2. \A f \in S : f.offset \in Nat /\ EndOf(f) \in Nat /\ f.offset < EndOf(f)
  BY PlanEdit
<1>3. ASSUME NEW f \in S, f.offset <= o, o < EndOf(f) PROVE f = e
  BY <1>0, <1>3, CoveredByOne
<1>4. Past(S, end) = p + Delta(e) /\ Past(S \ {e}, x) = p /\ p \in Int
  BY PastEnd
<1>5. \A j \in 1..n : s[x + p + j] = e.new[j]
  BY <1>4 DEF SettledIn
<1>6. ASSUME NEW q \in Int, x <= q, q < end PROVE Past(S, q) = p
  <2>1. ASSUME NEW f \in S, x < EndOf(f), EndOf(f) <= q PROVE FALSE
    <3>1. f # e
      <4> SUFFICES ASSUME f = e PROVE FALSE
        OBVIOUS
      <4>1. end <= q
        BY <2>1
      <4> HIDE DEF end, x
      <4> QED
        BY <1>1, <1>6, <4>1
    <3>2. Disjoint(f, e)
      BY <3>1 DEF PlanSet, Apart
    <3> QED
      BY <1>1, <1>2, <1>6, <2>1, <3>2 DEF Disjoint
  <2> QED
    BY <1>1, <1>6, <2>1, PastSame
<1>7. {f \in S : f.offset <= o /\ o < EndOf(f)} = {e}
  BY <1>3
<1>8. a = IF ~Growable(e) THEN <<e.new[o - x + 1]>> ELSE IF o = x THEN e.new ELSE <<>>
  <2> DEFINE over == {f \in S : f.offset <= o /\ o < EndOf(f)}
  <2>1. over = {e} /\ e = CHOOSE f \in over : TRUE
    BY <1>7
  <2> HIDE DEF over
  <2>2. over # {}
    BY <2>1
  <2>3. a = IF over = {} THEN <<Cell(im, o)>>
            ELSE LET f == CHOOSE f \in over : TRUE
                 IN IF ~Growable(f) THEN <<f.new[o - f.offset + 1]>>
                    ELSE IF o = f.offset THEN f.new ELSE <<>>
    BY DEF After, over
  <2> QED
    BY <2>1, <2>2, <2>3
<1> DEFINE here == IF Inside(e, o) THEN x + p + n ELSE o + p
           next == IF Inside(e, o + 1) THEN x + p + n ELSE o + 1 + Past(S, o + 1)
<1>9. Pos(S, o) = here
  <2>1. \A f \in S : Inside(f, o) => f = e
    BY <1>0, <1>2, <1>3 DEF Inside
  <2>2. Past(S, o) = p
    BY <1>0, <1>1, <1>6
  <2> QED
    BY <1>0, <2>1, <2>2, PosIs
<1>10. Pos(S, o + 1) = next
  <2>1. \A f \in S : Inside(f, o + 1) => f = e
    <3> TAKE f \in S
    <3> HAVE Inside(f, o + 1)
    <3>1. f.offset <= o /\ o < EndOf(f)
      BY <1>0, <1>2 DEF Inside
    <3> QED
      BY <1>3, <3>1
  <2> QED
    BY <1>0, <2>1, PosIs
<1>11. Growable(e) <=> n # end - x
  <2> DEFINE d == Delta(e)
  <2>1. Growable(e) <=> d # 0
    BY DEF Growable
  <2>2. d = n - (end - x) /\ n \in Nat /\ end \in Nat /\ x \in Nat
    BY <1>1
  <2> HIDE DEF d, n, end, x
  <2>3. d # 0 <=> n # end - x
    BY <2>2
  <2> QED
    BY <2>1, <2>3
<1>12. /\ Inside(e, o) <=> n # end - x /\ x < o /\ o < end
       /\ Inside(e, o + 1) <=> n # end - x /\ x < o + 1 /\ o + 1 < end
  BY <1>11 DEF Inside
<1>13. o + 1 < end => Past(S, o + 1) = p
  BY <1>0, <1>1, <1>6
<1>14. o + 1 = end => Past(S, o + 1) = p + (n - (end - x))
  BY <1>1, <1>4
<1>15. o + 1 < end \/ o + 1 = end
  BY <1>0, <1>1
<1>16. CASE n = end - x
  <2>1. here = o + p /\ next = o + 1 + p
    <3> HIDE DEF x, end, p, n
    <3> QED
      BY <1>0, <1>1, <1>4, <1>12, <1>13, <1>14, <1>15, <1>16
  <2>2. a = <<e.new[o - x + 1]>>
    BY <1>8, <1>11, <1>16
  <2>3. o - x + 1 \in 1..n /\ x + p + (o - x + 1) = o + p + 1
    <3> HIDE DEF x, end, p, n
    <3> QED
      BY <1>0, <1>1, <1>4, <1>16
  <2>4. e.new[o - x + 1] \in Int
    BY <1>1, <2>3, ElementOfSeq
  <2>5. s[o + p + 1] = e.new[o - x + 1]
    BY <1>5, <2>3
  <2> DEFINE v == e.new[o - x + 1]
  <2>6. a = <<v>> /\ v \in Int /\ s[o + p + 1] = v
    BY <2>2, <2>4, <2>5
  <2> HIDE DEF v, a
  <2>7. a \in Seq(Int) /\ Len(a) = 1 /\ a[1] = v
    BY <2>6
  <2>8. \A j \in 1..Len(a) : s[o + p + j] = a[j]
    BY <2>6, <2>7
  <2>9. Pos(S, o) = o + p /\ Pos(S, o + 1) = o + p + 1
    <3>1. Pos(S, o) = o + p /\ Pos(S, o + 1) = o + 1 + p
      BY <1>9, <1>10, <2>1
    <3> HIDE DEF p, here, next
    <3> QED
      BY <1>0, <1>4, <3>1 DEF p
  <2> HIDE DEF p, here, next
  <2> QED
    BY <2>7, <2>8, <2>9 DEF SplicedAt, a
<1>17. CASE n # end - x /\ o = x
  <2>1. a = e.new
    BY <1>8, <1>11, <1>17
  <2>2. here = o + p /\ next = o + p + n
    <3> HIDE DEF x, end, p, n
    <3> QED
      BY <1>0, <1>1, <1>4, <1>12, <1>13, <1>14, <1>15, <1>17
  <2>3. Pos(S, o) = o + p /\ Pos(S, o + 1) = o + p + n
    BY <1>9, <1>10, <2>2
  <2>4. \A j \in 1..n : s[o + p + j] = e.new[j]
    BY <1>5, <1>17
  <2>5. a \in Seq(Int) /\ Len(a) = n
    BY <1>1, <2>1
  <2> HIDE DEF p, here, next, n
  <2> QED
    BY <2>1, <2>3, <2>4, <2>5 DEF SplicedAt, a
<1>18. CASE n # end - x /\ o # x
  <2>1. a = <<>>
    BY <1>8, <1>11, <1>18
  <2>2. here = x + p + n /\ next = x + p + n
    <3> HIDE DEF x, end, p, n
    <3> QED
      BY <1>0, <1>1, <1>4, <1>12, <1>13, <1>14, <1>15, <1>18
  <2>3. Pos(S, o) = x + p + n /\ Pos(S, o + 1) = x + p + n
    BY <1>9, <1>10, <2>2
  <2>4. x + p + n \in Int
    BY <1>1, <1>4
  <2>5. a \in Seq(Int) /\ Len(a) = 0
    BY <2>1
  <2> DEFINE here2 == x + p + n
  <2> HIDE DEF here2, a
  <2>6. Pos(S, o) = here2 /\ Pos(S, o + 1) = here2 /\ here2 \in Int
    BY <2>3, <2>4 DEF here2
  <2>7. Pos(S, o + 1) = Pos(S, o) + Len(a)
    BY <2>5, <2>6
  <2>8. 1..Len(a) = {}
    BY <2>5
  <2> QED
    BY <2>5, <2>7, <2>8 DEF SplicedAt, a
<1> QED
  BY <1>16, <1>17, <1>18

LEMMA SplicedCells ==
    ASSUME NEW im \in Seq(Int), NEW s, NEW S, PlanSet(S), SettledIn(s, S, im),
           NEW o \in 0 .. Len(im) - 1
    PROVE  SplicedAt(s, S, im, o)
BY SplicedPlain, SplicedEdit

\* Cells that are read, one by one.
LEMMA CellsOf ==
    ASSUME NEW b \in Seq(Int), NEW x \in Nat, NEW n \in Nat, x + n <= Len(b)
    PROVE  /\ Cells(b, x, n) \in Seq(Int) /\ Len(Cells(b, x, n)) = n
           /\ \A j \in 1..n : Cells(b, x, n)[j] = b[x + j]
<1>1. \A k \in x + 1 .. x + n : b[k] \in Int
  BY ElementOfSeq, LenProperties
<1> DEFINE m == SubSeq(b, x + 1, x + n)
<1>2. /\ m \in Seq(Int)
      /\ Len(m) = IF x + 1 <= x + n THEN x + n - (x + 1) + 1 ELSE 0
      /\ \A j \in 1 .. x + n - (x + 1) + 1 : m[j] = b[x + 1 + j - 1]
  BY <1>1, SubSeqProperties
<1> HIDE DEF m
<1>3. Len(m) = n
  BY <1>2
<1>4. \A j \in 1..n : m[j] = b[x + j]
  <2> TAKE j \in 1..n
  <2>1. j \in 1 .. x + n - (x + 1) + 1 /\ x + 1 + j - 1 = x + j
    OBVIOUS
  <2> QED
    BY <1>2, <2>1
<1> QED
  BY <1>2, <1>3, <1>4 DEF m, Cells

LEMMA SameSequence ==
    ASSUME NEW s \in Seq(Int), NEW r \in Seq(Int), NEW n \in Nat, Len(s) = n, Len(r) = n,
           \A j \in 1..n : s[j] = r[j]
    PROVE  s = r
<1>1. s \in [1..n -> Int] /\ r \in [1..n -> Int]
  BY LenProperties
<1> QED
  BY <1>1

\* The places of the cells of a range go up.
LEMMA PosUp ==
    ASSUME NEW im \in Seq(Int), NEW s, NEW S, PlanSet(S), SettledIn(s, S, im),
           NEW a \in Nat, NEW z \in Nat, a <= z, z <= Len(im)
    PROVE  \A o \in a..z : /\ Pos(S, o) \in Int
                           /\ Pos(S, a) <= Pos(S, o) /\ Pos(S, o) <= Pos(S, z)
<1> DEFINE f == [o \in a..z |-> Pos(S, o)]
<1>1. \A o \in a..z : Pos(S, o) \in Int
  BY PosIs
<1>2. \A o \in a .. z - 1 : Pos(S, o) <= Pos(S, o + 1)
  <2> TAKE o \in a .. z - 1
  <2>1. o \in 0 .. Len(im) - 1 /\ o \in a..z /\ o + 1 \in a..z
    BY LenProperties
  <2>2. SplicedAt(s, S, im, o)
    BY <2>1, SplicedCells
  <2> DEFINE n == Len(After(S, im, o))
  <2>3. n \in Nat /\ Pos(S, o + 1) = Pos(S, o) + n
    BY <2>2, LenProperties DEF SplicedAt
  <2> HIDE DEF n
  <2> QED
    BY <1>1, <2>1, <2>3
<1>3. \A o \in a..z : f[o] = Pos(S, o)
  OBVIOUS
<1> HIDE DEF f
<1>4. \A o \in a..z : f[o] \in Int
  BY <1>1, <1>3
<1>5. \A o \in a .. z - 1 : f[o] <= f[o + 1]
  <2> TAKE o \in a .. z - 1
  <2>1. o \in a..z /\ o + 1 \in a..z
    OBVIOUS
  <2> QED
    BY <1>2, <1>3, <2>1
<1>6. \A o \in a..z : f[a] <= f[o] /\ f[o] <= f[z]
  <2>1. a \in Int /\ z \in Int
    OBVIOUS
  <2> QED
    BY <1>4, <1>5, <2>1, NeverDown
<1>7. a \in a..z /\ z \in a..z
  OBVIOUS
<1> QED
  BY <1>1, <1>3, <1>6, <1>7

\* What the cells from a to z become, one behind the other.
RangeText(S, im, a, z) == FlattenSeq([n \in 1 .. z - a |-> After(S, im, a + n - 1)])
RangeIs(s, S, im, a, z) ==
    /\ RangeText(S, im, a, z) \in Seq(Int)
    /\ Pos(S, z) - Pos(S, a) \in Nat
    /\ Len(RangeText(S, im, a, z)) = Pos(S, z) - Pos(S, a)
    /\ \A j \in 1 .. Pos(S, z) - Pos(S, a) : RangeText(S, im, a, z)[j] = s[Pos(S, a) + j]

LEMMA SplicedRange ==
    ASSUME NEW im \in Seq(Int), NEW s, NEW S, PlanSet(S), SettledIn(s, S, im),
           NEW a \in Nat, NEW z \in Nat, a <= z, z <= Len(im)
    PROVE  RangeIs(s, S, im, a, z)
<1> DEFINE n == z - a
           w == [k \in 1..n |-> After(S, im, a + k - 1)]
           x == Pos(S, a)
           y == Pos(S, z)
           at == [k \in 0..n |-> Pos(S, a + k) - x]
           r == [j \in Int |-> s[x + j]]
<1>1. n \in Nat /\ a + n = z
  OBVIOUS
<1>2. \A k \in 0..n : /\ Pos(S, a + k) \in Int /\ x <= Pos(S, a + k)
  <2> TAKE k \in 0..n
  <2>1. a + k \in a..z
    OBVIOUS
  <2> QED
    BY <2>1, PosUp
<1>3. x \in Int /\ y \in Int /\ x <= y
  <2>1. a \in a..z /\ z \in a..z
    OBVIOUS
  <2> QED
    BY <2>1, PosUp
<1>4. \A k \in 1..n : SplicedAt(s, S, im, a + k - 1)
  <2> TAKE k \in 1..n
  <2>1. a + k - 1 \in 0 .. Len(im) - 1
    BY LenProperties
  <2> QED
    BY <2>1, SplicedCells
<1>5. w \in [1..n -> Seq(Int)]
  BY <1>4 DEF SplicedAt
<1>6. at[0] = 0 /\ at[n] = y - x
  <2>1. 0 \in 0..n /\ n \in 0..n /\ a + 0 = a
    OBVIOUS
  <2>2. at[0] = Pos(S, a + 0) - x /\ at[n] = Pos(S, a + n) - x
    BY <2>1
  <2> HIDE DEF at, x, y
  <2>3. Pos(S, a + 0) = x /\ Pos(S, a + n) = y
    BY <1>1, <2>1 DEF x, y
  <2> QED
    BY <1>3, <2>2, <2>3
<1>7. \A k \in 0..n : at[k] \in Nat
  <2> TAKE k \in 0..n
  <2> DEFINE p == Pos(S, a + k)
  <2>1. at[k] = p - x
    OBVIOUS
  <2>2. p \in Int /\ x <= p
    BY <1>2
  <2> HIDE DEF at, x, p
  <2> QED
    BY <1>3, <2>1, <2>2
<1>8. ASSUME NEW k \in 1..n
      PROVE  /\ at[k] = at[k - 1] + Len(w[k])
             /\ \A j \in 1..Len(w[k]) : r[at[k - 1] + j] = w[k][j]
  <2> DEFINE o == a + k - 1
             e == After(S, im, o)
             p == Pos(S, o)
  <2>1. /\ e \in Seq(Int) /\ Pos(S, o + 1) = p + Len(e)
        /\ \A j \in 1..Len(e) : s[p + j] = e[j]
    BY <1>4 DEF SplicedAt
  <2>2. k \in 0..n /\ k - 1 \in 0..n /\ o + 1 = a + k /\ a + (k - 1) = o
    OBVIOUS
  <2>3. at[k] = Pos(S, o + 1) - x /\ at[k - 1] = p - x /\ w[k] = e
    <3>1. at[k] = Pos(S, a + k) - x /\ at[k - 1] = Pos(S, a + (k - 1)) - x
      BY <2>2
    <3> QED
      BY <2>2, <3>1
  <2>4. p \in Int /\ Len(e) \in Nat
    <3>1. Pos(S, a + (k - 1)) \in Int
      BY <1>2, <2>2
    <3> QED
      BY <2>1, <2>2, <3>1, LenProperties
  <2> HIDE DEF at, x, p, o, e
  <2>5. at[k] = at[k - 1] + Len(w[k])
    BY <1>3, <2>1, <2>3, <2>4
  <2>6. ASSUME NEW j \in 1..Len(e) PROVE r[at[k - 1] + j] = e[j]
    <3>1. at[k - 1] + j \in Int /\ x + (at[k - 1] + j) = p + j
      BY <1>3, <2>3, <2>4
    <3> QED
      BY <2>1, <3>1
  <2> QED
    BY <2>3, <2>5, <2>6
<1>9. LaidOut(r, w, n, at)
  BY <1>6, <1>7, <1>8 DEF LaidOut
<1>10. /\ FlattenSeq(w) \in Seq(Int) /\ Len(FlattenSeq(w)) = at[n]
       /\ \A j \in 1..at[n] : FlattenSeq(w)[j] = r[j]
  <2> HIDE DEF w, at, r, n
  <2>1. n \in Nat
    BY <1>1
  <2> QED
    BY <1>5, <1>9, <2>1, FlattenIs
<1>11. \A j \in Int : r[j] = s[x + j]
  OBVIOUS
<1> HIDE DEF at, r, w, x, y
<1>12. \A j \in 1 .. y - x : FlattenSeq(w)[j] = s[x + j]
  <2> TAKE j \in 1 .. y - x
  <2>1. j \in Int
    OBVIOUS
  <2> QED
    BY <1>6, <1>10, <1>11, <2>1
<1>13. y - x \in Nat
  BY <1>3
<1>14. FlattenSeq(w) = RangeText(S, im, a, z)
  BY DEF w, n, RangeText
<1> QED
  BY <1>6, <1>10, <1>12, <1>13, <1>14 DEF x, y, RangeIs

\* What a part of the texts of the input has become in the output.
LEMMA TextWritten ==
    ASSUME NEW im, NEW c, InContext(im, c), NEW S, PlanIn(c, S), NEW M,
           NEW b, ReadBack(b, im, c, S, M),
           NEW a \in Int, NEW z \in Int, c.bun.payload_start <= a, a <= z, z <= TableAt(c),
           \A e \in S : ~Inside(e, a) /\ ~Inside(e, z)
    PROVE  LET x == a + Past(S, a)
               y == z + Past(S, z)
           IN /\ x \in Nat /\ y \in Nat /\ x <= y /\ y <= Len(b)
              /\ RangeText(S, im, a, z) = Cells(b, x, y - x)
<1> DEFINE L == Len(im)
           t == DeltaSum(S)
           off == c.bun.bun_offset
           size == c.bun.bun_size
           start == c.bun.payload_start
           table == TableAt(c)
           len == c.bun.modules_ptr.length
           at == c.bun.offsets_struct_offset
           x == a + Past(S, a)
           y == z + Past(S, z)
           B == Len(b)
           flat == RangeText(S, im, a, z)
<1>1. Frame(L, t, off, size, start, table, len, at)
  BY BoundsAre DEF Bounds
<1>2. PICK p : PayloadDone(p, im, c, S, M) /\ b \in Seq(Int) /\ SamePayload(b, p, c, t)
  BY DEF ReadBack
<1>3. PICK s \in Seq(Int) :
          /\ SettledIn(s, S, im)
          /\ \A o \in start .. table + t - 1 : Cell(p, o) = Cell(s, o)
  BY <1>2 DEF PayloadDone, Kept, TextsAre
<1>4. /\ off + size + t <= B
      /\ \A o \in off .. off + size + t - 1 : Cell(b, o) = Cell(p, o)
  BY <1>2 DEF SamePayload
<1>5. PlanSet(S) /\ im \in Seq(Int)
  BY DEF PlanIn, PlanSet, InContext
<1>6. \A e \in S : e.offset \in Nat /\ start <= e.offset /\ EndOf(e) \in Nat /\ EndOf(e) <= table
  BY <1>5, PlanEdit DEF PlanIn
<1>7. Past(S, start) = 0 /\ Past(S, table) = t
  <2>1. start \in Int /\ table \in Int /\ start <= start /\ table <= table
    <3> HIDE DEF L, t, off, size, start, table, len, at
    <3> QED
      BY <1>1 DEF Frame
  <2> QED
    BY <2>1, BoundsAre
<1> HIDE DEF L, t, off, size, start, table, len, at, B, flat
<1>8. /\ L \in Nat /\ start \in Nat /\ table \in Nat /\ t \in Int /\ off \in Nat /\ size \in Nat
      /\ start = off + 1 /\ table <= L /\ table + t <= off + size + t /\ start <= table
      /\ start <= a /\ z <= table
  BY <1>1 DEF Frame, start, table
<1>9. a \in Nat /\ z \in Nat
  BY <1>8
<1>10. Pos(S, a) = x /\ Pos(S, z) = y /\ x \in Int /\ y \in Int
  BY <1>5, <1>9, PosIs
<1>11. Pos(S, start) = start /\ Pos(S, table) = table + t
  <2>1. \A e \in S : ~Inside(e, start) /\ ~Inside(e, table)
    BY <1>6, <1>8 DEF Inside
  <2>2. Pos(S, start) = start + Past(S, start) /\ Pos(S, table) = table + Past(S, table)
    BY <1>5, <1>8, <2>1, PosIs
  <2> QED
    BY <1>7, <1>8, <2>2
<1>12. start <= x /\ x <= y /\ y <= table + t
  <2>1. a \in start..table /\ z \in start..table /\ a \in a..z
    BY <1>8, <1>9
  <2>2. \A o \in start..table : Pos(S, start) <= Pos(S, o) /\ Pos(S, o) <= Pos(S, table)
    BY <1>3, <1>5, <1>8, PosUp DEF L
  <2>3. z <= L
    BY <1>8, <1>9
  <2>4. Pos(S, a) <= Pos(S, z)
    <3>1. \A o \in a..z : Pos(S, a) <= Pos(S, o) /\ Pos(S, o) <= Pos(S, z)
      BY <1>3, <1>5, <1>9, <2>3, PosUp DEF L
    <3> QED
      BY <2>1, <3>1
  <2> QED
    BY <1>10, <1>11, <2>1, <2>2, <2>4
<1>13. /\ flat \in Seq(Int) /\ Len(flat) = y - x
       /\ \A j \in 1 .. y - x : flat[j] = s[x + j]
  <2>1. z <= L
    BY <1>8, <1>9
  <2>2. RangeIs(s, S, im, a, z)
    BY <1>3, <1>5, <1>9, <2>1, SplicedRange DEF L
  <2>3. /\ flat \in Seq(Int) /\ Len(flat) = Pos(S, z) - Pos(S, a)
        /\ \A j \in 1 .. Pos(S, z) - Pos(S, a) : flat[j] = s[Pos(S, a) + j]
    BY <2>2 DEF RangeIs, flat
  <2> HIDE DEF x, y
  <2> QED
    BY <1>10, <2>3
<1> HIDE DEF x, y
<1>14. B \in Nat /\ y <= B /\ x \in Nat /\ y \in Nat /\ y - x \in Nat
  <2>1. B \in Nat
    BY <1>2, LenProperties DEF B
  <2> QED
    BY <1>4, <1>8, <1>10, <1>12, <2>1
<1>15. /\ Cells(b, x, y - x) \in Seq(Int) /\ Len(Cells(b, x, y - x)) = y - x
       /\ \A j \in 1 .. y - x : Cells(b, x, y - x)[j] = b[x + j]
  <2>1. x + (y - x) <= B
    BY <1>14
  <2> QED
    BY <1>2, <1>14, <2>1, CellsOf DEF B
<1>16. \A j \in 1 .. y - x : flat[j] = b[x + j]
  <2> TAKE j \in 1 .. y - x
  <2> DEFINE o == x + j - 1
  <2>1. o \in start .. table + t - 1 /\ o \in off .. off + size + t - 1 /\ o + 1 = x + j
    BY <1>8, <1>12, <1>14
  <2>2. Cell(s, o) = Cell(p, o) /\ Cell(p, o) = Cell(b, o)
    BY <1>3, <1>4, <2>1
  <2> HIDE DEF o
  <2> QED
    BY <1>13, <2>1, <2>2 DEF Cell
<1>17. flat = Cells(b, x, y - x)
  <2> DEFINE r == Cells(b, x, y - x)
             n == y - x
  <2>1. r \in Seq(Int) /\ n \in Nat /\ Len(r) = n /\ Len(flat) = n
    BY <1>13, <1>14, <1>15
  <2>2. \A j \in 1..n : flat[j] = r[j]
    BY <1>15, <1>16
  <2> HIDE DEF r, n
  <2>3. flat = r
    BY <1>13, <2>1, <2>2, SameSequence
  <2> QED
    BY <2>3 DEF r, n
<1> QED
  BY <1>12, <1>14, <1>17 DEF flat, x, y, B

-----------------------------------------------------------------------------
(* The texts of the regions.                                               *)

\* A region has text in front of the Offsets struct, and the texts of modules
\* lie in front of the modules table.
LEMMA RegionIs ==
    ASSUME NEW im, NEW c, InContext(im, c), NEW r \in Regions(c)
    PROVE  /\ r \in ModuleRefs(c.bun) \cup {ArgvRef}
           /\ RegionAt(c, r) \in Nat /\ RegionEnd(c, r) \in Nat
           /\ RegionAt(c, r) < RegionEnd(c, r) /\ RegionEnd(c, r) <= Len(im)
           /\ RegionEnd(c, r) - RegionAt(c, r) = c.sp[r].length
           /\ c.bun.payload_start <= RegionAt(c, r)
           /\ \/ RegionEnd(c, r) <= TableAt(c)
              \/ r = ArgvRef /\ TableAt(c) <= RegionAt(c, r)
<1> DEFINE L == Len(im)
           start == c.bun.payload_start
           table == TableAt(c)
           len == c.bun.modules_ptr.length
           at == c.bun.offsets_struct_offset
           x == RegionAt(c, r)
           y == RegionEnd(c, r)
           n == c.sp[r].length
<1>1. r \in ModuleRefs(c.bun) \cup {ArgvRef} /\ n > 0
  BY DEF Regions
<1>2. x \in Int /\ y \in Int /\ n \in Nat
  BY <1>1, RegionTypes
<1>3. y = x + n
  BY DEF RegionEnd
<1>4. /\ start \in Nat /\ at \in Nat /\ at + 8 <= L /\ L \in Nat
      /\ len \in Int /\ 0 <= len /\ table \in Int /\ table + len <= at
  <2>1. ReadFrom(im, c.bun) /\ WellFramed(c) /\ im \in Seq(Int)
    BY ContextIs DEF InContext
  <2>2. c.bun.modules_ptr.offset \in Int /\ c.bun.bun_offset \in Nat /\ start = c.bun.bun_offset + 1
    BY <2>1 DEF ReadFrom
  <2>3. table = start + c.bun.modules_ptr.offset
    BY DEF TableAt
  <2>4. len \in Int /\ at \in Nat /\ at + 8 <= L
    BY <2>1 DEF ReadFrom
  <2>5. 0 <= len /\ table + len <= at
    BY <2>1 DEF WellFramed
  <2>6. L \in Nat
    BY <2>1, LenProperties
  <2> HIDE DEF L, start, table, len, at, x, y, n
  <2> QED
    BY <2>2, <2>3, <2>4, <2>5, <2>6
<1>5. /\ start <= x
      /\ \/ y <= table
         \/ r = ArgvRef /\ table + len <= x /\ y <= at
  <2>1. WellFramed(c)
    BY ContextIs
  <2> QED
    BY <2>1 DEF WellFramed
<1> HIDE DEF L, start, table, len, at, x, y, n
<1>6. x \in Nat /\ y \in Nat /\ x < y /\ y <= L /\ y - x = n
  BY <1>1, <1>2, <1>3, <1>4, <1>5
<1>7. \/ y <= table
      \/ r = ArgvRef /\ table <= x
  BY <1>2, <1>4, <1>5
<1> QED
  BY <1>1, <1>5, <1>6, <1>7 DEF L, start, table, x, y, n

\* A range no edit touches keeps its cells.
LEMMA RangeUntouched ==
    ASSUME NEW im \in Seq(Int), NEW S, NEW a \in Nat, NEW z \in Nat, a <= z, z <= Len(im),
           S \subseteq Edit, \A e \in S : EndOf(e) <= a \/ z <= e.offset
    PROVE  RangeText(S, im, a, z) = Cells(im, a, z - a)
<1> DEFINE n == z - a
           none == RangeText({}, im, a, z)
<1>1. n \in Nat /\ a + n <= Len(im)
  BY LenProperties
<1>2. \A k \in 1..n : After(S, im, a + k - 1) = After({}, im, a + k - 1)
  <2> TAKE k \in 1..n
  <2> DEFINE o == a + k - 1
  <2>1. o \in Nat /\ a <= o /\ o < z
    OBVIOUS
  <2> HIDE DEF o
  <2>2. ASSUME NEW e \in S PROVE ~(e.offset <= o /\ o < EndOf(e))
    <3>1. e.offset \in Nat /\ EndOf(e) \in Nat
      BY EditTypes
    <3> QED
      BY <2>1, <3>1
  <2>3. {e \in S : e.offset <= o /\ o < EndOf(e)} = {}
    BY <2>2
  <2> QED
    BY <2>3 DEF After, o
<1>3. RangeText(S, im, a, z) = none
  <2>1. [k \in 1..n |-> After(S, im, a + k - 1)] = [k \in 1..n |-> After({}, im, a + k - 1)]
    BY <1>2
  <2> QED
    BY <2>1 DEF RangeText
<1>4. PlanSet({}) /\ SettledIn(im, {}, im)
  <2>1. EditSet({}) /\ Apart({})
    BY FS_EmptySet DEF EditSet, Apart
  <2>2. \A o : Past({}, o) = 0
    BY SumNone DEF Past
  <2>3. \A o \in 0 .. Len(im) - 1 : o + 0 + 1 <= Len(im) /\ im[o + 0 + 1] = im[o + 1]
    BY LenProperties
  <2>4. Len(im) = Len(im) + 0
    BY LenProperties
  <2> QED
    BY <2>1, <2>2, <2>3, <2>4, SumNone DEF PlanSet, SettledIn
<1>5. RangeIs(im, {}, im, a, z)
  BY <1>4, SplicedRange
<1>6. \A o \in Int : Pos({}, o) = o
  <2> TAKE o \in Int
  <2>1. Pos({}, o) = o + Past({}, o)
    BY <1>4, PosIs
  <2>2. Past({}, o) = 0
    BY SumNone DEF Past
  <2> QED
    BY <2>1, <2>2
<1>7. /\ none \in Seq(Int) /\ Len(none) = n
      /\ \A j \in 1..n : none[j] = im[a + j]
  <2>1. Pos({}, a) = a /\ Pos({}, z) = z
    BY <1>6
  <2> QED
    BY <1>5, <2>1 DEF RangeIs
<1>8. /\ Cells(im, a, n) \in Seq(Int) /\ Len(Cells(im, a, n)) = n
      /\ \A j \in 1..n : Cells(im, a, n)[j] = im[a + j]
  BY <1>1, CellsOf
<1>9. none = Cells(im, a, n)
  <2> DEFINE r == Cells(im, a, n)
  <2>1. \A j \in 1..n : none[j] = r[j]
    BY <1>7, <1>8
  <2> HIDE DEF none, r, n
  <2> QED
    BY <1>1, <1>7, <1>8, <2>1, SameSequence DEF r
<1> QED
  BY <1>3, <1>9

\* No cells at all.
LEMMA NoText ==
    ASSUME NEW im \in Seq(Int), NEW S, NEW a \in Int
    PROVE  RangeText(S, im, a, a) = <<>> /\ Cells(im, a, 0) = <<>>
<1>1. RangeText(S, im, a, a) = <<>>
  <2>1. a - a = 0
    OBVIOUS
  <2>2. [n \in 1..0 |-> After(S, im, a + n - 1)] = <<>>
    OBVIOUS
  <2>3. FlattenSeq(<<>>) = <<>>
    BY FlattenEmpty
  <2> QED
    BY <2>1, <2>2, <2>3 DEF RangeText
<1>2. Cells(im, a, 0) = <<>>
  BY SubSeqEmpty DEF Cells
<1> QED
  BY <1>1, <1>2

LEMMA InsertedNone ==
    ASSUME PlanIn(ctx, InPlan), NEW o, NEW r
    PROVE  InsertedAt(o, r) = <<>> /\ CellAfter(o) = After(InPlan, image, o)
<1>1. {e \in PlanEdits : e.offset = o /\ e.old = <<>> /\ e.region = r} = {}
  <2>1. \A e \in InPlan : e.old # <<>>
    BY LenProperties DEF PlanIn
  <2> QED
    BY <2>1 DEF PlanEdits, InPlan
<1>2. InsertedAt(o, r) = <<>>
  BY <1>1 DEF InsertedAt
<1>3. CellAfter(o) = After(InPlan, image, o)
  BY DEF CellAfter, After, PlanEdits, InPlan
<1> QED
  BY <1>2, <1>3

\* What the property asks of a region is what its cells become.
LEMMA RewrittenIs ==
    ASSUME InContext(image, ctx), PlanIn(ctx, InPlan),
           NEW s \in Seq(Int), SettledIn(s, InPlan, image),
           NEW r \in ModuleRefs(ctx.bun) \cup {ArgvRef}
    PROVE  Rewritten(r) = RangeText(InPlan, image, RegionAt(ctx, r), RegionEnd(ctx, r))
<1> DEFINE a == RegionAt(ctx, r)
           z == RegionEnd(ctx, r)
           len == ctx.sp[r].length
           each == [n \in 1..len |-> InsertedAt(a + n - 1, r) \o CellAfter(a + n - 1)]
           after == [n \in 1..len |-> After(InPlan, image, a + n - 1)]
           flat == RangeText(InPlan, image, a, z)
<1>1. Rewritten(r) = FlattenSeq(each) \o InsertedAt(a + len, r)
  BY DEF Rewritten, RegionAt
<1>2. Rewritten(r) = FlattenSeq(each) \o <<>>
  BY <1>1, InsertedNone
<1>3. image \in Seq(Int) /\ PlanSet(InPlan)
  BY DEF InContext, PlanIn, PlanSet
<1>4. a \in Int /\ z = a + len /\ len \in Nat
  BY RegionTypes DEF RegionEnd
<1>5. flat \in Seq(Int) /\ \A n \in 1..len : After(InPlan, image, a + n - 1) \in Seq(Int)
  <2>1. CASE len = 0
    <3>1. flat = <<>>
      <4> HIDE DEF a
      <4>1. z = a
        BY <1>4, <2>1
      <4> QED
        BY <1>3, <1>4, <4>1, NoText
    <3>2. <<>> \in Seq(Int)
      OBVIOUS
    <3> HIDE DEF flat, len, a
    <3> QED
      BY <2>1, <3>1, <3>2
  <2>2. CASE len # 0
    <3>1. r \in Regions(ctx)
      BY <1>4, <2>2 DEF Regions
    <3>2. a \in Nat /\ z \in Nat /\ a < z /\ z <= Len(image)
      BY <3>1, RegionIs
    <3>3. RangeIs(s, InPlan, image, a, z)
      <4> HIDE DEF a, z
      <4> QED
        BY <1>3, <3>2, SplicedRange
    <3>4. \A n \in 1..len : SplicedAt(s, InPlan, image, a + n - 1)
      <4> TAKE n \in 1..len
      <4> HIDE DEF a, z, len
      <4>1. Len(image) \in Nat
        BY <1>3, LenProperties
      <4>2. a + n - 1 \in 0 .. Len(image) - 1
        BY <1>4, <3>2, <4>1
      <4> QED
        BY <1>3, <4>2, SplicedCells
    <3> QED
      BY <3>3, <3>4 DEF RangeIs, SplicedAt
  <2> QED
    BY <2>1, <2>2
<1>6. each = after
  <2>1. ASSUME NEW n \in 1..len
        PROVE  InsertedAt(a + n - 1, r) \o CellAfter(a + n - 1) = After(InPlan, image, a + n - 1)
    <3> DEFINE t == After(InPlan, image, a + n - 1)
    <3>1. t \in Seq(Int)
      BY <1>5
    <3>2. InsertedAt(a + n - 1, r) = <<>> /\ CellAfter(a + n - 1) = t
      BY InsertedNone
    <3> HIDE DEF t
    <3>3. <<>> \o t = t
      BY <3>1, ConcatEmptySeq
    <3> QED
      BY <3>2, <3>3 DEF t
  <2> QED
    BY <2>1
<1>7. FlattenSeq(after) = flat
  <2>1. z - a = len
    <3> HIDE DEF a, z, len
    <3> QED
      BY <1>4
  <2> QED
    BY <2>1 DEF RangeText
<1>8. flat \o <<>> = flat
  <2> HIDE DEF flat
  <2> QED
    BY <1>5, ConcatEmptySeq
<1> QED
  BY <1>2, <1>6, <1>7, <1>8

\* Edits lie in one region, and so beside all others.
LEMMA EditsBeside ==
    ASSUME NEW im, NEW c, InContext(im, c), NEW S, PlanIn(c, S), NEW r \in Regions(c),
           NEW e \in S
    PROVE  \/ RegionAt(c, r) <= e.offset /\ EndOf(e) <= RegionEnd(c, r)
           \/ EndOf(e) <= RegionAt(c, r)
           \/ RegionEnd(c, r) <= e.offset
<1>1. PICK q \in Regions(c) : RegionAt(c, q) <= e.offset /\ EndOf(e) <= RegionEnd(c, q)
  BY DEF PlanIn
<1>2. r # q => RegionEnd(c, r) <= RegionAt(c, q) \/ RegionEnd(c, q) <= RegionAt(c, r)
  <2>1. WellFramed(c)
    BY ContextIs
  <2> QED
    BY <2>1 DEF WellFramed
<1>3. /\ RegionAt(c, r) \in Nat /\ RegionEnd(c, r) \in Nat
      /\ RegionAt(c, q) \in Nat /\ RegionEnd(c, q) \in Nat
  BY RegionIs
<1>4. e.offset \in Nat /\ EndOf(e) \in Nat
  BY EditTypes DEF PlanIn, EditSet
<1> QED
  BY <1>1, <1>2, <1>3, <1>4

\* A region no edit lies in keeps its text.
LEMMA RegionUntouched ==
    ASSUME NEW im, NEW c, InContext(im, c), NEW S, PlanIn(c, S),
           NEW r \in ModuleRefs(c.bun) \cup {ArgvRef},
           r \in Regions(c) =>
              \A e \in S : ~(RegionAt(c, r) <= e.offset /\ EndOf(e) <= RegionEnd(c, r))
    PROVE  RangeText(S, im, RegionAt(c, r), RegionEnd(c, r)) = Text(im, c, r)
<1> DEFINE a == RegionAt(c, r)
           z == RegionEnd(c, r)
           len == c.sp[r].length
<1>1. a \in Int /\ z = a + len /\ len \in Nat
  BY RegionTypes DEF RegionEnd
<1>2. im \in Seq(Int)
  BY DEF InContext
<1>3. Text(im, c, r) = Cells(im, a, len)
  BY DEF Text, RegionAt
<1>4. CASE len = 0
  <2> HIDE DEF a, z, len
  <2>1. z = a
    BY <1>1, <1>4
  <2>2. RangeText(S, im, a, a) = <<>> /\ Cells(im, a, 0) = <<>>
    BY <1>1, <1>2, NoText
  <2> QED
    BY <1>3, <1>4, <2>1, <2>2 DEF a, z
<1>5. CASE len # 0
  <2>1. r \in Regions(c)
    BY <1>1, <1>5 DEF Regions
  <2>2. a \in Nat /\ z \in Nat /\ a < z /\ z <= Len(im)
    BY <2>1, RegionIs
  <2>3. \A e \in S : EndOf(e) <= a \/ z <= e.offset
    BY <2>1, EditsBeside
  <2>4. S \subseteq Edit
    BY DEF PlanIn, EditSet
  <2> HIDE DEF a, z, len
  <2>5. RangeText(S, im, a, z) = Cells(im, a, z - a)
    BY <1>2, <2>2, <2>3, <2>4, RangeUntouched
  <2>6. z - a = len
    BY <1>1
  <2> QED
    BY <1>3, <2>5, <2>6 DEF a, z
<1> QED
  BY <1>4, <1>5

LEMMA EditedAreTouched ==
    ASSUME InContext(image, ctx), PlanIn(ctx, InPlan),
           NEW s \in Seq(Int), SettledIn(s, InPlan, image),
           NEW r \in ModuleRefs(ctx.bun), Rewritten(r) # Text(image, ctx, r)
    PROVE  r.index \in TouchedModules
<1>1. RangeText(InPlan, image, RegionAt(ctx, r), RegionEnd(ctx, r)) # Text(image, ctx, r)
  BY RewrittenIs
<1>2. PICK e \in InPlan : /\ r \in Regions(ctx)
                          /\ RegionAt(ctx, r) <= e.offset /\ EndOf(e) <= RegionEnd(ctx, r)
  BY <1>1, RegionUntouched
<1>3. r.kind = "module"
  BY RefIs
<1> QED
  BY <1>2, <1>3, TouchedAreModules

\* The sum over two sets with nothing in common.
LEMMA SumUnion ==
    ASSUME NEW S, EditSet(S), NEW T, EditSet(T), S \cap T = {}
    PROVE  EditSet(S \cup T) /\ DeltaSum(S \cup T) = DeltaSum(S) + DeltaSum(T)
<1> DEFINE Adds(U) == EditSet(S \cup U) /\ DeltaSum(S \cup U) = DeltaSum(S) + DeltaSum(U)
           G == {U \in SUBSET T : Adds(U)}
<1>1. {} \in G
  <2>1. S \cup {} = S /\ DeltaSum(S) = DeltaSum(S) + 0
    BY EditSum
  <2> QED
    BY <2>1, SumNone
<1>2. ASSUME NEW U \in G, NEW e \in T \ U
      PROVE  U \cup {e} \in G
  <2>1. EditSet(U) /\ e \in Edit /\ e \notin S \cup U
    BY <1>2, EditSetPart DEF EditSet
  <2>2. EditSet(S \cup U) /\ DeltaSum(S \cup U) = DeltaSum(S) + DeltaSum(U)
    BY <1>2
  <2>3. /\ EditSet((S \cup U) \cup {e})
        /\ DeltaSum((S \cup U) \cup {e}) = DeltaSum(S \cup U) + Delta(e)
    BY <2>1, <2>2, SumOneMore
  <2>4. DeltaSum(U \cup {e}) = DeltaSum(U) + Delta(e)
    BY <2>1, SumOneMore
  <2>5. (S \cup U) \cup {e} = S \cup (U \cup {e})
    OBVIOUS
  <2>6. DeltaSum(S) \in Int /\ DeltaSum(U) \in Int /\ Delta(e) \in Int
    BY <2>1, EditSum, EditTypes
  <2> DEFINE v == DeltaSum(S \cup (U \cup {e}))
             w == DeltaSum(U \cup {e})
             p == DeltaSum(S \cup U)
             q == DeltaSum(S)
             u == DeltaSum(U)
             d == Delta(e)
  <2>7. v = q + w
    <3>1. v = p + d /\ p = q + u /\ w = u + d /\ q \in Int /\ u \in Int /\ d \in Int
      BY <2>2, <2>3, <2>4, <2>5, <2>6
    <3> HIDE DEF v, w, p, q, u, d
    <3> QED
      BY <3>1
  <2> QED
    BY <2>3, <2>5, <2>7
<1>3. T \in G
  <2>1. G \in SUBSET (SUBSET T) /\ IsFiniteSet(T)
    BY DEF EditSet
  <2> HIDE DEF G
  <2> QED
    BY <1>1, <1>2, <2>1, SetInduction
<1> QED
  BY <1>3

\* Growable edits declare the region they lie in, and it is not the argv text.
Declared(c, S) ==
    \A e \in S : Growable(e) =>
        /\ EditWithinRegion(c, e)
        /\ \E r \in Regions(c) : Within(c, e, r) /\ r # ArgvRef

LEMMA PlanDeclared ==
    ASSUME OrderInv, ContextInv, Accepted
    PROVE  Declared(ctx, InPlan)
<1> SUFFICES ASSUME NEW k \in 1..N, Growable(edits[k])
             PROVE  /\ EditWithinRegion(ctx, edits[k])
                    /\ \E r \in Regions(ctx) : Within(ctx, edits[k], r) /\ r # ArgvRef
  BY DEF Declared, InPlan
<1> DEFINE e == edits[k]
<1>1. RegionAccepted(ctx, e)
  BY DEF ContextInv, Accepted
<1>2. Anchored(ctx, e)
  BY <1>1 DEF ContextInv
<1> HIDE DEF e
<1>3. PICK r \in Regions(ctx) : /\ RegionAt(ctx, r) <= e.offset /\ EndOf(e) <= RegionEnd(ctx, r)
                                /\ r = ArgvRef /\ Growable(e) => IsFramingOffset(ctx, e.offset)
  BY <1>2 DEF Anchored, Within
<1>4. EditWithinRegion(ctx, e) /\ ~IsFramingOffset(ctx, e.offset)
  BY <1>1 DEF RegionAccepted, e
<1> QED
  BY <1>3, <1>4 DEF Within, e

LEMMA OneRegion ==
    ASSUME NEW im, NEW c, InContext(im, c), NEW S, PlanIn(c, S), NEW e \in S,
           NEW r \in Regions(c), NEW q \in Regions(c), Within(c, e, r), Within(c, e, q)
    PROVE  r = q
<1>1. ContainingStringPointer(c, e.offset) = r /\ ContainingStringPointer(c, e.offset) = q
  BY EditRegion DEF Within
<1> QED
  BY <1>1

LEMMA DeclaredRegion ==
    ASSUME NEW im, NEW c, InContext(im, c), NEW S, PlanIn(c, S), Declared(c, S),
           NEW e \in S, Growable(e), NEW r \in ModuleRefs(c.bun) \cup {ArgvRef}
    PROVE  /\ e.region = r <=> r \in Regions(c) /\ Within(c, e, r)
           /\ r # ArgvRef \/ e.region # r
<1>1. PICK q \in Regions(c) : Within(c, e, q) /\ q # ArgvRef
  BY DEF Declared
<1>2. EditWithinRegion(c, e)
  BY DEF Declared
<1> DEFINE g == e.region
           start == c.bun.payload_start
           sp == c.sp[g]
<1>3. g \in DOMAIN c.sp /\ sp.length # 0 /\ c.sp = SpIndex(c.bun)
  BY <1>2, ContextIs DEF EditWithinRegion
<1>4. g \in ModuleRefs(c.bun) \cup {ModulesRef, ArgvRef}
  BY <1>3, SpIs
<1>5. start \in Int /\ e.offset \in Int /\ Len(e.old) \in Int /\ EndOf(e) = e.offset + Len(e.old)
  <2>1. ReadFrom(im, c.bun)
    BY ContextIs
  <2>2. e \in Edit
    BY DEF PlanIn, EditSet
  <2>3. c.bun.bun_offset \in Nat /\ start = c.bun.bun_offset + 1
    BY <2>1 DEF ReadFrom
  <2>4. start \in Int
    BY <2>3
  <2>5. e.offset \in Nat /\ Len(e.old) \in Nat /\ EndOf(e) = e.offset + Len(e.old)
    BY <2>2, EditTypes
  <2> QED
    BY <2>4, <2>5
<1>6. sp.offset <= e.offset - start /\ e.offset - start + Len(e.old) <= sp.offset + sp.length
  BY <1>2 DEF EditWithinRegion
<1>7. g # ModulesRef
  <2> SUFFICES ASSUME g = ModulesRef PROVE FALSE
    OBVIOUS
  <2>1. sp = c.bun.modules_ptr
    BY <1>3, SpIs
  <2>2. sp.offset \in Int
    BY <2>1, ContextIs DEF ReadFrom
  <2>3. TableAt(c) = start + sp.offset
    BY <2>1 DEF TableAt
  <2>4. EndOf(e) <= TableAt(c) /\ Len(e.old) > 0
    BY DEF PlanIn
  <2> DEFINE x == sp.offset
             n == Len(e.old)
             o == e.offset
             z == EndOf(e)
             table == TableAt(c)
  <2>5. x <= o - start /\ z = o + n /\ z <= table /\ table = start + x /\ n > 0
    BY <1>5, <1>6, <2>3, <2>4
  <2>6. x \in Int /\ n \in Int /\ o \in Int /\ start \in Int
    BY <1>5, <2>2
  <2> HIDE DEF x, n, o, z, table, start
  <2> QED
    BY <2>5, <2>6
<1>8. g \in Regions(c) /\ Within(c, e, g)
  <2>1. g \in ModuleRefs(c.bun) \cup {ArgvRef}
    BY <1>4, <1>7
  <2>2. sp.offset \in Int /\ sp.length \in Nat
    BY <2>1, RegionTypes
  <2>3. g \in Regions(c)
    BY <1>3, <2>1, <2>2 DEF Regions
  <2> DEFINE x == sp.offset
             len == sp.length
             n == Len(e.old)
             o == e.offset
             z == EndOf(e)
  <2>4. /\ x <= o - start /\ o - start + n <= x + len /\ z = o + n
        /\ x \in Int /\ len \in Int /\ n \in Int /\ o \in Int /\ start \in Int
    BY <1>5, <1>6, <2>2
  <2>5. RegionAt(c, g) = start + x /\ RegionEnd(c, g) = (start + x) + len
    BY DEF RegionAt, RegionEnd
  <2> HIDE DEF x, len, n, o, z, start
  <2>6. start + x <= o /\ z <= (start + x) + len
    BY <2>4
  <2> QED
    BY <2>3, <2>5, <2>6 DEF Within, o, z
<1>9. g = q
  BY <1>1, <1>8, OneRegion
<1> HIDE DEF g
<1>10. r \in Regions(c) /\ Within(c, e, r) => g = r
  BY <1>8, OneRegion
<1> QED
  BY <1>1, <1>8, <1>9, <1>10 DEF g

\* A region grows by the edits that lie in it.
LEMMA RegionGrows ==
    ASSUME NEW im, NEW c, InContext(im, c), NEW S, PlanIn(c, S), Declared(c, S),
           NEW r \in Regions(c)
    PROVE  /\ \A e \in S : ~Inside(e, RegionAt(c, r)) /\ ~Inside(e, RegionEnd(c, r))
           /\ Past(S, RegionEnd(c, r)) =
                 Past(S, RegionAt(c, r)) + DeltaSum({e \in S : Growable(e) /\ e.region = r})
<1> DEFINE a == RegionAt(c, r)
           z == RegionEnd(c, r)
           In == {e \in S : Within(c, e, r)}
           G == {e \in S : Growable(e) /\ e.region = r}
           A == {e \in S : EndOf(e) <= a}
           Z == {e \in S : EndOf(e) <= z}
<1>1. r \in ModuleRefs(c.bun) \cup {ArgvRef} /\ a \in Nat /\ z \in Nat /\ a < z
  BY RegionIs
<1>2. EditSet(S) /\ PlanSet(S)
  BY DEF PlanIn, PlanSet
<1>3. \A e \in S : e.offset \in Nat /\ EndOf(e) \in Nat /\ e.offset < EndOf(e)
  BY <1>2, PlanEdit
<1>4. \A e \in S : \/ a <= e.offset /\ EndOf(e) <= z
                   \/ EndOf(e) <= a
                   \/ z <= e.offset
  BY EditsBeside
<1> HIDE DEF a, z
<1>5. \A e \in S : ~Inside(e, a) /\ ~Inside(e, z)
  BY <1>1, <1>3, <1>4 DEF Inside
<1>6. Z = A \cup In /\ A \cap In = {} /\ EditSet(A) /\ EditSet(In)
  <2>1. \A e \in S : Within(c, e, r) <=> a <= e.offset /\ EndOf(e) <= z
    BY DEF Within, a, z
  <2>2. \A e \in S : /\ EndOf(e) <= z <=> EndOf(e) <= a \/ Within(c, e, r)
                     /\ ~(EndOf(e) <= a /\ Within(c, e, r))
    BY <1>1, <1>3, <1>4, <2>1
  <2>3. A \subseteq S /\ In \subseteq S
    OBVIOUS
  <2> QED
    BY <1>2, <2>2, <2>3, EditSetPart
<1>7. DeltaSum(Z) = DeltaSum(A) + DeltaSum(In)
  BY <1>6, SumUnion
<1>8. G \subseteq In /\ \A e \in In \ G : ~Growable(e)
  BY <1>1, DeclaredRegion
<1>9. DeltaSum(In) = DeltaSum(G)
  BY <1>6, <1>8, SumGrowables
<1>10. Past(S, a) = DeltaSum(A) /\ Past(S, z) = DeltaSum(Z)
  BY DEF Past
<1> QED
  BY <1>5, <1>7, <1>9, <1>10 DEF a, z

\* Regions without text stay without.
LEMMA EmptyStays ==
    ASSUME NEW im, NEW c, InContext(im, c), NEW S, PlanIn(c, S), Declared(c, S),
           NEW r \in ModuleRefs(c.bun) \cup {ArgvRef}, c.sp[r].length = 0
    PROVE  NewLength(c, S, r) = 0 /\ NewOffset(c, S, c.sp[r]) = c.sp[r].offset
<1>1. r \notin Regions(c)
  BY DEF Regions
<1>2. {e \in S : Growable(e) /\ e.region = r} = {}
  BY <1>1, DeclaredRegion
<1>3. NewLength(c, S, r) = 0 + 0
  BY <1>2, SumNone DEF NewLength
<1> QED
  BY <1>3 DEF NewOffset

\* Where the output has the text of a region, and how long it is there.
LEMMA RegionMoves ==
    ASSUME NEW im, NEW c, InContext(im, c), NEW S, PlanIn(c, S), Declared(c, S),
           NEW r \in Regions(c)
    PROVE  LET x == RegionAt(c, r) + Past(S, RegionAt(c, r))
               y == RegionEnd(c, r) + Past(S, RegionEnd(c, r))
           IN /\ c.bun.payload_start + NewOffset(c, S, c.sp[r]) = x
              /\ NewLength(c, S, r) = y - x
<1> DEFINE a == RegionAt(c, r)
           z == RegionEnd(c, r)
           start == c.bun.payload_start
           off == c.sp[r].offset
           len == c.sp[r].length
           pa == Past(S, a)
           pz == Past(S, z)
           D == DeltaSum({e \in S : Growable(e) /\ e.region = r})
<1>1. r \in ModuleRefs(c.bun) \cup {ArgvRef} /\ z - a = len
  BY RegionIs
<1>2. off \in Int /\ len \in Nat /\ len # 0 /\ a \in Nat /\ z \in Nat
  BY <1>1, RegionTypes, RegionIs DEF Regions
<1>3. start \in Int /\ a = start + off
  <2>1. c.bun.bun_offset \in Nat /\ start = c.bun.bun_offset + 1
    BY ContextIs DEF ReadFrom
  <2> QED
    BY <2>1 DEF RegionAt
<1>4. pz = pa + D
  BY RegionGrows
<1>5. pa \in Int /\ D \in Int
  <2>1. EditSet(S)
    BY DEF PlanIn
  <2>2. EditSet({e \in S : Growable(e) /\ e.region = r})
    BY <2>1, EditSetPart
  <2> QED
    BY <2>1, <2>2, PastType, EditSum
<1>6. NewLength(c, S, r) = len + D
  BY DEF NewLength
<1>7. off + start = a
  <2> HIDE DEF a, off, start
  <2> QED
    BY <1>2, <1>3
<1>8. NewOffset(c, S, c.sp[r]) = off + pa
  BY <1>2, <1>7 DEF NewOffset
<1> DEFINE u == NewOffset(c, S, c.sp[r])
           v == NewLength(c, S, r)
<1> HIDE DEF a, z, start, off, len, pa, pz, D, u, v
<1>9. start + u = a + pa /\ v = (z + pz) - (a + pa)
  BY <1>1, <1>2, <1>3, <1>4, <1>5, <1>6, <1>8 DEF u, v
<1> QED
  BY <1>9 DEF a, z, start, pa, pz, u, v

\* What is behind the modules table and in no pointer or framing has moved.
LEMMA CellsMoved ==
    ASSUME NEW im, NEW c, InContext(im, c), NEW S, PlanIn(c, S), NEW M,
           NEW b, ReadBack(b, im, c, S, M),
           NEW a \in Int, NEW z \in Int, a <= z,
           TableAt(c) + c.bun.modules_ptr.length <= a, z <= c.bun.offsets_struct_offset
    PROVE  Cells(b, a + DeltaSum(S), z - a) = Cells(im, a, z - a)
<1> DEFINE L == Len(im)
           t == DeltaSum(S)
           off == c.bun.bun_offset
           size == c.bun.bun_size
           start == c.bun.payload_start
           table == TableAt(c)
           len == c.bun.modules_ptr.length
           at == c.bun.offsets_struct_offset
           n == z - a
           B == Len(b)
<1>1. Frame(L, t, off, size, start, table, len, at)
  BY BoundsAre DEF Bounds
<1>2. PICK p : PayloadDone(p, im, c, S, M) /\ b \in Seq(Int) /\ SamePayload(b, p, c, t)
  BY DEF ReadBack
<1>3. /\ off + size + t <= B
      /\ \A o \in off .. off + size + t - 1 : Cell(b, o) = Cell(p, o)
  BY <1>2 DEF SamePayload
<1>4. \A o \in table .. L - 1 : ~InFraming(c, o) /\ ~InPointers(c, o) => Cell(p, o + t) = Cell(im, o)
  BY <1>2 DEF PayloadDone, Kept
<1>5. im \in Seq(Int) /\ B \in Nat
  BY <1>2, LenProperties DEF InContext
<1>6. ASSUME NEW o \in Int, table + len <= o, o < at PROVE ~InFraming(c, o) /\ ~InPointers(c, o)
  <2>1. \A r \in ModuleRefs(c.bun) : SlotAt(c, r) \in Nat /\ SlotAt(c, r) + 2 <= table + len
    BY SlotIs
  <2>2. table + len \in Int /\ at \in Int
    <3> HIDE DEF L, t, off, size, start, table, len, at
    <3> QED
      BY <1>1 DEF Frame
  <2>3. ~InFraming(c, o)
    <3>1. ~(at <= o)
      <4> HIDE DEF at
      <4> QED
        BY <1>6, <2>2
    <3> QED
      BY <3>1 DEF InFraming
  <2> DEFINE top == table + len
  <2>4. ASSUME NEW r \in ModuleRefs(c.bun), o = SlotAt(c, r) \/ o = SlotAt(c, r) + 1 PROVE FALSE
    <3> DEFINE x == SlotAt(c, r)
    <3>1. x \in Nat /\ x + 2 <= top
      BY <2>1
    <3>2. o = x \/ o = x + 1
      BY <2>4
    <3>3. top <= o /\ top \in Int
      BY <1>6, <2>2
    <3> HIDE DEF x, top
    <3> QED
      BY <3>1, <3>2, <3>3
  <2> QED
    BY <2>3, <2>4 DEF InPointers
<1> HIDE DEF L, t, off, size, start, table, len, at, B
<1>7. /\ L \in Nat /\ t \in Int /\ off \in Nat /\ at \in Nat /\ table \in Nat /\ len \in Nat
      /\ off <= table /\ off <= table + t /\ at + 8 = off + size /\ at + 8 <= L
      /\ size \in Nat
  BY <1>1 DEF Frame
<1>8. n \in Nat /\ a \in Nat /\ z \in Nat /\ table + len <= a /\ z <= at /\ a + n = z
  BY <1>7 DEF table, len, at
<1>9. a + t \in Nat /\ a + t + n <= B
  BY <1>3, <1>5, <1>7, <1>8
<1> HIDE DEF n
<1>10. /\ Cells(b, a + t, n) \in Seq(Int) /\ Len(Cells(b, a + t, n)) = n
       /\ \A j \in 1..n : Cells(b, a + t, n)[j] = b[a + t + j]
  <2> DEFINE u == a + t
  <2>1. u \in Nat /\ u + n <= B
    BY <1>9
  <2> HIDE DEF u
  <2>2. /\ Cells(b, u, n) \in Seq(Int) /\ Len(Cells(b, u, n)) = n
        /\ \A j \in 1..n : Cells(b, u, n)[j] = b[u + j]
    BY <1>2, <1>8, <2>1, CellsOf DEF B
  <2> QED
    BY <2>2 DEF u
<1>11. /\ Cells(im, a, n) \in Seq(Int) /\ Len(Cells(im, a, n)) = n
       /\ \A j \in 1..n : Cells(im, a, n)[j] = im[a + j]
  <2>1. a + n <= L
    BY <1>7, <1>8
  <2> QED
    BY <1>5, <1>8, <2>1, CellsOf DEF L
<1>12. \A j \in 1..n : b[a + t + j] = im[a + j]
  <2> TAKE j \in 1..n
  <2> DEFINE o == a + j - 1
  <2>1. /\ o \in table .. L - 1 /\ table + len <= o /\ o < at /\ o \in Int
        /\ o + t \in off .. off + size + t - 1 /\ o + t + 1 = a + t + j /\ o + 1 = a + j
    BY <1>7, <1>8
  <2>2. ~InFraming(c, o) /\ ~InPointers(c, o)
    <3> HIDE DEF o
    <3> QED
      BY <1>6, <2>1
  <2>3. Cell(p, o + t) = Cell(im, o) /\ Cell(b, o + t) = Cell(p, o + t)
    BY <1>3, <1>4, <2>1, <2>2
  <2> HIDE DEF o
  <2>4. b[o + t + 1] = im[o + 1]
    BY <2>3 DEF Cell
  <2> QED
    BY <2>1, <2>4
<1>13. Cells(b, a + t, n) = Cells(im, a, n)
  <2> DEFINE r == Cells(b, a + t, n)
             s == Cells(im, a, n)
  <2>1. \A j \in 1..n : r[j] = s[j]
    BY <1>10, <1>11, <1>12
  <2>2. r \in Seq(Int) /\ s \in Seq(Int) /\ Len(r) = n /\ Len(s) = n
    BY <1>10, <1>11
  <2> HIDE DEF r, s
  <2>3. r = s
    BY <1>8, <2>1, <2>2, SameSequence
  <2> QED
    BY <2>3 DEF r, s
<1> QED
  BY <1>13 DEF t, n

\* The pointers of the output, where apply has not emptied them.
LEMMA PointerIs ==
    ASSUME NEW im, NEW c, InContext(im, c), NEW S, PlanIn(c, S), Declared(c, S), NEW M,
           NEW b, ReadBack(b, im, c, S, M), NEW r \in ModuleRefs(c.bun) \cup {ArgvRef},
           ~(r.field = "bytecode" /\ r.index \in M)
    PROVE  /\ Parse(b).sp[r].offset = NewOffset(c, S, c.sp[r])
           /\ Parse(b).sp[r].length = NewLength(c, S, r)
           /\ Parse(b).bun.payload_start = c.bun.payload_start
<1>1. Parse(b).bun.payload_start = c.bun.payload_start
  BY DEF ReadBack, Rebuilt
<1>2. CASE r \in ModuleRefs(c.bun)
  <2>1. Parse(b).sp[r] = [offset |-> NewOffset(c, S, c.sp[r]), length |-> NewLength(c, S, r)]
    BY <1>2, PointersRead DEF NewPointer
  <2> QED
    BY <1>1, <2>1
<1>3. CASE r = ArgvRef
  <2> DEFINE sp == Parse(b).sp[ArgvRef]
             argv == c.bun.compile_exec_argv_ptr
  <2>1. sp = [offset |-> NewOffset(c, S, argv), length |-> argv.length] /\ c.sp[r] = argv
    <3> DEFINE new == Parse(b).bun
    <3>1. sp = new.compile_exec_argv_ptr /\ c.sp[r] = argv
      BY <1>3, PointersRead
    <3>2. Rebuilt(new, c, S, M)
      BY DEF ReadBack
    <3> HIDE DEF new
    <3>3. new.compile_exec_argv_ptr =
             [offset |-> NewOffset(c, S, argv), length |-> argv.length]
      BY <3>2 DEF Rebuilt
    <3> QED
      BY <3>1, <3>3
  <2>2. {e \in S : Growable(e) /\ e.region = r} = {}
    BY <1>3, DeclaredRegion
  <2>3. NewLength(c, S, r) = argv.length + 0
    BY <2>1, <2>2, SumNone DEF NewLength
  <2>4. argv.length \in Nat
    BY <2>1, RegionTypes
  <2> QED
    BY <1>1, <1>3, <2>1, <2>3, <2>4
<1> QED
  BY <1>2, <1>3

\* The output has of each region what its cells become.
LEMMA RegionTextIs ==
    ASSUME NEW im, NEW c, InContext(im, c), NEW S, PlanIn(c, S), Declared(c, S), NEW M,
           NEW b, ReadBack(b, im, c, S, M), NEW r \in ModuleRefs(c.bun) \cup {ArgvRef},
           ~(r.field = "bytecode" /\ r.index \in M)
    PROVE  Text(b, Parse(b), r) = RangeText(S, im, RegionAt(c, r), RegionEnd(c, r))
<1> DEFINE a == RegionAt(c, r)
           z == RegionEnd(c, r)
           start == c.bun.payload_start
           u == NewOffset(c, S, c.sp[r])
           v == NewLength(c, S, r)
           len == c.sp[r].length
<1>1. Text(b, Parse(b), r) = Cells(b, start + u, v)
  BY PointerIs DEF Text
<1>2. im \in Seq(Int) /\ EditSet(S)
  BY DEF InContext, PlanIn
<1>3. a \in Int /\ z = a + len /\ len \in Nat
  BY RegionTypes DEF RegionEnd
<1>4. start \in Int
  <2>1. c.bun.bun_offset \in Nat /\ start = c.bun.bun_offset + 1
    BY ContextIs DEF ReadFrom
  <2> QED
    BY <2>1
<1>5. CASE len = 0
  <2>1. v = 0 /\ u = c.sp[r].offset
    BY <1>5, EmptyStays
  <2>2. u \in Int
    BY <2>1, RegionTypes
  <2> HIDE DEF a, z, u, v, len, start
  <2>3. z = a /\ start + u \in Int
    BY <1>3, <1>4, <1>5, <2>2
  <2>4. RangeText(S, im, a, a) = <<>>
    BY <1>2, <1>3, NoText
  <2>5. b \in Seq(Int)
    BY DEF ReadBack
  <2>6. Cells(b, start + u, 0) = <<>>
    BY <2>3, <2>5, NoText
  <2> QED
    BY <1>1, <2>1, <2>3, <2>4, <2>6 DEF a, z
<1>6. CASE len # 0
  <2>1. r \in Regions(c)
    BY <1>3, <1>6 DEF Regions
  <2>2. /\ a \in Nat /\ z \in Nat /\ a < z /\ z <= Len(im) /\ start <= a /\ z - a = len
        /\ \/ z <= TableAt(c)
           \/ r = ArgvRef /\ TableAt(c) <= a
    BY <2>1, RegionIs
  <2> DEFINE x == a + Past(S, a)
             y == z + Past(S, z)
  <2>3. start + u = x /\ v = y - x
    BY <2>1, RegionMoves
  <2>4. CASE z <= TableAt(c)
    <3>1. \A e \in S : ~Inside(e, a) /\ ~Inside(e, z)
      BY <2>1, RegionGrows
    <3> HIDE DEF a, z, u, v, len
    <3>2. a \in Int /\ z \in Int /\ a <= z
      BY <2>2
    <3>3. RangeText(S, im, a, z) = Cells(b, x, y - x)
      BY <2>2, <2>4, <3>1, <3>2, TextWritten
    <3> QED
      BY <1>1, <2>3, <3>3 DEF a, z
  <2>5. CASE ~(z <= TableAt(c))
    <3> DEFINE t == DeltaSum(S)
               len2 == c.bun.modules_ptr.length
               table == TableAt(c)
               at == c.bun.offsets_struct_offset
    <3>1. table + len2 <= a /\ z <= at
      <4>1. WellFramed(c)
        BY ContextIs
      <4> QED
        BY <2>1, <2>5, <4>1 DEF WellFramed
    <3>2. Bounds(im, c, t)
      BY BoundsAre
    <3>3. table \in Nat /\ table <= a
      <4>1. table \in Nat
        BY <3>2 DEF Bounds, Frame
      <4> QED
        BY <2>2, <2>5, <4>1
    <3>4. Past(S, a) = t /\ Past(S, z) = t
      <4> HIDE DEF a, z
      <4>1. table <= z
        BY <2>2, <3>3
      <4> QED
        BY <2>2, <3>3, <4>1, BoundsAre
    <3>5. \A e \in S : EndOf(e) <= a \/ z <= e.offset
      <4> TAKE e \in S
      <4>1. EndOf(e) <= table /\ EndOf(e) \in Nat
        BY EditTypes DEF PlanIn, EditSet
      <4> DEFINE w == EndOf(e)
      <4> HIDE DEF a, z, table, w
      <4>2. w <= a
        BY <2>2, <3>3, <4>1 DEF w
      <4> QED
        BY <4>2 DEF w
    <3> HIDE DEF a, z, u, v, len
    <3>6. RangeText(S, im, a, z) = Cells(im, a, z - a)
      <4>1. S \subseteq Edit /\ a <= z
        BY <1>2, <2>2 DEF EditSet
      <4> QED
        BY <1>2, <2>2, <3>5, <4>1, RangeUntouched
    <3>7. Cells(b, a + t, z - a) = Cells(im, a, z - a)
      <4>1. a \in Int /\ z \in Int /\ a <= z
        BY <2>2
      <4> QED
        BY <3>1, <4>1, CellsMoved
    <3>8. y - x = z - a
      <4>1. t \in Int
        BY <1>2, EditSum
      <4> HIDE DEF t
      <4> QED
        BY <2>2, <3>4, <4>1
    <3> QED
      BY <1>1, <2>3, <3>4, <3>6, <3>7, <3>8 DEF a, z
  <2> QED
    BY <2>4, <2>5
<1> QED
  BY <1>5, <1>6

-----------------------------------------------------------------------------
(* What holds of a patched image.                                          *)

\* What holds of a run whose images and plans are as described.
AppliedInv == OrderInv /\ PlaceInv /\ ContextInv /\ PhaseInv

LEMMA AppliedAlways ==
    ASSUME Described
    PROVE  Spec => []AppliedInv
<1>1. Init => AppliedInv
  BY OrderInit, PlaceInit, ContextInit, PhaseInit DEF AppliedInv
<1>2. AppliedInv /\ [Next]_vars => AppliedInv'
  BY OrderStep, PlaceStep, ContextStep, PhaseStep DEF AppliedInv
<1> QED
  BY <1>1, <1>2, PTL DEF Spec

\* The patched image can be read back.
LEMMA PatchedIsReadBack ==
    ASSUME AppliedInv, Patched
    PROVE  /\ InContext(image, ctx) /\ PlanIn(ctx, InPlan)
           /\ ReadBack(buf, image, ctx, InPlan, TouchedModules)
           /\ \E s \in Seq(Int) : SettledIn(s, InPlan, image)
<1>1. Accepted /\ OrderInv /\ ContextInv
  BY DEF AppliedInv, Patched, Accepted
<1>2. InContext(image, ctx) /\ PlanIn(ctx, InPlan)
  BY <1>1, PlanIsIn
<1>3. PICK p : /\ PayloadDone(p, image, ctx, InPlan, TouchedModules)
               /\ ContainerDone(buf, p, ctx, InPlan)
  BY DEF AppliedInv, Patched, PhaseInv
<1>4. ReadBack(buf, image, ctx, InPlan, TouchedModules)
  BY <1>2, <1>3, DoneIsReadBack
<1>5. \E s \in Seq(Int) : SettledIn(s, InPlan, image)
  BY <1>3 DEF PayloadDone, Kept, TextsAre
<1> QED
  BY <1>2, <1>4, <1>5

\* Bun can never run the bytecode of a module whose text apply has changed
\* (_invalidate_bytecode, context.py:204-223): for every image bun and a linker
\* lay out and every plan of edits in its texts, the bytecode pointer read back
\* from the output is the one of a module without a cache.
THEOREM NoStaleBytecode ==
    ASSUME Described
    PROVE  Spec => []BytecodeFresh
<1>1. AppliedInv => BytecodeFresh
  <2> SUFFICES ASSUME AppliedInv, Patched, NEW m \in EditedModules
               PROVE  Parse(buf).sp[ModuleRef(m, "bytecode")] = NoPtr
    BY DEF BytecodeFresh
  <2>1. /\ InContext(image, ctx) /\ PlanIn(ctx, InPlan)
        /\ ReadBack(buf, image, ctx, InPlan, TouchedModules)
        /\ \E s \in Seq(Int) : SettledIn(s, InPlan, image)
    BY PatchedIsReadBack
  <2>2. PICK r \in ModuleRefs(ctx.bun) : r.index = m /\ Rewritten(r) # Text(image, ctx, r)
    BY DEF EditedModules, SourceRefs
  <2>3. m \in TouchedModules
    BY <2>1, <2>2, EditedAreTouched
  <2> DEFINE q == ModuleRef(m, "bytecode")
  <2>4. q \in ModuleRefs(ctx.bun) /\ q.field = "bytecode" /\ q.index = m
    BY <2>2, RefIs, BytecodeIsField DEF ModuleRefs, ModuleRef
  <2>5. NewPointer(ctx, InPlan, TouchedModules, q) = NoPtr
    BY <2>3, <2>4 DEF NewPointer
  <2> QED
    BY <2>1, <2>4, <2>5, PointersRead
<1> QED
  BY <1>1, AppliedAlways, PTL

\* The modules whose bytecode apply drops are those an edit lies in.
LEMMA TouchedHaveEdits ==
    ASSUME NEW im, InContext(im, ctx), PlanIn(ctx, InPlan)
    PROVE  TouchedModules \subseteq ModulesWithEdits
<1> SUFFICES ASSUME NEW k \in 1..N,
                    ContainingStringPointer(ctx, edits[k].offset).kind = "module"
             PROVE  ContainingStringPointer(ctx, edits[k].offset).index \in ModulesWithEdits
  BY DEF TouchedModules
<1> DEFINE e == edits[k]
           r == ContainingStringPointer(ctx, e.offset)
<1>1. e \in InPlan /\ e \in PlanEdits
  BY DEF InPlan, PlanEdits
<1>2. PICK q \in Regions(ctx) : RegionAt(ctx, q) <= e.offset /\ EndOf(e) <= RegionEnd(ctx, q)
  BY <1>1 DEF PlanIn
<1>3. r = q
  BY <1>1, <1>2, EditRegion
<1>4. q \in ModuleRefs(ctx.bun)
  <2>1. q.kind = "module"
    BY <1>3
  <2>2. ArgvRef.kind # "module"
    BY DEF ArgvRef
  <2> QED
    BY <2>1, <2>2 DEF Regions
<1> HIDE DEF e
<1>5. q.index \in ModulesWithEdits
  BY <1>1, <1>2, <1>4 DEF ModulesWithEdits, Within
<1> QED
  BY <1>3, <1>5 DEF e

\* The regions of the output hold what the property asks for.
LEMMA TextsRewritten ==
    ASSUME AppliedInv, Patched, NEW r \in ModuleRefs(ctx.bun) \cup {ArgvRef},
           ~(r.field = "bytecode" /\ r.index \in TouchedModules)
    PROVE  Text(buf, Parse(buf), r) = Rewritten(r)
<1>1. /\ InContext(image, ctx) /\ PlanIn(ctx, InPlan)
      /\ ReadBack(buf, image, ctx, InPlan, TouchedModules)
      /\ \E s \in Seq(Int) : SettledIn(s, InPlan, image)
  BY PatchedIsReadBack
<1>2. Declared(ctx, InPlan)
  BY PlanDeclared DEF AppliedInv, Patched, Accepted
<1>3. Text(buf, Parse(buf), r) =
         RangeText(InPlan, image, RegionAt(ctx, r), RegionEnd(ctx, r))
  BY <1>1, <1>2, RegionTextIs
<1> QED
  BY <1>1, <1>3, RewrittenIs

\* _rewrite_string_pointers leaves every pointer on exactly its text, with the
\* plan's edits made (context.py:225-255), for every described image and plan:
\* no text is cut short, and none reads into its neighbour.
THEOREM PointersNameTheirTexts ==
    ASSUME Described
    PROVE  Spec => []RegionTexts
<1>1. AppliedInv => RegionTexts
  <2> SUFFICES ASSUME AppliedInv, Patched
               PROVE  /\ Parses(buf)
                      /\ \A r \in ModuleRefs(ctx.bun) :
                            \/ r.field = "bytecode" /\ r.index \in ModulesWithEdits
                            \/ Text(buf, Parse(buf), r) = Rewritten(r)
    BY DEF RegionTexts
  <2>1. /\ InContext(image, ctx) /\ PlanIn(ctx, InPlan)
        /\ ReadBack(buf, image, ctx, InPlan, TouchedModules)
    BY PatchedIsReadBack
  <2>2. Parses(buf)
    BY <2>1 DEF ReadBack
  <2>3. TouchedModules \subseteq ModulesWithEdits
    BY <2>1, TouchedHaveEdits
  <2> QED
    BY <2>2, <2>3, TextsRewritten
<1> QED
  BY <1>1, AppliedAlways, PTL

\* What the cells in front of the modules table have become.
LEMMA PayloadText ==
    ASSUME NEW im, NEW c, InContext(im, c), NEW S, PlanIn(c, S), NEW M,
           NEW b, ReadBack(b, im, c, S, M)
    PROVE  Cells(b, Parse(b).bun.payload_start, Parse(b).bun.modules_ptr.offset) =
              FlattenSeq([n \in 1..c.bun.modules_ptr.offset |->
                             After(S, im, c.bun.payload_start + n - 1)])
<1> DEFINE start == c.bun.payload_start
           mods == c.bun.modules_ptr.offset
           table == TableAt(c)
           t == DeltaSum(S)
           new == Parse(b).bun
<1>1. new.payload_start = start /\ new.modules_ptr.offset = mods + t
  BY DEF ReadBack, Rebuilt
<1>2. Bounds(im, c, t)
  BY BoundsAre
<1>3. start \in Nat /\ table \in Nat /\ start <= table /\ t \in Int
  <2>1. c.bun.bun_offset \in Nat /\ start = c.bun.bun_offset + 1
    BY <1>2 DEF Bounds, Frame
  <2>2. table \in Nat /\ start <= table /\ t \in Int
    BY <1>2 DEF Bounds, Frame
  <2> QED
    BY <2>1, <2>2
<1>4. Past(S, start) = 0 /\ Past(S, table) = t
  <2>1. start \in Int /\ table \in Int /\ start <= start /\ table <= table
    BY <1>3
  <2> QED
    BY <2>1, BoundsAre
<1>5. mods \in Int /\ table = start + mods
  <2>1. mods \in Int
    BY ContextIs DEF ReadFrom
  <2> QED
    BY <2>1 DEF TableAt
<1>6. \A e \in S : ~Inside(e, start) /\ ~Inside(e, table)
  <2> TAKE e \in S
  <2>1. e.offset \in Nat /\ EndOf(e) \in Nat /\ start <= e.offset /\ EndOf(e) <= table
    BY PlanEdit DEF PlanIn, PlanSet
  <2> DEFINE o == e.offset
             z == EndOf(e)
  <2>2. ~(o < start) /\ ~(table < z)
    <3> HIDE DEF o, z, start, table
    <3> QED
      BY <1>3, <2>1 DEF o, z
  <2> QED
    BY <2>2 DEF Inside
<1> HIDE DEF start, table, t, mods
<1>7. /\ start + Past(S, start) = start /\ table + Past(S, table) = table + t
      /\ (table + t) - start = mods + t /\ table - start = mods
      /\ start \in Int /\ table \in Int /\ start <= start /\ table <= table
  BY <1>3, <1>4, <1>5
<1>8. RangeText(S, im, start, table) = Cells(b, start, mods + t)
  <2>1. RangeText(S, im, start, table) =
           Cells(b, start + Past(S, start), (table + Past(S, table)) - (start + Past(S, start)))
    BY <1>3, <1>6, <1>7, TextWritten DEF start, table
  <2> QED
    BY <1>7, <2>1
<1>9. RangeText(S, im, start, table) =
         FlattenSeq([n \in 1..mods |-> After(S, im, start + n - 1)])
  BY <1>7 DEF RangeText
<1> QED
  BY <1>1, <1>8, <1>9 DEF start, mods

\* _rewrite_bun_framing leaves a payload Bun reads as the same modules in the
\* same encodings, with the same entry point, flags and argv text, and every
\* byte in front of the modules table is the input's or an edit's
\* (context.py:257-288), for every described image and plan.
THEOREM FramingStaysIntact ==
    ASSUME Described
    PROVE  Spec => []FramingIntact
<1>1. AppliedInv => FramingIntact
  <2> SUFFICES ASSUME AppliedInv, Patched PROVE FramingIntact
    BY DEF FramingIntact
  <2>1. /\ InContext(image, ctx) /\ PlanIn(ctx, InPlan)
        /\ ReadBack(buf, image, ctx, InPlan, TouchedModules)
    BY PatchedIsReadBack
  <2> DEFINE out == Parse(buf)
  <2>2. Parses(buf) /\ Rebuilt(out.bun, ctx, InPlan, TouchedModules)
    BY <2>1 DEF ReadBack
  <2>3. /\ DOMAIN out.bun.modules = DOMAIN ctx.bun.modules
        /\ \A m \in DOMAIN ctx.bun.modules :
              out.bun.modules[m].encoding = ctx.bun.modules[m].encoding
        /\ out.bun.entry_point_id = ctx.bun.entry_point_id
        /\ out.bun.flags = ctx.bun.flags
    BY <2>2 DEF Rebuilt
  <2>4. Text(buf, out, ArgvRef) = Rewritten(ArgvRef)
    <3>1. ArgvRef.field # "bytecode"
      BY DEF ArgvRef
    <3> QED
      BY <3>1, TextsRewritten
  <2>5. Cells(buf, out.bun.payload_start, out.bun.modules_ptr.offset) =
           FlattenSeq([n \in 1..ctx.bun.modules_ptr.offset |->
                          CellAfter(ctx.bun.payload_start + n - 1)])
    <3>1. Cells(buf, out.bun.payload_start, out.bun.modules_ptr.offset) =
             FlattenSeq([n \in 1..ctx.bun.modules_ptr.offset |->
                            After(InPlan, image, ctx.bun.payload_start + n - 1)])
      BY <2>1, PayloadText
    <3>2. \A o : CellAfter(o) = After(InPlan, image, o)
      BY <2>1, InsertedNone
    <3> HIDE DEF out
    <3> QED
      BY <3>1, <3>2
  <2> HIDE DEF out
  <2>6. FramingIntact <=>
           (Patched =>
              /\ Parses(buf)
              /\ DOMAIN out.bun.modules = DOMAIN ctx.bun.modules
              /\ \A m \in DOMAIN ctx.bun.modules :
                    out.bun.modules[m].encoding = ctx.bun.modules[m].encoding
              /\ out.bun.entry_point_id = ctx.bun.entry_point_id
              /\ out.bun.flags = ctx.bun.flags
              /\ Text(buf, out, ArgvRef) = Rewritten(ArgvRef)
              /\ Cells(buf, out.bun.payload_start, out.bun.modules_ptr.offset) =
                    FlattenSeq([n \in 1..ctx.bun.modules_ptr.offset |->
                                   CellAfter(ctx.bun.payload_start + n - 1)]))
    BY Zenon DEF FramingIntact, out
  <2> QED
    BY <2>2, <2>3, <2>4, <2>5, <2>6
<1> QED
  BY <1>1, AppliedAlways, PTL

-----------------------------------------------------------------------------
(* What the headers of a rewritten ELF image describe.                     *)

\* The cell is in none of the tables of the container.
InNoTable(im, c, o) ==
    /\ 5 <= o
    /\ o < Cell(im, 1) \/ Cell(im, 1) + Cell(im, 2) * 3 <= o
    /\ o < c.layout.e_shoff \/ c.layout.e_shoff + Cell(im, 4) * 3 <= o

\* The cell o of the input, outside .bun, is the cell x of the output.
FoundAt(c, t, o, x) ==
    \/ x = o /\ o < c.bun.bun_offset
    \/ x = o + t /\ c.bun.bun_offset + c.bun.bun_size <= o

LEMMA TablesOnly ==
    ASSUME NEW im, NEW c, InContext(im, c), c.is_elf, NEW S, PlanIn(c, S), NEW w,
           \/ \E n \in DOMAIN c.layout.sections : OnSection(w, c, DeltaSum(S), n)
           \/ \E n \in DOMAIN c.layout.segments : OnSegment(w, c, DeltaSum(S), n)
           \/ OnFileHeader(w, c, DeltaSum(S)),
           NEW o \in 0 .. Len(im) - 1, InNoTable(im, c, o),
           NEW x, FoundAt(c, DeltaSum(S), o, x)
    PROVE  w[1] # x
<1> DEFINE L == Len(im)
           t == DeltaSum(S)
           off == c.bun.bun_offset
           size == c.bun.bun_size
           ph == Cell(im, 1)
           pn == Cell(im, 2)
           sh == c.layout.e_shoff
           sn == Cell(im, 4)
           shift == ShdrTableShift(c.layout, c.bun, t)
           y == w[1]
<1>1. ElfFrame(L, t, off, size, ph, pn, sh, sn, shift)
  BY ElfFrameIs
<1>2. c.layout = ElfParse(im) /\ ElfReadable(im) /\ im \in Seq(Int) /\ sh = Cell(im, 3)
  BY ContextIs, ElfReads DEF InContext
<1>3. /\ 5 <= o
      /\ o < ph \/ ph + pn * 3 <= o
      /\ o < sh \/ sh + sn * 3 <= o
  BY DEF InNoTable
<1>4. \/ x = o /\ o < off
      \/ x = o + t /\ off + size <= o
  BY DEF FoundAt
<1>5. CASE \E n \in DOMAIN c.layout.sections : OnSection(w, c, t, n)
  <2>1. PICK n \in DOMAIN c.layout.sections : OnSection(w, c, t, n)
    BY <1>5
  <2>2. n \in 0 .. sn - 1 /\ c.layout.sections[n].header = sh + n * 3
    BY <1>2, ElfReads DEF SHDR_SIZE
  <2>3. y = SectionSlot(c, t, n) + 1 \/ y = SectionSlot(c, t, n) + 2
    BY <2>1 DEF OnSection
  <2>4. SectionSlot(c, t, n) = (sh + n * 3) + shift
    BY <2>2 DEF SectionSlot
  <2>5. o \in Int
    OBVIOUS
  <2> HIDE DEF L, t, off, size, ph, pn, sh, sn, shift, y
  <2>6. /\ sh \in Nat /\ sn \in Nat /\ t \in Int /\ off \in Nat /\ size \in Nat /\ 9 <= size + t
        /\ \/ shift = t /\ off + size <= sh
           \/ shift = 0 /\ sh + sn * 3 <= off
    BY <1>1 DEF ElfFrame
  <2>7. n \in Nat /\ n + 1 <= sn
    BY <2>2, <2>6
  <2>8. y \in Int /\ sh + shift <= y /\ y < sh + sn * 3 + shift
    <3>1. y = ((sh + n * 3) + shift) + 1 \/ y = ((sh + n * 3) + shift) + 2
      BY <2>3, <2>4
    <3>2. shift \in Int
      BY <2>6
    <3> QED
      BY <2>6, <2>7, <3>1, <3>2
  <2>9. y # x
    <3>1. CASE x = o /\ o < off
      BY <1>3, <2>5, <2>6, <2>8, <3>1
    <3>2. CASE x = o + t /\ off + size <= o
      BY <1>3, <2>5, <2>6, <2>8, <3>2
    <3> QED
      BY <1>4, <3>1, <3>2
  <2> QED
    BY <2>9 DEF y
<1>6. CASE \E n \in DOMAIN c.layout.segments : OnSegment(w, c, t, n)
  <2>1. PICK n \in DOMAIN c.layout.segments : OnSegment(w, c, t, n)
    BY <1>6
  <2>2. n \in 0 .. pn - 1 /\ c.layout.segments[n].header = ph + n * 3
    BY <1>2, ElfReads DEF PHDR_SIZE
  <2>3. \/ y = ph + n * 3
        \/ y = ph + n * 3 + 1
        \/ y = ph + n * 3 + 2
    BY <2>1, <2>2 DEF OnSegment
  <2>4. o \in Int
    OBVIOUS
  <2> HIDE DEF L, t, off, size, ph, pn, sh, sn, shift, y
  <2>5. /\ ph \in Nat /\ pn \in Nat /\ t \in Int /\ off \in Nat /\ size \in Nat
        /\ ph + pn * 3 <= off /\ 9 <= size + t
    BY <1>1 DEF ElfFrame
  <2>6. n \in Nat /\ n + 1 <= pn
    BY <2>2, <2>5
  <2>7. y \in Int /\ ph <= y /\ y < ph + pn * 3
    BY <2>3, <2>5, <2>6
  <2>8. y # x
    <3>1. CASE x = o /\ o < off
      BY <1>3, <2>4, <2>5, <2>7, <3>1
    <3>2. CASE x = o + t /\ off + size <= o
      BY <2>4, <2>5, <2>7, <3>2
    <3> QED
      BY <1>4, <3>1, <3>2
  <2> QED
    BY <2>8 DEF y
<1>7. CASE OnFileHeader(w, c, t)
  <2>1. y = 3
    BY <1>7 DEF OnFileHeader, EHDR_SHOFF_OFFSET
  <2> HIDE DEF L, t, off, size, ph, pn, sh, sn, shift, y
  <2>2. y # x
    BY <1>1, <1>3, <1>4, <2>1 DEF ElfFrame
  <2> QED
    BY <2>2 DEF y
<1> QED
  BY <1>5, <1>6, <1>7

\* Outside .bun nothing but the tables is changed.
LEMMA ElfElsewhere ==
    ASSUME NEW im, NEW c, InContext(im, c), c.is_elf, NEW S, PlanIn(c, S),
           NEW p, Kept(p, im, c, S), NEW b, ContainerDone(b, p, c, S),
           NEW o \in 0 .. Len(im) - 1, InNoTable(im, c, o),
           NEW x, FoundAt(c, DeltaSum(S), o, x)
    PROVE  x \in 0 .. Len(b) - 1 /\ Cell(b, x) = Cell(im, o)
<1> DEFINE L == Len(im)
           t == DeltaSum(S)
           off == c.bun.bun_offset
           size == c.bun.bun_size
           W == ElfHeaderWrites(c.layout, c.bun, t)
<1>1. /\ p \in Seq(Int) /\ Len(p) = L + t
      /\ \A v \in 0 .. off - 1 : Cell(p, v) = Cell(im, v)
      /\ \A v \in off + size .. L - 1 : Cell(p, v + t) = Cell(im, v)
  BY KeptOutside
<1>2. t \in Int /\ off \in Nat /\ size \in Nat /\ L \in Nat /\ off + size <= L /\ 9 <= size + t
  <2> DEFINE ph == Cell(im, 1)
             pn == Cell(im, 2)
             sh == c.layout.e_shoff
             sn == Cell(im, 4)
             shift == ShdrTableShift(c.layout, c.bun, t)
  <2>1. ElfFrame(L, t, off, size, ph, pn, sh, sn, shift)
    BY ElfFrameIs
  <2> HIDE DEF L, t, off, size, ph, pn, sh, sn, shift
  <2> QED
    BY <2>1 DEF ElfFrame
<1>3. \/ x = o /\ o < off
      \/ x = o + t /\ off + size <= o
  BY DEF FoundAt
<1>4. Len(b) = Len(p)
  BY ElfOutIs DEF ElfOut
<1>5. x \in 0 .. Len(p) - 1 /\ Cell(p, x) = Cell(im, o)
  <2> HIDE DEF t, off, size, W
  <2>1. o \in Nat /\ o < L
    BY <1>2
  <2> HIDE DEF L
  <2>2. CASE x = o /\ o < off
    <3>1. o \in 0 .. off - 1 /\ o \in 0 .. Len(p) - 1
      BY <1>1, <1>2, <2>1, <2>2
    <3> QED
      BY <1>1, <2>2, <3>1
  <2>3. CASE x = o + t /\ off + size <= o
    <3>1. o \in off + size .. L - 1 /\ o + t \in 0 .. Len(p) - 1
      BY <1>1, <1>2, <2>1, <2>3
    <3> QED
      BY <1>1, <2>3, <3>1
  <2> QED
    BY <1>3, <2>2, <2>3
<1>6. Cell(b, x) = Cell(p, x)
  <2>1. CASE b = p
    BY <2>1
  <2>2. CASE b = PackInto(p, W)
    <3>1. \A w \in W : w[1] # x
      <4>1. BunIndex(c) \in DOMAIN c.layout.sections
        <5>1. im \in Seq(Int) /\ ElfReadable(im) /\ c.layout = ElfParse(im)
              /\ ElfBunIndexes(ElfParse(im)) # {}
          BY ContextIs DEF InContext
        <5> QED
          BY <5>1, ElfBunIs DEF BunIndex
      <4> QED
        BY <4>1, ElfWritesAre, TablesOnly
    <3> HIDE DEF W
    <3>2. x + 1 \in DOMAIN p /\ (x + 1) - 1 = x
      BY <1>1, <1>5, LenProperties
    <3>3. b[x + 1] = p[x + 1]
      BY <2>2, <3>1, <3>2 DEF PackInto
    <3> QED
      BY <3>3 DEF Cell
  <2> QED
    BY <2>1, <2>2 DEF ContainerDone
<1> QED
  BY <1>4, <1>5, <1>6

LEMMA PayloadHasFraming ==
    ASSUME NEW im, NEW c, InContext(im, c), NEW S, PlanIn(c, S)
    PROVE  9 <= c.bun.bun_size
<1> DEFINE L == Len(im)
           off == c.bun.bun_offset
           size == c.bun.bun_size
           start == c.bun.payload_start
           table == TableAt(c)
           len == c.bun.modules_ptr.length
           at == c.bun.offsets_struct_offset
<1>1. Frame(L, 0, off, size, start, table, len, at)
  BY BoundsAre DEF Bounds
<1> HIDE DEF L, off, size, start, table, len, at
<1>2. 9 <= size
  BY <1>1 DEF Frame
<1> QED
  BY <1>2 DEF size

\* A section beside .bun keeps its cells.
LEMMA SectionKept ==
    ASSUME NEW im, NEW c, InContext(im, c), c.is_elf, NEW S, PlanIn(c, S),
           NEW p, Kept(p, im, c, S), NEW b, ContainerDone(b, p, c, S),
           NEW n \in DOMAIN c.layout.sections, n # BunIndex(c)
    PROVE  LET was == c.layout.sections[n]
               x == IF Behind(c.bun, was.sh_offset) THEN was.sh_offset + DeltaSum(S)
                    ELSE was.sh_offset
           IN Cells(b, x, was.sh_size) = Cells(im, was.sh_offset, was.sh_size)
<1> DEFINE L == Len(im)
           t == DeltaSum(S)
           off == c.bun.bun_offset
           size == c.bun.bun_size
           ph == Cell(im, 1)
           pn == Cell(im, 2)
           sh == c.layout.e_shoff
           sn == Cell(im, 4)
           shift == ShdrTableShift(c.layout, c.bun, t)
           was == c.layout.sections[n]
           a == was.sh_offset
           len == was.sh_size
           x == IF Behind(c.bun, a) THEN a + t ELSE a
<1>1. ElfFrame(L, t, off, size, ph, pn, sh, sn, shift)
  BY ElfFrameIs
<1>2. /\ c.layout = ElfParse(im) /\ ElfReadable(im) /\ im \in Seq(Int)
      /\ ElfPartsPlaced(im, c)
  BY ContextIs DEF InContext, ElfWellPlaced
<1>3. a \in Int /\ len \in Int
  BY <1>2, ElfReads
<1>4. /\ 0 <= a /\ 0 <= len /\ a + len <= L
      /\ Beside(a, len, 0, EHDR_SIZE) /\ Beside(a, len, off, size)
      /\ Beside(a, len, ph, pn * PHDR_SIZE) /\ Beside(a, len, sh, sn * SHDR_SIZE)
  BY <1>2 DEF ElfPartsPlaced, BunIndex
<1>5. /\ a + len <= 0 \/ 0 + 5 <= a
      /\ a + len <= off \/ off + size <= a
      /\ a + len <= ph \/ ph + pn * 3 <= a
      /\ a + len <= sh \/ sh + sn * 3 <= a
  BY <1>4 DEF Beside, EHDR_SIZE, PHDR_SIZE, SHDR_SIZE
<1>6. Behind(c.bun, a) <=> a > off
  BY DEF Behind
<1>7. b \in Seq(Int)
  BY ElfOutIs DEF ElfOut
<1>8. 9 <= size
  BY PayloadHasFraming
<1> HIDE DEF L, t, off, size, ph, pn, sh, sn, shift, a, len
<1>9. /\ t \in Int /\ off \in Nat /\ size \in Nat /\ L \in Nat /\ 9 <= size + t
      /\ off + size <= L /\ ph \in Nat /\ pn \in Nat /\ sh \in Nat /\ sn \in Nat
  BY <1>1 DEF ElfFrame
<1>10. \/ x = a + t /\ off + size <= a
       \/ x = a /\ a + len <= off
  <2>1. CASE Behind(c.bun, a)
    BY <1>3, <1>4, <1>5, <1>6, <1>9, <2>1
  <2>2. CASE ~Behind(c.bun, a)
    <3>1. CASE a + len <= off
      BY <2>2, <3>1
    <3>2. CASE off + size <= a
      <4>1. ~(a > off)
        BY <1>6, <2>2
      <4>2. size = 0 /\ a = off
        BY <1>3, <1>9, <3>2, <4>1
      <4> QED
        BY <1>8, <4>2
    <3> QED
      BY <1>5, <3>1, <3>2
  <2> QED
    BY <2>1, <2>2
<1> HIDE DEF x
<1>11. x \in Int /\ a \in Nat /\ len \in Nat /\ x \in Nat
  BY <1>3, <1>4, <1>9, <1>10
<1>12. ASSUME NEW j \in 1..len
       PROVE  x + j - 1 \in 0 .. Len(b) - 1 /\ b[x + j] = im[a + j]
  <2> DEFINE o == a + j - 1
             q == x + j - 1
  <2>1. o \in 0 .. L - 1 /\ q + 1 = x + j /\ o + 1 = a + j
    BY <1>4, <1>9, <1>11
  <2>2. \/ q = o /\ o < off
        \/ q = o + t /\ off + size <= o
    BY <1>9, <1>10, <1>11
  <2>3. /\ 5 <= o
        /\ o < ph \/ ph + pn * 3 <= o
        /\ o < sh \/ sh + sn * 3 <= o
    BY <1>5, <1>9, <1>11
  <2> HIDE DEF o, q
  <2>4. InNoTable(im, c, o) /\ FoundAt(c, t, o, q)
    BY <2>2, <2>3 DEF InNoTable, FoundAt, ph, pn, sh, sn, off, size
  <2>5. q \in 0 .. Len(b) - 1 /\ Cell(b, q) = Cell(im, o)
    BY <2>1, <2>4, ElfElsewhere DEF L, t
  <2>6. b[q + 1] = im[o + 1]
    BY <2>5 DEF Cell
  <2> QED
    BY <2>1, <2>5, <2>6 DEF q
<1>13. Cells(b, x, len) = Cells(im, a, len)
  <2>1. CASE len = 0
    <3>1. Cells(b, x, 0) = <<>>
      BY <1>7, <1>11, NoText
    <3>2. Cells(im, a, 0) = <<>>
      BY <1>2, <1>3, NoText
    <3> QED
      BY <2>1, <3>1, <3>2
  <2>2. CASE len # 0
    <3>1. len \in 1..len /\ Len(b) \in Nat
      BY <1>7, <1>11, <2>2, LenProperties
    <3>2. x + len - 1 \in 0 .. Len(b) - 1
      BY <1>12, <3>1
    <3>3. x + len <= Len(b) /\ a + len <= L
      BY <1>4, <1>11, <3>1, <3>2
    <3> DEFINE r == Cells(b, x, len)
               s == Cells(im, a, len)
    <3>4. r \in Seq(Int) /\ Len(r) = len /\ \A j \in 1..len : r[j] = b[x + j]
      BY <1>7, <1>11, <3>3, CellsOf
    <3>5. s \in Seq(Int) /\ Len(s) = len /\ \A j \in 1..len : s[j] = im[a + j]
      BY <1>2, <1>11, <3>3, CellsOf DEF L
    <3>6. \A j \in 1..len : r[j] = s[j]
      BY <1>12, <3>4, <3>5
    <3> HIDE DEF r, s
    <3>7. r = s
      BY <1>11, <3>4, <3>5, <3>6, SameSequence
    <3> QED
      BY <3>7 DEF r, s
  <2> QED
    BY <2>1, <2>2
<1> QED
  BY <1>13 DEF x, a, len, t
\* A stretch of the image, at a and n cells long, beside the stretch of size
\* cells at off or behind it, once that has grown by t.
Follows(a, n, off, size, t, x) ==
    \/ a + n <= off /\ x = a
    \/ off + size <= a /\ x = a + t

\* A segment that holds .bun grows with it, the others keep their length.
SegmentFollows(g, f, off, size, t, x, y) ==
    \/ g <= off /\ off + size <= g + f /\ x = g /\ y = f + t
    \/ y = f /\ Follows(g, f, off, size, t, x)

SectionFollows(a, n, off, size, t, x, m) ==
    \/ a = off /\ n = size /\ x = off /\ m = size + t
    \/ m = n /\ Follows(a, n, off, size, t, x)

HoldsAt(g, f, a, n) == g <= a /\ a + n <= g + f

LEMMA SegmentMoves ==
    ASSUME NEW im, NEW c, InContext(im, c), c.is_elf, NEW S, PlanIn(c, S),
           NEW new, TablesAre(new, c, DeltaSum(S)), NEW n \in DOMAIN c.layout.segments
    PROVE  LET was == c.layout.segments[n]
               is == new.segments[n]
           IN /\ was.p_offset \in Int /\ was.p_filesz \in Int /\ 0 <= was.p_filesz
              /\ is.p_offset \in Int /\ is.p_filesz \in Int
              /\ SegmentFollows(was.p_offset, was.p_filesz, c.bun.bun_offset,
                                c.bun.bun_size, DeltaSum(S), is.p_offset, is.p_filesz)
              /\ is.p_memsz - is.p_filesz = was.p_memsz - was.p_filesz
<1> DEFINE was == c.layout.segments[n]
           is == new.segments[n]
           g == was.p_offset
           f == was.p_filesz
           v == was.p_memsz
           off == c.bun.bun_offset
           size == c.bun.bun_size
           t == DeltaSum(S)
<1>1. /\ c.layout = ElfParse(im) /\ ElfReadable(im) /\ im \in Seq(Int)
      /\ ElfPartsPlaced(im, c)
  BY ContextIs DEF InContext, ElfWellPlaced
<1>2. g \in Int /\ f \in Int /\ v \in Int
  BY <1>1, ElfReads
<1>3. /\ 0 <= f
      /\ (g <= off /\ off + size <= g + f) \/ g + f <= off \/ off + size <= g
  BY <1>1 DEF ElfPartsPlaced, Beside
<1>4. Bounds(im, c, t) /\ 9 <= size
  BY BoundsAre, PayloadHasFraming
<1>5. off \in Nat /\ size \in Nat /\ t \in Int
  BY <1>4, ContextIs, BoundsAre DEF ReadFrom, Bounds, Frame
<1>6. /\ is.p_offset = IF g > off THEN g + t ELSE g
      /\ is.p_filesz = IF g <= off /\ off < g + f THEN f + t ELSE f
      /\ is.p_memsz = IF g <= off /\ off < g + f THEN v + t ELSE v
  BY DEF TablesAre, Behind, HoldsBun
<1> DEFINE x == is.p_offset
           y == is.p_filesz
           u == is.p_memsz
<1>7. x \in Int /\ y \in Int /\ SegmentFollows(g, f, off, size, t, x, y) /\ u - y = v - f
  <2>1. /\ x = IF g > off THEN g + t ELSE g
        /\ y = IF g <= off /\ off < g + f THEN f + t ELSE f
        /\ u = IF g <= off /\ off < g + f THEN v + t ELSE v
    BY <1>6
  <2> HIDE DEF g, f, v, off, size, t, x, y, u
  <2>2. CASE g <= off /\ off + size <= g + f
    <3>1. x = g /\ y = f + t /\ u = v + t
      BY <1>2, <1>4, <1>5, <2>1, <2>2
    <3> QED
      BY <1>2, <1>5, <2>2, <3>1 DEF SegmentFollows
  <2>3. CASE g + f <= off
    <3>1. x = g /\ y = f /\ u = v
      BY <1>2, <1>3, <1>5, <2>1, <2>3
    <3> QED
      BY <1>2, <1>5, <2>3, <3>1 DEF SegmentFollows, Follows
  <2>4. CASE off + size <= g
    <3>1. x = g + t /\ y = f /\ u = v
      BY <1>2, <1>4, <1>5, <2>1, <2>4
    <3> QED
      BY <1>2, <1>5, <2>4, <3>1 DEF SegmentFollows, Follows
  <2> QED
    BY <1>3, <2>2, <2>3, <2>4
<1> QED
  BY <1>2, <1>3, <1>7

LEMMA SectionMoves ==
    ASSUME NEW im, NEW c, InContext(im, c), c.is_elf, NEW S, PlanIn(c, S),
           NEW new, TablesAre(new, c, DeltaSum(S)), NEW n \in DOMAIN c.layout.sections
    PROVE  LET was == c.layout.sections[n]
               is == new.sections[n]
           IN /\ was.sh_offset \in Int /\ was.sh_size \in Int /\ 0 <= was.sh_size
              /\ is.sh_offset \in Int /\ is.sh_size \in Int
              /\ SectionFollows(was.sh_offset, was.sh_size, c.bun.bun_offset,
                                c.bun.bun_size, DeltaSum(S), is.sh_offset, is.sh_size)
<1> DEFINE was == c.layout.sections[n]
           is == new.sections[n]
           a == was.sh_offset
           m == was.sh_size
           off == c.bun.bun_offset
           size == c.bun.bun_size
           t == DeltaSum(S)
           x == is.sh_offset
           y == is.sh_size
<1>1. /\ c.layout = ElfParse(im) /\ ElfReadable(im) /\ im \in Seq(Int)
      /\ ElfPartsPlaced(im, c)
  BY ContextIs DEF InContext, ElfWellPlaced
<1>2. a \in Int /\ m \in Int
  BY <1>1, ElfReads
<1>3. Bounds(im, c, t) /\ 9 <= size
  BY BoundsAre, PayloadHasFraming
<1>4. off \in Nat /\ size \in Nat /\ t \in Int
  BY <1>3 DEF Bounds, Frame
<1>5. /\ x = IF a > off THEN a + t ELSE a
      /\ y = IF n = BunIndex(c) THEN size + t ELSE m
  BY DEF TablesAre, Behind
<1>6. CASE n = BunIndex(c)
  <2>1. a = off /\ m = size
    <3>1. c.layout.sections[BunIndex(c)].sh_offset = off
          /\ c.layout.sections[BunIndex(c)].sh_size = size
      <4>1. /\ ElfBunIndexes(ElfParse(im)) # {} /\ BunSection(im) = ElfBunSection(ElfParse(im))
            /\ off = BunSection(im).offset /\ size = BunSection(im).size
        BY ContextIs
      <4> QED
        BY <1>1, <4>1, ElfBunIs DEF BunIndex
    <3> QED
      BY <1>6, <3>1
  <2> HIDE DEF a, m, off, size, t, x, y
  <2>2. x = off /\ y = size + t
    BY <1>4, <1>5, <1>6, <2>1
  <2>3. SectionFollows(a, m, off, size, t, x, y) /\ x \in Int /\ y \in Int /\ 0 <= m
    BY <1>4, <2>1, <2>2 DEF SectionFollows
  <2> QED
    BY <1>2, <2>3 DEF a, m, off, size, t, x, y
<1>7. CASE n # BunIndex(c)
  <2>1. /\ 0 <= m
        /\ a + m <= off \/ off + size <= a
    BY <1>1, <1>7 DEF ElfPartsPlaced, Beside, BunIndex
  <2> HIDE DEF a, m, off, size, t, x, y
  <2>2. CASE a + m <= off
    <3>1. x = a /\ y = m
      BY <1>2, <1>4, <1>5, <1>7, <2>1, <2>2
    <3> QED
      BY <1>2, <2>1, <2>2, <3>1 DEF SectionFollows, Follows, a, m, off, size, t, x, y
  <2>3. CASE off + size <= a
    <3>1. x = a + t /\ y = m
      BY <1>2, <1>3, <1>4, <1>5, <1>7, <2>3
    <3>2. x \in Int /\ y \in Int
      BY <1>2, <1>4, <3>1
    <3>3. SectionFollows(a, m, off, size, t, x, y)
      BY <2>3, <3>1 DEF SectionFollows, Follows
    <3> QED
      BY <1>2, <2>1, <3>2, <3>3 DEF a, m, off, size, t, x, y
  <2> QED
    BY <2>1, <2>2, <2>3
<1> QED
  BY <1>6, <1>7

\* Every segment holds the sections it held.
LEMMA HoldingKept ==
    ASSUME NEW im, NEW c, InContext(im, c), c.is_elf, NEW S, PlanIn(c, S),
           NEW new, TablesAre(new, c, DeltaSum(S)),
           NEW g \in DOMAIN c.layout.segments, NEW n \in DOMAIN c.layout.sections
    PROVE  Holds(new.segments[g], new.sections[n])
              <=> Holds(c.layout.segments[g], c.layout.sections[n])
<1> DEFINE off == c.bun.bun_offset
           size == c.bun.bun_size
           t == DeltaSum(S)
           go == c.layout.segments[g].p_offset
           gf == c.layout.segments[g].p_filesz
           gx == new.segments[g].p_offset
           gy == new.segments[g].p_filesz
           so == c.layout.sections[n].sh_offset
           sz == c.layout.sections[n].sh_size
           sx == new.sections[n].sh_offset
           sy == new.sections[n].sh_size
<1>1. /\ go \in Int /\ gf \in Int /\ 0 <= gf /\ gx \in Int /\ gy \in Int
      /\ SegmentFollows(go, gf, off, size, t, gx, gy)
  BY SegmentMoves
<1>2. /\ so \in Int /\ sz \in Int /\ 0 <= sz /\ sx \in Int /\ sy \in Int
      /\ SectionFollows(so, sz, off, size, t, sx, sy)
  BY SectionMoves
<1>3. off \in Int /\ size \in Int /\ t \in Int /\ 9 <= size /\ 9 <= size + t
  <2> DEFINE L == Len(im)
             ph == Cell(im, 1)
             pn == Cell(im, 2)
             sh == c.layout.e_shoff
             sn == Cell(im, 4)
             shift == ShdrTableShift(c.layout, c.bun, t)
  <2>1. ElfFrame(L, t, off, size, ph, pn, sh, sn, shift)
    BY ElfFrameIs
  <2>2. 9 <= size
    BY PayloadHasFraming
  <2> HIDE DEF L, t, off, size, ph, pn, sh, sn, shift
  <2> QED
    BY <2>1, <2>2 DEF ElfFrame
<1> HIDE DEF off, size, t, go, gf, gx, gy, so, sz, sx, sy
<1>4. HoldsAt(gx, gy, sx, sy) <=> HoldsAt(go, gf, so, sz)
  <2>1. \/ go <= off /\ off + size <= go + gf /\ gx = go /\ gy = gf + t
        \/ gy = gf /\ go + gf <= off /\ gx = go
        \/ gy = gf /\ off + size <= go /\ gx = go + t
    BY <1>1 DEF SegmentFollows, Follows
  <2>2. \/ so = off /\ sz = size /\ sx = off /\ sy = size + t
        \/ sy = sz /\ so + sz <= off /\ sx = so
        \/ sy = sz /\ off + size <= so /\ sx = so + t
    BY <1>2 DEF SectionFollows, Follows
  <2>3. CASE go <= off /\ off + size <= go + gf /\ gx = go /\ gy = gf + t
    BY <1>1, <1>2, <1>3, <2>2, <2>3 DEF HoldsAt
  <2>4. CASE gy = gf /\ go + gf <= off /\ gx = go
    BY <1>1, <1>2, <1>3, <2>2, <2>4 DEF HoldsAt
  <2>5. CASE gy = gf /\ off + size <= go /\ gx = go + t
    BY <1>1, <1>2, <1>3, <2>2, <2>5 DEF HoldsAt
  <2> QED
    BY <2>1, <2>3, <2>4, <2>5
<1> QED
  BY <1>4 DEF Holds, HoldsAt, go, gf, gx, gy, so, sz, sx, sy

\* _rewrite_elf_headers leaves an image in which every section but .bun still
\* names the same cells, .bun names the grown payload, and every segment still
\* holds exactly the sections it held, with the same zero-filled tail
\* (context.py:290-336), for every described image and plan.
THEOREM ElfStaysIntact ==
    ASSUME Described
    PROVE  Spec => []ElfIntact
<1>1. AppliedInv => ElfIntact
  <2> SUFFICES ASSUME AppliedInv, Patched, ctx.is_elf PROVE ElfIntact
    BY DEF ElfIntact
  <2> DEFINE old == ctx.layout
             new == ElfParse(buf)
             t == DeltaSum(InPlan)
             bun == Min(ElfBunIndexes(old))
  <2>1. InContext(image, ctx) /\ PlanIn(ctx, InPlan)
    BY PatchedIsReadBack
  <2>2. PICK p : /\ PayloadDone(p, image, ctx, InPlan, TouchedModules)
                 /\ ContainerDone(buf, p, ctx, InPlan)
    BY DEF AppliedInv, Patched, PhaseInv
  <2>3. Kept(p, image, ctx, InPlan) /\ Len(p) = Len(image) + t
    BY <2>2 DEF PayloadDone, Kept
  <2>4. ElfOut(buf, p, image, ctx, t)
    BY <2>1, <2>2, <2>3, ElfOutIs
  <2>5. Cell(buf, 0) = ELF_MAGIC /\ ElfReadable(buf) /\ TablesAre(new, ctx, t)
    BY <2>1, <2>3, <2>4, ElfReparsed
  <2>6. TotalDelta = t
    <3>1. OrderInv /\ Accepted
      BY DEF AppliedInv, Patched, Accepted
    <3> QED
      BY <3>1, PlanShifts
  <2>7. Len(buf) = Len(image) + TotalDelta
    BY <2>3, <2>4, <2>6 DEF ElfOut
  <2>8. DOMAIN new.sections = DOMAIN old.sections /\ DOMAIN new.segments = DOMAIN old.segments
    BY <2>5 DEF TablesAre
  <2>9. ASSUME NEW n \in DOMAIN old.sections
        PROVE  /\ new.sections[n].name = old.sections[n].name
               /\ IF n = bun
                  THEN /\ new.sections[n].sh_offset = old.sections[n].sh_offset
                       /\ new.sections[n].sh_size = old.sections[n].sh_size + TotalDelta
                  ELSE Cells(buf, new.sections[n].sh_offset, new.sections[n].sh_size) =
                       Cells(image, old.sections[n].sh_offset, old.sections[n].sh_size)
    <3>1. new.sections[n].name = old.sections[n].name
      BY <2>5 DEF TablesAre
    <3>2. CASE n = bun
      <4>1. n = BunIndex(ctx)
        BY <3>2 DEF BunIndex
      <4>2. /\ old.sections[n].sh_offset = ctx.bun.bun_offset
            /\ old.sections[n].sh_size = ctx.bun.bun_size
        BY <2>1, <2>5, <4>1, ElfBunFound
      <4>3. new.sections[n].sh_size = ctx.bun.bun_size + t
        BY <2>5, <4>1 DEF TablesAre
      <4>4. ctx.bun.bun_offset \in Nat
        BY <2>1, ContextIs DEF ReadFrom
      <4>5. new.sections[n].sh_offset = ctx.bun.bun_offset
        <5>1. ~Behind(ctx.bun, old.sections[n].sh_offset)
          BY <4>2, <4>4 DEF Behind
        <5> QED
          BY <2>5, <4>2, <5>1 DEF TablesAre
      <4> QED
        BY <2>6, <3>1, <3>2, <4>2, <4>3, <4>5
    <3>3. CASE n # bun
      <4>1. n # BunIndex(ctx)
        BY <3>3 DEF BunIndex
      <4>2. /\ new.sections[n].sh_size = old.sections[n].sh_size
            /\ new.sections[n].sh_offset =
                  IF Behind(ctx.bun, old.sections[n].sh_offset)
                  THEN old.sections[n].sh_offset + t ELSE old.sections[n].sh_offset
        BY <2>5, <4>1 DEF TablesAre
      <4>3. Cells(buf, new.sections[n].sh_offset, old.sections[n].sh_size) =
            Cells(image, old.sections[n].sh_offset, old.sections[n].sh_size)
        BY <2>1, <2>2, <2>3, <4>1, <4>2, SectionKept
      <4> QED
        BY <3>1, <3>3, <4>2, <4>3
    <3> QED
      BY <3>2, <3>3
  <2>10. ASSUME NEW g \in DOMAIN old.segments
         PROVE  /\ new.segments[g].p_memsz - new.segments[g].p_filesz =
                   old.segments[g].p_memsz - old.segments[g].p_filesz
                /\ \A n \in DOMAIN old.sections :
                     Holds(new.segments[g], new.sections[n])
                        <=> Holds(old.segments[g], old.sections[n])
    <3>1. new.segments[g].p_memsz - new.segments[g].p_filesz =
          old.segments[g].p_memsz - old.segments[g].p_filesz
      BY <2>1, <2>5, SegmentMoves
    <3>2. ASSUME NEW n \in DOMAIN old.sections
          PROVE  Holds(new.segments[g], new.sections[n])
                    <=> Holds(old.segments[g], old.sections[n])
      BY <2>1, <2>5, HoldingKept
    <3> QED
      BY <3>1, <3>2
  <2> QED
    BY <2>5, <2>7, <2>8, <2>9, <2>10, Zenon DEF ElfIntact
<1> QED
  BY <1>1, AppliedAlways, PTL

-----------------------------------------------------------------------------
(* What _rewrite_macho_headers makes of each cell of the load commands.    *)

BunEnd(c) == FileEnd(SegmentByName(c.layout, BUN_SEGNAME))

\* Command m is a segment behind the one of .bun.
LaterCommand(im, n, end, m) ==
    m \in SegmentCommands(im) /\ m # n /\ end <= Cell(im, CommandOffsets(im)[m] + 5)

\* The cell o of command m grows with the segment of .bun, which is command n and
\* ends at end.
Bumped(im, n, end, m, o) ==
    LET x == CommandOffsets(im)[m]
    IN \/ m = n /\ o \in {x + 4, x + 6}
       \/ LaterCommand(im, n, end, m) /\ o \in {x + 3, x + 5}
       \/ LaterCommand(im, n, end, m) /\ \E l \in 0 .. Cell(im, x + 7) - 1 :
             \/ o = SectionCell(x, l) + 1
             \/ o = SectionCell(x, l) + 3 /\ Cell(im, o) # 0
       \/ /\ m \notin SegmentCommands(im) /\ Cell(im, o) # 0 /\ end <= Cell(im, o)
          /\ \E j \in FileOffsetFields(Cell(im, x)) : o = x + j

LEMMA BumpedIsTarget ==
    ASSUME NEW im, CommandsIn(im), NEW n \in SegmentCommands(im), NEW end,
           NEW m \in 0 .. Cell(im, 2) - 1, NEW o, Bumped(im, n, end, m, o)
    PROVE  TargetIn(im, m, o)
<1> DEFINE x == CommandOffsets(im)[m]
<1>1. CASE m = n /\ o \in {x + 4, x + 6}
  BY <1>1 DEF TargetIn
<1>2. CASE LaterCommand(im, n, end, m) /\ o \in {x + 3, x + 5}
  BY <1>2 DEF TargetIn, LaterCommand
<1>3. CASE LaterCommand(im, n, end, m) /\ \E l \in 0 .. Cell(im, x + 7) - 1 :
              o = SectionCell(x, l) + 1 \/ o = SectionCell(x, l) + 3
  <2> HIDE DEF x
  <2>1. \E l \in 0 .. Cell(im, x + 7) - 1, j \in 1..3 : o = SectionCell(x, l) + j
    BY <1>3
  <2> QED
    BY <1>3, <2>1 DEF TargetIn, LaterCommand, x
<1>4. CASE m \notin SegmentCommands(im) /\ \E j \in FileOffsetFields(Cell(im, x)) : o = x + j
  <2>1. PICK j \in FileOffsetFields(Cell(im, x)) : o = x + j
    BY <1>4
  <2>2. j \in 2..3
    BY DEF FileOffsetFields
  <2>3. j < Cell(im, x + 1)
    BY DEF CommandsIn, CommandAccepted
  <2> QED
    BY <1>4, <2>1, <2>2, <2>3 DEF TargetIn
<1> QED
  BY <1>1, <1>2, <1>3, <1>4 DEF Bumped

\* Two commands have no cell in common.
LEMMA OneCommand ==
    ASSUME NEW im, CommandsIn(im), NEW m \in 0 .. Cell(im, 2) - 1,
           NEW h \in 0 .. Cell(im, 2) - 1, NEW o \in Int,
           CommandOffsets(im)[m] <= o, o < CommandOffsets(im)[m + 1],
           CommandOffsets(im)[h] <= o, o < CommandOffsets(im)[h + 1]
    PROVE  m = h
<1> DEFINE at == CommandOffsets(im)
<1>1. /\ at[m] \in Int /\ at[m + 1] \in Int /\ at[h] \in Int /\ at[h + 1] \in Int
  <2>1. CommandRange(im, m, at[m], at[m + 1]) /\ CommandRange(im, h, at[h], at[h + 1])
    BY CommandRanges
  <2> HIDE DEF at
  <2> QED
    BY <2>1 DEF CommandRange
<1>2. m # h => at[m + 1] <= at[h] \/ at[h + 1] <= at[m]
  BY CommandRanges
<1> HIDE DEF at
<1> QED
  BY <1>1, <1>2 DEF at

\* What is written is the size of __bun, or what a cell held moved by the growth.
LEMMA WriteIs ==
    ASSUME NEW im, NEW c, NEW n, NEW k, MachOBun(im, c, n, k), NEW t \in Int,
           c.bun.bun_offset \in Nat, c.bun.bun_size \in Int,
           NEW w \in MachOHeaderWrites(c.layout, c.bun, t)
    PROVE  \/ w = <<SectionCell(CommandOffsets(im)[n], k) + 2, c.bun.bun_size + t>>
           \/ \E m \in 0 .. Cell(im, 2) - 1 :
                 /\ Bumped(im, n, BunEnd(c), m, w[1])
                 /\ w[2] = Cell(im, w[1]) + Grow(c.layout, c.bun, t)
<1> DEFINE at == CommandOffsets(im)
           mo == c.layout
           bun == c.bun
           seg == SegmentByName(mo, BUN_SEGNAME)
           end == BunEnd(c)
           grow == Grow(mo, bun, t)
           later == {g \in mo.segments \ {seg} : g.fileoff >= end}
           sects == UNION {{g.sections[l] : l \in DOMAIN g.sections} : g \in later}
           fields == {f \in mo.file_offset_fields :
                            f.value # 0 /\ f.value >= end}
           A == {<<BunSect(mo).header + 2, bun.bun_size + t>>}
           B == {<<seg.header + 6, seg.filesize + grow>>, <<seg.header + 4, seg.vmsize + grow>>}
           C == {<<g.header + 5, g.fileoff + grow>> : g \in later}
           D == {<<g.header + 3, g.vmaddr + grow>> : g \in later}
           E == {<<s.header + 1, s.addr + grow>> : s \in sects}
           F == {<<s.header + 3, s.offset + grow>> : s \in {q \in sects : q.offset # 0}}
           G == {<<f.at, f.value + grow>> : f \in fields}
<1>1. /\ mo = MachOParse(im) /\ IsBunSect(im, n, k) /\ SegmentIn(im, at[n])
      /\ n \in SegmentCommands(im)
  BY DEF MachOBun
<1>2. seg = SegmentAt(im, at[n])
  BY GrowTypes
<1>3. w \in A \cup B \cup C \cup D \cup E \cup F \cup G
  BY DEF MachOHeaderWrites, BunEnd
<1>4. n \in 0 .. Cell(im, 2) - 1
  BY <1>1 DEF SegmentCommands
<1>5. w \in A => w = <<SectionCell(at[n], k) + 2, bun.bun_size + t>>
  <2>1. BunSect(mo).header = SectionCell(at[n], k)
    BY <1>1 DEF IsBunSect, SectionCell
  <2> QED
    BY <2>1
<1>6. CASE w \in B
  <2>1. /\ seg.header = at[n] /\ seg.filesize = Cell(im, at[n] + 6)
        /\ seg.vmsize = Cell(im, at[n] + 4)
    BY <1>2 DEF SegmentAt
  <2>2. /\ w[1] = at[n] + 4 \/ w[1] = at[n] + 6
        /\ w[2] = Cell(im, w[1]) + grow
    <3> HIDE DEF seg, grow, at
    <3> QED
      BY <1>6, <2>1
  <2>3. Bumped(im, n, end, n, w[1])
    BY <2>2 DEF Bumped
  <2> QED
    BY <1>4, <2>2, <2>3
<1>7. ASSUME NEW g \in later
      PROVE  \E m \in SegmentCommands(im) :
                /\ m \in 0 .. Cell(im, 2) - 1 /\ g = SegmentAt(im, at[m])
                /\ LaterCommand(im, n, end, m)
  <2>1. g \in c.layout.segments /\ g # SegmentByName(c.layout, BUN_SEGNAME)
        /\ g.fileoff >= end
    OBVIOUS
  <2>2. PICK m \in SegmentCommands(im) :
            /\ m # n /\ m \in 0 .. Cell(im, 2) - 1
            /\ SegmentIn(im, at[m]) /\ g = SegmentAt(im, at[m])
    BY <2>1, LaterSegment
  <2>3. g.fileoff = Cell(im, at[m] + 5)
    BY <2>2 DEF SegmentAt
  <2>4. LaterCommand(im, n, end, m)
    <3> HIDE DEF end, later, mo, seg
    <3>1. Cell(im, at[m] + 5) >= end
      BY <2>1, <2>3
    <3> QED
      BY <2>2, <3>1 DEF LaterCommand
  <2> QED
    BY <2>2, <2>4
<1>8. CASE w \in C \cup D
  <2>1. PICK g \in later : \/ w = <<g.header + 5, g.fileoff + grow>>
                           \/ w = <<g.header + 3, g.vmaddr + grow>>
    BY <1>8
  <2>2. PICK m \in SegmentCommands(im) :
            /\ m \in 0 .. Cell(im, 2) - 1 /\ g = SegmentAt(im, at[m])
            /\ LaterCommand(im, n, end, m)
    BY <1>7
  <2>3. /\ g.header = at[m] /\ g.fileoff = Cell(im, at[m] + 5)
        /\ g.vmaddr = Cell(im, at[m] + 3)
    BY <2>2 DEF SegmentAt
  <2>5. (w[1] = at[m] + 5 \/ w[1] = at[m] + 3) /\ w[2] = Cell(im, w[1]) + grow
    <3> HIDE DEF at, later, grow
    <3> QED
      BY <2>1, <2>3
  <2>6. Bumped(im, n, end, m, w[1])
    BY <2>2, <2>5 DEF Bumped
  <2> QED
    BY <2>2, <2>5, <2>6
<1>9. CASE w \in E \cup F
  <2>1. PICK s \in sects : \/ w = <<s.header + 1, s.addr + grow>>
                           \/ s.offset # 0 /\ w = <<s.header + 3, s.offset + grow>>
    BY <1>9
  <2>0. PICK g \in later : \E l \in DOMAIN g.sections : s = g.sections[l]
    <3>1. PICK Q \in {{g.sections[l] : l \in DOMAIN g.sections} : g \in later} : s \in Q
      OBVIOUS
    <3> QED
      BY <3>1
  <2>2. PICK l \in DOMAIN g.sections : s = g.sections[l]
    BY <2>0
  <2>3. PICK m \in SegmentCommands(im) :
            /\ m \in 0 .. Cell(im, 2) - 1 /\ g = SegmentAt(im, at[m])
            /\ LaterCommand(im, n, end, m)
    BY <1>7
  <2> DEFINE y == SectionCell(at[m], l)
  <2>4. /\ l \in 0 .. Cell(im, at[m] + 7) - 1
        /\ s.header = y /\ s.addr = Cell(im, y + 1) /\ s.offset = Cell(im, y + 3)
    BY <2>2, <2>3 DEF SegmentAt, SectionCell
  <2>6. /\ w[1] = y + 1 \/ (w[1] = y + 3 /\ Cell(im, w[1]) # 0)
        /\ w[2] = Cell(im, w[1]) + grow
    <3> HIDE DEF y, sects, grow
    <3> QED
      BY <2>1, <2>4
  <2>7. Bumped(im, n, end, m, w[1])
    <3> HIDE DEF sects, end
    <3> QED
      BY <2>3, <2>4, <2>6 DEF Bumped
  <2> QED
    BY <2>3, <2>6, <2>7
<1>10. CASE w \in G
  <2>1. PICK f \in fields : w = <<f.at, f.value + grow>>
    BY <1>10
  <2>2. f \in c.layout.file_offset_fields /\ f.value # 0 /\ f.value >= end
    OBVIOUS
  <2>3. PICK m \in 0 .. Cell(im, 2) - 1, j \in 2..3 :
            /\ m \notin SegmentCommands(im) /\ j \in FileOffsetFields(Cell(im, at[m]))
            /\ f.at = at[m] + j /\ f.value = Cell(im, f.at)
    BY <2>2, FieldIs
  <2>4. /\ w[1] = at[m] + j /\ w[2] = Cell(im, w[1]) + grow
        /\ Cell(im, w[1]) # 0 /\ end <= Cell(im, w[1])
    <3> HIDE DEF at, fields, grow, end
    <3> QED
      BY <2>1, <2>2, <2>3
  <2>5. Bumped(im, n, end, m, w[1])
    <3> HIDE DEF end, fields
    <3> QED
      BY <2>3, <2>4 DEF Bumped
  <2> QED
    BY <2>3, <2>4, <2>5
<1> HIDE DEF A, B, C, D, E, F, G
<1> QED
  BY <1>3, <1>5, <1>6, <1>8, <1>9, <1>10

\* Commands begin at different cells.
LEMMA CommandsDiffer ==
    ASSUME NEW im, CommandsIn(im), NEW m \in 0 .. Cell(im, 2) - 1,
           NEW h \in 0 .. Cell(im, 2) - 1, CommandOffsets(im)[m] = CommandOffsets(im)[h]
    PROVE  m = h
<1> DEFINE at == CommandOffsets(im)
<1>1. ASSUME NEW l \in 0 .. Cell(im, 2) - 1
      PROVE  at[l] \in Int /\ at[l] < at[l + 1]
  <2> DEFINE x == at[l]
             end == at[l + 1]
             z == Cell(im, x + 1)
  <2>1. x \in Nat /\ z \in Nat /\ 2 <= z /\ end = x + z
    BY CommandRanges DEF CommandRange
  <2> HIDE DEF x, end, z
  <2>2. x \in Int /\ x < end
    BY <2>1
  <2> QED
    BY <2>2 DEF x, end
<1>2. /\ at[m] \in Int /\ at[m] < at[m + 1] /\ at[h] < at[h + 1]
      /\ at[m] <= at[m] /\ at[h] <= at[m] /\ at[m] < at[h + 1]
  <2> HIDE DEF at
  <2>1. at[m] \in Int /\ at[m] < at[m + 1] /\ at[h] < at[h + 1]
    BY <1>1
  <2>2. at[m] = at[h]
    BY DEF at
  <2> QED
    BY <2>1, <2>2
<1> QED
  BY <1>2, OneCommand

\* When the segment of .bun grows, all of it is written.
LEMMA BumpIsWritten ==
    ASSUME NEW im, NEW c, NEW n, NEW k, MachOBun(im, c, n, k), NEW t \in Int,
           Grow(c.layout, c.bun, t) # 0,
           NEW m \in 0 .. Cell(im, 2) - 1, NEW o, Bumped(im, n, BunEnd(c), m, o)
    PROVE  <<o, Cell(im, o) + Grow(c.layout, c.bun, t)>> \in MachOHeaderWrites(c.layout, c.bun, t)
<1> DEFINE at == CommandOffsets(im)
           mo == c.layout
           bun == c.bun
           seg == SegmentByName(mo, BUN_SEGNAME)
           end == BunEnd(c)
           grow == Grow(mo, bun, t)
           later == {g \in mo.segments \ {seg} : g.fileoff >= end}
           sects == UNION {{g.sections[l] : l \in DOMAIN g.sections} : g \in later}
           fields == {f \in mo.file_offset_fields :
                            f.value # 0 /\ f.value >= end}
           B == {<<seg.header + 6, seg.filesize + grow>>, <<seg.header + 4, seg.vmsize + grow>>}
           C == {<<g.header + 5, g.fileoff + grow>> : g \in later}
           D == {<<g.header + 3, g.vmaddr + grow>> : g \in later}
           E == {<<s.header + 1, s.addr + grow>> : s \in sects}
           F == {<<s.header + 3, s.offset + grow>> : s \in {q \in sects : q.offset # 0}}
           G == {<<f.at, f.value + grow>> : f \in fields}
           x == at[m]
           g == SegmentAt(im, x)
           w == <<o, Cell(im, o) + grow>>
<1>1. /\ mo = MachOParse(im) /\ MachOParses(im) /\ im \in Seq(Int) /\ CommandsIn(im)
      /\ n \in SegmentCommands(im) /\ n \in 0 .. Cell(im, 2) - 1
      /\ seg = SegmentAt(im, at[n])
  BY DEF MachOBun, IsBunSect, SegmentCommands
<1>2. B \cup C \cup D \cup E \cup F \cup G \subseteq MachOHeaderWrites(mo, bun, t)
  BY DEF MachOHeaderWrites, BunEnd
<1>3. CASE m = n /\ o \in {x + 4, x + 6}
  <2>1. seg.header = x /\ seg.filesize = Cell(im, x + 6) /\ seg.vmsize = Cell(im, x + 4)
    BY <1>1, <1>3 DEF SegmentAt
  <2>2. w \in B
    <3> HIDE DEF seg, x, grow
    <3> QED
      BY <1>3, <2>1
  <2> QED
    BY <1>2, <2>2
<1>4. ASSUME LaterCommand(im, n, end, m) PROVE g \in later
  <2>1. m \in SegmentCommands(im) /\ m # n /\ end <= Cell(im, x + 5)
    BY <1>4 DEF LaterCommand
  <2>2. g \in mo.segments
    BY <1>1, <2>1, SegmentsAre
  <2>3. g.header = x /\ g.fileoff = Cell(im, x + 5) /\ seg.header = at[n]
    BY <1>1 DEF SegmentAt
  <2>4. x # at[n]
    BY <1>1, <2>1, CommandsDiffer
  <2>5. g # seg
    BY <2>3, <2>4
  <2>6. g.fileoff >= end
    <3> HIDE DEF end, g, x
    <3> QED
      BY <2>1, <2>3
  <2> QED
    BY <2>2, <2>5, <2>6
<1>5. CASE LaterCommand(im, n, end, m) /\ o \in {x + 3, x + 5}
  <2>1. g \in later
    BY <1>4, <1>5
  <2>2. g.header = x /\ g.fileoff = Cell(im, x + 5) /\ g.vmaddr = Cell(im, x + 3)
    BY DEF SegmentAt
  <2>3. w = <<g.header + 5, g.fileoff + grow>> \/ w = <<g.header + 3, g.vmaddr + grow>>
    <3> HIDE DEF g, x, grow
    <3> QED
      BY <1>5, <2>2
  <2>4. w \in C \cup D
    <3> HIDE DEF g, w, later, grow
    <3> QED
      BY <2>1, <2>3
  <2> QED
    BY <1>2, <2>4
<1>6. CASE LaterCommand(im, n, end, m) /\ \E l \in 0 .. Cell(im, x + 7) - 1 :
              \/ o = SectionCell(x, l) + 1
              \/ o = SectionCell(x, l) + 3 /\ Cell(im, o) # 0
  <2>1. PICK l \in 0 .. Cell(im, x + 7) - 1 :
              \/ o = SectionCell(x, l) + 1
              \/ o = SectionCell(x, l) + 3 /\ Cell(im, o) # 0
    BY <1>6
  <2> DEFINE s == g.sections[l]
             y == SectionCell(x, l)
  <2>2. /\ l \in DOMAIN g.sections
        /\ s.header = y /\ s.addr = Cell(im, y + 1) /\ s.offset = Cell(im, y + 3)
    BY DEF SegmentAt, SectionCell
  <2>3. g \in later
    BY <1>4, <1>6
  <2>4. s \in sects
    <3> HIDE DEF g, later
    <3> QED
      BY <2>2, <2>3
  <2>5. \/ w = <<s.header + 1, s.addr + grow>>
        \/ w = <<s.header + 3, s.offset + grow>> /\ s.offset # 0
    <3> HIDE DEF s, grow
    <3> QED
      BY <2>1, <2>2
  <2>6. w \in E \cup F
    <3> HIDE DEF s, w, sects, grow
    <3> QED
      BY <2>4, <2>5
  <2> QED
    BY <1>2, <2>6
<1>7. CASE /\ m \notin SegmentCommands(im) /\ Cell(im, o) # 0 /\ end <= Cell(im, o)
           /\ \E j \in FileOffsetFields(Cell(im, x)) : o = x + j
  <2>1. PICK j \in FileOffsetFields(Cell(im, x)) : o = x + j
    BY <1>7
  <2> DEFINE f == [at |-> x + j, value |-> Cell(im, x + j)]
  <2>2. f \in mo.file_offset_fields
    BY <1>1, <2>1 DEF MachOParse
  <2>3. f.at = o /\ f.value = Cell(im, o)
    BY <2>1
  <2>4. f \in fields
    <3> HIDE DEF f, end
    <3>1. f.value # 0 /\ f.value >= end
      BY <1>7, <2>3
    <3> QED
      BY <2>2, <3>1
  <2>5. w = <<f.at, f.value + grow>>
    BY <2>3
  <2>6. w \in G
    <3> HIDE DEF f, w, fields, grow
    <3> QED
      BY <2>4, <2>5
  <2> QED
    BY <1>2, <2>6
<1> QED
  BY <1>3, <1>5, <1>6, <1>7 DEF Bumped

-----------------------------------------------------------------------------
(* The segments of a loadable image.                                       *)

\* Segment command m of im is where a linker puts it.
SegmentFits(im, c, n, m) ==
    LET x == CommandOffsets(im)[m]
        x_end == Cell(im, x + 5) + Cell(im, x + 6)
    IN /\ Cell(im, x + 5) % c.layout.page_size = 0 /\ Cell(im, x + 3) % c.layout.page_size = 0
       /\ 0 <= Cell(im, x + 6) /\ x_end <= Len(im)
       /\ m # n => x_end <= Cell(im, CommandOffsets(im)[n] + 5) \/ BunEnd(c) <= Cell(im, x + 5)
       /\ \/ x_end = Len(im)
          \/ \E h \in SegmentCommands(im) :
                /\ Cell(im, CommandOffsets(im)[h] + 5) = x_end
                /\ Cell(im, x + 3) + Cell(im, x + 4) <= Cell(im, CommandOffsets(im)[h] + 3)
       /\ \A l \in 0 .. Cell(im, x + 7) - 1 :
             LET y == SectionCell(x, l)
             IN Cell(im, y + 3) # 0 =>
                   /\ CommandOffsets(im)[Cell(im, 2)] <= Cell(im, y + 3)
                   /\ Cell(im, x + 5) <= Cell(im, y + 3) /\ 0 <= Cell(im, y + 2)
                   /\ Cell(im, y + 3) + Cell(im, y + 2) <= x_end

LEMMA SegmentCells ==
    ASSUME NEW b, NEW x
    PROVE  LET g == SegmentAt(b, x)
           IN /\ g.header = x /\ g.segname = Cell(b, x + 2)
              /\ g.vmaddr = Cell(b, x + 3) /\ g.vmsize = Cell(b, x + 4)
              /\ g.fileoff = Cell(b, x + 5) /\ g.filesize = Cell(b, x + 6)
              /\ FileEnd(g) = Cell(b, x + 5) + Cell(b, x + 6)
              /\ DOMAIN g.sections = 0 .. Cell(b, x + 7) - 1
              /\ \A l \in 0 .. Cell(b, x + 7) - 1 :
                    /\ g.sections[l].addr = Cell(b, SectionCell(x, l) + 1)
                    /\ g.sections[l].size = Cell(b, SectionCell(x, l) + 2)
                    /\ g.sections[l].offset = Cell(b, SectionCell(x, l) + 3)
  BY DEF SegmentAt, SectionCell, FileEnd

LEMMA BunEndIs ==
    ASSUME NEW im, NEW c, NEW n, NEW k, MachOBun(im, c, n, k)
    PROVE  LET x == CommandOffsets(im)[n]
           IN /\ SegmentByName(c.layout, BUN_SEGNAME) = SegmentAt(im, x)
              /\ BunEnd(c) = Cell(im, x + 5) + Cell(im, x + 6)
              /\ BunEnd(c) \in Int /\ Cell(im, x + 5) \in Int
<1>1. SegmentByName(c.layout, BUN_SEGNAME) = SegmentAt(im, CommandOffsets(im)[n])
      /\ SegmentIn(im, CommandOffsets(im)[n])
  BY DEF MachOBun, IsBunSect
<1>2. BunEnd(c) = Cell(im, CommandOffsets(im)[n] + 5) + Cell(im, CommandOffsets(im)[n] + 6)
  BY <1>1, SegmentCells DEF BunEnd
<1>3. /\ Cell(im, CommandOffsets(im)[n] + 5) \in Int
      /\ Cell(im, CommandOffsets(im)[n] + 6) \in Int
  BY <1>1 DEF SegmentIn
<1> QED
  BY <1>1, <1>2, <1>3

LEMMA SegmentsFit ==
    ASSUME NEW im, NEW c, InContext(im, c), ~c.is_elf,
           NEW n, NEW k, MachOBun(im, c, n, k), NEW m \in SegmentCommands(im)
    PROVE  SegmentFits(im, c, n, m)
<1> DEFINE at == CommandOffsets(im)
           mo == c.layout
           bun == SegmentByName(mo, BUN_SEGNAME)
           x == at[m]
           g == SegmentAt(im, x)
           g_end == Cell(im, x + 5) + Cell(im, x + 6)
           page == mo.page_size
<1>1. /\ mo = MachOParse(im) /\ MachOParses(im) /\ im \in Seq(Int) /\ CommandsIn(im)
      /\ n \in SegmentCommands(im)
  BY DEF MachOBun
<1>2. MachOPartsPlaced(im, c)
  BY ContextIs DEF MachOWellPlaced
<1>3. g \in mo.segments
  BY <1>1, SegmentsAre
<1>4. /\ g.header = x /\ g.vmaddr = Cell(im, x + 3) /\ g.vmsize = Cell(im, x + 4)
      /\ g.fileoff = Cell(im, x + 5) /\ g.filesize = Cell(im, x + 6)
      /\ FileEnd(g) = g_end /\ DOMAIN g.sections = 0 .. Cell(im, x + 7) - 1
  BY SegmentCells
<1>5. /\ bun = SegmentAt(im, at[n]) /\ BunEnd(c) = FileEnd(bun)
      /\ bun.fileoff = Cell(im, at[n] + 5) /\ bun.header = at[n]
      /\ FileEnd(bun) = bun.fileoff + bun.filesize
  BY BunEndIs, SegmentCells DEF BunEnd, FileEnd
<1>6. Mapped(mo, page, Len(im))
  BY <1>2 DEF MachOPartsPlaced
<1>7. /\ 0 <= g.filesize /\ FileEnd(g) <= Len(im)
      /\ g # bun => Beside(g.fileoff, g.filesize, bun.fileoff, bun.filesize)
      /\ \A l \in DOMAIN g.sections : g.sections[l].offset # 0 =>
            /\ at[Cell(im, 2)] <= g.sections[l].offset /\ g.fileoff <= g.sections[l].offset
            /\ 0 <= g.sections[l].size
            /\ g.sections[l].offset + g.sections[l].size <= FileEnd(g)
  BY <1>2, <1>3 DEF MachOPartsPlaced
<1>8. /\ g.fileoff % page = 0 /\ g.vmaddr % page = 0
      /\ FileEnd(g) = Len(im) \/ \E h \in mo.segments : /\ h.fileoff = FileEnd(g)
                                                         /\ g.vmaddr + g.vmsize <= h.vmaddr
  BY <1>3, <1>6 DEF Mapped
<1>9. m # n => g_end <= Cell(im, at[n] + 5) \/ BunEnd(c) <= Cell(im, x + 5)
  <2> SUFFICES ASSUME m # n
               PROVE  g_end <= Cell(im, at[n] + 5) \/ BunEnd(c) <= Cell(im, x + 5)
    OBVIOUS
  <2>1. x # at[n]
    <3>1. m \in 0 .. Cell(im, 2) - 1 /\ n \in 0 .. Cell(im, 2) - 1
      BY <1>1 DEF SegmentCommands
    <3> QED
      BY <1>1, <3>1, CommandsDiffer
  <2>2. g # bun
    BY <1>4, <1>5, <2>1
  <2>3. \/ g.fileoff + g.filesize <= bun.fileoff
        \/ bun.fileoff + bun.filesize <= g.fileoff
    BY <1>7, <2>2 DEF Beside
  <2> QED
    BY <1>4, <1>5, <2>3
<1>10. \/ g_end = Len(im)
       \/ \E h \in SegmentCommands(im) :
             /\ Cell(im, at[h] + 5) = g_end
             /\ Cell(im, x + 3) + Cell(im, x + 4) <= Cell(im, at[h] + 3)
  <2> SUFFICES ASSUME NEW e \in mo.segments, e.fileoff = FileEnd(g),
                      g.vmaddr + g.vmsize <= e.vmaddr
               PROVE  \E h \in SegmentCommands(im) :
                         /\ Cell(im, at[h] + 5) = g_end
                         /\ Cell(im, x + 3) + Cell(im, x + 4) <= Cell(im, at[h] + 3)
    BY <1>4, <1>8
  <2>1. PICK h \in SegmentCommands(im) : e = SegmentAt(im, at[h])
    BY <1>1, SegmentsAre
  <2>2. e.fileoff = Cell(im, at[h] + 5) /\ e.vmaddr = Cell(im, at[h] + 3)
    BY <2>1, SegmentCells
  <2> QED
    BY <1>4, <2>2
<1>11. ASSUME NEW l \in 0 .. Cell(im, x + 7) - 1, Cell(im, SectionCell(x, l) + 3) # 0
       PROVE  /\ at[Cell(im, 2)] <= Cell(im, SectionCell(x, l) + 3)
              /\ Cell(im, x + 5) <= Cell(im, SectionCell(x, l) + 3)
              /\ 0 <= Cell(im, SectionCell(x, l) + 2)
              /\ Cell(im, SectionCell(x, l) + 3) + Cell(im, SectionCell(x, l) + 2) <= g_end
  <2>1. /\ g.sections[l].size = Cell(im, SectionCell(x, l) + 2)
        /\ g.sections[l].offset = Cell(im, SectionCell(x, l) + 3)
    BY SegmentCells
  <2> QED
    BY <1>4, <1>7, <1>11, <2>1
<1> QED
  BY <1>4, <1>7, <1>8, <1>9, <1>10, <1>11 DEF SegmentFits

\* .bun lies in its segment, which lies in the file.
BunFits(im, c, n, L, off, size, table_end, from, end) ==
    /\ L = Len(im) /\ off = c.bun.bun_offset /\ size = c.bun.bun_size
    /\ table_end = CommandOffsets(im)[Cell(im, 2)]
    /\ from = Cell(im, CommandOffsets(im)[n] + 5) /\ end = BunEnd(c)
    /\ L \in Nat /\ off \in Nat /\ size \in Nat /\ table_end \in Nat
    /\ from \in Int /\ end \in Int /\ 9 <= size
    /\ 4 <= table_end /\ table_end <= off /\ from <= off /\ off + size <= end /\ end <= L
    /\ end = from + Cell(im, CommandOffsets(im)[n] + 6)

LEMMA BunFitsIn ==
    ASSUME NEW im, NEW c, InContext(im, c), ~c.is_elf, NEW S, PlanIn(c, S),
           NEW n, NEW k, MachOBun(im, c, n, k)
    PROVE  BunFits(im, c, n, Len(im), c.bun.bun_offset, c.bun.bun_size,
                   CommandOffsets(im)[Cell(im, 2)], Cell(im, CommandOffsets(im)[n] + 5), BunEnd(c))
<1> DEFINE L == Len(im)
           off == c.bun.bun_offset
           size == c.bun.bun_size
           table_end == CommandOffsets(im)[Cell(im, 2)]
           x == CommandOffsets(im)[n]
           y == SectionCell(x, k)
           from == Cell(im, x + 5)
           end == BunEnd(c)
<1>1. L \in Nat /\ off \in Nat /\ size \in Nat /\ 9 <= size
  <2> DEFINE start == c.bun.payload_start
             table == TableAt(c)
             len == c.bun.modules_ptr.length
             at == c.bun.offsets_struct_offset
  <2>1. Frame(L, 0, off, size, start, table, len, at)
    BY BoundsAre DEF Bounds
  <2> HIDE DEF L, off, size, start, table, len, at
  <2> QED
    BY <2>1 DEF Frame
<1>2. /\ n \in SegmentCommands(im) /\ k \in 0 .. Cell(im, x + 7) - 1 /\ CommandsIn(im)
      /\ table_end <= off /\ size = Cell(im, y + 2) /\ off = Cell(im, y + 3)
  BY DEF MachOBun, IsBunSect, SectionCell
<1>3. table_end \in Nat /\ 4 <= table_end
  <2>1. /\ Cell(im, 2) \in Nat
        /\ \A h \in 0 .. Cell(im, 2) : CommandOffsets(im)[h] \in Nat /\ 4 <= CommandOffsets(im)[h]
    BY <1>2 DEF CommandsIn
  <2> QED
    BY <2>1
<1>4. from \in Int /\ end \in Int /\ end = from + Cell(im, x + 6)
  BY BunEndIs
<1>5. off # 0
  <2> HIDE DEF off, table_end
  <2> QED
    BY <1>1, <1>2, <1>3
<1>6. /\ from <= off /\ off + size <= end /\ end <= L
  <2>1. SegmentFits(im, c, n, n)
    BY <1>2, SegmentsFit
  <2>2. /\ from + Cell(im, x + 6) <= L
        /\ Cell(im, y + 3) # 0 =>
              from <= Cell(im, y + 3) /\ Cell(im, y + 3) + Cell(im, y + 2) <= from + Cell(im, x + 6)
    BY <1>2, <2>1 DEF SegmentFits
  <2> HIDE DEF L, off, size, table_end, x, y, from, end
  <2> QED
    BY <1>2, <1>4, <1>5, <2>2
<1> QED
  BY <1>1, <1>2, <1>3, <1>4, <1>6 DEF BunFits

\* The segment of .bun grows by whole pages, and by enough of them.
LEMMA GrowsEnough ==
    ASSUME NEW im, NEW c, InContext(im, c), ~c.is_elf, NEW S, PlanIn(c, S),
           NEW n, NEW k, MachOBun(im, c, n, k), NEW t \in Int
    PROVE  LET grow == Grow(c.layout, c.bun, t)
               pad == Pad(c.layout, c.bun)
           IN /\ grow \in Nat /\ grow % c.layout.page_size = 0
              /\ pad \in Nat /\ pad = BunEnd(c) - (c.bun.bun_offset + c.bun.bun_size)
              /\ t <= pad + grow
              /\ t <= pad => grow = 0
              /\ c.layout.page_size \in Int /\ 0 < c.layout.page_size
<1> DEFINE grow == Grow(c.layout, c.bun, t)
           pad == Pad(c.layout, c.bun)
           page == c.layout.page_size
           off == c.bun.bun_offset
           size == c.bun.bun_size
           end == BunEnd(c)
<1>1. pad = end - (off + size)
  BY DEF Pad, BunEnd, PayloadRegionEnd
<1>2. end \in Int /\ off \in Nat /\ size \in Nat /\ off + size <= end
  <2> DEFINE L == Len(im)
             table_end == CommandOffsets(im)[Cell(im, 2)]
             from == Cell(im, CommandOffsets(im)[n] + 5)
  <2>1. BunFits(im, c, n, L, off, size, table_end, from, end)
    BY BunFitsIn
  <2> HIDE DEF L, off, size, table_end, from, end
  <2> QED
    BY <2>1 DEF BunFits
<1>3. page \in Int /\ 0 < page
  BY DEF MachOBun
<1>4. grow = IF t <= pad THEN 0 ELSE RoundUp(t - pad, page)
  BY DEF Grow
<1> HIDE DEF grow, pad, page, off, size, end
<1>5. pad \in Nat
  BY <1>1, <1>2
<1>6. CASE t <= pad
  <2>1. 0 % page = 0
    <3>1. (page * 0) % page = 0
      BY <1>3, MultipleOf
    <3>2. page * 0 = 0
      BY <1>3
    <3> QED
      BY <3>1, <3>2
  <2>2. grow = 0
    BY <1>4, <1>6
  <2>3. t <= pad + grow
    BY <1>5, <1>6, <2>2
  <2>4. grow % page = 0
    BY <2>1, <2>2
  <2> QED
    BY <1>1, <1>3, <1>5, <2>2, <2>3, <2>4 DEF grow, pad, page, off, size, end
<1>7. CASE ~(t <= pad)
  <2> DEFINE d == t - pad
             r == RoundUp(d, page)
  <2>1. d \in Int /\ 0 < d
    BY <1>5, <1>7
  <2> HIDE DEF d
  <2>2. r \in Int /\ d <= r /\ r % page = 0
    BY <1>3, <2>1, RoundUpIs
  <2>3. grow = r
    BY <1>4, <1>7 DEF d
  <2> HIDE DEF r
  <2>4. grow \in Nat /\ t <= pad + grow
    BY <1>5, <2>1, <2>2, <2>3 DEF d
  <2> QED
    BY <1>1, <1>3, <1>5, <1>7, <2>2, <2>3, <2>4 DEF grow, pad, page, off, size, end
<1> QED
  BY <1>6, <1>7

-----------------------------------------------------------------------------
(* The load commands of the output.                                        *)

HeaderCell(b, im, c, n, k, t, m, o) ==
    Cell(b, o) = IF o = SectionCell(CommandOffsets(im)[n], k) + 2 THEN c.bun.bun_size + t
                 ELSE IF Bumped(im, n, BunEnd(c), m, o)
                      THEN Cell(im, o) + Grow(c.layout, c.bun, t)
                 ELSE Cell(im, o)

LEMMA BunSizeNotBumped ==
    ASSUME NEW im, NEW c, NEW n, NEW k, MachOBun(im, c, n, k), c.bun.bun_offset \in Nat,
           NEW m \in 0 .. Cell(im, 2) - 1
    PROVE  ~Bumped(im, n, BunEnd(c), m, SectionCell(CommandOffsets(im)[n], k) + 2)
<1> DEFINE at == CommandOffsets(im)
           x == at[n]
           y == SectionCell(x, k)
           o == y + 2
<1>1. /\ x \in Nat /\ y \in Nat /\ x + 8 <= y /\ y + 4 <= at[n + 1] /\ at[n + 1] \in Nat
      /\ n \in 0 .. Cell(im, 2) - 1
  BY BunSectRange
<1>2. CommandsIn(im) /\ n \in SegmentCommands(im)
  BY DEF MachOBun
<1> SUFFICES ASSUME Bumped(im, n, BunEnd(c), m, o) PROVE FALSE
  OBVIOUS
<1>3. TargetIn(im, m, o)
  BY <1>2, BumpedIsTarget
<1>4. \A h \in SegmentCommands(im) : SegmentIn(im, at[h])
  <2>1. MachOParses(im) /\ im \in Seq(Int)
    BY DEF MachOBun
  <2> QED
    BY <2>1, SegmentsAre
<1>5. at[m] + 2 <= o /\ o < at[m + 1]
  <2>1. m \in SegmentCommands(im) => SegmentIn(im, at[m])
    BY <1>4
  <2> QED
    BY <1>2, <1>3, <2>1, TargetRange
<1>6. at[m] \in Int
  BY <1>2 DEF CommandsIn
<1>7. m = n
  <2> DEFINE z == at[m]
             z_end == at[m + 1]
             end == at[n + 1]
  <2>1. /\ o \in Int /\ z <= o /\ o < z_end /\ x <= o /\ o < end
    <3> HIDE DEF x, y, z, z_end, end
    <3>1. z \in Int /\ z + 2 <= y + 2 /\ y + 2 < z_end
      BY <1>5, <1>6 DEF z, z_end
    <3>2. x \in Nat /\ y \in Nat /\ x + 8 <= y /\ y + 4 <= end /\ end \in Nat
      BY <1>1 DEF end
    <3> QED
      BY <3>1, <3>2
  <2> QED
    BY <1>1, <1>2, <2>1, OneCommand
<1>8. o = x + 4 \/ o = x + 6
  BY <1>2, <1>7 DEF Bumped, LaterCommand
<1> HIDE DEF x, y
<1> QED
  BY <1>1, <1>8

\* Nothing but the values above is written where several edits grow.
LEMMA HeaderPacked ==
    ASSUME NEW im, NEW c, InContext(im, c), ~c.is_elf, NEW S, PlanIn(c, S),
           NEW n, NEW k, MachOBun(im, c, n, k), NEW p, Kept(p, im, c, S),
           PaddingAccepted(p, c.layout, c.bun, DeltaSum(S)), NEW b,
           b = PackInto(Repad(p, c.layout, c.bun, DeltaSum(S)),
                        MachOHeaderWrites(c.layout, c.bun, DeltaSum(S))),
           NEW m \in 0 .. Cell(im, 2) - 1, NEW o \in Int,
           CommandOffsets(im)[m] <= o, o < CommandOffsets(im)[m + 1]
    PROVE  HeaderCell(b, im, c, n, k, DeltaSum(S), m, o)
<1> DEFINE t == DeltaSum(S)
           off == c.bun.bun_offset
           size == c.bun.bun_size
           W == MachOHeaderWrites(c.layout, c.bun, t)
           q == Repad(p, c.layout, c.bun, t)
           at == CommandOffsets(im)
           y == SectionCell(at[n], k)
           grow == Grow(c.layout, c.bun, t)
           end == BunEnd(c)
<1>1. off \in Nat /\ size \in Nat /\ t \in Int /\ 9 <= size + t
  <2> DEFINE L == Len(im)
             start == c.bun.payload_start
             table == TableAt(c)
             len == c.bun.modules_ptr.length
             struct == c.bun.offsets_struct_offset
  <2>1. Frame(L, t, off, size, start, table, len, struct)
    BY BoundsAre DEF Bounds
  <2> HIDE DEF L, t, off, size, start, table, len, struct
  <2> QED
    BY <2>1 DEF Frame
<1>2. /\ q \in Seq(Int) /\ SamePayload(q, p, c, t)
      /\ \A v \in 0 .. off - 1 : Cell(q, v) = Cell(p, v)
  BY RepadCells
<1>3. /\ CommandsIn(im) /\ n \in SegmentCommands(im) /\ im \in Seq(Int) /\ MachOParses(im)
      /\ at[Cell(im, 2)] <= off
  BY DEF MachOBun
<1>4. \A v \in 0 .. off - 1 : Cell(p, v) = Cell(im, v)
  BY KeptOutside
<1>5. o \in 0 .. off - 1
  <2> DEFINE x == at[m]
             x_end == at[m + 1]
             z == at[Cell(im, 2)]
  <2>1. x \in Nat /\ x_end <= z /\ z \in Nat /\ x_end \in Nat
    <3>1. CommandRange(im, m, x, x_end)
      BY <1>3, CommandRanges
    <3> DEFINE u == Cell(im, x + 1)
    <3>2. x \in Nat /\ u \in Nat /\ x_end = x + u /\ x_end <= z /\ z \in Nat
      BY <3>1 DEF CommandRange
    <3> HIDE DEF x, x_end, z, u
    <3> QED
      BY <3>2
  <2> HIDE DEF off
  <2> QED
    BY <1>1, <1>3, <2>1
<1>6. Cell(q, o) = Cell(im, o)
  BY <1>2, <1>4, <1>5
<1>7. \A w \in W : w[2] \in Int
  <2> SUFFICES ASSUME NEW w \in W PROVE w[2] \in Int
    OBVIOUS
  <2>1. MachOWrite(im, c, n, k, w)
    BY <1>1, MachOWritesAre
  <2> QED
    BY <2>1 DEF MachOWrite
<1>8. IntWrites(W)
  BY <1>7 DEF IntWrites
<1>9. o \in 0 .. Len(q) - 1
  <2>1. off + size + t <= Len(q) /\ Len(q) \in Nat
    BY <1>2, LenProperties DEF SamePayload
  <2> HIDE DEF off, size, t, q
  <2> QED
    BY <1>1, <1>5, <2>1
<1>10. /\ (\A w \in W : w[1] # o) => Cell(b, o) = Cell(q, o)
       /\ \A v : <<o, v>> \in W /\ (\A w \in W : w[1] = o => w[2] = v) => Cell(b, o) = v
  BY <1>2, <1>8, <1>9, PackedCell
<1>11. ASSUME NEW w \in W, w[1] = o
       PROVE  \/ o = y + 2 /\ w[2] = size + t
              \/ Bumped(im, n, end, m, o) /\ w[2] = Cell(im, o) + grow
  <2>1. \/ w = <<y + 2, size + t>>
        \/ \E h \in 0 .. Cell(im, 2) - 1 :
              /\ Bumped(im, n, end, h, w[1])
              /\ w[2] = Cell(im, w[1]) + grow
    BY <1>1, WriteIs
  <2>2. CASE w = <<y + 2, size + t>>
    <3> HIDE DEF y, size, t
    <3> QED
      BY <1>11, <2>2
  <2>3. ASSUME NEW h \in 0 .. Cell(im, 2) - 1, Bumped(im, n, end, h, o),
               w[2] = Cell(im, o) + grow
        PROVE  Bumped(im, n, end, m, o) /\ w[2] = Cell(im, o) + grow
    <3>1. TargetIn(im, h, o)
      BY <1>3, <2>3, BumpedIsTarget
    <3>2. h \in SegmentCommands(im) => SegmentIn(im, at[h])
      BY <1>3, SegmentsAre
    <3>3. at[h] + 2 <= o /\ o < at[h + 1]
      BY <1>3, <3>1, <3>2, TargetRange
    <3>4. at[h] \in Int
      BY <1>3 DEF CommandsIn
    <3>5. at[h] <= o
      <4> DEFINE x == at[h]
      <4>1. x \in Int /\ x + 2 <= o
        BY <3>3, <3>4
      <4> HIDE DEF x
      <4>2. x <= o
        BY <4>1
      <4> QED
        BY <4>2 DEF x
    <3>6. h = m
      BY <1>3, <3>3, <3>5, OneCommand
    <3> QED
      BY <2>3, <3>6
  <2> QED
    BY <1>11, <2>1, <2>2, <2>3
<1>12. CASE o = y + 2
  <2>1. ~Bumped(im, n, end, m, o)
    BY <1>1, <1>12, BunSizeNotBumped
  <2>2. \A w \in W : w[1] = o => w[2] = size + t
    BY <1>11, <2>1
  <2>3. <<o, size + t>> \in W
    <3>1. BunSect(c.layout).header = y
      BY DEF MachOBun, IsBunSect, SectionCell
    <3> QED
      BY <1>12, <3>1 DEF MachOHeaderWrites
  <2>4. Cell(b, o) = size + t
    <3> HIDE DEF W, size, t
    <3> QED
      BY <1>10, <2>2, <2>3
  <2> QED
    BY <1>12, <2>4 DEF HeaderCell
<1>13. CASE o # y + 2 /\ ~Bumped(im, n, end, m, o)
  <2>1. \A w \in W : w[1] # o
    BY <1>11, <1>13
  <2>2. Cell(b, o) = Cell(im, o)
    BY <1>6, <1>10, <2>1
  <2> QED
    BY <1>13, <2>2 DEF HeaderCell
<1>14. CASE o # y + 2 /\ Bumped(im, n, end, m, o)
  <2>1. \A w \in W : w[1] = o => w[2] = Cell(im, o) + grow
    BY <1>11, <1>14
  <2>2. CASE grow # 0
    <3>1. <<o, Cell(im, o) + grow>> \in W
      BY <1>1, <1>14, <2>2, BumpIsWritten
    <3>2. Cell(b, o) = Cell(im, o) + grow
      <4> HIDE DEF W, grow
      <4> QED
        BY <1>10, <2>1, <3>1
    <3> QED
      BY <1>14, <3>2 DEF HeaderCell
  <2>3. CASE grow = 0
    <3>1. Cell(im, o) \in Int
      <4>1. off + size <= Len(im)
        <5> DEFINE L == Len(im)
                   start == c.bun.payload_start
                   table == TableAt(c)
                   len == c.bun.modules_ptr.length
                   struct == c.bun.offsets_struct_offset
        <5>1. Frame(L, t, off, size, start, table, len, struct)
          BY BoundsAre DEF Bounds
        <5> HIDE DEF L, t, off, size, start, table, len, struct
        <5> QED
          BY <5>1 DEF Frame, L
      <4>2. o \in 0 .. Len(im) - 1
        <5>1. Len(im) \in Nat
          BY <1>3, LenProperties
        <5> HIDE DEF off, size
        <5> QED
          BY <1>1, <1>5, <4>1, <5>1
      <4> QED
        BY <1>3, <4>2, CellInt
    <3>2. Cell(im, o) + grow = Cell(im, o)
      BY <2>3, <3>1
    <3>3. Cell(b, o) = Cell(im, o)
      <4>1. BunSect(c.layout).header = y
        BY DEF MachOBun, IsBunSect, SectionCell
      <4>2. W = {<<y + 2, size + t>>}
        BY <2>3, <4>1 DEF MachOHeaderWrites
      <4>3. \A w \in W : w[1] # o
        <5> HIDE DEF W, y, size, t
        <5> QED
          BY <1>14, <4>2
      <4> QED
        BY <1>6, <1>10, <4>3
    <3> QED
      BY <1>14, <3>2, <3>3 DEF HeaderCell
  <2> QED
    BY <2>2, <2>3
<1> QED
  BY <1>12, <1>13, <1>14

LEMMA HeaderCells ==
    ASSUME NEW im, NEW c, InContext(im, c), ~c.is_elf, NEW S, PlanIn(c, S),
           NEW n, NEW k, MachOBun(im, c, n, k), NEW p, Kept(p, im, c, S),
           NEW b, ContainerDone(b, p, c, S),
           NEW m \in 0 .. Cell(im, 2) - 1, NEW o \in Int,
           CommandOffsets(im)[m] <= o, o < CommandOffsets(im)[m + 1]
    PROVE  /\ HeaderCell(b, im, c, n, k, DeltaSum(S), m, o)
           /\ o \in 0 .. c.bun.bun_offset - 1 /\ Cell(im, o) \in Int
<1> DEFINE t == DeltaSum(S)
           off == c.bun.bun_offset
           size == c.bun.bun_size
           at == CommandOffsets(im)
           y == SectionCell(at[n], k)
           grow == Grow(c.layout, c.bun, t)
           L == Len(im)
           table_end == CommandOffsets(im)[Cell(im, 2)]
           from == Cell(im, CommandOffsets(im)[n] + 5)
           end == BunEnd(c)
<1>1. BunFits(im, c, n, L, off, size, table_end, from, end)
  BY BunFitsIn
<1>2. off \in Nat /\ size \in Nat /\ table_end \in Nat /\ table_end <= off
      /\ off + size <= L /\ L \in Nat
  <2> HIDE DEF L, off, size, table_end, from, end
  <2> QED
    BY <1>1 DEF BunFits
<1>3. CommandsIn(im) /\ im \in Seq(Int)
  BY DEF MachOBun
<1>4. o \in 0 .. off - 1
  <2> DEFINE x == at[m]
             x_end == at[m + 1]
             u == Cell(im, x + 1)
  <2>1. x \in Nat /\ u \in Nat /\ x_end = x + u /\ x_end <= table_end
    BY <1>3, CommandRanges DEF CommandRange
  <2> HIDE DEF x, x_end, u, off, table_end
  <2>2. x <= o /\ o < x_end
    BY DEF x, x_end
  <2> QED
    BY <1>2, <2>1, <2>2
<1>5. Cell(im, o) \in Int
  <2>1. o \in 0 .. L - 1
    <3> HIDE DEF off, size, L, table_end
    <3> QED
      BY <1>2, <1>4
  <2> QED
    BY <1>3, <2>1, CellInt
<1>6. CASE b = p /\ \A e \in S : ~Growable(e)
  <2>1. t = 0
    <3>1. EditSet(S) /\ {} \subseteq S /\ \A e \in S \ {} : ~Growable(e)
      BY <1>6 DEF PlanIn
    <3>2. t = DeltaSum({})
      BY <3>1, SumGrowables
    <3> QED
      BY <3>2, SumNone
  <2>2. Cell(p, o) = Cell(im, o)
    BY <1>4, KeptOutside
  <2>3. grow = 0
    <3> DEFINE pad == Pad(c.layout, c.bun)
    <3>1. pad \in Nat /\ (t <= pad => grow = 0)
      BY <2>1, GrowsEnough
    <3> HIDE DEF pad, t, grow
    <3> QED
      BY <2>1, <3>1
  <2>4. Cell(im, y + 2) = size /\ size + t = size
    <3>1. Cell(im, y + 2) = size
      BY DEF MachOBun, IsBunSect, SectionCell
    <3> HIDE DEF size, t
    <3> QED
      BY <1>2, <2>1, <3>1
  <2>5. Cell(im, o) + grow = Cell(im, o)
    <3> HIDE DEF grow
    <3> QED
      BY <1>5, <2>3
  <2>6. HeaderCell(b, im, c, n, k, t, m, o)
    BY <1>6, <2>2, <2>4, <2>5 DEF HeaderCell
  <2> QED
    BY <1>4, <1>5, <2>6
<1>7. CASE /\ PaddingAccepted(p, c.layout, c.bun, t)
           /\ b = PackInto(Repad(p, c.layout, c.bun, t), MachOHeaderWrites(c.layout, c.bun, t))
  BY <1>4, <1>5, <1>7, HeaderPacked
<1> QED
  BY <1>6, <1>7 DEF ContainerDone

\* A segment command at x whose place in the file and in memory moves by d.
SegmentOut(b, im, x, d) ==
    /\ Cell(b, x + 3) = Cell(im, x + 3) + d /\ Cell(b, x + 4) = Cell(im, x + 4)
    /\ Cell(b, x + 5) = Cell(im, x + 5) + d /\ Cell(b, x + 6) = Cell(im, x + 6)
    /\ \A l \in 0 .. Cell(im, x + 7) - 1 :
          LET y == SectionCell(x, l)
          IN /\ Cell(b, y + 1) = Cell(im, y + 1) + d /\ Cell(b, y + 2) = Cell(im, y + 2)
             /\ Cell(b, y + 3) = IF Cell(im, y + 3) = 0 THEN 0 ELSE Cell(im, y + 3) + d

\* The segment command of .bun at x, whose segment grows by d.
BunSegmentOut(b, im, x, d) ==
    /\ Cell(b, x + 3) = Cell(im, x + 3) /\ Cell(b, x + 4) = Cell(im, x + 4) + d
    /\ Cell(b, x + 5) = Cell(im, x + 5) /\ Cell(b, x + 6) = Cell(im, x + 6) + d
    /\ \A l \in 0 .. Cell(im, x + 7) - 1 :
          LET y == SectionCell(x, l)
          IN Cell(b, y + 1) = Cell(im, y + 1) /\ Cell(b, y + 3) = Cell(im, y + 3)

\* The cells of a segment command are all in it.
LEMMA CellsInCommand ==
    ASSUME NEW im, CommandsIn(im), NEW m \in SegmentCommands(im),
           SegmentIn(im, CommandOffsets(im)[m])
    PROVE  LET x == CommandOffsets(im)[m]
               end == CommandOffsets(im)[m + 1]
           IN /\ x \in Nat /\ end \in Nat /\ x + 8 <= end
              /\ \A l \in 0 .. Cell(im, x + 7) - 1 :
                    /\ l \in Nat /\ SectionCell(x, l) \in Nat
                    /\ SectionCell(x, l) = x + 8 + l * 4 /\ SectionCell(x, l) + 4 <= end
<1> DEFINE x == CommandOffsets(im)[m]
           end == CommandOffsets(im)[m + 1]
           z == Cell(im, x + 1)
<1>1. m \in 0 .. Cell(im, 2) - 1
  BY DEF SegmentCommands
<1>2. x \in Nat /\ z \in Nat /\ end = x + z
  BY <1>1, CommandRanges DEF CommandRange
<1>3. 8 <= z
  BY DEF SegmentIn
<1>4. \A l \in 0 .. Cell(im, x + 7) - 1 :
         /\ SectionCell(x, l) \in Nat
         /\ SectionCell(x, l) + 4 <= x + z
         /\ l \in Nat /\ SectionCell(x, l) = x + 8 + l * 4
  BY SectionInCommand
<1> HIDE DEF x, z, end
<1> QED
  BY <1>2, <1>3, <1>4 DEF x, end

LEMMA OtherCells ==
    ASSUME NEW im, NEW c, InContext(im, c), ~c.is_elf, NEW S, PlanIn(c, S),
           NEW n, NEW k, MachOBun(im, c, n, k), NEW p, Kept(p, im, c, S),
           NEW b, ContainerDone(b, p, c, S),
           NEW m \in 0 .. Cell(im, 2) - 1, m # n, NEW o \in Int,
           CommandOffsets(im)[m] <= o, o < CommandOffsets(im)[m + 1]
    PROVE  /\ Cell(b, o) = IF Bumped(im, n, BunEnd(c), m, o)
                           THEN Cell(im, o) + Grow(c.layout, c.bun, DeltaSum(S))
                           ELSE Cell(im, o)
           /\ o \in 0 .. c.bun.bun_offset - 1 /\ Cell(im, o) \in Int
<1>1. /\ HeaderCell(b, im, c, n, k, DeltaSum(S), m, o)
      /\ o \in 0 .. c.bun.bun_offset - 1 /\ Cell(im, o) \in Int
  BY HeaderCells
<1>2. CommandsIn(im)
  BY DEF MachOBun
<1>3. c.bun.bun_offset \in Nat
  BY BoundsAre DEF Bounds, Frame
<1> DEFINE x == CommandOffsets(im)[n]
           x_end == CommandOffsets(im)[n + 1]
           y == SectionCell(x, k)
<1>4. /\ x \in Nat /\ y \in Nat /\ x + 8 <= y /\ y + 4 <= x_end /\ x_end \in Nat
      /\ n \in 0 .. Cell(im, 2) - 1
  BY <1>3, BunSectRange
<1>5. o # y + 2
  <2> SUFFICES ASSUME o = y + 2 PROVE FALSE
    OBVIOUS
  <2>1. x <= o /\ o < x_end
    <3> HIDE DEF x, x_end, y
    <3> QED
      BY <1>4
  <2> QED
    BY <1>2, <1>4, <2>1, OneCommand
<1> QED
  BY <1>1, <1>5 DEF HeaderCell

LEMMA OtherSegmentOut ==
    ASSUME NEW im, NEW c, InContext(im, c), ~c.is_elf, NEW S, PlanIn(c, S),
           NEW n, NEW k, MachOBun(im, c, n, k), NEW p, Kept(p, im, c, S),
           NEW b, ContainerDone(b, p, c, S), NEW m \in SegmentCommands(im), m # n
    PROVE  SegmentOut(b, im, CommandOffsets(im)[m],
                      IF LaterCommand(im, n, BunEnd(c), m)
                      THEN Grow(c.layout, c.bun, DeltaSum(S)) ELSE 0)
<1> DEFINE at == CommandOffsets(im)
           x == at[m]
           x_end == at[m + 1]
           end == BunEnd(c)
           grow == Grow(c.layout, c.bun, DeltaSum(S))
           B(o) == Bumped(im, n, end, m, o)
           last == Cell(im, x + 7) - 1
           Y(l) == SectionCell(x, l)
<1>1. /\ CommandsIn(im) /\ im \in Seq(Int) /\ MachOParses(im)
      /\ m \in 0 .. Cell(im, 2) - 1
  BY DEF MachOBun, SegmentCommands
<1>2. SegmentIn(im, x)
  BY <1>1, SegmentsAre
<1>3. /\ x \in Nat /\ x_end \in Nat /\ x + 8 <= x_end
      /\ \A l \in 0 .. last : l \in Nat /\ Y(l) = x + 8 + l * 4 /\ Y(l) + 4 <= x_end
  BY <1>1, <1>2, CellsInCommand
<1>4. ASSUME NEW o \in Int, x <= o, o < x_end
      PROVE  /\ Cell(b, o) = IF B(o) THEN Cell(im, o) + grow ELSE Cell(im, o)
             /\ Cell(im, o) \in Int
  BY <1>1, <1>4, OtherCells
<1>5. \A o : B(o) <=> /\ LaterCommand(im, n, end, m)
                      /\ \/ o \in {x + 3, x + 5}
                         \/ \E l \in 0 .. last :
                               \/ o = Y(l) + 1
                               \/ o = Y(l) + 3 /\ Cell(im, o) # 0
  BY DEF Bumped
<1>6. ASSUME NEW j \in {3, 4, 5, 6}
      PROVE  x + j \in Int /\ x <= x + j /\ x + j < x_end
  <2> HIDE DEF x, x_end
  <2> QED
    BY <1>3, <1>6
<1>7. ASSUME NEW l \in 0 .. last, NEW j \in 1..3
      PROVE  Y(l) + j \in Int /\ x <= Y(l) + j /\ Y(l) + j < x_end
  <2> DEFINE v == Y(l)
  <2>1. l \in Nat /\ v = x + 8 + l * 4 /\ v + 4 <= x_end
    BY <1>3
  <2> HIDE DEF v, x, x_end
  <2> QED
    BY <1>3, <2>1
<1>8. CASE ~LaterCommand(im, n, end, m)
  <2>1. \A o : ~B(o)
    BY <1>5, <1>8
  <2> HIDE DEF B
  <2>2. \A j \in {3, 4, 5, 6} : Cell(b, x + j) = Cell(im, x + j) /\ Cell(im, x + j) \in Int
    BY <1>4, <1>6, <2>1
  <2>3. \A l \in 0 .. last, j \in 1..3 :
           Cell(b, Y(l) + j) = Cell(im, Y(l) + j) /\ Cell(im, Y(l) + j) \in Int
    <3> HIDE DEF last, Y, x, x_end
    <3> QED
      BY <1>4, <1>7, <2>1
  <2>4. SegmentOut(b, im, x, 0)
    <3> HIDE DEF x
    <3> QED
      BY <2>2, <2>3 DEF SegmentOut
  <2> QED
    BY <1>8, <2>4
<1>9. CASE LaterCommand(im, n, end, m)
  <2>1. B(x + 3) /\ B(x + 5)
    BY <1>5, <1>9
  <2>2. ~B(x + 4) /\ ~B(x + 6)
    <3>1. ASSUME NEW j \in {4, 6}, B(x + j) PROVE FALSE
      <4>1. \/ x + j \in {x + 3, x + 5}
            \/ \E l \in 0 .. last : x + j = Y(l) + 1 \/ x + j = Y(l) + 3
        BY <1>5, <3>1
      <4>2. \A l \in 0 .. last : l \in Nat /\ Y(l) = x + 8 + l * 4
        BY <1>3
      <4> HIDE DEF B, x, last, Y
      <4> QED
        BY <1>3, <4>1, <4>2
    <3> QED
      BY <3>1
  <2>3. ASSUME NEW l \in 0 .. last
        PROVE  B(Y(l) + 1) /\ ~B(Y(l) + 2) /\ (B(Y(l) + 3) <=> Cell(im, Y(l) + 3) # 0)
    <3>1. B(Y(l) + 1)
      BY <1>5, <1>9
    <3>2. ASSUME NEW j \in 2..3, B(Y(l) + j)
          PROVE  j = 3 /\ Cell(im, Y(l) + 3) # 0
      <4>1. \/ Y(l) + j \in {x + 3, x + 5}
            \/ \E h \in 0 .. last :
                  \/ Y(l) + j = Y(h) + 1
                  \/ Y(l) + j = Y(h) + 3 /\ Cell(im, Y(l) + j) # 0
        BY <1>5, <3>2
      <4>2. \A h \in 0 .. last : h \in Nat /\ Y(h) = x + 8 + h * 4
        BY <1>3
      <4> DEFINE u == Cell(im, Y(l) + j)
      <4>3. j = 3 /\ u # 0
        <5> HIDE DEF B, x, last, Y, u
        <5>1. l \in Nat /\ Y(l) = x + 8 + l * 4
          BY <4>2
        <5>2. Y(l) + j \notin {x + 3, x + 5}
          BY <1>3, <5>1
        <5>3. PICK h \in 0 .. last :
                  \/ Y(l) + j = Y(h) + 1
                  \/ Y(l) + j = Y(h) + 3 /\ u # 0
          BY <4>1, <5>2 DEF u
        <5>4. h \in Nat /\ Y(h) = x + 8 + h * 4
          BY <4>2
        <5>5. Y(l) + j # Y(h) + 1
          BY <1>3, <5>1, <5>4
        <5> QED
          BY <1>3, <5>1, <5>3, <5>4, <5>5
      <4> QED
        BY <4>3
    <3>3. Cell(im, Y(l) + 3) # 0 => B(Y(l) + 3)
      BY <1>5, <1>9
    <3> HIDE DEF B
    <3> QED
      BY <3>1, <3>2, <3>3
  <2> HIDE DEF B
  <2>4. /\ Cell(b, x + 3) = Cell(im, x + 3) + grow /\ Cell(b, x + 4) = Cell(im, x + 4)
        /\ Cell(b, x + 5) = Cell(im, x + 5) + grow /\ Cell(b, x + 6) = Cell(im, x + 6)
    BY <1>4, <1>6, <2>1, <2>2
  <2>5. \A l \in 0 .. last :
          /\ Cell(b, Y(l) + 1) = Cell(im, Y(l) + 1) + grow
          /\ Cell(b, Y(l) + 2) = Cell(im, Y(l) + 2)
          /\ Cell(b, Y(l) + 3) = IF Cell(im, Y(l) + 3) = 0 THEN 0 ELSE Cell(im, Y(l) + 3) + grow
    <3> HIDE DEF last, Y, x, x_end, grow
    <3> TAKE l \in 0 .. last
    <3>1. \A j \in 1..3 : Cell(b, Y(l) + j) = IF B(Y(l) + j) THEN Cell(im, Y(l) + j) + grow
                                                 ELSE Cell(im, Y(l) + j)
      BY <1>4, <1>7
    <3> QED
      BY <2>3, <3>1
  <2>6. SegmentOut(b, im, x, grow)
    <3> HIDE DEF x, grow
    <3> QED
      BY <2>4, <2>5 DEF SegmentOut
  <2> QED
    BY <1>9, <2>6
<1> QED
  BY <1>8, <1>9

LEMMA BunSegmentIsOut ==
    ASSUME NEW im, NEW c, InContext(im, c), ~c.is_elf, NEW S, PlanIn(c, S),
           NEW n, NEW k, MachOBun(im, c, n, k), NEW p, Kept(p, im, c, S),
           NEW b, ContainerDone(b, p, c, S)
    PROVE  BunSegmentOut(b, im, CommandOffsets(im)[n], Grow(c.layout, c.bun, DeltaSum(S)))
<1> DEFINE at == CommandOffsets(im)
           x == at[n]
           x_end == at[n + 1]
           grow == Grow(c.layout, c.bun, DeltaSum(S))
           last == Cell(im, x + 7) - 1
           Y(l) == SectionCell(x, l)
           B(o) == Bumped(im, n, BunEnd(c), n, o)
<1>1. /\ CommandsIn(im) /\ n \in SegmentCommands(im) /\ n \in 0 .. Cell(im, 2) - 1
      /\ SegmentIn(im, x) /\ k \in 0 .. last
  BY DEF MachOBun, IsBunSect, SegmentCommands
<1>2. /\ x \in Nat /\ x_end \in Nat /\ x + 8 <= x_end
      /\ \A l \in 0 .. last : l \in Nat /\ Y(l) = x + 8 + l * 4 /\ Y(l) + 4 <= x_end
  BY <1>1, CellsInCommand
<1>3. ASSUME NEW o \in Int, x <= o, o < x_end, o # Y(k) + 2
      PROVE  /\ Cell(b, o) = IF B(o) THEN Cell(im, o) + grow ELSE Cell(im, o)
             /\ Cell(im, o) \in Int
  BY <1>1, <1>3, HeaderCells DEF HeaderCell
<1>4. \A o : B(o) <=> o \in {x + 4, x + 6}
  BY <1>1 DEF Bumped, LaterCommand
<1>5. k \in Nat /\ Y(k) = x + 8 + k * 4
  BY <1>1, <1>2
<1>6. ASSUME NEW j \in {3, 4, 5, 6}
      PROVE  Cell(b, x + j) = IF j \in {4, 6} THEN Cell(im, x + j) + grow ELSE Cell(im, x + j)
  <2>1. x + j \in Int /\ x <= x + j /\ x + j < x_end /\ x + j # Y(k) + 2
        /\ (x + j \in {x + 4, x + 6} <=> j \in {4, 6})
    <3> HIDE DEF x, x_end, Y
    <3>1. x + j \in Int /\ x <= x + j /\ x + j < x_end
      BY <1>2, <1>6
    <3>2. x + j # Y(k) + 2
      BY <1>2, <1>5, <1>6
    <3>3. x + j \in {x + 4, x + 6} <=> j \in {4, 6}
      BY <1>2, <1>6
    <3> QED
      BY <3>1, <3>2, <3>3
  <2> HIDE DEF B
  <2> QED
    BY <1>3, <1>4, <2>1
<1>7. ASSUME NEW l \in 0 .. last, NEW j \in {1, 3}
      PROVE  Cell(b, Y(l) + j) = Cell(im, Y(l) + j)
  <2>1. /\ Y(l) + j \in Int /\ x <= Y(l) + j /\ Y(l) + j < x_end /\ Y(l) + j # Y(k) + 2
        /\ Y(l) + j \notin {x + 4, x + 6}
    <3>0. l \in Nat /\ Y(l) = x + 8 + l * 4 /\ Y(l) + 4 <= x_end
      BY <1>2
    <3> HIDE DEF x, x_end, Y, last
    <3>1. Y(l) + j \in Int /\ x <= Y(l) + j /\ Y(l) + j < x_end
      BY <1>2, <1>7, <3>0
    <3>2. Y(l) + j # Y(k) + 2
      BY <1>2, <1>5, <1>7, <3>0
    <3>3. Y(l) + j \notin {x + 4, x + 6}
      BY <1>2, <1>7, <3>0
    <3> QED
      BY <3>1, <3>2, <3>3
  <2> HIDE DEF B
  <2> QED
    BY <1>3, <1>4, <2>1
<1>8. /\ Cell(b, x + 3) = Cell(im, x + 3) /\ Cell(b, x + 4) = Cell(im, x + 4) + grow
      /\ Cell(b, x + 5) = Cell(im, x + 5) /\ Cell(b, x + 6) = Cell(im, x + 6) + grow
  BY <1>6
<1>9. \A l \in 0 .. last : /\ Cell(b, Y(l) + 1) = Cell(im, Y(l) + 1)
                           /\ Cell(b, Y(l) + 3) = Cell(im, Y(l) + 3)
  BY <1>7
<1>10. BunSegmentOut(b, im, x, grow)
  <2> HIDE DEF x, grow
  <2> QED
    BY <1>8, <1>9 DEF BunSegmentOut
<1> QED
  BY <1>10

\* A file offset in a load command moves with what it refers to.
LEMMA FieldOut ==
    ASSUME NEW im, NEW c, InContext(im, c), ~c.is_elf, NEW S, PlanIn(c, S),
           NEW n, NEW k, MachOBun(im, c, n, k), NEW p, Kept(p, im, c, S),
           NEW b, ContainerDone(b, p, c, S), NEW f \in c.layout.file_offset_fields,
           f.value # 0
    PROVE  /\ f.value \in Int
           /\ Cell(b, f.at) = IF BunEnd(c) <= f.value
                              THEN f.value + Grow(c.layout, c.bun, DeltaSum(S)) ELSE f.value
<1> DEFINE at == CommandOffsets(im)
           grow == Grow(c.layout, c.bun, DeltaSum(S))
           end == BunEnd(c)
<1>1. PICK m \in 0 .. Cell(im, 2) - 1, j \in 2..3 :
          /\ m \notin SegmentCommands(im) /\ j \in FileOffsetFields(Cell(im, at[m]))
          /\ f.at = at[m] + j /\ f.value = Cell(im, f.at)
          /\ j < Cell(im, at[m] + 1) /\ f.value \in Int
  BY FieldIs
<1>2. CommandsIn(im) /\ n \in SegmentCommands(im)
  BY DEF MachOBun
<1> DEFINE o == f.at
           x == at[m]
           x_end == at[m + 1]
           z == Cell(im, x + 1)
<1>3. x \in Nat /\ z \in Nat /\ x_end = x + z
  BY <1>2, CommandRanges DEF CommandRange
<1>4. o \in Int /\ x <= o /\ o < x_end
  <2>1. o = x + j /\ j < z
    BY <1>1
  <2> HIDE DEF o, x, x_end, z
  <2> QED
    BY <1>3, <2>1
<1>5. m # n
  BY <1>1, <1>2
<1>6. Cell(b, o) = IF Bumped(im, n, end, m, o) THEN Cell(im, o) + grow ELSE Cell(im, o)
  BY <1>4, <1>5, OtherCells
<1>7. Bumped(im, n, end, m, o) <=> end <= Cell(im, o)
  <2>1. \E v \in FileOffsetFields(Cell(im, x)) : o = x + v
    BY <1>1
  <2>2. Cell(im, o) # 0
    BY <1>1
  <2> HIDE DEF end, o, x
  <2> QED
    BY <1>1, <1>5, <2>1, <2>2 DEF Bumped, LaterCommand, x
<1>8. f.value = Cell(im, o)
  BY <1>1
<1> HIDE DEF end, o, grow
<1> QED
  BY <1>1, <1>6, <1>7, <1>8 DEF end, o, grow

\* What is written lies in the load commands.
LEMMA WritesInCommands ==
    ASSUME NEW im, NEW c, NEW n, NEW k, MachOBun(im, c, n, k), NEW t \in Int,
           c.bun.bun_offset \in Nat, c.bun.bun_size \in Int,
           NEW w \in MachOHeaderWrites(c.layout, c.bun, t)
    PROVE  w[1] \in Nat /\ w[1] < CommandOffsets(im)[Cell(im, 2)]
<1> DEFINE at == CommandOffsets(im)
           z == at[Cell(im, 2)]
           y == SectionCell(at[n], k)
           o == w[1]
<1>1. /\ CommandsIn(im) /\ n \in SegmentCommands(im) /\ im \in Seq(Int) /\ MachOParses(im)
  BY DEF MachOBun
<1>2. \A m \in 0 .. Cell(im, 2) - 1 : at[m + 1] \in Nat /\ at[m + 1] <= z /\ z \in Nat
  <2> TAKE m \in 0 .. Cell(im, 2) - 1
  <2> DEFINE x == at[m]
             x_end == at[m + 1]
             u == Cell(im, x + 1)
  <2>1. x \in Nat /\ u \in Nat /\ x_end = x + u /\ x_end <= z /\ z \in Nat
    BY <1>1, CommandRanges DEF CommandRange
  <2> HIDE DEF x, x_end, u, z
  <2>2. x_end \in Nat /\ x_end <= z /\ z \in Nat
    BY <2>1
  <2> QED
    BY <2>2 DEF x_end
<1>3. \/ w = <<y + 2, c.bun.bun_size + t>>
      \/ \E m \in 0 .. Cell(im, 2) - 1 : Bumped(im, n, BunEnd(c), m, w[1])
  BY WriteIs
<1>4. CASE w = <<y + 2, c.bun.bun_size + t>>
  <2> DEFINE x == at[n]
             end == at[n + 1]
  <2>1. x \in Nat /\ y \in Nat /\ x + 8 <= y /\ y + 4 <= end /\ end \in Nat
        /\ n \in 0 .. Cell(im, 2) - 1
    BY BunSectRange
  <2>2. end <= z /\ z \in Nat
    BY <1>2, <2>1
  <2>3. o = y + 2
    BY <1>4
  <2> HIDE DEF x, y, z, end, o
  <2>4. o \in Nat /\ o < z
    BY <2>1, <2>2, <2>3
  <2> QED
    BY <2>4 DEF o, z
<1>5. ASSUME NEW m \in 0 .. Cell(im, 2) - 1, Bumped(im, n, BunEnd(c), m, o)
      PROVE  o \in Nat /\ o < z
  <2>1. TargetIn(im, m, o)
    BY <1>1, <1>5, BumpedIsTarget
  <2>2. m \in SegmentCommands(im) => SegmentIn(im, at[m])
    BY <1>1, SegmentsAre
  <2>3. o \in Nat /\ o < at[m + 1]
    BY <1>1, <2>1, <2>2, TargetRange
  <2>4. at[m + 1] \in Nat /\ at[m + 1] <= z /\ z \in Nat
    BY <1>2
  <2> HIDE DEF o, z, at
  <2> QED
    BY <2>3, <2>4
<1> QED
  BY <1>3, <1>4, <1>5

\* Behind the payload there are zeros up to the end of its segment, and the rest
\* of the file has moved by whole pages.
TailOut(b, im, c, t, grow) ==
    /\ b \in Seq(Int) /\ Len(b) = Len(im) + grow
    /\ \A o \in BunEnd(c) .. Len(im) - 1 : Cell(b, o + grow) = Cell(im, o)
    /\ \A o \in c.bun.bun_offset + c.bun.bun_size + t .. BunEnd(c) + grow - 1 : Cell(b, o) = 0

\* Two ranges from 1 are the same only with the same end.
LEMMA SameRange ==
    ASSUME NEW a \in Nat, NEW d \in Nat, 1 .. a = 1 .. d PROVE a = d
<1>1. CASE a < d
  <2>1. d \in 1 .. d
    BY <1>1
  <2>2. d \in 1 .. a
    BY <2>1
  <2> QED
    BY <1>1, <2>2
<1>2. CASE d < a
  <2>1. a \in 1 .. a
    BY <1>2
  <2>2. a \in 1 .. d
    BY <2>1
  <2> QED
    BY <1>2, <2>2
<1> QED
  BY <1>1, <1>2


LEMMA RepadTail ==
    ASSUME NEW im, NEW c, InContext(im, c), ~c.is_elf, NEW S, PlanIn(c, S),
           NEW n, NEW k, MachOBun(im, c, n, k), NEW p, Kept(p, im, c, S)
    PROVE  TailOut(Repad(p, c.layout, c.bun, DeltaSum(S)), im, c, DeltaSum(S),
                   Grow(c.layout, c.bun, DeltaSum(S)))
<1> DEFINE L == Len(im)
           t == DeltaSum(S)
           off == c.bun.bun_offset
           size == c.bun.bun_size
           table_end == CommandOffsets(im)[Cell(im, 2)]
           first == Cell(im, CommandOffsets(im)[n] + 5)
           end == BunEnd(c)
           z == Len(p)
           pad == Pad(c.layout, c.bun)
           grow == Grow(c.layout, c.bun, t)
           from == PayloadRegionEnd(c.bun) + t
           new_pad == pad + grow - t
           zeros == [x \in 1 .. new_pad |-> 0]
           head == SubSeq(p, 1, from)
           tail == SubSeq(p, from + pad + 1, z)
           b == Repad(p, c.layout, c.bun, t)
<1>1. BunFits(im, c, n, L, off, size, table_end, first, end)
  BY BunFitsIn
<1>2. L \in Nat /\ off \in Nat /\ size \in Nat /\ end \in Int /\ off + size <= end /\ end <= L
  <2> HIDE DEF L, off, size, table_end, first, end
  <2> QED
    BY <1>1 DEF BunFits
<1>3. t \in Int /\ 9 <= size + t
  <2> DEFINE start == c.bun.payload_start
             table == TableAt(c)
             len == c.bun.modules_ptr.length
             struct == c.bun.offsets_struct_offset
  <2>1. Frame(L, t, off, size, start, table, len, struct)
    BY BoundsAre DEF Bounds
  <2> HIDE DEF L, t, off, size, start, table, len, struct
  <2> QED
    BY <2>1 DEF Frame
<1>4. /\ grow \in Nat /\ pad \in Nat /\ pad = end - (off + size) /\ t <= pad + grow
  BY <1>3, GrowsEnough
<1>5. /\ p \in Seq(Int) /\ z = L + t
      /\ \A o \in off + size .. L - 1 : Cell(p, o + t) = Cell(im, o)
  BY KeptOutside
<1>6. from = (off + size) + t
  BY DEF PayloadRegionEnd
<1>7. b = (head \o zeros) \o tail
  BY DEF Repad
<1>8. /\ from \in Nat /\ from <= z /\ from + pad \in Nat /\ from + pad <= z /\ new_pad \in Nat
      /\ z \in Nat /\ z - (from + pad) = L - end
  <2> HIDE DEF L, t, off, size, end, z, pad, grow, from
  <2>1. from \in Nat /\ z \in Int
    BY <1>2, <1>3, <1>5, <1>6
  <2>2. from + pad = end + t
    BY <1>2, <1>3, <1>4, <1>6
  <2>3. from + pad <= z
    BY <1>2, <1>3, <1>5, <2>2
  <2>4. from + pad \in Nat
    BY <1>4, <2>1
  <2> QED
    BY <1>2, <1>3, <1>4, <1>5, <2>1, <2>2, <2>3, <2>4
<1> HIDE DEF b, from, pad, new_pad, off, size, t, grow, end, L
<1>9. head \in Seq(Int) /\ Len(head) = from
  BY <1>5, <1>8, PrefixOf
<1>10. zeros \in Seq(Int) /\ Len(zeros) = new_pad /\ \A x \in 1 .. new_pad : zeros[x] = 0
  <2>1. zeros \in Seq(Int)
    BY <1>8, Zeros
  <2>2. DOMAIN zeros = 1 .. Len(zeros) /\ Len(zeros) \in Nat
    BY <2>1, LenProperties
  <2>3. DOMAIN zeros = 1 .. new_pad
    OBVIOUS
  <2>4. Len(zeros) = new_pad
    <3> HIDE DEF zeros
    <3> DEFINE u == Len(zeros)
    <3>1. u \in Nat /\ 1 .. u = 1 .. new_pad
      BY <2>2, <2>3
    <3> HIDE DEF u
    <3>2. u = new_pad
      BY <1>8, <3>1, SameRange
    <3> QED
      BY <3>2 DEF u
  <2> QED
    BY <2>1, <2>4
<1> DEFINE cut == from + pad
<1>11. /\ tail \in Seq(Int) /\ Len(tail) = z - cut
       /\ \A x \in 1 .. z - cut : tail[x] = p[cut + x]
  <2>1. cut \in Nat /\ cut <= z
    BY <1>8
  <2> HIDE DEF cut
  <2>2. /\ SubSeq(p, cut + 1, Len(p)) \in Seq(Int)
        /\ Len(SubSeq(p, cut + 1, Len(p))) = Len(p) - cut
        /\ \A x \in 1 .. Len(p) - cut : SubSeq(p, cut + 1, Len(p))[x] = p[cut + x]
    BY <1>5, <2>1, SuffixOf
  <2> QED
    BY <2>2 DEF cut
<1> HIDE DEF head, zeros, tail, z, cut
<1>12. /\ b \in Seq(Int) /\ Len(b) = from + new_pad + (z - cut)
       /\ \A x \in 1 .. new_pad : b[from + x] = zeros[x]
       /\ \A x \in 1 .. z - cut : b[from + new_pad + x] = tail[x]
  <2> DEFINE all == (head \o zeros) \o tail
  <2>1. /\ all \in Seq(Int) /\ Len(all) = Len(head) + Len(zeros) + Len(tail)
        /\ \A x \in 1..Len(zeros) : all[Len(head) + x] = zeros[x]
        /\ \A x \in 1..Len(tail) : all[Len(head) + Len(zeros) + x] = tail[x]
    BY <1>9, <1>10, <1>11, ThreeParts
  <2>2. b = all
    BY <1>7
  <2> HIDE DEF all
  <2> QED
    BY <1>9, <1>10, <1>11, <2>1, <2>2
<1>13. /\ cut \in Nat /\ z - cut = L - end /\ from + new_pad = end + grow
       /\ cut = end + t
  <2>1. cut = from + pad /\ new_pad = pad + grow - t
    BY DEF cut, new_pad
  <2>2. cut \in Nat /\ z - cut = L - end
    BY <1>8 DEF cut
  <2> QED
    BY <1>2, <1>3, <1>4, <1>6, <1>8, <2>1, <2>2
<1>14. Len(b) = L + grow
  BY <1>2, <1>4, <1>12, <1>13
<1>15. ASSUME NEW o \in end .. L - 1 PROVE Cell(b, o + grow) = Cell(im, o)
  <2> DEFINE x == o - end + 1
  <2>1. x \in 1 .. z - cut
    BY <1>2, <1>13
  <2>2. from + new_pad + x = (o + grow) + 1 /\ cut + x = (o + t) + 1
    BY <1>2, <1>3, <1>4, <1>13
  <2>3. o \in off + size .. L - 1
    BY <1>2
  <2> HIDE DEF x
  <2>4. b[(o + grow) + 1] = p[(o + t) + 1]
    BY <1>11, <1>12, <2>1, <2>2
  <2>5. Cell(p, o + t) = Cell(im, o)
    BY <1>5, <2>3 DEF off, size, t, L
  <2> QED
    BY <2>4, <2>5 DEF Cell
<1>16. ASSUME NEW o \in (off + size) + t .. end + grow - 1 PROVE Cell(b, o) = 0
  <2> DEFINE x == o - from + 1
  <2>1. x \in 1 .. new_pad /\ from + x = o + 1
    BY <1>2, <1>3, <1>4, <1>6, <1>8, <1>13
  <2> HIDE DEF x
  <2>2. b[o + 1] = 0
    BY <1>10, <1>12, <2>1
  <2> QED
    BY <2>2 DEF Cell
<1> QED
  BY <1>12, <1>14, <1>15, <1>16 DEF TailOut, b, t, grow, end, L, off, size

-----------------------------------------------------------------------------
(* The file of a rewritten Mach-O image.                                   *)

\* The file around the segment of .bun is the input's, what is behind it moved by
\* whole pages.
MachOFile(b, im, c, grow) ==
    /\ b \in Seq(Int) /\ Len(b) = Len(im) + grow
    /\ \A o \in CommandOffsets(im)[Cell(im, 2)] .. c.bun.bun_offset - 1 : Cell(b, o) = Cell(im, o)
    /\ \A o \in BunEnd(c) .. Len(im) - 1 : Cell(b, o + grow) = Cell(im, o)

PaddingZero(b, c, t, grow) ==
    \A o \in c.bun.bun_offset + c.bun.bun_size + t .. BunEnd(c) + grow - 1 : Cell(b, o) = 0

LEMMA FilePacked ==
    ASSUME NEW im, NEW c, InContext(im, c), ~c.is_elf, NEW S, PlanIn(c, S),
           NEW n, NEW k, MachOBun(im, c, n, k), NEW p, Kept(p, im, c, S),
           PaddingAccepted(p, c.layout, c.bun, DeltaSum(S)), NEW b,
           b = PackInto(Repad(p, c.layout, c.bun, DeltaSum(S)),
                        MachOHeaderWrites(c.layout, c.bun, DeltaSum(S)))
    PROVE  /\ MachOFile(b, im, c, Grow(c.layout, c.bun, DeltaSum(S)))
           /\ PaddingZero(b, c, DeltaSum(S), Grow(c.layout, c.bun, DeltaSum(S)))
<1> DEFINE t == DeltaSum(S)
           off == c.bun.bun_offset
           size == c.bun.bun_size
           W == MachOHeaderWrites(c.layout, c.bun, t)
           q == Repad(p, c.layout, c.bun, t)
           L == Len(im)
           table_end == CommandOffsets(im)[Cell(im, 2)]
           first == Cell(im, CommandOffsets(im)[n] + 5)
           end == BunEnd(c)
           grow == Grow(c.layout, c.bun, t)
<1>1. BunFits(im, c, n, L, off, size, table_end, first, end)
  BY BunFitsIn
<1>2. /\ L \in Nat /\ off \in Nat /\ size \in Nat /\ table_end \in Nat /\ end \in Int
      /\ table_end <= off /\ off + size <= end /\ end <= L
  <2> HIDE DEF L, off, size, table_end, first, end
  <2> QED
    BY <1>1 DEF BunFits
<1>3. t \in Int /\ 9 <= size + t
  <2> DEFINE start == c.bun.payload_start
             table == TableAt(c)
             len == c.bun.modules_ptr.length
             struct == c.bun.offsets_struct_offset
  <2>1. Frame(L, t, off, size, start, table, len, struct)
    BY BoundsAre DEF Bounds
  <2> HIDE DEF L, t, off, size, start, table, len, struct
  <2> QED
    BY <2>1 DEF Frame
<1>4. grow \in Nat
  <2>1. t \in Int
    BY <1>3
  <2> HIDE DEF t
  <2> QED
    BY <2>1, GrowsEnough
<1>5. TailOut(q, im, c, t, grow)
  BY RepadTail
<1>6. /\ q \in Seq(Int) /\ Len(q) = L + grow
      /\ \A o \in end .. L - 1 : Cell(q, o + grow) = Cell(im, o)
      /\ \A o \in (off + size) + t .. end + grow - 1 : Cell(q, o) = 0
  <2> HIDE DEF q, t, grow
  <2> QED
    BY <1>5 DEF TailOut
<1>7. \A o \in 0 .. off - 1 : Cell(q, o) = Cell(p, o)
  BY RepadCells
<1>8. \A o \in 0 .. off - 1 : Cell(p, o) = Cell(im, o)
  BY KeptOutside
<1>9. \A w \in W : w[2] \in Int /\ w[1] \in Nat /\ w[1] < table_end
  <2> SUFFICES ASSUME NEW w \in W PROVE w[2] \in Int /\ w[1] \in Nat /\ w[1] < table_end
    OBVIOUS
  <2>1. off \in Nat /\ size \in Int /\ t \in Int
    BY <1>2, <1>3
  <2> HIDE DEF t
  <2>2. MachOWrite(im, c, n, k, w)
    BY <2>1, MachOWritesAre
  <2>3. w[1] \in Nat /\ w[1] < table_end
    BY <2>1, WritesInCommands
  <2> QED
    BY <2>2, <2>3 DEF MachOWrite
<1>10. IntWrites(W)
  BY <1>9 DEF IntWrites
<1>11. b = PackInto(q, W)
  OBVIOUS
<1> HIDE DEF t, off, size, W, q, L, table_end, first, end, grow
<1>12. /\ b \in Seq(Int) /\ Len(b) = L + grow
       /\ \A o \in 0 .. (L + grow) - 1 :
             (\A w \in W : w[1] # o) => Cell(b, o) = Cell(q, o)
  BY <1>6, <1>10, <1>11, PackCells
<1>13. ASSUME NEW o \in 0 .. (L + grow) - 1, table_end <= o PROVE Cell(b, o) = Cell(q, o)
  <2>1. ASSUME NEW w \in W PROVE w[1] # o
    BY <1>2, <1>4, <1>9, <1>13, <2>1
  <2> QED
    BY <1>12, <2>1
<1>14. ASSUME NEW o \in table_end .. off - 1 PROVE Cell(b, o) = Cell(im, o)
  <2>1. o \in 0 .. (L + grow) - 1 /\ table_end <= o /\ o \in 0 .. off - 1
    BY <1>2, <1>4
  <2> QED
    BY <1>7, <1>8, <1>13, <2>1
<1>15. ASSUME NEW o \in end .. L - 1 PROVE Cell(b, o + grow) = Cell(im, o)
  <2>1. o + grow \in 0 .. (L + grow) - 1 /\ table_end <= o + grow
    BY <1>2, <1>4
  <2> QED
    BY <1>6, <1>13, <2>1
<1>16. ASSUME NEW o \in (off + size) + t .. end + grow - 1 PROVE Cell(b, o) = 0
  <2>1. o \in 0 .. (L + grow) - 1 /\ table_end <= o
    BY <1>2, <1>3, <1>4
  <2> QED
    BY <1>6, <1>13, <2>1
<1>17. MachOFile(b, im, c, grow)
  BY <1>12, <1>14, <1>15 DEF MachOFile, table_end, off, end, L
<1>18. PaddingZero(b, c, t, grow)
  BY <1>16 DEF PaddingZero, off, size, end
<1> QED
  BY <1>17, <1>18 DEF grow, t

LEMMA FileOut ==
    ASSUME NEW im, NEW c, InContext(im, c), ~c.is_elf, NEW S, PlanIn(c, S),
           NEW n, NEW k, MachOBun(im, c, n, k), NEW p, Kept(p, im, c, S),
           NEW b, ContainerDone(b, p, c, S)
    PROVE  /\ MachOFile(b, im, c, Grow(c.layout, c.bun, DeltaSum(S)))
           /\ (\E e \in S : Growable(e)) =>
                 PaddingZero(b, c, DeltaSum(S), Grow(c.layout, c.bun, DeltaSum(S)))
<1> DEFINE t == DeltaSum(S)
           off == c.bun.bun_offset
           size == c.bun.bun_size
           L == Len(im)
           table_end == CommandOffsets(im)[Cell(im, 2)]
           first == Cell(im, CommandOffsets(im)[n] + 5)
           end == BunEnd(c)
           grow == Grow(c.layout, c.bun, t)
<1>1. CASE b = p /\ \A e \in S : ~Growable(e)
  <2>1. t = 0
    <3>1. EditSet(S) /\ {} \subseteq S /\ \A e \in S \ {} : ~Growable(e)
      BY <1>1 DEF PlanIn
    <3>2. t = DeltaSum({})
      BY <3>1, SumGrowables
    <3> QED
      BY <3>2, SumNone
  <2>2. grow = 0
    <3> DEFINE pad == Pad(c.layout, c.bun)
    <3>1. pad \in Nat /\ (t <= pad => grow = 0)
      BY <2>1, GrowsEnough
    <3> HIDE DEF pad, t, grow
    <3> QED
      BY <2>1, <3>1
  <2>3. BunFits(im, c, n, L, off, size, table_end, first, end)
    BY BunFitsIn
  <2>4. /\ L \in Nat /\ off \in Nat /\ size \in Nat /\ table_end \in Nat /\ end \in Int
        /\ table_end <= off /\ off + size <= end /\ end <= L
    <3> HIDE DEF L, off, size, table_end, first, end
    <3> QED
      BY <2>3 DEF BunFits
  <2>5. /\ p \in Seq(Int) /\ Len(p) = L + t
        /\ \A o \in 0 .. off - 1 : Cell(p, o) = Cell(im, o)
        /\ \A o \in off + size .. L - 1 : Cell(p, o + t) = Cell(im, o)
    BY KeptOutside
  <2> HIDE DEF t, off, size, L, table_end, first, end, grow
  <2>6. b \in Seq(Int) /\ Len(b) = L + grow
    BY <1>1, <2>1, <2>2, <2>5
  <2>7. ASSUME NEW o \in table_end .. off - 1 PROVE Cell(b, o) = Cell(im, o)
    <3>1. o \in 0 .. off - 1
      BY <2>4
    <3> QED
      BY <1>1, <2>5, <3>1
  <2>8. ASSUME NEW o \in end .. L - 1 PROVE Cell(b, o + grow) = Cell(im, o)
    <3>1. o \in off + size .. L - 1 /\ o + grow = o + t
      BY <2>1, <2>2, <2>4
    <3> QED
      BY <1>1, <2>5, <3>1
  <2>9. MachOFile(b, im, c, grow)
    BY <2>6, <2>7, <2>8 DEF MachOFile, table_end, off, end, L
  <2> QED
    BY <1>1, <2>9 DEF grow, t
<1>2. CASE ~(b = p /\ \A e \in S : ~Growable(e))
  <2>1. /\ PaddingAccepted(p, c.layout, c.bun, DeltaSum(S))
        /\ b = PackInto(Repad(p, c.layout, c.bun, DeltaSum(S)),
                        MachOHeaderWrites(c.layout, c.bun, DeltaSum(S)))
    BY <1>2 DEF ContainerDone
  <2> QED
    BY <2>1, FilePacked
<1> QED
  BY <1>1, <1>2

-----------------------------------------------------------------------------
(* Reading the segments of a rewritten Mach-O image.                       *)

\* The segments of the output are the input's, read at the same commands.
SegmentsReread(b, im, c, n, t) ==
    LET at == CommandOffsets(im)
        new == MachOParse(b)
    IN /\ MachOParses(b)
       /\ new.segments = {SegmentAt(b, at[m]) : m \in SegmentCommands(im)}
       /\ c.layout.segments = {SegmentAt(im, at[m]) : m \in SegmentCommands(im)}
       /\ SegmentByName(new, BUN_SEGNAME) = SegmentAt(b, at[n])
       /\ BunSect(new).offset = c.bun.bun_offset /\ BunSect(new).size = c.bun.bun_size + t
       /\ \A m \in SegmentCommands(im) : Cell(b, at[m] + 7) = Cell(im, at[m] + 7)

LEMMA SegmentsAreReread ==
    ASSUME NEW im, NEW c, InContext(im, c), ~c.is_elf, NEW S, PlanIn(c, S),
           NEW n, NEW k, MachOBun(im, c, n, k), NEW p, Kept(p, im, c, S),
           NEW b, ContainerDone(b, p, c, S)
    PROVE  SegmentsReread(b, im, c, n, DeltaSum(S))
<1> DEFINE at == CommandOffsets(im)
           t == DeltaSum(S)
           new == MachOParse(b)
           old == MachOParse(im)
<1>1. MachOOut(b, p, im, c, n, k, t)
  BY MachOOutIs
<1>2. /\ Cell(b, 0) = MACHO_MAGIC_64 /\ MachOParses(b) /\ BunIs(b, c, t)
  BY <1>1, MachOReparsed
<1>3. \A o : KeptCell(im, o) => Cell(b, o) = Cell(im, o)
  BY <1>1 DEF MachOOut
<1>4. /\ CommandsIn(im) /\ MachOParses(im) /\ n \in SegmentCommands(im) /\ IsBunSect(im, n, k)
      /\ c.layout = old
  BY DEF MachOBun
<1>5. OneBun(old)
  BY ContextIs
<1>6. /\ \A m \in 0 .. Cell(im, 2) : CommandOffsets(b)[m] = at[m]
      /\ SegmentCommands(b) = SegmentCommands(im)
  BY <1>3, <1>4, SameOffsets
<1>7. \A m \in SegmentCommands(im) : m \in 0 .. Cell(im, 2) - 1 /\ m \in 0 .. Cell(im, 2)
  <2>1. Cell(im, 2) \in Nat
    BY <1>4 DEF CommandsIn
  <2> QED
    BY <2>1 DEF SegmentCommands
<1>8. new.segments = {SegmentAt(b, at[m]) : m \in SegmentCommands(im)}
  BY <1>2, <1>6, <1>7, SegmentOf DEF MachOParses
<1>9. old.segments = {SegmentAt(im, at[m]) : m \in SegmentCommands(im)}
  BY <1>4, SegmentOf DEF MachOParses
<1>10. ASSUME NEW m \in SegmentCommands(im)
       PROVE  Cell(b, at[m] + 2) = Cell(im, at[m] + 2) /\ Cell(b, at[m] + 7) = Cell(im, at[m] + 7)
  BY <1>3, <1>7, SameCommand
<1>11. SegmentByName(new, BUN_SEGNAME) = SegmentAt(b, at[n])
  <2>1. SegmentAt(b, at[n]) \in new.segments
    BY <1>4, <1>8
  <2>2. SegmentAt(b, at[n]).segname = BUN_SEGNAME
    <3>1. Cell(im, at[n] + 2) = BUN_SEGNAME
      BY <1>4 DEF IsBunSect
    <3> HIDE DEF at
    <3> QED
      BY <1>4, <1>10, <3>1, SegmentCells
  <2>3. ASSUME NEW g \in new.segments, g.segname = BUN_SEGNAME
        PROVE  g = SegmentAt(b, at[n])
    <3>1. PICK m \in SegmentCommands(im) : g = SegmentAt(b, at[m])
      BY <1>8
    <3>2. SegmentAt(im, at[m]) \in old.segments /\ SegmentAt(im, at[n]) \in old.segments
      BY <1>4, <1>9
    <3>3. Cell(im, at[n] + 2) = BUN_SEGNAME
      BY <1>4 DEF IsBunSect
    <3> HIDE DEF at, old
    <3>4. Cell(im, at[m] + 2) = BUN_SEGNAME
      BY <1>10, <2>3, <3>1, SegmentCells
    <3>5. SegmentAt(im, at[m]).segname = BUN_SEGNAME /\ SegmentAt(im, at[n]).segname = BUN_SEGNAME
      BY <3>3, <3>4, SegmentCells
    <3>6. SegmentAt(im, at[m]) = SegmentAt(im, at[n])
      BY <1>5, <3>2, <3>5 DEF OneBun
    <3>7. SegmentAt(im, at[m]).header = at[m] /\ SegmentAt(im, at[n]).header = at[n]
      BY SegmentCells
    <3>8. at[m] = at[n]
      BY <3>6, <3>7
    <3> QED
      BY <3>1, <3>8
  <2> HIDE DEF new, at
  <2> QED
    BY <2>1, <2>2, <2>3 DEF SegmentByName
<1>12. BunSect(new).offset = c.bun.bun_offset /\ BunSect(new).size = c.bun.bun_size + t
  <2>1. BunSection(b) = MachOBunSection(new)
    <3>1. Cell(b, 0) # ELF_MAGIC
      BY <1>2 DEF MACHO_MAGIC_64, ELF_MAGIC
    <3> QED
      BY <3>1 DEF BunSection
  <2>2. BunSection(b).offset = BunSect(new).offset /\ BunSection(b).size = BunSect(new).size
    <3> HIDE DEF new
    <3> QED
      BY <2>1 DEF MachOBunSection
  <2> HIDE DEF t, new
  <2> QED
    BY <1>2, <2>2 DEF BunIs
<1> QED
  BY <1>2, <1>4, <1>8, <1>9, <1>10, <1>11, <1>12 DEF SegmentsReread

-----------------------------------------------------------------------------
(* Where the segments of the output lie.                                   *)

\* A segment at fo and va, of fs cells and vs in memory, lies at fo2 and va2 once
\* the one of .bun, which lies between from and end, has grown by g.
Moves(from, end, g, fo, fs, va, vs, fo2, fs2, va2, vs2) ==
    /\ fo \in Int /\ fs \in Int /\ va \in Int /\ vs \in Int
    /\ 0 <= fs /\ from \in Int /\ end \in Int /\ from < end /\ g \in Nat
    /\ \/ fo = from /\ fo + fs = end /\ fo2 = fo /\ fs2 = fs + g /\ va2 = va /\ vs2 = vs + g
       \/ end <= fo /\ fo2 = fo + g /\ fs2 = fs /\ va2 = va + g /\ vs2 = vs
       \/ fo + fs <= from /\ fo2 = fo /\ fs2 = fs /\ va2 = va /\ vs2 = vs

\* A segment that followed another follows it still.
LEMMA StillFollows ==
    ASSUME NEW from, NEW end, NEW g, NEW fo, NEW fs, NEW va, NEW vs,
           NEW fo2, NEW fs2, NEW va2, NEW vs2, NEW ho, NEW hs, NEW ha, NEW hv,
           NEW ho2, NEW hs2, NEW ha2, NEW hv2,
           Moves(from, end, g, fo, fs, va, vs, fo2, fs2, va2, vs2),
           Moves(from, end, g, ho, hs, ha, hv, ho2, hs2, ha2, hv2),
           ho = fo + fs, va + vs <= ha
    PROVE  ho2 = fo2 + fs2 /\ va2 + vs2 <= ha2
  BY DEF Moves

\* The last segment in the file ends where the file does.
LEMMA StillLast ==
    ASSUME NEW from, NEW end, NEW g, NEW fo, NEW fs, NEW va, NEW vs,
           NEW fo2, NEW fs2, NEW va2, NEW vs2,
           Moves(from, end, g, fo, fs, va, vs, fo2, fs2, va2, vs2),
           end <= fo + fs
    PROVE  fo2 + fs2 = (fo + fs) + g
  BY DEF Moves

SegmentMoved(b, im, c, n, g, m) ==
    LET x == CommandOffsets(im)[m]
    IN Moves(Cell(im, CommandOffsets(im)[n] + 5), BunEnd(c), g,
             Cell(im, x + 5), Cell(im, x + 6), Cell(im, x + 3), Cell(im, x + 4),
             Cell(b, x + 5), Cell(b, x + 6), Cell(b, x + 3), Cell(b, x + 4))

LEMMA SegmentsMoved ==
    ASSUME NEW im, NEW c, InContext(im, c), ~c.is_elf, NEW S, PlanIn(c, S),
           NEW n, NEW k, MachOBun(im, c, n, k), NEW p, Kept(p, im, c, S),
           NEW b, ContainerDone(b, p, c, S), NEW m \in SegmentCommands(im)
    PROVE  SegmentMoved(b, im, c, n, Grow(c.layout, c.bun, DeltaSum(S)), m)
<1> DEFINE L == Len(im)
           off == c.bun.bun_offset
           size == c.bun.bun_size
           table_end == CommandOffsets(im)[Cell(im, 2)]
           from == Cell(im, CommandOffsets(im)[n] + 5)
           end == BunEnd(c)
           grow == Grow(c.layout, c.bun, DeltaSum(S))
           x == CommandOffsets(im)[m]
           fo == Cell(im, x + 5)
           fs == Cell(im, x + 6)
           va == Cell(im, x + 3)
           vs == Cell(im, x + 4)
           fo2 == Cell(b, x + 5)
           fs2 == Cell(b, x + 6)
           va2 == Cell(b, x + 3)
           vs2 == Cell(b, x + 4)
<1>1. /\ from \in Int /\ end \in Int /\ from < end
      /\ end = from + Cell(im, CommandOffsets(im)[n] + 6)
  <2>1. BunFits(im, c, n, L, off, size, table_end, from, end)
    BY BunFitsIn
  <2> HIDE DEF L, off, size, table_end, from, end
  <2> QED
    BY <2>1 DEF BunFits
<1>2. grow \in Nat
  <2> DEFINE t == DeltaSum(S)
  <2>1. t \in Int
    BY EditSum DEF PlanIn
  <2> HIDE DEF t
  <2> QED
    BY <2>1, GrowsEnough DEF t
<1>3. fo \in Int /\ fs \in Int /\ va \in Int /\ vs \in Int
  <2>1. SegmentIn(im, x)
    BY SegmentsAre DEF MachOBun
  <2> HIDE DEF x
  <2> QED
    BY <2>1 DEF SegmentIn
<1>4. SegmentFits(im, c, n, m)
  BY SegmentsFit
<1>5. 0 <= fs /\ (m # n => fo + fs <= from \/ end <= fo)
  <2> HIDE DEF end
  <2> QED
    BY <1>4 DEF SegmentFits, end
<1>6. CASE m = n
  <2>1. BunSegmentOut(b, im, x, grow)
    BY <1>6, BunSegmentIsOut
  <2>2. fo = from /\ fo + fs = end
    BY <1>1, <1>6
  <2>3. fo2 = fo /\ fs2 = fs + grow /\ va2 = va /\ vs2 = vs + grow
    BY <2>1 DEF BunSegmentOut
  <2> HIDE DEF from, end, grow, fo, fs, va, vs, fo2, fs2, va2, vs2, x
  <2>4. Moves(from, end, grow, fo, fs, va, vs, fo2, fs2, va2, vs2)
    BY <1>1, <1>2, <1>3, <1>5, <2>2, <2>3 DEF Moves
  <2> QED
    BY <2>4 DEF SegmentMoved, from, end, grow, fo, fs, va, vs, fo2, fs2, va2, vs2, x
<1>7. CASE m # n
  <2> DEFINE d == IF LaterCommand(im, n, end, m) THEN grow ELSE 0
  <2>1. SegmentOut(b, im, x, d)
    BY <1>7, OtherSegmentOut
  <2>2. LaterCommand(im, n, end, m) <=> end <= fo
    BY <1>7 DEF LaterCommand
  <2>3. d = IF end <= fo THEN grow ELSE 0
    BY <2>2
  <2> HIDE DEF d
  <2>4. fo2 = fo + d /\ fs2 = fs /\ va2 = va + d /\ vs2 = vs
    BY <2>1 DEF SegmentOut
  <2> HIDE DEF from, end, grow, fo, fs, va, vs, fo2, fs2, va2, vs2, x
  <2>5. CASE end <= fo
    <3>1. Moves(from, end, grow, fo, fs, va, vs, fo2, fs2, va2, vs2)
      BY <1>1, <1>2, <1>3, <1>5, <2>3, <2>4, <2>5 DEF Moves
    <3> QED
      BY <3>1 DEF SegmentMoved, from, end, grow, fo, fs, va, vs, fo2, fs2, va2, vs2, x
  <2>6. CASE ~(end <= fo)
    <3>1. fo2 = fo /\ fs2 = fs /\ va2 = va /\ vs2 = vs
      BY <1>3, <2>3, <2>4, <2>6
    <3>2. Moves(from, end, grow, fo, fs, va, vs, fo2, fs2, va2, vs2)
      BY <1>1, <1>2, <1>3, <1>5, <1>7, <2>6, <3>1 DEF Moves
    <3> QED
      BY <3>2 DEF SegmentMoved, from, end, grow, fo, fs, va, vs, fo2, fs2, va2, vs2, x
  <2> QED
    BY <2>5, <2>6
<1> QED
  BY <1>6, <1>7

\* Segment command m of the output is on page boundaries, as far from its place
\* in memory as it was, and followed by a segment or by the end of the file.
SegmentPlaced(b, im, page, m) ==
    LET at == CommandOffsets(im)
        x == at[m]
    IN /\ Cell(b, x + 5) % page = 0 /\ Cell(b, x + 3) % page = 0
       /\ Cell(b, x + 3) - Cell(b, x + 5) = Cell(im, x + 3) - Cell(im, x + 5)
       /\ \/ Cell(b, x + 5) + Cell(b, x + 6) = Len(b)
          \/ \E h \in SegmentCommands(im) :
                /\ Cell(b, at[h] + 5) = Cell(b, x + 5) + Cell(b, x + 6)
                /\ Cell(b, x + 3) + Cell(b, x + 4) <= Cell(b, at[h] + 3)

LEMMA SegmentsPlaced ==
    ASSUME NEW im, NEW c, InContext(im, c), ~c.is_elf, NEW S, PlanIn(c, S),
           NEW n, NEW k, MachOBun(im, c, n, k), NEW p, Kept(p, im, c, S),
           NEW b, ContainerDone(b, p, c, S), NEW m \in SegmentCommands(im)
    PROVE  SegmentPlaced(b, im, c.layout.page_size, m)
<1> DEFINE L == Len(im)
           page == c.layout.page_size
           at == CommandOffsets(im)
           from == Cell(im, at[n] + 5)
           end == BunEnd(c)
           grow == Grow(c.layout, c.bun, DeltaSum(S))
           x == at[m]
           fo == Cell(im, x + 5)
           fs == Cell(im, x + 6)
           va == Cell(im, x + 3)
           vs == Cell(im, x + 4)
           fo2 == Cell(b, x + 5)
           fs2 == Cell(b, x + 6)
           va2 == Cell(b, x + 3)
           vs2 == Cell(b, x + 4)
<1>1. Moves(from, end, grow, fo, fs, va, vs, fo2, fs2, va2, vs2)
  BY SegmentsMoved DEF SegmentMoved
<1>2. /\ grow \in Nat /\ grow % page = 0 /\ page \in Int /\ 0 < page
  <2> DEFINE t == DeltaSum(S)
  <2>1. t \in Int
    BY EditSum DEF PlanIn
  <2> HIDE DEF t
  <2> QED
    BY <2>1, GrowsEnough DEF t
<1>3. Len(b) = L + grow
  BY FileOut DEF MachOFile
<1>4. SegmentFits(im, c, n, m)
  BY SegmentsFit
<1>5. fo % page = 0 /\ va % page = 0
  BY <1>4 DEF SegmentFits
<1>6. fo2 % page = 0 /\ va2 % page = 0
  <2> HIDE DEF from, end, grow, fo, fs, va, vs, fo2, fs2, va2, vs2, x, page
  <2>1. /\ fo \in Int /\ va \in Int /\ grow \in Int /\ fo % page = 0 /\ va % page = 0
        /\ grow % page = 0 /\ page \in Int /\ 0 < page
    BY <1>1, <1>2, <1>5 DEF Moves
  <2>2. (fo + grow) % page = 0
    BY <2>1, PagesAdd
  <2>3. (va + grow) % page = 0
    BY <2>1, PagesAdd
  <2>4. (fo2 = fo \/ fo2 = fo + grow) /\ (va2 = va \/ va2 = va + grow)
    BY <1>1 DEF Moves
  <2> QED
    BY <1>5, <2>2, <2>3, <2>4
<1>7. va2 - fo2 = va - fo
  <2> HIDE DEF from, end, grow, fo, fs, va, vs, fo2, fs2, va2, vs2, x
  <2> QED
    BY <1>1 DEF Moves
<1>8. CASE fo + fs = L
  <2>1. end <= L
    <3> DEFINE off == c.bun.bun_offset
               size == c.bun.bun_size
               table_end == at[Cell(im, 2)]
    <3>1. BunFits(im, c, n, L, off, size, table_end, from, end)
      BY BunFitsIn
    <3> HIDE DEF L, off, size, table_end, from, end
    <3> QED
      BY <3>1 DEF BunFits
  <2> HIDE DEF from, end, grow, fo, fs, va, vs, fo2, fs2, va2, vs2, x, L, page
  <2>2. end <= fo + fs
    BY <1>8, <2>1
  <2>3. fo2 + fs2 = (fo + fs) + grow
    BY <1>1, <2>2, StillLast
  <2>4. fo2 + fs2 = Len(b)
    BY <1>3, <1>8, <2>3
  <2> QED
    BY <1>6, <1>7, <2>4 DEF SegmentPlaced, fo2, fs2, va2, fo, va, x, page
<1>9. CASE fo + fs # L
  <2>1. PICK h \in SegmentCommands(im) : /\ Cell(im, at[h] + 5) = fo + fs
                                         /\ va + vs <= Cell(im, at[h] + 3)
    BY <1>4, <1>9 DEF SegmentFits
  <2> DEFINE y == at[h]
             ho == Cell(im, y + 5)
             hs == Cell(im, y + 6)
             ha == Cell(im, y + 3)
             hv == Cell(im, y + 4)
             ho2 == Cell(b, y + 5)
             hs2 == Cell(b, y + 6)
             ha2 == Cell(b, y + 3)
             hv2 == Cell(b, y + 4)
  <2>2. Moves(from, end, grow, ho, hs, ha, hv, ho2, hs2, ha2, hv2)
    BY SegmentsMoved DEF SegmentMoved
  <2>3. ho = fo + fs /\ va + vs <= ha
    BY <2>1
  <2> HIDE DEF from, end, grow, fo, fs, va, vs, fo2, fs2, va2, vs2,
               ho, hs, ha, hv, ho2, hs2, ha2, hv2, x, y, L, page
  <2>4. ho2 = fo2 + fs2 /\ va2 + vs2 <= ha2
    BY <1>1, <2>2, <2>3, StillFollows
  <2> QED
    BY <1>6, <1>7, <2>4 DEF SegmentPlaced, fo2, fs2, va2, vs2, fo, va, ho2, ha2, x, y, page
<1> QED
  BY <1>8, <1>9

-----------------------------------------------------------------------------
(* What the sections and load commands of the output refer to.             *)

\* The sz cells at so lie beside .bun and behind the load commands, and move by d.
FollowsBun(im, c, g, so, sz, d) ==
    \/ /\ CommandOffsets(im)[Cell(im, 2)] <= so
       /\ so + sz <= c.bun.bun_offset /\ d = 0
    \/ BunEnd(c) <= so /\ so + sz <= Len(im) /\ d = g
LEMMA CellsFollow ==
    ASSUME NEW im \in Seq(Int), NEW c, NEW b, NEW g \in Nat, MachOFile(b, im, c, g),
           CommandOffsets(im)[Cell(im, 2)] \in Nat, c.bun.bun_offset \in Nat,
           BunEnd(c) \in Nat, c.bun.bun_offset <= BunEnd(c), BunEnd(c) <= Len(im),
           NEW so \in Nat, NEW sz \in Nat, NEW d, FollowsBun(im, c, g, so, sz, d)
    PROVE  Cells(b, so + d, sz) = Cells(im, so, sz)
<1> DEFINE table_end == CommandOffsets(im)[Cell(im, 2)]
           off == c.bun.bun_offset
           end == BunEnd(c)
           L == Len(im)
<1>1. /\ table_end \in Nat /\ off \in Nat /\ end \in Nat /\ off <= end /\ end <= L /\ L \in Nat
      /\ ((table_end <= so /\ so + sz <= off /\ d = 0) \/ (end <= so /\ so + sz <= L /\ d = g))
  BY LenProperties DEF FollowsBun
<1>2. /\ b \in Seq(Int) /\ Len(b) = L + g
      /\ \A o \in table_end .. off - 1 : Cell(b, o) = Cell(im, o)
      /\ \A o \in end .. L - 1 : Cell(b, o + g) = Cell(im, o)
  BY DEF MachOFile
<1> HIDE DEF table_end, off, end, L
<1> DEFINE u == so + d
<1>3. u \in Nat /\ u + sz <= L + g /\ so + sz <= L
  BY <1>1
<1>4. ASSUME NEW j \in 1 .. sz PROVE b[u + j] = im[so + j]
  <2> DEFINE o == so + j - 1
  <2>1. o \in Int /\ o + 1 = so + j
    OBVIOUS
  <2>2. CASE d = 0 /\ table_end <= so /\ so + sz <= off
    <3>1. o \in table_end .. off - 1 /\ u + j = o + 1
      BY <1>1, <2>2
    <3> HIDE DEF o, u
    <3>2. Cell(b, o) = Cell(im, o)
      BY <1>2, <3>1
    <3> QED
      BY <2>1, <3>1, <3>2 DEF Cell
  <2>3. CASE d = g /\ end <= so /\ so + sz <= L
    <3>1. o \in end .. L - 1 /\ u + j = (o + g) + 1
      BY <1>1, <2>3
    <3> HIDE DEF o, u
    <3>2. Cell(b, o + g) = Cell(im, o)
      BY <1>2, <3>1
    <3> QED
      BY <2>1, <3>1, <3>2 DEF Cell
  <2> QED
    BY <1>1, <2>2, <2>3
<1> HIDE DEF u
<1>5. /\ Cells(b, u, sz) \in Seq(Int) /\ Len(Cells(b, u, sz)) = sz
      /\ \A j \in 1 .. sz : Cells(b, u, sz)[j] = b[u + j]
  BY <1>2, <1>3, CellsOf
<1>6. /\ Cells(im, so, sz) \in Seq(Int) /\ Len(Cells(im, so, sz)) = sz
      /\ \A j \in 1 .. sz : Cells(im, so, sz)[j] = im[so + j]
  <2>1. so + sz <= Len(im)
    BY <1>3 DEF L
  <2> QED
    BY <2>1, CellsOf
<1>7. Cells(b, u, sz) = Cells(im, so, sz)
  <2> DEFINE s == Cells(b, u, sz)
             r == Cells(im, so, sz)
  <2>1. s \in Seq(Int) /\ r \in Seq(Int) /\ Len(s) = sz /\ Len(r) = sz
    BY <1>5, <1>6
  <2>2. \A j \in 1 .. sz : s[j] = r[j]
    BY <1>4, <1>5, <1>6
  <2> HIDE DEF s, r
  <2>3. s = r
    BY <2>1, <2>2, SameSequence
  <2> QED
    BY <2>3 DEF s, r
<1> QED
  BY <1>7 DEF u

\* Section l of segment command m of the output is where it was in its segment,
\* and outside the segment of .bun it names the cells it named.
SectionPlaced(b, im, n, m, l) ==
    LET x == CommandOffsets(im)[m]
        y == SectionCell(x, l)
    IN /\ Cell(b, y + 1) - Cell(b, x + 3) = Cell(im, y + 1) - Cell(im, x + 3)
       /\ Cell(b, y + 3) = 0 <=> Cell(im, y + 3) = 0
       /\ m # n /\ Cell(b, y + 3) # 0 =>
             Cells(b, Cell(b, y + 3), Cell(b, y + 2)) = Cells(im, Cell(im, y + 3), Cell(b, y + 2))

LEMMA SectionsPlaced ==
    ASSUME NEW im, NEW c, InContext(im, c), ~c.is_elf, NEW S, PlanIn(c, S),
           NEW n, NEW k, MachOBun(im, c, n, k), NEW p, Kept(p, im, c, S),
           NEW b, ContainerDone(b, p, c, S), NEW m \in SegmentCommands(im),
           NEW l \in 0 .. Cell(im, CommandOffsets(im)[m] + 7) - 1
    PROVE  SectionPlaced(b, im, n, m, l)
<1> DEFINE L == Len(im)
           off == c.bun.bun_offset
           size == c.bun.bun_size
           table_end == CommandOffsets(im)[Cell(im, 2)]
           from == Cell(im, CommandOffsets(im)[n] + 5)
           end == BunEnd(c)
           grow == Grow(c.layout, c.bun, DeltaSum(S))
           x == CommandOffsets(im)[m]
           y == SectionCell(x, l)
           fo == Cell(im, x + 5)
           fs == Cell(im, x + 6)
           va == Cell(im, x + 3)
           addr == Cell(im, y + 1)
           sz == Cell(im, y + 2)
           so == Cell(im, y + 3)
           va2 == Cell(b, x + 3)
           addr2 == Cell(b, y + 1)
           sz2 == Cell(b, y + 2)
           so2 == Cell(b, y + 3)
<1>1. /\ L \in Nat /\ off \in Nat /\ size \in Nat /\ table_end \in Nat /\ from \in Int
      /\ end \in Nat /\ 4 <= table_end /\ table_end <= off /\ from <= off /\ off <= end
      /\ end <= L /\ from < end
  <2>1. BunFits(im, c, n, L, off, size, table_end, from, end)
    BY BunFitsIn
  <2> HIDE DEF L, off, size, table_end, from, end
  <2> QED
    BY <2>1 DEF BunFits
<1>2. grow \in Nat
  <2> DEFINE t == DeltaSum(S)
  <2>1. t \in Int
    BY EditSum DEF PlanIn
  <2> HIDE DEF t
  <2> QED
    BY <2>1, GrowsEnough DEF t
<1>3. SegmentIn(im, x)
  BY SegmentsAre DEF MachOBun
<1>4. /\ fo \in Int /\ fs \in Int /\ va \in Int /\ addr \in Int /\ sz \in Int /\ so \in Int
  <2> HIDE DEF x
  <2>1. fo \in Int /\ fs \in Int /\ va \in Int
    BY <1>3 DEF SegmentIn
  <2>2. addr \in Int /\ sz \in Int /\ so \in Int
    BY <1>3 DEF SegmentIn, SectionCell, x
  <2> QED
    BY <2>1, <2>2
<1>5. SegmentFits(im, c, n, m)
  BY SegmentsFit
<1>6. /\ 0 <= fs /\ fo + fs <= L /\ (m # n => fo + fs <= from \/ end <= fo)
      /\ so # 0 => table_end <= so /\ fo <= so /\ 0 <= sz /\ so + sz <= fo + fs
  <2> HIDE DEF end
  <2> QED
    BY <1>5 DEF SegmentFits, end
<1>7. CASE m = n
  <2>1. BunSegmentOut(b, im, x, grow)
    BY <1>7, BunSegmentIsOut
  <2>2. va2 = va /\ addr2 = addr /\ so2 = so
    BY <2>1 DEF BunSegmentOut
  <2> QED
    BY <1>7, <2>2 DEF SectionPlaced
<1>8. CASE m # n
  <2> DEFINE d == IF LaterCommand(im, n, end, m) THEN grow ELSE 0
  <2>1. SegmentOut(b, im, x, d)
    BY <1>8, OtherSegmentOut
  <2>2. LaterCommand(im, n, end, m) <=> end <= fo
    BY <1>8 DEF LaterCommand
  <2>3. d = IF end <= fo THEN grow ELSE 0
    BY <2>2
  <2> HIDE DEF d
  <2>4. va2 = va + d /\ addr2 = addr + d /\ sz2 = sz /\ so2 = IF so = 0 THEN 0 ELSE so + d
    BY <2>1 DEF SegmentOut
  <2>5. MachOFile(b, im, c, grow)
    BY FileOut
  <2>6. im \in Seq(Int)
    BY DEF InContext
  <2>7. ASSUME so # 0 PROVE so2 # 0 /\ Cells(b, so2, sz2) = Cells(im, so, sz2)
    <3> HIDE DEF L, off, table_end, end, from, grow, fo, fs, va, addr, sz, so,
                 va2, addr2, sz2, so2, x, y
    <3>1. /\ d \in Nat /\ so \in Nat /\ sz \in Nat /\ 4 <= so
          /\ ((table_end <= so /\ so + sz <= off /\ d = 0)
                 \/ (end <= so /\ so + sz <= L /\ d = grow))
      BY <1>1, <1>2, <1>4, <1>6, <1>8, <2>3, <2>7
    <3>2. so2 = so + d /\ sz2 = sz /\ so2 # 0
      BY <2>4, <2>7, <3>1
    <3>3. Cells(b, so + d, sz) = Cells(im, so, sz)
      <4>1. /\ CommandOffsets(im)[Cell(im, 2)] \in Nat /\ c.bun.bun_offset \in Nat
            /\ BunEnd(c) \in Nat /\ c.bun.bun_offset <= BunEnd(c) /\ BunEnd(c) <= Len(im)
        BY <1>1 DEF L, off, table_end, end
      <4>2. FollowsBun(im, c, grow, so, sz, d)
        BY <3>1 DEF FollowsBun, L, off, table_end, end
      <4> QED
        BY <1>2, <2>5, <2>6, <3>1, <4>1, <4>2, CellsFollow
    <3> QED
      BY <3>2, <3>3
  <2> HIDE DEF L, off, table_end, end, from, grow, fo, fs, va, addr, sz, so,
               va2, addr2, sz2, so2, x, y
  <2>8. /\ addr2 - va2 = addr - va /\ (so2 = 0 <=> so = 0)
        /\ (so2 # 0 => Cells(b, so2, sz2) = Cells(im, so, sz2))
    <3>1. d \in Int
      BY <1>2, <2>3
    <3>2. addr2 - va2 = addr - va
      BY <1>4, <2>4, <3>1
    <3> QED
      BY <2>4, <2>7, <3>2
  <2> QED
    BY <2>8 DEF SectionPlaced, va, addr, so, va2, addr2, sz2, so2, x, y
<1> QED
  BY <1>7, <1>8

\* A file offset in a load command still names the cell it named.
LEMMA FieldsPlaced ==
    ASSUME NEW im, NEW c, InContext(im, c), ~c.is_elf, NEW S, PlanIn(c, S),
           NEW n, NEW k, MachOBun(im, c, n, k), NEW p, Kept(p, im, c, S),
           NEW b, ContainerDone(b, p, c, S), NEW f \in c.layout.file_offset_fields,
           f.value # 0
    PROVE  Cell(b, Cell(b, f.at)) = Cell(im, f.value)
<1> DEFINE L == Len(im)
           off == c.bun.bun_offset
           size == c.bun.bun_size
           table_end == CommandOffsets(im)[Cell(im, 2)]
           from == Cell(im, CommandOffsets(im)[n] + 5)
           end == BunEnd(c)
           grow == Grow(c.layout, c.bun, DeltaSum(S))
           v == f.value
<1>1. /\ L \in Nat /\ off \in Nat /\ table_end \in Nat /\ end \in Int /\ off <= end
  <2>1. BunFits(im, c, n, L, off, size, table_end, from, end)
    BY BunFitsIn
  <2> HIDE DEF L, off, size, table_end, from, end
  <2> QED
    BY <2>1 DEF BunFits
<1>2. /\ v \in Int /\ Cell(b, f.at) = IF end <= v THEN v + grow ELSE v
  BY FieldOut
<1>3. table_end <= v /\ v < L /\ (v < off \/ end <= v)
  <2>1. MachOPartsPlaced(im, c)
    BY ContextIs DEF MachOWellPlaced
  <2> QED
    BY <2>1 DEF MachOPartsPlaced, BunEnd
<1>4. /\ \A o \in table_end .. off - 1 : Cell(b, o) = Cell(im, o)
      /\ \A o \in end .. L - 1 : Cell(b, o + grow) = Cell(im, o)
  BY FileOut DEF MachOFile
<1> HIDE DEF L, off, table_end, end, grow, v
<1>5. CASE end <= v
  <2>1. v \in end .. L - 1
    BY <1>1, <1>2, <1>3, <1>5
  <2> QED
    BY <1>2, <1>4, <1>5, <2>1 DEF v
<1>6. CASE ~(end <= v)
  <2>1. v \in table_end .. off - 1
    BY <1>1, <1>2, <1>3, <1>6
  <2> QED
    BY <1>2, <1>4, <1>6, <2>1 DEF v
<1> QED
  BY <1>5, <1>6

-----------------------------------------------------------------------------
(* The rewritten Mach-O image can be loaded.                               *)

LEMMA OutIsMapped ==
    ASSUME NEW im, NEW c, InContext(im, c), ~c.is_elf, NEW S, PlanIn(c, S),
           NEW n, NEW k, MachOBun(im, c, n, k), NEW p, Kept(p, im, c, S),
           NEW b, ContainerDone(b, p, c, S)
    PROVE  Mapped(MachOParse(b), c.layout.page_size, Len(b))
<1> DEFINE at == CommandOffsets(im)
           new == MachOParse(b)
           page == c.layout.page_size
<1>1. new.segments = {SegmentAt(b, at[m]) : m \in SegmentCommands(im)}
  BY SegmentsAreReread DEF SegmentsReread
<1>2. ASSUME NEW g \in new.segments
      PROVE  /\ g.fileoff % page = 0 /\ g.vmaddr % page = 0
             /\ FileEnd(g) = Len(b) \/ \E h \in new.segments :
                                          /\ h.fileoff = FileEnd(g)
                                          /\ g.vmaddr + g.vmsize <= h.vmaddr
  <2>1. PICK m \in SegmentCommands(im) : g = SegmentAt(b, at[m])
    BY <1>1
  <2>2. SegmentPlaced(b, im, page, m)
    BY SegmentsPlaced
  <2> DEFINE x == at[m]
  <2>3. /\ g.fileoff = Cell(b, x + 5) /\ g.vmaddr = Cell(b, x + 3) /\ g.vmsize = Cell(b, x + 4)
        /\ FileEnd(g) = Cell(b, x + 5) + Cell(b, x + 6)
    BY <2>1, SegmentCells
  <2>4. CASE FileEnd(g) = Len(b)
    <3> HIDE DEF page, new
    <3> QED
      BY <2>2, <2>3, <2>4 DEF SegmentPlaced
  <2>5. CASE FileEnd(g) # Len(b)
    <3>1. PICK h \in SegmentCommands(im) :
             /\ Cell(b, at[h] + 5) = Cell(b, x + 5) + Cell(b, x + 6)
             /\ Cell(b, x + 3) + Cell(b, x + 4) <= Cell(b, at[h] + 3)
      BY <2>2, <2>3, <2>5 DEF SegmentPlaced
    <3> DEFINE next == SegmentAt(b, at[h])
    <3>2. next \in new.segments
      BY <1>1
    <3>3. next.fileoff = Cell(b, at[h] + 5) /\ next.vmaddr = Cell(b, at[h] + 3)
      BY SegmentCells
    <3> HIDE DEF next
    <3>4. next.fileoff = FileEnd(g) /\ g.vmaddr + g.vmsize <= next.vmaddr
      BY <2>3, <3>1, <3>3
    <3>5. g.fileoff % page = 0 /\ g.vmaddr % page = 0
      BY <2>2, <2>3 DEF SegmentPlaced
    <3> QED
      BY <3>2, <3>4, <3>5
  <2> QED
    BY <2>4, <2>5
<1> HIDE DEF new, page
<1> QED
  BY <1>2 DEF Mapped, new, page

\* The segment of the input a segment of the output is read from.
LEMMA WasIs ==
    ASSUME NEW im, NEW c, NEW n, NEW k, MachOBun(im, c, n, k), NEW t,
           NEW b, SegmentsReread(b, im, c, n, t), NEW m \in SegmentCommands(im)
    PROVE  (CHOOSE g \in c.layout.segments : g.header = SegmentAt(b, CommandOffsets(im)[m]).header)
              = SegmentAt(im, CommandOffsets(im)[m])
<1> DEFINE at == CommandOffsets(im)
           was == SegmentAt(im, at[m])
<1>1. c.layout.segments = {SegmentAt(im, at[h]) : h \in SegmentCommands(im)}
  BY DEF SegmentsReread
<1>2. SegmentAt(b, at[m]).header = at[m]
  BY SegmentCells
<1>3. was \in c.layout.segments /\ was.header = at[m]
  BY <1>1, SegmentCells
<1>4. ASSUME NEW g \in c.layout.segments, g.header = at[m] PROVE g = was
  <2>1. PICK h \in SegmentCommands(im) : g = SegmentAt(im, at[h])
    BY <1>1
  <2>2. at[h] = at[m]
    BY <1>4, <2>1, SegmentCells
  <2> QED
    BY <2>1, <2>2
<1> HIDE DEF was, at
<1>5. (CHOOSE g \in c.layout.segments : g.header = at[m]) = was
  BY <1>3, <1>4
<1> QED
  BY <1>2, <1>5 DEF at, was

\* A segment of the output, beside the one it was.
SegmentKept(b, im, g, was, bun) ==
    /\ g.vmaddr - g.fileoff = was.vmaddr - was.fileoff
    /\ \A s \in DOMAIN g.sections :
          LET is == g.sections[s]
              before == was.sections[s]
          IN /\ is.addr - g.vmaddr = before.addr - was.vmaddr
             /\ is.offset = 0 <=> before.offset = 0
             /\ g # bun /\ is.offset # 0 =>
                  Cells(b, is.offset, is.size) = Cells(im, before.offset, is.size)

LEMMA SegmentsKept ==
    ASSUME NEW im, NEW c, InContext(im, c), ~c.is_elf, NEW S, PlanIn(c, S),
           NEW n, NEW k, MachOBun(im, c, n, k), NEW p, Kept(p, im, c, S),
           NEW b, ContainerDone(b, p, c, S), NEW m \in SegmentCommands(im)
    PROVE  SegmentKept(b, im, SegmentAt(b, CommandOffsets(im)[m]),
                       SegmentAt(im, CommandOffsets(im)[m]),
                       SegmentAt(b, CommandOffsets(im)[n]))
<1> DEFINE at == CommandOffsets(im)
           x == at[m]
           g == SegmentAt(b, x)
           was == SegmentAt(im, x)
           bun == SegmentAt(b, at[n])
<1>1. Cell(b, x + 7) = Cell(im, x + 7)
  BY SegmentsAreReread DEF SegmentsReread
<1>2. SegmentPlaced(b, im, c.layout.page_size, m)
  BY SegmentsPlaced
<1>3. g.vmaddr - g.fileoff = was.vmaddr - was.fileoff
  <2>1. /\ g.vmaddr = Cell(b, x + 3) /\ g.fileoff = Cell(b, x + 5)
        /\ was.vmaddr = Cell(im, x + 3) /\ was.fileoff = Cell(im, x + 5)
    BY SegmentCells
  <2>2. Cell(b, x + 3) - Cell(b, x + 5) = Cell(im, x + 3) - Cell(im, x + 5)
    BY <1>2 DEF SegmentPlaced
  <2> QED
    BY <2>1, <2>2
<1>4. g # bun => m # n
  OBVIOUS
<1>5. DOMAIN g.sections = 0 .. Cell(im, x + 7) - 1
  BY <1>1, SegmentCells
<1>6. ASSUME NEW l \in DOMAIN g.sections
      PROVE  /\ g.sections[l].addr - g.vmaddr = was.sections[l].addr - was.vmaddr
             /\ (g.sections[l].offset = 0 <=> was.sections[l].offset = 0)
             /\ g # bun /\ g.sections[l].offset # 0 =>
                  Cells(b, g.sections[l].offset, g.sections[l].size) =
                  Cells(im, was.sections[l].offset, g.sections[l].size)
  <2>1. l \in 0 .. Cell(im, x + 7) - 1 /\ l \in 0 .. Cell(b, x + 7) - 1
    BY <1>1, <1>5
  <2>2. SectionPlaced(b, im, n, m, l)
    BY <2>1, SectionsPlaced
  <2> DEFINE y == SectionCell(x, l)
  <2>3. /\ g.sections[l].addr = Cell(b, y + 1) /\ g.sections[l].size = Cell(b, y + 2)
        /\ g.sections[l].offset = Cell(b, y + 3) /\ g.vmaddr = Cell(b, x + 3)
        /\ was.sections[l].addr = Cell(im, y + 1) /\ was.sections[l].offset = Cell(im, y + 3)
        /\ was.vmaddr = Cell(im, x + 3)
    BY <2>1, SegmentCells
  <2>4. /\ Cell(b, y + 1) - Cell(b, x + 3) = Cell(im, y + 1) - Cell(im, x + 3)
        /\ (Cell(b, y + 3) = 0 <=> Cell(im, y + 3) = 0)
        /\ (m # n /\ Cell(b, y + 3) # 0 =>
             Cells(b, Cell(b, y + 3), Cell(b, y + 2)) = Cells(im, Cell(im, y + 3), Cell(b, y + 2)))
    BY <2>2 DEF SectionPlaced
  <2> HIDE DEF g, was, bun, y, x
  <2> QED
    BY <1>4, <2>3, <2>4
<1> HIDE DEF g, was, bun
<1>7. SegmentKept(b, im, g, was, bun)
  BY <1>3, <1>6, Zenon DEF SegmentKept
<1> QED
  BY <1>7 DEF g, was, bun

\* The grown payload lies in its segment.
LEMMA PayloadInSegment ==
    ASSUME NEW im, NEW c, InContext(im, c), ~c.is_elf, NEW S, PlanIn(c, S),
           NEW n, NEW k, MachOBun(im, c, n, k), NEW p, Kept(p, im, c, S),
           NEW b, ContainerDone(b, p, c, S)
    PROVE  LET bun == SegmentByName(MachOParse(b), BUN_SEGNAME)
               payload_end == BunSect(MachOParse(b)).offset + BunSect(MachOParse(b)).size
           IN /\ payload_end <= FileEnd(bun)
              /\ (\E e \in S : Growable(e)) =>
                    \A o \in payload_end .. FileEnd(bun) - 1 : Cell(b, o) = 0
<1> DEFINE off == c.bun.bun_offset
           size == c.bun.bun_size
           t == DeltaSum(S)
           L == Len(im)
           table_end == CommandOffsets(im)[Cell(im, 2)]
           x == CommandOffsets(im)[n]
           from == Cell(im, x + 5)
           end == BunEnd(c)
           grow == Grow(c.layout, c.bun, t)
           bun == SegmentByName(MachOParse(b), BUN_SEGNAME)
           payload_end == BunSect(MachOParse(b)).offset + BunSect(MachOParse(b)).size
<1>1. /\ off \in Nat /\ size \in Nat /\ end \in Int /\ from \in Int
      /\ end = from + Cell(im, x + 6)
  <2>1. BunFits(im, c, n, L, off, size, table_end, from, end)
    BY BunFitsIn
  <2> HIDE DEF L, off, size, table_end, from, end
  <2> QED
    BY <2>1 DEF BunFits, x
<1>2. t \in Int
  BY EditSum DEF PlanIn
<1>3. /\ grow \in Nat /\ t <= (end - (off + size)) + grow
  <2> DEFINE pad == Pad(c.layout, c.bun)
  <2>1. grow \in Nat /\ pad = end - (off + size) /\ t <= pad + grow
    <3> HIDE DEF t
    <3> QED
      BY <1>2, GrowsEnough
  <2> HIDE DEF pad, grow, end, off, size, t
  <2> QED
    BY <2>1
<1>4. payload_end = off + (size + t) /\ bun = SegmentAt(b, x)
  BY SegmentsAreReread DEF SegmentsReread
<1>5. FileEnd(bun) = end + grow
  <2>2. BunSegmentOut(b, im, x, grow)
    BY BunSegmentIsOut
  <2>3. FileEnd(bun) = Cell(b, x + 5) + Cell(b, x + 6)
    <3> HIDE DEF bun, x
    <3> QED
      BY <1>4, SegmentCells
  <2> DEFINE fs == Cell(im, x + 6)
             fo2 == Cell(b, x + 5)
             fs2 == Cell(b, x + 6)
  <2>4. fo2 = from /\ fs2 = fs + grow
    BY <2>2 DEF BunSegmentOut
  <2>5. fs \in Int
    <3>1. SegmentIn(im, x)
      BY DEF MachOBun
    <3> HIDE DEF x
    <3> QED
      BY <3>1 DEF SegmentIn
  <2>6. FileEnd(bun) = fo2 + fs2 /\ end = from + fs
    BY <1>1, <2>3
  <2> HIDE DEF fs, fo2, fs2, from, end, grow, bun, t
  <2> QED
    BY <1>1, <1>3, <2>4, <2>5, <2>6
<1>6. (\E e \in S : Growable(e)) => \A o \in off + size + t .. end + grow - 1 : Cell(b, o) = 0
  BY FileOut DEF PaddingZero
<1> HIDE DEF off, size, t, end, grow, bun, payload_end
<1>7. payload_end <= FileEnd(bun)
  BY <1>1, <1>2, <1>3, <1>4, <1>5
<1>8. payload_end = off + size + t
  BY <1>1, <1>2, <1>4
<1>9. (\E e \in S : Growable(e)) => \A o \in payload_end .. FileEnd(bun) - 1 : Cell(b, o) = 0
  <2>1. FileEnd(bun) - 1 = end + grow - 1
    BY <1>1, <1>3, <1>5
  <2> QED
    BY <1>6, <1>8, <2>1
<1> QED
  BY <1>7, <1>9 DEF bun, payload_end

\* _rewrite_macho_headers leaves an image dyld accepts (context.py:338-432), for
\* every described image and plan: segments stay on page boundaries, as far from
\* their place in memory as they were, and follow one another up to the end of the
\* file; sections stay where they were in them; the padding behind a resized
\* payload is zero; and sections and load commands name the cells they named.
THEOREM MachOStaysLoadable ==
    ASSUME Described
    PROVE  Spec => []MachOLoadable
<1>1. AppliedInv => MachOLoadable
  <2> SUFFICES ASSUME AppliedInv, Patched, ~ctx.is_elf PROVE MachOLoadable
    BY DEF MachOLoadable
  <2> DEFINE S == InPlan
             t == DeltaSum(S)
             at == CommandOffsets(image)
             old == ctx.layout
             new == MachOParse(buf)
             was(seg) == CHOOSE g \in old.segments : g.header = seg.header
             bun == SegmentByName(new, BUN_SEGNAME)
             payload_end == BunSect(new).offset + BunSect(new).size
  <2>1. InContext(image, ctx) /\ PlanIn(ctx, S)
    BY PatchedIsReadBack
  <2>2. PICK p : /\ PayloadDone(p, image, ctx, InPlan, TouchedModules)
                 /\ ContainerDone(buf, p, ctx, InPlan)
    BY DEF AppliedInv, Patched, PhaseInv
  <2>3. Kept(p, image, ctx, S) /\ ContainerDone(buf, p, ctx, S)
    BY <2>2 DEF PayloadDone
  <2>4. PICK n, k : MachOBun(image, ctx, n, k)
    BY <2>1, MachOBunIs
  <2> HIDE DEF S
  <2>5. SegmentsReread(buf, image, ctx, n, t)
    BY <2>1, <2>3, <2>4, SegmentsAreReread
  <2>6. /\ MachOParses(buf)
        /\ new.segments = {SegmentAt(buf, at[m]) : m \in SegmentCommands(image)}
        /\ old.segments = {SegmentAt(image, at[m]) : m \in SegmentCommands(image)}
        /\ bun = SegmentAt(buf, at[n])
    BY <2>5 DEF SegmentsReread
  <2>7. {g.header : g \in new.segments} = {g.header : g \in old.segments}
    <3>1. ASSUME NEW m \in SegmentCommands(image)
          PROVE  SegmentAt(buf, at[m]).header = SegmentAt(image, at[m]).header
      BY SegmentCells
    <3> HIDE DEF at, new, old
    <3> QED
      BY <2>6, <3>1
  <2>8. Mapped(new, old.page_size, Len(buf))
    BY <2>1, <2>3, <2>4, OutIsMapped
  <2>9. ASSUME NEW g \in new.segments PROVE SegmentKept(buf, image, g, was(g), bun)
    <3>1. PICK m \in SegmentCommands(image) : g = SegmentAt(buf, at[m])
      BY <2>6
    <3>2. was(g) = SegmentAt(image, at[m])
      BY <2>4, <2>5, <3>1, WasIs
    <3>3. SegmentKept(buf, image, SegmentAt(buf, at[m]), SegmentAt(image, at[m]),
                      SegmentAt(buf, at[n]))
      BY <2>1, <2>3, <2>4, SegmentsKept
    <3> QED
      BY <2>6, <3>1, <3>2, <3>3
  <2>10. /\ payload_end <= FileEnd(bun)
         /\ GrowableEdits # {} => \A o \in payload_end .. FileEnd(bun) - 1 : Cell(buf, o) = 0
    <3>1. /\ payload_end <= FileEnd(bun)
          /\ (\E e \in S : Growable(e)) =>
                \A o \in payload_end .. FileEnd(bun) - 1 : Cell(buf, o) = 0
      BY <2>1, <2>3, <2>4, PayloadInSegment
    <3>2. GrowableEdits # {} => \E e \in S : Growable(e)
      BY GrowablesInPlan DEF S
    <3> HIDE DEF payload_end, bun
    <3> QED
      BY <3>1, <3>2
  <2>11. ASSUME NEW f \in old.file_offset_fields, f.value # 0
         PROVE  Cell(buf, Cell(buf, f.at)) = Cell(image, f.value)
    BY <2>1, <2>3, <2>4, <2>11, FieldsPlaced
  <2>12. \A g \in new.segments :
            /\ g.vmaddr - g.fileoff = was(g).vmaddr - was(g).fileoff
            /\ \A s \in DOMAIN g.sections :
                  LET is == g.sections[s]
                      before == was(g).sections[s]
                  IN /\ is.addr - g.vmaddr = before.addr - was(g).vmaddr
                     /\ is.offset = 0 <=> before.offset = 0
                     /\ g # bun /\ is.offset # 0 =>
                          Cells(buf, is.offset, is.size) =
                          Cells(image, before.offset, is.size)
    <3> HIDE DEF new, was, bun
    <3> QED
      BY <2>9, Zenon DEF SegmentKept
  <2> QED
    BY <2>6, <2>7, <2>8, <2>10, <2>11, <2>12, Zenon DEF MachOLoadable
<1> QED
  BY <1>1, AppliedAlways, PTL

-----------------------------------------------------------------------------
(* The type of every variable.                                             *)

\* The bounds of the loop index, and a buffer of cells all along.
TypedInv == i \in 0 .. N + 1 /\ buf \in Seq(Int)

LEMMA TypedStep ==
    ASSUME AppliedInv, AppliedInv', TypedInv, [Next]_vars
    PROVE  TypedInv'
<1>0. N \in Nat /\ edits \in Seq(Edit) /\ i \in 0 .. N + 1 /\ buf \in Seq(Int)
  BY LenProperties DEF AppliedInv, OrderInv, TypedInv, N
<1>1. CASE pc' \in {"bytecode", "framing", "container"} /\ Rewrites
  <2>1. Kept(buf, image, ctx, InPlan)'
    BY <1>1 DEF AppliedInv, PhaseInv, PayloadDone
  <2>2. buf' \in Seq(Int)
    BY <2>1 DEF Kept
  <2>3. i' = i /\ N' = N
    BY <1>1, RewritesEnd DEF N
  <2> QED
    BY <1>0, <2>2, <2>3 DEF TypedInv
<1>2. CASE pc' = "done" /\ Rewrites
  <2>1. ReadBack(buf, image, ctx, InPlan, TouchedModules)'
    <3>1. /\ image' = image /\ edits' = edits /\ ctx' = ctx
          /\ InPlan' = InPlan /\ TouchedModules' = TouchedModules
      <4>1. image' = image /\ edits' = edits /\ ctx' = ctx
        BY <1>2 DEF Rewrites, RewriteStringPointers, InvalidateBytecode, RewriteBunFraming,
                    RewriteElfHeaders, RewriteMachOHeaders
      <4> QED
        BY <4>1, PlanKept
    <3>2. InContext(image, ctx) /\ PlanIn(ctx, InPlan)
      <4>1. Accepted /\ OrderInv /\ ContextInv
        BY <1>2, RewritesEnd DEF AppliedInv
      <4> QED
        BY <4>1, PlanIsIn
    <3>3. PICK p : /\ PayloadDone(p, image, ctx, InPlan, TouchedModules)
                   /\ ContainerDone(buf', p, ctx, InPlan)
      <4>1. \E p : /\ PayloadDone(p, image', ctx', InPlan', TouchedModules')
                   /\ ContainerDone(buf', p, ctx', InPlan')
        BY <1>2 DEF AppliedInv, PhaseInv
      <4> QED
        BY <3>1, <4>1
    <3>4. ReadBack(buf', image, ctx, InPlan, TouchedModules)
      BY <3>2, <3>3, DoneIsReadBack
    <3> QED
      BY <3>1, <3>4
  <2>2. buf' \in Seq(Int)
    BY <2>1 DEF ReadBack
  <2>3. i' = i /\ N' = N
    BY <1>2, RewritesEnd DEF N
  <2> QED
    BY <1>0, <2>2, <2>3 DEF TypedInv
<1>3. CASE pc' \notin {"bytecode", "framing", "container", "done"} /\ Rewrites
  <2>1. buf' = buf
    BY <1>3, RewritesEnd DEF Rewrites, RewriteStringPointers, InvalidateBytecode,
       RewriteBunFraming, RewriteElfHeaders, RewriteMachOHeaders
  <2>2. i' = i /\ N' = N
    BY <1>3, RewritesEnd DEF N
  <2> QED
    BY <1>0, <2>1, <2>2 DEF TypedInv
<1>4. CASE Sort \/ CheckRegions
  <2>1. i' = 1 /\ N' = N /\ buf' = buf
    BY <1>4 DEF Sort, CheckRegions, N
  <2> QED
    BY <1>0, <2>1 DEF TypedInv
<1>5. CASE CheckNeighbours
  <2>1. (i' = i \/ i' = i + 1) /\ i < N /\ N' = N /\ buf' = buf
    BY <1>5 DEF CheckNeighbours, N
  <2> QED
    BY <1>0, <2>1 DEF TypedInv
<1>6. CASE SpliceSameLength
  <2>1. pc = "same_length" /\ i <= N /\ N' = N
    BY <1>6 DEF SpliceSameLength, N
  <2>2. i >= 1
    BY <2>1 DEF AppliedInv, OrderInv
  <2>3. CASE Growable(edits[i])
    <3>1. i' = i + 1 /\ buf' = buf
      BY <1>6, <2>3 DEF SpliceSameLength
    <3> QED
      BY <1>0, <2>1, <3>1 DEF TypedInv
  <2>4. CASE ~Growable(edits[i])
    <3>1. VerifyAndSplice(edits[i], i + 1)
      BY <1>6, <2>4 DEF SpliceSameLength
    <3>2. i \in 1..N /\ i + 1 \in Int
      BY <1>0, <2>1, <2>2
    <3>3. edits[i] \in Edit
      BY <1>0, <3>2 DEF N
    <3>4. buf' \in Seq(Int) /\ i' \in {i, i + 1}
      BY <1>0, <3>1, <3>2, <3>3, SplicedBuf
    <3> QED
      BY <1>0, <2>1, <3>4 DEF TypedInv
  <2> QED
    BY <2>3, <2>4
<1>7. CASE SameLengthDone
  <2>1. i' = N /\ N' = N /\ buf' = buf
    BY <1>7 DEF SameLengthDone, N
  <2> QED
    BY <1>0, <2>1 DEF TypedInv
<1>8. CASE SpliceGrowable
  <2>1. pc = "growable" /\ i >= 1 /\ N' = N
    BY <1>8 DEF SpliceGrowable, N
  <2>2. i <= N
    BY <2>1 DEF AppliedInv, OrderInv
  <2>3. i \in 1..N /\ i - 1 \in 0..N
    BY <1>0, <2>1, <2>2
  <2>4. CASE Growable(sorted[i])
    <3>1. VerifyAndSplice(sorted[i], i - 1)
      BY <1>8, <2>4 DEF SpliceGrowable, GrowableTurn
    <3>2. sorted[i] \in Edit
      <4>1. PICK q \in SortedOrders(edits) : sorted = [k \in 1..N |-> edits[q[k]]]
        BY <2>1 DEF AppliedInv, OrderInv
      <4> QED
        BY <1>0, <2>3, <4>1, SortedFacts
    <3>3. buf' \in Seq(Int) /\ i' \in {i, i - 1}
      BY <1>0, <2>3, <3>1, <3>2, SplicedBuf
    <3> QED
      BY <1>0, <2>1, <2>3, <3>3 DEF TypedInv
  <2>5. CASE ~Growable(sorted[i])
    <3>1. i' = i - 1 /\ buf' = buf
      BY <1>8, <2>5 DEF SpliceGrowable, GrowableTurn
    <3> QED
      BY <1>0, <2>1, <2>3, <3>1 DEF TypedInv
  <2> QED
    BY <2>4, <2>5
<1>9. CASE Finished \/ UNCHANGED vars
  BY <1>9 DEF Finished, vars, TypedInv, N
<1> QED
  <2>1. Rewrites \/ Sort \/ CheckRegions \/ CheckNeighbours \/ SpliceSameLength
        \/ SameLengthDone \/ SpliceGrowable \/ Finished \/ UNCHANGED vars
    BY DEF Next, Rewrites
  <2> QED
    BY <1>1, <1>2, <1>3, <1>4, <1>5, <1>6, <1>7, <1>8, <1>9, <2>1

\* The steps the program is in, and no order of the edits before the first.
StepNames ==
    /\ pc \in Outcomes \cup {"sort", "overlaps", "same_length", "growable",
                             "bytecode", "framing", "container"}
    /\ pc = "sort" => sorted = <<>>

LEMMA NamesStep == StepNames /\ [Next]_vars => StepNames'
<1> SUFFICES ASSUME StepNames, [Next]_vars PROVE StepNames'
  OBVIOUS
<1>1. CASE Sort \/ CheckNeighbours \/ CheckRegions \/ SameLengthDone
  BY <1>1 DEF Sort, CheckNeighbours, CheckRegions, SameLengthDone, StepNames, Outcomes
<1>2. CASE SpliceSameLength \/ SpliceGrowable
  <2>1. pc \in {"same_length", "growable"}
    BY <1>2 DEF SpliceSameLength, SpliceGrowable
  <2>2. pc' = pc \/ pc' = "mismatch"
    BY <1>2 DEF SpliceSameLength, SpliceGrowable, VerifyAndSplice
  <2> QED
    BY <2>1, <2>2 DEF StepNames, Outcomes
<1>3. CASE Rewrites
  BY <1>3, RewritesEnd DEF StepNames, Outcomes
<1>4. CASE Finished \/ UNCHANGED vars
  BY <1>4 DEF Finished, vars, StepNames
<1> QED
  BY <1>1, <1>2, <1>3, <1>4 DEF Next, Rewrites

\* Every variable of the applier keeps its type, for every described image and
\* plan: neither loop index leaves the plan, and the buffer stays a buffer of
\* cells through every splice, header rewrite and repadding (context.py:121-432).
THEOREM AlwaysTyped ==
    ASSUME Described
    PROVE  Spec => []TypeOK
<1>1. Init => TypedInv
  <2> SUFFICES ASSUME Init PROVE TypedInv
    OBVIOUS
  <2>1. i = 1 /\ buf = image /\ OrderInv
    BY OrderInit DEF Init
  <2>2. N \in Nat
    BY <2>1, LenProperties DEF OrderInv, N
  <2> QED
    BY <2>1, <2>2 DEF TypedInv, OrderInv
<1>2. AppliedInv /\ AppliedInv' /\ TypedInv /\ [Next]_vars => TypedInv'
  BY TypedStep
<1>3. Spec => []TypedInv
  BY <1>1, <1>2, AppliedAlways, PTL DEF Spec
<1>4. Spec => []StepNames
  <2>1. Init => StepNames
    BY DEF Init, StepNames
  <2>2. StepNames /\ [Next]_vars => StepNames'
    BY NamesStep
  <2> QED
    BY <2>1, <2>2, PTL DEF Spec
<1>5. AppliedInv /\ TypedInv /\ StepNames => TypeOK
  <2> SUFFICES ASSUME AppliedInv, TypedInv, StepNames PROVE TypeOK
    OBVIOUS
  <2>1. sorted \in Seq(Edit)
    <3>1. CASE pc = "sort"
      BY <3>1 DEF StepNames
    <3>2. CASE pc # "sort"
      <4>1. PICK p \in SortedOrders(edits) : sorted = [k \in 1..N |-> edits[p[k]]]
        BY <3>2 DEF AppliedInv, OrderInv
      <4>2. N \in Nat /\ \A k \in 1..N : sorted[k] \in Edit
        BY <4>1, SortedFacts DEF AppliedInv, OrderInv
      <4>3. sorted \in [1..N -> Edit]
        BY <4>1, <4>2
      <4> QED
        BY <4>2, <4>3
    <3> QED
      BY <3>1, <3>2
  <2>2. image \in Seq(Int) /\ edits \in Seq(Edit) /\ ctx = Parse(image)
    BY DEF AppliedInv, OrderInv, ContextInv
  <2>3. pc \in Outcomes \cup {"sort", "overlaps", "same_length", "growable",
                              "bytecode", "framing", "container"}
    BY DEF StepNames
  <2> QED
    BY <2>1, <2>2, <2>3 DEF TypedInv, TypeOK
<1> QED
  BY <1>3, <1>4, <1>5, AppliedAlways, PTL

=============================================================================
