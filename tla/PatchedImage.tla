---------------------------- MODULE PatchedImage ----------------------------
(***************************************************************************)
(* What a patched image must look like, stated without the applier's       *)
(* arithmetic: the output is parsed afresh, as Bun, the kernel or dyld     *)
(* would read it, and compared with the input read the same way.           *)
(***************************************************************************)
EXTENDS EditApplier, SequencesExt

PlanEdits == {edits[k] : k \in 1..N}

\* What one cell of the input becomes under the plan.  A growable edit puts
\* its whole text where the replaced range began.
CellAfter(o) ==
    LET over == {e \in PlanEdits : e.offset <= o /\ o < EndOf(e)}
    IN IF over = {} THEN <<Cell(image, o)>>
       ELSE LET e == CHOOSE f \in over : TRUE
            IN IF ~Growable(e) THEN <<e.new[o - e.offset + 1]>>
               ELSE IF o = e.offset THEN e.new ELSE <<>>

\* What pure insertions put in front of the cell at o, for region r.
InsertedAt(o, r) ==
    LET here == {e \in PlanEdits : e.offset = o /\ e.old = <<>> /\ e.region = r}
    IN IF here = {} THEN <<>> ELSE (CHOOSE e \in here : TRUE).new

\* The text a region of the input must have in the output.
Rewritten(r) ==
    LET at == ctx.bun.payload_start + ctx.sp[r].offset
        len == ctx.sp[r].length
    IN FlattenSeq([n \in 1..len |-> InsertedAt(at + n - 1, r)
                                        \o CellAfter(at + n - 1)])
       \o InsertedAt(at + len, r)

Text(b, c, r) == Cells(b, c.bun.payload_start + c.sp[r].offset, c.sp[r].length)

Patched == pc = "done"
NoPtr == [offset |-> 0, length |-> 0]

SourceRefs == {r \in ModuleRefs(ctx.bun) : r.field # "bytecode"}
EditedModules ==
    {r.index : r \in {s \in SourceRefs : Rewritten(s) # Text(image, ctx, s)}}

\* The regions with text in them, as file offsets [RegionAt, RegionEnd).
Regions(c) == {r \in ModuleRefs(c.bun) \cup {ArgvRef} : c.sp[r].length > 0}
RegionAt(c, r) == c.bun.payload_start + c.sp[r].offset
RegionEnd(c, r) == RegionAt(c, r) + c.sp[r].length
Within(c, e, r) == RegionAt(c, r) <= e.offset /\ EndOf(e) <= RegionEnd(c, r)

ModulesWithEdits ==
    {r.index : r \in {s \in ModuleRefs(ctx.bun) : \E e \in PlanEdits : Within(ctx, e, s)}}

-----------------------------------------------------------------------------

\* Every StringPointer of a patched module names exactly its old text with the
\* plan's edits made, neither a cell of its neighbour nor one cell short, and
\* empty ones stay empty: a module an edit does not touch keeps its bytecode
\* cache byte for byte (context.py:225-255).
RegionTexts ==
    Patched =>
        /\ Parses(buf)
        /\ LET out == Parse(buf)
           IN \A r \in ModuleRefs(ctx.bun) :
                \/ r.field = "bytecode" /\ r.index \in ModulesWithEdits
                \/ Text(buf, out, r) = Rewritten(r)

\* A module whose source text differs from the input's has the "no cache"
\* bytecode pointer, so Bun cannot run the bytecode of the old source
\* (context.py:204-223).
BytecodeFresh ==
    Patched => \A m \in EditedModules :
                    Parse(buf).sp[ModuleRef(m, "bytecode")] = NoPtr

\* The output is a well-formed payload with the same modules in the same
\* encodings, the same entry point and flags, and the argv text the plan asks
\* for; the bytes between the regions (the NULs Bun puts behind its strings)
\* are still in their places (context.py:257-288).
FramingIntact ==
    Patched =>
        /\ Parses(buf)
        /\ LET out == Parse(buf)
               payload(b, c) == Cells(b, c.bun.payload_start, c.bun.modules_ptr.offset)
           IN /\ DOMAIN out.bun.modules = DOMAIN ctx.bun.modules
              /\ \A m \in DOMAIN ctx.bun.modules :
                    out.bun.modules[m].encoding = ctx.bun.modules[m].encoding
              /\ out.bun.entry_point_id = ctx.bun.entry_point_id
              /\ out.bun.flags = ctx.bun.flags
              /\ Text(buf, out, ArgvRef) = Rewritten(ArgvRef)
              /\ payload(buf, out) =
                    FlattenSeq([n \in 1..ctx.bun.modules_ptr.offset |->
                                   CellAfter(ctx.bun.payload_start + n - 1)])

-----------------------------------------------------------------------------

Holds(seg, sec) ==
    /\ seg.p_offset <= sec.sh_offset
    /\ sec.sh_offset + sec.sh_size <= seg.p_offset + seg.p_filesz

\* In a patched ELF image every section but .bun still names the same cells,
\* .bun names the grown payload, and every segment's range in the file still
\* holds exactly the sections it held, with the same zero-filled tail.  Where
\* in memory a segment goes is not said here: virtual addresses and alignment
\* are neither read nor written by the code (context.py:290-336).
ElfIntact ==
    Patched /\ ctx.is_elf =>
        LET old == ctx.layout
            new == ElfParse(buf)
            bun == Min(ElfBunIndexes(old))
        IN /\ ElfReadable(buf)
           /\ Len(buf) = Len(image) + TotalDelta
           /\ DOMAIN new.sections = DOMAIN old.sections
           /\ DOMAIN new.segments = DOMAIN old.segments
           /\ \A n \in DOMAIN old.sections :
                LET was == old.sections[n]
                    is == new.sections[n]
                IN /\ is.name = was.name
                   /\ IF n = bun
                      THEN /\ is.sh_offset = was.sh_offset
                           /\ is.sh_size = was.sh_size + TotalDelta
                      ELSE Cells(buf, is.sh_offset, is.sh_size) =
                           Cells(image, was.sh_offset, was.sh_size)
           /\ \A g \in DOMAIN old.segments :
                /\ new.segments[g].p_memsz - new.segments[g].p_filesz =
                   old.segments[g].p_memsz - old.segments[g].p_filesz
                /\ \A n \in DOMAIN old.sections :
                     Holds(new.segments[g], new.sections[n])
                        <=> Holds(old.segments[g], old.sections[n])

\* Segments begin on page boundaries, in the file and in memory, and follow one
\* another without overlap up to the end of a file of len cells.
Mapped(mo, page, len) ==
    \A g \in mo.segments :
        /\ g.fileoff % page = 0 /\ g.vmaddr % page = 0
        /\ FileEnd(g) = len \/ \E h \in mo.segments : /\ h.fileoff = FileEnd(g)
                                                    /\ g.vmaddr + g.vmsize <= h.vmaddr

\* A patched Mach-O image is one dyld accepts: every segment stays on page
\* boundaries in the file and in memory with the same difference between the
\* two, segments follow one another without overlap up to the end of the
\* file, the padding behind a resized payload is zero, and every absolute file
\* offset in the load commands points at the cell it pointed at before
\* (context.py:338-432).
MachOLoadable ==
    Patched /\ ~ctx.is_elf =>
        LET old == ctx.layout
            new == MachOParse(buf)
            was(seg) == CHOOSE g \in old.segments : g.header = seg.header
            bun == SegmentByName(new, BUN_SEGNAME)
            payload_end == BunSect(new).offset + BunSect(new).size
        IN /\ MachOParses(buf)
           /\ {g.header : g \in new.segments} = {g.header : g \in old.segments}
           /\ Mapped(new, old.page_size, Len(buf))
           /\ \A g \in new.segments :
                /\ g.vmaddr - g.fileoff = was(g).vmaddr - was(g).fileoff
                /\ \A s \in DOMAIN g.sections :
                      LET is == g.sections[s]
                          before == was(g).sections[s]
                      IN /\ is.addr - g.vmaddr = before.addr - was(g).vmaddr
                         /\ is.offset = 0 <=> before.offset = 0
                         /\ g # bun /\ is.offset # 0 =>
                              Cells(buf, is.offset, is.size) =
                              Cells(image, before.offset, is.size)
           /\ payload_end <= FileEnd(bun)
           /\ GrowableEdits # {} =>
                \A o \in payload_end .. FileEnd(bun) - 1 : Cell(buf, o) = 0
           /\ \A f \in old.file_offset_fields :
                f.value # 0 =>
                    Cell(buf, Cell(buf, f.at)) = Cell(image, f.value)

-----------------------------------------------------------------------------

(* What the code takes for granted: an image as bun and a linker lay it    *)
(* out, and edits as the documentation describes them.                     *)

TableAt(c) == c.bun.payload_start + c.bun.modules_ptr.offset

\* The texts lie side by side in front of the modules table, and that in front
\* of the Offsets struct; the argv text may lie between the two as well.
WellFramed(c) ==
    /\ 0 <= c.bun.modules_ptr.offset /\ 0 <= c.bun.modules_ptr.length
    /\ TableAt(c) + c.bun.modules_ptr.length <= c.bun.offsets_struct_offset
    /\ \A r \in DOMAIN c.sp : c.sp[r].length >= 0
    /\ \A r \in Regions(c) :
          /\ c.bun.payload_start <= RegionAt(c, r)
          /\ \/ RegionEnd(c, r) <= TableAt(c)
             \/ /\ r = ArgvRef
                /\ TableAt(c) + c.bun.modules_ptr.length <= RegionAt(c, r)
                /\ RegionEnd(c, r) <= c.bun.offsets_struct_offset
    /\ \A r, s \in Regions(c) :
          r # s => RegionEnd(c, r) <= RegionAt(c, s) \/ RegionEnd(c, s) <= RegionAt(c, r)

\* n cells at a, and m cells at b, have none in common.
Beside(a, n, b, m) == a + n <= b \/ b + m <= a

\* Sections lie beside .bun and the tables, and every segment holds all of .bun
\* or nothing of it.
ElfPartsPlaced(b, c) ==
    /\ \A n \in DOMAIN c.layout.sections : n # Min(ElfBunIndexes(c.layout)) =>
          LET s == c.layout.sections[n]
              beside(at, len) == Beside(s.sh_offset, s.sh_size, at, len)
          IN /\ 0 <= s.sh_offset /\ 0 <= s.sh_size /\ s.sh_offset + s.sh_size <= Len(b)
             /\ beside(0, EHDR_SIZE) /\ beside(c.bun.bun_offset, c.bun.bun_size)
             /\ beside(Cell(b, 1), Cell(b, 2) * PHDR_SIZE)
             /\ beside(c.layout.e_shoff, Cell(b, 4) * SHDR_SIZE)
    /\ \A n \in DOMAIN c.layout.segments :
          LET g == c.layout.segments[n]
          IN /\ 0 <= g.p_filesz
             /\ \/ /\ g.p_offset <= c.bun.bun_offset
                   /\ c.bun.bun_offset + c.bun.bun_size <= g.p_offset + g.p_filesz
                \/ Beside(g.p_offset, g.p_filesz, c.bun.bun_offset, c.bun.bun_size)

\* The program table lies behind the file header and in front of .bun, the
\* section table on either side of .bun, and the two do not overlap.
ElfWellPlaced(b, c) ==
    LET program == Cell(b, 1)
        program_end == program + Cell(b, 2) * PHDR_SIZE
        section == c.layout.e_shoff
        section_end == section + Cell(b, 4) * SHDR_SIZE
    IN /\ Cell(b, 2) >= 0 /\ Cell(b, 4) >= 0
       /\ EHDR_SIZE <= program /\ program_end <= c.bun.bun_offset
       /\ EHDR_SIZE <= section
       /\ IF Behind(c.bun, section) THEN c.bun.bun_offset + c.bun.bun_size <= section
          ELSE section_end <= c.bun.bun_offset
       /\ program_end <= section \/ section_end <= program
       /\ ElfPartsPlaced(b, c)

\* There is one segment and one section of the name the code looks for.
OneBun(mo) ==
    /\ \A g, h \in mo.segments :
          g.segname = BUN_SEGNAME /\ h.segname = BUN_SEGNAME => g = h
    /\ \A g \in mo.segments : \A m, n \in DOMAIN g.sections :
          g.sections[m].sectname = BUN_SECTNAME /\ g.sections[n].sectname = BUN_SECTNAME
              => m = n

\* Segments lie beside the one of .bun, sections in their segments and behind the
\* load commands, and a command refers to neither .bun nor the commands.
MachOPartsPlaced(b, c) ==
    LET table_end == CommandOffsets(b)[Cell(b, 2)]
        bun == SegmentByName(c.layout, BUN_SEGNAME)
    IN /\ Mapped(c.layout, c.layout.page_size, Len(b))
       /\ \A g \in c.layout.segments :
            /\ 0 <= g.filesize /\ FileEnd(g) <= Len(b)
            /\ g # bun => Beside(g.fileoff, g.filesize, bun.fileoff, bun.filesize)
            /\ \A n \in DOMAIN g.sections : g.sections[n].offset # 0 =>
                  LET s == g.sections[n]
                  IN /\ table_end <= s.offset /\ g.fileoff <= s.offset
                     /\ 0 <= s.size /\ s.offset + s.size <= FileEnd(g)
       /\ \A f \in c.layout.file_offset_fields : f.value # 0 =>
            /\ table_end <= f.value /\ f.value < Len(b)
            /\ f.value < c.bun.bun_offset \/ FileEnd(bun) <= f.value

\* The load commands lie in front of the payload.
MachOWellPlaced(b, c) ==
    /\ c.layout.page_size > 0
    /\ CommandOffsets(b)[Cell(b, 2)] <= c.bun.bun_offset
    /\ OneBun(c.layout)
    /\ MachOPartsPlaced(b, c)

WellPlaced(b) ==
    LET c == Parse(b)
    IN WellFramed(c) /\ IF c.is_elf THEN ElfWellPlaced(b, c) ELSE MachOWellPlaced(b, c)

\* An edit replaces at least one cell, in one region.  The argv text is not
\* resized, unless it lies where validate refuses that.
Anchored(c, e) ==
    /\ Len(e.old) > 0
    /\ \E r \in Regions(c) :
          /\ Within(c, e, r)
          /\ r = ArgvRef /\ Growable(e) => IsFramingOffset(c, e.offset)

\* The images and plans the properties above are about.
Described ==
    \A b \in Images : Parses(b) =>
        /\ WellPlaced(b)
        /\ \A plan \in Plans(b) : \A k \in 1..Len(plan) : Anchored(Parse(b), plan[k])

-----------------------------------------------------------------------------

(* What the documentation says of every accepted plan.                     *)

\* "that region's length is bumped by delta during header rewrite"
\* (edits.py:7-8), for every region an edit may declare.
LengthsBumped ==
    Patched => \A r \in DOMAIN ctx.sp :
        Parse(buf).sp[r].length =
            ctx.sp[r].length
            + MapThenSumSet(Delta, {e \in GrowableEdits : e.region = r})
=============================================================================
