---------------------------- MODULE MachOLayout ----------------------------
(***************************************************************************)
(* The 64-bit Mach-O container: walking the load commands                  *)
(* (cc_patcher/macho.py) and absorbing a grown payload into the padding    *)
(* behind it (EditApplier._rewrite_macho_headers in cc_patcher/context.py).*)
(*                                                                         *)
(* Cells of the header: magic (which stands for the filetype too), page    *)
(* size (the code derives it from cputype), ncmds, sizeofcmds.  A load     *)
(* command starts with cmd and cmdsize; a segment goes on with segname,    *)
(* vmaddr, vmsize, fileoff, filesize, nsects and, per section, sectname,   *)
(* addr, size, offset.                                                     *)
(***************************************************************************)
EXTENDS BunImage

MACHO_MAGIC_64 == 1002
BUN_SEGNAME == 601
BUN_SECTNAME == 602

MACH_HEADER_SIZE == 4
COMMAND_SIZE == 2
SEGMENT_COMMAND_SIZE == 8
SECTION_SIZE == 4

LC_SEGMENT_64 == 701
LC_SYMTAB == 702
LC_CODE_SIGNATURE == 703
LC_MAIN == 704

\* _FILE_OFFSET_FIELDS: where a command holds absolute file offsets, for the
\* shapes it can have: none, one or two of them.  LC_MAIN stands for
\* _NO_FILE_OFFSET_CMDS; every other command is refused.
FileOffsetFields(cmd) ==
    CASE cmd = LC_SYMTAB -> {2, 3}
      [] cmd = LC_CODE_SIGNATURE -> {2}
      [] OTHER -> {}
KnownCommands == {LC_SEGMENT_64, LC_SYMTAB, LC_CODE_SIGNATURE, LC_MAIN}

\* File offset of load command n (counted from 0), and of the end of the
\* table for n = ncmds.
CommandOffsets(buf) ==
    LET at[n \in 0 .. Cell(buf, 2)] ==
            IF n = 0 THEN MACH_HEADER_SIZE
            ELSE at[n - 1] + Cell(buf, at[n - 1] + 1)
    IN at

SegmentAt(buf, at) ==
    [segname |-> Cell(buf, at + 2),
     vmaddr |-> Cell(buf, at + 3), vmsize |-> Cell(buf, at + 4),
     fileoff |-> Cell(buf, at + 5), filesize |-> Cell(buf, at + 6),
     header |-> at,
     sections |->
        [s \in 0 .. Cell(buf, at + 7) - 1 |->
            LET so == at + SEGMENT_COMMAND_SIZE + s * SECTION_SIZE
            IN [sectname |-> Cell(buf, so), addr |-> Cell(buf, so + 1),
                size |-> Cell(buf, so + 2), offset |-> Cell(buf, so + 3),
                header |-> so]]]

\* Mutant: nsects is believed.
SectionsBelieved(buf, at) ==
    /\ Cell(buf, at + 1) >= SEGMENT_COMMAND_SIZE
    /\ Readable(buf, at, SEGMENT_COMMAND_SIZE + Cell(buf, at + 7) * SECTION_SIZE)

\* The segment at at has room for the sections it declares.
SectionsFit(buf, at) ==
    /\ Cell(buf, at + 1) >= SEGMENT_COMMAND_SIZE
    /\ Readable(buf, at, SEGMENT_COMMAND_SIZE)
    /\ SEGMENT_COMMAND_SIZE + Cell(buf, at + 7) * SECTION_SIZE <= Cell(buf, at + 1)
    /\ Readable(buf, at, SEGMENT_COMMAND_SIZE + Cell(buf, at + 7) * SECTION_SIZE)

\* The load command at at lies within sizeofcmds, is one the code knows, and
\* is long enough for what the code reads in it.
CommandAccepted(buf, at) ==
    LET end_of_cmds == MACH_HEADER_SIZE + Cell(buf, 3)
        cmd == Cell(buf, at)
        cmdsize == Cell(buf, at + 1)
    IN /\ at + COMMAND_SIZE <= end_of_cmds
       /\ Readable(buf, at, COMMAND_SIZE)
       /\ cmdsize >= COMMAND_SIZE
       /\ at + cmdsize <= end_of_cmds
       /\ cmd \in KnownCommands
       /\ cmd = LC_SEGMENT_64 => SectionsFit(buf, at)
       /\ \A rel \in FileOffsetFields(cmd) : rel < cmdsize /\ Readable(buf, at + rel, 1)

\* macho.parse accepts the load-command table, one command after the other.
MachOAccepted(buf) ==
    /\ Readable(buf, 0, MACH_HEADER_SIZE)
    /\ LET at == CommandOffsets(buf)
       IN \A n \in 0 .. Cell(buf, 2) - 1 : CommandAccepted(buf, at[n])

\* macho.parse: the segments by their file order, and the set of positions
\* that hold a file offset.
MachOParse(buf) ==
    LET at == CommandOffsets(buf)
        cmds == 0 .. Cell(buf, 2) - 1
    IN [page_size |-> Cell(buf, 1),
        segments |-> {SegmentAt(buf, at[n]) :
                        n \in {k \in cmds : Cell(buf, at[k]) = LC_SEGMENT_64}},
        file_offset_fields |->
            UNION {{[at |-> at[n] + rel, value |-> Cell(buf, at[n] + rel)] :
                        rel \in FileOffsetFields(Cell(buf, at[n]))} : n \in cmds}]

FileEnd(seg) == seg.fileoff + seg.filesize

\* The code takes the first of the name; an image has one (OneBun).
SegmentByName(mo, name) == CHOOSE seg \in mo.segments : seg.segname = name

BunSect(mo) ==
    LET seg == SegmentByName(mo, BUN_SEGNAME)
    IN seg.sections[CHOOSE n \in DOMAIN seg.sections :
                        seg.sections[n].sectname = BUN_SECTNAME]

\* segment_by_name and _bun_sect find what they look for.
HasBun(mo) ==
    \E seg \in mo.segments :
        /\ seg.segname = BUN_SEGNAME
        /\ \E n \in DOMAIN seg.sections : seg.sections[n].sectname = BUN_SECTNAME

MachOParses(buf) == MachOAccepted(buf) /\ HasBun(MachOParse(buf))

MachOBunSection(mo) == [offset |-> BunSect(mo).offset, size |-> BunSect(mo).size]

-----------------------------------------------------------------------------

RoundUp(value, multiple) == ((value + multiple - 1) \div multiple) * multiple

PayloadRegionEnd(bun) == bun.bun_offset + bun.bun_size

Pad(mo, bun) == FileEnd(SegmentByName(mo, BUN_SEGNAME)) - PayloadRegionEnd(bun)

\* Mutant: the segment grows by the missing cells, not by whole pages.
GrowExact(mo, bun, total_delta) ==
    IF total_delta <= Pad(mo, bun) THEN 0 ELSE total_delta - Pad(mo, bun)

Grow(mo, bun, total_delta) ==
    IF total_delta <= Pad(mo, bun) THEN 0
    ELSE RoundUp(total_delta - Pad(mo, bun), mo.page_size)

\* None of the three RuntimeErrors: the section overruns its segment, the file
\* ends inside the padding, the padding is not zero.  buf is already spliced.
PaddingAccepted(buf, mo, bun, total_delta) ==
    /\ Pad(mo, bun) >= 0
    /\ Readable(buf, PayloadRegionEnd(bun) + total_delta, Pad(mo, bun))
    /\ \A n \in 0 .. Pad(mo, bun) - 1 :
           Cell(buf, PayloadRegionEnd(bun) + total_delta + n) = 0

\* The padding after the spliced payload, replaced by what must remain of it.
Repad(buf, mo, bun, total_delta) ==
    LET pad_start == PayloadRegionEnd(bun) + total_delta
        pad == Pad(mo, bun)
        new_pad == pad + Grow(mo, bun, total_delta) - total_delta
    IN SubSeq(buf, 1, pad_start) \o [n \in 1 .. new_pad |-> 0]
           \o SubSeq(buf, pad_start + pad + 1, Len(buf))

(***************************************************************************)
(* The <<offset, value>> pairs _rewrite_macho_headers packs: the size of   *)
(* __bun always; when __BUN grows, its own extents and every extent and    *)
(* file offset behind it.                                                  *)
(***************************************************************************)
MachOHeaderWrites(mo, bun, total_delta) ==
    LET seg == SegmentByName(mo, BUN_SEGNAME)
        grow == Grow(mo, bun, total_delta)
        later == {g \in mo.segments \ {seg} : g.fileoff >= FileEnd(seg)}
        sects == UNION {{g.sections[n] : n \in DOMAIN g.sections} : g \in later}
        fields == {f \in mo.file_offset_fields :
                        f.value # 0 /\ f.value >= FileEnd(seg)}
    IN  {<<BunSect(mo).header + 2, bun.bun_size + total_delta>>}
        \cup IF grow = 0 THEN {} ELSE
             {<<seg.header + 6, seg.filesize + grow>>,
              <<seg.header + 4, seg.vmsize + grow>>}
             \cup {<<g.header + 5, g.fileoff + grow>> : g \in later}
             \cup {<<g.header + 3, g.vmaddr + grow>> : g \in later}
             \cup {<<s.header + 1, s.addr + grow>> : s \in sects}
             \cup {<<s.header + 3, s.offset + grow>> :
                        s \in {t \in sects : t.offset # 0}}
             \cup {<<f.at, f.value + grow>> : f \in fields}
=============================================================================
