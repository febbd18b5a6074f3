---------------------------- MODULE SampleImages ----------------------------
(***************************************************************************)
(* Small input binaries and edit plans for model checking the applier.     *)
(* Every text cell of an image has a value of its own, so that a cell that *)
(* moved or was lost is noticed.                                           *)
(***************************************************************************)
EXTENDS PatchedImage

(***************************************************************************)
(* A payload is laid out as bun build does: the texts, the modules table,  *)
(* the texts behind the table, the Offsets struct, the trailer.  A chunk   *)
(* is [ref, text]; chunks of NoRef are bytes no StringPointer names.       *)
(***************************************************************************)
Chunk(ref, text) == [ref |-> ref, text |-> text]
Gap(text) == Chunk(NoRef, text)

TextOf(chunks) == FlattenSeq([k \in DOMAIN chunks |-> chunks[k].text])

PayloadOf(before, behind, encodings) ==
    LET table_at == Len(TextOf(before))
        table_len == Len(encodings) * MODULE_RECORD_SIZE
        ptr(ref, chunks, base) ==
            LET hits == {k \in DOMAIN chunks : chunks[k].ref = ref}
            IN IF hits = {} THEN <<>>
               ELSE LET k == CHOOSE h \in hits : TRUE
                    IN <<base + Len(TextOf(SubSeq(chunks, 1, k - 1))),
                         Len(chunks[k].text)>>
        either(ref) == LET p == ptr(ref, before, 0)
                           q == ptr(ref, behind, table_at + table_len)
                       IN IF p # <<>> THEN p ELSE IF q # <<>> THEN q ELSE <<0, 0>>
        record(m) == FlattenSeq([f \in 1..6 |->
                                    either(ModuleRef(m, MODULE_FIELD_NAMES[f]))])
                     \o <<encodings[m + 1]>>
        struct_at == table_at + table_len + Len(TextOf(behind))
    IN TextOf(before)
       \o FlattenSeq([m \in 1..Len(encodings) |-> record(m - 1)])
       \o TextOf(behind)
       \o <<struct_at, table_at, table_len, 7>> \o either(ArgvRef) \o <<9, TRAILER>>

\* Two modules; the first has a bytecode cache and a NUL behind its source,
\* the second starts right behind the first one's bytecode.
TwoModules == <<Chunk(ModuleRef(0, "name"), <<1>>),
                Chunk(ModuleRef(0, "contents"), <<2, 3, 4>>),
                Gap(<<0>>),
                Chunk(ModuleRef(0, "bytecode"), <<5>>),
                Chunk(ModuleRef(1, "contents"), <<6, 7>>),
                Chunk(ModuleRef(1, "bytecode"), <<8>>)>>
Argv == <<Chunk(ArgvRef, <<11, 12>>)>>
Encodings == <<ENCODING_LATIN1, ENCODING_UTF8>>

RealPayload == PayloadOf(TwoModules, Argv, Encodings)
ArgvFirstPayload == PayloadOf(Argv \o TwoModules, <<>>, Encodings)

-----------------------------------------------------------------------------
(* ELF: header, two program headers, .text, .bun, .data; the section table *)
(* last, as linkers put it, or in front of .bun.                           *)

ElfImage(payload, table_last) ==
    LET shdrs == 3 * SHDR_SIZE
        phdrs == 2 * PHDR_SIZE
        text_at == EHDR_SIZE + phdrs + IF table_last THEN 0 ELSE shdrs
        bun_at == text_at + 2
        bun_size == PREFIX_SIZE + Len(payload)
        data_at == bun_at + bun_size
        shoff == IF table_last THEN data_at + 2 ELSE EHDR_SIZE + phdrs
        table == <<511, text_at, 2, BUN_SECTION_NAME, bun_at, bun_size,
                   512, data_at, 2>>
    IN <<ELF_MAGIC, EHDR_SIZE, 2, shoff, 3>>
       \o <<0, data_at, data_at, data_at, 2, 5>>
       \o (IF table_last THEN <<>> ELSE table)
       \o <<301, 302>> \o <<Len(payload)>> \o payload \o <<303, 304>>
       \o (IF table_last THEN table ELSE <<>>)

ElfTableLast == ElfImage(RealPayload, TRUE)
ElfTableFirst == ElfImage(RealPayload, FALSE)
ElfArgvFirst == ElfImage(ArgvFirstPayload, TRUE)

-----------------------------------------------------------------------------
(* Mach-O: __TEXT, __BUN, a segment with sections, __LINKEDIT.  The page   *)
(* is four cells; pad says what follows the payload in its segment.        *)

PAGE == 4

Segment(segname, vmaddr, vmsize, fileoff, filesize, sections) ==
    LET n == Len(sections) \div SECTION_SIZE
    IN <<LC_SEGMENT_64, SEGMENT_COMMAND_SIZE + n * SECTION_SIZE, segname,
         vmaddr, vmsize, fileoff, filesize, n>> \o sections

MachOImage(payload, pad) ==
    LET text_size == RoundUp(MACH_HEADER_SIZE + 4 * SEGMENT_COMMAND_SIZE
                              + 3 * SECTION_SIZE + 4 + 3 + 2, PAGE)
        bun_size == PREFIX_SIZE + Len(payload)
        bun_seg == bun_size + Len(pad)
        data_at == text_size + bun_seg
        link_at == data_at + PAGE
        vm == 100
        cmds == Segment(611, vm, text_size, 0, text_size, <<>>)
                \o Segment(BUN_SEGNAME, vm + text_size, bun_seg, text_size, bun_seg,
                           <<BUN_SECTNAME, vm + text_size, bun_size, text_size>>)
                \o Segment(612, vm + data_at, PAGE, data_at, PAGE,
                           <<621, vm + data_at, 2, data_at,
                             622, vm + data_at + 2, 1, 0>>)
                \o Segment(613, vm + link_at, PAGE, link_at, PAGE, <<>>)
                \o <<LC_SYMTAB, 4, link_at, 0>>
                \o <<LC_CODE_SIGNATURE, 3, link_at + 2>>
                \o <<LC_MAIN, 2>>
        head == <<MACHO_MAGIC_64, PAGE, 7, Len(cmds)>> \o cmds
    IN head \o [k \in 1 .. text_size - Len(head) |-> 0]
       \o <<Len(payload)>> \o payload \o pad
       \o <<331, 332, 333, 334>> \o <<341, 342, 343, 344>>

\* Padding up to the page boundary, one whole page more of it, and a page that
\* is not zero.
ToPageEnd(payload) == RoundUp(PREFIX_SIZE + Len(payload), PAGE)
                        - (PREFIX_SIZE + Len(payload))
Fill(n, value) == [k \in 1..n |-> value]

MachOTight == MachOImage(RealPayload, Fill(ToPageEnd(RealPayload), 0))
MachORoomy == MachOImage(RealPayload, Fill(PAGE + ToPageEnd(RealPayload), 0))
MachODirty == MachOImage(RealPayload, Fill(PAGE + ToPageEnd(RealPayload), 9))

-----------------------------------------------------------------------------
(* Candidate edits: replace a range of old_len cells starting n cells into *)
(* region ref by new_len new cells, each edit with cells of its own.       *)

FreshText(tag, len) == [k \in 1..len |-> 40 + 10 * tag + k]

EditAt(b, ref, n, old_len, new, region) ==
    LET c == Parse(b)
        at == c.bun.payload_start + c.sp[ref].offset + n
    IN [offset |-> at, old |-> Cells(b, at, old_len), new |-> new, region |-> region]

TextRefs(b) == {r \in DOMAIN Parse(b).sp :
                    r # ModulesRef /\ r.field # "bytecode" /\ Parse(b).sp[r].length > 0}

\* Every edit of a non-empty range within one text region, declared with the
\* region it lies in: what DiscoveryContext.containing_string_pointer gives.
AnchoredEdits(b, refs, old_lens, new_lens, tag) ==
    UNION {UNION {{EditAt(b, r, n, o, FreshText(tag, w), r) : w \in new_lens}
                    : n \in 0 .. Parse(b).sp[r].length - o}
           : r \in refs, o \in old_lens}
=============================================================================
