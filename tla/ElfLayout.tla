----------------------------- MODULE ElfLayout -----------------------------
(***************************************************************************)
(* The ELF64 container: parsing the header, section and program tables     *)
(* (cc_patcher/elf.py) and rewriting them after the payload has grown      *)
(* (EditApplier._rewrite_elf_headers in cc_patcher/context.py).            *)
(*                                                                         *)
(* Cells of the header: magic, e_phoff, e_phnum, e_shoff, e_shnum; of a    *)
(* program header: p_offset, p_filesz, p_memsz; of a section header: name, *)
(* sh_offset, sh_size.  A section name is one value, so .shstrtab is a     *)
(* section like any other.                                                 *)
(***************************************************************************)
EXTENDS BunImage

ELF_MAGIC == 1001
BUN_SECTION_NAME == 501

EHDR_SIZE == 5
PHDR_SIZE == 3
SHDR_SIZE == 3
EHDR_SHOFF_OFFSET == 3

\* elf.parse
ElfParse(buf) ==
    LET e_phoff == Cell(buf, 1)
        e_shoff == Cell(buf, 3)
    IN [e_shoff |-> e_shoff,
        segments |->
            [n \in 0 .. Cell(buf, 2) - 1 |->
                LET at == e_phoff + n * PHDR_SIZE
                IN [p_offset |-> Cell(buf, at), p_filesz |-> Cell(buf, at + 1),
                    p_memsz |-> Cell(buf, at + 2), header |-> at]],
        sections |->
            [n \in 0 .. Cell(buf, 4) - 1 |->
                LET at == e_shoff + n * SHDR_SIZE
                IN [name |-> Cell(buf, at), sh_offset |-> Cell(buf, at + 1),
                    sh_size |-> Cell(buf, at + 2), header |-> at]]]

\* Both tables lie in the buffer: elf.parse unpacks them without an error.
ElfReadable(buf) ==
    /\ Readable(buf, 0, EHDR_SIZE)
    /\ Readable(buf, Cell(buf, 1), Cell(buf, 2) * PHDR_SIZE)
    /\ Readable(buf, Cell(buf, 3), Cell(buf, 4) * SHDR_SIZE)

\* elf.section_by_name(".bun"): the index of the first section of that name.
ElfBunIndexes(elf) ==
    {n \in DOMAIN elf.sections : elf.sections[n].name = BUN_SECTION_NAME}

ElfBunSection(elf) ==
    LET s == elf.sections[Min(ElfBunIndexes(elf))]
    IN [offset |-> s.sh_offset, size |-> s.sh_size]

Behind(bun, at) == at > bun.bun_offset

\* Mutant: the section table is taken to stay where it was.
ShdrTableStays(elf, bun, total_delta) == 0

\* shdr_table_shift: how far the section header table itself has moved.
ShdrTableShift(elf, bun, total_delta) ==
    IF Behind(bun, elf.e_shoff) THEN total_delta ELSE 0

(***************************************************************************)
(* _rewrite_elf_headers as the set of <<offset, value>> pairs it packs     *)
(* into the spliced buffer.  The section table has moved with the bytes    *)
(* behind .bun if it lies there; the code takes the program table to lie   *)
(* before .bun.                                                            *)
(***************************************************************************)
ElfHeaderWrites(elf, bun, total_delta) ==
    LET shift == ShdrTableShift(elf, bun, total_delta)
        sections == {elf.sections[n] : n \in DOMAIN elf.sections}
        segments == {elf.segments[n] : n \in DOMAIN elf.segments}
        bun_header == elf.sections[Min(ElfBunIndexes(elf))].header + shift
        holding == {g \in segments : /\ g.p_offset <= bun.bun_offset
                                     /\ bun.bun_offset < g.p_offset + g.p_filesz}
    IN  {<<bun_header + 2, bun.bun_size + total_delta>>}
        \cup {<<s.header + shift + 1, s.sh_offset + total_delta>> :
                s \in {t \in sections : Behind(bun, t.sh_offset)}}
        \cup {<<g.header + 1, g.p_filesz + total_delta>> : g \in holding}
        \cup {<<g.header + 2, g.p_memsz + total_delta>> : g \in holding}
        \cup {<<g.header, g.p_offset + total_delta>> :
                g \in {h \in segments : Behind(bun, h.p_offset)}}
        \cup IF Behind(bun, elf.e_shoff)
             THEN {<<EHDR_SHOFF_OFFSET, elf.e_shoff + total_delta>>} ELSE {}
=============================================================================
