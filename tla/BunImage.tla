------------------------------ MODULE BunImage ------------------------------
(***************************************************************************)
(* The binary image as a sequence of cells, and the Bun standalone-payload *)
(* framing read from it (cc_patcher/bun.py).                               *)
(*                                                                         *)
(* A cell is one byte of text or one whole integer field, so that a u64    *)
(* prefix, a u32 and a byte are all one cell wide: the sizes below are the *)
(* struct sizes of bun.py counted in fields instead of bytes.  File        *)
(* offsets start at 0, as in the code; cell o of the image is image[o+1].  *)
(***************************************************************************)
EXTENDS Integers, Sequences, FiniteSetsExt

PREFIX_SIZE == 1                   \* the u64 payload_len before the payload
MODULE_RECORD_SIZE == 13           \* six StringPointers and the encoding
OFFSETS_STRUCT_SIZE == 7           \* byte_count .. flags
TRAILER_SIZE == 1

TRAILER == -1                      \* the trailer magic
ENCODING_LATIN1 == 1
ENCODING_UTF8 == 2

MODULE_FIELD_NAMES == <<"name", "contents", "sourcemap", "bytecode",
                        "module_info", "bytecode_origin_path">>
FieldNames == {MODULE_FIELD_NAMES[n] : n \in 1..6}

\* Position of a field in the module record, as tuple.index gives it.
FieldIndex(field) == (CHOOSE n \in 1..6 : MODULE_FIELD_NAMES[n] = field) - 1

-----------------------------------------------------------------------------
(* Reading and overwriting cells (struct.unpack_from, struct.pack_into).   *)

Readable(buf, at, n) == at >= 0 /\ at + n <= Len(buf)

Cell(buf, at) == buf[at + 1]

Cells(buf, at, n) == SubSeq(buf, at + 1, at + n)

\* Overwrite the cells a set of <<offset, value>> pairs names; the length of
\* the buffer never changes.
PackInto(buf, writes) ==
    [n \in DOMAIN buf |->
        IF \E w \in writes : w[1] = n - 1
        THEN (CHOOSE w \in writes : w[1] = n - 1)[2]
        ELSE buf[n]]

-----------------------------------------------------------------------------
(* StringPointerRef: which StringPointer of the image is meant.            *)

ModuleRef(m, field) == [kind |-> "module", index |-> m, field |-> field]
ModulesRef == [kind |-> "offsets", index |-> 0, field |-> "modules"]
ArgvRef == [kind |-> "offsets", index |-> 0, field |-> "compile_exec_argv"]
NoRef == [kind |-> "none", index |-> 0, field |-> "none"]

StringPtrAt(buf, at) ==
    [offset |-> Cell(buf, at), length |-> Cell(buf, at + 1)]

ModuleRecordAt(buf, base) ==
    [base |-> base,
     encoding |-> Cell(buf, base + 12),
     fields |-> [f \in FieldNames |->
                    StringPtrAt(buf, base + 2 * FieldIndex(f))]]

(***************************************************************************)
(* bun.locate: the framing of the payload section sect = [offset, size].   *)
(* Located says that every check of locate passes and every field it       *)
(* unpacks lies in the buffer; Locate is what it then returns.             *)
(***************************************************************************)
OffsetsStructAt(buf, sect) ==
    sect.offset + PREFIX_SIZE + Cell(buf, sect.offset)
        - TRAILER_SIZE - OFFSETS_STRUCT_SIZE

Located(buf, sect) ==
    /\ Readable(buf, sect.offset, PREFIX_SIZE)
    /\ Cell(buf, sect.offset) = sect.size - PREFIX_SIZE
    /\ LET at == OffsetsStructAt(buf, sect)
       IN /\ Readable(buf, at, OFFSETS_STRUCT_SIZE + TRAILER_SIZE)
          /\ Cell(buf, at + OFFSETS_STRUCT_SIZE) = TRAILER
          /\ Cell(buf, at) = at - (sect.offset + PREFIX_SIZE)
          /\ Cell(buf, at + 2) % MODULE_RECORD_SIZE = 0
          /\ Readable(buf, sect.offset + PREFIX_SIZE + Cell(buf, at + 1),
                      Cell(buf, at + 2))

Locate(buf, sect) ==
    LET at == OffsetsStructAt(buf, sect)
        start == sect.offset + PREFIX_SIZE
        modules_ptr == StringPtrAt(buf, at + 1)
    IN [bun_offset |-> sect.offset,
        bun_size |-> sect.size,
        payload_start |-> start,
        payload_len |-> Cell(buf, sect.offset),
        offsets_struct_offset |-> at,
        byte_count |-> Cell(buf, at),
        modules_ptr |-> modules_ptr,
        entry_point_id |-> Cell(buf, at + 3),
        compile_exec_argv_ptr |-> StringPtrAt(buf, at + 4),
        flags |-> Cell(buf, at + 6),
        modules |->
            [m \in 0 .. (modules_ptr.length \div MODULE_RECORD_SIZE) - 1 |->
                ModuleRecordAt(buf, start + modules_ptr.offset
                                    + m * MODULE_RECORD_SIZE)]]

ModuleRefs(bun) == {ModuleRef(m, f) : m \in DOMAIN bun.modules, f \in FieldNames}

\* context._build_sp_index: every StringPointer of the image by its reference.
SpIndex(bun) ==
    [ref \in ModuleRefs(bun) \cup {ModulesRef, ArgvRef} |->
        CASE ref = ModulesRef -> bun.modules_ptr
          [] ref = ArgvRef -> bun.compile_exec_argv_ptr
          [] OTHER -> bun.modules[ref.index].fields[ref.field]]
=============================================================================
