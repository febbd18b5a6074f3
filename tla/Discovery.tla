------------------------------ MODULE Discovery ------------------------------
(***************************************************************************)
(* The anchor search DiscoveryContext offers to providers                  *)
(* (cc_patcher/context.py), and a provider's patch that uses it as the     *)
(* documentation describes: replace every occurrence of an anchor by a     *)
(* text, in the region it was found in.                                    *)
(***************************************************************************)
EXTENDS Edits, SequencesExt

\* find_in_payload: the search goes on one byte behind each hit, so every
\* occurrence in front of the Offsets struct is found, overlapping or not.
FindInPayload(b, bun, pat) ==
    {o \in bun.payload_start .. bun.offsets_struct_offset - Len(pat) :
        Cells(b, o, Len(pat)) = pat}

\* A patch with the fields [anchor, new] besides those RunPatcher reads.
ReplaceAnchors(patch, b, c) ==
    SetToSortSeq({[offset |-> at, old |-> patch.anchor, new |-> patch.new,
                   region |-> ContainingStringPointer(c, at)] :
                      at \in FindInPayload(b, c.bun, patch.anchor)},
                 LAMBDA e, f : e.offset < f.offset)
=============================================================================
