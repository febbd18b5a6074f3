-------------------------------- MODULE Edits --------------------------------
(***************************************************************************)
(* Edits and the questions EditPlan.validate asks about them               *)
(* (cc_patcher/edits.py and the region tests of DiscoveryContext in        *)
(* cc_patcher/context.py).                                                 *)
(*                                                                         *)
(* An edit is [offset, old, new, region]: replace the cells old at the     *)
(* file offset by the cells new; region is its grows_region.  A context c  *)
(* is [bun, sp]: the framing and the StringPointer index of the image the  *)
(* edit was discovered in.                                                 *)
(***************************************************************************)
EXTENDS BunImage

\* Cells of this value and above are not ASCII.
FIRST_NON_ASCII == 128

Edit == [offset : Nat, old : Seq(Int), new : Seq(Int),
         region : [kind : STRING, index : Int, field : STRING]]

Delta(e) == Len(e.new) - Len(e.old)
EndOf(e) == e.offset + Len(e.old)
Growable(e) == Delta(e) # 0

\* Mutant: only coincident edits conflict.
ConflictCoincidentOnly(prev, curr) == prev.offset = curr.offset

\* The two PatchConflictErrors of validate, for neighbours in offset order.
Conflict(prev, curr) ==
    \/ prev.offset = curr.offset
    \/ EndOf(prev) > curr.offset

-----------------------------------------------------------------------------

Covers(sp, rel) == sp.length > 0 /\ sp.offset <= rel /\ rel < sp.offset + sp.length

\* Iteration order of _build_sp_index over the module references.
Precedes(r, s) ==
    \/ r.index < s.index
    \/ r.index = s.index /\ FieldIndex(r.field) <= FieldIndex(s.field)

ContainingStringPointer(c, at) ==
    LET rel == at - c.bun.payload_start
        hits == {r \in ModuleRefs(c.bun) : Covers(c.sp[r], rel)}
    IN IF hits # {} THEN CHOOSE r \in hits : \A s \in hits : Precedes(r, s)
       ELSE IF Covers(c.sp[ArgvRef], rel) THEN ArgvRef
       ELSE NoRef

EditWithinRegion(c, e) ==
    /\ e.region \in DOMAIN c.sp
    /\ c.sp[e.region].length # 0
    /\ LET sp == c.sp[e.region]
           rel == e.offset - c.bun.payload_start
       IN sp.offset <= rel /\ rel + Len(e.old) <= sp.offset + sp.length

IsLatin1Region(c, ref) ==
    /\ ref.kind = "module"
    /\ ref.index \in DOMAIN c.bun.modules
    /\ c.bun.modules[ref.index].encoding = ENCODING_LATIN1

IsFramingOffset(c, at) == at >= c.bun.payload_start + c.bun.modules_ptr.offset

\* The part of new that validate takes for the inserted bytes: its tail
\* beyond the length of old.
InsertedTail(e) ==
    IF Len(e.new) > Len(e.old) THEN SubSeq(e.new, Len(e.old) + 1, Len(e.new))
    ELSE <<>>

HasNonAscii(cells) == \E n \in DOMAIN cells : cells[n] >= FIRST_NON_ASCII

\* No RegionError is raised for this edit.
RegionAccepted(c, e) ==
    /\ ~IsFramingOffset(c, e.offset)
    /\ Growable(e) =>
          /\ e.region # NoRef
          /\ EditWithinRegion(c, e)
          /\ IsLatin1Region(c, e.region) => ~HasNonAscii(InsertedTail(e))
=============================================================================
