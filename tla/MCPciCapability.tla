--------------------------- MODULE MCPciCapability ---------------------------
(***************************************************************************)
(* GetNextCapability over every capability list of up to MaxCaps entries   *)
(* with distinct bases, standard (bases within uint8_t) or extended (bases *)
(* past 0xFF, within uint16_t), and every request of two ids, is_first or  *)
(* not, with an offset of that list's range.  Each initial state is one    *)
(* call of RpcGetNextCapability; the state does not change.                *)
(***************************************************************************)
EXTENDS PciCapability, SequencesExt

CONSTANTS Ids, StdBases, ExtBases, StdOffsets, ExtOffsets, MaxCaps

VARIABLES
    list,   \* capabilities().list or capabilities().ext_list
    req     \* request_.cap of the call

vars == <<list, req>>

ListsOf(bases) ==
    UNION { {s \in [1..n -> [id : Ids, base : bases]] :
                \A j, k \in 1..n : j # k => s[j].base # s[k].base}
            : n \in 0..MaxCaps }

Init ==
    /\ \E ext \in BOOLEAN :
          /\ list \in ListsOf(IF ext THEN ExtBases ELSE StdBases)
          /\ req \in [id : Ids, is_first : BOOLEAN, is_extended : {ext},
                      offset : IF ext THEN ExtOffsets ELSE StdOffsets]

Found == GetNextCapability(req, list, OffsetBits(req.is_extended))

Next == UNCHANGED vars

Spec == Init /\ [][Next]_vars

\* The position of the capability owning r's offset; past the end when none
\* does, before the start for is_first.
AfterOwner(r) ==
    LET owner == {k \in 1..Len(list) : list[k].base = r.offset}
    IN  IF r.is_first THEN 0
        ELSE IF owner = {} THEN Len(list) ELSE Min(owner)

\* The bases of the capabilities of r's id after the one owning r's offset,
\* in list order.
BasesAfter(r) ==
    LET rest == SelectSeq(SubSeq(list, AfterOwner(r) + 1, Len(list)),
                          LAMBDA c : c.id = r.id)
    IN  [k \in 1..Len(rest) |-> rest[k].base]

\* What the comment above the loop promises: the first capability of the
\* requested id after the one owning the previous offset, searching from the
\* start of the list when is_first; no capability owns an offset at which
\* none starts, and then nothing is found.
NextCapabilityReference ==
    IF BasesAfter(req) = <<>> THEN NotFound ELSE Head(BasesAfter(req))

(* The scan of GetNextCapability returns what the comment above its loop   *)
(* describes, for every list and request: the capability after the one     *)
(* owning the given offset, never an earlier or a later match.              *)
ScanMatchesReference == Found = NextCapabilityReference

=============================================================================
