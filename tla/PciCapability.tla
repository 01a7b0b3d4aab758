---------------------------- MODULE PciCapability ----------------------------
(***************************************************************************)
(* The capability scan behind PCI_OP_GET_NEXT_CAPABILITY                    *)
(* (device_protocol.cc, GetNextCapability<T, L>).  A capability list is a   *)
(* sequence of [id, base] records in list order; bases need not increase,   *)
(* because capability pointers may point backwards in config space.  The    *)
(* request's 32-bit offset is narrowed to T (uint8_t for the standard list, *)
(* uint16_t for the extended one) before the scan compares it with a base.  *)
(***************************************************************************)
EXTENDS Integers, Sequences

\* ZX_ERR_NOT_FOUND; no capability starts at a negative offset.
NotFound == -1

\* static_cast<T>(req->cap.offset) for a T of the given width in bits.
NarrowOffset(offset, bits) == offset % (2 ^ bits)

\* The for loop of GetNextCapability without its break: every later match
\* overwrites resp->cap.offset.
RECURSIVE ScanPastMatch(_, _, _, _, _)
ScanPastMatch(list, i, foundPrev, id, scanOffset) ==
    IF i > Len(list) THEN NotFound
    ELSE IF foundPrev
         THEN LET later == ScanPastMatch(list, i + 1, TRUE, id, scanOffset)
              IN  IF later = NotFound /\ list[i].id = id THEN list[i].base ELSE later
         ELSE ScanPastMatch(list, i + 1, list[i].base = scanOffset, id, scanOffset)

\* The for loop from the i-th capability on: once the capability owning the
\* previous offset has been passed (found_prev), the first one of the
\* requested id answers; before that, only its base is compared.
RECURSIVE Scan(_, _, _, _, _)
Scan(list, i, foundPrev, id, scanOffset) ==
    IF i > Len(list) THEN NotFound
    ELSE IF foundPrev
         THEN IF list[i].id = id THEN list[i].base
              ELSE Scan(list, i + 1, TRUE, id, scanOffset)
         ELSE Scan(list, i + 1, list[i].base = scanOffset, id, scanOffset)

\* GetNextCapability<T, L>(req, resp, list): the base of the capability found
\* (resp->cap.offset with ZX_OK), or NotFound.  is_first starts the scan
\* with found_prev set, so the offset is then ignored.
GetNextCapability(req, list, bits) ==
    Scan(list, 1, req.is_first, req.id, NarrowOffset(req.offset, bits))

\* RpcGetNextCapability: the extended capability list is scanned with
\* T = uint16_t, the standard one with T = uint8_t.
OffsetBits(is_extended) == IF is_extended THEN 16 ELSE 8

=============================================================================
