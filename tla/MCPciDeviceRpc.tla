--------------------------- MODULE MCPciDeviceRpc ---------------------------
(***************************************************************************)
(* A device with four BARs: BAR 0 holds the MSI-X table, BAR 1 is MMIO,    *)
(* BAR 2 is IO with a resource, BAR 3 is the upper half of a 64-bit BAR     *)
(* (size 0); GET_BAR may also name BAR 4, one past bar_count_.  Config      *)
(* offsets fall inside the header, in the device area and past the         *)
(* extended space; widths are a valid and an invalid one.  The capability  *)
(* list holds an MSI and a PCIe capability.                                 *)
(***************************************************************************)
EXTENDS PciDeviceRpc

MCBars == [id \in 0..3 |->
             CASE id = 0 -> [size |-> 1, is_mmio |-> TRUE, has_resource |-> FALSE]
               [] id = 1 -> [size |-> 1, is_mmio |-> TRUE, has_resource |-> FALSE]
               [] id = 2 -> [size |-> 1, is_mmio |-> FALSE, has_resource |-> TRUE]
               [] id = 3 -> [size |-> 0, is_mmio |-> TRUE, has_resource |-> FALSE]]

MCCapList == <<[id |-> "msi", base |-> 64], [id |-> "pcie", base |-> 80]>>

MCCapRequests == {[id |-> "msi", is_first |-> TRUE, offset |-> 0],
                  [id |-> "pcie", is_first |-> FALSE, offset |-> 64]}

=============================================================================
