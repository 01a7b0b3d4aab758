----------------------------- MODULE PciDeviceRpc -----------------------------
(***************************************************************************)
(* The RPC server of a PCI device (device_protocol.cc): DdkRxrpc reads one  *)
(* request from the proxy's channel into request_, checks disabled_ under   *)
(* dev_lock_, releases the lock, and dispatches on request_.op to an Rpc*   *)
(* handler that ends in exactly one RpcReply.  RpcGetBar and               *)
(* RpcMapInterrupt take dev_lock_ again themselves.                         *)
(*                                                                          *)
(* Actors: the device host thread that calls DdkRxrpc (one request at a     *)
(* time, as the comment at line 32 says), the driver's proxy, which may    *)
(* have several calls outstanding on the channel, and the PCI bus, which    *)
(* disables the device under dev_lock_ (Device::Disable is not in this     *)
(* repository; only its lock and flag are modelled).  EnableBusMaster,      *)
(* QueryIrqMode, SetIrqMode, CreateVmObject, resource().duplicate,          *)
(* get_view and zx_msi_create are outside this file: each returns OK or an  *)
(* error nondeterministically.                                              *)
(***************************************************************************)
EXTENDS Integers, Sequences, SequencesExt, PciCapability

CONSTANTS
    CfgOffsets,   \* request_.cfg.offset values the proxy sends
    CfgWidths,    \* request_.cfg.width values the proxy sends
    BarCount,     \* bar_count_
    Bars,         \* bars_: id -> [size, is_mmio, has_resource]
    MsixBars,     \* caps_.msix->table_bar() and pba_bar(), {} without MSI-X
    CapList,      \* capabilities().list
    CapRequests,  \* request_.cap values the proxy sends
    MaxCalls      \* calls the proxy makes in a behaviour

\* Ops of PciRpcMsg are the strings of their PCI_OP_ names; "BAD_OP" stands
\* for any op outside the switch.  Statuses are the strings of the ZX_ names,
\* and "ERROR" is whatever error a callee outside this file returns.
\* Handles are "none", "vmo", "resource", "msi", and "garbage" for an
\* uninitialized zx_handle_t.  irqs_.mode holds a PCI_IRQ_MODE_ name.
IrqModes == {"DISABLED", "LEGACY", "MSI", "MSI_X"}

CalleeResults == {"OK", "ERROR"}

PCI_CONFIG_HDR_SIZE == 64

PCI_EXT_CONFIG_SIZE == 4096

NoArg == "none"

Args(op) ==
    CASE op \in {"CONFIG_READ", "CONFIG_WRITE"} -> [offset : CfgOffsets, width : CfgWidths]
      [] op = "GET_BAR"             -> 0..BarCount
      [] op = "GET_NEXT_CAPABILITY" -> CapRequests
      [] op = "SET_IRQ_MODE"        -> IrqModes
      [] op = "ENABLE_BUS_MASTER"   -> BOOLEAN
      [] OTHER                  -> {NoArg}

Ops == {"CONFIG_READ", "CONFIG_WRITE", "ENABLE_BUS_MASTER", "GET_AUXDATA",
        "GET_BAR", "GET_BTI", "GET_DEVICE_INFO", "GET_NEXT_CAPABILITY",
        "MAP_INTERRUPT", "QUERY_IRQ_MODE", "RESET_DEVICE", "SET_IRQ_MODE", "BAD_OP"}

VARIABLES
    channel,    \* requests written by the proxy, not yet read
    closed,     \* the channel was dropped after DdkRxrpc returned an error
    txid,       \* calls made so far (the next txid)
    rpcPc,      \* "Receive": in DdkRxrpc before the switch; "Dispatch": after
    request,    \* request_
    devLock,    \* holder of dev_lock_: "free" or "rpc"
    disabled,   \* disabled_
    irqMode,    \* irqs_.mode
    cfgWrites,  \* config-space writes: [offset, width, whileDisabled]
    replies     \* RpcReply calls: [txid, op, arg, status, handle]

vars == <<channel, closed, txid, rpcPc, request, devLock, disabled, irqMode,
          cfgWrites, replies>>

Init == /\ channel = <<>>
        /\ closed = FALSE
        /\ txid = 0
        /\ rpcPc = "Receive"
        /\ request = [op |-> "BAD_OP", txid |-> 0, arg |-> NoArg, sized |-> TRUE]
        /\ devLock = "free"
        /\ disabled = FALSE
        /\ irqMode = "DISABLED"
        /\ cfgWrites = {}
        /\ replies = <<>>

-----------------------------------------------------------------------------
(* The proxy and the bus.                                                  *)

\* The proxy writes a request; sized is whether it is sizeof(PciRpcMsg).
Call(op, arg, sized) ==
    /\ ~closed /\ txid < MaxCalls
    /\ channel' = Append(channel, [op |-> op, txid |-> txid, arg |-> arg, sized |-> sized])
    /\ txid' = txid + 1
    /\ UNCHANGED <<closed, rpcPc, request, devLock, disabled, irqMode, cfgWrites, replies>>

\* The bus disables the device, under dev_lock_.
Disable ==
    /\ devLock = "free" /\ ~disabled
    /\ disabled' = TRUE
    /\ UNCHANGED <<channel, closed, txid, rpcPc, request, devLock, irqMode, cfgWrites, replies>>

-----------------------------------------------------------------------------
(* The device host thread.                                                 *)

\* RpcReply (lines 103-109): the response carries the op and txid of
\* request_; DdkRxrpc then returns, and dev_lock_ is not held any more.
ReplyTo(req, status, handle) ==
    /\ replies' = Append(replies, [txid |-> req.txid, op |-> req.op, arg |-> req.arg,
                                   status |-> status, handle |-> handle])
    /\ rpcPc' = "Receive"
    /\ devLock' = "free"

Reply(status, handle) == ReplyTo(request, status, handle)

AdmitRequest == /\ rpcPc' = "Dispatch" /\ devLock' = "free"

\* DdkRxrpc up to the switch: read a request into request_ (a read error or
\* a message of the wrong size returns ZX_ERR_INTERNAL, after which the
\* channel is dropped), then check disabled_ under dev_lock_.
DdkRxrpc ==
    /\ rpcPc = "Receive" /\ ~closed /\ channel # <<>>
    /\ devLock = "free"
    /\ LET msg == Head(channel) IN
       /\ channel' = Tail(channel)
       /\ request' = msg
       /\ \/ ~msg.sized /\ closed' = TRUE /\ UNCHANGED <<rpcPc, devLock, replies>>
          \/ msg.sized /\ disabled /\ ReplyTo(msg, "BAD_STATE", "none") /\ UNCHANGED closed
          \/ msg.sized /\ ~disabled /\ AdmitRequest /\ UNCHANGED <<closed, replies>>
    /\ UNCHANGED <<txid, disabled, irqMode, cfgWrites>>

Dispatching(ops) == rpcPc = "Dispatch" /\ request.op \in ops

HandlerKeeps == UNCHANGED <<channel, closed, txid, request, disabled>>

ConfigReadStatus(cfg) ==
    IF cfg.offset >= PCI_EXT_CONFIG_SIZE THEN "OUT_OF_RANGE"
    ELSE IF cfg.width \in {1, 2, 4} THEN "OK" ELSE "INVALID_ARGS"

RpcConfigRead ==
    /\ Dispatching({"CONFIG_READ"})
    /\ Reply(ConfigReadStatus(request.arg), "none")
    /\ HandlerKeeps /\ UNCHANGED <<irqMode, cfgWrites>>

\* No writes inside the config header.
ConfigWriteStatus(cfg) ==
    IF cfg.offset < PCI_CONFIG_HDR_SIZE THEN "ACCESS_DENIED"
    ELSE IF cfg.offset >= PCI_EXT_CONFIG_SIZE THEN "OUT_OF_RANGE"
    ELSE IF cfg.width \in {1, 2, 4} THEN "OK" ELSE "INVALID_ARGS"

RpcConfigWrite ==
    /\ Dispatching({"CONFIG_WRITE"})
    /\ LET st == ConfigWriteStatus(request.arg) IN
       /\ Reply(st, "none")
       /\ cfgWrites' = IF st = "OK"
                       THEN cfgWrites \cup {[offset |-> request.arg.offset,
                                             width |-> request.arg.width,
                                             whileDisabled |-> disabled]}
                       ELSE cfgWrites
    /\ HandlerKeeps /\ UNCHANGED irqMode

RpcEnableBusMaster ==
    /\ Dispatching({"ENABLE_BUS_MASTER"})
    /\ \E st \in CalleeResults : Reply(st, "none")
    /\ HandlerKeeps /\ UNCHANGED <<irqMode, cfgWrites>>

\* RPC_UNIMPLEMENTED: RpcGetAuxdata, RpcGetBti and RpcResetDevice.
RpcUnimplemented ==
    /\ Dispatching({"GET_AUXDATA", "GET_BTI", "RESET_DEVICE"})
    /\ Reply("NOT_SUPPORTED", "none")
    /\ HandlerKeeps /\ UNCHANGED <<irqMode, cfgWrites>>

RpcGetDeviceInfo ==
    /\ Dispatching({"GET_DEVICE_INFO"})
    /\ Reply("OK", "none")
    /\ HandlerKeeps /\ UNCHANGED <<irqMode, cfgWrites>>

\* The default case of the switch.
RpcInvalidOp ==
    /\ Dispatching({"BAD_OP"})
    /\ Reply("INVALID_ARGS", "none")
    /\ HandlerKeeps /\ UNCHANGED <<irqMode, cfgWrites>>

\* The handle RpcGetBar hands out for a BAR of nonzero size: a VMO for
\* MMIO, the IO resource if the allocation has one, else none.
BarHandle(bar) ==
    IF bar.is_mmio THEN "vmo" ELSE IF bar.has_resource THEN "resource" ELSE "none"

RpcGetBar ==
    /\ Dispatching({"GET_BAR"}) /\ devLock = "free"
    /\ LET id == request.arg IN
       \/ id >= BarCount /\ Reply("INVALID_ARGS", "none")
       \/ id < BarCount /\ id \in MsixBars /\ Reply("ACCESS_DENIED", "none")
       \/ id < BarCount /\ id \notin MsixBars /\ Bars[id].size = 0
          /\ Reply("NOT_FOUND", "none")
       \/ id < BarCount /\ id \notin MsixBars /\ Bars[id].size > 0
          \* CreateVmObject or duplicate fails: ZX_ERR_INTERNAL
          /\ \E st \in CalleeResults :
                IF st = "OK" \/ BarHandle(Bars[id]) = "none"
                THEN Reply("OK", BarHandle(Bars[id]))
                ELSE Reply("INTERNAL", "none")
    /\ HandlerKeeps /\ UNCHANGED <<irqMode, cfgWrites>>

RpcGetNextCapability ==
    /\ Dispatching({"GET_NEXT_CAPABILITY"})
    /\ Reply(IF GetNextCapability(request.arg, CapList, 8) = NotFound
             THEN "NOT_FOUND" ELSE "OK", "none")
    /\ HandlerKeeps /\ UNCHANGED <<irqMode, cfgWrites>>

RpcQueryIrqMode ==
    /\ Dispatching({"QUERY_IRQ_MODE"})
    /\ \E st \in CalleeResults : Reply(st, "none")
    /\ HandlerKeeps /\ UNCHANGED <<irqMode, cfgWrites>>

RpcSetIrqMode ==
    /\ Dispatching({"SET_IRQ_MODE"})
    /\ \E st \in CalleeResults :
          /\ Reply(st, "none")
          /\ irqMode' = IF st = "OK" THEN request.arg ELSE irqMode
    /\ HandlerKeeps /\ UNCHANGED cfgWrites

MapInterruptUnsupportedLegacyOnly(mode) == mode = "LEGACY"

MapInterruptUnsupported(mode) == mode \in {"LEGACY", "MSI_X"}

\* The switch on irqs_.mode has only an MSI case: in any other mode the
\* status and handle it leaves are read uninitialized, so status is any
\* value and the handle garbage.
MsiSwitch(mode, st) == [status |-> st, handle |-> IF mode = "MSI" THEN "msi" ELSE "garbage"]

RpcMapInterrupt ==
    /\ Dispatching({"MAP_INTERRUPT"}) /\ devLock = "free"
    /\ \/ irqMode = "DISABLED" /\ Reply("BAD_STATE", "none")
       \/ irqMode # "DISABLED" /\ MapInterruptUnsupported(irqMode)
          /\ Reply("NOT_SUPPORTED", "none")
       \/ irqMode # "DISABLED" /\ ~MapInterruptUnsupported(irqMode)
          /\ \/ Reply("ERROR", "none")                 \* get_view fails
             \/ \E st \in CalleeResults :              \* handle_cnt is 1 iff ZX_OK
                   LET r == MsiSwitch(irqMode, st)
                   IN  Reply(r.status, IF r.status = "OK" THEN r.handle ELSE "none")
    /\ HandlerKeeps /\ UNCHANGED <<irqMode, cfgWrites>>

Dispatch == \/ RpcConfigRead \/ RpcConfigWrite \/ RpcEnableBusMaster \/ RpcUnimplemented
            \/ RpcGetBar \/ RpcGetDeviceInfo \/ RpcGetNextCapability \/ RpcMapInterrupt
            \/ RpcQueryIrqMode \/ RpcSetIrqMode \/ RpcInvalidOp

RpcStep == DdkRxrpc \/ Dispatch

Next == \/ RpcStep
        \/ \E op \in Ops, sized \in BOOLEAN : \E arg \in Args(op) : Call(op, arg, sized)
        \/ Disable

Spec == Init /\ [][Next]_vars

-----------------------------------------------------------------------------
(* Properties.                                                             *)

BarHandles(id) ==
    IF id \in (0..BarCount - 1) \ MsixBars /\ Bars[id].size > 0
    THEN {"none", BarHandle(Bars[id])} ELSE {"none"}

(* A reply carries a handle only with ZX_OK, and only the handle its op    *)
(* hands out: a GET_BAR reply the VMO or IO resource of a BAR the driver   *)
(* may map (never an MSI-X table or PBA BAR), a MAP_INTERRUPT reply an MSI *)
(* interrupt created by zx_msi_create, never an uninitialized handle left  *)
(* by the switch in RpcMapInterrupt; every other reply none.                *)
ReplyHandlesValid ==
    \A i \in 1..Len(replies) :
        LET r == replies[i] IN
        /\ r.handle # "none" => r.status = "OK"
        /\ r.handle \in CASE r.op = "GET_BAR"       -> BarHandles(r.arg)
                          [] r.op = "MAP_INTERRUPT" -> {"none", "msi"}
                          [] OTHER                  -> {"none"}

(* No config-space write reaches a device after the bus disabled it: the   *)
(* disabled_ check of DdkRxrpc stands for every handler it admits.          *)
ConfigWritesOnlyWhileEnabled == \A w \in cfgWrites : ~w.whileDisabled

=============================================================================
