# TLA+ models of zircon-rpi: BR/EDR pairing, audio output, PCI RPC

This directory holds TLA+ models of parts of this repository, plus the TLC configurations that
check them. The core is the Bluetooth BR/EDR pairing state machine in
`src/src/connectivity/bluetooth/core/bt-host/gap/pairing_state.cc`, which `spec.md` describes.
The audio core's `DriverOutput` and the PCI bus driver's RPC server are modelled too.

## 1. Inventory

### Components of the pairing core

| Component | State | Operations | Interacts with |
|---|---|---|---|
| Decision tables (`GetInitiatorPairingAction`, `GetResponderPairingAction`, `GetExpectedEvent`, `IsPairingAuthenticated`, `Get*AuthRequirements`) | none (pure) | functions of two IO capabilities | called by `Pairing::ComputePairingData` |
| `Pairing` | role, local/peer IO capability, action, expected event, authenticated flag, security properties of the key, ordered `initiator_callbacks` | `MakeInitiator`, `MakeResponder`, `ComputePairingData`, `GetWeakPtr` | owned by `PairingState` (0 or 1 instance) |
| `PairingState` | `state_` (12 states), `current_pairing_`, `link_`, `status_callback_` | `InitiatePairing`, `OnIoCapabilityRequest`, `OnIoCapabilityResponse`, `OnUserConfirmationRequest`, `OnUserPasskeyRequest`, `OnUserPasskeyNotification`, `OnSimplePairingComplete`, `OnLinkKeyNotification`, `OnAuthenticationComplete`, `OnEncryptionChange`; private `SignalStatus`, `EnableEncryption`, `FailWithUnexpectedEvent` | controller events (HCI), the link, the delegate, upper-layer callers |
| Link (`hci::Connection`, not in `src/`) | link key and type, encryption state | `set_bredr_link_key`, `StartEncryption` (may refuse), encryption-change callback | calls `OnEncryptionChange` |
| PairingDelegate (bt-gap, not in `src/`) | UI; may be set or cleared by bt-gap at any time | `io_capability`, `DisplayPasskey`, `ConfirmPairing`, `RequestPasskey`, `CompletePairing`; each answers through a callback later, or never | callbacks hold a `WeakPtr` to the `Pairing` |

How the parts interact: every entry point runs on the link's dispatcher, one at a time. A
handler validates the event against `state_`, updates the `Pairing`, and may ask the delegate
something. The delegate's answer comes back as a later callback, which replies to the controller
only if its `Pairing` is still alive. Finally the handler moves to the next state. Terminal
outcomes go through `SignalStatus`, which detaches the queued callbacks, drops the `Pairing`, and
calls `status_callback_` and then every queued caller with the same status.

What makes it hard:

- The controller may send any event in any state: events can be reordered, duplicated, stray, or
  the peer can toggle encryption.
- Delegate answers arrive late, out of order, or never.
- Several upper-layer callers can request pairing at once, and their requests coalesce.
- bt-gap may clear the delegate in the middle of a pairing (TODO 37447).
- `StartEncryption` can be refused.
- `status_callback_` may destroy the `PairingState` (SignalStatus's comment: an error can cause a
  disconnection), so nothing may touch a member after calling it.
- There is no timeout anywhere.

What makes it correct:

- No `ZX_ASSERT` can be reached.
- Every caller is signalled exactly once, with the negotiation's status.
- A stored key is secure and matches the negotiated MITM protection, a late delegate answer
  cannot confirm a different negotiation, and success implies encryption. Each of these is a
  single guard of one handler (`LinkKeyAcceptable`, `PairingAlive`, `EncryptionStatus`). The
  model keeps the guards, but no property restates them.
- (Liveness) every waiter is eventually signalled, provided the controller and the delegate
  answer.

### Other source files

| Component | Source | Status |
|---|---|---|
| DriverOutput: the audio output lifecycle, the underflow cooldown in `StartMixJob`, and ring-buffer writes in `WriteToRing` | `driver_output.cc`, `audio_output.h` | modelled |
| PCI device RPC dispatcher (`DdkRxrpc`, `disabled_` under `dev_lock_`, the `Rpc*` handlers) | `device_protocol.cc` | modelled |
| Reboot reason mapping | `reboot_reason.cc` | not modelled (see section 4) |
| `tap_stage.h`, `system_instance.h`, `fdio/io.h` | headers | not modelled: declarations only |
| `server_main.cc`, `network_time_service/main.cc` | process entry points | not modelled: I/O wiring |
| Unit, integration and mock tests | `*_test.cc`, `*unittest.cc`, `mocks/` | not modelled: they are tests |

`PROJECT.json` lists the hazards: each one at the line where it bites, with the properties that
cover it.

## 2. Modules

### Pairing

- `PairingDecisions.tla`: the decision tables as operators, one per C++ function. The chains of
  early returns become `IF ... ELSE IF`.
- `PairingState.tla` (extends `PairingDecisions`): the state machine.
  - Variables: `state` (`state_`), `pairing` (`current_pairing_`: `None` or a record with the
    fields of `Pairing`), `gen` (`Pairing` identity, which stands in for the `WeakPtr`),
    `delegate`, `linkKey`, `linkEncrypted`.
  - History and observation variables:
    - `topSignals`: the calls to `status_callback_`.
    - `callerSignals`: the calls to each `InitiatePairing` callback.
    - `joinedAt`: how many top-level signals had happened when a caller joined a `Pairing`.
    - `uiRequests`: outstanding delegate requests.
    - `hciReplies`: confirmation and passkey replies sent to the controller.
    - `completions`: `CompletePairing` calls.
    - `nullDelegateCall`: a handler called the delegate after bt-gap cleared it.
    - `lifetime`: `"Alive"`, `"Destroyed"` by a `status_callback_` call, or `"UsedAfterFree"`
      when a handler writes a member after such a call. `Next` takes no step once it is not
      `"Alive"`. `StatusCallback(status, writesAfter)` is the one place the callback is called.
  - Actions: one per handler, each covering the whole handler, including its call to
    `SignalStatus`, `EnableEncryption` or `FailWithUnexpectedEvent`.
    - `DelegateRespond` is a delegate callback firing, guarded by the `WeakPtr` check
      (`PairingAlive`).
    - `SetPairingDelegate` and `ClearPairingDelegate` are bt-gap's actions.
  - Nondeterministic inputs: controller statuses `{Success, HciError}`, key types,
    `StartEncryption` accepted or refused, the delegate's `sm::IOCapability` (including
    KeyboardDisplay, converted with `IOCapabilityForHci`), and delegate answers.
  - Modelled from the spec because the code is not under `src/`: `sm::SecurityProperties`
    (`KeyHasSecurity`, `KeyAuthenticated`) and `IOCapabilityForHci`.
- `MCPairingState.tla`: gives the constants values (two callers `c1` and `c2`, four key types)
  and defines the state constraint `StateBound`.
- `MCPairingDecisions.tla`: enumerates all 16 capability pairs and compares the code's action
  table with the spec's.
- `PairingOutcome.tla`: the abstract specification of what `PairingState` promises its users. A
  link is `Idle`, `Busy` with a set of waiting callers, or `Failed` (never left). `Begin`,
  `Join`, `Refuse` (NotReady, or Canceled in Failed) and `Conclude` (one status to the top-level
  callback and to every waiter).
- `PairingProtocol.tla` (extends `PairingState`): the refinement mapping (every in-progress state
  is `Busy`, the waiters are `pairing.initiator_callbacks`) and `ImplementsPairingOutcome`. It
  also composes the state machine with:
  - a controller that sends, in each state, only the event the SSP procedure calls for next
    (`ControllerStep`);
  - a peer that may start a pairing or toggle encryption (`PeerStep`);
  - the upper layer and the delegate (`UpperLayerStep`).
  `PairingBudget` bounds the `Pairing` objects by guards, not by a constraint, so that no
  behaviour is cut short under liveness checking.
- `MCPairingProtocol.tla`: `MCPairingState`'s constants, plus `PairingBudget <- MaxPairings`.
- `PairingState`'s constant `StartEncryptionMayFail` says whether `link_->StartEncryption()` may
  refuse. It is TRUE in the safety runs and FALSE where a refusal is the known bug that would
  hide everything else (see `pairing_refused_liveness`).
- The constant `StatusCallbackMayDestroy` says whether the owner may destroy the `PairingState`
  inside `status_callback_` on an error status. It is TRUE only in `callback_destroys`. In the
  other runs destruction would end every behaviour that reaches an error.

Abstractions:

- Key values, numeric values and passkeys are dropped.
- A key is its type plus the generation of the `Pairing` that produced it.
- `kDebugCombination` is not offered, because the code aborts on it by contract (line 257).
- bt-gap's `ClearPairingDelegate` is a step between handlers. Inside a handler, the clear can
  also land between the check (or `ZX_ASSERT`) of `pairing_delegate()` and the second read that
  calls it (`CallDelegate`, at lines 76, 95, 153, 166, 205, 227 and 243). A clear there is a
  data race, and its outcome is a call through a null delegate (`nullDelegateCall`, after which
  bt-host takes no step). Both are possible only when `DelegateResetDuringPairing` is TRUE.

### Audio output (`driver_output.cc`, `audio_output.h`)

- `DriverRing.tla`: the ring buffer as a function from slot to the frame it holds (or
  `Silence`), and `WriteToRing` as a RECURSIVE operator that writes a span in chunks. Each chunk
  is cut at the end of the ring (`to_send = min(frames_left, rb_frames - wr_ptr)`).
- `DriverOutput.tla`:
  - Variables: the lifecycle `state` (Uninitialized … Started, Shutdown), the clock `now`, the
    `frames_sent_`, `underflow_start_time_` and `underflow_cooldown_deadline_` fields, the next
    wakeup, the mix timer, whether `Process` is running, the pending mix job, and the ring.
  - Actions: the driver callbacks `OnDriverInfoFetched`, `OnDriverConfigComplete` and
    `OnDriverStartComplete`. Each has its deferred shutdown when the state is not the expected
    one.
  - Actions: `StartMixJob`, in full. It covers underflow detection on the safe write pointer,
    silencing the ring on the first underflow, the cooldown, the early return when the driver
    woke too early, the frame count with the uint32 `rb_space` wrap (`FramesToMix`), and the
    span handed to the mixer.
  - `MixStateOk` is `StartMixJob`'s state check. In any state but Started it shuts down and
    returns nullopt.
  - `FinishedSpanLengths` is the contract in `audio_output.h`: a muted span comes back whole, and a
    mixed one may be shortened by the pipeline.
  - `SetNextSchedTime` is `AudioOutput::SetNextSchedTime`.
  - Actions: `FinishMixJob`, which writes the span to the ring with `WriteToRing` and schedules
    the next low-water wakeup. `MixTimerThunk` and `EndProcess` are `AudioOutput`'s timer and
    `Process` loop.
  - Time is one integer that ticks only in Started: one tick is one frame. `zx::time(0)` is the
    "never" sentinel of the underflow fields, so the clock starts at `StartTime = 1`.
- `MCDriverOutput.tla`: a ring of 5 frames (`HighWater + Fifo`), FIFO depth 2, low water 1, high
  water 3, a cooldown of 3 ticks, and time up to 20 (`TimeBound`).
  - A FIFO of 1 cannot tell the safe write pointer from the transmitted one.
  - 20 ticks fit several underflow/cooldown/recovery cycles and wrap the ring three times.
- `MCDriverRing.tla`: every span of start 0..11 and length 0..5 on a 5-slot ring.

### PCI device RPC (`device_protocol.cc`)

- `PciCapability.tla`: the loop of `GetNextCapability<T, L>` as a RECURSIVE `Scan`, after the
  request's offset is narrowed to T (`NarrowOffset`). `OffsetBits` is `RpcGetNextCapability`'s
  choice of T: `uint16_t` for the extended list, `uint8_t` for the standard one.
- `PciDeviceRpc.tla`:
  - Variables: the proxy's `channel` of outstanding requests, `closed`, the device host
    thread's position (`rpcPc`: before or after the switch), `request_`, the holder of
    `dev_lock_`, `disabled_`, `irqs_.mode`, the config writes made, and the replies sent.
  - `DdkRxrpc`: reads a request. A short message drops the channel. It then checks `disabled_`
    under `dev_lock_` and releases the lock before the switch (`AdmitRequest`).
  - One action per handler, each ending in `RpcReply`. They keep the code's chains of early
    returns. `RpcGetBar` and `RpcMapInterrupt` take `dev_lock_` again.
  - `RpcMapInterrupt`'s switch has only an MSI case. Any other mode that reached it would read
    `status` and `handle` uninitialized, which `MsiSwitch` models as any status with a garbage
    handle.
  - Callees outside this file return OK or an error nondeterministically. These are
    `EnableBusMaster`, `QueryIrqMode`, `SetIrqMode` (which sets the mode on OK),
    `CreateVmObject`, the resource duplicate, `get_view` and `zx_msi_create`.
  - `Call` (the proxy) and `Disable` (the bus: `Device::Disable` is not in this repository)
    are the environment.
- `MCPciDeviceRpc.tla`: four BARs (the MSI-X table BAR, an MMIO BAR, an IO BAR with a resource,
  and the zero-size upper half of a 64-bit BAR). `GET_BAR` may also name BAR 4, which is out of
  range. Config offsets lie in the header, in the device area and past the extended space.
  Widths are 3 and 4. Requests may be malformed. There are two calls.
- `MCPciCapability.tla`: every capability list of up to three distinct bases in any order.
  - Standard lists have bases 64, 80 and 96. Extended lists have bases 256, 320 and 512, past
    `uint8_t`.
  - Every first request is enumerated: two ids, `is_first` or not, and an offset in the list's
    range that a capability owns or not (112 and 768 are owned by none).
  - Each initial state is one call, and the state does not change (`Next` is a stutter).

## 3. Runs

| Run | Config | Expect | What it shows |
|---|---|---|---|
| `pairing_safety` | `MCPairingState.cfg` | pass (540,444 states) | `TypeOK`, `AssertionsHold` (every `ZX_ASSERT` precondition of every handler holds in every state it can be entered from, including the mutual consistency of the decision tables), `NoCallerSignaledTwice` (however the controller, the delegate and a second caller interleave, no caller of `InitiatePairing` is called twice) |
| `delegate_reset` | `MCPairingState_delegate_reset.cfg` | violation of `AssertionsHold` | bt-gap clears the delegate during a pairing that `InitiatePairing` started. The spec says the next step should fail with NotReady. In the trace TLC reports (three states), `OnIoCapabilityRequest` passes its `ZX_ASSERT` at line 71, the clear lands after it, and the call at line 76 goes through the null delegate. A clear that lands before line 71 makes the assert itself fire. |
| `callback_destroys` | `MCPairingState_destroy.cfg` | violation of `NoAccessAfterDestruction` | In three steps (`InitiatePairing`; `OnAuthenticationComplete(Success)`; `StartEncryption` refused): `EnableEncryption` calls `status_callback_` with HostFailed. The owner destroys the `PairingState` in the callback, and then `state_ = kFailed` writes the freed object. |
| `action_table_vs_spec` | `MCPairingDecisions.cfg` | violation of `InitiatorActionMatchesSpec` | For DisplayOnly/DisplayOnly the code picks Automatic, while the spec table says DisplayPasskey. |
| `pairing_refinement` | `MCPairingProtocol_refinement.cfg` | pass (497,300 states, about 2 min) | `ImplementsPairingOutcome`: under an unconstrained controller, with `StartEncryption` never refused, every step of `PairingState` is a step or a stutter of `PairingOutcome`. |
| `pairing_liveness` | `MCPairingProtocol_liveness.cfg` | pass (119,464 states) | `JoinedCallersSignalled`: with a controller that follows the procedure, every caller queued on a `Pairing` is eventually called, however late or never the delegate answers. |
| `pairing_refused_liveness` | `MCPairingProtocol_refused.cfg` | violation of `JoinedCallersSignalled` | When `StartEncryption` is refused, the state becomes Failed but the `Pairing` and its queued callbacks stay. The controller sends nothing more, so the caller waits forever. |
| `driver_output` | `MCDriverOutput.cfg` | pass (12,501 states) | `NoStaleAudio` (every frame between the safe write pointer and `frames_sent_` holds that frame or silence), `NeverWriteBehindDma` (a mix job never starts behind the safe write pointer), `ProcessTerminates` (every `Process` run ends), `ShutdownIsFinal` (once Shutdown, which a stray driver reply can cause while the mix timer is posted, no step leaves it, writes the ring, or advances `frames_sent_`) |
| `ring_write_reference` | `MCDriverRing.cfg` | pass (144 states) | `WriteToRingMatchesReference`: the chunked write equals "frame p goes to slot p mod rb_frames". |
| `pci_rpc` | `MCPciDeviceRpc.cfg` | pass (36,027 states) | `ReplyHandlesValid` (a reply carries a handle only with ZX_OK and only the one its op hands out: never an MSI-X BAR, never an uninitialized handle) |
| `pci_capability_scan` | `MCPciCapability.cfg` | pass (1,896 states) | `ScanMatchesReference`: for every list and request, the scan returns the first capability of the id after the one owning the offset, as the comment above its loop says. This holds on the standard and the extended list with the T that `RpcGetNextCapability` picks for each, so each list's T is wide enough for the offsets it hands out. |
| `pci_disable_race` | `MCPciDeviceRpc_disable.cfg` | violation of `ConfigWritesOnlyWhileEnabled` | A `CONFIG_WRITE` passes the `disabled_` check, the bus disables the device, and then the write is performed. |

Each property of a passing run has a mutant in `PROJECT.json`: a one-definition variant, defined
in the same module just before the definition it replaces. TLC finds the property violated when
that variant replaces the original. One example: `ScanPastMatch` keeps scanning after the first
match, and `ScanMatchesReference` catches it on a list where an id repeats.

### Findings

- `pairing_state.cc:71` (`delegate_reset`): a cleared delegate reaches a `ZX_ASSERT` at line 71.
  Because the clear comes from another thread, it can also land between the assert and the call
  at line 76, and this is the shortest trace TLC reports. It can also land between any other
  check and the call that follows it. One example is lines 242-243: TLC reaches `CompletePairing` on a null delegate
  in four steps (a peer-started pairing, an automatic confirmation, then Simple Pairing Complete
  with an error).
- `pairing_state.cc:466` (`callback_destroys`): `EnableEncryption` writes `state_` after
  `status_callback_`, which SignalStatus's own comment (lines 451-452) says may destroy the
  object. Every other path writes `state_` before it signals. This is a use after free whenever
  the owner disconnects on the error.
- `pairing_state.cc:465` (`pairing_refused_liveness`): a refused
  `StartEncryption` leaves `current_pairing_` with its callbacks in Failed. Queued callers are
  never called, or are called only with a stray event's NotSupported. Later `InitiatePairing`
  calls queue on the dead `Pairing` instead of being cancelled.
- `pairing_state.cc:496` (`action_table_vs_spec`): DisplayOnly/DisplayOnly diverges from the
  spec's table.
- `device_protocol.cc:55` (`pci_disable_race`): the `disabled_` check does not cover the handler
  it admits. Nothing says whether it should. Holding the lock across the switch would deadlock,
  so a fix needs a second check in the handlers or a different lock.
- `device_protocol.cc:264` (hazard): the capability offset is narrowed to T before the scan.
  For every offset a reply hands out this is exact (`ScanMatchesReference`): the extended
  offsets 256 and 320 are wider than `uint8_t`, so scanning that list with the wrong T fails the
  check. A client-made offset past T
  still aliases: offset 320 on the standard list finds the capability after the one at 64.
  Nothing states what such a request should get, so no property covers that case.

### Bounds

- Pairing: two callers are enough to queue one caller behind another on a `Pairing`.
- Pairing: `MaxPairings = 2` lets one negotiation end and another begin, which stale delegate
  callbacks need.
- Pairing: `MaxTopSignals = 3` allows a failure, a second failure, and a success in one
  behaviour.
- Pairing: four key types cover one case of each kind (legacy, unauthenticated, authenticated,
  changed combination). The 256-bit variants behave the same as their 192-bit counterparts in
  `SecurityProperties`.
- Pairing: all four IO capabilities are enumerated, plus KeyboardDisplay on the delegate side.
- Pairing: in the safety runs the controller is unconstrained, so every event can arrive in
  every state.
- Audio: the ring, the FIFO and the clock are as given for `MCDriverOutput` above.
- PCI: two pipelined calls are enough to change the IRQ mode and then map an interrupt, and to
  have one request queued behind another. A disable can fall at every point between them.
  Three calls pass too, but take more than five minutes.
- PCI capabilities: three capabilities of two ids give lists where an id repeats, lists where a
  match precedes the owner of the offset, and lists where a backward pointer puts a lower base
  later. Three extended bases, which narrow to 0, 64 and 0 in `uint8_t`, tell `uint16_t`
  from `uint8_t`.

### Fairness

- `pairing_liveness`: weak fairness on the controller only. The Bluetooth controller answers
  every step of a procedure it started, and times out an unanswered user interaction itself
  (Simple Pairing Complete with an error). The delegate, bt-gap and the peer get no fairness:
  the spec says they may never answer.
- `driver_output`: weak fairness on `StartMixJob` and `FinishMixJob`. `Process` runs the mix
  job to its end on the mix domain, without waiting for anything.
- The PCI runs check safety only and assume no fairness.

## 4. Not modelled

- The reboot reason mapping (`reboot_reason.cc`) is three switch statements over a ten-value
  enum, with no state, no concurrency and no caller in `src/`. A unit test reaches every input,
  and a TLC run would only restate the tables.
- `tap_stage.h`, `system_instance.h` and `fdio/io.h` hold declarations only.
- `server_main.cc` and `network_time_service/main.cc` are process entry points that wire up I/O.
- Unit, integration and mock tests (`*_test.cc`, `*unittest.cc`, `mocks/`) are tests.
- Parts of modelled files that are left out:
  - `PairingState`: `ToString` (logging) and the destructor.
  - `DriverOutput`: gain limits, formats, effects, the WAV writer and logging, which change
    nothing that the properties observe.
  - PCI: the response payloads (config values, device info, BAR addresses). `PciDeviceRpc`
    serves the standard capability list only. The extended one differs only in T, which
    `MCPciCapability` covers.

## 5. Next steps

- Larger instances: three PCI calls (about six minutes and 2.9 million states, past the
  time a routine run should take), and a second `DriverOutput` FIFO/ring geometry.
- `DriverOutput` with the driver's replies as messages that may be duplicated or delayed past
  Shutdown, beyond the stray calls the model already makes in every state.
- An abstract ring-position specification that `DriverOutput` refines.
