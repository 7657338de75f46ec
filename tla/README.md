# Formal verification of the AMD BC-250 Windows driver

TLA+ models of the two kernel drivers of this repository and of the user-mode
drivers that call them, the TLC configurations that check them on small
instances, and TLAPS proofs. Paths are relative to the repository; `kmd.c` is
`src/kmd/amdbc250_dream_kmd.c`, `hw_init.c`, `psp.c`, `power.c` and `vm.c` are its
neighbours, `icd.c` is `src/vulkan/bc250_vulkan_icd.c`, and names that begin with
`wddm-ps5/` are the second driver's.

    tlc -workers 2 -config DeviceInit_safety.cfg MCDeviceInit
    tlapm DeviceInit_proof.tla      # and the other modules named *_proof

## 1. The system

**The main driver** (`src/kmd`, with `inc`) is one kernel module.
`DriverEntry` sets `Status = STATUS_NOT_SUPPORTED` where it would call
`DxgkInitialize` (kmd.c 536), so on this build its WDDM callbacks are never
registered. It creates a control device, and everything happens in
`DreamV3DeviceControl`, a switch of about a hundred IOCTLs over one shared
device extension (`g_PciDevExt`). Any number of user processes, and the
separate PSP driver, can be inside that switch together. What keeps two of them
apart is, by handler, one `FAST_MUTEX` (`DeviceMutex`, not recursive), a few
spin locks, or nothing.

**The display miniport** (`wddm-ps5`) is a WDDM driver proper: dxgkrnl calls it
back to start, stop and reset the adapter, to allocate, to set modes, to
present. dxgkrnl serialises the callbacks that change the adapter's life; what
is hard is that each of them may fail half way and the next has to cope.

**User mode** is a Vulkan ICD, a RADV winsys, D3D driver DLLs and a control
panel, each a client of the IOCTLs.

| Component | Where | State | Operations | What is hard | What makes it correct |
|---|---|---|---|---|---|
| Device initialisation, BAR5 | kmd.c 5221-5507, 6641-6707; psp.c 538-616, 1172-1217 | `MmioVirtualBase`, `FbVirtualBase`, `HardwareInitialized`, `HwInitInProgress`, `DeviceMutex`, PSP proxy | `INIT_HARDWARE` (full and NBIO_MAP), 0x900/0x901, `READ_REG`/`WRITE_REG`, resets | the mutex is let go for the whole of `DreamV3HwInitialize`, which calls the PSP driver, which calls back | no self-deadlock, one full INIT at a time, its mapping lives, none is lost |
| SMU mailboxes, SMN port | psp.c 134-540; power.c 60-183; kmd.c 4120-4933, 6357-6414, 6905-6942 | index/data pair, three queues of response, argument, command | `SMU_CPU_MSG`, `SMU_MSG_ARGS`, telemetry, unlock, `PCI_SMN_ACCESS` | a message is several port pairs; time-outs and late answers; some handlers take the mutex, some do not | a caller gets the answer to its own message |
| PSP GPCOM ring | kmd.c 9025-9772 | ring, command page, fence page, write pointer, `PspRingCreated` | `RING_INIT`, `SUBMIT`, `LOAD_IP_FW`, `SETUP_TMR`, direct load | the PSP consumes late or never; all frames share one command page | a page the PSP may read is neither freed nor confused |
| GFX ring and fence | kmd.c 1715-1800, 3884-4007, 5510-5652; hw_init.c 600-900 | write pointers, ring memory, `LastSubmitted`/`LastSignaledValue`, an event | `SUBMIT_COMMANDS`, `SEND_PM4`, `WAIT_FENCE`, `SIGNAL_FENCE`, bring-up, resets | wraps, three packet writers, lazy bring-up | a doorbell runs the caller's packets on a verified ring |
| Software PM4 | kmd.c 1800-2302 | a stack of buffers | `DreamV3SwPm4Process` | lengths, truncation and addresses from user mode, recursion | reads, writes and moves only what it may, and ends |
| Bank selection, engine halts | kmd.c 5078-5216, 8241-8313, 8640-9020 | `GRBM_GFX_INDEX`, what it banks, engine control | halt, bank and ring probes, 40CU unlock, CU status | select and access are two writes on a live display | the display's state is back afterwards |
| User-mode memory table, its clients | kmd.c 79-167, 3754-3861; src/radv-bc250/radv_bc250_bo.c; src/umd/amdbc250_umd_v46.c | `g_MdlTable[64]`, the clients' buffers and counters | alloc, free, unload, process exit | handles are addresses of one process in a table for all; table full | the table names what is given out, a buffer has its pages, the counters agree |
| Ring and page memory | hw_init.c, hw_init_extended.c | three rings, fence page | `HwInitialize`, `HwReset`, `HwShutdown` | steps fail and are repeated | no page leaks, none is freed twice |
| GPU page tables, GART | vm.c | VMID bitmap, contexts, tables | create, destroy, map, unmap | roll-back half way | what is mapped translates to its own page |
| Interrupts | wddm-ps5/src/kmd/amdbc250_kmd.c 1560-1707, 3430-3470; amdbc250_hw_init.c (the same in kmd.c 1231-1346, unreachable there) | IH ring, pointers | ISR, DPC, ControlInterrupt, bring-up | arrival during the DPC, overrun, a reset beside the DPC | each entry is handled once and in order, a raised line is served |
| Miniport life cycle, memory, modes | wddm-ps5/src/kmd/amdbc250_kmd.c, amdbc250_hw_init.c | BARs, framebuffer, rings, contexts, allocations, modes | AddDevice to RemoveDevice, reset, allocations, mode sets, present, system display | partial failure, rebalance, restart over leftovers | what is taken is owned, a stopped device owns nothing |
| Vulkan ICD | src/vulkan/bc250_vulkan_icd.c | `g_Device`, `g_Allocations`, command buffers | devices, submit, fences, memory | globals without a lock, batches cut to what one `SEND_PM4` carries | a fence follows its commands, numbers and handles are unique |
| RADV winsys, D3D | src/radv-bc250, src/umd | buffers, command streams, fence numbers | create, map, submit, wait | lifetime against the GPU's use | a wait that ends means the work is done |
| The rest | firmware loading, RLC, golden, HDP, VBIOS, fan, CMOS and physical-memory IOCTLs, KIQ test scripts, UEFI and test tools | next to none | sequences of register writes | the hardware | section 8 |

How they interact: every component of the main driver reaches the hardware
through the BAR5 mapping of `DeviceInit`, and most serialise on its mutex; the
SMN port of `SmuMailbox` lies behind two registers of that mapping; `GfxRing`
hands what it cannot submit to `SwPm4`; the ICD's `SEND_PM4` (`IcdQueue!Accept`)
is the one `GfxRing` receives, and the clients in `VidMem` call the driver there;
`EXECUTE_RING_PM4` appears in three
modules, as a user of the mutex (`DeviceInit`), of the mailbox (`SmuMailbox`)
and of the bank select (`EngineSelect`). `VulkanIcd` composes `IcdQueue` and
`IcdMemory`; the other modules share no variables: each states in its header what it takes for granted of the others (the mapping is
there, no full INIT is running), and those are the facts `DeviceInit` checks
and proves (`PublishedIsMapped`, `RingExcludesInit`).

## 2. Modules

| Module | Models | State and actions against the code |
|---|---|---|
| `DeviceInit` | `INIT_HARDWARE` and all that shares its mapping | A thread is an IRP. One action is the code between two points at which another thread can see the extension: the unmapping of the old BAR and the clearing of its pointer are two actions, the mapping of the framebuffer one. `ExAcquireFastMutex` is `Acquire`. An address is a model value that can come back. The PSP driver's call back runs on the caller's thread (`KiqInitCallsPsp` to `PspReply`). |
| `DeviceInit_proof` | | Theorems about `DeviceInit`. |
| `SmuService` | what the mailbox promises | A message is posted, executed at most once, answered; a caller may give up. |
| `SmuMailbox` | the senders of queues 0, 2 and 3, and nine handlers | One access is two actions, `Address` (index register) and the data half, whose target is whatever the index holds by then. A handler is a `Plan`, the senders it calls in order; `Rest` says what it does after a failure. `SmuAnswer` is the firmware. |
| `SmuMailbox_proof` | | Theorems about `SmuMailbox`, among them the step simulation of `SmuService`. |
| `PspRing` | ring init, the three submitting IOCTLs, the direct mailbox, unload | One action per register write, poll result and allocation. The PSP (`Psp`) reads the command page when it gets to the frame, so as late as it likes. |
| `PspRing_proof` | | Theorems about `PspRing` for any number of IRPs, slots and commands. |
| `GfxRing` | ring and fence IOCTLs, bring-up, resets | A ring is an array of dwords that remember packet and call; `Packet`, `Padded` and the wrap tests of the three writers are those of the code. A bring-up takes no lock and runs beside the writers and beside other bring-ups; publishing the ring, writing its base and reading it back are three actions. Three history variables say what it ran into: `met` (per call), `overlapped`, `desync`. |
| `SwPm4` | the software executor | A dword is the record of all the ways it can be read. One action per packet kind; a nested `INDIRECT_BUFFER` pushes a frame. How much of BAR5 is mapped is the caller's of INIT_HARDWARE (`MmioSizes`); `DISPATCH_DIRECT` writes the bank select and four fixed registers without a test. |
| `Commands_proof` | | Theorems about `GfxRing`, for any ring, commands and number of IRPs, and about `SwPm4`, for any stream. It extends both, which is why the specification of `SwPm4` is called `Pm4Spec`. |
| `EngineSelect` | five handlers that select banks or halt engines | Each select, access and restore is an action of its own; a write to the gate takes in any subset of the banks it reaches. |
| `EngineSelect_proof` | | Theorems about `EngineSelect` for any number of IRPs. |
| `WddmAdapter` | the life of the miniport | One action per callback, both of those that stop among them; bring-up, memory and mode sets are operators on records, so a callback that calls several is one step with all their failures. Two history variables: `kept` is what StopDeviceAndReleasePostDisplayOwnership left and nobody has taken over yet, `lost` what else lost its last pointer. |
| `WddmInterrupt` | interrupts of the miniport | Hardware, interrupt routine, DPC and one callback of dxgkrnl, interleaved at every register write and field another one reads. `WriteEntry` is the hardware. Pointers count entries. |
| `WddmInterrupt_proof` | | Theorems about `WddmInterrupt`. |
| `VidMem` | `ALLOC_VIDMEM`, `FREE_VIDMEM`, the MDL table, the buffers of RADV and the heaps of the D3D12 driver | A process has several threads. An allocation is two actions: `AllocPages` in the driver, and `Create`, which enters the pages and gives the handle to a buffer; RADV's counters are read and written in two more, `ReadCounter` and `WriteCounter`, and `torn` notes an update that was overwritten. `Exit` is the end of a process, of which the driver is not told. |
| `Memory_proof` | | Theorems about the two modules that own memory and count it, `WddmAdapter` and `VidMem`; they share the lemmas about sums. It extends both, which is why the specification of `VidMem` is `VMSpec`. |
| `IcdQueue` | devices, command buffers, `vkQueueSubmit`, `vkCreateFence` | A submit is as many actions as it reads and writes globals and sends batches. A dword is named by the entry of the submit that holds it, its place and its command buffer, so that a lost, repeated or misplaced one shows. |
| `IcdMemory` | `vkAllocateMemory`, `vkFreeMemory` | The two reads of the unlocked counter and its write are actions of their own. |
| `VulkanIcd` | both together | A thread is in one call at a time; `Call` counts them. |
| `VulkanIcd_proof` | | Theorems about the memory objects, the fence numbers and the batches of `VulkanIcd`. |

Module `MCx` instantiates `x` for TLC: symmetry sets, and for `SwPm4` and
`WddmAdapter` the inputs. A definition whose comment begins "Without", "With"
or "Variant" is a plausible mistake: nothing uses it, and putting it in the
place of the definition that follows breaks a property, which shows that the
property says something about that code.

## 3. Runs that pass

State counts are of distinct states (modulo symmetry where it is used).

| Run | Bounds | States | What it shows |
|---|---|---|---|
| `init` | 2 IRPs, 3 BAR addresses, 2 PSP addresses | 111 190 | Whatever a second IRP does in the unlocked window of a full INIT: `TypeOK`, `NoSelfDeadlock`, `OneFullInit`, `WindowMapping`, `PublishedIsMapped` (which includes `NoMappingLeak`), `RingExcludesInit`; and `BusyEnds`. TLC's deadlock check is on. |
| `smu_service` | 2 IRPs, 4 messages, 2 polls | 271 273 | Handlers that take the mutex and senders that wait: `PortPaired`, `OwnAnswer`, the refinement `IsService`, and `HandlersEnd` with an SMU that may be dead. |
| `smu_alone` | 1 IRP, all 9 handlers, 5 messages | 2 713 034 | What the handlers without a mutex rely on: alone, an overrun of a queue needs an earlier time-out and never happens on queue 3 (`OverrunNeedsTimeout`). |
| `psp_ring` | 2 IRPs, 2 slots, 3 commands, 2 ring and 2 staging pages | 1 094 349 | With every wait able to time out and every frame able to run late: what the PSP may still read is not freed (`PspReadsLive`), and each command runs once and answers its own caller unless a wait has timed out (`CommandsOnce`). |
| `gfx_ring` | 2 IRPs, 4 calls, 20 dwords, 2 pages | 2 456 839 | With bring-ups and resets beside the writers and beside each other: from one write pointer to the next lie the packets of the call, whole and in order, and padding (`KickRunsOwn`); `PointersAgree`, `UnverifiedNeverKicked`; no ring is freed twice or under another's hand, and none is lost unless two bring-ups overlap (`NoRingLeak`). |
| `sw_pm4` | 2 packets of 39, cut anywhere, 2 indirect buffers, depth 3, 3 sizes of the mapping | 442 611 | `StaysInside` (reads inside the buffer, registers inside what is mapped, apart from `DISPATCH_DIRECT`), `MovesOwned`, `NothingMisread` and `Ends`. |
| `engine_select` | 3 IRPs, 5 handlers | 266 106 | `LiveStateRestored`, `HandlersHold`, `ProbeTellsTruth`, whichever writes to the gates are refused. |
| `wddm_adapter` | 1 context, 1 slot, 2 allocations, 4 blocks, 2 displays | 371 354 | Any order of start, both stops, reset, removal and their failures: `RingsOwned`, `StoppedHoldsNothing`, `VramAccounted`, `MmioIsBar5`, `ModeSetsRight`, `FbWritesInside`. |
| `wddm_interrupt` | ring of 3, 5 entries per ring | 1 348 154 | `OnceInOrder` over wraps, arrivals and restarts, `WritesHitRing`, and `LineDrops`: no interrupt storm, but where the code has one (section 4). |
| `vidmem` | 2 threads of RADV and 1 of the D3D12 driver, 3 page lists, 2 buffers, table of 2 | 1 394 344 | `TableTracks`, `BoBacked`, `Accounting` over INIT_HARDWARE, exits, unload and a full table. |
| `icd` | 2 threads, 3 kinds of submit, table of 2, 5 calls | 1 479 419 | `SubmitWhole`, `FencesNew`, `HandleNamesOwn`, with every send able to be refused. |

Why the bounds are enough to be interesting.

- `init`: three addresses let INIT_HARDWARE hold two and still be given back one
  it has just unmapped, which is how a stale pointer would go unnoticed. Two
  threads suffice for every property that speaks of two; the proofs of section 5
  remove the bound, here and for the SMU handlers that take the mutex.
- SMU: two polls tell "answered at once", "answered in time" and "late" apart;
  four messages let a late answer of one meet the next, and that one's meet a
  third. Seven like messages of the telemetry are cut to two.
- PSP: three commands over two slots wrap onto a frame that was left behind by a
  time-out.
- GFX: twenty dwords are the least in which the largest packet and its fence fit
  twice; four calls reach both kinds of wrap (before the packet, before the
  fence), and two IRPs let a bring-up meet a writer or another bring-up. Two pages
  are one for each. The driver's ring has 524 288.
- PM4: `Word` = 16 makes the sums of register offsets wrap and `Word * Word` those
  of addresses; registers are counted in dwords, and the mapping holds none of them, too few
  for a dispatch, or enough; `MaxIb`, `MaxMove` and
  `MaxDepth` are 4096, the DMA limit and 32 in the code. Every pair of packets
  meets at every cut, so each is once whole, once truncated, once preceded by a
  packet of another length.
- Miniport: sizes of displays and modes are those of the source's table divided
  by 160 and a UINT has 6 bits, so that a rectangle at 63 wraps; the order and
  the ties of the table are kept, since the loop depends on them.
- Interrupts: five entries in a ring of three wrap, and lap a driver that is
  late; the proof removes both bounds.
- Engine select: three IRPs put a handler at the mutex behind one inside it and
  beside one that takes none.
- Video memory: three page lists over two entries fill the table; two addresses
  and two processes let one address be used twice at once; two threads of one
  process suffice to lose an update. The constraint `Untorn` ends a behaviour
  there: nothing but the counters' own arithmetic reads them, and the table and
  the buffers have been explored without that.
- ICD: nine dwords per `SEND_PM4`, three of them for the fence, and draws of four:
  a batch ends inside a packet, exactly at its end, and with nothing behind it.
  Two entries fill the memory table; three addresses let one be chosen again.

## 4. A run that finds a violation, and observations

| Run | Claim | What the code does |
|---|---|---|
| `gfx_wait` | inc/amdbc250_ioctl.h:627, "Fence value to wait for" | any event ends the wait (kmd.c 3989-3992), and every `SUBMIT_COMMANDS` sets it (3953) |

Observations that no run is spent on, each seen in a model or while building
one:

- 0x900/0x901 copy the BAR5 base (kmd.c 6651) before they take the mutex (6653);
  an INIT_HARDWARE inside it may have unmapped that address. `ProxyCapture` is
  the step, and `PublishedIsMapped` speaks of a free mutex only because of it.
- kmd.c 6363-6368 takes the mutex for the SMN port because otherwise "a caller
  silently reads a different SMN address than the one it asked for"; telemetry
  (4143), `CORE_UNLOCK` (4198), `PSP_SMU_MSG` (6927) and `DreamV3SmuInitialize` use
  the same port without it. With one of them among the handlers of two threads,
  `PortPaired` fails.
- kmd.c 8247-8250: "the original value is saved and verified on the way out, and
  the whole walk is serialised"; it is saved before the mutex is taken (8280) and
  restored after it is let go (8298), so that two `WGP_BANK_PROBE`s leave a bank
  selected: `LiveStateRestored` fails when the probe is not alone.
- wddm-ps5/src/kmd/amdbc250_kmd.c 3499-3505, "copy it line-by-line", is one copy
  of `FbPitch * FbHeight` bytes (3519), whatever the pitch of the source.
- `PSP_LOAD_IP_FW` and `PSP_LOAD_TOS` free the image on time-out too (6812, 6897),
  although 9476-9480 explain for the ring why that must not be done, and take no
  mutex: `DirectIsLive` excuses a load that gave up or met another (`directRaced`).
- `DriverUnload` frees the PSP's pages without asking it (hence the exception in
  `PagesOutlivePsp`), and does not free the rings and the fence page, whose
  "single owner" hw_init.c:744 says is `HwShutdown`, which nothing calls.
- wddm-ps5/src/kmd/amdbc250_hw_init.c:383: without a fence page the ring is
  freed and `GfxRing.VirtualAddress` kept, so the next shutdown frees it again;
  `RingsOwned` excuses what follows that failure (`mem.starved`) and nothing else.
- A reset or restart sets `UsedVramBytes` to 0 under live allocations
  (amdbc250_hw_init.c:202); `VramAccounted` holds as long as none was live
  (`vram.clean`).
- kmd.c 3909-3911: "a ring that was never verified must never be kicked".
  SUBMIT_COMMANDS tests `Initialized`; SEND_PM4 tests the address only (kmd.c 5577), and
  the bring-up publishes that (hw_init.c 831) before it has written and read back
  the ring's base (875-897), with no lock. A SEND_PM4 that falls in between rings
  the doorbell of an unverified ring, or of one that is refused and freed next.
  `UnverifiedNeverKicked` and `KickRunsOwn` hold for calls no bring-up met (`req[t].met`).
- Two lazy bring-ups, or one and a reset, pass the test for a ring together. Each
  then has a ring of its own, the second is published over the first, and the
  first is lost or the hardware reads one while the driver writes the other
  (`overlapped` in `NoRingLeak` and `UnverifiedNeverKicked`). The extended order
  of initialisation loses a ring at every reset, with nobody beside it.
- `DISPATCH_DIRECT` (kmd.c 2036-2063) writes 0x80E0 to 0x80EC without
  `DreamV3SwRegRangeValid`, whose comment (1783) says what an offset outside the
  mapping does. How much is mapped is what the caller of INIT_HARDWARE said
  (5312-5329), so a smaller mapping is left by that packet and by no other:
  `dispatch` in `RegistersInBar`.
- wddm-ps5/src/kmd/amdbc250_kmd.c 3711-3749, StopDeviceAndReleasePostDisplayOwnership,
  gives the display back and releases nothing: rings, MMIO, framebuffer, contexts
  and `HardwareInitialized` stay. A StopDevice after the next start gives back what
  is still named, but a start maps BAR5 over the old mapping, and RemoveDevice
  frees the extension with the framebuffer mapped and contexts allocated.
  An acquired display of another size then is written through the old mapping:
  `PresentStaysInFb` fails after such a stop. `kept` excuses those mappings and
  contexts, and only those.
- What EXECUTE_RING_PM4 writes to MQD_BASE, PQ_BASE, PQ_CONTROL and PERSISTENT_STATE of
  the queue (kmd.c 8780-8796) is not put back when it deactivates the queue: `hqd.queue` says whose they are.
- RESET_DEVICE zeroes the driver's write pointer and not the register unless it
  gets as far as the ring (hw_init.c:602): `desync` in `GfxRing`.
- `SUBMIT_COMMANDS` does not pad when it wraps, so up to three dwords of an
  earlier lap run again; `KickRunsOwn` allows exactly those.
- `GrbmGfxIndexOffset` is set in `DdiAddDevice` only (kmd.c 736), so it is 0 here
  and `UNLOCK_40CU` selects no bank (5092-5125).
- The user-mode `SUBMIT_COMMANDS` structure and the words the handler takes out
  of it do not agree: a fence arrives as the upper half of a size.
- wddm-ps5: `KmdodMode` is to "skip ALL register writes", and Stop, Reset,
  SetPowerState and ControlInterrupt write all the same; `SubmitCommand` promises
  a notification it never makes; the doorbell and MMIO sizes survive a rebalance.
- wddm-ps5: the DPC does not look at `HardwareInitialized` again after its first
  line. A ResetDevice beside it frees the ring it reads and sets `SizeInBytes` to
  0, so that its pointer "wraps" at every entry and only `MaxEntries` may end the
  loop; the DPC then writes back a ReadPointer that is no longer the new ring's,
  and the interrupt routine, which compares ReadPointer, and the line, which
  follows IH_RB_RPTR, disagree: a storm. `raced` marks exactly this in
  `OnceInOrder`, `LimitNeverReached` and `LineDrops`; an enable without a ring
  (3455) is `blind`.
- ALLOC_VIDMEM after INIT_HARDWARE returns no handle and is in no table, so that
  nothing frees it, contrary to the comments at kmd.c:78 and 1158 ("prevent memory
  leak"); the same holds for pages allocated while the table is full.
- FREE_VIDMEM compares addresses only: a process that frees its own handle may
  free pages another process was given under the same one (`foreign`).
- The D3D12 driver frees by `IOCTL_AMDBC250_FREE_VIDMEM`, 0x80000A04
  (amdbc250_umd_v46.c:256); the driver answers 0x80000844 only (kmd.c 3826).
- `radv_bc250_bo.c` adds to and takes off its counters (107-110, 132-135) without a lock,
  though Vulkan lets threads allocate and free side by side: an update may be
  lost (`torn`).
- `radv_bc250_bo.c:135` takes the size of a virtual buffer off `allocated_gtt`,
  which never had it: `Accounting` states by how much it is short (`owed`).
- The initialiser at icd.c:63 says `fenceValue` and sets `nextGpuVa`; the first
  vkCreateDevice repairs it.
- icd.c cuts a submit of more than 58 dwords at any dword, in the middle of a
  packet too, and sends the parts as two `SEND_PM4`s.
- icd.c: vkCreateFence beside vkQueueSubmit, or two allocations at once, may hand
  out one number or one handle twice (`order.crossed`, `past.raced`); the 65th
  object gets the handle of the last entry; destroying a device closes nothing
  and clears the handle others submit through; work that cannot be sent is dropped
  with VK_SUCCESS, waits and status always succeed, and vkQueueSubmit ignores its
  fence.

## 5. Proofs

Every safety invariant and action property of section 3 has a theorem.

`DeviceInit_proof` proves, for any set of threads and addresses:
`TypeCorrect`, `DeadlockFree`, `SingleInit`, `WindowIsMapped`, `MappingsSound`
(`NoMappingLeak` and `PublishedIsMapped`), `RingsKeepOff`, and the action
property `MappingsFrozen` (no step changes a mapping during a full INIT). The
only assumption is `NullAssumption`: a null pointer is no thread and no address.

None of the properties is inductive by itself. `OneFullInit`, for one, does not
say why a second thread cannot be past the BUSY test when the first raises
`HwInitInProgress`: because that test and the raising happen under one hold of
the mutex. The invariant says what every step relies on:

- `MutexOwner`: who is between acquire and release owns the mutex, and conversely,
  so no two threads are there together. `DeadlockFree` follows at once.
- `CallerPc`: where a thread is tells which `DreamV3HwInitialize` it is in, so
  that `InWindow` changes only in `InitMarkInProgress` and `InitPublish`.
- `GuardHolds`: past the BUSY test, until release, no full INIT is in its window.
- `FlagDown`, `MmioPointer`: what the flag and the pointer are at each point
  inside the mutex - the pointer dangles at `InitForget` only - and outside.
- `Mappings`: what is mapped is what the two pointers name, and they differ; this
  is why unmapping the framebuffer does not take BAR5 along.

`InvNext` goes through the actions one by one.

`InitCountsDown` and `WaitsAreShort` are what `BusyEnds` rests on apart from fairness.
`StepsLeft` bounds what a thread still has to do by where it is; the callback of the PSP
driver, which re-enters at 0x900, comes before the reply it is needed for, so each step
lowers it, and no thread raises another's. `SomeoneRuns` is the absence of a cycle of
waiting: the owner of `DeviceMutex` does not wait (`MutexOwner`), and while
`HwInitInProgress` is up the thread that raised it is inside and not at its end.

`SmuMailbox_proof` proves, for any number of IRPs, messages and polls, and
assuming `MailboxAssumption` (Null is no thread; the handlers are among the nine;
the bounds are numbers):

- `AlonePortPaired`: the claim of kmd.c 6363-6368, under `[]UnlockedComesAlone`: a
  handler that takes no `DeviceMutex` runs while no other is inside. That covers run
  `smu_alone`, where one IRP may be any of the nine handlers, and any mixture of the two
  kinds over time; the five handlers that take the mutex need no such discipline
  (`LockedAlone`), which covers run `smu_service`. `PortInv` adds who is inside: a handler
  with the mutex owns it (`Owner`), so two inside would both own it or one of them would
  have to be alone (`OneInside`), and between the two halves of an access nobody else
  can write the index. The hypothesis is needed: with one handler
  without the mutex beside another the property fails (section 4).
- `AloneOwnAnswer` and `AloneOverrun`, under the same hypothesis: a message comes back
  with its own answer or none, except on a queue written while the SMU was at work
  on it; and that takes an earlier time-out and never happens on queue 3. `MailInv` follows a
  message through its sender: before the command is written the queue shows no
  answer (`Cleared`); afterwards the SMU has this message and its argument, or
  has answered it (`Answered`); a busy queue has a waiting caller or was left by
  one (`BusyKnown`); and queue 3 shows no answer while it is busy (`Q3Open`),
  which is what makes the wait of its sender sound.
- `AccessesCountDown`, with no hypothesis: of any of the nine handlers, beside any
  others, each half of an access lowers `Rank` - the senders left, the stage of the
  current one, the polls left of its loop, and whether the index has been written -
  and no other thread nor the SMU raises it. `CountType` is the invariant it needs: a
  thread is inside exactly while its plan has a sender, and a loop has not used up
  its polls. What goes on after a failure is never more than what was planned
  (`RestShorter`).
- `WaitingIsService`: with the two handlers of run
  `smu_service` (`Waiting`), `Spec` implements `SmuService` under the mapping
  `Service`. `ServiceInv` adds to `MailInv` what an atomic service needs: a busy
  queue holds one message with its own argument, not yet executed and posted
  nowhere else (`BusyHolds`), numbers are fresh (`Numbers`), and a sender past its
  wait has the queue to itself (`OwnsQueue`) - so `overrun` stays empty.
  `WriteCmd` is `Post`, `SmuAnswer` is `Execute`, `Response` is `Answer`, a time-out
  is `Reset`, and every other action is a stutter (`ServiceNext`).

`WddmInterrupt_proof` proves, for any size of the ring above 1 and any number of
entries (`SizeAssumption`): `EntriesInOrder` (`OnceInOrder`), `WritesInRing`
(`WritesHitRing`) and `LoopReachesPointer`: what the code calls its safety limit
never ends the DPC's loop. `OnceInOrder` speaks of counts and of one flag; what
makes it true is where things lie on a circle, so the invariant is about
distances:

- `Order`: going round from IH_RB_RPTR one meets the driver's place (`Cursor`)
  before IH_RB_WPTR, as long as the hardware has not lapped the driver. The
  lemmas `DistanceStep` and `DistanceGrow` are all the arithmetic there is.
- `Contents`: between the driver and IH_RB_WPTR lie the entries that were
  written, numbered consecutively; hence the one at `Cursor` is next (`Handled`).
- `Budget`: what the loop has done and what is left never exceed the ring.
- `Phase`, `Fresh`: which registers a callback has programmed at each step, and
  that a ring being programmed is empty; `Guarded`: `HardwareInitialized` is down
  during StartDevice, so no DPC begins there; `RaceNoted`: a DPC that does run
  beside a callback is noted in `raced`; `Blind`: the hardware is on without a
  ring only if ControlInterrupt said so.

`VulkanIcd_proof` proves `HandlesNameOwn` for any number of threads, addresses and
entries (`SlotsAssumption`, `NoneAssumption`), `FencesAscend` and `SubmitsWhole`.
`HandleNamesOwn` needs to know what an allocation under way holds: `Calls` says that its memory is in the entry it has
counted and in no other and that nobody has a handle to that entry, `Entries`
that no two entries name the same memory, `Objects` that handles of objects that
were in time are distinct, so that freeing one leaves the others alone.

`FencesAscend` (`FencesNew`) needs `QInv`, which a number itself does not show:
`Placed` says where in its submits a call is, and that a call that has sent a number
is past the submit it was for; `Begun`, that the counter is not 0 once there is a device, since the
kernel driver writes no fence 0; `Ascending`, that one thread at most is between
its read of the counter and its write, that the counter is still what it read, and
that no number as high as `Unsent` of its call has gone out. Every step of a submit
either leaves `Unsent` where it was or moves it past the number it sends
(`GoesOn`), and `CountUp` writes back no less (`CountUpInv`), because submits that were skipped or
refused count too. `CountUpByOne`, the mutant of the run, breaks that step.

`SubmitsWhole` (`SubmitWhole`) says that the dwords of the batches taken of a submit are
those of its command buffers, in order and each once, when its fence arrives. Their
sequence is never flattened: `Lists(d, S)` says it of a family `d` of sequences and a
set `S` of dwords with their order (`Before`), so that no induction over data is
needed. `Gathering` is the invariant of the loop that fills batches: the batches taken
of the submit and the one being filled (`Parts`) list what the loop has passed
(`Gathered`), none has the fence, and a batch has just been sent only if more remains,
so the last one is not empty. A chunk is what comes after all that is listed
(`ListsMore`), a batch that was sent adds an empty one (`ListsEmpty`); every
batch has room for its fence (`BatchAssumption`: the NOP and the fence fit), so
the kernel driver cuts nothing off (`BatchTaken`). `Submitted` says that submits the call is
past are whole, that nothing has been sent of later ones, and that a submit left
without a fence has an excuse. Command buffers that were submitted are not recorded
meanwhile, as Vulkan demands of the application (`Pending`).

`EngineSelect_proof` proves `DisplayRestored` (`LiveStateRestored`) and `SelectsHold`
(`HandlersHold`) for any number of IRPs and any choice of the five handlers
(`SelectAssumption`), under `ProbeComesAlone`: `WGP_BANK_PROBE`, which saves and
restores the index outside the mutex, is sent while no other handler is inside.
Section 4 says what happens without it. The argument is that at most one handler
has something of the display's in its hands (`OneAtATime`, from `MutexOwner` and
`BankProbeAlone`), so that

- `Index`, `Engines` and `Queue` say what the registers are while it does, and that
  they are the display's when nobody does;
- what a handler saves is what the display uses (`Saved`), because a save comes
  before the handler moves anything and after the last one has put it back.

`UNLOCK_40CU` and `GET_CU_STATUS` take no mutex and need no place in that argument:
their selects go to register 0 in this build.

`ProbeTruthful` proves the third, `ProbeTellsTruth`, with `UnlockComesAlone` as well:
`UNLOCK_40CU` is the one other handler that writes the gates, and takes no mutex.
A gate may refuse one write and take the next, in one bank and not in another, so
nothing can be said of what HALT_PROBE wrote; `Gates` says instead that it has
counted, of the banks it has been in (`Walked`), those whose gate is open - by its
own write or an earlier one - and that nobody closes or opens one behind it.

`Commands_proof` proves `PointersKept` (`PointersAgree`), `OnlyVerified`
(`UnverifiedNeverKicked`), `NothingLeaks` (`NoRingLeak`) and `KicksItsOwn`
(`KickRunsOwn`) for any number of IRPs and calls and any size of the ring, of the
bodies and of the fence packet (`GfxAssumption`), with nothing assumed about when
bring-ups and resets come. `KickRunsOwn` compares what the command processor will
find between two pointers with the packets of one call, at one moment; the
invariant has to say where they are from the first dword written on, and what a
bring-up without the lock can do to them:

- `LockOwner`: one thread at a time writes to the ring, so what a call has written
  stays until it kicks - unless a bring-up or reset meets the call.
- `Rings`: every bring-up under way has an allocated ring of its own, whoever else
  is bringing one up, and when the last one is done the ring that is named was
  accepted. This is the part of `NoRingLeak` that needs no excuse.
- `Unmet`: a call that no bring-up or reset has met has found a ring and still has
  it, and nobody is between publishing a ring and its verdict.
- `OneAtATime`: while no two bring-ups have overlapped, the ring that is named is
  the one being brought up or the one the hardware has, and in the classic order
  the only one.
- `Pointers`: outside the lock the two write pointers are equal (`PointersAgree`), and
  between body and doorbell the hardware's is where the call began.
- `Layout`: the body lies whole where `WithBody` says and the fence where `WithEop` does,
  and no other dword is of this call. There are three cases, as in the writers:
  straight on; wrapped before the body, behind which SEND_PM4 has padded and
  SUBMIT_COMMANDS has not; and, for the latter, padded between body and fence.
- `Numbers`: calls are numbered afresh, so a stale dword of an earlier lap is never
  one of the call that is writing.

`Keeps` is what a step of one thread leaves alone in another; `BringsDoes` and
`SubmitsMoves` say it once for the six actions of a bring-up and for the writers.

Of `SwPm4` it proves `ExecutorStaysInside` (`StaysInside`), `OnlyOwnedMoved` (`MovesOwned`)
and `OnlyPacketsRead` (`NothingMisread`) for any streams, memories, windows and limits and any size of the
mapping: whatever the caller had mapped, no packet but a `DISPATCH_DIRECT` leaves it, and
that one only if the mapping does not reach its four registers.
`NothingMisread` looks at the innermost call; the invariant `Pm4Inv` has `CallOk` for
every frame of the stack, since a caller that is interrupted in the middle of a buffer
goes on where its frame says once the nested call returns. `CallOk` also says that the
buffer is as long as the call was told, and `Loaded` what a buffer may hold; `FetchIs`
follows, that a call in its loop reads a dword it was given. Each action then shows how far its `Uses` goes: as far as
the test `Fits` at the head of the loop, or as the shortened count of a type 0. `Resolved`
is about the sum in `DreamV3SwDmaRangeResolve`: the comment at kmd.c 1869 says that
`Address < limit` makes it safe, which takes one thing more - that no window ends
within the longest move of 2^64 (`WindowAssumption`).

That the executor comes to an end is `StackBounded` and `ExecutorCountsDown`, apart from
fairness. `DepthCounted` says that the depth of a frame is what is left of `MaxDepth`
below its callers, so no more than `MaxDepth` calls are nested whatever the buffers name.
`Left` is what a call has to go, its return counted; every action raises `i` of the top
call, ends it or nests another one (`StackMoves`), and so lowers the first of the
`MaxDepth` numbers `Left(stack, k)` that it changes (`CountsDown`). That order has no
infinite descent. The least a call goes on is one dword (type 1 and 2), and a nested
call finds its caller's place already behind the packet that made it.

`PspRing_proof` proves `PspPagesLive` (`PspReadsLive`) and `CommandsRunOnce`
(`CommandsOnce`) for any number of IRPs, pages, slots and commands
(`PspAssumption`), under `OneIniter`: one IRP at most is PSP_RING_INIT, which takes
no mutex. A frame that was left behind by a time-out may run at any moment with
whatever the command page then holds, so the invariant cannot tie a frame to its
command. What it has instead:

- `Pages`: a page has one owner among the threads, and is the ring's only during
  an initialisation; so a `Free` takes nobody else's page.
- `Ring`: until the handshake is through nothing has been submitted, and then the
  PSP's ring is the driver's (`RingIsAcked`).
- `Frames`: a fence value is taken once, so the value a submission polls for is in
  the last frame only and its return means that the PSP has caught up (`~Pending`).
- `Stages`: the image the PSP has, and the one it will find, belong to a
  submission between `BuildCmd` and its fence, or to nobody (`Safe`). `Response`
  frees its image with nothing pending; a time-out frees none.
- `Direct`: without a race and without giving up, C2PMSG_36 is the image of the
  one load there is.
- `Ids`, `Answers`, `Once`: the last frame runs the command of its submission, the
  answer that comes with its fence is to that, and until a wait times out there
  is no other frame.

`Memory_proof` proves all six invariants of `WddmAdapter` for any number of contexts,
slots, allocations, blocks, displays, modes and rectangles (`AdapterAssumption`,
`DisplayAssumption`), with nothing said about the order of calls:

- `BlocksOwned` (`RingsOwned`) and `StoppedIsEmpty` (`StoppedHoldsNothing`). Bring-up is one
  operator on a record, so the proof goes through its outcomes: `Owned` holds of the
  memory before and after each, where it allows for the name that a missing
  fence page leaves behind (`starved`); `Empty` holds after every path that
  gives up. `Quiet` and `Listed` tie that to the state of the device: `HardwareInitialized`
  is up whenever there is something for a stop to give back, whichever callback
  stopped the device before, and every live context is in the table, where
  StopDevice looks for them, or among those a StopAndRelease left (`kept`).
- `Bar5IsMapped` (`MmioIsBar5`).
- `VramIsAccounted` (`VramAccounted`): `Accounted` adds that nothing is local while there is
  no video memory. The library has no theorems about sums over sets; the lemmas
  about `MapThenSumSet` (`SumsOrder`, `TotalIs`, `TotalAdds`) are derived here from its
  definition, whose recursive function takes the elements in the order of CHOOSE:
  that a sum does not depend on that order is proved by way of the smallest set
  for which it would.
- `ModesRight` (`ModeSetsRight`): `OfferedFits` says that the loop's break and its skip
  leave the modes that fit, which is where the order of the table is needed;
  `EnsureReturns` that in every sequence of callbacks the interface can see, of
  any length and cut short anywhere, sets and modes are given back one for one
  (`Round` describes those sequences; `CountStep` counts).
- `WritesInside` (`FbWritesInside`): `DrawsClipped` compares the copy of the code, with
  clips that may wrap and a test on every line's end, to the part of the rectangle
  that is on the screen; `FbWhole` says that what CommitVidPn has
  mapped since the last stop is a display's. `SystemDisplayWrite` tests every
  line's end against the size of the mapping, so its half needs no excuse.

About `VidMem` it proves `TableIsRight` (`TableTracks`) and `BuffersBacked`
(`BoBacked`) for any number of processes, addresses, page lists and buffers and any
size of the table, under `ThreadAssumption`, `MdlAssumption`, `NullAssumption` and `BytesAssumption`.
`FREE_VIDMEM` takes the first entry with an address, which need not be the caller's;
that it is, unless `foreign` is set, follows from `Named` (an entry has the address
of its pages), `Apart` (two pages of one process are not at one address) and
`OwnPages` (no two buffers have the same pages, and no call under way has a
buffer's). `Placed` says where allocated pages may be: in the table, on the way to
it, or `untracked`.

`CountersAgree` (`Accounting`) is about numbers modulo the width of a counter: `Books` says
of each RADV process that has lost no update (`torn`) that `allocated_vram` is
congruent to what its counted buffers in video memory take, and `allocated_gtt` to
what the others take less what virtual buffers took off without having added it
(`owed`), however many updates are between their read and their write. `Updates`
and `OneThing` say which buffers those are: a buffer is counted from the write of its
creation to the write of its destruction, and one thread at most is about either.
A write that finds the counter it had read keeps `Books`; one that does not sets
`torn`. `DivMod` and `ApartBy` give the arithmetic of congruences, `TakesAdds`
what one buffer more or less adds to a sum.

What is model-checked only: the liveness properties (`BusyEnds`, `HandlersEnd`,
`Ends`, `LineDrops`), which are out of the prover's reach. Of the first three the part that
is safety is proved, for every value of the constants: a measure that every step lowers
(`InitCountsDown`, `AccessesCountDown`, `ExecutorCountsDown`) and, where threads wait for
each other, that there is no cycle (`WaitsAreShort`). What is left to the runs is that the
fairness of section 6 makes the next step happen. `LineDrops` has no such measure: the
hardware may raise new causes while the interrupt routine runs.

## 6. Fairness

- `DeviceInit`: WF on what a thread does by itself in the driver (the scheduler
  runs it, the PSP driver returns from its IOCTL); SF on taking the mutex, because
  `FAST_MUTEX` waiters are woken in turn by a synchronization event and not
  passed over for ever. None on requests: nobody has to call.
- `SmuMailbox`: WF on the threads. Nothing is assumed of the SMU: `HandlersEnd`
  rests on the counted poll loops. It needs no SF for the mutex because a
  handler that has not got it is still "Idle" here.
- `SwPm4`: WF on `Pm4Next`: the loop runs.
- `WddmInterrupt`: WF on the steps of a callback that has begun (its thread
  runs), on the DPC (Windows runs a queued DPC), and on the interrupt routine
  while the line is raised (a level-triggered interrupt comes again). None on the
  hardware, on dxgkrnl's calls or on a line that is not raised.
- `PspRing`, `GfxRing`, `EngineSelect`, `WddmAdapter`, `VidMem`, `VulkanIcd`: safety
  only.

## 7. What is assumed

- `Alone` in `EngineSelect`: `WGP_BANK_PROBE` and `UNLOCK_40CU` are sent while no
  other handler is there. Nothing in the driver ensures it; `ProbeComesAlone` and
  `UnlockComesAlone` say so in the theorems. Without it `LiveStateRestored` fails.
- `HardwareInitialized` is set in `GfxRing` and `EngineSelect`, and BAR5 stays mapped:
  a ring handler that passed its test keeps off INIT_HARDWARE by the BUSY test
  (`RingExcludesInit` of `DeviceInit`).
- `Initer` in `PspRing`: one thread may create the ring. Two at once pass the
  test together (kmd.c 9043) and break `RingIsAcked`.
- The PSP writes the response before the fence, completes frames in order, and
  acknowledges a ring by bit 31; the SMU answers a command once. Both may be
  arbitrarily late or never answer. The PSP proxy driver answers GET_GPU_INFO by
  one call of 0x900.
- dxgkrnl serialises the callbacks that start, stop, reset and remove an adapter
  against all others, and makes no use of the contexts of a stopped one.
- Interrupts: the INF of wddm-ps5 asks for no message-signalled interrupts, so
  the line is level triggered and shared, and the interrupt routine may run at
  any time. dxgkrnl starts a device only when no DPC of an earlier start runs.
  The enable bit of IH_CNTL gates the hardware's writes. Kinds of entries are
  not told apart.
- `StreamAssumption` of `SwPm4`: a stream is any sequence of dwords, with the places
  where packets begin if they are taken one after the other; the memory behind an
  indirect buffer's address has at least the 4096 dwords that may be run of it, as
  `MmMapIoSpace` maps what it is asked for or fails. `WindowAssumption`: no ring and no
  fence page ends within `MaxMove` of 2^64; physical addresses have less than 52 bits.
- ICD: an application does not record a command buffer that is submitted or
  submit one that is being recorded; a refused `SEND_PM4` took nothing; vkQueueSubmit
  loads its fence counter once, as /O2 does; fence numbers do not pass 2^32;
  creating a device tests and publishes the handle in one step; a null and an
  invalid handle are the same.
- ICD (`SubmitsAssumption`): what a call submits is a sequence, each entry a sequence of
  command buffers or of another type.
- Miniport (`AdapterAssumption`, `DisplayAssumption`): there are more blocks than the device
  names at once, because memory that runs out is one of the outcomes of a
  bring-up and not a state of the pool; the lines of the firmware's display hold
  its pixels (`pitch` at least four times the width, which the code does not test); a display and a
  picture together measure less than 2^32; the table of modes ascends, as the
  source's does.
- Video memory (`ThreadAssumption`, `BytesAssumption`): a thread belongs to one process, a
  process is of one client; there are finitely many buffers, sizes are numbers of
  bytes, the counters have a width. A process in ALLOC_VIDMEM does not exit before it returns; a
  driver is unloaded when no handle to it is open.
- Single accesses of a register, a pointer or a flag are atomic.
- `INIT_HARDWARE` in `SmuMailbox` stands for its SMU step alone; in `DeviceInit`
  for all but.

## 8. Not modelled

`PROJECT.json` lists each part with its reason. In short: parts that are planned
(section 9); parts that cannot run in this build (the main driver's WDDM
callbacks, ISR and DPC; the page tables of vm.c, which nothing calls); sequences
of register writes whose correctness is a fact about the chip (firmware load,
RLC, golden registers, HDP, KIQ scripts); IOCTLs that make one access and keep
nothing (CMOS, physical memory, port diagnostics); parsers of one layout
(VBIOS); stubs (user-mode driver of wddm-ps5); tools, vendored and generated
code. Within the modelled components: whitelists and argument ranges of the SMU
handlers, `PSP_LOAD_TOS` (same shape as the direct load), the arithmetic of
`SETUP_TMR`, the queues and capability queries of the miniport, its SubmitCommand
and QueryCurrentFence (a counter under a spin lock), the mapping IOCTLs, the
packet writers of the ICD other than a draw, its swap chain, pipelines and
descriptors, and its INIT_HARDWARE on first use.

Smaller omissions, by module:

- `GfxRing`: the kick through the HQD of the KIQ (kmd.c 2178-2185, 5618-5626) and
  bring-up through the KIQ, which a flag that nothing sets here would select.
  The failure of `InitCommandProcessor` (hw_init.c 920-928) is left out because
  that function is a stub that returns success, and the test of the write pointer
  at kmd.c 3928 because it cannot be true.
- `SmuMailbox`: after a failure queues 2 and 3 read the argument once more and
  return the failure all the same; the write path of `PCI_SMN_ACCESS` (kmd.c 6375-6385) is a read
  here: it makes the same two accesses, to a register that is not the mailbox's.
- `VidMem`: the driver may give fewer bytes than it was asked for (256 MB at most,
  kmd.c:102, and as many pages as there are, 114) and does not say so.
- `EngineSelect`: of the HQD the active flag and whose queue it has, not the
  values.
- `WddmAdapter`: the order of the steps inside one callback, which dxgkrnl
  serialises.

Of the lines counted as implementation, some 24 000 are generated firmware images
(`firmware_data.h`) and some 44 000 are test tools and stubs that call the driver
from outside; both are left out on purpose, so the mapped lines (about 6 000) are
to be read against the rest.

Hazards of the code that no property covers: the extended order of
initialisation allocates a ring over the one there is (hw_init_extended.c:187);
`SIGNAL_FENCE` (kmd.c 4002)
sets the value and not the event; a message the SMU refused leaves an error in
the response of queue 0, which `SmuWaitReady` (psp.c 165) waits to become OK, so
that later messages of that sender time out until another sender clears it;
`WRITE_PHYSICAL_MEM`, "copies data, unmaps" (kmd.c 6540), makes a mapping that no
path unmaps.

## 9. Plan

Done, in this order: `DeviceInit` and its proof (every other part runs inside
its mapping and mutex), `SmuMailbox` with `SmuService` and their proofs, `PspRing`,
`EngineSelect`, `GfxRing`, `SwPm4`, `WddmAdapter`; then `WddmInterrupt` and its proof,
`VidMem`, `IcdQueue`, `IcdMemory` and `VulkanIcd` with a proof, and the proofs of
`EngineSelect`, `PspRing`, `GfxRing`, `SwPm4` and of the two modules that own memory.

Left, to extend the model:

1. `DriverResources`: IH ring, SDMA rings and fence page of the main driver over
   init, failed init, reset and the extended order of initialisation.
2. RADV's command streams and contexts over an abstract queue that `GfxRing`
   implements, as `SmuMailbox` implements `SmuService`; `ctx_wait_idle` relies on
   `WAIT_FENCE`, which `gfx_wait` shows to end too early.
3. The user-mode sender of the control panel beside the driver's in `SmuMailbox`.
4. `GpuVm`, if the page tables of vm.c ever get a caller: `DreamV3VmUnmapRange`
   skips indices from 16 on, and a roll-back unmaps what an earlier mapping of the
   range had put there.

To prove more: of the properties as they stand none is left but the liveness ones.
