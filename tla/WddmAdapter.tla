----------------------------- MODULE WddmAdapter -----------------------------
(***************************************************************************)
(* The display miniport of wddm-ps5: what it owns between AddDevice and    *)
(* RemoveDevice.  It maps BARs and the firmware's framebuffer, allocates   *)
(* rings and a fence page, keeps a table of contexts and a list of         *)
(* allocations, and offers display modes; StopDevice and RemoveDevice have *)
(* to give back what every path of the others has taken.                   *)
(*                                                                         *)
(* One action is one callback.  dxgkrnl calls those of one adapter that    *)
(* start, stop, reset or remove it one at a time, and no other meanwhile;  *)
(* it stops what it has started before it removes it, by StopDevice or by  *)
(* StopDeviceAndReleasePostDisplayOwnership, which gives nothing back, and *)
(* uses no context or mode of a device it has stopped.                     *)
(***************************************************************************)
EXTENDS Integers, Sequences, FiniteSets, FiniteSetsExt, SequencesExt

CONSTANTS
  Ctx,        \* context objects of the pool
  Slots,      \* entries of the Contexts table
  Alloc,      \* allocation objects of the pool
  Sizes,      \* sizes an allocation is asked for
  Vram,       \* dedicated video memory
  Page,       \* contiguous blocks
  Lists,      \* the memory resources PnP may assign
  Bar5,       \* AMDBC250_BAR5_MMIO_PHYSICAL_BASE
  Displays,   \* POST displays: [w, h, pitch, base]
  Modes,      \* the table of EnsureSourceModeSet
  SafeMode,   \* the size without a POST display
  MaxFbBytes, \* AMDBC250_MAX_FB_MAP_BYTES
  Wrap,       \* 2^32: arithmetic of UINT is modulo Wrap
  Rects,      \* [x, y, w, h] of SystemDisplayWrite
  GfxFails,   \* how Bc250HwInitGfxRing may fail
  None        \* NULL

ASSUME AdapterAssumption ==
  /\ Slots \in Nat \ {0}
  /\ Sizes \subseteq Nat /\ Vram \in Nat /\ IsFiniteSet(Alloc)
  /\ MaxFbBytes \in Nat /\ Wrap \in Nat \ {0}
  /\ GfxFails \subseteq {"ring", "fence", "handshake"}
  /\ None \notin Ctx \cup Page
  \* Memory that runs out is a failure named by the outcome.
  /\ Page # {} /\ \A a, b, c \in Page : Page # {a, b, c}
  /\ \A l \in Lists : None \notin ToSet(l)

\* A UINT is below Wrap, and so is what a display and a picture measure together.
\* The lines of a display hold its pixels, of 4 bytes each; the table of modes
\* ascends by width, and by height among equal widths.
ASSUME DisplayAssumption ==
  LET UInt == 0..Wrap - 1 IN
  /\ \A d \in Displays : {d.w, d.h, d.pitch} \subseteq UInt /\ 4 * d.w <= d.pitch
  /\ Rects \subseteq [x : UInt, y : UInt, w : UInt, h : UInt]
  /\ \A d \in Displays, r \in Rects : d.w + r.w <= Wrap /\ d.h + r.h <= Wrap
  /\ MaxFbBytes < 4 * Wrap
  /\ Modes \in Seq([w : Nat, h : Nat]) /\ SafeMode \in [w : Nat, h : Nat]
  /\ \A i, j \in DOMAIN Modes : i < j =>
       \/ Modes[i].w < Modes[j].w
       \/ Modes[i].w = Modes[j].w /\ Modes[i].h <= Modes[j].h

VARIABLES
  pnp,    \* what dxgkrnl has done: "absent", "added", "started", "stopped",
          \* "released"
  bus,    \* the resources of this start
  hw,     \* HardwareInitialized
  bar,    \* [mmio, bell]: physical base, None while the size is 0
  mapped, \* what is mapped: "mmio", "bell", "fb" (FbVirtualBase, FbMapped)
  mem,    \* [ptr, init, live, wild, starved]: rings and fence page, see Free;
          \* wild and starved are history
  fb,     \* [info, size]: the POST display; FbSize
  vram,   \* [total, used, clean]: clean is history, see VramAccounted
  allocs, \* AllocationList: [size, local], size 0 for an object not in use
  table,  \* Contexts
  num,    \* NumContexts
  liveCtx,\* contexts allocated and not freed
  kept,   \* history, [maps, ctx]: what a StopAndRelease left and nobody has
          \* given back since: mappings that have their pointer still, contexts
  lost    \* history: other mappings that no pointer names any more

vars == <<pnp, bus, hw, bar, mapped, mem, fb, vram, allocs, table, num, liveCtx,
          kept, lost>>
past == <<kept, lost>>
memory == <<allocs, table, num, liveCtx>>

Rings == {"gfx", "sdma", "ih"}
NoDisplay == [w |-> 0, h |-> 0, pitch |-> 0, base |-> None]
Unused == [size |-> 0, local |-> FALSE]
NoMem == [ptr |-> [p \in Rings \cup {"fence"} |-> None], init |-> [r \in Rings |-> FALSE],
          live |-> {}, wild |-> FALSE, starved |-> FALSE]
Fresh == [bar |-> [mmio |-> None, bell |-> None],
          fb |-> [info |-> NoDisplay, size |-> 0],
          vram |-> [total |-> 0, used |-> 0, clean |-> TRUE],
          table |-> [s \in 1..Slots |-> None]]

Init ==
  /\ pnp = "absent" /\ bus = <<>> /\ hw = FALSE
  /\ bar = Fresh.bar /\ mapped = {} /\ mem = NoMem
  /\ fb = Fresh.fb /\ vram = Fresh.vram
  /\ allocs = [a \in Alloc |-> Unused]
  /\ table = Fresh.table /\ num = 0 /\ liveCtx = {}
  /\ kept = [maps |-> {}, ctx |-> {}] /\ lost = {}

----------------------------------------------------------------------------
(* Contiguous memory: operators on mem.                                    *)

\* The block ptr names is freed; wild records the freeing of one that is not
\* allocated, other than one that the failure of a fence page has left.
Free(m, p) ==
  IF m.ptr[p] = None THEN m
  ELSE [m EXCEPT !.ptr[p] = None, !.live = @ \ {m.ptr[p]},
                 !.wild = @ \/ (~m.starved /\ m.ptr[p] \notin m.live)]

\* A block is allocated, and ptr names it.
Allocate(m, p) ==
  LET b == CHOOSE b \in Page : b \notin m.live
  IN [m EXCEPT !.ptr[p] = b, !.live = @ \cup {b}]

\* Variant: the fence page is forgotten.
HwShutdownKeepsFence(m) ==
  [Free(Free(Free(m, "gfx"), "sdma"), "ih") EXCEPT !.init = [r \in Rings |-> FALSE], !.starved = FALSE]

HwShutdown(m) ==
  [Free(Free(Free(Free(m, "gfx"), "sdma"), "ih"), "fence")
     EXCEPT !.init = [r \in Rings |-> FALSE], !.starved = FALSE]

\* InitIhRing and InitSdmaRing overwrite what the pointer was.
InitRing(m, r, fails) ==
  IF fails THEN m ELSE [Allocate(m, r) EXCEPT !.init[r] = TRUE]

\* Variant: the time-out frees the ring and keeps its address.
InitGfxRingKeepsAddress(m, fail) ==
  LET ring == Allocate(m, "gfx")
      both == Allocate(ring, "fence")
  IN CASE fail = "ring" -> m
       [] fail = "handshake" ->
            [Free(Free(both, "fence"), "gfx") EXCEPT !.ptr["gfx"] = ring.ptr["gfx"]]
       [] OTHER -> [both EXCEPT !.init["gfx"] = TRUE]

\* Without a fence page the ring is freed and its address kept; a handshake
\* that times out gives both back.
InitGfxRing(m, fail) ==
  LET ring == [Allocate(m, "gfx") EXCEPT !.init["gfx"] = FALSE]
      both == Allocate(ring, "fence")
  IN CASE fail = "ring" -> m
       [] fail = "fence" -> [Free([ring EXCEPT !.starved = TRUE], "gfx")
                               EXCEPT !.ptr["gfx"] = ring.ptr["gfx"]]
       [] fail = "handshake" -> Free(Free(both, "fence"), "gfx")
       [] OTHER -> [both EXCEPT !.init["gfx"] = TRUE]

\* What may go wrong in HwInitialize, and KmdodMode, which is read each time.
Outcomes == [kmdod : {TRUE}, ih : {FALSE}, gfx : {"none"}, sdma : {FALSE}]
       \cup [kmdod : {FALSE}, ih : BOOLEAN, gfx : {"none"} \cup GfxFails, sdma : BOOLEAN]

HwInitMem(m, o) ==
  IF o.kmdod THEN m
  ELSE LET clean == IF \E r \in Rings : m.init[r] THEN HwShutdown(m) ELSE m
       IN InitRing(InitGfxRing(InitRing(clean, "ih", o.ih), o.gfx), "sdma", o.sdma)

Local(as) == {a \in Alloc : as[a].local}
VramInUse(as) == MapThenSumSet(LAMBDA a : as[a].size, Local(as))

HwInitVram(v, o) ==
  IF o.kmdod THEN v
  ELSE [total |-> Vram, used |-> 0, clean |-> v.clean /\ Local(allocs) = {}]

----------------------------------------------------------------------------
(* Start, stop, reset, remove.                                             *)

AddDevice ==
  /\ pnp = "absent"
  /\ pnp' = "added"
  /\ UNCHANGED <<bus, hw, bar, mapped, mem, fb, vram, memory, past>>

\* Variant: a base that is known is kept.
ParseResourcesOnce(list) ==
  IF bar.mmio # None \/ list = <<>> THEN bar
  ELSE IF Bar5 \in ToSet(list) THEN [bar EXCEPT !.mmio = Bar5]
  ELSE [mmio |-> list[1], bell |-> IF Len(list) > 1 THEN list[2] ELSE bar.bell]

\* BAR5 if it is there, and else, while no base is known from an earlier
\* start, the first memory range and the second.
ParseResources(list) ==
  IF Bar5 \in ToSet(list) THEN [bar EXCEPT !.mmio = Bar5]
  ELSE IF bar.mmio # None \/ list = <<>> THEN bar
  ELSE [mmio |-> list[1],
        bell |-> IF bar.bell = None /\ Len(list) > 1 THEN list[2] ELSE bar.bell]

AcquirePostDisplay(d) ==
  IF d = None THEN fb
  ELSE [fb EXCEPT !.info = d]

MapDoorbell(b, fails) ==
  IF b.bell # None /\ fails THEN [b EXCEPT !.bell = None] ELSE b

\* Pointers to mappings are overwritten, or freed with the extension.
Forget(maps) ==
  /\ lost' = lost \cup ((maps \cap mapped) \ kept.maps)
  /\ kept' = [kept EXCEPT !.maps = @ \ maps]

\* StartDevice with MMIO mapped, over what may be mapped already.
\* Bc250HwInitialize reports failure only without MMIO, so the branch that
\* unmaps again is never taken.
StartFull ==
  \E o \in Outcomes :
    /\ mem' = HwInitMem(mem, o)
    /\ vram' = HwInitVram(vram, o)
    /\ \E list \in Lists, d \in Displays \cup {None}, bellFails \in BOOLEAN :
         LET known == ParseResources(list)
             b == MapDoorbell(known, bellFails) IN
         /\ b.mmio # None /\ (bellFails => known.bell # None)
         /\ bus' = list
         /\ bar' = b
         /\ mapped' = (mapped \cap {"fb"}) \cup {"mmio"} \cup (IF b.bell = None THEN {} ELSE {"bell"})
         /\ Forget({"mmio", "bell"})
         /\ fb' = AcquirePostDisplay(d)

\* CompatibilityStart: no device information, no resources, or no mapping.
StartCompatible ==
  \E list \in Lists :
    /\ bus' = list
    /\ \/ UNCHANGED <<bar, mapped, past>>
       \/ /\ bar' = ParseResources(list) /\ bar'.mmio # None
          /\ mapped' = mapped \ {"mmio"} /\ Forget({"mmio"})
    /\ vram' = IF vram.total = 0 THEN [vram EXCEPT !.total = Vram, !.used = 0] ELSE vram
    /\ UNCHANGED <<mem, fb>>

StartDevice ==
  /\ pnp \in {"added", "stopped", "released"}
  /\ StartFull \/ StartCompatible
  /\ pnp' = "started"
  /\ hw' = TRUE
  /\ UNCHANGED memory

\* Variant: the framebuffer stays mapped.
StopDeviceKeepsFb ==
  /\ pnp = "started"
  /\ pnp' = "stopped"
  /\ mem' = IF hw THEN HwShutdown(mem) ELSE mem
  /\ hw' = FALSE
  /\ table' = Fresh.table /\ num' = 0
  /\ liveCtx' = liveCtx \ ToSet(table)
  /\ mapped' = mapped \cap {"fb"} /\ bus' = <<>>
  /\ kept' = [maps |-> kept.maps \cap {"fb"}, ctx |-> kept.ctx \ ToSet(table)]
  /\ UNCHANGED <<bar, fb, vram, allocs, lost>>

StopDevice ==
  /\ pnp = "started"
  /\ pnp' = "stopped"
  /\ mem' = IF hw THEN HwShutdown(mem) ELSE mem
  /\ hw' = FALSE
  /\ table' = Fresh.table /\ num' = 0
  /\ liveCtx' = liveCtx \ ToSet(table)
  /\ mapped' = {} /\ bus' = <<>>
  /\ kept' = [maps |-> {}, ctx |-> kept.ctx \ ToSet(table)]
  /\ UNCHANGED <<bar, fb, vram, allocs, lost>>

\* StopDeviceAndReleasePostDisplayOwnership, in place of StopDevice: it only
\* reports the display.  All that there was stays.
StopAndRelease ==
  /\ pnp = "started"
  /\ pnp' = "released"
  /\ bus' = <<>>
  /\ kept' = [maps |-> mapped, ctx |-> liveCtx]
  /\ UNCHANGED <<hw, bar, mapped, mem, fb, vram, memory, lost>>

\* The extension goes with all it remembers.  The framebuffer and the
\* contexts are StopDevice's to give back.
RemoveDevice ==
  /\ pnp \in {"added", "stopped", "released"}
  /\ pnp' = "absent"
  /\ allocs' = [a \in Alloc |-> Unused]
  /\ mem' = [IF hw THEN HwShutdown(mem) ELSE mem
               EXCEPT !.ptr = NoMem.ptr, !.init = NoMem.init]
  /\ hw' = FALSE
  /\ lost' = lost \cup ((mapped \cap {"fb"}) \ kept.maps)
  /\ kept' = [kept EXCEPT !.maps = {}]
  /\ mapped' = {} /\ bus' = <<>>
  /\ bar' = Fresh.bar /\ fb' = Fresh.fb /\ vram' = Fresh.vram
  /\ table' = Fresh.table /\ num' = 0
  /\ UNCHANGED liveCtx

\* ResetDevice: HwReset shuts down and brings up, if MMIO is mapped.
ResetDevice ==
  /\ pnp = "started" /\ hw /\ "mmio" \in mapped
  /\ \E o \in Outcomes :
       /\ mem' = HwInitMem(HwShutdown(mem), o)
       /\ vram' = HwInitVram(vram, o)
  /\ UNCHANGED <<pnp, bus, hw, bar, mapped, fb, memory, past>>

----------------------------------------------------------------------------
(* Contexts.  CreateDevice and CreateContext fill the same table, and      *)
(* DestroyContext is DestroyDevice.                                        *)

FreeSlots == {s \in 1..Slots : table[s] = None}

CreateContext ==
  /\ pnp = "started"
  /\ \E c \in Ctx \ liveCtx :
       /\ FreeSlots # {}
       /\ liveCtx' = liveCtx \cup {c}
       /\ table' = [table EXCEPT ![Min(FreeSlots)] = c]
       /\ num' = num + 1
  /\ UNCHANGED <<pnp, bus, hw, bar, mapped, mem, fb, vram, allocs, past>>

DestroyContext ==
  /\ pnp = "started"
  /\ \E c \in liveCtx \ kept.ctx :
       /\ table' = [s \in 1..Slots |-> IF table[s] = c THEN None ELSE table[s]]
       /\ num' = IF c \in ToSet(table) /\ num > 0 THEN num - 1 ELSE num
       /\ liveCtx' = liveCtx \ {c}
  /\ UNCHANGED <<pnp, bus, hw, bar, mapped, mem, fb, vram, allocs, past>>

----------------------------------------------------------------------------
(* Allocations: operators on [vram, allocs].                               *)

\* In video memory if it fits, in the system's otherwise.
Place(v, as, a, size) ==
  LET bytes == IF size = 0 THEN 1 ELSE size  \* PAGE_SIZE
      fits == v.used < v.total /\ bytes <= v.total - v.used
  IN [vram |-> IF fits THEN [v EXCEPT !.used = @ + bytes] ELSE v,
      allocs |-> [as EXCEPT ![a] = [size |-> bytes, local |-> fits]]]

\* Variant: the video memory is not given back.
DiscardKeepsCount(v, as, a) == [vram |-> v, allocs |-> [as EXCEPT ![a] = Unused]]

\* DestroyAllocation, and the rollback of CreateAllocation.
Discard(v, as, a) ==
  [vram |-> IF as[a].local /\ v.used >= as[a].size
            THEN [v EXCEPT !.used = @ - as[a].size] ELSE v,
   allocs |-> [as EXCEPT ![a] = Unused]]

FreeAllocs == {a \in Alloc : allocs[a] = Unused}

\* One or two allocations in a call; the pool may fail at the second, which
\* takes the first back.
CreateAllocation ==
  /\ pnp = "started"
  /\ \E a \in FreeAllocs, s \in Sizes :
       LET one == Place(vram, allocs, a, s) IN
       \/ vram' = one.vram /\ allocs' = one.allocs
       \/ \E b \in FreeAllocs \ {a}, t \in Sizes :
            LET two == Place(one.vram, one.allocs, b, t)
            IN vram' = two.vram /\ allocs' = two.allocs
       \/ LET back == Discard(one.vram, one.allocs, a)
          IN vram' = back.vram /\ allocs' = back.allocs
  /\ UNCHANGED <<pnp, bus, hw, bar, mapped, mem, fb, table, num, liveCtx, past>>

DestroyAllocation ==
  /\ pnp = "started"
  /\ \E a \in Alloc \ FreeAllocs :
       LET rest == Discard(vram, allocs, a)
       IN vram' = rest.vram /\ allocs' = rest.allocs
  /\ UNCHANGED <<pnp, bus, hw, bar, mapped, mem, fb, table, num, liveCtx, past>>

----------------------------------------------------------------------------
(* Display modes: EnumVidPnCofuncModality changes no state of the driver, *)
(* and its mode sets are operators on it.                                  *)

Size == [w |-> IF fb.info.w # 0 THEN fb.info.w ELSE SafeMode.w,
         h |-> IF fb.info.h # 0 THEN fb.info.h ELSE SafeMode.h]

\* Variant: a mode that is too high ends the loop as one too wide does.
EndsAtHeight(m) == m.w > Size.w \/ m.h > Size.h

\* The loop over the table: where it breaks, and what it skips before.
Ends(m) == m.w > Size.w \/ (m.w = Size.w /\ m.h > Size.h)
Skips(m) == m.w < Size.w /\ m.h > Size.h
Offered == {Modes[i] : i \in {i \in DOMAIN Modes :
                                /\ \A j \in 1..i : ~Ends(Modes[j])
                                /\ ~Skips(Modes[i])}}

\* EnsureSourceModeSet and EnsureTargetModeSet: the callbacks they make to
\* fill in n modes.  What was there is acquired to see whether a mode of it
\* is pinned; fail names the callback that fails, the k-th of its kind.
Found == {"none", "unpinned", "pinned"}
Fails(n) == {<<"create", 1>>, <<"assign", 1>>, <<"never", 1>>}
       \cup ({"mode", "add"} \X (1..n))
Fill(k) == [i \in 1..2 * k |-> IF i % 2 = 1 THEN "createMode" ELSE "addMode"]
Look(found) ==
  CASE found = "none" -> <<>>
    [] found = "unpinned" -> <<"acquireSet", "releaseSet">>
    [] OTHER -> <<"acquireSet", "acquirePin", "releaseMode", "releaseSet">>
Build(fail, n) ==
  CASE fail[1] = "create" -> <<>>
    [] fail[1] = "mode" -> <<"createSet">> \o Fill(fail[2] - 1) \o <<"releaseSet">>
    [] fail[1] = "add" -> <<"createSet">> \o Fill(fail[2] - 1)
                            \o <<"createMode", "releaseMode", "releaseSet">>
    [] fail[1] = "assign" -> <<"createSet">> \o Fill(n) \o <<"releaseSet">>
    [] OTHER -> <<"createSet">> \o Fill(n) \o <<"assignSet">>
EnsureModeSet(found, fail, n) ==
  IF found = "pinned" THEN Look(found) ELSE Look(found) \o Build(fail, n)

\* What is out after the first i calls.  A set or mode is handed out by acquire
\* and create, and goes back by release or by becoming part of its owner.
Count(calls, i, kinds) == Cardinality({j \in 1..i : calls[j] \in kinds})
SetsOut(calls, i) == Count(calls, i, {"acquireSet", "createSet"})
                       - Count(calls, i, {"releaseSet", "assignSet"})
ModesOut(calls, i) == Count(calls, i, {"acquirePin", "createMode"})
                        - Count(calls, i, {"releaseMode", "addMode"})

FbBytes == fb.info.pitch * fb.info.h

\* CommitVidPn maps the framebuffer when it is first needed; that may fail.
CommitVidPn ==
  /\ pnp = "started"
  /\ "fb" \notin mapped /\ fb.info.base # None /\ fb.info.w > 0 /\ fb.info.h > 0
  /\ FbBytes > 0 /\ FbBytes <= MaxFbBytes
  /\ fb' = [fb EXCEPT !.size = FbBytes]
  /\ mapped' \in {mapped, mapped \cup {"fb"}}
  /\ UNCHANGED <<pnp, bus, hw, bar, mem, vram, memory, past>>

----------------------------------------------------------------------------
(* Drawing changes no state of the driver: operators on it.                *)

\* Present copies what the screen takes in one piece.
PresentBytes == FbBytes

\* SystemDisplayWrite: the pixels it writes, and its clipping.
Clip(at, n, size) == IF (at + n) % Wrap > size THEN (size - at) % Wrap ELSE n
SystemDisplayWrite(r) ==
  LET copyX == Clip(r.x, r.w, fb.info.w)
      copyY == Clip(r.y, r.h, fb.info.h)
      end(n) == (r.y + n) * fb.info.pitch + r.x * 4 + copyX * 4
      lines == {n \in 0..copyY - 1 : \A k \in 0..n : end(k) <= fb.size}
  IN {<<r.x + i, r.y + n>> : i \in 0..copyX - 1, n \in lines}

Next ==
  \/ AddDevice \/ StartDevice \/ StopDevice \/ StopAndRelease \/ RemoveDevice \/ ResetDevice
  \/ CreateContext \/ DestroyContext
  \/ CreateAllocation \/ DestroyAllocation
  \/ CommitVidPn

Spec == Init /\ [][Next]_vars

----------------------------------------------------------------------------
(* Properties.                                                             *)

\* Every block that is allocated is one the extension names, and an initialised
\* ring is backed by one.  No block is freed twice, and none is named by two
\* rings or after it was freed: whatever fails in bring-up, however often the
\* device is reset or restarted.  One failure is the exception, that of the
\* fence page: it leaves the address of the GFX ring it has freed, until the
\* next HwShutdown frees that again.
RingsOwned ==
  LET named == {p \in DOMAIN mem.ptr : mem.ptr[p] # None} IN
  /\ mem.live \subseteq {mem.ptr[p] : p \in named}
  /\ \A r \in Rings : mem.init[r] => mem.ptr[r] # None
  /\ ~mem.wild
  /\ ~mem.starved =>
       /\ {mem.ptr[p] : p \in named} \subseteq mem.live
       /\ \A p, q \in named : mem.ptr[p] = mem.ptr[q] => p = q

\* After StopDevice or RemoveDevice no block and no mapping is held, and no
\* context - whatever a StopAndRelease left before a start, unless that start
\* or a RemoveDevice let go of the last pointer to it.  Nothing else ever loses
\* its last pointer.
StoppedHoldsNothing ==
  /\ pnp \in {"absent", "added", "stopped"} =>
       mem.live = {} /\ mapped = {} /\ liveCtx \subseteq kept.ctx
  /\ lost = {}

\* UsedVramBytes is what the allocations placed in video memory take, as long
\* as the GPU has not been brought up again under them: HwInitialize sets it
\* to zero then.
VramAccounted == vram.clean => vram.used = VramInUse(allocs)

\* If BAR5 is among the resources of this start, it is what this start has
\* mapped, even where an earlier one had to take another range.
MmioIsBar5 == "mmio" \in mapped \ kept.maps /\ Bar5 \in ToSet(bus) => bar.mmio = Bar5

\* The modes offered are those of the table that fit the framebuffer that is
\* there now: the loop's break relies on the order of the table.
ModesFit ==
  pnp = "started" =>
    Offered = {m \in ToSet(Modes) : m.w <= Size.w /\ m.h <= Size.h}

\* On every path through the mode-set callbacks nothing is released that is
\* not held, no set while a mode of it is out, and nothing is held at the end.
ModeSetsReturned ==
  \A n \in 0..Len(Modes), found \in Found : \A fail \in Fails(n) :
    LET calls == EnsureModeSet(found, fail, n) IN
    /\ SetsOut(calls, Len(calls)) = 0
    /\ \A i \in DOMAIN calls : 0 <= ModesOut(calls, i) /\ ModesOut(calls, i) <= SetsOut(calls, i)

\* Whatever display was acquired, what dxgkrnl is given as modes fits it, and
\* whatever callback fails on the way, everything taken for it is returned.
ModeSetsRight == ModesFit /\ ModeSetsReturned

\* Present copies as many bytes as the current display has, into a mapping
\* made earlier: it must not be the smaller one.  It may be after a
\* StopAndRelease, which leaves the mapping to a start that acquires another
\* display.
PresentStaysInFb == "fb" \in mapped \ kept.maps => PresentBytes <= fb.size

\* SystemDisplayWrite draws exactly the part of the rectangle that is on the
\* screen, though its clipping subtracts in unsigned arithmetic,
SystemWriteClips ==
  "fb" \in mapped \ kept.maps =>
    \A r \in Rects :
      SystemDisplayWrite(r) = {p \in (0..fb.info.w - 1) \X (0..fb.info.h - 1) :
                                 /\ p[1] \in r.x..r.x + r.w - 1
                                 /\ p[2] \in r.y..r.y + r.h - 1}

\* and ends inside the mapping also when that was made for another display.
SystemWriteInside ==
  "fb" \in mapped =>
    \A r \in Rects : \A p \in SystemDisplayWrite(r) :
      p[2] * fb.info.pitch + p[1] * 4 + 4 <= fb.size

\* Both writers of the framebuffer stay inside the mapping that is there, made
\* for whichever display it was, and draw what they were asked to.
FbWritesInside == PresentStaysInFb /\ SystemWriteClips /\ SystemWriteInside
=============================================================================
