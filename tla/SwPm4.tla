------------------------------- MODULE SwPm4 -------------------------------
(***************************************************************************)
(* DreamV3SwPm4Process, the software executor SEND_PM4 and EXECUTE_RING_PM4 *)
(* fall back to: it walks a stream of PM4 packets, turns them into register *)
(* writes and moves, and calls itself for indirect buffers, whose memory    *)
(* may hold anything, a packet that names the same buffer included.         *)
(*                                                                         *)
(* A dword is the record of all the ways it can be read: as a header (type, *)
(* op, count, base) and as a datum (val, and the flags reg and one of a     *)
(* WRITE_DATA control word).  Register offsets are counted in dwords.       *)
(***************************************************************************)
EXTENDS Naturals, Sequences

CONSTANTS Streams,  \* what a caller may submit: [code, starts]
          Memories, \* what indirect buffers may hold: 1..n -> [code, starts]
          Windows,  \* memory the driver may own: sets of [base, size, va]
          Word,     \* ULONG arithmetic is modulo Word
          MmioSizes, \* what DevExt->MmioSize may be; the caller of INIT_HARDWARE says
          DispatchRegs, \* where DISPATCH_DIRECT writes
          Low,      \* the 2 MB below which an address is a register
          Gc,       \* AMDBC250_GC_BASE
          MaxIb,    \* 4096, the longest indirect buffer that is run
          MaxMove,  \* AMDBC250_SW_PM4_DMA_MAX_BYTES
          MaxDepth  \* 32, the Depth the two callers pass

ASSUME Pm4Assumption ==
  /\ Word \in Nat \ {0} /\ MmioSizes \subseteq 0..Word - 1 /\ DispatchRegs \subseteq Nat
  /\ Low \in Nat /\ Gc \in Nat
  /\ MaxIb \in Nat \ {0} /\ MaxMove \in Nat \ {0} /\ MaxDepth \in Nat \ {0}

Ops == {"none", "NOP", "OTHER", "WRITE_DATA", "SET_REG", "DMA_DATA", "INDIRECT_BUFFER",
        "EVENT_WRITE_EOP", "DISPATCH_DIRECT"}

\* The count field of a header is one less than count.
Reading == [type : 0..3, op : Ops, count : Nat \ {0}, base : Nat, val : 0..Word - 1,
            reg : BOOLEAN, one : BOOLEAN]

\* Dwords a packet takes that begins with hdr.
Length(hdr) == IF hdr.type \in {1, 2} THEN 1 ELSE 1 + hdr.count

\* A buffer, and where packets begin in it if they are taken one after the other.
Stream(s) ==
  /\ s \in [code : Seq(Reading), starts : SUBSET Nat]
  /\ 0 \in s.starts
  /\ \A i \in s.starts : i < Len(s.code) =>
       LET next == i + Length(s.code[i + 1]) IN next \in s.starts \/ next >= Len(s.code)

\* Whatever an indirect buffer's size, there is memory behind its address.
ASSUME StreamAssumption ==
  /\ \A s \in Streams : Stream(s)
  /\ \A m \in Memories : \A b \in DOMAIN m :
       b \in Nat \ {0} /\ Stream(m[b]) /\ MaxIb <= Len(m[b].code)

\* No memory of the driver lies so high that a move from it passes 2^64.
ASSUME WindowAssumption ==
  \A ws \in Windows : \A w \in ws :
    /\ w \in [base : Nat, size : Nat, va : Nat]
    /\ w.base + w.size + MaxMove <= Word * Word

VARIABLES
  mem,     \* what the caller's buffer (0) and the indirect buffers hold
  windows, \* the rings and the fence page that are mapped
  mmio,    \* registers of BAR5 that are mapped
  stack,   \* the calls: buffer, its size, i, Depth
  status,  \* what the outermost call returns
  fenced,  \* GlobalFence has been given FenceValue
  wrote,   \* registers the last packet wrote, and whether it was a DISPATCH_DIRECT
  move,    \* the last move: kernel addresses and length
  over     \* history: a dword beyond CommandCount was used

pm4Vars == <<mem, windows, mmio, stack, status, fenced, wrote, move, over>>

Written(regs) == [regs |-> regs, dispatch |-> FALSE]
NoMove == [src |-> 0, dst |-> 0, len |-> 0]
Frame(buf, size, depth) == [buf |-> buf, size |-> size, i |-> 0, depth |-> depth]

\* The code and the packet starts of each buffer do not change.
Pm4Init ==
  /\ \E s \in Streams, m \in Memories :
       /\ mem = [b \in {0} \cup DOMAIN m |-> IF b = 0 THEN s ELSE m[b]]
       /\ stack = <<Frame(0, Len(s.code), MaxDepth)>>
  /\ windows \in Windows /\ mmio \in MmioSizes
  /\ status = "running" /\ fenced = FALSE
  /\ wrote = Written({}) /\ move = NoMove /\ over = FALSE

Top == stack[Len(stack)]
Running == stack # <<>> /\ Top.i < Top.size

\* Commands[i + k]; behind the buffer there is something nobody knows.
Fetch(k) == mem[Top.buf].code[IF Top.i + k < Len(mem[Top.buf].code) THEN Top.i + k + 1 ELSE 1]
Hdr    == Fetch(0)
Arg(k) == Fetch(k + 1)

Fits == Top.i + 1 + Hdr.count <= Top.size

Ahead(n) == [stack EXCEPT ![Len(stack)].i = @ + n]
Advance(n) == stack' = Ahead(n)
Skip == Advance(1 + Hdr.count)
Uses(n) == over' = (over \/ Top.i + n > Top.size)
Quiet == wrote' = Written({}) /\ move' = NoMove
Fixed == UNCHANGED <<mem, windows, mmio>>

\* A call returns.  The caller of a nested one ignores what it returns.
Return(s) ==
  IF Len(stack) = 1 THEN stack' = <<>> /\ status' = s
  ELSE stack' = SubSeq(stack, 1, Len(stack) - 1) /\ UNCHANGED status

Done ==
  /\ stack # <<>> /\ Top.i >= Top.size
  /\ Return("SUCCESS") /\ Quiet
  /\ UNCHANGED <<fenced, over>> /\ Fixed

-----------------------------------------------------------------------------
(* Register writes *)

\* DreamV3SwRegRangeValid, with the end computed in a ULONG and as it is.  A
\* size of less than one register is as good as none.
RangeValid32(offset, n) == mmio > 0 /\ (offset + n) % Word <= mmio
RangeValid(offset, n) == mmio > 0 /\ offset + n <= mmio

\* n registers from offset on, or STATUS_INVALID_PARAMETER before the first.
WriteRegisters(offset, checked, written, skip) ==
  /\ IF RangeValid(offset, checked)
     THEN Advance(skip) /\ wrote' = Written(written) /\ UNCHANGED status
     ELSE Return("INVALID_PARAMETER") /\ wrote' = Written({})
  /\ move' = NoMove /\ UNCHANGED fenced /\ Fixed

\* Type 0 may run into the end of the buffer.
Type0 ==
  /\ Running /\ Hdr.type = 0
  /\ LET left == Top.size - Top.i - 1
         n == IF Hdr.count < left THEN Hdr.count ELSE left
     IN  WriteRegisters(Hdr.base, Hdr.count, Hdr.base..Hdr.base + n - 1, 1 + n) /\ Uses(1 + n)

\* Type 1 with nothing skipped.
OtherTypeStays ==
  /\ Running /\ Hdr.type \in {1, 2}
  /\ Advance(IF Hdr.type = 2 THEN 1 ELSE 0) /\ Quiet
  /\ UNCHANGED <<status, fenced, over>> /\ Fixed

\* Type 2 is padding, type 1 is taken for it.
OtherType ==
  /\ Running /\ Hdr.type \in {1, 2}
  /\ Advance(1) /\ Quiet
  /\ UNCHANGED <<status, fenced, over>> /\ Fixed

Type3(op) == Running /\ Hdr.type = 3 /\ Hdr.op = op

\* A NOP whose payload is run.
NopRuns ==
  /\ Type3("NOP")
  /\ Advance(1) /\ Quiet
  /\ UNCHANGED <<status, fenced, over>> /\ Fixed

\* A NOP need not be whole.
NopPacket ==
  /\ Type3("NOP")
  /\ Skip /\ Quiet
  /\ UNCHANGED <<status, fenced, over>> /\ Fixed

TooSmall ==
  /\ Running /\ Hdr.type = 3 /\ Hdr.op # "NOP" /\ ~Fits
  /\ Return("BUFFER_TOO_SMALL") /\ Quiet
  /\ UNCHANGED <<fenced, over>> /\ Fixed

\* A packet with nothing to do: shorter than its operands, or unknown.
Short(op, n) == Type3(op) /\ Fits /\ Hdr.count < n
Ignore ==
  /\ \/ Short("WRITE_DATA", 3) \/ Short("DMA_DATA", 6) \/ Short("INDIRECT_BUFFER", 3)
     \/ Short("EVENT_WRITE_EOP", 5) \/ Short("DISPATCH_DIRECT", 4)
     \/ Type3("OTHER") /\ Fits
  /\ Skip /\ Quiet
  /\ UNCHANGED <<status, fenced, over>> /\ Fixed

\* The high half of the address is not looked at.
WriteData ==
  /\ Type3("WRITE_DATA") /\ Fits /\ Hdr.count >= 3
  /\ LET n == Hdr.count - 3
         to == Arg(1).val
         all == IF Arg(0).one THEN {to : d \in 1..n} ELSE to..to + n - 1
     IN  IF Arg(0).reg \/ to < Low
         THEN WriteRegisters(to, n, all, 1 + Hdr.count)
         ELSE Skip /\ Quiet /\ UNCHANGED <<status, fenced>> /\ Fixed
  /\ Uses(1 + Hdr.count)

\* SET_CONFIG_REG, SET_CONTEXT_REG and SET_SH_REG: the offset is computed in
\* a ULONG.
SetReg ==
  /\ Type3("SET_REG") /\ Fits
  /\ LET n == Hdr.count - 1
         from == (Gc + Arg(0).val) % Word
     IN  WriteRegisters(from, n, from..from + n - 1, 1 + Hdr.count)
  /\ Uses(1 + Hdr.count)

\* GrbmGfxIndexOffset and the four dispatch registers at 0x80E0, whatever is mapped:
\* this packet alone has its registers not checked against MmioSize.
Dispatch ==
  /\ Type3("DISPATCH_DIRECT") /\ Fits /\ Hdr.count >= 4
  /\ Skip /\ wrote' = [regs |-> DispatchRegs, dispatch |-> TRUE] /\ move' = NoMove
  /\ Uses(5) /\ UNCHANGED <<status, fenced>> /\ Fixed

\* EVENT_WRITE_EOP and RELEASE_MEM write the caller's fence and none of their
\* own operands - if there is a fence and a page for it.
EndOfPipe ==
  /\ Type3("EVENT_WRITE_EOP") /\ Fits /\ Hdr.count >= 5
  /\ Skip /\ Quiet
  /\ fenced' \in {fenced, TRUE}
  /\ UNCHANGED <<status, over>> /\ Fixed

-----------------------------------------------------------------------------
(* DMA_DATA *)

\* ULONG64 sums.
Add(a, b) == (a + b) % (Word * Word)

\* Without the test that keeps the sum from wrapping.
InWindowWraps(w, a, n) == a >= w.base /\ Add(a, n) <= w.base + w.size
InWindow(w, a, n) ==
  a >= w.base /\ a < w.base + w.size /\ Add(a, n) <= w.base + w.size

\* DreamV3SwDmaRangeResolve: the kernel addresses a may have, none if it is
\* not in memory the driver owns.
Resolve(a, n) == IF n > MaxMove THEN {}
                 ELSE {w.va + (a - w.base) : w \in {x \in windows : InWindow(x, a, n)}}

Disjoint(src, dst, n) == ~(dst < src + n /\ src < dst + n)

DmaData ==
  /\ Type3("DMA_DATA") /\ Fits /\ Hdr.count >= 6
  /\ LET n == Arg(5).val
         src == Resolve(Arg(1).val + Arg(2).val * Word, n)
         dst == Resolve(Arg(3).val + Arg(4).val * Word, n)
     IN  \/ /\ n > 0
            /\ \E s \in src, d \in dst : Disjoint(s, d, n) /\ move' = [src |-> s, dst |-> d, len |-> n]
         \/ /\ n = 0 \/ (\A s \in src, d \in dst : ~Disjoint(s, d, n))
            /\ move' = NoMove
  /\ Skip /\ wrote' = Written({})
  /\ Uses(7) /\ UNCHANGED <<status, fenced>> /\ Fixed

-----------------------------------------------------------------------------
(* INDIRECT_BUFFER *)

DepthLeft == Top.depth - 1

SizeOk(n) == n > 0 /\ n <= MaxIb

\* MmMapIoSpace gives the buffer or fails.  At Depth 0 the call returns before
\* it looks at anything.  The packet is done once the call returns.
IndirectBuffer ==
  /\ Type3("INDIRECT_BUFFER") /\ Fits /\ Hdr.count >= 3
  /\ LET buf == Arg(0).val
         size == Arg(2).val
         called == Ahead(1 + Hdr.count)
     IN  \/ /\ SizeOk(size) /\ buf \in DOMAIN mem \ {0} /\ DepthLeft > 0
            /\ stack' = Append(called, Frame(buf, size, DepthLeft))
         \/ stack' = called
  /\ Quiet /\ Uses(4)
  /\ UNCHANGED <<status, fenced>> /\ Fixed

-----------------------------------------------------------------------------
Pm4Next ==
  \/ Done \/ Type0 \/ OtherType \/ NopPacket \/ TooSmall \/ Ignore \/ WriteData
  \/ SetReg \/ Dispatch \/ EndOfPipe \/ DmaData \/ IndirectBuffer

\* The executor keeps running.
Pm4Spec == Pm4Init /\ [][Pm4Next]_pm4Vars /\ WF_pm4Vars(Pm4Next)
-----------------------------------------------------------------------------
(* Properties *)

\* The executor uses no dword behind the end of the buffer it was given, for
\* every header, truncated or not.
ReadsInBounds == ~over

\* The mapping is large enough for a DISPATCH_DIRECT, as the 512 KB are that
\* INIT_HARDWARE takes when its caller leaves the size to it.
DispatchFits == \A r \in DispatchRegs : r < mmio

\* Header comment of DreamV3SwRegRangeValid: no write leaves the mapped BAR5
\* window, although the offset of a SET packet may wrap - but those of a
\* DISPATCH_DIRECT in a window the caller of INIT_HARDWARE made too small.
RegistersInBar == \A r \in wrote.regs : r < mmio \/ (wrote.dispatch /\ ~DispatchFits)

\* Neither what the executor takes from a stream nor what it writes is outside
\* of what it was given.
StaysInside == ReadsInBounds /\ RegistersInBar

\* Comment of DreamV3SwDmaRangeResolve: both ends of a move lie, whole, in one
\* window the driver owns, and they do not overlap - also for addresses at the
\* end of the 64 bits.
MovesOwned ==
  move.len > 0 =>
    /\ \A a \in {move.src, move.dst} : \E w \in windows :
         w.va <= a /\ a + move.len <= w.va + w.size
    /\ move.src + move.len <= move.dst \/ move.dst + move.len <= move.src

\* The payload of a packet is never taken for a packet, of whatever type and
\* length the ones before it are.
NothingMisread == Running => Top.i \in mem[Top.buf].starts

\* Every stream comes to an end.
Ends == <>(status # "running")
=============================================================================
