-------------------------------- MODULE VidMem --------------------------------
(***************************************************************************)
(* Memory the main driver gives to user mode, and the two clients that     *)
(* keep account of it.  Until INIT_HARDWARE has run, ALLOC_VIDMEM locks    *)
(* pages, maps them into the calling process and notes them in g_MdlTable  *)
(* under the address of that mapping, which is the handle; afterwards it   *)
(* allocates contiguous memory that no table knows and returns no handle.  *)
(* FREE_VIDMEM looks a handle up in the table, whichever process asks.     *)
(*                                                                         *)
(* RADV (radv_bc250_bo.c) counts what it holds, in counters that its       *)
(* threads read and write without a lock.  The D3D12 driver                *)
(* (amdbc250_umd_v46.c) sends FREE_VIDMEM by the code of the header,       *)
(* 0x80000A04, where the driver only knows 0x80000844.                     *)
(*                                                                         *)
(* How many bytes the driver gives is left out: it may be fewer than asked *)
(* for (256 MB at most, kmd.c:102, and as many pages as there are, 114).   *)
(***************************************************************************)
EXTENDS Integers, Sequences, FiniteSets, FiniteSetsExt

CONSTANTS
  Radv, D3d,   \* processes of the two clients
  Thread,      \* their threads
  ProcOf,      \* the process of each thread
  Va,          \* user addresses the memory manager may choose
  Mdl,         \* page lists there is memory for
  Block,       \* contiguous blocks there is memory for
  Bo,          \* buffer objects and heaps
  MdlSlots,    \* entries of g_MdlTable
  BoSizes,     \* sizes asked for
  CounterWrap, \* 2^64: the counters of RADV are modulo CounterWrap
  Null         \* NULL

Proc == Radv \cup D3d

ASSUME ThreadAssumption == ProcOf \in [Thread -> Proc] /\ Radv \cap D3d = {}

ASSUME MdlAssumption == MdlSlots \in Nat

\* Memory is finite, sizes are numbers of bytes.
ASSUME BytesAssumption == IsFiniteSet(Bo) /\ BoSizes \subseteq Nat /\ CounterWrap \in Nat \ {0}

\* NULL is no process, address or page list, and is none of the records.
ASSUME NullAssumption ==
  Null \notin Proc \cup Va \cup Mdl \cup [va : Va, mdl : Mdl]
    \cup [proc : Proc \cup {Null}, va : Va]
    \cup [mdl : Mdl, va : Va, size : BoSizes, local : BOOLEAN]
    \cup [proc : Proc, mdl : Mdl \cup {Null}, handle : Va \cup {Null}, size : BoSizes,
          local : BOOLEAN, virtual : BOOLEAN, counted : BOOLEAN]
    \cup [op : {"create", "destroy"}, step : {"read", "write"}, bo : Bo, value : Nat]

VARIABLES
  loaded,      \* the driver is loaded
  initialized, \* HardwareInitialized
  mdlTable,    \* g_MdlTable: [va, mdl], or Null for a free entry
  pages,       \* [Mdl -> [proc, va]], Null for pages that are not allocated;
               \* proc is Null once that process has exited
  blocks,      \* contiguous blocks allocated
  call,        \* the ALLOC_VIDMEM of each thread that has its pages, or Null
  bo,          \* [proc, mdl, handle, size, local, virtual, counted], Null if not
               \* in use; counted is whether its size is in a counter
  update,      \* what each thread of RADV is about to do to a counter, or Null
  counter,     \* allocated_vram and allocated_gtt of each RADV process
  untracked,   \* history: pages allocated while the table was full
  owed,        \* history: sizes of virtual buffers each process has destroyed
  torn,        \* history: processes in which one thread's update was overwritten
               \* by another's
  foreign      \* history: pages were freed by a process they did not belong to

vmVars == <<loaded, initialized, mdlTable, pages, blocks, call, bo, update, counter, untracked,
            owed, torn, foreign>>
counts == <<counter, owed, torn>>
client == <<bo, update, counts>>
driver == <<loaded, initialized>>
pool == <<mdlTable, pages, blocks, untracked, foreign>>

Allocated == {m \in Mdl : pages[m] # Null}
Entries == {i \in 1..MdlSlots : mdlTable[i] # Null}
Tracked == {mdlTable[i].mdl : i \in Entries}
InFlight == {call[t].mdl : t \in {u \in Thread : call[u] # Null}}
Held == {b \in Bo : bo[b] # Null}
Idle(t) == call[t] = Null /\ update[t] = Null
Empty == [vram |-> 0, gtt |-> 0]

VMInit ==
  /\ loaded = TRUE /\ initialized = FALSE
  /\ mdlTable = [i \in 1..MdlSlots |-> Null]
  /\ pages = [m \in Mdl |-> Null] /\ blocks = {}
  /\ call = [t \in Thread |-> Null]
  /\ bo = [b \in Bo |-> Null] /\ update = [t \in Thread |-> Null]
  /\ counter = [p \in Proc |-> Empty]
  /\ untracked = {} /\ owed = [p \in Proc |-> 0] /\ torn = {} /\ foreign = FALSE

----------------------------------------------------------------------------
(* The driver.                                                             *)

\* INIT_HARDWARE clears the flag before it tries again.
InitHardware ==
  /\ loaded
  /\ initialized' = ~initialized
  /\ UNCHANGED <<loaded, pool, call, client>>

\* DreamV3AllocVidMem up to the lock: the pages are mapped at an address that
\* is free in the calling process, and only there.
AllocPages(t, size, local) ==
  /\ loaded /\ ~initialized /\ Idle(t)
  /\ \E m \in Mdl \ Allocated, va \in Va :
       /\ \A n \in Allocated : pages[n] # [proc |-> ProcOf[t], va |-> va]
       /\ pages' = [pages EXCEPT ![m] = [proc |-> ProcOf[t], va |-> va]]
       /\ call' = [call EXCEPT ![t] = [mdl |-> m, va |-> va, size |-> size, local |-> local]]
  /\ UNCHANGED <<driver, mdlTable, blocks, untracked, foreign, client>>

\* The first free entry of the table takes the pages; without one they are
\* given out all the same.
Enter(entry) ==
  IF Cardinality(Entries) = MdlSlots
  THEN mdlTable' = mdlTable /\ untracked' = untracked \cup {entry.mdl}
  ELSE /\ mdlTable' = [mdlTable EXCEPT ![Min((1..MdlSlots) \ Entries)] = entry]
       /\ untracked' = untracked

\* Variant: the entry of pages that are freed stays.
FreeVidMemKeepsEntry(p, handle) ==
  LET found == {i \in Entries : mdlTable[i].va = handle} IN
  IF found = {} THEN UNCHANGED <<mdlTable, pages, foreign>>
  ELSE /\ pages' = [pages EXCEPT ![mdlTable[Min(found)].mdl] = Null]
       /\ UNCHANGED <<mdlTable, foreign>>

\* FREE_VIDMEM: the first entry with that address, and nothing without one.
FreeVidMem(p, handle) ==
  LET found == {i \in Entries : mdlTable[i].va = handle} IN
  IF found = {} THEN UNCHANGED <<mdlTable, pages, foreign>>
  ELSE LET i == Min(found)
           m == mdlTable[i].mdl
       IN /\ mdlTable' = [mdlTable EXCEPT ![i] = Null]
          /\ pages' = [pages EXCEPT ![m] = Null]
          /\ foreign' = (foreign \/ pages[m].proc # p)

\* Variant: the loop stops one entry early.
UnloadOneLess ==
  /\ loaded /\ Held = {} /\ InFlight = {}
  /\ loaded' = FALSE
  /\ pages' = [m \in Mdl |-> IF m \in {mdlTable[i].mdl : i \in Entries \ {MdlSlots}}
                              THEN Null ELSE pages[m]]
  /\ mdlTable' = [i \in 1..MdlSlots |-> Null]
  /\ UNCHANGED <<initialized, blocks, call, client, untracked, foreign>>

\* DreamV3WdmUnload, when no handle to the device is open.
Unload ==
  /\ loaded /\ Held = {} /\ InFlight = {}
  /\ loaded' = FALSE
  /\ pages' = [m \in Mdl |-> IF m \in Tracked THEN Null ELSE pages[m]]
  /\ mdlTable' = [i \in 1..MdlSlots |-> Null]
  /\ UNCHANGED <<initialized, blocks, call, client, untracked, foreign>>

----------------------------------------------------------------------------
(* The clients.                                                            *)

\* A heap of the D3D12 driver does not say which memory it is in.
Begin(t) ==
  \E size \in BoSizes, local \in BOOLEAN :
    (ProcOf[t] \in D3d => local) /\ AllocPages(t, size, local)

\* The thread has yet to read the counter of b, and to write it.
Pending(op, b) == [op |-> op, step |-> "read", bo |-> b, value |-> 0]

\* The pages are entered, and the call returns: a buffer object or a heap
\* comes to hold the handle.
Create(t) ==
  /\ call[t] # Null
  /\ LET c == call[t] IN
     /\ Enter([va |-> c.va, mdl |-> c.mdl])
     /\ \E b \in Bo \ Held :
          /\ bo' = [bo EXCEPT ![b] = [proc |-> ProcOf[t], mdl |-> c.mdl, handle |-> c.va,
                       size |-> c.size, local |-> c.local, virtual |-> FALSE, counted |-> FALSE]]
          /\ update' = IF ProcOf[t] \in Radv
                       THEN [update EXCEPT ![t] = Pending("create", b)] ELSE update
  /\ call' = [call EXCEPT ![t] = Null]
  /\ UNCHANGED <<driver, pages, blocks, counts, foreign>>

\* After INIT_HARDWARE the driver returns 16 bytes.  RADV finds no handle in
\* them and gives up; the D3D12 driver keeps a heap without one.
CreateAfterInit(t) ==
  /\ loaded /\ initialized /\ Idle(t)
  /\ \E k \in Block \ blocks : blocks' = blocks \cup {k}
  /\ IF ProcOf[t] \in Radv THEN bo' = bo
     ELSE \E b \in Bo \ Held, size \in BoSizes :
            bo' = [bo EXCEPT ![b] = [proc |-> ProcOf[t], mdl |-> Null, handle |-> Null,
                     size |-> size, local |-> TRUE, virtual |-> FALSE, counted |-> FALSE]]
  /\ UNCHANGED <<driver, mdlTable, pages, untracked, foreign, call, update, counts>>

\* A sparse buffer is not counted.
CreateVirtual(t) ==
  /\ loaded /\ ProcOf[t] \in Radv /\ Idle(t)
  /\ \E b \in Bo \ Held, size \in BoSizes :
       bo' = [bo EXCEPT ![b] = [proc |-> ProcOf[t], mdl |-> Null, handle |-> Null,
                size |-> size, local |-> FALSE, virtual |-> TRUE, counted |-> FALSE]]
  /\ UNCHANGED <<driver, pool, call, update, counts>>

\* radv_bc250_bo_destroy of a buffer that vkFreeMemory gets once, after its
\* creation: the handle is given back, the structure stays for the counter.
Destroy(t, b) ==
  /\ loaded /\ Idle(t)
  /\ bo[b] # Null /\ bo[b].proc = ProcOf[t] /\ ProcOf[t] \in Radv
  /\ \A u \in Thread : update[u] # Null => update[u].bo # b
  /\ IF bo[b].handle # Null THEN FreeVidMem(ProcOf[t], bo[b].handle)
     ELSE UNCHANGED <<mdlTable, pages, foreign>>
  /\ bo' = [bo EXCEPT ![b] = [@ EXCEPT !.handle = Null]]
  /\ update' = [update EXCEPT ![t] = Pending("destroy", b)]
  /\ UNCHANGED <<driver, blocks, untracked, call, counts>>

\* The D3D12 driver's FREE_VIDMEM is answered with "Unknown IOCTL", which nobody
\* looks at.
CloseHeap(b) ==
  /\ loaded /\ bo[b] # Null /\ bo[b].proc \in D3d
  /\ bo' = [bo EXCEPT ![b] = Null]
  /\ UNCHANGED <<driver, pool, call, update, counts>>

\* allocated_vram += size and the like: read, and written back, with no lock.
Bytes(p, local) == IF local THEN counter[p].vram ELSE counter[p].gtt
SetBytes(p, local, n) ==
  counter' = IF local THEN [counter EXCEPT ![p].vram = n % CounterWrap]
             ELSE [counter EXCEPT ![p].gtt = n % CounterWrap]

ReadCounter(t) ==
  /\ update[t] # Null /\ update[t].step = "read"
  /\ update' = [update EXCEPT ![t] = [@ EXCEPT !.step = "write",
                  !.value = Bytes(ProcOf[t], bo[update[t].bo].local)]]
  /\ UNCHANGED <<driver, pool, call, bo, counts>>

\* Variant: what is destroyed is not taken off.
DeltaForgets(op, size) == IF op = "create" THEN size ELSE 0

\* The size of a virtual buffer is taken off allocated_gtt as well.
Delta(op, size) == IF op = "create" THEN size ELSE -size

WriteCounter(t) ==
  /\ update[t] # Null /\ update[t].step = "write"
  /\ LET u == update[t]
         b == bo[u.bo]
         p == ProcOf[t]
     IN /\ SetBytes(p, b.local, u.value + Delta(u.op, b.size))
        /\ torn' = IF u.value = Bytes(p, b.local) THEN torn ELSE torn \cup {p}
        /\ bo' = [bo EXCEPT ![u.bo] = IF u.op = "create" THEN [@ EXCEPT !.counted = TRUE] ELSE Null]
        /\ owed' = IF u.op = "destroy" /\ b.virtual
                   THEN [owed EXCEPT ![p] = (@ + b.size) % CounterWrap] ELSE owed
  /\ update' = [update EXCEPT ![t] = Null]
  /\ UNCHANGED <<driver, pool, call>>

\* A process ends, and its threads and its address space with it; the driver
\* learns nothing of it.  Another one may come in its place.
Exit(p) ==
  LET Own == {t \in Thread : ProcOf[t] = p} IN
  /\ \A t \in Own : call[t] = Null
  /\ pages' = [m \in Mdl |-> IF m \in Allocated /\ pages[m].proc = p
                             THEN [pages[m] EXCEPT !.proc = Null] ELSE pages[m]]
  /\ bo' = [b \in Bo |-> IF b \in Held /\ bo[b].proc = p THEN Null ELSE bo[b]]
  /\ update' = [t \in Thread |-> IF t \in Own THEN Null ELSE update[t]]
  /\ counter' = [counter EXCEPT ![p] = Empty]
  /\ owed' = [owed EXCEPT ![p] = 0]
  /\ torn' = torn \ {p}
  /\ UNCHANGED <<driver, mdlTable, blocks, untracked, foreign, call>>

VMNext ==
  \/ InitHardware \/ Unload
  \/ \E t \in Thread :
       \/ Begin(t) \/ Create(t) \/ CreateAfterInit(t) \/ CreateVirtual(t)
       \/ ReadCounter(t) \/ WriteCounter(t)
       \/ \E b \in Bo : Destroy(t, b)
  \/ \E p \in Proc : Exit(p)
  \/ \E b \in Bo : CloseHeap(b)

VMSpec == VMInit /\ [][VMNext]_vmVars

----------------------------------------------------------------------------
(* Properties.                                                             *)

\* The table names every page list once that is given out, and none that has
\* been freed; only those that came when it was full are nowhere.  So what is
\* left after an unload was allocated over the limit of the table.
TableTracks ==
  /\ \A i, j \in Entries : mdlTable[i].mdl = mdlTable[j].mdl => i = j
  /\ Tracked \subseteq Allocated
  /\ Allocated \subseteq Tracked \cup untracked \cup InFlight

\* As long as no process has freed what another one was given under the same
\* address, the pages of a buffer are there for as long as the buffer is,
\* mapped in its process at its handle.
BoBacked ==
  ~foreign =>
    \A b \in Held : bo[b].handle # Null =>
      pages[bo[b].mdl] = [proc |-> bo[b].proc, va |-> bo[b].handle]

\* As long as no thread of the process has overwritten another's update,
\* allocated_vram is what the buffers in video memory take that are counted,
\* whatever updates are under way; allocated_gtt is short of it by the virtual
\* buffers that were destroyed, which were never added.
Accounting ==
  \A p \in Radv \ torn :
    LET sum(local) == MapThenSumSet(LAMBDA b : bo[b].size,
                        {b \in Held : bo[b].proc = p /\ bo[b].counted /\ bo[b].local = local})
    IN /\ counter[p].vram = sum(TRUE) % CounterWrap
       /\ (counter[p].gtt + owed[p]) % CounterWrap = sum(FALSE) % CounterWrap
=============================================================================
