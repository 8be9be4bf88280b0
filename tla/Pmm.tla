-------------------------------- MODULE Pmm --------------------------------
(***************************************************************************)
(* The physical frame allocator of kernel/pmm.c: the bitmap, the free      *)
(* counter and the next-fit cursor, from the multiboot memory map          *)
(* (pmm_init) and the module reservations (pmm_reserve) to the calls of    *)
(* pmm_alloc_frame and pmm_free_frame that the rest of the kernel makes.   *)
(*                                                                         *)
(* The kernel is single threaded and the one interrupt handler it has does *)
(* not touch this state, so every call is one step; pmm_init is one step   *)
(* per memory-map entry.                                                   *)
(***************************************************************************)
EXTENDS Integers, FiniteSets, Sequences

CONSTANTS
  TotalFrames,  \* PMM_MAX_PHYS / FRAME_SIZE
  FrameSize,    \* FRAME_SIZE, in bytes
  LowMem,       \* 0x100000: memory below it is never used
  MemMaps,      \* the memory maps the boot loader may pass
  KernelStart,  \* _kernel_start and _kernel_end, byte addresses
  KernelEnd,
  Modules,      \* sequence of [start, end]: the named boot modules, MAX_MODS at most
  UserMin       \* USER_MIN / FRAME_SIZE: the first frame of the user window

VARIABLES
  bitmap,       \* the frames whose bit is 1 (used)
  free_frames,
  cursor,
  boot,         \* how far kernel_main is: "mmap", "mods", "ready"
  next,         \* the next map entry, or the next module, of that phase
  mmap,         \* the memory map of this boot
  ret,          \* result of the last pmm_alloc_frame, NoCall after another call
  held          \* history: the frames handed out and not freed since, by whomever

vars == <<bitmap, free_frames, cursor, boot, next, mmap, ret, held>>

Frames == 0 .. TotalFrames - 1
MaxPhys == TotalFrames * FrameSize
Window == {f \in Frames : f >= UserMin}
NoCall == -1

MmapEntry == [available : BOOLEAN, addr : Nat, len : Nat]
ModuleRange == [start : Nat, end : Nat]

\* Two available entries of a memory map share no byte.
Disjoint(m) ==
  \A i, j \in DOMAIN m :
    i # j /\ m[i].available /\ m[j].available =>
      m[i].addr + m[i].len <= m[j].addr \/ m[j].addr + m[j].len <= m[i].addr

\* What the boot loader guarantees: the allocator has frames, the first
\* megabyte is not empty, the kernel image lies under the 1 GB cap, and the
\* available entries of the map are disjoint.
ASSUME PmmAssumption ==
  /\ TotalFrames \in Nat \ {0}
  /\ FrameSize \in Nat \ {0}
  /\ LowMem \in Nat \ {0}
  /\ KernelStart \in Nat /\ KernelEnd \in Nat
  /\ KernelEnd <= MaxPhys
  /\ MemMaps # {}
  /\ \A m \in MemMaps : m \in Seq(MmapEntry) /\ Disjoint(m)
  /\ Modules \in Seq(ModuleRange)
  /\ UserMin \in Nat \ {0}

CeilDiv(a) == (a + FrameSize - 1) \div FrameSize
-----------------------------------------------------------------------------
(***************************************************************************)
(* The frames an available map entry releases: the part below LowMem is    *)
(* cut off, the part above the cap too, and only whole frames count.       *)
(***************************************************************************)
SkipLow(e) ==
  IF e.addr >= LowMem THEN [s |-> e.addr, l |-> e.len]
  ELSE IF LowMem - e.addr >= e.len THEN [s |-> e.addr, l |-> 0]
  ELSE [s |-> LowMem, l |-> e.len - (LowMem - e.addr)]

CapHigh(r) ==
  IF r.s + r.l <= MaxPhys THEN r
  ELSE [s |-> r.s, l |-> IF r.s >= MaxPhys THEN 0 ELSE MaxPhys - r.s]

\* Mutant: rounds the first frame down, as for a reservation.
EntryFrames_RoundDown(e) ==
  LET r == CapHigh(SkipLow(e))
  IN  (r.s \div FrameSize) .. ((r.s + r.l) \div FrameSize - 1)

EntryFrames(e) ==
  LET r == CapHigh(SkipLow(e))
  IN  CeilDiv(r.s) .. ((r.s + r.l) \div FrameSize - 1)

\* The frames a byte range [start, end) touches.
Touched(start, end) == (start \div FrameSize) .. (CeilDiv(end) - 1)

KernelFrames == Touched(KernelStart, KernelEnd)

\* Mutant: decrements the counter even when the bit was already set.
set_used_Unguarded(fs) ==
  /\ bitmap' = bitmap \cup fs
  /\ free_frames' = free_frames - Cardinality(fs)

\* set_used on every frame of fs, the counter moving only for a bit that
\* was clear.
set_used(fs) ==
  /\ bitmap' = bitmap \cup fs
  /\ free_frames' = free_frames - Cardinality(fs \ bitmap)
-----------------------------------------------------------------------------
(***************************************************************************)
(* Boot: pmm_init (map entries, then the kernel image), then the           *)
(* reservations exec_init_mods makes.                                      *)
(***************************************************************************)
\* The state pmm_init is in once it has filled the bitmap and before its
\* loop over the memory map.
Init ==
  /\ mmap \in MemMaps
  /\ bitmap = Frames
  /\ free_frames = 0
  /\ cursor = 0
  /\ boot = "mmap"
  /\ next = 1
  /\ ret = NoCall
  /\ held = {}

pmm_init_entry ==
  /\ boot = "mmap" /\ next <= Len(mmap)
  /\ LET fs == IF mmap[next].available THEN EntryFrames(mmap[next]) ELSE {}
     IN  /\ bitmap' = bitmap \ fs
         /\ free_frames' = free_frames + Cardinality(fs)
  /\ next' = next + 1
  /\ UNCHANGED <<cursor, boot, mmap, ret, held>>

pmm_init_kernel ==
  /\ boot = "mmap" /\ next > Len(mmap)
  /\ set_used(KernelFrames)
  /\ boot' = "mods" /\ next' = 1
  /\ UNCHANGED <<cursor, mmap, ret, held>>

\* pmm_reserve: frames past the cap are left out.
pmm_reserve(start, end) == set_used(Touched(start, end) \cap Frames)

\* The modules exec_init_mods takes: not empty, and below the cap.
Registered ==
  {i \in DOMAIN Modules : Modules[i].start < Modules[i].end /\ Modules[i].end <= MaxPhys}

reserve_module ==
  /\ boot = "mods" /\ next <= Len(Modules)
  /\ IF next \in Registered THEN pmm_reserve(Modules[next].start, Modules[next].end)
     ELSE UNCHANGED <<bitmap, free_frames>>
  /\ next' = next + 1
  /\ UNCHANGED <<cursor, boot, mmap, ret, held>>

boot_done ==
  /\ boot = "mods" /\ next > Len(Modules)
  /\ boot' = "ready"
  /\ UNCHANGED <<bitmap, free_frames, cursor, next, mmap, ret, held>>
-----------------------------------------------------------------------------
(***************************************************************************)
(* The calls of the running kernel.                                        *)
(***************************************************************************)
Probe(i) == (cursor + i) % TotalFrames

\* Mutant: the search gives up one probe early.
Probes_Short == 0 .. TotalFrames - 2

Probes == 0 .. TotalFrames - 1

\* f is the frame the search meets first, starting at the cursor.
NextFit(f) ==
  \E i \in Probes :
    /\ f = Probe(i)
    /\ f \notin bitmap
    /\ \A j \in 0 .. i - 1 : Probe(j) \in bitmap

\* Mutant: forgets to mark the frame it returns.
alloc_found_NoMark(f) ==
  /\ UNCHANGED <<bitmap, free_frames>>
  /\ cursor' = (f + 1) % TotalFrames

\* Mutant: the cursor does not wrap.
alloc_found_NoWrap(f) ==
  /\ bitmap' = bitmap \cup {f}
  /\ free_frames' = free_frames - 1
  /\ cursor' = f + 1

alloc_found(f) ==
  /\ bitmap' = bitmap \cup {f}
  /\ free_frames' = free_frames - 1
  /\ cursor' = (f + 1) % TotalFrames

\* No probe meets a clear bit: pmm_alloc_frame returns 0.
alloc_exhausted ==
  /\ \A i \in Probes : Probe(i) \in bitmap
  /\ UNCHANGED <<bitmap, free_frames, cursor>>

pmm_alloc_frame ==
  /\ boot = "ready"
  /\ \/ \E f \in Frames : /\ NextFit(f)
                          /\ alloc_found(f)
                          /\ ret' = f * FrameSize
                          /\ held' = held \cup {f}
     \/ /\ alloc_exhausted
        /\ ret' = 0
        /\ UNCHANGED held
  /\ UNCHANGED <<boot, next, mmap>>

free_bit(f) ==
  IF f < TotalFrames /\ f \in bitmap
    THEN /\ bitmap' = bitmap \ {f}
         /\ free_frames' = free_frames + 1
    ELSE UNCHANGED <<bitmap, free_frames>>

\* The one caller is vmm_unmap_range. It frees what the entries from USER_MIN
\* up map: a frame that was handed out, wherever it lies, and through the
\* identity entries of a split page any frame of the window, be it free,
\* reserved, no memory at all or in use for something else, and addresses
\* past the cap. Nothing here or there turns a reserved frame away.
pmm_free_frame(phys) ==
  LET f == phys \div FrameSize
  IN  /\ boot = "ready"
      /\ f \in held \/ f >= UserMin
      /\ free_bit(f)
      /\ held' = held \ {f}
      /\ ret' = NoCall
      /\ UNCHANGED <<cursor, boot, next, mmap>>

Next ==
  \/ pmm_init_entry
  \/ pmm_init_kernel
  \/ reserve_module
  \/ boot_done
  \/ pmm_alloc_frame
  \/ \E f \in Frames \cup {TotalFrames} : pmm_free_frame(f * FrameSize)

Spec == Init /\ [][Next]_vars
-----------------------------------------------------------------------------
TypeOK ==
  /\ bitmap \in SUBSET Frames
  /\ free_frames \in Int
  /\ cursor \in Frames
  /\ boot \in {"mmap", "mods", "ready"}
  /\ next \in Nat \ {0}
  /\ mmap \in MemMaps
  /\ ret \in {NoCall} \cup Nat
  /\ held \in SUBSET Frames

\* The counter behind pmm_free_kb (the shell's "mem") is the number of clear
\* bits, at every moment of boot and of operation: entries, reservations that
\* overlap each other, allocations and repeated frees all keep it exact.
FreeCountExact == free_frames = Cardinality(Frames \ bitmap)

\* Frames that boot keeps back: those of the kernel image, of a
\* registered module, and those that are not whole frames of available memory
\* above LowMem and below the cap.
Usable == UNION {EntryFrames(mmap[i]) : i \in {j \in DOMAIN mmap : mmap[j].available}}
ModuleFrames == UNION {Touched(Modules[i].start, Modules[i].end) : i \in Registered}
Reserved == (Frames \ Usable) \cup KernelFrames \cup (ModuleFrames \cap Frames)

\* Once booted, no frame is handed out twice before it is freed (a frame
\* handed out keeps its bit) and none is lost (a frame whose bit is set is
\* reserved or handed out). Below the user window no reserved frame is ever
\* handed out; in the window the identity entries of a split page free them.
Accounting ==
  boot = "ready" => /\ held \subseteq bitmap
                    /\ bitmap \subseteq Reserved \cup held
                    /\ Reserved \ Window \subseteq bitmap \ held

\* When boot is over, a frame the allocator may hand out contains no byte of
\* the first megabyte, of the kernel image or of a registered module, and all
\* of its bytes are available memory of the map. Below the user window this
\* stays so, of the frames that have been handed out too.
Byte(f) == f * FrameSize .. (f + 1) * FrameSize - 1
InEntry(b, e) == e.available /\ e.addr <= b /\ b < e.addr + e.len
Safe(f) ==
  \A b \in Byte(f) :
    /\ b >= LowMem
    /\ ~(KernelStart <= b /\ b < KernelEnd)
    /\ \A i \in Registered : ~(Modules[i].start <= b /\ b < Modules[i].end)
    /\ \E i \in DOMAIN mmap : InEntry(b, mmap[i])
BootOver == boot = "mods" /\ next > Len(Modules)
SafeBytes ==
  /\ BootOver => \A f \in Frames \ bitmap : Safe(f)
  /\ boot = "ready" => \A f \in ((Frames \ bitmap) \cup held) \ Window : Safe(f)

\* pmm_alloc_frame returns 0, which its callers take for "out of memory",
\* only when no bit is clear: the circular search misses no frame, and frame
\* 0, whose address is also 0, is never what it found.
ZeroMeansFull == ret = 0 => bitmap = Frames
=============================================================================
