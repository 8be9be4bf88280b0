--------------------------- MODULE MemoryProofs ---------------------------
(***************************************************************************)
(* Proofs about the frame allocator, for every number and size of frames   *)
(* and every memory map with disjoint available entries, and about         *)
(* starting programs, for every number and layout of programs and whatever *)
(* fails or runs out on the way.                                           *)
(***************************************************************************)
EXTENDS Exec, FiniteSetTheorems, TLAPS

-----------------------------------------------------------------------------
(* Arithmetic of frames.                                                   *)

\* The quotient that every address-to-frame conversion of pmm.c computes.
LEMMA DivBounds ==
  ASSUME NEW a \in Nat, NEW F \in Nat, F > 0
  PROVE  /\ a \div F \in Nat
         /\ (a \div F) * F <= a
         /\ a < (a \div F) * F + F
  <1>1. a \div F \in Nat
    BY SMT
  <1>2. F * (a \div F) <= a
    BY SMT
  <1>3. a < F * (a \div F) + F
    BY SMT
  <1>4. QED
    BY <1>1, <1>2, <1>3

\* The rounded-up quotient of pmm_init and pmm_reserve.
LEMMA CeilBounds ==
  ASSUME NEW a \in Nat
  PROVE  /\ CeilDiv(a) \in Nat
         /\ a <= CeilDiv(a) * FrameSize
         /\ CeilDiv(a) * FrameSize < a + FrameSize
  <1>1. a + FrameSize - 1 \in Nat /\ FrameSize \in Nat /\ FrameSize > 0
    BY PmmAssumption
  <1>2. /\ CeilDiv(a) \in Nat
        /\ CeilDiv(a) * FrameSize <= a + FrameSize - 1
        /\ a + FrameSize - 1 < CeilDiv(a) * FrameSize + FrameSize
    BY <1>1, DivBounds DEF CeilDiv
  <1>3. CeilDiv(a) * FrameSize \in Nat
    BY <1>1, <1>2
  <1>4. QED
    BY <1>1, <1>2, <1>3

\* Multiplication by the frame size keeps the order of frame numbers.
LEMMA MulMono ==
  ASSUME NEW a \in Int, NEW b \in Int
  PROVE  /\ a * FrameSize \in Int
         /\ a <= b => a * FrameSize <= b * FrameSize
         /\ a < b => a * FrameSize + FrameSize <= b * FrameSize
         /\ a * FrameSize < b * FrameSize => a < b
         /\ (a + 1) * FrameSize = a * FrameSize + FrameSize
  <1>1. FrameSize \in Nat /\ FrameSize > 0
    BY PmmAssumption
  <1>2. a <= b => a * FrameSize <= b * FrameSize
    BY <1>1
  <1>3. (a + 1) * FrameSize = a * FrameSize + FrameSize
    BY <1>1
  <1>4. a < b => a * FrameSize + FrameSize <= b * FrameSize
    BY <1>1
  <1>5. a * FrameSize < b * FrameSize => a < b
    BY <1>1
  <1>6. QED
    BY <1>1, <1>2, <1>3, <1>4, <1>5

\* The frames an available entry releases are whole frames of that entry,
\* above LowMem and below the cap (kernel/pmm.c:44-67).
LEMMA EntryFramesInside ==
  ASSUME NEW e \in MmapEntry, NEW f \in EntryFrames(e)
  PROVE  /\ f \in Frames
         /\ LowMem <= f * FrameSize
         /\ e.addr <= f * FrameSize
         /\ f * FrameSize + FrameSize <= e.addr + e.len
  <1> DEFINE r == CapHigh(SkipLow(e))
  <1>0. /\ FrameSize \in Nat /\ FrameSize > 0 /\ LowMem \in Nat
        /\ TotalFrames \in Nat /\ MaxPhys \in Nat
        /\ e.addr \in Nat /\ e.len \in Nat
    BY PmmAssumption DEF MmapEntry, MaxPhys
  <1>1. /\ r.s \in Nat /\ r.l \in Nat
        /\ r.l > 0 => /\ r.s >= LowMem /\ r.s >= e.addr
                      /\ r.s + r.l <= e.addr + e.len
                      /\ r.s + r.l <= MaxPhys
    BY <1>0 DEF CapHigh, SkipLow
  <1> DEFINE q == (r.s + r.l) \div FrameSize
             c == CeilDiv(r.s)
  <1>2. f \in c .. (q - 1)
    BY DEF EntryFrames
  <1> HIDE DEF r
  <1>3. /\ q \in Nat /\ q * FrameSize <= r.s + r.l
        /\ c \in Nat /\ r.s <= c * FrameSize
    <2>1. r.s + r.l \in Nat
      BY <1>1
    <2>2. QED
      BY <1>0, <1>1, <2>1, DivBounds, CeilBounds
  <1> HIDE DEF q, c
  <1>4. f \in Int /\ c <= f /\ f < q
    BY <1>2, <1>3
  <1>5. /\ c * FrameSize <= f * FrameSize
        /\ f * FrameSize + FrameSize <= q * FrameSize
        /\ c * FrameSize \in Int /\ f * FrameSize \in Int /\ q * FrameSize \in Int
    BY <1>3, <1>4, MulMono
  <1>6. r.l > 0
    BY <1>0, <1>1, <1>3, <1>5
  <1>7. f * FrameSize < TotalFrames * FrameSize
    BY <1>0, <1>1, <1>3, <1>5, <1>6 DEF MaxPhys
  <1>8. f < TotalFrames
    BY <1>0, <1>4, <1>7, MulMono
  <1>9. QED
    BY <1>0, <1>1, <1>3, <1>4, <1>5, <1>6, <1>8 DEF Frames

\* A frame outside Touched(start, end) holds no byte of that range.
LEMMA TouchedCovers ==
  ASSUME NEW start \in Nat, NEW end \in Nat, NEW f \in Nat,
         f \notin Touched(start, end)
  PROVE  \/ f * FrameSize + FrameSize <= start
         \/ end <= f * FrameSize
  <1> DEFINE q == start \div FrameSize
             c == CeilDiv(end)
  <1>0. FrameSize \in Nat /\ FrameSize > 0
    BY PmmAssumption
  <1>1. /\ q \in Nat /\ q * FrameSize <= start
        /\ c \in Nat /\ end <= c * FrameSize
    BY <1>0, DivBounds, CeilBounds
  <1>2. f < q \/ c <= f
    BY <1>1 DEF Touched
  <1> HIDE DEF q, c
  <1>3. /\ f < q => f * FrameSize + FrameSize <= q * FrameSize
        /\ c <= f => c * FrameSize <= f * FrameSize
        /\ q * FrameSize \in Int /\ c * FrameSize \in Int /\ f * FrameSize \in Int
    BY <1>1, MulMono
  <1>4. QED
    BY <1>0, <1>1, <1>2, <1>3

\* The kernel image lies under the cap, so set_used never leaves the bitmap.
LEMMA KernelFramesInside == KernelFrames \subseteq Frames
  <1> DEFINE q == KernelStart \div FrameSize
             c == CeilDiv(KernelEnd)
  <1>0. /\ FrameSize \in Nat /\ FrameSize > 0 /\ KernelStart \in Nat
        /\ KernelEnd \in Nat /\ TotalFrames \in Nat
        /\ KernelEnd <= TotalFrames * FrameSize
    BY PmmAssumption DEF MaxPhys
  <1>1. /\ q \in Nat /\ c \in Nat /\ c * FrameSize < KernelEnd + FrameSize
    BY <1>0, DivBounds, CeilBounds
  <1> HIDE DEF q, c
  <1>2. /\ (TotalFrames + 1) * FrameSize = TotalFrames * FrameSize + FrameSize
        /\ TotalFrames * FrameSize \in Int /\ c * FrameSize \in Int
    BY <1>0, <1>1, MulMono
  <1>3. c * FrameSize < (TotalFrames + 1) * FrameSize
    BY <1>0, <1>1, <1>2
  <1>4. c < TotalFrames + 1
    BY <1>0, <1>1, <1>3, MulMono
  <1>5. QED
    BY <1>0, <1>1, <1>4 DEF KernelFrames, Touched, Frames, q, c

-----------------------------------------------------------------------------
(* Sets of frames and their cardinality.                                   *)

\* Every set of frames is finite.
LEMMA FramesFinite ==
  /\ IsFiniteSet(Frames)
  /\ \A S \in SUBSET Frames : IsFiniteSet(S) /\ Cardinality(S) \in Nat
  <1>1. IsFiniteSet(Frames)
    BY PmmAssumption, FS_Interval DEF Frames
  <1>2. ASSUME NEW S \in SUBSET Frames
        PROVE  IsFiniteSet(S) /\ Cardinality(S) \in Nat
    BY <1>1, FS_Subset, FS_CardinalityType
  <1>3. QED
    BY <1>1, <1>2

\* Clearing the bits of fs, all of them set, frees exactly Cardinality(fs).
LEMMA ClearCount ==
  ASSUME NEW B \in SUBSET Frames, NEW fs \in SUBSET B
  PROVE  Cardinality(Frames \ (B \ fs)) = Cardinality(Frames \ B) + Cardinality(fs)
  <1>1. /\ Frames \ (B \ fs) = (Frames \ B) \cup fs
        /\ (Frames \ B) \cap fs = {}
    OBVIOUS
  <1>2. /\ IsFiniteSet(Frames \ B) /\ IsFiniteSet(fs)
        /\ Cardinality(Frames \ B) \in Nat /\ Cardinality(fs) \in Nat
    BY FramesFinite
  <1>3. Cardinality({}) = 0
    BY FS_EmptySet
  <1>4. Cardinality((Frames \ B) \cup fs) =
          Cardinality(Frames \ B) + Cardinality(fs) - Cardinality((Frames \ B) \cap fs)
    BY <1>2, FS_Union
  <1>5. Cardinality((Frames \ B) \cap fs) = 0
    BY <1>1, <1>3, Zenon
  <1>6. Cardinality((Frames \ B) \cup fs) = Cardinality(Frames \ B) + Cardinality(fs)
    BY <1>2, <1>4, <1>5
  <1>7. QED
    BY <1>1, <1>6, Zenon

\* Setting the bits of fs takes exactly the clear ones of them (set_used).
LEMMA SetCount ==
  ASSUME NEW B \in SUBSET Frames, NEW fs \in SUBSET Frames
  PROVE  Cardinality(Frames \ (B \cup fs)) = Cardinality(Frames \ B) - Cardinality(fs \ B)
  <1> DEFINE B2 == B \cup fs
  <1>1. B2 \in SUBSET Frames /\ fs \ B \in SUBSET B2 /\ B2 \ (fs \ B) = B
    OBVIOUS
  <1>2. Cardinality(Frames \ (B2 \ (fs \ B))) = Cardinality(Frames \ B2) + Cardinality(fs \ B)
    BY <1>1, ClearCount
  <1>3. Cardinality(Frames \ B2) \in Nat /\ Cardinality(fs \ B) \in Nat
    BY <1>1, FramesFinite
  <1>4. Cardinality(Frames \ B) = Cardinality(Frames \ B2) + Cardinality(fs \ B)
    BY <1>1, <1>2, Zenon
  <1> HIDE DEF B2
  <1>5. Cardinality(Frames \ B2) = Cardinality(Frames \ B) - Cardinality(fs \ B)
    BY <1>3, <1>4
  <1>6. QED
    BY <1>5 DEF B2

\* One frame counts as one.
LEMMA SingletonCount == \A f : Cardinality({f}) = 1
  BY FS_Singleton
-----------------------------------------------------------------------------
(* The inductive invariant: what the bitmap is at every moment of boot.    *)

\* Frames of the entries before the n-th, and of the modules before it.
UsableBefore(n) ==
  {f \in Frames : \E i \in DOMAIN mmap :
     i < n /\ mmap[i].available /\ f \in EntryFrames(mmap[i])}
ModuleFramesBefore(n) ==
  {f \in Frames : \E i \in Registered :
     i < n /\ f \in Touched(Modules[i].start, Modules[i].end)}

BootShape ==
  /\ boot = "mmap" => /\ next <= Len(mmap) + 1
                      /\ held = {} /\ ret = NoCall
                      /\ bitmap = Frames \ UsableBefore(next)
  /\ boot = "mods" => /\ next <= Len(Modules) + 1
                      /\ held = {} /\ ret = NoCall
                      /\ bitmap = (Frames \ Usable) \cup KernelFrames
                                    \cup ModuleFramesBefore(next)

IInv == TypeOK /\ FreeCountExact /\ BootShape /\ Accounting /\ ZeroMeansFull

\* A memory map is a sequence of entries, disjoint where available.
LEMMA MmapFacts ==
  ASSUME mmap \in MemMaps
  PROVE  /\ Len(mmap) \in Nat /\ DOMAIN mmap = 1 .. Len(mmap)
         /\ \A i \in DOMAIN mmap : mmap[i] \in MmapEntry
         /\ Disjoint(mmap)
  BY PmmAssumption

\* The boot modules are a sequence of byte ranges.
LEMMA ModuleFacts ==
  /\ Len(Modules) \in Nat /\ DOMAIN Modules = 1 .. Len(Modules)
  /\ \A i \in DOMAIN Modules : Modules[i].start \in Nat /\ Modules[i].end \in Nat
  <1>1. /\ Len(Modules) \in Nat /\ DOMAIN Modules = 1 .. Len(Modules)
        /\ \A i \in DOMAIN Modules : Modules[i] \in ModuleRange
    BY PmmAssumption
  <1>2. QED
    BY <1>1 DEF ModuleRange

\* Available entries of one map release different frames, because the
\* entries share no byte.
LEMMA EntriesApart ==
  ASSUME mmap \in MemMaps, NEW i \in DOMAIN mmap, NEW j \in DOMAIN mmap, i # j,
         mmap[i].available, mmap[j].available
  PROVE  EntryFrames(mmap[i]) \cap EntryFrames(mmap[j]) = {}
  <1> SUFFICES ASSUME NEW f \in EntryFrames(mmap[i]), f \in EntryFrames(mmap[j])
               PROVE  FALSE
    OBVIOUS
  <1>1. mmap[i] \in MmapEntry /\ mmap[j] \in MmapEntry
    BY MmapFacts
  <1>2. /\ mmap[i].addr \in Nat /\ mmap[i].len \in Nat
        /\ mmap[j].addr \in Nat /\ mmap[j].len \in Nat
    BY <1>1 DEF MmapEntry
  <1>3. /\ f \in Frames
        /\ mmap[i].addr <= f * FrameSize
        /\ f * FrameSize + FrameSize <= mmap[i].addr + mmap[i].len
        /\ mmap[j].addr <= f * FrameSize
        /\ f * FrameSize + FrameSize <= mmap[j].addr + mmap[j].len
    BY <1>1, EntryFramesInside
  <1>4. f * FrameSize \in Int /\ FrameSize \in Nat /\ FrameSize > 0
    BY <1>3, PmmAssumption DEF Frames
  <1>5. \/ mmap[i].addr + mmap[i].len <= mmap[j].addr
        \/ mmap[j].addr + mmap[j].len <= mmap[i].addr
    BY MmapFacts DEF Disjoint
  <1>6. QED
    BY <1>2, <1>3, <1>4, <1>5

\* After the loop over the map the released frames are all of Usable.
LEMMA UsableComplete ==
  ASSUME mmap \in MemMaps, NEW n \in Nat, n > Len(mmap)
  PROVE  UsableBefore(n) = Usable
  <1>1. \A i \in DOMAIN mmap : i < n
    BY MmapFacts
  <1>2. \A i \in DOMAIN mmap : EntryFrames(mmap[i]) \subseteq Frames
    BY MmapFacts, EntryFramesInside
  <1>3. QED
    BY <1>1, <1>2 DEF UsableBefore, Usable

\* After the loop over the modules all of their frames are reserved.
LEMMA ModulesComplete ==
  ASSUME NEW n \in Nat, n > Len(Modules)
  PROVE  ModuleFramesBefore(n) = ModuleFrames \cap Frames
  <1>1. \A i \in Registered : i < n
    BY ModuleFacts DEF Registered
  <1>2. QED
    BY <1>1 DEF ModuleFramesBefore, ModuleFrames

\* The low-memory cut keeps frame 0, whose address the callers read as
\* "out of memory", out of the allocator.
LEMMA FrameZeroReserved ==
  ASSUME mmap \in MemMaps
  PROVE  0 \in Reserved
  <1>1. 0 \in Frames
    BY PmmAssumption DEF Frames
  <1>2. ASSUME NEW i \in DOMAIN mmap, 0 \in EntryFrames(mmap[i])
        PROVE  FALSE
    <2>1. LowMem <= 0 * FrameSize
      BY <1>2, MmapFacts, EntryFramesInside
    <2>2. QED
      BY <2>1, PmmAssumption
  <1>3. 0 \notin Usable
    BY <1>2 DEF Usable
  <1>4. QED
    BY <1>1, <1>3 DEF Reserved

\* And the user window does not begin there.
LEMMA ZeroBelow == 0 \notin Window
  BY PmmAssumption DEF Window

\* The circular search starting at the cursor visits every frame.
LEMMA ProbesCover ==
  ASSUME cursor \in Frames, NEW f \in Frames
  PROVE  \E i \in Probes : Probe(i) = f
  <1>0. /\ TotalFrames \in Nat /\ TotalFrames > 0
        /\ cursor \in Nat /\ cursor < TotalFrames
        /\ f \in Nat /\ f < TotalFrames
    BY PmmAssumption DEF Frames
  <1>1. CASE f >= cursor
    <2>1. f - cursor \in Probes /\ cursor + (f - cursor) = f
      BY <1>0, <1>1 DEF Probes
    <2>2. f % TotalFrames = f
      BY <1>0
    <2>3. QED
      BY <2>1, <2>2 DEF Probe
  <1>2. CASE f < cursor
    <2>1. f + TotalFrames - cursor \in Probes
      BY <1>0, <1>2 DEF Probes
    <2>2. (cursor + (f + TotalFrames - cursor)) % TotalFrames = f
      <3>1. cursor + (f + TotalFrames - cursor) = f + TotalFrames
        BY <1>0
      <3>2. (f + TotalFrames) % TotalFrames = f
        BY <1>0
      <3>3. QED
        BY <3>1, <3>2
    <2>3. QED
      BY <2>1, <2>2 DEF Probe
  <1>3. QED
    BY <1>0, <1>1, <1>2

\* The state before the loop over the memory map satisfies the invariant.
LEMMA InitIInv == Init => IInv
  <1> SUFFICES ASSUME Init PROVE IInv
    OBVIOUS
  <1> USE DEF Init
  <1>1. TypeOK
    BY PmmAssumption DEF TypeOK, Frames, NoCall
  <1>2. Cardinality({}) = 0
    BY FS_EmptySet
  <1>3. FreeCountExact
    BY <1>2 DEF FreeCountExact
  <1>4. UsableBefore(1) = {}
    BY MmapFacts DEF UsableBefore
  <1>5. BootShape
    BY <1>4, MmapFacts DEF BootShape
  <1>6. QED
    BY <1>1, <1>3, <1>5 DEF IInv, Accounting, ZeroMeansFull, NoCall

\* One map entry of pmm_init: its frames are still marked used, because no
\* earlier entry released them, so the unconditional free_frames++ is exact.
LEMMA EntryStep ==
  ASSUME IInv, pmm_init_entry
  PROVE  IInv'
  <1> DEFINE e == mmap[next]
             fs == IF e.available THEN EntryFrames(e) ELSE {}
  <1>0. /\ boot = "mmap" /\ next <= Len(mmap) /\ next' = next + 1
        /\ bitmap' = bitmap \ fs
        /\ free_frames' = free_frames + Cardinality(fs)
        /\ cursor' = cursor /\ boot' = boot /\ mmap' = mmap /\ ret' = ret /\ held' = held
    BY DEF pmm_init_entry
  <1>1. TypeOK /\ FreeCountExact /\ BootShape
    BY DEF IInv
  <1>2. /\ next \in DOMAIN mmap /\ e \in MmapEntry /\ next \in Nat
        /\ held = {} /\ ret = NoCall
        /\ bitmap = Frames \ UsableBefore(next)
    BY <1>0, <1>1, MmapFacts DEF TypeOK, BootShape
  <1>3. fs \subseteq Frames
    BY <1>2, EntryFramesInside
  <1>4. fs \cap UsableBefore(next) = {}
    <2>1. ASSUME NEW f \in fs, NEW i \in DOMAIN mmap, i < next,
                 mmap[i].available, f \in EntryFrames(mmap[i])
          PROVE  FALSE
      <3>1. i # next /\ mmap \in MemMaps /\ e.available /\ f \in EntryFrames(mmap[next])
        BY <1>1, <1>2, <2>1, MmapFacts DEF TypeOK
      <3>2. EntryFrames(mmap[next]) \cap EntryFrames(mmap[i]) = {}
        BY <1>2, <2>1, <3>1, EntriesApart
      <3>3. QED
        BY <2>1, <3>1, <3>2
    <2>2. QED
      BY <2>1 DEF UsableBefore
  <1>5. fs \subseteq bitmap /\ bitmap \in SUBSET Frames
    BY <1>2, <1>3, <1>4
  <1>6. UsableBefore(next)' = UsableBefore(next) \cup fs
    <2>1. UsableBefore(next)' =
            {f \in Frames : \E i \in DOMAIN mmap :
               i < next + 1 /\ mmap[i].available /\ f \in EntryFrames(mmap[i])}
      BY <1>0 DEF UsableBefore
    <2>2. \A i \in DOMAIN mmap : i < next + 1 <=> i < next \/ i = next
      BY <1>1, <1>2, MmapFacts DEF TypeOK
    <2>3. QED
      BY <1>2, <1>3, <2>1, <2>2 DEF UsableBefore
  <1>7. BootShape'
    BY <1>0, <1>1, <1>2, <1>6, MmapFacts DEF BootShape, TypeOK
  <1>8. FreeCountExact'
    <2>1. Cardinality(Frames \ (bitmap \ fs)) = Cardinality(Frames \ bitmap) + Cardinality(fs)
      BY <1>5, ClearCount
    <2>2. QED
      BY <1>0, <1>1, <2>1 DEF FreeCountExact
  <1>9. TypeOK'
    <2>1. Cardinality(fs) \in Nat
      BY <1>3, FramesFinite
    <2>2. QED
      BY <1>0, <1>1, <1>2, <2>1 DEF TypeOK
  <1>10. QED
    BY <1>0, <1>2, <1>7, <1>8, <1>9 DEF IInv, Accounting, ZeroMeansFull, NoCall

\* The end of pmm_init: the kernel image is reserved.
LEMMA KernelStep ==
  ASSUME IInv, pmm_init_kernel
  PROVE  IInv'
  <1>0. /\ boot = "mmap" /\ next > Len(mmap) /\ boot' = "mods" /\ next' = 1
        /\ bitmap' = bitmap \cup KernelFrames
        /\ free_frames' = free_frames - Cardinality(KernelFrames \ bitmap)
        /\ cursor' = cursor /\ mmap' = mmap /\ ret' = ret /\ held' = held
    BY DEF pmm_init_kernel, set_used
  <1>1. TypeOK /\ FreeCountExact /\ BootShape
    BY DEF IInv
  <1>2. bitmap = Frames \ Usable
    BY <1>0, <1>1, UsableComplete DEF BootShape, TypeOK
  <1>3. Usable' = Usable
    BY <1>0 DEF Usable
  <1>4. ModuleFramesBefore(1) = {}
    BY ModuleFacts DEF ModuleFramesBefore, Registered
  <1>5. BootShape'
    BY <1>0, <1>1, <1>2, <1>3, <1>4, ModuleFacts DEF BootShape
  <1>6. Cardinality(KernelFrames \ bitmap) \in Nat
    BY KernelFramesInside, FramesFinite
  <1>7. FreeCountExact'
    <2>1. Cardinality(Frames \ (bitmap \cup KernelFrames)) =
            Cardinality(Frames \ bitmap) - Cardinality(KernelFrames \ bitmap)
      BY <1>1, SetCount, KernelFramesInside DEF TypeOK
    <2>2. QED
      BY <1>0, <1>1, <2>1 DEF FreeCountExact
  <1>8. TypeOK'
    BY <1>0, <1>1, <1>6, KernelFramesInside DEF TypeOK
  <1>9. QED
    BY <1>0, <1>1, <1>5, <1>7, <1>8 DEF IInv, Accounting, ZeroMeansFull, BootShape, NoCall

\* pmm_reserve of one module, which may overlap the kernel or an earlier one.
LEMMA ModuleStep ==
  ASSUME IInv, reserve_module
  PROVE  IInv'
  <1> DEFINE fs == IF next \in Registered
                     THEN Touched(Modules[next].start, Modules[next].end) \cap Frames
                     ELSE {}
  <1>0. /\ boot = "mods" /\ next <= Len(Modules) /\ next' = next + 1
        /\ bitmap' = bitmap \cup fs
        /\ free_frames' = free_frames - Cardinality(fs \ bitmap)
        /\ cursor' = cursor /\ boot' = boot /\ mmap' = mmap /\ ret' = ret /\ held' = held
    <2>1. CASE next \in Registered
      BY <2>1 DEF reserve_module, pmm_reserve, set_used
    <2>2. CASE next \notin Registered
      <3>1. free_frames \in Int
        BY DEF IInv, TypeOK
      <3>2. fs \ bitmap = {}
        BY <2>2
      <3>3. Cardinality(fs \ bitmap) = 0
        BY <3>2, FS_EmptySet
      <3>4. bitmap' = bitmap \cup fs /\ free_frames' = free_frames
        BY <2>2 DEF reserve_module
      <3>5. free_frames' = free_frames - Cardinality(fs \ bitmap)
        BY <3>1, <3>3, <3>4
      <3>6. QED
        BY <3>4, <3>5 DEF reserve_module
    <2>3. QED
      BY <2>1, <2>2
  <1>1. TypeOK /\ FreeCountExact /\ BootShape
    BY DEF IInv
  <1>2. next \in Nat /\ next \in DOMAIN Modules /\ held = {} /\ ret = NoCall
    BY <1>0, <1>1, ModuleFacts DEF TypeOK, BootShape
  <1>3. Usable' = Usable
    BY <1>0 DEF Usable
  <1>4. ModuleFramesBefore(next + 1) = ModuleFramesBefore(next) \cup fs
    <2>1. \A i \in Registered : i < next + 1 <=> i < next \/ i = next
      BY <1>2, ModuleFacts DEF Registered
    <2>2. QED
      BY <1>2, <2>1 DEF ModuleFramesBefore
  <1>5. BootShape'
    <2>1. bitmap' = (Frames \ Usable) \cup KernelFrames \cup ModuleFramesBefore(next + 1)
      BY <1>0, <1>1, <1>4 DEF BootShape
    <2>2. next + 1 <= Len(Modules) + 1
      BY <1>0, <1>2, ModuleFacts
    <2>3. QED
      BY <1>0, <1>2, <1>3, <2>1, <2>2 DEF BootShape
  <1>6. Cardinality(fs \ bitmap) \in Nat
    BY FramesFinite
  <1>7. FreeCountExact'
    <2>1. Cardinality(Frames \ (bitmap \cup fs)) =
            Cardinality(Frames \ bitmap) - Cardinality(fs \ bitmap)
      BY <1>1, SetCount DEF TypeOK
    <2>2. QED
      BY <1>0, <1>1, <2>1 DEF FreeCountExact
  <1>8. TypeOK'
    BY <1>0, <1>1, <1>2, <1>6 DEF TypeOK
  <1>9. QED
    BY <1>0, <1>2, <1>5, <1>7, <1>8 DEF IInv, Accounting, ZeroMeansFull, NoCall

\* After the last module the used frames are exactly the reserved ones.
LEMMA BootDoneStep ==
  ASSUME IInv, boot_done
  PROVE  IInv'
  <1>0. /\ boot = "mods" /\ next > Len(Modules) /\ boot' = "ready"
        /\ UNCHANGED <<bitmap, free_frames, cursor, next, mmap, ret, held>>
    BY DEF boot_done
  <1>1. TypeOK /\ FreeCountExact /\ BootShape
    BY DEF IInv
  <1>2. ModuleFramesBefore(next) = ModuleFrames \cap Frames
    BY <1>0, <1>1, ModulesComplete DEF TypeOK
  <1>3. Reserved' = Reserved
    BY <1>0 DEF Reserved, Usable
  <1>4. bitmap = Reserved /\ held = {} /\ ret = NoCall
    BY <1>0, <1>1, <1>2 DEF BootShape, Reserved
  <1>5. Accounting'
    BY <1>0, <1>3, <1>4 DEF Accounting
  <1>6. TypeOK' /\ FreeCountExact' /\ BootShape' /\ ZeroMeansFull'
    BY <1>0, <1>1, <1>4 DEF TypeOK, FreeCountExact, BootShape, ZeroMeansFull, NoCall
  <1>7. QED
    BY <1>5, <1>6 DEF IInv

\* pmm_alloc_frame: the frame found is neither reserved nor owned; if none is
\* found the search has met every frame.
LEMMA AllocStep ==
  ASSUME IInv, pmm_alloc_frame
  PROVE  IInv'
  <1>0. boot = "ready" /\ boot' = boot /\ next' = next /\ mmap' = mmap
    BY DEF pmm_alloc_frame
  <1>1. TypeOK /\ FreeCountExact /\ Accounting
    BY DEF IInv
  <1>2. Reserved' = Reserved
    BY <1>0 DEF Reserved, Usable
  <1>3. /\ held \subseteq bitmap /\ bitmap \subseteq Reserved \cup held
        /\ Reserved \ Window \subseteq bitmap \ held /\ mmap \in MemMaps
    BY <1>0, <1>1 DEF Accounting, TypeOK
  <1>4. BootShape'
    BY <1>0 DEF BootShape
  <1>5. CASE \E f \in Frames : /\ NextFit(f) /\ alloc_found(f)
                               /\ ret' = f * FrameSize /\ held' = held \cup {f}
    <2>1. PICK f \in Frames : /\ NextFit(f) /\ alloc_found(f)
                              /\ ret' = f * FrameSize /\ held' = held \cup {f}
      BY <1>5
    <2>2. /\ f \notin bitmap /\ bitmap' = bitmap \cup {f}
          /\ free_frames' = free_frames - 1
          /\ cursor' = (f + 1) % TotalFrames
      BY <2>1 DEF NextFit, alloc_found
    <2>3. Accounting'
      BY <1>0, <1>2, <1>3, <2>1, <2>2 DEF Accounting
    <2>4. FreeCountExact'
      <3>1. {f} \ bitmap = {f}
        BY <2>2
      <3>2. Cardinality({f} \ bitmap) = 1
        BY <3>1, SingletonCount
      <3>3. Cardinality(Frames \ (bitmap \cup {f})) =
              Cardinality(Frames \ bitmap) - Cardinality({f} \ bitmap)
        BY <1>1, SetCount DEF TypeOK
      <3>4. QED
        BY <1>1, <2>2, <3>2, <3>3 DEF FreeCountExact
    <2>5. f \in Nat /\ FrameSize \in Nat /\ FrameSize > 0
      BY PmmAssumption DEF Frames
    <2>6. f * FrameSize # 0
      <3>1. f # 0
        BY <1>3, <2>2, FrameZeroReserved, ZeroBelow
      <3>2. QED
        BY <2>5, <3>1
    <2>7. f * FrameSize \in Nat
      BY <2>5
    <2>8. (f + 1) % TotalFrames \in Frames
      BY <2>5, PmmAssumption DEF Frames
    <2>9. TypeOK'
      BY <1>0, <1>1, <2>1, <2>2, <2>7, <2>8 DEF TypeOK
    <2>10. ZeroMeansFull'
      BY <2>1, <2>6 DEF ZeroMeansFull
    <2>11. QED
      BY <1>4, <2>3, <2>4, <2>9, <2>10 DEF IInv
  <1>6. CASE alloc_exhausted /\ ret' = 0 /\ UNCHANGED held
    <2>1. /\ UNCHANGED <<bitmap, free_frames, cursor, held>> /\ ret' = 0
          /\ \A i \in Probes : Probe(i) \in bitmap
      BY <1>6 DEF alloc_exhausted
    <2>2. \A f \in Frames : f \in bitmap
      BY <1>1, <2>1, ProbesCover DEF TypeOK
    <2>3. bitmap = Frames
      BY <1>1, <2>2 DEF TypeOK
    <2>4. QED
      BY <1>0, <1>1, <1>2, <1>3, <1>4, <2>1, <2>3
         DEF IInv, TypeOK, FreeCountExact, Accounting, ZeroMeansFull
  <1>7. QED
    BY <1>5, <1>6 DEF pmm_alloc_frame

\* pmm_free_frame, of a frame of the window whatever it is, and past the cap.
LEMMA FreeStep ==
  ASSUME IInv, NEW phys, pmm_free_frame(phys)
  PROVE  IInv'
  <1> DEFINE f == phys \div FrameSize
  <1>0. /\ boot = "ready" /\ boot' = boot /\ next' = next /\ mmap' = mmap
        /\ cursor' = cursor /\ ret' = NoCall /\ held' = held \ {f}
        /\ f \in held \/ f >= UserMin
        /\ free_bit(f)
    BY DEF pmm_free_frame
  <1> HIDE DEF f
  <1>1. TypeOK /\ FreeCountExact /\ Accounting
    BY DEF IInv
  <1>2. Reserved' = Reserved
    BY <1>0 DEF Reserved, Usable
  <1>3. /\ held \subseteq bitmap /\ bitmap \subseteq Reserved \cup held
        /\ Reserved \ Window \subseteq bitmap \ held /\ bitmap \subseteq Frames
    BY <1>0, <1>1 DEF Accounting, TypeOK
  <1>4. BootShape' /\ ZeroMeansFull'
    BY <1>0 DEF BootShape, ZeroMeansFull, NoCall
  <1>6. CASE f < TotalFrames /\ f \in bitmap
    <2>1. bitmap' = bitmap \ {f} /\ free_frames' = free_frames + 1
      BY <1>0, <1>6 DEF free_bit
    <2>2. f \in held \/ f \in Window
      BY <1>0, <1>3, <1>6 DEF Window
    <2>3. Accounting'
      BY <1>0, <1>2, <1>3, <2>1, <2>2 DEF Accounting
    <2>4. Cardinality(Frames \ (bitmap \ {f})) = Cardinality(Frames \ bitmap) + Cardinality({f})
      BY <1>3, <1>6, ClearCount
    <2>5. FreeCountExact'
      BY <1>1, <2>1, <2>4, SingletonCount DEF FreeCountExact
    <2>6. TypeOK'
      BY <1>0, <1>1, <2>1 DEF TypeOK
    <2>7. QED
      BY <1>4, <2>3, <2>5, <2>6 DEF IInv
  <1>7. CASE ~(f < TotalFrames /\ f \in bitmap)
    <2>1. bitmap' = bitmap /\ free_frames' = free_frames
      BY <1>0, <1>7 DEF free_bit
    <2>2. \A g \in Frames : g < TotalFrames
      BY PmmAssumption DEF Frames
    <2>3. f \notin held
      BY <1>3, <1>7, <2>2
    <2>4. held' = held
      BY <1>0, <2>3
    <2>5. QED
      BY <1>0, <1>1, <1>2, <1>4, <2>1, <2>4 DEF IInv, TypeOK, FreeCountExact, Accounting
  <1>8. QED
    BY <1>6, <1>7

\* Every step preserves the invariant.
LEMMA NextIInv == IInv /\ [Next]_vars => IInv'
  <1> SUFFICES ASSUME IInv, [Next]_vars PROVE IInv'
    OBVIOUS
  <1>1. CASE UNCHANGED vars
    <2>1. /\ UNCHANGED <<bitmap, free_frames, cursor, boot, next, mmap, ret, held>>
      BY <1>1 DEF vars
    <2>2. Reserved' = Reserved /\ UsableBefore(next)' = UsableBefore(next) /\ Usable' = Usable
      BY <2>1 DEF Reserved, UsableBefore, Usable
    <2>3. ModuleFramesBefore(next)' = ModuleFramesBefore(next)
      BY <2>1 DEF ModuleFramesBefore
    <2>4. QED
      BY <2>1, <2>2, <2>3
         DEF IInv, TypeOK, FreeCountExact, BootShape, Accounting, ZeroMeansFull
  <1>2. CASE Next
    BY <1>2, EntryStep, KernelStep, ModuleStep, BootDoneStep, AllocStep, FreeStep DEF Next
  <1>3. QED
    BY <1>1, <1>2

\* The bitmap is what the boot phase says, the counter is exact, and the
\* frames are accounted for, in every reachable state.
THEOREM PmmInductive == Spec => []IInv
  BY InitIInv, NextIInv, PTL DEF Spec
-----------------------------------------------------------------------------
\* Every value the allocator keeps has its type, for every configuration.
THEOREM PmmTypeCorrect == Spec => []TypeOK
  BY PmmInductive, PTL DEF IInv

\* The counter behind pmm_free_kb is exact in every reachable state.
THEOREM PmmFreeCountExact == Spec => []FreeCountExact
  BY PmmInductive, PTL DEF IInv

\* No frame is lost or handed out twice, and below the user window none is
\* handed out though reserved, whatever frames of the window are freed.
THEOREM PmmAccounting == Spec => []Accounting
  BY PmmInductive, PTL DEF IInv

\* A zero from pmm_alloc_frame means that no frame is free.
THEOREM PmmZeroMeansFull == Spec => []ZeroMeansFull
  BY PmmInductive, PTL DEF IInv

\* The bytes of a frame that is not reserved are available memory that
\* neither the kernel nor a module uses: frame numbers were rounded the safe
\* way in pmm_init and in pmm_reserve.
LEMMA UnreservedIsSafe ==
  ASSUME mmap \in MemMaps, NEW f \in Frames \ Reserved
  PROVE  Safe(f)
  <1> SUFFICES ASSUME NEW b \in Byte(f)
               PROVE  /\ b >= LowMem
                      /\ ~(KernelStart <= b /\ b < KernelEnd)
                      /\ \A i \in Registered :
                           ~(Modules[i].start <= b /\ b < Modules[i].end)
                      /\ \E i \in DOMAIN mmap : InEntry(b, mmap[i])
    BY DEF Safe
  <1>0. /\ f \in Nat /\ FrameSize \in Nat /\ FrameSize > 0 /\ LowMem \in Nat
        /\ KernelStart \in Nat /\ KernelEnd \in Nat
    BY PmmAssumption DEF Frames
  <1>1. /\ f * FrameSize \in Nat
        /\ (f + 1) * FrameSize = f * FrameSize + FrameSize
    BY <1>0, MulMono
  <1>2. /\ b \in Int /\ f * FrameSize <= b /\ b < f * FrameSize + FrameSize
    BY <1>0, <1>1 DEF Byte
  <1>3. f \notin Reserved /\ mmap \in MemMaps
    OBVIOUS
  <1>4. ~(KernelStart <= b /\ b < KernelEnd)
    <2>1. f \notin Touched(KernelStart, KernelEnd)
      BY <1>3 DEF Reserved, KernelFrames
    <2>2. f * FrameSize + FrameSize <= KernelStart \/ KernelEnd <= f * FrameSize
      BY <1>0, <2>1, TouchedCovers
    <2>3. QED
      BY <1>0, <1>1, <1>2, <2>2
  <1>5. ASSUME NEW i \in Registered
        PROVE  ~(Modules[i].start <= b /\ b < Modules[i].end)
    <2>1. Modules[i].start \in Nat /\ Modules[i].end \in Nat
      BY ModuleFacts DEF Registered
    <2>2. f \notin Touched(Modules[i].start, Modules[i].end)
      BY <1>3 DEF Reserved, ModuleFrames
    <2>3. f * FrameSize + FrameSize <= Modules[i].start \/ Modules[i].end <= f * FrameSize
      BY <1>0, <2>1, <2>2, TouchedCovers
    <2>4. QED
      BY <1>0, <1>1, <1>2, <2>1, <2>3
  <1>6. PICK i \in DOMAIN mmap : mmap[i].available /\ f \in EntryFrames(mmap[i])
    BY <1>3 DEF Reserved, Usable
  <1>7. mmap[i] \in MmapEntry
    BY <1>3, MmapFacts
  <1>8. mmap[i].addr \in Nat /\ mmap[i].len \in Nat
    BY <1>7 DEF MmapEntry
  <1>9. /\ LowMem <= f * FrameSize
        /\ mmap[i].addr <= f * FrameSize
        /\ f * FrameSize + FrameSize <= mmap[i].addr + mmap[i].len
    BY <1>6, <1>7, EntryFramesInside
  <1>10. b >= LowMem
    BY <1>0, <1>1, <1>2, <1>9
  <1>11. InEntry(b, mmap[i])
    BY <1>0, <1>1, <1>2, <1>6, <1>8, <1>9 DEF InEntry
  <1>12. QED
    BY <1>4, <1>5, <1>10, <1>11

\* What the books say of the bytes of a frame.
LEMMA SafeBytesFromAccounting == IInv => SafeBytes
  <1> SUFFICES ASSUME IInv PROVE SafeBytes
    OBVIOUS
  <1>1. mmap \in MemMaps /\ TypeOK /\ BootShape /\ Accounting
    BY DEF IInv, TypeOK
  <1>2. ASSUME BootOver, NEW f \in Frames \ bitmap PROVE Safe(f)
    <2>1. ModuleFramesBefore(next) = ModuleFrames \cap Frames
      BY <1>1, <1>2, ModulesComplete DEF TypeOK, BootOver
    <2>2. bitmap = Reserved
      BY <1>1, <1>2, <2>1 DEF BootShape, BootOver, Reserved
    <2>3. QED
      BY <1>1, <2>2, UnreservedIsSafe
  <1>3. ASSUME boot = "ready", NEW f \in ((Frames \ bitmap) \cup held) \ Window PROVE Safe(f)
    <2>1. f \in Frames \ Reserved
      BY <1>1, <1>3 DEF Accounting, TypeOK
    <2>2. QED
      BY <1>1, <2>1, UnreservedIsSafe
  <1>4. QED
    BY <1>2, <1>3 DEF SafeBytes

\* At the end of boot no frame that may be handed out holds a byte of the
\* first megabyte, of the kernel, of a module, or of memory the map does not
\* call available, and below the user window none ever does.
THEOREM PmmSafeBytes == Spec => []SafeBytes
  BY PmmInductive, SafeBytesFromAccounting, PTL
-----------------------------------------------------------------------------
(* The inductive invariant. Where a launch is:                             *)

AtSegment == seg \in DOMAIN Segs(prog) /\ page \in SegPages(prog, seg)
AtStack == seg = Len(Segs(prog)) + 1 /\ page \in StackPages
Mapping == {"split", "fill", "map", "map_large"}

Control ==
  /\ pc # "boot" => boot = "ready"
  /\ pc = "page" => AtSegment
  /\ pc \in Mapping => AtSegment \/ AtStack
  /\ pc = "copy" => seg \in DOMAIN Segs(prog)
  /\ pc \in {"stack1", "stack2", "jump", "user"} => seg = Len(Segs(prog)) + 1

\* The pages of this launch that have had their turn.
SegsBefore(i, k) == UNION {SegPages(i, l) : l \in {m \in DOMAIN Segs(i) : m < k}}
Partly ==
  IF pc \in {"page"} \cup Mapping
    THEN {p \in IF page \in StackPages THEN StackPages ELSE SegPages(prog, seg) : p < page}
  ELSE IF pc = "copy" THEN SegPages(prog, seg)
  ELSE IF pc \in {"jump", "user"} THEN StackPages
  ELSE {}
Done == SegsBefore(prog, seg) \cup Partly

\* The frames the launch has got and not mapped yet.
Pending ==
  IF pc \in Mapping
    THEN {frame} \cup (IF page = StackPage(1) THEN {stack[2]} ELSE {})
                 \cup (IF pc = "fill" THEN {table} ELSE {})
  ELSE IF pc = "stack2" THEN {stack[1]} \ {0}
  ELSE {}

\* As long as no frame of the user window was handed out: a page is mapped to
\* a frame of its own, or to the frame of its number, or not at all.
Mapped == {pte[p] : p \in user}
Owned ==
  /\ held \subseteq bitmap \ {0} /\ 0 \in bitmap /\ \A f \in held : f < UserMin
  /\ TableFrames \subseteq held
  /\ \A p \in user : /\ p \in UserMin .. StackPage(2) /\ IsSplit(RegionOf(p))
                     /\ pte[p] \in held \ (TableFrames \cup leaked)
                     /\ \A q \in user : pte[p] = pte[q] => p = q
  /\ \A p \in Pages \ user : pte[p] = p \/ (pte[p] = NotPresent /\ IsSplit(RegionOf(p)))

\* And what the launch has got is accounted for, mapped and copied so far.
Stopped == {"boot", "panic", "corrupt"}
Launched == {"page", "copy", "stack1", "stack2", "jump", "user"} \cup Mapping
Progress ==
  /\ held = TableFrames \cup Mapped \cup leaked \cup Pending
  /\ Pending \cap (TableFrames \cup Mapped \cup leaked) = {}
  /\ pc \in Mapping /\ page = StackPage(1) => frame # stack[2]
  /\ pc = "fill" => /\ table # frame /\ (page = StackPage(1) => table # stack[2])
                    /\ ~IsSplit(RegionOf(page))
  /\ pc = "map" => IsSplit(RegionOf(page))
  /\ pc = "header" => user = {}
  /\ pc \in Launched => /\ user \subseteq Done
                        /\ \A p \in user \cap SegsBefore(prog, seg) : mem[pte[p]] = <<prog, p>>
  /\ pc = "user" => /\ ImagePages(prog) \cup StackPages \subseteq user
                    /\ mem[pte[StackPage(2)]] = Arguments

EInv ==
  /\ ExecTypeOK
  /\ Control
  /\ pc = "boot" => IInv /\ held = {} /\ user = {} /\ leaked = {} /\ TableFrames = {}
                    /\ \A p \in Pages : pte[p] = p
  /\ pc # "boot" /\ ~high => Owned
  /\ pc \notin Stopped /\ ~high => Progress
-----------------------------------------------------------------------------
(* The numbers of frames, pages and large pages.                           *)

LEMMA Numbers ==
  /\ Region \in Nat /\ Region >= 2 /\ UserMin \in Nat /\ 0 < UserMin
  /\ TotalFrames \in Nat /\ UserMin < TotalFrames
  /\ StackPage(1) = TotalFrames /\ StackPage(2) = TotalFrames + 1
  /\ StackPages = {TotalFrames, TotalFrames + 1}
  /\ Frames \subseteq Pages /\ 0 \in Frames
  /\ UserMin .. StackPage(2) \subseteq Pages /\ StackPages \subseteq UserMin .. StackPage(2)
<1>1. /\ Region \in Nat /\ Region >= 2 /\ UserMin \in Nat /\ 0 < UserMin
      /\ TotalFrames \in Nat /\ UserMin < TotalFrames
  BY PmmAssumption, ExecAssumption
<1>2. StackPage(1) = TotalFrames /\ StackPage(2) = TotalFrames + 1
  BY <1>1 DEF StackPage
<1> QED BY <1>1, <1>2 DEF StackPages, Frames, Pages

\* Products with Region keep the order.
LEMMA RegionMono ==
  ASSUME NEW a \in Nat, NEW b \in Nat, a < b
  PROVE  a * Region + Region <= b * Region
<1>1. Region \in Nat
  BY Numbers
<1>2. PICK d \in Nat : b = a + 1 + d
  <2>1. b - a - 1 \in Nat /\ b = a + 1 + (b - a - 1)
    OBVIOUS
  <2> QED BY <2>1
<1>3. b * Region = a * Region + Region + d * Region /\ d * Region >= 0
  BY <1>1, <1>2
<1> QED BY <1>1, <1>3

\* Every page is in a region.
LEMMA RegionOfPage ==
  ASSUME NEW p \in Pages
  PROVE  RegionOf(p) \in Regions
<1> DEFINE r == p \div Region
           n == TotalFrames \div Region
<1>1. Region \in Nat /\ Region > 0 /\ TotalFrames \in Nat /\ p \in Nat /\ p < TotalFrames + Region
  BY Numbers DEF Pages
<1>2. TotalFrames = n * Region
  <2>1. TotalFrames % Region = 0
    BY ExecAssumption
  <2> QED BY <1>1, <2>1
<1>3. r \in Nat /\ n \in Nat /\ r * Region <= p
  BY <1>1, DivBounds
<1>4. ~(n < r)
  <2> SUFFICES ASSUME n < r PROVE FALSE
    OBVIOUS
  <2>1. n * Region + Region <= r * Region
    <3> HIDE DEF n, r
    <3> QED BY <1>3, RegionMono
  <2>2. n * Region \in Nat /\ r * Region \in Nat
    BY <1>1, <1>3
  <2> HIDE DEF n, r
  <2> QED BY <1>1, <1>2, <1>3, <2>1, <2>2
<1> HIDE DEF n, r
<1>5. r \in 0 .. n
  BY <1>3, <1>4
<1> QED BY <1>5 DEF n, r, RegionOf, Regions

\* The segments of a program.
LEMMA SegFacts ==
  ASSUME NEW i \in DOMAIN Programs
  PROVE  /\ Len(Segs(i)) \in Nat /\ DOMAIN Segs(i) = 1 .. Len(Segs(i))
         /\ \A k \in DOMAIN Segs(i) :
              /\ Segs(i)[k].first \in Nat /\ Segs(i)[k].last \in Nat
              /\ Segs(i)[k].first <= Segs(i)[k].last
              /\ SegPages(i, k) \subseteq UserMin .. TotalFrames - 1
              /\ \A l \in DOMAIN Segs(i) : k # l => SegPages(i, k) \cap SegPages(i, l) = {}
<1> DEFINE S == [first : Nat, last : Nat]
<1>1. Programs[i] \in [segs : Seq(S), defect : Int]
  <2> DEFINE P == [segs : Seq(S), defect : Int]
  <2>1. Programs \in Seq(P)
    BY ExecAssumption
  <2>2. Programs[i] \in P
    <3> HIDE DEF P
    <3> QED BY <2>1
  <2> QED BY <2>2
<1>2. Segs(i) \in Seq(S)
  BY <1>1 DEF Segs
<1>3. Len(Segs(i)) \in Nat /\ DOMAIN Segs(i) = 1 .. Len(Segs(i))
      /\ \A k \in DOMAIN Segs(i) : Segs(i)[k] \in S
  <2> HIDE DEF S
  <2> QED BY <1>2
<1>4. \A k \in DOMAIN Segs(i) : Segs(i)[k].first \in Nat /\ Segs(i)[k].last \in Nat
  BY <1>3
<1>5. \A k \in DOMAIN Segs(i) :
        /\ Segs(i)[k].first <= Segs(i)[k].last
        /\ SegPages(i, k) \subseteq UserMin .. TotalFrames - 1
        /\ \A l \in DOMAIN Segs(i) : k # l => SegPages(i, k) \cap SegPages(i, l) = {}
  BY ExecAssumption
<1> QED BY <1>3, <1>4, <1>5

\* There is an init.
LEMMA InitIsThere == 1 \in DOMAIN Programs
<1>1. Len(Programs) \in Nat /\ DOMAIN Programs = 1 .. Len(Programs) /\ Len(Programs) # 0
  <2> DEFINE S == [segs : Seq([first : Nat, last : Nat]), defect : Int]
  <2>1. Programs \in Seq(S) /\ Programs # <<>>
    BY ExecAssumption
  <2> HIDE DEF S
  <2> QED BY <2>1
<1> QED BY <1>1

-----------------------------------------------------------------------------
(* A call of pmm_alloc_frame: a frame that nobody has, or none.            *)

LEMMA AllocateFacts ==
  ASSUME TypeOK, boot = "ready", Allocate
  PROVE  /\ TypeOK' /\ boot' = "ready" /\ Allocated \in Frames
         /\ high' \in BOOLEAN /\ refused' \in BOOLEAN
         /\ ~high' => ~high
         /\ \/ Allocated = 0 /\ held' = held /\ bitmap' = bitmap
            \/ /\ Allocated \notin bitmap /\ (~high' => Allocated < UserMin)
               /\ held' = held \cup {Allocated} /\ bitmap' = bitmap \cup {Allocated}
<1>0. /\ FrameSize \in Nat /\ FrameSize > 0 /\ TotalFrames \in Nat /\ TotalFrames > 0
      /\ UserMin \in Nat
  BY PmmAssumption, Numbers
<1>1. pmm_alloc_frame /\ high' \in BOOLEAN /\ refused' \in BOOLEAN /\ (~high' => ~high)
      /\ (~high' => ~(ret' >= UserMin * FrameSize))
  BY Zenon DEF Allocate
<1>2. boot' = "ready" /\ next' = next /\ mmap' = mmap
  BY <1>1 DEF pmm_alloc_frame
<1>3. CASE alloc_exhausted /\ ret' = 0 /\ held' = held
  <2>1. bitmap' = bitmap /\ free_frames' = free_frames /\ cursor' = cursor
    BY <1>3 DEF alloc_exhausted
  <2>2. Allocated = 0
    BY <1>0, <1>3 DEF Allocated
  <2>3. TypeOK'
    BY <1>2, <1>3, <2>1 DEF TypeOK
  <2> QED BY <1>1, <1>2, <1>3, <2>1, <2>2, <2>3, Numbers
<1>4. ASSUME NEW f \in Frames, NextFit(f), alloc_found(f), ret' = f * FrameSize,
             held' = held \cup {f}
      PROVE  /\ TypeOK' /\ Allocated = f /\ f \notin bitmap /\ bitmap' = bitmap \cup {f}
             /\ ~high' => f < UserMin
  <2>1. f \in Nat /\ f < TotalFrames /\ f * FrameSize \in Nat
    BY <1>0 DEF Frames
  <2>2. Allocated = f
    <3> DEFINE q == (f * FrameSize) \div FrameSize
    <3>1. q \in Nat /\ q * FrameSize <= f * FrameSize /\ f * FrameSize < q * FrameSize + FrameSize
      BY <1>0, <2>1, DivBounds
    <3> HIDE DEF q
    <3>2. ~(q < f) /\ ~(f < q)
      <4>1. q < f => q * FrameSize + FrameSize <= f * FrameSize
        BY <2>1, <3>1, MulMono
      <4>2. f < q => f * FrameSize + FrameSize <= q * FrameSize
        BY <2>1, <3>1, MulMono
      <4>3. q * FrameSize \in Int
        BY <3>1, MulMono
      <4> QED BY <1>0, <2>1, <3>1, <4>1, <4>2, <4>3
    <3>3. q = f
      BY <2>1, <3>1, <3>2
    <3> QED BY <1>4, <3>3 DEF q, Allocated
  <2>3. f \notin bitmap
    BY <1>4 DEF NextFit
  <2>4. bitmap' = bitmap \cup {f} /\ free_frames' = free_frames - 1 /\ cursor' = (f + 1) % TotalFrames
    BY <1>4 DEF alloc_found
  <2>5. cursor' \in Frames
    BY <1>0, <2>1, <2>4 DEF Frames
  <2>6. TypeOK'
    BY <1>2, <1>4, <2>1, <2>4, <2>5 DEF TypeOK
  <2>7. ~high' => f < UserMin
    <3> SUFFICES ASSUME ~high', ~(f < UserMin) PROVE FALSE
      OBVIOUS
    <3>1. UserMin * FrameSize <= f * FrameSize
      BY <1>0, <2>1, MulMono
    <3>2. UserMin * FrameSize \in Int
      BY <1>0, MulMono
    <3> QED BY <1>1, <1>4, <2>1, <3>1, <3>2
  <2> QED BY <2>2, <2>3, <2>4, <2>6, <2>7
<1> QED BY <1>1, <1>2, <1>3, <1>4, Numbers DEF pmm_alloc_frame

LEMMA NoAllocationFacts ==
  ASSUME NoAllocation
  PROVE  /\ bitmap' = bitmap /\ free_frames' = free_frames /\ cursor' = cursor /\ boot' = boot
         /\ next' = next /\ mmap' = mmap /\ ret' = ret /\ held' = held
         /\ high' = high /\ refused' = refused
         /\ TypeOK => TypeOK'
<1>1. /\ bitmap' = bitmap /\ free_frames' = free_frames /\ cursor' = cursor /\ boot' = boot
      /\ next' = next /\ mmap' = mmap /\ ret' = ret /\ held' = held
      /\ high' = high /\ refused' = refused
  BY DEF NoAllocation, vars
<1> QED BY <1>1 DEF TypeOK

-----------------------------------------------------------------------------
(* Where a step of a launch leads.                                         *)

LEMMA FailFacts ==
  ASSUME ExecTypeOK, Fail
  PROVE  /\ pc' = "lost" \/ pc' = "unmap"
         /\ prog' \in DOMAIN Programs /\ fallback' \in BOOLEAN
<1>1. pc' = "lost" \/ pc' = "unmap"
  BY DEF Fail, Goto
<1>2. prog' \in DOMAIN Programs
  BY InitIsThere DEF Fail, args, ExecTypeOK
<1>3. fallback' \in BOOLEAN
  BY Zenon DEF Fail, args, ExecTypeOK
<1> QED BY <1>1, <1>2, <1>3

LEMMA SegmentFacts ==
  ASSUME ExecTypeOK, NEW k \in 1 .. Len(Segs(prog)) + 1, Segment(k)
  PROVE  /\ seg' = k /\ prog' \in DOMAIN Programs /\ fallback' \in BOOLEAN /\ page' \in Pages
         /\ \/ (pc' = "lost" \/ pc' = "unmap") /\ page' = page
            \/ /\ pc' = "page" /\ prog' = prog /\ k \in DOMAIN Segs(prog)
               /\ page' = Segs(prog)[k].first /\ page' \in SegPages(prog, k)
            \/ pc' = "stack1" /\ prog' = prog /\ k = Len(Segs(prog)) + 1 /\ page' = page
<1>0. prog \in DOMAIN Programs /\ page \in Pages
  BY DEF ExecTypeOK
<1>1. DOMAIN Segs(prog) = 1 .. Len(Segs(prog)) /\ Len(Segs(prog)) \in Nat
  BY <1>0, SegFacts
<1>2. CASE Programs[prog].defect = k
  <2>1. seg' = k /\ Fail /\ page' = page
    BY <1>2 DEF Segment
  <2> QED BY <1>0, <2>1, FailFacts
<1>3. CASE Programs[prog].defect # k /\ k \in DOMAIN Segs(prog)
  <2>1. /\ seg' = k /\ pc' = "page" /\ page' = Segs(prog)[k].first
        /\ prog' = prog /\ fallback' = fallback
    BY <1>3 DEF Segment, Goto, args
  <2>2. page' \in SegPages(prog, k) /\ page' \in Pages
    <3>1. page' \in SegPages(prog, k)
      BY <1>0, <1>3, <2>1, SegFacts DEF SegPages
    <3>2. SegPages(prog, k) \subseteq UserMin .. TotalFrames - 1
      BY <1>0, <1>3, SegFacts
    <3> QED BY <3>1, <3>2, Numbers DEF Pages
  <2>3. fallback' \in BOOLEAN
    BY <2>1 DEF ExecTypeOK
  <2> QED BY <1>0, <1>3, <2>1, <2>2, <2>3
<1>4. CASE Programs[prog].defect # k /\ k \notin DOMAIN Segs(prog)
  <2>1. seg' = k /\ pc' = "stack1" /\ page' = page /\ prog' = prog /\ fallback' = fallback
    BY <1>4 DEF Segment, Goto, args
  <2>2. k = Len(Segs(prog)) + 1
    BY <1>1, <1>4
  <2>3. fallback' \in BOOLEAN
    BY <2>1 DEF ExecTypeOK
  <2> QED BY <1>0, <2>1, <2>2, <2>3
<1> QED BY <1>2, <1>3, <1>4

\* The page a launch is at is one of the user window.
LEMMA PageFacts ==
  ASSUME ExecTypeOK
  PROVE  /\ AtSegment => page \in UserMin .. TotalFrames - 1 /\ page \notin StackPages
         /\ AtStack => page = StackPage(1) \/ page = StackPage(2)
         /\ ~(AtSegment /\ AtStack)
<1>1. prog \in DOMAIN Programs
  BY DEF ExecTypeOK
<1>2. AtSegment => page \in UserMin .. TotalFrames - 1
  BY <1>1, SegFacts DEF AtSegment
<1> QED BY <1>2, Numbers DEF AtSegment, AtStack

LEMMA MapNextFacts ==
  ASSUME ExecTypeOK, AtSegment \/ AtStack, MapNext
  PROVE  \/ AtStack /\ page = StackPage(2) /\ pc' = "jump" /\ page' = page /\ frame' = frame
         \/ /\ AtStack /\ page = StackPage(1) /\ pc' = "split" /\ page' = StackPage(2)
            /\ frame' = stack[2]
         \/ /\ AtSegment /\ pc' = "page" /\ page' = page + 1 /\ page + 1 \in SegPages(prog, seg)
            /\ frame' = frame
         \/ /\ AtSegment /\ pc' = "copy" /\ page' = page /\ frame' = frame
            /\ \A p \in SegPages(prog, seg) : p <= page
<1>1. CASE AtStack
  <2>1. page = StackPage(1) \/ page = StackPage(2)
    BY <1>1, PageFacts
  <2>2. StackPage(1) # StackPage(2)
    BY Numbers
  <2> QED BY <1>1, <2>1, <2>2 DEF MapNext, Goto
<1>2. CASE AtSegment
  <2>1. page \in UserMin .. TotalFrames - 1 /\ page # StackPage(1) /\ page # StackPage(2)
    BY <1>2, PageFacts, Numbers
  <2>2. prog \in DOMAIN Programs /\ seg \in DOMAIN Segs(prog) /\ page \in SegPages(prog, seg)
    BY <1>2 DEF AtSegment, ExecTypeOK
  <2>3. Segs(prog)[seg].first \in Nat /\ Segs(prog)[seg].last \in Nat
    BY <2>2, SegFacts
  <2>4. CASE page < Segs(prog)[seg].last
    <3>1. page + 1 \in SegPages(prog, seg)
      BY <2>1, <2>2, <2>3, <2>4, Numbers DEF SegPages
    <3> QED BY <1>2, <2>1, <2>4, <3>1 DEF MapNext, Goto
  <2>5. CASE ~(page < Segs(prog)[seg].last)
    <3>1. \A p \in SegPages(prog, seg) : p <= page
      BY <2>1, <2>2, <2>3, <2>5, Numbers DEF SegPages
    <3> QED BY <1>2, <2>1, <2>5, <3>1 DEF MapNext, Goto
  <2> QED BY <2>4, <2>5
<1> QED BY <1>1, <1>2

-----------------------------------------------------------------------------
(* Types and control.                                                      *)

\* The parts of ExecTypeOK.
TableTypes ==
  /\ split \in [Regions -> Frames]
  /\ pte \in [Pages -> Pages \cup {NotPresent}]
  /\ user \subseteq Pages
LocalTypes ==
  /\ seg \in Nat /\ page \in Pages /\ frame \in Frames /\ table \in Frames
  /\ stack \in Frames \X Frames
Flags == fallback \in BOOLEAN /\ high \in BOOLEAN /\ refused \in BOOLEAN
Labels == {"boot", "unmap", "header", "page", "split", "fill", "map", "map_large", "copy",
           "stack1", "stack2", "jump", "user", "lost", "panic", "corrupt"}

LEMMA TypeParts ==
  ExecTypeOK <=> /\ TypeOK /\ TableTypes /\ LocalTypes /\ Flags /\ DOMAIN mem = Frames
                 /\ pc \in Labels /\ prog \in DOMAIN Programs /\ leaked \subseteq Frames
  BY Zenon DEF ExecTypeOK, TableTypes, LocalTypes, Flags, Labels

LEMMA TypePartsNext ==
  ExecTypeOK' <=> /\ TypeOK' /\ TableTypes' /\ LocalTypes' /\ Flags' /\ DOMAIN mem' = Frames
                  /\ pc' \in Labels /\ prog' \in DOMAIN Programs /\ leaked' \subseteq Frames
  BY Zenon DEF ExecTypeOK, TableTypes, LocalTypes, Flags, Labels

LEMMA UnmapTypes ==
  ASSUME ExecTypeOK, Control, unmap_range
  PROVE  ExecTypeOK' /\ Control'
<1>0. /\ TypeOK /\ TableTypes /\ LocalTypes /\ Flags /\ DOMAIN mem = Frames
      /\ pc \in Labels /\ prog \in DOMAIN Programs /\ leaked \subseteq Frames
  BY TypeParts
<1>1. /\ bitmap' = bitmap \ Released /\ free_frames' = free_frames + Cardinality(Released \cap bitmap)
      /\ held' = held \ Released /\ user' = user \ Cleared /\ pc = "unmap" /\ pc' = "header"
      /\ pte' = [p \in Pages |-> IF p \in Cleared THEN NotPresent ELSE pte[p]]
      /\ cursor' = cursor /\ boot' = boot /\ next' = next /\ mmap' = mmap /\ ret' = NoCall
      /\ split' = split /\ mem' = mem /\ prog' = prog /\ fallback' = fallback
      /\ high' = high /\ refused' = refused /\ leaked' = leaked
  BY DEF unmap_range, At, Goto, args, history
<1>2. seg' = seg /\ page' = page /\ frame' = frame /\ table' = table /\ stack' = stack
  BY DEF unmap_range, locals
<1>3. TypeOK'
  <2>1. Released \cap bitmap \in SUBSET Frames
    BY <1>0 DEF TypeOK
  <2>2. Cardinality(Released \cap bitmap) \in Nat
    BY <2>1, FramesFinite
  <2>3. free_frames' \in Int
    BY <1>0, <1>1, <2>2 DEF TypeOK
  <2> QED BY <1>0, <1>1, <2>3 DEF TypeOK
<1>4. TableTypes'
  BY <1>0, <1>1 DEF TableTypes
<1>5. LocalTypes' /\ Flags'
  BY <1>0, <1>1, <1>2 DEF LocalTypes, Flags
<1>6. pc' \in Labels
  BY <1>1 DEF Labels
<1>7. ExecTypeOK'
  BY <1>0, <1>1, <1>3, <1>4, <1>5, <1>6, TypePartsNext, Zenon
<1>8. Control'
  BY <1>1 DEF Control, Mapping
<1> QED BY <1>7, <1>8

LEMMA HeaderTypes ==
  ASSUME ExecTypeOK, Control, elf_header
  PROVE  ExecTypeOK' /\ Control'
<1>0. /\ TypeOK /\ TableTypes /\ LocalTypes /\ Flags /\ DOMAIN mem = Frames
      /\ pc \in Labels /\ prog \in DOMAIN Programs /\ leaked \subseteq Frames
  BY TypeParts
<1>1. /\ pc = "header" /\ NoAllocation /\ split' = split /\ pte' = pte /\ user' = user /\ mem' = mem
      /\ frame' = frame /\ table' = table /\ stack' = stack /\ leaked' = leaked
  BY DEF elf_header, At, tables
<1>2. TypeOK' /\ TableTypes' /\ boot' = boot /\ high' = high /\ refused' = refused
  BY <1>0, <1>1, NoAllocationFacts DEF TableTypes
<1>3. \/ Fail /\ seg' = seg /\ page' = page
      \/ Segment(1)
  BY DEF elf_header
<1>4. 1 \in 1 .. Len(Segs(prog)) + 1
  BY <1>0, SegFacts
<1>5. CASE Fail /\ seg' = seg /\ page' = page
  <2>1. (pc' = "lost" \/ pc' = "unmap") /\ prog' \in DOMAIN Programs /\ fallback' \in BOOLEAN
    BY <1>5, FailFacts
  <2>2. LocalTypes' /\ Flags' /\ pc' \in Labels
    BY <1>0, <1>1, <1>2, <1>5, <2>1 DEF LocalTypes, Flags, Labels
  <2>3. ExecTypeOK'
    BY <1>0, <1>1, <1>2, <2>1, <2>2, TypePartsNext, Zenon
  <2> QED BY <1>1, <1>2, <2>1, <2>3 DEF Control, Mapping
<1>6. CASE Segment(1)
  <2>1. seg' = 1 /\ prog' \in DOMAIN Programs /\ fallback' \in BOOLEAN /\ page' \in Pages
    BY <1>4, <1>6, SegmentFacts
  <2>2. \/ (pc' = "lost" \/ pc' = "unmap")
        \/ pc' = "page" /\ prog' = prog /\ 1 \in DOMAIN Segs(prog) /\ page' \in SegPages(prog, 1)
        \/ pc' = "stack1" /\ prog' = prog /\ 1 = Len(Segs(prog)) + 1
    BY <1>4, <1>6, SegmentFacts
  <2>3. LocalTypes' /\ Flags' /\ pc' \in Labels
    BY <1>0, <1>1, <1>2, <2>1, <2>2 DEF LocalTypes, Flags, Labels
  <2>4. ExecTypeOK'
    BY <1>0, <1>1, <1>2, <2>1, <2>3, TypePartsNext, Zenon
  <2> QED BY <1>1, <1>2, <2>1, <2>2, <2>4 DEF Control, Mapping, AtSegment
<1> QED BY <1>3, <1>5, <1>6

LEMMA PageTypes ==
  ASSUME ExecTypeOK, Control, elf_page
  PROVE  ExecTypeOK' /\ Control'
<1>0. /\ TypeOK /\ TableTypes /\ LocalTypes /\ Flags /\ DOMAIN mem = Frames
      /\ pc \in Labels /\ prog \in DOMAIN Programs /\ leaked \subseteq Frames
  BY TypeParts
<1>1. /\ pc = "page" /\ Allocate /\ split' = split /\ pte' = pte /\ user' = user /\ mem' = mem
      /\ seg' = seg /\ page' = page /\ table' = table /\ stack' = stack /\ leaked' = leaked
  BY DEF elf_page, At, tables
<1>2. boot = "ready" /\ AtSegment
  BY <1>1 DEF Control
<1>3. TypeOK' /\ boot' = "ready" /\ Allocated \in Frames /\ high' \in BOOLEAN /\ refused' \in BOOLEAN
  BY <1>0, <1>1, <1>2, AllocateFacts
<1>4. \/ Fail /\ frame' = frame
      \/ pc' = "split" /\ frame' = Allocated /\ prog' = prog /\ fallback' = fallback
  BY DEF elf_page, Goto, args
<1>5. /\ pc' = "lost" \/ pc' = "unmap" \/ (pc' = "split" /\ prog' = prog)
      /\ prog' \in DOMAIN Programs /\ fallback' \in BOOLEAN
  BY <1>0, <1>4, FailFacts DEF Flags
<1>6. LocalTypes' /\ TableTypes' /\ pc' \in Labels
  BY <1>0, <1>1, <1>3, <1>4, <1>5 DEF LocalTypes, TableTypes, Labels
<1>7. Flags'
  BY <1>3, <1>5 DEF Flags
<1>8. ExecTypeOK'
  BY <1>0, <1>1, <1>3, <1>5, <1>6, <1>7, TypePartsNext, Zenon
<1>9. Control'
  BY <1>1, <1>2, <1>3, <1>5 DEF Control, Mapping, AtSegment
<1> QED BY <1>8, <1>9

LEMMA SplitTypes ==
  ASSUME ExecTypeOK, Control, split_large
  PROVE  ExecTypeOK' /\ Control'
<1>0. /\ TypeOK /\ TableTypes /\ LocalTypes /\ Flags /\ DOMAIN mem = Frames
      /\ pc \in Labels /\ prog \in DOMAIN Programs /\ leaked \subseteq Frames
  BY TypeParts
<1>1. /\ pc = "split" /\ split' = split /\ pte' = pte /\ user' = user /\ mem' = mem
      /\ prog' = prog /\ fallback' = fallback
      /\ seg' = seg /\ page' = page /\ frame' = frame /\ stack' = stack /\ leaked' = leaked
  BY DEF split_large, At, tables, args
<1>2. boot = "ready" /\ (AtSegment \/ AtStack)
  BY <1>1 DEF Control, Mapping
<1>3. \/ NoAllocation /\ pc' = "map" /\ table' = table
      \/ Allocate /\ (pc' = "map_large" \/ pc' = "fill") /\ table' = Allocated
  BY DEF split_large, Goto
<1>4. TypeOK' /\ boot' = "ready" /\ table' \in Frames /\ high' \in BOOLEAN /\ refused' \in BOOLEAN
  <2>1. CASE NoAllocation /\ table' = table
    BY <1>0, <1>2, <2>1, NoAllocationFacts DEF LocalTypes, Flags
  <2>2. CASE Allocate /\ table' = Allocated
    BY <1>0, <1>2, <2>2, AllocateFacts
  <2> QED BY <1>3, <2>1, <2>2
<1>6. LocalTypes' /\ TableTypes' /\ pc' \in Labels
  BY <1>0, <1>1, <1>3, <1>4 DEF LocalTypes, TableTypes, Labels
<1>7. Flags'
  BY <1>0, <1>1, <1>4 DEF Flags
<1>8. ExecTypeOK'
  BY <1>0, <1>1, <1>4, <1>6, <1>7, TypePartsNext, Zenon
<1>9. Control'
  BY <1>1, <1>2, <1>3, <1>4 DEF Control, Mapping, AtSegment, AtStack
<1> QED BY <1>8, <1>9

LEMMA FillTypes ==
  ASSUME ExecTypeOK, Control, split_fill
  PROVE  ExecTypeOK' /\ Control'
<1>0. /\ TypeOK /\ TableTypes /\ LocalTypes /\ Flags /\ DOMAIN mem = Frames
      /\ pc \in Labels /\ prog \in DOMAIN Programs /\ leaked \subseteq Frames
  BY TypeParts
<1>1. /\ pc = "fill" /\ pc' = "map" /\ mem' = [mem EXCEPT ![table] = PageTable]
      /\ split' = [split EXCEPT ![RegionOf(page)] = table] /\ NoAllocation
      /\ pte' = pte /\ user' = user /\ prog' = prog /\ fallback' = fallback /\ leaked' = leaked
  BY DEF split_fill, At, Goto, args
<1>2. seg' = seg /\ page' = page /\ frame' = frame /\ table' = table /\ stack' = stack
  BY DEF split_fill, locals
<1>3. TypeOK' /\ boot' = boot /\ high' = high /\ refused' = refused
  BY <1>0, <1>1, NoAllocationFacts
<1>4. TableTypes' /\ LocalTypes' /\ pc' \in Labels /\ DOMAIN mem' = Frames
  BY <1>0, <1>1, <1>2 DEF TableTypes, LocalTypes, Labels
<1>5. Flags'
  BY <1>0, <1>1, <1>3 DEF Flags
<1>6. ExecTypeOK'
  BY <1>0, <1>1, <1>3, <1>4, <1>5, TypePartsNext, Zenon
<1>7. Control'
  BY <1>1, <1>2, <1>3 DEF Control, Mapping, AtSegment, AtStack
<1> QED BY <1>6, <1>7

\* The two ways a page is mapped.
LEMMA MapTypes ==
  ASSUME ExecTypeOK, Control, map_page \/ map_large
  PROVE  ExecTypeOK' /\ Control'
<1>0. /\ TypeOK /\ TableTypes /\ LocalTypes /\ Flags /\ DOMAIN mem = Frames
      /\ pc \in Labels /\ prog \in DOMAIN Programs /\ leaked \subseteq Frames
  BY TypeParts
<1>1. /\ pc = "map" \/ pc = "map_large"
      /\ MapNext /\ NoAllocation /\ split' = split /\ prog' = prog /\ fallback' = fallback
      /\ seg' = seg /\ table' = table /\ stack' = stack
  BY DEF map_page, map_large, At, args, tables
<1>2. AtSegment \/ AtStack
  BY <1>1 DEF Control, Mapping
<1>3. TypeOK' /\ boot' = boot /\ high' = high /\ refused' = refused
  BY <1>0, <1>1, NoAllocationFacts
<1>4. TableTypes' /\ DOMAIN mem' = Frames /\ leaked' \subseteq Frames
  <2>1. CASE map_page
    <3>1. pte' = [pte EXCEPT ![page] = frame] /\ user' = user \cup {page}
          /\ mem' = mem /\ leaked' = leaked
      BY <2>1 DEF map_page
    <3> QED BY <1>0, <1>1, <3>1, Numbers DEF TableTypes, LocalTypes
  <2>2. CASE map_large
    <3>1. /\ mem' = [f \in Frames |-> IF f = RegionOf(page) * Region THEN Scribble ELSE mem[f]]
          /\ leaked' = leaked \cup {frame} /\ pte' = pte /\ user' = user
      BY <2>2 DEF map_large, tables
    <3> QED BY <1>0, <1>1, <3>1 DEF TableTypes, LocalTypes
  <2> QED BY <2>1, <2>2
<1>5. \/ AtStack /\ pc' = "jump" /\ page' = page /\ frame' = frame
      \/ AtStack /\ pc' = "split" /\ page' = StackPage(2) /\ frame' = stack[2]
      \/ /\ AtSegment /\ pc' = "page" /\ page' = page + 1 /\ page + 1 \in SegPages(prog, seg)
         /\ frame' = frame
      \/ AtSegment /\ pc' = "copy" /\ page' = page /\ frame' = frame
  BY <1>1, <1>2, MapNextFacts
<1>6. AtSegment => SegPages(prog, seg) \subseteq Pages
  BY <1>0, SegFacts, Numbers DEF AtSegment, Pages
<1>7. LocalTypes' /\ pc' \in Labels
  BY <1>0, <1>1, <1>5, <1>6, Numbers DEF LocalTypes, Labels
<1>8. Flags'
  BY <1>0, <1>1, <1>3 DEF Flags
<1>9. ExecTypeOK'
  BY <1>0, <1>1, <1>3, <1>4, <1>7, <1>8, TypePartsNext, Zenon
<1>10. Control'
  BY <1>1, <1>3, <1>5, Numbers DEF Control, Mapping, AtSegment, AtStack
<1> QED BY <1>9, <1>10

LEMMA CopyTypes ==
  ASSUME ExecTypeOK, Control, elf_copy
  PROVE  ExecTypeOK' /\ Control'
<1>0. /\ TypeOK /\ TableTypes /\ LocalTypes /\ Flags /\ DOMAIN mem = Frames
      /\ pc \in Labels /\ prog \in DOMAIN Programs /\ leaked \subseteq Frames
  BY TypeParts
<1>1. /\ pc = "copy" /\ NoAllocation /\ split' = split /\ pte' = pte /\ user' = user
      /\ frame' = frame /\ table' = table /\ stack' = stack /\ leaked' = leaked
      /\ Segment(seg + 1) /\ DOMAIN mem' = Frames
  BY DEF elf_copy, At, tables
<1>2. TypeOK' /\ TableTypes' /\ boot' = boot /\ high' = high /\ refused' = refused
  BY <1>0, <1>1, NoAllocationFacts DEF TableTypes
<1>3. seg \in DOMAIN Segs(prog) /\ boot = "ready"
  BY <1>1 DEF Control
<1>4. PICK k : k = seg + 1
  OBVIOUS
<1>5. k \in 1 .. Len(Segs(prog)) + 1 /\ Segment(k) /\ k \in Nat
  BY <1>0, <1>1, <1>3, <1>4, SegFacts
<1>6. seg' = k /\ prog' \in DOMAIN Programs /\ fallback' \in BOOLEAN /\ page' \in Pages
  BY <1>5, SegmentFacts
<1>7. \/ (pc' = "lost" \/ pc' = "unmap")
      \/ pc' = "page" /\ prog' = prog /\ k \in DOMAIN Segs(prog) /\ page' \in SegPages(prog, k)
      \/ pc' = "stack1" /\ prog' = prog /\ k = Len(Segs(prog)) + 1
  BY <1>5, SegmentFacts
<1>8. LocalTypes' /\ pc' \in Labels
  BY <1>0, <1>1, <1>5, <1>6, <1>7 DEF LocalTypes, Labels
<1>9. Flags'
  BY <1>0, <1>2, <1>6 DEF Flags
<1>10. ExecTypeOK'
  BY <1>0, <1>1, <1>2, <1>6, <1>8, <1>9, TypePartsNext, Zenon
<1>11. Control'
  BY <1>2, <1>3, <1>6, <1>7 DEF Control, Mapping, AtSegment
<1> QED BY <1>10, <1>11

LEMMA StackTypes ==
  ASSUME ExecTypeOK, Control, stack1 \/ stack2
  PROVE  ExecTypeOK' /\ Control'
<1>0. /\ TypeOK /\ TableTypes /\ LocalTypes /\ Flags /\ DOMAIN mem = Frames
      /\ pc \in Labels /\ prog \in DOMAIN Programs /\ leaked \subseteq Frames
  BY TypeParts
<1>1. /\ pc = "stack1" \/ pc = "stack2"
      /\ Allocate /\ split' = split /\ pte' = pte /\ user' = user /\ mem' = mem
      /\ seg' = seg /\ table' = table
  BY DEF stack1, stack2, At, tables
<1>2. boot = "ready" /\ seg = Len(Segs(prog)) + 1
  BY <1>1 DEF Control
<1>3. TypeOK' /\ boot' = "ready" /\ Allocated \in Frames /\ high' \in BOOLEAN /\ refused' \in BOOLEAN
  BY <1>0, <1>1, <1>2, AllocateFacts
<1>4. stack[1] \in Frames /\ stack[2] \in Frames /\ 0 \in Frames /\ TotalFrames \in Pages
  BY <1>0, Numbers DEF LocalTypes, Pages
<1>5. /\ stack' \in Frames \X Frames /\ page' \in Pages /\ frame' \in Frames /\ leaked' \subseteq Frames
      /\ \/ Fail
         \/ pc' = "stack2" /\ prog' = prog /\ fallback' = fallback
         \/ pc' = "split" /\ prog' = prog /\ fallback' = fallback /\ page' = StackPage(1)
  <2>1. CASE stack1
    <3>1. /\ stack' = <<Allocated, 0>> /\ pc' = "stack2" /\ prog' = prog /\ fallback' = fallback
          /\ page' = page /\ frame' = frame /\ leaked' = leaked
      BY <2>1 DEF stack1, Goto, args
    <3> QED BY <1>0, <1>3, <1>4, <3>1 DEF LocalTypes
  <2>2. CASE stack2
    <3>1. /\ stack' = <<stack[1], Allocated>>
          /\ \/ Fail /\ leaked' = leaked \cup ({stack[1], Allocated} \ {0}) /\ page' = page /\ frame' = frame
             \/ /\ pc' = "split" /\ page' = StackPage(1) /\ frame' = stack[1]
                /\ prog' = prog /\ fallback' = fallback /\ leaked' = leaked
      BY <2>2 DEF stack2, Goto, args
    <3> QED BY <1>0, <1>3, <1>4, <3>1, Numbers DEF LocalTypes
  <2> QED BY <1>1, <2>1, <2>2
<1>6. /\ \/ pc' = "lost" \/ pc' = "unmap" \/ (pc' = "stack2" /\ prog' = prog)
         \/ (pc' = "split" /\ prog' = prog /\ page' = StackPage(1))
      /\ prog' \in DOMAIN Programs /\ fallback' \in BOOLEAN
  BY <1>0, <1>5, FailFacts DEF Flags
<1>7. LocalTypes' /\ TableTypes' /\ pc' \in Labels
  BY <1>0, <1>1, <1>3, <1>5, <1>6 DEF LocalTypes, TableTypes, Labels
<1>8. Flags'
  BY <1>3, <1>6 DEF Flags
<1>9. ExecTypeOK'
  BY <1>0, <1>1, <1>3, <1>5, <1>6, <1>7, <1>8, TypePartsNext, Zenon
<1>10. Control'
  BY <1>1, <1>2, <1>3, <1>6, Numbers DEF Control, Mapping, AtStack
<1> QED BY <1>9, <1>10

\* The steps that change neither the tables nor the locals: the jump, the
\* faults and the calls of enter_program.
Enters == start_init \/ sys_exit \/ \E i \in DOMAIN Programs : sys_run(i)

LEMMA OtherTypes ==
  ASSUME ExecTypeOK, Control, jump_usermode \/ page_fault \/ stray_access \/ Enters
  PROVE  /\ ExecTypeOK' /\ Control' /\ pc' # "boot"
         /\ UNCHANGED <<vars, tables, locals, history>>
<1>0. /\ TypeOK /\ TableTypes /\ LocalTypes /\ Flags /\ DOMAIN mem = Frames
      /\ pc \in Labels /\ prog \in DOMAIN Programs /\ leaked \subseteq Frames
  BY TypeParts
<1>1. UNCHANGED <<vars, tables, locals, history>>
  BY DEF jump_usermode, page_fault, stray_access, Enters, start_init, sys_exit, sys_run, Enter,
         NoAllocation, history
<1>2. NoAllocation /\ TypeOK'
  BY <1>0, <1>1, NoAllocationFacts DEF NoAllocation, history
<1>3. TableTypes' /\ LocalTypes' /\ leaked' = leaked /\ boot' = boot /\ seg' = seg
      /\ high' = high /\ refused' = refused
  BY <1>0, <1>1, <1>2, NoAllocationFacts DEF TableTypes, LocalTypes, tables, locals, history
<1>4. /\ prog' \in DOMAIN Programs /\ fallback' \in BOOLEAN /\ DOMAIN mem' = Frames
      /\ \/ pc' = "panic" \/ pc' = "corrupt"
         \/ pc' = "unmap" /\ (boot = "ready" \/ pc = "user")
         \/ pc' = "user" /\ pc = "jump" /\ prog' = prog
  <2>1. CASE jump_usermode
    <3>1. prog' = prog /\ fallback' = fallback /\ DOMAIN mem' = Frames
          /\ pc = "jump" /\ (pc' = "panic" \/ pc' = "user")
      BY <2>1 DEF jump_usermode, At, args, Goto
    <3> QED BY <1>0, <3>1 DEF Flags
  <2>2. CASE page_fault \/ stray_access
    <3>1. prog' = prog /\ fallback' = fallback /\ mem' = mem /\ (pc' = "panic" \/ pc' = "corrupt")
      BY <2>2 DEF page_fault, stray_access, args, Goto
    <3> QED BY <1>0, <3>1 DEF Flags
  <2>3. CASE Enters
    <3>1. PICK i \in DOMAIN Programs, b \in BOOLEAN : Enter(i, b) /\ (boot = "ready" \/ pc = "user")
      BY <2>3, InitIsThere DEF Enters, start_init, sys_exit, sys_run
    <3>2. prog' = i /\ fallback' = b /\ mem' = mem /\ pc' = "unmap"
      BY <3>1 DEF Enter, Goto
    <3> QED BY <1>0, <3>1, <3>2
  <2> QED BY <2>1, <2>2, <2>3
<1>5. Flags' /\ pc' \in Labels
  BY <1>0, <1>3, <1>4 DEF Flags, Labels
<1>6. ExecTypeOK'
  BY <1>0, <1>2, <1>3, <1>4, <1>5, TypePartsNext, Zenon
<1>7. boot = "ready"
  <2>1. CASE pc = "boot" /\ (page_fault \/ stray_access)
    <3>1. Needs = {} /\ Writes = {}
      BY <2>1 DEF Needs, Writes
    <3> QED BY <2>1, <3>1 DEF page_fault, stray_access, OnTarget
  <2>2. CASE pc = "boot" /\ Enters
    BY <2>2 DEF Enters, start_init, sys_exit, sys_run
  <2>3. CASE pc # "boot"
    BY <2>3 DEF Control
  <2> QED BY <2>1, <2>2, <2>3 DEF jump_usermode, At
<1> QED BY <1>1, <1>3, <1>4, <1>6, <1>7 DEF Control, Mapping

-----------------------------------------------------------------------------
(* What a launch owns and how far it is.                                   *)

\* A step that leaves the tables alone keeps Owned when it takes frames below
\* the user window and forgets no mapped one.
LEMMA OwnedKept ==
  ASSUME Owned, split' = split, pte' = pte, user' = user, held \subseteq held',
         held' \subseteq bitmap' \ {0}, 0 \in bitmap', \A f \in held' : f < UserMin,
         leaked' \cap Mapped \subseteq leaked
  PROVE  Owned' /\ TableFrames' = TableFrames /\ Mapped' = Mapped
<1>1. TableFrames' = TableFrames /\ Mapped' = Mapped
  BY DEF TableFrames, IsSplit, Mapped
<1>2. \A p \in user : pte[p] \in Mapped
  BY DEF Mapped
<1>3. TableFrames' \subseteq held'
  BY <1>1 DEF Owned
<1>4. \A p \in user' : /\ p \in UserMin .. StackPage(2) /\ IsSplit(RegionOf(p))'
                       /\ pte'[p] \in held' \ (TableFrames' \cup leaked')
                       /\ \A q \in user' : pte'[p] = pte'[q] => p = q
  BY <1>1, <1>2 DEF Owned, IsSplit
<1>5. \A p \in Pages \ user' : pte'[p] = p \/ (pte'[p] = NotPresent /\ IsSplit(RegionOf(p))')
  BY DEF Owned, IsSplit
<1> QED BY <1>1, <1>3, <1>4, <1>5 DEF Owned

\* A frame the allocator gives is nobody's.
LEMMA AllocateOwned ==
  ASSUME ExecTypeOK, boot = "ready", Owned, Allocate, ~high'
  PROVE  /\ ~high /\ Allocated \in Frames /\ held \subseteq held'
         /\ held' \subseteq bitmap' \ {0} /\ 0 \in bitmap' /\ \A f \in held' : f < UserMin
         /\ \/ Allocated = 0 /\ held' = held
            \/ Allocated # 0 /\ Allocated \notin held /\ held' = held \cup {Allocated}
<1>1. TypeOK
  BY DEF ExecTypeOK
<1>2. /\ ~high /\ Allocated \in Frames
      /\ \/ Allocated = 0 /\ held' = held /\ bitmap' = bitmap
         \/ /\ Allocated \notin bitmap /\ Allocated < UserMin
            /\ held' = held \cup {Allocated} /\ bitmap' = bitmap \cup {Allocated}
  BY <1>1, AllocateFacts
<1>3. held \subseteq bitmap \ {0} /\ 0 \in bitmap /\ \A f \in held : f < UserMin
  BY DEF Owned
<1> QED BY <1>2, <1>3

\* Nothing is pending when a launch gives up or begins.
LEMMA NothingPending ==
  ASSUME pc' = "lost" \/ pc' = "unmap", held' = TableFrames' \cup Mapped' \cup leaked'
  PROVE  Progress'
<1>1. Pending' = {}
  BY DEF Pending, Mapping
<1> QED BY <1>1 DEF Progress, Mapping, Launched

LEMMA EnterProgress ==
  ASSUME EInv, Enters, ~high'
  PROVE  Owned' /\ Progress'
<1>1. ExecTypeOK /\ Control
  BY DEF EInv
<1>2. UNCHANGED <<vars, tables, locals, history>>
  BY <1>1, OtherTypes
<1>3. /\ bitmap' = bitmap /\ held' = held /\ split' = split /\ pte' = pte /\ user' = user
      /\ high' = high /\ leaked' = leaked
  BY <1>2 DEF vars, tables, history
<1>4. pc' = "unmap" /\ ((pc = "boot" /\ boot = "ready") \/ pc = "user")
  BY DEF Enters, start_init, sys_exit, sys_run, Enter, Goto
<1>5. Owned /\ held = TableFrames \cup Mapped \cup leaked
  <2>1. CASE pc = "user"
    <3>1. Owned /\ Progress
      BY <1>3, <2>1 DEF EInv, Stopped
    <3>2. Pending = {}
      BY <2>1 DEF Pending, Mapping
    <3> QED BY <3>1, <3>2 DEF Progress
  <2>2. CASE pc = "boot" /\ boot = "ready"
    <3>1. IInv /\ held = {} /\ user = {} /\ leaked = {} /\ TableFrames = {}
          /\ \A p \in Pages : pte[p] = p
      BY <2>2 DEF EInv
    <3>2. Mapped = {}
      BY <3>1 DEF Mapped
    <3>3. 0 \in bitmap
      BY <2>2, <3>1, FrameZeroReserved, ZeroBelow DEF IInv, TypeOK, Accounting
    <3> QED BY <3>1, <3>2, <3>3 DEF Owned
  <2> QED BY <1>4, <2>1, <2>2
<1>6. held' \subseteq bitmap' \ {0} /\ 0 \in bitmap' /\ \A f \in held' : f < UserMin
  BY <1>3, <1>5 DEF Owned
<1>7. Owned' /\ TableFrames' = TableFrames /\ Mapped' = Mapped
  BY <1>3, <1>5, <1>6, OwnedKept
<1>8. Progress'
  BY <1>3, <1>4, <1>5, <1>7, NothingPending
<1> QED BY <1>7, <1>8

\* The identity pages of the user window map frames that nobody got from the
\* allocator: what unmapping gives back are the mapped frames.
LEMMA UnmapProgress ==
  ASSUME EInv, unmap_range, ~high'
  PROVE  Owned' /\ Progress'
<1>1. /\ bitmap' = bitmap \ Released /\ held' = held \ Released
      /\ user' = user \ InWindow /\ pc = "unmap" /\ pc' = "header"
      /\ pte' = [p \in Pages |-> IF p \in InWindow THEN NotPresent ELSE pte[p]]
      /\ split' = split /\ high' = high /\ leaked' = leaked
  BY DEF unmap_range, At, Goto, history, Cleared
<1>2. ExecTypeOK /\ Owned /\ Progress
  BY <1>1 DEF EInv, Stopped
<1>3. user \subseteq Pages /\ held \subseteq Frames /\ leaked \subseteq Frames
  BY <1>2 DEF ExecTypeOK, TypeOK
<1>4. UserMin \in Nat /\ 0 < UserMin /\ StackPage(2) \in Nat /\ UserMin .. StackPage(2) \subseteq Pages
  BY Numbers
<1>5. held \subseteq bitmap \ {0} /\ 0 \in bitmap /\ \A f \in held : f < UserMin /\ f \in Nat
  BY <1>2, <1>3 DEF Owned, Frames
<1>6. user \subseteq InWindow
  <2> SUFFICES ASSUME NEW p \in user PROVE p \in InWindow
    OBVIOUS
  <2>1. p \in UserMin .. StackPage(2) /\ IsSplit(RegionOf(p)) /\ pte[p] \in held
    BY <1>2 DEF Owned
  <2>2. pte[p] # NotPresent
    BY <1>5, <2>1 DEF NotPresent
  <2> QED BY <2>1, <2>2 DEF InWindow
<1>7. \A p \in InWindow \ user : pte[p] = p /\ p >= UserMin
  BY <1>2, <1>4 DEF InWindow, Owned
<1>8. Mapped \subseteq Released
  BY <1>6 DEF Mapped, Released
<1>9. \A f \in Released : f \in Mapped \/ f >= UserMin
  BY <1>7 DEF Mapped, Released
<1>10. Mapped \subseteq held \ (TableFrames \cup leaked)
  BY <1>2 DEF Owned, Mapped
<1>11. TableFrames' = TableFrames /\ user' = {} /\ Mapped' = {}
  <2>1. TableFrames' = TableFrames /\ user' = {}
    BY <1>1, <1>6 DEF TableFrames, IsSplit
  <2> QED BY <2>1 DEF Mapped
<1>12. Pending = {} /\ Pending' = {}
  BY <1>1 DEF Pending, Mapping
<1>13. held = TableFrames \cup Mapped \cup leaked
  BY <1>2, <1>12 DEF Progress
<1>14. \A f \in held : f \notin Mapped => f \notin Released
  BY <1>4, <1>5, <1>9
<1>15. held' = TableFrames \cup leaked
  BY <1>1, <1>8, <1>10, <1>13, <1>14
<1>16. Owned'
  <2>1. 0 \in bitmap'
    <3>1. 0 \notin Released
      BY <1>4, <1>5, <1>9, <1>10
    <3> QED BY <1>1, <1>5, <3>1
  <2>2. held' \subseteq bitmap' \ {0} /\ \A f \in held' : f < UserMin
    BY <1>1, <1>5
  <2>3. TableFrames' \subseteq held'
    BY <1>11, <1>15
  <2>4. \A p \in Pages : pte'[p] = p \/ (pte'[p] = NotPresent /\ IsSplit(RegionOf(p))')
    <3> SUFFICES ASSUME NEW p \in Pages
                 PROVE  pte'[p] = p \/ (pte'[p] = NotPresent /\ IsSplit(RegionOf(p))')
      OBVIOUS
    <3>1. CASE p \in InWindow
      BY <1>1, <3>1 DEF InWindow, IsSplit
    <3>2. CASE p \notin InWindow
      BY <1>1, <1>2, <1>6, <3>2 DEF Owned, IsSplit
    <3> QED BY <3>1, <3>2
  <2> QED BY <1>11, <2>1, <2>2, <2>3, <2>4 DEF Owned
<1>17. Progress'
  BY <1>1, <1>11, <1>12, <1>15 DEF Progress, Mapping, Launched
<1> QED BY <1>16, <1>17

\* The pages of the segments before the k-th.
LEMMA SegsBeforeFacts ==
  ASSUME NEW i \in DOMAIN Programs
  PROVE  /\ SegsBefore(i, 1) = {}
         /\ \A k \in DOMAIN Segs(i) :
              /\ SegsBefore(i, k + 1) = SegsBefore(i, k) \cup SegPages(i, k)
              /\ SegsBefore(i, k) \cap SegPages(i, k) = {}
         /\ SegsBefore(i, Len(Segs(i)) + 1) = ImagePages(i)
         /\ ImagePages(i) \subseteq UserMin .. TotalFrames - 1
         /\ \A k : SegsBefore(i, k) \subseteq ImagePages(i)
<1>1. Len(Segs(i)) \in Nat /\ DOMAIN Segs(i) = 1 .. Len(Segs(i))
  BY SegFacts
<1>2. SegsBefore(i, 1) = {}
  BY <1>1 DEF SegsBefore
<1>3. ASSUME NEW k \in DOMAIN Segs(i)
      PROVE  /\ SegsBefore(i, k + 1) = SegsBefore(i, k) \cup SegPages(i, k)
             /\ SegsBefore(i, k) \cap SegPages(i, k) = {}
  <2>1. \A l \in DOMAIN Segs(i) : l < k + 1 <=> l < k \/ l = k
    BY <1>1, <1>3
  <2>2. SegsBefore(i, k + 1) = SegsBefore(i, k) \cup SegPages(i, k)
    BY <2>1 DEF SegsBefore
  <2>3. \A l \in DOMAIN Segs(i) : l < k => SegPages(i, l) \cap SegPages(i, k) = {}
    BY <1>1, <1>3, SegFacts
  <2> QED BY <2>2, <2>3 DEF SegsBefore
<1>4. SegsBefore(i, Len(Segs(i)) + 1) = ImagePages(i)
  BY <1>1 DEF SegsBefore, ImagePages
<1>5. ImagePages(i) \subseteq UserMin .. TotalFrames - 1
  BY SegFacts DEF ImagePages
<1>6. \A k : SegsBefore(i, k) \subseteq ImagePages(i)
  BY DEF SegsBefore, ImagePages
<1> QED BY <1>2, <1>3, <1>4, <1>5, <1>6

LEMMA HeaderProgress ==
  ASSUME EInv, elf_header, ~high'
  PROVE  Owned' /\ Progress'
<1>1. /\ pc = "header" /\ NoAllocation /\ split' = split /\ pte' = pte /\ user' = user
      /\ leaked' = leaked
  BY DEF elf_header, At, tables
<1>2. held' = held /\ bitmap' = bitmap /\ high' = high
  BY <1>1, NoAllocationFacts
<1>3. ExecTypeOK /\ Owned /\ Progress
  BY <1>1, <1>2 DEF EInv, Stopped
<1>4. held' \subseteq bitmap' \ {0} /\ 0 \in bitmap' /\ \A f \in held' : f < UserMin
  BY <1>2, <1>3 DEF Owned
<1>5. Owned' /\ TableFrames' = TableFrames /\ Mapped' = Mapped
  BY <1>1, <1>2, <1>3, <1>4, OwnedKept
<1>6. held = TableFrames \cup Mapped \cup leaked /\ user = {}
  BY <1>1, <1>3 DEF Progress, Pending, Mapping
<1>7. 1 \in 1 .. Len(Segs(prog)) + 1
  BY <1>3, SegFacts DEF ExecTypeOK
<1>8. \/ pc' = "lost" \/ pc' = "unmap"
      \/ pc' = "page"
      \/ pc' = "stack1"
  BY <1>3, <1>7, FailFacts, SegmentFacts DEF elf_header
<1>9. Progress'
  <2>1. CASE pc' = "lost" \/ pc' = "unmap"
    BY <1>1, <1>2, <1>5, <1>6, <2>1, NothingPending
  <2>2. CASE pc' = "page" \/ pc' = "stack1"
    <3>1. Pending' = {}
      BY <2>2 DEF Pending, Mapping
    <3> QED BY <1>1, <1>2, <1>5, <1>6, <2>2, <3>1 DEF Progress, Mapping
  <2> QED BY <1>8, <2>1, <2>2
<1> QED BY <1>5, <1>9

LEMMA PageProgress ==
  ASSUME EInv, elf_page, ~high'
  PROVE  Owned' /\ Progress'
<1>1. /\ pc = "page" /\ Allocate /\ split' = split /\ pte' = pte /\ user' = user /\ mem' = mem
      /\ seg' = seg /\ page' = page /\ table' = table /\ stack' = stack /\ leaked' = leaked
  BY DEF elf_page, At, tables
<1>2. ExecTypeOK /\ Control /\ boot = "ready" /\ AtSegment
  BY <1>1 DEF EInv, Control
<1>3. ~high
  BY <1>1, <1>2, AllocateFacts DEF ExecTypeOK
<1>4. Owned /\ Progress
  BY <1>1, <1>3 DEF EInv, Stopped
<1>5. /\ held \subseteq held' /\ held' \subseteq bitmap' \ {0} /\ 0 \in bitmap'
      /\ \A f \in held' : f < UserMin
      /\ \/ Allocated = 0 /\ held' = held
         \/ Allocated # 0 /\ Allocated \notin held /\ held' = held \cup {Allocated}
  BY <1>1, <1>2, <1>4, AllocateOwned
<1>6. Owned' /\ TableFrames' = TableFrames /\ Mapped' = Mapped
  BY <1>1, <1>4, <1>5, OwnedKept
<1>7. held = TableFrames \cup Mapped \cup leaked
  BY <1>1, <1>4 DEF Progress, Pending, Mapping
<1>8. CASE Allocated = 0
  <2>1. pc' = "lost" \/ pc' = "unmap"
    BY <1>2, <1>8, FailFacts DEF elf_page
  <2>2. held' = TableFrames' \cup Mapped' \cup leaked'
    BY <1>1, <1>5, <1>6, <1>7, <1>8
  <2>3. Progress'
    BY <2>1, <2>2, NothingPending
  <2> QED BY <1>6, <2>3
<1>9. CASE Allocated # 0
  <2>1. pc' = "split" /\ frame' = Allocated /\ prog' = prog
    BY <1>9 DEF elf_page, Goto, args
  <2>2. page # StackPage(1)
    BY <1>2, PageFacts, Numbers
  <2>3. Pending' = {Allocated}
    BY <1>1, <2>1, <2>2 DEF Pending, Mapping, StackPage
  <2>4. Done' = Done
    BY <1>1, <2>1 DEF Done, Partly, Mapping
  <2>5. \A p \in user' \cap SegsBefore(prog', seg') : mem'[pte'[p]] = <<prog', p>>
    BY <1>1, <1>4, <2>1 DEF Progress, Launched
  <2>6. user' \subseteq Done'
    BY <1>1, <1>4, <2>4 DEF Progress, Launched
  <2>7. held' = TableFrames' \cup Mapped' \cup leaked' \cup Pending'
        /\ Pending' \cap (TableFrames' \cup Mapped' \cup leaked') = {}
    BY <1>1, <1>5, <1>6, <1>7, <1>9, <2>3
  <2>8. StackPage(1)' = StackPage(1)
    BY DEF StackPage
  <2>9. Progress'
    BY <1>1, <2>1, <2>2, <2>5, <2>6, <2>7, <2>8 DEF Progress
  <2> QED BY <1>6, <2>9
<1> QED BY <1>8, <1>9

LEMMA SplitProgress ==
  ASSUME EInv, split_large, ~high'
  PROVE  Owned' /\ Progress'
<1>1. /\ pc = "split" /\ split' = split /\ pte' = pte /\ user' = user /\ mem' = mem
      /\ prog' = prog /\ seg' = seg /\ page' = page /\ frame' = frame /\ stack' = stack
      /\ leaked' = leaked
  BY DEF split_large, At, tables, args
<1>2. ExecTypeOK /\ Control /\ boot = "ready"
  BY <1>1 DEF EInv, Control
<1>3. \/ IsSplit(RegionOf(page)) /\ NoAllocation /\ pc' = "map"
      \/ /\ ~IsSplit(RegionOf(page)) /\ Allocate /\ table' = Allocated
         /\ IF Allocated = 0 THEN pc' = "map_large" ELSE pc' = "fill"
  BY DEF split_large, Goto
<1>4. ~high
  BY <1>2, <1>3, AllocateFacts, NoAllocationFacts DEF ExecTypeOK
<1>5. Owned /\ Progress
  BY <1>1, <1>4 DEF EInv, Stopped
<1>6. /\ held \subseteq held' /\ held' \subseteq bitmap' \ {0} /\ 0 \in bitmap'
      /\ \A f \in held' : f < UserMin
      /\ \/ pc' = "map" /\ held' = held /\ IsSplit(RegionOf(page))
         \/ pc' = "map_large" /\ held' = held
         \/ /\ pc' = "fill" /\ table' # 0 /\ table' \notin held /\ held' = held \cup {table'}
            /\ ~IsSplit(RegionOf(page))
  <2>1. CASE IsSplit(RegionOf(page)) /\ NoAllocation /\ pc' = "map"
    <3>1. held' = held /\ bitmap' = bitmap
      BY <2>1, NoAllocationFacts
    <3> QED BY <1>5, <2>1, <3>1 DEF Owned
  <2>2. CASE /\ ~IsSplit(RegionOf(page)) /\ Allocate /\ table' = Allocated
             /\ IF Allocated = 0 THEN pc' = "map_large" ELSE pc' = "fill"
    BY <1>2, <1>5, <2>2, AllocateOwned
  <2> QED BY <1>3, <2>1, <2>2
<1>7. Owned' /\ TableFrames' = TableFrames /\ Mapped' = Mapped
  BY <1>1, <1>5, <1>6, OwnedKept
<1>8. /\ held = TableFrames \cup Mapped \cup leaked \cup Pending
      /\ Pending \cap (TableFrames \cup Mapped \cup leaked) = {}
      /\ page = StackPage(1) => frame # stack[2]
      /\ user \subseteq Done
      /\ \A p \in user \cap SegsBefore(prog, seg) : mem[pte[p]] = <<prog, p>>
  BY <1>1, <1>5 DEF Progress, Mapping, Launched
<1>9. Pending' = Pending \cup (IF pc' = "fill" THEN {table'} ELSE {})
  BY <1>1, <1>6 DEF Pending, Mapping, StackPage
<1>10. Done' = Done
  BY <1>1, <1>6 DEF Done, Partly, Mapping, StackPages
<1>11. held' = TableFrames' \cup Mapped' \cup leaked' \cup Pending'
       /\ Pending' \cap (TableFrames' \cup Mapped' \cup leaked') = {}
  BY <1>1, <1>6, <1>7, <1>8, <1>9
<1>12. frame \in held /\ (page = StackPage(1) => stack[2] \in held)
  BY <1>1, <1>8 DEF Pending, Mapping
<1>13. pc' = "fill" => table' # frame' /\ (page' = StackPage(1) => table' # stack'[2])
  BY <1>1, <1>6, <1>12
<1>14. (pc' = "fill" => ~IsSplit(RegionOf(page))') /\ (pc' = "map" => IsSplit(RegionOf(page))')
  BY <1>1, <1>6 DEF IsSplit
<1>15. user' \subseteq Done' /\ \A p \in user' \cap SegsBefore(prog', seg') : mem'[pte'[p]] = <<prog', p>>
  BY <1>1, <1>8, <1>10
<1>16. page' = StackPage(1) => frame' # stack'[2]
  BY <1>1, <1>8
<1>17. pc' # "header" /\ pc' # "user" /\ pc' \in Mapping
  BY <1>6 DEF Mapping
<1>18. Progress'
  BY <1>11, <1>13, <1>14, <1>15, <1>16, <1>17 DEF Progress, StackPage
<1> QED BY <1>7, <1>18

\* The page table comes from the pending frames; nothing the program has is
\* overwritten.
LEMMA FillProgress ==
  ASSUME EInv, split_fill, ~high'
  PROVE  Owned' /\ Progress'
<1>1. /\ pc = "fill" /\ pc' = "map" /\ mem' = [mem EXCEPT ![table] = PageTable]
      /\ split' = [split EXCEPT ![RegionOf(page)] = table] /\ NoAllocation
      /\ pte' = pte /\ user' = user /\ prog' = prog /\ leaked' = leaked
  BY DEF split_fill, At, Goto, args
<1>2. seg' = seg /\ page' = page /\ frame' = frame /\ table' = table /\ stack' = stack
  BY DEF split_fill, locals
<1>3. held' = held /\ bitmap' = bitmap /\ high' = high
  BY <1>1, NoAllocationFacts
<1>4. ExecTypeOK /\ Owned /\ Progress
  BY <1>1, <1>3 DEF EInv, Stopped
<1>5. split \in [Regions -> Frames] /\ page \in Pages /\ RegionOf(page) \in Regions /\ DOMAIN mem = Frames
      /\ pte \in [Pages -> Pages \cup {NotPresent}] /\ user \subseteq Pages
  BY <1>4, RegionOfPage DEF ExecTypeOK
<1>6. /\ held = TableFrames \cup Mapped \cup leaked \cup Pending
      /\ Pending \cap (TableFrames \cup Mapped \cup leaked) = {}
      /\ page = StackPage(1) => frame # stack[2]
      /\ table # frame /\ (page = StackPage(1) => table # stack[2])
      /\ ~IsSplit(RegionOf(page))
      /\ user \subseteq Done
      /\ \A p \in user \cap SegsBefore(prog, seg) : mem[pte[p]] = <<prog, p>>
  BY <1>1, <1>4 DEF Progress, Mapping, Launched
<1>7. table \in Pending /\ table \in held /\ Pending' = Pending \ {table}
  <2>1. Pending = {frame} \cup (IF page = StackPage(1) THEN {stack[2]} ELSE {}) \cup {table}
    BY <1>1 DEF Pending, Mapping
  <2>2. Pending' = {frame} \cup (IF page = StackPage(1) THEN {stack[2]} ELSE {})
    BY <1>1, <1>2 DEF Pending, Mapping, StackPage
  <2> QED BY <1>6, <2>1, <2>2
<1>8. table # 0
  BY <1>4, <1>7 DEF Owned
<1>9. \A r \in Regions : IsSplit(r)' <=> IsSplit(r) \/ r = RegionOf(page)
  BY <1>1, <1>5, <1>8 DEF IsSplit
<1>10. TableFrames' = TableFrames \cup {table}
  <2>1. \A r \in Regions : r # RegionOf(page) => split'[r] = split[r]
    BY <1>1, <1>5
  <2>2. split'[RegionOf(page)] = table
    BY <1>1, <1>5
  <2>3. TableFrames' = {split'[r] : r \in {s \in Regions : IsSplit(s)'}}
    BY DEF TableFrames
  <2>4. \A f \in TableFrames' : f \in TableFrames \cup {table}
    BY <1>9, <2>1, <2>2, <2>3 DEF TableFrames
  <2>5. \A f \in TableFrames : f \in TableFrames'
    BY <1>6, <1>9, <2>1, <2>3 DEF TableFrames
  <2>6. table \in TableFrames'
    BY <1>5, <1>9, <2>2, <2>3
  <2> QED BY <2>4, <2>5, <2>6
<1>11. Mapped' = Mapped /\ (\A p \in user : pte[p] \in Mapped /\ pte[p] # table)
  BY <1>1, <1>6, <1>7 DEF Mapped
<1>12. Owned'
  <2>1. held' \subseteq bitmap' \ {0} /\ 0 \in bitmap' /\ \A f \in held' : f < UserMin
    BY <1>3, <1>4 DEF Owned
  <2>2. TableFrames' \subseteq held'
    BY <1>3, <1>4, <1>7, <1>10 DEF Owned
  <2>3. \A p \in user' : /\ p \in UserMin .. StackPage(2) /\ IsSplit(RegionOf(p))'
                         /\ pte'[p] \in held' \ (TableFrames' \cup leaked')
                         /\ \A q \in user' : pte'[p] = pte'[q] => p = q
    <3>1. \A p \in user : IsSplit(RegionOf(p))'
      BY <1>4, <1>5, <1>9, RegionOfPage DEF Owned
    <3> QED BY <1>1, <1>3, <1>4, <1>10, <1>11, <3>1 DEF Owned
  <2>4. \A p \in Pages \ user' : pte'[p] = p \/ (pte'[p] = NotPresent /\ IsSplit(RegionOf(p))')
    BY <1>1, <1>4, <1>9, RegionOfPage DEF Owned
  <2> QED BY <2>1, <2>2, <2>3, <2>4 DEF Owned
<1>13. Done' = Done
  BY <1>1, <1>2 DEF Done, Partly, Mapping, StackPages
<1>14. held' = TableFrames' \cup Mapped' \cup leaked' \cup Pending'
       /\ Pending' \cap (TableFrames' \cup Mapped' \cup leaked') = {}
  BY <1>1, <1>3, <1>6, <1>7, <1>10, <1>11
<1>15. \A p \in user' \cap SegsBefore(prog', seg') : mem'[pte'[p]] = <<prog', p>>
  <2>1. user' \cap SegsBefore(prog', seg') = user \cap SegsBefore(prog, seg)
    BY <1>1, <1>2
  <2>2. ASSUME NEW p \in user \cap SegsBefore(prog, seg) PROVE mem'[pte[p]] = <<prog, p>>
    <3>1. pte[p] # table
      BY <1>11
    <3>2. mem'[pte[p]] = mem[pte[p]]
      BY <1>1, <3>1
    <3> QED BY <1>6, <3>2
  <2> QED BY <1>1, <2>1, <2>2
<1>16. IsSplit(RegionOf(page))'
  BY <1>2, <1>5, <1>9
<1>17. user' \subseteq Done'
  BY <1>1, <1>6, <1>13
<1>18. Progress'
  BY <1>1, <1>2, <1>6, <1>14, <1>15, <1>16, <1>17 DEF Progress, StackPage
<1> QED BY <1>12, <1>18

\* The page of a launch had no turn yet; after MapNext it has.
LEMMA TurnFacts ==
  ASSUME ExecTypeOK, AtSegment \/ AtStack, pc \in Mapping, MapNext,
         prog' = prog, seg' = seg, stack' = stack
  PROVE  /\ page \notin Done /\ page \notin SegsBefore(prog, seg)
         /\ Done \cup {page} \subseteq Done'
         /\ page \in UserMin .. StackPage(2) /\ page \in Pages /\ page >= UserMin
<1>1. prog \in DOMAIN Programs /\ page \in Pages
  BY DEF ExecTypeOK
<1>2. StackPage(1) = TotalFrames /\ StackPage(2) = TotalFrames + 1 /\ StackPages = {TotalFrames, TotalFrames + 1}
      /\ TotalFrames \in Nat /\ UserMin \in Nat /\ UserMin < TotalFrames
  BY Numbers
<1>3. SegsBefore(prog, seg) \subseteq UserMin .. TotalFrames - 1
  BY <1>1, SegsBeforeFacts
<1>4. Done = SegsBefore(prog, seg)
               \cup {p \in IF page \in StackPages THEN StackPages ELSE SegPages(prog, seg) : p < page}
  BY DEF Done, Partly
<1>5. Done' = SegsBefore(prog, seg) \cup Partly'
  BY DEF Done
<1>6. CASE AtSegment
  <2>1. page \in UserMin .. TotalFrames - 1 /\ page \notin StackPages /\ seg \in DOMAIN Segs(prog)
        /\ page \in SegPages(prog, seg)
    BY <1>6, PageFacts DEF AtSegment
  <2>2. page \notin SegsBefore(prog, seg)
    BY <1>1, <2>1, SegsBeforeFacts
  <2>3. \A p \in SegPages(prog, seg) : p \in Int
    BY <1>1, <2>1, SegFacts, Numbers
  <2>4. page \notin Done
    BY <1>4, <2>1, <2>2
  <2>5. {p \in SegPages(prog, seg) : p < page} \cup {page} \subseteq Partly'
    <3>1. CASE pc' = "page" /\ page' = page + 1 /\ page + 1 \in SegPages(prog, seg)
      <4>1. page + 1 \in UserMin .. TotalFrames - 1
        BY <1>1, <2>1, <3>1, SegFacts
      <4>2. page' \notin StackPages
        BY <1>2, <3>1, <4>1
      <4>3. Partly' = {p \in SegPages(prog, seg) : p < page + 1}
        BY <3>1, <4>2 DEF Partly, StackPages, StackPage
      <4>4. page \in Int /\ page < page + 1
        BY <1>2, <2>1
      <4>5. \A p \in SegPages(prog, seg) : p < page => p < page + 1
        BY <2>3, <4>4
      <4>6. page \in Partly'
        BY <2>1, <4>3, <4>4
      <4> QED BY <4>3, <4>5, <4>6
    <3>2. CASE pc' = "copy"
      <4>1. Partly' = SegPages(prog, seg)
        BY <3>2 DEF Partly, Mapping
      <4> QED BY <2>1, <4>1
    <3>3. (pc' = "page" /\ page' = page + 1 /\ page + 1 \in SegPages(prog, seg)) \/ pc' = "copy"
      BY <1>6, PageFacts, MapNextFacts
    <3> QED BY <3>1, <3>2, <3>3
  <2>6. Done = SegsBefore(prog, seg) \cup {p \in SegPages(prog, seg) : p < page}
    BY <1>4, <2>1
  <2> QED BY <1>1, <1>2, <1>5, <2>1, <2>2, <2>4, <2>5, <2>6
<1>7. CASE AtStack
  <2>1. page = StackPage(1) \/ page = StackPage(2)
    BY <1>7, PageFacts
  <2>2. page \notin SegsBefore(prog, seg) /\ page \in StackPages
    BY <1>2, <1>3, <2>1
  <2>3. page \notin Done
    BY <1>2, <1>4, <2>1, <2>2
  <2>4. {p \in StackPages : p < page} \cup {page} \subseteq Partly'
    <3>1. CASE page = StackPage(2) /\ pc' = "jump"
      <4>1. Partly' = StackPages
        BY <3>1 DEF Partly, Mapping, StackPages, StackPage
      <4> QED BY <2>2, <4>1
    <3>2. CASE page = StackPage(1) /\ pc' = "split" /\ page' = StackPage(2)
      <4>1. page' \in StackPages
        BY <3>2 DEF StackPages
      <4>2. Partly' = {p \in StackPages : p < StackPage(2)}
        BY <3>2, <4>1 DEF Partly, Mapping, StackPages, StackPage
      <4> QED BY <1>2, <3>2, <4>2
    <3>3. (page = StackPage(2) /\ pc' = "jump") \/ (page = StackPage(1) /\ pc' = "split" /\ page' = StackPage(2))
      BY <1>7, PageFacts, MapNextFacts
    <3> QED BY <3>1, <3>2, <3>3
  <2>5. Done = SegsBefore(prog, seg) \cup {p \in StackPages : p < page}
    BY <1>4, <2>2
  <2> QED BY <1>1, <1>2, <1>5, <2>1, <2>2, <2>3, <2>4, <2>5
<1> QED BY <1>6, <1>7

\* The frame that was mapped, and it alone, is no longer pending.
LEMMA TurnPending ==
  ASSUME ExecTypeOK, AtSegment \/ AtStack, pc = "map" \/ pc = "map_large", MapNext, stack' = stack,
         page = StackPage(1) => frame # stack[2]
  PROVE  /\ frame \in Pending /\ Pending' = Pending \ {frame}
         /\ pc' \in {"jump", "split", "page", "copy"}
         /\ ~(pc' = "split" /\ page' = StackPage(1))
<1>1. Pending = {frame} \cup (IF page = StackPage(1) THEN {stack[2]} ELSE {})
  BY DEF Pending, Mapping
<1>2. StackPage(1) # StackPage(2)
  BY Numbers
<1>3. CASE AtStack /\ page = StackPage(2) /\ pc' = "jump"
  <2>1. Pending' = {}
    BY <1>3 DEF Pending, Mapping
  <2> QED BY <1>1, <1>2, <1>3, <2>1
<1>4. CASE AtStack /\ page = StackPage(1) /\ pc' = "split" /\ page' = StackPage(2) /\ frame' = stack[2]
  <2>1. Pending' = {stack[2]}
    BY <1>2, <1>4 DEF Pending, Mapping, StackPage
  <2> QED BY <1>1, <1>2, <1>4, <2>1
<1>5. CASE AtSegment /\ (pc' = "page" \/ pc' = "copy")
  <2>1. Pending' = {}
    BY <1>5 DEF Pending, Mapping
  <2>2. page # StackPage(1)
    BY <1>5, PageFacts, Numbers
  <2> QED BY <1>1, <1>5, <2>1, <2>2
<1> QED BY <1>3, <1>4, <1>5, MapNextFacts

LEMMA MapProgress ==
  ASSUME EInv, map_page, ~high'
  PROVE  Owned' /\ Progress'
<1>1. /\ pc = "map" /\ MapNext /\ NoAllocation /\ split' = split /\ prog' = prog
      /\ seg' = seg /\ stack' = stack /\ leaked' = leaked /\ mem' = mem
      /\ pte' = [pte EXCEPT ![page] = frame] /\ user' = user \cup {page}
  BY DEF map_page, At, args
<1>2. held' = held /\ bitmap' = bitmap /\ high' = high
  BY <1>1, NoAllocationFacts
<1>3. ExecTypeOK /\ Control /\ Owned /\ Progress
  BY <1>1, <1>2 DEF EInv, Stopped
<1>4. (AtSegment \/ AtStack) /\ pc \in Mapping
  BY <1>1, <1>3 DEF Control, Mapping
<1>5. /\ page \notin Done /\ page \notin SegsBefore(prog, seg) /\ Done \cup {page} \subseteq Done'
      /\ page \in UserMin .. StackPage(2) /\ page \in Pages
  BY <1>1, <1>3, <1>4, TurnFacts
<1>6. /\ held = TableFrames \cup Mapped \cup leaked \cup Pending
      /\ Pending \cap (TableFrames \cup Mapped \cup leaked) = {}
      /\ page = StackPage(1) => frame # stack[2]
      /\ IsSplit(RegionOf(page))
      /\ user \subseteq Done
      /\ \A p \in user \cap SegsBefore(prog, seg) : mem[pte[p]] = <<prog, p>>
  BY <1>1, <1>3, <1>4 DEF Progress, Launched
<1>7. /\ frame \in Pending /\ Pending' = Pending \ {frame} /\ pc' \in {"jump", "split", "page", "copy"}
      /\ ~(pc' = "split" /\ page' = StackPage(1))
  BY <1>1, <1>3, <1>4, <1>6, TurnPending
<1>8. page \notin user /\ user \subseteq Pages /\ DOMAIN pte = Pages
  BY <1>3, <1>5, <1>6 DEF ExecTypeOK
<1>9. pte'[page] = frame /\ \A p \in Pages : p # page => pte'[p] = pte[p]
  BY <1>1, <1>5, <1>8
<1>10. \A p \in user : pte'[p] = pte[p] /\ pte[p] \in Mapped /\ pte[p] # frame
  BY <1>6, <1>7, <1>8, <1>9 DEF Mapped
<1>11. Mapped' = Mapped \cup {frame} /\ TableFrames' = TableFrames
  <2>1. Mapped' = {pte'[p] : p \in user \cup {page}}
    BY <1>1 DEF Mapped
  <2>2. Mapped' = Mapped \cup {frame}
    BY <1>9, <1>10, <2>1 DEF Mapped
  <2> QED BY <1>1, <2>2 DEF TableFrames, IsSplit
<1>12. Owned'
  <2>1. held' \subseteq bitmap' \ {0} /\ 0 \in bitmap' /\ (\A f \in held' : f < UserMin)
        /\ TableFrames' \subseteq held'
    BY <1>2, <1>3, <1>11 DEF Owned
  <2>2. \A p \in user' : /\ p \in UserMin .. StackPage(2) /\ IsSplit(RegionOf(p))'
                         /\ pte'[p] \in held' \ (TableFrames' \cup leaked')
    BY <1>1, <1>2, <1>3, <1>5, <1>6, <1>7, <1>9, <1>10, <1>11 DEF Owned, IsSplit
  <2>3. \A p \in user' : \A q \in user' : pte'[p] = pte'[q] => p = q
    <3>1. \A p \in user : \A q \in user : pte[p] = pte[q] => p = q
      BY <1>3 DEF Owned
    <3> QED BY <1>1, <1>9, <1>10, <3>1
  <2>4. \A p \in Pages \ user' : pte'[p] = p \/ (pte'[p] = NotPresent /\ IsSplit(RegionOf(p))')
    BY <1>1, <1>3, <1>9 DEF Owned, IsSplit
  <2> QED BY <2>1, <2>2, <2>3, <2>4 DEF Owned
<1>13. held' = TableFrames' \cup Mapped' \cup leaked' \cup Pending'
       /\ Pending' \cap (TableFrames' \cup Mapped' \cup leaked') = {}
  BY <1>1, <1>2, <1>6, <1>7, <1>11
<1>14. \A p \in user' \cap SegsBefore(prog', seg') : mem'[pte'[p]] = <<prog', p>>
  BY <1>1, <1>5, <1>6, <1>10
<1>15. user' \subseteq Done'
  BY <1>1, <1>5, <1>6
<1>16. Progress'
  BY <1>7, <1>13, <1>14, <1>15 DEF Progress, StackPage, Mapping
<1> QED BY <1>12, <1>16

\* The first frame of a large page of the user window is one of the window.
LEMMA ScribbledFrame ==
  ASSUME NEW p \in Pages, p >= UserMin
  PROVE  RegionOf(p) * Region >= UserMin /\ RegionOf(p) * Region \in Nat
<1> DEFINE r == p \div Region
           m == UserMin \div Region
<1>1. Region \in Nat /\ Region > 0 /\ UserMin \in Nat /\ p \in Nat
  BY Numbers DEF Pages
<1>2. UserMin = m * Region
  <2>1. UserMin % Region = 0
    BY ExecAssumption
  <2> QED BY <1>1, <2>1
<1>3. r \in Nat /\ m \in Nat /\ p < r * Region + Region
  BY <1>1, DivBounds
<1>4. ~(r < m)
  <2> SUFFICES ASSUME r < m PROVE FALSE
    OBVIOUS
  <2>1. r * Region + Region <= m * Region
    <3> HIDE DEF m, r
    <3> QED BY <1>3, RegionMono
  <2>2. m * Region \in Nat /\ r * Region \in Nat
    BY <1>1, <1>3
  <2> HIDE DEF m, r
  <2> QED BY <1>1, <1>2, <1>3, <2>1, <2>2
<1> HIDE DEF m, r
<1>5. r = m \/ m < r
  BY <1>3, <1>4
<1>6. r * Region \in Nat /\ m * Region \in Nat
  BY <1>1, <1>3
<1>7. m < r => m * Region + Region <= r * Region
  BY <1>3, RegionMono
<1>8. r * Region >= UserMin
  BY <1>1, <1>2, <1>5, <1>6, <1>7
<1> QED BY <1>6, <1>8 DEF r, RegionOf

LEMMA LargeProgress ==
  ASSUME EInv, map_large, ~high'
  PROVE  Owned' /\ Progress'
<1>1. /\ pc = "map_large" /\ MapNext /\ NoAllocation /\ split' = split /\ prog' = prog
      /\ seg' = seg /\ stack' = stack /\ leaked' = leaked \cup {frame}
      /\ mem' = [f \in Frames |-> IF f = RegionOf(page) * Region THEN Scribble ELSE mem[f]]
      /\ pte' = pte /\ user' = user
  BY DEF map_large, At, args, tables
<1>2. held' = held /\ bitmap' = bitmap /\ high' = high
  BY <1>1, NoAllocationFacts
<1>3. ExecTypeOK /\ Control /\ Owned /\ Progress
  BY <1>1, <1>2 DEF EInv, Stopped
<1>4. (AtSegment \/ AtStack) /\ pc \in Mapping
  BY <1>1, <1>3 DEF Control, Mapping
<1>5. /\ Done \cup {page} \subseteq Done' /\ page \in Pages /\ page >= UserMin
  BY <1>1, <1>3, <1>4, TurnFacts
<1>6. /\ held = TableFrames \cup Mapped \cup leaked \cup Pending
      /\ Pending \cap (TableFrames \cup Mapped \cup leaked) = {}
      /\ page = StackPage(1) => frame # stack[2]
      /\ user \subseteq Done
      /\ \A p \in user \cap SegsBefore(prog, seg) : mem[pte[p]] = <<prog, p>>
  BY <1>1, <1>3, <1>4 DEF Progress, Launched
<1>7. /\ frame \in Pending /\ Pending' = Pending \ {frame} /\ pc' \in {"jump", "split", "page", "copy"}
      /\ ~(pc' = "split" /\ page' = StackPage(1))
  BY <1>1, <1>3, <1>4, <1>6, TurnPending
<1>8. held' \subseteq bitmap' \ {0} /\ 0 \in bitmap' /\ (\A f \in held' : f < UserMin)
      /\ leaked' \cap Mapped \subseteq leaked
  BY <1>1, <1>2, <1>3, <1>6, <1>7 DEF Owned
<1>9. Owned' /\ TableFrames' = TableFrames /\ Mapped' = Mapped
  BY <1>1, <1>2, <1>3, <1>8, OwnedKept
<1>10. \A p \in user : mem'[pte[p]] = mem[pte[p]]
  <2>1. RegionOf(page) * Region >= UserMin /\ RegionOf(page) * Region \in Nat
    BY <1>5, ScribbledFrame
  <2>2. \A p \in user : pte[p] \in held
    BY <1>3 DEF Owned
  <2>3. \A f \in held : f < UserMin /\ f \in Frames /\ f \in Nat
    BY <1>3 DEF Owned, ExecTypeOK, TypeOK, Frames
  <2>4. \A f \in held : f # RegionOf(page) * Region
    BY <2>1, <2>3, Numbers
  <2> QED BY <1>1, <2>2, <2>3, <2>4
<1>11. held' = TableFrames' \cup Mapped' \cup leaked' \cup Pending'
       /\ Pending' \cap (TableFrames' \cup Mapped' \cup leaked') = {}
  BY <1>1, <1>2, <1>6, <1>7, <1>9
<1>12. \A p \in user' \cap SegsBefore(prog', seg') : mem'[pte'[p]] = <<prog', p>>
  BY <1>1, <1>6, <1>10
<1>13. user' \subseteq Done'
  BY <1>1, <1>5, <1>6
<1>14. Progress'
  BY <1>7, <1>11, <1>12, <1>13 DEF Progress, StackPage, Mapping
<1> QED BY <1>9, <1>14

\* The segment is copied to the frames its pages map, each a frame of one page.
LEMMA CopyProgress ==
  ASSUME EInv, elf_copy, ~high'
  PROVE  Owned' /\ Progress'
<1>1. /\ pc = "copy" /\ NoAllocation /\ split' = split /\ pte' = pte /\ user' = user
      /\ stack' = stack /\ leaked' = leaked /\ Segment(seg + 1)
      /\ mem' = [f \in Frames |->
                   LET ps == {p \in SegPages(prog, seg) : pte[p] = f}
                   IN  IF ps = {} THEN mem[f] ELSE <<prog, CHOOSE p \in ps : TRUE>>]
  BY DEF elf_copy, At, tables, Copied
<1>2. held' = held /\ bitmap' = bitmap /\ high' = high
  BY <1>1, NoAllocationFacts
<1>3. ExecTypeOK /\ Control /\ Owned /\ Progress
  BY <1>1, <1>2 DEF EInv, Stopped
<1>4. seg \in DOMAIN Segs(prog) /\ prog \in DOMAIN Programs
  BY <1>1, <1>3 DEF Control, ExecTypeOK
<1>5. held' \subseteq bitmap' \ {0} /\ 0 \in bitmap' /\ \A f \in held' : f < UserMin
  BY <1>2, <1>3 DEF Owned
<1>6. Owned' /\ TableFrames' = TableFrames /\ Mapped' = Mapped
  BY <1>1, <1>2, <1>3, <1>5, OwnedKept
<1>7. /\ held = TableFrames \cup Mapped \cup leaked
      /\ user \subseteq Done
      /\ \A p \in user \cap SegsBefore(prog, seg) : mem[pte[p]] = <<prog, p>>
  BY <1>1, <1>3 DEF Progress, Launched, Pending, Mapping
<1>8. Done = SegsBefore(prog, seg) \cup SegPages(prog, seg)
  BY <1>1 DEF Done, Partly, Mapping
<1>9. PICK k : k = seg + 1
  OBVIOUS
<1>10. k \in 1 .. Len(Segs(prog)) + 1 /\ Segment(k)
  BY <1>1, <1>4, <1>9, SegFacts
<1>11. \/ pc' = "lost" \/ pc' = "unmap"
       \/ (pc' = "page" \/ pc' = "stack1") /\ prog' = prog /\ seg' = k
  BY <1>3, <1>10, SegmentFacts
<1>12. /\ SegsBefore(prog, k) = SegsBefore(prog, seg) \cup SegPages(prog, seg)
       /\ SegsBefore(prog, seg) \cap SegPages(prog, seg) = {}
  BY <1>4, <1>9, SegsBeforeFacts
<1>13. SegPages(prog, seg) \subseteq Pages /\ \A q \in SegPages(prog, seg) : q >= UserMin
  BY <1>4, SegFacts, Numbers DEF Pages
<1>14. \A p \in user : pte[p] \in held /\ pte[p] \in Frames /\ pte[p] \in Nat /\ pte[p] < UserMin
  <2>1. held \subseteq Frames /\ Frames \subseteq Nat
    BY <1>3 DEF ExecTypeOK, TypeOK, Frames
  <2>2. \A p \in user : pte[p] \in held
    BY <1>3 DEF Owned
  <2> QED BY <1>3, <2>1, <2>2 DEF Owned
<1>15. ASSUME NEW p \in user, NEW q \in SegPages(prog, seg), pte[q] = pte[p]
       PROVE  q = p
  <2>1. CASE q \in user
    BY <1>3, <1>15, <2>1 DEF Owned
  <2>2. CASE q \notin user
    <3>1. pte[q] = q \/ pte[q] = NotPresent
      BY <1>3, <1>13, <2>2 DEF Owned
    <3>2. q \in Pages /\ q >= UserMin
      BY <1>13
    <3> QED BY <1>14, <1>15, <3>1, <3>2, Numbers DEF NotPresent, Pages
  <2> QED BY <2>1, <2>2
<1>16. ASSUME NEW p \in user \cap SegsBefore(prog, k)
       PROVE  mem'[pte[p]] = <<prog, p>>
  <2> DEFINE ps == {q \in SegPages(prog, seg) : pte[q] = pte[p]}
  <2>1. mem'[pte[p]] = IF ps = {} THEN mem[pte[p]] ELSE <<prog, CHOOSE q \in ps : TRUE>>
    BY <1>1, <1>14
  <2>2. CASE p \in SegPages(prog, seg)
    <3>1. ps = {p}
      BY <1>15, <2>2
    <3> HIDE DEF ps
    <3>2. (CHOOSE q \in ps : TRUE) = p
      BY <3>1
    <3> QED BY <2>1, <3>1, <3>2
  <2>3. CASE p \in SegsBefore(prog, seg)
    <3>1. ps = {}
      BY <1>12, <1>15, <2>3
    <3> HIDE DEF ps
    <3> QED BY <1>7, <2>1, <2>3, <3>1
  <2> QED BY <1>12, <2>2, <2>3
<1>17. Progress'
  <2>1. CASE pc' = "lost" \/ pc' = "unmap"
    BY <1>1, <1>2, <1>6, <1>7, <2>1, NothingPending
  <2>2. CASE (pc' = "page" \/ pc' = "stack1") /\ prog' = prog /\ seg' = k
    <3>1. Pending' = {}
      BY <2>2 DEF Pending, Mapping
    <3>2. user' \subseteq Done'
      BY <1>1, <1>7, <1>8, <1>12, <2>2 DEF Done
    <3>3. \A p \in user' \cap SegsBefore(prog', seg') : mem'[pte'[p]] = <<prog', p>>
      BY <1>1, <1>16, <2>2
    <3> QED BY <1>1, <1>2, <1>6, <1>7, <2>2, <3>1, <3>2, <3>3 DEF Progress, Mapping
  <2> QED BY <1>11, <2>1, <2>2
<1> QED BY <1>6, <1>17

\* The frames of the stack: both, or the launch gives up and forgets the one
\* it got.
LEMMA StackProgress ==
  ASSUME EInv, stack1 \/ stack2, ~high'
  PROVE  Owned' /\ Progress'
<1>1. /\ pc = "stack1" \/ pc = "stack2"
      /\ Allocate /\ split' = split /\ pte' = pte /\ user' = user /\ mem' = mem /\ seg' = seg
  BY DEF stack1, stack2, At, tables
<1>2. ExecTypeOK /\ Control /\ boot = "ready" /\ seg = Len(Segs(prog)) + 1 /\ prog \in DOMAIN Programs
  BY <1>1 DEF EInv, Control, ExecTypeOK
<1>3. ~high
  BY <1>1, <1>2, AllocateFacts DEF ExecTypeOK
<1>4. Owned /\ Progress
  BY <1>1, <1>3 DEF EInv, Stopped
<1>5. /\ held \subseteq held' /\ held' \subseteq bitmap' \ {0} /\ 0 \in bitmap'
      /\ \A f \in held' : f < UserMin
      /\ \/ Allocated = 0 /\ held' = held
         \/ Allocated # 0 /\ Allocated \notin held /\ held' = held \cup {Allocated}
  BY <1>1, <1>2, <1>4, AllocateOwned
<1>6. /\ held = TableFrames \cup Mapped \cup leaked \cup Pending
      /\ Pending \cap (TableFrames \cup Mapped \cup leaked) = {}
      /\ user \subseteq SegsBefore(prog, seg)
      /\ \A p \in user \cap SegsBefore(prog, seg) : mem[pte[p]] = <<prog, p>>
  BY <1>1, <1>4 DEF Progress, Launched, Done, Partly, Mapping
<1>7. CASE stack1
  <2>1. pc = "stack1" /\ stack' = <<Allocated, 0>> /\ pc' = "stack2" /\ prog' = prog /\ leaked' = leaked
    BY <1>7 DEF stack1, At, Goto, args
  <2>2. Owned' /\ TableFrames' = TableFrames /\ Mapped' = Mapped
    BY <1>1, <1>4, <1>5, <2>1, OwnedKept
  <2>3. Pending = {} /\ Pending' = {Allocated} \ {0}
    BY <2>1 DEF Pending, Mapping
  <2>4. held' = TableFrames' \cup Mapped' \cup leaked' \cup Pending'
        /\ Pending' \cap (TableFrames' \cup Mapped' \cup leaked') = {}
    BY <1>5, <1>6, <2>1, <2>2, <2>3
  <2>5. user' \subseteq Done' /\ \A p \in user' \cap SegsBefore(prog', seg') : mem'[pte'[p]] = <<prog', p>>
    BY <1>1, <1>6, <2>1 DEF Done
  <2>6. Progress'
    BY <2>1, <2>4, <2>5 DEF Progress, Mapping
  <2> QED BY <2>2, <2>6
<1>8. CASE stack2 /\ (stack[1] = 0 \/ Allocated = 0)
  <2>1. pc = "stack2" /\ Fail /\ leaked' = leaked \cup ({stack[1], Allocated} \ {0})
    BY <1>8 DEF stack2, At
  <2>2. Pending = {stack[1]} \ {0}
    BY <2>1 DEF Pending, Mapping
  <2>3. Mapped \subseteq held /\ leaked' \cap Mapped \subseteq leaked
    BY <1>5, <1>6, <2>1, <2>2
  <2>4. Owned' /\ TableFrames' = TableFrames /\ Mapped' = Mapped
    BY <1>1, <1>4, <1>5, <2>3, OwnedKept
  <2>5. held' = TableFrames' \cup Mapped' \cup leaked'
    BY <1>5, <1>6, <2>1, <2>2, <2>4
  <2>6. pc' = "lost" \/ pc' = "unmap"
    BY <1>2, <2>1, FailFacts
  <2>7. Progress'
    BY <2>5, <2>6, NothingPending
  <2> QED BY <2>4, <2>7
<1>9. CASE stack2 /\ stack[1] # 0 /\ Allocated # 0
  <2>1. /\ pc = "stack2" /\ stack' = <<stack[1], Allocated>> /\ pc' = "split" /\ page' = StackPage(1)
        /\ frame' = stack[1] /\ prog' = prog /\ leaked' = leaked
    BY <1>9 DEF stack2, At, Goto, args
  <2>2. Owned' /\ TableFrames' = TableFrames /\ Mapped' = Mapped
    BY <1>1, <1>4, <1>5, <2>1, OwnedKept
  <2>3. Pending = {stack[1]}
    BY <1>9, <2>1 DEF Pending, Mapping
  <2>4. Pending' = {stack[1], Allocated} /\ stack'[2] = Allocated
    BY <2>1 DEF Pending, Mapping, StackPage
  <2>5. held' = TableFrames' \cup Mapped' \cup leaked' \cup Pending'
        /\ Pending' \cap (TableFrames' \cup Mapped' \cup leaked') = {}
    BY <1>5, <1>6, <1>9, <2>1, <2>2, <2>3, <2>4
  <2>6. user' \subseteq Done' /\ \A p \in user' \cap SegsBefore(prog', seg') : mem'[pte'[p]] = <<prog', p>>
    BY <1>1, <1>6, <2>1 DEF Done
  <2>7. frame' # stack'[2]
    BY <1>5, <1>6, <1>9, <2>1, <2>3, <2>4
  <2>8. Progress'
    BY <2>1, <2>5, <2>6, <2>7 DEF Progress, Mapping
  <2> QED BY <2>2, <2>8
<1> QED BY <1>7, <1>8, <1>9

\* The arguments go to a frame that holds no page of the image.
LEMMA JumpProgress ==
  ASSUME EInv, jump_usermode, ~high'
  PROVE  Owned' /\ (pc' \notin Stopped => Progress')
<1>1. /\ pc = "jump" /\ NoAllocation /\ split' = split /\ pte' = pte /\ user' = user
      /\ prog' = prog /\ leaked' = leaked
      /\ mem' = [f \in Frames |-> IF f = pte[StackPage(2)] THEN Arguments ELSE mem[f]]
      /\ \/ ImagePages(prog) \cup StackPages \subseteq user /\ pc' = "user"
         \/ pc' = "panic"
  BY DEF jump_usermode, At, tables, args, Goto
<1>2. held' = held /\ bitmap' = bitmap /\ high' = high
  BY <1>1, NoAllocationFacts
<1>3. ExecTypeOK /\ Control /\ Owned /\ Progress /\ seg' = seg
  BY <1>1, <1>2 DEF EInv, Stopped, jump_usermode, locals
<1>4. held' \subseteq bitmap' \ {0} /\ 0 \in bitmap' /\ \A f \in held' : f < UserMin
  BY <1>2, <1>3 DEF Owned
<1>5. Owned' /\ TableFrames' = TableFrames /\ Mapped' = Mapped
  BY <1>1, <1>2, <1>3, <1>4, OwnedKept
<1>6. ASSUME ImagePages(prog) \cup StackPages \subseteq user, pc' = "user"
      PROVE  Progress'
  <2>1. /\ held = TableFrames \cup Mapped \cup leaked
        /\ user \subseteq Done
        /\ \A p \in user \cap SegsBefore(prog, seg) : mem[pte[p]] = <<prog, p>>
    BY <1>1, <1>3 DEF Progress, Launched, Pending, Mapping
  <2>2. Done' = Done /\ Pending' = {}
    BY <1>1, <1>3, <1>6 DEF Done, Partly, Pending, Mapping, StackPages, StackPage
  <2>3. StackPage(2) \in user /\ \A p \in user : pte[p] \in Frames
    BY <1>3, <1>6 DEF Owned, ExecTypeOK, TypeOK, StackPages
  <2>4. SegsBefore(prog, seg) \subseteq UserMin .. TotalFrames - 1
    BY <1>3, SegsBeforeFacts DEF ExecTypeOK
  <2>5. StackPage(2) \notin SegsBefore(prog, seg)
    BY <2>4, Numbers
  <2>6. \A p \in user \cap SegsBefore(prog, seg) : pte[p] # pte[StackPage(2)]
    BY <1>3, <2>3, <2>5 DEF Owned
  <2>7. \A p \in user' \cap SegsBefore(prog', seg') : mem'[pte'[p]] = <<prog', p>>
    BY <1>1, <1>3, <2>1, <2>3, <2>6
  <2>8. mem'[pte'[StackPage(2)]] = Arguments
    BY <1>1, <2>3
  <2>9. ImagePages(prog') \cup StackPages \subseteq user'
    BY <1>1, <1>6
  <2>10. held' = TableFrames' \cup Mapped' \cup leaked' \cup Pending'
         /\ Pending' \cap (TableFrames' \cup Mapped' \cup leaked') = {} /\ user' \subseteq Done'
    BY <1>1, <1>2, <1>5, <2>1, <2>2
  <2> QED BY <1>6, <2>7, <2>8, <2>9, <2>10
          DEF Progress, Mapping, ImagePages, Segs, SegPages, StackPages, StackPage
<1> QED BY <1>1, <1>5, <1>6 DEF Stopped

\* A fault stops the machine; what it owned stays as it was.
LEMMA FaultProgress ==
  ASSUME EInv, page_fault \/ stray_access, ~high'
  PROVE  Owned' /\ pc' \in Stopped
<1>1. ExecTypeOK /\ Control
  BY DEF EInv
<1>2. UNCHANGED <<vars, tables, locals, history>>
  BY <1>1, OtherTypes
<1>3. /\ bitmap' = bitmap /\ held' = held /\ split' = split /\ pte' = pte /\ user' = user
      /\ high' = high /\ leaked' = leaked
  BY <1>2 DEF vars, tables, history
<1>4. pc # "boot"
  <2> SUFFICES ASSUME pc = "boot" PROVE FALSE
    OBVIOUS
  <2>1. Needs = {} /\ Writes = {}
    BY DEF Needs, Writes
  <2> QED BY <2>1 DEF page_fault, stray_access, OnTarget
<1>5. Owned
  BY <1>3, <1>4 DEF EInv
<1>6. held' \subseteq bitmap' \ {0} /\ 0 \in bitmap' /\ \A f \in held' : f < UserMin
  BY <1>3, <1>5 DEF Owned
<1>7. Owned'
  BY <1>3, <1>5, <1>6, OwnedKept
<1> QED BY <1>7 DEF page_fault, stray_access, Goto, Stopped

\* The allocator boots before anything is launched.
LEMMA BootEInv ==
  ASSUME EInv, BootStep
  PROVE  EInv'
<1>1. /\ pmm_init_entry \/ pmm_init_kernel \/ reserve_module \/ boot_done
      /\ UNCHANGED evars
  BY DEF BootStep
<1>2. boot # "ready" /\ held' = held
  BY <1>1 DEF pmm_init_entry, pmm_init_kernel, reserve_module, boot_done
<1>3. pc = "boot"
  BY <1>2 DEF EInv, Control
<1>4. IInv /\ ExecTypeOK
  BY <1>3 DEF EInv
<1>5. IInv'
  BY <1>1, <1>4, EntryStep, KernelStep, ModuleStep, BootDoneStep
<1>6. /\ split' = split /\ pte' = pte /\ user' = user /\ mem' = mem /\ pc' = pc /\ prog' = prog
      /\ fallback' = fallback /\ high' = high /\ refused' = refused /\ leaked' = leaked
      /\ seg' = seg /\ page' = page /\ frame' = frame /\ table' = table /\ stack' = stack
  BY <1>1 DEF evars, tables, args, locals, history
<1>7. TypeOK'
  BY <1>5 DEF IInv
<1>8. ExecTypeOK'
  BY <1>4, <1>6, <1>7 DEF ExecTypeOK
<1>9. Control'
  BY <1>3, <1>6 DEF Control, Mapping
<1>10. held' = {} /\ user' = {} /\ leaked' = {} /\ TableFrames' = {} /\ \A p \in Pages : pte'[p] = p
  BY <1>2, <1>3, <1>6 DEF EInv, TableFrames, IsSplit
<1> QED BY <1>3, <1>5, <1>6, <1>8, <1>9, <1>10 DEF EInv, Stopped

LEMMA InitEInv == ExecInit => EInv
<1> SUFFICES ASSUME ExecInit PROVE EInv
  OBVIOUS
<1>1. IInv
  BY InitIInv DEF ExecInit
<1>2. /\ split = [r \in Regions |-> 0] /\ pte = [p \in Pages |-> p] /\ user = {} /\ leaked = {}
      /\ mem = [f \in Frames |-> Nothing] /\ pc = "boot" /\ prog = 1
      /\ seg = 1 /\ page = UserMin /\ frame = 0 /\ table = 0 /\ stack = <<0, 0>> /\ held = {}
  BY DEF ExecInit, Init
<1>3. TypeOK
  BY <1>1 DEF IInv
<1>4. TableTypes /\ DOMAIN mem = Frames /\ pc \in Labels /\ prog \in DOMAIN Programs
      /\ leaked \subseteq Frames
  BY <1>2, Numbers, InitIsThere DEF TableTypes, Labels
<1>5. LocalTypes
  BY <1>2, Numbers DEF LocalTypes, Pages
<1>6. Flags
  BY DEF ExecInit, Flags
<1>7. ExecTypeOK
  BY <1>3, <1>4, <1>5, <1>6, TypeParts, Zenon
<1>8. Control
  BY <1>2 DEF Control, Mapping
<1>9. TableFrames = {} /\ \A p \in Pages : pte[p] = p
  BY <1>2 DEF TableFrames, IsSplit
<1> QED BY <1>1, <1>2, <1>7, <1>8, <1>9 DEF EInv, Stopped

LEMMA StutterEInv ==
  ASSUME EInv, UNCHANGED allvars
  PROVE  EInv'
<1>1. /\ bitmap' = bitmap /\ free_frames' = free_frames /\ cursor' = cursor /\ boot' = boot
      /\ next' = next /\ mmap' = mmap /\ ret' = ret /\ held' = held
      /\ split' = split /\ pte' = pte /\ user' = user /\ mem' = mem /\ pc' = pc /\ prog' = prog
      /\ fallback' = fallback /\ high' = high /\ refused' = refused /\ leaked' = leaked
      /\ seg' = seg /\ page' = page /\ frame' = frame /\ table' = table /\ stack' = stack
  BY DEF allvars, vars, evars, tables, args, locals, history
<1>2. ExecTypeOK' /\ Control'
  BY <1>1 DEF EInv, ExecTypeOK, TypeOK, Control, AtSegment, AtStack
<1>3. TableFrames' = TableFrames /\ Mapped' = Mapped /\ Pending' = Pending /\ Done' = Done
  BY <1>1 DEF TableFrames, IsSplit, Mapped, Pending, Done, Partly
<1>4. Owned => Owned'
  BY <1>1, <1>3 DEF Owned, IsSplit
<1>5. Progress => Progress'
  BY <1>1, <1>3 DEF Progress, IsSplit
<1>6. IInv => IInv'
  <2>1. UNCHANGED vars
    BY <1>1 DEF vars
  <2> QED BY <2>1, NextIInv
<1> QED BY <1>1, <1>2, <1>3, <1>4, <1>5, <1>6 DEF EInv

LEMMA NextEInv == EInv /\ [ExecNext]_allvars => EInv'
<1> SUFFICES ASSUME EInv, [ExecNext]_allvars PROVE EInv'
  OBVIOUS
<1>0. ExecTypeOK /\ Control
  BY DEF EInv
<1>1. ASSUME pc' # "boot", ExecTypeOK', Control', ~high' => Owned' /\ (pc' \notin Stopped => Progress')
      PROVE  EInv'
  BY <1>1 DEF EInv
<1>2. CASE UNCHANGED allvars
  BY <1>2, StutterEInv
<1>3. CASE BootStep
  BY <1>3, BootEInv
<1>4. CASE Enters
  BY <1>0, <1>1, <1>4, OtherTypes, EnterProgress
<1>5. CASE unmap_range
  <2>1. pc' = "header"
    BY <1>5 DEF unmap_range, Goto
  <2> QED BY <1>0, <1>1, <1>5, <2>1, UnmapTypes, UnmapProgress
<1>6. CASE elf_header
  <2>1. ExecTypeOK' /\ Control'
    BY <1>0, <1>6, HeaderTypes
  <2>2. 1 \in 1 .. Len(Segs(prog)) + 1
    BY <1>0, SegFacts DEF ExecTypeOK
  <2>3. pc' # "boot"
    BY <1>0, <1>6, <2>2, FailFacts, SegmentFacts DEF elf_header
  <2> QED BY <1>1, <1>6, <2>1, <2>3, HeaderProgress
<1>7. CASE elf_page
  <2>1. pc' # "boot"
    BY <1>0, <1>7, FailFacts DEF elf_page, Goto
  <2> QED BY <1>0, <1>1, <1>7, <2>1, PageTypes, PageProgress
<1>8. CASE split_large
  <2>1. pc' # "boot"
    BY <1>8 DEF split_large, Goto
  <2> QED BY <1>0, <1>1, <1>8, <2>1, SplitTypes, SplitProgress
<1>9. CASE split_fill
  <2>1. pc' # "boot"
    BY <1>9 DEF split_fill, Goto
  <2> QED BY <1>0, <1>1, <1>9, <2>1, FillTypes, FillProgress
<1>10. CASE map_page \/ map_large
  <2>1. pc' # "boot"
    BY <1>10 DEF map_page, map_large, MapNext, Goto
  <2> QED BY <1>0, <1>1, <1>10, <2>1, MapTypes, MapProgress, LargeProgress
<1>11. CASE elf_copy
  <2>1. ExecTypeOK' /\ Control'
    BY <1>0, <1>11, CopyTypes
  <2>2. Segment(seg + 1)
    BY <1>11 DEF elf_copy
  <2>3. pc' # "boot"
    BY <1>0, <2>2, FailFacts DEF Segment, Goto
  <2> QED BY <1>1, <1>11, <2>1, <2>3, CopyProgress
<1>12. CASE stack1 \/ stack2
  <2>1. pc' # "boot"
    BY <1>0, <1>12, FailFacts DEF stack1, stack2, Goto
  <2> QED BY <1>0, <1>1, <1>12, <2>1, StackTypes, StackProgress
<1>13. CASE jump_usermode
  BY <1>0, <1>1, <1>13, OtherTypes, JumpProgress
<1>14. CASE page_fault \/ stray_access
  BY <1>0, <1>1, <1>14, OtherTypes, FaultProgress
<1> QED BY <1>2, <1>3, <1>4, <1>5, <1>6, <1>7, <1>8, <1>9, <1>10, <1>11, <1>12, <1>13, <1>14
        DEF ExecNext, EnterStep, Enters

\* The inductive invariant of launches: whatever enter_program, elf_load and the
\* vmm calls did, and wherever they failed, each frame in use has one owner.
THEOREM ExecInductive == ExecSpec => []EInv
  BY InitEInv, NextEInv, PTL DEF ExecSpec

-----------------------------------------------------------------------------
(* The allocator during launches. Nothing is assumed of the frames that    *)
(* were handed out: high may be true.                                      *)

\* What vmm_unmap_range finds in a page of the window that does not map the
\* frame of its number was handed out, or lies in the window itself; and so
\* do the frames a launch is about to map.
PagesGiven ==
  \A p \in Pages : \/ pte[p] \in {p, NotPresent}
                   \/ /\ p \in UserMin .. StackPage(2) /\ IsSplit(RegionOf(p))
                      /\ pte[p] \in held \cup Window
LaunchGiven ==
  /\ pc = "fill" => table # 0
  /\ pc = "map" => IsSplit(RegionOf(page))
  /\ pc \in Mapping => frame \in held \cup Window
  /\ pc \in Mapping /\ page = StackPage(1) => stack[2] \in held \cup Window
  /\ pc = "stack2" => stack[1] \in {0} \cup held \cup Window
BInv == IInv /\ PagesGiven /\ LaunchGiven

\* More frames handed out change nothing about the pages.
LEMMA PagesKept ==
  ASSUME PagesGiven, held \subseteq held', pte' = pte, split' = split
  PROVE  PagesGiven'
  BY DEF PagesGiven, IsSplit

\* Steps that call neither the allocator nor vmm_map.
LEMMA QuietBooks ==
  ASSUME BInv, UNCHANGED vars, UNCHANGED tables, pc' \notin Mapping \cup {"stack2"}
  PROVE  BInv'
<1>1. IInv'
  BY NextIInv DEF BInv
<1>2. held' = held /\ pte' = pte /\ split' = split
  BY DEF vars, tables
<1>3. PagesGiven'
  BY <1>2, PagesKept DEF BInv
<1>4. LaunchGiven'
  BY DEF LaunchGiven, Mapping
<1> QED BY <1>1, <1>3, <1>4 DEF BInv

\* vmm_unmap_range is one pmm_free_frame for each frame it finds: all of them
\* were handed out, lie in the window or past the cap.
LEMMA UnmapBooks ==
  ASSUME BInv, ExecTypeOK, Control, unmap_range
  PROVE  BInv'
<1>1. /\ bitmap' = bitmap \ Released /\ held' = held \ Released
      /\ free_frames' = free_frames + Cardinality(Released \cap bitmap)
      /\ pte' = [p \in Pages |-> IF p \in InWindow THEN NotPresent ELSE pte[p]]
      /\ cursor' = cursor /\ boot' = boot /\ next' = next /\ mmap' = mmap /\ ret' = NoCall
      /\ split' = split /\ pc = "unmap" /\ pc' = "header"
  BY DEF unmap_range, At, Goto, Cleared
<1>2. TypeOK /\ FreeCountExact /\ Accounting /\ boot = "ready" /\ mmap \in MemMaps
  BY <1>1 DEF BInv, IInv, Control, TypeOK
<1>3. /\ held \subseteq bitmap /\ bitmap \subseteq Reserved \cup held /\ bitmap \subseteq Frames
      /\ Reserved \ Window \subseteq bitmap \ held
  BY <1>2 DEF Accounting, TypeOK
<1>4. Released \cap Frames \subseteq held \cup Window
  <2> SUFFICES ASSUME NEW p \in InWindow, pte[p] \in Frames PROVE pte[p] \in held \cup Window
    BY DEF Released
  <2>1. p \in Pages /\ p >= UserMin /\ pte[p] # NotPresent
    BY Numbers DEF InWindow
  <2>2. pte[p] = p => p \in Window
    BY <2>1 DEF Window
  <2> QED BY <2>1, <2>2 DEF PagesGiven, BInv
<1>5. Reserved' = Reserved
  BY <1>1 DEF Reserved, Usable
<1>6. Accounting'
  <2>1. held' \subseteq bitmap' /\ bitmap' \subseteq Reserved \cup held'
    BY <1>1, <1>3
  <2>2. Reserved \ Window \subseteq bitmap' \ held'
    <3> SUFFICES ASSUME NEW f \in Reserved \ Window PROVE f \in bitmap' /\ f \notin held'
      OBVIOUS
    <3>1. f \in bitmap /\ f \notin held /\ f \in Frames
      BY <1>3
    <3>2. f \notin Released
      BY <1>4, <3>1
    <3> QED BY <1>1, <3>1, <3>2
  <2> QED BY <1>5, <2>1, <2>2 DEF Accounting
<1>7. FreeCountExact'
  <2>1. PICK R : R = Released \cap bitmap
    OBVIOUS
  <2>2. bitmap' = bitmap \ R /\ R \subseteq bitmap
    BY <1>1, <2>1
  <2>3. Cardinality(Frames \ (bitmap \ R)) = Cardinality(Frames \ bitmap) + Cardinality(R)
    BY <1>3, <2>2, ClearCount
  <2> QED BY <1>1, <1>2, <2>1, <2>2, <2>3 DEF FreeCountExact
<1>8. TypeOK'
  BY UnmapTypes DEF ExecTypeOK
<1>9. BootShape' /\ ZeroMeansFull'
  BY <1>1, <1>2 DEF BootShape, ZeroMeansFull, NoCall
<1>10. PagesGiven'
  <2> SUFFICES ASSUME NEW p \in Pages PROVE pte'[p] \in {p, NotPresent}
    BY DEF PagesGiven
  <2>1. CASE p \in InWindow
    BY <1>1, <2>1
  <2>2. CASE p \notin InWindow
    <3>1. pte'[p] = pte[p]
      BY <1>1, <2>2
    <3> QED BY <2>2, <3>1 DEF BInv, PagesGiven, InWindow
  <2> QED BY <2>1, <2>2
<1>11. LaunchGiven'
  BY <1>1 DEF LaunchGiven, Mapping
<1> QED BY <1>6, <1>7, <1>8, <1>9, <1>10, <1>11 DEF BInv, IInv

\* A call of pmm_alloc_frame.
LEMMA AllocateBooks ==
  ASSUME BInv, ExecTypeOK, Control, pc # "boot", Allocate, UNCHANGED tables
  PROVE  /\ IInv' /\ PagesGiven' /\ held \subseteq held'
         /\ Allocated = 0 \/ Allocated \in held'
<1>1. pmm_alloc_frame /\ TypeOK /\ boot = "ready"
  BY DEF Allocate, ExecTypeOK, Control
<1>2. IInv'
  BY <1>1, AllocStep DEF BInv
<1>3. held \subseteq held' /\ (Allocated = 0 \/ Allocated \in held')
  BY <1>1, AllocateFacts
<1>4. pte' = pte /\ split' = split
  BY DEF tables
<1> QED BY <1>2, <1>3, <1>4, PagesKept DEF BInv

\* elf_load takes a frame for a page.
LEMMA PageBooks ==
  ASSUME BInv, ExecTypeOK, Control, elf_page
  PROVE  BInv'
<1>1. Allocate /\ UNCHANGED tables /\ pc = "page" /\ page' = page
      /\ IF Allocated = 0 THEN Fail ELSE pc' = "split" /\ frame' = Allocated
  BY DEF elf_page, At, Goto
<1>2. /\ IInv' /\ PagesGiven' /\ (Allocated = 0 \/ Allocated \in held')
  BY <1>1, AllocateBooks
<1>3. page # StackPage(1)
  BY <1>1, PageFacts, Numbers DEF Control
<1>4. CASE Allocated = 0
  <2>1. pc' = "lost" \/ pc' = "unmap"
    BY <1>1, <1>4, FailFacts
  <2> QED BY <1>2, <2>1 DEF BInv, LaunchGiven, Mapping
<1>5. CASE Allocated # 0
  BY <1>1, <1>2, <1>3, <1>5 DEF BInv, LaunchGiven, Mapping
<1> QED BY <1>4, <1>5

\* split_large finds the large page split, or takes a frame for its table.
LEMMA SplitBooks ==
  ASSUME BInv, ExecTypeOK, Control, split_large
  PROVE  BInv'
<1>1. UNCHANGED tables /\ pc = "split" /\ page' = page /\ frame' = frame /\ stack' = stack
  BY DEF split_large, At
<1>2. split' = split /\ pte' = pte
  BY <1>1 DEF tables
<1>3. frame \in held \cup Window /\ (page = StackPage(1) => stack[2] \in held \cup Window)
  BY <1>1 DEF BInv, LaunchGiven, Mapping
<1>4. CASE IsSplit(RegionOf(page))
  <2>1. NoAllocation /\ pc' = "map"
    BY <1>4 DEF split_large, Goto
  <2>2. UNCHANGED vars /\ held' = held
    BY <2>1 DEF NoAllocation, vars
  <2>3. IInv' /\ PagesGiven'
    BY <1>2, <2>2, NextIInv, PagesKept DEF BInv
  <2> QED BY <1>1, <1>2, <1>3, <1>4, <2>1, <2>2, <2>3 DEF BInv, LaunchGiven, Mapping, IsSplit
<1>5. CASE ~IsSplit(RegionOf(page))
  <2>1. Allocate /\ table' = Allocated /\ (IF Allocated = 0 THEN pc' = "map_large" ELSE pc' = "fill")
    BY <1>5 DEF split_large, Goto
  <2>2. IInv' /\ PagesGiven' /\ held \subseteq held'
    BY <1>1, <2>1, AllocateBooks
  <2> QED BY <1>1, <1>3, <2>1, <2>2 DEF BInv, LaunchGiven, Mapping
<1> QED BY <1>4, <1>5

\* The new table.
LEMMA FillBooks ==
  ASSUME BInv, ExecTypeOK, Control, split_fill
  PROVE  BInv'
<1>1. /\ UNCHANGED vars /\ pc = "fill" /\ pc' = "map" /\ pte' = pte /\ held' = held
      /\ page' = page /\ frame' = frame /\ stack' = stack
      /\ split' = [split EXCEPT ![RegionOf(page)] = table]
  BY DEF split_fill, At, Goto, NoAllocation, vars, locals
<1>2. table # 0 /\ frame \in held \cup Window /\ (page = StackPage(1) => stack[2] \in held \cup Window)
  BY <1>1 DEF BInv, LaunchGiven, Mapping
<1>3. RegionOf(page) \in Regions /\ split \in [Regions -> Frames]
  BY RegionOfPage DEF ExecTypeOK
<1>4. split'[RegionOf(page)] # 0 /\ \A r \in Regions : split[r] # 0 => split'[r] # 0
  BY <1>1, <1>2, <1>3
<1>5. PagesGiven'
  <2> SUFFICES ASSUME NEW p \in Pages
               PROVE  \/ pte'[p] \in {p, NotPresent}
                      \/ /\ p \in UserMin .. StackPage(2) /\ split'[RegionOf(p)] # 0
                         /\ pte'[p] \in held' \cup Window
    BY DEF PagesGiven, IsSplit
  <2>1. RegionOf(p) \in Regions
    BY RegionOfPage
  <2> QED BY <1>1, <1>4, <2>1 DEF BInv, PagesGiven, IsSplit
<1>6. LaunchGiven'
  BY <1>1, <1>2, <1>4 DEF LaunchGiven, Mapping, IsSplit
<1>7. IInv'
  BY <1>1, NextIInv DEF BInv
<1> QED BY <1>5, <1>6, <1>7 DEF BInv

\* The entry goes into the table, or into a large page that was not split.
LEMMA MapBooks ==
  ASSUME BInv, ExecTypeOK, Control, map_page \/ map_large
  PROVE  BInv'
<1>1. /\ UNCHANGED vars /\ pc \in {"map", "map_large"} /\ MapNext /\ held' = held
      /\ split' = split /\ stack' = stack
  BY DEF map_page, map_large, At, NoAllocation, vars, tables
<1>2. AtSegment \/ AtStack
  BY <1>1 DEF Control, Mapping
<1>3. /\ frame \in held \cup Window /\ (page = StackPage(1) => stack[2] \in held \cup Window)
      /\ pc = "map" => IsSplit(RegionOf(page))
  BY <1>1 DEF BInv, LaunchGiven, Mapping
<1>4. page \in UserMin .. StackPage(2) /\ page \in Pages /\ pte \in [Pages -> Pages \cup {NotPresent}]
  BY <1>2, PageFacts, Numbers DEF ExecTypeOK
<1>5. PagesGiven'
  <2>1. CASE map_large
    BY <1>1, <2>1, PagesKept DEF BInv, map_large, tables
  <2>2. CASE map_page
    <3>1. pte' = [pte EXCEPT ![page] = frame] /\ pc = "map"
      BY <2>2 DEF map_page, At
    <3> SUFFICES ASSUME NEW p \in Pages
                 PROVE  \/ pte'[p] \in {p, NotPresent}
                        \/ /\ p \in UserMin .. StackPage(2) /\ IsSplit(RegionOf(p))
                           /\ pte'[p] \in held \cup Window
      BY <1>1 DEF PagesGiven, IsSplit
    <3>2. CASE p = page
      BY <1>3, <1>4, <3>1, <3>2
    <3>3. CASE p # page
      BY <1>4, <3>1, <3>3 DEF BInv, PagesGiven
    <3> QED BY <3>2, <3>3
  <2> QED BY <2>1, <2>2
<1>6. LaunchGiven'
  <2>1. \/ pc' = "split" /\ page' = StackPage(2) /\ frame' = stack[2] /\ page = StackPage(1)
        \/ pc' \in {"jump", "page", "copy"}
    BY <1>1, <1>2, MapNextFacts
  <2>2. StackPage(1) # StackPage(2)
    BY Numbers
  <2> QED BY <1>1, <1>3, <2>1, <2>2 DEF LaunchGiven, Mapping
<1>7. IInv'
  BY <1>1, NextIInv DEF BInv
<1> QED BY <1>5, <1>6, <1>7 DEF BInv

\* The two frames of the stack.
LEMMA StackBooks ==
  ASSUME BInv, ExecTypeOK, Control, stack1 \/ stack2
  PROVE  BInv'
<1>1. Allocate /\ UNCHANGED tables /\ pc # "boot"
  BY DEF stack1, stack2, At
<1>2. IInv' /\ PagesGiven' /\ held \subseteq held' /\ (Allocated = 0 \/ Allocated \in held')
  BY <1>1, AllocateBooks
<1>3. CASE stack1
  <2>1. stack' = <<Allocated, 0>> /\ pc' = "stack2"
    BY <1>3 DEF stack1, Goto
  <2>2. stack'[1] = Allocated
    BY <2>1
  <2> QED BY <1>2, <2>1, <2>2 DEF BInv, LaunchGiven, Mapping
<1>4. CASE stack2
  <2>1. stack' = <<stack[1], Allocated>> /\ pc = "stack2"
    BY <1>4 DEF stack2, At
  <2>2. stack'[2] = Allocated
    BY <2>1
  <2>3. CASE stack[1] = 0 \/ Allocated = 0
    <3>1. Fail
      BY <1>4, <2>3 DEF stack2
    <3>2. pc' = "lost" \/ pc' = "unmap"
      BY <3>1, FailFacts
    <3> QED BY <1>2, <3>2 DEF BInv, LaunchGiven, Mapping
  <2>4. CASE ~(stack[1] = 0 \/ Allocated = 0)
    <3>1. pc' = "split" /\ page' = StackPage(1) /\ frame' = stack[1]
      BY <1>4, <2>4 DEF stack2, Goto
    <3>2. stack[1] \in held \cup Window
      BY <2>1, <2>4 DEF BInv, LaunchGiven
    <3> QED BY <1>2, <2>2, <2>4, <3>1, <3>2 DEF BInv, LaunchGiven, Mapping
  <2> QED BY <2>3, <2>4
<1> QED BY <1>3, <1>4

\* The first state.
LEMMA InitBooks == ExecInit => BInv
<1> SUFFICES ASSUME ExecInit PROVE BInv
  OBVIOUS
<1>1. IInv
  BY InitIInv DEF ExecInit
<1>2. PagesGiven
  BY DEF ExecInit, PagesGiven
<1>3. LaunchGiven
  BY DEF ExecInit, LaunchGiven, Mapping
<1> QED BY <1>1, <1>2, <1>3 DEF BInv

\* Every step of the kernel.
LEMMA NextBooks == BInv /\ EInv /\ [ExecNext]_allvars => BInv'
<1> SUFFICES ASSUME BInv, EInv, [ExecNext]_allvars PROVE BInv'
  OBVIOUS
<1>0. ExecTypeOK /\ Control
  BY DEF EInv
<1>1. CASE UNCHANGED allvars
  <2>1. /\ UNCHANGED vars /\ held' = held /\ pte' = pte /\ split' = split /\ pc' = pc
        /\ page' = page /\ frame' = frame /\ table' = table /\ stack' = stack
    BY <1>1 DEF allvars, vars, evars, tables, locals
  <2>2. IInv' /\ PagesGiven'
    BY <2>1, NextIInv, PagesKept DEF BInv
  <2>3. LaunchGiven'
    BY <2>1 DEF BInv, LaunchGiven, IsSplit
  <2> QED BY <2>2, <2>3 DEF BInv
<1>2. CASE BootStep
  <2>1. /\ pmm_init_entry \/ pmm_init_kernel \/ reserve_module \/ boot_done
        /\ UNCHANGED evars
    BY <1>2 DEF BootStep
  <2>2. IInv'
    BY <2>1, EntryStep, KernelStep, ModuleStep, BootDoneStep DEF BInv
  <2>3. boot # "ready" /\ held' = held /\ pte' = pte /\ split' = split /\ pc' = pc
    BY <2>1 DEF pmm_init_entry, pmm_init_kernel, reserve_module, boot_done, evars, tables
  <2>4. pc' = "boot"
    BY <1>0, <2>3 DEF Control
  <2>5. PagesGiven' /\ LaunchGiven'
    BY <2>3, <2>4, PagesKept DEF BInv, LaunchGiven, Mapping
  <2> QED BY <2>2, <2>5 DEF BInv
<1>3. CASE Enters
  <2>1. UNCHANGED vars /\ UNCHANGED tables /\ pc' = "unmap"
    BY <1>3 DEF Enters, start_init, sys_exit, sys_run, Enter, Goto, NoAllocation
  <2> QED BY <2>1, QuietBooks DEF Mapping
<1>4. CASE elf_header
  <2>1. UNCHANGED vars /\ UNCHANGED tables
    BY <1>4 DEF elf_header, NoAllocation
  <2>2. 1 \in 1 .. Len(Segs(prog)) + 1
    BY <1>0, SegFacts DEF ExecTypeOK
  <2>3. pc' \in {"lost", "unmap", "page", "stack1"}
    BY <1>0, <1>4, <2>2, FailFacts, SegmentFacts DEF elf_header
  <2> QED BY <2>1, <2>3, QuietBooks DEF Mapping
<1>5. CASE elf_copy
  <2>1. UNCHANGED vars /\ UNCHANGED tables /\ Segment(seg + 1)
    BY <1>5 DEF elf_copy, NoAllocation
  <2>2. pc' \in {"lost", "unmap", "page", "stack1"}
    BY <1>0, <2>1, FailFacts DEF Segment, Goto
  <2> QED BY <2>1, <2>2, QuietBooks DEF Mapping
<1>6. CASE jump_usermode
  <2>1. UNCHANGED vars /\ UNCHANGED tables /\ pc' \in {"user", "panic"}
    BY <1>6 DEF jump_usermode, NoAllocation, Goto
  <2> QED BY <2>1, QuietBooks DEF Mapping
<1>7. CASE page_fault \/ stray_access
  <2>1. UNCHANGED vars /\ UNCHANGED tables /\ pc' \in {"panic", "corrupt"}
    BY <1>7 DEF page_fault, stray_access, Goto
  <2> QED BY <2>1, QuietBooks DEF Mapping
<1> QED BY <1>0, <1>1, <1>2, <1>3, <1>4, <1>5, <1>6, <1>7, UnmapBooks, PageBooks, SplitBooks,
           FillBooks, MapBooks, StackBooks
        DEF ExecNext, EnterStep, Enters

\* The inductive invariant of the allocator under enter_program, elf_load and
\* the vmm calls: vmm_unmap_range frees only what was handed out and frames
\* of the window, as pmm_free_frame of module Pmm asks of its caller.
THEOREM BooksInductive == ExecSpec => []BInv
<1>1. ExecSpec => [](EInv)
  BY ExecInductive
<1> QED BY <1>1, InitBooks, NextBooks, PTL DEF ExecSpec

\* Whatever programs are started, fail or run out of memory, identity entries
\* freed by vmm_unmap_range included: the counter is exact, no frame is lost
\* or handed out twice before it is freed, and below the window every frame
\* handed out is memory of its own.
THEOREM LaunchesKeepBooks ==
  ExecSpec => [](FreeCountExact /\ Accounting /\ SafeBytes /\ ZeroMeansFull)
<1>1. BInv => FreeCountExact /\ Accounting /\ SafeBytes /\ ZeroMeansFull
  BY SafeBytesFromAccounting DEF BInv, IInv
<1> QED BY <1>1, BooksInductive, PTL

-----------------------------------------------------------------------------
(* What the invariant says of a running program.                           *)

\* A function that tells the elements of a set apart keeps its size.
LEMMA ImageSize ==
  ASSUME NEW S, IsFiniteSet(S), NEW f, \A a, b \in S : f[a] = f[b] => a = b
  PROVE  Cardinality({f[a] : a \in S}) = Cardinality(S)
<1> DEFINE T == {f[a] : a \in S}
           g == [a \in S |-> f[a]]
<1>1. g \in [S -> T] /\ (\A a, b \in S : g[a] = g[b] => a = b) /\ \A t \in T : \E a \in S : g[a] = t
  OBVIOUS
<1>2. g \in Bijection(S, T)
  <2> HIDE DEF g, T
  <2>1. DOMAIN g = S
    BY <1>1
  <2> QED BY <1>1, <2>1 DEF Bijection, Injection, Surjection, IsInjective
<1>3. ExistsBijection(S, T)
  BY <1>2 DEF ExistsBijection
<1>4. Cardinality(T) = Cardinality(S)
  <2> HIDE DEF T
  <2> QED BY <1>3, FS_Bijection
<1> QED BY <1>4

LEMMA RunningFacts ==
  ASSUME EInv, pc = "user", ~high
  PROVE  /\ \A p \in ImagePages(prog) : mem[pte[p]] = <<prog, p>>
         /\ Cardinality(Image \cup Stack) = Cardinality(ImagePages(prog)) + 2
         /\ Image \cup Stack \subseteq held
         /\ mem[pte[StackPage(2)]] = Arguments
         /\ held = TableFrames \cup Image \cup Stack \cup leaked
<1>1. ExecTypeOK /\ Control /\ Owned /\ Progress /\ prog \in DOMAIN Programs
  BY DEF EInv, Stopped, ExecTypeOK
<1>2. seg = Len(Segs(prog)) + 1
  BY <1>1 DEF Control
<1>3. SegsBefore(prog, seg) = ImagePages(prog) /\ ImagePages(prog) \subseteq UserMin .. TotalFrames - 1
  BY <1>1, <1>2, SegsBeforeFacts
<1>4. user = ImagePages(prog) \cup StackPages
  <2>1. Done = ImagePages(prog) \cup StackPages
    BY <1>3 DEF Done, Partly, Mapping
  <2> QED BY <1>1, <2>1 DEF Progress, Launched
<1>5. Image \cup Stack = Mapped
  BY <1>4 DEF Image, Stack, Mapped
<1>6. held = TableFrames \cup Mapped \cup leaked
  BY <1>1 DEF Progress, Pending, Mapping
<1>7. Cardinality(Mapped) = Cardinality(ImagePages(prog)) + 2
  <2>1. TotalFrames \in Nat /\ UserMin \in Nat
    BY Numbers
  <2>2. IsFiniteSet(UserMin .. TotalFrames - 1)
    BY <2>1, FS_Interval
  <2>3. IsFiniteSet(ImagePages(prog)) /\ Cardinality(ImagePages(prog)) \in Nat
    BY <1>3, <2>2, FS_Subset, FS_CardinalityType
  <2>4. StackPages = {TotalFrames, TotalFrames + 1} /\ TotalFrames \notin ImagePages(prog)
        /\ TotalFrames + 1 \notin ImagePages(prog) \cup {TotalFrames}
    BY <1>3, <2>1, Numbers
  <2>5. IsFiniteSet(ImagePages(prog) \cup {TotalFrames})
        /\ Cardinality(ImagePages(prog) \cup {TotalFrames}) = Cardinality(ImagePages(prog)) + 1
    BY <2>3, <2>4, FS_AddElement
  <2>6. PICK I : I = ImagePages(prog) \cup {TotalFrames}
    OBVIOUS
  <2>7. IsFiniteSet(I \cup {TotalFrames + 1})
        /\ Cardinality(I \cup {TotalFrames + 1}) = Cardinality(I) + 1
    BY <2>4, <2>5, <2>6, FS_AddElement
  <2>8. user = I \cup {TotalFrames + 1}
    BY <1>4, <2>4, <2>6
  <2>9. IsFiniteSet(user) /\ Cardinality(user) = Cardinality(ImagePages(prog)) + 2
    BY <2>3, <2>5, <2>6, <2>7, <2>8
  <2>10. \A a, b \in user : pte[a] = pte[b] => a = b
    BY <1>1 DEF Owned
  <2>11. Cardinality({pte[p] : p \in user}) = Cardinality(user)
    BY <2>9, <2>10, ImageSize
  <2> QED BY <2>9, <2>11 DEF Mapped
<1>8. \A p \in ImagePages(prog) : mem[pte[p]] = <<prog, p>>
  BY <1>1, <1>3, <1>4 DEF Progress, Launched
<1>9. mem[pte[StackPage(2)]] = Arguments
  BY <1>1 DEF Progress
<1>10. held = TableFrames \cup Image \cup Stack \cup leaked
  BY <1>5, <1>6
<1>11. Image \cup Stack \subseteq held
  BY <1>10
<1> QED BY <1>5, <1>7, <1>8, <1>9, <1>10, <1>11

\* enter_program, elf_load and vmm_map: as long as the allocator handed out no
\* frame of the user window, a running program has its own image and stack.
THEOREM ImageAlwaysIntact == ExecSpec => []ImageIntact
<1>1. EInv => ImageIntact
  BY RunningFacts DEF ImageIntact, EInv
<1> QED BY <1>1, ExecInductive, PTL

\* vmm_unmap_range frees the frames of a split large page: never a page table,
\* and a program never has one mapped.
THEOREM TablesAlwaysSafe == ExecSpec => []TablesSafe
<1>1. EInv => TablesSafe
  <2> SUFFICES ASSUME EInv, ~high PROVE TableFrames \subseteq held /\ \A p \in user : pte[p] \notin TableFrames
    BY DEF TablesSafe
  <2>1. CASE pc = "boot"
    BY <2>1 DEF EInv
  <2>2. CASE pc # "boot"
    BY <2>2 DEF EInv, Owned
  <2> QED BY <2>1, <2>2
<1> QED BY <1>1, ExecInductive, PTL

\* What vmm_unmap_range gives back, and what enter_program forgets when it
\* fails, account for every frame.
THEOREM NoFrameLeaks == ExecSpec => []NoFrameLeak
<1>1. EInv /\ BInv => NoFrameLeak
  BY RunningFacts DEF NoFrameLeak, BInv, IInv
<1> QED BY <1>1, ExecInductive, BooksInductive, PTL
=============================================================================
