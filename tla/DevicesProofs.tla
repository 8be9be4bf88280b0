--------------------------- MODULE DevicesProofs ---------------------------
(***************************************************************************)
(* Proofs about the polled devices: the disk driver, the two descriptor    *)
(* rings of the network card and the search on the bus, for every timeout, *)
(* number of sectors, size of the rings and configuration space.           *)
(***************************************************************************)
EXTENDS Devices, SequenceTheorems, FiniteSetTheorems, WellFoundedInduction, TLAPS

-----------------------------------------------------------------------------
(* The disk. Unless a call has given up on a busy disk, the disk is at     *)
(* rest whenever the driver is, and is otherwise at the command of the     *)
(* call under way.                                                         *)

AtRest == ~bsy /\ ~drq
CommandOf == IF call = "init" THEN "identify" ELSE call
Asked == task = [cmd |-> CommandOf, lba |-> lba]
Stored == lba \in Lbas /\ sectors[lba] = buf

IdeTypes ==
  /\ bsy \in BOOLEAN /\ drq \in BOOLEAN /\ upset \in BOOLEAN /\ err \in BOOLEAN
  /\ call \in {"init", "read", "write"}
  /\ DOMAIN sectors = Lbas /\ DOMAIN kept = Lbas
  /\ pc \in {"boot", "idle", "clear1", "command", "clear2", "check", "set", "data", "flush",
             "clear3", "done"}
  /\ pc \in {"boot", "idle"} \/ call = "init" \/ lba \in Lbas
  /\ pc \in {"clear1", "command"} => call # "init"
  /\ pc = "boot" => call = "init"

\* The first half of a call: the command is sent and answered.
Working ==
  \/ bsy /\ ~drq /\ Asked /\ pc = "clear2"
  \/ ~bsy /\ drq /\ Asked /\ (call = "read" => port = sectors[lba])
  \/ AtRest /\ pc # "data"

\* The second half of ide_write: the data is on its way to the medium.
Writing ==
  /\ ~drq
  /\ \/ bsy /\ task = [cmd |-> "commit", lba |-> lba] /\ port = buf
     \/ bsy /\ task.cmd = "flush" /\ Stored
     \/ ~bsy /\ Stored

\* What the sectors hold; a sector being written already holds the new data.
Kept ==
  \A l \in Lbas : \/ sectors[l] \in kept[l]
                  \/ /\ pc \in {"flush", "clear3", "done"} /\ call = "write"
                     /\ l = lba /\ sectors[l] = buf

IdeInv ==
  /\ IdeTypes
  /\ ~upset =>
       /\ pc \in {"boot", "idle", "clear1", "command", "done"} => AtRest
       /\ pc \in {"clear2", "check", "set", "data"} => Working
       /\ pc \in {"flush", "clear3"} => call = "write" /\ Writing
       /\ pc = "done" /\ call # "init" => Stored
       /\ pc = "idle" /\ call = "read" /\ ret = 0 => buf = sectors[lba]
       /\ Kept

\* The disk and the driver start at rest.
LEMMA IdeStarts == IdeInit => IdeInv
  BY IdeAssumption DEF IdeInit, IdeInv, IdeTypes, AtRest, Kept, Lbas

\* What the driver does between two looks at the disk keeps IdeInv.
LEMMA IdeDriverKeeps == ASSUME IdeInv, Driver PROVE IdeInv'
<1> USE DEF Goes, Returns, Command, Poll, TimedOut, disk, driver
<1>1. CASE ide_init
  BY <1>1 DEF ide_init, IdeInv, IdeTypes, AtRest, Working, Asked, CommandOf, Kept
<1>2. CASE ide_init_none
  BY <1>2 DEF ide_init_none, IdeInv, IdeTypes, AtRest, Kept
<1>3. CASE Send
  BY <1>3 DEF Send, IdeInv, IdeTypes, AtRest, Working, Asked, CommandOf, Kept
<1>4. CASE Transfer
  <2>1. IdeTypes'
    BY <1>4 DEF Transfer, IdeInv, IdeTypes, WritePort, ReadPort, Flushing
  <2>2. CASE upset
    BY <1>4, <2>1, <2>2 DEF Transfer, IdeInv
  <2>3. CASE ~upset /\ call = "write"
    <3>1. drq /\ ~bsy /\ task = [cmd |-> "write", lba |-> lba] /\ Kept
      BY <1>4, <2>3 DEF Transfer, IdeInv, AtRest, Working, Asked, CommandOf
    <3>2. task' = [cmd |-> "commit", lba |-> lba] /\ port' = buf
      BY <1>4, <2>3, <3>1 DEF Transfer, WritePort
    <3>3. bsy' /\ ~drq' /\ pc' = "flush" /\ Kept'
      BY <1>4, <2>3, <3>1 DEF Transfer, WritePort, Flushing, Kept
    <3>4. Writing'
      BY <1>4, <3>2, <3>3 DEF Transfer, Writing
    <3> QED BY <1>4, <2>1, <2>3, <3>3, <3>4 DEF Transfer, IdeInv
  <2>4. CASE ~upset /\ call # "write"
    <3>1. drq /\ ~bsy /\ task.cmd \in {"read", "identify"} /\ Kept
      BY <1>4, <2>4 DEF Transfer, IdeInv, IdeTypes, AtRest, Working, Asked, CommandOf
    <3>2. pc' = "done" /\ buf' = port /\ AtRest' /\ Kept'
      BY <1>4, <2>4, <3>1 DEF Transfer, ReadPort, AtRest, Kept
    <3>3. call = "read" => lba \in Lbas /\ port = sectors[lba]
      BY <1>4, <2>4, <3>1 DEF Transfer, IdeInv, IdeTypes, AtRest, Working
    <3>4. call = "read" => Stored'
      BY <1>4, <2>4, <3>1, <3>2, <3>3 DEF Transfer, ReadPort, Stored
    <3> QED BY <1>4, <2>1, <2>4, <3>2, <3>4 DEF Transfer, IdeInv, IdeTypes
  <2> QED BY <2>2, <2>3, <2>4
<1>5. CASE Flush
  <2>1. IdeTypes' /\ (Kept => Kept')
    BY <1>5 DEF Flush, IdeInv, IdeTypes, Kept
  <2>2. Writing => Writing'
    BY <1>5, <2>1 DEF Flush, Writing, Stored
  <2> QED BY <1>5, <2>1, <2>2 DEF Flush, IdeInv
<1>6. CASE Checked
  BY <1>6 DEF Checked, IdeInv, IdeTypes, AtRest, Working, Asked, CommandOf, Kept
<1>7. CASE Done
  BY <1>7 DEF Done, IdeInv, IdeTypes, AtRest, Stored, Kept
<1>8. CASE Poll("clear1", ~bsy, "command")
  BY <1>8 DEF IdeInv, IdeTypes, AtRest, Kept
<1>9. CASE Poll("clear2", ~bsy, "check")
  BY <1>9 DEF IdeInv, IdeTypes, AtRest, Working, Asked, CommandOf, Kept
<1>10. CASE Poll("set", drq, "data")
  BY <1>10 DEF IdeInv, IdeTypes, AtRest, Working, Asked, CommandOf, Kept
<1>11. CASE Poll("clear3", ~bsy, "done")
  BY <1>11 DEF IdeInv, IdeTypes, AtRest, Writing, Stored, Kept
<1> QED BY <1>1, <1>2, <1>3, <1>4, <1>5, <1>6, <1>7, <1>8, <1>9, <1>10, <1>11 DEF Driver

\* The disk finishes a command while the driver is anywhere.
LEMMA IdeFinishKeeps == ASSUME IdeInv, Finish PROVE IdeInv'
<1> USE DEF Finish, driver
<1>1. IdeTypes' /\ (upset => upset')
  <2>1. bsy' \in BOOLEAN /\ drq' \in BOOLEAN /\ upset' \in BOOLEAN /\ err' \in BOOLEAN
    BY Zenon DEF IdeInv, IdeTypes
  <2>2. upset => upset'
    BY Zenon DEF IdeInv, IdeTypes
  <2>3. DOMAIN sectors' = Lbas
    BY DEF IdeInv, IdeTypes
  <2> QED BY <2>1, <2>2, <2>3 DEF IdeInv, IdeTypes
<1>2. CASE upset'
  BY <1>1, <1>2 DEF IdeInv
<1>3. CASE ~upset'
  <2>1. ~upset /\ bsy /\ pc \in {"clear2", "check", "set", "data", "flush", "clear3"}
    BY <1>1, <1>3 DEF IdeInv, IdeTypes, AtRest
  <2>2. CASE pc \in {"clear2", "check", "set", "data"}
    <3>1. ~drq /\ Asked /\ pc = "clear2"
      BY <2>1, <2>2 DEF IdeInv, Working, AtRest
    <3>2. Working' /\ sectors' = sectors
      BY <1>1, <3>1 DEF IdeInv, IdeTypes, Working, Asked, CommandOf, AtRest
    <3>3. Kept'
      BY <2>1, <2>2, <3>2 DEF IdeInv, Kept
    <3> QED BY <1>1, <3>1, <3>2, <3>3 DEF IdeInv
  <2>3. CASE pc \in {"flush", "clear3"}
    <3>1. call = "write" /\ Writing /\ Kept /\ lba \in Lbas
      BY <2>1, <2>3 DEF IdeInv, IdeTypes
    <3>2. CASE task = [cmd |-> "commit", lba |-> lba] /\ port = buf
      <4>1. sectors' = [sectors EXCEPT ![lba] = buf] /\ bsy' = FALSE /\ drq' = drq
        BY <1>3, <2>1, <3>2
      <4> QED BY <1>1, <2>3, <3>1, <4>1 DEF IdeInv, IdeTypes, Writing, Stored, Kept
    <3>3. CASE task.cmd = "flush" /\ Stored
      <4>1. sectors' = sectors /\ bsy' = FALSE /\ drq' = drq
        BY <1>3, <2>1, <3>3
      <4> QED BY <1>1, <2>3, <3>1, <3>3, <4>1 DEF IdeInv, Writing, Stored, Kept
    <3> QED BY <2>1, <3>1, <3>2, <3>3 DEF Writing
  <2> QED BY <2>1, <2>2, <2>3
<1> QED BY <1>2, <1>3

\* A call begins at rest, or is refused.
LEMMA IdeBeginKeeps ==
  ASSUME IdeInv, NEW c \in {"read", "write"}, NEW l \in 0 .. Total, NEW v, Begin(c, l, v)
  PROVE  IdeInv'
<1>1. IdeTypes'
  BY IdeAssumption DEF Begin, Goes, IdeInv, IdeTypes, disk, Lbas
<1>2. pc' \in {"idle", "clear1"} /\ (pc' = "idle" => ret' # 0)
  BY DEF Begin, Goes
<1> QED BY <1>1, <1>2 DEF Begin, IdeInv, AtRest, Kept, disk

LEMMA IdeKeeps == IdeInv /\ [IdeNext]_idevars => IdeInv'
<1> SUFFICES ASSUME IdeInv, [IdeNext]_idevars PROVE IdeInv'
  OBVIOUS
<1>1. CASE UNCHANGED idevars
  BY <1>1 DEF idevars, driver, disk, IdeInv, IdeTypes, AtRest, Working, Asked, CommandOf,
     Writing, Stored, Kept
<1>2. ASSUME NEW l \in 0 .. Total, ide_read(l) PROVE IdeInv'
  BY <1>2, IdeBeginKeeps DEF ide_read
<1>3. ASSUME NEW l \in 0 .. Total, NEW v \in Data, ide_write(l, v) PROVE IdeInv'
  BY <1>3, IdeBeginKeeps DEF ide_write
<1> QED BY <1>1, <1>2, <1>3, IdeDriverKeeps, IdeFinishKeeps DEF IdeNext

\* A step of the devices is a step of each of them or leaves it alone.
LEMMA DiskStep == [DevicesNext]_devicevars => [IdeNext]_idevars
  BY DEF DevicesNext, Disk, Card, Bus, Others, devicevars

\* A read that returned 0 has read the sector asked for, and a sector holds
\* what the last write that returned 0 has put there or what a later one that
\* failed wanted to put there, for every timeout and number of sectors
\* (ide_read and ide_write).
THEOREM DiskAnswersAlways == DevicesSpec => []DiskAnswers
<1>1. DevicesInit => IdeInv
  BY IdeStarts DEF DevicesInit
<1>2. IdeInv /\ [DevicesNext]_devicevars => IdeInv'
  BY IdeKeeps, DiskStep
<1>3. IdeInv => DiskAnswers
  BY DEF IdeInv, DiskAnswers, Kept
<1> QED BY <1>1, <1>2, <1>3, PTL DEF DevicesSpec

-----------------------------------------------------------------------------
(* The search on the bus. The loops come to the first function of a set    *)
(* because the triples <<bus, slot, func>> are numbered.                   *)

LEMMA LeastNat ==
  ASSUME NEW T, T \subseteq Nat, T # {}
  PROVE  \E x \in T : \A y \in T : x <= y
<1> DEFINE R == {p \in Nat \X Nat : p[1] < p[2]}
<1>0. R = OpToRel(<, Nat)
  BY DEF OpToRel
<1>1. IsWellFoundedOn(R, Nat)
  BY <1>0, NatLessThanWellFounded
<1>2. PICK x \in T : \A y \in T : ~(<<y, x>> \in R)
  <2> HIDE DEF R
  <2> QED BY <1>1, WFMin
<1>3. ASSUME NEW y \in T PROVE x <= y
  <2>1. ~(<<y, x>> \in R)
    BY <1>2
  <2>2. y \in Nat /\ x \in Nat
    OBVIOUS
  <2>3. ~(y < x)
    BY <2>1, <2>2, Zenon
  <2> QED BY <2>2, <2>3
<1> QED BY <1>3

Number(f) == f[1] * 256 + f[2] * 8 + f[3]

\* Before is the order of the numbers.
LEMMA BeforeFacts ==
  ASSUME NEW f \in Functions, NEW g \in Functions
  PROVE  /\ Number(f) \in Nat
         /\ Number(f) <= Number(g) /\ f # g => Before(f, g)
         /\ Before(f, g) => f # g /\ ~Before(g, f)
<1>1. f \in Buses \X Slots \X Funcs /\ g \in Buses \X Slots \X Funcs
  <2>1. Functions \subseteq Buses \X Slots \X Funcs
    BY PciAssumption, Zenon
  <2> QED BY <2>1, Zenon
<1>2. /\ f = <<f[1], f[2], f[3]>> /\ f[1] \in Buses /\ f[2] \in Slots /\ f[3] \in Funcs
      /\ g = <<g[1], g[2], g[3]>> /\ g[1] \in Buses /\ g[2] \in Slots /\ g[3] \in Funcs
  BY <1>1
<1> DEFINE Small(n, m) == n \in Nat /\ n < m
<1>0. /\ Small(f[1], 256) /\ Small(f[2], 32) /\ Small(f[3], 8)
      /\ Small(g[1], 256) /\ Small(g[2], 32) /\ Small(g[3], 8)
  BY <1>2 DEF Buses, Slots, Funcs
<1>3. f # g => f[1] # g[1] \/ f[2] # g[2] \/ f[3] # g[3]
  BY <1>2
<1>4. Number(f) \in Nat
  BY <1>0 DEF Number
<1>5. Number(f) <= Number(g) /\ f # g => Before(f, g)
  <2>1. ASSUME NEW a \in Nat, NEW b \in Nat, NEW c \in Nat, NEW x \in Nat, NEW y \in Nat,
               NEW z \in Nat, b < 32, c < 8, y < 32, z < 8, a # x \/ b # y \/ c # z,
               a * 256 + b * 8 + c <= x * 256 + y * 8 + z
        PROVE  a < x \/ (a = x /\ b < y) \/ (a = x /\ b = y /\ c < z)
    BY <2>1
  <2>2. PICK a, b, c, x, y, z :
          f[1] = a /\ f[2] = b /\ f[3] = c /\ g[1] = x /\ g[2] = y /\ g[3] = z
    OBVIOUS
  <2>3. Small(a, 256) /\ Small(b, 32) /\ Small(c, 8) /\ Small(x, 256) /\ Small(y, 32) /\ Small(z, 8)
    BY <1>0, <2>2
  <2>4. Number(f) = a * 256 + b * 8 + c /\ Number(g) = x * 256 + y * 8 + z
    BY <2>2 DEF Number
  <2> QED BY <1>3, <2>1, <2>2, <2>3, <2>4 DEF Before
<1>6. Before(f, g) => f # g /\ ~Before(g, f)
  BY <1>0 DEF Before
<1> QED BY <1>4, <1>5, <1>6

\* First finds the first.
LEMMA FirstFacts ==
  ASSUME NEW S, S \subseteq Functions, S # {}
  PROVE  First(S) \in S /\ \A g \in S : ~Before(g, First(S))
<1>1. PICK x \in {Number(f) : f \in S} : \A y \in {Number(f) : f \in S} : x <= y
  <2>1. {Number(f) : f \in S} \subseteq Nat
    BY BeforeFacts
  <2> QED BY <2>1, LeastNat
<1>2. PICK f \in S : x = Number(f)
  BY <1>1
<1>3. \A g \in S \ {f} : Before(f, g)
  BY <1>1, <1>2, BeforeFacts
<1>4. First(S) \in S /\ \A g \in S \ {First(S)} : Before(First(S), g)
  BY <1>3 DEF First
<1> QED BY <1>4, BeforeFacts

\* What the reads of configuration space return for a function.
LEMMA ReadFacts ==
  ASSUME space \in Spaces, NEW f \in Functions
  PROVE  /\ Seen(f) <=> space[f] # Absent
         /\ space[f] # Absent =>
              /\ space[f][1] = <<config_read16(f, VENDOR_ID), config_read16(f, DEVICE_ID)>>
              /\ (class_code(f) = 2 /\ subclass(f) = 0) <=> space[f][3][2] = 512
              /\ \A i \in 0 .. 5 : config_read32(f, BAR0 + i * 4) = space[f][5 + i]
<1>1. /\ make_address(VENDOR_ID) = 1 /\ make_address(DEVICE_ID) = 1 /\ make_address(ClassReg) = 3
      /\ 1 + ((VENDOR_ID \div 2) % 2) = 1 /\ 1 + ((DEVICE_ID \div 2) % 2) = 2
      /\ \A i \in 0 .. 5 : make_address(BAR0 + i * 4) = 5 + i
  BY DEF make_address, VENDOR_ID, DEVICE_ID, ClassReg, BAR0
<1>2. CASE space[f] = Absent
  BY <1>1, <1>2 DEF Seen, config_read16, config_read32
<1>3. CASE space[f] # Absent
  <2>1. space[f][1] \in (Half \ {65535}) \X Half /\ space[f][3] \in Half \X Half
    BY <1>3, PciAssumption DEF IsSpace
  <2>2. config_read16(f, VENDOR_ID) = space[f][1][1] /\ config_read16(f, DEVICE_ID) = space[f][1][2]
    BY <1>1, <1>3 DEF config_read16, config_read32
  <2>3. config_read32(f, ClassReg) = space[f][3]
    BY <1>1, <1>3 DEF config_read32
  <2>4. \A n \in Nat : (n \div 256 = 2 /\ n % 256 = 0) <=> n = 512
    OBVIOUS
  <2>5. \A i \in 0 .. 5 : config_read32(f, BAR0 + i * 4) = space[f][5 + i]
    BY <1>1, <1>3 DEF config_read32
  <2>6. Seen(f) /\ space[f][1] = <<config_read16(f, VENDOR_ID), config_read16(f, DEVICE_ID)>>
    BY <2>1, <2>2 DEF Seen
  <2>7. space[f][3][2] \in Nat
    <3>1. space[f][3][2] \in Half
      BY <2>1
    <3>2. Half \subseteq Nat
      BY DEF Half
    <3> QED BY <3>1, <3>2
  <2>8. (class_code(f) = 2 /\ subclass(f) = 0) <=> space[f][3][2] = 512
    BY <2>3, <2>4, <2>7 DEF class_code, subclass
  <2> QED BY <1>3, <2>5, <2>6, <2>8
<1> QED BY <1>2, <1>3

PciInv == FoundIsThere /\ (phase = "boot" => space \in Spaces)

\* A function is no NotFound.
LEMMA DescribedIsFound ==
  ASSUME NEW f \in Functions, NEW bar
  PROVE  Described(f, bar) # NotFound
<1>1. f \in Buses \X Slots \X Funcs
  <2>1. Functions \subseteq Buses \X Slots \X Funcs
    BY PciAssumption, Zenon
  <2> QED BY <2>1, Zenon
<1>2. f # <<>>
  BY <1>1
<1>3. Described(f, bar).fn = f
  BY DEF Described
<1> QED BY <1>2, <1>3 DEF NotFound

\* The search of kernel_main finds the first network card.
LEMMA FindNicFinds ==
  ASSUME space \in Spaces, UNCHANGED space, found' = find_nic, phase' = "nic"
  PROVE  FoundIsThere'
<1> DEFINE hits == {f \in Functions : Seen(f) /\ class_code(f) = 2 /\ subclass(f) = 0}
           Fits(f) == space[f] # Absent /\ space[f][3][2] = 512
           bar == [i \in 0 .. 5 |-> config_read32(First(hits), BAR0 + (i + 4))]
<1>1. \A f \in Functions : f \in hits <=> Fits(f)
  BY ReadFacts
<1>2. found' = IF hits = {} THEN NotFound ELSE Described(First(hits), bar)
  BY DEF find_nic
<1>3. CASE hits = {}
  BY <1>1, <1>2, <1>3 DEF FoundIsThere
<1>4. CASE hits # {}
  <2>1. PICK f \in Functions : f = First(hits) /\ f \in hits /\ \A g \in hits : ~Before(g, f)
    <3>1. hits \subseteq Functions
      OBVIOUS
    <3> HIDE DEF hits
    <3> QED BY <3>1, <1>4, FirstFacts
  <2>2. found' # NotFound
    BY <1>2, <1>4, <2>1, DescribedIsFound
  <2>3. found'.fn = f /\ found'.vendor_id = config_read16(f, VENDOR_ID)
        /\ found'.device_id = config_read16(f, DEVICE_ID)
    BY <1>2, <1>4, <2>1 DEF Described
  <2>4. Fits(f) /\ space[f][1] = <<found'.vendor_id, found'.device_id>>
    <3>1. Fits(f)
      BY <1>1, <2>1
    <3>2. space[f][1] = <<config_read16(f, VENDOR_ID), config_read16(f, DEVICE_ID)>>
      BY <3>1, ReadFacts
    <3> QED BY <3>1, <3>2, <2>3
  <2> HIDE DEF hits
  <2> QED BY <1>1, <2>1, <2>2, <2>3, <2>4 DEF FoundIsThere
<1> QED BY <1>3, <1>4

\* find_device finds the first of the devices asked for, and its BARs.
LEMMA FindDeviceFinds ==
  ASSUME space \in Spaces, UNCHANGED space, NEW w, found' = find_device(w), phase' = "device"
  PROVE  FoundIsThere'
<1> DEFINE hits == {f \in Functions : Seen(f)
                      /\ <<config_read16(f, VENDOR_ID), config_read16(f, DEVICE_ID)>> = w}
           Fits(f) == space[f] # Absent /\ space[f][1] = w
           bar == [i \in 0 .. 5 |-> config_read32(First(hits), BAR0 + i * 4)]
<1>1. \A f \in Functions : f \in hits <=> Fits(f)
  BY ReadFacts
<1>2. found' = IF hits = {} THEN NotFound ELSE Described(First(hits), bar)
  BY DEF find_device
<1>3. CASE hits = {}
  BY <1>1, <1>2, <1>3 DEF FoundIsThere
<1>4. CASE hits # {}
  <2>1. PICK f \in Functions : f = First(hits) /\ f \in hits /\ \A g \in hits : ~Before(g, f)
    <3>1. hits \subseteq Functions
      OBVIOUS
    <3> HIDE DEF hits
    <3> QED BY <3>1, <1>4, FirstFacts
  <2>2. found'.fn = f /\ found'.vendor_id = config_read16(f, VENDOR_ID)
        /\ found'.device_id = config_read16(f, DEVICE_ID) /\ found'.bar = bar
    BY <1>2, <1>4, <2>1 DEF Described
  <2>3. Fits(f) /\ <<found'.vendor_id, found'.device_id>> = w
    BY <1>1, <2>1, <2>2, ReadFacts
  <2>4. \A i \in 0 .. 5 : found'.bar[i] = space[f][5 + i]
    BY <2>1, <2>2, <2>3, ReadFacts
  <2> HIDE DEF hits
  <2> QED BY <1>1, <2>1, <2>2, <2>3, <2>4 DEF FoundIsThere
<1> QED BY <1>3, <1>4

LEMMA BusStep == [DevicesNext]_devicevars => [PciNext]_pcivars
  BY DEF DevicesNext, Disk, Card, Bus, Others, devicevars

\* What a search has found is in configuration space as it says, and nothing
\* that comes earlier on the bus fits, for every configuration space whose
\* devices have a vendor (find_device of pci.c and find_nic).
THEOREM FoundIsThereAlways == DevicesSpec => []FoundIsThere
<1>1. DevicesInit => PciInv
  BY DEF DevicesInit, PciInit, PciInv, FoundIsThere
<1>2. PciInv /\ [PciNext]_pcivars => PciInv'
  <2> SUFFICES ASSUME PciInv, [PciNext]_pcivars PROVE PciInv'
    OBVIOUS
  <2>1. CASE Find
    BY <2>1, FindNicFinds, FindDeviceFinds DEF Find, PciInv
  <2>2. CASE Master
    BY <2>2 DEF Master, PciInv, FoundIsThere
  <2>3. CASE UNCHANGED pcivars
    BY <2>3 DEF pcivars, PciInv, FoundIsThere
  <2> QED BY <2>1, <2>2, <2>3 DEF PciNext
<1>3. PciInv => FoundIsThere
  BY DEF PciInv
<1> QED BY <1>1, <1>2, <1>3, BusStep, PTL DEF DevicesSpec

-----------------------------------------------------------------------------
(* Rings of N slots: the slot behind one, the steps from one to another,   *)
(* and the n slots from one on.                                            *)

Ring(N) == 0 .. N - 1
Behind(N, a) == IF a + 1 = N THEN 0 ELSE a + 1
Steps(N, a, b) == IF b >= a THEN b - a ELSE b - a + N
Slot(N, a, k) == IF a + k - 1 < N THEN a + k - 1 ELSE a + k - 1 - N
Window(d, N, a, n) == [k \in 1 .. n |-> d[Slot(N, a, k)]]

\* The remainders of the driver's arithmetic are these.
LEMMA RingRemainders ==
  ASSUME NEW N \in Nat \ {0}, NEW a \in Ring(N), NEW b \in Ring(N)
  PROVE  /\ (a + 1) % N = Behind(N, a)
         /\ (b - a) % N = Steps(N, a, b)
         /\ \A k \in 1 .. N : (a + k - 1) % N = Slot(N, a, k)
<1>1. ASSUME NEW x \in Int, NEW m \in Nat, m > 0
      PROVE  /\ x >= 0 /\ x < m => x % m = x
             /\ x >= m /\ x < 2 * m => x % m = x - m
             /\ x < 0 /\ x >= -m => x % m = x + m
  BY <1>1
<1>2. N > 0 /\ a \in Nat /\ a < N /\ b \in Nat /\ b < N
  BY DEF Ring
<1>3. (a + 1) % N = Behind(N, a)
  BY <1>1, <1>2 DEF Behind
<1>4. (b - a) % N = Steps(N, a, b)
  BY <1>1, <1>2 DEF Steps
<1>5. ASSUME NEW k \in 1 .. N PROVE (a + k - 1) % N = Slot(N, a, k)
  <2>1. a + k - 1 \in Int /\ a + k - 1 >= 0 /\ a + k - 1 < 2 * N
    BY <1>2
  <2> QED BY <1>1, <1>2, <2>1 DEF Slot
<1> QED BY <1>3, <1>4, <1>5

\* What they are to each other.
LEMMA RingFacts ==
  ASSUME NEW N \in Nat \ {0}, NEW a \in Ring(N)
  PROVE  /\ Behind(N, a) \in Ring(N)
         /\ Slot(N, a, 1) = a
         /\ \A k \in 1 .. N : Slot(N, a, k) \in Ring(N) /\ Steps(N, a, Slot(N, a, k)) = k - 1
         /\ \A k \in 1 .. N - 1 : Slot(N, Behind(N, a), k) = Slot(N, a, k + 1)
         /\ \A b \in Ring(N) : Steps(N, a, b) \in Ring(N) /\ Slot(N, a, Steps(N, a, b) + 1) = b
<1>1. N > 0 /\ a \in Nat /\ a < N
  BY DEF Ring
<1> QED BY <1>1 DEF Ring, Behind, Steps, Slot

\* The k-th slot from a on.
LEMMA SlotFacts ==
  ASSUME NEW N \in Nat \ {0}, NEW a \in Ring(N), NEW k \in 1 .. N
  PROVE  Slot(N, a, k) \in Ring(N) /\ Steps(N, a, Slot(N, a, k)) = k - 1
  BY RingFacts

LEMMA WindowFacts ==
  ASSUME NEW N \in Nat \ {0}, NEW a \in Ring(N), NEW n \in 0 .. N, NEW D, NEW d \in [Ring(N) -> D]
  PROVE  /\ Window(d, N, a, n) \in Seq(D) /\ Len(Window(d, N, a, n)) = n
         /\ \A k \in 1 .. n : Window(d, N, a, n)[k] = d[Slot(N, a, k)]
<1>1. \A k \in 1 .. n : d[Slot(N, a, k)] \in D
  BY RingFacts
<1>2. Window(d, N, a, n) \in Seq(D) /\ Len(Window(d, N, a, n)) = n
  BY <1>1, IsASeq DEF Window
<1> QED BY <1>2 DEF Window

\* One more slot at the end.
LEMMA WindowAppend ==
  ASSUME NEW N \in Nat \ {0}, NEW a \in Ring(N), NEW n \in 0 .. N - 1, NEW D,
         NEW d \in [Ring(N) -> D], NEW e \in [Ring(N) -> D],
         \A k \in 1 .. n : d[Slot(N, a, k)] = e[Slot(N, a, k)]
  PROVE  Window(e, N, a, n + 1) = Append(Window(d, N, a, n), e[Slot(N, a, n + 1)])
<1> DEFINE old == Window(d, N, a, n)
           new == Window(e, N, a, n + 1)
           last == e[Slot(N, a, n + 1)]
<1>0. n \in 0 .. N /\ n + 1 \in 0 .. N
  OBVIOUS
<1>1. /\ old \in Seq(D) /\ Len(old) = n /\ \A k \in 1 .. n : old[k] = d[Slot(N, a, k)]
      /\ new \in Seq(D) /\ Len(new) = n + 1 /\ \A k \in 1 .. n + 1 : new[k] = e[Slot(N, a, k)]
  <2>1. old \in Seq(D) /\ Len(old) = n /\ \A k \in 1 .. n : old[k] = d[Slot(N, a, k)]
    <3>1. \A k \in 1 .. n : d[Slot(N, a, k)] \in D
      BY <1>0, RingFacts
    <3>2. old \in Seq(D) /\ Len(old) = n
      BY <1>0, <3>1, IsASeq DEF Window
    <3> QED BY <3>2 DEF Window
  <2>2. new \in Seq(D) /\ Len(new) = n + 1 /\ \A k \in 1 .. n + 1 : new[k] = e[Slot(N, a, k)]
    <3>1. \A k \in 1 .. n + 1 : e[Slot(N, a, k)] \in D
      BY <1>0, RingFacts
    <3>2. new \in Seq(D) /\ Len(new) = n + 1
      BY <1>0, <3>1, IsASeq DEF Window
    <3> QED BY <3>2 DEF Window
  <2> QED BY <2>1, <2>2, Zenon
<1>2. last \in D
  BY RingFacts
<1> HIDE DEF old, new
<1>3. Append(old, last) \in Seq(D) /\ Len(Append(old, last)) = n + 1
  BY <1>1, <1>2
<1>4. \A k \in 1 .. n + 1 : new[k] = Append(old, last)[k]
  BY <1>1, <1>2
<1>5. new = Append(old, last)
  <2> HIDE DEF last
  <2> QED BY <1>1, <1>3, <1>4, SeqEqual
<1> QED BY <1>5 DEF old, new

\* One slot less at the front.
LEMMA WindowTail ==
  ASSUME NEW N \in Nat \ {0}, NEW a \in Ring(N), NEW n \in 0 .. N, n # 0, NEW D,
         NEW d \in [Ring(N) -> D]
  PROVE  /\ Window(d, N, a, n) # <<>> /\ Head(Window(d, N, a, n)) = d[a]
         /\ Window(d, N, Behind(N, a), n - 1) = Tail(Window(d, N, a, n))
<1> DEFINE old == Window(d, N, a, n)
           new == Window(d, N, Behind(N, a), n - 1)
<1>0. n - 1 \in 0 .. N /\ Behind(N, a) \in Ring(N)
  BY RingFacts
<1>1. /\ old \in Seq(D) /\ Len(old) = n /\ \A k \in 1 .. n : old[k] = d[Slot(N, a, k)]
      /\ new \in Seq(D) /\ Len(new) = n - 1
      /\ \A k \in 1 .. n - 1 : new[k] = d[Slot(N, Behind(N, a), k)]
  <2>1. old \in Seq(D) /\ Len(old) = n /\ \A k \in 1 .. n : old[k] = d[Slot(N, a, k)]
    <3>1. \A k \in 1 .. n : d[Slot(N, a, k)] \in D
      BY <1>0, RingFacts
    <3>2. old \in Seq(D) /\ Len(old) = n
      BY <1>0, <3>1, IsASeq DEF Window
    <3> QED BY <3>2 DEF Window
  <2>2. /\ new \in Seq(D) /\ Len(new) = n - 1
        /\ \A k \in 1 .. n - 1 : new[k] = d[Slot(N, Behind(N, a), k)]
    <3>1. \A k \in 1 .. n - 1 : d[Slot(N, Behind(N, a), k)] \in D
      BY <1>0, RingFacts
    <3>2. new \in Seq(D) /\ Len(new) = n - 1
      BY <1>0, <3>1, IsASeq DEF Window
    <3> QED BY <3>2 DEF Window
  <2> QED BY <2>1, <2>2, Zenon
<1> HIDE DEF old, new
<1>2. old # <<>> /\ Head(old) = d[a]
  BY <1>1, RingFacts
<1>3. /\ Tail(old) \in Seq(D) /\ Len(Tail(old)) = n - 1
      /\ \A k \in 1 .. n - 1 : Tail(old)[k] = old[k + 1]
  BY <1>1, <1>2
<1>4. \A k \in 1 .. n - 1 : new[k] = Tail(old)[k]
  <2> SUFFICES ASSUME NEW k \in 1 .. n - 1 PROVE new[k] = Tail(old)[k]
    OBVIOUS
  <2>1. k \in 1 .. N - 1 /\ k + 1 \in 1 .. n
    OBVIOUS
  <2>2. Slot(N, Behind(N, a), k) = Slot(N, a, k + 1)
    BY <2>1, RingFacts
  <2> QED BY <1>1, <1>3, <2>1, <2>2
<1>5. new = Tail(old)
  BY <1>1, <1>3, <1>4, SeqEqual
<1> QED BY <1>2, <1>5 DEF old, new

\* A window of n slots has n slots.
LEMMA WindowSize ==
  ASSUME NEW N \in Nat \ {0}, NEW a \in Ring(N), NEW n \in 0 .. N
  PROVE  /\ IsFiniteSet({i \in Ring(N) : Steps(N, a, i) < n})
         /\ Cardinality({i \in Ring(N) : Steps(N, a, i) < n}) = n
<1> DEFINE S == {i \in Ring(N) : Steps(N, a, i) < n}
           f == [k \in 1 .. n |-> Slot(N, a, k)]
<1>1. f \in [1 .. n -> S]
  <2> SUFFICES ASSUME NEW k \in 1 .. n PROVE Slot(N, a, k) \in S
    OBVIOUS
  <2>1. Slot(N, a, k) \in Ring(N) /\ Steps(N, a, Slot(N, a, k)) = k - 1
    BY RingFacts
  <2> QED BY <2>1
<1>2. \A j, k \in 1 .. n : f[j] = f[k] => j = k
  <2> SUFFICES ASSUME NEW j \in 1 .. n, NEW k \in 1 .. n, Slot(N, a, j) = Slot(N, a, k)
               PROVE  j = k
    OBVIOUS
  <2>1. Steps(N, a, Slot(N, a, j)) = j - 1 /\ Steps(N, a, Slot(N, a, k)) = k - 1
    BY RingFacts
  <2> QED BY <2>1
<1>3. \A i \in S : \E k \in 1 .. n : f[k] = i
  <2> TAKE i \in S
  <2>1. Steps(N, a, i) \in Nat /\ Slot(N, a, Steps(N, a, i) + 1) = i /\ Steps(N, a, i) < n
    BY RingFacts DEF Ring
  <2>2. Steps(N, a, i) + 1 \in 1 .. n
    BY <2>1
  <2> QED BY <2>1, <2>2
<1>4. f \in Bijection(1 .. n, S)
  <2> HIDE DEF f, S
  <2> QED BY <1>1, <1>2, <1>3 DEF Bijection, Injection, Surjection, IsInjective
<1>5. ExistsBijection(1 .. n, S)
  BY <1>4 DEF ExistsBijection
<1>6. IsFiniteSet(1 .. n) /\ n \in Nat
  BY FS_Interval
<1> HIDE DEF S
<1>7. IsFiniteSet(S) /\ Cardinality(S) = n
  BY <1>5, <1>6, FS_Bijection, FS_CountingElements
<1> QED BY <1>7 DEF S

-----------------------------------------------------------------------------
(* The transmit ring. The descriptors the card has not done with are the n *)
(* from the head on, and the tail is behind them; on the way to the tail   *)
(* register the one just filled is among them too.                         *)

Descs == [dd : BOOLEAN, data : Packets \cup {Empty}]
DataOf(f, N) == [i \in Ring(N) |-> f[i].data]

TxWindow(f, ti, h, tt, l, n) ==
  /\ n \in 0 .. NumTx /\ tt = Slot(NumTx, h, n + 1)
  /\ \A i \in TxIds : ~f[i].dd <=> (Steps(NumTx, h, i) < n \/ (l = "tx_tail" /\ i = ti))
  /\ l \in {"tx_fill", "tx_status"} => f[ti].dd
  /\ l = "tx_tail" => n < NumTx /\ tt = ti

TxTypes ==
  /\ tx \in [TxIds -> Descs] /\ tx_index \in TxIds /\ tdh \in TxIds
  /\ tdt = IF at = "tx_index" THEN TxNext(tx_index) ELSE tx_index
  /\ at = "tx_fill" => arg \in Packets
  /\ at \in {"tx_status", "tx_tail"} => tx[tx_index].data \in Packets

TxInv == TxTypes /\ \E n \in 0 .. NumTx : TxWindow(tx, tx_index, tdh, tdt, at, n)

OutstandingOf(f, l) == Cardinality({i \in TxIds : ~f[i].dd}) - (IF l = "tx_tail" THEN 1 ELSE 0)
TxQueueOf(f, h, l) == [k \in 1 .. OutstandingOf(f, l) |-> f[(h + k - 1) % NumTx].data]

LEMMA TxConstants == NumTx \in Nat \ {0} /\ NumTx > 1 /\ TxIds = Ring(NumTx)
  BY E1000Assumption DEF TxIds, Ring

\* The packets that wait are those of the window.
LEMMA TxQueueIs ==
  ASSUME NEW f \in [TxIds -> Descs], NEW ti \in TxIds, NEW h \in TxIds, NEW tt, NEW l, NEW n,
         TxWindow(f, ti, h, tt, l, n)
  PROVE  /\ OutstandingOf(f, l) = n
         /\ TxQueueOf(f, h, l) = Window(DataOf(f, NumTx), NumTx, h, n)
<1> DEFINE S == {i \in TxIds : Steps(NumTx, h, i) < n}
           U == {i \in TxIds : ~f[i].dd}
<1>0. n \in 0 .. NumTx /\ NumTx \in Nat \ {0} /\ TxIds = Ring(NumTx)
  BY TxConstants DEF TxWindow
<1>1. IsFiniteSet(S) /\ Cardinality(S) = n
  BY <1>0, WindowSize
<1>2. ASSUME l # "tx_tail" PROVE OutstandingOf(f, l) = n
  <2>1. U = S
    BY <1>2 DEF TxWindow
  <2> QED BY <1>0, <1>1, <1>2, <2>1 DEF OutstandingOf
<1>3. ASSUME l = "tx_tail" PROVE OutstandingOf(f, l) = n
  <2>1. n < NumTx /\ ti = Slot(NumTx, h, n + 1)
    BY <1>3 DEF TxWindow
  <2>2. Steps(NumTx, h, ti) = n
    <3>1. n + 1 \in 1 .. NumTx /\ n + 1 - 1 = n
      BY <1>0, <2>1
    <3>2. Steps(NumTx, h, Slot(NumTx, h, n + 1)) = (n + 1) - 1
      BY <1>0, <3>1, RingFacts
    <3> QED BY <1>0, <2>1, <3>2
  <2>3. U = S \cup {ti} /\ ti \notin S
    <3>1. \A i \in TxIds : ~f[i].dd <=> (Steps(NumTx, h, i) < n \/ i = ti)
      BY <1>3 DEF TxWindow
    <3> QED BY <1>0, <2>2, <3>1
  <2>4. Cardinality(U) = n + 1
    <3> HIDE DEF S, U
    <3> QED BY <1>1, <2>3, FS_AddElement
  <2> QED BY <1>0, <1>3, <2>4 DEF OutstandingOf
<1>4. OutstandingOf(f, l) = n
  BY <1>2, <1>3
<1>5. TxQueueOf(f, h, l) = [k \in 1 .. n |-> f[(h + k - 1) % NumTx].data]
  BY <1>4 DEF TxQueueOf
<1>6. \A k \in 1 .. n : (h + k - 1) % NumTx = Slot(NumTx, h, k) /\ Slot(NumTx, h, k) \in Ring(NumTx)
  BY <1>0, RingRemainders, RingFacts
<1>7. \A k \in 1 .. n : f[(h + k - 1) % NumTx].data = DataOf(f, NumTx)[Slot(NumTx, h, k)]
  BY <1>6 DEF DataOf
<1> QED BY <1>4, <1>5, <1>7 DEF Window

LEMMA TxStarts == NicInit => TxInv /\ TxFifo!Init
<1> SUFFICES ASSUME NicInit PROVE TxInv /\ TxFifo!Init
  OBVIOUS
<1>1. NumTx \in Nat /\ NumTx > 1
  BY TxConstants
<1>2. tx \in [TxIds -> Descs] /\ \A i \in TxIds : tx[i].dd
  BY DEF NicInit, setup_tx, Descs
<1>3. tx_index = 0 /\ tdh = 0 /\ tdt = 0 /\ 0 \in TxIds /\ at = "idle"
  BY <1>1 DEF NicInit, setup_tx, TxIds
<1>4. TxWindow(tx, tx_index, tdh, tdt, at, 0)
  BY <1>1, <1>2, <1>3 DEF TxWindow, Slot, Steps, TxIds
<1>5. TxInv
  BY <1>1, <1>2, <1>3, <1>4 DEF TxInv, TxTypes
<1>6. TxQueue = Window(DataOf(tx, NumTx), NumTx, tdh, 0)
  BY <1>2, <1>3, <1>4, TxQueueIs DEF TxQueue, TxQueueOf, Outstanding, OutstandingOf
<1>7. TxQueue = <<>>
  <2>1. DataOf(tx, NumTx) \in [Ring(NumTx) -> Packets \cup {Empty}]
    BY <1>2, TxConstants DEF DataOf, Descs
  <2>2. tdh \in Ring(NumTx) /\ 0 \in 0 .. NumTx
    BY <1>1, <1>3, TxConstants
  <2>3. TxQueue \in Seq(Packets \cup {Empty}) /\ Len(TxQueue) = 0
    BY <1>6, <2>1, <2>2, WindowFacts, TxConstants
  <2> QED BY <2>3
<1> QED BY <1>5, <1>7 DEF TxFifo!Init, NicInit, setup_tx, Empty

\* Before a packet is in the tail register it is outside the window.
LEMMA OutsideWindow ==
  ASSUME NEW f \in [TxIds -> Descs], NEW ti \in TxIds, NEW h \in TxIds, NEW tt, NEW l, NEW n,
         TxWindow(f, ti, h, tt, l, n), f[ti].dd
  PROVE  \A k \in 1 .. n : Slot(NumTx, h, k) \in TxIds /\ Slot(NumTx, h, k) # ti
<1> SUFFICES ASSUME NEW k \in 1 .. n PROVE Slot(NumTx, h, k) \in TxIds /\ ~f[Slot(NumTx, h, k)].dd
  OBVIOUS
<1>1. n \in 0 .. NumTx /\ k \in 1 .. NumTx
  BY TxConstants DEF TxWindow
<1>2. Slot(NumTx, h, k) \in TxIds /\ Steps(NumTx, h, Slot(NumTx, h, k)) = k - 1
  BY <1>1, TxConstants, SlotFacts
<1> QED BY <1>1, <1>2 DEF TxWindow

\* e1000_send: copying a packet, and clearing its DD, leave the queue alone.
LEMMA TxFillKeeps ==
  ASSUME TxInv, send_fill
  PROVE  TxInv' /\ TxQueueOf(tx', tdh', at') = TxQueueOf(tx, tdh, at)
<1>1. PICK n \in 0 .. NumTx : TxWindow(tx, tx_index, tdh, tdt, at, n)
  BY DEF TxInv
<1>2. /\ tx' = [tx EXCEPT ![tx_index].data = arg] /\ at = "tx_fill" /\ at' = "tx_status"
      /\ tx_index' = tx_index /\ tdh' = tdh /\ tdt' = tdt /\ arg' = arg
  BY DEF send_fill
<1>3. tx \in [TxIds -> Descs] /\ tx_index \in TxIds /\ tdh \in TxIds /\ arg \in Packets
  BY <1>2 DEF TxInv, TxTypes
<1>4. tx' \in [TxIds -> Descs] /\ tx'[tx_index].data = arg
  BY <1>2, <1>3 DEF Descs
<1>5. \A i \in TxIds : tx'[i].dd = tx[i].dd
  BY <1>2, <1>3 DEF Descs
<1>6. tx[tx_index].dd
  BY <1>1, <1>2 DEF TxWindow
<1>7. TxWindow(tx', tx_index', tdh', tdt', at', n)
  BY <1>1, <1>2, <1>3, <1>5, <1>6 DEF TxWindow
<1>8. TxTypes'
  BY <1>2, <1>3, <1>4 DEF TxInv, TxTypes
<1>9. \A k \in 1 .. n : Slot(NumTx, tdh, k) \in TxIds /\ Slot(NumTx, tdh, k) # tx_index
  BY <1>1, <1>3, <1>6, OutsideWindow
<1>10. \A i \in TxIds : i # tx_index => tx'[i] = tx[i]
  BY <1>2, <1>3
<1>11. Window(DataOf(tx', NumTx), NumTx, tdh, n) = Window(DataOf(tx, NumTx), NumTx, tdh, n)
  <2>1. \A k \in 1 .. n : DataOf(tx', NumTx)[Slot(NumTx, tdh, k)] = DataOf(tx, NumTx)[Slot(NumTx, tdh, k)]
    BY <1>9, <1>10, TxConstants DEF DataOf
  <2> QED BY <2>1 DEF Window
<1>12. TxQueueOf(tx', tdh', at') = Window(DataOf(tx', NumTx), NumTx, tdh, n)
  BY <1>2, <1>3, <1>4, <1>7, TxQueueIs
<1>13. TxQueueOf(tx, tdh, at) = Window(DataOf(tx, NumTx), NumTx, tdh, n)
  BY <1>1, <1>3, TxQueueIs
<1> QED BY <1>7, <1>8, <1>11, <1>12, <1>13 DEF TxInv

LEMMA TxStatusKeeps ==
  ASSUME TxInv, send_status
  PROVE  TxInv' /\ TxQueueOf(tx', tdh', at') = TxQueueOf(tx, tdh, at)
<1>1. PICK n \in 0 .. NumTx : TxWindow(tx, tx_index, tdh, tdt, at, n)
  BY DEF TxInv
<1>2. /\ tx' = [tx EXCEPT ![tx_index].dd = FALSE] /\ at = "tx_status" /\ at' = "tx_tail"
      /\ tx_index' = tx_index /\ tdh' = tdh /\ tdt' = tdt /\ arg' = arg
  BY DEF send_status
<1>3. /\ tx \in [TxIds -> Descs] /\ tx_index \in TxIds /\ tdh \in TxIds /\ tdt = tx_index
      /\ tx[tx_index].data \in Packets
  BY <1>2 DEF TxInv, TxTypes
<1>4. tx' \in [TxIds -> Descs]
  BY <1>2, <1>3 DEF Descs
<1>5. /\ \A i \in TxIds : tx'[i].data = tx[i].data
      /\ \A i \in TxIds : i # tx_index => tx'[i].dd = tx[i].dd
      /\ tx'[tx_index].dd = FALSE
  BY <1>2, <1>3 DEF Descs
<1>6. n < NumTx
  <2> SUFFICES ASSUME n = NumTx PROVE FALSE
    BY <1>1, TxConstants
  <2>1. tx[tx_index].dd /\ ~(Steps(NumTx, tdh, tx_index) < n)
    BY <1>1, <1>2, <1>3 DEF TxWindow
  <2>2. Steps(NumTx, tdh, tx_index) \in Ring(NumTx)
    BY <1>3, TxConstants, RingFacts
  <2> QED BY <2>1, <2>2, TxConstants DEF Ring
<1>7. TxWindow(tx', tx_index', tdh', tdt', at', n)
  <2>1. \A i \in TxIds : ~tx'[i].dd <=> (Steps(NumTx, tdh, i) < n \/ i = tx_index)
    BY <1>1, <1>2, <1>5 DEF TxWindow
  <2> QED BY <1>1, <1>2, <1>3, <1>6, <2>1 DEF TxWindow
<1>8. TxTypes'
  BY <1>2, <1>3, <1>4, <1>5 DEF TxInv, TxTypes
<1>9. DataOf(tx', NumTx) = DataOf(tx, NumTx)
  BY <1>5, TxConstants DEF DataOf
<1>10. TxQueueOf(tx', tdh', at') = Window(DataOf(tx', NumTx), NumTx, tdh, n)
  BY <1>2, <1>3, <1>4, <1>7, TxQueueIs
<1>11. TxQueueOf(tx, tdh, at) = Window(DataOf(tx, NumTx), NumTx, tdh, n)
  BY <1>1, <1>3, TxQueueIs
<1> QED BY <1>7, <1>8, <1>9, <1>10, <1>11 DEF TxInv

\* The write to the tail register puts the packet at the end of the queue.
LEMMA TxTailPuts ==
  ASSUME TxInv, send_tail
  PROVE  /\ TxInv' /\ wire' = wire
         /\ \E p \in Packets :
              /\ Len(TxQueueOf(tx, tdh, at)) < NumTx
              /\ TxQueueOf(tx', tdh', at') = Append(TxQueueOf(tx, tdh, at), p)
<1>1. PICK n \in 0 .. NumTx : TxWindow(tx, tx_index, tdh, tdt, at, n)
  BY DEF TxInv
<1>2. /\ tdt' = TxNext(tx_index) /\ at = "tx_tail" /\ at' = "tx_index" /\ wire' = wire
      /\ tx' = tx /\ tx_index' = tx_index /\ tdh' = tdh /\ arg' = arg
  BY DEF send_tail
<1>3. /\ tx \in [TxIds -> Descs] /\ tx_index \in TxIds /\ tdh \in TxIds
      /\ tx[tx_index].data \in Packets
  BY <1>2 DEF TxInv, TxTypes
<1>4. n < NumTx /\ tx_index = Slot(NumTx, tdh, n + 1)
  BY <1>1, <1>2 DEF TxWindow
<1>5. n + 1 \in 1 .. NumTx /\ n \in 0 .. NumTx - 1 /\ n + 1 \in 0 .. NumTx
  BY <1>4, TxConstants
<1>6. Steps(NumTx, tdh, tx_index) = n
  <2>1. Steps(NumTx, tdh, Slot(NumTx, tdh, n + 1)) = (n + 1) - 1
    BY <1>3, <1>5, TxConstants, SlotFacts
  <2> QED BY <1>4, <1>5, <2>1
<1>7. \A i \in TxIds : Steps(NumTx, tdh, i) < n + 1 <=> (Steps(NumTx, tdh, i) < n \/ i = tx_index)
  <2> SUFFICES ASSUME NEW i \in TxIds
               PROVE  Steps(NumTx, tdh, i) < n + 1 <=> (Steps(NumTx, tdh, i) < n \/ i = tx_index)
    OBVIOUS
  <2>1. Steps(NumTx, tdh, i) \in Nat /\ Slot(NumTx, tdh, Steps(NumTx, tdh, i) + 1) = i
    <3>1. Steps(NumTx, tdh, i) \in Ring(NumTx) /\ Slot(NumTx, tdh, Steps(NumTx, tdh, i) + 1) = i
      BY <1>3, TxConstants, RingFacts
    <3> QED BY <3>1 DEF Ring
  <2>2. Steps(NumTx, tdh, i) = n => i = tx_index
    BY <1>4, <2>1
  <2> QED BY <1>5, <1>6, <2>1, <2>2
<1>8. tdt' = Slot(NumTx, tdh, (n + 1) + 1)
  <2>1. tdt' = Behind(NumTx, tx_index)
    BY <1>2, <1>3, TxConstants, RingRemainders DEF TxNext
  <2> QED BY <1>3, <1>4, <1>5, <2>1, TxConstants DEF Behind, Slot, Ring
<1>9. TxWindow(tx', tx_index', tdh', tdt', at', n + 1)
  BY <1>1, <1>2, <1>5, <1>7, <1>8 DEF TxWindow
<1>10. TxTypes'
  BY <1>2, <1>3 DEF TxTypes
<1>11. TxInv'
  BY <1>5, <1>9, <1>10 DEF TxInv
<1>0. tdh \in Ring(NumTx) /\ NumTx \in Nat \ {0}
  BY <1>3, TxConstants
<1>d. PICK d : d = DataOf(tx, NumTx)
  OBVIOUS
<1>12. TxQueueOf(tx', tdh', at') = Window(d, NumTx, tdh, n + 1)
  BY <1>2, <1>3, <1>9, <1>d, TxQueueIs
<1>13. TxQueueOf(tx, tdh, at) = Window(d, NumTx, tdh, n)
  BY <1>1, <1>3, <1>d, TxQueueIs
<1>14. d \in [Ring(NumTx) -> Packets \cup {Empty}] /\ d[tx_index] = tx[tx_index].data
  BY <1>3, <1>d, TxConstants DEF DataOf, Descs
<1>15. Window(d, NumTx, tdh, n) \in Seq(Packets \cup {Empty}) /\ Len(Window(d, NumTx, tdh, n)) = n
  BY <1>0, <1>1, <1>14, WindowFacts
<1>16. Window(d, NumTx, tdh, n + 1) = Append(Window(d, NumTx, tdh, n), d[Slot(NumTx, tdh, n + 1)])
  BY <1>0, <1>5, <1>14, WindowAppend
<1> QED BY <1>2, <1>3, <1>4, <1>11, <1>12, <1>13, <1>14, <1>15, <1>16

\* The card takes the packet at its front.
LEMMA TransmitGets ==
  ASSUME TxInv, Transmit
  PROVE  /\ TxInv'
         /\ TxQueueOf(tx, tdh, at) # <<>>
         /\ TxQueueOf(tx', tdh', at') = Tail(TxQueueOf(tx, tdh, at))
         /\ wire' = Head(TxQueueOf(tx, tdh, at))
<1>1. PICK n \in 0 .. NumTx : TxWindow(tx, tx_index, tdh, tdt, at, n)
  BY DEF TxInv
<1>2. /\ tdh # tdt /\ wire' = tx[tdh].data /\ tx' = [tx EXCEPT ![tdh].dd = TRUE]
      /\ tdh' = TxNext(tdh) /\ tx_index' = tx_index /\ tdt' = tdt /\ at' = at /\ arg' = arg
  BY DEF Transmit
<1>3. /\ tx \in [TxIds -> Descs] /\ tx_index \in TxIds /\ tdh \in TxIds
      /\ tdt = IF at = "tx_index" THEN TxNext(tx_index) ELSE tx_index
  BY DEF TxInv, TxTypes
<1>4. tdh \in Nat /\ tdh < NumTx /\ NumTx \in Nat /\ n \in Nat /\ n <= NumTx
  BY <1>3, TxConstants DEF Ring
<1>5. n # 0 /\ n # NumTx /\ n - 1 \in 0 .. NumTx
  BY <1>1, <1>2, <1>4 DEF TxWindow, Slot
<1>6. tdh' = Behind(NumTx, tdh) /\ tdh' \in TxIds
  BY <1>2, <1>3, TxConstants, RingRemainders, RingFacts DEF TxNext
<1>7. tx' \in [TxIds -> Descs]
  BY <1>2, <1>3 DEF Descs
<1>8. /\ \A i \in TxIds : tx'[i].data = tx[i].data
      /\ \A i \in TxIds : i # tdh => tx'[i].dd = tx[i].dd
      /\ tx'[tdh].dd = TRUE
  BY <1>2, <1>3 DEF Descs
<1>9. \A i \in TxIds : Steps(NumTx, tdh', i) < n - 1 <=> (Steps(NumTx, tdh, i) < n /\ i # tdh)
  BY <1>4, <1>5, <1>6, TxConstants DEF Steps, Behind, Ring
<1>10. tdt = Slot(NumTx, tdh', (n - 1) + 1)
  BY <1>1, <1>4, <1>5, <1>6 DEF TxWindow, Slot, Behind
<1>11. at = "tx_tail" => tx_index # tdh
  BY <1>1, <1>2 DEF TxWindow
<1>12. TxWindow(tx', tx_index', tdh', tdt', at', n - 1)
  <2>1. \A i \in TxIds : ~tx'[i].dd <=> (Steps(NumTx, tdh', i) < n - 1 \/ (at = "tx_tail" /\ i = tx_index))
    BY <1>1, <1>8, <1>9, <1>11 DEF TxWindow
  <2>2. at \in {"tx_fill", "tx_status"} => tx'[tx_index].dd
    BY <1>1, <1>3, <1>8 DEF TxWindow
  <2>3. at = "tx_tail" => n - 1 < NumTx /\ tdt = tx_index
    BY <1>1, <1>4 DEF TxWindow
  <2> QED BY <1>2, <1>5, <1>10, <2>1, <2>2, <2>3 DEF TxWindow
<1>13. TxTypes'
  BY <1>2, <1>3, <1>6, <1>7, <1>8 DEF TxInv, TxTypes
<1>14. TxInv'
  BY <1>5, <1>12, <1>13 DEF TxInv
<1> DEFINE d == DataOf(tx, NumTx)
<1>15. DataOf(tx', NumTx) = d
  BY <1>8, TxConstants DEF DataOf
<1>16. TxQueueOf(tx', tdh', at') = Window(d, NumTx, Behind(NumTx, tdh), n - 1)
  <2>1. tx_index' \in TxIds
    BY <1>2, <1>3
  <2>2. TxQueueOf(tx', tdh', at') = Window(DataOf(tx', NumTx), NumTx, tdh', n - 1)
    BY <1>6, <1>7, <1>12, <2>1, TxQueueIs, Zenon
  <2> QED BY <1>6, <1>15, <2>2
<1>17. TxQueueOf(tx, tdh, at) = Window(d, NumTx, tdh, n)
  BY <1>1, <1>3, TxQueueIs
<1>18. d \in [Ring(NumTx) -> Packets \cup {Empty}] /\ d[tdh] = tx[tdh].data
  BY <1>3, TxConstants DEF DataOf, Descs
<1> HIDE DEF d
<1>19. /\ Window(d, NumTx, tdh, n) # <<>> /\ Head(Window(d, NumTx, tdh, n)) = d[tdh]
       /\ Window(d, NumTx, Behind(NumTx, tdh), n - 1) = Tail(Window(d, NumTx, tdh, n))
  BY <1>3, <1>5, <1>18, TxConstants, WindowTail
<1> QED BY <1>2, <1>14, <1>16, <1>17, <1>18, <1>19

\* No other step is seen by the transmit ring.
LEMMA TxOthersKeep ==
  ASSUME TxInv, UNCHANGED txvars,
         at' = at \/ {at, at'} \cap {"tx_fill", "tx_status", "tx_tail", "tx_index"} = {}
                  \/ (at' = "tx_fill" /\ at = "idle" /\ tx[tx_index].dd /\ arg' \in Packets),
         at = at' => arg' = arg \/ at # "tx_fill"
  PROVE  TxInv' /\ TxQueueOf(tx', tdh', at') = TxQueueOf(tx, tdh, at) /\ wire' = wire
<1>1. PICK n \in 0 .. NumTx : TxWindow(tx, tx_index, tdh, tdt, at, n)
  BY DEF TxInv
<1>2. tx' = tx /\ tx_index' = tx_index /\ tdh' = tdh /\ tdt' = tdt /\ wire' = wire
  BY DEF txvars
<1>3. TxWindow(tx', tx_index', tdh', tdt', at', n)
  BY <1>1, <1>2 DEF TxWindow
<1>4. TxTypes'
  BY <1>2 DEF TxInv, TxTypes
<1>5. at = "tx_tail" <=> at' = "tx_tail"
  OBVIOUS
<1>6. TxQueueOf(tx', tdh', at') = TxQueueOf(tx, tdh, at)
  BY <1>2, <1>5 DEF TxQueueOf, OutstandingOf
<1> QED BY <1>2, <1>3, <1>4, <1>6 DEF TxInv

\* The last step of e1000_send makes tx_index what the tail is.
LEMMA TxIndexKeeps ==
  ASSUME TxInv, send_index
  PROVE  TxInv' /\ TxQueueOf(tx', tdh', at') = TxQueueOf(tx, tdh, at) /\ wire' = wire
<1>1. PICK n \in 0 .. NumTx : TxWindow(tx, tx_index, tdh, tdt, at, n)
  BY DEF TxInv
<1>2. /\ at = "tx_index" /\ at' = "idle" /\ tx_index' = TxNext(tx_index) /\ wire' = wire
      /\ tx' = tx /\ tdh' = tdh /\ tdt' = tdt
  BY DEF send_index
<1>3. tx_index' \in TxIds
  BY <1>2, TxConstants, RingRemainders, RingFacts DEF TxInv, TxTypes, TxNext
<1>4. TxWindow(tx', tx_index', tdh', tdt', at', n)
  BY <1>1, <1>2 DEF TxWindow
<1>5. TxTypes'
  BY <1>2, <1>3 DEF TxInv, TxTypes
<1>6. TxQueueOf(tx', tdh', at') = TxQueueOf(tx, tdh, at)
  BY <1>2 DEF TxQueueOf, OutstandingOf
<1> QED BY <1>2, <1>4, <1>5, <1>6 DEF TxInv

LEMMA TxQueueSame == TxQueue = TxQueueOf(tx, tdh, at)
  BY DEF TxQueue, TxQueueOf, Outstanding, OutstandingOf

LEMMA TxRefines ==
  ASSUME TxInv, [NicNext]_nicvars, TxQueue = TxQueueOf(tx, tdh, at), TxQueue' = TxQueueOf(tx', tdh', at')
  PROVE  TxInv' /\ [TxFifo!Next]_<<TxQueue, wire>>
<1>1. CASE send_fill \/ send_status \/ send_index
  <2>1. TxInv' /\ TxQueue' = TxQueue
    BY <1>1, TxFillKeeps, TxStatusKeeps, TxIndexKeeps
  <2>2. wire' = wire
    BY <1>1 DEF send_fill, send_status, send_index
  <2> QED BY <2>1, <2>2
<1>2. CASE send_tail
  <2>1. PICK p \in Packets : Len(TxQueue) < NumTx /\ TxQueue' = Append(TxQueue, p)
    BY <1>2, TxTailPuts
  <2>2. TxFifo!Put(p)
    BY <1>2, <2>1, TxTailPuts DEF TxFifo!Put
  <2> QED BY <1>2, <2>2, TxTailPuts DEF TxFifo!Next
<1>3. CASE Transmit
  <2>1. TxFifo!Get
    BY <1>3, TransmitGets DEF TxFifo!Get
  <2> QED BY <1>3, <2>1, TransmitGets DEF TxFifo!Next
<1>4. ASSUME NEW p \in Packets, send_check(p)
      PROVE  TxInv' /\ [TxFifo!Next]_<<TxQueue, wire>>
  BY <1>4, TxOthersKeep DEF send_check
<1>5. ASSUME NEW p \in Packets, Arrive(p)
      PROVE  TxInv' /\ [TxFifo!Next]_<<TxQueue, wire>>
  BY <1>5, TxOthersKeep DEF Arrive
<1>6. CASE receive_check \/ Receiving
  BY <1>6, TxOthersKeep DEF receive_check, Receiving, receive_copy, receive_status, receive_tail, receive_index
<1>7. CASE UNCHANGED nicvars
  BY <1>7, TxOthersKeep DEF nicvars
<1> QED BY <1>1, <1>2, <1>3, <1>4, <1>5, <1>6, <1>7 DEF NicNext, Sending

-----------------------------------------------------------------------------
(* The receive ring. The descriptors that hold a packet are among those    *)
(* from the first unread one to the head, and the tail is the slot before  *)
(* the first: the card stops one short of it.                              *)

RxQueueOf(f, first, h) == Window(DataOf(f, NumRx), NumRx, first, Steps(NumRx, first, h))

RxFilled(f, first, h) ==
  \A i \in RxIds : f[i].dd => Steps(NumRx, first, i) < Steps(NumRx, first, h)

RxInv ==
  /\ rx \in [RxIds -> Descs] /\ rx_index \in RxIds /\ rdh \in RxIds /\ rdt \in RxIds
  /\ Behind(NumRx, rdt) = FirstRx
  /\ RxFilled(rx, FirstRx, rdh)
  /\ at \in {"rx_copy", "rx_status"} => rx[rx_index].dd
  /\ at = "rx_tail" => ~rx[rx_index].dd /\ rdh # rx_index
  /\ at \in {"rx_status", "rx_tail"} => arg = rx[rx_index].data

LEMMA RxConstants == NumRx \in Nat \ {0} /\ NumRx > 1 /\ RxIds = Ring(NumRx)
  BY E1000Assumption DEF RxIds, Ring

\* FirstRx is a slot, and RxNext the one behind.
LEMMA RxSlots ==
  ASSUME NEW i \in RxIds
  PROVE  RxNext(i) = Behind(NumRx, i) /\ RxNext(i) \in RxIds
  BY RxConstants, RingRemainders, RingFacts DEF RxNext

\* The packets that wait are those of the window.
LEMMA RxQueueIs ==
  ASSUME NEW f \in [RxIds -> Descs], NEW a \in RxIds, NEW h \in RxIds
  PROVE  [k \in 1 .. (h - a) % NumRx |-> f[(a + k - 1) % NumRx].data] = RxQueueOf(f, a, h)
<1>1. (h - a) % NumRx = Steps(NumRx, a, h)
  BY RxConstants, RingRemainders
<1>2. PICK n : n = Steps(NumRx, a, h)
  OBVIOUS
<1>3. n \in 0 .. NumRx - 1
  <2>1. Steps(NumRx, a, h) \in Ring(NumRx)
    BY RxConstants, RingFacts
  <2> QED BY <1>2, <2>1 DEF Ring
<1>4. \A k \in 1 .. n : (a + k - 1) % NumRx = Slot(NumRx, a, k) /\ Slot(NumRx, a, k) \in Ring(NumRx)
  <2> SUFFICES ASSUME NEW k \in 1 .. n
               PROVE  (a + k - 1) % NumRx = Slot(NumRx, a, k) /\ Slot(NumRx, a, k) \in Ring(NumRx)
    OBVIOUS
  <2>1. k \in 1 .. NumRx
    BY <1>3, RxConstants
  <2>2. (a + k - 1) % NumRx = Slot(NumRx, a, k)
    BY <2>1, RxConstants, RingRemainders
  <2>3. Slot(NumRx, a, k) \in Ring(NumRx)
    BY <2>1, RxConstants, SlotFacts
  <2> QED BY <2>2, <2>3
<1>5. \A k \in 1 .. n : f[(a + k - 1) % NumRx].data = DataOf(f, NumRx)[Slot(NumRx, a, k)]
  BY <1>4 DEF DataOf
<1> QED BY <1>1, <1>2, <1>5 DEF RxQueueOf, Window

LEMMA FirstRxIs == RxInv => FirstRx \in RxIds /\ RxQueue = RxQueueOf(rx, FirstRx, rdh)
<1> SUFFICES ASSUME RxInv PROVE FirstRx \in RxIds /\ RxQueue = RxQueueOf(rx, FirstRx, rdh)
  OBVIOUS
<1>1. FirstRx \in RxIds
  BY RxSlots DEF RxInv, FirstRx
<1> QED BY <1>1, RxQueueIs DEF RxInv, RxQueue

LEMMA RxStarts == NicInit => RxInv /\ RxFifo!Init
<1> SUFFICES ASSUME NicInit PROVE RxInv /\ RxFifo!Init
  OBVIOUS
<1>1. NumRx \in Nat /\ NumRx > 1
  BY RxConstants
<1>2. rx \in [RxIds -> Descs] /\ \A i \in RxIds : ~rx[i].dd
  BY DEF NicInit, setup_rx, Descs
<1>3. rx_index = 0 /\ rdh = 0 /\ rdt = NumRx - 1 /\ at = "idle" /\ FirstRx = 0
      /\ 0 \in RxIds /\ NumRx - 1 \in RxIds
  BY <1>1 DEF NicInit, setup_rx, RxIds, FirstRx
<1>4. RxInv
  BY <1>1, <1>2, <1>3 DEF RxInv, RxFilled, Behind
<1>5. RxQueue = Window(DataOf(rx, NumRx), NumRx, 0, 0)
  BY <1>3, <1>4, FirstRxIs DEF RxQueueOf, Steps
<1>6. RxQueue = <<>>
  <2>1. DataOf(rx, NumRx) \in [Ring(NumRx) -> Packets \cup {Empty}]
    BY <1>2, RxConstants DEF DataOf, Descs
  <2>2. 0 \in Ring(NumRx) /\ 0 \in 0 .. NumRx
    BY <1>1, <1>3, RxConstants
  <2>3. RxQueue \in Seq(Packets \cup {Empty}) /\ Len(RxQueue) = 0
    BY <1>5, <2>1, <2>2, WindowFacts, RxConstants
  <2> QED BY <2>3
<1> QED BY <1>4, <1>6 DEF RxFifo!Init, NicInit, setup_rx, Empty

\* What a step along the ring does to the number of steps.
LEMMA StepsBehind ==
  ASSUME NEW N \in Nat \ {0}, NEW a \in Ring(N), NEW b \in Ring(N)
  PROVE  /\ Steps(N, a, b) = 0 <=> a = b
         /\ a # b => Steps(N, Behind(N, a), b) = Steps(N, a, b) - 1
         /\ Behind(N, b) # a => Steps(N, a, Behind(N, b)) = Steps(N, a, b) + 1
         /\ \A r \in Ring(N) : Behind(N, r) = a => (r = b <=> Steps(N, a, b) = N - 1)
<1>1. N > 0 /\ a \in Nat /\ a < N /\ b \in Nat /\ b < N
  BY DEF Ring
<1> QED BY <1>1 DEF Ring, Behind, Steps

\* A packet arrives: at the end of the queue, if it is not full.
LEMMA RxArrivePuts ==
  ASSUME RxInv, NEW p \in Packets, Arrive(p)
  PROVE  /\ RxInv' /\ got' = got
         /\ RxQueueOf(rx', FirstRx', rdh') =
              IF Len(RxQueueOf(rx, FirstRx, rdh)) < NumRx - 1
              THEN Append(RxQueueOf(rx, FirstRx, rdh), p) ELSE RxQueueOf(rx, FirstRx, rdh)
<1>0. NumRx \in Nat \ {0} /\ NumRx > 1 /\ RxIds = Ring(NumRx)
  BY RxConstants
<1>1. PICK a \in RxIds : a = FirstRx /\ FirstRx' = a
  BY FirstRxIs DEF Arrive, FirstRx
<1>2. /\ rx \in [RxIds -> Descs] /\ rx_index \in RxIds /\ rdh \in RxIds /\ rdt \in RxIds
      /\ Behind(NumRx, rdt) = a /\ RxFilled(rx, a, rdh)
  BY <1>1 DEF RxInv
<1>3. rx_index' = rx_index /\ rdt' = rdt /\ at' = at /\ arg' = arg /\ got' = got
  BY DEF Arrive
<1>4. PICK n : n = Steps(NumRx, a, rdh)
  OBVIOUS
<1>5. n \in 0 .. NumRx - 1 /\ n \in 0 .. NumRx
  <2>1. Steps(NumRx, a, rdh) \in Ring(NumRx)
    BY <1>0, <1>2, RingFacts
  <2> QED BY <1>0, <1>4, <2>1 DEF Ring
<1>6. rdh = rdt <=> n = NumRx - 1
  BY <1>0, <1>2, <1>4, StepsBehind
<1>7. PICK d : d = DataOf(rx, NumRx)
  OBVIOUS
<1>8. d \in [Ring(NumRx) -> Packets \cup {Empty}]
  BY <1>0, <1>2, <1>7 DEF DataOf, Descs
<1>9. RxQueueOf(rx, FirstRx, rdh) = Window(d, NumRx, a, n)
  BY <1>1, <1>4, <1>7 DEF RxQueueOf
<1>10. Window(d, NumRx, a, n) \in Seq(Packets \cup {Empty}) /\ Len(Window(d, NumRx, a, n)) = n
  BY <1>0, <1>5, <1>8, WindowFacts
<1>11. CASE rdh = rdt
  <2>1. rx' = rx /\ rdh' = rdh
    BY <1>11 DEF Arrive
  <2>2. RxInv'
    BY <1>1, <1>3, <2>1 DEF RxInv
  <2>3. RxQueueOf(rx', FirstRx', rdh') = RxQueueOf(rx, FirstRx, rdh)
    BY <1>1, <2>1
  <2>4. ~(Len(RxQueueOf(rx, FirstRx, rdh)) < NumRx - 1)
    BY <1>0, <1>6, <1>9, <1>10, <1>11
  <2> QED BY <1>3, <2>2, <2>3, <2>4
<1>12. CASE rdh # rdt
  <2>1. rx' = [rx EXCEPT ![rdh] = [dd |-> TRUE, data |-> p]] /\ rdh' = RxNext(rdh)
    BY <1>12 DEF Arrive
  <2>2. rdh' = Behind(NumRx, rdh) /\ rdh' \in RxIds /\ n < NumRx - 1
    BY <1>0, <1>2, <1>5, <1>6, <1>12, <2>1, RxSlots
  <2>3. rdh' # a
    BY <1>0, <1>2, <1>12, <2>2 DEF Behind, Ring
  <2>4. Steps(NumRx, a, rdh') = n + 1
    BY <1>0, <1>2, <1>4, <2>2, <2>3, StepsBehind
  <2>5. rx' \in [RxIds -> Descs]
    BY <1>2, <2>1 DEF Descs
  <2>6. RxFilled(rx', a, rdh')
    <3> SUFFICES ASSUME NEW i \in RxIds, rx'[i].dd PROVE Steps(NumRx, a, i) < n + 1
      BY <2>4 DEF RxFilled
    <3>1. CASE i = rdh
      BY <1>4, <1>5, <3>1
    <3>2. CASE i # rdh
      <4>1. Steps(NumRx, a, i) < n
        BY <1>2, <1>4, <2>1, <3>2 DEF RxFilled
      <4>2. Steps(NumRx, a, i) \in Ring(NumRx)
        BY <1>0, RingFacts
      <4> QED BY <1>5, <4>1, <4>2 DEF Ring
    <3> QED BY <3>1, <3>2
  <2>7. at \in {"rx_copy", "rx_status", "rx_tail"} => rdh # rx_index
    <3>1. CASE at = "rx_tail"
      BY <3>1 DEF RxInv
    <3>2. CASE at \in {"rx_copy", "rx_status"}
      <4>1. a = rx_index /\ rx[rx_index].dd
        BY <1>1, <3>2 DEF RxInv, FirstRx
      <4>2. Steps(NumRx, a, rx_index) < Steps(NumRx, a, rdh)
        BY <1>2, <4>1 DEF RxFilled
      <4>3. Steps(NumRx, a, rdh) \in Int
        BY <1>4, <1>5
      <4> QED BY <4>1, <4>2, <4>3
    <3> QED BY <3>1, <3>2
  <2>8. rdh # rx_index => rx'[rx_index] = rx[rx_index]
    BY <1>2, <2>1
  <2>9. at = "rx_tail" => rdh' # rx_index
    BY <1>1, <2>3 DEF FirstRx
  <2>10. RxInv'
    <3>1. /\ at \in {"rx_copy", "rx_status"} => rx'[rx_index].dd
          /\ at = "rx_tail" => ~rx'[rx_index].dd /\ rdh' # rx_index
          /\ at \in {"rx_status", "rx_tail"} => arg = rx'[rx_index].data
      BY <2>7, <2>8, <2>9 DEF RxInv
    <3> QED BY <1>1, <1>2, <1>3, <2>2, <2>5, <2>6, <3>1 DEF RxInv
  <2>11. PICK e : e = DataOf(rx', NumRx)
    OBVIOUS
  <2>12. e \in [Ring(NumRx) -> Packets \cup {Empty}]
    BY <1>0, <2>5, <2>11 DEF DataOf, Descs
  <2>13. rdh = Slot(NumRx, a, n + 1) /\ n + 1 \in 1 .. NumRx
    BY <1>0, <1>2, <1>4, <1>5, RingFacts
  <2>14. e[rdh] = p /\ \A i \in RxIds : i # rdh => e[i] = d[i]
    BY <1>0, <1>2, <1>7, <2>1, <2>11 DEF DataOf
  <2>15. \A k \in 1 .. n : d[Slot(NumRx, a, k)] = e[Slot(NumRx, a, k)]
    <3> SUFFICES ASSUME NEW k \in 1 .. n PROVE d[Slot(NumRx, a, k)] = e[Slot(NumRx, a, k)]
      OBVIOUS
    <3>1. k \in 1 .. NumRx /\ k - 1 # n
      BY <1>0, <1>5
    <3>2. Slot(NumRx, a, k) \in RxIds /\ Steps(NumRx, a, Slot(NumRx, a, k)) = k - 1
      BY <1>0, <3>1, SlotFacts
    <3> QED BY <1>4, <2>14, <3>1, <3>2
  <2>16. Window(e, NumRx, a, n + 1) = Append(Window(d, NumRx, a, n), e[Slot(NumRx, a, n + 1)])
    BY <1>0, <1>5, <1>8, <2>12, <2>15, WindowAppend
  <2>17. RxQueueOf(rx', FirstRx', rdh') = Window(e, NumRx, a, n + 1)
    BY <1>1, <2>4, <2>11 DEF RxQueueOf
  <2> QED BY <1>3, <1>9, <1>10, <2>2, <2>10, <2>13, <2>14, <2>16, <2>17
<1> QED BY <1>11, <1>12

\* Clearing DD leaves the queue alone.
LEMMA RxStatusKeeps ==
  ASSUME RxInv, receive_status
  PROVE  RxInv' /\ RxQueueOf(rx', FirstRx', rdh') = RxQueueOf(rx, FirstRx, rdh) /\ got' = got
<1>1. /\ at = "rx_status" /\ at' = "rx_tail" /\ rx' = [rx EXCEPT ![rx_index].dd = FALSE]
      /\ rx_index' = rx_index /\ rdh' = rdh /\ rdt' = rdt /\ got' = got /\ arg' = arg
  BY DEF receive_status
<1>2. FirstRx = rx_index /\ FirstRx' = rx_index
  BY <1>1 DEF FirstRx
<1>3. /\ rx \in [RxIds -> Descs] /\ rx_index \in RxIds /\ rdh \in RxIds /\ rdt \in RxIds
      /\ Behind(NumRx, rdt) = rx_index /\ RxFilled(rx, rx_index, rdh) /\ rx[rx_index].dd
      /\ arg = rx[rx_index].data
  BY <1>1, <1>2 DEF RxInv
<1>4. rx' \in [RxIds -> Descs]
  BY <1>1, <1>3 DEF Descs
<1>5. /\ \A i \in RxIds : rx'[i].data = rx[i].data
      /\ \A i \in RxIds : i # rx_index => rx'[i].dd = rx[i].dd
      /\ rx'[rx_index].dd = FALSE
  BY <1>1, <1>3 DEF Descs
<1>6. rdh # rx_index
  <2>1. Steps(NumRx, rx_index, rx_index) < Steps(NumRx, rx_index, rdh)
    BY <1>3 DEF RxFilled
  <2>2. Steps(NumRx, rx_index, rdh) \in Ring(NumRx)
    BY <1>3, RxConstants, RingFacts
  <2> QED BY <2>1, <2>2 DEF Ring
<1>7. RxFilled(rx', rx_index, rdh)
  BY <1>3, <1>5 DEF RxFilled
<1>8. RxInv'
  BY <1>1, <1>2, <1>3, <1>4, <1>5, <1>6, <1>7 DEF RxInv
<1>9. DataOf(rx', NumRx) = DataOf(rx, NumRx)
  BY <1>5, RxConstants DEF DataOf
<1> QED BY <1>1, <1>2, <1>8, <1>9 DEF RxQueueOf

\* Handing the descriptor back ends the read of the packet at the front.
LEMMA RxTailGets ==
  ASSUME RxInv, receive_tail
  PROVE  /\ RxInv'
         /\ RxQueueOf(rx, FirstRx, rdh) # <<>>
         /\ RxQueueOf(rx', FirstRx', rdh') = Tail(RxQueueOf(rx, FirstRx, rdh))
         /\ got' = Head(RxQueueOf(rx, FirstRx, rdh))
<1>0. NumRx \in Nat \ {0} /\ NumRx > 1 /\ RxIds = Ring(NumRx)
  BY RxConstants
<1>1. /\ at = "rx_tail" /\ at' = "rx_index" /\ rdt' = rx_index /\ got' = arg
      /\ rx' = rx /\ rx_index' = rx_index /\ rdh' = rdh /\ arg' = arg
  BY DEF receive_tail
<1>2. FirstRx = rx_index /\ FirstRx' = RxNext(rx_index)
  BY <1>1 DEF FirstRx
<1>3. /\ rx \in [RxIds -> Descs] /\ rx_index \in RxIds /\ rdh \in RxIds
      /\ RxFilled(rx, rx_index, rdh) /\ ~rx[rx_index].dd /\ rdh # rx_index
      /\ arg = rx[rx_index].data
  BY <1>1, <1>2 DEF RxInv
<1>4. FirstRx' = Behind(NumRx, rx_index) /\ FirstRx' \in RxIds
  BY <1>2, <1>3, RxSlots
<1>5. PICK n : n = Steps(NumRx, rx_index, rdh)
  OBVIOUS
<1>6. n \in 0 .. NumRx /\ n # 0
  <2>1. Steps(NumRx, rx_index, rdh) \in Ring(NumRx)
    BY <1>0, <1>3, RingFacts
  <2>2. n # 0
    BY <1>0, <1>3, <1>5, StepsBehind
  <2> QED BY <1>0, <1>5, <2>1, <2>2 DEF Ring
<1>7. Steps(NumRx, Behind(NumRx, rx_index), rdh) = n - 1
  BY <1>0, <1>3, <1>5, StepsBehind
<1>8. RxFilled(rx, Behind(NumRx, rx_index), rdh)
  <2> SUFFICES ASSUME NEW i \in RxIds, rx[i].dd
               PROVE  Steps(NumRx, Behind(NumRx, rx_index), i) < n - 1
    BY <1>7 DEF RxFilled
  <2>1. i # rx_index /\ Steps(NumRx, rx_index, i) < n
    BY <1>3, <1>5 DEF RxFilled
  <2>2. Steps(NumRx, Behind(NumRx, rx_index), i) = Steps(NumRx, rx_index, i) - 1
    BY <1>0, <1>3, <2>1, StepsBehind
  <2>3. Steps(NumRx, rx_index, i) \in Ring(NumRx)
    BY <1>0, <1>3, RingFacts
  <2> QED BY <1>6, <2>1, <2>2, <2>3 DEF Ring
<1>9. RxInv'
  BY <1>1, <1>3, <1>4, <1>8 DEF RxInv
<1>10. PICK d : d = DataOf(rx, NumRx)
  OBVIOUS
<1>11. d \in [Ring(NumRx) -> Packets \cup {Empty}] /\ d[rx_index] = arg
  BY <1>0, <1>3, <1>10 DEF DataOf, Descs
<1>12. RxQueueOf(rx, FirstRx, rdh) = Window(d, NumRx, rx_index, n)
  BY <1>2, <1>5, <1>10 DEF RxQueueOf
<1>13. RxQueueOf(rx', FirstRx', rdh') = Window(d, NumRx, Behind(NumRx, rx_index), n - 1)
  BY <1>1, <1>4, <1>7, <1>10 DEF RxQueueOf
<1>14. /\ Window(d, NumRx, rx_index, n) # <<>> /\ Head(Window(d, NumRx, rx_index, n)) = d[rx_index]
       /\ Window(d, NumRx, Behind(NumRx, rx_index), n - 1) = Tail(Window(d, NumRx, rx_index, n))
  BY <1>0, <1>3, <1>6, <1>11, WindowTail
<1> QED BY <1>1, <1>9, <1>11, <1>12, <1>13, <1>14

\* No other step is seen by the receive ring.
LEMMA RxOthersKeep ==
  ASSUME RxInv, [NicNext]_nicvars, UNCHANGED <<rx, rdh, rdt, got>>
  PROVE  RxInv' /\ RxQueueOf(rx', FirstRx', rdh') = RxQueueOf(rx, FirstRx, rdh)
<1>1. CASE UNCHANGED rx_index /\ at' = at /\ arg' = arg
  BY <1>1 DEF RxInv, FirstRx, RxQueueOf
<1>2. CASE receive_index
  <2>1. /\ at = "rx_index" /\ at' = "idle" /\ rx_index' = RxNext(rx_index)
        /\ FirstRx' = FirstRx
    BY <1>2 DEF receive_index, FirstRx
  <2>2. rx_index' \in RxIds
    BY <2>1, RxSlots DEF RxInv
  <2> QED BY <2>1, <2>2 DEF RxInv, RxQueueOf
<1>3. CASE receive_copy
  BY <1>3 DEF receive_copy, rxvars, RxInv, FirstRx, RxQueueOf
<1>4. CASE receive_check
  BY <1>4 DEF receive_check, rxvars, RxInv, FirstRx, RxQueueOf
<1>5. ASSUME NEW p \in Packets, send_check(p)
      PROVE  RxInv' /\ RxQueueOf(rx', FirstRx', rdh') = RxQueueOf(rx, FirstRx, rdh)
  BY <1>5 DEF send_check, rxvars, RxInv, FirstRx, RxQueueOf
<1>6. CASE Sending
  BY <1>6 DEF Sending, send_fill, send_status, send_tail, send_index, rxvars, RxInv, FirstRx, RxQueueOf
<1>7. CASE Transmit
  BY <1>7, <1>1 DEF Transmit, rxvars
<1>8. ASSUME NEW p \in Packets, Arrive(p)
      PROVE  RxInv' /\ RxQueueOf(rx', FirstRx', rdh') = RxQueueOf(rx, FirstRx, rdh)
  BY <1>8, <1>1 DEF Arrive
<1>9. CASE UNCHANGED nicvars
  BY <1>9, <1>1 DEF nicvars, rxvars
<1>10. CASE receive_status
  <2>1. RxInv' /\ RxQueueOf(rx', FirstRx', rdh') = RxQueueOf(rx, FirstRx, rdh)
    BY <1>10, RxStatusKeeps
  <2> QED BY <2>1
<1>11. ~receive_tail
  BY RxConstants DEF receive_tail, RxInv, FirstRx, Behind, Ring
<1> QED BY <1>2, <1>3, <1>4, <1>5, <1>6, <1>7, <1>8, <1>9, <1>10, <1>11 DEF NicNext, Receiving

LEMMA RxRefines ==
  ASSUME RxInv, [NicNext]_nicvars, RxQueue = RxQueueOf(rx, FirstRx, rdh),
         RxInv' => RxQueue' = RxQueueOf(rx', FirstRx', rdh')
  PROVE  RxInv' /\ [RxFifo!Next]_<<RxQueue, got>>
<1>1. CASE receive_status
  BY <1>1, RxStatusKeeps
<1>2. CASE receive_tail
  <2>1. RxFifo!Get
    BY <1>2, RxTailGets DEF RxFifo!Get
  <2> QED BY <1>2, <2>1, RxTailGets DEF RxFifo!Next
<1>3. ASSUME NEW p \in Packets, Arrive(p)
      PROVE  RxInv' /\ [RxFifo!Next]_<<RxQueue, got>>
  <2>1. RxFifo!Put(p)
    BY <1>3, RxArrivePuts DEF RxFifo!Put
  <2> QED BY <1>3, <2>1, RxArrivePuts DEF RxFifo!Next
<1>4. CASE UNCHANGED <<rx, rdh, rdt, got>>
  BY <1>4, RxOthersKeep
<1>5. UNCHANGED <<rx, rdh, rdt, got>> \/ receive_status \/ receive_tail \/ \E p \in Packets : Arrive(p)
  BY DEF NicNext, Sending, Receiving, send_check, send_fill, send_status, send_tail, send_index,
     Transmit, receive_check, receive_copy, receive_index, rxvars, nicvars
<1> QED BY <1>1, <1>2, <1>3, <1>4, <1>5

LEMMA CardStep == [DevicesNext]_devicevars => [NicNext]_nicvars
  BY DEF DevicesNext, Disk, Card, Bus, Others, devicevars

\* Both rings are bounded queues, whatever their sizes and wherever the steps
\* of the card fall between those of e1000_send and e1000_receive.
THEOREM CardImplementsQueues == DevicesSpec => ImplementsQueues
<1>1. DevicesInit => TxInv /\ TxFifo!Init /\ RxInv /\ RxFifo!Init
  BY TxStarts, RxStarts DEF DevicesInit
<1>2. TxInv /\ [DevicesNext]_devicevars /\ TxQueue = TxQueueOf(tx, tdh, at)
        /\ (TxQueue = TxQueueOf(tx, tdh, at))' => TxInv' /\ [TxFifo!Next]_<<TxQueue, wire>>
  BY TxRefines, CardStep
<1>3. RxInv /\ [DevicesNext]_devicevars /\ (RxInv => RxQueue = RxQueueOf(rx, FirstRx, rdh))
        /\ (RxInv => RxQueue = RxQueueOf(rx, FirstRx, rdh))' => RxInv' /\ [RxFifo!Next]_<<RxQueue, got>>
  BY RxRefines, CardStep
<1>4. RxInv => RxQueue = RxQueueOf(rx, FirstRx, rdh)
  BY FirstRxIs
<1> QED BY <1>1, <1>2, <1>3, <1>4, TxQueueSame, PTL DEF DevicesSpec, ImplementsQueues, TxFifo!Spec, RxFifo!Spec
=============================================================================
