-------------------------------- MODULE Pci --------------------------------
(***************************************************************************)
(* Configuration space and the search for the network card                 *)
(* (drivers/pci/pci.c, find_nic of drivers/nic/nic.c). A function of the   *)
(* bus is <<bus, slot, func>>; its registers are words of two 16-bit       *)
(* halves, low then high. Command and status are sets of bits; a status    *)
(* bit is cleared by writing 1 to it, as the PCI standard has it.          *)
(***************************************************************************)
EXTENDS Integers, Sequences, FiniteSets

CONSTANTS
  Functions,   \* the functions that are looked at
  Spaces,      \* contents of configuration space: function -> words, or Absent
  Wanted       \* <<vendor, device>> that find_device is asked for

VARIABLES
  space,       \* configuration space
  found,       \* the device_s of the last search, or NotFound
  phase        \* what the kernel has done: "boot", "nic", "device", "master"

pcivars == <<space, found, phase>>

Buses == 0 .. 255
Slots == 0 .. 31
Funcs == 0 .. 7
Half == 0 .. 65535
Absent == << <<65535, 65535>> >>
NotFound == [fn |-> <<>>]
VENDOR_ID == 0
DEVICE_ID == 2
PCI_COMMAND == 4
ClassReg == 8
BAR0 == 16
COMMAND_BUS_MASTER == 2    \* the number of the bit

\* A device has a vendor: 65535 is what is read where there is none.
IsSpace(s) ==
  /\ DOMAIN s = Functions
  /\ \A f \in Functions : s[f] # Absent => /\ s[f][1] \in (Half \ {65535}) \X Half
                                          /\ s[f][3] \in Half \X Half

ASSUME PciAssumption ==
  /\ Functions \subseteq Buses \X Slots \X Funcs
  /\ \A s \in Spaces : IsSpace(s)
-----------------------------------------------------------------------------
\* make_address: the low two bits of an offset go.
make_address(offset) == (offset \div 4) + 1

config_read32(fn, offset) ==
  IF space[fn] = Absent THEN <<65535, 65535>> ELSE space[fn][make_address(offset)]

\* Mutant: always the low half.
config_read16_Low(fn, offset) == config_read32(fn, offset)[1]

config_read16(fn, offset) == config_read32(fn, offset)[1 + ((offset \div 2) % 2)]

\* The half is replaced in the word read, and the word written back: status
\* bits that were set are written, and cleared.
config_write16(fn, offset, v) ==
  LET word == config_read32(fn, offset)
      new == [word EXCEPT ![1 + ((offset \div 2) % 2)] = v]
  IN  space' = [space EXCEPT ![fn][make_address(offset)] =
                  IF offset = PCI_COMMAND THEN <<new[1], word[2] \ new[2]>> ELSE new]

enable_bus_mastering(fn) ==
  config_write16(fn, PCI_COMMAND, config_read16(fn, PCI_COMMAND) \cup {COMMAND_BUS_MASTER})

\* The loops over bus, slot and function.
Before(f, g) ==
  \/ f[1] < g[1] \/ (f[1] = g[1] /\ f[2] < g[2])
  \/ (f[1] = g[1] /\ f[2] = g[2] /\ f[3] < g[3])
Seen(fn) == config_read16(fn, VENDOR_ID) # 65535
First(S) == CHOOSE f \in S : \A g \in S \ {f} : Before(f, g)

class_code(fn) == config_read32(fn, ClassReg)[2] \div 256
subclass(fn) == config_read32(fn, ClassReg)[2] % 256

Described(fn, bar) ==
  [fn |-> fn, vendor_id |-> config_read16(fn, VENDOR_ID),
   device_id |-> config_read16(fn, DEVICE_ID), class_code |-> class_code(fn), bar |-> bar]

find_device(wanted) ==
  LET hits == {f \in Functions :
                 Seen(f) /\ <<config_read16(f, VENDOR_ID), config_read16(f, DEVICE_ID)>> = wanted}
  IN  IF hits = {} THEN NotFound
      ELSE Described(First(hits), [i \in 0 .. 5 |-> config_read32(First(hits), BAR0 + i * 4)])

\* It adds 4 to the number of a register where find_device multiplies by 4.
find_nic ==
  LET hits == {f \in Functions : Seen(f) /\ class_code(f) = 2 /\ subclass(f) = 0}
  IN  IF hits = {} THEN NotFound
      ELSE Described(First(hits), [i \in 0 .. 5 |-> config_read32(First(hits), BAR0 + (i + 4))])

PciInit == space \in Spaces /\ found = NotFound /\ phase = "boot"

\* kernel_main looks for the card and e1000_init makes it bus master;
\* find_device is the other way to look.
Find ==
  /\ phase = "boot" /\ UNCHANGED space
  /\ \/ found' = find_nic /\ phase' = "nic"
     \/ \E w \in Wanted : found' = find_device(w) /\ phase' = "device"
Master ==
  /\ phase \in {"nic", "device"} /\ found # NotFound
  /\ enable_bus_mastering(found.fn) /\ phase' = "master" /\ UNCHANGED found

PciNext == Find \/ Master
PciSpec == PciInit /\ [][PciNext]_pcivars
-----------------------------------------------------------------------------
\* What a search has found is in configuration space as it says: the halves
\* of the words are told apart, an absent function is not taken for a device,
\* nothing that comes earlier on the bus fits, and find_device has every BAR
\* at its place. (Not so find_nic: its bar[0] to bar[3] are all BAR1.)
FoundIsThere ==
  LET Fits(f) == space[f] # Absent /\ IF phase = "nic" THEN space[f][3][2] = 512
                                      ELSE space[f][1] = <<found.vendor_id, found.device_id>>
  IN  /\ phase = "nic" /\ found = NotFound => \A f \in Functions : ~Fits(f)
      /\ phase \in {"nic", "device"} /\ found # NotFound =>
           /\ Fits(found.fn) /\ \A f \in Functions : Before(f, found.fn) => ~Fits(f)
           /\ space[found.fn][1] = <<found.vendor_id, found.device_id>>
           /\ phase = "device" => \A i \in 0 .. 5 : found.bar[i] = space[found.fn][5 + i]
=============================================================================
