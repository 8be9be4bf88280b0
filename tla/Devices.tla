------------------------------ MODULE Devices ------------------------------
(***************************************************************************)
(* The devices the kernel polls: the disk (Ide), and the network card,     *)
(* from the search on the bus (Pci) to its rings (E1000). The kernel is in *)
(* one driver at a time and the drivers share no state, so each device is  *)
(* followed by itself.                                                     *)
(***************************************************************************)
EXTENDS Ide, E1000, Pci

VARIABLE device

devicevars == <<idevars, nicvars, pcivars, device>>

Others(d) ==
  /\ device = d
  /\ UNCHANGED device
  /\ d # "disk" => UNCHANGED idevars
  /\ d # "card" => UNCHANGED nicvars
  /\ d # "bus" => UNCHANGED pcivars

DevicesInit ==
  /\ device \in {"disk", "card", "bus"}
  /\ IdeInit /\ NicInit /\ PciInit
  /\ device = "bus" \/ space = CHOOSE s \in Spaces : TRUE

Disk == Others("disk") /\ IdeNext
Card == Others("card") /\ NicNext
Bus == Others("bus") /\ PciNext

DevicesNext == Disk \/ Card \/ Bus

\* The processor goes on with the call it is in and the card with its ring.
\* The disk need not answer.
DevicesSpec ==
  /\ DevicesInit /\ [][DevicesNext]_devicevars
  /\ WF_devicevars(Others("disk") /\ Driver)
  /\ WF_devicevars(Others("card") /\ (Sending \/ Receiving))
  /\ WF_devicevars(Others("card") /\ Transmit)
-----------------------------------------------------------------------------
\* Every call of the disk driver returns, even if the disk never answers.
DiskCallsReturn == (device = "disk" /\ pc # "idle") ~> pc = "idle"
=============================================================================
