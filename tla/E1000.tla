------------------------------- MODULE E1000 -------------------------------
(***************************************************************************)
(* The network driver of drivers/nic/e1000.c: its rings of descriptors, in *)
(* memory the card reads and writes too, and the head and tail registers.  *)
(* e1000_send and e1000_receive take one step per access that the card can *)
(* see; the card, which is external, takes its own steps in between.       *)
(*                                                                         *)
(* The registers are those of the card, as they are if bar[0] holds its    *)
(* BAR0 (find_device of drivers/pci/pci.c; not find_nic, see module Pci).  *)
(***************************************************************************)
EXTENDS Integers, Sequences, FiniteSets

CONSTANTS
  NumTx, NumRx,  \* NUM_TX_DESC, NUM_RX_DESC
  Packets        \* contents of packets

VARIABLES
  tx,            \* tx_desc and tx_buffers: index -> [dd, data]
  tx_index, tdh, tdt,
  rx, rx_index, rdh, rdt,
  at,            \* where e1000_send or e1000_receive is
  arg,           \* the packet to send, or the caller's buffer
  wire,          \* the last packet the card has sent
  got            \* the last packet e1000_receive has given its caller

txvars == <<tx, tx_index, tdh, tdt, wire>>
rxvars == <<rx, rx_index, rdh, rdt, got>>
nicvars == <<txvars, rxvars, at, arg>>

Empty == 0       \* no packet

ASSUME E1000Assumption == NumTx \in Nat \ {0, 1} /\ NumRx \in Nat \ {0, 1} /\ Empty \notin Packets

TxIds == 0 .. NumTx - 1
RxIds == 0 .. NumRx - 1
TxNext(i) == (i + 1) % NumTx
RxNext(i) == (i + 1) % NumRx
-----------------------------------------------------------------------------
(* e1000_send.                                                             *)

\* A packet of length 0 or of more than PACKET_SIZE is refused before this.
send_check(p) ==
  /\ at = "idle" /\ arg' = p
  /\ at' = IF tx[tx_index].dd THEN "tx_fill" ELSE "idle"
  /\ UNCHANGED <<txvars, rxvars>>

send_fill ==
  /\ at = "tx_fill" /\ at' = "tx_status"
  /\ tx' = [tx EXCEPT ![tx_index].data = arg]
  /\ UNCHANGED <<tx_index, tdh, tdt, wire, rxvars, arg>>

send_status ==
  /\ at = "tx_status" /\ at' = "tx_tail"
  /\ tx' = [tx EXCEPT ![tx_index].dd = FALSE]
  /\ UNCHANGED <<tx_index, tdh, tdt, wire, rxvars, arg>>

\* Mutant: the tail stays at the descriptor just filled.
send_tail_Own ==
  /\ at = "tx_tail" /\ at' = "tx_index"
  /\ tdt' = tx_index
  /\ UNCHANGED <<tx, tx_index, tdh, wire, rxvars, arg>>

\* From here on the card may send the packet.
send_tail ==
  /\ at = "tx_tail" /\ at' = "tx_index"
  /\ tdt' = TxNext(tx_index)
  /\ UNCHANGED <<tx, tx_index, tdh, wire, rxvars, arg>>

send_index ==
  /\ at = "tx_index" /\ at' = "idle" /\ tx_index' = TxNext(tx_index)
  /\ UNCHANGED <<tx, tdh, tdt, wire, rxvars, arg>>

\* The card takes head and tail that are equal for an empty ring.
Transmit ==
  /\ tdh # tdt
  /\ wire' = tx[tdh].data /\ tx' = [tx EXCEPT ![tdh].dd = TRUE] /\ tdh' = TxNext(tdh)
  /\ UNCHANGED <<tx_index, tdt, rxvars, at, arg>>
-----------------------------------------------------------------------------
(* e1000_receive.                                                          *)

receive_check ==
  /\ at = "idle"
  /\ at' = IF rx[rx_index].dd THEN "rx_copy" ELSE "idle"
  /\ UNCHANGED <<txvars, rxvars, arg>>

\* The whole packet: e1000.c:209-211 cuts one that is longer than the caller's
\* buffer, and the only caller (kernel.c:116) passes 2048 bytes, which hold
\* every packet of a receive buffer.
receive_copy ==
  /\ at = "rx_copy" /\ at' = "rx_status" /\ arg' = rx[rx_index].data
  /\ UNCHANGED <<txvars, rxvars>>

receive_status ==
  /\ at = "rx_status" /\ at' = "rx_tail"
  /\ rx' = [rx EXCEPT ![rx_index].dd = FALSE]
  /\ UNCHANGED <<txvars, rx_index, rdh, rdt, got, arg>>

\* Mutant: hands over the descriptor behind the one that was read.
receive_tail_Next ==
  /\ at = "rx_tail" /\ at' = "rx_index"
  /\ rdt' = RxNext(rx_index) /\ got' = arg
  /\ UNCHANGED <<txvars, rx, rx_index, rdh, arg>>

\* The descriptor goes back to the card.
receive_tail ==
  /\ at = "rx_tail" /\ at' = "rx_index"
  /\ rdt' = rx_index /\ got' = arg
  /\ UNCHANGED <<txvars, rx, rx_index, rdh, arg>>

receive_index ==
  /\ at = "rx_index" /\ at' = "idle" /\ rx_index' = RxNext(rx_index)
  /\ UNCHANGED <<txvars, rx, rdh, rdt, got, arg>>

\* A packet arrives; without a descriptor of its own the card drops it.
Arrive(p) ==
  /\ IF rdh = rdt THEN UNCHANGED <<rx, rdh>>
     ELSE rx' = [rx EXCEPT ![rdh] = [dd |-> TRUE, data |-> p]] /\ rdh' = RxNext(rdh)
  /\ UNCHANGED <<txvars, rx_index, rdt, got, at, arg>>
-----------------------------------------------------------------------------
\* setup_tx and setup_rx.
setup_tx ==
  /\ tx = [i \in TxIds |-> [dd |-> TRUE, data |-> Empty]]
  /\ tx_index = 0 /\ tdh = 0 /\ tdt = 0 /\ wire = Empty
setup_rx ==
  /\ rx = [i \in RxIds |-> [dd |-> FALSE, data |-> Empty]]
  /\ rx_index = 0 /\ rdh = 0 /\ rdt = NumRx - 1 /\ got = Empty
NicInit == setup_tx /\ setup_rx /\ at = "idle" /\ arg = Empty

Sending == send_fill \/ send_status \/ send_tail \/ send_index
Receiving == receive_copy \/ receive_status \/ receive_tail \/ receive_index
NicNext ==
  \/ \E p \in Packets : send_check(p) \/ Arrive(p)
  \/ receive_check \/ Sending \/ Receiving \/ Transmit

\* The processor goes on with a call and the card with its ring; nobody need
\* send, poll or be sent anything.
NicSpec == NicInit /\ [][NicNext]_nicvars /\ WF_nicvars(Sending \/ Receiving) /\ WF_nicvars(Transmit)
-----------------------------------------------------------------------------
(* The packets that wait, first to last.                                   *)

Outstanding == Cardinality({i \in TxIds : ~tx[i].dd}) - (IF at = "tx_tail" THEN 1 ELSE 0)
TxQueue == [k \in 1 .. Outstanding |-> tx[(tdh + k - 1) % NumTx].data]

FirstRx == IF at = "rx_index" THEN RxNext(rx_index) ELSE rx_index
RxQueue == [k \in 1 .. (rdh - FirstRx) % NumRx |-> rx[(FirstRx + k - 1) % NumRx].data]

TxFifo == INSTANCE KeyQueue WITH Capacity <- NumTx, Chars <- Packets, q <- TxQueue, out <- wire
RxFifo == INSTANCE KeyQueue WITH Capacity <- NumRx - 1, Chars <- Packets, q <- RxQueue, out <- got

\* Both rings are bounded queues: a packet that e1000_send has accepted, or
\* that the card has found a descriptor for, is passed on once, unaltered and
\* in order, wherever the card's steps fall between those of the driver.
ImplementsQueues == TxFifo!Spec /\ RxFifo!Spec

\* A packet in the ring is sent, unless all descriptors were outstanding at
\* once: then tail and head are equal, which the card takes for an empty
\* ring, and no e1000_send gets past its test of DD ever again.
Wedged == Outstanding = NumTx
HeadAdvances == \A h \in TxIds : (TxQueue # <<>> /\ tdh = h) ~> (tdh # h \/ Wedged)
=============================================================================
