----------------------------- MODULE MCKeyboard -----------------------------
(* Either somebody types on all kinds of keys and nobody reads, or a       *)
(* program reads and two character keys are in use. The typist begins with *)
(* one key until the ring is full, so that the decoder, which does not     *)
(* look at the ring, is followed with one content of it.                   *)
EXTENDS Keyboard

VARIABLE use     \* "filling", "typing" or "reading"

ManyKeys == {"a", "one", "arrow", "lshift", "rshift", "caps"}
TwoKeys == {"a", "one"}

Filled == use = "filling" /\ NextSlot(head) = tail /\ line = <<>> /\ down = {}

\* While a program reads, at most two bytes wait in the controller.
MCNext ==
  \/ Filled /\ use' = "typing" /\ UNCHANGED vars
  \/ /\ UNCHANGED use
     /\ \/ use = "filling" /\ TypingNext /\ down' \subseteq {"a"}
        \/ use = "typing" /\ TypingNext
        \/ use = "reading" /\ Next /\ down' \subseteq TwoKeys /\ Len(line') <= 2

MCInit == Init /\ use \in {"filling", "reading"}

MCSpec == MCInit /\ [][MCNext]_<<vars, use>> /\ Fairness
=============================================================================
