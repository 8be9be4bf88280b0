------------------------------ MODULE Keyboard ------------------------------
(***************************************************************************)
(* The keyboard driver (drivers/keyboard/keyboard.c) and its only reader,  *)
(* the SYS_GETC system call (kernel/syscall.c).                            *)
(*                                                                         *)
(* Two actors share the ring buf/head/tail: the IRQ1 handler, which runs   *)
(* to completion wherever interrupts are enabled, and getchar, whose       *)
(* machine-level steps (test, hlt, load, store) it may interrupt. The      *)
(* keyboard itself is external: keys go down and up and put the scancode   *)
(* set 1 bytes of a PS/2 keyboard on the line (no key that sends a fake    *)
(* shift, E0 2A or E0 AA, is among them).                                  *)
(***************************************************************************)
EXTENDS Integers, Sequences

CONSTANTS
  BUFSIZE,   \* slots of the ring
  Keys,      \* the keys of this keyboard, names in DOMAIN Layout
  LineMax    \* bound: bytes waiting in the keyboard controller

VARIABLES
  buf, head, tail,    \* the ring
  e0, shift, caps,    \* decoder state
  pc,                 \* where the reader is
  c,                  \* getchar's local: the character loaded
  rax,                \* the result of the last SYS_GETC
  down,               \* keys held down
  capsLed,            \* parity of the presses of caps lock
  plain,              \* no key sequence yet outside what the decoder covers
  line                \* [sc, want]: bytes not read yet, and the character
                      \* the user meant with that byte (0: none)

ring == <<buf, head, tail>>
decoder == <<e0, shift, caps>>
reader == <<pc, c, rax>>
keyboard == <<down, capsLed, plain, line>>
vars == <<ring, decoder, reader, keyboard>>
-----------------------------------------------------------------------------
(***************************************************************************)
(* External: the keyboard. Make and break bytes, and the characters the    *)
(* key stands for without and with shift.                                  *)
(***************************************************************************)
Layout ==
  [ a      |-> [make |-> <<30>>,        break |-> <<158>>,       lo |-> 97,  up |-> 65],
    one    |-> [make |-> <<2>>,         break |-> <<130>>,       lo |-> 49,  up |-> 33],
    arrow  |-> [make |-> <<224, 72>>,   break |-> <<224, 200>>,  lo |-> 128, up |-> 128],
    lshift |-> [make |-> <<42>>,        break |-> <<170>>,       lo |-> 0,   up |-> 0],
    rshift |-> [make |-> <<54>>,        break |-> <<182>>,       lo |-> 0,   up |-> 0],
    caps   |-> [make |-> <<58>>,        break |-> <<186>>,       lo |-> 0,   up |-> 0] ]

Shifts == {"lshift", "rshift"}

ASSUME KeyboardAssumption ==
  /\ BUFSIZE \in Nat /\ BUFSIZE >= 2
  /\ Keys \subseteq DOMAIN Layout
  /\ LineMax \in Nat

\* The character a user means by pressing k: shift selects the upper symbol,
\* and caps lock turns it round for a letter.
Meant(k) ==
  LET shifted == (down \cap Shifts # {}) # (k = "a" /\ capsLed)
  IN  IF shifted THEN Layout[k].up ELSE Layout[k].lo

\* The bytes of a key event; only the last one stands for a character.
Bytes(codes, want) ==
  [i \in 1 .. Len(codes) |-> [sc |-> codes[i], want |-> IF i = Len(codes) THEN want ELSE 0]]

\* A press, or the automatic repeat of a key that is held.
KeyDown(k) ==
  /\ Len(line) + Len(Layout[k].make) <= LineMax
  /\ line' = line \o Bytes(Layout[k].make, Meant(k))
  /\ down' = down \cup {k}
  /\ capsLed' = (capsLed # (k = "caps" /\ k \notin down))
  /\ plain' = /\ plain
              /\ ~(k = "caps" /\ k \in down)
              /\ ~(k \in Shifts /\ down \cap (Shifts \ {k}) # {})
  /\ UNCHANGED <<ring, decoder, reader>>

KeyUp(k) ==
  /\ k \in down
  /\ Len(line) + Len(Layout[k].break) <= LineMax
  /\ line' = line \o Bytes(Layout[k].break, 0)
  /\ down' = down \ {k}
  /\ UNCHANGED <<ring, decoder, reader, capsLed, plain>>
-----------------------------------------------------------------------------
(***************************************************************************)
(* kbd_decode: the character (0: none) and the decoder's next state.       *)
(***************************************************************************)
\* kbd_map and shift_map, from scancode 1 on, as character codes.
kbd_map ==
  << 27, 49, 50, 51, 52, 53, 54, 55, 56, 57, 48, 45, 61, 8, 9,
     113, 119, 101, 114, 116, 121, 117, 105, 111, 112, 91, 93, 10, 0,
     97, 115, 100, 102, 103, 104, 106, 107, 108, 59, 39, 96, 0, 92,
     122, 120, 99, 118, 98, 110, 109, 44, 46, 47, 0, 42, 0, 32 >>
shift_map ==
  << 27, 33, 64, 35, 36, 37, 94, 38, 42, 40, 41, 95, 43, 8, 9,
     81, 87, 69, 82, 84, 89, 85, 73, 79, 80, 123, 125, 10, 0,
     65, 83, 68, 70, 71, 72, 74, 75, 76, 58, 34, 126, 0, 124,
     90, 88, 67, 86, 66, 78, 77, 60, 62, 63, 0, 42, 0, 32 >>
Lookup(table, sc) == IF sc \in DOMAIN table THEN table[sc] ELSE 0

\* KEY_UP, KEY_DOWN, KEY_LEFT, KEY_RIGHT, KEY_DEL by their scancodes.
Extended ==
  [sc \in {72, 80, 75, 77, 83} |->
     CASE sc = 72 -> 128 [] sc = 80 -> 129 [] sc = 75 -> 130 [] sc = 77 -> 131 [] sc = 83 -> 132]

\* The statics of the decoder.
Modes == [e0 : BOOLEAN, shift : BOOLEAN, caps : BOOLEAN]
mode == [e0 |-> e0, shift |-> shift, caps |-> caps]

\* Mutant: caps lock acts on every key of the table.
Symbol_CapsEverywhere(m, sc) ==
  IF m.shift # m.caps THEN Lookup(shift_map, sc) ELSE Lookup(kbd_map, sc)

\* The table part of kbd_decode: shift and caps cancel out on a letter.
Symbol(m, sc) ==
  LET base == Lookup(kbd_map, sc)
  IN  IF base = 0 THEN 0
      ELSE IF base \in 97 .. 122 THEN (IF m.shift # m.caps THEN base - 32 ELSE base)
      ELSE IF m.shift THEN shift_map[sc] ELSE base

\* What is decoded from sc in mode m, and the mode after it.
Decoded(m, sc) ==
  IF sc \in {42, 54, 58} \/ sc >= 128 THEN 0
  ELSE IF m.e0 THEN (IF sc \in DOMAIN Extended THEN Extended[sc] ELSE 0)
  ELSE Symbol(m, sc)
ModeAfter(m, sc) ==
  CASE sc = 224 -> [m EXCEPT !.e0 = TRUE]
    [] sc \in {42, 54} -> [m EXCEPT !.shift = TRUE]
    [] sc \in {170, 182} -> [m EXCEPT !.shift = FALSE]
    [] sc = 58 -> [m EXCEPT !.caps = ~@]
    [] OTHER -> [m EXCEPT !.e0 = FALSE]

kbd_decode(sc) == [c |-> Decoded(mode, sc), mode |-> ModeAfter(mode, sc)]
-----------------------------------------------------------------------------
(***************************************************************************)
(* The interrupt handler, one step: interrupts stay off until iretq.       *)
(***************************************************************************)
NextSlot(i) == (i + 1) % BUFSIZE

\* Mutant: stores without looking whether the ring is full.
push_Unchecked(ch) ==
  /\ buf' = [buf EXCEPT ![head] = ch]
  /\ head' = NextSlot(head)

push(ch) ==
  IF NextSlot(head) = tail THEN UNCHANGED <<buf, head>>
  ELSE /\ buf' = [buf EXCEPT ![head] = ch]
       /\ head' = NextSlot(head)

\* Interrupts are enabled in user mode and, through the sti of SYS_GETC, in
\* getchar; every other system call runs with them masked.
InterruptsOn == pc # "masked"

keyboard_handler ==
  /\ InterruptsOn
  /\ line # <<>>
  /\ LET d == kbd_decode(Head(line).sc)
     IN  /\ e0' = d.mode.e0 /\ shift' = d.mode.shift /\ caps' = d.mode.caps
         /\ IF d.c = 0 THEN UNCHANGED <<buf, head>> ELSE push(d.c)
  /\ line' = Tail(line)
  /\ pc' = IF pc = "halted" THEN "test" ELSE pc   \* hlt ends, the loop tests again
  /\ UNCHANGED <<tail, c, rax, down, capsLed, plain>>
-----------------------------------------------------------------------------
(***************************************************************************)
(* The reader: SYS_GETC and getchar.                                       *)
(***************************************************************************)
Goto(from, to) == pc = from /\ pc' = to

\* SYS_GETC enters and executes sti.
sys_getc == Goto("user", "test") /\ UNCHANGED <<ring, decoder, c, rax, keyboard>>

\* Any other system call, with interrupts masked from entry to sysret.
sys_other == Goto("user", "masked") /\ UNCHANGED <<ring, decoder, c, rax, keyboard>>
sysret == Goto("masked", "user") /\ UNCHANGED <<ring, decoder, c, rax, keyboard>>

\* Mutant: takes a wrapped ring for an empty one.
Empty_Wrapped == head <= tail

Empty == tail = head

\* The loop test of getchar; between it and hlt the handler may run.
getchar_test ==
  /\ \/ Empty /\ Goto("test", "hlt")
     \/ ~Empty /\ Goto("test", "load")
  /\ UNCHANGED <<ring, decoder, c, rax, keyboard>>

getchar_hlt == Goto("hlt", "halted") /\ UNCHANGED <<ring, decoder, c, rax, keyboard>>

getchar_load ==
  /\ Goto("load", "store")
  /\ c' = buf[tail]
  /\ UNCHANGED <<ring, decoder, rax, keyboard>>

getchar_store ==
  /\ Goto("store", "cli")
  /\ tail' = NextSlot(tail)
  /\ UNCHANGED <<buf, head, decoder, c, rax, keyboard>>

\* SYS_GETC executes cli, sets rax and returns to the program.
sys_getc_return ==
  /\ Goto("cli", "masked")
  /\ rax' = c
  /\ UNCHANGED <<ring, decoder, c, keyboard>>

getchar == getchar_test \/ getchar_hlt \/ getchar_load \/ getchar_store
-----------------------------------------------------------------------------
Init ==
  /\ buf = [i \in 0 .. BUFSIZE - 1 |-> 0] /\ head = 0 /\ tail = 0
  /\ e0 = FALSE /\ shift = FALSE /\ caps = FALSE
  /\ pc = "user" /\ c = 0 /\ rax = 0
  /\ down = {} /\ capsLed = FALSE /\ plain = TRUE /\ line = <<>>

Next ==
  \/ \E k \in Keys : KeyDown(k) \/ KeyUp(k)
  \/ keyboard_handler
  \/ sys_getc \/ sys_other \/ sysret
  \/ getchar \/ sys_getc_return

Spec == Init /\ [][Next]_vars

\* The decoder alone: nobody reads, so the ring fills and stays full, while
\* system calls mask the interrupts now and then.
TypingNext ==
  \/ \E k \in Keys : KeyDown(k) \/ KeyUp(k)
  \/ keyboard_handler
  \/ sys_other \/ sysret

\* The processor executes the instructions of a system call, and the
\* interrupt controller delivers a pending interrupt once they are enabled.
\* Neither the user nor the programs are assumed to do anything.
Fairness ==
  /\ WF_vars(keyboard_handler)
  /\ WF_vars(getchar \/ sys_getc_return \/ sysret)
FairSpec == Spec /\ Fairness
-----------------------------------------------------------------------------
Chars == 0 .. 255

TypeOK ==
  /\ buf \in [0 .. BUFSIZE - 1 -> Chars]
  /\ head \in 0 .. BUFSIZE - 1 /\ tail \in 0 .. BUFSIZE - 1
  /\ e0 \in BOOLEAN /\ shift \in BOOLEAN /\ caps \in BOOLEAN
  /\ pc \in {"user", "masked", "test", "hlt", "halted", "load", "store", "cli"}
  /\ c \in Chars /\ rax \in Chars
  /\ down \subseteq Keys /\ capsLed \in BOOLEAN /\ plain \in BOOLEAN
  /\ line \in Seq([sc : Chars, want : Chars]) /\ Len(line) <= LineMax

\* As long as the user holds at most one shift key and does not let caps lock
\* repeat, the handler pushes for each byte
\* exactly the character the user meant when the key went down: kbd_decode's
\* e0, shift and caps follow the keyboard whatever is queued in between.
DecodesWhatWasMeant ==
  [][keyboard_handler /\ plain => kbd_decode(Head(line).sc).c = Head(line).want]_vars

\* The characters in the ring, oldest first.
Contents ==
  LET n == (head - tail + BUFSIZE) % BUFSIZE
  IN  [i \in 1 .. n |-> buf[(tail + i - 1) % BUFSIZE]]

\* The driver implements the bounded FIFO: a read takes effect when getchar
\* moves tail, its result being c until SYS_GETC has put it into rax. (And
\* head and tail stay inside the array.)
Queue == INSTANCE KeyQueue WITH
           Capacity <- BUFSIZE - 1,
           Chars <- Chars \ {0},
           q <- Contents,
           out <- IF pc = "cli" THEN c ELSE rax
ImplementsKeyQueue == []TypeOK /\ Queue!Spec

\* A reader inside SYS_GETC.
Waiting == pc \in {"test", "hlt", "halted"}

\* If interrupts keep coming, a waiting reader with a character in the ring
\* returns. (Without further interrupts it need not: a key that arrives
\* between the loop test and hlt leaves the reader halted.)
ServedWhileTyping ==
  []<><<keyboard_handler>>_vars => (Waiting /\ ~Empty ~> pc = "cli")
=============================================================================
