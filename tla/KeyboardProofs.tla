--------------------------- MODULE KeyboardProofs ---------------------------
(***************************************************************************)
(* Proofs about the keyboard driver, for every size of the ring and every  *)
(* set of keys of the layout.                                              *)
(***************************************************************************)
EXTENDS Keyboard, SequenceTheorems, TLAPS

-----------------------------------------------------------------------------
(* Arithmetic of the ring.                                                 *)

\* The remainders the ring's indices are made with.
LEMMA ModFacts ==
  ASSUME NEW a \in Int, NEW b \in Nat, b > 0
  PROVE  /\ a >= 0 /\ a < b => a % b = a
         /\ a >= b /\ a < 2 * b => a % b = a - b
  OBVIOUS

\* NextSlot stays in the ring and goes back to 0 behind the last slot.
LEMMA NextSlotFacts ==
  ASSUME NEW i \in 0 .. BUFSIZE - 1
  PROVE  /\ NextSlot(i) \in 0 .. BUFSIZE - 1
         /\ NextSlot(i) = IF i + 1 = BUFSIZE THEN 0 ELSE i + 1
  <1>1. BUFSIZE \in Nat /\ BUFSIZE > 0 /\ i + 1 \in Int
    BY KeyboardAssumption
  <1>2. /\ i + 1 < BUFSIZE => (i + 1) % BUFSIZE = i + 1
        /\ i + 1 = BUFSIZE => (i + 1) % BUFSIZE = 0
    BY <1>1, ModFacts
  <1>3. QED
    BY <1>1, <1>2 DEF NextSlot
-----------------------------------------------------------------------------
(* The layout and the decoder.                                             *)

\* The scancodes of the layout's keys, key by key.
LEMMA LayoutCodes ==
  /\ DOMAIN Layout = {"a", "one", "arrow", "lshift", "rshift", "caps"}
  /\ Layout["a"].make = <<30>> /\ Layout["a"].break = <<158>>
  /\ Layout["one"].make = <<2>> /\ Layout["one"].break = <<130>>
  /\ Layout["arrow"].make = <<224, 72>> /\ Layout["arrow"].break = <<224, 200>>
  /\ Layout["lshift"].make = <<42>> /\ Layout["lshift"].break = <<170>>
  /\ Layout["rshift"].make = <<54>> /\ Layout["rshift"].break = <<182>>
  /\ Layout["caps"].make = <<58>> /\ Layout["caps"].break = <<186>>
  BY DEF Layout

\* The characters they stand for.
LEMMA LayoutChars ==
  /\ Layout["a"].lo = 97 /\ Layout["a"].up = 65
  /\ Layout["one"].lo = 49 /\ Layout["one"].up = 33
  /\ Layout["arrow"].lo = 128 /\ Layout["arrow"].up = 128
  /\ \A k \in {"lshift", "rshift", "caps"} : Layout[k].lo = 0 /\ Layout[k].up = 0
  BY DEF Layout

\* The entries of the tables that the layout's keys select.
LEMMA TableEntries ==
  /\ DOMAIN kbd_map = 1 .. 57
  /\ kbd_map[30] = 97 /\ kbd_map[2] = 49 /\ shift_map[2] = 33
  BY DEF kbd_map, shift_map
LEMMA TableTypes ==
  /\ \A i \in 1 .. 57 : kbd_map[i] \in Chars
  /\ \A i \in 1 .. 57 : shift_map[i] \in Chars
  BY DEF kbd_map, shift_map, Chars
LEMMA ExtendedFacts ==
  /\ DOMAIN Extended = {72, 80, 75, 77, 83}
  /\ Extended[72] = 128
  /\ \A sc \in {72, 80, 75, 77, 83} : Extended[sc] \in Chars
  BY DEF Extended, Chars

\* kbd_decode returns a character code and sets its statics to truth values.
LEMMA DecodeTypes ==
  ASSUME NEW m \in Modes, NEW sc \in Chars
  PROVE  Decoded(m, sc) \in Chars /\ ModeAfter(m, sc) \in Modes
  <1>1. ModeAfter(m, sc) \in Modes
    <2>1. /\ [m EXCEPT !.e0 = TRUE] \in Modes /\ [m EXCEPT !.e0 = FALSE] \in Modes
          /\ [m EXCEPT !.shift = TRUE] \in Modes /\ [m EXCEPT !.shift = FALSE] \in Modes
          /\ [m EXCEPT !.caps = ~@] \in Modes
      BY Zenon DEF Modes
    <2>2. QED
      BY <2>1 DEF ModeAfter
  <1>2. Lookup(kbd_map, sc) \in Chars
    <2>1. sc \in 1 .. 57 => kbd_map[sc] \in Chars
      BY TableTypes, Zenon
    <2>2. 0 \in Chars
      BY DEF Chars
    <2>3. QED
      BY <2>1, <2>2, TableEntries, Zenon DEF Lookup
  <1>3. Symbol(m, sc) \in Chars
    <2>1. Lookup(kbd_map, sc) # 0 => shift_map[sc] \in Chars
      BY TableEntries, TableTypes DEF Lookup
    <2>2. Lookup(kbd_map, sc) \in 97 .. 122 => Lookup(kbd_map, sc) - 32 \in Chars
      BY DEF Chars
    <2>3. 0 \in Chars
      BY DEF Chars
    <2>4. QED
      BY <1>2, <2>1, <2>2, <2>3 DEF Symbol
  <1>4. Decoded(m, sc) \in Chars
    BY <1>3, ExtendedFacts DEF Decoded, Chars
  <1>5. QED
    BY <1>1, <1>4

Byte == [sc : Chars, want : Chars]

\* The bytes of a key event, one by one.
LEMMA BytesFacts ==
  ASSUME NEW codes \in Seq(Chars), NEW want \in Chars
  PROVE  /\ Bytes(codes, want) \in Seq(Byte)
         /\ Len(Bytes(codes, want)) = Len(codes)
         /\ \A i \in 1 .. Len(codes) :
              /\ Bytes(codes, want)[i].sc = codes[i]
              /\ Bytes(codes, want)[i].want = IF i = Len(codes) THEN want ELSE 0
  <1>1. Len(codes) \in Nat /\ \A i \in 1 .. Len(codes) : codes[i] \in Chars
    OBVIOUS
  <1>2. 0 \in Chars
    BY DEF Chars
  <1>3. \A i \in 1 .. Len(codes) :
          [sc |-> codes[i], want |-> IF i = Len(codes) THEN want ELSE 0] \in Byte
    BY <1>1, <1>2 DEF Byte
  <1>4. Bytes(codes, want) \in Seq(Byte) /\ Len(Bytes(codes, want)) = Len(codes)
    BY <1>1, <1>3, IsASeq DEF Bytes
  <1>5. QED
    BY <1>4 DEF Bytes

\* Every key of the layout sends bytes and stands for character codes.
LEMMA KeyTypes ==
  ASSUME NEW k \in Keys
  PROVE  /\ Layout[k].make \in Seq(Chars) /\ Layout[k].break \in Seq(Chars)
         /\ Meant(k) \in Chars
  <1>1. k \in {"a", "one", "arrow", "lshift", "rshift", "caps"}
    BY LayoutCodes, KeyboardAssumption
  <1>2. Layout[k].make \in Seq(Chars) /\ Layout[k].break \in Seq(Chars)
    <2>1. {30, 158, 2, 130, 224, 72, 200, 42, 170, 54, 182, 58, 186} \subseteq Chars
      BY DEF Chars
    <2>2. ASSUME NEW x \in Chars
          PROVE  <<x>> \in Seq(Chars)
      OBVIOUS
    <2>3. ASSUME NEW x \in Chars, NEW y \in Chars
          PROVE  <<x, y>> \in Seq(Chars)
      OBVIOUS
    <2>4. CASE k = "arrow"
      BY <2>1, <2>3, <2>4, LayoutCodes
    <2>5. CASE k = "a"
      BY <2>1, <2>2, <2>5, LayoutCodes
    <2>6. CASE k = "one"
      BY <2>1, <2>2, <2>6, LayoutCodes
    <2>7. CASE k = "lshift"
      BY <2>1, <2>2, <2>7, LayoutCodes
    <2>8. CASE k = "rshift"
      BY <2>1, <2>2, <2>8, LayoutCodes
    <2>9. CASE k = "caps"
      BY <2>1, <2>2, <2>9, LayoutCodes
    <2>10. QED
      BY <1>1, <2>4, <2>5, <2>6, <2>7, <2>8, <2>9
  <1>3. Layout[k].lo \in Chars /\ Layout[k].up \in Chars
    BY <1>1, LayoutChars DEF Chars
  <1>4. QED
    BY <1>2, <1>3 DEF Meant
-----------------------------------------------------------------------------
(* Type correctness.                                                       *)

LEMMA InitTypeOK == Init => TypeOK
  <1> SUFFICES ASSUME Init
               PROVE  TypeOK
    OBVIOUS
  <1>1. /\ 0 \in 0 .. BUFSIZE - 1 /\ 0 \in Chars
        /\ <<>> \in Seq([sc : Chars, want : Chars]) /\ Len(<<>>) <= LineMax
    BY KeyboardAssumption DEF Chars
  <1>2. buf \in [0 .. BUFSIZE - 1 -> Chars]
    BY <1>1 DEF Init
  <1>3. QED
    BY <1>1, <1>2, Zenon DEF Init, TypeOK

\* The handler decodes a byte in a mode, to a character and a mode.
LEMMA HandlerTypes ==
  ASSUME TypeOK, line # <<>>
  PROVE  /\ Head(line) \in Byte /\ mode \in Modes
         /\ kbd_decode(Head(line).sc).c \in Chars
         /\ kbd_decode(Head(line).sc).mode \in Modes
  <1>1. line \in Seq(Byte)
    BY DEF TypeOK, Byte
  <1>2. Head(line) \in Byte
    BY <1>1
  <1>3. mode \in Modes /\ Head(line).sc \in Chars
    BY <1>2 DEF TypeOK, mode, Modes, Byte
  <1>4. QED
    BY <1>2, <1>3, DecodeTypes DEF kbd_decode

LEMMA NextTypeOK == TypeOK /\ [Next]_vars => TypeOK'
  <1> SUFFICES ASSUME TypeOK, [Next]_vars
               PROVE  TypeOK'
    OBVIOUS
  <1>0. line \in Seq(Byte)
    BY DEF TypeOK, Byte
  <1>1. ASSUME NEW k \in Keys, KeyDown(k)
        PROVE  TypeOK'
    <2>1. /\ Bytes(Layout[k].make, Meant(k)) \in Seq(Byte)
          /\ Len(Bytes(Layout[k].make, Meant(k))) = Len(Layout[k].make)
      BY KeyTypes, BytesFacts
    <2>2. line' \in Seq(Byte) /\ Len(line') <= LineMax
      BY <1>0, <1>1, <2>1, KeyTypes, KeyboardAssumption DEF KeyDown
    <2>3. down' \subseteq Keys /\ capsLed' \in BOOLEAN /\ plain' \in BOOLEAN
      BY <1>1, Zenon DEF KeyDown, TypeOK
    <2>4. QED
      BY <1>1, <2>2, <2>3, Zenon DEF KeyDown, TypeOK, Byte, ring, decoder, reader
  <1>2. ASSUME NEW k \in Keys, KeyUp(k)
        PROVE  TypeOK'
    <2>0. 0 \in Chars
      BY DEF Chars
    <2>1. /\ Bytes(Layout[k].break, 0) \in Seq(Byte)
          /\ Len(Bytes(Layout[k].break, 0)) = Len(Layout[k].break)
      BY <2>0, KeyTypes, BytesFacts
    <2>2. line' \in Seq(Byte) /\ Len(line') <= LineMax
      BY <1>0, <1>2, <2>1, KeyTypes, KeyboardAssumption DEF KeyUp
    <2>3. down' \subseteq Keys
      BY <1>2, Zenon DEF KeyUp, TypeOK
    <2>4. QED
      BY <1>2, <2>2, <2>3, Zenon DEF KeyUp, TypeOK, Byte, ring, decoder, reader
  <1>3. CASE keyboard_handler
    <2>1. line # <<>> /\ line' = Tail(line)
      BY <1>3 DEF keyboard_handler
    <2>2. line' \in Seq(Byte) /\ Len(line') <= LineMax
      BY <1>0, <2>1, KeyboardAssumption DEF TypeOK
    <2>4. /\ kbd_decode(Head(line).sc).c \in Chars
          /\ kbd_decode(Head(line).sc).mode \in Modes
      BY <2>1, HandlerTypes
    <2>5. e0' \in BOOLEAN /\ shift' \in BOOLEAN /\ caps' \in BOOLEAN
      BY <1>3, <2>4, Zenon DEF keyboard_handler, Modes
    <2>6. buf' \in [0 .. BUFSIZE - 1 -> Chars] /\ head' \in 0 .. BUFSIZE - 1
      BY <1>3, <2>4, NextSlotFacts DEF keyboard_handler, push, TypeOK
    <2>7. pc' \in {"user", "masked", "test", "hlt", "halted", "load", "store", "cli"}
      BY <1>3 DEF keyboard_handler, TypeOK
    <2>8. QED
      BY <1>3, <2>2, <2>5, <2>6, <2>7, Zenon DEF keyboard_handler, TypeOK, Byte
  <1>4. CASE sys_getc \/ sys_other \/ sysret
    BY <1>4, Zenon DEF sys_getc, sys_other, sysret, Goto, TypeOK, ring, decoder, keyboard
  <1>5. CASE getchar_test \/ getchar_hlt
    BY <1>5, Zenon DEF getchar_test, getchar_hlt, Goto, TypeOK, ring, decoder, keyboard
  <1>6. CASE getchar_load
    <2>1. c' \in Chars
      BY <1>6 DEF getchar_load, TypeOK
    <2>2. QED
      BY <1>6, <2>1, Zenon DEF getchar_load, Goto, TypeOK, ring, decoder, keyboard
  <1>7. CASE getchar_store
    <2>1. tail' \in 0 .. BUFSIZE - 1
      BY <1>7, NextSlotFacts DEF getchar_store, TypeOK
    <2>2. QED
      BY <1>7, <2>1, Zenon DEF getchar_store, Goto, TypeOK, decoder, keyboard
  <1>8. CASE sys_getc_return
    BY <1>8, Zenon DEF sys_getc_return, Goto, TypeOK, ring, decoder, keyboard
  <1>9. CASE UNCHANGED vars
    BY <1>9, Zenon DEF vars, ring, decoder, reader, keyboard, TypeOK
  <1>10. QED
    BY <1>1, <1>2, <1>3, <1>4, <1>5, <1>6, <1>7, <1>8, <1>9, Zenon DEF Next, getchar

\* The driver's and the keyboard's variables keep their types: no index ever
\* leaves the ring, and no byte is more than 255.
THEOREM KeyboardTypeCorrect == Spec => []TypeOK
  BY InitTypeOK, NextTypeOK, PTL DEF Spec
-----------------------------------------------------------------------------
(* The ring as a queue.                                                    *)

Slots == 0 .. BUFSIZE - 1
ContentsOf(b, h, t) ==
  [i \in 1 .. (h - t + BUFSIZE) % BUFSIZE |-> b[(t + i - 1) % BUFSIZE]]

\* How many characters wait, and where the i-th of them is.
LEMMA CountFacts ==
  ASSUME NEW h \in Slots, NEW t \in Slots
  PROVE  /\ (h - t + BUFSIZE) % BUFSIZE = IF h >= t THEN h - t ELSE h - t + BUFSIZE
         /\ \A i \in 1 .. BUFSIZE :
              (t + i - 1) % BUFSIZE = IF t + i - 1 < BUFSIZE THEN t + i - 1
                                      ELSE t + i - 1 - BUFSIZE
  <1>0. BUFSIZE \in Nat /\ BUFSIZE > 0 /\ h \in Nat /\ t \in Nat /\ h < BUFSIZE /\ t < BUFSIZE
    BY KeyboardAssumption DEF Slots
  <1>1. (h - t + BUFSIZE) % BUFSIZE = IF h >= t THEN h - t ELSE h - t + BUFSIZE
    <2>1. h - t + BUFSIZE \in Int /\ h - t + BUFSIZE >= 0 /\ h - t + BUFSIZE < 2 * BUFSIZE
      BY <1>0
    <2>2. QED
      BY <1>0, <2>1, ModFacts
  <1>2. ASSUME NEW i \in 1 .. BUFSIZE
        PROVE  (t + i - 1) % BUFSIZE = IF t + i - 1 < BUFSIZE THEN t + i - 1
                                       ELSE t + i - 1 - BUFSIZE
    <2>1. t + i - 1 \in Int /\ t + i - 1 >= 0 /\ t + i - 1 < 2 * BUFSIZE
      BY <1>0
    <2>2. QED
      BY <1>0, <2>1, ModFacts
  <1>3. QED
    BY <1>1, <1>2

\* What waits is a sequence of characters; the ring is full when one slot is left.
LEMMA ContentsFacts ==
  ASSUME NEW b \in [Slots -> Chars], NEW h \in Slots, NEW t \in Slots
  PROVE  /\ ContentsOf(b, h, t) \in Seq(Chars)
         /\ Len(ContentsOf(b, h, t)) = IF h >= t THEN h - t ELSE h - t + BUFSIZE
         /\ NextSlot(h) = t <=> Len(ContentsOf(b, h, t)) = BUFSIZE - 1
         /\ \A i \in 1 .. Len(ContentsOf(b, h, t)) :
              ContentsOf(b, h, t)[i] = b[IF t + i - 1 < BUFSIZE THEN t + i - 1
                                         ELSE t + i - 1 - BUFSIZE]
  <1> DEFINE n == IF h >= t THEN h - t ELSE h - t + BUFSIZE
             slot(i) == IF t + i - 1 < BUFSIZE THEN t + i - 1 ELSE t + i - 1 - BUFSIZE
  <1>0. BUFSIZE \in Nat /\ BUFSIZE >= 2
    BY KeyboardAssumption
  <1>1. n \in 0 .. BUFSIZE - 1
    BY <1>0 DEF Slots
  <1>2. \A i \in 1 .. n : slot(i) \in Slots
    BY <1>0, <1>1 DEF Slots
  <1>3. ContentsOf(b, h, t) = [i \in 1 .. n |-> b[slot(i)]]
    <2>1. (h - t + BUFSIZE) % BUFSIZE = n
      BY CountFacts
    <2>2. \A i \in 1 .. n : (t + i - 1) % BUFSIZE = slot(i)
      <3>1. \A i \in 1 .. BUFSIZE : (t + i - 1) % BUFSIZE = slot(i)
        BY CountFacts
      <3>2. \A i \in 1 .. n : i \in 1 .. BUFSIZE
        BY <1>0, <1>1
      <3>3. QED
        BY <3>1, <3>2
    <2> HIDE DEF n, slot
    <2>3. QED
      BY <2>1, <2>2 DEF ContentsOf
  <1>4. ContentsOf(b, h, t) \in Seq(Chars) /\ Len(ContentsOf(b, h, t)) = n
    BY <1>1, <1>2, <1>3, IsASeq
  <1>5. NextSlot(h) = t <=> n = BUFSIZE - 1
    BY <1>0, NextSlotFacts DEF Slots
  <1>6. \A i \in 1 .. n : ContentsOf(b, h, t)[i] = b[slot(i)]
    BY <1>3
  <1> HIDE DEF n
  <1>7. \A i \in 1 .. Len(ContentsOf(b, h, t)) : ContentsOf(b, h, t)[i] = b[slot(i)]
    BY <1>4, <1>6
  <1>8. QED
    BY <1>4, <1>5, <1>7 DEF n

\* push appends.
LEMMA PushContents ==
  ASSUME NEW b \in [Slots -> Chars], NEW h \in Slots, NEW t \in Slots,
         NEW ch \in Chars, NextSlot(h) # t
  PROVE  ContentsOf([b EXCEPT ![h] = ch], NextSlot(h), t) = Append(ContentsOf(b, h, t), ch)
  <1> DEFINE b2 == [b EXCEPT ![h] = ch]
             old == ContentsOf(b, h, t)
             new == ContentsOf(b2, NextSlot(h), t)
  <1>0. BUFSIZE \in Nat /\ BUFSIZE >= 2
    BY KeyboardAssumption
  <1>1. b2 \in [Slots -> Chars] /\ NextSlot(h) \in Slots
    BY NextSlotFacts DEF Slots
  <1>2. NextSlot(h) = IF h + 1 = BUFSIZE THEN 0 ELSE h + 1
    BY NextSlotFacts DEF Slots
  <1>3. /\ old \in Seq(Chars) /\ new \in Seq(Chars)
        /\ Len(old) = IF h >= t THEN h - t ELSE h - t + BUFSIZE
        /\ Len(new) = IF NextSlot(h) >= t THEN NextSlot(h) - t ELSE NextSlot(h) - t + BUFSIZE
        /\ \A i \in 1 .. Len(old) :
             old[i] = b[IF t + i - 1 < BUFSIZE THEN t + i - 1 ELSE t + i - 1 - BUFSIZE]
        /\ \A i \in 1 .. Len(new) :
             new[i] = b2[IF t + i - 1 < BUFSIZE THEN t + i - 1 ELSE t + i - 1 - BUFSIZE]
    <2> HIDE DEF b2
    <2>1. QED
      BY <1>1, ContentsFacts
  <1> HIDE DEF old, new
  <1>4. Len(new) = Len(old) + 1
    BY <1>0, <1>2, <1>3 DEF Slots
  <1>5. ASSUME NEW i \in 1 .. Len(new)
        PROVE  new[i] = Append(old, ch)[i]
    <2>1. CASE i = Len(new)
      <3>1. h = IF t + i - 1 < BUFSIZE THEN t + i - 1 ELSE t + i - 1 - BUFSIZE
        BY <1>0, <1>3, <1>4, <2>1 DEF Slots
      <3>2. new[i] = b2[h] /\ b2[h] = ch
        BY <1>3, <3>1 DEF Slots
      <3>3. QED
        BY <1>3, <1>4, <2>1, <3>2
    <2>2. CASE i # Len(new)
      <3>1. Len(old) \in Nat /\ i \in 1 .. Len(old)
        BY <1>3, <1>4, <2>2
      <3>2. PICK x : x = IF t + i - 1 < BUFSIZE THEN t + i - 1 ELSE t + i - 1 - BUFSIZE
        OBVIOUS
      <3>3. x \in Slots /\ x # h
        <4>1. Len(old) = IF h >= t THEN h - t ELSE h - t + BUFSIZE
          BY <1>3
        <4>2. QED
          BY <1>0, <3>1, <3>2, <4>1 DEF Slots
      <3>4. new[i] = b2[x] /\ old[i] = b[x]
        BY <1>3, <3>1, <3>2
      <3>5. b2[x] = b[x]
        BY <3>3
      <3>6. Append(old, ch)[i] = old[i]
        BY <1>3, <3>1, AppendProperties
      <3>7. QED
        BY <3>4, <3>5, <3>6
    <2>3. QED
      BY <2>1, <2>2
  <1>6. QED
    <2>1. Append(old, ch) \in Seq(Chars) /\ Len(Append(old, ch)) = Len(old) + 1
      BY <1>3
    <2>2. new = Append(old, ch)
      BY <1>3, <1>4, <1>5, <2>1, SeqEqual
    <2>3. QED
      BY <2>2 DEF old, new

\* getchar takes the first one.
LEMMA PopContents ==
  ASSUME NEW b \in [Slots -> Chars], NEW h \in Slots, NEW t \in Slots, h # t
  PROVE  /\ ContentsOf(b, h, t) # <<>>
         /\ Head(ContentsOf(b, h, t)) = b[t]
         /\ ContentsOf(b, h, NextSlot(t)) = Tail(ContentsOf(b, h, t))
  <1> DEFINE old == ContentsOf(b, h, t)
             new == ContentsOf(b, h, NextSlot(t))
  <1>0. BUFSIZE \in Nat /\ BUFSIZE >= 2
    BY KeyboardAssumption
  <1>1. NextSlot(t) \in Slots /\ NextSlot(t) = IF t + 1 = BUFSIZE THEN 0 ELSE t + 1
    BY NextSlotFacts DEF Slots
  <1>2. /\ old \in Seq(Chars) /\ new \in Seq(Chars)
        /\ Len(old) = IF h >= t THEN h - t ELSE h - t + BUFSIZE
        /\ Len(new) = IF h >= NextSlot(t) THEN h - NextSlot(t) ELSE h - NextSlot(t) + BUFSIZE
        /\ \A i \in 1 .. Len(old) :
             old[i] = b[IF t + i - 1 < BUFSIZE THEN t + i - 1 ELSE t + i - 1 - BUFSIZE]
        /\ \A i \in 1 .. Len(new) :
             new[i] = b[IF NextSlot(t) + i - 1 < BUFSIZE THEN NextSlot(t) + i - 1
                        ELSE NextSlot(t) + i - 1 - BUFSIZE]
    BY <1>1, ContentsFacts
  <1> HIDE DEF old, new
  <1>3. Len(old) >= 1 /\ Len(new) = Len(old) - 1
    BY <1>0, <1>1, <1>2 DEF Slots
  <1>4. old # <<>> /\ Head(old) = b[t]
    BY <1>0, <1>2, <1>3 DEF Slots
  <1>5. /\ Tail(old) \in Seq(Chars) /\ Len(Tail(old)) = Len(old) - 1
        /\ \A i \in 1 .. Len(old) - 1 : Tail(old)[i] = old[i + 1]
    BY <1>2, <1>4
  <1>6. ASSUME NEW i \in 1 .. Len(new)
        PROVE  new[i] = Tail(old)[i]
    <2>1. i \in 1 .. Len(old) - 1 /\ i + 1 \in 1 .. Len(old)
      BY <1>3
    <2>2. PICK x : /\ x = IF t + (i + 1) - 1 < BUFSIZE THEN t + (i + 1) - 1
                          ELSE t + (i + 1) - 1 - BUFSIZE
                   /\ Tail(old)[i] = b[x]
      BY <1>2, <1>5, <2>1
    <2>3. PICK y : /\ y = IF NextSlot(t) + i - 1 < BUFSIZE THEN NextSlot(t) + i - 1
                          ELSE NextSlot(t) + i - 1 - BUFSIZE
                   /\ new[i] = b[y]
      BY <1>2
    <2>4. i <= BUFSIZE
      BY <1>0, <1>2, <1>3, <2>1 DEF Slots
    <2>5. x = y
      BY <1>0, <1>1, <2>1, <2>2, <2>3, <2>4 DEF Slots
    <2>6. QED
      BY <2>2, <2>3, <2>5
  <1>7. new = Tail(old)
    BY <1>2, <1>3, <1>5, <1>6, SeqEqual
  <1>8. QED
    BY <1>4, <1>7 DEF old, new
-----------------------------------------------------------------------------
(* The refinement. Between its loop test and the move of tail, getchar     *)
(* relies on what it has seen: the handler may run in between, but it      *)
(* neither empties the ring nor touches the slot that is read.             *)

Reading ==
  /\ pc \in {"load", "store"} => head # tail
  /\ pc = "store" => c = buf[tail]

\* A key never makes the ring look empty, nor overwrites the oldest one.
LEMMA PushKeeps ==
  ASSUME TypeOK, NEW ch \in Chars, push(ch), tail' = tail
  PROVE  /\ head # tail => head' # tail' /\ buf'[tail'] = buf[tail]
  BY NextSlotFacts DEF TypeOK, push

LEMMA NextReading == TypeOK /\ Reading /\ [Next]_vars => Reading'
  <1> SUFFICES ASSUME TypeOK, Reading, [Next]_vars
               PROVE  Reading'
    OBVIOUS
  <1>1. ASSUME NEW k \in Keys, KeyDown(k) \/ KeyUp(k)
        PROVE  Reading'
    BY <1>1 DEF KeyDown, KeyUp, Reading, ring, reader
  <1>2. CASE keyboard_handler
    <2>1. tail' = tail /\ c' = c /\ (pc' = pc \/ pc' = "test")
      BY <1>2 DEF keyboard_handler
    <2>2. head # tail => head' # tail' /\ buf'[tail'] = buf[tail]
      <3>1. kbd_decode(Head(line).sc).c \in Chars
        BY <1>2, HandlerTypes DEF keyboard_handler
      <3>2. QED
        BY <1>2, <2>1, <3>1, PushKeeps DEF keyboard_handler
    <2>3. QED
      BY <2>1, <2>2 DEF Reading
  <1>3. CASE sys_getc \/ sys_other \/ sysret \/ getchar_hlt \/ sys_getc_return
    BY <1>3 DEF sys_getc, sys_other, sysret, getchar_hlt, sys_getc_return, Goto, Reading, ring
  <1>4. CASE getchar_test
    BY <1>4 DEF getchar_test, Empty, Goto, Reading, ring
  <1>5. CASE getchar_load
    BY <1>5 DEF getchar_load, Goto, Reading, ring
  <1>6. CASE getchar_store
    BY <1>6 DEF getchar_store, Goto, Reading
  <1>7. CASE UNCHANGED vars
    BY <1>7 DEF vars, ring, reader, Reading
  <1>8. QED
    BY <1>1, <1>2, <1>3, <1>4, <1>5, <1>6, <1>7, Zenon DEF Next, getchar

\* Contents is what the lemmas above are about.
LEMMA ContentsIs ==
  /\ Contents = ContentsOf(buf, head, tail)
  /\ Contents' = ContentsOf(buf', head', tail')
  BY DEF Contents, ContentsOf

Out == IF pc = "cli" THEN c ELSE rax

LEMMA InitQueue == Init => Queue!Init
  <1> SUFFICES ASSUME Init
               PROVE  Queue!Init
    OBVIOUS
  <1>1. TypeOK
    BY InitTypeOK
  <1>2. Len(Contents) = 0 /\ Contents \in Seq(Chars)
    <2>1. /\ buf \in [Slots -> Chars] /\ head \in Slots /\ tail \in Slots
          /\ head = 0 /\ tail = 0
      BY <1>1 DEF Init, TypeOK, Slots
    <2>2. QED
      BY <2>1, ContentsIs, ContentsFacts
  <1>3. Contents = <<>>
    BY <1>2
  <1>4. QED
    BY <1>3 DEF Init, Queue!Init

LEMMA NextQueue ==
  ASSUME TypeOK, TypeOK', Reading, [Next]_vars
  PROVE  [Queue!Next]_<<Contents, Out>>
  <1>0. /\ buf \in [Slots -> Chars] /\ head \in Slots /\ tail \in Slots
        /\ Contents \in Seq(Chars)
        /\ NextSlot(head) = tail <=> Len(Contents) = BUFSIZE - 1
        /\ Len(Contents) \in 0 .. BUFSIZE - 1
    <2>1. buf \in [Slots -> Chars] /\ head \in Slots /\ tail \in Slots
      BY DEF TypeOK, Slots
    <2>2. QED
      BY <2>1, ContentsIs, ContentsFacts, KeyboardAssumption DEF Slots
  <1>1. ASSUME UNCHANGED ring
        PROVE  UNCHANGED Contents
    BY <1>1 DEF Contents, ring
  <1>2. ASSUME NEW k \in Keys, KeyDown(k) \/ KeyUp(k)
        PROVE  UNCHANGED <<Contents, Out>>
    BY <1>1, <1>2 DEF KeyDown, KeyUp, reader, Out
  <1>3. CASE keyboard_handler
    <2> DEFINE ch == kbd_decode(Head(line).sc).c
    <2>1. UNCHANGED Out
      BY <1>3 DEF keyboard_handler, Out
    <2>2. ch \in Chars
      BY <1>3, HandlerTypes DEF keyboard_handler
    <2>3. tail' = tail /\ (ch = 0 => UNCHANGED <<buf, head>>) /\ (ch # 0 => push(ch))
      BY <1>3 DEF keyboard_handler
    <2> HIDE DEF ch
    <2>4. CASE ch = 0
      BY <1>1, <2>1, <2>3, <2>4 DEF ring
    <2>5. CASE ch # 0 /\ NextSlot(head) = tail
      <3>1. UNCHANGED Contents /\ ~(Len(Contents) < BUFSIZE - 1)
        BY <1>0, <1>1, <2>3, <2>5 DEF ring, push
      <3>2. Queue!Put(ch)
        BY <2>1, <3>1 DEF Queue!Put, Out
      <3>3. ch \in Chars \ {0}
        BY <2>2, <2>5
      <3>4. QED
        BY <3>2, <3>3 DEF Queue!Next
    <2>6. CASE ch # 0 /\ NextSlot(head) # tail
      <3>1. buf' = [buf EXCEPT ![head] = ch] /\ head' = NextSlot(head)
        BY <2>3, <2>6 DEF push
      <3>2. Contents' = Append(Contents, ch)
        BY <1>0, <2>2, <2>3, <2>6, <3>1, PushContents, ContentsIs
      <3>3. Len(Contents) < BUFSIZE - 1
        BY <1>0, <2>6, KeyboardAssumption
      <3>4. Queue!Put(ch)
        BY <2>1, <3>2, <3>3 DEF Queue!Put, Out
      <3>5. ch \in Chars \ {0}
        BY <2>2, <2>6
      <3>6. QED
        BY <3>4, <3>5 DEF Queue!Next
    <2>7. QED
      BY <2>4, <2>5, <2>6
  <1>4. CASE sys_getc \/ sys_other \/ sysret \/ getchar_hlt \/ sys_getc_return
    BY <1>1, <1>4 DEF sys_getc, sys_other, sysret, getchar_hlt, sys_getc_return, Goto, Out
  <1>5. CASE getchar_test \/ getchar_load
    BY <1>1, <1>5 DEF getchar_test, getchar_load, Goto, Out
  <1>6. CASE getchar_store
    <2>1. /\ pc = "store" /\ pc' = "cli" /\ tail' = NextSlot(tail)
          /\ UNCHANGED <<buf, head, c, rax>>
      BY <1>6 DEF getchar_store, Goto
    <2>2. head # tail /\ c = buf[tail]
      BY <2>1 DEF Reading
    <2>3. Contents # <<>> /\ Head(Contents) = c /\ Contents' = Tail(Contents)
      BY <1>0, <2>1, <2>2, PopContents, ContentsIs
    <2>4. Queue!Get
      BY <2>1, <2>3 DEF Queue!Get
    <2>5. QED
      BY <2>4 DEF Queue!Next
  <1>7. CASE UNCHANGED vars
    BY <1>1, <1>7 DEF vars, reader, Out
  <1>8. QED
    BY <1>2, <1>3, <1>4, <1>5, <1>6, <1>7, Zenon DEF Next, getchar

\* The keyboard driver implements the bounded queue KeyQueue, with the
\* interrupt handler between any two instructions of getchar: no key that finds
\* room is lost, duplicated, altered or overtaken (keyboard.c:25-44).
THEOREM KeyboardImplementsKeyQueue == Spec => ImplementsKeyQueue
  <1>1. Init => TypeOK /\ Reading
    BY InitTypeOK DEF Init, Reading
  <1>2. TypeOK /\ Reading /\ [Next]_vars => (TypeOK /\ Reading)'
    BY NextTypeOK, NextReading
  <1>3. TypeOK /\ TypeOK' /\ Reading /\ [Next]_vars => [Queue!Next]_<<Contents, Out>>
    BY NextQueue
  <1>4. Spec => [](TypeOK /\ Reading)
    BY <1>1, <1>2, PTL DEF Spec
  <1>5. QED
    BY <1>3, <1>4, InitQueue, PTL DEF Spec, ImplementsKeyQueue, Queue!Spec, Out
-----------------------------------------------------------------------------
(* What is decoded is what was meant. The bytes on the line lead the       *)
(* decoder, one mode after the other, from where it is now to the mode     *)
(* that the keys held down stand for.                                      *)

Reads(m, l, t) ==
  \E ms \in [1 .. Len(l) + 1 -> Modes] :
    /\ ms[1] = m /\ ms[Len(l) + 1] = t
    /\ \A i \in 1 .. Len(l) : /\ ms[i + 1] = ModeAfter(ms[i], l[i].sc)
                              /\ Decoded(ms[i], l[i].sc) = l[i].want

KeysHeld == [e0 |-> FALSE, shift |-> down \cap Shifts # {}, caps |-> capsLed]

Following == plain => /\ ~(Shifts \subseteq down)
                      /\ Reads(mode, line, KeysHeld)

\* Nothing to read.
LEMMA ReadsNothing ==
  ASSUME NEW m \in Modes
  PROVE  Reads(m, <<>>, m)
  <1> DEFINE ms == [i \in 1 .. 1 |-> m]
  <1>1. ms \in [1 .. Len(<<>>) + 1 -> Modes] /\ ms[1] = m /\ ms[Len(<<>>) + 1] = m
    OBVIOUS
  <1>2. 1 .. Len(<<>>) = {}
    OBVIOUS
  <1> HIDE DEF ms
  <1>3. QED
    BY <1>1, <1>2 DEF Reads

\* One byte more at the end.
LEMMA ReadsAppend ==
  ASSUME NEW l \in Seq(Byte), NEW m, NEW t, NEW b \in Byte,
         Reads(m, l, t), Decoded(t, b.sc) = b.want
  PROVE  Reads(m, Append(l, b), ModeAfter(t, b.sc))
  <1> DEFINE n == Len(l)
             l2 == Append(l, b)
  <1>1. PICK ms \in [1 .. n + 1 -> Modes] :
          /\ ms[1] = m /\ ms[n + 1] = t
          /\ \A i \in 1 .. n : /\ ms[i + 1] = ModeAfter(ms[i], l[i].sc)
                               /\ Decoded(ms[i], l[i].sc) = l[i].want
    BY DEF Reads
  <1>2. /\ n \in Nat /\ Len(l2) = n + 1 /\ l2[n + 1] = b
        /\ \A i \in 1 .. n : l2[i] = l[i]
    OBVIOUS
  <1>3. t \in Modes
    BY <1>1, <1>2
  <1>4. ModeAfter(t, b.sc) \in Modes
    BY <1>3, DecodeTypes DEF Byte
  <1> DEFINE ms2 == [i \in 1 .. n + 2 |-> IF i = n + 2 THEN ModeAfter(t, b.sc) ELSE ms[i]]
  <1>5. /\ ms2 \in [1 .. Len(l2) + 1 -> Modes]
        /\ ms2[1] = m /\ ms2[Len(l2) + 1] = ModeAfter(t, b.sc)
        /\ \A i \in 1 .. n + 1 : ms2[i] = ms[i]
    BY <1>1, <1>2, <1>4
  <1>6. ASSUME NEW i \in 1 .. Len(l2)
        PROVE  /\ ms2[i + 1] = ModeAfter(ms2[i], l2[i].sc)
               /\ Decoded(ms2[i], l2[i].sc) = l2[i].want
    <2> HIDE DEF n, l2, ms2
    <2>1. CASE i = n + 1
      BY <1>1, <1>2, <1>5, <2>1
    <2>2. CASE i \in 1 .. n
      BY <1>1, <1>2, <1>5, <2>2
    <2>3. QED
      BY <1>2, <2>1, <2>2
  <1> HIDE DEF n, l2, ms2
  <1>7. Reads(m, l2, ModeAfter(t, b.sc))
    BY <1>5, <1>6 DEF Reads
  <1>8. QED
    BY <1>7 DEF l2

\* One byte less at the front.
LEMMA ReadsTail ==
  ASSUME NEW l \in Seq(Byte), l # <<>>, NEW m, NEW t, Reads(m, l, t)
  PROVE  /\ Decoded(m, Head(l).sc) = Head(l).want
         /\ Reads(ModeAfter(m, Head(l).sc), Tail(l), t)
  <1> DEFINE n == Len(l)
             l2 == Tail(l)
  <1>1. PICK ms \in [1 .. n + 1 -> Modes] :
          /\ ms[1] = m /\ ms[n + 1] = t
          /\ \A i \in 1 .. n : /\ ms[i + 1] = ModeAfter(ms[i], l[i].sc)
                               /\ Decoded(ms[i], l[i].sc) = l[i].want
    BY DEF Reads
  <1>2. /\ n \in Nat /\ n >= 1 /\ Len(l2) = n - 1 /\ Head(l) = l[1]
        /\ \A i \in 1 .. n - 1 : l2[i] = l[i + 1]
    OBVIOUS
  <1> HIDE DEF n, l2
  <1>3. /\ ms[2] = ModeAfter(m, Head(l).sc)
        /\ Decoded(m, Head(l).sc) = Head(l).want
    <2>1. 1 \in 1 .. n
      BY <1>2
    <2>2. /\ ms[1 + 1] = ModeAfter(ms[1], l[1].sc)
          /\ Decoded(ms[1], l[1].sc) = l[1].want
      BY <1>1, <2>1
    <2>3. QED
      BY <1>1, <1>2, <2>2
  <1> DEFINE ms2 == [i \in 1 .. n |-> ms[i + 1]]
  <1>4. /\ ms2 \in [1 .. Len(l2) + 1 -> Modes]
        /\ ms2[1] = ms[2] /\ ms2[Len(l2) + 1] = t
        /\ \A i \in 1 .. n : ms2[i] = ms[i + 1]
    BY <1>1, <1>2
  <1> HIDE DEF ms2
  <1>5. ASSUME NEW i \in 1 .. Len(l2)
        PROVE  /\ ms2[i + 1] = ModeAfter(ms2[i], l2[i].sc)
               /\ Decoded(ms2[i], l2[i].sc) = l2[i].want
    <2>1. i \in 1 .. n - 1 /\ i + 1 \in 1 .. n /\ i \in 1 .. n
      BY <1>2
    <2>2. ms2[i] = ms[i + 1] /\ ms2[i + 1] = ms[i + 1 + 1] /\ l2[i] = l[i + 1]
      BY <1>2, <1>4, <2>1
    <2>3. QED
      BY <1>1, <2>1, <2>2
  <1>6. Reads(ModeAfter(m, Head(l).sc), l2, t)
    BY <1>3, <1>4, <1>5 DEF Reads
  <1>7. QED
    BY <1>3, <1>6 DEF l2

\* A key event of one byte, and one with the prefix E0.
LEMMA ReadsOne ==
  ASSUME NEW l \in Seq(Byte), NEW m, NEW t, Reads(m, l, t),
         NEW x \in Chars, NEW w \in Chars, Decoded(t, x) = w
  PROVE  Reads(m, l \o Bytes(<<x>>, w), ModeAfter(t, x))
  <1> DEFINE b == [sc |-> x, want |-> w]
  <1>1. b \in Byte /\ b.sc = x /\ b.want = w
    BY DEF Byte
  <1>2. Bytes(<<x>>, w) = <<b>>
    BY DEF Bytes
  <1>3. l \o <<b>> = Append(l, b)
    BY <1>1
  <1> HIDE DEF b
  <1>4. Reads(m, Append(l, b), ModeAfter(t, x))
    BY <1>1, ReadsAppend
  <1>5. QED
    BY <1>2, <1>3, <1>4

LEMMA ReadsTwo ==
  ASSUME NEW l \in Seq(Byte), NEW m, NEW t, Reads(m, l, t),
         NEW x \in Chars, NEW y \in Chars, NEW w \in Chars,
         Decoded(t, x) = 0, Decoded(ModeAfter(t, x), y) = w
  PROVE  Reads(m, l \o Bytes(<<x, y>>, w), ModeAfter(ModeAfter(t, x), y))
  <1> DEFINE b1 == [sc |-> x, want |-> 0]
             b2 == [sc |-> y, want |-> w]
  <1>0. 0 \in Chars
    BY DEF Chars
  <1>1. /\ b1 \in Byte /\ b1.sc = x /\ b1.want = 0
        /\ b2 \in Byte /\ b2.sc = y /\ b2.want = w
    BY <1>0 DEF Byte
  <1>2. Bytes(<<x, y>>, w) = <<b1, b2>>
    BY DEF Bytes
  <1> HIDE DEF b1, b2
  <1>3. l \o <<b1, b2>> = Append(Append(l, b1), b2) /\ Append(l, b1) \in Seq(Byte)
    BY <1>1
  <1>4. Reads(m, Append(l, b1), ModeAfter(t, x))
    BY <1>1, ReadsAppend
  <1>5. Reads(m, Append(Append(l, b1), b2), ModeAfter(ModeAfter(t, x), y))
    BY <1>1, <1>3, <1>4, ReadsAppend
  <1>6. QED
    BY <1>2, <1>3, <1>5

\* What the decoder makes of the layout's bytes when no E0 is pending.
LEMMA DecodeMakes ==
  ASSUME NEW t \in Modes, ~t.e0
  PROVE  /\ Decoded(t, 30) = (IF t.shift # t.caps THEN 65 ELSE 97) /\ ModeAfter(t, 30) = t
         /\ Decoded(t, 2) = (IF t.shift THEN 33 ELSE 49) /\ ModeAfter(t, 2) = t
         /\ \A sc \in {42, 54} :
              Decoded(t, sc) = 0 /\ ModeAfter(t, sc) = [t EXCEPT !.shift = TRUE]
         /\ Decoded(t, 58) = 0 /\ ModeAfter(t, 58) = [t EXCEPT !.caps = ~@]
  <1>1. [t EXCEPT !.e0 = FALSE] = t
    BY DEF Modes
  <1>2. ModeAfter(t, 30) = t /\ ModeAfter(t, 2) = t
    BY <1>1 DEF ModeAfter
  <1>3. Symbol(t, 30) = IF t.shift # t.caps THEN 65 ELSE 97
    BY TableEntries DEF Symbol, Lookup
  <1>4. Symbol(t, 2) = IF t.shift THEN 33 ELSE 49
    BY TableEntries DEF Symbol, Lookup
  <1>5. Decoded(t, 30) = Symbol(t, 30) /\ Decoded(t, 2) = Symbol(t, 2)
    BY DEF Decoded
  <1>6. \A sc \in {42, 54} :
          Decoded(t, sc) = 0 /\ ModeAfter(t, sc) = [t EXCEPT !.shift = TRUE]
    BY DEF Decoded, ModeAfter
  <1>7. Decoded(t, 58) = 0 /\ ModeAfter(t, 58) = [t EXCEPT !.caps = ~@]
    BY DEF Decoded, ModeAfter
  <1>8. QED
    BY <1>2, <1>3, <1>4, <1>5, <1>6, <1>7

LEMMA DecodeBreaks ==
  ASSUME NEW t \in Modes, ~t.e0
  PROVE  /\ \A sc \in {158, 130, 186} : Decoded(t, sc) = 0 /\ ModeAfter(t, sc) = t
         /\ \A sc \in {170, 182} :
              Decoded(t, sc) = 0 /\ ModeAfter(t, sc) = [t EXCEPT !.shift = FALSE]
  <1>1. [t EXCEPT !.e0 = FALSE] = t
    BY DEF Modes
  <1>2. QED
    BY <1>1 DEF Decoded, ModeAfter

LEMMA DecodeArrow ==
  ASSUME NEW t \in Modes, ~t.e0
  PROVE  /\ Decoded(t, 224) = 0
         /\ Decoded(ModeAfter(t, 224), 72) = 128 /\ ModeAfter(ModeAfter(t, 224), 72) = t
         /\ Decoded(ModeAfter(t, 224), 200) = 0 /\ ModeAfter(ModeAfter(t, 224), 200) = t
  <1> DEFINE u == [t EXCEPT !.e0 = TRUE]
  <1>1. ModeAfter(t, 224) = u /\ Decoded(t, 224) = 0
    BY DEF ModeAfter, Decoded
  <1>2. u.e0 /\ [u EXCEPT !.e0 = FALSE] = t
    BY DEF Modes
  <1> HIDE DEF u
  <1>3. Decoded(u, 72) = 128 /\ Decoded(u, 200) = 0
    BY <1>2, ExtendedFacts DEF Decoded
  <1>4. ModeAfter(u, 72) = t /\ ModeAfter(u, 200) = t
    BY <1>2 DEF ModeAfter
  <1>5. QED
    BY <1>1, <1>3, <1>4

\* One field of a mode is replaced.
LEMMA ModeExcept ==
  ASSUME NEW A, NEW B, NEW C, NEW D, NEW m, m = [e0 |-> A, shift |-> B, caps |-> C]
  PROVE  /\ [m EXCEPT !.shift = D] = [e0 |-> A, shift |-> D, caps |-> C]
         /\ [m EXCEPT !.caps = D] = [e0 |-> A, shift |-> B, caps |-> D]
         /\ m.caps = C
  OBVIOUS

LEMMA HeldExcept ==
  /\ \A D : [KeysHeld EXCEPT !.shift = D] = [e0 |-> FALSE, shift |-> D, caps |-> capsLed]
  /\ [KeysHeld EXCEPT !.caps = ~@]
       = [e0 |-> FALSE, shift |-> down \cap Shifts # {}, caps |-> ~capsLed]
  <1>1. PICK A, B, C : A = FALSE /\ B = (down \cap Shifts # {}) /\ C = capsLed
    OBVIOUS
  <1>2. KeysHeld = [e0 |-> A, shift |-> B, caps |-> C]
    BY <1>1, Zenon DEF KeysHeld
  <1>3. ASSUME NEW D
        PROVE  /\ [KeysHeld EXCEPT !.shift = D] = [e0 |-> A, shift |-> D, caps |-> C]
               /\ [KeysHeld EXCEPT !.caps = D] = [e0 |-> A, shift |-> B, caps |-> D]
               /\ KeysHeld.caps = C
    BY <1>2, ModeExcept, SMT
  <1>4. QED
    BY <1>1, <1>3, Zenon

\* A key goes down, or repeats.
LEMMA KeyDownFollowing ==
  ASSUME TypeOK, Following, NEW k \in Keys, KeyDown(k)
  PROVE  Following'
  <1> SUFFICES ASSUME plain'
               PROVE  /\ ~(Shifts \subseteq down')
                      /\ Reads(mode', line', KeysHeld')
    BY DEF Following
  <1>1. /\ plain /\ ~(k = "caps" /\ k \in down)
        /\ ~(k \in Shifts /\ down \cap (Shifts \ {k}) # {})
    BY Zenon DEF KeyDown
  <1>2. /\ line' = line \o Bytes(Layout[k].make, Meant(k))
        /\ down' = down \cup {k} /\ mode' = mode
        /\ capsLed' = (capsLed # (k = "caps" /\ k \notin down))
    BY DEF KeyDown, decoder, mode
  <1>3. line \in Seq(Byte) /\ Reads(mode, line, KeysHeld) /\ ~(Shifts \subseteq down)
    BY <1>1 DEF TypeOK, Byte, Following
  <1>4. KeysHeld \in Modes /\ ~KeysHeld.e0 /\ KeysHeld.shift = (down \cap Shifts # {}) /\ KeysHeld.caps = capsLed
    BY Zenon DEF KeysHeld, Modes, TypeOK
  <1>5. {30, 2, 224, 72, 42, 54, 58, 97, 65, 49, 33, 128, 0} \subseteq Chars
    BY DEF Chars
  <1>6. ~(Shifts \subseteq down')
    BY <1>1, <1>2, <1>3 DEF Shifts
  <1>7. ASSUME k \notin Shifts, k # "caps"
        PROVE  KeysHeld' = KeysHeld
    <2>1. down' \cap Shifts = down \cap Shifts
      BY <1>2, <1>7
    <2>2. capsLed' = capsLed
      BY <1>2, <1>7, Zenon DEF TypeOK
    <2>3. QED
      BY <2>1, <2>2 DEF KeysHeld
  <1>8. k \in {"a", "one", "arrow", "lshift", "rshift", "caps"}
    BY LayoutCodes, KeyboardAssumption
  <1>9. CASE k = "a"
    <2>1. Meant(k) = IF KeysHeld.shift # KeysHeld.caps THEN 65 ELSE 97
      <3>1. Meant(k) = IF (down \cap Shifts # {}) # capsLed THEN 65 ELSE 97
        BY <1>9, LayoutChars, Zenon DEF Meant, TypeOK
      <3>2. QED
        BY <1>4, <3>1, Zenon
    <2>2. Decoded(KeysHeld, 30) = Meant(k) /\ Meant(k) \in Chars /\ ModeAfter(KeysHeld, 30) = KeysHeld
      BY <1>4, <1>5, <2>1, DecodeMakes
    <2>3. Reads(mode, line \o Bytes(<<30>>, Meant(k)), KeysHeld)
      BY <1>3, <1>5, <2>2, ReadsOne
    <2>4. KeysHeld' = KeysHeld
      BY <1>7, <1>9 DEF Shifts
    <2>5. QED
      BY <1>2, <1>6, <1>9, <2>3, <2>4, LayoutCodes
  <1>10. CASE k = "one"
    <2>1. Meant(k) = IF KeysHeld.shift THEN 33 ELSE 49
      BY <1>4, <1>10, LayoutChars DEF Meant
    <2>2. Decoded(KeysHeld, 2) = Meant(k) /\ Meant(k) \in Chars /\ ModeAfter(KeysHeld, 2) = KeysHeld
      BY <1>4, <1>5, <2>1, DecodeMakes
    <2>3. Reads(mode, line \o Bytes(<<2>>, Meant(k)), KeysHeld)
      BY <1>3, <1>5, <2>2, ReadsOne
    <2>4. KeysHeld' = KeysHeld
      BY <1>7, <1>10 DEF Shifts
    <2>5. QED
      BY <1>2, <1>6, <1>10, <2>3, <2>4, LayoutCodes
  <1>11. CASE k = "arrow"
    <2>1. Meant(k) = 128
      BY <1>11, LayoutChars DEF Meant
    <2>2. Reads(mode, line \o Bytes(<<224, 72>>, Meant(k)), KeysHeld)
      <3>1. /\ Decoded(KeysHeld, 224) = 0 /\ Decoded(ModeAfter(KeysHeld, 224), 72) = Meant(k)
            /\ ModeAfter(ModeAfter(KeysHeld, 224), 72) = KeysHeld
        <4>1. /\ Decoded(KeysHeld, 224) = 0
              /\ Decoded(ModeAfter(KeysHeld, 224), 72) = 128 /\ ModeAfter(ModeAfter(KeysHeld, 224), 72) = KeysHeld
          BY <1>4, DecodeArrow, SMT
        <4>2. QED
          BY <2>1, <4>1
      <3>2. 224 \in Chars /\ 72 \in Chars /\ Meant(k) \in Chars
        BY <1>5, <2>1
      <3>3. QED
        BY <1>3, <3>1, <3>2, ReadsTwo
    <2>3. KeysHeld' = KeysHeld
      BY <1>7, <1>11 DEF Shifts
    <2>4. QED
      BY <1>2, <1>6, <1>11, <2>2, <2>3, LayoutCodes
  <1>12. CASE k \in {"lshift", "rshift"}
    <2>1. PICK sc \in {42, 54} : Layout[k].make = <<sc>>
      BY <1>12, LayoutCodes
    <2>2. Meant(k) = 0
      BY <1>12, LayoutChars DEF Meant
    <2>3. Reads(mode, line \o Bytes(<<sc>>, Meant(k)), [KeysHeld EXCEPT !.shift = TRUE])
      <3>1. Decoded(KeysHeld, sc) = Meant(k) /\ ModeAfter(KeysHeld, sc) = [KeysHeld EXCEPT !.shift = TRUE]
        BY <1>4, <2>2, DecodeMakes
      <3>2. sc \in Chars /\ Meant(k) \in Chars
        BY <1>5, <2>2
      <3>3. Reads(mode, line \o Bytes(<<sc>>, Meant(k)), ModeAfter(KeysHeld, sc))
        BY <1>3, <3>1, <3>2, ReadsOne
      <3>4. QED
        BY <3>1, <3>3
    <2>4. down' \cap Shifts # {}
      BY <1>2, <1>12 DEF Shifts
    <2>5. capsLed' = capsLed
      BY <1>2, <1>12, Zenon DEF TypeOK
    <2>6. KeysHeld' = [KeysHeld EXCEPT !.shift = TRUE]
      BY <2>4, <2>5, HeldExcept, Zenon DEF KeysHeld
    <2>7. QED
      BY <1>2, <1>6, <2>1, <2>3, <2>6
  <1>13. CASE k = "caps"
    <2>1. Meant(k) = 0
      BY <1>13, LayoutChars DEF Meant
    <2>2. Reads(mode, line \o Bytes(<<58>>, Meant(k)), [KeysHeld EXCEPT !.caps = ~@])
      <3>1. Decoded(KeysHeld, 58) = Meant(k) /\ ModeAfter(KeysHeld, 58) = [KeysHeld EXCEPT !.caps = ~@]
        BY <1>4, <2>1, DecodeMakes
      <3>2. 58 \in Chars /\ Meant(k) \in Chars
        BY <1>5, <2>1
      <3>3. Reads(mode, line \o Bytes(<<58>>, Meant(k)), ModeAfter(KeysHeld, 58))
        BY <1>3, <3>1, <3>2, ReadsOne
      <3>4. QED
        BY <3>1, <3>3
    <2>3. down' \cap Shifts = down \cap Shifts
      BY <1>2, <1>13 DEF Shifts
    <2>4. capsLed' = ~capsLed
      BY <1>1, <1>2, <1>13, Zenon DEF TypeOK
    <2>5. KeysHeld' = [KeysHeld EXCEPT !.caps = ~@]
      BY <2>3, <2>4, HeldExcept, Zenon DEF KeysHeld
    <2>6. QED
      BY <1>2, <1>6, <1>13, <2>2, <2>5, LayoutCodes
  <1>14. QED
    BY <1>8, <1>9, <1>10, <1>11, <1>12, <1>13

\* A key goes up.
LEMMA KeyUpFollowing ==
  ASSUME TypeOK, Following, NEW k \in Keys, KeyUp(k)
  PROVE  Following'
  <1> SUFFICES ASSUME plain'
               PROVE  /\ ~(Shifts \subseteq down')
                      /\ Reads(mode', line', KeysHeld')
    BY DEF Following
  <1>1. /\ plain /\ k \in down /\ line' = line \o Bytes(Layout[k].break, 0)
        /\ down' = down \ {k} /\ mode' = mode /\ capsLed' = capsLed
    BY DEF KeyUp, decoder, mode
  <1>2. line \in Seq(Byte) /\ Reads(mode, line, KeysHeld) /\ ~(Shifts \subseteq down)
    BY <1>1 DEF TypeOK, Byte, Following
  <1>3. KeysHeld \in Modes /\ ~KeysHeld.e0
    BY Zenon DEF KeysHeld, Modes, TypeOK
  <1>4. {158, 130, 224, 200, 170, 182, 186, 0} \subseteq Chars
    BY DEF Chars
  <1>5. ~(Shifts \subseteq down')
    BY <1>1, <1>2
  <1>6. ASSUME k \notin Shifts
        PROVE  KeysHeld' = KeysHeld
    <2>1. down' \cap Shifts = down \cap Shifts
      BY <1>1, <1>6
    <2>2. QED
      BY <1>1, <2>1 DEF KeysHeld
  <1>7. k \in {"a", "one", "arrow", "lshift", "rshift", "caps"}
    BY LayoutCodes, KeyboardAssumption
  <1>8. CASE k \in {"a", "one", "caps"}
    <2>1. PICK sc \in {158, 130, 186} : Layout[k].break = <<sc>>
      BY <1>8, LayoutCodes
    <2>2. Reads(mode, line \o Bytes(<<sc>>, 0), KeysHeld)
      <3>1. Decoded(KeysHeld, sc) = 0 /\ ModeAfter(KeysHeld, sc) = KeysHeld
        BY <1>3, DecodeBreaks, SMT
      <3>2. sc \in Chars /\ 0 \in Chars
        BY <1>4
      <3>3. QED
        BY <1>2, <3>1, <3>2, ReadsOne
    <2>3. KeysHeld' = KeysHeld
      BY <1>6, <1>8 DEF Shifts
    <2>4. QED
      BY <1>1, <1>5, <2>1, <2>2, <2>3
  <1>9. CASE k = "arrow"
    <2>1. Reads(mode, line \o Bytes(<<224, 200>>, 0), KeysHeld)
      <3>1. /\ Decoded(KeysHeld, 224) = 0 /\ Decoded(ModeAfter(KeysHeld, 224), 200) = 0
            /\ ModeAfter(ModeAfter(KeysHeld, 224), 200) = KeysHeld
        BY <1>3, DecodeArrow, SMT
      <3>2. 224 \in Chars /\ 200 \in Chars /\ 0 \in Chars
        BY <1>4
      <3>3. QED
        BY <1>2, <3>1, <3>2, ReadsTwo
    <2>2. KeysHeld' = KeysHeld
      BY <1>6, <1>9 DEF Shifts
    <2>3. QED
      BY <1>1, <1>5, <1>9, <2>1, <2>2, LayoutCodes
  <1>10. CASE k \in {"lshift", "rshift"}
    <2>1. PICK sc \in {170, 182} : Layout[k].break = <<sc>>
      BY <1>10, LayoutCodes
    <2>2. Reads(mode, line \o Bytes(<<sc>>, 0), [KeysHeld EXCEPT !.shift = FALSE])
      <3>1. Decoded(KeysHeld, sc) = 0 /\ ModeAfter(KeysHeld, sc) = [KeysHeld EXCEPT !.shift = FALSE]
        BY <1>3, DecodeBreaks, SMT
      <3>2. sc \in Chars /\ 0 \in Chars
        BY <1>4
      <3>3. Reads(mode, line \o Bytes(<<sc>>, 0), ModeAfter(KeysHeld, sc))
        BY <1>2, <3>1, <3>2, ReadsOne
      <3>4. QED
        BY <3>1, <3>3
    <2>3. down' \cap Shifts = {}
      BY <1>1, <1>2, <1>10 DEF Shifts
    <2>4. KeysHeld' = [KeysHeld EXCEPT !.shift = FALSE]
      BY <1>1, <2>3, HeldExcept, Zenon DEF KeysHeld
    <2>5. QED
      BY <1>1, <1>5, <2>1, <2>2, <2>4
  <1>11. QED
    BY <1>7, <1>8, <1>9, <1>10

LEMMA NextFollowing == TypeOK /\ Following /\ [Next]_vars => Following'
  <1> SUFFICES ASSUME TypeOK, Following, [Next]_vars
               PROVE  Following'
    OBVIOUS
  <1>1. ASSUME NEW k \in Keys, KeyDown(k) \/ KeyUp(k)
        PROVE  Following'
    BY <1>1, KeyDownFollowing, KeyUpFollowing
  <1>2. CASE keyboard_handler
    <2>1. /\ line # <<>> /\ line' = Tail(line) /\ UNCHANGED <<plain, down, capsLed>>
          /\ e0' = kbd_decode(Head(line).sc).mode.e0
          /\ shift' = kbd_decode(Head(line).sc).mode.shift
          /\ caps' = kbd_decode(Head(line).sc).mode.caps
      BY <1>2 DEF keyboard_handler
    <2>2. /\ kbd_decode(Head(line).sc).mode \in Modes
          /\ kbd_decode(Head(line).sc).mode = ModeAfter(mode, Head(line).sc)
      BY <2>1, HandlerTypes DEF kbd_decode
    <2>3. mode' = ModeAfter(mode, Head(line).sc)
      BY <2>1, <2>2, Zenon DEF mode, Modes
    <2>4. KeysHeld' = KeysHeld
      BY <2>1 DEF KeysHeld
    <2>5. ASSUME plain
          PROVE  Reads(ModeAfter(mode, Head(line).sc), Tail(line), KeysHeld)
      BY <2>1, <2>5, ReadsTail DEF Following, TypeOK, Byte
    <2>6. QED
      BY <2>1, <2>3, <2>4, <2>5 DEF Following
  <1>3. ASSUME UNCHANGED <<e0, shift, caps, down, capsLed, plain, line>>
        PROVE  Following'
    <2>1. mode' = mode /\ KeysHeld' = KeysHeld
      BY <1>3 DEF mode, KeysHeld
    <2>2. QED
      BY <1>3, <2>1 DEF Following
  <1>4. CASE sys_getc \/ sys_other \/ sysret \/ getchar \/ sys_getc_return
    BY <1>3, <1>4, Zenon DEF sys_getc, sys_other, sysret, getchar, getchar_test, getchar_hlt,
         getchar_load, getchar_store, sys_getc_return, decoder, keyboard
  <1>5. CASE UNCHANGED vars
    BY <1>3, <1>5, Zenon DEF vars, decoder, keyboard
  <1>6. QED
    BY <1>1, <1>2, <1>4, <1>5, Zenon DEF Next

\* Whatever waits in the controller, and whenever interrupts are masked, the
\* handler pushes the character the user meant when the key went down, as long
\* as one shift key is held at a time and caps lock does not repeat
\* (kbd_decode, keyboard.c:50-93).
THEOREM KeyboardDecodesWhatWasMeant == Spec => DecodesWhatWasMeant
  <1>1. Init => TypeOK /\ Following
    <2> SUFFICES ASSUME Init
                 PROVE  TypeOK /\ Following
      OBVIOUS
    <2>1. mode \in Modes /\ KeysHeld = mode /\ line = <<>> /\ ~(Shifts \subseteq down)
      BY Zenon DEF Init, mode, Modes, KeysHeld, Shifts
    <2>2. QED
      BY <2>1, InitTypeOK, ReadsNothing DEF Following
  <1>2. TypeOK /\ Following /\ [Next]_vars => (TypeOK /\ Following)'
    BY NextTypeOK, NextFollowing
  <1>3. TypeOK /\ Following =>
          (keyboard_handler /\ plain => kbd_decode(Head(line).sc).c = Head(line).want)
    BY ReadsTail DEF Following, TypeOK, Byte, keyboard_handler, kbd_decode
  <1>4. Spec => [](TypeOK /\ Following)
    BY <1>1, <1>2, PTL DEF Spec
  <1>5. QED
    BY <1>3, <1>4, PTL DEF Spec, DecodesWhatWasMeant
=============================================================================
