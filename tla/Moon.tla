------------------------------- MODULE Moon --------------------------------
(***************************************************************************)
(* The shell's command moon, from the characters typed to the partition:   *)
(* parse_idx (user/shell.c), SYS_MOUNT and SYS_PARTLIST with the emit      *)
(* helpers (kernel/syscall.c). fs_mount_part appears by what it does to    *)
(* mounted_idx; module RamFs has the rest of it.                           *)
(*                                                                         *)
(* A digit is a number from 0 to 15, every other character one below 0.    *)
(***************************************************************************)
EXTENDS Numerals, SequencesExt

CONSTANTS
  LongHalf, IntHalf,  \* 2^63 and 2^31: half the values of a long and of an int
  Tables,             \* partition tables: records of type, lba, sectors, fat
  Caps,               \* sizes of the buffer passed to SYS_PARTLIST
  MoonKeys,           \* the digits typed, and Letter
  MaxTyped            \* bound: characters of an index

VARIABLES
  table,              \* parts[0 .. nparts - 1], at 1 .. nparts
  mounted_idx,
  reply               \* the last command, its input and its result

moonvars == <<table, mounted_idx, reply>>

Sp == -1
Star == -2
Nl == -3
Letter == -4
NoPart == -1
E_INVAL == <<-22>>
CapMax == 512

\* A disk has four partitions, its sectors are numbered by 32 bits.
IsU32(v) == v \in Nat /\ v \div 65536 < 65536
ASSUME MoonAssumption ==
  /\ MoonKeys \subseteq 0 .. 9 \cup {Letter} /\ Caps \subseteq Nat /\ MaxTyped \in Nat
  /\ IntHalf \in Nat /\ LongHalf \in Nat /\ 4 <= IntHalf /\ IntHalf <= LongHalf
  /\ \A t \in Tables : /\ t \in Seq(Range(t)) /\ Len(t) <= 4
                       /\ \A i \in DOMAIN t : /\ t[i].type \in 1 .. 255 /\ t[i].fat \in BOOLEAN
                                              /\ IsU32(t[i].lba) /\ IsU32(t[i].sectors)
-----------------------------------------------------------------------------
(* moon <index>                                                            *)

Cast(v, half) == ((v + half) % (2 * half)) - half

IsNumber(text) == text # <<>> /\ \A k \in DOMAIN text : text[k] \in 0 .. 9

\* A long, of the digits of a text that IsNumber accepts.
parse_idx(text) ==
  LET upto[k \in 0 .. Len(text)] == IF k = 0 THEN 0 ELSE Cast(upto[k - 1] * 10 + text[k], LongHalf)
  IN  upto[Len(text)]

part_get(idx) == idx \in 0 .. Len(table) - 1

\* The partition mounted after a call that may fail, and whether it did.
fs_mount_part(idx) ==
  IF part_get(idx) /\ table[idx + 1].fat THEN [now |-> idx, ok |-> TRUE]
  ELSE [now |-> mounted_idx, ok |-> FALSE]

\* Mutant: counts from 1.
SYS_MOUNT_One(idx) ==
  IF idx < 0 THEN [now |-> NoPart, ok |-> TRUE] ELSE fs_mount_part(Cast(idx - 1, IntHalf))

\* The index is a long, of which fs_mount_part gets an int. A negative one
\* unmounts.
SYS_MOUNT(idx) ==
  IF idx < 0 THEN [now |-> NoPart, ok |-> TRUE] ELSE fs_mount_part(Cast(idx, IntHalf))

MountsAs(text, call) ==
  /\ mounted_idx' = call.now
  /\ reply' = [cmd |-> "mount", text |-> text, ok |-> call.ok, was |-> mounted_idx]
  /\ UNCHANGED table

moon_index(text) ==
  MountsAs(text, IF IsNumber(text) THEN SYS_MOUNT(parse_idx(text))
                 ELSE [now |-> mounted_idx, ok |-> FALSE])

\* moon -u
moon_unmount == MountsAs(<<Letter>>, SYS_MOUNT(-1))
-----------------------------------------------------------------------------
(* moon: the list. A buffer holds the characters before pos; Full stands   *)
(* for a pos of -1, the largest unsigned long.                             *)

Full == <<-99>>

\* emit_str and emit_dec; they keep a pos of -1.
emit_chars(buf, cap, chars) ==
  IF buf = Full \/ Len(buf) + Len(chars) > cap THEN Full ELSE buf \o chars

emit_dec(v) == Numeral(v, 10)

\* emit_hex adds 2 to a pos of -1 and gets 1: it writes the byte before the
\* buffer and the first one, and the list goes on behind that.
emit_hex(buf, cap, v) ==
  LET high == (v \div 16) % 16
      low == v % 16
  IN  IF buf = Full THEN (IF cap < 1 THEN Full ELSE <<low>>)
      ELSE emit_chars(buf, cap, <<high, low>>)

Mark(i) == IF i = mounted_idx THEN <<Star, Sp>> ELSE <<Sp>>

Row(buf, cap, i) ==
  LET p == table[i + 1]
      head == emit_chars(emit_chars(buf, cap, emit_dec(i)), cap, Mark(i))
  IN  emit_chars(emit_hex(head, cap, p.type), cap,
           <<Sp>> \o emit_dec(p.lba) \o <<Sp>> \o emit_dec(p.sectors) \o <<Nl>>)

SYS_PARTLIST(cap) ==
  LET upto[k \in 0 .. Len(table)] ==
        IF k = 0 THEN <<>>
        ELSE IF k > 1 /\ upto[k - 1] = Full THEN Full
        ELSE Row(upto[k - 1], cap, k - 1)
  IN  IF cap > CapMax \/ upto[Len(table)] = Full THEN E_INVAL ELSE upto[Len(table)]

moon_list(cap) ==
  /\ reply' = [cmd |-> "list", text |-> SYS_PARTLIST(cap), cap |-> cap]
  /\ UNCHANGED <<table, mounted_idx>>

MoonInit == table \in Tables /\ mounted_idx = NoPart /\ reply = [cmd |-> "none"]

MoonNext ==
  \/ \E text \in BoundedSeq(MoonKeys, MaxTyped) : moon_index(text)
  \/ moon_unmount
  \/ \E cap \in Caps : moon_list(cap)

MoonSpec == MoonInit /\ [][MoonNext]_moonvars
-----------------------------------------------------------------------------
\* An index below 2^31 mounts the partition of that index, or is refused and
\* leaves mounted what was: neither parse_idx nor the int that SYS_MOUNT makes
\* of its result leads to another partition or to none. (From 2^31 on they
\* do: an index of k * 2^32 mounts partition 0, one from 2^63 to 2^64
\* unmounts.)
TypedIsMounted ==
  reply.cmd = "mount" /\ IsNumber(reply.text) /\ ValueOf(reply.text, 10) < IntHalf =>
    LET n == ValueOf(reply.text, 10)
    IN  IF part_get(n) /\ table[n + 1].fat THEN reply.ok /\ mounted_idx = n
        ELSE ~reply.ok /\ mounted_idx = reply.was

\* The words and lines of a list.
Split(text, char) ==
  LET upto[k \in 0 .. Len(text)] ==
        IF k = 0 THEN [done |-> <<>>, last |-> <<>>]
        ELSE IF text[k] = char THEN [done |-> Append(upto[k - 1].done, upto[k - 1].last), last |-> <<>>]
        ELSE [upto[k - 1] EXCEPT !.last = Append(@, text[k])]
  IN  upto[Len(text)].done

\* A list that fits in its buffer has a line for each partition in turn, with
\* its type, first sector and size; the number in front of a line is the one
\* that moon mounts it by, and the only star is at what is mounted. (A list
\* that does not fit is not always refused: see emit_hex.)
Longest == 28
ListReadsBack ==
  reply.cmd = "list" /\ reply.cap \in Longest * Len(table) .. CapMax =>
    LET rows == Split(reply.text, Nl)
    IN  /\ Len(rows) = Len(table)
        /\ \A i \in DOMAIN rows :
             LET words == Split(Append(rows[i], Sp), Sp)
                 number == IF Last(words[1]) = Star THEN Front(words[1]) ELSE words[1]
                 size == ValueOf(words[4], 10)
             IN  /\ SYS_MOUNT(parse_idx(number)) = fs_mount_part(i - 1)
                 /\ (Star \in ToSet(words[1])) = (mounted_idx = i - 1)
                 /\ words[2] = <<table[i].type \div 16, table[i].type % 16>>
                 /\ ValueOf(words[3], 10) = table[i].lba /\ size = table[i].sectors
=============================================================================
