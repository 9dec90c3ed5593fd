------------------------------ MODULE NetBits ------------------------------
(***************************************************************************)
(* The byte order conversions of net/bit.hxx.  An unsigned integer of n    *)
(* bytes is the tuple of its bytes, the most significant one first, so     *)
(* that it keeps its width and a mask with a shift picks and places bytes. *)
(***************************************************************************)
EXTENDS Integers

CONSTANT Endian      \* std::endian::native

ASSUME EndianAssumption == Endian \in {"little", "big"}

Byte == 0 .. 255
Uint(n) == [1 .. n -> Byte]

\* bswap(): each term ((value & mask) << k) moves the byte i from the end to
\* the place i from the start.
bswap(v, n) == [i \in 1 .. n |-> v[n + 1 - i]]

hton(v, n) == IF Endian = "little" THEN bswap(v, n) ELSE v
ntoh(v, n) == IF Endian = "little" THEN bswap(v, n) ELSE v

\* The bytes of an integer as the machine lays them out in memory.
Memory(v, n) ==
  IF Endian = "little" THEN [i \in 1 .. n |-> v[n + 1 - i]] ELSE v

\* The integer a machine reads from n bytes of memory.
FromMemory(m, n) ==
  IF Endian = "little" THEN [i \in 1 .. n |-> m[n + 1 - i]] ELSE m

\* The number a uint16_t stands for.
Value16(v) == 256 * v[1] + v[2]
=============================================================================
