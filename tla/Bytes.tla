------------------------------- MODULE Bytes -------------------------------
(***************************************************************************)
(* Arithmetic on std::uint8_t as the engine uses it: wrap-around modulo    *)
(* 256, bitwise exclusive or, rotation, multiplication by an odd constant, *)
(* and the little-endian bytes of a std::uint64_t.                         *)
(*                                                                         *)
(* Everything is written with integer division by literal powers of two,   *)
(* without recursion, so that theorems may rest on this module.            *)
(***************************************************************************)
EXTENDS Integers

Byte == 0..255

(* static_cast<std::uint8_t> of a value that is not negative.              *)
U8(n) == n % 256

(* The contribution of the bit of weight w to a XOR b.                     *)
XorBit(a, b, w) == ((a \div w + b \div w) % 2) * w

(* The table of the exclusive or of two bytes, and its infix form.         *)
Xor ==
  [a \in Byte |-> [b \in Byte |->
     XorBit(a, b, 1)  + XorBit(a, b, 2)  + XorBit(a, b, 4)  + XorBit(a, b, 8)
     + XorBit(a, b, 16) + XorBit(a, b, 32) + XorBit(a, b, 64) + XorBit(a, b, 128)]]

a ## b == Xor[a][b]

Pow2 == <<1, 2, 4, 8, 16, 32, 64, 128, 256>>

(* The bits shifted out on the left come back on the right; the two parts  *)
(* share no bit, so their or is their sum.                                 *)
RotateLeftByte(value, amount) ==
  LET shift == amount % 8
  IN  U8(value * Pow2[shift + 1]) + value \div Pow2[9 - shift]

MulOddByte(value, odd) == U8(value * odd)

(* The eight bytes of a 64-bit number, least significant first.  Dividing  *)
(* in two steps keeps every divisor below 2^31.                            *)
EncodeLength(size) ==
  LET high == (size \div 65536) \div 65536
  IN  [i \in 0..7 |->
         U8((IF i < 4 THEN size ELSE high) \div <<1, 256, 65536, 16777216>>[(i % 4) + 1])]

=============================================================================
