------------------------------- MODULE Target -------------------------------
(***************************************************************************)
(* The compact encoding of difficulty targets (math/src/lib.rs), the       *)
(* checked conversions between the widths of Uint, and the signed integers *)
(* of math/src/int.rs.  A compact number is a size byte above a mantissa   *)
(* of three bytes; a byte has ByteBits bits here, and the size is not      *)
(* bounded by a byte's range, as 33 bytes at most are ever counted.        *)
(***************************************************************************)
EXTENDS Integers, Sequences

CONSTANTS W, LIMBS, ByteBits

U == INSTANCE Uint WITH Ten <- 2

Mantissa == 2^(3 * ByteBits)
SignBit == Mantissa \div 2

from_compact_target_bits(bits) ==
  LET unshifted_expt == bits \div Mantissa
      mant == IF unshifted_expt <= 3
              THEN (bits % Mantissa) \div 2^(ByteBits * (3 - unshifted_expt))
              ELSE bits % Mantissa
      expt == IF unshifted_expt <= 3 THEN 0 ELSE ByteBits * (unshifted_expt - 3)
  IN IF mant > SignBit - 1 THEN U!ZERO ELSE U!Shl(U!from_u64(mant), expt)

compact_target_bits(self) ==
  LET size == (U!bits(self) + ByteBits - 1) \div ByteBits
      compact == IF size <= 3 THEN U!as_u64(self) * 2^(ByteBits * (3 - size))
                 ELSE U!as_u64(U!Shr(self, ByteBits * (size - 3)))
  IN IF (compact \div SignBit) % 2 = 1
     THEN (compact \div 2^ByteBits) + (size + 1) * Mantissa
     ELSE compact + size * Mantissa

\* Widening copies the words; narrowing fails when a dropped word is not zero.
Widen(a) == [i \in 0..LIMBS |-> IF i < LIMBS THEN a[i] ELSE 0]
Narrow(a) == IF a[LIMBS] # 0 THEN <<>> ELSE <<[i \in 0..LIMBS - 1 |-> a[i]]>>

\* 2^BITS / (target + 1), computed without the number 2^BITS, and narrowed to
\* one word less (Uint192).  <<>> is the failed expect.
calc_work(bits) ==
  LET target == from_compact_target_bits(bits)
      next == U!AddU64(target, 1)
      narrow(res) == IF res[LIMBS - 1] # 0 THEN <<>> ELSE <<[i \in 0..LIMBS - 2 |-> res[i]]>>
  IN narrow(U!AddU64(U!Div(U!Not(target), next), 1))

\* The sum, the average and the rescaling by the window's duration run one word
\* wider than a target (Uint320), then narrow.  <<>> is the failed expect.
V == INSTANCE Uint WITH LIMBS <- LIMBS + 1, Ten <- 2
calculate_difficulty_bits(window, window_size, genesis_bits, target_time) ==
  IF Len(window) < window_size THEN <<genesis_bits>>
  ELSE LET older(i, j) == \/ window[i].timestamp < window[j].timestamp
                          \/ (window[i].timestamp = window[j].timestamp /\ i < j)
           min_ts_index == CHOOSE i \in DOMAIN window : \A j \in DOMAIN window \ {i} : older(i, j)
           max_ts_index == CHOOSE i \in DOMAIN window : \A j \in DOMAIN window \ {i} : older(j, i)
           inner == SelectSeq([i \in DOMAIN window |-> i], LAMBDA i : i # min_ts_index)
           targets_sum == V!Sum([k \in DOMAIN inner |-> Widen(from_compact_target_bits(window[inner[k]].bits))])
           average_target == V!DivU64(targets_sum, Len(inner))
           span == window[max_ts_index].timestamp - window[min_ts_index].timestamp
           scaled == V!MulU64(average_target, IF span > 1 THEN span ELSE 1)
           new_target == Narrow(V!DivU64(V!DivU64(scaled, target_time), Len(inner)))
       IN IF new_target = <<>> THEN <<>> ELSE <<compact_target_bits(new_target[1])>>
-----------------------------------------------------------------------------
\* SignedInteger: a magnitude and a sign.
Signed(a, n) == [abs |-> a, negative |-> n]
SignedSub(x, y) ==
  IF x.negative # y.negative THEN Signed(x.abs + y.abs, x.negative)
  ELSE IF x.abs < y.abs THEN Signed(y.abs - x.abs, ~x.negative)
  ELSE Signed(x.abs - y.abs, x.negative)
SignedMul(x, y) == Signed(x.abs * y.abs, x.negative # y.negative)
SignedDiv(x, y) == Signed(x.abs \div y.abs, x.negative # y.negative)
=============================================================================
