-------------------------------- MODULE Uint --------------------------------
(***************************************************************************)
(* The fixed-width big integers of math/src/uint.rs: what the macro        *)
(* construct_uint! generates for a number of 64-bit words.  A value is its *)
(* array of LIMBS words, least significant first, and every operation is   *)
(* the word loop of the code.  The word is W bits wide instead of 64, a    *)
(* byte ByteBits bits instead of 8 and the decimal base is Ten instead of  *)
(* 10, so that the carries, the word boundaries and the digit groups all   *)
(* occur on values TLC can enumerate.  A pair <<value, flag>> is what an   *)
(* overflowing_ function returns; <<>> is None or an error, <<x>> a value. *)
(***************************************************************************)
EXTENDS Integers, Sequences

CONSTANTS W,         \* bits of a word (u64::BITS)
          LIMBS,     \* words of a value ($n_words)
          ByteBits,  \* bits of a byte
          Ten        \* the base Display prints in

B == 2^W
BITS == LIMBS * W
WordBytes == W \div ByteBits
BYTES == LIMBS * WordBytes
Limb == 0..LIMBS - 1
Uints == [Limb -> 0..B - 1]

\* `for i in 0..n { s = Step(s, i) }`, the shape of every word loop.
For(n, s0, Step(_, _)) ==
  LET s[i \in 0..n] == IF i = 0 THEN s0 ELSE Step(s[i - 1], i - 1) IN s[n]

ZERO == [i \in Limb |-> 0]
MAX == [i \in Limb |-> B - 1]
from_u64(n) == [ZERO EXCEPT ![0] = n]
from_u128(n) == [ZERO EXCEPT ![0] = n % B, ![1] = (n \div B) % B]
as_u64(a) == a[0]
as_u128(a) == a[0] + a[1] * B
is_zero(a) == \A i \in Limb : a[i] = 0
bit_length(n) == CHOOSE k \in 0..W : 2^k > n /\ (k = 0 \/ 2^(k - 1) <= n)
bits(a) ==
  IF is_zero(a) THEN 0
  ELSE LET i == CHOOSE i \in Limb : a[i] # 0 /\ \A j \in i + 1..LIMBS - 1 : a[j] = 0
       IN W * i + bit_length(a[i])
-----------------------------------------------------------------------------
\* The bits shifted in from the neighbouring word are disjoint from the word's
\* own, so the code's `|=` adds them.
overflowing_shl(a, s) ==
  LET t == s % BITS  left_words == t \div W  left_shifts == t % W
      moved(i) == IF i >= left_words THEN (a[i - left_words] * 2^left_shifts) % B ELSE 0
      spill(i) == IF left_shifts > 0 /\ i > left_words
                  THEN a[i - 1 - left_words] \div 2^(W - left_shifts) ELSE 0
  IN <<[i \in Limb |-> moved(i) + spill(i)], s >= BITS>>

overflowing_shr(a, s) ==
  LET t == s % BITS  left_words == t \div W  left_shifts == t % W
      moved(i) == IF i + left_words < LIMBS THEN a[i + left_words] \div 2^left_shifts ELSE 0
      spill(i) == IF left_shifts > 0 /\ i + left_words + 1 < LIMBS
                  THEN (a[i + left_words + 1] * 2^(W - left_shifts)) % B ELSE 0
  IN <<[i \in Limb |-> moved(i) + spill(i)], s >= BITS>>

\* Mutant: the carry out of the second addition is lost.
BugCarryingAdd(lhs, rhs, carry) ==
  LET a == (lhs + rhs) % B IN <<(a + carry) % B, IF lhs + rhs >= B THEN 1 ELSE 0>>

carrying_add_u64(lhs, rhs, carry) ==
  LET a == (lhs + rhs) % B IN
  <<(a + carry) % B, IF (lhs + rhs >= B) # (a + carry >= B) THEN 1 ELSE 0>>

overflowing_add(a, b) ==
  For(LIMBS, <<a, 0>>, LAMBDA s, i :
        LET r == carrying_add_u64(a[i], b[i], s[2]) IN <<[s[1] EXCEPT ![i] = r[1]], r[2]>>)

overflowing_add_u64(a, n) ==
  For(LIMBS, <<a, n>>, LAMBDA s, i :
        IF s[2] = 0 THEN s
        ELSE <<[s[1] EXCEPT ![i] = (@ + s[2]) % B], (a[i] + s[2]) \div B>>)

borrowing_sub_u64(lhs, rhs, borrow) ==
  LET a == (lhs - rhs) % B IN
  <<(a - borrow) % B, IF (lhs < rhs) # (a < borrow) THEN 1 ELSE 0>>

overflowing_sub(a, b) ==
  For(LIMBS, <<a, 0>>, LAMBDA s, i :
        LET r == borrowing_sub_u64(a[i], b[i], s[2]) IN <<[s[1] EXCEPT ![i] = r[1]], r[2]>>)

carrying_mul_u64(a, n) ==
  For(LIMBS, <<a, 0>>, LAMBDA s, i :
        LET t == s[2] + n * a[i] IN <<[s[1] EXCEPT ![i] = t % B], t \div B>>)

overflowing_mul_u64(a, n) ==
  LET r == carrying_mul_u64(a, n) IN <<r[1], r[2] # 0>>

\* Row j adds a * b[j] at word j and drops what falls beyond the last word: the
\* flag records the row's last carry, not the products that were never formed.
overflowing_mul(a, b) ==
  For(LIMBS, <<ZERO, FALSE>>, LAMBDA s, j :
        LET row == For(LIMBS - j, <<s[1], 0>>, LAMBDA r, i :
                         LET n == a[i] * b[j] + r[1][i + j] + r[2]
                         IN <<[r[1] EXCEPT ![i + j] = n % B], n \div B>>)
        IN <<row[1], s[2] \/ row[2] # 0>>)
-----------------------------------------------------------------------------
\* Comparison: the words from the most significant down.
Less(a, b) == \E i \in Limb : a[i] < b[i] /\ \A j \in i + 1..LIMBS - 1 : a[j] = b[j]
EqU64(a, n) == (\A i \in Limb \ {0} : a[i] = 0) /\ a[0] = n
LessU64(a, n) == (\A i \in Limb \ {0} : a[i] = 0) /\ a[0] < n
EqU128(a, n) == (\A i \in Limb \ {0, 1} : a[i] = 0) /\ a[0] = n % B /\ a[1] = n \div B
LessU128(a, n) == (\A i \in Limb \ {0, 1} : a[i] = 0) /\ as_u128(a) < n
TryU128(a) == IF \E i \in Limb \ {0, 1} : a[i] # 0 THEN <<>> ELSE <<as_u128(a)>>

div_rem_u64(a, n) ==
  For(LIMBS, <<a, 0>>, LAMBDA s, k :
        LET i == LIMBS - 1 - k  t == s[2] * B + a[i]
        IN <<[s[1] EXCEPT ![i] = t \div n], t % n>>)

\* Bitwise long division: the divisor is shifted under the dividend's top bit
\* and comes down one bit at a time.  Division by zero is the code's assertion.
div_rem(a, b) ==
  IF bits(a) < bits(b) THEN <<ZERO, a>>
  ELSE LET shift == bits(a) - bits(b)
           r == For(shift + 1, [ret |-> ZERO, sub |-> a, div |-> overflowing_shl(b, shift)[1]],
                  LAMBDA s, k :
                    LET bit == shift - k  down == overflowing_shr(s.div, 1)[1]
                    IN IF Less(s.sub, s.div) THEN [s EXCEPT !.div = down]
                       ELSE [ret |-> [s.ret EXCEPT ![bit \div W] = @ + 2^(bit % W)],
                             sub |-> overflowing_sub(s.sub, s.div)[1], div |-> down])
       IN <<r.ret, r.sub>>

\* The number a value stands for; malachite's Natural in mod_inverse, whose
\* inverse is external: here Fermat's, the power prime - 2.
Value(a) == For(LIMBS, 0, LAMBDA s, k : s * B + a[LIMBS - 1 - k])
FromValue(n) == [i \in Limb |-> (n \div B^i) % B]
PowMod(x, e, p) ==
  LET f[n \in Nat] == IF n = 0 THEN 1
                      ELSE LET h == f[n \div 2]  sq == (h * h) % p
                           IN IF n % 2 = 0 THEN sq ELSE (sq * x) % p
  IN f[e]
mod_inverse(a, prime) ==
  LET p == Value(prime)  x == Value(a) % p
  IN IF x = 0 THEN <<>> ELSE <<FromValue(PowMod(x, p - 2, p))>>

\* The operators of core::ops: the value, whatever the flag (a debug build
\* asserts that the flag is not set).
Add(a, b) == overflowing_add(a, b)[1]
AddU64(a, n) == overflowing_add_u64(a, n)[1]
Sub(a, b) == overflowing_sub(a, b)[1]
Mul(a, b) == overflowing_mul(a, b)[1]
MulU64(a, n) == overflowing_mul_u64(a, n)[1]
Div(a, b) == div_rem(a, b)[1]
Rem(a, b) == div_rem(a, b)[2]
DivU64(a, n) == div_rem_u64(a, n)[1]
RemU64(a, n) == div_rem_u64(a, n)[2]
Shl(a, s) == overflowing_shl(a, s)[1]
Shr(a, s) == overflowing_shr(a, s)[1]

\* Sum and Product of an iterator, with their values for an empty one.
Sum(seq) == For(Len(seq), ZERO, LAMBDA s, i : Add(s, seq[i + 1]))
Product(seq) == For(Len(seq), from_u64(1), LAMBDA s, i : Mul(s, seq[i + 1]))
-----------------------------------------------------------------------------
\* Bitwise operators, through the bits of a word.
Bit(n, k) == (n \div 2^k) % 2
WordOf(bit(_)) == For(W, 0, LAMBDA s, k : s + bit(k) * 2^k)
BitAnd(a, b) == [i \in Limb |-> WordOf(LAMBDA k : Bit(a[i], k) * Bit(b[i], k))]
BitOr(a, b) == [i \in Limb |-> WordOf(LAMBDA k : IF Bit(a[i], k) + Bit(b[i], k) > 0 THEN 1 ELSE 0)]
BitXor(a, b) == [i \in Limb |-> WordOf(LAMBDA k : (Bit(a[i], k) + Bit(b[i], k)) % 2)]
Not(a) == [i \in Limb |-> B - 1 - a[i]]

\* iter_be_bits: item `bit` of the iterator, and what nth(n) yields from there.
be_bit(a, bit) == Bit(a[LIMBS - (bit \div W) - 1], W - (bit % W) - 1)
nth(a, bit, n) == IF bit + n >= BITS THEN <<>> ELSE <<be_bit(a, bit + n)>>
iter_be_bits(a) == [k \in 1..BITS |-> be_bit(a, k - 1)]
\* Binary prints the bits from first_one on, the last bit when there is none.
Binary(a) ==
  LET first_one == For(BITS, BITS - 1, LAMBDA f, k :
                         IF f = BITS - 1 /\ be_bit(a, k) = 1 THEN k ELSE f)
  IN SubSeq(iter_be_bits(a), first_one + 1, BITS)

\* Bytes of one word, least significant first, and of the whole value.
WordByte(n, k) == (n \div 2^(ByteBits * k)) % 2^ByteBits
to_le_bytes(a) == [k \in 1..BYTES |-> WordByte(a[(k - 1) \div WordBytes], (k - 1) % WordBytes)]
to_be_bytes(a) ==
  [k \in 1..BYTES |-> WordByte(a[LIMBS - 1 - ((k - 1) \div WordBytes)], WordBytes - 1 - ((k - 1) % WordBytes))]
from_le_bytes(s) ==
  [i \in Limb |-> For(WordBytes, 0, LAMBDA w, k : w + s[i * WordBytes + k + 1] * 2^(ByteBits * k))]
from_be_bytes(s) ==
  [i \in Limb |-> For(WordBytes, 0, LAMBDA w, k : w * 2^ByteBits + s[(LIMBS - 1 - i) * WordBytes + k + 1])]

\* serde: a tuple of the words; reading fails on a tuple that is too short.
Serialize(a) == [k \in 1..LIMBS |-> a[k - 1]]
Deserialize(s) == IF Len(s) < LIMBS THEN <<>> ELSE <<[i \in Limb |-> s[i + 1]]>>

\* Hexadecimal: two digits a byte, most significant first.  from_hex pads a
\* short string with zeroes; LowerHex drops the leading zeroes but one digit.
HexBase == 2^(ByteBits \div 2)
from_hex(hex) ==
  IF Len(hex) > 2 * BYTES THEN <<>>
  ELSE LET input == [k \in 1..2 * BYTES |-> IF k <= 2 * BYTES - Len(hex) THEN 0
                                            ELSE hex[k - (2 * BYTES - Len(hex))]]
       IN <<from_be_bytes([k \in 1..BYTES |-> input[2 * k - 1] * HexBase + input[2 * k]])>>
LowerHex(a) ==
  LET bytes == to_be_bytes(a)
      hex == [k \in 1..2 * BYTES |-> IF k % 2 = 1 THEN bytes[(k + 1) \div 2] \div HexBase
                                                  ELSE bytes[k \div 2] % HexBase]
      first == IF \A k \in 1..2 * BYTES : hex[k] = 0 THEN 2 * BYTES
               ELSE CHOOSE k \in 1..2 * BYTES : hex[k] # 0 /\ \A j \in 1..k - 1 : hex[j] = 0
  IN SubSeq(hex, first, 2 * BYTES)

\* Display: groups of four digits while the value has more than four, then two
\* more when three or four are left, then the last one or two.
Pair(n) == <<n \div Ten, n % Ten>>
Tail4(n) ==
  LET high == IF n >= Ten^2 THEN n \div Ten^2 ELSE n
  IN (IF high < Ten THEN <<high>> ELSE Pair(high)) \o (IF n >= Ten^2 THEN Pair(n % Ten^2) ELSE <<>>)
Display(a) ==
  LET STEP == Ten^4
      r == For(BITS, <<a, <<>>>>, LAMBDA s, k :
             IF LessU64(s[1], STEP) THEN s
             ELSE LET d == div_rem_u64(s[1], STEP)
                  IN <<d[1], Pair(d[2] \div Ten^2) \o Pair(d[2] % Ten^2) \o s[2]>>)
  IN Tail4(as_u64(r[1])) \o r[2]
=============================================================================
