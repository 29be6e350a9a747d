------------------------------- MODULE MuHash -------------------------------
(***************************************************************************)
(* crypto/muhash: the multiplicative set hash behind every UTXO            *)
(* commitment.  U3072 is a residue modulo the prime 2^3072 - PRIME_DIFF,   *)
(* kept in an array of limbs and multiplied limb by limb with the          *)
(* reduction folded into the loop; here a limb has W bits and there are    *)
(* LIMBS of them.  The second part is the MuHash itself as a state         *)
(* machine: elements are multiplied into a numerator (added) or a          *)
(* denominator (removed), and finalize divides.  An element is what        *)
(* data_to_element makes of the data: any array of limbs, the residues     *)
(* above the prime included.                                               *)
(***************************************************************************)
EXTENDS Integers, Sequences, FiniteSets

CONSTANTS W, LIMBS, PRIME_DIFF,
          Data,      \* the byte strings that are hashed
          Element,   \* the element ChaCha20 seeded with a string's hash yields
          MaxOps     \* bound on the operations on one MuHash

U == INSTANCE Uint WITH ByteBits <- 1, Ten <- 2

ASSUME MuHashAssumption ==
  /\ W > 1 /\ LIMBS > 1 /\ PRIME_DIFF \in 1..2^W - 1 /\ MaxOps \in Nat
  /\ PRIME_DIFF * PRIME_DIFF < 2^W
  /\ Element \in [Data -> U!Uints]
  /\ \A d \in Data : U!Value(Element[d]) \notin {0, U!B^LIMBS - PRIME_DIFF}   \* no element is zero
B == U!B
Limb == U!Limb
For(n, s0, Step(_, _)) == U!For(n, s0, Step)

one == U!from_u64(1)
PRIME == B^LIMBS - PRIME_DIFF
UINT_PRIME == [U!MAX EXCEPT ![0] = @ - (PRIME_DIFF - 1)]

is_overflow(a) == a[0] > B - 1 - PRIME_DIFF /\ \A i \in Limb \ {0} : a[i] = B - 1

\* Adds PRIME_DIFF modulo 2^3072, which subtracts the prime.
full_reduce(a) ==
  For(LIMBS, [limbs |-> a, low |-> PRIME_DIFF, high |-> 0], LAMBDA s, i :
        LET t == s.low + a[i]  h == s.high + t \div B
        IN [limbs |-> [s.limbs EXCEPT ![i] = t % B], low |-> h % B, high |-> h \div B]).limbs

\* Triples <<low, high, carry>> stand for low + high * B + carry * B^2; every
\* component is a limb, so the additions wrap where the code's do.
mul_wide(a, b) == <<(a * b) % B, (a * b) \div B>>
muladd3(a, b, c) ==
  LET t == mul_wide(a, b)  low == c[1] + t[1]
      high == c[2] + ((t[2] + low \div B) % B)
  IN <<low % B, high % B, (c[3] + high \div B) % B>>
mulnadd3(c, d, n) ==
  LET t0 == d[1] * n + c[1]  t1 == t0 \div B + d[2] * n + c[2]
  IN <<t0 % B, t1 % B, (t1 \div B + d[3] * n) % B>>
muln2(low, high, n) == <<(low * n) % B, ((low * n) \div B + high * n) % B>>

\* One subtraction of the prime, when the value is not below it.
reduce(a) == IF is_overflow(a) THEN full_reduce(a) ELSE a

\* Limb j < N-1 of the product: the products above the top limb come back
\* multiplied by PRIME_DIFF, then the products of limb j are added.
mul_limb(a, b, s, j) ==
  LET upper == For(LIMBS - 2 - j, mul_wide(a[j + 1], b[LIMBS - 1]) \o <<0>>,
                   LAMBDA d, k : muladd3(a[2 + j + k], b[LIMBS - 2 - k], d))
      extract(c) == [limbs |-> [s.limbs EXCEPT ![j] = c[1]], c |-> <<c[2], c[3], 0>>]
  IN extract(For(j + 1, mulnadd3(s.c, upper, PRIME_DIFF), LAMBDA d, i : muladd3(a[i], b[j - i], d)))
mul_limbs(a, b) == For(LIMBS - 1, [limbs |-> one, c |-> <<0, 0, 0>>], LAMBDA s, j : mul_limb(a, b, s, j))

\* Limb N-1, and the second reduction of what is left over.  `ok` is the
\* conjunction of the function's assertions so far.
mul_last_limb(a, b, s) ==
  LET extract(c) == [limbs |-> [s.limbs EXCEPT ![LIMBS - 1] = c[1]], c |-> muln2(c[2], c[3], PRIME_DIFF),
                     ok |-> s.c[3] = 0]
  IN extract(For(LIMBS, s.c, LAMBDA d, i : muladd3(a[i], b[LIMBS - 1 - i], d)))
mul_fold(s0) ==
  For(LIMBS, s0, LAMBDA s, i :
        LET t == s.c[1] + s.limbs[i]  h == s.c[2] + t \div B
        IN [s EXCEPT !.limbs[i] = t % B, !.c = <<h % B, h \div B>>])

\* The product: at most two subtractions of the prime end it.
mul_finish(s) ==
  [limbs |-> IF s.c[1] # 0 THEN full_reduce(reduce(s.limbs)) ELSE reduce(s.limbs),
   ok |-> s.ok /\ s.c[2] = 0 /\ s.c[1] \in {0, 1}]
mul(a, b) == mul_finish(mul_fold(mul_last_limb(a, b, mul_limbs(a, b))))

inverse(self) ==
  LET invert(a) == IF a = U!ZERO THEN a ELSE U!mod_inverse(a, UINT_PRIME)[1]
  IN invert(reduce(self))

div(self, other) == reduce(mul(reduce(self), inverse(reduce(other))).limbs)

\* The bytes finalize hashes, and the check of a serialised value.
to_le_bytes(a) == U!to_le_bytes(a)
deserialize(data) ==
  LET n == U!from_le_bytes(data) IN IF is_overflow(n) THEN <<>> ELSE <<n>>
-----------------------------------------------------------------------------
VARIABLES numerator, denominator,
          bag,   \* ghost: how often each string was added minus removed
          ops    \* ghost: operations so far

muvars == <<numerator, denominator, bag, ops>>

MuInit ==
  /\ numerator = one /\ denominator = one
  /\ bag = [d \in Data |-> 0] /\ ops = 0

add_element(d) ==
  /\ ops < MaxOps
  /\ numerator' = mul(numerator, Element[d]).limbs
  /\ bag' = [bag EXCEPT ![d] = @ + 1] /\ ops' = ops + 1
  /\ UNCHANGED denominator

remove_element(d) ==
  /\ ops < MaxOps
  /\ denominator' = mul(denominator, Element[d]).limbs
  /\ bag' = [bag EXCEPT ![d] = @ - 1] /\ ops' = ops + 1
  /\ UNCHANGED numerator

\* combine with a set built from one added and one removed string.
combine(d, e) ==
  /\ ops < MaxOps
  /\ numerator' = mul(numerator, mul(one, Element[d]).limbs).limbs
  /\ denominator' = mul(denominator, mul(one, Element[e]).limbs).limbs
  /\ bag' = [x \in Data |-> bag[x] + (IF x = d THEN 1 ELSE 0) - (IF x = e THEN 1 ELSE 0)]
  /\ ops' = ops + 1

\* Mutant: the denominator is not reset.
BugNormalize ==
  /\ ops < MaxOps /\ ops' = ops + 1
  /\ numerator' = div(numerator, denominator)
  /\ UNCHANGED <<bag, denominator>>

\* finalize and serialize normalise in place.  (The conversion to Uint3072 does
\* not: it refuses a MuHash whose denominator is not one.)
normalize ==
  /\ ops < MaxOps /\ ops' = ops + 1
  /\ numerator' = div(numerator, denominator) /\ denominator' = one
  /\ UNCHANGED bag

MuNext ==
  \/ \E d \in Data : add_element(d) \/ remove_element(d)
  \/ \E d, e \in Data : combine(d, e)
  \/ normalize
-----------------------------------------------------------------------------
\* x to the k-th power modulo the prime, for negative k through the inverse.
Residue(a) == U!Value(a) % PRIME
Power(x, k) ==
  LET y == IF k >= 0 THEN x ELSE Residue(inverse(U!FromValue(x)))
  IN For(IF k >= 0 THEN k ELSE -k, 1, LAMBDA r, i : (r * y) % PRIME)

(* "the order of adding and removing elements doesn't matter": the value    *)
(* finalize hashes is a function of the net multiset alone, and is a        *)
(* canonical residue, however the operations and normalisations interleave. *)
MuHashCanonical ==
  LET strings == CHOOSE s \in [1..Cardinality(Data) -> Data] : \A d \in Data : \E i \in DOMAIN s : s[i] = d
      power(d) == Power(Residue(Element[d]), bag[d])
      product == For(Cardinality(Data), 1, LAMBDA r, i : (r * power(strings[i + 1])) % PRIME)
      exact(canonical) == /\ canonical = U!FromValue(product)
                          /\ deserialize(to_le_bytes(canonical)) = <<canonical>>
  IN exact(div(numerator, denominator))
=============================================================================
