---------------------------- MODULE MCArithmetic ----------------------------
(***************************************************************************)
(* The arithmetic under the consensus rules, against reference             *)
(* definitions on plain integers.  A state is either a case, an input of   *)
(* one of the algorithms, or a MuHash that elements are added to and       *)
(* removed from.                                                           *)
(***************************************************************************)
EXTENDS MuHash, Address, TLC

VARIABLE case

MuMachine == [k |-> "muhash"]
-----------------------------------------------------------------------------
\* Three words of 4 bits with bytes of 2; two words of 5 bits printed in base 2.
X == INSTANCE Uint WITH W <- 4, LIMBS <- 3, ByteBits <- 2, Ten <- 2
D == INSTANCE Uint WITH W <- 5, LIMBS <- 2, ByteBits <- 5, Ten <- 2
\* Two words of 6 bits, bytes of 2 bits: a mantissa fills a word.
T == INSTANCE Target WITH W <- 6, LIMBS <- 2, ByteBits <- 2
EdgeWords == [0..2 -> {0, 1, 8, 15}]
Values == EdgeWords \union {X!FromValue(n) : n \in {3, 10, 999, 2047, 3456}}
Int2 == [abs : 0..5, negative : BOOLEAN]
UintCases == [k : {"uint"}, a : Values, b : Values]
SignedCases == [k : {"signed"}, x : Int2, y : Int2]
TextCases == [k : {"text"}, n : 0..1023]

(* Every arithmetic operation of Uint returns the exact result modulo     *)
(* 2^BITS, whatever carries cross the words, and its flag says when the   *)
(* result was reduced.  The flag of overflowing_mul is no more than a     *)
(* proof of overflow, and exact when no two words whose product falls     *)
(* beyond the last word are both set: see MulOverflowFlagged.             *)
UintArithmetic ==
  /\ case.k = "signed" =>
       LET int(s) == IF s.negative THEN -s.abs ELSE s.abs
           quotient == case.x.abs \div case.y.abs
       IN /\ int(T!SignedSub(case.x, case.y)) = int(case.x) - int(case.y)
          /\ int(T!SignedMul(case.x, case.y)) = int(case.x) * int(case.y)
          /\ case.y.abs # 0 => int(T!SignedDiv(case.x, case.y))
                               = IF case.x.negative # case.y.negative THEN -quotient ELSE quotient
  /\ case.k = "uint" =>
    LET a == case.a  b == case.b
        x == X!Value(a)  y == X!Value(b)  M == 2^X!BITS
        w == b[0]
        exact(r, n) == X!Value(r[1]) = n % M /\ r[2] = (n \notin 0..M - 1)
        flag(r) == <<r[1], r[2] # 0>>
    IN /\ exact(flag(X!overflowing_add(a, b)), x + y)
       /\ exact(flag(X!overflowing_sub(a, b)), x - y)
       /\ exact(flag(X!overflowing_add_u64(a, w)), x + w)
       /\ exact(X!overflowing_mul_u64(a, w), x * w)
       /\ X!Value(X!Mul(a, b)) = (x * y) % M
       /\ LET flagged == X!overflowing_mul(a, b)[2]
              dropped == \E i, j \in X!Limb : i + j \notin X!Limb /\ a[i] * b[j] # 0
          IN /\ flagged => x * y >= M
             /\ ~dropped => flagged = (x * y >= M)
       /\ y # 0 => /\ X!Value(X!Div(a, b)) = x \div y /\ X!Value(X!Rem(a, b)) = x % y
       /\ w # 0 => X!Value(X!DivU64(a, w)) = x \div w /\ X!RemU64(a, w) = x % w
       /\ X!Add(X!Sub(a, b), b) = a
       /\ \A s \in {w, w + 4, w + 12} :
            /\ X!Value(X!overflowing_shl(a, s)[1]) = (x * 2^(s % X!BITS)) % M
            /\ X!Value(X!overflowing_shr(a, s)[1]) = x \div 2^(s % X!BITS)
       /\ X!Less(a, b) = (x < y)
       /\ X!LessU64(a, w) = (x < w) /\ X!EqU64(a, w) = (x = w)
       /\ LET n == X!as_u128(b) IN /\ X!LessU128(a, n) = (x < n) /\ X!EqU128(a, n) = (x = n)
                                   /\ X!TryU128(a) = IF x < 256 THEN <<x>> ELSE <<>>
       /\ X!bits(a) = IF x = 0 THEN 0 ELSE CHOOSE n \in 1..X!BITS : 2^(n - 1) <= x /\ x < 2^n
       /\ X!Value(X!BitAnd(a, b)) + X!Value(X!BitOr(a, b)) = x + y
       /\ X!Value(X!BitXor(a, b)) + 2 * X!Value(X!BitAnd(a, b)) = x + y
       /\ X!Value(X!Not(a)) = M - 1 - x
       /\ X!Value(X!Sum(<<a, b, a>>)) = (2 * x + y) % M
       /\ X!Product(<<a, b>>) = X!Mul(a, b) /\ X!Product(<<>>) = X!from_u64(1)

(* What the assertion of Mul says it checks, "that it didn't overflow": a  *)
(* product that does not fit is reported by overflowing_mul.               *)
MulOverflowFlagged ==
  case.k = "uint" => (X!Value(case.a) * X!Value(case.b) >= 2^X!BITS => X!overflowing_mul(case.a, case.b)[2])

\* The digits of n in a base, most significant first, and 0 as one digit.
Digits(n, base) ==
  LET d[m \in Nat] == IF m < base THEN <<m>> ELSE Append(d[m \div base], m % base) IN d[n]

(* The text and byte forms of a Uint denote its value, and what is         *)
(* written is read back: bytes in both orders, hexadecimal without leading *)
(* zeroes, binary, decimal in groups of four digits.                       *)
UintText ==
  case.k = "text" =>
    LET a == X!FromValue(case.n * 4 + (case.n % 3))  x == X!Value(a)
        hex == X!LowerHex(a)
    IN /\ X!from_le_bytes(X!to_le_bytes(a)) = a /\ X!from_be_bytes(X!to_be_bytes(a)) = a
       /\ X!Deserialize(X!Serialize(a)) = <<a>> /\ X!Deserialize(Tail(X!Serialize(a))) = <<>>
       /\ \A k \in 1..X!BYTES : X!to_le_bytes(a)[k] = (x \div 4^(k - 1)) % 4
       /\ hex = Digits(x, 2) /\ X!from_hex(hex) = <<a>>
       /\ X!Binary(a) = Digits(x, 2)
       /\ \A n \in {0, 5, 11, 12} : X!nth(a, 0, n) = IF n < 12 THEN <<(x \div 2^(11 - n)) % 2>> ELSE <<>>
       /\ D!Display(D!FromValue(case.n)) = Digits(case.n, 2)
-----------------------------------------------------------------------------
MCElement == <<U!FromValue(7), U!FromValue(3000), U!FromValue(4095)>>
U3072Cases == [k : {"u3072"}, a : [0..2 -> {0, 1, 8, 13, 15}], b : [0..2 -> {0, 1, 6, 13, 15}]]

(* The product of two residues is exact and, of canonical residues, below   *)
(* the prime, and no assertion of the multiplication fails, over the whole  *)
(* range of the limbs; division undoes it.                                  *)
U3072Exact ==
  case.k = "u3072" =>
    LET r == mul(case.a, case.b)  x == U!Value(case.a)  y == U!Value(case.b)
    IN /\ r.ok
       /\ U!Value(r.limbs) % PRIME = (x * y) % PRIME
       /\ ~is_overflow(r.limbs)
       /\ (x % 29 = 0 /\ y % PRIME # 0) => U!Value(div(r.limbs, case.b)) = x % PRIME
-----------------------------------------------------------------------------
TargetCases == [k : {"target"}, n : 0..4095]
WindowCases ==
  [k : {"window"}, stamps : [1..3 -> {0, 1, 3, 7}], bits : [1..3 -> {T!compact_target_bits(T!U!FromValue(n)) : n \in {1, 60, 4000}}]]

(* A target survives its compact form up to the precision of the mantissa,  *)
(* never grows, and keeps its order; the work of a target is the quotient   *)
(* the comment on calc_work derives, or the expect on its width.            *)
TargetExact ==
  /\ case.k = "target" =>
       LET compact(n) == T!compact_target_bits(T!U!FromValue(n))
           value(c) == T!U!Value(T!from_compact_target_bits(c))
           bits == T!U!bits(T!U!FromValue(case.n))
           lost == IF bits > 4 THEN 2^(bits - 4) ELSE 1
           work(t) == IF 4096 \div (t + 1) >= 64 THEN <<>> ELSE <<[i \in 0..0 |-> 4096 \div (t + 1)]>>
           exact(c, t) ==
             /\ case.n - t \in 0..lost - 1
             /\ T!compact_target_bits(T!from_compact_target_bits(c)) = c
             /\ case.n < 4095 => t <= value(compact(case.n + 1))
             /\ t > 0 => T!calc_work(c) = work(t)
       IN exact(compact(case.n), value(compact(case.n)))
  /\ case.k = "window" =>
       LET target(i) == T!U!Value(T!from_compact_target_bits(case.bits[i]))
           first == CHOOSE i \in 1..3 : \A j \in 1..3 \ {i} : case.stamps[i] < case.stamps[j] \/ (case.stamps[i] = case.stamps[j] /\ i < j)
           last == CHOOSE i \in 1..3 : \A j \in 1..3 : case.stamps[j] <= case.stamps[i]
           span == case.stamps[last] - case.stamps[first]
           mean == (target(1) + target(2) + target(3) - target(first)) \div 2
           new == ((mean * (IF span = 0 THEN 1 ELSE span)) \div 3) \div 2
           window == [i \in 1..3 |-> [timestamp |-> case.stamps[i], bits |-> case.bits[i]]]
       IN /\ T!calculate_difficulty_bits(window, 3, 99, 3)
               = IF new >= 4096 THEN <<>> ELSE <<T!compact_target_bits(T!U!FromValue(new))>>
          /\ T!calculate_difficulty_bits(window, 4, 99, 3) = <<99>>
-----------------------------------------------------------------------------
Addresses ==
  [prefix : Prefix, version : {0, 8},
   payload : {<<>>, <<255>>, <<45, 49>>, <<1, 2, 3, 4>>}]
AddressCases ==
  [k : {"address"}, a : Addresses, at : {0}, code : {0}]
  \union [k : {"address"}, a : [prefix : {Mainnet}, version : {8}, payload : {<<45, 49>>, <<1, 2, 3, 4>>}],
          at : 1..13, code : {CHARSET[i] : i \in 1..32} \union {32, 49, 98, 123, 195}]
  \union [k : {"short"}, prefix : Prefix, text : UNION {[1..n -> {113, 112, 49, 195}] : n \in 0..3} \union [1..7 -> {113}]]
\* A text of these symbols with the right checksum after them.
Sealed(symbols, prefix) ==
  LET s == symbols \o conv8to5(ToBytes(checksum(symbols, prefix))) IN [k \in DOMAIN s |-> CHARSET[s[k] + 1]]

(* An address is read back from its text, and one mistyped character of the *)
(* payload, or another network's prefix, or a text too short, is never read *)
(* as some address.  A wrong character is the checksum error, the character *)
(* error for a code of the table outside the alphabet, and a panic for a    *)
(* code beyond the table; which of the two is met first decides.  A text    *)
(* without a byte before its checksum panics.                               *)
AddressDetects ==
  /\ case.k = "short" =>
       LET outside(k) == case.text[k] \in {49, 195}
           bad == {k \in DOMAIN case.text : outside(k)}
           met == {k \in bad : \A j \in bad : k <= j}
       IN /\ decode_payload(case.prefix, case.text)
               = IF \E k \in met : case.text[k] = 49 THEN [err |-> "DecodingError"] ELSE Panic
          /\ case.text = <<>> =>
               \A s \in {<<>>} \union {<<x>> : x \in 0..31} : decode_payload(case.prefix, Sealed(s, case.prefix)) = Panic
  /\ case.k = "address" =>
    LET a == case.a
        read_back(text) ==
          /\ try_from(to_string(a)) = a
          /\ \A p \in Prefix \ {a.prefix} : decode_payload(p, text) = [err |-> "BadChecksum"]
          /\ try_from(text) = [err |-> "MissingPrefix"]
          /\ Len(conv8to5(<<a.version>> \o a.payload)) = ((Len(a.payload) + 1) * 8 + 4) \div 5
        detected(text) ==
          text[case.at] # case.code =>
            decode_payload(a.prefix, [text EXCEPT ![case.at] = case.code])
              = IF case.code > 122 THEN Panic
                ELSE [err |-> IF Rev(case.code) = 100 THEN "DecodingError" ELSE "BadChecksum"]
    IN IF case.at = 0 THEN read_back(encode_payload(a)) ELSE detected(encode_payload(a))
-----------------------------------------------------------------------------
\* Twelve bits of precision, and a tolerance of 1/64.
P3 == INSTANCE Pow WITH N <- 3, Shift <- 5, P <- 12, Eps <- 6
P2 == INSTANCE Pow WITH N <- 2, Shift <- 5, P <- 12, Eps <- 6
PowCases == [k : {"rank"}, m : {m \in [1..3 -> [1..3 -> {0, 3, 5}]] : m[1][2] = 3}]   \* rounding leaves residues
            \union [k : {"heavy"}, m : [1..2 -> [1..2 -> {0, 1, 7, 15}]], hash : {<<n>> : n \in {0, 15, 16, 119, 240, 255}}]
Det(m) == m[1][1] * (m[2][2] * m[3][3] - m[2][3] * m[3][2]) - m[1][2] * (m[2][1] * m[3][3] - m[2][3] * m[3][1])
          + m[1][3] * (m[2][1] * m[3][2] - m[2][2] * m[3][1])

(* The elimination is not misled by rounding at this size and precision:    *)
(* it reports full rank exactly for the matrices with a non-zero            *)
(* determinant, so generate only returns invertible ones; and the scaled    *)
(* products fit their nibbles, so that packing them loses nothing.          *)
PowExact ==
  /\ case.k = "rank" =>
       LET m == case.m  zero == [m EXCEPT ![2] = m[1]]
       IN /\ P3!compute_rank(m) = 3 <=> Det(m) # 0
          /\ P3!compute_rank(zero) < 3
          /\ P3!generate(<<zero, m>>) = IF Det(m) # 0 THEN <<m>> ELSE <<>>
  /\ case.k = "heavy" =>
       LET h == case.hash[1]  high == h \div 16  low == h % 16
           row(k) == (case.m[k][1] * high + case.m[k][2] * low) \div 32
       IN P2!heavy_hash(case.m, case.hash) = <<P2!XorByte(16 * row(1) + row(2), h)>>
-----------------------------------------------------------------------------
(* The fixed-width arithmetic of work, targets and proof of work agrees     *)
(* with that of the integers, at every carry, shift and limb boundary.      *)
ArithmeticExact == UintArithmetic /\ UintText /\ TargetExact /\ PowExact

(* The multiset hash is a group: its field arithmetic is exact, and equal   *)
(* sets have equal hashes however they were put together.                   *)
MuHashExact == U3072Exact /\ MuHashCanonical
=============================================================================
