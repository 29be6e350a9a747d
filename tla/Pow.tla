-------------------------------- MODULE Pow ---------------------------------
(***************************************************************************)
(* consensus/pow: the heavy hash.  The matrix is N by N (64 in the code)   *)
(* with 4-bit entries, a hash is N \div 2 bytes, and the products are      *)
(* shifted right by Shift (10 = 4 + log2 64).  compute_rank works on       *)
(* binary floats, rounded to the nearest after every operation: P bits of  *)
(* precision instead of 53, and a tolerance of 2^-Eps instead of 1e-9.     *)
(* The generator is external: the sequence of matrices it yields.          *)
(***************************************************************************)
EXTENDS Integers, Sequences

CONSTANTS N, Shift, P, Eps

Rows == 1..N
-----------------------------------------------------------------------------
(* A float <<m, e>> is m * 2^e, with m of P bits, or zero.                 *)

Abs(x) == IF x < 0 THEN -x ELSE x
Sign(x) == IF x < 0 THEN -1 ELSE 1
BitLength(n) == CHOOSE k \in 0..30 : 2^k > n /\ (k = 0 \/ 2^(k - 1) <= n)

\* The float nearest to n * 2^e, the even one of two.
Round(n, e) ==
  LET k == BitLength(Abs(n)) - P
      q == Abs(n) \div 2^k  r == 2 * (Abs(n) % 2^k)
      m == IF r > 2^k \/ (r = 2^k /\ q % 2 = 1) THEN q + 1 ELSE q
  IN IF n = 0 THEN <<0, 0>>
     ELSE IF k <= 0 THEN <<n * 2^(-k), e + k>>
     ELSE IF m = 2^P THEN <<Sign(n) * 2^(P - 1), e + k + 1>>
     ELSE <<Sign(n) * m, e + k>>

Times(x, y) == Round(x[1] * y[1], x[2] + y[2])
\* One bit stands for all that is left of the quotient.
Over(x, y) ==
  LET n == Abs(x[1]) * 2^(P + 1)  d == Abs(y[1])
  IN Round(Sign(x[1]) * Sign(y[1]) * (2 * (n \div d) + (IF n % d = 0 THEN 0 ELSE 1)), x[2] - y[2] - P - 2)
\* An operand far below the last bit of the other is lost.
Minus(x, y) ==
  CASE y[1] = 0 \/ (x[1] # 0 /\ x[2] - y[2] > P + 2) -> x
    [] x[1] = 0 \/ y[2] - x[2] > P + 2 -> <<-y[1], y[2]>>
    [] OTHER -> LET e == IF x[2] < y[2] THEN x[2] ELSE y[2]
                IN Round(x[1] * 2^(x[2] - e) - y[1] * 2^(y[2] - e), e)
\* abs() > EPS
Exceeds(x) == x[1] # 0 /\ (P - 1 + x[2] > -Eps \/ (P - 1 + x[2] = -Eps /\ Abs(x[1]) > 2^(P - 1)))
-----------------------------------------------------------------------------
\* One column: the first unused row whose entry is not near zero is the pivot.
eliminate(s, i) ==
  LET usable == {j \in Rows \ s.selected : Exceeds(s.mat[j][i])}
      j == CHOOSE x \in usable : \A y \in usable : x <= y
      pivot == [p \in Rows |-> IF p > i THEN Over(s.mat[j][p], s.mat[j][i]) ELSE s.mat[j][p]]
      below(k) == [p \in Rows |-> IF p > i THEN Minus(s.mat[k][p], Times(pivot[p], s.mat[k][i])) ELSE s.mat[k][p]]
  IN IF usable = {} THEN s
     ELSE [rank |-> s.rank + 1, selected |-> s.selected \union {j},
           mat |-> [k \in Rows |-> IF k = j THEN pivot ELSE IF Exceeds(s.mat[k][i]) THEN below(k) ELSE s.mat[k]]]
convert_to_float(m) == [k \in Rows |-> [p \in Rows |-> Round(m[k][p], 0)]]
compute_rank(m) ==
  LET s[i \in 0..N] ==
        IF i = 0 THEN [rank |-> 0, selected |-> {}, mat |-> convert_to_float(m)] ELSE eliminate(s[i - 1], i)
  IN s[N].rank

\* The first matrix of full rank; <<>> while the generator has not produced one.
generate(stream) ==
  LET full == {k \in DOMAIN stream : compute_rank(stream[k]) = N}
  IN IF full = {} THEN <<>> ELSE <<stream[CHOOSE k \in full : \A j \in full : k <= j]>>

\* The two nibbles of every byte times the matrix, scaled back to nibbles.
nibbles(hash) == [k \in Rows |-> IF k % 2 = 1 THEN hash[(k + 1) \div 2] \div 16 ELSE hash[k \div 2] % 16]
product(m, hash) ==
  LET vec == nibbles(hash)
      sum[k \in Rows, j \in 0..N] == IF j = 0 THEN 0 ELSE (sum[k, j - 1] + m[k][j] * vec[j]) % 2^16
  IN [i \in 1..N \div 2 |-> <<sum[2 * i - 1, N] \div 2^Shift, sum[2 * i, N] \div 2^Shift>>]
XorByte(a, b) ==
  LET x[k \in 0..8] == IF k = 0 THEN 0 ELSE x[k - 1] + 2^(k - 1) * ((a \div 2^(k - 1) + b \div 2^(k - 1)) % 2)
  IN x[8]
heavy_hash(m, hash) ==
  LET p == product(m, hash)
  IN [i \in DOMAIN p |-> XorByte(((p[i][1] * 16) % 256) + p[i][2], hash[i])]
=============================================================================
