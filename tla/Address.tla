------------------------------ MODULE Address -------------------------------
(***************************************************************************)
(* crypto/addresses: the text form of an address.  A string is a sequence  *)
(* of ASCII codes.  The checksum register of polymod is 40 bits wide; it   *)
(* is kept as its eight 5-bit symbols, most significant first, so that the *)
(* shift by five moves symbols and the masks apply symbol by symbol.       *)
(***************************************************************************)
EXTENDS Integers, Sequences

CHARSET == <<113, 112, 122, 114, 121, 57, 120, 56, 103, 102, 50, 116, 118, 100, 119, 48,
             115, 51, 106, 110, 53, 52, 107, 104, 99, 101, 54, 109, 117, 97, 55, 108>>
REV_CHARSET ==   \* the table from code 48 on, up to 122; the codes below hold 100
  <<15, 100, 10, 17, 21, 20, 26, 30, 7, 5, 100, 100, 100, 100, 100, 100, 100, 100, 100, 100, 100, 100,
    100, 100, 100, 100, 100, 100, 100, 100, 100, 100, 100, 100, 100, 100, 100, 100, 100, 100, 100, 100, 100, 100,
    100, 100, 100, 100, 100, 29, 100, 24, 13, 25, 9, 8, 23, 100, 18, 22, 31, 27, 19, 100, 1, 0,
    3, 16, 11, 28, 12, 14, 6, 4, 2>>
Rev(code) == IF code < 48 THEN 100 ELSE REV_CHARSET[code - 47]

Colon == 58
Mainnet == <<107, 97, 115, 112, 97>>
Prefix == {Mainnet, Mainnet \o <<116, 101, 115, 116>>, Mainnet \o <<100, 101, 118>>}

Xor(a, b) ==
  LET bit(n, k) == (n \div 2^k) % 2
      x(k) == 2^k * ((bit(a, k) + bit(b, k)) % 2)
  IN x(0) + x(1) + x(2) + x(3) + x(4)
XorTable == [p \in (0..31) \X (0..31) |-> Xor(p[1], p[2])]

Generator == <<<<19, 3, 25, 11, 25, 3, 19, 1>>, <<15, 6, 27, 22, 27, 6, 15, 2>>, <<30, 12, 31, 5, 31, 12, 30, 4>>,
               <<21, 24, 23, 10, 23, 24, 21, 8>>, <<3, 25, 7, 20, 7, 25, 3, 16>>>>

polymod(values) ==
  LET mask(c0, g, c) == IF (c0 \div 2^(g - 1)) % 2 = 0 THEN c
                        ELSE [k \in 1..8 |-> XorTable[<<c[k], Generator[g][k]>>]]
      step(c, d) == LET c0 == c[1]
                        shifted == [k \in 1..8 |-> IF k < 8 THEN c[k + 1] ELSE d]
                    IN mask(c0, 5, mask(c0, 4, mask(c0, 3, mask(c0, 2, mask(c0, 1, shifted)))))
      c[i \in 0..Len(values)] == IF i = 0 THEN <<0, 0, 0, 0, 0, 0, 0, 1>> ELSE step(c[i - 1], values[i])
  IN [c[Len(values)] EXCEPT ![8] = Xor(@, 1)]

\* Mutant: the checksum does not cover the prefix.
BugChecksum(payload, prefix) == polymod(<<0>> \o payload \o [k \in 1..8 |-> 0])
checksum(payload, prefix) ==
  polymod([k \in DOMAIN prefix |-> prefix[k] % 32] \o <<0>> \o payload \o [k \in 1..8 |-> 0])

\* The shared loop of conv8to5 and conv5to8: groups of `from` bits pour into a
\* buffer, groups of `to` bits leave it.
regroup(payload, from, to) ==
  LET drain[s \in [out : Seq(Nat), buff : Nat, bits : Nat]] ==
        IF s.bits < to THEN s
        ELSE LET bits == s.bits - to
             IN drain[[out |-> Append(s.out, s.buff \div 2^bits), buff |-> s.buff % 2^bits, bits |-> bits]]
      s[i \in 0..Len(payload)] ==
        IF i = 0 THEN [out |-> <<>>, buff |-> 0, bits |-> 0]
        ELSE drain[[s[i - 1] EXCEPT !.buff = @ * 2^from + payload[i], !.bits = @ + from]]
  IN s[Len(payload)]

conv8to5(payload) ==
  LET flush(s) == IF s.bits > 0 THEN Append(s.out, s.buff * 2^(5 - s.bits)) ELSE s.out
  IN flush(regroup(payload, 8, 5))
conv5to8(payload) == regroup(payload, 5, 8).out

\* The last five of the checksum's eight big-endian bytes.
ToBytes(c) == conv5to8(c)

encode_payload(a) ==
  LET symbols(fivebit_payload) == fivebit_payload \o conv8to5(ToBytes(checksum(fivebit_payload, a.prefix)))
      text(s) == [k \in DOMAIN s |-> CHARSET[s[k] + 1]]
  IN text(symbols(conv8to5(<<a.version>> \o a.payload)))

\* The address, or the error.  Three things panic: indexing REV_CHARSET with
\* the code of a character beyond "z", before the scan met one that is outside
\* the alphabet; address.len() - 8 of a shorter text; and payload_u8[0] of a
\* text whose checksum is right but that has no byte before it.
Panic == [err |-> "Panic"]
decode_payload(prefix, address) ==
  LET beyond(k) == address[k] > 122
      stops == {k \in DOMAIN address : beyond(k) \/ Rev(address[k]) = 100}
      u5 == [k \in DOMAIN address |-> Rev(address[k])]
      n == Len(address) - 8
      payload_u5 == SubSeq(u5, 1, n)
      payload_u8 == conv5to8(payload_u5)
  IN IF stops # {}
     THEN IF beyond(CHOOSE k \in stops : \A j \in stops : k <= j) THEN Panic ELSE [err |-> "DecodingError"]
     ELSE IF n < 0 THEN Panic
     ELSE IF ToBytes(checksum(payload_u5, prefix)) # conv5to8(SubSeq(u5, n + 1, Len(u5)))
          THEN [err |-> "BadChecksum"]
     ELSE IF payload_u8 = <<>> THEN Panic
     ELSE [prefix |-> prefix, version |-> payload_u8[1], payload |-> Tail(payload_u8)]

\* String::from(address), and Address::try_from(string).
to_string(a) == a.prefix \o <<Colon>> \o encode_payload(a)
try_from(value) ==
  LET at == {k \in DOMAIN value : value[k] = Colon}
      k == CHOOSE i \in at : \A j \in at : i <= j
  IN IF at = {} THEN [err |-> "MissingPrefix"]
     ELSE IF SubSeq(value, 1, k - 1) \notin Prefix THEN [err |-> "InvalidPrefix"]
     ELSE decode_payload(SubSeq(value, 1, k - 1), SubSeq(value, k + 1, Len(value)))
=============================================================================
