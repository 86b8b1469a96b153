-------------------------------- MODULE Ghash --------------------------------
(***************************************************************************)
(* The arithmetic of encrypt02.c on real bytes: the multiplication of the  *)
(* field with 2^128 elements, bit by bit, the counters it stores and the   *)
(* comparison of tags; and the same multiplication and hash as SP 800-38D  *)
(* defines them, for reference.                                            *)
(***************************************************************************)
EXTENDS AesField, FiniteSets

LOCAL INSTANCE Integers

Zero == Sixteen(LAMBDA k : 0)

\* The n bytes of u, the most significant first.
Stored(n, u) == Table(n, LAMBDA i : (u \div 256^(n - 1 - i)) % 256)

store32(u) == Stored(4, u)
\* Lengths stay far below 2^31 here: the upper four bytes are 0.
store64(u) == <<0, 0, 0, 0>> \o Stored(4, u)

\* a ^ x, where x may be shorter.
Xored(a, x) == [i \in DOMAIN a |-> IF i <= Len(x) THEN a[i] ++ x[i] ELSE a[i]]

\* The 128 bits of a block, the most significant bit of each byte first: the
\* set of the indices where the bit is 1.
Bits(y) == {i \in 0..127 : Bit(y[(i \div 8) + 1], 7 - (i % 8))}
Bytes(p) == Sixteen(LAMBDA k : Packed({n \in 0..7 : 8 * k + 7 - n \in p}))

Odd(S) == Cardinality(S) % 2 = 1

------------------------------------------------------------------------------
\* prodbits before the reduction.
Prodbits(abits, ybits) == {n \in 0..254 : Odd({i \in abits : n - i \in ybits})}

\* Where pass i of the reduction moves bit i + 128: i, i + 1, i + 2 and i + 7.
Taps == {0, 1, 2, 7}

\* Mutation of Reduced: from the lowest bit up, so that what a later pass puts
\* above bit 127 is not reduced any more.
Reduced_Ascending(p) ==
  {n \in 0..127 : Odd({d \in Taps : d <= n /\ n - d + 128 \in p}) # (n \in p)}

\* The loop over i from 127 down to 0.  last[n] is bit n after the passes that
\* move something to n; for n above 127 they all come before pass n - 128,
\* which reads it.
Reduced(p) ==
  LET last[n \in 0..255] ==
        Odd({d \in Taps : n - d \in 0..127 /\ last[n - d + 128]}) <=> n \notin p
  IN  {n \in 0..127 : last[n]}

\* a = (a + x) * y
addmul(a, x, y) == Bytes(Reduced(Prodbits(Bits(Xored(a, x)), Bits(y))))

\* The bits that are set in one of two bytes.
Or[a, b \in Byte] ==
  IF a = 0 /\ b = 0 THEN 0
  ELSE (IF 1 \in {a % 2, b % 2} THEN 1 ELSE 0) + 2 * Or[a \div 2, b \div 2]

\* TRUE when crypto_verify_16 returns 0: differentbits is unsigned, and 0 - 1
\* wraps around.
crypto_verify_16(x, y) ==
  LET different[i \in 0..16] == IF i = 0 THEN 0 ELSE Or[different[i - 1], x[i] ++ y[i]]
      differentbits == different[16]
      before == IF differentbits = 0 THEN 2^24 - 1 ELSE (differentbits - 1) \div 256
  IN  before % 2 = 1

------------------------------------------------------------------------------
\* SP 800-38D, section 6.3: blocks are polynomials over the field of two
\* elements, multiplied modulo u^128 + u^7 + u^2 + u + 1.
Plus(x, y) == (x \ y) \cup (y \ x)

\* The remainder of u^n.
Power[n \in 0..254] ==
  IF n < 128 THEN {n}
  ELSE Plus(Plus(Power[n - 128], Power[n - 127]), Plus(Power[n - 126], Power[n - 121]))

Remainders == [n \in 0..254 |-> Power[n]]

Dot(x, y) ==
  LET product == {n \in 0..254 : Odd({i \in x : n - i \in y})}
  IN  {n \in 0..127 : Odd({k \in product : n \in Remainders[k]})}

\* Block n of the string c, completed with zeros.
BlockAt(c, n) == Sixteen(LAMBDA k : IF 16 * (n - 1) + k < Len(c) THEN c[16 * (n - 1) + k + 1] ELSE 0)

\* Section 6.4, over n blocks of c.
GHASH(h, c, n) ==
  LET y[k \in 0..n] ==
        IF k = 0 THEN {} ELSE Dot(Plus(y[k - 1], Bits(BlockAt(c, k))), Bits(h))
  IN  Bytes(y[n])
==============================================================================
