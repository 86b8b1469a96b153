------------------------------ MODULE AesField ------------------------------
(***************************************************************************)
(* AES as FIPS 197 defines it: the reference for the backends.             *)
(*                                                                         *)
(* A byte is a number of 0..255, a word a sequence of four bytes, a block  *)
(* a sequence of sixteen (the state of the standard in memory order: byte  *)
(* 4c + r is row r of column c) and a key schedule a sequence of words.    *)
(* Offsets are those of the C arrays, from 0; s[k + 1] is byte k of s.     *)
(***************************************************************************)
EXTENDS Naturals, Sequences

LOCAL Sets == INSTANCE FiniteSetsExt

Byte == 0..255
Word == [1..4 -> Byte]
Block == [1..16 -> Byte]

\* Bit n of a byte, and the byte that has the bits p.
Bit(x, n) == (x \div 2^n) % 2 = 1
Packed(p) == Sets!SumSet({2^n : n \in p})

\* <<f(0), f(1), .., f(n - 1)>>.  SubSeq has TLC evaluate the table once.
Table(n, f(_)) == SubSeq([i \in 1..n |-> f(i - 1)], 1, n)
Four(f(_)) == Table(4, f)
Eight(f(_)) == Table(8, f)
Sixteen(f(_)) == Table(16, f)

\* Bit by bit, addition modulo 2.
Xor[a, b \in Byte] ==
  IF a = 0 /\ b = 0 THEN 0 ELSE ((a + b) % 2) + 2 * Xor[a \div 2, b \div 2]

Sums == Table(256, LAMBDA a : Table(256, LAMBDA b : Xor[a, b]))

\* The sum of two bytes in the field, the ^ of C.
a ++ b == Sums[a + 1][b + 1]

\* What proofs use of bytes, and TLC evaluates for every byte and pair of bytes:
\* a byte is made of its bits, and ^ adds bit by bit.
ASSUME ByteAssumption ==
  /\ \A p \in SUBSET (0..7) :
       Packed(p) \in Byte /\ \A n \in 0..7 : Bit(Packed(p), n) <=> n \in p
  /\ Packed({}) = 0
  /\ \A a \in Byte : Packed({n \in 0..7 : Bit(a, n)}) = a
  /\ \A a, x \in Byte :
       a ++ x \in Byte /\ \A n \in 0..7 : Bit(a ++ x, n) <=> (Bit(a, n) <=> ~ Bit(x, n))

AddWords(t, u) == Four(LAMBDA i : t[i + 1] ++ u[i + 1])
AddBlocks(s, t) == Sixteen(LAMBDA k : s[k + 1] ++ t[k + 1])

\* Round key r of a schedule, as a block.
RoundKey(w, r) == Sixteen(LAMBDA k : w[4 * r + (k \div 4) + 1][(k % 4) + 1])

------------------------------------------------------------------------------
\* The field with 256 elements, modulo x^8 + x^4 + x^3 + x + 1.

Double(a) == IF a < 128 THEN 2 * a ELSE (2 * a - 256) ++ 27

Product[a, x \in Byte] ==
  IF x = 0 THEN 0
  ELSE (IF x % 2 = 1 THEN a ELSE 0) ++ Product[Double(a), x \div 2]

Products == Table(256, LAMBDA a : Table(256, LAMBDA x : Product[a, x]))

Times(a, x) == Products[a + 1][x + 1]

Reciprocal(a) == IF a = 0 THEN 0 ELSE CHOOSE x \in Byte : Times(a, x) = 1

\* x with its bits moved n places up, and around.
Rotated(x, n) == ((x * 2^n) % 256) + (x \div 2^(8 - n))

Affine(x) ==
  x ++ Rotated(x, 1) ++ Rotated(x, 2) ++ Rotated(x, 3) ++ Rotated(x, 4) ++ 99

SBox == Table(256, LAMBDA x : Affine(Reciprocal(x)))
Sub(x) == SBox[x + 1]

\* What proofs use of the field, evaluated in the same way: doubling moves the
\* bits up by one and adds the polynomial for the bit that is lost.
ASSUME FieldAssumption ==
  /\ \A x \in Byte :
       /\ Sub(x) \in Byte /\ Times(x, 2) \in Byte /\ Times(x, 3) = Times(x, 2) ++ x
       /\ \A n \in 0..7 :
            Bit(Times(x, 2), n) <=>
              ((n > 0 /\ Bit(x, n - 1)) <=> ~ (n \in {0, 1, 3, 4} /\ Bit(x, 7)))

------------------------------------------------------------------------------
\* The transformations of the state, and one round.

FSubBytes(s) == Sixteen(LAMBDA k : Sub(s[k + 1]))
FShiftRows(s) == Sixteen(LAMBDA k : s[((k + 4 * (k % 4)) % 16) + 1])
FMixColumns(s) ==
  Sixteen(LAMBDA k :
    LET row(n) == s[4 * (k \div 4) + ((k + n) % 4) + 1]
    IN  Times(row(0), 2) ++ Times(row(1), 3) ++ row(2) ++ row(3))

FRound(s, w, r, nr) ==
  LET shifted == FShiftRows(FSubBytes(s))
  IN  AddBlocks(IF r = nr THEN shifted ELSE FMixColumns(shifted), RoundKey(w, r))

\* The round constants x^(i-1), i = 1..10.
FRcon == <<1, 2, 4, 8, 16, 32, 64, 128, 27, 54>>

\* What is added to word i - nk of the schedule w to give its word i.
FTemp(w, i, nk) ==
  LET t == w[i]
      sub(u) == Four(LAMBDA j : Sub(u[j + 1]))
  IN  IF i % nk = 0
      THEN AddWords(sub(<<t[2], t[3], t[4], t[1]>>), <<FRcon[i \div nk], 0, 0, 0>>)
      ELSE IF nk > 6 /\ i % nk = 4 THEN sub(t) ELSE t

\* w is the beginning of the schedule of a key of nk words.
Scheduled(w, nk) ==
  \A i \in nk..(Len(w) - 1) : w[i + 1] = AddWords(w[i - nk + 1], FTemp(w, i, nk))
==============================================================================
