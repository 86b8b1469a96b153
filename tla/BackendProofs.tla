---------------------------- MODULE BackendProofs ----------------------------
(***************************************************************************)
(* Every backend computes AES, for every key and block: the lemmas on its  *)
(* key expansion and on its rounds, and the invariant of a call.           *)
(*                                                                         *)
(* Tables, doubling and the circuit of the S-box are taken for every byte  *)
(* from the assumptions that TLC evaluates; what is proved is that the     *)
(* loops put them together as FIPS 197 does.                               *)
(***************************************************************************)
EXTENDS Backends, Integers, TLAPS

------------------------------------------------------------------------------
\* The instance of Fips197 defines the operators of AesField again.
LEMMA SameXor == \A a, x : Aes!++(a, x) = a ++ x
<1>1. Aes!Xor = Xor
  BY DEF Aes!Xor, Xor, Aes!Byte, Byte
<1>2. Aes!Sums = Sums
  BY <1>1 DEF Aes!Sums, Sums, Aes!Table, Table
<1> QED BY <1>2 DEF Aes!++, ++

\* Sums of words and of blocks, and round keys.
LEMMA SameSums ==
  /\ \A t, u : Aes!AddWords(t, u) = AddWords(t, u)
  /\ \A t, u : Aes!AddBlocks(t, u) = AddBlocks(t, u)
  /\ \A sched, j : Aes!RoundKey(sched, j) = RoundKey(sched, j)
<1>1. \A t, u : Aes!AddWords(t, u) = AddWords(t, u)
  BY SameXor DEF Aes!AddWords, AddWords, Aes!Four, Four, Aes!Table, Table
<1>2. \A t, u : Aes!AddBlocks(t, u) = AddBlocks(t, u)
  BY SameXor DEF Aes!AddBlocks, AddBlocks, Aes!Sixteen, Sixteen, Aes!Table, Table
<1>3. \A sched, j : Aes!RoundKey(sched, j) = RoundKey(sched, j)
  BY DEF Aes!RoundKey, RoundKey, Aes!Sixteen, Sixteen, Aes!Table, Table
<1> QED BY <1>1, <1>2, <1>3

\* Products in the field.
LEMMA SameTimes == \A a, x : Aes!Times(a, x) = Times(a, x)
<1>1. Aes!Product = Product
  BY DEF Aes!Product, Product, Aes!Double, Double, Aes!++, ++, Aes!Sums, Sums,
         Aes!Xor, Xor, Aes!Byte, Byte, Aes!Table, Table
<1>2. Aes!Products = Products
  BY <1>1 DEF Aes!Products, Products, Aes!Table, Table
<1> QED BY <1>2 DEF Aes!Times, Times

\* The S-box.
LEMMA SameSub == \A x : Aes!Sub(x) = Sub(x)
<1>1. \A x : Aes!Reciprocal(x) = Reciprocal(x)
  BY DEF Aes!Reciprocal, Reciprocal, Aes!Times, Times, Aes!Products, Products,
         Aes!Product, Product, Aes!Double, Double, Aes!++, ++, Aes!Sums, Sums,
         Aes!Xor, Xor, Aes!Byte, Byte, Aes!Table, Table
<1>2. \A x, n : Aes!Rotated(x, n) = Rotated(x, n)
  BY DEF Aes!Rotated, Rotated
<1>3. \A x : Aes!Affine(x) = Affine(x)
  BY <1>2, SameXor DEF Aes!Affine, Affine
<1>4. Aes!SBox = SBox
  BY <1>1, <1>3 DEF Aes!SBox, SBox, Aes!Table, Table
<1> QED BY <1>4 DEF Aes!Sub, Sub

\* A round.
LEMMA SameRound == \A x, sched, j, n : Aes!FRound(x, sched, j, n) = FRound(x, sched, j, n)
<1>1. \A x : Aes!FSubBytes(x) = FSubBytes(x)
  BY SameSub DEF Aes!FSubBytes, FSubBytes, Aes!Sixteen, Sixteen, Aes!Table, Table
<1>2. \A x : Aes!FShiftRows(x) = FShiftRows(x)
  BY DEF Aes!FShiftRows, FShiftRows, Aes!Sixteen, Sixteen, Aes!Table, Table
<1>3. \A x : Aes!FMixColumns(x) = FMixColumns(x)
  BY SameXor, SameTimes
     DEF Aes!FMixColumns, FMixColumns, Aes!Sixteen, Sixteen, Aes!Table, Table
<1> QED BY <1>1, <1>2, <1>3, SameSums DEF Aes!FRound, FRound

\* The schedule of a key.
LEMMA SameScheduled == \A sched, n : Aes!Scheduled(sched, n) <=> Scheduled(sched, n)
<1>1. \A sched, i, n : Aes!FTemp(sched, i, n) = FTemp(sched, i, n)
  BY SameSub, SameSums
     DEF Aes!FTemp, FTemp, Aes!FRcon, FRcon, Aes!Four, Four, Aes!Table, Table
<1> QED BY <1>1, SameSums DEF Aes!Scheduled, Scheduled

------------------------------------------------------------------------------
\* Bytes, words and blocks.


\* Bytes with the same bits are equal.
LEMMA SameBits ==
  ASSUME NEW x \in Byte, NEW y \in Byte, \A n \in 0..7 : Bit(x, n) <=> Bit(y, n)
  PROVE  x = y
<1>1. {n \in 0..7 : Bit(x, n)} = {n \in 0..7 : Bit(y, n)}
  OBVIOUS
<1> QED BY <1>1, ByteAssumption

\* The sum of bytes is a byte,
LEMMA SumType == \A x, y \in Byte : x ++ y \in Byte
BY ByteAssumption

\* added bit by bit.
LEMMA SumBits ==
  \A x, y \in Byte : \A n \in 0..7 : Bit(x ++ y, n) <=> (Bit(x, n) <=> ~ Bit(y, n))
BY ByteAssumption

\* Zero has no bits,
LEMMA ZeroByte == 0 \in Byte /\ \A n \in 0..7 : ~ Bit(0, n)
<1>1. {} \in SUBSET (0..7)
  OBVIOUS
<1> QED BY <1>1, ByteAssumption

\* and adding it changes nothing.
LEMMA SumZero == \A x \in Byte : x ++ 0 = x
<1> SUFFICES ASSUME NEW x \in Byte PROVE x ++ 0 = x
  OBVIOUS
<1>1. x ++ 0 \in Byte /\ \A n \in 0..7 : Bit(x ++ 0, n) <=> Bit(x, n)
  BY SumType, SumBits, ZeroByte
<1> QED BY <1>1, SameBits

\* Sums may be reordered
LEMMA SumSwap == \A x, y \in Byte : x ++ y = y ++ x
<1> SUFFICES ASSUME NEW x \in Byte, NEW y \in Byte PROVE x ++ y = y ++ x
  OBVIOUS
<1>1. /\ x ++ y \in Byte /\ y ++ x \in Byte
      /\ \A n \in 0..7 : Bit(x ++ y, n) <=> Bit(y ++ x, n)
  BY SumType, SumBits
<1> QED BY <1>1, SameBits

\* and grouped.
LEMMA SumGroup == \A x, y, z \in Byte : (x ++ y) ++ z = x ++ (y ++ z)
<1> SUFFICES ASSUME NEW x \in Byte, NEW y \in Byte, NEW z \in Byte
             PROVE  (x ++ y) ++ z = x ++ (y ++ z)
  OBVIOUS
<1>1. x ++ y \in Byte /\ y ++ z \in Byte /\ (x ++ y) ++ z \in Byte /\ x ++ (y ++ z) \in Byte
  BY SumType
<1>2. \A n \in 0..7 : Bit((x ++ y) ++ z, n) <=> Bit(x ++ (y ++ z), n)
  BY <1>1, SumBits
<1> QED BY <1>1, <1>2, SameBits

\* Tables are the functions that they tabulate.
LEMMA WholeTable ==
  /\ \A S : \A f \in [1..4 -> S] : SubSeq(f, 1, 4) = f
  /\ \A S : \A f \in [1..8 -> S] : SubSeq(f, 1, 8) = f
  /\ \A S : \A f \in [1..16 -> S] : SubSeq(f, 1, 16) = f
OBVIOUS

\* The sum of two words is a word.
LEMMA AddWordsOf ==
  ASSUME NEW t \in Word, NEW u \in Word
  PROVE  AddWords(t, u) = [i \in 1..4 |-> t[i] ++ u[i]] /\ AddWords(t, u) \in Word
<1> DEFINE f == [i \in 1..4 |-> t[i] ++ u[i]]
<1>1. f \in Word
  BY SumType DEF Word
<1>2. AddWords(t, u) = SubSeq([i \in 1..4 |-> t[(i - 1) + 1] ++ u[(i - 1) + 1]], 1, 4)
  BY DEF AddWords, Four, Table
<1>3. [i \in 1..4 |-> t[(i - 1) + 1] ++ u[(i - 1) + 1]] = f
  <2>1. \A i \in 1..4 : (i - 1) + 1 = i
    OBVIOUS
  <2> QED BY <2>1
<1>4. SubSeq(f, 1, 4) = f
  <2> HIDE DEF f
  <2> QED BY <1>1, WholeTable DEF Word
<1> QED BY <1>1, <1>2, <1>3, <1>4

\* The sum of two blocks is a block.
LEMMA AddBlocksOf ==
  ASSUME NEW t \in Block, NEW u \in Block
  PROVE  AddBlocks(t, u) = [i \in 1..16 |-> t[i] ++ u[i]] /\ AddBlocks(t, u) \in Block
<1> DEFINE f == [i \in 1..16 |-> t[i] ++ u[i]]
<1>1. f \in Block
  BY SumType DEF Block
<1>2. AddBlocks(t, u) = SubSeq([i \in 1..16 |-> t[(i - 1) + 1] ++ u[(i - 1) + 1]], 1, 16)
  BY DEF AddBlocks, Sixteen, Table
<1>3. [i \in 1..16 |-> t[(i - 1) + 1] ++ u[(i - 1) + 1]] = f
  <2>1. \A i \in 1..16 : (i - 1) + 1 = i
    OBVIOUS
  <2> QED BY <2>1
<1>4. SubSeq(f, 1, 16) = f
  <2> HIDE DEF f
  <2> QED BY <1>1, WholeTable DEF Block
<1> QED BY <1>1, <1>2, <1>3, <1>4

\* Words add like bytes.
LEMMA WordSums ==
  /\ \A t, u \in Word : AddWords(t, u) \in Word
  /\ \A t, u \in Word : AddWords(t, u) = AddWords(u, t)
  /\ \A t, u, z \in Word : AddWords(AddWords(t, u), z) = AddWords(t, AddWords(u, z))
  /\ \A t, u \in Word : AddWords(AddWords(t, u), u) = t
<1>1. \A t, u \in Word : AddWords(t, u) \in Word
  BY AddWordsOf
<1>2. ASSUME NEW t \in Word, NEW u \in Word PROVE AddWords(t, u) = AddWords(u, t)
  <2>1. \A i \in 1..4 : t[i] ++ u[i] = u[i] ++ t[i]
    BY SumSwap DEF Word
  <2>2. [i \in 1..4 |-> t[i] ++ u[i]] = [i \in 1..4 |-> u[i] ++ t[i]]
    BY <2>1
  <2>3. AddWords(t, u) = [i \in 1..4 |-> t[i] ++ u[i]]
    BY AddWordsOf
  <2>4. AddWords(u, t) = [i \in 1..4 |-> u[i] ++ t[i]]
    BY AddWordsOf
  <2> QED BY <2>2, <2>3, <2>4
<1>3. ASSUME NEW t \in Word, NEW u \in Word, NEW z \in Word
      PROVE  AddWords(AddWords(t, u), z) = AddWords(t, AddWords(u, z))
  <2>1. \A i \in 1..4 : (t[i] ++ u[i]) ++ z[i] = t[i] ++ (u[i] ++ z[i])
    BY SumGroup DEF Word
  <2>2. /\ AddWords(t, u) = [i \in 1..4 |-> t[i] ++ u[i]] /\ AddWords(t, u) \in Word
        /\ AddWords(u, z) = [i \in 1..4 |-> u[i] ++ z[i]] /\ AddWords(u, z) \in Word
    BY AddWordsOf
  <2>3. /\ AddWords(AddWords(t, u), z) = [i \in 1..4 |-> AddWords(t, u)[i] ++ z[i]]
        /\ AddWords(t, AddWords(u, z)) = [i \in 1..4 |-> t[i] ++ AddWords(u, z)[i]]
    BY <2>2, AddWordsOf
  <2>4. \A i \in 1..4 : AddWords(t, u)[i] ++ z[i] = t[i] ++ AddWords(u, z)[i]
    BY <2>1, <2>2
  <2> QED BY <2>3, <2>4
<1>4. ASSUME NEW t \in Word, NEW u \in Word PROVE AddWords(AddWords(t, u), u) = t
  <2>1. \A x, y \in Byte : (x ++ y) ++ y = x
    <3> SUFFICES ASSUME NEW x \in Byte, NEW y \in Byte PROVE (x ++ y) ++ y = x
      OBVIOUS
    <3>1. /\ x ++ y \in Byte /\ (x ++ y) ++ y \in Byte
          /\ \A n \in 0..7 : Bit((x ++ y) ++ y, n) <=> Bit(x, n)
      BY SumType, SumBits
    <3> QED BY <3>1, SameBits
  <2>2. AddWords(t, u) = [i \in 1..4 |-> t[i] ++ u[i]] /\ AddWords(t, u) \in Word
    BY AddWordsOf
  <2>3. AddWords(AddWords(t, u), u) = [i \in 1..4 |-> AddWords(t, u)[i] ++ u[i]]
    BY <2>2, AddWordsOf
  <2>4. \A i \in 1..4 : AddWords(t, u)[i] ++ u[i] = t[i]
    BY <2>1, <2>2 DEF Word
  <2> QED BY <2>3, <2>4 DEF Word
<1> QED BY <1>1, <1>2, <1>3, <1>4

------------------------------------------------------------------------------
\* The key expansion.

\* The S-box on every byte of a word.
FSubWord(u) == Four(LAMBDA j : Sub(u[j + 1]))

\* SubWord of the code substitutes every byte.
LEMMA SubWordOf ==
  ASSUME NEW u \in Word
  PROVE  /\ FSubWord(u) = [i \in 1..4 |-> Sub(u[i])] /\ FSubWord(u) \in Word
         /\ SubWord(u) = FSubWord(u)
<1> DEFINE f == [i \in 1..4 |-> Sub(u[i])]
<1>1. f \in Word
  BY FieldAssumption DEF Word
<1>2. \A i \in 1..4 : (i - 1) + 1 = i
  OBVIOUS
<1>3. FSubWord(u) = SubSeq([i \in 1..4 |-> Sub(u[(i - 1) + 1])], 1, 4)
  BY DEF FSubWord, Four, Table
<1>4. SubWord(u) = SubSeq([i \in 1..4 |-> getSBoxValue(u[(i - 1) + 1])], 1, 4)
  BY DEF SubWord, Four, Table
<1>5. [i \in 1..4 |-> Sub(u[(i - 1) + 1])] = f
  BY <1>2
<1>6. [i \in 1..4 |-> getSBoxValue(u[(i - 1) + 1])] = f
  BY <1>2, TablesAssumption DEF Word
<1>7. SubSeq(f, 1, 4) = f
  <2> HIDE DEF f
  <2> QED BY <1>1, WholeTable DEF Word
<1> QED BY <1>1, <1>3, <1>4, <1>5, <1>6, <1>7

\* RotWord of the code gives a word.
LEMMA RotWordOf ==
  ASSUME NEW t \in Word
  PROVE  RotWord(t) \in Word
BY DEF RotWord, Word

\* What is added at the start of a key length: the core of every backend.
Core(t, c) == AddWords(FSubWord(RotWord(t)), <<c, 0, 0, 0>>)

\* schedule_core and its variants add the constant to the first byte.
LEMMA CoreOf ==
  ASSUME NEW t \in Word, NEW c \in Byte
  PROVE  /\ Core(t, c) \in Word
         /\ AddFirstByte(SubWord(RotWord(t)), c) = Core(t, c)
<1> DEFINE u == FSubWord(RotWord(t))
           v1 == <<c, 0, 0, 0>>
<1>1. u \in Word /\ SubWord(RotWord(t)) = u
  BY RotWordOf, SubWordOf
<1>2. v1 \in Word
  BY ZeroByte DEF Word
<1>3. Core(t, c) = [i \in 1..4 |-> u[i] ++ v1[i]] /\ Core(t, c) \in Word
  BY <1>1, <1>2, AddWordsOf DEF Core
<1> HIDE DEF u
<1>4. u[2] ++ 0 = u[2] /\ u[3] ++ 0 = u[3] /\ u[4] ++ 0 = u[4]
  BY <1>1, SumZero DEF Word
<1>5. AddFirstByte(u, c) = [i \in 1..4 |-> u[i] ++ v1[i]]
  BY <1>4 DEF AddFirstByte
<1> QED BY <1>1, <1>3, <1>5

\* FTemp in these terms.
LEMMA TempOf ==
  ASSUME NEW sched, NEW i, NEW n
  PROVE  FTemp(sched, i, n) =
           IF i % n = 0 THEN Core(sched[i], FRcon[i \div n])
           ELSE IF n > 6 /\ i % n = 4 THEN FSubWord(sched[i]) ELSE sched[i]
BY DEF FTemp, Core, FSubWord, RotWord

\* The constants of the backends are those of the standard.
LEMMA Constants ==
  ASSUME NEW i \in 1..10
  PROVE  /\ FRcon[i] \in Byte /\ Rcon[i + 1] = FRcon[i] /\ rcon_f2[i] = FRcon[i]
         /\ f7_rcon[i + 1] = FRcon[i] /\ (i <= 7 => f8_rcon[i + 1] = FRcon[i])
         /\ <<1, 2, 4, 8, 16, 32, 64, 128, 27, 54>>[i] = FRcon[i]
         /\ i <= 7 => <<1, 2, 4, 8, 16, 32, 64>>[i] = FRcon[i]
<1>1. rcon_f2[i] = FRcon[i]
  BY TablesAssumption
<1>2. i \in {1, 2, 3, 4, 5, 6, 7, 8, 9, 10}
  OBVIOUS
<1> QED BY <1>1, <1>2 DEF FRcon, Rcon, f7_rcon, f8_rcon, Byte

\* next continues the schedule sched.
Longer(sched, next) ==
  /\ next \in Seq(Word) /\ Len(sched) < Len(next)
  /\ \A i \in 1..Len(sched) : next[i] = sched[i]

\* A word is appended.
LEMMA WordStep ==
  ASSUME NEW sched \in Seq(Word), NEW n \in {4, 8}, Len(sched) >= n, Scheduled(sched, n),
         NEW t \in Word, t = FTemp(sched, Len(sched), n)
  PROVE  /\ Longer(sched, AppendWord(sched, n, t))
         /\ Len(AppendWord(sched, n, t)) = Len(sched) + 1
         /\ Scheduled(AppendWord(sched, n, t), n)
<1> DEFINE L == Len(sched)
           x == AddWords(sched[L - n + 1], t)
           next == Append(sched, x)
<1>1. L \in Nat /\ L - n + 1 \in 1..L /\ \A i \in 1..L : sched[i] \in Word
  OBVIOUS
<1>2. x \in Word
  BY <1>1, WordSums
<1>3. AppendWord(sched, n, t) = next
  BY DEF AppendWord
<1> HIDE DEF x
<1>4. /\ next \in Seq(Word) /\ Len(next) = L + 1 /\ next[L + 1] = x
      /\ \A i \in 1..L : next[i] = sched[i]
  BY <1>1, <1>2
<1> HIDE DEF next
<1>5. ASSUME NEW i \in n..L
      PROVE  next[i + 1] = AddWords(next[i - n + 1], FTemp(next, i, n))
  <2>1. i \in 1..L /\ i - n + 1 \in 1..L
    BY <1>1
  <2>2. FTemp(next, i, n) = FTemp(sched, i, n) /\ next[i - n + 1] = sched[i - n + 1]
    BY <1>4, <2>1, TempOf
  <2>3. CASE i = L
    BY <1>4, <2>2, <2>3 DEF x
  <2>4. CASE i # L
    <3>1. i \in n..(L - 1) /\ i + 1 \in 1..L
      BY <1>1, <2>1, <2>4
    <3>2. sched[i + 1] = AddWords(sched[i - n + 1], FTemp(sched, i, n))
      BY <3>1 DEF Scheduled
    <3> QED BY <1>4, <2>2, <3>1, <3>2
  <2> QED BY <2>3, <2>4
<1>6. Scheduled(next, n)
  <2>1. n..(Len(next) - 1) = n..L
    BY <1>1, <1>4
  <2> QED BY <1>5, <2>1 DEF Scheduled
<1> QED BY <1>1, <1>3, <1>4, <1>6 DEF Longer

\* One pass of the loop of a backend: next is a longer schedule of the key.
Pass(sched, next, n) ==
  Longer(sched, next) /\ Len(next) <= 4 * (n + 7) /\ Scheduled(next, n)

\* A schedule of n key words that is not complete.
Open(sched, n) ==
  /\ sched \in Seq(Word) /\ n \in {4, 8} /\ Scheduled(sched, n)
  /\ n <= Len(sched) /\ Len(sched) < 4 * (n + 7)

\* What is added is a word.
LEMMA TempType ==
  ASSUME NEW sched, NEW n, Open(sched, n)
  PROVE  /\ sched[Len(sched)] \in Word
         /\ FTemp(sched, Len(sched), n) \in Word
         /\ Len(sched) % n = 0 => Len(sched) \div n \in 1..10
         /\ n = 8 /\ Len(sched) % 8 = 0 => Len(sched) \div 8 \in 1..7
<1> DEFINE L == Len(sched)
           t == sched[L]
<1>1. L \in Nat /\ n <= L /\ L < 4 * (n + 7) /\ n \in {4, 8} /\ t \in Word
  BY DEF Open
<1> HIDE DEF L, t
<1>2. /\ L % n = 0 => L \div n \in 1..10
      /\ n = 8 /\ L % 8 = 0 => L \div 8 \in 1..7
  BY <1>1
<1>3. FTemp(sched, L, n) \in Word
  <2>1. FSubWord(t) \in Word
    BY <1>1, SubWordOf
  <2>2. L % n = 0 => Core(t, FRcon[L \div n]) \in Word
    BY <1>1, <1>2, CoreOf, Constants
  <2> QED BY <1>1, <2>1, <2>2, TempOf DEF t
<1> QED BY <1>1, <1>2, <1>3 DEF L, t

\* Appending what FTemp asks for is a pass.
LEMMA PassWord ==
  ASSUME NEW sched, NEW n, Open(sched, n), NEW t, t = FTemp(sched, Len(sched), n)
  PROVE  Pass(sched, AppendWord(sched, n, t), n)
<1>1. sched \in Seq(Word) /\ n \in {4, 8} /\ Len(sched) >= n /\ Scheduled(sched, n)
  BY DEF Open
<1>2. t \in Word
  BY TempType
<1>3. Len(sched) + 1 <= 4 * (n + 7)
  BY <1>1 DEF Open
<1> QED BY <1>1, <1>2, <1>3, WordStep DEF Pass

\* The word-wise expansions.
LEMMA Expands128 ==
  ASSUME NEW sched, Open(sched, 4)
  PROVE  /\ Pass(sched, KeyExpansion(sched), 4)
         /\ Pass(sched, expand_keyf2(sched), 4)
         /\ Pass(sched, expand_key(sched), 4)
         /\ Pass(sched, key_expansion(sched), 4)
<1> DEFINE L == Len(sched)
           t == sched[L]
           T == FTemp(sched, L, 4)
<1>1. L \in Nat /\ 4 <= L /\ L < 44 /\ t \in Word
  BY TempType DEF Open
<1>2. L % 4 = 0 => L \div 4 \in 1..10
  BY TempType
<1>3. T = IF L % 4 = 0 THEN Core(t, FRcon[L \div 4]) ELSE t
  BY TempOf
<1>4. Pass(sched, AppendWord(sched, 4, T), 4)
  BY PassWord
<1> HIDE DEF T, t, L
<1>5. ASSUME L % 4 = 0
      PROVE  /\ AddFirstByte(SubWord(RotWord(t)), Rcon[(L \div 4) + 1]) = T
             /\ schedule_core_f2(t, L \div 4) = T
             /\ AddFirstByte(SubWord(RotWord(t)), f7_rcon[(L \div 4) + 1]) = T
  <2>1. FRcon[L \div 4] \in Byte /\ T = Core(t, FRcon[L \div 4])
    BY <1>2, <1>3, <1>5, Constants
  <2>2. AddFirstByte(SubWord(RotWord(t)), FRcon[L \div 4]) = T
    BY <1>1, <2>1, CoreOf
  <2> QED BY <1>2, <1>5, <2>2, Constants DEF schedule_core_f2
<1>6. KeyExpansion(sched) = AppendWord(sched, 4, T)
  BY <1>3, <1>5 DEF KeyExpansion, L, t
<1>7. /\ (4 * L) % 256 = 4 * L /\ (4 * L) \div 16 = L \div 4
      /\ (4 * L) % 16 = 0 <=> L % 4 = 0
  BY <1>1
<1>8. expand_keyf2(sched) = AppendWord(sched, 4, T)
  BY <1>3, <1>5, <1>7 DEF expand_keyf2, L, t
<1>9. expand_key(sched) = AppendWord(sched, 4, T)
  BY <1>3, <1>5, <1>7 DEF expand_key, L, t
<1>10. key_expansion(sched) = AppendWord(sched, 4, T)
  BY <1>3, <1>5, <1>7 DEF key_expansion, L, t
<1> QED BY <1>4, <1>6, <1>8, <1>9, <1>10

\* The same for keys of eight words.
LEMMA Expands256 ==
  ASSUME NEW sched, Open(sched, 8)
  PROVE  /\ Pass(sched, KeyExpansion256(sched), 8)
         /\ Pass(sched, expand_keyf5(sched), 8)
         /\ Pass(sched, expand_keyf6(sched), 8)
         /\ Pass(sched, key_expansion_256(sched), 8)
<1> DEFINE L == Len(sched)
           t == sched[L]
           T == FTemp(sched, L, 8)
<1>1. L \in Nat /\ 8 <= L /\ L < 60 /\ t \in Word
  BY TempType DEF Open
<1>2. L % 8 = 0 => L \div 8 \in 1..7
  BY TempType
<1>3. T = IF L % 8 = 0 THEN Core(t, FRcon[L \div 8])
          ELSE IF L % 8 = 4 THEN FSubWord(t) ELSE t
  <2>1. T = IF L % 8 = 0 THEN Core(t, FRcon[L \div 8])
            ELSE IF 8 > 6 /\ L % 8 = 4 THEN FSubWord(t) ELSE t
    BY TempOf
  <2> QED BY <2>1
<1>4. Pass(sched, AppendWord(sched, 8, T), 8)
  BY PassWord
<1> HIDE DEF T, t, L
<1>5. ASSUME L % 8 = 0
      PROVE  /\ AddFirstByte(SubWord(RotWord(t)), Rcon[(L \div 8) + 1]) = T
             /\ schedule_core_f2(t, L \div 8) = T
             /\ AddFirstByte(SubWord(RotWord(t)), f8_rcon[(L \div 8) + 1]) = T
  <2>1. /\ L \div 8 \in 1..10 /\ L \div 8 <= 7
        /\ FRcon[L \div 8] \in Byte /\ T = Core(t, FRcon[L \div 8])
    BY <1>2, <1>3, <1>5, Constants
  <2>2. AddFirstByte(SubWord(RotWord(t)), FRcon[L \div 8]) = T
    BY <1>1, <2>1, CoreOf
  <2> QED BY <2>1, <2>2, Constants DEF schedule_core_f2
<1>6. L % 8 = 4 => SubWord(t) = T
  BY <1>1, <1>3, SubWordOf
<1>7. L % 8 # 0 /\ L % 8 # 4 => t = T
  BY <1>1, <1>3
<1>8. /\ (4 * L) % 256 = 4 * L /\ (4 * L) \div 32 = L \div 8
      /\ (4 * L) % 32 = 0 <=> L % 8 = 0
      /\ (4 * L) % 32 = 16 <=> L % 8 = 4
  BY <1>1
<1>9. KeyExpansion256(sched) = AppendWord(sched, 8, T)
  BY <1>5, <1>6, <1>7 DEF KeyExpansion256, L, t
<1>10. expand_keyf5(sched) = AppendWord(sched, 8, T)
  BY <1>5, <1>6, <1>7, <1>8 DEF expand_keyf5, L, t
<1>11. expand_keyf6(sched) = AppendWord(sched, 8, T)
  BY <1>5, <1>6, <1>7, <1>8 DEF expand_keyf6, L, t
<1>12. key_expansion_256(sched) = AppendWord(sched, 8, T)
  BY <1>5, <1>6, <1>7 DEF key_expansion_256, L, t
<1> QED BY <1>4, <1>9, <1>10, <1>11, <1>12

------------------------------------------------------------------------------
\* Four words at a time.

\* A register times x^4 - 1 and so on: every word becomes the sum of itself and
\* the words before it.
LEMMA RegisterSums ==
  ASSUME NEW k1 \in Word, NEW k2 \in Word, NEW k3 \in Word, NEW k4 \in Word, NEW t \in Word,
         NEW r1, r1 = AddWords(k1, t), NEW r2, r2 = AddWords(k2, r1),
         NEW r3, r3 = AddWords(k3, r2), NEW r4, r4 = AddWords(k4, r3)
  PROVE  AddToAll(AddShifted(AddShifted(AddShifted(<<k1, k2, k3, k4>>))), t)
           = <<r1, r2, r3, r4>>
<1>1. /\ AddWords(k2, k1) \in Word /\ AddWords(k3, k2) \in Word /\ AddWords(k4, k3) \in Word
      /\ AddWords(k3, k1) \in Word /\ AddWords(k4, k2) \in Word
      /\ r1 \in Word /\ r2 \in Word /\ r3 \in Word /\ r4 \in Word
  BY WordSums
<1>2. ASSUME NEW x \in Word, NEW y \in Word, NEW z \in Word
      PROVE  AddWords(AddWords(x, y), AddWords(y, z)) = AddWords(x, z)
  <2>1. AddWords(AddWords(x, y), AddWords(y, z)) = AddWords(x, AddWords(y, AddWords(y, z)))
    BY WordSums
  <2>2. AddWords(y, AddWords(y, z)) = AddWords(AddWords(z, y), y)
    BY WordSums
  <2> QED BY <2>1, <2>2, WordSums
<1>3. AddShifted(<<k1, k2, k3, k4>>)
        = <<k1, AddWords(k2, k1), AddWords(k3, k2), AddWords(k4, k3)>>
  BY DEF AddShifted
<1>4. AddShifted(<<k1, AddWords(k2, k1), AddWords(k3, k2), AddWords(k4, k3)>>)
        = <<k1, k2, AddWords(k3, k1), AddWords(k4, k2)>>
  <2>1. AddWords(AddWords(k2, k1), k1) = k2
    BY WordSums
  <2> QED BY <1>2, <2>1 DEF AddShifted
<1> DEFINE s3 == AddWords(AddWords(k3, k1), k2)
           s4 == AddWords(AddWords(k4, k2), AddWords(k3, k1))
<1>5. AddShifted(<<k1, k2, AddWords(k3, k1), AddWords(k4, k2)>>)
        = <<k1, AddWords(k2, k1), s3, s4>>
  BY DEF AddShifted
<1>6. AddWords(AddWords(k2, k1), t) = r2
  BY WordSums
<1>7. s3 \in Word /\ AddWords(s3, t) = r3
  <2>1. s3 = AddWords(k3, AddWords(k2, k1))
    BY WordSums
  <2>2. AddWords(AddWords(k3, AddWords(k2, k1)), t) = AddWords(k3, AddWords(AddWords(k2, k1), t))
    BY <1>1, WordSums
  <2> QED BY <1>1, <1>6, <2>1, <2>2, WordSums
<1>8. s4 \in Word /\ AddWords(s4, t) = r4
  <2>1. s4 = AddWords(k4, AddWords(k2, AddWords(k3, k1)))
    BY <1>1, WordSums
  <2>2. AddWords(k2, AddWords(k3, k1)) = s3
    BY <1>1, WordSums
  <2>3. AddWords(AddWords(k4, s3), t) = AddWords(k4, AddWords(s3, t))
    BY <1>7, WordSums
  <2> QED BY <1>1, <1>7, <2>1, <2>2, <2>3, WordSums
<1> DEFINE x == <<k1, AddWords(k2, k1), s3, s4>>
           f == [i \in 1..4 |-> AddWords(x[(i - 1) + 1], t)]
<1> HIDE DEF s3, s4
<1>9. f[1] = r1 /\ f[2] = r2 /\ f[3] = r3 /\ f[4] = r4
  BY <1>6, <1>7, <1>8
<1>10. f = <<r1, r2, r3, r4>>
  <2>1. f = [i \in 1..4 |-> f[i]]
    OBVIOUS
  <2> HIDE DEF f
  <2> QED BY <1>9, <2>1
<1>11. AddToAll(x, t) = SubSeq(f, 1, 4)
  BY DEF AddToAll, Four, Table
<1>12. SubSeq(f, 1, 4) = f
  <2>1. f \in [1..4 -> Word]
    BY <1>1, <1>10
  <2> HIDE DEF f
  <2> QED BY <2>1, WholeTable
<1> QED BY <1>3, <1>4, <1>5, <1>10, <1>11, <1>12

\* Appending four elements at once.
LEMMA ConcatFour ==
  ASSUME NEW x \in Seq(Word),
         NEW e1 \in Word, NEW e2 \in Word, NEW e3 \in Word, NEW e4 \in Word
  PROVE  x \o <<e1, e2, e3, e4>> = Append(Append(Append(Append(x, e1), e2), e3), e4)
<1> DEFINE four == <<e1, e2, e3, e4>>
           y == x \o four
           z == Append(Append(Append(Append(x, e1), e2), e3), e4)
<1>1. Len(x) \in Nat /\ four \in Seq(Word) /\ Len(four) = 4
  OBVIOUS
<1>2. y \in Seq(Word) /\ Len(y) = Len(x) + 4
  BY <1>1
<1>3. z \in Seq(Word) /\ Len(z) = Len(x) + 4
  OBVIOUS
<1>4. \A i \in 1..(Len(x) + 4) : y[i] = z[i]
  OBVIOUS
<1> HIDE DEF y, z
<1>5. y = z
  BY <1>1, <1>2, <1>3, <1>4
<1> QED BY <1>5 DEF y, z

\* A word that is not the first or, with keys of eight words, the fifth of a key
\* length is the sum of the one before and of an old one.
LEMMA NextWord ==
  ASSUME NEW sched \in Seq(Word), NEW n \in {4, 8}, n <= Len(sched), Scheduled(sched, n),
         Len(sched) % 4 # 0,
         NEW x, x = AppendWord(sched, n, sched[Len(sched)])
  PROVE  /\ x \in Seq(Word) /\ Len(x) = Len(sched) + 1 /\ Scheduled(x, n)
         /\ x = Append(sched, AddWords(sched[Len(sched) - n + 1], sched[Len(sched)]))
         /\ \A i \in 1..Len(sched) : x[i] = sched[i]
<1>1. PICK L \in Nat : L = Len(sched)
  OBVIOUS
<1>2. L % n # 0 /\ ~ (n > 6 /\ L % n = 4)
  <2>1. L % 4 # 0
    BY <1>1
  <2>2. CASE n = 4
    BY <2>1, <2>2
  <2>3. CASE n = 8
    BY <2>1, <2>3
  <2> QED BY <2>2, <2>3
<1>3. FTemp(sched, Len(sched), n) = sched[Len(sched)]
  BY <1>1, <1>2, TempOf
<1>4. sched[Len(sched)] \in Word
  BY <1>1
<1>5. Longer(sched, x) /\ Len(x) = Len(sched) + 1 /\ Scheduled(x, n)
  BY <1>3, <1>4, WordStep
<1> QED BY <1>5 DEF Longer, AppendWord

\* Four words are appended, each the sum of the one before and of an old one.
LEMMA PassFour ==
  ASSUME NEW sched, NEW n, Open(sched, n), Len(sched) % 4 = 0,
         NEW t, t = FTemp(sched, Len(sched), n),
         NEW r1, r1 = AddWords(sched[Len(sched) - n + 1], t),
         NEW r2, r2 = AddWords(sched[Len(sched) - n + 2], r1),
         NEW r3, r3 = AddWords(sched[Len(sched) - n + 3], r2),
         NEW r4, r4 = AddWords(sched[Len(sched) - n + 4], r3)
  PROVE  /\ Pass(sched, sched \o <<r1, r2, r3, r4>>, n)
         /\ Len(sched \o <<r1, r2, r3, r4>>) % 4 = 0
<1>1. PICK L \in Nat : L = Len(sched)
  BY DEF Open
<1>2. /\ sched \in Seq(Word) /\ n \in {4, 8} /\ n <= L /\ L < 4 * (n + 7)
      /\ Scheduled(sched, n) /\ L % 4 = 0
  BY <1>1 DEF Open
<1>3. /\ L - n + 1 \in 1..L /\ L - n + 2 \in 1..L /\ L - n + 3 \in 1..L /\ L - n + 4 \in 1..L
      /\ (L + 1) % 4 # 0 /\ (L + 2) % 4 # 0 /\ (L + 3) % 4 # 0
      /\ L + 4 <= 4 * (n + 7) /\ (L + 4) % 4 = 0
  BY <1>2
<1>4. PICK k1, k2, k3, k4 \in Word :
        /\ k1 = sched[L - n + 1] /\ k2 = sched[L - n + 2]
        /\ k3 = sched[L - n + 3] /\ k4 = sched[L - n + 4]
  BY <1>1, <1>2, <1>3
<1>5. t \in Word
  BY TempType
<1>6. r1 \in Word /\ r2 \in Word /\ r3 \in Word /\ r4 \in Word
  BY <1>1, <1>4, <1>5, WordSums
<1>7. PICK x1 : x1 = Append(sched, r1)
  OBVIOUS
<1>8. /\ x1 \in Seq(Word) /\ Len(x1) = L + 1 /\ Scheduled(x1, n)
      /\ x1[L + 1] = r1 /\ \A i \in 1..L : x1[i] = sched[i]
  <2>1. AppendWord(sched, n, t) = x1
    BY <1>1, <1>7 DEF AppendWord
  <2>2. Longer(sched, x1) /\ Len(x1) = L + 1 /\ Scheduled(x1, n)
    BY <1>1, <1>2, <1>5, <2>1, WordStep
  <2>3. x1[L + 1] = r1
    BY <1>1, <1>2, <1>6, <1>7
  <2> QED BY <1>1, <2>2, <2>3 DEF Longer
<1>9. PICK x2 : x2 = Append(x1, r2)
  OBVIOUS
<1>10. /\ x2 \in Seq(Word) /\ Len(x2) = L + 2 /\ Scheduled(x2, n)
       /\ x2[L + 2] = r2 /\ \A i \in 1..L : x2[i] = sched[i]
  <2>1. x1[Len(x1) - n + 1] = k2 /\ n <= Len(x1) /\ Len(x1) % 4 # 0 /\ x1[Len(x1)] = r1
    BY <1>2, <1>3, <1>4, <1>8
  <2>2. r2 = AddWords(k2, r1)
    BY <1>1, <1>4
  <2>3. AppendWord(x1, n, x1[Len(x1)]) = x2
    BY <1>8, <1>9, <2>1, <2>2 DEF AppendWord
  <2>4. /\ x2 \in Seq(Word) /\ Len(x2) = Len(x1) + 1 /\ Scheduled(x2, n)
        /\ \A i \in 1..Len(x1) : x2[i] = x1[i]
    BY <1>2, <1>8, <2>1, <2>3, NextWord
  <2>5. x2[Len(x1) + 1] = r2
    BY <1>6, <1>8, <1>9
  <2> QED BY <1>8, <2>4, <2>5
<1>11. PICK x3 : x3 = Append(x2, r3)
  OBVIOUS
<1>12. /\ x3 \in Seq(Word) /\ Len(x3) = L + 3 /\ Scheduled(x3, n)
       /\ x3[L + 3] = r3 /\ \A i \in 1..L : x3[i] = sched[i]
  <2>1. x2[Len(x2) - n + 1] = k3 /\ n <= Len(x2) /\ Len(x2) % 4 # 0 /\ x2[Len(x2)] = r2
    BY <1>2, <1>3, <1>4, <1>10
  <2>2. r3 = AddWords(k3, r2)
    BY <1>1, <1>4
  <2>3. AppendWord(x2, n, x2[Len(x2)]) = x3
    BY <1>10, <1>11, <2>1, <2>2 DEF AppendWord
  <2>4. /\ x3 \in Seq(Word) /\ Len(x3) = Len(x2) + 1 /\ Scheduled(x3, n)
        /\ \A i \in 1..Len(x2) : x3[i] = x2[i]
    BY <1>2, <1>10, <2>1, <2>3, NextWord
  <2>5. x3[Len(x2) + 1] = r3
    BY <1>6, <1>10, <1>11
  <2> QED BY <1>10, <2>4, <2>5
<1>13. PICK x4 : x4 = Append(x3, r4)
  OBVIOUS
<1>14. /\ x4 \in Seq(Word) /\ Len(x4) = L + 4 /\ Scheduled(x4, n)
       /\ \A i \in 1..L : x4[i] = sched[i]
  <2>1. x3[Len(x3) - n + 1] = k4 /\ n <= Len(x3) /\ Len(x3) % 4 # 0 /\ x3[Len(x3)] = r3
    BY <1>2, <1>3, <1>4, <1>12
  <2>2. r4 = AddWords(k4, r3)
    BY <1>1, <1>4
  <2>3. AppendWord(x3, n, x3[Len(x3)]) = x4
    BY <1>12, <1>13, <2>1, <2>2 DEF AppendWord
  <2>4. /\ x4 \in Seq(Word) /\ Len(x4) = Len(x3) + 1 /\ Scheduled(x4, n)
        /\ \A i \in 1..Len(x3) : x4[i] = x3[i]
    BY <1>2, <1>12, <2>1, <2>3, NextWord
  <2> QED BY <1>12, <2>4
<1>15. sched \o <<r1, r2, r3, r4>> = x4
  <2>1. sched \o <<r1, r2, r3, r4>> = Append(Append(Append(Append(sched, r1), r2), r3), r4)
    BY <1>2, <1>6, ConcatFour, SMTT(30)
  <2> QED BY <1>7, <1>9, <1>11, <1>13, <2>1
<1>16. Pass(sched, x4, n)
  BY <1>1, <1>3, <1>14 DEF Pass, Longer
<1> QED BY <1>3, <1>14, <1>15, <1>16

\* The last words of a schedule as a register.
LEMMA LastFourOf ==
  ASSUME NEW sched \in Seq(Word), NEW n \in {4, 8}, n <= Len(sched)
  PROVE  LastFour(sched, n) = <<sched[Len(sched) - n + 1], sched[Len(sched) - n + 2],
                                sched[Len(sched) - n + 3], sched[Len(sched) - n + 4]>>
<1>1. PICK a \in Nat : a = Len(sched) - n
  OBVIOUS
<1>2. LastFour(sched, n) = SubSeq(sched, a + 1, a + 4)
  BY <1>1 DEF LastFour
<1>3. SubSeq(sched, a + 1, a + 4) = [i \in 1..4 |-> sched[a + i]]
  BY <1>1
<1>4. [i \in 1..4 |-> sched[a + i]] = <<sched[a + 1], sched[a + 2], sched[a + 3], sched[a + 4]>>
  OBVIOUS
<1> QED BY <1>1, <1>2, <1>3, <1>4

\* What aeskeygenassist computes: with the rotation, and without.
LEMMA AssistOf ==
  ASSUME NEW x, x[4] \in Word, NEW c \in Byte
  PROVE  /\ aeskeygenassist(x, c)[4] = Core(x[4], c)
         /\ aeskeygenassist(x, c)[3] = FSubWord(x[4])
<1> DEFINE u == FSubWord(x[4])
           z == <<u[2] ++ c, u[3], u[4], u[1]>>
<1>1. aeskeygenassist(x, c)[4] = z /\ aeskeygenassist(x, c)[3] = u
  BY DEF aeskeygenassist, FSubWord
<1>2. u = [i \in 1..4 |-> Sub(x[4][i])] /\ u \in Word
  BY SubWordOf
<1>3. RotWord(x[4]) \in Word
  BY RotWordOf
<1>4. FSubWord(RotWord(x[4])) = [i \in 1..4 |-> Sub(RotWord(x[4])[i])]
  BY <1>3, SubWordOf
<1>5. SubWord(RotWord(x[4])) = FSubWord(RotWord(x[4]))
  BY <1>3, SubWordOf
<1>6. AddFirstByte(FSubWord(RotWord(x[4])), c) = z
  BY <1>2, <1>4 DEF AddFirstByte, RotWord
<1>7. Core(x[4], c) = z
  BY <1>5, <1>6, CoreOf
<1> QED BY <1>1, <1>7

\* The expansions of f7 and f8 on x86-64.
LEMMA ExpandsX86 ==
  ASSUME NEW sched, NEW n, Open(sched, n), Len(sched) % 4 = 0
  PROVE  /\ n = 4 => /\ Pass(sched, aes128_load_keys(sched), 4)
                     /\ Len(aes128_load_keys(sched)) % 4 = 0
         /\ n = 8 => /\ Pass(sched, aes256_load_keys(sched), 8)
                     /\ Len(aes256_load_keys(sched)) % 4 = 0
<1> DEFINE L == Len(sched)
           T == FTemp(sched, L, n)
           k1 == sched[L - n + 1]
           k2 == sched[L - n + 2]
           k3 == sched[L - n + 3]
           k4 == sched[L - n + 4]
           r1 == AddWords(k1, T)
           r2 == AddWords(k2, r1)
           r3 == AddWords(k3, r2)
           r4 == AddWords(k4, r3)
           four == <<r1, r2, r3, r4>>
<1>1. /\ sched \in Seq(Word) /\ n \in {4, 8} /\ n <= L /\ L \in Nat /\ L < 4 * (n + 7)
      /\ L % 4 = 0
  BY DEF Open
<1>2. /\ T \in Word /\ sched[L] \in Word
      /\ k1 \in Word /\ k2 \in Word /\ k3 \in Word /\ k4 \in Word
  BY <1>1, TempType
<1>3. Pass(sched, sched \o four, n) /\ Len(sched \o four) % 4 = 0
  BY PassFour
<1>4. AddToAll(AddShifted(AddShifted(AddShifted(<<k1, k2, k3, k4>>))), T) = four
  BY <1>2, RegisterSums
<1>5. LastFour(sched, n) = <<k1, k2, k3, k4>>
  BY <1>1, LastFourOf
<1>6. LastFour(sched, 4)[4] = sched[L]
  <2>1. 4 <= Len(sched) /\ Len(sched) - 4 + 4 = L
    BY <1>1
  <2> QED BY <1>1, <2>1, LastFourOf
<1>7. T = IF L % n = 0 THEN Core(sched[L], FRcon[L \div n])
          ELSE IF n > 6 /\ L % n = 4 THEN FSubWord(sched[L]) ELSE sched[L]
  BY TempOf
<1> HIDE DEF T, four, k1, k2, k3, k4
<1>8. ASSUME n = 4 PROVE aes128_load_keys(sched) = sched \o four
  <2> DEFINE c == <<1, 2, 4, 8, 16, 32, 64, 128, 27, 54>>[L \div 4]
  <2>1. L \div 4 \in 1..10 /\ L % 4 = 0
    BY <1>1, <1>8
  <2>2. c = FRcon[L \div 4] /\ c \in Byte
    BY <2>1, Constants
  <2> HIDE DEF c
  <2>3. aeskeygenassist(LastFour(sched, 4), c)[4] = T
    BY <1>2, <1>6, <1>7, <1>8, <2>1, <2>2, AssistOf
  <2>4. aes_128_key_expand(LastFour(sched, 4), aeskeygenassist(LastFour(sched, 4), c)) = four
    BY <1>4, <1>5, <1>8, <2>3 DEF aes_128_key_expand
  <2> QED BY <2>4 DEF aes128_load_keys, c
<1>9. ASSUME n = 8 PROVE aes256_load_keys(sched) = sched \o four
  <2> DEFINE j == L \div 4
             c == <<1, 2, 4, 8, 16, 32, 64>>[j \div 2]
  <2>1. CASE L % 8 = 0
    <3>1. j % 2 = 0 /\ j \div 2 = L \div 8 /\ L \div 8 \in 1..10 /\ L \div 8 <= 7
      BY <1>1, <1>9, <2>1
    <3>2. c = FRcon[L \div 8] /\ c \in Byte
      BY <3>1, Constants
    <3> HIDE DEF c
    <3>3. aeskeygenassist(LastFour(sched, 4), c)[4] = T
      BY <1>2, <1>6, <1>7, <1>9, <2>1, <3>2, AssistOf
    <3>4. KEY_EXP_ASSIST(LastFour(sched, 8), aeskeygenassist(LastFour(sched, 4), c)[4]) = four
      BY <1>4, <1>5, <1>9, <3>3 DEF KEY_EXP_ASSIST
    <3> QED BY <3>1, <3>4 DEF aes256_load_keys, c
  <2>2. CASE L % 8 # 0
    <3>1. j % 2 # 0 /\ L % 8 = 4
      BY <1>1, <1>9, <2>2
    <3>2. aeskeygenassist(LastFour(sched, 4), 0)[3] = T
      <4>1. T = FSubWord(sched[L])
        BY <1>7, <1>9, <3>1
      <4> QED BY <1>2, <1>6, <4>1, ZeroByte, AssistOf
    <3>3. KEY_EXP_ASSIST(LastFour(sched, 8), aeskeygenassist(LastFour(sched, 4), 0)[3]) = four
      BY <1>4, <1>5, <1>9, <3>2 DEF KEY_EXP_ASSIST
    <3> QED BY <3>1, <3>3 DEF aes256_load_keys
  <2> QED BY <2>1, <2>2
<1> QED BY <1>3, <1>8, <1>9

------------------------------------------------------------------------------
\* The rounds of the byte-wise backends.

\* A function on 1..16 is a tuple.
LEMMA Tuple16 ==
  ASSUME NEW f, f = [i \in 1..16 |-> f[i]]
  PROVE  f = <<f[1], f[2], f[3], f[4], f[5], f[6], f[7], f[8],
               f[9], f[10], f[11], f[12], f[13], f[14], f[15], f[16]>>
OBVIOUS

\* A block is its own table.
LEMMA WholeBlock == \A f \in Block : SubSeq(f, 1, 16) = f
BY WholeTable DEF Block

\* Four words of a schedule are a block.
LEMMA RoundKeyOf ==
  ASSUME NEW sched \in Seq(Word), NEW j \in Nat, 4 * (j + 1) <= Len(sched)
  PROVE  RoundKey(sched, j) \in Block
<1> DEFINE f == [i \in 1..16 |-> sched[4 * j + ((i - 1) \div 4) + 1][((i - 1) % 4) + 1]]
<1>1. ASSUME NEW i \in 1..16
      PROVE  sched[4 * j + ((i - 1) \div 4) + 1][((i - 1) % 4) + 1] \in Byte
  <2>1. 4 * j + ((i - 1) \div 4) + 1 \in 1..Len(sched) /\ ((i - 1) % 4) + 1 \in 1..4
    OBVIOUS
  <2>2. sched[4 * j + ((i - 1) \div 4) + 1] \in Word
    BY <2>1
  <2> QED BY <2>1, <2>2 DEF Word
<1>2. f \in Block
  BY <1>1 DEF Block
<1>3. RoundKey(sched, j) = SubSeq(f, 1, 16)
  BY DEF RoundKey, Sixteen, Table
<1> HIDE DEF f
<1> QED BY <1>2, <1>3, WholeBlock

\* SubBytes of f1 and f4, with their table of values.
LEMMA SubBytesOf ==
  ASSUME NEW x \in Block
  PROVE  /\ FSubBytes(x) = [i \in 1..16 |-> Sub(x[i])] /\ FSubBytes(x) \in Block
         /\ SubBytes(x) = FSubBytes(x)
<1> DEFINE f == [i \in 1..16 |-> Sub(x[i])]
<1>1. f \in Block
  BY FieldAssumption DEF Block
<1>2. \A i \in 1..16 : (i - 1) + 1 = i
  OBVIOUS
<1>3. FSubBytes(x) = SubSeq([i \in 1..16 |-> Sub(x[(i - 1) + 1])], 1, 16)
  BY DEF FSubBytes, Sixteen, Table
<1>4. SubBytes(x) = SubSeq([i \in 1..16 |-> getSBoxValue(x[(i - 1) + 1])], 1, 16)
  BY DEF SubBytes, Sixteen, Table
<1>5. [i \in 1..16 |-> Sub(x[(i - 1) + 1])] = f
  BY <1>2
<1>6. [i \in 1..16 |-> getSBoxValue(x[(i - 1) + 1])] = f
  BY <1>2, TablesAssumption DEF Block
<1>7. SubSeq(f, 1, 16) = f
  <2> HIDE DEF f
  <2> QED BY <1>1, WholeBlock
<1> QED BY <1>1, <1>3, <1>4, <1>5, <1>6, <1>7

\* ShiftRows of f2 and f5.
MovedRows(x) == Sixteen(LAMBDA i : x[Moved[i + 1] + 1])

\* ShiftRows as f1 and f4 write it out, and as f2 and f5 move bytes.
LEMMA ShiftRowsOf ==
  ASSUME NEW x \in Block
  PROVE  /\ FShiftRows(x) \in Block
         /\ \A k \in 0..15 : FShiftRows(x)[k + 1] = x[((k + 4 * (k % 4)) % 16) + 1]
         /\ ShiftRows(x) = FShiftRows(x)
         /\ MovedRows(x) = FShiftRows(x)
<1> DEFINE f == [i \in 1..16 |-> x[(((i - 1) + 4 * ((i - 1) % 4)) % 16) + 1]]
           g == [i \in 1..16 |-> x[Moved[(i - 1) + 1] + 1]]
           shifted == <<x[1], x[6], x[11], x[16], x[5], x[10], x[15], x[4],
                        x[9], x[14], x[3], x[8], x[13], x[2], x[7], x[12]>>
<1>1. f \in Block
  <2>1. \A i \in 1..16 : (((i - 1) + 4 * ((i - 1) % 4)) % 16) + 1 \in 1..16
    OBVIOUS
  <2> QED BY <2>1 DEF Block
<1>2. FShiftRows(x) = SubSeq(f, 1, 16)
  BY DEF FShiftRows, Sixteen, Table
<1>3. SubSeq(f, 1, 16) = f
  <2> HIDE DEF f
  <2> QED BY <1>1, WholeBlock
<1>4. f = shifted
  <2>1. /\ f[1] = x[1] /\ f[2] = x[6] /\ f[3] = x[11] /\ f[4] = x[16]
        /\ f[5] = x[5] /\ f[6] = x[10] /\ f[7] = x[15] /\ f[8] = x[4]
        /\ f[9] = x[9] /\ f[10] = x[14] /\ f[11] = x[3] /\ f[12] = x[8]
        /\ f[13] = x[13] /\ f[14] = x[2] /\ f[15] = x[7] /\ f[16] = x[12]
    OBVIOUS
  <2>2. f = [i \in 1..16 |-> f[i]]
    OBVIOUS
  <2> HIDE DEF f
  <2> QED BY <2>1, <2>2, Tuple16
<1>5. g = shifted
  <2>1. /\ g[1] = x[1] /\ g[2] = x[6] /\ g[3] = x[11] /\ g[4] = x[16]
        /\ g[5] = x[5] /\ g[6] = x[10] /\ g[7] = x[15] /\ g[8] = x[4]
        /\ g[9] = x[9] /\ g[10] = x[14] /\ g[11] = x[3] /\ g[12] = x[8]
        /\ g[13] = x[13] /\ g[14] = x[2] /\ g[15] = x[7] /\ g[16] = x[12]
    BY DEF Moved
  <2>2. g = [i \in 1..16 |-> g[i]]
    OBVIOUS
  <2> HIDE DEF g
  <2> QED BY <2>1, <2>2, Tuple16
<1>6. MovedRows(x) = SubSeq(g, 1, 16)
  BY DEF MovedRows, Sixteen, Table
<1>7. ShiftRows(x) = shifted
  BY DEF ShiftRows
<1>8. \A k \in 0..15 : f[k + 1] = x[((k + 4 * (k % 4)) % 16) + 1]
  OBVIOUS
<1> HIDE DEF f, g, shifted
<1>9. FShiftRows(x) = f /\ MovedRows(x) = f /\ ShiftRows(x) = f
  BY <1>2, <1>3, <1>4, <1>5, <1>6, <1>7
<1> QED BY <1>1, <1>8, <1>9

\* One byte of a mixed column: the byte, and those below it in the column.
Mixed(p0, p1, p2, p3) == Times(p0, 2) ++ Times(p1, 3) ++ p2 ++ p3

\* It is a byte; bit by bit it is this sum.
LEMMA MixedBits ==
  ASSUME NEW p0 \in Byte, NEW p1 \in Byte, NEW p2 \in Byte, NEW p3 \in Byte
  PROVE  /\ Mixed(p0, p1, p2, p3) \in Byte
         /\ \A n \in 0..7 :
              Bit(Mixed(p0, p1, p2, p3), n) <=>
                ((((Bit(Times(p0, 2), n) <=> Bit(Times(p1, 2), n)) <=> Bit(p1, n))
                    <=> Bit(p2, n)) <=> Bit(p3, n))
<1>1. PICK d0 \in Byte, d1 \in Byte : d0 = Times(p0, 2) /\ d1 = Times(p1, 2)
  BY FieldAssumption
<1>2. Mixed(p0, p1, p2, p3) = ((d0 ++ (d1 ++ p1)) ++ p2) ++ p3
  BY <1>1, FieldAssumption DEF Mixed
<1>3. /\ d1 ++ p1 \in Byte /\ d0 ++ (d1 ++ p1) \in Byte /\ (d0 ++ (d1 ++ p1)) ++ p2 \in Byte
      /\ ((d0 ++ (d1 ++ p1)) ++ p2) ++ p3 \in Byte
  BY SumType
<1>4. ASSUME NEW n \in 0..7
      PROVE  Bit(((d0 ++ (d1 ++ p1)) ++ p2) ++ p3, n) <=>
               ((((Bit(d0, n) <=> Bit(d1, n)) <=> Bit(p1, n)) <=> Bit(p2, n)) <=> Bit(p3, n))
  <2>1. Bit(d1 ++ p1, n) <=> (Bit(d1, n) <=> ~ Bit(p1, n))
    BY SumBits
  <2>2. Bit(d0 ++ (d1 ++ p1), n) <=> (Bit(d0, n) <=> ~ Bit(d1 ++ p1, n))
    BY <1>3, SumBits
  <2>3. Bit((d0 ++ (d1 ++ p1)) ++ p2, n) <=> (Bit(d0 ++ (d1 ++ p1), n) <=> ~ Bit(p2, n))
    BY <1>3, SumBits
  <2>4. Bit(((d0 ++ (d1 ++ p1)) ++ p2) ++ p3, n)
          <=> (Bit((d0 ++ (d1 ++ p1)) ++ p2, n) <=> ~ Bit(p3, n))
    BY <1>3, SumBits
  <2> QED BY <2>1, <2>2, <2>3, <2>4
<1> QED BY <1>1, <1>2, <1>3, <1>4

\* Doubling is linear.
LEMMA DoubleSum ==
  ASSUME NEW x \in Byte, NEW y \in Byte
  PROVE  Times(x ++ y, 2) = Times(x, 2) ++ Times(y, 2)
<1>1. /\ x ++ y \in Byte /\ Times(x ++ y, 2) \in Byte
      /\ Times(x, 2) \in Byte /\ Times(y, 2) \in Byte /\ Times(x, 2) ++ Times(y, 2) \in Byte
  BY SumType, FieldAssumption
<1>2. ASSUME NEW n \in 0..7
      PROVE  Bit(Times(x ++ y, 2), n) <=> Bit(Times(x, 2) ++ Times(y, 2), n)
  <2> DEFINE low(z) == n > 0 /\ Bit(z, n - 1)
             top(z) == n \in {0, 1, 3, 4} /\ Bit(z, 7)
  <2>1. \A z \in Byte : Bit(Times(z, 2), n) <=> (low(z) <=> ~ top(z))
    BY FieldAssumption
  <2>2. n > 0 => n - 1 \in 0..7
    OBVIOUS
  <2>3. low(x ++ y) <=> ~ (low(x) <=> low(y))
    BY <2>2, SumBits
  <2>4. top(x ++ y) <=> ~ (top(x) <=> top(y))
    BY SumBits
  <2> HIDE DEF low, top
  <2>5. Bit(Times(x, 2) ++ Times(y, 2), n) <=> (Bit(Times(x, 2), n) <=> ~ Bit(Times(y, 2), n))
    BY <1>1, SumBits
  <2> QED BY <1>1, <2>1, <2>3, <2>4, <2>5
<1> QED BY <1>1, <1>2, SameBits

\* The ways in which the backends compute a byte of a mixed column.
LEMMA MixedWays ==
  ASSUME NEW p0 \in Byte, NEW p1 \in Byte, NEW p2 \in Byte, NEW p3 \in Byte,
         NEW all \in Byte,
         \A n \in 0..7 : Bit(all, n) <=>
           (((Bit(p0, n) <=> ~ Bit(p1, n)) <=> ~ Bit(p2, n)) <=> ~ Bit(p3, n))
  PROVE  /\ p0 ++ (xtime(p0 ++ p1) ++ all) = Mixed(p0, p1, p2, p3)
         /\ ((gmul2(p0) ++ p2) ++ (gmul2(p1) ++ p3)) ++ p1 = Mixed(p0, p1, p2, p3)
<1>1. PICK d0 \in Byte, d1 \in Byte : d0 = Times(p0, 2) /\ d1 = Times(p1, 2)
  BY FieldAssumption
<1>2. PICK d \in Byte : d = d0 ++ d1
  BY SumType
<1>3. xtime(p0 ++ p1) = d
  BY <1>1, <1>2, SumType, DoubleSum, TablesAssumption
<1>4. gmul2(p0) = d0 /\ gmul2(p1) = d1
  BY <1>1, TablesAssumption
<1>5. p0 ++ (d ++ all) = Mixed(p0, p1, p2, p3)
  <2>1. d ++ all \in Byte /\ p0 ++ (d ++ all) \in Byte
    BY SumType
  <2>2. ASSUME NEW n \in 0..7
        PROVE  Bit(p0 ++ (d ++ all), n) <=> Bit(Mixed(p0, p1, p2, p3), n)
    <3>1. Bit(p0 ++ (d ++ all), n) <=> (Bit(p0, n) <=> ~ Bit(d ++ all, n))
      BY <2>1, SumBits
    <3>2. Bit(d ++ all, n) <=> (Bit(d, n) <=> ~ Bit(all, n))
      BY SumBits
    <3>3. Bit(d, n) <=> (Bit(d0, n) <=> ~ Bit(d1, n))
      BY <1>2, SumBits
    <3> QED BY <1>1, <3>1, <3>2, <3>3, MixedBits
  <2> QED BY <2>1, <2>2, SameBits, MixedBits
<1>6. ((d0 ++ p2) ++ (d1 ++ p3)) ++ p1 = Mixed(p0, p1, p2, p3)
  <2>1. /\ d0 ++ p2 \in Byte /\ d1 ++ p3 \in Byte /\ (d0 ++ p2) ++ (d1 ++ p3) \in Byte
        /\ ((d0 ++ p2) ++ (d1 ++ p3)) ++ p1 \in Byte
    BY SumType
  <2>2. ASSUME NEW n \in 0..7
        PROVE  Bit(((d0 ++ p2) ++ (d1 ++ p3)) ++ p1, n) <=> Bit(Mixed(p0, p1, p2, p3), n)
    <3>1. Bit(((d0 ++ p2) ++ (d1 ++ p3)) ++ p1, n)
            <=> (Bit((d0 ++ p2) ++ (d1 ++ p3), n) <=> ~ Bit(p1, n))
      BY <2>1, SumBits
    <3>2. Bit((d0 ++ p2) ++ (d1 ++ p3), n) <=> (Bit(d0 ++ p2, n) <=> ~ Bit(d1 ++ p3, n))
      BY <2>1, SumBits
    <3>3. /\ Bit(d0 ++ p2, n) <=> (Bit(d0, n) <=> ~ Bit(p2, n))
          /\ Bit(d1 ++ p3, n) <=> (Bit(d1, n) <=> ~ Bit(p3, n))
      BY SumBits
    <3> QED BY <1>1, <3>1, <3>2, <3>3, MixedBits
  <2> QED BY <2>1, <2>2, SameBits, MixedBits
<1> QED BY <1>3, <1>4, <1>5, <1>6

\* The sum of a column may start anywhere in it.
LEMMA SumFour ==
  ASSUME NEW p0 \in Byte, NEW p1 \in Byte, NEW p2 \in Byte, NEW p3 \in Byte
  PROVE  /\ ((p0 ++ p1) ++ p2) ++ p3 \in Byte
         /\ \A n \in 0..7 : Bit(((p0 ++ p1) ++ p2) ++ p3, n) <=>
              (((Bit(p0, n) <=> ~ Bit(p1, n)) <=> ~ Bit(p2, n)) <=> ~ Bit(p3, n))
<1>1. p0 ++ p1 \in Byte /\ (p0 ++ p1) ++ p2 \in Byte /\ ((p0 ++ p1) ++ p2) ++ p3 \in Byte
  BY SumType
<1>2. ASSUME NEW n \in 0..7
      PROVE  Bit(((p0 ++ p1) ++ p2) ++ p3, n) <=>
               (((Bit(p0, n) <=> ~ Bit(p1, n)) <=> ~ Bit(p2, n)) <=> ~ Bit(p3, n))
  <2>1. Bit(p0 ++ p1, n) <=> (Bit(p0, n) <=> ~ Bit(p1, n))
    BY SumBits
  <2>2. Bit((p0 ++ p1) ++ p2, n) <=> (Bit(p0 ++ p1, n) <=> ~ Bit(p2, n))
    BY <1>1, SumBits
  <2>3. Bit(((p0 ++ p1) ++ p2) ++ p3, n) <=> (Bit((p0 ++ p1) ++ p2, n) <=> ~ Bit(p3, n))
    BY <1>1, SumBits
  <2> QED BY <2>1, <2>2, <2>3
<1> QED BY <1>1, <1>2

\* Byte n places below byte k in its column.
Below(x, k, n) == x[4 * (k \div 4) + ((k + n) % 4) + 1]
MixedAt(x, k) == Mixed(Below(x, k, 0), Below(x, k, 1), Below(x, k, 2), Below(x, k, 3))

\* The bytes of a column are bytes.
LEMMA BelowType ==
  ASSUME NEW x \in Block, NEW k \in 0..15, NEW n \in 0..3
  PROVE  Below(x, k, n) \in Byte
<1>1. 4 * (k \div 4) + ((k + n) % 4) + 1 \in 1..16
  OBVIOUS
<1> QED BY <1>1 DEF Below, Block

\* FMixColumns mixes every byte with those below.
LEMMA MixColumnsOf ==
  ASSUME NEW x \in Block
  PROVE  /\ FMixColumns(x) = [i \in 1..16 |-> MixedAt(x, i - 1)]
         /\ FMixColumns(x) \in Block
<1> DEFINE f == [i \in 1..16 |-> MixedAt(x, i - 1)]
<1>1. ASSUME NEW k \in 0..15 PROVE MixedAt(x, k) \in Byte
  <2>1. /\ Below(x, k, 0) \in Byte /\ Below(x, k, 1) \in Byte
        /\ Below(x, k, 2) \in Byte /\ Below(x, k, 3) \in Byte
    BY BelowType
  <2> QED BY <2>1, MixedBits DEF MixedAt
<1>2. f \in Block
  <2>1. \A i \in 1..16 : i - 1 \in 0..15
    OBVIOUS
  <2> QED BY <1>1, <2>1 DEF Block
<1>3. FMixColumns(x) = SubSeq(f, 1, 16)
  BY DEF FMixColumns, Sixteen, Table, MixedAt, Mixed, Below
<1> HIDE DEF f
<1>4. FMixColumns(x) = f
  BY <1>2, <1>3, WholeBlock
<1> QED BY <1>2, <1>4 DEF f

\* f1 and f4.
LEMMA MixColumnsSame ==
  ASSUME NEW x \in Block
  PROVE  MixColumns(x) = FMixColumns(x)
<1> DEFINE all(i) == x[i + 1] ++ x[i + 2] ++ x[i + 3] ++ x[i + 4]
           one(k) == x[k + 1] ++ (xtime(x[k + 1] ++ x[4 * (k \div 4) + ((k + 1) % 4) + 1])
                                    ++ all(4 * (k \div 4)))
           g == [i \in 1..16 |-> one(i - 1)]
<1>1. ASSUME NEW k \in 0..15 PROVE one(k) = MixedAt(x, k)
  <2>1. PICK c \in {0, 4, 8, 12} : c = 4 * (k \div 4)
    OBVIOUS
  <2>2. PICK q1, q2, q3, q4 \in Byte :
          q1 = x[c + 1] /\ q2 = x[c + 2] /\ q3 = x[c + 3] /\ q4 = x[c + 4]
    BY DEF Block
  <2>3. PICK sum \in Byte :
          /\ sum = all(c)
          /\ \A n \in 0..7 : Bit(sum, n) <=>
               (((Bit(q1, n) <=> ~ Bit(q2, n)) <=> ~ Bit(q3, n)) <=> ~ Bit(q4, n))
    BY <2>2, SumFour
  <2> HIDE DEF all
  <2>4. CASE k = c
    <3>1. /\ Below(x, k, 0) = q1 /\ Below(x, k, 1) = q2 /\ Below(x, k, 2) = q3
          /\ Below(x, k, 3) = q4 /\ x[k + 1] = q1
          /\ x[4 * (k \div 4) + ((k + 1) % 4) + 1] = q2
      BY <2>1, <2>2, <2>4 DEF Below
    <3>2. q1 ++ (xtime(q1 ++ q2) ++ sum) = Mixed(q1, q2, q3, q4)
      BY <2>3, MixedWays
    <3> QED BY <2>1, <2>3, <3>1, <3>2 DEF MixedAt
  <2>5. CASE k = c + 1
    <3>1. /\ Below(x, k, 0) = q2 /\ Below(x, k, 1) = q3 /\ Below(x, k, 2) = q4
          /\ Below(x, k, 3) = q1 /\ x[k + 1] = q2
          /\ x[4 * (k \div 4) + ((k + 1) % 4) + 1] = q3
      BY <2>1, <2>2, <2>5 DEF Below
    <3>2. \A n \in 0..7 : Bit(sum, n) <=>
            (((Bit(q2, n) <=> ~ Bit(q3, n)) <=> ~ Bit(q4, n)) <=> ~ Bit(q1, n))
      BY <2>3
    <3>3. q2 ++ (xtime(q2 ++ q3) ++ sum) = Mixed(q2, q3, q4, q1)
      BY <3>2, MixedWays
    <3> QED BY <2>1, <2>3, <3>1, <3>3 DEF MixedAt
  <2>6. CASE k = c + 2
    <3>1. /\ Below(x, k, 0) = q3 /\ Below(x, k, 1) = q4 /\ Below(x, k, 2) = q1
          /\ Below(x, k, 3) = q2 /\ x[k + 1] = q3
          /\ x[4 * (k \div 4) + ((k + 1) % 4) + 1] = q4
      BY <2>1, <2>2, <2>6 DEF Below
    <3>2. \A n \in 0..7 : Bit(sum, n) <=>
            (((Bit(q3, n) <=> ~ Bit(q4, n)) <=> ~ Bit(q1, n)) <=> ~ Bit(q2, n))
      BY <2>3
    <3>3. q3 ++ (xtime(q3 ++ q4) ++ sum) = Mixed(q3, q4, q1, q2)
      BY <3>2, MixedWays
    <3> QED BY <2>1, <2>3, <3>1, <3>3 DEF MixedAt
  <2>7. CASE k = c + 3
    <3>1. /\ Below(x, k, 0) = q4 /\ Below(x, k, 1) = q1 /\ Below(x, k, 2) = q2
          /\ Below(x, k, 3) = q3 /\ x[k + 1] = q4
          /\ x[4 * (k \div 4) + ((k + 1) % 4) + 1] = q1
      BY <2>1, <2>2, <2>7 DEF Below
    <3>2. \A n \in 0..7 : Bit(sum, n) <=>
            (((Bit(q4, n) <=> ~ Bit(q1, n)) <=> ~ Bit(q2, n)) <=> ~ Bit(q3, n))
      BY <2>3
    <3>3. q4 ++ (xtime(q4 ++ q1) ++ sum) = Mixed(q4, q1, q2, q3)
      BY <3>2, MixedWays
    <3> QED BY <2>1, <2>3, <3>1, <3>3 DEF MixedAt
  <2>8. k = c \/ k = c + 1 \/ k = c + 2 \/ k = c + 3
    BY <2>1
  <2> QED BY <2>4, <2>5, <2>6, <2>7, <2>8
<1>2. MixColumns(x) = SubSeq(g, 1, 16)
  BY DEF MixColumns, Sixteen, Table
<1>3. g = [i \in 1..16 |-> MixedAt(x, i - 1)]
  <2> HIDE DEF one
  <2>1. \A i \in 1..16 : i - 1 \in 0..15
    OBVIOUS
  <2> QED BY <1>1, <2>1
<1>4. g = FMixColumns(x) /\ g \in Block
  BY <1>3, MixColumnsOf
<1> HIDE DEF g
<1> QED BY <1>2, <1>4, WholeBlock

\* f2 and f5.
LEMMA McolWay ==
  ASSUME NEW p0 \in Byte, NEW p1 \in Byte, NEW p2 \in Byte, NEW p3 \in Byte
  PROVE  ((gmul2(p0) ++ p2) ++ (gmul2(p1) ++ p3)) ++ p1 = Mixed(p0, p1, p2, p3)
<1>1. PICK all \in Byte : all = ((p0 ++ p1) ++ p2) ++ p3
  BY SumFour
<1>2. \A n \in 0..7 : Bit(all, n) <=>
        (((Bit(p0, n) <=> ~ Bit(p1, n)) <=> ~ Bit(p2, n)) <=> ~ Bit(p3, n))
  BY <1>1, SumFour
<1> QED BY <1>2, MixedWays

\* Mcol computes the products of a column once.
LEMMA McolSame ==
  ASSUME NEW x \in Block
  PROVE  Mcol(x) = FMixColumns(x)
<1> DEFINE y(i, n) == gmul2(x[i + n]) ++ x[i + ((n + 1) % 4) + 1]
           column(i) == <<(y(i, 1) ++ y(i, 2)) ++ x[i + 2], (y(i, 2) ++ y(i, 3)) ++ x[i + 3],
                          (y(i, 3) ++ y(i, 4)) ++ x[i + 4], (y(i, 4) ++ y(i, 1)) ++ x[i + 1]>>
           g == [i \in 1..16 |-> column(4 * ((i - 1) \div 4))[((i - 1) % 4) + 1]]
<1>1. ASSUME NEW k \in 0..15 PROVE column(4 * (k \div 4))[(k % 4) + 1] = MixedAt(x, k)
  <2>1. PICK c \in {0, 4, 8, 12} : c = 4 * (k \div 4)
    OBVIOUS
  <2>2. PICK q1, q2, q3, q4 \in Byte :
          q1 = x[c + 1] /\ q2 = x[c + 2] /\ q3 = x[c + 3] /\ q4 = x[c + 4]
    BY DEF Block
  <2>3. /\ y(c, 1) = gmul2(q1) ++ q3 /\ y(c, 2) = gmul2(q2) ++ q4
        /\ y(c, 3) = gmul2(q3) ++ q1 /\ y(c, 4) = gmul2(q4) ++ q2
    BY <2>2
  <2> HIDE DEF y
  <2>4. /\ (y(c, 1) ++ y(c, 2)) ++ q2 = Mixed(q1, q2, q3, q4)
        /\ (y(c, 2) ++ y(c, 3)) ++ q3 = Mixed(q2, q3, q4, q1)
        /\ (y(c, 3) ++ y(c, 4)) ++ q4 = Mixed(q3, q4, q1, q2)
        /\ (y(c, 4) ++ y(c, 1)) ++ q1 = Mixed(q4, q1, q2, q3)
    BY <2>3, McolWay
  <2>5. CASE k = c
    <3>1. /\ Below(x, k, 0) = q1 /\ Below(x, k, 1) = q2 /\ Below(x, k, 2) = q3
          /\ Below(x, k, 3) = q4 /\ (k % 4) + 1 = 1
      BY <2>1, <2>2, <2>5 DEF Below
    <3> QED BY <2>1, <2>2, <2>4, <3>1 DEF MixedAt
  <2>6. CASE k = c + 1
    <3>1. /\ Below(x, k, 0) = q2 /\ Below(x, k, 1) = q3 /\ Below(x, k, 2) = q4
          /\ Below(x, k, 3) = q1 /\ (k % 4) + 1 = 2
      BY <2>1, <2>2, <2>6 DEF Below
    <3> QED BY <2>1, <2>2, <2>4, <3>1 DEF MixedAt
  <2>7. CASE k = c + 2
    <3>1. /\ Below(x, k, 0) = q3 /\ Below(x, k, 1) = q4 /\ Below(x, k, 2) = q1
          /\ Below(x, k, 3) = q2 /\ (k % 4) + 1 = 3
      BY <2>1, <2>2, <2>7 DEF Below
    <3> QED BY <2>1, <2>2, <2>4, <3>1 DEF MixedAt
  <2>8. CASE k = c + 3
    <3>1. /\ Below(x, k, 0) = q4 /\ Below(x, k, 1) = q1 /\ Below(x, k, 2) = q2
          /\ Below(x, k, 3) = q3 /\ (k % 4) + 1 = 4
      BY <2>1, <2>2, <2>8 DEF Below
    <3> QED BY <2>1, <2>2, <2>4, <3>1 DEF MixedAt
  <2>9. k = c \/ k = c + 1 \/ k = c + 2 \/ k = c + 3
    BY <2>1
  <2> QED BY <2>5, <2>6, <2>7, <2>8, <2>9
<1>2. Mcol(x) = SubSeq(g, 1, 16)
  BY DEF Mcol, Sixteen, Table
<1>3. g = [i \in 1..16 |-> MixedAt(x, i - 1)]
  <2> HIDE DEF column
  <2>1. \A i \in 1..16 : i - 1 \in 0..15
    OBVIOUS
  <2> QED BY <1>1, <2>1
<1>4. g = FMixColumns(x) /\ g \in Block
  BY <1>3, MixColumnsOf
<1> HIDE DEF g
<1> QED BY <1>2, <1>4, WholeBlock

------------------------------------------------------------------------------
\* The sliced backends: what each step does to lane 0.

\* Bit n of byte k of lane 0.
InLane(B, k, n) == 0 \in B[k + 1][n + 1]

\* Words is a table of tables.
Tabled(g) == SubSeq([i \in 1..16 |-> SubSeq(g[i], 1, 8)], 1, 16)

\* Reading the table.
LEMMA WordsAt ==
  ASSUME NEW g, \A i \in 1..16 : g[i] = [j \in 1..8 |-> g[i][j]]
  PROVE  \A k \in 0..15, n \in 0..7 : Tabled(g)[k + 1][n + 1] = g[k + 1][n + 1]
<1> DEFINE f == [i \in 1..16 |-> SubSeq(g[i], 1, 8)]
<1> SUFFICES ASSUME NEW k \in 0..15, NEW n \in 0..7
             PROVE  SubSeq(f, 1, 16)[k + 1][n + 1] = g[k + 1][n + 1]
  BY DEF Tabled
<1>1. SubSeq(f, 1, 16)[k + 1] = f[k + 1]
  <2>1. f \in [1..16 -> {f[i] : i \in 1..16}]
    OBVIOUS
  <2>2. SubSeq(f, 1, 16) = f
    BY <2>1, WholeTable
  <2> QED BY <2>2
<1>2. k + 1 \in 1..16 /\ n + 1 \in 1..8
  OBVIOUS
<1>3. f[k + 1] = SubSeq(g[k + 1], 1, 8)
  BY <1>2
<1>4. PICK h : h = g[k + 1]
  OBVIOUS
<1>5. h = [j \in 1..8 |-> h[j]]
  BY <1>2, <1>4
<1>6. SubSeq(h, 1, 8) = h
  <2>1. h \in [1..8 -> {h[j] : j \in 1..8}]
    BY <1>5
  <2> QED BY <2>1, WholeTable
<1> QED BY <1>1, <1>3, <1>4, <1>6

\* bs_transpose_rev reads lane 0.
LEMMA LaneOf ==
  ASSUME NEW B
  PROVE  /\ bs_transpose_rev(B) \in Block
         /\ \A k \in 0..15, n \in 0..7 : Bit(bs_transpose_rev(B)[k + 1], n) <=> InLane(B, k, n)
<1> DEFINE p(k) == {n \in 0..7 : 0 \in B[k + 1][n + 1]}
           f == [i \in 1..16 |-> Packed(p(i - 1))]
<1>1. \A k : Packed(p(k)) \in Byte /\ \A n \in 0..7 : Bit(Packed(p(k)), n) <=> n \in p(k)
  <2>1. \A k : p(k) \in SUBSET (0..7)
    OBVIOUS
  <2> HIDE DEF p
  <2> QED BY <2>1, ByteAssumption
<1>2. f \in Block
  <2> HIDE DEF p
  <2> QED BY <1>1 DEF Block
<1>3. bs_transpose_rev(B) = SubSeq(f, 1, 16)
  BY DEF bs_transpose_rev, Sixteen, Table
<1>4. \A k \in 0..15 : f[k + 1] = Packed(p(k))
  <2>1. \A k \in 0..15 : k + 1 \in 1..16 /\ (k + 1) - 1 = k
    OBVIOUS
  <2> HIDE DEF p
  <2> QED BY <2>1
<1>5. \A k \in 0..15, n \in 0..7 : n \in p(k) <=> InLane(B, k, n)
  BY DEF InLane
<1> HIDE DEF f, p
<1>6. bs_transpose_rev(B) = f
  BY <1>2, <1>3, WholeBlock
<1> QED BY <1>1, <1>2, <1>4, <1>5, <1>6

\* Only the block of lane 0 reaches lane 0.
LEMMA TransposeLane ==
  ASSUME NEW blocks
  PROVE  \A k \in 0..15, n \in 0..7 :
           InLane(bs_transpose(blocks), k, n) <=> Bit(blocks[0][k + 1], n)
<1> DEFINE lanes(k, n) == UNION {bitpos(l) : l \in {l \in Lanes : Bit(blocks[l][k + 1], n)}}
           g == [i \in 1..16 |-> [j \in 1..8 |-> lanes(i - 1, j - 1)]]
<1>1. bs_transpose(blocks) = Tabled(g)
  <2>1. Tabled(g) = SubSeq([i \in 1..16 |-> SubSeq([j \in 1..8 |-> lanes(i - 1, j - 1)], 1, 8)], 1, 16)
    <3> HIDE DEF lanes
    <3> QED BY DEF Tabled
  <2> QED BY <2>1 DEF bs_transpose, Words, Sixteen, Eight, Table
<1>2. \A k, n : 0 \in lanes(k, n) <=> Bit(blocks[0][k + 1], n)
  <2>1. \A l \in Lanes : 0 \in bitpos(l) <=> l = 0
    BY LanesAssumption DEF bitpos
  <2>2. 0 \in Lanes
    BY LanesAssumption
  <2> QED BY <2>1, <2>2
<1> HIDE DEF lanes
<1>3. \A i \in 1..16 : g[i] = [j \in 1..8 |-> g[i][j]]
  OBVIOUS
<1>4. \A k \in 0..15, n \in 0..7 : g[k + 1][n + 1] = lanes(k, n)
  <2>1. \A k \in 0..15, n \in 0..7 : k + 1 \in 1..16 /\ n + 1 \in 1..8
                                      /\ (k + 1) - 1 = k /\ (n + 1) - 1 = n
    OBVIOUS
  <2> QED BY <2>1
<1> HIDE DEF g
<1>5. \A k \in 0..15, n \in 0..7 : Tabled(g)[k + 1][n + 1] = g[k + 1][n + 1]
  BY <1>3, WordsAt
<1>6. ASSUME NEW k \in 0..15, NEW n \in 0..7
      PROVE  InLane(bs_transpose(blocks), k, n) <=> Bit(blocks[0][k + 1], n)
  <2>1. InLane(bs_transpose(blocks), k, n) <=> 0 \in Tabled(g)[k + 1][n + 1]
    BY <1>1 DEF InLane
  <2>2. Tabled(g)[k + 1][n + 1] = lanes(k, n)
    BY <1>4, <1>5
  <2> QED BY <1>2, <2>1, <2>2
<1> QED BY <1>6

\* A block in lane 0 is read back.
LEMMA LaneIs ==
  ASSUME NEW B, NEW x \in Block,
         \A k \in 0..15, n \in 0..7 : InLane(B, k, n) <=> Bit(x[k + 1], n)
  PROVE  bs_transpose_rev(B) = x
<1>1. ASSUME NEW k \in 0..15 PROVE bs_transpose_rev(B)[k + 1] = x[k + 1]
  <2>1. bs_transpose_rev(B)[k + 1] \in Byte /\ x[k + 1] \in Byte
    BY LaneOf DEF Block
  <2>2. \A n \in 0..7 : Bit(bs_transpose_rev(B)[k + 1], n) <=> Bit(x[k + 1], n)
    BY LaneOf
  <2> QED BY <2>1, <2>2, SameBits
<1>2. \A i \in 1..16 : bs_transpose_rev(B)[i] = x[i]
  <2>1. \A i \in 1..16 : i - 1 \in 0..15 /\ (i - 1) + 1 = i
    OBVIOUS
  <2> QED BY <1>1, <2>1
<1>3. bs_transpose_rev(B) \in Block
  BY LaneOf
<1> QED BY <1>2, <1>3 DEF Block

\* Lane 0 of the input is the block.
LEMMA InputLane ==
  ASSUME NEW in \in Block
  PROVE  \A k \in 0..15, n \in 0..7 : InLane(Input(in), k, n) <=> Bit(in[k + 1], n)
<1> DEFINE blocks == [l \in Lanes |-> IF l = 0 THEN in ELSE Sixteen(LAMBDA k : 0)]
<1>1. Input(in) = bs_transpose(blocks)
  BY DEF Input
<1>2. blocks[0] = in
  BY LanesAssumption
<1> HIDE DEF blocks
<1> QED BY <1>1, <1>2, TransposeLane

\* Lane 0 of a sliced round key is the round key.
LEMMA KeyLane ==
  ASSUME NEW sched, NEW j
  PROVE  \A k \in 0..15, n \in 0..7 :
           InLane(bs_expand_key(sched, j), k, n) <=> Bit(RoundKey(sched, j)[k + 1], n)
<1> DEFINE blocks == [l \in Lanes |-> RoundKey(sched, j)]
<1>1. bs_expand_key(sched, j) = bs_transpose(blocks)
  BY DEF bs_expand_key
<1>2. blocks[0] = RoundKey(sched, j)
  BY LanesAssumption
<1> HIDE DEF blocks
<1> QED BY <1>1, <1>2, TransposeLane

\* ^ in lane 0.
LEMMA XorLane == \A x, y : 0 \in (x (-) y) <=> (0 \in x <=> ~ (0 \in y))
BY DEF (-)

\* bs_addroundkey in lane 0.
LEMMA AddKeyLane ==
  ASSUME NEW B, NEW K
  PROVE  \A k \in 0..15, n \in 0..7 :
           InLane(bs_addroundkey(B, K), k, n) <=> (InLane(B, k, n) <=> ~ InLane(K, k, n))
<1> DEFINE sum(k, n) == B[k + 1][n + 1] (-) K[k + 1][n + 1]
           g == [i \in 1..16 |-> [j \in 1..8 |-> sum(i - 1, j - 1)]]
<1>1. bs_addroundkey(B, K) = Tabled(g)
  <2>1. Tabled(g) = SubSeq([i \in 1..16 |-> SubSeq([j \in 1..8 |-> sum(i - 1, j - 1)], 1, 8)], 1, 16)
    <3> HIDE DEF sum
    <3> QED BY DEF Tabled
  <2> QED BY <2>1 DEF bs_addroundkey, Words, Sixteen, Eight, Table
<1>2. \A k, n : 0 \in sum(k, n) <=> (InLane(B, k, n) <=> ~ InLane(K, k, n))
  BY XorLane DEF InLane
<1> HIDE DEF sum
<1>3. \A i \in 1..16 : g[i] = [j \in 1..8 |-> g[i][j]]
  OBVIOUS
<1>4. \A k \in 0..15, n \in 0..7 : g[k + 1][n + 1] = sum(k, n)
  <2>1. \A k \in 0..15, n \in 0..7 : k + 1 \in 1..16 /\ n + 1 \in 1..8
                                      /\ (k + 1) - 1 = k /\ (n + 1) - 1 = n
    OBVIOUS
  <2> QED BY <2>1
<1> HIDE DEF g
<1>5. \A k \in 0..15, n \in 0..7 : Tabled(g)[k + 1][n + 1] = g[k + 1][n + 1]
  BY <1>3, WordsAt
<1>6. ASSUME NEW k \in 0..15, NEW n \in 0..7
      PROVE  InLane(bs_addroundkey(B, K), k, n) <=> (InLane(B, k, n) <=> ~ InLane(K, k, n))
  <2>1. InLane(bs_addroundkey(B, K), k, n) <=> 0 \in Tabled(g)[k + 1][n + 1]
    BY <1>1 DEF InLane
  <2>2. Tabled(g)[k + 1][n + 1] = sum(k, n)
    BY <1>4, <1>5
  <2> QED BY <1>2, <2>1, <2>2
<1> QED BY <1>6

\* The words D of U and V agree in lane 0.
Agree(U, V, D) == \A i \in D : 0 \in U[i] <=> 0 \in V[i]

\* The gates of each part compute lane 0 from lane 0: those before the inversion,
LEMMA TopLane ==
  ASSUME NEW U, NEW V, Agree(U, V, 1..8)
  PROVE  Agree(TopGates(U), TopGates(V), 1..27)
<1>1. /\ 0 \in U[1] <=> 0 \in V[1]
      /\ 0 \in U[2] <=> 0 \in V[2]
      /\ 0 \in U[3] <=> 0 \in V[3]
      /\ 0 \in U[4] <=> 0 \in V[4]
      /\ 0 \in U[5] <=> 0 \in V[5]
      /\ 0 \in U[6] <=> 0 \in V[6]
      /\ 0 \in U[7] <=> 0 \in V[7]
      /\ 0 \in U[8] <=> 0 \in V[8]
  BY DEF Agree
<1>2. ASSUME NEW i \in 1..27 PROVE 0 \in TopGates(U)[i] <=> 0 \in TopGates(V)[i]
  BY <1>1, XorLane, SMTT(60) DEF TopGates
<1> QED BY <1>2 DEF Agree

\* the middle ones,
LEMMA MiddleLane ==
  ASSUME NEW U, NEW V, Agree(U, V, 1..8), NEW T, NEW T2, Agree(T, T2, 1..27)
  PROVE  Agree(MiddleGates(U, T), MiddleGates(V, T2), 1..27)
<1>1. 0 \in U[1] <=> 0 \in V[1]
  BY DEF Agree
<1>2. /\ 0 \in T[1] <=> 0 \in T2[1]
      /\ 0 \in T[2] <=> 0 \in T2[2]
      /\ 0 \in T[3] <=> 0 \in T2[3]
      /\ 0 \in T[4] <=> 0 \in T2[4]
      /\ 0 \in T[5] <=> 0 \in T2[5]
      /\ 0 \in T[6] <=> 0 \in T2[6]
      /\ 0 \in T[7] <=> 0 \in T2[7]
      /\ 0 \in T[8] <=> 0 \in T2[8]
      /\ 0 \in T[9] <=> 0 \in T2[9]
      /\ 0 \in T[10] <=> 0 \in T2[10]
      /\ 0 \in T[11] <=> 0 \in T2[11]
      /\ 0 \in T[12] <=> 0 \in T2[12]
      /\ 0 \in T[13] <=> 0 \in T2[13]
      /\ 0 \in T[14] <=> 0 \in T2[14]
      /\ 0 \in T[15] <=> 0 \in T2[15]
      /\ 0 \in T[16] <=> 0 \in T2[16]
      /\ 0 \in T[17] <=> 0 \in T2[17]
      /\ 0 \in T[18] <=> 0 \in T2[18]
      /\ 0 \in T[19] <=> 0 \in T2[19]
      /\ 0 \in T[20] <=> 0 \in T2[20]
      /\ 0 \in T[21] <=> 0 \in T2[21]
      /\ 0 \in T[22] <=> 0 \in T2[22]
      /\ 0 \in T[23] <=> 0 \in T2[23]
      /\ 0 \in T[24] <=> 0 \in T2[24]
      /\ 0 \in T[25] <=> 0 \in T2[25]
      /\ 0 \in T[26] <=> 0 \in T2[26]
      /\ 0 \in T[27] <=> 0 \in T2[27]
  BY DEF Agree
<1>3. ASSUME NEW i \in 1..27 PROVE 0 \in MiddleGates(U, T)[i] <=> 0 \in MiddleGates(V, T2)[i]
  BY <1>1, <1>2, XorLane, SMTT(60) DEF MiddleGates
<1> QED BY <1>3 DEF Agree

\* the inversion,
LEMMA InverseLane ==
  ASSUME NEW M, NEW M2, Agree(M, M2, 1..27)
  PROVE  Agree(InverseGates(M), InverseGates(M2), 28..45)
<1>1. /\ 0 \in M[20] <=> 0 \in M2[20]
      /\ 0 \in M[21] <=> 0 \in M2[21]
      /\ 0 \in M[22] <=> 0 \in M2[22]
      /\ 0 \in M[23] <=> 0 \in M2[23]
      /\ 0 \in M[24] <=> 0 \in M2[24]
      /\ 0 \in M[25] <=> 0 \in M2[25]
      /\ 0 \in M[26] <=> 0 \in M2[26]
      /\ 0 \in M[27] <=> 0 \in M2[27]
  BY DEF Agree
<1> DEFINE at(i) == 0 \in InverseGates(M)[i] <=> 0 \in InverseGates(M2)[i]
<1>2. at(28) /\ at(29) /\ at(30)
  BY <1>1, XorLane, SMTT(30) DEF InverseGates, Gates
<1>3. at(31) /\ at(32) /\ at(33)
  BY <1>1, XorLane, SMTT(30) DEF InverseGates, Gates
<1>4. at(34) /\ at(35) /\ at(36)
  BY <1>1, XorLane, SMTT(30) DEF InverseGates, Gates
<1>5. at(37) /\ at(38) /\ at(39)
  BY <1>1, XorLane, SMTT(30) DEF InverseGates, Gates
<1>6. at(40) /\ at(41) /\ at(42)
  BY <1>1, XorLane, SMTT(30) DEF InverseGates, Gates
<1>7. at(43) /\ at(44) /\ at(45)
  BY <1>1, XorLane, SMTT(30) DEF InverseGates, Gates
<1> HIDE DEF at
<1>8. \A i \in 28..45 : at(i)
  BY <1>2, <1>3, <1>4, <1>5, <1>6, <1>7
<1> QED BY <1>8 DEF Agree, at

\* the products
LEMMA ProductLane ==
  ASSUME NEW U, NEW V, Agree(U, V, 1..8), NEW T, NEW T2, Agree(T, T2, 1..27),
         NEW M, NEW M2, Agree(M, M2, 28..45)
  PROVE  Agree(ProductGates(U, T, M), ProductGates(V, T2, M2), 46..63)
<1>1. 0 \in U[1] <=> 0 \in V[1]
  BY DEF Agree
<1>2. /\ 0 \in T[1] <=> 0 \in T2[1]
      /\ 0 \in T[2] <=> 0 \in T2[2]
      /\ 0 \in T[3] <=> 0 \in T2[3]
      /\ 0 \in T[4] <=> 0 \in T2[4]
      /\ 0 \in T[5] <=> 0 \in T2[5]
      /\ 0 \in T[6] <=> 0 \in T2[6]
      /\ 0 \in T[7] <=> 0 \in T2[7]
      /\ 0 \in T[8] <=> 0 \in T2[8]
      /\ 0 \in T[9] <=> 0 \in T2[9]
      /\ 0 \in T[10] <=> 0 \in T2[10]
      /\ 0 \in T[11] <=> 0 \in T2[11]
      /\ 0 \in T[12] <=> 0 \in T2[12]
      /\ 0 \in T[13] <=> 0 \in T2[13]
      /\ 0 \in T[14] <=> 0 \in T2[14]
      /\ 0 \in T[15] <=> 0 \in T2[15]
      /\ 0 \in T[16] <=> 0 \in T2[16]
      /\ 0 \in T[17] <=> 0 \in T2[17]
      /\ 0 \in T[18] <=> 0 \in T2[18]
      /\ 0 \in T[19] <=> 0 \in T2[19]
      /\ 0 \in T[20] <=> 0 \in T2[20]
      /\ 0 \in T[21] <=> 0 \in T2[21]
      /\ 0 \in T[22] <=> 0 \in T2[22]
      /\ 0 \in T[23] <=> 0 \in T2[23]
      /\ 0 \in T[24] <=> 0 \in T2[24]
      /\ 0 \in T[25] <=> 0 \in T2[25]
      /\ 0 \in T[26] <=> 0 \in T2[26]
      /\ 0 \in T[27] <=> 0 \in T2[27]
  BY DEF Agree
<1>3. /\ 0 \in M[37] <=> 0 \in M2[37]
      /\ 0 \in M[38] <=> 0 \in M2[38]
      /\ 0 \in M[39] <=> 0 \in M2[39]
      /\ 0 \in M[40] <=> 0 \in M2[40]
      /\ 0 \in M[41] <=> 0 \in M2[41]
      /\ 0 \in M[42] <=> 0 \in M2[42]
      /\ 0 \in M[43] <=> 0 \in M2[43]
      /\ 0 \in M[44] <=> 0 \in M2[44]
      /\ 0 \in M[45] <=> 0 \in M2[45]
  BY DEF Agree
<1>4. ASSUME NEW i \in 46..63
      PROVE  0 \in ProductGates(U, T, M)[i] <=> 0 \in ProductGates(V, T2, M2)[i]
  BY <1>1, <1>2, <1>3, SMTT(60) DEF ProductGates, Gates
<1> QED BY <1>4 DEF Agree

\* and the sums at the end.
LEMMA BottomLane ==
  ASSUME NEW M, NEW M2, Agree(M, M2, 46..63)
  PROVE  Agree(BottomGates(M), BottomGates(M2), 1..8)
<1>1. /\ 0 \in M[46] <=> 0 \in M2[46]
      /\ 0 \in M[47] <=> 0 \in M2[47]
      /\ 0 \in M[48] <=> 0 \in M2[48]
      /\ 0 \in M[49] <=> 0 \in M2[49]
      /\ 0 \in M[50] <=> 0 \in M2[50]
      /\ 0 \in M[51] <=> 0 \in M2[51]
      /\ 0 \in M[52] <=> 0 \in M2[52]
      /\ 0 \in M[53] <=> 0 \in M2[53]
      /\ 0 \in M[54] <=> 0 \in M2[54]
      /\ 0 \in M[55] <=> 0 \in M2[55]
      /\ 0 \in M[56] <=> 0 \in M2[56]
      /\ 0 \in M[57] <=> 0 \in M2[57]
      /\ 0 \in M[58] <=> 0 \in M2[58]
      /\ 0 \in M[59] <=> 0 \in M2[59]
      /\ 0 \in M[60] <=> 0 \in M2[60]
      /\ 0 \in M[61] <=> 0 \in M2[61]
      /\ 0 \in M[62] <=> 0 \in M2[62]
      /\ 0 \in M[63] <=> 0 \in M2[63]
  BY DEF Agree
<1>2. \A x : 0 \in Not(x) <=> ~ (0 \in x)
  BY LanesAssumption DEF Not
<1>3. ASSUME NEW i \in 1..8 PROVE 0 \in BottomGates(M)[i] <=> 0 \in BottomGates(M2)[i]
  BY <1>1, <1>2, XorLane, SMTT(60) DEF BottomGates
<1> QED BY <1>3 DEF Agree

\* The circuit computes lane 0 from lane 0.
LEMMA CircuitLane ==
  ASSUME NEW U, NEW V, Agree(U, V, 1..8)
  PROVE  Agree(bs_sbox(U), bs_sbox(V), 1..8)
BY TopLane, MiddleLane, InverseLane, ProductLane, BottomLane DEF bs_sbox

\* So it is the S-box.
LEMMA SboxLane ==
  ASSUME NEW B
  PROVE  \A k \in 0..15, n \in 0..7 :
           InLane(bs_apply_sbox(B), k, n) <=> Bit(FSubBytes(bs_transpose_rev(B))[k + 1], n)
<1> SUFFICES ASSUME NEW k \in 0..15, NEW n \in 0..7
             PROVE  InLane(bs_apply_sbox(B), k, n)
                      <=> Bit(FSubBytes(bs_transpose_rev(B))[k + 1], n)
  OBVIOUS
<1> DEFINE U == B[k + 1]
           x == bs_transpose_rev(B)[k + 1]
           V == [i \in 1..8 |-> IF Bit(x, i - 1) THEN {0} ELSE {}]
           f == [i \in 1..16 |-> bs_sbox(B[(i - 1) + 1])]
<1>1. x \in Byte /\ k + 1 \in 1..16
  BY LaneOf DEF Block
<1>2. Agree(U, V, 1..8)
  <2>1. ASSUME NEW i \in 1..8 PROVE 0 \in U[i] <=> Bit(x, i - 1)
    <3>1. i - 1 \in 0..7 /\ (i - 1) + 1 = i
      OBVIOUS
    <3> QED BY <3>1, LaneOf DEF InLane
  <2> HIDE DEF U, x
  <2> QED BY <2>1 DEF Agree
<1>3. bs_apply_sbox(B)[k + 1] = bs_sbox(U)
  <2>1. f \in [1..16 -> {f[i] : i \in 1..16}]
    OBVIOUS
  <2>2. SubSeq(f, 1, 16) = f
    BY <2>1, WholeTable
  <2>3. f[k + 1] = bs_sbox(U)
    OBVIOUS
  <2>4. bs_apply_sbox(B) = SubSeq(f, 1, 16)
    BY DEF bs_apply_sbox, Sixteen, Table
  <2> HIDE DEF f, U
  <2> QED BY <2>2, <2>3, <2>4
<1>4. 0 \in bs_sbox(V)[n + 1] <=> Bit(Sub(x), n)
  <2> HIDE DEF x
  <2> QED BY <1>1, CircuitAssumption
<1>5. FSubBytes(bs_transpose_rev(B))[k + 1] = Sub(x)
  BY <1>1, LaneOf, SubBytesOf
<1> HIDE DEF U, V, x
<1>6. 0 \in bs_sbox(U)[n + 1] <=> 0 \in bs_sbox(V)[n + 1]
  BY <1>2, CircuitLane DEF Agree
<1> QED BY <1>3, <1>4, <1>5, <1>6 DEF InLane

\* bs_shiftrows in lane 0.
LEMMA ShiftLane ==
  ASSUME NEW B
  PROVE  \A k \in 0..15, n \in 0..7 :
           InLane(bs_shiftrows(B), k, n) <=> Bit(FShiftRows(bs_transpose_rev(B))[k + 1], n)
<1> DEFINE x == bs_transpose_rev(B)
           f == [i \in 1..16 |-> B[((4 * ((i - 1) \div 4) + 5 * ((i - 1) % 4)) % 16) + 1]]
<1>1. x \in Block
  BY LaneOf
<1>2. bs_shiftrows(B) = SubSeq(f, 1, 16)
  BY DEF bs_shiftrows, Sixteen, Table
<1>3. SubSeq(f, 1, 16) = f
  <2>1. f \in [1..16 -> {f[i] : i \in 1..16}]
    OBVIOUS
  <2> HIDE DEF f
  <2> QED BY <2>1, WholeTable
<1>4. ASSUME NEW k \in 0..15, NEW n \in 0..7
      PROVE  InLane(bs_shiftrows(B), k, n) <=> Bit(FShiftRows(x)[k + 1], n)
  <2>1. PICK q \in 0..15 :
          /\ q = (k + 4 * (k % 4)) % 16
          /\ q = (4 * (k \div 4) + 5 * (k % 4)) % 16
    OBVIOUS
  <2>2. f[k + 1] = B[q + 1]
    <3>1. k + 1 \in 1..16 /\ (k + 1) - 1 = k
      OBVIOUS
    <3> QED BY <2>1, <3>1
  <2>3. FShiftRows(x)[k + 1] = x[q + 1]
    BY <1>1, <2>1, ShiftRowsOf
  <2>4. Bit(x[q + 1], n) <=> InLane(B, q, n)
    BY LaneOf
  <2> HIDE DEF f, x
  <2> QED BY <1>2, <1>3, <2>2, <2>3, <2>4 DEF InLane
<1> QED BY <1>4

\* bs_shiftmix in lane 0 is ShiftRows and MixColumns.
LEMMA ShiftMixLane ==
  ASSUME NEW B
  PROVE  \A k \in 0..15, n \in 0..7 :
           InLane(bs_shiftmix(B), k, n)
             <=> Bit(FMixColumns(FShiftRows(bs_transpose_rev(B)))[k + 1], n)
<1> DEFINE x == bs_transpose_rev(B)
           a(k, row, bit) ==
             B[((4 * ((k \div 4) + (row % 4)) + (row % 4)) % 16) + 1][bit + 1]
           of(k) == a(k, k % 4, 7) (-) a(k, (k % 4) + 1, 7)
           twice(k, n) ==
             IF n = 0 THEN {} ELSE a(k, k % 4, n - 1) (-) a(k, (k % 4) + 1, n - 1)
           mix(k, n) ==
             twice(k, n) (-) a(k, (k % 4) + 1, n) (-) a(k, (k % 4) + 2, n)
               (-) a(k, (k % 4) + 3, n) (-) (IF n \in {0, 1, 3, 4} THEN of(k) ELSE {})
           g == [i \in 1..16 |-> [j \in 1..8 |-> mix(i - 1, j - 1)]]
<1>1. bs_shiftmix(B) = Tabled(g)
  <2>1. Tabled(g) = SubSeq([i \in 1..16 |-> SubSeq([j \in 1..8 |-> mix(i - 1, j - 1)], 1, 8)], 1, 16)
    <3> HIDE DEF mix
    <3> QED BY DEF Tabled
  <2> QED BY <2>1 DEF bs_shiftmix, Words, Sixteen, Eight, Table
<1>2. ASSUME NEW k \in 0..15, NEW n \in 0..7
      PROVE  0 \in mix(k, n) <=> Bit(FMixColumns(FShiftRows(x))[k + 1], n)
  <2>1. x \in Block /\ FShiftRows(x) \in Block
    BY LaneOf, ShiftRowsOf
  <2>2. ASSUME NEW i \in 0..3
        PROVE  /\ Below(FShiftRows(x), k, i) \in Byte
               /\ \A bit \in 0..7 :
                    0 \in a(k, (k % 4) + i, bit) <=> Bit(Below(FShiftRows(x), k, i), bit)
    <3>1. PICK q \in 0..15 : q = 4 * (k \div 4) + ((k + i) % 4)
      OBVIOUS
    <3>2. PICK p \in 0..15 : p = (q + 4 * (q % 4)) % 16
      OBVIOUS
    <3>3. ((k % 4) + i) % 4 = q % 4 /\ 4 * (k \div 4) = q - (q % 4)
      BY <3>1
    <3>4. (4 * ((k \div 4) + (((k % 4) + i) % 4)) + (((k % 4) + i) % 4)) % 16 = p
      BY <3>2, <3>3
    <3>5. FShiftRows(x)[q + 1] = x[p + 1] /\ Below(FShiftRows(x), k, i) = FShiftRows(x)[q + 1]
      BY <2>1, <3>1, <3>2, ShiftRowsOf DEF Below
    <3>6. \A bit \in 0..7 : Bit(x[p + 1], bit) <=> 0 \in B[p + 1][bit + 1]
      BY LaneOf DEF InLane
    <3>7. x[p + 1] \in Byte
      BY <2>1 DEF Block
    <3> HIDE DEF x
    <3> QED BY <3>4, <3>5, <3>6, <3>7
  <2>3. PICK p0, p1, p2, p3 \in Byte :
          /\ p0 = Below(FShiftRows(x), k, 0) /\ p1 = Below(FShiftRows(x), k, 1)
          /\ p2 = Below(FShiftRows(x), k, 2) /\ p3 = Below(FShiftRows(x), k, 3)
    BY <2>2
  <2>4. /\ \A bit \in 0..7 : 0 \in a(k, k % 4, bit) <=> Bit(p0, bit)
        /\ \A bit \in 0..7 : 0 \in a(k, (k % 4) + 1, bit) <=> Bit(p1, bit)
        /\ \A bit \in 0..7 : 0 \in a(k, (k % 4) + 2, bit) <=> Bit(p2, bit)
        /\ \A bit \in 0..7 : 0 \in a(k, (k % 4) + 3, bit) <=> Bit(p3, bit)
    <3>1. (k % 4) + 0 = k % 4
      OBVIOUS
    <3> HIDE DEF a
    <3> QED BY <2>2, <2>3, <3>1
  <2> HIDE DEF a, x
  <2>5. FMixColumns(FShiftRows(x))[k + 1] = Mixed(p0, p1, p2, p3)
    <3>1. k + 1 \in 1..16 /\ (k + 1) - 1 = k
      OBVIOUS
    <3>2. FMixColumns(FShiftRows(x))[k + 1] = MixedAt(FShiftRows(x), k)
      BY <2>1, <3>1, MixColumnsOf
    <3> QED BY <2>3, <3>2 DEF MixedAt
  <2>6. 0 \in of(k) <=> (Bit(p0, 7) <=> ~ Bit(p1, 7))
    BY <2>4, XorLane
  <2>7. 0 \in twice(k, n) <=> (n > 0 /\ (Bit(p0, n - 1) <=> ~ Bit(p1, n - 1)))
    <3>1. CASE n = 0
      BY <3>1
    <3>2. CASE n # 0
      <4>1. n - 1 \in 0..7 /\ n > 0
        BY <3>2
      <4> QED BY <2>4, <3>2, <4>1, XorLane
    <3> QED BY <3>1, <3>2
  <2> HIDE DEF of, twice
  <2>8. 0 \in mix(k, n) <=>
          ((((0 \in twice(k, n) <=> Bit(p1, n)) <=> Bit(p2, n)) <=> Bit(p3, n))
             <=> (n \in {0, 1, 3, 4} /\ 0 \in of(k)))
    BY <2>4, XorLane
  <2>9. /\ Bit(Times(p0, 2), n) <=>
             ((n > 0 /\ Bit(p0, n - 1)) <=> ~ (n \in {0, 1, 3, 4} /\ Bit(p0, 7)))
        /\ Bit(Times(p1, 2), n) <=>
             ((n > 0 /\ Bit(p1, n - 1)) <=> ~ (n \in {0, 1, 3, 4} /\ Bit(p1, 7)))
    BY FieldAssumption
  <2>10. Bit(Mixed(p0, p1, p2, p3), n) <=>
           ((((Bit(Times(p0, 2), n) <=> Bit(Times(p1, 2), n)) <=> Bit(p1, n))
               <=> Bit(p2, n)) <=> Bit(p3, n))
    BY MixedBits
  <2> HIDE DEF mix
  <2> QED BY <2>5, <2>6, <2>7, <2>8, <2>9, <2>10
<1> HIDE DEF mix
<1>3. \A i \in 1..16 : g[i] = [j \in 1..8 |-> g[i][j]]
  OBVIOUS
<1>4. \A k \in 0..15, n \in 0..7 : g[k + 1][n + 1] = mix(k, n)
  <2>1. \A k \in 0..15, n \in 0..7 : k + 1 \in 1..16 /\ n + 1 \in 1..8
                                      /\ (k + 1) - 1 = k /\ (n + 1) - 1 = n
    OBVIOUS
  <2> QED BY <2>1
<1> HIDE DEF g, x
<1>5. \A k \in 0..15, n \in 0..7 : Tabled(g)[k + 1][n + 1] = g[k + 1][n + 1]
  BY <1>3, WordsAt
<1>6. ASSUME NEW k \in 0..15, NEW n \in 0..7
      PROVE  InLane(bs_shiftmix(B), k, n) <=> Bit(FMixColumns(FShiftRows(x))[k + 1], n)
  <2>1. InLane(bs_shiftmix(B), k, n) <=> 0 \in Tabled(g)[k + 1][n + 1]
    BY <1>1 DEF InLane
  <2>2. Tabled(g)[k + 1][n + 1] = mix(k, n)
    BY <1>4, <1>5
  <2> QED BY <1>2, <2>1, <2>2
<1> QED BY <1>6 DEF x

------------------------------------------------------------------------------
\* One pass of each backend's loop is one round.

\* The bits of a sum of blocks.
LEMMA SumOfBlocks ==
  ASSUME NEW x \in Block, NEW y \in Block
  PROVE  /\ AddBlocks(x, y) \in Block
         /\ \A k \in 0..15, n \in 0..7 :
              Bit(AddBlocks(x, y)[k + 1], n) <=> (Bit(x[k + 1], n) <=> ~ Bit(y[k + 1], n))
<1>1. AddBlocks(x, y) \in Block /\ AddBlocks(x, y) = [i \in 1..16 |-> x[i] ++ y[i]]
  BY AddBlocksOf
<1>2. \A k \in 0..15 : k + 1 \in 1..16
  OBVIOUS
<1> QED BY <1>1, <1>2, SumBits DEF Block

\* A round gives a block.
LEMMA RoundOf ==
  ASSUME NEW x \in Block, NEW sched, NEW j, NEW last, RoundKey(sched, j) \in Block
  PROVE  FRound(x, sched, j, last) \in Block
<1>1. FShiftRows(FSubBytes(x)) \in Block
  BY SubBytesOf, ShiftRowsOf
<1>2. FMixColumns(FShiftRows(FSubBytes(x))) \in Block
  BY <1>1, MixColumnsOf
<1> QED BY <1>1, <1>2, SumOfBlocks DEF FRound

\* f1, f2, f4 and f5: the loop over bytes.
LEMMA ByteRounds ==
  ASSUME NEW x \in Block, NEW sched, NEW j, NEW last
  PROVE  /\ Cipher(x, sched, j, last) = FRound(x, sched, j, last)
         /\ AES_enc(x, sched, j, last) = FRound(x, sched, j, last)
<1> DEFINE y == FShiftRows(FSubBytes(x))
<1>1. y \in Block /\ ShiftRows(SubBytes(x)) = y /\ MovedRows(SubBytes(x)) = y
  BY SubBytesOf, ShiftRowsOf
<1>2. MixColumns(y) = FMixColumns(y) /\ Mcol(y) = FMixColumns(y)
  BY <1>1, MixColumnsSame, McolSame
<1>3. AES_enc(x, sched, j, last)
        = AddBlocks(IF j # last THEN Mcol(MovedRows(SubBytes(x))) ELSE MovedRows(SubBytes(x)),
                    RoundKey(sched, j))
  BY DEF AES_enc, MovedRows, SubBytes
<1>4. FRound(x, sched, j, last)
        = AddBlocks(IF j = last THEN y ELSE FMixColumns(y), RoundKey(sched, j))
  BY DEF FRound
<1>5. Cipher(x, sched, j, last)
        = AddBlocks(IF j = last THEN ShiftRows(SubBytes(x))
                    ELSE MixColumns(ShiftRows(SubBytes(x))), RoundKey(sched, j))
  BY DEF Cipher, AddRoundKey
<1> HIDE DEF y
<1> QED BY <1>1, <1>2, <1>3, <1>4, <1>5

\* f7 and f8 on x86-64: one instruction is one round.
LEMMA X86Rounds ==
  ASSUME NEW x \in Block, NEW sched
  PROVE  /\ \A j \in 1..10 : aes128_encrypt(x, sched, j) = FRound(x, sched, j, 10)
         /\ \A j \in 1..14 : aes256_encrypt(x, sched, j) = FRound(x, sched, j, 14)
BY DEF aes128_encrypt, aes256_encrypt, aesenc, aesenclast, FRound

\* f7 and f8 on ARM: the key of round j - 1 is added at the start of round j.
LEMMA ArmRounds ==
  ASSUME NEW x, NEW sched
  PROVE  /\ \A j \in 1..10 :
              FRound(AddBlocks(x, RoundKey(sched, j - 1)), sched, j, 10)
                = IF j < 10 THEN AddBlocks(aes128_arm(x, sched, j - 1), RoundKey(sched, j))
                            ELSE aes128_arm(x, sched, j - 1)
         /\ \A j \in 1..14 :
              FRound(AddBlocks(x, RoundKey(sched, j - 1)), sched, j, 14)
                = IF j < 14 THEN AddBlocks(aes256_arm(x, sched, j - 1), RoundKey(sched, j))
                            ELSE aes256_arm(x, sched, j - 1)
BY DEF aes128_arm, aes256_arm, vaeseq_u8, vaesmcq_u8, FRound

\* On ARM the block stays a block too.
LEMMA ArmBlock ==
  ASSUME NEW x \in Block, NEW sched, NEW j,
         RoundKey(sched, j) \in Block, RoundKey(sched, 10) \in Block
  PROVE  /\ aes128_arm(x, sched, j) \in Block
         /\ RoundKey(sched, 14) \in Block => aes256_arm(x, sched, j) \in Block
<1> DEFINE y == FShiftRows(FSubBytes(AddBlocks(x, RoundKey(sched, j))))
<1>1. y \in Block
  BY SumOfBlocks, SubBytesOf, ShiftRowsOf
<1>2. FMixColumns(y) \in Block
  BY <1>1, MixColumnsOf
<1>3. AddBlocks(y, RoundKey(sched, 10)) \in Block
  BY <1>1, SumOfBlocks
<1>4. RoundKey(sched, 14) \in Block => AddBlocks(y, RoundKey(sched, 14)) \in Block
  BY <1>1, SumOfBlocks
<1> QED BY <1>2, <1>3, <1>4 DEF aes128_arm, aes256_arm, vaeseq_u8, vaesmcq_u8

\* f3 and f6: adding the words of a round key adds the round key in lane 0.
LEMMA SlicedSum ==
  ASSUME NEW B, NEW sched, NEW j, RoundKey(sched, j) \in Block,
         NEW x \in Block, \A k \in 0..15, n \in 0..7 : InLane(B, k, n) <=> Bit(x[k + 1], n)
  PROVE  bs_transpose_rev(bs_addroundkey(B, bs_expand_key(sched, j)))
           = AddBlocks(x, RoundKey(sched, j))
<1> DEFINE K == bs_expand_key(sched, j)
           y == RoundKey(sched, j)
<1>1. AddBlocks(x, y) \in Block
  BY SumOfBlocks
<1>2. ASSUME NEW k \in 0..15, NEW n \in 0..7
      PROVE  InLane(bs_addroundkey(B, K), k, n) <=> Bit(AddBlocks(x, y)[k + 1], n)
  <2>1. InLane(bs_addroundkey(B, K), k, n) <=> (InLane(B, k, n) <=> ~ InLane(K, k, n))
    BY AddKeyLane
  <2>2. InLane(K, k, n) <=> Bit(y[k + 1], n)
    BY KeyLane
  <2>3. Bit(AddBlocks(x, y)[k + 1], n) <=> (Bit(x[k + 1], n) <=> ~ Bit(y[k + 1], n))
    BY SumOfBlocks
  <2>4. InLane(B, k, n) <=> Bit(x[k + 1], n)
    OBVIOUS
  <2> QED BY <2>1, <2>2, <2>3, <2>4
<1> HIDE DEF K, y
<1>3. bs_transpose_rev(bs_addroundkey(B, K)) = AddBlocks(x, y)
  BY <1>1, <1>2, LaneIs
<1> QED BY <1>3 DEF K, y

\* A pass of bs_cipher is a round in lane 0, whatever the other lanes hold.
LEMMA SlicedRounds ==
  ASSUME NEW B, NEW keys, NEW sched, NEW j \in Nat, NEW last \in Nat, j <= last,
         keys[j + 1] = bs_expand_key(sched, j), RoundKey(sched, j) \in Block
  PROVE  bs_transpose_rev(bs_cipher(B, keys, j, last)) = FRound(bs_transpose_rev(B), sched, j, last)
<1> DEFINE x == bs_transpose_rev(B)
           S == bs_apply_sbox(B)
           y == FShiftRows(FSubBytes(x))
<1>1. x \in Block /\ FSubBytes(x) \in Block /\ y \in Block /\ FMixColumns(y) \in Block
  BY LaneOf, SubBytesOf, ShiftRowsOf, MixColumnsOf
<1>2. bs_transpose_rev(S) = FSubBytes(x)
  BY <1>1, SboxLane, LaneIs
<1>3. \A k \in 0..15, n \in 0..7 : InLane(bs_shiftrows(S), k, n) <=> Bit(y[k + 1], n)
  BY <1>2, ShiftLane
<1>4. \A k \in 0..15, n \in 0..7 : InLane(bs_shiftmix(S), k, n) <=> Bit(FMixColumns(y)[k + 1], n)
  BY <1>2, ShiftMixLane
<1>5. FRound(x, sched, j, last)
        = AddBlocks(IF j = last THEN y ELSE FMixColumns(y), RoundKey(sched, j))
  BY DEF FRound
<1>6. bs_cipher(B, keys, j, last)
        = bs_addroundkey(IF j < last THEN bs_shiftmix(S) ELSE bs_shiftrows(S), bs_expand_key(sched, j))
  BY DEF bs_cipher
<1> HIDE DEF x, S, y
<1>7. CASE j = last
  <2>1. bs_transpose_rev(bs_addroundkey(bs_shiftrows(S), bs_expand_key(sched, j)))
          = AddBlocks(y, RoundKey(sched, j))
    BY <1>1, <1>3, SlicedSum
  <2> QED BY <1>5, <1>6, <1>7, <2>1 DEF x
<1>8. CASE j < last
  <2>1. bs_transpose_rev(bs_addroundkey(bs_shiftmix(S), bs_expand_key(sched, j)))
          = AddBlocks(FMixColumns(y), RoundKey(sched, j))
    BY <1>1, <1>4, SlicedSum
  <2> QED BY <1>5, <1>6, <1>8, <2>1 DEF x
<1> QED BY <1>7, <1>8

------------------------------------------------------------------------------
\* A call.

X86 == {"f7_x86", "f8_x86"}

\* The words of the round keys that are sliced so far.
SlicedKeys ==
  /\ \/ rk = <<>>
     \/ Len(w) = 4 * (Nr + 1) /\ rk \in Seq({bs_expand_key(w, j) : j \in 0..Nr})
  /\ Len(rk) <= Nr + 1
  /\ \A j \in 1..Len(rk) : rk[j] = bs_expand_key(w, j - 1)
  /\ r > 0 => Len(rk) = Nr + 1

\* The invariant of a call: w is the beginning of the schedule of the key, all
\* of it once the rounds begin, and the sliced round keys are those of w.
CallInv ==
  /\ b \in Level1 \cup Level2
  /\ w \in Seq(Word) /\ Nk(b) <= Len(w) /\ Len(w) <= 4 * (Nr + 1) /\ Scheduled(w, Nk(b))
  /\ b \in X86 => Len(w) % 4 = 0
  /\ r \in 0..(Nr + 1) /\ (r > 0 => Len(w) = 4 * (Nr + 1))
  /\ b \in Sliced => SlicedKeys
  /\ (b \in Sliced /\ r \in 1..Nr) \/ s \in Block

\* The level of a backend is the length of its key.
LEMMA Sizes ==
  \A x : /\ Nk(x) \in {4, 8} /\ (x \in Level1 => Nk(x) = 4)
         /\ x \in Level2 => Nk(x) = 8 /\ x \notin Level1
BY DEF Nk, Level1, Level2

\* The rounds of a call.
LEMMA RoundsOfCall ==
  /\ Nr \in {10, 14} /\ Nr = Nk(b) + 6 /\ 4 * (Nr + 1) = 4 * (Nk(b) + 7)
  /\ Nr' = Nk(b') + 6
BY Sizes DEF Nr

\* A call of backend x with a key of its level: the key is a schedule.
LEMMA KeyOfCall ==
  ASSUME NEW x \in Level1 \cup Level2, NEW i \in Inputs, Len(i.key) = Nk(x),
         NEW n \in {4, 8}, n = Nk(x), NEW rounds, rounds = n + 6
  PROVE  /\ i.key \in Seq(Word) /\ i.in \in Block /\ Scheduled(i.key, n)
         /\ n <= Len(i.key) /\ Len(i.key) <= 4 * (rounds + 1) /\ Len(i.key) % 4 = 0
         /\ 0 \in 0..(rounds + 1)
<1>1. i.key \in Seq(Word) /\ i.in \in Block
  BY InputsAssumption
<1>2. Len(i.key) = n
  OBVIOUS
<1>3. n % 4 = 0 /\ n <= 4 * (rounds + 1) /\ 0 \in 0..(rounds + 1) /\ n <= n
  OBVIOUS
<1>4. Scheduled(i.key, n)
  BY <1>1, <1>2 DEF Scheduled
<1> QED BY <1>1, <1>2, <1>3, <1>4

\* The first call.
LEMMA InitCall == Init => CallInv /\ Aes!Init
<1> SUFFICES ASSUME Init PROVE CallInv /\ Aes!Init
  OBVIOUS
<1>1. PICK c \in Calls : b = c[1] /\ v = c[2] /\ w = v.key /\ rk = <<>> /\ s = v.in /\ r = 0
  BY DEF Init
<1>2. b \in Level1 \cup Level2 /\ v \in Inputs /\ Len(v.key) = Nk(b)
  BY <1>1 DEF Calls
<1>3. SlicedKeys
  BY <1>1, RoundsOfCall DEF SlicedKeys
<1>4. /\ w \in Seq(Word) /\ Nk(b) <= Len(w) /\ Len(w) <= 4 * (Nr + 1) /\ Scheduled(w, Nk(b))
      /\ Len(w) % 4 = 0 /\ s \in Block /\ r \in 0..(Nr + 1) /\ ~ (r > 0)
  <2>1. Nk(b) \in {4, 8} /\ Nr = Nk(b) + 6
    BY RoundsOfCall, Sizes
  <2>2. /\ v.key \in Seq(Word) /\ v.in \in Block /\ Scheduled(v.key, Nk(b))
        /\ Nk(b) <= Len(v.key) /\ Len(v.key) <= 4 * (Nr + 1) /\ Len(v.key) % 4 = 0
        /\ 0 \in 0..(Nr + 1)
    BY <1>2, <2>1, KeyOfCall
  <2>3. w \in Seq(Word) /\ s \in Block /\ Scheduled(w, Nk(b))
    BY <1>1, <2>2
  <2>4. Nk(b) <= Len(w) /\ Len(w) <= 4 * (Nr + 1) /\ Len(w) % 4 = 0
    BY <1>1, <2>2
  <2>5. r \in 0..(Nr + 1)
    BY <1>1, <2>2
  <2>6. ~ (r > 0)
    BY <1>1
  <2> QED BY <2>3, <2>4, <2>5, <2>6
<1>5. CallInv
  BY <1>2, <1>3, <1>4 DEF CallInv
<1>6. StateOfAes = v.in
  BY <1>1 DEF StateOfAes
<1> QED BY <1>1, <1>2, <1>5, <1>6 DEF Aes!Init, Aes!Call

\* Every later call.
LEMMA BeginCall ==
  ASSUME NEW x \in Level1 \cup Level2, NEW i \in Inputs, Len(i.key) = Nk(x),
         b' = x, w' = i.key, rk' = <<>>, s' = i.in, r' = 0
  PROVE  CallInv' /\ Aes!Call'
<1>1. Nk(b') = Nk(x) /\ Nr' = Nk(x) + 6 /\ Nk(x) \in {4, 8}
  BY Sizes DEF Nr
<1>2. SlicedKeys'
  BY <1>1 DEF SlicedKeys
<1>3. /\ w' \in Seq(Word) /\ Scheduled(w', Nk(b')) /\ Len(w') % 4 = 0 /\ s' \in Block
      /\ Nk(b') <= Len(w') /\ Len(w') <= 4 * (Nr' + 1) /\ r' \in 0..(Nr' + 1) /\ ~ (r' > 0)
  <2>1. /\ i.key \in Seq(Word) /\ i.in \in Block /\ Scheduled(i.key, Nk(x))
        /\ Nk(x) <= Len(i.key) /\ Len(i.key) <= 4 * (Nr' + 1) /\ Len(i.key) % 4 = 0
        /\ 0 \in 0..(Nr' + 1)
    BY <1>1, KeyOfCall
  <2>2. w' \in Seq(Word) /\ Scheduled(w', Nk(b')) /\ s' \in Block
    BY <1>1, <2>1
  <2>3. Nk(b') <= Len(w') /\ Len(w') <= 4 * (Nr' + 1) /\ Len(w') % 4 = 0
    BY <1>1, <2>1
  <2>4. r' \in 0..(Nr' + 1)
    BY <2>1
  <2>5. ~ (r' > 0)
    OBVIOUS
  <2> QED BY <2>2, <2>3, <2>4, <2>5
<1>4. CallInv'
  BY <1>2, <1>3 DEF CallInv
<1>5. StateOfAes' = i.in
  BY <1>1 DEF StateOfAes
<1> QED BY <1>1, <1>4, <1>5 DEF Aes!Call

\* Calling again, when a call has returned.
LEMMA CallAgain ==
  ASSUME CallInv, r = Nr + 1, Aes!Call'
  PROVE  Aes!Next
BY DEF Aes!Next, Aes!Again, Aes!Nr, Nr

\* One pass of the key expansion is a step of the standard.
LEMMA ExpandStep ==
  ASSUME CallInv, Expand
  PROVE  CallInv' /\ Aes!Next
<1>1. /\ b \in Level1 \cup Level2 /\ r = 0 /\ s \in Block
      /\ w \in Seq(Word) /\ Len(w) < 4 * (Nr + 1)
  BY DEF CallInv, Expand
<1>2. Open(w, Nk(b))
  BY <1>1, RoundsOfCall, Sizes DEF CallInv, Open
<1>3. b' = b /\ r' = 0 /\ s' = s /\ rk' = rk /\ w' = Expanded(b, w) /\ Nk(b)' = Nk(b) /\ Nr' = Nr
  BY <1>1 DEF Expand, Nr
<1>4. Pass(w, w', Nk(b)) /\ (b \in X86 => Len(w') % 4 = 0)
  <2>1. CASE b \in Level1 \ X86
    <3>1. Open(w, 4) /\ Nk(b) = 4
      BY <1>2, <2>1, Sizes
    <3> QED BY <1>3, <2>1, <3>1, Expands128 DEF Expanded, Level1, X86
  <2>2. CASE b \in Level2 \ X86
    <3>1. Open(w, 8) /\ Nk(b) = 8
      BY <1>2, <2>2, Sizes
    <3> QED BY <1>3, <2>2, <3>1, Expands256 DEF Expanded, Level2, X86
  <2>3. CASE b \in X86
    <3>1. Len(w) % 4 = 0
      BY <2>3 DEF CallInv
    <3>2. /\ Nk(b) = 4 => Pass(w, aes128_load_keys(w), 4) /\ Len(aes128_load_keys(w)) % 4 = 0
          /\ Nk(b) = 8 => Pass(w, aes256_load_keys(w), 8) /\ Len(aes256_load_keys(w)) % 4 = 0
      BY <1>2, <3>1, ExpandsX86
    <3>3. b = "f7_x86" => Nk(b) = 4 /\ w' = aes128_load_keys(w)
      BY <1>3 DEF Nk, Level1, Expanded
    <3>4. b = "f8_x86" => Nk(b) = 8 /\ w' = aes256_load_keys(w)
      BY <1>3 DEF Nk, Level1, Expanded
    <3> QED BY <2>3, <3>2, <3>3, <3>4 DEF X86
  <2> QED BY <1>1, <2>1, <2>2, <2>3
<1>5. /\ w' \in Seq(Word) /\ Len(w) < Len(w') /\ Len(w') <= 4 * (Nr + 1)
      /\ Scheduled(w', Nk(b)) /\ \A i \in 1..Len(w) : w'[i] = w[i]
  BY <1>4, RoundsOfCall DEF Pass, Longer
<1>6. b \in Sliced => SlicedKeys'
  <2> SUFFICES ASSUME b \in Sliced PROVE SlicedKeys'
    OBVIOUS
  <2>1. rk = <<>>
    BY <1>1 DEF CallInv, SlicedKeys
  <2> QED BY <1>3, <2>1, RoundsOfCall DEF SlicedKeys
<1>7. CallInv'
  <2>1. Nk(b) <= Len(w) /\ Len(w) \in Nat /\ Len(w') \in Nat /\ Nk(b) \in {4, 8} /\ Nr \in {10, 14}
    BY <1>1, <1>5, Sizes, RoundsOfCall DEF CallInv
  <2> QED BY <1>1, <1>3, <1>4, <1>5, <1>6, <2>1 DEF CallInv
<1>8. SubSeq(w, 1, Len(w)) = SubSeq(w', 1, Len(w))
  BY <1>1, <1>5
<1>9. StateOfAes' = StateOfAes
  BY <1>1, <1>3 DEF StateOfAes
<1>10. Aes!Extend
  BY <1>1, <1>3, <1>5, <1>8, <1>9, SameScheduled DEF Aes!Extend, Aes!IsPrefix, Aes!Nr, Nr
<1> QED BY <1>7, <1>10 DEF Aes!Next

\* Slicing a round key leaves the call where it is for the standard.
LEMMA SliceStep ==
  ASSUME CallInv, Slice
  PROVE  CallInv' /\ UNCHANGED Aes!vars
<1>1. /\ b \in Sliced /\ r = 0 /\ Len(w) = 4 * (Nr + 1) /\ Len(rk) <= Nr
      /\ rk' = Append(rk, bs_expand_key(w, Len(rk)))
      /\ b' = b /\ w' = w /\ s' = s /\ r' = r /\ Nr' = Nr
  BY DEF Slice, Nr
<1>2. SlicedKeys'
  <2> DEFINE S == {bs_expand_key(w, j) : j \in 0..Nr}
             n == Len(rk)
             e == bs_expand_key(w, n)
  <2>1. /\ rk \in Seq(S) /\ n \in Nat /\ n <= Nr /\ Nr \in Nat
        /\ \A j \in 1..n : rk[j] = bs_expand_key(w, j - 1)
    <3>1. SlicedKeys /\ Nr \in Nat
      BY <1>1, RoundsOfCall DEF CallInv
    <3>2. rk = <<>> \/ rk \in Seq(S)
      BY <3>1 DEF SlicedKeys
    <3> HIDE DEF S
    <3>3. rk \in Seq(S)
      <4>1. CASE rk = <<>>
        <5>1. <<>> \in Seq(S)
          OBVIOUS
        <5> QED BY <4>1, <5>1, Zenon
      <4> QED BY <3>2, <4>1, Zenon
    <3> QED BY <1>1, <3>1, <3>3 DEF SlicedKeys
  <2>2. e \in S
    BY <2>1
  <2> HIDE DEF S, n, e
  <2>3. Append(rk, e) \in Seq(S) /\ Len(Append(rk, e)) = n + 1 /\ Append(rk, e)[n + 1] = e
        /\ \A j \in 1..n : Append(rk, e)[j] = rk[j]
    BY <2>1, <2>2 DEF n
  <2>4. rk' = Append(rk, e) /\ e = bs_expand_key(w, n)
    BY <1>1 DEF e, n
  <2>5. ASSUME NEW j \in 1..(n + 1) PROVE rk'[j] = bs_expand_key(w, j - 1)
    <3>1. CASE j = n + 1
      BY <2>1, <2>3, <2>4, <3>1
    <3>2. CASE j # n + 1
      BY <2>1, <2>3, <2>4, <3>2
    <3> QED BY <3>1, <3>2
  <2>6. S' = S
    BY <1>1 DEF S
  <2>7. rk' \in Seq(S)' /\ Len(rk') = n + 1
    BY <2>3, <2>4, <2>6
  <2> QED BY <1>1, <2>1, <2>5, <2>7 DEF SlicedKeys, S
<1>3. CallInv'
  BY <1>1, <1>2 DEF CallInv
<1>4. StateOfAes' = StateOfAes
  BY <1>1 DEF StateOfAes
<1> QED BY <1>1, <1>3, <1>4 DEF Aes!vars

\* Every round has its key.
LEMMA KeysOfRounds ==
  ASSUME CallInv, r > 0 \/ Len(w) = 4 * (Nr + 1)
  PROVE  \A j \in 0..Nr : RoundKey(w, j) \in Block
<1>1. w \in Seq(Word) /\ Len(w) = 4 * (Nr + 1) /\ Nr \in Nat
  BY RoundsOfCall DEF CallInv
<1>2. \A j \in 0..Nr : j \in Nat /\ 4 * (j + 1) <= Len(w)
  BY <1>1
<1> QED BY <1>1, <1>2, RoundKeyOf

\* So is the addition of the first round key.
LEMMA StartStep ==
  ASSUME CallInv, Start
  PROVE  CallInv' /\ Aes!Next
<1>1. /\ r = 0 /\ r' = 1 /\ Len(w) = 4 * (Nr + 1) /\ (b \in Sliced => Len(rk) = Nr + 1)
      /\ b' = b /\ w' = w /\ rk' = rk /\ Nr' = Nr /\ s \in Block
  BY DEF CallInv, Start, Nr
<1>2. RoundKey(w, 0) \in Block /\ Nr \in {10, 14}
  BY <1>1, RoundsOfCall, KeysOfRounds
<1>3. AddBlocks(s, RoundKey(w, 0)) \in Block
  BY <1>1, <1>2, SumOfBlocks
<1>4. s' \in Block \/ b \in Sliced
  BY <1>1, <1>3 DEF Start
<1>5. StateOfAes' = AddBlocks(s, RoundKey(w, 0))
  <2>1. CASE b \in Sliced
    <3>1. rk[1] = bs_expand_key(w, 0) /\ s' = bs_addroundkey(Input(s), rk[1])
      <4>1. 1 \in 1..Len(rk) /\ 1 - 1 = 0
        BY <1>1, <1>2, <2>1
      <4>2. rk[1] = bs_expand_key(w, 1 - 1)
        BY <2>1, <4>1 DEF CallInv, SlicedKeys
      <4>3. s' = bs_addroundkey(Input(s), rk[1])
        BY <2>1 DEF Start, Sliced, Arm
      <4> QED BY <4>1, <4>2, <4>3
    <3>2. bs_transpose_rev(s') = AddBlocks(s, RoundKey(w, 0))
      BY <1>1, <1>2, <3>1, InputLane, SlicedSum
    <3>3. r' \in 1..Nr'
      BY <1>1, <1>2
    <3>4. b \notin Arm
      BY <2>1 DEF Sliced, Arm
    <3> QED BY <1>1, <2>1, <3>2, <3>3, <3>4 DEF StateOfAes
  <2>2. CASE b \in Arm
    <3>1. b \notin Sliced /\ s' = s
      BY <2>2 DEF Start, Arm, Sliced
    <3> QED BY <1>1, <1>2, <2>2, <3>1 DEF StateOfAes
  <2>3. CASE b \notin Sliced /\ b \notin Arm
    <3>1. s' = AddBlocks(s, RoundKey(w, 0))
      BY <2>3 DEF Start
    <3> QED BY <1>1, <2>3, <3>1 DEF StateOfAes
  <2> QED BY <2>1, <2>2, <2>3
<1>6. StateOfAes = s
  BY <1>1 DEF StateOfAes
<1>7. CallInv'
  <2>1. b \in Sliced => SlicedKeys'
    BY <1>1 DEF CallInv, SlicedKeys
  <2> QED BY <1>1, <1>2, <1>4, <2>1 DEF CallInv
<1>8. Aes!AddFirst
  BY <1>1, <1>5, <1>6, SameSums DEF Aes!AddFirst, Aes!Nr, Nr
<1> QED BY <1>7, <1>8 DEF Aes!Next

\* The block after a round is that of the standard.
LEMMA RoundStep ==
  ASSUME CallInv, Round
  PROVE  CallInv' /\ Aes!Next
<1>1. /\ r \in 1..Nr /\ r' = r + 1 /\ s' = Ciphered
      /\ b' = b /\ w' = w /\ rk' = rk /\ Nr' = Nr /\ b \in Level1 \cup Level2
  BY DEF CallInv, Round, Nr
<1>2. Nr \in {10, 14} /\ r \in Nat /\ r' \in 0..(Nr + 1) /\ r' > 0
  BY <1>1, RoundsOfCall
<1>3. RoundKey(w, r) \in Block /\ RoundKey(w, r - 1) \in Block /\ RoundKey(w, Nr) \in Block
  <2>1. r \in 0..Nr /\ r - 1 \in 0..Nr /\ Nr \in 0..Nr /\ r > 0
    BY <1>1, <1>2
  <2> QED BY <2>1, KeysOfRounds
<1>4. /\ b \in Sliced => StateOfAes = bs_transpose_rev(s)
      /\ b \in Arm => StateOfAes = AddBlocks(s, RoundKey(w, r - 1)) /\ b \notin Sliced
      /\ b \notin Sliced /\ b \notin Arm => StateOfAes = s
      /\ b \notin Sliced => s \in Block
  BY <1>1 DEF StateOfAes, CallInv, Sliced, Arm
<1>5. StateOfAes \in Block
  BY <1>3, <1>4, LaneOf, SumOfBlocks
<1> DEFINE F == FRound(StateOfAes, w, r, Nr)
<1>6. F \in Block
  BY <1>3, <1>5, RoundOf
<1>7. StateOfAes' = F /\ (s' \in Block \/ (b \in Sliced /\ r < Nr))
  <2>1. CASE b \in Sliced
    <3> DEFINE B == bs_cipher(s, rk, r, Nr)
    <3>1. rk[r + 1] = bs_expand_key(w, r)
      <4>1. r + 1 \in 1..Len(rk) /\ (r + 1) - 1 = r
        BY <1>1, <1>2, <2>1 DEF CallInv, SlicedKeys
      <4> QED BY <2>1, <4>1 DEF CallInv, SlicedKeys
    <3>2. r <= Nr /\ Nr \in Nat
      BY <1>1, <1>2
    <3>3. bs_transpose_rev(B) = F
      BY <1>2, <1>3, <1>4, <2>1, <3>1, <3>2, SlicedRounds
    <3>4. s' = IF r = Nr THEN bs_transpose_rev(B) ELSE B
      BY <1>1, <2>1 DEF Ciphered, Sliced
    <3> HIDE DEF B, F
    <3>5. CASE r = Nr
      <4>1. ~ (r' \in 1..Nr)
        BY <1>1, <1>2, <3>5
      <4> QED BY <1>1, <1>6, <3>3, <3>4, <3>5, <4>1 DEF StateOfAes
    <3>6. CASE r # Nr
      <4>1. r' \in 1..Nr /\ r < Nr
        BY <1>1, <1>2, <3>6
      <4>2. b \notin Arm
        BY <2>1 DEF Sliced, Arm
      <4> QED BY <1>1, <2>1, <3>3, <3>4, <3>6, <4>1, <4>2 DEF StateOfAes
    <3> QED BY <3>5, <3>6
  <2>2. CASE b \in Arm
    <3> DEFINE A == IF b = "f7_arm" THEN aes128_arm(s, w, r - 1) ELSE aes256_arm(s, w, r - 1)
    <3>1. b = "f7_arm" => Nr = 10
      BY DEF Nr, Nk, Level1
    <3>2. b = "f8_arm" => Nr = 14
      BY DEF Nr, Nk, Level1
    <3>3. s' = A /\ b \notin Sliced
      BY <1>1, <2>2 DEF Ciphered, Arm, Sliced
    <3>4. F = IF r < Nr THEN AddBlocks(A, RoundKey(w, r)) ELSE A
      BY <1>1, <1>4, <2>2, <3>1, <3>2, ArmRounds DEF Arm
    <3>5. A \in Block
      <4>1. Nr = 14 => RoundKey(w, 10) \in Block
        <5>1. Nr = 14 => 10 \in 0..Nr /\ r > 0
          BY <1>1, <1>2
        <5> QED BY <5>1, KeysOfRounds
      <4> QED BY <1>2, <1>3, <1>4, <2>2, <3>1, <3>2, <4>1, ArmBlock DEF Arm
    <3> HIDE DEF A, F
    <3>6. CASE r < Nr
      <4>1. r' \in 1..Nr /\ r' - 1 = r
        BY <1>1, <1>2, <3>6
      <4>2. StateOfAes' = AddBlocks(s', RoundKey(w', r' - 1))
        BY <1>1, <2>2, <3>3, <4>1 DEF StateOfAes
      <4> QED BY <1>1, <3>3, <3>4, <3>5, <3>6, <4>1, <4>2
    <3>7. CASE ~ (r < Nr)
      <4>1. ~ (r' \in 1..Nr)
        BY <1>1, <1>2, <3>7
      <4> QED BY <1>1, <3>3, <3>4, <3>5, <3>7, <4>1 DEF StateOfAes
    <3> QED BY <3>6, <3>7
  <2>3. CASE b \notin Sliced /\ b \notin Arm
    <3>1. b \in X86 \/ b \in {"f1", "f4"} \/ b \in {"f2", "f5"}
      BY <1>1, <2>3 DEF Level1, Level2, Sliced, Arm, X86
    <3>2. b = "f7_x86" => Nr = 10
      BY DEF Nr, Nk, Level1
    <3>3. b = "f8_x86" => Nr = 14
      BY DEF Nr, Nk, Level1
    <3>4. b \in X86 => s' = F
      BY <1>1, <1>4, <2>3, <3>2, <3>3, X86Rounds DEF Ciphered, X86
    <3>5. b \in {"f1", "f4"} \/ b \in {"f2", "f5"} => s' = F
      BY <1>1, <1>4, <2>3, ByteRounds DEF Ciphered
    <3>6. s' = F
      BY <3>1, <3>4, <3>5
    <3> HIDE DEF F
    <3> QED BY <1>1, <1>6, <2>3, <3>6 DEF StateOfAes
  <2> QED BY <2>1, <2>2, <2>3
<1>8. CallInv'
  <2>1. b \in Sliced => SlicedKeys'
    BY <1>1, <1>2 DEF CallInv, SlicedKeys
  <2>2. s' \in Block \/ (b \in Sliced /\ r' \in 1..Nr)
    BY <1>1, <1>2, <1>7
  <2>3. Len(w) = 4 * (Nr + 1)
    BY <1>1, <1>2 DEF CallInv
  <2> QED BY <1>1, <1>2, <2>1, <2>2, <2>3 DEF CallInv
<1>9. Aes!Round
  BY <1>1, <1>7, SameRound DEF Aes!Round, Aes!Nr, Nr
<1> QED BY <1>8, <1>9 DEF Aes!Next
==============================================================================
