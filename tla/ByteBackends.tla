---------------------------- MODULE ByteBackends ----------------------------
(***************************************************************************)
(* The backends that compute AES on bytes: f1 and f4 (tiny-AES), f2 and f5 *)
(* (a.c), f7 and f8 on the AES instructions of the host.  f4, f5 and f8    *)
(* are the AES-256 editions of f1, f2 and f7: the functions they share     *)
(* differ in their names only and are written once; the ones that differ   *)
(* are written twice.  Each operator is one iteration of a loop of the     *)
(* code, or one function it calls.                                         *)
(***************************************************************************)
EXTENDS AesField

\* The table is repeated in every backend, with the same 256 values.
sbox ==
  << 99, 124, 119, 123, 242, 107, 111, 197,  48,   1, 103,  43, 254, 215, 171, 118,
   202, 130, 201, 125, 250,  89,  71, 240, 173, 212, 162, 175, 156, 164, 114, 192,
   183, 253, 147,  38,  54,  63, 247, 204,  52, 165, 229, 241, 113, 216,  49,  21,
     4, 199,  35, 195,  24, 150,   5, 154,   7,  18, 128, 226, 235,  39, 178, 117,
     9, 131,  44,  26,  27, 110,  90, 160,  82,  59, 214, 179,  41, 227,  47, 132,
    83, 209,   0, 237,  32, 252, 177,  91, 106, 203, 190,  57,  74,  76,  88, 207,
   208, 239, 170, 251,  67,  77,  51, 133,  69, 249,   2, 127,  80,  60, 159, 168,
    81, 163,  64, 143, 146, 157,  56, 245, 188, 182, 218,  33,  16, 255, 243, 210,
   205,  12,  19, 236,  95, 151,  68,  23, 196, 167, 126,  61, 100,  93,  25, 115,
    96, 129,  79, 220,  34,  42, 144, 136,  70, 238, 184,  20, 222,  94,  11, 219,
   224,  50,  58,  10,  73,   6,  36,  92, 194, 211, 172,  98, 145, 149, 228, 121,
   231, 200,  55, 109, 141, 213,  78, 169, 108,  86, 244, 234, 101, 122, 174,   8,
   186, 120,  37,  46,  28, 166, 180, 198, 232, 221, 116,  31,  75, 189, 139, 138,
   112,  62, 181, 102,  72,   3, 246,  14,  97,  53,  87, 185, 134, 193,  29, 158,
   225, 248, 152,  17, 105, 217, 142, 148, 155,  30, 135, 233, 206,  85,  40, 223,
   140, 161, 137,  13, 191, 230,  66, 104,  65, 153,  45,  15, 176,  84, 187,  22>>

getSBoxValue(x) == sbox[x + 1]

Rcon == <<141, 1, 2, 4, 8, 16, 32, 64, 128, 27, 54>>

RotWord(t) == <<t[2], t[3], t[4], t[1]>>
SubWord(t) == Four(LAMBDA i : getSBoxValue(t[i + 1]))
AddFirstByte(t, c) == <<t[1] ++ c, t[2], t[3], t[4]>>

\* RoundKey with word i = Len(w) appended: word i - n plus t.
AppendWord(w, n, t) == Append(w, AddWords(w[Len(w) - n + 1], t))

------------------------------------------------------------------------------
\* f1 and f4.

\* Mutation of KeyExpansion: the round constant of the round before.
KeyExpansion_LateRcon(w) ==
  LET i == Len(w)
      tempa == w[i]
  IN  AppendWord(w, 4, IF i % 4 = 0
                       THEN AddFirstByte(SubWord(RotWord(tempa)), Rcon[i \div 4])
                       ELSE tempa)

KeyExpansion(w) ==
  LET i == Len(w)
      tempa == w[i]
  IN  AppendWord(w, 4, IF i % 4 = 0
                       THEN AddFirstByte(SubWord(RotWord(tempa)), Rcon[(i \div 4) + 1])
                       ELSE tempa)

KeyExpansion256(w) ==
  LET i == Len(w)
      tempa == w[i]
  IN  AppendWord(w, 8,
        CASE i % 8 = 0 -> AddFirstByte(SubWord(RotWord(tempa)), Rcon[(i \div 8) + 1])
          [] i % 8 = 4 -> SubWord(tempa)
          [] OTHER -> tempa)

AddRoundKey(round, s, w) == AddBlocks(s, RoundKey(w, round))

SubBytes(s) == Sixteen(LAMBDA k : getSBoxValue(s[k + 1]))

\* (*state)[i][j] is byte 4 i + j.
ShiftRows(s) ==
  LET state(i, j) == s[4 * i + j + 1]
  IN  <<s[1], state(1, 1), state(2, 2), state(3, 3),
        s[5], state(2, 1), state(3, 2), state(0, 3),
        s[9], state(3, 1), state(0, 2), state(1, 3),
        s[13], state(0, 1), state(1, 2), state(2, 3)>>

\* x << 1 is stored in a uint8_t.
xtime(x) == ((2 * x) % 256) ++ (((x \div 128) % 2) * 27)

\* Each column in place; t keeps byte 0 for the update of byte 3.
MixColumns(s) ==
  Sixteen(LAMBDA k :
    LET i == 4 * (k \div 4)
        Tmp == s[i + 1] ++ s[i + 2] ++ s[i + 3] ++ s[i + 4]
        Tm == xtime(s[k + 1] ++ s[i + ((k + 1) % 4) + 1])
    IN  s[k + 1] ++ (Tm ++ Tmp))

\* One iteration of the loop; the last one breaks before MixColumns, and the
\* last round key is added after the loop.
Cipher(s, w, round, Nr) ==
  LET shifted == ShiftRows(SubBytes(s))
  IN  IF round = Nr THEN AddRoundKey(Nr, shifted, w)
      ELSE AddRoundKey(round, MixColumns(shifted), w)

------------------------------------------------------------------------------
\* f2 and f5.

\* The top bit is tested before c <<= 1 loses it.
gmul2(c) == IF c \div 128 = 1 THEN ((2 * c) % 256) ++ 27 ELSE 2 * c

rcon_f2[in \in Nat] ==
  CASE in = 0 -> 0
    [] in = 1 -> 1
    [] OTHER -> gmul2(rcon_f2[in - 1])

\* What proofs use of tables and loops over the bits of a byte, evaluated by TLC
\* for every byte: they are the functions of the standard.
ASSUME TablesAssumption ==
  /\ \A x \in Byte : /\ getSBoxValue(x) = Sub(x)
                      /\ xtime(x) = Times(x, 2) /\ gmul2(x) = Times(x, 2)
  /\ \A i \in 1..10 : rcon_f2[i] = FRcon[i]

schedule_core_f2(t, i) == AddFirstByte(SubWord(RotWord(t)), rcon_f2[i])

\* c counts bytes in an unsigned char; i, which starts at 1 and grows with
\* every call of schedule_core, is c divided by the length of the key.
expand_keyf2(w) ==
  LET c == (4 * Len(w)) % 256
      t == w[Len(w)]
  IN  AppendWord(w, 4, IF c % 16 = 0 THEN schedule_core_f2(t, c \div 16) ELSE t)

expand_keyf5(w) ==
  LET c == (4 * Len(w)) % 256
      t == w[Len(w)]
  IN  AppendWord(w, 8,
        CASE c % 32 = 0 -> schedule_core_f2(t, c \div 32)
          [] c % 32 = 16 -> SubWord(t)
          [] OTHER -> t)

Mcol(CT) ==
  LET column(i) ==
        LET y1 == gmul2(CT[i + 1]) ++ CT[i + 3]
            y2 == gmul2(CT[i + 2]) ++ CT[i + 4]
            y3 == gmul2(CT[i + 3]) ++ CT[i + 1]
            y4 == gmul2(CT[i + 4]) ++ CT[i + 2]
        IN  <<y1 ++ y2 ++ CT[i + 2], y2 ++ y3 ++ CT[i + 3],
              y3 ++ y4 ++ CT[i + 4], y4 ++ y1 ++ CT[i + 1]>>
  IN  Sixteen(LAMBDA k : column(4 * (k \div 4))[(k % 4) + 1])

\* The byte of CT that ends at each offset.
Moved == <<0, 5, 10, 15, 4, 9, 14, 3, 8, 13, 2, 7, 12, 1, 6, 11>>

AES_enc(CT, RKey, round, last) ==
  LET sub == Sixteen(LAMBDA i : getSBoxValue(CT[i + 1]))
      row == Sixteen(LAMBDA i : sub[Moved[i + 1] + 1])
      mix == IF round # last THEN Mcol(row) ELSE row
  IN  AddBlocks(mix, RoundKey(RKey, round))

------------------------------------------------------------------------------
\* The AES instructions of x86-64 and of ARMv8 that f7 and f8 use.

aeskeygenassist(x, c) ==
  LET sub(i) == Four(LAMBDA j : Sub(x[i][j + 1]))
      rot(t) == <<t[2] ++ c, t[3], t[4], t[1]>>
  IN  <<sub(2), rot(sub(2)), sub(4), rot(sub(4))>>

aesenc(s, k) == AddBlocks(FMixColumns(FShiftRows(FSubBytes(s))), k)
aesenclast(s, k) == AddBlocks(FShiftRows(FSubBytes(s)), k)
vaeseq_u8(s, k) == FShiftRows(FSubBytes(AddBlocks(s, k)))
vaesmcq_u8(s) == FMixColumns(s)

\* x ^ (x << 32): _mm_slli_si128 by 4 bytes, added to its argument.
AddShifted(x) ==
  <<x[1], AddWords(x[2], x[1]), AddWords(x[3], x[2]), AddWords(x[4], x[3])>>

\* f7 and f8 on x86-64: a register is a sequence of four words.
AddToAll(x, t) == Four(LAMBDA i : AddWords(x[i + 1], t))
LastFour(w, n) == SubSeq(w, Len(w) - n + 1, Len(w) - n + 4)

aes_128_key_expand(key, keygened) ==
  AddToAll(AddShifted(AddShifted(AddShifted(key))), keygened[4])

aes128_load_keys(w) ==
  LET key == LastFour(w, 4)
      c == <<1, 2, 4, 8, 16, 32, 64, 128, 27, 54>>[Len(w) \div 4]
  IN  w \o aes_128_key_expand(key, aeskeygenassist(key, c))

\* The two forms differ in the word of the assist they add.
KEY_EXP_ASSIST(r1, t) == AddToAll(AddShifted(AddShifted(AddShifted(r1))), t)

\* Round key j = Len(w) / 4: r1 and r2 in turn, each made from its own last
\* value and from the other.
aes256_load_keys(w) ==
  LET j == Len(w) \div 4
      old == LastFour(w, 8)
      other == LastFour(w, 4)
      c == <<1, 2, 4, 8, 16, 32, 64>>[j \div 2]
  IN  w \o (IF j % 2 = 0 THEN KEY_EXP_ASSIST(old, aeskeygenassist(other, c)[4])
                         ELSE KEY_EXP_ASSIST(old, aeskeygenassist(other, 0)[3]))

aes128_encrypt(block, round_keys, round) ==
  IF round < 10 THEN aesenc(block, RoundKey(round_keys, round))
                ELSE aesenclast(block, RoundKey(round_keys, round))

aes256_encrypt(block, round_keys, round) ==
  IF round < 14 THEN aesenc(block, RoundKey(round_keys, round))
                ELSE aesenclast(block, RoundKey(round_keys, round))

\* f7 and f8 on ARMv8: the key schedule is computed on bytes.
f7_rcon == <<0, 1, 2, 4, 8, 16, 32, 64, 128, 27, 54>>
f8_rcon == <<0, 1, 2, 4, 8, 16, 32, 64>>

key_expansion(w) ==
  LET bytes == 4 * Len(w)
      t == w[Len(w)]
  IN  AppendWord(w, 4, IF bytes % 16 = 0
                       THEN AddFirstByte(SubWord(RotWord(t)), f7_rcon[(bytes \div 16) + 1])
                       ELSE t)

key_expansion_256(w) ==
  LET word == Len(w)
      t == w[Len(w)]
  IN  AppendWord(w, 8,
        CASE word % 8 = 0 -> AddFirstByte(SubWord(RotWord(t)), f8_rcon[(word \div 8) + 1])
          [] word % 8 = 4 -> SubWord(t)
          [] OTHER -> t)

\* Iteration i of the loop, round i + 1; the last round has no vaesmcq and
\* adds the last round key.
aes128_arm(block, rk, i) ==
  LET shifted == vaeseq_u8(block, RoundKey(rk, i))
  IN  IF i < 9 THEN vaesmcq_u8(shifted) ELSE AddBlocks(shifted, RoundKey(rk, 10))

aes256_arm(block, rk, i) ==
  LET shifted == vaeseq_u8(block, RoundKey(rk, i))
  IN  IF i < 13 THEN vaesmcq_u8(shifted) ELSE AddBlocks(shifted, RoundKey(rk, 14))
==============================================================================
