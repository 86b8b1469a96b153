------------------------------ MODULE BitSlice ------------------------------
(***************************************************************************)
(* The bitsliced backends f3 (AES-128) and f6 (AES-256).  f6 is f3 with    *)
(* other names, a key of 32 bytes and 14 rounds.                           *)
(*                                                                         *)
(* The code keeps 128 machine words, one for each bit of a block; bit k of *)
(* every word belongs to block number k, lane k.  Here a word is the set   *)
(* of the lanes whose bit is 1: ^ is the symmetric difference, & the       *)
(* intersection, ~ the complement.  The 128 words are sixteen groups of    *)
(* eight: B[k + 1][n + 1] is the word of bit n of byte k, B[8 k + n] of    *)
(* the code.  The program encrypts a single block, in lane 0.              *)
(***************************************************************************)
EXTENDS ByteBackends

CONSTANT Lanes         \* the lanes that are modelled

\* Lane 0 is the one in use; lane 31 is the one whose mask is negative.
ASSUME LanesAssumption == {0, 31} \subseteq Lanes /\ Lanes \subseteq 0..63

u (-) v == (u \ v) \cup (v \ u)
Not(u) == Lanes \ u

\* Applies f to the 128 words: byte k, bit n.
Words(f(_, _)) == Sixteen(LAMBDA k : Eight(LAMBDA n : f(k, n)))

------------------------------------------------------------------------------
\* expand_key and expand_keyf6 of key_schedule.c: one word.
expand_key(w) ==
  LET c == (4 * Len(w)) % 256
      t == w[Len(w)]
  IN  AppendWord(w, 4, IF c % 16 = 0 THEN schedule_core_f2(t, c \div 16) ELSE t)

expand_keyf6(w) ==
  LET c == (4 * Len(w)) % 256
      t == w[Len(w)]
  IN  AppendWord(w, 8,
        CASE c % 32 = 0 -> schedule_core_f2(t, c \div 32)
          [] c % 32 = 16 -> SubWord(t)
          [] OTHER -> t)

(***************************************************************************)
(* The mask of lane k is an int: ONE << k loses lanes 32..63, and the      *)
(* negative value of lane 31 is extended with ones into all of them.       *)
(***************************************************************************)
bitpos(k) == Lanes \cap (IF k < 31 THEN {k} ELSE IF k = 31 THEN 31..63 ELSE {})

\* blocks[k] is the block of lane k.
bs_transpose(blocks) ==
  Words(LAMBDA k, n :
    UNION {bitpos(l) : l \in {l \in Lanes : Bit(blocks[l][k + 1], n)}})

\* The block of lane 0, which is all the caller copies out.
bs_transpose_rev(B) ==
  Sixteen(LAMBDA k : Packed({n \in 0..7 : 0 \in B[k + 1][n + 1]}))

\* A round key is copied into every lane before it is transposed.
bs_expand_key(w, j) == LET key == RoundKey(w, j) IN bs_transpose([l \in Lanes |-> key])

\* The input is one block; memset clears the other lanes.
Input(in) ==
  LET zero == Sixteen(LAMBDA k : 0)
  IN  bs_transpose([l \in Lanes |-> IF l = 0 THEN in ELSE zero])

bs_addroundkey(B, rk) == Words(LAMBDA k, n : B[k + 1][n + 1] (-) rk[k + 1][n + 1])

\* The circuit of bs_sbox, gate by gate, on the eight words of a byte.  Its
\* gates T1..T27, M1..M63 and L0..L29 are computed in five parts; T and M are
\* the gates of the part before, by their numbers.
Gates(first, last, g) == [i \in first..last |-> g[i - first + 1]]

TopGates(U) ==
  LET T1 == U[8] (-) U[5]  T2 == U[8] (-) U[3]  T3 == U[8] (-) U[2]
      T4 == U[5] (-) U[3]  T5 == U[4] (-) U[2]  T6 == T1 (-) T5
      T7 == U[7] (-) U[6]  T8 == U[1] (-) T6  T9 == U[1] (-) T7
      T10 == T6 (-) T7  T11 == U[7] (-) U[3]  T12 == U[6] (-) U[3]
      T13 == T3 (-) T4  T14 == T6 (-) T11  T15 == T5 (-) T11
      T16 == T5 (-) T12  T17 == T9 (-) T16  T18 == U[5] (-) U[1]
      T19 == T7 (-) T18  T20 == T1 (-) T19  T21 == U[2] (-) U[1]
      T22 == T7 (-) T21  T23 == T2 (-) T22  T24 == T2 (-) T10
      T25 == T20 (-) T17  T26 == T3 (-) T16  T27 == T1 (-) T12
  IN  <<T1, T2, T3, T4, T5, T6, T7, T8, T9, T10, T11, T12, T13, T14,
        T15, T16, T17, T18, T19, T20, T21, T22, T23, T24, T25, T26, T27>>

MiddleGates(U, T) ==
  LET M1 == T[13] \cap T[6]  M2 == T[23] \cap T[8]  M3 == T[14] (-) M1
      M4 == T[19] \cap U[1]  M5 == M4 (-) M1  M6 == T[3] \cap T[16]
      M7 == T[22] \cap T[9]  M8 == T[26] (-) M6  M9 == T[20] \cap T[17]
      M10 == M9 (-) M6  M11 == T[1] \cap T[15]  M12 == T[4] \cap T[27]
      M13 == M12 (-) M11  M14 == T[2] \cap T[10]  M15 == M14 (-) M11
      M16 == M3 (-) M2  M17 == M5 (-) T[24]  M18 == M8 (-) M7
      M19 == M10 (-) M15  M20 == M16 (-) M13  M21 == M17 (-) M15
      M22 == M18 (-) M13  M23 == M19 (-) T[25]  M24 == M22 (-) M23
      M25 == M22 \cap M20  M26 == M21 (-) M25  M27 == M20 (-) M21
  IN  <<M1, M2, M3, M4, M5, M6, M7, M8, M9, M10, M11, M12, M13, M14,
        M15, M16, M17, M18, M19, M20, M21, M22, M23, M24, M25, M26, M27>>

InverseGates(M) ==
  LET M28 == M[23] (-) M[25]  M29 == M28 \cap M[27]
      M30 == M[26] \cap M[24]  M31 == M[20] \cap M[23]
      M32 == M[27] \cap M31  M33 == M[27] (-) M[25]
      M34 == M[21] \cap M[22]  M35 == M[24] \cap M34
      M36 == M[24] (-) M[25]  M37 == M[21] (-) M29  M38 == M32 (-) M33
      M39 == M[23] (-) M30  M40 == M35 (-) M36  M41 == M38 (-) M40
      M42 == M37 (-) M39  M43 == M37 (-) M38  M44 == M39 (-) M40
      M45 == M42 (-) M41
  IN  Gates(28, 45, <<M28, M29, M30, M31, M32, M33, M34, M35, M36, M37, M38,
                      M39, M40, M41, M42, M43, M44, M45>>)

ProductGates(U, T, M) ==
  LET M46 == M[44] \cap T[6]  M47 == M[40] \cap T[8]
      M48 == M[39] \cap U[1]  M49 == M[43] \cap T[16]
      M50 == M[38] \cap T[9]  M51 == M[37] \cap T[17]
      M52 == M[42] \cap T[15]  M53 == M[45] \cap T[27]
      M54 == M[41] \cap T[10]  M55 == M[44] \cap T[13]
      M56 == M[40] \cap T[23]  M57 == M[39] \cap T[19]
      M58 == M[43] \cap T[3]  M59 == M[38] \cap T[22]
      M60 == M[37] \cap T[20]  M61 == M[42] \cap T[1]
      M62 == M[45] \cap T[4]  M63 == M[41] \cap T[2]
  IN  Gates(46, 63, <<M46, M47, M48, M49, M50, M51, M52, M53, M54, M55, M56,
                      M57, M58, M59, M60, M61, M62, M63>>)

BottomGates(M) ==
  LET L0 == M[61] (-) M[62]  L1 == M[50] (-) M[56]  L2 == M[46] (-) M[48]
      L3 == M[47] (-) M[55]  L4 == M[54] (-) M[58]  L5 == M[49] (-) M[61]
      L6 == M[62] (-) L5  L7 == M[46] (-) L3  L8 == M[51] (-) M[59]
      L9 == M[52] (-) M[53]  L10 == M[53] (-) L4  L11 == M[60] (-) L2
      L12 == M[48] (-) M[51]  L13 == M[50] (-) L0  L14 == M[52] (-) M[61]
      L15 == M[55] (-) L1  L16 == M[56] (-) L0  L17 == M[57] (-) L1
      L18 == M[58] (-) L8  L19 == M[63] (-) L4  L20 == L0 (-) L1
      L21 == L1 (-) L7  L22 == L3 (-) L12  L23 == L18 (-) L2
      L24 == L15 (-) L9  L25 == L6 (-) L10  L26 == L7 (-) L9
      L27 == L8 (-) L10  L28 == L11 (-) L14  L29 == L11 (-) L17
  IN  <<Not(L6 (-) L23), Not(L13 (-) L27), L25 (-) L29, L20 (-) L22,
        L6 (-) L21, Not(L19 (-) L28), Not(L16 (-) L26), L6 (-) L24>>

bs_sbox(U) ==
  LET T == TopGates(U)
  IN  BottomGates(ProductGates(U, T, InverseGates(MiddleGates(U, T))))

\* What proofs use of the circuit, evaluated by TLC for every byte: in lane 0 it
\* computes the S-box.
ASSUME CircuitAssumption ==
  \A x \in Byte, n \in 0..7 :
    0 \in bs_sbox([i \in 1..8 |-> IF Bit(x, i - 1) THEN {0} ELSE {}])[n + 1] <=> Bit(Sub(x), n)

bs_apply_sbox(B) == Sixteen(LAMBDA k : bs_sbox(B[k + 1]))

\* Row i of column c comes from offset 32 c + 40 i.
bs_shiftrows(B) ==
  Sixteen(LAMBDA k : B[((4 * (k \div 4) + 5 * (k % 4)) % 16) + 1])

\* Mutation of bs_shiftmix: of is not added to bit 3.
bs_shiftmix_NoCarry(B) ==
  Words(LAMBDA k, n :
    LET a(row, bit) == B[((4 * ((k \div 4) + (row % 4)) + (row % 4)) % 16) + 1][bit + 1]
        i == k % 4
        of == a(i, 7) (-) a(i + 1, 7)
        twice == IF n = 0 THEN {} ELSE a(i, n - 1) (-) a(i + 1, n - 1)
    IN  twice (-) a(i + 1, n) (-) a(i + 2, n) (-) a(i + 3, n)
              (-) (IF n \in {0, 1, 4} THEN of ELSE {}))

\* ShiftRows and MixColumns in one pass.  a(row, n) is bit n of the byte
\* that ShiftRows brings to this column and row: Br1[R1+n] and so on.
bs_shiftmix(B) ==
  Words(LAMBDA k, n :
    LET a(row, bit) == B[((4 * ((k \div 4) + (row % 4)) + (row % 4)) % 16) + 1][bit + 1]
        i == k % 4
        of == a(i, 7) (-) a(i + 1, 7)
        twice == IF n = 0 THEN {} ELSE a(i, n - 1) (-) a(i + 1, n - 1)
    IN  twice (-) a(i + 1, n) (-) a(i + 2, n) (-) a(i + 3, n)
              (-) (IF n \in {0, 1, 3, 4} THEN of ELSE {}))

\* One round of bs_cipher and of bs_cipherf6.
bs_cipher(B, rk, round, last) ==
  LET sub == bs_apply_sbox(B)
  IN  bs_addroundkey(IF round < last THEN bs_shiftmix(sub) ELSE bs_shiftrows(sub), rk[round + 1])
==============================================================================
