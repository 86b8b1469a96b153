----------------------------- MODULE MCDecryptor -----------------------------
(***************************************************************************)
(* Vectors for Backends: those of the check programs; under their keys,    *)
(* the block of zeros that ed_init encrypts to get H and a counter block;  *)
(* and under a key of zeros sixteen blocks that hold every byte once, so   *)
(* that the first round of each backend substitutes every byte.            *)
(*                                                                         *)
(* Streams for Decryptor: the test cases of the GCM specification without  *)
(* additional data, an empty file and a block of zeros under a key of      *)
(* zeros, and 36 bytes of its longer plaintext, two records of 32 and 4.   *)
(***************************************************************************)
EXTENDS Decryptor

MCLanes == {0, 31, 32}

Counter == Sixteen(LAMBDA k : IF k < 12 THEN 16 * k + 15 ELSE IF k = 15 THEN 1 ELSE 0)
ZeroKey(n) == SubSeq([i \in 1..n |-> <<0, 0, 0, 0>>], 1, n)
ZeroIv == SubSeq(Zero, 1, 12)

Key == <<<<254, 255, 233, 146>>, <<134, 101, 115, 28>>, <<109, 106, 143, 148>>, <<103, 48, 131, 8>>>>
Iv == <<202, 254, 186, 190, 250, 206, 219, 173, 222, 202, 248, 136>>
Plain == <<217, 49, 50, 37, 248, 132, 6, 229, 165, 89, 9, 197,
           175, 245, 38, 154, 134, 167, 169, 83, 21, 52, 247, 218,
           46, 76, 48, 61, 138, 49, 138, 114, 28, 60, 12, 149>>

Genuine(key, iv, plain, c, tag) ==
  [key |-> key, iv |-> iv, plain |-> plain, c |-> c, tag |-> tag, genuine |-> TRUE]

Empty128 == Genuine(ZeroKey(4), ZeroIv, <<>>, <<>>,
  <<88, 226, 252, 206, 250, 126, 48, 97, 54, 127, 29, 87, 164, 231, 69, 90>>)
Empty256 == Genuine(ZeroKey(8), ZeroIv, <<>>, <<>>,
  <<83, 15, 138, 251, 199, 69, 54, 185, 169, 99, 180, 241, 196, 203, 115, 139>>)
Block128 == Genuine(ZeroKey(4), ZeroIv, Zero,
  <<3, 136, 218, 206, 96, 182, 163, 146, 243, 40, 194, 185, 113, 178, 254, 120>>,
  <<171, 110, 71, 212, 44, 236, 19, 189, 245, 58, 103, 178, 18, 87, 189, 223>>)
Block256 == Genuine(ZeroKey(8), ZeroIv, Zero,
  <<206, 167, 64, 61, 77, 96, 107, 110, 7, 78, 197, 211, 186, 243, 157, 24>>,
  <<208, 209, 200, 167, 153, 153, 107, 240, 38, 91, 152, 181, 212, 138, 185, 25>>)
Long128 == Genuine(Key, Iv, Plain,
  <<66, 131, 30, 194, 33, 119, 116, 36, 75, 114, 33, 183,
    132, 208, 212, 156, 227, 170, 33, 47, 44, 2, 164, 224,
    53, 193, 126, 35, 41, 172, 161, 46, 33, 213, 20, 178>>,
  <<28, 64, 126, 132, 161, 187, 230, 211, 250, 164, 27, 64, 72, 214, 101, 51>>)
Long256 == Genuine(Key \o Key, Iv, Plain,
  <<82, 45, 193, 240, 153, 86, 125, 7, 244, 127, 55, 163,
    42, 132, 66, 125, 100, 58, 140, 220, 191, 229, 192, 201,
    117, 152, 162, 189, 37, 85, 209, 170, 140, 176, 142, 72>>,
  <<133, 170, 173, 20, 155, 36, 239, 240, 137, 132, 190, 72, 130, 226, 232, 116>>)

\* A bit of the last byte of ciphertext is flipped, one of the tag, or the end
\* of the ciphertext is missing.
Altered(x) ==
  {[x EXCEPT !.genuine = FALSE, !.c[Len(x.c)] = @ ++ 1],
   [x EXCEPT !.genuine = FALSE, !.tag[1] = @ ++ 128],
   [x EXCEPT !.genuine = FALSE, !.c = SubSeq(@, 1, 32)]}

MCStreams ==
  {Empty128, Empty256, Block128, Block256, Long128, Long256}
    \cup Altered(Long128) \cup Altered(Long256)

MCInputs ==
  {Check1, Check2}
  \cup [key : {Check1.key, Check2.key}, in : {Zero, Counter}]
  \cup [key : {ZeroKey(4), ZeroKey(8)},
        in : {Sixteen(LAMBDA k : 16 * i + k) : i \in 0..15}]
  \cup UNION {{[key |-> x.key, in |-> in] :
                in \in {Zero} \cup {x.iv \o store32(i) : i \in 1..(2 + (Len(x.c) \div 16))}} :
              x \in MCStreams}
==============================================================================
