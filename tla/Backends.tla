------------------------------ MODULE Backends ------------------------------
(***************************************************************************)
(* The calls of the registered functions: op(in, key, out), by the check   *)
(* programs of registration, by internalprofile and by the decryptor.  A   *)
(* call is any backend on any vector; its loops take a step per iteration. *)
(* f7 and f8 are compiled for one of two architectures, so each of them    *)
(* is two backends here.                                                   *)
(***************************************************************************)
EXTENDS BitSlice

CONSTANT Inputs        \* the [key, in] that callers pass

ASSUME InputsAssumption ==
  \A i \in Inputs : i.key \in Seq(Word) /\ Len(i.key) \in {4, 8} /\ i.in \in Block

VARIABLES
  b,    \* the backend
  v,    \* the vector it was called with
  w,    \* the key schedule: RoundKey, RKey, round_keys, rk, key
  rk,   \* the sliced round keys of f3 and f6
  s,    \* the block: state, CT, block; words while f3 and f6 compute
  r     \* the next round; 0 while the key is expanded

vars == <<b, v, w, rk, s, r>>

\* Security_level of the config.txt of each backend.
Level1 == {"f1", "f2", "f3", "f7_x86", "f7_arm"}
Level2 == {"f4", "f5", "f6", "f8_x86", "f8_arm"}
Sliced == {"f3", "f6"}
Arm == {"f7_arm", "f8_arm"}

Nk(x) == IF x \in Level1 THEN 4 ELSE 8
Nr == Nk(b) + 6

------------------------------------------------------------------------------
\* The calls that can be made: backend and vector.
Calls == {c \in (Level1 \cup Level2) \X Inputs : Len(c[2].key) = Nk(c[1])}

Init ==
  \E c \in Calls :
    /\ b = c[1] /\ v = c[2]
    /\ w = v.key /\ rk = <<>> /\ s = v.in /\ r = 0

\* One iteration of the key expansion of backend x.
Expanded(x, sched) ==
  CASE x = "f1" -> KeyExpansion(sched)
    [] x = "f2" -> expand_keyf2(sched)
    [] x = "f3" -> expand_key(sched)
    [] x = "f4" -> KeyExpansion256(sched)
    [] x = "f5" -> expand_keyf5(sched)
    [] x = "f6" -> expand_keyf6(sched)
    [] x = "f7_x86" -> aes128_load_keys(sched)
    [] x = "f7_arm" -> key_expansion(sched)
    [] x = "f8_x86" -> aes256_load_keys(sched)
    [] x = "f8_arm" -> key_expansion_256(sched)

Expand ==
  /\ r = 0
  /\ Len(w) < 4 * (Nr + 1)
  /\ w' = Expanded(b, w)
  /\ UNCHANGED <<b, v, rk, s, r>>

\* bs_expand_key slices the round keys after expand_key has made them all.
Slice ==
  /\ b \in Sliced
  /\ r = 0
  /\ Len(w) = 4 * (Nr + 1)
  /\ Len(rk) <= Nr
  /\ rk' = Append(rk, bs_expand_key(w, Len(rk)))
  /\ UNCHANGED <<b, v, w, s, r>>

\* The first round key is added; on ARM the first vaeseq will do it.
Start ==
  /\ r = 0
  /\ Len(w) = 4 * (Nr + 1)
  /\ b \in Sliced => Len(rk) = Nr + 1
  /\ s' = CASE b \in Sliced -> bs_addroundkey(Input(s), rk[1])
            [] b \in Arm -> s
            [] OTHER -> AddBlocks(s, RoundKey(w, 0))
  /\ r' = 1
  /\ UNCHANGED <<b, v, w, rk>>

\* f3 and f6 turn the words into bytes again after the last round.
Ciphered ==
  CASE b \in {"f1", "f4"} -> Cipher(s, w, r, Nr)
    [] b \in {"f2", "f5"} -> AES_enc(s, w, r, Nr)
    [] b = "f7_x86" -> aes128_encrypt(s, w, r)
    [] b = "f8_x86" -> aes256_encrypt(s, w, r)
    [] b = "f7_arm" -> aes128_arm(s, w, r - 1)
    [] b = "f8_arm" -> aes256_arm(s, w, r - 1)
    [] b \in Sliced -> LET B == bs_cipher(s, rk, r, Nr)
                       IN  IF r = Nr THEN bs_transpose_rev(B) ELSE B

Round ==
  /\ r \in 1..Nr
  /\ s' = Ciphered
  /\ r' = r + 1
  /\ UNCHANGED <<b, v, w, rk>>

\* The caller has the result and calls again, the same backend or another.
Return ==
  /\ r = Nr + 1
  /\ \E c \in Calls :
       /\ b' = c[1] /\ v' = c[2]
       /\ w' = c[2].key /\ rk' = <<>> /\ s' = c[2].in /\ r' = 0

------------------------------------------------------------------------------
\* The block of the standard at this point of the call: on ARM the round key
\* that the next instruction will add is still missing from s.
StateOfAes ==
  CASE r \in 1..Nr /\ b \in Sliced -> bs_transpose_rev(s)
    [] r \in 1..Nr /\ b \in Arm -> AddBlocks(s, RoundKey(w, r - 1))
    [] OTHER -> s

Aes == INSTANCE Fips197
         WITH Vectors <- Inputs, nk <- Nk(b), s <- StateOfAes

(***************************************************************************)
(* Every backend computes AES, iteration by iteration: the words it adds   *)
(* to its schedule are those of the standard and each pass of its loop is  *)
(* one round.  So the backends of a level are interchangeable, which is    *)
(* what lets server_f.c change backend in the middle of a file.            *)
(***************************************************************************)
ImplementsAes == Aes!Spec

\* compare() of check1.c and check2.c: TRUE when it returns 0.
compare(x, y) == \A i \in 1..16 : x[i] = y[i]

Check1 ==
  [key |-> <<<<132, 129, 133, 223>>, <<169, 81, 241, 30>>,
             <<19, 151, 36, 138>>, <<106, 105, 139, 23>>>>,
   in |-> <<173, 64, 168, 150, 177, 199, 234, 160, 82, 177, 167, 11, 214, 69, 219, 102>>]
Answer1 == <<111, 15, 169, 22, 63, 146, 197, 96, 39, 234, 77, 50, 148, 85, 215, 215>>

Check2 ==
  [key |-> <<<<96, 61, 235, 16>>, <<21, 202, 113, 190>>, <<43, 115, 174, 240>>,
             <<133, 125, 119, 129>>, <<31, 53, 44, 7>>, <<59, 97, 8, 215>>,
             <<45, 152, 16, 163>>, <<9, 20, 223, 244>>>>,
   in |-> <<107, 193, 190, 226, 46, 64, 159, 150, 233, 61, 126, 17, 115, 147, 23, 42>>]
Answer2 == <<243, 238, 209, 189, 181, 210, 160, 60, 6, 75, 90, 126, 61, 177, 129, 248>>

(***************************************************************************)
(* Every backend passes the check program of its level, so that register.c *)
(* accepts it, and no lane but the caller's reaches the result.            *)
(***************************************************************************)
PassesCheck ==
  /\ r = Nr + 1 /\ v = Check1 => compare(s, Answer1)
  /\ r = Nr + 1 /\ v = Check2 => compare(s, Answer2)
==============================================================================
