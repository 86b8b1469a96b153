--------------------------------- MODULE Gcm ---------------------------------
(***************************************************************************)
(* The incremental GCM decryptor of encrypt02.c over symbolic bytes.       *)
(*                                                                         *)
(* A byte of the stream a client sends is named by its offset: offsets     *)
(* 0..N-1 are the ciphertext of a file of N bytes, N..N+TAGSIZE-1 its tag. *)
(* Decrypting ciphertext byte b with the keystream byte of position b      *)
(* gives plaintext byte b, which keeps the name b; every other value is    *)
(* Junk.  AES and GHASH are ideal: a wrong key, counter, accumulator or    *)
(* tag byte never gives the right result.                                  *)
(*                                                                         *)
(* C arrays are functions on 0..size-1, so an offset of the code is an     *)
(* offset here; byte strings that are read, written or hashed are          *)
(* sequences.                                                              *)
(***************************************************************************)
EXTENDS ModeByte, Sequences

CONSTANT TAGSIZE

ASSUME TagAssumption == TAGSIZE \in Nat \ {0}

\* A byte that belongs to no plaintext, ciphertext or tag of this session.
Junk == -1
\* The zero byte with which addmul completes a short block.
Pad == -2
\* The level of an EDcontext that ed_init left before filling it.
Unset == -1

Byte == Nat \cup {Junk, Pad}

------------------------------------------------------------------------------
\* Arrays and byte strings.

\* The n bytes at a + from.
Slice(a, from, n) == [i \in 1..n |-> a[from + i - 1]]

\* Array a after memcpy(a + to, s, Len(s)).
memcpy(a, to, s) ==
  [i \in DOMAIN a |-> IF to <= i /\ i < to + Len(s) THEN s[i - to + 1] ELSE a[i]]

Blank(size) == [i \in 0..(size - 1) |-> Junk]

\* What is missing from n bytes to complete their last block.
PadLen(n) == (TAGSIZE - (n % TAGSIZE)) % TAGSIZE
Pads(n) == [i \in 1..n |-> Pad]

------------------------------------------------------------------------------
\* One XOR with the keystream byte of position k, produced with the key the
\* client uses (good) or with another one.
Decrypt(b, k, good) == IF good /\ b = k THEN b ELSE Junk

\* The accumulator, as the padded blocks absorbed so far: at most one block.
addmul(a, x) == a \o x \o Pads(TAGSIZE - Len(x))

(***************************************************************************)
(* EDcontext.  level is the level of the backend that computed H and T     *)
(* (Unset when ed_init returned before that: kcopy, H, T, J are then       *)
(* uninitialised memory); ctr is the keystream position of the next block, *)
(* (index - 1) * TAGSIZE.                                                  *)
(***************************************************************************)
EDcontext == [level : Int, ctr : Nat, mlen : Int, accum : Seq(Byte), paccum : Seq(Byte)]

NewContext(level) ==
  [level |-> level, ctr |-> 0, mlen |-> 0, accum |-> <<>>, paccum |-> <<>>]

\* found: dlsym knows the backend the two reads of mode named.
ed_init(found, slevel) == NewContext(IF found THEN slevel ELSE Unset)

\* Mutation of dec_update: paccum is taken after the last block.
dec_update_Late(cx, c, n) ==
  LET accum == cx.accum \o Slice(c, 0, n) \o Pads(PadLen(n))
  IN  [level |-> cx.level,
       ctr |-> cx.ctr + n + PadLen(n),
       mlen |-> cx.mlen + n,
       accum |-> accum,
       paccum |-> accum]

\* The context after n bytes at c are absorbed: every block but the last one
\* is full, and paccum is the accumulator before the last block.
dec_update(cx, c, n) ==
  LET accum == cx.accum \o Slice(c, 0, n) \o Pads(PadLen(n))
  IN  [level |-> cx.level,
       ctr |-> cx.ctr + n + PadLen(n),
       mlen |-> cx.mlen + n,
       accum |-> accum,
       paccum |-> SubSeq(accum, 1, Len(accum) - TAGSIZE)]

\* The n bytes dec_update decrypts with a backend of level slevel, for a
\* client that encrypts at level lvl.
Decrypted(cx, c, n, slevel, lvl) ==
  [i \in 1..n |-> Decrypt(c[i - 1], cx.ctr + i - 1, cx.level # Unset /\ slevel = lvl)]

\* The accumulator a holds the blocks of the whole ciphertext of size bytes.
HashOfFile(a, size) ==
  /\ size <= Len(a) /\ Len(a) < size + TAGSIZE
  /\ \A i \in 1..Len(a) : a[i] = IF i <= size THEN i - 1 ELSE Pad

\* The TAGSIZE bytes of t from position tp are the tag of that file.
TagOfFile(t, tp, size) == \A i \in 0..(TAGSIZE - 1) : t[tp + i] = size + i

\* TRUE when dec_final returns 0: the tag recomputed from the accumulator and
\* the length block is the one received.
dec_final(cx, t, tp, size, lvl) ==
  /\ cx.level = lvl
  /\ cx.mlen = size
  /\ HashOfFile(cx.accum, size)
  /\ TagOfFile(t, tp, size)
==============================================================================
