------------------------------ MODULE Decryptor ------------------------------
(***************************************************************************)
(* The GCM decryptor of encrypt02.c on real bytes, with the backends it    *)
(* calls: ed_init, one dec_update for every record, dec_final.  fetch      *)
(* looks the backend up at the start of ed_init and of each dec_update, so *)
(* that a session may use another backend of its level for every record.   *)
(* The rest of the time check programs and internalprofile call backends.  *)
(*                                                                         *)
(* Transfer treats the same functions over symbolic bytes, with the buffers*)
(* around them; here is what makes the ideal decryptor of that model true. *)
(***************************************************************************)
EXTENDS Backends, Ghash

LOCAL INSTANCE Integers

CONSTANTS
  RECORD,     \* bytes of a full record, a multiple of 16
  Streams     \* what clients send: key, iv, c and tag, whether it is genuine
              \* or was altered, and the plaintext of the genuine one

ASSUME StreamsAssumption ==
  /\ RECORD \in Nat \ {0} /\ RECORD % 16 = 0
  /\ \A x \in Streams : /\ Len(x.key) \in {4, 8} /\ Len(x.tag) = 16 /\ x.c \in Seq(Byte)
                         /\ x.iv \in Seq(Byte) /\ Len(x.iv) = 12

\* The calls of a session are among the inputs: the block of zeros, and one
\* counter block for the tag and for every block of ciphertext.
ASSUME CallsAssumption ==
  \A x \in Streams :
    \A in \in {Zero} \cup {x.iv \o store32(i) : i \in 1..(1 + ((Len(x.c) + 15) \div 16))} :
      [key |-> x.key, in |-> in] \in Inputs

VARIABLES
  ph,       \* what the decryptor waits for
  st,       \* the stream
  ops,      \* the backends of lib_enc.so of its level
  cx,       \* EDcontext
  pos, end, \* the bytes decrypted, the end of the record
  m,        \* the plaintext
  ok        \* dec_final returned 0

dvars == <<ph, st, ops, cx, pos, end, m, ok>>
allvars == <<vars, dvars>>

NoContext == [H |-> Zero, J |-> Zero, T |-> Zero, accum |-> Zero, paccum |-> Zero,
              index |-> 0, mlen |-> 0]

NoStream == [key |-> <<>>]

DInit ==
  /\ Init
  /\ ph = "none" /\ st = NoStream /\ ops = {} /\ cx = NoContext
  /\ pos = 0 /\ end = 0 /\ m = <<>> /\ ok = FALSE

------------------------------------------------------------------------------
\* The library on each architecture.
Libraries(nk) ==
  LET all == IF nk = 4 THEN Level1 ELSE Level2
  IN  {all \ Arm, all \ {"f7_x86", "f8_x86"}}

Returned == r = Nr + 1

\* op(in, kcopy, ...): backend x is called under the key of stream y.
op(x, y, in) ==
  /\ b' = x /\ v' = [key |-> y.key, in |-> in]
  /\ w' = y.key /\ rk' = <<>> /\ s' = in /\ r' = 0

\* The session before is over.
Begin(p, y, lib) ==
  /\ ph \in {"none", "done"} /\ ph' = p
  /\ st' = y /\ ops' = lib
  /\ cx' = NoContext /\ pos' = 0 /\ end' = 0 /\ m' = <<>> /\ ok' = FALSE

\* A check program or internalprofile calls next.
OtherCall == Return /\ Begin("none", NoStream, {})

\* ed_init: fetch, and H is computed first.
ed_init ==
  /\ Returned
  /\ \E y \in Streams : \E lib \in Libraries(Len(y.key)) : \E x \in lib :
       Begin("H", y, lib) /\ op(x, y, Zero)

\* Then the first counter block is encrypted: T.
ed_init_T ==
  /\ ph = "H" /\ Returned /\ ph' = "T"
  /\ LET J == st.iv \o store32(1)
     IN  cx' = [cx EXCEPT !.H = s, !.J = J, !.index = 1] /\ op(b, st, J)
  /\ UNCHANGED <<st, ops, pos, end, m, ok>>

ed_init_Returns ==
  /\ ph = "T" /\ Returned /\ ph' = "loop"
  /\ cx' = [cx EXCEPT !.T = s]
  /\ UNCHANGED <<vars, st, ops, pos, end, m, ok>>

\* Mutation of Counted: the counter is advanced after its use.
Counted_After(c) == [c EXCEPT !.index = @ + 1, !.J = SubSeq(@, 1, 12) \o store32(c.index)]

\* The context with the next counter block.
Counted(c) == [c EXCEPT !.index = @ + 1, !.J = SubSeq(@, 1, 12) \o store32(c.index + 1)]

\* dec_update of the next record: fetch, and the first block is asked for.
dec_update ==
  /\ ph = "loop" /\ pos < Len(st.c) /\ ph' = "block"
  /\ end' = IF Len(st.c) - pos < RECORD THEN Len(st.c) ELSE pos + RECORD
  /\ LET c == Counted([cx EXCEPT !.mlen = @ + end' - pos])
     IN  cx' = c /\ \E x \in ops : op(x, st, c.J)
  /\ UNCHANGED <<st, ops, pos, m, ok>>

\* A block is decrypted and absorbed; the next of the record follows.
dec_update_Block ==
  LET len  == IF end - pos < 16 THEN end - pos ELSE 16
      c    == SubSeq(st.c, pos + 1, pos + len)
      next == [cx EXCEPT !.paccum = cx.accum, !.accum = addmul(cx.accum, c, cx.H)]
  IN  /\ ph = "block" /\ Returned
      /\ m' = m \o [i \in 1..len |-> c[i] ++ s[i]]
      /\ pos' = pos + len
      /\ IF pos' < end
         THEN cx' = Counted(next) /\ op(b, st, cx'.J) /\ UNCHANGED ph
         ELSE cx' = next /\ ph' = "loop" /\ UNCHANGED vars
      /\ UNCHANGED <<st, ops, end, ok>>

\* dec_final: the length block, and the tag is compared.
dec_final ==
  /\ ph = "loop" /\ pos = Len(st.c) /\ ph' = "done"
  /\ LET finalblock == store64(0) \o store64(8 * cx.mlen)
         accum      == addmul(cx.accum, finalblock, cx.H)
     IN  /\ cx' = [cx EXCEPT !.accum = accum]
         /\ ok' = crypto_verify_16(st.tag, Xored(cx.T, accum))
  /\ UNCHANGED <<vars, st, ops, pos, end, m>>

------------------------------------------------------------------------------
Backend == (Expand \/ Slice \/ Start \/ Round) /\ UNCHANGED dvars

DNext ==
  \/ Backend \/ OtherCall
  \/ ed_init \/ ed_init_T \/ ed_init_Returns
  \/ dec_update \/ dec_update_Block \/ dec_final

DSpec == DInit /\ [][DNext]_allvars

------------------------------------------------------------------------------
\* Before every record and at the end of the ciphertext the accumulator is the
\* GHASH of the blocks so far, and paccum that of all but the last: what
\* server_f.c goes back to when the last block turns out to be the tag.
HashExact ==
  ph = "loop" =>
    LET n == (pos + 15) \div 16
    IN  /\ cx.accum = GHASH(cx.H, st.c, n)
        /\ n > 0 => cx.paccum = GHASH(cx.H, st.c, n - 1)

\* A session accepts exactly the streams that are an AES-GCM encryption, and
\* then has the plaintext, whichever backends of the level it was switched to
\* between records.
Authentic ==
  ph = "done" => (ok <=> st.genuine) /\ (ok => m = st.plain)
==============================================================================
