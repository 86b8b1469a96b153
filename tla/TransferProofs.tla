---------------------------- MODULE TransferProofs ----------------------------
(***************************************************************************)
(* Proofs about Transfer, for every record and tag size, library, set of   *)
(* file sizes and set of modes.                                            *)
(***************************************************************************)
EXTENDS TransferInvariant, TLAPS

------------------------------------------------------------------------------
\* Facts about the operators of Gcm.

\* The padding completes a block and nothing is added to whole blocks.
LEMMA PadLenFacts ==
  /\ \A k \in Nat : PadLen(k) \in 0..(TAGSIZE - 1)
  /\ PadLen(CHUNK_SIZE) = 0
BY TagAssumption, ChunkAssumption DEF PadLen

\* The sizes, without the remainder.
LEMMA SizeFacts ==
  /\ TAGSIZE \in Nat /\ TAGSIZE >= 1
  /\ CHUNK_SIZE \in Nat /\ CHUNK_SIZE >= 2 * TAGSIZE
  /\ 2 * TAGSIZE \in Nat
BY TagAssumption, ChunkAssumption

\* Slice reads k consecutive bytes of an array.
LEMMA SliceFacts ==
  ASSUME NEW size \in Nat, NEW a \in [0..(size - 1) -> Byte],
         NEW from \in Nat, NEW k \in Nat, from + k <= size
  PROVE  /\ Slice(a, from, k) \in Seq(Byte)
         /\ Len(Slice(a, from, k)) = k
         /\ \A i \in 1..k : Slice(a, from, k)[i] = a[from + i - 1]
BY DEF Slice

\* memcpy keeps an array an array of bytes.
LEMMA MemcpyType ==
  ASSUME NEW size \in Nat, NEW a \in [0..(size - 1) -> Byte],
         NEW to \in Nat, NEW s \in Seq(Byte)
  PROVE  memcpy(a, to, s) \in [0..(size - 1) -> Byte]
BY DEF memcpy

\* Padding is a sequence of bytes.
LEMMA PadsFacts ==
  ASSUME NEW k \in Nat
  PROVE  Pads(k) \in Seq(Byte) /\ Len(Pads(k)) = k
BY DEF Pads, Byte

\* Blank arrays are arrays of bytes.
LEMMA BlankType ==
  ASSUME NEW size \in Nat
  PROVE  Blank(size) \in [0..(size - 1) -> Byte]
BY DEF Blank, Byte

\* The bytes of a record.
LEMMA BytesFacts ==
  ASSUME NEW r \in Record
  PROVE  /\ Bytes(r) \in Seq(Byte)
         /\ Len(Bytes(r)) = r.len
         /\ \A i \in 1..r.len : Bytes(r)[i] = r.off + i - 1
BY SizeFacts DEF Bytes, Record, Byte

\* dec_update takes a context to a context.
LEMMA UpdateType ==
  ASSUME NEW c \in EDcontext, NEW size \in Nat, NEW a \in [0..(size - 1) -> Byte],
         NEW k \in 1..size
  PROVE  dec_update(c, a, k) \in EDcontext
<1> DEFINE s == c.accum \o Slice(a, 0, k) \o Pads(PadLen(k))
<1>1. PadLen(k) \in Nat
  BY PadLenFacts, SizeFacts
<1>2. Slice(a, 0, k) \in Seq(Byte)
  BY SliceFacts
<1>3. Pads(PadLen(k)) \in Seq(Byte)
  BY <1>1, PadsFacts
<1>4. s \in Seq(Byte)
  BY <1>2, <1>3 DEF EDcontext
<1>5. SubSeq(s, 1, Len(s) - TAGSIZE) \in Seq(Byte)
  BY <1>4, SizeFacts
<1>6. dec_update(c, a, k) =
        [level |-> c.level, ctr |-> c.ctr + k + PadLen(k), mlen |-> c.mlen + k,
         accum |-> s, paccum |-> SubSeq(s, 1, Len(s) - TAGSIZE)]
  BY DEF dec_update
<1> HIDE DEF s
<1> QED BY <1>1, <1>4, <1>5, <1>6 DEF EDcontext

\* So does absorbing the last block again.
LEMMA RetractType ==
  ASSUME TypeOK, NEW k \in 1..TAGSIZE, NEW a \in [0..(CHUNK_SIZE - 1) -> Byte]
  PROVE  Retract(k, a) \in EDcontext
<1> DEFINE s == Slice(a, CHUNK_SIZE - TAGSIZE, k)
           again == addmul(cx.paccum, s)
<1>1. s \in Seq(Byte) /\ Len(s) = k
  BY SliceFacts, SizeFacts
<1>2. Pads(TAGSIZE - k) \in Seq(Byte)
  BY PadsFacts, SizeFacts
<1>3. again \in Seq(Byte)
  BY <1>1, <1>2 DEF addmul, TypeOK, EDcontext
<1> QED BY <1>3, SizeFacts DEF Retract, TypeOK, EDcontext

------------------------------------------------------------------------------
\* Type correctness.

\* A port that starts to listen has its variables in their types.
LEMMA InitType == Init => TypeInv
<1> SUFFICES ASSUME Init PROVE TypeInv
  OBVIOUS
<1>1. NewContext(Unset) \in EDcontext
  BY DEF NewContext, EDcontext, Unset, Byte
<1>2. Blank(CHUNK_SIZE) \in [0..(CHUNK_SIZE - 1) -> Byte]
  BY BlankType, SizeFacts
<1>6. Blank(2 * TAGSIZE) \in [0..(2 * TAGSIZE - 1) -> Byte]
  BY BlankType, SizeFacts
<1>3. client \in [pc : {"idle", "send", "tail", "closed"}, len : Nat,
                 lvl : Levels, sent : Nat]
  BY ParameterAssumption DEF Init
<1>4. wire \in Seq(Record) /\ evp \in Seq(Byte) /\ file \in Seq(Byte)
  BY DEF Init
<1>7. part \in BOOLEAN /\ verdict \subseteq {"ok", "bad"} /\ spc \in Points
  BY DEF Init, Points
<1>8. /\ rx \in Nat /\ mode \in Nat /\ slevel \in Levels
      /\ n \in 0..CHUNK_SIZE /\ ct \in Nat /\ tp \in 0..TAGSIZE
  BY SizeFacts, ParameterAssumption DEF Init, Levels
<1>9. /\ buffer \in [0..(CHUNK_SIZE - 1) -> Byte] 
  /\ outmsg \in [0..(CHUNK_SIZE - 1) -> Byte]
  /\ tag \in [0..(2 * TAGSIZE - 1) -> Byte] /\ cx \in EDcontext
  BY <1>1, <1>2, <1>6 DEF Init
<1>5. TypeOK
  BY <1>3, <1>4, <1>7, <1>8, <1>9 DEF TypeOK
<1> QED BY <1>5 DEF Init, TypeInv, SentInv, HandInv

\* The types that the steps of the client disturb.
LEMMA ClientType ==
  ASSUME TypeInv, Client \/ Disconnect
  PROVE  TypeInv'
<1> USE SizeFacts
<1> DEFINE U == UNCHANGED <<rx, spc, mode, slevel, progress, arrays, cx, evp, file, verdict>>
<1>1. ASSUME U, wire' \in Seq(Record), NEW p \in {"send", "tail", "closed"},
             NEW s \in Nat, Progress(p, s), SentInv'
      PROVE  TypeInv'
  <2>1. client' \in [pc : {"idle", "send", "tail", "closed"}, len : Nat,
                    lvl : Levels, sent : Nat]
    BY <1>1 DEF Progress, TypeInv, TypeOK
  <2> QED BY <2>1, <1>1 DEF TypeInv, TypeOK, HandInv, progress, arrays
<1>2. ASSUME NEW k \in 1..CHUNK_SIZE, Write(k)
      PROVE  wire' \in Seq(Record)
  BY <1>2 DEF Write, TypeInv, TypeOK, Record
<1>3. client.len \in Nat /\ client.sent \in Nat
  BY DEF TypeInv, TypeOK
<1>4. CASE ClientChunk
  <2>1. wire' \in Seq(Record) /\ U
    BY <1>2, <1>4 DEF ClientChunk
  <2>2. Progress("send", client.sent + CHUNK_SIZE) /\ client.sent + CHUNK_SIZE \in Nat
    BY <1>3, <1>4 DEF ClientChunk
  <2>3. SentInv'
    BY <1>3, <1>4, <2>2 DEF ClientChunk, SentInv, Progress
  <2> QED BY <1>1, <2>1, <2>2, <2>3
<1>5. CASE ClientTail
  <2>1. client.sent <= client.len /\ U
    BY <1>5 DEF ClientTail, TypeInv, SentInv
  <2>2. CASE TailLen < CHUNK_SIZE
    <3>1. TailLen \in 1..CHUNK_SIZE /\ StreamLen \in Nat
      BY <1>3, <2>1, <2>2 DEF TailLen, StreamLen
    <3>2. wire' \in Seq(Record) /\ Progress("closed", StreamLen)
      BY <1>2, <1>5, <2>2, <3>1 DEF ClientTail
    <3>3. SentInv'
      BY <3>2 DEF SentInv, Progress
    <3> QED BY <1>1, <2>1, <3>1, <3>2, <3>3
  <2>3. CASE ~(TailLen < CHUNK_SIZE)
    <3>1. wire' \in Seq(Record) /\ Progress("tail", client.sent + CHUNK_SIZE)
      BY <1>2, <1>5, <2>3 DEF ClientTail
    <3>2. client.len - client.sent < CHUNK_SIZE
      BY <1>5 DEF ClientTail
    <3>3. SentInv'
      BY <1>3, <2>1, <2>3, <3>1, <3>2 DEF SentInv, Progress, TailLen, StreamLen
    <3> QED BY <1>1, <1>3, <2>1, <3>1, <3>3
  <2> QED BY <2>2, <2>3
<1>6. CASE ClientTail2
  <2>1. TailLen \in 0..CHUNK_SIZE /\ StreamLen \in Nat
    BY <1>3, <1>6 DEF ClientTail2, TypeInv, SentInv, TailLen, StreamLen
  <2>2. wire' \in Seq(Record)
    BY <1>2, <1>6, <2>1 DEF ClientTail2, TypeInv, TypeOK
  <2>3. Progress("closed", StreamLen) /\ U
    BY <1>6 DEF ClientTail2
  <2>4. SentInv'
    BY <2>3 DEF SentInv, Progress
  <2> QED BY <1>1, <2>1, <2>2, <2>3, <2>4
<1>7. CASE Disconnect
  <2>1. wire' \in Seq(Record)
    BY <1>7 DEF Disconnect, TypeInv, TypeOK
  <2>2. Progress("closed", client.sent) /\ U
    BY <1>7 DEF Disconnect
  <2>3. SentInv'
    BY <2>2 DEF SentInv, Progress
  <2> QED BY <1>1, <1>3, <2>1, <2>2, <2>3
<1> QED BY <1>4, <1>5, <1>6, <1>7 DEF Client

\* The type invariant, variable by variable.
LEMMA Types ==
  ASSUME TypeInv
  PROVE  /\ buffer \in [0..(CHUNK_SIZE - 1) -> Byte]
         /\ outmsg \in [0..(CHUNK_SIZE - 1) -> Byte]
         /\ tag \in [0..(2 * TAGSIZE - 1) -> Byte]
         /\ cx \in EDcontext /\ evp \in Seq(Byte) /\ file \in Seq(Byte)
         /\ n \in 0..CHUNK_SIZE /\ rx \in Nat /\ ct \in Nat /\ mode \in Nat
         /\ slevel \in Levels /\ client.len \in Nat /\ client.sent \in Nat
         /\ wire \in Seq(Record)
BY DEF TypeInv, TypeOK

\* The two fields of a mode byte.
LEMMA ModeFields ==
  ASSUME NEW m \in Nat
  PROVE  sbits(m) \in Levels /\ ibits(m) \in 0..15
BY DEF sbits, ibits, Levels

\* A record leaves the wire for the start of buffer.
Received ==
  /\ wire' \in Seq(Record) /\ rx' \in Nat /\ n' \in 1..CHUNK_SIZE
  /\ buffer' \in [0..(CHUNK_SIZE - 1) -> Byte]
  /\ SentInv'
  /\ UNCHANGED <<client, mode, slevel, verdict>>

\* A record read from the wire fits into buffer.
LEMMA ReceiveType ==
  ASSUME TypeInv, Receive
  PROVE  Received
<1>1. Head(wire) \in Record /\ wire' \in Seq(Record)
  BY DEF TypeInv, TypeOK, Receive
<1>2. rx' \in Nat /\ n' \in 1..CHUNK_SIZE
  BY <1>1, SizeFacts DEF Receive, Record
<1>3. buffer' \in [0..(CHUNK_SIZE - 1) -> Byte]
  BY <1>1, BytesFacts, MemcpyType, SizeFacts DEF Receive, TypeInv, TypeOK
<1> QED BY <1>1, <1>2, <1>3 DEF Receive, Received, TypeInv, SentInv, StreamLen, TailLen

\* What the decryptors write.
LEMMA OutputTypes ==
  ASSUME TypeInv
  PROVE  /\ \A k \in 0..TAGSIZE : HeldBack(k) \in Seq(Byte) /\ Waiting(k) \in Seq(Byte)
         /\ \A k \in 1..CHUNK_SIZE : Output(k) \in [0..(CHUNK_SIZE - 1) -> Byte]
<1> USE SizeFacts
<1>1. outmsg \in [0..(CHUNK_SIZE - 1) -> Byte]
  BY Types
<1>2. buffer \in [0..(CHUNK_SIZE - 1) -> Byte]
  BY Types
<1>3. tag \in [0..(2 * TAGSIZE - 1) -> Byte]
  BY Types
<1>4. ASSUME NEW k \in 0..TAGSIZE
      PROVE  HeldBack(k) \in Seq(Byte) /\ Waiting(k) \in Seq(Byte)
  <2>1. Slice(outmsg, CHUNK_SIZE - TAGSIZE, k) \in Seq(Byte)
    BY <1>1, SliceFacts
  <2>2. Slice(tag, 0, k) \in Seq(Byte)
    BY <1>3, SliceFacts
  <2> QED BY <2>1, <2>2 DEF HeldBack, Waiting
<1>5. ASSUME NEW k \in 1..CHUNK_SIZE
      PROVE  Output(k) \in [0..(CHUNK_SIZE - 1) -> Byte]
  <2> DEFINE d == Decrypted(cx, buffer, k, slevel, client.lvl)
  <2>1. \A i \in 1..k : buffer[i - 1] \in Byte
    BY <1>2
  <2>2. d \in Seq(Byte)
    BY <2>1 DEF Decrypted, Decrypt, Byte
  <2>3. Output(k) = IF Fetched THEN memcpy(outmsg, 0, d) ELSE outmsg
    BY DEF Output
  <2> HIDE DEF d
  <2>4. memcpy(outmsg, 0, d) \in [0..(CHUNK_SIZE - 1) -> Byte]
    BY <1>1, <2>2, MemcpyType
  <2> QED BY <1>1, <2>3, <2>4
<1> QED BY <1>4, <1>5

\* Bytes of an array are appended to the file, or kept as a possible tag.
LEMMA StoreType ==
  ASSUME TypeInv, NEW k \in 0..CHUNK_SIZE, Store(k), n > TAGSIZE,
         outmsg' \in [0..(CHUNK_SIZE - 1) -> Byte]
  PROVE  file' \in Seq(Byte) /\ tag' \in [0..(2 * TAGSIZE - 1) -> Byte]
<1> USE SizeFacts
<1>1. Slice(outmsg', 0, k) \in Seq(Byte)
  BY SliceFacts
<1>2. n \in 0..CHUNK_SIZE /\ n - TAGSIZE \in Nat
  BY Types
<1>3. buffer \in [0..(CHUNK_SIZE - 1) -> Byte]
  BY Types
<1>4. Slice(buffer, n - TAGSIZE, TAGSIZE) \in Seq(Byte)
  BY <1>2, <1>3, SliceFacts
<1>5. file \in Seq(Byte) /\ tag \in [0..(2 * TAGSIZE - 1) -> Byte]
  BY Types
<1>6. file' \in Seq(Byte)
  BY <1>1, <1>5 DEF Store
<1>7. tag' \in [0..(2 * TAGSIZE - 1) -> Byte]
  BY <1>4, <1>5, MemcpyType DEF Store
<1> QED BY <1>6, <1>7

\* Bytes go through the OpenSSL context.
LEMMA EvpType ==
  ASSUME TypeInv, NEW s \in Seq(Byte), EvpStore(s)
  PROVE  evp' \in Seq(Byte) /\ file' \in Seq(Byte)
<1> DEFINE d == [i \in 1..Len(s) |-> Decrypt(s[i], Len(evp) + i - 1, client.lvl = Level)]
<1>1. d \in Seq(Byte)
  BY DEF Decrypt, Byte
<1>2. file' = file \o d /\ evp' = evp \o s
  BY DEF EvpStore
<1>3. evp \in Seq(Byte) /\ file \in Seq(Byte)
  BY Types
<1> HIDE DEF d
<1> QED BY <1>1, <1>2, <1>3

\* The types that the steps of the server and the switch of mode disturb.
LEMMA ServerType ==
  ASSUME TypeInv, Server
  PROVE  TypeInv'
<1> USE SizeFacts
<1>1. CASE Choose
  BY <1>1 DEF Choose, TypeInv, TypeOK, SentInv, HandInv, StreamLen, TailLen,
              sender, arrays, progress, Points
<1>2. CASE InitLevel \/ UpdLevel
  <2>1. slevel' \in Levels
    BY <1>2, Types, ModeFields DEF InitLevel, UpdLevel, FetchLevel
  <2> QED BY <1>2, <2>1
          DEF InitLevel, UpdLevel, FetchLevel, TypeInv, TypeOK, SentInv, HandInv,
              StreamLen, TailLen, sender, arrays, progress, Points
<1>3. CASE InitIndex
  <2>1. slevel \in Int /\ Unset \in Int
    BY Types DEF Levels, Unset
  <2>2. cx' \in EDcontext
    BY <1>3, <2>1 DEF InitIndex, ed_init, NewContext, EDcontext
  <2>3. part' \in BOOLEAN /\ ct' \in Nat /\ spc' = "read"
    BY <1>3 DEF InitIndex
  <2> QED BY <1>3, <2>2, <2>3
          DEF InitIndex, TypeInv, TypeOK, SentInv, HandInv, StreamLen, TailLen,
              sender, arrays, Points
<1>4. CASE ReadData
  <2>1. Receive /\ n' > TAGSIZE /\ spc' = "upd_level"
    BY <1>4 DEF ReadData
  <2>2. part' \in BOOLEAN
    BY <1>4 DEF ReadData
  <2>3. file \in Seq(Byte) /\ HeldBack(TAGSIZE) \in Seq(Byte)
    BY Types, OutputTypes
  <2>4. file' \in Seq(Byte)
    BY <1>4, <2>3 DEF ReadData
  <2>u. Received /\ UNCHANGED <<ct, outmsg, tag, tp, cx, evp>>
    BY <1>4, <2>1, ReceiveType DEF ReadData
  <2> QED BY <2>1, <2>2, <2>4, <2>u
          DEF Received, TypeInv, TypeOK, HandInv, Points
<1>5. CASE ReadTail
  <2>1. Receive /\ n' <= TAGSIZE /\ spc' = "read" /\ part' \in BOOLEAN
    BY <1>5 DEF ReadTail
  <2>2. n' \in 1..TAGSIZE /\ buffer' \in [0..(CHUNK_SIZE - 1) -> Byte]
    BY <2>1, ReceiveType DEF Received
  <2>3. file \in Seq(Byte) /\ HeldBack(n') \in Seq(Byte)
    BY <2>2, Types, OutputTypes
  <2>4. file' \in Seq(Byte)
    BY <1>5, <2>3 DEF ReadTail
  <2>5. cx' \in EDcontext
    BY <1>5, <2>2, RetractType DEF ReadTail, TypeInv, TypeOK
  <2>6. Slice(buffer', 0, n') \in Seq(Byte)
    BY <2>2, SliceFacts
  <2>7. tag \in [0..(2 * TAGSIZE - 1) -> Byte]
    BY Types
  <2>8. tag' \in [0..(2 * TAGSIZE - 1) -> Byte]
    BY <1>5, <2>6, <2>7, MemcpyType DEF ReadTail
  <2>9. tp' \in 0..TAGSIZE
    BY <1>5, <2>2 DEF ReadTail
  <2>u. Received /\ UNCHANGED <<spc, ct, outmsg, evp>>
    BY <1>5, <2>1, ReceiveType DEF ReadTail
  <2> QED BY <2>1, <2>4, <2>5, <2>8, <2>9, <2>u
          DEF Received, TypeInv, TypeOK, HandInv, Points
<1>6. CASE UpdateFull \/ UpdatePart
  <2>1. n \in 0..CHUNK_SIZE /\ n > TAGSIZE
    BY <1>6, Types DEF UpdateFull, UpdatePart, TypeInv, HandInv
  <2>2. outmsg' \in [0..(CHUNK_SIZE - 1) -> Byte]
    BY <1>6, <2>1, OutputTypes DEF UpdateFull, UpdatePart
  <2>3. buffer \in [0..(CHUNK_SIZE - 1) -> Byte] /\ cx \in EDcontext
    BY Types
  <2>4. \A k \in 1..CHUNK_SIZE : dec_update(cx, buffer, k) \in EDcontext
    BY <2>3, UpdateType
  <2>5. cx' \in EDcontext
    BY <1>6, <2>1, <2>3, <2>4 DEF UpdateFull, UpdatePart
  <2>6. \/ Store(CHUNK_SIZE - TAGSIZE) \/ Store(n - TAGSIZE)
        \/ file' = file /\ tag' = tag
    BY <1>6 DEF UpdateFull, UpdatePart
  <2>7. file' \in Seq(Byte) /\ tag' \in [0..(2 * TAGSIZE - 1) -> Byte]
    <3>1. n - TAGSIZE \in 0..CHUNK_SIZE /\ CHUNK_SIZE - TAGSIZE \in 0..CHUNK_SIZE
      BY <2>1
    <3>2. CASE file' = file /\ tag' = tag
      BY <3>2, Types
    <3> QED BY <2>1, <2>2, <2>6, <3>1, <3>2, StoreType
  <2>8. ct' \in Nat /\ part' \in BOOLEAN /\ spc' \in {"read", "down"}
    BY <1>6, Types DEF UpdateFull, UpdatePart, progress, TypeInv, TypeOK
  <2> QED BY <1>6, <2>2, <2>5, <2>7, <2>8
          DEF UpdateFull, UpdatePart, TypeInv, TypeOK, SentInv, HandInv,
              StreamLen, TailLen, sender, progress, Points
<1>7. CASE ReadEnd
  <2>1. cx' \in EDcontext
    BY <1>7 DEF ReadEnd, FinalContext, EDcontext, TypeInv, TypeOK
  <2>2. verdict' \subseteq {"ok", "bad"}
    BY <1>7 DEF ReadEnd, Check, TypeInv, TypeOK
  <2> QED BY <1>7, <2>1, <2>2
          DEF ReadEnd, TypeInv, TypeOK, SentInv, HandInv, StreamLen, TailLen,
              sender, arrays, progress, Points
<1>8. CASE Choose0
  <2>1. evp' \in Seq(Byte) /\ ct' \in Nat /\ spc' \in {"nread", "saved"}
    <3>1. evp \in Seq(Byte) /\ ct \in Nat
      BY Types
    <3>2. CASE mode = 0
      BY <1>8, <3>2 DEF Choose0
    <3>3. CASE mode # 0
      BY <1>8, <3>1, <3>3 DEF Choose0
    <3> QED BY <3>2, <3>3
  <2> QED BY <1>8, <2>1 DEF Choose0, TypeInv, TypeOK, SentInv, HandInv, StreamLen, TailLen,
              sender, arrays, Points
<1>9. CASE NReadData
  <2>1. Receive /\ n' > TAGSIZE /\ spc' = "nread" /\ spc = "nread"
    BY <1>9 DEF NReadData
  <2>2. n' \in 1..CHUNK_SIZE /\ buffer' \in [0..(CHUNK_SIZE - 1) -> Byte]
    BY <2>1, ReceiveType DEF Received
  <2>3. Slice(buffer', 0, n' - TAGSIZE) \in Seq(Byte)
    BY <2>1, <2>2, SliceFacts
  <2>4. Slice(buffer', n' - TAGSIZE, TAGSIZE) \in Seq(Byte)
    BY <2>1, <2>2, SliceFacts
  <2>5. Waiting(TAGSIZE) \in Seq(Byte)
    BY OutputTypes
  <2>a. Waiting(TAGSIZE) \o Slice(buffer', 0, n' - TAGSIZE) \in Seq(Byte)
    BY <2>3, <2>5
  <2>b. EvpStore(Waiting(TAGSIZE) \o Slice(buffer', 0, n' - TAGSIZE))
    BY <1>9 DEF NReadData
  <2>6. evp' \in Seq(Byte) /\ file' \in Seq(Byte)
    BY <2>a, <2>b, EvpType
  <2>7. tag \in [0..(2 * TAGSIZE - 1) -> Byte]
    BY Types
  <2>8. tag' \in [0..(2 * TAGSIZE - 1) -> Byte]
    BY <1>9, <2>4, <2>7, MemcpyType DEF NReadData
  <2>9. ct' \in Nat /\ tp' \in 0..TAGSIZE
    BY <1>9, Types DEF NReadData
  <2>u. Received /\ UNCHANGED <<spc, part, outmsg, cx>>
    BY <1>9, <2>1, ReceiveType DEF NReadData
  <2> QED BY <2>1, <2>6, <2>8, <2>9, <2>u
          DEF Received, TypeInv, TypeOK, HandInv, Points
<1>10. CASE NReadTail
  <2>1. Receive /\ n' <= TAGSIZE /\ spc' = "nread" /\ spc = "nread"
    BY <1>10 DEF NReadTail
  <2>2. n' \in 1..TAGSIZE /\ buffer' \in [0..(CHUNK_SIZE - 1) -> Byte]
    BY <2>1, ReceiveType DEF Received
  <2>3. Slice(buffer', 0, n') \in Seq(Byte)
    BY <2>1, <2>2, SliceFacts
  <2>4. Waiting(n') \in Seq(Byte)
    BY <2>2, OutputTypes
  <2>5. evp' \in Seq(Byte) /\ file' \in Seq(Byte)
    BY <1>10, <2>4, EvpType DEF NReadTail
  <2>6. tag \in [0..(2 * TAGSIZE - 1) -> Byte]
    BY Types
  <2>7. tag' \in [0..(2 * TAGSIZE - 1) -> Byte]
    BY <1>10, <2>3, <2>6, MemcpyType DEF NReadTail
  <2>8. tp' \in 0..TAGSIZE
    BY <1>10, <2>2 DEF NReadTail
  <2>u. Received /\ UNCHANGED <<spc, ct, part, outmsg, cx>>
    BY <1>10, <2>1, ReceiveType DEF NReadTail
  <2> QED BY <2>1, <2>5, <2>7, <2>8, <2>u
          DEF Received, TypeInv, TypeOK, HandInv, Points
<1>11. CASE NReadEnd
  <2>1. verdict' \subseteq {"ok", "bad"}
    BY <1>11 DEF NReadEnd, Check, TypeInv, TypeOK
  <2> QED BY <1>11, <2>1
          DEF NReadEnd, TypeInv, TypeOK, SentInv, HandInv, StreamLen, TailLen,
              sender, arrays, progress, Points
<1>12. CASE Close
  <2>1. client' \in [pc : {"idle", "send", "tail", "closed"}, len : Nat,
                    lvl : Levels, sent : Nat]
    BY <1>12 DEF Close, Progress, TypeInv, TypeOK
  <2>2. client'.pc = "idle" /\ wire' \in Seq(Record)
    BY <1>12 DEF Close, Progress
  <2> QED BY <1>12, <2>1, <2>2
          DEF Close, TypeInv, TypeOK, SentInv, HandInv, arrays, progress, Points
<1> QED BY <1>1, <1>2, <1>3, <1>4, <1>5, <1>6, <1>7, <1>8, <1>9, <1>10, <1>11, <1>12
        DEF Server

\* A new client leaves every variable in its type.
LEMMA HandshakeType ==
  ASSUME TypeInv, NEW size \in FileSizes, NEW lvl \in ClientLevels, Handshake(size, lvl)
  PROVE  TypeInv'
<1>1. client' \in [pc : {"idle", "send", "tail", "closed"}, len : Nat,
                  lvl : Levels, sent : Nat]
  BY ParameterAssumption DEF Handshake
<1>2. SentInv'
  BY ParameterAssumption DEF Handshake, SentInv
<1>3. Blank(CHUNK_SIZE) \in [0..(CHUNK_SIZE - 1) -> Byte]
  BY BlankType, SizeFacts
<1>4. Blank(2 * TAGSIZE) \in [0..(2 * TAGSIZE - 1) -> Byte]
  BY BlankType, SizeFacts
<1>5. NewContext(Unset) \in EDcontext
  BY DEF NewContext, EDcontext, Unset, Byte
<1>6. evp' \in Seq(Byte) /\ file' \in Seq(Byte) /\ wire' \in Seq(Record)
  BY Types DEF Handshake
<1>7. tp' \in 0..TAGSIZE /\ rx' \in Nat /\ spc' = "choose" /\ verdict' = {}
  BY SizeFacts DEF Handshake
<1> QED BY <1>1, <1>2, <1>3, <1>4, <1>5, <1>6, <1>7
        DEF Handshake, TypeInv, TypeOK, HandInv, Points, progress

\* Every step keeps the type invariant.
LEMMA NextType == TypeInv /\ [Next]_vars => TypeInv'
<1> SUFFICES ASSUME TypeInv, [Next]_vars PROVE TypeInv'
  OBVIOUS
<1>1. ASSUME NEW m \in Modes, signal_handler(m) PROVE TypeInv'
  BY <1>1, ParameterAssumption
     DEF signal_handler, TypeInv, TypeOK, SentInv, HandInv, StreamLen, TailLen,
         sender, arrays, progress
<1>2. CASE UNCHANGED vars
  BY <1>2 DEF vars, TypeInv, TypeOK, SentInv, HandInv, StreamLen, TailLen
<1> QED BY <1>1, <1>2, ClientType, ServerType, HandshakeType DEF Next

\* Whatever modes are sent, every variable keeps its type: createserver never
\* appends to the file or hashes a byte from outside one of its arrays, and no
\* record is longer than the buffer it is read into.
THEOREM TypeCorrect == Spec => []TypeOK
<1>1. TypeInv => TypeOK
  BY DEF TypeInv
<1> QED BY <1>1, InitType, NextType, PTL DEF Spec

------------------------------------------------------------------------------
(***************************************************************************)
(* The inductive invariant of TransferInvariant, and what follows from it, *)
(* for every port, library and set of modes that satisfy Safe.             *)
(***************************************************************************)

\* The wire, whatever the modes.

\* A record written by the client continues the stream.
LEMMA WriteWire ==
  ASSUME TypeInv, WireInv, NEW k \in 1..CHUNK_SIZE, Write(k),
         NEW p \in {"send", "tail", "closed"}, Progress(p, client.sent + k),
         client.pc \in {"send", "tail"}, client.sent + k <= StreamLen,
         k = CHUNK_SIZE \/ client.sent + k = StreamLen,
         UNCHANGED <<rx, spc>>
  PROVE  WireInv'
<1> DEFINE r == [off |-> client.sent, len |-> k]
<1>1. /\ wire \in Seq(Record) /\ client.sent \in Nat /\ rx \in Nat
      /\ client.len \in Nat /\ TAGSIZE \in Nat
  BY Types, SizeFacts
<1>2. r \in Record /\ wire' = Append(wire, r)
  BY <1>1 DEF Record, Write
<1>3. /\ Len(wire') = Len(wire) + 1 /\ wire' # <<>>
      /\ \A i \in 1..Len(wire) : wire'[i] = wire[i]
      /\ wire'[Len(wire) + 1] = r
  BY <1>1, <1>2
<1>4. /\ client'.pc = p /\ client'.len = client.len /\ client'.sent = client.sent + k
      /\ StreamLen' = StreamLen
  BY DEF Progress, StreamLen
<1>5. wire = <<>> <=> Len(wire) = 0
  BY <1>1
<1>6. client.sent = IF wire = <<>> THEN rx ELSE wire[Len(wire)].off + wire[Len(wire)].len
  BY DEF WireInv, End
<1>7. ASSUME NEW i \in 1..Len(wire') PROVE RecordInv(i)'
  <2>1. CASE i <= Len(wire)
    <3>1. i \in 1..Len(wire) /\ (i # 1 => i - 1 \in 1..Len(wire))
      BY <1>1, <1>3, <2>1
    <3>2. wire'[i] = wire[i] /\ (i # 1 => wire'[i - 1] = wire[i - 1])
      BY <1>3, <3>1
    <3>3. RecordInv(i)
      BY <3>1 DEF WireInv
    <3> QED BY <1>4, <3>2, <3>3 DEF RecordInv, End
  <2>2. CASE i = Len(wire) + 1
    <3>1. wire'[i] = r /\ (i # 1 => wire'[i - 1] = wire[Len(wire)])
      BY <1>1, <1>3, <2>2
    <3>2. i = 1 <=> wire = <<>>
      BY <1>1, <1>5, <2>2
    <3> QED BY <1>1, <1>4, <1>6, <3>1, <3>2 DEF RecordInv, End
  <2> QED BY <1>1, <1>3, <2>1, <2>2
<1>8. client'.sent = IF wire' = <<>> THEN rx' ELSE End(Len(wire))'
  BY <1>1, <1>3, <1>4 DEF End
<1>9. rx' <= StreamLen' /\ client'.pc # "idle" /\ client.pc # "idle"
  BY <1>4 DEF WireInv
<1> QED BY <1>7, <1>8, <1>9 DEF WireInv

\* Reading the first record leaves the rest of the stream in order.
LEMMA ReceiveWire ==
  ASSUME TypeInv, WireInv, Receive, spc # "accept", spc' # "accept"
  PROVE  /\ WireInv'
         /\ rx' = rx + n' /\ rx' <= StreamLen
         /\ n' = CHUNK_SIZE \/ rx' = StreamLen
<1>1. wire \in Seq(Record) /\ rx \in Nat /\ wire # <<>> /\ wire' = Tail(wire)
  BY Types DEF Receive
<1>a. /\ Len(wire) \in Nat /\ Len(wire) >= 1
      /\ Head(wire) = wire[1] /\ wire[1] \in Record
  BY <1>1
<1>b. /\ wire' \in Seq(Record) /\ Len(wire') = Len(wire) - 1
      /\ \A i \in 1..Len(wire') : wire'[i] = wire[i + 1]
  BY <1>1, <1>a
<1>c. wire' = <<>> <=> Len(wire') = 0
  BY <1>b
<1>2. /\ Len(wire) >= 1 /\ Head(wire) = wire[1] /\ wire[1] \in Record
      /\ Len(wire') = Len(wire) - 1
      /\ \A i \in 1..Len(wire') : wire'[i] = wire[i + 1]
      /\ wire' = <<>> <=> Len(wire') = 0
  BY <1>a, <1>b, <1>c
<1>3. RecordInv(1) /\ wire[1].off \in Nat /\ wire[1].len \in Nat
  <2>1. 1 \in 1..Len(wire)
    BY <1>a
  <2>2. RecordInv(1)
    BY <2>1 DEF WireInv
  <2>3. wire[1].off \in Nat /\ wire[1].len \in Nat
    BY <1>a DEF Record
  <2> QED BY <2>2, <2>3
<1>4. rx' = wire[1].off + wire[1].len /\ n' = wire[1].len /\ client' = client
  BY <1>2 DEF Receive
<1>5. StreamLen' = StreamLen /\ StreamLen \in Nat
  BY <1>4, Types, SizeFacts DEF StreamLen
<1>6. rx' = rx + n' /\ rx' <= StreamLen /\ (n' = CHUNK_SIZE \/ rx' = StreamLen)
  BY <1>1, <1>3, <1>4 DEF RecordInv, End
<1>7. ASSUME NEW i \in 1..Len(wire') PROVE RecordInv(i)'
  <2>1. i + 1 \in 1..Len(wire) /\ i + 1 # 1 /\ (i + 1) - 1 = i
    BY <1>1, <1>2
  <2>2. RecordInv(i + 1)
    BY <2>1 DEF WireInv
  <2>3. wire[i + 1].off = wire[i].off + wire[i].len
    BY <2>1, <2>2 DEF RecordInv, End
  <2>4. wire'[i] = wire[i + 1]
    BY <1>2
  <2>5. i # 1 => wire'[i - 1] = wire[i]
    BY <1>1, <1>2, <2>1
  <2> QED BY <1>4, <1>5, <2>2, <2>3, <2>4, <2>5 DEF RecordInv, End
<1>8. client.sent = wire[Len(wire)].off + wire[Len(wire)].len
        \/ client.pc \notin {"send", "tail"}
  BY <1>1 DEF WireInv, End
<1>9. client'.pc \in {"send", "tail"} =>
         client'.sent = IF wire' = <<>> THEN rx' ELSE End(Len(wire))'
  <2>1. CASE wire' = <<>>
    <3>1. Len(wire) = 1
      BY <1>1, <1>2, <2>1
    <3> QED BY <1>4, <1>8, <2>1, <3>1
  <2>2. CASE wire' # <<>>
    <3>1. Len(wire') \in 1..Len(wire') /\ Len(wire') + 1 = Len(wire)
      BY <1>1, <1>2, <2>2
    <3>2. wire'[Len(wire')] = wire[Len(wire)]
      BY <1>2, <3>1
    <3> QED BY <1>4, <1>8, <2>2, <3>2 DEF End
  <2> QED BY <2>1, <2>2
<1>10. client'.pc # "idle"
  BY <1>4 DEF WireInv
<1> QED BY <1>5, <1>6, <1>7, <1>9, <1>10 DEF WireInv

\* So does losing the last records when the connection breaks.
LEMMA DisconnectWire ==
  ASSUME TypeInv, WireInv, Disconnect
  PROVE  WireInv'
<1>1. wire \in Seq(Record) /\ rx \in Nat
  BY Types
<1>2. PICK k \in 0..Len(wire) : wire' = SubSeq(wire, 1, k)
  BY DEF Disconnect
<1>3. Len(wire') = k /\ \A i \in 1..k : wire'[i] = wire[i]
  BY <1>1, <1>2
<1>4. /\ client'.pc = "closed" /\ client'.len = client.len /\ client.pc # "idle"
      /\ UNCHANGED <<rx, spc>> /\ StreamLen' = StreamLen
  BY DEF Disconnect, Progress, StreamLen
<1>5. ASSUME NEW i \in 1..Len(wire') PROVE RecordInv(i)'
  <2>1. i \in 1..Len(wire) /\ i \in 1..k /\ (i # 1 => i - 1 \in 1..k)
    BY <1>1, <1>3
  <2>2. wire'[i] = wire[i] /\ (i # 1 => wire'[i - 1] = wire[i - 1])
    BY <1>3, <2>1
  <2>3. RecordInv(i)
    BY <2>1 DEF WireInv
  <2> QED BY <1>4, <2>2, <2>3 DEF RecordInv, End
<1> QED BY <1>4, <1>5 DEF WireInv

\* Steps that leave the wire, the client and the position alone.
LEMMA SameWire ==
  ASSUME WireInv, UNCHANGED <<client, wire, rx>>,
         spc = "accept" <=> spc' = "accept"
  PROVE  WireInv'
BY DEF WireInv, RecordInv, End, StreamLen

\* Every step keeps the wire in order.
LEMMA NextWire == TypeInv /\ WireInv /\ [Next]_vars => WireInv'
<1> SUFFICES ASSUME TypeInv, WireInv, [Next]_vars PROVE WireInv'
  OBVIOUS
<1> USE SizeFacts
<1>0. client.len \in Nat /\ client.sent \in Nat
  BY Types
<1>1. ASSUME NEW size \in FileSizes, NEW lvl \in ClientLevels, Handshake(size, lvl)
      PROVE  WireInv'
  <2>1. /\ wire = <<>> /\ wire' = <<>> /\ rx' = 0 /\ spc' = "choose"
        /\ client'.pc = "send" /\ client'.sent = 0 /\ StreamLen' = size + TAGSIZE
    BY <1>1 DEF Handshake, WireInv, StreamLen
  <2> QED BY <2>1, ParameterAssumption DEF WireInv
<1>2. CASE ClientChunk
  <2>1. /\ Write(CHUNK_SIZE) /\ Progress("send", client.sent + CHUNK_SIZE)
        /\ client.pc = "send" /\ UNCHANGED <<rx, spc>>
    BY <1>2 DEF ClientChunk
  <2>2. client.sent + CHUNK_SIZE <= StreamLen
    BY <1>0, <1>2 DEF ClientChunk, StreamLen
  <2> QED BY <2>1, <2>2, WriteWire
<1>3. CASE ClientTail
  <2>1. /\ client.pc = "send" /\ client.sent <= client.len
        /\ client.len - client.sent < CHUNK_SIZE /\ UNCHANGED <<rx, spc>>
    BY <1>3 DEF ClientTail, TypeInv, SentInv
  <2>2. CASE TailLen < CHUNK_SIZE
    <3>1. TailLen \in 1..CHUNK_SIZE /\ client.sent + TailLen = StreamLen
      BY <1>0, <2>1, <2>2 DEF TailLen, StreamLen
    <3>2. StreamLen <= StreamLen
      BY <1>0 DEF StreamLen
    <3>3. Write(TailLen) /\ Progress("closed", client.sent + TailLen)
      BY <1>3, <2>2, <3>1 DEF ClientTail
    <3> QED BY <2>1, <3>1, <3>2, <3>3, WriteWire
  <2>3. CASE ~(TailLen < CHUNK_SIZE)
    <3>1. Write(CHUNK_SIZE) /\ Progress("tail", client.sent + CHUNK_SIZE)
      BY <1>3, <2>3 DEF ClientTail
    <3>2. client.sent + CHUNK_SIZE <= StreamLen
      BY <1>0, <2>3 DEF TailLen, StreamLen
    <3> QED BY <2>1, <3>1, <3>2, WriteWire
  <2> QED BY <2>2, <2>3
<1>4. CASE ClientTail2
  <2>1. /\ client.pc = "tail" /\ TailLen < TAGSIZE /\ client.sent <= StreamLen
        /\ Progress("closed", StreamLen) /\ UNCHANGED <<rx, spc>>
    BY <1>4 DEF ClientTail2, TypeInv, SentInv
  <2>2. CASE TailLen > 0
    <3>1. TailLen \in 1..CHUNK_SIZE /\ client.sent + TailLen = StreamLen
      BY <1>0, <2>1, <2>2 DEF TailLen, StreamLen
    <3>2. StreamLen <= StreamLen
      BY <1>0 DEF StreamLen
    <3>3. Write(TailLen)
      BY <1>4, <2>2 DEF ClientTail2
    <3> QED BY <2>1, <3>1, <3>2, <3>3, WriteWire
  <2>3. CASE ~(TailLen > 0)
    <3>1. /\ wire' = wire /\ client'.pc = "closed" /\ client.pc # "idle"
          /\ StreamLen' = StreamLen
      BY <1>4, <2>1, <2>3 DEF ClientTail2, Progress, StreamLen
    <3> QED BY <2>1, <3>1 DEF WireInv, RecordInv, End
  <2> QED BY <2>2, <2>3
<1>5. ASSUME NEW m \in Modes, signal_handler(m) PROVE WireInv'
  BY <1>5, SameWire DEF signal_handler, sender
<1>6. CASE ReadData \/ ReadTail \/ NReadData \/ NReadTail
  <2>1. Receive /\ spc # "accept" /\ spc' # "accept"
    BY <1>6 DEF ReadData, ReadTail, NReadData, NReadTail
  <2> QED BY <2>1, ReceiveWire
<1>7. CASE Close
  BY <1>7, <1>0 DEF Close, Progress, WireInv, StreamLen
<1>8. CASE Choose \/ InitLevel \/ InitIndex \/ UpdLevel \/ UpdateFull \/ UpdatePart
           \/ ReadEnd \/ Choose0 \/ NReadEnd
  <2>1. UNCHANGED <<client, wire, rx>> /\ spc # "accept" /\ spc' # "accept"
    BY <1>8 DEF Choose, InitLevel, InitIndex, UpdLevel, FetchLevel, UpdateFull,
                UpdatePart, ReadEnd, Choose0, NReadEnd, sender
  <2> QED BY <2>1, SameWire
<1>9. CASE UNCHANGED vars
  BY <1>9, SameWire DEF vars
<1> QED BY <1>1, <1>2, <1>3, <1>4, <1>5, <1>6, <1>7, <1>8, <1>9, DisconnectWire
        DEF Next, Client, Server

------------------------------------------------------------------------------
\* The mode.

\* A disciplined mode that is not 0 selects a backend of the port.
LEMMA OwnMode ==
  ASSUME Safe, ModeInv, mode # 0
  PROVE  sbits(mode) = Level /\ <<Level, ibits(mode)>> \in Lib
BY DEF Safe, Disciplined, ModeInv, OwnBackend

\* So the backend is always found.
LEMMA AlwaysFetched ==
  ASSUME Safe, ModeInv, spc \in {"init_index", "upd_index"}
  PROVE  Fetched /\ slevel = Level /\ mode # 0
<1>1. slevel = Level /\ mode # 0
  BY DEF ModeInv, BackendPoints
<1> QED BY <1>1, OwnMode DEF Fetched

\* A mode that arrives during a transfer is not 0, and neither is the one it
\* replaces.
LEMMA SwitchNotNative ==
  ASSUME Safe, ModeInv, NEW m \in Modes, signal_handler(m), spc # "accept"
  PROVE  m # 0 /\ mode # 0
BY DEF Safe, Disciplined, ModeInv, signal_handler

\* Every step keeps the mode one that Safe allows at the point reached.
LEMMA NextMode ==
  ASSUME Safe, TypeInv, ModeInv, [Next]_vars
  PROVE  ModeInv'
<1>1. ASSUME NEW size \in FileSizes, NEW lvl \in ClientLevels, Handshake(size, lvl)
      PROVE  ModeInv'
  BY <1>1 DEF Handshake, ModeInv, BackendPoints, Safe
<1>2. CASE Client \/ Disconnect
  BY <1>2 DEF Client, ClientChunk, ClientTail, ClientTail2, Disconnect, Progress,
              ModeInv, BackendPoints
<1>3. ASSUME NEW m \in Modes, signal_handler(m) PROVE ModeInv'
  <2>1. CASE spc = "accept"
    BY <1>3, <2>1 DEF signal_handler, ModeInv, BackendPoints, sender
  <2>2. CASE spc # "accept"
    BY <1>3, <2>2, SwitchNotNative DEF signal_handler, ModeInv, BackendPoints, sender
  <2> QED BY <2>1, <2>2
<1>4. CASE Choose
  BY <1>4 DEF Choose, ModeInv, BackendPoints, sender
<1>5. CASE InitLevel \/ UpdLevel
  <2>1. mode # 0
    BY <1>5 DEF InitLevel, UpdLevel, FetchLevel, ModeInv, BackendPoints
  <2> QED BY <1>5, <2>1, OwnMode
          DEF InitLevel, UpdLevel, FetchLevel, ModeInv, BackendPoints, sender
<1>6. CASE InitIndex
  BY <1>6 DEF InitIndex, ModeInv, BackendPoints, sender
<1>7. CASE ReadData \/ ReadTail \/ NReadData \/ NReadTail
  <2>1. /\ UNCHANGED <<client, mode, slevel>>
        /\ \/ spc = "read" /\ spc' \in {"read", "upd_level"}
           \/ spc = "nread" /\ spc' = "nread"
    BY <1>7 DEF ReadData, ReadTail, NReadData, NReadTail, Receive
  <2> QED BY <2>1 DEF ModeInv, BackendPoints
<1>8. CASE UpdateFull \/ UpdatePart \/ ReadEnd
  <2>1. /\ UNCHANGED <<client, mode, slevel>>
        /\ spc \in {"read", "upd_index"} /\ spc' \in {"read", "down", "choose0"}
    BY <1>8 DEF UpdateFull, UpdatePart, ReadEnd, sender
  <2> QED BY <2>1 DEF ModeInv, BackendPoints
<1>9. CASE Choose0 \/ NReadEnd \/ Close
  BY <1>9 DEF Choose0, NReadEnd, Close, Progress, ModeInv, BackendPoints, sender
<1>10. CASE UNCHANGED vars
  BY <1>10 DEF vars, ModeInv
<1> QED BY <1>1, <1>2, <1>3, <1>4, <1>5, <1>6, <1>7, <1>8, <1>9, <1>10
        DEF Next, Server

------------------------------------------------------------------------------
\* Facts about bytes in order.

\* Bytes that continue an ordered sequence keep it in order.
LEMMA AppendInOrder ==
  ASSUME NEW s \in Seq(Byte), NEW t \in Seq(Byte), InOrder(s),
         \A i \in 1..Len(t) : t[i] = Len(s) + i - 1
  PROVE  /\ s \o t \in Seq(Byte) /\ Len(s \o t) = Len(s) + Len(t)
         /\ InOrder(s \o t)
BY DEF InOrder

\* The new record lies at the start of buffer, older bytes behind it.
LEMMA ReceiveBuffer ==
  ASSUME TypeInv, Receive, NEW k \in Nat, n' = k, NEW off \in Nat, rx' = off + k
  PROVE  /\ Holds(buffer', 0, k, off)
         /\ \A j \in k..(CHUNK_SIZE - 1) : buffer'[j] = buffer[j]
<1>1. wire \in Seq(Record) /\ wire # <<>> /\ Head(wire) \in Record
  BY Types DEF Receive
<1> DEFINE r == Head(wire)
<1>2. /\ Bytes(r) \in Seq(Byte) /\ Len(Bytes(r)) = r.len
      /\ \A i \in 1..r.len : Bytes(r)[i] = r.off + i - 1
      /\ r.len \in 1..CHUNK_SIZE /\ r.off \in Nat
  BY <1>1, BytesFacts DEF Record
<1>3. buffer \in [0..(CHUNK_SIZE - 1) -> Byte]
  BY Types
<1>4. /\ buffer' = memcpy(buffer, 0, Bytes(r)) /\ k = r.len /\ off + k = r.off + r.len
  BY DEF Receive
<1> HIDE DEF r
<1>5. off = r.off
  <2>1. r.off \in Nat /\ off + k = r.off + k
    BY <1>2, <1>4
  <2> QED BY <2>1
<1> QED BY <1>2, <1>3, <1>4, <1>5, SizeFacts DEF memcpy, Holds

\* A tag split in two: its last k bytes come in a record of their own, the
\* others are at the end of the bytes kept before.
LEMMA SplitTag ==
  ASSUME NEW t \in [0..(2 * TAGSIZE - 1) -> Byte], NEW k \in 1..TAGSIZE,
         NEW s \in Seq(Byte), Len(s) = k, NEW off \in Nat,
         \A i \in 1..k : s[i] = off + i - 1,
         k < TAGSIZE => Holds(t, 0, TAGSIZE, off - TAGSIZE)
  PROVE  TagOfFile(memcpy(t, TAGSIZE, s), k, off + k - TAGSIZE)
<1> USE SizeFacts
<1> SUFFICES ASSUME NEW i \in 0..(TAGSIZE - 1)
             PROVE  memcpy(t, TAGSIZE, s)[k + i] = off + k - TAGSIZE + i
  BY DEF TagOfFile
<1>1. CASE k + i < TAGSIZE
  BY <1>1 DEF memcpy, Holds
<1>2. CASE k + i >= TAGSIZE
  <2>1. memcpy(t, TAGSIZE, s)[k + i] = s[k + i - TAGSIZE + 1]
    BY <1>2 DEF memcpy
  <2> QED BY <1>2, <2>1
<1> QED BY <1>1, <1>2

\* A ciphertext absorbed in order and completed to a block is the hash of the
\* file.
LEMMA PaddedHash ==
  ASSUME NEW q \in Seq(Byte), InOrder(q), NEW m \in 0..(TAGSIZE - 1)
  PROVE  HashOfFile(q \o Pads(m), Len(q))
<1> DEFINE p == Pads(m)
           l == Len(q)
<1>1. p \in Seq(Byte) /\ Len(p) = m /\ \A i \in 1..m : p[i] = Pad
  BY DEF Pads, Byte
<1>2. l \in Nat /\ l = Len(q)
  OBVIOUS
<1> HIDE DEF p, l
<1>3. Len(q \o p) = l + m
  BY <1>1, <1>2
<1>4. ASSUME NEW i \in 1..(l + m)
      PROVE  (q \o p)[i] = IF i <= l THEN i - 1 ELSE Pad
  <2>1. CASE i <= l
    <3>1. (q \o p)[i] = q[i]
      BY <1>1, <1>2, <2>1
    <3> QED BY <1>2, <2>1, <3>1 DEF InOrder
  <2>2. CASE i > l
    <3>1. (q \o p)[i] = p[i - l] /\ i - l \in 1..m
      BY <1>1, <1>2, <2>2
    <3>2. ~(i <= l)
      BY <1>2, <2>2
    <3> QED BY <1>1, <3>1, <3>2
  <2>3. i <= l \/ i > l
    BY <1>2, SizeFacts
  <2> QED BY <2>1, <2>2, <2>3
<1> QED BY <1>2, <1>3, <1>4, SizeFacts DEF HashOfFile, p, l

\* The file, in the words of InOrder.
LEMMA FileFacts ==
  FileInv <=> Len(file) <= client.len /\ InOrder(file) /\ Len(file) <= rx
BY DEF FileInv, FilePrefix, InOrder

------------------------------------------------------------------------------
\* The server, one lemma per step that moves bytes.

\* What a record of k bytes still to come says about the state before it: the
\* stream is not complete.
LEMMA ReadBefore ==
  ASSUME TypeInv, WireInv, spc = "read", ServerInv, Receive, spc' # "accept"
  PROVE  /\ ~part /\ rx \in Nat /\ client.len \in Nat /\ ct \in Nat /\ tp = 0
         /\ Absorbed(rx)
         /\ \E k \in 1..CHUNK_SIZE :
              /\ n' = k /\ rx' = rx + k /\ rx + k <= client.len + TAGSIZE
              /\ k = CHUNK_SIZE \/ rx + k = client.len + TAGSIZE
         /\ \/ ct = 0 /\ Fresh
            \/ /\ ct > 0 /\ rx >= CHUNK_SIZE /\ Len(file) = rx - TAGSIZE
               /\ Len(cx.paccum) = rx - TAGSIZE /\ InOrder(cx.paccum)
               /\ Holds(outmsg, CHUNK_SIZE - TAGSIZE, TAGSIZE, rx - TAGSIZE)
               /\ Holds(buffer, CHUNK_SIZE - TAGSIZE, TAGSIZE, rx - TAGSIZE)
               /\ Holds(tag, 0, TAGSIZE, rx - TAGSIZE)
<1>1. rx \in Nat /\ client.len \in Nat /\ ct \in Nat
  BY Types
<1>2. PICK k \in 1..CHUNK_SIZE : n' = k
  BY ReceiveType DEF Received
<1>3. rx' = rx + k /\ rx + k <= StreamLen /\ (k = CHUNK_SIZE \/ rx + k = StreamLen)
  BY <1>2, ReceiveWire
<1>4. StreamLen = client.len + TAGSIZE /\ rx # StreamLen
  BY <1>1, <1>3, SizeFacts DEF StreamLen
<1>5. ReadInv /\ ~Complete
  BY <1>4 DEF ServerInv, Complete
<1>6. Fresh => rx = 0 /\ tp = 0
  BY DEF Fresh
<1>7. ~part /\ Absorbed(rx) /\ tp = 0
  BY <1>5, <1>6 DEF ReadInv
<1>8. \/ ct = 0 /\ Fresh
      \/ /\ ct > 0 /\ rx >= CHUNK_SIZE /\ Len(file) = rx - TAGSIZE
         /\ Len(cx.paccum) = rx - TAGSIZE /\ InOrder(cx.paccum)
         /\ Holds(outmsg, CHUNK_SIZE - TAGSIZE, TAGSIZE, rx - TAGSIZE)
         /\ Holds(buffer, CHUNK_SIZE - TAGSIZE, TAGSIZE, rx - TAGSIZE)
         /\ Holds(tag, 0, TAGSIZE, rx - TAGSIZE)
  BY <1>5 DEF ReadInv
<1> QED BY <1>1, <1>2, <1>3, <1>4, <1>7, <1>8

\* The held-back bytes that turn out to be data continue the file.
LEMMA HeldBackFacts ==
  ASSUME TypeInv, FileInv, NEW k \in 0..TAGSIZE,
         \/ ct = 0 /\ Fresh
         \/ /\ ct > 0 /\ rx >= CHUNK_SIZE /\ Len(file) = rx - TAGSIZE
            /\ Holds(outmsg, CHUNK_SIZE - TAGSIZE, TAGSIZE, rx - TAGSIZE)
  PROVE  /\ InOrder(file \o HeldBack(k))
         /\ Len(file \o HeldBack(k)) = IF ct = 0 THEN 0 ELSE rx - TAGSIZE + k
<1> USE SizeFacts
<1>1. file \in Seq(Byte) /\ rx \in Nat /\ ct \in Nat
  BY Types
<1>2. InOrder(file)
  BY FileFacts
<1>3. CASE ct = 0
  <2>1. file = <<>> /\ HeldBack(k) = <<>>
    BY <1>3 DEF HeldBack, Fresh
  <2> QED BY <1>3, <2>1 DEF InOrder
<1>4. CASE ct > 0
  <2>1. outmsg \in [0..(CHUNK_SIZE - 1) -> Byte]
    BY Types
  <2>2. HeldBack(k) = Slice(outmsg, CHUNK_SIZE - TAGSIZE, k)
    BY <1>4 DEF HeldBack
  <2> DEFINE h == Slice(outmsg, CHUNK_SIZE - TAGSIZE, k)
  <2>3. /\ h \in Seq(Byte) /\ Len(h) = k
        /\ \A i \in 1..k : h[i] = outmsg[CHUNK_SIZE - TAGSIZE + i - 1]
    <3>1. CHUNK_SIZE - TAGSIZE \in Nat /\ k \in Nat /\ CHUNK_SIZE - TAGSIZE + k <= CHUNK_SIZE
      OBVIOUS
    <3> QED BY <2>1, <3>1 DEF Slice
  <2> HIDE DEF h
  <2>4. Len(file) = rx - TAGSIZE
    BY <1>1, <1>4
  <2>5. \A i \in 1..Len(h) : h[i] = Len(file) + i - 1
    <3> SUFFICES ASSUME NEW i \in 1..k PROVE h[i] = Len(file) + i - 1
      BY <2>3
    <3>1. i - 1 \in 0..(TAGSIZE - 1)
      OBVIOUS
    <3>2. outmsg[CHUNK_SIZE - TAGSIZE + (i - 1)] = rx - TAGSIZE + (i - 1)
      <4>1. ct # 0
        BY <1>1, <1>4
      <4>2. Holds(outmsg, CHUNK_SIZE - TAGSIZE, TAGSIZE, rx - TAGSIZE)
        BY <4>1
      <4> QED BY <3>1, <4>2 DEF Holds
    <3>3. CHUNK_SIZE - TAGSIZE + (i - 1) = CHUNK_SIZE - TAGSIZE + i - 1
      OBVIOUS
    <3> QED BY <1>1, <2>3, <2>4, <3>2, <3>3
  <2>6. InOrder(file \o h) /\ Len(file \o h) = Len(file) + k
    BY <1>1, <1>2, <2>3, <2>5, AppendInOrder
  <2> QED BY <1>1, <1>4, <2>2, <2>4, <2>6 DEF h
<1> QED BY <1>1, <1>3, <1>4

\* A record with data in it: the bytes held back before it are data.
LEMMA ReadDataSafe ==
  ASSUME TypeInv, WireInv, FileInv, ServerInv, ReadData
  PROVE  FileInv' /\ ServerInv'
<1> USE SizeFacts
<1>1. /\ Receive /\ n' > TAGSIZE /\ spc = "read" /\ spc' = "upd_level"
      /\ file' = file \o HeldBack(TAGSIZE) /\ part' = (part \/ n' # CHUNK_SIZE)
      /\ UNCHANGED <<ct, outmsg, tag, tp, cx, evp, client, mode, slevel, verdict>>
  BY DEF ReadData, Receive
<1>2. /\ ~part /\ rx \in Nat /\ client.len \in Nat /\ ct \in Nat /\ tp = 0
      /\ Absorbed(rx)
  BY <1>1, ReadBefore
<1>3. PICK k \in 1..CHUNK_SIZE :
         /\ n' = k /\ rx' = rx + k /\ rx + k <= client.len + TAGSIZE
         /\ k = CHUNK_SIZE \/ rx + k = client.len + TAGSIZE
  BY <1>1, ReadBefore
<1>4. k > TAGSIZE
  BY <1>1, <1>3
<1> DEFINE f == file \o HeldBack(TAGSIZE)
<1>5. InOrder(f) /\ Len(f) = rx
  <2>1. \/ ct = 0 /\ Fresh
        \/ /\ ct > 0 /\ rx >= CHUNK_SIZE /\ Len(file) = rx - TAGSIZE
           /\ Holds(outmsg, CHUNK_SIZE - TAGSIZE, TAGSIZE, rx - TAGSIZE)
    BY <1>1, ReadBefore
  <2>2. InOrder(f) /\ Len(f) = IF ct = 0 THEN 0 ELSE rx - TAGSIZE + TAGSIZE
    BY <2>1, HeldBackFacts
  <2>3. ct = 0 => rx = 0
    BY <1>2, <2>1 DEF Fresh
  <2> HIDE DEF f
  <2> QED BY <1>2, <2>2, <2>3
<1> HIDE DEF f
<1>6. FileInv'
  <2>1. Len(f) <= client.len /\ Len(f) <= rx + k
    BY <1>2, <1>3, <1>4, <1>5
  <2> QED BY <1>1, <1>3, <1>5, <2>1 DEF FileInv, FilePrefix, InOrder, f
<1>7. Holds(buffer', 0, k, rx)
  BY <1>1, <1>2, <1>3, ReceiveBuffer
<1>8. UpdateInv'
  <2>1. k <= rx + k /\ rx + k - k = rx
    BY <1>2
  <2>2. part' <=> k # CHUNK_SIZE
    BY <1>1, <1>2, <1>3
  <2>4. Absorbed(rx - n)'
    BY <1>1, <1>2, <1>3, <2>1 DEF Absorbed
  <2> QED BY <1>1, <1>2, <1>3, <1>5, <1>7, <2>1, <2>2, <2>4 DEF UpdateInv, StreamLen, f
<1>9. verdict' = {}
  BY <1>1 DEF ServerInv
<1> QED BY <1>1, <1>6, <1>8, <1>9 DEF ServerInv

\* The end of a split tag completes the transfer: the held-back bytes that are
\* data are written and the last block is absorbed again without the tag.
LEMMA ReadTailSafe ==
  ASSUME TypeInv, WireInv, FileInv, ServerInv, ReadTail
  PROVE  FileInv' /\ ServerInv'
<1> USE SizeFacts
<1>1. /\ Receive /\ n' <= TAGSIZE /\ spc = "read" /\ spc' = "read"
      /\ part' /\ tp' = n'
      /\ tag' = memcpy(tag, TAGSIZE, Slice(buffer', 0, n'))
      /\ file' = file \o HeldBack(n')
      /\ cx' = IF ct > 0 THEN Retract(n', buffer') ELSE cx
      /\ UNCHANGED <<ct, client, verdict>>
  BY DEF ReadTail, Receive
<1>2. rx \in Nat /\ client.len \in Nat /\ ct \in Nat /\ Absorbed(rx)
  BY <1>1, ReadBefore
<1>3. PICK k \in 1..CHUNK_SIZE :
         /\ n' = k /\ rx' = rx + k /\ rx + k <= client.len + TAGSIZE
         /\ k = CHUNK_SIZE \/ rx + k = client.len + TAGSIZE
  BY <1>1, ReadBefore
<1>4. k \in 1..TAGSIZE /\ rx + k = client.len + TAGSIZE /\ client.len = rx + k - TAGSIZE
  <2>1. k <= TAGSIZE
    BY <1>1, <1>3
  <2> QED BY <1>2, <1>3, <2>1
<1>5. \/ ct = 0 /\ Fresh
      \/ /\ ct > 0 /\ rx >= CHUNK_SIZE /\ Len(file) = rx - TAGSIZE
         /\ Len(cx.paccum) = rx - TAGSIZE /\ InOrder(cx.paccum)
         /\ Holds(outmsg, CHUNK_SIZE - TAGSIZE, TAGSIZE, rx - TAGSIZE)
         /\ Holds(buffer, CHUNK_SIZE - TAGSIZE, TAGSIZE, rx - TAGSIZE)
         /\ Holds(tag, 0, TAGSIZE, rx - TAGSIZE)
  BY <1>1, ReadBefore
<1>6. ct = 0 => rx = 0 /\ k = TAGSIZE /\ client.len = 0
  BY <1>2, <1>4, <1>5 DEF Fresh
<1> DEFINE f == file \o HeldBack(k)
           b == buffer'
<1>7. /\ b \in [0..(CHUNK_SIZE - 1) -> Byte] /\ Holds(b, 0, k, rx)
      /\ \A j \in k..(CHUNK_SIZE - 1) : b[j] = buffer[j]
  BY <1>1, <1>2, <1>3, ReceiveType, ReceiveBuffer DEF Received
<1>8. InOrder(f) /\ Len(f) = client.len
  <2>1. InOrder(f) /\ Len(f) = IF ct = 0 THEN 0 ELSE rx - TAGSIZE + k
    BY <1>4, <1>5, HeldBackFacts
  <2> HIDE DEF f
  <2> QED BY <1>2, <1>4, <1>6, <2>1
<1> HIDE DEF f, b
<1>9. FileInv'
  <2>1. Len(f) <= client.len /\ Len(f) <= rx + k
    BY <1>2, <1>4, <1>8
  <2> QED BY <1>1, <1>3, <1>8, <2>1 DEF FileInv, FilePrefix, InOrder, f
<1>10. TagOfFile(tag, tp, client.len)'
  <2> DEFINE s == Slice(b, 0, k)
  <2>1. tag \in [0..(2 * TAGSIZE - 1) -> Byte]
    BY Types
  <2>2. s \in Seq(Byte) /\ Len(s) = k /\ \A i \in 1..k : s[i] = b[0 + i - 1]
    BY <1>4, <1>7 DEF Slice
  <2>3. \A i \in 1..k : s[i] = rx + i - 1
    BY <1>2, <1>4, <1>7, <2>2 DEF Holds
  <2>4. k < TAGSIZE => Holds(tag, 0, TAGSIZE, rx - TAGSIZE)
    BY <1>5, <1>6
  <2>5. tag' = memcpy(tag, TAGSIZE, s) /\ tp' = k
    BY <1>1, <1>3 DEF b
  <2> HIDE DEF s
  <2>6. TagOfFile(memcpy(tag, TAGSIZE, s), k, rx + k - TAGSIZE)
    BY <1>2, <1>4, <2>1, <2>2, <2>3, <2>4, SplitTag
  <2> QED BY <1>1, <1>4, <2>5, <2>6 DEF TagOfFile
<1>11. cx'.level = Level /\ cx'.mlen = client.len /\ HashOfFile(cx'.accum, client.len)
  <2>1. CASE ct = 0
    <3>1. cx' = cx /\ client.len = 0 /\ rx = 0
      BY <1>1, <1>6, <2>1
    <3> QED BY <1>2, <3>1 DEF Absorbed, HashOfFile
  <2>2. CASE ct > 0
    <3> DEFINE s == Slice(b, CHUNK_SIZE - TAGSIZE, k)
               p == Pads(TAGSIZE - k)
    <3>1. /\ s \in Seq(Byte) /\ Len(s) = k
          /\ \A i \in 1..k : s[i] = b[CHUNK_SIZE - TAGSIZE + i - 1]
      <4>1. CHUNK_SIZE - TAGSIZE \in Nat /\ CHUNK_SIZE - TAGSIZE + k <= CHUNK_SIZE
        BY <1>4
      <4> QED BY <1>4, <1>7, <4>1 DEF Slice
    <3>2. \A i \in 1..k : s[i] = rx - TAGSIZE + i - 1
      <4> SUFFICES ASSUME NEW i \in 1..k PROVE s[i] = rx - TAGSIZE + i - 1
        OBVIOUS
      <4> HIDE DEF s
      <4>1. /\ i - 1 \in 0..(TAGSIZE - 1)
            /\ CHUNK_SIZE - TAGSIZE + (i - 1) = CHUNK_SIZE - TAGSIZE + i - 1
            /\ CHUNK_SIZE - TAGSIZE + (i - 1) \in k..(CHUNK_SIZE - 1)
        BY <1>4
      <4>2. ct # 0
        BY <1>2, <2>2
      <4>3. buffer[CHUNK_SIZE - TAGSIZE + (i - 1)] = rx - TAGSIZE + (i - 1)
        BY <1>5, <4>1, <4>2 DEF Holds
      <4> QED BY <1>2, <1>7, <3>1, <4>1, <4>3
    <3>3. p \in Seq(Byte) /\ Len(p) = TAGSIZE - k /\ \A i \in 1..Len(p) : p[i] = Pad
      BY <1>4 DEF Pads, Byte
    <3> DEFINE a == cx.paccum \o s \o p
    <3>4. cx'.level = cx.level /\ cx'.mlen = cx.mlen - (TAGSIZE - k) /\ cx'.accum = a
      BY <1>1, <1>3, <2>2, <3>1 DEF Retract, addmul, b
    <3> HIDE DEF s, p
    <3>5. /\ cx.paccum \in Seq(Byte) /\ Len(cx.paccum) = rx - TAGSIZE
          /\ \A i \in 1..(rx - TAGSIZE) : cx.paccum[i] = i - 1
      <4>1. ct # 0 /\ cx \in EDcontext
        BY <1>2, <2>2, Types
      <4>2. cx.paccum \in Seq(Byte)
        BY <4>1 DEF EDcontext
      <4>3. Len(cx.paccum) = rx - TAGSIZE /\ InOrder(cx.paccum)
        BY <1>5, <4>1
      <4> QED BY <4>2, <4>3 DEF InOrder
    <3> DEFINE q == cx.paccum \o s
    <3>6. q \in Seq(Byte) /\ Len(q) = client.len /\ InOrder(q)
      <4>1. \A i \in 1..Len(s) : s[i] = Len(cx.paccum) + i - 1
        BY <1>2, <3>1, <3>2, <3>5
      <4>2. InOrder(cx.paccum)
        BY <3>5 DEF InOrder
      <4>3. q \in Seq(Byte) /\ Len(q) = Len(cx.paccum) + Len(s) /\ InOrder(q)
        BY <3>1, <3>5, <4>1, <4>2, AppendInOrder
      <4> HIDE DEF q
      <4> QED BY <1>2, <1>4, <3>1, <3>5, <4>3
    <3>7. HashOfFile(a, client.len)
      <4>1. a = q \o p /\ TAGSIZE - k \in 0..(TAGSIZE - 1)
        BY <1>4
      <4> HIDE DEF a, q
      <4> QED BY <3>6, <4>1, PaddedHash DEF p
    <3> HIDE DEF a
    <3> QED BY <1>2, <1>4, <3>4, <3>7 DEF Absorbed
  <2> QED BY <1>2, <2>1, <2>2
<1>12. ReadInv'
  <2>1. rx' = StreamLen' /\ Len(file') = client'.len
    BY <1>1, <1>3, <1>4, <1>8 DEF StreamLen, f
  <2> QED BY <1>1, <1>10, <1>11, <2>1 DEF ReadInv, Complete
<1>13. verdict' = {}
  BY <1>1 DEF ServerInv
<1> QED BY <1>1, <1>9, <1>12, <1>13 DEF ServerInv
\* dec_update on k bytes of the record in hand gives the next k bytes of the
\* file: the backend is of the client's level and the counter is where the
\* client's was.
LEMMA DecryptedFacts ==
  ASSUME TypeInv, ModeInv, UpdateInv, slevel = Level, NEW k \in 1..CHUNK_SIZE, k <= n
  PROVE  /\ Decrypted(cx, buffer, k, slevel, client.lvl) \in Seq(Byte)
         /\ Len(Decrypted(cx, buffer, k, slevel, client.lvl)) = k
         /\ \A i \in 1..k :
              Decrypted(cx, buffer, k, slevel, client.lvl)[i] = rx - n + i - 1
<1> DEFINE d == Decrypted(cx, buffer, k, slevel, client.lvl)
<1>1. /\ buffer \in [0..(CHUNK_SIZE - 1) -> Byte]
      /\ rx \in Nat /\ n \in 0..CHUNK_SIZE /\ CHUNK_SIZE \in Nat
  BY Types, SizeFacts
<1>2. cx.level # Unset /\ slevel = client.lvl
  <2>1. cx.level = Level /\ client.lvl = Level
    BY DEF UpdateInv, Absorbed, ModeInv
  <2> QED BY <2>1, ParameterAssumption DEF Unset, Levels
<1>3. cx.ctr = rx - n /\ n <= rx /\ Holds(buffer, 0, n, rx - n)
  BY DEF UpdateInv, Absorbed
<1>4. d = [i \in 1..k |-> Decrypt(buffer[i - 1], cx.ctr + i - 1, TRUE)]
  BY <1>2 DEF Decrypted
<1>5. ASSUME NEW i \in 1..k PROVE buffer[i - 1] = rx - n + i - 1
  <2>1. i - 1 \in 0..(n - 1) /\ 0 + (i - 1) = i - 1
    BY <1>1
  <2>2. buffer[0 + (i - 1)] = rx - n + (i - 1)
    BY <1>3, <2>1 DEF Holds
  <2> QED BY <1>1, <2>1, <2>2
<1>6. ASSUME NEW i \in 1..k PROVE d[i] = rx - n + i - 1 /\ d[i] \in Byte
  <2>1. d[i] = Decrypt(buffer[i - 1], cx.ctr + i - 1, TRUE)
    BY <1>4
  <2>2. d[i] = rx - n + i - 1
    BY <1>3, <1>5, <2>1 DEF Decrypt
  <2>3. rx - n + i - 1 \in Nat
    BY <1>1, <1>3
  <2> QED BY <2>2, <2>3 DEF Byte
<1>7. d \in [1..k -> Byte]
  BY <1>4, <1>6
<1> HIDE DEF d
<1>8. d \in Seq(Byte) /\ Len(d) = k
  BY <1>1, <1>7
<1> QED BY <1>6, <1>8 DEF d

\* What the context then has absorbed.
LEMMA AbsorbedFacts ==
  ASSUME TypeInv, UpdateInv, NEW k \in 1..CHUNK_SIZE, k <= n
  PROVE  /\ cx.accum \o Slice(buffer, 0, k) \in Seq(Byte)
         /\ Len(cx.accum \o Slice(buffer, 0, k)) = rx - n + k
         /\ InOrder(cx.accum \o Slice(buffer, 0, k))
<1> DEFINE s == Slice(buffer, 0, k)
<1>1. /\ buffer \in [0..(CHUNK_SIZE - 1) -> Byte]
      /\ rx \in Nat /\ n \in 0..CHUNK_SIZE /\ CHUNK_SIZE \in Nat
      /\ cx \in EDcontext
  BY Types, SizeFacts
<1>2. cx.accum \in Seq(Byte) /\ Len(cx.accum) = rx - n /\ InOrder(cx.accum)
  BY <1>1 DEF EDcontext, UpdateInv, Absorbed
<1>3. s \in Seq(Byte) /\ Len(s) = k /\ \A i \in 1..k : s[i] = buffer[0 + i - 1]
  BY <1>1 DEF Slice
<1> HIDE DEF s
<1>4. ASSUME NEW i \in 1..k PROVE s[i] = rx - n + i - 1
  <2>1. i - 1 \in 0..(n - 1) /\ 0 + (i - 1) = 0 + i - 1
    BY <1>1
  <2>2. buffer[0 + (i - 1)] = rx - n + (i - 1)
    BY <2>1 DEF Holds, UpdateInv
  <2> QED BY <1>1, <1>3, <2>1, <2>2
<1>5. \A i \in 1..Len(s) : s[i] = Len(cx.accum) + i - 1
  BY <1>2, <1>3, <1>4
<1> QED BY <1>2, <1>3, <1>5, AppendInOrder DEF s
\* What follows dec_update: l of the k bytes decrypted are written, and tag
\* holds the last bytes of the record.
LEMMA StoreFacts ==
  ASSUME Fetched, TypeInv, ModeInv, FileInv, UpdateInv, spc = "upd_index",
         NEW k \in 1..CHUNK_SIZE, k <= n, outmsg' = Output(k),
         NEW l \in 1..k, Store(l)
  PROVE  /\ \A j \in 0..(k - 1) : outmsg'[j] = rx - n + j
         /\ InOrder(file') /\ Len(file') = rx - n + l
         /\ Holds(tag', 0, TAGSIZE, rx - TAGSIZE)
<1> USE SizeFacts
<1>1. /\ buffer \in [0..(CHUNK_SIZE - 1) -> Byte]
      /\ outmsg \in [0..(CHUNK_SIZE - 1) -> Byte]
      /\ tag \in [0..(2 * TAGSIZE - 1) -> Byte]
      /\ rx \in Nat /\ n \in 0..CHUNK_SIZE /\ file \in Seq(Byte)
  BY Types
<1>2. Fetched /\ slevel = Level
  BY DEF ModeInv
<1>3. n <= rx /\ Len(file) = rx - n /\ InOrder(file) /\ n > TAGSIZE
  BY FileFacts DEF UpdateInv, TypeInv, HandInv
<1> DEFINE d == Decrypted(cx, buffer, k, slevel, client.lvl)
           o == outmsg'
<1>4. d \in Seq(Byte) /\ Len(d) = k /\ \A i \in 1..k : d[i] = rx - n + i - 1
  BY <1>2, DecryptedFacts
<1>5. o = memcpy(outmsg, 0, d)
  BY <1>2 DEF Output
<1> HIDE DEF d, o
<1>6. ASSUME NEW j \in 0..(k - 1) PROVE o[j] = rx - n + j
  <2>1. j + 1 \in 1..k /\ j - 0 + 1 = j + 1 /\ j \in 0..(CHUNK_SIZE - 1) /\ 0 <= j /\ j < 0 + k
    OBVIOUS
  <2>2. o[j] = d[j + 1]
    BY <1>1, <1>4, <1>5, <2>1 DEF memcpy
  <2>3. d[j + 1] = rx - n + (j + 1) - 1
    BY <1>4, <2>1
  <2> QED BY <1>1, <2>2, <2>3
<1>7. o \in [0..(CHUNK_SIZE - 1) -> Byte]
  BY <1>1, <1>4, <1>5, MemcpyType
<1> DEFINE w == Slice(o, 0, l)
           t == Slice(buffer, n - TAGSIZE, TAGSIZE)
<1>8. w \in Seq(Byte) /\ Len(w) = l /\ \A i \in 1..l : w[i] = o[0 + i - 1]
  BY <1>7 DEF Slice
<1>9. t \in Seq(Byte) /\ Len(t) = TAGSIZE
      /\ \A i \in 1..TAGSIZE : t[i] = buffer[n - TAGSIZE + i - 1]
  <2>1. n - TAGSIZE \in Nat /\ n - TAGSIZE + TAGSIZE <= CHUNK_SIZE
    BY <1>1, <1>3
  <2> QED BY <1>1, <2>1 DEF Slice
<1>10. file' = file \o w /\ tag' = memcpy(tag, 0, t)
  BY DEF Store, o
<1> HIDE DEF w, t
<1>11. InOrder(file') /\ Len(file') = rx - n + l
  <2>1. ASSUME NEW i \in 1..l PROVE w[i] = Len(file) + i - 1
    <3>1. i - 1 \in 0..(k - 1) /\ 0 + i - 1 = i - 1
      OBVIOUS
    <3>2. o[i - 1] = rx - n + (i - 1)
      BY <1>6, <3>1
    <3> QED BY <1>1, <1>3, <1>8, <3>1, <3>2
  <2>2. InOrder(file \o w) /\ Len(file \o w) = Len(file) + l
    BY <1>1, <1>3, <1>8, <2>1, AppendInOrder
  <2> QED BY <1>3, <1>10, <2>2
<1>12. Holds(tag', 0, TAGSIZE, rx - TAGSIZE)
  <2> DEFINE u == memcpy(tag, 0, t)
  <2>1. ASSUME NEW j \in 0..(TAGSIZE - 1) PROVE u[0 + j] = rx - TAGSIZE + j
    <3>1. /\ j + 1 \in 1..TAGSIZE /\ j - 0 + 1 = j + 1 /\ j \in 0..(2 * TAGSIZE - 1)
          /\ 0 <= j /\ j < 0 + TAGSIZE /\ 0 + j = j
          /\ n - TAGSIZE + j \in 0..(n - 1)
          /\ n - TAGSIZE + (j + 1) - 1 = 0 + (n - TAGSIZE + j)
      BY <1>1, <1>3
    <3>2. u[j] = t[j + 1]
      BY <1>1, <1>9, <3>1 DEF memcpy
    <3>3. t[j + 1] = buffer[0 + (n - TAGSIZE + j)]
      BY <1>9, <3>1
    <3>4. buffer[0 + (n - TAGSIZE + j)] = rx - n + (n - TAGSIZE + j)
      BY <3>1 DEF Holds, UpdateInv
    <3> HIDE DEF u
    <3> QED BY <1>1, <3>1, <3>2, <3>3, <3>4
  <2> QED BY <1>10, <2>1 DEF Holds
<1> QED BY <1>6, <1>11, <1>12 DEF o

\* A full record: its last TAGSIZE bytes are decrypted and absorbed, and held
\* back.
LEMMA UpdateFullSafe ==
  ASSUME Fetched, TypeInv, WireInv, ModeInv, FileInv, ServerInv, UpdateFull
  PROVE  FileInv' /\ ServerInv'
<1> USE SizeFacts
<1>1. /\ rx \in Nat /\ client.len \in Nat /\ ct \in Nat /\ n = CHUNK_SIZE
      /\ spc = "upd_index" /\ UpdateInv /\ Fetched
  BY Types DEF UpdateFull, ServerInv
<1>2. /\ outmsg' = Output(CHUNK_SIZE) /\ cx' = dec_update(cx, buffer, CHUNK_SIZE)
      /\ Store(CHUNK_SIZE - TAGSIZE) /\ ct' = ct + 1 /\ spc' = "read"
      /\ UNCHANGED <<client, rx, part, buffer, tp, verdict>>
  BY <1>1 DEF UpdateFull, sender
<1>3. /\ n <= rx /\ ~part /\ tp = 0 /\ Absorbed(rx - n) /\ rx <= client.len + TAGSIZE
      /\ Holds(buffer, 0, n, rx - n)
  BY <1>1 DEF UpdateInv, WireInv, StreamLen
<1>4. /\ \A j \in 0..(CHUNK_SIZE - 1) : outmsg'[j] = rx - n + j
      /\ InOrder(file') /\ Len(file') = rx - n + (CHUNK_SIZE - TAGSIZE)
      /\ Holds(tag', 0, TAGSIZE, rx - TAGSIZE)
  <2>1. CHUNK_SIZE \in 1..CHUNK_SIZE /\ CHUNK_SIZE <= n /\ CHUNK_SIZE - TAGSIZE \in 1..CHUNK_SIZE
    BY <1>1
  <2> QED BY <1>1, <1>2, <2>1, StoreFacts
<1>5. Len(file') = rx - TAGSIZE
  BY <1>1, <1>4
<1>6. FileInv'
  <2>1. rx - TAGSIZE <= client.len /\ rx - TAGSIZE <= rx
    BY <1>1, <1>3
  <2> QED BY <1>2, <1>4, <1>5, <2>1 DEF FileInv, FilePrefix, InOrder
<1> DEFINE q == cx.accum \o Slice(buffer, 0, CHUNK_SIZE)
           p == SubSeq(q, 1, rx - TAGSIZE)
<1>7. q \in Seq(Byte) /\ Len(q) = rx /\ InOrder(q)
  <2>1. /\ q \in Seq(Byte) /\ Len(q) = rx - n + CHUNK_SIZE /\ InOrder(q)
    <3>1. CHUNK_SIZE \in 1..CHUNK_SIZE /\ CHUNK_SIZE <= n
      BY <1>1
    <3> QED BY <1>1, <3>1, AbsorbedFacts
  <2> HIDE DEF q
  <2> QED BY <1>1, <2>1
<1>8. cx'.level = cx.level /\ cx'.ctr = cx.ctr + CHUNK_SIZE
      /\ cx'.mlen = cx.mlen + CHUNK_SIZE /\ cx'.accum = q /\ cx'.paccum = p
  <2>1. PadLen(CHUNK_SIZE) = 0 /\ Pads(0) = <<>>
    BY PadLenFacts DEF Pads
  <2>2. cx.accum \o Slice(buffer, 0, CHUNK_SIZE) \o Pads(PadLen(CHUNK_SIZE)) = q
    <3>1. q \o <<>> = q
      <4> HIDE DEF q
      <4> QED BY <1>7
    <3> QED BY <2>1, <3>1
  <2>3. cx.ctr + CHUNK_SIZE + 0 = cx.ctr + CHUNK_SIZE
    <3>1. cx.ctr = rx - n
      BY <1>3 DEF Absorbed
    <3> QED BY <1>1, <3>1
  <2> HIDE DEF q
  <2> QED BY <1>2, <1>7, <2>1, <2>2, <2>3 DEF dec_update
<1> HIDE DEF q
<1>9. Len(p) = rx - TAGSIZE /\ InOrder(p)
  <2>1. rx - TAGSIZE \in 0..rx
    BY <1>1, <1>3
  <2> QED BY <1>7, <2>1 DEF InOrder
<1> HIDE DEF p
<1>10. Absorbed(rx)'
  <2>1. cx.level = Level /\ cx.ctr = rx - n /\ cx.mlen = rx - n
    BY <1>3 DEF Absorbed
  <2>2. cx'.level = Level /\ cx'.ctr = rx /\ cx'.mlen = rx
    BY <1>1, <1>8, <2>1
  <2> QED BY <1>2, <1>7, <1>8, <2>2 DEF Absorbed, InOrder
<1>11. /\ Holds(outmsg', CHUNK_SIZE - TAGSIZE, TAGSIZE, rx - TAGSIZE)
       /\ Holds(buffer, CHUNK_SIZE - TAGSIZE, TAGSIZE, rx - TAGSIZE)
  <2>1. ASSUME NEW j \in 0..(TAGSIZE - 1)
        PROVE  /\ CHUNK_SIZE - TAGSIZE + j \in 0..(CHUNK_SIZE - 1)
               /\ 0 + (CHUNK_SIZE - TAGSIZE + j) = CHUNK_SIZE - TAGSIZE + j
               /\ rx - n + (CHUNK_SIZE - TAGSIZE + j) = rx - TAGSIZE + j
    BY <1>1
  <2>2. ASSUME NEW j \in 0..(TAGSIZE - 1)
        PROVE  outmsg'[CHUNK_SIZE - TAGSIZE + j] = rx - TAGSIZE + j
    BY <1>4, <2>1
  <2>3. ASSUME NEW j \in 0..(TAGSIZE - 1)
        PROVE  buffer[CHUNK_SIZE - TAGSIZE + j] = rx - TAGSIZE + j
    BY <1>1, <1>3, <2>1 DEF Holds
  <2> QED BY <2>2, <2>3 DEF Holds
<1>12. ReadInv'
  <2>1. ct + 1 > 0 /\ rx >= CHUNK_SIZE
    BY <1>1, <1>3
  <2>2. cx'.paccum = p
    BY <1>8
  <2> QED BY <1>2, <1>3, <1>4, <1>5, <1>9, <1>10, <1>11, <2>1, <2>2 DEF ReadInv, Holds, InOrder
<1>13. verdict' = {}
  BY <1>1, <1>2 DEF ServerInv
<1> QED BY <1>2, <1>6, <1>12, <1>13 DEF ServerInv
\* The last record, when it carries data: all before its last TAGSIZE bytes is
\* data, and those are the tag.
LEMMA UpdatePartSafe ==
  ASSUME Fetched, TypeInv, WireInv, ModeInv, FileInv, ServerInv, UpdatePart
  PROVE  FileInv' /\ ServerInv'
<1> USE SizeFacts
<1>1. /\ rx \in Nat /\ client.len \in Nat /\ n \in 0..CHUNK_SIZE /\ n # CHUNK_SIZE
      /\ n > TAGSIZE /\ spc = "upd_index" /\ UpdateInv /\ Fetched
  BY Types DEF UpdatePart, ServerInv, TypeInv, HandInv
<1>2. /\ outmsg' = Output(n - TAGSIZE) /\ cx' = dec_update(cx, buffer, n - TAGSIZE)
      /\ Store(n - TAGSIZE) /\ spc' = "read"
      /\ UNCHANGED <<client, rx, ct, part, buffer, tp, verdict>>
  BY <1>1 DEF UpdatePart, sender, progress
<1>3. /\ n <= rx /\ part /\ tp = 0 /\ Absorbed(rx - n) /\ rx = client.len + TAGSIZE
  BY <1>1 DEF UpdateInv, StreamLen
<1> DEFINE k == n - TAGSIZE
<1>4. k \in 1..CHUNK_SIZE /\ k <= n /\ k \in 1..k /\ rx - n + k = client.len
  BY <1>1, <1>3
<1>5. /\ InOrder(file') /\ Len(file') = client.len
      /\ Holds(tag', 0, TAGSIZE, rx - TAGSIZE)
  <2>1. outmsg' = Output(k) /\ Store(k)
    BY <1>2
  <2> HIDE DEF k
  <2> QED BY <1>1, <1>4, <2>1, StoreFacts
<1>6. FileInv'
  <2>1. client.len <= client.len /\ client.len <= rx
    BY <1>1, <1>3
  <2> QED BY <1>2, <1>5, <2>1 DEF FileInv, FilePrefix, InOrder
<1> DEFINE q == cx.accum \o Slice(buffer, 0, k)
<1>7. q \in Seq(Byte) /\ Len(q) = client.len /\ InOrder(q)
  <2> HIDE DEF k
  <2> QED BY <1>1, <1>4, AbsorbedFacts
<1>8. PadLen(k) \in 0..(TAGSIZE - 1)
  BY <1>4, PadLenFacts
<1>9. HashOfFile(q \o Pads(PadLen(k)), client.len)
  <2> HIDE DEF k, q
  <2> QED BY <1>7, <1>8, PaddedHash
<1>10. /\ cx'.level = cx.level /\ cx'.mlen = cx.mlen + k
       /\ cx'.accum = q \o Pads(PadLen(k))
  BY <1>2 DEF dec_update
<1>11. cx'.level = Level /\ cx'.mlen = client.len
  <2>1. cx.level = Level /\ cx.mlen = rx - n
    BY <1>3 DEF Absorbed
  <2> HIDE DEF k
  <2> QED BY <1>4, <1>10, <2>1
<1>12. TagOfFile(tag, tp, client.len)'
  <2>1. rx - TAGSIZE = client.len
    BY <1>1, <1>3
  <2> QED BY <1>2, <1>3, <1>5, <2>1 DEF TagOfFile, Holds
<1>13. ReadInv'
  <2> HIDE DEF k, q
  <2>1. HashOfFile(cx.accum, client.len)'
    BY <1>2, <1>9, <1>10 DEF HashOfFile
  <2>2. Complete'
    BY <1>2, <1>3, <1>5, <1>12 DEF Complete, StreamLen
  <2> QED BY <1>2, <1>3, <1>11, <2>1, <2>2 DEF ReadInv
<1>14. verdict' = {}
  BY <1>1, <1>2 DEF ServerInv
<1> QED BY <1>2, <1>6, <1>13, <1>14 DEF ServerInv

\* The end of the stream on the backend path: dec_final accepts exactly the
\* complete stream.
LEMMA ReadEndSafe ==
  ASSUME TypeInv, WireInv, ModeInv, FileInv, ServerInv, ReadEnd
  PROVE  FileInv' /\ ServerInv'
<1> USE SizeFacts
<1>1. /\ rx \in Nat /\ client.len \in Nat /\ spc = "read" /\ spc' = "choose0"
      /\ cx' = FinalContext /\ UNCHANGED <<client, mode, rx, file, tag, tp>>
      /\ verdict = {} /\ ReadInv /\ mode # 0 /\ client.lvl = Level
      /\ rx <= client.len + TAGSIZE
  BY Types DEF ReadEnd, sender, arrays, ServerInv, ModeInv, BackendPoints, WireInv, StreamLen
<1> DEFINE e == FinalContext
           ok == dec_final(e, tag, tp, client.len, client.lvl)
<1>2. verdict' = {IF ok THEN "ok" ELSE "bad"}
  BY <1>1 DEF ReadEnd, Check
<1>3. FileInv'
  BY <1>1 DEF FileInv, FilePrefix
<1>4. /\ ok <=> rx = client.len + TAGSIZE
      /\ rx = client.len + TAGSIZE => Len(file) = client.len
  <2>1. CASE ~part /\ ct = 0 /\ Fresh /\ Absorbed(0)
    <3>1. rx = 0 /\ e.mlen = 0 - TAGSIZE
      BY <2>1 DEF Fresh, Absorbed, FinalContext
    <3>2. e.mlen # client.len /\ rx # client.len + TAGSIZE
      BY <1>1, <3>1
    <3> QED BY <3>2 DEF dec_final
  <2>2. CASE /\ ~part /\ Absorbed(rx) /\ Len(file) = rx - TAGSIZE
             /\ Len(cx.paccum) = rx - TAGSIZE /\ InOrder(cx.paccum)
             /\ Holds(tag, 0, TAGSIZE, rx - TAGSIZE) /\ tp = 0
    <3>1. e.level = Level /\ e.mlen = rx - TAGSIZE /\ e.accum = cx.paccum
      BY <2>2 DEF Absorbed, FinalContext
    <3> HIDE DEF e
    <3>2. CASE rx = client.len + TAGSIZE
      <4>1. rx - TAGSIZE = client.len
        BY <1>1, <3>2
      <4>2. HashOfFile(e.accum, client.len)
        <5>1. client.len <= client.len /\ client.len < client.len + TAGSIZE
          BY <1>1
        <5> QED BY <1>1, <2>2, <3>1, <4>1, <5>1 DEF HashOfFile, InOrder
      <4>3. TagOfFile(tag, tp, client.len)
        BY <2>2, <4>1 DEF TagOfFile, Holds
      <4> QED BY <1>1, <2>2, <3>1, <3>2, <4>1, <4>2, <4>3 DEF dec_final
    <3>3. CASE rx # client.len + TAGSIZE
      <4>1. rx - TAGSIZE # client.len
        BY <1>1, <3>3
      <4> QED BY <3>1, <3>3, <4>1 DEF dec_final
    <3> QED BY <3>2, <3>3
  <2>3. CASE /\ part /\ Complete
             /\ cx.level = Level /\ cx.mlen = client.len
             /\ HashOfFile(cx.accum, client.len)
    <3>1. e = cx
      BY <2>3 DEF FinalContext
    <3> HIDE DEF e
    <3> QED BY <1>1, <2>3, <3>1 DEF dec_final, Complete, StreamLen
  <2> QED BY <1>1, <2>1, <2>2, <2>3 DEF ReadInv
<1> HIDE DEF ok, e
<1>5. CheckedInv'
  BY <1>1, <1>2, <1>4 DEF CheckedInv, StreamLen
<1> QED BY <1>1, <1>3, <1>5 DEF ServerInv
------------------------------------------------------------------------------
\* The native path.

\* Two runs of consecutive bytes, the second where the first ends.
LEMMA AppendRuns ==
  ASSUME NEW m \in Nat, NEW s \in Seq(Byte), NEW t \in Seq(Byte),
         \A i \in 1..Len(s) : s[i] = m + i - 1,
         \A i \in 1..Len(t) : t[i] = m + Len(s) + i - 1
  PROVE  /\ s \o t \in Seq(Byte) /\ Len(s \o t) = Len(s) + Len(t)
         /\ \A i \in 1..Len(s \o t) : (s \o t)[i] = m + i - 1
OBVIOUS

\* A record still to come means the stream is not complete.
LEMMA NReadBefore ==
  ASSUME TypeInv, WireInv, spc = "nread", ServerInv, Receive, spc' # "accept"
  PROVE  /\ Len(evp) = Len(file) /\ InOrder(evp)
         /\ \E k \in 1..CHUNK_SIZE :
              /\ n' = k /\ rx' = rx + k /\ rx + k <= client.len + TAGSIZE
              /\ k = CHUNK_SIZE \/ rx + k = client.len + TAGSIZE
         /\ \/ ct = 0 /\ Fresh
            \/ /\ ct > 0 /\ rx > TAGSIZE /\ Len(file) = rx - TAGSIZE
               /\ Holds(tag, 0, TAGSIZE, rx - TAGSIZE)
<1>1. rx \in Nat /\ client.len \in Nat
  BY Types
<1>2. PICK k \in 1..CHUNK_SIZE : n' = k
  BY ReceiveType DEF Received
<1>3. rx' = rx + k /\ rx + k <= StreamLen /\ (k = CHUNK_SIZE \/ rx + k = StreamLen)
  BY <1>2, ReceiveWire
<1>4. StreamLen = client.len + TAGSIZE /\ rx # StreamLen
  BY <1>1, <1>3, SizeFacts DEF StreamLen
<1>5. NativeInv /\ ~Complete
  BY <1>4 DEF ServerInv, Complete
<1>6. \/ ct = 0 /\ Fresh
      \/ /\ ct > 0 /\ rx > TAGSIZE /\ Len(file) = rx - TAGSIZE
         /\ Holds(tag, 0, TAGSIZE, rx - TAGSIZE)
  BY <1>5 DEF NativeInv
<1>7. Len(evp) = Len(file) /\ InOrder(evp)
  BY <1>5 DEF NativeInv
<1> QED BY <1>2, <1>3, <1>4, <1>6, <1>7

\* The bytes waiting in tag[] continue what the context has absorbed.
LEMMA WaitingFacts ==
  ASSUME TypeInv, Len(evp) = Len(file), NEW k \in 0..TAGSIZE,
         \/ ct = 0 /\ Fresh
         \/ /\ ct > 0 /\ rx > TAGSIZE /\ Len(file) = rx - TAGSIZE
            /\ Holds(tag, 0, TAGSIZE, rx - TAGSIZE)
  PROVE  /\ Waiting(k) \in Seq(Byte) /\ Len(Waiting(k)) = IF ct = 0 THEN 0 ELSE k
         /\ \A i \in 1..Len(Waiting(k)) : Waiting(k)[i] = Len(evp) + i - 1
<1> USE SizeFacts
<1>1. rx \in Nat /\ ct \in Nat /\ tag \in [0..(2 * TAGSIZE - 1) -> Byte]
  BY Types
<1>2. CASE ct = 0
  BY <1>2 DEF Waiting
<1>3. CASE ct > 0
  <2> DEFINE w == Slice(tag, 0, k)
  <2>1. w \in Seq(Byte) /\ Len(w) = k /\ \A i \in 1..k : w[i] = tag[0 + i - 1]
    <3>1. 0 + k <= 2 * TAGSIZE /\ k \in Nat
      OBVIOUS
    <3> QED BY <1>1, <3>1 DEF Slice
  <2>2. Waiting(k) = w /\ ct # 0
    BY <1>1, <1>3 DEF Waiting
  <2> HIDE DEF w
  <2>3. Len(evp) = rx - TAGSIZE /\ Holds(tag, 0, TAGSIZE, rx - TAGSIZE)
    BY <2>2
  <2>4. ASSUME NEW i \in 1..k PROVE w[i] = Len(evp) + i - 1
    <3>1. i - 1 \in 0..(TAGSIZE - 1) /\ 0 + (i - 1) = 0 + i - 1
      OBVIOUS
    <3>2. tag[0 + (i - 1)] = rx - TAGSIZE + (i - 1)
      BY <2>3, <3>1 DEF Holds
    <3> QED BY <1>1, <2>1, <2>3, <3>1, <3>2
  <2> QED BY <2>1, <2>2, <2>4
<1> QED BY <1>1, <1>2, <1>3

\* Bytes of the ciphertext given to EVP_DecryptUpdate in order continue the
\* file.
LEMMA EvpFacts ==
  ASSUME TypeInv, ModeInv, FileInv, Len(evp) = Len(file), InOrder(evp),
         NEW s \in Seq(Byte), \A i \in 1..Len(s) : s[i] = Len(evp) + i - 1, EvpStore(s)
  PROVE  /\ InOrder(evp') /\ InOrder(file')
         /\ Len(evp') = Len(file') /\ Len(file') = Len(file) + Len(s)
<1> DEFINE d == [i \in 1..Len(s) |-> Decrypt(s[i], Len(evp) + i - 1, client.lvl = Level)]
<1>1. evp \in Seq(Byte) /\ file \in Seq(Byte) /\ InOrder(file)
  BY Types, FileFacts
<1>2. d = [i \in 1..Len(s) |-> s[i]]
  BY DEF Decrypt, ModeInv
<1>3. [i \in 1..Len(s) |-> s[i]] = s
  OBVIOUS
<1>4. file' = file \o s /\ evp' = evp \o s
  BY <1>2, <1>3 DEF EvpStore
<1> HIDE DEF d
<1>5. \A i \in 1..Len(s) : s[i] = Len(file) + i - 1
  OBVIOUS
<1>6. InOrder(file \o s) /\ Len(file \o s) = Len(file) + Len(s)
  BY <1>1, <1>5, AppendInOrder
<1>7. InOrder(evp \o s) /\ Len(evp \o s) = Len(evp) + Len(s)
  BY <1>1, AppendInOrder
<1> QED BY <1>4, <1>6, <1>7

\* A record with data in it: what waited in tag[] is data.
LEMMA NReadDataSafe ==
  ASSUME TypeInv, WireInv, ModeInv, FileInv, ServerInv, NReadData
  PROVE  FileInv' /\ ServerInv'
<1> USE SizeFacts
<1>1. /\ Receive /\ n' > TAGSIZE /\ spc = "nread" /\ spc' = "nread"
      /\ EvpStore(Waiting(TAGSIZE) \o Slice(buffer', 0, n' - TAGSIZE))
      /\ tag' = memcpy(tag, 0, Slice(buffer', n' - TAGSIZE, TAGSIZE))
      /\ tp' = 0 /\ ct' = ct + 1 /\ UNCHANGED <<client, verdict>>
  BY DEF NReadData, Receive
<1>2. rx \in Nat /\ client.len \in Nat /\ ct \in Nat /\ evp \in Seq(Byte)
  BY Types
<1>3. PICK k \in 1..CHUNK_SIZE :
         /\ n' = k /\ rx' = rx + k /\ rx + k <= client.len + TAGSIZE
         /\ k = CHUNK_SIZE \/ rx + k = client.len + TAGSIZE
  BY <1>1, NReadBefore
<1>4. k > TAGSIZE /\ k - TAGSIZE \in 1..CHUNK_SIZE /\ k - TAGSIZE + TAGSIZE <= CHUNK_SIZE
  <2>1. k > TAGSIZE
    BY <1>1, <1>3
  <2> QED BY <2>1
<1>5. /\ Len(evp) = Len(file) /\ InOrder(evp)
      /\ \/ ct = 0 /\ Fresh
         \/ /\ ct > 0 /\ rx > TAGSIZE /\ Len(file) = rx - TAGSIZE
            /\ Holds(tag, 0, TAGSIZE, rx - TAGSIZE)
  BY <1>1, NReadBefore
<1> DEFINE b == buffer'
           w == Waiting(TAGSIZE)
           d == Slice(b, 0, k - TAGSIZE)
           t == Slice(b, k - TAGSIZE, TAGSIZE)
<1>6. b \in [0..(CHUNK_SIZE - 1) -> Byte] /\ Holds(b, 0, k, rx)
  BY <1>1, <1>2, <1>3, ReceiveType, ReceiveBuffer DEF Received
<1>7. /\ w \in Seq(Byte) /\ Len(w) = IF ct = 0 THEN 0 ELSE TAGSIZE
      /\ \A i \in 1..Len(w) : w[i] = Len(evp) + i - 1
  BY <1>5, WaitingFacts
<1>8. EvpStore(w \o d) /\ tag' = memcpy(tag, 0, t)
  BY <1>1, <1>3
<1> HIDE DEF b, w
<1>9. d \in Seq(Byte) /\ Len(d) = k - TAGSIZE
      /\ \A i \in 1..(k - TAGSIZE) : d[i] = b[0 + i - 1]
  BY <1>4, <1>6 DEF Slice
<1>10. t \in Seq(Byte) /\ Len(t) = TAGSIZE
       /\ \A i \in 1..TAGSIZE : t[i] = b[k - TAGSIZE + i - 1]
  BY <1>4, <1>6 DEF Slice
<1> HIDE DEF d, t
<1>11. Len(evp) + Len(w) = rx /\ Len(evp) \in Nat
  <2>1. CASE ct = 0
    <3>1. rx = 0 /\ Len(file) = 0 /\ Len(w) = 0
      BY <1>2, <1>5, <1>7, <2>1 DEF Fresh
    <3> QED BY <1>5, <3>1
  <2>2. CASE ct # 0
    <3>1. Len(file) = rx - TAGSIZE /\ Len(w) = TAGSIZE /\ rx > TAGSIZE
      BY <1>5, <1>7, <2>2
    <3> QED BY <1>2, <1>5, <3>1
  <2> QED BY <2>1, <2>2
<1>12. ASSUME NEW i \in 1..Len(d) PROVE d[i] = Len(evp) + Len(w) + i - 1
  <2>1. i - 1 \in 0..(k - 1) /\ 0 + (i - 1) = 0 + i - 1 /\ i \in 1..(k - TAGSIZE)
    BY <1>4, <1>9
  <2>2. b[0 + (i - 1)] = rx + (i - 1)
    BY <1>6, <2>1 DEF Holds
  <2> QED BY <1>2, <1>9, <1>11, <2>1, <2>2
<1> DEFINE s == w \o d
<1>13. /\ s \in Seq(Byte) /\ Len(s) = Len(w) + Len(d)
       /\ \A i \in 1..Len(s) : s[i] = Len(evp) + i - 1
  BY <1>7, <1>9, <1>11, <1>12, AppendRuns
<1> HIDE DEF s
<1>14. /\ InOrder(evp') /\ InOrder(file')
       /\ Len(evp') = Len(file') /\ Len(file') = Len(file) + Len(s)
  BY <1>5, <1>8, <1>13, EvpFacts DEF s
<1>15. Len(file) + Len(s) = rx + k - TAGSIZE
  <2>1. Len(w) \in Nat
    BY <1>7
  <2>2. /\ Len(file) = Len(evp) /\ Len(s) = Len(w) + Len(d) /\ Len(d) = k - TAGSIZE
        /\ Len(evp) + Len(w) = rx /\ Len(evp) \in Nat
    BY <1>5, <1>9, <1>11, <1>13
  <2> QED BY <1>2, <2>1, <2>2
<1>16. FileInv'
  <2>1. rx + k - TAGSIZE <= client.len /\ rx + k - TAGSIZE <= rx + k
    BY <1>2, <1>3
  <2> QED BY <1>1, <1>3, <1>14, <1>15, <2>1 DEF FileInv, FilePrefix, InOrder
<1>17. Holds(tag', 0, TAGSIZE, rx + k - TAGSIZE)
  <2> DEFINE u == memcpy(tag, 0, t)
  <2>0. tag \in [0..(2 * TAGSIZE - 1) -> Byte]
    BY Types
  <2>1. ASSUME NEW j \in 0..(TAGSIZE - 1) PROVE u[0 + j] = rx + k - TAGSIZE + j
    <3>1. /\ j + 1 \in 1..TAGSIZE /\ j - 0 + 1 = j + 1 /\ j \in 0..(2 * TAGSIZE - 1)
          /\ 0 <= j /\ j < 0 + TAGSIZE /\ 0 + j = j
          /\ k - TAGSIZE + j \in 0..(k - 1)
          /\ k - TAGSIZE + (j + 1) - 1 = 0 + (k - TAGSIZE + j)
      BY <1>4
    <3>2. u[j] = t[j + 1]
      BY <1>10, <2>0, <3>1 DEF memcpy
    <3>3. t[j + 1] = b[0 + (k - TAGSIZE + j)]
      BY <1>10, <3>1
    <3>4. b[0 + (k - TAGSIZE + j)] = rx + (k - TAGSIZE + j)
      BY <1>6, <3>1 DEF Holds
    <3> HIDE DEF u
    <3> QED BY <1>2, <3>1, <3>2, <3>3, <3>4
  <2> QED BY <1>8, <2>1 DEF Holds
<1>18. NativeInv'
  <2>1. ct + 1 > 0 /\ rx + k > TAGSIZE
    BY <1>2, <1>4
  <2>5. PICK r \in Nat : r = rx + k
    BY <1>2
  <2>6. rx' = r /\ r > TAGSIZE /\ Len(file') = r - TAGSIZE
    <3>1. Len(file') = rx + k - TAGSIZE
      BY <1>14, <1>15
    <3> QED BY <1>2, <1>3, <2>1, <2>5, <3>1
  <2>7. Holds(tag', 0, TAGSIZE, r - TAGSIZE)
    BY <1>2, <1>17, <2>5
  <2>2. /\ ct' > 0 /\ rx' > TAGSIZE /\ Len(file)' = (rx - TAGSIZE)' /\ tp' = 0
    BY <1>1, <2>1, <2>6
  <2>3. Holds(tag, 0, TAGSIZE, rx - TAGSIZE)'
    BY <2>6, <2>7 DEF Holds
  <2>4. (Len(evp) = Len(file))' /\ InOrder(evp)'
    BY <1>14 DEF InOrder
  <2> QED BY <2>2, <2>3, <2>4 DEF NativeInv
<1>19. verdict' = {}
  BY <1>1 DEF ServerInv
<1> QED BY <1>1, <1>16, <1>18, <1>19 DEF ServerInv

\* The end of a split tag: only the bytes before it that waited are data.
LEMMA NReadTailSafe ==
  ASSUME TypeInv, WireInv, ModeInv, FileInv, ServerInv, NReadTail
  PROVE  FileInv' /\ ServerInv'
<1> USE SizeFacts
<1>1. /\ Receive /\ n' <= TAGSIZE /\ spc = "nread" /\ spc' = "nread"
      /\ EvpStore(Waiting(n')) /\ tp' = n'
      /\ tag' = memcpy(tag, TAGSIZE, Slice(buffer', 0, n'))
      /\ UNCHANGED <<client, verdict>>
  BY DEF NReadTail, Receive
<1>2. rx \in Nat /\ client.len \in Nat /\ ct \in Nat /\ evp \in Seq(Byte)
  BY Types
<1>3. PICK k \in 1..CHUNK_SIZE :
         /\ n' = k /\ rx' = rx + k /\ rx + k <= client.len + TAGSIZE
         /\ k = CHUNK_SIZE \/ rx + k = client.len + TAGSIZE
  BY <1>1, NReadBefore
<1>4. k \in 1..TAGSIZE /\ rx + k = client.len + TAGSIZE /\ client.len = rx + k - TAGSIZE
  <2>1. k <= TAGSIZE
    BY <1>1, <1>3
  <2> QED BY <1>2, <1>3, <2>1
<1>5. /\ Len(evp) = Len(file) /\ InOrder(evp)
      /\ \/ ct = 0 /\ Fresh
         \/ /\ ct > 0 /\ rx > TAGSIZE /\ Len(file) = rx - TAGSIZE
            /\ Holds(tag, 0, TAGSIZE, rx - TAGSIZE)
  BY <1>1, NReadBefore
<1>6. ct = 0 => rx = 0 /\ Len(file) = 0 /\ k = TAGSIZE /\ client.len = 0
  BY <1>2, <1>4, <1>5 DEF Fresh
<1> DEFINE b == buffer'
           w == Waiting(k)
           t == Slice(b, 0, k)
<1>7. b \in [0..(CHUNK_SIZE - 1) -> Byte] /\ Holds(b, 0, k, rx)
  BY <1>1, <1>2, <1>3, ReceiveType, ReceiveBuffer DEF Received
<1>8. /\ w \in Seq(Byte) /\ Len(w) = IF ct = 0 THEN 0 ELSE k
      /\ \A i \in 1..Len(w) : w[i] = Len(evp) + i - 1
  BY <1>4, <1>5, WaitingFacts
<1>9. EvpStore(w) /\ tag' = memcpy(tag, TAGSIZE, t) /\ tp' = k
  BY <1>1, <1>3
<1> HIDE DEF b, w
<1>10. /\ InOrder(evp') /\ InOrder(file')
       /\ Len(evp') = Len(file') /\ Len(file') = Len(file) + Len(w)
  BY <1>5, <1>8, <1>9, EvpFacts
<1>11. Len(file) + Len(w) = client.len
  <2>1. CASE ct = 0
    BY <1>6, <1>8, <2>1
  <2>2. CASE ct # 0
    <3>1. Len(file) = rx - TAGSIZE /\ Len(w) = k
      BY <1>5, <1>8, <2>2
    <3> QED BY <1>2, <1>4, <3>1
  <2> QED BY <2>1, <2>2
<1>12. FileInv'
  <2>1. client.len <= client.len /\ client.len <= rx + k
    BY <1>2, <1>4
  <2> QED BY <1>1, <1>3, <1>10, <1>11, <2>1 DEF FileInv, FilePrefix, InOrder
<1>13. TagOfFile(tag, tp, client.len)'
  <2>1. tag \in [0..(2 * TAGSIZE - 1) -> Byte]
    BY Types
  <2>2. t \in Seq(Byte) /\ Len(t) = k /\ \A i \in 1..k : t[i] = b[0 + i - 1]
    BY <1>4, <1>7 DEF Slice
  <2>3. \A i \in 1..k : t[i] = rx + i - 1
    BY <1>2, <1>4, <1>7, <2>2 DEF Holds
  <2>4. k < TAGSIZE => Holds(tag, 0, TAGSIZE, rx - TAGSIZE)
    BY <1>5, <1>6
  <2> HIDE DEF t
  <2>5. TagOfFile(memcpy(tag, TAGSIZE, t), k, rx + k - TAGSIZE)
    BY <1>2, <1>4, <2>1, <2>2, <2>3, <2>4, SplitTag
  <2> QED BY <1>1, <1>4, <1>9, <2>5 DEF TagOfFile
<1>14. NativeInv'
  <2>1. rx' = StreamLen' /\ Len(file') = client'.len
    BY <1>1, <1>3, <1>4, <1>10, <1>11 DEF StreamLen
  <2> QED BY <1>10, <1>13, <2>1 DEF NativeInv, Complete, InOrder
<1>15. verdict' = {}
  BY <1>1 DEF ServerInv
<1> QED BY <1>1, <1>12, <1>14, <1>15 DEF ServerInv

\* The end of the stream on the native path: EVP_DecryptFinal accepts exactly
\* the complete stream.
LEMMA NReadEndSafe ==
  ASSUME TypeInv, WireInv, ModeInv, FileInv, ServerInv, NReadEnd
  PROVE  FileInv' /\ ServerInv'
<1> USE SizeFacts
<1>1. /\ rx \in Nat /\ client.len \in Nat /\ evp \in Seq(Byte)
      /\ spc = "nread" /\ spc' = "saved"
      /\ UNCHANGED <<client, rx, file>>
      /\ verdict = {} /\ NativeInv /\ client.lvl = Level
  BY Types DEF NReadEnd, sender, ServerInv, ModeInv
<1>2. verdict' = {IF EvpFinal THEN "ok" ELSE "bad"}
  BY <1>1 DEF NReadEnd, Check
<1>3. FileInv'
  BY <1>1 DEF FileInv, FilePrefix
<1>4. /\ EvpFinal <=> rx = client.len + TAGSIZE
      /\ rx = client.len + TAGSIZE => Len(file) = client.len
  <2>0. Len(evp) = Len(file) /\ \A i \in 1..Len(evp) : evp[i] = i - 1
    BY <1>1 DEF NativeInv, InOrder
  <2>1. CASE Fresh
    <3>1. rx # client.len + TAGSIZE
      BY <1>1, <2>1 DEF Fresh
    <3>2. 0 \in 0..(TAGSIZE - 1) /\ tp + 0 = 0 /\ tag[0] # client.len + 0
      BY <1>1, <2>1 DEF Fresh, Junk
    <3>3. ~TagOfFile(tag, tp, client.len)
      BY <3>2 DEF TagOfFile
    <3> QED BY <3>1, <3>3 DEF EvpFinal
  <2>2. CASE /\ Len(file) = rx - TAGSIZE /\ tp = 0
             /\ Holds(tag, 0, TAGSIZE, rx - TAGSIZE)
    <3>1. CASE rx = client.len + TAGSIZE
      <4>1. rx - TAGSIZE = client.len
        BY <1>1, <3>1
      <4>2. evp = [i \in 1..client.len |-> i - 1]
        BY <1>1, <2>0, <2>2, <4>1
      <4>3. TagOfFile(tag, tp, client.len)
        BY <2>2, <4>1 DEF TagOfFile, Holds
      <4> QED BY <1>1, <2>2, <3>1, <4>1, <4>2, <4>3 DEF EvpFinal
    <3>2. CASE rx # client.len + TAGSIZE
      <4>1. Len(evp) # client.len
        BY <1>1, <2>0, <2>2, <3>2
      <4>2. evp # [i \in 1..client.len |-> i - 1]
        BY <1>1, <4>1
      <4> QED BY <3>2, <4>2 DEF EvpFinal
    <3> QED BY <3>1, <3>2
  <2>3. CASE Complete
    <3>1. Len(file) = client.len /\ rx = client.len + TAGSIZE
      BY <2>3 DEF Complete, StreamLen
    <3>2. evp = [i \in 1..client.len |-> i - 1]
      BY <1>1, <2>0, <3>1
    <3> QED BY <1>1, <2>3, <3>1, <3>2 DEF EvpFinal, Complete
  <2> QED BY <1>1, <2>1, <2>2, <2>3 DEF NativeInv
<1>5. CheckedInv'
  BY <1>1, <1>2, <1>4 DEF CheckedInv, StreamLen
<1> QED BY <1>1, <1>3, <1>5 DEF ServerInv
------------------------------------------------------------------------------
\* The inductive invariant.

\* A step that leaves the buffers, the contexts and the file alone, and stays
\* in front of a point with the same invariant.
LEMMA QuietSafe ==
  ASSUME FileInv, ServerInv, spc' # "down",
         UNCHANGED <<rx, arrays, cx, evp, file, verdict, progress>>,
         client'.len = client.len,
         \/ spc' = "accept"
         \/ spc' = spc /\ (mode' = 0 <=> mode = 0)
         \/ {spc, spc'} \subseteq {"choose", "init_level", "init_index"}
         \/ {spc, spc'} \subseteq {"upd_level", "upd_index"}
  PROVE  FileInv' /\ ServerInv'
<1>1. FileInv'
  BY DEF FileInv, FilePrefix
<1>2. StreamLen' = StreamLen
  BY DEF StreamLen
<1>3. /\ Fresh' = Fresh /\ CheckedInv' = CheckedInv /\ ReadInv' = ReadInv
      /\ NativeInv' = NativeInv /\ UpdateInv' = UpdateInv
  <2>1. Fresh' = Fresh /\ CheckedInv' = CheckedInv
    BY <1>2 DEF Fresh, CheckedInv, arrays
  <2>2. Complete' = Complete
    BY <1>2 DEF Complete, TagOfFile, arrays
  <2>3. ReadInv' = ReadInv
    BY <2>1, <2>2 DEF ReadInv, Absorbed, Holds, InOrder, HashOfFile, arrays, progress
  <2>4. NativeInv' = NativeInv
    BY <2>1, <2>2 DEF NativeInv, Holds, InOrder, arrays, progress
  <2>5. UpdateInv' = UpdateInv
    BY <1>2 DEF UpdateInv, Absorbed, Holds, InOrder, arrays, progress
  <2> QED BY <2>1, <2>3, <2>4, <2>5
<1>4. ServerInv'
  BY <1>3 DEF ServerInv
<1> QED BY <1>1, <1>4

\* The two tests of mode and ed_init, which start a path.
LEMMA StartSafe ==
  ASSUME TypeInv, ModeInv, FileInv, ServerInv,
         Choose \/ (InitIndex /\ Fetched) \/ Choose0
  PROVE  FileInv' /\ ServerInv'
<1>1. UNCHANGED <<client, rx, mode, arrays, file, verdict>>
  BY DEF Choose, InitIndex, Choose0, sender
<1>2. FileInv'
  BY <1>1 DEF FileInv, FilePrefix
<1>3. Fresh' = Fresh /\ CheckedInv' = CheckedInv
  BY <1>1 DEF Fresh, CheckedInv, StreamLen, arrays
<1>4. CASE Choose
  BY <1>1, <1>2, <1>3, <1>4 DEF Choose, ServerInv
<1>5. CASE InitIndex /\ Fetched
  <2>1. /\ spc = "init_index" /\ spc' = "read" /\ ct' = 0 /\ ~part' /\ Fresh
        /\ cx' = NewContext(Level)
    BY <1>5 DEF InitIndex, ServerInv, ModeInv, ed_init
  <2>2. Absorbed(0)'
    BY <2>1 DEF NewContext, Absorbed, InOrder
  <2>3. ReadInv'
    BY <1>3, <2>1, <2>2 DEF ReadInv
  <2>4. verdict' = {}
    BY <1>1, <2>1 DEF Fresh
  <2> QED BY <1>2, <2>1, <2>3, <2>4 DEF ServerInv
<1>6. CASE Choose0
  <2>1. CASE mode = 0
    <3>1. spc' = "nread" /\ evp' = <<>> /\ ct' = 0 /\ Fresh
      BY <1>6, <2>1 DEF Choose0, ServerInv
    <3>2. NativeInv'
      BY <1>1, <1>3, <3>1 DEF NativeInv, Fresh, InOrder
    <3>3. verdict' = {}
      BY <1>1, <3>1 DEF Fresh
    <3> QED BY <1>2, <3>1, <3>2, <3>3 DEF ServerInv
  <2>2. CASE mode # 0
    BY <1>2, <1>3, <1>6, <2>2 DEF Choose0, ServerInv
  <2> QED BY <2>1, <2>2
<1> QED BY <1>2, <1>4, <1>5, <1>6

\* Every step keeps the buffers, the contexts and the file in agreement.
LEMMA NextServer ==
  ASSUME Safe, TypeInv, WireInv, ModeInv, FileInv, ServerInv, [Next]_vars
  PROVE  FileInv' /\ ServerInv'
<1>0. spc # "down"
  BY DEF ServerInv
<1>1. ASSUME NEW size \in FileSizes, NEW lvl \in ClientLevels, Handshake(size, lvl)
      PROVE  FileInv' /\ ServerInv'
  <2>1. /\ rx' = 0 /\ file' = <<>> /\ verdict' = {} /\ tp' = 0 /\ spc' = "choose"
        /\ tag' = Blank(2 * TAGSIZE) /\ client'.len = size /\ size \in Nat
    BY <1>1, ParameterAssumption DEF Handshake
  <2>2. tag'[0] = Junk
    BY <2>1, SizeFacts DEF Blank
  <2>3. FileInv'
    BY <2>1 DEF FileInv, FilePrefix
  <2> QED BY <2>1, <2>2, <2>3 DEF ServerInv, Fresh
<1>2. CASE Client \/ Disconnect
  <2>1. /\ UNCHANGED <<rx, spc, mode, arrays, cx, evp, file, verdict, progress>>
        /\ client'.len = client.len
    BY <1>2 DEF Client, ClientChunk, ClientTail, ClientTail2, Disconnect, Progress
  <2> QED BY <1>0, <2>1, QuietSafe
<1>3. ASSUME NEW m \in Modes, signal_handler(m) PROVE FileInv' /\ ServerInv'
  <2>1. /\ UNCHANGED <<rx, spc, arrays, cx, evp, file, verdict, progress>>
        /\ client'.len = client.len /\ mode' = m
    BY <1>3 DEF signal_handler, sender
  <2>2. spc = "accept" \/ (mode' = 0 <=> mode = 0)
    BY <1>3, <2>1, SwitchNotNative
  <2> QED BY <1>0, <2>1, <2>2, QuietSafe
<1>4. CASE InitLevel \/ UpdLevel
  <2>1. /\ UNCHANGED <<rx, mode, arrays, cx, evp, file, verdict, progress>>
        /\ client'.len = client.len
        /\ \/ spc = "init_level" /\ spc' = "init_index"
           \/ spc = "upd_level" /\ spc' = "upd_index"
    BY <1>4 DEF InitLevel, UpdLevel, FetchLevel, sender
  <2> QED BY <2>1, QuietSafe
<1>5. CASE Close
  <2>1. /\ UNCHANGED <<rx, mode, arrays, cx, evp, file, verdict, progress>>
        /\ client'.len = client.len /\ spc' = "accept"
    BY <1>5 DEF Close, Progress
  <2> QED BY <2>1, QuietSafe
<1>6. CASE UNCHANGED vars
  <2>1. /\ UNCHANGED <<rx, spc, mode, arrays, cx, evp, file, verdict, progress>>
        /\ client'.len = client.len
    BY <1>6 DEF vars, arrays, progress
  <2> QED BY <1>0, <2>1, QuietSafe
<1>7. CASE InitIndex \/ UpdateFull \/ UpdatePart
  <2>1. Fetched
    BY <1>7, AlwaysFetched DEF InitIndex, UpdateFull, UpdatePart
  <2> QED BY <1>7, <2>1, StartSafe, UpdateFullSafe, UpdatePartSafe
<1> QED BY <1>1, <1>2, <1>3, <1>4, <1>5, <1>6, <1>7, StartSafe, ReadDataSafe, ReadTailSafe,
           ReadEndSafe, NReadDataSafe, NReadTailSafe, NReadEndSafe
        DEF Next, Server

\* The whole invariant: types, wire, mode, file and server.
Inv == TypeInv /\ WireInv /\ ModeInv /\ FileInv /\ ServerInv

\* It holds when the port starts listening.
LEMMA InitInv == Init => Inv
<1> SUFFICES ASSUME Init PROVE Inv
  OBVIOUS
<1>1. TypeInv
  BY InitType
<1>2. WireInv
  BY SizeFacts DEF Init, WireInv, StreamLen
<1>3. ModeInv
  BY DEF Init, ModeInv, BackendPoints
<1>4. FileInv /\ ServerInv
  BY DEF Init, FileInv, FilePrefix, ServerInv
<1> QED BY <1>1, <1>2, <1>3, <1>4 DEF Inv

\* Every step preserves it.
LEMMA NextInv ==
  ASSUME Safe, Inv, [Next]_vars
  PROVE  Inv'
BY NextType, NextWire, NextMode, NextServer DEF Inv

\* Under Safe, the agreement of wire, buffers, context and file that the
\* receive loop of createserver relies on is an invariant.
THEOREM LoopInvariant == ASSUME Safe PROVE Spec => []IndInv
<1>1. Inv => IndInv
  BY DEF Inv, IndInv, TypeInv
<1>2. Inv /\ [Next]_vars => Inv'
  BY NextInv
<1> QED BY <1>1, <1>2, InitInv, PTL DEF Spec
\* What a port under Safe writes is always a prefix of the client's file,
\* across switches of backend and wherever the connection breaks.
THEOREM FileIsPrefix == ASSUME Safe PROVE Spec => []FilePrefix
<1>1. IndInv => FilePrefix
  BY DEF IndInv, FileInv
<1> QED BY <1>1, LoopInvariant, PTL

\* No disciplined switch ends the process of a port.
THEOREM PortStaysUp == ASSUME Safe PROVE Spec => []NeverDown
<1>1. IndInv => NeverDown
  BY DEF IndInv, ServerInv, NeverDown
<1> QED BY <1>1, LoopInvariant, PTL

\* Both decryption paths accept exactly the streams that arrived to the last
\* byte, for every file size and every way the tag is split over records.
THEOREM VerdictIsExact == ASSUME Safe PROVE Spec => []VerdictExact
<1>1. IndInv => VerdictExact
  BY DEF IndInv, ServerInv, CheckedInv, VerdictExact
<1> QED BY <1>1, LoopInvariant, PTL

\* No damaged or shortened file is saved without a TAG MISMATCH.
THEOREM SilenceMeansIntact == ASSUME Safe PROVE Spec => []SilentIsIntact
<1>1. IndInv => SilentIsIntact
  <2> SUFFICES ASSUME IndInv, spc = "saved", "bad" \notin verdict PROVE Whole
    BY DEF SilentIsIntact
  <2>1. rx = StreamLen /\ Len(file) = client.len
    BY DEF IndInv, ServerInv, CheckedInv
  <2> QED BY <2>1 DEF IndInv, FileInv, FilePrefix, Whole
<1> QED BY <1>1, LoopInvariant, PTL

------------------------------------------------------------------------------
\* Refinement.

\* The refinement mapping, point by point.
LEMMA PhaseFacts ==
  /\ spc = "accept" => Phase = "idle"
  /\ spc = "saved" => Phase = "done"
  /\ spc \notin {"accept", "saved"} => Phase = "receiving"
  /\ spc' = "accept" => Phase' = "idle"
  /\ spc' = "saved" => Phase' = "done"
  /\ spc' \notin {"accept", "saved"} => Phase' = "receiving"
BY DEF Phase

\* A file in order is a beginning of the client's file.
LEMMA FileBeginning ==
  ASSUME TypeInv, FileInv
  PROVE  file = [i \in 1..Len(file) |-> i - 1]
<1>1. file \in Seq(Byte) /\ \A i \in 1..Len(file) : file[i] = i - 1
  BY Types DEF FileInv, FilePrefix
<1> QED BY <1>1

\* A step that moves bytes only appends to the file.
LEMMA Appended ==
  ASSUME TypeInv,
         ReadData \/ ReadTail \/ UpdateFull \/ UpdatePart \/ NReadData \/ NReadTail
  PROVE  \E s \in Seq(Byte) : file' = file \o s
<1> USE SizeFacts
<1>0. file \in Seq(Byte) /\ <<>> \in Seq(Byte) /\ file \o <<>> = file
  BY Types
<1>1. CASE ReadData
  <2>1. TAGSIZE \in 0..TAGSIZE /\ file' = file \o HeldBack(TAGSIZE)
    BY <1>1 DEF ReadData
  <2> QED BY <2>1, OutputTypes
<1>2. CASE ReadTail
  <2>1. PICK k \in 1..CHUNK_SIZE : n' = k
    BY <1>2, ReceiveType DEF Received, ReadTail
  <2>2. k \in 0..TAGSIZE /\ file' = file \o HeldBack(k)
    BY <1>2, <2>1 DEF ReadTail
  <2> QED BY <2>2, OutputTypes
<1>3. CASE UpdateFull \/ UpdatePart
  <2>1. n > TAGSIZE /\ n \in 0..CHUNK_SIZE
    BY <1>3, Types DEF UpdateFull, UpdatePart, TypeInv, HandInv
  <2>2. \A k \in 1..CHUNK_SIZE : Output(k) \in [0..(CHUNK_SIZE - 1) -> Byte]
    BY OutputTypes
  <2>3. PICK k \in 0..CHUNK_SIZE :
           /\ outmsg' \in [0..(CHUNK_SIZE - 1) -> Byte]
           /\ file' = file \/ file' = file \o Slice(outmsg', 0, k)
    <3>1. CASE UpdateFull
      <4>1. CHUNK_SIZE \in 1..CHUNK_SIZE /\ CHUNK_SIZE - TAGSIZE \in 0..CHUNK_SIZE
        OBVIOUS
      <4>2. /\ outmsg' = Output(CHUNK_SIZE)
            /\ file' = file \/ file' = file \o Slice(outmsg', 0, CHUNK_SIZE - TAGSIZE)
        BY <3>1 DEF UpdateFull, Store
      <4> QED BY <2>2, <4>1, <4>2
    <3>2. CASE UpdatePart
      <4>1. n - TAGSIZE \in 1..CHUNK_SIZE /\ n - TAGSIZE \in 0..CHUNK_SIZE
        BY <2>1
      <4>2. outmsg' = Output(n - TAGSIZE) /\ file' = file \o Slice(outmsg', 0, n - TAGSIZE)
        BY <3>2 DEF UpdatePart, Store
      <4> QED BY <2>2, <4>1, <4>2
    <3> QED BY <1>3, <3>1, <3>2
  <2>4. Slice(outmsg', 0, k) \in Seq(Byte)
    BY <2>3, SliceFacts
  <2> QED BY <1>0, <2>3, <2>4
<1>4. CASE NReadData \/ NReadTail
  <2>1. PICK s : file' = file \o [i \in 1..Len(s) |->
                   Decrypt(s[i], Len(evp) + i - 1, client.lvl = Level)] /\ s \in Seq(Byte)
    <3>1. Receive
      BY <1>4 DEF NReadData, NReadTail
    <3>2. PICK k \in 1..CHUNK_SIZE : n' = k
      BY <3>1, ReceiveType DEF Received
    <3>3. buffer' \in [0..(CHUNK_SIZE - 1) -> Byte]
      BY <3>1, ReceiveType DEF Received
    <3>4. \A j \in 0..TAGSIZE : Waiting(j) \in Seq(Byte)
      BY OutputTypes
    <3>5. CASE NReadData
      <4>1. k - TAGSIZE \in Nat /\ 0 + (k - TAGSIZE) <= CHUNK_SIZE /\ TAGSIZE \in 0..TAGSIZE
        <5>1. k > TAGSIZE
          BY <3>2, <3>5 DEF NReadData
        <5> QED BY <5>1
      <4>2. Slice(buffer', 0, k - TAGSIZE) \in Seq(Byte)
        BY <3>3, <4>1, SliceFacts
      <4>3. Waiting(TAGSIZE) \o Slice(buffer', 0, k - TAGSIZE) \in Seq(Byte)
        BY <3>4, <4>1, <4>2
      <4> QED BY <3>2, <3>5, <4>3 DEF NReadData, EvpStore
    <3>6. CASE NReadTail
      <4>1. k \in 0..TAGSIZE
        BY <3>2, <3>6 DEF NReadTail
      <4> QED BY <3>2, <3>4, <3>6, <4>1 DEF NReadTail, EvpStore
    <3> QED BY <1>4, <3>5, <3>6
  <2> DEFINE d == [i \in 1..Len(s) |-> Decrypt(s[i], Len(evp) + i - 1, client.lvl = Level)]
  <2>2. d \in Seq(Byte)
    BY <2>1 DEF Decrypt, Byte
  <2> HIDE DEF d
  <2> QED BY <2>1, <2>2 DEF d
<1> QED BY <1>1, <1>2, <1>3, <1>4

\* A step that moves bytes receives.
LEMMA ReceiveStep ==
  ASSUME Inv, Inv', ReadData \/ ReadTail \/ UpdateFull \/ UpdatePart \/ NReadData \/ NReadTail
  PROVE  Abstract!Receive
<1>1. /\ spc \notin {"accept", "saved"} /\ spc' \notin {"accept", "saved"}
      /\ client' = client
  BY DEF ReadData, ReadTail, UpdateFull, UpdatePart, NReadData, NReadTail, Receive, sender
<1>2. Phase = "receiving" /\ Phase' = "receiving"
  BY <1>1, PhaseFacts
<1>3. rx <= rx' /\ rx' <= client.len + TAGSIZE
  <2>1. rx \in Nat /\ rx' <= client.len + TAGSIZE
    BY <1>1, Types DEF Inv, WireInv, StreamLen
  <2>2. CASE ReadData \/ ReadTail \/ NReadData \/ NReadTail
    <3>1. Receive
      BY <2>2 DEF ReadData, ReadTail, NReadData, NReadTail
    <3>2. PICK k \in 1..CHUNK_SIZE : n' = k
      BY <3>1, ReceiveType DEF Received, Inv
    <3>3. rx' = rx + k
      BY <1>1, <3>1, <3>2, ReceiveWire DEF Inv
    <3> QED BY <2>1, <3>2, <3>3
  <2>3. CASE UpdateFull \/ UpdatePart
    <3>1. rx' = rx
      BY <2>3 DEF UpdateFull, UpdatePart
    <3> QED BY <2>1, <3>1
  <2> QED BY <2>2, <2>3
<1>4. Len(file) <= Len(file')
  <2>1. PICK s \in Seq(Byte) : file' = file \o s
    BY Appended DEF Inv
  <2>2. file \in Seq(Byte)
    BY Types DEF Inv
  <2> QED BY <2>1, <2>2
<1>5. /\ Len(file') <= client.len /\ Len(file') <= rx'
      /\ file' = [i \in 1..Len(file') |-> i - 1]
  <2>1. FileInv' /\ TypeInv'
    BY DEF Inv
  <2>2. (file = [i \in 1..Len(file) |-> i - 1])'
    <3>1. file' \in Seq(Byte) /\ \A i \in 1..Len(file') : file'[i] = i - 1
      BY <2>1 DEF FileInv, FilePrefix, TypeInv, TypeOK
    <3> QED BY <3>1
  <2> QED BY <1>1, <2>1, <2>2 DEF FileInv, FilePrefix
<1> QED BY <1>1, <1>2, <1>3, <1>4, <1>5 DEF Abstract!Receive, Abstract!Beginning

\* A step that ends with the tag checked accepts or rejects.
LEMMA EndStep ==
  ASSUME Inv, Inv', spc \notin {"accept", "saved"}, spc' = "saved",
         UNCHANGED <<client, rx, file>>
  PROVE  Abstract!Accept \/ Abstract!Reject
<1>1. Phase = "receiving" /\ Phase' = "done"
  BY PhaseFacts
<1>2. rx \in Nat /\ client.len \in Nat /\ rx <= client.len + TAGSIZE
  BY Types DEF Inv, WireInv, StreamLen
<1>3. /\ verdict' = {IF rx = client.len + TAGSIZE THEN "ok" ELSE "bad"}
      /\ rx = client.len + TAGSIZE => Len(file) = client.len
  BY DEF Inv, ServerInv, CheckedInv, StreamLen
<1>4. file = [i \in 1..Len(file) |-> i - 1]
  BY FileBeginning DEF Inv
<1>5. CASE rx = client.len + TAGSIZE
  BY <1>1, <1>3, <1>4, <1>5 DEF Abstract!Accept, Abstract!Beginning
<1>6. CASE rx # client.len + TAGSIZE
  <2>1. rx < client.len + TAGSIZE
    BY <1>2, <1>6, SizeFacts
  <2> QED BY <1>1, <1>3, <1>6, <2>1 DEF Abstract!Reject
<1> QED BY <1>5, <1>6

\* Every step of a port under Safe is a step of FileTransfer or leaves its
\* variables alone.
LEMMA StepRefined ==
  ASSUME Inv, Inv', [Next]_vars
  PROVE  [Abstract!Next]_(Abstract!vars)
<1>0. spc # "down" /\ spc' # "down"
  BY DEF Inv, ServerInv
<1>1. ASSUME NEW size \in FileSizes, NEW lvl \in ClientLevels, Handshake(size, lvl)
      PROVE  Abstract!Begin(size)
  <2>1. spc = "accept" /\ spc' = "choose"
    BY <1>1 DEF Handshake
  <2>2. Phase = "idle" /\ Phase' = "receiving"
    BY <2>1, PhaseFacts
  <2> QED BY <1>1, <2>2 DEF Handshake, Abstract!Begin
<1>2. CASE ReadData \/ ReadTail \/ UpdateFull \/ UpdatePart \/ NReadData \/ NReadTail
  BY <1>2, ReceiveStep DEF Abstract!Next
<1>3. CASE NReadEnd
  BY <1>3, EndStep DEF NReadEnd, sender, Abstract!Next
<1>4. CASE Close
  <2>1. spc = "saved" /\ spc' = "accept" /\ client'.len = client.len
        /\ UNCHANGED <<rx, file, verdict>>
    BY <1>4 DEF Close, Progress
  <2>2. Phase = "done" /\ Phase' = "idle"
    BY <2>1, PhaseFacts
  <2> QED BY <2>1, <2>2 DEF Abstract!Next, Abstract!Leave
<1>5. CASE Choose0
  <2>1. CASE spc' = "saved"
    BY <1>5, <2>1, EndStep DEF Choose0, sender, Abstract!Next
  <2>2. CASE spc' # "saved"
    <3>1. /\ spc = "choose0" /\ spc' = "nread" /\ UNCHANGED <<client, rx, file>>
      BY <1>5, <2>2 DEF Choose0, sender
    <3>2. Phase = "receiving" /\ Phase' = "receiving"
      BY <3>1, PhaseFacts
    <3> QED BY <3>1, <3>2 DEF Abstract!vars
  <2> QED BY <2>1, <2>2
<1>6. CASE Choose \/ InitLevel \/ InitIndex \/ UpdLevel \/ ReadEnd
  <2>1. /\ spc \notin {"accept", "saved"} /\ spc' \notin {"accept", "saved"}
        /\ UNCHANGED <<client, rx, file>>
    BY <1>6 DEF Choose, InitLevel, InitIndex, UpdLevel, FetchLevel, ReadEnd, sender
  <2>2. Phase = "receiving" /\ Phase' = "receiving"
    BY <2>1, PhaseFacts
  <2> QED BY <2>1, <2>2 DEF Abstract!vars
<1>7. CASE UNCHANGED <<spc, rx, file, verdict>> /\ client'.len = client.len
  <2>1. Phase' = Phase
    BY <1>7 DEF Phase
  <2> QED BY <1>7, <2>1 DEF Abstract!vars
<1>8. CASE Client \/ Disconnect
  BY <1>7, <1>8 DEF Client, ClientChunk, ClientTail, ClientTail2, Disconnect, Progress
<1>9. ASSUME NEW m \in Modes, signal_handler(m)
      PROVE  UNCHANGED <<spc, rx, file, verdict>> /\ client'.len = client.len
  BY <1>9 DEF signal_handler, sender
<1>10. CASE UNCHANGED vars
  BY <1>7, <1>10 DEF vars
<1> QED BY <1>1, <1>2, <1>3, <1>4, <1>5, <1>6, <1>7, <1>8, <1>9, <1>10
        DEF Next, Server, Abstract!Next

\* A port under Safe implements FileTransfer: switching backends in the middle
\* of a transfer is invisible to the client.
THEOREM Implements == ASSUME Safe PROVE Spec => ImplementsFileTransfer
<1>1. Init => Abstract!Init
  BY DEF Init, Abstract!Init, Phase
<1>2. Inv /\ [Next]_vars => Inv'
  BY NextInv
<1>3. Inv /\ Inv' /\ [Next]_vars => [Abstract!Next]_(Abstract!vars)
  BY StepRefined
<1> QED BY <1>1, <1>2, <1>3, InitInv, PTL DEF Spec, ImplementsFileTransfer, Abstract!Spec

------------------------------------------------------------------------------
(***************************************************************************)
(* What is left of the promise of a port when the mode bytes sent to it    *)
(* may name backends that the library does not have, and clients may use   *)
(* any cipher: the port may stop and a file may be wrong, but a file that  *)
(* is wrong is reported.                                                   *)
(***************************************************************************)

\* The hypothesis on the constants.  A mode byte has the level of the port,
\* and mode 0 comes and goes only between transfers; the backend number is
\* any, and so is the cipher of a client.
LevelKept ==
  /\ \A m \in Modes \cup {InitMode} : m = 0 \/ sbits(m) = Level
  /\ 0 \in Modes \cup {InitMode} => NativeAt \subseteq {"accept"}

\* The mode in force selects the path that is running, whatever the cipher of
\* the client.
PathInv ==
  /\ mode \in Modes \cup {InitMode}
  /\ spc \in BackendPoints => mode # 0
  /\ spc = "nread" => mode = 0
  /\ spc \in {"init_index", "upd_index"} => slevel = Level

\* The transfer goes as it does under Safe.
Sound == client.lvl = Level /\ FileInv /\ ServerInv

\* dec_update did not absorb the last record: the stream is over and the
\* context is too short.
Skipped == spc = "read" /\ part /\ rx = StreamLen /\ cx.mlen # client.len

\* The transfer can only end with a TAG MISMATCH, or with the process.
Doomed ==
  /\ spc \in {"choose", "init_level", "init_index", "nread"} => client.lvl # Level
  /\ spc \in {"read", "upd_level", "upd_index"} => cx.level # client.lvl \/ Skipped
  /\ spc = "choose0" => IF mode = 0 THEN client.lvl # Level ELSE "bad" \in verdict
  /\ spc = "saved" => "bad" \in verdict

\* The invariant: a transfer that has left the course it takes under Safe is
\* doomed.
Reported == TypeInv /\ WireInv /\ PathInv /\ (Sound \/ Doomed)

------------------------------------------------------------------------------
\* The mode.

\* A mode of the port that is not 0 has its level.
LEMMA OwnLevel ==
  ASSUME LevelKept, PathInv, mode # 0
  PROVE  sbits(mode) = Level
BY DEF LevelKept, PathInv

\* A mode that arrives during a transfer is not 0, and neither is the one it
\* replaces.
LEMMA SwitchKeepsPath ==
  ASSUME LevelKept, PathInv, NEW m \in Modes, signal_handler(m), spc # "accept"
  PROVE  m # 0 /\ mode # 0
BY DEF LevelKept, PathInv, signal_handler

\* Every step keeps the mode one that LevelKept allows at the point reached.
LEMMA NextPath ==
  ASSUME LevelKept, TypeInv, PathInv, [Next]_vars
  PROVE  PathInv'
<1>1. ASSUME NEW size \in FileSizes, NEW lvl \in ClientLevels, Handshake(size, lvl)
      PROVE  PathInv'
  BY <1>1 DEF Handshake, PathInv, BackendPoints
<1>2. CASE Client \/ Disconnect
  BY <1>2 DEF Client, ClientChunk, ClientTail, ClientTail2, Disconnect, PathInv,
              BackendPoints
<1>3. ASSUME NEW m \in Modes, signal_handler(m) PROVE PathInv'
  <2>1. CASE spc = "accept"
    BY <1>3, <2>1 DEF signal_handler, PathInv, BackendPoints
  <2>2. CASE spc # "accept"
    BY <1>3, <2>2, SwitchKeepsPath DEF signal_handler, PathInv, BackendPoints
  <2> QED BY <2>1, <2>2
<1>4. CASE Choose \/ InitIndex
  BY <1>4 DEF Choose, InitIndex, PathInv, BackendPoints
<1>5. CASE InitLevel \/ UpdLevel
  <2>1. mode # 0
    BY <1>5 DEF InitLevel, UpdLevel, FetchLevel, PathInv, BackendPoints
  <2> QED BY <1>5, <2>1, OwnLevel
          DEF InitLevel, UpdLevel, FetchLevel, PathInv, BackendPoints
<1>6. CASE ReadData \/ ReadTail \/ NReadData \/ NReadTail
  <2>1. /\ UNCHANGED <<mode, slevel>>
        /\ \/ spc = "read" /\ spc' \in {"read", "upd_level"}
           \/ spc = "nread" /\ spc' = "nread"
    BY <1>6 DEF ReadData, ReadTail, NReadData, NReadTail, Receive
  <2> QED BY <2>1 DEF PathInv, BackendPoints
<1>7. CASE UpdateFull \/ UpdatePart \/ ReadEnd
  <2>1. /\ UNCHANGED <<mode, slevel>>
        /\ spc \in {"read", "upd_index"} /\ spc' \in {"read", "down", "choose0"}
    BY <1>7 DEF UpdateFull, UpdatePart, ReadEnd
  <2> QED BY <2>1 DEF PathInv, BackendPoints
<1>8. CASE Choose0 \/ NReadEnd \/ Close
  BY <1>8 DEF Choose0, NReadEnd, Close, PathInv, BackendPoints
<1>9. CASE UNCHANGED vars
  BY <1>9 DEF vars, PathInv
<1> QED BY <1>1, <1>2, <1>3, <1>4, <1>5, <1>6, <1>7, <1>8, <1>9 DEF Next, Server

------------------------------------------------------------------------------
\* A transfer as under Safe.

\* A new client is served as under Safe when it uses the cipher of the port,
\* and is doomed otherwise.
LEMMA HandshakeReported ==
  ASSUME NEW size \in FileSizes, NEW lvl \in ClientLevels, Handshake(size, lvl)
  PROVE  Sound' \/ Doomed'
<1>1. /\ rx' = 0 /\ file' = <<>> /\ verdict' = {} /\ tp' = 0 /\ spc' = "choose"
      /\ tag' = Blank(2 * TAGSIZE) /\ client'.len = size /\ size \in Nat
      /\ client'.lvl = lvl
  BY ParameterAssumption DEF Handshake
<1>2. tag'[0] = Junk
  BY <1>1, SizeFacts DEF Blank
<1>3. FileInv' /\ ServerInv'
  BY <1>1, <1>2 DEF FileInv, FilePrefix, ServerInv, Fresh
<1>4. CASE lvl = Level
  BY <1>1, <1>3, <1>4 DEF Sound
<1>5. CASE lvl # Level
  BY <1>1, <1>5 DEF Doomed
<1> QED BY <1>4, <1>5

\* ed_init returned early: the context has no level.
LEMMA InitIndexMissed ==
  ASSUME TypeInv, InitIndex, ~Fetched
  PROVE  Doomed'
<1>1. spc' = "read" /\ cx'.level = Unset /\ client' = client
  BY DEF InitIndex, sender, ed_init, NewContext
<1>2. client.lvl \in Levels
  BY DEF TypeInv, TypeOK
<1>3. cx'.level # client'.lvl
  BY <1>1, <1>2 DEF Unset, Levels
<1> QED BY <1>1, <1>3 DEF Doomed

\* dec_update returned early on the last record.
LEMMA UpdatePartMissed ==
  ASSUME TypeInv, ServerInv, UpdatePart, ~Fetched
  PROVE  Doomed'
<1>1. /\ spc = "upd_index" /\ spc' = "read" /\ n # CHUNK_SIZE /\ n > TAGSIZE
      /\ cx' = cx /\ UNCHANGED <<client, rx, part>> /\ UpdateInv
  BY DEF UpdatePart, sender, progress, TypeInv, HandInv, ServerInv
<1>2. rx \in Nat /\ n \in 0..CHUNK_SIZE /\ client.len \in Nat
  BY Types
<1>3. part /\ rx = client.len + TAGSIZE /\ cx.mlen = rx - n
  BY <1>1 DEF UpdateInv, Absorbed, StreamLen
<1>4. cx.mlen # client.len
  BY <1>1, <1>2, <1>3, SizeFacts
<1>5. Skipped'
  BY <1>1, <1>3, <1>4 DEF Skipped, StreamLen
<1> QED BY <1>1, <1>5 DEF Doomed

\* Every step of such a transfer is one it takes under Safe, or dooms it.
LEMMA NextSound ==
  ASSUME LevelKept, TypeInv, WireInv, PathInv, Sound, [Next]_vars
  PROVE  Sound' \/ Doomed'
<1>0. client.lvl = Level /\ FileInv /\ ServerInv /\ ModeInv /\ spc # "down"
  BY DEF Sound, PathInv, ModeInv, ServerInv
<1>1. ASSUME NEW size \in FileSizes, NEW lvl \in ClientLevels, Handshake(size, lvl)
      PROVE  Sound' \/ Doomed'
  BY <1>1, HandshakeReported
<1>2. CASE Client \/ Disconnect
  <2>1. /\ UNCHANGED <<rx, spc, mode, arrays, cx, evp, file, verdict, progress>>
        /\ client'.len = client.len /\ client'.lvl = client.lvl
    BY <1>2 DEF Client, ClientChunk, ClientTail, ClientTail2, Disconnect, Progress
  <2> QED BY <1>0, <2>1, QuietSafe DEF Sound
<1>3. ASSUME NEW m \in Modes, signal_handler(m) PROVE Sound'
  <2>1. /\ UNCHANGED <<client, rx, spc, arrays, cx, evp, file, verdict, progress>>
        /\ mode' = m
    BY <1>3 DEF signal_handler, sender
  <2>2. spc = "accept" \/ (mode' = 0 <=> mode = 0)
    BY <1>3, <2>1, SwitchKeepsPath
  <2>3. client'.len = client.len /\ client'.lvl = client.lvl
    BY <2>1
  <2> QED BY <1>0, <2>1, <2>2, <2>3, QuietSafe DEF Sound
<1>4. CASE InitLevel \/ UpdLevel
  <2>1. /\ UNCHANGED <<client, rx, mode, arrays, cx, evp, file, verdict, progress>>
        /\ \/ spc = "init_level" /\ spc' = "init_index"
           \/ spc = "upd_level" /\ spc' = "upd_index"
    BY <1>4 DEF InitLevel, UpdLevel, FetchLevel, sender
  <2> QED BY <1>0, <2>1, QuietSafe DEF Sound
<1>5. CASE Close
  BY <1>5 DEF Close, Doomed
<1>6. CASE UNCHANGED vars
  <2>1. UNCHANGED <<client, rx, spc, mode, arrays, cx, evp, file, verdict, progress>>
    BY <1>6 DEF vars, arrays, progress
  <2> QED BY <1>0, <2>1, QuietSafe DEF Sound
<1>7. CASE (InitIndex \/ UpdateFull \/ UpdatePart) /\ ~Fetched
  <2>1. CASE InitIndex
    BY <1>7, <2>1, InitIndexMissed
  <2>2. CASE UpdateFull
    BY <1>7, <2>2 DEF UpdateFull, Doomed
  <2>3. CASE UpdatePart
    BY <1>0, <1>7, <2>3, UpdatePartMissed
  <2> QED BY <1>7, <2>1, <2>2, <2>3
<1>8. ASSUME \/ Choose \/ Choose0 \/ ReadData \/ ReadTail \/ ReadEnd
             \/ NReadData \/ NReadTail \/ NReadEnd
             \/ (InitIndex \/ UpdateFull \/ UpdatePart) /\ Fetched
      PROVE  Sound'
  <2>1. client' = client
    BY <1>8 DEF Choose, Choose0, ReadData, ReadTail, ReadEnd, NReadData, NReadTail,
                NReadEnd, InitIndex, UpdateFull, UpdatePart, Receive, sender
  <2>2. FileInv' /\ ServerInv'
    BY <1>0, <1>8, StartSafe, ReadDataSafe, ReadTailSafe, UpdateFullSafe, UpdatePartSafe,
       ReadEndSafe, NReadDataSafe, NReadTailSafe, NReadEndSafe
  <2> QED BY <1>0, <2>1, <2>2 DEF Sound
<1> QED BY <1>1, <1>2, <1>3, <1>4, <1>5, <1>6, <1>7, <1>8 DEF Next, Server

------------------------------------------------------------------------------
\* A doomed transfer.

\* No record follows one that was skipped.
LEMMA NothingFollows ==
  ASSUME TypeInv, WireInv, Skipped, Receive
  PROVE  FALSE
<1>1. rx = StreamLen /\ wire \in Seq(Record) /\ wire # <<>> /\ rx \in Nat
  BY Types DEF Skipped, Receive
<1>2. 1 \in 1..Len(wire) /\ wire[1] \in Record
  BY <1>1
<1>3. wire[1].off = rx /\ wire[1].off + wire[1].len <= StreamLen
  BY <1>2 DEF WireInv, RecordInv, End
<1>4. wire[1].len >= 1 /\ wire[1].len \in Nat
  BY <1>2, SizeFacts DEF Record
<1> QED BY <1>1, <1>3, <1>4

\* Every step leaves it doomed, until the next client comes.
LEMMA NextDoomed ==
  ASSUME LevelKept, TypeInv, WireInv, PathInv, Doomed, [Next]_vars
  PROVE  Sound' \/ Doomed'
<1>1. ASSUME NEW size \in FileSizes, NEW lvl \in ClientLevels, Handshake(size, lvl)
      PROVE  Sound' \/ Doomed'
  BY <1>1, HandshakeReported
<1>2. CASE Client \/ Disconnect
  <2>1. /\ UNCHANGED <<rx, spc, mode, cx, verdict, part>>
        /\ client'.len = client.len /\ client'.lvl = client.lvl
    BY <1>2 DEF Client, ClientChunk, ClientTail, ClientTail2, Disconnect, Progress, progress
  <2> QED BY <2>1 DEF Doomed, Skipped, StreamLen
<1>3. ASSUME NEW m \in Modes, signal_handler(m) PROVE Doomed'
  <2>1. UNCHANGED <<client, rx, spc, cx, verdict, part>> /\ mode' = m
    BY <1>3 DEF signal_handler, sender, progress
  <2>2. spc = "accept" \/ (mode' = 0 <=> mode = 0)
    BY <1>3, <2>1, SwitchKeepsPath
  <2> QED BY <2>1, <2>2 DEF Doomed, Skipped, StreamLen
<1>4. CASE Choose \/ InitLevel \/ UpdLevel
  BY <1>4 DEF Choose, InitLevel, UpdLevel, FetchLevel, sender, Doomed, Skipped
<1>5. CASE InitIndex
  <2>1. CASE Fetched
    <3>1. cx'.level = slevel /\ spc = "init_index" /\ spc' = "read" /\ client' = client
      BY <1>5, <2>1 DEF InitIndex, ed_init, NewContext, sender
    <3>2. slevel = Level /\ client.lvl # Level
      BY <3>1 DEF PathInv, Doomed
    <3> QED BY <3>1, <3>2 DEF Doomed
  <2>2. CASE ~Fetched
    BY <1>5, <2>2, InitIndexMissed
  <2> QED BY <2>1, <2>2
<1>6. CASE ReadData \/ ReadTail
  <2>1. Receive /\ spc = "read" /\ spc' \in {"read", "upd_level"} /\ client' = client
    BY <1>6 DEF ReadData, ReadTail, Receive
  <2>2. cx.level # client.lvl
    BY <2>1, NothingFollows DEF Doomed
  <2>3. cx'.level = cx.level
    BY <1>6 DEF ReadData, ReadTail, Retract
  <2> QED BY <2>1, <2>2, <2>3 DEF Doomed
<1>7. CASE UpdateFull \/ UpdatePart
  <2>1. spc = "upd_index" /\ spc' \in {"read", "down"} /\ client' = client
    BY <1>7 DEF UpdateFull, UpdatePart, sender
  <2>2. cx' = cx \/ \E k : cx' = dec_update(cx, buffer, k)
    BY <1>7 DEF UpdateFull, UpdatePart
  <2>3. cx'.level = cx.level
    BY <2>2 DEF dec_update
  <2>4. cx.level # client.lvl
    BY <2>1 DEF Doomed, Skipped
  <2> QED BY <2>1, <2>3, <2>4 DEF Doomed
<1>8. CASE ReadEnd
  <2>1. /\ spc = "read" /\ spc' = "choose0" /\ mode' = mode /\ mode # 0
        /\ cx' = FinalContext /\ client' = client
        /\ Check(dec_final(cx', tag, tp, client.len, client.lvl))
    BY <1>8 DEF ReadEnd, sender, PathInv, BackendPoints
  <2>2. ~dec_final(cx', tag, tp, client.len, client.lvl)
    BY <2>1 DEF Doomed, Skipped, FinalContext, dec_final
  <2>3. "bad" \in verdict'
    BY <2>1, <2>2 DEF Check
  <2> QED BY <2>1, <2>3 DEF Doomed
<1>9. CASE Choose0
  BY <1>9 DEF Choose0, Doomed, sender
<1>10. CASE NReadData \/ NReadTail
  BY <1>10 DEF NReadData, NReadTail, Receive, Doomed
<1>11. CASE NReadEnd
  <2>1. spc = "nread" /\ spc' = "saved" /\ Check(EvpFinal)
    BY <1>11 DEF NReadEnd
  <2>2. ~EvpFinal
    BY <2>1 DEF Doomed, EvpFinal
  <2>3. "bad" \in verdict'
    BY <2>1, <2>2 DEF Check
  <2> QED BY <2>1, <2>3 DEF Doomed
<1>12. CASE Close
  BY <1>12 DEF Close, Doomed
<1>13. CASE UNCHANGED vars
  BY <1>13 DEF vars, Doomed, Skipped, StreamLen
<1> QED BY <1>1, <1>2, <1>3, <1>4, <1>5, <1>6, <1>7, <1>8, <1>9, <1>10, <1>11, <1>12, <1>13
        DEF Next, Server

------------------------------------------------------------------------------
\* The invariant holds when the port starts, and every step preserves it.
LEMMA InitReported == Init => Reported
BY InitInv DEF Init, Inv, ModeInv, PathInv, Sound, Reported

LEMMA NextReported ==
  ASSUME LevelKept, Reported, [Next]_vars
  PROVE  Reported'
<1>1. TypeInv /\ WireInv /\ PathInv /\ (Sound \/ Doomed)
  BY DEF Reported
<1>2. TypeInv' /\ WireInv' /\ PathInv'
  BY <1>1, NextType, NextWire, NextPath
<1>3. Sound' \/ Doomed'
  BY <1>1, NextSound, NextDoomed
<1> QED BY <1>2, <1>3 DEF Reported

\* For any backend numbers the port is switched to, registered or not, and any
\* ciphers its clients use, createserver saves no wrong file without a TAG
\* MISMATCH: the result of ed_init and, on the last record, of dec_update may
\* be ignored because the tag check sees the difference.
THEOREM DamageIsReported == ASSUME LevelKept PROVE Spec => []SilentIsIntact
<1>1. Reported => SilentIsIntact
  <2> SUFFICES ASSUME Reported, spc = "saved", "bad" \notin verdict PROVE Whole
    BY DEF SilentIsIntact
  <2>1. FileInv /\ ServerInv
    BY DEF Reported, Doomed, Sound
  <2>2. Len(file) = client.len
    BY <2>1 DEF ServerInv, CheckedInv
  <2> QED BY <2>1, <2>2 DEF FileInv, FilePrefix, Whole
<1>2. Reported /\ [Next]_vars => Reported'
  BY NextReported
<1> QED BY <1>1, <1>2, InitReported, PTL DEF Spec
==============================================================================
