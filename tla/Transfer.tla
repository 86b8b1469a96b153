------------------------------- MODULE Transfer -------------------------------
(***************************************************************************)
(* One port of the server (createserver in server_f.c) and the clients     *)
(* that upload files to it one after the other (cltest.c), over a TLS      *)
(* connection that keeps order and may break at any moment, while          *)
(* SIGUSR1 changes the mode byte under the receive loop.                   *)
(*                                                                         *)
(* The server is a single thread: spc is the point of createserver it has  *)
(* reached, and the only steps that interleave with it are the client's    *)
(* and the signal handler's.  A point is kept wherever the code reads      *)
(* mode or waits for a record.                                             *)
(***************************************************************************)
EXTENDS Gcm

CONSTANTS
  CHUNK_SIZE,    \* bytes of a full record
  FileSizes,     \* sizes of the files that clients send
  Level,         \* security level of the port: 2 on 5544, 1 on 5545
  ClientLevels,  \* levels of the ciphers clients choose with -s
  Lib,           \* backends <<level, number>> in LIB/lib_enc.so
  InitMode,      \* mode at start: 0x62 on 5544, 0x52 on 5545
  Modes,         \* values sent with SIGUSR1
  SwitchAt,      \* points of the server at which they may arrive
  NativeAt       \* those of them at which mode 0 may be selected or left

ASSUME ChunkAssumption ==
  /\ CHUNK_SIZE \in Nat
  /\ CHUNK_SIZE >= 2 * TAGSIZE
  /\ CHUNK_SIZE % TAGSIZE = 0

Levels == 0..3
Points == {"accept", "choose", "init_level", "init_index", "read", "upd_level",
           "upd_index", "choose0", "nread", "saved", "down"}

ASSUME ParameterAssumption ==
  /\ FileSizes \subseteq Nat
  /\ Level \in Levels
  /\ ClientLevels \subseteq Levels
  /\ Lib \subseteq Levels \X (0..15)
  /\ InitMode \in Nat
  /\ Modes \subseteq Nat
  /\ SwitchAt \subseteq Points \ {"down"}
  /\ NativeAt \subseteq SwitchAt

VARIABLES
  client,    \* the uploading client: where it is, file size, cipher, bytes sent
  wire,      \* records sent and not yet read, oldest first
  rx,        \* bytes of the stream read so far in this transfer
  spc,       \* point reached by the server
  mode,      \* the volatile mode byte
  slevel,    \* the level that fetch read from mode before the number
  n,         \* readbytes of the record in hand
  ct,        \* full records received
  part,      \* a shorter record was received
  buffer, outmsg, tag, tp,   \* the arrays of createserver and the tag pointer
  cx,        \* the EDcontext of the backend path
  evp,       \* bytes the OpenSSL context of the native path has absorbed
  file,      \* bytes written to the file in Downloads
  verdict    \* results of the tag checks made: "ok" prints nothing

sender   == <<client, wire>>
arrays   == <<buffer, outmsg, tag, tp>>
progress == <<n, ct, part>>
vars == <<client, wire, rx, spc, mode, slevel, n, ct, part, buffer, outmsg,
          tag, tp, cx, evp, file, verdict>>

\* Bytes on the wire for the file of the current client.
StreamLen == client.len + TAGSIZE

Record == [off : Nat, len : 1..CHUNK_SIZE]
Bytes(r) == [i \in 1..r.len |-> r.off + i - 1]

Init ==
  /\ client = [pc |-> "idle", len |-> 0, lvl |-> Level, sent |-> 0]
  /\ wire = <<>> /\ rx = 0
  /\ spc = "accept" /\ mode = InitMode /\ slevel = 0
  /\ n = 0 /\ ct = 0 /\ part = FALSE
  /\ buffer = Blank(CHUNK_SIZE) /\ outmsg = Blank(CHUNK_SIZE)
  /\ tag = Blank(2 * TAGSIZE) /\ tp = 0
  /\ cx = NewContext(Unset) /\ evp = <<>>
  /\ file = <<>> /\ verdict = {}

------------------------------------------------------------------------------
(***************************************************************************)
(* The client.  It writes a record for every CHUNK_SIZE bytes read, then   *)
(* the remaining bytes with the tag: in one record when they fit below     *)
(* CHUNK_SIZE, otherwise in a full record and a short one (none when       *)
(* nothing is left: a write of 0 bytes sends no record).                   *)
(***************************************************************************)
Progress(pc, sent) ==
  client' = [pc |-> pc, len |-> client.len, lvl |-> client.lvl, sent |-> sent]

Write(len) == wire' = Append(wire, [off |-> client.sent, len |-> len])

ClientChunk ==
  /\ client.pc = "send"
  /\ client.len - client.sent >= CHUNK_SIZE
  /\ Write(CHUNK_SIZE)
  /\ Progress("send", client.sent + CHUNK_SIZE)
  /\ UNCHANGED <<rx, spc, mode, slevel, progress, arrays, cx, evp, file, verdict>>

\* outlen + TAG_SIZE
TailLen == StreamLen - client.sent

\* Mutation of ClientTail: the last record is never split.
ClientTail_OneRecord ==
  /\ client.pc = "send"
  /\ client.len - client.sent < CHUNK_SIZE
  /\ Write(TailLen)
  /\ Progress("closed", StreamLen)
  /\ UNCHANGED <<rx, spc, mode, slevel, progress, arrays, cx, evp, file, verdict>>

ClientTail ==
  /\ client.pc = "send"
  /\ client.len - client.sent < CHUNK_SIZE
  /\ IF TailLen < CHUNK_SIZE
     THEN /\ Write(TailLen)
          /\ Progress("closed", StreamLen)
     ELSE /\ Write(CHUNK_SIZE)
          /\ Progress("tail", client.sent + CHUNK_SIZE)
  /\ UNCHANGED <<rx, spc, mode, slevel, progress, arrays, cx, evp, file, verdict>>

ClientTail2 ==
  /\ client.pc = "tail"
  /\ IF TailLen > 0 THEN Write(TailLen) ELSE UNCHANGED wire
  /\ Progress("closed", StreamLen)
  /\ UNCHANGED <<rx, spc, mode, slevel, progress, arrays, cx, evp, file, verdict>>

\* The client is killed or the connection breaks: the records that have not
\* reached the server, a cut one included, are lost, and SSL_read_ex fails
\* after the others.
Disconnect ==
  /\ client.pc # "idle"
  /\ \E k \in 0..Len(wire) : wire' = SubSeq(wire, 1, k)
  /\ Progress("closed", client.sent)
  /\ UNCHANGED <<rx, spc, mode, slevel, progress, arrays, cx, evp, file, verdict>>

------------------------------------------------------------------------------
\* SIGUSR1 interrupts the server between any two of its instructions.
signal_handler(m) ==
  /\ spc \in SwitchAt
  /\ 0 \in {mode, m} => spc \in NativeAt
  /\ mode' = m
  /\ UNCHANGED <<sender, rx, spc, slevel, progress, arrays, cx, evp, file, verdict>>

------------------------------------------------------------------------------
\* accept, SSL_accept, the key export, which gives both sides the same key,
\* and the new file and outmsg.  buffer and tag keep bytes of earlier
\* sessions, outmsg is fresh memory: nothing of this session.  The counters
\* keep their old values; the contexts are allocated again before their use.
Handshake(size, lvl) ==
  /\ spc = "accept" /\ client.pc = "idle"
  /\ client' = [pc |-> "send", len |-> size, lvl |-> lvl, sent |-> 0]
  /\ rx' = 0 /\ file' = <<>> /\ verdict' = {}
  /\ buffer' = Blank(CHUNK_SIZE) /\ outmsg' = Blank(CHUNK_SIZE)
  /\ tag' = Blank(2 * TAGSIZE) /\ tp' = 0
  /\ cx' = NewContext(Unset) /\ evp' = <<>>
  /\ spc' = "choose"
  /\ UNCHANGED <<wire, mode, slevel, progress>>

\* First test of mode.
Choose ==
  /\ spc = "choose"
  /\ spc' = IF mode # 0 THEN "init_level" ELSE "choose0"
  /\ UNCHANGED <<sender, rx, mode, slevel, progress, arrays, cx, evp, file, verdict>>

\* fetch evaluates mode twice: the level, then the number.
FetchLevel(at, next) ==
  /\ spc = at /\ spc' = next
  /\ slevel' = sbits(mode)
  /\ UNCHANGED <<sender, rx, mode, progress, arrays, cx, evp, file, verdict>>

\* Mutation of Fetched: backends numbered from 0.
Fetched_FromZero == <<slevel, ibits(mode) - 1>> \in Lib

\* dlsym finds the backend that the two reads name.
Fetched == <<slevel, ibits(mode)>> \in Lib

InitLevel == FetchLevel("init_level", "init_index")

\* The return value of ed_init is not looked at.
InitIndex ==
  /\ spc = "init_index" /\ spc' = "read"
  /\ cx' = ed_init(Fetched, slevel)
  /\ ct' = 0 /\ part' = FALSE
  /\ UNCHANGED <<sender, rx, mode, slevel, n, arrays, evp, file, verdict>>

------------------------------------------------------------------------------
(***************************************************************************)
(* The backend path.  The last TAGSIZE bytes of a full record may be tag:  *)
(* they are decrypted with the rest but stay in outmsg until the next      *)
(* record shows how many of them are data.                                 *)
(***************************************************************************)

\* SSL_read_ex returns the next record, written over the start of buffer.
Receive ==
  /\ wire # <<>>
  /\ wire' = Tail(wire)
  /\ rx' = Head(wire).off + Head(wire).len
  /\ n' = Head(wire).len
  /\ buffer' = memcpy(buffer, 0, Bytes(Head(wire)))
  /\ UNCHANGED <<client, mode, slevel, verdict>>

\* Mutation of HeldBack: bytes are held back before any full record.
HeldBack_Always(k) == Slice(outmsg, CHUNK_SIZE - TAGSIZE, k)

\* The first k held-back bytes of the previous full record, now data.
HeldBack(k) == IF ct > 0 THEN Slice(outmsg, CHUNK_SIZE - TAGSIZE, k) ELSE <<>>

\* A record with data in it goes on to dec_update.
ReadData ==
  /\ spc = "read"
  /\ Receive /\ n' > TAGSIZE
  /\ file' = file \o HeldBack(TAGSIZE)
  /\ part' = (part \/ n' # CHUNK_SIZE)
  /\ spc' = "upd_level"
  /\ UNCHANGED <<ct, outmsg, tag, tp, cx, evp>>

\* The context when only k of the last TAGSIZE bytes absorbed were data: the
\* last block is absorbed again without the others, which are still at the
\* end of buf.
Retract(k, buf) ==
  LET again == addmul(cx.paccum, Slice(buf, CHUNK_SIZE - TAGSIZE, k))
  IN  [level |-> cx.level, ctr |-> cx.ctr, mlen |-> cx.mlen - (TAGSIZE - k),
       accum |-> again, paccum |-> again]

\* The end of a tag whose start came with the previous full record.
ReadTail ==
  /\ spc = "read"
  /\ Receive /\ n' <= TAGSIZE
  /\ part' = TRUE
  /\ tag' = memcpy(tag, TAGSIZE, Slice(buffer', 0, n'))
  /\ tp' = n'
  /\ file' = file \o HeldBack(n')
  /\ cx' = IF ct > 0 THEN Retract(n', buffer') ELSE cx
  /\ UNCHANGED <<spc, ct, outmsg, evp>>

UpdLevel == FetchLevel("upd_level", "upd_index")

\* outmsg after dec_update of len bytes, unchanged when it returned early.
Output(len) ==
  IF Fetched THEN memcpy(outmsg, 0, Decrypted(cx, buffer, len, slevel, client.lvl))
             ELSE outmsg

\* Mutation of Store: the whole record is written.
Store_WithTag(len) ==
  /\ file' = file \o Slice(outmsg', 0, len + TAGSIZE)
  /\ tag' = memcpy(tag, 0, Slice(buffer, n - TAGSIZE, TAGSIZE))

\* What follows dec_update: the bytes that are certainly data are written,
\* the last TAGSIZE ones of the record are kept as a possible tag.
Store(len) ==
  /\ file' = file \o Slice(outmsg', 0, len)
  /\ tag' = memcpy(tag, 0, Slice(buffer, n - TAGSIZE, TAGSIZE))

\* Mutation of UpdateFull: a backend that is not found is looked up again.
UpdateFull_Retry ==
  /\ spc = "upd_index" /\ n = CHUNK_SIZE
  /\ outmsg' = Output(CHUNK_SIZE)
  /\ IF Fetched
     THEN /\ cx' = dec_update(cx, buffer, CHUNK_SIZE)
          /\ Store(CHUNK_SIZE - TAGSIZE)
          /\ ct' = ct + 1
          /\ spc' = "read"
     ELSE UNCHANGED <<spc, cx, file, tag, ct>>
  /\ UNCHANGED <<sender, rx, mode, slevel, n, part, buffer, tp, evp, verdict>>

\* A full record is decrypted whole; if the backend is not found the loop is
\* left by goto outg and the process ends.
UpdateFull ==
  /\ spc = "upd_index" /\ n = CHUNK_SIZE
  /\ outmsg' = Output(CHUNK_SIZE)
  /\ IF Fetched
     THEN /\ cx' = dec_update(cx, buffer, CHUNK_SIZE)
          /\ Store(CHUNK_SIZE - TAGSIZE)
          /\ ct' = ct + 1
          /\ spc' = "read"
     ELSE /\ spc' = "down"
          /\ UNCHANGED <<cx, file, tag, ct>>
  /\ UNCHANGED <<sender, rx, mode, slevel, n, part, buffer, tp, evp, verdict>>

\* Mutation of UpdatePart: the record is absorbed before the backend is
\* looked up.
UpdatePart_HashFirst ==
  /\ spc = "upd_index" /\ n # CHUNK_SIZE
  /\ outmsg' = Output(n - TAGSIZE)
  /\ cx' = dec_update(cx, buffer, n - TAGSIZE)
  /\ Store(n - TAGSIZE)
  /\ spc' = "read"
  /\ UNCHANGED <<sender, rx, mode, slevel, progress, buffer, tp, evp, verdict>>

\* A shorter record ends with the tag; here the result of dec_update is not
\* looked at.
UpdatePart ==
  /\ spc = "upd_index" /\ n # CHUNK_SIZE
  /\ outmsg' = Output(n - TAGSIZE)
  /\ cx' = IF Fetched THEN dec_update(cx, buffer, n - TAGSIZE) ELSE cx
  /\ Store(n - TAGSIZE)
  /\ spc' = "read"
  /\ UNCHANGED <<sender, rx, mode, slevel, progress, buffer, tp, evp, verdict>>

\* Mutation of FinalContext: the tag is left in the hash.
FinalContext_NoTrim == cx

\* The context dec_final works on: without a shorter record, the last block
\* of the last full one was the tag.
FinalContext ==
  IF part THEN cx
  ELSE [level |-> cx.level, ctr |-> cx.ctr, mlen |-> cx.mlen - TAGSIZE,
        accum |-> cx.paccum, paccum |-> cx.paccum]

\* SSL_read_ex fails: end of the stream.
Ended == wire = <<>> /\ client.pc = "closed"

Check(ok) == verdict' = verdict \cup {IF ok THEN "ok" ELSE "bad"}

\* Mutation of ReadEnd: the loop waits for a record shorter than CHUNK_SIZE.
ReadEnd_AfterPart ==
  /\ spc = "read" /\ Ended /\ part
  /\ cx' = FinalContext
  /\ Check(dec_final(cx', tag, tp, client.len, client.lvl))
  /\ spc' = "choose0"
  /\ UNCHANGED <<sender, rx, mode, slevel, progress, arrays, evp, file>>

ReadEnd ==
  /\ spc = "read" /\ Ended
  /\ cx' = FinalContext
  /\ Check(dec_final(cx', tag, tp, client.len, client.lvl))
  /\ spc' = "choose0"
  /\ UNCHANGED <<sender, rx, mode, slevel, progress, arrays, evp, file>>

------------------------------------------------------------------------------
(***************************************************************************)
(* The native path, entered by a second test of mode.  Here the last       *)
(* TAGSIZE bytes of a record wait in tag[], still encrypted.               *)
(***************************************************************************)
Choose0 ==
  /\ spc = "choose0"
  /\ IF mode = 0 THEN spc' = "nread" /\ evp' = <<>> /\ ct' = 0
                 ELSE spc' = "saved" /\ UNCHANGED <<evp, ct>>
  /\ UNCHANGED <<sender, rx, mode, slevel, n, part, arrays, cx, file, verdict>>

\* EVP_DecryptUpdate on the bytes s, and the fwrite of what it returns.  The
\* cipher is the one of the port.
EvpStore(s) ==
  /\ evp' = evp \o s
  /\ file' = file \o [i \in 1..Len(s) |->
                        Decrypt(s[i], Len(evp) + i - 1, client.lvl = Level)]

\* The first k bytes waiting in tag[], now data.
Waiting(k) == IF ct > 0 THEN Slice(tag, 0, k) ELSE <<>>

NReadData ==
  /\ spc = "nread"
  /\ Receive /\ n' > TAGSIZE
  /\ EvpStore(Waiting(TAGSIZE) \o Slice(buffer', 0, n' - TAGSIZE))
  /\ tag' = memcpy(tag, 0, Slice(buffer', n' - TAGSIZE, TAGSIZE))
  /\ tp' = 0 /\ ct' = ct + 1
  /\ UNCHANGED <<spc, part, outmsg, cx>>

NReadTail ==
  /\ spc = "nread"
  /\ Receive /\ n' <= TAGSIZE
  /\ EvpStore(Waiting(n'))
  /\ tag' = memcpy(tag, TAGSIZE, Slice(buffer', 0, n'))
  /\ tp' = n'
  /\ UNCHANGED <<spc, ct, part, outmsg, cx>>

\* EVP_DecryptFinal accepts the whole ciphertext with its tag.
EvpFinal ==
  /\ client.lvl = Level
  /\ evp = [i \in 1..client.len |-> i - 1]
  /\ TagOfFile(tag, tp, client.len)

NReadEnd ==
  /\ spc = "nread" /\ Ended
  /\ Check(EvpFinal)
  /\ spc' = "saved"
  /\ UNCHANGED <<sender, rx, mode, slevel, progress, arrays, cx, evp, file>>

\* "File saved", then the connection is closed, also on a client that is
\* still sending: its next writes fail and it exits.
Close ==
  /\ spc = "saved" /\ spc' = "accept"
  /\ Progress("idle", client.sent)
  /\ wire' = <<>>
  /\ UNCHANGED <<rx, mode, slevel, progress, arrays, cx, evp, file, verdict>>

------------------------------------------------------------------------------
Client == ClientChunk \/ ClientTail \/ ClientTail2

\* A step of createserver that does not wait for a new client.
Server ==
  \/ Choose \/ InitLevel \/ InitIndex
  \/ ReadData \/ ReadTail
  \/ UpdLevel \/ UpdateFull \/ UpdatePart \/ ReadEnd
  \/ Choose0
  \/ NReadData \/ NReadTail
  \/ NReadEnd \/ Close

Next ==
  \/ \E size \in FileSizes, lvl \in ClientLevels : Handshake(size, lvl)
  \/ Client \/ Disconnect
  \/ \E m \in Modes : signal_handler(m)
  \/ Server

Spec == Init /\ [][Next]_vars

\* The server's own steps are taken as long as it can run, and a client that
\* has been accepted writes its file: nothing in the code bounds the time a
\* read waits for a client that stalls without closing.
LiveSpec == Spec /\ WF_vars(Server) /\ WF_vars(Client)

------------------------------------------------------------------------------
\* The variables have their types: no record is longer than buffer, and no
\* copy or pointer leaves its array.
TypeOK ==
  /\ client \in [pc : {"idle", "send", "tail", "closed"}, len : Nat,
                 lvl : Levels, sent : Nat]
  /\ wire \in Seq(Record) /\ rx \in Nat
  /\ spc \in Points /\ mode \in Nat /\ slevel \in Levels
  /\ n \in 0..CHUNK_SIZE /\ ct \in Nat /\ part \in BOOLEAN
  /\ buffer \in [0..(CHUNK_SIZE - 1) -> Byte]
  /\ outmsg \in [0..(CHUNK_SIZE - 1) -> Byte]
  /\ tag \in [0..(2 * TAGSIZE - 1) -> Byte] /\ tp \in 0..TAGSIZE
  /\ cx \in EDcontext /\ evp \in Seq(Byte)
  /\ file \in Seq(Byte) /\ verdict \subseteq {"ok", "bad"}

\* The mode byte m selects a backend of the port's level that is in the
\* library: what synthesize sends.
OwnBackend(m) == sbits(m) = Level /\ <<Level, ibits(m)>> \in Lib

\* How the mode is switched by the tools that come with the server: between
\* registered backends of the port's level at any moment, to and from the
\* native path (mode 0) only while no transfer is running.
Disciplined ==
  /\ \A m \in Modes \cup {InitMode} : m = 0 \/ OwnBackend(m)
  /\ 0 \in Modes \cup {InitMode} => NativeAt \subseteq {"accept"}

\* The file in Downloads is the one the client has.
Whole == Len(file) = client.len /\ \A i \in 1..Len(file) : file[i] = i - 1

\* At every moment of a transfer the bytes written are the beginning of the
\* client's file: no byte is lost, duplicated, decrypted at the wrong
\* position, and no byte of the tag is ever written.
FilePrefix ==
  /\ Len(file) <= client.len
  /\ \A i \in 1..Len(file) : file[i] = i - 1

\* The receive loop never meets a mode it cannot serve: no switch ends the
\* process and with it the port.
NeverDown == spc # "down"

\* A transfer that arrived to the last byte is accepted, whatever way its tag
\* was split over records; one that was cut anywhere is reported.
VerdictExact ==
  spc = "saved" => verdict = {IF rx = StreamLen THEN "ok" ELSE "bad"}

\* A file saved without a TAG MISMATCH is complete and intact.
SilentIsIntact == spc = "saved" /\ "bad" \notin verdict => Whole

\* A client served is a client that leaves: the connection ends, with the port
\* listening again or with the process gone.
ConnectionEnds == spc = "choose" ~> spc \in {"accept", "down"}
==============================================================================
