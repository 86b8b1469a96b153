-------------------------- MODULE TransferInvariant --------------------------
(***************************************************************************)
(* What holds between two steps of Transfer when the mode is switched in a *)
(* disciplined way and clients use the cipher of the port: the inductive   *)
(* invariant behind the proofs, and the abstract specification that        *)
(* Transfer then implements.                                               *)
(***************************************************************************)
EXTENDS Transfer

\* The hypothesis on the constants.
Safe == Disciplined /\ ClientLevels \subseteq {Level}

\* The bytes of s are those of the stream from its beginning on.
InOrder(s) == \A i \in 1..Len(s) : s[i] = i - 1

\* The k bytes of array a from position from are those of the stream from
\* offset off on.
Holds(a, from, k, off) == \A j \in 0..(k - 1) : a[from + j] = off + j

BackendPoints == {"init_level", "init_index", "read", "upd_level", "upd_index"}

\* How far the client is, and the length of the record in hand when it goes to
\* dec_update: what makes the type invariant inductive.
SentInv ==
  /\ client.pc = "send" => client.sent <= client.len
  /\ client.pc = "tail" => client.sent <= StreamLen /\ TailLen < TAGSIZE
HandInv == spc \in {"upd_level", "upd_index"} => n > TAGSIZE

TypeInv == TypeOK /\ SentInv /\ HandInv

\* The records on the wire continue the stream where the server is, and only
\* the last record of the stream is shorter than CHUNK_SIZE.
End(i) == wire[i].off + wire[i].len
RecordInv(i) ==
  /\ End(i) <= StreamLen
  /\ wire[i].len = CHUNK_SIZE \/ End(i) = StreamLen
  /\ wire[i].off = IF i = 1 THEN rx ELSE End(i - 1)

WireInv ==
  /\ client.pc = "idle" <=> spc = "accept"
  /\ client.pc = "idle" => wire = <<>>
  /\ rx <= StreamLen
  /\ \A i \in 1..Len(wire) : RecordInv(i)
  /\ client.pc \in {"send", "tail"} =>
       client.sent = IF wire = <<>> THEN rx ELSE End(Len(wire))

\* The mode in force selects the path that is running, and a level fetched is
\* the port's.
ModeInv ==
  /\ mode \in Modes \cup {InitMode}
  /\ client.lvl = Level
  /\ spc \in BackendPoints => mode # 0
  /\ spc = "nread" => mode = 0
  /\ spc \in {"init_index", "upd_index"} => slevel = Level

\* Nothing has been received yet.
Fresh == rx = 0 /\ file = <<>> /\ verdict = {} /\ tp = 0 /\ tag[0] = Junk

\* The context has absorbed the first k bytes of the stream, full blocks.
Absorbed(k) ==
  /\ cx.level = Level
  /\ cx.ctr = k /\ cx.mlen = k
  /\ Len(cx.accum) = k /\ InOrder(cx.accum)

\* The whole stream has been processed, up to the tag check.
Complete ==
  /\ rx = StreamLen /\ Len(file) = client.len
  /\ TagOfFile(tag, tp, client.len)

\* The backend path before a record.
ReadInv ==
  \/ /\ ~part /\ ct = 0 /\ Fresh /\ Absorbed(0)
  \/ /\ ~part /\ ct > 0 /\ Absorbed(rx)
     /\ rx >= CHUNK_SIZE /\ Len(file) = rx - TAGSIZE
     /\ Len(cx.paccum) = rx - TAGSIZE /\ InOrder(cx.paccum)
     /\ Holds(outmsg, CHUNK_SIZE - TAGSIZE, TAGSIZE, rx - TAGSIZE)
     /\ Holds(buffer, CHUNK_SIZE - TAGSIZE, TAGSIZE, rx - TAGSIZE)
     /\ Holds(tag, 0, TAGSIZE, rx - TAGSIZE) /\ tp = 0
  \/ /\ part /\ Complete
     /\ cx.level = Level /\ cx.mlen = client.len
     /\ HashOfFile(cx.accum, client.len)

\* The backend path with a record in hand.
UpdateInv ==
  /\ n <= rx /\ tp = 0
  /\ Holds(buffer, 0, n, rx - n)
  /\ Absorbed(rx - n) /\ Len(file) = rx - n
  /\ part <=> n # CHUNK_SIZE
  /\ part => rx = StreamLen

\* The native path before a record.
NativeInv ==
  /\ Len(evp) = Len(file) /\ InOrder(evp)
  /\ \/ ct = 0 /\ Fresh
     \/ /\ ct > 0 /\ rx > TAGSIZE /\ Len(file) = rx - TAGSIZE
        /\ Holds(tag, 0, TAGSIZE, rx - TAGSIZE) /\ tp = 0
     \/ Complete

\* The tag has been checked.
CheckedInv ==
  /\ verdict = {IF rx = StreamLen THEN "ok" ELSE "bad"}
  /\ rx = StreamLen => Len(file) = client.len

ServerInv ==
  /\ spc # "down"
  /\ spc \in {"choose", "init_level", "init_index"} => Fresh
  /\ spc = "read" => ReadInv
  /\ spc \in {"upd_level", "upd_index"} => UpdateInv
  /\ spc = "choose0" => IF mode = 0 THEN Fresh ELSE CheckedInv
  /\ spc = "nread" => NativeInv
  /\ spc = "saved" => CheckedInv
  /\ spc \in {"read", "upd_level", "upd_index", "nread"} => verdict = {}

\* The bytes written lag behind the bytes received.
FileInv == FilePrefix /\ Len(file) <= rx

\* The inductive invariant of the receive loop: the records on the wire, the
\* buffers, the decryption context and the file agree, at every point of
\* createserver, on how much of the stream has been processed.
IndInv == SentInv /\ HandInv /\ WireInv /\ ModeInv /\ FileInv /\ ServerInv

------------------------------------------------------------------------------
\* A transfer in progress is receiving until its verdict is given.
Phase == CASE spc = "accept" -> "idle"
           [] spc = "saved" -> "done"
           [] OTHER -> "receiving"

Abstract == INSTANCE FileTransfer WITH
  Sizes <- FileSizes, Overhead <- TAGSIZE,
  phase <- Phase, size <- client.len, arrived <- rx, stored <- file,
  outcome <- IF Phase = "receiving" THEN {} ELSE verdict

\* The port keeps the promise of FileTransfer, whatever backends are switched
\* to in the middle of a transfer and wherever the connection breaks.
ImplementsFileTransfer == Abstract!Spec
==============================================================================
