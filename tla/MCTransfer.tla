------------------------------ MODULE MCTransfer ------------------------------
(***************************************************************************)
(* Instances of Transfer for TLC.  The record of 1024 bytes and the tag of *)
(* 16 are scaled down to three blocks of 2 or 3 bytes, so that a tag can be*)
(* split over two records and a last block can be short; the file sizes go *)
(* past two full records, so that every residue modulo CHUNK_SIZE occurs   *)
(* with and without a full record before it.                               *)
(***************************************************************************)
EXTENDS TransferInvariant

MCLib == {<<2, 1>>, <<2, 2>>, <<1, 1>>, <<1, 2>>}
AllSizes == 0..20
SomeSizes == {0, 3, 5, 6, 10}
Anywhere == Points \ {"down"}
Idle == {"accept"}
==============================================================================
