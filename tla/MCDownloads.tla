----------------------------- MODULE MCDownloads -----------------------------
(***************************************************************************)
(* Downloads with four names for TLC, one of which rand yields twice.      *)
(***************************************************************************)
EXTENDS Downloads

CONSTANTS f1, f2, f3, f4

MCNames == {f1, f2, f3, f4}
MCRand == <<f1, f2, f3, f2, f4>>
==============================================================================
