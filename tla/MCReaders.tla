----------------------------- MODULE MCReaders -----------------------------
(***************************************************************************)
(* Instance of Readers for TLC: the constants of the code divided so that  *)
(* a file has up to three portions and a portion three chunks.             *)
(***************************************************************************)
EXTENDS Readers
=============================================================================
