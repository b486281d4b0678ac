--------------------------- MODULE MCReplayWindow ---------------------------
(***************************************************************************)
(* ReplayWindow on words of two bits.  Three words and twelve numbers give  *)
(* shifts by no word, by one word and by two, with and without a carry      *)
(* between words, jumps over the whole window, and numbers older than it.   *)
(***************************************************************************)
EXTENDS ReplayWindow

MCSeqs == 0 .. 11
=============================================================================
