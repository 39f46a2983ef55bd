--------------------------- MODULE MCListenerPage ---------------------------
(* Small instances of ListenerPage.                                         *)
EXTENDS ListenerPage, TLC

(* The streams may be swapped. *)
StreamSymmetry == Permutations(Stream)
=============================================================================
