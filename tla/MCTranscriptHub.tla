-------------------------- MODULE MCTranscriptHub --------------------------
(* Small instances of TranscriptHub: which language each page follows.      *)
EXTENDS TranscriptHub, TLC

CONSTANTS p1, p2, hi

OneLanguage == (p1 :> hi @@ p2 :> hi)
EnglishPage == (p1 :> English)

(* Pages that follow the same language may be swapped. *)
PageSymmetry == Permutations({p1, p2})
=============================================================================
