------------------------------- MODULE MCOffice -------------------------------
(***************************************************************************)
(* The office on small instances of its parts.  A stream on the air has    *)
(* two publish sessions in turn, or one and the answers about it.          *)
(***************************************************************************)
EXTENDS Office, TLC

VARIABLE answers   \* a stream on the air is asked about

MCDeskLocks == <<1, 2>>

MCVars == <<officeVars, answers>>

MCInit == OfficeInit /\ answers \in {part = "air", FALSE}

MCNext ==
    /\ UNCHANGED answers
    /\ OfficeNext
    /\ part = "air" => IF answers THEN lease'.issued < 2 ELSE UNCHANGED build

MCSpec == MCInit /\ [][MCNext]_MCVars

(* The calls may be swapped, the passwords, and the programs. *)
OfficeSymmetry == Permutations(Call) \cup Permutations(Password) \cup Permutations(Program)
=============================================================================
