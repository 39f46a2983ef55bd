---------------------------- MODULE TokenBuckets ----------------------------
(***************************************************************************)
(* What a rate limiter promises: a bucket for every key that ever asks,    *)
(* each full at first and filled again as time passes.  Only a flood of    *)
(* keys makes it forget some: never the one that asks, and nobody unless   *)
(* more keys than MaxKeys are short of a full bucket.                      *)
(*                                                                         *)
(* The unit is what a bucket gains in one tick.                            *)
(***************************************************************************)
EXTENDS Integers, FiniteSets

CONSTANTS Key, Burst, Cost, MaxKeys

VARIABLES level, answer

Least(m, n) == IF m <= n THEN m ELSE n

Init == level = [k \in Key |-> Burst] /\ answer = [key |-> "none"]

Charged(k) == [level EXCEPT ![k] = IF @ >= Cost THEN @ - Cost ELSE @]

Short(lev) == {k \in Key : lev[k] < Burst}

\* Whoever is refused learns a time after which the bucket is full enough.
Answers(k) ==
    IF level[k] >= Cost THEN {[key |-> k, allowed |-> TRUE]}
    ELSE {r \in [key : {k}, allowed : {FALSE}, retry : Nat] : level[k] + r.retry >= Cost}

Take(k) ==
    /\ answer' \in Answers(k)
    /\ \E forgotten \in SUBSET (Key \ {k}) :
          /\ forgotten # {} => Cardinality(Short(Charged(k))) > MaxKeys
          /\ level' = [j \in Key |-> IF j \in forgotten THEN Burst ELSE Charged(k)[j]]

Tick ==
    /\ level' = [k \in Key |-> Least(Burst, level[k] + 1)]
    /\ UNCHANGED answer

Next == Tick \/ \E k \in Key : Take(k)

Spec == Init /\ [][Next]_<<level, answer>>
=============================================================================
