----------------------------- MODULE RateLimiter -----------------------------
(***************************************************************************)
(* The token buckets that listeners' requests are counted in, one limiter  *)
(* for each layer.  A bucket is a pair of tokens and the moment they were  *)
(* counted at, kept only for keys that have asked; every so many requests  *)
(* the buckets that are full again are dropped, and if too many are left,  *)
(* those that were used longest ago.  What is kept and when it is dropped  *)
(* should not show: TokenBuckets says what the limiter promises.           *)
(*                                                                         *)
(* The unit of tokens is what a bucket gains in one tick, so that one      *)
(* request costs Cost units.  Names carry the limiter's own, since a       *)
(* module that composes components extends this one.                       *)
(***************************************************************************)
EXTENDS Integers, FiniteSets

CONSTANTS
    Key,            \* addresses, client ids, connection ids
    Burst, Cost,    \* what a full bucket holds, and what a request takes
    MaxKeys,        \* maxKeys
    PruneEvery,     \* requests between two prunings
    SecondTicks,    \* ticks of a second
    MaxTakes, MaxNow  \* bounds: requests, and the clock

ASSUME RateLimiterAssumption ==
    /\ Burst \in Nat /\ Cost \in Nat \ {0} /\ Cost <= Burst
    /\ MaxKeys \in Nat \ {0} /\ PruneEvery \in Nat \ {0} /\ SecondTicks \in Nat \ {0}
    /\ MaxTakes \in Nat /\ MaxNow \in Nat

VARIABLES
    now,
    takes,
    held,           \* the keys of buckets
    bucket,         \* their tokens, updatedAt and, for the order of the map, the take that used them last
    answer          \* the last answer

limiterVars == <<now, takes, held, bucket, answer>>

Unused == [tokens |-> Burst, at |-> 0, used |-> 0]

LimiterInit ==
    /\ now = 0 /\ takes = 0
    /\ held = {} /\ bucket = [k \in Key |-> Unused]
    /\ answer = [key |-> "none"]

\* The tokens of a bucket by now, the limit of a full one aside.
Refilled(b) == b.tokens + (now - b.at)

Smaller(m, n) == IF m <= n THEN m ELSE n

Tokens(k) == IF k \in held THEN Smaller(Burst, Refilled(bucket[k])) ELSE Burst

\* The ticks until there is a token, in whole seconds and at least one.
RetryAfter(tokens) == SecondTicks * (((Cost - tokens) + (SecondTicks - 1)) \div SecondTicks)

Answer(k) ==
    IF Tokens(k) >= Cost THEN [key |-> k, allowed |-> TRUE]
    ELSE [key |-> k, allowed |-> FALSE, retry |-> RetryAfter(Tokens(k))]

Used(k) ==
    [bucket EXCEPT ![k] = [tokens |-> IF Tokens(k) >= Cost THEN Tokens(k) - Cost ELSE Tokens(k),
                           at |-> now, used |-> takes + 1]]

\* Mutant: a bucket with a token to give is taken for a full one.
NotFull_WithToken(keys, b) == {k \in keys : Refilled(b[k]) < Cost}

NotFull(keys, b) == {k \in keys : Refilled(b[k]) < Burst}

\* The keys of a set that were used before one of them.
UsedBefore(k, keys, b) == {j \in keys : b[j].used < b[k].used}

\* Mutant: the most recently used are dropped.
Pruned_Newest(keys, b) ==
    {k \in NotFull(keys, b) : Cardinality(UsedBefore(k, NotFull(keys, b), b)) < MaxKeys}

\* prune: as many as there are too many go, those used longest ago first.
Pruned(keys, b) ==
    {k \in NotFull(keys, b) :
        Cardinality(UsedBefore(k, NotFull(keys, b), b)) >= Cardinality(NotFull(keys, b)) - MaxKeys}

TakeToken(k) ==
    /\ takes < MaxTakes
    /\ takes' = takes + 1
    /\ answer' = Answer(k)
    /\ bucket' = Used(k)
    /\ held' = IF (takes + 1) % PruneEvery = 0 THEN Pruned(held \cup {k}, Used(k)) ELSE held \cup {k}
    /\ UNCHANGED now

TimePassesBy ==
    /\ now < MaxNow
    /\ now' = now + 1
    /\ UNCHANGED <<takes, held, bucket, answer>>

LimiterNext == TimePassesBy \/ \E k \in Key : TakeToken(k)

LimiterSpec == LimiterInit /\ [][LimiterNext]_limiterVars

-----------------------------------------------------------------------------
(* Every variable has its type, and the moments and takes of buckets lie in the past. *)
LimiterTypeOK ==
    /\ now \in Nat /\ takes \in Nat
    /\ held \subseteq Key /\ IsFiniteSet(held)
    /\ bucket \in [Key -> [tokens : 0 .. Burst, at : Nat, used : Nat]]
    /\ \A k \in Key : bucket[k].at <= now /\ bucket[k].used <= takes

(* The buckets that are kept stand for one of every key: dropping those that are full again     *)
(* does not show, and only a flood of keys makes the limiter forget one, which is never the one   *)
(* that asks (take, prune).                                                                       *)
Promise == INSTANCE TokenBuckets WITH level <- [k \in Key |-> Tokens(k)]
KeepsPromise == Promise!Spec

(* The memory is bounded: between two prunings at most one bucket is added by each request.     *)
MemoryIsBounded == Cardinality(held) <= MaxKeys + (takes % PruneEvery)
=============================================================================
