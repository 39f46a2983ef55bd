----------------------------- MODULE UserAccounts -----------------------------
(***************************************************************************)
(* The accounts of the people who manage programs: signing in behind the   *)
(* throttle, changing one's own password, and what the administrator does  *)
(* to the accounts of others.  A call waits whenever a password is hashed  *)
(* or a token is digested, and the other calls run meanwhile; what lies    *)
(* between two waits is one step.                                          *)
(***************************************************************************)
EXTENDS Integers, FiniteSets

CONSTANTS
    User,          \* ids of accounts of role user
    Address,       \* addresses that sign-ins come from
    Password,
    Call,          \* calls that can be under way at once
    None,
    UserLimit, AddressLimit,  \* failures for an account, from an address, that lock it
    WindowTicks, LockTicks,   \* how long failures are remembered, and a lock lasts
    MaxSession     \* bound: sessions ever issued

ASSUME UserAccountsAssumption ==
    /\ {UserLimit, AddressLimit, WindowTicks, LockTicks, MaxSession} \subseteq Nat
    /\ IsFiniteSet(Call) /\ WindowTicks <= LockTicks /\ {UserLimit, AddressLimit} \cap {0} = {}

VARIABLES
    users,         \* the password of each account, "unset" before there is one, None without account
    sessions,      \* admin_sessions: a number and the account it belongs to
    issued,        \* sessions issued so far
    attempts,      \* admin_login_attempts, a row for every account and every address
    calls          \* calls under way

vars == <<users, sessions, issued, attempts, calls>>

Bucket == User \cup Address

Limit(b) == IF b \in User THEN UserLimit ELSE AddressLimit

NoFailures == [age |-> WindowTicks, count |-> 0, lock |-> 0]

Idle == [phase |-> "idle"]

Init ==
    /\ users = [u \in User |-> None]
    /\ sessions = {} /\ issued = 0
    /\ attempts = [b \in Bucket |-> NoFailures]
    /\ calls = [c \in Call |-> Idle]

-----------------------------------------------------------------------------
(* The throttle *)

Locked(buckets) == \E b \in buckets : attempts[b].lock > 0

\* Mutant: the lock comes one failure too late.
WithFailure_Late(row, limit) ==
    LET n == IF row.age = WindowTicks THEN 1 ELSE row.count + 1
    IN  [age   |-> IF row.age = WindowTicks THEN 0 ELSE row.age,
         count |-> n,
         lock  |-> IF row.lock > 0 THEN row.lock ELSE IF n > limit THEN LockTicks ELSE 0]

\* A row after one more failure: a lock that is on is neither dropped nor extended.
WithFailure(row, limit) ==
    LET n == IF row.age = WindowTicks THEN 1 ELSE row.count + 1
    IN  [age   |-> IF row.age = WindowTicks THEN 0 ELSE row.age,
         count |-> n,
         lock  |-> IF row.lock > 0 THEN row.lock ELSE IF n >= limit THEN LockTicks ELSE 0]

RecordLoginFailure(buckets) ==
    attempts' = [b \in Bucket |-> IF b \in buckets THEN WithFailure(attempts[b], Limit(b))
                                  ELSE attempts[b]]

ClearLoginFailures(buckets) ==
    attempts' = [b \in Bucket |-> IF b \in buckets THEN NoFailures ELSE attempts[b]]

-----------------------------------------------------------------------------
(* Signing in *)

BucketsOf(call) == {call.user} \cup (IF call.address = None THEN {} ELSE {call.address})

AskLogin(c, user, address, password) ==
    /\ calls[c] = Idle
    /\ calls' = [calls EXCEPT ![c] =
           [phase |-> "login", user |-> user, address |-> address, password |-> password]]
    /\ UNCHANGED <<users, sessions, issued, attempts>>

RefuseLogin(c) ==
    /\ calls[c].phase = "login" /\ Locked(BucketsOf(calls[c]))
    /\ calls' = [calls EXCEPT ![c] = Idle]
    /\ UNCHANGED <<users, sessions, issued, attempts>>

\* An account that is unknown or has no password costs the same time, and fails.
ReadUser(c) ==
    /\ calls[c].phase = "login" /\ ~ Locked(BucketsOf(calls[c]))
    /\ calls' = [calls EXCEPT ![c] =
           [phase |-> "verifying", user |-> @.user, address |-> @.address,
            right |-> users[@.user] = @.password]]
    /\ UNCHANGED <<users, sessions, issued, attempts>>

FailLogin(c) ==
    /\ calls[c].phase = "verifying" /\ ~ calls[c].right
    /\ RecordLoginFailure(BucketsOf(calls[c]))
    /\ calls' = [calls EXCEPT ![c] = Idle]
    /\ UNCHANGED <<users, sessions, issued>>

PassLogin(c) ==
    /\ calls[c].phase = "verifying" /\ calls[c].right
    /\ ClearLoginFailures(BucketsOf(calls[c]))
    /\ calls' = [calls EXCEPT ![c] = [phase |-> "issuing", user |-> @.user]]
    /\ UNCHANGED <<users, sessions, issued>>

\* The reference of admin_sessions to users holds, or the insertion fails.
Referenced(user) == users[user] # None

IssueSession(c) ==
    /\ calls[c].phase = "issuing" /\ issued < MaxSession
    /\ IF Referenced(calls[c].user)
       THEN /\ sessions' = sessions \cup {[no |-> issued, user |-> calls[c].user]}
            /\ issued' = issued + 1
       ELSE UNCHANGED <<sessions, issued>>
    /\ calls' = [calls EXCEPT ![c] = Idle]
    /\ UNCHANGED <<users, attempts>>

Logout(s) ==
    /\ sessions' = sessions \ {s}
    /\ UNCHANGED <<users, issued, attempts, calls>>

-----------------------------------------------------------------------------
(* Passwords *)

\* One's own: the session is looked at once, and the account it is for is read.
AskChange(c, s, password, next) ==
    /\ calls[c] = Idle
    /\ users[s.user] \in {"unset", password}
    /\ calls' = [calls EXCEPT ![c] = [phase |-> "changing", user |-> s.user, next |-> next]]
    /\ UNCHANGED <<users, sessions, issued, attempts>>

\* The password is set in an account that may be gone; every session ends, and the caller
\* is given a new one.
Change(c) ==
    /\ calls[c].phase = "changing"
    /\ users' = [users EXCEPT ![calls[c].user] = IF @ = None THEN None ELSE calls[c].next]
    /\ sessions' = {s \in sessions : s.user # calls[c].user}
    /\ calls' = [calls EXCEPT ![c] = [phase |-> "issuing", user |-> @.user]]
    /\ UNCHANGED <<issued, attempts>>

\* The administrator creates the account first and sets its password afterwards; a reset finds
\* the account and sets its password afterwards.
CreateUser(c, user, password) ==
    /\ calls[c] = Idle /\ users[user] = None
    /\ users' = [users EXCEPT ![user] = "unset"]
    /\ calls' = [calls EXCEPT ![c] =
           [phase |-> "setting", user |-> user, next |-> password, ends |-> FALSE]]
    /\ UNCHANGED <<sessions, issued, attempts>>

AskReset(c, user, password) ==
    /\ calls[c] = Idle /\ users[user] # None
    /\ calls' = [calls EXCEPT ![c] =
           [phase |-> "setting", user |-> user, next |-> password, ends |-> TRUE]]
    /\ UNCHANGED <<users, sessions, issued, attempts>>

SetPassword(c) ==
    LET call == calls[c] IN
    /\ call.phase = "setting"
    /\ users' = [users EXCEPT ![call.user] = IF @ = None THEN None ELSE call.next]
    /\ sessions' = IF call.ends THEN {s \in sessions : s.user # call.user} ELSE sessions
    /\ calls' = [calls EXCEPT ![c] = Idle]
    /\ UNCHANGED <<issued, attempts>>

DeleteUser(user) ==
    /\ users[user] # None
    /\ users' = [users EXCEPT ![user] = None]
    /\ sessions' = {s \in sessions : s.user # user}
    /\ UNCHANGED <<issued, attempts, calls>>

-----------------------------------------------------------------------------
Less(n) == IF n = 0 THEN 0 ELSE n - 1

Older(row) == [row EXCEPT !.age = IF @ = WindowTicks THEN @ ELSE @ + 1, !.lock = Less(@)]

Tick ==
    /\ attempts' = [b \in Bucket |-> Older(attempts[b])]
    /\ UNCHANGED <<users, sessions, issued, calls>>

Next ==
    \/ \E c \in Call :
           \/ \E u \in User, a \in Address \cup {None}, p \in Password : AskLogin(c, u, a, p)
           \/ RefuseLogin(c) \/ ReadUser(c) \/ FailLogin(c) \/ PassLogin(c) \/ IssueSession(c)
           \/ \E s \in sessions, p, q \in Password : AskChange(c, s, p, q)
           \/ \E u \in User, p \in Password : CreateUser(c, u, p) \/ AskReset(c, u, p)
           \/ Change(c) \/ SetPassword(c)
    \/ \E s \in sessions : Logout(s)
    \/ \E u \in User : DeleteUser(u)
    \/ Tick

Spec == Init /\ [][Next]_vars

-----------------------------------------------------------------------------
(* Properties *)

(* Every variable has its type. *)
TypeOK ==
    /\ users \in [User -> Password \cup {"unset", None}]
    /\ sessions \subseteq [no : 0..MaxSession - 1, user : User] /\ issued \in 0..MaxSession
    /\ DOMAIN attempts = Bucket
    /\ \A b \in Bucket : /\ attempts[b].age \in 0..WindowTicks /\ attempts[b].count \in Nat
                         /\ attempts[b].lock \in 0..LockTicks
    /\ \A c \in Call : calls[c].phase \in
           {"idle", "login", "verifying", "issuing", "changing", "setting"}

(* Sign-ins that were let through together are counted together, and may   *)
(* pass the limit: by no more than there are calls under way.  A row that   *)
(* is not locked has fewer failures in its window than the limit, or as     *)
(* many as there can be calls: those that outlasted a lock on the window    *)
(* before and were counted in the next one, in which a lock that is still   *)
(* on is not set anew (recordLoginFailure).  The first failure after that   *)
(* locks it.                                                                *)
FailuresBounded ==
    LET atOnce == Cardinality(Call) IN
    \A b \in Bucket : attempts[b].age < WindowTicks =>
        /\ attempts[b].lock = 0 => attempts[b].count < Limit(b) \/ attempts[b].count <= atOnce
        /\ attempts[b].count < Limit(b) + atOnce \/ attempts[b].count <= 2 * atOnce
=============================================================================
