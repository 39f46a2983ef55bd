------------------------ MODULE UserAccounts_proofs ------------------------
(***************************************************************************)
(* Proofs about UserAccounts, for any accounts, addresses and passwords,   *)
(* any limits and lengths of windows and locks, and any finite number of   *)
(* calls.                                                                  *)
(*                                                                         *)
(* A sign-in looks at the lock before its digest and is counted after it,  *)
(* so failures are counted while a lock is on, and may open a new window   *)
(* that outlasts the lock.  FailuresBounded is not inductive for that      *)
(* reason: what makes it so is that the sign-ins under way are counted     *)
(* with the failures, and that, as long as a lock is on which ends before  *)
(* its window, no more of both are to be expected than there are calls.    *)
(***************************************************************************)
EXTENDS UserAccounts, FiniteSetTheorems, TLAPS

-----------------------------------------------------------------------------
(* The inductive invariant *)

Row == [age: 0 .. WindowTicks, count: Nat, lock: 0 .. LockTicks]

(* What is known of a call in each phase.                                   *)
CallOK(call) ==
    /\ call.phase \in {"idle", "login", "verifying", "issuing", "changing", "setting"}
    /\ call.phase # "idle" => call.user \in User
    /\ call.phase \in {"login", "verifying"} => call.address \in Address \cup {None}
    /\ call.phase \in {"changing", "setting"} => call.next \in Password

Typed ==
    /\ users \in [User -> Password \cup {"unset", None}]
    /\ sessions \subseteq [no : 0..MaxSession - 1, user : User] /\ issued \in 0..MaxSession
    /\ attempts \in [Bucket -> Row]
    /\ DOMAIN calls = Call /\ \A c \in Call : CallOK(calls[c])

(* The sign-ins that will be counted in b if their password is wrong.       *)
Verifying(b) == {c \in Call : calls[c].phase = "verifying" /\ b \in BucketsOf(calls[c])}

(* A lock that ends before its window leaves room for those under way.      *)
RoomLeft(row, under) ==
    row.lock > 0 /\ row.age < WindowTicks /\ row.lock < WindowTicks - row.age =>
        row.count + Cardinality(under) <= Cardinality(Call)

(* A row without a lock has fewer failures than the limit, or no more than   *)
(* there can be calls.                                                      *)
NotFull(row, limit) ==
    row.age < WindowTicks /\ row.lock = 0 => row.count < limit \/ row.count <= Cardinality(Call)

(* The failures in the window, with those that are to be expected, pass the  *)
(* limit by as many as there can be calls.                                  *)
FewAbove(row, under, limit) ==
    row.age < WindowTicks =>
        \/ row.count + Cardinality(under) < limit + Cardinality(Call)
        \/ row.count + Cardinality(under) <= 2 * Cardinality(Call)

RowOK(row, under, limit) ==
    RoomLeft(row, under) /\ NotFull(row, limit) /\ FewAbove(row, under, limit)

Guarded(b) == RowOK(attempts[b], Verifying(b), Limit(b))

IInv == Typed /\ \A b \in Bucket : Guarded(b)

LEMMA Constants ==
    /\ UserLimit \in Nat /\ AddressLimit \in Nat /\ WindowTicks \in Nat /\ LockTicks \in Nat
    /\ MaxSession \in Nat /\ WindowTicks <= LockTicks /\ IsFiniteSet(Call)
    /\ \A b \in Bucket : Limit(b) \in Nat /\ Limit(b) > 0
<1>1. /\ UserLimit \in Nat /\ AddressLimit \in Nat /\ WindowTicks \in Nat /\ LockTicks \in Nat
      /\ MaxSession \in Nat /\ WindowTicks <= LockTicks /\ IsFiniteSet(Call)
  BY UserAccountsAssumption
<1>2. UserLimit # 0 /\ AddressLimit # 0
  BY UserAccountsAssumption
<1>3. QED
  BY <1>1, <1>2 DEF Limit

-----------------------------------------------------------------------------
(* Rows *)

LEMMA NoFailuresOK ==
  NoFailures \in Row /\ \A u, limit : RowOK(NoFailures, u, limit)
<1>1. NoFailures.age = WindowTicks /\ NoFailures \in Row
  BY Constants DEF NoFailures, Row
<1>2. ~(NoFailures.age < WindowTicks)
  BY <1>1, Constants
<1>3. QED
  BY <1>1, <1>2 DEF RowOK, RoomLeft, NotFull, FewAbove

LEMMA WithFailureIsRow ==
  ASSUME NEW row \in Row, NEW limit
  PROVE  /\ WithFailure(row, limit) \in Row
         /\ WithFailure(row, limit).age = IF row.age = WindowTicks THEN 0 ELSE row.age
         /\ WithFailure(row, limit).count = IF row.age = WindowTicks THEN 1 ELSE row.count + 1
         /\ WithFailure(row, limit).lock =
              IF row.lock > 0 THEN row.lock
              ELSE IF WithFailure(row, limit).count >= limit THEN LockTicks ELSE 0
<1> DEFINE n == IF row.age = WindowTicks THEN 1 ELSE row.count + 1
<1>1. /\ row.age \in 0 .. WindowTicks /\ row.count \in Nat /\ row.lock \in 0 .. LockTicks
      /\ n \in Nat
  BY DEF Row
<1>2. WithFailure(row, limit) =
        [age |-> IF row.age = WindowTicks THEN 0 ELSE row.age, count |-> n,
         lock |-> IF row.lock > 0 THEN row.lock ELSE IF n >= limit THEN LockTicks ELSE 0]
  BY DEF WithFailure
<1> HIDE DEF n
<1>3. QED
  BY <1>1, <1>2, Constants DEF Row, n

(* How many calls some of them are.                                         *)
LEMMA CallSizes ==
  ASSUME NEW under, under \subseteq Call
  PROVE  /\ IsFiniteSet(under) /\ Cardinality(under) \in Nat /\ Cardinality(Call) \in Nat
         /\ Cardinality(under) <= Cardinality(Call)
<1>1. IsFiniteSet(under) /\ Cardinality(under) <= Cardinality(Call)
  BY Constants, FS_Subset
<1>2. QED
  BY <1>1, Constants, FS_CardinalityType

(* A failure is counted: the call that brings it leaves those under way.     *)
LEMMA FailureIsGuarded ==
  ASSUME NEW b \in Bucket, NEW row \in Row, NEW under, NEW c \in under, under \subseteq Call,
         RowOK(row, under, Limit(b))
  PROVE  RowOK(WithFailure(row, Limit(b)), under \ {c}, Limit(b))
<1> DEFINE limit == Limit(b)
           new == WithFailure(row, limit)
           n == Cardinality(under)
           left == Cardinality(under \ {c})
           all == Cardinality(Call)
<1>1. n \in Nat /\ left \in Nat /\ left = n - 1 /\ all \in Nat /\ n <= all /\ limit \in Nat
  <2>1. left = n - 1
    BY CallSizes, FS_RemoveElement
  <2>2. QED
    BY <2>1, CallSizes, Constants
<1>2. /\ row.age \in 0 .. WindowTicks /\ row.count \in Nat /\ row.lock \in 0 .. LockTicks
      /\ WindowTicks \in Nat /\ LockTicks \in Nat /\ WindowTicks <= LockTicks
  BY Constants DEF Row
<1>3. /\ new.age = IF row.age = WindowTicks THEN 0 ELSE row.age
      /\ new.count = IF row.age = WindowTicks THEN 1 ELSE row.count + 1
      /\ new.lock = IF row.lock > 0 THEN row.lock ELSE IF new.count >= limit THEN LockTicks ELSE 0
  BY WithFailureIsRow
<1>4. row.lock > 0 /\ row.age < WindowTicks /\ row.lock < WindowTicks - row.age => row.count + n <= all
  BY DEF RowOK, RoomLeft
<1>5. row.age < WindowTicks => row.count + n < limit + all \/ row.count + n <= 2 * all
  BY DEF RowOK, FewAbove
<1> HIDE DEF new, n, left, all, limit
<1>6. new.lock > 0 /\ new.age < WindowTicks /\ new.lock < WindowTicks - new.age => new.count + left <= all
  BY <1>1, <1>2, <1>3, <1>4
<1>7. new.age < WindowTicks /\ new.lock = 0 => new.count < limit
  BY <1>1, <1>2, <1>3
<1>8. new.age < WindowTicks => new.count + left < limit + all \/ new.count + left <= 2 * all
  BY <1>1, <1>2, <1>3, <1>5
<1>9. RoomLeft(new, under \ {c}) /\ NotFull(new, limit) /\ FewAbove(new, under \ {c}, limit)
  BY <1>6, <1>7, <1>8 DEF RoomLeft, NotFull, FewAbove, left, all
<1>10. QED
  BY <1>9 DEF RowOK, new, limit

LEMMA OlderIsRow ==
  ASSUME NEW row \in Row
  PROVE  /\ Older(row) \in Row
         /\ Older(row).age = IF row.age = WindowTicks THEN row.age ELSE row.age + 1
         /\ Older(row).count = row.count
         /\ Older(row).lock = IF row.lock = 0 THEN 0 ELSE row.lock - 1
<1> DEFINE age == IF row.age = WindowTicks THEN row.age ELSE row.age + 1
           lock == Less(row.lock)
<1>1. /\ row.age \in 0 .. WindowTicks /\ row.lock \in 0 .. LockTicks
      /\ WindowTicks \in Nat /\ LockTicks \in Nat
  BY Constants DEF Row
<1>2. age \in 0 .. WindowTicks /\ lock \in 0 .. LockTicks
  BY <1>1 DEF Less
<1>3. lock = IF row.lock = 0 THEN 0 ELSE row.lock - 1
  BY DEF Less
<1>4. Older(row) = [row EXCEPT !.age = age, !.lock = lock]
  BY DEF Older
<1> HIDE DEF age, lock
<1>5. /\ Older(row) \in Row /\ Older(row).age = age /\ Older(row).count = row.count
      /\ Older(row).lock = lock
  BY <1>2, <1>4 DEF Row
<1>6. QED
  BY <1>3, <1>5 DEF age

LEMMA OlderIsGuarded ==
  ASSUME NEW row \in Row, NEW under, under \subseteq Call, NEW limit \in Nat, RowOK(row, under, limit)
  PROVE  RowOK(Older(row), under, limit)
<1> DEFINE new == Older(row)
           n == Cardinality(under)
           all == Cardinality(Call)
<1>1. /\ row.age \in 0 .. WindowTicks /\ row.count \in Nat /\ row.lock \in 0 .. LockTicks
      /\ WindowTicks \in Nat /\ LockTicks \in Nat
  BY Constants DEF Row
<1>2. /\ new.age = IF row.age = WindowTicks THEN row.age ELSE row.age + 1
      /\ new.count = row.count
      /\ new.lock = IF row.lock = 0 THEN 0 ELSE row.lock - 1
  BY OlderIsRow
<1>3. n \in Nat /\ all \in Nat
  BY CallSizes
<1>4. /\ row.lock > 0 /\ row.age < WindowTicks /\ row.lock < WindowTicks - row.age => row.count + n <= all
      /\ row.age < WindowTicks /\ row.lock = 0 => row.count < limit \/ row.count <= all
      /\ row.age < WindowTicks => row.count + n < limit + all \/ row.count + n <= 2 * all
  BY DEF RowOK, RoomLeft, NotFull, FewAbove
<1> HIDE DEF new, n, all
<1>5. new.lock > 0 /\ new.age < WindowTicks /\ new.lock < WindowTicks - new.age => new.count + n <= all
  BY <1>1, <1>2, <1>4
<1>6. new.age < WindowTicks /\ new.lock = 0 => new.count < limit \/ new.count <= all
  <2> SUFFICES ASSUME new.age < WindowTicks, new.lock = 0
               PROVE  new.count < limit \/ new.count <= all
    OBVIOUS
  <2>1. row.age < WindowTicks /\ new.age = row.age + 1
    BY <1>1, <1>2
  <2>2. CASE row.lock = 0
    BY <1>2, <1>4, <2>1, <2>2
  <2>3. CASE row.lock = 1
    BY <1>1, <1>2, <1>3, <1>4, <2>1, <2>3
  <2>4. QED
    BY <1>1, <1>2, <2>2, <2>3
<1>7. new.age < WindowTicks => new.count + n < limit + all \/ new.count + n <= 2 * all
  BY <1>1, <1>2, <1>4
<1>8. RoomLeft(new, under) /\ NotFull(new, limit) /\ FewAbove(new, under, limit)
  BY <1>5, <1>6, <1>7 DEF RoomLeft, NotFull, FewAbove, n, all
<1>9. QED
  BY <1>8 DEF RowOK, new

(* Fewer under way: still guarded.                                          *)
LEMMA FewerIsGuarded ==
  ASSUME NEW row \in Row, NEW limit \in Nat, NEW under, NEW fewer, RowOK(row, under, limit),
         under \subseteq Call, fewer \subseteq under
  PROVE  RowOK(row, fewer, limit)
<1>1. Cardinality(fewer) <= Cardinality(under)
  BY CallSizes, FS_Subset
<1>2. Cardinality(fewer) \in Nat /\ Cardinality(under) \in Nat /\ Cardinality(Call) \in Nat
  BY CallSizes
<1>3. row.count \in Nat
  BY DEF Row
<1>4. RoomLeft(row, fewer) /\ FewAbove(row, fewer, limit)
  BY <1>1, <1>2, <1>3 DEF RowOK, RoomLeft, FewAbove
<1>5. QED
  BY <1>4 DEF RowOK

(* Without a lock there is room for any number of them.                     *)
LEMMA UnlockedIsGuarded ==
  ASSUME NEW row \in Row, NEW limit \in Nat, NEW under, NEW more, RowOK(row, under, limit),
         row.lock = 0, more \subseteq Call
  PROVE  RowOK(row, more, limit)
<1>1. Cardinality(more) \in Nat /\ Cardinality(Call) \in Nat /\ Cardinality(more) <= Cardinality(Call)
  BY CallSizes
<1>2. row.count \in Nat
  BY DEF Row
<1>3. row.age < WindowTicks => row.count < limit \/ row.count <= Cardinality(Call)
  BY DEF RowOK, NotFull
<1>4. RoomLeft(row, more)
  BY DEF RoomLeft
<1>5. FewAbove(row, more, limit)
  BY <1>1, <1>2, <1>3 DEF FewAbove
<1>6. QED
  BY <1>4, <1>5 DEF RowOK

-----------------------------------------------------------------------------
(* Types *)

LEMMA IdleOK == CallOK(Idle) /\ Idle.phase = "idle"
BY DEF CallOK, Idle

UsersTyped == users \in [User -> Password \cup {"unset", None}]

SessionsTyped ==
    sessions \subseteq [no : 0..MaxSession - 1, user : User] /\ issued \in 0..MaxSession

LEMMA CallTyped ==
  ASSUME Typed, NEW c \in Call, NEW call, CallOK(call), calls' = [calls EXCEPT ![c] = call],
         attempts' \in [Bucket -> Row], UsersTyped', SessionsTyped'
  PROVE  Typed'
BY DEF Typed, UsersTyped, SessionsTyped

LEMMA TypedParts ==
  Typed => /\ UsersTyped /\ SessionsTyped /\ attempts \in [Bucket -> Row]
           /\ DOMAIN calls = Call /\ \A c \in Call : CallOK(calls[c])
BY DEF Typed, UsersTyped, SessionsTyped

LEMMA InitTyped == Init => Typed
BY IdleOK, NoFailuresOK, Constants DEF Init, Typed

LEMMA NextTyped == Typed /\ [Next]_vars => Typed'
<1> SUFFICES ASSUME Typed, [Next]_vars PROVE Typed'
  OBVIOUS
<1>1. /\ UsersTyped /\ SessionsTyped /\ attempts \in [Bucket -> Row]
      /\ DOMAIN calls = Call /\ \A c \in Call : CallOK(calls[c])
  BY TypedParts
<1>2. CASE UNCHANGED vars
  BY <1>2 DEF Typed, vars
<1>3. ASSUME NEW c \in Call, NEW u \in User, NEW a \in Address \cup {None}, NEW p \in Password,
             AskLogin(c, u, a, p)
      PROVE  Typed'
  <2> DEFINE call == [phase |-> "login", user |-> u, address |-> a, password |-> p]
  <2>1. CallOK(call)
    BY <1>3 DEF CallOK
  <2> HIDE DEF call
  <2>2. calls' = [calls EXCEPT ![c] = call] /\ UNCHANGED <<users, sessions, issued, attempts>>
    BY <1>3 DEF AskLogin, call
  <2>3. QED
    BY <1>1, <1>3, <2>1, <2>2, CallTyped DEF UsersTyped, SessionsTyped
<1>4. ASSUME NEW c \in Call, RefuseLogin(c)
      PROVE  Typed'
  BY <1>1, <1>4, IdleOK, CallTyped DEF RefuseLogin, UsersTyped, SessionsTyped
<1>5. ASSUME NEW c \in Call, ReadUser(c)
      PROVE  Typed'
  <2> DEFINE call == [phase |-> "verifying", user |-> calls[c].user, address |-> calls[c].address,
                      right |-> users[calls[c].user] = calls[c].password]
  <2>1. CallOK(call)
    BY <1>1, <1>5 DEF ReadUser, CallOK
  <2> HIDE DEF call
  <2>2. calls' = [calls EXCEPT ![c] = call] /\ UNCHANGED <<users, sessions, issued, attempts>>
    BY <1>5 DEF ReadUser, call
  <2>3. QED
    BY <1>1, <1>5, <2>1, <2>2, CallTyped DEF UsersTyped, SessionsTyped
<1>6. ASSUME NEW c \in Call, FailLogin(c)
      PROVE  Typed'
  <2>1. attempts' \in [Bucket -> Row]
    BY <1>1, <1>6, WithFailureIsRow DEF FailLogin, RecordLoginFailure
  <2>2. QED
    BY <1>1, <1>6, <2>1, IdleOK, CallTyped DEF FailLogin, UsersTyped, SessionsTyped
<1>7. ASSUME NEW c \in Call, PassLogin(c)
      PROVE  Typed'
  <2> DEFINE call == [phase |-> "issuing", user |-> calls[c].user]
  <2>1. CallOK(call)
    BY <1>1, <1>7 DEF PassLogin, CallOK
  <2> HIDE DEF call
  <2>2. attempts' \in [Bucket -> Row]
    BY <1>1, <1>7, NoFailuresOK DEF PassLogin, ClearLoginFailures
  <2>3. calls' = [calls EXCEPT ![c] = call] /\ UNCHANGED <<users, sessions, issued>>
    BY <1>7 DEF PassLogin, call
  <2>4. QED
    BY <1>1, <1>7, <2>1, <2>2, <2>3, CallTyped DEF UsersTyped, SessionsTyped
<1>8. ASSUME NEW c \in Call, IssueSession(c)
      PROVE  Typed'
  <2>1. /\ issued < MaxSession /\ calls[c].user \in User
        /\ calls' = [calls EXCEPT ![c] = Idle] /\ UNCHANGED <<users, attempts>>
    BY <1>1, <1>8 DEF IssueSession, CallOK
  <2>2. issued' \in 0..MaxSession
    BY <1>1, <1>8, <2>1, Constants DEF IssueSession, SessionsTyped
  <2>3. sessions' \subseteq [no : 0..MaxSession - 1, user : User]
    <3>1. [no |-> issued, user |-> calls[c].user] \in [no : 0..MaxSession - 1, user : User]
      BY <1>1, <2>1, Constants DEF SessionsTyped
    <3>2. sessions' \subseteq sessions \cup {[no |-> issued, user |-> calls[c].user]}
      BY <1>8 DEF IssueSession
    <3>3. QED
      BY <1>1, <3>1, <3>2 DEF SessionsTyped
  <2>4. QED
    BY <1>1, <1>8, <2>1, <2>2, <2>3, IdleOK, CallTyped DEF UsersTyped, SessionsTyped
<1>9. ASSUME NEW c \in Call, NEW s \in sessions, NEW p \in Password, NEW q \in Password,
             AskChange(c, s, p, q)
      PROVE  Typed'
  <2> DEFINE call == [phase |-> "changing", user |-> s.user, next |-> q]
  <2>1. CallOK(call)
    BY <1>1, <1>9 DEF CallOK, SessionsTyped
  <2> HIDE DEF call
  <2>2. calls' = [calls EXCEPT ![c] = call] /\ UNCHANGED <<users, sessions, issued, attempts>>
    BY <1>9 DEF AskChange, call
  <2>3. QED
    BY <1>1, <1>9, <2>1, <2>2, CallTyped DEF UsersTyped, SessionsTyped
<1>10. ASSUME NEW c \in Call, Change(c)
       PROVE  Typed'
  <2> DEFINE call == [phase |-> "issuing", user |-> calls[c].user]
  <2>1. calls[c].phase = "changing" /\ calls[c].user \in User /\ calls[c].next \in Password
    BY <1>1, <1>10 DEF Change, CallOK
  <2>2. CallOK(call)
    BY <2>1 DEF CallOK
  <2> HIDE DEF call
  <2>3. calls' = [calls EXCEPT ![c] = call] /\ UNCHANGED <<issued, attempts>>
    BY <1>10 DEF Change, call
  <2>4. UsersTyped' /\ sessions' \subseteq sessions
    BY <1>1, <1>10, <2>1 DEF Change, UsersTyped
  <2>5. QED
    BY <1>1, <1>10, <2>2, <2>3, <2>4, CallTyped DEF SessionsTyped
<1>11. ASSUME NEW c \in Call, NEW u \in User, NEW p \in Password,
              CreateUser(c, u, p) \/ AskReset(c, u, p)
       PROVE  Typed'
  <2> DEFINE call(ends) == [phase |-> "setting", user |-> u, next |-> p, ends |-> ends]
  <2>1. \A x \in BOOLEAN : CallOK(call(x))
    BY <1>11 DEF CallOK
  <2> HIDE DEF call
  <2>2. /\ \E x \in BOOLEAN : calls' = [calls EXCEPT ![c] = call(x)]
        /\ UNCHANGED <<sessions, issued, attempts>>
    BY <1>11 DEF CreateUser, AskReset, call
  <2>3. UsersTyped'
    BY <1>1, <1>11 DEF CreateUser, AskReset, UsersTyped
  <2>4. QED
    BY <1>1, <1>11, <2>1, <2>2, <2>3, CallTyped DEF SessionsTyped
<1>12. ASSUME NEW c \in Call, SetPassword(c)
       PROVE  Typed'
  <2>1. calls[c].user \in User /\ calls[c].next \in Password
    BY <1>1, <1>12 DEF SetPassword, CallOK
  <2>2. UsersTyped' /\ sessions' \subseteq sessions
    BY <1>1, <1>12, <2>1 DEF SetPassword, UsersTyped
  <2>3. calls' = [calls EXCEPT ![c] = Idle] /\ UNCHANGED <<issued, attempts>>
    BY <1>12 DEF SetPassword
  <2>4. QED
    BY <1>1, <1>12, <2>2, <2>3, IdleOK, CallTyped DEF SessionsTyped
<1>13. ASSUME NEW s \in sessions, Logout(s)
       PROVE  Typed'
  BY <1>13 DEF Logout, Typed
<1>14. ASSUME NEW u \in User, DeleteUser(u)
       PROVE  Typed'
  BY <1>14 DEF DeleteUser, Typed
<1>15. CASE Tick
  <2>1. \A b \in Bucket : Older(attempts[b]) \in Row
    BY <1>1, OlderIsRow
  <2>2. QED
    BY <1>15, <2>1 DEF Tick, Typed
<1>16. QED
  BY <1>2, <1>3, <1>4, <1>5, <1>6, <1>7, <1>8, <1>9, <1>10, <1>11, <1>12, <1>13, <1>14, <1>15 DEF Next

THEOREM AccountsTyped == Spec => []Typed
BY InitTyped, NextTyped, PTL DEF Spec

(* Every variable keeps its type, however many calls there are.              *)
THEOREM TypeCorrect == Spec => []TypeOK
<1>1. Typed => TypeOK
  BY DEF Typed, TypeOK, Row, CallOK
<1>2. QED
  BY <1>1, AccountsTyped, PTL

-----------------------------------------------------------------------------
(* The rows stay guarded *)

LEMMA Rows == IInv => \A b \in Bucket : attempts[b] \in Row /\ Guarded(b) /\ Limit(b) \in Nat
BY Constants DEF IInv, Typed

(* No failure comes or goes, and nobody more is verifying.                   *)
LEMMA FewerVerifying ==
  ASSUME IInv, NEW b \in Bucket, attempts'[b] = attempts[b],
         Verifying(b)' \subseteq Verifying(b)
  PROVE  Guarded(b)'
<1>1. attempts[b] \in Row /\ Guarded(b) /\ Verifying(b) \subseteq Call
  BY Rows DEF Verifying
<1>2. RowOK(attempts[b], Verifying(b)', Limit(b))
  BY <1>1, Rows, FewerIsGuarded DEF Guarded
<1>3. QED
  BY <1>2 DEF Guarded, Limit

LEMMA QuietCallGuarded ==
  ASSUME IInv, NEW c \in Call, calls'[c].phase # "verifying",
         \A d \in Call \ {c} : calls'[d] = calls[d], UNCHANGED attempts, NEW b \in Bucket
  PROVE  Guarded(b)'
<1>1. Verifying(b)' \subseteq Verifying(b)
  BY DEF Verifying
<1>2. QED
  BY <1>1, FewerVerifying

(* A sign-in that found no lock will be counted; without a lock there is    *)
(* room for any number of them.                                            *)
LEMMA ReadUserGuarded ==
  ASSUME IInv, NEW c \in Call, ReadUser(c), NEW b \in Bucket
  PROVE  Guarded(b)'
<1> DEFINE call == [phase |-> "verifying", user |-> calls[c].user, address |-> calls[c].address,
                    right |-> users[calls[c].user] = calls[c].password]
<1>1. /\ \A k \in BucketsOf(calls[c]) : ~(attempts[k].lock > 0)
      /\ calls' = [calls EXCEPT ![c] = call] /\ UNCHANGED attempts
  BY DEF ReadUser, Locked
<1>2. BucketsOf(call) = BucketsOf(calls[c]) /\ DOMAIN calls = Call
  BY DEF BucketsOf, IInv, Typed
<1> HIDE DEF call
<1>3. CASE b \in BucketsOf(calls[c])
  <2>1. attempts[b] \in Row /\ attempts[b].lock = 0 /\ Verifying(b)' \subseteq Call
    BY <1>1, <1>3, Rows, Constants DEF Row, Verifying
  <2>2. RowOK(attempts[b], Verifying(b)', Limit(b))
    BY <2>1, Rows, UnlockedIsGuarded DEF Guarded
  <2>3. QED
    BY <1>1, <2>2 DEF Guarded, Limit
<1>4. CASE b \notin BucketsOf(calls[c])
  <2>1. Verifying(b)' \subseteq Verifying(b)
    BY <1>1, <1>2, <1>4 DEF Verifying
  <2>2. QED
    BY <1>1, <2>1, FewerVerifying
<1>5. QED
  BY <1>3, <1>4

LEMMA FailLoginGuarded ==
  ASSUME IInv, NEW c \in Call, FailLogin(c), NEW b \in Bucket
  PROVE  Guarded(b)'
<1>1. /\ calls[c].phase = "verifying" /\ calls' = [calls EXCEPT ![c] = Idle]
      /\ attempts'[b] = IF b \in BucketsOf(calls[c])
                        THEN WithFailure(attempts[b], Limit(b)) ELSE attempts[b]
  BY DEF FailLogin, RecordLoginFailure
<1>2. Verifying(b)' = Verifying(b) \ {c} /\ Verifying(b) \subseteq Call
  BY <1>1, IdleOK DEF Verifying, IInv, Typed
<1>3. CASE b \in BucketsOf(calls[c])
  <2> DEFINE row == attempts[b]
             under == Verifying(b)
  <2>1. c \in under /\ under \subseteq Call
    BY <1>1, <1>2, <1>3 DEF Verifying
  <2>2. row \in Row /\ RowOK(row, under, Limit(b))
    BY Rows DEF Guarded
  <2> HIDE DEF row, under
  <2>3. RowOK(WithFailure(row, Limit(b)), under \ {c}, Limit(b))
    BY <2>1, <2>2, FailureIsGuarded
  <2>4. QED
    BY <1>1, <1>2, <1>3, <2>3 DEF Guarded, row, under, Limit
<1>4. CASE b \notin BucketsOf(calls[c])
  BY <1>1, <1>2, <1>4, FewerVerifying
<1>5. QED
  BY <1>3, <1>4

LEMMA PassLoginGuarded ==
  ASSUME IInv, NEW c \in Call, PassLogin(c), NEW b \in Bucket
  PROVE  Guarded(b)'
<1>1. /\ calls' = [calls EXCEPT ![c] = [phase |-> "issuing", user |-> @.user]]
      /\ attempts'[b] = IF b \in BucketsOf(calls[c]) THEN NoFailures ELSE attempts[b]
  BY DEF PassLogin, ClearLoginFailures
<1>2. CASE b \in BucketsOf(calls[c])
  BY <1>1, <1>2, NoFailuresOK DEF Guarded
<1>3. CASE b \notin BucketsOf(calls[c])
  <2>1. Verifying(b)' \subseteq Verifying(b)
    BY <1>1 DEF Verifying, IInv, Typed
  <2>2. QED
    BY <1>1, <1>3, <2>1, FewerVerifying
<1>4. QED
  BY <1>2, <1>3

LEMMA TickGuarded ==
  ASSUME IInv, Tick, NEW b \in Bucket
  PROVE  Guarded(b)'
<1>1. attempts'[b] = Older(attempts[b]) /\ Verifying(b)' = Verifying(b)
  BY DEF Tick, Verifying
<1>2. attempts[b] \in Row /\ Limit(b) \in Nat /\ Guarded(b)
  BY Rows
<1>3. RowOK(Older(attempts[b]), Verifying(b), Limit(b))
  <2>1. Verifying(b) \subseteq Call
    BY DEF Verifying
  <2>2. QED
    BY <1>2, <2>1, OlderIsGuarded DEF Guarded
<1>4. QED
  BY <1>1, <1>3 DEF Guarded, Limit

LEMMA InitSound == Init => IInv
<1>1. Init => \A b \in Bucket : Guarded(b)
  BY NoFailuresOK DEF Init, Guarded
<1>2. QED
  BY <1>1, InitTyped DEF IInv

LEMMA NextSound == IInv /\ [Next]_vars => IInv'
<1> SUFFICES ASSUME IInv, [Next]_vars, NEW b \in Bucket PROVE Guarded(b)'
  BY NextTyped DEF IInv
<1>1. DOMAIN calls = Call
  BY DEF IInv, Typed
<1>2. CASE UNCHANGED <<attempts, calls>>
  BY <1>2, Rows DEF Guarded, Verifying
<1>3. ASSUME NEW c \in Call,
             \/ \E u \in User, a \in Address \cup {None}, p \in Password : AskLogin(c, u, a, p)
             \/ \E s \in sessions, p, q \in Password : AskChange(c, s, p, q)
             \/ \E u \in User, p \in Password : CreateUser(c, u, p) \/ AskReset(c, u, p)
             \/ RefuseLogin(c) \/ IssueSession(c) \/ Change(c) \/ SetPassword(c)
      PROVE  Guarded(b)'
  <2>1. /\ calls'[c].phase # "verifying" /\ \A d \in Call \ {c} : calls'[d] = calls[d]
        /\ UNCHANGED attempts
    BY <1>1, <1>3 DEF AskLogin, AskChange, CreateUser, AskReset, RefuseLogin, IssueSession, Change,
                      SetPassword, Idle
  <2>2. QED
    BY <1>3, <2>1, QuietCallGuarded
<1>4. ASSUME NEW c \in Call, ReadUser(c) \/ FailLogin(c) \/ PassLogin(c)
      PROVE  Guarded(b)'
  BY <1>4, ReadUserGuarded, FailLoginGuarded, PassLoginGuarded
<1>5. ASSUME NEW s \in sessions, Logout(s)
      PROVE  Guarded(b)'
  BY <1>2, <1>5 DEF Logout
<1>6. ASSUME NEW u \in User, DeleteUser(u)
      PROVE  Guarded(b)'
  BY <1>2, <1>6 DEF DeleteUser
<1>7. CASE Tick
  BY <1>7, TickGuarded
<1>8. CASE UNCHANGED vars
  BY <1>2, <1>8 DEF vars
<1>9. QED
  BY <1>3, <1>4, <1>5, <1>6, <1>7, <1>8 DEF Next

(* However many sign-ins are let through together, an account or an address *)
(* that is not locked has few failures, and a lock comes in time             *)
(* (recordLoginFailure).                                                    *)
THEOREM FailuresStayBounded == Spec => []FailuresBounded
<1>1. IInv => FailuresBounded
  <2>1. SUFFICES ASSUME IInv, NEW b \in Bucket, attempts[b].age < WindowTicks
                 PROVE  /\ attempts[b].lock = 0 =>
                             attempts[b].count < Limit(b) \/ attempts[b].count <= Cardinality(Call)
                        /\ \/ attempts[b].count < Limit(b) + Cardinality(Call)
                           \/ attempts[b].count <= 2 * Cardinality(Call)
    BY DEF FailuresBounded
  <2>2. attempts[b] \in Row /\ Limit(b) \in Nat /\ RowOK(attempts[b], Verifying(b), Limit(b))
    BY <2>1, Rows DEF Guarded
  <2>3. Verifying(b) \subseteq Call
    BY DEF Verifying
  <2>4. /\ Cardinality(Verifying(b)) \in Nat /\ Cardinality(Call) \in Nat
        /\ attempts[b].count \in Nat
    BY <2>2, <2>3, CallSizes DEF Row
  <2>5. \/ attempts[b].count + Cardinality(Verifying(b)) < Limit(b) + Cardinality(Call)
        \/ attempts[b].count + Cardinality(Verifying(b)) <= 2 * Cardinality(Call)
    BY <2>1, <2>2 DEF RowOK, FewAbove
  <2>6. \/ attempts[b].count < Limit(b) + Cardinality(Call)
        \/ attempts[b].count <= 2 * Cardinality(Call)
    BY <2>2, <2>4, <2>5
  <2>7. QED
    BY <2>1, <2>2, <2>6 DEF RowOK, NotFull
<1>2. QED
  BY <1>1, InitSound, NextSound, PTL DEF Spec
=============================================================================
