----------------------------- MODULE ApproverDesk -----------------------------
(***************************************************************************)
(* Signing in at the approver's desk of one program: the account that the  *)
(* program's owner sets, the sessions it earns, and the counters of failed *)
(* attempts, one per address and one for the program.  A sign-in counts    *)
(* itself as failed before it looks at the password and takes that back    *)
(* when the password was right.                                            *)
(*                                                                         *)
(* A sign-in waits three times for a digest, and the others run meanwhile: *)
(* of its address, of the password, of the token of its session.           *)
(***************************************************************************)
EXTENDS Integers, Sequences, FiniteSets, FiniteSetsExt

CONSTANTS
    Address,       \* addresses that sign-ins come from
    Password,
    Call,          \* sign-ins that can be under way at once
    None,
    AddressLimit, ProgramLimit,  \* failures of an address, of all addresses, before the lock
    WindowTicks,   \* the length of a window of failures
    LockTicks,     \* the length of the lock for the first, second, ... failure above the limit
    IdleTicks, ShiftTicks,  \* how long a session lives unused, and at all
    MaxSessions    \* bound: sessions at once

VARIABLES
    account,       \* the password of the program's account, None before there is one
    sessions,      \* approver_sessions: what is left of each, nothing where there is none
    attempts,      \* approver_login_attempts, by address and "all"
    calls,         \* sign-ins under way
    tally          \* history: what became of the sign-ins counted in the window of each row

vars == <<account, sessions, attempts, calls, tally>>

Row == Address \cup {"all"}

Limit(r) == IF r = "all" THEN ProgramLimit ELSE AddressLimit

RowsOf(address) == IF address = None THEN {"all"} ELSE {address, "all"}

NoFailures == [age |-> WindowTicks, count |-> 0, lock |-> 0]
NothingYet == [failed |-> 0, told |-> 0, undone |-> 0]

Idle == [phase |-> "idle"]

NewSession == [idle |-> IdleTicks, left |-> ShiftTicks]
NoSession  == [idle |-> 0, left |-> 0]
NoSessions == [n \in 1..MaxSessions |-> NoSession]

Init ==
    /\ account = None
    /\ sessions = NoSessions
    /\ attempts = [r \in Row |-> NoFailures]
    /\ calls = [c \in Call |-> Idle]
    /\ tally = [r \in Row |-> NothingYet]

-----------------------------------------------------------------------------
(* The counters *)

Locked(table, rows) == \E r \in rows : table[r].lock > 0

LockFor(excess) == LockTicks[Min({excess, Len(LockTicks)})]

\* Mutant: the lock comes one failure too late.
Bumped_Late(r) ==
    LET row == attempts[r]
        n   == row.count + 1
    IN  IF row.age = WindowTicks THEN [age |-> 0, count |-> 1, lock |-> 0]
        ELSE [row EXCEPT !.count = n, !.lock = IF n <= Limit(r) + 1 THEN 0 ELSE LockFor(n - Limit(r) - 1)]

\* The row of a counter after one more failure.
Bumped(r) ==
    LET row == attempts[r]
        n   == row.count + 1
    IN  IF row.age = WindowTicks THEN [age |-> 0, count |-> 1, lock |-> 0]
        ELSE [row EXCEPT !.count = n, !.lock = IF n <= Limit(r) THEN 0 ELSE LockFor(n - Limit(r))]

\* The row after one failure has been taken back.
Relieved(r, row) ==
    [row EXCEPT !.count = Max({row.count - 1, 0}),
                !.lock = IF row.count - 1 < Limit(r) THEN 0 ELSE row.lock]

ClearOnSuccess(rows) ==
    attempts' = [r \in Row |-> IF r \in rows THEN Relieved(r, attempts[r]) ELSE attempts[r]]

-----------------------------------------------------------------------------
(* A sign-in *)

Ask(c, address, password) ==
    /\ calls[c] = Idle /\ account # None
    /\ calls' = [calls EXCEPT ![c] = [phase |-> "asked", address |-> address, password |-> password]]
    /\ UNCHANGED <<account, sessions, attempts, tally>>

Refuse(c) ==
    /\ calls[c].phase = "asked" /\ Locked(attempts, RowsOf(calls[c].address))
    /\ calls' = [calls EXCEPT ![c] = Idle]
    /\ UNCHANGED <<account, sessions, attempts, tally>>

\* It counts itself as failed, and reads the account that it will be compared with.
Reserve(c) ==
    LET rows  == RowsOf(calls[c].address)
        fresh == {r \in rows : attempts[r].age = WindowTicks}
        table == [r \in Row |-> IF r \in rows THEN Bumped(r) ELSE attempts[r]]
        Older(call) == IF call.phase = "verifying" THEN [call EXCEPT !.counted = @ \ fresh] ELSE call
    IN  /\ calls[c].phase = "asked" /\ ~ Locked(attempts, rows)
        /\ attempts' = table
        /\ calls' = [d \in Call |-> IF d # c THEN Older(calls[d]) ELSE
               [phase |-> "verifying", address |-> calls[c].address,
                password |-> calls[c].password, expected |-> account,
                locked |-> Locked(table, rows),
                breach |-> table["all"].count = ProgramLimit + 1, counted |-> rows]]
        /\ tally' = [r \in Row |-> IF r \in fresh THEN NothingYet ELSE tally[r]]
        /\ UNCHANGED <<account, sessions>>

\* The password was wrong: too_many_attempts tells less than invalid_credentials.
Fail(c) ==
    LET call == calls[c] IN
    /\ call.phase = "verifying" /\ call.password # call.expected
    /\ calls' = [calls EXCEPT ![c] = Idle]
    /\ tally' = [r \in Row |-> IF r \notin call.counted THEN tally[r] ELSE
           [tally[r] EXCEPT !.failed = @ + 1, !.told = IF call.locked THEN @ ELSE @ + 1]]
    /\ UNCHANGED <<account, sessions, attempts>>

\* The password was right: the failure is taken back, whatever window the row is in by now.
Pass(c) ==
    LET call == calls[c]
        rows == RowsOf(call.address)
        taken(r) == IF attempts[r].count > 0 THEN 1 ELSE 0
        own(r)   == IF r \in call.counted THEN 1 ELSE 0
    IN
    /\ call.phase = "verifying" /\ call.password = call.expected
    /\ ClearOnSuccess(rows)
    /\ tally' = [r \in Row |-> IF r \notin rows THEN tally[r] ELSE
           [tally[r] EXCEPT !.undone = @ + taken(r) - own(r)]]
    /\ calls' = [calls EXCEPT ![c] = IF call.breach \/ Locked(attempts', rows) THEN Idle
                                     ELSE [phase |-> "issuing"]]
    /\ UNCHANGED <<account, sessions>>

Issue(c) ==
    /\ calls[c].phase = "issuing"
    /\ \E n \in 1..MaxSessions :
           sessions[n] = NoSession /\ sessions' = [sessions EXCEPT ![n] = NewSession]
    /\ calls' = [calls EXCEPT ![c] = Idle]
    /\ UNCHANGED <<account, attempts, tally>>

-----------------------------------------------------------------------------
(* The sessions, the account, and time *)

\* Mutant: a session that is used lives on past the end of the shift.
Touched_Idle(s) == [s EXCEPT !.idle = IdleTicks]

Touched(s) == [s EXCEPT !.idle = Min({IdleTicks, s.left})]

\* Every call with a session renews it first; signing out then deletes it.
Use(n) ==
    /\ sessions[n] # NoSession
    /\ sessions' = [sessions EXCEPT ![n] = Touched(@)]
    /\ UNCHANGED <<account, attempts, calls, tally>>

SignOut(n) ==
    /\ sessions[n] # NoSession
    /\ sessions' = [sessions EXCEPT ![n] = NoSession]
    /\ UNCHANGED <<account, attempts, calls, tally>>

\* The owner sets the account or replaces it: one transaction ends the sessions.
RotateCredential(password) ==
    /\ account' = password
    /\ sessions' = NoSessions
    /\ UNCHANGED <<attempts, calls, tally>>

Less(n) == Max({n - 1, 0})

\* A session that has been unused for too long, or whose shift is over, is none.
Shorter(s) ==
    IF s.idle <= 1 \/ s.left <= 1 THEN NoSession ELSE [idle |-> s.idle - 1, left |-> s.left - 1]

Tick ==
    /\ attempts' = [r \in Row |-> [attempts[r] EXCEPT !.age = Min({@ + 1, WindowTicks}),
                                                      !.lock = Less(@)]]
    /\ sessions' = [n \in 1..MaxSessions |-> Shorter(sessions[n])]
    /\ UNCHANGED <<account, calls, tally>>

Next ==
    \/ \E c \in Call :
           \/ \E a \in Address \cup {None}, p \in Password : Ask(c, a, p)
           \/ Refuse(c) \/ Reserve(c) \/ Fail(c) \/ Pass(c) \/ Issue(c)
    \/ \E n \in 1..MaxSessions : Use(n) \/ SignOut(n)
    \/ \E p \in Password : RotateCredential(p)
    \/ Tick

Spec == Init /\ [][Next]_vars

-----------------------------------------------------------------------------
(* Properties *)

(* Every variable has its type, and no session outlives the shift it was   *)
(* opened for (touchSession).                                              *)
TypeOK ==
    /\ account \in Password \cup {None}
    /\ DOMAIN sessions = 1..MaxSessions
    /\ \A n \in 1..MaxSessions :
           \/ sessions[n] = NoSession
           \/ sessions[n].left \in 1..ShiftTicks /\ sessions[n].idle \in 1..sessions[n].left
    /\ \A r \in Row : /\ attempts[r].age \in 0..WindowTicks /\ attempts[r].count \in Nat
                      /\ \E i \in DOMAIN LockTicks : attempts[r].lock \in 0..LockTicks[i]
    /\ \A c \in Call : calls[c].phase \in {"idle", "asked", "verifying", "issuing"}

(* However the sign-ins interleave, in one window no more guesses of an    *)
(* address, or of all addresses, are told that they are wrong than the     *)
(* limit allows (the reservation before the password is verified; each     *)
(* success that straddles two windows gives one guess back).               *)
GuessesBounded ==
    \A r \in Row : tally[r].told <= Limit(r) + tally[r].undone
=============================================================================
