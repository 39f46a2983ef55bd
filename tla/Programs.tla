-------------------------------- MODULE Programs --------------------------------
(***************************************************************************)
(* Programs from creation to the end of their retention: the requests of   *)
(* the console that create, edit, delete and restore programs and their    *)
(* languages, the removal of a user, and the retention pass that prunes    *)
(* deleted programs and redacts what listeners left in old ones.           *)
(*                                                                         *)
(* Requests that carry a body are checked, wait for the body, and then     *)
(* write.  A retention pass runs without a wait, so no request comes in    *)
(* between, but every statement commits by itself and the process may stop *)
(* after any of them.                                                      *)
(***************************************************************************)
EXTENDS Integers, Sequences, FiniteSets

CONSTANTS
    Admin,         \* the account of role admin
    Owners,        \* accounts of role user
    NoOwner,       \* created_by of a program whose owner was removed
    Ids,           \* ids of programs
    Languages,     \* languages a program may have
    NoProgram,     \* the pass is not at work on a program
    ChunkSize,     \* rows deleted by one statement
    MaxRows,       \* bound: connections of one program
    MaxWaiting,    \* bound: requests that wait for their body
    MaxCrashes,    \* bound: crashes
    MaxEvents      \* bound: requests, removals of users, broadcasts and time, together

ASSUME ProgramsAssumption ==
    /\ Admin \notin Owners /\ NoOwner \notin Owners \cup {Admin} /\ NoProgram \notin Ids
    /\ ChunkSize \in Nat \ {0}
    /\ {MaxRows, MaxWaiting, MaxCrashes, MaxEvents} \subseteq Nat

VARIABLES
    users,         \* rows of users
    prog,          \* prog[p]: the row of programs
    languages,     \* languages[p]: state of every language of p
    accounts,      \* programs with rows of approvers, translators and their sessions
    rows,          \* rows[p]: listener_connections of p, oldest first
    waiting,       \* requests that were let in and wait for their body
    pass,          \* the retention pass
    crashes, events

vars == <<users, prog, languages, accounts, rows, waiting, pass, crashes, events>>

\* Where the end date of a program is: none, to come or just past; more than 30 days past, as
\* the endpoint counts; more than 59 days past, as the nightly query counts.
Ends == <<"on", "month", "twomonths">>

NoRow   == [state |-> "none", aged |-> FALSE, owner |-> NoOwner, end |-> 1, processed |-> FALSE]
GoneRow == [NoRow EXCEPT !.state = "gone"]
Idle    == [at |-> "idle", todo |-> {}, prog |-> NoProgram]

\* Some programs were made before, each with its languages.
Init ==
    /\ users = Owners \cup {Admin}
    /\ prog \in [Ids -> {NoRow} \cup {[NoRow EXCEPT !.state = "kept", !.owner = u] : u \in Owners}]
    /\ languages = [p \in Ids |->
                      [l \in Languages |-> IF prog[p] = NoRow THEN "none" ELSE "off"]]
    /\ accounts = {p \in Ids : prog[p] # NoRow}
    /\ rows = [p \in Ids |-> <<>>]
    /\ waiting = {}
    /\ pass = Idle
    /\ crashes = 0 /\ events = 0

Kept(p)    == prog[p].state = "kept"
Deleted(p) == prog[p].state = "deleted"

\* What requests leave alone, and what they count.
Event == events < MaxEvents /\ events' = events + 1 /\ pass.at = "idle"

-----------------------------------------------------------------------------
(* Requests of the console *)

\* requireProgramAccess: the admin may do everything, a user what it created.
MayAccess(u, p, includeDeleted) ==
    /\ u \in users
    /\ Kept(p) \/ (includeDeleted /\ Deleted(p))
    /\ u = Admin \/ prog[p].owner = u

\* A request with a body is let in and waits: a program to create, one to edit, a language to add.
Ask(u, op, p) ==
    /\ Event
    /\ Cardinality(waiting) < MaxWaiting
    /\ IF op = "create" THEN u \in users /\ prog[p].state = "none" ELSE MayAccess(u, p, FALSE)
    /\ waiting' = waiting \cup {[user |-> u, op |-> op, prog |-> p]}
    /\ UNCHANGED <<users, prog, languages, accounts, rows, pass, crashes>>

Answered(r) == waiting' = waiting \ {r}

\* POST /api/admin/programs.  The owner must exist when the row is inserted.
Create(r) ==
    /\ r.op = "create" /\ pass.at = "idle" /\ Answered(r)
    /\ \E owner \in users \cap (IF r.user = Admin THEN Owners \cup {Admin} ELSE {r.user}) :
         prog' = [prog EXCEPT ![r.prog] =
             IF @.state = "none" THEN [NoRow EXCEPT !.state = "kept", !.owner = owner] ELSE @]
    /\ UNCHANGED <<users, languages, accounts, rows, pass, crashes, events>>

\* updateProgram reads the program once more, after the body has come.
MayEdit(p) == Kept(p)

\* PATCH /api/admin/programs/:id moves the end date or, for the admin, gives the program away.
Edit(r) ==
    /\ r.op = "edit" /\ pass.at = "idle" /\ Answered(r)
    /\ MayEdit(r.prog)
    /\ \/ \E end \in DOMAIN Ends : prog' = [prog EXCEPT ![r.prog].end = end]
       \/ \E owner \in users : r.user = Admin /\ prog' = [prog EXCEPT ![r.prog].owner = owner]
    /\ UNCHANGED <<users, languages, accounts, rows, pass, crashes, events>>

\* POST .../streams.  A deleted program is still one that exists.  The translator of the
\* language is inserted after another wait, for a digest, or not at all.
AddLanguage(r, l) ==
    /\ r.op = "add" /\ pass.at = "idle" /\ Answered(r)
    /\ prog[r.prog].state \in {"kept", "deleted"}
    /\ languages[r.prog][l] = "none"
    /\ languages' = [languages EXCEPT ![r.prog][l] = "off"]
    /\ \E given \in BOOLEAN : accounts' = IF given THEN accounts \cup {r.prog} ELSE accounts
    /\ UNCHANGED <<users, prog, rows, pass, crashes, events>>

\* The body does not come, or is refused: a name or an owner that is unknown, a program that
\* is no longer there.
Refuse(r) ==
    /\ pass.at = "idle" /\ Answered(r)
    /\ UNCHANGED <<users, prog, languages, accounts, rows, pass, crashes, events>>

\* DELETE .../streams/:id, refused while the language has a history or a publisher.
DeleteLanguage(u, p, l) ==
    /\ Event /\ MayAccess(u, p, FALSE)
    /\ languages[p][l] = "off"
    /\ \A i \in DOMAIN rows[p] : rows[p][i].language # l
    /\ languages' = [languages EXCEPT ![p][l] = "none"]
    /\ UNCHANGED <<users, prog, accounts, rows, waiting, pass, crashes>>

\* DELETE /api/admin/programs/:id.
DeleteProgram(u, p) ==
    /\ Event /\ MayAccess(u, p, TRUE) /\ Kept(p)
    /\ prog' = [prog EXCEPT ![p].state = "deleted"]
    /\ UNCHANGED <<users, languages, accounts, rows, waiting, pass, crashes>>

\* POST .../restore.
RestoreProgram(u, p) ==
    /\ Event /\ MayAccess(u, p, TRUE) /\ Deleted(p)
    /\ prog' = [prog EXCEPT ![p].state = "kept", ![p].aged = FALSE]
    /\ UNCHANGED <<users, languages, accounts, rows, waiting, pass, crashes>>

OwnedBy(u) == {p \in Ids : (Kept(p) \/ Deleted(p)) /\ prog[p].owner = u}

\* deleteUser: the programs of the user are deleted and nobody's, in one transaction.
DeleteUser(u) ==
    /\ Event /\ u \in users \ {Admin}
    /\ users' = users \ {u}
    /\ prog' = [p \in Ids |->
         IF p \in OwnedBy(u)
         THEN [prog[p] EXCEPT !.state = "deleted", !.owner = NoOwner] ELSE prog[p]]
    /\ UNCHANGED <<languages, accounts, rows, waiting, pass, crashes>>

-----------------------------------------------------------------------------
(* The world *)

\* A translator begins or ends: ended ones leave a history behind, active ones lock the language.
TurnLanguage(p, l) ==
    /\ Event
    /\ languages[p][l] # "none"
    /\ IF languages[p][l] = "off" THEN Kept(p) ELSE TRUE
    /\ languages' = [languages EXCEPT ![p][l] = IF @ = "off" THEN "busy" ELSE "off"]
    /\ UNCHANGED <<users, prog, accounts, rows, waiting, pass, crashes>>

\* A listener connects, anew or as the successor of a connection.
Connect(p, l, prev) ==
    /\ pass.at = "idle"
    /\ Kept(p) /\ Ends[prog[p].end] = "on" /\ languages[p][l] # "none"
    /\ Len(rows[p]) < MaxRows
    /\ \A i \in DOMAIN rows[p] : prev # 0 => rows[p][i].prev # prev
    /\ rows' = [rows EXCEPT ![p] = Append(@, [language |-> l, prev |-> prev, raw |-> TRUE])]
    /\ UNCHANGED <<users, prog, languages, accounts, waiting, pass, crashes, events>>

\* The seven days after the deletion are over; the end date of a program that is kept falls back
\* by one class.
Aged(row) == IF row.state = "deleted" THEN [row EXCEPT !.aged = TRUE]
             ELSE [row EXCEPT !.end = IF @ < Len(Ends) THEN @ + 1 ELSE @]

GrowOlder(older) ==
    /\ Event
    /\ \A p \in older : Kept(p) \/ Deleted(p)
    /\ prog' = [p \in Ids |-> IF p \in older THEN Aged(prog[p]) ELSE prog[p]]
    /\ UNCHANGED <<users, languages, accounts, rows, waiting, pass, crashes>>

-----------------------------------------------------------------------------
(* Retention *)

Work(at, todo, p) == [at |-> at, todo |-> todo, prog |-> p]
At(at) == pass' = [pass EXCEPT !.at = at]
NextProgram == Work("prune", pass.todo \ {pass.prog}, NoProgram)
KeepRequests == UNCHANGED <<users, waiting, crashes, events>>

\* listProgramsToPrune
ToPrune == {p \in Ids : Deleted(p) /\ prog[p].aged}

\* listProgramsToRedact: counts the 30 days from a day 30 days ago.
ToRedact == {p \in Ids : Kept(p) /\ ~prog[p].processed /\ Ends[prog[p].end] = "twomonths"}

\* isRetentionEligible
Eligible(p) == ~prog[p].processed /\ Ends[prog[p].end] \in {"month", "twomonths"}

BeginPass ==
    /\ pass.at = "idle"
    /\ pass' = Work("prune", ToPrune, NoProgram)
    /\ UNCHANGED <<prog, languages, accounts, rows>> /\ KeepRequests

\* POST .../retention/run does for one program what the pass does for all.
RunNow(u, p) ==
    /\ Event /\ MayAccess(u, p, FALSE) /\ Eligible(p)
    /\ pass' = Work("redact", {p}, NoProgram)
    /\ UNCHANGED <<users, prog, languages, accounts, rows, waiting, crashes>>

\* pruneProgram, once for every program of the list.
PickPrune ==
    /\ pass.at = "prune"
    /\ IF pass.todo = {} THEN pass' = Work("redact", ToRedact, NoProgram)
       ELSE \E p \in pass.todo : pass' = Work("accounts", pass.todo, p)
    /\ UNCHANGED <<prog, languages, accounts, rows>> /\ KeepRequests

PruneAccounts ==
    /\ pass.at = "accounts"
    /\ accounts' = accounts \ {pass.prog}
    /\ At("rows")
    /\ UNCHANGED <<prog, languages, rows>> /\ KeepRequests

\* Rows after the first chunk, whose references count from the rows that are left.
AfterChunk(s) ==
    [i \in 1..(Len(s) - ChunkSize) |->
        [s[i + ChunkSize] EXCEPT !.prev = IF @ > ChunkSize THEN @ - ChunkSize ELSE 0]]

\* A row of the chunk is referred to by a row that stays: the statement fails.
ChunkHeld(s) == \E i \in DOMAIN s : i > ChunkSize /\ s[i].prev \in 1..ChunkSize

\* Mutant: an error of one program ends the pass.
Failed_EndsPass == Idle

\* Mutant: an error is swallowed and the pass goes on with the program's row.
Failed_Ignored == [pass EXCEPT !.at = "row"]

\* The error of one program is noted and the pass goes on to the next.
Failed == NextProgram

\* deleteInChunks('listener_connections')
PruneRows ==
    /\ pass.at = "rows"
    /\ LET s == rows[pass.prog] IN
         \/ s = <<>> /\ At("languages") /\ UNCHANGED rows
         \/ s # <<>> /\ ~ChunkHeld(s) /\ UNCHANGED pass
            /\ rows' = [rows EXCEPT ![pass.prog] = IF Len(s) <= ChunkSize THEN <<>> ELSE AfterChunk(s)]
         \/ ChunkHeld(s) /\ pass' = Failed /\ UNCHANGED rows
    /\ UNCHANGED <<prog, languages, accounts>> /\ KeepRequests

PruneLanguages ==
    /\ pass.at = "languages"
    /\ languages' = [languages EXCEPT ![pass.prog] = [l \in Languages |-> "none"]]
    /\ At("row")
    /\ UNCHANGED <<prog, accounts, rows>> /\ KeepRequests

PruneRow ==
    /\ pass.at = "row"
    /\ prog' = [prog EXCEPT ![pass.prog] = GoneRow]
    /\ pass' = NextProgram
    /\ UNCHANGED <<languages, accounts, rows>> /\ KeepRequests

Redacted(p) == [rows EXCEPT ![p] = [i \in DOMAIN @ |-> [@[i] EXCEPT !.raw = FALSE]]]

\* Mutant: a program is marked before its rows are redacted.
RedactFirst_Mark == FALSE

\* anonymizeProgramTelemetry, and then markRetentionProcessed.
RedactFirst == TRUE

RedactStep(p, first) ==
    IF first = RedactFirst
    THEN rows' = Redacted(p) /\ UNCHANGED prog
    ELSE prog' = [prog EXCEPT ![p].processed = TRUE] /\ UNCHANGED rows

PickRedact ==
    /\ pass.at = "redact"
    /\ \/ pass.todo = {} /\ pass' = Idle /\ UNCHANGED <<prog, rows>>
       \/ \E p \in pass.todo : pass' = Work("mark", pass.todo, p) /\ RedactStep(p, TRUE)
    /\ UNCHANGED <<languages, accounts>> /\ KeepRequests

Mark ==
    /\ pass.at = "mark"
    /\ pass' = [pass EXCEPT !.at = "redact", !.todo = @ \ {pass.prog}]
    /\ RedactStep(pass.prog, FALSE)
    /\ UNCHANGED <<languages, accounts>> /\ KeepRequests

PassStep ==
    \/ PickPrune \/ PruneAccounts \/ PruneRows \/ PruneLanguages \/ PruneRow
    \/ PickRedact \/ Mark

\* The process stops: a pass ends where it was, and no request is answered.
Crash ==
    /\ crashes < MaxCrashes
    /\ crashes' = crashes + 1
    /\ pass.at # "idle" \/ waiting # {}
    /\ pass' = Idle /\ waiting' = {}
    /\ UNCHANGED <<users, prog, languages, accounts, rows, events>>

-----------------------------------------------------------------------------

Requests ==
    \/ \E u \in Owners \cup {Admin}, p \in Ids :
         \/ \E op \in {"create", "edit", "add"} : Ask(u, op, p)
         \/ \E l \in Languages : DeleteLanguage(u, p, l)
         \/ DeleteProgram(u, p) \/ RestoreProgram(u, p) \/ RunNow(u, p)
    \/ \E r \in waiting : Create(r) \/ Edit(r) \/ Refuse(r) \/ \E l \in Languages : AddLanguage(r, l)
    \/ \E u \in Owners : DeleteUser(u)

World ==
    \/ \E older \in SUBSET Ids \ {{}} : GrowOlder(older)
    \/ \E p \in Ids, l \in Languages :
         TurnLanguage(p, l) \/ \E prev \in 0..Len(rows[p]) : Connect(p, l, prev)

Next == Requests \/ World \/ BeginPass \/ PassStep \/ Crash

Spec == Init /\ [][Next]_vars

\* The pass begins every night, and runs on unless the process stops.
FairSpec == Spec /\ WF_vars(BeginPass) /\ WF_vars(PassStep)

-----------------------------------------------------------------------------
(* Properties *)

States == {"none", "kept", "deleted", "gone"}
Steps  == {"idle", "prune", "accounts", "rows", "languages", "row", "redact", "mark"}

\* The types, and what the pass is at work on: a prune on a program that is deleted for seven
\* days, redaction on one that is kept, and no program when it is idle.
TypeOK ==
    /\ users \subseteq Owners \cup {Admin}
    /\ prog \in [Ids -> [state : States, aged : BOOLEAN, owner : Owners \cup {Admin, NoOwner},
                         end : DOMAIN Ends, processed : BOOLEAN]]
    /\ languages \in [Ids -> [Languages -> {"none", "off", "busy"}]]
    /\ accounts \subseteq Ids
    /\ \A p \in Ids : rows[p] \in Seq([language : Languages, prev : Nat, raw : BOOLEAN])
    /\ waiting \subseteq [user : Owners \cup {Admin}, op : {"create", "edit", "add"}, prog : Ids]
    /\ pass \in [at : Steps, todo : SUBSET Ids, prog : Ids \cup {NoProgram}]
    /\ pass.at \in {"accounts", "rows", "languages", "row"} => Deleted(pass.prog)
    /\ pass.at = "mark" => Kept(pass.prog)

\* A program that was pruned leaves no account, connection or language behind, whatever the
\* crashes and failed statements in between: children go first and the program's row last.
GoneLeavesNothing ==
    \A p \in Ids : prog[p].state = "gone" =>
        p \notin accounts /\ rows[p] = <<>> /\ \A l \in Languages : languages[p][l] = "none"

\* Every program belongs to an account that exists, or to nobody: removing a user does not
\* leave programs, deleted ones included, to an account that is no more.
OwnerExists ==
    \A p \in Ids : Kept(p) \/ Deleted(p) => prog[p].owner \in users \cup {NoOwner}

\* Nothing of a program outlives what it belongs to.
NothingIsOrphaned == GoneLeavesNothing /\ OwnerExists

ToBePruned(p)  == Deleted(p) /\ prog[p].aged

\* A program that was deleted seven days ago and whose connections do not refer across chunks
\* is pruned, unless it is restored: neither a crash nor another program that cannot be pruned
\* stands in the way.
UnchainedIsPruned ==
    \A p \in Ids : ToBePruned(p) /\ (\A i \in DOMAIN rows[p] : rows[p][i].prev = 0)
                    ~> prog[p].state \in {"gone", "kept"}

\* What listeners left in a program that ended long ago and is not marked is redacted: a crash
\* between the redaction and its mark does not leave them apart.
OverdueIsRedacted ==
    \A p \in Ids : p \in ToRedact
        ~> (\A i \in DOMAIN rows[p] : ~rows[p][i].raw) \/ ~Kept(p)
           \/ Ends[prog[p].end] # "twomonths"

\* The nightly passes do all their work in the end.
NightlyWorkIsDone == UnchainedIsPruned /\ OverdueIsRedacted

\* What pruneProgram is for: a program that was deleted seven days ago is pruned, unless it is
\* restored.  A connection and its successor in different chunks stop every pass at the same
\* statement, after the accounts are gone.
DeletedIsPruned == \A p \in Ids : ToBePruned(p) ~> prog[p].state \in {"gone", "kept"}
=============================================================================
