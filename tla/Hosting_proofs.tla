---------------------------- MODULE Hosting_proofs ----------------------------
(***************************************************************************)
(* Proofs about what lets listeners hear a program, for any numbers of     *)
(* tabs, claims, tokens, programs, listeners, sessions and keys.           *)
(*                                                                         *)
(* Programs: that a pruned program leaves nothing behind is not inductive  *)
(* by itself, since the row goes in a step that looks at nothing else.     *)
(* What makes it so is the place the pass has reached, and that nobody     *)
(* puts back what a pass has removed: a request waits until it has ended.  *)
(*                                                                         *)
(* The gate: that it is sound is not inductive either.  A page comes to    *)
(* rest when a request ends, so what makes it so is what each request      *)
(* under way was sent for, that no page has two that would start it anew,  *)
(* and which claim the polls of a page that waits ask about.  The stream   *)
(* on the air: its types are inductive as they stand.  The limiter: the    *)
(* buckets it keeps are few because the least recently used are dropped.   *)
(***************************************************************************)
EXTENDS Hosting, SequenceTheorems, FiniteSetTheorems, WellFoundedInduction, TLAPS

-----------------------------------------------------------------------------
(* Programs: the inductive invariant *)

Account    == Owners \cup {Admin}
Connection == [language : Languages, prev : Nat, raw : BOOLEAN]
ProgramRow == [state : States, aged : BOOLEAN, owner : Account \cup {NoOwner},
               end : DOMAIN Ends, processed : BOOLEAN]
Request    == [user : Account, op : {"create", "edit", "add"}, prog : Ids]

Typed ==
    /\ users \subseteq Account
    /\ prog \in [Ids -> ProgramRow]
    /\ languages \in [Ids -> [Languages -> {"none", "off", "busy"}]]
    /\ accounts \subseteq Ids
    /\ rows \in [Ids -> Seq(Connection)]
    /\ waiting \subseteq Request
    /\ pass \in [at : Steps, todo : SUBSET Ids, prog : Ids \cup {NoProgram}]

PruneSteps == {"accounts", "rows", "languages", "row"}

(* A pass prunes programs that are deleted and redacts programs that are    *)
(* kept, the one it is at work on and the ones it still has to do.          *)
AtWork ==
    /\ pass.at \in PruneSteps => pass.prog \in Ids /\ Deleted(pass.prog)
    /\ pass.at = "mark" => pass.prog \in Ids /\ Kept(pass.prog)
    /\ pass.at \in PruneSteps \cup {"prune"} => \A p \in pass.todo : Deleted(p)
    /\ pass.at \in {"redact", "mark"} => \A p \in pass.todo : Kept(p)

(* What pruneProgram removed before the statement it has reached.           *)
ChildrenFirst ==
    /\ pass.at \in {"rows", "languages", "row"} => pass.prog \notin accounts
    /\ pass.at \in {"languages", "row"} => rows[pass.prog] = <<>>
    /\ pass.at = "row" => \A l \in Languages : languages[pass.prog][l] = "none"

IInv == Typed /\ AtWork /\ ChildrenFirst /\ GoneLeavesNothing /\ OwnerExists

-----------------------------------------------------------------------------
(* Lemmas *)

LEMMA EndsAre == Len(Ends) = 3 /\ DOMAIN Ends = 1..3
BY DEF Ends

(* What a request finds when no pass runs stays as the pass wants it.       *)
LEMMA IdleIsFree ==
  ASSUME pass.at = "idle", pass' = pass
  PROVE  AtWork' /\ ChildrenFirst'
BY DEF AtWork, ChildrenFirst, PruneSteps

(* Nothing is left of a gone program while only other programs get more.    *)
LEMMA GoneStaysEmpty ==
  ASSUME GoneLeavesNothing,
         \A p \in Ids : prog'[p].state = "gone" =>
            /\ prog[p].state = "gone"
            /\ p \in accounts' => p \in accounts
            /\ rows'[p] = rows[p] \/ rows'[p] = <<>>
            /\ \A l \in Languages : languages'[p][l] = languages[p][l] \/ languages'[p][l] = "none"
  PROVE  GoneLeavesNothing'
BY DEF GoneLeavesNothing

LEMMA OwnersStay ==
  ASSUME OwnerExists, UNCHANGED users,
         \A p \in Ids : prog'[p].state \in {"kept", "deleted"} =>
            \/ prog[p].state \in {"kept", "deleted"} /\ prog'[p].owner = prog[p].owner
            \/ prog'[p].owner \in users
  PROVE  OwnerExists'
BY DEF OwnerExists, Kept, Deleted

(* A chunk less is still a sequence of connections.                         *)
LEMMA AfterChunkType ==
  ASSUME NEW s \in Seq(Connection), Len(s) > ChunkSize
  PROVE  AfterChunk(s) \in Seq(Connection)
<1>1. ChunkSize \in Nat /\ ChunkSize > 0
  BY ProgramsAssumption
<1>2. Len(s) \in Nat /\ Len(s) - ChunkSize \in Nat
  BY <1>1
<1>3. ASSUME NEW i \in 1..(Len(s) - ChunkSize)
      PROVE  [s[i + ChunkSize] EXCEPT !.prev = IF @ > ChunkSize THEN @ - ChunkSize ELSE 0] \in Connection
  <2>1. i + ChunkSize \in 1..Len(s)
    BY <1>1, <1>2, <1>3
  <2>2. s[i + ChunkSize] \in Connection
    BY <2>1
  <2> DEFINE c == s[i + ChunkSize]
  <2>3. c \in Connection
    BY <2>2
  <2> HIDE DEF c
  <2>4. (IF c.prev > ChunkSize THEN c.prev - ChunkSize ELSE 0) \in Nat
    BY <2>3, <1>1 DEF Connection
  <2>5. [c EXCEPT !.prev = IF @ > ChunkSize THEN @ - ChunkSize ELSE 0] \in Connection
    BY <2>3, <2>4 DEF Connection
  <2>6. QED
    BY <2>5 DEF c
<1>4. QED
  BY <1>2, <1>3 DEF AfterChunk

LEMMA RedactedType ==
  ASSUME Typed, NEW p \in Ids
  PROVE  /\ Redacted(p) \in [Ids -> Seq(Connection)]
         /\ \A q \in Ids : rows[q] = <<>> => Redacted(p)[q] = <<>>
<1>1. rows[p] \in Seq(Connection)
  BY DEF Typed
<1> DEFINE s == rows[p]
           r == [i \in DOMAIN s |-> [s[i] EXCEPT !.raw = FALSE]]
<1>2. r \in Seq(Connection) /\ (s = <<>> => r = <<>>)
  <2>1. DOMAIN s = 1..Len(s) /\ Len(s) \in Nat
    BY <1>1
  <2>2. \A i \in DOMAIN s : s[i] \in Connection
    BY <1>1
  <2>3. \A i \in DOMAIN s : [s[i] EXCEPT !.raw = FALSE] \in Connection
    BY <2>2 DEF Connection
  <2>4. QED
    BY <2>1, <2>3
<1>3. Redacted(p) = [rows EXCEPT ![p] = r]
  BY DEF Redacted, Typed
<1> HIDE DEF r
<1>4. QED
  BY <1>2, <1>3 DEF Typed, s

-----------------------------------------------------------------------------
(* The initial states *)

LEMMA RowTypes ==
  /\ NoRow \in ProgramRow /\ GoneRow \in ProgramRow
  /\ \A u \in Account : [NoRow EXCEPT !.state = "kept", !.owner = u] \in ProgramRow
  /\ Idle \in [at : Steps, todo : SUBSET Ids, prog : Ids \cup {NoProgram}]
<1>1. NoRow \in ProgramRow
  BY EndsAre DEF NoRow, ProgramRow, States
<1>2. GoneRow \in ProgramRow
  BY <1>1 DEF GoneRow, ProgramRow, States
<1>3. ASSUME NEW u \in Account
      PROVE  [NoRow EXCEPT !.state = "kept", !.owner = u] \in ProgramRow
  BY <1>1, <1>3 DEF ProgramRow, States
<1>4. Idle \in [at : Steps, todo : SUBSET Ids, prog : Ids \cup {NoProgram}]
  BY DEF Idle, Steps
<1>5. QED
  BY <1>1, <1>2, <1>3, <1>4

LEMMA InitOK == Init => IInv
<1> SUFFICES ASSUME Init PROVE IInv
  OBVIOUS
<1>1. \A p \in Ids :
         /\ prog[p] \in ProgramRow
         /\ prog[p].state = "none" \/ (prog[p].state = "kept" /\ prog[p].owner \in Owners)
  <2>1. TAKE p \in Ids
  <2>2. CASE prog[p] = NoRow
    <3>1. NoRow.state = "none"
      BY DEF NoRow
    <3>2. QED
      BY <2>2, <3>1, RowTypes
  <2>3. CASE \E u \in Owners : prog[p] = [NoRow EXCEPT !.state = "kept", !.owner = u]
    <3>1. PICK u \in Owners : prog[p] = [NoRow EXCEPT !.state = "kept", !.owner = u]
      BY <2>3
    <3>2. u \in Account
      BY DEF Account
    <3>3. [NoRow EXCEPT !.state = "kept", !.owner = u] \in ProgramRow
      BY <3>2, RowTypes
    <3>4. QED
      BY <3>1, <3>3 DEF NoRow
  <2>4. QED
    BY <2>1, <2>2, <2>3 DEF Init
<1>2. prog \in [Ids -> ProgramRow]
  BY <1>1 DEF Init
<1>3. languages \in [Ids -> [Languages -> {"none", "off", "busy"}]]
  BY DEF Init
<1>4. rows \in [Ids -> Seq(Connection)]
  <2>1. <<>> \in Seq(Connection)
    OBVIOUS
  <2>2. QED
    BY <2>1 DEF Init
<1>5. Typed
  BY <1>2, <1>3, <1>4, RowTypes DEF Init, Typed, Account
<1>6. AtWork /\ ChildrenFirst
  BY DEF Init, Idle, AtWork, ChildrenFirst, PruneSteps
<1>7. GoneLeavesNothing
  BY <1>1 DEF GoneLeavesNothing
<1>8. OwnerExists
  BY <1>1 DEF OwnerExists, Kept, Deleted, Init
<1>9. QED
  BY <1>5, <1>6, <1>7, <1>8 DEF IInv

-----------------------------------------------------------------------------
(* Requests: each proof has a step for every part of the invariant that the *)
(* request can disturb.                                                     *)

LEMMA AskOK ==
  ASSUME IInv, NEW u \in Account, NEW op \in {"create", "edit", "add"}, NEW p \in Ids, Ask(u, op, p)
  PROVE  IInv'
<1>1. [user |-> u, op |-> op, prog |-> p] \in Request
  BY DEF Request
<1>2. Typed'
  BY <1>1 DEF IInv, Typed, Ask
<1>3. AtWork' /\ ChildrenFirst'
  BY IdleIsFree DEF Ask, Event
<1>4. GoneLeavesNothing' /\ OwnerExists'
  BY DEF IInv, Ask, GoneLeavesNothing, OwnerExists, Kept, Deleted
<1>5. QED
  BY <1>2, <1>3, <1>4 DEF IInv

LEMMA CreateOK ==
  ASSUME IInv, NEW r \in waiting, Create(r)
  PROVE  IInv'
<1>1. r \in Request /\ r.prog \in Ids /\ r.user \in Account
  BY DEF IInv, Typed, Request
<1>2. PICK owner \in users \cap (IF r.user = Admin THEN Owners \cup {Admin} ELSE {r.user}) :
         prog' = [prog EXCEPT ![r.prog] =
             IF @.state = "none" THEN [NoRow EXCEPT !.state = "kept", !.owner = owner] ELSE @]
  BY DEF Create
<1> DEFINE new == [NoRow EXCEPT !.state = "kept", !.owner = owner]
<1>3. new \in ProgramRow /\ new.state = "kept" /\ new.owner = owner /\ owner \in users
  BY RowTypes, <1>2 DEF IInv, Typed, NoRow
<1>4. \A p \in Ids : prog'[p] = prog[p] \/ prog'[p] = new
  BY <1>1, <1>2 DEF IInv, Typed
<1>5. prog' \in [Ids -> ProgramRow]
  BY <1>2, <1>3 DEF IInv, Typed
<1> HIDE DEF new
<1>6. Typed'
  BY <1>5 DEF IInv, Typed, Create, Answered
<1>7. AtWork' /\ ChildrenFirst'
  BY IdleIsFree DEF Create
<1>8. GoneLeavesNothing'
  BY <1>3, <1>4, GoneStaysEmpty DEF IInv, Create
<1>9. OwnerExists'
  BY <1>3, <1>4, OwnersStay DEF IInv, Create
<1>10. QED
  BY <1>6, <1>7, <1>8, <1>9 DEF IInv

LEMMA EditOK ==
  ASSUME IInv, NEW r \in waiting, Edit(r)
  PROVE  IInv'
<1>1. r \in Request /\ r.prog \in Ids /\ prog[r.prog].state = "kept" /\ prog[r.prog] \in ProgramRow
  BY DEF IInv, Typed, Request, Edit, MayEdit, Kept
<1>2. PICK new \in ProgramRow : /\ prog' = [prog EXCEPT ![r.prog] = new]
                                /\ new.state = "kept"
                                /\ new.owner = prog[r.prog].owner \/ new.owner \in users
  <2>1. CASE \E end \in DOMAIN Ends : prog' = [prog EXCEPT ![r.prog].end = end]
    <3>1. PICK end \in DOMAIN Ends : prog' = [prog EXCEPT ![r.prog].end = end]
      BY <2>1
    <3>2. [prog[r.prog] EXCEPT !.end = end] \in ProgramRow
      BY <1>1, <3>1 DEF ProgramRow
    <3>3. QED
      BY <1>1, <3>1, <3>2 DEF ProgramRow
  <2>2. CASE \E owner \in users : prog' = [prog EXCEPT ![r.prog].owner = owner]
    <3>1. PICK owner \in users : prog' = [prog EXCEPT ![r.prog].owner = owner]
      BY <2>2
    <3>2. [prog[r.prog] EXCEPT !.owner = owner] \in ProgramRow
      BY <1>1, <3>1 DEF ProgramRow, IInv, Typed
    <3>3. QED
      BY <1>1, <3>1, <3>2 DEF ProgramRow
  <2>3. QED
    BY <2>1, <2>2 DEF Edit
<1>3. \A p \in Ids : prog'[p] = IF p = r.prog THEN new ELSE prog[p]
  BY <1>2 DEF IInv, Typed
<1>4. Typed'
  BY <1>2 DEF IInv, Typed, Edit, Answered
<1>5. AtWork' /\ ChildrenFirst'
  BY IdleIsFree DEF Edit
<1>6. GoneLeavesNothing'
  BY <1>2, <1>3, GoneStaysEmpty DEF IInv, Edit
<1>7. OwnerExists'
  BY <1>1, <1>2, <1>3, OwnersStay DEF IInv, Edit
<1>8. QED
  BY <1>4, <1>5, <1>6, <1>7 DEF IInv

LEMMA AddLanguageOK ==
  ASSUME IInv, NEW r \in waiting, NEW l \in Languages, AddLanguage(r, l)
  PROVE  IInv'
<1>1. r \in Request /\ r.prog \in Ids /\ prog[r.prog].state # "gone"
  BY DEF IInv, Typed, Request, AddLanguage
<1>2. PICK given \in BOOLEAN : accounts' = IF given THEN accounts \cup {r.prog} ELSE accounts
  BY DEF AddLanguage
<1>3. /\ languages' \in [Ids -> [Languages -> {"none", "off", "busy"}]]
      /\ \A p \in Ids : p # r.prog => languages'[p] = languages[p]
  BY <1>1 DEF IInv, Typed, AddLanguage
<1>4. Typed'
  BY <1>1, <1>2, <1>3 DEF IInv, Typed, AddLanguage, Answered
<1>5. AtWork' /\ ChildrenFirst'
  BY IdleIsFree DEF AddLanguage
<1>6. GoneLeavesNothing'
  BY <1>1, <1>2, <1>3, GoneStaysEmpty DEF IInv, AddLanguage
<1>7. OwnerExists'
  BY OwnersStay DEF IInv, AddLanguage
<1>8. QED
  BY <1>4, <1>5, <1>6, <1>7 DEF IInv

LEMMA RefuseOK ==
  ASSUME IInv, NEW r \in waiting, Refuse(r)
  PROVE  IInv'
<1>1. Typed'
  BY DEF IInv, Typed, Refuse, Answered
<1>2. AtWork' /\ ChildrenFirst'
  BY IdleIsFree DEF Refuse
<1>3. GoneLeavesNothing' /\ OwnerExists'
  BY DEF IInv, Refuse, GoneLeavesNothing, OwnerExists, Kept, Deleted
<1>4. QED
  BY <1>1, <1>2, <1>3 DEF IInv

LEMMA DeleteLanguageOK ==
  ASSUME IInv, NEW u \in Account, NEW p \in Ids, NEW l \in Languages, DeleteLanguage(u, p, l)
  PROVE  IInv'
<1>1. prog[p].state # "gone"
  BY DEF DeleteLanguage, MayAccess, Kept
<1>2. /\ languages' \in [Ids -> [Languages -> {"none", "off", "busy"}]]
      /\ \A q \in Ids : q # p => languages'[q] = languages[q]
  BY DEF IInv, Typed, DeleteLanguage
<1>3. Typed'
  BY <1>2 DEF IInv, Typed, DeleteLanguage
<1>4. AtWork' /\ ChildrenFirst'
  BY IdleIsFree DEF DeleteLanguage, Event
<1>5. GoneLeavesNothing'
  BY <1>1, <1>2, GoneStaysEmpty DEF IInv, DeleteLanguage
<1>6. OwnerExists'
  BY OwnersStay DEF IInv, DeleteLanguage
<1>7. QED
  BY <1>3, <1>4, <1>5, <1>6 DEF IInv

LEMMA DeleteProgramOK ==
  ASSUME IInv, NEW u \in Account, NEW p \in Ids, DeleteProgram(u, p)
  PROVE  IInv'
<1> DEFINE new == [prog[p] EXCEPT !.state = "deleted"]
<1>1. prog[p] \in ProgramRow /\ prog[p].state = "kept"
  BY DEF IInv, Typed, DeleteProgram, Kept
<1>2. new \in ProgramRow /\ new.state = "deleted" /\ new.owner = prog[p].owner
  BY <1>1 DEF ProgramRow, States
<1>3. prog' = [prog EXCEPT ![p] = new]
  BY DEF DeleteProgram
<1> HIDE DEF new
<1>4. \A q \in Ids : prog'[q] = IF q = p THEN new ELSE prog[q]
  BY <1>3 DEF IInv, Typed
<1>5. Typed'
  BY <1>2, <1>3 DEF IInv, Typed, DeleteProgram
<1>6. AtWork' /\ ChildrenFirst'
  BY IdleIsFree DEF DeleteProgram, Event
<1>7. GoneLeavesNothing'
  BY <1>2, <1>4, GoneStaysEmpty DEF IInv, DeleteProgram
<1>8. OwnerExists'
  BY <1>1, <1>2, <1>4, OwnersStay DEF IInv, DeleteProgram
<1>9. QED
  BY <1>5, <1>6, <1>7, <1>8 DEF IInv

LEMMA RestoreProgramOK ==
  ASSUME IInv, NEW u \in Account, NEW p \in Ids, RestoreProgram(u, p)
  PROVE  IInv'
<1> DEFINE new == [prog[p] EXCEPT !.state = "kept", !.aged = FALSE]
<1>1. prog[p] \in ProgramRow /\ prog[p].state = "deleted"
  BY DEF IInv, Typed, RestoreProgram, Deleted
<1>2. new \in ProgramRow /\ new.state = "kept" /\ new.owner = prog[p].owner
  BY <1>1 DEF ProgramRow, States
<1>3. prog' = [prog EXCEPT ![p] = new]
  BY DEF RestoreProgram, IInv, Typed
<1> HIDE DEF new
<1>4. \A q \in Ids : prog'[q] = IF q = p THEN new ELSE prog[q]
  BY <1>3 DEF IInv, Typed
<1>5. Typed'
  <2>1. prog' \in [Ids -> ProgramRow]
    BY <1>2, <1>3 DEF IInv, Typed
  <2>2. QED
    BY <2>1 DEF IInv, Typed, RestoreProgram
<1>6. AtWork' /\ ChildrenFirst'
  BY IdleIsFree DEF RestoreProgram, Event
<1>7. GoneLeavesNothing'
  BY <1>2, <1>4, GoneStaysEmpty DEF IInv, RestoreProgram
<1>8. OwnerExists'
  BY <1>1, <1>2, <1>4, OwnersStay DEF IInv, RestoreProgram
<1>9. QED
  BY <1>5, <1>6, <1>7, <1>8 DEF IInv

LEMMA DeleteUserOK ==
  ASSUME IInv, NEW u \in Owners, DeleteUser(u)
  PROVE  IInv'
<1> DEFINE new(p) == [prog[p] EXCEPT !.state = "deleted", !.owner = NoOwner]
<1>1. ASSUME NEW p \in Ids
      PROVE  /\ prog[p] \in ProgramRow /\ new(p) \in ProgramRow
             /\ new(p).state = "deleted" /\ new(p).owner = NoOwner
  <2>1. prog[p] \in ProgramRow
    BY <1>1 DEF IInv, Typed
  <2>2. QED
    BY <2>1 DEF ProgramRow, States
<1>2. prog' = [p \in Ids |-> IF p \in OwnedBy(u) THEN new(p) ELSE prog[p]]
  BY DEF DeleteUser
<1> HIDE DEF new
<1>3. \A p \in Ids : prog'[p] = IF p \in OwnedBy(u) THEN new(p) ELSE prog[p]
  BY <1>2
<1>4. Typed'
  <2>1. prog' \in [Ids -> ProgramRow]
    BY <1>1, <1>2
  <2>2. QED
    BY <2>1 DEF IInv, Typed, DeleteUser
<1>5. AtWork' /\ ChildrenFirst'
  BY IdleIsFree DEF DeleteUser, Event
<1>6. GoneLeavesNothing'
  BY <1>1, <1>3, GoneStaysEmpty DEF IInv, DeleteUser
<1>7. OwnerExists'
  <2>1. SUFFICES ASSUME NEW p \in Ids, prog'[p].state \in {"kept", "deleted"}
                 PROVE  prog'[p].owner \in users' \cup {NoOwner}
    BY DEF OwnerExists, Kept, Deleted
  <2>2. CASE p \in OwnedBy(u)
    BY <1>1, <1>3, <2>1, <2>2
  <2>3. CASE p \notin OwnedBy(u)
    <3>1. prog'[p] = prog[p] /\ prog[p].state \in {"kept", "deleted"} /\ prog[p].owner # u
      BY <1>3, <2>1, <2>3 DEF OwnedBy, Kept, Deleted
    <3>2. prog[p].owner \in users \cup {NoOwner}
      BY <2>1, <3>1 DEF IInv, OwnerExists, Kept, Deleted
    <3>3. users' = users \ {u}
      BY DEF DeleteUser
    <3>4. QED
      BY <3>1, <3>2, <3>3
  <2>4. QED
    BY <2>2, <2>3
<1>8. QED
  BY <1>4, <1>5, <1>6, <1>7 DEF IInv

-----------------------------------------------------------------------------
(* The world *)

LEMMA TurnLanguageOK ==
  ASSUME IInv, NEW p \in Ids, NEW l \in Languages, TurnLanguage(p, l)
  PROVE  IInv'
<1>1. prog[p].state # "gone"
  BY DEF TurnLanguage, IInv, GoneLeavesNothing
<1>2. /\ languages' \in [Ids -> [Languages -> {"none", "off", "busy"}]]
      /\ \A q \in Ids : q # p => languages'[q] = languages[q]
  BY DEF IInv, Typed, TurnLanguage
<1>3. Typed'
  BY <1>2 DEF IInv, Typed, TurnLanguage
<1>4. AtWork' /\ ChildrenFirst'
  BY IdleIsFree DEF TurnLanguage, Event
<1>5. GoneLeavesNothing'
  BY <1>1, <1>2, GoneStaysEmpty DEF IInv, TurnLanguage
<1>6. OwnerExists'
  BY OwnersStay DEF IInv, TurnLanguage
<1>7. QED
  BY <1>3, <1>4, <1>5, <1>6 DEF IInv

LEMMA ConnectOK ==
  ASSUME IInv, NEW p \in Ids, NEW l \in Languages, NEW prev \in 0..Len(rows[p]), Connect(p, l, prev)
  PROVE  IInv'
<1>1. prog[p].state # "gone"
  BY DEF Connect, Kept
<1>2. rows[p] \in Seq(Connection) /\ Len(rows[p]) \in Nat
  BY DEF IInv, Typed
<1>3. [language |-> l, prev |-> prev, raw |-> TRUE] \in Connection
  BY <1>2 DEF Connection
<1> DEFINE new == Append(rows[p], [language |-> l, prev |-> prev, raw |-> TRUE])
<1>4. new \in Seq(Connection)
  BY <1>2, <1>3
<1>5. rows' = [rows EXCEPT ![p] = new]
  BY DEF Connect
<1> HIDE DEF new
<1>6. rows' \in [Ids -> Seq(Connection)] /\ \A q \in Ids : q # p => rows'[q] = rows[q]
  BY <1>4, <1>5 DEF IInv, Typed
<1>7. Typed'
  BY <1>6 DEF IInv, Typed, Connect
<1>8. AtWork' /\ ChildrenFirst'
  BY IdleIsFree DEF Connect
<1>9. GoneLeavesNothing'
  BY <1>1, <1>6, GoneStaysEmpty DEF IInv, Connect
<1>10. OwnerExists'
  BY OwnersStay DEF IInv, Connect
<1>11. QED
  BY <1>7, <1>8, <1>9, <1>10 DEF IInv

LEMMA AgedType ==
  ASSUME NEW row \in ProgramRow
  PROVE  Aged(row) \in ProgramRow /\ Aged(row).state = row.state /\ Aged(row).owner = row.owner
<1>1. row.end \in 1..3
  BY EndsAre DEF ProgramRow
<1>2. (IF row.end < Len(Ends) THEN row.end + 1 ELSE row.end) \in DOMAIN Ends
  BY <1>1, EndsAre
<1>3. QED
  BY <1>2 DEF Aged, ProgramRow

LEMMA GrowOlderOK ==
  ASSUME IInv, NEW older \in SUBSET Ids, GrowOlder(older)
  PROVE  IInv'
<1>1. \A p \in Ids : prog[p] \in ProgramRow
  BY DEF IInv, Typed
<1>2. prog' = [p \in Ids |-> IF p \in older THEN Aged(prog[p]) ELSE prog[p]]
  BY DEF GrowOlder
<1>3. \A p \in Ids : /\ prog'[p] \in ProgramRow
                     /\ prog'[p].state = prog[p].state /\ prog'[p].owner = prog[p].owner
  BY <1>1, <1>2, AgedType
<1>4. Typed'
  <2>1. prog' \in [Ids -> ProgramRow]
    BY <1>2, <1>3
  <2>2. QED
    BY <2>1 DEF IInv, Typed, GrowOlder
<1>5. AtWork' /\ ChildrenFirst'
  BY IdleIsFree DEF GrowOlder, Event
<1>6. GoneLeavesNothing'
  BY <1>3, GoneStaysEmpty DEF IInv, GrowOlder
<1>7. OwnerExists'
  BY <1>3, OwnersStay DEF IInv, GrowOlder
<1>8. QED
  BY <1>4, <1>5, <1>6, <1>7 DEF IInv

-----------------------------------------------------------------------------
(* Retention *)

LEMMA BeginOK ==
  ASSUME IInv, BeginPass \/ \E u \in Account, p \in Ids : RunNow(u, p)
  PROVE  IInv'
<1>1. UNCHANGED <<users, prog, languages, accounts, rows, waiting>>
  BY DEF BeginPass, RunNow, KeepRequests
<1>2. \/ pass' = Work("prune", ToPrune, NoProgram)
      \/ \E p \in Ids : pass' = Work("redact", {p}, NoProgram) /\ Kept(p)
  BY DEF BeginPass, RunNow, MayAccess
<1>3. PICK at \in {"prune", "redact"}, todo \in SUBSET Ids :
         /\ pass' = [at |-> at, todo |-> todo, prog |-> NoProgram]
         /\ at = "prune"  => \A p \in todo : Deleted(p)
         /\ at = "redact" => \A p \in todo : Kept(p)
  BY <1>2 DEF Work, ToPrune
<1>4. pass' \in [at : Steps, todo : SUBSET Ids, prog : Ids \cup {NoProgram}]
  BY <1>3 DEF Steps
<1>5. pass'.at = at /\ pass'.todo = todo
  BY <1>3
<1>6. Typed'
  BY <1>1, <1>4 DEF IInv, Typed
<1>7. AtWork' /\ ChildrenFirst'
  BY <1>1, <1>3, <1>5 DEF AtWork, ChildrenFirst, PruneSteps, Kept, Deleted
<1>8. GoneLeavesNothing' /\ OwnerExists'
  BY <1>1 DEF IInv, GoneLeavesNothing, OwnerExists, Kept, Deleted
<1>9. QED
  BY <1>6, <1>7, <1>8 DEF IInv

(* The next program of the list, whether or not this one could be pruned.   *)
LEMMA NextProgramOK ==
  ASSUME IInv, pass.at \in PruneSteps, pass' = NextProgram,
         \A p \in Ids : p # pass.prog => prog'[p] = prog[p]
  PROVE  /\ pass' \in [at : Steps, todo : SUBSET Ids, prog : Ids \cup {NoProgram}]
         /\ AtWork' /\ ChildrenFirst'
<1>1. pass' = [at |-> "prune", todo |-> pass.todo \ {pass.prog}, prog |-> NoProgram]
  BY DEF NextProgram, Work
<1>2. pass.todo \subseteq Ids
  BY DEF IInv, Typed
<1>3. pass' \in [at : Steps, todo : SUBSET Ids, prog : Ids \cup {NoProgram}]
  BY <1>1, <1>2 DEF Steps
<1>4. pass'.at = "prune" /\ pass'.todo = pass.todo \ {pass.prog}
  BY <1>1
<1>5. \A p \in pass'.todo : prog'[p].state = "deleted"
  BY <1>2, <1>4 DEF IInv, AtWork, Deleted
<1>6. QED
  BY <1>3, <1>4, <1>5 DEF AtWork, ChildrenFirst, PruneSteps, Deleted

(* The next statement for the same program.                                 *)
LEMMA NextStatementOK ==
  ASSUME IInv, pass.at \in PruneSteps, NEW at \in PruneSteps, At(at), UNCHANGED prog
  PROVE  /\ pass' \in [at : Steps, todo : SUBSET Ids, prog : Ids \cup {NoProgram}]
         /\ AtWork' /\ pass'.at = at /\ pass'.prog = pass.prog /\ pass.prog \in Ids
<1>1. /\ pass'.at = at /\ pass'.prog = pass.prog /\ pass'.todo = pass.todo
      /\ pass' \in [at : Steps, todo : SUBSET Ids, prog : Ids \cup {NoProgram}]
  BY DEF IInv, Typed, At, Steps, PruneSteps
<1>2. AtWork'
  BY <1>1 DEF IInv, AtWork, PruneSteps, Kept, Deleted
<1>3. QED
  BY <1>1, <1>2 DEF IInv, AtWork

LEMMA PickPruneOK ==
  ASSUME IInv, PickPrune
  PROVE  IInv'
<1>1. UNCHANGED <<users, prog, languages, accounts, rows, waiting>> /\ pass.at = "prune"
  BY DEF PickPrune, KeepRequests
<1>2. pass.todo \subseteq Ids /\ \A p \in pass.todo : Deleted(p)
  BY <1>1 DEF IInv, Typed, AtWork
<1>3. \/ pass' = [at |-> "redact", todo |-> ToRedact, prog |-> NoProgram]
      \/ \E p \in pass.todo : pass' = [at |-> "accounts", todo |-> pass.todo, prog |-> p]
  BY DEF PickPrune, Work
<1>4. /\ pass' \in [at : Steps, todo : SUBSET Ids, prog : Ids \cup {NoProgram}]
      /\ AtWork' /\ ChildrenFirst'
  <2>1. CASE pass' = [at |-> "redact", todo |-> ToRedact, prog |-> NoProgram]
    <3>1. ToRedact \subseteq Ids /\ \A p \in ToRedact : Kept(p)
      BY DEF ToRedact
    <3>2. pass'.at = "redact" /\ pass'.todo = ToRedact
      BY <2>1
    <3>3. pass' \in [at : Steps, todo : SUBSET Ids, prog : Ids \cup {NoProgram}]
      BY <2>1, <3>1 DEF Steps
    <3>4. QED
      BY <1>1, <3>1, <3>2, <3>3 DEF AtWork, ChildrenFirst, PruneSteps, Kept
  <2>2. CASE \E p \in pass.todo : pass' = [at |-> "accounts", todo |-> pass.todo, prog |-> p]
    <3>1. PICK p \in pass.todo : pass' = [at |-> "accounts", todo |-> pass.todo, prog |-> p]
      BY <2>2
    <3>2. pass'.at = "accounts" /\ pass'.todo = pass.todo /\ pass'.prog = p
      BY <3>1
    <3>3. pass' \in [at : Steps, todo : SUBSET Ids, prog : Ids \cup {NoProgram}]
      BY <1>2, <3>1 DEF Steps
    <3>4. QED
      BY <1>1, <1>2, <3>2, <3>3 DEF AtWork, ChildrenFirst, PruneSteps, Deleted
  <2>3. QED
    BY <1>3, <2>1, <2>2
<1>5. Typed'
  BY <1>1, <1>4 DEF IInv, Typed
<1>6. GoneLeavesNothing' /\ OwnerExists'
  BY <1>1 DEF IInv, GoneLeavesNothing, OwnerExists, Kept, Deleted
<1>7. QED
  BY <1>4, <1>5, <1>6 DEF IInv

LEMMA PruneAccountsOK ==
  ASSUME IInv, PruneAccounts
  PROVE  IInv'
<1>1. UNCHANGED <<users, prog, languages, rows, waiting>> /\ pass.at = "accounts" /\ At("rows")
  BY DEF PruneAccounts, KeepRequests
<1>2. accounts' = accounts \ {pass.prog}
  BY DEF PruneAccounts
<1>3. /\ pass' \in [at : Steps, todo : SUBSET Ids, prog : Ids \cup {NoProgram}]
      /\ AtWork' /\ pass'.at = "rows" /\ pass'.prog = pass.prog
  BY <1>1, NextStatementOK DEF PruneSteps
<1>4. Typed'
  BY <1>1, <1>2, <1>3 DEF IInv, Typed
<1>5. ChildrenFirst'
  BY <1>2, <1>3 DEF ChildrenFirst
<1>6. GoneLeavesNothing' /\ OwnerExists'
  BY <1>1, <1>2 DEF IInv, GoneLeavesNothing, OwnerExists, Kept, Deleted
<1>7. QED
  BY <1>3, <1>4, <1>5, <1>6 DEF IInv

LEMMA PruneRowsOK ==
  ASSUME IInv, PruneRows
  PROVE  IInv'
<1>1. UNCHANGED <<users, prog, languages, accounts, waiting>> /\ pass.at = "rows"
  BY DEF PruneRows, KeepRequests
<1>2. pass.prog \in Ids /\ Deleted(pass.prog) /\ pass.prog \notin accounts
  BY <1>1 DEF IInv, AtWork, ChildrenFirst, PruneSteps
<1> DEFINE s == rows[pass.prog]
           PassType == pass' \in [at : Steps, todo : SUBSET Ids, prog : Ids \cup {NoProgram}]
<1>3. s \in Seq(Connection)
  BY <1>2 DEF IInv, Typed
<1>4. OwnerExists'
  BY <1>1, OwnersStay DEF IInv
<1>5. CASE s = <<>> /\ At("languages") /\ UNCHANGED rows
  <2>1. PassType /\ AtWork' /\ pass'.at = "languages" /\ pass'.prog = pass.prog
    BY <1>1, <1>5, NextStatementOK DEF PruneSteps
  <2>2. Typed'
    BY <1>1, <1>5, <2>1 DEF IInv, Typed
  <2>3. ChildrenFirst'
    BY <1>1, <1>2, <1>5, <2>1 DEF ChildrenFirst
  <2>4. GoneLeavesNothing'
    BY <1>1, <1>5 DEF IInv, GoneLeavesNothing
  <2>5. QED
    BY <1>4, <2>1, <2>2, <2>3, <2>4 DEF IInv
<1>6. CASE /\ s # <<>> /\ UNCHANGED pass
           /\ rows' = [rows EXCEPT ![pass.prog] = IF Len(s) <= ChunkSize THEN <<>> ELSE AfterChunk(s)]
  <2> DEFINE left == IF Len(s) <= ChunkSize THEN <<>> ELSE AfterChunk(s)
  <2>1. left \in Seq(Connection)
    <3>1. ChunkSize \in Nat /\ Len(s) \in Nat
      BY <1>3, ProgramsAssumption
    <3>2. CASE Len(s) <= ChunkSize
      BY <3>2
    <3>3. CASE Len(s) > ChunkSize
      BY <1>3, <3>1, <3>3, AfterChunkType
    <3>4. QED
      BY <3>1, <3>2, <3>3
  <2> HIDE DEF left
  <2>2. rows' = [rows EXCEPT ![pass.prog] = left]
    BY <1>6 DEF left
  <2>3. rows' \in [Ids -> Seq(Connection)] /\ \A p \in Ids : p # pass.prog => rows'[p] = rows[p]
    BY <2>1, <2>2 DEF IInv, Typed
  <2>4. Typed'
    BY <1>1, <1>6, <2>3 DEF IInv, Typed
  <2>5. AtWork' /\ ChildrenFirst'
    BY <1>1, <1>6 DEF IInv, AtWork, ChildrenFirst, Kept, Deleted
  <2>6. GoneLeavesNothing'
    BY <1>1, <1>2, <2>3, GoneStaysEmpty DEF IInv, Deleted
  <2>7. QED
    BY <1>4, <2>4, <2>5, <2>6 DEF IInv
<1>7. CASE pass' = Failed /\ UNCHANGED rows
  <2>1. PassType /\ AtWork' /\ ChildrenFirst'
    BY <1>1, <1>7, NextProgramOK DEF PruneSteps, Failed
  <2>2. Typed'
    BY <1>1, <1>7, <2>1 DEF IInv, Typed
  <2>3. GoneLeavesNothing'
    BY <1>1, <1>7 DEF IInv, GoneLeavesNothing
  <2>4. QED
    BY <1>4, <2>1, <2>2, <2>3 DEF IInv
<1>8. QED
  BY <1>5, <1>6, <1>7 DEF PruneRows

LEMMA PruneLanguagesOK ==
  ASSUME IInv, PruneLanguages
  PROVE  IInv'
<1>1. UNCHANGED <<users, prog, accounts, rows, waiting>> /\ pass.at = "languages" /\ At("row")
  BY DEF PruneLanguages, KeepRequests
<1>2. /\ pass' \in [at : Steps, todo : SUBSET Ids, prog : Ids \cup {NoProgram}]
      /\ AtWork' /\ pass'.at = "row" /\ pass'.prog = pass.prog /\ pass.prog \in Ids
  BY <1>1, NextStatementOK DEF PruneSteps
<1>3. languages' = [languages EXCEPT ![pass.prog] = [l \in Languages |-> "none"]]
  BY DEF PruneLanguages
<1>4. /\ languages' \in [Ids -> [Languages -> {"none", "off", "busy"}]]
      /\ \A l \in Languages : languages'[pass.prog][l] = "none"
      /\ \A p \in Ids : p # pass.prog => languages'[p] = languages[p]
  BY <1>2, <1>3 DEF IInv, Typed
<1>5. Typed'
  BY <1>1, <1>2, <1>4 DEF IInv, Typed
<1>6. ChildrenFirst'
  BY <1>1, <1>2, <1>4 DEF IInv, ChildrenFirst
<1>7. GoneLeavesNothing'
  BY <1>1, <1>4, GoneStaysEmpty DEF IInv
<1>8. OwnerExists'
  BY <1>1, OwnersStay DEF IInv
<1>9. QED
  BY <1>2, <1>5, <1>6, <1>7, <1>8 DEF IInv

(* The row goes when everything that belongs to it has gone.                *)
LEMMA PruneRowOK ==
  ASSUME IInv, PruneRow
  PROVE  IInv'
<1>1. UNCHANGED <<users, languages, accounts, rows, waiting>> /\ pass.at = "row"
  BY DEF PruneRow, KeepRequests
<1>2. pass.prog \in Ids
  BY <1>1 DEF IInv, AtWork, PruneSteps
<1>3. prog' = [prog EXCEPT ![pass.prog] = GoneRow] /\ pass' = NextProgram
  BY DEF PruneRow
<1>4. prog' \in [Ids -> ProgramRow]
  BY <1>3, RowTypes DEF IInv, Typed
<1>5. \A p \in Ids : prog'[p] = IF p = pass.prog THEN GoneRow ELSE prog[p]
  BY <1>2, <1>3 DEF IInv, Typed
<1>6. GoneRow.state = "gone"
  BY DEF GoneRow, NoRow
<1>7. /\ pass' \in [at : Steps, todo : SUBSET Ids, prog : Ids \cup {NoProgram}]
      /\ AtWork' /\ ChildrenFirst'
  BY <1>1, <1>3, <1>5, NextProgramOK DEF PruneSteps
<1>8. Typed'
  BY <1>1, <1>4, <1>7 DEF IInv, Typed
<1>9. GoneLeavesNothing'
  <2>1. SUFFICES ASSUME NEW p \in Ids, prog'[p].state = "gone"
                 PROVE  p \notin accounts /\ rows[p] = <<>> /\ \A l \in Languages : languages[p][l] = "none"
    BY <1>1 DEF GoneLeavesNothing
  <2>2. CASE p = pass.prog
    BY <1>1, <2>2 DEF IInv, ChildrenFirst
  <2>3. CASE p # pass.prog
    BY <1>5, <2>1, <2>3 DEF IInv, GoneLeavesNothing
  <2>4. QED
    BY <2>2, <2>3
<1>10. OwnerExists'
  BY <1>1, <1>5, <1>6, OwnersStay DEF IInv
<1>11. QED
  BY <1>7, <1>8, <1>9, <1>10 DEF IInv

(* Redaction and its mark change no program's state or owner, and add no    *)
(* row.                                                                     *)
LEMMA RedactStepOK ==
  ASSUME IInv, NEW p \in Ids, NEW first \in BOOLEAN, RedactStep(p, first)
  PROVE  /\ prog' \in [Ids -> ProgramRow] /\ rows' \in [Ids -> Seq(Connection)]
         /\ \A q \in Ids : /\ prog'[q].state = prog[q].state /\ prog'[q].owner = prog[q].owner
                           /\ rows[q] = <<>> => rows'[q] = <<>>
<1>1. CASE rows' = Redacted(p) /\ UNCHANGED prog
  BY <1>1, RedactedType DEF IInv, Typed
<1>2. CASE prog' = [prog EXCEPT ![p].processed = TRUE] /\ UNCHANGED rows
  <2> DEFINE new == [prog[p] EXCEPT !.processed = TRUE]
  <2>1. prog[p] \in ProgramRow
    BY DEF IInv, Typed
  <2>2. new \in ProgramRow /\ new.state = prog[p].state /\ new.owner = prog[p].owner
    BY <2>1 DEF ProgramRow
  <2>3. prog' = [prog EXCEPT ![p] = new]
    BY <1>2
  <2> HIDE DEF new
  <2>4. QED
    BY <1>2, <2>2, <2>3 DEF IInv, Typed
<1>3. QED
  BY <1>1, <1>2 DEF RedactStep

LEMMA RedactKeeps ==
  ASSUME IInv, NEW p \in Ids, NEW first \in BOOLEAN, RedactStep(p, first),
         UNCHANGED <<users, languages, accounts, waiting>>,
         pass' \in [at : Steps, todo : SUBSET Ids, prog : Ids \cup {NoProgram}]
  PROVE  Typed' /\ GoneLeavesNothing' /\ OwnerExists'
<1>1. Typed'
  BY RedactStepOK DEF IInv, Typed
<1>2. GoneLeavesNothing'
  <2>1. \A q \in Ids : prog'[q].state = prog[q].state /\ (rows[q] = <<>> => rows'[q] = <<>>)
    BY RedactStepOK
  <2>2. QED
    BY <2>1 DEF IInv, GoneLeavesNothing
<1>3. OwnerExists'
  BY RedactStepOK, OwnersStay DEF IInv
<1>4. QED
  BY <1>1, <1>2, <1>3

LEMMA PickRedactOK ==
  ASSUME IInv, PickRedact
  PROVE  IInv'
<1>1. UNCHANGED <<users, languages, accounts, waiting>> /\ pass.at = "redact"
  BY DEF PickRedact, KeepRequests
<1>2. pass.todo \subseteq Ids /\ \A p \in pass.todo : Kept(p)
  BY <1>1 DEF IInv, Typed, AtWork
<1>3. CASE pass' = Idle /\ UNCHANGED <<prog, rows>>
  <2>1. pass'.at = "idle" /\ pass' \in [at : Steps, todo : SUBSET Ids, prog : Ids \cup {NoProgram}]
    BY <1>3, RowTypes DEF Idle
  <2>2. Typed'
    BY <1>1, <1>3, <2>1 DEF IInv, Typed
  <2>3. AtWork' /\ ChildrenFirst'
    BY <2>1 DEF AtWork, ChildrenFirst, PruneSteps
  <2>4. GoneLeavesNothing' /\ OwnerExists'
    BY <1>1, <1>3 DEF IInv, GoneLeavesNothing, OwnerExists, Kept, Deleted
  <2>5. QED
    BY <2>2, <2>3, <2>4 DEF IInv
<1>4. CASE \E p \in pass.todo : pass' = Work("mark", pass.todo, p) /\ RedactStep(p, TRUE)
  <2>1. PICK p \in pass.todo : pass' = [at |-> "mark", todo |-> pass.todo, prog |-> p] /\ RedactStep(p, TRUE)
    BY <1>4 DEF Work
  <2>2. p \in Ids /\ pass'.at = "mark" /\ pass'.todo = pass.todo /\ pass'.prog = p
    BY <1>2, <2>1
  <2>3. pass' \in [at : Steps, todo : SUBSET Ids, prog : Ids \cup {NoProgram}]
    BY <1>2, <2>1 DEF Steps
  <2>4. Typed' /\ GoneLeavesNothing' /\ OwnerExists'
    BY <1>1, <2>1, <2>2, <2>3, RedactKeeps
  <2>5. \A q \in Ids : prog'[q].state = prog[q].state
    BY <2>1, <2>2, RedactStepOK
  <2>6. AtWork' /\ ChildrenFirst'
    BY <1>2, <2>2, <2>5 DEF AtWork, ChildrenFirst, PruneSteps, Kept
  <2>7. QED
    BY <2>4, <2>6 DEF IInv
<1>5. QED
  BY <1>3, <1>4 DEF PickRedact

LEMMA MarkOK ==
  ASSUME IInv, Mark
  PROVE  IInv'
<1>1. UNCHANGED <<users, languages, accounts, waiting>> /\ pass.at = "mark" /\ RedactStep(pass.prog, FALSE)
  BY DEF Mark, KeepRequests
<1>2. pass.prog \in Ids /\ pass.todo \subseteq Ids /\ \A p \in pass.todo : Kept(p)
  BY <1>1 DEF IInv, Typed, AtWork
<1>3. /\ pass'.at = "redact" /\ pass'.todo = pass.todo \ {pass.prog}
      /\ pass' \in [at : Steps, todo : SUBSET Ids, prog : Ids \cup {NoProgram}]
  BY DEF IInv, Typed, Mark, Steps
<1>4. Typed' /\ GoneLeavesNothing' /\ OwnerExists'
  BY <1>1, <1>2, <1>3, RedactKeeps
<1>5. \A q \in Ids : prog'[q].state = prog[q].state
  BY <1>1, <1>2, RedactStepOK
<1>6. AtWork' /\ ChildrenFirst'
  BY <1>2, <1>3, <1>5 DEF AtWork, ChildrenFirst, PruneSteps, Kept
<1>7. QED
  BY <1>4, <1>6 DEF IInv

LEMMA CrashOK ==
  ASSUME IInv, Crash
  PROVE  IInv'
<1>1. UNCHANGED <<users, prog, languages, accounts, rows>> /\ pass' = Idle /\ waiting' = {}
  BY DEF Crash
<1>2. pass'.at = "idle" /\ pass' \in [at : Steps, todo : SUBSET Ids, prog : Ids \cup {NoProgram}]
  BY <1>1, RowTypes DEF Idle
<1>3. Typed'
  BY <1>1, <1>2 DEF IInv, Typed
<1>4. AtWork' /\ ChildrenFirst'
  BY <1>2 DEF AtWork, ChildrenFirst, PruneSteps
<1>5. GoneLeavesNothing' /\ OwnerExists'
  BY <1>1 DEF IInv, GoneLeavesNothing, OwnerExists, Kept, Deleted
<1>6. QED
  BY <1>3, <1>4, <1>5 DEF IInv

-----------------------------------------------------------------------------
(* The theorems *)

LEMMA NextOK == IInv /\ [Next]_vars => IInv'
<1> SUFFICES ASSUME IInv, [Next]_vars PROVE IInv'
  OBVIOUS
<1> USE DEF Account
<1>1. CASE \E u \in Owners \cup {Admin}, p \in Ids :
             \/ \E op \in {"create", "edit", "add"} : Ask(u, op, p)
             \/ \E l \in Languages : DeleteLanguage(u, p, l)
             \/ DeleteProgram(u, p) \/ RestoreProgram(u, p) \/ RunNow(u, p)
  BY <1>1, AskOK, DeleteLanguageOK, DeleteProgramOK, RestoreProgramOK, BeginOK
<1>2. CASE \E r \in waiting :
             Create(r) \/ Edit(r) \/ Refuse(r) \/ \E l \in Languages : AddLanguage(r, l)
  BY <1>2, CreateOK, EditOK, RefuseOK, AddLanguageOK
<1>3. CASE \E u \in Owners : DeleteUser(u)
  BY <1>3, DeleteUserOK
<1>4. CASE World
  <2>1. CASE \E older \in SUBSET Ids \ {{}} : GrowOlder(older)
    BY <2>1, GrowOlderOK
  <2>2. CASE \E p \in Ids, l \in Languages :
               TurnLanguage(p, l) \/ \E prev \in 0..Len(rows[p]) : Connect(p, l, prev)
    BY <2>2, TurnLanguageOK, ConnectOK
  <2>3. QED
    BY <1>4, <2>1, <2>2 DEF World
<1>5. CASE BeginPass
  BY <1>5, BeginOK
<1>6. CASE PassStep
  BY <1>6, PickPruneOK, PruneAccountsOK, PruneRowsOK, PruneLanguagesOK, PruneRowOK,
     PickRedactOK, MarkOK DEF PassStep
<1>7. CASE Crash
  BY <1>7, CrashOK
<1>8. CASE UNCHANGED vars
  BY <1>8 DEF vars, IInv, Typed, AtWork, ChildrenFirst, GoneLeavesNothing, OwnerExists, Kept, Deleted
<1>9. QED
  BY <1>1, <1>2, <1>3, <1>4, <1>5, <1>6, <1>7, <1>8 DEF Next, Requests

(* The state of programs, of requests that wait and of the retention pass.  *)
THEOREM ProgramsInvariant == Spec => []IInv
<1>1. QED
  BY InitOK, NextOK, PTL DEF Spec

(* Every variable has its type, and a pass prunes a program that is deleted *)
(* and marks one that is kept, for any number of programs.                  *)
THEOREM TypeCorrect == Spec => []TypeOK
<1>1. IInv => TypeOK
  BY DEF IInv, Typed, AtWork, TypeOK, Account, ProgramRow, Connection, Request, PruneSteps
<1>2. QED
  BY <1>1, ProgramsInvariant, PTL

(* A program that pruneProgram removed has no account, connection or        *)
(* language left, and every program has an owner who exists or none,        *)
(* whatever requests, crashes and failed statements came between.           *)
THEOREM NothingOutlives == Spec => []NothingIsOrphaned
<1>1. IInv => NothingIsOrphaned
  BY DEF IInv, NothingIsOrphaned
<1>2. QED
  BY <1>1, ProgramsInvariant, PTL

-----------------------------------------------------------------------------
(* The gate of a stream *)

Answers == {"none", "on", "off", "error", "made", "approved", "revoked", "unknown", "pending", "superseded",
            "joined", "denied"}

\* The requests of a page: that of a gate that starts, the redemption of a claim, and that of
\* the button.
Starting(c) ==
    \/ c.op = "verify"
    \/ c.op = "program" /\ c.why \in {"load", "gate"}
    \/ c.op = "claim" /\ c.why # "redeem"
Redeems(c) == c.op = "redeem" \/ (c.op = "claim" /\ c.why = "redeem")
Checks(c)  == c.op = "program" /\ c.why = "check"

ClaimRow == [status : {"pending", "approved", "revoked", "superseded"}, token : Nat]

PageRow ==
    [gen : 0 .. MaxGen,
     status : {"closed", "loading", "failed", "checking", "retrying", "waiting", "error",
               "entering", "approved", "disabled"},
     claim : Nat, checking : BOOLEAN, held : Nat, redeemed : BOOLEAN, redeeming : BOOLEAN,
     transitioned : BOOLEAN, meta : BOOLEAN,
     playback : [status : {"idle", "connecting", "connected", "disconnected"},
                 stream : Streams \cup {"none"}],
     poll : Nat \X Nat]

GateCall ==
    [tab : Tabs \cup {NoTab}, op : {"program", "claim", "verify", "redeem", "join"},
     why : {"load", "check", "gate", "init", "redeem", "join"}, claim : Nat, token : Nat,
     show : BOOLEAN, stream : Streams \cup {"none"},
     phase : {"sent", "mint", "again", "verify", "done"}, ans : Answers]

CallOK(c) ==
    /\ c \in GateCall /\ c.claim <= Len(claims) /\ c.token <= minted
    /\ c.op = "program" => /\ c.why \in {"load", "check", "gate"}
                           /\ c.phase = "done" => c.ans \in {"on", "off", "error"}
    /\ c.op = "claim"  => /\ c.why \in {"init", "gate", "redeem"}
                          /\ c.phase = "done" /\ c.ans # "error" => c.claim # 0
    /\ c.op = "verify" => c.why = "init" /\ c.token # 0
    /\ c.op = "redeem" =>
         /\ c.why = "redeem" /\ c.claim # 0
         /\ c.phase = "mint" => claims[c.claim].status \in {"approved", "revoked"}
         /\ c.phase = "again" => claims[c.claim].status = "revoked"
         /\ c.phase = "done" /\ c.ans = "approved" => c.token # 0
    /\ Checks(c) => c.claim # 0

RowsOK ==
    /\ accessOn \in BOOLEAN
    /\ claims \in Seq(ClaimRow) /\ Len(claims) <= MaxClaims
    /\ \A i \in DOMAIN claims : claims[i].token <= minted
    /\ minted \in 0 .. MaxTokens /\ storedToken \in 0 .. minted /\ storedClaim \in 0 .. Len(claims)
    /\ gateEvents \in 0 .. MaxGateEvents
    /\ page \in [Tabs -> PageRow]

Busy == {"loading", "checking", "retrying"}
In   == {"entering", "approved"}

\* A page p with the requests F of its own agree.
Rules(p, F) ==
    /\ \A c \in F : Starting(c) => /\ F = {c} /\ p.status \in Busy /\ ~p.redeeming /\ ~p.redeemed
                                   /\ c.op = "program" /\ c.why = "gate" => p.held = 0
    /\ p.status \in Busy => \E c \in F : Starting(c)
    /\ p.redeeming <=> \E c \in F : Redeems(c)
    /\ \A c, d \in F : Redeems(c) /\ Redeems(d) => c = d
    /\ p.redeemed => ~p.redeeming /\ p.status \in In \cup {"error", "disabled"}
    /\ p.status \in In => ~p.redeeming /\ ((\E c \in F : Checks(c)) => p.redeemed) /\ p.held # 0
    /\ p.status = "waiting" =>
         /\ p.claim # 0
         /\ p.checking => \E c \in F : Checks(c) \/ Redeems(c)
    /\ p.status = "disabled" => p.held = 0

TabOK(p, F) == Rules(p, F) /\ (p.status = "waiting" => p.poll = <<p.gen, p.claim>>)

PagesOK ==
    \A t \in Tabs : /\ page[t].held <= minted /\ page[t].claim <= Len(claims)
                    /\ TabOK(page[t], Gate!InFlight(t))

GateInv == RowsOK /\ (\A c \in calls : CallOK(c)) /\ PagesOK

LEMMA GateBegins == Gate!Init => GateInv
<1> SUFFICES ASSUME Gate!Init
             PROVE  GateInv
  OBVIOUS
<1>1. /\ accessOn \in BOOLEAN /\ claims = <<>> /\ minted = 0 /\ storedToken = 0 /\ storedClaim = 0
      /\ page = [t \in Tabs |-> Gate!ClosedPage] /\ calls = {} /\ gateEvents = 0
  BY DEF Gate!Init
<1>2. Gate!ClosedPage \in PageRow
  BY HostingAssumption DEF Gate!ClosedPage, Gate!NoPlayback, PageRow
<1>3. RowsOK
  BY <1>1, <1>2, HostingAssumption DEF RowsOK
<1>4. PagesOK
  BY <1>1 DEF PagesOK, TabOK, Rules, Gate!InFlight, Gate!ClosedPage, Busy, In
<1>5. QED
  BY <1>1, <1>3, <1>4 DEF GateInv

(* What a page looks like once its effect has run: only its polls are others. *)
LEMMA PollsSet ==
  ASSUME NEW old \in PageRow, NEW new \in PageRow, NEW q, q = Gate!WithPolls(old, new)
  PROVE  /\ q \in PageRow
         /\ q.gen = new.gen /\ q.status = new.status /\ q.claim = new.claim
         /\ q.checking = new.checking /\ q.held = new.held /\ q.redeemed = new.redeemed
         /\ q.redeeming = new.redeeming
         /\ q.status = "waiting" =>
              q.poll = IF old.status = "waiting" /\ old.claim = new.claim THEN old.poll
                       ELSE <<new.gen, new.claim>>
<1>1. /\ new.gen \in Nat /\ new.claim \in Nat /\ old.poll \in Nat \X Nat /\ <<0, 0>> \in Nat \X Nat
      /\ <<new.gen, new.claim>> \in Nat \X Nat
  BY HostingAssumption DEF PageRow
<1> DEFINE v == IF new.status # "waiting" THEN <<0, 0>>
                ELSE IF old.status = "waiting" /\ old.claim = new.claim THEN old.poll
                ELSE <<new.gen, new.claim>>
<1>2. v \in Nat \X Nat
  BY <1>1
<1>3. q = [new EXCEPT !.poll = v]
  BY DEF Gate!WithPolls
<1>4. new.status = "waiting" =>
        v = IF old.status = "waiting" /\ old.claim = new.claim THEN old.poll ELSE <<new.gen, new.claim>>
  OBVIOUS
<1> HIDE DEF v
<1>5. q \in PageRow /\ q.status = new.status
  BY <1>2, <1>3 DEF PageRow
<1>6. /\ q.gen = new.gen /\ q.claim = new.claim
      /\ q.checking = new.checking /\ q.held = new.held /\ q.redeemed = new.redeemed
      /\ q.redeeming = new.redeeming /\ q.poll = v
  BY <1>3 DEF PageRow
<1>7. QED
  BY <1>4, <1>5, <1>6

(* A request takes the place of another of its kind, in no page's eyes. *)
LEMMA SameKind ==
  ASSUME NEW p, NEW F, Rules(p, F), NEW c \in F, NEW d, d.op = c.op, d.why = c.why
  PROVE  Rules(p, (F \ {c}) \cup {d})
<1> DEFINE G == (F \ {c}) \cup {d}
<1>1. /\ Starting(d) <=> Starting(c)
      /\ Redeems(d) <=> Redeems(c)
      /\ Checks(d) <=> Checks(c)
  BY DEF Starting, Redeems, Checks
<1>2. \A x \in G : Starting(x) => /\ G = {x} /\ p.status \in Busy /\ ~p.redeeming /\ ~p.redeemed
                                  /\ x.op = "program" /\ x.why = "gate" => p.held = 0
  BY <1>1 DEF Rules
<1>3. /\ (\E x \in F : Starting(x)) => \E x \in G : Starting(x)
      /\ (\E x \in F : Redeems(x)) <=> \E x \in G : Redeems(x)
      /\ (\E x \in F : Checks(x)) <=> \E x \in G : Checks(x)
  BY <1>1
<1>4. \A x, y \in G : Redeems(x) /\ Redeems(y) => x = y
  BY <1>1 DEF Rules
<1>5. QED
  BY <1>2, <1>3, <1>4 DEF Rules

(* Only the page of t and its requests have changed. *)
LEMMA TabStep ==
  ASSUME GateInv, RowsOK', \A c \in calls' : CallOK(c)', NEW t \in Tabs,
         Len(claims) <= Len(claims'), minted <= minted',
         \A u \in Tabs \ {t} : page'[u] = page[u] /\ Gate!InFlight(u)' = Gate!InFlight(u),
         page'[t].held <= minted', page'[t].claim <= Len(claims'),
         TabOK(page'[t], Gate!InFlight(t)')
  PROVE  GateInv'
<1> SUFFICES ASSUME NEW u \in Tabs
             PROVE  /\ page'[u].held <= minted' /\ page'[u].claim <= Len(claims')
                    /\ TabOK(page'[u], Gate!InFlight(u)')
  BY DEF GateInv, PagesOK
<1>1. page[u] \in PageRow
  BY DEF GateInv, RowsOK
<1>2. page[u].held \in Nat /\ page[u].claim \in Nat
  BY <1>1 DEF PageRow
<1>3. minted \in Nat /\ minted' \in Nat /\ Len(claims) \in Nat /\ Len(claims') \in Nat
  BY DEF GateInv, RowsOK
<1>4. page[u].held <= minted /\ page[u].claim <= Len(claims) /\ TabOK(page[u], Gate!InFlight(u))
  BY DEF GateInv, PagesOK
<1>5. QED
  BY <1>2, <1>3, <1>4

(* What a page knows is true still when claims and tokens have been added. *)
LEMMA CallsStay ==
  ASSUME GateInv, RowsOK',
         Len(claims) <= Len(claims'), minted <= minted',
         \A i \in DOMAIN claims : /\ claims[i].status \in {"approved", "revoked"} =>
                                       claims'[i].status \in {"approved", "revoked"}
                                  /\ claims[i].status = "revoked" => claims'[i].status = "revoked"
  PROVE  \A c : CallOK(c) => CallOK(c)'
<1> SUFFICES ASSUME NEW c, CallOK(c)
             PROVE  CallOK(c)'
  OBVIOUS
<1>1. /\ c.claim \in Nat /\ c.token \in Nat /\ minted \in Nat /\ minted' \in Nat
      /\ Len(claims) \in Nat /\ Len(claims') \in Nat /\ DOMAIN claims = 1 .. Len(claims)
  BY DEF CallOK, GateCall, GateInv, RowsOK
<1>2. c.claim <= Len(claims') /\ c.token <= minted'
  BY <1>1 DEF CallOK
<1>3. c.op = "redeem" => c.claim \in DOMAIN claims
  BY <1>1 DEF CallOK
<1>4. QED
  BY <1>2, <1>3 DEF CallOK

-----------------------------------------------------------------------------
(* The server.  A request that is served, or lost, is of its kind still. *)

LEMMA ServeKeeps ==
  ASSUME GateInv, RowsOK', page' = page, NEW c \in calls, NEW d, NEW rest,
         d.tab = c.tab, d.op = c.op, d.why = c.why, CallOK(d)',
         \A x \in rest : x.tab = NoTab /\ CallOK(x)',
         \A x \in calls : CallOK(x)',
         \/ calls' = (calls \ {c}) \cup {d} \cup rest
         \/ d.tab = NoTab /\ calls' = (calls \ {c}) \cup rest,
         Len(claims) <= Len(claims'), minted <= minted'
  PROVE  GateInv'
<1>1. \A x \in calls' : CallOK(x)'
  OBVIOUS
<1> SUFFICES ASSUME NEW u \in Tabs
             PROVE  /\ page'[u].held <= minted' /\ page'[u].claim <= Len(claims')
                    /\ TabOK(page'[u], Gate!InFlight(u)')
  BY <1>1 DEF GateInv, PagesOK
<1>2. page[u] \in PageRow
  BY DEF GateInv, RowsOK
<1>3. page[u].held \in Nat /\ page[u].claim \in Nat
  BY <1>2 DEF PageRow
<1>4. minted \in Nat /\ minted' \in Nat /\ Len(claims) \in Nat /\ Len(claims') \in Nat
  BY DEF GateInv, RowsOK
<1>5. page[u].held <= minted /\ page[u].claim <= Len(claims) /\ TabOK(page[u], Gate!InFlight(u))
  BY DEF GateInv, PagesOK
<1>6. u # NoTab
  BY HostingAssumption
<1>7. TabOK(page[u], Gate!InFlight(u)')
  <2>1. CASE c.tab = u /\ c.op # "join"
    <3>1. c \in Gate!InFlight(u) /\ Gate!InFlight(u)' = (Gate!InFlight(u) \ {c}) \cup {d}
      BY <1>6, <2>1 DEF Gate!InFlight
    <3>2. QED
      BY <1>5, <3>1, SameKind DEF TabOK
  <2>2. CASE ~(c.tab = u /\ c.op # "join")
    <3>1. Gate!InFlight(u)' = Gate!InFlight(u)
      BY <1>6, <2>2 DEF Gate!InFlight
    <3>2. QED
      BY <1>5, <3>1
  <2>3. QED
    BY <2>1, <2>2
<1>8. QED
  BY <1>3, <1>4, <1>5, <1>7

(* The same, when nothing is left of the request but its answer. *)
LEMMA ServeKeepsOne ==
  ASSUME GateInv, RowsOK', page' = page, NEW c \in calls, NEW d,
         d.tab = c.tab, d.op = c.op, d.why = c.why, CallOK(d)',
         \A x \in calls : CallOK(x)',
         Gate!Replace(c, d),
         Len(claims) <= Len(claims'), minted <= minted'
  PROVE  GateInv'
<1> DEFINE rest == {}
<1>1. \A x \in rest : x.tab = NoTab /\ CallOK(x)'
  OBVIOUS
<1>2. \/ calls' = (calls \ {c}) \cup {d} \cup rest
      \/ d.tab = NoTab /\ calls' = (calls \ {c}) \cup rest
  BY DEF Gate!Replace
<1> HIDE DEF rest
<1>3. QED
  BY <1>1, <1>2, ServeKeeps

(* A request that is answered, or goes on to its next phase, and adds nothing to the rows. *)
LEMMA Goes ==
  ASSUME GateInv, NEW c \in calls, NEW d \in GateCall,
         UNCHANGED <<accessOn, claims, minted, storedToken, storedClaim, page, gateEvents>>,
         Gate!Replace(c, d), d.tab = c.tab, d.op = c.op, d.why = c.why, CallOK(d)
  PROVE  GateInv'
<1>1. RowsOK' /\ Len(claims) <= Len(claims') /\ minted <= minted'
  BY DEF GateInv, RowsOK
<1>2. CallOK(d)' /\ \A x \in calls : CallOK(x)'
  BY DEF GateInv, CallOK
<1>3. QED
  BY <1>1, <1>2, ServeKeepsOne

LEMMA TokenStates ==
  ASSUME GateInv, NEW token
  PROVE  Gate!TokenState(token) \in Answers
<1>1. \A i \in DOMAIN claims : claims[i].status \in Answers
  <2>1. \A i \in DOMAIN claims : claims[i] \in ClaimRow
    BY DEF GateInv, RowsOK
  <2>2. QED
    BY <2>1 DEF ClaimRow, Answers
<1>2. CASE \E i \in Gate!Holders(token) : claims[i].status \in {"approved", "revoked"}
  <2>1. (CHOOSE i \in Gate!Holders(token) : TRUE) \in DOMAIN claims
    BY <1>2 DEF Gate!Holders
  <2>2. QED
    BY <1>1, <1>2, <2>1 DEF Gate!TokenState
<1>3. CASE ~ \E i \in Gate!Holders(token) : claims[i].status \in {"approved", "revoked"}
  BY <1>3 DEF Gate!TokenState, Answers
<1>4. QED
  BY <1>2, <1>3

(* An answer is the request, answered. *)
LEMMA AnswerIs ==
  ASSUME NEW c \in GateCall, NEW ans \in Answers
  PROVE  /\ Gate!Answer(c, ans) \in GateCall
         /\ Gate!Answer(c, ans).phase = "done" /\ Gate!Answer(c, ans).ans = ans
         /\ Gate!Answer(c, ans).tab = c.tab /\ Gate!Answer(c, ans).op = c.op
         /\ Gate!Answer(c, ans).why = c.why /\ Gate!Answer(c, ans).claim = c.claim
         /\ Gate!Answer(c, ans).token = c.token
<1> DEFINE d == Gate!Answer(c, ans)
<1>1. d \in GateCall /\ d.phase = "done" /\ d.ans = ans
  BY DEF Gate!Answer, GateCall
<1>2. d.tab = c.tab /\ d.op = c.op /\ d.why = c.why /\ d.claim = c.claim /\ d.token = c.token
  BY DEF Gate!Answer, GateCall
<1>3. QED
  BY <1>1, <1>2

LEMMA ServeSteps ==
  ASSUME GateInv, NEW c \in calls,
         \/ Gate!ServeProgram(c) \/ Gate!ServeVerify(c) \/ Gate!ReadClaim(c) \/ Gate!ReadClaimAgain(c)
         \/ Gate!ReadProgramForJoin(c) \/ Gate!VerifyForJoin(c)
  PROVE  GateInv'
<1>1. CallOK(c) /\ c \in GateCall
  BY DEF GateInv, CallOK
<1>2. ASSUME NEW ans \in Answers, c.op = "redeem" => ans # "approved", c.op # "claim",
             c.op = "program" => ans \in {"on", "off"}
      PROVE  /\ Gate!Answer(c, ans) \in GateCall /\ CallOK(Gate!Answer(c, ans))
             /\ Gate!Answer(c, ans).tab = c.tab /\ Gate!Answer(c, ans).op = c.op
             /\ Gate!Answer(c, ans).why = c.why
  <2> DEFINE d == Gate!Answer(c, ans)
  <2>1. d \in GateCall /\ d.phase = "done" /\ d.ans = ans
    BY <1>1, <1>2, AnswerIs
  <2>2. /\ d.tab = c.tab /\ d.op = c.op /\ d.why = c.why /\ d.claim = c.claim /\ d.token = c.token
    BY <1>1, <1>2, AnswerIs
  <2> HIDE DEF d
  <2>3. CallOK(d)
    BY <1>1, <1>2, <2>1, <2>2 DEF CallOK, Checks
  <2>4. QED
    BY <2>1, <2>2, <2>3 DEF d
<1>3. ASSUME NEW phase \in {"mint", "verify"}, c.op \notin {"claim", "verify"},
             c.op = "redeem" => claims[c.claim].status = "approved"
      PROVE  /\ Gate!To(c, phase) \in GateCall /\ CallOK(Gate!To(c, phase))
             /\ Gate!To(c, phase).tab = c.tab /\ Gate!To(c, phase).op = c.op
             /\ Gate!To(c, phase).why = c.why
  <2> DEFINE d == Gate!To(c, phase)
  <2>1. d \in GateCall /\ d.phase = phase
    BY <1>1, <1>3 DEF Gate!To, GateCall
  <2>2. d.tab = c.tab /\ d.op = c.op /\ d.why = c.why /\ d.claim = c.claim /\ d.token = c.token
    BY <1>1 DEF Gate!To, GateCall
  <2> HIDE DEF d
  <2>3. CallOK(d)
    BY <1>1, <1>3, <2>1, <2>2 DEF CallOK, Checks
  <2>4. QED
    BY <2>1, <2>2, <2>3 DEF d
<1>4. ASSUME c.op = "redeem"
      PROVE  claims[c.claim] \in ClaimRow
  BY <1>1, <1>4 DEF CallOK, GateCall, GateInv, RowsOK
<1>5. CASE Gate!ServeProgram(c)
  <2> DEFINE ans == IF accessOn THEN "on" ELSE "off"
  <2>1. ans \in Answers /\ ans # "approved" /\ ans \in {"on", "off"}
    BY DEF Answers
  <2>2. /\ c.op = "program" /\ Gate!Replace(c, Gate!Answer(c, ans))
        /\ UNCHANGED <<accessOn, claims, minted, storedToken, storedClaim, page, gateEvents>>
    BY <1>5 DEF Gate!ServeProgram
  <2> HIDE DEF ans
  <2>3. QED
    BY <1>2, <2>1, <2>2, Goes
<1>6. CASE Gate!ServeVerify(c)
  <2>1. /\ c.op = "verify" /\ Gate!Replace(c, Gate!Answer(c, Gate!TokenState(c.token)))
        /\ UNCHANGED <<accessOn, claims, minted, storedToken, storedClaim, page, gateEvents>>
    BY <1>6 DEF Gate!ServeVerify
  <2>2. QED
    BY <1>2, <2>1, TokenStates, Goes
<1>7. ASSUME c.op = "redeem", claims[c.claim].status # "approved"
      PROVE  Gate!ClaimState(c.claim) \in Answers /\ Gate!ClaimState(c.claim) # "approved"
  BY <1>4, <1>7 DEF Gate!ClaimState, ClaimRow, Answers
<1>8. CASE Gate!ReadClaim(c)
  <2>1. /\ c.op = "redeem"
        /\ UNCHANGED <<accessOn, claims, minted, storedToken, storedClaim, page, gateEvents>>
    BY <1>8 DEF Gate!ReadClaim
  <2>2. CASE claims[c.claim].status = "approved"
    <3>1. Gate!Replace(c, Gate!To(c, "mint"))
      BY <1>8, <2>2 DEF Gate!ReadClaim
    <3>2. QED
      BY <1>3, <2>1, <2>2, <3>1, Goes
  <2>3. CASE claims[c.claim].status # "approved"
    <3>1. Gate!Replace(c, Gate!Answer(c, Gate!ClaimState(c.claim)))
      BY <1>8, <2>3 DEF Gate!ReadClaim
    <3>2. QED
      BY <1>2, <1>7, <2>1, <2>3, <3>1, Goes
  <2>4. QED
    BY <2>2, <2>3
<1>9. CASE Gate!ReadClaimAgain(c)
  <2>1. /\ c.op = "redeem" /\ c.phase = "again"
        /\ Gate!Replace(c, Gate!Answer(c, Gate!ClaimState(c.claim)))
        /\ UNCHANGED <<accessOn, claims, minted, storedToken, storedClaim, page, gateEvents>>
    BY <1>9 DEF Gate!ReadClaimAgain
  <2>2. claims[c.claim].status # "approved"
    BY <1>1, <2>1 DEF CallOK
  <2>3. QED
    BY <1>2, <1>7, <2>1, <2>2, Goes
<1>10. CASE Gate!ReadProgramForJoin(c)
  <2>1. /\ c.op = "join"
        /\ UNCHANGED <<accessOn, claims, minted, storedToken, storedClaim, page, gateEvents>>
        /\ \/ Gate!Replace(c, Gate!To(c, "verify")) \/ Gate!Replace(c, Gate!Answer(c, "joined"))
    BY <1>10 DEF Gate!ReadProgramForJoin
  <2>2. "joined" \in Answers
    BY DEF Answers
  <2>3. QED
    BY <1>2, <1>3, <2>1, <2>2, Goes
<1>11. CASE Gate!VerifyForJoin(c)
  <2>1. /\ c.op = "join"
        /\ UNCHANGED <<accessOn, claims, minted, storedToken, storedClaim, page, gateEvents>>
        /\ \/ Gate!Replace(c, Gate!Answer(c, "joined")) \/ Gate!Replace(c, Gate!Answer(c, "denied"))
    BY <1>11 DEF Gate!VerifyForJoin
  <2>2. "joined" \in Answers /\ "denied" \in Answers
    BY DEF Answers
  <2>3. QED
    BY <1>2, <2>1, <2>2, Goes
<1>12. QED
  BY <1>5, <1>6, <1>8, <1>9, <1>10, <1>11

LEMMA ServeClaimStep ==
  ASSUME GateInv, NEW c \in calls, Gate!ServeClaim(c)
  PROVE  GateInv'
<1> DEFINE old == [i \in DOMAIN claims |-> IF claims[i].status = "pending"
                                          THEN [claims[i] EXCEPT !.status = "superseded"] ELSE claims[i]]
           n == Len(claims)
<1>0. PICK d : d = [Gate!Answer(c, "made") EXCEPT !.claim = Len(claims) + 1]
  OBVIOUS
<1>1. /\ c.op = "claim" /\ n < MaxClaims /\ Gate!Replace(c, d)
      /\ claims' = Append(old, [status |-> "pending", token |-> 0])
      /\ UNCHANGED <<accessOn, minted, storedToken, storedClaim, page, gateEvents>>
  BY <1>0 DEF Gate!ServeClaim, Gate!WithNewClaim
<1>2. /\ claims \in Seq(ClaimRow) /\ n \in Nat /\ minted \in Nat
      /\ \A i \in DOMAIN claims : claims[i] \in ClaimRow /\ claims[i].token <= minted
  BY DEF GateInv, RowsOK
<1>3. /\ old \in Seq(ClaimRow) /\ Len(old) = n
      /\ \A i \in 1 .. n : /\ old[i].token = claims[i].token
                            /\ claims[i].status # "pending" => old[i].status = claims[i].status
  <2>1. DOMAIN old = 1 .. n /\ DOMAIN claims = 1 .. n
    BY <1>2
  <2>2. \A i \in 1 .. n : /\ old[i] \in ClaimRow /\ old[i].token = claims[i].token
                          /\ claims[i].status # "pending" => old[i].status = claims[i].status
    BY <1>2, <2>1 DEF ClaimRow
  <2>3. QED
    BY <1>2, <2>1, <2>2
<1>4. [status |-> "pending", token |-> 0] \in ClaimRow
  BY DEF ClaimRow
<1>31. \A i \in 1 .. n : /\ old[i].token = claims[i].token
                         /\ claims[i].status # "pending" => old[i].status = claims[i].status
  BY <1>2, <1>3
<1> HIDE DEF old
<1>5. /\ claims' \in Seq(ClaimRow) /\ Len(claims') = n + 1
      /\ \A i \in 1 .. n : claims'[i] = old[i]
      /\ claims'[n + 1] = [status |-> "pending", token |-> 0]
  BY <1>1, <1>2, <1>3, <1>4
<1>51. \A i \in 1 .. n : claims'[i] = old[i]
  BY <1>5
<1>6. /\ DOMAIN claims' = 1 .. n + 1 /\ DOMAIN claims = 1 .. n
      /\ \A i \in 1 .. n + 1 : i \in 1 .. n \/ i = n + 1
  BY <1>2, <1>5
<1>61. \A i \in DOMAIN claims' : claims'[i].token <= minted
  <2> SUFFICES ASSUME NEW i \in DOMAIN claims'
               PROVE  claims'[i].token <= minted
    OBVIOUS
  <2>1. CASE i \in 1 .. n
    <3>1. claims'[i] = old[i] /\ old[i].token = claims[i].token
      BY <1>51, <1>31, <2>1
    <3>2. QED
      BY <1>2, <1>6, <2>1, <3>1
  <2>2. CASE i = n + 1
    BY <1>2, <1>5, <2>2
  <2>3. QED
    BY <1>6, <2>1, <2>2
<1>7. RowsOK'
  <2>1. /\ Len(claims') <= MaxClaims /\ 0 .. Len(claims) \subseteq 0 .. Len(claims')
    BY <1>1, <1>2, <1>5, HostingAssumption
  <2>2. \A i \in DOMAIN claims' : claims'[i].token <= minted'
    BY <1>1, <1>61
  <2>3. QED
    BY <1>1, <1>5, <2>1, <2>2 DEF GateInv, RowsOK
<1>13. Len(claims) <= Len(claims') /\ minted <= minted'
  BY <1>1, <1>2, <1>5
<1>14. \A i \in DOMAIN claims : claims[i].status # "pending" => claims'[i].status = claims[i].status
  <2> SUFFICES ASSUME NEW i \in 1 .. n, claims[i].status # "pending"
               PROVE  claims'[i].status = claims[i].status
    BY <1>6
  <2>1. claims'[i] = old[i] /\ old[i].status = claims[i].status
    BY <1>31, <1>51
  <2>2. QED
    BY <2>1
<1>8. \A x \in calls : CallOK(x)'
  BY <1>7, <1>13, <1>14, CallsStay DEF GateInv
<1>9. CallOK(c)' /\ c \in GateCall
  BY <1>8 DEF GateInv, CallOK
<1>10. /\ d \in GateCall /\ d.claim = n + 1 /\ d.phase = "done" /\ d.ans = "made" /\ d.token = c.token
       /\ d.tab = c.tab /\ d.op = c.op /\ d.why = c.why
  <2> DEFINE b == Gate!Answer(c, "made")
  <2>1. b \in GateCall /\ b.phase = "done" /\ b.ans = "made" /\ b.token = c.token
        /\ b.tab = c.tab /\ b.op = c.op /\ b.why = c.why
    BY <1>9, AnswerIs DEF Answers
  <2>2. d = [b EXCEPT !.claim = n + 1] /\ n + 1 \in Nat
    BY <1>0, <1>2
  <2> HIDE DEF b, n
  <2>3. QED
    BY <2>1, <2>2 DEF GateCall
<1>11. CallOK(d)'
  <2>1. d.claim <= Len(claims')
    BY <1>2, <1>5, <1>10
  <2>2. QED
    <3>1. /\ d \in GateCall /\ d.token <= minted' /\ d.op = "claim" /\ d.why = c.why /\ d.claim # 0
          /\ c.why \in {"init", "gate", "redeem"}
      BY <1>1, <1>2, <1>9, <1>10 DEF CallOK
    <3>2. QED
      BY <2>1, <3>1 DEF CallOK, Checks
<1>15. QED
  BY <1>1, <1>7, <1>8, <1>10, <1>11, <1>13, ServeKeepsOne

LEMMA MintStep ==
  ASSUME GateInv, NEW c \in calls, Gate!MintToken(c)
  PROVE  GateInv'
<1>1. CallOK(c) /\ c \in GateCall
  BY DEF GateInv, CallOK
<1>2. /\ c.op = "redeem" /\ c.phase = "mint" /\ minted < MaxTokens
      /\ UNCHANGED <<accessOn, storedToken, storedClaim, page, gateEvents>>
  BY DEF Gate!MintToken
<1>3. /\ claims \in Seq(ClaimRow) /\ Len(claims) \in Nat /\ DOMAIN claims = 1 .. Len(claims)
      /\ minted \in Nat /\ MaxTokens \in Nat /\ c.claim \in DOMAIN claims /\ c.token \in Nat
      /\ \A i \in DOMAIN claims : claims[i] \in ClaimRow /\ claims[i].token <= minted
  <2>1. /\ claims \in Seq(ClaimRow) /\ minted \in Nat
        /\ \A i \in DOMAIN claims : claims[i].token <= minted
    BY DEF GateInv, RowsOK
  <2>2. /\ Len(claims) \in Nat /\ DOMAIN claims = 1 .. Len(claims)
        /\ \A i \in DOMAIN claims : claims[i] \in ClaimRow
    BY ONLY <2>1
  <2>3. c.claim \in Nat /\ c.token \in Nat /\ c.claim <= Len(claims) /\ c.claim # 0
    BY <1>1, <1>2 DEF CallOK, GateCall
  <2>4. c.claim \in DOMAIN claims
    BY ONLY <2>2, <2>3
  <2>5. QED
    BY <2>1, <2>2, <2>3, <2>4, HostingAssumption
<1>4. CASE Gate!MayMint(c.claim)
  <2> DEFINE b == Gate!Answer(c, "approved")
  <2>0. PICK d : d = [b EXCEPT !.token = minted + 1]
    OBVIOUS
  <2>1. /\ minted' = minted + 1 /\ claims' = [claims EXCEPT ![c.claim].token = minted + 1]
        /\ Gate!Replace(c, d)
    BY <1>4, <2>0 DEF Gate!MintToken
  <2>2. /\ b \in GateCall /\ b.phase = "done" /\ b.ans = "approved" /\ b.claim = c.claim
        /\ b.tab = c.tab /\ b.op = c.op /\ b.why = c.why
    BY <1>1, AnswerIs DEF Answers
  <2> HIDE DEF b
  <2>3. /\ d \in GateCall /\ d.phase = "done" /\ d.ans = "approved" /\ d.claim = c.claim
        /\ d.token = minted + 1 /\ d.tab = c.tab /\ d.op = c.op /\ d.why = c.why
    BY <1>3, <2>0, <2>2 DEF GateCall
  <2>4. \A i \in DOMAIN claims : /\ claims'[i] \in ClaimRow /\ claims'[i].status = claims[i].status
                                 /\ claims'[i].token <= minted + 1
    <3> DEFINE k == c.claim
    <3>1. /\ k \in DOMAIN claims /\ minted + 1 \in Nat /\ minted <= minted + 1
          /\ claims' = [claims EXCEPT ![k].token = minted + 1]
          /\ \A i \in DOMAIN claims : claims[i] \in ClaimRow /\ claims[i].token \in Nat
      BY <1>3, <2>1 DEF ClaimRow
    <3> HIDE DEF k
    <3>2. claims'[k] = [claims[k] EXCEPT !.token = minted + 1]
      BY <3>1
    <3>3. /\ claims'[k] \in ClaimRow /\ claims'[k].status = claims[k].status
          /\ claims'[k].token = minted + 1
      BY <3>1, <3>2 DEF ClaimRow
    <3>4. \A i \in DOMAIN claims \ {k} : claims'[i] = claims[i]
      BY <3>1
    <3>5. \A i \in DOMAIN claims \ {k} : claims[i].token <= minted + 1
      BY <1>3, <3>1
    <3>6. QED
      BY <1>3, <3>1, <3>3, <3>4, <3>5
  <2>5. claims' \in Seq(ClaimRow) /\ Len(claims') = Len(claims) /\ DOMAIN claims' = DOMAIN claims
    <3>1. PICK n \in Nat : n = Len(claims)
      BY <1>3
    <3>2. DOMAIN claims = 1 .. n
      BY <1>3, <3>1
    <3>3. DOMAIN claims' = DOMAIN claims /\ claims' = [i \in DOMAIN claims |-> claims'[i]]
      BY <2>1
    <3>4. \A i \in 1 .. n : claims'[i] \in ClaimRow
      BY ONLY <2>4, <3>2
    <3>5. claims' \in [1 .. n -> ClaimRow]
      BY ONLY <3>2, <3>3, <3>4
    <3>6. QED
      BY ONLY <3>1, <3>2, <3>3, <3>5
  <2>6. RowsOK'
    <3>1. \A i \in DOMAIN claims' : claims'[i].token <= minted'
      BY ONLY <2>1, <2>4, <2>5
    <3>2. minted' \in 0 .. MaxTokens /\ 0 .. minted \subseteq 0 .. minted'
      BY <1>2, <1>3, <2>1
    <3>3. QED
      BY <1>2, <2>5, <3>1, <3>2 DEF GateInv, RowsOK
  <2>7. Len(claims) <= Len(claims') /\ minted <= minted'
    BY <1>3, <2>1, <2>5
  <2>8. \A x \in calls : CallOK(x)'
    BY <2>4, <2>6, <2>7, CallsStay DEF GateInv
  <2>9. CallOK(d)'
    <3>1. d.token <= minted' /\ d.token # 0 /\ d.claim <= Len(claims') /\ d.claim # 0
      BY <1>1, <1>2, <1>3, <2>1, <2>3, <2>5 DEF CallOK
    <3>2. d.op = "redeem" /\ d.why = "redeem"
      BY <1>1, <1>2, <2>3 DEF CallOK
    <3>3. QED
      BY <2>3, <3>1, <3>2 DEF CallOK, Checks
  <2>10. QED
    BY <1>2, <2>1, <2>3, <2>6, <2>7, <2>8, <2>9, ServeKeepsOne
<1>5. CASE ~Gate!MayMint(c.claim)
  <2> DEFINE d == Gate!To(c, "again")
  <2>1. Gate!Replace(c, d) /\ UNCHANGED <<claims, minted>>
    BY <1>5 DEF Gate!MintToken
  <2>2. d \in GateCall /\ d.phase = "again"
    BY <1>1 DEF Gate!To, GateCall
  <2>3. d.tab = c.tab /\ d.op = c.op /\ d.why = c.why /\ d.claim = c.claim /\ d.token = c.token
    BY <1>1 DEF Gate!To, GateCall
  <2> HIDE DEF d
  <2>4. claims[c.claim].status = "revoked"
    BY <1>1, <1>2, <1>5 DEF CallOK, Gate!MayMint
  <2>5. CallOK(d)
    BY <1>1, <1>2, <2>2, <2>3, <2>4 DEF CallOK, Checks
  <2>6. QED
    BY <1>2, <2>1, <2>2, <2>3, <2>5, Goes
<1>6. QED
  BY <1>4, <1>5

LEMMA UnheardOK ==
  ASSUME NEW c, CallOK(c)
  PROVE  \A x \in Gate!Unheard(c) : x.tab = NoTab /\ CallOK(x)
<1> SUFFICES ASSUME NEW x, x = [c EXCEPT !.tab = NoTab]
             PROVE  x.tab = NoTab /\ CallOK(x)
  BY DEF Gate!Unheard
<1>1. c \in GateCall
  BY DEF CallOK
<1>2. /\ x \in GateCall /\ x.tab = NoTab /\ x.op = c.op /\ x.why = c.why /\ x.claim = c.claim
      /\ x.token = c.token /\ x.phase = c.phase /\ x.ans = c.ans
  BY <1>1 DEF GateCall
<1>3. QED
  BY <1>2 DEF CallOK, Checks

LEMMA LoseStep ==
  ASSUME GateInv, NEW c \in calls, Gate!Lose(c)
  PROVE  GateInv'
<1>1. CallOK(c) /\ c \in GateCall
  BY DEF GateInv, CallOK
<1> DEFINE d == Gate!Answer(c, "error")
<1>2. PICK rest \in {{}, Gate!Unheard(c)} : calls' = (calls \ {c}) \cup {d} \cup rest
  BY DEF Gate!Lose
<1>3. /\ gateEvents < MaxGateEvents /\ gateEvents' = gateEvents + 1
      /\ UNCHANGED <<accessOn, claims, minted, storedToken, storedClaim, page>>
  BY DEF Gate!Lose
<1>4. /\ d \in GateCall /\ d.phase = "done" /\ d.ans = "error" /\ d.claim = c.claim
      /\ d.token = c.token /\ d.tab = c.tab /\ d.op = c.op /\ d.why = c.why
  BY <1>1, AnswerIs DEF Answers
<1> HIDE DEF d
<1>5. CallOK(d)
  BY <1>1, <1>4 DEF CallOK, Checks
<1>6. RowsOK'
  BY <1>3, HostingAssumption DEF GateInv, RowsOK
<1>7. Len(claims) <= Len(claims') /\ minted <= minted'
  BY <1>3 DEF GateInv, RowsOK
<1>8. \A x : CallOK(x) => CallOK(x)'
  BY <1>3 DEF CallOK
<1>9. \A x \in rest : x.tab = NoTab /\ CallOK(x)'
  BY <1>1, <1>2, <1>8, UnheardOK
<1>10. CallOK(d)' /\ \A x \in calls : CallOK(x)'
  BY <1>5, <1>8 DEF GateInv
<1>11. QED
  BY <1>2, <1>3, <1>4, <1>6, <1>7, <1>9, <1>10, ServeKeeps

(* The approver and the admin change rows, and no page or request. *)
LEMMA RowSteps ==
  ASSUME GateInv, UNCHANGED <<minted, storedToken, storedClaim, page, calls>>,
         accessOn' \in BOOLEAN, gateEvents' \in 0 .. MaxGateEvents,
         claims' \in Seq(ClaimRow), Len(claims') = Len(claims),
         \A i \in DOMAIN claims : /\ claims'[i].token = claims[i].token
                                  /\ claims[i].status \in {"approved", "revoked"} =>
                                       claims'[i].status \in {"approved", "revoked"}
                                  /\ claims[i].status = "revoked" => claims'[i].status = "revoked"
  PROVE  GateInv'
<1>1. DOMAIN claims' = 1 .. Len(claims') /\ DOMAIN claims = 1 .. Len(claims) /\ Len(claims) \in Nat
  BY DEF GateInv, RowsOK
<1>2. RowsOK'
  BY <1>1 DEF GateInv, RowsOK
<1>3. \A x \in calls' : CallOK(x)'
  <2>1. Len(claims) <= Len(claims') /\ minted <= minted'
    BY <1>1 DEF GateInv, RowsOK
  <2>2. QED
    BY <1>2, <2>1, CallsStay DEF GateInv
<1>4. PagesOK'
  BY DEF GateInv, PagesOK, Gate!InFlight
<1>5. QED
  BY <1>2, <1>3, <1>4 DEF GateInv

LEMMA ApproverSteps ==
  ASSUME GateInv,
         \/ \E c \in DOMAIN claims : Gate!Approve(c)
         \/ Gate!Revoke \/ Gate!SetAccessControl
  PROVE  GateInv'
<1>1. /\ claims \in Seq(ClaimRow) /\ DOMAIN claims = 1 .. Len(claims) /\ Len(claims) \in Nat
      /\ gateEvents \in 0 .. MaxGateEvents /\ accessOn \in BOOLEAN
      /\ \A i \in DOMAIN claims : claims[i] \in ClaimRow
  BY DEF GateInv, RowsOK
<1>2. CASE \E c \in DOMAIN claims : Gate!Approve(c)
  <2>1. PICK c \in DOMAIN claims : Gate!Approve(c)
    BY <1>2
  <2>2. /\ claims[c].status = "pending" /\ claims' = [claims EXCEPT ![c].status = "approved"]
        /\ UNCHANGED <<accessOn, minted, storedToken, storedClaim, page, calls, gateEvents>>
    BY <2>1 DEF Gate!Approve, Gate!MayApprove
  <2>3. \A i \in DOMAIN claims : /\ claims'[i] \in ClaimRow /\ claims'[i].token = claims[i].token
                                 /\ i # c => claims'[i] = claims[i]
    BY <1>1, <2>2 DEF ClaimRow
  <2>4. claims' \in Seq(ClaimRow) /\ Len(claims') = Len(claims)
    BY <1>1, <2>2, <2>3
  <2>5. \A i \in DOMAIN claims : claims[i].status \in {"approved", "revoked"} => claims'[i] = claims[i]
    BY <2>2, <2>3
  <2>6. QED
    BY <1>1, <2>2, <2>3, <2>4, <2>5, RowSteps
<1>3. CASE Gate!Revoke
  <2>1. /\ claims' = [c \in DOMAIN claims |-> [claims[c] EXCEPT !.status = "revoked"]]
        /\ gateEvents < MaxGateEvents /\ gateEvents' = gateEvents + 1
        /\ UNCHANGED <<accessOn, minted, storedToken, storedClaim, page, calls>>
    BY <1>3 DEF Gate!Revoke
  <2>2. \A i \in DOMAIN claims : /\ claims'[i] \in ClaimRow /\ claims'[i].token = claims[i].token
                                 /\ claims'[i].status = "revoked"
    BY <1>1, <2>1 DEF ClaimRow
  <2>3. claims' \in Seq(ClaimRow) /\ Len(claims') = Len(claims)
    BY <1>1, <2>1, <2>2
  <2>4. gateEvents' \in 0 .. MaxGateEvents
    BY <1>1, <2>1, HostingAssumption
  <2>5. QED
    BY <1>1, <2>1, <2>2, <2>3, <2>4, RowSteps
<1>4. CASE Gate!SetAccessControl
  <2>1. /\ gateEvents < MaxGateEvents /\ gateEvents' = gateEvents + 1 /\ accessOn' = ~accessOn
        /\ UNCHANGED <<claims, minted, storedToken, storedClaim, page, calls>>
    BY <1>4 DEF Gate!SetAccessControl
  <2>2. gateEvents' \in 0 .. MaxGateEvents
    BY <1>1, <2>1, HostingAssumption
  <2>3. QED
    BY <1>1, <2>1, <2>2, RowSteps
<1>5. QED
  BY <1>2, <1>3, <1>4

-----------------------------------------------------------------------------
(* The page *)

LEMMA PageStep ==
  ASSUME GateInv, NEW t \in Tabs, NEW p \in PageRow, Gate!Page(t, p),
         \A x \in calls' : CallOK(x),
         \A u \in Tabs \ {t} : Gate!InFlight(u)' = Gate!InFlight(u),
         UNCHANGED <<accessOn, claims, minted>>,
         gateEvents' \in 0 .. MaxGateEvents,
         storedToken' \in 0 .. minted, storedClaim' \in 0 .. Len(claims),
         p.held <= minted, p.claim <= Len(claims),
         Rules(p, Gate!InFlight(t)'),
         p.status = "waiting" /\ page[t].status = "waiting" /\ p.claim = page[t].claim =>
             p.gen = page[t].gen
  PROVE  GateInv'
<1>1. page \in [Tabs -> PageRow] /\ page[t] \in PageRow
  BY DEF GateInv, RowsOK
<1>2. PICK q : q = Gate!WithPolls(page[t], p)
  OBVIOUS
<1>3. page' = [page EXCEPT ![t] = q]
  BY <1>2 DEF Gate!Page
<1>4. /\ q \in PageRow
      /\ q.gen = p.gen /\ q.status = p.status /\ q.claim = p.claim
      /\ q.checking = p.checking /\ q.held = p.held /\ q.redeemed = p.redeemed
      /\ q.redeeming = p.redeeming
      /\ q.status = "waiting" =>
           q.poll = IF page[t].status = "waiting" /\ page[t].claim = p.claim THEN page[t].poll
                    ELSE <<p.gen, p.claim>>
  BY <1>1, <1>2, PollsSet
<1>5. /\ page' \in [Tabs -> PageRow] /\ page'[t] = q
      /\ \A u \in Tabs \ {t} : page'[u] = page[u]
  BY <1>1, <1>3, <1>4
<1>6. RowsOK'
  BY <1>5 DEF GateInv, RowsOK
<1>7. \A x : CallOK(x) => CallOK(x)'
  BY DEF CallOK
<1>8. \A x \in calls' : CallOK(x)'
  BY <1>7 DEF GateInv
<1>12. page[t].status = "waiting" => page[t].poll = <<page[t].gen, page[t].claim>>
  BY DEF GateInv, PagesOK, TabOK
<1>13. q.status = "waiting" => q.poll = <<q.gen, q.claim>>
  BY <1>4, <1>12
<1>14. Rules(q, Gate!InFlight(t)')
  BY <1>4 DEF Rules
<1>15. TabOK(page'[t], Gate!InFlight(t)')
  BY <1>5, <1>13, <1>14 DEF TabOK
<1>16. Len(claims) <= Len(claims') /\ minted <= minted'
  BY DEF GateInv, RowsOK
<1>17. page'[t].held <= minted' /\ page'[t].claim <= Len(claims')
  BY <1>4, <1>5
<1>18. QED
  BY <1>5, <1>6, <1>8, <1>15, <1>16, <1>17, TabStep

(* An answer is handled, and nothing is asked for. *)
LEMMA PageDrops ==
  ASSUME GateInv, NEW c \in calls, c.tab \in Tabs, NEW p \in PageRow, Gate!Page(c.tab, p),
         calls' = calls \ {c},
         UNCHANGED <<accessOn, claims, minted, gateEvents>>,
         storedToken' \in 0 .. minted, storedClaim' \in 0 .. Len(claims),
         p.held <= minted, p.claim <= Len(claims),
         Rules(p, Gate!InFlight(c.tab) \ {c}), p.gen = page[c.tab].gen
  PROVE  GateInv'
<1>1. \A x \in calls' : CallOK(x)
  BY DEF GateInv
<1>2. /\ Gate!InFlight(c.tab)' = Gate!InFlight(c.tab) \ {c}
      /\ \A u \in Tabs \ {c.tab} : Gate!InFlight(u)' = Gate!InFlight(u)
  BY DEF Gate!InFlight
<1>3. gateEvents' \in 0 .. MaxGateEvents
  BY DEF GateInv, RowsOK
<1>4. QED
  BY <1>1, <1>2, <1>3, PageStep

(* An answer is handled, and d is asked for next. *)
LEMMA PageReplaces ==
  ASSUME GateInv, NEW c \in calls, c.tab \in Tabs, NEW p \in PageRow, Gate!Page(c.tab, p),
         NEW d, d.tab = c.tab, d.op # "join", CallOK(d), Gate!Replace(c, d),
         UNCHANGED <<accessOn, claims, minted, gateEvents>>,
         storedToken' \in 0 .. minted, storedClaim' \in 0 .. Len(claims),
         p.held <= minted, p.claim <= Len(claims),
         Rules(p, (Gate!InFlight(c.tab) \ {c}) \cup {d}), p.gen = page[c.tab].gen
  PROVE  GateInv'
<1>1. d.tab # NoTab
  BY HostingAssumption
<1>2. calls' = (calls \ {c}) \cup {d}
  BY <1>1 DEF Gate!Replace
<1>3. \A x \in calls' : CallOK(x)
  BY <1>2 DEF GateInv
<1>4. /\ Gate!InFlight(c.tab)' = (Gate!InFlight(c.tab) \ {c}) \cup {d}
      /\ \A u \in Tabs \ {c.tab} : Gate!InFlight(u)' = Gate!InFlight(u)
  BY <1>2 DEF Gate!InFlight
<1>5. gateEvents' \in 0 .. MaxGateEvents
  BY DEF GateInv, RowsOK
<1>6. QED
  BY <1>3, <1>4, <1>5, PageStep

(* The page asks for d. *)
LEMMA PageSends ==
  ASSUME GateInv, NEW t \in Tabs, NEW p \in PageRow, Gate!Page(t, p),
         NEW d, d.tab = t, CallOK(d), calls' = calls \cup {d},
         UNCHANGED <<accessOn, claims, minted, storedToken, storedClaim>>,
         gateEvents' \in 0 .. MaxGateEvents,
         p.held <= minted, p.claim <= Len(claims),
         Rules(p, IF d.op = "join" THEN Gate!InFlight(t) ELSE Gate!InFlight(t) \cup {d}),
         p.gen = page[t].gen
  PROVE  GateInv'
<1>1. \A x \in calls' : CallOK(x)
  BY DEF GateInv
<1>2. /\ Gate!InFlight(t)' = IF d.op = "join" THEN Gate!InFlight(t) ELSE Gate!InFlight(t) \cup {d}
      /\ \A u \in Tabs \ {t} : Gate!InFlight(u)' = Gate!InFlight(u)
  BY DEF Gate!InFlight
<1>3. storedToken' \in 0 .. minted /\ storedClaim' \in 0 .. Len(claims)
  BY DEF GateInv, RowsOK
<1>4. QED
  BY <1>1, <1>2, <1>3, PageStep

(* The page changes in nothing that its requests depend on; an acquisition may be over. *)
LEMMA PagePlays ==
  ASSUME GateInv, NEW t \in Tabs, NEW p \in PageRow, Gate!Page(t, p),
         NEW gone, calls' = calls \ gone,
         \A x \in gone : x.tab = t /\ x.op = "join",
         UNCHANGED <<accessOn, claims, minted, storedToken, gateEvents>>,
         storedClaim' \in 0 .. Len(claims),
         p.gen = page[t].gen, p.held = page[t].held, p.claim = page[t].claim,
         Rules(p, Gate!InFlight(t))
  PROVE  GateInv'
<1>1. \A x \in calls' : CallOK(x)
  BY DEF GateInv
<1>2. /\ Gate!InFlight(t)' = Gate!InFlight(t)
      /\ \A u \in Tabs \ {t} : Gate!InFlight(u)' = Gate!InFlight(u)
  BY DEF Gate!InFlight
<1>4. storedToken' \in 0 .. minted /\ gateEvents' \in 0 .. MaxGateEvents
  BY DEF GateInv, RowsOK
<1>5. p.held <= minted /\ p.claim <= Len(claims)
  BY DEF GateInv, PagesOK
<1>6. QED
  BY <1>1, <1>2, <1>4, <1>5, PageStep

(* What is known of a page and its requests before it takes a step. *)
LEMMA PageFacts ==
  ASSUME GateInv, NEW t \in Tabs
  PROVE  /\ page[t] \in PageRow
         /\ page[t].gen \in 0 .. MaxGen /\ page[t].held \in 0 .. minted
         /\ page[t].claim \in 0 .. Len(claims)
         /\ Rules(page[t], Gate!InFlight(t))
         /\ page[t].status = "waiting" => page[t].poll = <<page[t].gen, page[t].claim>>
         /\ minted \in Nat /\ Len(claims) \in Nat /\ gateEvents \in 0 .. MaxGateEvents
         /\ storedToken \in 0 .. minted /\ storedClaim \in 0 .. Len(claims)
<1>1. page[t] \in PageRow
  BY DEF GateInv, RowsOK
<1>2. page[t].gen \in 0 .. MaxGen /\ page[t].held \in Nat /\ page[t].claim \in Nat
  BY <1>1 DEF PageRow
<1>3. /\ page[t].held <= minted /\ page[t].claim <= Len(claims) /\ Rules(page[t], Gate!InFlight(t))
      /\ page[t].status = "waiting" => page[t].poll = <<page[t].gen, page[t].claim>>
  BY DEF GateInv, PagesOK, TabOK
<1>4. /\ minted \in Nat /\ Len(claims) \in Nat /\ gateEvents \in 0 .. MaxGateEvents
      /\ storedToken \in 0 .. minted /\ storedClaim \in 0 .. Len(claims)
  BY DEF GateInv, RowsOK
<1>5. QED
  BY <1>1, <1>2, <1>3, <1>4

LEMMA NoRequests ==
  ASSUME NEW p, p.status \notin Busy, ~p.redeeming, ~p.redeemed, p.status \in In => p.held # 0,
         p.status = "waiting" => p.claim # 0 /\ ~p.checking,
         p.status = "disabled" => p.held = 0
  PROVE  Rules(p, {})
BY DEF Rules

LEMMA OneStarts ==
  ASSUME NEW p, NEW d, Starting(d), p.status \in Busy, ~p.redeeming, ~p.redeemed,
         d.op = "program" /\ d.why = "gate" => p.held = 0
  PROVE  Rules(p, {d})
<1>1. ~Redeems(d) /\ ~Checks(d)
  BY DEF Starting, Redeems, Checks
<1>2. p.status \notin In \cup {"waiting", "disabled"}
  BY DEF Busy, In
<1>3. QED
  BY <1>1, <1>2 DEF Rules

LEMMA OneRedeems ==
  ASSUME NEW p, NEW d, Redeems(d), p.status = "waiting", p.claim # 0, p.redeeming, ~p.redeemed
  PROVE  Rules(p, {d})
<1>1. ~Starting(d) /\ p.status \notin Busy \cup In
  BY DEF Starting, Redeems, Busy, In
<1>2. QED
  BY <1>1 DEF Rules

(* What a page shows. *)
LEMMA Shows ==
  ASSUME NEW p \in PageRow, NEW status \in {"failed", "checking", "error", "entering", "approved", "disabled"},
         NEW q, q = Gate!Status(p, status)
  PROVE  /\ q \in PageRow /\ q.status = status /\ q.claim = 0 /\ ~q.checking
         /\ q.gen = p.gen /\ q.held = p.held /\ q.redeeming = p.redeeming
         /\ q.redeemed = p.redeemed
BY DEF Gate!Status, PageRow

Shown(p, claim) == Gate!Waiting(p, claim, FALSE)

LEMMA Waits ==
  ASSUME NEW p \in PageRow, NEW claim \in Nat,
         NEW q, q = Shown(p, claim)
  PROVE  /\ q \in PageRow /\ q.status = "waiting" /\ q.claim = claim /\ ~q.checking
         /\ q.gen = p.gen /\ q.held = p.held /\ q.redeeming = p.redeeming
         /\ q.redeemed = p.redeemed
<1>1. q = [[[p EXCEPT !.status = "waiting"] EXCEPT !.claim = claim] EXCEPT !.checking = FALSE]
  BY DEF Shown, Gate!Waiting
<1>2. PICK a : a = [p EXCEPT !.status = "waiting"]
  OBVIOUS
<1>3. PICK b : b = [a EXCEPT !.claim = claim]
  OBVIOUS
<1>4. /\ a \in PageRow /\ a.status = "waiting" /\ a.gen = p.gen /\ a.held = p.held
      /\ a.redeeming = p.redeeming /\ a.redeemed = p.redeemed
  BY <1>2 DEF PageRow
<1>5. /\ b \in PageRow /\ b.status = "waiting" /\ b.claim = claim /\ b.gen = p.gen
      /\ b.held = p.held /\ b.redeeming = p.redeeming /\ b.redeemed = p.redeemed
  BY <1>3, <1>4 DEF PageRow
<1>6. q = [b EXCEPT !.checking = FALSE]
  BY <1>1, <1>2, <1>3
<1>7. QED
  BY <1>5, <1>6 DEF PageRow

Retried(p, claim) == [Gate!Waiting(p, claim, TRUE) EXCEPT !.redeeming = TRUE]

LEMMA Retries ==
  ASSUME NEW p \in PageRow, NEW claim \in Nat,
         NEW q, q = Retried(p, claim)
  PROVE  /\ q \in PageRow /\ q.status = "waiting" /\ q.claim = claim /\ q.redeeming
         /\ q.gen = p.gen /\ q.held = p.held /\ q.redeemed = p.redeemed
<1>1. q = [[[[p EXCEPT !.status = "waiting"] EXCEPT !.claim = claim] EXCEPT !.checking = TRUE]
             EXCEPT !.redeeming = TRUE]
  BY DEF Retried, Gate!Waiting
<1>2. PICK a : a = [p EXCEPT !.status = "waiting"]
  OBVIOUS
<1>3. PICK b : b = [a EXCEPT !.claim = claim]
  OBVIOUS
<1>4. /\ a \in PageRow /\ a.status = "waiting" /\ a.gen = p.gen /\ a.held = p.held
      /\ a.redeeming = p.redeeming /\ a.redeemed = p.redeemed
  BY <1>2 DEF PageRow
<1>5. /\ b \in PageRow /\ b.status = "waiting" /\ b.claim = claim /\ b.gen = p.gen
      /\ b.held = p.held /\ b.redeeming = p.redeeming /\ b.redeemed = p.redeemed
  BY <1>3, <1>4 DEF PageRow
<1>6. PICK d : d = [b EXCEPT !.checking = TRUE]
  OBVIOUS
<1>7. /\ d \in PageRow /\ d.status = "waiting" /\ d.claim = claim /\ d.gen = p.gen
      /\ d.held = p.held /\ d.redeemed = p.redeemed
  BY <1>5, <1>6 DEF PageRow
<1>8. q = [d EXCEPT !.redeeming = TRUE]
  BY <1>1, <1>2, <1>3, <1>6
<1>9. QED
  BY <1>7, <1>8 DEF PageRow

(* A gate that starts has one request; one that checks or redeems does not start. *)
LEMMA Alone ==
  ASSUME NEW p, NEW F, Rules(p, F), NEW c \in F, Starting(c)
  PROVE  F = {c} /\ F \ {c} = {} /\ p.status \in Busy /\ ~p.redeeming /\ ~p.redeemed
BY DEF Rules

LEMMA NoneStarts ==
  ASSUME NEW p, NEW F, Rules(p, F), NEW c \in F, Checks(c) \/ Redeems(c)
  PROVE  (\A x \in F : ~Starting(x)) /\ p.status \notin Busy
<1>1. ~Starting(c)
  BY DEF Starting, Redeems, Checks
<1>2. QED
  BY <1>1 DEF Rules

(* What a page asks for. *)
LEMMA Asked ==
  ASSUME GateInv, NEW t \in Tabs
  PROVE  /\ \A why \in {"load", "gate"} :
              /\ CallOK(Gate!ProgramCall(t, why, 0)) /\ Starting(Gate!ProgramCall(t, why, 0))
              /\ Gate!ProgramCall(t, why, 0).tab = t /\ Gate!ProgramCall(t, why, 0).op = "program"
              /\ Gate!ProgramCall(t, why, 0).why = why
         /\ \A why \in {"init", "gate", "redeem"} :
              /\ CallOK(Gate!ClaimCall(t, why)) /\ Gate!ClaimCall(t, why).tab = t
              /\ Gate!ClaimCall(t, why).op = "claim" /\ Gate!ClaimCall(t, why).why = why
         /\ \A claim \in 1 .. Len(claims) :
              /\ CallOK(Gate!ProgramCall(t, "check", claim)) /\ Checks(Gate!ProgramCall(t, "check", claim))
              /\ Gate!ProgramCall(t, "check", claim).tab = t
              /\ Gate!ProgramCall(t, "check", claim).op = "program"
         /\ \A claim \in 1 .. Len(claims), show \in BOOLEAN :
              /\ CallOK(Gate!RedeemCall(t, claim, show)) /\ Redeems(Gate!RedeemCall(t, claim, show))
              /\ Gate!RedeemCall(t, claim, show).tab = t /\ Gate!RedeemCall(t, claim, show).op = "redeem"
         /\ \A token \in 1 .. minted :
              /\ CallOK(Gate!Call(t, "verify", "init", 0, token))
              /\ Starting(Gate!Call(t, "verify", "init", 0, token))
              /\ Gate!Call(t, "verify", "init", 0, token).tab = t
              /\ Gate!Call(t, "verify", "init", 0, token).op = "verify"
         /\ \A s \in Streams :
              /\ CallOK(Gate!JoinCall(t, s)) /\ Gate!JoinCall(t, s).tab = t
              /\ Gate!JoinCall(t, s).op = "join"
<1>1. minted \in Nat /\ Len(claims) \in Nat /\ page[t].held \in 0 .. minted
  BY PageFacts
<1>2. "none" \in Answers
  BY DEF Answers
<1>3. \A why \in {"load", "gate"} :
         /\ Gate!ProgramCall(t, why, 0) \in GateCall /\ Gate!ProgramCall(t, why, 0).tab = t
         /\ Gate!ProgramCall(t, why, 0).op = "program" /\ Gate!ProgramCall(t, why, 0).why = why
         /\ Gate!ProgramCall(t, why, 0).claim = 0 /\ Gate!ProgramCall(t, why, 0).token = 0
         /\ Gate!ProgramCall(t, why, 0).phase = "sent"
  BY <1>2 DEF Gate!ProgramCall, Gate!Call, GateCall
<1>4. \A why \in {"init", "gate", "redeem"} :
         /\ Gate!ClaimCall(t, why) \in GateCall /\ Gate!ClaimCall(t, why).tab = t
         /\ Gate!ClaimCall(t, why).op = "claim" /\ Gate!ClaimCall(t, why).why = why
         /\ Gate!ClaimCall(t, why).claim = 0 /\ Gate!ClaimCall(t, why).token = 0
         /\ Gate!ClaimCall(t, why).phase = "sent"
  BY <1>2 DEF Gate!ClaimCall, Gate!Call, GateCall
<1>5. \A claim \in 1 .. Len(claims) :
         /\ Gate!ProgramCall(t, "check", claim) \in GateCall /\ Gate!ProgramCall(t, "check", claim).tab = t
         /\ Gate!ProgramCall(t, "check", claim).op = "program"
         /\ Gate!ProgramCall(t, "check", claim).why = "check"
         /\ Gate!ProgramCall(t, "check", claim).claim = claim
         /\ Gate!ProgramCall(t, "check", claim).token = 0
         /\ Gate!ProgramCall(t, "check", claim).phase = "sent"
  BY <1>1, <1>2 DEF Gate!ProgramCall, Gate!Call, GateCall
<1>6. \A claim \in 1 .. Len(claims), show \in BOOLEAN :
         /\ Gate!RedeemCall(t, claim, show) \in GateCall /\ Gate!RedeemCall(t, claim, show).tab = t
         /\ Gate!RedeemCall(t, claim, show).op = "redeem"
         /\ Gate!RedeemCall(t, claim, show).why = "redeem"
         /\ Gate!RedeemCall(t, claim, show).claim = claim
         /\ Gate!RedeemCall(t, claim, show).token = 0 /\ Gate!RedeemCall(t, claim, show).phase = "sent"
  BY <1>1, <1>2 DEF Gate!RedeemCall, Gate!Call, GateCall
<1>7. \A token \in 1 .. minted :
         /\ Gate!Call(t, "verify", "init", 0, token) \in GateCall
         /\ Gate!Call(t, "verify", "init", 0, token).tab = t
         /\ Gate!Call(t, "verify", "init", 0, token).op = "verify"
         /\ Gate!Call(t, "verify", "init", 0, token).why = "init"
         /\ Gate!Call(t, "verify", "init", 0, token).claim = 0
         /\ Gate!Call(t, "verify", "init", 0, token).token = token
  BY <1>1, <1>2 DEF Gate!Call, GateCall
<1>8. \A s \in Streams :
         /\ Gate!JoinCall(t, s) \in GateCall /\ Gate!JoinCall(t, s).tab = t
         /\ Gate!JoinCall(t, s).op = "join" /\ Gate!JoinCall(t, s).why = "join"
         /\ Gate!JoinCall(t, s).claim = 0 /\ Gate!JoinCall(t, s).token = page[t].held
  <2> SUFFICES ASSUME NEW s \in Streams, NEW d, d = Gate!JoinCall(t, s)
               PROVE  /\ d \in GateCall /\ d.tab = t /\ d.op = "join" /\ d.why = "join"
                      /\ d.claim = 0 /\ d.token = page[t].held
    OBVIOUS
  <2>1. PICK b : b = Gate!Call(t, "join", "join", 0, page[t].held)
    OBVIOUS
  <2>2. page[t].held \in Nat
    BY <1>1
  <2>3. /\ b \in GateCall /\ b.tab = t /\ b.op = "join" /\ b.why = "join" /\ b.claim = 0
        /\ b.token = page[t].held
    BY <1>2, <2>1, <2>2 DEF Gate!Call, GateCall
  <2>4. d = [b EXCEPT !.stream = s]
    BY <2>1 DEF Gate!JoinCall
  <2>5. QED
    BY <2>3, <2>4 DEF GateCall
<1>9. \A why \in {"load", "gate"} :
         CallOK(Gate!ProgramCall(t, why, 0)) /\ Starting(Gate!ProgramCall(t, why, 0))
  BY <1>1, <1>3 DEF CallOK, Starting, Checks
<1>10. \A why \in {"init", "gate", "redeem"} : CallOK(Gate!ClaimCall(t, why))
  BY <1>1, <1>4 DEF CallOK, Checks
<1>11. \A claim \in 1 .. Len(claims) :
         CallOK(Gate!ProgramCall(t, "check", claim)) /\ Checks(Gate!ProgramCall(t, "check", claim))
  BY <1>1, <1>5 DEF CallOK, Checks
<1>12. \A claim \in 1 .. Len(claims), show \in BOOLEAN :
         CallOK(Gate!RedeemCall(t, claim, show)) /\ Redeems(Gate!RedeemCall(t, claim, show))
  BY <1>1, <1>6 DEF CallOK, Redeems, Checks
<1>13. \A token \in 1 .. minted :
         /\ CallOK(Gate!Call(t, "verify", "init", 0, token))
         /\ Starting(Gate!Call(t, "verify", "init", 0, token))
  BY <1>1, <1>7 DEF CallOK, Starting, Checks
<1>14. \A s \in Streams : CallOK(Gate!JoinCall(t, s))
  BY <1>1, <1>8 DEF CallOK, Checks
<1>15. QED
  BY <1>3, <1>4, <1>5, <1>6, <1>7, <1>8, <1>9, <1>10, <1>11, <1>12, <1>13, <1>14

(* initialAccessState. *)
LEMMA StartsGate ==
  ASSUME GateInv, NEW t \in Tabs, NEW p \in PageRow, NEW rest, Gate!InitialAccess(t, p, rest),
         gateEvents' = gateEvents, page[t].status # "waiting",
         p.status \in {"checking", "retrying"}, ~p.redeeming, ~p.redeemed,
         p.held <= minted, p.claim <= Len(claims),
         \A x \in rest : CallOK(x) /\ (x.tab = t => x.op = "join"),
         \A u \in Tabs \ {t} : {x \in rest : x.tab = u /\ x.op # "join"} = Gate!InFlight(u)
  PROVE  GateInv'
<1>1. /\ minted \in Nat /\ Len(claims) \in Nat /\ gateEvents \in 0 .. MaxGateEvents
      /\ storedToken \in 0 .. minted /\ storedClaim \in 0 .. Len(claims) /\ p.status \in Busy
  BY PageFacts DEF Busy
<1>2. /\ UNCHANGED <<accessOn, claims, minted, storedToken, storedClaim, gateEvents>>
      /\ gateEvents' \in 0 .. MaxGateEvents /\ storedToken' \in 0 .. minted
      /\ storedClaim' \in 0 .. Len(claims)
  BY <1>1 DEF Gate!InitialAccess
<1>3. ASSUME NEW q \in PageRow, Gate!Page(t, q), calls' = rest, q.held <= minted,
             q.claim <= Len(claims), Rules(q, {})
      PROVE  GateInv'
  <2>1. Gate!InFlight(t)' = {}
    BY <1>3 DEF Gate!InFlight
  <2>2. /\ \A x \in calls' : CallOK(x)
        /\ \A u \in Tabs \ {t} : Gate!InFlight(u)' = Gate!InFlight(u)
    BY <1>3 DEF Gate!InFlight
  <2>3. QED
    BY <1>2, <1>3, <2>1, <2>2, PageStep
<1>4. ASSUME NEW d, Gate!Page(t, p), calls' = rest \cup {d}, CallOK(d), Starting(d), d.tab = t,
             d.op \in {"claim", "verify"}
      PROVE  GateInv'
  <2>1. Gate!InFlight(t)' = {d}
    BY <1>4 DEF Gate!InFlight
  <2>2. /\ \A x \in calls' : CallOK(x)
        /\ \A u \in Tabs \ {t} : Gate!InFlight(u)' = Gate!InFlight(u)
    BY <1>4 DEF Gate!InFlight
  <2>3. Rules(p, {d})
    BY <1>1, <1>4, OneStarts
  <2>4. QED
    BY <1>2, <1>4, <2>1, <2>2, <2>3, PageStep
<1>5. CASE ~p.meta
  <2>1. PICK q : q = [Gate!Status(p, "disabled") EXCEPT !.held = 0]
    OBVIOUS
  <2>2. Gate!Page(t, q) /\ calls' = rest
    BY <1>5, <2>1 DEF Gate!InitialAccess
  <2>3. /\ q \in PageRow /\ q.status = "disabled" /\ q.held = 0 /\ q.claim = 0
        /\ q.redeeming = p.redeeming /\ q.redeemed = p.redeemed
    <3>1. PICK b : b = Gate!Status(p, "disabled")
      OBVIOUS
    <3>2. q = [b EXCEPT !.held = 0]
      BY <2>1, <3>1
    <3>3. /\ b \in PageRow /\ b.status = "disabled" /\ b.claim = 0
          /\ b.redeeming = p.redeeming /\ b.redeemed = p.redeemed
      BY <3>1, Shows
    <3>4. QED
      BY ONLY <3>2, <3>3 DEF PageRow
  <2>4. Rules(q, {})
    BY <2>3, NoRequests DEF Busy, In
  <2>5. QED
    BY <1>1, <1>3, <2>2, <2>3, <2>4
<1>6. CASE p.meta /\ storedToken # 0
  <2>1. PICK d : d = Gate!Call(t, "verify", "init", 0, storedToken)
    OBVIOUS
  <2>2. Gate!Page(t, p) /\ calls' = rest \cup {d}
    BY <1>6, <2>1 DEF Gate!InitialAccess
  <2>3. storedToken \in 1 .. minted
    BY <1>1, <1>6
  <2>4. CallOK(d) /\ Starting(d) /\ d.tab = t /\ d.op = "verify"
    BY <2>1, <2>3, Asked
  <2>5. QED
    BY <1>4, <2>2, <2>4
<1>7. CASE p.meta /\ storedToken = 0 /\ storedClaim # 0
  <2>1. PICK q : q = Gate!Waiting(p, storedClaim, FALSE)
    OBVIOUS
  <2>2. Gate!Page(t, q) /\ calls' = rest
    BY <1>7, <2>1 DEF Gate!InitialAccess
  <2>3. /\ q \in PageRow /\ q.status = "waiting" /\ q.claim = storedClaim /\ ~q.checking
        /\ q.held = p.held /\ q.redeeming = p.redeeming /\ q.redeemed = p.redeemed
    <3>1. storedClaim \in Nat
      BY <1>1
    <3>2. q = Shown(p, storedClaim)
      BY <2>1 DEF Shown
    <3>3. QED
      BY ONLY p \in PageRow, <3>1, <3>2, Waits
  <2>4. Rules(q, {})
    BY <1>7, <2>3, NoRequests DEF Busy, In
  <2>5. QED
    BY <1>1, <1>3, <2>2, <2>3, <2>4
<1>8. CASE p.meta /\ storedToken = 0 /\ storedClaim = 0
  <2>1. PICK d : d = Gate!ClaimCall(t, "init")
    OBVIOUS
  <2>2. Gate!Page(t, p) /\ calls' = rest \cup {d}
    BY <1>8, <2>1 DEF Gate!InitialAccess
  <2>3. CallOK(d) /\ d.tab = t /\ d.op = "claim" /\ d.why = "init"
    BY <2>1, Asked
  <2>4. Starting(d)
    BY <2>3 DEF Starting
  <2>5. QED
    BY <1>4, <2>2, <2>3, <2>4
<1>9. QED
  BY <1>5, <1>6, <1>7, <1>8 DEF PageRow

(* What is left of the requests of a page that goes on to another generation. *)
LEMMA Dropped ==
  ASSUME GateInv, NEW t \in Tabs, NEW cs, cs \subseteq calls,
         \A x \in calls \ cs : x.op = "join",
         NEW rest, rest = Gate!OtherGeneration(t, cs)
  PROVE  /\ \A x \in rest : CallOK(x) /\ (x.tab = t => x.op = "join")
         /\ \A u \in Tabs \ {t} : {x \in rest : x.tab = u /\ x.op # "join"} = Gate!InFlight(u)
<1>1. t # NoTab
  BY HostingAssumption
<1>2. \A c \in cs : CallOK(c) /\ \A x \in Gate!Unheard(c) : x.tab = NoTab /\ CallOK(x)
  BY UnheardOK DEF GateInv
<1>3. \A x : x \in rest <=> \E c \in cs : IF c.tab = t /\ c.op # "join" THEN x \in Gate!Unheard(c)
                                         ELSE x = c
  BY DEF Gate!OtherGeneration
<1>4. \A x \in rest : CallOK(x) /\ (x.tab = t => x.op = "join")
  BY <1>1, <1>2, <1>3
<1>5. ASSUME NEW u \in Tabs \ {t}
      PROVE  {x \in rest : x.tab = u /\ x.op # "join"} = Gate!InFlight(u)
  <2>1. u # NoTab
    BY HostingAssumption
  <2>2. \A x \in rest : x.tab = u /\ x.op # "join" => x \in Gate!InFlight(u)
    BY <1>2, <1>3, <2>1 DEF Gate!InFlight
  <2>3. \A x \in Gate!InFlight(u) : x \in rest
    BY <1>3 DEF Gate!InFlight
  <2>4. \A x \in Gate!InFlight(u) : x.tab = u /\ x.op # "join"
    BY DEF Gate!InFlight
  <2>5. QED
    BY <2>2, <2>3, <2>4
<1>6. QED
  BY <1>4, <1>5

LEMMA Fails ==
  ASSUME NEW p \in PageRow, NEW claim \in Nat, NEW q, q = Gate!ServiceError(p, claim)
  PROVE  /\ q \in PageRow /\ q.status = "error" /\ q.claim = claim /\ ~q.checking
         /\ q.gen = p.gen /\ q.held = p.held /\ q.redeeming = p.redeeming
         /\ q.redeemed = p.redeemed
<1>1. PICK b : b = Gate!Status(p, "error")
  OBVIOUS
<1>2. /\ b \in PageRow /\ b.status = "error" /\ ~b.checking /\ b.gen = p.gen /\ b.held = p.held
      /\ b.redeeming = p.redeeming /\ b.redeemed = p.redeemed
  BY <1>1, Shows
<1>3. q = [b EXCEPT !.claim = claim]
  BY <1>1 DEF Gate!ServiceError
<1>4. QED
  BY <1>2, <1>3 DEF PageRow

(* The page of an answer, and the request among those of the page. *)
LEMMA AnswerFacts ==
  ASSUME GateInv, NEW c \in calls, NEW op, NEW why, Gate!Answered(c, op, why)
  PROVE  /\ c.tab \in Tabs /\ c.op = op /\ c.why = why /\ c.phase = "done" /\ CallOK(c)
         /\ c.claim \in 0 .. Len(claims) /\ c.token \in 0 .. minted
         /\ c.op # "join" => c \in Gate!InFlight(c.tab)
<1>1. CallOK(c) /\ c.tab \in Tabs /\ c.op = op /\ c.why = why /\ c.phase = "done"
  BY DEF GateInv, Gate!Answered
<1>2. c.claim \in Nat /\ c.token \in Nat /\ c.claim <= Len(claims) /\ c.token <= minted
  BY <1>1 DEF CallOK, GateCall
<1>3. minted \in Nat /\ Len(claims) \in Nat
  BY DEF GateInv, RowsOK
<1>4. QED
  BY <1>1, <1>2, <1>3 DEF Gate!InFlight

LEMMA OpenStep ==
  ASSUME GateInv, NEW t \in Tabs, Gate!Open(t)
  PROVE  GateInv'
<1>1. PICK d : d = Gate!ProgramCall(t, "load", 0)
  OBVIOUS
<1> DEFINE rest == UNION {IF c.tab = t THEN Gate!Unheard(c) ELSE {c} : c \in calls}
<1>2. \A x : x \in rest <=> \E c \in calls : IF c.tab = t THEN x \in Gate!Unheard(c) ELSE x = c
  OBVIOUS
<1>3. PICK gen : gen = page[t].gen + 1
  OBVIOUS
<1>4. PICK q : q = [Gate!ClosedPage EXCEPT !.gen = gen, !.status = "loading"]
  OBVIOUS
<1>5. /\ page[t].gen < MaxGen /\ Gate!Page(t, q) /\ calls' = rest \cup {d}
      /\ UNCHANGED <<accessOn, claims, minted, storedToken, storedClaim>>
      /\ gateEvents' = gateEvents \/ (gateEvents < MaxGateEvents /\ gateEvents' = gateEvents + 1)
  <2>1. /\ page[t].gen < MaxGen
        /\ UNCHANGED <<accessOn, claims, minted, storedToken, storedClaim>>
    BY DEF Gate!Open
  <2>2. gateEvents' = gateEvents \/ (gateEvents < MaxGateEvents /\ gateEvents' = gateEvents + 1)
    BY DEF Gate!Open
  <2>3. Gate!Page(t, q)
    BY <1>3, <1>4 DEF Gate!Open
  <2>4. calls' = rest \cup {d}
    BY <1>1 DEF Gate!Open
  <2>5. QED
    BY <2>1, <2>2, <2>3, <2>4
<1> HIDE DEF rest
<1>6. /\ page[t].gen \in 0 .. MaxGen /\ minted \in Nat /\ Len(claims) \in Nat
      /\ gateEvents \in 0 .. MaxGateEvents /\ MaxGen \in Nat /\ MaxGateEvents \in Nat
      /\ storedToken \in 0 .. minted /\ storedClaim \in 0 .. Len(claims)
  BY PageFacts, HostingAssumption
<1>7. gen \in 0 .. MaxGen /\ gateEvents' \in 0 .. MaxGateEvents
  <2>1. gen \in 0 .. MaxGen
    BY ONLY <1>3, <1>5, <1>6
  <2>2. gateEvents' \in 0 .. MaxGateEvents
    BY ONLY <1>5, <1>6
  <2>3. QED
    BY ONLY <2>1, <2>2
<1>8. /\ q \in PageRow /\ q.status = "loading" /\ q.held = 0 /\ q.claim = 0
      /\ ~q.redeeming /\ ~q.redeemed
  <2>1. PICK z : z = Gate!ClosedPage
    OBVIOUS
  <2>2. /\ z \in PageRow /\ z.held = 0 /\ z.claim = 0 /\ ~z.redeeming /\ ~z.redeemed
    BY <1>6, <2>1 DEF Gate!ClosedPage, Gate!NoPlayback, PageRow
  <2>3. PICK b : b = [z EXCEPT !.gen = gen]
    OBVIOUS
  <2>4. /\ b \in PageRow /\ b.held = 0 /\ b.claim = 0 /\ ~b.redeeming /\ ~b.redeemed
    BY <1>7, <2>2, <2>3 DEF PageRow
  <2>5. q = [b EXCEPT !.status = "loading"]
    BY <1>4, <2>1, <2>3
  <2>6. QED
    BY <2>4, <2>5 DEF PageRow
<1>9. CallOK(d) /\ Starting(d) /\ d.tab = t /\ d.op = "program" /\ d.why = "load"
  BY <1>1, Asked
<1>10. \A c \in calls : CallOK(c) /\ \A x \in Gate!Unheard(c) : x.tab = NoTab /\ CallOK(x)
  BY UnheardOK DEF GateInv
<1>12. NoTab \notin Tabs
  BY HostingAssumption
<1>13. \A x \in calls' : CallOK(x)
  BY <1>5, <1>9, <1>10, <1>2
<1>14. Gate!InFlight(t)' = {d}
  <2>1. \A x \in rest : x.tab # t
    BY <1>10, <1>2, <1>12
  <2>2. QED
    BY <1>5, <1>9, <2>1 DEF Gate!InFlight
<1>15. ASSUME NEW u \in Tabs \ {t}
       PROVE  Gate!InFlight(u)' = Gate!InFlight(u)
  <2>1. \A x : x.tab = u => (x \in rest <=> x \in calls)
    BY <1>10, <1>2, <1>12, <1>15
  <2>2. QED
    BY <1>5, <1>9, <1>15, <2>1 DEF Gate!InFlight
<1>16. Rules(q, {d})
  BY <1>8, <1>9, OneStarts DEF Busy
<1>17. /\ storedToken' \in 0 .. minted /\ storedClaim' \in 0 .. Len(claims)
       /\ q.held <= minted /\ q.claim <= Len(claims) /\ q.status # "waiting"
  BY <1>5, <1>6, <1>8
<1>18. QED
  BY <1>5, <1>7, <1>8, <1>13, <1>14, <1>15, <1>16, <1>17, PageStep

LEMMA LoadedStep ==
  ASSUME GateInv, NEW c \in calls, Gate!Loaded(c)
  PROVE  GateInv'
<1>1. Gate!Answered(c, "program", "load") /\ gateEvents' = gateEvents
  BY DEF Gate!Loaded
<1>2. /\ c.tab \in Tabs /\ c.op = "program" /\ c.why = "load" /\ c \in Gate!InFlight(c.tab)
  BY <1>1, AnswerFacts
<1>3. PICK t \in Tabs : t = c.tab
  BY <1>2
<1>4. /\ page[t] \in PageRow /\ page[t].held \in 0 .. minted /\ page[t].claim \in 0 .. Len(claims)
      /\ Rules(page[t], Gate!InFlight(t)) /\ minted \in Nat /\ Len(claims) \in Nat
      /\ storedToken \in 0 .. minted /\ storedClaim \in 0 .. Len(claims)
  BY PageFacts
<1>5. Starting(c)
  BY <1>2 DEF Starting
<1>6. /\ Gate!InFlight(t) = {c} /\ Gate!InFlight(t) \ {c} = {} /\ page[t].status \in Busy
      /\ ~page[t].redeeming /\ ~page[t].redeemed
  BY <1>2, <1>3, <1>4, <1>5, Alone
<1>7. CASE c.ans = "error"
  <2>1. PICK q : q = Gate!Status(page[t], "failed")
    OBVIOUS
  <2>2. /\ Gate!Page(t, q) /\ calls' = calls \ {c}
        /\ UNCHANGED <<accessOn, claims, minted, storedToken, storedClaim>>
    BY <1>3, <1>7, <2>1 DEF Gate!Loaded
  <2>3. /\ q \in PageRow /\ q.status = "failed" /\ q.claim = 0 /\ ~q.checking /\ q.gen = page[t].gen
        /\ q.held = page[t].held /\ q.redeeming = page[t].redeeming
        /\ q.redeemed = page[t].redeemed
    BY <1>4, <2>1, Shows
  <2>4. Rules(q, {})
    BY <1>6, <2>3, NoRequests DEF Busy, In
  <2>5. /\ q.held <= minted /\ q.claim <= Len(claims)
        /\ storedToken' \in 0 .. minted /\ storedClaim' \in 0 .. Len(claims)
    BY <1>4, <2>2, <2>3
  <2>6. QED
    BY <1>1, <1>3, <1>6, <2>2, <2>3, <2>4, <2>5, PageDrops
<1>8. CASE c.ans # "error"
  <2>1. PICK p : p = [page[t] EXCEPT !.meta = c.ans = "on", !.status = "checking"]
    OBVIOUS
  <2>2. PICK rest : rest = calls \ {c}
    OBVIOUS
  <2>3. Gate!InitialAccess(t, p, rest)
    BY <1>3, <1>8, <2>1, <2>2 DEF Gate!Loaded
  <2>4. /\ p \in PageRow /\ p.status = "checking" /\ p.held = page[t].held /\ p.claim = page[t].claim
        /\ ~p.redeeming /\ ~p.redeemed
    <3>1. PICK b : b = [page[t] EXCEPT !.meta = c.ans = "on"]
      OBVIOUS
    <3>2. /\ b \in PageRow /\ b.held = page[t].held /\ b.claim = page[t].claim
          /\ ~b.redeeming /\ ~b.redeemed
      <4>1. PICK on \in BOOLEAN : on <=> c.ans = "on"
        OBVIOUS
      <4>2. b = [page[t] EXCEPT !.meta = on]
        BY <3>1, <4>1
      <4>3. QED
        BY <1>4, <1>6, <4>2 DEF PageRow
    <3>3. p = [b EXCEPT !.status = "checking"]
      BY <2>1, <3>1
    <3>4. QED
      BY <3>2, <3>3 DEF PageRow
  <2>5. \A x \in rest : CallOK(x) /\ (x.tab = t => x.op = "join")
    BY <1>6, <2>2 DEF GateInv, Gate!InFlight
  <2>6. \A u \in Tabs \ {t} : {x \in rest : x.tab = u /\ x.op # "join"} = Gate!InFlight(u)
    BY <1>3, <2>2 DEF Gate!InFlight
  <2>7. p.held <= minted /\ p.claim <= Len(claims) /\ page[t].status # "waiting"
    BY <1>4, <1>6, <2>4 DEF Busy
  <2>8. QED
    BY <1>1, <2>3, <2>4, <2>5, <2>6, <2>7, StartsGate
<1>9. QED
  BY <1>7, <1>8

LEMMA TokenCheckedStep ==
  ASSUME GateInv, NEW c \in calls, Gate!TokenChecked(c)
  PROVE  GateInv'
<1>1. /\ Gate!Answered(c, "verify", "init") /\ UNCHANGED <<accessOn, claims, minted, gateEvents>>
  BY DEF Gate!TokenChecked
<1>2. /\ c.tab \in Tabs /\ c.op = "verify" /\ c.why = "init" /\ c \in Gate!InFlight(c.tab)
      /\ c.token \in 0 .. minted /\ CallOK(c)
  BY <1>1, AnswerFacts
<1>3. PICK t \in Tabs : t = c.tab
  BY <1>2
<1>4. /\ page[t] \in PageRow /\ page[t].held \in 0 .. minted /\ page[t].claim \in 0 .. Len(claims)
      /\ Rules(page[t], Gate!InFlight(t)) /\ minted \in Nat /\ Len(claims) \in Nat
      /\ storedToken \in 0 .. minted /\ storedClaim \in 0 .. Len(claims)
  BY PageFacts
<1>5. Starting(c)
  BY <1>2 DEF Starting
<1>6. /\ Gate!InFlight(t) \ {c} = {} /\ page[t].status \in Busy
      /\ ~page[t].redeeming /\ ~page[t].redeemed
  BY <1>2, <1>3, <1>4, <1>5, Alone
<1>7. c.token # 0 /\ c.token \in Nat
  BY <1>2, <1>4 DEF CallOK
<1>8. CASE c.ans \in {"approved", "error"}
  <2>1. PICK b : b = Gate!Status(page[t], "approved")
    OBVIOUS
  <2>2. PICK q : q = [b EXCEPT !.held = c.token]
    OBVIOUS
  <2>3. /\ Gate!Page(t, q) /\ calls' = calls \ {c} /\ UNCHANGED <<storedToken, storedClaim>>
    BY <1>3, <1>8, <2>1, <2>2 DEF Gate!TokenChecked, Gate!storage
  <2>4. /\ b \in PageRow /\ b.status = "approved" /\ b.claim = 0 /\ ~b.checking /\ b.gen = page[t].gen
        /\ b.redeeming = page[t].redeeming /\ b.redeemed = page[t].redeemed
    BY <1>4, <2>1, Shows
  <2>5. /\ q \in PageRow /\ q.status = "approved" /\ q.claim = 0 /\ q.gen = page[t].gen
        /\ q.held = c.token /\ ~q.redeeming /\ ~q.redeemed
    BY <1>6, <1>7, <2>2, <2>4 DEF PageRow
  <2>6. Rules(q, {})
    BY <1>7, <2>5, NoRequests DEF Busy, In
  <2>7. /\ q.held <= minted /\ q.claim <= Len(claims)
        /\ storedToken' \in 0 .. minted /\ storedClaim' \in 0 .. Len(claims)
    BY <1>2, <1>4, <2>3, <2>5
  <2>8. QED
    BY <1>1, <1>3, <1>6, <2>3, <2>5, <2>6, <2>7, PageDrops
<1>9. CASE c.ans \notin {"approved", "error"}
  <2>1. PICK q : q = [page[t] EXCEPT !.held = 0]
    OBVIOUS
  <2>2. PICK d : d = Gate!ClaimCall(t, "init")
    OBVIOUS
  <2>3. /\ Gate!Page(t, q) /\ Gate!Replace(c, d) /\ storedToken' = 0 /\ storedClaim' = 0
    BY <1>3, <1>9, <2>1, <2>2 DEF Gate!TokenChecked
  <2>4. /\ q \in PageRow /\ q.status = page[t].status /\ q.claim = page[t].claim
        /\ q.gen = page[t].gen /\ q.held = 0 /\ ~q.redeeming /\ ~q.redeemed
    BY <1>4, <1>6, <2>1 DEF PageRow
  <2>5. CallOK(d) /\ d.tab = t /\ d.op = "claim" /\ d.why = "init"
    BY <2>2, Asked
  <2>6. Starting(d)
    BY <2>5 DEF Starting
  <2>7. Rules(q, {d})
    BY <1>6, <2>4, <2>5, <2>6, OneStarts
  <2>8. /\ q.held <= minted /\ q.claim <= Len(claims)
        /\ storedToken' \in 0 .. minted /\ storedClaim' \in 0 .. Len(claims)
    BY <1>4, <2>3, <2>4
  <2>9. Rules(q, (Gate!InFlight(t) \ {c}) \cup {d})
    BY <1>6, <2>7
  <2>10. QED
    BY <1>1, <1>3, <2>3, <2>4, <2>5, <2>8, <2>9, PageReplaces
<1>10. QED
  BY <1>8, <1>9

LEMMA ClaimMadeStep ==
  ASSUME GateInv, NEW c \in calls, Gate!ClaimMade(c)
  PROVE  GateInv'
<1>1. /\ Gate!Answered(c, "claim", c.why) /\ calls' = calls \ {c}
      /\ UNCHANGED <<accessOn, claims, minted, storedToken, gateEvents>>
  BY DEF Gate!ClaimMade
<1>2. /\ c.tab \in Tabs /\ c.op = "claim" /\ c \in Gate!InFlight(c.tab) /\ c.phase = "done"
      /\ c.claim \in 0 .. Len(claims) /\ CallOK(c)
  BY <1>1, AnswerFacts
<1>3. PICK t \in Tabs : t = c.tab
  BY <1>2
<1>4. /\ page[t] \in PageRow /\ page[t].held \in 0 .. minted /\ page[t].claim \in 0 .. Len(claims)
      /\ Rules(page[t], Gate!InFlight(t)) /\ minted \in Nat /\ Len(claims) \in Nat
      /\ storedToken \in 0 .. minted /\ storedClaim \in 0 .. Len(claims)
  BY PageFacts
<1>5. PICK p : p = [page[t] EXCEPT !.redeeming = IF c.why = "redeem" THEN FALSE ELSE @]
  OBVIOUS
<1>6. /\ p \in PageRow /\ p.held = page[t].held /\ p.gen = page[t].gen /\ ~p.redeeming /\ ~p.redeemed
      /\ \A x \in Gate!InFlight(t) \ {c} : ~Starting(x) /\ ~Redeems(x)
  <2>1. CASE c.why = "redeem"
    <3>1. p = [page[t] EXCEPT !.redeeming = FALSE]
      BY <1>5, <2>1
    <3>2. Redeems(c)
      BY <1>2, <2>1 DEF Redeems
    <3>3. \A x \in Gate!InFlight(t) \ {c} : ~Starting(x) /\ ~Redeems(x)
      BY <1>2, <1>3, <1>4, <3>2, NoneStarts DEF Rules
    <3>4. ~page[t].redeemed
      BY <1>2, <1>3, <1>4, <3>2 DEF Rules
    <3>5. QED
      BY <1>4, <3>1, <3>3, <3>4 DEF PageRow
  <2>2. CASE c.why # "redeem"
    <3>1. Starting(c)
      BY <1>2, <2>2 DEF Starting
    <3>2. Gate!InFlight(t) \ {c} = {} /\ ~page[t].redeeming /\ ~page[t].redeemed
      BY <1>2, <1>3, <1>4, <3>1, Alone
    <3>3. p = [page[t] EXCEPT !.redeeming = @]
      BY <1>5, <2>2
    <3>4. p = page[t]
      BY <1>4, <3>3 DEF PageRow
    <3>5. QED
      BY <1>4, <3>2, <3>4
  <2>3. QED
    BY <2>1, <2>2
<1>7. ASSUME NEW q \in PageRow, Gate!Page(t, q), q.status \in {"error", "waiting"},
             q.gen = p.gen, q.held = p.held, q.redeeming = p.redeeming, q.redeemed = p.redeemed,
             q.claim \in 0 .. Len(claims), ~q.checking, q.status = "waiting" => q.claim # 0,
             storedClaim' \in 0 .. Len(claims)
      PROVE  GateInv'
  <2>1. Rules(q, Gate!InFlight(t) \ {c})
    BY <1>6, <1>7 DEF Rules, Busy, In
  <2>2. q.held <= minted /\ q.claim <= Len(claims) /\ storedToken' \in 0 .. minted
    BY <1>1, <1>4, <1>6, <1>7
  <2>3. QED
    BY <1>1, <1>3, <1>6, <1>7, <2>1, <2>2, PageDrops
<1>8. CASE c.ans = "error"
  <2>1. PICK q : q = Gate!ServiceError(p, 0)
    OBVIOUS
  <2>2. Gate!Page(t, q) /\ storedClaim' = storedClaim
    BY <1>3, <1>5, <1>8, <2>1 DEF Gate!ClaimMade
  <2>3. /\ q \in PageRow /\ q.status = "error" /\ q.claim = 0 /\ ~q.checking
        /\ q.gen = p.gen /\ q.held = p.held /\ q.redeeming = p.redeeming
        /\ q.redeemed = p.redeemed
    BY <1>6, <2>1, Fails
  <2>4. QED
    BY <1>4, <1>7, <2>2, <2>3
<1>9. CASE c.ans # "error"
  <2>1. PICK q : q = Gate!Waiting(p, c.claim, FALSE)
    OBVIOUS
  <2>2. Gate!Page(t, q) /\ storedClaim' = c.claim
    BY <1>3, <1>5, <1>9, <2>1 DEF Gate!ClaimMade
  <2>3. c.claim \in Nat /\ c.claim # 0
    BY <1>2, <1>9, <1>4 DEF CallOK
  <2>4. q = Shown(p, c.claim)
    BY <2>1 DEF Shown
  <2>5. /\ q \in PageRow /\ q.status = "waiting" /\ q.claim = c.claim /\ ~q.checking
        /\ q.gen = p.gen /\ q.held = p.held /\ q.redeeming = p.redeeming
        /\ q.redeemed = p.redeemed
    BY <1>6, <2>3, <2>4, Waits
  <2>6. QED
    BY <1>2, <1>7, <2>2, <2>3, <2>5
<1>10. QED
  BY <1>8, <1>9

LEMMA PollClaimStep ==
  ASSUME GateInv, NEW t \in Tabs, Gate!PollClaim(t)
  PROVE  GateInv'
<1>1. /\ page[t] \in PageRow /\ page[t].held \in 0 .. minted /\ page[t].claim \in 0 .. Len(claims)
      /\ Rules(page[t], Gate!InFlight(t)) /\ minted \in Nat /\ Len(claims) \in Nat
      /\ page[t].status = "waiting" => page[t].poll = <<page[t].gen, page[t].claim>>
      /\ gateEvents \in 0 .. MaxGateEvents
  BY PageFacts
<1>2. /\ page[t].status = "waiting" /\ ~page[t].redeemed /\ ~page[t].redeeming
      /\ gateEvents' = gateEvents
      /\ UNCHANGED <<accessOn, claims, minted, storedToken, storedClaim>>
  BY DEF Gate!PollClaim, Gate!Redemption
<1>3. page[t].poll[2] = page[t].claim /\ page[t].claim # 0
  BY <1>1, <1>2 DEF Rules
<1>4. PICK q : q = [page[t] EXCEPT !.redeeming = TRUE]
  OBVIOUS
<1>5. PICK d : d = Gate!RedeemCall(t, page[t].claim, FALSE)
  OBVIOUS
<1>6. Gate!Page(t, q) /\ calls' = calls \cup {d}
  BY <1>3, <1>4, <1>5 DEF Gate!PollClaim
<1>7. page[t].claim \in 1 .. Len(claims)
  BY <1>1, <1>3
<1>8. CallOK(d) /\ Redeems(d) /\ d.tab = t /\ d.op = "redeem"
  <2>1. PICK show \in BOOLEAN : show = FALSE
    OBVIOUS
  <2>2. d = Gate!RedeemCall(t, page[t].claim, show)
    BY <1>5, <2>1
  <2>3. QED
    BY <1>7, <2>2, Asked
<1>9. /\ q \in PageRow /\ q.status = "waiting" /\ q.claim = page[t].claim /\ q.gen = page[t].gen
      /\ q.held = page[t].held /\ q.redeeming /\ ~q.redeemed
  BY <1>1, <1>2, <1>4 DEF PageRow
<1>10. ~Starting(d)
  BY <1>8 DEF Starting
<1>11. Rules(q, Gate!InFlight(t) \cup {d})
  <2>1. \A x \in Gate!InFlight(t) : ~Redeems(x) /\ ~Starting(x)
    BY <1>1, <1>2 DEF Rules, Busy
  <2>2. QED
    BY <1>3, <1>8, <1>9, <1>10, <2>1 DEF Rules, Busy, In
<1>12. q.held <= minted /\ q.claim <= Len(claims) /\ gateEvents' \in 0 .. MaxGateEvents
  BY <1>1, <1>2, <1>9
<1>13. QED
  BY <1>2, <1>6, <1>8, <1>9, <1>11, <1>12, PageSends

LEMMA CheckStep ==
  ASSUME GateInv, NEW t \in Tabs, Gate!Check(t)
  PROVE  GateInv'
<1>1. /\ page[t] \in PageRow /\ page[t].held \in 0 .. minted /\ page[t].claim \in 0 .. Len(claims)
      /\ Rules(page[t], Gate!InFlight(t)) /\ minted \in Nat /\ Len(claims) \in Nat
      /\ gateEvents \in 0 .. MaxGateEvents /\ MaxGateEvents \in Nat
  BY PageFacts, HostingAssumption
<1>2. /\ page[t].status = "waiting" /\ gateEvents < MaxGateEvents /\ gateEvents' = gateEvents + 1
      /\ UNCHANGED <<accessOn, claims, minted, storedToken, storedClaim>>
  BY DEF Gate!Check
<1>3. PICK q : q = [page[t] EXCEPT !.checking = TRUE]
  OBVIOUS
<1>4. PICK d : d = Gate!ProgramCall(t, "check", page[t].claim)
  OBVIOUS
<1>5. Gate!Page(t, q) /\ calls' = calls \cup {d}
  BY <1>3, <1>4 DEF Gate!Check
<1>6. page[t].claim \in 1 .. Len(claims)
  BY <1>1, <1>2 DEF Rules
<1>7. CallOK(d) /\ Checks(d) /\ d.tab = t /\ d.op = "program"
  BY <1>4, <1>6, Asked
<1>8. /\ q \in PageRow /\ q.status = "waiting" /\ q.claim = page[t].claim /\ q.gen = page[t].gen
      /\ q.held = page[t].held /\ q.redeeming = page[t].redeeming /\ q.redeemed = page[t].redeemed
  BY <1>1, <1>2, <1>3 DEF PageRow
<1>9. ~Starting(d) /\ ~Redeems(d)
  BY <1>7 DEF Starting, Redeems, Checks
<1>10. Rules(q, Gate!InFlight(t) \cup {d})
  <2>1. \A x \in Gate!InFlight(t) : ~Starting(x)
    BY <1>1, <1>2 DEF Rules, Busy
  <2>2. QED
    BY <1>1, <1>2, <1>7, <1>8, <1>9, <2>1 DEF Rules, Busy, In
<1>11. q.held <= minted /\ q.claim <= Len(claims) /\ gateEvents' \in 0 .. MaxGateEvents
  BY <1>1, <1>2, <1>8
<1>12. QED
  BY <1>2, <1>5, <1>7, <1>8, <1>10, <1>11, PageSends

LEMMA ProgramCheckedStep ==
  ASSUME GateInv, NEW c \in calls, Gate!ProgramChecked(c)
  PROVE  GateInv'
<1>1. /\ Gate!Answered(c, "program", "check")
      /\ UNCHANGED <<accessOn, claims, minted, storedToken, storedClaim, gateEvents>>
  BY DEF Gate!ProgramChecked
<1>2. /\ c.tab \in Tabs /\ c.op = "program" /\ c.why = "check" /\ c \in Gate!InFlight(c.tab)
      /\ c.claim \in 0 .. Len(claims) /\ CallOK(c)
  BY <1>1, AnswerFacts
<1>3. PICK t \in Tabs : t = c.tab
  BY <1>2
<1>4. /\ page[t] \in PageRow /\ page[t].held \in 0 .. minted /\ page[t].claim \in 0 .. Len(claims)
      /\ Rules(page[t], Gate!InFlight(t)) /\ minted \in Nat /\ Len(claims) \in Nat
      /\ storedToken' \in 0 .. minted /\ storedClaim' \in 0 .. Len(claims)
  BY <1>1, PageFacts
<1>5. Checks(c) /\ ~Redeems(c) /\ c.ans \in {"on", "off", "error"}
  BY <1>1, <1>2 DEF Checks, Redeems, CallOK, Gate!Answered
<1>6. (\A x \in Gate!InFlight(t) : ~Starting(x)) /\ page[t].status \notin Busy
  BY <1>2, <1>3, <1>4, <1>5, NoneStarts
<1>7. c.claim \in 1 .. Len(claims) /\ c.claim \in Nat
  BY <1>2, <1>4, <1>5 DEF CallOK
<1>8. PICK p : p = [page[t] EXCEPT !.meta = c.ans = "on"]
  OBVIOUS
<1>9. /\ p \in PageRow /\ p.status = page[t].status /\ p.claim = page[t].claim /\ p.gen = page[t].gen
      /\ p.held = page[t].held /\ p.redeeming = page[t].redeeming /\ p.redeemed = page[t].redeemed
      /\ p.checking = page[t].checking
  <2>1. PICK on \in BOOLEAN : on <=> c.ans = "on"
    OBVIOUS
  <2>2. p = [page[t] EXCEPT !.meta = on]
    BY <1>8, <2>1
  <2>3. QED
    BY <1>4, <2>2 DEF PageRow
<1>10. CASE c.ans = "error"
  <2>1. PICK q : q = Gate!ServiceError(page[t], c.claim)
    OBVIOUS
  <2>2. Gate!Page(t, q) /\ calls' = calls \ {c}
    BY <1>3, <1>10, <2>1 DEF Gate!ProgramChecked
  <2>3. /\ q \in PageRow /\ q.status = "error" /\ q.claim = c.claim /\ ~q.checking
        /\ q.gen = page[t].gen /\ q.held = page[t].held /\ q.redeeming = page[t].redeeming
        /\ q.redeemed = page[t].redeemed
    <3>1. PICK z \in PageRow : z = page[t]
      BY <1>4
    <3>2. PICK k \in Nat : k = c.claim
      BY <1>7
    <3>3. q = Gate!ServiceError(z, k)
      BY <2>1, <3>1, <3>2
    <3>4. /\ q \in PageRow /\ q.status = "error" /\ q.claim = k /\ ~q.checking
          /\ q.gen = z.gen /\ q.held = z.held /\ q.redeeming = z.redeeming
          /\ q.redeemed = z.redeemed
      BY <3>3, Fails
    <3>5. QED
      BY <3>1, <3>2, <3>4
  <2>4. Rules(q, Gate!InFlight(t) \ {c})
    BY <1>4, <1>5, <1>6, <2>3 DEF Rules, Busy, In
  <2>5. q.held <= minted /\ q.claim <= Len(claims)
    BY <1>2, <1>4, <2>3
  <2>6. QED
    BY <1>1, <1>3, <1>4, <2>2, <2>3, <2>4, <2>5, PageDrops
<1>11. CASE c.ans = "off"
  <2>1. PICK b : b = Gate!Status(p, "disabled")
    OBVIOUS
  <2>2. PICK q : q = [b EXCEPT !.held = 0]
    OBVIOUS
  <2>3. Gate!Page(t, q) /\ calls' = calls \ {c}
    BY <1>3, <1>8, <1>11, <2>1, <2>2 DEF Gate!ProgramChecked
  <2>4. /\ b \in PageRow /\ b.status = "disabled" /\ b.claim = 0 /\ ~b.checking /\ b.gen = p.gen
        /\ b.redeeming = p.redeeming /\ b.redeemed = p.redeemed
    BY <1>9, <2>1, Shows
  <2>5. /\ q \in PageRow /\ q.status = "disabled" /\ q.claim = 0 /\ q.gen = p.gen /\ q.held = 0
        /\ q.redeeming = p.redeeming /\ q.redeemed = p.redeemed
    BY <2>2, <2>4 DEF PageRow
  <2>6. Rules(q, Gate!InFlight(t) \ {c})
    BY <1>4, <1>5, <1>6, <1>9, <2>5 DEF Rules, Busy, In
  <2>7. q.held <= minted /\ q.claim <= Len(claims)
    BY <1>4, <2>5
  <2>8. QED
    BY <1>1, <1>3, <1>4, <1>9, <2>3, <2>5, <2>6, <2>7, PageDrops
<1>12. CASE c.ans = "on" /\ Gate!Redemption(p)
  <2>1. PICK q : q = [p EXCEPT !.redeeming = TRUE]
    OBVIOUS
  <2>2. PICK d : d = Gate!RedeemCall(t, c.claim, TRUE)
    OBVIOUS
  <2>3. Gate!Page(t, q) /\ Gate!Replace(c, d)
    BY <1>3, <1>8, <1>12, <2>1, <2>2 DEF Gate!ProgramChecked
  <2>4. /\ q \in PageRow /\ q.status = p.status /\ q.claim = p.claim /\ q.gen = p.gen
        /\ q.held = p.held /\ q.redeeming /\ q.redeemed = p.redeemed /\ q.checking = p.checking
    BY <1>9, <2>1 DEF PageRow
  <2>5. ~page[t].redeemed /\ ~page[t].redeeming
    BY <1>9, <1>12 DEF Gate!Redemption
  <2>6. CallOK(d) /\ Redeems(d) /\ d.tab = t /\ d.op = "redeem"
    <3>1. PICK show \in BOOLEAN : show = TRUE
      OBVIOUS
    <3>2. d = Gate!RedeemCall(t, c.claim, show)
      BY <2>2, <3>1
    <3>3. QED
      BY <1>7, <3>2, Asked
  <2>7. ~Starting(d)
    BY <2>6 DEF Starting
  <2>8. Rules(q, (Gate!InFlight(t) \ {c}) \cup {d})
    <3>1. \A x \in Gate!InFlight(t) : ~Redeems(x)
      BY <1>4, <2>5 DEF Rules
    <3>2. q.status \notin Busy \cup In
      BY <1>2, <1>3, <1>4, <1>5, <1>6, <1>9, <2>4, <2>5 DEF Rules
    <3>3. q.status = "waiting" => q.claim # 0
      BY <1>4, <1>9, <2>4 DEF Rules
    <3>4. q.status = "disabled" => q.held = 0
      BY <1>4, <1>9, <2>4 DEF Rules
    <3>5. ~q.redeemed
      BY <1>9, <2>4, <2>5
    <3>6. QED
      BY <1>6, <2>4, <2>6, <2>7, <3>1, <3>2, <3>3, <3>4, <3>5 DEF Rules
  <2>9. q.held <= minted /\ q.claim <= Len(claims)
    BY <1>4, <1>9, <2>4
  <2>10. QED
    BY <1>1, <1>3, <1>4, <1>9, <2>3, <2>4, <2>6, <2>8, <2>9, PageReplaces
<1>13. CASE c.ans \notin {"error", "off"} /\ ~(c.ans = "on" /\ Gate!Redemption(p))
  <2>1. Gate!Page(t, p) /\ calls' = calls \ {c}
    BY <1>3, <1>8, <1>13 DEF Gate!ProgramChecked
  <2>2. p.held <= minted /\ p.claim <= Len(claims)
    BY <1>4, <1>9
  <2>3. Rules(p, Gate!InFlight(t) \ {c})
    BY <1>4, <1>5, <1>6, <1>9, <1>13 DEF Rules, Busy, In, Gate!Redemption
  <2>4. QED
    BY <1>1, <1>3, <1>4, <1>9, <2>1, <2>2, <2>3, PageDrops
<1>14. QED
  BY <1>10, <1>11, <1>12, <1>13

LEMMA RedeemedStep ==
  ASSUME GateInv, NEW c \in calls, Gate!Redeemed(c)
  PROVE  GateInv'
<1>1. /\ Gate!Answered(c, "redeem", "redeem")
      /\ UNCHANGED <<accessOn, claims, minted, gateEvents>>
  BY DEF Gate!Redeemed
<1>2. /\ c.tab \in Tabs /\ c.op = "redeem" /\ c.why = "redeem" /\ c \in Gate!InFlight(c.tab)
      /\ c.claim \in 0 .. Len(claims) /\ c.token \in 0 .. minted /\ c.phase = "done" /\ CallOK(c)
  BY <1>1, AnswerFacts
<1>3. PICK t \in Tabs : t = c.tab
  BY <1>2
<1>4. /\ page[t] \in PageRow /\ page[t].held \in 0 .. minted /\ page[t].claim \in 0 .. Len(claims)
      /\ Rules(page[t], Gate!InFlight(t)) /\ minted \in Nat /\ Len(claims) \in Nat
      /\ storedToken \in 0 .. minted /\ storedClaim \in 0 .. Len(claims)
  BY <1>1, PageFacts
<1>5. Redeems(c)
  BY <1>2 DEF Redeems
<1>6. /\ \A x \in Gate!InFlight(t) : ~Starting(x)
      /\ \A x \in Gate!InFlight(t) \ {c} : ~Redeems(x)
      /\ page[t].status \notin Busy \cup In /\ ~page[t].redeemed /\ page[t].redeeming
  <2>1. (\A x \in Gate!InFlight(t) : ~Starting(x)) /\ page[t].status \notin Busy
    BY <1>2, <1>3, <1>4, <1>5, NoneStarts
  <2>2. page[t].redeeming
    BY <1>2, <1>3, <1>4, <1>5 DEF Rules
  <2>3. page[t].status \notin In /\ ~page[t].redeemed
    BY <1>4, <2>2 DEF Rules
  <2>4. \A x \in Gate!InFlight(t) \ {c} : ~Redeems(x)
    BY <1>2, <1>3, <1>4, <1>5 DEF Rules
  <2>5. QED
    BY <2>1, <2>2, <2>3, <2>4
<1>7. c.claim \in 1 .. Len(claims) /\ c.claim \in Nat /\ c.token \in Nat
      /\ (c.ans = "approved" => c.token # 0)
  BY <1>2, <1>4 DEF CallOK
<1>8. PICK k \in Nat : k = c.claim
  BY <1>7
<1>9. PICK done : done = Gate!Settled(page[t])
  OBVIOUS
<1>10. /\ done \in PageRow /\ done.status = page[t].status /\ done.claim = page[t].claim
       /\ done.gen = page[t].gen /\ done.held = page[t].held /\ ~done.redeeming /\ ~done.redeemed
  BY <1>4, <1>6, <1>9 DEF Gate!Settled, PageRow
<1>11. CASE c.ans = "approved"
  <2>1. PICK b : b = Gate!Status(done, "entering")
    OBVIOUS
  <2>2. PICK h : h = [b EXCEPT !.held = c.token]
    OBVIOUS
  <2>3. PICK q : q = [h EXCEPT !.redeemed = TRUE]
    OBVIOUS
  <2>4. /\ Gate!Page(t, q) /\ calls' = calls \ {c} /\ storedToken' = c.token
        /\ storedClaim' = storedClaim
    BY <1>3, <1>9, <1>11, <2>1, <2>2, <2>3 DEF Gate!Redeemed
  <2>5. /\ b \in PageRow /\ b.status = "entering" /\ b.claim = 0 /\ b.gen = done.gen
        /\ b.redeeming = done.redeeming
    BY <1>10, <2>1, Shows
  <2>6. /\ h \in PageRow /\ h.status = "entering" /\ h.claim = 0 /\ h.gen = done.gen
        /\ h.held = c.token /\ ~h.redeeming
    BY <1>7, <1>10, <2>2, <2>5 DEF PageRow
  <2>7. /\ q \in PageRow /\ q.status = "entering" /\ q.claim = 0 /\ q.gen = done.gen
        /\ q.held = c.token /\ ~q.redeeming /\ q.redeemed
    BY <2>3, <2>6 DEF PageRow
  <2>8. Rules(q, Gate!InFlight(t) \ {c})
    BY <1>6, <1>7, <1>11, <2>7 DEF Rules, Busy, In
  <2>9. /\ q.held <= minted /\ q.claim <= Len(claims)
        /\ storedToken' \in 0 .. minted /\ storedClaim' \in 0 .. Len(claims)
    BY <1>2, <1>4, <2>4, <2>7
  <2>10. QED
    BY <1>1, <1>3, <1>10, <2>4, <2>7, <2>8, <2>9, PageDrops
<1>12. CASE c.ans \in {"revoked", "unknown"}
  <2>1. PICK q : q = [page[t] EXCEPT !.held = 0]
    OBVIOUS
  <2>2. PICK d : d = Gate!ClaimCall(t, "redeem")
    OBVIOUS
  <2>3. Gate!Page(t, q) /\ Gate!Replace(c, d) /\ storedToken' = 0 /\ storedClaim' = 0
    BY <1>3, <1>12, <2>1, <2>2 DEF Gate!Redeemed
  <2>4. /\ q \in PageRow /\ q.status = page[t].status /\ q.claim = page[t].claim
        /\ q.gen = page[t].gen /\ q.held = 0 /\ q.redeeming /\ ~q.redeemed
    BY <1>4, <1>6, <2>1 DEF PageRow
  <2>5. CallOK(d) /\ d.tab = t /\ d.op = "claim" /\ d.why = "redeem"
    BY <2>2, Asked
  <2>6. Redeems(d) /\ ~Starting(d)
    BY <2>5 DEF Redeems, Starting
  <2>7. q.status = "waiting" => q.claim # 0
    BY <1>4, <2>4 DEF Rules
  <2>8. Rules(q, (Gate!InFlight(t) \ {c}) \cup {d})
    BY <1>6, <2>4, <2>6, <2>7 DEF Rules
  <2>9. /\ q.held <= minted /\ q.claim <= Len(claims)
        /\ storedToken' \in 0 .. minted /\ storedClaim' \in 0 .. Len(claims)
    BY <1>4, <2>3, <2>4
  <2>10. QED
    BY <1>1, <1>3, <2>3, <2>4, <2>5, <2>8, <2>9, PageReplaces
<1>13. ASSUME NEW q \in PageRow, Gate!Page(t, q), calls' = calls \ {c},
              storedToken' = storedToken, storedClaim' = storedClaim,
              q.status \notin Busy \cup In,
              q.gen = done.gen, q.held = done.held, ~q.redeeming, ~q.redeemed,
              q.claim \in 0 .. Len(claims),
              q.status = "waiting" => q.claim # 0 /\ ~q.checking,
              q.status = "disabled" => page[t].status = "disabled"
       PROVE  GateInv'
  <2>1. q.status = "disabled" => q.held = 0
    BY <1>4, <1>10, <1>13 DEF Rules
  <2>2. Rules(q, Gate!InFlight(t) \ {c})
    BY <1>6, <1>13, <2>1 DEF Rules
  <2>3. /\ q.held <= minted /\ q.claim <= Len(claims)
        /\ storedToken' \in 0 .. minted /\ storedClaim' \in 0 .. Len(claims)
    BY <1>4, <1>10, <1>13
  <2>4. QED
    BY <1>1, <1>3, <1>10, <1>13, <2>2, <2>3, PageDrops
<1>14. CASE c.ans \notin {"approved", "revoked", "unknown"} /\ c.ans = "error" /\ c.show
  <2>1. PICK q : q = Gate!ServiceError(done, k)
    OBVIOUS
  <2>2. /\ Gate!Page(t, q) /\ calls' = calls \ {c} /\ UNCHANGED <<storedToken, storedClaim>>
    BY <1>3, <1>8, <1>9, <1>14, <2>1 DEF Gate!Redeemed, Gate!storage
  <2>3. /\ q \in PageRow /\ q.status = "error" /\ q.claim = k /\ ~q.checking
        /\ q.gen = done.gen /\ q.held = done.held /\ q.redeeming = done.redeeming
        /\ q.redeemed = done.redeemed
    BY <1>10, <2>1, Fails
  <2>4. q.status \notin Busy \cup In /\ q.claim \in 0 .. Len(claims)
    BY <1>2, <1>8, <2>3 DEF Busy, In
  <2>5. QED
    BY <1>10, <1>13, <2>2, <2>3, <2>4
<1>15. CASE c.ans \notin {"approved", "revoked", "unknown"} /\ ~(c.ans = "error" /\ c.show)
  <2>1. PICK q : q = Gate!WaitingCheck(done, k, FALSE)
    OBVIOUS
  <2>2. /\ Gate!Page(t, q) /\ calls' = calls \ {c} /\ UNCHANGED <<storedToken, storedClaim>>
    BY <1>3, <1>8, <1>9, <1>15, <2>1 DEF Gate!Redeemed, Gate!storage
  <2>3. CASE done.status \in {"waiting", "error", "retrying"}
    <3>1. q = Shown(done, k)
      BY <2>1, <2>3 DEF Gate!WaitingCheck, Shown
    <3>2. /\ q \in PageRow /\ q.status = "waiting" /\ q.claim = k /\ ~q.checking
          /\ q.gen = done.gen /\ q.held = done.held /\ q.redeeming = done.redeeming
          /\ q.redeemed = done.redeemed
      BY <1>10, <3>1, Waits
    <3>3. q.status \notin Busy \cup In /\ q.claim \in 0 .. Len(claims) /\ q.claim # 0
      BY <1>2, <1>7, <1>8, <3>2 DEF Busy, In
    <3>4. QED
      BY <1>10, <1>13, <2>2, <3>2, <3>3
  <2>4. CASE done.status \notin {"waiting", "error", "retrying"}
    <3>1. q = done
      BY <2>1, <2>4 DEF Gate!WaitingCheck
    <3>2. q.status \notin Busy \cup In /\ q.claim \in 0 .. Len(claims) /\ q.status # "waiting"
      BY <1>4, <1>6, <1>10, <2>4, <3>1
    <3>3. QED
      BY <1>10, <1>13, <2>2, <3>1, <3>2
  <2>5. QED
    BY <2>3, <2>4
<1>16. QED
  BY <1>11, <1>12, <1>14, <1>15

(* handleAccessRetry, in which the page goes on to another generation. *)
LEMMA Generation ==
  ASSUME GateInv, NEW t \in Tabs, page[t].gen < MaxGen, NEW p, p = Gate!NextGeneration(page[t])
  PROVE  /\ p \in PageRow /\ p.status = page[t].status /\ p.claim = page[t].claim
         /\ p.held = page[t].held /\ ~p.redeeming /\ ~p.redeemed
<1>1. page[t] \in PageRow /\ page[t].gen \in 0 .. MaxGen /\ MaxGen \in Nat
  BY PageFacts, HostingAssumption
<1>2. page[t].gen + 1 \in 0 .. MaxGen
  BY <1>1
<1>3. PICK z \in PageRow : z = page[t]
  BY <1>1
<1>4. PICK a : a = [z EXCEPT !.gen = z.gen + 1]
  OBVIOUS
<1>5. /\ a \in PageRow /\ a.status = z.status /\ a.claim = z.claim /\ a.held = z.held
  BY <1>2, <1>3, <1>4 DEF PageRow
<1>6. PICK b : b = [a EXCEPT !.redeeming = FALSE]
  OBVIOUS
<1>7. /\ b \in PageRow /\ b.status = z.status /\ b.claim = z.claim /\ b.held = z.held /\ ~b.redeeming
  BY <1>5, <1>6 DEF PageRow
<1>8. p = [b EXCEPT !.redeemed = FALSE]
  BY <1>3, <1>4, <1>6 DEF Gate!NextGeneration
<1>9. /\ p \in PageRow /\ p.status = b.status /\ p.claim = b.claim /\ p.held = b.held
      /\ ~p.redeeming /\ ~p.redeemed
  BY ONLY <1>7, <1>8 DEF PageRow
<1>10. QED
  BY ONLY <1>3, <1>7, <1>9

LEMMA RetryStep ==
  ASSUME GateInv, NEW t \in Tabs, Gate!Retry(t)
  PROVE  GateInv'
<1>1. /\ page[t] \in PageRow /\ page[t].held \in 0 .. minted /\ page[t].claim \in 0 .. Len(claims)
      /\ minted \in Nat /\ Len(claims) \in Nat /\ gateEvents \in 0 .. MaxGateEvents
      /\ storedToken \in 0 .. minted /\ storedClaim \in 0 .. Len(claims)
  BY PageFacts
<1>2. page[t].status = "error" /\ page[t].gen < MaxGen /\ gateEvents' = gateEvents
  BY DEF Gate!Retry
<1>3. PICK p : p = Gate!NextGeneration(page[t])
  OBVIOUS
<1>4. /\ p \in PageRow /\ p.status = page[t].status /\ p.claim = page[t].claim
      /\ p.held = page[t].held /\ ~p.redeeming /\ ~p.redeemed
  BY <1>2, <1>3, Generation
<1>5. PICK rest : rest = Gate!OtherGeneration(t, calls)
  OBVIOUS
<1>6. /\ \A x \in rest : CallOK(x) /\ (x.tab = t => x.op = "join")
      /\ \A u \in Tabs \ {t} : {x \in rest : x.tab = u /\ x.op # "join"} = Gate!InFlight(u)
  BY <1>5, Dropped
<1>7. CASE p.claim # 0
  <2>1. PICK k \in Nat : k = p.claim
    BY <1>1, <1>4
  <2>2. PICK q : q = [Gate!Waiting(p, k, TRUE) EXCEPT !.redeeming = TRUE]
    OBVIOUS
  <2>3. PICK d : d = Gate!RedeemCall(t, k, TRUE)
    OBVIOUS
  <2>4. /\ Gate!Page(t, q) /\ calls' = rest \cup {d}
        /\ UNCHANGED <<accessOn, claims, minted, storedToken, storedClaim>>
    BY <1>3, <1>5, <1>7, <2>1, <2>2, <2>3 DEF Gate!Retry
  <2>5. /\ q \in PageRow /\ q.status = "waiting" /\ q.claim = k /\ q.redeeming
        /\ q.held = p.held /\ q.redeemed = p.redeemed
    <3>1. q = Retried(p, k)
      BY <2>2 DEF Retried
    <3>2. QED
      BY <1>4, <3>1, Retries
  <2>6. k \in 1 .. Len(claims)
    BY <1>1, <1>4, <1>7, <2>1
  <2>7. CallOK(d) /\ Redeems(d) /\ d.tab = t /\ d.op = "redeem"
    <3>1. PICK show \in BOOLEAN : show = TRUE
      OBVIOUS
    <3>2. d = Gate!RedeemCall(t, k, show)
      BY <2>3, <3>1
    <3>3. QED
      BY <2>6, <3>2, Asked
  <2>8. Gate!InFlight(t)' = {d}
    BY <1>6, <2>4, <2>7 DEF Gate!InFlight
  <2>9. /\ \A x \in calls' : CallOK(x)
        /\ \A u \in Tabs \ {t} : Gate!InFlight(u)' = Gate!InFlight(u)
    BY <1>6, <2>4, <2>7 DEF Gate!InFlight
  <2>10. Rules(q, {d})
    BY <1>4, <1>7, <2>1, <2>5, <2>7, OneRedeems
  <2>11. /\ q.held <= minted /\ q.claim <= Len(claims) /\ gateEvents' \in 0 .. MaxGateEvents
         /\ storedToken' \in 0 .. minted /\ storedClaim' \in 0 .. Len(claims)
    BY <1>1, <1>2, <1>4, <2>1, <2>4, <2>5
  <2>12. QED
    BY <1>2, <2>4, <2>5, <2>8, <2>9, <2>10, <2>11, PageStep
<1>8. CASE p.claim = 0
  <2>1. PICK q : q = [p EXCEPT !.status = "retrying"]
    OBVIOUS
  <2>2. Gate!InitialAccess(t, q, rest)
    BY <1>3, <1>5, <1>8, <2>1 DEF Gate!Retry
  <2>3. /\ q \in PageRow /\ q.status = "retrying" /\ q.held = p.held /\ q.claim = p.claim
        /\ ~q.redeeming /\ ~q.redeemed
    BY <1>4, <2>1 DEF PageRow
  <2>4. q.held <= minted /\ q.claim <= Len(claims)
    BY <1>1, <1>4, <2>3
  <2>5. QED
    BY <1>2, <1>6, <2>2, <2>3, <2>4, StartsGate
<1>9. QED
  BY <1>7, <1>8

(* What is played changes no rule of the gate. *)
LEMMA SameRules ==
  ASSUME NEW p, NEW q, NEW F, Rules(p, F), q.claim = p.claim, q.held = p.held,
         q.checking <=> p.checking, q.redeeming <=> p.redeeming, q.redeemed <=> p.redeemed,
         q.status = p.status \/ (p.status = "entering" /\ q.status = "approved")
  PROVE  Rules(q, F)
<1>1. /\ q.status \in Busy <=> p.status \in Busy
      /\ q.status \in In <=> p.status \in In
      /\ q.status \in In \cup {"error", "disabled"} <=> p.status \in In \cup {"error", "disabled"}
  BY DEF Busy, In
<1>2. QED
  BY <1>1 DEF Rules

LEMMA EnterStep ==
  ASSUME GateInv, NEW t \in Tabs, Gate!Enter(t)
  PROVE  GateInv'
<1>1. page[t] \in PageRow /\ Rules(page[t], Gate!InFlight(t)) /\ storedClaim \in 0 .. Len(claims)
  BY PageFacts
<1>2. PICK q : q = [page[t] EXCEPT !.status = "approved"]
  OBVIOUS
<1>3. /\ page[t].status = "entering" /\ Gate!Page(t, q) /\ calls' = calls
      /\ UNCHANGED <<accessOn, claims, minted, storedToken, storedClaim, gateEvents>>
  BY <1>2 DEF Gate!Enter
<1>4. /\ q \in PageRow /\ q.status = "approved" /\ q.gen = page[t].gen /\ q.held = page[t].held
      /\ q.claim = page[t].claim /\ q.checking = page[t].checking
      /\ q.redeeming = page[t].redeeming /\ q.redeemed = page[t].redeemed
  BY <1>1, <1>2 DEF PageRow
<1>5. Rules(q, Gate!InFlight(t))
  BY <1>1, <1>3, <1>4, SameRules
<1> DEFINE gone == {}
<1>6. calls' = calls \ gone /\ \A x \in gone : x.tab = t /\ x.op = "join"
  BY <1>3
<1> HIDE DEF gone
<1>7. storedClaim' \in 0 .. Len(claims)
  BY <1>1, <1>3
<1>8. QED
  BY <1>3, <1>4, <1>5, <1>6, <1>7, PagePlays

Playbacks ==
    [status : {"idle", "connecting", "connected", "disconnected"}, stream : Streams \cup {"none"}]

LEMMA AcquireStep ==
  ASSUME GateInv, NEW t \in Tabs, NEW s \in Streams, Gate!Acquire(t, s)
  PROVE  GateInv'
<1>1. /\ page[t] \in PageRow /\ page[t].held \in 0 .. minted /\ page[t].claim \in 0 .. Len(claims)
      /\ Rules(page[t], Gate!InFlight(t)) /\ minted \in Nat /\ Len(claims) \in Nat
      /\ gateEvents \in 0 .. MaxGateEvents
  BY PageFacts
<1>2. PICK b \in Playbacks : b = [status |-> "connecting", stream |-> s]
  BY DEF Playbacks
<1>3. PICK q : q = [page[t] EXCEPT !.playback = b]
  OBVIOUS
<1>4. PICK d : d = Gate!JoinCall(t, s)
  OBVIOUS
<1>5. /\ Gate!Page(t, q) /\ calls' = calls \cup {d}
      /\ UNCHANGED <<accessOn, claims, minted, storedToken, storedClaim, gateEvents>>
  BY <1>2, <1>3, <1>4 DEF Gate!Acquire
<1>6. CallOK(d) /\ d.tab = t /\ d.op = "join"
  BY <1>4, Asked
<1>7. /\ q \in PageRow /\ q.status = page[t].status /\ q.gen = page[t].gen /\ q.held = page[t].held
      /\ q.claim = page[t].claim /\ q.checking = page[t].checking
      /\ q.redeeming = page[t].redeeming /\ q.redeemed = page[t].redeemed
  BY <1>1, <1>2, <1>3 DEF PageRow, Playbacks
<1>8. Rules(q, Gate!InFlight(t))
  BY <1>1, <1>7, SameRules
<1>9. q.held <= minted /\ q.claim <= Len(claims) /\ gateEvents' \in 0 .. MaxGateEvents
  BY <1>1, <1>5, <1>7
<1>10. QED
  BY <1>5, <1>6, <1>7, <1>8, <1>9, PageSends

LEMMA JoinSteps ==
  ASSUME GateInv, NEW c \in calls, Gate!Acquired(c) \/ Gate!NotAcquired(c)
  PROVE  GateInv'
<1>1. /\ Gate!Answered(c, "join", "join") /\ calls' = calls \ {c}
      /\ UNCHANGED <<accessOn, claims, minted, storedToken, gateEvents>>
  BY DEF Gate!Acquired, Gate!NotAcquired
<1>2. c.tab \in Tabs /\ c.op = "join" /\ CallOK(c)
  BY <1>1, AnswerFacts
<1>3. PICK t \in Tabs : t = c.tab
  BY <1>2
<1>4. /\ page[t] \in PageRow /\ Rules(page[t], Gate!InFlight(t)) /\ storedClaim \in 0 .. Len(claims)
      /\ Len(claims) \in Nat
  BY PageFacts
<1>5. storedClaim' \in 0 .. Len(claims)
  BY <1>4 DEF Gate!Acquired, Gate!NotAcquired
<1>6. c.stream \in Streams \cup {"none"}
  BY <1>2 DEF CallOK, GateCall
<1>7. ASSUME NEW q \in PageRow, Gate!Page(t, q), q.status = page[t].status, q.gen = page[t].gen,
             q.held = page[t].held, q.claim = page[t].claim, q.checking <=> page[t].checking,
             q.redeeming <=> page[t].redeeming, q.redeemed <=> page[t].redeemed
      PROVE  GateInv'
  <2>1. Rules(q, Gate!InFlight(t))
    BY <1>4, <1>7, SameRules
  <2> DEFINE gone == {c}
  <2>2. calls' = calls \ gone /\ \A x \in gone : x.tab = t /\ x.op = "join"
    BY <1>1, <1>2, <1>3
  <2> HIDE DEF gone
  <2>3. QED
    BY <1>1, <1>5, <1>7, <2>1, <2>2, PagePlays
<1>8. CASE Gate!Acquired(c)
  <2>1. PICK b \in Playbacks : b = [status |-> "connected", stream |-> c.stream]
    BY <1>6 DEF Playbacks
  <2>2. PICK z : z = [page[t] EXCEPT !.playback = b]
    OBVIOUS
  <2>3. PICK q : q = [page[t] EXCEPT !.playback = b,
                                     !.transitioned = IF page[t].held # 0 THEN FALSE ELSE @]
    OBVIOUS
  <2>4. Gate!Page(t, q)
    BY <1>3, <1>8, <2>1, <2>3 DEF Gate!Acquired
  <2>5. /\ z \in PageRow /\ z.status = page[t].status /\ z.gen = page[t].gen /\ z.held = page[t].held
        /\ z.claim = page[t].claim /\ z.checking = page[t].checking
        /\ z.redeeming = page[t].redeeming /\ z.redeemed = page[t].redeemed
    BY <1>4, <2>1, <2>2 DEF PageRow, Playbacks
  <2>6. PICK f \in BOOLEAN : f = IF page[t].held # 0 THEN FALSE ELSE z.transitioned
    <3>1. z.transitioned \in BOOLEAN
      BY <2>5 DEF PageRow
    <3>2. QED
      BY <3>1
  <2>7. q = [z EXCEPT !.transitioned = f]
    BY <2>2, <2>3, <2>6
  <2>8. /\ q \in PageRow /\ q.status = z.status /\ q.gen = z.gen /\ q.held = z.held
        /\ q.claim = z.claim /\ q.checking = z.checking
        /\ q.redeeming = z.redeeming /\ q.redeemed = z.redeemed
    BY <2>5, <2>7 DEF PageRow
  <2>9. QED
    BY <1>7, <2>4, <2>5, <2>8
<1>9. CASE Gate!NotAcquired(c)
  <2>1. PICK b \in Playbacks : b = [status |-> "disconnected", stream |-> c.stream]
    BY <1>6 DEF Playbacks
  <2>2. PICK q : q = [page[t] EXCEPT !.playback = b]
    OBVIOUS
  <2>3. Gate!Page(t, q)
    BY <1>3, <1>9, <2>1, <2>2 DEF Gate!NotAcquired
  <2>4. /\ q \in PageRow /\ q.status = page[t].status /\ q.gen = page[t].gen /\ q.held = page[t].held
        /\ q.claim = page[t].claim /\ q.checking = page[t].checking
        /\ q.redeeming = page[t].redeeming /\ q.redeemed = page[t].redeemed
    BY <1>4, <2>1, <2>2 DEF PageRow, Playbacks
  <2>5. QED
    BY <1>7, <2>3, <2>4
<1>10. QED
  BY <1>8, <1>9

LEMMA DeniedStep ==
  ASSUME GateInv, NEW c \in calls, Gate!Denied(c)
  PROVE  GateInv'
<1>1. /\ Gate!Answered(c, "join", "join")
      /\ UNCHANGED <<accessOn, claims, minted, gateEvents>>
  BY DEF Gate!Denied
<1>2. c.tab \in Tabs /\ c.op = "join" /\ CallOK(c)
  BY <1>1, AnswerFacts
<1>3. PICK t \in Tabs : t = c.tab
  BY <1>2
<1>4. /\ page[t] \in PageRow /\ page[t].held \in 0 .. minted /\ page[t].claim \in 0 .. Len(claims)
      /\ minted \in Nat /\ Len(claims) \in Nat /\ gateEvents \in 0 .. MaxGateEvents
  BY PageFacts
<1>5. CASE Gate!GateIgnores(page[t], c.token)
  <2>1. calls' = calls \ {c} /\ UNCHANGED <<page, storedToken, storedClaim>>
    BY <1>3, <1>5 DEF Gate!Denied
  <2>2. RowsOK'
    BY <1>1, <2>1 DEF GateInv, RowsOK
  <2>3. \A x \in calls' : CallOK(x)'
    BY <1>1, <2>1 DEF GateInv, CallOK
  <2>4. \A u \in Tabs : Gate!InFlight(u)' = Gate!InFlight(u)
    BY <1>2, <2>1 DEF Gate!InFlight
  <2>5. PagesOK'
    BY <1>1, <2>1, <2>4 DEF GateInv, PagesOK
  <2>6. QED
    BY <2>2, <2>3, <2>5 DEF GateInv
<1>6. CASE ~Gate!GateIgnores(page[t], c.token)
  <2>1. PICK p : p = Gate!NextGeneration(page[t])
    OBVIOUS
  <2>2. PICK b : b = Gate!Status(p, "checking")
    OBVIOUS
  <2>3. PICK q : q = [b EXCEPT !.held = 0, !.transitioned = TRUE, !.playback = Gate!NoPlayback]
    OBVIOUS
  <2>4. PICK d : d = Gate!ProgramCall(t, "gate", 0)
    OBVIOUS
  <2>5. PICK cs : cs = calls \ {c}
    OBVIOUS
  <2>6. PICK rest : rest = Gate!OtherGeneration(t, cs)
    OBVIOUS
  <2>7. /\ page[t].gen < MaxGen /\ Gate!Page(t, q) /\ storedToken' = 0 /\ storedClaim' = 0
        /\ calls' = rest \cup {d}
    BY <1>3, <1>6, <2>1, <2>2, <2>3, <2>4, <2>5, <2>6 DEF Gate!Denied
  <2>8. p \in PageRow /\ ~p.redeeming /\ ~p.redeemed
    BY <2>1, <2>7, Generation
  <2>9. /\ b \in PageRow /\ b.status = "checking" /\ b.claim = 0
        /\ b.redeeming = p.redeeming /\ b.redeemed = p.redeemed
    BY <2>2, <2>8, Shows
  <2>10. /\ q \in PageRow /\ q.status = "checking" /\ q.claim = 0 /\ q.held = 0
         /\ ~q.redeeming /\ ~q.redeemed
    <3>1. PICK x : x = [b EXCEPT !.held = 0]
      OBVIOUS
    <3>2. /\ x \in PageRow /\ x.status = "checking" /\ x.claim = 0 /\ x.held = 0
          /\ ~x.redeeming /\ ~x.redeemed
      BY <2>8, <2>9, <3>1 DEF PageRow
    <3>3. PICK y : y = [x EXCEPT !.transitioned = TRUE]
      OBVIOUS
    <3>4. /\ y \in PageRow /\ y.status = "checking" /\ y.claim = 0 /\ y.held = 0
          /\ ~y.redeeming /\ ~y.redeemed
      BY <3>2, <3>3 DEF PageRow
    <3>5. q = [y EXCEPT !.playback = Gate!NoPlayback]
      BY <2>3, <3>1, <3>3
    <3>6. PICK n \in Playbacks : n = Gate!NoPlayback
      BY DEF Gate!NoPlayback, Playbacks
    <3>7. q = [y EXCEPT !.playback = n]
      BY <3>5, <3>6
    <3>8. QED
      BY <3>4, <3>6, <3>7 DEF PageRow, Playbacks
  <2>11. /\ \A x \in rest : CallOK(x) /\ (x.tab = t => x.op = "join")
         /\ \A u \in Tabs \ {t} : {x \in rest : x.tab = u /\ x.op # "join"} = Gate!InFlight(u)
    <3>1. cs \subseteq calls /\ \A x \in calls \ cs : x.op = "join"
      BY <1>2, <2>5
    <3>2. QED
      BY <2>6, <3>1, Dropped
  <2>12. CallOK(d) /\ Starting(d) /\ d.tab = t /\ d.op = "program"
    BY <2>4, Asked
  <2>13. Gate!InFlight(t)' = {d}
    BY <2>7, <2>11, <2>12 DEF Gate!InFlight
  <2>14. /\ \A x \in calls' : CallOK(x)
         /\ \A u \in Tabs \ {t} : Gate!InFlight(u)' = Gate!InFlight(u)
    BY <2>7, <2>11, <2>12 DEF Gate!InFlight
  <2>15. Rules(q, {d})
    BY <2>10, <2>12, OneStarts DEF Busy
  <2>16. /\ q.held <= minted /\ q.claim <= Len(claims) /\ gateEvents' \in 0 .. MaxGateEvents
         /\ storedToken' \in 0 .. minted /\ storedClaim' \in 0 .. Len(claims)
         /\ q.status # "waiting"
    BY <1>1, <1>4, <2>7, <2>10
  <2>17. QED
    BY <1>1, <2>7, <2>10, <2>13, <2>14, <2>15, <2>16, PageStep
<1>7. QED
  BY <1>5, <1>6

LEMMA GateCheckedStep ==
  ASSUME GateInv, NEW c \in calls, Gate!GateChecked(c)
  PROVE  GateInv'
<1>1. /\ Gate!Answered(c, "program", "gate")
      /\ UNCHANGED <<accessOn, claims, minted, storedToken, storedClaim, gateEvents>>
  BY DEF Gate!GateChecked
<1>2. /\ c.tab \in Tabs /\ c.op = "program" /\ c.why = "gate" /\ c \in Gate!InFlight(c.tab)
  BY <1>1, AnswerFacts
<1>3. PICK t \in Tabs : t = c.tab
  BY <1>2
<1>4. /\ page[t] \in PageRow /\ page[t].held \in 0 .. minted /\ page[t].claim \in 0 .. Len(claims)
      /\ Rules(page[t], Gate!InFlight(t)) /\ minted \in Nat /\ Len(claims) \in Nat
      /\ storedToken' \in 0 .. minted /\ storedClaim' \in 0 .. Len(claims)
  BY <1>1, PageFacts
<1>5. Starting(c)
  BY <1>2 DEF Starting
<1>6. /\ Gate!InFlight(t) \ {c} = {} /\ page[t].status \in Busy
      /\ ~page[t].redeeming /\ ~page[t].redeemed
  BY <1>2, <1>3, <1>4, <1>5, Alone
<1>7. page[t].held = 0
  BY <1>2, <1>3, <1>4, <1>5 DEF Rules
<1>8. CASE c.ans = "off"
  <2>1. PICK b : b = Gate!Status(page[t], "disabled")
    OBVIOUS
  <2>2. PICK q : q = [b EXCEPT !.transitioned = FALSE, !.meta = FALSE]
    OBVIOUS
  <2>3. Gate!Page(t, q) /\ calls' = calls \ {c}
    BY <1>3, <1>8, <2>1, <2>2 DEF Gate!GateChecked
  <2>4. /\ b \in PageRow /\ b.status = "disabled" /\ b.claim = 0 /\ b.gen = page[t].gen
        /\ b.held = page[t].held /\ b.redeeming = page[t].redeeming /\ b.redeemed = page[t].redeemed
    BY <1>4, <2>1, Shows
  <2>5. /\ q \in PageRow /\ q.status = "disabled" /\ q.claim = 0 /\ q.gen = page[t].gen
        /\ q.held = 0 /\ ~q.redeeming /\ ~q.redeemed
    <3>1. PICK x : x = [b EXCEPT !.transitioned = FALSE]
      OBVIOUS
    <3>2. /\ x \in PageRow /\ x.status = "disabled" /\ x.claim = 0 /\ x.gen = page[t].gen
          /\ x.held = 0 /\ ~x.redeeming /\ ~x.redeemed
      BY <1>6, <1>7, <2>4, <3>1 DEF PageRow
    <3>3. q = [x EXCEPT !.meta = FALSE]
      BY <2>2, <3>1
    <3>4. QED
      BY <3>2, <3>3 DEF PageRow
  <2>6. Rules(q, {})
    BY <2>5, NoRequests DEF Busy, In
  <2>7. q.held <= minted /\ q.claim <= Len(claims)
    BY <1>4, <2>5
  <2>8. QED
    BY <1>1, <1>3, <1>4, <1>6, <2>3, <2>5, <2>6, <2>7, PageDrops
<1>9. CASE c.ans # "off"
  <2>1. PICK q : q = [page[t] EXCEPT !.meta = IF c.ans = "on" THEN TRUE ELSE @]
    OBVIOUS
  <2>2. PICK d : d = Gate!ClaimCall(t, "gate")
    OBVIOUS
  <2>3. Gate!Page(t, q) /\ Gate!Replace(c, d)
    BY <1>3, <1>9, <2>1, <2>2 DEF Gate!GateChecked
  <2>4. /\ q \in PageRow /\ q.status = page[t].status /\ q.claim = page[t].claim
        /\ q.gen = page[t].gen /\ q.held = page[t].held /\ ~q.redeeming /\ ~q.redeemed
    <3>1. PICK f \in BOOLEAN : f = IF c.ans = "on" THEN TRUE ELSE page[t].meta
      <4>1. page[t].meta \in BOOLEAN
        BY <1>4 DEF PageRow
      <4>2. QED
        BY <4>1
    <3>2. q = [page[t] EXCEPT !.meta = f]
      BY <2>1, <3>1
    <3>3. QED
      BY <1>4, <1>6, <3>2 DEF PageRow
  <2>5. CallOK(d) /\ d.tab = t /\ d.op = "claim" /\ d.why = "gate"
    BY <2>2, Asked
  <2>6. Starting(d)
    BY <2>5 DEF Starting
  <2>7. Rules(q, {d})
    BY <1>6, <2>4, <2>5, <2>6, OneStarts
  <2>8. q.held <= minted /\ q.claim <= Len(claims)
    BY <1>4, <2>4
  <2>9. Rules(q, (Gate!InFlight(t) \ {c}) \cup {d})
    BY <1>6, <2>7
  <2>10. QED
    BY <1>1, <1>3, <1>4, <2>3, <2>4, <2>5, <2>8, <2>9, PageReplaces
<1>10. QED
  BY <1>8, <1>9

LEMMA GateStep == GateInv /\ [Gate!Next]_ofGate => GateInv'
<1> SUFFICES ASSUME GateInv, [Gate!Next]_ofGate
             PROVE  GateInv'
  OBVIOUS
<1>1. CASE UNCHANGED ofGate
  <2>1. RowsOK'
    BY <1>1 DEF GateInv, RowsOK, ofGate
  <2>2. \A x \in calls' : CallOK(x)'
    BY <1>1 DEF GateInv, CallOK, ofGate
  <2>3. \A t \in Tabs : Gate!InFlight(t)' = Gate!InFlight(t)
    BY <1>1 DEF Gate!InFlight, ofGate
  <2>4. PagesOK'
    BY <1>1, <2>3 DEF GateInv, PagesOK, ofGate
  <2>5. QED
    BY <2>1, <2>2, <2>4 DEF GateInv
<1>2. ASSUME NEW c \in calls, Gate!Serve(c) \/ Gate!Handle(c) \/ Gate!Lose(c)
      PROVE  GateInv'
  <2>1. CASE Gate!Serve(c)
    BY <2>1, ServeSteps, ServeClaimStep, MintStep DEF Gate!Serve
  <2>2. CASE Gate!Handle(c)
    BY <2>2, LoadedStep, TokenCheckedStep, ClaimMadeStep, ProgramCheckedStep, RedeemedStep, JoinSteps,
       DeniedStep, GateCheckedStep DEF Gate!Handle
  <2>3. CASE Gate!Lose(c)
    BY <2>3, LoseStep
  <2>4. QED
    BY <1>2, <2>1, <2>2, <2>3
<1>3. ASSUME NEW t \in Tabs, Gate!Timers(t) \/ Gate!User(t)
      PROVE  GateInv'
  BY <1>3, PollClaimStep, EnterStep, OpenStep, CheckStep, RetryStep, AcquireStep
     DEF Gate!Timers, Gate!User
<1>4. CASE (\E c \in DOMAIN claims : Gate!Approve(c)) \/ Gate!Revoke \/ Gate!SetAccessControl
  BY <1>4, ApproverSteps
<1>5. QED
  BY <1>1, <1>2, <1>3, <1>4 DEF Gate!Next

LEMMA GateSafe == GateInv => Gate!GateIsSound
<1> SUFFICES ASSUME GateInv, NEW t \in Tabs
             PROVE  /\ Gate!GateHasWay(t) /\ Gate!PollsFollowScreen(t) /\ Gate!PlayerHasToken(t)
  BY DEF Gate!GateIsSound
<1>1. /\ Rules(page[t], Gate!InFlight(t))
      /\ page[t].status = "waiting" => page[t].poll = <<page[t].gen, page[t].claim>>
  BY PageFacts
<1>2. Gate!GateHasWay(t)
  BY <1>1 DEF Gate!GateHasWay, Rules, Busy
<1>3. Gate!PollsFollowScreen(t)
  BY <1>1 DEF Gate!PollsFollowScreen
<1>4. Gate!PlayerHasToken(t)
  BY <1>1 DEF Gate!PlayerHasToken, Rules, In
<1>5. QED
  BY <1>2, <1>3, <1>4

LEMMA GateTyped == GateInv => Gate!TypeOK
<1> SUFFICES ASSUME GateInv
             PROVE  Gate!TypeOK
  OBVIOUS
<1>1. /\ accessOn \in BOOLEAN /\ claims \in Seq(ClaimRow) /\ Len(claims) <= MaxClaims
      /\ minted \in 0 .. MaxTokens /\ storedToken \in 0 .. minted
      /\ storedClaim \in 0 .. Len(claims) /\ gateEvents \in 0 .. MaxGateEvents
      /\ \A i \in DOMAIN claims : claims[i].token <= minted
  BY DEF GateInv, RowsOK
<1>2. Len(claims) \in Nat /\ Len(claims) \in 0 .. MaxClaims /\ minted \in Nat
  BY <1>1, HostingAssumption
<1>3. \A i \in DOMAIN claims :
         claims[i] \in [status : {"pending", "approved", "revoked", "superseded"}, token : 0 .. minted]
  <2> SUFFICES ASSUME NEW i \in DOMAIN claims
               PROVE  claims[i] \in [status : {"pending", "approved", "revoked", "superseded"},
                                     token : 0 .. minted]
    OBVIOUS
  <2>1. claims[i] \in ClaimRow /\ claims[i].token <= minted
    BY <1>1
  <2>2. claims[i].token \in 0 .. minted
    BY <1>2, <2>1 DEF ClaimRow
  <2>3. QED
    BY <2>1, <2>2 DEF ClaimRow
<1>4. \A t \in Tabs : /\ page[t].gen \in 0 .. MaxGen /\ page[t].held \in 0 .. minted
                      /\ page[t].claim \in 0 .. Len(claims)
                      /\ page[t].status = "waiting" => page[t].claim # 0
  BY PageFacts DEF Rules
<1>5. QED
  BY <1>1, <1>2, <1>3, <1>4 DEF Gate!TypeOK

-----------------------------------------------------------------------------
(* A stream on the air *)

\* What is typed apart from the history of calm.
AirTyped ==
    /\ meter \in [session : 0 .. MaxSession, reported : BOOLEAN \cup {None}, low : 0 .. QuietSamples,
                  muted : BOOLEAN, due : BOOLEAN, fresh : BOOLEAN]
    /\ sounding \in BOOLEAN
    /\ reports \subseteq [session : Air!Session, active : BOOLEAN]
    /\ room \subseteq Listener
    /\ hooks \subseteq [kind : {"joined", "left", "track"}, who : Listener \cup Air!Session]
    /\ lease \in [issued : 0 .. MaxSession, open : BOOLEAN, published : 0 .. MaxSession]
    /\ activity = None \/ activity \in [session : Air!Session, active : BOOLEAN, age : 0 .. SoundWindow + 1]
    /\ \A c \in Listener : records[c] = None \/ records[c] \in 0 .. StaleAfter + 1
    /\ connections \in [Listener -> [status : {"requested", "connected", "disconnected"}, seen : 0 .. SeenWindow]]
    /\ build \in {None, "offline", "silent", "live"}
    /\ entry = None \/ entry \in [state : {"offline", "silent", "live"}, kept : 0 .. CacheTtl]

LEMMA OlderType ==
    ASSUME NEW limit \in Nat, NEW age \in 0 .. limit
    PROVE  Air!Older(age, limit) \in 0 .. limit
  BY DEF Air!Older

LEMMA StateType == Air!StreamState \in {"offline", "silent", "live"}
  BY DEF Air!StreamState

LEMMA AirBounds ==
    /\ MaxSession \in Nat /\ QuietSamples \in Nat /\ SoundWindow \in Nat
    /\ SeenWindow \in Nat /\ StaleAfter \in Nat /\ CacheTtl \in Nat
  BY HostingAssumption

\* A closed reservation has the type of one.
LEMMA ClosedTyped == AirTyped => Air!Closed \in [issued : 0 .. MaxSession, open : BOOLEAN, published : 0 .. MaxSession]
  <1> SUFFICES ASSUME AirTyped PROVE Air!Closed \in [issued : 0 .. MaxSession, open : BOOLEAN, published : 0 .. MaxSession]
    OBVIOUS
  <1>1. 0 \in 0 .. MaxSession
    BY AirBounds
  <1>2. PICK m \in [issued : 0 .. MaxSession, open : BOOLEAN, published : 0 .. MaxSession] :
            m = [lease EXCEPT !.open = FALSE]
    BY DEF AirTyped
  <1>3. Air!Closed = [m EXCEPT !.published = 0]
    BY <1>2 DEF Air!Closed, AirTyped
  <1> QED BY <1>1, <1>2, <1>3

LEMMA PrunedTyped ==
    ASSUME AirTyped, NEW c \in Listener
    PROVE  Air!Pruned(records)[c] = None \/ Air!Pruned(records)[c] \in 0 .. StaleAfter + 1
  BY DEF AirTyped, Air!Pruned

LEMMA GoLiveTyped == AirTyped /\ Air!GoLive => AirTyped'
  <1> SUFFICES ASSUME AirTyped, Air!GoLive PROVE AirTyped'
    OBVIOUS
  <1>1. PICK s \in Air!Session : s = lease.issued + 1
    BY AirBounds DEF AirTyped, Air!GoLive, Air!Session
  <1>2. meter' \in [session : 0 .. MaxSession, reported : BOOLEAN \cup {None}, low : 0 .. QuietSamples,
                    muted : BOOLEAN, due : BOOLEAN, fresh : BOOLEAN]
    <2>1. meter' = [session |-> s, reported |-> None, low |-> 0, muted |-> meter.muted, due |-> TRUE, fresh |-> FALSE]
      BY <1>1 DEF Air!GoLive, Air!NoMeter
    <2>2. s \in 0 .. MaxSession /\ 0 \in 0 .. QuietSamples /\ meter.muted \in BOOLEAN
      BY <1>1, AirBounds DEF AirTyped, Air!Session
    <2> QED BY <2>1, <2>2
  <1>3. lease' \in [issued : 0 .. MaxSession, open : BOOLEAN, published : 0 .. MaxSession]
    BY <1>1, AirBounds DEF Air!GoLive, Air!Session
  <1>4. hooks' \subseteq [kind : {"joined", "left", "track"}, who : Listener \cup Air!Session]
    BY <1>1 DEF Air!GoLive, AirTyped
  <1> QED BY <1>2, <1>3, <1>4 DEF Air!GoLive, Air!memory, AirTyped, Air!Session

LEMMA PageStopsTyped == AirTyped /\ Air!PageStops => AirTyped'
  <1> SUFFICES ASSUME AirTyped, Air!PageStops PROVE AirTyped'
    OBVIOUS
  <1>1. meter.session \in Air!Session
    BY AirBounds DEF AirTyped, Air!PageStops, Air!Session
  <1>2. meter' \in [session : 0 .. MaxSession, reported : BOOLEAN \cup {None}, low : 0 .. QuietSamples,
                    muted : BOOLEAN, due : BOOLEAN, fresh : BOOLEAN]
    <2>1. meter' = [session |-> 0, reported |-> None, low |-> 0, muted |-> meter.muted, due |-> FALSE, fresh |-> FALSE]
      BY DEF Air!PageStops, Air!NoMeter
    <2>2. 0 \in 0 .. MaxSession /\ 0 \in 0 .. QuietSamples /\ meter.muted \in BOOLEAN
      BY AirBounds DEF AirTyped
    <2> QED BY <2>1, <2>2
  <1>3. lease' \in [issued : 0 .. MaxSession, open : BOOLEAN, published : 0 .. MaxSession]
    BY ClosedTyped DEF Air!PageStops, AirTyped
  <1>4. hooks' \subseteq [kind : {"joined", "left", "track"}, who : Listener \cup Air!Session]
    BY <1>1 DEF Air!PageStops, AirTyped
  <1>5. reports' \subseteq [session : Air!Session, active : BOOLEAN]
    <2>1. [session |-> meter.session, active |-> FALSE] \in [session : Air!Session, active : BOOLEAN]
      BY <1>1
    <2>2. reports' \subseteq reports \cup {[session |-> meter.session, active |-> FALSE]}
      BY DEF Air!PageStops, Air!MeterCloses
    <2> QED BY <2>1, <2>2 DEF AirTyped
  <1> QED BY <1>2, <1>3, <1>4, <1>5 DEF Air!PageStops, Air!memory, AirTyped, Air!Session

LEMMA PageDiesTyped == AirTyped /\ Air!PageDies => AirTyped'
  <1> SUFFICES ASSUME AirTyped, Air!PageDies PROVE AirTyped'
    OBVIOUS
  <1>1. meter.session \in Air!Session
    BY AirBounds DEF AirTyped, Air!PageDies, Air!Session
  <1>2. meter' \in [session : 0 .. MaxSession, reported : BOOLEAN \cup {None}, low : 0 .. QuietSamples,
                    muted : BOOLEAN, due : BOOLEAN, fresh : BOOLEAN]
    BY AirBounds DEF Air!PageDies, Air!NoMeter
  <1>3. hooks' \subseteq [kind : {"joined", "left", "track"}, who : Listener \cup Air!Session]
    BY <1>1 DEF Air!PageDies, AirTyped
  <1> QED BY <1>2, <1>3 DEF Air!PageDies, Air!memory, AirTyped, Air!Session

LEMMA MicrophoneTyped == AirTyped /\ (Air!SoundChanges \/ Air!PressMute) => AirTyped'
  <1>1. AirTyped /\ Air!SoundChanges => AirTyped'
    BY DEF Air!SoundChanges, Air!memory, AirTyped, Air!Session
  <1>2. AirTyped /\ Air!PressMute => AirTyped'
    BY DEF Air!PressMute, Air!memory, AirTyped, Air!Session
  <1> QED BY <1>1, <1>2

LEMMA MeterPollsTyped == AirTyped /\ Air!MeterPolls => AirTyped'
  <1> SUFFICES ASSUME AirTyped, Air!MeterPolls PROVE AirTyped'
    OBVIOUS
  <1>1. meter.session \in Air!Session
    BY AirBounds DEF AirTyped, Air!MeterPolls, Air!Session
  <1>2. PICK low \in Nat : low = IF sounding \/ meter.reported # TRUE THEN 0 ELSE meter.low + 1
    <2>1. meter.low + 1 \in Nat
      BY AirBounds DEF AirTyped
    <2> QED BY <2>1
  <1>3. PICK active \in BOOLEAN : active = Air!Active(low)
    BY DEF Air!Active
  <1>4. PICK sent \in BOOLEAN : sent = Air!Reports(active)
    BY DEF Air!Reports
  <1>5. /\ meter' = [meter EXCEPT !.low = IF active THEN low ELSE 0, !.due = FALSE,
                        !.reported = IF sent THEN active ELSE @, !.fresh = @ \/ sent]
        /\ reports' = reports \cup (IF sent THEN {[session |-> meter.session, active |-> active]} ELSE {})
    BY <1>2, <1>3, <1>4 DEF Air!MeterPolls
  <1>6. active => low \in 0 .. QuietSamples
    <2> SUFFICES ASSUME active PROVE low \in 0 .. QuietSamples
      OBVIOUS
    <2>1. CASE sounding
      <3>1. low = 0
        BY <1>2, <2>1
      <3> QED BY <3>1, AirBounds
    <2>2. CASE ~sounding
      <3>1. low < QuietSamples
        BY <1>3, <2>2 DEF Air!Active
      <3> QED BY <3>1, AirBounds
    <2> QED BY <2>1, <2>2
  <1>7. meter' \in [session : 0 .. MaxSession, reported : BOOLEAN \cup {None}, low : 0 .. QuietSamples,
                    muted : BOOLEAN, due : BOOLEAN, fresh : BOOLEAN]
    <2>1. PICK l \in 0 .. QuietSamples : l = IF active THEN low ELSE 0
      BY <1>6, AirBounds
    <2>2. PICK f \in BOOLEAN : f = (meter.fresh \/ sent)
      OBVIOUS
    <2>3. PICK r \in BOOLEAN \cup {None} : r = IF sent THEN active ELSE meter.reported
      BY DEF AirTyped
    <2>4. meter' = [meter EXCEPT !.low = l, !.due = FALSE, !.reported = r, !.fresh = f]
      BY <1>5, <2>1, <2>2, <2>3 DEF AirTyped
    <2> QED BY <2>4 DEF AirTyped
  <1>8. reports' \subseteq [session : Air!Session, active : BOOLEAN]
    BY <1>1, <1>5 DEF AirTyped
  <1> QED BY <1>7, <1>8 DEF Air!MeterPolls, Air!memory, AirTyped, Air!Session

LEMMA ReportTyped ==
    ASSUME AirTyped, NEW r \in reports, Air!ReportLost(r) \/ Air!ReportArrives(r)
    PROVE  AirTyped'
  <1>1. CASE Air!ReportLost(r)
    BY <1>1 DEF Air!ReportLost, Air!memory, AirTyped, Air!Session
  <1>2. CASE Air!ReportArrives(r)
    <2>1. r \in [session : Air!Session, active : BOOLEAN]
      BY DEF AirTyped
    <2>2. activity' = None \/ activity' \in [session : Air!Session, active : BOOLEAN, age : 0 .. SoundWindow + 1]
      <3>1. 0 \in 0 .. SoundWindow + 1
        BY AirBounds
      <3> QED BY <1>2, <2>1, <3>1 DEF Air!ReportArrives, AirTyped
    <2> QED BY <1>2, <2>2 DEF Air!ReportArrives, AirTyped, Air!Session
  <1> QED BY <1>1, <1>2

LEMMA RoomTyped ==
    ASSUME AirTyped, NEW c \in Listener, Air!EntersRoom(c) \/ Air!LeavesRoom(c)
    PROVE  AirTyped'
  <1>1. /\ room' \subseteq Listener
        /\ hooks' \subseteq [kind : {"joined", "left", "track"}, who : Listener \cup Air!Session]
    BY DEF Air!EntersRoom, Air!LeavesRoom, AirTyped
  <1> QED BY <1>1 DEF Air!EntersRoom, Air!LeavesRoom, Air!page, Air!memory, AirTyped, Air!Session

LEMMA HookTyped ==
    ASSUME AirTyped, NEW h \in hooks,
           \/ Air!HookLost(h) \/ Air!PresenceJoin(h) \/ Air!PresenceLeave(h)
           \/ Air!TranslatorLeft(h) \/ Air!TrackPublished(h)
    PROVE  AirTyped'
  <1>1. hooks' = hooks \ {h}
    BY DEF Air!HookLost, Air!PresenceJoin, Air!PresenceLeave, Air!TranslatorLeft, Air!TrackPublished
  <1>2. CASE Air!HookLost(h)
    BY <1>1, <1>2 DEF Air!HookLost, Air!page, Air!memory, AirTyped, Air!Session
  <1>3. CASE Air!PresenceJoin(h) \/ Air!PresenceLeave(h)
    <2>1. \A c \in Listener : records'[c] = None \/ records'[c] \in 0 .. StaleAfter + 1
      <3>1. ASSUME NEW c \in Listener PROVE records'[c] = None \/ records'[c] \in 0 .. StaleAfter + 1
        <4>1. \/ records' = [Air!Pruned(records) EXCEPT ![h.who] = 0]
              \/ records' = [Air!Pruned(records) EXCEPT ![h.who] = None]
          BY <1>3 DEF Air!PresenceJoin, Air!PresenceLeave
        <4>2. records'[c] \in {0, None, Air!Pruned(records)[c]}
          BY <4>1 DEF Air!Pruned
        <4> QED BY <4>2, PrunedTyped, AirBounds
      <3> QED BY <3>1
    <2> QED BY <1>1, <1>3, <2>1 DEF Air!PresenceJoin, Air!PresenceLeave, Air!page, AirTyped, Air!Session
  <1>4. CASE Air!TranslatorLeft(h) \/ Air!TrackPublished(h)
    <2>1. lease' \in [issued : 0 .. MaxSession, open : BOOLEAN, published : 0 .. MaxSession]
      <3>1. CASE Air!TranslatorLeft(h)
        BY <3>1, ClosedTyped DEF Air!TranslatorLeft, AirTyped
      <3>2. CASE Air!TrackPublished(h)
        BY <3>2 DEF Air!TrackPublished, AirTyped
      <3> QED BY <1>4, <3>1, <3>2
    <2> QED BY <1>1, <1>4, <2>1 DEF Air!TranslatorLeft, Air!TrackPublished, Air!page, Air!memory, AirTyped, Air!Session
  <1> QED BY <1>2, <1>3, <1>4

LEMMA ConnectionTyped ==
    ASSUME AirTyped, NEW c \in Listener,
           Air!MarkConnected(c) \/ Air!RecordHeartbeat(c) \/ Air!Disconnect(c)
    PROVE  AirTyped'
  <1>1. PICK to \in {"requested", "connected", "disconnected"} :
            connections' = [connections EXCEPT ![c] = [status |-> to, seen |-> 0]]
    BY DEF Air!MarkConnected, Air!RecordHeartbeat, Air!Disconnect, Air!Row
  <1>2. 0 \in 0 .. SeenWindow
    BY AirBounds
  <1>3. connections' \in [Listener -> [status : {"requested", "connected", "disconnected"}, seen : 0 .. SeenWindow]]
    BY <1>1, <1>2 DEF AirTyped
  <1> QED BY <1>3 DEF Air!MarkConnected, Air!RecordHeartbeat, Air!Disconnect, Air!Row,
                      Air!page, Air!memory, AirTyped, Air!Session

LEMMA StatusTyped ==
    AirTyped /\ (Air!BuildBegins \/ Air!BuildEnds \/ Air!ReadStatus \/ Air!Restart) => AirTyped'
  <1> SUFFICES ASSUME AirTyped, Air!BuildBegins \/ Air!BuildEnds \/ Air!ReadStatus \/ Air!Restart
               PROVE  AirTyped'
    OBVIOUS
  <1>1. CASE Air!BuildBegins
    BY <1>1, PrunedTyped, StateType DEF Air!BuildBegins, Air!page, AirTyped, Air!Session
  <1>2. CASE Air!BuildEnds
    <2>1. entry' \in [state : {"offline", "silent", "live"}, kept : 0 .. CacheTtl]
      BY <1>2, AirBounds DEF Air!BuildEnds, Air!Stored, AirTyped
    <2> QED BY <1>2, <2>1 DEF Air!BuildEnds, Air!page, AirTyped, Air!Session
  <1>3. CASE Air!ReadStatus
    BY <1>3, PrunedTyped DEF Air!ReadStatus, Air!page, AirTyped, Air!Session
  <1>4. CASE Air!Restart
    BY <1>4 DEF Air!Restart, Air!page, AirTyped, Air!Session
  <1> QED BY <1>1, <1>2, <1>3, <1>4

LEMMA TickTyped == AirTyped /\ Air!Tick => AirTyped'
  <1> SUFFICES ASSUME AirTyped, Air!Tick PROVE AirTyped'
    OBVIOUS
  <1>1. meter' \in [session : 0 .. MaxSession, reported : BOOLEAN \cup {None}, low : 0 .. QuietSamples,
                    muted : BOOLEAN, due : BOOLEAN, fresh : BOOLEAN]
    <2>1. PICK d \in BOOLEAN : d = (meter.session # 0)
      OBVIOUS
    <2>2. meter' = [meter EXCEPT !.due = d, !.fresh = FALSE]
      BY <2>1 DEF Air!Tick
    <2> QED BY <2>2 DEF AirTyped
  <1>2. activity' = None \/ activity' \in [session : Air!Session, active : BOOLEAN, age : 0 .. SoundWindow + 1]
    <2>1. CASE activity = None
      BY <2>1 DEF Air!Tick
    <2>2. CASE activity # None
      <3>1. activity \in [session : Air!Session, active : BOOLEAN, age : 0 .. SoundWindow + 1]
        BY <2>2 DEF AirTyped
      <3>2. PICK a \in 0 .. SoundWindow + 1 : a = Air!Older(activity.age, SoundWindow + 1)
        BY <3>1, OlderType, AirBounds
      <3>3. activity' = [activity EXCEPT !.age = a]
        BY <2>2, <3>2 DEF Air!Tick
      <3> QED BY <3>1, <3>2, <3>3
    <2> QED BY <2>1, <2>2
  <1>3. \A c \in Listener : records'[c] = None \/ records'[c] \in 0 .. StaleAfter + 1
    <2>1. ASSUME NEW c \in Listener PROVE records'[c] = None \/ records'[c] \in 0 .. StaleAfter + 1
      <3>1. records'[c] = IF records[c] = None THEN None ELSE Air!Older(records[c], StaleAfter + 1)
        BY DEF Air!Tick
      <3>2. StaleAfter + 1 \in Nat
        BY AirBounds
      <3> QED BY <3>1, <3>2, OlderType DEF AirTyped
    <2> QED BY <2>1
  <1>4. connections' \in [Listener -> [status : {"requested", "connected", "disconnected"}, seen : 0 .. SeenWindow]]
    <2>1. ASSUME NEW c \in Listener
          PROVE  [connections[c] EXCEPT !.seen = IF connections[c].status = "connected"
                                                  THEN Air!Older(@, SeenWindow) ELSE @]
                     \in [status : {"requested", "connected", "disconnected"}, seen : 0 .. SeenWindow]
      <3>1. connections[c] \in [status : {"requested", "connected", "disconnected"}, seen : 0 .. SeenWindow]
        BY DEF AirTyped
      <3>2. PICK n \in 0 .. SeenWindow : n = IF connections[c].status = "connected"
                                             THEN Air!Older(connections[c].seen, SeenWindow) ELSE connections[c].seen
        BY <3>1, OlderType, AirBounds
      <3> QED BY <3>1, <3>2
    <2> QED BY <2>1 DEF Air!Tick
  <1>5. entry' = None \/ entry' \in [state : {"offline", "silent", "live"}, kept : 0 .. CacheTtl]
    <2>1. CASE entry = None
      BY <2>1 DEF Air!Tick
    <2>2. CASE entry # None
      <3>1. entry \in [state : {"offline", "silent", "live"}, kept : 0 .. CacheTtl]
        BY <2>2 DEF AirTyped
      <3>2. PICK n \in 0 .. CacheTtl : n = Air!Older(entry.kept, CacheTtl)
        BY <3>1, OlderType, AirBounds
      <3>3. entry' = [entry EXCEPT !.kept = n]
        BY <2>2, <3>2 DEF Air!Tick
      <3> QED BY <3>1, <3>2, <3>3
    <2> QED BY <2>1, <2>2
  <1>6. UNCHANGED <<sounding, reports, room, hooks, lease, build>>
    BY DEF Air!Tick
  <1> QED BY <1>1, <1>2, <1>3, <1>4, <1>5, <1>6 DEF AirTyped, Air!Session

LEMMA AirInit == Air!Init => Air!TypeOK
  <1> SUFFICES ASSUME Air!Init PROVE Air!TypeOK
    OBVIOUS
  <1>1. meter \in [session : 0 .. MaxSession, reported : BOOLEAN \cup {None}, low : 0 .. QuietSamples,
                   muted : BOOLEAN, due : BOOLEAN, fresh : BOOLEAN]
    BY AirBounds DEF Air!Init, Air!NoMeter
  <1>2. lease \in [issued : 0 .. MaxSession, open : BOOLEAN, published : 0 .. MaxSession]
    BY AirBounds DEF Air!Init
  <1>3. connections \in [Listener -> [status : {"requested", "connected", "disconnected"}, seen : 0 .. SeenWindow]]
    BY AirBounds DEF Air!Init
  <1>4. calm \in 0 .. CacheTtl + SoundWindow
    BY AirBounds DEF Air!Init
  <1> QED BY <1>1, <1>2, <1>3, <1>4 DEF Air!Init, Air!TypeOK

LEMMA AirStep == Air!TypeOK /\ [Air!Next]_ofAir => Air!TypeOK'
  <1> SUFFICES ASSUME Air!TypeOK, [Air!Next]_ofAir PROVE Air!TypeOK'
    OBVIOUS
  <1>1. AirTyped /\ calm \in 0 .. CacheTtl + SoundWindow
    BY DEF Air!TypeOK, AirTyped
  <1>2. CASE Air!Timeless(Air!Step)
    <2>1. calm' \in 0 .. CacheTtl + SoundWindow
      BY <1>1, <1>2, AirBounds DEF Air!Timeless, Air!Calm
    <2>2. AirTyped'
      <3>1. Air!Step
        BY <1>2 DEF Air!Timeless
      <3> QED
        BY <1>1, <3>1, GoLiveTyped, PageStopsTyped, PageDiesTyped, MicrophoneTyped, MeterPollsTyped, ReportTyped,
           RoomTyped, HookTyped, ConnectionTyped, StatusTyped DEF Air!Step
    <2> QED BY <2>1, <2>2 DEF Air!TypeOK, AirTyped
  <1>3. CASE Air!TimePasses
    <2>1. calm' \in 0 .. CacheTtl + SoundWindow
      BY <1>1, <1>3, OlderType, AirBounds DEF Air!TimePasses, Air!Calm
    <2>2. AirTyped'
      BY <1>1, <1>3, TickTyped DEF Air!TimePasses
    <2> QED BY <2>1, <2>2 DEF Air!TypeOK, AirTyped
  <1>4. CASE UNCHANGED ofAir
    BY <1>4 DEF ofAir, Air!TypeOK, Air!Session
  <1> QED BY <1>2, <1>3, <1>4 DEF Air!Next

-----------------------------------------------------------------------------
(* The limiter of requests *)

USE RateLimiterAssumption

Bucket == [tokens : 0 .. Burst, at : Nat, used : Nat]

\* What a bucket that is typed holds by now is a number.
LEMMA TokensType ==
    ASSUME LimiterTypeOK, NEW k \in Key
    PROVE  /\ Refilled(bucket[k]) \in Nat
           /\ Tokens(k) \in 0 .. Burst
  <1>1. bucket[k] \in Bucket /\ bucket[k].at <= now /\ now \in Nat
    BY DEF LimiterTypeOK, Bucket
  <1> QED BY <1>1 DEF Refilled, Tokens, Smaller, Bucket

\* A take leaves each bucket typed.
LEMMA UsedType ==
    ASSUME LimiterTypeOK, NEW k \in Key
    PROVE  /\ Used(k) \in [Key -> Bucket]
           /\ \A j \in Key : Used(k)[j].at <= now
           /\ \A j \in Key \ {k} : Used(k)[j] = bucket[j] /\ Used(k)[j].used <= takes
           /\ Used(k)[k].used = takes + 1 /\ Used(k)[k].at = now
           /\ Used(k)[k].tokens = IF Tokens(k) >= Cost THEN Tokens(k) - Cost ELSE Tokens(k)
  <1>1. /\ Tokens(k) \in 0 .. Burst /\ takes \in Nat /\ now \in Nat
        /\ bucket \in [Key -> Bucket]
        /\ \A j \in Key : bucket[j].at <= now /\ bucket[j].used <= takes
    BY TokensType DEF LimiterTypeOK, Bucket
  <1> DEFINE charged == IF Tokens(k) >= Cost THEN Tokens(k) - Cost ELSE Tokens(k)
             new == [tokens |-> charged, at |-> now, used |-> takes + 1]
  <1>2. charged \in 0 .. Burst
    BY <1>1
  <1> HIDE DEF charged
  <1>3. new \in Bucket
    BY <1>1, <1>2 DEF Bucket
  <1>4. Used(k) = [bucket EXCEPT ![k] = new]
    BY DEF Used, charged
  <1>5. Used(k)[k] = new /\ \A j \in Key \ {k} : Used(k)[j] = bucket[j]
    BY <1>1, <1>4
  <1> QED BY <1>1, <1>3, <1>4, <1>5 DEF charged

\* Pruning keeps some of the keys it is given, and those it is given are finitely many.
LEMMA PrunedType ==
    ASSUME NEW keys, IsFiniteSet(keys), NEW b
    PROVE  /\ Pruned(keys, b) \subseteq NotFull(keys, b) /\ NotFull(keys, b) \subseteq keys
           /\ IsFiniteSet(NotFull(keys, b)) /\ IsFiniteSet(Pruned(keys, b))
  <1>1. Pruned(keys, b) \subseteq NotFull(keys, b) /\ NotFull(keys, b) \subseteq keys
    BY DEF Pruned, NotFull
  <1> QED BY <1>1, FS_Subset

LEMMA TypeInit == LimiterInit => LimiterTypeOK
  <1> SUFFICES ASSUME LimiterInit PROVE LimiterTypeOK
    OBVIOUS
  <1>1. Unused \in Bucket
    BY DEF Unused, Bucket
  <1>2. bucket \in [Key -> Bucket] /\ \A k \in Key : bucket[k] = Unused
    BY <1>1 DEF LimiterInit
  <1>3. IsFiniteSet(held)
    BY FS_EmptySet DEF LimiterInit
  <1> QED BY <1>2, <1>3 DEF LimiterInit, LimiterTypeOK, Unused, Bucket

LEMMA TypeStep == LimiterTypeOK /\ [LimiterNext]_limiterVars => LimiterTypeOK'
  <1> SUFFICES ASSUME LimiterTypeOK, [LimiterNext]_limiterVars PROVE LimiterTypeOK'
    OBVIOUS
  <1>1. CASE TimePassesBy
    BY <1>1 DEF TimePassesBy, LimiterTypeOK
  <1>2. ASSUME NEW k \in Key, TakeToken(k) PROVE LimiterTypeOK'
    <2>1. /\ bucket' = Used(k) /\ takes' = takes + 1 /\ now' = now
          /\ held' = held \cup {k} \/ held' = Pruned(held \cup {k}, Used(k))
      BY <1>2 DEF TakeToken
    <2>2. IsFiniteSet(held \cup {k}) /\ held \cup {k} \subseteq Key
      BY FS_AddElement DEF LimiterTypeOK
    <2>3. held' \subseteq Key /\ IsFiniteSet(held')
      <3>1. Pruned(held \cup {k}, Used(k)) \subseteq held \cup {k} /\ IsFiniteSet(Pruned(held \cup {k}, Used(k)))
        BY <2>2, PrunedType
      <3> QED BY <2>1, <2>2, <3>1
    <2>4. takes \in Nat /\ now \in Nat
      BY DEF LimiterTypeOK
    <2>5. \A j \in Key : Used(k)[j].at <= now /\ Used(k)[j].used <= takes + 1
      BY <2>4, UsedType DEF Bucket
    <2>6. Used(k) \in [Key -> Bucket]
      BY UsedType
    <2> QED BY <2>1, <2>3, <2>4, <2>5, <2>6 DEF LimiterTypeOK, Bucket
  <1>3. CASE UNCHANGED limiterVars
    BY <1>3 DEF limiterVars, LimiterTypeOK
  <1> QED BY <1>1, <1>2, <1>3 DEF LimiterNext

(* The types hold, for every number of keys, requests and ticks.                                   *)
THEOREM LimiterTyped == LimiterSpec => []LimiterTypeOK
  BY TypeInit, TypeStep, PTL DEF LimiterSpec

-----------------------------------------------------------------------------
\* A key that has just asked is short of a full bucket, and was used last.
LEMMA AskerStays ==
    ASSUME LimiterTypeOK, NEW k \in Key
    PROVE  k \in Pruned(held \cup {k}, Used(k))
  <1> DEFINE short == NotFull(held \cup {k}, Used(k))
             before == UsedBefore(k, short, Used(k))
  <1>1. Tokens(k) \in 0 .. Burst /\ now \in Nat /\ takes \in Nat
    BY TokensType DEF LimiterTypeOK
  <1>2. Refilled(Used(k)[k]) < Burst
    BY <1>1, UsedType DEF Refilled
  <1>3. k \in short
    BY <1>2 DEF NotFull
  <1>4. IsFiniteSet(short) /\ short \subseteq Key
    <2>1. IsFiniteSet(held \cup {k}) /\ held \cup {k} \subseteq Key
      BY FS_AddElement DEF LimiterTypeOK
    <2> QED BY <2>1, PrunedType
  <1>5. before = short \ {k}
    <2>1. \A j \in short : j # k => Used(k)[j].used < Used(k)[k].used
      <3> SUFFICES ASSUME NEW j \in short, j # k PROVE Used(k)[j].used < Used(k)[k].used
        OBVIOUS
      <3>1. j \in Key
        BY <1>4
      <3>2. bucket[j] \in Bucket /\ Used(k)[j] = bucket[j] /\ Used(k)[j].used <= takes
        BY <3>1, UsedType DEF LimiterTypeOK, Bucket
      <3>3. Used(k)[k].used = takes + 1
        BY UsedType
      <3> QED BY <1>1, <3>2, <3>3 DEF Bucket
    <2>2. ~ (Used(k)[k].used < Used(k)[k].used)
      BY <1>1, UsedType
    <2> QED BY <2>1, <2>2 DEF UsedBefore
  <1>6. Cardinality(before) = Cardinality(short) - 1 /\ Cardinality(short) \in Nat
    BY <1>3, <1>4, <1>5, FS_RemoveElement, FS_CardinalityType
  <1>7. Cardinality(before) >= Cardinality(short) - MaxKeys
    BY <1>6
  <1> QED BY <1>3, <1>7 DEF Pruned

\* Who is dropped though not full is one of more than MaxKeys.
LEMMA DroppedInFlood ==
    ASSUME NEW keys, IsFiniteSet(keys), NEW b,
           NEW k \in NotFull(keys, b), k \notin Pruned(keys, b)
    PROVE  Cardinality(NotFull(keys, b)) > MaxKeys
  <1> DEFINE short == NotFull(keys, b)
             before == UsedBefore(k, short, b)
  <1>1. IsFiniteSet(short) /\ before \subseteq short
    BY PrunedType DEF UsedBefore
  <1>2. Cardinality(short) \in Nat /\ Cardinality(before) \in Nat
    BY <1>1, FS_Subset, FS_CardinalityType
  <1>3. ~ (Cardinality(before) >= Cardinality(short) - MaxKeys)
    BY DEF Pruned
  <1> QED BY <1>2, <1>3

\* The tokens that keys have after a take, before anything is dropped.
LEMMA LevelsCharged ==
    ASSUME LimiterTypeOK, NEW k \in Key, NEW keys, keys = held \cup {k},
           NEW j \in Key, now' = now, bucket' = Used(k)
    PROVE  /\ j \in keys => Smaller(Burst, Refilled(bucket'[j])) =
                                 IF j = k THEN (IF Tokens(k) >= Cost THEN Tokens(k) - Cost ELSE Tokens(k))
                                 ELSE Tokens(j)
           /\ j \notin keys => Tokens(j) = Burst
           /\ Refilled(bucket'[j]) \in Int
  <1>1. Tokens(k) \in 0 .. Burst /\ Tokens(j) \in 0 .. Burst /\ now \in Nat
    BY TokensType DEF LimiterTypeOK
  <1>2. Used(k)[j] \in Bucket
    BY UsedType
  <1>3. CASE j = k
    BY <1>1, <1>3, UsedType DEF Refilled, Smaller
  <1>4. CASE j # k
    <2>1. Used(k)[j] = bucket[j]
      BY <1>4, UsedType
    <2>2. j \in keys <=> j \in held
      BY <1>4
    <2> QED BY <1>1, <1>2, <1>4, <2>1, <2>2 DEF Tokens, Bucket, Refilled
  <1> QED BY <1>3, <1>4

-----------------------------------------------------------------------------
LEMMA PromiseInit == LimiterInit => Promise!Init
  <1> SUFFICES ASSUME LimiterInit PROVE Promise!Init
    OBVIOUS
  <1>1. \A k \in Key : Tokens(k) = Burst
    BY DEF LimiterInit, Tokens
  <1> QED BY <1>1 DEF LimiterInit, Promise!Init

LEMMA PromiseTick == LimiterTypeOK /\ TimePassesBy => Promise!Tick
  <1> SUFFICES ASSUME LimiterTypeOK, TimePassesBy PROVE Promise!Tick
    OBVIOUS
  <1>1. now' = now + 1 /\ held' = held /\ bucket' = bucket /\ answer' = answer
    BY DEF TimePassesBy
  <1>2. ASSUME NEW k \in Key
        PROVE  Tokens(k)' = Promise!Least(Burst, Tokens(k) + 1)
    <2>1. bucket[k] \in Bucket /\ bucket[k].at <= now /\ now \in Nat
      BY DEF LimiterTypeOK, Bucket
    <2>2. Refilled(bucket[k])' = Refilled(bucket[k]) + 1 /\ Refilled(bucket[k]) \in Nat
      BY <1>1, <2>1 DEF Refilled, Bucket
    <2> QED BY <1>1, <2>2 DEF Tokens, Smaller, Promise!Least
  <1>3. \A k \in Key : [j \in Key |-> Tokens(j)][k] = Tokens(k)
    OBVIOUS
  <1>4. [j \in Key |-> Tokens(j)'] =
        [k \in Key |-> Promise!Least(Burst, [j \in Key |-> Tokens(j)][k] + 1)]
    BY <1>2, <1>3
  <1> QED BY <1>1, <1>4 DEF Promise!Tick

\* Whoever is refused and waits as long as it was told has a token.
LEMMA RetryIsEnough ==
    ASSUME NEW t \in 0 .. Burst, t < Cost
    PROVE  RetryAfter(t) \in Nat /\ t + RetryAfter(t) >= Cost
  <1> DEFINE n == (Cost - t) + (SecondTicks - 1)
             d == n \div SecondTicks
  <1>1. n \in Nat /\ SecondTicks \in Nat /\ SecondTicks > 0
    OBVIOUS
  <1> HIDE DEF n
  <1>2. /\ d \in Nat
        /\ n = (SecondTicks * d) + (n % SecondTicks)
        /\ n % SecondTicks \in 0 .. SecondTicks - 1
    BY <1>1, Z3
  <1> HIDE DEF d
  <1> DEFINE retry == SecondTicks * d
  <1>3. retry \in Nat
    BY <1>1, <1>2, Z3
  <1> HIDE DEF retry
  <1>4. n = retry + (n % SecondTicks)
    BY <1>2 DEF retry
  <1>5. t + retry >= Cost
    BY <1>1, <1>2, <1>3, <1>4 DEF n
  <1> QED BY <1>3, <1>5 DEF RetryAfter, n, d, retry

LEMMA PromiseAnswer ==
    ASSUME LimiterTypeOK, NEW k \in Key
    PROVE  Answer(k) \in Promise!Answers(k)
  <1>1. Tokens(k) \in 0 .. Burst
    BY TokensType
  <1>2. CASE Tokens(k) >= Cost
    BY <1>2 DEF Answer, Promise!Answers
  <1>3. CASE ~ (Tokens(k) >= Cost)
    <2>1. RetryAfter(Tokens(k)) \in Nat /\ Tokens(k) + RetryAfter(Tokens(k)) >= Cost
      BY <1>1, <1>3, RetryIsEnough
    <2> QED BY <1>3, <2>1 DEF Answer, Promise!Answers
  <1> QED BY <1>2, <1>3

LEMMA SameCardinality == \A S : Promise!Cardinality(S) = Cardinality(S)
  BY DEF Promise!Cardinality, Cardinality

LEMMA PromiseTake == ASSUME LimiterTypeOK, NEW k \in Key, TakeToken(k) PROVE Promise!Take(k)
  <1> DEFINE keys == held \cup {k}
             after == Used(k)
             level == [j \in Key |-> Tokens(j)]
             charged == Promise!Charged(k)
             forgotten == NotFull(keys, after) \ held'
  <1>1. now' = now /\ bucket' = after /\ answer' = Answer(k)
        /\ (held' = keys \/ held' = Pruned(keys, after))
    BY DEF TakeToken
  <1>2. keys \subseteq Key /\ IsFiniteSet(keys)
    BY FS_AddElement DEF LimiterTypeOK
  <1>3. charged = [j \in Key |-> IF j = k THEN (IF Tokens(k) >= Cost THEN Tokens(k) - Cost ELSE Tokens(k))
                                  ELSE Tokens(j)]
    BY DEF Promise!Charged
  <1>4. \A j \in Key : /\ j \in keys => charged[j] = Smaller(Burst, Refilled(after[j]))
                       /\ j \notin keys => charged[j] = Burst
                       /\ Refilled(after[j]) \in Int
    <2> TAKE j \in Key
    <2>1. Refilled(bucket'[j]) = Refilled(after[j])
      BY <1>1
    <2> QED BY <1>1, <1>3, <2>1, LevelsCharged
  <1>5. NotFull(keys, after) = Promise!Short(charged)
    <2>1. NotFull(keys, after) = {j \in Key : charged[j] < Burst}
      BY <1>2, <1>4 DEF NotFull, Smaller
    <2> QED BY <2>1 DEF Promise!Short
  <1>6. k \in held'
    BY <1>1, AskerStays
  <1>7. forgotten \in SUBSET (Key \ {k})
    BY <1>2, <1>6, PrunedType
  <1>8. forgotten # {} => Cardinality(Promise!Short(charged)) > MaxKeys
    BY <1>1, <1>2, <1>5, DroppedInFlood, PrunedType
  <1>9. ASSUME NEW j \in Key
        PROVE  Tokens(j)' = IF j \in forgotten THEN Burst ELSE charged[j]
    <2>1. held' \subseteq keys
      BY <1>1, <1>2, PrunedType
    <2>2. Tokens(j)' = IF j \in held' THEN Smaller(Burst, Refilled(after[j])) ELSE Burst
      BY <1>1 DEF Tokens, Refilled
    <2>3. CASE j \in held'
      BY <1>4, <2>1, <2>2, <2>3
    <2>4. CASE j \notin keys
      BY <1>2, <1>4, <2>1, <2>2, <2>4, PrunedType
    <2>5. CASE j \in keys /\ j \notin held'
      BY <1>4, <2>2, <2>5 DEF NotFull, Smaller
    <2> QED BY <2>3, <2>4, <2>5
  <1>10. level' = [j \in Key |-> IF j \in forgotten THEN Burst ELSE charged[j]]
    BY <1>9
  <1>11. answer' \in Promise!Answers(k)
    BY <1>1, PromiseAnswer
  <1>12. \E gone \in SUBSET (Key \ {k}) :
            /\ gone # {} => Cardinality(Promise!Short(charged)) > MaxKeys
            /\ level' = [j \in Key |-> IF j \in gone THEN Burst ELSE charged[j]]
    <2> HIDE DEF forgotten, charged, level
    <2> QED BY <1>7, <1>8, <1>10
  <1> QED BY <1>11, <1>12, SameCardinality DEF Promise!Take

(* The limiter keeps its promise: the buckets that it keeps stand for one of every key, only a      *)
(* flood of keys that are all short makes it forget one, never the one that asks, and whoever is     *)
(* refused has a token after the time it was told (take, prune).                                     *)
THEOREM LimiterKeepsPromise == LimiterSpec => KeepsPromise
  <1>1. LimiterTypeOK /\ [LimiterNext]_limiterVars => [Promise!Next]_<<[k \in Key |-> Tokens(k)], answer>>
    <2> SUFFICES ASSUME LimiterTypeOK, [LimiterNext]_limiterVars
                 PROVE  [Promise!Next]_<<[k \in Key |-> Tokens(k)], answer>>
      OBVIOUS
    <2>1. CASE TimePassesBy
      BY <2>1, PromiseTick DEF Promise!Next
    <2>2. CASE \E k \in Key : TakeToken(k)
      BY <2>2, PromiseTake DEF Promise!Next
    <2>3. CASE UNCHANGED limiterVars
      BY <2>3 DEF limiterVars, Tokens, Refilled
    <2> QED BY <2>1, <2>2, <2>3 DEF LimiterNext
  <1> QED BY <1>1, PromiseInit, LimiterTyped, PTL DEF LimiterSpec, KeepsPromise, Promise!Spec

\* Pruning keeps no more than it may.
LEMMA PrunedBound ==
    ASSUME NEW keys \in SUBSET Key, IsFiniteSet(keys), NEW b \in [Key -> Bucket]
    PROVE  Cardinality(Pruned(keys, b)) <= MaxKeys
  <1> DEFINE N == NotFull(keys, b)
             P == Pruned(keys, b)
             B(k) == UsedBefore(k, N, b)
  <1>1. P \subseteq N /\ N \subseteq keys /\ IsFiniteSet(N) /\ IsFiniteSet(P)
    BY PrunedType
  <1>2. \A k \in P : B(k) \subseteq N /\ Cardinality(B(k)) >= Cardinality(N) - MaxKeys
    BY DEF Pruned, UsedBefore
  <1>3. \A k \in N : b[k].used \in Nat
    BY <1>1 DEF Bucket
  <1>4. \A k \in N : \A j \in N : j \in B(k) <=> b[j].used < b[k].used
    BY DEF UsedBefore
  <1>5. Cardinality(N) \in Nat /\ Cardinality(P) \in Nat
    BY <1>1, FS_CardinalityType
  <1> HIDE DEF N, P, B
  <1>6. CASE P = {}
    <2>1. Cardinality(Pruned(keys, b)) = 0
      BY <1>6, FS_EmptySet DEF P
    <2> QED BY <2>1
  <1>7. CASE P # {}
    <2>1. PICK k \in P : \A j \in P : ~ b[j].used < b[k].used
      <3> DEFINE T == {B(j) : j \in P}
      <3>1. T \subseteq FiniteSubsetsOf(N) /\ T # {}
        BY <1>1, <1>2, <1>7, FS_Subset DEF FiniteSubsetsOf
      <3>2. IsWellFoundedOn(StrictSubsetOrdering(N), FiniteSubsetsOf(N))
        BY FS_StrictSubsetOrderingWellFounded
      <3>3. PICK x \in T : \A y \in T : ~ (<<y, x>> \in StrictSubsetOrdering(N))
        BY <3>1, <3>2, WFMin
      <3>4. PICK k \in P : x = B(k)
        OBVIOUS
      <3>5. ASSUME NEW j \in P, b[j].used < b[k].used
            PROVE  FALSE
        <4>1. B(j) \subseteq B(k) /\ j \in B(k) /\ j \notin B(j) /\ k \in N /\ j \in N
          BY <1>1, <1>2, <1>3, <1>4, <3>5
        <4>2. <<B(j), B(k)>> \in StrictSubsetOrdering(N)
          BY <1>2, <4>1 DEF StrictSubsetOrdering
        <4>3. QED
          BY <3>3, <3>4, <4>2
      <3>6. QED
        BY <3>5
    <2>2. P \subseteq N \ B(k)
      BY <1>1, <1>4, <2>1
    <2>3. B(k) \subseteq N /\ IsFiniteSet(B(k)) /\ Cardinality(B(k)) \in Nat
      BY <1>1, <1>2, FS_Subset, FS_CardinalityType
    <2>4. P \cup B(k) \subseteq N /\ P \cap B(k) = {}
      BY <1>1, <2>2, <2>3
    <2>5. Cardinality(P \cup B(k)) = Cardinality(P) + Cardinality(B(k)) - 0
      BY <1>1, <2>3, <2>4, FS_Union, FS_EmptySet
    <2>6. Cardinality(P \cup B(k)) <= Cardinality(N)
      BY <1>1, <2>4, FS_Subset
    <2>7. Cardinality(B(k)) >= Cardinality(N) - MaxKeys
      BY <1>2
    <2> QED
      BY <1>5, <2>3, <2>5, <2>6, <2>7 DEF P
  <1>8. QED
    BY <1>6, <1>7

\* A count goes on by one until it begins again at zero.
LEMMA CountsOn ==
    ASSUME NEW t \in Nat, (t + 1) % PruneEvery # 0
    PROVE  (t + 1) % PruneEvery = (t % PruneEvery) + 1
  <1>1. PICK n \in Nat \ {0} : n = PruneEvery
    OBVIOUS
  <1>2. PICK q \in Int : q = t \div n
    OBVIOUS
  <1>3. PICK r \in 0 .. n - 1 : r = t % n
    OBVIOUS
  <1>4. PICK p \in Int : p = (t + 1) \div n
    OBVIOUS
  <1>5. PICK s \in 0 .. n - 1 : s = (t + 1) % n
    OBVIOUS
  <1>6. t = n * q + r /\ t + 1 = n * p + s
    BY <1>1, <1>2, <1>3, <1>4, <1>5
  <1>7. s # 0
    BY <1>1, <1>5
  <1>8. n * (p - q) = r + 1 - s
    BY <1>6
  <1>9. p - q = 0
    BY <1>1, <1>7, <1>8
  <1> QED BY <1>1, <1>3, <1>5, <1>6, <1>9

LEMMA MemoryInit == LimiterInit => MemoryIsBounded
  <1> SUFFICES ASSUME LimiterInit PROVE MemoryIsBounded
    OBVIOUS
  <1>1. Cardinality(held) = 0 /\ takes = 0
    BY FS_EmptySet DEF LimiterInit
  <1>2. 0 % PruneEvery \in Nat
    OBVIOUS
  <1> QED BY <1>1, <1>2 DEF MemoryIsBounded

LEMMA MemoryStep == LimiterTypeOK /\ MemoryIsBounded /\ [LimiterNext]_limiterVars => MemoryIsBounded'
  <1> SUFFICES ASSUME LimiterTypeOK, MemoryIsBounded, [LimiterNext]_limiterVars PROVE MemoryIsBounded'
    OBVIOUS
  <1>1. CASE TimePassesBy \/ UNCHANGED limiterVars
    BY <1>1 DEF TimePassesBy, limiterVars, MemoryIsBounded
  <1>2. ASSUME NEW k \in Key, TakeToken(k) PROVE MemoryIsBounded'
    <2>1. /\ takes' = takes + 1 /\ takes \in Nat /\ IsFiniteSet(held) /\ held \subseteq Key
          /\ Cardinality(held) <= MaxKeys + (takes % PruneEvery) /\ Cardinality(held) \in Nat
          /\ takes % PruneEvery \in Nat /\ (takes + 1) % PruneEvery \in Nat
      BY <1>2, FS_CardinalityType DEF TakeToken, LimiterTypeOK, MemoryIsBounded
    <2>2. /\ IsFiniteSet(held \cup {k}) /\ Cardinality(held \cup {k}) \in Nat
          /\ Cardinality(held \cup {k}) <= Cardinality(held) + 1
      <3>1. /\ IsFiniteSet(held \cup {k})
            /\ Cardinality(held \cup {k}) = IF k \in held THEN Cardinality(held) ELSE Cardinality(held) + 1
        BY <2>1, FS_AddElement
      <3> QED BY <2>1, <3>1
    <2>3. CASE (takes + 1) % PruneEvery = 0
      <3>1. held' = Pruned(held \cup {k}, Used(k))
        BY <1>2, <2>3 DEF TakeToken
      <3>2. Used(k) \in [Key -> Bucket] /\ held \cup {k} \in SUBSET Key
        BY <2>1, UsedType
      <3>3. Cardinality(held') <= MaxKeys
        BY <2>2, <3>1, <3>2, PrunedBound
      <3> QED BY <2>1, <2>3, <3>3 DEF MemoryIsBounded
    <2>4. CASE (takes + 1) % PruneEvery # 0
      <3>1. held' = held \cup {k}
        BY <1>2, <2>4 DEF TakeToken
      <3>2. (takes + 1) % PruneEvery = (takes % PruneEvery) + 1
        BY <2>1, <2>4, CountsOn
      <3> QED BY <2>1, <2>2, <3>1, <3>2 DEF MemoryIsBounded
    <2> QED BY <2>3, <2>4
  <1> QED BY <1>1, <1>2 DEF LimiterNext

(* The memory of the limiter is bounded, however many keys ask and however often: it holds at most *)
(* MAX_KEYS buckets and those added since it last pruned (take, prune).                            *)
THEOREM LimiterMemoryIsBounded == LimiterSpec => []MemoryIsBounded
  BY TypeInit, TypeStep, MemoryInit, MemoryStep, PTL DEF LimiterSpec

-----------------------------------------------------------------------------
(* The parts together *)

(* Gate: no page of a listener is left in front of a gate that shows no button and waits for
   nothing, with polls of another claim or generation than its own, or in a controlled player
   that holds no token, in whatever order the answers, the approver and the listener come. *)
THEOREM HostingKeepsGateSound == HostingSpec => []GateIsSound
<1> DEFINE Inv == GateInv
<1>1. HostingInit => Inv
  BY GateBegins DEF HostingInit
<1>2. Inv /\ [HostingNext]_hostingVars => Inv'
  <2>1. [HostingNext]_hostingVars => [Gate!Next]_ofGate
    BY DEF HostingNext, hostingVars
  <2>2. QED
    BY <2>1, GateStep
<1>3. Inv => GateIsSound
  BY GateSafe DEF GateIsSound
<1> HIDE DEF Inv
<1>4. QED
  BY <1>1, <1>2, <1>3, PTL DEF HostingSpec

(* Types: every variable of the gate, of the programs, of the limiter and of the stream on the air *)
(* has its type, and the memory of the limiter is bounded, in every behaviour of the whole.        *)
THEOREM HostingTyped == HostingSpec => []HostingTypeOK
  <1> DEFINE Inv == GateInv /\ Air!TypeOK /\ LimiterTypeOK /\ MemoryIsBounded /\ IInv
  <1>1. HostingInit => Inv
    BY GateBegins, AirInit, TypeInit, MemoryInit, InitOK DEF HostingInit
  <1>2. Inv /\ [HostingNext]_hostingVars => Inv'
    <2>1. [HostingNext]_hostingVars =>
              [Gate!Next]_ofGate /\ [Air!Next]_ofAir /\ [LimiterNext]_limiterVars /\ [Next]_vars
      BY DEF HostingNext, hostingVars
    <2> QED BY <2>1, GateStep, AirStep, TypeStep, MemoryStep, NextOK
  <1>3. Inv => HostingTypeOK
    <2>1. IInv => TypeOK
      BY DEF IInv, Typed, AtWork, TypeOK, Account, ProgramRow, Connection, Request, PruneSteps
    <2> QED BY <2>1, GateTyped DEF HostingTypeOK
  <1> HIDE DEF Inv
  <1> QED BY <1>1, <1>2, <1>3, PTL DEF HostingSpec
===============================================================================
