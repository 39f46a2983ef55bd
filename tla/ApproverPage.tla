----------------------------- MODULE ApproverPage -----------------------------
(***************************************************************************)
(* The page of an approver: finding the program and the session, signing   *)
(* in and out, and approving the claims of listeners that are scanned,     *)
(* typed in or opened by a link.  Several of its requests may be under     *)
(* way.  The server handles a request at some moment of its way, with the  *)
(* cookie that it was sent with, and the answer comes later or not at all; *)
(* a cookie that the answer sets or clears is the browser's when it comes. *)
(***************************************************************************)
EXTENDS Integers, FiniteSets

CONSTANTS
    Slot,        \* requests of the page that may be under way at once
    Claim,       \* the claims of listeners
    None,
    MaxSession   \* bound: sessions of the approver

VARIABLES
    status,      \* status[c]: the claim c in listener_access
    admitted,    \* history: the claims that were approved at some time
    live,        \* the sessions that the server honours
    issued,      \* the last session made
    cookie,      \* the session of the browser's cookie, 0 for none
    page,        \* the state of the page
    scanned,     \* the codes scanned in the last SCAN_DEBOUNCE_MS
    task,        \* task[s]: the handler in slot s
    straddled    \* history: a sign-in ended while an approval was under way

server == <<status, admitted, live, issued>>
vars   == <<server, cookie, page, scanned, task, straddled>>

Idle == [op |-> "idle", at |-> "none", claim |-> None, sent |-> 0, ans |-> None, count |-> 0, alive |-> FALSE]

Approval == {"scan", "link", "manual"}

Opened == [auth |-> "checking", count |-> 0, login |-> FALSE, manual |-> FALSE,
           code |-> None, link |-> None]

Handler(op, at, claim) ==
    [op |-> op, at |-> at, claim |-> claim, sent |-> cookie, ans |-> None, count |-> 0, alive |-> TRUE]

Starts(s, op, at, claim) == task[s] = Idle /\ task' = [task EXCEPT ![s] = Handler(op, at, claim)]

Init ==
    /\ status \in [Claim -> {"pending", "revoked"}]
    /\ admitted = {}
    /\ issued \in 0 .. 1
    /\ live = 1 .. issued
    /\ cookie = issued
    /\ page \in {[Opened EXCEPT !.link = c] : c \in Claim \cup {None}}
    /\ scanned = {}
    /\ \E s \in Slot : task = [x \in Slot |-> IF x = s THEN Handler("load", "program", None) ELSE Idle]
    /\ straddled = FALSE

-----------------------------------------------------------------------------
(* The server: what a request is answered, and what it changes *)

Known(t) == t.sent \in live

Answered(s, ans) == task' = [task EXCEPT ![s].ans = ans]

ApprovedCount == Cardinality({c \in Claim : status[c] = "approved"})

ServeProgram(s) ==
    /\ task[s].at = "program"
    /\ \E ans \in {"ok", "missing", "expired"} : Answered(s, ans)
    /\ UNCHANGED server

ServeSession(s) ==
    /\ task[s].at = "session"
    /\ task' = [task EXCEPT ![s].ans = IF Known(task[s]) THEN "ok" ELSE "auth", ![s].count = ApprovedCount]
    /\ UNCHANGED server

\* The password is right or wrong, or there were too many attempts: see ApproverDesk.
ServeLogin(s) ==
    /\ task[s].at = "login"
    /\ \/ /\ issued < MaxSession
          /\ issued' = issued + 1
          /\ live' = live \cup {issued + 1}
          /\ task' = [task EXCEPT ![s].ans = "ok", ![s].sent = issued + 1]
       \/ Answered(s, "refused") /\ UNCHANGED <<issued, live>>
    /\ UNCHANGED <<status, admitted>>

ServeLogout(s) ==
    /\ task[s].at = "logout"
    /\ Answered(s, IF Known(task[s]) THEN "ok" ELSE "auth")
    /\ live' = live \ {task[s].sent}
    /\ UNCHANGED <<status, admitted, issued>>

ServeApproval(s) ==
    LET c == task[s].claim
    IN /\ task[s].at = "approve"
       /\ Answered(s, IF ~Known(task[s]) THEN "auth"
                      ELSE CASE status[c] = "pending"  -> "ok"
                             [] status[c] = "approved" -> "already"
                             [] status[c] = "revoked"  -> "revoked")
       /\ IF Known(task[s]) /\ status[c] = "pending"
          THEN status' = [status EXCEPT ![c] = "approved"] /\ admitted' = admitted \cup {c}
          ELSE UNCHANGED <<status, admitted>>
       /\ UNCHANGED <<live, issued>>

Serve(s) ==
    /\ task[s].ans = None
    /\ ServeProgram(s) \/ ServeSession(s) \/ ServeLogin(s) \/ ServeLogout(s) \/ ServeApproval(s)
    /\ UNCHANGED <<cookie, page, scanned, straddled>>

\* A request or its answer is lost, or the server fails.
Fails(s) ==
    /\ task[s] # Idle
    /\ task' = [task EXCEPT ![s].ans = "error", ![s].count = 0]
    /\ UNCHANGED <<server, cookie, page, scanned, straddled>>

-----------------------------------------------------------------------------
(* What becomes of the page *)

\* The effect of signing out is undone when the page is in another state.
Unlogged(tasks) == [s \in Slot |-> IF tasks[s].op = "logout" THEN [tasks[s] EXCEPT !.alive = FALSE] ELSE tasks[s]]

Ends(s) == [task EXCEPT ![s] = Idle]

GoesOn(s, at, sent) == task' = [task EXCEPT ![s] = [@ EXCEPT !.at = at, !.ans = None, !.sent = sent]]

UnderWay == \E s \in Slot : task[s].op \in Approval

-----------------------------------------------------------------------------
(* Opening the page *)

ProgramAnswers(s) ==
    /\ task[s].at = "program" /\ task[s].ans # None
    /\ CASE task[s].ans = "missing" -> page' = [page EXCEPT !.auth = "programMissing"] /\ task' = Ends(s)
         [] task[s].ans = "expired" -> page' = [page EXCEPT !.auth = "programExpired"] /\ task' = Ends(s)
         [] OTHER -> GoesOn(s, "session", cookie) /\ UNCHANGED page
    /\ UNCHANGED <<server, cookie, scanned, straddled>>

SessionAnswers(s) ==
    /\ task[s].op = "load" /\ task[s].at = "session" /\ task[s].ans # None
    /\ page' = IF task[s].ans = "ok" THEN [page EXCEPT !.auth = "loggedIn", !.count = task[s].count]
               ELSE [page EXCEPT !.auth = "loggedOut"]
    /\ task' = Ends(s)
    /\ UNCHANGED <<server, cookie, scanned, straddled>>

\* A link with another claim is opened in the page.
HashChange(c) ==
    /\ page' = [page EXCEPT !.link = c]
    /\ page.link # c
    /\ UNCHANGED <<server, cookie, scanned, task, straddled>>

-----------------------------------------------------------------------------
(* Signing in and out *)

\* The form is there, and its button is not disabled.
MayLogIn == page.auth = "loggedOut" /\ ~page.login

SubmitLogin(s) ==
    /\ MayLogIn
    /\ Starts(s, "login", "login", None)
    /\ page' = [page EXCEPT !.login = TRUE]
    /\ UNCHANGED <<server, cookie, scanned, straddled>>

LoginAnswers(s) ==
    /\ task[s].at = "login" /\ task[s].ans # None
    /\ IF task[s].ans = "ok"
       THEN cookie' = task[s].sent /\ GoesOn(s, "session", task[s].sent) /\ UNCHANGED page
       ELSE /\ page' = [page EXCEPT !.login = FALSE]
            /\ task' = Ends(s)
            /\ UNCHANGED cookie
    /\ UNCHANGED <<server, scanned, straddled>>

LoginDone(s) ==
    /\ task[s].op = "login" /\ task[s].at = "session" /\ task[s].ans # None
    /\ page' = IF task[s].ans = "ok"
               THEN [page EXCEPT !.login = FALSE, !.auth = "loggedIn", !.count = task[s].count]
               ELSE [page EXCEPT !.login = FALSE]
    /\ task' = Ends(s)
    /\ straddled' = (straddled \/ UnderWay)
    /\ UNCHANGED <<server, cookie, scanned>>

PressLogout(s) ==
    /\ page.auth = "loggedIn"
    /\ Starts(s, "logout", "logout", None)
    /\ page' = [page EXCEPT !.auth = "loggingOut", !.count = 0]
    /\ UNCHANGED <<server, cookie, scanned, straddled>>

\* Whether or not the server has heard of it.
LogoutAnswers(s) ==
    /\ task[s].at = "logout" /\ task[s].ans # None
    /\ cookie' = IF task[s].ans = "ok" THEN 0 ELSE cookie
    /\ page' = IF task[s].alive THEN [page EXCEPT !.auth = "loggedOut"] ELSE page
    /\ task' = Ends(s)
    /\ UNCHANGED <<server, scanned, straddled>>

-----------------------------------------------------------------------------
(* Approving *)

Scan(s, v) ==
    /\ page.auth = "loggedIn" /\ v \notin scanned
    /\ scanned' = scanned \cup {v}
    /\ Starts(s, "scan", "approve", v)
    /\ UNCHANGED <<server, cookie, page, straddled>>

ConfirmDeepLink(s) ==
    /\ page.auth = "loggedIn" /\ page.link # None
    /\ Starts(s, "link", "approve", page.link)
    /\ page' = [page EXCEPT !.link = None]
    /\ UNCHANGED <<server, cookie, scanned, straddled>>

DismissDeepLink ==
    /\ page.auth = "loggedIn" /\ page.link # None
    /\ page' = [page EXCEPT !.link = None]
    /\ UNCHANGED <<server, cookie, scanned, task, straddled>>

ChangeManualCode(c) ==
    /\ page.auth = "loggedIn" /\ page.code # c
    /\ page' = [page EXCEPT !.code = c]
    /\ UNCHANGED <<server, cookie, scanned, task, straddled>>

SubmitManualCode(s) ==
    /\ page.auth = "loggedIn" /\ page.code # None /\ ~page.manual
    /\ Starts(s, "manual", "approve", page.code)
    /\ page' = [page EXCEPT !.manual = TRUE]
    /\ UNCHANGED <<server, cookie, scanned, straddled>>

\* Mutant: a claim that was approved already is counted again.
AfterApproval_CountsAll(p, ans) ==
    CASE ans \in {"ok", "already"} -> [p EXCEPT !.count = @ + 1]
      [] ans = "auth"              -> [p EXCEPT !.auth = "loggedOut"]
      [] OTHER                     -> p

\* A session that has ended sends the approver back to the form.
AfterApproval(p, ans) ==
    CASE ans = "ok"   -> [p EXCEPT !.count = @ + 1]
      [] ans = "auth" -> [p EXCEPT !.auth = "loggedOut"]
      [] OTHER        -> p

ApprovalAnswers(s) ==
    LET t == task[s]
        p == AfterApproval(page, t.ans)
    IN /\ t.at = "approve" /\ t.ans # None
       /\ page' = IF t.op = "manual"
                  THEN [p EXCEPT !.manual = FALSE,
                                 !.code = IF t.ans \in {"ok", "already"} THEN None ELSE @]
                  ELSE p
       /\ task' = IF t.ans = "auth" THEN Unlogged(Ends(s)) ELSE Ends(s)
       /\ UNCHANGED <<server, cookie, scanned, straddled>>

-----------------------------------------------------------------------------
(* The timer of a scan, and what others do *)

ScanEnds(v) == scanned' = scanned \ {v} /\ v \in scanned /\ UNCHANGED <<server, cookie, page, task, straddled>>

OtherApproves(c) ==
    /\ status[c] = "pending"
    /\ status' = [status EXCEPT ![c] = "approved"] /\ admitted' = admitted \cup {c}
    /\ UNCHANGED <<live, issued, cookie, page, scanned, task, straddled>>

Revokes(c) ==
    /\ status[c] = "approved"
    /\ status' = [status EXCEPT ![c] = "revoked"]
    /\ UNCHANGED <<admitted, live, issued, cookie, page, scanned, task, straddled>>

\* The session expires, or the owner changes the approver's password.
SessionEnds ==
    /\ live # {} /\ live' = {}
    /\ UNCHANGED <<status, admitted, issued, cookie, page, scanned, task, straddled>>

-----------------------------------------------------------------------------
Next ==
    \/ \E s \in Slot : \/ Serve(s) \/ Fails(s)
                       \/ ProgramAnswers(s) \/ SessionAnswers(s)
                       \/ SubmitLogin(s) \/ LoginAnswers(s) \/ LoginDone(s)
                       \/ PressLogout(s) \/ LogoutAnswers(s)
                       \/ ConfirmDeepLink(s) \/ SubmitManualCode(s) \/ ApprovalAnswers(s)
                       \/ \E v \in Claim : Scan(s, v)
    \/ DismissDeepLink \/ SessionEnds
    \/ \E c \in Claim : HashChange(c) \/ ChangeManualCode(c) \/ OtherApproves(c) \/ Revokes(c) \/ ScanEnds(c)

Spec == Init /\ [][Next]_vars

-----------------------------------------------------------------------------
(* Every variable has its type. *)
TypeOK ==
    /\ status \in [Claim -> {"pending", "approved", "revoked"}]
    /\ admitted \subseteq Claim
    /\ issued \in 0 .. MaxSession /\ live \subseteq 1 .. issued /\ cookie \in 0 .. issued
    /\ page.auth \in {"checking", "loggedOut", "loggedIn", "loggingOut", "programMissing", "programExpired"}
    /\ page.count \in 0 .. 2 * Cardinality(Claim)
    /\ {page.login, page.manual} \subseteq BOOLEAN
    /\ {page.code, page.link} \subseteq Claim \cup {None}
    /\ scanned \subseteq Claim
    /\ \A s \in Slot : task[s] = Idle
                       \/ task[s].at \in {"program", "session", "login", "logout", "approve"}
    /\ straddled \in BOOLEAN

(* Whatever the page says it is waiting for has exactly one handler that will end it. *)
WaitsForHandler ==
    LET One(op) == Cardinality({s \in Slot : task[s].op = op /\ task[s].alive}) = 1
    IN /\ page.auth = "checking" => One("load")
       /\ (page.auth = "loggingOut") <=> One("logout")
       /\ page.login <=> One("login")
       /\ page.manual <=> One("manual")

(* The number of approvals shown is never more than the claims that were ever approved,      *)
(* whoever approves or revokes them meanwhile and whatever is lost; unless an approval that  *)
(* was under way during a sign-in is counted both by the server and by the page.              *)
CountIsTrue == page.auth = "loggedIn" /\ ~straddled => page.count <= Cardinality(admitted)

ApproverScreenIsTrue == WaitsForHandler /\ CountIsTrue
=============================================================================
