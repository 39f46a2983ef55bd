-------------------------------- MODULE Console --------------------------------
(***************************************************************************)
(* The page of the management console (AdminScreen.tsx) and the requests   *)
(* it has in flight.  A request is sent in one step, served in another and *)
(* its answer handled in a third, in any order; after every step the       *)
(* effects of the page run, which bring it to the program its address      *)
(* names.                                                                  *)
(***************************************************************************)
EXTENDS Integers, FiniteSets, FiniteSetsExt

CONSTANTS
    Program,       \* programs there may be
    None,          \* no program, no address
    RoleAdmin,     \* the account is an admin, whose page lists the users too
    MaxCalls,      \* bound: requests in flight when the user or a timer adds one
    MaxSteps       \* bound: what the user does, and what happens to the session

VARIABLES
    page,          \* the state and the refs of AdminScreen
    panel,         \* ApproverAccessPanel, which lives while a program is shown
    calls,         \* requests in flight, and answers that are not handled
    programs,      \* the account's programs, on the server
    session,       \* the account's session is valid
    steps,
    unheard        \* history: the server has changed the list, the answer was lost, and the
                   \* list has not been asked for since

vars == <<page, panel, calls, programs, session, steps, unheard>>

Sections == {"overview", "status", "reports"}
Home     == [prog |-> None, section |-> "programs"]
Urls     == {Home} \cup [prog : Program, section : Sections]

\* A request, as the closure that awaits it remembers it.  "fresh" says that the counter it
\* compares itself with, when it does, has not moved on.
Request(kind, p, section) ==
    [n |-> 0, kind |-> kind, prog |-> p, section |-> section, fresh |-> TRUE, answer |-> "none",
     listed |-> {}]

Listing   == {"list", "users"}
Reporting == {"report", "part"}

\* Requests of these kinds are overtaken.
Overtaken(cs, kinds) == {[c EXCEPT !.fresh = @ /\ c.kind \notin kinds] : c \in cs}

\* Every request has a number no other has.
Send(cs, c) ==
    cs \cup {[c EXCEPT !.n = Min({i \in 1..(Cardinality(cs) + 1) : \A d \in cs : d.n # i})]}

NoPanel == [prog |-> None, access |-> None, shown |-> None, pending |-> FALSE]

SignedOutPage(url) ==
    [load |-> "login", url |-> url, listed |-> {}, selected |-> None, detail |-> None,
     status |-> None, summary |-> {}, section |-> "programs", identity |-> FALSE,
     loading |-> Home, suppress |-> FALSE, cursor |-> FALSE, fetching |-> FALSE, inFlight |-> 0,
     statusBusy |-> FALSE]

Init ==
    /\ \E url \in Urls : page = [SignedOutPage(url) EXCEPT !.load = "checking"]
    /\ panel = NoPanel
    /\ calls = Send({}, Request("list", None, "programs"))
    /\ programs \in SUBSET Program
    /\ session \in BOOLEAN
    /\ steps = 0
    /\ unheard = FALSE

-----------------------------------------------------------------------------
(* What runs by itself after a step *)

\* loadPrograms
ListPrograms(cs) == Send(Overtaken(cs, Listing), Request("list", None, "programs"))

\* loadDetail, until its requests: the program is selected and what was shown of another is
\* cleared.
Opening(pg, p) ==
    [pg EXCEPT !.selected = p, !.status = None, !.summary = {}, !.cursor = FALSE]

\* refetchReports, until its request.
Fetching(pg) == [pg EXCEPT !.fetching = TRUE, !.inFlight = @ + 1]
FetchReports(cs, pg, p) ==
    Send(Overtaken(cs, Reporting),
         Request(IF pg.cursor /\ pg.summary # {} THEN "part" ELSE "report", p, "reports"))

Named(pg) == pg.url.prog

\* The effect that follows the address, of a page that is ready.
Routed(pg) ==
    LET cleared == [pg EXCEPT !.selected = None, !.detail = None, !.section = "programs"]
        arrived == pg.detail = Named(pg) /\ pg.section = pg.url.section
    IN IF pg.load # "ready" THEN pg
       ELSE IF pg.url = Home THEN [cleared EXCEPT !.suppress = FALSE, !.loading = Home]
       ELSE IF pg.suppress THEN [pg EXCEPT !.suppress = ~arrived]
       ELSE IF arrived \/ pg.loading = pg.url THEN pg
       ELSE IF Named(pg) \notin pg.listed THEN [cleared EXCEPT !.url = Home, !.loading = Home]
       ELSE [Opening(pg, Named(pg)) EXCEPT !.loading = pg.url]

\* It opens a program when it sets pendingRouteLoad.
Opens(old, pg) == pg.loading # Home /\ pg.loading # old.loading

\* The panel of the program shown: another program resets it, no program unmounts it.
PanelOf(pg) ==
    IF pg.detail = panel.prog THEN panel ELSE [NoPanel EXCEPT !.prog = pg.detail]

\* The page and its requests after a step, once the effects have run: the address is followed,
\* the reports are fetched when they come into view, and the panel asks for its program.
Settle(pg, cs) ==
    LET r   == Routed(pg)
        cs1 == IF Opens(pg, r) THEN Send(cs, Request("open", Named(r), r.url.section)) ELSE cs
        view == /\ r.section = "reports" /\ r.selected # None
                /\ r.section # page.section \/ r.selected # page.selected
        cs2 == IF view THEN FetchReports(cs1, r, r.selected) ELSE cs1
        moved == r.detail # panel.prog
        cs3 == IF ~moved THEN cs2
               ELSE LET o == Overtaken(cs2, {"panel"} \cup (IF r.detail = None THEN {"password"} ELSE {}))
                    IN IF r.detail = None THEN o ELSE Send(o, Request("panel", r.detail, "overview"))
    IN /\ page'  = IF view THEN Fetching(r) ELSE r
       /\ calls' = cs3
       /\ panel' = PanelOf(r)

\* As Settle, of a step that touches nothing the effects depend on.
Rest(pg, cs) == page' = pg /\ calls' = cs /\ UNCHANGED panel

-----------------------------------------------------------------------------
(* The user, and the timers *)

Pressed == steps < MaxSteps /\ steps' = steps + 1 /\ UNCHANGED <<programs, session>>
Room == Cardinality(calls) < MaxCalls

\* A link of the page, an address that is typed or the browser's history.
Navigate(url) ==
    /\ Pressed /\ Room /\ url # page.url
    /\ Settle([page EXCEPT !.url = url], calls)

SignIn ==
    /\ Pressed /\ Room /\ page.load = "login"
    /\ Rest(page, Send(calls, Request("login", None, "programs")))

SignOut ==
    /\ Pressed /\ Room /\ page.load = "ready"
    /\ Rest(page, Send(calls, Request("logout", None, "programs")))

Retry ==
    /\ Pressed /\ Room /\ page.load = "error"
    /\ Rest(page, ListPrograms(calls))

\* Create a program, or restore one.
Add(p) ==
    /\ Pressed /\ Room /\ page.load = "ready" /\ page.detail = None
    /\ p \notin programs
    /\ Rest(page, Send(calls, Request("create", p, "programs")))

\* A request about the program shown names the program selected: its details are saved, it is
\* deleted, or one of its languages is added, changed, reordered, removed, ended or reset.
Act(kind) ==
    /\ Pressed /\ Room /\ page.load = "ready" /\ page.detail # None /\ page.selected # None
    /\ Rest(page, Send(calls, Request(kind, page.selected, page.section)))

\* The panel saves a password of the program it shows.
SavePassword ==
    /\ Pressed /\ Room /\ panel.prog # None /\ page.load = "ready" /\ ~panel.pending
    /\ panel.access # None
    /\ panel' = [panel EXCEPT !.pending = TRUE]
    /\ calls' = Send(calls, Request("password", panel.prog, "overview"))
    /\ UNCHANGED page

CloseShownPassword ==
    /\ panel.shown # None
    /\ panel' = [panel EXCEPT !.shown = None]
    /\ UNCHANGED <<page, calls, programs, session, steps>>

Timer == Room /\ page.load = "ready" /\ page.selected # None /\ UNCHANGED <<programs, session, steps>>

\* refetchStatus of the section "status", unless one is in flight.
PollStatus ==
    /\ Timer /\ page.section = "status" /\ ~page.statusBusy
    /\ Rest([page EXCEPT !.statusBusy = TRUE], Send(calls, Request("status", page.selected, "status")))

\* refetchReports of the section "reports", unless one is in flight.
PollReports ==
    /\ Timer /\ page.section = "reports" /\ page.inFlight = 0
    /\ Rest(Fetching(page), FetchReports(calls, page, page.selected))

-----------------------------------------------------------------------------
(* The server *)

Needs(c) == c.prog # None /\ c.kind # "create"

Serve(c) ==
    LET allowed == c.kind \in {"login", "logout"} \/ session
        ok      == allowed /\ (Needs(c) => c.prog \in programs)
    IN /\ c.answer = "none"
       /\ calls' = (calls \ {c}) \cup
            {[c EXCEPT !.answer = IF ok THEN "ok" ELSE IF allowed THEN "error" ELSE "auth",
                       !.listed = IF ok /\ c.kind = "list" THEN programs ELSE {}]}
       /\ programs' = IF ~ok THEN programs
                      ELSE IF c.kind = "create" THEN programs \cup {c.prog}
                      ELSE IF c.kind = "delete" THEN programs \ {c.prog} ELSE programs
       /\ session' = IF c.kind = "login" THEN TRUE ELSE IF c.kind = "logout" THEN FALSE ELSE session
       /\ UNCHANGED <<page, panel, steps>>

\* A request fails, or its answer is lost: the page cannot tell which.
Lose(c) ==
    /\ c.answer # "error"
    /\ calls' = (calls \ {c}) \cup {[c EXCEPT !.answer = "error", !.listed = {}]}
    /\ UNCHANGED <<page, panel, programs, session, steps>>

Expire ==
    /\ steps < MaxSteps /\ steps' = steps + 1
    /\ session /\ session' = FALSE
    /\ UNCHANGED <<page, panel, calls, programs>>

-----------------------------------------------------------------------------
(* Answers *)

\* handleAuthExpired
AuthExpired(pg, cs) ==
    Settle([SignedOutPage(pg.url) EXCEPT !.statusBusy = pg.statusBusy],
           Overtaken(cs, Listing \cup Reporting))

\* Whether the closure of a list, of the users or of a report still is the newest.
Heeded(c) == c.fresh

Listed(c, cs) ==
    IF ~Heeded(c) THEN Rest(page, cs)
    ELSE CASE c.answer = "auth"  -> AuthExpired(page, cs)
           [] c.answer = "error" -> Settle([page EXCEPT !.load = "error"], cs)
           [] OTHER ->
                LET pg == [page EXCEPT !.listed = c.listed, !.identity = TRUE]
                IN IF RoleAdmin THEN Settle(pg, Send(cs, [Request("users", None, "programs")
                                                           EXCEPT !.fresh = c.fresh]))
                   ELSE Settle([pg EXCEPT !.load = "ready"], cs)

\* The users come after the counter was compared, and are not compared again.
UsersListed(c, cs) ==
    IF c.answer = "ok" THEN Settle([page EXCEPT !.load = "ready"], cs)
    ELSE IF ~c.fresh THEN Rest(page, cs)
    ELSE IF c.answer = "auth" THEN AuthExpired(page, cs)
    ELSE Settle([page EXCEPT !.load = "error"], cs)

\* loadDetail, after its requests.
Shown(pg, c) ==
    [pg EXCEPT !.detail = c.prog, !.status = c.prog, !.summary = {c.prog}, !.section = c.section]

Opened(c, cs) ==
    CASE c.answer = "ok"   -> Settle(Shown(page, c), cs)
      [] c.answer = "auth" -> AuthExpired(page, cs)
      [] OTHER -> Rest(page, cs)

StatusDone(pg, c) == [pg EXCEPT !.statusBusy = FALSE]

StatusCame(c, cs) ==
    LET pg == StatusDone(page, c) IN
      CASE c.answer = "ok"   -> Rest([pg EXCEPT !.status = c.prog], cs)
        [] c.answer = "auth" -> AuthExpired(pg, cs)
        [] OTHER -> Rest(pg, cs)

\* The end of refetchReports, however it ends.
ReportDone(pg, c) ==
    [pg EXCEPT !.inFlight = IF @ > 0 THEN @ - 1 ELSE 0, !.fetching = @ /\ ~c.fresh]

ReportCame(c, cs) ==
    LET pg == ReportDone(page, c)
        numbers == IF c.kind = "report" THEN {c.prog}
                   ELSE IF page.summary = {} THEN {} ELSE page.summary \cup {c.prog}
    IN IF ~Heeded(c) THEN Rest(pg, cs)
       ELSE CASE c.answer = "ok" -> Rest([pg EXCEPT !.summary = numbers, !.cursor = TRUE], cs)
              [] c.answer = "auth" -> AuthExpired(pg, cs)
              [] OTHER -> Rest(pg, cs)

\* updateSelectedProgram
Saved(c, cs) ==
    IF c.answer = "ok" THEN Settle([page EXCEPT !.detail = c.prog], cs) ELSE Rest(page, cs)

\* deleteSelectedProgram
Removed(c, cs) ==
    IF c.answer # "ok" THEN Rest(page, cs)
    ELSE Settle([page EXCEPT !.selected = None, !.detail = None, !.status = None, !.summary = {},
                             !.loading = Home, !.suppress = TRUE, !.url = Home],
                ListPrograms(cs))

\* An action on a language is followed by refreshDetail, which the closure asks for its program.
Acted(c, cs) ==
    Rest(page, IF c.answer = "ok" THEN Send(cs, Request("detail", c.prog, c.section)) ELSE cs)

Refreshed(c, cs) ==
    LET pg == [page EXCEPT !.detail = c.prog, !.status = c.prog]
    IN IF c.answer # "ok" THEN Rest(page, cs)
       ELSE IF c.section = "reports"
       THEN Settle(Fetching(pg), FetchReports(cs, pg, c.prog))
       ELSE Settle(pg, cs)

AccessCame(c, cs) ==
    IF ~c.fresh THEN Rest(page, cs)
    ELSE IF c.answer = "auth" THEN AuthExpired(page, cs)
    ELSE /\ panel' = IF c.answer = "ok" THEN [panel EXCEPT !.access = c.prog] ELSE panel
         /\ page' = page /\ calls' = cs

\* Mutant: the panel does not compare the program it shows with the one it saved.
OfPanel_Mounted(c) == c.fresh

\* The panel that saved is still there and shows the program it saved.
OfPanel(c) == c.fresh /\ panel.prog = c.prog

PasswordSaved(c, cs) ==
    IF c.answer = "auth" THEN AuthExpired(page, cs)
    ELSE /\ page' = page /\ calls' = cs
         /\ panel' = IF ~OfPanel(c) THEN panel
                     ELSE IF c.answer # "ok" THEN [panel EXCEPT !.pending = FALSE]
                     ELSE [panel EXCEPT !.pending = FALSE, !.access = c.prog, !.shown = c.prog]

Handle(c) ==
    /\ c.answer # "none"
    /\ LET cs == calls \ {c} IN
         CASE c.kind = "list"   -> Listed(c, cs)
           [] c.kind = "users"  -> UsersListed(c, cs)
           [] c.kind = "open"   -> Opened(c, cs)
           [] c.kind = "status" -> StatusCame(c, cs)
           [] c.kind \in Reporting -> ReportCame(c, cs)
           [] c.kind = "detail" -> Refreshed(c, cs)
           [] c.kind = "act"    -> Acted(c, cs)
           [] c.kind = "save"   -> Saved(c, cs)
           [] c.kind = "delete" -> Removed(c, cs)
           [] c.kind = "panel"  -> AccessCame(c, cs)
           [] c.kind = "password" -> PasswordSaved(c, cs)
           [] c.kind = "logout" -> AuthExpired(page, cs)
           [] OTHER -> Rest(page, IF c.answer = "ok" THEN ListPrograms(cs) ELSE cs)
    /\ UNCHANGED <<programs, session, steps>>

\* A request that changes the list the server has was carried out, and its answer is not lost.
ChangedList(c) == c.kind \in {"create", "delete"} /\ c.answer = "ok"

\* The answer to c makes the page ask for its list.
AsksForList(c) == (c.kind = "login" /\ c.answer = "ok") \/ ChangedList(c)

Next ==
    \/ /\ \/ \E url \in Urls : Navigate(url)
          \/ SignIn \/ SignOut \/ SavePassword
          \/ \E p \in Program : Add(p)
          \/ \E kind \in {"save", "delete", "act"} : Act(kind)
          \/ CloseShownPassword \/ PollStatus \/ PollReports \/ Expire
          \/ \E c \in calls : Serve(c)
       /\ UNCHANGED unheard
    \/ Retry /\ unheard' = FALSE
    \/ \E c \in calls : Lose(c) /\ unheard' = (unheard \/ ChangedList(c))
    \/ \E c \in calls : Handle(c) /\ unheard' = (unheard /\ ~ AsksForList(c))

Spec == Init /\ [][Next]_vars

-----------------------------------------------------------------------------
(* Properties *)

Kinds == Listing \cup Reporting \cup {"open", "status", "detail", "act", "save", "delete", "create",
                                      "panel", "password", "login", "logout"}

InFlight(kinds) == {c \in calls : c.kind \in kinds}

\* The types, and that a page shows its programs only to an account it knows.
TypeOK ==
    /\ page.load \in {"checking", "login", "ready", "error"} /\ page.url \in Urls
    /\ page.loading \in Urls /\ page.listed \subseteq Program /\ page.summary \subseteq Program
    /\ {page.selected, page.detail, page.status} \subseteq Program \cup {None}
    /\ page.section \in Sections \cup {"programs"} /\ page.inFlight \in Nat
    /\ {page.identity, page.suppress, page.cursor, page.fetching, page.statusBusy, unheard} \subseteq BOOLEAN
    /\ panel \in [prog : Program \cup {None}, access : Program \cup {None},
                  shown : Program \cup {None}, pending : BOOLEAN]
    /\ \A c \in calls : c.kind \in Kinds /\ c.answer \in {"none", "ok", "auth", "error"}
    /\ panel.prog = page.detail

\* The flags that hold back the timers tell of a request in flight, whatever was overtaken,
\* failed or was answered after the session ended: no timer is held back for ever.
FlagsAreHonest ==
    /\ page.fetching <=> \E c \in InFlight(Reporting) : c.fresh
    /\ page.inFlight <= Cardinality(InFlight(Reporting))
    /\ page.statusBusy <=> InFlight({"status"}) # {}

\* The list shown is the server's, once nothing that changes it and no newer list is in flight:
\* an older list that is answered late does not stay on the page.  Two lists are not held to it.
\* The one that is shown when the answer to a change is lost stays until the list is asked for
\* again, for the page shows the error and does not reload; and an admin's may come back after a
\* failure, with the users that were asked for before it (loadPrograms).
ListIsCurrent ==
    /\ ~ RoleAdmin /\ ~ unheard /\ page.load = "ready"
    /\ InFlight({"create", "delete"}) = {}
    /\ \A c \in InFlight(Listing) : ~ c.fresh
    => page.listed = programs

\* A new password of the approvers is shown in the panel of the program it opens, although the
\* panel may have moved to another program before it was saved.
PasswordOfProgram == panel.shown # None => panel.shown = page.detail

=============================================================================
