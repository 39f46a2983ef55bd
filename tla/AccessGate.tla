------------------------------ MODULE AccessGate ------------------------------
(***************************************************************************)
(* Access of listeners to a program whose access control may be on: the    *)
(* rows of listener_access and the handlers that create, redeem, approve,  *)
(* revoke and verify them, and the gate every open page of a listener runs *)
(* in front of the player.  One listener, that is one client id, is        *)
(* modelled: its open pages ("tabs") share the browser's local storage.    *)
(*                                                                         *)
(* A request is a record of `calls` from the moment the page sends it to   *)
(* the moment the page handles its answer.  Every wait of a handler for a  *)
(* digest is a step of the server of its own; a page may be closed, and a  *)
(* request or its answer lost, at any point in between.                    *)
(***************************************************************************)
EXTENDS Integers, Sequences, FiniteSets

CONSTANTS
    Tabs,          \* pages the listener's browser may have open
    NoTab,         \* not in Tabs: the page of a request whose page was closed
    Streams,       \* language streams of the program
    MaxClaims,     \* bound: claims made
    MaxTokens,     \* bound: access tokens minted
    MaxGen,        \* bound: access generations of one page
    MaxJoins,      \* bound: acquisitions one page has in flight
    MaxEvents      \* bound: reloads, lost requests, revocations, changes of the
                   \* program's access control and checks asked for, together

VARIABLES
    accessOn,      \* programs.access_control_enabled
    claims,        \* rows of listener_access, oldest first; a claim is its index
    minted,        \* tokens minted so far; a token is its number, 0 is none
    storedToken,   \* local storage: accessToken
    storedClaim,   \* local storage: accessClaim, 0 if there is none
    page,          \* page[t]: the refs and the state of the page in tab t
    calls,         \* requests on their way, being served or answered
    events         \* events counted against MaxEvents

server  == <<accessOn, claims, minted>>
storage == <<storedToken, storedClaim>>
vars    == <<accessOn, claims, minted, storedToken, storedClaim, page, calls, events>>

NoPlayback == [status |-> "idle", stream |-> "none"]

\* What a page is before it is opened.
ClosedPage ==
    [gen |-> 0, status |-> "closed", claim |-> 0, checking |-> FALSE, held |-> 0,
     redeemed |-> FALSE, redeeming |-> FALSE, transitioned |-> FALSE, meta |-> FALSE,
     playback |-> NoPlayback, poll |-> <<0, 0>>]

Init ==
    /\ accessOn \in BOOLEAN
    /\ claims = <<>>
    /\ minted = 0
    /\ storedToken = 0 /\ storedClaim = 0
    /\ page = [t \in Tabs |-> ClosedPage]
    /\ calls = {}
    /\ events = 0

-----------------------------------------------------------------------------
(* Rows of the server *)

Holders(token) == {c \in DOMAIN claims : token # 0 /\ claims[c].token = token}

\* verifyAccessToken: the row that has the token now, and is approved.
Verified(token) == \E c \in Holders(token) : claims[c].status = "approved"

\* getStatusForAccessToken: a row that is neither approved nor revoked, or no row, is unknown.
TokenState(token) ==
    IF \E c \in Holders(token) : claims[c].status \in {"approved", "revoked"}
    THEN claims[CHOOSE c \in Holders(token) : TRUE].status
    ELSE "unknown"

\* accessState: what a page is told of a claim that it may not redeem.
ClaimState(c) == IF claims[c].status = "superseded" THEN "unknown" ELSE claims[c].status

\* createClaim: pending claims of the client give way, and a new one is inserted.
WithNewClaim ==
    Append([c \in DOMAIN claims |->
                IF claims[c].status = "pending"
                THEN [claims[c] EXCEPT !.status = "superseded"] ELSE claims[c]],
           [status |-> "pending", token |-> 0])

-----------------------------------------------------------------------------
(* Requests *)

Call(t, op, why, claim, token) ==
    [tab |-> t, op |-> op, why |-> why, claim |-> claim, token |-> token,
     show |-> FALSE, stream |-> "none", phase |-> "sent", ans |-> "none"]

ProgramCall(t, why, claim) == Call(t, "program", why, claim, 0)
ClaimCall(t, why)          == Call(t, "claim", why, 0, 0)
RedeemCall(t, claim, show) == [Call(t, "redeem", "redeem", claim, 0) EXCEPT !.show = show]
JoinCall(t, stream)        == [Call(t, "join", "join", 0, page[t].held) EXCEPT !.stream = stream]

\* A request whose answer nobody handles any more.  Only those that change rows of the server
\* are of interest then, for as long as they are not served.
Unheard(c) ==
    IF c.op \in {"claim", "redeem"} /\ c.phase # "done" THEN {[c EXCEPT !.tab = NoTab]} ELSE {}

\* isAccessGenerationCurrent: when the page takes up another generation, it handles no answer
\* of the generation before, except those to acquisitions.
OtherGeneration(t, cs) ==
    UNION {IF c.tab = t /\ c.op # "join" THEN Unheard(c) ELSE {c} : c \in cs}

Replace(c, d) ==
    calls' = (calls \ {c}) \cup IF d.tab = NoTab /\ d.phase = "done" THEN {} ELSE {d}
To(c, phase)  == [c EXCEPT !.phase = phase]
Answer(c, ans) == [c EXCEPT !.phase = "done", !.ans = ans]

\* GET /api/public/programs/:slug, of which the page reads one flag.
ServeProgram(c) ==
    /\ c.op = "program" /\ c.phase = "sent"
    /\ Replace(c, Answer(c, IF accessOn THEN "on" ELSE "off"))
    /\ UNCHANGED <<accessOn, claims, minted, storedToken, storedClaim, page, events>>

\* POST /api/listeners/access/claim; it does not ask whether access control is on.
ServeClaim(c) ==
    /\ c.op = "claim" /\ c.phase = "sent"
    /\ Len(claims) < MaxClaims
    /\ claims' = WithNewClaim
    /\ Replace(c, [Answer(c, "made") EXCEPT !.claim = Len(claims) + 1])
    /\ UNCHANGED <<accessOn, minted, storedToken, storedClaim, page, events>>

\* POST /api/listeners/access/status with a token.
ServeVerify(c) ==
    /\ c.op = "verify" /\ c.phase = "sent"
    /\ Replace(c, Answer(c, TokenState(c.token)))
    /\ UNCHANGED <<accessOn, claims, minted, storedToken, storedClaim, page, events>>

\* POST /api/listeners/access/status with a claim: the claim is read after one digest ...
ReadClaim(c) ==
    /\ c.op = "redeem" /\ c.phase = "sent"
    /\ Replace(c, IF claims[c.claim].status = "approved" THEN To(c, "mint")
                  ELSE Answer(c, ClaimState(c.claim)))
    /\ UNCHANGED <<accessOn, claims, minted, storedToken, storedClaim, page, events>>

\* The condition of the update that stores the hash of a new token.
MayMint(c) == claims[c].status = "approved"

\* ... and given a new token after two others, if it is approved still.  The token it had
\* before is lost with it.
MintToken(c) ==
    /\ c.op = "redeem" /\ c.phase = "mint"
    /\ minted < MaxTokens
    /\ IF MayMint(c.claim)
       THEN /\ minted' = minted + 1
            /\ claims' = [claims EXCEPT ![c.claim].token = minted + 1]
            /\ Replace(c, [Answer(c, "approved") EXCEPT !.token = minted + 1])
       ELSE /\ Replace(c, To(c, "again"))
            /\ UNCHANGED <<claims, minted>>
    /\ UNCHANGED <<accessOn, storedToken, storedClaim, page, events>>

\* A revocation has come in between: the claim is read again and its state answered.
ReadClaimAgain(c) ==
    /\ c.op = "redeem" /\ c.phase = "again"
    /\ Replace(c, Answer(c, ClaimState(c.claim)))
    /\ UNCHANGED <<accessOn, claims, minted, storedToken, storedClaim, page, events>>

\* An acquisition: the program is read, and if it asks for access the token is verified after
\* a digest.  The request for the token of the room, which follows, asks the same again.
ReadProgramForJoin(c) ==
    /\ c.op = "join" /\ c.phase = "sent"
    /\ Replace(c, IF accessOn THEN To(c, "verify") ELSE Answer(c, "joined"))
    /\ UNCHANGED <<accessOn, claims, minted, storedToken, storedClaim, page, events>>

VerifyForJoin(c) ==
    /\ c.op = "join" /\ c.phase = "verify"
    /\ Replace(c, Answer(c, IF Verified(c.token) THEN "joined" ELSE "denied"))
    /\ UNCHANGED <<accessOn, claims, minted, storedToken, storedClaim, page, events>>

Serve(c) ==
    \/ ServeProgram(c) \/ ServeClaim(c) \/ ServeVerify(c)
    \/ ReadClaim(c) \/ MintToken(c) \/ ReadClaimAgain(c)
    \/ ReadProgramForJoin(c) \/ VerifyForJoin(c)

\* The page sees the request fail: it was never received, or is served and nobody hears the
\* answer.
Lose(c) ==
    /\ c.tab # NoTab /\ c.ans # "error"
    /\ events < MaxEvents
    /\ events' = events + 1
    /\ \E unheard \in {{}, Unheard(c)} :
          calls' = (calls \ {c}) \cup {Answer(c, "error")} \cup unheard
    /\ UNCHANGED <<accessOn, claims, minted, storedToken, storedClaim, page>>

-----------------------------------------------------------------------------
(* The approver, and the admin *)

MayApprove(c) == claims[c].status = "pending"

\* approveClaim, by the claim of a scanned code or by the short code.
Approve(c) ==
    /\ MayApprove(c)
    /\ claims' = [claims EXCEPT ![c].status = "approved"]
    /\ UNCHANGED <<accessOn, minted, storedToken, storedClaim, page, calls, events>>

\* revokeForClient: whatever claim of the client is not revoked yet.
Revoke ==
    /\ \E c \in DOMAIN claims : claims[c].status # "revoked"
    /\ events < MaxEvents
    /\ events' = events + 1
    /\ claims' = [c \in DOMAIN claims |-> [claims[c] EXCEPT !.status = "revoked"]]
    /\ UNCHANGED <<accessOn, minted, storedToken, storedClaim, page, calls>>

\* updateProgram with another access mode; claims and tokens stay as they are.
SetAccessControl ==
    /\ events < MaxEvents
    /\ events' = events + 1
    /\ accessOn' = ~accessOn
    /\ UNCHANGED <<claims, minted, storedToken, storedClaim, page, calls>>

-----------------------------------------------------------------------------
(* The page *)

\* Mutant: the effect does not depend on the claim.
WithPolls_StatusOnly(old, new) ==
    [new EXCEPT !.poll =
        IF new.status # "waiting" THEN <<0, 0>>
        ELSE IF old.status = "waiting" THEN old.poll
        ELSE <<new.gen, new.claim>>]

\* The effect of the polls runs again when the status or the claim that is shown changes,
\* and captures the generation and the claim it finds then.
WithPolls(old, new) ==
    [new EXCEPT !.poll =
        IF new.status # "waiting" THEN <<0, 0>>
        ELSE IF old.status = "waiting" /\ old.claim = new.claim THEN old.poll
        ELSE <<new.gen, new.claim>>]

Page(t, p) == page' = [page EXCEPT ![t] = WithPolls(page[t], p)]

Status(p, status) == [p EXCEPT !.status = status, !.claim = 0, !.checking = FALSE]

\* Mutant: the claim is stored and not shown.
Waiting_NoClaim(p, claim, checking) ==
    [p EXCEPT !.status = "waiting", !.checking = checking]

Waiting(p, claim, checking) ==
    [p EXCEPT !.status = "waiting", !.claim = claim, !.checking = checking]
ServiceError(p, claim) == [Status(p, "error") EXCEPT !.claim = claim]

\* setWaitingCheckState: only where the gate waits or shows an error.
WaitingCheck(p, claim, checking) ==
    IF p.status \in {"waiting", "error", "retrying"} THEN Waiting(p, claim, checking) ELSE p

\* The page drops what earlier generations have under way.
NextGeneration(p) == [p EXCEPT !.gen = @ + 1, !.redeeming = FALSE, !.redeemed = FALSE]

\* initialAccessState: the flag, then the stored token, then the stored claim decide.
InitialAccess(t, p, rest) ==
    /\ IF ~p.meta
       THEN /\ Page(t, [Status(p, "disabled") EXCEPT !.held = 0])
            /\ calls' = rest
       ELSE IF storedToken # 0
       THEN /\ Page(t, p)
            /\ calls' = rest \cup {Call(t, "verify", "init", 0, storedToken)}
       ELSE IF storedClaim # 0
       THEN /\ Page(t, Waiting(p, storedClaim, FALSE))
            /\ calls' = rest
       ELSE /\ Page(t, p)
            /\ calls' = rest \cup {ClaimCall(t, "init")}
    /\ UNCHANGED <<accessOn, claims, minted, storedToken, storedClaim>>

\* The page is opened, or reloaded: nobody handles the answers to its earlier requests.
Open(t) ==
    /\ page[t].gen < MaxGen
    /\ IF page[t].status = "closed" THEN UNCHANGED events
       ELSE events < MaxEvents /\ events' = events + 1
    /\ LET gen == page[t].gen + 1
       IN /\ Page(t, [ClosedPage EXCEPT !.gen = gen, !.status = "loading"])
          /\ calls' = (UNION {IF c.tab = t THEN Unheard(c) ELSE {c} : c \in calls})
                        \cup {ProgramCall(t, "load", 0)}
    /\ UNCHANGED <<accessOn, claims, minted, storedToken, storedClaim>>

\* A request whose answer the page handles now.
Answered(c, op, why) == c.tab \in Tabs /\ c.op = op /\ c.why = why /\ c.phase = "done"

\* load: the metadata has arrived, or could not be fetched.
Loaded(c) ==
    /\ Answered(c, "program", "load")
    /\ IF c.ans = "error"
       THEN /\ Page(c.tab, Status(page[c.tab], "failed"))
            /\ calls' = calls \ {c}
            /\ UNCHANGED <<accessOn, claims, minted, storedToken, storedClaim>>
       ELSE InitialAccess(c.tab, [page[c.tab] EXCEPT !.meta = c.ans = "on", !.status = "checking"],
                          calls \ {c})
    /\ UNCHANGED events

\* The stored token was verified.  A failure is not a revocation: the token is kept.
TokenChecked(c) ==
    /\ Answered(c, "verify", "init")
    /\ LET p == page[c.tab]
       IN IF c.ans \in {"approved", "error"}
          THEN /\ Page(c.tab, [Status(p, "approved") EXCEPT !.held = c.token])
               /\ calls' = calls \ {c}
               /\ UNCHANGED storage
          ELSE /\ storedToken' = 0 /\ storedClaim' = 0
               /\ Page(c.tab, [p EXCEPT !.held = 0])
               /\ Replace(c, ClaimCall(c.tab, "init"))
    /\ UNCHANGED <<accessOn, claims, minted, events>>

\* mintWaitingAccessState: the new claim is stored and shown, as a QR code.
ClaimMade(c) ==
    /\ Answered(c, "claim", c.why)
    /\ LET p == [page[c.tab] EXCEPT !.redeeming = IF c.why = "redeem" THEN FALSE ELSE @]
       IN IF c.ans = "error"
          THEN Page(c.tab, ServiceError(p, 0)) /\ UNCHANGED storedClaim
          ELSE Page(c.tab, Waiting(p, c.claim, FALSE)) /\ storedClaim' = c.claim
    /\ calls' = calls \ {c}
    /\ UNCHANGED <<accessOn, claims, minted, storedToken, events>>

\* redeemAccessClaim: one redemption at a time, none once it has succeeded.
Redemption(p) == ~p.redeemed /\ ~p.redeeming

\* The safety poll, which runs for as long as the gate waits.  The poll of the broadcast of
\* approved claims takes the same step, earlier.
PollClaim(t) ==
    LET p == page[t]
    IN /\ p.status = "waiting" /\ p.poll[1] = p.gen /\ Redemption(p)
       /\ Page(t, [p EXCEPT !.redeeming = TRUE])
       /\ calls' = calls \cup {RedeemCall(t, p.poll[2], FALSE)}
       /\ UNCHANGED <<accessOn, claims, minted, storedToken, storedClaim, events>>

\* handleAccessCheck: the button of the gate; the program is fetched again first.
Check(t) ==
    LET p == page[t]
    IN /\ p.status = "waiting" /\ ~p.checking
       /\ events < MaxEvents
       /\ events' = events + 1
       /\ Page(t, [p EXCEPT !.checking = TRUE])
       /\ calls' = calls \cup {ProgramCall(t, "check", p.claim)}
       /\ UNCHANGED <<accessOn, claims, minted, storedToken, storedClaim>>

ProgramChecked(c) ==
    /\ Answered(c, "program", "check")
    /\ LET t == c.tab
           p == [page[t] EXCEPT !.meta = c.ans = "on"]
       IN CASE c.ans = "error" ->
                 Page(t, ServiceError(page[t], c.claim)) /\ calls' = calls \ {c}
            [] c.ans = "off" ->
                 Page(t, [Status(p, "disabled") EXCEPT !.held = 0]) /\ calls' = calls \ {c}
            [] c.ans = "on" /\ Redemption(p) ->
                 /\ Page(t, [p EXCEPT !.redeeming = TRUE])
                 /\ Replace(c, RedeemCall(t, c.claim, TRUE))
            [] OTHER ->
                 Page(t, p) /\ calls' = calls \ {c}
    /\ UNCHANGED <<accessOn, claims, minted, storedToken, storedClaim, events>>

\* Mutant: the latch is left set by an answer that does not approve.
Settled_Latched(p) == p

\* The redemption is over.
Settled(p) == [p EXCEPT !.redeeming = FALSE]

\* The answer to a redemption.
Redeemed(c) ==
    /\ Answered(c, "redeem", "redeem")
    /\ LET t == c.tab
           p == page[t]
           done == Settled(p)
       IN CASE c.ans = "approved" ->
                 /\ Page(t, [Status(done, "entering") EXCEPT !.held = c.token, !.redeemed = TRUE])
                 /\ storedToken' = c.token
                 /\ calls' = calls \ {c}
                 /\ UNCHANGED storedClaim
            [] c.ans \in {"revoked", "unknown"} ->
                 /\ Page(t, [p EXCEPT !.held = 0])
                 /\ storedToken' = 0 /\ storedClaim' = 0
                 /\ Replace(c, ClaimCall(t, "redeem"))
            [] OTHER ->
                 /\ Page(t, IF c.ans = "error" /\ c.show THEN ServiceError(done, c.claim)
                            ELSE WaitingCheck(done, c.claim, FALSE))
                 /\ calls' = calls \ {c}
                 /\ UNCHANGED storage
    /\ UNCHANGED <<accessOn, claims, minted, events>>

\* handleAccessRetry: the button of the error, with the claim it still has or from the start.
Retry(t) ==
    LET p == NextGeneration(page[t])
    IN /\ page[t].status = "error" /\ page[t].gen < MaxGen
       /\ IF p.claim # 0
          THEN /\ Page(t, [Waiting(p, p.claim, TRUE) EXCEPT !.redeeming = TRUE])
               /\ calls' = OtherGeneration(t, calls) \cup {RedeemCall(t, p.claim, TRUE)}
               /\ UNCHANGED <<accessOn, claims, minted, storedToken, storedClaim>>
          ELSE InitialAccess(t, [p EXCEPT !.status = "retrying"], OtherGeneration(t, calls))
       /\ UNCHANGED events

\* The timer that shows the approval for a moment before the player.
Enter(t) ==
    /\ page[t].status = "entering"
    /\ Page(t, [page[t] EXCEPT !.status = "approved"])
    /\ UNCHANGED <<accessOn, claims, minted, storedToken, storedClaim, calls, events>>

\* An acquisition: Listen, Switch or Reconnect for a stream, with the token the page holds.
\* The button of the stream that is being connected is disabled.
Acquire(t, s) ==
    LET p == page[t]
    IN /\ p.status \in {"disabled", "approved"}
       /\ p.playback # [status |-> "connecting", stream |-> s]
       /\ Cardinality({c \in calls : c.op = "join" /\ c.tab = t}) < MaxJoins
       /\ JoinCall(t, s) \notin calls
       /\ Page(t, [p EXCEPT !.playback = [status |-> "connecting", stream |-> s]])
       /\ calls' = calls \cup {JoinCall(t, s)}
       /\ UNCHANGED <<accessOn, claims, minted, storedToken, storedClaim, events>>

\* markAccessAcquisitionSucceeded: the claim has served its purpose.
Acquired(c) ==
    /\ Answered(c, "join", "join") /\ c.ans = "joined"
    /\ LET p == page[c.tab]
       IN /\ Page(c.tab, [p EXCEPT !.playback = [status |-> "connected", stream |-> c.stream],
                                   !.transitioned = IF p.held # 0 THEN FALSE ELSE @])
          /\ storedClaim' = IF p.held # 0 THEN 0 ELSE storedClaim
    /\ calls' = calls \ {c}
    /\ UNCHANGED <<accessOn, claims, minted, storedToken, events>>

\* Any other failure of an acquisition is shown at the stream.
NotAcquired(c) ==
    /\ Answered(c, "join", "join") /\ c.ans = "error"
    /\ Page(c.tab, [page[c.tab] EXCEPT !.playback = [status |-> "disconnected", stream |-> c.stream]])
    /\ calls' = calls \ {c}
    /\ UNCHANGED <<accessOn, claims, minted, storedToken, storedClaim, events>>

\* enterAccessGate looks at the token the page has now, and whether it has been here before.
GateIgnores(p, failedToken) == (p.held # 0 /\ p.held # failedToken) \/ p.transitioned

\* enterAccessGate: the token is given up, playback ends, and the program is fetched again.
Denied(c) ==
    /\ Answered(c, "join", "join") /\ c.ans = "denied"
    /\ LET t == c.tab
           p == NextGeneration(page[t])
       IN IF GateIgnores(page[t], c.token)
          THEN calls' = calls \ {c} /\ UNCHANGED <<page, storedToken, storedClaim>>
          ELSE /\ page[t].gen < MaxGen
               /\ Page(t, [Status(p, "checking") EXCEPT !.held = 0, !.transitioned = TRUE,
                                                        !.playback = NoPlayback])
               /\ storedToken' = 0 /\ storedClaim' = 0
               /\ calls' = OtherGeneration(t, calls \ {c}) \cup {ProgramCall(t, "gate", 0)}
    /\ UNCHANGED <<accessOn, claims, minted, events>>

\* The refusal stands if the program cannot be fetched.
GateChecked(c) ==
    /\ Answered(c, "program", "gate")
    /\ LET t == c.tab
           p == page[t]
       IN CASE c.ans = "off" ->
                 /\ Page(t, [Status(p, "disabled") EXCEPT !.transitioned = FALSE, !.meta = FALSE])
                 /\ calls' = calls \ {c}
            [] OTHER ->
                 /\ Page(t, [p EXCEPT !.meta = IF c.ans = "on" THEN TRUE ELSE @])
                 /\ Replace(c, ClaimCall(t, "gate"))
    /\ UNCHANGED <<accessOn, claims, minted, storedToken, storedClaim, events>>

-----------------------------------------------------------------------------

Handle(c) ==
    \/ Loaded(c) \/ TokenChecked(c) \/ ClaimMade(c)
    \/ ProgramChecked(c) \/ Redeemed(c) \/ Acquired(c) \/ NotAcquired(c)
    \/ Denied(c) \/ GateChecked(c)

Timers(t) == PollClaim(t) \/ Enter(t)

User(t) == Open(t) \/ Check(t) \/ Retry(t) \/ (\E s \in Streams : Acquire(t, s))

Next ==
    \/ \E c \in calls : Serve(c) \/ Handle(c) \/ Lose(c)
    \/ \E t \in Tabs : Timers(t) \/ User(t)
    \/ \E c \in DOMAIN claims : Approve(c)
    \/ Revoke \/ SetAccessControl

\* The server answers, the page handles what it is told and its timers fire; nobody has to
\* press a button, to approve or to revoke.
Fairness ==
    /\ \A t \in Tabs : \A op \in {"program", "claim", "verify", "redeem", "join"} :
          WF_vars(\E c \in calls : c.tab = t /\ c.op = op /\ (Serve(c) \/ Handle(c)))
    /\ \A t \in Tabs : WF_vars(Timers(t))

Spec == Init /\ [][Next]_vars
FairSpec == Spec /\ Fairness

-----------------------------------------------------------------------------
(* Properties *)

\* The types of the state, within the bounds; a gate that waits shows a claim that was made.
TypeOK ==
    /\ accessOn \in BOOLEAN
    /\ Len(claims) \in 0 .. MaxClaims
    /\ \A c \in DOMAIN claims :
         claims[c] \in [status : {"pending", "approved", "revoked", "superseded"},
                        token : 0 .. minted]
    /\ minted \in 0 .. MaxTokens
    /\ storedToken \in 0 .. minted
    /\ storedClaim \in 0 .. Len(claims)
    /\ \A t \in Tabs :
         /\ page[t].gen \in 0 .. MaxGen
         /\ page[t].held \in 0 .. minted
         /\ page[t].claim \in 0 .. Len(claims)
         /\ page[t].status = "waiting" => page[t].claim # 0
    /\ events \in 0 .. MaxEvents

InFlight(t) == {c \in calls : c.tab = t /\ c.op # "join"}

\* A gate that shows no button to press - it loads, checks, retries or has its button
\* disabled - has a request of its own under way, whatever answers of earlier generations and
\* of other handlers came in between.
GateHasWay(t) ==
    \/ page[t].status \in {"loading", "checking", "retrying"}
    \/ page[t].status = "waiting" /\ page[t].checking
    => InFlight(t) # {}

\* The polls of a gate that waits are those of the claim on the screen and of the generation
\* that is current, so that they go on.
PollsFollowScreen(t) == page[t].status = "waiting" => page[t].poll = <<page[t].gen, page[t].claim>>

\* The player that an approval opened holds a token, and a page without access control holds
\* none.  (The token may be one that was revoked since.)
PlayerHasToken(t) ==
    /\ page[t].status \in {"entering", "approved"} => page[t].held # 0
    /\ page[t].status = "disabled" => page[t].held = 0

\* The gate's screen agrees with its requests, its polls and its token: one without a button has
\* a request under way, one that waits polls for its own claim and generation, and one that is
\* open holds a token just if access is controlled.
GateIsSound == \A t \in Tabs : GateHasWay(t) /\ PollsFollowScreen(t) /\ PlayerHasToken(t)

\* A gate whose claim is approved leaves the waiting screen without a press of a button: the
\* player opens, an error is shown, or the approval is withdrawn first.
ApprovedGetsIn ==
    \A t \in Tabs :
        (/\ page[t].status = "waiting"
         /\ claims[page[t].claim].status = "approved")
        ~> (page[t].status # "waiting" \/ claims[page[t].claim].status # "approved")
============================================================================
