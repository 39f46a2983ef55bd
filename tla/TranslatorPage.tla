---------------------------- MODULE TranslatorPage ----------------------------
(***************************************************************************)
(* The page of one translator: going live, stopping, signing out, the      *)
(* recovery of a broadcast whose room was lost, heartbeats, and the        *)
(* microphone behind it.                                                   *)
(*                                                                         *)
(* A handler of the page runs up to its first wait in the step that starts *)
(* it, and from one wait to the next in every step that follows; meanwhile *)
(* it occupies a slot.  A request is served in the step that sends it and  *)
(* its answer is handled later, or it fails, served or not.  The page's    *)
(* reservations are the rows that its token requests have made; what other *)
(* actors do to them is described by PublisherLease and reduced here to    *)
(* their being published and closed.                                       *)
(***************************************************************************)
EXTENDS Integers, FiniteSets

CONSTANTS
    Slot,           \* handlers of the page that may be under way at once
    MaxReservation, \* bound: reservations made for this page
    MaxAttempts,    \* recoveryMaxAttempts
    MaxEvents       \* bound: losses, removals, sign-outs and taps that nothing else bounds

ASSUME PageAssumption ==
    /\ MaxReservation \in Nat /\ MaxEvents \in Nat
    /\ MaxAttempts \in Nat \ {0}

VARIABLES
    session,   \* the translator's session is valid
    row,       \* row[r]: the state of reservation r
    other,     \* another device of the translator holds the stream
    room,      \* room[r]: the page's LiveKit room of reservation r
    page,      \* state and refs of the page
    mic,       \* media stream, publish graph and what feeds it
    beat,      \* the heartbeat whose answer the page will look at
    task,      \* task[s]: the handler in slot s
    events     \* events counted against MaxEvents

server == <<session, row, other>>
vars   == <<session, row, other, room, page, mic, beat, task, events>>

Reservation == 1 .. MaxReservation

NoBeat == [res |-> 0, ans |-> "none", catchUp |-> FALSE]
Idle   == [op |-> "idle", at |-> "none", old |-> 0, new |-> 0, ans |-> "none",
           reclaim |-> FALSE, auto |-> FALSE, out |-> FALSE, same |-> FALSE]

\* A page that has just been opened.
Opened ==
    [auth |-> "checking", status |-> "ready", res |-> 0, live |-> 0, muted |-> FALSE,
     stale |-> FALSE, exhausted |-> FALSE, ended |-> FALSE, canSwitch |-> FALSE,
     latch |-> FALSE, timer |-> FALSE, attempts |-> 0]

NoMic == [held |-> FALSE, graph |-> FALSE, fed |-> FALSE, leaked |-> FALSE]

Init ==
    /\ session \in BOOLEAN
    /\ row = [r \in Reservation |-> "none"]
    /\ other = FALSE
    /\ room = [r \in Reservation |-> "none"]
    /\ page = Opened
    /\ mic = NoMic
    /\ beat = NoBeat
    /\ task = [s \in Slot |-> Idle]
    /\ events = 0

Event == events < MaxEvents /\ events' = events + 1

-----------------------------------------------------------------------------
(* The server *)

Open(rw) == {r \in Reservation : rw[r] \in {"reserved", "published"}}
Unused == {r \in Reservation : row[r] = "none"}

Closed(rw, rs) == [r \in Reservation |-> IF r \in rs /\ r \in Open(rw) THEN "closed" ELSE rw[r]]

\* POST /realtime/stop for the reservation r; the page does not mind if it fails.
ServeStop(r) == row' \in {row} \cup (IF session THEN {Closed(row, {r})} ELSE {})

\* POST /realtime/token: what is answered, and the reservation made.
Refusal(reclaim) ==
    IF ~session THEN "auth"
    ELSE IF (other \/ Open(row) # {}) /\ ~reclaim THEN "busy"
    ELSE "none"

\* The handler in slot s, of the handlers tk, asks for a token.  With reclaim, whatever reservation
\* the translator has makes way.  Reservations that are used up, a bound of the model, are an error.
SendToken(s, tk) ==
    LET r == CHOOSE x \in Unused : \A y \in Unused : x <= y
        asked(new, ans) ==
            task' = [tk EXCEPT ![s] = [tk[s] EXCEPT !.at = "token", !.new = new, !.ans = ans]]
    IN IF Refusal(tk[s].reclaim) # "none"
       THEN asked(0, Refusal(tk[s].reclaim)) /\ UNCHANGED <<row, other>>
       ELSE IF Unused = {}
       THEN asked(0, "error") /\ UNCHANGED <<row, other>>
       ELSE /\ row' = [Closed(row, Open(row)) EXCEPT ![r] = "reserved"]
            /\ other' = FALSE
            /\ asked(r, "ok")

-----------------------------------------------------------------------------
(* The page, as functions of its record *)

\* The effect that follows every change of the publish state.
WithPublish(p, status, r) ==
    LET q == [p EXCEPT !.status = status, !.res = r]
    IN CASE status = "live" ->
              [q EXCEPT !.live = r, !.stale = FALSE, !.exhausted = FALSE,
                        !.attempts = 0, !.timer = FALSE]
         [] status \in {"ready", "stopped", "error"} ->
              [q EXCEPT !.live = 0, !.stale = FALSE, !.timer = FALSE]
         [] OTHER -> q

\* onLive
Live(p, r) == [WithPublish(p, "live", r) EXCEPT !.ended = FALSE, !.muted = FALSE]

\* Mutant: the status is left as it was.
Failed_StaysBusy(p, canSwitch) == [p EXCEPT !.canSwitch = canSwitch]

\* onPublishFailure: what is shown, unless the session is gone.
Failed(p, canSwitch) == [WithPublish(p, "error", 0) EXCEPT !.canSwitch = canSwitch]

\* The part of returnToLogin that concerns the record.
LoggedOut(p) == [WithPublish(p, "ready", 0) EXCEPT !.auth = "out", !.muted = FALSE]

\* What stopWithoutServerCleanup does once it has reported the silence.
Stopped(p) == [WithPublish(p, "stopped", 0) EXCEPT !.muted = FALSE, !.attempts = 0]

\* Mutant: the attempt that is about to be made is counted too.
Scheduled_OffByOne(p) ==
    IF p.latch \/ p.timer THEN p
    ELSE IF p.attempts + 1 >= MaxAttempts THEN [p EXCEPT !.exhausted = TRUE]
    ELSE [p EXCEPT !.timer = TRUE]

\* scheduleRecovery
Scheduled(p) ==
    IF p.latch \/ p.timer THEN p
    ELSE IF p.attempts >= MaxAttempts THEN [p EXCEPT !.exhausted = TRUE]
    ELSE [p EXCEPT !.timer = TRUE]

\* Mutant: one attempt is given back instead of all.
Healthy_CountsDown(p) == [p EXCEPT !.stale = FALSE, !.exhausted = FALSE, !.attempts = @ - 1]

\* A heartbeat that the server has answered, or a transport that has healed itself.
Healthy(p) == [p EXCEPT !.stale = FALSE, !.exhausted = FALSE, !.attempts = 0]

Busy(p) == p.status \in {"connecting", "reconnecting", "live"}

-----------------------------------------------------------------------------
(* The microphone *)

\* stopMediaTracks: the stream the page holds ends and the graph is destroyed.
MicStopped == [mic EXCEPT !.held = FALSE, !.graph = FALSE, !.fed = FALSE]

\* The graph that a pending change of the source captured is not the page's any more.
GraphReplaced(tk) == [s \in Slot |-> [tk[s] EXCEPT !.same = FALSE]]

\* A stream has been granted to acquireMicTrack, for a new graph.
MicAcquired == [held |-> TRUE, graph |-> TRUE, fed |-> TRUE, leaked |-> mic.leaked \/ mic.held]

\* A stream has been granted to reacquireSource: the stream held by now ends, and the new one
\* feeds the graph that was captured before the wait.
SourceSwapped(same) == [mic EXCEPT !.held = TRUE, !.fed = IF same THEN TRUE ELSE FALSE]

-----------------------------------------------------------------------------
(* Signing in *)

\* The program's metadata has arrived, and then the session or the access link's sign-in.
Load ==
    /\ page.auth = "checking"
    /\ \E auth \in {"closed", "out"} \cup (IF session THEN {"in"} ELSE {}) :
          page' = [page EXCEPT !.auth = auth]
    /\ UNCHANGED <<session, row, other, room, mic, beat, task, events>>

\* submitLogin, or the sign-in with an access link; applySession starts from a ready page.
Login ==
    /\ page.auth \in {"checking", "out"}
    /\ Event
    /\ session' = TRUE
    /\ page' = [WithPublish(page, "ready", 0) EXCEPT !.auth = "in", !.ended = FALSE, !.muted = FALSE]
    /\ UNCHANGED <<row, other, room, mic, beat, task>>

-----------------------------------------------------------------------------
(* Going live and reconnecting *)

Free(s) == task[s].op = "idle"
Start(s, t) == task' = GraphReplaced([task EXCEPT ![s] = t])

\* handleGoLive, with the button Go live, or with Switch session, which reclaims the stream.
GoLive(s, reclaim) ==
    /\ page.auth = "in" /\ ~Busy(page)
    /\ reclaim => page.status = "error" /\ page.canSwitch
    /\ Free(s)
    /\ page' = [WithPublish(page, "connecting", 0) EXCEPT !.muted = FALSE]
    /\ mic' = MicStopped
    /\ Start(s, [Idle EXCEPT !.op = "golive", !.at = "mic", !.reclaim = reclaim])
    /\ UNCHANGED <<session, row, other, room, beat, events>>

\* handleReconnect from the record p: the broadcast that is live, if there is one, is replaced.
Reconnect(s, p, auto) ==
    /\ Free(s)
    /\ page' = [WithPublish(p, "reconnecting", 0) EXCEPT !.muted = FALSE, !.latch = TRUE]
    /\ mic' = MicStopped
    /\ Start(s, [Idle EXCEPT !.op = "reconnect", !.at = "mic", !.reclaim = TRUE, !.auto = auto,
                             !.old = IF p.status = "live" THEN p.res ELSE 0])

\* The button Reconnect.
PressReconnect(s) ==
    /\ page.auth = "in" /\ page.status \in {"live", "stopped", "error"}
    /\ ~page.latch
    /\ Event
    /\ Reconnect(s, page, FALSE)
    /\ UNCHANGED <<session, row, other, room, beat>>

\* The recovery timer of scheduleRecovery.
TimerFires ==
    /\ page.timer
    /\ LET p == [page EXCEPT !.timer = FALSE]
       IN IF page.live = 0 \/ page.latch
          THEN page' = p /\ UNCHANGED <<mic, task>>
          ELSE \E s \in Slot : Reconnect(s, [p EXCEPT !.attempts = @ + 1], TRUE)
    /\ UNCHANGED <<session, row, other, room, beat, events>>

Done(s) == [task EXCEPT ![s] = Idle]

\* The latch is the reconnect's, and falls however it ends.
Unlatched(p, t) == IF t.op = "reconnect" THEN [p EXCEPT !.latch = FALSE] ELSE p

\* The microphone is refused.
MicRefused(s) ==
    /\ task[s].op \in {"golive", "reconnect"} /\ task[s].at = "mic"
    /\ Event
    /\ page' = Unlatched(Failed(page, FALSE), task[s])
    /\ task' = Done(s)
    /\ UNCHANGED <<session, row, other, room, mic, beat>>

\* The microphone is granted: a token is asked for, after the old broadcast's room is closed
\* and its reservation freed, if there is one.
MicGranted(s) ==
    LET t == task[s]
    IN /\ t.op \in {"golive", "reconnect"} /\ t.at = "mic"
       /\ mic' = MicAcquired
       /\ IF t.old = 0
          THEN /\ SendToken(s, GraphReplaced(task))
               /\ UNCHANGED room
          ELSE /\ room' = [room EXCEPT ![t.old] = "left"]
               /\ ServeStop(t.old)
               /\ task' = GraphReplaced([task EXCEPT ![s].at = "stop"])
               /\ UNCHANGED other
       /\ UNCHANGED <<session, page, beat, events>>

\* The old reservation is freed, or could not be.
OldFreed(s) ==
    /\ task[s].op = "reconnect" /\ task[s].at = "stop"
    /\ SendToken(s, task)
    /\ UNCHANGED <<session, room, page, mic, beat, events>>

\* publish or reconnect of the client has failed with the error `ans`.
Fail(s, ans) ==
    /\ mic' = MicStopped
    /\ page' = Unlatched(IF ans = "auth" THEN LoggedOut(page) ELSE Failed(page, ans = "busy"), task[s])
    /\ beat' = IF ans = "auth" THEN NoBeat ELSE beat
    /\ task' = GraphReplaced(Done(s))

TokenRefused(s) ==
    /\ task[s].at = "token" /\ task[s].ans # "ok"
    /\ Fail(s, task[s].ans)
    /\ UNCHANGED <<session, row, other, room, events>>

\* The answer is lost, after or before the reservation was made.
TokenLost(s) ==
    /\ task[s].at = "token"
    /\ Event
    /\ Fail(s, "error")
    /\ UNCHANGED <<session, row, other, room>>

\* The page has joined the room and published its track: LiveKit has not asked whether the
\* reservation is still open.
Joined(s) ==
    LET r == task[s].new
    IN /\ task[s].at = "token" /\ task[s].ans = "ok"
       /\ room' = [room EXCEPT ![r] = "up"]
       /\ page' = Unlatched(Live(page, r), task[s])
       /\ beat' = NoBeat
       /\ task' = Done(s)
       /\ UNCHANGED <<session, row, other, mic, events>>

\* The room cannot be joined: the new reservation is given up first.
JoinFails(s) ==
    /\ task[s].at = "token" /\ task[s].ans = "ok"
    /\ Event
    /\ ServeStop(task[s].new)
    /\ task' = [task EXCEPT ![s].at = "undo"]
    /\ UNCHANGED <<session, other, room, page, mic, beat>>

Undone(s) ==
    /\ task[s].at = "undo"
    /\ Fail(s, "error")
    /\ UNCHANGED <<session, row, other, room, events>>

-----------------------------------------------------------------------------
(* Stopping and signing out *)

\* handleStop, and the end that a heartbeat brings: silence is reported first, and nothing else
\* happens before the report is answered.  The broadcast is the one that was live at the tap.
Ending(s, res, op, out) ==
    task' = [task EXCEPT ![s] = [Idle EXCEPT !.op = op, !.at = "silence", !.old = res, !.out = out]]

PressStop(s) ==
    /\ page.auth = "in" /\ page.status = "live"
    /\ Free(s)
    /\ Event
    /\ Ending(s, page.res, "stop", FALSE)
    /\ UNCHANGED <<session, row, other, room, page, mic, beat>>

\* The rest of stopWithoutServerCleanup; handleStop then closes the room and frees the
\* reservation, if the room is one the client still has.
SilenceReported(s) ==
    LET t == task[s]
        known == t.op = "stop" /\ room[t.old] \in {"up", "shaky", "down"}
    IN /\ t.at = "silence"
       /\ page' = Stopped(page)
       /\ mic' = MicStopped
       /\ beat' = NoBeat
       /\ IF known
          THEN /\ room' = [room EXCEPT ![t.old] = "left"]
               /\ ServeStop(t.old)
          ELSE UNCHANGED <<room, row>>
       /\ task' = GraphReplaced(IF t.op = "end" THEN Done(s) ELSE [task EXCEPT ![s].at = "freed"])
       /\ UNCHANGED <<session, other, events>>

\* The server has answered, or not; signing out ends with the login form.
StopDone(s) ==
    LET t == task[s]
    IN /\ t.op = "stop" /\ t.at = "freed"
       /\ IF t.out
          THEN /\ page' = LoggedOut(page)
               /\ mic' = MicStopped
               /\ beat' = NoBeat
               /\ task' = GraphReplaced(Done(s))
          ELSE task' = Done(s) /\ UNCHANGED <<page, mic, beat>>
       /\ UNCHANGED <<session, row, other, room, events>>

\* handleSignOut: logout ends the session and frees what it holds, or fails.
PressSignOut(s) ==
    /\ page.auth = "in"
    /\ Free(s)
    /\ Event
    /\ \/ session' = FALSE /\ row' = IF session THEN Closed(row, Open(row)) ELSE row
       \/ UNCHANGED <<session, row>>
    /\ task' = [task EXCEPT ![s] = [Idle EXCEPT !.op = "signout", !.at = page.status, !.old = page.res]]
    /\ UNCHANGED <<other, room, page, mic, beat>>

\* What was live at the tap is stopped, what was on its way is only forgotten.
SignedOut(s) ==
    LET t == task[s]
        p == IF t.at \in {"connecting", "reconnecting"} THEN Stopped(page) ELSE page
    IN /\ t.op = "signout"
       /\ IF t.at = "live"
          THEN Ending(s, t.old, "stop", TRUE) /\ UNCHANGED <<page, mic, beat>>
          ELSE /\ page' = LoggedOut(p)
               /\ mic' = MicStopped
               /\ beat' = NoBeat
               /\ task' = GraphReplaced(Done(s))
       /\ UNCHANGED <<session, row, other, room, events>>

-----------------------------------------------------------------------------
(* On the air *)

\* handleMute
PressMute ==
    /\ page.auth = "in" /\ page.status = "live"
    /\ Event
    /\ page' = [page EXCEPT !.muted = ~@]
    /\ UNCHANGED <<session, row, other, room, mic, beat, task>>

\* Another microphone or another toggle: handleSelectMic, handleToggleAudio.
ChangeSource(s) ==
    /\ page.auth = "in" /\ mic.graph
    /\ Free(s)
    /\ Event
    /\ task' = [task EXCEPT ![s] = [Idle EXCEPT !.op = "swap", !.at = "mic", !.same = TRUE]]
    /\ UNCHANGED <<session, row, other, room, page, mic, beat>>

SourceGranted(s) ==
    /\ task[s].op = "swap"
    /\ mic' = SourceSwapped(task[s].same)
    /\ task' = Done(s)
    /\ UNCHANGED <<session, row, other, room, page, beat, events>>

SourceRefused(s) ==
    /\ task[s].op = "swap"
    /\ task' = Done(s)
    /\ UNCHANGED <<session, row, other, room, page, mic, beat, events>>

\* The answer of the server to a heartbeat for the reservation r.
BeatAnswers(r) ==
    {"error", IF ~session THEN "auth" ELSE IF row[r] = "published" THEN "ok" ELSE "inactive"}

\* A heartbeat, by the interval or because the page is visible again; the one before is not
\* looked at any more.  One that finds nothing to repair is left out.
SendBeat(catchUp, ans) ==
    /\ page.status = "live"
    /\ ans \in BeatAnswers(page.res)
    /\ ans = "ok" => page.stale \/ page.exhausted \/ page.attempts # 0
    /\ IF ans = "error" \/ catchUp THEN Event ELSE UNCHANGED events
    /\ beat' = [res |-> page.res, ans |-> ans, catchUp |-> catchUp]
    /\ UNCHANGED <<session, row, other, room, page, mic, task>>

BeatOk ==
    /\ beat.ans = "ok"
    /\ page' = Healthy(page)
    /\ beat' = NoBeat
    /\ UNCHANGED <<session, row, other, room, mic, task, events>>

\* A page that was away takes any failure for a lost broadcast.
CatchUpFails ==
    /\ beat.catchUp /\ beat.ans # "ok"
    /\ page' = Scheduled(page)
    /\ beat' = NoBeat
    /\ UNCHANGED <<session, row, other, room, mic, task, events>>

BeatFails ==
    /\ ~beat.catchUp /\ beat.ans = "error"
    /\ page' = IF page.live = beat.res THEN [page EXCEPT !.stale = TRUE] ELSE page
    /\ beat' = NoBeat
    /\ UNCHANGED <<session, row, other, room, mic, task, events>>

\* The server says that the broadcast, or the session, is over.
BeatEnds(s) ==
    /\ ~beat.catchUp /\ beat.ans \in {"inactive", "auth"}
    /\ Free(s)
    /\ beat' = NoBeat
    /\ IF page.live # beat.res
       THEN UNCHANGED <<page, mic, task>>
       ELSE LET t == [Idle EXCEPT !.op = "end", !.at = "silence", !.old = beat.res]
                p == [page EXCEPT !.ended = TRUE]
            IN IF beat.ans = "auth"
               THEN page' = LoggedOut(p) /\ mic' = MicStopped /\ Start(s, t)
               ELSE page' = p /\ task' = [task EXCEPT ![s] = t] /\ UNCHANGED mic
    /\ UNCHANGED <<session, row, other, room, events>>

-----------------------------------------------------------------------------
(* LiveKit and the other actors *)

\* The transport of a room wavers, heals, or is lost for good: LiveKit gave up, the token has
\* expired, or the participant was removed.
TransportWavers(r) ==
    /\ room[r] = "up"
    /\ Event
    /\ room' = [room EXCEPT ![r] = "shaky"]
    /\ page' = IF page.live = r THEN [page EXCEPT !.stale = TRUE] ELSE page
    /\ UNCHANGED <<session, row, other, mic, beat, task>>

TransportHeals(r) ==
    /\ room[r] = "shaky"
    /\ room' = [room EXCEPT ![r] = "up"]
    /\ page' = IF page.live = r THEN [Healthy(page) EXCEPT !.timer = FALSE] ELSE page
    /\ UNCHANGED <<session, row, other, mic, beat, task, events>>

TransportLost(r) ==
    /\ room[r] \in {"up", "shaky"}
    /\ IF row[r] = "closed" THEN UNCHANGED events ELSE Event
    /\ room' = [room EXCEPT ![r] = "down"]
    /\ page' = IF page.live = r THEN Scheduled([page EXCEPT !.stale = TRUE]) ELSE page
    /\ UNCHANGED <<session, row, other, mic, beat, task>>

\* The track_published webhook.
TrackPublished(r) ==
    /\ row[r] = "reserved" /\ room[r] \in {"up", "shaky"}
    /\ row' = [row EXCEPT ![r] = "published"]
    /\ UNCHANGED <<session, other, room, page, mic, beat, task, events>>

\* An admin ends the broadcast or the session, the lease lapses, a webhook closes the row ...
RowCloses(r, revoked) ==
    /\ r \in Open(row)
    /\ Event
    /\ row' = Closed(row, {r})
    /\ session' = IF revoked THEN FALSE ELSE session
    /\ UNCHANGED <<other, room, page, mic, beat, task>>

\* ... or another device of the translator takes the stream over.
OtherTakesOver ==
    /\ ~other
    /\ Event
    /\ other' = TRUE
    /\ row' = Closed(row, Open(row))
    /\ UNCHANGED <<session, room, page, mic, beat, task>>

-----------------------------------------------------------------------------

Handler(s) ==
    \/ MicGranted(s) \/ OldFreed(s) \/ TokenRefused(s) \/ Joined(s)
    \/ Undone(s) \/ SilenceReported(s) \/ StopDone(s) \/ SignedOut(s)
    \/ SourceGranted(s) \/ BeatEnds(s)

Taps(s) ==
    \/ \E reclaim \in BOOLEAN : GoLive(s, reclaim)
    \/ PressReconnect(s) \/ PressStop(s) \/ PressSignOut(s) \/ ChangeSource(s)

Beats == BeatOk \/ CatchUpFails \/ BeatFails

Faults(s) == MicRefused(s) \/ TokenLost(s) \/ JoinFails(s) \/ SourceRefused(s)

Outside(r) ==
    \/ TransportWavers(r) \/ TransportHeals(r) \/ TransportLost(r) \/ TrackPublished(r)
    \/ \E revoked \in BOOLEAN : RowCloses(r, revoked)

Next ==
    \/ Load \/ Login \/ TimerFires \/ PressMute \/ Beats \/ OtherTakesOver
    \/ \E catchUp \in BOOLEAN, ans \in {"ok", "inactive", "auth", "error"} : SendBeat(catchUp, ans)
    \/ \E s \in Slot : Handler(s) \/ Taps(s) \/ Faults(s)
    \/ \E r \in Reservation : Outside(r)

\* Waits end and timers fire; nobody has to press anything and LiveKit need not heal.
Fairness ==
    /\ \A s \in Slot : WF_vars(Handler(s))
    /\ WF_vars(TimerFires) /\ WF_vars(Beats)

Spec == Init /\ [][Next]_vars
FairSpec == Spec /\ Fairness

-----------------------------------------------------------------------------
(* Properties *)

\* The types of the state; the attempts stay within their bound.
TypeOK ==
    /\ session \in BOOLEAN /\ other \in BOOLEAN
    /\ row \in [Reservation -> {"none", "reserved", "published", "closed"}]
    /\ room \in [Reservation -> {"none", "up", "shaky", "down", "left"}]
    /\ page.auth \in {"checking", "closed", "out", "in"}
    /\ page.status \in {"ready", "connecting", "live", "reconnecting", "stopped", "error"}
    /\ page.res \in 0 .. MaxReservation /\ page.live \in 0 .. MaxReservation
    /\ page.attempts \in 0 .. MaxAttempts
    /\ mic \in [held : BOOLEAN, graph : BOOLEAN, fed : BOOLEAN, leaked : BOOLEAN]
    /\ events \in 0 .. MaxEvents

\* The button, the timer and a failing transport never reconnect twice at once, and a latch
\* that is set has a reconnect that will let go of it.
LatchIsReconnect ==
    Cardinality({s \in Slot : task[s].op = "reconnect"}) = (IF page.latch THEN 1 ELSE 0)

\* A page without controls - it connects or reconnects - has a handler that will show the
\* outcome, whatever stops, signs out or ends the broadcast in between.
BusyHasHandler ==
    page.status \in {"connecting", "reconnecting"} =>
        \E s \in Slot : task[s].op \in {"golive", "reconnect"}

\* A page that is on the air is so through a room that its client still has.
LiveIsJoined ==
    page.status = "live" => room[page.res] \in {"up", "shaky", "down"}

\* A broadcast whose room is gone for good is recovered, or the translator is asked to.
LostIsNoticed ==
    (page.status = "live" /\ room[page.res] = "down") =>
        page.timer \/ page.latch \/ page.exhausted

\* The page never shows less or more than there is: neither a spinner that nobody ends, nor a
\* broadcast that has ended, nor two recoveries at once.
ScreenTellsTruth == LatchIsReconnect /\ BusyHasHandler /\ LiveIsJoined /\ LostIsNoticed

\* A page whose room is gone for good does not stay on the air.
Recovers ==
    (page.status = "live" /\ room[page.res] = "down") ~>
        (page.status # "live" \/ room[page.res] # "down")

============================================================================
