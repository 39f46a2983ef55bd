---------------------------- MODULE ListenerPage ----------------------------
(***************************************************************************)
(* The listener's page of one browser tab, over ListenerConnections: what  *)
(* it plays, the handlers of its buttons, which wait for the API, for      *)
(* LiveKit and for the audio element, and its recovery from a lost         *)
(* transport.                                                              *)
(*                                                                         *)
(* Handlers overlap: while one waits, another button may be pressed, a     *)
(* timer fire or a heartbeat fail. A latch is to keep reconnects apart, and *)
(* nothing else does. A handler that is refused because the listener is not *)
(* approved (any more) takes the whole page to the access gate, whatever    *)
(* the other handlers wait for; of the gate itself, which is AccessGate,    *)
(* only its coming and going is kept here.                                  *)
(***************************************************************************)
EXTENDS ListenerConnections

CONSTANTS
  MaxTask,       \* bound: handlers that wait at once
  MaxAttempts,   \* recoveryMaxAttempts, retries without a success
  PostKind,      \* bound: the posts nobody waits for that are not lost at once
  AccessControl  \* may the program ask for the approval of its listeners

ASSUME PageBounds == MaxTask \in Nat \ {0} /\ MaxAttempts \in Nat \ {0}
ASSUME PostKinds == PostKind \subseteq {"connected", "heartbeat", "leave"}

ASSUME AccessControlIsBoolean == AccessControl \in BOOLEAN

VARIABLES
  playback,      \* PlaybackState: what the page shows
  seen,          \* the connection of playback as the recovery callback has it
  latch,         \* recoveryInFlightRef
  loose,         \* history: the gate has taken the latch from a reconnect, and
                 \* ever since some reconnect has been under way
  timer,         \* recoveryTimerRef: what the pending timer will reconnect
  attempts,      \* recoveryAttemptRef
  recovering,    \* recoveryStreamRef
  task,          \* [Task -> TaskState], handlers that wait
  access,        \* Access: the gate, and what it remembers
  post           \* a POST nobody waits for: a report of having connected, a
                 \* heartbeat or the gate's leave; bound: one at once

reconnectVars == <<latch, loose>>
recoveryVars == <<timer, attempts, recovering>>
vars == <<row, playback, seen, reconnectVars, recoveryVars, task, access, post>>

-----------------------------------------------------------------------------
(* Types *)

Task == 1 .. MaxTask

(* 0 is no connection, None no stream.                                      *)
MaybeConnection == 0 .. MaxConnection
MaybeStream == Stream \cup {None}

PlaybackState ==
  [status: {"idle", "connecting", "connected", "switching", "reconnecting", "disconnected"},
   stream: MaybeStream, conn: MaybeConnection]

(* The pending timer closes over a stream and over the playback of an older *)
(* render; stream is None if there is no timer.                            *)
Timer == [stream: MaybeStream, conn: MaybeConnection]

(* What a handler waits for: the answer about the connection; the token;    *)
(* the room and then the audio, between which nothing looks; or to have the *)
(* new connection closed because the audio is blocked or broken; or, in     *)
(* enterAccessGate, for the program and a claim.                            *)
Phase == {"asking", "token", "joining", "blocked", "broken", "gate"}

(* Whether the gate is shown in the place of the player, whether the page    *)
(* holds an access token, and gateTransitionedRef.                           *)
Access == [gate: BOOLEAN, token: BOOLEAN, transitioned: BOOLEAN]

TaskState ==
  [op: {"none", "listen", "switch", "reconnect", "leave"}, phase: Phase,
   stream: MaybeStream, old: MaybeConnection, conn: MaybeConnection, gesture: BOOLEAN,
   elder: BOOLEAN]   \* the page has got another access token since it began

Post == [kind: PostKind \cup {"none"}, conn: MaybeConnection]

TypeOK ==
  /\ TableOK
  /\ playback \in PlaybackState
  /\ seen \in MaybeConnection
  /\ latch \in BOOLEAN
  /\ loose \in BOOLEAN
  /\ timer \in Timer
  /\ attempts \in 0 .. MaxAttempts
  /\ recovering \in MaybeStream
  /\ task \in [Task -> TaskState]
  /\ access \in Access
  /\ post \in Post

-----------------------------------------------------------------------------
(* State and helpers *)

Shown(status, s, c) == [status |-> status, stream |-> s, conn |-> c]

IdlePlayback == Shown("idle", None, 0)

NoTimer == [stream |-> None, conn |-> 0]

NoTask == [op |-> "none", phase |-> "asking", stream |-> None, old |-> 0, conn |-> 0,
           gesture |-> FALSE, elder |-> FALSE]

NoPost == [kind |-> "none", conn |-> 0]

IsConnected == playback.status = "connected"

(* connectedRef                                                             *)
LiveConnection == IF IsConnected THEN playback.conn ELSE 0

(* A handler begins to wait, in the first task that is free.                *)
Begins(op, s, old, gesture) ==
  \E t \in Task :
    /\ task[t].op = "none"
    /\ \A u \in Task : task[u].op = "none" => t <= u
    /\ task' = [task EXCEPT ![t] = [NoTask EXCEPT !.op = op, !.stream = s, !.old = old,
                                                  !.gesture = gesture]]

Goes(t, phase) == task' = [task EXCEPT ![t].phase = phase]

Reconnects == {t \in Task : task[t].op = "reconnect"}

(* Mutant: the latch is kept when the audio is blocked.                     *)
Ends_KeepsLatch(t) ==
  /\ task' = [task EXCEPT ![t] = NoTask]
  /\ latch' = (latch /\ (t \in Reconnects => task[t].phase = "blocked"))
  /\ loose' = (loose /\ Reconnects \ {t} # {})

(* A handler returns; a reconnect releases the latch, whoever holds it.     *)
Ends(t) ==
  /\ task' = [task EXCEPT ![t] = NoTask]
  /\ latch' = (latch /\ t \notin Reconnects)
  /\ loose' = (loose /\ Reconnects \ {t} # {})

(* Mutant: attempts are not limited.                                        *)
MayRetry_Always == TRUE

MayRetry == attempts < MaxAttempts

(* scheduleRecovery. The publisher may be offline; then nothing is done.    *)
ScheduleRecovery ==
  LET s == IF IsConnected THEN playback.stream ELSE recovering
  IN  \/ /\ MayRetry
         /\ s # None
         /\ recovering' = s
         /\ attempts' = attempts + 1
         /\ timer' = [stream |-> s, conn |-> seen]
      \/ UNCHANGED recoveryVars

-----------------------------------------------------------------------------
(* The listener's buttons *)

(* handleListen: the button of any stream but that of a handler under way.  *)
Listen(s) ==
  /\ ~access.gate
  /\ ~IsConnected
  /\ playback.stream # s
  /\ playback' = Shown("connecting", s, 0)
  /\ Begins("listen", s, 0, TRUE)
  /\ UNCHANGED <<row, seen, reconnectVars, recoveryVars, access, post>>

(* handleSwitch                                                             *)
Switch(s) ==
  /\ ~access.gate
  /\ IsConnected
  /\ playback.stream # s
  /\ playback' = Shown("switching", s, playback.conn)
  /\ Begins("switch", s, playback.conn, TRUE)
  /\ UNCHANGED <<row, seen, reconnectVars, recoveryVars, access, post>>

(* handleReconnect, with the connection it found in playback, or 0.         *)
Reconnect(s, c, gesture) ==
  /\ ~latch
  /\ latch' = TRUE
  /\ UNCHANGED loose
  /\ playback' = Shown("reconnecting", s, c)
  /\ Begins("reconnect", s, c, gesture)

PressReconnect ==
  /\ ~access.gate
  /\ playback.status \in {"disconnected", "reconnecting"}
  /\ Reconnect(playback.stream, playback.conn, TRUE)
  /\ UNCHANGED <<row, seen, recoveryVars, access, post>>

(* handleLeave                                                              *)
PressLeave ==
  /\ ~access.gate
  /\ IsConnected
  /\ playback' = IdlePlayback
  /\ Begins("leave", playback.stream, playback.conn, TRUE)
  /\ UNCHANGED <<row, seen, reconnectVars, recoveryVars, access, post>>

-----------------------------------------------------------------------------
(* Events and timers *)

(* The status is polled: the recovery callback is made anew.                *)
StatusPoll ==
  /\ seen' = playback.conn
  /\ UNCHANGED <<row, playback, reconnectVars, recoveryVars, task, access, post>>

(* The poll shows that the publisher has changed.                           *)
VersionChanges ==
  /\ IsConnected
  /\ Reconnect(playback.stream, playback.conn, FALSE)
  /\ seen' = playback.conn
  /\ UNCHANGED <<row, recoveryVars, access, post>>

(* LiveKit gives up on the room.                                            *)
TransportLost ==
  /\ IsConnected
  /\ ~latch
  /\ ScheduleRecovery
  /\ UNCHANGED <<row, playback, seen, reconnectVars, task, access, post>>

(* LiveKit resumes by itself.                                               *)
TransportResumes ==
  /\ IsConnected
  /\ attempts' = 0
  /\ timer' = NoTimer
  /\ UNCHANGED <<row, playback, seen, reconnectVars, recovering, task, access, post>>

(* The recovery timer. Nothing follows if the publisher is offline, or if   *)
(* another reconnect is under way.                                         *)
TimerFires ==
  /\ timer # NoTimer
  /\ timer' = NoTimer
  /\ \/ Reconnect(timer.stream, IF timer.conn # 0 THEN timer.conn ELSE LiveConnection, FALSE)
     \/ UNCHANGED <<playback, reconnectVars, task>>
  /\ UNCHANGED <<row, seen, attempts, recovering, access, post>>

-----------------------------------------------------------------------------
(* Handlers that have waited *)

(* The catch of handleListen, handleSwitch and handleReconnect; a reconnect *)
(* that is one of a series of attempts schedules the next.                 *)
Fails(t) ==
  /\ playback' = Shown("disconnected", task[t].stream, task[t].old)
  /\ Ends(t)
  /\ IF task[t].op = "reconnect" /\ attempts > 0
       THEN ScheduleRecovery
       ELSE UNCHANGED recoveryVars
  /\ UNCHANGED <<seen, access, post>>

Via(t) == IF task[t].op = "switch" THEN "language_switch" ELSE "reconnected"

(* The route a handler has called.                                          *)
Asked(t, answer) ==
  IF task[t].old = 0 THEN RequestConnection(task[t].stream, answer)
  ELSE ReplaceConnection(task[t].old, Via(t), task[t].stream, answer)

(* The answer of request, switch or reconnect.                              *)
Answered(t) ==
  /\ task[t].op \notin {"none", "leave"}
  /\ task[t].phase = "asking"
  /\ \E answer \in Connection :
       /\ Asked(t, answer)
       /\ task' = [task EXCEPT ![t].phase = "token", ![t].conn = answer]
  /\ UNCHANGED <<playback, seen, reconnectVars, recoveryVars, access, post>>

(* The request is lost or cut short, refused, or its answer is lost.        *)
Unanswered(t) ==
  /\ task[t].op \notin {"none", "leave"}
  /\ task[t].phase = "asking"
  /\ \/ UNCHANGED row
     \/ \E answer \in MaybeConnection : Asked(t, answer)
     \/ task[t].old # 0 /\ CloseWithoutSuccessor(task[t].old, Via(t))
  /\ Fails(t)

TokenMinted(t) ==
  /\ task[t].phase = "token"
  /\ MayJoin(row, task[t].conn)
  /\ Goes(t, "joining")
  /\ UNCHANGED <<row, playback, seen, reconnectVars, recoveryVars, access, post>>

(* In the room the page says so and waits for no answer.                    *)
Reports(t) ==
  \/ /\ "connected" \in PostKind
     /\ post = NoPost
     /\ post' = [kind |-> "connected", conn |-> task[t].conn]
  \/ UNCHANGED post

(* The token is refused or lost, or the room cannot be joined.              *)
JoinFails(t) ==
  /\ task[t].phase \in {"token", "joining"}
  /\ Fails(t)
  /\ UNCHANGED row

(* markAccessAcquisitionSucceeded                                           *)
AcquisitionSucceeds == access' = [access EXCEPT !.transitioned = @ /\ ~access.token]

(* The audio plays, or waits for a tap that the listener may give.          *)
Plays(t) ==
  /\ task[t].phase = "joining"
  /\ playback' = Shown("connected", task[t].stream, task[t].conn)
  /\ Ends(t)
  /\ IF task[t].op = "reconnect"
       THEN attempts' = 0 /\ recovering' = None
       ELSE UNCHANGED <<attempts, recovering>>
  /\ Reports(t)
  /\ AcquisitionSucceeds
  /\ UNCHANGED <<row, seen, timer>>

(* play() is refused: without a gesture for a reconnect of its own, or      *)
(* because it is broken.                                                   *)
PlayRefused(t) ==
  /\ task[t].phase = "joining"
  /\ \/ task[t].op = "reconnect" /\ ~task[t].gesture /\ Goes(t, "blocked")
     \/ Goes(t, "broken")
  /\ Reports(t)
  /\ AcquisitionSucceeds
  /\ UNCHANGED <<row, playback, seen, reconnectVars, recoveryVars>>

(* stopSessionBestEffort: the new connection is closed, or the request lost *)
StopsSession(t) ==
  \/ LeaveConnection(task[t].conn)
  \/ UNCHANGED row

(* Mutant: a blocked reconnect is retried.                                  *)
StoppedBlocked_Retries(t) ==
  /\ task[t].phase = "blocked"
  /\ StopsSession(t)
  /\ playback' = Shown("disconnected", task[t].stream, task[t].old)
  /\ attempts' = 1
  /\ recovering' = task[t].stream
  /\ timer' = [stream |-> task[t].stream, conn |-> seen]
  /\ Ends(t)
  /\ UNCHANGED <<seen, access, post>>

(* The audio needs a tap: the attempts are over, and none follows.          *)
StoppedBlocked(t) ==
  /\ task[t].phase = "blocked"
  /\ StopsSession(t)
  /\ playback' = Shown("disconnected", task[t].stream, task[t].old)
  /\ attempts' = 0
  /\ recovering' = None
  /\ Ends(t)
  /\ UNCHANGED <<seen, timer, access, post>>

StoppedBroken(t) ==
  /\ task[t].phase = "broken"
  /\ StopsSession(t)
  /\ Fails(t)

(* POST /leave is answered, or fails, handled or not.                       *)
Left(t) ==
  /\ task[t].op = "leave"
  /\ \/ LeaveConnection(task[t].old) /\ UNCHANGED playback
     \/ /\ LeaveConnection(task[t].old) \/ UNCHANGED row
        /\ playback' = Shown("disconnected", task[t].stream, task[t].old)
  /\ Ends(t)
  /\ UNCHANGED <<seen, recoveryVars, access, post>>

-----------------------------------------------------------------------------
(* The access gate *)

(* requireListenerApproval, of the routes that give a connection and of the  *)
(* token route: listener_not_approved, before anything is changed.          *)
Refused(t) ==
  /\ AccessControl
  /\ task[t].op \notin {"none", "leave"}
  /\ task[t].phase \in {"asking", "token"}

(* The page has another token by now, or is on its way through the gate.    *)
GateIgnores(t) == (access.token /\ task[t].elder) \/ access.transitioned

(* enterAccessGate returns at once, and the handler with it: what it shows  *)
(* stays, and no other attempt is scheduled.                               *)
RefusalIgnored(t) ==
  /\ Refused(t)
  /\ GateIgnores(t)
  /\ Ends(t)
  /\ UNCHANGED <<row, playback, seen, recoveryVars, access, post>>

(* enterAccessGate: the recovery and its latch are reset, whoever holds it, *)
(* playback ends, and nobody waits for its connection to be closed.         *)
EnterGate(t) ==
  /\ Refused(t)
  /\ ~GateIgnores(t)
  /\ access' = [gate |-> TRUE, token |-> FALSE, transitioned |-> TRUE]
  /\ timer' = NoTimer /\ attempts' = 0 /\ recovering' = None
  /\ latch' = FALSE
  /\ loose' = (Reconnects # {})
  /\ playback' = IdlePlayback
  /\ Goes(t, "gate")
  /\ \/ /\ "leave" \in PostKind
        /\ IsConnected
        /\ post = NoPost
        /\ post' = [kind |-> "leave", conn |-> playback.conn]
     \/ UNCHANGED post
  /\ UNCHANGED <<row, seen>>

(* The rest of enterAccessGate: the program needs no access any more, or    *)
(* there is a new claim to wait for. The handler returns after it.          *)
GateReached(t) ==
  /\ task[t].phase = "gate"
  /\ Ends(t)
  /\ access' \in {access, [gate |-> FALSE, token |-> FALSE, transitioned |-> FALSE]}
  /\ UNCHANGED <<row, playback, seen, recoveryVars, post>>

(* The gate gives way to the player: the claim is redeemed for a token, or  *)
(* a check finds that the program needs no access any more.                 *)
GateOpens ==
  /\ access.gate
  /\ \A t \in Task : task[t].phase # "gate"
  /\ \/ /\ access' = [access EXCEPT !.gate = FALSE, !.token = TRUE]
        /\ task' = [t \in Task |-> [task[t] EXCEPT !.elder = (task[t].op # "none")]]
     \/ access' = [access EXCEPT !.gate = FALSE] /\ UNCHANGED task
  /\ UNCHANGED <<row, playback, seen, reconnectVars, recoveryVars, post>>

-----------------------------------------------------------------------------
(* Posts nobody waits for *)

ReportArrives ==
  /\ post.kind = "connected"
  /\ post' = NoPost
  /\ MarkConnected(post.conn) \/ UNCHANGED row
  /\ UNCHANGED <<playback, seen, reconnectVars, recoveryVars, task, access>>

LeaveArrives ==
  /\ post.kind = "leave"
  /\ post' = NoPost
  /\ LeaveConnection(post.conn) \/ UNCHANGED row
  /\ UNCHANGED <<playback, seen, reconnectVars, recoveryVars, task, access>>

SendHeartbeat ==
  /\ "heartbeat" \in PostKind
  /\ IsConnected
  /\ post = NoPost
  /\ post' = [kind |-> "heartbeat", conn |-> playback.conn]
  /\ UNCHANGED <<row, playback, seen, reconnectVars, recoveryVars, task, access>>

(* A heartbeat is accepted (or refused for its rate), or it fails: then the *)
(* page shows its connection as lost, whatever it plays by now.            *)
HeartbeatAnswered ==
  /\ post.kind = "heartbeat"
  /\ post' = NoPost
  /\ \/ UNCHANGED playback
     \/ playback' = Shown("disconnected", row[post.conn].stream, post.conn)
  /\ UNCHANGED <<row, seen, reconnectVars, recoveryVars, task, access>>

-----------------------------------------------------------------------------
Init ==
  /\ TableInit
  /\ playback = IdlePlayback
  /\ seen = 0
  /\ latch = FALSE
  /\ loose = FALSE
  /\ timer = NoTimer
  /\ attempts = 0
  /\ recovering = None
  /\ task = [t \in Task |-> NoTask]
  /\ access \in [gate: {FALSE}, token: {FALSE, AccessControl}, transitioned: {FALSE}]
  /\ post = NoPost

ButtonStep == (\E s \in Stream : Listen(s) \/ Switch(s)) \/ PressReconnect \/ PressLeave

EventStep ==
  StatusPoll \/ VersionChanges \/ TransportLost \/ TransportResumes \/ TimerFires

HandlerStep ==
  \E t \in Task :
    \/ Answered(t) \/ Unanswered(t) \/ TokenMinted(t) \/ JoinFails(t)
    \/ Plays(t) \/ PlayRefused(t) \/ StoppedBlocked(t) \/ StoppedBroken(t) \/ Left(t)

GateStep ==
  GateOpens \/ \E t \in Task : RefusalIgnored(t) \/ EnterGate(t) \/ GateReached(t)

PostStep == ReportArrives \/ LeaveArrives \/ SendHeartbeat \/ HeartbeatAnswered

Next == ButtonStep \/ EventStep \/ HandlerStep \/ GateStep \/ PostStep

Spec == Init /\ [][Next]_vars

-----------------------------------------------------------------------------
(* Properties *)

(* The latch is held exactly while a reconnect is under way, and one is at  *)
(* most: the button, the recovery timer and a change of publisher do not    *)
(* reconnect side by side. The gate breaks this (it takes the latch from a  *)
(* reconnect that goes on), until the reconnects of that time are over; but *)
(* even then no path out of handleReconnect leaves the latch set, and with  *)
(* it the page unable to reconnect.                                         *)
LatchMeansReconnecting ==
  /\ latch => Reconnects # {}
  /\ ~loose => /\ Reconnects # {} => latch
               /\ \A t, u \in Reconnects : t = u

(* Retries end: if the recovery timer fires for ever, the page connects     *)
(* again and again in between (recoveryMaxAttempts; the comment at the end  *)
(* of handleReconnect says that it cannot loop forever).                   *)
RetriesEnd == []<><<TimerFires>>_vars => []<>IsConnected
=============================================================================
