------------------------------- MODULE Presence -------------------------------
(***************************************************************************)
(* What is known of one stream while it is broadcast: whether it is        *)
(* offline, silent or live, and who listens.                               *)
(*                                                                         *)
(* The translator's page measures its own sound and reports it; LiveKit's  *)
(* webhooks tell who joined and left its room; a listener's page reports   *)
(* its connection.  Reports and webhooks are lost, and overtake each       *)
(* other.  The server keeps what it was told in the memory of one process, *)
(* which a restart empties, and answers the listeners' question from a     *)
(* cache.  Reservations are reduced to their being open: PublisherLease    *)
(* has the rest.  Time passes in ticks, of the time between two reports of *)
(* a page that sounds, and ages are counted up to the point where more     *)
(* makes no difference.                                                    *)
(***************************************************************************)
EXTENDS Integers, FiniteSets

CONSTANTS
    Listener,      \* connections of listeners
    MaxSession,    \* bound: publish sessions
    QuietSamples,  \* silentSampleThreshold
    SoundWindow,   \* AUDIO_ACTIVITY_WINDOW_MS
    SeenWindow,    \* ACTIVE_LISTENER_WINDOW_SECONDS
    StaleAfter,    \* STALE_AFTER_MS
    CacheTtl,      \* STATUS_CACHE_TTL_MS
    None

VARIABLES
    meter,      \* the page of the translator: its publish session, 0 if it is not live, and its meter
    sounding,   \* sound reaches the microphone
    reports,    \* reports of activity on their way
    room,       \* the listeners that are in the LiveKit room
    hooks,      \* webhooks on their way
    lease,      \* the last session issued, whether it is open, and the one whose track is published
    activity,   \* audioActivity of the stream
    records,    \* records[c]: the age of the presence record of c
    rows,       \* rows[c]: the row of c in listener_connections
    build,      \* the answer about the status that is being built
    entry,      \* the cached answer
    calm        \* history: ticks since the stream was last live

page   == <<meter, sounding, reports>>
memory == <<activity, records, build, entry>>
vars   == <<meter, sounding, reports, room, hooks, lease, memory, rows, calm>>

Session == 1 .. MaxSession

NoMeter == [session |-> 0, reported |-> None, low |-> 0, muted |-> FALSE, due |-> FALSE, fresh |-> FALSE]

Init ==
    /\ meter = NoMeter
    /\ sounding = FALSE
    /\ reports = {}
    /\ room = {}
    /\ hooks = {}
    /\ lease = [issued |-> 0, open |-> FALSE, published |-> 0]
    /\ activity = None
    /\ records = [c \in Listener |-> None]
    /\ rows = [c \in Listener |-> [status |-> "requested", seen |-> 0]]
    /\ build = None
    /\ entry = None
    /\ calm = CacheTtl + SoundWindow

-----------------------------------------------------------------------------
(* What the server derives from what it was told *)

\* Mutant: the activity of an earlier session counts for the one that is published.
Sounds_AnySession(a, session) == a # None /\ a.active /\ a.age <= SoundWindow

Sounds(a, session) == a # None /\ a.session = session /\ a.active /\ a.age <= SoundWindow

StreamState ==
    IF lease.published = 0 THEN "offline"
    ELSE IF Sounds(activity, lease.published) THEN "live" ELSE "silent"

\* pruneStale, which every read and every webhook begins with.
Present(recs) == {c \in Listener : recs[c] # None /\ recs[c] <= StaleAfter}
Pruned(recs) == [c \in Listener |-> IF c \in Present(recs) THEN recs[c] ELSE None]

Connected == {c \in Listener : rows[c].status = "connected" /\ rows[c].seen < SeenWindow}

\* The listeners that the console counts, by PRESENCE_LIVE_COUNT.
Counted(mode) == IF mode = "true" THEN Present(records) ELSE Connected

-----------------------------------------------------------------------------
(* The page of the translator *)

\* A reservation is acquired, its predecessor is closed, and the page is live.
GoLive ==
    /\ meter.session = 0 /\ lease.issued < MaxSession
    /\ lease' = [issued |-> lease.issued + 1, open |-> TRUE, published |-> 0]
    /\ meter' = [NoMeter EXCEPT !.session = lease.issued + 1, !.due = TRUE, !.muted = meter.muted]
    /\ hooks' = hooks \cup {[kind |-> "track", who |-> lease.issued + 1]}
    /\ UNCHANGED <<sounding, reports, room, memory, rows>>

\* The effect of the meter is undone: silence is reported if sound was the last thing reported.
MeterCloses ==
    reports' = reports \cup
        (IF meter.reported = TRUE THEN {[session |-> meter.session, active |-> FALSE]} ELSE {})

Closed == [lease EXCEPT !.open = FALSE, !.published = 0]

\* The page stops; the request that closes the reservation may be lost.
PageStops ==
    /\ meter.session # 0
    /\ MeterCloses
    /\ meter' = [NoMeter EXCEPT !.muted = meter.muted]
    /\ lease' \in {lease} \cup (IF lease.issued = meter.session THEN {Closed} ELSE {})
    /\ hooks' = hooks \cup {[kind |-> "left", who |-> meter.session]}
    /\ UNCHANGED <<sounding, room, memory, rows>>

\* The page, or the network under it, is gone without a word.
PageDies ==
    /\ meter.session # 0
    /\ meter' = NoMeter
    /\ hooks' = hooks \cup {[kind |-> "left", who |-> meter.session]}
    /\ UNCHANGED <<sounding, reports, room, lease, memory, rows>>

SoundChanges == sounding' = ~sounding /\ UNCHANGED <<meter, reports, room, hooks, lease, memory, rows>>

PressMute ==
    /\ meter.session # 0
    /\ meter' = [meter EXCEPT !.muted = ~@]
    /\ UNCHANGED <<sounding, reports, room, hooks, lease, memory, rows>>

\* The page says that there is sound, at once when there is, and until it has been quiet for long.
Active(low) == ~meter.muted /\ (sounding \/ (meter.reported = TRUE /\ low < QuietSamples))

\* Mutant: only a change is reported.
Reports_OnlyChanges(active) == meter.reported # active

Reports(active) == meter.reported # active \/ (active /\ ~meter.fresh)

\* The samples of quiet since the last sound; they matter while sound is what was reported.
MeterPolls ==
    LET low == IF sounding \/ meter.reported # TRUE THEN 0 ELSE meter.low + 1
        active == Active(low)
    IN /\ meter.session # 0
       /\ meter' = [meter EXCEPT !.low = IF active THEN low ELSE 0, !.due = FALSE,
                       !.reported = IF Reports(active) THEN active ELSE @,
                       !.fresh    = @ \/ Reports(active)]
       /\ reports' = reports \cup
             (IF Reports(active) THEN {[session |-> meter.session, active |-> active]} ELSE {})
       /\ UNCHANGED <<sounding, room, hooks, lease, memory, rows>>

ReportLost(r) ==
    /\ r \in reports
    /\ reports' = reports \ {r}
    /\ UNCHANGED <<meter, sounding, room, hooks, lease, memory, rows>>

\* requirePublisherReservation, and the reservation must be published.
MayReport(r) == lease.published = r.session

ReportArrives(r) ==
    /\ r \in reports
    /\ reports' = reports \ {r}
    /\ activity' = IF MayReport(r)
                   THEN [session |-> r.session, active |-> r.active, age |-> 0]
                   ELSE activity
    /\ UNCHANGED <<meter, sounding, room, hooks, lease, records, build, entry, rows>>

-----------------------------------------------------------------------------
(* The webhooks *)

\* A listener's room may be left and joined again under the same identity.
EntersRoom(c) ==
    /\ c \notin room
    /\ room' = room \cup {c}
    /\ hooks' = hooks \cup {[kind |-> "joined", who |-> c]}
    /\ UNCHANGED <<page, lease, memory, rows>>

LeavesRoom(c) ==
    /\ c \in room
    /\ room' = room \ {c}
    /\ hooks' = hooks \cup {[kind |-> "left", who |-> c]}
    /\ UNCHANGED <<page, lease, memory, rows>>

HookLost(h) == h \in hooks /\ hooks' = hooks \ {h} /\ UNCHANGED <<page, room, lease, memory, rows>>

PresenceJoin(h) ==
    /\ h \in hooks /\ h.kind = "joined" /\ h.who \in Listener
    /\ hooks' = hooks \ {h}
    /\ records' = [Pruned(records) EXCEPT ![h.who] = 0]
    /\ UNCHANGED <<page, room, lease, activity, build, entry, rows>>

PresenceLeave(h) ==
    /\ h \in hooks /\ h.kind = "left" /\ h.who \in Listener
    /\ hooks' = hooks \ {h}
    /\ records' = [Pruned(records) EXCEPT ![h.who] = None]
    /\ UNCHANGED <<page, room, lease, activity, build, entry, rows>>

\* The translator has left: its reservation is closed, unless another has been issued.
TranslatorLeft(h) ==
    /\ h \in hooks /\ h.kind = "left" /\ h.who \in Session
    /\ hooks' = hooks \ {h}
    /\ lease' = IF h.who = lease.issued THEN Closed ELSE lease
    /\ UNCHANGED <<page, room, memory, rows>>

TrackPublished(h) ==
    /\ h \in hooks /\ h.kind = "track"
    /\ hooks' = hooks \ {h}
    /\ lease' = IF h.who = lease.issued /\ lease.open THEN [lease EXCEPT !.published = h.who] ELSE lease
    /\ UNCHANGED <<page, room, memory, rows>>

-----------------------------------------------------------------------------
(* The rows of the listeners' connections *)

Row(c, from, to) ==
    /\ rows[c].status \in from
    /\ rows' = [rows EXCEPT ![c] = [status |-> to, seen |-> 0]]
    /\ UNCHANGED <<page, room, hooks, lease, memory>>

MarkConnected(c)   == c \in room /\ Row(c, {"requested"}, "connected")
RecordHeartbeat(c) == c \in room /\ Row(c, {"connected"}, "connected")
Disconnect(c)      == Row(c, {"requested", "connected"}, "disconnected")

-----------------------------------------------------------------------------
(* The status, from a cache *)

Expired == entry # None => entry.kept >= CacheTtl

\* A listener asks and the cached answer has expired: one answer is built for all who ask.
BuildBegins ==
    /\ Expired /\ build = None
    /\ build' = StreamState
    /\ records' = Pruned(records)
    /\ UNCHANGED <<page, room, hooks, lease, activity, entry, rows>>

\* After the digests of the publishers the answer is stored.
Stored(state) == [state |-> state, kept |-> 0]

BuildEnds ==
    /\ build # None
    /\ entry' = Stored(build)
    /\ build' = None
    /\ UNCHANGED <<page, room, hooks, lease, activity, records, rows>>

\* The console asks: records that are too old are dropped.
ReadStatus ==
    /\ records' = Pruned(records)
    /\ UNCHANGED <<page, room, hooks, lease, activity, build, entry, rows>>

Restart ==
    /\ activity' = None
    /\ records' = [c \in Listener |-> None]
    /\ build' = None /\ entry' = None
    /\ UNCHANGED <<page, room, hooks, lease, rows>>

-----------------------------------------------------------------------------
(* Time *)

Older(age, limit) == IF age < limit THEN age + 1 ELSE age

\* The meter polls many times in a tick; the digests of an answer take less than one.
Tick ==
    /\ ~meter.due /\ build = None
    /\ meter' = [meter EXCEPT !.due = meter.session # 0, !.fresh = FALSE]
    /\ activity' = IF activity = None THEN None ELSE [activity EXCEPT !.age = Older(@, SoundWindow + 1)]
    /\ records' = [c \in Listener |-> IF records[c] = None THEN None ELSE Older(records[c], StaleAfter + 1)]
    /\ rows' = [c \in Listener |-> [rows[c] EXCEPT !.seen =
                   IF rows[c].status = "connected" THEN Older(@, SeenWindow) ELSE @]]
    /\ entry' = IF entry = None THEN None ELSE [entry EXCEPT !.kept = Older(@, CacheTtl)]
    /\ UNCHANGED <<sounding, reports, room, hooks, lease, build>>

-----------------------------------------------------------------------------
Calm(age) == calm' = IF StreamState = "live" THEN 0 ELSE age
Timeless(step) == step /\ Calm(calm)
TimePasses == Tick /\ Calm(Older(calm, CacheTtl + SoundWindow))

Step ==
    \/ GoLive \/ PageStops \/ PageDies \/ SoundChanges \/ PressMute \/ MeterPolls
    \/ \E r \in reports : ReportLost(r) \/ ReportArrives(r)
    \/ \E c \in Listener : EntersRoom(c) \/ LeavesRoom(c)
    \/ \E h \in hooks : \/ HookLost(h) \/ PresenceJoin(h) \/ PresenceLeave(h)
                        \/ TranslatorLeft(h) \/ TrackPublished(h)
    \/ \E c \in Listener : MarkConnected(c) \/ RecordHeartbeat(c) \/ Disconnect(c)
    \/ BuildBegins \/ BuildEnds \/ ReadStatus \/ Restart

Next == Timeless(Step) \/ TimePasses

(* Time passes, the interval of the meter runs, and of reports that are sent again and again *)
(* one gets through.                                                                          *)
Fairness ==
    /\ SF_vars(TimePasses) /\ WF_vars(Timeless(MeterPolls)) /\ WF_vars(Timeless(BuildEnds))
    /\ \A s \in Session : SF_vars(Timeless(ReportArrives([session |-> s, active |-> TRUE])))

Spec == Init /\ [][Next]_vars /\ Fairness

-----------------------------------------------------------------------------
(* Every variable has its type. *)
TypeOK ==
    /\ meter \in [session : 0 .. MaxSession, reported : BOOLEAN \cup {None}, low : 0 .. QuietSamples,
                  muted : BOOLEAN, due : BOOLEAN, fresh : BOOLEAN]
    /\ sounding \in BOOLEAN
    /\ reports \subseteq [session : Session, active : BOOLEAN]
    /\ room \subseteq Listener
    /\ hooks \subseteq [kind : {"joined", "left", "track"}, who : Listener \cup Session]
    /\ lease \in [issued : 0 .. MaxSession, open : BOOLEAN, published : 0 .. MaxSession]
    /\ activity = None \/ activity \in [session : Session, active : BOOLEAN, age : 0 .. SoundWindow + 1]
    /\ \A c \in Listener : records[c] = None \/ records[c] \in 0 .. StaleAfter + 1
    /\ rows \in [Listener -> [status : {"requested", "connected", "disconnected"}, seen : 0 .. SeenWindow]]
    /\ build \in {None, "offline", "silent", "live"}
    /\ entry = None \/ entry \in [state : {"offline", "silent", "live"}, kept : 0 .. CacheTtl]
    /\ calm \in 0 .. CacheTtl + SoundWindow

(* An answer that says live, when it is given, is of a stream that was live within the time *)
(* that answers are kept (cached, STATUS_CACHE_TTL_MS).                                      *)
LiveWasLive == ~Expired /\ entry.state = "live" => StreamState = "live" \/ calm <= entry.kept

(* A stream is live only through the session that is published and open: what an earlier     *)
(* session reported does not speak for its successor (deriveStreamState).                     *)
LiveIsOfSession ==
    StreamState = "live" => /\ activity.session = lease.issued
                            /\ lease.open

LiveIsHeard == LiveWasLive /\ LiveIsOfSession

(* A listener who is gone for good is at last not counted, though webhooks and reports are   *)
(* lost and overtake each other (STALE_AFTER_MS, ACTIVE_LISTENER_WINDOW_SECONDS).              *)
GhostsEnd ==
    \A c \in Listener, mode \in {"d1", "shadow", "true"} :
        <>[](c \notin room) => <>[](c \notin Counted(mode))

(* A translator who is on the air and sounds is shown live again and again, though reports   *)
(* are lost and the server restarts: the page repeats its report.                              *)
OnAir == meter.session # 0 /\ lease.published = meter.session /\ sounding /\ ~meter.muted
SoundIsHeard == <>[]OnAir => []<>(StreamState = "live")

(* Once there is no more sound the stream is at last not live, though the page may have      *)
(* vanished without a word (AUDIO_ACTIVITY_WINDOW_MS).                                         *)
QuietIsHeard ==
    <>[](~sounding \/ meter.muted \/ meter.session = 0) => <>[](StreamState # "live")

PresenceSettles == GhostsEnd /\ SoundIsHeard /\ QuietIsHeard
=============================================================================
