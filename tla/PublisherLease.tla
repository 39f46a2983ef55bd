--------------------------- MODULE PublisherLease ---------------------------
(***************************************************************************)
(* The single-publisher lease of one language stream: the rows of          *)
(* realtime_publish_sessions, the stream's live pointer, the translator's  *)
(* login sessions and credential, the stream's LiveKit room, and the       *)
(* request and webhook handlers that change them.                          *)
(*                                                                         *)
(* One stream is enough: every statement of these handlers is keyed by     *)
(* (program, stream), the room is a function of the stream, and the        *)
(* stream's automatic translator has the stream's own id, so two streams   *)
(* share nothing and every ownership check compares equal ids.             *)
(*                                                                         *)
(* The API is one process over synchronous SQLite: whatever a handler does *)
(* between two real waits (a digest, a call to LiveKit) is one step here.  *)
(* A handler that has work left after LiveKit answers occupies a Request    *)
(* slot meanwhile.                                                         *)
(***************************************************************************)
EXTENDS Integers, FiniteSets

CONSTANTS
  Reservation,    \* ids of rows of realtime_publish_sessions
  Session,        \* ids of rows of translator_sessions
  Request,        \* slots for handlers that are waiting for LiveKit
  Track,          \* LiveKit sids of audio tracks
  None,           \* NULL
  MaxCredential,  \* bound: how often the stream's credential is replaced
  MaxHooks,       \* bound: webhooks on their way at once, the rest is lost
  Redelivery      \* may LiveKit deliver a webhook again after it was handled

ASSUME NoneIsFresh == None \notin Reservation \cup Session \cup Track
ASSUME BoundsAreNat == MaxCredential \in Nat /\ MaxHooks \in Nat
ASSUME RedeliveryIsBoolean == Redelivery \in BOOLEAN

VARIABLES
  row,         \* [Reservation -> Row], the table realtime_publish_sessions
  stream,      \* the live pointer of the stream's row in language_streams
  deleted,     \* programs.deleted_at of the stream's program is set
  session,     \* [Session -> SessionState], the table translator_sessions
  credential,  \* which credential translators.password_hash holds
  cred,        \* the credential each session was authenticated against
  request,     \* [Request -> Task], handlers waiting for LiveKit
  removing,    \* LiveKit is asked to remove the translator and has not yet
  speaker,     \* the reservation in the metadata of the room's translator
  audio,       \* the audio track that participant has published, or None
  owner,       \* [Track -> Reservation \cup {None}], who published each track
  clients,     \* reservations whose page is broadcasting or about to
  hooks        \* webhooks LiveKit has yet to deliver

dbVars == <<row, stream, deleted>>
loginVars == <<session, credential, cred>>
roomVars == <<speaker, audio, owner, clients, hooks>>
handlerVars == <<request, removing>>
vars == <<dbVars, loginVars, handlerVars, roomVars>>

-----------------------------------------------------------------------------
(* Types *)

RowState == {"none", "reserved", "published", "closed", "failed"}

(* lapsed stands for expires_at <= now: time is not counted, an unexpired   *)
(* row may lapse at any moment, and only a refresh makes it current again.  *)
(* track is published_track_name, which holds a LiveKit track sid.          *)
Row == [state: RowState, session: Session \cup {None},
        track: Track \cup {None}, lapsed: BOOLEAN]

(* is_live, cloudflare_session_id (NULL or the stream's room name) and      *)
(* current_track_id.                                                        *)
Pointer == [isLive: BOOLEAN, room: BOOLEAN, track: Track \cup {None}]

(* "revoked" and "reset" are both a deleted row: by revokeSession or        *)
(* revokeAllSessionsForTranslator, or by resetAdminTranslatorPassword.      *)
SessionState == {"unused", "verifying", "active", "expired", "revoked", "reset"}

Task == [op: {"idle", "stop", "reclaim"}, res: Reservation \cup {None},
         session: Session \cup {None}]

(* meta is the reservation in the participant's metadata. Webhooks about    *)
(* tracks arrive without it and get it when LiveKit is asked.               *)
TrackHook == [event: {"track_published", "track_unpublished"},
              track: Track, meta: Reservation \cup {None}]

LeftHook == [event: {"participant_left"}, track: {None}, meta: Reservation]

TypeOK ==
  /\ row \in [Reservation -> Row]
  /\ stream \in Pointer
  /\ deleted \in BOOLEAN
  /\ session \in [Session -> SessionState]
  /\ credential \in 0 .. MaxCredential
  /\ cred \in [Session -> 0 .. MaxCredential]
  /\ request \in [Request -> Task]
  /\ removing \in BOOLEAN
  /\ speaker \in Reservation \cup {None}
  /\ audio \in Track \cup {None}
  /\ owner \in [Track -> Reservation \cup {None}]
  /\ clients \in SUBSET Reservation
  /\ hooks \in SUBSET (TrackHook \cup LeftHook)

-----------------------------------------------------------------------------
(* The statements of RealtimeStreamRepository, as functions of the rows rw  *)
(* and the pointer st they read.                                            *)

NewRow(s) == [state |-> "reserved", session |-> s, track |-> None, lapsed |-> FALSE]

ClearedPointer == [isLive |-> FALSE, room |-> FALSE, track |-> None]

AttachedPointer == [isLive |-> FALSE, room |-> TRUE, track |-> None]

(* Mutant: the fallback track name is stored although the event has a sid.   *)
LivePointer_Placeholder(t) == [isLive |-> TRUE, room |-> TRUE, track |-> "livekit-audio"]

LivePointer(t) == [isLive |-> TRUE, room |-> TRUE, track |-> t]

(* Mutant: a reservation that is not yet published does not block.           *)
BlockingRows_PublishedOnly(rw) == {r \in Reservation : rw[r].state = "published"}

BlockingRows(rw) == {r \in Reservation : rw[r].state \in {"reserved", "published"}}

(* The expiry of a finished row is never read again and forgotten here.     *)
Finished(rec, how) == [rec EXCEPT !.state = how, !.lapsed = FALSE]

RowsAfterClear(rw, r) ==
  IF r \in BlockingRows(rw) THEN [rw EXCEPT ![r] = Finished(@, "closed")] ELSE rw

(* Mutant: the guard on the track is gone, as in                             *)
(* clearLanguageStreamBySessionIfCurrentRun.                                *)
PointerAfterClear_ByRoom(st, rw, r) == IF st.room THEN ClearedPointer ELSE st

(* Mutant: only the NULL case of the guard on the track is left.             *)
PointerAfterClear_NoTrackOnly(st, rw, r) ==
  IF st.room /\ st.track = None /\ rw[r].track = None THEN ClearedPointer ELSE st

(* clearLanguageStreamIfCurrentRun: the room is current, and so is the      *)
(* row's track, or neither has one.                                         *)
PointerAfterClear(st, rw, r) ==
  IF st.room /\ st.track = rw[r].track THEN ClearedPointer ELSE st

RowsAfterReclaim(rw) ==
  [r \in Reservation |->
     IF r \in BlockingRows(rw) /\ rw[r].lapsed
     THEN Finished(rw[r], IF rw[r].state = "reserved" THEN "failed" ELSE "closed")
     ELSE rw[r]]

PointerAfterReclaim(st, rw) ==
  IF /\ st.room
     /\ \E r \in BlockingRows(rw) :
          /\ rw[r].lapsed
          /\ rw[r].state = "published" => rw[r].track = st.track
  THEN ClearedPointer
  ELSE st

(* Mutant: any row that exists goes live.                                    *)
CanGoLive_AnyRow(rec) == rec.state # "none"

(* Mutant: a reservation that has failed meanwhile still goes live.          *)
CanGoLive_FailedToo(rec) == rec.state \in {"reserved", "failed"}

(* Mutant: a repeated webhook refreshes the published row.                   *)
CanGoLive_Again(rec) == rec.state \in {"reserved", "published"}

(* What a track_published webhook may flip: only a row still reserved.      *)
CanGoLive(rec) == rec.state = "reserved"

-----------------------------------------------------------------------------
(* Sessions and LiveKit, as functions or relations used by several actions. *)

Idle == [op |-> "idle", res |-> None, session |-> None]

Waiting(op, r, s) == [op |-> op, res |-> r, session |-> s]

StoredSessions == {s \in Session : session[s] \in {"active", "expired"}}

(* Mutant: every lease of the translator, whatever session made it.          *)
LeasesOf_Translator(ss) == BlockingRows(row)

LeasesOf(ss) == {r \in BlockingRows(row) : row[r].session \in ss}

Message(event, t, meta) == [event |-> event, track |-> t, meta |-> meta]

(* What LiveKit announces when the participant r leaves its room. Webhooks  *)
(* about participants carry its metadata, those about tracks do not.        *)
Departure(r) ==
  {Message("participant_left", None, r)}
    \cup (IF audio = None THEN {} ELSE {Message("track_unpublished", audio, None)})

(* LiveKit sends the webhooks ms, or some of them: a webhook may be lost.   *)
Announced(ms) == {hooks \cup sent : sent \in {k \in SUBSET ms :
                                    Cardinality(hooks \cup k) <= MaxHooks}}

(* The translator's participant is out of the room, if it was there.        *)
EvictSpeaker ==
  IF speaker = None
  THEN UNCHANGED roomVars
  ELSE /\ hooks' \in Announced(Departure(speaker))
       /\ clients' = clients \ {speaker}
       /\ speaker' = None
       /\ audio' = None
       /\ UNCHANGED owner

(* A handled webhook is gone, unless LiveKit missed the answer and repeats  *)
(* it later; next is what its handler goes on with.                         *)
Handled(m, next) ==
  {hs \in {(hooks \ {m}) \cup next} \cup (IF Redelivery THEN {hooks \cup next} ELSE {}) :
     Cardinality(hs) <= MaxHooks}

(* reservePublisher, then attachPublisherSession, for the session s, from   *)
(* the rows rw and the pointer st. Refused while a row blocks the stream;   *)
(* also when the finite set Reservation is used up, a bound of the model.   *)
(* The page may never receive the answer.                                   *)
ReserveAndAttach(rw, st, s) ==
  LET reclaimed == RowsAfterReclaim(rw)
      unused == {r \in Reservation : reclaimed[r].state = "none"}
  IN IF BlockingRows(reclaimed) # {} \/ unused = {}
     THEN /\ row' = reclaimed
          /\ stream' = PointerAfterReclaim(st, rw)
          /\ UNCHANGED clients
     ELSE \E r \in unused :
            /\ row' = [reclaimed EXCEPT ![r] = NewRow(s)]
            /\ stream' = AttachedPointer
            /\ clients' \in {clients, clients \cup {r}}

-----------------------------------------------------------------------------
(* Translator login. The row of the translator is read before the first     *)
(* digest and the session is inserted after the last one.                   *)

LoginVerifies(s) ==
  /\ session[s] = "unused"
  /\ session' = [session EXCEPT ![s] = "verifying"]
  /\ cred' = [cred EXCEPT ![s] = credential]
  /\ UNCHANGED <<dbVars, credential, handlerVars, roomVars>>

LoginCreatesSession(s) ==
  /\ session[s] = "verifying"
  /\ session' = [session EXCEPT ![s] = "active"]
  /\ UNCHANGED <<dbVars, credential, cred, handlerVars, roomVars>>

(* The idle or the absolute expiry of the session passes.                   *)
SessionExpires(s) ==
  /\ session[s] = "active"
  /\ session' = [session EXCEPT ![s] = "expired"]
  /\ UNCHANGED <<dbVars, credential, cred, handlerVars, roomVars>>

-----------------------------------------------------------------------------
(* Requests of the translator's page *)

(* POST /realtime/token: the stream is free, or its lease has lapsed.       *)
TokenGranted(s) ==
  /\ session[s] = "active"
  /\ ~deleted
  /\ BlockingRows(RowsAfterReclaim(row)) = {}
  /\ \E r \in Reservation : row[r].state = "none"
  /\ ReserveAndAttach(row, stream, s)
  /\ UNCHANGED <<deleted, loginVars, handlerVars, speaker, audio, owner, hooks>>

(* POST /realtime/token with reclaim, while the translator's own earlier    *)
(* reservation blocks the stream: LiveKit is asked to remove the old        *)
(* participant first.                                                       *)
TokenReclaims(s, q) ==
  /\ session[s] = "active"
  /\ ~deleted
  /\ request[q].op = "idle"
  /\ row' = RowsAfterReclaim(row)
  /\ stream' = PointerAfterReclaim(stream, row)
  /\ \E r \in BlockingRows(row') :
       request' = [request EXCEPT ![q] = Waiting("reclaim", r, s)]
  /\ removing' = TRUE
  /\ UNCHANGED <<deleted, loginVars, roomVars>>

(* The rest of that handler, once LiveKit has answered or failed. Nothing   *)
(* is read again: neither the session nor the program.                      *)
ReclaimResumes(q) ==
  /\ request[q].op = "reclaim"
  /\ LET blocking == request[q].res
     IN ReserveAndAttach(RowsAfterClear(row, blocking),
                         PointerAfterClear(stream, row, blocking),
                         request[q].session)
  /\ request' = [request EXCEPT ![q] = Idle]
  /\ UNCHANGED <<deleted, loginVars, removing, speaker, audio, owner, hooks>>

(* requireOwnedReservation: the reservation is the translator's, whichever  *)
(* of the translator's sessions made it; any that is valid speaks for it.   *)
SignedIn == \E s \in Session : session[s] = "active"

(* POST /realtime/stop of the reservation r. The page has already closed    *)
(* its own room.                                                            *)
StopRequest(r, q) ==
  /\ row[r].state # "none"
  /\ SignedIn
  /\ request[q].op = "idle"
  /\ request' = [request EXCEPT ![q] = Waiting("stop", r, None)]
  /\ removing' = TRUE
  /\ clients' = clients \ {r}
  /\ UNCHANGED <<dbVars, loginVars, speaker, audio, owner, hooks>>

StopResumes(q) ==
  /\ request[q].op = "stop"
  /\ row' = RowsAfterClear(row, request[q].res)
  /\ stream' = PointerAfterClear(stream, row, request[q].res)
  /\ request' = [request EXCEPT ![q] = Idle]
  /\ UNCHANGED <<deleted, loginVars, removing, roomVars>>

(* POST /realtime/heartbeat by a live page: a published row is current      *)
(* again. Otherwise the page is told publisher_not_active and stops.        *)
Heartbeat(r) ==
  /\ r \in clients
  /\ SignedIn
  /\ IF row[r].state = "published"
     THEN /\ row' = [row EXCEPT ![r].lapsed = FALSE]
          /\ UNCHANGED clients
     ELSE /\ clients' = clients \ {r}
          /\ UNCHANGED row
  /\ UNCHANGED <<stream, deleted, loginVars, handlerVars, speaker, audio, owner, hooks>>

-----------------------------------------------------------------------------
(* Revocation. revokeSession and revokeAllSessionsForTranslator close the   *)
(* leases of the sessions ss and delete the sessions; the caller then has   *)
(* the participant removed if a lease was closed.                           *)
EndSessions(ss, leases, how) ==
  /\ row' = [r \in Reservation |->
               IF r \in leases THEN Finished(row[r], "closed") ELSE row[r]]
  /\ stream' = IF \E r \in leases : PointerAfterClear(stream, row, r) = ClearedPointer
               THEN ClearedPointer
               ELSE stream
  /\ session' = [s \in Session |-> IF s \in ss THEN how ELSE session[s]]

RemoveIf(freed) == removing' = (removing \/ freed)

(* POST /api/translator/logout *)
Logout(s) ==
  /\ session[s] = "active"
  /\ EndSessions({s}, LeasesOf({s}), "revoked")
  /\ RemoveIf(LeasesOf({s}) # {})
  /\ UNCHANGED <<deleted, credential, cred, request, roomVars>>

(* DELETE .../translators/:t/sessions/:s by an admin *)
AdminRevokesSession(s) ==
  /\ ~deleted
  /\ s \in StoredSessions
  /\ EndSessions({s}, LeasesOf({s}), "revoked")
  /\ RemoveIf(LeasesOf({s}) # {})
  /\ UNCHANGED <<deleted, credential, cred, request, roomVars>>

(* DELETE .../translators/:t/sessions by an admin. Every lease of the       *)
(* translator is closed, whatever session made it.                          *)
AdminRevokesAllSessions ==
  /\ ~deleted
  /\ EndSessions(StoredSessions, BlockingRows(row), "revoked")
  /\ RemoveIf(BlockingRows(row) # {})
  /\ UNCHANGED <<deleted, credential, cred, request, roomVars>>

(* POST or DELETE .../translator-access: the credential is replaced and     *)
(* all sessions end, in the step that follows the digest.                   *)
ReplaceCredential ==
  /\ ~deleted
  /\ credential < MaxCredential
  /\ credential' = credential + 1
  /\ EndSessions(StoredSessions, BlockingRows(row), "revoked")
  /\ RemoveIf(BlockingRows(row) # {})
  /\ UNCHANGED <<deleted, cred, request, roomVars>>

(* POST .../reset-password: the credential is replaced and the sessions are *)
(* deleted; the leases stay.                                                *)
ResetPassword ==
  /\ ~deleted
  /\ credential < MaxCredential
  /\ credential' = credential + 1
  /\ EndSessions(StoredSessions, {}, "reset")
  /\ UNCHANGED <<deleted, cred, handlerVars, roomVars>>

(* POST .../kick-publisher, with or without signing the session out.        *)
KickPublisher(r, signOut) ==
  /\ ~deleted
  /\ r \in BlockingRows(row)
  /\ LET out == IF signOut THEN StoredSessions \cap {row[r].session} ELSE {}
     IN EndSessions(out, {r} \cup LeasesOf(out), "revoked")
  /\ RemoveIf(TRUE)
  /\ UNCHANGED <<deleted, credential, cred, request, roomVars>>

(* DELETE .../programs/:p: soft delete, pointers cleared, rows untouched,   *)
(* then the stream's room is deleted.                                       *)
DeleteProgram ==
  /\ deleted' = TRUE
  /\ stream' = ClearedPointer
  /\ RemoveIf(TRUE)
  /\ UNCHANGED <<row, loginVars, request, roomVars>>

RestoreProgram ==
  /\ deleted
  /\ deleted' = FALSE
  /\ UNCHANGED <<row, stream, loginVars, handlerVars, roomVars>>

-----------------------------------------------------------------------------
(* LiveKit and the pages *)

(* LiveKit carries out a removal, before or after the handler that asked    *)
(* for it goes on, or the call fails. Whoever then has the translator's     *)
(* identity leaves, whichever reservation it came with.                     *)
LiveKitRemoves ==
  /\ removing
  /\ removing' = FALSE
  /\ EvictSpeaker \/ UNCHANGED roomVars
  /\ UNCHANGED <<dbVars, loginVars, request>>

(* The page joins, or rejoins after a network drop, with the token of r.    *)
(* LiveKit keeps one participant per identity: an older one is evicted.     *)
Join(r) ==
  /\ r \in clients
  /\ speaker # r
  /\ hooks' \in IF speaker = None THEN {hooks} ELSE Announced(Departure(speaker))
  /\ clients' = clients \ ({speaker} \ {None})
  /\ speaker' = r
  /\ audio' = None
  /\ UNCHANGED <<dbVars, loginVars, handlerVars, owner>>

PublishTrack ==
  /\ speaker \in clients
  /\ audio = None
  /\ \E t \in Track :
       /\ owner[t] = None
       /\ owner' = [owner EXCEPT ![t] = speaker]
       /\ audio' = t
       /\ hooks' \in Announced({Message("track_published", t, None)})
  /\ UNCHANGED <<dbVars, loginVars, handlerVars, speaker, clients>>

(* The participant leaves: its page closed the room, or the network dropped *)
(* and the page will rejoin.                                                *)
Leave ==
  /\ speaker # None
  /\ hooks' \in Announced(Departure(speaker))
  /\ speaker' = None
  /\ audio' = None
  /\ clients' \in {clients, clients \ {speaker}}
  /\ UNCHANGED <<dbVars, loginVars, handlerVars, owner>>

(* The page gives up on r: it failed to connect, or its tab is gone.        *)
Abandon(r) ==
  /\ r \in clients
  /\ clients' = clients \ {r}
  /\ UNCHANGED <<dbVars, loginVars, handlerVars, speaker, audio, owner, hooks>>

-----------------------------------------------------------------------------
(* POST /api/livekit/webhook *)

(* A track webhook names no reservation: the handler asks LiveKit for the   *)
(* participant that has the identity now, and uses its metadata.            *)
ResolveParticipant(m) ==
  /\ m.meta = None
  /\ hooks' \in Handled(m, IF speaker = None THEN {}
                           ELSE {Message(m.event, m.track, speaker)})
  /\ UNCHANGED <<dbVars, loginVars, handlerVars, speaker, audio, owner, clients>>

HandleTrackPublished(m) ==
  /\ m.event = "track_published"
  /\ m.meta # None
  /\ hooks' \in Handled(m, {})
  /\ IF CanGoLive(row[m.meta])
     THEN /\ row' = [row EXCEPT ![m.meta].state = "published",
                                ![m.meta].track = m.track,
                                ![m.meta].lapsed = FALSE]
          /\ stream' = LivePointer(m.track)
     ELSE UNCHANGED <<row, stream>>
  /\ UNCHANGED <<deleted, loginVars, handlerVars, speaker, audio, owner, clients>>

(* track_unpublished and participant_left both close the reservation.       *)
HandleDeparture(m) ==
  /\ m.event \in {"track_unpublished", "participant_left"}
  /\ m.meta # None
  /\ hooks' \in Handled(m, {})
  /\ row' = RowsAfterClear(row, m.meta)
  /\ stream' = PointerAfterClear(stream, row, m.meta)
  /\ UNCHANGED <<deleted, loginVars, handlerVars, speaker, audio, owner, clients>>

-----------------------------------------------------------------------------
(* Time and crashes *)

Lapse(r) ==
  /\ r \in BlockingRows(row)
  /\ ~row[r].lapsed
  /\ row' = [row EXCEPT ![r].lapsed = TRUE]
  /\ UNCHANGED <<stream, deleted, loginVars, handlerVars, roomVars>>

(* The API process restarts: the database and LiveKit keep their state, the *)
(* handlers in flight are gone.                                             *)
Restart ==
  /\ request' = [q \in Request |-> Idle]
  /\ hooks' = {m \in hooks : m.meta = None \/ m.event = "participant_left"}
  /\ session' = [s \in Session |->
                   IF session[s] = "verifying" THEN "unused" ELSE session[s]]
  /\ UNCHANGED <<dbVars, credential, cred, removing, speaker, audio, owner, clients>>

-----------------------------------------------------------------------------

Init ==
  /\ row = [r \in Reservation |->
              [state |-> "none", session |-> None, track |-> None, lapsed |-> FALSE]]
  /\ stream = ClearedPointer
  /\ deleted = FALSE
  /\ session = [s \in Session |-> "unused"]
  /\ credential = 0
  /\ cred = [s \in Session |-> 0]
  /\ request = [q \in Request |-> Idle]
  /\ removing = FALSE
  /\ speaker = None
  /\ audio = None
  /\ owner = [t \in Track |-> None]
  /\ clients = {}
  /\ hooks = {}

SessionStep(s) ==
  \/ LoginVerifies(s)
  \/ LoginCreatesSession(s)
  \/ SessionExpires(s)
  \/ TokenGranted(s)
  \/ \E q \in Request : TokenReclaims(s, q)
  \/ Logout(s)
  \/ AdminRevokesSession(s)

ReservationStep(r) ==
  \/ \E q \in Request : StopRequest(r, q)
  \/ Heartbeat(r)
  \/ \E signOut \in BOOLEAN : KickPublisher(r, signOut)
  \/ Join(r)
  \/ Abandon(r)
  \/ Lapse(r)

RequestStep(q) ==
  \/ ReclaimResumes(q)
  \/ StopResumes(q)

AdminStep ==
  \/ AdminRevokesAllSessions
  \/ ReplaceCredential
  \/ ResetPassword
  \/ DeleteProgram
  \/ RestoreProgram

RoomStep ==
  \/ LiveKitRemoves
  \/ PublishTrack
  \/ Leave

WebhookStep(m) ==
  \/ ResolveParticipant(m)
  \/ HandleTrackPublished(m)
  \/ HandleDeparture(m)

Next ==
  \/ \E s \in Session : SessionStep(s)
  \/ \E r \in Reservation : ReservationStep(r)
  \/ \E q \in Request : RequestStep(q)
  \/ \E m \in hooks : WebhookStep(m)
  \/ AdminStep
  \/ RoomStep
  \/ Restart

Spec == Init /\ [][Next]_vars

-----------------------------------------------------------------------------
(* Safety *)

(* The stream has at most one publisher reservation that is not finished:   *)
(* reservePublisher refuses while getBlockingPublisher would find a row, and *)
(* the partial unique index of the table never has to step in.              *)
OneLease ==
  \A r1, r2 \in Reservation :
    /\ row[r1].state \in {"reserved", "published"}
    /\ row[r2].state \in {"reserved", "published"}
    => r1 = r2

(* Listeners are told the stream is live only while some reservation is      *)
(* published with exactly the track they are pointed at: every path that     *)
(* closes a row clears the pointer that row put up, and none of the guarded  *)
(* clears leaves half a pointer behind.                                     *)
LiveIsLeased ==
  /\ stream.isLive =>
       /\ stream.room
       /\ stream.track # None
       /\ \E r \in Reservation :
            row[r].state = "published" /\ row[r].track = stream.track
  /\ ~stream.isLive => stream.track = None

(* A reservation that was closed or has failed is never used again, whatever *)
(* late webhook, retried stop or resumed handler still names it.             *)
RetiredStaysRetired ==
  [][\A r \in Reservation :
       row[r].state \in {"closed", "failed"} => row'[r] = row[r]]_vars

OnAir(r) ==
  /\ row[r].state = "published"
  /\ ~row[r].lapsed
  /\ stream.isLive
  /\ stream.track = row[r].track

(* A reservation that is on the air goes off only because it is itself      *)
(* closed, its expiry passes, or its program is deleted: a late stop,       *)
(* departure or reclaim of another reservation never takes the live pointer  *)
(* from it (the "if current" guards of clearPublisher and                    *)
(* reclaimExpiredPublishers).                                               *)
OnAirStable ==
  [][\A r \in Reservation :
       OnAir(r) /\ ~OnAir(r)' =>
         \/ row'[r].state # "published"
         \/ row'[r].lapsed
         \/ deleted']_vars

(* The lease is the abstract slot: one holder, on the air at most once and   *)
(* only while it holds, never again after it retired.                       *)
Slot == INSTANCE PublisherSlot WITH
  holder  <- {r \in Reservation : row[r].state \in {"reserved", "published"}},
  onAir   <- {r \in Reservation : row[r].state = "published"},
  retired <- {r \in Reservation : row[r].state \in {"closed", "failed"}}

ImplementsSlot == Slot!SlotSpec

(* Ending one session leaves a stream alone that another signed-in session   *)
(* holds: revokeSession frees the lease of its own session, never what the   *)
(* translator has since reserved from another browser.                      *)
SignOutSparesOthers ==
  [][\A r \in Reservation :
       /\ row[r].state \in {"reserved", "published"}
       /\ session[row[r].session] = "active"
       /\ session'[row[r].session] = "active"
       /\ \E s \in Session : session[s] = "active" /\ session'[s] = "revoked"
       => row'[r] = row[r] /\ stream' = stream]_vars

-----------------------------------------------------------------------------
(* Liveness *)

(* Somebody can refresh r: its page is there, in a browser that holds a     *)
(* session of the translator, be it the one that made r or another.         *)
Attended(r) == r \in clients /\ SignedIn

(* Time passes for a row nobody refreshes. Nothing else has to happen.       *)
FairSpec == Spec /\ \A r \in Reservation : WF_vars(~Attended(r) /\ Lapse(r))

(* A reservation that is not attended any more stops blocking the stream    *)
(* for good: it is closed, or it stays lapsed, so that the next token       *)
(* request takes over. No repeated or late webhook brings it back.          *)
AbandonedLeaseLapses ==
  \A r \in Reservation :
    <>[]~Attended(r) => <>[](row[r].lapsed \/ r \notin BlockingRows(row))
=============================================================================
