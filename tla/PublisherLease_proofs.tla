----------------------- MODULE PublisherLease_proofs -----------------------
(***************************************************************************)
(* Proofs about PublisherLease, for any sets of reservations, sessions,    *)
(* requests and tracks, any bounds, with and without repeated webhooks.    *)
(*                                                                         *)
(* The inductive invariant is TypeOK /\ OneLease /\ LiveIsLeased. The two  *)
(* safety parts need each other: the guards of the clears compare tracks,  *)
(* not reservations, so that closing a row takes down the pointer it put   *)
(* up follows only because no other row can be the one that backs it.      *)
(*                                                                         *)
(* Two action properties need more than it: OnAirStable that a track is in *)
(* at most one row or webhook (TracksOnce), and SignOutSparesOthers that   *)
(* every unfinished row was made by a session (RowsHeld).                  *)
(***************************************************************************)
EXTENDS PublisherLease, TLAPS

-----------------------------------------------------------------------------
(* The database part of the invariant, for rows rw and a pointer st.        *)

Active(rec) == rec.state \in {"reserved", "published"}

OneActive(rw) ==
  \A r1, r2 \in Reservation : Active(rw[r1]) /\ Active(rw[r2]) => r1 = r2

Backed(rw, st) ==
  /\ st.isLive =>
       /\ st.room
       /\ st.track # None
       /\ \E r \in Reservation : rw[r].state = "published" /\ rw[r].track = st.track
  /\ ~st.isLive => st.track = None

Safe(rw, st) ==
  /\ rw \in [Reservation -> Row]
  /\ st \in Pointer
  /\ OneActive(rw)
  /\ Backed(rw, st)

LEMMA ClearedIsSafe ==
  ASSUME NEW rw \in [Reservation -> Row], OneActive(rw)
  PROVE  Safe(rw, ClearedPointer)
BY DEF Safe, ClearedPointer, Pointer, Backed

LEMMA FinishedIsRow ==
  ASSUME NEW rec \in Row, NEW how \in {"closed", "failed"}
  PROVE  /\ Finished(rec, how) \in Row
         /\ ~Active(Finished(rec, how))
BY DEF Finished, Row, RowState, Active

(* Closing the row r and clearing the pointer if it is r's keeps the        *)
(* database safe, also when r is unknown or finished already.               *)
LEMMA ClearKeepsSafe ==
  ASSUME NEW rw, NEW st, NEW r, Safe(rw, st)
  PROVE  Safe(RowsAfterClear(rw, r), PointerAfterClear(st, rw, r))
<1> DEFINE rows == RowsAfterClear(rw, r)
           ptr == PointerAfterClear(st, rw, r)
<1>1. rw \in [Reservation -> Row] /\ st \in Pointer /\ OneActive(rw) /\ Backed(rw, st)
  BY DEF Safe
<1>2. CASE r \in BlockingRows(rw)
  <2>1. r \in Reservation /\ Active(rw[r]) /\ rw[r] \in Row
    BY <1>1, <1>2 DEF BlockingRows, Active
  <2>2. rows = [rw EXCEPT ![r] = Finished(rw[r], "closed")]
    BY <1>2 DEF RowsAfterClear
  <2>3. Finished(rw[r], "closed") \in Row /\ ~Active(Finished(rw[r], "closed"))
    BY <2>1, FinishedIsRow
  <2>4. /\ rows \in [Reservation -> Row]
        /\ ~Active(rows[r])
        /\ \A x \in Reservation \ {r} : rows[x] = rw[x]
    BY <1>1, <2>1, <2>2, <2>3
  <2>5. OneActive(rows)
    BY <1>1, <2>4 DEF OneActive
  <2>6. CASE ptr = ClearedPointer
    BY <2>4, <2>5, <2>6, ClearedIsSafe
  <2>7. CASE ptr # ClearedPointer
    <3>1. ptr = st /\ ~(st.room /\ st.track = rw[r].track)
      BY <2>7 DEF PointerAfterClear
    <3>2. ~st.isLive
      <4>1. SUFFICES ASSUME st.isLive PROVE FALSE
        OBVIOUS
      <4>2. PICK x \in Reservation : rw[x].state = "published" /\ rw[x].track = st.track
        BY <1>1, <4>1 DEF Backed
      <4>3. x = r
        BY <1>1, <2>1, <4>2 DEF OneActive, Active
      <4>4. QED
        BY <1>1, <3>1, <4>1, <4>2, <4>3 DEF Backed
    <3>3. QED
      BY <1>1, <2>4, <2>5, <3>1, <3>2 DEF Safe, Backed
  <2>8. QED
    BY <2>6, <2>7
<1>3. CASE r \notin BlockingRows(rw)
  <2>1. rows = rw
    BY <1>3 DEF RowsAfterClear
  <2>2. ptr = st \/ ptr = ClearedPointer
    BY DEF PointerAfterClear
  <2>3. QED
    BY <1>1, <2>1, <2>2, ClearedIsSafe DEF Safe
<1>4. QED
  BY <1>2, <1>3

(* reclaimExpiredPublishers keeps the database safe.                        *)
LEMMA ReclaimKeepsSafe ==
  ASSUME NEW rw, NEW st, Safe(rw, st)
  PROVE  Safe(RowsAfterReclaim(rw), PointerAfterReclaim(st, rw))
<1> DEFINE rows == RowsAfterReclaim(rw)
           ptr == PointerAfterReclaim(st, rw)
<1>1. rw \in [Reservation -> Row] /\ st \in Pointer /\ OneActive(rw) /\ Backed(rw, st)
  BY DEF Safe
<1>2. \A r \in Reservation :
        /\ rows[r] \in Row
        /\ Active(rows[r]) => rows[r] = rw[r]
        /\ ~rw[r].lapsed => rows[r] = rw[r]
  BY <1>1, FinishedIsRow DEF RowsAfterReclaim
<1>3. rows \in [Reservation -> Row]
  BY <1>2 DEF RowsAfterReclaim
<1>4. OneActive(rows)
  BY <1>1, <1>2 DEF OneActive
<1>5. CASE ptr = ClearedPointer
  BY <1>3, <1>4, <1>5, ClearedIsSafe
<1>6. CASE ptr # ClearedPointer
  <2>1. ptr = st
    BY <1>6 DEF PointerAfterReclaim
  <2>2. CASE ~st.isLive
    BY <1>1, <1>3, <1>4, <2>1, <2>2 DEF Safe, Backed
  <2>3. CASE st.isLive
    <3>1. PICK r \in Reservation : rw[r].state = "published" /\ rw[r].track = st.track
      BY <1>1, <2>3 DEF Backed
    <3>2. ~rw[r].lapsed
      BY <1>1, <1>6, <2>3, <3>1 DEF PointerAfterReclaim, BlockingRows, Backed
    <3>3. rows[r] = rw[r]
      BY <1>2, <3>2
    <3>4. QED
      BY <1>1, <1>3, <1>4, <2>1, <2>3, <3>1, <3>3 DEF Safe, Backed
  <2>4. QED
    BY <2>2, <2>3
<1>7. QED
  BY <1>5, <1>6

(* A new row over rows of which none is active keeps the database safe.     *)
LEMMA ReserveKeepsSafe ==
  ASSUME NEW rw, NEW st, NEW s \in Session \cup {None},
         Safe(rw, st), clients \subseteq Reservation, ReserveAndAttach(rw, st, s)
  PROVE  Safe(row, stream)' /\ clients' \subseteq Reservation
<1> DEFINE rows == RowsAfterReclaim(rw)
           unused == {r \in Reservation : rows[r].state = "none"}
<1>1. Safe(rows, PointerAfterReclaim(st, rw))
  BY ReclaimKeepsSafe
<1>2. CASE BlockingRows(rows) # {} \/ unused = {}
  BY <1>1, <1>2 DEF ReserveAndAttach
<1>3. CASE BlockingRows(rows) = {} /\ unused # {}
  <2>1. PICK r \in unused :
          /\ row' = [rows EXCEPT ![r] = NewRow(s)]
          /\ stream' = AttachedPointer
          /\ clients' \in {clients, clients \cup {r}}
    BY <1>3 DEF ReserveAndAttach
  <2>2. NewRow(s) \in Row
    BY DEF NewRow, Row, RowState
  <2>3. rows \in [Reservation -> Row] /\ (\A x \in Reservation : ~Active(rows[x]))
    BY <1>1, <1>3 DEF Safe, BlockingRows, Active
  <2>4. row' \in [Reservation -> Row] /\ OneActive(row')
    BY <2>1, <2>2, <2>3 DEF OneActive
  <2>5. stream' \in Pointer /\ Backed(row', stream')
    BY <2>1 DEF AttachedPointer, Pointer, Backed
  <2>6. QED
    BY <2>1, <2>4, <2>5 DEF Safe
<1>4. QED
  BY <1>2, <1>3

(* Closing leases and ending sessions keeps the database safe.              *)
LEMMA EndSessionsKeepsSafe ==
  ASSUME NEW ss, NEW leases, NEW how \in SessionState,
         Safe(row, stream), session \in [Session -> SessionState],
         leases \subseteq BlockingRows(row), EndSessions(ss, leases, how)
  PROVE  Safe(row, stream)' /\ session' \in [Session -> SessionState]
<1>1. /\ row \in [Reservation -> Row]
      /\ stream \in Pointer
      /\ OneActive(row)
      /\ Backed(row, stream)
  BY DEF Safe
<1>2. \A r \in Reservation :
        /\ row'[r] = IF r \in leases THEN Finished(row[r], "closed") ELSE row[r]
        /\ row'[r] \in Row
        /\ Active(row'[r]) => row'[r] = row[r] /\ r \notin leases
  BY <1>1, FinishedIsRow DEF EndSessions
<1>3. row' \in [Reservation -> Row]
  BY <1>2 DEF EndSessions
<1>4. OneActive(row')
  BY <1>1, <1>2 DEF OneActive
<1>5. session' \in [Session -> SessionState]
  BY DEF EndSessions
<1>6. CASE stream' = ClearedPointer
  BY <1>3, <1>4, <1>5, <1>6, ClearedIsSafe
<1>7. CASE stream' # ClearedPointer
  <2>1. stream' = stream /\ \A r \in leases : PointerAfterClear(stream, row, r) # ClearedPointer
    BY <1>7 DEF EndSessions
  <2>2. CASE ~stream.isLive
    BY <1>1, <1>3, <1>4, <1>5, <2>1, <2>2 DEF Safe, Backed
  <2>3. CASE stream.isLive
    <3>1. PICK r \in Reservation : row[r].state = "published" /\ row[r].track = stream.track
      BY <1>1, <2>3 DEF Backed
    <3>2. r \notin leases
      BY <1>1, <2>1, <2>3, <3>1 DEF PointerAfterClear, Backed
    <3>3. row'[r] = row[r]
      BY <1>2, <3>2
    <3>4. QED
      BY <1>1, <1>3, <1>4, <1>5, <2>1, <2>3, <3>1, <3>3 DEF Safe, Backed
  <2>4. QED
    BY <2>2, <2>3
<1>8. QED
  BY <1>6, <1>7

-----------------------------------------------------------------------------
(* The rest of the state keeps its type.                                    *)

LoginTyped ==
  /\ session \in [Session -> SessionState]
  /\ credential \in 0 .. MaxCredential
  /\ cred \in [Session -> 0 .. MaxCredential]

HandlerTyped ==
  /\ request \in [Request -> Task]
  /\ removing \in BOOLEAN

RoomTyped ==
  /\ speaker \in Reservation \cup {None}
  /\ audio \in Track \cup {None}
  /\ owner \in [Track -> Reservation \cup {None}]
  /\ clients \subseteq Reservation
  /\ hooks \subseteq TrackHook \cup LeftHook

IInv ==
  /\ Safe(row, stream)
  /\ deleted \in BOOLEAN
  /\ LoginTyped
  /\ HandlerTyped
  /\ RoomTyped

LEMMA IInvImplies == IInv => TypeOK /\ OneLease /\ LiveIsLeased
BY DEF IInv, Safe, LoginTyped, HandlerTyped, RoomTyped, TypeOK, OneLease,
       LiveIsLeased, OneActive, Active, Backed

LEMMA DepartureTyped ==
  ASSUME RoomTyped, speaker # None
  PROVE  \A hs \in Announced(Departure(speaker)) : hs \subseteq TrackHook \cup LeftHook
<1>1. Message("participant_left", None, speaker) \in LeftHook
  BY DEF RoomTyped, Message, LeftHook
<1>2. audio # None => Message("track_unpublished", audio, None) \in TrackHook
  BY DEF RoomTyped, Message, TrackHook
<1>3. Departure(speaker) \subseteq TrackHook \cup LeftHook
  BY <1>1, <1>2 DEF Departure
<1>4. QED
  BY <1>3 DEF RoomTyped, Announced

LEMMA HandledTyped ==
  ASSUME RoomTyped, NEW m \in hooks, NEW next \in SUBSET (TrackHook \cup LeftHook)
  PROVE  \A hs \in Handled(m, next) : hs \subseteq TrackHook \cup LeftHook
BY DEF RoomTyped, Handled

LEMMA EvictTyped ==
  ASSUME RoomTyped, EvictSpeaker
  PROVE  RoomTyped'
<1>1. CASE speaker = None
  BY <1>1 DEF EvictSpeaker, RoomTyped, roomVars
<1>2. CASE speaker # None
  BY <1>2, DepartureTyped DEF EvictSpeaker, RoomTyped
<1>3. QED
  BY <1>1, <1>2

LEMMA IdleIsTask == Idle \in Task
BY DEF Idle, Task

-----------------------------------------------------------------------------
(* Every action keeps the inductive invariant.                              *)

LEMMA SessionStepKeepsIInv ==
  ASSUME IInv, NEW s \in Session, SessionStep(s)
  PROVE  IInv'
<1> USE DEF IInv, LoginTyped
<1>1. CASE LoginVerifies(s)
  BY <1>1 DEF LoginVerifies, SessionState, dbVars, handlerVars, roomVars, HandlerTyped,
              RoomTyped
<1>2. CASE LoginCreatesSession(s)
  BY <1>2 DEF LoginCreatesSession, SessionState, dbVars, handlerVars, roomVars,
              HandlerTyped, RoomTyped
<1>3. CASE SessionExpires(s)
  BY <1>3 DEF SessionExpires, SessionState, dbVars, handlerVars, roomVars, HandlerTyped,
              RoomTyped
<1>4. CASE TokenGranted(s)
  <2>1. Safe(row, stream)' /\ clients' \subseteq Reservation
    BY <1>4, ReserveKeepsSafe DEF TokenGranted, RoomTyped
  <2>2. QED
    BY <1>4, <2>1 DEF TokenGranted, loginVars, handlerVars, HandlerTyped, RoomTyped
<1>5. ASSUME NEW q \in Request, TokenReclaims(s, q) PROVE IInv'
  <2>1. Safe(row, stream)'
    BY <1>5, ReclaimKeepsSafe DEF TokenReclaims
  <2>2. PICK r \in BlockingRows(row') :
          request' = [request EXCEPT ![q] = Waiting("reclaim", r, s)]
    BY <1>5 DEF TokenReclaims
  <2>3. Waiting("reclaim", r, s) \in Task
    BY DEF Waiting, Task, BlockingRows
  <2>4. HandlerTyped'
    BY <1>5, <2>2, <2>3 DEF TokenReclaims, HandlerTyped
  <2>5. QED
    BY <1>5, <2>1, <2>4 DEF TokenReclaims, loginVars, roomVars, RoomTyped
<1>6. CASE Logout(s)
  <2>1. Safe(row, stream)' /\ session' \in [Session -> SessionState]
    BY <1>6, EndSessionsKeepsSafe DEF Logout, LeasesOf, SessionState
  <2>2. QED
    BY <1>6, <2>1 DEF Logout, RemoveIf, HandlerTyped, roomVars, RoomTyped
<1>7. CASE AdminRevokesSession(s)
  <2>1. Safe(row, stream)' /\ session' \in [Session -> SessionState]
    BY <1>7, EndSessionsKeepsSafe DEF AdminRevokesSession, LeasesOf, SessionState
  <2>2. QED
    BY <1>7, <2>1 DEF AdminRevokesSession, RemoveIf, HandlerTyped, roomVars, RoomTyped
<1>8. QED
  BY <1>1, <1>2, <1>3, <1>4, <1>5, <1>6, <1>7 DEF SessionStep

(* A new value for the expiry of one row.                                   *)
LEMMA LapseKeepsSafe ==
  ASSUME Safe(row, stream), NEW r \in Reservation, NEW b \in BOOLEAN,
         row' = [row EXCEPT ![r].lapsed = b], stream' = stream
  PROVE  Safe(row, stream)'
<1>1. row \in [Reservation -> Row] /\ stream \in Pointer
  BY DEF Safe
<1>2. /\ row' \in [Reservation -> Row]
      /\ \A x \in Reservation :
           row'[x].state = row[x].state /\ row'[x].track = row[x].track
  BY <1>1 DEF Row
<1>3. OneActive(row')
  BY <1>2 DEF Safe, OneActive, Active
<1>4. Backed(row', stream')
  BY <1>2 DEF Safe, Backed
<1>5. QED
  BY <1>1, <1>2, <1>3, <1>4 DEF Safe

LEMMA ReservationStepKeepsIInv ==
  ASSUME IInv, NEW r \in Reservation, ReservationStep(r)
  PROVE  IInv'
<1> USE DEF IInv, LoginTyped
<1>1. ASSUME NEW q \in Request, StopRequest(r, q) PROVE IInv'
  <2>1. Waiting("stop", r, None) \in Task
    BY DEF Waiting, Task
  <2>2. HandlerTyped'
    BY <1>1, <2>1 DEF StopRequest, HandlerTyped
  <2>3. QED
    BY <1>1, <2>2 DEF StopRequest, dbVars, loginVars, RoomTyped
<1>2. CASE Heartbeat(r)
  <2>1. CASE row[r].state = "published"
    <3>1. Safe(row, stream)'
      BY <1>2, <2>1, LapseKeepsSafe DEF Heartbeat
    <3>2. QED
      BY <1>2, <2>1, <3>1 DEF Heartbeat, loginVars, handlerVars, HandlerTyped, RoomTyped
  <2>2. CASE row[r].state # "published"
    BY <1>2, <2>2 DEF Heartbeat, loginVars, handlerVars, HandlerTyped, RoomTyped
  <2>3. QED
    BY <2>1, <2>2
<1>3. ASSUME NEW signOut \in BOOLEAN, KickPublisher(r, signOut) PROVE IInv'
  <2> DEFINE out == IF signOut THEN StoredSessions \cap {row[r].session} ELSE {}
  <2>1. {r} \cup LeasesOf(out) \subseteq BlockingRows(row)
    BY <1>3 DEF KickPublisher, LeasesOf
  <2>2. EndSessions(out, {r} \cup LeasesOf(out), "revoked")
    BY <1>3 DEF KickPublisher
  <2>3. Safe(row, stream)' /\ session' \in [Session -> SessionState]
    BY <2>1, <2>2, EndSessionsKeepsSafe DEF SessionState
  <2>4. QED
    BY <1>3, <2>3 DEF KickPublisher, RemoveIf, HandlerTyped, roomVars, RoomTyped
<1>4. CASE Join(r)
  <2>1. hooks' \subseteq TrackHook \cup LeftHook
    BY <1>4, DepartureTyped DEF Join, RoomTyped
  <2>2. QED
    BY <1>4, <2>1 DEF Join, dbVars, loginVars, handlerVars, HandlerTyped, RoomTyped
<1>5. CASE Abandon(r)
  BY <1>5 DEF Abandon, dbVars, loginVars, handlerVars, HandlerTyped, RoomTyped
<1>6. CASE Lapse(r)
  <2>1. Safe(row, stream)'
    BY <1>6, LapseKeepsSafe DEF Lapse
  <2>2. QED
    BY <1>6, <2>1 DEF Lapse, loginVars, handlerVars, roomVars, HandlerTyped, RoomTyped
<1>7. QED
  BY <1>1, <1>2, <1>3, <1>4, <1>5, <1>6 DEF ReservationStep

LEMMA RequestStepKeepsIInv ==
  ASSUME IInv, NEW q \in Request, RequestStep(q)
  PROVE  IInv'
<1> USE DEF IInv, LoginTyped
<1>1. request[q].session \in Session \cup {None}
  BY DEF HandlerTyped, Task
<1>2. CASE ReclaimResumes(q)
  <2>1. Safe(row, stream)' /\ clients' \subseteq Reservation
    BY <1>1, <1>2, ClearKeepsSafe, ReserveKeepsSafe DEF ReclaimResumes, RoomTyped
  <2>2. HandlerTyped'
    BY <1>2, IdleIsTask DEF ReclaimResumes, HandlerTyped
  <2>3. QED
    BY <1>2, <2>1, <2>2 DEF ReclaimResumes, loginVars, RoomTyped
<1>3. CASE StopResumes(q)
  <2>1. Safe(row, stream)'
    BY <1>3, ClearKeepsSafe DEF StopResumes
  <2>2. HandlerTyped'
    BY <1>3, IdleIsTask DEF StopResumes, HandlerTyped
  <2>3. QED
    BY <1>3, <2>1, <2>2 DEF StopResumes, loginVars, roomVars, RoomTyped
<1>4. QED
  BY <1>2, <1>3 DEF RequestStep

LEMMA WebhookStepKeepsIInv ==
  ASSUME IInv, NEW m \in hooks, WebhookStep(m)
  PROVE  IInv'
<1> USE DEF IInv, LoginTyped
<1>1. m \in TrackHook \cup LeftHook
  BY DEF RoomTyped
<1>2. CASE ResolveParticipant(m)
  <2> DEFINE next == IF speaker = None THEN {}
                     ELSE {Message(m.event, m.track, speaker)}
  <2>1. next \subseteq TrackHook \cup LeftHook
    BY <1>1, <1>2 DEF ResolveParticipant, RoomTyped, TrackHook, LeftHook, Message, NoneIsFresh
  <2>2. hooks' \subseteq TrackHook \cup LeftHook
    BY <1>2, <2>1, HandledTyped DEF ResolveParticipant
  <2>3. QED
    BY <1>2, <2>2 DEF ResolveParticipant, dbVars, loginVars, handlerVars, HandlerTyped,
                      RoomTyped
<1>3. CASE HandleTrackPublished(m)
  <2>1. m.meta \in Reservation /\ m.track \in Track
    BY <1>1, <1>3 DEF HandleTrackPublished, TrackHook, LeftHook
  <2>2. hooks' \subseteq TrackHook \cup LeftHook
    BY <1>3, HandledTyped DEF HandleTrackPublished
  <2>3. Safe(row, stream)'
    <3>1. CASE CanGoLive(row[m.meta])
      <4>1. /\ row \in [Reservation -> Row]
            /\ OneActive(row)
            /\ Active(row[m.meta])
        BY <3>1 DEF Safe, CanGoLive, Active
      <4>2. /\ row' = [row EXCEPT ![m.meta] = [row[m.meta] EXCEPT
                        !.state = "published", !.track = m.track, !.lapsed = FALSE]]
            /\ stream' = LivePointer(m.track)
        BY <1>3, <2>1, <3>1, <4>1 DEF HandleTrackPublished, Row
      <4>3. /\ row' \in [Reservation -> Row]
            /\ row'[m.meta].state = "published"
            /\ row'[m.meta].track = m.track
            /\ \A x \in Reservation \ {m.meta} : row'[x] = row[x]
        BY <2>1, <4>1, <4>2 DEF Row, RowState
      <4>4. OneActive(row')
        BY <2>1, <4>1, <4>3 DEF OneActive, Active
      <4>5. stream' \in Pointer /\ Backed(row', stream')
        BY <2>1, <4>2, <4>3, NoneIsFresh DEF LivePointer, Pointer, Backed
      <4>6. QED
        BY <4>3, <4>4, <4>5 DEF Safe
    <3>2. CASE ~CanGoLive(row[m.meta])
      BY <1>3, <3>2 DEF HandleTrackPublished
    <3>3. QED
      BY <3>1, <3>2
  <2>4. QED
    BY <1>3, <2>2, <2>3 DEF HandleTrackPublished, loginVars, handlerVars, HandlerTyped,
                            RoomTyped
<1>4. CASE HandleDeparture(m)
  <2>1. hooks' \subseteq TrackHook \cup LeftHook
    BY <1>4, HandledTyped DEF HandleDeparture
  <2>2. Safe(row, stream)'
    BY <1>4, ClearKeepsSafe DEF HandleDeparture
  <2>3. QED
    BY <1>4, <2>1, <2>2 DEF HandleDeparture, loginVars, handlerVars, HandlerTyped, RoomTyped
<1>5. QED
  BY <1>2, <1>3, <1>4 DEF WebhookStep

LEMMA AdminStepKeepsIInv ==
  ASSUME IInv, AdminStep
  PROVE  IInv'
<1> USE DEF IInv, LoginTyped
<1>1. CASE AdminRevokesAllSessions
  <2>1. Safe(row, stream)' /\ session' \in [Session -> SessionState]
    BY <1>1, EndSessionsKeepsSafe DEF AdminRevokesAllSessions, SessionState
  <2>2. QED
    BY <1>1, <2>1 DEF AdminRevokesAllSessions, RemoveIf, HandlerTyped, roomVars, RoomTyped
<1>2. CASE ReplaceCredential
  <2>1. Safe(row, stream)' /\ session' \in [Session -> SessionState]
    BY <1>2, EndSessionsKeepsSafe DEF ReplaceCredential, SessionState
  <2>2. credential' \in 0 .. MaxCredential
    BY <1>2, BoundsAreNat DEF ReplaceCredential
  <2>3. QED
    BY <1>2, <2>1, <2>2 DEF ReplaceCredential, RemoveIf, HandlerTyped, roomVars, RoomTyped
<1>3. CASE ResetPassword
  <2>1. Safe(row, stream)' /\ session' \in [Session -> SessionState]
    BY <1>3, EndSessionsKeepsSafe DEF ResetPassword, SessionState
  <2>2. credential' \in 0 .. MaxCredential
    BY <1>3, BoundsAreNat DEF ResetPassword
  <2>3. QED
    BY <1>3, <2>1, <2>2 DEF ResetPassword, handlerVars, HandlerTyped, roomVars, RoomTyped
<1>4. CASE DeleteProgram
  <2>1. Safe(row, stream)'
    BY <1>4, ClearedIsSafe DEF DeleteProgram, Safe
  <2>2. QED
    BY <1>4, <2>1 DEF DeleteProgram, RemoveIf, loginVars, HandlerTyped, roomVars, RoomTyped
<1>5. CASE RestoreProgram
  BY <1>5 DEF RestoreProgram, loginVars, handlerVars, HandlerTyped, roomVars, RoomTyped
<1>6. QED
  BY <1>1, <1>2, <1>3, <1>4, <1>5 DEF AdminStep

LEMMA RoomStepKeepsIInv ==
  ASSUME IInv, RoomStep
  PROVE  IInv'
<1> USE DEF IInv, LoginTyped
<1>1. CASE LiveKitRemoves
  <2>1. RoomTyped'
    BY <1>1, EvictTyped DEF LiveKitRemoves, roomVars, RoomTyped
  <2>2. QED
    BY <1>1, <2>1 DEF LiveKitRemoves, dbVars, loginVars, HandlerTyped
<1>2. CASE PublishTrack
  <2>1. PICK t \in Track :
          /\ owner' = [owner EXCEPT ![t] = speaker]
          /\ audio' = t
          /\ hooks' \in Announced({Message("track_published", t, None)})
    BY <1>2 DEF PublishTrack
  <2>2. Message("track_published", t, None) \in TrackHook
    BY DEF Message, TrackHook
  <2>3. hooks' \subseteq TrackHook \cup LeftHook
    BY <2>1, <2>2 DEF Announced, RoomTyped
  <2>4. QED
    BY <1>2, <2>1, <2>3 DEF PublishTrack, dbVars, loginVars, handlerVars, HandlerTyped,
                            RoomTyped
<1>3. CASE Leave
  BY <1>3, DepartureTyped DEF Leave, dbVars, loginVars, handlerVars, HandlerTyped, RoomTyped
<1>4. QED
  BY <1>1, <1>2, <1>3 DEF RoomStep

LEMMA RestartKeepsIInv ==
  ASSUME IInv, Restart
  PROVE  IInv'
<1>1. session' \in [Session -> SessionState]
  BY DEF IInv, LoginTyped, Restart, SessionState
<1>2. HandlerTyped'
  BY IdleIsTask DEF IInv, Restart, HandlerTyped
<1>3. RoomTyped'
  BY DEF IInv, Restart, RoomTyped
<1>4. QED
  BY <1>1, <1>2, <1>3 DEF IInv, LoginTyped, Restart, dbVars

LEMMA StutterKeepsIInv ==
  ASSUME IInv, UNCHANGED vars
  PROVE  IInv'
BY DEF IInv, LoginTyped, HandlerTyped, RoomTyped, vars, dbVars, loginVars, handlerVars,
       roomVars

LEMMA InitIsIInv == Init => IInv
<1> SUFFICES ASSUME Init PROVE IInv
  OBVIOUS
<1>1. row \in [Reservation -> Row]
  BY DEF Init, Row, RowState
<1>2. OneActive(row)
  BY DEF Init, OneActive, Active
<1>3. Safe(row, stream) /\ deleted \in BOOLEAN
  BY <1>1, <1>2, ClearedIsSafe DEF Init
<1>4. LoginTyped
  BY BoundsAreNat DEF Init, LoginTyped, SessionState
<1>5. HandlerTyped
  BY IdleIsTask DEF Init, HandlerTyped
<1>6. RoomTyped
  BY DEF Init, RoomTyped
<1>7. QED
  BY <1>3, <1>4, <1>5, <1>6 DEF IInv

LEMMA NextKeepsIInv == IInv /\ [Next]_vars => IInv'
BY SessionStepKeepsIInv, ReservationStepKeepsIInv, RequestStepKeepsIInv,
   WebhookStepKeepsIInv, AdminStepKeepsIInv, RoomStepKeepsIInv, RestartKeepsIInv,
   StutterKeepsIInv DEF Next

-----------------------------------------------------------------------------
(* The strengthened invariant holds in every reachable state.               *)
THEOREM Inductive == Spec => []IInv
BY InitIsIInv, NextKeepsIInv, PTL DEF Spec

(* Every variable keeps its type, for any constants: the rows, the pointer,  *)
(* the sessions, the waiting handlers, the room and the webhooks.           *)
THEOREM TypeCorrect == Spec => []TypeOK
BY Inductive, IInvImplies, PTL

(* However requests, revocations, webhooks, expiry and restarts interleave,  *)
(* the stream never has two unfinished reservations.                        *)
THEOREM SinglePublisher == Spec => []OneLease
BY Inductive, IInvImplies, PTL

(* The stream is never shown live without a published reservation that owns  *)
(* the track listeners are pointed at.                                      *)
THEOREM LivePointerIsBacked == Spec => []LiveIsLeased
BY Inductive, IInvImplies, PTL

-----------------------------------------------------------------------------
(* What a step can do to the rows: retire unfinished ones, let a new one     *)
(* take the stream, put the reserved one on the air, or change an expiry.    *)

Retired(rec) == rec.state \in {"closed", "failed"}

RetiresOrKeeps(rec, rec2) == rec2 = rec \/ (Active(rec) /\ Retired(rec2))

Retires(rw, rw2) == \A x \in Reservation : RetiresOrKeeps(rw[x], rw2[x])

TakenBy(rw, rw2, r) ==
  /\ rw[r].state = "none"
  /\ rw2[r].state = "reserved"
  /\ \A x \in Reservation \ {r} : RetiresOrKeeps(rw[x], rw2[x]) /\ ~Active(rw2[x])

OnlyChanges(rw, rw2, r) == \A x \in Reservation \ {r} : rw2[x] = rw[x]

PutsOnAir(rw, rw2, r) ==
  /\ rw[r].state = "reserved"
  /\ rw2[r].state = "published"
  /\ OnlyChanges(rw, rw2, r)

Redates(rw, rw2, r) ==
  /\ Active(rw[r])
  /\ rw2[r].state = rw[r].state
  /\ OnlyChanges(rw, rw2, r)

RowChange(rw, rw2) ==
  \/ Retires(rw, rw2)
  \/ \E r \in Reservation :
       TakenBy(rw, rw2, r) \/ PutsOnAir(rw, rw2, r) \/ Redates(rw, rw2, r)

LEMMA ActiveIsNotRetired == \A rec : ~(Active(rec) /\ Retired(rec))
BY DEF Active, Retired

LEMMA FinishedIsRetired ==
  ASSUME NEW rec \in Row, NEW how \in {"closed", "failed"}
  PROVE  Retired(Finished(rec, how))
BY DEF Finished, Row, Retired

LEMMA ClearRetires ==
  ASSUME NEW rw, NEW st, NEW r, Safe(rw, st)
  PROVE  Retires(rw, RowsAfterClear(rw, r))
BY FinishedIsRetired DEF Safe, RowsAfterClear, BlockingRows, Retires, RetiresOrKeeps, Active

LEMMA ReclaimRetires ==
  ASSUME NEW rw, NEW st, Safe(rw, st)
  PROVE  Retires(rw, RowsAfterReclaim(rw))
BY FinishedIsRetired DEF Safe, RowsAfterReclaim, BlockingRows, Retires, RetiresOrKeeps, Active

LEMMA RetiresTransitive ==
  ASSUME NEW rw1, NEW rw2, NEW rw3, Retires(rw1, rw2), Retires(rw2, rw3)
  PROVE  Retires(rw1, rw3)
BY ActiveIsNotRetired DEF Retires, RetiresOrKeeps

LEMMA ReserveChanges ==
  ASSUME NEW rw0, NEW rw, NEW st, NEW s, Safe(rw, st), Retires(rw0, rw),
         ReserveAndAttach(rw, st, s)
  PROVE  RowChange(rw0, row')
<1> DEFINE rows == RowsAfterReclaim(rw)
           unused == {r \in Reservation : rows[r].state = "none"}
<1>1. Retires(rw0, rows) /\ Safe(rows, PointerAfterReclaim(st, rw))
  BY ReclaimRetires, ReclaimKeepsSafe, RetiresTransitive
<1>2. CASE BlockingRows(rows) # {} \/ unused = {}
  BY <1>1, <1>2 DEF ReserveAndAttach, RowChange
<1>3. CASE BlockingRows(rows) = {} /\ unused # {}
  <2>1. PICK r \in unused : row' = [rows EXCEPT ![r] = NewRow(s)]
    BY <1>3 DEF ReserveAndAttach
  <2>2. \A x \in Reservation \ {r} : row'[x] = rows[x] /\ ~Active(rows[x])
    BY <1>1, <1>3, <2>1 DEF Safe, BlockingRows, Active
  <2>3. rw0[r].state = "none"
    BY <1>1 DEF Retires, RetiresOrKeeps, Retired
  <2>4. row'[r].state = "reserved"
    BY <1>1, <2>1 DEF Safe, NewRow
  <2>5. TakenBy(rw0, row', r)
    BY <1>1, <2>2, <2>3, <2>4 DEF TakenBy, Retires
  <2>6. QED
    BY <2>5 DEF RowChange
<1>4. QED
  BY <1>2, <1>3

LEMMA EndSessionsRetires ==
  ASSUME NEW ss, NEW leases, NEW how, Safe(row, stream),
         leases \subseteq BlockingRows(row), EndSessions(ss, leases, how)
  PROVE  Retires(row, row')
BY FinishedIsRetired DEF Safe, EndSessions, BlockingRows, Retires, RetiresOrKeeps, Active

LEMMA KeepingRetires ==
  ASSUME row' = row
  PROVE  Retires(row, row')
BY DEF Retires, RetiresOrKeeps

LEMMA SetLapsedRedates ==
  ASSUME Safe(row, stream), NEW r \in Reservation, Active(row[r]), NEW b \in BOOLEAN,
         row' = [row EXCEPT ![r].lapsed = b]
  PROVE  RowChange(row, row')
<1>1. row'[r].state = row[r].state /\ OnlyChanges(row, row', r)
  BY DEF Safe, Row, OnlyChanges
<1>2. QED
  BY <1>1 DEF RowChange, Redates

LEMMA NextChangesRows ==
  ASSUME IInv, [Next]_vars
  PROVE  RowChange(row, row')
<1> USE DEF IInv
<1>1. ASSUME NEW s \in Session, SessionStep(s) PROVE RowChange(row, row')
  <2>1. CASE LoginVerifies(s) \/ LoginCreatesSession(s) \/ SessionExpires(s)
    BY <2>1, KeepingRetires DEF LoginVerifies, LoginCreatesSession, SessionExpires, dbVars,
                                RowChange
  <2>2. CASE TokenGranted(s)
    <3>1. Retires(row, row)
      BY DEF Retires, RetiresOrKeeps
    <3>2. QED
      BY <2>2, <3>1, ReserveChanges DEF TokenGranted
  <2>3. ASSUME NEW q \in Request, TokenReclaims(s, q) PROVE RowChange(row, row')
    BY <2>3, ReclaimRetires DEF TokenReclaims, RowChange
  <2>4. CASE Logout(s) \/ AdminRevokesSession(s)
    BY <2>4, EndSessionsRetires DEF Logout, AdminRevokesSession, LeasesOf, RowChange
  <2>5. QED
    BY <1>1, <2>1, <2>2, <2>3, <2>4 DEF SessionStep
<1>2. ASSUME NEW r \in Reservation, ReservationStep(r) PROVE RowChange(row, row')
  <2>1. ASSUME NEW q \in Request, StopRequest(r, q) PROVE RowChange(row, row')
    BY <2>1, KeepingRetires DEF StopRequest, dbVars, RowChange
  <2>2. CASE Heartbeat(r)
    BY <2>2, SetLapsedRedates, KeepingRetires DEF Heartbeat, Active, RowChange
  <2>3. ASSUME NEW signOut \in BOOLEAN, KickPublisher(r, signOut)
        PROVE  RowChange(row, row')
    <3> DEFINE out == IF signOut THEN StoredSessions \cap {row[r].session} ELSE {}
    <3>1. {r} \cup LeasesOf(out) \subseteq BlockingRows(row)
      BY <2>3 DEF KickPublisher, LeasesOf
    <3>2. EndSessions(out, {r} \cup LeasesOf(out), "revoked")
      BY <2>3 DEF KickPublisher
    <3>3. QED
      BY <3>1, <3>2, EndSessionsRetires DEF RowChange
  <2>4. CASE Join(r) \/ Abandon(r)
    BY <2>4, KeepingRetires DEF Join, Abandon, dbVars, RowChange
  <2>5. CASE Lapse(r)
    BY <2>5, SetLapsedRedates DEF Lapse, BlockingRows, Active
  <2>6. QED
    BY <1>2, <2>1, <2>2, <2>3, <2>4, <2>5 DEF ReservationStep
<1>3. ASSUME NEW q \in Request, RequestStep(q) PROVE RowChange(row, row')
  <2>1. CASE ReclaimResumes(q)
    BY <2>1, ClearKeepsSafe, ClearRetires, ReserveChanges DEF ReclaimResumes
  <2>2. CASE StopResumes(q)
    BY <2>2, ClearRetires DEF StopResumes, RowChange
  <2>3. QED
    BY <1>3, <2>1, <2>2 DEF RequestStep
<1>4. ASSUME NEW m \in hooks, WebhookStep(m) PROVE RowChange(row, row')
  <2>1. CASE ResolveParticipant(m)
    BY <2>1, KeepingRetires DEF ResolveParticipant, dbVars, RowChange
  <2>2. CASE HandleTrackPublished(m) /\ CanGoLive(row[m.meta])
    <3>1. m.meta \in Reservation
      BY <2>2 DEF HandleTrackPublished, RoomTyped, TrackHook, LeftHook
    <3>2. row[m.meta].state = "reserved"
      BY <2>2 DEF CanGoLive
    <3>3. row'[m.meta].state = "published" /\ OnlyChanges(row, row', m.meta)
      BY <2>2, <3>1 DEF HandleTrackPublished, Safe, Row, OnlyChanges
    <3>4. QED
      BY <3>1, <3>2, <3>3 DEF RowChange, PutsOnAir
  <2>3. CASE HandleTrackPublished(m) /\ ~CanGoLive(row[m.meta])
    BY <2>3, KeepingRetires DEF HandleTrackPublished, RowChange
  <2>4. CASE HandleDeparture(m)
    BY <2>4, ClearRetires DEF HandleDeparture, RowChange
  <2>5. QED
    BY <1>4, <2>1, <2>2, <2>3, <2>4 DEF WebhookStep
<1>5. CASE AdminStep
  <2>1. CASE AdminRevokesAllSessions \/ ReplaceCredential
    BY <2>1, EndSessionsRetires DEF AdminRevokesAllSessions, ReplaceCredential, RowChange
  <2>2. CASE ResetPassword
    BY <2>2, EndSessionsRetires DEF ResetPassword, RowChange
  <2>3. CASE DeleteProgram \/ RestoreProgram
    BY <2>3, KeepingRetires DEF DeleteProgram, RestoreProgram, RowChange
  <2>4. QED
    BY <1>5, <2>1, <2>2, <2>3 DEF AdminStep
<1>6. CASE RoomStep \/ Restart \/ UNCHANGED vars
  BY <1>6, KeepingRetires DEF RoomStep, LiveKitRemoves, PublishTrack, Leave, Restart, vars,
                              dbVars, RowChange
<1>7. QED
  BY <1>1, <1>2, <1>3, <1>4, <1>5, <1>6 DEF Next

-----------------------------------------------------------------------------
(* No step ever changes a reservation that was closed or has failed: late    *)
(* and repeated webhooks, retried stops and resumed handlers leave it alone. *)
THEOREM RetiredForGood == Spec => RetiredStaysRetired
<1>1. ASSUME NEW r \in Reservation, RowChange(row, row'),
             row[r].state \in {"closed", "failed"}
      PROVE  row'[r] = row[r]
  BY <1>1 DEF RowChange, Retires, RetiresOrKeeps, TakenBy, PutsOnAir, Redates, OnlyChanges,
              Active
<1>2. IInv /\ [Next]_vars =>
        \A r \in Reservation : row[r].state \in {"closed", "failed"} => row'[r] = row[r]
  BY <1>1, NextChangesRows
<1>3. QED
  BY <1>2, Inductive, PTL DEF Spec, RetiredStaysRetired

-----------------------------------------------------------------------------
(* The rows implement the slot. *)

LEMMA ChangeIsSlotStep ==
  ASSUME Safe(row, stream), Safe(row, stream)', RowChange(row, row')
  PROVE  [Slot!SlotNext]_(Slot!slotVars)
<1> DEFINE held == {r \in Reservation : row[r].state \in {"reserved", "published"}}
           onair == {r \in Reservation : row[r].state = "published"}
           gone == {r \in Reservation : row[r].state \in {"closed", "failed"}}
<1>1. /\ \A r1, r2 \in held : r1 = r2
      /\ onair \subseteq held
  BY DEF Safe, OneActive, Active
<1>2. CASE Retires(row, row')
  <2>1. CASE \E r \in Reservation : row'[r] # row[r]
    <3>1. PICK r \in Reservation : Active(row[r]) /\ Retired(row'[r])
      BY <1>2, <2>1 DEF Retires, RetiresOrKeeps
    <3>2. held = {r}
      BY <1>1, <3>1 DEF Active
    <3>3. \A x \in Reservation \ {r} : row'[x] = row[x]
      BY <1>2, <3>2 DEF Retires, RetiresOrKeeps, Active
    <3>4. held' = {} /\ onair' = {} /\ gone' = gone \cup held
      BY <3>1, <3>2, <3>3 DEF Active, Retired
    <3>5. Slot!Release
      BY <3>2, <3>4 DEF Slot!Release
    <3>6. QED
      BY <3>5 DEF Slot!SlotNext
  <2>2. CASE \A r \in Reservation : row'[r] = row[r]
    BY <2>2 DEF Slot!slotVars
  <2>3. QED
    BY <2>1, <2>2
<1>3. ASSUME NEW r \in Reservation, TakenBy(row, row', r)
      PROVE  [Slot!SlotNext]_(Slot!slotVars)
  <2>1. r \notin held \cup gone
    BY <1>3 DEF TakenBy
  <2>2. held' = {r} /\ onair' = {}
    BY <1>3 DEF TakenBy, Active
  <2>3. gone' = gone \cup held
    BY <1>3, <2>1 DEF TakenBy, RetiresOrKeeps, Active, Retired
  <2>4. Slot!Acquire(r)
    BY <2>1, <2>2, <2>3 DEF Slot!Acquire
  <2>5. QED
    BY <2>4 DEF Slot!SlotNext
<1>4. ASSUME NEW r \in Reservation, PutsOnAir(row, row', r)
      PROVE  [Slot!SlotNext]_(Slot!slotVars)
  <2>1. held = {r} /\ onair = {}
    BY <1>1, <1>4 DEF PutsOnAir
  <2>2. held' = {r} /\ onair' = {r} /\ gone' = gone
    BY <1>4, <2>1 DEF PutsOnAir, OnlyChanges
  <2>3. Slot!GoLive
    BY <2>1, <2>2 DEF Slot!GoLive
  <2>4. QED
    BY <2>3 DEF Slot!SlotNext
<1>5. ASSUME NEW r \in Reservation, Redates(row, row', r)
      PROVE  [Slot!SlotNext]_(Slot!slotVars)
  <2>1. \A x \in Reservation : row'[x].state = row[x].state
    BY <1>5 DEF Redates, OnlyChanges
  <2>2. QED
    BY <2>1 DEF Slot!slotVars
<1>6. QED
  BY <1>2, <1>3, <1>4, <1>5 DEF RowChange

(* The publisher lease implements the slot: every handler, whatever it       *)
(* interleaves with, acquires, confirms or releases the stream at most once. *)
THEOREM LeaseImplementsSlot == Spec => ImplementsSlot
<1>1. Init => Slot!SlotInit
  BY DEF Init, Slot!SlotInit
<1>2. IInv /\ IInv' /\ [Next]_vars => [Slot!SlotNext]_(Slot!slotVars)
  BY NextChangesRows, ChangeIsSlotStep DEF IInv
<1>3. QED
  BY <1>1, <1>2, Inductive, PTL DEF Spec, ImplementsSlot, Slot!SlotSpec

-----------------------------------------------------------------------------
(* A reservation on the air. The guards of the clears compare tracks, so a   *)
(* late stop of another reservation spares it only because no two rows ever  *)
(* have the same track. That holds as long as LiveKit repeats no webhook: a  *)
(* repeated track_published may be resolved to the reservation that has the  *)
(* identity by then, and give it the track of its predecessor.               *)

Publishes(m) == m.event = "track_published"

(* A track is with its owner's page, in one webhook or in one row.           *)
TracksOnce ==
  /\ \A r \in Reservation : row[r].track # None => owner[row[r].track] # None
  /\ \A m \in hooks : Publishes(m) => owner[m.track] # None
  /\ \A r \in Reservation, m \in hooks : Publishes(m) => row[r].track # m.track
  /\ \A r1, r2 \in Reservation :
       row[r1].track # None /\ row[r1].track = row[r2].track => r1 = r2
  /\ \A m1, m2 \in hooks :
       Publishes(m1) /\ Publishes(m2) /\ m1.track = m2.track => m1 = m2

(* Every handler that waits knows which reservation it is about.             *)
Named == \A q \in Request : request[q].op # "idle" => request[q].res \in Reservation

(* What almost every step does to the tracks: none that was not there.       *)
RowsLose(rw, rw2) == \A x \in Reservation : rw2[x].track \in {rw[x].track, None}

LEMMA LosingKeepsTracks ==
  ASSUME TracksOnce, owner' = owner, RowsLose(row, row'),
         \A m \in hooks' : Publishes(m) => m \in hooks,
         \A m \in hooks : Publishes(m) => m.track # None
  PROVE  TracksOnce'
BY DEF TracksOnce, RowsLose

LEMMA PublishedTrack ==
  ASSUME IInv, NEW m \in hooks, Publishes(m)
  PROVE  m.track \in Track /\ m.track # None /\ m.meta \in Reservation \cup {None}
BY NoneIsFresh DEF IInv, RoomTyped, Publishes, TrackHook, LeftHook

LEMMA ClearLoses ==
  ASSUME NEW rw \in [Reservation -> Row], NEW r
  PROVE  RowsLose(rw, RowsAfterClear(rw, r))
BY DEF RowsLose, RowsAfterClear, BlockingRows, Finished, Row

LEMMA ReclaimLoses ==
  ASSUME NEW rw \in [Reservation -> Row]
  PROVE  RowsLose(rw, RowsAfterReclaim(rw))
BY DEF RowsLose, RowsAfterReclaim, Finished, Row

LEMMA ReserveLoses ==
  ASSUME NEW rw0, NEW rw, NEW st, NEW s, Safe(rw, st), RowsLose(rw0, rw),
         ReserveAndAttach(rw, st, s)
  PROVE  RowsLose(rw0, row')
<1> DEFINE rows == RowsAfterReclaim(rw)
<1>1. RowsLose(rw, rows) /\ rows \in [Reservation -> Row]
  BY ReclaimLoses, ReclaimKeepsSafe DEF Safe
<1>2. RowsLose(rw0, rows)
  BY <1>1 DEF RowsLose
<1>3. row' = rows \/ \E r \in Reservation : row' = [rows EXCEPT ![r] = NewRow(s)]
  BY DEF ReserveAndAttach
<1>4. NewRow(s).track = None
  BY DEF NewRow
<1>5. QED
  BY <1>1, <1>2, <1>3, <1>4 DEF RowsLose

LEMMA EndSessionsLoses ==
  ASSUME NEW ss, NEW leases, NEW how, Safe(row, stream), EndSessions(ss, leases, how)
  PROVE  RowsLose(row, row')
BY DEF Safe, RowsLose, EndSessions, Finished, Row

LEMMA KeepingLoses ==
  ASSUME row' = row
  PROVE  RowsLose(row, row')
BY DEF RowsLose

LEMMA DepartureAnnounces ==
  ASSUME NEW hs \in Announced(Departure(speaker)), NEW m \in hs, Publishes(m)
  PROVE  m \in hooks
<1>1. \A d \in Departure(speaker) : ~Publishes(d)
  BY DEF Departure, Message, Publishes
<1>2. hs \subseteq hooks \cup Departure(speaker)
  BY DEF Announced
<1>3. QED
  BY <1>1, <1>2

(* The three steps that move a track: out of the room, to the participant    *)
(* that has the identity now, and into its row.                              *)
LEMMA PublishKeepsTracks ==
  ASSUME IInv, TracksOnce, PublishTrack
  PROVE  TracksOnce'
<1>1. PICK t \in Track : /\ owner[t] = None
                         /\ owner' = [owner EXCEPT ![t] = speaker]
                         /\ hooks' \in Announced({Message("track_published", t, None)})
  BY DEF PublishTrack
<1>2. speaker # None
  BY NoneIsFresh DEF PublishTrack, IInv, RoomTyped
<1>3. \A u \in Track : owner'[u] # None <=> u = t \/ owner[u] # None
  BY <1>1, <1>2 DEF IInv, RoomTyped
<1> DEFINE n == Message("track_published", t, None)
<1>4. n.track = t /\ hooks' \subseteq hooks \cup {n}
  BY <1>1 DEF Announced, Message
<1>5. row' = row /\ \A r \in Reservation : row[r].track \in Track \cup {None}
  BY DEF PublishTrack, dbVars, IInv, Safe, Row
<1>6. \A m \in hooks : Publishes(m) => m.track \in Track
  BY PublishedTrack
<1> HIDE DEF n
<1>7. /\ \A r \in Reservation : row[r].track # t
      /\ \A m \in hooks : Publishes(m) => m.track # t
  BY <1>1, <1>5, <1>6, NoneIsFresh DEF TracksOnce
<1>8. /\ \A r \in Reservation : row[r].track # None => owner'[row[r].track] # None
      /\ \A m \in hooks' : Publishes(m) => owner'[m.track] # None
  BY <1>3, <1>4, <1>5, <1>6 DEF TracksOnce
<1>9. QED
  BY <1>4, <1>5, <1>7, <1>8 DEF TracksOnce

LEMMA ResolveKeepsTracks ==
  ASSUME ~Redelivery, IInv, TracksOnce, NEW m \in hooks, ResolveParticipant(m)
  PROVE  TracksOnce'
<1> DEFINE n == Message(m.event, m.track, speaker)
<1>1. hooks' \subseteq (hooks \ {m}) \cup {n}
  BY DEF ResolveParticipant, Handled
<1>2. n.track = m.track /\ (Publishes(n) <=> Publishes(m))
  BY DEF Message, Publishes
<1>3. row' = row /\ owner' = owner
  BY DEF ResolveParticipant, dbVars
<1> HIDE DEF n
<1>4. QED
  BY <1>1, <1>2, <1>3 DEF TracksOnce

LEMMA GoLiveKeepsTracks ==
  ASSUME ~Redelivery, IInv, TracksOnce, NEW m \in hooks, HandleTrackPublished(m)
  PROVE  TracksOnce'
<1>1. hooks' = hooks \ {m} /\ owner' = owner /\ Publishes(m) /\ m.meta \in Reservation
  BY PublishedTrack DEF HandleTrackPublished, Handled, Publishes
<1>2. CASE CanGoLive(row[m.meta])
  <2>1. \A r \in Reservation : row'[r].track = IF r = m.meta THEN m.track ELSE row[r].track
    BY <1>1, <1>2 DEF HandleTrackPublished, IInv, Safe, Row
  <2>2. QED
    BY <1>1, <2>1 DEF TracksOnce
<1>3. CASE ~CanGoLive(row[m.meta])
  <2>1. row' = row
    BY <1>3 DEF HandleTrackPublished
  <2>2. QED
    BY <1>1, <2>1 DEF TracksOnce
<1>4. QED
  BY <1>2, <1>3

LEMMA NextKeepsTracks ==
  ASSUME ~Redelivery, IInv, TracksOnce, [Next]_vars
  PROVE  TracksOnce'
<1>1. Safe(row, stream) /\ row \in [Reservation -> Row]
  BY DEF IInv, Safe
<1>2. SUFFICES ASSUME ~\E m \in hooks : ResolveParticipant(m) \/ HandleTrackPublished(m),
                      ~PublishTrack
               PROVE  /\ owner' = owner /\ RowsLose(row, row')
                      /\ \A m \in hooks' : Publishes(m) => m \in hooks
  <2>1. \A m \in hooks : Publishes(m) => m.track # None
    BY PublishedTrack
  <2>2. QED
    BY <1>2, <2>1, LosingKeepsTracks, PublishKeepsTracks, ResolveKeepsTracks, GoLiveKeepsTracks
<1> DEFINE Loses == /\ owner' = owner /\ RowsLose(row, row')
                    /\ \A m \in hooks' : Publishes(m) => m \in hooks
<1>3. ASSUME NEW s \in Session, SessionStep(s) PROVE Loses
  <2>1. CASE LoginVerifies(s) \/ LoginCreatesSession(s) \/ SessionExpires(s)
    BY <2>1, KeepingLoses DEF LoginVerifies, LoginCreatesSession, SessionExpires, dbVars, roomVars
  <2>2. CASE TokenGranted(s)
    <3>1. RowsLose(row, row)
      BY DEF RowsLose
    <3>2. QED
      BY <1>1, <2>2, <3>1, ReserveLoses DEF TokenGranted
  <2>3. ASSUME NEW q \in Request, TokenReclaims(s, q) PROVE Loses
    BY <1>1, <2>3, ReclaimLoses DEF TokenReclaims, roomVars
  <2>4. CASE Logout(s) \/ AdminRevokesSession(s)
    BY <1>1, <2>4, EndSessionsLoses DEF Logout, AdminRevokesSession, roomVars
  <2>5. QED
    BY <1>3, <2>1, <2>2, <2>3, <2>4 DEF SessionStep
<1>4. ASSUME NEW r \in Reservation, ReservationStep(r) PROVE Loses
  <2>1. ASSUME NEW q \in Request, StopRequest(r, q) PROVE Loses
    BY <2>1, KeepingLoses DEF StopRequest, dbVars
  <2>2. CASE Heartbeat(r)
    BY <1>1, <2>2 DEF Heartbeat, RowsLose, Row
  <2>3. ASSUME NEW signOut \in BOOLEAN, KickPublisher(r, signOut) PROVE Loses
    BY <1>1, <2>3, EndSessionsLoses DEF KickPublisher, roomVars
  <2>4. CASE Join(r)
    BY <2>4, KeepingLoses, DepartureAnnounces DEF Join, dbVars
  <2>5. CASE Abandon(r)
    BY <2>5, KeepingLoses DEF Abandon, dbVars
  <2>6. CASE Lapse(r)
    BY <1>1, <2>6 DEF Lapse, RowsLose, Row, roomVars
  <2>7. QED
    BY <1>4, <2>1, <2>2, <2>3, <2>4, <2>5, <2>6 DEF ReservationStep
<1>5. ASSUME NEW q \in Request, RequestStep(q) PROVE Loses
  <2>1. CASE ReclaimResumes(q)
    BY <1>1, <2>1, ClearKeepsSafe, ClearLoses, ReserveLoses DEF ReclaimResumes
  <2>2. CASE StopResumes(q)
    BY <1>1, <2>2, ClearLoses DEF StopResumes, roomVars
  <2>3. QED
    BY <1>5, <2>1, <2>2 DEF RequestStep
<1>6. ASSUME NEW m \in hooks, WebhookStep(m) PROVE Loses
  BY <1>1, <1>2, <1>6, ClearLoses DEF WebhookStep, HandleDeparture, Handled
<1>7. CASE AdminStep
  <2>1. CASE AdminRevokesAllSessions \/ ReplaceCredential \/ ResetPassword
    BY <1>1, <2>1, EndSessionsLoses DEF AdminRevokesAllSessions, ReplaceCredential, ResetPassword, roomVars
  <2>2. CASE DeleteProgram \/ RestoreProgram
    BY <2>2, KeepingLoses DEF DeleteProgram, RestoreProgram, roomVars
  <2>3. QED
    BY <1>7, <2>1, <2>2 DEF AdminStep
<1>8. CASE RoomStep
  <2>1. CASE LiveKitRemoves
    BY <2>1, KeepingLoses, DepartureAnnounces DEF LiveKitRemoves, EvictSpeaker, dbVars, roomVars
  <2>2. CASE Leave
    BY <2>2, KeepingLoses, DepartureAnnounces DEF Leave, dbVars
  <2>3. QED
    BY <1>2, <1>8, <2>1, <2>2 DEF RoomStep
<1>9. CASE Restart \/ UNCHANGED vars
  BY <1>9, KeepingLoses DEF Restart, vars, dbVars, roomVars
<1>10. QED
  BY <1>3, <1>4, <1>5, <1>6, <1>7, <1>8, <1>9 DEF Next

(* The steps that change what handlers wait for.                             *)
LEMMA RequestChanges ==
  ASSUME [Next]_vars
  PROVE  \/ request' = request
         \/ \E s \in Session, q \in Request : TokenReclaims(s, q)
         \/ \E r \in Reservation, q \in Request : StopRequest(r, q)
         \/ \E q \in Request : RequestStep(q)
         \/ Restart
<1>1. ASSUME NEW s \in Session, SessionStep(s)
      PROVE  request' = request \/ \E q \in Request : TokenReclaims(s, q)
  BY <1>1 DEF SessionStep, LoginVerifies, LoginCreatesSession, SessionExpires, TokenGranted,
                Logout, AdminRevokesSession, handlerVars
<1>2. ASSUME NEW r \in Reservation, ReservationStep(r)
      PROVE  request' = request \/ \E q \in Request : StopRequest(r, q)
  BY <1>2 DEF ReservationStep, Heartbeat, KickPublisher, Join, Abandon, Lapse, handlerVars
<1>3. ASSUME NEW m \in hooks, WebhookStep(m) PROVE request' = request
  BY <1>3 DEF WebhookStep, ResolveParticipant, HandleTrackPublished, HandleDeparture, handlerVars
<1>4. AdminStep \/ RoomStep \/ UNCHANGED vars => request' = request
  BY DEF AdminStep, AdminRevokesAllSessions, ReplaceCredential, ResetPassword, DeleteProgram,
           RestoreProgram, RoomStep, LiveKitRemoves, PublishTrack, Leave, vars, handlerVars
<1>5. QED
  BY <1>1, <1>2, <1>3, <1>4 DEF Next

LEMMA NextKeepsNamed ==
  ASSUME IInv, Named, [Next]_vars
  PROVE  Named'
<1>1. request \in [Request -> Task]
  BY DEF IInv, HandlerTyped
<1>2. CASE request' = request
  BY <1>2 DEF Named
<1>3. ASSUME NEW s \in Session, NEW q \in Request, TokenReclaims(s, q) PROVE Named'
  BY <1>1, <1>3 DEF TokenReclaims, Named, Waiting, BlockingRows
<1>4. ASSUME NEW r \in Reservation, NEW q \in Request, StopRequest(r, q) PROVE Named'
  BY <1>1, <1>4 DEF StopRequest, Named, Waiting
<1>5. ASSUME NEW q \in Request, RequestStep(q) PROVE Named'
  BY <1>1, <1>5 DEF RequestStep, ReclaimResumes, StopResumes, Named, Idle
<1>6. CASE Restart
  BY <1>6 DEF Restart, Named, Idle
<1>7. QED
  BY <1>2, <1>3, <1>4, <1>5, <1>6, RequestChanges

(* A reservation on the air is the only unfinished one, and neither a clear  *)
(* of another one nor a reclaim touches it.                                  *)
Airs(rw, st, r) ==
  /\ rw[r].state = "published" /\ ~rw[r].lapsed
  /\ st.isLive /\ st.track = rw[r].track

LEMMA ClearSpares ==
  ASSUME Safe(row, stream), TracksOnce, NEW r \in Reservation, Airs(row, stream, r),
         NEW x \in Reservation, x # r
  PROVE  RowsAfterClear(row, x) = row /\ PointerAfterClear(stream, row, x) = stream
<1>1. ~Active(row[x])
  BY DEF Safe, OneActive, Active, Airs
<1>2. stream.track # None
  BY DEF Safe, Backed, Airs
<1>3. row[x].track # stream.track
  BY <1>2 DEF TracksOnce, Airs
<1>4. QED
  BY <1>1, <1>3 DEF RowsAfterClear, BlockingRows, Active, PointerAfterClear

LEMMA ReclaimSpares ==
  ASSUME NEW rw, NEW st, Safe(rw, st), NEW r \in Reservation, Airs(rw, st, r)
  PROVE  /\ RowsAfterReclaim(rw)[r] = rw[r] /\ PointerAfterReclaim(st, rw) = st
         /\ r \in BlockingRows(RowsAfterReclaim(rw))
<1>1. \A x \in BlockingRows(rw) : x = r
  BY DEF Safe, OneActive, Active, BlockingRows, Airs
<1>2. RowsAfterReclaim(rw)[r] = rw[r]
  BY DEF RowsAfterReclaim, Airs
<1>3. QED
  BY <1>1, <1>2 DEF PointerAfterReclaim, BlockingRows, Airs

LEMMA ReserveSpares ==
  ASSUME NEW rw, NEW st, NEW s, Safe(rw, st), NEW r \in Reservation, Airs(rw, st, r),
         ReserveAndAttach(rw, st, s)
  PROVE  Airs(row, stream, r)'
<1>1. row' = RowsAfterReclaim(rw) /\ stream' = PointerAfterReclaim(st, rw)
  BY ReclaimSpares DEF ReserveAndAttach
<1>2. QED
  BY <1>1, ReclaimSpares DEF Airs

LEMMA EndSessionsSpares ==
  ASSUME NEW ss, NEW leases, NEW how, Safe(row, stream), NEW r \in Reservation,
         Active(row[r]), leases \subseteq BlockingRows(row), EndSessions(ss, leases, how)
  PROVE  \/ r \in leases /\ Retired(row'[r])
         \/ leases = {} /\ row'[r] = row[r] /\ stream' = stream
<1>1. \A x \in BlockingRows(row) : x = r
  BY DEF Safe, OneActive, Active, BlockingRows
<1>2. CASE r \in leases
  BY <1>2, FinishedIsRetired DEF EndSessions, Safe
<1>3. CASE r \notin leases
  <2>1. leases = {}
    BY <1>1, <1>3
  <2>2. QED
    BY <2>1 DEF EndSessions
<1>4. QED
  BY <1>2, <1>3

(* Clearing the pointer of the reservation itself closes its row.            *)
LEMMA ClearCloses ==
  ASSUME Safe(row, stream), NEW r \in Reservation, Airs(row, stream, r)
  PROVE  RowsAfterClear(row, r)[r].state = "closed"
<1>1. r \in BlockingRows(row) /\ row[r] \in Row
  BY DEF Airs, BlockingRows, Safe
<1>2. QED
  BY <1>1 DEF RowsAfterClear, Safe, Finished, Row

LEMMA NextSparesOnAir ==
  ASSUME IInv, TracksOnce, Named, [Next]_vars, NEW r \in Reservation, Airs(row, stream, r)
  PROVE  \/ Airs(row, stream, r)'
         \/ row'[r].state # "published" \/ row'[r].lapsed \/ deleted'
<1> DEFINE Spared == \/ Airs(row, stream, r)'
                     \/ row'[r].state # "published" \/ row'[r].lapsed \/ deleted'
<1>1. Safe(row, stream) /\ row \in [Reservation -> Row] /\ Active(row[r])
  BY DEF IInv, Safe, Airs, Active
<1>2. row'[r] = row[r] /\ stream' = stream => Spared
  BY DEF Airs
<1>3. ASSUME NEW s \in Session, SessionStep(s) PROVE Spared
  <2>1. CASE LoginVerifies(s) \/ LoginCreatesSession(s) \/ SessionExpires(s)
    BY <1>2, <2>1 DEF LoginVerifies, LoginCreatesSession, SessionExpires, dbVars
  <2>2. CASE TokenGranted(s)
    BY <1>1, <2>2, ReserveSpares DEF TokenGranted
  <2>3. ASSUME NEW q \in Request, TokenReclaims(s, q) PROVE Spared
    BY <1>1, <1>2, <2>3, ReclaimSpares DEF TokenReclaims
  <2>4. CASE Logout(s) \/ AdminRevokesSession(s)
    <3>1. LeasesOf({s}) \subseteq BlockingRows(row)
      BY DEF LeasesOf
    <3>2. EndSessions({s}, LeasesOf({s}), "revoked")
      BY <2>4 DEF Logout, AdminRevokesSession
    <3>3. QED
      BY <1>1, <1>2, <3>1, <3>2, EndSessionsSpares DEF Retired
  <2>5. QED
    BY <1>3, <2>1, <2>2, <2>3, <2>4 DEF SessionStep
<1>4. ASSUME NEW x \in Reservation, ReservationStep(x) PROVE Spared
  <2>1. CASE (\E q \in Request : StopRequest(x, q)) \/ Join(x) \/ Abandon(x)
    BY <1>2, <2>1 DEF StopRequest, Join, Abandon, dbVars
  <2>2. CASE Heartbeat(x) \/ Lapse(x)
    <3>1. stream' = stream /\ row'[r].track = row[r].track /\ row'[r].state = row[r].state
      BY <1>1, <2>2 DEF Heartbeat, Lapse, Row
    <3>2. QED
      BY <3>1 DEF Airs
  <2>3. ASSUME NEW signOut \in BOOLEAN, KickPublisher(x, signOut) PROVE Spared
    <3> DEFINE out == IF signOut THEN StoredSessions \cap {row[x].session} ELSE {}
    <3>1. {x} \cup LeasesOf(out) \subseteq BlockingRows(row)
      BY <2>3 DEF KickPublisher, LeasesOf
    <3>2. EndSessions(out, {x} \cup LeasesOf(out), "revoked")
      BY <2>3 DEF KickPublisher
    <3>3. QED
      BY <1>1, <1>2, <3>1, <3>2, EndSessionsSpares DEF Retired
  <2>4. QED
    BY <1>4, <2>1, <2>2, <2>3 DEF ReservationStep
<1>5. ASSUME NEW x \in Reservation, row' = RowsAfterClear(row, x),
             stream' = PointerAfterClear(stream, row, x)
      PROVE  Spared
  <2>1. CASE x = r
    BY <1>1, <1>5, <2>1, ClearCloses
  <2>2. CASE x # r
    BY <1>1, <1>2, <1>5, <2>2, ClearSpares
  <2>3. QED
    BY <2>1, <2>2
<1>6. ASSUME NEW q \in Request, RequestStep(q) PROVE Spared
  <2>1. request[q].res \in Reservation
    BY <1>6 DEF RequestStep, ReclaimResumes, StopResumes, Named
  <2>2. CASE StopResumes(q)
    BY <1>5, <2>1, <2>2 DEF StopResumes
  <2>3. CASE ReclaimResumes(q)
    <3> DEFINE x == request[q].res
               rw == RowsAfterClear(row, x)
               st == PointerAfterClear(stream, row, x)
    <3>1. ReserveAndAttach(rw, st, request[q].session) /\ Safe(rw, st)
      BY <1>1, <2>3, ClearKeepsSafe DEF ReclaimResumes
    <3>2. CASE x = r
      <4>1. Retires(rw, rw)
        BY DEF Retires, RetiresOrKeeps
      <4>2. RowChange(rw, row')
        BY <3>1, <4>1, ReserveChanges
      <4>3. rw[r].state = "closed"
        BY <1>1, <3>2, ClearCloses
      <4>4. row'[r].state # "published"
        BY <4>2, <4>3 DEF RowChange, Retires, RetiresOrKeeps, TakenBy, PutsOnAir, Redates,
                          OnlyChanges, Active
      <4>5. QED
        BY <4>4
    <3>3. CASE x # r
      <4>1. rw = row /\ st = stream
        BY <1>1, <2>1, <3>3, ClearSpares
      <4>2. QED
        BY <1>1, <3>1, <4>1, ReserveSpares
    <3>4. QED
      BY <3>2, <3>3
  <2>4. QED
    BY <1>6, <2>2, <2>3 DEF RequestStep
<1>7. ASSUME NEW m \in hooks, WebhookStep(m) PROVE Spared
  <2>1. m.meta \in Reservation \cup {None}
    BY DEF IInv, RoomTyped, TrackHook, LeftHook
  <2>2. CASE ResolveParticipant(m)
    BY <1>2, <2>2 DEF ResolveParticipant, dbVars
  <2>3. CASE HandleTrackPublished(m)
    <3>1. ~CanGoLive(row[m.meta])
      BY <1>1, <2>1, <2>3 DEF HandleTrackPublished, CanGoLive, Safe, OneActive, Active, Airs
    <3>2. QED
      BY <1>2, <2>3, <3>1 DEF HandleTrackPublished
  <2>4. CASE HandleDeparture(m)
    BY <1>5, <2>1, <2>4 DEF HandleDeparture
  <2>5. QED
    BY <1>7, <2>2, <2>3, <2>4 DEF WebhookStep
<1>8. CASE AdminStep
  <2>1. CASE AdminRevokesAllSessions \/ ReplaceCredential
    BY <1>1, <1>2, <2>1, EndSessionsSpares DEF AdminRevokesAllSessions, ReplaceCredential, Retired
  <2>2. CASE ResetPassword
    BY <1>1, <1>2, <2>2, EndSessionsSpares DEF ResetPassword
  <2>3. CASE DeleteProgram \/ RestoreProgram
    BY <1>2, <2>3 DEF DeleteProgram, RestoreProgram
  <2>4. QED
    BY <1>8, <2>1, <2>2, <2>3 DEF AdminStep
<1>9. CASE RoomStep \/ Restart \/ UNCHANGED vars
  BY <1>2, <1>9 DEF RoomStep, LiveKitRemoves, PublishTrack, Leave, Restart, vars, dbVars
<1>10. QED
  BY <1>3, <1>4, <1>6, <1>7, <1>8, <1>9 DEF Next

(* As long as LiveKit repeats no webhook, a reservation that is on the air   *)
(* goes off only by its own close or expiry or with its program, whatever    *)
(* stop, departure, reclaim or revocation of another one comes late.         *)
THEOREM OnAirIsStable == ASSUME ~Redelivery PROVE Spec => OnAirStable
<1>1. Init => TracksOnce /\ Named
  BY DEF Init, TracksOnce, Named, Idle, Publishes
<1>2. IInv /\ TracksOnce /\ Named /\ [Next]_vars => TracksOnce' /\ Named'
  BY NextKeepsTracks, NextKeepsNamed
<1>3. IInv /\ TracksOnce /\ Named /\ [Next]_vars =>
        \A r \in Reservation :
          OnAir(r) /\ ~OnAir(r)' =>
            \/ row'[r].state # "published"
            \/ row'[r].lapsed
            \/ deleted'
  BY NextSparesOnAir DEF OnAir, Airs
<1>4. QED
  BY <1>1, <1>2, <1>3, Inductive, PTL DEF Spec, OnAirStable

-----------------------------------------------------------------------------
(* Signing a session out leaves alone the stream that another session holds. *)

(* A step that signs a session out, seen from a lease whose session stays.   *)
SignedOutBeside(r) ==
  /\ row[r].state \in {"reserved", "published"}
  /\ session[row[r].session] = "active"
  /\ session'[row[r].session] = "active"
  /\ \E s \in Session : session[s] = "active" /\ session'[s] = "revoked"

LEMMA EndingSpares ==
  ASSUME IInv, NEW r \in Reservation, SignedOutBeside(r), NEW ss, NEW leases,
         EndSessions(ss, leases, "revoked"), leases \subseteq BlockingRows(row),
         r \in leases => row[r].session \in ss \cap Session
  PROVE  row'[r] = row[r] /\ stream' = stream
<1>1. Safe(row, stream) /\ Active(row[r])
  BY DEF IInv, SignedOutBeside, Active
<1>2. r \notin leases
  BY DEF EndSessions, SignedOutBeside
<1>3. QED
  BY <1>1, <1>2, EndSessionsSpares

(* An unfinished reservation, made or about to be made, has a session.       *)
RowsHeld(rw) == \A x \in Reservation : Active(rw[x]) => rw[x].session \in Session

ReclaimsHeld == \A q \in Request : request[q].op = "reclaim" => request[q].session \in Session

LEMMA ClearHolds ==
  ASSUME NEW rw \in [Reservation -> Row], RowsHeld(rw), NEW r
  PROVE  RowsHeld(RowsAfterClear(rw, r))
BY FinishedIsRow DEF RowsHeld, RowsAfterClear, BlockingRows

LEMMA ReclaimHolds ==
  ASSUME NEW rw \in [Reservation -> Row], RowsHeld(rw)
  PROVE  RowsHeld(RowsAfterReclaim(rw))
BY FinishedIsRow DEF RowsHeld, RowsAfterReclaim

LEMMA EndSessionsHolds ==
  ASSUME NEW ss, NEW leases, NEW how, Safe(row, stream), RowsHeld(row),
         EndSessions(ss, leases, how)
  PROVE  RowsHeld(row')
BY FinishedIsRow DEF Safe, RowsHeld, EndSessions

LEMMA ReserveHolds ==
  ASSUME NEW rw, NEW st, NEW s \in Session, Safe(rw, st), RowsHeld(rw), ReserveAndAttach(rw, st, s)
  PROVE  RowsHeld(row')
<1> DEFINE rows == RowsAfterReclaim(rw)
<1>1. RowsHeld(rows) /\ rows \in [Reservation -> Row]
  BY ReclaimHolds, ReclaimKeepsSafe DEF Safe
<1>2. row' = rows \/ \E r \in Reservation : row' = [rows EXCEPT ![r] = NewRow(s)]
  BY DEF ReserveAndAttach
<1>3. NewRow(s).session = s
  BY DEF NewRow
<1>4. QED
  BY <1>1, <1>2, <1>3 DEF RowsHeld

LEMMA RedatedHolds ==
  ASSUME Safe(row, stream), RowsHeld(row), NEW r \in Reservation, NEW b,
         row' = [row EXCEPT ![r].lapsed = b]
  PROVE  RowsHeld(row')
BY DEF Safe, Row, RowsHeld, Active

LEMMA NextKeepsHeld ==
  ASSUME IInv, RowsHeld(row), ReclaimsHeld, [Next]_vars
  PROVE  RowsHeld(row')
<1>1. Safe(row, stream) /\ row \in [Reservation -> Row]
  BY DEF IInv, Safe
<1>2. row' = row => RowsHeld(row')
  BY DEF RowsHeld
<1>3. ASSUME NEW s \in Session, SessionStep(s) PROVE RowsHeld(row')
  <2>1. CASE LoginVerifies(s) \/ LoginCreatesSession(s) \/ SessionExpires(s)
    BY <1>2, <2>1 DEF LoginVerifies, LoginCreatesSession, SessionExpires, dbVars
  <2>2. CASE TokenGranted(s)
    BY <1>1, <2>2, ReserveHolds DEF TokenGranted
  <2>3. ASSUME NEW q \in Request, TokenReclaims(s, q) PROVE RowsHeld(row')
    BY <1>1, <2>3, ReclaimHolds DEF TokenReclaims
  <2>4. CASE Logout(s) \/ AdminRevokesSession(s)
    BY <1>1, <2>4, EndSessionsHolds DEF Logout, AdminRevokesSession
  <2>5. QED
    BY <1>3, <2>1, <2>2, <2>3, <2>4 DEF SessionStep
<1>4. ASSUME NEW r \in Reservation, ReservationStep(r) PROVE RowsHeld(row')
  <2>1. CASE (\E q \in Request : StopRequest(r, q)) \/ Join(r) \/ Abandon(r)
    BY <1>2, <2>1 DEF StopRequest, Join, Abandon, dbVars
  <2>2. CASE Heartbeat(r) \/ Lapse(r)
    BY <1>1, <1>2, <2>2, RedatedHolds DEF Heartbeat, Lapse
  <2>3. ASSUME NEW signOut \in BOOLEAN, KickPublisher(r, signOut) PROVE RowsHeld(row')
    BY <1>1, <2>3, EndSessionsHolds DEF KickPublisher
  <2>4. QED
    BY <1>4, <2>1, <2>2, <2>3 DEF ReservationStep
<1>5. ASSUME NEW q \in Request, RequestStep(q) PROVE RowsHeld(row')
  <2>1. CASE ReclaimResumes(q)
    <3>1. request[q].session \in Session
      BY <2>1 DEF ReclaimResumes, ReclaimsHeld
    <3>2. QED
      BY <1>1, <2>1, <3>1, ClearKeepsSafe, ClearHolds, ReserveHolds DEF ReclaimResumes
  <2>2. CASE StopResumes(q)
    BY <1>1, <2>2, ClearHolds DEF StopResumes
  <2>3. QED
    BY <1>5, <2>1, <2>2 DEF RequestStep
<1>6. ASSUME NEW m \in hooks, WebhookStep(m) PROVE RowsHeld(row')
  <2>1. CASE ResolveParticipant(m)
    BY <1>2, <2>1 DEF ResolveParticipant, dbVars
  <2>2. CASE HandleTrackPublished(m) /\ CanGoLive(row[m.meta])
    <3>1. m.meta \in Reservation /\ Active(row[m.meta])
      BY <2>2 DEF HandleTrackPublished, CanGoLive, Active, IInv, RoomTyped, TrackHook, LeftHook
    <3>2. \A x \in Reservation :
            row'[x].session = row[x].session /\ (x # m.meta => row'[x] = row[x])
      BY <1>1, <2>2, <3>1 DEF HandleTrackPublished, Row
    <3>3. QED
      BY <3>1, <3>2 DEF RowsHeld
  <2>3. CASE HandleTrackPublished(m) /\ ~CanGoLive(row[m.meta])
    BY <1>2, <2>3 DEF HandleTrackPublished
  <2>4. CASE HandleDeparture(m)
    BY <1>1, <2>4, ClearHolds DEF HandleDeparture
  <2>5. QED
    BY <1>6, <2>1, <2>2, <2>3, <2>4 DEF WebhookStep
<1>7. CASE AdminStep
  <2>1. CASE AdminRevokesAllSessions \/ ReplaceCredential \/ ResetPassword
    BY <1>1, <2>1, EndSessionsHolds DEF AdminRevokesAllSessions, ReplaceCredential, ResetPassword
  <2>2. CASE DeleteProgram \/ RestoreProgram
    BY <1>2, <2>2 DEF DeleteProgram, RestoreProgram
  <2>3. QED
    BY <1>7, <2>1, <2>2 DEF AdminStep
<1>8. CASE RoomStep \/ Restart \/ UNCHANGED vars
  BY <1>2, <1>8 DEF RoomStep, LiveKitRemoves, PublishTrack, Leave, Restart, vars, dbVars
<1>9. QED
  BY <1>3, <1>4, <1>5, <1>6, <1>7, <1>8 DEF Next

LEMMA NextKeepsReclaims ==
  ASSUME IInv, ReclaimsHeld, [Next]_vars
  PROVE  ReclaimsHeld'
<1>1. request \in [Request -> Task]
  BY DEF IInv, HandlerTyped
<1>2. CASE request' = request
  BY <1>2 DEF ReclaimsHeld
<1>3. ASSUME NEW s \in Session, NEW q \in Request, TokenReclaims(s, q) PROVE ReclaimsHeld'
  BY <1>1, <1>3 DEF TokenReclaims, ReclaimsHeld, Waiting
<1>4. ASSUME NEW r \in Reservation, NEW q \in Request, StopRequest(r, q) PROVE ReclaimsHeld'
  BY <1>1, <1>4 DEF StopRequest, ReclaimsHeld, Waiting
<1>5. ASSUME NEW q \in Request, RequestStep(q) PROVE ReclaimsHeld'
  BY <1>1, <1>5 DEF RequestStep, ReclaimResumes, StopResumes, ReclaimsHeld, Idle
<1>6. CASE Restart
  BY <1>6 DEF Restart, ReclaimsHeld, Idle
<1>7. QED
  BY <1>2, <1>3, <1>4, <1>5, <1>6, RequestChanges

LEMMA NextSparesOthers ==
  ASSUME IInv, RowsHeld(row), [Next]_vars, NEW r \in Reservation, SignedOutBeside(r)
  PROVE  row'[r] = row[r] /\ stream' = stream
<1> DEFINE Spared == row'[r] = row[r] /\ stream' = stream
<1>1. /\ Safe(row, stream) /\ Active(row[r]) /\ r \in BlockingRows(row)
      /\ row[r].session \in Session /\ row[r].session \in StoredSessions
  BY DEF IInv, SignedOutBeside, Active, BlockingRows, RowsHeld, StoredSessions
<1>2. PICK out \in Session : session[out] = "active" /\ session'[out] = "revoked"
  BY DEF SignedOutBeside
<1>3. session \in [Session -> SessionState] /\ session' # session
  BY <1>2 DEF IInv, LoginTyped
<1>4. ASSUME NEW s \in Session, SessionStep(s) PROVE Spared
  <2>1. CASE LoginVerifies(s) \/ LoginCreatesSession(s) \/ SessionExpires(s)
    BY <1>2, <1>3, <2>1 DEF LoginVerifies, LoginCreatesSession, SessionExpires
  <2>2. CASE TokenGranted(s) \/ \E q \in Request : TokenReclaims(s, q)
    BY <1>3, <2>2 DEF TokenGranted, TokenReclaims, loginVars
  <2>3. CASE Logout(s) \/ AdminRevokesSession(s)
    <3>1. EndSessions({s}, LeasesOf({s}), "revoked")
      BY <2>3 DEF Logout, AdminRevokesSession
    <3>2. LeasesOf({s}) \subseteq BlockingRows(row)
      BY DEF LeasesOf
    <3>3. r \in LeasesOf({s}) => row[r].session \in {s} \cap Session
      BY <1>1 DEF LeasesOf
    <3>4. QED
      BY <3>1, <3>2, <3>3, EndingSpares
  <2>4. QED
    BY <1>4, <2>1, <2>2, <2>3 DEF SessionStep
<1>5. ASSUME NEW x \in Reservation, ReservationStep(x) PROVE Spared
  <2>1. CASE (\E q \in Request : StopRequest(x, q)) \/ Heartbeat(x) \/ Join(x) \/ Abandon(x) \/ Lapse(x)
    BY <1>3, <2>1 DEF StopRequest, Heartbeat, Join, Abandon, Lapse, loginVars
  <2>2. ASSUME NEW signOut \in BOOLEAN, KickPublisher(x, signOut) PROVE Spared
    <3> DEFINE gone == IF signOut THEN StoredSessions \cap {row[x].session} ELSE {}
    <3>1. /\ EndSessions(gone, {x} \cup LeasesOf(gone), "revoked")
          /\ {x} \cup LeasesOf(gone) \subseteq BlockingRows(row)
      BY <2>2 DEF KickPublisher, LeasesOf
    <3>2. x = r
      BY <1>1, <3>1 DEF Safe, OneActive, Active, BlockingRows
    <3>3. out \in gone
      BY <1>2, <3>1 DEF EndSessions
    <3>4. row[r].session \in gone \cap Session
      BY <1>1, <3>2, <3>3
    <3>5. QED
      BY <3>1, <3>4, EndingSpares
  <2>3. QED
    BY <1>5, <2>1, <2>2 DEF ReservationStep
<1>6. ASSUME NEW q \in Request, RequestStep(q) PROVE Spared
  BY <1>3, <1>6 DEF RequestStep, ReclaimResumes, StopResumes, loginVars
<1>7. ASSUME NEW m \in hooks, WebhookStep(m) PROVE Spared
  BY <1>3, <1>7 DEF WebhookStep, ResolveParticipant, HandleTrackPublished, HandleDeparture, loginVars
<1>8. CASE AdminStep
  <2>1. CASE AdminRevokesAllSessions \/ ReplaceCredential
    <3>1. EndSessions(StoredSessions, BlockingRows(row), "revoked")
      BY <2>1 DEF AdminRevokesAllSessions, ReplaceCredential
    <3>2. QED
      BY <1>1, <3>1, EndingSpares
  <2>2. CASE ResetPassword
    BY <1>2, <2>2 DEF ResetPassword, EndSessions
  <2>3. CASE DeleteProgram \/ RestoreProgram
    BY <1>3, <2>3 DEF DeleteProgram, RestoreProgram, loginVars
  <2>4. QED
    BY <1>8, <2>1, <2>2, <2>3 DEF AdminStep
<1>9. CASE Restart
  BY <1>2, <1>9 DEF Restart
<1>10. CASE RoomStep \/ UNCHANGED vars
  BY <1>3, <1>10 DEF RoomStep, LiveKitRemoves, PublishTrack, Leave, vars, loginVars
<1>11. QED
  BY <1>4, <1>5, <1>6, <1>7, <1>8, <1>9, <1>10 DEF Next

(* No step that signs a session out touches the stream while another session *)
(* that stays signed in holds it, for any number of sessions and leases.     *)
THEOREM OthersAreSpared == Spec => SignOutSparesOthers
<1>1. Init => RowsHeld(row) /\ ReclaimsHeld
  BY DEF Init, RowsHeld, ReclaimsHeld, Active, Idle
<1>2. IInv /\ RowsHeld(row) /\ ReclaimsHeld /\ [Next]_vars => RowsHeld(row)' /\ ReclaimsHeld'
  BY NextKeepsHeld, NextKeepsReclaims DEF RowsHeld
<1>3. IInv /\ RowsHeld(row) /\ [Next]_vars =>
        \A r \in Reservation :
          /\ row[r].state \in {"reserved", "published"}
          /\ session[row[r].session] = "active"
          /\ session'[row[r].session] = "active"
          /\ \E s \in Session : session[s] = "active" /\ session'[s] = "revoked"
          => row'[r] = row[r] /\ stream' = stream
  BY NextSparesOthers DEF SignedOutBeside
<1>4. QED
  BY <1>1, <1>2, <1>3, Inductive, PTL DEF Spec, SignOutSparesOthers
=============================================================================
