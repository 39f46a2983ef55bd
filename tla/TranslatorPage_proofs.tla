-------------------------- MODULE TranslatorPage_proofs --------------------------
(***************************************************************************)
(* Proofs about TranslatorPage, for any number of handlers under way, of   *)
(* reservations, attempts and events.                                      *)
(*                                                                         *)
(* What the screen shows is not inductive by itself. That a broadcast is   *)
(* never shown through a room that was left needs that a reservation the   *)
(* page was given has no room yet, while every broadcast that a handler is *)
(* about to replace has one; that a lost room is recovered needs that a    *)
(* broadcast on the air has used up none of its attempts.                  *)
(***************************************************************************)
EXTENDS TranslatorPage, FiniteSetTheorems, WellFoundedInduction, TLAPS

-----------------------------------------------------------------------------
(* Types *)

Status   == {"ready", "connecting", "live", "reconnecting", "stopped", "error"}
MaybeRes == 0 .. MaxReservation

PageRow ==
    [auth : {"checking", "closed", "out", "in"}, status : Status, res : MaybeRes, live : MaybeRes,
     muted : BOOLEAN, stale : BOOLEAN, exhausted : BOOLEAN, ended : BOOLEAN, canSwitch : BOOLEAN,
     latch : BOOLEAN, timer : BOOLEAN, attempts : 0 .. MaxAttempts]

TaskRow ==
    [op : {"idle", "golive", "reconnect", "stop", "end", "signout", "swap"},
     at : {"none", "mic", "stop", "token", "undo", "silence", "freed"} \cup Status,
     old : MaybeRes, new : MaybeRes, ans : {"none", "ok", "auth", "busy", "error"},
     reclaim : BOOLEAN, auto : BOOLEAN, out : BOOLEAN, same : BOOLEAN]

BeatRow == [res : MaybeRes, ans : {"none", "ok", "inactive", "auth", "error"}, catchUp : BOOLEAN]
MicRow  == [held : BOOLEAN, graph : BOOLEAN, fed : BOOLEAN, leaked : BOOLEAN]

ServerTyped ==
    /\ session \in BOOLEAN /\ other \in BOOLEAN
    /\ row \in [Reservation -> {"none", "reserved", "published", "closed"}]
    /\ room \in [Reservation -> {"none", "up", "shaky", "down", "left"}]
    /\ events \in 0 .. MaxEvents

-----------------------------------------------------------------------------
(* The inductive invariant *)

PageTyped(p) == p \in PageRow /\ (p.timer => p.attempts < MaxAttempts)

(* A broadcast on the air has used up no attempt, and a timer has one left. *)
PageOK(p) ==
    /\ PageTyped(p)
    /\ p.status = "live" => /\ p.live = p.res /\ p.res # 0
                            /\ ~p.exhausted /\ p.attempts = 0
    /\ p.status # "live" => p.res = 0

Asking(t)   == t.op \in {"golive", "reconnect"}
HasToken(t) == t.at = "token" /\ t.ans = "ok"

(* A handler's phases; what it replaces has been joined, what it was given  *)
(* has not.                                                                 *)
TaskOK(t) ==
    /\ t.at \in {"token", "undo"} => Asking(t)
    /\ t.at = "silence" => t.op \in {"stop", "end"}
    /\ t.old # 0 => room[t.old] # "none"
    /\ HasToken(t) => t.new \in Reservation /\ row[t.new] # "none" /\ room[t.new] = "none"

TasksOK ==
    /\ task \in [Slot -> TaskRow]
    /\ \A s \in Slot : TaskOK(task[s])
    /\ \A s1, s2 \in Slot :
         HasToken(task[s1]) /\ HasToken(task[s2]) /\ task[s1].new = task[s2].new => s1 = s2

(* A room is one of a reservation, and so is the heartbeat's broadcast.     *)
RoomsOK ==
    /\ \A r \in Reservation : room[r] # "none" => row[r] # "none"
    /\ beat \in BeatRow
    /\ beat.res # 0 => room[beat.res] # "none"

Reconnects(s) == task[s].op = "reconnect"

Latched ==
    /\ page.latch => \E s \in Slot : Reconnects(s)
    /\ \A s \in Slot : Reconnects(s) => page.latch
    /\ \A s1, s2 \in Slot : Reconnects(s1) /\ Reconnects(s2) => s1 = s2

(* The broadcast that a reconnect is about to leave is not the one shown.   *)
LeavesOther ==
    \A s \in Slot : task[s].at = "mic" /\ task[s].old # 0 =>
        ~(page.status = "live" /\ page.res = task[s].old)

AirOK == LiveIsJoined /\ LostIsNoticed /\ LeavesOther

IInv ==
    /\ ServerTyped /\ mic \in MicRow /\ PageOK(page)
    /\ TasksOK /\ RoomsOK
    /\ Latched /\ BusyHasHandler /\ AirOK

LEMMA Constants ==
    /\ MaxReservation \in Nat /\ MaxEvents \in Nat /\ MaxAttempts \in Nat /\ MaxAttempts > 0
    /\ Reservation \subseteq MaybeRes /\ 0 \in MaybeRes /\ 0 \notin Reservation
    /\ \A r \in MaybeRes : r # 0 => r \in Reservation
    /\ 0 \in 0 .. MaxAttempts /\ 0 < MaxAttempts
BY PageAssumption DEF Reservation, MaybeRes

-----------------------------------------------------------------------------
(* The record of the page *)

(* q is p taken off the air.                                                *)
OffAir(p, q) ==
    /\ PageOK(q) /\ q.status # "live" /\ q.latch = p.latch

LEMMA WithPublishOff ==
  ASSUME NEW p, PageTyped(p), NEW status \in Status \ {"live"}
  PROVE  /\ OffAir(p, WithPublish(p, status, 0))
         /\ WithPublish(p, status, 0).status = status
<1> DEFINE q == [p EXCEPT !.status = status, !.res = 0]
           w == [q EXCEPT !.live = 0, !.stale = FALSE, !.timer = FALSE]
<1>1. q \in PageRow
  BY Constants DEF PageTyped, PageRow
<1>2. q.status = status /\ q.res = 0 /\ q.latch = p.latch /\ q.timer = p.timer
      /\ q.attempts = p.attempts
  BY DEF PageTyped, PageRow
<1>3. WithPublish(p, status, 0) = IF status \in {"ready", "stopped", "error"} THEN w ELSE q
  BY DEF WithPublish
<1> HIDE DEF q
<1>4. w \in PageRow
  BY <1>1, Constants DEF PageRow
<1>5. w.status = status /\ w.res = 0 /\ w.latch = p.latch /\ w.timer = FALSE
  BY <1>1, <1>2 DEF PageRow
<1> HIDE DEF w
<1>6. OffAir(p, w)
  BY <1>4, <1>5 DEF OffAir, PageOK, PageTyped
<1>7. OffAir(p, q)
  BY <1>1, <1>2 DEF OffAir, PageOK, PageTyped
<1>8. QED
  BY <1>2, <1>3, <1>5, <1>6, <1>7

LEMMA LiveOn ==
  ASSUME NEW p, PageOK(p), NEW r \in Reservation
  PROVE  /\ PageOK(Live(p, r)) /\ Live(p, r).status = "live" /\ Live(p, r).res = r
         /\ Live(p, r).latch = p.latch
<1> DEFINE q == [p EXCEPT !.status = "live", !.res = r]
           w == [q EXCEPT !.live = r, !.stale = FALSE, !.exhausted = FALSE,
                          !.attempts = 0, !.timer = FALSE]
<1>1. q \in PageRow /\ q.status = "live" /\ q.res = r /\ q.latch = p.latch
  BY Constants DEF PageOK, PageTyped, PageRow, Status
<1>2. WithPublish(p, "live", r) = w
  BY DEF WithPublish
<1> HIDE DEF q
<1>3. w \in PageRow
  BY <1>1, Constants DEF PageRow
<1>4. /\ w.status = "live" /\ w.res = r /\ w.live = r /\ w.exhausted = FALSE
      /\ w.attempts = 0 /\ w.timer = FALSE /\ w.latch = p.latch
  BY <1>1 DEF PageRow
<1>5. Live(p, r) = [w EXCEPT !.ended = FALSE, !.muted = FALSE]
  BY <1>2 DEF Live
<1> HIDE DEF w
<1> DEFINE v == [w EXCEPT !.ended = FALSE, !.muted = FALSE]
<1>6. v \in PageRow
  BY <1>3 DEF PageRow
<1>7. /\ v.status = "live" /\ v.res = r /\ v.live = r /\ v.exhausted = FALSE
      /\ v.attempts = 0 /\ v.timer = FALSE /\ v.latch = p.latch
  BY <1>3, <1>4 DEF PageRow
<1> HIDE DEF v
<1>8. r # 0
  BY Constants
<1>9. QED
  BY <1>5, <1>6, <1>7, <1>8 DEF v, PageOK, PageTyped

LEMMA FailedOff ==
  ASSUME NEW p, PageOK(p), NEW canSwitch \in BOOLEAN
  PROVE  OffAir(p, Failed(p, canSwitch)) /\ Failed(p, canSwitch).status = "error"
<1> DEFINE w == WithPublish(p, "error", 0)
<1>1. OffAir(p, w) /\ w.status = "error"
  BY WithPublishOff DEF Status, PageOK
<1>2. Failed(p, canSwitch) = [w EXCEPT !.canSwitch = canSwitch]
  BY DEF Failed
<1> HIDE DEF w
<1>3. QED
  BY <1>1, <1>2 DEF OffAir, PageOK, PageTyped, PageRow

LEMMA LoggedOutOff ==
  ASSUME NEW p, PageOK(p)
  PROVE  OffAir(p, LoggedOut(p)) /\ LoggedOut(p).status = "ready"
<1> DEFINE w == WithPublish(p, "ready", 0)
<1>1. OffAir(p, w) /\ w.status = "ready"
  BY WithPublishOff DEF Status, PageOK
<1>2. LoggedOut(p) = [w EXCEPT !.auth = "out", !.muted = FALSE]
  BY DEF LoggedOut
<1> HIDE DEF w
<1>3. QED
  BY <1>1, <1>2 DEF OffAir, PageOK, PageTyped, PageRow

LEMMA StoppedOff ==
  ASSUME NEW p, PageOK(p)
  PROVE  OffAir(p, Stopped(p)) /\ Stopped(p).status = "stopped"
<1> DEFINE w == WithPublish(p, "stopped", 0)
<1>1. OffAir(p, w) /\ w.status = "stopped"
  BY WithPublishOff DEF Status, PageOK
<1>2. Stopped(p) = [w EXCEPT !.muted = FALSE, !.attempts = 0]
  BY DEF Stopped
<1> HIDE DEF w
<1> DEFINE v == [w EXCEPT !.muted = FALSE, !.attempts = 0]
<1>3. w \in PageRow
  BY <1>1 DEF OffAir, PageOK, PageTyped
<1>4. v \in PageRow
  BY <1>3, Constants DEF PageRow
<1>5. v.status = "stopped" /\ v.res = w.res /\ v.latch = w.latch /\ v.attempts = 0
  BY <1>1, <1>3 DEF PageRow
<1> HIDE DEF v
<1>6. w.res = 0 /\ w.latch = p.latch
  BY <1>1 DEF OffAir, PageOK, PageTyped
<1>7. QED
  BY <1>2, <1>4, <1>5, <1>6, Constants DEF v, OffAir, PageOK, PageTyped

(* q shows what p shows, and recovers a lost room if p does.                *)
ShowsSame(p, q) ==
    /\ PageOK(q) /\ q.status = p.status /\ q.res = p.res /\ q.live = p.live /\ q.latch = p.latch

LEMMA ScheduledShows ==
  ASSUME NEW p, PageOK(p)
  PROVE  /\ ShowsSame(p, Scheduled(p))
         /\ p.status = "live" => Scheduled(p).latch \/ Scheduled(p).timer
<1>1. p \in PageRow
  BY DEF PageOK, PageTyped
<1>2. CASE p.latch \/ p.timer
  BY <1>2 DEF Scheduled, ShowsSame
<1>3. CASE ~(p.latch \/ p.timer) /\ p.attempts >= MaxAttempts
  <2>1. p.status # "live"
    BY <1>3, Constants DEF PageOK, PageTyped
  <2>2. Scheduled(p) = [p EXCEPT !.exhausted = TRUE]
    BY <1>3 DEF Scheduled
  <2>3. QED
    BY <1>1, <2>1, <2>2 DEF ShowsSame, PageOK, PageTyped, PageRow
<1>4. CASE ~(p.latch \/ p.timer) /\ ~(p.attempts >= MaxAttempts)
  <2>1. Scheduled(p) = [p EXCEPT !.timer = TRUE]
    BY <1>4 DEF Scheduled
  <2>2. p.attempts < MaxAttempts
    BY <1>1, <1>4, Constants DEF PageRow
  <2>3. QED
    BY <1>1, <2>1, <2>2 DEF ShowsSame, PageOK, PageTyped, PageRow
<1>5. QED
  BY <1>2, <1>3, <1>4

LEMMA HealthyShows ==
  ASSUME NEW p, PageOK(p)
  PROVE  ShowsSame(p, Healthy(p)) /\ Healthy(p).timer = p.timer
<1> DEFINE v == [p EXCEPT !.stale = FALSE, !.exhausted = FALSE, !.attempts = 0]
<1>1. p \in PageRow
  BY DEF PageOK, PageTyped
<1>2. v \in PageRow
  BY <1>1, Constants DEF PageRow
<1>3. /\ v.status = p.status /\ v.res = p.res /\ v.live = p.live /\ v.latch = p.latch
      /\ v.timer = p.timer /\ v.exhausted = FALSE /\ v.attempts = 0
  BY <1>1 DEF PageRow
<1>4. Healthy(p) = v
  BY DEF Healthy
<1> HIDE DEF v
<1>5. QED
  BY <1>2, <1>3, <1>4, Constants DEF ShowsSame, PageOK, PageTyped

-----------------------------------------------------------------------------
(* What a step leaves as it is *)

RowKeeps(rw) ==
    /\ rw \in [Reservation -> {"none", "reserved", "published", "closed"}]
    /\ \A r \in Reservation : row[r] # "none" => rw[r] # "none"

RoomKeeps(rm) ==
    /\ rm \in [Reservation -> {"none", "up", "shaky", "down", "left"}]
    /\ \A r \in Reservation : (rm[r] = "none") = (room[r] = "none")

LEMMA ClosedKeeps ==
  ASSUME ServerTyped, NEW rs
  PROVE  RowKeeps(Closed(row, rs))
BY DEF ServerTyped, Closed, Open, RowKeeps

LEMMA StopKeeps ==
  ASSUME ServerTyped, NEW r, ServeStop(r)
  PROVE  RowKeeps(row')
BY ClosedKeeps DEF ServeStop, RowKeeps, ServerTyped

LEMMA RoomSet ==
  ASSUME ServerTyped, NEW r, room[r] # "none", NEW st \in {"up", "shaky", "down", "left"}
  PROVE  RoomKeeps([room EXCEPT ![r] = st])
BY DEF ServerTyped, RoomKeeps

(* u differs from t at most in the graph it captured.                       *)
Alike(t, u) ==
    /\ u \in TaskRow
    /\ u.op = t.op /\ u.at = t.at /\ u.old = t.old /\ u.new = t.new /\ u.ans = t.ans

(* The handler in slot s becomes t, the others stay.                        *)
StepsTo(s, t) ==
    /\ task' \in [Slot -> TaskRow]
    /\ Alike(t, task'[s])
    /\ \A x \in Slot \ {s} : Alike(task[x], task'[x])

LEMMA TaskSet ==
  ASSUME task \in [Slot -> TaskRow], NEW s \in Slot, NEW t \in TaskRow,
         \/ task' = [task EXCEPT ![s] = t]
         \/ task' = GraphReplaced([task EXCEPT ![s] = t])
  PROVE  StepsTo(s, t)
<1> DEFINE tk == [task EXCEPT ![s] = t]
<1>1. /\ tk \in [Slot -> TaskRow] /\ tk[s] = t
      /\ \A x \in Slot \ {s} : tk[x] = task[x]
  OBVIOUS
<1> HIDE DEF tk
<1>2. ASSUME NEW u \in TaskRow
      PROVE  Alike(u, u) /\ Alike(u, [u EXCEPT !.same = FALSE])
  BY <1>2 DEF Alike, TaskRow
<1>3. CASE task' = tk
  BY <1>1, <1>2, <1>3 DEF StepsTo
<1>4. CASE task' = GraphReplaced(tk)
  <2>1. task' = [x \in Slot |-> [tk[x] EXCEPT !.same = FALSE]]
    BY <1>4 DEF GraphReplaced
  <2>2. \A x \in Slot : task'[x] = [tk[x] EXCEPT !.same = FALSE] /\ Alike(tk[x], task'[x])
    BY <1>1, <1>2, <2>1
  <2>3. task' \in [Slot -> TaskRow]
    BY <2>1, <2>2 DEF Alike
  <2>4. QED
    BY <1>1, <2>2, <2>3 DEF StepsTo
<1>5. QED
  BY <1>3, <1>4 DEF tk

LEMMA IdleTyped == Idle \in TaskRow
BY Constants DEF Idle, TaskRow

LEMMA DoneSteps ==
  ASSUME task \in [Slot -> TaskRow], NEW s \in Slot,
         task' = Done(s) \/ task' = GraphReplaced(Done(s))
  PROVE  StepsTo(s, Idle)
BY TaskSet, IdleTyped DEF Done

(* u holds no token and nothing to leave that t has not held before it.     *)
Harmless(t, u) ==
    /\ u.at \in {"token", "undo"} => Asking(u)
    /\ u.at = "silence" => u.op \in {"stop", "end"}
    /\ u.old # 0 => room[u.old] # "none"
    /\ HasToken(u) => HasToken(t) /\ u.new = t.new

LEMMA TasksStay ==
  ASSUME TasksOK, RowKeeps(row'), RoomKeeps(room'), task' \in [Slot -> TaskRow],
         \A x \in Slot : Harmless(task[x], task'[x])
  PROVE  TasksOK'
<1>1. ASSUME NEW x \in Slot
      PROVE  TaskOK(task[x])'
  <2>1. TaskOK(task[x]) /\ Harmless(task[x], task'[x])
    BY <1>1 DEF TasksOK
  <2>2. task'[x].old \in MaybeRes
    BY <1>1 DEF TaskRow
  <2>3. task'[x].old # 0 => room'[task'[x].old] # "none"
    BY <2>1, <2>2, Constants DEF Harmless, RoomKeeps
  <2>4. HasToken(task'[x]) =>
          /\ task'[x].new \in Reservation /\ row'[task'[x].new] # "none"
          /\ room'[task'[x].new] = "none"
    BY <2>1 DEF Harmless, TaskOK, RowKeeps, RoomKeeps
  <2>5. QED
    BY <2>1, <2>3, <2>4 DEF Harmless, TaskOK, HasToken, Asking
<1>2. ASSUME NEW s1 \in Slot, NEW s2 \in Slot, HasToken(task'[s1]), HasToken(task'[s2]),
             task'[s1].new = task'[s2].new
      PROVE  s1 = s2
  BY <1>2 DEF TasksOK, Harmless
<1>3. QED
  BY <1>1, <1>2 DEF TasksOK, HasToken

LEMMA AlikeHarmless ==
  ASSUME NEW t, NEW u, TaskOK(t), Alike(t, u)
  PROVE  Harmless(t, u)
BY DEF TaskOK, Alike, Harmless, HasToken, Asking

LEMMA OneTaskStays ==
  ASSUME TasksOK, RowKeeps(row'), RoomKeeps(room'), NEW s \in Slot, NEW t,
         StepsTo(s, t), Harmless(task[s], t)
  PROVE  TasksOK'
<1>1. Harmless(task[s], task'[s])
  BY DEF StepsTo, Alike, Harmless, HasToken, Asking
<1>2. \A x \in Slot \ {s} : Harmless(task[x], task'[x])
  BY AlikeHarmless DEF TasksOK, StepsTo
<1>3. \A x \in Slot : Harmless(task[x], task'[x])
  BY <1>1, <1>2
<1>4. QED
  BY <1>3, TasksStay DEF StepsTo

LEMMA AllTasksStay ==
  ASSUME TasksOK, RowKeeps(row'), RoomKeeps(room'), UNCHANGED task
  PROVE  TasksOK'
<1>1. \A x \in Slot : Harmless(task[x], task[x])
  BY DEF TasksOK, TaskOK, Harmless, HasToken, Asking
<1>2. QED
  BY <1>1, TasksStay DEF TasksOK

LEMMA RoomsStay ==
  ASSUME RoomsOK, RowKeeps(row'), RoomKeeps(room'), beat' \in BeatRow,
         beat'.res # 0 => room[beat'.res] # "none"
  PROVE  RoomsOK'
<1>1. \A r \in Reservation : room'[r] # "none" => row'[r] # "none"
  BY DEF RoomsOK, RowKeeps, RoomKeeps
<1>2. beat'.res \in MaybeRes
  BY DEF BeatRow
<1>3. beat'.res # 0 => room'[beat'.res] # "none"
  BY <1>2, Constants DEF RoomKeeps
<1>4. QED
  BY <1>1, <1>3 DEF RoomsOK

-----------------------------------------------------------------------------
(* The latch *)

LEMMA LatchStays ==
  ASSUME Latched, page'.latch = page.latch,
         \A x \in Slot : Reconnects(x)' <=> Reconnects(x)
  PROVE  Latched'
BY DEF Latched

LEMMA OneLatchStays ==
  ASSUME Latched, page'.latch = page.latch, NEW s \in Slot, NEW t, StepsTo(s, t),
         (t.op = "reconnect") = (task[s].op = "reconnect")
  PROVE  Latched'
<1>1. \A x \in Slot : Reconnects(x)' <=> Reconnects(x)
  BY DEF StepsTo, Alike, Reconnects
<1>2. QED
  BY <1>1, LatchStays

LEMMA UnlatchedIs ==
  ASSUME NEW p, PageTyped(p), NEW t
  PROVE  /\ PageOK(p) => PageOK(Unlatched(p, t))
         /\ Unlatched(p, t).status = p.status /\ Unlatched(p, t).res = p.res
         /\ Unlatched(p, t).latch = IF t.op = "reconnect" THEN FALSE ELSE p.latch
<1> DEFINE q == [p EXCEPT !.latch = FALSE]
<1>1. q \in PageRow
  BY DEF PageTyped, PageRow
<1>2. /\ q.latch = FALSE /\ q.status = p.status /\ q.res = p.res /\ q.live = p.live
      /\ q.timer = p.timer /\ q.exhausted = p.exhausted /\ q.attempts = p.attempts
  BY DEF PageTyped, PageRow
<1>3. Unlatched(p, t) = IF t.op = "reconnect" THEN q ELSE p
  BY DEF Unlatched
<1> HIDE DEF q
<1>4. PageOK(p) => PageOK(q)
  BY <1>1, <1>2 DEF PageOK, PageTyped
<1>5. QED
  BY <1>2, <1>3, <1>4

(* The handler in slot s ends, and lets go of the latch if it has it.       *)
LEMMA LatchFalls ==
  ASSUME Latched, NEW s \in Slot, NEW t, StepsTo(s, t), t.op # "reconnect",
         page'.latch = IF task[s].op = "reconnect" THEN FALSE ELSE page.latch
  PROVE  Latched'
<1>1. ~Reconnects(s)' /\ \A x \in Slot \ {s} : Reconnects(x)' <=> Reconnects(x)
  BY DEF StepsTo, Alike, Reconnects
<1>2. QED
  BY <1>1 DEF Latched, Reconnects

LEMMA LatchRises ==
  ASSUME Latched, ~page.latch, page'.latch, NEW s \in Slot, NEW t, StepsTo(s, t),
         t.op = "reconnect"
  PROVE  Latched'
<1>1. Reconnects(s)' /\ \A x \in Slot \ {s} : Reconnects(x)' <=> Reconnects(x)
  BY DEF StepsTo, Alike, Reconnects
<1>2. QED
  BY <1>1 DEF Latched

-----------------------------------------------------------------------------
(* What is shown *)

OffStatus == {"ready", "stopped", "error"}

(* The rest of the invariant once the page is neither busy nor on the air.  *)
LEMMA NothingShown ==
  ASSUME page'.status \in OffStatus
  PROVE  BusyHasHandler' /\ AirOK'
BY DEF OffStatus, BusyHasHandler, AirOK, LiveIsJoined, LostIsNoticed, LeavesOther

LEMMA BusyShown ==
  ASSUME page'.status \in {"connecting", "reconnecting"}, NEW s \in Slot, NEW t,
         StepsTo(s, t), Asking(t)
  PROVE  BusyHasHandler' /\ AirOK'
<1>1. task'[s].op \in {"golive", "reconnect"}
  BY DEF StepsTo, Alike, Asking
<1>2. QED
  BY <1>1 DEF BusyHasHandler, AirOK, LiveIsJoined, LostIsNoticed, LeavesOther

LEMMA BusyStays ==
  ASSUME BusyHasHandler, page'.status = page.status,
         \A x \in Slot : Asking(task[x]) => Asking(task'[x])
  PROVE  BusyHasHandler'
BY DEF BusyHasHandler, Asking

Noticed(p) == p.timer \/ p.latch \/ p.exhausted

(* The page shows what it showed, through a room that is as it was.         *)
SameAir ==
    /\ page'.status = page.status /\ page'.res = page.res
    /\ page.status = "live" =>
         /\ room'[page.res] = room[page.res]
         /\ Noticed(page) => Noticed(page')

LEMMA AirStays ==
  ASSUME AirOK, SameAir,
         \A x \in Slot : task'[x].at = "mic" /\ task'[x].old # 0 =>
                           task[x].at = "mic" /\ task[x].old = task'[x].old
  PROVE  AirOK'
BY DEF AirOK, SameAir, Noticed, LiveIsJoined, LostIsNoticed, LeavesOther

(* A step of one handler that is not seen on the screen.                    *)
LEMMA OneShownSame ==
  ASSUME BusyHasHandler, AirOK, SameAir, NEW s \in Slot, NEW t, StepsTo(s, t),
         Asking(task[s]) => Asking(t),
         t.at = "mic" /\ t.old # 0 => task[s].at = "mic" /\ task[s].old = t.old
  PROVE  BusyHasHandler' /\ AirOK'
<1>1. \A x \in Slot : Asking(task[x]) => Asking(task'[x])
  BY DEF StepsTo, Alike, Asking
<1>2. \A x \in Slot : task'[x].at = "mic" /\ task'[x].old # 0 =>
                          task[x].at = "mic" /\ task[x].old = task'[x].old
  BY DEF StepsTo, Alike
<1>3. QED
  BY <1>1, <1>2, BusyStays, AirStays DEF SameAir

LEMMA AllShownSame ==
  ASSUME BusyHasHandler, AirOK, SameAir, UNCHANGED task
  PROVE  BusyHasHandler' /\ AirOK'
BY BusyStays, AirStays DEF SameAir

-----------------------------------------------------------------------------
(* Steps of the page alone *)

LEMMA Typed ==
  ASSUME ServerTyped
  PROVE  RowKeeps(row) /\ RoomKeeps(room)
BY DEF ServerTyped, RowKeeps, RoomKeeps

LEMMA ServerStays ==
  ASSUME session' \in BOOLEAN, other' \in BOOLEAN, RowKeeps(row'), RoomKeeps(room'),
         events' \in 0 .. MaxEvents
  PROVE  ServerTyped'
BY DEF ServerTyped, RowKeeps, RoomKeeps

LEMMA EventCounts ==
  ASSUME ServerTyped, Event \/ UNCHANGED events
  PROVE  events' \in 0 .. MaxEvents
BY Constants DEF ServerTyped, Event

LEMMA NoBeatTyped == NoBeat \in BeatRow /\ NoBeat.res = 0
BY Constants DEF NoBeat, BeatRow

LEMMA BeatStays ==
  ASSUME RoomsOK, beat' \in {beat, NoBeat}
  PROVE  beat' \in BeatRow /\ (beat'.res # 0 => room[beat'.res] # "none")
BY NoBeatTyped DEF RoomsOK

LEMMA PageStep ==
  ASSUME IInv, PageOK(page'), page'.latch = page.latch, UNCHANGED <<row, other, room, mic, task>>,
         session' \in BOOLEAN, events' \in 0 .. MaxEvents, beat' \in {beat, NoBeat},
         SameAir \/ page'.status \in OffStatus
  PROVE  IInv'
<1>1. RowKeeps(row') /\ RoomKeeps(room')
  BY Typed DEF IInv
<1>2. ServerTyped'
  BY <1>1, ServerStays DEF IInv, ServerTyped
<1>3. TasksOK'
  BY <1>1, AllTasksStay DEF IInv
<1>4. RoomsOK'
  BY <1>1, BeatStays, RoomsStay DEF IInv
<1>5. Latched'
  BY LatchStays DEF IInv, Reconnects
<1>6. BusyHasHandler' /\ AirOK'
  BY AllShownSame, NothingShown DEF IInv
<1>7. QED
  BY <1>2, <1>3, <1>4, <1>5, <1>6 DEF IInv

LEMMA LoadKeeps ==
  ASSUME IInv, Load
  PROVE  IInv'
<1>1. PICK auth \in {"closed", "out", "in"} : page' = [page EXCEPT !.auth = auth]
  BY DEF Load
<1>2. page \in PageRow
  BY DEF IInv, PageOK, PageTyped
<1>3. page' \in PageRow
  BY <1>1, <1>2 DEF PageRow
<1>4. /\ page'.status = page.status /\ page'.res = page.res /\ page'.live = page.live
      /\ page'.latch = page.latch /\ page'.timer = page.timer
      /\ page'.exhausted = page.exhausted /\ page'.attempts = page.attempts
  BY <1>1, <1>2 DEF PageRow
<1>5. PageOK(page')
  BY <1>3, <1>4 DEF IInv, PageOK, PageTyped
<1>6. SameAir
  BY <1>4 DEF Load, SameAir, Noticed
<1>7. QED
  BY <1>4, <1>5, <1>6, PageStep DEF Load, IInv, ServerTyped

LEMMA LoginKeeps ==
  ASSUME IInv, Login
  PROVE  IInv'
<1> DEFINE w == WithPublish(page, "ready", 0)
<1>1. OffAir(page, w) /\ w.status = "ready"
  BY WithPublishOff DEF Status, IInv, PageOK
<1>2. page' = [w EXCEPT !.auth = "in", !.ended = FALSE, !.muted = FALSE]
  BY DEF Login
<1> HIDE DEF w
<1>3. PageOK(page') /\ page'.latch = page.latch /\ page'.status = "ready"
  BY <1>1, <1>2 DEF OffAir, PageOK, PageTyped, PageRow
<1>4. events' \in 0 .. MaxEvents
  BY EventCounts DEF Login, IInv
<1>5. QED
  BY <1>3, <1>4, PageStep DEF Login, OffStatus

LEMMA PressMuteKeeps ==
  ASSUME IInv, PressMute
  PROVE  IInv'
<1>1. page \in PageRow
  BY DEF IInv, PageOK, PageTyped
<1>2. page' \in PageRow
  BY <1>1 DEF PressMute, PageRow
<1>3. /\ page'.status = page.status /\ page'.res = page.res /\ page'.live = page.live
      /\ page'.latch = page.latch /\ page'.timer = page.timer
      /\ page'.exhausted = page.exhausted /\ page'.attempts = page.attempts
  BY <1>1 DEF PressMute, PageRow
<1>4. PageOK(page')
  BY <1>2, <1>3 DEF IInv, PageOK, PageTyped
<1>5. SameAir
  BY <1>3 DEF PressMute, SameAir, Noticed
<1>6. events' \in 0 .. MaxEvents
  BY EventCounts DEF PressMute, IInv
<1>7. QED
  BY <1>3, <1>4, <1>5, <1>6, PageStep DEF PressMute, IInv, ServerTyped

LEMMA BeatOkKeeps ==
  ASSUME IInv, BeatOk
  PROVE  IInv'
<1>1. ShowsSame(page, page') /\ page'.timer = page.timer
  BY HealthyShows DEF BeatOk, IInv
<1>2. SameAir
  BY <1>1 DEF BeatOk, SameAir, Noticed, ShowsSame, IInv, PageOK
<1>3. QED
  BY <1>1, <1>2, PageStep DEF BeatOk, ShowsSame, IInv, ServerTyped

LEMMA CatchUpFailsKeeps ==
  ASSUME IInv, CatchUpFails
  PROVE  IInv'
<1>1. ShowsSame(page, page') /\ (page.status = "live" => page'.latch \/ page'.timer)
  BY ScheduledShows DEF CatchUpFails, IInv
<1>2. SameAir
  BY <1>1 DEF CatchUpFails, SameAir, Noticed, ShowsSame
<1>3. QED
  BY <1>1, <1>2, PageStep DEF CatchUpFails, ShowsSame, IInv, ServerTyped

(* The page is stale, and otherwise as it was.                              *)
LEMMA StaleShows ==
  ASSUME NEW p, PageOK(p)
  PROVE  LET q == [p EXCEPT !.stale = TRUE]
         IN  ShowsSame(p, q) /\ q.timer = p.timer /\ q.exhausted = p.exhausted
<1> DEFINE q == [p EXCEPT !.stale = TRUE]
<1>1. q \in PageRow
  BY DEF PageOK, PageTyped, PageRow
<1>2. /\ q.latch = p.latch /\ q.status = p.status /\ q.res = p.res /\ q.live = p.live
      /\ q.timer = p.timer /\ q.exhausted = p.exhausted /\ q.attempts = p.attempts
  BY DEF PageOK, PageTyped, PageRow
<1> HIDE DEF q
<1>3. ShowsSame(p, q) /\ q.timer = p.timer /\ q.exhausted = p.exhausted
  BY <1>1, <1>2 DEF ShowsSame, PageOK, PageTyped
<1>4. QED
  BY <1>3 DEF q

LEMMA BeatFailsKeeps ==
  ASSUME IInv, BeatFails
  PROVE  IInv'
<1>1. ShowsSame(page, page') /\ page'.timer = page.timer /\ page'.exhausted = page.exhausted
  <2>1. CASE page' = page
    BY <2>1 DEF ShowsSame, IInv
  <2>2. CASE page' = [page EXCEPT !.stale = TRUE]
    BY <2>2, StaleShows DEF IInv
  <2>3. QED
    BY <2>1, <2>2 DEF BeatFails
<1>2. SameAir
  BY <1>1 DEF BeatFails, SameAir, Noticed, ShowsSame
<1>3. QED
  BY <1>1, <1>2, PageStep DEF BeatFails, ShowsSame, IInv, ServerTyped

-----------------------------------------------------------------------------
(* Steps of the other actors and of the transport *)

LEMMA ServerStep ==
  ASSUME IInv, RowKeeps(row'), UNCHANGED <<room, page, mic, beat, task>>,
         session' \in BOOLEAN, other' \in BOOLEAN, events' \in 0 .. MaxEvents
  PROVE  IInv'
<1>1. RoomKeeps(room')
  BY Typed DEF IInv
<1>2. ServerTyped'
  BY <1>1, ServerStays
<1>3. TasksOK'
  BY <1>1, AllTasksStay DEF IInv
<1>4. RoomsOK'
  BY <1>1, BeatStays, RoomsStay DEF IInv
<1>5. Latched'
  BY LatchStays DEF IInv, Reconnects
<1>6. SameAir
  BY DEF SameAir, Noticed
<1>7. BusyHasHandler' /\ AirOK'
  BY <1>6, AllShownSame DEF IInv
<1>8. QED
  BY <1>2, <1>3, <1>4, <1>5, <1>7 DEF IInv

LEMMA TrackPublishedKeeps ==
  ASSUME IInv, NEW r \in Reservation, TrackPublished(r)
  PROVE  IInv'
<1>1. RowKeeps(row')
  BY DEF TrackPublished, IInv, ServerTyped, RowKeeps
<1>2. QED
  BY <1>1, ServerStep DEF TrackPublished, IInv, ServerTyped

LEMMA RowClosesKeeps ==
  ASSUME IInv, NEW r \in Reservation, NEW revoked \in BOOLEAN, RowCloses(r, revoked)
  PROVE  IInv'
<1>1. RowKeeps(row')
  BY ClosedKeeps DEF RowCloses, IInv
<1>2. events' \in 0 .. MaxEvents
  BY EventCounts DEF RowCloses, IInv
<1>3. session' \in BOOLEAN
  BY DEF RowCloses, IInv, ServerTyped
<1>4. QED
  BY <1>1, <1>2, <1>3, ServerStep DEF RowCloses, IInv, ServerTyped

LEMMA OtherTakesOverKeeps ==
  ASSUME IInv, OtherTakesOver
  PROVE  IInv'
<1>1. RowKeeps(row')
  BY ClosedKeeps DEF OtherTakesOver, IInv
<1>2. events' \in 0 .. MaxEvents
  BY EventCounts DEF OtherTakesOver, IInv
<1>3. QED
  BY <1>1, <1>2, ServerStep DEF OtherTakesOver, IInv, ServerTyped

LEMMA RoomStep ==
  ASSUME IInv, ShowsSame(page, page'), RoomKeeps(room'),
         UNCHANGED <<session, row, other, mic, beat, task>>, events' \in 0 .. MaxEvents,
         page.status = "live" => /\ room'[page.res] \in {"up", "shaky", "down"}
                                 /\ room'[page.res] = "down" => Noticed(page')
  PROVE  IInv'
<1>1. RowKeeps(row')
  BY Typed DEF IInv
<1>2. ServerTyped'
  BY <1>1, ServerStays DEF IInv, ServerTyped
<1>3. TasksOK'
  BY <1>1, AllTasksStay DEF IInv
<1>4. RoomsOK'
  BY <1>1, BeatStays, RoomsStay DEF IInv
<1>5. Latched'
  BY LatchStays DEF IInv, Reconnects, ShowsSame
<1>6. BusyHasHandler'
  BY BusyStays DEF IInv, ShowsSame
<1>7. AirOK'
  BY DEF IInv, AirOK, ShowsSame, Noticed, LiveIsJoined, LostIsNoticed, LeavesOther
<1>8. QED
  BY <1>2, <1>3, <1>4, <1>5, <1>6, <1>7 DEF IInv, ShowsSame

LEMMA SelfShows ==
  ASSUME IInv
  PROVE  /\ ShowsSame(page, page)
         /\ page.status = "live" => /\ page.live = page.res /\ page.res \in Reservation
                                    /\ room[page.res] \in {"up", "shaky", "down"}
                                    /\ room[page.res] = "down" => Noticed(page)
<1>1. page.res \in MaybeRes
  BY DEF IInv, PageOK, PageTyped, PageRow
<1>2. QED
  BY <1>1, Constants DEF IInv, ShowsSame, PageOK, AirOK, LiveIsJoined, LostIsNoticed, Noticed

LEMMA TransportWaversKeeps ==
  ASSUME IInv, NEW r \in Reservation, TransportWavers(r)
  PROVE  IInv'
<1>1. RoomKeeps(room') /\ room'[r] = "shaky" /\ \A x \in Reservation \ {r} : room'[x] = room[x]
  BY RoomSet DEF TransportWavers, IInv, ServerTyped
<1>2. ShowsSame(page, page') /\ page'.timer = page.timer /\ page'.exhausted = page.exhausted
  BY StaleShows, SelfShows DEF TransportWavers, IInv
<1>3. Noticed(page) => Noticed(page')
  BY <1>2 DEF Noticed, ShowsSame
<1>4. events' \in 0 .. MaxEvents
  BY EventCounts DEF TransportWavers, IInv
<1>5. QED
  BY <1>1, <1>2, <1>3, <1>4, SelfShows, RoomStep DEF TransportWavers

LEMMA TransportHealsKeeps ==
  ASSUME IInv, NEW r \in Reservation, TransportHeals(r)
  PROVE  IInv'
<1>1. RoomKeeps(room') /\ room'[r] = "up" /\ \A x \in Reservation \ {r} : room'[x] = room[x]
  BY RoomSet DEF TransportHeals, IInv, ServerTyped
<1>2. ShowsSame(page, page') /\ (page.live # r => page' = page)
  <2>1. CASE page.live = r
    <3> DEFINE h == Healthy(page)
    <3>1. ShowsSame(page, h)
      BY HealthyShows DEF IInv
    <3>2. page' = [h EXCEPT !.timer = FALSE]
      BY <2>1 DEF TransportHeals
    <3> HIDE DEF h
    <3>3. h \in PageRow
      BY <3>1 DEF ShowsSame, PageOK, PageTyped
    <3>4. page' \in PageRow /\ page'.timer = FALSE
      BY <3>2, <3>3 DEF PageRow
    <3>5. /\ page'.latch = h.latch /\ page'.status = h.status /\ page'.res = h.res
          /\ page'.live = h.live /\ page'.exhausted = h.exhausted /\ page'.attempts = h.attempts
      BY <3>2, <3>3 DEF PageRow
    <3>6. QED
      BY <2>1, <3>1, <3>4, <3>5 DEF ShowsSame, PageOK, PageTyped
  <2>2. CASE page.live # r
    BY <2>2, SelfShows DEF TransportHeals
  <2>3. QED
    BY <2>1, <2>2
<1>3. QED
  BY <1>1, <1>2, SelfShows, RoomStep DEF TransportHeals, IInv, ServerTyped

LEMMA TransportLostKeeps ==
  ASSUME IInv, NEW r \in Reservation, TransportLost(r)
  PROVE  IInv'
<1>1. RoomKeeps(room') /\ room'[r] = "down" /\ \A x \in Reservation \ {r} : room'[x] = room[x]
  BY RoomSet DEF TransportLost, IInv, ServerTyped
<1>2. /\ ShowsSame(page, page')
      /\ page.live # r => page' = page
      /\ page.live = r /\ page.status = "live" => Noticed(page')
  <2>1. CASE page.live = r
    <3> DEFINE q == [page EXCEPT !.stale = TRUE]
    <3>1. ShowsSame(page, q)
      BY StaleShows DEF IInv
    <3>2. page' = Scheduled(q)
      BY <2>1 DEF TransportLost
    <3> HIDE DEF q
    <3>3. ShowsSame(q, page') /\ (q.status = "live" => page'.latch \/ page'.timer)
      BY <3>1, <3>2, ScheduledShows DEF ShowsSame
    <3>4. QED
      BY <2>1, <3>1, <3>3 DEF ShowsSame, Noticed
  <2>2. CASE page.live # r
    BY <2>2, SelfShows DEF TransportLost
  <2>3. QED
    BY <2>1, <2>2
<1>3. events' \in 0 .. MaxEvents
  BY EventCounts DEF TransportLost, IInv
<1>4. QED
  BY <1>1, <1>2, <1>3, SelfShows, RoomStep DEF TransportLost

-----------------------------------------------------------------------------
(* Handlers that begin *)

LEMMA HandlerStep ==
  ASSUME IInv, NEW s \in Slot, NEW t, StepsTo(s, t), Harmless(task[s], t), PageOK(page'),
         RowKeeps(row'), RoomKeeps(room'), session' \in BOOLEAN, other' \in BOOLEAN,
         events' \in 0 .. MaxEvents, mic' \in MicRow, beat' \in {beat, NoBeat},
         Latched', BusyHasHandler' /\ AirOK'
  PROVE  IInv'
<1>1. ServerTyped'
  BY ServerStays
<1>2. TasksOK'
  BY OneTaskStays DEF IInv
<1>3. RoomsOK'
  BY BeatStays, RoomsStay DEF IInv
<1>4. QED
  BY <1>1, <1>2, <1>3 DEF IInv

(* A handler that waits, or ends, unseen.                                   *)
LEMMA UnseenStep ==
  ASSUME IInv, NEW s \in Slot, NEW t, StepsTo(s, t), Harmless(task[s], t),
         RowKeeps(row'), UNCHANGED <<room, page>>, session' \in BOOLEAN, other' \in BOOLEAN,
         events' \in 0 .. MaxEvents, mic' \in MicRow, beat' \in {beat, NoBeat},
         (t.op = "reconnect") = (task[s].op = "reconnect"), Asking(task[s]) => Asking(t),
         t.at = "mic" /\ t.old # 0 => task[s].at = "mic" /\ task[s].old = t.old
  PROVE  IInv'
<1>1. RoomKeeps(room')
  BY Typed DEF IInv
<1>2. PageOK(page')
  BY DEF IInv
<1>3. Latched'
  BY OneLatchStays DEF IInv
<1>4. SameAir
  BY DEF SameAir, Noticed
<1>5. BusyHasHandler' /\ AirOK'
  BY <1>4, OneShownSame DEF IInv
<1>6. QED
  BY <1>1, <1>2, <1>3, <1>5, HandlerStep

LEMMA MicTyped ==
  ASSUME IInv
  PROVE  MicStopped \in MicRow /\ MicAcquired \in MicRow
BY DEF IInv, MicRow, MicStopped, MicAcquired

LEMMA TaskTyped ==
  ASSUME IInv, NEW s \in Slot
  PROVE  task \in [Slot -> TaskRow] /\ task[s] \in TaskRow /\ TaskOK(task[s])
BY DEF IInv, TasksOK

LEMMA PageIsTyped ==
  ASSUME IInv
  PROVE  PageOK(page) /\ PageTyped(page) /\ page \in PageRow
BY DEF IInv, PageOK, PageTyped

(* The page is taken off the air to connect: r says what it shows meanwhile. *)
LEMMA Unmuted ==
  ASSUME NEW p, NEW w, OffAir(p, w)
  PROVE  OffAir(p, [w EXCEPT !.muted = FALSE]) /\ [w EXCEPT !.muted = FALSE].status = w.status
BY DEF OffAir, PageOK, PageTyped, PageRow

LEMMA GoLiveKeeps ==
  ASSUME IInv, NEW s \in Slot, NEW reclaim \in BOOLEAN, GoLive(s, reclaim)
  PROVE  IInv'
<1> DEFINE t == [Idle EXCEPT !.op = "golive", !.at = "mic", !.reclaim = reclaim]
           w == WithPublish(page, "connecting", 0)
<1>1. t \in TaskRow
  BY Constants DEF Idle, TaskRow
<1>2. t.op = "golive" /\ t.at = "mic" /\ t.old = 0
  BY DEF Idle
<1>3. task' = GraphReplaced([task EXCEPT ![s] = t]) /\ task[s].op = "idle"
  BY DEF GoLive, Start, Free
<1> HIDE DEF t
<1>4. StepsTo(s, t)
  BY <1>1, <1>3, TaskSet, TaskTyped
<1>5. OffAir(page, w) /\ w.status = "connecting"
  BY WithPublishOff, PageIsTyped DEF Status
<1>6. page' = [w EXCEPT !.muted = FALSE]
  BY DEF GoLive
<1> HIDE DEF w
<1>7. PageOK(page') /\ page'.latch = page.latch /\ page'.status = "connecting"
  BY <1>5, <1>6, Unmuted DEF OffAir
<1>8. Latched'
  BY <1>2, <1>3, <1>4, <1>7, OneLatchStays DEF IInv
<1>9. BusyHasHandler' /\ AirOK'
  BY <1>2, <1>4, <1>7, BusyShown DEF Asking
<1>10. Harmless(task[s], t)
  BY <1>2 DEF Harmless, HasToken
<1>11. /\ RowKeeps(row') /\ RoomKeeps(room') /\ mic' \in MicRow
       /\ session' \in BOOLEAN /\ other' \in BOOLEAN /\ events' \in 0 .. MaxEvents
  BY Typed, MicTyped DEF GoLive, IInv, ServerTyped
<1>12. QED
  BY <1>4, <1>7, <1>8, <1>9, <1>10, <1>11, HandlerStep DEF GoLive

LEMMA ReconnectKeeps ==
  ASSUME IInv, NEW s \in Slot, NEW p, NEW auto \in BOOLEAN, Reconnect(s, p, auto),
         PageTyped(p), p.status = page.status, p.res = page.res, p.latch = page.latch,
         ~page.latch, UNCHANGED <<session, row, other, room, beat>>, events' \in 0 .. MaxEvents
  PROVE  IInv'
<1> DEFINE old == IF p.status = "live" THEN p.res ELSE 0
           t == [Idle EXCEPT !.op = "reconnect", !.at = "mic", !.reclaim = TRUE, !.auto = auto,
                             !.old = old]
           w == WithPublish(p, "reconnecting", 0)
<1>1. old \in MaybeRes /\ (old # 0 => room[old] # "none")
  BY SelfShows, Constants DEF AirOK
<1>2. task' = GraphReplaced([task EXCEPT ![s] = t]) /\ task[s].op = "idle"
  BY DEF Reconnect, Start, Free
<1> HIDE DEF old
<1>3. t \in TaskRow
  BY <1>1, Constants DEF Idle, TaskRow
<1>4. t.op = "reconnect" /\ t.at = "mic" /\ t.old = old
  BY DEF Idle
<1> HIDE DEF t
<1>5. StepsTo(s, t)
  BY <1>2, <1>3, TaskSet, TaskTyped
<1>6. OffAir(p, w) /\ w.status = "reconnecting"
  BY WithPublishOff DEF Status
<1>7. page' = [w EXCEPT !.muted = FALSE, !.latch = TRUE]
  BY DEF Reconnect
<1> HIDE DEF w
<1>8. PageOK(page') /\ page'.latch /\ page'.status = "reconnecting"
  BY <1>6, <1>7 DEF OffAir, PageOK, PageTyped, PageRow
<1>9. Latched'
  BY <1>4, <1>5, <1>8, LatchRises DEF IInv
<1>10. BusyHasHandler' /\ AirOK'
  BY <1>4, <1>5, <1>8, BusyShown DEF Asking
<1>11. Harmless(task[s], t)
  BY <1>1, <1>4 DEF Harmless, HasToken
<1>12. /\ RowKeeps(row') /\ RoomKeeps(room') /\ mic' \in MicRow
       /\ session' \in BOOLEAN /\ other' \in BOOLEAN
  BY Typed, MicTyped DEF Reconnect, IInv, ServerTyped
<1>13. QED
  BY <1>5, <1>8, <1>9, <1>10, <1>11, <1>12, HandlerStep

LEMMA PressReconnectKeeps ==
  ASSUME IInv, NEW s \in Slot, PressReconnect(s)
  PROVE  IInv'
<1>1. events' \in 0 .. MaxEvents
  BY EventCounts DEF PressReconnect, IInv
<1>2. QED
  BY <1>1, PageIsTyped, ReconnectKeeps DEF PressReconnect

LEMMA TimerFiresKeeps ==
  ASSUME IInv, TimerFires
  PROVE  IInv'
<1> DEFINE p == [page EXCEPT !.timer = FALSE]
           q == [p EXCEPT !.attempts = @ + 1]
<1>1. /\ page \in PageRow /\ page.attempts \in Nat /\ page.attempts < MaxAttempts
      /\ page.attempts \in 0 .. MaxAttempts
  BY PageIsTyped, Constants DEF TimerFires, PageTyped, PageRow
<1>2. page.attempts + 1 \in 0 .. MaxAttempts
  BY <1>1, Constants
<1>3. p \in PageRow /\ p.timer = FALSE /\ p.attempts = page.attempts
  BY <1>1 DEF PageRow
<1>4. /\ p.latch = page.latch /\ p.status = page.status /\ p.res = page.res
      /\ p.live = page.live /\ p.exhausted = page.exhausted
  BY <1>1 DEF PageRow
<1>5. events' \in 0 .. MaxEvents
  BY DEF TimerFires, IInv, ServerTyped
<1>6. CASE page.live = 0 \/ page.latch
  <2>1. page' = p /\ UNCHANGED task /\ UNCHANGED mic
    BY <1>6 DEF TimerFires
  <2> HIDE DEF p, q
  <2>2. PageOK(page')
    BY <1>3, <1>4, <2>1, PageIsTyped DEF PageOK, PageTyped
  <2>3. SameAir
    BY <1>4, <1>6, <2>1, PageIsTyped DEF TimerFires, SameAir, Noticed, PageOK
  <2>4. QED
    BY <1>4, <1>5, <2>1, <2>2, <2>3, PageStep DEF TimerFires, IInv, ServerTyped
<1>7. CASE ~(page.live = 0 \/ page.latch)
  <2>1. PICK s \in Slot : Reconnect(s, q, TRUE)
    BY <1>7 DEF TimerFires
  <2>2. q \in PageRow /\ q.timer = p.timer
    BY <1>2, <1>3 DEF PageRow
  <2>3. q.latch = p.latch /\ q.status = p.status /\ q.res = p.res
    BY <1>3 DEF PageRow
  <2> HIDE DEF p, q
  <2>4. PageTyped(q)
    BY <1>3, <2>2 DEF PageTyped
  <2>5. QED
    BY <1>4, <1>5, <1>7, <2>1, <2>3, <2>4, ReconnectKeeps DEF TimerFires
<1>8. QED
  BY <1>6, <1>7

(* A handler that begins with the broadcast that is live to report silence. *)
LEMMA EndingSteps ==
  ASSUME IInv, NEW s \in Slot, NEW res \in MaybeRes, res # 0 => room[res] # "none",
         NEW op \in {"stop", "end"}, NEW out \in BOOLEAN, Ending(s, res, op, out)
  PROVE  \E t \in TaskRow : /\ StepsTo(s, t) /\ Harmless(task[s], t)
                            /\ t.op = op /\ t.at = "silence"
<1> DEFINE t == [Idle EXCEPT !.op = op, !.at = "silence", !.old = res, !.out = out]
<1>1. t \in TaskRow
  BY Constants DEF Idle, TaskRow
<1>2. t.op = op /\ t.at = "silence" /\ t.old = res
  BY DEF Idle
<1>3. task' = [task EXCEPT ![s] = t]
  BY DEF Ending
<1> HIDE DEF t
<1>4. StepsTo(s, t)
  BY <1>1, <1>3, TaskSet, TaskTyped
<1>5. Harmless(task[s], t)
  BY <1>2 DEF Harmless, HasToken
<1>6. QED
  BY <1>1, <1>2, <1>4, <1>5

LEMMA PressStopKeeps ==
  ASSUME IInv, NEW s \in Slot, PressStop(s)
  PROVE  IInv'
<1>1. page.res \in MaybeRes /\ room[page.res] # "none"
  BY SelfShows, Constants DEF PressStop
<1>2. PICK t \in TaskRow : /\ StepsTo(s, t) /\ Harmless(task[s], t)
                           /\ t.op = "stop" /\ t.at = "silence"
  BY <1>1, EndingSteps DEF PressStop
<1>3. events' \in 0 .. MaxEvents
  BY EventCounts DEF PressStop, IInv
<1>4. RowKeeps(row')
  BY Typed DEF PressStop, IInv
<1>5. QED
  BY <1>2, <1>3, <1>4, UnseenStep DEF PressStop, Free, Asking, IInv, ServerTyped

LEMMA PressSignOutKeeps ==
  ASSUME IInv, NEW s \in Slot, PressSignOut(s)
  PROVE  IInv'
<1> DEFINE t == [Idle EXCEPT !.op = "signout", !.at = page.status, !.old = page.res]
<1>1. page.res \in MaybeRes /\ page.status \in Status /\ (page.res # 0 => room[page.res] # "none")
  BY SelfShows, PageIsTyped DEF PageOK, PageRow
<1>2. t \in TaskRow
  BY <1>1, Constants DEF Idle, TaskRow
<1>3. t.op = "signout" /\ t.at = page.status /\ t.old = page.res
  BY DEF Idle
<1>4. task' = [task EXCEPT ![s] = t]
  BY DEF PressSignOut
<1> HIDE DEF t
<1>5. StepsTo(s, t)
  BY <1>2, <1>4, TaskSet, TaskTyped
<1>6. t.at \notin {"token", "undo", "silence", "mic"}
  BY <1>1, <1>3 DEF Status
<1>7. Harmless(task[s], t)
  BY <1>1, <1>3, <1>6 DEF Harmless, HasToken
<1>8. RowKeeps(row') /\ session' \in BOOLEAN
  BY Typed, ClosedKeeps DEF PressSignOut, IInv, ServerTyped
<1>9. events' \in 0 .. MaxEvents
  BY EventCounts DEF PressSignOut, IInv
<1>10. QED
  BY <1>3, <1>5, <1>6, <1>7, <1>8, <1>9, UnseenStep DEF PressSignOut, Free, Asking, IInv, ServerTyped

LEMMA ChangeSourceKeeps ==
  ASSUME IInv, NEW s \in Slot, ChangeSource(s)
  PROVE  IInv'
<1> DEFINE t == [Idle EXCEPT !.op = "swap", !.at = "mic", !.same = TRUE]
<1>1. t \in TaskRow
  BY Constants DEF Idle, TaskRow
<1>2. t.op = "swap" /\ t.at = "mic" /\ t.old = 0
  BY DEF Idle
<1>3. task' = [task EXCEPT ![s] = t]
  BY DEF ChangeSource
<1> HIDE DEF t
<1>4. StepsTo(s, t)
  BY <1>1, <1>3, TaskSet, TaskTyped
<1>5. Harmless(task[s], t)
  BY <1>2 DEF Harmless, HasToken
<1>6. events' \in 0 .. MaxEvents
  BY EventCounts DEF ChangeSource, IInv
<1>7. RowKeeps(row')
  BY Typed DEF ChangeSource, IInv
<1>8. QED
  BY <1>2, <1>4, <1>5, <1>6, <1>7, UnseenStep DEF ChangeSource, Free, Asking, IInv, ServerTyped

-----------------------------------------------------------------------------
(* Handlers that go on or end unseen *)

LEMMA IdleIsHarmless ==
  ASSUME NEW s
  PROVE  /\ Harmless(task[s], Idle) /\ Idle.op = "idle" /\ Idle.at = "none" /\ Idle.old = 0
         /\ ~Asking(Idle)
BY DEF Idle, Harmless, HasToken, Asking

(* A handler that neither connects nor shows anything ends.                 *)
LEMMA EndsUnseen ==
  ASSUME IInv, NEW s \in Slot, task' = Done(s), ~Asking(task[s]),
         UNCHANGED <<session, row, other, room, page, events>>, mic' \in MicRow,
         beat' \in {beat, NoBeat}
  PROVE  IInv'
<1>1. StepsTo(s, Idle)
  BY DoneSteps, TaskTyped
<1>2. RowKeeps(row')
  BY Typed DEF IInv
<1>3. QED
  BY <1>1, <1>2, IdleIsHarmless, UnseenStep DEF Asking, IInv, ServerTyped

LEMMA SourceGrantedKeeps ==
  ASSUME IInv, NEW s \in Slot, SourceGranted(s)
  PROVE  IInv'
<1>1. mic' \in MicRow
  BY DEF SourceGranted, SourceSwapped, IInv, MicRow
<1>2. QED
  BY <1>1, EndsUnseen DEF SourceGranted, Asking

LEMMA SourceRefusedKeeps ==
  ASSUME IInv, NEW s \in Slot, SourceRefused(s)
  PROVE  IInv'
BY EndsUnseen DEF SourceRefused, Asking, IInv

(* A handler reaches its next wait.                                         *)
LEMMA NextWait ==
  ASSUME IInv, NEW s \in Slot, NEW at \in {"stop", "undo", "freed"},
         at = "undo" => Asking(task[s]),
         \/ task' = [task EXCEPT ![s].at = at]
         \/ task' = GraphReplaced([task EXCEPT ![s].at = at])
  PROVE  \E t \in TaskRow : /\ StepsTo(s, t) /\ Harmless(task[s], t)
                            /\ t.op = task[s].op /\ t.at = at
<1> DEFINE t == [task[s] EXCEPT !.at = at]
<1>1. t \in TaskRow
  BY TaskTyped DEF TaskRow
<1>2. t.op = task[s].op /\ t.at = at /\ t.old = task[s].old
  BY TaskTyped DEF TaskRow
<1>3. [task EXCEPT ![s].at = at] = [task EXCEPT ![s] = t]
  BY TaskTyped
<1> HIDE DEF t
<1>4. StepsTo(s, t)
  BY <1>1, <1>3, TaskSet, TaskTyped
<1>5. Harmless(task[s], t)
  BY <1>2, TaskTyped DEF Harmless, HasToken, TaskOK, Asking
<1>6. QED
  BY <1>1, <1>2, <1>4, <1>5

LEMMA JoinFailsKeeps ==
  ASSUME IInv, NEW s \in Slot, JoinFails(s)
  PROVE  IInv'
<1>1. Asking(task[s])
  BY TaskTyped DEF JoinFails, TaskOK
<1>2. PICK t \in TaskRow : /\ StepsTo(s, t) /\ Harmless(task[s], t)
                           /\ t.op = task[s].op /\ t.at = "undo"
  BY <1>1, NextWait DEF JoinFails
<1>3. RowKeeps(row')
  BY StopKeeps DEF JoinFails, IInv
<1>4. events' \in 0 .. MaxEvents
  BY EventCounts DEF JoinFails, IInv
<1>5. QED
  BY <1>2, <1>3, <1>4, UnseenStep DEF JoinFails, Asking, IInv, ServerTyped

LEMMA SendBeatKeeps ==
  ASSUME IInv, NEW catchUp \in BOOLEAN, NEW ans \in {"ok", "inactive", "auth", "error"},
         SendBeat(catchUp, ans)
  PROVE  IInv'
<1>1. beat' \in BeatRow /\ beat'.res = page.res /\ page.res \in MaybeRes
  BY PageIsTyped DEF SendBeat, BeatRow, PageRow
<1>2. RowKeeps(row') /\ RoomKeeps(room')
  BY Typed DEF SendBeat, IInv
<1>3. RoomsOK'
  BY <1>1, <1>2, SelfShows, RoomsStay DEF SendBeat, IInv
<1>4. events' \in 0 .. MaxEvents
  BY EventCounts DEF SendBeat, IInv
<1>5. ServerTyped'
  BY <1>2, <1>4, ServerStays DEF SendBeat, IInv, ServerTyped
<1>6. TasksOK'
  BY <1>2, AllTasksStay DEF SendBeat, IInv
<1>7. Latched'
  BY LatchStays DEF SendBeat, IInv, Reconnects
<1>8. SameAir
  BY DEF SendBeat, SameAir, Noticed
<1>9. BusyHasHandler' /\ AirOK'
  BY <1>8, AllShownSame DEF SendBeat, IInv
<1>10. QED
  BY <1>3, <1>5, <1>6, <1>7, <1>9 DEF SendBeat, IInv

-----------------------------------------------------------------------------
(* Handlers that end with the page off the air *)

LEMMA OffStep ==
  ASSUME IInv, NEW s \in Slot, NEW t, StepsTo(s, t), Harmless(task[s], t), t.op # "reconnect",
         PageOK(page'), page'.status \in OffStatus,
         page'.latch = IF task[s].op = "reconnect" THEN FALSE ELSE page.latch,
         RowKeeps(row'), RoomKeeps(room'), UNCHANGED <<session, other>>,
         events' \in 0 .. MaxEvents, mic' \in MicRow, beat' \in {beat, NoBeat}
  PROVE  IInv'
<1>1. Latched'
  BY LatchFalls DEF IInv
<1>2. BusyHasHandler' /\ AirOK'
  BY NothingShown
<1>3. QED
  BY <1>1, <1>2, HandlerStep DEF IInv, ServerTyped

(* A handler ends with the page q, without its latch.                       *)
LEMMA EndsOff ==
  ASSUME IInv, NEW s \in Slot, NEW q, OffAir(page, q), q.status \in OffStatus,
         page' = Unlatched(q, task[s]), task' = Done(s) \/ task' = GraphReplaced(Done(s)),
         UNCHANGED <<session, row, other, room>>, events' \in 0 .. MaxEvents,
         mic' \in MicRow, beat' \in {beat, NoBeat}
  PROVE  IInv'
<1>1. StepsTo(s, Idle)
  BY DoneSteps, TaskTyped
<1>2. RowKeeps(row') /\ RoomKeeps(room')
  BY Typed DEF IInv
<1>3. PageOK(q) /\ PageTyped(q) /\ q.latch = page.latch
  BY DEF OffAir, PageOK
<1> DEFINE v == Unlatched(q, task[s])
<1>4. /\ PageOK(v) /\ v.status = q.status
      /\ v.latch = IF task[s].op = "reconnect" THEN FALSE ELSE q.latch
  BY <1>3, UnlatchedIs
<1>5. page' = v
  OBVIOUS
<1> HIDE DEF v
<1>6. /\ PageOK(page') /\ page'.status = q.status
      /\ page'.latch = IF task[s].op = "reconnect" THEN FALSE ELSE page.latch
  BY <1>3, <1>4, <1>5
<1>7. QED
  BY <1>1, <1>2, <1>6, IdleIsHarmless, OffStep

LEMMA MicRefusedKeeps ==
  ASSUME IInv, NEW s \in Slot, MicRefused(s)
  PROVE  IInv'
<1>1. OffAir(page, Failed(page, FALSE)) /\ Failed(page, FALSE).status \in OffStatus
  BY FailedOff, PageIsTyped DEF OffStatus
<1>2. events' \in 0 .. MaxEvents
  BY EventCounts DEF MicRefused, IInv
<1>3. QED
  BY <1>1, <1>2, EndsOff DEF MicRefused, IInv

LEMMA FailKeeps ==
  ASSUME IInv, NEW s \in Slot, NEW ans, Fail(s, ans),
         UNCHANGED <<session, row, other, room>>, events' \in 0 .. MaxEvents
  PROVE  IInv'
<1> DEFINE q == IF ans = "auth" THEN LoggedOut(page) ELSE Failed(page, ans = "busy")
<1>1. OffAir(page, q) /\ q.status \in OffStatus
  <2>1. CASE ans = "auth"
    BY <2>1, LoggedOutOff, PageIsTyped DEF OffStatus
  <2>2. CASE ans # "auth"
    <3>1. (ans = "busy") \in BOOLEAN
      OBVIOUS
    <3>2. OffAir(page, Failed(page, ans = "busy")) /\ Failed(page, ans = "busy").status = "error"
      BY <3>1, FailedOff, PageIsTyped
    <3>3. QED
      BY <2>2, <3>2 DEF OffStatus
  <2>3. QED
    BY <2>1, <2>2
<1>2. page' = Unlatched(q, task[s])
  BY DEF Fail
<1> HIDE DEF q
<1>3. QED
  BY <1>1, <1>2, MicTyped, EndsOff DEF Fail

LEMMA TokenRefusedKeeps ==
  ASSUME IInv, NEW s \in Slot, TokenRefused(s)
  PROVE  IInv'
BY FailKeeps DEF TokenRefused, IInv, ServerTyped

LEMMA TokenLostKeeps ==
  ASSUME IInv, NEW s \in Slot, TokenLost(s)
  PROVE  IInv'
<1>1. events' \in 0 .. MaxEvents
  BY EventCounts DEF TokenLost, IInv
<1>2. QED
  BY <1>1, FailKeeps DEF TokenLost

LEMMA UndoneKeeps ==
  ASSUME IInv, NEW s \in Slot, Undone(s)
  PROVE  IInv'
BY FailKeeps DEF Undone, IInv, ServerTyped

LEMMA SilenceReportedKeeps ==
  ASSUME IInv, NEW s \in Slot, SilenceReported(s)
  PROVE  IInv'
<1>1. task[s].op \in {"stop", "end"}
  BY TaskTyped DEF SilenceReported, TaskOK
<1>2. OffAir(page, page') /\ page'.status \in OffStatus
  BY StoppedOff, PageIsTyped DEF SilenceReported, OffStatus
<1>3. RowKeeps(row') /\ RoomKeeps(room')
  <2>1. CASE task[s].op = "stop" /\ room[task[s].old] \in {"up", "shaky", "down"}
    <3>1. room' = [room EXCEPT ![task[s].old] = "left"] /\ ServeStop(task[s].old)
      BY <2>1 DEF SilenceReported
    <3>2. QED
      BY <2>1, <3>1, RoomSet, StopKeeps DEF IInv
  <2>2. CASE ~(task[s].op = "stop" /\ room[task[s].old] \in {"up", "shaky", "down"})
    <3>1. UNCHANGED <<room, row>>
      BY <2>2 DEF SilenceReported
    <3>2. QED
      BY <3>1, Typed DEF IInv
  <2>3. QED
    BY <2>1, <2>2
<1>4. \E t : StepsTo(s, t) /\ Harmless(task[s], t) /\ t.op # "reconnect"
  <2>1. CASE task[s].op = "end"
    <3>1. StepsTo(s, Idle)
      BY <2>1, DoneSteps, TaskTyped DEF SilenceReported
    <3>2. QED
      BY <3>1, IdleIsHarmless
  <2>2. CASE task[s].op = "stop"
    <3>1. task' = GraphReplaced([task EXCEPT ![s].at = "freed"])
      BY <2>2 DEF SilenceReported
    <3>2. QED
      BY <2>2, <3>1, NextWait
  <2>3. QED
    BY <1>1, <2>1, <2>2
<1>5. /\ UNCHANGED <<session, other>> /\ events' \in 0 .. MaxEvents
      /\ mic' \in MicRow /\ beat' \in {beat, NoBeat}
  BY MicTyped DEF SilenceReported, IInv, ServerTyped
<1>6. QED
  BY <1>1, <1>2, <1>3, <1>4, <1>5, OffStep DEF OffAir

LEMMA StopDoneKeeps ==
  ASSUME IInv, NEW s \in Slot, StopDone(s)
  PROVE  IInv'
<1>1. task[s].op = "stop" /\ ~Asking(task[s])
  BY DEF StopDone, Asking
<1>2. CASE task[s].out
  <2>1. OffAir(page, LoggedOut(page)) /\ LoggedOut(page).status \in OffStatus
    BY LoggedOutOff, PageIsTyped DEF OffStatus
  <2>2. page' = Unlatched(LoggedOut(page), task[s])
    BY <1>1, <1>2 DEF StopDone, Unlatched
  <2>3. QED
    BY <1>2, <2>1, <2>2, MicTyped, EndsOff DEF StopDone, IInv, ServerTyped
<1>3. CASE ~task[s].out
  BY <1>1, <1>3, EndsUnseen DEF StopDone, IInv
<1>4. QED
  BY <1>2, <1>3

LEMMA SignedOutKeeps ==
  ASSUME IInv, NEW s \in Slot, SignedOut(s)
  PROVE  IInv'
<1>1. task[s].op = "signout" /\ ~Asking(task[s])
  BY DEF SignedOut, Asking
<1>2. CASE task[s].at = "live"
  <2>1. /\ Ending(s, task[s].old, "stop", TRUE)
        /\ task[s].old \in MaybeRes /\ (task[s].old # 0 => room[task[s].old] # "none")
    BY <1>2, TaskTyped DEF SignedOut, TaskRow, TaskOK
  <2>2. PICK t \in TaskRow : /\ StepsTo(s, t) /\ Harmless(task[s], t)
                             /\ t.op = "stop" /\ t.at = "silence"
    BY <2>1, EndingSteps
  <2>3. RowKeeps(row')
    BY Typed DEF SignedOut, IInv
  <2>4. QED
    BY <1>1, <1>2, <2>2, <2>3, UnseenStep DEF SignedOut, Asking, IInv, ServerTyped
<1>3. CASE task[s].at # "live"
  <2> DEFINE p == IF task[s].at \in {"connecting", "reconnecting"} THEN Stopped(page) ELSE page
  <2>1. PageOK(p) /\ p.latch = page.latch
    BY StoppedOff, PageIsTyped DEF OffAir
  <2>2. page' = LoggedOut(p)
    BY <1>3 DEF SignedOut
  <2> HIDE DEF p
  <2>3. OffAir(page, page') /\ page'.status \in OffStatus
    BY <2>1, <2>2, LoggedOutOff DEF OffAir, OffStatus
  <2>4. page' = Unlatched(page', task[s])
    BY <1>1 DEF Unlatched
  <2>5. QED
    BY <1>3, <2>3, <2>4, MicTyped, EndsOff DEF SignedOut, IInv, ServerTyped
<1>4. QED
  BY <1>2, <1>3

LEMMA EndedShows ==
  ASSUME NEW p, PageOK(p)
  PROVE  LET q == [p EXCEPT !.ended = TRUE]
         IN  ShowsSame(p, q) /\ q.timer = p.timer /\ q.exhausted = p.exhausted
<1> DEFINE q == [p EXCEPT !.ended = TRUE]
<1>1. q \in PageRow
  BY DEF PageOK, PageTyped, PageRow
<1>2. /\ q.latch = p.latch /\ q.status = p.status /\ q.res = p.res /\ q.live = p.live
      /\ q.timer = p.timer /\ q.exhausted = p.exhausted /\ q.attempts = p.attempts
  BY DEF PageOK, PageTyped, PageRow
<1> HIDE DEF q
<1>3. ShowsSame(p, q) /\ q.timer = p.timer /\ q.exhausted = p.exhausted
  BY <1>1, <1>2 DEF ShowsSame, PageOK, PageTyped
<1>4. QED
  BY <1>3 DEF q

LEMMA BeatEndsKeeps ==
  ASSUME IInv, NEW s \in Slot, BeatEnds(s)
  PROVE  IInv'
<1> DEFINE t == [Idle EXCEPT !.op = "end", !.at = "silence", !.old = beat.res]
           p == [page EXCEPT !.ended = TRUE]
<1>1. task[s].op = "idle" /\ beat' = NoBeat
  BY DEF BeatEnds, Free
<1>2. UNCHANGED <<session, row, other, room, events>>
  BY DEF BeatEnds
<1>3. RowKeeps(row') /\ RoomKeeps(room')
  BY <1>2, Typed DEF IInv
<1>4. CASE page.live # beat.res
  <2>1. UNCHANGED <<page, mic, task>>
    BY <1>4 DEF BeatEnds
  <2>2. SameAir
    BY <1>2, <2>1 DEF SameAir, Noticed
  <2>3. QED
    BY <1>1, <1>2, <2>1, <2>2, PageStep DEF IInv, ServerTyped
<1>5. CASE page.live = beat.res
  <2>1. beat.res \in MaybeRes /\ (beat.res # 0 => room[beat.res] # "none")
    BY DEF IInv, RoomsOK, BeatRow
  <2>2. t \in TaskRow
    BY <2>1, Constants DEF Idle, TaskRow
  <2>3. t.op = "end" /\ t.at = "silence" /\ t.old = beat.res
    BY DEF Idle
  <2>4. Harmless(task[s], t)
    BY <2>1, <2>3 DEF Harmless, HasToken
  <2>5. ShowsSame(page, p) /\ p.timer = page.timer /\ p.exhausted = page.exhausted
    BY EndedShows, PageIsTyped
  <2>6. CASE beat.ans = "auth"
    <3>1. page' = LoggedOut(p) /\ mic' = MicStopped /\ task' = GraphReplaced([task EXCEPT ![s] = t])
      BY <1>5, <2>6 DEF BeatEnds, Start
    <3> HIDE DEF t, p
    <3>2. StepsTo(s, t)
      BY <2>2, <3>1, TaskSet, TaskTyped
    <3>3. PageOK(page') /\ page'.latch = page.latch /\ page'.status \in OffStatus
      BY <2>5, <3>1, LoggedOutOff DEF ShowsSame, OffAir, OffStatus
    <3>4. events' \in 0 .. MaxEvents
      BY <1>2 DEF IInv, ServerTyped
    <3>5. QED
      BY <1>1, <1>2, <1>3, <2>3, <2>4, <3>1, <3>2, <3>3, <3>4, MicTyped, OffStep
  <2>7. CASE beat.ans # "auth"
    <3>1. page' = p /\ mic' = mic /\ task' = [task EXCEPT ![s] = t]
      BY <1>5, <2>7 DEF BeatEnds
    <3> HIDE DEF t, p
    <3>2. StepsTo(s, t)
      BY <2>2, <3>1, TaskSet, TaskTyped
    <3>3. SameAir
      BY <1>2, <2>5, <3>1 DEF SameAir, Noticed, ShowsSame
    <3>4. BusyHasHandler' /\ AirOK'
      BY <1>1, <2>3, <3>2, <3>3, OneShownSame DEF IInv, Asking
    <3>5. Latched'
      BY <1>1, <2>3, <2>5, <3>1, <3>2, OneLatchStays DEF IInv, ShowsSame
    <3>6. PageOK(page')
      BY <2>5, <3>1 DEF ShowsSame
    <3>7. QED
      BY <1>1, <1>2, <1>3, <2>4, <3>1, <3>2, <3>4, <3>5, <3>6, HandlerStep DEF IInv, ServerTyped
  <2>8. QED
    BY <2>6, <2>7
<1>6. QED
  BY <1>4, <1>5

-----------------------------------------------------------------------------
(* Tokens *)

LEMMA LeastOf ==
  ASSUME NEW S, S \subseteq Nat, S # {}
  PROVE  \E x \in S : \A y \in S : x <= y
<1> DEFINE R == OpToRel(<, Nat)
<1>1. IsWellFoundedOn(R, Nat)
  BY NatLessThanWellFounded
<1>2. \A m, n \in Nat : m < n => <<m, n>> \in R
  BY DEF OpToRel
<1> HIDE DEF R
<1>3. PICK x \in S : \A y \in S : ~(<<y, x>> \in R)
  BY <1>1, WFMin
<1>4. ASSUME NEW y \in S
      PROVE  x <= y
  <2>1. x \in Nat /\ y \in Nat
    BY <1>4
  <2>2. ~(y < x)
    BY <1>2, <1>3, <1>4, <2>1
  <2>3. QED
    BY <2>1, <2>2
<1>5. QED
  BY <1>4

LEMMA GraphAlike ==
  ASSUME task \in [Slot -> TaskRow], NEW tk \in {task, GraphReplaced(task)}
  PROVE  tk \in [Slot -> TaskRow] /\ \A x \in Slot : Alike(task[x], tk[x])
<1>1. ASSUME NEW u \in TaskRow
      PROVE  Alike(u, u) /\ Alike(u, [u EXCEPT !.same = FALSE])
  BY <1>1 DEF Alike, TaskRow
<1>2. CASE tk = task
  BY <1>1, <1>2
<1>3. CASE tk = GraphReplaced(task)
  <2>1. tk = [x \in Slot |-> [task[x] EXCEPT !.same = FALSE]]
    BY <1>3 DEF GraphReplaced
  <2>2. \A x \in Slot : tk[x] = [task[x] EXCEPT !.same = FALSE] /\ Alike(task[x], tk[x])
    BY <1>1, <2>1
  <2>3. QED
    BY <2>1, <2>2 DEF Alike
<1>4. QED
  BY <1>2, <1>3

(* A request for a token: it is refused, or makes a reservation that has no *)
(* room and that no other handler was given.                                *)
LEMMA SendTokenSteps ==
  ASSUME IInv, NEW s \in Slot, NEW tk \in {task, GraphReplaced(task)}, Asking(task[s]),
         SendToken(s, tk), UNCHANGED room
  PROVE  /\ \E u \in TaskRow : /\ StepsTo(s, u) /\ u.op = task[s].op /\ u.at = "token"
         /\ TasksOK' /\ RowKeeps(row') /\ other' \in BOOLEAN
<1> DEFINE t == tk[s]
           r == CHOOSE x \in Unused : \A y \in Unused : x <= y
<1>0. tk \in [Slot -> TaskRow] /\ \A x \in Slot : Alike(task[x], tk[x])
  BY GraphAlike, TaskTyped
<1> DEFINE Asked(new, ans) ==
             task' = [tk EXCEPT ![s] = [t EXCEPT !.at = "token", !.new = new, !.ans = ans]]
<1>1. ASSUME NEW new \in MaybeRes, NEW ans \in {"ok", "auth", "busy", "error"}, Asked(new, ans)
      PROVE  \E u \in TaskRow : /\ StepsTo(s, u) /\ u.op = task[s].op /\ u.at = "token"
                                /\ u.old = task[s].old /\ u.new = new /\ u.ans = ans
  <2>1. t \in TaskRow /\ t.op = task[s].op /\ t.old = task[s].old
    BY <1>0 DEF Alike
  <2> DEFINE u == [t EXCEPT !.at = "token", !.new = new, !.ans = ans]
  <2>2. task' = [tk EXCEPT ![s] = u]
    BY <1>1
  <2> HIDE DEF t
  <2>3. u \in TaskRow
    BY <1>1, <2>1 DEF TaskRow
  <2>4. u.op = t.op /\ u.at = "token" /\ u.old = t.old /\ u.new = new /\ u.ans = ans
    BY <2>1 DEF TaskRow
  <2> HIDE DEF u
  <2>5. Alike(u, u)
    BY <2>3 DEF Alike
  <2>6. StepsTo(s, u)
    BY <1>0, <2>2, <2>3, <2>5 DEF StepsTo
  <2>7. QED
    BY <2>1, <2>3, <2>4, <2>6
<1>2. RowKeeps(row) /\ RoomKeeps(room')
  BY Typed DEF IInv
<1>3. TaskOK(task[s]) /\ Asking(task[s])
  BY TaskTyped
<1>4. ASSUME NEW new \in MaybeRes, NEW ans \in {"auth", "busy", "error"},
             UNCHANGED <<row, other>>, Asked(new, ans)
      PROVE  /\ \E u \in TaskRow : /\ StepsTo(s, u) /\ u.op = task[s].op /\ u.at = "token"
             /\ TasksOK' /\ RowKeeps(row') /\ other' \in BOOLEAN
  <2> HIDE DEF Asked, t
  <2>0. ans \in {"ok", "auth", "busy", "error"}
    BY <1>4
  <2>1. PICK u \in TaskRow : /\ StepsTo(s, u) /\ u.op = task[s].op /\ u.at = "token"
                             /\ u.old = task[s].old /\ u.new = new /\ u.ans = ans
    BY <1>1, <1>4, <2>0
  <2>2. Harmless(task[s], u)
    BY <1>3, <1>4, <2>1 DEF Harmless, HasToken, Asking, TaskOK
  <2>3. RowKeeps(row') /\ other' \in BOOLEAN
    BY <1>2, <1>4 DEF IInv, ServerTyped
  <2>4. TasksOK'
    BY <1>2, <2>1, <2>2, <2>3, OneTaskStays DEF IInv
  <2>5. QED
    BY <2>1, <2>3, <2>4
<1>5. CASE Refusal(t.reclaim) # "none"
  <2>1. Refusal(t.reclaim) \in {"auth", "busy"}
    BY <1>5 DEF Refusal
  <2>2. /\ UNCHANGED <<row, other>>
        /\ Asked(0, Refusal(t.reclaim))
    BY <1>5 DEF SendToken
  <2> HIDE DEF Asked
  <2>3. QED
    BY <1>4, <2>1, <2>2, Constants
<1>6. CASE Refusal(t.reclaim) = "none" /\ Unused = {}
  <2>1. /\ UNCHANGED <<row, other>>
        /\ Asked(0, "error")
    BY <1>6 DEF SendToken
  <2> HIDE DEF Asked
  <2>2. QED
    BY <1>4, <2>1, Constants
<1>7. CASE Refusal(t.reclaim) = "none" /\ Unused # {}
  <2>1. /\ row' = [Closed(row, Open(row)) EXCEPT ![r] = "reserved"] /\ other' = FALSE
        /\ task' = [tk EXCEPT ![s] = [t EXCEPT !.at = "token", !.new = r, !.ans = "ok"]]
    BY <1>7 DEF SendToken
  <2>2. Unused \subseteq Nat
    BY Constants DEF Unused, Reservation
  <2>3. r \in Unused
    BY <1>7, <2>2, LeastOf
  <2> HIDE DEF r
  <2>4. r \in Reservation /\ r \in MaybeRes /\ row[r] = "none"
    BY <2>3, Constants DEF Unused
  <2>5. room[r] = "none" /\ room'[r] = "none"
    BY <2>4 DEF IInv, RoomsOK
  <2>6. RowKeeps(Closed(row, Open(row)))
    BY ClosedKeeps DEF IInv
  <2>7. RowKeeps(row') /\ row'[r] # "none"
    BY <2>1, <2>4, <2>6 DEF RowKeeps
  <2>8. PICK u \in TaskRow : /\ StepsTo(s, u) /\ u.op = task[s].op /\ u.at = "token"
                             /\ u.old = task[s].old /\ u.new = r /\ u.ans = "ok"
    BY <1>1, <2>1, <2>4
  <2>9. /\ task'[s].op = task[s].op /\ task'[s].at = "token" /\ task'[s].old = task[s].old
        /\ task'[s].new = r /\ HasToken(task'[s])
    BY <2>8 DEF StepsTo, Alike, HasToken
  <2>10. \A x \in Slot \ {s} : TaskOK(task[x]) /\ Alike(task[x], task'[x])
    BY <2>8, TaskTyped DEF StepsTo
  <2>11. \A x \in Slot \ {s} : HasToken(task'[x]) => HasToken(task[x]) /\ task'[x].new = task[x].new
    BY <2>10 DEF Alike, HasToken
  <2>12. \A x \in Slot \ {s} : HasToken(task'[x]) => task'[x].new # r
    BY <2>4, <2>10, <2>11 DEF TaskOK
  <2>13. ASSUME NEW x \in Slot
         PROVE  TaskOK(task[x])'
    <3>1. CASE x = s
      BY <1>3, <2>4, <2>5, <2>7, <2>9, <3>1 DEF TaskOK, HasToken, Asking
    <3>2. CASE x # s
      <4>1. TaskOK(task[x]) /\ Alike(task[x], task'[x])
        BY <2>10, <2>13, <3>2
      <4>2. HasToken(task'[x]) => row'[task[x].new] # "none"
        BY <2>7, <4>1 DEF TaskOK, Alike, HasToken, RowKeeps
      <4>3. QED
        BY <4>1, <4>2 DEF TaskOK, Alike, HasToken, Asking
    <3>3. QED
      BY <3>1, <3>2
  <2>14. ASSUME NEW x \in Slot, NEW y \in Slot, HasToken(task'[x]), HasToken(task'[y]),
                task'[x].new = task'[y].new
         PROVE  x = y
    BY <2>9, <2>11, <2>12, <2>14 DEF IInv, TasksOK
  <2>15. task' \in [Slot -> TaskRow]
    BY <2>8 DEF StepsTo
  <2>16. TasksOK'
    BY <2>13, <2>14, <2>15 DEF TasksOK, HasToken
  <2>17. QED
    BY <2>1, <2>7, <2>8, <2>16
<1>8. QED
  BY <1>5, <1>6, <1>7

(* The handler in slot s has sent a request for a token.                    *)
LEMMA TokenStep ==
  ASSUME IInv, NEW s \in Slot, NEW tk \in {task, GraphReplaced(task)}, Asking(task[s]),
         SendToken(s, tk), UNCHANGED <<session, room, page, beat, events>>, mic' \in MicRow
  PROVE  IInv'
<1>1. /\ \E u \in TaskRow : /\ StepsTo(s, u) /\ u.op = task[s].op /\ u.at = "token"
      /\ TasksOK' /\ RowKeeps(row') /\ other' \in BOOLEAN
  BY SendTokenSteps
<1>2. PICK u \in TaskRow : /\ StepsTo(s, u) /\ u.op = task[s].op /\ u.at = "token"
  BY <1>1
<1>3. RoomKeeps(room')
  BY Typed DEF IInv
<1>4. ServerTyped'
  BY <1>1, <1>3, ServerStays DEF IInv, ServerTyped
<1>5. RoomsOK'
  BY <1>1, <1>3, BeatStays, RoomsStay DEF IInv
<1>6. Latched'
  BY <1>2, OneLatchStays DEF IInv
<1>7. SameAir
  BY DEF SameAir, Noticed
<1>8. BusyHasHandler' /\ AirOK'
  BY <1>2, <1>7, OneShownSame DEF IInv, Asking
<1>9. QED
  BY <1>1, <1>4, <1>5, <1>6, <1>8 DEF IInv

LEMMA OldFreedKeeps ==
  ASSUME IInv, NEW s \in Slot, OldFreed(s)
  PROVE  IInv'
BY TokenStep DEF OldFreed, Asking, IInv

LEMMA MicGrantedKeeps ==
  ASSUME IInv, NEW s \in Slot, MicGranted(s)
  PROVE  IInv'
<1>1. Asking(task[s]) /\ mic' \in MicRow
  BY MicTyped DEF MicGranted, Asking
<1>2. CASE task[s].old = 0
  BY <1>1, <1>2, TokenStep DEF MicGranted
<1>3. CASE task[s].old # 0
  <2> DEFINE old == task[s].old
  <2>1. /\ room' = [room EXCEPT ![old] = "left"] /\ ServeStop(old)
        /\ task' = GraphReplaced([task EXCEPT ![s].at = "stop"])
        /\ UNCHANGED <<session, other, page, beat, events>>
    BY <1>3 DEF MicGranted
  <2>2. room[old] # "none" /\ task[s].at = "mic"
    BY <1>3, TaskTyped DEF TaskOK, MicGranted
  <2>3. RoomKeeps(room') /\ RowKeeps(row')
    BY <2>1, <2>2, RoomSet, StopKeeps DEF IInv
  <2>4. PICK t \in TaskRow : /\ StepsTo(s, t) /\ Harmless(task[s], t)
                             /\ t.op = task[s].op /\ t.at = "stop"
    BY <2>1, NextWait
  <2>5. SameAir
    <3>1. page.status = "live" => page.res # old
      BY <1>3, <2>2 DEF IInv, AirOK, LeavesOther
    <3>2. page.status = "live" => room'[page.res] = room[page.res]
      BY <2>1, <3>1, PageIsTyped, Constants DEF IInv, ServerTyped, PageOK, PageRow
    <3>3. QED
      BY <2>1, <3>2 DEF SameAir, Noticed
  <2>6. Latched'
    BY <2>1, <2>4, OneLatchStays DEF IInv
  <2>7. BusyHasHandler' /\ AirOK'
    BY <2>4, <2>5, OneShownSame DEF IInv, Asking
  <2>8. PageOK(page')
    BY <2>1 DEF IInv
  <2>9. QED
    BY <1>1, <2>1, <2>3, <2>4, <2>6, <2>7, <2>8, HandlerStep DEF IInv, ServerTyped
<1>4. QED
  BY <1>2, <1>3

-----------------------------------------------------------------------------
(* Going on the air *)

LEMMA JoinedKeeps ==
  ASSUME IInv, NEW s \in Slot, Joined(s)
  PROVE  IInv'
<1> DEFINE r == task[s].new
           v == Unlatched(Live(page, r), task[s])
<1>1. /\ HasToken(task[s]) /\ room' = [room EXCEPT ![r] = "up"] /\ page' = v
      /\ task' = Done(s) /\ beat' = NoBeat /\ UNCHANGED <<session, row, other, mic, events>>
  BY DEF Joined, HasToken
<1>2. r \in Reservation /\ row[r] # "none" /\ room[r] = "none"
  BY <1>1, TaskTyped DEF TaskOK
<1>3. /\ PageOK(Live(page, r)) /\ PageTyped(Live(page, r)) /\ Live(page, r).status = "live"
      /\ Live(page, r).res = r /\ Live(page, r).latch = page.latch
  BY <1>2, LiveOn, PageIsTyped DEF PageOK
<1>4. /\ PageOK(v) /\ v.status = "live" /\ v.res = r
      /\ v.latch = IF task[s].op = "reconnect" THEN FALSE ELSE page.latch
  BY <1>3, UnlatchedIs
<1> HIDE DEF v
<1>5. StepsTo(s, Idle)
  BY <1>1, DoneSteps, TaskTyped
<1>6. /\ room' \in [Reservation -> {"none", "up", "shaky", "down", "left"}]
      /\ room'[r] = "up"
      /\ \A x \in Reservation \ {r} : room'[x] = room[x]
  BY <1>1, <1>2 DEF IInv, ServerTyped
<1>7. \A x \in Slot \ {s} : TaskOK(task[x]) /\ Alike(task[x], task'[x])
  BY <1>5, TaskTyped DEF StepsTo
<1>8. ~HasToken(task'[s]) /\ task'[s].old = 0 /\ task'[s].at = "none"
  BY <1>5 DEF StepsTo, Alike, Idle, HasToken
<1>9. ASSUME NEW x \in Slot \ {s}, HasToken(task'[x])
      PROVE  HasToken(task[x]) /\ task'[x].new = task[x].new /\ task[x].new # r
  BY <1>1, <1>7, <1>9 DEF Alike, HasToken, IInv, TasksOK
<1>10. ASSUME NEW x \in Slot \ {s}, task'[x].old # 0
       PROVE  task[x].old = task'[x].old /\ task[x].old \in Reservation /\ task[x].old # r
  <2>1. task[x].old = task'[x].old /\ task[x].old \in MaybeRes /\ room[task[x].old] # "none"
    BY <1>7, <1>10, TaskTyped DEF Alike, TaskOK, TaskRow
  <2>2. QED
    BY <1>2, <1>10, <2>1, Constants
<1>11. TasksOK'
  <2>1. ASSUME NEW x \in Slot
        PROVE  TaskOK(task[x])'
    <3>1. CASE x = s
      BY <1>8, <3>1 DEF TaskOK, HasToken
    <3>2. CASE x # s
      <4>1. TaskOK(task[x]) /\ Alike(task[x], task'[x])
        BY <1>7, <2>1, <3>2
      <4>2. task'[x].old # 0 => room'[task'[x].old] # "none"
        BY <1>6, <1>10, <2>1, <3>2, <4>1 DEF TaskOK
      <4>3. HasToken(task'[x]) => room'[task'[x].new] = "none"
        BY <1>6, <1>9, <2>1, <3>2, <4>1 DEF TaskOK
      <4>4. QED
        BY <1>1, <4>1, <4>2, <4>3 DEF TaskOK, Alike, HasToken, Asking
    <3>3. QED
      BY <3>1, <3>2
  <2>2. ASSUME NEW x \in Slot, NEW y \in Slot, HasToken(task'[x]), HasToken(task'[y]),
               task'[x].new = task'[y].new
        PROVE  x = y
    BY <1>8, <1>9, <2>2 DEF IInv, TasksOK
  <2>3. QED
    BY <1>5, <2>1, <2>2 DEF TasksOK, HasToken, StepsTo
<1>12. RoomsOK'
  BY <1>1, <1>2, <1>6, NoBeatTyped DEF IInv, RoomsOK
<1>13. Latched'
  BY <1>1, <1>4, <1>5, LatchFalls DEF IInv, Idle
<1>14. BusyHasHandler'
  BY <1>1, <1>4 DEF BusyHasHandler
<1>15. LiveIsJoined' /\ LostIsNoticed'
  BY <1>1, <1>4, <1>6 DEF LiveIsJoined, LostIsNoticed
<1>16. LeavesOther'
  BY <1>1, <1>4, <1>8, <1>10 DEF LeavesOther
<1>17. ServerTyped' /\ mic' \in MicRow /\ PageOK(page')
  BY <1>1, <1>4, <1>6 DEF IInv, ServerTyped
<1>18. QED
  BY <1>11, <1>12, <1>13, <1>14, <1>15, <1>16, <1>17 DEF IInv, AirOK

-----------------------------------------------------------------------------
(* Every step *)

LEMMA InitKeeps == Init => IInv
<1> SUFFICES ASSUME Init
             PROVE  IInv
  OBVIOUS
<1>1. /\ page = Opened /\ mic = NoMic /\ beat = NoBeat /\ task = [s \in Slot |-> Idle]
      /\ room = [r \in Reservation |-> "none"] /\ row = [r \in Reservation |-> "none"]
      /\ events = 0 /\ other = FALSE /\ session \in BOOLEAN
  BY DEF Init
<1>2. ServerTyped
  <2>1. 0 \in 0 .. MaxEvents
    BY Constants
  <2>2. other \in BOOLEAN
    BY <1>1
  <2>3. row \in [Reservation -> {"none", "reserved", "published", "closed"}]
    BY <1>1
  <2>4. room \in [Reservation -> {"none", "up", "shaky", "down", "left"}]
    BY <1>1
  <2>5. QED
    BY <1>1, <2>1, <2>2, <2>3, <2>4 DEF ServerTyped
<1>3. mic \in MicRow
  BY <1>1 DEF NoMic, MicRow
<1>4. Opened \in PageRow
  BY Constants DEF Opened, PageRow, Status
<1>5. PageOK(page) /\ page.status = "ready" /\ page.latch = FALSE
  BY <1>1, <1>4 DEF PageOK, PageTyped, Opened
<1>6. \A s \in Slot : task[s] = Idle
  BY <1>1
<1>7. Idle.op = "idle" /\ Idle.at = "none" /\ Idle.old = 0
  BY DEF Idle
<1>8. TasksOK
  BY <1>1, <1>6, <1>7, IdleTyped DEF TasksOK, TaskOK, HasToken
<1>9. RoomsOK
  BY <1>1, NoBeatTyped DEF RoomsOK
<1>10. Latched
  BY <1>5, <1>6, <1>7 DEF Latched, Reconnects
<1>11. BusyHasHandler /\ AirOK
  BY <1>5 DEF BusyHasHandler, AirOK, LiveIsJoined, LostIsNoticed, LeavesOther
<1>12. QED
  BY <1>2, <1>3, <1>5, <1>8, <1>9, <1>10, <1>11 DEF IInv

LEMMA StepKeeps == IInv /\ [Next]_vars => IInv'
<1> SUFFICES ASSUME IInv, [Next]_vars
             PROVE  IInv'
  OBVIOUS
<1>1. CASE UNCHANGED vars
  BY <1>1 DEF vars, IInv, ServerTyped, PageOK, PageTyped, TasksOK, TaskOK, HasToken, Asking,
              RoomsOK, Latched, Reconnects, BusyHasHandler, AirOK, LiveIsJoined, LostIsNoticed,
              LeavesOther
<1>2. CASE Load \/ Login \/ TimerFires \/ PressMute \/ Beats \/ OtherTakesOver
  BY <1>2, LoadKeeps, LoginKeeps, TimerFiresKeeps, PressMuteKeeps, BeatOkKeeps,
     CatchUpFailsKeeps, BeatFailsKeeps, OtherTakesOverKeeps DEF Beats
<1>3. CASE \E catchUp \in BOOLEAN, ans \in {"ok", "inactive", "auth", "error"} : SendBeat(catchUp, ans)
  BY <1>3, SendBeatKeeps
<1>4. ASSUME NEW s \in Slot, Handler(s)
      PROVE  IInv'
  BY <1>4, MicGrantedKeeps, OldFreedKeeps, TokenRefusedKeeps, JoinedKeeps, UndoneKeeps,
     SilenceReportedKeeps, StopDoneKeeps, SignedOutKeeps, SourceGrantedKeeps, BeatEndsKeeps
     DEF Handler
<1>5. ASSUME NEW s \in Slot, Taps(s)
      PROVE  IInv'
  BY <1>5, GoLiveKeeps, PressReconnectKeeps, PressStopKeeps, PressSignOutKeeps, ChangeSourceKeeps
     DEF Taps
<1>6. ASSUME NEW s \in Slot, Faults(s)
      PROVE  IInv'
  BY <1>6, MicRefusedKeeps, TokenLostKeeps, JoinFailsKeeps, SourceRefusedKeeps DEF Faults
<1>7. ASSUME NEW r \in Reservation, Outside(r)
      PROVE  IInv'
  BY <1>7, TransportWaversKeeps, TransportHealsKeeps, TransportLostKeeps, TrackPublishedKeeps,
     RowClosesKeeps DEF Outside
<1>8. QED
  BY <1>1, <1>2, <1>3, <1>4, <1>5, <1>6, <1>7 DEF Next

LEMMA Inductive == Spec => []IInv
<1>1. QED
  BY InitKeeps, StepKeeps, PTL DEF Spec

(* The page's record, the rooms and the reservations stay within their      *)
(* types, and the recovery makes at most recoveryMaxAttempts attempts in a  *)
(* row, for any number of handlers that overlap.                            *)
THEOREM TypeCorrect == Spec => []TypeOK
<1>1. IInv => TypeOK
  BY DEF IInv, ServerTyped, PageOK, PageTyped, PageRow, Status, MaybeRes, MicRow, TypeOK
<1>2. QED
  BY <1>1, Inductive, PTL

(* What the translator is shown is true, whatever handlers overlap: a page  *)
(* that connects or reconnects has a handler that will end it, the latch    *)
(* stands for the one reconnect there is, a page on the air is so through a *)
(* room it has joined and not left, and a lost room is recovered or the     *)
(* translator is asked to.                                                  *)
THEOREM ScreenIsTrue == Spec => []ScreenTellsTruth
<1>1. IInv => LatchIsReconnect
  <2> SUFFICES ASSUME IInv
               PROVE  LatchIsReconnect
    OBVIOUS
  <2> DEFINE S == {s \in Slot : task[s].op = "reconnect"}
  <2>1. page.latch \in BOOLEAN
    BY PageIsTyped DEF PageRow
  <2>2. CASE page.latch
    <3>1. PICK s \in Slot : task[s].op = "reconnect"
      BY <2>2 DEF IInv, Latched, Reconnects
    <3>2. S = {s}
      BY <3>1 DEF IInv, Latched, Reconnects
    <3>3. Cardinality(S) = 1
      BY <3>2, FS_Singleton
    <3>4. QED
      BY <2>2, <3>3 DEF LatchIsReconnect
  <2>3. CASE ~page.latch
    <3>1. S = {}
      BY <2>3 DEF IInv, Latched, Reconnects
    <3>2. Cardinality(S) = 0
      BY <3>1, FS_EmptySet
    <3>3. QED
      BY <2>3, <3>2 DEF LatchIsReconnect
  <2>4. QED
    BY <2>1, <2>2, <2>3
<1>2. IInv => ScreenTellsTruth
  BY <1>1 DEF IInv, AirOK, ScreenTellsTruth
<1>3. QED
  BY <1>2, Inductive, PTL

================================================================================
