------------------------ MODULE ListenerPage_proofs ------------------------
(***************************************************************************)
(* Theorems about the table of listener connections, for any calls in any  *)
(* order and every number of streams and connections; and about the page,  *)
(* which uses the table only as TableSpec allows, so that what is proved of *)
(* the table holds of it, and about the latch of its reconnects.           *)
(***************************************************************************)
EXTENDS ListenerPage, TLAPS

-----------------------------------------------------------------------------
(* The table                                                               *)

(* The conjunction of the types and of OneSuccessor is inductive: a row     *)
(* that is still open has no successor of either kind, and a closed one has *)
(* successors only of the kind it was closed for, which the unique index    *)
(* limits to one.                                                          *)
TableInv == TableOK /\ OneSuccessor

-----------------------------------------------------------------------------
(* The statements *)

LEMMA DisconnectedType ==
  ASSUME NEW rw \in [Connection -> Row], NEW c \in Connection,
         NEW reason \in Replacement \cup {"left"}
  PROVE  Disconnected(rw, c, reason) \in [Connection -> Row]
<1>1. ASSUME NEW new \in Row, new.status \in Status
      PROVE  [new EXCEPT !.status = "disconnected", !.reason = reason] \in Row
  BY DEF Row, Status, Replacement
<1>2. rw[c] \in Row /\ rw[c].status \in Status
  BY DEF Row
<1> QED  BY <1>1, <1>2 DEF Disconnected

LEMMA InsertedType ==
  ASSUME NEW rw \in [Connection -> Row], NEW n \in Connection, NEW s \in Stream,
         NEW via \in Replacement \cup {"none"}, NEW of \in 0 .. MaxConnection
  PROVE  Inserted(rw, n, s, via, of) \in [Connection -> Row]
  BY DEF Inserted, NewRow, Row, Status, Replacement

(* One connection has at most one successor, as a statement about a table.  *)
Chained(rw) ==
  \A c, d \in Connection :
    rw[d].of = c =>
      /\ rw[c].status = "disconnected"
      /\ rw[c].reason = rw[d].via
      /\ \A e \in Connection : rw[e].of = c => e = d

(* Closing a row disturbs no link: a row with a successor is closed already. *)
LEMMA DisconnectedChained ==
  ASSUME NEW rw \in [Connection -> Row], Chained(rw), NEW c \in Connection,
         NEW reason \in Replacement \cup {"left"}
  PROVE  Chained(Disconnected(rw, c, reason))
<1>1. CASE rw[c].status \in {"none", "disconnected"}
  BY <1>1 DEF Disconnected
<1>2. CASE rw[c].status \notin {"none", "disconnected"}
  <2> DEFINE new == Disconnected(rw, c, reason)
  <2>1. \A d \in Connection : rw[d].of # c
    BY <1>2 DEF Chained
  <2>2. \A d \in Connection : new[d].of = rw[d].of /\ new[d].via = rw[d].via
    BY <1>2 DEF Disconnected, Row
  <2>3. \A d \in Connection : d # c => new[d] = rw[d]
    BY <1>2 DEF Disconnected
  <2> QED  BY <2>1, <2>2, <2>3 DEF Chained
<1> QED  BY <1>1, <1>2

(* A new row that is no successor.                                          *)
LEMMA RequestChained ==
  ASSUME NEW rw \in [Connection -> Row], Chained(rw), NEW s \in Stream,
         NEW n \in Connection, IsNext(rw, n)
  PROVE  Chained(Inserted(rw, n, s, "none", 0))
<1> DEFINE new == Inserted(rw, n, s, "none", 0)
<1>1. new[n].of = 0 /\ \A d \in Connection : d # n => new[d] = rw[d]
  BY DEF Inserted, NewRow
<1>2. \A d \in Connection : rw[d].of # n
  BY DEF IsNext, Chained
<1>3. 0 \notin Connection
  BY DEF Connection
<1> QED  BY <1>1, <1>2, <1>3 DEF Chained

(* A new row that succeeds c, which is closed for this reason and has no     *)
(* successor of this kind.                                                  *)
LEMMA SuccessorChained ==
  ASSUME NEW rw \in [Connection -> Row], Chained(rw), NEW s \in Stream,
         NEW n \in Connection, IsNext(rw, n),
         NEW c \in Connection, NEW via \in Replacement,
         rw[c].status = "disconnected", rw[c].reason = via, MayInsert(rw, c, via)
  PROVE  Chained(Inserted(rw, n, s, via, c))
<1> DEFINE new == Inserted(rw, n, s, via, c)
<1>1. new[n].of = c /\ new[n].via = via /\ \A d \in Connection : d # n => new[d] = rw[d]
  BY DEF Inserted, NewRow
<1>2. n # c /\ \A d \in Connection : rw[d].of # n
  BY DEF IsNext, Chained
<1>3. \A d \in Connection : rw[d].of # c
  BY DEF Chained, MayInsert, Successors
<1>4. \A d \in Connection : new[d].of = c => d = n
  BY <1>1, <1>3
<1>5. \A d \in Connection : new[d].of # n
  BY <1>1, <1>2
<1> QED  BY <1>1, <1>2, <1>4, <1>5 DEF Chained

(* What createReplacementConnection does to a table in which c is closed    *)
(* for the reason via.                                                      *)
LEMMA InsertSuccessorInv ==
  ASSUME NEW rw \in [Connection -> Row], Chained(rw),
         NEW c \in Connection, NEW via \in Replacement, NEW s \in Stream, NEW answer,
         rw[c].status = "disconnected", rw[c].reason = via,
         InsertSuccessor(rw, c, via, s, answer)
  PROVE  row' \in [Connection -> Row] /\ Chained(row')
<1>1. CASE /\ MayInsert(rw, c, via)
           /\ IsNext(rw, answer)
           /\ row' = Inserted(rw, answer, s, via, c)
  <2>1. answer \in Connection
    BY <1>1 DEF IsNext
  <2>2. c \in 0 .. MaxConnection
    BY MaxConnectionIsNatural DEF Connection
  <2> QED  BY <1>1, <2>1, <2>2, InsertedType, SuccessorChained
<1>2. CASE row' = rw
  BY <1>2
<1> QED  BY <1>1, <1>2 DEF InsertSuccessor

-----------------------------------------------------------------------------
(* The routes *)

LEMMA RequestInv ==
  ASSUME TableInv, NEW s \in Stream, NEW answer, RequestConnection(s, answer)
  PROVE  TableInv'
<1>1. Chained(row) /\ row \in [Connection -> Row]
  BY DEF TableInv, TableOK, OneSuccessor, Chained
<1>2. answer \in Connection /\ 0 \in 0 .. MaxConnection
  BY MaxConnectionIsNatural DEF RequestConnection, IsNext
<1>3. row' \in [Connection -> Row] /\ Chained(row')
  BY <1>1, <1>2, InsertedType, RequestChained DEF RequestConnection
<1> QED  BY <1>3 DEF TableInv, TableOK, OneSuccessor, Chained

LEMMA ReplaceInv ==
  ASSUME TableInv, NEW c \in Connection, NEW via \in Replacement, NEW s \in Stream,
         NEW answer, ReplaceConnection(c, via, s, answer)
  PROVE  TableInv'
<1>1. Chained(row) /\ row \in [Connection -> Row]
  BY DEF TableInv, TableOK, OneSuccessor, Chained
<1>2. CASE /\ row[c].status \in {"requested", "connected"}
           /\ InsertSuccessor(Disconnected(row, c, via), c, via, s, answer)
  <2> DEFINE closed == Disconnected(row, c, via)
  <2>1. closed \in [Connection -> Row] /\ Chained(closed)
    BY <1>1, DisconnectedType, DisconnectedChained
  <2>2. closed[c].status = "disconnected" /\ closed[c].reason = via
    BY <1>1, <1>2 DEF Disconnected, Row
  <2> HIDE DEF closed
  <2>3. row' \in [Connection -> Row] /\ Chained(row')
    BY <1>2, <2>1, <2>2, InsertSuccessorInv DEF closed
  <2> QED  BY <2>3 DEF TableInv, TableOK, OneSuccessor, Chained
<1>3. CASE /\ row[c].status = "disconnected"
           /\ CanRecover(row, c, via)
           /\ InsertSuccessor(row, c, via, s, answer)
  <2>1. row' \in [Connection -> Row] /\ Chained(row')
    BY <1>1, <1>3, InsertSuccessorInv DEF CanRecover
  <2> QED  BY <2>1 DEF TableInv, TableOK, OneSuccessor, Chained
<1>4. CASE UNCHANGED row
  BY <1>4 DEF TableInv, TableOK, OneSuccessor
<1> QED  BY <1>2, <1>3, <1>4 DEF ReplaceConnection

(* Closing a row, for leaving or for a replacement that is cut short.       *)
LEMMA CloseInv ==
  ASSUME TableInv, NEW c \in Connection, NEW reason \in Replacement \cup {"left"},
         row' = Disconnected(row, c, reason)
  PROVE  TableInv'
<1>1. Chained(row) /\ row \in [Connection -> Row]
  BY DEF TableInv, TableOK, OneSuccessor, Chained
<1>2. row' \in [Connection -> Row] /\ Chained(row')
  BY <1>1, DisconnectedType, DisconnectedChained
<1> QED  BY <1>2 DEF TableInv, TableOK, OneSuccessor, Chained

LEMMA ConnectInv ==
  ASSUME TableInv, NEW c \in Connection, MarkConnected(c)
  PROVE  TableInv'
<1>1. CASE MayConnect(row, c)
  <2>1. row' = [row EXCEPT ![c].status = "connected"] /\ row \in [Connection -> Row]
    BY <1>1 DEF MarkConnected, TableInv, TableOK
  <2>2. TableOK'
    BY <2>1 DEF TableOK, Row, Status
  <2>3. \A d \in Connection : row[d].of # c
    BY <1>1 DEF MayConnect, TableInv, OneSuccessor
  <2>4. \A d \in Connection : row'[d].of = row[d].of /\ row'[d].via = row[d].via
    BY <2>1 DEF Row
  <2>5. \A d \in Connection : d # c => row'[d] = row[d]
    BY <2>1
  <2>6. OneSuccessor'
    BY <2>3, <2>4, <2>5 DEF TableInv, OneSuccessor
  <2> QED  BY <2>2, <2>6 DEF TableInv
<1>2. CASE ~MayConnect(row, c)
  BY <1>2 DEF MarkConnected, TableInv, TableOK, OneSuccessor
<1> QED  BY <1>1, <1>2

-----------------------------------------------------------------------------
(* The table *)

LEMMA TableInitInv == TableInit => TableInv
<1> SUFFICES ASSUME TableInit PROVE TableInv
  OBVIOUS
<1>1. TableOK
  BY MaxConnectionIsNatural DEF TableInit, TableOK, NoRow, Row, Status
<1>2. \A d \in Connection : row[d].of \notin Connection
  BY DEF TableInit, NoRow, Connection
<1> QED  BY <1>1, <1>2 DEF TableInv, OneSuccessor

LEMMA TableStepInv == TableInv /\ [TableNext]_row => TableInv'
<1> SUFFICES ASSUME TableInv, [TableNext]_row PROVE TableInv'
  OBVIOUS
<1>1. CASE \E s \in Stream, answer \in Connection : RequestConnection(s, answer)
  BY <1>1, RequestInv
<1>2. CASE \E c \in Connection, via \in Replacement, s \in Stream,
             answer \in 0 .. MaxConnection : ReplaceConnection(c, via, s, answer)
  BY <1>2, ReplaceInv
<1>3. CASE \E c \in Connection, via \in Replacement : CloseWithoutSuccessor(c, via)
  BY <1>3, CloseInv DEF CloseWithoutSuccessor
<1>4. CASE \E c \in Connection : MarkConnected(c)
  BY <1>4, ConnectInv
<1>5. CASE \E c \in Connection : LeaveConnection(c)
  BY <1>5, CloseInv DEF LeaveConnection
<1>6. CASE UNCHANGED row
  BY <1>6 DEF TableInv, TableOK, OneSuccessor
<1> QED  BY <1>1, <1>2, <1>3, <1>4, <1>5, <1>6 DEF TableNext

(* Whatever the order of calls, the table keeps its types and gives a        *)
(* connection at most one successor (listener_connections).                 *)
THEOREM TableIsChained == TableSpec => [](TableOK /\ OneSuccessor)
<1>1. TableInv => TableOK /\ OneSuccessor
  BY DEF TableInv
<1> QED  BY <1>1, TableInitInv, TableStepInv, PTL DEF TableSpec

-----------------------------------------------------------------------------
(* Closed rows *)

(* A closed row of rw is the same in new.                                   *)
KeepsClosed(rw, new) ==
  \A c \in Connection : rw[c].status = "disconnected" => new[c] = rw[c]

LEMMA DisconnectedKeeps ==
  ASSUME NEW rw \in [Connection -> Row], NEW c \in Connection, NEW reason
  PROVE  KeepsClosed(rw, Disconnected(rw, c, reason))
  BY DEF KeepsClosed, Disconnected

LEMMA InsertedKeeps ==
  ASSUME NEW rw \in [Connection -> Row], NEW n, IsNext(rw, n),
         NEW s, NEW via, NEW of
  PROVE  KeepsClosed(rw, Inserted(rw, n, s, via, of))
  BY DEF KeepsClosed, Inserted, IsNext

LEMMA InsertSuccessorKeeps ==
  ASSUME NEW rw \in [Connection -> Row], NEW c, NEW via, NEW s, NEW answer,
         InsertSuccessor(rw, c, via, s, answer)
  PROVE  KeepsClosed(rw, row')
<1>1. CASE row' = rw
  BY <1>1 DEF KeepsClosed
<1>2. CASE IsNext(rw, answer) /\ row' = Inserted(rw, answer, s, via, c)
  BY <1>2, InsertedKeeps
<1> QED  BY <1>1, <1>2 DEF InsertSuccessor

LEMMA ReplaceKeeps ==
  ASSUME TableOK, NEW c \in Connection, NEW via \in Replacement, NEW s \in Stream,
         NEW answer, ReplaceConnection(c, via, s, answer)
  PROVE  KeepsClosed(row, row')
<1>1. CASE InsertSuccessor(Disconnected(row, c, via), c, via, s, answer)
  <2>1. Disconnected(row, c, via) \in [Connection -> Row]
    BY DisconnectedType DEF TableOK
  <2>2. KeepsClosed(Disconnected(row, c, via), row')
    BY <1>1, <2>1, InsertSuccessorKeeps
  <2>3. KeepsClosed(row, Disconnected(row, c, via))
    BY DisconnectedKeeps DEF TableOK
  <2> QED  BY <2>2, <2>3 DEF KeepsClosed
<1>2. CASE InsertSuccessor(row, c, via, s, answer)
  BY <1>2, InsertSuccessorKeeps DEF TableOK
<1>3. CASE UNCHANGED row
  BY <1>3 DEF KeepsClosed
<1> QED  BY <1>1, <1>2, <1>3 DEF ReplaceConnection

LEMMA StepKeeps == TableOK /\ [TableNext]_row => KeepsClosed(row, row')
<1> SUFFICES ASSUME TableOK, [TableNext]_row PROVE KeepsClosed(row, row')
  OBVIOUS
<1>1. CASE \E s \in Stream, answer \in Connection : RequestConnection(s, answer)
  BY <1>1, InsertedKeeps DEF RequestConnection, TableOK
<1>2. CASE \E c \in Connection, via \in Replacement, s \in Stream,
             answer \in 0 .. MaxConnection : ReplaceConnection(c, via, s, answer)
  BY <1>2, ReplaceKeeps
<1>3. CASE \E c \in Connection, via \in Replacement : CloseWithoutSuccessor(c, via)
  BY <1>3, DisconnectedKeeps DEF CloseWithoutSuccessor, TableOK
<1>4. CASE \E c \in Connection : MarkConnected(c)
  BY <1>4 DEF MarkConnected, MayConnect, KeepsClosed, TableOK
<1>5. CASE \E c \in Connection : LeaveConnection(c)
  BY <1>5, DisconnectedKeeps DEF LeaveConnection, TableOK
<1>6. CASE UNCHANGED row
  BY <1>6 DEF KeepsClosed
<1> QED  BY <1>1, <1>2, <1>3, <1>4, <1>5, <1>6 DEF TableNext

(* No call, in whatever order, changes a connection that is closed          *)
(* (applyConnectedUpdate, disconnectConnection).                            *)
THEOREM TableKeepsClosed == TableSpec => ClosedStaysClosed
<1>1. TableOK /\ [TableNext]_row =>
        [\A c \in Connection : row[c].status = "disconnected" => row'[c] = row[c]]_row
  BY StepKeeps DEF KeepsClosed
<1>2. TableInv => TableOK
  BY DEF TableInv
<1> QED  BY <1>1, <1>2, TableInitInv, TableStepInv, PTL DEF TableSpec, ClosedStaysClosed

-----------------------------------------------------------------------------
(* The page.  That a step of it is a step of the table needs that it names  *)
(* only streams and connections there are: this is what the parts of the   *)
(* invariant say.                                                          *)

(* A connection the page has been given: it has a stream for good.          *)
Known(c) == c \in Connection /\ row[c].stream \in Stream

PlaybackInv ==
  /\ playback \in PlaybackState
  /\ playback.status # "idle" => playback.stream \in Stream
  /\ IsConnected => Known(playback.conn)

RecoveryInv ==
  /\ seen \in MaybeConnection
  /\ timer \in Timer
  /\ timer # NoTimer => timer.stream \in Stream
  /\ attempts \in 0 .. MaxAttempts
  /\ recovering \in MaybeStream

TaskInv ==
  /\ task \in [Task -> TaskState]
  /\ \A t \in Task :
       /\ task[t].op # "none" => task[t].stream \in Stream
       /\ task[t].op = "leave" => Known(task[t].old)
       /\ task[t].phase # "asking" => task[t].op # "none"
       /\ task[t].phase \notin {"asking", "gate"} => Known(task[t].conn)

PostInv ==
  /\ post \in Post
  /\ post.kind # "none" => Known(post.conn)

LatchInv == latch \in BOOLEAN /\ loose \in BOOLEAN /\ LatchMeansReconnecting

AccessInv == access \in Access

PageInv == PlaybackInv /\ RecoveryInv /\ TaskInv /\ PostInv /\ LatchInv /\ AccessInv

IInv == TableInv /\ PageInv

-----------------------------------------------------------------------------
(* The table *)

(* What a connection's stream is, once it has one, does not get lost.       *)
LEMMA KnownStays ==
  ASSUME TableOK, [TableNext]_row, NEW c, Known(c)
  PROVE  Known(c)'
<1>1. \A rw \in [Connection -> Row], d \in Connection : \A reason :
        Disconnected(rw, d, reason)[c].stream = rw[c].stream
  BY DEF Disconnected, Known, Row
<1>2. \A rw \in [Connection -> Row], n \in Connection, s \in Stream : \A via, of :
        rw[c].stream \in Stream => Inserted(rw, n, s, via, of)[c].stream \in Stream
  BY DEF Inserted, NewRow, Known
<1>3. ASSUME NEW rw \in [Connection -> Row], rw[c].stream \in Stream,
             NEW d \in Connection, NEW via \in Replacement, NEW s \in Stream, NEW answer,
             InsertSuccessor(rw, d, via, s, answer)
      PROVE  row'[c].stream \in Stream
  BY <1>2, <1>3 DEF InsertSuccessor, IsNext
<1>4. row \in [Connection -> Row] /\ c \in Connection /\ row[c].stream \in Stream
  BY DEF TableOK, Known
<1>5. CASE \E s \in Stream, answer \in Connection : RequestConnection(s, answer)
  BY <1>2, <1>4, <1>5 DEF RequestConnection, Known
<1>6. ASSUME NEW d \in Connection, NEW via \in Replacement, NEW s \in Stream,
             NEW answer \in 0 .. MaxConnection, ReplaceConnection(d, via, s, answer)
      PROVE  Known(c)'
  <2>1. CASE InsertSuccessor(Disconnected(row, d, via), d, via, s, answer)
    <3> DEFINE closed == Disconnected(row, d, via)
    <3>1. closed \in [Connection -> Row] /\ closed[c].stream \in Stream
      BY <1>1, <1>4, DisconnectedType
    <3> HIDE DEF closed
    <3> QED  BY <1>3, <1>4, <2>1, <3>1 DEF closed, Known
  <2>2. CASE InsertSuccessor(row, d, via, s, answer)
    BY <1>3, <1>4, <2>2 DEF Known
  <2>3. CASE UNCHANGED row
    BY <2>3 DEF Known
  <2> QED  BY <1>6, <2>1, <2>2, <2>3 DEF ReplaceConnection
<1>7. CASE \E d \in Connection, via \in Replacement : CloseWithoutSuccessor(d, via)
  BY <1>1, <1>4, <1>7 DEF CloseWithoutSuccessor, Known
<1>8. CASE \E d \in Connection : MarkConnected(d)
  BY <1>4, <1>8 DEF MarkConnected, Known, Row
<1>9. CASE \E d \in Connection : LeaveConnection(d)
  BY <1>1, <1>4, <1>9 DEF LeaveConnection, Known
<1>10. CASE UNCHANGED row
  BY <1>10 DEF Known
<1> QED  BY <1>5, <1>6, <1>7, <1>8, <1>9, <1>10 DEF TableNext

(* Under OneSuccessor, findSuccessor answers with 0 or with a successor.    *)
LEMMA FoundIsSuccessor ==
  ASSUME NEW rw \in [Connection -> Row], Chained(rw), NEW c \in Connection, NEW via,
         NEW s \in Stream, Found(rw, c, via, s) # 0
  PROVE  /\ Found(rw, c, via, s) \in Connection
         /\ rw[Found(rw, c, via, s)].stream = s
<1> DEFINE found == {d \in Successors(rw, c, via) : rw[d].stream = s}
<1>1. PICK d \in found : TRUE
  BY DEF Found
<1>2. \A e \in found : e = d
  BY <1>1 DEF Chained, Successors
<1>3. d \in found /\ \A e \in found : d <= e
  BY <1>1, <1>2 DEF Successors, Connection
<1>4. Found(rw, c, via, s) \in found
  BY <1>3 DEF Found
<1> QED  BY <1>4 DEF Successors

(* The connection a route answers with is known.                            *)
LEMMA AnswerIsKnown ==
  ASSUME TableInv, NEW t \in Task, task[t].old \in MaybeConnection,
         task[t].stream \in Stream, NEW answer \in Connection, Asked(t, answer)
  PROVE  Known(answer)'
<1> DEFINE s == task[t].stream  c == task[t].old
<1>1. \A rw \in [Connection -> Row] : \A via, of :
        Inserted(rw, answer, s, via, of)[answer].stream = s
  BY DEF Inserted, NewRow
<1>2. CASE c = 0
  BY <1>1, <1>2 DEF Asked, RequestConnection, Known, TableInv, TableOK
<1>3. CASE c # 0
  <2>1. c \in Connection /\ Via(t) \in Replacement /\ 0 \notin Connection
    BY <1>3 DEF MaybeConnection, Connection, Via, Replacement
  <2>2. row \in [Connection -> Row] /\ Chained(row)
    BY DEF TableInv, TableOK, OneSuccessor, Chained
  <2>3. ASSUME NEW rw \in [Connection -> Row], Chained(rw),
               InsertSuccessor(rw, c, Via(t), s, answer)
        PROVE  Known(answer)'
    BY <1>1, <2>1, <2>3, FoundIsSuccessor DEF InsertSuccessor, Known
  <2>4. CASE InsertSuccessor(Disconnected(row, c, Via(t)), c, Via(t), s, answer)
    BY <2>1, <2>2, <2>3, <2>4, DisconnectedType, DisconnectedChained
  <2>5. CASE InsertSuccessor(row, c, Via(t), s, answer)
    BY <2>2, <2>3, <2>5
  <2>6. CASE /\ Found(row, c, Via(t), s) # 0
             /\ answer = Found(row, c, Via(t), s)
             /\ UNCHANGED row
    BY <2>1, <2>2, <2>6, FoundIsSuccessor DEF Known
  <2> QED  BY <1>3, <2>1, <2>4, <2>5, <2>6 DEF Asked, ReplaceConnection
<1> QED  BY <1>2, <1>3

-----------------------------------------------------------------------------
(* A step of the page is a step of the table *)

LEMMA AskedIsRoute ==
  ASSUME TaskInv, NEW t \in Task, task[t].op # "none",
         NEW answer \in MaybeConnection, Asked(t, answer)
  PROVE  TableNext
<1>1. task[t].stream \in Stream /\ task[t].old \in MaybeConnection
  BY DEF TaskInv, TaskState
<1>2. CASE task[t].old = 0
  <2>1. RequestConnection(task[t].stream, answer)
    BY <1>2 DEF Asked
  <2>2. answer \in Connection
    BY <2>1 DEF RequestConnection, IsNext
  <2> QED  BY <1>1, <2>1, <2>2 DEF TableNext
<1>3. CASE task[t].old # 0
  <2>1. ReplaceConnection(task[t].old, Via(t), task[t].stream, answer)
    BY <1>3 DEF Asked
  <2>2. task[t].old \in Connection /\ Via(t) \in Replacement
    BY <1>1, <1>3 DEF MaybeConnection, Connection, Via, Replacement
  <2> QED  BY <1>1, <2>1, <2>2 DEF TableNext, MaybeConnection
<1> QED  BY <1>2, <1>3

LEMMA HandlerIsRoute ==
  ASSUME IInv, HandlerStep
  PROVE  [TableNext]_row
<1> USE DEF IInv, PageInv
<1>1. PICK t \in Task :
        \/ Answered(t) \/ Unanswered(t) \/ TokenMinted(t) \/ JoinFails(t)
        \/ Plays(t) \/ PlayRefused(t) \/ StoppedBlocked(t) \/ StoppedBroken(t) \/ Left(t)
  BY DEF HandlerStep
<1>2. task[t].phase \notin {"asking", "gate"} => task[t].conn \in Connection
  BY DEF TaskInv, Known
<1>3. task[t].op = "leave" => task[t].old \in Connection
  BY DEF TaskInv, Known
<1>4. CASE Answered(t)
  <2>1. PICK answer \in Connection : Asked(t, answer)
    BY <1>4 DEF Answered
  <2>2. answer \in MaybeConnection /\ task[t].op # "none"
    BY <1>4 DEF Answered, MaybeConnection, Connection
  <2> QED  BY <2>1, <2>2, AskedIsRoute
<1>5. CASE Unanswered(t)
  <2>1. task[t].op # "none" /\ task[t].old \in MaybeConnection
    BY <1>5 DEF Unanswered, TaskInv, TaskState
  <2>2. CASE \E answer \in MaybeConnection : Asked(t, answer)
    BY <2>1, <2>2, AskedIsRoute
  <2>3. CASE task[t].old # 0 /\ CloseWithoutSuccessor(task[t].old, Via(t))
    <3>1. task[t].old \in Connection /\ Via(t) \in Replacement
      BY <2>1, <2>3 DEF MaybeConnection, Connection, Via, Replacement
    <3> QED  BY <2>3, <3>1 DEF TableNext
  <2> QED  BY <1>5, <2>2, <2>3 DEF Unanswered
<1>6. CASE TokenMinted(t) \/ JoinFails(t) \/ Plays(t) \/ PlayRefused(t)
  BY <1>6 DEF TokenMinted, JoinFails, Plays, PlayRefused
<1>7. CASE StoppedBlocked(t) \/ StoppedBroken(t)
  BY <1>2, <1>7 DEF StoppedBlocked, StoppedBroken, StopsSession, TableNext
<1>8. CASE Left(t)
  BY <1>3, <1>8 DEF Left, TableNext
<1> QED  BY <1>1, <1>4, <1>5, <1>6, <1>7, <1>8

LEMMA StepIsRoute == IInv /\ [Next]_vars => [TableNext]_row
<1> SUFFICES ASSUME IInv, [Next]_vars PROVE [TableNext]_row
  OBVIOUS
<1>1. CASE ButtonStep
  BY <1>1 DEF ButtonStep, Listen, Switch, PressReconnect, PressLeave
<1>2. CASE EventStep
  BY <1>2 DEF EventStep, StatusPoll, VersionChanges, TransportLost, TransportResumes, TimerFires
<1>3. CASE HandlerStep
  BY <1>3, HandlerIsRoute
<1>4. CASE GateStep
  BY <1>4 DEF GateStep, GateOpens, RefusalIgnored, EnterGate, GateReached
<1>5. CASE PostStep
  BY <1>5 DEF PostStep, ReportArrives, LeaveArrives, SendHeartbeat, HeartbeatAnswered, IInv,
              PageInv, PostInv, Known, TableNext
<1>6. CASE UNCHANGED vars
  BY <1>6 DEF vars
<1> QED  BY <1>1, <1>2, <1>3, <1>4, <1>5, <1>6 DEF Next

-----------------------------------------------------------------------------
(* The parts of a step *)

(* Known once the step is taken.                                            *)
KnownNext(c) == c \in Connection /\ row'[c].stream \in Stream

(* What a step does to the table leaves every connection known.             *)
KnownKept == \A c : Known(c) => KnownNext(c)

(* One handler's state changes to new, which is what the invariant asks.    *)
LEMMA TaskChange ==
  ASSUME TaskInv, KnownKept, NEW t \in Task, NEW new \in TaskState,
         task' = [task EXCEPT ![t] = new],
         new.op # "none" => new.stream \in Stream,
         new.op = "leave" => KnownNext(new.old),
         new.phase # "asking" => new.op # "none",
         new.phase \notin {"asking", "gate"} => KnownNext(new.conn)
  PROVE  TaskInv'
<1>1. task \in [Task -> TaskState] /\ task' \in [Task -> TaskState]
  BY DEF TaskInv
<1>2. ASSUME NEW u \in Task
      PROVE  /\ task'[u].op # "none" => task'[u].stream \in Stream
             /\ task'[u].op = "leave" => KnownNext(task'[u].old)
             /\ task'[u].phase # "asking" => task'[u].op # "none"
             /\ task'[u].phase \notin {"asking", "gate"} => KnownNext(task'[u].conn)
  <2>1. CASE u = t
    BY <1>1, <2>1
  <2>2. CASE u # t
    BY <1>1, <2>2 DEF KnownKept, TaskInv
  <2> QED  BY <2>1, <2>2
<1> QED  BY <1>1, <1>2 DEF TaskInv, Known, KnownNext

(* A handler begins to wait.                                                *)
LEMMA BeginsTask ==
  ASSUME TaskInv, KnownKept, NEW op \in {"listen", "switch", "reconnect", "leave"},
         NEW s \in Stream, NEW old \in MaybeConnection, NEW gesture \in BOOLEAN,
         op = "leave" => Known(old), Begins(op, s, old, gesture)
  PROVE  TaskInv'
<1>1. PICK t \in Task :
        task' = [task EXCEPT ![t] = [NoTask EXCEPT !.op = op, !.stream = s, !.old = old,
                                                  !.gesture = gesture]]
  BY DEF Begins
<1> DEFINE new == [NoTask EXCEPT !.op = op, !.stream = s, !.old = old, !.gesture = gesture]
<1>2. /\ new.op = op /\ new.phase = "asking" /\ new.stream = s /\ new.old = old
      /\ new \in TaskState
  <2>1. 0 \in MaybeConnection
    BY MaxConnectionIsNatural DEF MaybeConnection
  <2> QED  BY <2>1 DEF NoTask, TaskState, Phase, MaybeStream
<1> HIDE DEF new
<1>3. task' = [task EXCEPT ![t] = new] /\ task \in [Task -> TaskState]
  BY <1>1 DEF new, TaskInv
<1> QED  BY <1>2, <1>3, TaskChange DEF KnownKept

(* A handler that reconnects begins only when the latch is free.            *)
LEMMA BeginsLatch ==
  ASSUME TaskInv, LatchInv, NEW op, NEW s, NEW old, NEW gesture, Begins(op, s, old, gesture),
         loose' = loose,
         \/ op # "reconnect" /\ latch' = latch
         \/ op = "reconnect" /\ ~latch /\ latch' = TRUE
  PROVE  LatchInv'
<1>1. PICK t \in Task :
        /\ task[t].op = "none"
        /\ task' = [task EXCEPT ![t] = [NoTask EXCEPT !.op = op, !.stream = s, !.old = old,
                                                     !.gesture = gesture]]
  BY DEF Begins
<1>2. task'[t].op = op /\ \A u \in Task : u # t => task'[u] = task[u]
  BY <1>1 DEF TaskInv, NoTask
<1>3. CASE op # "reconnect" /\ latch' = latch
  <2>1. Reconnects' = Reconnects
    BY <1>1, <1>2, <1>3 DEF Reconnects
  <2> QED  BY <1>3, <2>1 DEF LatchInv, LatchMeansReconnecting
<1>4. CASE op = "reconnect" /\ ~latch /\ latch' = TRUE
  <2>1. Reconnects' = Reconnects \cup {t}
    BY <1>1, <1>2, <1>4 DEF Reconnects
  <2>2. ~loose => Reconnects = {}
    BY <1>4 DEF LatchInv, LatchMeansReconnecting
  <2> QED  BY <1>4, <2>1, <2>2 DEF LatchInv, LatchMeansReconnecting
<1> QED  BY <1>3, <1>4

LEMMA EndsParts ==
  ASSUME TaskInv, LatchInv, KnownKept, NEW t \in Task, Ends(t)
  PROVE  TaskInv' /\ LatchInv'
<1>1. NoTask \in TaskState /\ NoTask.op = "none" /\ NoTask.phase = "asking"
  BY MaxConnectionIsNatural DEF NoTask, TaskState, Phase, MaybeStream, MaybeConnection
<1>2. task' = [task EXCEPT ![t] = NoTask]
  BY DEF Ends
<1>3. TaskInv'
  BY <1>1, <1>2, TaskChange
<1>4. task'[t].op = "none" /\ \A u \in Task : u # t => task'[u] = task[u]
  BY <1>1, <1>2 DEF TaskInv
<1>5. Reconnects' = Reconnects \ {t}
  BY <1>4 DEF Reconnects
<1>6. /\ latch' = (latch /\ t \notin Reconnects)
      /\ loose' = (loose /\ Reconnects \ {t} # {})
  BY DEF Ends
<1>7. LatchInv'
  BY <1>5, <1>6 DEF LatchInv, LatchMeansReconnecting
<1> QED  BY <1>3, <1>7

(* A step that leaves every handler the operation it has.                   *)
LEMMA LatchKept ==
  ASSUME LatchInv, UNCHANGED reconnectVars, \A u \in Task : task'[u].op = task[u].op
  PROVE  LatchInv'
  BY DEF LatchInv, LatchMeansReconnecting, Reconnects, reconnectVars

LEMMA AccessKept ==
  ASSUME AccessInv, access' = access
  PROVE  AccessInv'
  BY DEF AccessInv

LEMMA ScheduleParts ==
  ASSUME PlaybackInv, RecoveryInv, seen' = seen, ScheduleRecovery
  PROVE  RecoveryInv'
<1> DEFINE s == IF IsConnected THEN playback.stream ELSE recovering
<1>1. s \in MaybeStream /\ seen \in MaybeConnection /\ attempts \in 0 .. MaxAttempts
  BY DEF PlaybackInv, PlaybackState, RecoveryInv
<1>2. CASE /\ MayRetry
           /\ s # None
           /\ recovering' = s
           /\ attempts' = attempts + 1
           /\ timer' = [stream |-> s, conn |-> seen]
  <2>1. s \in Stream
    BY <1>1, <1>2 DEF MaybeStream
  <2>2. attempts' \in 0 .. MaxAttempts
    BY <1>1, <1>2, PageBounds DEF MayRetry
  <2>3. timer' \in Timer /\ timer'.stream \in Stream
    BY <1>1, <1>2, <2>1 DEF Timer
  <2> QED  BY <1>1, <1>2, <2>2, <2>3 DEF RecoveryInv
<1>3. CASE UNCHANGED recoveryVars
  BY <1>3 DEF recoveryVars, RecoveryInv
<1> QED  BY <1>2, <1>3 DEF ScheduleRecovery

(* What the page shows when it does not show a live connection.             *)
LEMMA ShowsParts ==
  ASSUME NEW status \in {"connecting", "switching", "reconnecting", "disconnected"},
         NEW s \in Stream, NEW c \in MaybeConnection, playback' = Shown(status, s, c)
  PROVE  PlaybackInv'
<1>1. playback'.status = status /\ playback'.stream = s /\ playback' \in PlaybackState
  BY DEF Shown, PlaybackState, MaybeStream
<1> QED  BY <1>1 DEF PlaybackInv, IsConnected

LEMMA PlaybackKept ==
  ASSUME PlaybackInv, KnownKept, playback' = playback
  PROVE  PlaybackInv'
  BY DEF PlaybackInv, KnownKept, Known, KnownNext, IsConnected

LEMMA PostKept ==
  ASSUME PostInv, KnownKept, post' = post
  PROVE  PostInv'
  BY DEF PostInv, KnownKept, Known, KnownNext

LEMMA RecoveryKept ==
  ASSUME RecoveryInv, UNCHANGED <<seen, recoveryVars>>
  PROVE  RecoveryInv'
  BY DEF RecoveryInv, recoveryVars

LEMMA FailsParts ==
  ASSUME PageInv, KnownKept, NEW t \in Task, task[t].op # "none", Fails(t)
  PROVE  PageInv'
<1> USE DEF PageInv
<1>1. task[t].stream \in Stream /\ task[t].old \in MaybeConnection
  BY DEF TaskInv, TaskState
<1>2. PlaybackInv'
  BY <1>1, ShowsParts DEF Fails
<1>3. TaskInv' /\ LatchInv'
  BY EndsParts DEF Fails
<1>4. RecoveryInv'
  BY ScheduleParts DEF Fails, recoveryVars, RecoveryInv
<1>5. PostInv' /\ AccessInv'
  BY PostKept, AccessKept DEF Fails
<1> QED  BY <1>2, <1>3, <1>4, <1>5

-----------------------------------------------------------------------------
(* The steps *)

LEMMA ReconnectParts ==
  ASSUME PageInv, KnownKept, NEW s \in Stream, NEW c \in MaybeConnection,
         NEW gesture \in BOOLEAN, Reconnect(s, c, gesture)
  PROVE  PlaybackInv' /\ TaskInv' /\ LatchInv'
<1> USE DEF PageInv
<1>1. PlaybackInv'
  BY ShowsParts DEF Reconnect
<1>2. TaskInv'
  BY BeginsTask DEF Reconnect
<1>3. LatchInv'
  BY BeginsLatch DEF Reconnect
<1> QED  BY <1>1, <1>2, <1>3

LEMMA ButtonParts ==
  ASSUME PageInv, KnownKept, ButtonStep
  PROVE  PageInv'
<1> USE DEF PageInv
<1>1. 0 \in MaybeConnection
  BY MaxConnectionIsNatural DEF MaybeConnection
<1>2. ASSUME NEW s \in Stream, Listen(s) PROVE PageInv'
  <2>1. PlaybackInv'
    BY <1>1, <1>2, ShowsParts DEF Listen
  <2>2. TaskInv' /\ LatchInv'
    BY <1>1, <1>2, BeginsTask, BeginsLatch DEF Listen, reconnectVars
  <2>3. RecoveryInv' /\ PostInv' /\ AccessInv'
    BY <1>2, RecoveryKept, PostKept, AccessKept DEF Listen
  <2> QED  BY <2>1, <2>2, <2>3
<1>3. ASSUME NEW s \in Stream, Switch(s) PROVE PageInv'
  <2>1. playback.conn \in MaybeConnection
    BY DEF PlaybackInv, PlaybackState
  <2>2. PlaybackInv'
    BY <1>3, <2>1, ShowsParts DEF Switch
  <2>3. TaskInv' /\ LatchInv'
    BY <1>3, <2>1, BeginsTask, BeginsLatch DEF Switch, reconnectVars
  <2>4. RecoveryInv' /\ PostInv' /\ AccessInv'
    BY <1>3, RecoveryKept, PostKept, AccessKept DEF Switch
  <2> QED  BY <2>2, <2>3, <2>4
<1>4. CASE PressReconnect
  <2>1. playback.stream \in Stream /\ playback.conn \in MaybeConnection
    BY <1>4 DEF PressReconnect, PlaybackInv, PlaybackState
  <2>2. PlaybackInv' /\ TaskInv' /\ LatchInv'
    BY <1>4, <2>1, ReconnectParts DEF PressReconnect
  <2>3. RecoveryInv' /\ PostInv' /\ AccessInv'
    BY <1>4, RecoveryKept, PostKept, AccessKept DEF PressReconnect
  <2> QED  BY <2>2, <2>3
<1>5. CASE PressLeave
  <2>1. /\ playback.stream \in Stream /\ playback.conn \in MaybeConnection
        /\ Known(playback.conn)
    BY <1>5 DEF PressLeave, PlaybackInv, PlaybackState, IsConnected
  <2>2. PlaybackInv'
    BY <1>1, <1>5 DEF PressLeave, IdlePlayback, Shown, PlaybackInv, PlaybackState, MaybeStream,
                      IsConnected
  <2>3. TaskInv' /\ LatchInv'
    BY <1>5, <2>1, BeginsTask, BeginsLatch DEF PressLeave, reconnectVars
  <2>4. RecoveryInv' /\ PostInv' /\ AccessInv'
    BY <1>5, RecoveryKept, PostKept, AccessKept DEF PressLeave
  <2> QED  BY <2>2, <2>3, <2>4
<1> QED  BY <1>2, <1>3, <1>4, <1>5 DEF ButtonStep

LEMMA EventParts ==
  ASSUME PageInv, KnownKept, EventStep
  PROVE  PageInv'
<1> USE DEF PageInv
<1>1. /\ playback.conn \in MaybeConnection
      /\ IsConnected => playback.stream \in Stream
      /\ 0 \in MaybeConnection
  BY MaxConnectionIsNatural DEF PlaybackInv, PlaybackState, IsConnected, MaybeConnection
<1>2. NoTimer \in Timer /\ 0 \in 0 .. MaxAttempts
  BY <1>1, PageBounds DEF NoTimer, Timer, MaybeStream
<1>3. ASSUME UNCHANGED <<reconnectVars, task>> PROVE TaskInv' /\ LatchInv'
  BY <1>3, LatchKept DEF TaskInv, KnownKept, Known, KnownNext
<1>4. CASE StatusPoll
  <2>1. RecoveryInv'
    BY <1>1, <1>4 DEF StatusPoll, RecoveryInv, recoveryVars
  <2> QED  BY <1>3, <1>4, <2>1, PlaybackKept, PostKept, AccessKept DEF StatusPoll
<1>5. CASE VersionChanges
  <2>1. PlaybackInv' /\ TaskInv' /\ LatchInv'
    BY <1>1, <1>5, ReconnectParts DEF VersionChanges
  <2>2. RecoveryInv'
    BY <1>1, <1>5 DEF VersionChanges, RecoveryInv, recoveryVars
  <2> QED  BY <1>5, <2>1, <2>2, PostKept, AccessKept DEF VersionChanges
<1>6. CASE TransportLost
  BY <1>3, <1>6, ScheduleParts, PlaybackKept, PostKept, AccessKept DEF TransportLost
<1>7. CASE TransportResumes
  <2>1. RecoveryInv'
    BY <1>2, <1>7 DEF TransportResumes, RecoveryInv
  <2> QED  BY <1>3, <1>7, <2>1, PlaybackKept, PostKept, AccessKept DEF TransportResumes
<1>8. CASE TimerFires
  <2>1. RecoveryInv'
    BY <1>2, <1>8 DEF TimerFires, RecoveryInv
  <2>2. PlaybackInv' /\ TaskInv' /\ LatchInv'
    <3>1. CASE UNCHANGED <<playback, reconnectVars, task>>
      BY <1>3, <3>1, PlaybackKept
    <3>2. CASE Reconnect(timer.stream, IF timer.conn # 0 THEN timer.conn ELSE LiveConnection, FALSE)
      <4>1. timer.stream \in Stream /\ timer.conn \in MaybeConnection
        BY <1>8 DEF TimerFires, RecoveryInv, Timer
      <4>2. LiveConnection \in MaybeConnection
        BY <1>1 DEF LiveConnection
      <4> QED  BY <3>2, <4>1, <4>2, ReconnectParts
    <3> QED  BY <1>8, <3>1, <3>2 DEF TimerFires
  <2> QED  BY <1>8, <2>1, <2>2, PostKept, AccessKept DEF TimerFires
<1> QED  BY <1>4, <1>5, <1>6, <1>7, <1>8 DEF EventStep

(* A handler goes to another phase.                                         *)
LEMMA GoesTask ==
  ASSUME TaskInv, KnownKept, NEW t \in Task, NEW phase \in Phase,
         task[t].op # "none", phase = "gate" \/ task[t].phase \notin {"asking", "gate"},
         Goes(t, phase)
  PROVE  TaskInv' /\ \A u \in Task : task'[u].op = task[u].op
<1> DEFINE new == [task[t] EXCEPT !.phase = phase]
<1>1. task[t] \in TaskState /\ task[t].stream \in Stream
  BY DEF TaskInv
<1>2. /\ new \in TaskState /\ new.op = task[t].op /\ new.stream = task[t].stream
      /\ new.old = task[t].old /\ new.conn = task[t].conn /\ new.phase = phase
  BY <1>1 DEF TaskState
<1>3. task' = [task EXCEPT ![t] = new]
  BY DEF Goes, TaskInv
<1>4. new.phase \notin {"asking", "gate"} => Known(new.conn)
  BY <1>2 DEF TaskInv
<1> HIDE DEF new
<1>5. TaskInv'
  BY <1>1, <1>2, <1>3, <1>4, TaskChange DEF KnownKept, TaskInv
<1>6. \A u \in Task : task'[u].op = task[u].op
  BY <1>2, <1>3 DEF TaskInv
<1> QED  BY <1>5, <1>6

LEMMA GoesParts ==
  ASSUME PageInv, KnownKept, NEW t \in Task, NEW phase \in Phase,
         task[t].phase \notin {"asking", "gate"}, Goes(t, phase), UNCHANGED reconnectVars
  PROVE  TaskInv' /\ LatchInv'
  BY GoesTask, LatchKept DEF PageInv, TaskInv

LEMMA AnsweredParts ==
  ASSUME IInv, KnownKept, NEW t \in Task, Answered(t)
  PROVE  PageInv'
<1> USE DEF IInv, PageInv
<1>1. PICK answer \in Connection :
        /\ Asked(t, answer)
        /\ task' = [task EXCEPT ![t].phase = "token", ![t].conn = answer]
  BY DEF Answered
<1> DEFINE new == [task[t] EXCEPT !.phase = "token", !.conn = answer]
<1>2. /\ task[t] \in TaskState /\ task[t].stream \in Stream
      /\ task[t].op \notin {"none", "leave"} /\ task[t].old \in MaybeConnection
  BY DEF Answered, TaskInv, TaskState
<1>3. Known(answer)'
  BY <1>1, <1>2, AnswerIsKnown
<1>4. answer \in MaybeConnection
  BY DEF MaybeConnection, Connection
<1>5. /\ new \in TaskState /\ new.op = task[t].op /\ new.stream = task[t].stream
      /\ new.conn = answer
  BY <1>2, <1>4 DEF TaskState, Phase
<1>6. task' = [task EXCEPT ![t] = new]
  BY <1>1 DEF TaskInv
<1> HIDE DEF new
<1>7. TaskInv'
  BY <1>2, <1>3, <1>5, <1>6, TaskChange DEF Known, KnownNext
<1>8. LatchInv'
  BY <1>5, <1>6, LatchKept DEF Answered, TaskInv
<1>9. PlaybackInv' /\ RecoveryInv' /\ PostInv' /\ AccessInv'
  BY PlaybackKept, RecoveryKept, PostKept, AccessKept DEF Answered
<1> QED  BY <1>7, <1>8, <1>9

(* A handler that has joined reports so, or its report is lost.             *)
LEMMA ReportsParts ==
  ASSUME PageInv, KnownKept, NEW t \in Task, task[t].phase \notin {"asking", "gate"},
         Reports(t)
  PROVE  PostInv'
<1> USE DEF PageInv
<1>1. CASE UNCHANGED post
  BY <1>1, PostKept
<1>2. CASE "connected" \in PostKind /\ post' = [kind |-> "connected", conn |-> task[t].conn]
  <2>1. Known(task[t].conn) /\ task[t].conn \in MaybeConnection
    BY DEF TaskInv, TaskState
  <2>2. post' \in Post /\ post'.conn = task[t].conn
    BY <1>2, <2>1 DEF Post
  <2> QED  BY <2>1, <2>2 DEF PostInv, KnownKept, Known, KnownNext
<1> QED  BY <1>1, <1>2 DEF Reports

LEMMA SucceedsParts ==
  ASSUME AccessInv, AcquisitionSucceeds
  PROVE  AccessInv'
  BY DEF AccessInv, Access, AcquisitionSucceeds

LEMMA PlaysParts ==
  ASSUME PageInv, KnownKept, NEW t \in Task, Plays(t)
  PROVE  PageInv'
<1> USE DEF PageInv
<1>1. /\ task[t].phase \notin {"asking", "gate"} /\ task[t].stream \in Stream
      /\ Known(task[t].conn) /\ task[t].conn \in MaybeConnection
  BY DEF Plays, TaskInv, TaskState
<1>2. PlaybackInv'
  <2>1. /\ playback' \in PlaybackState
        /\ playback'.stream = task[t].stream /\ playback'.conn = task[t].conn
    BY <1>1 DEF Plays, Shown, PlaybackState, MaybeStream
  <2> QED  BY <1>1, <2>1 DEF PlaybackInv, KnownKept, Known, KnownNext
<1>3. TaskInv' /\ LatchInv'
  BY EndsParts DEF Plays
<1>4. RecoveryInv'
  BY PageBounds DEF Plays, RecoveryInv, MaybeStream
<1>5. PostInv'
  BY <1>1, ReportsParts DEF Plays
<1>6. AccessInv'
  BY SucceedsParts DEF Plays
<1> QED  BY <1>2, <1>3, <1>4, <1>5, <1>6

LEMMA StoppedParts ==
  ASSUME PageInv, KnownKept, NEW t \in Task, StoppedBlocked(t) \/ StoppedBroken(t)
  PROVE  PageInv'
<1> USE DEF PageInv
<1>1. /\ task[t].op # "none" /\ task[t].stream \in Stream
      /\ task[t].old \in MaybeConnection
  BY DEF StoppedBlocked, StoppedBroken, TaskInv, TaskState
<1>2. CASE StoppedBlocked(t)
  <2>1. PlaybackInv'
    BY <1>1, <1>2, ShowsParts DEF StoppedBlocked
  <2>2. TaskInv' /\ LatchInv'
    BY <1>2, EndsParts DEF StoppedBlocked
  <2>3. RecoveryInv'
    BY <1>2, PageBounds DEF StoppedBlocked, RecoveryInv, MaybeStream
  <2> QED  BY <1>2, <2>1, <2>2, <2>3, PostKept, AccessKept DEF StoppedBlocked
<1>3. CASE StoppedBroken(t)
  BY <1>1, <1>3, FailsParts DEF StoppedBroken
<1> QED  BY <1>2, <1>3

LEMMA LeftParts ==
  ASSUME PageInv, KnownKept, NEW t \in Task, Left(t)
  PROVE  PageInv'
<1> USE DEF PageInv
<1>1. task[t].stream \in Stream /\ task[t].old \in MaybeConnection
  BY DEF Left, TaskInv, TaskState
<1>2. PlaybackInv'
  BY <1>1, ShowsParts, PlaybackKept DEF Left
<1>3. TaskInv' /\ LatchInv'
  BY EndsParts DEF Left
<1> QED  BY <1>2, <1>3, RecoveryKept, PostKept, AccessKept DEF Left

LEMMA HandlerParts ==
  ASSUME IInv, KnownKept, HandlerStep
  PROVE  PageInv'
<1> USE DEF IInv, PageInv
<1>1. PICK t \in Task :
        \/ Answered(t) \/ Unanswered(t) \/ TokenMinted(t) \/ JoinFails(t)
        \/ Plays(t) \/ PlayRefused(t) \/ StoppedBlocked(t) \/ StoppedBroken(t) \/ Left(t)
  BY DEF HandlerStep
<1>2. CASE Answered(t)
  BY <1>2, AnsweredParts
<1>3. CASE Unanswered(t)
  BY <1>3, FailsParts DEF Unanswered
<1>4. CASE TokenMinted(t)
  <2>1. TaskInv' /\ LatchInv'
    BY <1>4, GoesParts DEF TokenMinted, Phase
  <2> QED  BY <1>4, <2>1, PlaybackKept, RecoveryKept, PostKept, AccessKept DEF TokenMinted
<1>5. CASE JoinFails(t)
  BY <1>5, FailsParts DEF JoinFails, TaskInv
<1>6. CASE Plays(t)
  BY <1>6, PlaysParts
<1>7. CASE PlayRefused(t)
  <2>1. TaskInv' /\ LatchInv'
    BY <1>7, GoesParts DEF PlayRefused, Phase
  <2>2. PostInv' /\ AccessInv'
    BY <1>7, ReportsParts, SucceedsParts DEF PlayRefused
  <2> QED  BY <1>7, <2>1, <2>2, PlaybackKept, RecoveryKept DEF PlayRefused
<1>8. CASE StoppedBlocked(t) \/ StoppedBroken(t)
  BY <1>8, StoppedParts
<1>9. CASE Left(t)
  BY <1>9, LeftParts
<1> QED  BY <1>1, <1>2, <1>3, <1>4, <1>5, <1>6, <1>7, <1>8, <1>9

LEMMA PostParts ==
  ASSUME PageInv, KnownKept, PostStep
  PROVE  PageInv'
<1> USE DEF PageInv
<1>1. UNCHANGED <<seen, reconnectVars, recoveryVars, task, access>>
  BY DEF PostStep, ReportArrives, LeaveArrives, SendHeartbeat, HeartbeatAnswered
<1>2. RecoveryInv' /\ TaskInv' /\ LatchInv' /\ AccessInv'
  BY <1>1, RecoveryKept, LatchKept, AccessKept DEF TaskInv, KnownKept, Known, KnownNext
<1>3. NoPost \in Post /\ NoPost.kind = "none"
  BY MaxConnectionIsNatural DEF NoPost, Post, MaybeConnection
<1>4. CASE ReportArrives \/ LeaveArrives
  BY <1>2, <1>3, <1>4, PlaybackKept DEF ReportArrives, LeaveArrives, PostInv
<1>5. CASE SendHeartbeat
  <2>1. Known(playback.conn) /\ playback.conn \in MaybeConnection
    BY <1>5 DEF SendHeartbeat, PlaybackInv, PlaybackState
  <2>2. PostInv'
    <3>1. post' \in Post /\ post'.conn = playback.conn
      BY <1>5, <2>1 DEF SendHeartbeat, Post
    <3> QED  BY <2>1, <3>1 DEF PostInv, KnownKept, Known, KnownNext
  <2> QED  BY <1>2, <1>5, <2>2, PlaybackKept DEF SendHeartbeat
<1>6. CASE HeartbeatAnswered
  <2>1. row[post.conn].stream \in Stream /\ post.conn \in MaybeConnection
    BY <1>6 DEF HeartbeatAnswered, PostInv, Post, Known
  <2>2. PlaybackInv'
    BY <1>6, <2>1, ShowsParts, PlaybackKept DEF HeartbeatAnswered
  <2> QED  BY <1>2, <1>3, <1>6, <2>2 DEF HeartbeatAnswered, PostInv
<1> QED  BY <1>4, <1>5, <1>6 DEF PostStep

(* The gate opens, or the handler that has come to it returns.              *)
LEMMA GateLeftParts ==
  ASSUME PageInv, KnownKept,
         GateOpens \/ \E t \in Task : RefusalIgnored(t) \/ GateReached(t)
  PROVE  PageInv'
<1> USE DEF PageInv
<1>1. CASE GateOpens
  <2>1. UNCHANGED <<playback, seen, reconnectVars, recoveryVars, post>>
    BY <1>1 DEF GateOpens
  <2>2. AccessInv'
    BY <1>1 DEF GateOpens, AccessInv, Access
  <2>3. TaskInv' /\ \A u \in Task : task'[u].op = task[u].op
    <3>1. CASE UNCHANGED task
      BY <3>1 DEF TaskInv, KnownKept, Known, KnownNext
    <3>2. CASE task' = [t \in Task |-> [task[t] EXCEPT !.elder = (task[t].op # "none")]]
      <4>1. \A u \in Task : task[u] \in TaskState
        BY DEF TaskInv
      <4>2. \A u \in Task :
              /\ task'[u] \in TaskState
              /\ task'[u].op = task[u].op /\ task'[u].stream = task[u].stream
              /\ task'[u].old = task[u].old /\ task'[u].conn = task[u].conn
              /\ task'[u].phase = task[u].phase
        BY <3>2, <4>1 DEF TaskState
      <4>3. task' \in [Task -> TaskState]
        BY <3>2, <4>2
      <4> QED  BY <4>2, <4>3 DEF TaskInv, KnownKept, Known, KnownNext
    <3> QED  BY <1>1, <3>1, <3>2 DEF GateOpens
  <2> QED  BY <2>1, <2>2, <2>3, PlaybackKept, RecoveryKept, PostKept, LatchKept
<1>2. ASSUME NEW t \in Task, RefusalIgnored(t) \/ GateReached(t) PROVE PageInv'
  <2>1. UNCHANGED <<playback, seen, recoveryVars, post>> /\ Ends(t)
    BY <1>2 DEF RefusalIgnored, GateReached
  <2>2. TaskInv' /\ LatchInv'
    BY <2>1, EndsParts
  <2>3. AccessInv'
    <3>1. \/ access' = access
          \/ access' = [gate |-> FALSE, token |-> FALSE, transitioned |-> FALSE]
      BY <1>2 DEF RefusalIgnored, GateReached
    <3>2. [gate |-> FALSE, token |-> FALSE, transitioned |-> FALSE] \in Access
      BY DEF Access
    <3> QED  BY ONLY <3>1, <3>2, AccessInv DEF AccessInv
  <2> QED  BY <2>1, <2>2, <2>3, PlaybackKept, RecoveryKept, PostKept
<1> QED  BY <1>1, <1>2

(* The gate takes the latch, if there is a reconnect to hold it.             *)
LEMMA EnterGateParts ==
  ASSUME PageInv, KnownKept, NEW t \in Task, EnterGate(t)
  PROVE  PageInv'
<1> USE DEF PageInv
<1>1. TaskInv' /\ \A u \in Task : task'[u].op = task[u].op
  BY GoesTask DEF EnterGate, Refused, Phase
<1>2. LatchInv'
  <2>1. Reconnects' = Reconnects
    BY <1>1 DEF Reconnects
  <2>2. latch' = FALSE /\ loose' = (Reconnects # {})
    BY DEF EnterGate
  <2> QED  BY <2>1, <2>2 DEF LatchInv, LatchMeansReconnecting
<1>3. 0 \in MaybeConnection /\ 0 \in 0 .. MaxAttempts /\ None \in MaybeStream
  BY MaxConnectionIsNatural, PageBounds DEF MaybeConnection, MaybeStream
<1>4. PlaybackInv'
  BY <1>3 DEF EnterGate, IdlePlayback, Shown, PlaybackInv, PlaybackState, IsConnected
<1>5. RecoveryInv'
  BY <1>3 DEF EnterGate, NoTimer, Timer, RecoveryInv
<1>6. AccessInv'
  BY DEF EnterGate, AccessInv, Access
<1>7. PostInv'
  <2>1. CASE UNCHANGED post
    BY <2>1, PostKept
  <2>2. CASE /\ "leave" \in PostKind
             /\ IsConnected
             /\ post' = [kind |-> "leave", conn |-> playback.conn]
    <3>1. Known(playback.conn) /\ playback.conn \in MaybeConnection
      BY <2>2 DEF PlaybackInv, PlaybackState
    <3>2. post' \in Post /\ post'.conn = playback.conn
      BY <2>2, <3>1 DEF Post
    <3> QED  BY <3>1, <3>2 DEF PostInv, KnownKept, Known, KnownNext
  <2> QED  BY <2>1, <2>2 DEF EnterGate
<1> QED  BY <1>1, <1>2, <1>4, <1>5, <1>6, <1>7

LEMMA GateParts ==
  ASSUME PageInv, KnownKept, GateStep
  PROVE  PageInv'
  BY GateLeftParts, EnterGateParts DEF GateStep

-----------------------------------------------------------------------------
(* The specification *)

LEMMA InitIInv == Init => IInv
<1> SUFFICES ASSUME Init PROVE IInv
  OBVIOUS
<1>1. 0 \in MaybeConnection /\ 0 \in 0 .. MaxAttempts /\ None \in MaybeStream
  BY MaxConnectionIsNatural, PageBounds DEF MaybeConnection, MaybeStream
<1>2. TableInv
  BY TableInitInv DEF Init
<1>3. PlaybackInv
  BY <1>1 DEF Init, IdlePlayback, Shown, PlaybackInv, PlaybackState, IsConnected
<1>4. RecoveryInv
  BY <1>1 DEF Init, NoTimer, Timer, RecoveryInv
<1>5. TaskInv
  BY <1>1 DEF Init, NoTask, TaskState, Phase, TaskInv
<1>6. PostInv
  BY <1>1 DEF Init, NoPost, Post, PostInv
<1>7. LatchInv
  BY DEF Init, NoTask, LatchInv, LatchMeansReconnecting, Reconnects
<1>8. AccessInv
  <2>1. {FALSE, AccessControl} \subseteq BOOLEAN
    BY AccessControlIsBoolean
  <2>2. access \in [gate: {FALSE}, token: {FALSE, AccessControl}, transitioned: {FALSE}]
    BY DEF Init
  <2> QED  BY <2>1, <2>2 DEF AccessInv, Access
<1> QED  BY <1>2, <1>3, <1>4, <1>5, <1>6, <1>7, <1>8 DEF IInv, PageInv

LEMMA StepIInv == IInv /\ [Next]_vars => IInv'
<1> SUFFICES ASSUME IInv, [Next]_vars PROVE IInv'
  OBVIOUS
<1>1. [TableNext]_row /\ TableInv /\ TableOK
  BY StepIsRoute DEF IInv, TableInv
<1>2. TableInv'
  BY <1>1, TableStepInv
<1>3. KnownKept
  BY <1>1, KnownStays DEF KnownKept, Known, KnownNext
<1>4. PageInv'
  <2>1. PageInv
    BY DEF IInv
  <2>2. CASE UNCHANGED vars
    <3>1. UNCHANGED <<playback, seen, reconnectVars, recoveryVars, task, access, post>>
      BY <2>2 DEF vars
    <3>2. TaskInv' /\ LatchInv'
      BY <1>3, <2>1, <3>1, LatchKept DEF PageInv, TaskInv, KnownKept, Known, KnownNext
    <3> QED  BY <1>3, <2>1, <3>1, <3>2, PlaybackKept, RecoveryKept, PostKept, AccessKept DEF PageInv
  <2> QED  BY <1>3, <2>1, <2>2, ButtonParts, EventParts, HandlerParts, GateParts,
             PostParts DEF Next
<1> QED  BY <1>2, <1>4 DEF IInv

(* Every reachable state of the page and the table has the declared types.   *)
THEOREM PageTypeCorrect == Spec => []TypeOK
<1>1. IInv => TypeOK
  BY DEF IInv, PageInv, TypeOK, TableInv, PlaybackInv, RecoveryInv, TaskInv,
         PostInv, LatchInv, AccessInv
<1> QED  BY <1>1, InitIInv, StepIInv, PTL DEF Spec

(* Whatever the buttons, timers, lost answers and overlapping handlers do,  *)
(* the table sees a sequence of calls it allows (listener_connections).     *)
THEOREM PageUsesTable == Spec => TableSpec
<1>1. Init => TableInit
  BY DEF Init
<1> QED  BY <1>1, InitIInv, StepIInv, StepIsRoute, PTL DEF Spec, TableSpec

(* Any number of overlapping handlers gives a connection at most one        *)
(* successor (replaceConnection).                                           *)
THEOREM PageOneSuccessor == Spec => []OneSuccessor
<1> QED  BY PageUsesTable, TableIsChained, PTL

(* No handler of the page changes a closed connection.                      *)
THEOREM PageKeepsClosed == Spec => ClosedStaysClosed
<1> QED  BY PageUsesTable, TableKeepsClosed, PTL

(* The button, the timer and the change of publisher do not reconnect side   *)
(* by side unless the gate has taken the latch from a reconnect meanwhile,  *)
(* and the latch is free when none reconnects (recoveryInFlightRef).        *)
THEOREM OneReconnect == Spec => []LatchMeansReconnecting
<1>1. IInv => LatchMeansReconnecting
  BY DEF IInv, PageInv, LatchInv
<1> QED  BY <1>1, InitIInv, StepIInv, PTL DEF Spec
=============================================================================
