------------------------ MODULE ListenerConnections ------------------------
(***************************************************************************)
(* The table listener_connections as the routes of listeners use it, for   *)
(* the connections of one browser tab (one client id) to the streams of    *)
(* one program.                                                            *)
(*                                                                         *)
(* A connection is never opened again. A tab that changes language or has  *)
(* lost its transport closes its connection and gets a successor; when the *)
(* answer is lost it asks again and must get the successor already made.   *)
(* No handler waits for anything real between its first statement and its  *)
(* last, so each is one step, but a stop of the API may cut one short.      *)
(***************************************************************************)
EXTENDS Integers

CONSTANTS
  Stream,          \* language streams
  None,            \* no stream
  MaxConnection    \* bound: rows that are ever made

ASSUME NoneIsNoStream == None \notin Stream
ASSUME MaxConnectionIsNatural == MaxConnection \in Nat

VARIABLE row       \* [Connection -> Row], the table

Connection == 1 .. MaxConnection

Status == {"none", "requested", "connected", "disconnected"}

(* The reasons for which a connection is replaced; also the column that     *)
(* links the successor to it.                                              *)
Replacement == {"language_switch", "reconnected"}

Row == [status: Status, stream: Stream \cup {None},
        via: Replacement \cup {"none"}, of: 0 .. MaxConnection,
        reason: Replacement \cup {"none", "left"}]

NoRow == [status |-> "none", stream |-> None, via |-> "none", of |-> 0, reason |-> "none"]

-----------------------------------------------------------------------------
(* Statements, as functions of the table rw *)

NewRow(s, via, of) ==
  [status |-> "requested", stream |-> s, via |-> via, of |-> of, reason |-> "none"]

(* Ids are new; the model takes them in order.                              *)
IsNext(rw, n) ==
  /\ n \in Connection
  /\ rw[n].status = "none"
  /\ \A m \in Connection : rw[m].status = "none" => n <= m

Inserted(rw, n, s, via, of) == [rw EXCEPT ![n] = NewRow(s, via, of)]

(* disconnectConnection: a closed row keeps the reason it was closed for.   *)
Disconnected(rw, c, reason) ==
  IF rw[c].status \in {"none", "disconnected"} THEN rw
  ELSE [rw EXCEPT ![c].status = "disconnected", ![c].reason = reason]

Successors(rw, c, via) == {d \in Connection : rw[d].via = via /\ rw[d].of = c}

(* findSuccessor: the oldest of the same stream and client, or 0.           *)
Found(rw, c, via, s) ==
  LET found == {d \in Successors(rw, c, via) : rw[d].stream = s}
  IN  IF found = {} THEN 0 ELSE CHOOSE d \in found : \A e \in found : d <= e

(* Mutant: a row that was closed for another reason is given a successor.   *)
CanRecover_Always(rw, c, via) == rw[c].status = "disconnected"

CanRecover(rw, c, via) == rw[c].status = "disconnected" /\ rw[c].reason = via

(* The two unique indexes on the links.                                     *)
MayInsert(rw, c, via) == Successors(rw, c, via) = {}

(* Mutant: a late report opens a closed connection again.                   *)
MayConnect_AnyRow(rw, c) == rw[c].status # "connected"

(* The guard of applyConnectedUpdate.                                       *)
MayConnect(rw, c) == rw[c].status = "requested"

(* The token route: the connection is not closed.                           *)
MayJoin(rw, c) == rw[c].status \in {"requested", "connected"}

-----------------------------------------------------------------------------
(* Routes; answer is the connection the route answers with, 0 a refusal *)

(* POST /api/listeners/request                                              *)
RequestConnection(s, answer) ==
  /\ IsNext(row, answer)
  /\ row' = Inserted(row, answer, s, "none", 0)

(* createReplacementConnection on the table rw: the insertion, or what the  *)
(* unique index makes of it.                                               *)
InsertSuccessor(rw, c, via, s, answer) ==
  \/ /\ MayInsert(rw, c, via)
     /\ IsNext(rw, answer)
     /\ row' = Inserted(rw, answer, s, via, c)
  \/ /\ ~MayInsert(rw, c, via)
     /\ answer = Found(rw, c, via, s)
     /\ row' = rw

(* POST /api/listeners/switch and /reconnect: replaceConnection             *)
ReplaceConnection(c, via, s, answer) ==
  \/ /\ row[c].status \in {"requested", "connected"}
     /\ InsertSuccessor(Disconnected(row, c, via), c, via, s, answer)
  \/ /\ row[c].status = "disconnected"
     /\ Found(row, c, via, s) # 0
     /\ answer = Found(row, c, via, s)
     /\ UNCHANGED row
  \/ /\ row[c].status = "disconnected"
     /\ Found(row, c, via, s) = 0
     /\ CanRecover(row, c, via)
     /\ InsertSuccessor(row, c, via, s, answer)
  \/ /\ row[c].status = "disconnected"
     /\ Found(row, c, via, s) = 0
     /\ ~CanRecover(row, c, via)
     /\ answer = 0
     /\ UNCHANGED row

(* The API stops, or the insertion fails, after the old row was closed: the *)
(* two statements are not one transaction.                                  *)
CloseWithoutSuccessor(c, via) ==
  /\ row[c].status \in {"requested", "connected"}
  /\ row' = Disconnected(row, c, via)

(* POST /api/listeners/connected: markConnected                             *)
MarkConnected(c) ==
  row' = IF MayConnect(row, c) THEN [row EXCEPT ![c].status = "connected"] ELSE row

(* POST /api/listeners/leave                                                *)
LeaveConnection(c) == row' = Disconnected(row, c, "left")

(* POST /api/listeners/heartbeat changes nothing the model keeps.           *)

-----------------------------------------------------------------------------
TableInit == row = [c \in Connection |-> NoRow]

(* Any calls in any order.                                                  *)
TableNext ==
  \/ \E s \in Stream, answer \in Connection : RequestConnection(s, answer)
  \/ \E c \in Connection, via \in Replacement, s \in Stream, answer \in 0 .. MaxConnection :
       ReplaceConnection(c, via, s, answer)
  \/ \E c \in Connection, via \in Replacement : CloseWithoutSuccessor(c, via)
  \/ \E c \in Connection : MarkConnected(c) \/ LeaveConnection(c)

TableSpec == TableInit /\ [][TableNext]_row

-----------------------------------------------------------------------------
(* Properties *)

(* The rows have the declared types.                                        *)
TableOK == row \in [Connection -> Row]

(* However often a switch or a reconnect is asked for, repeated or mixed    *)
(* with the other and with leaving, a connection has at most one successor  *)
(* of either kind, and then it was closed for that very reason              *)
(* (replaceConnection, canRecoverMissingSuccessor, the unique indexes).     *)
OneSuccessor ==
  \A c, d \in Connection :
    row[d].of = c =>
      /\ row[c].status = "disconnected"
      /\ row[c].reason = row[d].via
      /\ \A e \in Connection : row[e].of = c => e = d

(* A closed connection stays as it is: no late report of having connected,  *)
(* repeated leave or retried replacement opens it or rewrites why it was    *)
(* closed.                                                                 *)
ClosedStaysClosed ==
  [][\A c \in Connection : row[c].status = "disconnected" => row'[c] = row[c]]_row
=============================================================================
