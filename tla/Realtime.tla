------------------------------- MODULE Realtime -------------------------------
(***************************************************************************)
(* The live feed of the backend: SqliteChangeWatcher polls the database    *)
(* for rows with an id above its watermarks and ConnectionManager sends    *)
(* each of them to every WebSocket and every SSE queue.  All of it runs on *)
(* one asyncio loop, so a step lasts from one await to the next; the rows  *)
(* come from other processes at any moment.                                *)
(***************************************************************************)
EXTENDS Naturals, Sequences, SequencesExt

CONSTANTS
  None,       \* no watermark yet
  Sockets,    \* WebSocket connections
  Streams,    \* SSE connections
  MaxRows,    \* how many rows the other processes add to each table
  Limit,      \* rows fetched per table and poll (50, 20 and 20 in the code)
  MaxQueue,   \* events an SSE queue holds (100 in the code)
  Faults,     \* the kinds of fault that may strike, see Fault
  MaxFaults   \* how many of them may strike

\* The tables in the order in which poll_once reads them.
Kind == <<"dns_activity", "safety_alert", "device_status">>
Kinds == ToSet(Kind)

ASSUME RealtimeAssumption ==
  /\ None \notin Nat
  /\ Sockets \cap Streams = {}
  /\ Limit \in [Kinds -> Nat \ {0}]
  /\ MaxRows \in [Kinds -> Nat]
  /\ MaxQueue \in Nat \ {0}
  /\ Faults \subseteq {"read", "lookup", "restart", "network", "constructor"}
  /\ MaxFaults \in Nat

VARIABLES
  rows,      \* how many rows each table holds: their ids are 1 .. rows[k]
  mark,      \* the watcher's high-water mark in each table
  watch,     \* the poll in progress: where it is, its table, the fetched ids
  active,    \* _active_sockets
  subs,      \* the streams whose queue is in _sse_queues
  queue,     \* the events in a stream's queue
  conn,      \* where the handler of a connection is
  todo,      \* sockets the broadcast in progress has still to send to
  dead,      \* sockets whose send failed in this broadcast
  sent,      \* every event broadcast so far (history)
  pushed,    \* how many of them have reached the SSE queues (history)
  got,       \* what a connection was sent, in order (history)
  from,      \* the length of the feed when it was registered (history)
  faults

dbVars == <<rows>>
clientVars == <<active, subs, queue, conn, got, from>>
castVars == <<todo, dead, sent, pushed>>
vars == <<rows, mark, watch, active, subs, queue, conn, todo, dead,
          sent, pushed, got, from, faults>>

Clients == Sockets \cup Streams
Event == UNION {[kind: {k}, id: 1 .. MaxRows[k]] : k \in Kinds}
Poll == [pc: {"sleep", "row", "send"}, step: 1 .. 3, batch: Seq(Nat)]
Asleep == [pc |-> "sleep", step |-> 1, batch |-> <<>>]

RowsOK ==
  /\ rows \in [Kinds -> Nat] /\ mark \in [Kinds -> Nat \cup {None}]
  /\ \A k \in Kinds : rows[k] <= MaxRows[k] /\ (mark[k] # None => mark[k] <= rows[k])
  /\ faults \in 0 .. MaxFaults
CastOK ==
  /\ todo \subseteq Sockets /\ dead \subseteq Sockets
  /\ sent \in Seq(Event) /\ pushed \in 0 .. Len(sent)
ConnOK ==
  /\ active \subseteq Sockets /\ subs \subseteq Streams
  /\ conn \in [Clients -> {"out", "joining", "greeting", "open", "leaving"}]
SeenOK ==
  /\ queue \in [Streams -> Seq(Event)] /\ \A q \in Streams : Len(queue[q]) <= MaxQueue
  /\ got \in [Clients -> Seq(Event)] /\ from \in [Clients -> Nat]
TypeOK == RowsOK /\ watch \in Poll /\ CastOK /\ ConnOK /\ SeenOK

RealtimeInit ==
  /\ rows = [k \in Kinds |-> 0]
  /\ mark = [k \in Kinds |-> None]
  /\ watch = Asleep
  /\ active = {} /\ subs = {} /\ todo = {} /\ dead = {}
  /\ queue = [q \in Streams |-> <<>>]
  /\ conn = [c \in Clients |-> "out"]
  /\ sent = <<>> /\ pushed = 0
  /\ got = [c \in Clients |-> <<>>]
  /\ from = [c \in Clients |-> 0]
  /\ faults = 0

Fault(kind) ==
  /\ kind \in Faults /\ faults < MaxFaults
  /\ faults' = faults + 1

-----------------------------------------------------------------------------
(* The watcher.  watch.step is the table it is at.                         *)

Table == Kind[watch.step]

\* Another process commits a row.
Insert(k) ==
  /\ rows[k] < MaxRows[k]
  /\ rows' = [rows EXCEPT ![k] = @ + 1]
  /\ UNCHANGED <<mark, watch, clientVars, castVars, faults>>

\* The loop polls only while somebody is connected.
Wake == watch.pc = "sleep" /\ active \cup subs # {}

\* The first poll only takes the high-water marks.  When a read fails it has
\* set the first j of them; the next poll then takes the marks as initialised.
Initialize ==
  /\ Wake /\ mark["dns_activity"] = None
  /\ \E j \in 0 .. 3 :
       /\ mark' = [k \in Kinds |-> IF k \in ToSet(SubSeq(Kind, 1, j)) THEN rows[k] ELSE mark[k]]
       /\ IF j = 3 THEN UNCHANGED faults ELSE Fault("read")
  /\ UNCHANGED <<rows, watch, clientVars, castVars>>

\* The ids above a mark, oldest first, at most as many as the limit.
Fresh(k) ==
  LET n == IF rows[k] - mark[k] < Limit[k] THEN rows[k] - mark[k] ELSE Limit[k]
  IN  [i \in 1 .. n |-> mark[k] + i]

\* The poll comes to the table, at its start or after the rows of the one before.
Due(i) ==
  IF i = 1 THEN Wake /\ mark["dns_activity"] # None
  ELSE watch.pc = "row" /\ watch.batch = <<>> /\ watch.step = i - 1

Fetch ==
  /\ \E i \in 1 .. 3 :
       /\ Due(i) /\ mark[Kind[i]] # None
       /\ watch' = [pc |-> "row", step |-> i, batch |-> Fresh(Kind[i])]
  /\ UNCHANGED <<rows, mark, clientVars, castVars, faults>>

\* The query fails, or compares the id with a mark that was never set: the
\* exception ends the poll.
FetchFails ==
  /\ \E i \in 1 .. 3 :
       Due(i) /\ IF mark[Kind[i]] = None THEN UNCHANGED faults ELSE Fault("read")
  /\ watch' = Asleep
  /\ UNCHANGED <<rows, mark, clientVars, castVars>>

\* The mark moves to the row; then broadcast takes the lock and the sockets.
TakeRowTo(id) ==
  /\ watch.pc = "row" /\ watch.batch # <<>>
  /\ mark' = [mark EXCEPT ![Table] = id]
  /\ sent' = Append(sent, [kind |-> Table, id |-> Head(watch.batch)])
  /\ watch' = [watch EXCEPT !.pc = "send", !.batch = Tail(@)]
  /\ todo' = active /\ dead' = {}
  /\ UNCHANGED <<rows, clientVars, pushed, faults>>

\* Mutant: the mark stays behind.
TakeRowUnmarked == TakeRowTo(mark[Table])

TakeRow == TakeRowTo(Head(watch.batch))

\* Between the mark and the broadcast of an alert the device's name is read.
LookupFails ==
  /\ watch.pc = "row" /\ watch.batch # <<>> /\ Table = "safety_alert"
  /\ Fault("lookup")
  /\ mark' = [mark EXCEPT ![Table] = Head(watch.batch)]
  /\ watch' = Asleep
  /\ UNCHANGED <<rows, clientVars, castVars>>

EndPoll ==
  /\ watch.pc = "row" /\ watch.batch = <<>> /\ watch.step = 3
  /\ watch' = Asleep
  /\ UNCHANGED <<rows, mark, clientVars, castVars, faults>>

\* One socket of the broadcast; the await returns when the peer has room, as
\* late as the peer likes, or raises when the connection is gone.
SendTo(s, rest) ==
  /\ watch.pc = "send" /\ s \in todo
  /\ todo' = rest
  /\ IF conn[s] = "open"
     THEN got' = [got EXCEPT ![s] = Append(@, Last(sent))] /\ UNCHANGED dead
     ELSE dead' = dead \cup {s} /\ UNCHANGED got
  /\ UNCHANGED <<rows, mark, watch, active, subs, queue, conn, from, sent, pushed, faults>>

\* Mutants: a failed send ends the loop over the sockets, or hangs it.
SendStops(s) == SendTo(s, IF conn[s] = "open" THEN todo \ {s} ELSE {})
SendHangs(s) == conn[s] = "open" /\ SendTo(s, todo \ {s})

Send(s) == SendTo(s, todo \ {s})

\* The queues that have no room.  Mutant: a queue without a limit.
FullNever == {}
Full == {q \in subs : Len(queue[q]) >= MaxQueue}

\* Mutant: a full queue makes room for the event.
OfferedToAll ==
  [q \in Streams |-> IF q \in Full THEN Append(Tail(queue[q]), Last(sent))
                     ELSE IF q \in subs THEN Append(queue[q], Last(sent)) ELSE queue[q]]

Offered ==
  [q \in Streams |-> IF q \in subs \ Full THEN Append(queue[q], Last(sent)) ELSE queue[q]]

\* The sockets are served: the lock goes, and the event is put in every queue
\* that has room.  A queue that is full loses its subscription.
Push ==
  /\ watch.pc = "send" /\ todo = {}
  /\ active' = active \ dead
  /\ queue' = Offered
  /\ subs' = subs \ Full
  /\ dead' = {}
  /\ pushed' = Len(sent)
  /\ watch' = [watch EXCEPT !.pc = "row"]
  /\ UNCHANGED <<rows, mark, conn, got, from, todo, sent, faults>>

-----------------------------------------------------------------------------
(* WebSocket connections.  The lock is held across an await only by the    *)
(* broadcast, so a handler waits for it exactly while one is sending.      *)

Unlocked == watch.pc # "send"

\* The history of a connection ends with it.
Forget(c) == got' = [got EXCEPT ![c] = <<>>] /\ from' = [from EXCEPT ![c] = 0]

Accept(s) ==
  /\ conn[s] = "out" /\ s \notin active
  /\ conn' = [conn EXCEPT ![s] = "joining"]
  /\ UNCHANGED <<rows, mark, watch, active, subs, queue, got, from, castVars, faults>>

Join(s) ==
  /\ conn[s] = "joining" /\ Unlocked
  /\ active' = active \cup {s}
  /\ conn' = [conn EXCEPT ![s] = "open"]
  /\ got' = [got EXCEPT ![s] = <<>>]
  /\ from' = [from EXCEPT ![s] = Len(sent)]
  /\ UNCHANGED <<rows, mark, watch, subs, queue, castVars, faults>>

\* The peer is gone: the handler's receive or send raises.  A handler that still
\* waits for the lock hears of it only once the socket is registered.
Lose(s) ==
  /\ conn[s] = "open"
  /\ conn' = [conn EXCEPT ![s] = "leaving"]
  /\ UNCHANGED <<rows, mark, watch, active, subs, queue, got, from, castVars, faults>>

Leave(s) ==
  /\ conn[s] = "leaving" /\ Unlocked
  /\ active' = active \ {s}
  /\ conn' = [conn EXCEPT ![s] = "out"]
  /\ Forget(s)
  /\ UNCHANGED <<rows, mark, watch, subs, queue, castVars, faults>>

-----------------------------------------------------------------------------
(* SSE connections.                                                        *)

Subscribe(q) ==
  /\ conn[q] = "out" /\ q \notin subs
  /\ subs' = subs \cup {q}
  /\ conn' = [conn EXCEPT ![q] = "greeting"]
  /\ queue' = [queue EXCEPT ![q] = <<>>]
  /\ got' = [got EXCEPT ![q] = <<>>]
  /\ from' = [from EXCEPT ![q] = pushed]
  /\ UNCHANGED <<rows, mark, watch, active, castVars, faults>>

\* The generator enters its try block only after the greeting.
EnterStream(q) ==
  /\ conn[q] = "greeting"
  /\ conn' = [conn EXCEPT ![q] = "open"]
  /\ UNCHANGED <<rows, mark, watch, active, subs, queue, got, from, castVars, faults>>

Deliver(q) ==
  /\ conn[q] = "open" /\ queue[q] # <<>>
  /\ got' = [got EXCEPT ![q] = Append(@, Head(queue[q]))]
  /\ queue' = [queue EXCEPT ![q] = Tail(@)]
  /\ UNCHANGED <<rows, mark, watch, active, subs, conn, from, castVars, faults>>

\* The client goes.  Its queue is taken back by the finally clause, which a
\* generator that is still at the greeting has not reached.
Abandon(q) ==
  /\ conn[q] \in {"greeting", "open"}
  /\ subs' = IF conn[q] = "open" THEN subs \ {q} ELSE subs
  /\ conn' = [conn EXCEPT ![q] = "out"]
  /\ queue' = IF q \in subs' THEN queue ELSE [queue EXCEPT ![q] = <<>>]
  /\ Forget(q)
  /\ UNCHANGED <<rows, mark, watch, active, castVars, faults>>

\* The backend stops and starts again: watcher.stop cancels the task wherever
\* it awaits, and every connection and watermark is gone.
Restart ==
  /\ Fault("restart")
  /\ mark' = [k \in Kinds |-> None]
  /\ watch' = Asleep
  /\ active' = {} /\ subs' = {} /\ todo' = {} /\ dead' = {}
  /\ queue' = [q \in Streams |-> <<>>]
  /\ conn' = [c \in Clients |-> "out"]
  /\ sent' = <<>> /\ pushed' = 0
  /\ got' = [c \in Clients |-> <<>>]
  /\ from' = [c \in Clients |-> 0]
  /\ UNCHANGED rows
-----------------------------------------------------------------------------
(***************************************************************************)
(* Properties.                                                             *)
(***************************************************************************)

\* A connected client received, with what waits in its queue, an
\* unbroken stretch of the feed from the moment it was registered: nothing is
\* left out, doubled or reordered, whoever else connects, stalls or breaks off.
StreamIsSegment ==
  \A c \in {d \in Clients : conn[d] # "out"} :
    LET seen == IF c \in Streams THEN got[c] \o queue[c] ELSE got[c]
    IN  seen = SubSeq(sent, from[c] + 1, from[c] + Len(seen))

\* And nothing that has been broadcast is missing at its end.
StreamIsComplete ==
  /\ \A s \in active : conn[s] = "open" =>
       from[s] + Len(got[s]) = IF s \in todo THEN Len(sent) - 1 ELSE Len(sent)
  /\ \A q \in subs : conn[q] # "out" => from[q] + Len(got[q]) + Len(queue[q]) = pushed

\* The rows of a table are broadcast in the order of their ids, each once, and
\* one is skipped only where an error struck between the watermark and the
\* broadcast.
FeedInOrder ==
  \A i \in DOMAIN sent : LET k == sent[i].kind IN
    /\ \A j \in DOMAIN sent : i < j /\ sent[j].kind = k => sent[i].id < sent[j].id
    /\ sent[i].id <= mark[k]
    /\ faults = 0 => \A n \in sent[i].id .. mark[k] :
                      \E j \in DOMAIN sent : sent[j] = [kind |-> k, id |-> n]

Listening == active \cup subs # {}

\* A table whose mark, or the mark of one read before it, was never taken.
Deaf(k) == \E i, j \in 1 .. 3 : i <= j /\ Kind[j] = k /\ mark[Kind[i]] = None

\* While somebody listens every row is broadcast in the end, after failed
\* reads and restarts too.  The exception is a first poll that failed half way:
\* DNS activity goes on, and the tables whose mark it left out stay silent.
FeedCatchesUp ==
  <>[]Listening =>
    <>[]( /\ pushed = Len(sent) /\ mark["dns_activity"] = rows["dns_activity"]
          /\ \A k \in Kinds : mark[k] = rows[k] \/ Deaf(k) )
=============================================================================
